------------------------------- MODULE Discovery -------------------------------
(* How a kernel is found on the local network (crates/ikigai-discovery/src/   *)
(* lib.rs): the announcer, which keeps its record at a multicast DNS          *)
(* responder in line with the host's addresses; and the browser a process     *)
(* starts at its first listing (crates/ikigai-embedded/src/lib.rs,            *)
(* browse_in), which hears records and hears them leave.                      *)
(* Multicast is best-effort: what is registered may be heard late or never,   *)
(* and a record may be counted gone, for want of an answer, while it stands.  *)
EXTENDS Naturals

CONSTANTS
    Hosts,      \* the sets of addresses the host may have
    Routable,   \* the addresses another machine could dial
    Callers,    \* those who list the peers
    TTL,        \* WITHDRAWN_TTL
    MaxEdits, MaxFaults     \* bounds: changes of address, failures of a check

NoSet == {"none"}

DiscoveryAssumption ==
    /\ \A h \in Hosts : h \cap NoSet = {}
    /\ TTL \in Nat \ {0} /\ MaxEdits \in Nat /\ MaxFaults \in Nat

VARIABLES
    host,       \* the addresses it has
    edits, faults,
    run,        \* the announcement: "off", "up"
    advertised, withheld, last_failure,
    registered, \* the record the responder answers with
    log,        \* the last line: a record's addresses, NoSet (withheld), or {"failed"}
    slot,       \* BROWSER: "empty", "up" or "failed"
    caller,     \* per caller: "idle", "listening", "listed", "refused"
    cold,       \* the callers answered by a browse that had not listened first
    warm,       \* it has
    present, age    \* what is heard of the kernel; how long since it left

announcer == <<run, advertised, withheld, last_failure, registered, log>>
world == <<host, edits, faults>>
browser == <<slot, caller, cold, warm, present, age>>
vars == <<world, announcer, browser>>

Never == TTL

Init ==
    /\ host \in Hosts /\ edits = 0 /\ faults = 0
    /\ run = "off" /\ advertised = NoSet /\ withheld = NoSet /\ last_failure = "none"
    /\ registered = NoSet /\ log = NoSet
    /\ slot = "empty" /\ caller = [c \in Callers |-> "idle"] /\ cold = {} /\ warm = FALSE
    /\ present = NoSet /\ age = Never

(* DHCP, sleep and wake, another network. *)
Move(h) ==
    /\ edits < MaxEdits /\ h # host
    /\ edits' = edits + 1 /\ host' = h
    /\ UNCHANGED <<faults, announcer, browser>>

-----------------------------------------------------------------------------
(* HostAddr::is_routable: a link-local or loopback address is none.           *)
Dialable(h) == h \cap Routable # {}

Fault == faults < MaxFaults /\ faults' = faults + 1

(* Announcer::failed: the same error is not reported again.                   *)
Failed(why) ==
    /\ Fault /\ last_failure' = why
    /\ log' = IF last_failure = why THEN log ELSE {"failed"}
    /\ UNCHANGED <<advertised, registered>>

(* No record without a routable address; the goodbye may not go out.          *)
Withhold ==
    /\ ~Dialable(host)
    /\ advertised' = NoSet /\ withheld' = host
    /\ log' = IF advertised # NoSet \/ withheld # host THEN NoSet ELSE log
    /\ \/ registered' = NoSet /\ UNCHANGED faults
       \/ advertised # NoSet /\ Fault /\ UNCHANGED registered
    /\ UNCHANGED last_failure

(* register replaces the record in place.                                     *)
Register ==
    /\ Dialable(host) /\ advertised # host
    /\ withheld' = NoSet
    /\ \/ /\ advertised' = host /\ registered' = host /\ log' = host
          /\ last_failure' = "none" /\ UNCHANGED faults
       \/ Failed("register")

Stands ==
    /\ Dialable(host) /\ advertised = host
    /\ withheld' = NoSet
    /\ UNCHANGED <<faults, advertised, last_failure, registered, log>>

CannotRead == Failed("read") /\ UNCHANGED withheld

(* Announcer::check, at the start and at every interval.                      *)
Check ==
    /\ run = "up"
    /\ CannotRead \/ Withhold \/ Register \/ Stands
    /\ UNCHANGED <<host, edits, run, browser>>

Announce ==
    /\ run = "off" /\ run' = "up"
    /\ advertised' = NoSet /\ withheld' = NoSet /\ last_failure' = "none" /\ log' = NoSet
    /\ UNCHANGED <<world, registered, browser>>

(* Dropped, with a goodbye; or killed.  Its responder ends with it.           *)
Stop ==
    /\ run = "up" /\ run' = "off"
    /\ advertised' = NoSet /\ registered' = NoSet
    /\ UNCHANGED <<world, withheld, last_failure, log, browser>>

-----------------------------------------------------------------------------
(* The browser's thread: a record is resolved; it is removed, because a       *)
(* goodbye came or no answer did.                                             *)
Resolved ==
    /\ slot = "up" /\ registered # NoSet
    /\ present' = registered /\ age' = Never
    /\ UNCHANGED <<world, announcer, slot, caller, cold, warm>>

Removed ==
    /\ slot = "up" /\ present # NoSet
    /\ present' = NoSet /\ age' = 0
    /\ UNCHANGED <<world, announcer, slot, caller, cold, warm>>

Tick ==
    /\ age < TTL /\ age' = age + 1
    /\ UNCHANGED <<world, announcer, slot, caller, cold, warm, present>>

NeverUnknown == IF present # NoSet THEN "present" ELSE IF age <= TTL THEN "withdrawn" ELSE "unknown"
Presence == IF present # NoSet THEN "present" ELSE IF age < TTL THEN "withdrawn" ELSE "unknown"

(* browse_in: the first listing starts the browse, and listens a while; its    *)
(* failure is kept as its success is.                                         *)
Answered(c, how) == caller' = [caller EXCEPT ![c] = how]

List(c) ==
    /\ caller[c] = "idle"
    /\ \/ /\ slot = "empty" /\ slot' = "up" /\ Answered(c, "listening") /\ UNCHANGED cold
       \/ slot = "empty" /\ slot' = "failed" /\ Answered(c, "refused") /\ UNCHANGED cold
       \/ slot = "failed" /\ Answered(c, "refused") /\ UNCHANGED <<slot, cold>>
       \/ /\ slot = "up" /\ Answered(c, "listed")
          /\ cold' = IF warm THEN cold ELSE cold \cup {c}
          /\ UNCHANGED slot
    /\ UNCHANGED <<world, announcer, warm, present, age>>

Listen(c) ==
    /\ caller[c] = "listening" /\ Answered(c, "listed") /\ warm' = TRUE
    /\ UNCHANGED <<world, announcer, slot, cold, present, age>>

-----------------------------------------------------------------------------
Next ==
    \/ \E h \in Hosts : Move(h)
    \/ Announce \/ Check \/ Stop
    \/ Resolved \/ Removed \/ Tick
    \/ \E c \in Callers : List(c) \/ Listen(c)

Spec == Init /\ [][Next]_vars

(* The watcher's interval passes, and time. *)
FairSpec == Spec /\ WF_vars(Check) /\ WF_vars(Tick)

-----------------------------------------------------------------------------
(* "A record with no routable address is never registered", and what the log   *)
(* said last of a live announcement is what is advertised, a failure aside.   *)
RecordAsSaid ==
    /\ registered # NoSet => Dialable(registered)
    /\ run = "up" /\ log # {"failed"} => advertised = log

(* "A peer never sees a false withdrawal": the record goes only with the last *)
(* routable address, or with the announcement.                                *)
NoFalseGoodbye ==
    [][registered # NoSet /\ registered' = NoSet => ~Dialable(host) \/ run' = "off"]_vars

(* "An agent started at login, before DHCP finished, announces as soon as the *)
(* LAN has an address": once the addresses stay as they are, the record comes *)
(* to hold exactly them, through what failures there are; or none of them     *)
(* could be dialled, and it is withheld.                                      *)
Follows ==
    IF Dialable(host) THEN advertised = host /\ registered = host ELSE advertised = NoSet
ComesToFollow == run = "up" /\ edits = MaxEdits ~> run = "off" \/ Follows

(* "A negative must not be permanent". *)
NotForEver == Presence = "withdrawn" ~> Presence # "withdrawn"

FoundWhereItIs == []RecordAsSaid /\ NoFalseGoodbye /\ ComesToFollow /\ NotForEver

(* A failed registration is what the log says last: it does not hold, nor the *)
(* next: README, Disagreements.                                               *)
FailureTold == run = "up" /\ last_failure = "register" => log = {"failed"}
ListensFirst == cold = {}
=============================================================================
