------------------------------ MODULE PolledFile ------------------------------
(* The two settings that a running process re-reads by polling the file's     *)
(* modification time (src/crates/ikigai-cli/src/main.rs): the grants behind   *)
(* an MCP session's capability and tool filter, and the web door's routes.    *)
(* Both load the file while starting, note its mtime when the poller starts,  *)
(* and load it again whenever the mtime has changed since they last looked.   *)
EXTENDS Naturals, Sequences

CONSTANTS Contents, Refused, Absent, MaxEdits,
    Coarse,     \* whether two edits may fall within the clock's resolution
    FailClosed, \* TRUE: the grants, refused = no authority; FALSE: the routes, kept
    Scopes,     \* what a grant may give
    Grant       \* the scopes a content gives

PolledFileAssumption ==
    /\ Refused \subseteq Contents /\ Absent \in Refused /\ MaxEdits \in Nat
    /\ Coarse \in BOOLEAN /\ FailClosed \in BOOLEAN /\ Grant \in [Contents \ Refused -> SUBSET Scopes]

VARIABLES
    file, mtime,    \* every content the file has had, and each one's mtime, 0 for no file
    phase,          \* "load", "filter", "arm", "sleep", "changed", "refilter", "refused"
    last,           \* the mtime the poller last saw
    fresh,          \* the version the poller has read and not yet put in force
    inforce,        \* the version in force, 0 for none
    shown,          \* the version the tool filter was read from
    start,          \* the version the session started with: its baseline
    armed           \* the file's length when the poller started

vars == <<file, mtime, phase, last, fresh, inforce, shown, start, armed>>

Init ==
    /\ \E c \in Contents : file = <<c>>
    /\ mtime = <<IF file[1] = Absent THEN 0 ELSE 1>>
    /\ phase = "load" /\ last = 0 /\ fresh = 0
    /\ inforce = 0 /\ shown = 0 /\ start = 0 /\ armed = 0

Latest == Len(file)
Now == file[Latest]

(* Two edits within the clock's resolution carry one mtime, no file has none. *)
Mtimes == {mtime[v] : v \in 1 .. Latest}
Newest == CHOOSE t \in Mtimes : \A u \in Mtimes : u <= t
Stamp(c) == IF c = Absent THEN {0} ELSE (IF Coarse THEN {Newest, Newest + 1} ELSE {Newest + 1}) \ {0}

Edit(c) ==
    /\ Latest <= MaxEdits /\ c # Now
    /\ file' = Append(file, c)
    /\ \E t \in Stamp(c) : mtime' = Append(mtime, t)
    /\ UNCHANGED <<phase, last, fresh, inforce, shown, start, armed>>

-----------------------------------------------------------------------------
(* The start: a content that does not read refuses it.                        *)
Load ==
    /\ phase = "load"
    /\ IF Now \in Refused
       THEN phase' = "refused" /\ UNCHANGED <<inforce, start>>
       ELSE phase' = "filter" /\ inforce' = Latest /\ start' = Latest
    /\ UNCHANGED <<file, mtime, last, fresh, shown, armed>>

LoadFilter ==
    /\ phase = "filter"
    /\ phase' = IF Now \in Refused THEN "refused" ELSE "arm"
    /\ shown' = IF Now \in Refused THEN shown ELSE Latest
    /\ UNCHANGED <<file, mtime, last, fresh, inforce, start, armed>>

(* Mounts dialled, peers probed; then the poller's thread takes its first     *)
(* reading.                                                                   *)
Arm ==
    /\ phase = "arm"
    /\ last' = mtime[Latest] /\ armed' = Latest /\ phase' = "sleep"
    /\ UNCHANGED <<file, mtime, fresh, inforce, shown, start>>

-----------------------------------------------------------------------------
Changed == mtime[Latest] # last

Poll ==
    /\ phase = "sleep" /\ Changed
    /\ last' = mtime[Latest] /\ phase' = "changed"
    /\ UNCHANGED <<file, mtime, fresh, inforce, shown, start, armed>>

(* What is in force when the file does not read.                              *)
OnRefusal == IF FailClosed THEN 0 ELSE inforce

Reload ==
    /\ phase = "changed"
    /\ fresh' = IF Now \in Refused THEN OnRefusal ELSE Latest
    /\ phase' = "refilter"
    /\ UNCHANGED <<file, mtime, last, inforce, shown, start, armed>>

(* The filter is read from the file again, and kept when that does not read;  *)
(* then what was read comes in force.                                         *)
Refilter ==
    /\ phase = "refilter"
    /\ shown' = IF Now \in Refused THEN shown ELSE Latest
    /\ inforce' = fresh /\ fresh' = 0
    /\ phase' = "sleep"
    /\ UNCHANGED <<file, mtime, last, start, armed>>

(* mcp_reloaded: never past the authority the session started with.           *)
Given(v) == IF v = 0 THEN {} ELSE Grant[file[v]]
Unbounded(baseline, given) == given
Reloaded(baseline, given) == baseline \intersect given
Held == Reloaded(Given(start), Given(inforce))

Next == (\E c \in Contents : Edit(c)) \/ Load \/ LoadFilter \/ Arm \/ Poll \/ Reload \/ Refilter

Spec == Init /\ [][Next]_vars

(* The process starts up and the poller wakes every second.                   *)
FairSpec == Spec /\ WF_vars(Load \/ LoadFilter \/ Arm) /\ WF_vars(Poll \/ Reload \/ Refilter)

-----------------------------------------------------------------------------
TypeOK ==
    /\ file \in Seq(Contents) /\ Len(file) \in 1 .. MaxEdits + 1 /\ Len(mtime) = Len(file)
    /\ \A v \in 1 .. Len(file) : mtime[v] \in 0 .. v
    /\ phase \in {"load", "filter", "arm", "sleep", "changed", "refilter", "refused"}
    /\ last \in 0 .. Len(file) /\ fresh \in 0 .. Len(file) /\ armed \in 0 .. Len(file)
    /\ inforce \in 0 .. Len(file) /\ shown \in 0 .. Len(file) /\ start \in 0 .. Len(file)
    /\ inforce # 0 => file[inforce] \notin Refused

(* A running session never holds more than it started with, whatever is       *)
(* written to the grants file and in whatever order.                          *)
Running == phase \in {"sleep", "changed", "refilter"}
NeverWider == [][Running => Held' \subseteq Given(start)]_vars

(* The file's present version came after the poller started, with an mtime of *)
(* its own.                                                                   *)
Stamped == Latest > armed /\ armed # 0 /\ \A v \in 1 .. Latest - 1 : mtime[Latest] # mtime[v]

(* Such a version is in the end in force if it reads; and if it does not, a   *)
(* session is in the end left with no authority and the routes stay.          *)
Settled ==
    IF Now \in Refused THEN FailClosed => inforce = 0 ELSE inforce = Latest /\ shown = Latest
StampedSettles == <>[]Stamped => []<>Settled

L == INSTANCE LiveFile
KeepsPromise == L!Spec

(* The routes are "hot-reloaded on change (no restart)".                      *)
(* It does not hold: README, Disagreements.                                   *)
Settles == <>(phase = "refused") \/ L!Settles

(* "A reload NARROWS live": a grants file at rest, which gives less than what *)
(* the session started with, in the end takes the rest away.                  *)
(* It does not hold: README, Disagreements.                                   *)
NarrowsLive ==
    <>(phase = "refused") \/ []<>(Now \in Refused \/ Held \subseteq Grant[Now])
=============================================================================
