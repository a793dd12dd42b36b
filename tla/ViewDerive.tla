------------------------------ MODULE ViewDerive ------------------------------
(* urn:view:derive (src/crates/ikigai-view/src/lib.rs): one pass reads what    *)
(* the consolidated calendar should hold and what it holds, deletes what is    *)
(* gone or changed and creates what is new or changed, one kernel request at a *)
(* time.  A breaker counts the passes in a row that changed something and, at  *)
(* its limit, pauses the view for good.  Several threads run passes.           *)
EXTENDS Integers, FiniteSets

CONSTANTS
    Events, Versions,   \* an event is absent (0) or has one of the versions
    Passes,             \* the passes that may be running at once
    Failing,            \* events whose create or delete always fails
    Flaky,              \* events whose create or delete fails at times
    Lossy,              \* events whose copy never reads back as it was written
    CHURN_LIMIT,
    MaxEdits            \* bound on the edits of the sources

ASSUME ViewDeriveAssumption ==
    /\ 0 \notin Versions /\ Failing \subseteq Events /\ Flaky \subseteq Events /\ Lossy \subseteq Events
    /\ IsFiniteSet(Passes) /\ CHURN_LIMIT \in Nat \ {0} /\ MaxEdits \in Nat

VARIABLES
    desired,    \* what the org agenda and the sources state
    view,       \* what the view calendar holds
    edits,
    churn, tripped,     \* DeriveBreaker
    unconverged,        \* passes that recorded a change since one that recorded none
    at,         \* per pass: "idle", "desired", "view", "apply", "trip"
    want, have, \* per pass: its two readings
    todo,       \* per pass: the requests it has still to issue
    changed     \* per pass: whether it created, deleted or failed at something

vars == <<desired, view, edits, churn, tripped, unconverged, at, want, have, todo, changed>>
outside == <<desired, edits>>
breaker == <<churn, tripped, unconverged>>

Absent == [e \in Events |-> 0]

Init ==
    /\ desired \in [Events -> Versions \union {0}] /\ view = Absent /\ edits = 0
    /\ churn = 0 /\ tripped = FALSE /\ unconverged = 0
    /\ at = [p \in Passes |-> "idle"]
    /\ want = [p \in Passes |-> Absent] /\ have = [p \in Passes |-> Absent]
    /\ todo = [p \in Passes |-> {}] /\ changed = [p \in Passes |-> FALSE]

Go(p, where) == at' = [at EXCEPT ![p] = where]

Edit(e, v) ==
    /\ edits < MaxEdits /\ v # desired[e]
    /\ desired' = [desired EXCEPT ![e] = v] /\ edits' = edits + 1
    /\ UNCHANGED <<view, breaker, at, want, have, todo, changed>>

-----------------------------------------------------------------------------
NeverPaused == FALSE
Paused == tripped

Begin(p) ==
    /\ at[p] = "idle" /\ ~Paused
    /\ Go(p, "desired") /\ changed' = [changed EXCEPT ![p] = FALSE]
    /\ UNCHANGED <<outside, view, breaker, want, have, todo>>

ReadDesired(p) ==
    /\ at[p] = "desired"
    /\ want' = [want EXCEPT ![p] = desired] /\ Go(p, "view")
    /\ UNCHANGED <<outside, view, breaker, have, todo, changed>>

(* A copy in the view differs from what it was made of by its calendar, and   *)
(* by a lossy field; normalizing drops the calendar.                          *)
Copy(e, v) == [calendar |-> "view", data |-> IF e \in Lossy THEN 0 - v ELSE v]
Original(v) == [calendar |-> "source", data |-> v]
AsItIs(event) == event
Normalized(event) == event.data

Differ(w, h, e) ==
    \/ (w[e] = 0) # (h[e] = 0)
    \/ w[e] # 0 /\ Normalized(Original(w[e])) # Normalized(Copy(e, h[e]))

(* In `removed': gone or changed.  In `added': new or changed.                *)
Removed(w, h) == {e \in Events : h[e] # 0 /\ Differ(w, h, e)}
Added(w, h) == {e \in Events : w[e] # 0 /\ Differ(w, h, e)}

ReadView(p) ==
    /\ at[p] = "view"
    /\ have' = [have EXCEPT ![p] = view]
    /\ todo' = [todo EXCEPT ![p] = {"delete"} \X Removed(want[p], view)
                                   \union {"create"} \X Added(want[p], view)]
    /\ Go(p, "apply")
    /\ UNCHANGED <<outside, view, breaker, want, changed>>

(* A reading that fails ends the pass, unrecorded.                            *)
Abandon(p) ==
    /\ at[p] \in {"desired", "view"}
    /\ Go(p, "idle")
    /\ UNCHANGED <<outside, view, breaker, want, have, todo, changed>>

Deletes(p) == {r \in todo[p] : r[1] = "delete"}

(* One request: it may fail, which is counted, and the pass goes on.  A       *)
(* delete of what is not there fails.                                         *)
Gone(r) == r[1] = "delete" /\ view[r[2]] = 0

Request(p, r, ok) ==
    /\ at[p] = "apply" /\ r \in todo[p] /\ (r[1] = "create" => Deletes(p) = {})
    /\ IF ok THEN r[2] \notin Failing /\ ~Gone(r) ELSE r[2] \in Failing \union Flaky \/ Gone(r)
    /\ view' = IF ~ok THEN view
               ELSE [view EXCEPT ![r[2]] = IF r[1] = "delete" THEN 0 ELSE want[p][r[2]]]
    /\ todo' = [todo EXCEPT ![p] = @ \ {r}]
    /\ changed' = [changed EXCEPT ![p] = TRUE]
    /\ UNCHANGED <<outside, breaker, at, want, have>>

-----------------------------------------------------------------------------
(* DeriveBreaker::record: the count, and a moment later the flag.             *)
TripSooner(n) == n + 2 >= CHURN_LIMIT
AtLimit(n) == n + 1 >= CHURN_LIMIT
NeverLess(n) == n
Reset(n) == 0

Record(p) ==
    /\ at[p] = "apply" /\ todo[p] = {}
    /\ IF changed[p]
       THEN /\ churn' = churn + 1 /\ unconverged' = unconverged + 1
            /\ Go(p, IF AtLimit(churn) THEN "trip" ELSE "idle")
       ELSE churn' = Reset(churn) /\ unconverged' = 0 /\ Go(p, "idle")
    /\ want' = [want EXCEPT ![p] = Absent] /\ have' = [have EXCEPT ![p] = Absent]
    /\ UNCHANGED <<outside, view, tripped, todo, changed>>

Trip(p) ==
    /\ at[p] = "trip"
    /\ tripped' = TRUE /\ Go(p, "idle")
    /\ UNCHANGED <<outside, view, churn, unconverged, want, have, todo, changed>>

Requests == {"delete", "create"} \X Events
Work(p) ==
    \/ ReadDesired(p) \/ ReadView(p) \/ Record(p) \/ Trip(p)
    \/ \E r \in Requests, ok \in BOOLEAN : Request(p, r, ok)

Next ==
    \/ \E e \in Events, v \in Versions \union {0} : Edit(e, v)
    \/ \E p \in Passes : Begin(p) \/ Work(p) \/ Abandon(p)

Spec == Init /\ [][Next]_vars

(* The timer's heartbeat begins passes for ever; a reading that is tried      *)
(* again and again is answered in the end, and so is a request for an event   *)
(* that can be written at all.                                                *)
Answered(p) ==
    /\ SF_vars(ReadDesired(p)) /\ SF_vars(ReadView(p))
    /\ \A r \in Requests : SF_vars(Request(p, r, TRUE))
FairSpec ==
    /\ Spec
    /\ \A p \in Passes : WF_vars(Begin(p) \/ Work(p)) /\ Answered(p)

-----------------------------------------------------------------------------
TypeOK ==
    /\ desired \in [Events -> Versions \union {0}] /\ view \in [Events -> Versions \union {0}]
    /\ edits \in 0 .. MaxEdits /\ tripped \in BOOLEAN
    /\ unconverged \in Nat /\ churn \in 0 .. unconverged
    /\ at \in [Passes -> {"idle", "desired", "view", "apply", "trip"}]
    /\ want \in [Passes -> [Events -> Versions \union {0}]]
    /\ have \in [Passes -> [Events -> Versions \union {0}]]
    /\ todo \in [Passes -> SUBSET Requests] /\ changed \in [Passes -> BOOLEAN]
    /\ \A p \in Passes : at[p] # "apply" => todo[p] = {}

(* The breaker contains a runaway "to a handful of passes": whatever does not *)
(* converge and however many threads run passes, no more than the limit, and  *)
(* those already running, write before one converges.                         *)
RunawayContained == unconverged < CHURN_LIMIT + Cardinality(Passes)

(* A converged pass ends the streak: the view is paused only by as many       *)
(* churning passes as the limit, with none between them that converged.       *)
PausedByAStreak ==
    [][\A p \in Passes : at[p] = "apply" /\ at'[p] = "trip" => unconverged' >= CHURN_LIMIT]_vars

(* Fewer edits than the limit, each request answered in the end: the view     *)
(* comes to hold what the sources state.                                      *)
Synced(e) == view[e] = desired[e]
Converges == <>[](\A e \in Events : Synced(e))

(* "a legitimate burst ... each of which converges on the next pass — never   *)
(* trips; only sustained non-convergence does".                               *)
(* It does not hold: README, Disagreements.                                   *)
BurstNeverTrips == Lossy \union Failing \union Flaky = {} => ~tripped

(* "One bad event must not abort the pass: everything else still syncs ...    *)
(* instead of wedging the whole view on one entry".                           *)
(* It does not hold: README, Disagreements.                                   *)
OthersSync == <>[](\A e \in Events \ Failing : Synced(e))

=============================================================================
