------------------------------- MODULE TimeJobs -------------------------------
(* The timed-job registry (src/crates/ikigai-time/src/lib.rs): schedule calls, *)
(* each starting a timer thread of its own; the threads' ticks; and the        *)
(* cancels, by the host or by a caller of urn:time:cancel.  One mutex guards   *)
(* the map of jobs, and no host code runs inside it: scheduling, firing and    *)
(* cancelling are each two critical sections with an unlocked stretch between. *)
EXTENDS Integers, FiniteSets

CONSTANTS
    Calls,      \* the schedule calls that may be made
    Scopes,     \* what a capability may grant; root grants all of them
    Specs,      \* the jobs asked for: [target, recurring, persistent, cap]
    Holders     \* the capabilities cancels are made under

Root == Scopes
Ids == 1 .. Cardinality(Calls)
NoSpec == [target |-> "none", recurring |-> FALSE, persistent |-> FALSE, cap |-> {}]

ASSUME TimeJobsAssumption ==
    /\ IsFiniteSet(Calls) /\ Holders \subseteq SUBSET Scopes
    /\ \A s \in Specs : s.recurring \in BOOLEAN /\ s.persistent \in BOOLEAN
                        /\ s.cap \subseteq Scopes

VARIABLES
    next_id,    \* Inner::next_id
    jobs,       \* Inner::jobs, id |-> [call, last, under, stale]
    ceiling,    \* Inner::ceiling
    step,       \* per call: how far schedule_inner, and later a cancel, has got
    spec, id,   \* per call: what it was asked for, and the id it reserved
    cancelled,  \* per call: the flag its TimerHandle sets
    timer,      \* per call: where its thread stands
    using,      \* per call: the capability the request in flight resolves under
    stopper     \* per call: the capability it was cancelled under

registryVars == <<next_id, jobs, ceiling, step, spec, id, cancelled, timer, using, stopper>>

Listed == DOMAIN jobs
JobOf(c) == jobs[id[c]]
IsListed(c) == \E i \in Listed : jobs[i].call = c

Clamp(bound, cap) == bound \cap cap
Covers(holder, recorded) == Clamp(holder, recorded) = recorded

RegistryInit ==
    /\ next_id = 1 /\ jobs = [i \in {} |-> 0] /\ ceiling = Root
    /\ step = [c \in Calls |-> "unmade"] /\ spec = [c \in Calls |-> NoSpec]
    /\ id = [c \in Calls |-> 0]
    /\ cancelled = [c \in Calls |-> FALSE]
    /\ timer = [c \in Calls |-> "none"]
    /\ using = [c \in Calls |-> {}] /\ stopper = [c \in Calls |-> {}]

-----------------------------------------------------------------------------
(* schedule_inner: an id under the lock, the thread without it, the record    *)
(* under the lock again.                                                      *)
SkippedId == next_id + 1
ReusedId == CHOOSE i \in Ids : i \notin Listed /\ \A k \in Ids \ Listed : i <= k
FreshId == next_id

Reserve(c, s) ==
    /\ step[c] = "unmade"
    /\ spec' = [spec EXCEPT ![c] = s]
    /\ id' = [id EXCEPT ![c] = FreshId]
    /\ next_id' = next_id + 1
    /\ step' = [step EXCEPT ![c] = "reserved"]
    /\ UNCHANGED <<jobs, ceiling, cancelled, timer, using, stopper>>

Start(c) ==
    /\ step[c] = "reserved"
    /\ timer' = [timer EXCEPT ![c] = "asleep"]
    /\ step' = [step EXCEPT ![c] = "started"]
    /\ UNCHANGED <<next_id, jobs, ceiling, spec, id, cancelled, using, stopper>>

NewRecord(c) == [call |-> c, last |-> "none", under |-> {}]

Insert(c) ==
    /\ step[c] = "started"
    /\ jobs' = [i \in Listed \union {id[c]} |->
                   IF i = id[c] THEN NewRecord(c) ELSE jobs[i]]
    /\ step' = [step EXCEPT ![c] = "listed"]
    /\ UNCHANGED <<next_id, ceiling, spec, id, cancelled, timer, using, stopper>>

-----------------------------------------------------------------------------
(* ThreadTimer's loop: sleep, look at the flag, tick, and again if recurring. *)
AfterTick(c) == IF spec[c].recurring THEN "asleep" ELSE "ended"
GiveUp(c) == "ended"
IdleTick(c) == AfterTick(c)

WakeTimer(c) ==
    /\ timer[c] = "asleep"
    /\ timer' = [timer EXCEPT ![c] = IF cancelled[c] THEN "ended" ELSE "ticking"]
    /\ UNCHANGED <<next_id, jobs, ceiling, step, spec, id, cancelled, using, stopper>>

(* fire, its first critical section: the record's target, verb and authority, *)
(* or nothing to do when there is no record under this id.                    *)
FireAnyway(c) == step[c] # "reserved"
MayFire(c) == id[c] \in Listed

Fire(c) ==
    /\ timer[c] = "ticking"
    /\ IF MayFire(c)
       THEN /\ timer' = [timer EXCEPT ![c] = "resolving"]
            /\ using' = [using EXCEPT ![c] = Clamp(ceiling, IF id[c] \in Listed
                                                THEN spec[JobOf(c).call].cap ELSE spec[c].cap)]
       ELSE /\ timer' = [timer EXCEPT ![c] = IdleTick(c)]
            /\ UNCHANGED using
    /\ UNCHANGED <<next_id, jobs, ceiling, step, spec, id, cancelled, stopper>>

(* The resolve, unlocked, and the fold of its outcome into the record that is *)
(* then under this id, if there is one.                                       *)
Fold(c, outcome) ==
    /\ timer[c] = "resolving"
    /\ jobs' = [i \in Listed |->
                   IF i = id[c] THEN [jobs[i] EXCEPT !.last = outcome, !.under = using[c]]
                   ELSE jobs[i]]
    /\ timer' = [timer EXCEPT ![c] = AfterTick(c)]
    /\ using' = [using EXCEPT ![c] = {}]
    /\ UNCHANGED <<next_id, ceiling, step, spec, id, cancelled, stopper>>

-----------------------------------------------------------------------------
(* cancel, cancel_target, cancel_all (under Root) and cancel_as,              *)
(* cancel_matching_as (under the caller's own capability): every match the    *)
(* caller covers leaves the map in one critical section ...                   *)
NotPersistent == {i \in Listed : ~spec[jobs[i].call].persistent}
Firing(target) == {i \in Listed : spec[jobs[i].call].target = target}
One(i) == {i} \intersect Listed

Removed(holder, matching) == {i \in matching : Covers(holder, spec[jobs[i].call].cap)}

Cancel(holder, matching) ==
    LET out == {jobs[i].call : i \in Removed(holder, matching)} IN
    /\ out # {}
    /\ jobs' = [i \in Listed \ Removed(holder, matching) |-> jobs[i]]
    /\ step' = [c \in Calls |-> IF c \in out THEN "removed" ELSE step[c]]
    /\ stopper' = [c \in Calls |-> IF c \in out THEN holder ELSE stopper[c]]
    /\ UNCHANGED <<next_id, ceiling, spec, id, cancelled, timer, using>>

(* ... and its timer's flag is set with the lock released.                    *)
DropHandle(c) == UNCHANGED cancelled
SetFlag(c) == cancelled' = [cancelled EXCEPT ![c] = TRUE]

StopTimer(c) ==
    /\ step[c] = "removed"
    /\ SetFlag(c)
    /\ step' = [step EXCEPT ![c] = "stopped"]
    /\ UNCHANGED <<next_id, jobs, ceiling, spec, id, timer, using, stopper>>

(* with_capability, on a clone the host kept.                                 *)
Narrow(cap) ==
    /\ Clamp(ceiling, cap) # ceiling
    /\ ceiling' = Clamp(ceiling, cap)
    /\ UNCHANGED <<next_id, jobs, step, spec, id, cancelled, timer, using, stopper>>

CancelAs(holder) ==
    \/ Cancel(holder, NotPersistent)
    \/ \E s \in Specs : Cancel(holder, Firing(s.target))
    \/ \E i \in Ids : Cancel(holder, One(i))

Schedule(c) == (\E s \in Specs : Reserve(c, s)) \/ Start(c) \/ Insert(c)
Tick(c) == WakeTimer(c) \/ Fire(c) \/ \E outcome \in {"ok", "failed"} : Fold(c, outcome)
RegistryNext ==
    \/ \E c \in Calls : Schedule(c) \/ Tick(c) \/ StopTimer(c)
    \/ \E holder \in Holders \union {Root} : Narrow(holder) \/ CancelAs(holder)

RegistrySpec == RegistryInit /\ [][RegistryNext]_registryVars

(* A call and a cancel run to their end, a sleeping thread wakes, and a       *)
(* resolve returns: the operating system's scheduling and the kernel's        *)
(* deadline.  Nobody need ever call.                                          *)
RegistryFairSpec ==
    /\ RegistrySpec
    /\ \A c \in Calls :
         /\ WF_registryVars(Start(c) \/ Insert(c))
         /\ WF_registryVars(Tick(c)) /\ WF_registryVars(StopTimer(c))

-----------------------------------------------------------------------------
RegistryTypeOK ==
    /\ next_id \in 1 .. Cardinality(Calls) + 1
    /\ Listed \subseteq Ids
    /\ \A i \in Listed : /\ jobs[i].call \in Calls /\ jobs[i].last \in {"none", "ok", "failed"}
                         /\ jobs[i].under \subseteq Scopes
    /\ ceiling \subseteq Scopes
    /\ step \in [Calls -> {"unmade", "reserved", "started", "listed", "removed", "stopped"}]
    /\ spec \in [Calls -> Specs \union {NoSpec}] /\ id \in [Calls -> Ids \union {0}]
    /\ cancelled \in [Calls -> BOOLEAN]
    /\ timer \in [Calls -> {"none", "asleep", "ticking", "resolving", "ended"}]
    /\ using \in [Calls -> SUBSET Scopes] /\ stopper \in [Calls -> SUBSET Scopes]

(* What a job's readout holds was read under no more than the job's own       *)
(* authority: a resolve still in flight when its job was cancelled folds into *)
(* nobody else's record, so a reader who covers the record's authority may be *)
(* shown the output (render).                                                 *)
OwnOutput ==
    \A i \in Listed : jobs[i].under \subseteq spec[jobs[i].call].cap

(* A caller never stops work it could not itself have scheduled, whether it   *)
(* names the job, its target or all of them.                                  *)
StoppedByItsEqual ==
    \A c \in Calls : step[c] \in {"removed", "stopped"} => spec[c].cap \subseteq stopper[c]

(* A listed recurring job has a thread that nothing has told to stop: the     *)
(* list never shows a job that will not run again.                            *)
ListedIsTicking ==
    \A i \in Listed :
        LET c == jobs[i].call IN
        spec[c].recurring => timer[c] # "ended" /\ ~cancelled[c]

(* fire's comment says a tick for a job no longer in the map does not fire:   *)
(* no request begins once a cancel has returned, or has even removed it.      *)
NoFireOnceRemoved ==
    [][\A c \in Calls : timer[c] # "resolving" /\ timer'[c] = "resolving" =>
          step[c] = "listed" \/ step'[c] = "listed"]_registryVars

(* A job is cancelled only by a caller who could have made it, and from then  *)
(* on no timer fires it.                                                      *)
StopsForGood == []StoppedByItsEqual /\ NoFireOnceRemoved

(* A cancelled job's thread ends: it does not tick over an empty record for   *)
(* ever.                                                                      *)
CancelledThreadsEnd ==
    \A c \in Calls : step[c] \in {"removed", "stopped"} ~> timer[c] = "ended"

(* A recurring job keeps being fired until somebody cancels it, also when its *)
(* first tick came before its record.                                         *)
RecurringKeepsFiring ==
    \A c \in Calls :
        step[c] = "listed" /\ spec[c].recurring
            ~> timer[c] = "resolving" \/ step[c] \in {"removed", "stopped"}

(* schedule_inner's comment calls a tick before the record benign, and the    *)
(* readout gives a job that has not run a next run: a listed one-shot has run *)
(* or has a thread left to run it.                                            *)
(* It does not hold: README, Disagreements.                                   *)
OneShotStillDue ==
    \A i \in Listed :
        LET c == jobs[i].call IN jobs[i].last = "none" => timer[c] # "ended"
=============================================================================
