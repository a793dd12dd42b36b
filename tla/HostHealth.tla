------------------------------ MODULE HostHealth ------------------------------
(* Whether a host does what it said it would (urn:host:health, crates/        *)
(* ikigai-embedded/src/lib.rs) for one recurring job of the timer             *)
(* (crates/ikigai-time/src/lib.rs): the stamps a run leaves, and the report   *)
(* that calls the job STALE when more than three of its intervals have passed  *)
(* since, the machine's sleep taken off.  Runs are dated by the wall clock,   *)
(* which somebody may set and which goes on while the machine sleeps; the     *)
(* uptime does not, and the two readings a stamp or a report is made of are   *)
(* made one after the other.                                                  *)
EXTENDS Integers

CONSTANTS
    Interval,   \* what the job declares
    MaxAwake, MaxAsleep, MaxSet     \* bounds: time awake, time asleep, settings of the clock

ASSUME HostHealthAssumption ==
    Interval \in Nat \ {0} /\ MaxAwake \in Nat /\ MaxAsleep \in Nat /\ MaxSet \in Nat

VARIABLES
    clock,      \* since the process began: time awake and asleep, and what the clock was set by
    measured,   \* SleepClock: the machine's sleep can be told
    job,        \* JobRecord: [last_run, asleep_at_last_run], or NeverRan
    timer,      \* its thread: [at: "asleep", "resolving" or "stamping"; due; stamp]
    report      \* [at: "idle", "timed" or "judging"; now, asleep_now]

vars == <<clock, measured, job, timer, report>>

Moment == [awake : Nat, asleep : Nat, set : Int]
Start == [awake |-> 0, asleep |-> 0, set |-> 0]

(* Clock::now: of a moment the code keeps no more than this. *)
Wall(m) == m.awake + m.asleep + m.set

NeverRan == [runs |-> FALSE, last_run |-> Start, asleep_at_last_run |-> 0]
Scheduled == [at |-> "asleep", due |-> clock.awake + Interval, stamp |-> Start]
Idle == [at |-> "idle", now |-> Start, asleep_now |-> 0]

Init ==
    /\ clock = Start /\ measured \in BOOLEAN
    /\ job = NeverRan
    /\ timer = Scheduled
    /\ report = Idle

-----------------------------------------------------------------------------
Passes ==
    /\ clock.awake < MaxAwake /\ clock' = [clock EXCEPT !.awake = @ + 1]
    /\ UNCHANGED <<measured, job, timer, report>>

Naps ==
    /\ clock.asleep < MaxAsleep /\ clock' = [clock EXCEPT !.asleep = @ + 1]
    /\ UNCHANGED <<measured, job, timer, report>>

SetClock(by) ==
    /\ clock.set + by \in -MaxSet .. MaxSet
    /\ clock' = [clock EXCEPT !.set = @ + by]
    /\ UNCHANGED <<measured, job, timer, report>>

-----------------------------------------------------------------------------
(* ThreadTimer: a wait that sleep does not shorten, and the tick.             *)
Wake ==
    /\ timer.at = "asleep" /\ clock.awake >= timer.due
    /\ timer' = [timer EXCEPT !.at = "resolving", !.due = 0]
    /\ UNCHANGED <<clock, measured, job, report>>

(* fire: the request came back; the clock is read, and then the sleep clock,  *)
(* before the lock.  A resolve may never come back.                           *)
Stamp ==
    /\ timer.at = "resolving"
    /\ timer' = [timer EXCEPT !.at = "stamping", !.stamp = clock]
    /\ UNCHANGED <<clock, measured, job, report>>

Fold ==
    /\ timer.at = "stamping"
    /\ job' = [runs |-> TRUE, last_run |-> timer.stamp, asleep_at_last_run |-> clock.asleep]
    /\ timer' = Scheduled
    /\ UNCHANGED <<clock, measured, report>>

(* The jobs file is edited: the job is scheduled anew, and a run of the old    *)
(* one under way has no record to fold into.                                  *)
Reload ==
    /\ job' = NeverRan /\ timer' = Scheduled
    /\ UNCHANGED <<clock, measured, report>>

-----------------------------------------------------------------------------
(* JobRegistry::health: the two clocks, then the records under the lock.      *)
ReadClock ==
    /\ report.at = "idle"
    /\ report' = [report EXCEPT !.at = "timed", !.now = clock]
    /\ UNCHANGED <<clock, measured, job, timer>>

ReadSleep ==
    /\ report.at = "timed"
    /\ report' = [report EXCEPT !.at = "judging", !.asleep_now = clock.asleep]
    /\ UNCHANGED <<clock, measured, job, timer>>

Judged ==
    /\ report.at = "judging"
    /\ report' = Idle
    /\ UNCHANGED <<clock, measured, job, timer>>

Next ==
    \/ Passes \/ Naps \/ \E by \in {-1, 1} : SetClock(by)
    \/ Wake \/ Stamp \/ Fold \/ Reload
    \/ ReadClock \/ ReadSleep \/ Judged

Spec == Init /\ [][Next]_vars

-----------------------------------------------------------------------------
(* What the report says of the job as it is judged.                           *)
AtLeast(bound, x) == IF x < bound THEN bound ELSE x
AtMost(bound, x) == IF x > bound THEN bound ELSE x

since_last == AtLeast(0, Wall(report.now) - Wall(job.last_run))

SinceBoot == AtMost(since_last, report.asleep_now)
asleep_since_last ==
    IF measured THEN AtMost(since_last, AtLeast(0, report.asleep_now - job.asleep_at_last_run))
    ELSE 0

STALE_CADENCES == 3
Limit == STALE_CADENCES * Interval

(* job_is_stale; the uptime is time awake. *)
Stale ==
    IF job.runs THEN since_last - asleep_since_last > Limit
    ELSE clock.awake > Limit

-----------------------------------------------------------------------------
TypeOK ==
    /\ clock \in Moment /\ measured \in BOOLEAN
    /\ job \in [runs : BOOLEAN, last_run : Moment, asleep_at_last_run : Nat]
    /\ timer \in [at : {"asleep", "resolving", "stamping"}, due : Nat, stamp : Moment]
    /\ report \in [at : {"idle", "timed", "judging"}, now : Moment, asleep_now : Nat]

(* How late the job is, and what a verdict may be off by: what the clock was  *)
(* set by in between, and the sleep that came between two readings of a pair. *)
Lateness == report.now.awake - job.last_run.awake
Slept == AtLeast(0, report.now.asleep - job.last_run.asleep)
SetAhead == AtLeast(0, report.now.set - job.last_run.set)
SetBack == AtLeast(0, job.last_run.set - report.now.set)
NapInStamp == job.asleep_at_last_run - job.last_run.asleep
NapInReport == report.asleep_now - report.now.asleep

(* "A job is not late for the minutes its machine was suspended", and sleep   *)
(* "can never excuse a stopped job": a job is called STALE only if it was not *)
(* run for more than three of its intervals awake, and is called so if it was *)
(* not, but for the clock being set, or a nap between two readings; where     *)
(* sleep cannot be told, what it slept may be held against it, never for it.  *)
VerdictIsDue ==
    report.at = "judging" /\ job.runs =>
        IF Stale
        THEN Lateness + SetAhead + NapInStamp + (IF measured THEN 0 ELSE Slept) > Limit
        ELSE Lateness - SetBack - NapInReport <= Limit

(* "A job that has NEVER run is not yet stale - it may simply be younger than *)
(* its first tick."                                                           *)
(* It does not hold: README, Disagreements.                                   *)
YoungIsNotStale == ~job.runs /\ clock.awake < timer.due => ~Stale
=============================================================================
