------------------------------ MODULE Scheduler ------------------------------
(* The work scheduler (src/crates/ikigai-scheduler/src/lib.rs): tasks spawned *)
(* onto a fixed pool, each attached to a worker when one is free, parked while *)
(* it joins the tasks it fanned out, and counted.  The inline backend is the  *)
(* pool of one worker whose tasks attach only while their spawner is parked.  *)
EXTENDS Naturals, FiniteSets

CONSTANTS
    Tasks,      \* the tasks that may be spawned
    Workers,    \* Scheduler::threads
    Inline,     \* whether this is the single-threaded backend
    Outside     \* the host's own thread, in Scheduler::run

ASSUME SchedulerAssumption ==
    /\ Workers \in Nat \ {0} /\ Inline \in BOOLEAN
    /\ Inline => Workers = 1
    /\ Outside \notin Tasks /\ IsFiniteSet(Tasks)

VARIABLES
    place,      \* per task: "unborn", "queued", "attached", "parked", "done", "lost"
    parent,     \* per task: who spawned it
    begun,      \* the tasks polled at least once
    spawned, active, completed  \* Counters

vars == <<place, parent, begun, spawned, active, completed>>

Init ==
    /\ place = [t \in Tasks |-> "unborn"]
    /\ parent = [t \in Tasks |-> Outside]
    /\ begun = {}
    /\ spawned = 0 /\ active = 0 /\ completed = 0

Attached == {t \in Tasks : place[t] = "attached"}
Children(t) == {c \in Tasks : place[c] # "unborn" /\ parent[c] = t}
Ended(t) == place[t] \in {"done", "lost"}
Joined(t) == \A c \in Children(t) : Ended(c)
Put(t, where) == place' = [place EXCEPT ![t] = where]

(* Its handle went with the task that held it. *)
Orphan(t) == \E by \in Tasks : parent[t] = by /\ place[by] = "lost"

(* spawn, from the host's thread or from a task running on a worker. *)
Spawn(t, by) ==
    /\ place[t] = "unborn"
    /\ by = Outside \/ by \in Attached
    /\ Put(t, "queued")
    /\ parent' = [parent EXCEPT ![t] = by]
    /\ spawned' = spawned + 1
    /\ UNCHANGED <<begun, active, completed>>

(* A free worker polls it.  Inline, its spawner's join is what polls it.      *)
Driven(t) == Inline => \A by \in Tasks : parent[t] = by => place[by] = "parked"

CountEveryPoll(t) == active' = active + 1
CountFirstPoll(t) == active' = IF t \in begun THEN active ELSE active + 1

Attach(t) ==
    /\ place[t] = "queued" /\ Driven(t) /\ ~Orphan(t)
    /\ Cardinality(Attached) < Workers
    /\ Put(t, "attached")
    /\ begun' = begun \cup {t}
    /\ CountFirstPoll(t)
    /\ UNCHANGED <<parent, spawned, completed>>

(* Joining tasks that have not ended: the worker is given back. *)
Blocked == "attached"
Parked == "parked"

Park(t) ==
    /\ place[t] = "attached" /\ ~Joined(t)
    /\ Put(t, Parked)
    /\ UNCHANGED <<parent, begun, spawned, active, completed>>

Wake(t) ==
    /\ place[t] = "parked" /\ Joined(t)
    /\ Put(t, "queued")
    /\ UNCHANGED <<parent, begun, spawned, active, completed>>

Complete(t) ==
    /\ place[t] = "attached" /\ Joined(t)
    /\ Put(t, "done")
    /\ active' = active - 1
    /\ completed' = completed + 1
    /\ UNCHANGED <<parent, begun, spawned>>

(* A panic unwinds the task, or its handle is dropped: no counter follows.    *)
UncountDropped == active' = active - 1
LeaveCounts == active' = active

Lose(t) ==
    /\ place[t] \in {"queued", "attached", "parked"}
    /\ Inline => Children(t) \cap Attached = {}
    /\ Put(t, "lost")
    /\ LeaveCounts
    /\ UNCHANGED <<parent, begun, spawned, completed>>

TaskStep(t) == Attach(t) \/ Park(t) \/ Wake(t) \/ Complete(t)

Next ==
    \E t \in Tasks :
        TaskStep(t) \/ Lose(t) \/ \E by \in Tasks \cup {Outside} : Spawn(t, by)

Spec == Init /\ [][Next]_vars

(* A task the pool can poll is polled, a task polled returns or parks, and a  *)
(* dropped handle cancels its task.                                           *)
FairSpec ==
    /\ Spec
    /\ \A t \in Tasks :
        /\ SF_vars(Attach(t))
        /\ WF_vars(Park(t) \/ Wake(t) \/ Complete(t))
        /\ WF_vars(Orphan(t) /\ Lose(t))

-----------------------------------------------------------------------------
TypeOK ==
    /\ place \in [Tasks -> {"unborn", "queued", "attached", "parked", "done", "lost"}]
    /\ parent \in [Tasks -> Tasks \cup {Outside}]
    /\ begun \subseteq Tasks
    /\ spawned \in Nat /\ active \in Nat /\ completed \in Nat

(* The counters of urn:kernel:scheduler: spawned and completed count exactly, *)
(* and active counts the tasks begun and not completed, the lost ones and the *)
(* parked ones among them.                                                    *)
Born == {t \in Tasks : place[t] # "unborn"}
Done == {t \in Tasks : place[t] = "done"}
Begun == {t \in begun : place[t] # "done"}

StatsAddUp ==
    /\ spawned = Cardinality(Born)
    /\ completed = Cardinality(Done)
    /\ active = Cardinality(Begun)

(* Nothing runs, parks or completes that was not polled, and nothing is polled *)
(* that was not spawned.                                                       *)
BegunFirst ==
    \A t \in Tasks :
        /\ place[t] \in {"attached", "parked", "done"} => t \in begun
        /\ t \in begun => place[t] # "unborn"

StatsInv == TypeOK /\ BegunFirst /\ StatsAddUp

(* "It must PARK (free the worker) so the children can run": however deep the *)
(* fan-out and however few the workers, every task spawned ends.              *)
EveryTaskEnds == \A t \in Tasks : place[t] # "unborn" ~> Ended(t)

(* "active: Tasks currently running (attached to a worker)." *)
(* It does not hold: README, Disagreements.                                   *)
ActiveIsAttached == active = Cardinality(Attached)
=============================================================================
