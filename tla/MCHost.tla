-------------------------------- MODULE MCHost -------------------------------
(* What a host keeps running and keeps reading, one part in each behaviour:   *)
(* four tasks that fan out or chain on a pool of one worker; two schedule     *)
(* calls, of jobs with more and less authority, and the cancels; or a         *)
(* settings file edited while the host starts and runs: the jobs file; the    *)
(* names file, also written through the kernel; the grants behind an MCP      *)
(* session; the web door's routes.  Among the contents of each file are no    *)
(* file, two tables that read, and one that does not; as grants or routes a   *)
(* missing file does not read either.                                         *)
EXTENDS Scheduler, TimeJobs, StartupJobs, FiniteSetTheorems, TLAPS

CONSTANTS t1, t2, t3, t4

VARIABLES
    part,       \* "tasks", "registry", "jobs", "names", "grants" or "routes"
    nfile, ninforce, torn, attached, seenFrom, notices, nstep, nreading, wrote, refusal,
    pfile, mtime, phase, last, fresh, pinforce, shown, start, armed

namesVars == <<nfile, ninforce, torn, attached, seenFrom, notices, nstep, nreading, wrote,
               refusal>>
polledVars == <<pfile, mtime, phase, last, fresh, pinforce, shown, start, armed>>
all == <<part, vars, registryVars, jobsVars, namesVars, polledVars>>

MCTasks == {t1, t2, t3, t4}
Texts == {"absent", "one", "two", "bad"}

MCSpecs ==
    {[target |-> "clock", recurring |-> TRUE, persistent |-> TRUE, cap |-> {"read", "write"}],
     [target |-> "mail", recurring |-> TRUE, persistent |-> FALSE, cap |-> {"read"}],
     [target |-> "mail", recurring |-> FALSE, persistent |-> FALSE, cap |-> {"write"}]}

MCTable == [c \in Texts \ {"bad"} |->
              IF c = "absent" THEN {} ELSE IF c = "one" THEN {"poll"} ELSE {"poll", "judge"}]

Names == INSTANCE NamesLayer WITH
    Contents <- Texts, Refused <- {"bad"}, Absent <- "absent", MaxEdits <- 3,
    file <- nfile, inforce <- ninforce, step <- nstep, reading <- nreading

Polled == {"absent", "wide", "narrow", "bad"}
Unread == {"bad", "absent"}
Grant == [c \in {"wide", "narrow"} |-> IF c = "wide" THEN {"read", "write"} ELSE {"read"}]

Grants == INSTANCE PolledFile WITH
    Contents <- Polled, Refused <- Unread, Absent <- "absent", MaxEdits <- 3,
    Scopes <- {"read", "write"}, Coarse <- TRUE, FailClosed <- TRUE,
    file <- pfile, inforce <- pinforce
Routes == INSTANCE PolledFile WITH
    Contents <- Polled, Refused <- Unread, Absent <- "absent", MaxEdits <- 3,
    Scopes <- {"read", "write"}, Coarse <- TRUE, FailClosed <- FALSE,
    file <- pfile, inforce <- pinforce

ASSUME
    /\ Names!NamesLayerAssumption
    /\ Grants!PolledFileAssumption /\ Routes!PolledFileAssumption

MCInit ==
    /\ part \in {"tasks", "registry", "jobs", "names", "grants", "routes"}
    /\ Init /\ RegistryInit /\ JobsInit /\ Names!Init /\ Grants!Init
    /\ part # "jobs" => file = <<"absent">>
    /\ part # "names" => nfile = <<"absent">>
    /\ part \notin {"grants", "routes"} => pfile = <<"absent">>

(* The files of one part, the rest of the host as it was.                     *)
InTasks(A) == part = "tasks" /\ A
InPolled(A) == part \in {"grants", "routes"} /\ A

MCNext ==
    /\ part' = part
    /\ \/ /\ part = "tasks" /\ Next
          /\ UNCHANGED <<registryVars, jobsVars, namesVars, polledVars>>
       \/ /\ part = "registry" /\ RegistryNext
          /\ UNCHANGED <<vars, jobsVars, namesVars, polledVars>>
       \/ /\ part = "jobs" /\ JobsNext
          /\ UNCHANGED <<vars, registryVars, namesVars, polledVars>>
       \/ /\ part = "names" /\ Names!Next
          /\ UNCHANGED <<vars, registryVars, jobsVars, polledVars>>
       \/ /\ part = "grants" /\ Grants!Next
          /\ UNCHANGED <<vars, registryVars, jobsVars, namesVars>>
       \/ /\ part = "routes" /\ Routes!Next
          /\ UNCHANGED <<vars, registryVars, jobsVars, namesVars>>

(* The pool is fair; a polled file's process starts up, and its poller wakes  *)
(* every second.                                                              *)
Rise == Grants!Load \/ Grants!LoadFilter \/ Grants!Arm
PollGrants == part = "grants" /\ (Grants!Poll \/ Grants!Reload \/ Grants!Refilter)
PollRoutes == part = "routes" /\ (Routes!Poll \/ Routes!Reload \/ Routes!Refilter)

MCFairSpec ==
    /\ MCInit /\ [][MCNext]_all
    /\ \A t \in Tasks :
          /\ SF_vars(InTasks(Attach(t)))
          /\ WF_vars(InTasks(Park(t) \/ Wake(t) \/ Complete(t)))
          /\ WF_vars(InTasks(Orphan(t) /\ Lose(t)))
    /\ WF_polledVars(InPolled(Rise)) /\ WF_polledVars(PollGrants \/ PollRoutes)

KeepsPromise == Names!KeepsPromise

(* A session never comes to hold more than it started with, and an edit with  *)
(* an mtime of its own is in the end in force, or nothing is.                 *)
EditsSettle ==
    /\ Grants!NeverWider
    /\ <>[]Grants!Stamped =>
          []<>((part = "grants" => Grants!Settled) /\ (part = "routes" => Routes!Settled))

-----------------------------------------------------------------------------
(* The counters of urn:kernel:scheduler agree with the tasks, for every number *)
(* of tasks and workers and both backends.                                     *)

USE SchedulerAssumption

(* A finite set with one more member: what a counter follows.                 *)
LEMMA OneMore ==
    ASSUME NEW S, NEW T, NEW x, IsFiniteSet(S), x \notin S, T = S \cup {x}
    PROVE  Cardinality(T) = Cardinality(S) + 1
    BY FS_AddElement

(* And with one member less.                                                  *)
LEMMA OneLess ==
    ASSUME NEW S, NEW T, NEW x, IsFiniteSet(S), x \in S, T = S \ {x}
    PROVE  Cardinality(T) = Cardinality(S) - 1
    BY FS_RemoveElement

(* The three sets the counters count are finite. *)
LEMMA CountedFinite ==
    ASSUME TypeOK
    PROVE  IsFiniteSet(Born) /\ IsFiniteSet(Done) /\ IsFiniteSet(Begun)
<1>1. Born \subseteq Tasks /\ Done \subseteq Tasks /\ Begun \subseteq Tasks
    BY DEF TypeOK, Born, Done, Begun
<1> QED
    BY <1>1, FS_Subset

(* Nothing is spawned at first, and every counter is zero. *)
LEMMA StatsInit == Init => StatsInv
<1> SUFFICES ASSUME Init PROVE StatsInv
    OBVIOUS
<1>1. TypeOK /\ BegunFirst
    BY DEF Init, TypeOK, BegunFirst
<1>2. Born = {} /\ Done = {} /\ Begun = {}
    BY DEF Init, Born, Done, Begun
<1>3. StatsAddUp
    BY <1>2, FS_EmptySet DEF Init, StatsAddUp
<1> QED
    BY <1>1, <1>3 DEF StatsInv

(* A spawn counts the task it queues, once. *)
LEMMA SpawnCounts ==
    ASSUME StatsInv, NEW t \in Tasks, NEW by \in Tasks \cup {Outside}, Spawn(t, by)
    PROVE  StatsInv'
<1>1. place[t] = "unborn" /\ place' = [place EXCEPT ![t] = "queued"]
      /\ begun' = begun /\ spawned' = spawned + 1 /\ active' = active /\ completed' = completed
      /\ parent' = [parent EXCEPT ![t] = by]
    BY DEF Spawn, Put
<1>2. TypeOK /\ BegunFirst /\ StatsAddUp
    BY DEF StatsInv
<1>3. TypeOK'
    BY <1>1, <1>2 DEF TypeOK
<1>4. BegunFirst'
    BY <1>1, <1>2 DEF BegunFirst, TypeOK
<1>5. t \notin Born /\ Born' = Born \cup {t}
    BY <1>1, <1>2 DEF Born, TypeOK
<1>6. Done' = Done /\ Begun' = Begun
    BY <1>1, <1>2 DEF Done, Begun, TypeOK
<1>7. Cardinality(Born') = Cardinality(Born) + 1
    BY <1>2, <1>5, CountedFinite, OneMore
<1>8. StatsAddUp'
    BY <1>1, <1>2, <1>6, <1>7 DEF StatsAddUp
<1> QED
    BY <1>3, <1>4, <1>8 DEF StatsInv

(* The first poll of a task makes it active; a later one changes no counter. *)
LEMMA AttachCounts ==
    ASSUME StatsInv, NEW t \in Tasks, Attach(t)
    PROVE  StatsInv'
<1>1. place[t] = "queued" /\ place' = [place EXCEPT ![t] = "attached"]
      /\ begun' = begun \cup {t} /\ spawned' = spawned /\ completed' = completed
      /\ active' = (IF t \in begun THEN active ELSE active + 1)
      /\ parent' = parent
    BY DEF Attach, Put, CountFirstPoll
<1>2. TypeOK /\ BegunFirst /\ StatsAddUp
    BY DEF StatsInv
<1>3. TypeOK'
    BY <1>1, <1>2 DEF TypeOK
<1>4. BegunFirst'
    BY <1>1, <1>2 DEF BegunFirst, TypeOK
<1>5. Born' = Born /\ Done' = Done
    BY <1>1, <1>2 DEF Born, Done, TypeOK
<1>6. Begun' = Begun \cup {t}
    BY <1>1, <1>2 DEF Begun, TypeOK
<1>7. CASE t \in begun
    <2>1. Begun' = Begun /\ active' = active
        BY <1>1, <1>6, <1>7 DEF Begun
    <2> QED
        BY <1>1, <1>2, <1>3, <1>4, <1>5, <2>1 DEF StatsInv, StatsAddUp
<1>8. CASE t \notin begun
    <2>1. t \notin Begun /\ active' = active + 1
        BY <1>1, <1>8 DEF Begun
    <2>2. Cardinality(Begun') = Cardinality(Begun) + 1
        BY <1>2, <1>6, <2>1, CountedFinite, OneMore
    <2> QED
        BY <1>1, <1>2, <1>3, <1>4, <1>5, <2>1, <2>2 DEF StatsInv, StatsAddUp
<1> QED
    BY <1>7, <1>8

(* A task that ends its work leaves the active ones and joins the completed. *)
LEMMA CompleteCounts ==
    ASSUME StatsInv, NEW t \in Tasks, Complete(t)
    PROVE  StatsInv'
<1>1. place[t] = "attached" /\ place' = [place EXCEPT ![t] = "done"]
      /\ begun' = begun /\ spawned' = spawned /\ completed' = completed + 1
      /\ active' = active - 1 /\ parent' = parent
    BY DEF Complete, Put
<1>2. TypeOK /\ BegunFirst /\ StatsAddUp
    BY DEF StatsInv
<1>3. t \in Begun /\ Begun' = Begun \ {t}
    BY <1>1, <1>2 DEF Begun, TypeOK, BegunFirst
<1>4. t \notin Done /\ Done' = Done \cup {t} /\ Born' = Born
    BY <1>1, <1>2 DEF Done, Born, TypeOK
<1>5. Cardinality(Begun') = Cardinality(Begun) - 1
    BY <1>2, <1>3, CountedFinite, OneLess
<1>6. Cardinality(Done') = Cardinality(Done) + 1
    BY <1>2, <1>4, CountedFinite, OneMore
<1>7. Cardinality(Begun') \in Nat
    <2>1. IsFiniteSet(Begun')
        BY <1>2, <1>3, CountedFinite, FS_Subset
    <2> QED
        BY <2>1, FS_CardinalityType
<1>8. StatsAddUp'
    BY <1>1, <1>2, <1>4, <1>5, <1>6 DEF StatsAddUp
<1>9. TypeOK'
    <2>1. active' \in Nat
        BY <1>7, <1>8 DEF StatsAddUp
    <2> QED
        BY <1>1, <1>2, <2>1 DEF TypeOK
<1>10. BegunFirst'
    BY <1>1, <1>2 DEF BegunFirst, TypeOK
<1> QED
    BY <1>8, <1>9, <1>10 DEF StatsInv

(* Parking, waking and being lost move a task and count nothing. *)
LEMMA MoveCounts ==
    ASSUME StatsInv, NEW t \in Tasks, Park(t) \/ Wake(t) \/ Lose(t)
    PROVE  StatsInv'
<1>1. PICK where \in {"queued", "parked", "lost"} : place' = [place EXCEPT ![t] = where]
    BY DEF Park, Wake, Lose, Put, Parked
<1>2. place[t] \in {"queued", "attached", "parked"}
    BY DEF Park, Wake, Lose
<1>3. begun' = begun /\ spawned' = spawned /\ completed' = completed
      /\ active' = active /\ parent' = parent
    BY DEF Park, Wake, Lose, LeaveCounts
<1>4. where = "parked" => t \in begun
    BY <1>1, <1>2 DEF Park, Wake, Lose, Put, Parked, StatsInv, TypeOK, BegunFirst
<1>5. TypeOK /\ BegunFirst /\ StatsAddUp
    BY DEF StatsInv
<1>6. TypeOK'
    BY <1>1, <1>3, <1>5 DEF TypeOK
<1>7. BegunFirst'
    BY <1>1, <1>2, <1>3, <1>4, <1>5 DEF BegunFirst, TypeOK
<1>8. Born' = Born /\ Done' = Done /\ Begun' = Begun
    BY <1>1, <1>2, <1>3, <1>5 DEF Born, Done, Begun, TypeOK
<1> QED
    BY <1>3, <1>5, <1>6, <1>7, <1>8 DEF StatsInv, StatsAddUp

(* Every step keeps the counters in agreement with the tasks. *)
LEMMA StatsStep == ASSUME StatsInv, [Next]_vars PROVE StatsInv'
<1>1. CASE UNCHANGED vars
    <2>1. Born' = Born /\ Done' = Done /\ Begun' = Begun
        BY <1>1 DEF vars, Born, Done, Begun
    <2>2. TypeOK' /\ BegunFirst'
        BY <1>1 DEF vars, StatsInv, TypeOK, BegunFirst
    <2> QED
        BY <1>1, <2>1, <2>2 DEF vars, StatsInv, StatsAddUp
<1>2. CASE Next
    <2>1. PICK t \in Tasks :
            TaskStep(t) \/ Lose(t) \/ \E by \in Tasks \cup {Outside} : Spawn(t, by)
        BY <1>2 DEF Next
    <2>2. CASE \E by \in Tasks \cup {Outside} : Spawn(t, by)
        BY <2>2, SpawnCounts
    <2>3. CASE Attach(t)
        BY <2>3, AttachCounts
    <2>4. CASE Complete(t)
        BY <2>4, CompleteCounts
    <2>5. CASE Park(t) \/ Wake(t) \/ Lose(t)
        BY <2>5, MoveCounts
    <2> QED
        BY <2>1, <2>2, <2>3, <2>4, <2>5 DEF TaskStep
<1> QED
    BY <1>1, <1>2

(* What urn:kernel:scheduler reports is exact for tasks spawned and completed, *)
(* and for active it is the tasks begun and not completed, in every state.     *)
THEOREM StatsInvariant == Spec => []StatsAddUp
<1>1. Init => StatsInv
    BY StatsInit
<1>2. StatsInv /\ [Next]_vars => StatsInv'
    BY StatsStep
<1>3. StatsInv => StatsAddUp
    BY DEF StatsInv
<1> QED
    BY <1>1, <1>2, <1>3, PTL DEF Spec

-----------------------------------------------------------------------------
(* Proofs about the jobs file, for any contents, tables and number of edits.   *)
(*                                                                            *)
(* One reload at a time, of a version newer than the one in force and that    *)
(* reads.                                                                     *)
LockInv ==
    /\ ids = inforce
    /\ \A t, u \in Threads : reading[t] # 0 /\ reading[u] # 0 => t = u
    /\ \A t \in Threads : reading[t] # 0 => /\ inforce < reading[t]
                                            /\ file[reading[t]] \in Contents \ Refused
                                            /\ todo[t] \subseteq Table[file[reading[t]]]
    /\ inforce # 0 => file[inforce] \in Contents \ Refused
    /\ events < Len(file) /\ (reading["watcher"] # 0 => events > 0)

(* What the registry times: of the version in force, all of its table until   *)
(* the next one's is all scheduled, and of that one what is scheduled.        *)
Scheduled(t) == reading[t] # 0 /\ todo[t] = {}
TimedInv ==
    /\ ids # 0 => \A j \in Table[file[ids]] : <<ids, j>> \in live \/ \E t \in Threads : Scheduled(t)
    /\ \A t \in Threads : reading[t] # 0 =>
          \A j \in Table[file[reading[t]]] \ todo[t] : <<reading[t], j>> \in live
    /\ \A r \in live :
          \/ ids # 0 /\ r[1] = ids /\ r[2] \in Table[file[ids]]
          \/ \E t \in Threads : reading[t] # 0 /\ r[1] = reading[t] /\ r[2] \in Table[file[reading[t]]] \ todo[t]

JobsInv == JobsTypeOK /\ LockInv /\ TimedInv

LEMMA JobsStart == JobsInit => JobsInv
<1> SUFFICES ASSUME JobsInit
             PROVE  JobsInv
    OBVIOUS
<1>1. PICK c \in Contents : file = <<c>>
    BY DEF JobsInit
<1>2. file \in Seq(Contents) /\ Len(file) = 1
    BY <1>1
<1>3. JobsTypeOK
  <2>1. /\ inforce = 0 /\ ids = 0 /\ events = 0 /\ live = {} /\ starter = "first" /\ MaxEdits \in Nat
      BY StartupJobsAssumption DEF JobsInit
  <2>2. reading \in [Threads -> 0 .. Len(file)] /\ \A t \in Threads : todo[t] = {}
      BY <1>2 DEF JobsInit
  <2>3. todo \in [Threads -> SUBSET Jobs]
      BY DEF JobsInit
  <2>4. watching \in BOOLEAN
      BY DEF JobsInit
  <2> QED  BY <1>2, <2>1, <2>2, <2>3, <2>4 DEF JobsTypeOK
<1>4. LockInv
    BY <1>2 DEF JobsInit, LockInv, Threads
<1>5. TimedInv
    BY DEF JobsInit, TimedInv
<1> QED  BY <1>3, <1>4, <1>5 DEF JobsInv

(* An edit adds a version and changes none.                                   *)
LEMMA EditAdds ==
    ASSUME JobsInv, NEW c \in Contents, Edit(c)
    PROVE  JobsInv'
<1>1. file \in Seq(Contents) /\ Len(file) \in 1 .. MaxEdits + 1 /\ Len(file) <= MaxEdits /\ MaxEdits \in Nat
    BY StartupJobsAssumption DEF JobsInv, JobsTypeOK, Edit
<1>2. file' = Append(file, c)
    BY DEF Edit
<1>3. /\ file' \in Seq(Contents) /\ Len(file') = Len(file) + 1
      /\ \A i \in 1 .. Len(file) : file'[i] = file[i]
    BY <1>1, <1>2
<1>4. events' \in {events, events + 1} /\ UNCHANGED <<inforce, starter, watching, reading, todo, live, ids>>
    BY DEF Edit
<1>5. events < Len(file) /\ events \in Nat /\ (reading["watcher"] # 0 => events > 0)
    BY DEF JobsInv, JobsTypeOK, LockInv
<1>6. events' \in 0 .. MaxEdits /\ events' < Len(file') /\ (reading["watcher"] # 0 => events' > 0)
    BY <1>1, <1>3, <1>4, <1>5
<1>7. /\ inforce \in 0 .. Len(file) /\ ids \in 0 .. Len(file) /\ reading \in [Threads -> 0 .. Len(file)]
      /\ live \subseteq (1 .. Len(file)) \X Jobs
    BY DEF JobsInv, JobsTypeOK
<1>8. 0 .. Len(file) \subseteq 0 .. Len(file') /\ 1 .. Len(file) \subseteq 1 .. Len(file')
    BY <1>1, <1>3
<1>9. JobsTypeOK'
  <2>1. Len(file') \in 1 .. MaxEdits + 1
      BY <1>1, <1>3
  <2>2. inforce' \in 0 .. Len(file') /\ ids' \in 0 .. Len(file') /\ reading' \in [Threads -> 0 .. Len(file')]
      BY <1>4, <1>7, <1>8
  <2>3. live' \subseteq (1 .. Len(file')) \X Jobs
      BY <1>4, <1>7, <1>8
  <2>4. /\ starter' \in {"first", "attach", "again", "up", "refused"} /\ watching' \in BOOLEAN
        /\ todo' \in [Threads -> SUBSET Jobs] /\ \A t \in Threads : todo'[t] # {} => reading'[t] # 0
      BY <1>4 DEF JobsInv, JobsTypeOK
  <2> QED  BY <1>3, <1>6, <2>1, <2>2, <2>3, <2>4 DEF JobsTypeOK
<1>10. inforce # 0 => file'[inforce] = file[inforce]
    BY <1>1, <1>3, <1>7
<1>11. \A t \in Threads : reading[t] # 0 => file'[reading[t]] = file[reading[t]]
    BY <1>1, <1>3, <1>7
<1>12. ids = inforce
    BY DEF JobsInv, LockInv
<1>13. LockInv'
    BY <1>4, <1>6, <1>10, <1>11 DEF JobsInv, LockInv
<1>14. TimedInv'
    BY <1>4, <1>10, <1>11, <1>12 DEF JobsInv, TimedInv, Scheduled
<1> QED  BY <1>9, <1>13, <1>14 DEF JobsInv

(* Leaving the lock.                                                          *)
LEMMA LeaveTypes ==
    ASSUME JobsInv, NEW who \in Threads, NEW ok \in BOOLEAN, Leave(who, ok),
           who = "watcher" => events > 0
    PROVE  /\ starter' \in {"first", "attach", "again", "up", "refused"}
           /\ events' \in 0 .. MaxEdits /\ events' < Len(file)
<1>1. /\ starter \in {"first", "attach", "again", "up", "refused"} /\ events \in 0 .. MaxEdits
      /\ events < Len(file) /\ MaxEdits \in Nat /\ Len(file) \in Nat
    BY StartupJobsAssumption DEF JobsInv, JobsTypeOK, LockInv
<1> QED  BY <1>1 DEF Leave, Threads

LEMMA ReadKeeps ==
    ASSUME JobsInv, NEW who \in Threads, Read(who)
    PROVE  JobsInv'
<1>1. /\ JobsTypeOK /\ LockInv /\ TimedInv /\ UNCHANGED <<file, inforce, watching, live, ids>>
      /\ Wants(who) /\ \A t \in Threads : reading[t] = 0
    BY DEF JobsInv, Read, MayEnter, Unlocked
<1>2. who = "watcher" => events > 0
    BY <1>1 DEF Wants
<1>3. CASE Leave(who, Now \notin Refused) /\ UNCHANGED <<reading, todo>>
  <2>1. /\ starter' \in {"first", "attach", "again", "up", "refused"}
        /\ events' \in 0 .. MaxEdits /\ events' < Len(file)
      BY <1>2, <1>3, LeaveTypes
  <2>2. JobsTypeOK'
      BY <1>1, <1>3, <2>1 DEF JobsTypeOK
  <2>3. LockInv' /\ TimedInv'
      BY <1>1, <1>3, <2>1 DEF LockInv, TimedInv, Scheduled, Threads
  <2> QED  BY <2>2, <2>3 DEF JobsInv
<1>4. CASE /\ ~Recorded(Now) /\ Now \notin Refused
           /\ reading' = [reading EXCEPT ![who] = Len(file)]
           /\ todo' = [todo EXCEPT ![who] = Table[Now]] /\ UNCHANGED <<starter, events>>
  <2> DEFINE v == Len(file)
  <2>1. v \in Nat \ {0} /\ Now = file[v] /\ file[v] \in Contents \ Refused
      BY <1>1, <1>4 DEF JobsTypeOK, Now
  <2>2. Table[Now] \in SUBSET Jobs
      BY <2>1, StartupJobsAssumption
  <2>3. inforce < v
      BY <1>1, <1>4, <2>1 DEF JobsTypeOK, Recorded
  <2>4. /\ reading'[who] = v /\ todo'[who] = Table[Now]
        /\ \A t \in Threads : t # who => reading'[t] = 0 /\ todo'[t] = todo[t]
      BY <1>1, <1>4 DEF JobsTypeOK
  <2>5. reading' \in [Threads -> 0 .. v] /\ todo' \in [Threads -> SUBSET Jobs]
      BY <1>1, <1>4, <2>1, <2>2 DEF JobsTypeOK
  <2> HIDE DEF v
  <2>6. JobsTypeOK'
      BY <1>1, <1>4, <2>1, <2>4, <2>5 DEF JobsTypeOK, v
  <2>7. LockInv'
      BY <1>1, <1>2, <1>4, <2>1, <2>3, <2>4 DEF LockInv
  <2>8. TimedInv'
    <3>1. ids # 0 => \A j \in Table[file[ids]] : <<ids, j>> \in live
        BY <1>1 DEF TimedInv, Scheduled
    <3>2. \A r \in live : ids # 0 /\ r[1] = ids /\ r[2] \in Table[file[ids]]
        BY <1>1 DEF TimedInv
    <3>3. \A t \in Threads : reading'[t] # 0 => Table[file[reading'[t]]] \ todo'[t] = {}
        BY <2>1, <2>4
    <3> QED  BY <1>1, <3>1, <3>2, <3>3 DEF TimedInv
  <2> QED  BY <2>6, <2>7, <2>8 DEF JobsInv
<1> QED  BY <1>3, <1>4 DEF Read

LEMMA ScheduleKeeps ==
    ASSUME JobsInv, NEW who \in Threads, NEW j \in Jobs, ScheduleJob(who, j)
    PROVE  JobsInv'
<1>1. /\ JobsTypeOK /\ LockInv /\ TimedInv /\ UNCHANGED <<file, inforce, starter, watching, events, reading, ids>>
      /\ j \in todo[who] /\ reading[who] # 0 /\ reading[who] \in 1 .. Len(file)
      /\ live' = live \cup {<<reading[who], j>>} /\ todo' = [todo EXCEPT ![who] = @ \ {j}]
    BY DEF JobsInv, ScheduleJob, JobsTypeOK
<1>2. todo'[who] = todo[who] \ {j} /\ \A t \in Threads : t # who => todo'[t] = todo[t] /\ reading[t] = 0
    BY <1>1 DEF JobsTypeOK, LockInv
<1>3. JobsTypeOK'
    BY <1>1, <1>2 DEF JobsTypeOK
<1>4. LockInv'
    BY <1>1, <1>2 DEF LockInv
<1>5. TimedInv'
  <2>1. ~ \E t \in Threads : Scheduled(t)
      BY <1>1, <1>2 DEF Scheduled
  <2>2. ids # 0 => \A i \in Table[file[ids]] : <<ids, i>> \in live'
      BY <1>1, <2>1 DEF TimedInv
  <2>3. j \in Table[file[reading[who]]]
      BY <1>1 DEF LockInv
  <2>4. \A t \in Threads : reading[t] # 0 =>
          \A i \in Table[file[reading[t]]] \ todo'[t] : <<reading[t], i>> \in live'
      BY <1>1, <1>2 DEF TimedInv
  <2>5. ASSUME NEW r \in live'
        PROVE  \/ ids # 0 /\ r[1] = ids /\ r[2] \in Table[file[ids]]
               \/ \E t \in Threads : reading[t] # 0 /\ r[1] = reading[t]
                                     /\ r[2] \in Table[file[reading[t]]] \ todo'[t]
    <3>1. CASE r = <<reading[who], j>>
        BY <1>1, <1>2, <2>3, <3>1
    <3>2. CASE r \in live
        BY <1>1, <1>2, <3>2 DEF TimedInv
    <3> QED  BY <1>1, <3>1, <3>2
  <2> QED  BY <1>1, <2>2, <2>4, <2>5 DEF TimedInv
<1> QED  BY <1>3, <1>4, <1>5 DEF JobsInv

LEMMA CancelKeeps ==
    ASSUME JobsInv, NEW who \in Threads, CancelJob(who)
    PROVE  JobsInv'
<1>1. /\ JobsTypeOK /\ LockInv /\ TimedInv
      /\ UNCHANGED <<file, inforce, starter, watching, events, reading, todo, ids>>
      /\ reading[who] # 0 /\ todo[who] = {}
    BY DEF JobsInv, CancelJob, MayCancel
<1>2. PICK r \in Old : live' = live \ {r}
    BY DEF CancelJob
<1>3. r[1] = ids /\ Scheduled(who) /\ ids < reading[who] /\ ids \in Nat /\ reading[who] \in Nat
    BY <1>1, <1>2 DEF Old, Scheduled, LockInv, JobsTypeOK
<1>4. \A t \in Threads : reading[t] # 0 => t = who
    BY <1>1 DEF LockInv
<1>5. JobsTypeOK' /\ LockInv'
    BY <1>1, <1>2 DEF JobsTypeOK, LockInv
<1>6. \A i \in Table[file[reading[who]]] : <<reading[who], i>> \in live'
    BY <1>1, <1>2, <1>3 DEF TimedInv
<1>7. Scheduled(who)'
    BY <1>1 DEF Scheduled
<1>8. TimedInv'
    BY <1>1, <1>2, <1>4, <1>6, <1>7 DEF TimedInv
<1> QED  BY <1>5, <1>8 DEF JobsInv

LEMMA RecordKeeps ==
    ASSUME JobsInv, NEW who \in Threads, Record(who)
    PROVE  JobsInv'
<1>1. /\ JobsTypeOK /\ LockInv /\ TimedInv /\ UNCHANGED <<file, watching, todo, live>>
      /\ reading[who] # 0 /\ todo[who] = {} /\ Old = {} /\ Leave(who, TRUE)
      /\ ids' = reading[who] /\ inforce' = reading[who] /\ reading' = [reading EXCEPT ![who] = 0]
    BY DEF JobsInv, Record, MayRecord
<1>2. \A t \in Threads : reading'[t] = 0
    BY <1>1 DEF LockInv, JobsTypeOK
<1>3. who = "watcher" => events > 0
    BY <1>1 DEF LockInv
<1>4. /\ starter' \in {"first", "attach", "again", "up", "refused"}
      /\ events' \in 0 .. MaxEdits /\ events' < Len(file)
    BY <1>1, <1>3, LeaveTypes
<1>5. \A t \in Threads : todo[t] = {}
    BY <1>1 DEF LockInv, JobsTypeOK
<1>6. JobsTypeOK'
    BY <1>1, <1>2, <1>4, <1>5 DEF JobsTypeOK
<1>7. LockInv'
    BY <1>1, <1>2, <1>4 DEF LockInv, Threads
<1>8. \A r \in live : r[1] = reading[who] /\ r[2] \in Table[file[reading[who]]]
    BY <1>1 DEF TimedInv, LockInv, Old
<1>9. \A j \in Table[file[reading[who]]] : <<reading[who], j>> \in live
    BY <1>1 DEF TimedInv
<1>10. TimedInv'
    BY <1>1, <1>2, <1>8, <1>9 DEF TimedInv
<1> QED  BY <1>6, <1>7, <1>10 DEF JobsInv

LEMMA JobsStep == ASSUME JobsInv, [JobsNext]_jobsVars PROVE JobsInv'
<1>1. CASE AttachWatcher
  <2>1. UNCHANGED <<file, inforce, events, reading, todo, live, ids>> /\ watching' = TRUE /\ starter' = "again"
      BY <1>1 DEF AttachWatcher, AfterAttach
  <2> QED  BY <2>1 DEF JobsInv, JobsTypeOK, LockInv, TimedInv, Scheduled
<1>2. CASE UNCHANGED jobsVars
    BY <1>2 DEF JobsInv, JobsTypeOK, LockInv, TimedInv, Scheduled, jobsVars
<1> QED  BY <1>1, <1>2, EditAdds, ReadKeeps, ScheduleKeeps, CancelKeeps, RecordKeeps DEF JobsNext, Reload

(* The lock, the registry's records and the table in force agree, for any     *)
(* tables, any number of edits and whoever reloads.                           *)
THEOREM JobsInvariant == JobsSpec => []JobsInv
<1> QED  BY JobsStart, JobsStep, PTL DEF JobsSpec

(* A job of both the old and the new table is timed throughout the reload     *)
(* that replaces one by the other (reload of startup_jobs.rs).                *)
THEOREM NoJobIsDropped == JobsSpec => []NoGap
<1>1. ASSUME JobsInv
      PROVE  NoGap
  <2> SUFFICES ASSUME NEW j \in Jobs, Declares(ids, j),
                      \A t \in Threads : reading[t] # 0 => Declares(reading[t], j)
               PROVE  Timed(j)
      BY DEF NoGap
  <2>1. <<ids, j>> \in live \/ \E t \in Threads : Scheduled(t) /\ <<reading[t], j>> \in live
      BY <1>1 DEF JobsInv, TimedInv, Scheduled, Declares
  <2> QED  BY <2>1 DEF Timed
<1> QED  BY <1>1, JobsInvariant, PTL

(* Between reloads the registry times the table in force, each of its jobs    *)
(* once, and nothing of an older one (State::ids of startup_jobs.rs).         *)
THEOREM RegistryIsInForce == JobsSpec => []TimedIsInForce
<1>1. ASSUME JobsInv
      PROVE  TimedIsInForce
  <2> SUFFICES ASSUME Unlocked
               PROVE  live = IF ids = 0 THEN {} ELSE {ids} \X Table[file[ids]]
      BY DEF TimedIsInForce
  <2>1. \A r \in live : ids # 0 /\ r[1] = ids /\ r[2] \in Table[file[ids]]
      BY <1>1 DEF JobsInv, TimedInv, Unlocked
  <2>2. ids # 0 => \A j \in Table[file[ids]] : <<ids, j>> \in live
      BY <1>1 DEF JobsInv, TimedInv, Unlocked, Scheduled
  <2>3. \A r \in live : r = <<r[1], r[2]>>
      BY <1>1 DEF JobsInv, JobsTypeOK
  <2> QED  BY <2>1, <2>2, <2>3
<1> QED  BY <1>1, JobsInvariant, PTL

(* The jobs file is a live file: what comes into force reads, and is newer    *)
(* than what it replaces.                                                     *)
THEOREM JobsFileKeepsPromise == JobsSpec => JobsKeepPromise
<1>1. JobsInit => L!Init
    BY DEF JobsInit, L!Init
<1>2. ASSUME JobsInv, [JobsNext]_jobsVars
      PROVE  [L!Next]_(L!lvars)
  <2>1. ASSUME NEW c \in Contents, Edit(c)
        PROVE  L!Next
      BY <2>1 DEF Edit, L!Next, L!Edit
  <2>2. ASSUME NEW who \in Threads, Record(who)
        PROVE  L!Next
    <3>1. /\ reading[who] \in 1 .. Len(file) /\ inforce < reading[who] /\ file[reading[who]] \notin Refused
          /\ inforce' = reading[who] /\ UNCHANGED file
        BY <1>2, <2>2 DEF Record, JobsInv, JobsTypeOK, LockInv
    <3> QED  BY <3>1 DEF L!Next, L!Install
  <2>3. ASSUME NEW who \in Threads, Read(who) \/ (\E j \in Jobs : ScheduleJob(who, j)) \/ CancelJob(who)
        PROVE  UNCHANGED <<file, inforce>>
      BY <2>3 DEF Read, ScheduleJob, CancelJob
  <2>4. CASE AttachWatcher \/ UNCHANGED jobsVars
      BY <2>4 DEF AttachWatcher, jobsVars, L!lvars
  <2> QED  BY <1>2, <2>1, <2>2, <2>3, <2>4 DEF JobsNext, Reload, L!lvars
<1> QED  BY <1>1, <1>2, JobsInvariant, PTL DEF JobsSpec, JobsKeepPromise, L!Spec

-----------------------------------------------------------------------------
(* Proofs about the registry of timed jobs, for any number of schedule calls, *)
(* any jobs and any authorities.                                              *)
(*                                                                            *)
(* A call has an id that no other call ever has; a listed job is the call's   *)
(* whose id it is listed under.                                               *)
Made == {c \in Calls : step[c] # "unmade"}
RecordShape == [call : Calls, last : {"none", "ok", "failed"}, under : SUBSET Scopes]
IdsInv ==
    /\ jobs \in [Listed -> RecordShape] /\ next_id = Cardinality(Made) + 1
    /\ step \in [Calls -> {"unmade", "reserved", "started", "listed", "removed", "stopped"}]
    /\ spec \in [Calls -> Specs \union {NoSpec}] /\ id \in [Calls -> Nat]
    /\ \A c \in Made : spec[c] \in Specs /\ id[c] \in 1 .. next_id - 1
    /\ \A c, d \in Made : id[c] = id[d] => c = d
    /\ \A i \in Listed : id[jobs[i].call] = i /\ step[jobs[i].call] = "listed"
    /\ \A c \in Calls : step[c] = "listed" => id[c] \in Listed /\ jobs[id[c]].call = c

(* A thread runs from its start to its end, under no more than its job's      *)
(* authority; only a job that was taken out has been told to stop.            *)
ThreadsInv ==
    /\ cancelled \in [Calls -> BOOLEAN] /\ ceiling \subseteq Scopes
    /\ timer \in [Calls -> {"none", "asleep", "ticking", "resolving", "ended"}]
    /\ using \in [Calls -> SUBSET Scopes] /\ stopper \in [Calls -> SUBSET Scopes]
    /\ \A c \in Calls : timer[c] = "none" <=> step[c] \in {"unmade", "reserved"}
    /\ \A c \in Calls : cancelled[c] => step[c] = "stopped"
    /\ \A c \in Calls : timer[c] = "ended" /\ spec[c].recurring => cancelled[c]
    /\ \A c \in Calls : using[c] \subseteq spec[c].cap /\ (using[c] # {} => timer[c] = "resolving")
    /\ OwnOutput /\ StoppedByItsEqual

RegistryInv == IdsInv /\ ThreadsInv

LEMMA RegistryStarts == RegistryInit => RegistryInv
<1> SUFFICES ASSUME RegistryInit
             PROVE  RegistryInv
    OBVIOUS
<1>1. Made = {} /\ Listed = {} /\ Cardinality({}) = 0
    BY FS_EmptySet DEF RegistryInit, Made, Listed
<1>2. IdsInv
    BY <1>1 DEF RegistryInit, IdsInv
<1>3. ThreadsInv
    BY <1>1 DEF RegistryInit, ThreadsInv, OwnOutput, StoppedByItsEqual, Root, NoSpec
<1> QED  BY <1>2, <1>3 DEF RegistryInv

LEMMA MadeCounted ==
    /\ IsFiniteSet(Made) /\ Cardinality(Made) \in Nat /\ Cardinality(Made) <= Cardinality(Calls)
    /\ Cardinality(Calls) \in Nat
<1>1. Made \in SUBSET Calls /\ IsFiniteSet(Calls)
    BY TimeJobsAssumption DEF Made
<1> QED  BY <1>1, FS_Subset, FS_CardinalityType

(* The id a thread wakes with is its own call's, whatever is listed by then.  *)
LEMMA OwnRecord ==
    ASSUME IdsInv, NEW c \in Made, id[c] \in Listed
    PROVE  jobs[id[c]].call = c /\ step[c] = "listed"
<1>1. jobs[id[c]].call \in Made /\ id[jobs[id[c]].call] = id[c]
    BY DEF IdsInv, Made, RecordShape
<1> QED  BY <1>1 DEF IdsInv

LEMMA ReserveKeeps ==
    ASSUME RegistryInv, NEW c \in Calls, NEW s \in Specs, Reserve(c, s)
    PROVE  RegistryInv'
<1>1. /\ step[c] = "unmade" /\ spec' = [spec EXCEPT ![c] = s] /\ id' = [id EXCEPT ![c] = next_id]
      /\ next_id' = next_id + 1 /\ step' = [step EXCEPT ![c] = "reserved"]
      /\ UNCHANGED <<jobs, ceiling, cancelled, timer, using, stopper>>
    BY DEF Reserve, FreshId
<1>2. Made' = Made \cup {c} /\ c \notin Made /\ Listed' = Listed
    BY <1>1 DEF RegistryInv, IdsInv, Made, Listed
<1>3. next_id' = Cardinality(Made') + 1 /\ next_id \in Nat /\ next_id >= 1
  <2>1. next_id = Cardinality(Made) + 1 /\ Cardinality(Made) \in Nat
      BY MadeCounted DEF RegistryInv, IdsInv
  <2>2. Cardinality(Made \cup {c}) = Cardinality(Made) + 1
      BY <1>2, MadeCounted, FS_AddElement
  <2> QED  BY <1>1, <1>2, <2>1, <2>2
<1>4. \A d \in Made : id'[d] = id[d] /\ spec'[d] = spec[d] /\ step'[d] = step[d] /\ id[d] < next_id
    BY <1>1, <1>2, <1>3 DEF RegistryInv, IdsInv, Made
<1>5. /\ id'[c] = next_id /\ spec'[c] = s /\ step'[c] = "reserved"
    BY <1>1 DEF RegistryInv, IdsInv
<1>6. \A d \in Made' : spec'[d] \in Specs /\ id'[d] \in 1 .. next_id' - 1
    BY <1>1, <1>2, <1>3, <1>4, <1>5 DEF RegistryInv, IdsInv
<1>7. \A d, e \in Made' : id'[d] = id'[e] => d = e
  <2>1. \A d \in Made : id'[d] # id'[c]
      BY <1>3, <1>4, <1>5 DEF RegistryInv, IdsInv
  <2> QED  BY <1>2, <1>4, <2>1 DEF RegistryInv, IdsInv
<1>8. /\ jobs' \in [Listed' -> RecordShape] /\ spec' \in [Calls -> Specs \union {NoSpec}]
      /\ step' \in [Calls -> {"unmade", "reserved", "started", "listed", "removed", "stopped"}]
      /\ id' \in [Calls -> Nat]
    BY <1>1, <1>2, <1>3 DEF RegistryInv, IdsInv
<1>9. \A i \in Listed : jobs[i].call \in Made /\ id[jobs[i].call] = i /\ step[jobs[i].call] = "listed"
    BY DEF RegistryInv, IdsInv, Made, RecordShape
<1>10. \A i \in Listed' : id'[jobs'[i].call] = i /\ step'[jobs'[i].call] = "listed"
    BY <1>1, <1>2, <1>4, <1>9
<1>11. \A d \in Calls : step'[d] = "listed" => id'[d] \in Listed' /\ jobs'[id'[d]].call = d
    BY <1>1, <1>2 DEF RegistryInv, IdsInv
<1>12. IdsInv'
    BY <1>3, <1>6, <1>7, <1>8, <1>10, <1>11 DEF IdsInv
<1>13. timer[c] = "none" /\ ~cancelled[c] /\ using[c] = {}
    BY <1>1 DEF RegistryInv, ThreadsInv
<1>14. OwnOutput'
    BY <1>1, <1>2, <1>4, <1>9 DEF RegistryInv, ThreadsInv, OwnOutput
<1>15. StoppedByItsEqual'
    BY <1>1, <1>5 DEF RegistryInv, IdsInv, ThreadsInv, StoppedByItsEqual
<1>16. ThreadsInv'
    BY <1>1, <1>5, <1>13, <1>14, <1>15 DEF RegistryInv, IdsInv, ThreadsInv
<1> QED  BY <1>12, <1>16 DEF RegistryInv

LEMMA StartTimerKeeps ==
    ASSUME RegistryInv, NEW c \in Calls, Start(c)
    PROVE  RegistryInv'
<1>1. /\ step[c] = "reserved" /\ timer' = [timer EXCEPT ![c] = "asleep"]
      /\ step' = [step EXCEPT ![c] = "started"]
      /\ UNCHANGED <<next_id, jobs, ceiling, spec, id, cancelled, using, stopper>>
    BY DEF Start
<1>2. Made' = Made /\ Listed' = Listed /\ \A d \in Calls : step'[d] = "listed" <=> step[d] = "listed"
    BY <1>1 DEF RegistryInv, IdsInv, Made, Listed
<1>3. \A i \in Listed : jobs[i].call \in Calls
    BY DEF RegistryInv, IdsInv, RecordShape
<1>4. IdsInv'
    BY <1>1, <1>2, <1>3 DEF RegistryInv, IdsInv
<1>5. OwnOutput' /\ StoppedByItsEqual'
    BY <1>1, <1>2 DEF RegistryInv, IdsInv, ThreadsInv, OwnOutput, StoppedByItsEqual
<1>6. using[c] = {}
    BY <1>1 DEF RegistryInv, ThreadsInv
<1>7. ThreadsInv'
    BY <1>1, <1>5, <1>6 DEF RegistryInv, IdsInv, ThreadsInv
<1> QED  BY <1>4, <1>7 DEF RegistryInv

LEMMA InsertKeeps ==
    ASSUME RegistryInv, NEW c \in Calls, Insert(c)
    PROVE  RegistryInv'
<1>1. /\ step[c] = "started" /\ step' = [step EXCEPT ![c] = "listed"]
      /\ jobs' = [i \in Listed \union {id[c]} |-> IF i = id[c] THEN NewRecord(c) ELSE jobs[i]]
      /\ UNCHANGED <<next_id, ceiling, spec, id, cancelled, timer, using, stopper>>
    BY DEF Insert
<1>2. Made' = Made /\ c \in Made /\ Listed' = Listed \cup {id[c]} /\ jobs'[id[c]] = NewRecord(c)
    BY <1>1 DEF RegistryInv, IdsInv, Made, Listed
<1>3. NewRecord(c) \in RecordShape /\ NewRecord(c).call = c /\ NewRecord(c).under = {}
    BY DEF NewRecord, RecordShape
<1>4. \A i \in Listed : jobs[i] \in RecordShape /\ jobs[i].call \in Calls
    BY DEF RegistryInv, IdsInv, RecordShape
<1>5. id[c] \notin Listed
    BY <1>1, <1>2, OwnRecord DEF RegistryInv
<1>6. \A i \in Listed : jobs'[i] = jobs[i]
    BY <1>1, <1>5 DEF Listed
<1>7. /\ step'[c] = "listed" /\ \A d \in Calls \ {c} : step'[d] = step[d]
      /\ step' \in [Calls -> {"unmade", "reserved", "started", "listed", "removed", "stopped"}]
    BY <1>1 DEF RegistryInv, IdsInv
<1>8. jobs' \in [Listed' -> RecordShape]
    BY <1>1, <1>2, <1>3, <1>4
<1>9. \A i \in Listed' : id'[jobs'[i].call] = i /\ step'[jobs'[i].call] = "listed"
    BY <1>1, <1>2, <1>3, <1>4, <1>6, <1>7 DEF RegistryInv, IdsInv
<1>10. \A d \in Calls : step'[d] = "listed" => id'[d] \in Listed' /\ jobs'[id'[d]].call = d
    BY <1>1, <1>2, <1>3, <1>6, <1>7 DEF RegistryInv, IdsInv
<1>11. IdsInv'
  <2>1. /\ next_id' = Cardinality(Made') + 1 /\ \A d, e \in Made' : id'[d] = id'[e] => d = e
        /\ \A d \in Made' : spec'[d] \in Specs /\ id'[d] \in 1 .. next_id' - 1
      BY <1>1, <1>2 DEF RegistryInv, IdsInv
  <2>2. spec' \in [Calls -> Specs \union {NoSpec}] /\ id' \in [Calls -> Nat]
      BY <1>1 DEF RegistryInv, IdsInv
  <2> QED  BY <1>7, <1>8, <1>9, <1>10, <2>1, <2>2 DEF IdsInv
<1>12. OwnOutput'
    BY <1>1, <1>2, <1>3, <1>6 DEF RegistryInv, ThreadsInv, OwnOutput
<1>13. StoppedByItsEqual'
    BY <1>1, <1>7 DEF RegistryInv, ThreadsInv, StoppedByItsEqual
<1>14. ThreadsInv'
    BY <1>1, <1>7, <1>12, <1>13 DEF RegistryInv, ThreadsInv
<1> QED  BY <1>11, <1>14 DEF RegistryInv

(* What a tick leaves alone: everything but its own thread's place and        *)
(* authority, and the records.                                                *)
LEMMA WakeTimerKeeps ==
    ASSUME RegistryInv, NEW c \in Calls, WakeTimer(c)
    PROVE  RegistryInv'
<1>1. /\ timer[c] = "asleep"
      /\ timer' = [timer EXCEPT ![c] = IF cancelled[c] THEN "ended" ELSE "ticking"]
      /\ UNCHANGED <<next_id, jobs, ceiling, step, spec, id, cancelled, using, stopper>>
    BY DEF WakeTimer
<1>2. Made' = Made /\ Listed' = Listed
    BY <1>1 DEF Made, Listed
<1>3. IdsInv'
    BY <1>1, <1>2 DEF RegistryInv, IdsInv
<1>4. OwnOutput' /\ StoppedByItsEqual'
    BY <1>1, <1>2 DEF RegistryInv, ThreadsInv, OwnOutput, StoppedByItsEqual
<1>5. ThreadsInv'
    BY <1>1, <1>4 DEF RegistryInv, ThreadsInv
<1> QED  BY <1>3, <1>5 DEF RegistryInv

LEMMA FireKeeps ==
    ASSUME RegistryInv, NEW c \in Calls, Fire(c)
    PROVE  RegistryInv' /\ (timer'[c] = "resolving" => step[c] = "listed")
<1>1. /\ timer[c] = "ticking" /\ c \in Made
      /\ UNCHANGED <<next_id, jobs, ceiling, step, spec, id, cancelled, stopper>>
    BY DEF Fire, RegistryInv, ThreadsInv, Made
<1>2. Made' = Made /\ Listed' = Listed
    BY <1>1 DEF Made, Listed
<1>3. IdsInv'
    BY <1>1, <1>2 DEF RegistryInv, IdsInv
<1>4. OwnOutput' /\ StoppedByItsEqual'
    BY <1>1, <1>2 DEF RegistryInv, ThreadsInv, OwnOutput, StoppedByItsEqual
<1>5. CASE MayFire(c)
  <2>1. id[c] \in Listed /\ jobs[id[c]].call = c /\ step[c] = "listed"
      BY <1>1, <1>5, OwnRecord DEF MayFire, RegistryInv
  <2>2. /\ timer' = [timer EXCEPT ![c] = "resolving"]
        /\ using' = [using EXCEPT ![c] = ceiling \cap spec[c].cap]
      BY <1>5, <2>1 DEF Fire, Clamp, JobOf
  <2>3. ThreadsInv'
      BY <1>1, <1>4, <2>2 DEF RegistryInv, ThreadsInv
  <2> QED  BY <1>3, <2>1, <2>3 DEF RegistryInv
<1>6. CASE ~MayFire(c)
  <2>1. /\ timer' = [timer EXCEPT ![c] = IF spec[c].recurring THEN "asleep" ELSE "ended"]
        /\ using' = using
      BY <1>6 DEF Fire, IdleTick, AfterTick
  <2>2. using[c] = {}
      BY <1>1 DEF RegistryInv, ThreadsInv
  <2>3. ThreadsInv' /\ timer'[c] # "resolving"
      BY <1>1, <1>4, <2>1, <2>2 DEF RegistryInv, ThreadsInv
  <2> QED  BY <1>3, <2>3 DEF RegistryInv
<1> QED  BY <1>5, <1>6

LEMMA FoldKeeps ==
    ASSUME RegistryInv, NEW c \in Calls, NEW outcome \in {"ok", "failed"}, Fold(c, outcome)
    PROVE  RegistryInv'
<1>1. /\ timer[c] = "resolving" /\ c \in Made
      /\ UNCHANGED <<next_id, ceiling, step, spec, id, cancelled, stopper>>
    BY DEF Fold, RegistryInv, ThreadsInv, Made
<1>2. /\ timer' = [timer EXCEPT ![c] = IF spec[c].recurring THEN "asleep" ELSE "ended"]
      /\ using' = [using EXCEPT ![c] = {}]
    BY DEF Fold, AfterTick
<1>3. Made' = Made /\ Listed' = Listed
    BY <1>1 DEF Made, Listed, Fold
<1>4. \A i \in Listed : jobs[i] \in RecordShape /\ jobs[i].call \in Calls
    BY DEF RegistryInv, IdsInv, RecordShape
<1>5. \A i \in Listed \ {id[c]} : jobs'[i] = jobs[i]
    BY DEF Fold
<1>6. /\ using[c] \subseteq spec[c].cap /\ using[c] \subseteq Scopes
    BY DEF RegistryInv, ThreadsInv
<1>7. id[c] \in Listed =>
        jobs'[id[c]] \in RecordShape /\ jobs'[id[c]].call = jobs[id[c]].call
        /\ jobs'[id[c]].under = using[c] /\ jobs[id[c]].call = c
  <2> SUFFICES ASSUME id[c] \in Listed
               PROVE  jobs'[id[c]] \in RecordShape /\ jobs'[id[c]].call = jobs[id[c]].call
                      /\ jobs'[id[c]].under = using[c] /\ jobs[id[c]].call = c
      OBVIOUS
  <2>1. jobs'[id[c]] = [jobs[id[c]] EXCEPT !.last = outcome, !.under = using[c]]
      BY DEF Fold
  <2>2. jobs[id[c]] \in RecordShape /\ jobs[id[c]].call = c
      BY <1>1, <1>4, OwnRecord DEF RegistryInv
  <2>3. DOMAIN jobs[id[c]] = {"call", "last", "under"}
      BY <2>2 DEF RecordShape
  <2>4. /\ jobs'[id[c]].call = c /\ jobs'[id[c]].under = using[c] /\ jobs'[id[c]].last = outcome
      BY <2>1, <2>2, <2>3
  <2>5. jobs'[id[c]] = [call |-> c, last |-> outcome, under |-> using[c]]
      BY <2>1, <2>3, <2>4
  <2> QED  BY <1>6, <2>2, <2>4, <2>5 DEF RecordShape
<1>8. \A i \in Listed : jobs'[i] \in RecordShape /\ jobs'[i].call = jobs[i].call
    BY <1>4, <1>5, <1>7
<1>9. jobs' \in [Listed' -> RecordShape]
    BY <1>3, <1>8 DEF Fold
<1>10. IdsInv'
    BY <1>1, <1>3, <1>8, <1>9 DEF RegistryInv, IdsInv
<1>11. OwnOutput'
    BY <1>1, <1>3, <1>5, <1>6, <1>7 DEF RegistryInv, ThreadsInv, OwnOutput
<1>12. StoppedByItsEqual'
    BY <1>1 DEF RegistryInv, ThreadsInv, StoppedByItsEqual
<1>13. ThreadsInv'
    BY <1>1, <1>2, <1>11, <1>12 DEF RegistryInv, ThreadsInv
<1> QED  BY <1>10, <1>13 DEF RegistryInv

LEMMA CancelTimedKeeps ==
    ASSUME RegistryInv, NEW holder \in SUBSET Scopes, NEW matching \in SUBSET Listed,
           Cancel(holder, matching)
    PROVE  RegistryInv'
<1> DEFINE gone == Removed(holder, matching)
           out == {jobs[i].call : i \in gone}
<1>1. /\ jobs' = [i \in Listed \ gone |-> jobs[i]]
      /\ step' = [d \in Calls |-> IF d \in out THEN "removed" ELSE step[d]]
      /\ stopper' = [d \in Calls |-> IF d \in out THEN holder ELSE stopper[d]]
      /\ UNCHANGED <<next_id, ceiling, spec, id, cancelled, timer, using>>
    BY DEF Cancel
<1>2. /\ gone \subseteq Listed
      /\ \A i \in gone : spec[jobs[i].call].cap \subseteq holder
    BY DEF Removed, Covers, Clamp
<1>3. \A i \in Listed : jobs[i].call \in Made /\ id[jobs[i].call] = i /\ step[jobs[i].call] = "listed"
    BY DEF RegistryInv, IdsInv, RecordShape, Made
<1>4. /\ out \subseteq Made /\ \A d \in out : step[d] = "listed" /\ id[d] \in gone
      /\ \A d \in out : spec[d].cap \subseteq holder
    BY <1>2, <1>3
<1>5. \A i \in Listed \ gone : jobs[i].call \notin out
    BY <1>3, <1>4
<1> HIDE DEF gone, out
<1>6. Made' = Made /\ Listed' = Listed \ gone /\ \A i \in Listed' : jobs'[i] = jobs[i]
    BY <1>1, <1>4 DEF Made, Listed, RegistryInv, IdsInv
<1>7. /\ step' \in [Calls -> {"unmade", "reserved", "started", "listed", "removed", "stopped"}]
      /\ \A d \in Calls : IF d \in out THEN step'[d] = "removed" ELSE step'[d] = step[d]
    BY <1>1 DEF RegistryInv, IdsInv
<1>8. jobs' \in [Listed' -> RecordShape]
    BY <1>1, <1>6 DEF RegistryInv, IdsInv
<1>9. \A i \in Listed' : id'[jobs'[i].call] = i /\ step'[jobs'[i].call] = "listed"
    BY <1>1, <1>3, <1>5, <1>6, <1>7 DEF Made
<1>10. \A d \in Calls : step'[d] = "listed" => id'[d] \in Listed' /\ jobs'[id'[d]].call = d
  <2> SUFFICES ASSUME NEW d \in Calls, step'[d] = "listed"
               PROVE  id'[d] \in Listed' /\ jobs'[id'[d]].call = d
      OBVIOUS
  <2>1. d \notin out /\ step[d] = "listed"
      BY <1>7
  <2>2. id[d] \in Listed /\ jobs[id[d]].call = d
      BY <2>1 DEF RegistryInv, IdsInv
  <2>3. id[d] \notin gone
      BY <2>1, <2>2 DEF out
  <2> QED  BY <1>1, <1>6, <2>2, <2>3
<1>11. IdsInv'
  <2>1. /\ next_id' = Cardinality(Made') + 1 /\ \A d, e \in Made' : id'[d] = id'[e] => d = e
        /\ \A d \in Made' : spec'[d] \in Specs /\ id'[d] \in 1 .. next_id' - 1
      BY <1>1, <1>6 DEF RegistryInv, IdsInv
  <2>2. spec' \in [Calls -> Specs \union {NoSpec}] /\ id' \in [Calls -> Nat]
      BY <1>1 DEF RegistryInv, IdsInv
  <2> QED  BY <1>7, <1>8, <1>9, <1>10, <2>1, <2>2 DEF IdsInv
<1>12. OwnOutput'
    BY <1>1, <1>6 DEF RegistryInv, ThreadsInv, OwnOutput
<1>13. StoppedByItsEqual'
    BY <1>1, <1>4, <1>7 DEF RegistryInv, ThreadsInv, StoppedByItsEqual
<1>14. /\ \A d \in Calls : step'[d] \in {"unmade", "reserved"} <=> step[d] \in {"unmade", "reserved"}
       /\ \A d \in Calls : step[d] = "stopped" => step'[d] = "stopped"
    BY <1>4, <1>7
<1>15. ThreadsInv'
  <2>1. stopper' \in [Calls -> SUBSET Scopes]
      BY <1>1 DEF RegistryInv, ThreadsInv
  <2>2. \A d \in Calls : timer'[d] = "none" <=> step'[d] \in {"unmade", "reserved"}
      BY <1>1, <1>14 DEF RegistryInv, ThreadsInv
  <2>3. \A d \in Calls : cancelled'[d] => step'[d] = "stopped"
      BY <1>1, <1>14 DEF RegistryInv, ThreadsInv
  <2>4. /\ cancelled' \in [Calls -> BOOLEAN] /\ ceiling' \subseteq Scopes
        /\ using' \in [Calls -> SUBSET Scopes]
        /\ timer' \in [Calls -> {"none", "asleep", "ticking", "resolving", "ended"}]
        /\ \A d \in Calls : timer'[d] = "ended" /\ spec'[d].recurring => cancelled'[d]
        /\ \A d \in Calls : using'[d] \subseteq spec'[d].cap /\ (using'[d] # {} => timer'[d] = "resolving")
      BY <1>1 DEF RegistryInv, ThreadsInv
  <2> QED  BY <1>12, <1>13, <2>1, <2>2, <2>3, <2>4 DEF ThreadsInv
<1> QED  BY <1>11, <1>15 DEF RegistryInv

LEMMA StopTimerKeeps ==
    ASSUME RegistryInv, NEW c \in Calls, StopTimer(c)
    PROVE  RegistryInv'
<1>1. /\ step[c] = "removed" /\ step' = [step EXCEPT ![c] = "stopped"]
      /\ cancelled' = [cancelled EXCEPT ![c] = TRUE]
      /\ UNCHANGED <<next_id, jobs, ceiling, spec, id, timer, using, stopper>>
    BY DEF StopTimer, SetFlag
<1>2. Made' = Made /\ Listed' = Listed /\ \A d \in Calls : step'[d] = "listed" <=> step[d] = "listed"
    BY <1>1 DEF RegistryInv, IdsInv, Made, Listed
<1>3. \A i \in Listed : jobs[i].call \in Calls
    BY DEF RegistryInv, IdsInv, RecordShape
<1>4. IdsInv'
    BY <1>1, <1>2, <1>3 DEF RegistryInv, IdsInv
<1>5. OwnOutput' /\ StoppedByItsEqual'
    BY <1>1, <1>2 DEF RegistryInv, IdsInv, ThreadsInv, OwnOutput, StoppedByItsEqual
<1>6. ThreadsInv'
    BY <1>1, <1>5 DEF RegistryInv, IdsInv, ThreadsInv
<1> QED  BY <1>4, <1>6 DEF RegistryInv

LEMMA NarrowKeeps ==
    ASSUME RegistryInv, NEW cap \in SUBSET Scopes, Narrow(cap)
    PROVE  RegistryInv'
<1>1. /\ ceiling' = ceiling \cap cap
      /\ UNCHANGED <<next_id, jobs, step, spec, id, cancelled, timer, using, stopper>>
    BY DEF Narrow, Clamp
<1>2. Made' = Made /\ Listed' = Listed
    BY <1>1 DEF Made, Listed
<1>3. IdsInv'
    BY <1>1, <1>2 DEF RegistryInv, IdsInv
<1>4. OwnOutput' /\ StoppedByItsEqual'
    BY <1>1, <1>2 DEF RegistryInv, ThreadsInv, OwnOutput, StoppedByItsEqual
<1>5. ThreadsInv'
    BY <1>1, <1>4 DEF RegistryInv, ThreadsInv
<1> QED  BY <1>3, <1>5 DEF RegistryInv

(* Every step of the registry keeps the invariant, and only a listed job's    *)
(* thread begins a request.                                                   *)
LEMMA RegistryStep ==
    ASSUME RegistryInv, [RegistryNext]_registryVars
    PROVE  /\ RegistryInv'
           /\ \A c \in Calls : timer[c] # "resolving" /\ timer'[c] = "resolving" => step[c] = "listed"
<1>1. CASE UNCHANGED registryVars
  <2>1. Made' = Made /\ Listed' = Listed
      BY <1>1 DEF registryVars, Made, Listed
  <2>2. IdsInv' /\ ThreadsInv' /\ timer' = timer
      BY <1>1, <2>1 DEF registryVars, RegistryInv, IdsInv, ThreadsInv, OwnOutput, StoppedByItsEqual
  <2> QED  BY <2>2 DEF RegistryInv
<1>2. ASSUME NEW c \in Calls, Schedule(c)
      PROVE  RegistryInv' /\ \A d \in Calls : timer'[d] = "resolving" => timer[d] = "resolving"
  <2>1. RegistryInv'
      BY <1>2, ReserveKeeps, StartTimerKeeps, InsertKeeps DEF Schedule
  <2>2. timer' = timer \/ timer' = [timer EXCEPT ![c] = "asleep"]
      BY <1>2 DEF Schedule, Reserve, Start, Insert
  <2> QED  BY <2>1, <2>2 DEF RegistryInv, ThreadsInv
<1>3. ASSUME NEW c \in Calls, Tick(c)
      PROVE  /\ RegistryInv'
             /\ \A d \in Calls : timer[d] # "resolving" /\ timer'[d] = "resolving" => step[d] = "listed"
  <2>1. CASE WakeTimer(c) \/ \E outcome \in {"ok", "failed"} : Fold(c, outcome)
    <3>1. RegistryInv'
        BY <2>1, WakeTimerKeeps, FoldKeeps
    <3>2. \E at \in {"asleep", "ticking", "ended"} : timer' = [timer EXCEPT ![c] = at]
        BY <2>1 DEF WakeTimer, Fold, AfterTick
    <3> QED  BY <3>1, <3>2 DEF RegistryInv, ThreadsInv
  <2>2. CASE Fire(c)
    <3>1. RegistryInv' /\ (timer'[c] = "resolving" => step[c] = "listed")
        BY <2>2, FireKeeps
    <3>2. \A d \in Calls \ {c} : timer'[d] = timer[d]
        BY <2>2 DEF Fire, RegistryInv, ThreadsInv
    <3> QED  BY <3>1, <3>2
  <2> QED  BY <1>3, <2>1, <2>2 DEF Tick
<1>4. ASSUME NEW c \in Calls, StopTimer(c)
      PROVE  RegistryInv' /\ timer' = timer
    BY <1>4, StopTimerKeeps DEF StopTimer
<1>5. ASSUME NEW holder \in Holders \cup {Root}, Narrow(holder) \/ CancelAs(holder)
      PROVE  RegistryInv' /\ timer' = timer
  <2>1. holder \in SUBSET Scopes
      BY TimeJobsAssumption DEF Root
  <2>2. CASE Narrow(holder)
      BY <2>1, <2>2, NarrowKeeps DEF Narrow
  <2>3. CASE CancelAs(holder)
    <3>1. /\ NotPersistent \in SUBSET Listed /\ \A s \in Specs : Firing(s.target) \in SUBSET Listed
          /\ \A i \in Ids : One(i) \in SUBSET Listed
        BY DEF NotPersistent, Firing, One
    <3>2. PICK matching \in SUBSET Listed : Cancel(holder, matching)
        BY <2>3, <3>1 DEF CancelAs
    <3> QED  BY <2>1, <3>2, CancelTimedKeeps DEF Cancel
  <2> QED  BY <1>5, <2>2, <2>3
<1> QED  BY <1>1, <1>2, <1>3, <1>4, <1>5 DEF RegistryNext

(* The registry's invariant, however calls, ticks, cancels and narrowings     *)
(* fall between each other's critical sections.                               *)
THEOREM RegistryInvariant == RegistrySpec => []RegistryInv
<1> QED  BY RegistryStarts, RegistryStep, PTL DEF RegistrySpec

(* A job is stopped only by a caller that holds all it was scheduled with     *)
(* (covers), and no request of it begins once it has left the map (fire).     *)
THEOREM TimerStopsForGood == RegistrySpec => StopsForGood
<1>1. RegistryInv => StoppedByItsEqual
    BY DEF RegistryInv, ThreadsInv
<1>2. RegistryInv /\ [RegistryNext]_registryVars =>
        [\A c \in Calls : timer[c] # "resolving" /\ timer'[c] = "resolving" =>
           step[c] = "listed" \/ step'[c] = "listed"]_registryVars
    BY RegistryStep
<1> QED  BY <1>1, <1>2, RegistryInvariant, PTL DEF RegistrySpec, StopsForGood, NoFireOnceRemoved

(* What a listed job shows was read under its own authority (render), and a   *)
(* listed recurring job has a thread that nothing has told to stop.           *)
THEOREM ReadoutIsItsOwn == RegistrySpec => [](OwnOutput /\ ListedIsTicking)
<1>1. RegistryInv => OwnOutput /\ ListedIsTicking
  <2> SUFFICES ASSUME RegistryInv
               PROVE  OwnOutput /\ ListedIsTicking
      OBVIOUS
  <2>1. \A i \in Listed : jobs[i].call \in Calls /\ step[jobs[i].call] = "listed"
      BY DEF RegistryInv, IdsInv, RecordShape
  <2> QED  BY <2>1 DEF RegistryInv, ThreadsInv, ListedIsTicking
<1> QED  BY <1>1, RegistryInvariant, PTL
=============================================================================
