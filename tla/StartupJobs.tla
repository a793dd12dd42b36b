----------------------------- MODULE StartupJobs -----------------------------
(* The host's own recurring jobs, from the config home's jobs file            *)
(* (src/crates/ikigai-embedded/src/startup_jobs.rs): read at start, watched   *)
(* from then on, and each reload scheduling the new table in the job registry *)
(* before it cancels the old one.  A reload holds one lock from before it     *)
(* reads the file until the table is recorded.                                *)
EXTENDS Naturals, Sequences, FiniteSets

CONSTANTS Contents, Refused, Absent, MaxEdits,
    Jobs,       \* the declarations that may be made for this instance
    Table       \* the jobs a content declares for it

ASSUME StartupJobsAssumption ==
    /\ Refused \subseteq Contents /\ Absent \in Contents \ Refused /\ MaxEdits \in Nat
    /\ Table \in [Contents \ Refused -> SUBSET Jobs] /\ Table[Absent] = {}
    /\ IsFiniteSet(Jobs)

Threads == {"starter", "watcher"}

VARIABLES
    file, inforce,      \* as in LiveFile; State::text is file[inforce]
    starter,            \* how far the start has got
    watching,           \* whether the platform watcher is attached
    events,             \* the watcher's undelivered events
    reading,            \* per thread: the version its reload has read, 0 outside one
    todo,               \* per thread: the jobs that reload has still to schedule
    live,               \* the registry's records of this file: {<<version, job>>}
    ids                 \* State::ids, the version whose records it holds

jobsVars == <<file, inforce, starter, watching, events, reading, todo, live, ids>>

JobsInit ==
    /\ \E c \in Contents : file = <<c>>
    /\ inforce = 0 /\ starter = "first" /\ watching = FALSE /\ events = 0
    /\ reading = [t \in Threads |-> 0] /\ todo = [t \in Threads |-> {}]
    /\ live = {} /\ ids = 0

Now == file[Len(file)]

(* Somebody edits, removes or restores the file.                              *)
Edit(c) ==
    /\ Len(file) <= MaxEdits /\ c # Now
    /\ file' = Append(file, c)
    /\ events' = IF watching THEN events + 1 ELSE events
    /\ UNCHANGED <<inforce, starter, watching, reading, todo, live, ids>>

-----------------------------------------------------------------------------
(* reload, by the starting thread or by the watcher's, one at a time.         *)
Wants(who) == IF who = "starter" THEN starter \in {"first", "again"} ELSE events > 0
Unlocked == \A t \in Threads : reading[t] = 0
NoLock == TRUE
MayEnter == Unlocked

Recorded(c) == inforce # 0 /\ file[inforce] = c

(* What the lock's owner does on leaving: a start whose reload failed ends    *)
(* the process, the watcher reports it and waits for the next event.          *)
Leave(who, ok) ==
    /\ IF who = "starter"
       THEN /\ starter' = IF ~ok THEN "refused"
                          ELSE IF starter = "first" THEN "attach" ELSE "up"
            /\ UNCHANGED events
       ELSE events' = events - 1 /\ UNCHANGED starter

(* Locked, and the file read: nothing to do, a refusal, or a table to install.*)
Read(who) ==
    /\ Wants(who) /\ reading[who] = 0 /\ MayEnter /\ starter # "refused"
    /\ IF Recorded(Now) \/ Now \in Refused
       THEN /\ Leave(who, Now \notin Refused)
            /\ UNCHANGED <<reading, todo>>
       ELSE /\ reading' = [reading EXCEPT ![who] = Len(file)]
            /\ todo' = [todo EXCEPT ![who] = Table[Now]]
            /\ UNCHANGED <<starter, events>>
    /\ UNCHANGED <<file, inforce, watching, live, ids>>

(* One schedule_persistent: it cannot fail, the resolver being installed.     *)
ScheduleJob(who, j) ==
    /\ j \in todo[who]
    /\ live' = live \union {<<reading[who], j>>}
    /\ todo' = [todo EXCEPT ![who] = @ \ {j}]
    /\ UNCHANGED <<file, inforce, starter, watching, events, reading, ids>>

(* One cancel of the table it replaces, once all of the new one runs.         *)
CancelFirst(who) == TRUE
MayCancel(who) == todo[who] = {}
OldOnly == {r \in live : r[1] = ids /\ \A t \in Threads : reading[t] # 0 => r[2] \notin Table[file[reading[t]]]}
Old == {r \in live : r[1] = ids}

CancelJob(who) ==
    /\ reading[who] # 0 /\ MayCancel(who)
    /\ \E r \in Old : live' = live \ {r}
    /\ UNCHANGED <<file, inforce, starter, watching, events, reading, todo, ids>>

RecordEarly(who) == Old = {}
MayRecord(who) == todo[who] = {} /\ Old = {}

Record(who) ==
    /\ reading[who] # 0 /\ MayRecord(who)
    /\ ids' = reading[who] /\ inforce' = reading[who]
    /\ reading' = [reading EXCEPT ![who] = 0]
    /\ Leave(who, TRUE)
    /\ UNCHANGED <<file, watching, todo, live>>

Reload(who) == Read(who) \/ (\E j \in Jobs : ScheduleJob(who, j)) \/ CancelJob(who) \/ Record(who)

(* watch: attach to the directory, then reload once more for what was edited  *)
(* in between.                                                                *)
NoSecondReload == "up"
AfterAttach == "again"

AttachWatcher ==
    /\ starter = "attach"
    /\ watching' = TRUE /\ starter' = AfterAttach
    /\ UNCHANGED <<file, inforce, events, reading, todo, live, ids>>

JobsNext ==
    \/ \E c \in Contents : Edit(c)
    \/ \E who \in Threads : Reload(who)
    \/ AttachWatcher

(* Both threads run; the platform delivers every event.                       *)
JobsFairness == WF_jobsVars(AttachWatcher) /\ WF_jobsVars(Reload("starter")) /\ WF_jobsVars(Reload("watcher"))
JobsSpec == JobsInit /\ [][JobsNext]_jobsVars
JobsFairSpec == JobsSpec /\ JobsFairness

-----------------------------------------------------------------------------
JobsTypeOK ==
    /\ file \in Seq(Contents) /\ Len(file) \in 1 .. MaxEdits + 1
    /\ inforce \in 0 .. Len(file) /\ ids \in 0 .. Len(file) /\ reading \in [Threads -> 0 .. Len(file)]
    /\ starter \in {"first", "attach", "again", "up", "refused"}
    /\ watching \in BOOLEAN /\ events \in 0 .. MaxEdits
    /\ todo \in [Threads -> SUBSET Jobs]
    /\ \A t \in Threads : todo[t] # {} => reading[t] # 0
    /\ live \subseteq (1 .. Len(file)) \X Jobs

(* A job that both the old and the new table declare never stops being timed  *)
(* while one replaces the other.                                              *)
Timed(j) == \E r \in live : r[2] = j
Declares(v, j) == v # 0 /\ j \in Table[file[v]]
NoGap ==
    \A j \in Jobs :
        Declares(ids, j) /\ (\A t \in Threads : reading[t] # 0 => Declares(reading[t], j))
            => Timed(j)

(* Between reloads the registry times exactly the table in force, each of its *)
(* jobs once: no record of an older table is left behind.                     *)
TimedIsInForce ==
    Unlocked => live = IF ids = 0 THEN {} ELSE {ids} \X Table[file[ids]]

(* A kernel that is up, with no event and no reload outstanding, runs the     *)
(* file as it stands or, when that does not read, the last that did.          *)
QuietIsCurrent ==
    starter = "up" /\ events = 0 /\ Now \notin Refused =>
        ~Unlocked \/ (inforce # 0 /\ file[inforce] = Now)

(* The jobs file keeps the promise of a live file, an edit made between the   *)
(* first read and the watch included.                                         *)
L == INSTANCE LiveFile
JobsKeepPromise == L!Spec
JobsSettle == <>(starter = "refused") \/ L!Settles
=============================================================================
