------------------------------ MODULE NamesLayer ------------------------------
(* The names layer (src/crates/ikigai-embedded/src/names.rs): a host's named  *)
(* requests, read from a names file, rebound when the file changes on disk    *)
(* and when the atom urn:iki:host:names is written through the kernel.  One   *)
(* async lock is held from before a reload reads, and from before a Sink      *)
(* truncates the file, until the names are installed.                         *)
EXTENDS Naturals, Sequences

CONSTANTS Contents, Refused, Absent, MaxEdits

NamesLayerAssumption ==
    Refused \subseteq Contents /\ Absent \in Contents \ Refused /\ MaxEdits \in Nat

Actors == {"attach", "watcher", "sink"}

VARIABLES
    file, inforce,  \* as in LiveFile; inforce is what the dynamic space binds
    torn,           \* the versions that a Sink had truncated and not yet written
    attached,       \* how far NamesLayer::attach has got
    seenFrom,       \* the file's length when the watcher attached
    notices,        \* the watcher's undelivered events
    step,           \* per actor: where it stands
    reading,        \* the version the lock's owner has read
    wrote,          \* the version the last Sink wrote, 0 if it answered an error
    refusal         \* Shared::refusal: whether the last read was refused

vars == <<file, inforce, torn, attached, seenFrom, notices, step, reading, wrote, refusal>>

Init ==
    /\ \E c \in Contents : file = <<c>>
    /\ inforce = 0 /\ torn = {} /\ attached = "no" /\ seenFrom = 0 /\ notices = {}
    /\ step = [a \in Actors |-> "idle"] /\ reading = 0 /\ wrote = 0 /\ refusal = FALSE

Now == file[Len(file)]
Put(a, where) == step' = [step EXCEPT ![a] = where]

(* The platform reports a change of the file, or that it dropped events.      *)
Noticed(kind) == notices' = IF attached = "watching" THEN notices \union {kind} ELSE notices

Edit(c) ==
    /\ Len(file) <= MaxEdits /\ c # Now /\ step["sink"] # "torn"
    /\ file' = Append(file, c)
    /\ \E kind \in {"edit", "rescan"} : Noticed(kind)
    /\ UNCHANGED <<inforce, torn, attached, seenFrom, step, reading, wrote, refusal>>

-----------------------------------------------------------------------------
(* The update lock, and reload_locked under it.                               *)
Inside == {"locked", "torn", "written", "read"}
Unlocked == \A a \in Actors : step[a] \notin Inside
NoLock(a) == TRUE
WatcherNeedsNone(a) == a = "watcher" \/ Unlocked
MayTake(a) == Unlocked

Lock(a) ==
    /\ step[a] = "waiting" /\ MayTake(a)
    /\ Put(a, "locked")
    /\ UNCHANGED <<file, inforce, torn, attached, seenFrom, notices, reading, wrote, refusal>>

(* attach's block_on ends and the watcher is installed; the others go idle.   *)
Leave(a) ==
    /\ Put(a, "idle")
    /\ attached' = IF a = "attach" THEN "bound" ELSE attached

(* A file that does not read keeps the names in force and says why.           *)
BindNothing == inforce' = Len(file)
KeepNames == UNCHANGED inforce

ReadFile(a) ==
    /\ step[a] = IF a = "sink" THEN "written" ELSE "locked"
    /\ IF Now \in Refused
       THEN /\ refusal' = TRUE /\ KeepNames /\ Leave(a)
            /\ wrote' = IF a = "sink" THEN 0 ELSE wrote
            /\ UNCHANGED reading
       ELSE /\ reading' = Len(file) /\ Put(a, "read")
            /\ UNCHANGED <<refusal, inforce, attached, wrote>>
    /\ UNCHANGED <<file, torn, seenFrom, notices>>

(* install_topology, or nothing when the digest is the one in force.          *)
Install(a) ==
    /\ step[a] = "read"
    /\ inforce' = IF inforce # 0 /\ file[inforce] = file[reading] THEN inforce ELSE reading
    /\ refusal' = FALSE /\ reading' = 0
    /\ Leave(a)
    /\ UNCHANGED <<file, torn, seenFrom, notices, wrote>>

-----------------------------------------------------------------------------
(* attach: a reload, and then the watch.                                      *)
AttachBegin ==
    /\ attached = "no" /\ step["attach"] = "idle"
    /\ Put("attach", "waiting")
    /\ UNCHANGED <<file, inforce, torn, attached, seenFrom, notices, reading, wrote, refusal>>

Watch ==
    /\ attached = "bound"
    /\ attached' = "watching" /\ seenFrom' = Len(file)
    /\ UNCHANGED <<file, inforce, torn, notices, step, reading, wrote, refusal>>

(* The watcher's callback, on every event that may be a change of the file.   *)
OnlyNamed == {"edit"}
MayChange == {"edit", "rescan"}

Notice(kind) ==
    /\ kind \in notices /\ step["watcher"] = "idle"
    /\ notices' = notices \ {kind}
    /\ IF kind \in MayChange THEN Put("watcher", "waiting") ELSE UNCHANGED step
    /\ UNCHANGED <<file, inforce, torn, attached, seenFrom, reading, wrote, refusal>>

(* Sink content=<names that parse>: lock, truncate, write, reload.            *)
SinkBegin ==
    /\ attached # "no" /\ step["sink"] = "idle" /\ Len(file) < MaxEdits
    /\ Put("sink", "waiting") /\ wrote' = 0
    /\ UNCHANGED <<file, inforce, torn, attached, seenFrom, notices, reading, refusal>>

Truncate ==
    /\ step["sink"] = "locked"
    /\ file' = Append(file, Absent)
    /\ torn' = torn \union {Len(file) + 1}
    /\ Put("sink", "torn") /\ Noticed("edit")
    /\ UNCHANGED <<inforce, attached, seenFrom, reading, wrote, refusal>>

AfterWrite == "written"

Write(c) ==
    /\ step["sink"] = "torn" /\ c \notin Refused
    /\ file' = Append(file, c) /\ wrote' = Len(file) + 1
    /\ Put("sink", AfterWrite) /\ Noticed("edit")
    /\ UNCHANGED <<inforce, torn, attached, seenFrom, reading, refusal>>

-----------------------------------------------------------------------------
Step(a) == Lock(a) \/ ReadFile(a) \/ Install(a)
Sinking == SinkBegin \/ Truncate \/ (\E c \in Contents : Write(c))
Noticing == \E kind \in {"edit", "rescan"} : Notice(kind)
Next ==
    \/ \E c \in Contents : Edit(c)
    \/ \E a \in Actors : Step(a)
    \/ AttachBegin \/ Watch \/ Noticing \/ Sinking

Spec == Init /\ [][Next]_vars

(* Every holder of the lock lets it go, the lock is fair, attach and the      *)
(* platform's deliveries are not put off for ever.                            *)
FairSpec ==
    /\ Spec
    /\ \A a \in Actors : WF_vars(ReadFile(a) \/ Install(a)) /\ SF_vars(Lock(a))
    /\ WF_vars(AttachBegin \/ Watch) /\ WF_vars(Noticing)
    /\ WF_vars(Truncate \/ \E c \in Contents : Write(c))

-----------------------------------------------------------------------------
TypeOK ==
    /\ file \in Seq(Contents) /\ Len(file) \in 1 .. MaxEdits + 3
    /\ inforce \in 0 .. Len(file) /\ reading \in 0 .. Len(file) /\ wrote \in 0 .. Len(file)
    /\ torn \subseteq 1 .. Len(file) /\ seenFrom \in 0 .. Len(file)
    /\ attached \in {"no", "bound", "watching"} /\ notices \subseteq {"edit", "rescan"}
    /\ step \in [Actors -> {"idle", "waiting"} \union Inside]
    /\ \A a, b \in Actors : step[a] \in Inside /\ step[b] \in Inside => a = b
    /\ refusal \in BOOLEAN

(* The watcher never installs the empty table a Sink's write passes through.  *)
NeverTorn == inforce \notin torn

(* A Sink that returned without an error left in force the names it wrote or  *)
(* a later version's, and nothing since has brought an older one back.        *)
SinkIsInForce ==
    step["sink"] = "idle" /\ wrote # 0 =>
        inforce # 0 /\ \E v \in wrote .. Len(file) : file[v] = file[inforce]

(* Once the watch is attached and an edit has come since, a layer with no     *)
(* event and no reload outstanding binds the file as it stands, or reports    *)
(* that it does not read.                                                     *)
Quiet == attached = "watching" /\ notices = {} /\ step["watcher"] = "idle" /\ Unlocked
                /\ \A a \in Actors : step[a] # "waiting"
QuietIsCurrent ==
    Quiet /\ Len(file) > seenFrom =>
        IF Now \in Refused THEN refusal ELSE ~refusal /\ file[inforce] = Now

L == INSTANCE LiveFile WITH MaxEdits <- MaxEdits + 2
KeepsPromise == L!Spec

(* "rebuilt on every write and every out-of-band edit of the file"            *)
(* It does not hold: README, Disagreements.                                   *)
Settles == L!Settles
=============================================================================
