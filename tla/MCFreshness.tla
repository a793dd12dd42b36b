----------------------------- MODULE MCFreshness ----------------------------
(* What keeps a page current: the ingest of captured events, the derivation   *)
(* of the view, the triggers that start them, and the stream that tells a     *)
(* page; and what keeps a caller's authority current, at the QUIC door and at *)
(* a libp2p peer, whose files are edited while they serve.  A behaviour is    *)
(* one part's.  The triggers are taken twice: with the timer, and the two     *)
(* watchers alone.  Of the page's two fragments one hangs from two threads,   *)
(* so that an event may leave a target unnamed.                               *)
EXTENDS ViewIngest, ViewDerive, Admission, FiniteSetTheorems, TLAPS

CONSTANTS e1, e2, n1, timer, watcher

VARIABLES
    part,       \* "ingest", "runaway", "timer", "watchers", "push", "door" or "peer"
    done, source, pending, derived, orgq, storeq, uncut, stage, window, snap,
    cuts, cached, stale, unheard, listening, queue, dropped, task, sending, channel,
    page, lastId, refetch,
    from, handles, driver, enrolled, up, sent, work, ran, given, amends, closes

syncVars == <<done, source, pending, derived, orgq, storeq, uncut, stage, window, snap>>
pushVars == <<cuts, cached, stale, unheard, listening, queue, dropped, task, sending, channel,
              page, lastId, refetch>>
peerVars == <<from, handles, driver, enrolled, up, sent, work, ran, given, amends, closes>>
all == <<part, ingestVars, vars, syncVars, pushVars, admissionVars, peerVars>>

Timer == INSTANCE SyncTriggers WITH
    Files <- {"agenda", "work"}, Inbox <- "agenda", Threads <- {"org", "store", "timer"},
    MaxEdits <- 2, edits <- done, inbox <- pending, view <- derived, at <- stage
Watchers == INSTANCE SyncTriggers WITH
    Files <- {"agenda", "work"}, Inbox <- "agenda", Threads <- {"org", "store"},
    MaxEdits <- 2, edits <- done, inbox <- pending, view <- derived, at <- stage
Push == INSTANCE PushStream WITH
    Paths <- {"card", "list"}, Threads <- {"both", "one"},
    Hangs <- [t \in {"both", "one"} |-> IF t = "both" THEN {"card", "list"} ELSE {"list"}],
    NAMED <- 1, CAPACITY <- 1, MaxCuts <- 3

(* Two certificates, both listed: one whose entry names its grant, one under  *)
(* the default or a grant of its own, as clients.json is edited.  A client    *)
(* unlisted is the lobby's stranger.                                          *)
Entry(grant, who) == [grant |-> grant, who |-> who]
Enrolling(entries, default) == [entries |-> entries, default |-> default]
MCFaceOf == [s \in {"files", "say", "contacts"} |->
                CASE s = "files" -> "host" [] s = "say" -> "layers" [] OTHER -> "personal"]
MCClientFiles ==
    {Broken,
     Enrolling([c \in {"base", "laptop"} |->
                  IF c = "base" THEN Entry("most", "ann") ELSE Entry(None, None)], "less"),
     Enrolling([c \in {"base"} |-> Entry("less", "ann")], None)}
MCGrantFiles ==
    {[g \in {"most", "less"} |-> IF g = "most" THEN {"contacts", "files"} ELSE {"files", "say"}],
     [g \in {"most"} |-> {"files"}]}
MCFlags ==
    {[layers |-> FALSE, lobby |-> FALSE, require |-> FALSE, cap |-> {}],
     [layers |-> FALSE, lobby |-> FALSE, require |-> TRUE, cap |-> {"files"}],
     [layers |-> TRUE, lobby |-> TRUE, require |-> FALSE, cap |-> {}]}

(* One calls the other twice, or each calls the other; only one of them       *)
(* serves a kernel.                                                           *)
Peer == INSTANCE P2pPeer WITH
    Peers <- {"a", "b"}, Calls <- {1, 2}, Serving <- {"b"}, Paths <- {"direct"},
    Callers <- {[k \in {1, 2} |-> "a"], [k \in {1, 2} |-> IF k = 1 THEN "a" ELSE "b"]},
    MaxEdits <- 1, MaxCloses <- 1, task <- driver, call <- sent, edits <- amends

ASSUME
    /\ Timer!SyncTriggersAssumption /\ Watchers!SyncTriggersAssumption
    /\ Push!PushStreamAssumption /\ Peer!P2pPeerAssumption

MCInit ==
    /\ part \in {"ingest", "runaway", "timer", "watchers", "push", "door", "peer"}
    /\ IngestInit /\ Push!Init /\ Init
    /\ part # "runaway" => desired = view
    /\ IF part = "watchers" THEN Watchers!Init ELSE Timer!Init
    /\ DoorInit
    /\ part # "door" => clients = None /\ DOMAIN grants = {"most"} /\ flags.require
    /\ Peer!Init
    /\ part # "peer" => from[2] = "a" /\ enrolled["b"] = {}

MCNext ==
    /\ part' = part
    /\ \/ part = "ingest" /\ IngestNext /\ UNCHANGED <<vars, syncVars, pushVars, admissionVars, peerVars>>
       \/ part = "runaway" /\ Next /\ UNCHANGED <<ingestVars, syncVars, pushVars, admissionVars, peerVars>>
       \/ part = "timer" /\ Timer!Next /\ UNCHANGED <<ingestVars, vars, pushVars, admissionVars, peerVars>>
       \/ part = "watchers" /\ Watchers!Next /\ UNCHANGED <<ingestVars, vars, pushVars, admissionVars, peerVars>>
       \/ part = "push" /\ Push!Next /\ UNCHANGED <<ingestVars, vars, syncVars, admissionVars, peerVars>>
       \/ part = "door" /\ DoorNext /\ UNCHANGED <<ingestVars, vars, syncVars, pushVars, peerVars>>
       \/ part = "peer" /\ Peer!Next /\ UNCHANGED <<ingestVars, vars, syncVars, pushVars, admissionVars>>

(* The fairness of each part, each of its threads as one.                     *)
WatchOrg ==
    \/ part = "timer" /\ ((\E f \in {"agenda", "work"} : Timer!ReceiveOrg(f))
                          \/ Timer!Derive("org") \/ Timer!Expire("org"))
    \/ part = "watchers" /\ ((\E f \in {"agenda", "work"} : Watchers!ReceiveOrg(f))
                             \/ Watchers!Derive("org") \/ Watchers!Expire("org"))
WatchStore ==
    \/ part = "timer" /\ (Timer!ReceiveStore \/ Timer!Derive("store") \/ Timer!Expire("store"))
    \/ part = "watchers" /\ (Watchers!ReceiveStore \/ Watchers!Derive("store")
                             \/ Watchers!Expire("store"))
Beats == part = "timer" /\ (Timer!HeartBeat \/ Timer!Derive("timer"))

InPush(A) == part = "push" /\ A
InDoor(A) == part = "door" /\ A
Reconnects == Push!Connect \/ Push!Open \/ Push!EndOfStream

MCFairSpec ==
    /\ MCInit /\ [][MCNext]_all
    /\ WF_syncVars(WatchOrg) /\ WF_syncVars(WatchStore) /\ WF_syncVars(Beats)
    /\ WF_pushVars(InPush(Push!Fetch("card"))) /\ WF_pushVars(InPush(Push!Fetch("list")))
    /\ WF_pushVars(InPush(Reconnects)) /\ WF_pushVars(InPush(Push!LetGo))
    /\ SF_pushVars(InPush(Push!Deliver)) /\ SF_pushVars(InPush(Push!Drain))
    /\ SF_pushVars(InPush(Push!Send)) /\ SF_pushVars(InPush(Push!Idle))
    /\ WF_admissionVars(InDoor(Admit(1) \/ Age(1) \/ CloseAged(1)))
    /\ WF_admissionVars(InDoor(Answer(1) \/ Told(1)))
    /\ \A k \in {1, 2} :
          /\ WF_peerVars(part = "peer" /\ Peer!TakeCommand(k))
          /\ WF_peerVars(part = "peer" /\ (Peer!Response(k) \/ Peer!OutboundFailure(k)))

ComesToRest ==
    /\ part = "timer" => Timer!EverythingDerived
    /\ part = "watchers" => Watchers!ComesToRest
EditsRevoke == (part = "door" => EditRevokes) /\ Peer!RevokedRunsNothing
CallsAreAnswered == []Peer!ToldAsRun /\ (part = "peer" => Peer!CallsReturn)
ComesCurrent == part = "push" => Push!ComesCurrent
-----------------------------------------------------------------------------
(* Proofs.  Until the breaker trips, each pass that took the streak to the    *)
(* limit or past it is still on its way to trip it; from then on none begins, *)
(* and each of those under way can lengthen the streak once more.             *)
Tripping == {p \in Passes : at[p] = "trip"}
Writing == {p \in Passes : at[p] \in {"desired", "view", "apply"}}

Contained ==
    IF tripped THEN unconverged + Cardinality(Writing) <= (CHURN_LIMIT - 1) + Cardinality(Passes)
    ELSE unconverged <= (CHURN_LIMIT - 1) + Cardinality(Tripping)

DeriveInv == TypeOK /\ churn = unconverged /\ Contained

LEMMA PassesCounted ==
    /\ IsFiniteSet(Tripping) /\ IsFiniteSet(Writing)
    /\ Cardinality(Passes) \in Nat /\ Cardinality(Tripping) \in Nat /\ Cardinality(Writing) \in Nat
    /\ Cardinality(Writing) + Cardinality(Tripping) <= Cardinality(Passes)
<1>1. IsFiniteSet(Passes) /\ Tripping \in SUBSET Passes /\ Writing \in SUBSET Passes
    BY ViewDeriveAssumption DEF Tripping, Writing
<1>2. IsFiniteSet(Tripping) /\ IsFiniteSet(Writing)
    BY <1>1, FS_Subset
<1>3. /\ Cardinality(Passes) \in Nat /\ Cardinality(Tripping) \in Nat /\ Cardinality(Writing) \in Nat
    BY <1>1, <1>2, FS_CardinalityType
<1>4. Writing \cap Tripping = {} /\ Writing \cup Tripping \in SUBSET Passes
    BY DEF Tripping, Writing
<1>5. Cardinality(Writing \cup Tripping) =
         Cardinality(Writing) + Cardinality(Tripping) - Cardinality(Writing \cap Tripping)
    BY <1>2, FS_Union
<1>6. Cardinality(Writing \cap Tripping) = 0
    BY <1>4, FS_EmptySet
<1>7. Cardinality(Writing \cup Tripping) <= Cardinality(Passes)
    BY <1>1, <1>4, FS_Subset
<1> QED  BY <1>2, <1>3, <1>5, <1>6, <1>7

LEMMA DeriveStarts == Init => DeriveInv
<1> SUFFICES ASSUME Init
             PROVE  DeriveInv
    OBVIOUS
<1>1. Absent \in [Events -> Versions \union {0}]
    BY DEF Absent
<1>2. /\ want \in [Passes -> [Events -> Versions \union {0}]]
      /\ have \in [Passes -> [Events -> Versions \union {0}]]
    BY <1>1 DEF Init
<1>3. /\ at \in [Passes -> {"idle", "desired", "view", "apply", "trip"}]
      /\ changed \in [Passes -> BOOLEAN] /\ tripped \in BOOLEAN
    BY DEF Init
<1>4. todo \in [Passes -> SUBSET Requests] /\ \A p \in Passes : todo[p] = {}
    BY DEF Init
<1>5. edits \in 0 .. MaxEdits /\ unconverged \in Nat /\ churn \in 0 .. unconverged
    BY ViewDeriveAssumption DEF Init
<1>6. TypeOK
    BY <1>1, <1>2, <1>3, <1>4, <1>5 DEF Init, TypeOK
<1>7. unconverged = 0 /\ churn = 0 /\ ~tripped
    BY DEF Init
<1>8. Contained
    BY <1>7, PassesCounted, ViewDeriveAssumption DEF Contained
<1> QED  BY <1>6, <1>7, <1>8 DEF DeriveInv

LEMMA DeriveTypes == TypeOK /\ [Next]_vars => TypeOK'
<1> SUFFICES ASSUME TypeOK, [Next]_vars
             PROVE  TypeOK'
    OBVIOUS
<1> USE DEF TypeOK, outside, breaker, Go, Absent
<1>1. CASE \E e \in Events, v \in Versions \union {0} : Edit(e, v)
    BY <1>1, ViewDeriveAssumption DEF Edit
<1>2. ASSUME NEW p \in Passes, Begin(p) \/ Abandon(p) \/ ReadDesired(p) \/ Trip(p)
      PROVE  TypeOK'
    BY <1>2, ZenonT(60) DEF Begin, Abandon, ReadDesired, Trip
<1>3. ASSUME NEW p \in Passes, ReadView(p)
      PROVE  TypeOK'
  <2>1. {"delete"} \X Removed(want[p], view) \union {"create"} \X Added(want[p], view) \in SUBSET Requests
      BY DEF Removed, Added, Requests
  <2> QED  BY <1>3, <2>1 DEF ReadView
<1>4. ASSUME NEW p \in Passes, Record(p)
      PROVE  TypeOK'
  <2>1. Absent \in [Events -> Versions \union {0}]
      OBVIOUS
  <2>2. /\ want' \in [Passes -> [Events -> Versions \union {0}]]
        /\ have' \in [Passes -> [Events -> Versions \union {0}]]
      BY <1>4, <2>1 DEF Record
  <2>3. unconverged' \in Nat /\ churn' \in 0 .. unconverged'
      BY <1>4 DEF Record, Reset
  <2>4. /\ at' \in [Passes -> {"idle", "desired", "view", "apply", "trip"}]
        /\ todo' = todo /\ todo[p] = {} /\ \A q \in Passes : q # p => at'[q] = at[q]
      BY <1>4 DEF Record
  <2>5. /\ UNCHANGED <<desired, edits, view, tripped, changed>>
      BY <1>4 DEF Record
  <2> QED  BY <2>2, <2>3, <2>4, <2>5
<1>5. ASSUME NEW p \in Passes, NEW r \in Requests, NEW ok \in BOOLEAN, Request(p, r, ok)
      PROVE  TypeOK'
  <2>1. r[2] \in Events
      BY DEF Requests
  <2>2. view' \in [Events -> Versions \union {0}]
      BY <1>5, <2>1 DEF Request
  <2> QED  BY <1>5, <2>2 DEF Request
<1>6. CASE UNCHANGED vars
    BY <1>6 DEF vars
<1> QED  BY <1>1, <1>2, <1>3, <1>4, <1>5, <1>6 DEF Next, Work

(* A pass that moves on without recording leaves the count as it was.         *)
LEMMA MovesKeep ==
    ASSUME DeriveInv, UNCHANGED breaker, NEW p \in Passes, NEW to \in {"idle", "desired", "view", "apply"},
           at' = [at EXCEPT ![p] = to],
           at[p] \in {"desired", "view", "apply"} \/ (~tripped /\ at[p] # "trip")
    PROVE  churn' = unconverged' /\ Contained'
<1>1. churn' = churn /\ unconverged' = unconverged /\ tripped' = tripped /\ churn = unconverged
    BY DEF DeriveInv, breaker
<1>2. Tripping' = Tripping
    BY DEF DeriveInv, TypeOK, Tripping
<1>3. CASE ~tripped
    BY <1>1, <1>2, <1>3 DEF DeriveInv, Contained
<1>4. CASE tripped
  <2>1. Writing' \in SUBSET Writing
      BY <1>4 DEF DeriveInv, TypeOK, Writing
  <2>2. Cardinality(Writing') <= Cardinality(Writing) /\ Cardinality(Writing') \in Nat
      BY <2>1, PassesCounted, FS_Subset, FS_CardinalityType
  <2> QED  BY <1>1, <1>4, <2>2, PassesCounted, ViewDeriveAssumption DEF DeriveInv, TypeOK, Contained
<1> QED  BY <1>1, <1>3, <1>4

LEMMA RecordKeeps ==
    ASSUME DeriveInv, NEW p \in Passes, Record(p)
    PROVE  churn' = unconverged' /\ Contained'
<1>1. /\ at[p] = "apply" /\ at \in [Passes -> {"idle", "desired", "view", "apply", "trip"}]
      /\ churn = unconverged /\ unconverged \in Nat /\ CHURN_LIMIT \in Nat \ {0} /\ tripped' = tripped
    BY ViewDeriveAssumption DEF Record, DeriveInv, TypeOK
<1>2. \/ /\ churn' = churn + 1 /\ unconverged' = unconverged + 1 /\ AtLimit(churn)
         /\ at' = [at EXCEPT ![p] = "trip"]
      \/ /\ churn' = churn + 1 /\ unconverged' = unconverged + 1 /\ ~AtLimit(churn)
         /\ at' = [at EXCEPT ![p] = "idle"]
      \/ churn' = 0 /\ unconverged' = 0 /\ at' = [at EXCEPT ![p] = "idle"]
    BY DEF Record, Go, Reset
<1>3. churn' = unconverged'
    BY <1>1, <1>2
<1>4. Writing' = Writing \ {p} /\ p \in Writing
    BY <1>1, <1>2 DEF Writing
<1>5. Cardinality(Writing') = Cardinality(Writing) - 1
    BY <1>4, PassesCounted, FS_RemoveElement
<1>6. Tripping' = IF at'[p] = "trip" THEN Tripping \cup {p} ELSE Tripping
    BY <1>1, <1>2 DEF Tripping
<1>7. p \notin Tripping
    BY <1>1 DEF Tripping
<1>8. Cardinality(Tripping \cup {p}) = Cardinality(Tripping) + 1
    BY <1>7, PassesCounted, FS_AddElement
<1>9. CASE tripped
  <2>1. unconverged + Cardinality(Writing) <= (CHURN_LIMIT - 1) + Cardinality(Passes)
      BY <1>9 DEF DeriveInv, Contained
  <2>2. unconverged' \in Nat /\ unconverged' <= unconverged + 1
      BY <1>1, <1>2
  <2>3. unconverged' + Cardinality(Writing') <= (CHURN_LIMIT - 1) + Cardinality(Passes)
      BY <1>1, <1>5, <2>1, <2>2, PassesCounted
  <2> QED  BY <1>1, <1>3, <1>9, <2>3 DEF Contained
<1>10. CASE ~tripped
  <2>1. unconverged <= (CHURN_LIMIT - 1) + Cardinality(Tripping)
      BY <1>10 DEF DeriveInv, Contained
  <2>2. unconverged' <= (CHURN_LIMIT - 1) + Cardinality(Tripping')
    <3>1. CASE /\ unconverged' = unconverged + 1 /\ at' = [at EXCEPT ![p] = "trip"]
        BY <1>1, <1>6, <1>8, <2>1, <3>1, PassesCounted
    <3>2. CASE /\ unconverged' = unconverged + 1 /\ ~AtLimit(churn) /\ at' = [at EXCEPT ![p] = "idle"]
        BY <1>1, <1>6, <3>2, PassesCounted DEF AtLimit
    <3>3. CASE unconverged' = 0 /\ at' = [at EXCEPT ![p] = "idle"]
        BY <1>1, <1>6, <3>3, PassesCounted
    <3> QED  BY <1>2, <3>1, <3>2, <3>3
  <2> QED  BY <1>1, <1>3, <1>10, <2>2 DEF Contained
<1> QED  BY <1>9, <1>10

LEMMA TripKeeps ==
    ASSUME DeriveInv, NEW p \in Passes, Trip(p)
    PROVE  churn' = unconverged' /\ Contained'
<1>1. /\ at[p] = "trip" /\ at' = [at EXCEPT ![p] = "idle"] /\ tripped'
      /\ churn' = churn /\ unconverged' = unconverged
      /\ churn = unconverged /\ unconverged \in Nat /\ CHURN_LIMIT \in Nat \ {0}
    BY ViewDeriveAssumption DEF Trip, Go, DeriveInv, TypeOK
<1>2. Writing' = Writing
    BY <1>1 DEF DeriveInv, TypeOK, Writing
<1>3. unconverged + Cardinality(Writing) <= (CHURN_LIMIT - 1) + Cardinality(Passes)
  <2>1. CASE tripped
      BY <2>1 DEF DeriveInv, Contained
  <2>2. CASE ~tripped
    <3>1. unconverged <= (CHURN_LIMIT - 1) + Cardinality(Tripping)
        BY <2>2 DEF DeriveInv, Contained
    <3> QED  BY <1>1, <3>1, PassesCounted
  <2> QED  BY <2>1, <2>2
<1> QED  BY <1>1, <1>2, <1>3 DEF Contained

(* The breaker's count and flag, and the passes under way, for any number of  *)
(* passes and any limit.                                                      *)
THEOREM DeriveInvariant == Spec => []DeriveInv
<1>1. ASSUME DeriveInv, [Next]_vars
      PROVE  DeriveInv'
  <2>1. TypeOK'
      BY <1>1, DeriveTypes DEF DeriveInv
  <2>2. CASE \E e \in Events, v \in Versions \union {0} : Edit(e, v)
    <3>1. UNCHANGED <<breaker, at>>
        BY <2>2 DEF Edit
    <3> QED  BY <1>1, <2>1, <3>1 DEF DeriveInv, Contained, Writing, Tripping, breaker
  <2>3. ASSUME NEW p \in Passes, Begin(p)
        PROVE  churn' = unconverged' /\ Contained'
    <3>1. at' = [at EXCEPT ![p] = "desired"] /\ at[p] = "idle" /\ ~tripped /\ UNCHANGED breaker
        BY <2>3 DEF Begin, Go, Paused
    <3> QED  BY <1>1, <3>1, MovesKeep
  <2>4. ASSUME NEW p \in Passes, ReadDesired(p) \/ ReadView(p) \/ Abandon(p)
        PROVE  churn' = unconverged' /\ Contained'
    <3>1. /\ \E to \in {"idle", "desired", "view", "apply"} : at' = [at EXCEPT ![p] = to]
          /\ at[p] \in {"desired", "view", "apply"} /\ UNCHANGED breaker
        BY <2>4 DEF ReadDesired, ReadView, Abandon, Go
    <3> QED  BY <1>1, <3>1, MovesKeep
  <2>5. ASSUME NEW p \in Passes, NEW r \in Requests, NEW ok \in BOOLEAN, Request(p, r, ok)
        PROVE  churn' = unconverged' /\ Contained'
    <3>1. UNCHANGED <<breaker, at>>
        BY <2>5 DEF Request
    <3> QED  BY <1>1, <3>1 DEF DeriveInv, Contained, Writing, Tripping, breaker
  <2>6. CASE UNCHANGED vars
      BY <1>1, <2>1, <2>6 DEF DeriveInv, Contained, Writing, Tripping, vars
  <2> QED  BY <1>1, <2>1, <2>2, <2>3, <2>4, <2>5, <2>6, RecordKeeps, TripKeeps DEF DeriveInv, Next, Work
<1> QED  BY <1>1, DeriveStarts, PTL DEF Spec

(* A view that does not converge is written by no more passes than the limit  *)
(* and those already running (DeriveBreaker of ikigai-view).                  *)
THEOREM RunawayIsContained == Spec => []RunawayContained
<1>1. DeriveInv => RunawayContained
    BY PassesCounted, ViewDeriveAssumption DEF DeriveInv, TypeOK, Contained, RunawayContained
<1> QED  BY <1>1, DeriveInvariant, PTL

(* The view is paused only by a streak: as many churning passes as the limit, *)
(* and none between them that converged (DeriveBreaker::record).              *)
THEOREM PausedOnlyByAStreak == Spec => PausedByAStreak
<1> DEFINE Streak == \A p \in Passes : at[p] = "apply" /\ at'[p] = "trip" => unconverged' >= CHURN_LIMIT
<1>1. ASSUME DeriveInv, [Next]_vars
      PROVE  Streak
  <2> SUFFICES ASSUME NEW p \in Passes, at[p] = "apply", at'[p] = "trip"
               PROVE  unconverged' >= CHURN_LIMIT
      OBVIOUS
  <2>1. \E q \in Passes : Record(q)
      BY <1>1 DEF DeriveInv, TypeOK, Next, Work, Edit, Begin, ReadDesired, ReadView, Abandon, Trip,
                  Request, Go, vars
  <2>2. PICK q \in Passes : Record(q)
      BY <2>1
  <2>3. q = p
      BY <1>1, <2>2 DEF Record, Go, DeriveInv, TypeOK
  <2>4. AtLimit(churn) /\ unconverged' = unconverged + 1
      BY <1>1, <2>2, <2>3 DEF Record, Go, DeriveInv, TypeOK
  <2> QED  BY <1>1, <2>4, ViewDeriveAssumption DEF AtLimit, DeriveInv, TypeOK
<1>2. DeriveInv /\ [Next]_vars => [Streak]_vars
    BY <1>1
<1> QED  BY <1>2, DeriveInvariant, PTL DEF Spec, PausedByAStreak
-----------------------------------------------------------------------------
(* Proofs about the ingest, for any events, notes and number of passes, while *)
(* no two are under way at once and no captured uid begins another's.         *)
Apart ==
    /\ \A i, j \in Ingesters : pass[i] # "idle" /\ pass[j] # "idle" => i = j
    /\ \A e, f \in captured : <<e, f>> \notin PrefixOf

(* What a pass is about to write has all that was drained before, and what it *)
(* is about to drain has been written.                                        *)
Lines == Capturable \cup Notes
IngestInv ==
    /\ captured \subseteq Capturable /\ inbox \subseteq captured /\ noted \subseteq Notes
    /\ org \in Seq(Lines) /\ ToSet(org) \subseteq captured \cup noted
    /\ NothingLost
    /\ pass \in [Ingesters -> {"idle", "inbox", "org", "write", "drain"}]
    /\ got \in [Ingesters -> SUBSET captured] /\ text \in [Ingesters -> Seq(Lines)]
    /\ \A i \in Ingesters : pass[i] = "write" =>
          ToSet(text[i]) \subseteq ToSet(org) /\ captured \subseteq inbox \cup ToSet(text[i])
    /\ \A i \in Ingesters : pass[i] = "drain" => got[i] \subseteq ToSet(org)

LEMMA LineAdded ==
    ASSUME NEW S, NEW s \in Seq(S), NEW x \in S
    PROVE  Append(s, x) \in Seq(S) /\ ToSet(Append(s, x)) = ToSet(s) \cup {x}
<1>1. /\ Append(s, x) \in Seq(S) /\ DOMAIN Append(s, x) = DOMAIN s \cup {Len(s) + 1}
      /\ Append(s, x)[Len(s) + 1] = x /\ \A k \in DOMAIN s : Append(s, x)[k] = s[k]
    OBVIOUS
<1> QED  BY <1>1 DEF ToSet

LEMMA LinesJoined ==
    ASSUME NEW S, NEW s \in Seq(S), NEW t \in Seq(S)
    PROVE  s \o t \in Seq(S) /\ ToSet(s \o t) = ToSet(s) \cup ToSet(t)
<1> DEFINE st == s \o t
<1>1. st \in Seq(S) /\ DOMAIN st = 1 .. Len(s) + Len(t)
    OBVIOUS
<1>2. DOMAIN s = 1 .. Len(s) /\ DOMAIN t = 1 .. Len(t) /\ Len(s) \in Nat /\ Len(t) \in Nat
    OBVIOUS
<1>3. \A k \in DOMAIN s : k \in DOMAIN st /\ st[k] = s[k]
    OBVIOUS
<1>4. \A k \in DOMAIN t : Len(s) + k \in DOMAIN st /\ st[Len(s) + k] = t[k]
    OBVIOUS
<1>5. \A k \in DOMAIN st : k \in DOMAIN s \/ (k - Len(s) \in DOMAIN t /\ st[k] = t[k - Len(s)])
    OBVIOUS
<1>6. ToSet(st) \subseteq ToSet(s) \cup ToSet(t)
    BY <1>3, <1>5 DEF ToSet
<1>7. ToSet(s) \subseteq ToSet(st) /\ ToSet(t) \subseteq ToSet(st)
    BY <1>3, <1>4 DEF ToSet
<1> QED  BY <1>1, <1>6, <1>7

LEMMA EveryHeading ==
    ASSUME NEW S, IsFiniteSet(S)
    PROVE  Headings(S) \in Seq(S) /\ ToSet(Headings(S)) = S
<1> DEFINE n == Cardinality(S)
           Fits(f) == f \in [1 .. n -> S] /\ IsInjective(f)
<1>1. n \in Nat /\ \E f : Fits(f)
  <2>1. PICK m \in Nat : ExistsBijection(1 .. m, S)
      BY FS_NatBijection
  <2>2. n = m
      BY <2>1, FS_CountingElements
  <2> QED  BY <2>1, <2>2 DEF ExistsBijection, Bijection, Injection
<1>2. Fits(Headings(S))
    BY <1>1 DEF Headings, SetToSeq
<1>3. Headings(S) \in Injection(1 .. n, S)
    BY <1>2 DEF Injection
<1>4. IsFiniteSet(1 .. n) /\ Cardinality(1 .. n) = n
    BY <1>1, FS_Interval
<1>5. Headings(S) \in Surjection(1 .. n, S)
    BY <1>3, <1>4, FS_Injection
<1>6. Headings(S) \in Seq(S)
    BY <1>1, <1>2
<1> QED  BY <1>2, <1>5, <1>6 DEF Surjection, ToSet

(* A pass's own headings and those it found are all it has read.              *)
LEMMA WrittenHasAll ==
    ASSUME IngestInv, Apart, NEW i \in Ingesters, pass[i] = "write"
    PROVE  /\ Missing(i) \subseteq got[i] /\ got[i] \subseteq Missing(i) \cup ToSet(text[i])
           /\ Written(i) \in Seq(Lines) /\ ToSet(Written(i)) = ToSet(text[i]) \cup Missing(i)
<1>1. /\ got[i] \subseteq captured /\ captured \subseteq Capturable /\ text[i] \in Seq(Lines)
      /\ ToSet(text[i]) \subseteq captured \cup noted /\ noted \subseteq Notes
    BY DEF IngestInv
<1>2. Missing(i) \subseteq got[i]
    BY DEF Missing
<1>3. ASSUME NEW e \in got[i], HasId(e, ToSet(text[i]))
      PROVE  e \in ToSet(text[i])
  <2>1. ASSUME NEW h \in ToSet(text[i]), <<e, h>> \in PrefixOf
        PROVE  FALSE
    <3>1. h \in Capturable /\ h \notin Notes
        BY <2>1, ViewIngestAssumption
    <3>2. h \in captured /\ e \in captured
        BY <1>1, <3>1
    <3> QED  BY <2>1, <3>2 DEF Apart
  <2> QED  BY <1>3, <2>1 DEF HasId
<1>4. IsFiniteSet(Missing(i))
    BY <1>1, <1>2, ViewIngestAssumption, FS_Subset
<1>5. Headings(Missing(i)) \in Seq(Missing(i)) /\ ToSet(Headings(Missing(i))) = Missing(i)
    BY <1>4, EveryHeading
<1>6. Headings(Missing(i)) \in Seq(Lines)
  <2>1. Missing(i) \subseteq Lines
      BY <1>1, <1>2 DEF Lines
  <2> QED  BY <1>5, <2>1
<1>7. Written(i) \in Seq(Lines) /\ ToSet(Written(i)) = ToSet(text[i]) \cup Missing(i)
    BY <1>1, <1>5, <1>6, LinesJoined DEF Written
<1> QED  BY <1>2, <1>3, <1>7 DEF Missing

LEMMA IngestStarts == IngestInit => IngestInv
<1> SUFFICES ASSUME IngestInit
             PROVE  IngestInv
    OBVIOUS
<1>1. ToSet(<<>>) = {} /\ <<>> \in Seq(Lines)
    BY DEF ToSet
<1> QED  BY <1>1 DEF IngestInit, IngestInv, NothingLost

LEMMA IngestMoves ==
    ASSUME IngestInv, Apart, [IngestNext]_ingestVars
    PROVE  IngestInv'
<1>1. ASSUME NEW e \in Capturable, Capture(e)
      PROVE  IngestInv'
    BY <1>1 DEF Capture, IngestInv, NothingLost
<1>2. ASSUME NEW n \in Notes, EditOrg(n)
      PROVE  IngestInv'
  <2>1. n \in Lines /\ org \in Seq(Lines)
      BY DEF Lines, IngestInv
  <2>2. org' \in Seq(Lines) /\ ToSet(org') = ToSet(org) \cup {n}
      BY <1>2, <2>1, LineAdded DEF EditOrg
  <2>3. noted' = noted \cup {n} /\ UNCHANGED <<captured, inbox, pass, got, text>>
      BY <1>2 DEF EditOrg
  <2> QED  BY <2>2, <2>3 DEF IngestInv, NothingLost
<1>3. ASSUME NEW i \in Ingesters, BeginIngest(i)
      PROVE  IngestInv'
    BY <1>3 DEF BeginIngest, Reach, IngestInv, NothingLost
<1>4. ASSUME NEW i \in Ingesters, ReadInbox(i)
      PROVE  IngestInv'
    BY <1>4 DEF ReadInbox, Reach, IngestInv, NothingLost
<1>5. ASSUME NEW i \in Ingesters, ReadOrg(i)
      PROVE  IngestInv'
    BY <1>5 DEF ReadOrg, Reach, IngestInv, NothingLost
<1>6. ASSUME NEW i \in Ingesters, WriteOrg(i)
      PROVE  IngestInv'
  <2>1. /\ pass[i] = "write" /\ pass' = [pass EXCEPT ![i] = "drain"]
        /\ org' = IF Missing(i) = {} THEN org ELSE Written(i)
        /\ text' = [text EXCEPT ![i] = <<>>]
        /\ UNCHANGED <<captured, inbox, noted, got>>
      BY <1>6 DEF WriteOrg, Reach
  <2>2. \A j \in Ingesters : j # i => pass[j] = "idle"
      BY <2>1 DEF Apart
  <2>3. /\ Missing(i) \subseteq got[i] /\ got[i] \subseteq Missing(i) \cup ToSet(text[i])
        /\ Written(i) \in Seq(Lines) /\ ToSet(Written(i)) = ToSet(text[i]) \cup Missing(i)
      BY <2>1, WrittenHasAll
  <2>4. /\ ToSet(text[i]) \subseteq ToSet(org) /\ captured \subseteq inbox \cup ToSet(text[i])
        /\ got[i] \subseteq captured /\ ToSet(org) \subseteq captured \cup noted /\ org \in Seq(Lines)
      BY <2>1 DEF IngestInv
  <2>5. /\ org' \in Seq(Lines) /\ ToSet(text[i]) \subseteq ToSet(org')
        /\ ToSet(org') \subseteq captured \cup noted /\ got[i] \subseteq ToSet(org')
      BY <2>1, <2>3, <2>4
  <2>6. <<>> \in Seq(Lines)
      OBVIOUS
  <2>7. text' \in [Ingesters -> Seq(Lines)]
      BY <2>1, <2>6 DEF IngestInv
  <2>8. \A j \in Ingesters : pass'[j] # "write" /\ (pass'[j] = "drain" => j = i)
      BY <2>1, <2>2 DEF IngestInv
  <2>9. pass' \in [Ingesters -> {"idle", "inbox", "org", "write", "drain"}]
      BY <2>1 DEF IngestInv
  <2> QED  BY <2>1, <2>4, <2>5, <2>7, <2>8, <2>9 DEF IngestInv, NothingLost
<1>7. ASSUME NEW i \in Ingesters, NEW e \in Capturable, Drain(i, e)
      PROVE  IngestInv'
  <2>1. /\ pass[i] = "drain" /\ e \in got[i] /\ inbox' = inbox \ {e}
        /\ \E to \in {"drain", "idle"} : pass' = [pass EXCEPT ![i] = to]
        /\ \E left \in SUBSET got[i] : got' = [got EXCEPT ![i] = left]
        /\ UNCHANGED <<captured, org, noted, text>>
      BY <1>7 DEF Drain, Reach
  <2>2. \A j \in Ingesters : j # i => pass[j] = "idle"
      BY <2>1 DEF Apart
  <2>3. got[i] \subseteq ToSet(org) /\ captured \subseteq inbox \cup ToSet(org)
      BY <2>1 DEF IngestInv, NothingLost
  <2>4. captured' \subseteq inbox' \cup ToSet(org')
      BY <2>1, <2>3
  <2>5. \A j \in Ingesters : pass'[j] # "write" /\ (pass'[j] = "drain" => j = i)
      BY <2>1, <2>2 DEF IngestInv
  <2>6. /\ pass' \in [Ingesters -> {"idle", "inbox", "org", "write", "drain"}]
        /\ got' \in [Ingesters -> SUBSET captured] /\ got'[i] \subseteq got[i]
      BY <2>1 DEF IngestInv
  <2> QED  BY <2>1, <2>3, <2>4, <2>5, <2>6 DEF IngestInv, NothingLost
<1>8. ASSUME NEW i \in Ingesters, AbandonIngest(i)
      PROVE  IngestInv'
    BY <1>8 DEF AbandonIngest, Reach, IngestInv, NothingLost
<1>9. CASE UNCHANGED ingestVars
    BY <1>9 DEF ingestVars, IngestInv, NothingLost
<1> QED  BY <1>1, <1>2, <1>3, <1>4, <1>5, <1>6, <1>7, <1>8, <1>9 DEF IngestNext, IngestWork

(* A captured event is in the inbox or in the org file, wherever a pass stops *)
(* and however often it is run again (IngestEndpoint::invoke).                *)
THEOREM NoEventIsLost == IngestSpec /\ []Apart => []NothingLost
<1>1. IngestInv /\ Apart /\ [IngestNext]_ingestVars => IngestInv'
    BY IngestMoves
<1>2. IngestInv => NothingLost
    BY DEF IngestInv
<1> QED  BY <1>1, <1>2, IngestStarts, PTL DEF IngestSpec
-----------------------------------------------------------------------------
(* Proofs about the QUIC door, for any certificates, files, ways to start it  *)
(* and number of connections.                                                 *)
(*                                                                            *)
(* What a connection has found out by each stage of its admission, and that   *)
(* what the files say now is among what they have said since it began.        *)
Waiting == {"shaken", "trusted", "stranger", "enrolled"}
Session(c) == DOMAIN c = {"at", "cert", "grant", "who", "scopes"}
Knows(c, heard) ==
    /\ Session(c) /\ c.at \in {"new", "open", "aged"} \cup Waiting
    /\ c.at # "new" => DoorServes
    /\ c.at \in Waiting => Saying \in heard
    /\ c.at \in {"shaken", "stranger"} => flags.lobby
    /\ c.at = "stranger" => \E s \in heard : s.listed # None /\ c.cert \notin s.listed
    /\ c.at \in {"trusted", "enrolled"} => \E s \in heard : s.listed # None /\ c.cert \in s.listed
    /\ c.at = "enrolled" =>
          /\ door = "grants"
          /\ \E s \in heard : /\ Enrolls(s.clients, c.cert) /\ c.who = NamedBy(s.clients, c.cert)
                              /\ c.grant = GrantFor(s.clients, c.cert)

(* A kept answer was made for the principal, and for the segment, it is kept  *)
(* under; a call is under way on an open connection only, and what it is      *)
(* answered is its own.                                                       *)
Fits(k) ==
    /\ k.by.who = k.key.principal
    /\ k.key.target[1] = "files" => k.by.cert = k.key.target[2]
OwnAnswer(c, q) == q.at = "answered" =>
    /\ q.of.what \in c.scopes /\ (q.of.carries # None => q.of.what \in q.of.carries)
    /\ q.by.who = c.who /\ (q.of.what = "files" => q.by.cert = c.cert)
Served(c, q) == (q # NoCall => c.at \in {"open", "aged"}) /\ OwnAnswer(c, q)

DoorInv ==
    /\ conn = [n \in Conns |-> conn[n]] /\ call = [n \in Conns |-> call[n]]
    /\ said = [n \in Conns |-> said[n]]
    /\ door = "workspaces" => flags.cap = {}
    /\ \A n \in Conns : Knows(conn[n], said[n]) /\ Served(conn[n], call[n])
    /\ \A k \in cache : Fits(k)

LEMMA DoorStarts == DoorInit => DoorInv
<1> SUFFICES ASSUME DoorInit
             PROVE  DoorInv
    OBVIOUS
<1>1. \A n \in Conns : conn[n] = New /\ call[n] = NoCall /\ said[n] = {}
    BY DEF DoorInit
<1>2. Knows(New, {})
    BY DEF New, Knows, Session, Waiting
<1>3. Served(New, NoCall)
    BY DEF Served, OwnAnswer, NoCall
<1>4. \A n \in Conns : Knows(conn[n], said[n]) /\ Served(conn[n], call[n])
    BY <1>1, <1>2, <1>3
<1>5. /\ conn = [n \in Conns |-> conn[n]] /\ call = [n \in Conns |-> call[n]]
      /\ said = [n \in Conns |-> said[n]] /\ door # "workspaces" /\ cache = {}
    BY DEF DoorInit
<1> QED  BY <1>4, <1>5 DEF DoorInv

(* One connection's step: the rest keep what they know.                       *)
LEMMA ConnectionMoves ==
    ASSUME DoorInv, NEW n \in Conns, NEW c, NEW heard,
           Steps(n, c), said' = [said EXCEPT ![n] = heard],
           Knows(c, heard), Served(c, call[n])
    PROVE  DoorInv'
<1>1. /\ conn' = [conn EXCEPT ![n] = c]
      /\ UNCHANGED <<base, dir, clients, grants, expired, flags, door, faces, call, cache>>
    BY DEF Steps, filesVars, doorVars
<1>2. Saying' = Saying /\ (DoorServes)' = DoorServes
    BY <1>1 DEF Saying, TrustedClients, DoorServes
<1>3. conn'[n] = c /\ said'[n] = heard /\ \A m \in Conns \ {n} : conn'[m] = conn[m] /\ said'[m] = said[m]
    BY <1>1 DEF DoorInv
<1>4. ASSUME NEW m \in Conns
      PROVE  (Knows(conn[m], said[m]) /\ Served(conn[m], call[m]))'
  <2>1. Knows(conn'[m], said'[m]) /\ Served(conn'[m], call[m])
      BY <1>3 DEF DoorInv
  <2>2. call'[m] = call[m]
      BY <1>1
  <2> QED  BY <1>1, <1>2, <2>1, <2>2 DEF Knows, Session, Enrolls, Parses, NamedBy, GrantFor, Served, OwnAnswer
<1>5. /\ (conn = [m \in Conns |-> conn[m]])' /\ (call = [m \in Conns |-> call[m]])'
      /\ (said = [m \in Conns |-> said[m]])'
    BY <1>1 DEF DoorInv
<1>6. (door = "workspaces" => flags.cap = {})' /\ (\A k \in cache : Fits(k))'
    BY <1>1 DEF DoorInv, Fits
<1> QED  BY <1>4, <1>5, <1>6 DEF DoorInv

(* A connection without a call is served whatever it comes to be.             *)
LEMMA NoneServed == \A c : Served(c, NoCall)
    BY DEF Served, OwnAnswer, NoCall

LEMMA NotYetServed ==
    ASSUME DoorInv, NEW n \in Conns, conn[n].at \notin {"open", "aged"}
    PROVE  call[n] = NoCall
    BY DEF DoorInv, Served

LEMMA ClosesKeeps ==
    ASSUME DoorInv, NEW n \in Conns, Closes(n), call[n] = NoCall
    PROVE  DoorInv'
<1>1. Knows(New, {})
    BY DEF New, Knows, Session, Waiting
<1> QED  BY <1>1, NoneServed, ConnectionMoves DEF Closes

LEMMA OpensKeeps ==
    ASSUME DoorInv, NEW n \in Conns, NEW scopes, NEW who, Opens(n, scopes, who), call[n] = NoCall,
           conn[n].at # "new"
    PROVE  DoorInv'
<1> DEFINE c == [conn[n] EXCEPT !.at = "open", !.scopes = scopes, !.who = who]
<1>1. Session(conn[n]) /\ DoorServes
    BY DEF DoorInv, Knows
<1>2. Session(c) /\ c.at = "open"
    BY <1>1 DEF Session
<1>3. Knows(c, {})
    BY <1>1, <1>2 DEF Knows, Waiting
<1>4. Steps(n, c) /\ said' = [said EXCEPT ![n] = {}]
    BY DEF Opens
<1> HIDE DEF c
<1> QED  BY <1>3, <1>4, NoneServed, ConnectionMoves

LEMMA AskingKeeps ==
    ASSUME DoorInv, NEW n \in Conns, NEW c, Asking(n, c), Knows(c, said[n]), Served(c, call[n])
    PROVE  DoorInv'
<1>1. said' = [said EXCEPT ![n] = said[n]]
    BY DEF Asking, DoorInv
<1> QED  BY <1>1, ConnectionMoves DEF Asking

LEMMA HandshakeKeeps ==
    ASSUME DoorInv, NEW n \in Conns, NEW c \in Certs, Handshake(n, c)
    PROVE  DoorInv'
<1> DEFINE to == IF flags.lobby THEN "shaken" ELSE "trusted"
           d == [New EXCEPT !.cert = c, !.at = to]
<1>1. Session(d) /\ d.at = to /\ d.cert = c
    BY DEF New, Session
<1>2. Steps(n, d) /\ said' = [said EXCEPT ![n] = {Saying}] /\ DoorServes /\ conn[n].at = "new"
    BY DEF Handshake
<1>3. ~flags.lobby => Saying.listed # None /\ c \in Saying.listed
    BY DEF Handshake, Verifies, Trusts, Saying
<1>4. Knows(d, {Saying})
    BY <1>1, <1>2, <1>3 DEF Knows, Waiting
<1>5. call[n] = NoCall
    BY <1>2, NotYetServed
<1> HIDE DEF d
<1> QED  BY <1>2, <1>4, <1>5, NoneServed, ConnectionMoves

LEMMA RouterKeeps ==
    ASSUME DoorInv, NEW n \in Conns, Router(n)
    PROVE  DoorInv'
<1>1. conn[n].at = "shaken" /\ call[n] = NoCall
    BY NotYetServed DEF Router
<1>2. CASE TrustedClients = None
    BY <1>1, <1>2, ClosesKeeps DEF Router
<1>3. CASE TrustedClients # None
  <2> DEFINE to == IF Trusts(conn[n].cert) THEN "trusted" ELSE "stranger"
             c == [conn[n] EXCEPT !.at = to]
  <2>1. Asking(n, c)
      BY <1>3 DEF Router
  <2>2. Session(conn[n]) /\ DoorServes /\ flags.lobby /\ Saying \in said[n]
      BY <1>1 DEF DoorInv, Knows, Waiting
  <2>3. Session(c) /\ c.at = to /\ c.cert = conn[n].cert
      BY <2>2 DEF Session
  <2>4. /\ to = "trusted" => Saying.listed # None /\ conn[n].cert \in Saying.listed
        /\ to = "stranger" => Saying.listed # None /\ conn[n].cert \notin Saying.listed
      BY <1>3 DEF Trusts, Saying
  <2>5. Knows(c, said[n])
      BY <2>2, <2>3, <2>4 DEF Knows, Waiting
  <2> HIDE DEF c
  <2> QED  BY <1>1, <2>1, <2>5, NoneServed, AskingKeeps
<1> QED  BY <1>2, <1>3

LEMMA AuthorizeKeeps ==
    ASSUME DoorInv, NEW n \in Conns, Authorize(n)
    PROVE  DoorInv'
<1>1. conn[n].at = "trusted" /\ door = "grants" /\ call[n] = NoCall
    BY NotYetServed DEF Authorize
<1>2. CASE ~Enrolls(clients, conn[n].cert)
    BY <1>1, <1>2, ClosesKeeps DEF Authorize
<1>3. CASE Enrolls(clients, conn[n].cert)
  <2> DEFINE g == GrantFor(clients, conn[n].cert)
             w == NamedBy(clients, conn[n].cert)
             c == [conn[n] EXCEPT !.at = "enrolled", !.grant = g, !.who = w]
  <2>1. Asking(n, c)
      BY <1>3 DEF Authorize
  <2>2. /\ Session(conn[n]) /\ DoorServes /\ Saying \in said[n]
        /\ \E s \in said[n] : s.listed # None /\ conn[n].cert \in s.listed
      BY <1>1 DEF DoorInv, Knows, Waiting
  <2>3. Saying.clients = clients
      BY DEF Saying
  <2> HIDE DEF g, w
  <2>4. Session(c) /\ c.at = "enrolled" /\ c.cert = conn[n].cert /\ c.grant = g /\ c.who = w
      BY <2>2 DEF Session
  <2>5. Enrolls(Saying.clients, c.cert) /\ c.who = NamedBy(Saying.clients, c.cert)
        /\ c.grant = GrantFor(Saying.clients, c.cert)
      BY <1>3, <2>3, <2>4 DEF g, w
  <2>6. Knows(c, said[n])
      BY <1>1, <2>2, <2>4, <2>5 DEF Knows, Waiting
  <2> HIDE DEF c
  <2> QED  BY <1>1, <2>1, <2>6, NoneServed, AskingKeeps
<1> QED  BY <1>2, <1>3

LEMMA AdmitKeeps ==
    ASSUME DoorInv, NEW n \in Conns, Admit(n)
    PROVE  DoorInv'
<1>1. CASE Lobby(n)
  <2>1. conn[n].at = "stranger" /\ Opens(n, {"say"}, conn[n].cert)
      BY <1>1 DEF Lobby
  <2> QED  BY <2>1, NotYetServed, OpensKeeps
<1>2. CASE Mint(n)
  <2>1. conn[n].at = "enrolled" /\ call[n] = NoCall
      BY <1>2, NotYetServed DEF Mint
  <2>2. Closes(n) \/ \E scopes : Opens(n, scopes, conn[n].who)
      BY <1>2 DEF Mint
  <2> QED  BY <2>1, <2>2, ClosesKeeps, OpensKeeps
<1>3. CASE MintShared(n)
  <2>1. conn[n].at = "trusted" /\ call[n] = NoCall
      BY <1>3, NotYetServed DEF MintShared
  <2>2. \E scopes : Opens(n, scopes, conn[n].cert)
      BY <1>3 DEF MintShared
  <2> QED  BY <2>1, <2>2, OpensKeeps
<1> QED  BY <1>1, <1>2, <1>3, RouterKeeps, AuthorizeKeeps DEF Admit

LEMMA AgeKeeps ==
    ASSUME DoorInv, NEW n \in Conns, Age(n)
    PROVE  DoorInv'
<1> DEFINE c == [conn[n] EXCEPT !.at = "aged"]
<1>1. Asking(n, c) /\ conn[n].at = "open"
    BY DEF Age
<1>2. Session(conn[n]) /\ DoorServes /\ Served(conn[n], call[n])
    BY <1>1 DEF DoorInv, Knows
<1>3. /\ Session(c) /\ c.at = "aged" /\ c.cert = conn[n].cert /\ c.who = conn[n].who
      /\ c.scopes = conn[n].scopes
    BY <1>2 DEF Session
<1>4. Knows(c, said[n])
    BY <1>2, <1>3 DEF Knows, Waiting
<1>5. Served(c, call[n])
    BY <1>2, <1>3 DEF Served, OwnAnswer
<1> HIDE DEF c
<1> QED  BY <1>1, <1>4, <1>5, AskingKeeps

(* A call's step leaves every connection, and what the files say, as it was.  *)
LEMMA CallMoves ==
    ASSUME DoorInv, NEW n \in Conns, NEW q, NEW kept, Exchange(n, q, kept),
           Served(conn[n], q), \A k \in kept : Fits(k)
    PROVE  DoorInv'
<1>1. /\ call' = [call EXCEPT ![n] = q] /\ cache' = kept
      /\ UNCHANGED <<base, dir, clients, grants, expired, flags, door, faces, conn, said>>
    BY DEF Exchange, filesVars, doorVars
<1>2. Saying' = Saying /\ (DoorServes)' = DoorServes
    BY <1>1 DEF Saying, TrustedClients, DoorServes
<1>3. call'[n] = q /\ \A m \in Conns \ {n} : call'[m] = call[m]
    BY <1>1 DEF DoorInv
<1>4. ASSUME NEW m \in Conns
      PROVE  (Knows(conn[m], said[m]))' /\ (Served(conn[m], call[m]))'
  <2>1. Knows(conn[m], said[m]) /\ Served(conn[m], call'[m])
      BY <1>3 DEF DoorInv
  <2>2. conn'[m] = conn[m] /\ said'[m] = said[m]
      BY <1>1
  <2>3. (Knows(conn[m], said[m]))'
      BY <1>1, <1>2, <2>1, <2>2, ZenonT(60) DEF Knows, Session, Enrolls, Parses, NamedBy, GrantFor
  <2>4. (Served(conn[m], call[m]))'
      BY <2>1, <2>2 DEF Served, OwnAnswer
  <2> QED  BY <2>3, <2>4
<1>5. /\ (conn = [m \in Conns |-> conn[m]])' /\ (call = [m \in Conns |-> call[m]])'
      /\ (said = [m \in Conns |-> said[m]])'
    BY <1>1 DEF DoorInv
<1>6. (door = "workspaces" => flags.cap = {})' /\ (\A k \in cache : Fits(k))'
    BY <1>1 DEF DoorInv, Fits
<1> QED  BY <1>4, <1>5, <1>6 DEF DoorInv

LEMMA AskKeeps ==
    ASSUME DoorInv, NEW n \in Conns, NEW what, NEW carries, NEW names, Ask(n, what, carries, names)
    PROVE  DoorInv'
<1> DEFINE q == [at |-> "asked", what |-> what, carries |-> carries, names |-> names]
<1>1. Exchange(n, q, cache) /\ conn[n].at = "open"
    BY DEF Ask
<1>2. Served(conn[n], q)
    BY <1>1 DEF Served, OwnAnswer
<1>3. \A k \in cache : Fits(k)
    BY DEF DoorInv
<1> HIDE DEF q
<1> QED  BY <1>1, <1>2, <1>3, CallMoves

LEMMA ToldKeeps ==
    ASSUME DoorInv, NEW n \in Conns, Told(n)
    PROVE  DoorInv'
<1>1. Exchange(n, NoCall, cache) /\ \A k \in cache : Fits(k)
    BY DEF Told, DoorInv
<1> QED  BY <1>1, NoneServed, CallMoves

LEMMA AnswerKeeps ==
    ASSUME DoorInv, NEW n \in Conns, Answer(n)
    PROVE  DoorInv'
<1> DEFINE key == KeyOf(conn[n], call[n])
           mine == [key |-> key, by |-> Maker(n)]
           told(by) == [at |-> "answered", of |-> call[n], by |-> by]
<1>1. /\ call[n].at = "asked" /\ conn[n].at \in {"open", "aged"} /\ \A k \in cache : Fits(k)
    BY DEF Answer, DoorInv, Served, NoCall
<1>2. /\ key.principal = conn[n].who
      /\ key.target[1] = call[n].what /\ (call[n].what = "files" => key.target[2] = conn[n].cert)
      /\ key.scopes = Clamp(conn[n], call[n].carries)
    BY DEF KeyOf, Stamped, Localize
<1>3. Fits(mine) /\ mine.by = Maker(n)
    BY <1>2 DEF Fits, Maker
<1>4. ASSUME NEW k, Fits(k), k.key = key, call[n].what \in key.scopes
      PROVE  Served(conn[n], told(k.by))
  <2>1. call[n].what \in conn[n].scopes
        /\ (call[n].carries # None => call[n].what \in call[n].carries)
      BY <1>2, <1>4 DEF Clamp
  <2>2. k.by.who = conn[n].who /\ (call[n].what = "files" => k.by.cert = conn[n].cert)
      BY <1>2, <1>4 DEF Fits
  <2> QED  BY <1>1, <2>1, <2>2 DEF Served, OwnAnswer
<1>5. CASE call[n].what \notin key.scopes \/ FaceOf[call[n].what] \notin faces
  <2>1. Exchange(n, [at |-> "denied"], cache)
      BY <1>5 DEF Answer
  <2>2. Served(conn[n], [at |-> "denied"])
      BY <1>1 DEF Served, OwnAnswer
  <2> QED  BY <1>1, <2>1, <2>2, CallMoves
<1>6. ASSUME NEW k \in cache, k.key = key, call[n].what \in key.scopes, Exchange(n, told(k.by), cache)
      PROVE  DoorInv'
  <2>1. Served(conn[n], told(k.by))
      BY <1>1, <1>4, <1>6
  <2> HIDE DEF told
  <2> QED  BY <1>1, <1>6, <2>1, CallMoves
<1>7. ASSUME NEW kept \in {cache, cache \cup {mine}}, call[n].what \in key.scopes,
             Exchange(n, told(Maker(n)), kept)
      PROVE  DoorInv'
  <2>1. mine.key = key
      OBVIOUS
  <2> HIDE DEF mine, key
  <2>2. Served(conn[n], told(Maker(n)))
      BY <1>3, <1>4, <1>7, <2>1
  <2>3. \A k \in kept : Fits(k)
      BY <1>1, <1>3
  <2> HIDE DEF told
  <2> QED  BY <1>7, <2>2, <2>3, CallMoves
<1>8. CASE call[n].what \in key.scopes /\ FaceOf[call[n].what] \in faces
  <2>1. \/ \E k \in {x \in cache : x.key = key} : Exchange(n, told(k.by), cache)
        \/ Exchange(n, told(Maker(n)),
                    IF Cardinality(cache) < MaxCached THEN cache \cup {mine} ELSE cache)
      BY <1>8 DEF Answer
  <2> HIDE DEF key, mine, told
  <2> QED  BY <1>6, <1>7, <1>8, <2>1
<1> QED  BY <1>5, <1>8

(* What the files come to say is heard by everybody who waits.                *)
LEMMA EditedKeeps ==
    ASSUME DoorInv, Edited
    PROVE  DoorInv'
<1>1. /\ said' = [n \in Conns |-> IF said[n] = {} THEN {} ELSE said[n] \cup {Saying'}]
      /\ UNCHANGED <<flags, door, faces, conn, call, cache>>
    BY DEF Edited, doorVars
<1>2. ASSUME NEW n \in Conns
      PROVE  (Knows(conn[n], said[n]))' /\ (Served(conn[n], call[n]))'
  <2>1. Knows(conn[n], said[n]) /\ Served(conn[n], call[n])
      BY DEF DoorInv
  <2>2. conn'[n] = conn[n] /\ call'[n] = call[n]
      BY <1>1
  <2>3. said[n] \subseteq said'[n] /\ (conn[n].at \in Waiting => Saying' \in said'[n])
      BY <1>1, <2>1 DEF Knows
  <2>4. (Knows(conn[n], said[n]))'
      BY <1>1, <2>1, <2>2, <2>3, ZenonT(60)
      DEF Knows, Session, DoorServes, Enrolls, Parses, NamedBy, GrantFor
  <2>5. (Served(conn[n], call[n]))'
      BY <2>1, <2>2 DEF Served, OwnAnswer
  <2> QED  BY <2>4, <2>5
<1>3. /\ (conn = [m \in Conns |-> conn[m]])' /\ (call = [m \in Conns |-> call[m]])'
      /\ (said = [m \in Conns |-> said[m]])'
    BY <1>1 DEF DoorInv
<1>4. (door = "workspaces" => flags.cap = {})' /\ (\A k \in cache : Fits(k))'
    BY <1>1 DEF DoorInv, Fits
<1> QED  BY <1>2, <1>3, <1>4 DEF DoorInv

LEMMA StartKeeps ==
    ASSUME DoorInv, Start
    PROVE  DoorInv'
<1>1. /\ door = "down" /\ UNCHANGED <<base, dir, clients, grants, expired, flags, conn, call, cache, said>>
    BY DEF Start, filesVars
<1>2. \A n \in Conns : conn[n].at = "new"
    BY <1>1 DEF DoorInv, Knows, DoorServes
<1>3. ASSUME NEW n \in Conns
      PROVE  (Knows(conn[n], said[n]))' /\ (Served(conn[n], call[n]))'
  <2>1. Knows(conn[n], said[n]) /\ Served(conn[n], call[n]) /\ conn[n].at = "new"
      BY <1>2 DEF DoorInv
  <2>2. conn'[n] = conn[n] /\ call'[n] = call[n] /\ said'[n] = said[n]
      BY <1>1
  <2>3. (Knows(conn[n], said[n]))'
      BY <2>1, <2>2 DEF Knows, Session, Waiting
  <2>4. (Served(conn[n], call[n]))'
      BY <2>1, <2>2 DEF Served, OwnAnswer
  <2> QED  BY <2>3, <2>4
<1>4. door' = "workspaces" => flags'.cap = {}
    BY <1>1 DEF Start
<1>5. /\ (conn = [m \in Conns |-> conn[m]])' /\ (call = [m \in Conns |-> call[m]])'
      /\ (said = [m \in Conns |-> said[m]])'
    BY <1>1 DEF DoorInv
<1>6. (\A k \in cache : Fits(k))'
    BY <1>1 DEF DoorInv, Fits
<1> QED  BY <1>3, <1>4, <1>5, <1>6 DEF DoorInv

LEMMA DoorMoves ==
    ASSUME DoorInv, [DoorNext]_admissionVars
    PROVE  DoorInv'
<1>1. CASE EditFile \/ \E c \in Certs : Expires(c)
    BY <1>1, EditedKeeps DEF EditFile, EditTrust, EditClients, EditGrants, Expires
<1>2. ASSUME NEW n \in Conns, CloseAged(n) \/ Leave(n)
      PROVE  DoorInv'
    BY <1>2, ClosesKeeps DEF CloseAged, Leave
<1>3. CASE UNCHANGED admissionVars
  <2>1. UNCHANGED <<base, dir, clients, grants, expired, flags, door, faces, conn, call, cache, said>>
      BY <1>3 DEF admissionVars, filesVars, doorVars
  <2>2. Saying' = Saying
      BY <2>1 DEF Saying, TrustedClients
  <2>3. ASSUME NEW n \in Conns
        PROVE  (Knows(conn[n], said[n]))' /\ (Served(conn[n], call[n]))'
    <3>1. Knows(conn[n], said[n]) /\ Served(conn[n], call[n])
        BY DEF DoorInv
    <3>2. conn'[n] = conn[n] /\ call'[n] = call[n] /\ said'[n] = said[n]
        BY <2>1
    <3>3. (Knows(conn[n], said[n]))'
        BY <2>1, <2>2, <3>1, <3>2, ZenonT(60) DEF Knows, Session, DoorServes, Enrolls, Parses, NamedBy, GrantFor
    <3>4. (Served(conn[n], call[n]))'
        BY <3>1, <3>2 DEF Served, OwnAnswer
    <3> QED  BY <3>3, <3>4
  <2>4. /\ (conn = [m \in Conns |-> conn[m]])' /\ (call = [m \in Conns |-> call[m]])'
        /\ (said = [m \in Conns |-> said[m]])'
        /\ (door = "workspaces" => flags.cap = {})' /\ (\A k \in cache : Fits(k))'
      BY <2>1 DEF DoorInv, Fits
  <2> QED  BY <2>3, <2>4 DEF DoorInv
<1> QED  BY <1>1, <1>2, <1>3, StartKeeps, HandshakeKeeps, AdmitKeeps, AgeKeeps, AskKeeps, AnswerKeeps,
            ToldKeeps DEF DoorNext, DoorStep, Client

(* What each connection has found out by each stage of its admission, and     *)
(* whose each kept answer is (authorize, lobby_router, dispatch_call).        *)
THEOREM DoorInvariant == DoorSpec => []DoorInv
<1>1. DoorInv /\ [DoorNext]_admissionVars => DoorInv'
    BY DoorMoves
<1> QED  BY <1>1, DoorStarts, PTL DEF DoorSpec

(* What a caller of the door is answered was made for it, under what it was   *)
(* given and what its call carried, kept or not (dispatch_call, admit).       *)
THEOREM AnswersAreTheirOwn == DoorSpec => []EachItsOwn
<1>1. DoorInv => EachItsOwn
    BY DEF DoorInv, Served, OwnAnswer, EachItsOwn
<1> QED  BY <1>1, DoorInvariant, PTL

LEMMA OpenedBy ==
    ASSUME DoorInv, DoorNext, NEW n \in Conns, conn[n].at # "open", conn'[n].at = "open"
    PROVE  Lobby(n) \/ Mint(n) \/ MintShared(n)
<1>1. ~(EditFile \/ Start \/ \E c \in Certs : Expires(c))
    BY DEF EditFile, EditTrust, EditClients, EditGrants, Expires, Edited, Start
<1>2. PICK m \in Conns : DoorStep(m) \/ Client(m)
    BY <1>1 DEF DoorNext
<1>3. ~(Answer(m) \/ Told(m) \/ \E s, k, w : Ask(m, s, k, w))
    BY DEF Answer, Told, Ask, Exchange
<1>4. \A c : Steps(m, c) => m = n /\ conn'[m] = c /\ c.at = "open"
    BY DEF Steps, DoorInv
<1>5. New.at # "open"
    BY DEF New
<1>6. ~Closes(m)
    BY <1>4, <1>5 DEF Closes
<1>7. ASSUME NEW c \in Certs
      PROVE  ~Handshake(m, c)
  <2> DEFINE to == IF flags.lobby THEN "shaken" ELSE "trusted"
             d == [New EXCEPT !.cert = c, !.at = to]
  <2>1. Handshake(m, c) => Steps(m, d)
      BY DEF Handshake
  <2>2. d.at # "open"
      BY DEF New
  <2> HIDE DEF d
  <2> QED  BY <1>4, <2>1, <2>2
<1>8. Session(conn[m])
    BY DEF DoorInv, Knows
<1>9. ASSUME NEW to \in {"trusted", "stranger", "aged"}
      PROVE  ~Steps(m, [conn[m] EXCEPT !.at = to])
  <2> DEFINE d == [conn[m] EXCEPT !.at = to]
  <2>1. d.at # "open"
      BY <1>8 DEF Session
  <2> HIDE DEF d
  <2>2. ~Steps(m, d)
      BY <1>4, <2>1
  <2> QED  BY <2>2 DEF d
<1>10. ~Router(m) /\ ~Age(m)
  <2>1. Age(m) => Steps(m, [conn[m] EXCEPT !.at = "aged"])
      BY DEF Age, Asking
  <2>2. Router(m) =>
          \/ Closes(m) \/ Steps(m, [conn[m] EXCEPT !.at = "trusted"])
          \/ Steps(m, [conn[m] EXCEPT !.at = "stranger"])
      BY DEF Router, Asking
  <2> QED  BY <1>6, <1>9, <2>1, <2>2
<1>11. ~Authorize(m)
  <2> DEFINE d(g, w) == [conn[m] EXCEPT !.at = "enrolled", !.grant = g, !.who = w]
  <2>1. Authorize(m) => Closes(m) \/ \E g, w : Steps(m, d(g, w))
      BY DEF Authorize, Asking
  <2>2. \A g, w : d(g, w).at # "open"
      BY <1>8 DEF Session
  <2> HIDE DEF d
  <2> QED  BY <1>4, <1>6, <2>1, <2>2
<1> QED  BY <1>2, <1>3, <1>4, <1>6, <1>7, <1>10, <1>11 DEF DoorStep, Admit, CloseAged, Client, Leave, Lobby, Mint,
            MintShared, Opens

(* What a connection is given, some reading of the files since it began gave  *)
(* its certificate (authorize, lobby_router and the minters of serve_quic).   *)
THEOREM GivenAsSaid == DoorSpec => MintedAsSaid
<1> DEFINE Minted == \A n \in Conns : conn[n].at # "open" /\ conn'[n].at = "open" => Given(n)
<1>1. ASSUME DoorInv, DoorNext
      PROVE  Minted
  <2> SUFFICES ASSUME NEW n \in Conns, conn[n].at # "open", conn'[n].at = "open"
               PROVE  Given(n)
      OBVIOUS
  <2>1. Knows(conn[n], said[n])
      BY <1>1 DEF DoorInv
  <2>2. ASSUME NEW scopes, NEW who, Opens(n, scopes, who)
        PROVE  conn'[n].scopes = scopes /\ conn'[n].who = who
      BY <1>1, <2>1, <2>2 DEF Opens, Steps, DoorInv, Knows, Session
  <2>3. CASE Lobby(n)
      BY <2>1, <2>2, <2>3 DEF Lobby, Knows, Given
  <2>4. CASE Mint(n)
    <3> DEFINE granted == ScopesIn(grants, conn[n].grant)
    <3>1. conn[n].at = "enrolled" /\ Saying \in said[n] /\ Saying.grants = grants
        BY <2>1, <2>4 DEF Mint, Knows, Waiting, Saying
    <3>2. ~Closes(n)
        BY <1>1 DEF Closes, Steps, New, DoorInv
    <3>3. conn'[n].scopes = Under(granted) /\ conn'[n].who = conn[n].who
        BY <2>2, <2>4, <3>2 DEF Mint
    <3>4. Under(granted) \subseteq granted /\ (flags.cap # {} => Under(granted) \subseteq flags.cap)
        BY DEF Under
    <3>5. \E s \in said[n] : s.listed # None /\ conn[n].cert \in s.listed
        BY <2>1, <3>1 DEF Knows
    <3>6. PICK s \in said[n] : /\ Enrolls(s.clients, conn[n].cert)
                               /\ conn[n].who = NamedBy(s.clients, conn[n].cert)
                               /\ conn[n].grant = GrantFor(s.clients, conn[n].cert)
        BY <2>1, <3>1 DEF Knows
    <3>7. granted = ScopesIn(Saying.grants, GrantFor(s.clients, conn[n].cert))
        BY <3>1, <3>6
    <3> HIDE DEF granted
    <3>8. \E x, y \in said[n] :
             /\ Enrolls(x.clients, conn[n].cert) /\ conn'[n].who = NamedBy(x.clients, conn[n].cert)
             /\ conn'[n].scopes \subseteq ScopesIn(y.grants, GrantFor(x.clients, conn[n].cert))
        BY <3>1, <3>3, <3>4, <3>6, <3>7
    <3> QED  BY <3>3, <3>4, <3>5, <3>8 DEF Given
  <2>5. CASE MintShared(n)
    <3>1. /\ door # "grants" /\ conn[n].at = "trusted"
          /\ conn'[n].scopes = IF door = "ceiling" THEN flags.cap ELSE {"files"}
          /\ door # "ceiling" => flags.cap = {}
        BY <1>1, <2>2, <2>5 DEF MintShared, DoorInv
    <3>2. \E s \in said[n] : s.listed # None /\ conn[n].cert \in s.listed
        BY <2>1, <3>1 DEF Knows
    <3> QED  BY <3>1, <3>2 DEF Given
  <2> QED  BY <1>1, <2>3, <2>4, <2>5, OpenedBy
<1>2. DoorInv /\ [DoorNext]_admissionVars => [Minted]_admissionVars
    BY <1>1
<1> QED  BY <1>2, DoorInvariant, PTL DEF DoorSpec, MintedAsSaid
=============================================================================
