------------------------------- MODULE IpcDoor -------------------------------
(* The accept loop of the socket door (src/crates/ikigai-ipc/src/lib.rs,      *)
(* serve_loop): one thread admits each connection by its peer's uid, counts   *)
(* it under the cap, and hands it to a thread of its own.  A connection past  *)
(* the cap is answered by the loop itself, one read at a time.  It accepts on *)
(* the listener that bind returned (IpcBind, proved about at the end).        *)
EXTENDS IpcBind, Sequences, FiniteSets, FiniteSetTheorems, TLAPS

CONSTANTS
    Peers,          \* the connections dialed, each once
    Admitted,       \* those whose uid the door admits
    Legacy,         \* those whose first frame is not a hello
    MaxConnections, \* Limits::max_connections
    Reads,          \* the most reads a slow peer spreads one frame over
    None            \* no connection in the loop's hands

ASSUME DoorAssumption ==
    /\ Admitted \subseteq Peers /\ Legacy \subseteq Peers
    /\ MaxConnections \in Nat \ {0} /\ Reads \in Nat \ {0}
    /\ None \notin Peers

VARIABLES
    loop,       \* the accept loop's place: "accept", "admit", "capacity", "slot",
                \* "spawn", "refuseHello", "refuseCall", "backOff", "ended", "panicked"
    cur,        \* the connection in its hands
    held,       \* reads the loop has waited on for this refusal, a second each
    backlog,    \* dialed and not accepted, in order
    live,       \* the count of connections being served
    slots,      \* the connections holding a Slot
    conn,       \* per connection: "new", "queued", "taken", "hello", "idle", "busy", "closed"
    heard,      \* what its peer was told: "nothing", "hello", "answer", "unavailable"
    stderr      \* whether the door's stderr can still be written

vars == <<loop, cur, held, backlog, live, slots, conn, heard, stderr>>

Init ==
    /\ loop = "accept"
    /\ cur = None
    /\ held = 0
    /\ backlog = <<>>
    /\ live = 0
    /\ slots = {}
    /\ conn = [p \in Peers |-> "new"]
    /\ heard = [p \in Peers |-> "nothing"]
    /\ stderr = TRUE

Dial(p) ==
    /\ conn[p] = "new"
    /\ conn' = [conn EXCEPT ![p] = "queued"]
    /\ backlog' = Append(backlog, p)
    /\ UNCHANGED <<loop, cur, held, live, slots, heard, stderr>>

(* The supervisor stops reading the door's stderr. *)
LoseStderr ==
    /\ stderr
    /\ stderr' = FALSE
    /\ UNCHANGED <<loop, cur, held, backlog, live, slots, conn, heard>>

-----------------------------------------------------------------------------
(* The loop. *)

Accept ==
    /\ loop = "accept"
    /\ backlog # <<>>
    /\ cur' = Head(backlog)
    /\ backlog' = Tail(backlog)
    /\ conn' = [conn EXCEPT ![cur'] = "taken"]
    /\ loop' = "admit"
    /\ UNCHANGED <<held, live, slots, heard, stderr>>

(* classify: the failure of one connection is skipped and that connection is  *)
(* gone; exhaustion is waited out; a dead listener ends the loop.             *)
AcceptSkip ==
    /\ loop = "accept"
    /\ backlog # <<>>
    /\ conn' = [conn EXCEPT ![Head(backlog)] = "closed"]
    /\ backlog' = Tail(backlog)
    /\ UNCHANGED <<loop, cur, held, live, slots, heard, stderr>>

AcceptFault ==
    /\ loop = "accept"
    /\ loop' \in {"backOff", "ended"}
    /\ UNCHANGED <<cur, held, backlog, live, slots, conn, heard, stderr>>

Wake ==
    /\ loop = "backOff"
    /\ loop' = "accept"
    /\ UNCHANGED <<cur, held, backlog, live, slots, conn, heard, stderr>>

(* The loop lets go of its connection and goes on. *)
LetGo(next) ==
    /\ loop' = next
    /\ cur' = None
    /\ held' = 0

Close(p) == conn' = [conn EXCEPT ![p] = "closed"]

(* admissions.admit: refused before anything is read. *)
AdmitAnyone ==
    /\ loop = "admit"
    /\ loop' = "capacity"
    /\ UNCHANGED <<cur, held, backlog, live, slots, conn, heard, stderr>>

Admit ==
    /\ loop = "admit"
    /\ IF cur \in Admitted
       THEN loop' = "capacity" /\ UNCHANGED <<cur, held, conn>>
       ELSE LetGo("accept") /\ Close(cur)
    /\ UNCHANGED <<backlog, live, slots, heard, stderr>>

FullPastCap == live > MaxConnections
Full == live >= MaxConnections

Capacity ==
    /\ loop = "capacity"
    /\ loop' = IF Full THEN "refuseHello" ELSE "slot"
    /\ UNCHANGED <<cur, held, backlog, live, slots, conn, heard, stderr>>

(* Slot::take, and the slot's drop. *)
Take ==
    /\ loop = "slot"
    /\ live' = live + 1
    /\ slots' = slots \cup {cur}
    /\ loop' = "spawn"
    /\ UNCHANGED <<cur, held, backlog, conn, heard, stderr>>

LeakSlot(p) == UNCHANGED <<live, slots>>
DropSlot(p) ==
    /\ live' = live - 1
    /\ slots' = slots \ {p}

Spawn ==
    /\ loop = "spawn"
    /\ conn' = [conn EXCEPT ![cur] = "hello"]
    /\ LetGo("accept")
    /\ UNCHANGED <<backlog, live, slots, heard, stderr>>

(* Out of threads: the closure is dropped, with its stream and its slot. *)
FreeTwice(p) ==
    /\ live' = live - 2
    /\ slots' = slots \ {p}

FreeFailedSpawn(p) == DropSlot(p)

SpawnFails ==
    /\ loop = "spawn"
    /\ FreeFailedSpawn(cur)
    /\ Close(cur)
    /\ LetGo("backOff")
    /\ UNCHANGED <<backlog, heard, stderr>>

-----------------------------------------------------------------------------
(* refuse_over_capacity, on the accept loop.  A read timeout bounds one read, *)
(* so a frame that comes in pieces is waited for a piece at a time.           *)

Refusing == {"refuseHello", "refuseCall"}

RefusedPiece ==
    /\ loop \in Refusing
    /\ held < IF loop = "refuseHello" THEN Reads - 1 ELSE 2 * Reads - 1
    /\ held' = held + 1
    /\ UNCHANGED <<loop, cur, backlog, live, slots, conn, heard, stderr>>

RefusedHello ==
    /\ loop = "refuseHello"
    /\ cur \notin Legacy
    /\ heard' = [heard EXCEPT ![cur] = "hello"]
    /\ held' = held + 1
    /\ loop' = "refuseCall"
    /\ UNCHANGED <<cur, backlog, live, slots, conn, stderr>>

(* answer_hello reports a peer without the hello with eprintln!, which panics *)
(* when stderr cannot be written.                                             *)
RefusedLegacy ==
    /\ loop = "refuseHello"
    /\ cur \in Legacy
    /\ Close(cur)
    /\ LetGo(IF stderr THEN "accept" ELSE "panicked")
    /\ UNCHANGED <<backlog, live, slots, heard, stderr>>

RefuseAndServe ==
    /\ loop = "refuseCall"
    /\ heard' = [heard EXCEPT ![cur] = "unavailable"]
    /\ loop' = "slot"
    /\ UNCHANGED <<cur, held, backlog, live, slots, conn, stderr>>

RefusedCall ==
    /\ loop = "refuseCall"
    /\ heard' = [heard EXCEPT ![cur] = "unavailable"]
    /\ Close(cur)
    /\ LetGo("accept")
    /\ UNCHANGED <<backlog, live, slots, stderr>>

SilentHelloOnly ==
    /\ loop = "refuseHello"
    /\ Close(cur)
    /\ LetGo("accept")
    /\ UNCHANGED <<backlog, live, slots, heard, stderr>>

(* Silence past REFUSAL_TIMEOUT, or the peer hung up. *)
RefusedSilence ==
    /\ loop \in Refusing
    /\ Close(cur)
    /\ LetGo("accept")
    /\ UNCHANGED <<backlog, live, slots, heard, stderr>>

-----------------------------------------------------------------------------
(* serve_connection, on the connection's own thread. *)

Hello(p) ==
    /\ conn[p] = "hello"
    /\ p \notin Legacy
    /\ conn' = [conn EXCEPT ![p] = "idle"]
    /\ heard' = [heard EXCEPT ![p] = "hello"]
    /\ UNCHANGED <<loop, cur, held, backlog, live, slots, stderr>>

Call(p) ==
    /\ conn[p] = "idle"
    /\ conn' = [conn EXCEPT ![p] = "busy"]
    /\ UNCHANGED <<loop, cur, held, backlog, live, slots, heard, stderr>>

Answer(p) ==
    /\ conn[p] = "busy"
    /\ conn' = [conn EXCEPT ![p] = "idle"]
    /\ heard' = [heard EXCEPT ![p] = "answer"]
    /\ UNCHANGED <<loop, cur, held, backlog, live, slots, stderr>>

(* The thread ends: a hello that is late, legacy or unspoken, a hang-up, idle *)
(* silence, a reply that cannot be written, a panic.  Its slot drops.         *)
End(p) ==
    /\ conn[p] \in {"hello", "idle", "busy"}
    /\ Close(p)
    /\ DropSlot(p)
    /\ UNCHANGED <<loop, cur, held, backlog, heard, stderr>>

-----------------------------------------------------------------------------
(* What the loop does of itself, and what a peer's frames let it do. *)
LoopStep == Wake \/ Admit \/ Capacity \/ Take \/ Spawn \/ SpawnFails
PeerStep == RefusedPiece \/ RefusedHello \/ RefusedLegacy \/ RefusedCall

Next ==
    \/ Accept \/ AcceptSkip \/ AcceptFault \/ LoopStep
    \/ PeerStep \/ RefusedSilence \/ LoseStderr
    \/ \E p \in Peers : Dial(p) \/ Hello(p) \/ Call(p) \/ Answer(p) \/ End(p)

Spec == Init /\ [][Next]_vars

(* Exhaustion passes, so an accept tried often enough succeeds; the kernel    *)
(* answers; a timeout ends a silence.  No peer is assumed to send a frame,    *)
(* only to stop calling some day: then the idle timeout ends its connection.  *)
FairSpec ==
    /\ Spec
    /\ SF_vars(Accept) /\ WF_vars(LoopStep) /\ WF_vars(RefusedSilence)
    /\ \A p \in Peers : WF_vars(Answer(p)) /\ SF_vars(conn[p] # "busy" /\ End(p))

-----------------------------------------------------------------------------
TypeOK ==
    /\ loop \in {"accept", "admit", "capacity", "slot", "spawn", "refuseHello",
                 "refuseCall", "backOff", "ended", "panicked"}
    /\ cur \in Peers \cup {None}
    /\ held \in 0..(2 * Reads)
    /\ backlog \in Seq(Peers)
    /\ live \in Nat
    /\ slots \subseteq Peers
    /\ conn \in [Peers -> {"new", "queued", "taken", "hello", "idle", "busy", "closed"}]
    /\ heard \in [Peers -> {"nothing", "hello", "answer", "unavailable"}]
    /\ stderr \in BOOLEAN

InHand == {"admit", "capacity", "slot", "spawn"} \cup Refusing

Served == {p \in Peers : conn[p] \in {"hello", "idle", "busy"}}

(* The count is the slots, and a slot is held for exactly the connections     *)
(* being served (and the one about to be), however each of them ends.         *)
SlotsAreTheServed ==
    /\ live = Cardinality(slots)
    /\ slots = Served \cup IF loop = "spawn" THEN {cur} ELSE {}

(* Checking the count and then taking a slot cannot overshoot: only the loop  *)
(* adds, whatever the threads subtract in between.                            *)
WithinCap == Cardinality(Served) <= MaxConnections

(* What the two rest on: a connection waits in the backlog once, the loop     *)
(* holds one that is neither waiting nor served, it waits a bounded number of *)
(* reads, and a place it has checked stays free.                              *)
QueueInv ==
    /\ \A i \in DOMAIN backlog : conn[backlog[i]] = "queued"
    /\ \A i, j \in DOMAIN backlog : backlog[i] = backlog[j] => i = j

HandInv ==
    /\ loop \in InHand => cur \in Peers /\ conn[cur] = "taken"
    /\ loop \notin Refusing => held = 0
    /\ loop = "refuseHello" => held < Reads
    /\ loop = "refuseCall" => held < 2 * Reads

CapInv ==
    /\ IsFiniteSet(slots)
    /\ SlotsAreTheServed
    /\ live <= MaxConnections
    /\ loop = "slot" => live < MaxConnections

DoorInv == QueueInv /\ HandInv /\ CapInv

(* A peer the door does not admit is closed with nothing said to it, and none *)
(* of its frames is ever waited for.                                          *)
StrangersHearNothing ==
    \A p \in Peers \ Admitted :
        heard[p] = "nothing" /\ conn[p] \notin {"hello", "idle", "busy"}

(* A connection the loop turned away never gets an answer from the kernel,    *)
(* and one being served is never told the door is full.                       *)
RefusalIsFinal ==
    [][\A p \in Peers : heard[p] = "unavailable" =>
         heard'[p] = "unavailable" /\ conn'[p] = "closed"]_vars

(* While the loop lives, every connection dialed is taken up: the exhaustion  *)
(* and the refusals before it all end, whatever the peers refused hold back.  *)
QueueMoves ==
    \A p \in Peers : conn[p] = "queued" ~>
        conn[p] # "queued" \/ loop \in {"ended", "panicked"}

(* A full door does not stay full: every served connection gives its place    *)
(* back.                                                                      *)
PlacesComeBack == \A p \in Peers : p \in slots ~> p \notin slots

(* "A diagnostic that cannot be written is lost; the door is not." *)
(* It does not hold: README, Disagreements.                                   *)
DoorOutlivesStderr == loop # "panicked"

(* "While the door is full it takes at most about two seconds per refused     *)
(* connection": one for the hello, one for the call.                          *)
(* It does not hold: README, Disagreements.                                   *)
RefusalTakesTwoReads == held <= 2

-----------------------------------------------------------------------------
(* Proofs about the accept loop, for any peers, any cap and any slowness. *)

USE DoorAssumption

(* The types, given that the loop's connection is a peer and its waits are    *)
(* bounded.                                                                   *)
LEMMA DoorTypes == TypeOK /\ DoorInv /\ [Next]_vars => TypeOK'
<1> SUFFICES ASSUME TypeOK, HandInv, CapInv, [Next]_vars PROVE TypeOK'
  BY DEF DoorInv
<1> USE DEF TypeOK, HandInv, InHand, Refusing
<1>1. ASSUME Accept PROVE TypeOK'
  BY <1>1 DEF Accept
<1>2. ASSUME AcceptSkip PROVE TypeOK'
  BY <1>2 DEF AcceptSkip
<1>3. ASSUME AcceptFault PROVE TypeOK'
  BY <1>3 DEF AcceptFault
<1>4. ASSUME Wake PROVE TypeOK'
  BY <1>4 DEF Wake
<1>5. ASSUME Admit PROVE TypeOK'
  BY <1>5 DEF Admit, LetGo, Close
<1>6. ASSUME Capacity PROVE TypeOK'
  BY <1>6 DEF Capacity, Full
<1>7. ASSUME Take PROVE TypeOK'
  BY <1>7 DEF Take
<1>8. ASSUME Spawn PROVE TypeOK'
  BY <1>8 DEF Spawn, LetGo
<1>9. ASSUME SpawnFails PROVE TypeOK'
  <2>1. live \in Nat \ {0}
    BY <1>9, FS_EmptySet, FS_CardinalityType DEF SpawnFails, CapInv, SlotsAreTheServed
  <2> QED
    BY <1>9, <2>1 DEF SpawnFails, LetGo, Close, FreeFailedSpawn, DropSlot
<1>10. ASSUME RefusedPiece PROVE TypeOK'
  BY <1>10 DEF RefusedPiece
<1>11. ASSUME RefusedHello PROVE TypeOK'
  BY <1>11 DEF RefusedHello
<1>12. ASSUME RefusedLegacy PROVE TypeOK'
  BY <1>12 DEF RefusedLegacy, LetGo, Close
<1>13. ASSUME RefusedCall PROVE TypeOK'
  BY <1>13 DEF RefusedCall, LetGo, Close
<1>14. ASSUME RefusedSilence PROVE TypeOK'
  BY <1>14 DEF RefusedSilence, LetGo, Close
<1>15. ASSUME LoseStderr PROVE TypeOK'
  BY <1>15 DEF LoseStderr
<1>16. ASSUME NEW p \in Peers, Dial(p) PROVE TypeOK'
  BY <1>16 DEF Dial
<1>17. ASSUME NEW p \in Peers, Hello(p) PROVE TypeOK'
  BY <1>17 DEF Hello
<1>18. ASSUME NEW p \in Peers, Call(p) PROVE TypeOK'
  BY <1>18 DEF Call
<1>19. ASSUME NEW p \in Peers, Answer(p) PROVE TypeOK'
  BY <1>19 DEF Answer
<1>20. ASSUME NEW p \in Peers, End(p) PROVE TypeOK'
  <2>1. live \in Nat \ {0}
    BY <1>20, FS_EmptySet, FS_CardinalityType DEF End, CapInv, SlotsAreTheServed, Served
  <2> QED
    BY <1>20, <2>1 DEF End, Close, DropSlot
<1>21. CASE UNCHANGED vars
  BY <1>21 DEF vars
<1> QED
  BY <1>1, <1>2, <1>3, <1>4, <1>5, <1>6, <1>7, <1>8, <1>9, <1>10, <1>11, <1>12,
     <1>13, <1>14, <1>15, <1>16, <1>17, <1>18, <1>19, <1>20, <1>21
  DEF Next, LoopStep, PeerStep

(* A connection waits in the backlog once. *)
LEMMA QueueStep == TypeOK /\ DoorInv /\ [Next]_vars => QueueInv'
<1> SUFFICES ASSUME TypeOK, QueueInv, HandInv, SlotsAreTheServed, [Next]_vars PROVE QueueInv'
  BY DEF DoorInv, CapInv
<1> USE DEF TypeOK, QueueInv, HandInv, InHand, Refusing
<1>1. ASSUME Accept PROVE QueueInv'
  BY <1>1 DEF Accept
<1>2. ASSUME AcceptSkip PROVE QueueInv'
  BY <1>2 DEF AcceptSkip
<1>3. ASSUME AcceptFault PROVE QueueInv'
  BY <1>3 DEF AcceptFault
<1>4. ASSUME Wake PROVE QueueInv'
  BY <1>4 DEF Wake
<1>5. ASSUME Admit PROVE QueueInv'
  BY <1>5 DEF Admit, LetGo, Close
<1>6. ASSUME Capacity PROVE QueueInv'
  BY <1>6 DEF Capacity, Full
<1>7. ASSUME Take PROVE QueueInv'
  BY <1>7 DEF Take
<1>8. ASSUME Spawn PROVE QueueInv'
  BY <1>8 DEF Spawn, LetGo
<1>9. ASSUME SpawnFails PROVE QueueInv'
  BY <1>9 DEF SpawnFails, LetGo, Close, FreeFailedSpawn, DropSlot
<1>10. ASSUME RefusedPiece PROVE QueueInv'
  BY <1>10 DEF RefusedPiece
<1>11. ASSUME RefusedHello PROVE QueueInv'
  BY <1>11 DEF RefusedHello
<1>12. ASSUME RefusedLegacy PROVE QueueInv'
  BY <1>12 DEF RefusedLegacy, LetGo, Close
<1>13. ASSUME RefusedCall PROVE QueueInv'
  BY <1>13 DEF RefusedCall, LetGo, Close
<1>14. ASSUME RefusedSilence PROVE QueueInv'
  BY <1>14 DEF RefusedSilence, LetGo, Close
<1>15. ASSUME LoseStderr PROVE QueueInv'
  BY <1>15 DEF LoseStderr
<1>16. ASSUME NEW p \in Peers, Dial(p) PROVE QueueInv'
  BY <1>16 DEF Dial
<1>17. ASSUME NEW p \in Peers, Hello(p) PROVE QueueInv'
  BY <1>17 DEF Hello
<1>18. ASSUME NEW p \in Peers, Call(p) PROVE QueueInv'
  BY <1>18 DEF Call
<1>19. ASSUME NEW p \in Peers, Answer(p) PROVE QueueInv'
  BY <1>19 DEF Answer
<1>20. ASSUME NEW p \in Peers, End(p) PROVE QueueInv'
  BY <1>20 DEF End, Close, DropSlot
<1>21. CASE UNCHANGED vars
  BY <1>21 DEF vars
<1> QED
  BY <1>1, <1>2, <1>3, <1>4, <1>5, <1>6, <1>7, <1>8, <1>9, <1>10, <1>11, <1>12,
     <1>13, <1>14, <1>15, <1>16, <1>17, <1>18, <1>19, <1>20, <1>21
  DEF Next, LoopStep, PeerStep

(* The loop holds one connection, neither waiting nor served. *)
LEMMA HandStep == TypeOK /\ DoorInv /\ [Next]_vars => HandInv'
<1> SUFFICES ASSUME TypeOK, QueueInv, HandInv, [Next]_vars PROVE HandInv'
  BY DEF DoorInv
<1> USE DEF TypeOK, HandInv, InHand, Refusing
<1>1. ASSUME Accept PROVE HandInv'
  <2>1. Head(backlog) \in Peers
    BY <1>1 DEF Accept
  <2> QED
    BY <1>1, <2>1 DEF Accept
<1>2. ASSUME AcceptSkip PROVE HandInv'
  BY <1>2 DEF AcceptSkip
<1>3. ASSUME AcceptFault PROVE HandInv'
  BY <1>3 DEF AcceptFault
<1>4. ASSUME Wake PROVE HandInv'
  BY <1>4 DEF Wake
<1>5. ASSUME Admit PROVE HandInv'
  BY <1>5 DEF Admit, LetGo, Close
<1>6. ASSUME Capacity PROVE HandInv'
  BY <1>6 DEF Capacity, Full
<1>7. ASSUME Take PROVE HandInv'
  BY <1>7 DEF Take
<1>8. ASSUME Spawn PROVE HandInv'
  BY <1>8 DEF Spawn, LetGo
<1>9. ASSUME SpawnFails PROVE HandInv'
  BY <1>9 DEF SpawnFails, LetGo, Close, FreeFailedSpawn, DropSlot
<1>10. ASSUME RefusedPiece PROVE HandInv'
  BY <1>10 DEF RefusedPiece
<1>11. ASSUME RefusedHello PROVE HandInv'
  BY <1>11 DEF RefusedHello
<1>12. ASSUME RefusedLegacy PROVE HandInv'
  BY <1>12 DEF RefusedLegacy, LetGo, Close
<1>13. ASSUME RefusedCall PROVE HandInv'
  BY <1>13 DEF RefusedCall, LetGo, Close
<1>14. ASSUME RefusedSilence PROVE HandInv'
  BY <1>14 DEF RefusedSilence, LetGo, Close
<1>15. ASSUME LoseStderr PROVE HandInv'
  BY <1>15 DEF LoseStderr
<1>16. ASSUME NEW p \in Peers, Dial(p) PROVE HandInv'
  BY <1>16 DEF Dial
<1>17. ASSUME NEW p \in Peers, Hello(p) PROVE HandInv'
  BY <1>17 DEF Hello
<1>18. ASSUME NEW p \in Peers, Call(p) PROVE HandInv'
  BY <1>18 DEF Call
<1>19. ASSUME NEW p \in Peers, Answer(p) PROVE HandInv'
  BY <1>19 DEF Answer
<1>20. ASSUME NEW p \in Peers, End(p) PROVE HandInv'
  BY <1>20 DEF End, Close, DropSlot
<1>21. CASE UNCHANGED vars
  BY <1>21 DEF vars
<1> QED
  BY <1>1, <1>2, <1>3, <1>4, <1>5, <1>6, <1>7, <1>8, <1>9, <1>10, <1>11, <1>12,
     <1>13, <1>14, <1>15, <1>16, <1>17, <1>18, <1>19, <1>20, <1>21
  DEF Next, LoopStep, PeerStep

(* The count is the slots, and the slots are the served. *)
LEMMA CapStep == TypeOK /\ DoorInv /\ [Next]_vars => CapInv'
<1> SUFFICES ASSUME TypeOK, QueueInv, HandInv, CapInv, [Next]_vars PROVE CapInv'
  BY DEF DoorInv
<1> USE DEF TypeOK, HandInv, InHand, Refusing, CapInv, SlotsAreTheServed, Served
<1>1. ASSUME Accept PROVE CapInv'
  <2>1. Head(backlog) \in Peers /\ conn[Head(backlog)] = "queued"
    BY <1>1 DEF Accept, QueueInv
  <2> QED
    BY <1>1, <2>1 DEF Accept
<1>2. ASSUME AcceptSkip PROVE CapInv'
  <2>1. Head(backlog) \in Peers /\ conn[Head(backlog)] = "queued"
    BY <1>2 DEF AcceptSkip, QueueInv
  <2> QED
    BY <1>2, <2>1 DEF AcceptSkip
<1>3. ASSUME AcceptFault PROVE CapInv'
  BY <1>3 DEF AcceptFault
<1>4. ASSUME Wake PROVE CapInv'
  BY <1>4 DEF Wake
<1>5. ASSUME Admit PROVE CapInv'
  BY <1>5 DEF Admit, LetGo, Close
<1>6. ASSUME Capacity PROVE CapInv'
  BY <1>6 DEF Capacity, Full
<1>7. ASSUME Take PROVE CapInv'
  <2>1. cur \notin slots
    BY <1>7 DEF Take
  <2>2. IsFiniteSet(slots') /\ Cardinality(slots') = Cardinality(slots) + 1
    BY <1>7, <2>1, FS_AddElement DEF Take
  <2>3. slots' = Served' \cup {cur'}
    BY <1>7 DEF Take
  <2> QED
    BY <1>7, <2>2, <2>3 DEF Take
<1>8. ASSUME Spawn PROVE CapInv'
  BY <1>8 DEF Spawn, LetGo
<1>9. ASSUME SpawnFails PROVE CapInv'
  <2>1. cur \in slots /\ cur \notin Served
    BY <1>9 DEF SpawnFails
  <2>2. slots' = slots \ {cur} /\ live' = live - 1
    BY <1>9 DEF SpawnFails, FreeFailedSpawn, DropSlot
  <2>3. IsFiniteSet(slots') /\ Cardinality(slots') = Cardinality(slots) - 1
    BY <2>1, <2>2, FS_RemoveElement
  <2>4. Served' = Served /\ loop' = "backOff"
    BY <1>9 DEF SpawnFails, Close, LetGo
  <2>5. slots' = Served'
    BY <1>9, <2>1, <2>2, <2>4 DEF SpawnFails
  <2> QED
    BY <2>2, <2>3, <2>4, <2>5
<1>10. ASSUME RefusedPiece PROVE CapInv'
  BY <1>10 DEF RefusedPiece
<1>11. ASSUME RefusedHello PROVE CapInv'
  BY <1>11 DEF RefusedHello
<1>12. ASSUME RefusedLegacy PROVE CapInv'
  BY <1>12 DEF RefusedLegacy, LetGo, Close
<1>13. ASSUME RefusedCall PROVE CapInv'
  BY <1>13 DEF RefusedCall, LetGo, Close
<1>14. ASSUME RefusedSilence PROVE CapInv'
  BY <1>14 DEF RefusedSilence, LetGo, Close
<1>15. ASSUME LoseStderr PROVE CapInv'
  BY <1>15 DEF LoseStderr
<1>16. ASSUME NEW p \in Peers, Dial(p) PROVE CapInv'
  BY <1>16 DEF Dial
<1>17. ASSUME NEW p \in Peers, Hello(p) PROVE CapInv'
  BY <1>17 DEF Hello
<1>18. ASSUME NEW p \in Peers, Call(p) PROVE CapInv'
  BY <1>18 DEF Call
<1>19. ASSUME NEW p \in Peers, Answer(p) PROVE CapInv'
  BY <1>19 DEF Answer
<1>20. ASSUME NEW p \in Peers, End(p) PROVE CapInv'
  <2>1. p \in Served /\ p \in slots
    BY <1>20 DEF End
  <2>2. slots' = slots \ {p} /\ live' = live - 1
    BY <1>20 DEF End, DropSlot
  <2>3. IsFiniteSet(slots') /\ Cardinality(slots') = Cardinality(slots) - 1
    BY <2>1, <2>2, FS_RemoveElement
  <2>4. Served' = Served \ {p} /\ UNCHANGED <<loop, cur>>
    BY <1>20 DEF End, Close
  <2>5. loop = "spawn" => cur # p
    BY <2>1
  <2>6. slots' = Served' \cup IF loop' = "spawn" THEN {cur'} ELSE {}
    BY <2>2, <2>4, <2>5
  <2> QED
    BY <2>2, <2>3, <2>4, <2>6
<1>21. CASE UNCHANGED vars
  BY <1>21 DEF vars
<1> QED
  BY <1>1, <1>2, <1>3, <1>4, <1>5, <1>6, <1>7, <1>8, <1>9, <1>10, <1>11, <1>12,
     <1>13, <1>14, <1>15, <1>16, <1>17, <1>18, <1>19, <1>20, <1>21
  DEF Next, LoopStep, PeerStep

(* The inductive invariant of the accept loop. *)
THEOREM DoorInvariant == Spec => [](TypeOK /\ DoorInv)
<1>1. Init => TypeOK
  BY DEF Init, TypeOK
<1>2. Init => DoorInv
  BY FS_EmptySet DEF Init, DoorInv, QueueInv, HandInv, InHand, Refusing, CapInv,
                     SlotsAreTheServed, Served
<1>3. TypeOK /\ DoorInv /\ [Next]_vars => (TypeOK /\ DoorInv)'
  BY DoorTypes, QueueStep, HandStep, CapStep DEF DoorInv
<1> QED
  BY <1>1, <1>2, <1>3, PTL DEF Spec

(* A connection holds a slot exactly while it is served: no ending leaks a    *)
(* place or gives one back twice.                                             *)
THEOREM SlotsMatchServed == Spec => []SlotsAreTheServed
<1>1. DoorInv => SlotsAreTheServed
  BY DEF DoorInv, CapInv
<1> QED
  BY <1>1, DoorInvariant, PTL

(* The door never serves more connections than its cap. *)
THEOREM DoorStaysWithinCap == Spec => []WithinCap
<1>1. TypeOK /\ DoorInv => WithinCap
  <2> SUFFICES ASSUME TypeOK, CapInv PROVE WithinCap
    BY DEF DoorInv
  <2>1. Served \subseteq slots
    BY DEF CapInv, SlotsAreTheServed
  <2>2. Cardinality(Served) <= Cardinality(slots) /\ Cardinality(Served) \in Nat
    BY <2>1, FS_Subset, FS_CardinalityType DEF CapInv
  <2> QED
    BY <2>2 DEF CapInv, SlotsAreTheServed, WithinCap, TypeOK
<1> QED
  BY <1>1, DoorInvariant, PTL

-----------------------------------------------------------------------------
USE BindAssumption

(* The lock orders binders, so what one of them decided still holds when it   *)
(* acts on it.                                                                *)
LEMMA BindStep == BindInv /\ [BindNext]_bindVars => BindInv'
<1> SUFFICES ASSUME BindInv, [BindNext]_bindVars PROVE BindInv'
  OBVIOUS
<1> USE DEF BindTypeOK, BindInv, Holding, Answers, Goto
<1>1. ASSUME NEW p \in Servers, Start(p) PROVE BindInv'
  BY <1>1 DEF Start
<1>2. ASSUME NEW p \in Servers, TakeLock(p) PROVE BindInv'
  BY <1>2 DEF TakeLock
<1>3. ASSUME NEW p \in Servers, Probe(p) PROVE BindInv'
  <2>1. /\ Verdict \in {"bind", "fail", "remove"}
        /\ Verdict = "bind" => path = Nothing
        /\ Verdict = "remove" => path # Plain /\ ~Answers(path)
    BY DEF Verdict
  <2> QED
    BY <1>3, <2>1 DEF Probe
<1>4. ASSUME NEW p \in Servers, Remove(p) PROVE BindInv'
  BY <1>4 DEF Remove
<1>5. ASSUME NEW p \in Servers, Bind(p) PROVE BindInv'
  BY <1>5 DEF Bind
<1>6. ASSUME NEW p \in Servers, SetMode(p) PROVE BindInv'
  BY <1>6 DEF SetMode
<1>7. ASSUME NEW p \in Servers, Fail(p) PROVE BindInv'
  BY <1>7 DEF Fail, Unlock
<1>8. ASSUME NEW p \in Servers, Die(p) PROVE BindInv'
  BY <1>8 DEF Die, Unlock
<1>9. CASE UNCHANGED bindVars
  BY <1>9 DEF bindVars
<1> QED
  BY <1>1, <1>2, <1>3, <1>4, <1>5, <1>6, <1>7, <1>8, <1>9 DEF BindNext, Step

(* The inductive invariant of the binders. *)
THEOREM BindInvariant == BindSpec => []BindInv
<1>1. BindInit => BindInv
  BY DEF BindInit, BindTypeOK, BindInv, Holding
<1>2. BindInv /\ [BindNext]_bindVars => BindInv'
  BY BindStep
<1> QED
  BY <1>1, <1>2, PTL DEF BindSpec

(* A server that announced its door is reachable at its path for as long as   *)
(* it lives, whoever else starts there.                                       *)
THEOREM ListenerStaysReachable == BindSpec => []ListenerIsReachable
<1>1. BindInv => ListenerIsReachable
  BY DEF BindInv, ListenerIsReachable
<1> QED
  BY <1>1, BindInvariant, PTL

(* A file that is not a socket is never removed or replaced. *)
THEOREM PlainFileIsKept == BindSpec => PlainFileStays
<1>1. BindInv /\ [BindNext]_bindVars => [path = Plain => path' = Plain]_bindVars
  <2> SUFFICES ASSUME BindInv, BindNext, path = Plain PROVE path' = Plain
    BY DEF bindVars
  <2> QED
    BY DEF BindNext, Step, Start, TakeLock, Probe, Remove, Bind, SetMode, Fail, Die, BindInv, BindTypeOK
<1> QED
  BY <1>1, BindInvariant, PTL DEF BindSpec, PlainFileStays
=============================================================================
