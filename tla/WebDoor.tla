------------------------------- MODULE WebDoor -------------------------------
(* The HTTP door's connections (ikigai-web: serve_shared, h1, door, upload,    *)
(* stream): who is let in, how a request's body is taken, into memory or into  *)
(* a spill on disk, and how the connection is used again or let go.  A client  *)
(* may fall silent, stop reading or hang up anywhere; what bounds it is the    *)
(* door's deadlines.  What the kernel makes of a request is WebWrites'.        *)
EXTENDS Naturals, Sequences, FiniteSets

CONSTANTS
    Conns,          \* the connections clients open, each once
    MaxConnections, \* EdgeConfig::max_connections
    Requests,       \* what a client may ask
    MaxRequests,    \* requests a client sends on one connection (bound)
    Answers,        \* the bodies endpoints answer with
    MaxBody,        \* EdgeConfig::max_body_bytes, in units of a body
    StoreBound,     \* the content store's bound on what uploads hold
    MaxFaults,      \* accept errors (bound)
    Wire,           \* units of a request in the socket's buffer (bound)
    NoLen, None     \* a body of no stated length; no request

(* framing: a Content-Length of `bytes`, chunks, or no body.  most: the lesser *)
(* of an upload route's bound and the caller's grant; NoLen for a caller with  *)
(* no grant, or one the store could not name, whose body is not spilled.       *)
Framings == {"length", "chunked", "none"}

ASSUME WebDoorAssumption ==
    /\ \A n \in {MaxConnections, MaxRequests, MaxBody, StoreBound, MaxFaults, Wire} : n \in Nat
    /\ Requests \subseteq [target : {"good", "bad"}, framing : Framings, bytes : Nat,
                           upload : BOOLEAN, most : Nat \cup {NoLen}, admitted : BOOLEAN,
                           keep : BOOLEAN]
    /\ \A r \in Requests : r.framing = "none" => r.bytes = 0
    /\ Answers \subseteq [len : Nat \cup {NoLen}, gives : Nat, fails : BOOLEAN, range : BOOLEAN]
    /\ None \notin Requests /\ NoLen \notin Nat

VARIABLES
    listener,   \* "open", "waiting" out a shortage, or "dead"
    faults,     \* accept errors so far
    at,         \* where each connection stands
    permit,     \* the connections holding one
    in, todo,   \* units the client has sent and the door not read; not yet sent
    asked,      \* requests the client has begun
    gone,       \* clients that hung up
    cur,        \* the request the door is on
    got,        \* units of its body taken
    disk,       \* units of it in a spill file
    held,       \* who holds the spill: the door, its answer
    ans, sent,  \* the answer and how much of it is written
    closing,    \* the answer says Connection: close
    answered    \* connections that have carried an answer

clientVars == <<in, todo, asked, gone>>
bodyVars == <<cur, got, disk, held>>
answerVars == <<ans, sent, closing, answered>>
doorVars == <<listener, faults, at, permit, clientVars, bodyVars, answerVars>>

Plain == [len |-> 0, gives |-> 0, fails |-> FALSE, range |-> FALSE]

DoorInit ==
    /\ listener = "open" /\ faults = 0
    /\ at = [c \in Conns |-> "away"] /\ permit = {}
    /\ in = [c \in Conns |-> <<>>] /\ todo = [c \in Conns |-> <<>>]
    /\ asked = [c \in Conns |-> 0] /\ gone = {}
    /\ cur = [c \in Conns |-> None] /\ got = [c \in Conns |-> 0]
    /\ disk = [c \in Conns |-> 0] /\ held = [c \in Conns |-> {}]
    /\ ans = [c \in Conns |-> Plain] /\ sent = [c \in Conns |-> 0]
    /\ closing = [c \in Conns |-> FALSE] /\ answered = {}

(* ---- The clients ----                                                       *)

(* A head in two reads, the body a unit at a time, the last chunk.             *)
Unit(u) == [is |-> u, of |-> None]
Units(r) ==
    <<Unit("start"), [is |-> "head", of |-> r]>>
        \o [i \in 1 .. r.bytes |-> Unit("byte")]
        \o (IF r.framing = "chunked" THEN <<Unit("end")>> ELSE <<>>)

Connect(c) ==
    /\ at[c] = "away" /\ at' = [at EXCEPT ![c] = "backlog"]
    /\ UNCHANGED <<listener, faults, permit, clientVars, bodyVars, answerVars>>

(* The next unit, or the next request, an earlier one answered or not.  What   *)
(* comes to a connection being let go is read away.                            *)
Send(c) ==
    /\ at[c] \in {"backlog", "head", "reading", "spilling", "serving", "answering"}
    /\ c \notin gone /\ Len(in[c]) < Wire
    /\ \/ todo[c] # <<>> /\ in' = [in EXCEPT ![c] = Append(@, Head(todo[c]))]
          /\ todo' = [todo EXCEPT ![c] = Tail(@)] /\ UNCHANGED asked
       \/ /\ todo[c] = <<>> /\ asked[c] < MaxRequests
          /\ asked' = [asked EXCEPT ![c] = @ + 1]
          /\ \E r \in Requests :
                /\ in' = [in EXCEPT ![c] = Append(@, Head(Units(r)))]
                /\ todo' = [todo EXCEPT ![c] = Tail(Units(r))]
    /\ UNCHANGED <<listener, faults, at, permit, gone, bodyVars, answerVars>>

ClientHangsUp(c) ==
    /\ at[c] \notin {"away", "closed"} /\ c \notin gone /\ gone' = gone \cup {c}
    /\ UNCHANGED <<listener, faults, at, permit, in, todo, asked, bodyVars, answerVars>>

(* ---- The accept loop ----                                                   *)

(* A permit is taken at accept; past the cap the connection is told it is      *)
(* busy, by a task of its own that holds none.                                 *)
AcceptNext(c) ==
    /\ listener = "open" /\ at[c] = "backlog"
    /\ IF Cardinality(permit) < MaxConnections
       THEN at' = [at EXCEPT ![c] = "head"] /\ permit' = permit \cup {c}
       ELSE at' = [at EXCEPT ![c] = "busy"] /\ UNCHANGED permit
    /\ UNCHANGED <<listener, faults, clientVars, bodyVars, answerVars>>

(* accept::classify: an aborted connection is skipped, a shortage waited out,  *)
(* a dead listener ends the loop.                                              *)
AcceptFails ==
    /\ listener = "open" /\ faults < MaxFaults /\ faults' = faults + 1
    /\ \/ /\ \E c \in gone : at[c] = "backlog" /\ at' = [at EXCEPT ![c] = "closed"]
          /\ UNCHANGED listener
       \/ listener' \in {"waiting", "dead"} /\ UNCHANGED at
    /\ UNCHANGED <<permit, clientVars, bodyVars, answerVars>>

BackOff ==
    /\ listener = "waiting" /\ listener' = "open"
    /\ UNCHANGED <<faults, at, permit, clientVars, bodyVars, answerVars>>

(* ---- Letting go ----                                                        *)

(* The connection's task ends: its permit, its request and the handles the     *)
(* request held on a spill go with it.                                         *)
LetGo(c) ==
    /\ permit' = permit \ {c} /\ gone' = gone \ {c} /\ answered' = answered \ {c}
    /\ in' = [in EXCEPT ![c] = <<>>] /\ todo' = [todo EXCEPT ![c] = <<>>]
    /\ asked' = [asked EXCEPT ![c] = 0]
    /\ cur' = [cur EXCEPT ![c] = None] /\ got' = [got EXCEPT ![c] = 0]
    /\ disk' = [disk EXCEPT ![c] = 0] /\ held' = [held EXCEPT ![c] = {}]
    /\ ans' = [ans EXCEPT ![c] = Plain] /\ sent' = [sent EXCEPT ![c] = 0]
    /\ closing' = [closing EXCEPT ![c] = FALSE]

Close(c) ==
    /\ at' = [at EXCEPT ![c] = "closed"] /\ LetGo(c) /\ UNCHANGED <<listener, faults>>

(* refuse_busy: the first line or the deadline, 503, and the lingering close;  *)
(* linger after a 408: what still comes is read away, up to a bound.           *)
Refuse503(c) ==
    /\ at[c] = "busy" /\ at' = [at EXCEPT ![c] = "draining"]
    /\ UNCHANGED <<listener, faults, permit, clientVars, bodyVars, answerVars>>
Lingered(c) == at[c] \in {"draining", "lingering"} /\ Close(c)

(* ---- A request's head ----                                                  *)

HeadIsIn(c) == Len(in[c]) >= 2

(* A kept connection may idle for ever.                                        *)
IdleForEver(c) ==
    /\ at[c] = "head" /\ ~HeadIsIn(c) /\ c \notin gone /\ c \notin answered
    /\ at' = [at EXCEPT ![c] = "lingering"]
    /\ UNCHANGED <<listener, faults, permit, clientVars, bodyVars, answerVars>>

(* hyper's header deadline, which also bounds how long a kept connection       *)
(* idles.  408 is owed to a request begun and to a connection that never       *)
(* carried one; a begun one that hyper read before the last write is           *)
(* forgotten (Tracker::wrote), so the door may then close without a word.      *)
HeadLate(c) ==
    /\ at[c] = "head" /\ ~HeadIsIn(c) /\ c \notin gone
    /\ \/ /\ c \notin answered \/ in[c] # <<>>
          /\ at' = [at EXCEPT ![c] = "lingering"]
          /\ UNCHANGED <<listener, faults, permit, clientVars, bodyVars, answerVars>>
       \/ c \in answered /\ Close(c)

HeadLost(c) == at[c] = "head" /\ ~HeadIsIn(c) /\ c \in gone /\ Close(c)

(* A refusal keeps the connection like any answer.                             *)
KeepUnread(c, r, a, unread) ==
    /\ at' = [at EXCEPT ![c] = "answering"]
    /\ ans' = [ans EXCEPT ![c] = a] /\ sent' = [sent EXCEPT ![c] = 0]
    /\ closing' = [closing EXCEPT ![c] = ~r.keep] /\ UNCHANGED answered

(* An answer to `r`; one given before its body was read to the end closes.     *)
Reply(c, r, a, unread) ==
    /\ at' = [at EXCEPT ![c] = "answering"]
    /\ ans' = [ans EXCEPT ![c] = a] /\ sent' = [sent EXCEPT ![c] = 0]
    /\ closing' = [closing EXCEPT ![c] = unread \/ ~r.keep] /\ UNCHANGED answered

(* What was spilled before the refusal stays on disk.                          *)
LeaveSpill(c, r) == Reply(c, r, Plain, TRUE) /\ UNCHANGED <<disk, held>>

(* A refusal with the body, or part of it, still to come; what was spilled of  *)
(* it is dropped.                                                              *)
Unread(c, r) ==
    /\ Reply(c, r, Plain, TRUE)
    /\ disk' = [disk EXCEPT ![c] = 0] /\ UNCHANGED <<held>>

(* The whole request is handed to answer_admitted.                             *)
Hand(c) ==
    /\ at' = [at EXCEPT ![c] = "serving"]
    /\ UNCHANGED answerVars

(* answer: admission once the body is in; a refusal leaves nothing unread.     *)
Admit(c, r) ==
    /\ IF r.admitted THEN Hand(c) ELSE Reply(c, r, Plain, FALSE)
    /\ UNCHANGED <<disk, held>>

(* upload::plan, and the bounds an upload is refused by before a byte of it    *)
(* is spilled: admission, the framing, the route's and the caller's most.      *)
Spills(r) == r.upload /\ r.most # NoLen /\ r.framing # "none"
Refused(r) ==
    IF Spills(r) THEN ~r.admitted \/ r.framing = "chunked" \/ r.bytes > r.most
    ELSE r.framing = "length" /\ r.bytes > MaxBody

ReadHead(c) ==
    /\ at[c] = "head" /\ HeadIsIn(c)
    /\ LET r == in[c][2].of IN
       /\ in' = [in EXCEPT ![c] = SubSeq(@, 3, Len(@))]
       /\ cur' = [cur EXCEPT ![c] = r] /\ got' = [got EXCEPT ![c] = 0]
       /\ \/ (r.target = "bad" \/ Refused(r)) /\ Unread(c, r)
          \/ /\ r.target = "good" /\ ~Refused(r) /\ r.framing = "none" /\ Admit(c, r)
          \/ /\ r.target = "good" /\ ~Refused(r) /\ r.framing # "none"
             /\ at' = [at EXCEPT ![c] = IF Spills(r) THEN "spilling" ELSE "reading"]
             /\ UNCHANGED <<disk, held, answerVars>>
    /\ UNCHANGED <<listener, faults, permit, todo, asked, gone>>

(* ---- A request's body ----                                                  *)

Take(c) ==
    /\ in[c] # <<>> /\ in' = [in EXCEPT ![c] = Tail(@)]

Stored(c) == IF "door" \in held[c] THEN disk[c] ELSE 0
StoreHolds == UNION {{c} \X (1 .. Stored(c)) : c \in Conns}

(* Paced and the spill: a unit to disk as it arrives.                          *)
SpillUnit(c) ==
    /\ at[c] = "spilling" /\ got[c] < cur[c].bytes /\ Take(c)
    /\ got' = [got EXCEPT ![c] = @ + 1] /\ disk' = [disk EXCEPT ![c] = @ + 1]
    /\ UNCHANGED <<listener, faults, at, permit, todo, asked, gone, cur, held, answerVars>>

(* The whole body spilled, it is held in the store, or 503 past its bound, and *)
(* the Sink issued over its content id.                                        *)
HoldSpill(c) ==
    /\ at[c] = "spilling" /\ got[c] = cur[c].bytes
    /\ IF Cardinality(StoreHolds) + got[c] <= StoreBound
       THEN held' = [held EXCEPT ![c] = {"door"}] /\ Hand(c) /\ UNCHANGED disk
       ELSE Unread(c, cur[c])
    /\ UNCHANGED <<listener, faults, permit, clientVars, cur, got>>

(* read_body: into memory, a chunked body refused the moment it passes the     *)
(* bound.                                                                      *)
ReadUnit(c) ==
    /\ at[c] = "reading" /\ in[c] # <<>> /\ Head(in[c]).is = "byte" /\ Take(c)
    /\ IF got[c] < MaxBody
       THEN got' = [got EXCEPT ![c] = @ + 1] /\ UNCHANGED <<at, disk, held, answerVars>>
       ELSE Unread(c, cur[c]) /\ UNCHANGED got
    /\ UNCHANGED <<listener, faults, permit, todo, asked, gone, cur>>

BodyIsIn(c) ==
    /\ at[c] = "reading" /\ Admit(c, cur[c])
    /\ \/ cur[c].framing = "length" /\ got[c] = cur[c].bytes /\ UNCHANGED in
       \/ cur[c].framing = "chunked" /\ Take(c) /\ Head(in[c]).is = "end"
    /\ UNCHANGED <<listener, faults, permit, todo, asked, gone, cur, got>>

(* Nothing more came in time (408: the body's deadline, or the rate a spill    *)
(* must keep), or it never will (400), or the disk failed.                     *)
BodyCut(c) ==
    /\ \/ at[c] = "spilling"
       \/ at[c] = "reading" /\ in[c] = <<>>
          /\ (got[c] < cur[c].bytes \/ cur[c].framing = "chunked")
    /\ Unread(c, cur[c])
    /\ UNCHANGED <<listener, faults, permit, clientVars, cur, got>>

(* ---- The answer ----                                                        *)

(* The answer is built, and the door lets the spill go; a body the answer      *)
(* still reads from it holds its own handle.                                   *)
AnswerBuilt(c) ==
    /\ at[c] = "serving"
    /\ \E a \in Answers : Reply(c, cur[c], a, FALSE)
    /\ \E h \in {{}, {"answer"}} :
          /\ h # {} => held[c] # {} /\ ans'[c].gives > 0
          /\ held' = [held EXCEPT ![c] = h]
          /\ disk' = [disk EXCEPT ![c] = IF h = {} THEN 0 ELSE @]
    /\ UNCHANGED <<listener, faults, permit, clientVars, cur, got>>

(* hyper sees the client gone and drops the request.                           *)
Abandon(c) == at[c] = "serving" /\ c \in gone /\ Close(c)

(* Sending::poll_chunk: a range takes exactly its length and stops; a body     *)
(* that fails, ends short of its length or runs past it is no whole answer.    *)
Drained(c) == sent[c] = ans[c].gives
Filled(c) == sent[c] = ans[c].len
IsWhole(c) ==
    IF ans[c].range THEN Filled(c)
    ELSE Drained(c) /\ ~ans[c].fails /\ (ans[c].len = NoLen \/ Filled(c))

WriteUnit(c) ==
    /\ at[c] = "answering" /\ ~Drained(c) /\ ~Filled(c)
    /\ sent' = [sent EXCEPT ![c] = @ + 1]
    /\ UNCHANGED <<listener, faults, at, permit, clientVars, bodyVars, ans, closing, answered>>

(* The whole answer is out: the connection waits for the next request, if the  *)
(* client asked to keep it and this one was read to its end.                   *)
AnswerEnds(c) ==
    /\ at[c] = "answering" /\ IsWhole(c)
    /\ \/ closing[c] /\ Close(c)
       \/ /\ ~closing[c] /\ at' = [at EXCEPT ![c] = "head"] /\ answered' = answered \cup {c}
          /\ cur' = [cur EXCEPT ![c] = None] /\ got' = [got EXCEPT ![c] = 0]
          /\ held' = [held EXCEPT ![c] = {}] /\ disk' = [disk EXCEPT ![c] = 0]
          /\ UNCHANGED <<listener, faults, permit, clientVars, ans, sent, closing>>

(* A failed body ends the connection, and so does a client that takes no more  *)
(* of it (the write deadline) or is gone.                                      *)
AnswerBreaks(c) == at[c] = "answering" /\ Close(c)

DoorStep(c) ==
    \/ Refuse503(c) \/ Lingered(c) \/ HeadLate(c) \/ HeadLost(c) \/ ReadHead(c)
    \/ SpillUnit(c) \/ HoldSpill(c) \/ ReadUnit(c) \/ BodyIsIn(c) \/ BodyCut(c)
    \/ AnswerBuilt(c) \/ Abandon(c) \/ WriteUnit(c) \/ AnswerEnds(c) \/ AnswerBreaks(c)

DoorNext ==
    \/ AcceptFails \/ BackOff
    \/ \E c \in Conns : Connect(c) \/ Send(c) \/ ClientHangsUp(c) \/ AcceptNext(c) \/ DoorStep(c)

DoorSpec == DoorInit /\ [][DoorNext]_doorVars

(* The runtime polls the accept loop and every connection's task; each of the  *)
(* door's waits is under a deadline.  Of a client nothing is assumed.          *)
DoorFairSpec ==
    /\ DoorSpec
    /\ WF_doorVars(\E c \in Conns : AcceptNext(c)) /\ WF_doorVars(BackOff)
    /\ \A c \in Conns : WF_doorVars(DoorStep(c))

(* ---- Properties ----                                                        *)

Inside == {"head", "lingering", "reading", "spilling", "serving", "answering"}

DoorTypeOK ==
    /\ listener \in {"open", "waiting", "dead"} /\ faults \in 0 .. MaxFaults
    /\ at \in [Conns -> Inside \cup {"away", "backlog", "busy", "draining", "closed"}]
    /\ permit = {c \in Conns : at[c] \in Inside} /\ Cardinality(permit) <= MaxConnections
    /\ \A c \in Conns :
          /\ in[c] \in Seq([is : {"start", "head", "byte", "end"}, of : Requests \cup {None}])
          /\ Len(in[c]) <= Wire /\ asked[c] \in 0 .. MaxRequests
          /\ cur[c] \in Requests \cup {None} /\ got[c] \in Nat /\ disk[c] \in 0 .. got[c]
          /\ held[c] \subseteq {"door", "answer"} /\ ans[c] \in Answers \cup {Plain}
    /\ gone \subseteq Conns /\ answered \subseteq Conns

(* Nothing partial passes for whole.  What is handed on has its whole body     *)
(* ("a PARTIAL submission, which the endpoint must never be handed as if it    *)
(* were whole"); a kept connection reads a head where a head begins, never     *)
(* what a refusal left of a body; and it is only kept when the answer before   *)
(* was complete ("never a well-formed shorter body").                          *)
WholeBodies ==
    \A c \in Conns :
    /\ at[c] = "serving" => got[c] = cur[c].bytes
    /\ at[c] = "head" =>
          /\ in[c] # <<>> => Head(in[c]).is = "start"
          /\ c \in answered => IsWhole(c)

(* A spill lives exactly as long as a request that needs it: whole and held    *)
(* while its Sink runs, gone with a refusal, a cut body or a lost client, and  *)
(* never held past the store's bound.                                          *)
SpillsLetGo ==
    /\ Cardinality(StoreHolds) <= StoreBound
    /\ \A c \in Conns :
          /\ at[c] = "serving" /\ Spills(cur[c]) => "door" \in held[c] /\ disk[c] = cur[c].bytes
          /\ disk[c] > 0 => at[c] = "spilling" \/ held[c] # {}
          /\ held[c] # {} => at[c] \in {"serving", "answering"}

(* No part of a body, of an answer or of a request passes for the whole, and a *)
(* spill is let go with the request it was for.                                *)
NothingPartial == WholeBodies /\ SpillsLetGo

(* What uploads in flight have on disk is within the store's bound ("the most  *)
(* disk the door's uploads in flight may hold at once").                       *)
DiskWithinStore == Cardinality(UNION {{c} \X (1 .. disk[c]) : c \in Conns}) <= StoreBound

(* Whoever connects is let in or told the door is busy, unless the listener    *)
(* dies; and whatever a client does or stops doing, its connection ends and    *)
(* its permit comes back.                                                      *)
Out(c) == at[c] = "closed" /\ c \notin permit
Stranded(c) == at[c] = "backlog" /\ listener = "dead"
EveryConnectionEnds == \A c \in Conns : at[c] # "away" ~> Out(c) \/ Stranded(c)
=============================================================================
