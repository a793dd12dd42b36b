------------------------------ MODULE QuicWire ------------------------------
(* The QUIC transport (src/crates/ikigai-quic/src/lib.rs): a resolver whose     *)
(* callers share one connection, each call on a stream of its own, the door    *)
(* that answers up to MaxCalls of them at once and closes a connection past    *)
(* its age, and how a call heals onto a new connection.  A Sink or Delete is   *)
(* a call in Mutating; a call in Patient runs under no deadline.               *)
EXTENDS Naturals, FiniteSets, TLAPS

CONSTANTS
    Calls, Mutating, Patient,
    Links,      \* the connections that may ever be made, in order
    MaxCalls,   \* MAX_CALLS_PER_CONNECTION
    NoCall, Refused

ASSUME QuicAssumption ==
    /\ Mutating \subseteq Calls /\ Patient \subseteq Calls /\ {NoCall, Refused} \cap Calls = {}
    /\ NoCall # Refused
    /\ Links \in Nat \ {0} /\ MaxCalls \in Nat \ {0}

VARIABLES
    pc,         \* per call: "new", "redial", "open", "sending", "sent", "heal", "done"
    tries,      \* per call: attempts begun, at most two
    stream,     \* per call and attempt: its connection, request, serving and reply
    runs,       \* per call: times dispatched
    answer,     \* per call: whose reply the caller was handed, or Refused
    current,    \* Wire.connection
    stale,      \* Wire.stale
    suspect,    \* whether a call met its deadline on the current connection
    link        \* per connection: "unborn", "live", "aged", "closed", "dead"

client == <<pc, tries, answer, current, stale, suspect>>
vars == <<pc, tries, stream, runs, answer, current, stale, suspect, link>>

Attempts == {1, 2}
NoStream == [on |-> 0, req |-> "none", srv |-> "none", rep |-> "none"]
Up(k) == link[k] \in {"live", "aged"}

(* connect_with has dialed the first connection. *)
Init ==
    /\ pc = [c \in Calls |-> "new"] /\ tries = [c \in Calls |-> 0]
    /\ stream = [c \in Calls |-> [a \in Attempts |-> NoStream]]
    /\ runs = [c \in Calls |-> 0] /\ answer = [c \in Calls |-> NoCall]
    /\ current = 1 /\ stale = FALSE /\ suspect = FALSE
    /\ link = [k \in 1..Links |-> IF k = 1 THEN "live" ELSE "unborn"]

-----------------------------------------------------------------------------
(* The resolver. *)

Goto(c, where) == pc' = [pc EXCEPT ![c] = where]
Mine(c) == stream[c][tries[c]]
Mark(c, field, value) == stream' = [stream EXCEPT ![c][tries[c]][field] = value]

(* round_trip begins: a connection marked stale is redialed first. *)
Submit(c) ==
    /\ pc[c] = "new"
    /\ Goto(c, IF stale THEN "redial" ELSE "open")
    /\ stale' = FALSE
    /\ UNCHANGED <<tries, stream, runs, answer, current, suspect, link>>

(* The door's minter gives the new connection a session, or it is closed.    *)
Reconnect(c) ==
    /\ pc[c] \in {"redial", "heal"}
    /\ \E k \in 1..Links, minted \in {"live", "closed"} :
        /\ link[k] = "unborn" /\ \A j \in 1..k-1 : link[j] # "unborn"
        /\ link' = [link EXCEPT ![k] = minted]
        /\ current' = k
    /\ suspect' = FALSE
    /\ Goto(c, "open")
    /\ UNCHANGED <<tries, stream, runs, answer, stale>>

(* A redial that failed leaves the mark for the next call. *)
ForgetStale(c) == UNCHANGED stale
RemarkStale(c) == stale' = (stale \/ pc[c] = "redial")

ReconnectFails(c) ==
    /\ pc[c] \in {"redial", "heal"}
    /\ Goto(c, "done")
    /\ RemarkStale(c)
    /\ UNCHANGED <<tries, stream, runs, answer, current, suspect, link>>

Open(c) ==
    /\ pc[c] = "open"
    /\ tries' = [tries EXCEPT ![c] = @ + 1]
    /\ stream' = [stream EXCEPT ![c][tries[c] + 1] =
         [on |-> current, req |-> "part", srv |-> "queued", rep |-> "none"]]
    /\ Goto(c, "sending")
    /\ UNCHANGED <<runs, answer, current, stale, suspect, link>>

Send(c) ==
    /\ pc[c] = "sending" /\ Mine(c).srv # "away"
    /\ Mark(c, "req", "whole")
    /\ Goto(c, "sent")
    /\ UNCHANGED <<tries, runs, answer, current, stale, suspect, link>>

(* Until the request is written whole the peer cannot have run it. *)
SendFails(c) ==
    /\ pc[c] = "sending"
    /\ ~Up(Mine(c).on) \/ Mine(c).srv = "away"
    /\ Mark(c, "req", "reset")
    /\ Goto(c, IF tries[c] = 1 THEN "heal" ELSE "done")
    /\ UNCHANGED <<tries, runs, answer, current, stale, suspect, link>>

Read(c) ==
    /\ pc[c] = "sent" /\ Up(Mine(c).on)
    /\ Mine(c).rep \in {"answer", "refusal"}
    /\ Mark(c, "rep", "over")
    /\ answer' = [answer EXCEPT ![c] = IF Mine(c).rep = "answer" THEN c ELSE Refused]
    /\ Goto(c, "done")
    /\ UNCHANGED <<tries, runs, current, stale, suspect, link>>

(* The reply is lost: only a read is sent again. *)
ReplayAnything(c) == TRUE
ReplayMayFollow(c) == c \notin Mutating
AlwaysReplays(c) == ReplayMayFollow(c)
Replays(c) == tries[c] = 1 /\ ReplayMayFollow(c)

Lost(c) ==
    /\ pc[c] = "sent"
    /\ ~Up(Mine(c).on) \/ Mine(c).srv = "away"
    /\ Mark(c, "rep", "over")
    /\ Goto(c, IF Replays(c) THEN "heal" ELSE "done")
    /\ UNCHANGED <<tries, runs, answer, current, stale, suspect, link>>

(* The whole exchange is bounded; dropping it cancels its stream. *)
Dropped(c) == [Mine(c) EXCEPT !.req = IF pc[c] = "sending" THEN "reset" ELSE @, !.rep = "over"]
Deadline(c) ==
    /\ c \notin Patient /\ pc[c] \in {"redial", "open", "sending", "sent", "heal"}
    /\ IF pc[c] \in {"sending", "sent"}
       THEN /\ stream' = [stream EXCEPT ![c][tries[c]] = Dropped(c)]
            /\ suspect' = (suspect \/ Mine(c).on = current)
       ELSE UNCHANGED <<stream, suspect>>
    /\ Goto(c, "done")
    /\ stale' = TRUE
    /\ UNCHANGED <<tries, runs, answer, current, link>>

-----------------------------------------------------------------------------
(* The door. *)

Serve(c, a, state) == stream' = [stream EXCEPT ![c][a].srv = state]
Permits(k) == {s \in Calls \X Attempts :
    /\ stream[s[1]][s[2]].on = k
    /\ stream[s[1]][s[2]].srv \in {"reading", "running", "landing"}}

(* accept_bi: a call takes a permit, or is refused. *)
Accept(c, a) ==
    LET k == stream[c][a].on IN
    /\ stream[c][a].srv = "queued" /\ link[k] = "live"
    /\ Serve(c, a, IF Cardinality(Permits(k)) < MaxCalls THEN "reading" ELSE "refusing")
    /\ UNCHANGED <<client, runs, link>>

Run(c, a) ==
    /\ stream[c][a].srv = "reading" /\ stream[c][a].req = "whole"
    /\ Serve(c, a, "running")
    /\ runs' = [runs EXCEPT ![c] = @ + 1]
    /\ UNCHANGED <<client, link>>

(* A stream that fails while it is read gets no reply and gives its permit    *)
(* back.                                                                      *)
LeakPermit(c, a) == UNCHANGED stream
EndUnread(c, a) == Serve(c, a, "ended")

ReadFails(c, a) ==
    /\ stream[c][a].srv \in {"reading", "refusing"}
    /\ stream[c][a].req = "reset" \/ ~Up(stream[c][a].on)
    /\ EndUnread(c, a)
    /\ UNCHANGED <<client, runs, link>>

Written(c, a, reply) == IF stream[c][a].rep = "none" THEN reply ELSE stream[c][a].rep

(* The reply is written, and past the age bound it is let land first. *)
AfterReply(c, a) == IF link[stream[c][a].on] = "live" THEN "ended" ELSE "landing"

Reply(c, a) ==
    /\ stream[c][a].srv = "running"
    /\ stream' = [stream EXCEPT ![c][a].srv = AfterReply(c, a),
                                ![c][a].rep = Written(c, a, "answer")]
    /\ UNCHANGED <<client, runs, link>>

(* send.stopped(): read or stopped, the link gone, or REPLY_GRACE over. *)
Landed(c, a) ==
    /\ stream[c][a].srv = "landing"
    /\ Serve(c, a, "landed")
    /\ UNCHANGED <<client, runs, link>>

NoReply == "none"
RefusalReply == "refusal"

Refuse(c, a) ==
    /\ stream[c][a].srv = "refusing" /\ stream[c][a].req = "whole"
    /\ stream' = [stream EXCEPT ![c][a].srv = "ended",
                                ![c][a].rep = Written(c, a, RefusalReply)]
    /\ UNCHANGED <<client, runs, link>>

(* The connection's age bound passes: it accepts no more calls. *)
Age(k) ==
    /\ link[k] = "live"
    /\ link' = [link EXCEPT ![k] = "aged"]
    /\ UNCHANGED <<client, stream, runs>>

TurnAway(c, a) ==
    /\ stream[c][a].srv = "queued" /\ link[stream[c][a].on] = "aged"
    /\ Serve(c, a, "away")
    /\ UNCHANGED <<client, runs, link>>

AtOnce(k) == TRUE
Drained(k) == Permits(k) = {}

CloseAged(k) ==
    /\ link[k] = "aged" /\ Drained(k)
    /\ link' = [link EXCEPT ![k] = "closed"]
    /\ UNCHANGED <<client, stream, runs>>

(* The network, the peer's restart or an idle timeout ends a connection. *)
Break(k) ==
    /\ Up(k)
    /\ link' = [link EXCEPT ![k] = "dead"]
    /\ UNCHANGED <<client, stream, runs>>

-----------------------------------------------------------------------------
Round(c) ==
    \/ Reconnect(c) \/ ReconnectFails(c) \/ Open(c) \/ Send(c) \/ SendFails(c)
    \/ Read(c) \/ Lost(c) \/ Deadline(c)

Served(c, a) ==
    \/ Accept(c, a) \/ Run(c, a) \/ ReadFails(c, a) \/ Reply(c, a) \/ Landed(c, a)
    \/ Refuse(c, a) \/ TurnAway(c, a)

Next ==
    \/ \E c \in Calls : Submit(c) \/ Round(c) \/ \E a \in Attempts : Served(c, a)
    \/ \E k \in 1..Links : Age(k) \/ CloseAged(k) \/ Break(k)

Spec == Init /\ [][Next]_vars

(* The resolver's runtime and the door's run their tasks, and a dispatched    *)
(* call returns.  (Every such step is forward, so this serves each of them.)  *)
FairSpec ==
    /\ Spec
    /\ WF_vars(\E c \in Calls : Round(c))
    /\ WF_vars(\E c \in Calls, a \in Attempts : Served(c, a))
    /\ WF_vars(\E k \in 1..Links : CloseAged(k))

-----------------------------------------------------------------------------
Requested == {"none", "part", "whole", "reset"}
Serving == {"none", "queued", "reading", "refusing", "running", "landing", "landed", "ended", "away"}
Replied == {"none", "answer", "refusal", "over"}
Stream == [on : 0..Links, req : Requested, srv : Serving, rep : Replied]
Streams == [Calls -> [Attempts -> Stream]]

TypeOK ==
    /\ pc \in [Calls -> {"new", "redial", "open", "sending", "sent", "heal", "done"}]
    /\ tries \in [Calls -> 0..2]
    /\ stream \in Streams
    /\ runs \in [Calls -> 0..2] /\ answer \in [Calls -> Calls \cup {NoCall, Refused}]
    /\ current \in 1..Links /\ stale \in BOOLEAN /\ suspect \in BOOLEAN
    /\ link \in [1..Links -> {"unborn", "live", "aged", "closed", "dead"}]

(* A door closes a connection for its age only when no call on it is being    *)
(* read, run or answered.                                                     *)
DrainedBeforeClose == \A k \in 1..Links : link[k] = "closed" => Permits(k) = {}

(* No call is ever sent again after a deadline on a connection that is still  *)
(* the current one without some call redialing first.                         *)
SuspectIsMarked ==
    suspect => stale \/ \E c \in Calls : pc[c] = "redial"

(* "the call was not run, retry it when one finishes": a Sink or Delete told   *)
(* so has not run, on that connection or an earlier one, and never will.       *)
RefusalMeansUnrun ==
    \A c \in Mutating : answer[c] = Refused => runs[c] = 0

(* Every round trip returns, even one with no deadline. *)
EveryCallReturns == \A c \in Calls : pc[c] # "new" ~> pc[c] = "done"

(* "The bound turns eventually into within max_age": a connection that reaches *)
(* its bound is drained and closed, so authority minted for it ends.           *)
AgedDrains == \A k \in 1..Links : link[k] = "aged" ~> ~Up(k) /\ Permits(k) = {}

(* "the calls already in progress finish and their replies are delivered      *)
(* before the door closes"; only a call opened in the closing instant may be  *)
(* lost.                                                                      *)
(* It does not hold: README, Disagreements.                                   *)
AnswersLandFirst ==
    \A k \in 1..Links : link[k] = "closed" =>
        \A c \in Calls, a \in Attempts :
            stream[c][a].on = k /\ stream[c][a].srv = "ended" => stream[c][a].rep # "answer"

(* What the proofs rest on.                                                   *)

(* An attempt the door has been given whole, and is past reading without     *)
(* having refused it: the attempts that may have been dispatched.             *)
Past(c, a) ==
    /\ stream[c][a].req = "whole" /\ stream[c][a].rep # "refusal"
    /\ stream[c][a].srv \in {"running", "landing", "landed", "ended"}
Count(c, a) == IF Past(c, a) THEN 1 ELSE 0

(* How far a call has come, and the streams it has opened.                    *)
TriesInv(c) ==
    /\ pc[c] \in {"new", "redial"} => tries[c] = 0
    /\ pc[c] = "open" => tries[c] < 2
    /\ pc[c] = "heal" => tries[c] = 1
    /\ pc[c] \in {"sending", "sent"} => tries[c] > 0
    /\ pc[c] = "sending" => Mine(c).req = "part"
    /\ pc[c] # "done" => answer[c] = NoCall
    /\ \A a \in Attempts : a > tries[c] => stream[c][a] = NoStream

(* No more dispatches than attempts that may have been, a running and an      *)
(* answered one among them; a write tries again only what was never whole.    *)
RunInv(c) ==
    /\ runs[c] <= Count(c, 1) + Count(c, 2)
    /\ \A a \in Attempts :
          /\ stream[c][a].srv = "running" \/ stream[c][a].rep = "answer" => runs[c] > 0
          /\ stream[c][a].rep = "refusal" => stream[c][a].srv = "ended"
    /\ c \in Mutating /\ (tries[c] = 2 \/ (tries[c] = 1 /\ pc[c] \in {"heal", "open"})) =>
          stream[c][1].req = "reset"

(* A write told that it was refused has not run, and no attempt at it can.    *)
RefusedInv(c) ==
    c \in Mutating /\ answer[c] = Refused =>
        /\ runs[c] = 0
        /\ \A a \in Attempts : stream[c][a].req = "whole" => stream[c][a].srv \notin {"queued", "reading"}

WireInv == \A c \in Calls : TriesInv(c) /\ RunInv(c) /\ RefusedInv(c)

Phase(c) == IF pc[c] = "new" THEN "new" ELSE IF pc[c] = "done" THEN "done" ELSE "open"
Promise == INSTANCE RpcPromise WITH
    phase <- [c \in Calls |-> Phase(c)],
    answer <- [c \in Calls |-> IF answer[c] = Refused THEN NoCall ELSE answer[c]]

(* A call the peer may have run is sent again only if it is a read, and what  *)
(* was refused was never run.                                                 *)
KeepsPromise == Promise!Spec /\ []RefusalMeansUnrun
-----------------------------------------------------------------------------
(* Proofs about the transport, for any callers, connections and call limit.   *)

USE QuicAssumption

(* The transport starts in a state of the right shape.                        *)
LEMMA StartsWell == Init => TypeOK /\ WireInv
<1> SUFFICES ASSUME Init PROVE TypeOK /\ WireInv
  OBVIOUS
<1>1. TypeOK
  <2>1. NoStream \in Stream
    BY DEF NoStream, Stream, Requested, Serving, Replied
  <2>2. stream \in Streams
    BY <2>1 DEF Init, Streams
  <2>3. current \in 1..Links /\ link \in [1..Links -> {"unborn", "live", "aged", "closed", "dead"}]
    BY DEF Init
  <2>4. /\ pc \in [Calls -> {"new", "redial", "open", "sending", "sent", "heal", "done"}]
        /\ tries \in [Calls -> 0..2] /\ runs \in [Calls -> 0..2]
    BY DEF Init
  <2>6. stale \in BOOLEAN /\ suspect \in BOOLEAN
    BY DEF Init
  <2>5. answer \in [Calls -> Calls \cup {NoCall, Refused}]
    BY DEF Init
  <2> QED
    BY <2>2, <2>3, <2>4, <2>5, <2>6 DEF TypeOK
<1>2. ASSUME NEW c \in Calls PROVE TriesInv(c) /\ RunInv(c) /\ RefusedInv(c)
  <2>1. /\ pc[c] = "new" /\ tries[c] = 0 /\ answer[c] = NoCall /\ runs[c] = 0
        /\ \A a \in Attempts : stream[c][a] = NoStream
    BY DEF Init
  <2>2. TriesInv(c)
    BY <2>1 DEF TriesInv
  <2>3. RunInv(c)
    BY <2>1 DEF RunInv, Count, Past, NoStream, Attempts
  <2>4. RefusedInv(c)
    BY <2>1 DEF RefusedInv
  <2> QED
    BY <2>2, <2>3, <2>4
<1> QED
  BY <1>1, <1>2 DEF WireInv

(* A step takes one attempt at one call on; the others are left as they were. *)
Takes(c, a, r) ==
    /\ stream' \in Streams /\ stream'[c][a] = r
    /\ \A d \in Calls, b \in Attempts : d # c \/ b # a => stream'[d][b] = stream[d][b]

LEMMA OneStream ==
    ASSUME stream \in Streams, NEW c \in Calls, NEW a \in Attempts, NEW r \in Stream,
           stream' = [stream EXCEPT ![c][a] = r]
    PROVE  Takes(c, a, r)
BY DEF Streams, Takes

(* A stream with a field changed is a stream.                                 *)
LEMMA OneField ==
    ASSUME NEW r \in Stream
    PROVE  /\ \A x \in Requested : [r EXCEPT !.req = x] \in Stream
           /\ \A x \in Serving : [r EXCEPT !.srv = x] \in Stream
           /\ \A x \in Replied : [r EXCEPT !.rep = x] \in Stream
           /\ \A x \in Requested, y \in Replied : [r EXCEPT !.req = x, !.rep = y] \in Stream
           /\ \A x \in Serving, y \in Replied : [r EXCEPT !.srv = x, !.rep = y] \in Stream
BY DEF Stream

LEMMA Attempted == TypeOK => \A c \in Calls, a \in Attempts : stream[c][a] \in Stream
BY DEF TypeOK, Streams

(* The stream that each step which touches one leaves behind.                 *)
LEMMA DoorTakes ==
    ASSUME TypeOK, NEW c \in Calls, NEW a \in Attempts
    PROVE  /\ Accept(c, a) => \E x \in {"reading", "refusing"} : Takes(c, a, [stream[c][a] EXCEPT !.srv = x])
           /\ Run(c, a) => Takes(c, a, [stream[c][a] EXCEPT !.srv = "running"])
           /\ ReadFails(c, a) => Takes(c, a, [stream[c][a] EXCEPT !.srv = "ended"])
           /\ Reply(c, a) => \E x \in {"landing", "ended"} :
                 Takes(c, a, [stream[c][a] EXCEPT !.srv = x, !.rep = Written(c, a, "answer")])
           /\ Landed(c, a) => Takes(c, a, [stream[c][a] EXCEPT !.srv = "landed"])
           /\ Refuse(c, a) => Takes(c, a, [stream[c][a] EXCEPT !.srv = "ended", !.rep = Written(c, a, "refusal")])
           /\ TurnAway(c, a) => Takes(c, a, [stream[c][a] EXCEPT !.srv = "away"])
<1>1. stream \in Streams /\ stream[c][a] \in Stream
  BY DEF TypeOK, Streams
<1>2. ASSUME NEW x \in Serving, Serve(c, a, x) PROVE Takes(c, a, [stream[c][a] EXCEPT !.srv = x])
  <2>1. [stream[c][a] EXCEPT !.srv = x] \in Stream
    BY <1>1, OneField
  <2>2. stream' = [stream EXCEPT ![c][a] = [stream[c][a] EXCEPT !.srv = x]]
    BY <1>2 DEF Serve
  <2> QED
    BY <1>1, <2>1, <2>2, OneStream
<1>3. ASSUME NEW x \in Serving, NEW y \in Replied,
             stream' = [stream EXCEPT ![c][a].srv = x, ![c][a].rep = y]
      PROVE  Takes(c, a, [stream[c][a] EXCEPT !.srv = x, !.rep = y])
  <2>1. [stream[c][a] EXCEPT !.srv = x, !.rep = y] \in Stream
    BY <1>1, OneField
  <2>2. stream' = [stream EXCEPT ![c][a] = [stream[c][a] EXCEPT !.srv = x, !.rep = y]]
    BY <1>1, <1>3 DEF Streams, Stream
  <2> QED
    BY <1>1, <2>1, <2>2, OneStream
<1>4. \A y \in Replied : Written(c, a, y) \in Replied
  BY <1>1 DEF Written, Stream
<1> QED
  BY <1>2, <1>3, <1>4 DEF Accept, Run, ReadFails, EndUnread, Reply, AfterReply, Landed, Refuse,
     RefusalReply, TurnAway, Serving, Replied

LEMMA CallerTakes ==
    ASSUME TypeOK, NEW c \in Calls, tries[c] \in Attempts
    PROVE  /\ Send(c) => Takes(c, tries[c], [Mine(c) EXCEPT !.req = "whole"])
           /\ SendFails(c) => Takes(c, tries[c], [Mine(c) EXCEPT !.req = "reset"])
           /\ Read(c) \/ Lost(c) => Takes(c, tries[c], [Mine(c) EXCEPT !.rep = "over"])
           /\ Deadline(c) /\ pc[c] = "sending" =>
                 Takes(c, tries[c], [Mine(c) EXCEPT !.req = "reset", !.rep = "over"])
           /\ Deadline(c) /\ pc[c] = "sent" => Takes(c, tries[c], [Mine(c) EXCEPT !.rep = "over"])
<1> DEFINE a == tries[c]
           mine == stream[c][a]
<1>1. stream \in Streams /\ a \in Attempts /\ mine \in Stream
  BY DEF TypeOK, Streams
<1>2. /\ [mine EXCEPT !.req = "whole"] \in Stream /\ [mine EXCEPT !.req = "reset"] \in Stream
      /\ [mine EXCEPT !.rep = "over"] \in Stream
      /\ [mine EXCEPT !.req = "reset", !.rep = "over"] \in Stream
  BY <1>1, OneField DEF Requested, Replied
<1>3. /\ Send(c) => stream' = [stream EXCEPT ![c][a] = [mine EXCEPT !.req = "whole"]]
      /\ SendFails(c) => stream' = [stream EXCEPT ![c][a] = [mine EXCEPT !.req = "reset"]]
      /\ Read(c) \/ Lost(c) => stream' = [stream EXCEPT ![c][a] = [mine EXCEPT !.rep = "over"]]
  BY DEF Send, SendFails, Read, Lost, Mark
<1>4. /\ Deadline(c) /\ pc[c] = "sending" =>
            stream' = [stream EXCEPT ![c][a] = [mine EXCEPT !.req = "reset", !.rep = "over"]]
      /\ Deadline(c) /\ pc[c] = "sent" => stream' = [stream EXCEPT ![c][a] = [mine EXCEPT !.rep = "over"]]
  <2>1. Deadline(c) /\ pc[c] \in {"sending", "sent"} => stream' = [stream EXCEPT ![c][a] = Dropped(c)]
    BY DEF Deadline
  <2>2. /\ pc[c] = "sending" => Dropped(c) = [mine EXCEPT !.req = "reset", !.rep = "over"]
        /\ pc[c] = "sent" => Dropped(c) = [mine EXCEPT !.rep = "over"]
    BY <1>1 DEF Stream, Dropped, Mine
  <2> QED
    BY <2>1, <2>2
<1> HIDE DEF a, mine
<1>5. /\ Send(c) => Takes(c, a, [mine EXCEPT !.req = "whole"])
      /\ SendFails(c) => Takes(c, a, [mine EXCEPT !.req = "reset"])
      /\ Read(c) \/ Lost(c) => Takes(c, a, [mine EXCEPT !.rep = "over"])
      /\ Deadline(c) /\ pc[c] = "sending" =>
            Takes(c, a, [mine EXCEPT !.req = "reset", !.rep = "over"])
      /\ Deadline(c) /\ pc[c] = "sent" => Takes(c, a, [mine EXCEPT !.rep = "over"])
  BY <1>1, <1>2, <1>3, <1>4, OneStream
<1> QED
  BY <1>5 DEF a, mine, Mine

LEMMA OpenTakes ==
    ASSUME TypeOK, NEW c \in Calls, tries[c] + 1 \in Attempts, Open(c)
    PROVE  Takes(c, tries[c] + 1, [on |-> current, req |-> "part", srv |-> "queued", rep |-> "none"])
<1> DEFINE r == [on |-> current, req |-> "part", srv |-> "queued", rep |-> "none"]
<1>1. r \in Stream /\ stream \in Streams
  BY DEF TypeOK, Stream, Requested, Serving, Replied
<1>2. stream' = [stream EXCEPT ![c][tries[c] + 1] = r]
  BY DEF Open
<1> QED
  BY <1>1, <1>2, OneStream

(* The types every step keeps.                                                *)
LEMMA TypeStep == TypeOK /\ WireInv /\ [Next]_vars => TypeOK'
<1> SUFFICES ASSUME TypeOK, WireInv, [Next]_vars PROVE TypeOK'
  OBVIOUS
<1> USE DEF client, Goto
<1>1. ASSUME NEW c \in Calls, Submit(c) \/ Reconnect(c) \/ ReconnectFails(c) PROVE TypeOK'
  <2>1. UNCHANGED <<tries, stream, runs, answer>>
    BY <1>1 DEF Submit, Reconnect, ReconnectFails
  <2>2. pc' \in [Calls -> {"new", "redial", "open", "sending", "sent", "heal", "done"}]
    BY <1>1 DEF TypeOK, Submit, Reconnect, ReconnectFails
  <2>3. current' \in 1..Links /\ link' \in [1..Links -> {"unborn", "live", "aged", "closed", "dead"}]
    <3>1. CASE Reconnect(c)
      BY <3>1 DEF TypeOK, Reconnect
    <3>2. CASE Submit(c) \/ ReconnectFails(c)
      BY <3>2 DEF TypeOK, Submit, ReconnectFails
    <3> QED
      BY <1>1, <3>1, <3>2
  <2>4. stale' \in BOOLEAN /\ suspect' \in BOOLEAN
    BY <1>1 DEF TypeOK, Submit, Reconnect, ReconnectFails, RemarkStale
  <2> QED
    BY <2>1, <2>2, <2>3, <2>4 DEF TypeOK
<1>2. ASSUME NEW c \in Calls, Open(c) PROVE TypeOK'
  <2>1. tries[c] \in 0..1
    BY <1>2 DEF Open, WireInv, TriesInv, TypeOK
  <2>2. Takes(c, tries[c] + 1, [on |-> current, req |-> "part", srv |-> "queued", rep |-> "none"])
    BY <1>2, <2>1, OpenTakes DEF Attempts
  <2> QED
    BY <1>2, <2>1, <2>2 DEF Open, TypeOK, Takes
<1>3. ASSUME NEW c \in Calls, Send(c) \/ SendFails(c) \/ Read(c) \/ Lost(c) PROVE TypeOK'
  <2>1. tries[c] \in Attempts
    BY <1>3 DEF Send, SendFails, Read, Lost, WireInv, TriesInv, TypeOK, Attempts
  <2>2. stream' \in Streams
    BY <1>3, <2>1, CallerTakes DEF Takes
  <2>3. pc' \in [Calls -> {"new", "redial", "open", "sending", "sent", "heal", "done"}]
    BY <1>3 DEF TypeOK, Send, SendFails, Read, Lost
  <2>4. answer' \in [Calls -> Calls \cup {NoCall, Refused}]
    BY <1>3 DEF TypeOK, Send, SendFails, Read, Lost
  <2>5. UNCHANGED <<tries, runs, current, stale, suspect, link>>
    BY <1>3 DEF Send, SendFails, Read, Lost
  <2> QED
    BY <2>2, <2>3, <2>4, <2>5 DEF TypeOK
<1>4. ASSUME NEW c \in Calls, Deadline(c) PROVE TypeOK'
  <2>1. stream' \in Streams /\ suspect' \in BOOLEAN
    <3>1. CASE pc[c] \in {"sending", "sent"}
      <4>1. tries[c] \in Attempts
        BY <3>1 DEF WireInv, TriesInv, TypeOK, Attempts
      <4>2. stream' \in Streams
        BY <1>4, <3>1, <4>1, CallerTakes DEF Takes
      <4>3. suspect' \in BOOLEAN
        BY <1>4, <3>1 DEF Deadline, TypeOK
      <4> QED
        BY <4>2, <4>3
    <3>2. CASE pc[c] \notin {"sending", "sent"}
      BY <1>4, <3>2 DEF Deadline, TypeOK
    <3> QED
      BY <3>1, <3>2
  <2>2. pc' \in [Calls -> {"new", "redial", "open", "sending", "sent", "heal", "done"}]
    BY <1>4 DEF TypeOK, Deadline
  <2>3. stale' \in BOOLEAN /\ UNCHANGED <<tries, runs, answer, current, link>>
    BY <1>4 DEF Deadline
  <2> QED
    BY <2>1, <2>2, <2>3 DEF TypeOK
<1>5. ASSUME NEW c \in Calls, NEW a \in Attempts, Served(c, a) PROVE TypeOK'
  <2>1. stream' \in Streams
    BY <1>5, DoorTakes DEF Served, Takes
  <2>2. runs' \in [Calls -> 0..2]
    <3>1. CASE Run(c, a)
      <4>1. stream[c][1].srv = "reading" \/ stream[c][2].srv = "reading"
        BY <3>1 DEF Run, Attempts
      <4>2. ~Past(c, 1) \/ ~Past(c, 2)
        BY <4>1 DEF Past
      <4>3. runs[c] <= 1
        BY <4>2, SMTT(30) DEF WireInv, RunInv, Count, TypeOK
      <4> QED
        BY <3>1, <4>3 DEF Run, TypeOK
    <3>2. CASE ~Run(c, a)
      BY <1>5, <3>2 DEF Served, Accept, ReadFails, Reply, Landed, Refuse, TurnAway, TypeOK
    <3> QED
      BY <3>1, <3>2
  <2>3. UNCHANGED <<client, link>>
    BY <1>5 DEF Served, Accept, Run, ReadFails, Reply, Landed, Refuse, TurnAway
  <2> QED
    BY <2>1, <2>2, <2>3 DEF TypeOK
<1>6. ASSUME NEW k \in 1..Links, Age(k) \/ CloseAged(k) \/ Break(k) PROVE TypeOK'
  <2>1. link' \in [1..Links -> {"unborn", "live", "aged", "closed", "dead"}]
    BY <1>6 DEF Age, CloseAged, Break, TypeOK
  <2> QED
    BY <1>6, <2>1 DEF Age, CloseAged, Break, TypeOK
<1>7. CASE UNCHANGED vars
  BY <1>7 DEF vars, TypeOK
<1> QED
  BY <1>1, <1>2, <1>3, <1>4, <1>5, <1>6, <1>7 DEF Next, Round

(* What concerns one call alone.                                              *)
CallInv(c) == TriesInv(c) /\ RunInv(c) /\ RefusedInv(c)

LEMMA OtherCall ==
    ASSUME NEW d \in Calls, CallInv(d), TypeOK,
           pc'[d] = pc[d], tries'[d] = tries[d], runs'[d] = runs[d], answer'[d] = answer[d],
           \A b \in Attempts : stream'[d][b] = stream[d][b]
    PROVE  CallInv(d)'
<1>1. TriesInv(d)'
  BY DEF CallInv, TriesInv, Mine, TypeOK, Attempts
<1>2. RunInv(d)'
  BY DEF CallInv, RunInv, Count, Past, Attempts
<1>3. RefusedInv(d)'
  BY DEF CallInv, RefusedInv
<1> QED
  BY <1>1, <1>2, <1>3 DEF CallInv

LEMMA SameCount ==
    ASSUME TypeOK, NEW c \in Calls, RunInv(c), NEW a \in Attempts, runs'[c] = runs[c],
           \A b \in Attempts : b # a => stream'[c][b] = stream[c][b], Past(c, a) => Past(c, a)'
    PROVE  runs'[c] <= Count(c, 1)' + Count(c, 2)'
<1>1. \A b \in Attempts : b # a => Count(c, b)' = Count(c, b)
  BY DEF Count, Past
<1>2. Count(c, a)' \in {0, 1} /\ Count(c, a) \in {0, 1} /\ Count(c, a) <= Count(c, a)'
  BY DEF Count
<1>3. runs[c] \in Nat /\ runs[c] <= Count(c, 1) + Count(c, 2)
  BY DEF TypeOK, RunInv
<1>4. \A b \in Attempts : Count(c, b) \in {0, 1} /\ Count(c, b)' \in {0, 1}
  BY DEF Count
<1>5. CASE a = 1
  BY <1>1, <1>2, <1>3, <1>4, <1>5 DEF Attempts
<1>6. CASE a = 2
  BY <1>1, <1>2, <1>3, <1>4, <1>6 DEF Attempts
<1> QED
  BY <1>5, <1>6 DEF Attempts

(* The steps of a caller before it has a stream.                              *)
LEMMA DialStep ==
    ASSUME TypeOK, NEW c \in Calls, CallInv(c), Submit(c) \/ Reconnect(c) \/ ReconnectFails(c)
    PROVE  CallInv(c)'
<1>1. UNCHANGED <<tries, stream, runs, answer>> /\ pc' = [pc EXCEPT ![c] = pc'[c]]
  BY DEF Submit, Reconnect, ReconnectFails, Goto, TypeOK
<1>2. /\ pc[c] \in {"new", "redial", "heal"} /\ pc'[c] \in {"redial", "open", "done"}
      /\ pc'[c] = "redial" => pc[c] = "new"
  BY DEF Submit, Reconnect, ReconnectFails, Goto, TypeOK
<1>3. TriesInv(c)'
  BY <1>1, <1>2 DEF CallInv, TriesInv, TypeOK
<1>4. RunInv(c)'
  BY <1>1, <1>2 DEF CallInv, TriesInv, RunInv, Count, Past, TypeOK
<1>5. RefusedInv(c)'
  BY <1>1 DEF CallInv, RefusedInv
<1> QED
  BY <1>3, <1>4, <1>5 DEF CallInv

LEMMA OpenStep ==
    ASSUME TypeOK, NEW c \in Calls, CallInv(c), Open(c)
    PROVE  CallInv(c)'
<1> DEFINE a == tries[c] + 1
           r == [on |-> current, req |-> "part", srv |-> "queued", rep |-> "none"]
<1>1. a \in Attempts /\ tries[c] \in 0..1 /\ pc[c] = "open"
  BY DEF Open, CallInv, TriesInv, TypeOK, Attempts
<1>2. /\ stream'[c][a] = r
      /\ \A b \in Attempts : b # a => stream'[c][b] = stream[c][b]
  BY <1>1, OpenTakes DEF Takes
<1>3. pc'[c] = "sending" /\ tries'[c] = a /\ UNCHANGED <<runs, answer>>
  BY DEF Open, Goto, TypeOK
<1>4. stream[c][a] = NoStream
  BY <1>1 DEF CallInv, TriesInv
<1>5. TriesInv(c)'
  BY <1>1, <1>2, <1>3 DEF CallInv, TriesInv, Mine, Attempts
<1>6. RunInv(c)'
  BY <1>1, <1>2, <1>3, <1>4 DEF CallInv, RunInv, Count, Past, NoStream, Attempts
<1>7. RefusedInv(c)'
  BY <1>1, <1>3 DEF CallInv, TriesInv, RefusedInv
<1> QED
  BY <1>5, <1>6, <1>7 DEF CallInv

(* The steps of a caller whose request is on the wire.                        *)
LEMMA WriteStep ==
    ASSUME TypeOK, NEW c \in Calls, CallInv(c), Send(c) \/ SendFails(c)
    PROVE  CallInv(c)'
<1> DEFINE a == tries[c]
<1>1. a \in Attempts /\ pc[c] = "sending" /\ stream[c][a].req = "part" /\ stream[c][a] \in Stream
  BY Attempted DEF Send, SendFails, CallInv, TriesInv, Mine, TypeOK, Attempts
<1>2. PICK x \in {"whole", "reset"} :
        /\ stream'[c][a] = [stream[c][a] EXCEPT !.req = x]
        /\ \A b \in Attempts : b # a => stream'[c][b] = stream[c][b]
        /\ pc'[c] = IF x = "whole" THEN "sent" ELSE IF a = 1 THEN "heal" ELSE "done"
  <2>1. CASE Send(c)
    <3>1. stream'[c][a] = [stream[c][a] EXCEPT !.req = "whole"] /\ pc'[c] = "sent"
      BY <1>1, <2>1, CallerTakes DEF Takes, Send, Goto, TypeOK, Mine
    <3>2. \A b \in Attempts : b # a => stream'[c][b] = stream[c][b]
      <4>1. Takes(c, a, [stream[c][a] EXCEPT !.req = "whole"])
        BY <1>1, <2>1, CallerTakes DEF Mine
      <4> QED
        BY <4>1 DEF Takes
    <3> QED
      BY <3>1, <3>2
  <2>2. CASE SendFails(c)
    <3>1. /\ stream'[c][a] = [stream[c][a] EXCEPT !.req = "reset"]
          /\ pc'[c] = IF a = 1 THEN "heal" ELSE "done"
      BY <1>1, <2>2, CallerTakes DEF Takes, SendFails, Goto, TypeOK, Mine
    <3>2. \A b \in Attempts : b # a => stream'[c][b] = stream[c][b]
      <4>1. Takes(c, a, [stream[c][a] EXCEPT !.req = "reset"])
        BY <1>1, <2>2, CallerTakes DEF Mine
      <4> QED
        BY <4>1 DEF Takes
    <3> QED
      BY <3>1, <3>2
  <2> QED
    BY <2>1, <2>2
<1>3. UNCHANGED <<tries, runs, answer>>
  BY DEF Send, SendFails
<1>4. /\ stream'[c][a].req = x /\ stream'[c][a].srv = stream[c][a].srv
      /\ stream'[c][a].rep = stream[c][a].rep
  BY <1>1, <1>2 DEF Stream
<1>5. TriesInv(c)'
  BY <1>1, <1>2, <1>3 DEF CallInv, TriesInv, TypeOK, Attempts
<1>6. RunInv(c)'
  <2>1. ~Past(c, a)
    BY <1>1 DEF Past
  <2>2. runs'[c] <= Count(c, 1)' + Count(c, 2)'
    BY <1>1, <1>2, <1>3, <2>1, SameCount DEF CallInv
  <2>3. \A b \in Attempts :
          /\ stream'[c][b].srv = "running" \/ stream'[c][b].rep = "answer" => runs'[c] > 0
          /\ stream'[c][b].rep = "refusal" => stream'[c][b].srv = "ended"
    BY <1>2, <1>3, <1>4 DEF CallInv, RunInv
  <2>4. c \in Mutating /\ (tries'[c] = 2 \/ (tries'[c] = 1 /\ pc'[c] \in {"heal", "open"})) =>
          stream'[c][1].req = "reset"
    BY <1>1, <1>2, <1>3, <1>4 DEF CallInv, RunInv, Attempts
  <2> QED
    BY <2>2, <2>3, <2>4 DEF RunInv
<1>7. RefusedInv(c)'
  BY <1>1, <1>3 DEF CallInv, TriesInv, RefusedInv
<1> QED
  BY <1>5, <1>6, <1>7 DEF CallInv

LEMMA ReadStep ==
    ASSUME TypeOK, NEW c \in Calls, CallInv(c), Read(c) \/ Lost(c)
    PROVE  CallInv(c)'
<1> DEFINE a == tries[c]
<1>1. a \in Attempts /\ pc[c] = "sent" /\ stream[c][a] \in Stream /\ answer[c] = NoCall
  BY Attempted DEF Read, Lost, CallInv, TriesInv, Mine, TypeOK, Attempts
<1>2. /\ stream'[c][a] = [stream[c][a] EXCEPT !.rep = "over"]
      /\ \A b \in Attempts : b # a => stream'[c][b] = stream[c][b]
      /\ pc'[c] = "done" \/ (pc'[c] = "heal" /\ a = 1 /\ c \notin Mutating /\ Lost(c))
  <2>1. pc'[c] = "done" \/ (pc'[c] = "heal" /\ a = 1 /\ c \notin Mutating /\ Lost(c))
    BY DEF Read, Lost, Goto, TypeOK, Replays, ReplayMayFollow
  <2>2. Takes(c, a, [stream[c][a] EXCEPT !.rep = "over"])
    BY <1>1, CallerTakes DEF Mine
  <2> QED
    BY <2>1, <2>2 DEF Takes
<1>3. UNCHANGED <<tries, runs>>
  BY DEF Read, Lost
<1>4. /\ stream'[c][a].req = stream[c][a].req /\ stream'[c][a].srv = stream[c][a].srv
      /\ stream'[c][a].rep = "over"
  BY <1>1, <1>2 DEF Stream
<1>5. TriesInv(c)'
  <2>1. pc'[c] = "heal" => answer'[c] = NoCall
    BY <1>1, <1>2 DEF Read, Lost, Goto, TypeOK
  <2> QED
    BY <1>1, <1>2, <1>3, <2>1 DEF CallInv, TriesInv, TypeOK, Attempts
<1>6. RunInv(c)'
  <2>1. runs'[c] <= Count(c, 1)' + Count(c, 2)'
    <3>1. Past(c, a) => Past(c, a)'
      BY <1>3, <1>4 DEF Past
    <3> QED
      BY <1>1, <1>2, <1>3, <3>1, SameCount DEF CallInv
  <2>2. \A b \in Attempts :
          /\ stream'[c][b].srv = "running" \/ stream'[c][b].rep = "answer" => runs'[c] > 0
          /\ stream'[c][b].rep = "refusal" => stream'[c][b].srv = "ended"
    BY <1>2, <1>3, <1>4 DEF CallInv, RunInv
  <2>3. c \in Mutating /\ (tries'[c] = 2 \/ (tries'[c] = 1 /\ pc'[c] \in {"heal", "open"})) =>
          stream'[c][1].req = "reset"
    BY <1>1, <1>2, <1>3, <1>4 DEF CallInv, RunInv, Attempts
  <2> QED
    BY <2>1, <2>2, <2>3 DEF RunInv
<1>7. RefusedInv(c)'
  <2> SUFFICES ASSUME c \in Mutating, answer'[c] = Refused
               PROVE  /\ runs'[c] = 0
                      /\ \A b \in Attempts :
                            stream'[c][b].req = "whole" => stream'[c][b].srv \notin {"queued", "reading"}
    BY DEF RefusedInv
  <2>1. Read(c) /\ stream[c][a].rep = "refusal"
    BY <1>1 DEF Read, Lost, Mine, TypeOK
  <2>2. ~Past(c, a) /\ stream[c][a].srv = "ended"
    BY <1>1, <2>1 DEF CallInv, RunInv, Past
  <2>3. \A b \in Attempts : b # a => stream[c][b].req # "whole"
    BY <1>1 DEF CallInv, RunInv, TriesInv, NoStream, Attempts
  <2>4. runs[c] = 0
    BY <1>1, <2>2, <2>3 DEF CallInv, RunInv, Count, Past, Attempts, TypeOK
  <2> QED
    BY <1>2, <1>3, <1>4, <2>2, <2>3, <2>4
<1> QED
  BY <1>5, <1>6, <1>7 DEF CallInv

LEMMA DeadlineStep ==
    ASSUME TypeOK, NEW c \in Calls, CallInv(c), Deadline(c)
    PROVE  CallInv(c)'
<1> DEFINE a == tries[c]
<1>1. pc'[c] = "done" /\ UNCHANGED <<tries, runs, answer>> /\ answer[c] = NoCall
  BY DEF Deadline, Goto, TypeOK, CallInv, TriesInv
<1>2. CASE pc[c] \notin {"sending", "sent"}
  <2>1. UNCHANGED stream
    BY <1>2 DEF Deadline
  <2>2. TriesInv(c)' /\ RefusedInv(c)'
    BY <1>1, <2>1 DEF CallInv, TriesInv, RefusedInv
  <2>3. RunInv(c)'
    BY <1>1, <2>1 DEF CallInv, RunInv, Count, Past
  <2> QED
    BY <2>2, <2>3 DEF CallInv
<1>3. CASE pc[c] \in {"sending", "sent"}
  <2>1. a \in Attempts /\ stream[c][a] \in Stream
    BY <1>3, Attempted DEF CallInv, TriesInv, TypeOK, Attempts
  <2>2. /\ stream'[c][a] = IF pc[c] = "sending" THEN [stream[c][a] EXCEPT !.req = "reset", !.rep = "over"]
                           ELSE [stream[c][a] EXCEPT !.rep = "over"]
        /\ \A b \in Attempts : b # a => stream'[c][b] = stream[c][b]
    <3>1. CASE pc[c] = "sending"
      <4>1. Takes(c, a, [stream[c][a] EXCEPT !.req = "reset", !.rep = "over"])
        BY <2>1, <3>1, CallerTakes DEF Mine
      <4> QED
        BY <3>1, <4>1 DEF Takes
    <3>2. CASE pc[c] = "sent"
      <4>1. Takes(c, a, [stream[c][a] EXCEPT !.rep = "over"])
        BY <2>1, <3>2, CallerTakes DEF Mine
      <4> QED
        BY <3>2, <4>1 DEF Takes
    <3> QED
      BY <1>3, <3>1, <3>2
  <2>3. /\ stream'[c][a].srv = stream[c][a].srv /\ stream'[c][a].rep = "over"
        /\ stream'[c][a].req = IF pc[c] = "sending" THEN "reset" ELSE stream[c][a].req
        /\ pc[c] = "sending" => stream[c][a].req = "part"
    BY <2>1, <2>2 DEF Stream, CallInv, TriesInv, Mine
  <2>4. TriesInv(c)'
    BY <1>1, <2>1, <2>2 DEF CallInv, TriesInv, TypeOK, Attempts
  <2>5. RunInv(c)'
    <3>1. runs'[c] <= Count(c, 1)' + Count(c, 2)'
      <4>1. Past(c, a) => Past(c, a)'
        BY <1>1, <2>3 DEF Past
      <4> QED
        BY <1>1, <2>1, <2>2, <4>1, SameCount DEF CallInv
    <3>2. \A b \in Attempts :
            /\ stream'[c][b].srv = "running" \/ stream'[c][b].rep = "answer" => runs'[c] > 0
            /\ stream'[c][b].rep = "refusal" => stream'[c][b].srv = "ended"
      BY <1>1, <2>2, <2>3 DEF CallInv, RunInv
    <3>3. c \in Mutating /\ (tries'[c] = 2 \/ (tries'[c] = 1 /\ pc'[c] \in {"heal", "open"})) =>
            stream'[c][1].req = "reset"
      BY <1>1, <2>1, <2>2, <2>3 DEF CallInv, RunInv, Attempts
    <3> QED
      BY <3>1, <3>2, <3>3 DEF RunInv
  <2>6. RefusedInv(c)'
    BY <1>1 DEF RefusedInv
  <2> QED
    BY <2>4, <2>5, <2>6 DEF CallInv
<1> QED
  BY <1>2, <1>3

(* The steps of the door.                                                     *)
LEMMA ServedStep ==
    ASSUME TypeOK, NEW c \in Calls, CallInv(c), NEW a \in Attempts, Served(c, a)
    PROVE  CallInv(c)'
<1>1. UNCHANGED <<pc, tries, answer>> /\ stream[c][a] \in Stream
  BY Attempted DEF Served, Accept, Run, ReadFails, Reply, Landed, Refuse, TurnAway, client
<1>2. PICK x \in Serving, y \in Replied :
        /\ stream'[c][a] = [stream[c][a] EXCEPT !.srv = x, !.rep = y]
        /\ \A b \in Attempts : b # a => stream'[c][b] = stream[c][b]
        /\ \/ Run(c, a) /\ x = "running" /\ y = stream[c][a].rep
           \/ /\ Reply(c, a) /\ x \in {"landing", "ended"}
              /\ y = Written(c, a, "answer")
           \/ Refuse(c, a) /\ x = "ended" /\ y = Written(c, a, "refusal")
           \/ Accept(c, a) /\ x \in {"reading", "refusing"} /\ y = stream[c][a].rep
           \/ ReadFails(c, a) /\ x = "ended" /\ y = stream[c][a].rep
           \/ Landed(c, a) /\ x = "landed" /\ y = stream[c][a].rep
           \/ TurnAway(c, a) /\ x = "away" /\ y = stream[c][a].rep
  <2>1. \A x \in Serving : [stream[c][a] EXCEPT !.srv = x] = [stream[c][a] EXCEPT !.srv = x, !.rep = stream[c][a].rep]
    BY <1>1 DEF Stream
  <2>2. stream[c][a].rep \in Replied /\ Written(c, a, "answer") \in Replied /\ Written(c, a, "refusal") \in Replied
    BY <1>1 DEF Stream, Written, Replied
  <2>3. \A x \in Serving, y \in Replied :
          Takes(c, a, [stream[c][a] EXCEPT !.srv = x, !.rep = y]) =>
              /\ stream'[c][a] = [stream[c][a] EXCEPT !.srv = x, !.rep = y]
              /\ \A b \in Attempts : b # a => stream'[c][b] = stream[c][b]
    BY DEF Takes
  <2>4. CASE Reply(c, a) \/ Refuse(c, a)
    BY <2>2, <2>3, <2>4, DoorTakes DEF Serving
  <2>5. CASE ~(Reply(c, a) \/ Refuse(c, a))
    <3>1. PICK x \in Serving :
            /\ Takes(c, a, [stream[c][a] EXCEPT !.srv = x])
            /\ \/ Run(c, a) /\ x = "running"
               \/ Accept(c, a) /\ x \in {"reading", "refusing"}
               \/ ReadFails(c, a) /\ x = "ended"
               \/ Landed(c, a) /\ x = "landed"
               \/ TurnAway(c, a) /\ x = "away"
      BY <2>5, DoorTakes DEF Served, Serving
    <3>2. Takes(c, a, [stream[c][a] EXCEPT !.srv = x, !.rep = stream[c][a].rep])
      BY <2>1, <3>1
    <3> QED
      BY <2>2, <2>3, <3>1, <3>2
  <2> QED
    BY <2>4, <2>5
<1>3. /\ stream'[c][a].req = stream[c][a].req /\ stream'[c][a].srv = x /\ stream'[c][a].rep = y
  BY <1>1, <1>2 DEF Stream
<1>4. stream[c][a] # NoStream /\ a <= tries[c]
  <2>1. stream[c][a].srv # "none"
    BY DEF Served, Accept, Run, ReadFails, Reply, Landed, Refuse, TurnAway
  <2> QED
    BY <2>1 DEF NoStream, CallInv, TriesInv, TypeOK, Attempts
<1>5. TriesInv(c)'
  <2>1. pc[c] = "sending" => Mine(c)'.req = Mine(c).req
    <3>1. pc[c] = "sending" => tries[c] \in Attempts
      BY DEF CallInv, TriesInv, TypeOK, Attempts
    <3>2. \A b \in Attempts : stream'[c][b].req = stream[c][b].req
      BY <1>2, <1>3
    <3> QED
      BY <1>1, <3>1, <3>2 DEF Mine
  <2>2. \A b \in Attempts : b > tries[c] => stream'[c][b] = stream[c][b]
    BY <1>2, <1>4 DEF TypeOK, Attempts
  <2> QED
    BY <1>1, <2>1, <2>2 DEF CallInv, TriesInv
<1>6. RunInv(c)'
  <2>1. runs'[c] = IF Run(c, a) THEN runs[c] + 1 ELSE runs[c]
    BY DEF Served, Accept, Run, ReadFails, Reply, Landed, Refuse, TurnAway, TypeOK
  <2>2. runs[c] \in Nat
    BY DEF TypeOK
  <2>3. Past(c, a) => Past(c, a)' /\ ~Run(c, a)
    BY <1>2, <1>3 DEF Past, Run, Reply, Refuse, Accept, ReadFails, Landed, TurnAway, Written
  <2>4. Run(c, a) => Past(c, a)'
    BY <1>2, <1>3 DEF Past, Run, CallInv, RunInv, Refuse, Reply, Accept, ReadFails, Landed, TurnAway
  <2>5. \A b \in Attempts : b # a => Count(c, b)' = Count(c, b)
    BY <1>2 DEF Count, Past
  <2>6. Count(c, a)' = IF Run(c, a) THEN Count(c, a) + 1 ELSE IF Past(c, a)' THEN 1 ELSE 0
    BY <2>3, <2>4 DEF Count
  <2>7. runs'[c] <= Count(c, 1)' + Count(c, 2)'
    BY <2>1, <2>2, <2>3, <2>5, <2>6 DEF CallInv, RunInv, Count, Attempts
  <2>8. \A b \in Attempts :
          /\ stream'[c][b].srv = "running" \/ stream'[c][b].rep = "answer" => runs'[c] > 0
          /\ stream'[c][b].rep = "refusal" => stream'[c][b].srv = "ended"
    <3>1. ASSUME NEW b \in Attempts, b # a
          PROVE  /\ stream'[c][b].srv = "running" \/ stream'[c][b].rep = "answer" => runs'[c] > 0
                 /\ stream'[c][b].rep = "refusal" => stream'[c][b].srv = "ended"
      BY <1>2, <2>1, <2>2, <3>1 DEF CallInv, RunInv
    <3>2. stream'[c][a].srv = "running" \/ stream'[c][a].rep = "answer" => runs'[c] > 0
      BY <1>2, <1>3, <2>1, <2>2 DEF CallInv, RunInv, Written, Reply, Run
    <3>3. stream'[c][a].rep = "refusal" => stream'[c][a].srv = "ended"
      BY <1>2, <1>3 DEF CallInv, RunInv, Written, Reply, Run, Accept, ReadFails, Landed, TurnAway
    <3> QED
      BY <3>1, <3>2, <3>3
  <2>9. c \in Mutating /\ (tries'[c] = 2 \/ (tries'[c] = 1 /\ pc'[c] \in {"heal", "open"})) =>
          stream'[c][1].req = "reset"
    BY <1>1, <1>2, <1>3 DEF CallInv, RunInv, Attempts
  <2> QED
    BY <2>7, <2>8, <2>9 DEF RunInv
<1>7. RefusedInv(c)'
  <2> SUFFICES ASSUME c \in Mutating, answer[c] = Refused
               PROVE  /\ runs'[c] = 0
                      /\ \A b \in Attempts :
                            stream'[c][b].req = "whole" => stream'[c][b].srv \notin {"queued", "reading"}
    BY <1>1 DEF RefusedInv
  <2>1. /\ runs[c] = 0
        /\ \A b \in Attempts : stream[c][b].req = "whole" => stream[c][b].srv \notin {"queued", "reading"}
    BY DEF CallInv, RefusedInv
  <2>2. ~Run(c, a) /\ runs' = runs
    BY <2>1 DEF Served, Accept, Run, ReadFails, Reply, Landed, Refuse, TurnAway
  <2>3. stream'[c][a].req = "whole" => stream'[c][a].srv \notin {"queued", "reading"}
    BY <1>2, <1>3, <2>1, <2>2 DEF Accept
  <2> QED
    BY <1>2, <2>1, <2>2, <2>3
<1> QED
  BY <1>5, <1>6, <1>7 DEF CallInv

(* No step of one call touches another.                                       *)
LEMMA OneCall ==
    ASSUME TypeOK, WireInv, NEW c \in Calls, NEW d \in Calls, d # c,
           Submit(c) \/ Round(c) \/ \E a \in Attempts : Served(c, a)
    PROVE  CallInv(d)'
<1>1. pc'[d] = pc[d] /\ tries'[d] = tries[d] /\ runs'[d] = runs[d] /\ answer'[d] = answer[d]
  BY ZenonT(30) DEF TypeOK, Submit, Round, Reconnect, ReconnectFails, Open, Send, SendFails, Read, Lost, Deadline,
     Served, Accept, Run, ReadFails, Reply, Landed, Refuse, TurnAway, Goto, client
<1>2. \A b \in Attempts : stream'[d][b] = stream[d][b]
  <2>1. CASE Submit(c) \/ Reconnect(c) \/ ReconnectFails(c)
    BY <2>1 DEF Submit, Reconnect, ReconnectFails
  <2>2. CASE Open(c) \/ Send(c) \/ SendFails(c) \/ Read(c) \/ Lost(c) \/ Deadline(c)
    BY <2>2 DEF TypeOK, Streams, Open, Send, SendFails, Read, Lost, Deadline, Mark
  <2>3. CASE \E a \in Attempts : Served(c, a)
    <3>1. PICK a \in Attempts : Served(c, a)
      BY <2>3
    <3>2. \E r : Takes(c, a, r)
      BY <3>1, DoorTakes DEF Served
    <3> QED
      BY <3>2 DEF Takes
  <2> QED
    BY <2>1, <2>2, <2>3 DEF Round
<1>3. CallInv(d)
  BY DEF WireInv, CallInv
<1> QED
  BY <1>1, <1>2, <1>3, OtherCall

(* Every step keeps what each call rests on.                                  *)
LEMMA WireStep == TypeOK /\ WireInv /\ [Next]_vars => WireInv'
<1> SUFFICES ASSUME TypeOK, WireInv, [Next]_vars, NEW d \in Calls PROVE CallInv(d)'
  BY DEF WireInv, CallInv
<1>1. \A c \in Calls : CallInv(c)
  BY DEF WireInv, CallInv
<1>2. ASSUME NEW c \in Calls, Submit(c) \/ Round(c) \/ \E a \in Attempts : Served(c, a)
      PROVE  CallInv(d)'
  <2>1. CASE d = c
    BY <1>1, <1>2, <2>1, DialStep, OpenStep, WriteStep, ReadStep, DeadlineStep, ServedStep DEF Round
  <2>2. CASE d # c
    BY <1>2, <2>2, OneCall
  <2> QED
    BY <2>1, <2>2
<1>3. CASE (\E k \in 1..Links : Age(k) \/ CloseAged(k) \/ Break(k)) \/ UNCHANGED vars
  BY <1>1, <1>3, OtherCall DEF Age, CloseAged, Break, client, vars
<1> QED
  BY <1>2, <1>3 DEF Next

(* Types and invariant, of every behaviour.                                   *)
THEOREM WireInvariant == Spec => [](TypeOK /\ WireInv)
<1>1. Init => TypeOK /\ WireInv
  BY StartsWell
<1>2. TypeOK /\ WireInv /\ [Next]_vars => TypeOK' /\ WireInv'
  BY TypeStep, WireStep
<1> QED
  BY <1>1, <1>2, PTL DEF Spec

(* "the call was not run, retry it": what was refused has not run.            *)
THEOREM RefusedNeverRan == Spec => []RefusalMeansUnrun
<1>1. WireInv => RefusalMeansUnrun
  BY QuicAssumption DEF WireInv, RefusedInv, RefusalMeansUnrun
<1> QED
  BY <1>1, WireInvariant, PTL

-----------------------------------------------------------------------------
(* The transport implements the promise that its callers read.                *)

(* How a call looks from outside: its phase, and the reply it was handed.     *)
Phases == [c \in Calls |-> Phase(c)]
Told == [c \in Calls |-> IF answer[c] = Refused THEN NoCall ELSE answer[c]]

LEMMA PromiseStart == Init => Promise!Init
BY DEF Init, Promise!Init, Phase

(* What moves in a step of one call, seen from outside.                       *)
LEMMA PromiseStep == TypeOK /\ WireInv /\ [Next]_vars => [Promise!Next]_(Promise!pvars)
<1> SUFFICES ASSUME TypeOK, WireInv, [Next]_vars PROVE [Promise!Next]_(Promise!pvars)
  OBVIOUS
<1>0. /\ Promise!pvars = <<Phases, runs, Told>> /\ Promise!pvars' = <<Phases', runs', Told'>>
  BY DEF Promise!pvars, Phases, Told
<1>1. ASSUME NEW c \in Calls, pc' = [pc EXCEPT ![c] = pc'[c]], UNCHANGED <<runs, answer>>
      PROVE  Phases' = [Phases EXCEPT ![c] = Phase(c)'] /\ Told' = Told
  <2>1. \A d \in Calls : d # c => Phase(d)' = Phase(d)
    BY <1>1 DEF Phase, TypeOK
  <2>2. Phases' = [d \in Calls |-> IF d = c THEN Phase(c)' ELSE Phase(d)]
    BY <2>1 DEF Phases
  <2>3. Told' = Told
    BY <1>1 DEF Told
  <2> QED
    BY <2>2, <2>3 DEF Phases
<1>2. ASSUME NEW c \in Calls, Submit(c) PROVE Promise!Submit(c)
  <2>1. /\ pc[c] = "new" /\ pc'[c] \in {"redial", "open"} /\ pc' = [pc EXCEPT ![c] = pc'[c]]
        /\ UNCHANGED <<runs, answer>>
    BY <1>2 DEF Submit, Goto, TypeOK
  <2>2. Phases' = [Phases EXCEPT ![c] = "open"] /\ Told' = Told
    BY <1>1, <2>1 DEF Phase
  <2>3. Phases[c] = "new"
    BY <2>1 DEF Phases, Phase
  <2> QED
    BY <2>1, <2>2, <2>3 DEF Promise!Submit, Phases, Told
<1>3. ASSUME NEW c \in Calls, pc[c] \notin {"new", "done"}, pc'[c] # "new",
             pc' = [pc EXCEPT ![c] = pc'[c]], UNCHANGED <<runs, answer>>
      PROVE  Promise!Fail(c) \/ UNCHANGED Promise!pvars
  <2>1. Phases[c] = "open" /\ Phases' = [Phases EXCEPT ![c] = Phase(c)'] /\ Told' = Told
    BY <1>1, <1>3 DEF Phases, Phase
  <2>2. CASE pc'[c] = "done"
    <3>1. Phases' = [Phases EXCEPT ![c] = "done"]
      BY <2>1, <2>2 DEF Phase
    <3> QED
      BY <1>3, <2>1, <3>1 DEF Promise!Fail, Phases, Told
  <2>3. CASE pc'[c] # "done"
    <3>1. Phases' = Phases
      BY <1>3, <2>1, <2>3 DEF Phase, Phases
    <3> QED
      BY <1>0, <1>3, <2>1, <3>1
  <2> QED
    BY <2>2, <2>3
<1>4. ASSUME NEW c \in Calls, Round(c), ~Read(c) PROVE Promise!Fail(c) \/ UNCHANGED Promise!pvars
  <2>1. /\ pc[c] \notin {"new", "done"} /\ pc'[c] # "new" /\ pc' = [pc EXCEPT ![c] = pc'[c]]
        /\ UNCHANGED <<runs, answer>>
    BY <1>4 DEF Round, Reconnect, ReconnectFails, Open, Send, SendFails, Lost, Deadline, Goto, TypeOK
  <2> QED
    BY <1>3, <2>1
<1>5. ASSUME NEW c \in Calls, Read(c) PROVE Promise!Answer(c) \/ Promise!Fail(c)
  <2>1. /\ pc[c] = "sent" /\ pc' = [pc EXCEPT ![c] = "done"] /\ UNCHANGED runs
        /\ answer[c] = NoCall /\ tries[c] \in Attempts
        /\ answer' = [answer EXCEPT ![c] = IF Mine(c).rep = "answer" THEN c ELSE Refused]
    BY <1>5 DEF Read, Goto, WireInv, TriesInv, TypeOK, Attempts
  <2>2. Phases[c] = "open" /\ Phases' = [Phases EXCEPT ![c] = "done"]
    BY <2>1 DEF Phases, Phase, TypeOK
  <2>3. CASE Mine(c).rep = "answer"
    <3>1. runs[c] > 0
      BY <2>1, <2>3 DEF Mine, WireInv, RunInv
    <3>2. Told' = [Told EXCEPT ![c] = c]
      BY <2>1, <2>3 DEF Told, TypeOK
    <3> QED
      BY <2>1, <2>2, <3>1, <3>2 DEF Promise!Answer, Phases, Told
  <2>4. CASE Mine(c).rep # "answer"
    <3>1. Told' = Told
      BY <2>1, <2>4 DEF Told, TypeOK
    <3> QED
      BY <2>1, <2>2, <3>1 DEF Promise!Fail, Phases, Told
  <2> QED
    BY <2>3, <2>4
<1>6. ASSUME NEW c \in Calls, NEW a \in Attempts, Run(c, a) PROVE Promise!Run(c)
  <2>1. Phases' = Phases /\ Told' = Told
    BY <1>6 DEF Run, client, Phases, Phase, Told
  <2>2. tries[c] >= a /\ pc[c] # "new"
    BY <1>6 DEF Run, WireInv, TriesInv, NoStream, TypeOK, Attempts
  <2>3. runs[c] \in Nat /\ runs[c] <= Count(c, 1) + Count(c, 2) /\ Count(c, a) = 0
    BY <1>6, SMTT(30) DEF Run, WireInv, RunInv, Count, Past, TypeOK
  <2>4. runs[c] < IF c \in Mutating THEN 1 ELSE 2
    <3>1. CASE a = 1
      <4>1. c \in Mutating => tries[c] # 2
        BY <1>6, <3>1 DEF Run, WireInv, RunInv
      <4>2. c \in Mutating => Count(c, 2) = 0
        BY <4>1 DEF WireInv, TriesInv, Count, Past, NoStream, TypeOK, Attempts
      <4> QED
        BY <2>3, <3>1, <4>2 DEF Count
    <3>2. CASE a = 2
      <4>1. tries[c] = 2
        BY <2>2, <3>2 DEF TypeOK
      <4>2. c \in Mutating => stream[c][1].req = "reset"
        BY <4>1 DEF WireInv, RunInv
      <4>3. c \in Mutating => Count(c, 1) = 0
        BY <4>2 DEF Count, Past
      <4> QED
        BY <2>3, <3>2, <4>3 DEF Count
    <3> QED
      BY <3>1, <3>2 DEF Attempts
  <2>5. Phases[c] # "new"
    BY <2>2 DEF Phases, Phase
  <2> QED
    BY <1>6, <2>1, <2>4, <2>5 DEF Run, Promise!Run, Promise!RunLimit, Phases, Told
<1>7. ASSUME NEW c \in Calls, NEW a \in Attempts, Served(c, a), ~Run(c, a) PROVE UNCHANGED Promise!pvars
  <2>1. UNCHANGED <<pc, runs, answer>>
    BY <1>7 DEF Served, Accept, ReadFails, Reply, Landed, Refuse, TurnAway, client
  <2> QED
    BY <1>0, <2>1 DEF Phases, Phase, Told
<1>8. CASE (\E k \in 1..Links : Age(k) \/ CloseAged(k) \/ Break(k)) \/ UNCHANGED vars
  <2>1. UNCHANGED <<pc, runs, answer>>
    BY <1>8 DEF Age, CloseAged, Break, client, vars
  <2> QED
    BY <1>0, <2>1 DEF Phases, Phase, Told
<1>9. ASSUME NEW c \in Calls, Submit(c) \/ Round(c) \/ \E a \in Attempts : Served(c, a)
      PROVE  Promise!Next \/ UNCHANGED Promise!pvars
  BY <1>2, <1>4, <1>5, <1>6, <1>7, <1>9 DEF Promise!Next
<1> QED
  BY <1>8, <1>9 DEF Next

(* A call the peer may have run is sent again only if it is a read, a reply   *)
(* comes only of a run, and what was refused was never run: for any callers,  *)
(* any number of connections and any limit on the calls of one.               *)
THEOREM WireKeepsPromise == Spec => KeepsPromise
<1>1. TypeOK /\ WireInv /\ [Next]_vars => [Promise!Next]_(Promise!pvars)
  BY PromiseStep
<1> QED
  BY <1>1, PromiseStart, WireInvariant, RefusedNeverRan, PTL DEF Spec, KeepsPromise, Promise!Spec
=============================================================================
