------------------------------ MODULE QuicStream ------------------------------
(* Streamed calls on QUIC (src/crates/ikigai-quic/src/stream.rs).  Calls are   *)
(* made at once, each on a stream of its own of the connection they share:    *)
(* either half of a stream may be finished, reset by its writer or stopped by *)
(* its reader while the other goes on, and flow control bounds what is on the *)
(* way.  What a connection is besides is QuicWire's.                          *)
EXTENDS WireBody, Sequences, FiniteSets

CONSTANTS
    Calls,      \* the streamed calls
    Links,      \* the connections that may be dialed, in order
    MaxCalls,   \* MAX_CALLS_PER_CONNECTION
    Window,     \* frames a stream holds in one direction
    MaxHeld,    \* MAX_UPLOAD, in chunks
    Uploads, Answers,   \* per call: the bodies it may send, and be answered with
    None        \* no body

QuicStreamAssumption ==
    /\ Links \in Nat \ {0} /\ MaxCalls \in Nat /\ Window \in Nat \ {0} /\ MaxHeld \in Nat
    /\ \A n \in Calls : Body(Uploads[n] \ {None}) /\ Body(Answers[n]) /\ None \notin Answers[n]
    /\ NoLen \notin Nat

VARIABLES
    pc,         \* per call: "new", "redial", "open", "heal", "reopen", "body", "first",
                \* "reading", "done"
    stream,     \* per call: its connection and the two halves of its stream
    sent, got,  \* per call: chunks of its body sent, and of its answer read
    seen,       \* per call: "open", "whole", "reply", "failed", "late" or "let go"
    upload, taken, view,    \* per call: its body, and what the endpoint took and saw of it
    answer, runs,           \* per call: the body it is answered with, and its dispatches
    srv,        \* per call: the task that answers it
    current, stale,         \* Wire.connection and Wire.stale
    link        \* per connection: "unborn", "live", "aged" or "dead"

caller == <<pc, sent, got, seen, upload, current, stale>>
door == <<taken, view, answer, runs, srv>>
vars == <<caller, door, stream, link>>

Half == [frames |-> <<>>, end |-> "open"]
NoStream == [on |-> 0, up |-> Half, down |-> Half]

(* A task: its place, how the caller's body has ended, the chunks read of it, *)
(* those held for the answer, whether the answer still holds the body, whether*)
(* the bound was passed, the kind of the answer and the chunks written of it. *)
Idle == [at |-> "none", ended |-> "no", read |-> 0, held |-> 0, keep |-> FALSE,
         over |-> FALSE, kind |-> "none", out |-> 0]

Init ==
    /\ pc = [n \in Calls |-> "new"] /\ stream = [n \in Calls |-> NoStream]
    /\ sent = [n \in Calls |-> 0] /\ got = [n \in Calls |-> 0] /\ seen = [n \in Calls |-> "open"]
    /\ upload = [n \in Calls |-> None] /\ taken = [n \in Calls |-> 0]
    /\ view = [n \in Calls |-> "open"] /\ answer = [n \in Calls |-> None]
    /\ runs = [n \in Calls |-> 0] /\ srv = [n \in Calls |-> Idle]
    /\ current = 1 /\ stale = FALSE
    /\ link = [k \in 1..Links |-> IF k = 1 THEN "live" ELSE "unborn"]

-----------------------------------------------------------------------------
(* Streams. *)

Up(n) == stream[n].on # 0 /\ link[stream[n].on] \in {"live", "aged"}
Room(half) == Len(half.frames) < Window /\ half.end = "open"
Put(half, kind) == [half EXCEPT !.frames = Append(@, kind)]
Next1(half) == [half EXCEPT !.frames = Tail(@)]

(* A half that is stopped or reset loses what is on the way; one that is      *)
(* finished already keeps its end.                                            *)
Stopped(half) == [frames |-> <<>>, end |-> IF half.end = "fin" THEN "fin" ELSE "stopped"]
Reset(half) == IF half.end = "open" THEN [frames |-> <<>>, end |-> "reset"] ELSE half
Finished(half) == IF half.end = "open" THEN [half EXCEPT !.end = "fin"] ELSE half

(* Nothing more can come of it, and it did not say so itself. *)
Spent(n, half) == half.frames = <<>> /\ (half.end # "open" \/ ~Up(n))

-----------------------------------------------------------------------------
(* The caller: issue_streamed, and reading what it returns. *)

Goto(n, where) == pc' = [pc EXCEPT ![n] = where]
Return(n, outcome) == Goto(n, "done") /\ seen' = [seen EXCEPT ![n] = outcome]

Start(n) ==
    /\ pc[n] = "new" /\ Goto(n, IF stale THEN "redial" ELSE "open") /\ stale' = FALSE
    /\ \E u \in Uploads[n] : upload' = [upload EXCEPT ![n] = u]
    /\ UNCHANGED <<sent, got, seen, current, door, stream, link>>

(* A connection the door closes at once is dead when it is used. *)
Redial(n) ==
    /\ pc[n] \in {"redial", "heal"}
    /\ \E k \in 1..Links, minted \in {"live", "dead"} :
         /\ link[k] = "unborn" /\ \A j \in 1..k-1 : link[j] # "unborn"
         /\ link' = [link EXCEPT ![k] = minted] /\ current' = k
    /\ Goto(n, IF pc[n] = "redial" THEN "open" ELSE "reopen")
    /\ UNCHANGED <<sent, got, seen, upload, stale, door, stream>>

(* Unlike a plain call's, a redial that failed leaves no mark behind. *)
RedialFails(n) ==
    /\ pc[n] \in {"redial", "heal"} /\ Return(n, "failed")
    /\ UNCHANGED <<sent, got, upload, current, stale, door, stream, link>>

(* The magic and the head are one write; without a body the stream is finished.*)
Opening(u) == [frames |-> <<"head">>, end |-> IF u = None THEN "fin" ELSE "open"]

Open(n) ==
    /\ pc[n] \in {"open", "reopen"} /\ link[current] \in {"live", "aged"}
    /\ stream' = [stream EXCEPT ![n] =
                    [on |-> current, up |-> Opening(upload[n]), down |-> Half]]
    /\ srv' = [srv EXCEPT ![n].at = "queued"]
    /\ Goto(n, IF upload[n] = None THEN "first" ELSE "body")
    /\ UNCHANGED <<sent, got, seen, upload, current, stale, taken, view, answer, runs, link>>

(* Nothing was sent: one redial, and no other. *)
OpenFails(n) ==
    /\ pc[n] \in {"open", "reopen"} /\ link[current] = "dead"
    /\ IF pc[n] = "open" THEN Goto(n, "heal") /\ UNCHANGED seen ELSE Return(n, "failed")
    /\ UNCHANGED <<sent, got, upload, current, stale, door, stream, link>>

(* send_body: chunks, then END or ABORT, and the stream is finished. *)
WriteBody(n) ==
    LET b == upload[n] up == stream[n].up IN
    /\ pc[n] = "body" /\ Up(n) /\ Room(up)
    /\ IF Sends(b, sent[n])
       THEN /\ stream' = [stream EXCEPT ![n].up = Put(up, "chunk")]
            /\ sent' = [sent EXCEPT ![n] = @ + 1] /\ UNCHANGED pc
       ELSE /\ stream' = [stream EXCEPT ![n].up = Finished(Put(up, LastFrame(b, sent[n])))]
            /\ Goto(n, "first") /\ UNCHANGED sent
    /\ UNCHANGED <<got, seen, upload, current, stale, door, link>>

(* The door stopped reading, or is gone: what it answered is still read.      *)
GivesUp(n) == Return(n, "failed")
ReadsOn(n) == Goto(n, "first") /\ UNCHANGED seen

WriteFails(n) ==
    /\ pc[n] = "body" /\ (stream[n].up.end = "stopped" \/ ~Up(n))
    /\ ReadsOn(n)
    /\ UNCHANGED <<sent, got, upload, current, stale, door, stream, link>>

ReadFirst(n) ==
    LET down == stream[n].down IN
    /\ pc[n] = "first" /\ down.frames # <<>>
    /\ stream' = [stream EXCEPT ![n].down = Next1(@), ![n].up = Reset(@)]
    /\ \/ Head(down.frames) = "head" /\ Goto(n, "reading") /\ UNCHANGED seen
       \/ Head(down.frames) = "reply" /\ Return(n, "reply")
    /\ UNCHANGED <<sent, got, upload, current, stale, door, link>>

(* QuicStreamed::read, and its drop after a failure. *)
Cancel(n) == stream' = [stream EXCEPT ![n].down = Stopped(@), ![n].up = Reset(@)]

Read(n) ==
    LET down == stream[n].down
        step == Feed(answer[n].len, got[n], Head(down.frames))
    IN
    /\ pc[n] = "reading" /\ down.frames # <<>>
    /\ \/ /\ step = "chunk"
          /\ got' = [got EXCEPT ![n] = @ + 1] /\ UNCHANGED <<pc, seen>>
          /\ stream' = [stream EXCEPT ![n].down = Next1(@)]
       \/ step = "end" /\ Return(n, "whole") /\ Cancel(n) /\ UNCHANGED got
       \/ step \notin {"chunk", "end"} /\ Return(n, "failed") /\ Cancel(n) /\ UNCHANGED got
    /\ UNCHANGED <<sent, upload, current, stale, door, link>>

(* A bare FIN is never the end of a body. *)
ReadEnds(n) ==
    /\ pc[n] \in {"first", "reading"} /\ Spent(n, stream[n].down)
    /\ Return(n, "failed") /\ Cancel(n)
    /\ UNCHANGED <<sent, got, upload, current, stale, door, link>>

(* A whole deadline without a frame: the call is canceled and the connection  *)
(* marked.                                                                    *)
Late(n) ==
    /\ pc[n] \in {"first", "reading"} /\ Return(n, "late") /\ Cancel(n) /\ stale' = TRUE
    /\ UNCHANGED <<sent, got, upload, current, door, link>>

(* The answer is dropped before its end, or the body's reader panics. *)
LetGo(n) ==
    /\ pc[n] \in {"body", "reading"} /\ Return(n, "let go") /\ Cancel(n)
    /\ UNCHANGED <<sent, got, upload, current, stale, door, link>>

-----------------------------------------------------------------------------
(* The door's task of call n. *)

Set(n, s) == srv' = [srv EXCEPT ![n] = s]
Permits(k) == {n \in Calls : stream[n].on = k
                              /\ srv[n].at \notin {"none", "queued", "refusing", "replied", "ended"}}

(* A half that is dropped unfinished is finished. *)
Ends(n) ==
    /\ srv' = [srv EXCEPT ![n].at = "ended"]
    /\ stream' = [stream EXCEPT ![n].down = Finished(@), ![n].up = Stopped(@)]

Accept(n) ==
    LET k == stream[n].on IN
    /\ srv[n].at = "queued" /\ link[k] = "live"
    /\ Set(n, [srv[n] EXCEPT !.at =
                 IF Cardinality(Permits(k)) < MaxCalls THEN "head" ELSE "refusing"])
    /\ UNCHANGED <<caller, taken, view, answer, runs, stream, link>>

(* Past the age bound. *)
TurnAway(n) ==
    /\ srv[n].at = "queued" /\ link[stream[n].on] = "aged"
    /\ srv' = [srv EXCEPT ![n].at = "ended"]
    /\ stream' = [stream EXCEPT ![n].down = Reset(@), ![n].up = Stopped(@)]
    /\ UNCHANGED <<caller, taken, view, answer, runs, link>>

ReadHead(n) ==
    /\ srv[n].at = "head" /\ stream[n].up.frames # <<>>
    /\ stream' = [stream EXCEPT ![n].up = Next1(@)]
    /\ Set(n, [srv[n] EXCEPT !.at = "run", !.ended = IF upload[n] = None THEN "ok" ELSE "no"])
    /\ runs' = [runs EXCEPT ![n] = @ + 1]
    /\ UNCHANGED <<caller, taken, view, answer, link>>

(* The stream breaks before its head is read, or its connection does. *)
HeadLost(n) ==
    /\ srv[n].at \in {"queued", "head", "refusing"}
    /\ ~Up(n) \/ (srv[n].at # "queued" /\ Spent(n, stream[n].up))
    /\ Ends(n)
    /\ UNCHANGED <<caller, taken, view, answer, runs, link>>

(* reply: one frame, the rest of the caller's body is not read. *)
Replies(n) ==
    IF Up(n) /\ stream[n].down.end = "open"
    THEN /\ stream' = [stream EXCEPT ![n].up = Stopped(@), ![n].down = Finished(Put(@, "reply"))]
         /\ srv' = [srv EXCEPT ![n].at = "replied"]
    ELSE Ends(n)

Refuse(n) ==
    /\ srv[n].at = "refusing" /\ stream[n].up.frames # <<>> /\ Replies(n)
    /\ UNCHANGED <<caller, taken, view, answer, runs, link>>

(* The endpoint asks for the next chunk, and waits for it off the workers.    *)
Demand(n) ==
    /\ srv[n].at = "run" /\ upload[n] # None /\ view[n] = "open"
    /\ Set(n, [srv[n] EXCEPT !.at = "pull"])
    /\ UNCHANGED <<caller, taken, view, answer, runs, stream, link>>

(* Incoming::read. *)
Arrived(n) == stream[n].up.frames # <<>> \/ Spent(n, stream[n].up)
Incoming(n) ==
    IF stream[n].up.frames = <<>> THEN "broken"
    ELSE Feed(upload[n].len, srv[n].read, Head(stream[n].up.frames))
Consume(n) ==
    stream' = IF stream[n].up.frames = <<>> THEN stream ELSE [stream EXCEPT ![n].up = Next1(@)]

Pull(n) ==
    LET step == Incoming(n) s == [srv[n] EXCEPT !.at = "run"] IN
    /\ srv[n].at = "pull" /\ Arrived(n) /\ Consume(n)
    /\ \/ /\ step = "chunk"
          /\ Set(n, [s EXCEPT !.read = @ + 1])
          /\ taken' = [taken EXCEPT ![n] = @ + 1] /\ UNCHANGED view
       \/ /\ step = "end"
          /\ Set(n, [s EXCEPT !.ended = "ok"])
          /\ view' = [view EXCEPT ![n] = "whole"] /\ UNCHANGED taken
       \/ /\ step \in {"abort", "broken"}
          /\ Set(n, [s EXCEPT !.ended = IF step = "abort" THEN "handed" ELSE "broken"])
          /\ view' = [view EXCEPT ![n] = "failed"] /\ UNCHANGED taken
    /\ UNCHANGED <<caller, answer, runs, link>>

(* An error, a panic or a traced answer is one reply; a streamed one may      *)
(* still hold the caller's body.                                              *)
Resolve(n) ==
    /\ srv[n].at = "run"
    /\ \E kind \in {"reply", "stream"}, keep \in BOOLEAN, a \in Answers[n] :
         /\ keep => kind = "stream" /\ upload[n] # None /\ view[n] = "open"
         /\ Set(n, [srv[n] EXCEPT !.at = "settle", !.kind = kind, !.keep = keep])
         /\ answer' = [answer EXCEPT ![n] = IF kind = "stream" THEN a ELSE None]
    /\ UNCHANGED <<caller, taken, view, runs, stream, link>>

(* settle, the body gone: the rest is not read. *)
StopUnread(n) ==
    /\ srv[n].at = "settle" /\ srv[n].ended = "no" /\ ~srv[n].keep
    /\ Set(n, [srv[n] EXCEPT !.ended = "stopped"])
    /\ stream' = [stream EXCEPT ![n].up = Stopped(@)]
    /\ UNCHANGED <<caller, taken, view, answer, runs, link>>

(* settle, the body still held: read to its end, up to the bound. *)
Settle(n) ==
    LET step == Incoming(n) s == srv[n] IN
    /\ s.at = "settle" /\ s.ended = "no" /\ s.keep /\ Arrived(n)
    /\ IF step = "chunk" /\ s.held = MaxHeld
       THEN /\ Set(n, [s EXCEPT !.ended = "stopped", !.over = TRUE, !.held = 0])
            /\ stream' = [stream EXCEPT ![n].up = Stopped(@)]
       ELSE /\ Consume(n)
            /\ Set(n, IF step = "chunk" THEN [s EXCEPT !.read = @ + 1, !.held = @ + 1]
                      ELSE IF step = "end" THEN [s EXCEPT !.ended = "ok"]
                      ELSE IF step = "abort" THEN [s EXCEPT !.ended = "err"]
                      ELSE [s EXCEPT !.ended = "broken"])
    /\ UNCHANGED <<caller, taken, view, answer, runs, link>>

(* The caller's body has ended or was stopped; a call whose stream broke is   *)
(* answered nothing, and one past the bound is refused, its answer dropped.   *)
Answer(n) ==
    LET s == srv[n] IN
    /\ s.at = "settle" /\ s.ended # "no"
    /\ IF s.ended = "broken" THEN Ends(n)
       ELSE IF s.over \/ s.kind = "reply" THEN Replies(n)
       ELSE IF Up(n) /\ stream[n].down.end = "open"
       THEN /\ Room(stream[n].down)
            /\ stream' = [stream EXCEPT ![n].down = Put(@, "head")]
            /\ Set(n, [s EXCEPT !.at = "pump"])
       ELSE Ends(n)
    /\ UNCHANGED <<caller, taken, view, answer, runs, link>>

(* The answer's producer reads what was held, then how the body ended. *)
PumpPull(n) ==
    LET s == srv[n] IN
    /\ s.at = "pump" /\ s.keep /\ view[n] = "open"
    /\ IF s.held > 0
       THEN /\ Set(n, [s EXCEPT !.held = @ - 1])
            /\ taken' = [taken EXCEPT ![n] = @ + 1] /\ UNCHANGED view
       ELSE /\ view' = [view EXCEPT ![n] = IF s.ended = "ok" THEN "whole" ELSE "failed"]
            /\ UNCHANGED <<srv, taken>>
    /\ UNCHANGED <<caller, answer, runs, stream, link>>

(* pump: a write that fails drops the body, and what its producer holds.      *)
Pump(n) ==
    LET a == answer[n] s == srv[n] down == stream[n].down IN
    /\ s.at = "pump"
    /\ IF ~Up(n) \/ down.end # "open" THEN Ends(n)
       ELSE /\ Room(down)
            /\ IF Sends(a, s.out)
               THEN /\ stream' = [stream EXCEPT ![n].down = Put(@, "chunk")]
                    /\ Set(n, [s EXCEPT !.out = @ + 1])
               ELSE /\ stream' = [stream EXCEPT ![n].down = Finished(Put(@, LastFrame(a, s.out)))]
                    /\ Set(n, [s EXCEPT !.at = "ended"])
    /\ UNCHANGED <<caller, taken, view, answer, runs, link>>

-----------------------------------------------------------------------------
(* The connection: its age bound, and then its close once no call is in       *)
(* progress; or the network, the peer or an idle timeout ends it.             *)
Age(k) ==
    link[k] = "live" /\ link' = [link EXCEPT ![k] = "aged"] /\ UNCHANGED <<caller, door, stream>>
Close(k) ==
    /\ link[k] = "aged" /\ Permits(k) = {}
    /\ link' = [link EXCEPT ![k] = "dead"] /\ UNCHANGED <<caller, door, stream>>
Break(k) ==
    /\ link[k] \in {"live", "aged"} /\ link' = [link EXCEPT ![k] = "dead"]
    /\ stream' = [n \in Calls |-> IF stream[n].on = k
                    THEN [stream[n] EXCEPT !.up.frames = <<>>, !.down.frames = <<>>]
                    ELSE stream[n]]
    /\ UNCHANGED <<caller, door>>

CallerStep(n) ==
    \/ Redial(n) \/ RedialFails(n) \/ Open(n) \/ OpenFails(n) \/ WriteBody(n) \/ WriteFails(n)
    \/ ReadFirst(n) \/ Read(n) \/ ReadEnds(n)

DoorStep(n) ==
    \/ Accept(n) \/ TurnAway(n) \/ ReadHead(n) \/ HeadLost(n) \/ Refuse(n) \/ Pull(n)
    \/ Resolve(n) \/ StopUnread(n) \/ Settle(n) \/ Answer(n) \/ Pump(n)

Next ==
    \/ \E n \in Calls : \/ Start(n) \/ CallerStep(n) \/ Late(n) \/ LetGo(n)
                        \/ DoorStep(n) \/ Demand(n) \/ PumpPull(n)
    \/ \E k \in 1..Links : Age(k) \/ Close(k) \/ Break(k)

Spec == Init /\ [][Next]_vars

(* The tasks of both sides run; no deadline, close or break is counted on.    *)
FairSpec == Spec /\ \A n \in Calls : WF_vars(CallerStep(n)) /\ WF_vars(DoorStep(n))

-----------------------------------------------------------------------------
(* "A body is whole or refused", either way, whatever is held, stopped, reset *)
(* or finished early on either half of the call's stream.                     *)
StreamsAreWhole ==
    \A n \in Calls :
        /\ view[n] = "whole" => Whole(upload[n], taken[n])
        /\ seen[n] = "whole" => Whole(answer[n], got[n])

(* "Its typed refusal reaches the caller rather than a stopped stream": a     *)
(* call is not failed by its transport when a reply was written to it and its *)
(* connection stands.                                                         *)
RefusalsArrive ==
    \A n \in Calls : srv[n].at = "replied" /\ Up(n) => seen[n] # "failed"

(* "A streamed exchange is not replayed after a failure". *)
NotReplayed == \A n \in Calls : runs[n] <= 1

StreamedCallsHold == StreamsAreWhole /\ RefusalsArrive /\ NotReplayed

(* Neither side waits on the other's full stream, nor a producer on a reader  *)
(* that is gone: a call returns and its task ends.                            *)
StreamsEnd ==
    \A n \in Calls :
        pc[n] # "new" ~> pc[n] = "done" /\ srv[n].at \in {"none", "replied", "ended"}
=============================================================================
