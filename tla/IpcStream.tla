------------------------------ MODULE IpcStream ------------------------------
(* Streamed calls on the socket (src/crates/ikigai-ipc/src/stream.rs): one    *)
(* caller at a time holds the link and sends a head and its body as chunks,   *)
(* then reads the answer the same way.  The socket holds a bounded number of  *)
(* frames each way, so either side may wait for the other to read.            *)
EXTENDS WireBody, Sequences, FiniteSets

CONSTANTS
    NCalls,     \* the streamed calls issued, one after another
    Conns,      \* the connections that may be dialed
    Wire,       \* frames a socket buffer holds in one direction
    MaxHeld,    \* Limits::max_upload, in chunks
    Uploads,    \* the bodies a caller may send
    Answers,    \* the bodies an endpoint may answer with
    None        \* no link, no body

StreamAssumption ==
    /\ NCalls \in Nat /\ Wire \in Nat \ {0} /\ MaxHeld \in Nat
    /\ Body(Uploads) /\ Body(Answers)
    /\ None \notin Uploads \cup Answers \cup Conns /\ NoLen \notin Nat

VARIABLES
    call,       \* the call being made, or the last one made
    pc,         \* the caller: "idle", "dial", "head", "body", "first", "reading"
    link,       \* the connection behind the guard
    dialed,     \* whether this call has dialed
    sent,       \* chunks of its body the caller has sent
    got,        \* per call: chunks of the answer read
    seen,       \* per call: what became of the answer: "open", "whole", "reply", "failed"
    upload,     \* per call: the body sent with it
    taken,      \* per call: chunks of it the endpoint took
    view,       \* per call: what the endpoint saw of it: "open", "whole", "failed"
    answer,     \* per call: the body it is answered with
    runs,       \* per call: how often it was dispatched
    c2s, s2c,   \* per connection: the frames on the way
    srv         \* per connection: the serving thread

vars == <<call, pc, link, dialed, sent, got, seen, upload, taken, view, answer, runs,
          c2s, s2c, srv>>
history == <<upload, taken, view, answer, runs>>

(* A serving thread: its place, the call, how the caller's body has ended     *)
(* ("no", "ok", "err", "handed", "broken"), the chunks read of it, those held *)
(* for the answer, whether the answer still holds the body, whether the bound *)
(* was passed, the kind of the answer and the chunks of it written.           *)
Idle == [pc |-> "idle", call |-> 0, ended |-> "no", read |-> 0, held |-> 0,
         keep |-> FALSE, over |-> FALSE, kind |-> "none", out |-> 0]

Init ==
    /\ call = 0
    /\ pc = "idle"
    /\ link = None
    /\ dialed = FALSE
    /\ sent = 0
    /\ got = [n \in 1..NCalls |-> 0]
    /\ seen = [n \in 1..NCalls |-> "open"]
    /\ upload = [n \in 1..NCalls |-> None]
    /\ taken = [n \in 1..NCalls |-> 0]
    /\ view = [n \in 1..NCalls |-> "open"]
    /\ answer = [n \in 1..NCalls |-> None]
    /\ runs = [n \in 1..NCalls |-> 0]
    /\ c2s = [g \in Conns |-> <<>>]
    /\ s2c = [g \in Conns |-> <<>>]
    /\ srv = [g \in Conns |-> [Idle EXCEPT !.pc = "undialed"]]

Frame(n, kind) == [call |-> n, kind |-> kind]
Room(q) == Len(q) < Wire
Closed(g) == srv[g].pc = "closed"

-----------------------------------------------------------------------------
(* The caller: issue_streamed, and reading what it returns. *)

Issue ==
    /\ pc = "idle" /\ call < NCalls
    /\ call' = call + 1
    /\ \E u \in Uploads \cup {None} : upload' = [upload EXCEPT ![call'] = u]
    /\ pc' = IF link = None THEN "dial" ELSE "head"
    /\ dialed' = FALSE
    /\ sent' = 0
    /\ UNCHANGED <<link, got, seen, taken, view, answer, runs, c2s, s2c, srv>>

(* The call returns; what is left behind the guard is left for the next one.  *)
Return(outcome, left) ==
    /\ pc' = "idle"
    /\ seen' = [seen EXCEPT ![call] = outcome]
    /\ link' = left

(* redial: a connection the door serves, or one past its cap. *)
Dial(g) ==
    /\ pc = "dial"
    /\ srv[g].pc = "undialed"
    /\ link' = g
    /\ dialed' = TRUE
    /\ pc' = "head"
    /\ \E place \in {"idle", "full"} : srv' = [srv EXCEPT ![g].pc = place]
    /\ UNCHANGED <<call, sent, got, seen, history, c2s, s2c>>

DialFails ==
    /\ pc = "dial"
    /\ Return("failed", None)
    /\ UNCHANGED <<call, dialed, sent, got, history, c2s, s2c, srv>>

WriteHead ==
    /\ pc = "head" /\ ~Closed(link)
    /\ c2s' = [c2s EXCEPT ![link] = Append(@, Frame(call, "head"))]
    /\ pc' = IF upload[call] = None THEN "first" ELSE "body"
    /\ UNCHANGED <<call, link, dialed, sent, got, seen, history, s2c, srv>>

(* Heal on use: an established link that died before the head is redialed once. *)
WriteHeadDead ==
    /\ pc = "head" /\ Closed(link)
    /\ IF dialed
       THEN Return("failed", None)
       ELSE pc' = "dial" /\ link' = None /\ UNCHANGED seen
    /\ UNCHANGED <<call, dialed, sent, got, history, c2s, s2c, srv>>

(* send_body: chunks, then END, or ABORT when the reader fails or miscounts.  *)
WriteBody ==
    /\ pc = "body" /\ ~Closed(link) /\ Room(c2s[link])
    /\ LET b == upload[call] IN
       IF Sends(b, sent)
       THEN /\ c2s' = [c2s EXCEPT ![link] = Append(@, Frame(call, "chunk"))]
            /\ sent' = sent + 1
            /\ UNCHANGED pc
       ELSE /\ c2s' = [c2s EXCEPT ![link] = Append(@, Frame(call, LastFrame(b, sent)))]
            /\ pc' = "first"
            /\ UNCHANGED sent
    /\ UNCHANGED <<call, link, dialed, got, seen, history, s2c, srv>>

ResendHead ==
    /\ pc = "body" /\ Closed(link)
    /\ pc' = "dial" /\ link' = None
    /\ UNCHANGED <<call, dialed, sent, got, seen, history, c2s, s2c, srv>>

(* The write fails part-way: what the server wrote before it closed is still read. *)
WriteBodyFails ==
    /\ pc = "body" /\ Closed(link)
    /\ pc' = "first"
    /\ UNCHANGED <<call, link, dialed, sent, got, seen, history, c2s, s2c, srv>>

SpentLink == None

(* The first frame of the answer: one plain reply, or a head. *)
ReadFirst ==
    /\ pc = "first" /\ s2c[link] # <<>>
    /\ LET kind == Head(s2c[link]).kind IN
       \/ kind = "head" /\ pc' = "reading" /\ UNCHANGED <<seen, link>>
       \/ kind = "reply" /\ Return("reply", link)
       \/ kind \notin {"head", "reply"} /\ Return("failed", None)
    /\ s2c' = [s2c EXCEPT ![link] = Tail(@)]
    /\ UNCHANGED <<call, dialed, sent, got, history, c2s, srv>>

(* Streamed::read: to its END the link is given back; any failure spends it.  *)
Read ==
    /\ pc = "reading" /\ s2c[link] # <<>>
    /\ LET step == Feed(answer[call].len, got[call], Head(s2c[link]).kind) IN
       \/ step = "chunk" /\ got' = [got EXCEPT ![call] = @ + 1] /\ UNCHANGED <<pc, seen, link>>
       \/ step = "end" /\ Return("whole", link) /\ UNCHANGED got
       \/ step \notin {"chunk", "end"} /\ Return("failed", None) /\ UNCHANGED got
    /\ s2c' = [s2c EXCEPT ![link] = Tail(@)]
    /\ UNCHANGED <<call, dialed, sent, history, c2s, srv>>

(* A bare end of stream is never the end of a body. *)
ReadEnds ==
    /\ pc \in {"first", "reading"}
    /\ s2c[link] = <<>> /\ Closed(link)
    /\ Return("failed", SpentLink)
    /\ UNCHANGED <<call, dialed, sent, got, history, c2s, s2c, srv>>

(* Silence past the socket's timeout. *)
TimeOut ==
    /\ pc \in {"first", "reading"}
    /\ s2c[link] = <<>> /\ ~Closed(link)
    /\ Return("failed", SpentLink)
    /\ UNCHANGED <<call, dialed, sent, got, history, c2s, s2c, srv>>

(* Dropped before its END: the rest of the answer is still coming. *)
Abandon ==
    /\ pc = "reading"
    /\ Return("failed", SpentLink)
    /\ UNCHANGED <<call, dialed, sent, got, history, c2s, s2c, srv>>

-----------------------------------------------------------------------------
(* The serving thread of connection g. *)

Set(g, s) == srv' = [srv EXCEPT ![g] = s]
Drop(g) == Set(g, [Idle EXCEPT !.pc = "closed"])
Gone(g) == link # g
Serving(g) == srv[g].call
CallerAlone == UNCHANGED <<call, pc, link, dialed, sent, got, seen, upload>>

(* serve_connection: a head begins a call, anything else ends the connection. *)
ReadHead(g) ==
    /\ srv[g].pc = "idle" /\ c2s[g] # <<>>
    /\ LET f == Head(c2s[g]) IN
       IF f.kind = "head"
       THEN /\ Set(g, [Idle EXCEPT !.pc = "run", !.call = f.call,
                       !.ended = IF upload[f.call] = None THEN "ok" ELSE "no"])
            /\ runs' = [runs EXCEPT ![f.call] = @ + 1]
       ELSE Drop(g) /\ UNCHANGED runs
    /\ c2s' = [c2s EXCEPT ![g] = Tail(@)]
    /\ CallerAlone /\ UNCHANGED <<taken, view, answer, s2c>>

(* refuse_over_capacity: the head is answered and the connection closed. *)
Refuse(g) ==
    /\ srv[g].pc = "full" /\ c2s[g] # <<>>
    /\ c2s' = [c2s EXCEPT ![g] = Tail(@)]
    /\ s2c' = [s2c EXCEPT ![g] = Append(@, Frame(Head(c2s[g]).call, "reply"))]
    /\ Drop(g)
    /\ CallerAlone /\ UNCHANGED <<taken, view, answer, runs>>

(* The endpoint asks for the next chunk, and its thread waits for it. *)
Demand(g) ==
    /\ srv[g].pc = "run" /\ upload[Serving(g)] # None /\ view[Serving(g)] = "open"
    /\ Set(g, [srv[g] EXCEPT !.pc = "pull"])
    /\ CallerAlone /\ UNCHANGED <<taken, view, answer, runs, c2s, s2c>>

(* Incoming::read: the next frame of the caller's body, or its broken end.    *)
(* The outcome reaches the body only where it is being pulled.                *)
Frames(g) == c2s[g] # <<>> \/ Gone(g)
Incoming(g) ==
    IF c2s[g] = <<>> THEN "broken"
    ELSE Feed(upload[Serving(g)].len, srv[g].read, Head(c2s[g]).kind)
Consume(g) == c2s' = [c2s EXCEPT ![g] = IF @ = <<>> THEN @ ELSE Tail(@)]

Pull(g) ==
    /\ srv[g].pc = "pull" /\ Frames(g)
    /\ LET n == Serving(g) step == Incoming(g) s == [srv[g] EXCEPT !.pc = "run"] IN
       \/ /\ step = "chunk"
          /\ Set(g, [s EXCEPT !.read = @ + 1])
          /\ taken' = [taken EXCEPT ![n] = @ + 1] /\ UNCHANGED view
       \/ /\ step = "end"
          /\ Set(g, [s EXCEPT !.ended = "ok"])
          /\ view' = [view EXCEPT ![n] = "whole"] /\ UNCHANGED taken
       \/ /\ step \in {"abort", "broken"}
          /\ Set(g, [s EXCEPT !.ended = IF step = "abort" THEN "handed" ELSE "broken"])
          /\ view' = [view EXCEPT ![n] = "failed"] /\ UNCHANGED taken
    /\ Consume(g)
    /\ CallerAlone /\ UNCHANGED <<answer, runs, s2c>>

(* The kernel answers: an error, a collected answer (a traced call), or a     *)
(* body that may still hold the caller's.                                     *)
Resolve(g) ==
    /\ srv[g].pc = "run"
    /\ \E kind \in {"reply", "stream"}, keep \in BOOLEAN, a \in Answers :
         /\ keep => kind = "stream" /\ upload[Serving(g)] # None /\ view[Serving(g)] = "open"
         /\ Set(g, [srv[g] EXCEPT !.pc = "settle", !.kind = kind, !.keep = keep])
         /\ answer' = [answer EXCEPT ![Serving(g)] = IF kind = "stream" THEN a ELSE None]
    /\ CallerAlone /\ UNCHANGED <<taken, view, runs, c2s, s2c>>

(* Inflow::settle: read the upload to its end, holding what the answer may    *)
(* still read, up to the bound.                                               *)
HoldAll(s) == IF s.keep THEN [s EXCEPT !.held = @ + 1] ELSE s
Hold(s) ==
    IF ~s.keep \/ s.over THEN s
    ELSE IF s.held < MaxHeld THEN [s EXCEPT !.held = @ + 1]
    ELSE [s EXCEPT !.held = 0, !.over = TRUE]

Settle(g) ==
    /\ srv[g].pc = "settle" /\ srv[g].ended = "no" /\ Frames(g)
    /\ LET step == Incoming(g) s == srv[g] IN
       Set(g, IF step = "chunk" THEN Hold([s EXCEPT !.read = @ + 1])
              ELSE IF step = "end" THEN [s EXCEPT !.ended = "ok"]
              ELSE IF step = "abort" THEN [s EXCEPT !.ended = "err"]
              ELSE [s EXCEPT !.ended = "broken"])
    /\ Consume(g)
    /\ CallerAlone /\ UNCHANGED <<taken, view, answer, runs, s2c>>

(* A body past the bound is refused, and the answer that held it dropped. *)
NeverRefused(s) == FALSE
Refused(s) == s.over

SettledAtOnce(s) == TRUE
Settled(s) == s.ended # "no"

Answer(g) ==
    /\ srv[g].pc = "settle" /\ Settled(srv[g])
    /\ IF srv[g].ended = "broken" \/ Gone(g)
       THEN Drop(g) /\ UNCHANGED s2c
       ELSE /\ Room(s2c[g])
            /\ IF Refused(srv[g]) \/ srv[g].kind = "reply"
               THEN /\ s2c' = [s2c EXCEPT ![g] = Append(@, Frame(Serving(g), "reply"))]
                    /\ Set(g, Idle)
               ELSE /\ s2c' = [s2c EXCEPT ![g] = Append(@, Frame(Serving(g), "head"))]
                    /\ Set(g, [srv[g] EXCEPT !.pc = "pump"])
    /\ CallerAlone /\ UNCHANGED <<taken, view, answer, runs, c2s>>

(* The answer's producer reads the caller's body as it goes (Incoming::next:  *)
(* what is held, then how it ended, an error once).                           *)
PumpPull(g) ==
    /\ srv[g].pc = "pump" /\ srv[g].keep /\ view[Serving(g)] = "open"
    /\ LET n == Serving(g) s == srv[g] IN
       IF s.held > 0
       THEN /\ Set(g, [s EXCEPT !.held = @ - 1])
            /\ taken' = [taken EXCEPT ![n] = @ + 1] /\ UNCHANGED view
       ELSE /\ Set(g, [s EXCEPT !.ended = IF @ = "err" THEN "handed" ELSE @])
            /\ view' = [view EXCEPT ![n] = IF s.ended = "ok" THEN "whole" ELSE "failed"]
            /\ UNCHANGED taken
    /\ CallerAlone /\ UNCHANGED <<answer, runs, c2s, s2c>>

(* pump: chunks, then END, or ABORT when the producer fails or miscounts. *)
Pump(g) ==
    /\ srv[g].pc = "pump"
    /\ IF Gone(g)
       THEN Drop(g) /\ UNCHANGED s2c
       ELSE /\ Room(s2c[g])
            /\ LET n == Serving(g) a == answer[n] s == srv[g] IN
               IF Sends(a, s.out)
               THEN /\ s2c' = [s2c EXCEPT ![g] = Append(@, Frame(n, "chunk"))]
                    /\ Set(g, [s EXCEPT !.out = @ + 1])
               ELSE /\ s2c' = [s2c EXCEPT ![g] = Append(@, Frame(n, LastFrame(a, s.out)))]
                    /\ Set(g, Idle)
    /\ CallerAlone /\ UNCHANGED <<taken, view, answer, runs, c2s>>

(* The caller hung up between calls. *)
HangUp(g) ==
    /\ srv[g].pc \in {"idle", "full"} /\ Gone(g) /\ c2s[g] = <<>>
    /\ Drop(g)
    /\ CallerAlone /\ UNCHANGED <<taken, view, answer, runs, c2s, s2c>>

(* The server dies, or one of its own timeouts ends the connection. *)
Die(g) ==
    /\ srv[g].pc \notin {"undialed", "closed"}
    /\ Drop(g)
    /\ CallerAlone /\ UNCHANGED <<taken, view, answer, runs, c2s, s2c>>

-----------------------------------------------------------------------------
CallerStep ==
    \/ DialFails \/ (\E g \in Conns : Dial(g))
    \/ WriteHead \/ WriteHeadDead \/ WriteBody \/ WriteBodyFails
    \/ ReadFirst \/ Read \/ ReadEnds

ServerStep(g) ==
    \/ ReadHead(g) \/ Refuse(g) \/ Pull(g) \/ Resolve(g) \/ Settle(g) \/ Answer(g)
    \/ Pump(g) \/ HangUp(g)

Next ==
    \/ Issue \/ CallerStep \/ TimeOut \/ Abandon
    \/ \E g \in Conns : ServerStep(g) \/ Demand(g) \/ PumpPull(g) \/ Die(g)

Spec == Init /\ [][Next]_vars

(* Both sides run, and no timeout, hang-up or crash is counted on. *)
FairSpec == Spec /\ WF_vars(CallerStep) /\ \A g \in Conns : WF_vars(ServerStep(g))

-----------------------------------------------------------------------------
Frames0 == [call : 1..NCalls, kind : {"head", "chunk", "end", "abort", "reply"}]

Threads ==
    [pc : {"undialed", "idle", "full", "run", "pull", "settle", "pump", "closed"},
     call : 0..NCalls, ended : {"no", "ok", "err", "handed", "broken"},
     read : Nat, held : 0..MaxHeld, keep : BOOLEAN, over : BOOLEAN,
     kind : {"none", "reply", "stream"}, out : Nat]

TypeOK ==
    /\ call \in 0..NCalls
    /\ pc \in {"idle", "dial", "head", "body", "first", "reading"}
    /\ link \in Conns \cup {None}
    /\ dialed \in BOOLEAN
    /\ sent \in Nat
    /\ got \in [1..NCalls -> Nat] /\ taken \in [1..NCalls -> Nat] /\ runs \in [1..NCalls -> Nat]
    /\ seen \in [1..NCalls -> {"open", "whole", "reply", "failed"}]
    /\ view \in [1..NCalls -> {"open", "whole", "failed"}]
    /\ upload \in [1..NCalls -> Uploads \cup {None}]
    /\ answer \in [1..NCalls -> Answers \cup {None}]
    /\ c2s \in [Conns -> Seq(Frames0)] /\ s2c \in [Conns -> Seq(Frames0)]
    /\ srv \in [Conns -> Threads]

(* "A body is whole or refused, never a well-formed shorter one": what an     *)
(* endpoint sees end is the caller's whole body, whatever was held, thrown    *)
(* away, aborted or cut off on the way.                                       *)
UploadIsWhole == \A n \in 1..NCalls : view[n] = "whole" => Whole(upload[n], taken[n])

(* The same of the answer its caller reads to an end. *)
AnswerIsWhole == \A n \in 1..NCalls : seen[n] = "whole" => Whole(answer[n], got[n])

(* A link left behind for the next call has nothing of an earlier one on it,  *)
(* or is one the server has closed and the next head will find dead.          *)
LinkIsAligned ==
    pc = "idle" /\ link # None /\ ~Closed(link) =>
        c2s[link] = <<>> /\ s2c[link] = <<>> /\ srv[link].pc = "idle"

(* The caller only ever reads its own call's frames, and so does the server.  *)
OwnFrames ==
    /\ pc \in {"first", "reading"} /\ s2c[link] # <<>> => Head(s2c[link]).call = call
    /\ \A g \in Conns : srv[g].pc \in {"run", "pull", "settle"} /\ c2s[g] # <<>> =>
         Head(c2s[g]).call = Serving(g) /\ Head(c2s[g]).kind # "head"

(* "A streamed exchange is not replayed": its body may be one-shot. *)
RunsOnce == \A n \in 1..NCalls : runs[n] <= 1

(* A body is whole or refused either way it goes, nothing of it is left on    *)
(* the link for the next call to read as its own, and no call runs twice.     *)
BodiesAreWhole == UploadIsWhole /\ AnswerIsWhole /\ LinkIsAligned /\ RunsOnce

(* With both sides running, every exchange ends: neither waits on a full      *)
(* socket that the other, itself waiting, will not read.                      *)
ExchangeEnds == \A n \in 1..NCalls : (call = n /\ pc # "idle") ~> pc = "idle"
=============================================================================
