----------------------------- MODULE McpSession -----------------------------
(* One MCP stdio session (crates/ikigai-mcp/src/server.rs, serve_concurrent): *)
(* a thread reads the client's lines and answers them in order, except that   *)
(* each tools/call runs on a thread of its own, at most MaxCalls of them, and *)
(* is answered when it finishes.  The grants poller (ikigai-cli/src/main.rs,  *)
(* mcp) swaps the capability and the tool filter underneath, and tells the    *)
(* client on the same output.                                                 *)
EXTENDS Naturals, Sequences, FiniteSets

CONSTANTS
    Messages,   \* what the client sends
    MaxCalls,   \* MAX_CONCURRENT_CALLS
    MaxLines,   \* bound on the lines a client sends
    MaxSwaps    \* bound on the edits of the grants file

(* A line, by what parse_line and shape tell apart.  `twice` is the member    *)
(* that is named twice, `slow` a call that may never come to an end.          *)
Message ==
    [text : {"blank", "torn", "json"}, object : BOOLEAN, method : {"none", "other", "tools/list", "tools/call", "mistyped"},
     id : {"absent", "given", "mistyped"}, version : BOOLEAN, params : BOOLEAN, reply : BOOLEAN,
     twice : {"none", "id", "argument", "member"}, slow : BOOLEAN]

ASSUME McpSessionAssumption ==
    Messages \subseteq Message /\ MaxCalls \in Nat /\ MaxLines \in Nat /\ MaxSwaps \in Nat

VARIABLES
    sent,       \* the lines, each with what its client knew when it sent it
    open,       \* whether the client's end of the input is
    broken,     \* whether the client stopped reading
    out, seen,  \* the lines written, and how many of them the client has read
    pc,         \* the reading thread's: "top", "read", "cap", "filter", "dispatch", "write", "join", "ended"
    nth,        \* how many lines it has read
    view,       \* the capability and the filter it took for the line
    reply,      \* the answer it is about to write
    calls,      \* each call's thread: "none", "running", "result" or "panic", "written", "done"
    under,      \* the capability each call runs under
    running,    \* the count of them
    gone,       \* whether a call's thread could not write
    cap, filter,    \* in force: the version of the grants file each is from
    poll        \* the poller: "sleep", "cap", "filter", "note", the version it read, and what changed

client == <<sent, open, broken, seen>>
reader == <<pc, nth, view, reply>>
threads == <<calls, under, running, gone>>
poller == <<cap, filter, poll>>
sessionVars == <<client, out, reader, threads, poller>>

Lines == 1 .. MaxLines
Nothing == [kind |-> "none"]

SessionInit ==
    /\ sent = <<>> /\ open = TRUE /\ broken = FALSE /\ out = <<>> /\ seen = 0
    /\ pc = "top" /\ nth = 0 /\ view = [cap |-> 0, filter |-> 0] /\ reply = Nothing
    /\ calls = [n \in Lines |-> "none"] /\ under = [n \in Lines |-> 0] /\ running = 0 /\ gone = FALSE
    /\ cap = 0 /\ filter = 0 /\ poll = [at |-> "sleep", version |-> 0, parts |-> {}]

-----------------------------------------------------------------------------
(* What a line is, and the answer of its own that it is owed.                 *)
Shape(m) ==
    CASE ~m.object -> "invalid"
      [] m.object /\ m.method = "none" /\ m.reply -> "response"
      [] m.object /\ m.method # "none" /\ m.id = "absent" -> "notification"
      [] OTHER -> IF m.id # "mistyped" /\ m.version /\ m.method \notin {"none", "mistyped"} /\ m.params
                  THEN "request" ELSE "invalid"

IdUnder(m) == IF m.object /\ m.id = "given" THEN "given" ELSE "null"
Answer(k, i) == [kind |-> k, id |-> i]

Repeated(m) == m.twice # "none"
RefuseRepeated(m) ==
    CASE Shape(m) \in {"response", "notification"} -> Nothing
      [] Shape(m) = "invalid" -> Answer("invalid", IdUnder(m))
      [] Shape(m) = "request" /\ m.method = "tools/call" /\ m.twice = "argument" -> Answer("tool error", "given")
      [] OTHER -> Answer("invalid", IF m.twice = "id" THEN "null" ELSE "given")

Handle(m) ==
    CASE Shape(m) \in {"response", "notification"} -> Nothing
      [] Shape(m) = "invalid" -> Answer("invalid", IdUnder(m))
      [] Shape(m) = "request" -> Answer(IF m.method = "tools/list" THEN "list" ELSE "unknown", "given")

ReplyTo(m) ==
    CASE m.text = "blank" -> Nothing
      [] m.text = "torn" -> Answer("parse", "null")
      [] m.text = "json" -> IF Repeated(m) THEN RefuseRepeated(m) ELSE Handle(m)

(* A call that is run on a thread, rather than answered by the reader.        *)
IsCall(m) == m.text = "json" /\ ~Repeated(m) /\ Shape(m) = "request" /\ m.method = "tools/call"

-----------------------------------------------------------------------------
(* The client: it sends lines, reads what is written, and may stop either.    *)
Noted(k) ==
    LET notes == {i \in 1 .. k : out[i].kind = "note"}
    IN  IF notes = {} THEN [cap |-> 0, filter |-> 0]
        ELSE LET i == CHOOSE i \in notes : \A j \in notes : j <= i
             IN  [cap |-> out[i].cap, filter |-> out[i].filter]

Read(n) == \E i \in 1 .. seen : out[i].line = n
Pending == {n \in 1 .. Len(sent) : IsCall(sent[n].msg) /\ ~Read(n)}

Send(m) ==
    /\ open /\ Len(sent) < MaxLines
    /\ sent' = Append(sent, [msg |-> m, knows |-> Noted(seen), pending |-> Cardinality(Pending)])
    /\ UNCHANGED <<open, broken, seen, out, reader, threads, poller>>

Receive ==
    /\ ~broken /\ seen < Len(out) /\ seen' = seen + 1
    /\ UNCHANGED <<sent, open, broken, out, reader, threads, poller>>

Close ==
    /\ open /\ open' = FALSE
    /\ UNCHANGED <<sent, broken, seen, out, reader, threads, poller>>

Leave ==
    /\ ~broken /\ broken' = TRUE
    /\ UNCHANGED <<sent, open, seen, out, reader, threads, poller>>

-----------------------------------------------------------------------------
(* The reading thread.                                                        *)
Line == sent[nth].msg
Go(at) == pc' = at

Top ==
    /\ pc = "top"
    /\ IF gone THEN Go("join") ELSE Go("read")
    /\ UNCHANGED <<client, out, nth, view, reply, threads, poller>>

ReadLine ==
    /\ pc = "read" /\ nth < Len(sent)
    /\ nth' = nth + 1 /\ Go("cap")
    /\ UNCHANGED <<client, out, view, reply, threads, poller>>

EndOfInput ==
    /\ pc = "read" /\ nth = Len(sent) /\ ~open /\ Go("join")
    /\ UNCHANGED <<client, out, nth, view, reply, threads, poller>>

(* The session closure: two locks, one after the other.                       *)
TakenOnce == IF nth = 1 THEN cap ELSE view.cap
SessionCap == cap
TakeCap ==
    /\ pc = "cap" /\ view' = [view EXCEPT !.cap = SessionCap] /\ Go("filter")
    /\ UNCHANGED <<client, out, nth, reply, threads, poller>>

TakeFilter ==
    /\ pc = "filter" /\ view' = [view EXCEPT !.filter = filter] /\ Go("dispatch")
    /\ UNCHANGED <<client, out, nth, reply, threads, poller>>

Owing(r) == reply' = r /\ Go(IF r = Nothing THEN "top" ELSE "write")

AnswerInline ==
    /\ pc = "dispatch" /\ ~IsCall(Line)
    /\ Owing(ReplyTo(Line))
    /\ UNCHANGED <<client, out, nth, view, threads, poller>>

OneOver == running <= MaxCalls
HasRoom == running < MaxCalls

NotTakenBack == running + 1
AfterRefusal == running

Refuse ==
    /\ pc = "dispatch" /\ IsCall(Line) /\ ~HasRoom
    /\ Owing(Answer("busy", "given")) /\ running' = AfterRefusal
    /\ UNCHANGED <<client, out, nth, view, calls, under, gone, poller>>

Spawn ==
    /\ pc = "dispatch" /\ IsCall(Line) /\ HasRoom
    /\ calls' = [calls EXCEPT ![nth] = "running"] /\ under' = [under EXCEPT ![nth] = view.cap]
    /\ running' = running + 1 /\ Go("top")
    /\ UNCHANGED <<client, out, nth, view, reply, gone, poller>>

(* The slot went with the closure, which is dropped before the answer.        *)
SpawnFails ==
    /\ pc = "dispatch" /\ IsCall(Line) /\ HasRoom
    /\ Owing(Answer("internal", "given"))
    /\ UNCHANGED <<client, out, nth, view, threads, poller>>

Written(n, r) ==
    IF r.kind = "list" THEN [line |-> n, kind |-> "list", id |-> r.id, cap |-> view.cap, filter |-> view.filter]
    ELSE [line |-> n, kind |-> r.kind, id |-> r.id]

WriteReply ==
    /\ pc = "write"
    /\ IF broken THEN Go("join") /\ UNCHANGED out
       ELSE Go("top") /\ out' = Append(out, Written(nth, reply))
    /\ reply' = Nothing
    /\ UNCHANGED <<client, nth, view, threads, poller>>

(* The scope ends when every thread in it has.                                *)
NoWaiting == TRUE
Returned == \A n \in Lines : calls[n] \in {"none", "done"}
Join ==
    /\ pc = "join" /\ Returned /\ Go("ended")
    /\ UNCHANGED <<client, out, nth, view, reply, threads, poller>>

-----------------------------------------------------------------------------
(* A call's thread: the call, its answer, and only then its place.            *)
Finish(n) ==
    /\ calls[n] = "running"
    /\ \E r \in {"result", "panic"} : calls' = [calls EXCEPT ![n] = r]
    /\ UNCHANGED <<client, out, reader, under, running, gone, poller>>

Uncaught == {"result"}
Caught == {"result", "panic"}
CallAnswer(r) == Answer(IF r = "panic" THEN "internal" ELSE "result", "given")

WriteCall(n) ==
    /\ calls[n] \in Caught
    /\ IF broken THEN gone' = TRUE /\ UNCHANGED out
       ELSE out' = Append(out, Written(n, CallAnswer(calls[n]))) /\ UNCHANGED gone
    /\ calls' = [calls EXCEPT ![n] = "written"]
    /\ UNCHANGED <<client, reader, under, running, poller>>

(* Slot's drop. *)
Free(n) ==
    /\ calls[n] = "written"
    /\ calls' = [calls EXCEPT ![n] = "done"] /\ running' = running - 1
    /\ UNCHANGED <<client, out, reader, under, gone, poller>>

Call(n) == WriteCall(n) \/ Free(n)

-----------------------------------------------------------------------------
(* The poller: a changed file's capability, then its filter, then the note.   *)
Poll(parts) ==
    /\ poll.at = "sleep" /\ poll.version < MaxSwaps
    /\ poll' = [at |-> "cap", version |-> poll.version + 1, parts |-> parts]
    /\ UNCHANGED <<client, out, reader, threads, cap, filter>>

SwapCap ==
    /\ poll.at = "cap"
    /\ cap' = IF "cap" \in poll.parts THEN poll.version ELSE cap
    /\ poll' = [poll EXCEPT !.at = "filter"]
    /\ UNCHANGED <<client, out, reader, threads, filter>>

OnlyACap == "cap" \in poll.parts
Tells == poll.parts # {}

SwapFilter ==
    /\ poll.at = "filter"
    /\ filter' = IF "filter" \in poll.parts THEN poll.version ELSE filter
    /\ poll' = [poll EXCEPT !.at = IF Tells THEN "note" ELSE "sleep"]
    /\ UNCHANGED <<client, out, reader, threads, cap>>

Note ==
    /\ poll.at = "note" /\ poll' = [poll EXCEPT !.at = "sleep"]
    /\ out' = IF broken THEN out ELSE Append(out, [line |-> 0, kind |-> "note", cap |-> cap, filter |-> filter])
    /\ UNCHANGED <<client, reader, threads, cap, filter>>

-----------------------------------------------------------------------------
Client == (\E m \in Messages : Send(m)) \/ Receive \/ Close \/ Leave
Reader ==
    \/ Top \/ ReadLine \/ EndOfInput \/ TakeCap \/ TakeFilter
    \/ AnswerInline \/ Refuse \/ Spawn \/ SpawnFails \/ WriteReply \/ Join
Threads == \E n \in Lines : Finish(n) \/ Call(n)
Poller == (\E parts \in SUBSET {"cap", "filter"} : Poll(parts)) \/ SwapCap \/ SwapFilter \/ Note

SessionNext == pc # "ended" /\ (Client \/ Reader \/ Threads \/ Poller)
SessionSpec == SessionInit /\ [][SessionNext]_sessionVars

(* Threads are scheduled; a call comes back unless it is a slow one.          *)
Returns(n) == n <= Len(sent) /\ ~sent[n].msg.slow /\ Finish(n) /\ pc # "ended"
SessionFairSpec ==
    /\ SessionSpec /\ WF_sessionVars(Reader /\ pc # "ended")
    /\ \A n \in Lines : WF_sessionVars(Call(n) /\ pc # "ended") /\ WF_sessionVars(Returns(n))

-----------------------------------------------------------------------------
(* Every variable has its type, and the count never passes the bound.         *)
SessionTypeOK ==
    /\ Len(sent) <= MaxLines /\ \A n \in 1 .. Len(sent) : sent[n].msg \in Messages
    /\ open \in BOOLEAN /\ broken \in BOOLEAN /\ gone \in BOOLEAN /\ seen \in 0 .. Len(out) /\ nth \in 0 .. Len(sent)
    /\ pc \in {"top", "read", "cap", "filter", "dispatch", "write", "join", "ended"}
    /\ calls \in [Lines -> {"none", "running", "result", "panic", "written", "done"}]
    /\ {view.cap, view.filter, cap, filter, poll.version} \union {under[n] : n \in Lines} \subseteq 0 .. MaxSwaps
    /\ running \in 0 .. MaxCalls

(* The count the reader admits by is the calls that hold a place, so no more  *)
(* than MaxCalls of them run at once, however refusals, finished calls and    *)
(* failed threads interleave.                                                 *)
BoundKept ==
    LET holding == {n \in Lines : calls[n] \in {"running", "result", "panic", "written"}}
    IN  running = Cardinality(holding) /\ Cardinality(holding) <= MaxCalls

(* What JSON-RPC owes a line: nothing for a blank line, a notification and a  *)
(* response, one answer for everything else.                                  *)
OwedNothing(m) ==
    m.text = "blank" \/ (m.text = "json" /\ m.object /\ (IF m.method = "none" THEN m.reply ELSE m.id = "absent"))
Answers(n) == {i \in 1 .. Len(out) : out[i].line = n}
Legible(m) == m.text = "json" /\ m.object /\ m.id = "given" /\ m.twice # "id"
Given(m) == m.text = "json" /\ m.object /\ m.id = "given"

(* A line is answered once, under its own id where it has one, and not at all *)
(* when nothing is owed; one that names a member twice is refused, never      *)
(* acted on; and a session that comes to its end with a client that still     *)
(* reads has answered every line it read.                                     *)
AnsweredOnce ==
    \A n \in 1 .. nth :
        LET m == sent[n].msg
        IN  /\ Cardinality(Answers(n)) <= (IF OwedNothing(m) THEN 0 ELSE 1)
            /\ \A i \in Answers(n) :
                   /\ (Legible(m) => out[i].id = "given") /\ (out[i].id = "given" => Given(m))
                   /\ m.text = "json" /\ m.twice # "none" => out[i].kind \in {"invalid", "tool error"}
            /\ (pc = "ended" /\ ~broken /\ ~OwedNothing(m)) => Answers(n) # {}

(* What a client has been told holds for what it sends afterwards: a list and *)
(* a call are served under the grant of the last notification it had read, or *)
(* a later one, never the one before it.                                      *)
ToldIsBinding ==
    /\ \A i \in 1 .. Len(out) :
           out[i].kind = "list" =>
               /\ out[i].cap >= sent[out[i].line].knows.cap
               /\ out[i].filter >= sent[out[i].line].knows.filter
    /\ \A n \in 1 .. Len(sent) : calls[n] # "none" => under[n] >= sent[n].knows.cap

(* Whenever the poller rests, a client that has read everything knows of the  *)
(* grant in force: no swap goes untold.                                       *)
SwapsAreTold == (poll.at = "sleep" /\ ~broken) => Noted(Len(out)) = [cap |-> cap, filter |-> filter]

(* SERVER_BUSY's comment: "the same call is admitted once one of the running  *)
(* calls has answered".  A client with room for one more call, by the answers *)
(* it has read, is not refused.                                               *)
(* It does not hold: README, Disagreements.                                   *)
AdmittedOnceAnswered ==
    \A i \in 1 .. Len(out) : out[i].kind = "busy" => sent[out[i].line].pending >= MaxCalls

(* refuse_repeated's comment: "a repeated `id` answers under `null`".         *)
(* It does not hold: README, Disagreements.                                   *)
RepeatedIdUnderNull ==
    \A i \in 1 .. Len(out) :
        (out[i].line > 0 /\ sent[out[i].line].msg.text = "json" /\ sent[out[i].line].msg.twice = "id") => out[i].id = "null"

(* A long poll holds nothing else up: every other line the session reads is   *)
(* in the end answered, whatever calls never come back.                       *)
OthersAnswered ==
    \A n \in Lines :
        (nth >= n /\ ~OwedNothing(sent[n].msg) /\ ~sent[n].msg.slow)
            ~> (broken \/ pc = "ended" \/ Answers(n) # {})
=============================================================================
