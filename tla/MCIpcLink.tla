------------------------------ MODULE MCIpcLink ------------------------------
(* Calls on the socket, plain or streamed, and streamed calls on QUIC.  A     *)
(* behaviour is of three callers, one of them writing, over two connections:  *)
(* enough for a link to be spent under a waiting caller and for a replay to   *)
(* meet a second failure while the abandoned connection is still being served;*)
(* or of two streamed calls in turn, with bodies longer than the socket holds *)
(* and than the door will hold, declared right and wrong, or whose reader     *)
(* fails; or of one such call on QUIC, or an upload and a call without one at *)
(* once, to a door that answers one at a time; or of one resolver's calls in  *)
(* turn, to a server that is twice replaced by another of five builds.        *)
EXTENDS IpcLink, WireHello, FiniteSetTheorems, TLC, TLAPS

CONSTANTS
    sink, source, other, k1, k2, put, get, NoLen,
    NCalls, Wire, MaxHeld, Uploads, Answers,                    \* IpcStream's
    Streams, Links, MaxCalls, Window, StreamUploads, StreamAnswers  \* QuicStream's

VARIABLES
    part,       \* "plain", "streamed", "quic" or "hello"
    call, spc, slink, sdialed, sent, got, seen, upload, taken, view, sanswer, runs,
    sc2s, ss2c, srv,
    qpc, qstream, qsent, qgot, qseen, qupload, qtaken, qview, qanswer, qruns, qsrv,
    current, stale, qlink

streamVars == <<call, spc, slink, sdialed, sent, got, seen, upload, taken, view, sanswer,
                runs, sc2s, ss2c, srv>>
quicVars == <<qpc, qstream, qsent, qgot, qseen, qupload, qtaken, qview, qanswer, qruns, qsrv,
              current, stale, qlink>>
all == <<part, vars, streamVars, quicVars, helloVars>>

Stream == INSTANCE IpcStream WITH
    pc <- spc, link <- slink, dialed <- sdialed, answer <- sanswer, c2s <- sc2s, s2c <- ss2c

Quic == INSTANCE QuicStream WITH
    Calls <- Streams, Uploads <- StreamUploads, Answers <- StreamAnswers,
    pc <- qpc, stream <- qstream, sent <- qsent, got <- qgot, seen <- qseen, upload <- qupload,
    taken <- qtaken, view <- qview, answer <- qanswer, runs <- qruns, srv <- qsrv, link <- qlink

ASSUME SocketAssumption == Stream!StreamAssumption
ASSUME QuicAssumption == Quic!QuicStreamAssumption

B(len, gives, fails) == [len |-> len, gives |-> gives, fails |-> fails]
MCUploads == {B(NoLen, 2, FALSE), B(1, 2, FALSE), B(NoLen, 1, TRUE)}
MCAnswers == {B(2, 2, FALSE), B(2, 1, FALSE), B(NoLen, 1, TRUE)}

MCStreams == {put, get}
MCStreamUploads == put :> MCUploads \union {B(NoLen, 3, FALSE)} @@ get :> {None}
MCStreamAnswers == put :> MCAnswers @@ get :> {B(1, 0, TRUE)}

(* An upload on QUIC by itself, whatever its body and its answer; or one body *)
(* and one answer, beside a call without a body.                              *)
Alone == qpc'[get] = "new"
Beside == qupload'[put] \in {None, B(1, 2, FALSE)} /\ qanswer'[put] \in {None, B(2, 2, FALSE)}

Build(lo, hi) == [lo |-> lo, hi |-> hi]
MCBuilds == {Build(5, 5), Build(7, 7), Build(7, 9), Build(7, 10), Build(9, 11)}

MCCalls == {sink, source, other}
MCMutating == {sink}
MCConns == {k1, k2}

MCInit ==
    /\ part \in {"plain", "streamed", "quic", "alone", "hello"}
    /\ Init /\ Stream!Init /\ Quic!Init /\ HelloInit
    /\ part # "hello" => /\ kind = "socket" /\ ours = Build(7, 10) /\ theirs = ours
                         /\ ~wcall.ask.head /\ ~wcall.ask.context

MCNext ==
    /\ part' = part
    /\ \/ part = "plain" /\ Next /\ UNCHANGED <<streamVars, quicVars, helloVars>>
       \/ part = "streamed" /\ Stream!Next /\ UNCHANGED <<vars, quicVars, helloVars>>
       \/ part = "quic" /\ Quic!Next /\ Beside /\ UNCHANGED <<vars, streamVars, helloVars>>
       \/ part = "alone" /\ Quic!Next /\ Alone /\ UNCHANGED <<vars, streamVars, helloVars>>
       \/ part = "hello" /\ HelloNext /\ UNCHANGED <<vars, streamVars, quicVars>>

MCSpec == MCInit /\ [][MCNext]_all

(* On either wire a body is whole or refused, a call is dispatched once at    *)
(* most, and a refusal that was written is read.                              *)
BodiesAreWhole == Stream!BodiesAreWhole /\ Quic!StreamedCallsHold

(* The two read-only calls and the two connections are interchangeable. *)
Interchangeable == Permutations({source, other}) \cup Permutations(MCConns)

-----------------------------------------------------------------------------
(* Proofs about the socket transport, for any set of callers and connections. *)

USE LinkAssumption

(* A transport nobody has called yet has a state of the right shape.          *)
LEMMA TypeInit == Init => TypeOK
BY DEF Init, TypeOK, Domains, Ensured

(* Every step keeps the domains. *)
LEMMA DomainStep == Domains /\ Ensured /\ [Next]_vars => Domains'
<1> SUFFICES ASSUME Domains, Ensured, [Next]_vars PROVE Domains'
  OBVIOUS
<1> USE DEF Domains, callVars, connVars
<1>1. ASSUME NEW c \in Calls, Submit(c) PROVE Domains'
  BY <1>1 DEF Submit
<1>2. ASSUME NEW c \in Calls, Expire(c) PROVE Domains'
  BY <1>2 DEF Expire
<1>3. ASSUME NEW c \in Calls, Lock(c) PROVE Domains'
  BY <1>3 DEF Lock, Start
<1>4. ASSUME NEW c \in Calls, DialFails(c) PROVE Domains'
  BY <1>4 DEF DialFails, Return, Release
<1>5. ASSUME NEW c \in Calls, Write(c) PROVE Domains'
  <2>1. on[c] \in Conns
    BY <1>5 DEF Write, Ensured
  <2>2. Append(c2s[on[c]], c) \in Seq(Calls)
    BY <2>1
  <2> QED
    BY <1>5, <2>1, <2>2 DEF Write
<1>6. ASSUME NEW c \in Calls, Read(c) PROVE Domains'
  <2>1. on[c] \in Conns
    BY <1>6 DEF Read, Ensured
  <2>2. /\ Head(s2c[on[c]]) \in ReplyFrame
        /\ Tail(s2c[on[c]]) \in Seq(ReplyFrame)
    BY <1>6, <2>1 DEF Read
  <2>3. Head(s2c[on[c]]).of \in Calls
    BY <2>2 DEF ReplyFrame
  <2> QED
    BY <1>6, <2>1, <2>2, <2>3, ZenonT(30) DEF Read, Return, Release
<1>7. ASSUME NEW c \in Calls, Dead(c) PROVE Domains'
  BY <1>7, ZenonT(30) DEF Dead, DropLink, Return, Release
<1>8. ASSUME NEW c \in Calls, Miss(c) PROVE Domains'
  BY <1>8 DEF Miss, Armed, SpendLink, DropLink, Return, Release
<1>9. ASSUME NEW c \in Calls, NEW k \in Conns, Dial(c, k) PROVE Domains'
  BY <1>9, SMTT(60) DEF Dial, Handshake
<1>10. ASSUME NEW c \in Calls, NEW k \in Conns, Redial(c, k) PROVE Domains'
  BY <1>10 DEF Redial, Handshake
<1>11. ASSUME NEW k \in Conns, ServeRead(k) PROVE Domains'
  BY <1>11, SMTT(60) DEF ServeRead
<1>12. ASSUME NEW k \in Conns, Dispatch(k) PROVE Domains'
  <2>1. serving[k] \in Calls
    BY <1>12 DEF Dispatch, Ensured
  <2> QED
    BY <1>12, <2>1 DEF Dispatch
<1>13. ASSUME NEW k \in Conns, Reply(k) PROVE Domains'
  <2>1. serving[k] \in Calls
    BY <1>13 DEF Reply, Ensured
  <2>2. \A ok \in BOOLEAN : [of |-> serving[k], decodes |-> ok] \in ReplyFrame
    BY <2>1 DEF ReplyFrame
  <2> QED
    BY <1>13, <2>2 DEF Reply
<1>14. ASSUME NEW k \in Conns, ReplyFails(k) PROVE Domains'
  BY <1>14 DEF ReplyFails
<1>15. ASSUME NEW k \in Conns, IdleOut(k) PROVE Domains'
  BY <1>15 DEF IdleOut
<1>16. ASSUME NEW k \in Conns, ServerClose(k) PROVE Domains'
  BY <1>16 DEF ServerClose
<1>17. CASE Crash
  BY <1>17 DEF Crash
<1>18. CASE Restart
  BY <1>18 DEF Restart
<1>19. CASE UNCHANGED vars
  BY <1>19 DEF vars
<1> QED
  BY <1>1, <1>2, <1>3, <1>4, <1>5, <1>6, <1>7, <1>8, <1>9, <1>10, <1>11, <1>12,
     <1>13, <1>14, <1>15, <1>16, <1>17, <1>18, <1>19
     DEF Next, ClientStep, ServerStep

(* Every step keeps a connection under each exchange. *)
LEMMA EnsuredStep == Domains /\ Ensured /\ [Next]_vars => Ensured'
<1> SUFFICES ASSUME Domains, Ensured, [Next]_vars PROVE Ensured'
  OBVIOUS
<1> USE DEF Domains, Ensured, callVars, connVars
<1>1. ASSUME NEW c \in Calls, Submit(c) PROVE Ensured'
  BY <1>1 DEF Submit
<1>2. ASSUME NEW c \in Calls, Expire(c) PROVE Ensured'
  BY <1>2 DEF Expire
<1>3. ASSUME NEW c \in Calls, Lock(c) PROVE Ensured'
  BY <1>3 DEF Lock, Start
<1>4. ASSUME NEW c \in Calls, DialFails(c) PROVE Ensured'
  BY <1>4 DEF DialFails, Return, Release
<1>5. ASSUME NEW c \in Calls, Write(c) PROVE Ensured'
  BY <1>5 DEF Write
<1>6. ASSUME NEW c \in Calls, Read(c) PROVE Ensured'
  <2>1. /\ pc' = [pc EXCEPT ![c] = "done"] /\ on' = [on EXCEPT ![c] = None]
        /\ server' = server /\ serving' = serving
    BY <1>6 DEF Read, Return
  <2> QED
    BY <2>1
<1>7. ASSUME NEW c \in Calls, Dead(c) PROVE Ensured'
  <2>1. /\ on' = [on EXCEPT ![c] = None]
        /\ server' = server /\ serving' = serving
    BY <1>7 DEF Dead, Return
  <2>2. pc' = [pc EXCEPT ![c] = "redial"] \/ pc' = [pc EXCEPT ![c] = "done"]
    BY <1>7 DEF Dead, Return
  <2>3. \A d \in Calls : pc'[d] \in {"write", "read"} => on'[d] \in Conns
    BY <2>1, <2>2
  <2> QED
    BY <2>1, <2>3
<1>8. ASSUME NEW c \in Calls, Miss(c) PROVE Ensured'
  BY <1>8 DEF Miss, Armed, SpendLink, DropLink, Return, Release
<1>9. ASSUME NEW c \in Calls, NEW k \in Conns, Dial(c, k) PROVE Ensured'
  BY <1>9 DEF Dial, Handshake
<1>10. ASSUME NEW c \in Calls, NEW k \in Conns, Redial(c, k) PROVE Ensured'
  BY <1>10 DEF Redial, Handshake
<1>11. ASSUME NEW k \in Conns, ServeRead(k) PROVE Ensured'
  BY <1>11 DEF ServeRead
<1>12. ASSUME NEW k \in Conns, Dispatch(k) PROVE Ensured'
  BY <1>12 DEF Dispatch
<1>13. ASSUME NEW k \in Conns, Reply(k) PROVE Ensured'
  BY <1>13 DEF Reply
<1>14. ASSUME NEW k \in Conns, ReplyFails(k) PROVE Ensured'
  BY <1>14 DEF ReplyFails
<1>15. ASSUME NEW k \in Conns, IdleOut(k) PROVE Ensured'
  BY <1>15 DEF IdleOut
<1>16. ASSUME NEW k \in Conns, ServerClose(k) PROVE Ensured'
  BY <1>16 DEF ServerClose
<1>17. CASE Crash
  BY <1>17 DEF Crash
<1>18. CASE Restart
  BY <1>18 DEF Restart
<1>19. CASE UNCHANGED vars
  BY <1>19 DEF vars
<1> QED
  BY <1>1, <1>2, <1>3, <1>4, <1>5, <1>6, <1>7, <1>8, <1>9, <1>10, <1>11, <1>12,
     <1>13, <1>14, <1>15, <1>16, <1>17, <1>18, <1>19
     DEF Next, ClientStep, ServerStep

(* Only the mutex's holder is in an exchange. *)
LEMMA HolderStep == Domains /\ Ensured /\ HolderInv /\ [Next]_vars => HolderInv'
<1> SUFFICES ASSUME Domains, Ensured, HolderInv, [Next]_vars PROVE HolderInv'
  OBVIOUS
<1> USE DEF Domains, Ensured, HolderInv, InExchange, callVars, connVars
<1>1. ASSUME NEW c \in Calls, Submit(c) PROVE HolderInv'
  BY <1>1 DEF Submit
<1>2. ASSUME NEW c \in Calls, Expire(c) PROVE HolderInv'
  BY <1>2 DEF Expire
<1>3. ASSUME NEW c \in Calls, Lock(c) PROVE HolderInv'
  BY <1>3 DEF Lock, Start
<1>4. ASSUME NEW c \in Calls, DialFails(c) PROVE HolderInv'
  BY <1>4 DEF DialFails, Return, Release
<1>5. ASSUME NEW c \in Calls, Write(c) PROVE HolderInv'
  BY <1>5 DEF Write
<1>6. ASSUME NEW c \in Calls, Read(c) PROVE HolderInv'
  <2>1. pc[c] = "read" /\ on[c] \in Conns /\ holder = c
    BY <1>6 DEF Read
  <2>2. /\ pc' = [pc EXCEPT ![c] = "done"]
        /\ on' = [on EXCEPT ![c] = None]
        /\ holder' = None
        /\ link' = on[c]
        /\ attempt' = attempt /\ client' = client
    BY <1>6 DEF Read, Return, Release
  <2> QED
    BY <2>1, <2>2
<1>7. ASSUME NEW c \in Calls, Dead(c) PROVE HolderInv'
  <2>1. on[c] \in Conns /\ holder = c /\ \A d \in Calls \ {c} : ~InExchange(d)
    BY <1>7 DEF Dead
  <2>2. /\ on' = [on EXCEPT ![c] = None]
        /\ link' = None
        /\ attempt' = attempt
    BY <1>7 DEF Dead, DropLink, Return
  <2>3. \/ pc' = [pc EXCEPT ![c] = "redial"] /\ holder' = c /\ attempt[c] = 1
        \/ pc' = [pc EXCEPT ![c] = "done"] /\ holder' = None
    BY <1>7, <2>1 DEF Dead, MayRedial, Return, Release
  <2>4. CASE pc' = [pc EXCEPT ![c] = "redial"] /\ holder' = c /\ attempt[c] = 1
    BY <2>1, <2>2, <2>4
  <2>5. CASE pc' = [pc EXCEPT ![c] = "done"] /\ holder' = None
    BY <2>1, <2>2, <2>5
  <2> QED
    BY <2>3, <2>4, <2>5
<1>8. ASSUME NEW c \in Calls, Miss(c) PROVE HolderInv'
  BY <1>8 DEF Miss, Armed, SpendLink, DropLink, Return, Release
<1>9. ASSUME NEW c \in Calls, NEW k \in Conns, Dial(c, k) PROVE HolderInv'
  BY <1>9 DEF Dial, Handshake
<1>10. ASSUME NEW c \in Calls, NEW k \in Conns, Redial(c, k) PROVE HolderInv'
  BY <1>10 DEF Redial, Handshake
<1>11. ASSUME NEW k \in Conns, ServeRead(k) PROVE HolderInv'
  BY <1>11 DEF ServeRead
<1>12. ASSUME NEW k \in Conns, Dispatch(k) PROVE HolderInv'
  BY <1>12 DEF Dispatch
<1>13. ASSUME NEW k \in Conns, Reply(k) PROVE HolderInv'
  BY <1>13 DEF Reply
<1>14. ASSUME NEW k \in Conns, ReplyFails(k) PROVE HolderInv'
  BY <1>14 DEF ReplyFails
<1>15. ASSUME NEW k \in Conns, IdleOut(k) PROVE HolderInv'
  BY <1>15 DEF IdleOut
<1>16. ASSUME NEW k \in Conns, ServerClose(k) PROVE HolderInv'
  BY <1>16 DEF ServerClose
<1>17. CASE Crash
  BY <1>17 DEF Crash
<1>18. CASE Restart
  BY <1>18 DEF Restart
<1>19. CASE UNCHANGED vars
  BY <1>19 DEF vars
<1> QED
  BY <1>1, <1>2, <1>3, <1>4, <1>5, <1>6, <1>7, <1>8, <1>9, <1>10, <1>11, <1>12,
     <1>13, <1>14, <1>15, <1>16, <1>17, <1>18, <1>19
     DEF Next, ClientStep, ServerStep

(* A caller dials once. *)
LEMMA DialStep == Domains /\ HolderInv /\ DialInv /\ [Next]_vars => DialInv'
<1> SUFFICES ASSUME Domains, HolderInv, DialInv, [Next]_vars PROVE DialInv'
  OBVIOUS
<1> USE DEF Domains, DialInv, callVars, connVars
<1>1. ASSUME NEW c \in Calls, Submit(c) PROVE DialInv'
  BY <1>1 DEF Submit
<1>2. ASSUME NEW c \in Calls, Expire(c) PROVE DialInv'
  BY <1>2 DEF Expire
<1>3. ASSUME NEW c \in Calls, Lock(c) PROVE DialInv'
  <2>1. /\ UNCHANGED <<dials, attempt>> /\ pc[c] = "lock"
        /\ pc' = [pc EXCEPT ![c] = Start] /\ dialed' = [dialed EXCEPT ![c] = link = None]
    BY <1>3 DEF Lock
  <2>2. pc'[c] = Start /\ \A d \in Calls \ {c} : pc'[d] = pc[d]
    BY <2>1
  <2>3. (link = None => dialed'[c]) /\ \A d \in Calls \ {c} : dialed'[d] = dialed[d]
    BY <2>1
  <2> QED
    BY <2>1, <2>2, <2>3 DEF Start
<1>4. ASSUME NEW c \in Calls, DialFails(c) PROVE DialInv'
  BY <1>4 DEF DialFails, Return, Release
<1>5. ASSUME NEW c \in Calls, Write(c) PROVE DialInv'
  BY <1>5 DEF Write
<1>6. ASSUME NEW c \in Calls, Read(c) PROVE DialInv'
  BY <1>6 DEF Read, Return, Release
<1>7. ASSUME NEW c \in Calls, Dead(c) PROVE DialInv'
  BY <1>7 DEF Dead, DropLink, Return, Release, MayRedial
<1>8. ASSUME NEW c \in Calls, Miss(c) PROVE DialInv'
  BY <1>8 DEF Miss, Armed, SpendLink, DropLink, Return, Release
<1>9. ASSUME NEW c \in Calls, NEW k \in Conns, Dial(c, k) PROVE DialInv'
  BY <1>9 DEF Dial, Handshake
<1>10. ASSUME NEW c \in Calls, NEW k \in Conns, Redial(c, k) PROVE DialInv'
  BY <1>10 DEF Redial, Handshake
<1>11. ASSUME NEW k \in Conns, ServeRead(k) PROVE DialInv'
  BY <1>11 DEF ServeRead
<1>12. ASSUME NEW k \in Conns, Dispatch(k) PROVE DialInv'
  BY <1>12 DEF Dispatch
<1>13. ASSUME NEW k \in Conns, Reply(k) PROVE DialInv'
  BY <1>13 DEF Reply
<1>14. ASSUME NEW k \in Conns, ReplyFails(k) PROVE DialInv'
  BY <1>14 DEF ReplyFails
<1>15. ASSUME NEW k \in Conns, IdleOut(k) PROVE DialInv'
  BY <1>15 DEF IdleOut
<1>16. ASSUME NEW k \in Conns, ServerClose(k) PROVE DialInv'
  BY <1>16 DEF ServerClose
<1>17. CASE Crash
  BY <1>17 DEF Crash
<1>18. CASE Restart
  BY <1>18 DEF Restart
<1>19. CASE UNCHANGED vars
  BY <1>19 DEF vars
<1> QED
  BY <1>1, <1>2, <1>3, <1>4, <1>5, <1>6, <1>7, <1>8, <1>9, <1>10, <1>11, <1>12,
     <1>13, <1>14, <1>15, <1>16, <1>17, <1>18, <1>19
     DEF Next, ClientStep, ServerStep

(* What a connection carries is a matter of its two queues and its thread. *)
LEMMA SameFrames ==
  ASSUME NEW k \in Conns,
         c2s'[k] = c2s[k], s2c'[k] = s2c[k], serving'[k] = serving[k]
  PROVE  /\ Clean(k)' <=> Clean(k)
         /\ \A c \in Calls : Carries(c, k)' <=> Carries(c, k)
BY DEF Clean, Carries, Queued, Served, Answered

(* A connection only ever loses what it carries. *)
NoNewFrame(k) ==
  /\ Clean(k) => Clean(k)'
  /\ \A c \in Calls : Carries(c, k) => Carries(c, k)' \/ Clean(k)'

(* A request the server takes moves from the wire into its hands.             *)
LEMMA ServeReadMoves ==
  ASSUME Domains, Ensured, FrameInv, NEW k \in Conns, ServeRead(k)
  PROVE  \A j \in Conns : NoNewFrame(j)
<1>1. \A j \in Conns \ {k} : NoNewFrame(j)
  BY SameFrames DEF ServeRead, Domains, NoNewFrame
<1>2. PICK c \in Calls : Queued(c, k)
  BY DEF ServeRead, FrameInv, Clean, Carries, Served, Answered
<1>3. Served(c, k)'
  BY <1>2 DEF ServeRead, Queued, Served, Domains
<1>4. \A d \in Calls : Carries(d, k) => d = c
  BY <1>2 DEF Queued, Carries, Served, Answered
<1>5. ~Clean(k)
  BY <1>2 DEF Queued, Clean
<1> QED
  BY <1>1, <1>3, <1>4, <1>5 DEF NoNewFrame, Carries

(* A reply moves from the hands of the server onto the wire.                  *)
LEMMA ReplyMoves ==
  ASSUME Domains, Ensured, FrameInv, NEW k \in Conns, Reply(k)
  PROVE  \A j \in Conns : NoNewFrame(j)
<1>1. \A j \in Conns \ {k} : NoNewFrame(j)
  BY SameFrames DEF Reply, Domains, NoNewFrame
<1>2. PICK c \in Calls : serving[k] = c
  BY DEF Reply, Ensured
<1>3. c2s[k] = <<>> /\ s2c[k] = <<>>
  BY <1>2 DEF FrameInv, Clean, Carries, Queued, Served, Answered
<1>4. PICK ok \in BOOLEAN :
        s2c' = [s2c EXCEPT ![k] = Append(@, [of |-> serving[k], decodes |-> ok])]
  BY DEF Reply
<1>5. s2c'[k] = <<[of |-> c, decodes |-> ok]>>
  BY <1>2, <1>3, <1>4 DEF Domains
<1>6. Answered(c, k)'
  BY <1>3, <1>5 DEF Reply, Domains, Answered
<1>7. ~Clean(k) /\ \A d \in Calls : Carries(d, k) => d = c
  BY <1>2, <1>3 DEF Clean, Carries, Queued, Served, Answered
<1> QED
  BY <1>1, <1>6, <1>7 DEF NoNewFrame, Carries

(* A reply that fails leaves the connection carrying nothing.                 *)
LEMMA ReplyFailsMoves ==
  ASSUME Domains, Ensured, FrameInv, NEW k \in Conns, ReplyFails(k)
  PROVE  \A j \in Conns : NoNewFrame(j)
<1>1. \A j \in Conns \ {k} : NoNewFrame(j)
  BY SameFrames DEF ReplyFails, Domains, NoNewFrame
<1>2. PICK c \in Calls : serving[k] = c
  BY DEF ReplyFails, Ensured
<1>3. c2s[k] = <<>> /\ s2c[k] = <<>>
  BY <1>2 DEF FrameInv, Clean, Carries, Queued, Served, Answered
<1>4. Clean(k)'
  BY <1>3 DEF ReplyFails, Domains, Clean
<1> QED
  BY <1>1, <1>4 DEF NoNewFrame

(* A crash takes what was in the hands of the server, and no more.            *)
LEMMA CrashMoves ==
  ASSUME Domains, Ensured, FrameInv, Crash
  PROVE  \A j \in Conns : NoNewFrame(j)
<1> SUFFICES ASSUME NEW j \in Conns PROVE NoNewFrame(j)
  OBVIOUS
<1>1. c2s' = c2s /\ s2c' = s2c /\ serving'[j] = None
  BY DEF Crash
<1> QED
  BY <1>1 DEF NoNewFrame, Clean, Carries, Queued, Served, Answered

(* No step of the server or of its machine makes a frame out of nothing.      *)
LEMMA ServerMoves ==
  ASSUME Domains, Ensured, FrameInv,
         Crash \/ Restart \/ \E k \in Conns : ServerStep(k)
  PROVE  \A j \in Conns : NoNewFrame(j)
<1>1. ASSUME UNCHANGED <<c2s, s2c, serving>> PROVE \A j \in Conns : NoNewFrame(j)
  BY <1>1, SameFrames DEF NoNewFrame
<1>2. CASE Restart
  BY <1>1, <1>2 DEF Restart, connVars
<1>3. ASSUME NEW k \in Conns, Dispatch(k) \/ IdleOut(k) \/ ServerClose(k)
      PROVE  \A j \in Conns : NoNewFrame(j)
  BY <1>1, <1>3 DEF Dispatch, IdleOut, ServerClose
<1> QED
  BY <1>2, <1>3, CrashMoves, ServeReadMoves, ReplyMoves, ReplyFailsMoves
     DEF ServerStep

(* A caller's step that leaves every queue alone moves no frame. *)
LEMMA QuietFrames ==
  ASSUME UNCHANGED <<c2s, s2c, serving>>
  PROVE  \A k \in Conns : /\ Clean(k)' <=> Clean(k)
                          /\ \A c \in Calls : Carries(c, k)' <=> Carries(c, k)
BY SameFrames

(* A written request is the only frame of its connection, and its writer's.   *)
LEMMA WriteFrames ==
  ASSUME Domains, Ensured, HolderInv, FrameInv, NEW c \in Calls, Write(c)
  PROVE  FrameInv'
<1>1. PICK k \in Conns : on[c] = k
  BY DEF Write, Ensured
<1>2. Clean(k) /\ holder = c /\ \A d \in Calls \ {c} : ~InExchange(d)
  BY <1>1 DEF Write, FrameInv, HolderInv, InExchange
<1>3. Carries(c, k)'
  BY <1>1, <1>2 DEF Write, Domains, Clean, Carries, Queued
<1>4. \A j \in Conns \ {k} : /\ Clean(j)' <=> Clean(j)
                             /\ \A d \in Calls : Carries(d, j)' <=> Carries(d, j)
  BY <1>1, SameFrames DEF Write, Domains
<1>5. /\ holder' = c /\ on' = on
      /\ pc' = [pc EXCEPT ![c] = "read"]
  BY <1>2 DEF Write
<1>6. \A j \in Conns : Clean(j)' \/ \E d \in Calls : Carries(d, j)'
  BY <1>3, <1>4 DEF FrameInv
<1>7. \A d \in Calls : pc'[d] # "write"
  BY <1>2, <1>5 DEF InExchange, Domains
<1>8. \A d \in Calls : pc'[d] = "read" => d = c
  BY <1>2, <1>5 DEF InExchange, Domains
<1>9. c # None
  BY LinkAssumption
<1> QED
  BY <1>1, <1>3, <1>5, <1>6, <1>7, <1>8, <1>9 DEF FrameInv

(* A reply that is read leaves its connection clean.                          *)
LEMMA ReadFrames ==
  ASSUME Domains, Ensured, HolderInv, FrameInv, NEW c \in Calls, Read(c)
  PROVE  FrameInv'
<1>1. PICK k \in Conns : on[c] = k
  BY DEF Read, Ensured
<1>2. holder = c /\ \A d \in Calls \ {c} : ~InExchange(d)
  BY <1>1 DEF Read, HolderInv, InExchange
<1>3. Answered(c, k)
  BY <1>1 DEF Read, FrameInv, Clean, Carries, Queued, Served
<1>4. Clean(k)'
  BY <1>1, <1>3 DEF Read, Domains, Clean, Answered
<1>5. \A j \in Conns \ {k} : /\ Clean(j)' <=> Clean(j)
                             /\ \A d \in Calls : Carries(d, j)' <=> Carries(d, j)
  BY <1>1, SameFrames DEF Read, Domains
<1>6. /\ link' = k /\ holder' = None
      /\ pc' = [pc EXCEPT ![c] = "done"]
  BY <1>1 DEF Read, Return, Release
<1>7. \A d \in Calls : ~(pc'[d] \in {"write", "read"})
  BY <1>2, <1>6 DEF InExchange, Domains
<1> QED
  BY <1>4, <1>5, <1>6, <1>7 DEF FrameInv

(* A connection just dialled is clean.                                        *)
LEMMA HandshakeFrames ==
  ASSUME Domains, Ensured, HolderInv, FrameInv,
         NEW c \in Calls, NEW k \in Conns, Dial(c, k) \/ Redial(c, k)
  PROVE  FrameInv'
<1>1. /\ pc[c] \in {"dial", "redial"}
      /\ server[k] = "closed"
      /\ c2s' = [c2s EXCEPT ![k] = <<>>] /\ s2c' = [s2c EXCEPT ![k] = <<>>]
      /\ on' = [on EXCEPT ![c] = k]
      /\ pc' = [pc EXCEPT ![c] = "write"]
      /\ holder' = holder /\ serving' = serving
  BY DEF Dial, Redial, Handshake
<1>2. holder = c /\ \A d \in Calls \ {c} : ~InExchange(d)
  BY <1>1 DEF HolderInv, InExchange
<1>3. Clean(k)'
  BY <1>1 DEF Clean, Ensured, Domains
<1>4. \A j \in Conns \ {k} : /\ Clean(j)' <=> Clean(j)
                             /\ \A d \in Calls : Carries(d, j)' <=> Carries(d, j)
  BY <1>1, SameFrames DEF Domains
<1>5. \A d \in Calls : pc'[d] \in {"write", "read"} => d = c /\ on'[d] = k /\ pc'[d] = "write"
  BY <1>1, <1>2 DEF InExchange, Domains
<1>6. c # None
  BY LinkAssumption
<1> QED
  BY <1>1, <1>2, <1>3, <1>4, <1>5, <1>6 DEF FrameInv

(* A connection carries one call at most, and an idle link none. *)
LEMMA FrameStep ==
  Domains /\ Ensured /\ HolderInv /\ FrameInv /\ [Next]_vars => FrameInv'
<1> SUFFICES ASSUME Domains, Ensured, HolderInv, FrameInv, [Next]_vars
             PROVE  FrameInv'
  OBVIOUS
<1>1. CASE Crash \/ Restart \/ \E k \in Conns : ServerStep(k)
  <2>1. UNCHANGED <<link, holder, pc, on>>
    BY <1>1 DEF Crash, Restart, ServerStep, ServeRead, Dispatch, Reply, ReplyFails,
                IdleOut, ServerClose, callVars
  <2>2. \A j \in Conns : NoNewFrame(j)
    BY <1>1, ServerMoves
  <2> QED
    BY <2>1, <2>2 DEF FrameInv, NoNewFrame, Domains, Ensured
<1>2. ASSUME NEW c \in Calls, Submit(c) \/ Expire(c) PROVE FrameInv'
  <2>1. /\ UNCHANGED <<c2s, s2c, serving, link, holder, on>>
        /\ \A d \in Calls : pc'[d] \in {"write", "read"} => pc'[d] = pc[d]
    BY <1>2 DEF Submit, Expire, connVars, Domains
  <2> QED
    BY <2>1, QuietFrames DEF FrameInv, Domains, Ensured
<1>3. ASSUME NEW c \in Calls, Lock(c) PROVE FrameInv'
  <2>1. /\ UNCHANGED <<c2s, s2c, serving, link>>
        /\ holder = None /\ holder' = c /\ c # None
        /\ on' = [on EXCEPT ![c] = link]
        /\ pc' = [pc EXCEPT ![c] = IF link = None THEN "dial" ELSE "write"]
    BY <1>3, LinkAssumption DEF Lock, Start, connVars
  <2>2. \A d \in Calls : pc[d] \notin {"write", "read"}
    BY <2>1 DEF HolderInv, InExchange
  <2>3. \A d \in Calls : pc'[d] \in {"write", "read"} =>
          pc'[d] = "write" /\ link # None /\ on'[d] = link
    BY <2>1, <2>2 DEF Domains
  <2> QED
    BY <2>1, <2>3, QuietFrames DEF FrameInv, Domains
<1>4. ASSUME NEW c \in Calls, DialFails(c) \/ Dead(c) \/ Miss(c) PROVE FrameInv'
  <2>1. UNCHANGED <<c2s, s2c, serving>>
    BY <1>4 DEF DialFails, Dead, Miss, connVars
  <2>2. link' = None
    BY <1>4 DEF DialFails, Dead, Miss, SpendLink, DropLink, HolderInv
  <2>3. \A d \in Calls \ {c} : ~InExchange(d)
    BY <1>4 DEF DialFails, Dead, Miss, Armed, HolderInv, InExchange
  <2>4. pc' = [pc EXCEPT ![c] = "redial"] \/ pc' = [pc EXCEPT ![c] = "done"]
    BY <1>4 DEF DialFails, Dead, Miss, Return
  <2>5. \A d \in Calls : pc'[d] \notin {"write", "read"}
    BY <2>3, <2>4, ZenonT(60) DEF InExchange, Domains
  <2> QED
    BY <2>1, <2>2, <2>5, QuietFrames DEF FrameInv
<1>5. CASE UNCHANGED vars
  BY <1>5, QuietFrames DEF vars, callVars, connVars, FrameInv, Domains, Ensured
<1> QED
  BY <1>1, <1>2, <1>3, <1>4, <1>5, WriteFrames, ReadFrames, HandshakeFrames
     DEF Next, ClientStep

(* A call has been sent at most twice.                                        *)
LEMMA SentNat == Domains => \A c \in Calls : Sent(c) \in Nat /\ Sent(c) <= 2
BY DEF Domains, Sent

(* What may still be run, and what has been, on the connections a step leaves *)
(* as they were.                                                              *)
LEMMA SameRuns ==
  ASSUME NEW k \in Conns, c2s'[k] = c2s[k], s2c'[k] = s2c[k],
         serving'[k] = serving[k], server'[k] = server[k]
  PROVE  \A c \in Calls : /\ Pending(c, k)' <=> Pending(c, k)
                          /\ Ran(c, k)' <=> Ran(c, k)
BY DEF Pending, Ran, Queued, Served, Answered

(* A step that adds no frame, runs nothing and moves no caller. *)
NothingRun ==
  /\ \A c \in Calls, k \in Conns : /\ Pending(c, k)' => Pending(c, k)
                                   /\ Ran(c, k)' => Ran(c, k)
  /\ executed' = executed

(* What has been sent and run stays accounted for when nothing moves.         *)
LEMMA NothingRunKeeps ==
  ASSUME Domains, RunInv, NothingRun, UNCHANGED <<pc, on, attempt>>
  PROVE  RunInv'
<1>1. \A c \in Calls : Sent(c)' = Sent(c)
  BY DEF Sent
<1> QED
  BY <1>1 DEF RunInv, NothingRun

(* A caller's step is accounted for if it only raises what it has sent, and   *)
(* leaves no frame pending unless it is still reading or gone.                *)
LEMMA CallerMoves ==
  ASSUME Domains, Domains', RunInv, NothingRun, NEW c \in Calls,
         \A d \in Calls \ {c} : pc'[d] = pc[d] /\ on'[d] = on[d] /\ attempt'[d] = attempt[d],
         Sent(c) <= Sent(c)',
         \/ \A k \in Conns : ~Pending(c, k)'
         \/ pc[c] \in {"read", "done"} /\ pc'[c] = "done"
  PROVE  RunInv'
<1>1. \A d \in Calls \ {c} : Sent(d)' = Sent(d)
  BY DEF Sent
<1>2. Sent(c) \in Nat /\ Sent(c)' \in Nat /\ executed[c] \in Nat
  <2>1. attempt'[c] \in {1, 2}
    BY DEF Domains
  <2>2. Sent(c)' \in Nat
    BY <2>1 DEF Sent
  <2> QED
    BY <2>2, SentNat DEF Domains
<1>3. \A d \in Calls : executed'[d] <= Sent(d)'
  BY <1>1, <1>2 DEF RunInv, NothingRun
<1>4. ASSUME NEW d \in Calls, NEW k \in Conns, Pending(d, k)'
      PROVE  /\ pc'[d] \in {"read", "done"}
             /\ pc'[d] = "read" => on'[d] = k
             /\ executed'[d] < Sent(d)'
  <2>1. Pending(d, k)
    BY <1>4 DEF NothingRun
  <2>2. CASE d = c
    BY <1>2, <1>4, <2>1, <2>2 DEF RunInv, NothingRun
  <2>3. CASE d # c
    BY <1>1, <2>1, <2>3 DEF RunInv, NothingRun
  <2> QED
    BY <2>2, <2>3
<1>5. \A d \in Calls, k \in Conns, j \in Conns : Pending(d, k)' /\ Pending(d, j)' => k = j
  BY DEF RunInv, NothingRun
<1>6. \A d \in Calls, k \in Conns : Ran(d, k)' => executed'[d] > 0
  BY DEF RunInv, NothingRun
<1> QED
  BY <1>3, <1>4, <1>5, <1>6 DEF RunInv

(* A step that leaves the wire and the server alone runs nothing.             *)
LEMMA QuietRuns ==
  ASSUME UNCHANGED <<c2s, s2c, serving, server, executed>>
  PROVE  NothingRun
BY SameRuns DEF NothingRun

(* A caller that neither writes nor reads stays accounted for.                *)
LEMMA QuietCallerRuns ==
  ASSUME Domains, Ensured, HolderInv, FrameInv, RunInv, Domains', NEW c \in Calls,
         Submit(c) \/ Expire(c) \/ Lock(c) \/ DialFails(c) \/ Dead(c) \/ Miss(c)
  PROVE  RunInv'
<1>1. UNCHANGED <<c2s, s2c, serving, server, executed>>
  BY DEF Submit, Expire, Lock, DialFails, Dead, Miss, SpendLink, DropLink, connVars
<1>2. \A d \in Calls \ {c} : pc'[d] = pc[d] /\ on'[d] = on[d] /\ attempt'[d] = attempt[d]
  BY DEF Submit, Expire, Lock, DialFails, Dead, Miss, Return, Domains
<1>3. attempt'[c] = attempt[c] /\ attempt[c] \in {1, 2}
  BY DEF Submit, Expire, Lock, DialFails, Dead, Miss, Domains
<1>4. CASE Submit(c) \/ Lock(c)
  <2>1. pc[c] \in {"new", "lock"} /\ pc'[c] \in {"lock", "dial", "write"} /\ attempt[c] = 1
    BY <1>4 DEF Submit, Lock, Start, Domains, HolderInv
  <2>2. \A k \in Conns : ~Pending(c, k)
    BY <2>1 DEF RunInv
  <2>3. Sent(c) = 0 /\ Sent(c)' = 0
    BY <1>3, <2>1 DEF Sent
  <2> QED
    BY <1>1, <1>2, <2>2, <2>3, QuietRuns, CallerMoves DEF NothingRun
<1>5. CASE Expire(c)
  BY <1>1, <1>5, QuietRuns, NothingRunKeeps DEF Expire
<1>6. CASE DialFails(c) \/ Miss(c)
  <2>1. pc[c] \in {"dial", "redial", "write", "read"} /\ pc'[c] = "done"
    BY <1>6 DEF DialFails, Miss, Armed, Return, Domains
  <2>2. Sent(c) <= Sent(c)'
    BY <1>3, <2>1 DEF Sent
  <2>3. pc[c] # "read" => \A k \in Conns : ~Pending(c, k)
    BY <2>1 DEF RunInv
  <2> QED
    BY <1>1, <1>2, <2>1, <2>2, <2>3, QuietRuns, CallerMoves DEF NothingRun
<1>7. CASE Dead(c)
  <2>1. pc[c] \in {"write", "read"} /\ on[c] \in Conns /\ server[on[c]] = "closed"
    BY <1>7 DEF Dead, Ensured
  <2>2. \A k \in Conns : ~Pending(c, k)
    BY <2>1 DEF RunInv, Pending
  <2>3. \/ pc'[c] = "done"
        \/ /\ pc'[c] = "redial" /\ attempt[c] = 1
           /\ pc[c] = "write" \/ c \notin Mutating
    BY <1>7 DEF Dead, MayRedial, ReplayMayFollow, Return, Domains
  <2>4. Sent(c) <= Sent(c)'
    BY <1>3, <2>1, <2>3 DEF Sent
  <2> QED
    BY <1>1, <1>2, <2>2, <2>4, QuietRuns, CallerMoves DEF NothingRun
<1> QED
  BY <1>4, <1>5, <1>6, <1>7

(* A request written is one more sent, and one that may be run.               *)
LEMMA WriteRuns ==
  ASSUME Domains, Ensured, HolderInv, FrameInv, RunInv, Domains',
         NEW c \in Calls, Write(c)
  PROVE  RunInv'
<1>1. PICK k \in Conns : on[c] = k
  BY DEF Write, Ensured
<1>2. pc[c] = "write" /\ Clean(k)
  BY <1>1 DEF Write, FrameInv
<1>3. /\ pc' = [pc EXCEPT ![c] = "read"]
      /\ UNCHANGED <<on, attempt, server, serving, s2c, executed>>
      /\ c2s' = [c2s EXCEPT ![k] = Append(@, c)]
  BY <1>1 DEF Write
<1>4. Queued(c, k)'
  BY <1>2, <1>3 DEF Domains, Clean, Queued
<1>5. \A d \in Calls : (Pending(d, k)' => d = c) /\ ~Ran(d, k)'
  BY <1>4, LinkAssumption DEF Pending, Ran, Queued, Served, Answered
<1>6. \A j \in Conns \ {k}, d \in Calls : /\ Pending(d, j)' <=> Pending(d, j)
                                          /\ Ran(d, j)' <=> Ran(d, j)
  BY <1>3, SameRuns DEF Domains
<1>7. \A j \in Conns : ~Pending(c, j)
  BY <1>2 DEF RunInv
<1>8. \A d \in Calls \ {c} : Sent(d)' = Sent(d) /\ pc'[d] = pc[d]
  BY <1>3 DEF Sent, Domains
<1>9. Sent(c)' = Sent(c) + 1 /\ executed[c] <= Sent(c) /\ pc'[c] = "read"
  <2>1. attempt[c] \in {1, 2} /\ attempt'[c] = attempt[c] /\ pc'[c] = "read"
    BY <1>3 DEF Domains
  <2> QED
    BY <1>2, <2>1 DEF Sent, RunInv
<1>10. executed[c] \in Nat /\ Sent(c) \in Nat
  BY SentNat DEF Domains
<1>11. \A d \in Calls : executed'[d] <= Sent(d)'
  BY <1>3, <1>8, <1>9, <1>10 DEF RunInv
<1>12. ASSUME NEW d \in Calls, NEW j \in Conns, Pending(d, j)'
       PROVE  /\ pc'[d] \in {"read", "done"}
              /\ pc'[d] = "read" => on'[d] = j
              /\ executed'[d] < Sent(d)'
  <2>1. CASE d = c
    BY <1>1, <1>3, <1>6, <1>7, <1>9, <1>10, <1>12, <2>1
  <2>2. CASE d # c
    BY <1>3, <1>5, <1>6, <1>8, <1>12, <2>2 DEF RunInv
  <2> QED
    BY <2>1, <2>2
<1>13. \A d \in Calls, j \in Conns, i \in Conns : Pending(d, j)' /\ Pending(d, i)' => j = i
  BY <1>5, <1>6, <1>7 DEF RunInv
<1>14. \A d \in Calls, j \in Conns : Ran(d, j)' => executed'[d] > 0
  BY <1>3, <1>5, <1>6 DEF RunInv
<1> QED
  BY <1>11, <1>12, <1>13, <1>14 DEF RunInv

(* A reply read settles what its request may have run.                        *)
LEMMA ReadRuns ==
  ASSUME Domains, Ensured, HolderInv, FrameInv, RunInv, Domains',
         NEW c \in Calls, Read(c)
  PROVE  RunInv'
<1>1. PICK k \in Conns : on[c] = k
  BY DEF Read, Ensured
<1>2. Answered(c, k)
  BY <1>1 DEF Read, FrameInv, Clean, Carries, Queued, Served
<1>3. Clean(k)'
  BY <1>1, <1>2 DEF Read, Domains, Clean, Answered
<1>4. \A d \in Calls : ~Pending(d, k)' /\ ~Ran(d, k)'
  BY <1>3, LinkAssumption DEF Clean, Pending, Ran, Queued, Served, Answered
<1>5. \A j \in Conns \ {k}, d \in Calls : /\ Pending(d, j)' <=> Pending(d, j)
                                          /\ Ran(d, j)' <=> Ran(d, j)
  BY <1>1, SameRuns DEF Read, Domains
<1>6. NothingRun
  BY <1>4, <1>5 DEF NothingRun, Read
<1>7. /\ pc' = [pc EXCEPT ![c] = "done"] /\ on' = [on EXCEPT ![c] = None]
      /\ attempt' = attempt /\ pc[c] = "read"
  BY DEF Read, Return
<1>8. Sent(c) <= Sent(c)'
  <2>1. attempt[c] \in {1, 2} /\ attempt'[c] = attempt[c] /\ pc'[c] = "done"
    BY <1>7 DEF Domains
  <2> QED
    BY <1>7, <2>1 DEF Sent
<1> QED
  BY <1>6, <1>7, <1>8, CallerMoves, ZenonT(120) DEF Domains

(* A connection just dialled has run nothing of anybody.                      *)
LEMMA HandshakeRuns ==
  ASSUME Domains, Ensured, HolderInv, FrameInv, RunInv, Domains',
         NEW c \in Calls, NEW k \in Conns, Dial(c, k) \/ Redial(c, k)
  PROVE  RunInv'
<1>1. /\ server[k] = "closed" /\ server' = [server EXCEPT ![k] = "reading"]
      /\ c2s' = [c2s EXCEPT ![k] = <<>>] /\ s2c' = [s2c EXCEPT ![k] = <<>>]
      /\ on' = [on EXCEPT ![c] = k]
      /\ pc' = [pc EXCEPT ![c] = "write"]
      /\ serving' = serving /\ executed' = executed
  BY DEF Dial, Redial, Handshake
<1>2. Clean(k)'
  BY <1>1 DEF Clean, Ensured, Domains
<1>3. \A d \in Calls : ~Pending(d, k)' /\ ~Ran(d, k)'
  BY <1>2, LinkAssumption DEF Clean, Pending, Ran, Queued, Served, Answered
<1>4. \A j \in Conns \ {k}, d \in Calls : /\ Pending(d, j)' <=> Pending(d, j)
                                          /\ Ran(d, j)' <=> Ran(d, j)
  BY <1>1, SameRuns DEF Domains
<1>5. NothingRun
  BY <1>1, <1>3, <1>4 DEF NothingRun
<1>6. /\ \A d \in Calls \ {c} : attempt'[d] = attempt[d]
      /\ attempt[c] = 1
      /\ \/ pc[c] = "dial" /\ attempt'[c] = 1
         \/ pc[c] = "redial" /\ attempt'[c] = 2
  BY DEF Dial, Redial, HolderInv, Domains
<1>7. Sent(c) <= Sent(c)'
  BY <1>1, <1>6 DEF Sent, Domains
<1>8. \A j \in Conns : ~Pending(c, j)'
  BY <1>5, <1>6 DEF NothingRun, RunInv
<1>9. \A d \in Calls \ {c} : pc'[d] = pc[d] /\ on'[d] = on[d]
  BY <1>1 DEF Domains
<1> QED
  BY <1>5, <1>6, <1>7, <1>8, <1>9, CallerMoves

(* A request that is run was sent, and had not been run on this link.         *)
LEMMA DispatchRuns ==
  ASSUME Domains, Ensured, FrameInv, RunInv, NEW k \in Conns, Dispatch(k)
  PROVE  RunInv'
<1>1. PICK c \in Calls : serving[k] = c
  BY DEF Dispatch, Ensured
<1>2. Served(c, k)
  BY <1>1, LinkAssumption DEF FrameInv, Clean, Carries, Queued, Served, Answered
<1>3. Pending(c, k) /\ executed[c] < Sent(c)
  BY <1>2 DEF Dispatch, Pending, RunInv
<1>4. /\ executed' = [executed EXCEPT ![c] = @ + 1]
      /\ server' = [server EXCEPT ![k] = "replying"]
      /\ UNCHANGED <<pc, on, attempt, c2s, s2c, serving>>
  BY <1>1 DEF Dispatch, callVars
<1>5. \A d \in Calls : Sent(d)' = Sent(d)
  BY <1>4 DEF Sent
<1>6. \A d \in Calls : ~Pending(d, k)' /\ (Ran(d, k)' => d = c)
  BY <1>1, <1>2, <1>4 DEF Domains, Pending, Ran, Queued, Served, Answered
<1>7. \A j \in Conns \ {k}, d \in Calls : /\ Pending(d, j)' <=> Pending(d, j)
                                          /\ Ran(d, j)' <=> Ran(d, j)
  BY <1>4, SameRuns DEF Domains
<1>8. \A j \in Conns : ~Pending(c, j)'
  BY <1>3, <1>6, <1>7 DEF RunInv
<1>9. /\ executed'[c] = executed[c] + 1 /\ executed[c] \in Nat /\ Sent(c) \in Nat
      /\ \A d \in Calls \ {c} : executed'[d] = executed[d]
  BY <1>4, SentNat DEF Domains
<1>10. \A d \in Calls : executed'[d] <= Sent(d)'
  BY <1>3, <1>5, <1>9 DEF RunInv
<1>11. ASSUME NEW d \in Calls, NEW j \in Conns, Pending(d, j)'
       PROVE  /\ pc'[d] \in {"read", "done"}
              /\ pc'[d] = "read" => on'[d] = j
              /\ executed'[d] < Sent(d)'
  <2>1. d # c /\ j # k /\ Pending(d, j)
    BY <1>6, <1>7, <1>8, <1>11
  <2> QED
    BY <1>4, <1>5, <1>9, <2>1 DEF RunInv
<1>12. \A d \in Calls, j \in Conns, i \in Conns : Pending(d, j)' /\ Pending(d, i)' => j = i
  BY <1>6, <1>7 DEF RunInv
<1>13. ASSUME NEW d \in Calls, NEW j \in Conns, Ran(d, j)' PROVE executed'[d] > 0
  <2>1. CASE d = c
    BY <1>9, <2>1
  <2>2. CASE d # c
    BY <1>6, <1>7, <1>9, <1>13, <2>2 DEF RunInv
  <2> QED
    BY <2>1, <2>2
<1> QED
  BY <1>10, <1>11, <1>12, <1>13 DEF RunInv

(* Nothing else the server does runs a request.                               *)
LEMMA ServerRuns ==
  ASSUME Domains, Ensured, FrameInv, RunInv,
         \/ Crash \/ Restart
         \/ \E k \in Conns : \/ ServeRead(k) \/ Reply(k) \/ ReplyFails(k)
                             \/ IdleOut(k) \/ ServerClose(k)
  PROVE  RunInv'
<1>1. UNCHANGED <<pc, on, attempt, executed>>
  BY DEF Crash, Restart, ServeRead, Reply, ReplyFails, IdleOut, ServerClose, callVars
<1> SUFFICES NothingRun
  BY <1>1, NothingRunKeeps
<1>2. CASE Restart
  BY <1>2, QuietRuns DEF Restart, connVars
<1>3. CASE Crash
  <2>1. \A j \in Conns : server'[j] = "closed" /\ serving'[j] = None /\ UNCHANGED <<c2s, s2c>>
    BY <1>3 DEF Crash
  <2>2. \A d \in Calls, j \in Conns : ~Pending(d, j)' /\ ~Served(d, j)'
    BY <2>1, LinkAssumption DEF Pending, Served
  <2>3. \A d \in Calls, j \in Conns : Answered(d, j)' => Answered(d, j)
    <3> SUFFICES ASSUME NEW d \in Calls, NEW j \in Conns, Answered(d, j)'
                 PROVE  Answered(d, j)
      OBVIOUS
    <3>1. c2s[j] = <<>> /\ s2c[j] # <<>>
          /\ \E ok \in BOOLEAN : s2c[j] = <<[of |-> d, decodes |-> ok]>>
      BY <2>1 DEF Answered
    <3>2. serving[j] = None
      BY <3>1 DEF FrameInv, Clean, Carries, Queued, Served, Answered
    <3> QED
      BY <3>1, <3>2 DEF Answered
  <2>4. \A d \in Calls, j \in Conns : Ran(d, j)' => Ran(d, j)
    BY <2>2, <2>3 DEF Ran
  <2> QED
    BY <1>1, <2>2, <2>4 DEF NothingRun
<1>4. ASSUME NEW k \in Conns, IdleOut(k) \/ ServerClose(k) PROVE NothingRun
  <2>1. /\ UNCHANGED <<c2s, s2c, serving>> /\ serving[k] = None
        /\ server[k] \in {"reading", "closing"} /\ server'[k] \in {"closing", "closed"}
    BY <1>4 DEF IdleOut, ServerClose, Ensured, Domains
  <2>2. \A d \in Calls : (Pending(d, k)' => Pending(d, k)) /\ (Ran(d, k)' => Ran(d, k))
    BY <2>1, LinkAssumption DEF Pending, Ran, Queued, Served, Answered
  <2>3. \A j \in Conns \ {k}, d \in Calls : /\ Pending(d, j)' <=> Pending(d, j)
                                            /\ Ran(d, j)' <=> Ran(d, j)
    BY <1>4, SameRuns DEF Domains, IdleOut, ServerClose
  <2> QED
    BY <1>1, <2>2, <2>3 DEF NothingRun
<1>5. ASSUME NEW k \in Conns, ServeRead(k) PROVE NothingRun
  <2>1. PICK c \in Calls : Queued(c, k)
    BY <1>5 DEF ServeRead, FrameInv, Clean, Carries, Served, Answered
  <2>2. Served(c, k)' /\ server'[k] = "dispatching" /\ server[k] = "reading"
    BY <1>5, <2>1 DEF ServeRead, Queued, Served, Domains
  <2>3. \A d \in Calls : (Pending(d, k)' => Pending(d, k)) /\ ~Ran(d, k)'
    BY <2>1, <2>2, LinkAssumption DEF Pending, Ran, Queued, Served, Answered
  <2>4. \A j \in Conns \ {k}, d \in Calls : /\ Pending(d, j)' <=> Pending(d, j)
                                            /\ Ran(d, j)' <=> Ran(d, j)
    BY <1>5, SameRuns DEF Domains, ServeRead
  <2> QED
    BY <1>1, <2>3, <2>4 DEF NothingRun
<1>6. ASSUME NEW k \in Conns, Reply(k) \/ ReplyFails(k) PROVE NothingRun
  <2>1. PICK c \in Calls : serving[k] = c /\ server[k] = "replying"
    BY <1>6 DEF Reply, ReplyFails, Ensured
  <2>2. Served(c, k) /\ Ran(c, k)
    BY <2>1, LinkAssumption DEF FrameInv, Clean, Carries, Queued, Served, Answered, Ran
  <2>3. serving'[k] = None /\ c2s'[k] = <<>>
    BY <1>6, <2>2 DEF Reply, ReplyFails, Served, Domains
  <2>4. s2c'[k] = <<>> \/ \E ok \in BOOLEAN : s2c'[k] = <<[of |-> c, decodes |-> ok]>>
    <3>1. s2c[k] = <<>>
      BY <2>2 DEF Served
    <3>2. CASE ReplyFails(k)
      BY <3>1, <3>2 DEF ReplyFails
    <3>3. CASE Reply(k)
      <4>1. PICK ok \in BOOLEAN :
              s2c' = [s2c EXCEPT ![k] = Append(@, [of |-> serving[k], decodes |-> ok])]
        BY <3>3 DEF Reply
      <4> QED
        BY <2>1, <3>1, <4>1 DEF Domains
    <3> QED
      BY <1>6, <3>2, <3>3
  <2>5. \A d \in Calls : Answered(d, k)' => d = c
    <3> SUFFICES ASSUME NEW d \in Calls, Answered(d, k)' PROVE d = c
      OBVIOUS
    <3>1. PICK ok \in BOOLEAN : s2c'[k] = <<[of |-> d, decodes |-> ok]>>
      BY DEF Answered
    <3>2. PICK ok2 \in BOOLEAN : s2c'[k] = <<[of |-> c, decodes |-> ok2]>>
      BY <2>4, <3>1
    <3>3. [of |-> d, decodes |-> ok] = [of |-> c, decodes |-> ok2]
      BY <3>1, <3>2
    <3> QED
      BY <3>3
  <2>6. \A d \in Calls : ~Pending(d, k)' /\ (Ran(d, k)' => d = c)
    BY <2>3, <2>5, LinkAssumption DEF Pending, Ran, Queued, Served
  <2>7. \A j \in Conns \ {k}, d \in Calls : /\ Pending(d, j)' <=> Pending(d, j)
                                            /\ Ran(d, j)' <=> Ran(d, j)
    BY <1>6, SameRuns DEF Domains, Reply, ReplyFails
  <2> QED
    BY <1>1, <2>2, <2>6, <2>7 DEF NothingRun
<1> QED
  BY <1>2, <1>3, <1>4, <1>5, <1>6

(* No call runs more often than its caller's progress accounts for. *)
LEMMA RunStep ==
  Domains /\ Ensured /\ HolderInv /\ FrameInv /\ RunInv /\ Domains' /\ [Next]_vars
    => RunInv'
<1> SUFFICES ASSUME Domains, Ensured, HolderInv, FrameInv, RunInv, Domains', [Next]_vars
             PROVE  RunInv'
  OBVIOUS
<1>1. CASE UNCHANGED vars
  BY <1>1, QuietRuns, NothingRunKeeps DEF vars, callVars, connVars
<1> QED
  BY <1>1, QuietCallerRuns, WriteRuns, ReadRuns, HandshakeRuns, DispatchRuns, ServerRuns
     DEF Next, ClientStep, ServerStep

(* Only a reply that belongs to the reader is ever the next one. *)
LEMMA NextReplyIsOwn ==
  ASSUME Domains, Ensured, FrameInv, NEW c \in Calls, Read(c)
  PROVE  /\ Answered(c, on[c])
         /\ Head(s2c[on[c]]).of = c
<1>1. on[c] \in Conns /\ s2c[on[c]] # <<>> /\ pc[c] = "read"
  BY DEF Read, Ensured
<1>2. Answered(c, on[c])
  BY <1>1 DEF FrameInv, Clean, Carries, Queued, Served
<1>3. PICK ok \in BOOLEAN : s2c[on[c]] = <<[of |-> c, decodes |-> ok]>>
  BY <1>2 DEF Answered
<1> QED
  BY <1>2, <1>3

(* A caller is given the reply on its own connection, which is its own.       *)
LEMMA OwnReplyStep ==
  Domains /\ Ensured /\ FrameInv /\ OwnReply /\ [Next]_vars => OwnReply'
<1> SUFFICES ASSUME Domains, Ensured, FrameInv, OwnReply, [Next]_vars
             PROVE  OwnReply'
  OBVIOUS
<1>1. ASSUME NEW c \in Calls, Read(c) PROVE OwnReply'
  <2>1. answer' = answer \/ answer' = [answer EXCEPT ![c] = c]
    BY <1>1, NextReplyIsOwn DEF Read
  <2> QED
    BY <2>1 DEF OwnReply, Domains
<1>2. CASE ~(\E c \in Calls : Read(c))
  <2>1. answer' = answer
    BY <1>2, ZenonT(60) DEF Next, ClientStep, ServerStep, Submit, Expire, Lock, DialFails, Write, Dead,
       Miss, Dial, Redial, Handshake, ServeRead, Dispatch, Reply, ReplyFails, IdleOut,
       ServerClose, Crash, Restart, vars, callVars
  <2> QED
    BY <2>1 DEF OwnReply
<1> QED
  BY <1>1, <1>2

(* The invariant holds before the first call.                                 *)
LEMMA LinkInit == Init => LinkInv
BY DEF Init, LinkInv, HolderInv, InExchange, FrameInv, Clean, RunInv, Pending, Ran, Queued,
       Served, Answered, Sent, DialInv, OwnReply

(* Every step keeps the types and the invariant.                              *)
LEMMA LinkStep == TypeOK /\ LinkInv /\ [Next]_vars => TypeOK' /\ LinkInv'
BY DomainStep, EnsuredStep, HolderStep, FrameStep, RunStep, DialStep, OwnReplyStep
   DEF TypeOK, LinkInv

(* The transport's state has the shape of the code's, whatever the callers.   *)
THEOREM LinkTypes == Spec => []TypeOK
<1>1. TypeOK /\ LinkInv /\ [Next]_vars => (TypeOK /\ LinkInv)'
  BY LinkStep
<1> QED
  BY TypeInit, LinkInit, <1>1, PTL DEF Spec

(* The inductive invariant: one caller in the exchange, one call on a         *)
(* connection, and every dispatch accounted for by a frame its caller sent.   *)
THEOREM LinkInvariant == Spec => []LinkInv
<1>1. TypeOK /\ LinkInv /\ [Next]_vars => (TypeOK /\ LinkInv)'
  BY LinkStep
<1> QED
  BY TypeInit, LinkInit, <1>1, PTL DEF Spec

(* Positional matching never hands one caller another's answer.               *)
THEOREM OwnReplyHolds == Spec => []OwnReply
<1>1. LinkInv => OwnReply
  BY DEF LinkInv
<1> QED
  BY <1>1, LinkInvariant, PTL

(* A Sink or a Delete is dispatched once at most, any other call twice.       *)
THEOREM NeverRunAgainHolds == Spec => []NeverRunAgain
<1>1. TypeOK /\ LinkInv => NeverRunAgain
  <2> SUFFICES ASSUME TypeOK, LinkInv, NEW c \in Calls
               PROVE  executed[c] <= IF c \in Mutating THEN 1 ELSE 2
    BY DEF NeverRunAgain
  <2>1. executed[c] <= Sent(c) /\ executed[c] \in Nat /\ attempt[c] \in {1, 2}
    BY DEF LinkInv, RunInv, TypeOK, Domains
  <2>2. Sent(c) \in Nat /\ Sent(c) <= IF c \in Mutating THEN 1 ELSE 2
    BY <2>1 DEF Sent
  <2> QED
    BY <2>1, <2>2
<1> QED
  BY <1>1, LinkTypes, LinkInvariant, PTL

(* One redial a call, and none for the call that healed the link on entry.    *)
THEOREM OneDialHolds == Spec => []OneDial
<1>1. LinkInv => OneDial
  BY DEF LinkInv, DialInv, OneDial
<1> QED
  BY <1>1, LinkInvariant, PTL

(* No earlier call is left on a link that nobody is using.                    *)
THEOREM IdleLinkHolds == Spec => []IdleLinkIsClean
<1>1. LinkInv => IdleLinkIsClean
  BY DEF LinkInv, FrameInv, IdleLinkIsClean, Clean
<1> QED
  BY <1>1, LinkInvariant, PTL

-----------------------------------------------------------------------------
(* The refinement. *)

LEMMA PromiseInit == Init => Promise!Init
BY DEF Init, Promise!Init

(* A step of the transport is one of the promise, or none.                    *)
LEMMA PromiseStep ==
  TypeOK /\ LinkInv /\ [Next]_vars => [Promise!Next]_(Promise!pvars)
<1> SUFFICES ASSUME TypeOK, LinkInv, [Next]_vars
             PROVE  [Promise!Next]_(Promise!pvars)
  OBVIOUS
<1> DEFINE abstract == [c \in Calls |-> CASE pc[c] = "new" -> "new"
                                          [] pc[c] = "done" -> "done"
                                          [] OTHER -> "open"]
<1> USE DEF TypeOK, LinkInv, Domains
<1>1. ASSUME abstract' = abstract, UNCHANGED <<executed, answer>>
      PROVE  [Promise!Next]_(Promise!pvars)
  BY <1>1 DEF Promise!pvars
<1>2. ASSUME NEW c \in Calls, Submit(c) PROVE [Promise!Next]_(Promise!pvars)
  <2>1. Promise!Submit(c)
    BY <1>2 DEF Submit, Promise!Submit
  <2> QED
    BY <2>1 DEF Promise!Next
<1>3. ASSUME NEW c \in Calls, Read(c) PROVE [Promise!Next]_(Promise!pvars)
  <2>1. executed[c] > 0 /\ on[c] \in Conns
    BY <1>3, NextReplyIsOwn DEF Read, Ensured, RunInv, Ran
  <2>2. pc[c] = "read" /\ pc' = [pc EXCEPT ![c] = "done"] /\ executed' = executed
    BY <1>3 DEF Read, Return
  <2>3. abstract[c] = "open" /\ abstract' = [abstract EXCEPT ![c] = "done"]
    BY <2>2
  <2>4. answer' = answer \/ answer' = [answer EXCEPT ![c] = c]
    BY <1>3, NextReplyIsOwn DEF Read
  <2>5. Promise!Answer(c) \/ Promise!Fail(c)
    BY <2>1, <2>2, <2>3, <2>4 DEF Promise!Answer, Promise!Fail
  <2> QED
    BY <2>5 DEF Promise!Next
<1>4. ASSUME NEW c \in Calls, DialFails(c) \/ Dead(c) \/ Miss(c)
      PROVE  [Promise!Next]_(Promise!pvars)
  <2>1. pc[c] \in {"dial", "redial", "write", "read"} /\ UNCHANGED <<executed, answer>>
    BY <1>4 DEF DialFails, Dead, Miss, Armed
  <2>2. pc' = [pc EXCEPT ![c] = "redial"] \/ pc' = [pc EXCEPT ![c] = "done"]
    BY <1>4 DEF DialFails, Dead, Miss, Return
  <2>3. CASE pc' = [pc EXCEPT ![c] = "redial"]
    BY <1>1, <2>1, <2>3
  <2>4. CASE pc' = [pc EXCEPT ![c] = "done"]
    <3>1. abstract[c] = "open" /\ abstract' = [abstract EXCEPT ![c] = "done"]
      BY <2>1, <2>4
    <3>2. Promise!Fail(c)
      BY <2>1, <3>1 DEF Promise!Fail
    <3> QED
      BY <3>2 DEF Promise!Next
  <2> QED
    BY <2>2, <2>3, <2>4
<1>5. ASSUME NEW c \in Calls, Lock(c) \/ Write(c) \/ Expire(c)
      PROVE  [Promise!Next]_(Promise!pvars)
  <2>1. UNCHANGED <<executed, answer>>
    BY <1>5 DEF Lock, Write, Expire
  <2>2. \/ pc' = pc
        \/ /\ pc[c] \in {"lock", "write"}
           /\ \E p \in {"dial", "write", "read"} : pc' = [pc EXCEPT ![c] = p]
    BY <1>5 DEF Lock, Start, Write, Expire
  <2> QED
    BY <1>1, <2>1, <2>2
<1>6. ASSUME NEW c \in Calls, NEW k \in Conns, Dial(c, k) \/ Redial(c, k)
      PROVE  [Promise!Next]_(Promise!pvars)
  <2>1. /\ pc[c] \in {"dial", "redial"} /\ pc' = [pc EXCEPT ![c] = "write"]
        /\ UNCHANGED <<executed, answer>>
    BY <1>6 DEF Dial, Redial, Handshake
  <2> QED
    BY <1>1, <2>1
<1>7. ASSUME NEW k \in Conns, Dispatch(k) PROVE [Promise!Next]_(Promise!pvars)
  <2>1. PICK c \in Calls : serving[k] = c
    BY <1>7 DEF Dispatch, Ensured
  <2>2. Served(c, k)
    BY <2>1, LinkAssumption DEF FrameInv, Clean, Carries, Queued, Served, Answered
  <2>3. executed[c] < Sent(c) /\ pc[c] \in {"read", "done"}
    BY <1>7, <2>2 DEF Dispatch, Pending, RunInv
  <2>4. executed[c] < Promise!RunLimit(c)
    <3>1. attempt[c] \in {1, 2} /\ executed[c] \in Nat
      OBVIOUS
    <3> QED
      BY <2>3, <3>1 DEF Sent, Promise!RunLimit
  <2>5. /\ executed' = [executed EXCEPT ![c] = @ + 1] /\ UNCHANGED <<pc, answer>>
    BY <1>7, <2>1 DEF Dispatch, callVars
  <2>6. abstract[c] # "new" /\ abstract' = abstract
    BY <2>3, <2>5
  <2>7. Promise!Run(c)
    BY <2>4, <2>5, <2>6 DEF Promise!Run
  <2> QED
    BY <2>7 DEF Promise!Next
<1>8. ASSUME NEW k \in Conns,
             ServeRead(k) \/ Reply(k) \/ ReplyFails(k) \/ IdleOut(k) \/ ServerClose(k)
      PROVE  [Promise!Next]_(Promise!pvars)
  <2>1. UNCHANGED <<pc, executed, answer>>
    BY <1>8 DEF ServeRead, Reply, ReplyFails, IdleOut, ServerClose, callVars
  <2> QED
    BY <1>1, <2>1
<1>9. CASE Crash \/ Restart \/ UNCHANGED vars
  <2>1. UNCHANGED <<pc, executed, answer>>
    BY <1>9 DEF Crash, Restart, vars, callVars
  <2> QED
    BY <1>1, <2>1
<1> QED
  BY <1>2, <1>3, <1>4, <1>5, <1>6, <1>7, <1>8, <1>9 DEF Next, ClientStep, ServerStep

(* The socket transport implements what its callers are promised.             *)
THEOREM LinkKeepsPromise == Spec => KeepsPromise
<1>1. TypeOK /\ LinkInv /\ [Next]_vars => [Promise!Next]_(Promise!pvars)
  BY PromiseStep
<1> QED
  BY <1>1, PromiseInit, LinkTypes, LinkInvariant, PTL
     DEF Spec, KeepsPromise, Promise!Spec

-----------------------------------------------------------------------------
(* Proofs about two builds that meet, for any builds.                         *)
Met == [build : Builds, at : Nat, age : Nat]
WireCalls ==
    [at : {"new", "dial", "hello", "send", "sent", "done"}, ask : Asks, first : BOOLEAN, offer : Nat,
     shaped : Nat, on : Met \union {NoLink}, given : Classes \union {"none"},
     told : Classes \union {"none", "predates", "mismatch", "unread", "lost"}, began : Nat]

HelloTypes ==
    /\ kind \in {"socket", "quic"} /\ ours \in Builds /\ ours.hi >= HelloSince
    /\ theirs \in Builds /\ changes \in Nat
    /\ wlink \in Met \union {NoLink} /\ wcall \in WireCalls
    /\ wcall.began <= changes

(* A connection at a version both ends speak; between the builds that met     *)
(* first, the newest.                                                         *)
Agreed(l) ==
    /\ l \in Met /\ l.age <= changes
    /\ l.at \in Common(ours, l.build)
    /\ l.age = 0 => l.at = Max(Common(ours, l.build))

LinkAgreed == wlink # NoLink => Agreed(wlink)

(* What is offered is the newest we speak, or what the server answered to     *)
(* that; while no server was replaced, its newest.                            *)
Offering ==
    wcall.at \in {"dial", "hello"} /\ kind = "socket" =>
        /\ Speaks(ours, wcall.offer)
        /\ wcall.began = changes /\ wcall.offer # ours.hi => wcall.offer = theirs.hi
Hearing ==
    wcall.at = "hello" =>
        /\ kind = "socket" /\ wcall.on \in Met
        /\ wcall.began <= wcall.on.age /\ wcall.on.age <= changes
        /\ Up(wcall.on) => wcall.on.build = theirs
        /\ wcall.on.at = AnswerTo(wcall.on.build, wcall.offer)
        /\ wcall.on.age = 0 /\ wcall.offer # ours.hi => wcall.offer = wcall.on.build.hi
Sending == wcall.at = "send" => wlink # NoLink

(* A call on its way, and one a door answered.                                *)
Shaped == Agreed(wcall.on) /\ (kind = "socket" => wcall.shaped = wcall.on.at)
OnItsWay ==
    /\ wcall.at = "sent" => Shaped
    /\ wcall.at # "done" => wcall.given = "none" /\ wcall.told = "none"
AsAnswered ==
    /\ wcall.given # "none" => Shaped /\ wcall.told = ForPeer(wcall.given, wcall.on.at)
    /\ wcall.told = "unread" => Moved
    /\ wcall.told \in {"mismatch", "predates"} => wcall.began # changes \/ Common(ours, theirs) = {}

CallInv == Offering /\ Hearing /\ Sending /\ OnItsWay /\ AsAnswered
HelloInv == HelloTypes /\ LinkAgreed /\ CallInv

(* The versions two builds share, and the newest of them.                     *)
LEMMA NewestIsShared ==
    ASSUME NEW a \in Builds, NEW b \in Builds
    PROVE  /\ \A v : v \in Common(a, b) <=> v \in Nat /\ Speaks(a, v) /\ Speaks(b, v)
           /\ Common(a, b) # {} => Max(Common(a, b)) \in Common(a, b)
           /\ \A v \in Common(a, b) : (\A w \in Common(a, b) : w <= v) => v = Max(Common(a, b))
<1> DEFINE C == Common(a, b)  T == {a.hi - v : v \in C}
<1>1. a.lo \in Nat /\ a.hi \in Nat /\ b.lo \in Nat /\ b.hi \in Nat
    BY WireAssumption
<1>2. \A v : v \in C <=> v \in Nat /\ Speaks(a, v) /\ Speaks(b, v)
    BY <1>1 DEF Common, Speaks
<1>3. \A v \in C : v \in Nat /\ v <= a.hi
    BY <1>2 DEF Speaks
<1> HIDE DEF C
<1>4. ASSUME NEW v \in C, \A w \in C : w <= v
      PROVE  v = Max(C)
  <2>1. \A w \in C : v >= w
      BY <1>3, <1>4
  <2>2. Max(C) \in C /\ \A w \in C : Max(C) >= w
      BY <2>1 DEF Max
  <2>3. Max(C) <= v /\ Max(C) >= v
      BY <1>4, <2>2
  <2>4. Max(C) \in Nat /\ v \in Nat
      BY <1>3, <2>2
  <2> QED  BY <2>3, <2>4
<1>5. ASSUME C # {} PROVE Max(C) \in C
  <2>1. T \in SUBSET Nat /\ T # {}
    <3>1. \A v \in C : a.hi - v \in Nat
        BY <1>1, <1>3
    <3> QED  BY <1>5, <3>1
  <2>2. IsWellFoundedOn(OpToRel(<, Nat), Nat)
      BY NatLessThanWellFounded
  <2>3. PICK i \in T : \A k \in T : <<k, i>> \notin OpToRel(<, Nat)
      BY <2>1, <2>2, WFMin
  <2>4. PICK v \in C : i = a.hi - v
      BY <2>3
  <2>5. \A w \in C : w <= v
    <3> TAKE w \in C
    <3>1. a.hi - w \in T /\ a.hi - w \in Nat /\ i \in Nat
        BY <2>1
    <3>2. ~(a.hi - w < i)
        BY <2>3, <3>1 DEF OpToRel
    <3>3. v \in Nat /\ w \in Nat
        BY <1>3
    <3> QED  BY <1>1, <2>4, <3>1, <3>2, <3>3
  <2> QED  BY <1>4, <2>5
<1> QED  BY <1>2, <1>4, <1>5 DEF C

(* A new connection to the server that listens now.                           *)
LEMMA FreshAgrees ==
    ASSUME HelloTypes, Common(ours, theirs) # {}
    PROVE  Agreed(Fresh(Max(Common(ours, theirs))))
<1>1. Max(Common(ours, theirs)) \in Common(ours, theirs) /\ Max(Common(ours, theirs)) \in Nat
    BY NewestIsShared DEF HelloTypes
<1> QED  BY <1>1 DEF Agreed, Fresh, Met, HelloTypes

(* The hello ends in a connection at a version both speak.                    *)
LEMMA HelloAgrees ==
    ASSUME HelloTypes, Offering, Hearing, wcall.at = "hello", wcall.on.at = wcall.offer
    PROVE  Agreed(wcall.on)
<1> DEFINE b == wcall.on.build  v == wcall.offer
<1>1. b \in Builds /\ ours \in Builds /\ v \in Nat /\ wcall.on \in Met
    BY DEF HelloTypes, Hearing, Met, WireCalls
<1>2. ours.hi \in Nat /\ b.lo \in Nat /\ b.hi \in Nat /\ b.lo <= b.hi
    BY <1>1, WireAssumption
<1>3. Speaks(ours, v) /\ v = AnswerTo(b, v)
    BY DEF Hearing, Offering
<1>4. Speaks(b, v)
    BY <1>2, <1>3 DEF AnswerTo, Speaks
<1>5. v \in Common(ours, b)
    BY <1>1, <1>3, <1>4, NewestIsShared
<1>6. ASSUME wcall.on.age = 0 PROVE v = Max(Common(ours, b))
  <2>1. v = ours.hi \/ v = b.hi
      BY <1>6 DEF Hearing
  <2>2. \A w \in Common(ours, b) : w <= v
      BY <1>1, <2>1, NewestIsShared DEF Speaks
  <2> QED  BY <1>1, <1>5, <2>2, NewestIsShared
<1> QED  BY <1>1, <1>5, <1>6 DEF Agreed, Hearing

LEMMA HelloStarts == HelloInit => HelloInv
<1> SUFFICES ASSUME HelloInit PROVE HelloInv
    OBVIOUS
<1>1. PICK ask \in Asks : wcall = NewCall(ask)
    BY DEF HelloInit
<1>2. wcall \in WireCalls /\ wcall.at = "new" /\ wcall.given = "none" /\ wcall.told = "none" /\ wcall.began = 0
    BY <1>1 DEF NewCall, WireCalls
<1>3. kind \in {"socket", "quic"} /\ ours \in Builds /\ ours.hi >= HelloSince /\ theirs \in Builds /\ changes = 0
    BY DEF HelloInit
<1>4. wlink # NoLink => Agreed(wlink)
  <2>1. CASE kind = "quic" /\ Common(ours, theirs) # {}
    <3>1. wlink = Fresh(Max(Common(ours, theirs)))
        BY <2>1 DEF HelloInit
    <3>2. Max(Common(ours, theirs)) \in Common(ours, theirs) /\ Max(Common(ours, theirs)) \in Nat
        BY <1>3, <2>1, NewestIsShared
    <3> QED  BY <1>3, <3>1, <3>2 DEF Agreed, Fresh, Met
  <2>2. CASE ~(kind = "quic" /\ Common(ours, theirs) # {})
      BY <2>2 DEF HelloInit
  <2> QED  BY <2>1, <2>2
<1>5. HelloTypes
    BY <1>2, <1>3, <1>4 DEF HelloTypes, Agreed
<1>6. CallInv
    BY <1>2 DEF CallInv, Offering, Hearing, Sending, OnItsWay, AsAnswered
<1> QED  BY <1>4, <1>5, <1>6 DEF HelloInv, LinkAgreed

(* The steps of the call, while the server stays.                             *)
Still == UNCHANGED <<kind, ours, theirs, changes>>

LEMMA StillAgreed ==
    ASSUME Still, NEW l, Agreed(l)
    PROVE  Agreed(l)'
<1> QED  BY DEF Still, Agreed

LEMMA BeginKeeps ==
    ASSUME HelloInv, Begin
    PROVE  HelloInv'
<1>1. /\ Still /\ wlink' = wlink /\ wcall \in WireCalls /\ wcall.given = "none" /\ wcall.told = "none"
      /\ wcall' = [wcall EXCEPT !.began = changes, !.offer = ours.hi,
                     !.shaped = IF kind = "quic" THEN wlink.at ELSE 0,
                     !.first = wlink # NoLink,
                     !.at = IF wlink = NoLink THEN "dial" ELSE "send"]
    BY DEF Begin, Still, HelloInv, HelloTypes, CallInv, OnItsWay
<1>2. /\ ours.hi \in Nat /\ Speaks(ours, ours.hi) /\ changes \in Nat
      /\ (IF kind = "quic" THEN wlink.at ELSE 0) \in Nat
    BY WireAssumption DEF HelloInv, HelloTypes, Begin, Met, Speaks
<1>3. /\ wcall' \in WireCalls /\ wcall'.began = changes /\ wcall'.offer = ours.hi
      /\ wcall'.given = "none" /\ wcall'.told = "none"
      /\ wcall'.at = (IF wlink = NoLink THEN "dial" ELSE "send")
    BY <1>1, <1>2, ZenonT(60) DEF WireCalls
<1>4. HelloTypes'
    BY <1>1, <1>2, <1>3 DEF HelloInv, HelloTypes, Still
<1>5. LinkAgreed'
    BY <1>1 DEF HelloInv, LinkAgreed, Still, Agreed
<1>6. Offering' /\ Hearing' /\ Sending' /\ OnItsWay' /\ AsAnswered'
    BY <1>1, <1>2, <1>3 DEF Offering, Hearing, Sending, OnItsWay, AsAnswered, Still, Speaks
<1> QED  BY <1>4, <1>5, <1>6 DEF HelloInv, CallInv

LEMMA AgainKeeps ==
    ASSUME HelloInv, Again
    PROVE  HelloInv'
<1>1. PICK ask \in Asks : wcall' = NewCall(ask)
    BY DEF Again
<1>2. Still /\ wlink' = wlink
    BY DEF Again, Still
<1>3. /\ wcall' \in WireCalls /\ wcall'.at = "new" /\ wcall'.given = "none" /\ wcall'.told = "none"
      /\ wcall'.began = 0
    BY <1>1 DEF NewCall, WireCalls
<1>4. HelloTypes'
    BY <1>2, <1>3 DEF HelloInv, HelloTypes, Still
<1>5. LinkAgreed'
    BY <1>2 DEF HelloInv, LinkAgreed, Still, Agreed
<1>6. Offering' /\ Hearing' /\ Sending' /\ OnItsWay' /\ AsAnswered'
    BY <1>3 DEF Offering, Hearing, Sending, OnItsWay, AsAnswered
<1> QED  BY <1>4, <1>5, <1>6 DEF HelloInv, CallInv

LEMMA HealedKeeps ==
    ASSUME HelloInv, HealedElsewhere
    PROVE  HelloInv'
<1>1. Still /\ wcall' = wcall /\ wlink' = Fresh(Max(Common(ours, theirs))) /\ Common(ours, theirs) # {}
    BY DEF HealedElsewhere, Still
<1>2. Agreed(wlink')
    BY <1>1, FreshAgrees DEF HelloInv
<1>3. wlink' \in Met
    BY <1>2 DEF Agreed
<1>4. HelloTypes'
    BY <1>1, <1>3 DEF HelloInv, HelloTypes, Still
<1>5. LinkAgreed'
    BY <1>1, <1>2 DEF LinkAgreed, Still, Agreed
<1>6. Sending'
    BY <1>3, WireAssumption DEF Sending, Met
<1>7. Offering' /\ Hearing' /\ OnItsWay'
    BY <1>1 DEF HelloInv, CallInv, Offering, Hearing, OnItsWay, Shaped, Agreed, Still, Up
<1>8. AsAnswered'
    BY <1>1 DEF HelloInv, CallInv, AsAnswered, Shaped, Agreed, Still, Moved
<1> QED  BY <1>4, <1>5, <1>6, <1>7, <1>8 DEF HelloInv, CallInv

LEMMA HelloAtKeeps ==
    ASSUME HelloInv, HelloAt
    PROVE  HelloInv'
<1> DEFINE l == Fresh(AnswerTo(theirs, wcall.offer))
<1>1. /\ Still /\ wlink' = wlink /\ kind = "socket" /\ wcall.at = "dial" /\ wcall \in WireCalls
      /\ wcall' = [wcall EXCEPT !.at = "hello", !.on = l]
    BY DEF HelloAt, Still, HelloInv, HelloTypes
<1>2. l \in Met /\ l.build = theirs /\ l.age = changes /\ l.at = AnswerTo(theirs, wcall.offer)
  <2>1. AnswerTo(theirs, wcall.offer) \in Nat
      BY <1>1, WireAssumption DEF HelloInv, HelloTypes, AnswerTo, WireCalls
  <2> QED  BY <2>1 DEF Fresh, Met, HelloInv, HelloTypes
<1> HIDE DEF l
<1>3. /\ wcall' \in WireCalls /\ wcall'.at = "hello" /\ wcall'.on = l /\ wcall'.offer = wcall.offer
      /\ wcall'.began = wcall.began /\ wcall'.given = wcall.given /\ wcall'.told = wcall.told
    BY <1>1, <1>2 DEF WireCalls
<1>4. HelloTypes'
    BY <1>1, <1>3 DEF HelloInv, HelloTypes, Still
<1>5. LinkAgreed'
    BY <1>1 DEF HelloInv, LinkAgreed, Still, Agreed
<1>6. wcall.given = "none" /\ wcall.told = "none"
    BY <1>1 DEF HelloInv, CallInv, OnItsWay
<1>7. Offering'
    BY <1>1, <1>3 DEF HelloInv, CallInv, Offering, Still
<1>8. Hearing'
  <2>1. changes \in Nat /\ wcall.began \in Nat /\ wcall.began <= changes
      BY DEF HelloInv, HelloTypes, WireCalls
  <2>2. l.age = 0 /\ wcall.offer # ours.hi => wcall.offer = theirs.hi
      BY <1>1, <1>2, <2>1 DEF HelloInv, CallInv, Offering
  <2> QED  BY <1>1, <1>2, <1>3, <2>1, <2>2 DEF Hearing, Still, Up
<1>9. Sending' /\ OnItsWay' /\ AsAnswered'
    BY <1>3, <1>6 DEF Sending, OnItsWay, AsAnswered
<1> QED  BY <1>4, <1>5, <1>7, <1>8, <1>9 DEF HelloInv, CallInv

(* A call that ends without an answer is told something a caller may be told. *)
LEMMA ToldKeeps ==
    ASSUME HelloInv, Still, NEW what \in {"predates", "mismatch", "unread", "lost"}, Tell(what),
           wcall.given = "none", wlink' = wlink \/ wlink' = NoLink,
           what = "unread" => Moved,
           what \in {"predates", "mismatch"} => wcall.began # changes \/ Common(ours, theirs) = {}
    PROVE  HelloInv'
<1>1. wcall \in WireCalls /\ wcall' = [wcall EXCEPT !.at = "done", !.told = what]
    BY DEF HelloInv, HelloTypes, Tell
<1>2. /\ wcall' \in WireCalls /\ wcall'.at = "done" /\ wcall'.told = what /\ wcall'.given = "none"
      /\ wcall'.began = wcall.began /\ wcall'.on = wcall.on /\ wcall'.shaped = wcall.shaped
    BY <1>1 DEF WireCalls
<1>3. HelloTypes'
    BY <1>2 DEF HelloInv, HelloTypes, Still
<1>4. LinkAgreed'
    BY DEF HelloInv, LinkAgreed, Still, Agreed
<1>5. Offering' /\ Hearing' /\ Sending' /\ OnItsWay'
    BY <1>2 DEF Offering, Hearing, Sending, OnItsWay
<1>6. AsAnswered'
    BY <1>2 DEF AsAnswered, Moved, Still
<1> QED  BY <1>3, <1>4, <1>5, <1>6 DEF HelloInv, CallInv

LEMMA HelloFailsKeeps ==
    ASSUME HelloInv, HelloFails
    PROVE  HelloInv'
<1>1. Still /\ wlink' = wlink /\ wcall.at = "hello" /\ HungUp /\ Tell("predates")
    BY DEF HelloFails, Still
<1>2. wcall.given = "none" /\ Hearing
    BY <1>1 DEF HelloInv, CallInv, OnItsWay
<1>3. changes \in Nat /\ wcall.began \in Nat /\ wcall.on \in Met /\ wcall.on.age \in Nat
    BY <1>1, <1>2 DEF HelloInv, HelloTypes, WireCalls, Hearing, Met
<1>4. CASE ~Up(wcall.on)
  <2>1. wcall.began # changes
      BY <1>1, <1>2, <1>3, <1>4 DEF Hearing, Up
  <2> QED  BY <1>1, <1>2, <2>1, ToldKeeps
<1>5. CASE Up(wcall.on) /\ wcall.on.build.hi < HelloSince
  <2>1. theirs.hi < HelloSince /\ ours \in Builds /\ theirs \in Builds /\ ours.hi >= HelloSince
      BY <1>1, <1>2, <1>5 DEF Hearing, HelloInv, HelloTypes
  <2>2. ours.lo \in Nat /\ theirs.hi \in Nat /\ ours.lo >= HelloSince
      BY <2>1, WireAssumption
  <2>3. ~\E v \in Nat : Speaks(ours, v) /\ Speaks(theirs, v)
      BY <2>1, <2>2 DEF Speaks, HelloSince
  <2>4. Common(ours, theirs) = {}
      BY <2>1, <2>3, NewestIsShared
  <2> QED  BY <1>1, <1>2, <2>4, ToldKeeps
<1> QED  BY <1>1, <1>4, <1>5 DEF HungUp

LEMMA TakeAnswerKeeps ==
    ASSUME HelloInv, TakeAnswer
    PROVE  HelloInv'
<1> DEFINE said == wcall.on.at  offer == wcall.offer
<1>1. /\ Still /\ wcall.at = "hello" /\ Up(wcall.on) /\ wcall \in WireCalls
      /\ ours \in Builds /\ theirs \in Builds /\ kind = "socket"
    BY DEF TakeAnswer, Still, HungUp, HelloInv, HelloTypes, CallInv, Hearing
<1>2. /\ wcall.given = "none" /\ wcall.told = "none" /\ Hearing /\ Offering
      /\ wcall.on.build = theirs /\ said = AnswerTo(theirs, offer)
    BY <1>1 DEF HelloInv, CallInv, OnItsWay, Hearing
<1>3. /\ ours.lo \in Nat /\ ours.hi \in Nat /\ theirs.lo \in Nat /\ theirs.hi \in Nat /\ theirs.lo <= theirs.hi
      /\ offer \in Nat /\ said \in Nat
    BY <1>1, <1>2, WireAssumption DEF WireCalls, Hearing, Met
<1>4. CASE said = offer /\ Goto("send") /\ wlink' = wcall.on
  <2>1. Agreed(wcall.on)
      BY <1>1, <1>2, <1>4, HelloAgrees DEF HelloInv
  <2>2. /\ wcall' \in WireCalls /\ wcall'.at = "send" /\ wcall'.given = "none" /\ wcall'.told = "none"
        /\ wcall'.began = wcall.began
      BY <1>1, <1>2, <1>4 DEF Goto, WireCalls
  <2>3. HelloTypes'
      BY <1>1, <1>4, <2>1, <2>2 DEF HelloInv, HelloTypes, Still, Agreed
  <2>4. LinkAgreed'
      BY <1>1, <1>4, <2>1 DEF LinkAgreed, Still, Agreed
  <2>5. Offering' /\ Hearing' /\ OnItsWay' /\ AsAnswered'
      BY <2>2 DEF Offering, Hearing, OnItsWay, AsAnswered
  <2>6. Sending'
      BY <1>4, <2>1, WireAssumption DEF Sending, Agreed, Met
  <2> QED  BY <2>3, <2>4, <2>5, <2>6 DEF HelloInv, CallInv
<1>5. CASE /\ said < offer /\ offer = ours.hi /\ Speaks(ours, said)
           /\ wcall' = [wcall EXCEPT !.at = "dial", !.offer = said] /\ wlink' = wlink
  <2>1. /\ wcall' \in WireCalls /\ wcall'.at = "dial" /\ wcall'.offer = said
        /\ wcall'.given = "none" /\ wcall'.told = "none" /\ wcall'.began = wcall.began
      BY <1>1, <1>2, <1>3, <1>5 DEF WireCalls
  <2>2. said = theirs.hi
      BY <1>2, <1>3, <1>5 DEF AnswerTo
  <2>3. HelloTypes'
      BY <1>1, <1>5, <2>1 DEF HelloInv, HelloTypes, Still
  <2>4. LinkAgreed'
      BY <1>1, <1>5 DEF HelloInv, LinkAgreed, Still, Agreed
  <2>5. Offering'
      BY <1>1, <1>5, <2>1, <2>2 DEF Offering, Still
  <2>6. Hearing' /\ Sending' /\ OnItsWay' /\ AsAnswered'
      BY <2>1 DEF Hearing, Sending, OnItsWay, AsAnswered
  <2> QED  BY <2>3, <2>4, <2>5, <2>6 DEF HelloInv, CallInv
<1>6. CASE /\ said # offer /\ ~(said < offer /\ offer = ours.hi /\ Speaks(ours, said))
           /\ Tell("mismatch") /\ wlink' = wlink
  <2>1. said = theirs.hi /\ ~Speaks(theirs, offer)
      BY <1>2, <1>6 DEF AnswerTo
  <2>2. wcall.began # changes \/ Common(ours, theirs) = {}
    <3> SUFFICES ASSUME wcall.began = changes PROVE Common(ours, theirs) = {}
        OBVIOUS
    <3>1. offer = ours.hi
        BY <1>1, <1>2, <1>6, <2>1 DEF Offering
    <3>2. ~\E v \in Nat : Speaks(ours, v) /\ Speaks(theirs, v)
        BY <1>3, <1>6, <2>1, <3>1 DEF Speaks
    <3> QED  BY <1>1, <3>2, NewestIsShared
  <2> QED  BY <1>1, <1>2, <1>6, <2>2, ToldKeeps
<1> QED  BY <1>4, <1>5, <1>6 DEF TakeAnswer

LEMMA SendKeeps ==
    ASSUME HelloInv, Send
    PROVE  HelloInv'
<1>1. /\ Still /\ wlink' = wlink /\ wcall.at = "send" /\ wcall \in WireCalls
      /\ wcall' = [wcall EXCEPT !.at = "sent", !.shaped = ShapedFor, !.on = wlink]
    BY DEF Send, Still, HelloInv, HelloTypes
<1>2. Agreed(wlink) /\ wcall.given = "none" /\ wcall.told = "none"
    BY <1>1 DEF HelloInv, LinkAgreed, CallInv, Sending, OnItsWay
<1>3. wlink \in Met /\ wlink.at \in Nat /\ ShapedFor \in Nat
    BY <1>1, <1>2 DEF Agreed, Met, ShapedFor, WireCalls
<1>4. /\ wcall' \in WireCalls /\ wcall'.at = "sent" /\ wcall'.on = wlink /\ wcall'.shaped = ShapedFor
      /\ wcall'.given = "none" /\ wcall'.told = "none" /\ wcall'.began = wcall.began
    BY <1>1, <1>2, <1>3 DEF WireCalls
<1>5. HelloTypes'
    BY <1>1, <1>4 DEF HelloInv, HelloTypes, Still
<1>6. LinkAgreed'
    BY <1>1 DEF HelloInv, LinkAgreed, Still, Agreed
<1>7. Offering' /\ Hearing' /\ Sending' /\ AsAnswered'
    BY <1>4 DEF Offering, Hearing, Sending, AsAnswered
<1>8. OnItsWay'
  <2>1. Agreed(wcall.on)'
      BY <1>1, <1>2, <1>4 DEF Agreed, Still
  <2>2. kind' = "socket" => wcall'.shaped = wcall'.on.at
      BY <1>1, <1>4 DEF Still, ShapedFor
  <2> QED  BY <1>4, <2>1, <2>2 DEF OnItsWay, Shaped
<1> QED  BY <1>5, <1>6, <1>7, <1>8 DEF HelloInv, CallInv

LEMMA AnswerKeeps ==
    ASSUME HelloInv, Answer
    PROVE  HelloInv'
<1>1. Still /\ wcall.at = "sent" /\ wcall \in WireCalls /\ (wlink' = wlink \/ wlink' = NoLink)
    BY DEF Answer, Still, HelloInv, HelloTypes
<1>2. Shaped /\ wcall.given = "none" /\ wcall.told = "none"
    BY <1>1 DEF HelloInv, CallInv, OnItsWay
<1>3. ASSUME NEW class \in Classes,
             wcall' = [wcall EXCEPT !.at = "done", !.given = class, !.told = ForPeer(class, wcall.on.at)]
      PROVE  HelloInv'
  <2>1. ForPeer(class, wcall.on.at) \in Classes
      BY <1>3 DEF ForPeer, Classes
  <2>2. /\ wcall' \in WireCalls /\ wcall'.at = "done" /\ wcall'.on = wcall.on /\ wcall'.shaped = wcall.shaped
        /\ wcall'.given = class /\ wcall'.told = ForPeer(class, wcall.on.at) /\ wcall'.began = wcall.began
      BY <1>1, <1>3, <2>1 DEF WireCalls
  <2>3. HelloTypes'
      BY <1>1, <2>2 DEF HelloInv, HelloTypes, Still
  <2>4. LinkAgreed'
      BY <1>1 DEF HelloInv, LinkAgreed, Still, Agreed
  <2>5. Offering' /\ Hearing' /\ Sending' /\ OnItsWay'
      BY <2>2 DEF Offering, Hearing, Sending, OnItsWay
  <2>6. Shaped'
      BY <1>1, <1>2, <2>2 DEF Shaped, Still, Agreed
  <2>7. wcall'.told \notin {"unread", "mismatch", "predates"}
      BY <2>1, <2>2 DEF Classes
  <2> QED  BY <2>2, <2>3, <2>4, <2>5, <2>6, <2>7 DEF HelloInv, CallInv, AsAnswered
<1>4. ASSUME ~Decodes(wcall.on, Shape(wcall.ask, wcall.shaped)), Tell("unread")
      PROVE  HelloInv'
  <2>1. wcall.on.at # wcall.shaped
    <3> SUFFICES ASSUME wcall.on.at = wcall.shaped PROVE FALSE
        OBVIOUS
    <3>1. wcall.on \in Met /\ wcall.on.at \in Common(ours, wcall.on.build) /\ ours \in Builds
        BY <1>2 DEF Shaped, Agreed, HelloInv, HelloTypes
    <3>2. wcall.on.at \in Nat /\ wcall.on.build \in Builds
        BY <3>1 DEF Met
    <3>3. wcall.on.at <= wcall.on.build.hi /\ wcall.on.build.hi \in Nat
        BY <3>1, <3>2, NewestIsShared, WireAssumption DEF Speaks
    <3>4. \/ wcall.on.at < StreamsSince /\ wcall.shaped >= StreamsSince
          \/ wcall.on.build.hi < FailureClassesSince /\ wcall.shaped >= FailureClassesSince
      <4> DEFINE f == Shape(wcall.ask, wcall.shaped)
      <4>1. /\ f.head => wcall.shaped >= StreamsSince
            /\ f.context => wcall.shaped >= FailureClassesSince
          BY DEF Shape
      <4> HIDE DEF f
      <4>2. \/ f.head /\ ~(wcall.on.at >= StreamsSince)
            \/ f.context /\ ~(wcall.on.build.hi >= FailureClassesSince)
          BY <1>4 DEF Decodes, f
      <4>3. wcall.shaped \in Nat
          BY <3>2
      <4> QED  BY <3>2, <3>3, <4>1, <4>2, <4>3 DEF StreamsSince, FailureClassesSince
    <3> QED  BY <3>2, <3>3, <3>4 DEF StreamsSince, FailureClassesSince
  <2>2. Moved
      BY <1>2, <2>1 DEF Shaped, Moved, HelloInv, HelloTypes
  <2> QED  BY <1>1, <1>2, <1>4, <2>2, ToldKeeps
<1> QED  BY <1>3, <1>4 DEF Answer

LEMMA LostKeeps ==
    ASSUME HelloInv, Lost
    PROVE  HelloInv'
<1>1. Still /\ wcall.at # "done" /\ wcall \in WireCalls /\ (wlink' = wlink \/ wlink' = NoLink)
    BY DEF Lost, Still, HelloInv, HelloTypes
<1>2. wcall.given = "none" /\ wcall.told = "none"
    BY <1>1 DEF HelloInv, CallInv, OnItsWay
<1>3. CASE Tell("lost")
    BY <1>1, <1>2, <1>3, ToldKeeps
<1>4. CASE wcall' = [wcall EXCEPT !.at = "dial", !.first = FALSE, !.offer = ours.hi]
  <2>1. ours.hi \in Nat /\ Speaks(ours, ours.hi)
      BY WireAssumption DEF HelloInv, HelloTypes, Speaks
  <2>2. /\ wcall' \in WireCalls /\ wcall'.at = "dial" /\ wcall'.offer = ours.hi
        /\ wcall'.given = "none" /\ wcall'.told = "none" /\ wcall'.began = wcall.began
      BY <1>1, <1>2, <1>4, <2>1 DEF WireCalls
  <2>3. HelloTypes'
      BY <1>1, <2>2 DEF HelloInv, HelloTypes, Still
  <2>4. LinkAgreed'
      BY <1>1 DEF HelloInv, LinkAgreed, Still, Agreed
  <2>5. Offering' /\ Hearing' /\ Sending' /\ OnItsWay' /\ AsAnswered'
      BY <1>1, <2>1, <2>2 DEF Offering, Hearing, Sending, OnItsWay, AsAnswered, Still
  <2> QED  BY <2>3, <2>4, <2>5 DEF HelloInv, CallInv
<1> QED  BY <1>3, <1>4 DEF Lost

LEMMA RedialKeeps ==
    ASSUME HelloInv, RedialQuic
    PROVE  HelloInv'
<1>1. Still /\ wcall.at = "dial" /\ wcall \in WireCalls
    BY DEF RedialQuic, Still, HelloInv, HelloTypes
<1>2. wcall.given = "none" /\ wcall.told = "none"
    BY <1>1 DEF HelloInv, CallInv, OnItsWay
<1>3. CASE Common(ours, theirs) = {}
    BY <1>1, <1>2, <1>3, ToldKeeps DEF RedialQuic
<1>4. CASE Common(ours, theirs) # {}
  <2>1. Goto("send") /\ wlink' = Fresh(Max(Common(ours, theirs)))
      BY <1>4 DEF RedialQuic
  <2>2. Agreed(wlink')
      BY <1>4, <2>1, FreshAgrees DEF HelloInv
  <2>3. wlink' \in Met /\ wlink' # NoLink
      BY <2>2, WireAssumption DEF Agreed, Met
  <2>4. /\ wcall' \in WireCalls /\ wcall'.at = "send" /\ wcall'.given = "none" /\ wcall'.told = "none"
        /\ wcall'.began = wcall.began
      BY <1>1, <1>2, <2>1 DEF Goto, WireCalls
  <2>5. HelloTypes'
      BY <1>1, <2>3, <2>4 DEF HelloInv, HelloTypes, Still
  <2>6. LinkAgreed'
      BY <1>1, <2>2 DEF LinkAgreed, Still, Agreed
  <2>7. Offering' /\ Hearing' /\ Sending' /\ OnItsWay' /\ AsAnswered'
      BY <2>3, <2>4 DEF Offering, Hearing, Sending, OnItsWay, AsAnswered
  <2> QED  BY <2>5, <2>6, <2>7 DEF HelloInv, CallInv
<1> QED  BY <1>3, <1>4

(* Another build starts: what was agreed before stays, and nothing is up.     *)
LEMMA ReplaceKeeps ==
    ASSUME HelloInv, Replace
    PROVE  HelloInv'
<1>1. /\ kind' = kind /\ ours' = ours /\ wlink' = wlink /\ wcall' = wcall /\ changes' = changes + 1
      /\ theirs' \in Builds /\ changes \in Nat /\ wcall.began \in Nat /\ wcall.began <= changes
    BY DEF Replace, HelloInv, HelloTypes, WireCalls
<1>2. wcall'.began <= changes' /\ wcall'.began # changes'
    BY <1>1
<1>3. HelloTypes'
    BY <1>1, <1>2 DEF HelloInv, HelloTypes
<1>4. ASSUME NEW l, Agreed(l)
      PROVE  /\ l \in Met /\ l.age <= changes' /\ ~(l.age = changes')
             /\ l.at \in Common(ours, l.build) /\ (l.age = 0 => l.at = Max(Common(ours, l.build)))
    BY <1>1, <1>4 DEF Agreed, Met
<1>5. LinkAgreed'
    BY <1>1, <1>4 DEF HelloInv, LinkAgreed, Agreed
<1>6. Offering' /\ Sending'
    BY <1>1, <1>2 DEF HelloInv, CallInv, Offering, Sending
<1>7. Hearing'
  <2> SUFFICES ASSUME wcall.at = "hello" PROVE Hearing'
      BY <1>1 DEF Hearing
  <2>1. Hearing /\ wcall.on \in Met /\ wcall.on.age \in Nat /\ wcall.on.age <= changes
      BY DEF HelloInv, CallInv, Hearing, Met
  <2>2. wcall.on.age <= changes' /\ ~(wcall.on.age = changes')
      BY <1>1, <2>1
  <2> QED  BY <1>1, <2>1, <2>2 DEF Hearing, Up
<1>8. Shaped => Shaped'
    BY <1>1, <1>4 DEF Shaped, Agreed
<1>9. OnItsWay' /\ AsAnswered'
    BY <1>1, <1>2, <1>8 DEF HelloInv, CallInv, OnItsWay, AsAnswered, Moved
<1> QED  BY <1>3, <1>5, <1>6, <1>7, <1>9 DEF HelloInv, CallInv

LEMMA HelloSteps == HelloInv /\ [HelloNext]_helloVars => HelloInv'
<1> SUFFICES ASSUME HelloInv, [HelloNext]_helloVars PROVE HelloInv'
    OBVIOUS
<1>1. CASE UNCHANGED helloVars
    BY <1>1 DEF helloVars, HelloInv, HelloTypes, LinkAgreed, CallInv, Offering, Hearing, Sending, OnItsWay,
                AsAnswered, Shaped, Agreed, Moved, Up
<1> QED  BY <1>1, BeginKeeps, AgainKeeps, HealedKeeps, HelloAtKeeps, HelloFailsKeeps, TakeAnswerKeeps, SendKeeps,
            AnswerKeeps, LostKeeps, RedialKeeps, ReplaceKeeps DEF HelloNext

(* Two builds that share a version meet at it, read each other's calls and    *)
(* tell each other's failures apart as far as it goes (answer_to, for_peer).  *)
THEOREM BuildsMeet == HelloSpec => []SpokenAlike
<1>1. HelloInv => SpokenAlike
  <2> SUFFICES ASSUME HelloInv PROVE SpokenAlike
      OBVIOUS
  <2>1. EveryCallIsRead
    <3>1. wcall.told = "unread" => Moved
        BY DEF HelloInv, CallInv, AsAnswered
    <3>2. wcall.given # "none" /\ ~Moved => wcall.shaped = wcall.on.at
        BY DEF HelloInv, HelloTypes, CallInv, AsAnswered, Shaped, Moved
    <3> QED  BY <3>1, <3>2 DEF EveryCallIsRead
  <2>2. ClassesCross
    <3> SUFFICES ASSUME wcall.given # "none"
                 PROVE  /\ Since(wcall.told) <= ours.hi
                        /\ wcall.told # wcall.given =>
                               wcall.told = "untyped" /\ wcall.on.at < Since(wcall.given)
        BY DEF ClassesCross
    <3>1. Agreed(wcall.on) /\ wcall.told = ForPeer(wcall.given, wcall.on.at)
        BY DEF HelloInv, CallInv, AsAnswered, Shaped
    <3>2. wcall.on \in Met /\ wcall.on.at \in Common(ours, wcall.on.build) /\ ours \in Builds
        BY <3>1 DEF Agreed, HelloInv, HelloTypes
    <3>3. wcall.on.at \in Nat /\ wcall.on.build \in Builds /\ ours.hi \in Nat
        BY <3>2, WireAssumption DEF Met
    <3>4. wcall.on.at <= ours.hi
        BY <3>2, <3>3, NewestIsShared DEF Speaks
    <3>5. Since(wcall.given) \in Nat /\ Since("untyped") = 0
        BY DEF Since, ConflictSince, FailureClassesSince
    <3>6. CASE wcall.on.at < Since(wcall.given)
        BY <3>1, <3>3, <3>5, <3>6 DEF ForPeer
    <3>7. CASE ~(wcall.on.at < Since(wcall.given))
        BY <3>1, <3>3, <3>4, <3>5, <3>7 DEF ForPeer
    <3> QED  BY <3>6, <3>7
  <2>3. TheyMeet
      BY DEF HelloInv, LinkAgreed, Agreed, CallInv, AsAnswered, TheyMeet
  <2> QED  BY <2>1, <2>2, <2>3 DEF SpokenAlike
<1> QED  BY <1>1, HelloStarts, HelloSteps, PTL DEF HelloSpec

HIDE LinkAssumption

-----------------------------------------------------------------------------
(* Proofs about streamed calls on the socket, for any calls, connections,     *)
(* bodies and bounds.  What is on the way in either direction is, in its      *)
(* turn, what the sender of a body may put there; one connection bears a call *)
(* at a time; and what a thread read is what its endpoint took and what is    *)
(* held for it.                                                               *)

(* What a sender of b that has sent r chunks may put on the wire next: its    *)
(* chunks in turn, and nothing after the frame that ends it.                  *)
IsRun(q, b, r) ==
    \A i \in 1..Len(q) :
        \/ q[i].kind = "chunk" /\ Stream!Sends(b, r + i - 1)
        \/ i = Len(q) /\ ~Stream!Sends(b, r + i - 1) /\ q[i].kind = Stream!LastFrame(b, r + i - 1)
AllChunks(q, i) == \A j \in i..Len(q) : q[j].kind = "chunk"
Ending == {"end", "abort", "reply"}

Waits(g) == srv[g].pc \in {"idle", "full"} /\ sc2s[g] # <<>>
Works(g) == srv[g].pc \in {"run", "pull", "settle", "pump"}
Bears(g) == Waits(g) \/ Works(g)
Borne(g) == IF Works(g) THEN srv[g].call ELSE Head(sc2s[g]).call

(* A head that waits is of a call of which nothing was taken, and its body,   *)
(* if any, comes behind it.                                                   *)
WaitingHead(g) ==
    LET n == Head(sc2s[g]).call IN
    /\ Head(sc2s[g]).kind = "head" /\ n \in 1..call
    /\ taken[n] = 0 /\ view[n] = "open"
    /\ IF upload[n] = None THEN Tail(sc2s[g]) = <<>> ELSE IsRun(Tail(sc2s[g]), upload[n], 0)

(* A serving thread reads the body in turn, and what its endpoint took and    *)
(* what is held for it are what was read, until the body is thrown away.      *)
Serves(g) ==
    LET s == srv[g] n == s.call b == upload[n] IN
    /\ n \in 1..call
    /\ IF s.ended = "no" THEN b # None /\ IsRun(sc2s[g], b, s.read) /\ s.read <= b.gives
       ELSE sc2s[g] = <<>>
    /\ b = None => view[n] = "open"
    /\ s.pc \in {"run", "pull"} =>
         /\ ~s.keep /\ ~s.over /\ s.held = 0 /\ taken[n] = s.read
         /\ b # None => (view[n] = "open" <=> s.ended = "no")
    /\ s.pc = "pull" => s.ended = "no"
    /\ s.pc # "pump" => s.out = 0
    /\ s.keep => b # None /\ (~s.over /\ view[n] = "open" => taken[n] + s.held = s.read)
    /\ s.ended = "ok" /\ b # None => Stream!Whole(b, s.read)
    /\ s.pc \in {"settle", "pump"} =>
         s.kind # "none" /\ (s.kind = "stream" => sanswer[n] \in Answers)
    /\ s.pc = "pump" => s.ended # "no" /\ ~s.over /\ s.kind = "stream"

ConnInOrder(g) ==
    /\ srv[g].pc = "undialed" => sc2s[g] = <<>> /\ ss2c[g] = <<>> /\ slink # g
    /\ Waits(g) => WaitingHead(g)
    /\ Works(g) => Serves(g)
    /\ Bears(g) => seen[Borne(g)] # "whole"
    /\ Bears(g) /\ Borne(g) = call /\ spc # "idle" =>
         slink = g /\ spc \in {"body", "first", "reading"}
ConnsInOrder == \A g \in Conns : ConnInOrder(g)

OneBearer == \A g, h \in Conns : Bears(g) /\ Bears(h) /\ Borne(g) = Borne(h) => g = h

Untouched(n) == taken[n] = 0 /\ view[n] = "open" /\ got[n] = 0 /\ seen[n] = "open"
CallsInOrder ==
    /\ \A n \in call+1..NCalls : Untouched(n)
    /\ spc \in {"dial", "head"} => Untouched(call) /\ sent = 0
    /\ spc # "idle" => call \in 1..NCalls /\ seen[call] = "open"
    /\ spc \in {"body", "first"} => got[call] = 0
    /\ spc = "dial" => slink = None
    /\ spc \in {"head", "body", "first", "reading"} => slink \in Conns

(* What its caller has still to read of the answer, before and after its head.*)
AnswerComes(q) ==
    \/ q = <<>>
    \/ Len(q) = 1 /\ q[1].kind = "reply"
    \/ /\ Len(q) > 0 /\ q[1].kind = "head" /\ sanswer[call] \in Answers
       /\ IsRun(Tail(q), sanswer[call], 0)

LinkAt(g) ==
    LET s == srv[g] toDoor == sc2s[g] toCaller == ss2c[g] IN
    /\ s.pc # "undialed"
    /\ spc \in {"idle", "head"} =>
         /\ toCaller = <<>>
         /\ s.pc # "closed" => toDoor = <<>> /\ s.pc \in {"idle", "full"}
         /\ spc = "idle" => s.pc # "full"
    /\ spc \in {"body", "first", "reading"} =>
         /\ spc \in {"body", "first"} => AnswerComes(toCaller)
         /\ spc = "reading" =>
              /\ sanswer[call] \in Answers /\ got[call] <= sanswer[call].gives
              /\ IsRun(toCaller, sanswer[call], got[call])
         /\ Bears(g) => Borne(g) = call
         /\ Waits(g) => /\ toCaller = <<>> /\ spc # "reading"
                        /\ spc = "body" => Len(toDoor) = sent + 1 /\ AllChunks(toDoor, 2)
         /\ s.pc \in {"run", "pull", "settle"} =>
              /\ toCaller = <<>> /\ spc # "reading"
              /\ spc = "body" => s.ended = "no" /\ s.read + Len(toDoor) = sent /\ AllChunks(toDoor, 1)
         /\ s.pc = "pump" =>
              /\ spc # "body"
              /\ spc = "first" => Len(toCaller) = s.out + 1 /\ toCaller[1].kind = "head" /\ AllChunks(toCaller, 2)
              /\ spc = "reading" => got[call] + Len(toCaller) = s.out /\ AllChunks(toCaller, 1)
         /\ s.pc \in {"idle", "full"} /\ toDoor = <<>> =>
              s.pc = "idle" /\ spc # "body" /\ toCaller # <<>> /\ toCaller[Len(toCaller)].kind \in Ending
         /\ spc = "body" => upload[call] # None
LinkInOrder == \A g \in Conns : slink = g => LinkAt(g)

SocketInv ==
    /\ Stream!TypeOK /\ ConnsInOrder /\ OneBearer /\ CallsInOrder /\ LinkInOrder
    /\ Stream!UploadIsWhole /\ Stream!AnswerIsWhole

(* What the socket's constants are. *)
LEMMA SocketConstants ==
    /\ NCalls \in Nat /\ Wire \in Nat \ {0} /\ MaxHeld \in Nat
    /\ None \notin Uploads /\ None \notin Answers /\ None \notin Conns
    /\ NoLen \notin Nat
    /\ \A b \in Uploads \cup Answers : b.len \in Nat \cup {NoLen} /\ b.gives \in Nat /\ b.fails \in BOOLEAN
BY SocketAssumption DEF Stream!StreamAssumption, Stream!Body

(* A thread that is set to some place is a thread. *)
LEMMA IdleThread ==
    /\ Stream!Idle \in Stream!Threads
    /\ [Stream!Idle EXCEPT !.pc = "undialed"] \in Stream!Threads
    /\ [Stream!Idle EXCEPT !.pc = "closed"] \in Stream!Threads
<1>1. Stream!Idle \in Stream!Threads
  BY SocketConstants DEF Stream!Idle, Stream!Threads
<1> QED  BY <1>1 DEF Stream!Threads

LEMMA SocketTypeInit == Stream!Init => Stream!TypeOK
<1> SUFFICES ASSUME Stream!Init PROVE Stream!TypeOK
  OBVIOUS
<1>1. sdialed \in BOOLEAN
  BY DEF Stream!Init
<1>2. srv \in [Conns -> Stream!Threads]
  BY IdleThread DEF Stream!Init
<1>3. sc2s \in [Conns -> Seq(Stream!Frames0)] /\ ss2c \in [Conns -> Seq(Stream!Frames0)]
  BY DEF Stream!Init
<1>4. /\ call \in 0..NCalls /\ slink \in Conns \cup {None} /\ sent \in Nat
      /\ spc \in {"idle", "dial", "head", "body", "first", "reading"}
  BY SocketConstants DEF Stream!Init
<1>5. /\ got \in [1..NCalls -> Nat] /\ taken \in [1..NCalls -> Nat] /\ runs \in [1..NCalls -> Nat]
      /\ upload \in [1..NCalls -> Uploads \cup {None}]
      /\ sanswer \in [1..NCalls -> Answers \cup {None}]
  BY SocketConstants DEF Stream!Init
<1>6. /\ seen \in [1..NCalls -> {"open", "whole", "reply", "failed"}]
      /\ view \in [1..NCalls -> {"open", "whole", "failed"}]
  BY DEF Stream!Init
<1> QED  BY <1>1, <1>2, <1>3, <1>4, <1>5, <1>6 DEF Stream!TypeOK

(* The types of what is handed on: frames, and the places of a thread.        *)
LEMMA FrameTypes ==
    ASSUME NEW n \in 1..NCalls, NEW q \in Seq(Stream!Frames0)
    PROVE  /\ \A k \in {"head", "chunk", "end", "abort", "reply"} :
                /\ Stream!Frame(n, k) \in Stream!Frames0
                /\ Append(q, Stream!Frame(n, k)) \in Seq(Stream!Frames0)
           /\ q # <<>> => Tail(q) \in Seq(Stream!Frames0) /\ Head(q) \in Stream!Frames0
           /\ \A b, s : Stream!LastFrame(b, s) \in {"end", "abort"}
<1>1. \A k \in {"head", "chunk", "end", "abort", "reply"} : Stream!Frame(n, k) \in Stream!Frames0
  BY DEF Stream!Frame, Stream!Frames0
<1>2. \A b, s : Stream!LastFrame(b, s) \in {"end", "abort"}
  BY DEF Stream!LastFrame
<1> QED  BY <1>1, <1>2

LEMMA CallerTypeStep ==
    ASSUME Stream!TypeOK, CallsInOrder, Stream!Issue \/ Stream!CallerStep \/ Stream!TimeOut \/ Stream!Abandon
    PROVE  Stream!TypeOK'
<1> USE SocketConstants, FrameTypes
<1> USE DEF Stream!TypeOK, CallsInOrder, Stream!Return, Stream!history, Stream!SpentLink
<1>1. CASE Stream!Issue
  <2> USE <1>1 DEF Stream!Issue
  <2>1. sdialed' \in BOOLEAN
    OBVIOUS
  <2> QED  BY <2>1
<1>2. CASE Stream!DialFails
  <2> USE <1>2 DEF Stream!DialFails
  <2>1. sdialed' \in BOOLEAN
    OBVIOUS
  <2> QED  BY <2>1
<1>3. ASSUME NEW g \in Conns, Stream!Dial(g) PROVE Stream!TypeOK'
  <2> USE <1>3 DEF Stream!Dial
  <2>1. sdialed' \in BOOLEAN
    OBVIOUS
  <2>2. PICK place \in {"idle", "full"} : srv' = [srv EXCEPT ![g].pc = place]
    OBVIOUS
  <2>3. [srv[g] EXCEPT !.pc = place] \in Stream!Threads
    BY ZenonT(60) DEF Stream!Threads
  <2>4. srv' \in [Conns -> Stream!Threads]
    BY <2>2, <2>3
  <2> QED  BY <2>1, <2>4
<1>4. CASE Stream!WriteHead
  BY <1>4 DEF Stream!WriteHead
<1>5. CASE Stream!WriteHeadDead
  BY <1>5 DEF Stream!WriteHeadDead
<1>6. CASE Stream!WriteBody
  <2> USE <1>6 DEF Stream!WriteBody
  <2>1. PICK k \in {"chunk", "end", "abort"} :
             sc2s' = [sc2s EXCEPT ![slink] = Append(@, Stream!Frame(call, k))]
    OBVIOUS
  <2>2. Append(sc2s[slink], Stream!Frame(call, k)) \in Seq(Stream!Frames0)
    OBVIOUS
  <2>3. sc2s' \in [Conns -> Seq(Stream!Frames0)]
    BY <2>1, <2>2
  <2>4. sent' \in Nat /\ spc' \in {"body", "first"}
    BY SMTT(60)
  <2> QED  BY <2>3, <2>4
<1>7. CASE Stream!WriteBodyFails
  BY <1>7 DEF Stream!WriteBodyFails
<1>8. CASE Stream!ReadFirst
  BY <1>8 DEF Stream!ReadFirst
<1>9. CASE Stream!Read
  <2> USE <1>9 DEF Stream!Read
  <2>1. ss2c' \in [Conns -> Seq(Stream!Frames0)]
    OBVIOUS
  <2>2. got' \in [1..NCalls -> Nat]
    <3>1. got' = got \/ got' = [got EXCEPT ![call] = @ + 1]
      OBVIOUS
    <3>2. call \in 1..NCalls /\ got[call] + 1 \in Nat
      OBVIOUS
    <3> QED  BY <3>1, <3>2
  <2>3. seen' \in [1..NCalls -> {"open", "whole", "reply", "failed"}]
    BY ZenonT(60)
  <2>4. slink' \in Conns \cup {None} /\ spc' \in {"idle", "reading"}
    OBVIOUS
  <2> QED  BY <2>1, <2>2, <2>3, <2>4
<1>10. CASE Stream!ReadEnds
  BY <1>10 DEF Stream!ReadEnds
<1>11. CASE Stream!TimeOut
  BY <1>11 DEF Stream!TimeOut
<1>12. CASE Stream!Abandon
  BY <1>12 DEF Stream!Abandon
<1> QED  BY <1>1, <1>2, <1>3, <1>4, <1>5, <1>6, <1>7, <1>8, <1>9, <1>10, <1>11, <1>12 DEF Stream!CallerStep

DoorAct(g) == Stream!ServerStep(g) \/ Stream!Demand(g) \/ Stream!PumpPull(g) \/ Stream!Die(g)
LEMMA DoorTypeStep ==
    ASSUME Stream!TypeOK, ConnsInOrder, NEW g \in Conns, DoorAct(g)
    PROVE  Stream!TypeOK'
<1> USE SocketConstants, FrameTypes
<1>0. srv[g] \in Stream!Threads /\ (Works(g) => srv[g].call \in 1..NCalls)
  BY DEF ConnsInOrder, ConnInOrder, Serves, Stream!TypeOK
<1>q. sc2s[g] # <<>> => Head(sc2s[g]) \in Stream!Frames0 /\ Head(sc2s[g]).call \in 1..NCalls
  <2>1. sc2s[g] \in Seq(Stream!Frames0)
    BY DEF Stream!TypeOK
  <2>2. sc2s[g] # <<>> => Head(sc2s[g]) \in Stream!Frames0
    BY <2>1
  <2>3. \A f \in Stream!Frames0 : f.call \in 1..NCalls
    BY DEF Stream!Frames0
  <2> QED  BY <2>2, <2>3
<1>r. srv[g].read + 1 \in Nat /\ srv[g].out + 1 \in Nat
  BY <1>0 DEF Stream!Threads
<1>w. ASSUME NEW k \in {"head", "chunk", "end", "abort", "reply"}, Works(g),
             ss2c' = [ss2c EXCEPT ![g] = Append(@, Stream!Frame(srv[g].call, k))]
      PROVE  ss2c' \in [Conns -> Seq(Stream!Frames0)]
  <2>1. ss2c[g] \in Seq(Stream!Frames0) /\ srv[g].call \in 1..NCalls
    BY <1>w, <1>0 DEF Stream!TypeOK
  <2>2. Append(ss2c[g], Stream!Frame(srv[g].call, k)) \in Seq(Stream!Frames0)
    BY <2>1
  <2> QED  BY <1>w, <2>2 DEF Stream!TypeOK
<1>v. ASSUME Works(g), UNCHANGED taken \/ taken' = [taken EXCEPT ![srv[g].call] = @ + 1],
             \/ UNCHANGED view
             \/ \E e \in {"whole", "failed"} : view' = [view EXCEPT ![srv[g].call] = e]
      PROVE  taken' \in [1..NCalls -> Nat] /\ view' \in [1..NCalls -> {"open", "whole", "failed"}]
  <2>1. taken' \in [1..NCalls -> Nat]
    <3>1. srv[g].call \in 1..NCalls /\ taken[srv[g].call] + 1 \in Nat
      BY <1>v, <1>0, SMTT(60) DEF Stream!TypeOK
    <3> QED  BY <1>v, <3>1 DEF Stream!TypeOK
  <2>2. view' \in [1..NCalls -> {"open", "whole", "failed"}]
    BY <1>v DEF Stream!TypeOK
  <2> QED  BY <2>1, <2>2
<1>d. ASSUME Stream!Drop(g) PROVE srv' \in [Conns -> Stream!Threads]
  BY <1>d, IdleThread DEF Stream!Drop, Stream!Set, Stream!TypeOK
<1>s. ASSUME NEW t \in Stream!Threads, Stream!Set(g, t) PROVE srv' \in [Conns -> Stream!Threads]
  BY <1>s DEF Stream!Set, Stream!TypeOK
<1> USE DEF Stream!CallerAlone
<1>1. CASE Stream!ReadHead(g)
  <2> USE <1>1, <1>q DEF Stream!ReadHead
  <2> DEFINE n == Head(sc2s[g]).call
             t == [Stream!Idle EXCEPT !.pc = "run", !.call = n,
                       !.ended = IF upload[n] = None THEN "ok" ELSE "no"]
  <2>1. t \in Stream!Threads
    <3>1. \A e \in {"ok", "no"} :
             [Stream!Idle EXCEPT !.pc = "run", !.call = n, !.ended = e] \in Stream!Threads
      <4>1. n \in 0..NCalls
        OBVIOUS
      <4> QED  BY <4>1, IdleThread DEF Stream!Threads
    <3> QED  BY <3>1
  <2>2. srv' \in [Conns -> Stream!Threads]
    BY <2>1, <1>d, <1>s
  <2>3. sc2s' \in [Conns -> Seq(Stream!Frames0)]
    BY DEF Stream!TypeOK
  <2>4. runs' \in [1..NCalls -> Nat]
    <3>1. runs' = runs \/ runs' = [runs EXCEPT ![n] = @ + 1]
      OBVIOUS
    <3> QED  BY <3>1, SMTT(60) DEF Stream!TypeOK
  <2> QED  BY <2>2, <2>3, <2>4 DEF Stream!TypeOK
<1>2. CASE Stream!Refuse(g)
  <2> USE <1>2, <1>q DEF Stream!Refuse
  <2>1. srv' \in [Conns -> Stream!Threads]
    BY <1>d
  <2>2. sc2s' \in [Conns -> Seq(Stream!Frames0)] /\ ss2c' \in [Conns -> Seq(Stream!Frames0)]
    BY DEF Stream!TypeOK
  <2> QED  BY <2>1, <2>2 DEF Stream!TypeOK
<1>3. CASE Stream!Demand(g)
  <2> USE <1>3, <1>0 DEF Stream!Demand
  <2>1. [srv[g] EXCEPT !.pc = "pull"] \in Stream!Threads
    BY DEF Stream!Threads
  <2> QED  BY <2>1, <1>s DEF Stream!TypeOK
<1>4. CASE Stream!Pull(g)
  <2> USE <1>4, <1>0 DEF Stream!Pull
  <2> DEFINE s == [srv[g] EXCEPT !.pc = "run"]
  <2>1. s \in Stream!Threads /\ s.read + 1 \in Nat
    BY SMTT(60) DEF Stream!Threads
  <2>2. /\ [s EXCEPT !.read = @ + 1] \in Stream!Threads
        /\ \A e \in {"ok", "handed", "broken"} : [s EXCEPT !.ended = e] \in Stream!Threads
    BY <2>1 DEF Stream!Threads
  <2>3. srv' \in [Conns -> Stream!Threads]
    BY <2>2, <1>s
  <2>4. Works(g)
    BY DEF Works
  <2>5. taken' \in [1..NCalls -> Nat] /\ view' \in [1..NCalls -> {"open", "whole", "failed"}]
    BY <2>4, <1>v DEF Stream!Serving
  <2>6. sc2s' \in [Conns -> Seq(Stream!Frames0)]
    BY DEF Stream!TypeOK, Stream!Consume
  <2> QED  BY <2>3, <2>5, <2>6 DEF Stream!TypeOK
<1>5. CASE Stream!Resolve(g)
  <2> USE <1>5, <1>0 DEF Stream!Resolve
  <2>1. \A what \in {"reply", "stream"}, keep \in BOOLEAN :
            [srv[g] EXCEPT !.pc = "settle", !.kind = what, !.keep = keep] \in Stream!Threads
    BY DEF Stream!Threads
  <2>2. srv' \in [Conns -> Stream!Threads]
    BY <2>1, <1>s
  <2>3. sanswer' \in [1..NCalls -> Answers \cup {None}]
    BY DEF Stream!TypeOK
  <2> QED  BY <2>2, <2>3 DEF Stream!TypeOK
<1>6. CASE Stream!Settle(g)
  <2> USE <1>6, <1>0 DEF Stream!Settle
  <2> DEFINE s == srv[g]
  <2>1. [s EXCEPT !.read = @ + 1] \in Stream!Threads
    BY <1>r DEF Stream!Threads
  <2>2. ASSUME NEW t \in Stream!Threads PROVE Stream!Hold(t) \in Stream!Threads
    <3>1. t.held < MaxHeld => [t EXCEPT !.held = @ + 1] \in Stream!Threads
      <4>1. t.held < MaxHeld => t.held + 1 \in 0..MaxHeld
        BY DEF Stream!Threads
      <4> QED  BY <4>1 DEF Stream!Threads
    <3>2. [t EXCEPT !.held = 0, !.over = TRUE] \in Stream!Threads
      <4>1. 0 \in 0..MaxHeld /\ TRUE \in BOOLEAN
        OBVIOUS
      <4> HIDE SocketConstants
      <4> QED  BY <4>1, Zenon DEF Stream!Threads
    <3> QED  BY <3>1, <3>2 DEF Stream!Hold
  <2>3. \A e \in {"ok", "err", "broken"} : [s EXCEPT !.ended = e] \in Stream!Threads
    BY DEF Stream!Threads
  <2>4. srv' \in [Conns -> Stream!Threads]
    BY <2>1, <2>2, <2>3, <1>s
  <2>6. sc2s' \in [Conns -> Seq(Stream!Frames0)]
    BY DEF Stream!TypeOK, Stream!Consume
  <2> QED  BY <2>4, <2>6 DEF Stream!TypeOK
<1>7. CASE Stream!Answer(g)
  <2> USE <1>7, <1>0 DEF Stream!Answer
  <2>1. [srv[g] EXCEPT !.pc = "pump"] \in Stream!Threads
    BY DEF Stream!Threads
  <2>2. srv' \in [Conns -> Stream!Threads]
    BY <2>1, <1>d, <1>s, IdleThread
  <2>3. Works(g)
    BY DEF Works
  <2>4. ss2c' \in [Conns -> Seq(Stream!Frames0)]
    BY <2>3, <1>w DEF Stream!TypeOK, Stream!Serving
  <2> QED  BY <2>2, <2>4 DEF Stream!TypeOK
<1>8. CASE Stream!PumpPull(g)
  <2> USE <1>8, <1>0 DEF Stream!PumpPull
  <2> DEFINE s == srv[g]
  <2>1. s.held > 0 => [s EXCEPT !.held = @ - 1] \in Stream!Threads
    BY SMTT(60) DEF Stream!Threads
  <2>2. [s EXCEPT !.ended = IF @ = "err" THEN "handed" ELSE @] \in Stream!Threads
    BY DEF Stream!Threads
  <2>3. srv' \in [Conns -> Stream!Threads]
    BY <2>1, <2>2, <1>s
  <2>4. Works(g)
    BY DEF Works
  <2>5. taken' \in [1..NCalls -> Nat] /\ view' \in [1..NCalls -> {"open", "whole", "failed"}]
    BY <2>4, <1>v DEF Stream!Serving
  <2> QED  BY <2>3, <2>5 DEF Stream!TypeOK
<1>9. CASE Stream!Pump(g)
  <2> USE <1>9, <1>0 DEF Stream!Pump
  <2>1. [srv[g] EXCEPT !.out = @ + 1] \in Stream!Threads
    BY SMTT(60) DEF Stream!Threads
  <2>2. srv' \in [Conns -> Stream!Threads]
    BY <2>1, <1>d, <1>s, IdleThread
  <2>3. Works(g)
    BY DEF Works
  <2>4. ss2c' \in [Conns -> Seq(Stream!Frames0)]
    BY <2>3, <1>w DEF Stream!TypeOK, Stream!Serving
  <2> QED  BY <2>2, <2>4 DEF Stream!TypeOK
<1>10. CASE Stream!HangUp(g)
  BY <1>10, <1>d DEF Stream!HangUp, Stream!TypeOK
<1>11. CASE Stream!Die(g)
  BY <1>11, <1>d DEF Stream!Die, Stream!TypeOK
<1> QED  BY <1>1, <1>2, <1>3, <1>4, <1>5, <1>6, <1>7, <1>8, <1>9, <1>10, <1>11
         DEF DoorAct, Stream!ServerStep

IsBody(b) == b.len \in Nat \cup {NoLen} /\ b.gives \in Nat /\ b.fails \in BOOLEAN

(* BodyState::feed: a chunk that may be sent is read as one, and the frame    *)
(* that ends a body as what it is; where it is END the body is whole.         *)
LEMMA FeedsWhatIsSent ==
    ASSUME NEW b, IsBody(b), NEW s \in Nat
    PROVE  /\ Stream!Sends(b, s) => Stream!Feed(b.len, s, "chunk") = "chunk" /\ s + 1 <= b.gives
           /\ ~Stream!Sends(b, s) /\ s <= b.gives =>
                /\ Stream!Feed(b.len, s, Stream!LastFrame(b, s)) = Stream!LastFrame(b, s)
                /\ Stream!LastFrame(b, s) = "end" => Stream!Whole(b, s)
<1> USE SocketConstants DEF IsBody
<1>1. ASSUME Stream!Sends(b, s)
      PROVE  Stream!Feed(b.len, s, "chunk") = "chunk" /\ s + 1 <= b.gives
  BY <1>1 DEF Stream!Sends, Stream!Overruns, Stream!Feed
<1>2. ASSUME ~Stream!Sends(b, s), s <= b.gives, Stream!LastFrame(b, s) = "end"
      PROVE  Stream!Feed(b.len, s, "end") = "end" /\ Stream!Whole(b, s)
  <2>1. ~Stream!Overruns(b, s) /\ ~b.fails /\ (b.len = NoLen \/ b.len = s)
    BY <1>2 DEF Stream!LastFrame
  <2>2. s = b.gives
    BY <1>2, <2>1 DEF Stream!Sends
  <2> QED  BY <2>1, <2>2 DEF Stream!Feed, Stream!Whole
<1>3. Stream!Feed(b.len, s, "abort") = "abort"
  BY DEF Stream!Feed
<1>4. Stream!LastFrame(b, s) \in {"end", "abort"}
  BY DEF Stream!LastFrame
<1> QED  BY <1>1, <1>2, <1>3, <1>4

(* The first of what is on the way is the next chunk, or the frame that ends  *)
(* the body with nothing behind it.                                           *)
LEMMA RunInTurn ==
    ASSUME NEW S, NEW q \in Seq(S), NEW b, NEW r \in Nat, q # <<>>, IsRun(q, b, r)
    PROVE  \/ /\ Head(q).kind = "chunk" /\ Stream!Sends(b, r) /\ IsRun(Tail(q), b, r + 1)
           \/ /\ ~Stream!Sends(b, r) /\ Head(q).kind = Stream!LastFrame(b, r) /\ Tail(q) = <<>>
<1>0. Len(q) \in Nat /\ Len(q) >= 1 /\ Head(q) = q[1] /\ r + 1 - 1 = r
  OBVIOUS
<1>1. \/ Head(q).kind = "chunk" /\ Stream!Sends(b, r)
      \/ 1 = Len(q) /\ ~Stream!Sends(b, r) /\ Head(q).kind = Stream!LastFrame(b, r)
  <2>1. 1 \in 1..Len(q)
    BY <1>0
  <2>2. \/ q[1].kind = "chunk" /\ Stream!Sends(b, r + 1 - 1)
        \/ /\ 1 = Len(q) /\ ~Stream!Sends(b, r + 1 - 1)
           /\ q[1].kind = Stream!LastFrame(b, r + 1 - 1)
    BY <2>1 DEF IsRun
  <2> QED  BY <1>0, <2>2
<1>2. Len(q) = 1 => Tail(q) = <<>>
  <2>1. Len(q) = 1 => Tail(q) \in Seq(S) /\ Len(Tail(q)) = 0
    BY <1>0
  <2>2. \A t \in Seq(S) : Len(t) = 0 => t = <<>>
    OBVIOUS
  <2> QED  BY <2>1, <2>2
<1>3. IsRun(Tail(q), b, r + 1)
  <2> SUFFICES ASSUME NEW i \in 1..Len(Tail(q))
               PROVE  \/ Tail(q)[i].kind = "chunk" /\ Stream!Sends(b, r + 1 + i - 1)
                      \/ /\ i = Len(Tail(q)) /\ ~Stream!Sends(b, r + 1 + i - 1)
                         /\ Tail(q)[i].kind = Stream!LastFrame(b, r + 1 + i - 1)
    BY DEF IsRun
  <2>1. Len(Tail(q)) = Len(q) - 1 /\ Tail(q)[i] = q[i + 1] /\ i + 1 \in 1..Len(q)
    BY <1>0
  <2>2. r + (i + 1) - 1 = r + 1 + i - 1 /\ (i + 1 = Len(q) => i = Len(Tail(q)))
    <3>1. i \in Nat
      BY <1>0, <2>1
    <3>2. r + (i + 1) - 1 = r + 1 + i - 1
      BY <3>1
    <3>3. i + 1 = Len(q) => i = Len(Tail(q))
      <4>1. Len(Tail(q)) = Len(q) - 1
        BY <2>1
      <4>2. \A n \in Nat : i + 1 = n => i = n - 1
        BY <3>1
      <4> QED  BY <1>0, <4>1, <4>2
    <3> QED  BY <3>2, <3>3
  <2>3. \/ q[i + 1].kind = "chunk" /\ Stream!Sends(b, r + (i + 1) - 1)
        \/ /\ i + 1 = Len(q) /\ ~Stream!Sends(b, r + (i + 1) - 1)
           /\ q[i + 1].kind = Stream!LastFrame(b, r + (i + 1) - 1)
    BY <2>1 DEF IsRun
  <2> QED  BY <2>1, <2>2, <2>3
<1> QED  BY <1>1, <1>2, <1>3

(* While only chunks are on the way the sender's next frame may follow them.  *)
LEMMA RunGoesOn ==
    ASSUME NEW S, NEW q \in Seq(S), NEW b, NEW r \in Nat, NEW f \in S,
           IsRun(q, b, r), AllChunks(q, 1)
    PROVE  /\ Stream!Sends(b, r + Len(q)) /\ f.kind = "chunk" =>
                IsRun(Append(q, f), b, r) /\ AllChunks(Append(q, f), 1)
           /\ ~Stream!Sends(b, r + Len(q)) /\ f.kind = Stream!LastFrame(b, r + Len(q)) =>
                IsRun(Append(q, f), b, r)
<1> DEFINE p == Append(q, f)
<1>1. /\ Len(p) = Len(q) + 1 /\ p[Len(q) + 1] = f /\ r + (Len(q) + 1) - 1 = r + Len(q)
      /\ Len(q) \in Nat
      /\ \A i \in 1..Len(q) : p[i] = q[i] /\ i # Len(p)
      /\ \A i \in 1..Len(p) : i \in 1..Len(q) \/ i = Len(q) + 1
  OBVIOUS
<1>2. \A i \in 1..Len(q) : p[i].kind = "chunk"
  BY <1>1 DEF AllChunks
<1>3. CASE Stream!LastFrame(b, r + Len(q)) # "chunk"
  <2>1. \A i \in 1..Len(q) : Stream!Sends(b, r + i - 1)
    <3> SUFFICES ASSUME NEW i \in 1..Len(q), ~Stream!Sends(b, r + i - 1) PROVE FALSE
      OBVIOUS
    <3>1. q[i].kind = Stream!LastFrame(b, r + i - 1) /\ q[i].kind = "chunk"
      BY DEF IsRun, AllChunks
    <3> QED  BY <3>1 DEF Stream!LastFrame
  <2> HIDE DEF p
  <2> QED  BY <1>1, <1>2, <2>1 DEF IsRun, AllChunks, p
<1> QED  BY <1>3 DEF Stream!LastFrame

LEMMA NothingOnTheWay == ASSUME NEW b, NEW r PROVE IsRun(<<>>, b, r) /\ AllChunks(<<>>, 1)
BY DEF IsRun, AllChunks

(* The same behind a head. *)
LEMMA BehindTheHead ==
    ASSUME NEW S, NEW q \in Seq(S), NEW f \in S, q # <<>>
    PROVE  /\ Tail(Append(q, f)) = Append(Tail(q), f) /\ Head(Append(q, f)) = Head(q)
           /\ Tail(q) \in Seq(S) /\ Len(Tail(q)) = Len(q) - 1 /\ Head(q) = q[1] /\ Head(q) \in S
           /\ AllChunks(q, 2) <=> AllChunks(Tail(q), 1)
<1>1. Tail(Append(q, f)) = Append(Tail(q), f) /\ Head(Append(q, f)) = Head(q)
  OBVIOUS
<1>2. Tail(q) \in Seq(S) /\ Len(Tail(q)) = Len(q) - 1 /\ Head(q) = q[1] /\ Head(q) \in S
      /\ Len(q) \in Nat \ {0}
  OBVIOUS
<1>3. ASSUME AllChunks(q, 2) PROVE AllChunks(Tail(q), 1)
  BY <1>2, <1>3 DEF AllChunks
<1>4. ASSUME AllChunks(Tail(q), 1) PROVE AllChunks(q, 2)
  <2> SUFFICES ASSUME NEW j \in 2..Len(q) PROVE q[j].kind = "chunk"
    BY DEF AllChunks
  <2>1. j - 1 \in 1..Len(Tail(q)) /\ Tail(q)[j - 1] = q[j]
    BY <1>2
  <2> QED  BY <2>1, <1>4 DEF AllChunks
<1> QED  BY <1>1, <1>2, <1>3, <1>4

(* A step of the thread of g leaves the others as they were, and the calls of *)
(* the others: no two bear the same.                                          *)
StepsAt(g) ==
    /\ UNCHANGED <<call, spc, slink, sent, got, seen, upload>>
    /\ \A h \in Conns \ {g} : srv'[h] = srv[h] /\ sc2s'[h] = sc2s[h] /\ ss2c'[h] = ss2c[h]
    /\ \A n \in 1..NCalls : ~(Works(g) /\ n = srv[g].call) =>
         taken'[n] = taken[n] /\ view'[n] = view[n] /\ sanswer'[n] = sanswer[n]
    /\ Bears(g)' => Bears(g) /\ Borne(g)' = Borne(g)

LEMMA BorneIsACall ==
    ASSUME Stream!TypeOK, ConnsInOrder, NEW g \in Conns, Bears(g)
    PROVE  Borne(g) \in 1..call /\ Borne(g) \in 1..NCalls
<1>1. ConnInOrder(g) /\ call \in 0..NCalls
  BY DEF ConnsInOrder, Stream!TypeOK
<1>2. Borne(g) \in 1..call
  <2>1. CASE Works(g)
    BY <1>1, <2>1 DEF ConnInOrder, Serves, Borne
  <2>2. CASE ~Works(g)
    BY <1>1, <2>2 DEF ConnInOrder, WaitingHead, Borne, Bears
  <2> QED  BY <2>1, <2>2
<1> QED  BY <1>1, <1>2, SocketConstants

LEMMA SameElsewhere ==
    ASSUME SocketInv, NEW g \in Conns, StepsAt(g)
    PROVE  /\ \A h \in Conns \ {g} : /\ ConnInOrder(h)'
                                     /\ Bears(h)' => Bears(h) /\ Borne(h)' = Borne(h)
           /\ OneBearer' /\ CallsInOrder' /\ Stream!AnswerIsWhole'
           /\ \A h \in Conns \ {g} : slink = h => LinkAt(h)'
           /\ \A n \in 1..NCalls : ~(Works(g) /\ n = srv[g].call) =>
                (view[n] = "whole" => Stream!Whole(upload[n], taken[n]))'
<1> DEFINE own(n) == Works(g) /\ n = srv[g].call
<1>1. ASSUME NEW h \in Conns \ {g}, Bears(h) PROVE Borne(h) \in 1..NCalls /\ ~own(Borne(h))
  <2>1. Borne(h) \in 1..NCalls
    BY <1>1, BorneIsACall DEF SocketInv
  <2>2. Works(g) => Bears(g) /\ Borne(g) = srv[g].call
    BY DEF Bears, Borne
  <2> QED  BY <1>1, <2>1, <2>2 DEF SocketInv, OneBearer
<1>2. ASSUME NEW h \in Conns \ {g}
      PROVE  /\ Works(h)' <=> Works(h)
             /\ Waits(h)' <=> Waits(h)
             /\ Bears(h)' <=> Bears(h)
             /\ Borne(h)' = Borne(h)
  BY DEF StepsAt, Works, Waits, Bears, Borne
<1>3. ASSUME NEW h \in Conns \ {g} PROVE ConnInOrder(h)'
  <2>1. ConnInOrder(h)
    BY DEF SocketInv, ConnsInOrder
  <2>2. ASSUME Waits(h) PROVE WaitingHead(h)'
    <3>1. Bears(h) /\ Borne(h) = Head(sc2s[h]).call
      BY <2>2 DEF Waits, Works, Bears, Borne
    <3>2. WaitingHead(h)
      BY <2>1, <2>2 DEF ConnInOrder
    <3> QED  BY <3>1, <3>2, <1>1 DEF WaitingHead, StepsAt
  <2>3. ASSUME Works(h) PROVE Serves(h)'
    <3>1. Bears(h) /\ Borne(h) = srv[h].call
      BY <2>3 DEF Bears, Borne
    <3>2. Serves(h)
      BY <2>1, <2>3 DEF ConnInOrder
    <3> QED  BY <3>1, <3>2, <1>1 DEF Serves, StepsAt
  <2> QED  BY <2>1, <2>2, <2>3, <1>2 DEF ConnInOrder, StepsAt
<1>4. OneBearer'
  <2>1. \A h \in Conns : Bears(h)' => Bears(h) /\ Borne(h)' = Borne(h)
    BY <1>2 DEF StepsAt
  <2> QED  BY <2>1 DEF OneBearer, SocketInv
<1>5. CallsInOrder'
  <2>1. Works(g) => srv[g].call \in 1..call /\ (srv[g].call = call => spc \notin {"dial", "head"})
    BY DEF SocketInv, ConnsInOrder, ConnInOrder, Serves, Bears, Borne
  <2>2. \A n \in call+1..NCalls : n \in 1..NCalls /\ ~own(n)
    BY <2>1, SocketConstants DEF SocketInv, Stream!TypeOK
  <2>3. spc \in {"dial", "head"} => call \in 1..NCalls /\ ~own(call)
    BY <2>1 DEF SocketInv, CallsInOrder
  <2> QED  BY <2>2, <2>3 DEF SocketInv, CallsInOrder, StepsAt, Untouched
<1>6. Stream!AnswerIsWhole'
  <2>1. \A n \in 1..NCalls : own(n) => seen[n] # "whole"
    BY DEF SocketInv, ConnsInOrder, ConnInOrder, Bears, Borne
  <2> QED  BY <2>1 DEF SocketInv, Stream!AnswerIsWhole, StepsAt
<1>7. ASSUME NEW h \in Conns \ {g}, slink = h PROVE LinkAt(h)'
  <2>1. spc \in {"body", "first", "reading"} => call \in 1..NCalls /\ ~own(call)
    BY <1>7 DEF SocketInv, ConnsInOrder, ConnInOrder, Bears, Borne, CallsInOrder
  <2>2. spc \in {"body", "first", "reading"} => sanswer'[call] = sanswer[call]
    BY <2>1 DEF StepsAt
  <2>3. LinkAt(h)
    BY <1>7 DEF SocketInv, LinkInOrder
  <2>4. UNCHANGED <<call, spc, slink, sent, got, upload>>
        /\ srv'[h] = srv[h] /\ sc2s'[h] = sc2s[h] /\ ss2c'[h] = ss2c[h]
    BY DEF StepsAt
  <2> QED  BY <2>2, <2>3, <2>4, <1>2 DEF LinkAt, AnswerComes
<1>8. \A n \in 1..NCalls : ~own(n) => (view[n] = "whole" => Stream!Whole(upload[n], taken[n]))'
  BY DEF SocketInv, Stream!UploadIsWhole, StepsAt
<1> QED  BY <1>2, <1>3, <1>4, <1>5, <1>6, <1>7, <1>8

LEMMA DoorStepEnough ==
    ASSUME SocketInv, NEW g \in Conns, DoorAct(g), StepsAt(g), ConnInOrder(g)',
           slink = g => LinkAt(g)',
           Works(g) => LET n == srv[g].call IN
                       view'[n] = "whole" => Stream!Whole(upload[n], taken'[n])
    PROVE  SocketInv'
<1>1. Stream!TypeOK'
  BY DoorTypeStep DEF SocketInv
<1>2. ConnsInOrder'
  BY SameElsewhere DEF ConnsInOrder
<1>3. Stream!UploadIsWhole'
  <2>1. upload' = upload
    BY DEF StepsAt
  <2> QED  BY <2>1, SameElsewhere DEF Stream!UploadIsWhole
<1>4. LinkInOrder'
  BY SameElsewhere DEF LinkInOrder, StepsAt
<1> QED  BY <1>1, <1>2, <1>3, <1>4, SameElsewhere DEF SocketInv

(* The connection of g ends; what it wrote is still read.                     *)
LEMMA ConnectionEnds ==
    ASSUME SocketInv, NEW g \in Conns, DoorAct(g), Stream!Drop(g), Stream!CallerAlone,
           UNCHANGED <<taken, view, sanswer, ss2c>>,
           sc2s' = [sc2s EXCEPT ![g] = sc2s'[g]], srv[g].pc # "undialed"
    PROVE  SocketInv'
<1>1. srv'[g].pc = "closed" /\ \A h \in Conns \ {g} : srv'[h] = srv[h]
  BY IdleThread DEF Stream!Drop, Stream!Set, SocketInv, Stream!TypeOK, Stream!Idle
<1>2. ~Waits(g)' /\ ~Works(g)' /\ ~Bears(g)'
  BY <1>1 DEF Waits, Works, Bears
<1>3. StepsAt(g)
  BY <1>1, <1>2 DEF StepsAt, Stream!CallerAlone, SocketInv, Stream!TypeOK
<1>4. ConnInOrder(g)'
  BY <1>1, <1>2 DEF ConnInOrder
<1>5. ASSUME slink = g PROVE LinkAt(g)'
  <2>1. UNCHANGED <<slink, spc, call, got, sent, upload, sanswer, ss2c>>
    BY DEF Stream!CallerAlone
  <2>2. LinkAt(g)
    BY <1>5 DEF SocketInv, LinkInOrder
  <2> QED  BY <1>1, <1>2, <2>1, <2>2 DEF LinkAt, AnswerComes
<1>6. Works(g) => LET n == srv[g].call IN
                  view'[n] = "whole" => Stream!Whole(upload[n], taken'[n])
  BY BorneIsACall DEF SocketInv, Stream!UploadIsWhole, Bears, Borne
<1> QED  BY <1>3, <1>4, <1>5, <1>6, DoorStepEnough

LEMMA DieStep ==
    ASSUME SocketInv, NEW g \in Conns, Stream!Die(g) \/ Stream!HangUp(g) PROVE SocketInv'
<1>1. DoorAct(g) /\ Stream!Drop(g) /\ srv[g].pc # "undialed" /\ Stream!CallerAlone
      /\ UNCHANGED <<taken, view, sanswer, ss2c, sc2s>>
  BY DEF DoorAct, Stream!ServerStep, Stream!Die, Stream!HangUp
<1>2. sc2s' = [sc2s EXCEPT ![g] = sc2s'[g]]
  BY <1>1 DEF SocketInv, Stream!TypeOK
<1> QED  BY <1>1, <1>2, ConnectionEnds

(* Where a thread that works is in order, its call is the one it bore before. *)
LEMMA Reads ==
    ASSUME Stream!TypeOK, NEW g \in Conns, sc2s[g] # <<>>
    PROVE  /\ sc2s[g] \in Seq(Stream!Frames0) /\ Tail(sc2s[g]) \in Seq(Stream!Frames0)
           /\ Len(Tail(sc2s[g])) = Len(sc2s[g]) - 1 /\ Len(sc2s[g]) \in Nat \ {0}
           /\ Head(sc2s[g]) = sc2s[g][1] /\ Head(sc2s[g]) \in Stream!Frames0
           /\ AllChunks(sc2s[g], 2) <=> AllChunks(Tail(sc2s[g]), 1)
           /\ AllChunks(sc2s[g], 1) => AllChunks(sc2s[g], 2) /\ Head(sc2s[g]).kind = "chunk"
<1>1. sc2s[g] \in Seq(Stream!Frames0)
  BY DEF Stream!TypeOK
<1>2. Head(sc2s[g]) \in Stream!Frames0
  BY <1>1
<1>3. Len(sc2s[g]) \in Nat \ {0}
  BY <1>1
<1> QED  BY <1>1, <1>2, <1>3, BehindTheHead DEF AllChunks

(* The link of a call that a thread bears is its caller's.                    *)
LEMMA BearerIsRead ==
    ASSUME SocketInv, NEW g \in Conns, slink = g, Bears(g)
    PROVE  /\ spc \in {"body", "first", "reading"} /\ Borne(g) = call /\ LinkAt(g)
           /\ call \in 1..NCalls
<1>1. LinkAt(g) /\ spc \in {"idle", "dial", "head", "body", "first", "reading"}
  BY DEF SocketInv, LinkInOrder, Stream!TypeOK
<1>2. spc # "dial"
  BY SocketConstants DEF SocketInv, CallsInOrder
<1>3. spc \notin {"idle", "head"}
  BY <1>1 DEF LinkAt, Bears, Waits, Works
<1> QED  BY <1>1, <1>2, <1>3 DEF LinkAt, SocketInv, CallsInOrder

LEMMA ReadHeadStep ==
    ASSUME SocketInv, NEW g \in Conns, Stream!ReadHead(g) PROVE SocketInv'
<1> DEFINE q == sc2s[g]
           n == Head(q).call
<1>1. /\ srv[g].pc = "idle" /\ q # <<>> /\ Waits(g) /\ ~Works(g) /\ Bears(g) /\ Borne(g) = n
  BY DEF Stream!ReadHead, Waits, Works, Bears, Borne
<1>2. ConnInOrder(g) /\ WaitingHead(g) /\ n \in 1..call /\ Head(q).kind = "head"
  BY <1>1 DEF SocketInv, ConnsInOrder, ConnInOrder, WaitingHead
<1>3. /\ srv' = [srv EXCEPT ![g] = [Stream!Idle EXCEPT !.pc = "run", !.call = n,
                       !.ended = IF upload[n] = None THEN "ok" ELSE "no"]]
      /\ sc2s' = [sc2s EXCEPT ![g] = Tail(q)]
      /\ Stream!CallerAlone /\ UNCHANGED <<taken, view, sanswer, ss2c>>
  BY <1>2 DEF Stream!ReadHead, Stream!Set
<1>4. /\ srv'[g].pc = "run" /\ srv'[g].call = n /\ srv'[g].read = 0 /\ srv'[g].held = 0
      /\ srv'[g].out = 0 /\ srv'[g].kind = "none"
      /\ srv'[g].ended = IF upload[n] = None THEN "ok" ELSE "no"
      /\ sc2s'[g] = Tail(q) /\ ss2c'[g] = ss2c[g]
  BY <1>3 DEF SocketInv, Stream!TypeOK, Stream!Idle
<1>5. ~srv'[g].keep /\ ~srv'[g].over
  BY <1>3 DEF SocketInv, Stream!TypeOK, Stream!Idle
<1>6. Works(g)' /\ ~Waits(g)' /\ Bears(g)' /\ Borne(g)' = n
  BY <1>4 DEF Works, Waits, Bears, Borne
<1>7. DoorAct(g)
  BY DEF DoorAct, Stream!ServerStep
<1>8. StepsAt(g)
  BY <1>1, <1>3, <1>6 DEF StepsAt, Stream!CallerAlone, SocketInv, Stream!TypeOK
<1>t. n \in 1..NCalls /\ (upload[n] # None => upload[n].gives \in Nat)
  BY <1>1, <1>2, BorneIsACall, SocketConstants DEF SocketInv, Stream!TypeOK
<1>9. Serves(g)'
  <2>1. /\ call' = call /\ upload' = upload /\ taken'[n] = 0 /\ view'[n] = "open"
        /\ IF upload[n] = None THEN Tail(q) = <<>> ELSE IsRun(Tail(q), upload[n], 0)
    BY <1>2, <1>3 DEF WaitingHead, Stream!CallerAlone
  <2>2. upload[n] # None => 0 <= upload[n].gives
    BY <1>t
  <2> QED  BY <1>2, <1>4, <1>5, <2>1, <2>2 DEF Serves
<1>10. ConnInOrder(g)'
  BY <1>1, <1>2, <1>3, <1>4, <1>6, <1>9 DEF ConnInOrder, Stream!CallerAlone
<1>11. ASSUME slink = g PROVE LinkAt(g)'
  <2>1. UNCHANGED <<slink, spc, call, got, sent, upload, sanswer, ss2c>>
    BY <1>3 DEF Stream!CallerAlone
  <2>2. LinkAt(g) /\ spc \in {"body", "first", "reading"} /\ n = call
    BY <1>1, <1>11, BearerIsRead
  <2>3. ss2c[g] = <<>> /\ spc # "reading"
    BY <1>1, <2>2 DEF LinkAt
  <2>5. spc = "body" => upload[call] # None /\ Len(q) = sent + 1 /\ AllChunks(q, 2)
    BY <1>1, <2>2 DEF LinkAt
  <2>6. spc = "body" => Len(Tail(q)) = sent /\ AllChunks(Tail(q), 1)
    BY <1>1, <2>5, Reads DEF SocketInv, Stream!TypeOK
  <2> QED  BY <1>4, <1>6, <2>1, <2>2, <2>3, <2>5, <2>6 DEF LinkAt, AnswerComes
<1> QED  BY <1>1, <1>7, <1>8, <1>10, <1>11, DoorStepEnough

LEMMA RefuseStep ==
    ASSUME SocketInv, NEW g \in Conns, Stream!Refuse(g) PROVE SocketInv'
<1> DEFINE f == Stream!Frame(Head(sc2s[g]).call, "reply")
<1>1. /\ srv[g].pc = "full" /\ sc2s[g] # <<>> /\ Waits(g) /\ Bears(g) /\ ~Works(g)
      /\ DoorAct(g)
  BY DEF Stream!Refuse, Waits, Works, Bears, DoorAct, Stream!ServerStep
<1>2. /\ srv'[g].pc = "closed" /\ (\A h \in Conns \ {g} : srv'[h] = srv[h])
      /\ ss2c' = [ss2c EXCEPT ![g] = Append(@, f)]
      /\ sc2s' = [sc2s EXCEPT ![g] = Tail(@)]
      /\ Stream!CallerAlone /\ UNCHANGED <<taken, view, sanswer>>
  BY IdleThread DEF Stream!Refuse, Stream!Drop, Stream!Set, SocketInv, Stream!TypeOK, Stream!Idle
<1>3. ~Waits(g)' /\ ~Works(g)' /\ ~Bears(g)'
  BY <1>2 DEF Waits, Works, Bears
<1>4. StepsAt(g)
  BY <1>2, <1>3 DEF StepsAt, Stream!CallerAlone, SocketInv, Stream!TypeOK
<1>5. ConnInOrder(g)'
  BY <1>2, <1>3 DEF ConnInOrder
<1>6. ASSUME slink = g PROVE LinkAt(g)'
  <2>1. LinkAt(g) /\ spc \in {"body", "first", "reading"}
    BY <1>1, <1>6, BearerIsRead
  <2>2. ss2c[g] = <<>> /\ spc # "reading" /\ (spc = "body" => upload[call] # None)
    BY <1>1, <2>1 DEF LinkAt
  <2>3. ss2c'[g] = <<f>> /\ f.kind = "reply"
    BY <1>2, <2>2 DEF Stream!Frame, SocketInv, Stream!TypeOK
  <2>4. Len(ss2c'[g]) = 1 /\ ss2c'[g][1].kind = "reply"
    BY <2>3
  <2> QED  BY <1>2, <1>3, <2>1, <2>2, <2>4 DEF LinkAt, AnswerComes, Stream!CallerAlone
<1> QED  BY <1>1, <1>4, <1>5, <1>6, DoorStepEnough

(* A working thread that goes on working, its call and its caller the same.   *)
LEMMA WorksOn ==
    ASSUME SocketInv, NEW g \in Conns, Works(g), Stream!CallerAlone,
           NEW t \in Stream!Threads, Stream!Set(g, t), t.call = srv[g].call,
           t.pc \in {"run", "pull", "settle", "pump"},
           \A h \in Conns \ {g} : sc2s'[h] = sc2s[h] /\ ss2c'[h] = ss2c[h],
           \A n \in 1..NCalls \ {srv[g].call} :
                taken'[n] = taken[n] /\ view'[n] = view[n] /\ sanswer'[n] = sanswer[n]
    PROVE  /\ StepsAt(g) /\ srv'[g] = t /\ Works(g)' /\ ~Waits(g)' /\ Bears(g)
           /\ ConnInOrder(g) /\ Serves(g) /\ srv[g].call \in 1..NCalls
           /\ upload' = upload /\ call' = call
           /\ upload[srv[g].call] # None => IsBody(upload[srv[g].call])
           /\ Serves(g)' => ConnInOrder(g)'
           /\ slink = g => /\ spc \in {"first", "body", "reading"} /\ call = srv[g].call /\ LinkAt(g)
                           /\ Bears(g)' /\ Borne(g)' = call
                           /\ UNCHANGED <<slink, spc, call, got, sent, upload>>
<1>1. srv'[g] = t /\ \A h \in Conns \ {g} : srv'[h] = srv[h]
  BY DEF Stream!Set, SocketInv, Stream!TypeOK
<1>2. /\ Works(g)' /\ ~Waits(g)' /\ Bears(g) /\ Bears(g)'
      /\ Borne(g) = srv[g].call /\ Borne(g)' = srv[g].call
  BY <1>1 DEF Works, Waits, Bears, Borne
<1>3. StepsAt(g)
  BY <1>1, <1>2 DEF StepsAt, Stream!CallerAlone
<1>4. srv[g].call \in 1..NCalls /\ ConnInOrder(g) /\ Serves(g)
  BY <1>2, BorneIsACall DEF SocketInv, ConnsInOrder, ConnInOrder
<1>5. upload[srv[g].call] # None => IsBody(upload[srv[g].call])
  BY <1>4, SocketConstants DEF SocketInv, Stream!TypeOK, IsBody
<1>6. Serves(g)' => ConnInOrder(g)'
  BY <1>1, <1>2, <1>4 DEF ConnInOrder, Stream!CallerAlone
<1>7. slink = g => /\ spc \in {"first", "body", "reading"} /\ call = srv[g].call /\ LinkAt(g)
                   /\ Bears(g)' /\ Borne(g)' = call
  BY <1>2, BearerIsRead
<1>8. UNCHANGED <<slink, spc, call, got, sent, upload>>
  BY DEF Stream!CallerAlone
<1> QED  BY <1>1, <1>2, <1>3, <1>4, <1>5, <1>6, <1>7, <1>8

LEMMA DemandStep ==
    ASSUME SocketInv, NEW g \in Conns, Stream!Demand(g) PROVE SocketInv'
<1> DEFINE t == [srv[g] EXCEPT !.pc = "pull"]
<1>1. /\ srv[g].pc = "run" /\ Works(g) /\ DoorAct(g) /\ Stream!Set(g, t)
      /\ upload[srv[g].call] # None /\ view[srv[g].call] = "open"
      /\ Stream!CallerAlone /\ UNCHANGED <<taken, view, sanswer, sc2s, ss2c>>
  BY DEF Stream!Demand, Works, DoorAct, Stream!Serving
<1>2. srv[g] \in Stream!Threads
  BY DEF SocketInv, Stream!TypeOK
<1>3. /\ t \in Stream!Threads /\ t.pc = "pull" /\ t.call = srv[g].call /\ t.ended = srv[g].ended
      /\ t.read = srv[g].read /\ t.held = srv[g].held /\ t.kind = srv[g].kind /\ t.out = srv[g].out
  BY <1>2 DEF Stream!Threads
<1>4. t.keep = srv[g].keep /\ t.over = srv[g].over
  BY <1>2 DEF Stream!Threads
<1> HIDE DEF t
<1>5. /\ StepsAt(g) /\ srv'[g] = t /\ Works(g)' /\ ~Waits(g)' /\ Serves(g)
      /\ upload' = upload /\ call' = call /\ (Serves(g)' => ConnInOrder(g)')
  BY <1>1, <1>3, WorksOn
<1>6. Serves(g)'
  BY <1>1, <1>3, <1>4, <1>5 DEF Serves
<1>7. ASSUME slink = g PROVE LinkAt(g)'
  <2>1. /\ spc \in {"first", "body", "reading"} /\ call = srv[g].call /\ LinkAt(g)
        /\ Bears(g)' /\ Borne(g)' = call /\ UNCHANGED <<slink, spc, call, got, sent, upload>>
    BY <1>1, <1>3, <1>7, WorksOn
  <2> QED  BY <1>1, <1>3, <1>5, <2>1 DEF LinkAt, AnswerComes
<1>8. LET n == srv[g].call IN view'[n] = "whole" => Stream!Whole(upload[n], taken'[n])
  BY <1>1
<1> QED  BY <1>1, <1>5, <1>6, <1>7, <1>8, DoorStepEnough

(* What Incoming::read makes of the next frame of a body in order.            *)
LEMMA NextOfTheBody ==
    ASSUME SocketInv, NEW g \in Conns, Works(g), srv[g].ended = "no",
           Stream!Frames(g), Stream!Consume(g)
    PROVE  LET b == upload[srv[g].call] r == srv[g].read step == Stream!Incoming(g) IN
           /\ sc2s'[g] \in Seq(Stream!Frames0)
           /\ \A h \in Conns \ {g} : sc2s'[h] = sc2s[h]
           /\ \/ /\ step = "chunk" /\ IsRun(sc2s'[g], b, r + 1) /\ r + 1 <= b.gives
                 /\ AllChunks(sc2s[g], 1) =>
                      AllChunks(sc2s'[g], 1) /\ r + 1 + Len(sc2s'[g]) = r + Len(sc2s[g])
              \/ step = "end" /\ sc2s'[g] = <<>> /\ Stream!Whole(b, r) /\ ~AllChunks(sc2s[g], 1)
              \/ step = "abort" /\ sc2s'[g] = <<>> /\ ~AllChunks(sc2s[g], 1)
              \/ step = "broken" /\ sc2s'[g] = <<>> /\ slink # g
<1> DEFINE n == srv[g].call
           b == upload[n]
           r == srv[g].read
           q == sc2s[g]
           step == Stream!Incoming(g)
<1>1. n \in 1..NCalls /\ Serves(g) /\ r \in Nat /\ q \in Seq(Stream!Frames0)
  <2>1. Bears(g) /\ Borne(g) = n
    BY DEF Bears, Borne
  <2> QED  BY <2>1, BorneIsACall DEF SocketInv, ConnsInOrder, ConnInOrder, Stream!TypeOK, Stream!Threads
<1>2. b # None /\ IsRun(q, b, r) /\ r <= b.gives /\ IsBody(b)
  BY <1>1, SocketConstants DEF Serves, SocketInv, Stream!TypeOK, IsBody
<1>3. sc2s' = [sc2s EXCEPT ![g] = IF @ = <<>> THEN @ ELSE Tail(@)]
  BY DEF Stream!Consume
<1>4. \A h \in Conns \ {g} : sc2s'[h] = sc2s[h]
  BY <1>3 DEF SocketInv, Stream!TypeOK
<1>5. sc2s'[g] = (IF q = <<>> THEN q ELSE Tail(q)) /\ sc2s'[g] \in Seq(Stream!Frames0)
  BY <1>1, <1>3 DEF SocketInv, Stream!TypeOK
<1>6. CASE q = <<>>
  <2>1. step = "broken" /\ slink # g
    BY <1>6 DEF Stream!Incoming, Stream!Frames, Stream!Gone
  <2> QED  BY <2>1, <1>4, <1>5, <1>6
<1>7. CASE q # <<>>
  <2>1. step = Stream!Feed(b.len, r, Head(q).kind) /\ sc2s'[g] = Tail(q)
    BY <1>5, <1>7 DEF Stream!Incoming, Stream!Serving
  <2>2. /\ Len(Tail(q)) = Len(q) - 1 /\ Len(q) \in Nat
        /\ AllChunks(q, 1) => AllChunks(Tail(q), 1) /\ Head(q).kind = "chunk"
    BY <1>7, Reads DEF SocketInv
  <2>3. CASE Head(q).kind = "chunk" /\ Stream!Sends(b, r) /\ IsRun(Tail(q), b, r + 1)
    <3>1. step = "chunk" /\ r + 1 <= b.gives
      BY <1>1, <1>2, <2>1, <2>3, FeedsWhatIsSent
    <3>2. r + 1 + Len(Tail(q)) = r + Len(q)
      BY <1>1, <2>2
    <3> QED  BY <3>1, <3>2, <2>1, <2>2, <2>3, <1>4, <1>5
  <2>4. CASE /\ ~Stream!Sends(b, r) /\ Head(q).kind = Stream!LastFrame(b, r) /\ Tail(q) = <<>>
    <3>1. step = Stream!LastFrame(b, r) /\ (step = "end" => Stream!Whole(b, r))
      BY <1>1, <1>2, <2>1, <2>4, FeedsWhatIsSent
    <3>2. Stream!LastFrame(b, r) \in {"end", "abort"}
      BY DEF Stream!LastFrame
    <3>3. ~AllChunks(q, 1)
      BY <2>2, <2>4, <3>2
    <3> QED  BY <3>1, <3>2, <3>3, <2>1, <2>4, <1>4, <1>5
  <2> QED  BY <1>1, <1>2, <1>7, <2>3, <2>4, RunInTurn
<1> QED  BY <1>6, <1>7

LEMMA PullStep ==
    ASSUME SocketInv, NEW g \in Conns, Stream!Pull(g) PROVE SocketInv'
<1> DEFINE n == srv[g].call
           b == upload[n]
           s == [srv[g] EXCEPT !.pc = "run"]
           step == Stream!Incoming(g)
<1>1. /\ srv[g].pc = "pull" /\ Works(g) /\ DoorAct(g) /\ Stream!CallerAlone
      /\ Stream!Frames(g) /\ Stream!Consume(g) /\ UNCHANGED <<sanswer, ss2c>>
  BY DEF Stream!Pull, Works, DoorAct, Stream!ServerStep
<1>2. srv[g] \in Stream!Threads /\ ConnInOrder(g)
  BY DEF SocketInv, Stream!TypeOK, ConnsInOrder
<1>3. /\ Serves(g) /\ srv[g].ended = "no" /\ b # None /\ view[n] = "open" /\ taken[n] = srv[g].read
      /\ ~srv[g].keep /\ ~srv[g].over /\ srv[g].held = 0 /\ srv[g].out = 0 /\ n \in 1..call
  BY <1>1, <1>2 DEF ConnInOrder, Serves
<1>n. n \in 1..NCalls /\ srv[g].read \in Nat
  BY <1>2, <1>3, SocketConstants DEF SocketInv, Stream!TypeOK, Stream!Threads
<1>4. PICK t \in Stream!Threads :
        /\ Stream!Set(g, t) /\ t.pc = "run" /\ t.call = n /\ t.held = 0 /\ t.out = 0
        /\ t.keep = srv[g].keep /\ t.over = srv[g].over
        /\ \/ /\ step = "chunk" /\ t.ended = "no" /\ t.read = srv[g].read + 1
              /\ taken' = [taken EXCEPT ![n] = @ + 1] /\ UNCHANGED view
           \/ /\ step = "end" /\ t.ended = "ok" /\ t.read = srv[g].read
              /\ view' = [view EXCEPT ![n] = "whole"] /\ UNCHANGED taken
           \/ /\ step \in {"abort", "broken"} /\ t.ended \in {"handed", "broken"} /\ t.read = srv[g].read
              /\ view' = [view EXCEPT ![n] = "failed"] /\ UNCHANGED taken
  <2>1. s \in Stream!Threads /\ s.read + 1 \in Nat
    BY <1>2 DEF Stream!Threads
  <2>2. CASE step = "chunk"
    <3> DEFINE t == [s EXCEPT !.read = @ + 1]
    <3>1. t \in Stream!Threads
      BY <2>1 DEF Stream!Threads
    <3>2. /\ t.pc = "run" /\ t.call = n /\ t.held = 0 /\ t.out = 0
          /\ t.ended = "no" /\ t.read = srv[g].read + 1
      BY <1>2, <1>3 DEF Stream!Threads
    <3>3. t.keep = srv[g].keep /\ t.over = srv[g].over
      BY <1>2 DEF Stream!Threads
    <3>4. Stream!Set(g, t) /\ taken' = [taken EXCEPT ![n] = @ + 1] /\ UNCHANGED view
      BY <2>2 DEF Stream!Pull, Stream!Serving
    <3> HIDE DEF t
    <3> QED  BY <2>2, <3>1, <3>2, <3>3, <3>4
  <2>3. CASE step = "end"
    <3> DEFINE t == [s EXCEPT !.ended = "ok"]
    <3>1. t \in Stream!Threads
      BY <2>1 DEF Stream!Threads
    <3>2. /\ t.pc = "run" /\ t.call = n /\ t.held = 0 /\ t.out = 0
          /\ t.ended = "ok" /\ t.read = srv[g].read
      BY <1>2, <1>3 DEF Stream!Threads
    <3>3. t.keep = srv[g].keep /\ t.over = srv[g].over
      BY <1>2 DEF Stream!Threads
    <3>4. Stream!Set(g, t) /\ view' = [view EXCEPT ![n] = "whole"] /\ UNCHANGED taken
      BY <2>3 DEF Stream!Pull, Stream!Serving
    <3> HIDE DEF t
    <3> QED  BY <2>3, <3>1, <3>2, <3>3, <3>4
  <2>4. CASE step \in {"abort", "broken"}
    <3> DEFINE e == IF step = "abort" THEN "handed" ELSE "broken"
               t == [s EXCEPT !.ended = e]
    <3>0. e \in {"handed", "broken"}
      OBVIOUS
    <3>4. Stream!Set(g, t) /\ view' = [view EXCEPT ![n] = "failed"] /\ UNCHANGED taken
      BY <2>4 DEF Stream!Pull, Stream!Serving
    <3> HIDE DEF e
    <3>1. t \in Stream!Threads
      BY <2>1, <3>0 DEF Stream!Threads
    <3>2. /\ t.pc = "run" /\ t.call = n /\ t.held = 0 /\ t.out = 0 /\ t.ended = e
          /\ t.read = srv[g].read
      BY <1>2, <1>3 DEF Stream!Threads
    <3>3. t.keep = srv[g].keep /\ t.over = srv[g].over
      BY <1>2 DEF Stream!Threads
    <3> HIDE DEF t
    <3> QED  BY <2>4, <3>0, <3>1, <3>2, <3>3, <3>4
  <2> QED  BY <2>2, <2>3, <2>4 DEF Stream!Pull
<1> HIDE DEF s
<1>5. /\ sc2s'[g] \in Seq(Stream!Frames0) /\ (\A h \in Conns \ {g} : sc2s'[h] = sc2s[h])
      /\ \/ /\ step = "chunk" /\ IsRun(sc2s'[g], b, srv[g].read + 1) /\ srv[g].read + 1 <= b.gives
            /\ AllChunks(sc2s[g], 1) =>
                 /\ AllChunks(sc2s'[g], 1)
                 /\ srv[g].read + 1 + Len(sc2s'[g]) = srv[g].read + Len(sc2s[g])
         \/ /\ step = "end" /\ sc2s'[g] = <<>> /\ Stream!Whole(b, srv[g].read)
            /\ ~AllChunks(sc2s[g], 1)
         \/ step = "abort" /\ sc2s'[g] = <<>> /\ ~AllChunks(sc2s[g], 1)
         \/ step = "broken" /\ sc2s'[g] = <<>> /\ slink # g
  BY <1>1, <1>3, NextOfTheBody
<1> HIDE DEF step
<1>6. /\ StepsAt(g) /\ srv'[g] = t /\ Works(g)' /\ ~Waits(g)'
      /\ upload' = upload /\ call' = call /\ (Serves(g)' => ConnInOrder(g)')
  <2>1. \A m \in 1..NCalls \ {n} :
           taken'[m] = taken[m] /\ view'[m] = view[m] /\ sanswer'[m] = sanswer[m]
    BY <1>1, <1>4 DEF SocketInv, Stream!TypeOK
  <2>2. \A h \in Conns \ {g} : sc2s'[h] = sc2s[h] /\ ss2c'[h] = ss2c[h]
    BY <1>1, <1>5
  <2> QED  BY <1>1, <1>4, <2>1, <2>2, WorksOn
<1>7. Serves(g)'
  <2>1. CASE step = "chunk"
    <3>1. taken'[n] = srv[g].read + 1 /\ view'[n] = "open"
      BY <1>3, <1>4, <1>n, <2>1 DEF SocketInv, Stream!TypeOK
    <3> QED  BY <1>3, <1>4, <1>5, <1>6, <2>1, <3>1 DEF Serves
  <2>2. CASE step = "end"
    <3>1. taken'[n] = srv[g].read /\ view'[n] = "whole"
      BY <1>3, <1>4, <1>n, <2>2 DEF SocketInv, Stream!TypeOK
    <3> QED  BY <1>3, <1>4, <1>5, <1>6, <2>2, <3>1 DEF Serves
  <2>3. CASE step \in {"abort", "broken"}
    <3>1. taken'[n] = srv[g].read /\ view'[n] = "failed"
      BY <1>3, <1>4, <1>n, <2>3 DEF SocketInv, Stream!TypeOK
    <3>2. t.ended \in {"handed", "broken"} /\ t.read = srv[g].read
      BY <1>4, <2>3
    <3> QED  BY <1>3, <1>4, <1>5, <1>6, <2>3, <3>1, <3>2 DEF Serves
  <2> QED  BY <1>4, <2>1, <2>2, <2>3
<1>8. ASSUME slink = g PROVE LinkAt(g)'
  <2>1. /\ spc \in {"first", "body", "reading"} /\ call = srv[g].call /\ LinkAt(g)
        /\ Bears(g)' /\ Borne(g)' = call /\ UNCHANGED <<slink, spc, call, got, sent, upload>>
    <3>1. Bears(g) /\ Borne(g) = n /\ Bears(g)' /\ Borne(g)' = n
      BY <1>1, <1>4, <1>6 DEF Bears, Borne
    <3> QED  BY <1>1, <1>8, <3>1, BearerIsRead DEF Stream!CallerAlone
  <2> QED  BY <1>1, <1>4, <1>5, <1>6, <1>8, <2>1 DEF LinkAt, AnswerComes
<1>9. view'[n] = "whole" => Stream!Whole(upload[n], taken'[n])
  BY <1>3, <1>4, <1>5, <1>n DEF SocketInv, Stream!TypeOK
<1> QED  BY <1>1, <1>6, <1>7, <1>8, <1>9, DoorStepEnough

LEMMA ResolveStep ==
    ASSUME SocketInv, NEW g \in Conns, Stream!Resolve(g) PROVE SocketInv'
<1> DEFINE n == srv[g].call
           b == upload[n]
<1>1. /\ srv[g].pc = "run" /\ Works(g) /\ DoorAct(g) /\ Stream!CallerAlone
      /\ UNCHANGED <<taken, view, sc2s, ss2c>>
  BY DEF Stream!Resolve, Works, DoorAct, Stream!ServerStep
<1>2. srv[g] \in Stream!Threads /\ ConnInOrder(g)
  BY DEF SocketInv, Stream!TypeOK, ConnsInOrder
<1>3. PICK way \in {"reply", "stream"}, keep \in BOOLEAN, a \in Answers :
        /\ keep => way = "stream" /\ b # None /\ view[n] = "open"
        /\ Stream!Set(g, [srv[g] EXCEPT !.pc = "settle", !.kind = way, !.keep = keep])
        /\ sanswer' = [sanswer EXCEPT ![n] = IF way = "stream" THEN a ELSE None]
  BY DEF Stream!Resolve, Stream!Serving
<1> DEFINE t == [srv[g] EXCEPT !.pc = "settle", !.kind = way, !.keep = keep]
<1>4. t \in Stream!Threads
  BY <1>2 DEF Stream!Threads
<1>5. /\ t.pc = "settle" /\ t.call = n /\ t.ended = srv[g].ended /\ t.read = srv[g].read
      /\ t.held = srv[g].held /\ t.out = srv[g].out /\ t.kind = way
  BY <1>2 DEF Stream!Threads
<1>6. t.keep = keep /\ t.over = srv[g].over
  BY <1>2 DEF Stream!Threads
<1>7. Stream!Set(g, t)
  BY <1>3
<1> HIDE DEF t
<1>8. /\ StepsAt(g) /\ srv'[g] = t /\ Works(g)' /\ ~Waits(g)' /\ Serves(g) /\ n \in 1..NCalls
      /\ upload' = upload /\ call' = call /\ (Serves(g)' => ConnInOrder(g)')
  <2>1. \A m \in 1..NCalls \ {n} :
           taken'[m] = taken[m] /\ view'[m] = view[m] /\ sanswer'[m] = sanswer[m]
    BY <1>1, <1>3 DEF SocketInv, Stream!TypeOK
  <2> QED  BY <1>1, <1>4, <1>5, <1>7, <2>1, WorksOn
<1>9. way = "stream" => sanswer'[n] \in Answers
  BY <1>3, <1>8 DEF SocketInv, Stream!TypeOK
<1>10. Serves(g)'
  <2>1. ~srv[g].over /\ srv[g].held = 0 /\ taken[n] = srv[g].read /\ srv[g].out = 0
    BY <1>1, <1>8 DEF Serves
  <2>2. taken[n] + 0 = srv[g].read
    BY <2>1, <1>2 DEF Stream!Threads
  <2>3. /\ n \in 1..call' /\ t.out = 0 /\ t.kind = way
        /\ (IF t.ended = "no" THEN /\ b # None /\ IsRun(sc2s'[g], b, t.read) /\ t.read <= b.gives
            ELSE sc2s'[g] = <<>>)
        /\ (b = None => view'[n] = "open")
        /\ (t.ended = "ok" /\ b # None => Stream!Whole(b, t.read))
    BY <1>1, <1>5, <1>8, <2>1 DEF Serves
  <2>4. t.keep => b # None /\ taken'[n] + t.held = t.read
    BY <1>1, <1>3, <1>5, <1>6, <2>1, <2>2
  <2> QED  BY <1>5, <1>8, <1>9, <2>3, <2>4 DEF Serves
<1>11. ASSUME slink = g PROVE LinkAt(g)'
  <2>1. /\ spc \in {"first", "body", "reading"} /\ call = n /\ LinkAt(g)
        /\ Bears(g)' /\ Borne(g)' = call /\ UNCHANGED <<slink, spc, call, got, sent, upload>>
    <3>1. Bears(g) /\ Borne(g) = n /\ Bears(g)' /\ Borne(g)' = n
      BY <1>1, <1>5, <1>8 DEF Bears, Borne
    <3> QED  BY <1>1, <1>11, <3>1, BearerIsRead DEF Stream!CallerAlone
  <2> QED  BY <1>1, <1>5, <1>8, <1>11, <2>1 DEF LinkAt, AnswerComes
<1>12. view'[n] = "whole" => Stream!Whole(upload[n], taken'[n])
  BY <1>1, <1>8 DEF SocketInv, Stream!UploadIsWhole
<1> QED  BY <1>1, <1>8, <1>10, <1>11, <1>12, DoorStepEnough

LEMMA SettleStep ==
    ASSUME SocketInv, NEW g \in Conns, Stream!Settle(g) PROVE SocketInv'
<1> DEFINE s == srv[g]
           n == s.call
           b == upload[n]
           step == Stream!Incoming(g)
           more == [s EXCEPT !.read = @ + 1]
           e == IF step = "end" THEN "ok" ELSE IF step = "abort" THEN "err" ELSE "broken"
           t == IF step = "chunk" THEN Stream!Hold(more) ELSE [s EXCEPT !.ended = e]
<1>1. /\ s.pc = "settle" /\ s.ended = "no" /\ Works(g) /\ DoorAct(g) /\ Stream!CallerAlone
      /\ Stream!Frames(g) /\ Stream!Consume(g) /\ UNCHANGED <<taken, view, sanswer, ss2c>>
  BY DEF Stream!Settle, Works, DoorAct, Stream!ServerStep
<1>2. s \in Stream!Threads /\ ConnInOrder(g) /\ s.read \in Nat /\ s.held \in 0..MaxHeld
  BY DEF SocketInv, Stream!TypeOK, ConnsInOrder, Stream!Threads
<1>3. Stream!Set(g, t)
  BY DEF Stream!Settle
<1>4. /\ more \in Stream!Threads /\ more.pc = "settle" /\ more.call = n /\ more.ended = "no"
      /\ more.read = s.read + 1 /\ more.held = s.held /\ more.out = s.out /\ more.kind = s.kind
  BY <1>1, <1>2 DEF Stream!Threads
<1>5. more.keep = s.keep /\ more.over = s.over
  BY <1>2 DEF Stream!Threads
<1> HIDE DEF more
<1>6. /\ t \in Stream!Threads /\ t.pc = "settle" /\ t.call = n /\ t.out = s.out /\ t.kind = s.kind
      /\ t.read = (IF step = "chunk" THEN s.read + 1 ELSE s.read)
      /\ t.ended = (IF step = "chunk" THEN "no" ELSE e)
      /\ t.keep = s.keep
      /\ t.keep /\ ~t.over => ~s.over /\ t.held = (IF step = "chunk" THEN s.held + 1 ELSE s.held)
  <2>1. CASE step # "chunk"
    <3>1. t = [s EXCEPT !.ended = e] /\ e \in {"ok", "err", "broken"}
      BY <2>1
    <3> HIDE DEF t, e
    <3>2. /\ t \in Stream!Threads /\ t.pc = "settle" /\ t.call = n /\ t.out = s.out /\ t.kind = s.kind
          /\ t.read = s.read /\ t.ended = e /\ t.held = s.held
      BY <1>1, <1>2, <3>1 DEF Stream!Threads
    <3>3. t.keep = s.keep /\ t.over = s.over
      BY <1>2, <3>1 DEF Stream!Threads
    <3> QED  BY <2>1, <3>2, <3>3
  <2>2. CASE step = "chunk" /\ (~s.keep \/ s.over)
    BY <1>4, <1>5, <2>2 DEF Stream!Hold
  <2>3. CASE step = "chunk" /\ s.keep /\ ~s.over /\ s.held < MaxHeld
    <3>1. t = [more EXCEPT !.held = @ + 1]
      BY <1>4, <1>5, <2>3 DEF Stream!Hold
    <3> HIDE DEF t
    <3>2. s.held + 1 \in 0..MaxHeld
      BY <1>2, <2>3, SocketConstants
    <3>3. /\ t \in Stream!Threads /\ t.pc = "settle" /\ t.call = n /\ t.out = s.out /\ t.kind = s.kind
          /\ t.read = s.read + 1 /\ t.ended = "no" /\ t.held = s.held + 1
      BY <1>4, <3>1, <3>2 DEF Stream!Threads
    <3>4. t.keep = s.keep /\ t.over = s.over
      BY <1>4, <1>5, <3>1 DEF Stream!Threads
    <3> QED  BY <2>3, <3>3, <3>4
  <2>4. CASE step = "chunk" /\ s.keep /\ ~s.over /\ ~(s.held < MaxHeld)
    <3>1. t = [more EXCEPT !.held = 0, !.over = TRUE]
      BY <1>4, <1>5, <2>4 DEF Stream!Hold
    <3> HIDE DEF t
    <3>2. 0 \in 0..MaxHeld
      BY SocketConstants
    <3>3. /\ t \in Stream!Threads /\ t.pc = "settle" /\ t.call = n /\ t.out = s.out /\ t.kind = s.kind
          /\ t.read = s.read + 1 /\ t.ended = "no"
      BY <1>4, <3>1, <3>2 DEF Stream!Threads
    <3>4. t.keep = s.keep /\ t.over = TRUE
      BY <1>4, <1>5, <3>1 DEF Stream!Threads
    <3> QED  BY <2>4, <3>3, <3>4
  <2> QED  BY <2>1, <2>2, <2>3, <2>4
<1>7. /\ sc2s'[g] \in Seq(Stream!Frames0) /\ (\A h \in Conns \ {g} : sc2s'[h] = sc2s[h])
      /\ \/ /\ step = "chunk" /\ IsRun(sc2s'[g], b, s.read + 1) /\ s.read + 1 <= b.gives
            /\ AllChunks(sc2s[g], 1) =>
                 AllChunks(sc2s'[g], 1) /\ s.read + 1 + Len(sc2s'[g]) = s.read + Len(sc2s[g])
         \/ step = "end" /\ sc2s'[g] = <<>> /\ Stream!Whole(b, s.read) /\ ~AllChunks(sc2s[g], 1)
         \/ step = "abort" /\ sc2s'[g] = <<>> /\ ~AllChunks(sc2s[g], 1)
         \/ step = "broken" /\ sc2s'[g] = <<>> /\ slink # g
  BY <1>1, NextOfTheBody
<1>8. step # "chunk" => e # "no" /\ (e = "ok" => step = "end")
  OBVIOUS
<1> HIDE DEF t, e, step
<1>9. /\ StepsAt(g) /\ srv'[g] = t /\ Works(g)' /\ ~Waits(g)' /\ Serves(g) /\ n \in 1..NCalls
      /\ upload' = upload /\ call' = call /\ (Serves(g)' => ConnInOrder(g)')
  BY <1>1, <1>3, <1>6, <1>7, WorksOn
<1>10. Serves(g)'
  <2>1. /\ b # None /\ n \in 1..call /\ s.out = 0
        /\ s.keep => (~s.over /\ view[n] = "open" => taken[n] + s.held = s.read)
        /\ s.kind # "none" /\ (s.kind = "stream" => sanswer[n] \in Answers)
    BY <1>1, <1>9 DEF Serves
  <2>2. taken[n] \in Nat
    BY <1>9 DEF SocketInv, Stream!TypeOK
  <2>3. t.keep => (~t.over /\ view[n] = "open" => taken[n] + t.held = t.read)
    <3> SUFFICES ASSUME t.keep, ~t.over, view[n] = "open" PROVE taken[n] + t.held = t.read
      OBVIOUS
    <3>1. taken[n] + s.held = s.read
      BY <1>6, <2>1
    <3>2. taken[n] + (s.held + 1) = s.read + 1
      BY <1>2, <2>2, <3>1
    <3> QED  BY <1>6, <3>1, <3>2
  <2>4. IF t.ended = "no" THEN b # None /\ IsRun(sc2s'[g], b, t.read) /\ t.read <= b.gives
        ELSE sc2s'[g] = <<>>
    BY <1>6, <1>7, <1>8, <2>1
  <2>5. t.ended = "ok" => Stream!Whole(b, t.read)
    BY <1>6, <1>7, <1>8
  <2> QED  BY <1>1, <1>6, <1>9, <2>1, <2>3, <2>4, <2>5 DEF Serves
<1>11. ASSUME slink = g PROVE LinkAt(g)'
  <2>1. /\ spc \in {"first", "body", "reading"} /\ call = n /\ LinkAt(g)
        /\ Bears(g)' /\ Borne(g)' = call /\ UNCHANGED <<slink, spc, call, got, sent, upload>>
    <3>1. Bears(g) /\ Borne(g) = n /\ Bears(g)' /\ Borne(g)' = n
      BY <1>1, <1>6, <1>9 DEF Bears, Borne
    <3> QED  BY <1>1, <1>11, <3>1, BearerIsRead DEF Stream!CallerAlone
  <2>2. spc = "body" => s.read + Len(sc2s[g]) = sent /\ AllChunks(sc2s[g], 1) /\ upload[call] # None
    BY <1>1, <2>1 DEF LinkAt
  <2>3. spc = "body" => t.ended = "no" /\ t.read + Len(sc2s'[g]) = sent /\ AllChunks(sc2s'[g], 1)
    BY <1>6, <1>7, <1>11, <2>2
  <2>4. ss2c[g] = <<>> /\ spc # "reading"
    BY <1>1, <2>1 DEF LinkAt
  <2> QED  BY <1>1, <1>6, <1>9, <2>1, <2>2, <2>3, <2>4 DEF LinkAt, AnswerComes
<1>12. view'[n] = "whole" => Stream!Whole(upload[n], taken'[n])
  BY <1>1, <1>9 DEF SocketInv, Stream!UploadIsWhole
<1> QED  BY <1>1, <1>9, <1>10, <1>11, <1>12, DoorStepEnough

(* A frame behind others. *)
LEMMA PutBehind ==
    ASSUME NEW S, NEW q \in Seq(S), NEW f \in S
    PROVE  /\ Append(q, f) \in Seq(S) /\ Len(Append(q, f)) = Len(q) + 1 /\ Append(q, f) # <<>>
           /\ Append(q, f)[Len(Append(q, f))] = f /\ Len(q) \in Nat
           /\ q # <<>> => Append(q, f)[1] = q[1]
<1>1. Append(q, f) \in Seq(S) /\ Len(Append(q, f)) = Len(q) + 1 /\ Len(q) \in Nat
  OBVIOUS
<1>2. Append(q, f)[Len(q) + 1] = f /\ Append(q, f) # <<>>
  OBVIOUS
<1>3. q # <<>> => Append(q, f)[1] = q[1]
  OBVIOUS
<1> QED  BY <1>1, <1>2, <1>3

(* A frame of the answer is written, the link's caller reading it or not.     *)
LEMMA Writes ==
    ASSUME SocketInv, NEW g \in Conns, Works(g), NEW k \in {"head", "chunk", "end", "abort", "reply"},
           ss2c' = [ss2c EXCEPT ![g] = Append(@, Stream!Frame(srv[g].call, k))]
    PROVE  /\ ss2c'[g] = Append(ss2c[g], Stream!Frame(srv[g].call, k))
           /\ \A h \in Conns \ {g} : ss2c'[h] = ss2c[h]
           /\ ss2c[g] \in Seq(Stream!Frames0) /\ Stream!Frame(srv[g].call, k) \in Stream!Frames0
           /\ Stream!Frame(srv[g].call, k).kind = k
<1>1. srv[g].call \in 1..NCalls
  BY BorneIsACall DEF SocketInv, Bears, Borne
<1>2. ss2c[g] \in Seq(Stream!Frames0) /\ Stream!Frame(srv[g].call, k) \in Stream!Frames0
  BY <1>1, FrameTypes DEF SocketInv, Stream!TypeOK
<1> QED  BY <1>2 DEF SocketInv, Stream!TypeOK, Stream!Frame

(* A thread that has answered waits for the next call.                        *)
LEMMA Done ==
    ASSUME SocketInv, NEW g \in Conns, Works(g), DoorAct(g), Stream!CallerAlone,
           srv[g].ended # "no", Stream!Set(g, Stream!Idle), UNCHANGED <<taken, view, sanswer, sc2s>>,
           NEW k \in Ending,
           ss2c' = [ss2c EXCEPT ![g] = Append(@, Stream!Frame(srv[g].call, k))],
           slink = g /\ spc = "first" => AnswerComes(ss2c'[g]),
           slink = g /\ spc = "reading" => IsRun(ss2c'[g], sanswer[call], got[call])
    PROVE  SocketInv'
<1>1. /\ ss2c'[g] = Append(ss2c[g], Stream!Frame(srv[g].call, k))
      /\ \A h \in Conns \ {g} : ss2c'[h] = ss2c[h]
      /\ ss2c[g] \in Seq(Stream!Frames0) /\ Stream!Frame(srv[g].call, k) \in Stream!Frames0
      /\ Stream!Frame(srv[g].call, k).kind = k
  BY Writes DEF Ending
<1>2. ConnInOrder(g) /\ Serves(g) /\ sc2s[g] = <<>>
  BY DEF SocketInv, ConnsInOrder, ConnInOrder, Serves
<1>3. /\ srv'[g] = Stream!Idle /\ srv'[g].pc = "idle"
      /\ \A h \in Conns \ {g} : srv'[h] = srv[h]
  BY DEF Stream!Set, SocketInv, Stream!TypeOK, Stream!Idle
<1>4. sc2s'[g] = <<>> /\ ~Waits(g)' /\ ~Works(g)' /\ ~Bears(g)'
  BY <1>2, <1>3 DEF Waits, Works, Bears
<1>5. StepsAt(g)
  BY <1>1, <1>3, <1>4 DEF StepsAt, Stream!CallerAlone
<1>6. ConnInOrder(g)'
  BY <1>3, <1>4 DEF ConnInOrder
<1>7. ASSUME slink = g PROVE LinkAt(g)'
  <2>1. LinkAt(g) /\ spc \in {"body", "first", "reading"}
    BY <1>7, BearerIsRead DEF Bears
  <2>2. spc # "body"
    BY <2>1 DEF LinkAt, Works
  <2>3. ss2c'[g] # <<>> /\ ss2c'[g][Len(ss2c'[g])].kind \in Ending
    BY <1>1, PutBehind
  <2>4. spc = "reading" => sanswer[call] \in Answers /\ got[call] <= sanswer[call].gives
    BY <2>1 DEF LinkAt
  <2> QED  BY <1>3, <1>4, <1>7, <2>1, <2>2, <2>3, <2>4 DEF LinkAt, AnswerComes, Stream!CallerAlone
<1>8. LET n == srv[g].call IN view'[n] = "whole" => Stream!Whole(upload[n], taken'[n])
  BY BorneIsACall DEF SocketInv, Stream!UploadIsWhole, Bears, Borne
<1> QED  BY <1>5, <1>6, <1>7, <1>8, DoorStepEnough

LEMMA AnswerStep ==
    ASSUME SocketInv, NEW g \in Conns, Stream!Answer(g) PROVE SocketInv'
<1> DEFINE s == srv[g]
           n == s.call
           t == [s EXCEPT !.pc = "pump"]
<1>1. /\ s.pc = "settle" /\ s.ended # "no" /\ Works(g) /\ DoorAct(g) /\ Stream!CallerAlone
      /\ UNCHANGED <<taken, view, sanswer, sc2s>>
  BY DEF Stream!Answer, Works, DoorAct, Stream!ServerStep, Stream!Settled
<1>2. s \in Stream!Threads /\ Serves(g) /\ ConnInOrder(g) /\ sc2s[g] = <<>>
  BY <1>1 DEF SocketInv, Stream!TypeOK, ConnsInOrder, ConnInOrder, Serves
<1>3. CASE Stream!Drop(g) /\ UNCHANGED ss2c
  <2>1. sc2s' = [sc2s EXCEPT ![g] = sc2s'[g]]
    BY <1>1 DEF SocketInv, Stream!TypeOK
  <2> QED  BY <1>1, <1>3, <2>1, ConnectionEnds
<1>4. slink = g => ss2c[g] = <<>> /\ spc = "first" /\ call = n /\ LinkAt(g)
  <2> SUFFICES ASSUME slink = g PROVE ss2c[g] = <<>> /\ spc = "first" /\ call = n /\ LinkAt(g)
    OBVIOUS
  <2>1. LinkAt(g) /\ spc \in {"body", "first", "reading"} /\ call = n
    BY <1>1, BearerIsRead DEF Bears, Borne
  <2> QED  BY <1>1, <2>1 DEF LinkAt
<1>5. CASE /\ ss2c' = [ss2c EXCEPT ![g] = Append(@, Stream!Frame(n, "reply"))]
           /\ Stream!Set(g, Stream!Idle)
  <2>1. slink = g /\ spc = "first" => AnswerComes(ss2c'[g])
    <3> SUFFICES ASSUME slink = g PROVE AnswerComes(ss2c'[g])
      OBVIOUS
    <3>1. ss2c'[g] = Append(<<>>, Stream!Frame(n, "reply")) /\ Stream!Frame(n, "reply").kind = "reply"
      BY <1>1, <1>4, <1>5, Writes
    <3>2. Len(ss2c'[g]) = 1 /\ ss2c'[g][1].kind = "reply"
      BY <3>1
    <3> QED  BY <3>2 DEF AnswerComes
  <2>2. ~(slink = g /\ spc = "reading")
    BY <1>4
  <2> QED  BY <1>1, <1>5, <2>1, <2>2, Done DEF Ending
<1>6. CASE /\ ~s.over /\ s.kind # "reply"
           /\ ss2c' = [ss2c EXCEPT ![g] = Append(@, Stream!Frame(n, "head"))]
           /\ Stream!Set(g, t)
  <2>1. /\ t \in Stream!Threads /\ t.pc = "pump" /\ t.call = n /\ t.ended = s.ended /\ t.out = s.out
        /\ t.read = s.read /\ t.held = s.held /\ t.kind = s.kind
    BY <1>2 DEF Stream!Threads
  <2>2. t.keep = s.keep /\ t.over = s.over
    BY <1>2 DEF Stream!Threads
  <2> HIDE DEF t
  <2>w. /\ ss2c'[g] = Append(ss2c[g], Stream!Frame(n, "head"))
        /\ \A h \in Conns \ {g} : ss2c'[h] = ss2c[h]
        /\ Stream!Frame(n, "head").kind = "head"
    BY <1>1, <1>6, Writes
  <2>3. /\ StepsAt(g) /\ srv'[g] = t /\ Works(g)' /\ ~Waits(g)' /\ n \in 1..NCalls
        /\ upload' = upload /\ call' = call /\ (Serves(g)' => ConnInOrder(g)')
    BY <1>1, <1>6, <2>1, <2>w, WorksOn
  <2>4. s.kind = "stream" /\ sanswer[n] \in Answers
    <3>1. s.kind # "none"
      BY <1>1, <1>2 DEF Serves
    <3> QED  BY <1>1, <1>2, <1>6, <3>1 DEF Serves, Stream!Threads
  <2>5. Serves(g)'
    BY <1>1, <1>2, <1>6, <2>1, <2>2, <2>3, <2>4 DEF Serves
  <2>6. ASSUME slink = g PROVE LinkAt(g)'
    <3>1. ss2c[g] = <<>> /\ spc = "first" /\ call = n /\ LinkAt(g)
      BY <1>4, <2>6
    <3>2. ss2c'[g] = <<Stream!Frame(n, "head")>>
      BY <2>w, <3>1
    <3>3. Len(ss2c'[g]) = 1 /\ ss2c'[g][1].kind = "head" /\ Tail(ss2c'[g]) = <<>> /\ AllChunks(ss2c'[g], 2)
      BY <2>w, <3>2 DEF AllChunks
    <3>4. AnswerComes(ss2c[g])'
      <4>1. IsRun(Tail(ss2c'[g]), sanswer[call], 0)
        BY <3>3, NothingOnTheWay
      <4>2. sanswer' = sanswer /\ call' = call /\ sanswer[call] \in Answers
        BY <1>1, <2>4, <3>1 DEF Stream!CallerAlone
      <4> QED  BY <4>1, <4>2, <3>3 DEF AnswerComes
    <3>5. s.out = 0
      BY <1>1, <1>2 DEF Serves
    <3>6. Bears(g)' /\ Borne(g)' = call'
      BY <2>1, <2>3, <3>1 DEF Bears, Borne, Stream!CallerAlone
    <3> QED  BY <1>1, <2>1, <2>3, <3>1, <3>3, <3>4, <3>5, <3>6 DEF LinkAt, Stream!CallerAlone
  <2>7. view'[n] = "whole" => Stream!Whole(upload[n], taken'[n])
    BY <1>1, <2>3 DEF SocketInv, Stream!UploadIsWhole
  <2> QED  BY <1>1, <2>3, <2>5, <2>6, <2>7, DoorStepEnough
<1> QED  BY <1>1, <1>3, <1>5, <1>6 DEF Stream!Answer, Stream!Refused, Stream!Serving

LEMMA PumpPullStep ==
    ASSUME SocketInv, NEW g \in Conns, Stream!PumpPull(g) PROVE SocketInv'
<1> DEFINE s == srv[g]
           n == s.call
           b == upload[n]
<1>1. /\ s.pc = "pump" /\ s.keep /\ view[n] = "open" /\ Works(g) /\ DoorAct(g)
      /\ Stream!CallerAlone /\ UNCHANGED <<sanswer, sc2s, ss2c>>
  BY DEF Stream!PumpPull, Works, DoorAct, Stream!Serving
<1>2. s \in Stream!Threads /\ Serves(g) /\ ConnInOrder(g) /\ n \in 1..NCalls
  BY <1>1, BorneIsACall DEF SocketInv, Stream!TypeOK, ConnsInOrder, ConnInOrder, Bears, Borne
<1>3. /\ b # None /\ taken[n] + s.held = s.read /\ s.ended # "no" /\ taken[n] \in Nat
      /\ s.ended = "ok" => Stream!Whole(b, s.read)
  BY <1>1, <1>2 DEF Serves, SocketInv, Stream!TypeOK
<1>4. PICK t \in Stream!Threads :
        /\ Stream!Set(g, t) /\ t.pc = "pump" /\ t.call = n /\ t.out = s.out /\ t.kind = s.kind
        /\ t.read = s.read /\ t.keep = s.keep /\ t.over = s.over
        /\ t.ended # "no" /\ (t.ended = "ok" => s.ended = "ok")
        /\ \/ /\ t.held + 1 = s.held /\ taken' = [taken EXCEPT ![n] = @ + 1] /\ UNCHANGED view
           \/ /\ s.held = 0
              /\ view' = [view EXCEPT ![n] = IF s.ended = "ok" THEN "whole" ELSE "failed"]
              /\ UNCHANGED taken
  <2>1. CASE s.held > 0
    <3> DEFINE t == [s EXCEPT !.held = @ - 1]
    <3>1. s.held - 1 \in 0..MaxHeld /\ (s.held - 1) + 1 = s.held
      BY <1>2, <2>1, SocketConstants DEF Stream!Threads
    <3>2. t \in Stream!Threads
      BY <1>2, <3>1 DEF Stream!Threads
    <3>3. /\ t.pc = "pump" /\ t.call = n /\ t.out = s.out /\ t.kind = s.kind
          /\ t.read = s.read /\ t.ended = s.ended /\ t.held = s.held - 1
      BY <1>1, <1>2 DEF Stream!Threads
    <3>4. t.keep = s.keep /\ t.over = s.over
      BY <1>2 DEF Stream!Threads
    <3>5. Stream!Set(g, t) /\ taken' = [taken EXCEPT ![n] = @ + 1] /\ UNCHANGED view
      BY <2>1 DEF Stream!PumpPull, Stream!Serving
    <3> HIDE DEF t
    <3> QED  BY <1>3, <3>1, <3>2, <3>3, <3>4, <3>5
  <2>2. CASE ~(s.held > 0)
    <3> DEFINE e == IF s.ended = "err" THEN "handed" ELSE s.ended
               t == [s EXCEPT !.ended = e]
    <3>1. e \in {"ok", "err", "handed", "broken"} /\ (e = "ok" => s.ended = "ok")
      BY <1>2, <1>3 DEF Stream!Threads
    <3>0. Stream!Set(g, t) /\ UNCHANGED taken
          /\ view' = [view EXCEPT ![n] = IF s.ended = "ok" THEN "whole" ELSE "failed"]
      BY <2>2 DEF Stream!PumpPull, Stream!Serving, Stream!Set
    <3> HIDE DEF e
    <3>2. t \in Stream!Threads
      BY <1>2, <3>1 DEF Stream!Threads
    <3>3. /\ t.pc = "pump" /\ t.call = n /\ t.out = s.out /\ t.kind = s.kind
          /\ t.read = s.read /\ t.ended = e
      BY <1>1, <1>2 DEF Stream!Threads
    <3>4. t.keep = s.keep /\ t.over = s.over
      BY <1>2 DEF Stream!Threads
    <3>5. s.held = 0
      BY <1>2, <2>2, SocketConstants DEF Stream!Threads
    <3> HIDE DEF t
    <3> QED  BY <3>0, <3>1, <3>2, <3>3, <3>4, <3>5
  <2> QED  BY <2>1, <2>2
<1>5. /\ StepsAt(g) /\ srv'[g] = t /\ Works(g)' /\ ~Waits(g)'
      /\ upload' = upload /\ call' = call /\ (Serves(g)' => ConnInOrder(g)')
  <2>1. \A m \in 1..NCalls \ {n} :
           taken'[m] = taken[m] /\ view'[m] = view[m] /\ sanswer'[m] = sanswer[m]
    BY <1>1, <1>4 DEF SocketInv, Stream!TypeOK
  <2> QED  BY <1>1, <1>4, <2>1, WorksOn
<1>6. /\ view'[n] = "open" => taken'[n] + t.held = t.read
      /\ view'[n] = "whole" => Stream!Whole(b, taken'[n])
  <2>1. CASE /\ t.held + 1 = s.held /\ taken' = [taken EXCEPT ![n] = @ + 1] /\ UNCHANGED view
    <3>1. taken'[n] = taken[n] + 1 /\ view'[n] = "open" /\ t.held \in Nat
      BY <1>1, <1>2, <2>1, SocketConstants DEF SocketInv, Stream!TypeOK, Stream!Threads
    <3> QED  BY <1>3, <1>4, <2>1, <3>1
  <2>2. CASE /\ s.held = 0 /\ UNCHANGED taken
             /\ view' = [view EXCEPT ![n] = IF s.ended = "ok" THEN "whole" ELSE "failed"]
    <3>1. view'[n] = (IF s.ended = "ok" THEN "whole" ELSE "failed")
      BY <1>2, <2>2 DEF SocketInv, Stream!TypeOK
    <3>2. taken'[n] = s.read
      BY <1>3, <2>2
    <3> QED  BY <1>3, <3>1, <3>2
  <2> QED  BY <1>4, <2>1, <2>2
<1>7. Serves(g)'
  BY <1>1, <1>2, <1>3, <1>4, <1>5, <1>6 DEF Serves
<1>8. ASSUME slink = g PROVE LinkAt(g)'
  <2>1. /\ spc \in {"first", "body", "reading"} /\ call = n /\ LinkAt(g)
        /\ Bears(g)' /\ Borne(g)' = call /\ UNCHANGED <<slink, spc, call, got, sent, upload>>
    <3>1. Bears(g) /\ Borne(g) = n /\ Bears(g)' /\ Borne(g)' = n
      BY <1>1, <1>4, <1>5 DEF Bears, Borne
    <3> QED  BY <1>1, <1>8, <3>1, BearerIsRead DEF Stream!CallerAlone
  <2> QED  BY <1>1, <1>4, <1>5, <1>8, <2>1 DEF LinkAt, AnswerComes
<1> QED  BY <1>1, <1>5, <1>6, <1>7, <1>8, DoorStepEnough

LEMMA PumpStep ==
    ASSUME SocketInv, NEW g \in Conns, Stream!Pump(g) PROVE SocketInv'
<1> DEFINE s == srv[g]
           n == s.call
           a == sanswer[n]
           t == [s EXCEPT !.out = @ + 1]
           f(k) == Stream!Frame(n, k)
<1>1. /\ s.pc = "pump" /\ Works(g) /\ DoorAct(g) /\ Stream!CallerAlone
      /\ UNCHANGED <<taken, view, sanswer, sc2s>>
  BY DEF Stream!Pump, Works, DoorAct, Stream!ServerStep
<1>2. s \in Stream!Threads /\ Serves(g) /\ ConnInOrder(g) /\ sc2s[g] = <<>> /\ s.ended # "no"
      /\ n \in 1..NCalls /\ s.out \in Nat
  BY <1>1, BorneIsACall
     DEF SocketInv, Stream!TypeOK, ConnsInOrder, ConnInOrder, Serves, Stream!Threads, Bears, Borne
<1>3. CASE Stream!Drop(g) /\ UNCHANGED ss2c
  <2>1. sc2s' = [sc2s EXCEPT ![g] = sc2s'[g]]
    BY <1>1 DEF SocketInv, Stream!TypeOK
  <2> QED  BY <1>1, <1>3, <2>1, ConnectionEnds
<1>4. ASSUME slink = g
      PROVE  /\ LinkAt(g) /\ call = n /\ spc \in {"first", "reading"}
             /\ ss2c[g] \in Seq(Stream!Frames0)
             /\ spc = "first" => /\ ss2c[g] # <<>> /\ Head(ss2c[g]).kind = "head" /\ a \in Answers
                                 /\ IsRun(Tail(ss2c[g]), a, 0) /\ AllChunks(Tail(ss2c[g]), 1)
                                 /\ 0 + Len(Tail(ss2c[g])) = s.out
             /\ spc = "reading" => /\ IsRun(ss2c[g], a, got[call]) /\ AllChunks(ss2c[g], 1)
                                   /\ got[call] + Len(ss2c[g]) = s.out /\ got[call] \in Nat
  <2>1. LinkAt(g) /\ spc \in {"body", "first", "reading"} /\ call = n
    BY <1>1, <1>4, BearerIsRead DEF Bears, Borne
  <2>2. spc # "body" /\ ss2c[g] \in Seq(Stream!Frames0)
    BY <1>1, <2>1 DEF LinkAt, SocketInv, Stream!TypeOK
  <2>3. ASSUME spc = "reading"
        PROVE  /\ IsRun(ss2c[g], a, got[call]) /\ AllChunks(ss2c[g], 1)
               /\ got[call] + Len(ss2c[g]) = s.out /\ got[call] \in Nat
    BY <1>1, <1>2, <2>1, <2>3 DEF LinkAt, SocketInv, Stream!TypeOK
  <2>4. ASSUME spc = "first"
        PROVE  /\ ss2c[g] # <<>> /\ Head(ss2c[g]).kind = "head" /\ a \in Answers
               /\ IsRun(Tail(ss2c[g]), a, 0) /\ AllChunks(Tail(ss2c[g]), 1)
               /\ 0 + Len(Tail(ss2c[g])) = s.out
    <3>1. AnswerComes(ss2c[g]) /\ Len(ss2c[g]) = s.out + 1 /\ ss2c[g][1].kind = "head" /\ AllChunks(ss2c[g], 2)
      BY <1>1, <2>1, <2>4 DEF LinkAt
    <3>2. ss2c[g] # <<>> /\ Len(ss2c[g]) \in Nat
      BY <1>2, <2>2, <3>1
    <3>3. PICK f0 \in Stream!Frames0 : f0 = ss2c[g][1]
      BY <2>2, <3>2
    <3>4. Head(ss2c[g]) = ss2c[g][1] /\ Len(Tail(ss2c[g])) = Len(ss2c[g]) - 1 /\ AllChunks(Tail(ss2c[g]), 1)
      BY <2>2, <3>1, <3>2, <3>3, BehindTheHead
    <3>5. a \in Answers /\ IsRun(Tail(ss2c[g]), a, 0)
      BY <2>1, <3>1, <3>2 DEF AnswerComes
    <3>6. 0 + Len(Tail(ss2c[g])) = s.out
      <4>1. \A m \in Nat : m = s.out + 1 => 0 + (m - 1) = s.out
        BY <1>2
      <4> QED  BY <3>1, <3>2, <3>4, <4>1
    <3> QED  BY <3>1, <3>2, <3>4, <3>5, <3>6
  <2> QED  BY <2>1, <2>2, <2>3, <2>4
<1>5. CASE /\ Stream!Sends(a, s.out) /\ Stream!Set(g, t)
           /\ ss2c' = [ss2c EXCEPT ![g] = Append(@, f("chunk"))]
  <2>1. /\ t \in Stream!Threads /\ t.pc = "pump" /\ t.call = n /\ t.ended = s.ended
        /\ t.out = s.out + 1 /\ t.read = s.read /\ t.held = s.held /\ t.kind = s.kind
    BY <1>1, <1>2 DEF Stream!Threads
  <2>2. t.keep = s.keep /\ t.over = s.over
    BY <1>2 DEF Stream!Threads
  <2> HIDE DEF t
  <2>3. /\ ss2c'[g] = Append(ss2c[g], f("chunk")) /\ (\A h \in Conns \ {g} : ss2c'[h] = ss2c[h])
        /\ ss2c[g] \in Seq(Stream!Frames0) /\ f("chunk") \in Stream!Frames0 /\ f("chunk").kind = "chunk"
    BY <1>1, <1>5, Writes
  <2> HIDE DEF f
  <2>4. /\ StepsAt(g) /\ srv'[g] = t /\ Works(g)' /\ ~Waits(g)'
        /\ upload' = upload /\ call' = call /\ (Serves(g)' => ConnInOrder(g)')
    BY <1>1, <1>5, <2>1, <2>3, WorksOn
  <2>5. Serves(g)'
    BY <1>1, <1>2, <2>1, <2>2, <2>4 DEF Serves
  <2>6. ASSUME slink = g PROVE LinkAt(g)'
    <3>1. LinkAt(g) /\ call = n /\ spc \in {"first", "reading"}
      BY <1>4, <2>6
    <3>2. ASSUME spc = "reading"
          PROVE  /\ IsRun(ss2c'[g], a, got[call]) /\ AllChunks(ss2c'[g], 1)
                 /\ got[call] + Len(ss2c'[g]) = s.out + 1
      <4>1. /\ IsRun(ss2c[g], a, got[call]) /\ AllChunks(ss2c[g], 1)
            /\ got[call] + Len(ss2c[g]) = s.out /\ got[call] \in Nat
        BY <1>4, <2>6, <3>2
      <4>2. Len(ss2c'[g]) = Len(ss2c[g]) + 1 /\ Len(ss2c[g]) \in Nat
        BY <2>3, PutBehind
      <4>3. got[call] + (Len(ss2c[g]) + 1) = s.out + 1
        BY <4>1, <4>2
      <4>4. Stream!Sends(a, got[call] + Len(ss2c[g]))
        BY <1>5, <4>1
      <4>5. IsRun(ss2c'[g], a, got[call]) /\ AllChunks(ss2c'[g], 1)
        BY <2>3, <4>1, <4>4, RunGoesOn
      <4> QED  BY <4>2, <4>3, <4>5
    <3>3. ASSUME spc = "first"
          PROVE  /\ AnswerComes(ss2c[g])' /\ Len(ss2c'[g]) = s.out + 1 + 1
                 /\ ss2c'[g][1].kind = "head" /\ AllChunks(ss2c'[g], 2)
      <4> DEFINE q == Tail(ss2c[g])
      <4>1. /\ ss2c[g] # <<>> /\ Head(ss2c[g]).kind = "head" /\ a \in Answers
            /\ IsRun(q, a, 0) /\ AllChunks(q, 1) /\ 0 + Len(q) = s.out
        BY <1>4, <2>6, <3>3
      <4>2. /\ Tail(ss2c'[g]) = Append(q, f("chunk")) /\ Head(ss2c'[g]) = Head(ss2c[g])
            /\ q \in Seq(Stream!Frames0)
        BY <2>3, <4>1, BehindTheHead
      <4>3. IsRun(Append(q, f("chunk")), a, 0) /\ AllChunks(Append(q, f("chunk")), 1)
        <5>1. Stream!Sends(a, 0 + Len(q))
          BY <1>5, <4>1
        <5> QED  BY <2>3, <4>1, <4>2, <5>1, RunGoesOn
      <4>4. /\ ss2c'[g] \in Seq(Stream!Frames0) /\ ss2c'[g] # <<>>
            /\ Len(ss2c'[g]) = Len(ss2c[g]) + 1
        BY <2>3, PutBehind
      <4>5. /\ Head(ss2c'[g]) = ss2c'[g][1] /\ AllChunks(ss2c'[g], 2)
        BY <2>3, <4>2, <4>3, <4>4, BehindTheHead
      <4>6. Len(ss2c[g]) = s.out + 1
        BY <1>1, <3>1, <3>3 DEF LinkAt
      <4>7. AnswerComes(ss2c[g])'
        <5>1. sanswer'[call'] = a /\ Len(ss2c'[g]) > 0
          BY <1>1, <1>2, <2>4, <3>1, <4>4, <4>6
        <5> QED  BY <4>1, <4>2, <4>3, <4>5, <5>1 DEF AnswerComes
      <4> QED  BY <4>1, <4>2, <4>4, <4>5, <4>6, <4>7
    <3>4. Bears(g)' /\ Borne(g)' = call'
      BY <2>1, <2>4, <3>1 DEF Bears, Borne, Stream!CallerAlone
    <3> QED  BY <1>1, <2>1, <2>4, <3>1, <3>2, <3>3, <3>4 DEF LinkAt, Stream!CallerAlone
  <2>7. view'[n] = "whole" => Stream!Whole(upload[n], taken'[n])
    BY <1>1, <1>2, <2>4 DEF SocketInv, Stream!UploadIsWhole
  <2> QED  BY <1>1, <2>4, <2>5, <2>6, <2>7, DoorStepEnough
<1>6. CASE /\ ~Stream!Sends(a, s.out) /\ Stream!Set(g, Stream!Idle)
           /\ ss2c' = [ss2c EXCEPT ![g] = Append(@, f(Stream!LastFrame(a, s.out)))]
  <2> DEFINE k == Stream!LastFrame(a, s.out)
  <2>1. k \in Ending /\ k \in {"end", "abort"}
    BY DEF Stream!LastFrame, Ending
  <2>2. k = Stream!LastFrame(a, s.out)
    OBVIOUS
  <2> HIDE DEF k
  <2>3. /\ ss2c'[g] = Append(ss2c[g], f(k)) /\ ss2c[g] \in Seq(Stream!Frames0)
        /\ f(k) \in Stream!Frames0 /\ f(k).kind = k
    BY <1>1, <1>6, <2>1, <2>2, Writes
  <2>4. ASSUME slink = g, spc = "reading" PROVE IsRun(ss2c'[g], sanswer[call], got[call])
    <3>1. /\ IsRun(ss2c[g], a, got[call]) /\ AllChunks(ss2c[g], 1) /\ call = n
          /\ got[call] + Len(ss2c[g]) = s.out /\ got[call] \in Nat
      BY <1>4, <2>4
    <3> HIDE DEF f
    <3> QED  BY <1>6, <2>2, <2>3, <3>1, RunGoesOn
  <2>5. ASSUME slink = g, spc = "first" PROVE AnswerComes(ss2c'[g])
    <3> DEFINE q == Tail(ss2c[g])
    <3>1. /\ ss2c[g] # <<>> /\ Head(ss2c[g]).kind = "head" /\ a \in Answers /\ call = n
          /\ IsRun(q, a, 0) /\ AllChunks(q, 1) /\ 0 + Len(q) = s.out
      BY <1>4, <2>5
    <3> HIDE DEF f
    <3>2. /\ Tail(ss2c'[g]) = Append(q, f(k)) /\ Head(ss2c'[g]) = Head(ss2c[g])
          /\ q \in Seq(Stream!Frames0)
      BY <2>3, <3>1, BehindTheHead
    <3>3. IsRun(Append(q, f(k)), a, 0)
      BY <1>6, <2>2, <2>3, <3>1, <3>2, RunGoesOn
    <3>4. ss2c'[g] \in Seq(Stream!Frames0) /\ ss2c'[g] # <<>>
      BY <2>3, PutBehind
    <3>5. Len(ss2c'[g]) > 0 /\ ss2c'[g][1] = Head(ss2c'[g])
      BY <3>4
    <3> QED  BY <3>1, <3>2, <3>3, <3>5 DEF AnswerComes
  <2> QED  BY <1>1, <1>2, <1>6, <2>1, <2>2, <2>4, <2>5, Done
<1> QED  BY <1>1, <1>3, <1>5, <1>6 DEF Stream!Pump, Stream!Serving

(* What the caller does elsewhere leaves the threads' work as it is.          *)
LEMMA SameWork ==
    ASSUME UNCHANGED <<srv, sc2s, call, upload, taken, view, sanswer>>, NEW g
    PROVE  /\ Works(g)' = Works(g) /\ Waits(g)' = Waits(g) /\ Bears(g)' = Bears(g)
           /\ Borne(g)' = Borne(g) /\ WaitingHead(g)' = WaitingHead(g) /\ Serves(g)' = Serves(g)
BY DEF Works, Waits, Bears, Borne, WaitingHead, Serves

LEMMA CallerBasics ==
    ASSUME SocketInv
    PROVE  /\ spc # "idle" => call \in 1..NCalls /\ seen[call] = "open"
           /\ spc \in {"head", "body", "first", "reading"} =>
                /\ slink \in Conns /\ slink # None /\ LinkAt(slink) /\ srv[slink].pc # "undialed"
                /\ ss2c[slink] \in Seq(Stream!Frames0) /\ sc2s[slink] \in Seq(Stream!Frames0)
           /\ spc = "dial" => slink = None
BY SocketConstants DEF SocketInv, CallsInOrder, LinkInOrder, LinkAt, Stream!TypeOK

(* A call that ends with its link given up. *)
LEMMA GivesUp ==
    ASSUME SocketInv, Stream!TypeOK', spc # "idle", Stream!Return("failed", None),
           UNCHANGED <<call, got, upload, taken, view, sanswer, srv, sc2s>>,
           \A h \in Conns : h # slink => ss2c'[h] = ss2c[h]
    PROVE  SocketInv'
<1>1. spc' = "idle" /\ slink' = None /\ seen' = [seen EXCEPT ![call] = "failed"] /\ call \in 1..NCalls
  BY CallerBasics DEF Stream!Return
<1>2. \A n \in 1..NCalls : seen'[n] = (IF n = call THEN "failed" ELSE seen[n])
  BY <1>1 DEF SocketInv, Stream!TypeOK
<1>3. ASSUME NEW g \in Conns PROVE ConnInOrder(g)'
  <2>1. ConnInOrder(g)
    BY DEF SocketInv, ConnsInOrder
  <2>2. srv[g].pc = "undialed" => g # slink /\ ss2c'[g] = ss2c[g]
    BY <2>1 DEF ConnInOrder
  <2>3. Bears(g) => Borne(g) \in 1..NCalls
    BY BorneIsACall DEF SocketInv
  <2> QED  BY <1>1, <1>2, <2>1, <2>2, <2>3, SameWork, SocketConstants DEF ConnInOrder
<1>4. OneBearer'
  BY SameWork DEF SocketInv, OneBearer
<1>5. CallsInOrder'
  <2>1. \A n \in call+1..NCalls : n \in 1..NCalls /\ n # call
    BY <1>1, SocketConstants
  <2> QED  BY <1>1, <1>2, <2>1 DEF SocketInv, CallsInOrder, Untouched
<1>6. LinkInOrder'
  BY <1>1, SocketConstants DEF LinkInOrder
<1>7. Stream!UploadIsWhole' /\ Stream!AnswerIsWhole'
  BY <1>2 DEF SocketInv, Stream!UploadIsWhole, Stream!AnswerIsWhole
<1> QED  BY <1>3, <1>4, <1>5, <1>6, <1>7 DEF SocketInv, ConnsInOrder

LEMMA EndingSteps ==
    ASSUME SocketInv, Stream!DialFails \/ Stream!ReadEnds \/ Stream!TimeOut \/ Stream!Abandon
    PROVE  SocketInv'
<1>1. Stream!TypeOK'
  BY CallerTypeStep DEF SocketInv, Stream!CallerStep
<1>2. spc # "idle" /\ Stream!Return("failed", None)
      /\ UNCHANGED <<call, got, upload, taken, view, sanswer, srv, sc2s, ss2c>>
  BY DEF Stream!DialFails, Stream!ReadEnds, Stream!TimeOut, Stream!Abandon, Stream!SpentLink,
         Stream!history
<1> QED  BY <1>1, <1>2, GivesUp

LEMMA IssueStep ==
    ASSUME SocketInv, Stream!Issue PROVE SocketInv'
<1> DEFINE n == call + 1
<1>0. Stream!TypeOK'
  BY CallerTypeStep DEF SocketInv
<1>1. /\ spc = "idle" /\ call' = n /\ n \in 1..NCalls /\ call \in 0..NCalls
      /\ spc' \in {"dial", "head"} /\ (spc' = "dial" <=> slink = None) /\ sent' = 0
      /\ UNCHANGED <<slink, got, seen, taken, view, sanswer, sc2s, ss2c, srv>>
  BY SocketConstants DEF Stream!Issue, SocketInv, Stream!TypeOK
<1>2. PICK u \in Uploads \cup {None} : upload' = [upload EXCEPT ![n] = u]
  BY <1>1 DEF Stream!Issue
<1>3. \A m \in 1..call : m \in 1..NCalls /\ m # n /\ m \in 1..n /\ upload'[m] = upload[m]
  BY <1>1, <1>2, SocketConstants DEF SocketInv, Stream!TypeOK
<1>4. ASSUME NEW g \in Conns
      PROVE  /\ Works(g)' = Works(g) /\ Waits(g)' = Waits(g) /\ Bears(g)' = Bears(g)
             /\ Borne(g)' = Borne(g)
  BY <1>1 DEF Works, Waits, Bears, Borne
<1>5. ASSUME NEW g \in Conns PROVE ConnInOrder(g)'
  <2>1. ConnInOrder(g) /\ (Bears(g) => Borne(g) \in 1..call)
    BY BorneIsACall DEF SocketInv, ConnsInOrder
  <2>2. ASSUME Waits(g) PROVE WaitingHead(g)'
    <3>1. WaitingHead(g) /\ Head(sc2s[g]).call \in 1..call
      BY <2>1, <2>2 DEF ConnInOrder, WaitingHead
    <3> QED  BY <1>1, <1>3, <3>1 DEF WaitingHead
  <2>3. ASSUME Works(g) PROVE Serves(g)'
    <3>1. Serves(g) /\ srv[g].call \in 1..call
      BY <2>1, <2>3 DEF ConnInOrder, Serves
    <3> QED  BY <1>1, <1>3, <3>1 DEF Serves
  <2>4. Bears(g)' => Borne(g)' # n
    BY <1>3, <1>4, <2>1
  <2> QED  BY <1>1, <1>4, <2>1, <2>2, <2>3, <2>4 DEF ConnInOrder
<1>6. OneBearer'
  BY <1>4 DEF SocketInv, OneBearer
<1>7. CallsInOrder'
  <2>1. n \in call+1..NCalls /\ \A m \in n+1..NCalls : m \in call+1..NCalls
    BY <1>1, SocketConstants
  <2>2. \A m \in call+1..NCalls : Untouched(m)'
    BY <1>1 DEF SocketInv, CallsInOrder, Untouched
  <2>3. slink \in Conns \cup {None}
    BY DEF SocketInv, Stream!TypeOK
  <2>4. seen'[n] = "open"
    BY <2>1, <2>2 DEF Untouched
  <2> QED  BY <1>1, <2>1, <2>2, <2>3, <2>4 DEF CallsInOrder
<1>8. LinkInOrder'
  <2> SUFFICES ASSUME NEW g \in Conns, slink = g PROVE LinkAt(g)'
    BY <1>1 DEF LinkInOrder
  <2>1. LinkAt(g)
    BY DEF SocketInv, LinkInOrder
  <2> QED  BY <1>1, <2>1, SocketConstants DEF LinkAt
<1>9. Stream!UploadIsWhole' /\ Stream!AnswerIsWhole'
  <2>1. ASSUME NEW m \in 1..NCalls PROVE (view[m] = "whole" => Stream!Whole(upload[m], taken[m]))'
    <3>1. CASE m \in 1..call
      BY <1>1, <1>3, <3>1 DEF SocketInv, Stream!UploadIsWhole
    <3>2. CASE m \in call+1..NCalls
      BY <1>1, <3>2 DEF SocketInv, CallsInOrder, Untouched
    <3> QED  BY <1>1, <3>1, <3>2, SocketConstants
  <2> QED  BY <1>1, <2>1 DEF SocketInv, Stream!UploadIsWhole, Stream!AnswerIsWhole
<1> QED  BY <1>0, <1>5, <1>6, <1>7, <1>8, <1>9 DEF SocketInv, ConnsInOrder

LEMMA SocketDialStep ==
    ASSUME SocketInv, NEW g \in Conns, Stream!Dial(g) PROVE SocketInv'
<1>0. Stream!TypeOK'
  BY CallerTypeStep DEF SocketInv, Stream!CallerStep
<1>1. /\ spc = "dial" /\ srv[g].pc = "undialed" /\ slink' = g /\ spc' = "head"
      /\ UNCHANGED <<call, sent, got, seen, upload, taken, view, sanswer, sc2s, ss2c>>
  BY DEF Stream!Dial, Stream!history
<1>2. srv'[g].pc \in {"idle", "full"} /\ \A h \in Conns \ {g} : srv'[h] = srv[h]
  BY DEF Stream!Dial, SocketInv, Stream!TypeOK, Stream!Threads
<1>3. sc2s[g] = <<>> /\ ss2c[g] = <<>> /\ slink = None
  BY <1>1, CallerBasics DEF SocketInv, ConnsInOrder, ConnInOrder
<1>4. ~Waits(g)' /\ ~Works(g)' /\ ~Bears(g)'
  BY <1>1, <1>2, <1>3 DEF Waits, Works, Bears
<1>5. ASSUME NEW h \in Conns \ {g}
      PROVE  /\ Works(h)' = Works(h) /\ Waits(h)' = Waits(h) /\ Bears(h)' = Bears(h)
             /\ Borne(h)' = Borne(h) /\ WaitingHead(h)' = WaitingHead(h) /\ Serves(h)' = Serves(h)
  BY <1>1, <1>2 DEF Works, Waits, Bears, Borne, WaitingHead, Serves
<1>6. ConnInOrder(g)'
  BY <1>2, <1>4 DEF ConnInOrder
<1>7. ASSUME NEW h \in Conns \ {g} PROVE ConnInOrder(h)'
  <2>1. ConnInOrder(h)
    BY DEF SocketInv, ConnsInOrder
  <2>2. ~(Bears(h) /\ Borne(h) = call)
    BY <1>1, <2>1 DEF ConnInOrder
  <2> QED  BY <1>1, <1>2, <1>5, <2>1, <2>2 DEF ConnInOrder
<1>8. OneBearer'
  BY <1>4, <1>5 DEF SocketInv, OneBearer
<1>9. CallsInOrder'
  BY <1>1 DEF SocketInv, CallsInOrder, Untouched
<1>10. LinkInOrder'
  BY <1>1, <1>2, <1>3 DEF LinkInOrder, LinkAt
<1>11. Stream!UploadIsWhole' /\ Stream!AnswerIsWhole'
  BY <1>1 DEF SocketInv, Stream!UploadIsWhole, Stream!AnswerIsWhole
<1>12. ConnsInOrder'
  BY <1>6, <1>7 DEF ConnsInOrder
<1> QED  BY <1>0, <1>8, <1>9, <1>10, <1>11, <1>12 DEF SocketInv

LEMMA WriteHeadDeadStep ==
    ASSUME SocketInv, Stream!WriteHeadDead PROVE SocketInv'
<1>0. Stream!TypeOK'
  BY CallerTypeStep DEF SocketInv, Stream!CallerStep
<1>1. /\ spc = "head" /\ UNCHANGED <<call, sent, got, upload, taken, view, sanswer, srv, sc2s, ss2c>>
  BY DEF Stream!WriteHeadDead, Stream!history
<1>2. CASE Stream!Return("failed", None)
  BY <1>0, <1>1, <1>2, GivesUp
<1>3. CASE spc' = "dial" /\ slink' = None /\ UNCHANGED seen
  <2>1. ASSUME NEW g \in Conns PROVE ConnInOrder(g)'
    <3>1. ConnInOrder(g) /\ ~(Bears(g) /\ Borne(g) = call)
      BY <1>1 DEF SocketInv, ConnsInOrder, ConnInOrder
    <3> QED  BY <1>1, <1>3, <3>1, SameWork, SocketConstants DEF ConnInOrder
  <2>2. OneBearer'
    BY <1>1, SameWork DEF SocketInv, OneBearer
  <2>3. CallsInOrder'
    BY <1>1, <1>3 DEF SocketInv, CallsInOrder, Untouched
  <2>4. LinkInOrder'
    BY <1>3, SocketConstants DEF LinkInOrder
  <2>5. Stream!UploadIsWhole' /\ Stream!AnswerIsWhole'
    BY <1>1, <1>3 DEF SocketInv, Stream!UploadIsWhole, Stream!AnswerIsWhole
  <2> QED  BY <1>0, <2>1, <2>2, <2>3, <2>4, <2>5 DEF SocketInv, ConnsInOrder
<1> QED  BY <1>2, <1>3 DEF Stream!WriteHeadDead

(* What one frame behind an empty queue is. *)
LEMMA OneFrame ==
    ASSUME NEW S, NEW f \in S
    PROVE  /\ Append(<<>>, f) # <<>> /\ Head(Append(<<>>, f)) = f /\ Tail(Append(<<>>, f)) = <<>>
           /\ Len(Append(<<>>, f)) = 1 /\ AllChunks(Append(<<>>, f), 2)
BY DEF AllChunks

LEMMA WriteHeadStep ==
    ASSUME SocketInv, NEW g, slink = g, Stream!WriteHead PROVE SocketInv'
<1> DEFINE f == Stream!Frame(call, "head")
<1>0. Stream!TypeOK'
  BY CallerTypeStep DEF SocketInv, Stream!CallerStep
<1>1. /\ spc = "head" /\ srv[g].pc # "closed" /\ spc' \in {"first", "body"}
      /\ (spc' = "body" => upload[call] # None)
      /\ sc2s' = [sc2s EXCEPT ![g] = Append(@, f)]
      /\ UNCHANGED <<call, slink, sent, got, seen, upload, taken, view, sanswer, ss2c, srv>>
  BY DEF Stream!WriteHead, Stream!history, Stream!Closed
<1>2. /\ g \in Conns /\ g # None /\ LinkAt(g) /\ call \in 1..NCalls /\ seen[call] = "open"
      /\ Untouched(call) /\ sent = 0
  BY <1>1, CallerBasics DEF SocketInv, CallsInOrder
<1>3. sc2s[g] = <<>> /\ ss2c[g] = <<>> /\ srv[g].pc \in {"idle", "full"}
  BY <1>1, <1>2 DEF LinkAt
<1>4. f \in Stream!Frames0 /\ f.kind = "head" /\ f.call = call
  BY <1>2 DEF Stream!Frame, Stream!Frames0
<1> HIDE DEF f
<1>5. sc2s'[g] = Append(<<>>, f) /\ \A h \in Conns \ {g} : sc2s'[h] = sc2s[h]
  BY <1>1, <1>2, <1>3 DEF SocketInv, Stream!TypeOK
<1>6. /\ sc2s'[g] # <<>> /\ Head(sc2s'[g]) = f /\ Tail(sc2s'[g]) = <<>> /\ Len(sc2s'[g]) = 1
      /\ AllChunks(sc2s'[g], 2)
  BY <1>4, <1>5, OneFrame
<1>7. Waits(g)' /\ ~Works(g)' /\ Bears(g)' /\ Borne(g)' = call
  BY <1>1, <1>3, <1>4, <1>6 DEF Waits, Works, Bears, Borne
<1>8. ASSUME NEW h \in Conns \ {g}
      PROVE  /\ Works(h)' = Works(h) /\ Waits(h)' = Waits(h) /\ Bears(h)' = Bears(h)
             /\ Borne(h)' = Borne(h) /\ WaitingHead(h)' = WaitingHead(h) /\ Serves(h)' = Serves(h)
             /\ ~(Bears(h) /\ Borne(h) = call)
  <2>1. ConnInOrder(h)
    BY DEF SocketInv, ConnsInOrder
  <2> QED  BY <1>1, <1>5, <2>1 DEF Works, Waits, Bears, Borne, WaitingHead, Serves, ConnInOrder
<1>9. ConnInOrder(g)'
  <2>1. WaitingHead(g)'
    <3>1. IsRun(Tail(sc2s'[g]), upload[call], 0)
      BY <1>6, NothingOnTheWay
    <3>2. Head(sc2s'[g]).call = call /\ Head(sc2s'[g]).kind = "head" /\ call \in 1..call
      BY <1>2, <1>4, <1>6
    <3>3. call' = call /\ upload' = upload /\ taken'[call] = 0 /\ view'[call] = "open"
      BY <1>1, <1>2 DEF Untouched
    <3> QED  BY <1>6, <3>1, <3>2, <3>3 DEF WaitingHead
  <2> QED  BY <1>1, <1>2, <1>3, <1>7, <2>1 DEF ConnInOrder
<1>10. ConnsInOrder'
  <2>1. ASSUME NEW h \in Conns \ {g} PROVE ConnInOrder(h)'
    <3>1. ConnInOrder(h)
      BY DEF SocketInv, ConnsInOrder
    <3> QED  BY <1>1, <1>5, <1>8, <3>1 DEF ConnInOrder
  <2> QED  BY <1>9, <2>1 DEF ConnsInOrder
<1>11. OneBearer'
  <2>1. \A h \in Conns \ {g} : Bears(h)' => Borne(h)' # call
    BY <1>8
  <2>2. \A h, k \in Conns \ {g} : Bears(h)' /\ Bears(k)' /\ Borne(h)' = Borne(k)' => h = k
    BY <1>8 DEF SocketInv, OneBearer
  <2> QED  BY <1>7, <2>1, <2>2 DEF OneBearer
<1>12. CallsInOrder'
  BY <1>1, <1>2 DEF SocketInv, CallsInOrder, Untouched
<1>13. LinkInOrder'
  <2>1. LinkAt(g)'
    BY <1>1, <1>2, <1>3, <1>6, <1>7 DEF LinkAt, AnswerComes
  <2> QED  BY <1>1, <2>1 DEF LinkInOrder
<1>14. Stream!UploadIsWhole' /\ Stream!AnswerIsWhole'
  BY <1>1 DEF SocketInv, Stream!UploadIsWhole, Stream!AnswerIsWhole
<1> QED  BY <1>0, <1>10, <1>11, <1>12, <1>13, <1>14 DEF SocketInv

(* The caller has no more to send: its link is read from now on. *)
LEMMA WriteBodyFailsStep ==
    ASSUME SocketInv, Stream!WriteBodyFails PROVE SocketInv'
<1>0. Stream!TypeOK'
  BY CallerTypeStep DEF SocketInv, Stream!CallerStep
<1>1. /\ spc = "body" /\ srv[slink].pc = "closed" /\ spc' = "first"
      /\ UNCHANGED <<call, slink, sent, got, seen, upload, taken, view, sanswer, srv, sc2s, ss2c>>
  BY DEF Stream!WriteBodyFails, Stream!history, Stream!Closed
<1>2. ConnsInOrder'
  <2>1. ASSUME NEW h \in Conns PROVE ConnInOrder(h)'
    <3>1. ConnInOrder(h)
      BY DEF SocketInv, ConnsInOrder
    <3> QED  BY <1>1, <3>1, SameWork DEF ConnInOrder
  <2> QED  BY <2>1 DEF ConnsInOrder
<1>3. OneBearer'
  BY <1>1, SameWork DEF SocketInv, OneBearer
<1>4. CallsInOrder'
  BY <1>1 DEF SocketInv, CallsInOrder, Untouched
<1>5. LinkInOrder'
  <2> SUFFICES ASSUME NEW g \in Conns, slink = g PROVE LinkAt(g)'
    BY <1>1 DEF LinkInOrder
  <2>1. LinkAt(g) /\ ~Bears(g) /\ ~Waits(g)
    BY <1>1 DEF SocketInv, LinkInOrder, Bears, Waits, Works
  <2>2. ~Bears(g)' /\ ~Waits(g)'
    BY <1>1, <2>1, SameWork
  <2> QED  BY <1>1, <2>1, <2>2 DEF LinkAt, AnswerComes
<1>6. Stream!UploadIsWhole' /\ Stream!AnswerIsWhole'
  BY <1>1 DEF SocketInv, Stream!UploadIsWhole, Stream!AnswerIsWhole
<1> QED  BY <1>0, <1>2, <1>3, <1>4, <1>5, <1>6 DEF SocketInv

(* The caller's next frame is the next of its body, behind what was sent.     *)
LEMMA WriteBodyStep ==
    ASSUME SocketInv, NEW g, slink = g, Stream!WriteBody PROVE SocketInv'
<1> DEFINE q == sc2s[g]
           b == upload[call]
           s == srv[g]
<1>0. Stream!TypeOK'
  BY CallerTypeStep DEF SocketInv, Stream!CallerStep
<1>1. /\ spc = "body" /\ s.pc # "closed" /\ g \in Conns /\ LinkAt(g) /\ call \in 1..NCalls
      /\ q \in Seq(Stream!Frames0) /\ b # None /\ sent \in Nat
      /\ UNCHANGED <<call, slink, got, seen, upload, taken, view, sanswer, ss2c, srv>>
  <2>1. spc = "body" /\ s.pc # "closed"
        /\ UNCHANGED <<call, slink, got, seen, upload, taken, view, sanswer, ss2c, srv>>
    BY DEF Stream!WriteBody, Stream!history, Stream!Closed
  <2>2. g \in Conns /\ LinkAt(g) /\ call \in 1..NCalls /\ q \in Seq(Stream!Frames0)
    BY <2>1, CallerBasics
  <2> QED  BY <2>1, <2>2 DEF LinkAt, SocketInv, Stream!TypeOK
<1>2. PICK k \in {"chunk", "end", "abort"} :
        /\ sc2s' = [sc2s EXCEPT ![g] = Append(@, Stream!Frame(call, k))]
        /\ \/ k = "chunk" /\ Stream!Sends(b, sent) /\ sent' = sent + 1 /\ spc' = "body"
           \/ /\ k # "chunk" /\ k = Stream!LastFrame(b, sent) /\ ~Stream!Sends(b, sent)
              /\ sent' = sent /\ spc' = "first"
  <2>1. Stream!LastFrame(b, sent) \in {"end", "abort"}
    BY <1>1, FrameTypes
  <2> QED  BY <1>1, <2>1 DEF Stream!WriteBody
<1>3. PICK f \in Stream!Frames0 : f = Stream!Frame(call, k) /\ f.kind = k /\ f.call = call
  BY <1>1, FrameTypes DEF Stream!Frame
<1>4. /\ sc2s'[g] = Append(q, f) /\ \A h \in Conns \ {g} : sc2s'[h] = sc2s[h]
  BY <1>1, <1>2, <1>3 DEF SocketInv, Stream!TypeOK
<1>5. /\ sc2s'[g] \in Seq(Stream!Frames0) /\ sc2s'[g] # <<>> /\ Len(sc2s'[g]) = Len(q) + 1
      /\ Len(q) \in Nat
  BY <1>1, <1>3, <1>4
<1>6. Bears(g) /\ Borne(g) = call /\ (Waits(g) \/ s.pc \in {"run", "pull", "settle"})
      /\ ConnInOrder(g) /\ s \in Stream!Threads
  BY <1>1 DEF LinkAt, Waits, Works, Bears, SocketInv, Stream!TypeOK, Stream!Threads, ConnsInOrder
<1>7. /\ Works(g)' = Works(g) /\ Waits(g)' = Waits(g) /\ Bears(g)' /\ Borne(g)' = call
  <2>1. Works(g)' = Works(g)
    BY <1>1 DEF Works
  <2>2. Waits(g)' = Waits(g)
    BY <1>1, <1>5, <1>6 DEF Waits, Works
  <2>3. Waits(g) => Head(sc2s'[g]).call = Head(q).call
    BY <1>1, <1>3, <1>4, BehindTheHead DEF Waits
  <2> QED  BY <1>1, <1>6, <2>1, <2>2, <2>3 DEF Bears, Borne
<1>8. ASSUME NEW h \in Conns \ {g}
      PROVE  /\ Works(h)' = Works(h) /\ Waits(h)' = Waits(h) /\ Bears(h)' = Bears(h)
             /\ Borne(h)' = Borne(h) /\ WaitingHead(h)' = WaitingHead(h) /\ Serves(h)' = Serves(h)
             /\ ~(Bears(h) /\ Borne(h) = call)
  <2>1. ConnInOrder(h)
    BY DEF SocketInv, ConnsInOrder
  <2> QED  BY <1>1, <1>4, <2>1 DEF Works, Waits, Bears, Borne, WaitingHead, Serves, ConnInOrder
<1>9. ASSUME Waits(g)
      PROVE  WaitingHead(g)' /\ Len(sc2s'[g]) = sent + 1 + 1
             /\ (k = "chunk" => AllChunks(sc2s'[g], 2))
  <2>1. /\ q # <<>> /\ WaitingHead(g) /\ Head(q).call = call /\ ~Works(g)
        /\ Len(q) = sent + 1 /\ AllChunks(q, 2)
    BY <1>1, <1>6, <1>9 DEF LinkAt, ConnInOrder, Waits, Works, Borne
  <2>2. IsRun(Tail(q), b, 0) /\ AllChunks(Tail(q), 1) /\ Tail(q) \in Seq(Stream!Frames0)
        /\ 0 + Len(Tail(q)) = sent
    <3>1. IsRun(Tail(q), b, 0)
      BY <1>1, <2>1 DEF WaitingHead
    <3>2. Tail(q) \in Seq(Stream!Frames0) /\ Len(Tail(q)) = Len(q) - 1 /\ AllChunks(Tail(q), 1)
      BY <1>1, <1>3, <2>1, BehindTheHead
    <3> QED  BY <1>1, <2>1, <3>1, <3>2
  <2>3. IsRun(Append(Tail(q), f), b, 0) /\ (k = "chunk" => AllChunks(Append(Tail(q), f), 1))
    <3>1. CASE k = "chunk"
      BY <1>2, <1>3, <2>2, <3>1, RunGoesOn
    <3>2. CASE k # "chunk"
      BY <1>2, <1>3, <2>2, <3>2, RunGoesOn
    <3> QED  BY <3>1, <3>2
  <2>4. Tail(sc2s'[g]) = Append(Tail(q), f) /\ Head(sc2s'[g]) = Head(q)
    BY <1>1, <1>3, <1>4, <2>1, BehindTheHead
  <2>5. k = "chunk" => AllChunks(sc2s'[g], 2)
    BY <1>3, <1>5, <2>3, <2>4, BehindTheHead
  <2>6. WaitingHead(g)'
    BY <1>1, <2>1, <2>3, <2>4 DEF WaitingHead
  <2> QED  BY <1>5, <2>1, <2>5, <2>6
<1>10. ASSUME s.pc \in {"run", "pull", "settle"}
       PROVE  Serves(g)' /\ s.ended = "no" /\ s.read + Len(sc2s'[g]) = sent + 1
              /\ (k = "chunk" => AllChunks(sc2s'[g], 1))
  <2>1. /\ Works(g) /\ Serves(g) /\ s.call = call /\ s.ended = "no" /\ s.read \in Nat
        /\ s.read + Len(q) = sent /\ AllChunks(q, 1) /\ IsRun(q, b, s.read)
    BY <1>1, <1>6, <1>10 DEF LinkAt, ConnInOrder, Works, Borne, Serves, Stream!Threads
  <2>2. IsRun(Append(q, f), b, s.read) /\ (k = "chunk" => AllChunks(Append(q, f), 1))
    <3>1. CASE k = "chunk"
      BY <1>1, <1>2, <1>3, <2>1, <3>1, RunGoesOn
    <3>2. CASE k # "chunk"
      BY <1>1, <1>2, <1>3, <2>1, <3>2, RunGoesOn
    <3> QED  BY <3>1, <3>2
  <2>3. Serves(g)'
    BY <1>1, <1>4, <2>1, <2>2 DEF Serves
  <2>4. s.read + (Len(q) + 1) = sent + 1
    BY <1>1, <1>5, <2>1
  <2> QED  BY <1>4, <1>5, <2>1, <2>2, <2>3, <2>4
<1>11. ConnInOrder(g)'
  BY <1>1, <1>2, <1>6, <1>7, <1>9, <1>10, CallerBasics DEF ConnInOrder, Waits, Works
<1>12. ConnsInOrder'
  <2>1. ASSUME NEW h \in Conns \ {g} PROVE ConnInOrder(h)'
    <3>1. ConnInOrder(h)
      BY DEF SocketInv, ConnsInOrder
    <3> QED  BY <1>1, <1>4, <1>8, <3>1 DEF ConnInOrder
  <2> QED  BY <1>11, <2>1 DEF ConnsInOrder
<1>13. OneBearer'
  <2>1. \A h \in Conns \ {g} : Bears(h)' => Borne(h)' # call
    BY <1>8
  <2>2. \A h, i \in Conns \ {g} : Bears(h)' /\ Bears(i)' /\ Borne(h)' = Borne(i)' => h = i
    BY <1>8 DEF SocketInv, OneBearer
  <2> QED  BY <1>7, <2>1, <2>2 DEF OneBearer
<1>14. CallsInOrder'
  BY <1>1, <1>2 DEF SocketInv, CallsInOrder, Untouched
<1>15. LinkInOrder'
  <2>1. LinkAt(g)'
    <3>1. AnswerComes(ss2c[g])' /\ (Waits(g) \/ s.pc \in {"run", "pull", "settle"} => ss2c'[g] = <<>>)
      BY <1>1 DEF LinkAt, AnswerComes
    <3> QED  BY <1>1, <1>2, <1>5, <1>6, <1>7, <1>9, <1>10, <3>1 DEF LinkAt, Waits
  <2> QED  BY <1>1, <2>1 DEF LinkInOrder
<1>16. Stream!UploadIsWhole' /\ Stream!AnswerIsWhole'
  BY <1>1 DEF SocketInv, Stream!UploadIsWhole, Stream!AnswerIsWhole
<1> QED  BY <1>0, <1>12, <1>13, <1>14, <1>15, <1>16 DEF SocketInv

(* The caller reads a frame of the answer of its call, and nothing else of it *)
(* moves but got, seen and its place.                                         *)
LEMMA ReadingEnough ==
    ASSUME SocketInv, NEW g \in Conns, slink = g, spc # "idle", Stream!TypeOK',
           UNCHANGED <<call, upload, taken, view, sanswer, srv, sc2s, slink>>,
           ss2c' = [ss2c EXCEPT ![g] = Tail(@)],
           \A n \in 1..NCalls : n # call => got'[n] = got[n] /\ seen'[n] = seen[n],
           \/ spc' = "reading" /\ seen' = seen
           \/ spc' = "idle",
           Bears(g) => seen'[call] # "whole" /\ spc' = "reading",
           LinkAt(g)', seen'[call] = "whole" => Stream!Whole(sanswer[call], got'[call])
    PROVE  SocketInv'
<1>1. call \in 1..NCalls /\ seen[call] = "open" /\ g # None /\ srv[g].pc # "undialed" /\ LinkAt(g)
  BY SocketConstants DEF SocketInv, CallsInOrder, LinkInOrder, LinkAt
<1>2. \A h \in Conns \ {g} : ss2c'[h] = ss2c[h]
  BY DEF SocketInv, Stream!TypeOK
<1>3. ConnsInOrder'
  <2>1. ASSUME NEW h \in Conns PROVE ConnInOrder(h)'
    <3>1. ConnInOrder(h) /\ (Bears(h) => Borne(h) \in 1..NCalls)
      BY BorneIsACall DEF SocketInv, ConnsInOrder
    <3>2. Bears(h) /\ Borne(h) = call => h = g /\ spc \in {"body", "first", "reading"}
      BY <3>1 DEF ConnInOrder
    <3>3. srv[h].pc = "undialed" => ss2c'[h] = ss2c[h]
      BY <1>1, <1>2
    <3>4. Bears(h) => seen'[Borne(h)] # "whole"
      BY <3>1, <3>2 DEF ConnInOrder
    <3> QED  BY <1>1, <3>1, <3>2, <3>3, <3>4, SameWork DEF ConnInOrder
  <2> QED  BY <2>1 DEF ConnsInOrder
<1>4. OneBearer'
  BY SameWork DEF SocketInv, OneBearer
<1>5. CallsInOrder'
  <2>1. \A n \in call+1..NCalls : n \in 1..NCalls /\ n # call
    BY <1>1, SocketConstants
  <2> QED  BY <1>1, <2>1 DEF SocketInv, CallsInOrder, Untouched
<1>6. LinkInOrder'
  BY DEF LinkInOrder
<1>7. Stream!UploadIsWhole' /\ Stream!AnswerIsWhole'
  <2>1. \A n \in 1..NCalls : (seen[n] = "whole" => Stream!Whole(sanswer[n], got[n]))'
    BY DEF SocketInv, Stream!AnswerIsWhole
  <2> QED  BY <2>1 DEF SocketInv, Stream!UploadIsWhole, Stream!AnswerIsWhole
<1> QED  BY <1>3, <1>4, <1>5, <1>6, <1>7 DEF SocketInv

(* A link whose answer was read to its last frame has nothing more on it.     *)
LEMMA AnswerRead ==
    ASSUME Stream!TypeOK, NEW g \in Conns, LinkAt(g), spc \in {"first", "reading"}, ss2c[g] # <<>>
    PROVE  /\ ~Waits(g) /\ srv[g].pc \notin {"undialed", "run", "pull", "settle"}
           /\ spc = "first" /\ srv[g].pc = "pump" => ss2c[g][1].kind = "head"
           /\ spc = "reading" /\ srv[g].pc = "pump" => ss2c[g][1].kind = "chunk"
           /\ srv[g].pc \in {"idle", "full"} =>
                srv[g].pc = "idle" /\ sc2s[g] = <<>> /\ ss2c[g][Len(ss2c[g])].kind \in Ending
           /\ srv[g].pc \in {"idle", "full", "pump", "closed"}
<1>1. ~Waits(g) /\ srv[g].pc \notin {"undialed", "run", "pull", "settle"}
  BY DEF LinkAt
<1>2. srv[g].pc \in {"undialed", "idle", "full", "run", "pull", "settle", "pump", "closed"}
  BY DEF Stream!TypeOK, Stream!Threads
<1>3. spc = "first" /\ srv[g].pc = "pump" => ss2c[g][1].kind = "head"
  BY DEF LinkAt
<1>4. spc = "reading" /\ srv[g].pc = "pump" => ss2c[g][1].kind = "chunk"
  <2>1. 1 \in 1..Len(ss2c[g])
    BY DEF Stream!TypeOK
  <2> QED  BY <2>1 DEF LinkAt, AllChunks
<1>5. srv[g].pc \in {"idle", "full"} =>
        srv[g].pc = "idle" /\ sc2s[g] = <<>> /\ ss2c[g][Len(ss2c[g])].kind \in Ending
  BY <1>1 DEF LinkAt, Waits
<1> QED  BY <1>1, <1>2, <1>3, <1>4, <1>5

(* The frame before the last is not the last. *)
LEMMA LastStays ==
    ASSUME NEW S, NEW q \in Seq(S), q # <<>>
    PROVE  /\ Tail(q) \in Seq(S) /\ Len(Tail(q)) = Len(q) - 1 /\ Head(q) = q[1] /\ Len(q) \in Nat \ {0}
           /\ Len(q) # 1 => Tail(q) # <<>> /\ Tail(q)[Len(Tail(q))] = q[Len(q)]
           /\ Len(q) = 1 => Tail(q) = <<>> /\ q[Len(q)] = Head(q)
<1>1. /\ Tail(q) \in Seq(S) /\ Len(Tail(q)) = Len(q) - 1 /\ Head(q) = q[1] /\ Len(q) \in Nat \ {0}
  OBVIOUS
<1>2. \A i \in 1..Len(Tail(q)) : Tail(q)[i] = q[i + 1]
  OBVIOUS
<1>3. ASSUME Len(q) # 1 PROVE Tail(q) # <<>> /\ Tail(q)[Len(Tail(q))] = q[Len(q)]
  <2>1. Len(q) - 1 \in 1..Len(Tail(q)) /\ (Len(q) - 1) + 1 = Len(q)
    BY <1>1, <1>3
  <2>2. Tail(q)[Len(q) - 1] = q[Len(q)]
    BY <1>2, <2>1
  <2>3. \A t \in Seq(S) : Len(t) >= 1 => t # <<>>
    OBVIOUS
  <2>4. Len(Tail(q)) >= 1
    BY <1>1, <1>3
  <2> QED  BY <1>1, <2>2, <2>3, <2>4
<1>4. ASSUME Len(q) = 1 PROVE Tail(q) = <<>> /\ q[Len(q)] = Head(q)
  <2>1. Len(Tail(q)) = 0
    BY <1>1, <1>4
  <2>2. \A t \in Seq(S) : Len(t) = 0 => t = <<>>
    OBVIOUS
  <2> QED  BY <1>1, <1>4, <2>1, <2>2
<1> QED  BY <1>1, <1>3, <1>4

LEMMA ReadFirstStep ==
    ASSUME SocketInv, NEW g, slink = g, Stream!ReadFirst PROVE SocketInv'
<1> DEFINE q == ss2c[g]
<1>0. Stream!TypeOK'
  BY CallerTypeStep DEF SocketInv, Stream!CallerStep
<1>1. /\ spc = "first" /\ q # <<>> /\ ss2c' = [ss2c EXCEPT ![g] = Tail(@)]
      /\ UNCHANGED <<call, sent, got, upload, taken, view, sanswer, srv, sc2s>>
  BY DEF Stream!ReadFirst, Stream!history
<1>2. g \in Conns /\ LinkAt(g) /\ call \in 1..NCalls /\ q \in Seq(Stream!Frames0)
      /\ seen[call] = "open" /\ g # None
  BY <1>1, CallerBasics
<1>3. AnswerComes(q) /\ got[call] = 0
  BY <1>1, <1>2 DEF LinkAt, SocketInv, CallsInOrder
<1>4. /\ ss2c'[g] = Tail(q) /\ (\A h \in Conns : h # g => ss2c'[h] = ss2c[h])
      /\ Head(q) = q[1] /\ Len(q) \in Nat \ {0} /\ Len(Tail(q)) = Len(q) - 1
  BY <1>1, <1>2, LastStays DEF SocketInv, Stream!TypeOK
<1>5. ~Waits(g) /\ ~Waits(g)' /\ Works(g)' = Works(g) /\ Bears(g)' = Bears(g) /\ Borne(g)' = Borne(g)
  BY <1>1, <1>2, AnswerRead, SameWork DEF SocketInv
<1>6. CASE Head(q).kind = "head" /\ spc' = "reading" /\ UNCHANGED <<seen, slink>>
  <2>1. sanswer[call] \in Answers /\ IsRun(Tail(q), sanswer[call], 0) /\ 0 <= sanswer[call].gives
    BY <1>3, <1>4, <1>6, SocketConstants DEF AnswerComes
  <2>2. srv[g].pc = "pump" => got[call] + Len(Tail(q)) = srv[g].out /\ AllChunks(Tail(q), 1)
    <3>1. srv[g].pc = "pump" => Len(q) = srv[g].out + 1 /\ AllChunks(q, 2) /\ srv[g].out \in Nat
      BY <1>1, <1>2 DEF LinkAt, SocketInv, Stream!TypeOK, Stream!Threads
    <3>2. \A m \in Nat : 0 + ((m + 1) - 1) = m
      OBVIOUS
    <3>3. AllChunks(q, 2) => AllChunks(Tail(q), 1)
      <4>1. q[1] \in Stream!Frames0
        BY <1>2, <1>4
      <4> QED  BY <1>1, <1>2, <4>1, BehindTheHead
    <3> QED  BY <1>3, <1>4, <3>1, <3>2, <3>3
  <2>3. srv[g].pc \in {"idle", "full"} =>
          srv[g].pc = "idle" /\ Tail(q) # <<>> /\ Tail(q)[Len(Tail(q))].kind \in Ending
    <3>1. srv[g].pc \in {"idle", "full"} => srv[g].pc = "idle" /\ q[Len(q)].kind \in Ending
      BY <1>1, <1>2, AnswerRead DEF SocketInv
    <3>2. q[Len(q)].kind \in Ending => Len(q) # 1
      BY <1>2, <1>1, <1>6, LastStays DEF Ending
    <3> QED  BY <1>1, <1>2, <3>1, <3>2, LastStays
  <2>4. LinkAt(g)'
    <3>1. srv[g].pc \notin {"undialed", "run", "pull", "settle"}
      BY <1>1, <1>2, AnswerRead DEF SocketInv
    <3>2. Bears(g) => Borne(g) = call
      BY <1>1, <1>2 DEF LinkAt
    <3> QED  BY <1>1, <1>3, <1>4, <1>5, <1>6, <2>1, <2>2, <2>3, <3>1, <3>2 DEF LinkAt
  <2> QED  BY <1>0, <1>1, <1>2, <1>6, <2>4, ReadingEnough
<1>7. CASE Head(q).kind = "reply" /\ Stream!Return("reply", slink)
  <2>1. spc' = "idle" /\ slink' = slink /\ seen' = [seen EXCEPT ![call] = "reply"]
    BY <1>7 DEF Stream!Return
  <2>2. seen'[call] = "reply" /\ \A n \in 1..NCalls : n # call => seen'[n] = seen[n]
    BY <1>2, <2>1 DEF SocketInv, Stream!TypeOK
  <2>3. Tail(q) = <<>>
    BY <1>1, <1>2, <1>3, <1>4, <1>7, LastStays DEF AnswerComes
  <2>4. srv[g].pc \in {"idle", "closed"} /\ (srv[g].pc = "idle" => sc2s[g] = <<>>)
    BY <1>1, <1>2, <1>4, <1>7, AnswerRead DEF SocketInv
  <2>5. LinkAt(g)'
    BY <1>1, <1>4, <2>1, <2>3, <2>4 DEF LinkAt, Waits
  <2>6. ~Bears(g)
    BY <1>5, <2>4 DEF Bears, Works
  <2> QED  BY <1>0, <1>1, <1>2, <2>1, <2>2, <2>5, <2>6, ReadingEnough
<1>8. CASE Stream!Return("failed", None)
  BY <1>0, <1>1, <1>4, <1>8, GivesUp
<1> QED  BY <1>6, <1>7, <1>8 DEF Stream!ReadFirst

LEMMA ReadStep ==
    ASSUME SocketInv, NEW g, slink = g, Stream!Read PROVE SocketInv'
<1> DEFINE q == ss2c[g]
           a == sanswer[call]
           r == got[call]
<1>0. Stream!TypeOK'
  BY CallerTypeStep DEF SocketInv, Stream!CallerStep
<1>1. /\ spc = "reading" /\ q # <<>> /\ ss2c' = [ss2c EXCEPT ![g] = Tail(@)]
      /\ UNCHANGED <<call, sent, upload, taken, view, sanswer, srv, sc2s>>
  BY DEF Stream!Read, Stream!history
<1>2. g \in Conns /\ LinkAt(g) /\ call \in 1..NCalls /\ q \in Seq(Stream!Frames0)
      /\ seen[call] = "open" /\ g # None
  BY <1>1, CallerBasics
<1>3. a \in Answers /\ r \in Nat /\ r <= a.gives /\ IsRun(q, a, r) /\ IsBody(a)
  BY <1>1, <1>2, SocketConstants DEF LinkAt, SocketInv, Stream!TypeOK, IsBody
<1>4. /\ ss2c'[g] = Tail(q) /\ (\A h \in Conns : h # g => ss2c'[h] = ss2c[h])
      /\ Head(q) = q[1] /\ Len(q) \in Nat \ {0} /\ Len(Tail(q)) = Len(q) - 1
  BY <1>1, <1>2, LastStays DEF SocketInv, Stream!TypeOK
<1>5. ~Waits(g) /\ ~Waits(g)' /\ Works(g)' = Works(g) /\ Bears(g)' = Bears(g) /\ Borne(g)' = Borne(g)
  BY <1>1, <1>2, AnswerRead, SameWork DEF SocketInv
<1>6. \/ /\ Head(q).kind = "chunk" /\ Stream!Sends(a, r) /\ IsRun(Tail(q), a, r + 1)
         /\ Stream!Feed(a.len, r, Head(q).kind) = "chunk" /\ r + 1 <= a.gives
      \/ /\ Head(q).kind = Stream!LastFrame(a, r) /\ Tail(q) = <<>> /\ Head(q).kind \in {"end", "abort"}
         /\ Stream!Feed(a.len, r, Head(q).kind) = Head(q).kind
         /\ (Head(q).kind = "end" => Stream!Whole(a, r))
  <2>1. Stream!LastFrame(a, r) \in {"end", "abort"}
    BY <1>2, FrameTypes
  <2> QED  BY <1>1, <1>2, <1>3, <2>1, RunInTurn, FeedsWhatIsSent
<1>7. CASE Stream!Feed(a.len, r, Head(q).kind) = "chunk"
  <2>1. /\ spc' = "reading" /\ slink' = slink /\ seen' = seen /\ got' = [got EXCEPT ![call] = @ + 1]
    BY <1>1, <1>7 DEF Stream!Read
  <2>2. /\ Head(q).kind = "chunk" /\ IsRun(Tail(q), a, r + 1) /\ r + 1 <= a.gives
    BY <1>6, <1>7
  <2>3. got'[call] = r + 1 /\ \A n \in 1..NCalls : n # call => got'[n] = got[n]
    BY <1>2, <2>1 DEF SocketInv, Stream!TypeOK
  <2>4. srv[g].pc = "pump" => (r + 1) + Len(Tail(q)) = srv[g].out /\ AllChunks(Tail(q), 1)
    <3>1. srv[g].pc = "pump" => r + Len(q) = srv[g].out /\ AllChunks(q, 1)
      BY <1>1, <1>2 DEF LinkAt
    <3>2. AllChunks(q, 1) => AllChunks(Tail(q), 1)
      <4>1. q[1] \in Stream!Frames0
        BY <1>2, <1>4
      <4>2. AllChunks(q, 1) => AllChunks(q, 2)
        BY <1>4 DEF AllChunks
      <4> QED  BY <1>1, <1>2, <4>1, <4>2, BehindTheHead
    <3>3. (r + 1) + Len(Tail(q)) = r + Len(q)
      BY <1>3, <1>4
    <3> QED  BY <3>1, <3>2, <3>3
  <2>5. srv[g].pc \in {"idle", "full"} =>
          srv[g].pc = "idle" /\ Tail(q) # <<>> /\ Tail(q)[Len(Tail(q))].kind \in Ending
    <3>1. srv[g].pc \in {"idle", "full"} => srv[g].pc = "idle" /\ q[Len(q)].kind \in Ending
      BY <1>1, <1>2, AnswerRead DEF SocketInv
    <3>2. q[Len(q)].kind \in Ending => Len(q) # 1
      BY <1>1, <1>2, <2>2, LastStays DEF Ending
    <3> QED  BY <1>1, <1>2, <3>1, <3>2, LastStays
  <2>6. LinkAt(g)'
    <3>1. srv[g].pc \notin {"undialed", "run", "pull", "settle"}
      BY <1>1, <1>2, AnswerRead DEF SocketInv
    <3>2. Bears(g) => Borne(g) = call
      BY <1>1, <1>2 DEF LinkAt
    <3> QED  BY <1>1, <1>3, <1>4, <1>5, <2>1, <2>2, <2>3, <2>4, <2>5, <3>1, <3>2 DEF LinkAt
  <2>7. seen'[call] # "whole"
    BY <1>2, <2>1
  <2> QED  BY <1>0, <1>1, <1>2, <2>1, <2>3, <2>6, <2>7, ReadingEnough
<1>8. CASE Stream!Feed(a.len, r, Head(q).kind) = "end"
  <2>1. /\ spc' = "idle" /\ slink' = slink /\ seen' = [seen EXCEPT ![call] = "whole"] /\ got' = got
    BY <1>1, <1>8 DEF Stream!Read, Stream!Return
  <2>2. Head(q).kind = "end" /\ Tail(q) = <<>> /\ Stream!Whole(a, r)
    BY <1>6, <1>8
  <2>3. seen'[call] = "whole" /\ \A n \in 1..NCalls : n # call => seen'[n] = seen[n]
    BY <1>2, <2>1 DEF SocketInv, Stream!TypeOK
  <2>4. srv[g].pc \in {"idle", "closed"} /\ (srv[g].pc = "idle" => sc2s[g] = <<>>)
    BY <1>1, <1>2, <1>4, <2>2, AnswerRead DEF SocketInv
  <2>5. LinkAt(g)'
    BY <1>1, <1>4, <2>1, <2>2, <2>4 DEF LinkAt, Waits
  <2>6. ~Bears(g)
    BY <1>5, <2>4 DEF Bears, Works
  <2> QED  BY <1>0, <1>1, <1>2, <2>1, <2>2, <2>3, <2>5, <2>6, ReadingEnough
<1>9. CASE Stream!Return("failed", None) /\ UNCHANGED got
  BY <1>0, <1>1, <1>4, <1>9, GivesUp
<1> QED  BY <1>7, <1>8, <1>9 DEF Stream!Read

LEMMA SocketStutter == ASSUME SocketInv, UNCHANGED Stream!vars PROVE SocketInv'
<1>1. UNCHANGED <<call, spc, slink, sdialed, sent, got, seen, upload, taken, view, sanswer, runs,
                  sc2s, ss2c, srv>>
  BY DEF Stream!vars
<1>2. Stream!TypeOK' /\ Stream!UploadIsWhole' /\ Stream!AnswerIsWhole'
  BY <1>1 DEF SocketInv, Stream!TypeOK, Stream!UploadIsWhole, Stream!AnswerIsWhole
<1>3. OneBearer' /\ CallsInOrder'
  BY <1>1, SameWork DEF SocketInv, OneBearer, CallsInOrder, Untouched
<1>4. ASSUME NEW g \in Conns PROVE ConnInOrder(g)'
  <2>1. ConnInOrder(g)
    BY DEF SocketInv, ConnsInOrder
  <2> QED  BY <1>1, <2>1, SameWork DEF ConnInOrder
<1>5. ASSUME NEW g \in Conns, slink' = g PROVE LinkAt(g)'
  <2>1. LinkAt(g)
    BY <1>1, <1>5 DEF SocketInv, LinkInOrder
  <2> QED  BY <1>1, <2>1, SameWork DEF LinkAt, AnswerComes
<1> QED  BY <1>2, <1>3, <1>4, <1>5 DEF SocketInv, ConnsInOrder, LinkInOrder

LEMMA SocketStep == ASSUME SocketInv, [Stream!Next]_(Stream!vars) PROVE SocketInv'
<1>1. CASE Stream!Issue
  BY <1>1, IssueStep
<1>2. CASE Stream!DialFails \/ Stream!ReadEnds \/ Stream!TimeOut \/ Stream!Abandon
  BY <1>2, EndingSteps
<1>3. ASSUME NEW g \in Conns, Stream!Dial(g) PROVE SocketInv'
  BY <1>3, SocketDialStep
<1>4. CASE Stream!WriteHead \/ Stream!WriteHeadDead
  BY <1>4, WriteHeadStep, WriteHeadDeadStep
<1>5. CASE Stream!WriteBody \/ Stream!WriteBodyFails
  BY <1>5, WriteBodyStep, WriteBodyFailsStep
<1>6. CASE Stream!ReadFirst \/ Stream!Read
  BY <1>6, ReadFirstStep, ReadStep
<1>7. ASSUME NEW g \in Conns, Stream!ServerStep(g) PROVE SocketInv'
  BY <1>7, ReadHeadStep, RefuseStep, PullStep, ResolveStep, SettleStep, AnswerStep, PumpStep, DieStep
     DEF Stream!ServerStep
<1>8. ASSUME NEW g \in Conns, Stream!Demand(g) \/ Stream!PumpPull(g) \/ Stream!Die(g) PROVE SocketInv'
  BY <1>8, DemandStep, PumpPullStep, DieStep
<1>9. CASE UNCHANGED Stream!vars
  BY <1>9, SocketStutter
<1> QED
  BY <1>1, <1>2, <1>3, <1>4, <1>5, <1>6, <1>7, <1>8, <1>9 DEF Stream!Next, Stream!CallerStep

LEMMA SocketStart == Stream!Init => SocketInv
<1> SUFFICES ASSUME Stream!Init PROVE SocketInv
  OBVIOUS
<1>1. /\ Stream!TypeOK /\ call = 0 /\ spc = "idle" /\ slink = None /\ sent = 0
      /\ \A n \in 1..NCalls : got[n] = 0 /\ seen[n] = "open" /\ taken[n] = 0 /\ view[n] = "open"
      /\ \A g \in Conns : sc2s[g] = <<>> /\ ss2c[g] = <<>> /\ srv[g].pc = "undialed"
  BY SocketTypeInit DEF Stream!Init, Stream!Idle
<1>2. \A g \in Conns : ~Waits(g) /\ ~Works(g) /\ ~Bears(g)
  BY <1>1 DEF Waits, Works, Bears
<1>3. ConnsInOrder /\ LinkInOrder
  BY <1>1, <1>2, SocketConstants DEF ConnsInOrder, ConnInOrder, LinkInOrder
<1>4. OneBearer /\ CallsInOrder
  BY <1>1, <1>2, SocketConstants DEF OneBearer, CallsInOrder, Untouched
<1> QED  BY <1>1, <1>3, <1>4 DEF SocketInv, Stream!UploadIsWhole, Stream!AnswerIsWhole

(* A call is dispatched when its head is read, and no head of a call that has *)
(* been is still to be read or written.                                       *)
RunsInTurn ==
    /\ \A n \in 1..NCalls : runs[n] <= 1
    /\ \A n \in call+1..NCalls : runs[n] = 0
    /\ spc \in {"dial", "head"} => runs[call] = 0
    /\ \A g \in Conns : Waits(g) => runs[Head(sc2s[g]).call] = 0

LEMMA RunsStart == Stream!Init => RunsInTurn
<1> SUFFICES ASSUME Stream!Init PROVE RunsInTurn
  OBVIOUS
<1>1. /\ call = 0 /\ spc = "idle" /\ \A n \in 1..NCalls : runs[n] = 0
      /\ \A g \in Conns : sc2s[g] = <<>>
  BY DEF Stream!Init
<1> QED  BY <1>1, SocketConstants DEF RunsInTurn, Waits

(* No step of a serving thread leaves it with a head to read.                 *)
LEMMA RunsDoorStep ==
    ASSUME SocketInv, RunsInTurn, NEW g \in Conns,
           Stream!ServerStep(g) \/ Stream!Demand(g) \/ Stream!PumpPull(g) \/ Stream!Die(g)
    PROVE  RunsInTurn'
<1>0. /\ srv \in [Conns -> Stream!Threads] /\ sc2s \in [Conns -> Seq(Stream!Frames0)]
      /\ runs \in [1..NCalls -> Nat] /\ ConnInOrder(g)
  BY DEF SocketInv, Stream!TypeOK, ConnsInOrder
<1>1. UNCHANGED <<call, spc>>
  BY DEF Stream!ServerStep, Stream!ReadHead, Stream!Refuse, Stream!Pull, Stream!Resolve, Stream!Settle,
         Stream!Answer, Stream!Pump, Stream!HangUp, Stream!Demand, Stream!PumpPull, Stream!Die,
         Stream!CallerAlone
<1>2. \A h \in Conns \ {g} : srv'[h] = srv[h] /\ sc2s'[h] = sc2s[h]
  BY <1>0 DEF Stream!ServerStep, Stream!ReadHead, Stream!Refuse, Stream!Pull, Stream!Resolve,
         Stream!Settle, Stream!Answer, Stream!Pump, Stream!HangUp, Stream!Demand, Stream!PumpPull,
         Stream!Die, Stream!Set, Stream!Drop, Stream!Consume
<1>3. ~Waits(g)'
  <2>0. ASSUME Stream!Drop(g) PROVE ~Waits(g)'
    BY <1>0, <2>0 DEF Stream!Set, Stream!Drop, Stream!Idle, Waits
  <2>1. CASE Stream!ReadHead(g) \/ Stream!Refuse(g) \/ Stream!HangUp(g) \/ Stream!Die(g)
    <3>1. ASSUME NEW t, srv' = [srv EXCEPT ![g] = t], t.pc = "run" PROVE ~Waits(g)'
      BY <1>0, <3>1 DEF Waits
    <3>2. CASE Stream!ReadHead(g) /\ ~Stream!Drop(g)
      <4>1. \A c, e : [Stream!Idle EXCEPT !.pc = "run", !.call = c, !.ended = e].pc = "run"
        BY DEF Stream!Idle
      <4>2. PICK c, e : srv' = [srv EXCEPT ![g] = [Stream!Idle EXCEPT !.pc = "run", !.call = c, !.ended = e]]
        BY <3>2 DEF Stream!ReadHead, Stream!Set
      <4> QED  BY <3>1, <4>1, <4>2
    <3> QED  BY <2>0, <2>1, <3>2 DEF Stream!Refuse, Stream!HangUp, Stream!Die
  <2>2. CASE Stream!Demand(g)
    BY <1>0, <2>2 DEF Stream!Demand, Stream!Set, Stream!Threads, Waits
  <2>3. CASE Stream!Pull(g)
    <3> DEFINE s == [srv[g] EXCEPT !.pc = "run"]
    <3>1. srv[g] \in Stream!Threads
      BY <1>0
    <3>2. PICK e : \/ srv' = [srv EXCEPT ![g] = [s EXCEPT !.read = e]]
                   \/ srv' = [srv EXCEPT ![g] = [s EXCEPT !.ended = e]]
      BY <2>3 DEF Stream!Pull, Stream!Set
    <3>3. [s EXCEPT !.read = e].pc = "run" /\ [s EXCEPT !.ended = e].pc = "run"
      BY <3>1 DEF Stream!Threads
    <3>4. srv'[g].pc = "run"
      BY <1>0, <3>2, <3>3
    <3> QED  BY <3>4 DEF Waits
  <2>4. CASE Stream!Resolve(g) \/ Stream!Settle(g)
    <3>1. srv[g] \in Stream!Threads
      BY <1>0
    <3>2. PICK t : srv' = [srv EXCEPT ![g] = t] /\ t.pc = "settle"
      <4>1. CASE Stream!Resolve(g)
        <5>1. \A k, e : [srv[g] EXCEPT !.pc = "settle", !.kind = k, !.keep = e].pc = "settle"
          BY <3>1 DEF Stream!Threads
        <5>2. PICK k, e : srv' = [srv EXCEPT ![g] = [srv[g] EXCEPT !.pc = "settle", !.kind = k, !.keep = e]]
          BY <4>1 DEF Stream!Resolve, Stream!Set
        <5> QED  BY <5>1, <5>2
      <4>2. CASE Stream!Settle(g)
        <5> DEFINE more == [srv[g] EXCEPT !.read = @ + 1]
        <5>1. srv[g].pc = "settle" /\ more.pc = "settle" /\ Stream!Hold(more).pc = "settle"
          <6>1. srv[g].pc = "settle"
            BY <4>2 DEF Stream!Settle
          <6>2. more.pc = "settle"
            BY <3>1, <6>1 DEF Stream!Threads
          <6>3. /\ more = [more EXCEPT !.pc = "settle"]
                /\ \A h, o : /\ [more EXCEPT !.held = h].pc = "settle"
                            /\ [more EXCEPT !.held = h, !.over = o].pc = "settle"
            BY <3>1, <6>1 DEF Stream!Threads
          <6> HIDE DEF more
          <6> QED  BY <6>1, <6>2, <6>3 DEF Stream!Hold
        <5>2. \A e : [srv[g] EXCEPT !.ended = e].pc = "settle"
          BY <3>1, <5>1 DEF Stream!Threads
        <5>3. PICK t : /\ srv' = [srv EXCEPT ![g] = t]
                       /\ \/ t = Stream!Hold(more)
                          \/ \E e : t = [srv[g] EXCEPT !.ended = e]
          BY <4>2 DEF Stream!Settle, Stream!Set
        <5> QED  BY <5>1, <5>2, <5>3
      <4> QED  BY <2>4, <4>1, <4>2
    <3> QED  BY <1>0, <3>2 DEF Waits
  <2>5. CASE Stream!Answer(g) \/ Stream!Pump(g)
    <3>1. srv[g].ended # "no" /\ Works(g) /\ sc2s' = sc2s
      BY <1>0, <2>5 DEF Stream!Answer, Stream!Pump, Stream!Settled, Works, ConnInOrder, Serves
    <3>2. sc2s'[g] = <<>>
      BY <1>0, <3>1 DEF ConnInOrder, Serves
    <3> QED  BY <3>2 DEF Waits
  <2>6. CASE Stream!PumpPull(g)
    BY <1>0, <2>6 DEF Stream!PumpPull, Stream!Set, Stream!Threads, Waits
  <2> QED  BY <2>1, <2>2, <2>3, <2>4, <2>5, <2>6 DEF Stream!ServerStep
<1>4. CASE runs' = runs
  BY <1>1, <1>2, <1>3, <1>4 DEF RunsInTurn, Waits
<1>5. CASE runs' # runs
  <2> DEFINE n == Head(sc2s[g]).call
  <2>1. srv[g].pc = "idle" /\ sc2s[g] # <<>> /\ runs' = [runs EXCEPT ![n] = @ + 1]
    BY <1>5 DEF Stream!ServerStep, Stream!ReadHead, Stream!Refuse, Stream!Pull, Stream!Resolve,
         Stream!Settle, Stream!Answer, Stream!Pump, Stream!HangUp, Stream!Demand, Stream!PumpPull,
         Stream!Die
  <2>2. Waits(g) /\ Bears(g) /\ Borne(g) = n /\ n \in 1..call /\ n \in 1..NCalls /\ call \in Nat
    <3>1. Waits(g) /\ Bears(g) /\ Borne(g) = n
      BY <2>1 DEF Waits, Bears, Works, Borne
    <3>2. Borne(g) \in 1..call /\ Borne(g) \in 1..NCalls
      BY <3>1, BorneIsACall DEF SocketInv
    <3>3. call \in Nat
      BY SocketConstants DEF SocketInv, Stream!TypeOK
    <3> QED  BY <3>1, <3>2, <3>3
  <2>3. runs[n] = 0 /\ runs'[n] = 1 /\ \A m \in 1..NCalls : m # n => runs'[m] = runs[m]
    <3>1. runs[n] = 0
      BY <2>2 DEF RunsInTurn
    <3> QED  BY <1>0, <2>1, <2>2, <3>1
  <2>4. spc \in {"dial", "head"} => n # call /\ call \in 1..NCalls
    BY <1>0, <2>2 DEF ConnInOrder, SocketInv, CallsInOrder
  <2>5. ASSUME NEW h \in Conns \ {g}, Waits(h)
        PROVE  Head(sc2s[h]).call # n /\ Head(sc2s[h]).call \in 1..NCalls
    <3>1. Bears(h) /\ Borne(h) = Head(sc2s[h]).call
      BY <2>5 DEF Waits, Bears, Works, Borne
    <3> QED  BY <2>2, <3>1, BorneIsACall DEF SocketInv, OneBearer
  <2>6. \A m \in call+1..NCalls : m \in 1..NCalls /\ m # n
    BY <2>2, SocketConstants
  <2>7. \A h \in Conns : Waits(h)' => h # g /\ Waits(h) /\ Head(sc2s'[h]) = Head(sc2s[h])
    BY <1>2, <1>3 DEF Waits
  <2> QED  BY <1>1, <2>3, <2>4, <2>5, <2>6, <2>7 DEF RunsInTurn
<1> QED  BY <1>4, <1>5

(* A step of the caller writes the head of a call that has not been.          *)
LEMMA RunsCallerStep ==
    ASSUME SocketInv, RunsInTurn,
           Stream!Issue \/ Stream!CallerStep \/ Stream!TimeOut \/ Stream!Abandon
    PROVE  RunsInTurn'
<1>0. /\ srv \in [Conns -> Stream!Threads] /\ sc2s \in [Conns -> Seq(Stream!Frames0)]
      /\ call \in 0..NCalls /\ NCalls \in Nat
  BY SocketConstants DEF SocketInv, Stream!TypeOK
<1>1. CASE Stream!Issue
  <2>1. call' = call + 1 /\ UNCHANGED <<runs, sc2s, srv>> /\ call < NCalls
    BY <1>1 DEF Stream!Issue
  <2>2. call' \in call+1..NCalls /\ \A n \in call'+1..NCalls : n \in call+1..NCalls
    BY <1>0, <2>1
  <2> QED  BY <2>1, <2>2 DEF RunsInTurn, Waits
<1>2. CASE Stream!WriteHead
  <2>1. /\ spc = "head" /\ spc' \in {"first", "body"} /\ UNCHANGED <<call, runs, srv>>
        /\ sc2s' = [sc2s EXCEPT ![slink] = Append(@, Stream!Frame(call, "head"))]
    BY <1>2 DEF Stream!WriteHead, Stream!history
  <2>2. slink \in Conns /\ LinkAt(slink) /\ srv[slink].pc # "closed"
    BY <1>2, <2>1, CallerBasics DEF Stream!WriteHead, Stream!Closed
  <2>3. sc2s[slink] = <<>>
    BY <2>1, <2>2 DEF LinkAt
  <2>4. sc2s'[slink] = <<Stream!Frame(call, "head")>> /\ \A h \in Conns : h # slink => sc2s'[h] = sc2s[h]
    BY <1>0, <2>1, <2>2, <2>3
  <2>5. Head(sc2s'[slink]).call = call
    BY <2>4 DEF Stream!Frame
  <2> QED  BY <2>1, <2>4, <2>5 DEF RunsInTurn, Waits
<1>3. CASE Stream!WriteBody
  <2>1. /\ spc = "body" /\ spc' \in {"first", "body"} /\ UNCHANGED <<call, runs, srv>>
        /\ \E k \in {"chunk", "end", "abort"} :
             sc2s' = [sc2s EXCEPT ![slink] = Append(@, Stream!Frame(call, k))]
    <3>1. \A b, r : Stream!LastFrame(b, r) \in {"chunk", "end", "abort"}
      BY DEF Stream!LastFrame
    <3> QED  BY <1>3, <3>1 DEF Stream!WriteBody, Stream!history
  <2>2. PICK f \in Stream!Frames0 : sc2s' = [sc2s EXCEPT ![slink] = Append(@, f)]
    BY <2>1, CallerBasics DEF Stream!Frame, Stream!Frames0
  <2>3. slink \in Conns /\ LinkAt(slink)
    BY <2>1, CallerBasics
  <2>4. srv[slink].pc \in {"idle", "full"} => sc2s[slink] # <<>>
    BY <2>1, <2>3 DEF LinkAt
  <2>5. /\ sc2s'[slink] = Append(sc2s[slink], f)
        /\ \A h \in Conns : h # slink => sc2s'[h] = sc2s[h]
    BY <1>0, <2>2, <2>3
  <2>6. sc2s[slink] # <<>> => Head(sc2s'[slink]) = Head(sc2s[slink])
    BY <1>0, <2>3, <2>5
  <2> QED  BY <2>1, <2>3, <2>4, <2>5, <2>6 DEF RunsInTurn, Waits
<1>4. ASSUME NEW g \in Conns, Stream!Dial(g) PROVE RunsInTurn'
  <2>1. /\ spc = "dial" /\ UNCHANGED <<call, runs, sc2s>> /\ srv[g].pc = "undialed"
        /\ \A h \in Conns : h # g => srv'[h] = srv[h]
    BY <1>0, <1>4 DEF Stream!Dial, Stream!history
  <2>2. sc2s[g] = <<>>
    BY <2>1 DEF SocketInv, ConnsInOrder, ConnInOrder
  <2> QED  BY <2>1, <2>2 DEF RunsInTurn, Waits
<1>5. CASE Stream!WriteHeadDead
  BY <1>5 DEF Stream!WriteHeadDead, Stream!Return, Stream!history, RunsInTurn, Waits
<1>6. CASE \/ Stream!DialFails \/ Stream!WriteBodyFails \/ Stream!ReadFirst \/ Stream!Read
           \/ Stream!ReadEnds \/ Stream!TimeOut \/ Stream!Abandon
  <2>1. spc' \notin {"dial", "head"} /\ UNCHANGED <<call, runs, sc2s, srv>>
    BY <1>6 DEF Stream!DialFails, Stream!WriteBodyFails, Stream!ReadFirst, Stream!Read, Stream!ReadEnds,
           Stream!TimeOut, Stream!Abandon, Stream!Return, Stream!history
  <2> QED  BY <2>1 DEF RunsInTurn, Waits
<1> QED  BY <1>1, <1>2, <1>3, <1>4, <1>5, <1>6 DEF Stream!CallerStep

LEMMA RunsStep ==
    ASSUME SocketInv, RunsInTurn, [Stream!Next]_(Stream!vars) PROVE RunsInTurn'
<1>1. CASE UNCHANGED Stream!vars
  BY <1>1 DEF Stream!vars, RunsInTurn, Waits
<1> QED  BY <1>1, RunsDoorStep, RunsCallerStep DEF Stream!Next

LEMMA SocketKeeps == SocketInv /\ RunsInTurn => Stream!BodiesAreWhole
<1> SUFFICES ASSUME SocketInv, RunsInTurn PROVE Stream!BodiesAreWhole
  OBVIOUS
<1>1. Stream!UploadIsWhole /\ Stream!AnswerIsWhole
  BY DEF SocketInv
<1>2. Stream!LinkIsAligned
  <2> SUFFICES ASSUME spc = "idle", slink # None, ~Stream!Closed(slink)
               PROVE  sc2s[slink] = <<>> /\ ss2c[slink] = <<>> /\ srv[slink].pc = "idle"
    BY DEF Stream!LinkIsAligned
  <2>1. slink \in Conns /\ LinkAt(slink)
    BY DEF SocketInv, LinkInOrder, Stream!TypeOK
  <2> QED  BY <2>1 DEF LinkAt, Stream!Closed
<1>3. Stream!RunsOnce
  BY DEF RunsInTurn, Stream!RunsOnce
<1> QED  BY <1>1, <1>2, <1>3 DEF Stream!BodiesAreWhole

(* A streamed call on the socket is dispatched once at most, a body read to   *)
(* its end is all its producer gave, either way, and a connection left behind *)
(* the guard is clean (issue_streamed, answer_streamed).                      *)
THEOREM StreamedOverTheSocket == Stream!Spec => []Stream!BodiesAreWhole
<1>1. Stream!Init => SocketInv /\ RunsInTurn
  BY SocketStart, RunsStart
<1>2. SocketInv /\ RunsInTurn /\ [Stream!Next]_(Stream!vars) => SocketInv' /\ RunsInTurn'
  BY SocketStep, RunsStep
<1> QED  BY <1>1, <1>2, SocketKeeps, PTL DEF Stream!Spec

-----------------------------------------------------------------------------
(* Proofs about streamed calls on QUIC, for any calls, connections and bodies.*)

(* The same of a call on its own stream of a QUIC connection, whose frames    *)
(* are only their kinds.                                                      *)
IsLine(q, b, r) ==
    \A i \in 1..Len(q) :
        \/ q[i] = "chunk" /\ Quic!Sends(b, r + i - 1)
        \/ i = Len(q) /\ ~Quic!Sends(b, r + i - 1) /\ q[i] = Quic!LastFrame(b, r + i - 1)
OnlyChunks(q) == \A j \in 1..Len(q) : q[j] = "chunk"

AllUploads == {None} \cup UNION {StreamUploads[n] : n \in Streams}
AllAnswers == UNION {StreamAnswers[n] : n \in Streams}
Kinds == {"head", "chunk", "end", "abort", "reply"}
Halves == [frames : Seq(Kinds), end : {"open", "fin", "reset", "stopped"}]
OnStream == [on : 0..Links, up : Halves, down : Halves]
Tasks ==
    [at : {"none", "queued", "head", "refusing", "run", "pull", "settle", "pump", "replied", "ended"},
     ended : {"no", "ok", "err", "handed", "broken", "stopped"}, read : Nat, held : Nat,
     keep : BOOLEAN, over : BOOLEAN, kind : {"none", "reply", "stream"}, out : Nat]

QuicTypes ==
    /\ qpc \in [Streams -> {"new", "redial", "open", "heal", "reopen", "body", "first", "reading",
                            "done"}]
    /\ qstream \in [Streams -> OnStream]
    /\ qsent \in [Streams -> Nat] /\ qgot \in [Streams -> Nat]
    /\ qtaken \in [Streams -> Nat] /\ qruns \in [Streams -> Nat]
    /\ qseen \in [Streams -> {"open", "whole", "reply", "failed", "late", "let go"}]
    /\ qview \in [Streams -> {"open", "whole", "failed"}]
    /\ qupload \in [Streams -> AllUploads] /\ qanswer \in [Streams -> AllAnswers \cup {None}]
    /\ qsrv \in [Streams -> Tasks]
    /\ current \in 1..Links /\ qlink \in [1..Links -> {"unborn", "live", "aged", "dead"}]

Unopened(n) == qpc[n] \in {"new", "redial", "open", "heal", "reopen"}
Asking(n) == qpc[n] \in {"body", "first"}
Heading(n) == qsrv[n].at \in {"queued", "head", "refusing"}
Begun(n) == qsrv[n].at \in {"run", "pull", "settle", "pump"}

(* A task reads the body in turn, and what its endpoint took and what is held *)
(* for it are what was read, until the body is thrown away.                   *)
Answering(n) ==
    LET s == qsrv[n] b == qupload[n] IN
    /\ s.ended = "no" => b # None /\ IsLine(qstream[n].up.frames, b, s.read) /\ s.read <= b.gives
    /\ b = None => qview[n] = "open"
    /\ s.at \in {"run", "pull"} =>
         /\ ~s.keep /\ ~s.over /\ s.held = 0 /\ qtaken[n] = s.read
         /\ b # None => (qview[n] = "open" <=> s.ended = "no")
    /\ s.at = "pull" => s.ended = "no"
    /\ s.at # "pump" => s.out = 0
    /\ s.keep => b # None /\ (~s.over /\ qview[n] = "open" => qtaken[n] + s.held = s.read)
    /\ s.ended = "ok" /\ b # None => Quic!Whole(b, s.read)
    /\ s.at \in {"settle", "pump"} => s.kind # "none" /\ (s.kind = "stream" => qanswer[n] \in AllAnswers)
    /\ s.at = "pump" => s.ended # "no" /\ ~s.over /\ s.kind = "stream"

UpInOrder(n) ==
    LET s == qsrv[n] toDoor == qstream[n].up b == qupload[n] IN
    /\ s.at \in {"none", "queued", "head", "refusing"} =>
         s = [Quic!Idle EXCEPT !.at = s.at] /\ qtaken[n] = 0 /\ qview[n] = "open" /\ qruns[n] = 0
    /\ qruns[n] <= 1
    /\ Heading(n) =>
         \/ toDoor.frames = <<>>
         \/ /\ Head(toDoor.frames) = "head"
            /\ IF b = None THEN Tail(toDoor.frames) = <<>> ELSE IsLine(Tail(toDoor.frames), b, 0)
    /\ Begun(n) => Answering(n)
    /\ qpc[n] = "body" => b # None
    /\ qpc[n] = "body" /\ Quic!Up(n) /\ toDoor.end = "open" =>
         \/ /\ Heading(n) /\ toDoor.frames # <<>> /\ OnlyChunks(Tail(toDoor.frames))
            /\ Len(Tail(toDoor.frames)) = qsent[n]
         \/ /\ s.at \in {"run", "pull", "settle"} /\ s.ended = "no"
            /\ s.read + Len(toDoor.frames) = qsent[n] /\ OnlyChunks(toDoor.frames)
    /\ qview[n] = "whole" => Quic!Whole(b, qtaken[n])

DownInOrder(n) ==
    LET s == qsrv[n] toCaller == qstream[n].down a == qanswer[n] IN
    /\ s.at = "none" <=> qstream[n].on = 0
    /\ qstream[n].on # 0 => qlink[qstream[n].on] # "unborn"
    /\ Unopened(n) => s.at = "none" /\ qsent[n] = 0
    /\ Asking(n) \/ qpc[n] = "reading" => s.at # "none"
    /\ qpc[n] # "done" => qseen[n] = "open" /\ (qpc[n] # "reading" => qgot[n] = 0)
    /\ s.at \in {"none", "queued", "head", "refusing", "run", "pull", "settle"} =>
         toCaller.frames = <<>> /\ qpc[n] # "reading" /\ qseen[n] # "whole"
    /\ Asking(n) =>
         \/ toCaller.frames = <<>>
         \/ toCaller.frames = <<"reply">> /\ s.at = "replied"
         \/ /\ toCaller.frames # <<>> /\ Head(toCaller.frames) = "head"
            /\ s.at \in {"pump", "ended"} /\ a \in AllAnswers /\ IsLine(Tail(toCaller.frames), a, 0)
    /\ qpc[n] = "reading" =>
         a \in AllAnswers /\ qgot[n] <= a.gives /\ IsLine(toCaller.frames, a, qgot[n])
    /\ s.at = "pump" /\ Quic!Up(n) /\ toCaller.end = "open" =>
         /\ Asking(n) => toCaller.frames # <<>> /\ OnlyChunks(Tail(toCaller.frames))
                          /\ Len(Tail(toCaller.frames)) = s.out
         /\ qpc[n] = "reading" => qgot[n] + Len(toCaller.frames) = s.out /\ OnlyChunks(toCaller.frames)
    /\ qpc[n] = "done" /\ s.at # "none" => toCaller.end # "open"
    /\ s.at = "replied" =>
         /\ toCaller.end # "open"
         /\ Quic!Up(n) => \/ Asking(n) /\ toCaller.frames = <<"reply">>
                          \/ qpc[n] = "done" /\ qseen[n] # "failed"
    /\ qseen[n] = "whole" => Quic!Whole(a, qgot[n])

QuicInv == QuicTypes /\ \A n \in Streams : UpInOrder(n) /\ DownInOrder(n)

LEMMA QuicConstants ==
    /\ Links \in Nat \ {0} /\ MaxHeld \in Nat /\ None \notin AllAnswers
    /\ \A b \in AllUploads : b # None => IsBody(b)
    /\ \A a \in AllAnswers : IsBody(a)
    /\ \A n \in Streams : StreamUploads[n] \subseteq AllUploads /\ StreamAnswers[n] \subseteq AllAnswers
BY QuicAssumption DEF Quic!QuicStreamAssumption, Quic!Body, AllUploads, AllAnswers, IsBody

(* What is done to one half of a stream. *)
LEMMA HalfOps ==
    ASSUME NEW h \in Halves
    PROVE  /\ Quic!Stopped(h) \in Halves /\ Quic!Stopped(h).frames = <<>> /\ Quic!Stopped(h).end # "open"
           /\ Quic!Reset(h) \in Halves /\ Quic!Reset(h).end # "open"
           /\ Quic!Reset(h).frames \in {<<>>, h.frames}
           /\ Quic!Finished(h) \in Halves /\ Quic!Finished(h).end # "open"
           /\ Quic!Finished(h).frames = h.frames
           /\ \A k \in Kinds : /\ Quic!Put(h, k) \in Halves
                               /\ Quic!Put(h, k).frames = Append(h.frames, k)
                               /\ Quic!Put(h, k).end = h.end
           /\ h.frames # <<>> => /\ Quic!Next1(h) \in Halves /\ Quic!Next1(h).end = h.end
                                 /\ Quic!Next1(h).frames = Tail(h.frames)
           /\ h.frames \in Seq(Kinds)
<1>1. h.frames \in Seq(Kinds) /\ h.end \in {"open", "fin", "reset", "stopped"}
  BY DEF Halves
<1>2. Quic!Stopped(h) \in Halves /\ Quic!Stopped(h).frames = <<>> /\ Quic!Stopped(h).end # "open"
  BY <1>1 DEF Quic!Stopped, Halves
<1>3. /\ Quic!Reset(h) \in Halves /\ Quic!Reset(h).end # "open"
      /\ Quic!Reset(h).frames \in {<<>>, h.frames}
  BY <1>1 DEF Quic!Reset, Halves
<1>4. /\ Quic!Finished(h) \in Halves /\ Quic!Finished(h).end # "open"
      /\ Quic!Finished(h).frames = h.frames
  BY <1>1 DEF Quic!Finished, Halves
<1>5. ASSUME NEW k \in Kinds
      PROVE  /\ Quic!Put(h, k) \in Halves /\ Quic!Put(h, k).frames = Append(h.frames, k)
             /\ Quic!Put(h, k).end = h.end
  <2>1. Append(h.frames, k) \in Seq(Kinds)
    BY <1>1
  <2> QED  BY <2>1 DEF Quic!Put, Halves
<1>6. ASSUME h.frames # <<>>
      PROVE  /\ Quic!Next1(h) \in Halves /\ Quic!Next1(h).end = h.end
             /\ Quic!Next1(h).frames = Tail(h.frames)
  <2>1. Tail(h.frames) \in Seq(Kinds)
    BY <1>1, <1>6
  <2> QED  BY <2>1 DEF Quic!Next1, Halves
<1> QED  BY <1>1, <1>2, <1>3, <1>4, <1>5, <1>6

LEMMA NewHalves ==
    /\ Quic!Half \in Halves /\ Quic!Half.frames = <<>> /\ Quic!Half.end = "open"
    /\ \A u : /\ Quic!Opening(u) \in Halves /\ Quic!Opening(u).frames = <<"head">>
              /\ Quic!Opening(u).end = IF u = None THEN "fin" ELSE "open"
    /\ Quic!NoStream \in OnStream /\ Quic!NoStream.on = 0
    /\ Quic!NoStream.up = Quic!Half /\ Quic!NoStream.down = Quic!Half
    /\ Quic!Idle \in Tasks
<1>1. <<"head">> \in Seq(Kinds)
  BY DEF Kinds
<1>2. Quic!Half \in Halves /\ Quic!Half.frames = <<>> /\ Quic!Half.end = "open"
  BY DEF Quic!Half, Halves
<1>3. \A u : /\ Quic!Opening(u) \in Halves /\ Quic!Opening(u).frames = <<"head">>
             /\ Quic!Opening(u).end = IF u = None THEN "fin" ELSE "open"
  BY <1>1 DEF Quic!Opening, Halves
<1>4. /\ Quic!NoStream \in OnStream /\ Quic!NoStream.on = 0
      /\ Quic!NoStream.up = Quic!Half /\ Quic!NoStream.down = Quic!Half
  BY <1>2, QuicConstants DEF Quic!NoStream, OnStream
<1> QED  BY <1>2, <1>3, <1>4 DEF Quic!Idle, Tasks

(* The stream of one call is changed. *)
LEMMA OneStream ==
    ASSUME qstream \in [Streams -> OnStream], NEW n \in Streams, NEW x \in Halves, NEW y \in Halves,
           \/ qstream' = [qstream EXCEPT ![n].up = x, ![n].down = y]
           \/ qstream' = [qstream EXCEPT ![n].down = y, ![n].up = x]
           \/ qstream' = [qstream EXCEPT ![n].up = x] /\ y = qstream[n].down
           \/ qstream' = [qstream EXCEPT ![n].down = y] /\ x = qstream[n].up
    PROVE  /\ qstream' \in [Streams -> OnStream] /\ qstream'[n].on = qstream[n].on
           /\ qstream'[n].up = x /\ qstream'[n].down = y
           /\ \A m \in Streams \ {n} : qstream'[m] = qstream[m]
BY DEF OnStream

(* Both wires frame a body the same way. *)
LEMMA SameFraming ==
    ASSUME NEW b, NEW s
    PROVE  /\ Quic!Sends(b, s) <=> Stream!Sends(b, s)
           /\ Quic!LastFrame(b, s) = Stream!LastFrame(b, s)
           /\ \A len, k : Quic!Feed(len, s, k) = Stream!Feed(len, s, k)
           /\ Quic!Whole(b, s) <=> Stream!Whole(b, s)
           /\ Quic!LastFrame(b, s) \in {"end", "abort"}
<1>1. Quic!Sends(b, s) <=> Stream!Sends(b, s)
  BY DEF Quic!Sends, Stream!Sends, Quic!Overruns, Stream!Overruns
<1>2. Quic!LastFrame(b, s) = Stream!LastFrame(b, s) /\ Quic!LastFrame(b, s) \in {"end", "abort"}
  BY DEF Quic!LastFrame, Stream!LastFrame, Quic!Overruns, Stream!Overruns
<1>3. \A len, k : Quic!Feed(len, s, k) = Stream!Feed(len, s, k)
  BY DEF Quic!Feed, Stream!Feed
<1>4. Quic!Whole(b, s) <=> Stream!Whole(b, s)
  BY DEF Quic!Whole, Stream!Whole
<1> QED  BY <1>1, <1>2, <1>3, <1>4

(* What is first on the way, and what reading it gives. *)
LEMMA LineInTurn ==
    ASSUME NEW q \in Seq(Kinds), NEW b, IsBody(b), NEW r \in Nat, r <= b.gives,
           q # <<>>, IsLine(q, b, r)
    PROVE  \/ /\ Head(q) = "chunk" /\ IsLine(Tail(q), b, r + 1) /\ r + 1 <= b.gives
              /\ Quic!Feed(b.len, r, Head(q)) = "chunk"
           \/ /\ Tail(q) = <<>> /\ Head(q) \in {"end", "abort"} /\ Head(q) # "chunk"
              /\ Quic!Feed(b.len, r, Head(q)) = Head(q)
              /\ Head(q) = "end" => Quic!Whole(b, r)
<1>0. Len(q) \in Nat /\ Len(q) >= 1 /\ Head(q) = q[1] /\ r + 1 - 1 = r
  OBVIOUS
<1>1. \/ Head(q) = "chunk" /\ Quic!Sends(b, r)
      \/ 1 = Len(q) /\ ~Quic!Sends(b, r) /\ Head(q) = Quic!LastFrame(b, r)
  <2>1. 1 \in 1..Len(q)
    BY <1>0
  <2>2. \/ q[1] = "chunk" /\ Quic!Sends(b, r + 1 - 1)
        \/ 1 = Len(q) /\ ~Quic!Sends(b, r + 1 - 1) /\ q[1] = Quic!LastFrame(b, r + 1 - 1)
    BY <2>1 DEF IsLine
  <2> QED  BY <1>0, <2>2
<1>2. CASE Head(q) = "chunk" /\ Quic!Sends(b, r)
  <2>1. \A i \in 1..Len(Tail(q)) : i + 1 \in 1..Len(q) /\ Tail(q)[i] = q[i + 1]
    OBVIOUS
  <2>2. \A i \in 1..Len(Tail(q)) : r + (i + 1) - 1 = r + 1 + i - 1 /\ (i + 1 = Len(q) => i = Len(Tail(q)))
    OBVIOUS
  <2>3. IsLine(Tail(q), b, r + 1)
    <3> SUFFICES ASSUME NEW i \in 1..Len(Tail(q))
                 PROVE  \/ Tail(q)[i] = "chunk" /\ Quic!Sends(b, r + 1 + i - 1)
                        \/ /\ i = Len(Tail(q)) /\ ~Quic!Sends(b, r + 1 + i - 1)
                           /\ Tail(q)[i] = Quic!LastFrame(b, r + 1 + i - 1)
      BY DEF IsLine
    <3>1. \/ q[i + 1] = "chunk" /\ Quic!Sends(b, r + (i + 1) - 1)
          \/ /\ i + 1 = Len(q) /\ ~Quic!Sends(b, r + (i + 1) - 1)
             /\ q[i + 1] = Quic!LastFrame(b, r + (i + 1) - 1)
      BY <2>1 DEF IsLine
    <3> QED  BY <2>1, <2>2, <3>1
  <2>4. r + 1 <= b.gives /\ Quic!Feed(b.len, r, "chunk") = "chunk"
    BY <1>2, SameFraming, FeedsWhatIsSent
  <2> QED  BY <1>2, <2>3, <2>4
<1>3. CASE 1 = Len(q) /\ ~Quic!Sends(b, r) /\ Head(q) = Quic!LastFrame(b, r)
  <2>1. Tail(q) = <<>>
    BY <1>3, LastStays
  <2>2. Quic!LastFrame(b, r) \in {"end", "abort"}
    BY SameFraming
  <2>3. /\ Quic!Feed(b.len, r, Head(q)) = Head(q)
        /\ Head(q) = "end" => Quic!Whole(b, r)
    BY <1>3, SameFraming, FeedsWhatIsSent
  <2> QED  BY <1>3, <2>1, <2>2, <2>3
<1> QED  BY <1>1, <1>2, <1>3

LEMMA LineGoesOn ==
    ASSUME NEW q \in Seq(Kinds), NEW b, NEW r \in Nat, NEW f \in Kinds, IsLine(q, b, r), OnlyChunks(q)
    PROVE  /\ Quic!Sends(b, r + Len(q)) /\ f = "chunk" =>
                IsLine(Append(q, f), b, r) /\ OnlyChunks(Append(q, f))
           /\ ~Quic!Sends(b, r + Len(q)) /\ f = Quic!LastFrame(b, r + Len(q)) =>
                IsLine(Append(q, f), b, r)
           /\ Len(Append(q, f)) = Len(q) + 1 /\ Len(q) \in Nat
<1> DEFINE p == Append(q, f)
<1>1. /\ Len(p) = Len(q) + 1 /\ p[Len(q) + 1] = f /\ r + (Len(q) + 1) - 1 = r + Len(q)
      /\ Len(q) \in Nat /\ (\A i \in 1..Len(q) : p[i] = q[i])
      /\ \A i \in 1..Len(p) : i \in 1..Len(q) \/ i = Len(q) + 1
  OBVIOUS
<1>2. \A i \in 1..Len(q) : p[i] = "chunk" /\ Quic!Sends(b, r + i - 1)
  <2>1. \A i \in 1..Len(q) : \/ Quic!Sends(b, r + i - 1)
                             \/ q[i] = Quic!LastFrame(b, r + i - 1)
    BY DEF IsLine
  <2>2. \A i \in 1..Len(q) : Quic!LastFrame(b, r + i - 1) # "chunk"
    BY SameFraming
  <2>3. \A i \in 1..Len(q) : q[i] = "chunk"
    BY DEF OnlyChunks
  <2> QED  BY <1>1, <2>1, <2>2, <2>3
<1> HIDE DEF p
<1>3. ASSUME Quic!Sends(b, r + Len(q)), f = "chunk" PROVE IsLine(p, b, r) /\ OnlyChunks(p)
  BY <1>1, <1>2, <1>3 DEF IsLine, OnlyChunks
<1>4. ASSUME ~Quic!Sends(b, r + Len(q)), f = Quic!LastFrame(b, r + Len(q)) PROVE IsLine(p, b, r)
  BY <1>1, <1>2, <1>4 DEF IsLine
<1> QED  BY <1>1, <1>3, <1>4 DEF p

LEMMA EmptyLine == ASSUME NEW b, NEW r PROVE IsLine(<<>>, b, r) /\ OnlyChunks(<<>>)
BY DEF IsLine, OnlyChunks

(* Adding behind the first frame, and reading it. *)
LEMMA OnTheWay ==
    ASSUME NEW q \in Seq(Kinds), NEW f \in Kinds
    PROVE  /\ Append(q, f) \in Seq(Kinds) /\ Append(q, f) # <<>> /\ Len(q) \in Nat
           /\ q = <<>> => Append(q, f) = <<f>> /\ Head(Append(q, f)) = f /\ Tail(Append(q, f)) = <<>>
           /\ q # <<>> => /\ Tail(Append(q, f)) = Append(Tail(q), f)
                          /\ Head(Append(q, f)) = Head(q) /\ Tail(q) \in Seq(Kinds)
                          /\ Head(q) \in Kinds /\ Len(Tail(q)) = Len(q) - 1 /\ Head(q) = q[1]
           /\ q # <<>> /\ OnlyChunks(q) => OnlyChunks(Tail(q)) /\ Head(q) = "chunk" /\ Len(q) \in Nat \ {0}
<1>1. Append(q, f) \in Seq(Kinds) /\ Append(q, f) # <<>> /\ Len(q) \in Nat
  OBVIOUS
<1>2. q = <<>> => Append(q, f) = <<f>> /\ Head(Append(q, f)) = f /\ Tail(Append(q, f)) = <<>>
  OBVIOUS
<1>3. q # <<>> => /\ Tail(Append(q, f)) = Append(Tail(q), f)
                  /\ Head(Append(q, f)) = Head(q) /\ Tail(q) \in Seq(Kinds)
                  /\ Head(q) \in Kinds /\ Len(Tail(q)) = Len(q) - 1 /\ Head(q) = q[1]
  OBVIOUS
<1>4. ASSUME q # <<>>, OnlyChunks(q) PROVE OnlyChunks(Tail(q)) /\ Head(q) = "chunk" /\ Len(q) \in Nat \ {0}
  <2>1. Len(q) \in Nat \ {0} /\ Head(q) = q[1] /\ 1 \in 1..Len(q)
    BY <1>4
  <2>2. \A i \in 1..Len(Tail(q)) : i + 1 \in 1..Len(q) /\ Tail(q)[i] = q[i + 1]
    BY <1>4
  <2> QED  BY <1>4, <2>1, <2>2 DEF OnlyChunks
<1> QED  BY <1>1, <1>2, <1>3, <1>4

SameCall(m) ==
    /\ qpc'[m] = qpc[m] /\ qstream'[m] = qstream[m] /\ qsent'[m] = qsent[m] /\ qgot'[m] = qgot[m]
    /\ qseen'[m] = qseen[m] /\ qupload'[m] = qupload[m] /\ qtaken'[m] = qtaken[m]
    /\ qview'[m] = qview[m] /\ qanswer'[m] = qanswer[m] /\ qruns'[m] = qruns[m]
    /\ qsrv'[m] = qsrv[m]
NoRevival ==
    \A k \in 1..Links : qlink[k] # "unborn" =>
        qlink'[k] # "unborn" /\ (qlink'[k] \in {"live", "aged"} => qlink[k] \in {"live", "aged"})

(* A connection that is dead stays dead. *)
LEMMA StaysDown ==
    ASSUME QuicTypes, NEW m \in Streams, qstream[m].on # 0 => qlink[qstream[m].on] # "unborn",
           qstream'[m].on = qstream[m].on, NoRevival
    PROVE  /\ Quic!Up(m)' => Quic!Up(m)
           /\ qstream[m].on # 0 => qlink'[qstream[m].on] # "unborn"
<1>1. qstream[m].on \in 0..Links /\ Links \in Nat
  BY QuicConstants DEF QuicTypes, OnStream
<1>2. qstream[m].on # 0 => qstream[m].on \in 1..Links
  BY <1>1
<1> QED  BY <1>1, <1>2 DEF Quic!Up, NoRevival

LEMMA CallStays ==
    ASSUME QuicTypes, NEW m \in Streams, UpInOrder(m), DownInOrder(m), SameCall(m), NoRevival
    PROVE  UpInOrder(m)' /\ DownInOrder(m)'
<1>1. Quic!Up(m)' => Quic!Up(m)
  BY StaysDown DEF DownInOrder, SameCall
<1>2. qstream'[m].on # 0 => qlink'[qstream'[m].on] # "unborn"
  BY StaysDown DEF DownInOrder, SameCall
<1>3. /\ Unopened(m)' = Unopened(m) /\ Asking(m)' = Asking(m) /\ Heading(m)' = Heading(m)
      /\ Begun(m)' = Begun(m) /\ (Answering(m) => Answering(m)')
  BY DEF SameCall, Unopened, Asking, Heading, Begun, Answering
<1>4. UpInOrder(m)'
  BY <1>1, <1>3 DEF SameCall, UpInOrder
<1>5. DownInOrder(m)'
  BY <1>1, <1>2, <1>3 DEF SameCall, DownInOrder
<1> QED  BY <1>4, <1>5

(* A step of one call leaves the others in order. *)
LEMMA CallStepEnough ==
    ASSUME QuicInv, NEW n \in Streams, QuicTypes', \A m \in Streams \ {n} : SameCall(m), NoRevival,
           UpInOrder(n)', DownInOrder(n)'
    PROVE  QuicInv'
<1>1. ASSUME NEW m \in Streams \ {n} PROVE UpInOrder(m)' /\ DownInOrder(m)'
  BY CallStays DEF QuicInv
<1> QED  BY <1>1 DEF QuicInv

LEMMA QuicStart == Quic!Init => QuicInv
<1> SUFFICES ASSUME Quic!Init PROVE QuicInv
  OBVIOUS
<1>1. /\ current = 1 /\ \A n \in Streams :
           /\ qpc[n] = "new" /\ qstream[n] = Quic!NoStream /\ qsent[n] = 0 /\ qgot[n] = 0
           /\ qseen[n] = "open" /\ qupload[n] = None /\ qtaken[n] = 0 /\ qview[n] = "open"
           /\ qanswer[n] = None /\ qruns[n] = 0 /\ qsrv[n] = Quic!Idle
  BY DEF Quic!Init
<1>2. QuicTypes
  <2>1. None \in AllUploads
    BY DEF AllUploads
  <2>2. 1 \in 1..Links
    BY QuicConstants
  <2> QED  BY <2>1, <2>2, NewHalves DEF Quic!Init, QuicTypes
<1>3. ASSUME NEW n \in Streams PROVE UpInOrder(n) /\ DownInOrder(n)
  <2>1. /\ qsrv[n].at = "none" /\ qstream[n].on = 0 /\ qstream[n].down.frames = <<>>
        /\ qsrv[n] = [Quic!Idle EXCEPT !.at = qsrv[n].at]
    BY <1>1, NewHalves DEF Quic!Idle
  <2> QED  BY <1>1, <2>1 DEF UpInOrder, DownInOrder, Unopened, Asking, Heading, Begun
<1> QED  BY <1>2, <1>3 DEF QuicInv

LEMMA SameLink == ASSUME UNCHANGED qlink PROVE NoRevival
BY DEF NoRevival

(* A call that has no stream yet is at its start, whatever else it does.      *)
LEMMA NotYetOpen ==
    ASSUME QuicTypes, NEW n \in Streams, UpInOrder(n), DownInOrder(n), Unopened(n),
           qpc'[n] # "body", Unopened(n)' \/ (qpc'[n] = "done" /\ qseen'[n] # "whole"),
           qseen'[n] = qseen[n] \/ qpc'[n] = "done",
           UNCHANGED <<qsrv, qstream, qsent, qgot, qtaken, qview, qanswer, qruns>>
    PROVE  UpInOrder(n)' /\ DownInOrder(n)'
<1>1. qsrv[n].at = "none" /\ qstream[n].on = 0 /\ qseen[n] = "open" /\ qgot[n] = 0 /\ qsent[n] = 0
  BY DEF DownInOrder, Unopened
<1>2. ~Heading(n)' /\ ~Begun(n)' /\ ~Asking(n)' /\ qpc'[n] # "reading"
  BY <1>1 DEF Heading, Begun, Asking, Unopened
<1>3. UpInOrder(n)'
  BY <1>1, <1>2 DEF UpInOrder
<1>4. DownInOrder(n)'
  BY <1>1, <1>2 DEF DownInOrder, Unopened
<1> QED  BY <1>3, <1>4

LEMMA StartStep ==
    ASSUME QuicInv, NEW n \in Streams, Quic!Start(n) PROVE QuicInv'
<1>1. PICK u \in StreamUploads[n] : qupload' = [qupload EXCEPT ![n] = u]
  BY DEF Quic!Start
<1>2. PICK w \in {"redial", "open"} : qpc' = [qpc EXCEPT ![n] = w]
  BY DEF Quic!Start, Quic!Goto
<1>3. /\ qpc[n] = "new"
      /\ UNCHANGED <<qsent, qgot, qseen, current, qtaken, qview, qanswer, qruns, qsrv, qstream, qlink>>
  BY DEF Quic!Start, Quic!door
<1>4. QuicTypes'
  <2>1. u \in AllUploads
    BY QuicConstants
  <2> QED  BY <1>1, <1>2, <1>3, <2>1 DEF QuicInv, QuicTypes
<1>5. \A m \in Streams \ {n} : SameCall(m)
  BY <1>1, <1>2, <1>3 DEF SameCall, QuicInv, QuicTypes
<1>6. UpInOrder(n)' /\ DownInOrder(n)'
  <2>1. Unopened(n) /\ Unopened(n)' /\ qpc'[n] # "body"
    BY <1>2, <1>3 DEF Unopened, QuicInv, QuicTypes
  <2> QED  BY <1>3, <2>1, NotYetOpen DEF QuicInv
<1> QED  BY <1>3, <1>4, <1>5, <1>6, SameLink, CallStepEnough

LEMMA RedialStep ==
    ASSUME QuicInv, NEW n \in Streams, Quic!Redial(n) PROVE QuicInv'
<1>1. PICK k \in 1..Links, minted \in {"live", "dead"} :
        qlink[k] = "unborn" /\ qlink' = [qlink EXCEPT ![k] = minted] /\ current' = k
  BY DEF Quic!Redial
<1>2. PICK w \in {"open", "reopen"} : qpc' = [qpc EXCEPT ![n] = w]
  BY DEF Quic!Redial, Quic!Goto
<1>3. /\ qpc[n] \in {"redial", "heal"}
      /\ UNCHANGED <<qsent, qgot, qseen, qupload, qtaken, qview, qanswer, qruns, qsrv, qstream>>
  BY DEF Quic!Redial, Quic!door
<1>4. QuicTypes'
  BY <1>1, <1>2, <1>3 DEF QuicInv, QuicTypes
<1>5. \A m \in Streams \ {n} : SameCall(m)
  BY <1>1, <1>2, <1>3 DEF SameCall, QuicInv, QuicTypes
<1>6. UpInOrder(n)' /\ DownInOrder(n)'
  <2>1. Unopened(n) /\ Unopened(n)' /\ qpc'[n] # "body"
    BY <1>2, <1>3 DEF Unopened, QuicInv, QuicTypes
  <2> QED  BY <1>3, <2>1, NotYetOpen DEF QuicInv
<1>7. NoRevival
  BY <1>1 DEF NoRevival, QuicInv, QuicTypes
<1> QED  BY <1>4, <1>5, <1>6, <1>7, CallStepEnough

LEMMA OpeningFails ==
    ASSUME QuicInv, NEW n \in Streams, Quic!RedialFails(n) \/ Quic!OpenFails(n) PROVE QuicInv'
<1>1. /\ Unopened(n)
      /\ UNCHANGED <<qsent, qgot, qupload, current, qtaken, qview, qanswer, qruns, qsrv, qstream, qlink>>
  BY DEF Quic!RedialFails, Quic!OpenFails, Quic!door, Unopened
<1>2. \/ qpc' = [qpc EXCEPT ![n] = "done"] /\ qseen' = [qseen EXCEPT ![n] = "failed"]
      \/ qpc' = [qpc EXCEPT ![n] = "heal"] /\ qseen' = qseen
  BY DEF Quic!RedialFails, Quic!OpenFails, Quic!Return, Quic!Goto
<1>3. QuicTypes'
  BY <1>1, <1>2 DEF QuicInv, QuicTypes
<1>4. \A m \in Streams \ {n} : SameCall(m)
  BY <1>1, <1>2 DEF SameCall, QuicInv, QuicTypes
<1>5. UpInOrder(n)' /\ DownInOrder(n)'
  <2>1. \/ qpc'[n] = "done" /\ qseen'[n] = "failed"
        \/ Unopened(n)' /\ qpc'[n] # "body" /\ qseen'[n] = qseen[n]
    BY <1>2 DEF Unopened, QuicInv, QuicTypes
  <2> QED  BY <1>1, <2>1, NotYetOpen DEF QuicInv
<1> QED  BY <1>1, <1>3, <1>4, <1>5, SameLink, CallStepEnough

(* The stream of a call begins with its head. *)
LEMMA OpenStep ==
    ASSUME QuicInv, NEW n \in Streams, Quic!Open(n) PROVE QuicInv'
<1> DEFINE fresh == [on |-> current, up |-> Quic!Opening(qupload[n]), down |-> Quic!Half]
<1>1. /\ qpc[n] \in {"open", "reopen"} /\ qlink[current] \in {"live", "aged"}
      /\ qstream' = [qstream EXCEPT ![n] = fresh]
      /\ qsrv' = [qsrv EXCEPT ![n].at = "queued"]
      /\ qpc' = [qpc EXCEPT ![n] = IF qupload[n] = None THEN "first" ELSE "body"]
      /\ UNCHANGED <<qsent, qgot, qseen, qupload, current, qtaken, qview, qanswer, qruns, qlink>>
  BY DEF Quic!Open, Quic!Goto
<1>2. /\ fresh \in OnStream /\ fresh.on = current /\ fresh.up.frames = <<"head">>
      /\ fresh.down.frames = <<>> /\ current \in 1..Links /\ current # 0
  <2>1. current \in 1..Links /\ current # 0 /\ current \in 0..Links
    <3>1. current \in 1..Links
      BY DEF QuicInv, QuicTypes
    <3> QED  BY <3>1, QuicConstants
  <2>2. /\ Quic!Opening(qupload[n]) \in Halves /\ Quic!Opening(qupload[n]).frames = <<"head">>
        /\ Quic!Half \in Halves /\ Quic!Half.frames = <<>>
    BY NewHalves
  <2> QED  BY <2>1, <2>2 DEF OnStream
<1> HIDE DEF fresh
<1>3. /\ qsrv[n].at = "none" /\ qsrv[n] = [Quic!Idle EXCEPT !.at = "none"]
      /\ qtaken[n] = 0 /\ qview[n] = "open" /\ qruns[n] = 0 /\ qsent[n] = 0
      /\ qgot[n] = 0 /\ qseen[n] = "open"
  BY <1>1, ZenonT(60) DEF QuicInv, UpInOrder, DownInOrder, Unopened
<1>4. /\ qstream'[n] = fresh /\ qpc'[n] = (IF qupload[n] = None THEN "first" ELSE "body")
      /\ qsrv'[n] = [Quic!Idle EXCEPT !.at = "queued"] /\ qsrv'[n].at = "queued"
      /\ qsrv'[n] \in Tasks
  BY <1>1, <1>3, NewHalves, ZenonT(60) DEF QuicInv, QuicTypes, Quic!Idle, Tasks
<1>5. QuicTypes'
  BY <1>1, <1>2, <1>4 DEF QuicInv, QuicTypes
<1>6. \A m \in Streams \ {n} : SameCall(m)
  BY <1>1 DEF SameCall, QuicInv, QuicTypes
<1>7. UpInOrder(n)'
  <2>1. Heading(n)' /\ ~Begun(n)'
    BY <1>4 DEF Heading, Begun
  <2>2. qstream'[n].up.frames = <<"head">> /\ Head(<<"head">>) = "head" /\ Tail(<<"head">>) = <<>>
        /\ <<"head">> # <<>> /\ Len(<<>>) = 0
    BY <1>2, <1>4
  <2>3. IsLine(<<>>, qupload'[n], 0) /\ OnlyChunks(<<>>)
    BY EmptyLine
  <2>4. /\ qtaken'[n] = 0 /\ qview'[n] = "open" /\ qruns'[n] = 0 /\ qsent'[n] = 0
        /\ qsrv'[n] = [Quic!Idle EXCEPT !.at = qsrv'[n].at]
        /\ (qpc'[n] = "body" => qupload'[n] # None)
    BY <1>1, <1>3, <1>4
  <2>5. /\ Head(qstream'[n].up.frames) = "head" /\ Tail(qstream'[n].up.frames) = <<>>
        /\ qstream'[n].up.frames # <<>> /\ Len(Tail(qstream'[n].up.frames)) = 0
        /\ IsLine(Tail(qstream'[n].up.frames), qupload'[n], 0) /\ OnlyChunks(Tail(qstream'[n].up.frames))
    BY <2>2, <2>3
  <2> QED  BY <2>1, <2>4, <2>5 DEF UpInOrder
<1>8. DownInOrder(n)'
  <2>1. ~Unopened(n)' /\ Asking(n)' /\ qpc'[n] # "reading"
    BY <1>4 DEF Unopened, Asking
  <2> QED  BY <1>1, <1>2, <1>3, <1>4, <2>1 DEF DownInOrder, Asking
<1> QED  BY <1>1, <1>5, <1>6, <1>7, <1>8, SameLink, CallStepEnough

(* The halves of a call's stream, and what is on them. *)
LEMMA HalvesOf ==
    ASSUME QuicTypes, NEW n \in Streams
    PROVE  /\ qstream[n] \in OnStream /\ qstream[n].up \in Halves /\ qstream[n].down \in Halves
           /\ qstream[n].up.frames \in Seq(Kinds) /\ qstream[n].down.frames \in Seq(Kinds)
           /\ qsrv[n] \in Tasks /\ qsent[n] \in Nat /\ qgot[n] \in Nat /\ qtaken[n] \in Nat
           /\ qupload[n] # None => IsBody(qupload[n])
           /\ qanswer[n] \in AllAnswers => IsBody(qanswer[n])
BY QuicConstants DEF QuicTypes, OnStream, Halves

LEMMA WriteFailsStep ==
    ASSUME QuicInv, NEW n \in Streams, Quic!WriteFails(n) PROVE QuicInv'
<1>1. /\ qpc[n] = "body" /\ qpc' = [qpc EXCEPT ![n] = "first"]
      /\ UNCHANGED <<qsent, qgot, qseen, qupload, current, qtaken, qview, qanswer, qruns, qsrv, qstream, qlink>>
  BY DEF Quic!WriteFails, Quic!ReadsOn, Quic!Goto, Quic!door
<1>2. QuicTypes' /\ qpc'[n] = "first"
  BY <1>1 DEF QuicInv, QuicTypes
<1>3. \A m \in Streams \ {n} : SameCall(m)
  BY <1>1 DEF SameCall, QuicInv, QuicTypes
<1>4. UpInOrder(n) /\ DownInOrder(n)
  BY DEF QuicInv
<1>5. /\ Unopened(n)' = Unopened(n) /\ Asking(n)' = Asking(n) /\ Heading(n)' = Heading(n)
      /\ Begun(n)' = Begun(n) /\ Answering(n)' = Answering(n) /\ Quic!Up(n)' = Quic!Up(n)
  BY <1>1, <1>2 DEF Unopened, Asking, Heading, Begun, Answering, Quic!Up
<1>6. UpInOrder(n)'
  BY <1>1, <1>2, <1>4, <1>5 DEF UpInOrder
<1>7. DownInOrder(n)'
  BY <1>1, <1>2, <1>4, <1>5 DEF DownInOrder
<1> QED  BY <1>1, <1>2, <1>3, <1>6, <1>7, SameLink, CallStepEnough

LEMMA WriteBodyQuicStep ==
    ASSUME QuicInv, NEW n \in Streams, Quic!WriteBody(n) PROVE QuicInv'
<1> DEFINE b == qupload[n]
           s == qsrv[n]
           q == qstream[n].up.frames
<1>0. /\ UpInOrder(n) /\ DownInOrder(n) /\ qstream[n].up \in Halves /\ q \in Seq(Kinds)
      /\ s \in Tasks /\ qsent[n] \in Nat /\ QuicTypes
  BY HalvesOf DEF QuicInv
<1>1. /\ qpc[n] = "body" /\ Quic!Up(n) /\ qstream[n].up.end = "open"
      /\ UNCHANGED <<qgot, qseen, qupload, current, qtaken, qview, qanswer, qruns, qsrv, qlink>>
  BY DEF Quic!WriteBody, Quic!door, Quic!Room
<1>2. PICK k \in {"chunk", "end", "abort"}, half \in Halves :
        /\ qstream' = [qstream EXCEPT ![n].up = half] /\ half.frames = Append(q, k)
        /\ \/ /\ k = "chunk" /\ Quic!Sends(b, qsent[n]) /\ qsent' = [qsent EXCEPT ![n] = @ + 1]
              /\ qpc' = qpc
           \/ /\ k # "chunk" /\ k = Quic!LastFrame(b, qsent[n]) /\ ~Quic!Sends(b, qsent[n])
              /\ qsent' = qsent /\ qpc' = [qpc EXCEPT ![n] = "first"]
  <2>1. CASE /\ Quic!Sends(b, qsent[n])
             /\ qstream' = [qstream EXCEPT ![n].up = Quic!Put(qstream[n].up, "chunk")]
             /\ qsent' = [qsent EXCEPT ![n] = @ + 1] /\ qpc' = qpc
    <3>1. /\ Quic!Put(qstream[n].up, "chunk") \in Halves
          /\ Quic!Put(qstream[n].up, "chunk").frames = Append(q, "chunk")
      BY <1>0, HalfOps DEF Kinds
    <3> QED  BY <2>1, <3>1
  <2>2. CASE /\ ~Quic!Sends(b, qsent[n])
             /\ qstream' = [qstream EXCEPT ![n].up =
                             Quic!Finished(Quic!Put(qstream[n].up, Quic!LastFrame(b, qsent[n])))]
             /\ qsent' = qsent /\ qpc' = [qpc EXCEPT ![n] = "first"]
    <3> DEFINE k == Quic!LastFrame(b, qsent[n])
               put0 == Quic!Put(qstream[n].up, k)
    <3>1. k \in {"end", "abort"} /\ k \in Kinds
      BY SameFraming DEF Kinds
    <3>2. put0 \in Halves /\ put0.frames = Append(q, k)
      BY <1>0, <3>1, HalfOps
    <3>3. Quic!Finished(put0) \in Halves /\ Quic!Finished(put0).frames = Append(q, k)
      BY <3>2, HalfOps
    <3> QED  BY <2>2, <3>1, <3>3
  <2> QED  BY <2>1, <2>2 DEF Quic!WriteBody, Quic!Goto
<1>3. k \in Kinds
  BY DEF Kinds
<1>4. /\ qstream' \in [Streams -> OnStream] /\ qstream'[n].on = qstream[n].on
      /\ qstream'[n].up = half /\ qstream'[n].down = qstream[n].down
      /\ \A m \in Streams \ {n} : qstream'[m] = qstream[m]
  BY <1>0, <1>2, HalvesOf, OneStream DEF QuicTypes
<1>5. QuicTypes' /\ \A m \in Streams \ {n} : SameCall(m)
  <2>1. qpc' \in [Streams -> {"new", "redial", "open", "heal", "reopen", "body", "first", "reading",
                               "done"}]
        /\ qsent' \in [Streams -> Nat]
        /\ \A m \in Streams \ {n} : qpc'[m] = qpc[m] /\ qsent'[m] = qsent[m]
    <3>1. CASE qsent' = [qsent EXCEPT ![n] = @ + 1] /\ qpc' = qpc
      <4>1. qsent \in [Streams -> Nat] /\ qsent[n] \in Nat
        BY <1>0 DEF QuicTypes
      <4>2. qsent' \in [Streams -> Nat] /\ \A m \in Streams \ {n} : qsent'[m] = qsent[m]
        BY <3>1, <4>1
      <4> QED  BY <1>0, <3>1, <4>2 DEF QuicTypes
    <3>2. CASE qsent' = qsent /\ qpc' = [qpc EXCEPT ![n] = "first"]
      BY <1>0, <3>2 DEF QuicTypes
    <3> QED  BY <1>2, <3>1, <3>2
  <2> QED  BY <1>0, <1>1, <1>4, <2>1 DEF SameCall, QuicTypes
<1>6. /\ qpc'[n] \in {"body", "first"}
      /\ qpc'[n] = "body" => k = "chunk" /\ qsent'[n] = qsent[n] + 1
  BY <1>0, <1>1, <1>2 DEF QuicTypes
<1>7. /\ ~Unopened(n) /\ ~Unopened(n)' /\ Asking(n) /\ Asking(n)' /\ Heading(n)' = Heading(n)
      /\ Begun(n)' = Begun(n) /\ Quic!Up(n)'
  BY <1>1, <1>4, <1>6 DEF Unopened, Asking, Heading, Begun, Quic!Up
<1>8. \/ /\ Heading(n) /\ q # <<>> /\ OnlyChunks(Tail(q)) /\ Len(Tail(q)) = qsent[n]
      \/ /\ s.at \in {"run", "pull", "settle"} /\ s.ended = "no"
         /\ s.read + Len(q) = qsent[n] /\ OnlyChunks(q)
  BY <1>0, <1>1 DEF UpInOrder
<1>9. b # None
  BY <1>0, <1>1 DEF UpInOrder
<1>10. ASSUME Heading(n), q # <<>>, OnlyChunks(Tail(q)), Len(Tail(q)) = qsent[n] PROVE UpInOrder(n)'
  <2> DEFINE p == Append(Tail(q), k)
  <2>1. /\ Tail(half.frames) = p /\ Head(half.frames) = Head(q) /\ half.frames # <<>>
        /\ Tail(q) \in Seq(Kinds) /\ Head(q) = "head" /\ IsLine(Tail(q), b, 0)
    BY <1>0, <1>2, <1>3, <1>9, <1>10, OnTheWay, ZenonT(60) DEF UpInOrder
  <2>2. Len(p) = Len(Tail(q)) + 1 /\ 0 + Len(Tail(q)) = qsent[n]
    BY <1>0, <1>3, <1>10, <2>1
  <2>3. IsLine(p, b, 0) /\ (k = "chunk" => OnlyChunks(p))
    <3>1. CASE k = "chunk"
      <4>1. Quic!Sends(b, 0 + Len(Tail(q)))
        BY <1>2, <2>2, <3>1
      <4> QED  BY <1>3, <1>10, <2>1, <3>1, <4>1, LineGoesOn
    <3>2. CASE k # "chunk"
      BY <1>2, <1>3, <1>10, <2>1, <2>2, <3>2, LineGoesOn
    <3> QED  BY <3>1, <3>2
  <2> HIDE DEF p
  <2>4. ~Begun(n) /\ s = [Quic!Idle EXCEPT !.at = s.at]
    BY <1>0, <1>10 DEF Heading, Begun, UpInOrder
  <2> QED  BY <1>0, <1>1, <1>4, <1>6, <1>7, <1>9, <1>10, <2>1, <2>2, <2>3, <2>4 DEF UpInOrder
<1>11. ASSUME s.at \in {"run", "pull", "settle"}, s.ended = "no", s.read + Len(q) = qsent[n], OnlyChunks(q)
       PROVE  UpInOrder(n)'
  <2> DEFINE p == Append(q, k)
  <2>1. Begun(n) /\ ~Heading(n) /\ Answering(n) /\ s.read \in Nat /\ IsLine(q, b, s.read)
    BY <1>0, <1>11 DEF Begun, Heading, UpInOrder, Answering, Tasks
  <2>2. Len(p) = Len(q) + 1 /\ s.read + (Len(q) + 1) = qsent[n] + 1
    <3>1. Len(p) = Len(q) + 1 /\ Len(q) \in Nat
      BY <1>0, <1>3
    <3>2. \A x, y, z \in Nat : x + y = z => x + (y + 1) = z + 1
      OBVIOUS
    <3> QED  BY <1>0, <1>11, <2>1, <3>1, <3>2
  <2>3. IsLine(p, b, s.read) /\ (k = "chunk" => OnlyChunks(p))
    <3>1. CASE k = "chunk"
      BY <1>0, <1>2, <1>3, <1>11, <2>1, <3>1, LineGoesOn
    <3>2. CASE k # "chunk"
      BY <1>0, <1>2, <1>3, <1>11, <2>1, <3>2, LineGoesOn
    <3> QED  BY <3>1, <3>2
  <2>4. half.frames = p
    BY <1>2
  <2> HIDE DEF p
  <2>5. Answering(n)'
    BY <1>1, <1>4, <2>1, <2>3, <2>4 DEF Answering
  <2> QED  BY <1>0, <1>1, <1>4, <1>6, <1>7, <1>9, <1>11, <2>1, <2>2, <2>3, <2>4, <2>5 DEF UpInOrder
<1>12. UpInOrder(n)'
  BY <1>8, <1>10, <1>11
<1>13. DownInOrder(n)'
  BY <1>0, <1>1, <1>4, <1>6, <1>7, <1>2 DEF DownInOrder
<1> QED  BY <1>1, <1>5, <1>12, <1>13, SameLink, CallStepEnough

(* What the door still reads of a body whose caller sends no more. *)
LEMMA UpReset ==
    ASSUME QuicTypes, NEW n \in Streams, UpInOrder(n), qpc'[n] # "body",
           qstream'[n].up.frames \in {<<>>, qstream[n].up.frames},
           UNCHANGED <<qupload, qtaken, qview, qanswer, qruns, qsrv>>
    PROVE  UpInOrder(n)'
<1>1. /\ Heading(n)' = Heading(n) /\ Begun(n)' = Begun(n)
  BY DEF Heading, Begun
<1>2. \A b, r : IsLine(<<>>, b, r)
  BY EmptyLine
<1>3. Answering(n) => Answering(n)'
  BY <1>2 DEF Answering
<1> QED  BY <1>1, <1>3 DEF UpInOrder

LEMMA CallCanceled ==
    ASSUME QuicInv, NEW n \in Streams, Asking(n) \/ qpc[n] = "reading", Quic!Cancel(n),
           NEW o \in {"whole", "failed", "late", "let go"}, Quic!Return(n, o),
           UNCHANGED <<qsent, qgot, qupload, current, qtaken, qview, qanswer, qruns, qsrv, qlink>>,
           o = "whole" => qpc[n] = "reading" /\ Quic!Whole(qanswer[n], qgot[n]),
           o = "failed" => ~(qsrv[n].at = "replied" /\ Quic!Up(n))
    PROVE  QuicInv'
<1>0. /\ UpInOrder(n) /\ DownInOrder(n) /\ qstream[n].up \in Halves /\ qstream[n].down \in Halves /\ QuicTypes
  BY HalvesOf DEF QuicInv
<1>1. /\ qpc' = [qpc EXCEPT ![n] = "done"] /\ qseen' = [qseen EXCEPT ![n] = o]
      /\ qpc'[n] = "done" /\ qseen'[n] = o
  BY <1>0 DEF Quic!Return, Quic!Goto, QuicTypes
<1>2. /\ qstream' \in [Streams -> OnStream] /\ qstream'[n].on = qstream[n].on
      /\ qstream'[n].up = Quic!Reset(qstream[n].up) /\ qstream'[n].down = Quic!Stopped(qstream[n].down)
      /\ \A m \in Streams \ {n} : qstream'[m] = qstream[m]
  <2>1. Quic!Reset(qstream[n].up) \in Halves /\ Quic!Stopped(qstream[n].down) \in Halves
    BY <1>0, HalfOps
  <2>2. qstream' = [qstream EXCEPT ![n].down = Quic!Stopped(qstream[n].down),
                                   ![n].up = Quic!Reset(qstream[n].up)]
    BY DEF Quic!Cancel
  <2>3. qstream \in [Streams -> OnStream]
    BY <1>0 DEF QuicTypes
  <2> QED  BY <2>1, <2>2, <2>3, OneStream
<1>3. /\ qstream'[n].up.frames \in {<<>>, qstream[n].up.frames}
      /\ qstream'[n].down.frames = <<>> /\ qstream'[n].down.end # "open"
  BY <1>0, <1>2, HalfOps
<1>4. QuicTypes' /\ \A m \in Streams \ {n} : SameCall(m)
  <2>1. /\ qpc' \in [Streams -> {"new", "redial", "open", "heal", "reopen", "body", "first", "reading",
                                 "done"}]
        /\ qseen' \in [Streams -> {"open", "whole", "reply", "failed", "late", "let go"}]
        /\ \A m \in Streams \ {n} : qpc'[m] = qpc[m] /\ qseen'[m] = qseen[m]
    BY <1>0, <1>1 DEF QuicTypes
  <2> QED  BY <1>0, <1>2, <2>1 DEF SameCall, QuicTypes
<1>5. UpInOrder(n)'
  BY <1>0, <1>1, <1>3, UpReset
<1>6. DownInOrder(n)'
  <2>1. ~Unopened(n)' /\ ~Asking(n)' /\ qpc'[n] # "reading" /\ Quic!Up(n)' = Quic!Up(n)
    BY <1>1, <1>2 DEF Unopened, Asking, Quic!Up
  <2>2. qsrv[n].at # "none"
    BY <1>0 DEF DownInOrder
  <2> QED  BY <1>0, <1>1, <1>2, <1>3, <2>1, <2>2 DEF DownInOrder
<1> QED  BY <1>4, <1>5, <1>6, SameLink, CallStepEnough

LEMMA QuicEndingSteps ==
    ASSUME QuicInv, NEW n \in Streams, Quic!ReadEnds(n) \/ Quic!Late(n) \/ Quic!LetGo(n)
    PROVE  QuicInv'
<1>1. (Asking(n) \/ qpc[n] = "reading") /\ Quic!Cancel(n)
      /\ UNCHANGED <<qsent, qgot, qupload, current, qtaken, qview, qanswer, qruns, qsrv, qlink>>
  BY DEF Quic!ReadEnds, Quic!Late, Quic!LetGo, Quic!door, Asking
<1>2. CASE Quic!Return(n, "late") \/ Quic!Return(n, "let go")
  BY <1>1, <1>2, CallCanceled
<1>3. CASE Quic!ReadEnds(n)
  <2>1. /\ qpc[n] \in {"first", "reading"} /\ Quic!Return(n, "failed") /\ qstream[n].down.frames = <<>>
    BY <1>3 DEF Quic!ReadEnds, Quic!Spent
  <2>2. ~(qsrv[n].at = "replied" /\ Quic!Up(n))
    <3>1. DownInOrder(n) /\ <<"reply">> # <<>>
      BY DEF QuicInv
    <3> QED  BY <2>1, <3>1 DEF DownInOrder
  <2> QED  BY <1>1, <2>1, <2>2, CallCanceled
<1> QED  BY <1>2, <1>3 DEF Quic!Late, Quic!LetGo

LEMMA ReadFirstQuicStep ==
    ASSUME QuicInv, NEW n \in Streams, Quic!ReadFirst(n) PROVE QuicInv'
<1> DEFINE q == qstream[n].down.frames
           a == qanswer[n]
           s == qsrv[n]
<1>0. /\ UpInOrder(n) /\ DownInOrder(n) /\ qstream[n].up \in Halves /\ qstream[n].down \in Halves
      /\ QuicTypes /\ q \in Seq(Kinds) /\ s \in Tasks
  BY HalvesOf DEF QuicInv
<1>1. /\ qpc[n] = "first" /\ q # <<>>
      /\ qstream' = [qstream EXCEPT ![n].down = Quic!Next1(qstream[n].down),
                                    ![n].up = Quic!Reset(qstream[n].up)]
      /\ \/ Head(q) = "head" /\ qpc' = [qpc EXCEPT ![n] = "reading"] /\ qseen' = qseen
         \/ /\ Head(q) = "reply" /\ qpc' = [qpc EXCEPT ![n] = "done"]
            /\ qseen' = [qseen EXCEPT ![n] = "reply"]
      /\ UNCHANGED <<qsent, qgot, qupload, current, qtaken, qview, qanswer, qruns, qsrv, qlink>>
  BY DEF Quic!ReadFirst, Quic!Goto, Quic!Return, Quic!door
<1>2. /\ qstream' \in [Streams -> OnStream] /\ qstream'[n].on = qstream[n].on
      /\ qstream'[n].up = Quic!Reset(qstream[n].up) /\ qstream'[n].down = Quic!Next1(qstream[n].down)
      /\ \A m \in Streams \ {n} : qstream'[m] = qstream[m]
  <2>1. Quic!Reset(qstream[n].up) \in Halves /\ Quic!Next1(qstream[n].down) \in Halves
    BY <1>0, <1>1, HalfOps
  <2>2. qstream \in [Streams -> OnStream]
    BY <1>0 DEF QuicTypes
  <2> QED  BY <1>1, <2>1, <2>2, OneStream
<1>3. /\ qstream'[n].up.frames \in {<<>>, qstream[n].up.frames}
      /\ qstream'[n].down.frames = Tail(q) /\ qstream'[n].down.end = qstream[n].down.end
  BY <1>0, <1>1, <1>2, HalfOps
<1>4. QuicTypes' /\ \A m \in Streams \ {n} : SameCall(m)
  <2>1. /\ qpc' \in [Streams -> {"new", "redial", "open", "heal", "reopen", "body", "first", "reading",
                                 "done"}]
        /\ qseen' \in [Streams -> {"open", "whole", "reply", "failed", "late", "let go"}]
        /\ \A m \in Streams \ {n} : qpc'[m] = qpc[m] /\ qseen'[m] = qseen[m]
    BY <1>0, <1>1 DEF QuicTypes
  <2> QED  BY <1>0, <1>1, <1>2, <2>1 DEF SameCall, QuicTypes
<1>5. /\ Asking(n) /\ ~Unopened(n) /\ qseen[n] = "open" /\ qgot[n] = 0 /\ s.at # "none"
      /\ s.at \notin {"none", "queued", "head", "refusing", "run", "pull", "settle"}
  BY <1>0, <1>1 DEF Asking, Unopened, DownInOrder
<1>6. ASSUME Head(q) = "head", qpc' = [qpc EXCEPT ![n] = "reading"], qseen' = qseen
      PROVE  UpInOrder(n)' /\ DownInOrder(n)'
  <2>1. qpc'[n] = "reading" /\ qseen'[n] = "open" /\ ~Unopened(n)' /\ ~Asking(n)'
    BY <1>0, <1>5, <1>6 DEF QuicTypes, Unopened, Asking
  <2>2. UpInOrder(n)'
    BY <1>0, <1>1, <1>3, <2>1, UpReset
  <2>3. Quic!Up(n)' = Quic!Up(n)
    BY <1>1, <1>2 DEF Quic!Up
  <2>4. s.at \in {"pump", "ended"} /\ a \in AllAnswers /\ IsLine(Tail(q), a, 0) /\ 0 <= a.gives
    <3>1. Head(<<"reply">>) = "reply"
      OBVIOUS
    <3>2. s.at \in {"pump", "ended"} /\ a \in AllAnswers /\ IsLine(Tail(q), a, 0)
      BY <1>0, <1>1, <1>5, <1>6, <3>1 DEF DownInOrder
    <3> QED  BY <3>2, QuicConstants DEF IsBody
  <2>5. s.at = "pump" /\ Quic!Up(n) /\ qstream[n].down.end = "open" =>
          0 + Len(Tail(q)) = s.out /\ OnlyChunks(Tail(q))
    <3>1. s.at = "pump" /\ Quic!Up(n) /\ qstream[n].down.end = "open" =>
            Len(Tail(q)) = s.out /\ OnlyChunks(Tail(q))
      BY <1>0, <1>5 DEF DownInOrder
    <3>2. s.out \in Nat
      BY <1>0 DEF Tasks
    <3> QED  BY <3>1, <3>2
  <2>6. DownInOrder(n)'
    BY <1>0, <1>1, <1>2, <1>3, <1>5, <2>1, <2>3, <2>4, <2>5 DEF DownInOrder
  <2> QED  BY <2>2, <2>6
<1>7. ASSUME Head(q) = "reply", qpc' = [qpc EXCEPT ![n] = "done"], qseen' = [qseen EXCEPT ![n] = "reply"]
      PROVE  UpInOrder(n)' /\ DownInOrder(n)'
  <2>1. qpc'[n] = "done" /\ qseen'[n] = "reply" /\ ~Unopened(n)' /\ ~Asking(n)'
    BY <1>0, <1>7 DEF QuicTypes, Unopened, Asking
  <2>2. UpInOrder(n)'
    BY <1>0, <1>1, <1>3, <2>1, UpReset
  <2>3. Quic!Up(n)' = Quic!Up(n)
    BY <1>1, <1>2 DEF Quic!Up
  <2>4. s.at = "replied"
    BY <1>0, <1>1, <1>5, <1>7 DEF DownInOrder
  <2>5. DownInOrder(n)'
    BY <1>0, <1>1, <1>2, <1>3, <1>5, <2>1, <2>3, <2>4 DEF DownInOrder
  <2> QED  BY <2>2, <2>5
<1> QED  BY <1>1, <1>4, <1>6, <1>7, SameLink, CallStepEnough

LEMMA ReadQuicStep ==
    ASSUME QuicInv, NEW n \in Streams, Quic!Read(n) PROVE QuicInv'
<1> DEFINE q == qstream[n].down.frames
           a == qanswer[n]
           s == qsrv[n]
           r == qgot[n]
<1>0. /\ UpInOrder(n) /\ DownInOrder(n) /\ qstream[n].up \in Halves /\ qstream[n].down \in Halves
      /\ QuicTypes /\ q \in Seq(Kinds) /\ s \in Tasks /\ r \in Nat
  BY HalvesOf DEF QuicInv
<1>1. /\ qpc[n] = "reading" /\ q # <<>>
      /\ UNCHANGED <<qsent, qupload, current, qtaken, qview, qanswer, qruns, qsrv, qlink>>
  BY DEF Quic!Read, Quic!door
<1>2. a \in AllAnswers /\ IsBody(a) /\ r <= a.gives /\ IsLine(q, a, r) /\ qseen[n] = "open"
      /\ s.at \notin {"none", "queued", "head", "refusing", "run", "pull", "settle"}
  BY <1>0, <1>1, QuicConstants DEF DownInOrder
<1>3. \/ /\ Head(q) = "chunk" /\ IsLine(Tail(q), a, r + 1) /\ r + 1 <= a.gives
         /\ Quic!Feed(a.len, r, Head(q)) = "chunk"
      \/ /\ Head(q) \in {"end", "abort"} /\ Quic!Feed(a.len, r, Head(q)) = Head(q)
         /\ Head(q) # "chunk" /\ (Head(q) = "end" => Quic!Whole(a, r))
  BY <1>0, <1>1, <1>2, LineInTurn
<1>4. ASSUME Quic!Feed(a.len, r, Head(q)) = "chunk", qgot' = [qgot EXCEPT ![n] = @ + 1],
             qpc' = qpc, qseen' = qseen,
             qstream' = [qstream EXCEPT ![n].down = Quic!Next1(qstream[n].down)]
      PROVE  QuicInv'
  <2>1. Head(q) = "chunk" /\ IsLine(Tail(q), a, r + 1) /\ r + 1 <= a.gives
    BY <1>3, <1>4
  <2>2. /\ qstream' \in [Streams -> OnStream] /\ qstream'[n].on = qstream[n].on
        /\ qstream'[n].up = qstream[n].up /\ qstream'[n].down = Quic!Next1(qstream[n].down)
        /\ \A m \in Streams \ {n} : qstream'[m] = qstream[m]
    <3>1. Quic!Next1(qstream[n].down) \in Halves
      BY <1>0, <1>1, HalfOps
    <3>2. qstream \in [Streams -> OnStream]
      BY <1>0 DEF QuicTypes
    <3> QED  BY <1>0, <1>4, <3>1, <3>2, OneStream
  <2>3. qstream'[n].down.frames = Tail(q) /\ qstream'[n].down.end = qstream[n].down.end
    BY <1>0, <1>1, <2>2, HalfOps
  <2>4. qgot' \in [Streams -> Nat] /\ qgot'[n] = r + 1 /\ \A m \in Streams \ {n} : qgot'[m] = qgot[m]
    <3>1. qgot \in [Streams -> Nat] /\ r + 1 \in Nat
      <4>1. qgot \in [Streams -> Nat]
        BY <1>0 DEF QuicTypes
      <4> QED  BY <1>0, <4>1
    <3> QED  BY <1>4, <3>1
  <2>5. QuicTypes' /\ \A m \in Streams \ {n} : SameCall(m)
    BY <1>0, <1>1, <1>4, <2>2, <2>4 DEF SameCall, QuicTypes
  <2>6. UpInOrder(n)'
    BY <1>0, <1>1, <1>4, <2>2, UpReset
  <2>7. s.at = "pump" /\ Quic!Up(n) /\ qstream[n].down.end = "open" =>
          (r + 1) + Len(Tail(q)) = s.out /\ OnlyChunks(Tail(q))
    <3>1. s.at = "pump" /\ Quic!Up(n) /\ qstream[n].down.end = "open" =>
            r + Len(q) = s.out /\ OnlyChunks(q)
      BY <1>0, <1>1 DEF DownInOrder
    <3>2. Len(Tail(q)) = Len(q) - 1 /\ Len(q) \in Nat /\ (OnlyChunks(q) => OnlyChunks(Tail(q)))
      BY <1>0, <1>1, OnTheWay DEF Kinds
    <3>3. (r + 1) + Len(Tail(q)) = r + Len(q)
      <4>1. \A x, y \in Nat : (x + 1) + (y - 1) = x + y
        OBVIOUS
      <4> QED  BY <1>0, <3>2, <4>1
    <3> QED  BY <3>1, <3>2, <3>3
  <2>8. ~Unopened(n)' /\ ~Asking(n)' /\ Quic!Up(n)' = Quic!Up(n) /\ qpc'[n] = "reading"
    BY <1>1, <1>4, <2>2 DEF Unopened, Asking, Quic!Up
  <2>9. DownInOrder(n)'
    <3>1. /\ qsrv'[n] = s /\ qanswer'[n] = a /\ qseen'[n] = "open" /\ qsent'[n] = qsent[n]
          /\ qlink' = qlink /\ s.at # "none" /\ qstream[n].on # 0 /\ qlink[qstream[n].on] # "unborn"
      BY <1>0, <1>1, <1>2, <1>4 DEF DownInOrder
    <3>2. s.at = "replied" => qstream[n].down.end # "open" /\ ~Quic!Up(n)
      BY <1>0, <1>1 DEF DownInOrder, Asking
    <3> QED  BY <1>2, <2>1, <2>2, <2>3, <2>4, <2>7, <2>8, <3>1, <3>2 DEF DownInOrder
  <2> QED  BY <1>1, <2>5, <2>6, <2>9, SameLink, CallStepEnough
<1>5. ASSUME Quic!Feed(a.len, r, Head(q)) = "end", Quic!Return(n, "whole"), Quic!Cancel(n), qgot' = qgot
      PROVE  QuicInv'
  <2>1. Quic!Whole(a, r)
    BY <1>3, <1>5
  <2> QED  BY <1>1, <1>5, <2>1, CallCanceled
<1>6. ASSUME Quic!Return(n, "failed"), Quic!Cancel(n), qgot' = qgot PROVE QuicInv'
  <2>1. ~(s.at = "replied" /\ Quic!Up(n))
    BY <1>0, <1>1 DEF DownInOrder, Asking
  <2> QED  BY <1>1, <1>6, <2>1, CallCanceled
<1> QED  BY <1>4, <1>5, <1>6 DEF Quic!Read

(* The callers' steps. *)
LEMMA QuicCallerStep ==
    ASSUME QuicInv, NEW n \in Streams,
           Quic!Start(n) \/ Quic!CallerStep(n) \/ Quic!Late(n) \/ Quic!LetGo(n)
    PROVE  QuicInv'
BY StartStep, RedialStep, OpeningFails, OpenStep, WriteBodyQuicStep, WriteFailsStep,
   ReadFirstQuicStep, ReadQuicStep, QuicEndingSteps DEF Quic!CallerStep

(* A step of the door on the stream of call n. *)
TaskStep(n) ==
    /\ UNCHANGED <<qpc, qsent, qgot, qseen, qupload, current, qlink>>
    /\ \A m \in Streams \ {n} :
         /\ qstream'[m] = qstream[m] /\ qsrv'[m] = qsrv[m] /\ qtaken'[m] = qtaken[m]
         /\ qview'[m] = qview[m] /\ qanswer'[m] = qanswer[m] /\ qruns'[m] = qruns[m]
    /\ qstream'[n].on = qstream[n].on

LEMMA TaskStepEnough ==
    ASSUME QuicInv, NEW n \in Streams, TaskStep(n), QuicTypes', UpInOrder(n)', DownInOrder(n)'
    PROVE  QuicInv'
<1>1. \A m \in Streams \ {n} : SameCall(m)
  BY DEF TaskStep, SameCall
<1> QED  BY <1>1, SameLink, CallStepEnough DEF TaskStep

(* A task is set to t, and the halves of its stream to x and y. *)
LEMMA TaskTypes ==
    ASSUME QuicTypes, NEW n \in Streams, NEW t \in Tasks, qsrv' = [qsrv EXCEPT ![n] = t],
           NEW x \in Halves, NEW y \in Halves,
           \/ qstream' = [qstream EXCEPT ![n].up = x, ![n].down = y]
           \/ qstream' = [qstream EXCEPT ![n].down = y, ![n].up = x]
           \/ qstream' = [qstream EXCEPT ![n].up = x] /\ y = qstream[n].down
           \/ qstream' = [qstream EXCEPT ![n].down = y] /\ x = qstream[n].up
           \/ qstream' = qstream /\ x = qstream[n].up /\ y = qstream[n].down,
           UNCHANGED <<qpc, qsent, qgot, qseen, qupload, current, qlink>>
    PROVE  /\ qsrv'[n] = t /\ qstream'[n].up = x /\ qstream'[n].down = y /\ Quic!Up(n)' = Quic!Up(n)
           /\ qsrv' \in [Streams -> Tasks] /\ qstream' \in [Streams -> OnStream]
           /\ UNCHANGED <<qtaken, qview, qanswer, qruns>> => TaskStep(n) /\ QuicTypes'
           /\ \A m \in Streams \ {n} : qstream'[m] = qstream[m] /\ qsrv'[m] = qsrv[m]
           /\ qstream'[n].on = qstream[n].on
<1>1. qsrv \in [Streams -> Tasks] /\ qstream \in [Streams -> OnStream]
  BY DEF QuicTypes
<1>2. qsrv'[n] = t /\ qsrv' \in [Streams -> Tasks] /\ \A m \in Streams \ {n} : qsrv'[m] = qsrv[m]
  BY <1>1
<1>3. /\ qstream' \in [Streams -> OnStream] /\ qstream'[n].on = qstream[n].on
      /\ qstream'[n].up = x /\ qstream'[n].down = y
      /\ \A m \in Streams \ {n} : qstream'[m] = qstream[m]
  BY <1>1, OneStream
<1>4. Quic!Up(n)' = Quic!Up(n)
  BY <1>3 DEF Quic!Up
<1>5. UNCHANGED <<qtaken, qview, qanswer, qruns>> => TaskStep(n) /\ QuicTypes'
  BY <1>2, <1>3, ZenonT(60) DEF TaskStep, QuicTypes
<1> QED  BY <1>2, <1>3, <1>4, <1>5

(* A task ends: the rest of the body is not read, and nothing more written.   *)
TaskCloses(n) ==
    \/ qstream' = [qstream EXCEPT ![n].down = Quic!Finished(@), ![n].up = Quic!Stopped(@)]
    \/ qstream' = [qstream EXCEPT ![n].down = Quic!Reset(@), ![n].up = Quic!Stopped(@)]

LEMMA TaskEnds ==
    ASSUME QuicInv, NEW n \in Streams,
           qsrv[n].at \in {"queued", "head", "refusing", "settle", "pump"},
           qsrv' = [qsrv EXCEPT ![n].at = "ended"],
           TaskCloses(n),
           UNCHANGED <<qpc, qsent, qgot, qseen, qupload, current, qtaken, qview, qanswer, qruns, qlink>>
    PROVE  QuicInv'
<1> DEFINE t == [qsrv[n] EXCEPT !.at = "ended"]
<1>0. /\ UpInOrder(n) /\ DownInOrder(n) /\ qstream[n].up \in Halves /\ qstream[n].down \in Halves
      /\ QuicTypes /\ qsrv[n] \in Tasks
  BY HalvesOf DEF QuicInv
<1>1. PICK y \in Halves :
        /\ qstream' = [qstream EXCEPT ![n].down = y, ![n].up = Quic!Stopped(qstream[n].up)]
        /\ y.frames \in {<<>>, qstream[n].down.frames} /\ y.end # "open"
  BY <1>0, HalfOps DEF TaskCloses
<1>2. Quic!Stopped(qstream[n].up) \in Halves /\ Quic!Stopped(qstream[n].up).frames = <<>>
      /\ Quic!Stopped(qstream[n].up).end # "open"
  BY <1>0, HalfOps
<1>3. t \in Tasks /\ t.at = "ended" /\ qsrv' = [qsrv EXCEPT ![n] = t]
  BY <1>0 DEF Tasks
<1> HIDE DEF t
<1>4. /\ qsrv'[n] = t /\ qstream'[n].up.frames = <<>> /\ qstream'[n].up.end # "open"
      /\ qstream'[n].down = y /\ TaskStep(n) /\ QuicTypes' /\ Quic!Up(n)' = Quic!Up(n)
      /\ qstream'[n].on = qstream[n].on
  <2>1. PICK x \in Halves : x = Quic!Stopped(qstream[n].up)
    BY <1>2
  <2>2. qstream' = [qstream EXCEPT ![n].down = y, ![n].up = x]
    BY <1>1, <2>1
  <2>3. x.frames = <<>> /\ x.end # "open"
    BY <1>2, <2>1
  <2>4. QuicTypes /\ t \in Tasks /\ qsrv' = [qsrv EXCEPT ![n] = t]
    BY <1>0, <1>3
  <2>5. /\ UNCHANGED <<qpc, qsent, qgot, qseen, qupload, current, qlink>>
        /\ UNCHANGED <<qtaken, qview, qanswer, qruns>>
    OBVIOUS
  <2>6. qsrv \in [Streams -> Tasks] /\ qstream \in [Streams -> OnStream]
    BY <2>4 DEF QuicTypes
  <2>7. /\ qstream' \in [Streams -> OnStream] /\ qstream'[n].on = qstream[n].on
        /\ qstream'[n].up = x /\ qstream'[n].down = y
        /\ \A m \in Streams \ {n} : qstream'[m] = qstream[m]
    BY <2>2, <2>6, OneStream
  <2>8. /\ qsrv'[n] = t /\ qsrv' \in [Streams -> Tasks]
        /\ \A m \in Streams \ {n} : qsrv'[m] = qsrv[m]
    BY <2>4, <2>6
  <2>9. Quic!Up(n)' = Quic!Up(n)
    BY <2>5, <2>7 DEF Quic!Up
  <2>10. TaskStep(n)
    BY <2>5, <2>7, <2>8 DEF TaskStep
  <2>11. QuicTypes'
    BY <2>4, <2>5, <2>7, <2>8, ZenonT(120) DEF QuicTypes
  <2> QED  BY <2>3, <2>7, <2>8, <2>9, <2>10, <2>11
<1>5. ~Heading(n)' /\ ~Begun(n)' /\ Unopened(n)' = Unopened(n) /\ Asking(n)' = Asking(n)
  BY <1>3, <1>4 DEF Heading, Begun, Unopened, Asking
<1>6. UpInOrder(n)'
  BY <1>0, <1>3, <1>4, <1>5 DEF UpInOrder
<1>7. DownInOrder(n)'
  <2>1. IsLine(<<>>, qanswer[n], qgot[n])
    BY EmptyLine
  <2> QED  BY <1>0, <1>1, <1>3, <1>4, <1>5, <2>1 DEF DownInOrder
<1> QED  BY <1>4, <1>6, <1>7, TaskStepEnough

LEMMA TaskReplies ==
    ASSUME QuicInv, NEW n \in Streams, qsrv[n].at \in {"refusing", "settle"}, Quic!Replies(n),
           UNCHANGED <<qpc, qsent, qgot, qseen, qupload, current, qtaken, qview, qanswer, qruns, qlink>>
    PROVE  QuicInv'
<1> DEFINE t == [qsrv[n] EXCEPT !.at = "replied"]
           x == Quic!Stopped(qstream[n].up)
           y == Quic!Finished(Quic!Put(qstream[n].down, "reply"))
<1>0. /\ UpInOrder(n) /\ DownInOrder(n) /\ qstream[n].up \in Halves /\ qstream[n].down \in Halves
      /\ QuicTypes /\ qsrv[n] \in Tasks
  BY HalvesOf DEF QuicInv
<1>1. CASE Quic!Ends(n)
  BY <1>1, TaskEnds DEF Quic!Ends, TaskCloses
<1>2. CASE /\ Quic!Up(n) /\ qstream[n].down.end = "open"
           /\ qstream' = [qstream EXCEPT ![n].up = x, ![n].down = y]
           /\ qsrv' = [qsrv EXCEPT ![n].at = "replied"]
  <2>1. x \in Halves /\ x.frames = <<>> /\ x.end # "open"
    BY <1>0, HalfOps
  <2>2. qstream[n].down.frames = <<>> /\ qpc[n] # "reading" /\ qseen[n] # "whole" /\ qpc[n] # "done"
        /\ ~Unopened(n)
    BY <1>0, <1>2 DEF DownInOrder
  <2>3. y \in Halves /\ y.frames = <<"reply">> /\ y.end # "open"
    <3>1. /\ Quic!Put(qstream[n].down, "reply") \in Halves
          /\ Quic!Put(qstream[n].down, "reply").frames = Append(qstream[n].down.frames, "reply")
      BY <1>0, HalfOps DEF Kinds
    <3>2. Append(<<>>, "reply") = <<"reply">>
      OBVIOUS
    <3> QED  BY <2>2, <3>1, <3>2, HalfOps
  <2>4. t \in Tasks /\ t.at = "replied" /\ qsrv' = [qsrv EXCEPT ![n] = t]
    BY <1>0, <1>2 DEF Tasks
  <2> HIDE DEF t, x, y
  <2>5. /\ qsrv'[n] = t /\ qstream'[n].up = x
        /\ qstream'[n].down = y /\ TaskStep(n) /\ QuicTypes' /\ Quic!Up(n)' = Quic!Up(n)
        /\ qstream'[n].on = qstream[n].on
    BY <1>0, <1>2, <2>1, <2>3, <2>4, TaskTypes, ZenonT(60)
  <2>6. ~Heading(n)' /\ ~Begun(n)' /\ Unopened(n)' = Unopened(n) /\ Asking(n)' = Asking(n)
    BY <2>4, <2>5 DEF Heading, Begun, Unopened, Asking
  <2>7. Asking(n)
    BY <1>0, <2>2 DEF Asking, Unopened, QuicTypes
  <2>8. UpInOrder(n)'
    BY <1>0, <2>1, <2>4, <2>5, <2>6 DEF UpInOrder
  <2>9. DownInOrder(n)'
    BY <1>0, <2>2, <2>3, <2>4, <2>5, <2>6, <2>7 DEF DownInOrder
  <2> QED  BY <2>5, <2>8, <2>9, TaskStepEnough
<1> QED  BY <1>1, <1>2 DEF Quic!Replies

LEMMA AcceptStep ==
    ASSUME QuicInv, NEW n \in Streams, Quic!Accept(n) PROVE QuicInv'
<1>0. /\ UpInOrder(n) /\ DownInOrder(n) /\ QuicTypes /\ qsrv[n] \in Tasks
      /\ qstream[n].up \in Halves /\ qstream[n].down \in Halves
  BY HalvesOf DEF QuicInv
<1>1. /\ qsrv[n].at = "queued"
      /\ UNCHANGED <<qpc, qsent, qgot, qseen, qupload, current, qtaken, qview, qanswer, qruns,
                     qstream, qlink>>
  BY DEF Quic!Accept, Quic!caller
<1>2. PICK w \in {"head", "refusing"} : qsrv' = [qsrv EXCEPT ![n] = [qsrv[n] EXCEPT !.at = w]]
  BY DEF Quic!Accept, Quic!Set
<1>3. PICK t \in Tasks : t = [qsrv[n] EXCEPT !.at = w] /\ t.at = w /\ t = [Quic!Idle EXCEPT !.at = w]
  BY <1>0, <1>1 DEF Tasks, UpInOrder
<1>4. qsrv'[n] = t /\ TaskStep(n) /\ QuicTypes' /\ Quic!Up(n)' = Quic!Up(n)
  BY <1>0, <1>1, <1>2, <1>3, TaskTypes
<1>5. /\ Heading(n) /\ Heading(n)' /\ ~Begun(n)' /\ Unopened(n)' = Unopened(n) /\ Asking(n)' = Asking(n)
  BY <1>1, <1>3, <1>4 DEF Heading, Begun, Unopened, Asking
<1>6. UpInOrder(n)'
  BY <1>0, <1>1, <1>3, <1>4, <1>5 DEF UpInOrder
<1>7. DownInOrder(n)'
  BY <1>0, <1>1, <1>3, <1>4, <1>5 DEF DownInOrder
<1> QED  BY <1>4, <1>6, <1>7, TaskStepEnough

LEMMA HeadEndings ==
    ASSUME QuicInv, NEW n \in Streams, Quic!TurnAway(n) \/ Quic!HeadLost(n) \/ Quic!Refuse(n)
    PROVE  QuicInv'
<1>1. UNCHANGED <<qpc, qsent, qgot, qseen, qupload, current, qtaken, qview, qanswer, qruns, qlink>>
  BY DEF Quic!TurnAway, Quic!HeadLost, Quic!Refuse, Quic!caller
<1>2. CASE Quic!TurnAway(n) \/ Quic!HeadLost(n)
  BY <1>1, <1>2, TaskEnds DEF Quic!TurnAway, Quic!HeadLost, Quic!Ends, TaskCloses
<1>3. CASE Quic!Refuse(n)
  BY <1>1, <1>3, TaskReplies DEF Quic!Refuse
<1> QED  BY <1>2, <1>3

LEMMA ReadHeadQuicStep ==
    ASSUME QuicInv, NEW n \in Streams, Quic!ReadHead(n) PROVE QuicInv'
<1> DEFINE q == qstream[n].up.frames
           x == Quic!Next1(qstream[n].up)
           b == qupload[n]
<1>0. /\ UpInOrder(n) /\ DownInOrder(n) /\ QuicTypes /\ qsrv[n] \in Tasks /\ q \in Seq(Kinds)
      /\ qstream[n].up \in Halves /\ qstream[n].down \in Halves /\ (b # None => IsBody(b))
  BY HalvesOf DEF QuicInv
<1>1. /\ qsrv[n].at = "head" /\ q # <<>> /\ qstream' = [qstream EXCEPT ![n].up = x]
      /\ qruns' = [qruns EXCEPT ![n] = @ + 1]
      /\ UNCHANGED <<qpc, qsent, qgot, qseen, qupload, current, qtaken, qview, qanswer, qlink>>
  BY DEF Quic!ReadHead, Quic!caller
<1>2. PICK e \in {"ok", "no"} : qsrv' = [qsrv EXCEPT ![n] = [qsrv[n] EXCEPT !.at = "run", !.ended = e]]
                                /\ (e = "ok" <=> b = None)
  BY DEF Quic!ReadHead, Quic!Set
<1>3. /\ qsrv[n] = [Quic!Idle EXCEPT !.at = "head"] /\ qtaken[n] = 0 /\ qview[n] = "open" /\ qruns[n] = 0
      /\ (b # None => IsLine(Tail(q), b, 0))
  BY <1>0, <1>1 DEF UpInOrder, Heading
<1>4. PICK t \in Tasks : /\ t = [qsrv[n] EXCEPT !.at = "run", !.ended = e] /\ t.at = "run"
                         /\ t.ended = e /\ t.read = 0 /\ t.held = 0 /\ ~t.keep /\ ~t.over /\ t.out = 0
  <2>1. qsrv[n].read = 0 /\ qsrv[n].held = 0 /\ qsrv[n].out = 0
    BY <1>3 DEF Quic!Idle
  <2>2. ~qsrv[n].keep /\ ~qsrv[n].over
    BY <1>3 DEF Quic!Idle
  <2>3. PICK t : t = [qsrv[n] EXCEPT !.at = "run", !.ended = e]
    OBVIOUS
  <2>4. /\ t \in Tasks /\ t.at = "run" /\ t.ended = e /\ t.read = qsrv[n].read /\ t.held = qsrv[n].held
        /\ t.keep = qsrv[n].keep /\ t.over = qsrv[n].over /\ t.out = qsrv[n].out
    <3>1. /\ t \in Tasks /\ t.at = "run" /\ t.ended = e /\ t.read = qsrv[n].read /\ t.held = qsrv[n].held
          /\ t.out = qsrv[n].out
      BY <1>0, <1>2, <2>3 DEF Tasks
    <3>2. t.keep = qsrv[n].keep /\ t.over = qsrv[n].over
      BY <1>0, <2>3 DEF Tasks
    <3> QED  BY <3>1, <3>2
  <2> QED  BY <2>1, <2>2, <2>3, <2>4
<1>5. x \in Halves /\ x.frames = Tail(q) /\ x.end = qstream[n].up.end
  BY <1>0, <1>1, HalfOps
<1> HIDE DEF x
<1>6. /\ qsrv'[n] = t /\ qstream'[n].up = x /\ qstream'[n].down = qstream[n].down
      /\ qsrv' \in [Streams -> Tasks] /\ qstream' \in [Streams -> OnStream]
      /\ Quic!Up(n)' = Quic!Up(n) /\ qstream'[n].on = qstream[n].on
      /\ \A m \in Streams \ {n} : qstream'[m] = qstream[m] /\ qsrv'[m] = qsrv[m]
  <2>1. qsrv' = [qsrv EXCEPT ![n] = t]
    BY <1>2, <1>4
  <2>2. PICK y \in Halves : y = qstream[n].down
    BY <1>0
  <2> QED  BY <1>0, <1>1, <1>4, <1>5, <2>1, <2>2, TaskTypes
<1>7. qruns' \in [Streams -> Nat] /\ qruns'[n] = 1 /\ \A m \in Streams \ {n} : qruns'[m] = qruns[m]
  <2>1. qruns \in [Streams -> Nat]
    BY <1>0 DEF QuicTypes
  <2>2. qruns' = [qruns EXCEPT ![n] = 1]
    BY <1>1, <1>3, <2>1
  <2> QED  BY <2>1, <2>2
<1>8. QuicTypes' /\ TaskStep(n)
  BY <1>0, <1>1, <1>6, <1>7 DEF QuicTypes, TaskStep
<1>9. /\ Heading(n) /\ ~Heading(n)' /\ Begun(n)' /\ Unopened(n)' = Unopened(n) /\ Asking(n)' = Asking(n)
  BY <1>1, <1>4, <1>6 DEF Heading, Begun, Unopened, Asking
<1>10. Answering(n)'
  <2>1. b # None => 0 <= b.gives
    BY <1>0 DEF IsBody
  <2> QED  BY <1>1, <1>2, <1>3, <1>4, <1>5, <1>6, <2>1 DEF Answering
<1>11. UpInOrder(n)'
  <2>1. qpc[n] = "body" /\ Quic!Up(n) /\ x.end = "open" =>
          b # None /\ 0 + Len(Tail(q)) = qsent[n] /\ OnlyChunks(Tail(q))
    <3>1. Tail(q) \in Seq(Kinds)
      BY <1>0, <1>1
    <3>2. Len(Tail(q)) \in Nat
      BY <3>1
    <3>3. qpc[n] = "body" /\ Quic!Up(n) /\ qstream[n].up.end = "open" =>
            b # None /\ Len(Tail(q)) = qsent[n] /\ OnlyChunks(Tail(q))
      BY <1>0, <1>1 DEF UpInOrder
    <3>4. 0 + Len(Tail(q)) = Len(Tail(q))
      BY <3>2
    <3> QED  BY <1>5, <3>3, <3>4
  <2>2. qpc'[n] = "body" => qupload'[n] # None
    BY <1>0, <1>1 DEF UpInOrder
  <2>3. qpc'[n] = "body" /\ Quic!Up(n)' /\ qstream'[n].up.end = "open" =>
          /\ qsrv'[n].ended = "no" /\ OnlyChunks(qstream'[n].up.frames)
          /\ qsrv'[n].read + Len(qstream'[n].up.frames) = qsent'[n]
    <3>1. qstream'[n].up.frames = Tail(q) /\ qstream'[n].up.end = x.end /\ qsrv'[n].read = 0
          /\ qsrv'[n].ended = e /\ Quic!Up(n)' = Quic!Up(n)
      BY <1>4, <1>5, <1>6
    <3>2. qpc'[n] = qpc[n] /\ qsent'[n] = qsent[n] /\ (b # None => e = "no")
      BY <1>1, <1>2
    <3> QED  BY <2>1, <3>1, <3>2
  <2>4. qview'[n] = "open" /\ qruns'[n] = 1 /\ qsrv'[n].at = "run"
    BY <1>1, <1>3, <1>4, <1>6, <1>7
  <2> QED  BY <1>9, <1>10, <2>2, <2>3, <2>4 DEF UpInOrder
<1>12. DownInOrder(n)'
  BY <1>0, <1>1, <1>4, <1>6, <1>9 DEF DownInOrder
<1> QED  BY <1>8, <1>11, <1>12, TaskStepEnough

LEMMA DemandQuicStep ==
    ASSUME QuicInv, NEW n \in Streams, Quic!Demand(n) PROVE QuicInv'
<1>0. /\ UpInOrder(n) /\ DownInOrder(n) /\ QuicTypes /\ qsrv[n] \in Tasks
      /\ qstream[n].up \in Halves /\ qstream[n].down \in Halves
  BY HalvesOf DEF QuicInv
<1>1. /\ qsrv[n].at = "run" /\ qupload[n] # None /\ qview[n] = "open"
      /\ qsrv' = [qsrv EXCEPT ![n] = [qsrv[n] EXCEPT !.at = "pull"]]
      /\ UNCHANGED <<qpc, qsent, qgot, qseen, qupload, current, qtaken, qview, qanswer, qruns,
                     qstream, qlink>>
  BY DEF Quic!Demand, Quic!caller, Quic!Set
<1>2. PICK t \in Tasks : /\ t = [qsrv[n] EXCEPT !.at = "pull"] /\ t.at = "pull"
                         /\ t.ended = qsrv[n].ended /\ t.read = qsrv[n].read /\ t.held = qsrv[n].held
                         /\ t.keep = qsrv[n].keep /\ t.over = qsrv[n].over /\ t.out = qsrv[n].out
  <2>1. PICK t : t = [qsrv[n] EXCEPT !.at = "pull"]
    OBVIOUS
  <2>2. /\ t \in Tasks /\ t.at = "pull" /\ t.ended = qsrv[n].ended /\ t.read = qsrv[n].read
        /\ t.held = qsrv[n].held /\ t.out = qsrv[n].out
    BY <1>0, <2>1 DEF Tasks
  <2>3. t.keep = qsrv[n].keep /\ t.over = qsrv[n].over
    BY <1>0, <2>1 DEF Tasks
  <2> QED  BY <2>1, <2>2, <2>3
<1>3. qsrv'[n] = t /\ TaskStep(n) /\ QuicTypes' /\ Quic!Up(n)' = Quic!Up(n)
  BY <1>0, <1>1, <1>2, TaskTypes
<1>4. /\ ~Heading(n) /\ Begun(n) /\ ~Heading(n)' /\ Begun(n)' /\ Answering(n)
      /\ Unopened(n)' = Unopened(n) /\ Asking(n)' = Asking(n)
  BY <1>0, <1>1, <1>2, <1>3 DEF Heading, Begun, Unopened, Asking, UpInOrder
<1>5. Answering(n)'
  BY <1>1, <1>2, <1>3, <1>4 DEF Answering
<1>6. UpInOrder(n)'
  BY <1>0, <1>1, <1>2, <1>3, <1>4, <1>5 DEF UpInOrder
<1>7. DownInOrder(n)'
  BY <1>0, <1>1, <1>2, <1>3, <1>4 DEF DownInOrder
<1> QED  BY <1>3, <1>6, <1>7, TaskStepEnough

Flowing(n) == qpc[n] = "body" /\ Quic!Up(n) /\ qstream[n].up.end = "open"

(* A task that has not begun to answer goes on. *)
LEMMA WorksOnStream ==
    ASSUME QuicInv, NEW n \in Streams, TaskStep(n), QuicTypes', Answering(n)',
           qsrv[n].at \in {"run", "pull", "settle"}, qsrv'[n].at \in {"run", "pull", "settle"},
           qruns'[n] = qruns[n], qstream'[n].down = qstream[n].down,
           qview'[n] = "whole" => Quic!Whole(qupload[n], qtaken'[n]),
           Flowing(n)' => /\ qsrv'[n].ended = "no" /\ OnlyChunks(qstream'[n].up.frames)
                          /\ qsrv'[n].read + Len(qstream'[n].up.frames) = qsent[n]
    PROVE  QuicInv'
<1>0. UpInOrder(n) /\ DownInOrder(n)
  BY DEF QuicInv
<1>1. /\ UNCHANGED <<qpc, qsent, qgot, qseen, qupload, current, qlink>>
      /\ qstream'[n].on = qstream[n].on
  BY DEF TaskStep
<1>2. /\ ~Heading(n) /\ Begun(n) /\ ~Heading(n)' /\ Begun(n)' /\ Quic!Up(n)' = Quic!Up(n)
      /\ Unopened(n)' = Unopened(n) /\ Asking(n)' = Asking(n)
  BY <1>1 DEF Heading, Begun, Unopened, Asking, Quic!Up
<1>3. UpInOrder(n)'
  BY <1>0, <1>1, <1>2 DEF UpInOrder, Flowing
<1>4. DownInOrder(n)'
  <2>1. qstream'[n].down.frames = <<>> /\ qpc'[n] # "reading" /\ qseen'[n] # "whole"
    BY <1>0, <1>1 DEF DownInOrder
  <2> QED  BY <1>0, <1>1, <1>2, <2>1 DEF DownInOrder
<1> QED  BY <1>3, <1>4, TaskStepEnough

(* What is read next of a body that has not ended: its next chunk, the frame  *)
(* that ends it, or the end of a stream on which nothing more can come.       *)
LEMMA NextOnStream ==
    ASSUME QuicInv, NEW n \in Streams, qsrv[n].at \in {"pull", "settle"}, qsrv[n].ended = "no",
           Quic!Arrived(n), Quic!Consume(n),
           NEW step, step = Quic!Incoming(n)
    PROVE  \E x \in Halves :
             /\ x.end = qstream[n].up.end
             /\ \/ qstream' = [qstream EXCEPT ![n].up = x]
                \/ qstream' = qstream /\ x = qstream[n].up
             /\ \/ /\ step = "chunk" /\ IsLine(x.frames, qupload[n], qsrv[n].read + 1)
                   /\ qsrv[n].read + 1 <= qupload[n].gives
                   /\ Flowing(n) => /\ OnlyChunks(x.frames)
                                    /\ (qsrv[n].read + 1) + Len(x.frames) = qsent[n]
                \/ step = "end" /\ ~Flowing(n) /\ Quic!Whole(qupload[n], qsrv[n].read)
                \/ step \in {"abort", "broken"} /\ ~Flowing(n)
<1> DEFINE q == qstream[n].up.frames
           b == qupload[n]
           r == qsrv[n].read
<1>0. /\ UpInOrder(n) /\ QuicTypes /\ qsrv[n] \in Tasks /\ q \in Seq(Kinds)
      /\ qstream[n].up \in Halves /\ (b # None => IsBody(b)) /\ r \in Nat
  BY HalvesOf DEF QuicInv, Tasks
<1>1. /\ b # None /\ IsBody(b) /\ IsLine(q, b, r) /\ r <= b.gives
      /\ Flowing(n) => r + Len(q) = qsent[n] /\ OnlyChunks(q)
  BY <1>0 DEF UpInOrder, Begun, Answering, Flowing, Heading
<1>2. CASE q = <<>>
  <2>1. step = "broken" /\ qstream' = qstream /\ ~Flowing(n)
    BY <1>2 DEF Quic!Incoming, Quic!Consume, Quic!Arrived, Quic!Spent, Flowing
  <2> QED  BY <1>0, <2>1
<1>3. CASE q # <<>>
  <2> DEFINE x == Quic!Next1(qstream[n].up)
  <2>1. /\ step = Quic!Feed(b.len, r, Head(q)) /\ qstream' = [qstream EXCEPT ![n].up = x]
    BY <1>3 DEF Quic!Incoming, Quic!Consume
  <2>2. x \in Halves /\ x.frames = Tail(q) /\ x.end = qstream[n].up.end
    BY <1>0, <1>3, HalfOps
  <2> HIDE DEF x
  <2>3. CASE /\ Head(q) = "chunk" /\ IsLine(Tail(q), b, r + 1) /\ r + 1 <= b.gives
             /\ Quic!Feed(b.len, r, Head(q)) = "chunk"
    <3>1. Len(Tail(q)) = Len(q) - 1 /\ Len(q) \in Nat /\ (OnlyChunks(q) => OnlyChunks(Tail(q)))
      BY <1>0, <1>3, OnTheWay DEF Kinds
    <3>2. (r + 1) + Len(Tail(q)) = r + Len(q)
      <4>1. \A i, j \in Nat : (i + 1) + (j - 1) = i + j
        OBVIOUS
      <4> QED  BY <1>0, <3>1, <4>1
    <3> QED  BY <1>1, <2>1, <2>2, <2>3, <3>1, <3>2
  <2>4. CASE /\ Head(q) \in {"end", "abort"} /\ Head(q) # "chunk"
             /\ Quic!Feed(b.len, r, Head(q)) = Head(q)
             /\ Head(q) = "end" => Quic!Whole(b, r)
    <3>1. ~Flowing(n)
      BY <1>0, <1>1, <1>3, <2>4, OnTheWay DEF Kinds
    <3> QED  BY <2>1, <2>2, <2>4, <3>1
  <2> QED  BY <1>0, <1>1, <1>3, <2>3, <2>4, LineInTurn
<1> QED  BY <1>2, <1>3

LEMMA ResolveQuicStep ==
    ASSUME QuicInv, NEW n \in Streams, Quic!Resolve(n) PROVE QuicInv'
<1> DEFINE s == qsrv[n]
<1>0. /\ UpInOrder(n) /\ DownInOrder(n) /\ QuicTypes /\ s \in Tasks
      /\ qstream[n].up \in Halves /\ qstream[n].down \in Halves
  BY HalvesOf DEF QuicInv
<1>1. /\ s.at = "run"
      /\ UNCHANGED <<qpc, qsent, qgot, qseen, qupload, current, qtaken, qview, qruns, qstream, qlink>>
  BY DEF Quic!Resolve, Quic!caller
<1>2. PICK sort \in {"reply", "stream"}, keep \in BOOLEAN, a \in AllAnswers \cup {None} :
        /\ keep => qupload[n] # None /\ qview[n] = "open"
        /\ qsrv' = [qsrv EXCEPT ![n] = [s EXCEPT !.at = "settle", !.kind = sort, !.keep = keep]]
        /\ qanswer' = [qanswer EXCEPT ![n] = a] /\ (sort = "stream" => a \in AllAnswers)
  BY QuicConstants DEF Quic!Resolve, Quic!Set
<1>3. PICK t : t = [s EXCEPT !.at = "settle", !.kind = sort, !.keep = keep]
  OBVIOUS
<1>4. /\ t \in Tasks /\ t.at = "settle" /\ t.ended = s.ended /\ t.read = s.read
      /\ t.held = s.held /\ t.out = s.out /\ t.kind = sort
  BY <1>0, <1>2, <1>3 DEF Tasks
<1>5. t.keep = keep /\ t.over = s.over
  BY <1>0, <1>2, <1>3 DEF Tasks
<1>6. qanswer' \in [Streams -> AllAnswers \cup {None}] /\ qanswer'[n] = a
      /\ \A m \in Streams \ {n} : qanswer'[m] = qanswer[m]
  BY <1>0, <1>2 DEF QuicTypes
<1>7. /\ qsrv'[n] = t /\ qsrv' \in [Streams -> Tasks] /\ Quic!Up(n)' = Quic!Up(n)
      /\ \A m \in Streams \ {n} : qsrv'[m] = qsrv[m]
  <2>1. qsrv' = [qsrv EXCEPT ![n] = t]
    BY <1>2, <1>3
  <2> QED  BY <1>0, <1>1, <1>4, <2>1, TaskTypes
<1>8. QuicTypes' /\ TaskStep(n)
  BY <1>0, <1>1, <1>6, <1>7 DEF QuicTypes, TaskStep
<1>9. Answering(n) /\ ~Heading(n)
  BY <1>0, <1>1 DEF UpInOrder, Begun, Heading
<1>10. Answering(n)'
  <2>1. t.keep => qtaken[n] + t.held = t.read
    BY <1>0, <1>1, <1>4, <1>9, HalvesOf DEF Answering, Tasks
  <2> QED  BY <1>1, <1>2, <1>4, <1>5, <1>6, <1>7, <1>9, <2>1 DEF Answering
<1>11. Flowing(n)' => /\ qsrv'[n].ended = "no" /\ OnlyChunks(qstream'[n].up.frames)
                      /\ qsrv'[n].read + Len(qstream'[n].up.frames) = qsent[n]
  BY <1>0, <1>1, <1>4, <1>7, <1>9 DEF Flowing, UpInOrder
<1> QED  BY <1>0, <1>1, <1>4, <1>7, <1>8, <1>10, <1>11, WorksOnStream DEF UpInOrder

LEMMA PullQuicStep ==
    ASSUME QuicInv, NEW n \in Streams, Quic!Pull(n) PROVE QuicInv'
<1> DEFINE s == qsrv[n]
           b == qupload[n]
           step == Quic!Incoming(n)
<1>0. /\ UpInOrder(n) /\ DownInOrder(n) /\ QuicTypes /\ s \in Tasks /\ s.read \in Nat /\ s.held \in Nat
      /\ qstream[n].up \in Halves /\ qstream[n].down \in Halves
  BY HalvesOf DEF QuicInv, Tasks
<1>1. /\ s.at = "pull" /\ Quic!Arrived(n) /\ Quic!Consume(n)
      /\ UNCHANGED <<qpc, qsent, qgot, qseen, qupload, current, qanswer, qruns, qlink>>
  BY DEF Quic!Pull, Quic!caller
<1>2. /\ Answering(n) /\ ~Heading(n) /\ s.ended = "no" /\ b # None /\ ~s.keep /\ ~s.over
      /\ s.held = 0 /\ s.out = 0 /\ qtaken[n] = s.read /\ qview[n] = "open"
      /\ IsLine(qstream[n].up.frames, b, s.read) /\ s.read <= b.gives
  BY <1>0, <1>1 DEF UpInOrder, Begun, Heading, Answering
<1>3. PICK x \in Halves :
        /\ x.end = qstream[n].up.end
        /\ \/ qstream' = [qstream EXCEPT ![n].up = x]
           \/ qstream' = qstream /\ x = qstream[n].up
        /\ \/ /\ step = "chunk" /\ IsLine(x.frames, b, s.read + 1)
              /\ s.read + 1 <= b.gives
              /\ Flowing(n) => /\ OnlyChunks(x.frames)
                               /\ (s.read + 1) + Len(x.frames) = qsent[n]
           \/ step = "end" /\ ~Flowing(n) /\ Quic!Whole(b, s.read)
           \/ step \in {"abort", "broken"} /\ ~Flowing(n)
  BY <1>1, <1>2, NextOnStream
<1>4. PICK e \in {"no", "ok", "handed", "broken"}, v \in {"open", "whole", "failed"}, r \in Nat, t \in Tasks :
        /\ qsrv' = [qsrv EXCEPT ![n] = t] /\ t.at = "run" /\ t.ended = e /\ t.read = r /\ t.held = 0
        /\ ~t.keep /\ ~t.over /\ t.out = 0
        /\ qtaken' = [qtaken EXCEPT ![n] = r] /\ qview' = [qview EXCEPT ![n] = v]
        /\ \/ /\ e = "no" /\ v = "open" /\ IsLine(x.frames, b, r) /\ r <= b.gives
              /\ Flowing(n) => OnlyChunks(x.frames) /\ r + Len(x.frames) = qsent[n]
           \/ e = "ok" /\ v = "whole" /\ ~Flowing(n) /\ Quic!Whole(b, r)
           \/ e \in {"handed", "broken"} /\ v = "failed" /\ ~Flowing(n)
  <2>0. qtaken \in [Streams -> Nat] /\ qview \in [Streams -> {"open", "whole", "failed"}]
    BY <1>0 DEF QuicTypes
  <2>1. CASE step = "chunk"
    <3>1. PICK r \in Nat : r = s.read + 1
      BY <1>0
    <3>2. PICK t : t = [[s EXCEPT !.at = "run"] EXCEPT !.read = r]
      OBVIOUS
    <3>3. qsrv' = [qsrv EXCEPT ![n] = t] /\ qtaken' = [qtaken EXCEPT ![n] = qtaken[n] + 1] /\ qview' = qview
      <4>1. Quic!Set(n, [[s EXCEPT !.at = "run"] EXCEPT !.read = s.read + 1])
        BY <1>0, <2>1 DEF Quic!Pull, Tasks
      <4>2. qtaken' = [qtaken EXCEPT ![n] = qtaken[n] + 1] /\ qview' = qview
        BY <2>1 DEF Quic!Pull
      <4> QED  BY <3>1, <3>2, <4>1, <4>2 DEF Quic!Set
    <3>4. qtaken' = [qtaken EXCEPT ![n] = r] /\ qview' = [qview EXCEPT ![n] = "open"]
      BY <1>2, <2>0, <3>1, <3>3
    <3>5. /\ t \in Tasks /\ t.at = "run" /\ t.ended = "no" /\ t.read = r /\ t.held = 0
          /\ ~t.keep /\ ~t.over /\ t.out = 0
      <4>1. /\ t \in Tasks /\ t.at = "run" /\ t.ended = "no" /\ t.read = r /\ t.held = 0
            /\ t.out = 0
        BY <1>0, <1>2, <3>2 DEF Tasks
      <4>2. t.keep = s.keep /\ t.over = s.over
        BY <1>0, <1>2, <3>2 DEF Tasks
      <4> QED  BY <1>2, <4>1, <4>2
    <3> QED  BY <1>3, <2>1, <3>1, <3>3, <3>4, <3>5
  <2>2. CASE step = "end"
    <3>1. PICK t : t = [[s EXCEPT !.at = "run"] EXCEPT !.ended = "ok"]
      OBVIOUS
    <3>2. qsrv' = [qsrv EXCEPT ![n] = t] /\ qtaken' = qtaken /\ qview' = [qview EXCEPT ![n] = "whole"]
      BY <2>2, <3>1 DEF Quic!Pull, Quic!Set
    <3>3. qtaken' = [qtaken EXCEPT ![n] = s.read]
      BY <1>2, <2>0, <3>2
    <3>4. /\ t \in Tasks /\ t.at = "run" /\ t.ended = "ok" /\ t.read = s.read /\ t.held = 0
          /\ ~t.keep /\ ~t.over /\ t.out = 0
      <4>1. /\ t \in Tasks /\ t.at = "run" /\ t.ended = "ok" /\ t.read = s.read /\ t.held = 0
            /\ t.out = 0
        BY <1>0, <1>2, <3>1 DEF Tasks
      <4>2. t.keep = s.keep /\ t.over = s.over
        BY <1>0, <1>2, <3>1 DEF Tasks
      <4> QED  BY <1>2, <4>1, <4>2
    <3> QED  BY <1>0, <1>3, <2>2, <3>2, <3>3, <3>4
  <2>3. CASE step \in {"abort", "broken"}
    <3>1. PICK e \in {"handed", "broken"} : e = (IF step = "abort" THEN "handed" ELSE "broken")
      OBVIOUS
    <3>2. PICK t : t = [[s EXCEPT !.at = "run"] EXCEPT !.ended = e]
      OBVIOUS
    <3>3. qsrv' = [qsrv EXCEPT ![n] = t] /\ qtaken' = qtaken /\ qview' = [qview EXCEPT ![n] = "failed"]
      BY <2>3, <3>1, <3>2 DEF Quic!Pull, Quic!Set
    <3>4. qtaken' = [qtaken EXCEPT ![n] = s.read]
      BY <1>2, <2>0, <3>3
    <3>5. /\ t \in Tasks /\ t.at = "run" /\ t.ended = e /\ t.read = s.read /\ t.held = 0
          /\ ~t.keep /\ ~t.over /\ t.out = 0
      <4>1. /\ t \in Tasks /\ t.at = "run" /\ t.ended = e /\ t.read = s.read /\ t.held = 0
            /\ t.out = 0
        BY <1>0, <1>2, <3>2 DEF Tasks
      <4>2. t.keep = s.keep /\ t.over = s.over
        BY <1>0, <1>2, <3>2 DEF Tasks
      <4> QED  BY <1>2, <4>1, <4>2
    <3> QED  BY <1>0, <1>3, <2>3, <3>3, <3>4, <3>5
  <2> QED  BY <1>3, <2>1, <2>2, <2>3
<1>5. /\ qsrv'[n] = t /\ qstream'[n].up = x /\ qstream'[n].down = qstream[n].down
      /\ qsrv' \in [Streams -> Tasks] /\ qstream' \in [Streams -> OnStream]
      /\ Quic!Up(n)' = Quic!Up(n) /\ qstream'[n].on = qstream[n].on
      /\ \A m \in Streams \ {n} : qstream'[m] = qstream[m] /\ qsrv'[m] = qsrv[m]
  <2>1. PICK y \in Halves : y = qstream[n].down
    BY <1>0
  <2>2. \/ qstream' = [qstream EXCEPT ![n].up = x] /\ y = qstream[n].down
        \/ qstream' = qstream /\ x = qstream[n].up /\ y = qstream[n].down
    BY <1>3, <2>1
  <2>3. CASE qstream' = [qstream EXCEPT ![n].up = x]
    BY <1>0, <1>1, <1>3, <1>4, <2>1, <2>3, TaskTypes
  <2>4. CASE qstream' = qstream /\ x = qstream[n].up
    BY <1>0, <1>1, <1>3, <1>4, <2>1, <2>4, TaskTypes
  <2> QED  BY <2>2, <2>3, <2>4
<1>6. /\ qtaken' \in [Streams -> Nat] /\ qtaken'[n] = r
      /\ \A m \in Streams \ {n} : qtaken'[m] = qtaken[m]
  BY <1>0, <1>4 DEF QuicTypes
<1>7. /\ qview' \in [Streams -> {"open", "whole", "failed"}] /\ qview'[n] = v
      /\ \A m \in Streams \ {n} : qview'[m] = qview[m]
  BY <1>0, <1>4 DEF QuicTypes
<1>8. QuicTypes' /\ TaskStep(n)
  BY <1>0, <1>1, <1>5, <1>6, <1>7 DEF QuicTypes, TaskStep
<1>9. Flowing(n)' = Flowing(n)
  BY <1>1, <1>3, <1>5 DEF Flowing
<1>10. Answering(n)'
  BY <1>1, <1>2, <1>4, <1>5, <1>6, <1>7 DEF Answering
<1>11. /\ qview'[n] = "whole" => Quic!Whole(b, qtaken'[n])
       /\ Flowing(n)' => /\ qsrv'[n].ended = "no" /\ OnlyChunks(qstream'[n].up.frames)
                         /\ qsrv'[n].read + Len(qstream'[n].up.frames) = qsent[n]
  BY <1>4, <1>5, <1>6, <1>7, <1>9
<1> QED  BY <1>1, <1>4, <1>5, <1>8, <1>10, <1>11, WorksOnStream

(* The body is gone, or too long to be held: the rest of it is stopped.       *)
LEMMA StopsReading ==
    ASSUME QuicInv, NEW n \in Streams, qsrv[n].at = "settle", qsrv[n].ended = "no",
           NEW t \in Tasks, qsrv' = [qsrv EXCEPT ![n] = t],
           t.at = "settle", Answering(n)',
           NEW x \in Halves, qstream' = [qstream EXCEPT ![n].up = x], x.end # "open",
           UNCHANGED <<qpc, qsent, qgot, qseen, qupload, current, qtaken, qview, qanswer, qruns, qlink>>
    PROVE  QuicInv'
<1>0. /\ UpInOrder(n) /\ DownInOrder(n) /\ QuicTypes
      /\ qstream[n].up \in Halves /\ qstream[n].down \in Halves
  BY HalvesOf DEF QuicInv
<1>1. PICK y \in Halves : y = qstream[n].down
  BY <1>0
<1>2. /\ qsrv'[n] = t /\ qstream'[n].up = x /\ qstream'[n].down = y /\ TaskStep(n) /\ QuicTypes'
  <2>1. QuicTypes /\ y \in Halves /\ y = qstream[n].down
    BY <1>0, <1>1
  <2>2. UNCHANGED <<qpc, qsent, qgot, qseen, qupload, current, qlink>>
    OBVIOUS
  <2>3. qstream' = [qstream EXCEPT ![n].up = x] /\ y = qstream[n].down
    BY <1>1
  <2>4. qsrv'[n] = t /\ qstream'[n].up = x /\ qstream'[n].down = y
    <3>1. qsrv \in [Streams -> Tasks] /\ qstream \in [Streams -> OnStream]
      BY <2>1 DEF QuicTypes
    <3>2. qstream'[n].up = x /\ qstream'[n].down = y
      <4>1. qstream[n] \in OnStream
        BY <3>1
      <4>2. qstream'[n] = [qstream[n] EXCEPT !.up = x]
        BY <2>3, <3>1
      <4> QED  BY <2>3, <4>1, <4>2 DEF OnStream
    <3> QED  BY <3>1, <3>2
  <2>5. UNCHANGED <<qtaken, qview, qanswer, qruns>> => TaskStep(n) /\ QuicTypes'
    BY <2>1, <2>2, <2>3, TaskTypes
  <2> QED  BY <2>4, <2>5
<1>3. ~Flowing(n)'
  BY <1>2 DEF Flowing
<1> QED  BY <1>0, <1>1, <1>2, <1>3, WorksOnStream DEF UpInOrder

LEMMA StopUnreadStep ==
    ASSUME QuicInv, NEW n \in Streams, Quic!StopUnread(n) PROVE QuicInv'
<1>0. qsrv[n] \in Tasks
  BY HalvesOf DEF QuicInv
<1>1. /\ qsrv[n].at = "settle" /\ qsrv[n].ended = "no" /\ ~qsrv[n].keep
      /\ qsrv' = [qsrv EXCEPT ![n] = [qsrv[n] EXCEPT !.ended = "stopped"]]
      /\ qstream' = [qstream EXCEPT ![n].up = Quic!Stopped(@)]
      /\ UNCHANGED <<qpc, qsent, qgot, qseen, qupload, current, qtaken, qview, qanswer, qruns, qlink>>
  BY DEF Quic!StopUnread, Quic!caller, Quic!Set
<1>2. PICK t : t = [qsrv[n] EXCEPT !.ended = "stopped"]
  OBVIOUS
<1>3. /\ t \in Tasks /\ t.at = "settle" /\ t.ended = "stopped" /\ t.out = qsrv[n].out
      /\ t.kind = qsrv[n].kind
  BY <1>0, <1>1, <1>2 DEF Tasks
<1>4. t.keep = qsrv[n].keep
  BY <1>0, <1>2 DEF Tasks
<1>5. Answering(n) /\ qsrv'[n] = t
  <2>1. qsrv'[n] = t
    BY <1>1, <1>2 DEF QuicInv, QuicTypes
  <2> QED  BY <1>1, <2>1 DEF QuicInv, UpInOrder, Begun
<1>6. Answering(n)'
  BY <1>1, <1>3, <1>4, <1>5 DEF Answering
<1>7. PICK x \in Halves : qstream' = [qstream EXCEPT ![n].up = x] /\ x.end # "open"
  BY <1>1, HalvesOf, HalfOps DEF QuicInv
<1> QED  BY <1>1, <1>2, <1>3, <1>6, <1>7, StopsReading

LEMMA SettleQuicStep ==
    ASSUME QuicInv, NEW n \in Streams, Quic!Settle(n) PROVE QuicInv'
<1> DEFINE s == qsrv[n]
           b == qupload[n]
           step == Quic!Incoming(n)
<1>0. /\ UpInOrder(n) /\ DownInOrder(n) /\ QuicTypes /\ s \in Tasks /\ s.read \in Nat /\ s.held \in Nat
      /\ qstream[n].up \in Halves /\ qstream[n].down \in Halves /\ qtaken[n] \in Nat
  BY HalvesOf DEF QuicInv, Tasks, QuicTypes
<1>1. /\ s.at = "settle" /\ s.ended = "no" /\ s.keep /\ Quic!Arrived(n)
      /\ UNCHANGED <<qpc, qsent, qgot, qseen, qupload, current, qtaken, qview, qanswer, qruns, qlink>>
  BY DEF Quic!Settle, Quic!caller
<1>2. CASE step = "chunk" /\ s.held = MaxHeld
  <2>1. PICK t : t = [s EXCEPT !.ended = "stopped", !.over = TRUE, !.held = 0]
    OBVIOUS
  <2>2. qsrv' = [qsrv EXCEPT ![n] = t] /\ qstream' = [qstream EXCEPT ![n].up = Quic!Stopped(@)]
    BY <1>2, <2>1 DEF Quic!Settle, Quic!Set
  <2>3. /\ t \in Tasks /\ t.at = "settle" /\ t.ended = "stopped" /\ t.out = s.out /\ t.kind = s.kind
    BY <1>0, <1>1, <2>1 DEF Tasks
  <2>4. t.keep = s.keep /\ t.over
    BY <1>0, <2>1 DEF Tasks
  <2>5. Answering(n) /\ qsrv'[n] = t
    <3>1. qsrv'[n] = t
      BY <1>0, <2>2 DEF QuicTypes
    <3> QED  BY <1>0, <1>1, <3>1 DEF UpInOrder, Begun
  <2>6. Answering(n)'
    BY <1>1, <2>3, <2>4, <2>5 DEF Answering
  <2>7. PICK x \in Halves : qstream' = [qstream EXCEPT ![n].up = x] /\ x.end # "open"
    BY <1>0, <2>2, HalfOps
  <2> QED  BY <1>1, <2>2, <2>3, <2>6, <2>7, StopsReading
<1>3. CASE ~(step = "chunk" /\ s.held = MaxHeld)
  <2>1. /\ Quic!Consume(n)
        /\ Quic!Set(n, IF step = "chunk" THEN [s EXCEPT !.read = @ + 1, !.held = @ + 1]
                       ELSE IF step = "end" THEN [s EXCEPT !.ended = "ok"]
                       ELSE IF step = "abort" THEN [s EXCEPT !.ended = "err"]
                       ELSE [s EXCEPT !.ended = "broken"])
    BY <1>3 DEF Quic!Settle
  <2>2. PICK x \in Halves :
          /\ x.end = qstream[n].up.end
          /\ \/ qstream' = [qstream EXCEPT ![n].up = x]
             \/ qstream' = qstream /\ x = qstream[n].up
          /\ \/ /\ step = "chunk" /\ IsLine(x.frames, b, s.read + 1)
                /\ s.read + 1 <= b.gives
                /\ Flowing(n) => /\ OnlyChunks(x.frames)
                                 /\ (s.read + 1) + Len(x.frames) = qsent[n]
             \/ step = "end" /\ ~Flowing(n) /\ Quic!Whole(b, s.read)
             \/ step \in {"abort", "broken"} /\ ~Flowing(n)
    BY <1>1, <2>1, NextOnStream
  <2>3. /\ Answering(n) /\ b # None /\ (~s.over /\ qview[n] = "open" => qtaken[n] + s.held = s.read)
    BY <1>0, <1>1 DEF UpInOrder, Begun, Answering
  <2>4. PICK e \in {"no", "ok", "err", "broken"}, r \in Nat, h \in Nat, t \in Tasks :
          /\ qsrv' = [qsrv EXCEPT ![n] = t] /\ t.at = "settle" /\ t.ended = e /\ t.read = r /\ t.held = h
          /\ t.keep /\ t.over = s.over /\ t.kind = s.kind /\ t.out = s.out
          /\ ~s.over /\ qview[n] = "open" => qtaken[n] + h = r
          /\ \/ /\ e = "no" /\ IsLine(x.frames, b, r) /\ r <= b.gives
                /\ Flowing(n) => OnlyChunks(x.frames) /\ r + Len(x.frames) = qsent[n]
             \/ e = "ok" /\ ~Flowing(n) /\ Quic!Whole(b, r)
             \/ e \in {"err", "broken"} /\ ~Flowing(n)
    <3>1. CASE step = "chunk"
      <4>0. s.read + 1 \in Nat /\ s.held + 1 \in Nat
        BY <1>0
      <4>1. PICK r \in Nat, h \in Nat : r = s.read + 1 /\ h = s.held + 1
        BY <4>0
      <4>2. PICK t : t = [s EXCEPT !.read = r, !.held = h]
        OBVIOUS
      <4>3. qsrv' = [qsrv EXCEPT ![n] = t]
        BY <1>0, <2>1, <3>1, <4>1, <4>2 DEF Quic!Set, Tasks
      <4>4. /\ t \in Tasks /\ t.at = "settle" /\ t.ended = "no" /\ t.read = r /\ t.held = h
            /\ t.keep /\ t.over = s.over /\ t.kind = s.kind /\ t.out = s.out
        <5>1. /\ t \in Tasks /\ t.at = "settle" /\ t.ended = "no" /\ t.read = r
              /\ t.held = h /\ t.kind = s.kind /\ t.out = s.out
          BY <1>0, <1>1, <4>1, <4>2 DEF Tasks
        <5>2. t.keep = s.keep /\ t.over = s.over
          BY <1>0, <1>1, <4>1, <4>2 DEF Tasks
        <5> QED  BY <1>1, <5>1, <5>2
      <4>5. ~s.over /\ qview[n] = "open" => qtaken[n] + h = r
        <5>1. \A i, j, k \in Nat : i + j = k => i + (j + 1) = k + 1
          OBVIOUS
        <5> QED  BY <1>0, <2>3, <4>1, <5>1
      <4> QED  BY <2>2, <3>1, <4>1, <4>3, <4>4, <4>5
    <3>2. CASE step \in {"end", "abort", "broken"}
      <4>1. PICK e \in {"ok", "err", "broken"} :
              e = (IF step = "end" THEN "ok" ELSE IF step = "abort" THEN "err" ELSE "broken")
        OBVIOUS
      <4>2. PICK t : t = [s EXCEPT !.ended = e]
        OBVIOUS
      <4>3. qsrv' = [qsrv EXCEPT ![n] = t]
        BY <2>1, <3>2, <4>1, <4>2 DEF Quic!Set
      <4>4. /\ t \in Tasks /\ t.at = "settle" /\ t.ended = e /\ t.read = s.read /\ t.held = s.held
            /\ t.keep /\ t.over = s.over /\ t.kind = s.kind /\ t.out = s.out
        <5>1. /\ t \in Tasks /\ t.at = "settle" /\ t.ended = e /\ t.read = s.read
              /\ t.held = s.held /\ t.kind = s.kind /\ t.out = s.out
          BY <1>0, <1>1, <4>1, <4>2 DEF Tasks
        <5>2. t.keep = s.keep /\ t.over = s.over
          BY <1>0, <1>1, <4>1, <4>2 DEF Tasks
        <5> QED  BY <1>1, <5>1, <5>2
      <4> QED  BY <1>0, <2>2, <2>3, <3>2, <4>1, <4>3, <4>4
    <3> QED  BY <2>2, <3>1, <3>2
  <2>5. /\ qsrv'[n] = t /\ qstream'[n].up = x /\ qstream'[n].down = qstream[n].down
        /\ TaskStep(n) /\ QuicTypes' /\ Quic!Up(n)' = Quic!Up(n)
    <3>1. PICK y \in Halves : y = qstream[n].down
      BY <1>0
    <3>2. \/ qstream' = [qstream EXCEPT ![n].up = x] /\ y = qstream[n].down
          \/ qstream' = qstream /\ x = qstream[n].up /\ y = qstream[n].down
      BY <2>2, <3>1
    <3>3. CASE qstream' = [qstream EXCEPT ![n].up = x]
      BY <1>0, <1>1, <2>2, <2>4, <3>1, <3>3, TaskTypes
    <3>4. CASE qstream' = qstream /\ x = qstream[n].up
      BY <1>0, <1>1, <2>2, <2>4, <3>1, <3>4, TaskTypes
    <3> QED  BY <2>2, <3>3, <3>4
  <2>6. Flowing(n)' = Flowing(n)
    BY <1>1, <2>2, <2>5 DEF Flowing
  <2>7. Answering(n)'
    BY <1>1, <2>3, <2>4, <2>5 DEF Answering
  <2>8. Flowing(n)' => /\ qsrv'[n].ended = "no" /\ OnlyChunks(qstream'[n].up.frames)
                       /\ qsrv'[n].read + Len(qstream'[n].up.frames) = qsent[n]
    BY <2>4, <2>5, <2>6
  <2> QED  BY <1>0, <1>1, <2>4, <2>5, <2>7, <2>8, WorksOnStream DEF UpInOrder
<1> QED  BY <1>2, <1>3

LEMMA AnswerQuicStep ==
    ASSUME QuicInv, NEW n \in Streams, Quic!Answer(n) PROVE QuicInv'
<1> DEFINE s == qsrv[n]
<1>0. /\ UpInOrder(n) /\ DownInOrder(n) /\ QuicTypes /\ s \in Tasks
      /\ qstream[n].up \in Halves /\ qstream[n].down \in Halves
  BY HalvesOf DEF QuicInv
<1>1. /\ s.at = "settle" /\ s.ended # "no"
      /\ UNCHANGED <<qpc, qsent, qgot, qseen, qupload, current, qtaken, qview, qanswer, qruns, qlink>>
  BY DEF Quic!Answer, Quic!caller
<1>2. CASE Quic!Ends(n)
  BY <1>1, <1>2, TaskEnds DEF Quic!Ends, TaskCloses
<1>3. CASE Quic!Replies(n)
  BY <1>1, <1>3, TaskReplies
<1>4. CASE /\ ~s.over /\ s.kind # "reply" /\ Quic!Up(n) /\ qstream[n].down.end = "open"
           /\ qstream' = [qstream EXCEPT ![n].down = Quic!Put(@, "head")]
           /\ Quic!Set(n, [s EXCEPT !.at = "pump"])
  <2>1. Answering(n) /\ s.out = 0 /\ s.kind = "stream" /\ qanswer[n] \in AllAnswers
    <3>1. Answering(n)
      BY <1>0, <1>1 DEF UpInOrder, Begun
    <3>2. s.kind \in {"none", "reply", "stream"}
      BY <1>0 DEF Tasks
    <3> QED  BY <1>1, <1>4, <3>1, <3>2 DEF Answering
  <2>2. PICK t : t = [s EXCEPT !.at = "pump"]
    OBVIOUS
  <2>3. /\ t \in Tasks /\ t.at = "pump" /\ t.ended = s.ended /\ t.read = s.read /\ t.held = s.held
        /\ t.kind = s.kind /\ t.out = s.out
    BY <1>0, <2>2 DEF Tasks
  <2>4. t.keep = s.keep /\ t.over = s.over
    BY <1>0, <2>2 DEF Tasks
  <2>5. qstream[n].down.frames = <<>> /\ qpc[n] # "reading" /\ qpc[n] # "done" /\ qseen[n] # "whole"
        /\ ~Unopened(n) /\ qstream[n].on # 0 /\ qlink[qstream[n].on] # "unborn"
    BY <1>0, <1>1, <1>4 DEF DownInOrder
  <2>6. PICK y \in Halves : /\ qstream' = [qstream EXCEPT ![n].down = y]
                            /\ y.frames = <<"head">> /\ y.end = "open"
    <3>1. /\ Quic!Put(qstream[n].down, "head") \in Halves
          /\ Quic!Put(qstream[n].down, "head").frames = Append(<<>>, "head")
          /\ Quic!Put(qstream[n].down, "head").end = "open"
      BY <1>0, <1>4, <2>5, HalfOps DEF Kinds
    <3>2. Append(<<>>, "head") = <<"head">>
      OBVIOUS
    <3> QED  BY <1>4, <3>1, <3>2
  <2>7. PICK x \in Halves : x = qstream[n].up
    BY <1>0
  <2>8. /\ qsrv'[n] = t /\ qstream'[n].up = x /\ qstream'[n].down = y /\ TaskStep(n) /\ QuicTypes'
        /\ Quic!Up(n)' = Quic!Up(n) /\ qstream'[n].on = qstream[n].on
    <3>1. qsrv' = [qsrv EXCEPT ![n] = t]
      BY <1>4, <2>2 DEF Quic!Set
    <3> QED  BY <1>0, <1>1, <2>3, <2>6, <2>7, <3>1, TaskTypes
  <2>9. /\ ~Heading(n) /\ ~Heading(n)' /\ Begun(n) /\ Begun(n)' /\ ~Unopened(n)'
        /\ Asking(n)' = Asking(n)
    BY <1>1, <2>3, <2>5, <2>8 DEF Heading, Begun, Unopened, Asking
  <2>10. Answering(n)'
    <3>1. t.ended # "no" /\ ~t.over /\ t.kind = "stream"
      BY <1>1, <1>4, <2>1, <2>3, <2>4
    <3> QED  BY <1>1, <2>1, <2>3, <2>4, <2>8, <3>1 DEF Answering
  <2>11. UpInOrder(n)'
    <3>1. ~(qpc[n] = "body" /\ Quic!Up(n) /\ qstream[n].up.end = "open")
      BY <1>0, <1>1, <2>9 DEF UpInOrder
    <3> QED  BY <1>0, <1>1, <2>3, <2>7, <2>8, <2>9, <2>10, <3>1 DEF UpInOrder
  <2>12. DownInOrder(n)'
    <3>1. /\ y.frames # <<>> /\ Head(y.frames) = "head" /\ Tail(y.frames) = <<>> /\ Len(Tail(y.frames)) = 0
      BY <2>6
    <3>2. IsLine(Tail(y.frames), qanswer[n], 0) /\ OnlyChunks(Tail(y.frames))
      BY <3>1, EmptyLine
    <3> QED  BY <1>0, <1>1, <2>1, <2>3, <2>5, <2>8, <2>9, <3>1, <3>2 DEF DownInOrder
  <2> QED  BY <2>8, <2>11, <2>12, TaskStepEnough
<1> QED  BY <1>1, <1>2, <1>3, <1>4 DEF Quic!Answer

LEMMA PumpPullQuicStep ==
    ASSUME QuicInv, NEW n \in Streams, Quic!PumpPull(n) PROVE QuicInv'
<1> DEFINE s == qsrv[n]
           b == qupload[n]
<1>0. /\ UpInOrder(n) /\ DownInOrder(n) /\ QuicTypes /\ s \in Tasks
      /\ qstream[n].up \in Halves /\ qstream[n].down \in Halves
      /\ s.held \in Nat /\ s.read \in Nat /\ qtaken[n] \in Nat
  BY HalvesOf DEF QuicInv, Tasks
<1>1. /\ s.at = "pump" /\ s.keep /\ qview[n] = "open"
      /\ UNCHANGED <<qpc, qsent, qgot, qseen, qupload, current, qanswer, qruns, qstream, qlink>>
  BY DEF Quic!PumpPull, Quic!caller
<1>2. /\ Answering(n) /\ ~Heading(n) /\ s.ended # "no" /\ ~s.over /\ b # None
      /\ qtaken[n] + s.held = s.read /\ (s.ended = "ok" => Quic!Whole(b, s.read))
  BY <1>0, <1>1 DEF UpInOrder, Begun, Heading, Answering
<1>3. PICK t \in Tasks, r \in Nat, v \in {"open", "whole", "failed"} :
        /\ qsrv' = [qsrv EXCEPT ![n] = t] /\ qtaken' = [qtaken EXCEPT ![n] = r]
        /\ qview' = [qview EXCEPT ![n] = v]
        /\ t.at = "pump" /\ t.ended = s.ended /\ t.read = s.read /\ t.kind = s.kind /\ t.out = s.out
        /\ t.keep = s.keep /\ t.over = s.over
        /\ v = "open" => r + t.held = s.read
        /\ v = "whole" => Quic!Whole(b, r)
  <2>0. /\ qsrv \in [Streams -> Tasks] /\ qtaken \in [Streams -> Nat]
        /\ qview \in [Streams -> {"open", "whole", "failed"}]
    BY <1>0 DEF QuicTypes
  <2>1. CASE s.held > 0
    <3>1. PICK r \in Nat, h \in Nat : r = qtaken[n] + 1 /\ h = s.held - 1 /\ r + h = s.read
      <4>1. \A i, j, k \in Nat : j > 0 /\ i + j = k => i + 1 \in Nat /\ j - 1 \in Nat /\ (i + 1) + (j - 1) = k
        OBVIOUS
      <4>2. qtaken[n] + 1 \in Nat /\ s.held - 1 \in Nat /\ (qtaken[n] + 1) + (s.held - 1) = s.read
        BY <1>0, <1>2, <2>1, <4>1
      <4> QED  BY <4>2
    <3>2. PICK t : t = [s EXCEPT !.held = h]
      OBVIOUS
    <3>3. /\ qsrv' = [qsrv EXCEPT ![n] = t] /\ qtaken' = [qtaken EXCEPT ![n] = r] /\ qview' = qview
      <4>1. /\ Quic!Set(n, [s EXCEPT !.held = s.held - 1])
            /\ qtaken' = [qtaken EXCEPT ![n] = qtaken[n] + 1] /\ qview' = qview
        BY <2>1 DEF Quic!PumpPull
      <4> QED  BY <3>1, <3>2, <4>1 DEF Quic!Set
    <3>4. /\ t \in Tasks /\ t.at = "pump" /\ t.ended = s.ended /\ t.read = s.read /\ t.kind = s.kind
          /\ t.out = s.out /\ t.held = h
      BY <1>0, <1>1, <3>2 DEF Tasks
    <3>5. t.keep = s.keep /\ t.over = s.over
      BY <1>0, <3>2 DEF Tasks
    <3>6. qview' = [qview EXCEPT ![n] = "open"]
      BY <1>1, <2>0, <3>3
    <3> QED  BY <3>1, <3>3, <3>4, <3>5, <3>6
  <2>2. CASE ~(s.held > 0)
    <3>1. PICK v \in {"whole", "failed"} : v = (IF s.ended = "ok" THEN "whole" ELSE "failed")
      OBVIOUS
    <3>2. qview' = [qview EXCEPT ![n] = v] /\ qsrv' = qsrv /\ qtaken' = qtaken
      BY <2>2, <3>1 DEF Quic!PumpPull
    <3>3. qsrv' = [qsrv EXCEPT ![n] = s] /\ qtaken' = [qtaken EXCEPT ![n] = qtaken[n]]
      BY <2>0, <3>2
    <3>4. qtaken[n] = s.read
      BY <1>0, <1>2, <2>2
    <3>5. v = "whole" => Quic!Whole(b, qtaken[n])
      BY <1>2, <3>1, <3>4
    <3> QED  BY <1>0, <1>1, <3>1, <3>2, <3>3, <3>5
  <2> QED  BY <2>1, <2>2
<1>4. /\ qsrv'[n] = t /\ qsrv' \in [Streams -> Tasks] /\ \A m \in Streams \ {n} : qsrv'[m] = qsrv[m]
  BY <1>0, <1>3 DEF QuicTypes
<1>5. /\ qtaken' \in [Streams -> Nat] /\ qtaken'[n] = r
      /\ \A m \in Streams \ {n} : qtaken'[m] = qtaken[m]
  BY <1>0, <1>3 DEF QuicTypes
<1>6. /\ qview' \in [Streams -> {"open", "whole", "failed"}] /\ qview'[n] = v
      /\ \A m \in Streams \ {n} : qview'[m] = qview[m]
  BY <1>0, <1>3 DEF QuicTypes
<1>7. QuicTypes' /\ TaskStep(n)
  BY <1>0, <1>1, <1>4, <1>5, <1>6 DEF QuicTypes, TaskStep
<1>8. /\ ~Heading(n)' /\ Begun(n)' /\ Unopened(n)' = Unopened(n) /\ Asking(n)' = Asking(n)
      /\ Quic!Up(n)' = Quic!Up(n)
  BY <1>1, <1>3, <1>4 DEF Heading, Begun, Unopened, Asking, Quic!Up
<1>9. Answering(n)'
  BY <1>1, <1>2, <1>3, <1>4, <1>5, <1>6 DEF Answering
<1>10. UpInOrder(n)'
  <2>1. ~(qpc[n] = "body" /\ Quic!Up(n) /\ qstream[n].up.end = "open")
    BY <1>0, <1>1, <1>2 DEF UpInOrder
  <2> QED  BY <1>0, <1>1, <1>3, <1>4, <1>5, <1>6, <1>8, <1>9, <2>1 DEF UpInOrder
<1>11. DownInOrder(n)'
  BY <1>0, <1>1, <1>3, <1>4, <1>8 DEF DownInOrder
<1> QED  BY <1>7, <1>10, <1>11, TaskStepEnough

(* The next frame of the answer's body goes behind what is on its way.        *)
LEMMA PumpedInOrder ==
    ASSUME QuicInv, NEW n \in Streams, TaskStep(n), qsrv[n].at = "pump", Quic!Up(n),
           qstream[n].down.end = "open", NEW f \in Kinds,
           qstream'[n].down.frames = Append(qstream[n].down.frames, f),
           \/ /\ f = "chunk" /\ Quic!Sends(qanswer[n], qsrv[n].out)
              /\ qsrv'[n].at = "pump" /\ qsrv'[n].out = qsrv[n].out + 1
           \/ /\ f = Quic!LastFrame(qanswer[n], qsrv[n].out) /\ ~Quic!Sends(qanswer[n], qsrv[n].out)
              /\ qsrv'[n].at = "ended",
           qanswer'[n] = qanswer[n]
    PROVE  DownInOrder(n)'
<1> DEFINE q == qstream[n].down.frames
           p == qstream'[n].down.frames
           a == qanswer[n]
           o == qsrv[n].out
<1>0. /\ DownInOrder(n) /\ QuicTypes /\ q \in Seq(Kinds) /\ qgot[n] \in Nat /\ o \in Nat
      /\ UNCHANGED <<qpc, qsent, qgot, qseen, qupload, current, qlink>> /\ qstream'[n].on = qstream[n].on
  BY HalvesOf DEF QuicInv, TaskStep, Tasks
<1>1. /\ qpc[n] # "done" /\ ~Unopened(n) /\ qseen[n] = "open" /\ qstream[n].on # 0
      /\ qlink[qstream[n].on] # "unborn" /\ ~Unopened(n)' /\ Asking(n)' = Asking(n)
      /\ Quic!Up(n)' = Quic!Up(n) /\ (Asking(n) \/ qpc[n] = "reading") /\ (Asking(n) => qgot[n] = 0)
  <2>1. /\ qpc[n] # "done" /\ ~Unopened(n) /\ qseen[n] = "open" /\ qstream[n].on # 0
        /\ qlink[qstream[n].on] # "unborn"
    BY <1>0 DEF DownInOrder
  <2>2. ~Unopened(n)' /\ Asking(n)' = Asking(n) /\ Quic!Up(n)' = Quic!Up(n)
    BY <1>0, <2>1 DEF Unopened, Asking, Quic!Up
  <2>3. Asking(n) \/ qpc[n] = "reading"
    BY <1>0, <2>1 DEF Unopened, Asking, QuicTypes
  <2>4. Asking(n) => qgot[n] = 0
    BY <1>0, <2>1 DEF Asking, DownInOrder
  <2> QED  BY <2>1, <2>2, <2>3, <2>4
<1>2. CASE Asking(n)
  <2>1. /\ q # <<>> /\ Head(q) = "head" /\ a \in AllAnswers /\ IsLine(Tail(q), a, 0)
        /\ OnlyChunks(Tail(q)) /\ Len(Tail(q)) = o
    BY <1>0, <1>2 DEF DownInOrder
  <2>2. /\ Tail(q) \in Seq(Kinds) /\ p # <<>> /\ Head(p) = "head" /\ Tail(p) = Append(Tail(q), f)
    BY <1>0, <2>1, OnTheWay
  <2>3. 0 + Len(Tail(q)) = o
    BY <1>0, <2>1
  <2>4. /\ IsLine(Tail(p), a, 0) /\ Len(Tail(p)) = o + 1
        /\ f = "chunk" /\ Quic!Sends(a, o) => OnlyChunks(Tail(p))
    BY <2>1, <2>2, <2>3, LineGoesOn
  <2>5. qpc'[n] # "reading" /\ qpc'[n] # "done" /\ qseen'[n] = "open" /\ qgot'[n] = 0
    BY <1>0, <1>1, <1>2 DEF Asking
  <2> QED  BY <1>0, <1>1, <1>2, <2>1, <2>2, <2>4, <2>5 DEF DownInOrder
<1>3. CASE qpc[n] = "reading"
  <2>1. /\ a \in AllAnswers /\ qgot[n] <= a.gives /\ IsLine(q, a, qgot[n])
        /\ qgot[n] + Len(q) = o /\ OnlyChunks(q)
    BY <1>0, <1>3 DEF DownInOrder
  <2>2. /\ IsLine(p, a, qgot[n]) /\ Len(p) = Len(q) + 1 /\ Len(q) \in Nat
        /\ f = "chunk" /\ Quic!Sends(a, o) => OnlyChunks(p)
    BY <1>0, <2>1, LineGoesOn
  <2>3. qgot[n] + Len(p) = o + 1
    <3>1. \A i, j \in Nat : i + (j + 1) = (i + j) + 1
      OBVIOUS
    <3> QED  BY <1>0, <2>1, <2>2, <3>1
  <2>4. qpc'[n] = "reading" /\ ~Asking(n) /\ qseen'[n] = "open" /\ qgot'[n] = qgot[n]
    BY <1>0, <1>1, <1>3 DEF Asking
  <2> QED  BY <1>0, <1>1, <1>3, <2>1, <2>2, <2>3, <2>4 DEF DownInOrder
<1> QED  BY <1>1, <1>2, <1>3

LEMMA PumpQuicStep ==
    ASSUME QuicInv, NEW n \in Streams, Quic!Pump(n) PROVE QuicInv'
<1> DEFINE s == qsrv[n]
           a == qanswer[n]
           down == qstream[n].down
<1>0. /\ UpInOrder(n) /\ DownInOrder(n) /\ QuicTypes /\ s \in Tasks
      /\ qstream[n].up \in Halves /\ down \in Halves /\ s.out \in Nat
  BY HalvesOf DEF QuicInv, Tasks
<1>1. /\ s.at = "pump"
      /\ UNCHANGED <<qpc, qsent, qgot, qseen, qupload, current, qtaken, qview, qanswer, qruns, qlink>>
  BY DEF Quic!Pump, Quic!caller
<1>2. CASE Quic!Ends(n)
  BY <1>1, <1>2, TaskEnds DEF Quic!Ends, TaskCloses
<1>3. ASSUME NEW f \in Kinds, NEW y \in Halves, NEW t \in Tasks,
             Quic!Up(n), down.end = "open", qsrv' = [qsrv EXCEPT ![n] = t],
             qstream' = [qstream EXCEPT ![n].down = y], y.frames = Append(down.frames, f),
             \/ /\ f = "chunk" /\ Quic!Sends(a, s.out) /\ t.at = "pump" /\ t.out = s.out + 1
                /\ t.ended = s.ended /\ t.read = s.read /\ t.held = s.held /\ t.kind = s.kind
                /\ t.keep = s.keep /\ t.over = s.over
             \/ f = Quic!LastFrame(a, s.out) /\ ~Quic!Sends(a, s.out) /\ t.at = "ended"
      PROVE  QuicInv'
  <2>1. PICK x \in Halves : x = qstream[n].up
    BY <1>0
  <2>2. /\ qsrv'[n] = t /\ qstream'[n].up = x /\ qstream'[n].down = y /\ TaskStep(n) /\ QuicTypes'
        /\ Quic!Up(n)' = Quic!Up(n)
    BY <1>0, <1>1, <1>3, <2>1, TaskTypes
  <2>3. DownInOrder(n)'
    BY <1>1, <1>3, <2>2, PumpedInOrder
  <2>4. UpInOrder(n)'
    <3>1. Begun(n)' => Answering(n)'
      <4>1. Answering(n)
        BY <1>0, <1>1 DEF UpInOrder, Begun
      <4>2. CASE t.at = "ended"
        BY <2>2, <4>2 DEF Begun
      <4>3. CASE /\ t.at = "pump" /\ t.ended = s.ended /\ t.read = s.read /\ t.held = s.held
                 /\ t.kind = s.kind /\ t.keep = s.keep /\ t.over = s.over
        BY <1>1, <2>1, <2>2, <4>1, <4>3 DEF Answering
      <4> QED  BY <1>3, <4>2, <4>3
    <3>2. ~(qpc[n] = "body" /\ Quic!Up(n) /\ qstream[n].up.end = "open")
      BY <1>0, <1>1 DEF UpInOrder, Heading
    <3>3. ~Heading(n)' /\ qsrv'[n].at \in {"pump", "ended"}
      BY <1>3, <2>2 DEF Heading
    <3> QED  BY <1>0, <1>1, <2>1, <2>2, <3>1, <3>2, <3>3 DEF UpInOrder
  <2> QED  BY <2>2, <2>3, <2>4, TaskStepEnough
<1>4. CASE /\ Quic!Up(n) /\ down.end = "open" /\ Quic!Sends(a, s.out)
           /\ qstream' = [qstream EXCEPT ![n].down = Quic!Put(@, "chunk")]
           /\ Quic!Set(n, [s EXCEPT !.out = @ + 1])
  <2>1. PICK y \in Halves : y = Quic!Put(down, "chunk") /\ y.frames = Append(down.frames, "chunk")
    BY <1>0, HalfOps DEF Kinds
  <2>2. s.out + 1 \in Nat
    BY <1>0
  <2>3. PICK t : t = [s EXCEPT !.out = s.out + 1]
    OBVIOUS
  <2>4. /\ t \in Tasks /\ t.at = "pump" /\ t.out = s.out + 1 /\ t.ended = s.ended /\ t.read = s.read
        /\ t.held = s.held /\ t.kind = s.kind
    BY <1>0, <1>1, <2>2, <2>3 DEF Tasks
  <2>5. t.keep = s.keep /\ t.over = s.over
    BY <1>0, <2>2, <2>3 DEF Tasks
  <2>6. qsrv' = [qsrv EXCEPT ![n] = t]
    BY <1>4, <2>3 DEF Quic!Set
  <2>7. qstream' = [qstream EXCEPT ![n].down = y] /\ "chunk" \in Kinds
    BY <1>4, <2>1 DEF Kinds
  <2> QED  BY <1>3, <1>4, <2>1, <2>4, <2>5, <2>6, <2>7
<1>5. CASE /\ Quic!Up(n) /\ down.end = "open" /\ ~Quic!Sends(a, s.out)
           /\ qstream' = [qstream EXCEPT
                            ![n].down = Quic!Finished(Quic!Put(@, Quic!LastFrame(a, s.out)))]
           /\ Quic!Set(n, [s EXCEPT !.at = "ended"])
  <2>1. PICK f \in Kinds : f = Quic!LastFrame(a, s.out)
    BY SameFraming DEF Kinds
  <2>2. PICK y \in Halves : y = Quic!Finished(Quic!Put(down, f)) /\ y.frames = Append(down.frames, f)
    <3>1. Quic!Put(down, f) \in Halves /\ Quic!Put(down, f).frames = Append(down.frames, f)
      BY <1>0, <2>1, HalfOps
    <3> QED  BY <3>1, HalfOps
  <2>3. PICK t : t = [s EXCEPT !.at = "ended"]
    OBVIOUS
  <2>4. t \in Tasks /\ t.at = "ended"
    BY <1>0, <2>3 DEF Tasks
  <2>5. qsrv' = [qsrv EXCEPT ![n] = t] /\ qstream' = [qstream EXCEPT ![n].down = y]
    BY <1>5, <2>1, <2>2, <2>3 DEF Quic!Set
  <2> QED  BY <1>3, <1>5, <2>1, <2>2, <2>4, <2>5
<1> QED  BY <1>1, <1>2, <1>4, <1>5 DEF Quic!Pump

LEMMA AgeCloseStep ==
    ASSUME QuicInv, NEW k \in 1..Links, Quic!Age(k) \/ Quic!Close(k) PROVE QuicInv'
<1>1. PICK w \in {"aged", "dead"} :
        qlink' = [qlink EXCEPT ![k] = w] /\ qlink[k] \in {"live", "aged"}
  BY DEF Quic!Age, Quic!Close
<1>2. UNCHANGED <<qpc, qsent, qgot, qseen, qupload, current, qtaken, qview, qanswer, qruns, qsrv, qstream>>
  BY DEF Quic!Age, Quic!Close, Quic!caller, Quic!door
<1>3. QuicTypes' /\ NoRevival
  BY <1>1, <1>2 DEF QuicInv, QuicTypes, NoRevival
<1>4. \A m \in Streams : SameCall(m)
  BY <1>2 DEF SameCall
<1> QED  BY <1>3, <1>4, CallStays DEF QuicInv

(* The connection of call m breaks: what was on the way is lost.              *)
LEMMA LostOnTheWay ==
    ASSUME QuicTypes, NEW m \in Streams, UpInOrder(m), DownInOrder(m), NoRevival,
           UNCHANGED <<qpc, qsent, qgot, qseen, qupload, current, qtaken, qview, qanswer, qruns, qsrv>>,
           qstream'[m].on = qstream[m].on, qstream'[m].up.frames = <<>>, qstream'[m].down.frames = <<>>,
           qstream'[m].down.end = qstream[m].down.end, ~Quic!Up(m)'
    PROVE  UpInOrder(m)' /\ DownInOrder(m)'
<1>1. /\ Unopened(m)' = Unopened(m) /\ Asking(m)' = Asking(m) /\ Heading(m)' = Heading(m)
      /\ Begun(m)' = Begun(m)
  BY DEF Unopened, Asking, Heading, Begun
<1>2. Answering(m) => Answering(m)'
  <2>1. IsLine(<<>>, qupload[m], qsrv[m].read)
    BY EmptyLine
  <2> QED  BY <2>1 DEF Answering
<1>3. UpInOrder(m)'
  BY <1>1, <1>2 DEF UpInOrder
<1>4. DownInOrder(m)'
  <2>1. IsLine(<<>>, qanswer[m], qgot[m])
    BY EmptyLine
  <2>2. qstream'[m].on # 0 => qlink'[qstream'[m].on] # "unborn"
    BY StaysDown DEF DownInOrder
  <2> QED  BY <1>1, <2>1, <2>2 DEF DownInOrder
<1> QED  BY <1>3, <1>4

LEMMA BreakStep ==
    ASSUME QuicInv, NEW k \in 1..Links, Quic!Break(k) PROVE QuicInv'
<1>1. /\ qlink[k] \in {"live", "aged"} /\ qlink' = [qlink EXCEPT ![k] = "dead"]
      /\ qstream' = [n \in Streams |-> IF qstream[n].on = k
                      THEN [qstream[n] EXCEPT !.up.frames = <<>>, !.down.frames = <<>>]
                      ELSE qstream[n]]
      /\ UNCHANGED <<qpc, qsent, qgot, qseen, qupload, current, qtaken, qview, qanswer, qruns, qsrv>>
  BY DEF Quic!Break, Quic!caller, Quic!door
<1>2. NoRevival
  BY <1>1 DEF QuicInv, QuicTypes, NoRevival
<1>3. ASSUME NEW m \in Streams, qstream[m].on # k PROVE qstream'[m] = qstream[m]
  BY <1>1, <1>3
<1>4. ASSUME NEW m \in Streams, qstream[m].on = k
      PROVE  /\ qstream'[m] \in OnStream /\ qstream'[m].on = k
             /\ qstream'[m].up.frames = <<>> /\ qstream'[m].down.frames = <<>>
             /\ qstream'[m].down.end = qstream[m].down.end /\ ~Quic!Up(m)'
  <2>1. /\ qstream[m] \in OnStream /\ qstream[m].up \in Halves /\ qstream[m].down \in Halves
    BY HalvesOf DEF QuicInv
  <2>2. PICK x, y : x = [qstream[m].up EXCEPT !.frames = <<>>] /\ y = [qstream[m].down EXCEPT !.frames = <<>>]
    OBVIOUS
  <2>3. x \in Halves /\ y \in Halves /\ x.frames = <<>> /\ y.frames = <<>> /\ y.end = qstream[m].down.end
    <3>1. <<>> \in Seq(Kinds)
      OBVIOUS
    <3>2. /\ x = [frames |-> <<>>, end |-> qstream[m].up.end]
          /\ y = [frames |-> <<>>, end |-> qstream[m].down.end]
      BY <2>1, <2>2 DEF Halves
    <3>3. qstream[m].up.end \in {"open", "fin", "reset", "stopped"}
          /\ qstream[m].down.end \in {"open", "fin", "reset", "stopped"}
      BY <2>1 DEF Halves
    <3> QED  BY <3>1, <3>2, <3>3 DEF Halves
  <2>4. qstream'[m] = [qstream[m] EXCEPT !.up = x, !.down = y]
    <3>1. qstream'[m] = [qstream[m] EXCEPT !.up.frames = <<>>, !.down.frames = <<>>]
      BY <1>1, <1>4
    <3> QED  BY <2>1, <2>2, <3>1 DEF OnStream
  <2>5. qstream'[m] \in OnStream /\ qstream'[m].on = k /\ qstream'[m].up = x /\ qstream'[m].down = y
    BY <1>4, <2>1, <2>3, <2>4 DEF OnStream
  <2>6. qlink'[k] = "dead"
    BY <1>1 DEF QuicInv, QuicTypes
  <2> QED  BY <2>3, <2>5, <2>6 DEF Quic!Up
<1>5. QuicTypes'
  <2>1. \A m \in Streams : qstream'[m] \in OnStream
    BY <1>3, <1>4 DEF QuicInv, QuicTypes
  <2>2. qstream' \in [Streams -> OnStream]
    BY <1>1, <2>1
  <2>3. qlink' \in [1..Links -> {"unborn", "live", "aged", "dead"}]
    BY <1>1 DEF QuicInv, QuicTypes
  <2> QED  BY <1>1, <2>2, <2>3 DEF QuicInv, QuicTypes
<1>6. ASSUME NEW m \in Streams PROVE UpInOrder(m)' /\ DownInOrder(m)'
  <2>1. CASE qstream[m].on # k
    <3>1. SameCall(m)
      BY <1>1, <1>3, <2>1 DEF SameCall
    <3> QED  BY <1>2, <3>1, CallStays DEF QuicInv
  <2>2. CASE qstream[m].on = k
    BY <1>1, <1>2, <1>4, <2>2, LostOnTheWay DEF QuicInv
  <2> QED  BY <2>1, <2>2
<1> QED  BY <1>5, <1>6 DEF QuicInv

LEMMA QuicStep == QuicInv /\ [Quic!Next]_(Quic!vars) => QuicInv'
<1> SUFFICES ASSUME QuicInv, [Quic!Next]_(Quic!vars) PROVE QuicInv'
  OBVIOUS
<1>1. ASSUME NEW n \in Streams,
             Quic!Start(n) \/ Quic!CallerStep(n) \/ Quic!Late(n) \/ Quic!LetGo(n)
      PROVE  QuicInv'
  BY <1>1, QuicCallerStep
<1>2. ASSUME NEW n \in Streams, Quic!DoorStep(n) \/ Quic!Demand(n) \/ Quic!PumpPull(n)
      PROVE  QuicInv'
  BY <1>2, AcceptStep, HeadEndings, ReadHeadQuicStep, DemandQuicStep, ResolveQuicStep, PullQuicStep,
     StopUnreadStep, SettleQuicStep, AnswerQuicStep, PumpPullQuicStep, PumpQuicStep DEF Quic!DoorStep
<1>3. ASSUME NEW k \in 1..Links, Quic!Age(k) \/ Quic!Close(k) \/ Quic!Break(k) PROVE QuicInv'
  BY <1>3, AgeCloseStep, BreakStep
<1>4. CASE UNCHANGED Quic!vars
  <2>1. \A m \in Streams : SameCall(m)
    BY <1>4 DEF Quic!vars, Quic!caller, Quic!door, SameCall
  <2>2. QuicTypes' /\ NoRevival
    BY <1>4 DEF Quic!vars, Quic!caller, Quic!door, QuicInv, QuicTypes, NoRevival
  <2> QED  BY <2>1, <2>2, CallStays DEF QuicInv
<1> QED  BY <1>1, <1>2, <1>3, <1>4 DEF Quic!Next

LEMMA QuicKeeps == QuicInv => Quic!StreamedCallsHold
<1> SUFFICES ASSUME QuicInv PROVE Quic!StreamedCallsHold
  OBVIOUS
<1>1. Quic!StreamsAreWhole
  BY DEF QuicInv, UpInOrder, DownInOrder, Quic!StreamsAreWhole
<1>2. Quic!RefusalsArrive
  <2> SUFFICES ASSUME NEW n \in Streams, qsrv[n].at = "replied", Quic!Up(n) PROVE qseen[n] # "failed"
    BY DEF Quic!RefusalsArrive
  <2>1. Asking(n) => qpc[n] # "done"
    BY DEF Asking
  <2> QED  BY <2>1 DEF QuicInv, DownInOrder
<1>3. Quic!NotReplayed
  BY DEF QuicInv, UpInOrder, Quic!NotReplayed
<1> QED  BY <1>1, <1>2, <1>3 DEF Quic!StreamedCallsHold

(* The same on QUIC, and a refusal that was written to a caller whose         *)
(* connection stands is what it reads (CallStream::drop, Inflow::settle).     *)
THEOREM StreamedOverQuic == Quic!Spec => []Quic!StreamedCallsHold
<1>1. Quic!Init => QuicInv
  BY QuicStart
<1>2. QuicInv /\ [Quic!Next]_(Quic!vars) => QuicInv'
  BY QuicStep
<1>3. QuicInv => Quic!StreamedCallsHold
  BY QuicKeeps
<1> QED  BY <1>1, <1>2, <1>3, PTL DEF Quic!Spec

(* A behaviour of the instance is one of either wire, with its own constants. *)
LEMMA PartsOfTheRun == MCSpec => Stream!Spec /\ Quic!Spec
<1>1. MCInit => Stream!Init /\ Quic!Init
  BY DEF MCInit
<1>2. [MCNext]_all => [Stream!Next]_(Stream!vars) /\ [Quic!Next]_(Quic!vars)
  <2> SUFFICES ASSUME [MCNext]_all PROVE [Stream!Next]_(Stream!vars) /\ [Quic!Next]_(Quic!vars)
    OBVIOUS
  <2>1. UNCHANGED streamVars => UNCHANGED Stream!vars
    BY DEF streamVars, Stream!vars
  <2>2. UNCHANGED quicVars => UNCHANGED Quic!vars
    BY DEF quicVars, Quic!vars, Quic!caller, Quic!door
  <2>3. CASE UNCHANGED all
    BY <2>1, <2>2, <2>3 DEF all
  <2>4. CASE Stream!Next /\ UNCHANGED quicVars
    BY <2>2, <2>4
  <2>5. CASE Quic!Next /\ UNCHANGED streamVars
    BY <2>1, <2>5
  <2>6. CASE UNCHANGED <<streamVars, quicVars>>
    BY <2>1, <2>2, <2>6
  <2> QED  BY <2>3, <2>4, <2>5, <2>6 DEF MCNext
<1> QED  BY <1>1, <1>2, PTL DEF MCSpec, Stream!Spec, Quic!Spec

(* Whatever is streamed on either wire, all of it comes or its reader is told *)
(* so, and no call is dispatched twice (issue_streamed and answer_streamed of *)
(* both transports).                                                          *)
THEOREM BodiesComeWhole == Stream!Spec /\ Quic!Spec => []BodiesAreWhole
<1>1. Stream!BodiesAreWhole /\ Quic!StreamedCallsHold => BodiesAreWhole
  BY DEF BodiesAreWhole
<1> QED  BY <1>1, StreamedOverTheSocket, StreamedOverQuic, PTL

=============================================================================
