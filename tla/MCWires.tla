------------------------------- MODULE MCWires -------------------------------
(* The wires with every task and thread running on, each a behaviour of its   *)
(* own: two calls over a QUIC connection whose door answers one at a time; two*)
(* streamed exchanges on the socket, or one on QUIC, with bodies longer than  *)
(* the wire holds either way; or two clients of an HTTP door with room for    *)
(* one.                                                                       *)
EXTENDS Naturals, TLC

CONSTANTS
    put, get, NoCall, Busy,     \* QUIC
    g1, g2, NoLen, None,        \* the socket
    h1, h2                      \* HTTP

VARIABLES
    part,       \* "quic", "socket" or "http"
    qpc, tries, stream, qruns, qanswer, current, stale, suspect, qlink,
    call, pc, link, dialed, sent, got, seen, upload, taken, view, answer, runs,
    c2s, s2c, srv,
    spc, sstream, ssent, sgot, sseen, supload, staken, sview, sanswer, sruns, ssrv,
    scurrent, sstale, slink,
    listener, faults, at, permit, in, todo, asked, gone, cur, taking, disk, held, ans, written,
    closing, answered

quicVars == <<qpc, tries, stream, qruns, qanswer, current, stale, suspect, qlink>>
socketVars == <<call, pc, link, dialed, sent, got, seen, upload, taken, view, answer,
                runs, c2s, s2c, srv>>
streamVars == <<spc, sstream, ssent, sgot, sseen, supload, staken, sview, sanswer, sruns, ssrv,
                scurrent, sstale, slink>>
httpVars == <<listener, faults, at, permit, in, todo, asked, gone, cur, taking, disk, held, ans,
              written, closing, answered>>
vars == <<part, quicVars, socketVars, streamVars, httpVars>>

Quic == INSTANCE QuicWire WITH
    Calls <- {put, get}, Mutating <- {put}, Patient <- {put, get}, MaxCalls <- 1, Links <- 2,
    Refused <- Busy, pc <- qpc, runs <- qruns, answer <- qanswer, link <- qlink

Socket == INSTANCE IpcStream WITH
    Conns <- {g1, g2}, NCalls <- 2, Wire <- 1, MaxHeld <- 1,
    Uploads <- {[len |-> NoLen, gives |-> 2, fails |-> FALSE]},
    Answers <- {[len |-> 2, gives |-> 2, fails |-> FALSE]}

Stream == INSTANCE QuicStream WITH
    Calls <- {put}, Links <- 1, MaxCalls <- 1, Window <- 1, MaxHeld <- 1,
    Uploads <- put :> {[len |-> NoLen, gives |-> 2, fails |-> FALSE]},
    Answers <- put :> {[len |-> 2, gives |-> 2, fails |-> FALSE]},
    pc <- spc, stream <- sstream, sent <- ssent, got <- sgot, seen <- sseen, upload <- supload,
    taken <- staken, view <- sview, answer <- sanswer, runs <- sruns, srv <- ssrv,
    current <- scurrent, stale <- sstale, link <- slink

Http == INSTANCE WebDoor WITH
    Conns <- {h1, h2}, MaxConnections <- 1, MaxRequests <- 1,
    Requests <- {[target |-> "good", framing |-> "length", bytes |-> 2, upload |-> TRUE,
                  most |-> 2, admitted |-> TRUE, keep |-> TRUE],
                 [target |-> "good", framing |-> "none", bytes |-> 0, upload |-> FALSE,
                  most |-> NoLen, admitted |-> TRUE, keep |-> TRUE]},
    Answers <- {[len |-> NoLen, gives |-> 1, fails |-> FALSE, range |-> FALSE]},
    MaxBody <- 1, StoreBound <- 3, MaxFaults <- 1, Wire <- 2, got <- taking, sent <- written

ASSUME Socket!StreamAssumption /\ Stream!QuicStreamAssumption

Init ==
    /\ part \in {"quic", "socket", "streams", "http"}
    /\ Quic!Init /\ Socket!Init /\ Stream!Init /\ Http!DoorInit

Next ==
    /\ part' = part
    /\ \/ part = "quic" /\ Quic!Next /\ UNCHANGED <<socketVars, streamVars, httpVars>>
       \/ part = "socket" /\ Socket!Next /\ UNCHANGED <<quicVars, streamVars, httpVars>>
       \/ part = "streams" /\ Stream!Next /\ UNCHANGED <<quicVars, socketVars, httpVars>>
       \/ part = "http" /\ Http!DoorNext /\ UNCHANGED <<quicVars, socketVars, streamVars>>

Spec == Init /\ [][Next]_vars

(* Each wire under its own fairness. *)
InQuic(A) == part = "quic" /\ A
InSocket(A) == part = "socket" /\ A
InStream(A) == part = "streams" /\ A
InHttp(A) == part = "http" /\ A

FairSpec ==
    /\ Spec
    /\ WF_quicVars(InQuic(\E c \in {put, get} : Quic!Round(c)))
    /\ WF_quicVars(InQuic(\E c \in {put, get}, a \in {1, 2} : Quic!Served(c, a)))
    /\ WF_quicVars(InQuic(\E k \in {1, 2} : Quic!CloseAged(k)))
    /\ WF_socketVars(InSocket(Socket!CallerStep))
    /\ \A g \in {g1, g2} : WF_socketVars(InSocket(Socket!ServerStep(g)))
    /\ WF_streamVars(InStream(Stream!CallerStep(put)))
    /\ WF_streamVars(InStream(Stream!DoorStep(put)))
    /\ WF_httpVars(InHttp(\E h \in {h1, h2} : Http!AcceptNext(h)))
    /\ WF_httpVars(InHttp(Http!BackOff))
    /\ \A h \in {h1, h2} : WF_httpVars(InHttp(Http!DoorStep(h)))

(* An aged QUIC connection's calls end and it closes, and a streamed exchange *)
(* ends on either wire, no deadline counted on.                               *)
ExchangesEnd == Quic!AgedDrains /\ Socket!ExchangeEnds /\ Stream!StreamsEnd
EveryConnectionEnds == Http!EveryConnectionEnds
=============================================================================
