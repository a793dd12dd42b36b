------------------------------- MODULE IpcLink -------------------------------
(* The Unix-socket client transport of ikigai-ipc and the server thread at    *)
(* the other end of each connection (src/crates/ikigai-ipc/src/lib.rs).       *)
(*                                                                            *)
(* One IpcResolver is shared by many callers.  Its mutex guards the one       *)
(* connection and serialises whole round trips, because replies are matched   *)
(* to calls by POSITION: there is no correlation id on the wire.  A dead      *)
(* connection is dropped and redialed, a call may be replayed once on the     *)
(* fresh one, and a connection that missed a deadline is dropped unreplayed.  *)
(*                                                                            *)
(* A frame is one sequence element: read_exact hands over whole frames only,  *)
(* so a partly written frame is a frame that never arrives.                   *)
EXTENDS Naturals, Sequences

CONSTANTS
    Calls,      \* the calls issued through the resolver, one thread each
    Mutating,   \* the calls whose verb is Sink or Delete
    Conns,      \* connection identities, reused once both ends are closed
    None        \* no call, or no connection

ASSUME LinkAssumption ==
    /\ Mutating \subseteq Calls
    /\ None \notin Calls \cup Conns

VARIABLES
    \* The resolver.
    link,       \* Mutex<Option<Link>>: the live connection or None
    holder,     \* which caller holds that mutex
    \* One round trip per caller.
    pc,         \* where it is in round_trip_under
    on,         \* the connection its exchange runs on
    dialed,     \* dialed_this_call
    attempt,    \* 1, or 2 for the replay
    expired,    \* its deadline, or the timeout it runs under, has passed
    result,     \* how it ended: "none" until it has
    answer,     \* whose reply it was handed
    dials,      \* history: how many handshakes it ran
    \* The connections and the server.
    client,     \* the client's end: "open" or "closed"
    c2s, s2c,   \* frames in flight
    server,     \* the serving thread's place in serve_connection
    serving,    \* the call that thread is dispatching
    executed,   \* how often the kernel has dispatched each call
    up          \* whether the server process is accepting

callVars == <<pc, on, dialed, attempt, expired, result, answer, dials>>
connVars == <<client, c2s, s2c, server, serving>>
vars == <<link, holder, callVars, connVars, executed, up>>

Init ==
    /\ link = None
    /\ holder = None
    /\ pc = [c \in Calls |-> "new"]
    /\ on = [c \in Calls |-> None]
    /\ dialed = [c \in Calls |-> FALSE]
    /\ attempt = [c \in Calls |-> 1]
    /\ expired = [c \in Calls |-> FALSE]
    /\ result = [c \in Calls |-> "none"]
    /\ answer = [c \in Calls |-> None]
    /\ dials = [c \in Calls |-> 0]
    /\ client = [k \in Conns |-> "closed"]
    /\ c2s = [k \in Conns |-> <<>>]
    /\ s2c = [k \in Conns |-> <<>>]
    /\ server = [k \in Conns |-> "closed"]
    /\ serving = [k \in Conns |-> None]
    /\ executed = [c \in Calls |-> 0]
    /\ up = TRUE

-----------------------------------------------------------------------------
(* The client. *)

(* round_trip_within: the deadline starts before the mutex is taken. *)
Submit(c) ==
    /\ pc[c] = "new"
    /\ pc' = [pc EXCEPT ![c] = "lock"]
    /\ UNCHANGED <<link, holder, on, dialed, attempt, expired, result, answer, dials,
                   connVars, executed, up>>

(* Deadline::arm finds no time left from here on. *)
Expire(c) ==
    /\ pc[c] \notin {"new", "done"}
    /\ ~expired[c]
    /\ expired' = [expired EXCEPT ![c] = TRUE]
    /\ UNCHANGED <<link, holder, pc, on, dialed, attempt, result, answer, dials, connVars, executed, up>>

(* Where a caller starts once it has the guard: it heals an empty link first. *)
UnhealedStart == "write"
Start == IF link = None THEN "dial" ELSE "write"

(* self.stream.lock(). *)
Lock(c) ==
    /\ pc[c] = "lock"
    /\ holder = None
    /\ holder' = c
    /\ dialed' = [dialed EXCEPT ![c] = link = None]
    /\ on' = [on EXCEPT ![c] = link]
    /\ pc' = [pc EXCEPT ![c] = Start]
    /\ UNCHANGED <<link, attempt, expired, result, answer, dials, connVars,
                   executed, up>>

(* The caller returns; dropping its guard frees the mutex. *)
ReturnHolding(c) == UNCHANGED holder
Release(c) == holder' = None

Return(c, how) ==
    /\ pc' = [pc EXCEPT ![c] = "done"]
    /\ on' = [on EXCEPT ![c] = None]
    /\ result' = [result EXCEPT ![c] = how]
    /\ Release(c)

(* A handshake that succeeds: connect, the server's uid, the two hellos. *)
Handshake(c, k) ==
    /\ up
    /\ ~expired[c]
    /\ client[k] = "closed" /\ server[k] = "closed"
    /\ client' = [client EXCEPT ![k] = "open"]
    /\ server' = [server EXCEPT ![k] = "reading"]
    /\ c2s' = [c2s EXCEPT ![k] = <<>>]
    /\ s2c' = [s2c EXCEPT ![k] = <<>>]
    /\ on' = [on EXCEPT ![c] = k]
    /\ dials' = [dials EXCEPT ![c] = @ + 1]
    /\ pc' = [pc EXCEPT ![c] = "write"]
    /\ UNCHANGED <<holder, dialed, expired, result, answer, serving, executed, up>>

(* The heal on use: the first dial goes into the guard, the replay's does not. *)
Dial(c, k) ==
    /\ pc[c] = "dial"
    /\ Handshake(c, k)
    /\ link' = k
    /\ UNCHANGED attempt

Redial(c, k) ==
    /\ pc[c] = "redial"
    /\ Handshake(c, k)
    /\ attempt' = [attempt EXCEPT ![c] = 2]
    /\ UNCHANGED link

(* Out of time before the first syscall, refused, hung up on, or another      *)
(* version: the error leaves through `?` and the guard stays empty.           *)
DialFails(c) ==
    /\ pc[c] \in {"dial", "redial"}
    /\ dials' = [dials EXCEPT ![c] = @ + 1]
    /\ \E how \in IF expired[c] THEN {"timeout"}
                  ELSE {"timeout", "unavailable", "endpoint"} : Return(c, how)
    /\ UNCHANGED <<link, dialed, attempt, expired, answer, connVars, executed, up>>

(* write_message, on an end that still has a peer. *)
Write(c) ==
    LET k == on[c] IN
    /\ pc[c] = "write"
    /\ ~expired[c]
    /\ server[k] # "closed"
    /\ c2s' = [c2s EXCEPT ![k] = Append(@, c)]
    /\ pc' = [pc EXCEPT ![c] = "read"]
    /\ UNCHANGED <<link, holder, on, dialed, attempt, expired, result, answer,
                   dials, client, s2c, server, serving, executed, up>>

(* A write failure proves the frame never arrived; a read failure leaves open *)
(* whether the call ran, so only the read-only calls are replayed after it.   *)
ReplayAnything(phase, c) == TRUE
ReplayMayFollow(phase, c) == phase = "write" \/ c \notin Mutating

(* One redial a call: not if it dialed on entry, not after a replay. *)
RedialAgain(c) == attempt[c] = 1
MayRedial(c) == attempt[c] = 1 /\ ~dialed[c]

DropLink(c) ==
    /\ link' = None
    /\ client' = [client EXCEPT ![on[c]] = "closed"]

(* is_dead_connection: drop the link first, then replay once or give up.  A   *)
(* reply already received is read before the end of the stream is.            *)
Dead(c) ==
    /\ pc[c] \in {"write", "read"}
    /\ ~expired[c]
    /\ server[on[c]] = "closed"
    /\ pc[c] = "read" => s2c[on[c]] = <<>>
    /\ DropLink(c)
    /\ IF MayRedial(c) /\ ReplayMayFollow(pc[c], c)
       THEN /\ pc' = [pc EXCEPT ![c] = "redial"]
            /\ on' = [on EXCEPT ![c] = None]
            /\ UNCHANGED <<holder, result>>
       ELSE Return(c, "unavailable")
    /\ UNCHANGED <<dialed, attempt, expired, answer, dials, c2s, s2c, server,
                   serving, executed, up>>

(* missed_a_deadline spends the connection, and nothing is replayed. *)
KeepMissedLink(c) == UNCHANGED <<link, client>>
SpendLink(c) == DropLink(c)

(* Every read and every write is armed with the time left. *)
ArmedWrite(c) == pc[c] = "write"
Armed(c) == pc[c] \in {"write", "read"}

Miss(c) ==
    /\ Armed(c)
    /\ expired[c]
    /\ SpendLink(c)
    /\ Return(c, "timeout")
    /\ UNCHANGED <<dialed, attempt, expired, answer, dials, c2s, s2c, server,
                   serving, executed, up>>

(* read_message.  An undecodable reply is neither death nor a miss: its frame *)
(* was read whole, so the connection is kept.  A replay's becomes the link.   *)
Read(c) ==
    LET k == on[c] IN
    /\ pc[c] = "read"
    /\ ~expired[c]
    /\ s2c[k] # <<>>
    /\ s2c' = [s2c EXCEPT ![k] = Tail(@)]
    /\ link' = k
    /\ IF Head(s2c[k]).decodes
       THEN /\ Return(c, "ok")
            /\ answer' = [answer EXCEPT ![c] = Head(s2c[k]).of]
       ELSE /\ Return(c, "endpoint")
            /\ UNCHANGED answer
    /\ UNCHANGED <<dialed, attempt, expired, dials, client, c2s, server, serving,
                   executed, up>>

-----------------------------------------------------------------------------
(* The server: one thread per connection. *)

ServeRead(k) ==
    /\ server[k] = "reading"
    /\ c2s[k] # <<>>
    /\ c2s' = [c2s EXCEPT ![k] = Tail(@)]
    /\ serving' = [serving EXCEPT ![k] = Head(c2s[k])]
    /\ server' = [server EXCEPT ![k] = "dispatching"]
    /\ UNCHANGED <<link, holder, callVars, client, s2c, executed, up>>

Dispatch(k) ==
    /\ server[k] = "dispatching"
    /\ executed' = [executed EXCEPT ![serving[k]] = @ + 1]
    /\ server' = [server EXCEPT ![k] = "replying"]
    /\ UNCHANGED <<link, holder, callVars, client, c2s, s2c, serving, up>>

(* A reply from a newer server may not decode at this client. *)
Reply(k) ==
    /\ server[k] = "replying"
    /\ client[k] = "open"
    /\ \E ok \in BOOLEAN :
         s2c' = [s2c EXCEPT ![k] = Append(@, [of |-> serving[k], decodes |-> ok])]
    /\ server' = [server EXCEPT ![k] = "reading"]
    /\ serving' = [serving EXCEPT ![k] = None]
    /\ UNCHANGED <<link, holder, callVars, client, c2s, executed, up>>

(* The reply cannot be written: the client is gone, or it did not read in time. *)
ReplyFails(k) ==
    /\ server[k] = "replying"
    /\ server' = [server EXCEPT ![k] = "closing"]
    /\ serving' = [serving EXCEPT ![k] = None]
    /\ UNCHANGED <<link, holder, callVars, client, c2s, s2c, executed, up>>

(* EOF or silence past the idle timeout.  The thread has decided to end the   *)
(* session but the socket is still open: a frame may land in between.         *)
IdleOut(k) ==
    /\ server[k] = "reading"
    /\ c2s[k] = <<>>
    /\ server' = [server EXCEPT ![k] = "closing"]
    /\ UNCHANGED <<link, holder, callVars, client, c2s, s2c, serving, executed, up>>

ServerClose(k) ==
    /\ server[k] = "closing"
    /\ server' = [server EXCEPT ![k] = "closed"]
    /\ UNCHANGED <<link, holder, callVars, client, c2s, s2c, serving, executed, up>>

(* The server process dies, dispatches and buffered frames with it. *)
Crash ==
    /\ up
    /\ up' = FALSE
    /\ server' = [k \in Conns |-> "closed"]
    /\ serving' = [k \in Conns |-> None]
    /\ UNCHANGED <<link, holder, callVars, client, c2s, s2c, executed>>

Restart ==
    /\ ~up
    /\ up' = TRUE
    /\ UNCHANGED <<link, holder, callVars, connVars, executed>>

-----------------------------------------------------------------------------
ClientStep(c) ==
    \/ Lock(c) \/ DialFails(c) \/ Write(c) \/ Read(c) \/ Dead(c) \/ Miss(c)
    \/ \E k \in Conns : Dial(c, k) \/ Redial(c, k)

ServerStep(k) ==
    \/ ServeRead(k) \/ Dispatch(k) \/ Reply(k) \/ ReplyFails(k) \/ IdleOut(k)
    \/ ServerClose(k)

Next ==
    \/ \E c \in Calls : Submit(c) \/ Expire(c) \/ ClientStep(c)
    \/ \E k \in Conns : ServerStep(k)
    \/ Crash
    \/ Restart

(* A caller that is not blocked runs, and time passes.  Nothing is assumed of *)
(* the server.                                                                *)
Fairness == \A c \in Calls : WF_vars(ClientStep(c)) /\ WF_vars(Expire(c))

Spec == Init /\ [][Next]_vars

FairSpec == Spec /\ Fairness

-----------------------------------------------------------------------------
(* Properties. *)

ReplyFrame == [of : Calls, decodes : BOOLEAN]

Domains ==
    /\ link \in Conns \cup {None}
    /\ holder \in Calls \cup {None}
    /\ pc \in [Calls -> {"new", "lock", "dial", "write", "read", "redial", "done"}]
    /\ on \in [Calls -> Conns \cup {None}]
    /\ dialed \in [Calls -> BOOLEAN]
    /\ attempt \in [Calls -> {1, 2}]
    /\ expired \in [Calls -> BOOLEAN]
    /\ result \in [Calls -> {"none", "ok", "timeout", "unavailable", "endpoint"}]
    /\ answer \in [Calls -> Calls \cup {None}]
    /\ dials \in [Calls -> Nat]
    /\ client \in [Conns -> {"open", "closed"}]
    /\ c2s \in [Conns -> Seq(Calls)]
    /\ s2c \in [Conns -> Seq(ReplyFrame)]
    /\ server \in [Conns -> {"closed", "reading", "dispatching", "replying", "closing"}]
    /\ serving \in [Conns -> Calls \cup {None}]
    /\ executed \in [Calls -> Nat]
    /\ up \in BOOLEAN

(* "stream just ensured": a caller in an exchange has a connection under it,  *)
(* and a thread that is dispatching has a call.                               *)
Ensured ==
    /\ \A c \in Calls : pc[c] \in {"write", "read"} => on[c] \in Conns
    /\ \A k \in Conns :
         server[k] \in {"dispatching", "replying"} => serving[k] \in Calls
    /\ \A k \in Conns :
         server[k] \in {"closed", "reading", "closing"} => serving[k] = None

(* The state has the shape of the code's. *)
TypeOK == Domains /\ Ensured

(* Positional matching never hands one caller's answer to another, whatever   *)
(* deadlines were missed and connections replaced before it.                  *)
OwnReply == \A c \in Calls : answer[c] \in {None, c}

(* A mutating call is dispatched at most once however the connection broke,   *)
(* and a read-only one at most twice.                                         *)
NeverRunAgain ==
    \A c \in Calls : executed[c] <= IF c \in Mutating THEN 1 ELSE 2

(* "At most ONE redial per call": a caller that healed the link on entry does *)
(* not dial again when the fresh connection fails too.                        *)
OneDial == \A c \in Calls : dials[c] <= 1

(* A link nobody is using owes nothing: no call of an earlier caller is       *)
(* queued, running or answered on it.                                         *)
IdleLinkIsClean ==
    holder = None /\ link # None =>
        /\ c2s[link] = <<>>
        /\ s2c[link] = <<>>
        /\ serving[link] = None

(* Every call returns: the mutex is always released and a deadline ends every *)
(* wait, with no help from the server.                                        *)
EveryCallReturns == \A c \in Calls : pc[c] = "lock" ~> pc[c] = "done"

-----------------------------------------------------------------------------
(* Why they hold: the inductive invariant. *)

InExchange(c) == pc[c] \in {"dial", "write", "read", "redial"}

(* The guard: exactly the caller in an exchange holds the mutex, and the link *)
(* is the connection of its first attempt, empty during a replay.             *)
HolderInv ==
    /\ \A c \in Calls : InExchange(c) <=> holder = c
    /\ \A c \in Calls : on[c] # None <=> pc[c] \in {"write", "read"}
    /\ \A c \in Calls : pc[c] \in {"dial", "redial"} => link = None
    /\ \A c \in Calls :
         pc[c] \in {"write", "read"} =>
             link = IF attempt[c] = 1 THEN on[c] ELSE None
    /\ \A c \in Calls :
         pc[c] \in {"new", "lock", "dial", "redial"} => attempt[c] = 1
    /\ link # None => client[link] = "open"
    /\ \A c \in Calls : on[c] # None => client[on[c]] = "open"

(* A connection carries at most one call: its frame, its dispatch or its reply. *)
Clean(k) == c2s[k] = <<>> /\ s2c[k] = <<>> /\ serving[k] = None
Queued(c, k) == c2s[k] = <<c>> /\ s2c[k] = <<>> /\ serving[k] = None
Served(c, k) == c2s[k] = <<>> /\ s2c[k] = <<>> /\ serving[k] = c
Answered(c, k) ==
    /\ c2s[k] = <<>> /\ serving[k] = None
    /\ \E ok \in BOOLEAN : s2c[k] = <<[of |-> c, decodes |-> ok]>>
Carries(c, k) == Queued(c, k) \/ Served(c, k) \/ Answered(c, k)

FrameInv ==
    /\ \A k \in Conns : Clean(k) \/ \E c \in Calls : Carries(c, k)
    /\ holder = None /\ link # None => Clean(link)
    /\ \A c \in Calls : pc[c] = "write" => Clean(on[c])
    /\ \A c \in Calls : pc[c] = "read" => Clean(on[c]) \/ Carries(c, on[c])

(* The dispatches a caller's own progress accounts for, and the frames that   *)
(* may still become one.                                                      *)
Sent(c) ==
    IF pc[c] \in {"new", "lock", "dial"} THEN 0
    ELSE IF c \in Mutating THEN IF pc[c] \in {"read", "done"} THEN 1 ELSE 0
    ELSE IF pc[c] = "write" THEN attempt[c] - 1
    ELSE IF pc[c] = "redial" THEN 1
    ELSE IF pc[c] = "read" THEN attempt[c]
    ELSE 2

Pending(c, k) ==
    \/ Queued(c, k) /\ server[k] # "closed"
    \/ Served(c, k) /\ server[k] = "dispatching"

Ran(c, k) == Answered(c, k) \/ (Served(c, k) /\ server[k] = "replying")

RunInv ==
    /\ \A c \in Calls : executed[c] <= Sent(c)
    /\ \A c \in Calls, k \in Conns : Pending(c, k) =>
         /\ pc[c] \in {"read", "done"}
         /\ pc[c] = "read" => on[c] = k
         /\ executed[c] < Sent(c)
    /\ \A c \in Calls, k \in Conns, j \in Conns :
         Pending(c, k) /\ Pending(c, j) => k = j
    /\ \A c \in Calls, k \in Conns : Ran(c, k) => executed[c] > 0

DialInv ==
    \A c \in Calls :
        /\ dials[c] <= 1
        /\ pc[c] \in {"new", "lock", "dial", "redial"} => dials[c] = 0
        /\ pc[c] \in {"write", "read"} /\ dials[c] = 1 => dialed[c] \/ attempt[c] = 2
        /\ pc[c] = "dial" => dialed[c]

LinkInv == HolderInv /\ FrameInv /\ RunInv /\ DialInv /\ OwnReply

-----------------------------------------------------------------------------
(* The transport keeps the promise its callers read. *)
Promise == INSTANCE RpcPromise WITH
    NoCall <- None,
    phase <- [c \in Calls |-> CASE pc[c] = "new" -> "new"
                                [] pc[c] = "done" -> "done"
                                [] OTHER -> "open"],
    runs <- executed,
    answer <- answer

KeepsPromise == Promise!Spec
=============================================================================
