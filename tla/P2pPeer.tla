-------------------------------- MODULE P2pPeer -------------------------------
(* Two peers of the libp2p transport (src/crates/ikigai-p2p/src/transport.rs): *)
(* the handles that call, the task that drives the swarm, the calls that wait  *)
(* in its map, and the worker that mints an authority for every single call.   *)
(* Connections, direct and through a relay, come and go under all of it, and   *)
(* the file that says who may call is edited meanwhile.                        *)
EXTENDS Naturals

CONSTANTS
    Peers, Calls,
    Callers,        \* who may make which: a set of [Calls -> Peers]
    Serving,        \* the peers that serve a kernel
    Paths,          \* the connections there may be: direct, relayed
    MaxEdits, MaxCloses

VARIABLES
    from,           \* the caller of each call; its callee is the other peer
    handles,        \* the peers of which a handle is held
    task,           \* [Peers -> "running", "stopped"]
    enrolled,       \* [Peers -> the callers its clients.json gives something]
    up,             \* the connections between the two
    call,           \* [Calls -> idle, queued, pending, abandoned; or what came back]
    work,           \* [Calls -> the request at the callee]
    ran,            \* [Calls -> how often the kernel ran it]
    given,          \* the calls whose caller was enrolled at some moment since they came
    edits, closes

sides == <<call, work>>
counts == <<edits, closes>>
vars == <<from, handles, task, enrolled, up, sides, ran, given, counts>>

NoWork == [at |-> "none"]
Results == {"resolved", "denied", "failed"}
P2pPeerAssumption ==
    /\ Serving \subseteq Peers /\ MaxEdits \in Nat /\ MaxCloses \in Nat
    /\ \A a, b, c \in Peers : a = b \/ b = c \/ a = c
    /\ Callers \subseteq [Calls -> Peers]

To(k) == CHOOSE p \in Peers : p # from[k]

Init ==
    /\ from \in Callers
    /\ handles = Peers /\ task = [p \in Peers |-> "running"]
    /\ enrolled \in [Peers -> SUBSET Peers] /\ \A p \in Peers : enrolled[p] \subseteq Peers \ {p}
    /\ \A p \in Peers \ Serving : enrolled[p] = {}
    /\ up = {} /\ call = [k \in Calls |-> "idle"] /\ work = [k \in Calls |-> NoWork]
    /\ ran = [k \in Calls |-> 0] /\ given = {} /\ edits = 0 /\ closes = 0

Here(p) == task[p] = "running"
Say(k, now) == call' = [call EXCEPT ![k] = now]
Does(k, at) == work' = [work EXCEPT ![k].at = at]
Waits(k) == call[k] \in {"pending", "abandoned"}
(* The sender of an abandoned call's answer has no one at the other end.       *)
Told(k, result) == Say(k, IF call[k] = "abandoned" THEN "gone" ELSE result)

-----------------------------------------------------------------------------
(* A caller.                                                                   *)

Call(k) ==
    /\ from[k] \in handles /\ call[k] = "idle" /\ Say(k, "queued")
    /\ UNCHANGED <<from, handles, task, enrolled, up, work, ran, given, counts>>
(* The future is dropped; the command, or the entry in the map, stays.         *)
Abandon(k) ==
    /\ call[k] = "pending" /\ Say(k, "abandoned")
    /\ UNCHANGED <<from, handles, task, enrolled, up, work, ran, given, counts>>
LetGo(p) ==
    /\ p \in handles /\ \A k \in Calls : from[k] = p => call[k] # "pending" /\ call[k] # "queued"
    /\ handles' = handles \ {p}
    /\ UNCHANGED <<from, task, enrolled, up, sides, ran, given, counts>>

-----------------------------------------------------------------------------
(* The connections, and the file.                                              *)

(* What was on the connection is lost; the callee's worker goes on.            *)
Cut(cs) ==
    [k \in Calls |->
        IF work[k] = NoWork \/ work[k].over \notin cs THEN work[k]
        ELSE IF work[k].at \in {"sent", "responded"} THEN [work[k] EXCEPT !.at = "lost", !.open = FALSE]
        ELSE [work[k] EXCEPT !.open = FALSE]]
Close(c) ==
    /\ c \in up /\ closes < MaxCloses /\ closes' = closes + 1
    /\ up' = up \ {c} /\ work' = Cut({c})
    /\ UNCHANGED <<from, handles, task, enrolled, call, ran, given, edits>>
Edit(p, who) ==
    /\ p \in Serving /\ who # enrolled[p] /\ edits < MaxEdits /\ edits' = edits + 1
    /\ enrolled' = [enrolled EXCEPT ![p] = who]
    /\ given' = given \cup {k \in Calls : To(k) = p /\ work[k] # NoWork /\ from[k] \in who}
    /\ UNCHANGED <<from, handles, task, up, sides, ran, closes>>

-----------------------------------------------------------------------------
(* The task: a command, an event of the swarm, an answer a worker is done with.*)

TakeCommand(k) ==
    /\ Here(from[k]) /\ call[k] = "queued" /\ Say(k, "pending")
    /\ UNCHANGED <<from, handles, task, enrolled, up, work, ran, given, counts>>
(* Every handle gone and nothing queued: who only calls has nothing to do.     *)
Ends(p) == p \notin Serving
Stop(p) ==
    /\ Here(p) /\ p \notin handles /\ Ends(p)
    /\ task' = [task EXCEPT ![p] = "stopped"] /\ up' = {} /\ work' = Cut(up)
    /\ call' = [k \in Calls |-> IF from[k] = p /\ call[k] = "abandoned" THEN "gone" ELSE call[k]]
    /\ UNCHANGED <<from, handles, enrolled, ran, given, counts>>

(* Over a connection there is, or one that is dialed.                          *)
Send(k, c) ==
    /\ Here(from[k]) /\ Here(To(k)) /\ Waits(k) /\ work[k] = NoWork
    /\ up = {} \/ c \in up
    /\ up' = up \cup {c}
    /\ work' = [work EXCEPT ![k] = [at |-> "sent", over |-> c, open |-> TRUE]]
    /\ UNCHANGED <<from, handles, task, enrolled, call, ran, given, counts>>

(* The request is a Message event: a peer that serves nothing answers at once. *)
Answer(k) ==
    /\ work[k] # NoWork /\ work[k].at = "sent" /\ Here(To(k))
    /\ Does(k, IF To(k) \in Serving THEN "minting" ELSE "denied")
    /\ given' = IF from[k] \in enrolled[To(k)] THEN given \cup {k} ELSE given
    /\ UNCHANGED <<from, handles, task, enrolled, up, call, ran, counts>>

(* The worker: the minter first, then the kernel.                              *)
Authorized(k) == from[k] \in enrolled[To(k)]
RunFirst(k) ==          \* mutant: the kernel answers, and the minter is asked about the reply
    /\ work[k] # NoWork /\ work[k].at = "minting"
    /\ Does(k, IF Authorized(k) THEN "resolved" ELSE "denied")
    /\ ran' = [ran EXCEPT ![k] = @ + 1]
    /\ UNCHANGED <<from, handles, task, enrolled, up, call, given, counts>>
Mint(k) ==
    /\ work[k] # NoWork /\ work[k].at = "minting"
    /\ Does(k, IF Authorized(k) THEN "minted" ELSE "denied")
    /\ UNCHANGED <<from, handles, task, enrolled, up, call, ran, given, counts>>
Dispatch(k) ==
    /\ work[k] # NoWork /\ work[k].at = "minted" /\ Does(k, "resolved")
    /\ ran' = [ran EXCEPT ![k] = @ + 1]
    /\ UNCHANGED <<from, handles, task, enrolled, up, call, given, counts>>

(* The answer goes out on the request's own channel, or nowhere: its           *)
(* connection is gone, or the callee's own wait for it has passed.             *)
SendResponse(k) ==
    /\ work[k] # NoWork /\ work[k].at \in {"resolved", "denied"} /\ Here(To(k))
    /\ \/ work[k].open /\ work' = [work EXCEPT ![k] = [at |-> "responded", over |-> @.over, open |-> TRUE, reply |-> @.at]]
       \/ Does(k, "lost")
    /\ UNCHANGED <<from, handles, task, enrolled, up, call, ran, given, counts>>
Response(k) ==
    /\ work[k] # NoWork /\ work[k].at = "responded" /\ Here(from[k]) /\ Waits(k)
    /\ Told(k, work[k].reply) /\ Does(k, "done")
    /\ UNCHANGED <<from, handles, task, enrolled, up, ran, given, counts>>

(* The dial fails, the connection closes, or the call's 300 seconds pass.      *)
SwallowFailure(k) ==    \* mutant: the event is one of those the task passes over
    /\ Here(from[k]) /\ Waits(k) /\ work[k] # NoWork /\ work[k].at = "responded"
    /\ work' = [work EXCEPT ![k].at = "lost"]
    /\ UNCHANGED <<from, handles, task, enrolled, up, call, ran, given, counts>>
OutboundFailure(k) ==
    /\ Here(from[k]) /\ Waits(k) /\ Told(k, "failed")
    /\ work' = IF work[k] # NoWork /\ work[k].at = "responded" THEN [work EXCEPT ![k].at = "lost"] ELSE work
    /\ UNCHANGED <<from, handles, task, enrolled, up, ran, given, counts>>

-----------------------------------------------------------------------------
Next ==
    \/ \E k \in Calls :
          \/ Call(k) \/ Abandon(k) \/ TakeCommand(k) \/ \E c \in Paths : Send(k, c)
          \/ Answer(k) \/ Mint(k) \/ Dispatch(k) \/ SendResponse(k)
          \/ Response(k) \/ OutboundFailure(k)
    \/ \E p \in Peers : LetGo(p) \/ Stop(p) \/ \E who \in SUBSET (Peers \ {p}) : Edit(p, who)
    \/ \E c \in Paths : Close(c)

Spec == Init /\ [][Next]_vars
(* A running task takes its commands, and libp2p tells every request's fate.   *)
FairSpec ==
    Spec /\ \A k \in Calls : WF_vars(TakeCommand(k)) /\ WF_vars(Response(k) \/ OutboundFailure(k))

-----------------------------------------------------------------------------
(* What a caller is told is what happened: an answer is of a call that ran,    *)
(* once; a denial of one that did not; and a failure, which may hide either,   *)
(* never one that ran twice.                                                   *)
ToldAsRun ==
    \A k \in Calls :
        /\ ran[k] <= 1
        /\ call[k] = "resolved" => ran[k] = 1
        /\ call[k] = "denied" => ran[k] = 0

(* "minting on every call is what keeps 'editing the file revokes' true on     *)
(* this door": a call runs only when the file gave its caller something at a   *)
(* moment since the call came, over a connection however old.                  *)
RevokedRunsNothing == [][\A k \in Calls : ran'[k] # ran[k] => k \in given]_vars

(* Every call comes back, though connections break, peers stop serving and a   *)
(* peer's other handles are let go.                                            *)
CallsReturn == \A k \in Calls : call[k] = "queued" ~> call[k] \in Results \cup {"abandoned", "gone"}
=============================================================================
