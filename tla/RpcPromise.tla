----------------------------- MODULE RpcPromise -----------------------------
(* What a transport promises its callers about one request/reply call, with   *)
(* no socket in sight: how often the peer may have run it, and whose answer   *)
(* comes back.  Both client transports (ikigai-ipc, ikigai-quic) document it  *)
(* as the Retry/Failover discipline: "a mutating verb is never blindly        *)
(* re-sent", and a call the peer never received may be sent again.            *)
EXTENDS Naturals

CONSTANTS
    Calls,      \* the calls issued over the life of the link, each once
    Mutating,   \* those whose verb is Sink or Delete
    NoCall      \* the answer of a call that has none

VARIABLES
    phase,      \* "new", "open" or "done", per call
    runs,       \* how often the peer has dispatched the call
    answer      \* whose answer the caller was handed

pvars == <<phase, runs, answer>>

Init ==
    /\ phase = [c \in Calls |-> "new"]
    /\ runs = [c \in Calls |-> 0]
    /\ answer = [c \in Calls |-> NoCall]

(* A read-only call may be replayed once, a mutating one never runs again. *)
RunLimit(c) == IF c \in Mutating THEN 1 ELSE 2

Submit(c) ==
    /\ phase[c] = "new"
    /\ phase' = [phase EXCEPT ![c] = "open"]
    /\ UNCHANGED <<runs, answer>>

(* The peer may still run a call its caller has given up on. *)
Run(c) ==
    /\ phase[c] # "new"
    /\ runs[c] < RunLimit(c)
    /\ runs' = [runs EXCEPT ![c] = @ + 1]
    /\ UNCHANGED <<phase, answer>>

Answer(c) ==
    /\ phase[c] = "open"
    /\ runs[c] > 0
    /\ phase' = [phase EXCEPT ![c] = "done"]
    /\ answer' = [answer EXCEPT ![c] = c]
    /\ UNCHANGED runs

Fail(c) ==
    /\ phase[c] = "open"
    /\ phase' = [phase EXCEPT ![c] = "done"]
    /\ UNCHANGED <<runs, answer>>

Next == \E c \in Calls : Submit(c) \/ Run(c) \/ Answer(c) \/ Fail(c)

Spec == Init /\ [][Next]_pvars
=============================================================================
