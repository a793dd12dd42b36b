------------------------------- MODULE IpcBind -------------------------------
(* Binding the socket door (src/crates/ikigai-ipc/src/lib.rs, bind): server   *)
(* processes start and die around one path, each taking the flock on          *)
(* <path>.lock, probing what is there, removing it if it is stale, binding.   *)
EXTENDS Naturals

CONSTANTS
    Servers,    \* the processes that may start on this path
    Nothing,    \* no file at the path
    Plain,      \* a file that is not a socket
    Nobody      \* nobody holds the lock

ASSUME BindAssumption ==
    Servers \cap {Nothing, Plain, Nobody} = {} /\ Nothing # Plain

VARIABLES
    stage,         \* where each process is in bind
    lock,       \* which process holds the flock
    path        \* Nothing, Plain, or the process whose socket is there

bindVars == <<stage, lock, path>>

BindInit ==
    /\ stage = [p \in Servers |-> "down"]
    /\ lock = Nobody
    /\ path \in {Nothing, Plain}

(* A socket answers a dial exactly when its process is listening on it. *)
Answers(s) == s \in Servers /\ stage[s] \in {"chmod", "listening"}

Goto(p, place) == stage' = [stage EXCEPT ![p] = place]

Start(p) ==
    /\ stage[p] = "down"
    /\ Goto(p, "lock")
    /\ UNCHANGED <<lock, path>>

(* file.lock(): an exclusive flock, waited for. *)
TakeUnlocked(p) ==
    /\ stage[p] = "lock"
    /\ lock' = p
    /\ Goto(p, "probe")
    /\ UNCHANGED path
TakeLock(p) ==
    /\ stage[p] = "lock"
    /\ lock = Nobody
    /\ lock' = p
    /\ Goto(p, "probe")
    /\ UNCHANGED path

(* What clear_stale decides about what it found. *)
BlindVerdict == IF path = Nothing THEN "bind" ELSE "remove"
Verdict ==
    CASE path = Nothing -> "bind"
      [] path = Plain -> "fail"
      [] Answers(path) -> "fail"
      [] OTHER -> "remove"

Probe(p) ==
    /\ stage[p] = "probe"
    /\ Goto(p, Verdict)
    /\ UNCHANGED <<lock, path>>

Remove(p) ==
    /\ stage[p] = "remove"
    /\ path' = Nothing
    /\ Goto(p, "bind")
    /\ UNCHANGED lock

(* UnixListener::bind: socket, bind and listen; the path must be free. *)
Bind(p) ==
    /\ stage[p] = "bind"
    /\ path = Nothing
    /\ path' = p
    /\ Goto(p, "chmod")
    /\ UNCHANGED lock

(* set_permissions, then _held drops. *)
SetMode(p) ==
    /\ stage[p] = "chmod"
    /\ Goto(p, "listening")
    /\ lock' = Nobody
    /\ UNCHANGED path

KeepLock(p) == UNCHANGED lock
Unlock(p) == lock' = IF lock = p THEN Nobody ELSE lock

(* An error leaves bind from any step, the lock and any listener dropped. *)
Fail(p) ==
    /\ stage[p] \in {"lock", "probe", "fail", "remove", "bind", "chmod"}
    /\ Goto(p, "down")
    /\ Unlock(p)
    /\ UNCHANGED path

(* The process dies: its flock and its listener go, its socket file stays. *)
Die(p) ==
    /\ stage[p] # "down"
    /\ Goto(p, "down")
    /\ Unlock(p)
    /\ UNCHANGED path

Step(p) == TakeLock(p) \/ Probe(p) \/ Remove(p) \/ Bind(p) \/ SetMode(p) \/ Fail(p)

BindNext == \E p \in Servers : Start(p) \/ Step(p) \/ Die(p)

BindSpec == BindInit /\ [][BindNext]_bindVars

(* The lock's holder runs on, and a waiter on the flock is served in its turn. *)
BindFairSpec ==
    /\ BindSpec
    /\ \A p \in Servers :
         WF_bindVars(stage[p] # "lock" /\ Step(p)) /\ SF_bindVars(TakeLock(p))

-----------------------------------------------------------------------------
BindTypeOK ==
    /\ stage \in [Servers -> {"down", "lock", "probe", "remove", "bind", "chmod",
                           "fail", "listening"}]
    /\ lock \in Servers \cup {Nobody}
    /\ path \in Servers \cup {Nothing, Plain}

(* "A live server's socket is never replaced": every server that announces    *)
(* its door can still be reached at the path.                                 *)
ListenerIsReachable == \A p \in Servers : stage[p] = "listening" => path = p

(* "Anything at path that is not a socket is refused too, never removed."     *)
PlainFileStays == [][path = Plain => path' = Plain]_bindVars

(* A binder that has judged the path free still finds it free when it binds.  *)
VerdictHolds == \A p \in Servers : stage[p] = "bind" => path = Nothing

(* A start on a stale socket (or none) is not the end of the story: every     *)
(* start comes to an end, listening or reported.                              *)
StartEnds == \A p \in Servers : stage[p] = "lock" ~> stage[p] \in {"listening", "down"}

-----------------------------------------------------------------------------
(* Why: only the lock's holder is between the probe and the bind. *)
Holding == {"probe", "remove", "bind", "chmod", "fail"}

BindInv ==
    /\ BindTypeOK
    /\ \A p \in Servers : stage[p] \in Holding <=> lock = p
    /\ \A p \in Servers : stage[p] \in {"chmod", "listening"} => path = p
    /\ \A p \in Servers : stage[p] = "bind" => path = Nothing
    /\ \A p \in Servers : stage[p] = "remove" => path # Plain /\ ~Answers(path)
=============================================================================
