-------------------------------- MODULE MCIpc --------------------------------
(* The socket: processes that bind the path, the door of the one that has it, *)
(* and the callers of a resolver that dials it.  The three share no state, so *)
(* a behaviour is one of any: three processes race for a path; a door of one  *)
(* place meets enough peers to fill it and to refuse; two callers, one of     *)
(* them writing, share a link.  The parts a behaviour is not about stay as    *)
(* they started.                                                              *)
EXTENDS IpcDoor

CONSTANTS p1, p2, p3, a, b, old, stranger, sink, source, k1, k2

VARIABLES
    part,       \* the part this behaviour is about
    link, holder, pc, on, dialed, attempt, expired, result, answer, dials,
    client, c2s, s2c, server, serving, executed, up

Link == INSTANCE IpcLink WITH
    Calls <- {sink, source}, Mutating <- {sink}, Conns <- {k1, k2}

linkVars == <<link, holder, pc, on, dialed, attempt, expired, result, answer, dials,
              client, c2s, s2c, server, serving, executed, up>>
all == <<part, bindVars, vars, linkVars>>

MCServers == {p1, p2, p3}
MCPeers == {a, b, old, stranger}
MCAdmitted == {a, b, old}
MCLegacy == {old}

MCInit ==
    /\ part \in {"bind", "door", "link"} /\ BindInit /\ Init /\ Link!Init
    /\ part # "bind" => path = Nothing

MCNext ==
    /\ part' = part
    /\ \/ part = "bind" /\ BindNext /\ UNCHANGED <<vars, linkVars>>
       \/ part = "door" /\ Next /\ UNCHANGED <<bindVars, linkVars>>
       \/ part = "link" /\ Link!Next /\ UNCHANGED <<bindVars, vars>>

(* Each part under its own fairness. *)
InBind(A) == part = "bind" /\ A
InDoor(A) == part = "door" /\ A
InLink(A) == part = "link" /\ A

MCFairSpec ==
    /\ MCInit /\ [][MCNext]_all
    /\ \A p \in Servers :
         /\ WF_bindVars(InBind(stage[p] # "lock" /\ Step(p)))
         /\ SF_bindVars(InBind(TakeLock(p)))
    /\ SF_vars(InDoor(Accept)) /\ WF_vars(InDoor(LoopStep)) /\ WF_vars(InDoor(RefusedSilence))
    /\ \A p \in Peers :
         WF_vars(InDoor(Answer(p))) /\ SF_vars(InDoor(conn[p] # "busy" /\ End(p)))
    /\ \A c \in {sink, source} :
         /\ WF_linkVars(InLink(Link!ClientStep(c)))
         /\ WF_linkVars(InLink(Link!Expire(c)))

(* Nobody waits for ever: a start that met another's lock ends listening or   *)
(* refused, a peer queued behind refusals and silent strangers gets its turn, *)
(* and a caller returns from a link that stays silent or is lost.             *)
EveryoneMovesOn == StartEnds /\ QueueMoves /\ Link!EveryCallReturns
=============================================================================
