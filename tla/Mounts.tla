-------------------------------- MODULE Mounts --------------------------------
(* Other machines in a kernel's namespace (crates/ikigai-cli/src/main.rs,      *)
(* resolve_mounts to LazyResolver; crates/ikigai-embedded/src/lib.rs,         *)
(* compose_mounts).  An alias catches what this kernel lacks, an override     *)
(* wins over what it has, and a preferred peer answers when it is there: it   *)
(* is dialled at its first use, by any of several users at once, and at every *)
(* use until it has answered one.  Peers come and go.  A name is its segments *)
(* after `urn:`.                                                              *)
EXTENDS Naturals, Sequences, FiniteSets

CONSTANTS
    Peers, Users,
    Names,          \* the names asked for
    Local,          \* those bound here
    Serves,         \* per peer: the names it binds
    Topologies,     \* what may be mounted: sequences of [kind, prefixes, peer]
    Own,            \* the peer this process itself is, or none
    RedialAfter,    \* ENTRIES_REDIAL_AFTER
    MaxFlips        \* bound: how often peers come and go

Mount == [kind : {"alias", "override", "prefer"}, prefixes : Seq(Seq(STRING)), peer : Peers \cup {Own}]

ASSUME MountsAssumption ==
    /\ Names \subseteq Seq(STRING) /\ Local \subseteq Names /\ DOMAIN Serves = Peers
    /\ RedialAfter \in Nat \ {0} /\ MaxFlips \in Nat
    /\ Topologies \subseteq Seq(Mount)

VARIABLES
    up, flips,      \* the peers that are there
    process,        \* "off", "up" or "refused"
    mounts,         \* the mounts composed, each with one resolver for its prefixes
    dialed,         \* the mounts whose resolver is made (for a preferred peer, LazyResolver::inner)
    failed,         \* per mount: how long since a listing's dial failed
    user,           \* per user: what it asks, and how far it is
    ran,            \* per user: where its request ran
    missed          \* the users whose peer was away at some moment since they asked

mountsVars == <<up, flips, process, mounts, dialed, failed, user, ran, missed>>
peers == <<up, flips>>
Idle == [at |-> "idle", verb |-> "Source", name |-> <<>>, via |-> 0]
LongAgo == RedialAfter

MountsInit ==
    /\ up \in SUBSET Peers /\ flips = 0
    /\ process = "off" /\ mounts = <<>> /\ dialed = {} /\ failed = <<>>
    /\ user = [u \in Users |-> Idle] /\ ran = [u \in Users |-> {}] /\ missed = {}

-----------------------------------------------------------------------------
(* Start: the flags, or the machine's file, or neither (--no-mounts); a line   *)
(* that names this process itself is left out.  An alias or an override       *)
(* connects now or the process does not start; a preferred peer waits.  The   *)
(* names under urn:kernel: are every kernel's own: they cannot be mounted.    *)
Reaches(m) == m.kind = "prefer" \/ m.peer \in up
IsKernels(n) == Len(n) > 0 /\ Head(n) = "kernel"
NamesTheKernel(m) == \E k \in DOMAIN m.prefixes : IsKernels(m.prefixes[k])

Others(asked) ==
    LET kept == {i \in DOMAIN asked : asked[i].peer # Own} IN
    {[i \in DOMAIN p |-> asked[p[i]]] :
        p \in {p \in [1 .. Cardinality(kept) -> kept] : \A i, j \in DOMAIN p : i < j => p[i] < p[j]}}

Begin(flags, declined, file) ==
    LET asked == IF declined THEN <<>> ELSE IF flags # <<>> THEN flags ELSE file IN
    /\ process = "off"
    /\ \E others \in Others(asked) :
          IF \/ declined /\ flags # <<>>
             \/ \E i \in DOMAIN others : ~Reaches(others[i]) \/ NamesTheKernel(others[i])
          THEN process' = "refused" /\ UNCHANGED <<mounts, dialed, failed>>
          ELSE /\ process' = "up" /\ mounts' = others
               /\ dialed' = {i \in DOMAIN others : others[i].kind # "prefer"}
               /\ failed' = [i \in DOMAIN others |-> LongAgo]
    /\ UNCHANGED <<peers, user, ran, missed>>

-----------------------------------------------------------------------------
(* compose_mounts.  What fronts the local spaces is tried longest prefix      *)
(* first, then what is bound here, then the aliases: those deeper than one    *)
(* segment, which forward the name as it is, longest first, and then the      *)
(* others in the order they were given.                                       *)
Heads(m, n) == {l \in 0 .. Len(n) : \E k \in DOMAIN m.prefixes : m.prefixes[k] = SubSeq(n, 1, l)}
Claims(i, n) == Heads(mounts[i], n) # {}
Reach(i, n) == CHOOSE l \in Heads(mounts[i], n) : \A k \in Heads(mounts[i], n) : k <= l

First(claimants, n) ==
    CHOOSE i \in claimants :
        \A k \in claimants \ {i} : \/ Reach(i, n) > Reach(k, n)
                                   \/ Reach(i, n) = Reach(k, n) /\ i < k

Fronting(n) == {i \in DOMAIN mounts : mounts[i].kind # "alias" /\ Claims(i, n)}
Aliases(n) == {i \in DOMAIN mounts : mounts[i].kind = "alias" /\ Claims(i, n)}

(* MountedRemote: the prefix is taken off when it is one segment.             *)
Forwarded(i, n) ==
    IF mounts[i].kind = "alias" /\ Reach(i, n) = 1 THEN Tail(n) ELSE n

-----------------------------------------------------------------------------
Steps(u, at) == user' = [user EXCEPT ![u].at = at]
Through(u, i, at) == user' = [user EXCEPT ![u].at = at, ![u].via = i]
PeerOf(u) == mounts[user[u].via].peer

Away(u, i) == IF mounts[i].peer \in up THEN missed \ {u} ELSE missed \cup {u}

Ask(u, n, verb) ==
    /\ process = "up" /\ user[u].at = "idle"
    /\ ran' = [ran EXCEPT ![u] = {}]
    /\ IF IsKernels(n) \/ Fronting(n) = {}
       THEN /\ user' = [user EXCEPT ![u] = [at |-> "here", verb |-> verb, name |-> n, via |-> 0]]
            /\ missed' = missed \ {u}
       ELSE LET i == First(Fronting(n), n) IN
            /\ user' = [user EXCEPT ![u] = [at |-> IF mounts[i].kind = "prefer" THEN "look" ELSE "call",
                                            verb |-> verb, name |-> n, via |-> i]]
            /\ missed' = Away(u, i)
    /\ UNCHANGED <<peers, process, mounts, dialed, failed>>

(* LazyResolver::get: looked at under its lock, dialled outside it.           *)
Unless(u, gone) ==
    /\ user[u].at = "look"
    /\ Steps(u, IF user[u].via \in dialed THEN "call" ELSE IF gone THEN "down" ELSE "dial")
    /\ UNCHANGED <<peers, process, mounts, dialed, failed, ran, missed>>

LookUnlessAsleep(u) == Unless(u, failed[user[u].via] < RedialAfter)
Look(u) == Unless(u, FALSE)

Dial(u) ==
    /\ user[u].at = "dial"
    /\ IF PeerOf(u) \in up THEN dialed' = dialed \cup {user[u].via} /\ Steps(u, "call")
       ELSE UNCHANGED dialed /\ Steps(u, "down")
    /\ UNCHANGED <<peers, process, mounts, failed, ran, missed>>

(* The peer answers, in its own namespace; or it is away, or its answer lost. *)
Issue(u) ==
    LET p == PeerOf(u) IN
    /\ user[u].at = "call"
    /\ IF p \in up /\ Forwarded(user[u].via, user[u].name) \in Serves[p]
       THEN /\ ran' = [ran EXCEPT ![u] = @ \cup {p}]
            /\ \E at \in {"answered", "denied", "down"} : Steps(u, at)
       ELSE /\ UNCHANGED ran
            /\ IF p \in up THEN Steps(u, "unresolved") ELSE Steps(u, "down")
    /\ UNCHANGED <<peers, process, mounts, dialed, failed, missed>>

(* Failover, below a preferred peer: "only transient failures fall through",  *)
(* and a mutating verb is never replayed.                                     *)
Falls(u) == mounts[user[u].via].kind = "prefer" /\ user[u].verb = "Source"

Down(u) ==
    /\ user[u].at = "down"
    /\ Steps(u, IF Falls(u) THEN "here" ELSE "unavailable")
    /\ UNCHANGED <<peers, process, mounts, dialed, failed, ran, missed>>

(* What is bound here, and then the aliases. *)
Here(u) ==
    LET n == user[u].name IN
    /\ user[u].at = "here"
    /\ IF n \in Local \/ IsKernels(n) THEN ran' = [ran EXCEPT ![u] = @ \cup {"here"}] /\ Steps(u, "answered")
       ELSE /\ UNCHANGED ran
            /\ IF Aliases(n) = {} THEN Steps(u, "unresolved")
               ELSE Through(u, First(Aliases(n), n), "call")
    /\ UNCHANGED <<peers, process, mounts, dialed, failed, missed>>

Results == {"answered", "denied", "unavailable", "unresolved", "listed", "named", "omitted"}
Done(u) ==
    /\ user[u].at \in Results
    /\ user' = [user EXCEPT ![u] = Idle] /\ ran' = [ran EXCEPT ![u] = {}] /\ missed' = missed \ {u}
    /\ UNCHANGED <<peers, process, mounts, dialed, failed>>

-----------------------------------------------------------------------------
(* try_entries: a connected peer's catalog, or its failure by name; one that  *)
(* will not dial is left out, and not dialled again for a while.              *)
List(u, i) ==
    /\ process = "up" /\ user[u].at = "idle"
    /\ user' = [user EXCEPT ![u] = [at |-> IF i \in dialed THEN "catalog"
                                          ELSE IF failed[i] < RedialAfter THEN "omitted" ELSE "dial list",
                                    verb |-> "List", name |-> <<>>, via |-> i]]
    /\ missed' = Away(u, i)
    /\ UNCHANGED <<peers, process, mounts, dialed, failed, ran>>

DialList(u) ==
    LET i == user[u].via IN
    /\ user[u].at = "dial list"
    /\ IF PeerOf(u) \in up
       THEN /\ dialed' = dialed \cup {i} /\ failed' = [failed EXCEPT ![i] = LongAgo]
            /\ Steps(u, "catalog")
       ELSE /\ failed' = [failed EXCEPT ![i] = 0] /\ Steps(u, "omitted") /\ UNCHANGED dialed
    /\ UNCHANGED <<peers, process, mounts, ran, missed>>

Catalog(u) ==
    /\ user[u].at = "catalog"
    /\ Steps(u, IF PeerOf(u) \in up THEN "listed" ELSE "named")
    /\ UNCHANGED <<peers, process, mounts, dialed, failed, ran, missed>>

-----------------------------------------------------------------------------
ComesOrGoes(p) ==
    /\ flips < MaxFlips /\ flips' = flips + 1
    /\ up' = IF p \in up THEN up \ {p} ELSE up \cup {p}
    /\ missed' = IF p \notin up THEN missed
                 ELSE missed \cup {u \in Users : user[u].via # 0 /\ PeerOf(u) = p}
    /\ UNCHANGED <<process, mounts, dialed, failed, user, ran>>

Tick ==
    /\ \E i \in DOMAIN failed : failed[i] < RedialAfter
    /\ failed' = [i \in DOMAIN failed |-> IF failed[i] < RedialAfter THEN failed[i] + 1 ELSE failed[i]]
    /\ UNCHANGED <<peers, process, mounts, dialed, user, ran, missed>>

Step(u) == Look(u) \/ Dial(u) \/ Issue(u) \/ Down(u) \/ Here(u) \/ DialList(u) \/ Catalog(u) \/ Done(u)
MountsNext ==
    \/ \E flags, file \in Topologies, declined \in BOOLEAN : Begin(flags, declined, file)
    \/ \E u \in Users : Step(u) \/ (\E i \in DOMAIN mounts : List(u, i))
    \/ \E u \in Users, n \in Names, verb \in {"Source", "Sink"} : Ask(u, n, verb)
    \/ \E p \in Peers : ComesOrGoes(p)
    \/ Tick

MountsSpec == MountsInit /\ [][MountsNext]_mountsVars

-----------------------------------------------------------------------------
Fronted(n) == ~IsKernels(n) /\ Fronting(n) # {}
Longest(i, n) == \A k \in Fronting(n) : Reach(i, n) > Reach(k, n) \/ (Reach(i, n) = Reach(k, n) /\ i <= k)

(* A name is answered by whoever the mounts say.  One that an override claims *)
(* runs at its peer or nowhere, even when a shorter prefix is preferred or    *)
(* this kernel binds the name too; one that a preferred peer claims runs here *)
(* only to read it, and only when that peer was away since it was asked or    *)
(* its answer did not arrive (a peer that woke is used at once, whatever a    *)
(* listing thought of it); a write runs at one kernel at most; and the names  *)
(* of the kernel itself, and those this kernel alone binds, run here.         *)
AnsweredWhereClaimed ==
    \A u \in Users : LET n == user[u].name IN
        /\ user[u].verb = "Sink" => Cardinality(ran[u]) <= 1
        /\ ~Fronted(n) /\ (IsKernels(n) \/ n \in Local) => ran[u] \subseteq {"here"}
        /\ \A front \in Fronting(n) : Fronted(n) /\ Longest(front, n) =>
              \A place \in ran[u] \ {mounts[front].peer} :
                  /\ mounts[front].kind = "prefer" /\ user[u].verb = "Source"
                  /\ u \in missed \/ mounts[front].peer \in ran[u]
                  /\ place # "here" => n \notin Local
=============================================================================
