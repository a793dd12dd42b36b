------------------------------- MODULE Admission -------------------------------
(* Who a caller of the QUIC door is and what it may do there: the trust list   *)
(* the handshake reads, the lobby, the minter and the two files it reads, the  *)
(* session it mints and what a call under it becomes                           *)
(* (src/crates/ikigai-quic/src/lib.rs), as `ikigai serve quic://` sets them up *)
(* (src/crates/ikigai-cli/src/main.rs, src/crates/ikigai-cli/src/quic.rs) over *)
(* clients.json (src/crates/ikigai-embedded/src/clients.rs).  The operator     *)
(* edits the files while the door serves.                                      *)
EXTENDS Naturals, FiniteSets

CONSTANTS
    Base, Extras, Strangers,    \* the certificates of client.crt, of clients/, of nobody
    Mortal,         \* the certificates whose validity window may end
    FaceOf,         \* the face of the surface each scope is for
    ClientFiles,    \* [entries, default] or Broken: what clients.json may hold
    GrantFiles,     \* [grant names -> scopes]: what grants.json may hold
    Flags,          \* [layers, lobby, require, cap]: how the door may be started
    Carried,        \* the scopes a call may carry
    Conns, MaxAmends, MaxCached,
    None, Broken

VARIABLES
    base, dir,      \* whether client.crt reads; the certificates of clients/ that do
    clients, grants,
    expired,        \* the certificates past their notAfter
    flags, door, faces,
    conn, call,     \* per connection: who it is, and the call under way
    cache,          \* the answers the kernel keeps
    amended,
    said            \* per connection: what the files were since it began, until it is minted

filesVars == <<base, dir, clients, grants, expired>>
doorVars == <<flags, door, faces>>
admissionVars == <<filesVars, doorVars, conn, call, cache, amended, said>>

Certs == {Base} \cup Extras \cup Strangers
Scopes == DOMAIN FaceOf
New == [at |-> "new", cert |-> None, grant |-> None, who |-> None, scopes |-> {}]
NoCall == [at |-> "none"]

ASSUME AdmissionAssumption ==
    /\ MaxAmends \in Nat /\ MaxCached \in Nat /\ Mortal \subseteq Certs
    /\ Base \notin Extras \cup Strangers /\ Extras \cap Strangers = {}
    /\ \A f \in ClientFiles \ {Broken} : DOMAIN f.entries \subseteq Certs
    /\ \A f \in Flags : f.cap \subseteq Scopes /\ (f.lobby => f.layers)

DoorInit ==
    /\ base = TRUE /\ dir = Extras /\ expired = {}
    /\ clients \in ClientFiles \cup {None} /\ grants \in GrantFiles
    /\ flags \in Flags /\ door = "down" /\ faces = {}
    /\ conn = [n \in Conns |-> New] /\ call = [n \in Conns |-> NoCall] /\ cache = {}
    /\ amended = 0 /\ said = [n \in Conns |-> {}]

-----------------------------------------------------------------------------
(* What the files say.                                                         *)

(* client.crt, and of clients/ what reads; no list when client.crt does not.   *)
TrustedClients ==
    IF base THEN {Base} \cup dir ELSE None
Trusts(c) == TrustedClients # None /\ c \in TrustedClients

Parses(file) ==
    /\ file \notin {None, Broken}
    /\ \A c \in DOMAIN file.entries : file.entries[c].grant = None => file.default # None
Enrolls(file, c) == Parses(file) /\ c \in DOMAIN file.entries
GrantFor(file, c) ==
    IF file.entries[c].grant # None THEN file.entries[c].grant ELSE file.default
NamedBy(file, c) == IF file.entries[c].who # None THEN file.entries[c].who ELSE c

ScopesIn(file, g) == IF file # Broken /\ g \in DOMAIN file THEN file[g] ELSE {}
Under(scopes) == IF flags.cap = {} THEN scopes ELSE scopes \cap flags.cap

Saying == [listed |-> TrustedClients, clients |-> clients, grants |-> grants]

(* One edit of one file, or a window's end; a connection not minted yet may    *)
(* read either.                                                                *)
Edited ==
    /\ amended < MaxAmends /\ amended' = amended + 1
    /\ said' = [n \in Conns |-> IF said[n] = {} THEN {} ELSE said[n] \cup {Saying'}]
    /\ UNCHANGED <<doorVars, conn, call, cache>>

EditTrust ==
    /\ \/ base' = ~base /\ UNCHANGED dir
       \/ dir' \in SUBSET Extras \ {dir} /\ UNCHANGED base
    /\ UNCHANGED <<clients, grants, expired>> /\ Edited
EditClients(file) == file # clients /\ clients' = file /\ UNCHANGED <<base, dir, grants, expired>> /\ Edited
EditGrants(file) == file # grants /\ grants' = file /\ UNCHANGED <<base, dir, clients, expired>> /\ Edited

Expires(c) ==
    /\ c \in Mortal \ expired /\ expired' = expired \cup {c}
    /\ UNCHANGED <<base, dir, clients, grants>> /\ Edited

-----------------------------------------------------------------------------
(* The start of the door: which of the three postures, and what stops it.      *)

NamedGrants ==
    IF ~Parses(clients) THEN {}
    ELSE ({clients.default} \cup {clients.entries[c].grant : c \in DOMAIN clients.entries}) \ {None}
Surface == flags.cap \cup UNION {Under(ScopesIn(grants, g)) : g \in NamedGrants}
Optional == {FaceOf[s] : s \in Surface} \ {"host", "layers"}

(* A personal scope makes the door calendar-only; one with layers has no more. *)
Faces ==
    IF flags.layers THEN {"layers"}
    ELSE Optional \cup (IF "personal" \in Optional THEN {} ELSE {"host"})

Refuses ==
    \/ TrustedClients = None
    \/ clients # None /\ ~Parses(clients)
    \/ (flags.layers \/ flags.require) /\ clients = None
    \/ flags.layers /\ Optional # {}

Start ==
    /\ door = "down"
    /\ IF Refuses THEN door' = "stopped" /\ UNCHANGED faces
       ELSE /\ door' = IF clients # None THEN "grants"
                       ELSE IF flags.cap = {} THEN "workspaces" ELSE "ceiling"
            /\ faces' = Faces
    /\ UNCHANGED <<filesVars, flags, conn, call, cache, amended, said>>

DoorServes == door \notin {"down", "stopped"}

-----------------------------------------------------------------------------
(* A connection: its handshake, what its certificate is, its session.          *)

Steps(n, c) ==
    /\ conn' = [conn EXCEPT ![n] = c]
    /\ UNCHANGED <<filesVars, doorVars, call, cache, amended>>
Asking(n, c) == Steps(n, c) /\ UNCHANGED said
Closes(n) == Steps(n, New) /\ said' = [said EXCEPT ![n] = {}]
Opens(n, scopes, who) ==
    /\ Steps(n, [conn[n] EXCEPT !.at = "open", !.scopes = scopes, !.who = who])
    /\ said' = [said EXCEPT ![n] = {}]

(* Every handshake is a full one, and reads the list; a lobby door's admits    *)
(* any certificate inside its window.                                          *)
Resumed(c) == c \in Certs       \* mutant: a resumed handshake calls no verifier
Verifies(c) == c \notin expired /\ (flags.lobby \/ Trusts(c))
Handshake(n, c) ==
    /\ DoorServes /\ conn[n].at = "new" /\ Verifies(c)
    /\ Steps(n, [New EXCEPT !.cert = c, !.at = IF flags.lobby THEN "shaken" ELSE "trusted"])
    /\ said' = [said EXCEPT ![n] = {Saying}]

Router(n) ==
    /\ conn[n].at = "shaken"
    /\ IF TrustedClients = None THEN Closes(n)
       ELSE Asking(n, [conn[n] EXCEPT !.at = IF Trusts(conn[n].cert) THEN "trusted" ELSE "stranger"])

(* The lobby capability is the whole authority: no ceiling, no grant.          *)
Lobby(n) == conn[n].at = "stranger" /\ Opens(n, {"say"}, conn[n].cert)

(* The minter, once per connection: the enrollment, then the grant it names.   *)
DefaultForAll(n) ==     \* mutant: the default answers for a certificate with no entry
    LET c == conn[n].cert
        named == IF Enrolls(clients, c) THEN GrantFor(clients, c) ELSE clients.default
    IN
    /\ door = "grants" /\ conn[n].at = "trusted"
    /\ IF Parses(clients) /\ named # None
       THEN Asking(n, [conn[n] EXCEPT !.at = "enrolled", !.grant = named, !.who = c])
       ELSE Closes(n)
Authorize(n) ==
    LET c == conn[n].cert IN
    /\ door = "grants" /\ conn[n].at = "trusted"
    /\ IF Enrolls(clients, c)
       THEN Asking(n, [conn[n] EXCEPT !.at = "enrolled", !.grant = GrantFor(clients, c),
                                      !.who = NamedBy(clients, c)])
       ELSE Closes(n)
Mint(n) ==
    LET scopes == ScopesIn(grants, conn[n].grant) IN
    /\ conn[n].at = "enrolled"
    /\ IF scopes = {} THEN Closes(n) ELSE Opens(n, Under(scopes), conn[n].who)
MintShared(n) ==
    /\ door \in {"ceiling", "workspaces"} /\ conn[n].at = "trusted"
    /\ Opens(n, IF door = "ceiling" THEN flags.cap ELSE {"files"}, conn[n].cert)

(* At its age the door takes no further call, waits for the one in progress,   *)
(* and closes.                                                                 *)
Age(n) == conn[n].at = "open" /\ Asking(n, [conn[n] EXCEPT !.at = "aged"])
CloseAged(n) == conn[n].at = "aged" /\ call[n] = NoCall /\ Closes(n)
Leave(n) == conn[n].at # "new" /\ call[n] = NoCall /\ Closes(n)

-----------------------------------------------------------------------------
(* A call: admitted under the session, answered by the kernel or its cache.    *)

Exchange(n, c, kept) ==
    /\ call' = [call EXCEPT ![n] = c] /\ cache' = kept
    /\ UNCHANGED <<filesVars, doorVars, conn, amended, said>>

(* `carries` is None, or what the call carries of its own; `names` the one it  *)
(* gives as its principal.                                                     *)
Ask(n, what, carries, names) ==
    /\ conn[n].at = "open" /\ call[n] = NoCall
    /\ Exchange(n, [at |-> "asked", what |-> what, carries |-> carries, names |-> names], cache)

Clamp(session, carries) == IF carries = None THEN session.scopes ELSE session.scopes \cap carries
Localize(session, what) == IF what = "files" THEN session.cert ELSE None
StampedAsNamed(session, names) == IF names = None THEN session.who ELSE names    \* mutant
Stamped(session, names) == session.who

(* What the answer hangs from, and so what the kernel keeps it under.          *)
KeyOf(session, c) ==
    [target |-> <<c.what, Localize(session, c.what)>>, principal |-> Stamped(session, c.names),
     scopes |-> Clamp(session, c.carries)]
Maker(n) == [who |-> conn[n].who, cert |-> conn[n].cert]

Answer(n) ==
    LET key == KeyOf(conn[n], call[n])
        kept == {k \in cache : k.key = key}
        made == [key |-> key, by |-> Maker(n)]
    IN
    /\ call[n].at = "asked"
    /\ IF call[n].what \notin key.scopes \/ FaceOf[call[n].what] \notin faces
       THEN Exchange(n, [at |-> "denied"], cache)
       ELSE \/ /\ kept # {} /\ \E k \in kept : Exchange(n, [at |-> "answered", of |-> call[n], by |-> k.by], cache)
            \/ /\ kept = {}
               /\ Exchange(n, [at |-> "answered", of |-> call[n], by |-> Maker(n)],
                        IF Cardinality(cache) < MaxCached THEN cache \cup {made} ELSE cache)
Told(n) == call[n].at \in {"answered", "denied"} /\ Exchange(n, NoCall, cache)

-----------------------------------------------------------------------------
EditFile ==
    \/ EditTrust
    \/ \E f \in ClientFiles \cup {None} : EditClients(f)
    \/ \E f \in GrantFiles \cup {Broken} : EditGrants(f)
Admit(n) == Router(n) \/ Lobby(n) \/ Authorize(n) \/ Mint(n) \/ MintShared(n)
DoorStep(n) == Admit(n) \/ Age(n) \/ CloseAged(n) \/ Answer(n) \/ Told(n)
Client(n) ==
    \/ \E c \in Certs : Handshake(n, c)
    \/ \E s \in Scopes, k \in Carried \cup {None}, w \in Certs \cup {None} : Ask(n, s, k, w)
    \/ Leave(n)

DoorNext ==
    \/ EditFile \/ Start
    \/ \E c \in Certs : Expires(c)
    \/ \E n \in Conns : DoorStep(n) \/ Client(n)

DoorSpec == DoorInit /\ [][DoorNext]_admissionVars
(* The door's own tasks run, and a connection's age is a timer of its own; its *)
(* clients need not do anything.                                               *)
DoorFairSpec ==
    /\ DoorSpec
    /\ \A n \in Conns : WF_admissionVars(Admit(n) \/ Age(n) \/ CloseAged(n)) /\ WF_admissionVars(Answer(n) \/ Told(n))

-----------------------------------------------------------------------------
(* What a connection is given, some reading of the files since it began gave   *)
(* its certificate: a listed certificate with an entry of its own, the scopes  *)
(* of the grant that entry named, under the ceiling; or, unlisted, the lobby   *)
(* alone (authorize, lobby_router and the minters of serve_quic).              *)
Given(n) ==
    LET c == conn[n].cert IN
    \/ /\ flags.lobby /\ conn'[n].scopes = {"say"}
       /\ \E s \in said[n] : s.listed # None /\ c \notin s.listed
    \/ /\ \E s \in said[n] : s.listed # None /\ c \in s.listed
       /\ door = "grants" =>
            \E s, t \in said[n] :
               /\ Enrolls(s.clients, c) /\ conn'[n].who = NamedBy(s.clients, c)
               /\ conn'[n].scopes \subseteq ScopesIn(t.grants, GrantFor(s.clients, c))
       /\ flags.cap # {} => conn'[n].scopes \subseteq flags.cap
MintedAsSaid == [][\A n \in Conns : conn[n].at # "open" /\ conn'[n].at = "open" => Given(n)]_admissionVars

(* An answer was made for the one it is given to: what a call carries narrows  *)
(* and what it names is nothing, and one principal's answer, or the file of    *)
(* one client's segment, is no other's, kept or not (dispatch_call, admit).    *)
EachItsOwn ==
    \A n \in Conns : call[n].at = "answered" =>
        /\ call[n].of.what \in conn[n].scopes
        /\ call[n].of.carries # None => call[n].of.what \in call[n].of.carries
        /\ call[n].by.who = conn[n].who
        /\ call[n].of.what = "files" => call[n].by.cert = conn[n].cert

(* Editing revokes: once the files give a certificate nothing, and are left    *)
(* alone, it comes to have no session for good, whatever its connection was    *)
(* minted with (the bound on a connection's age, serve_connection_aged).       *)
Admissible(c) ==
    /\ c \notin expired
    /\ \/ flags.lobby /\ TrustedClients # None /\ ~Trusts(c)
       \/ Trusts(c) /\ (door = "grants" => Enrolls(clients, c) /\ ScopesIn(grants, GrantFor(clients, c)) # {})
EditRevokes ==
    \A c \in Certs :
        amended = MaxAmends /\ ~Admissible(c)
            ~> [](\A n \in Conns : conn[n].cert = c => conn[n].at \notin {"open", "aged"})
=============================================================================
