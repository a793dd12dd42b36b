------------------------------ MODULE LayerFront ------------------------------
(* The layer host's HTTPS front (src/crates/ikigai-cli/src/front.rs): requests *)
(* that present a bearer token, speak for the enrolled client it is bound to,  *)
(* and are issued on the QUIC door's kernel; the operator's `layers-token      *)
(* mint` and `revoke` (src/crates/ikigai-cli/src/main.rs), which rewrite       *)
(* layer-tokens.json (src/crates/ikigai-embedded/src/tokens.rs), several at a  *)
(* time; and the enrollment they both read, which is edited                    *)
(* (src/crates/ikigai-embedded/src/clients.rs).                                *)
EXTENDS Naturals, FiniteSets

CONSTANTS
    Requests,       \* the requests under way at once
    MaxConnections, \* EdgeConfig::max_connections
    Shapes,         \* [method, path, override, query, body]: what a request asks
    Tokens, Clients,
    PrincipalOf,    \* the principal each client's entry names
    ClientFiles,    \* [entries, bare, default] or Broken: what clients.json may hold
    Operators,      \* the layers-token processes that run at once
    MaxEdits, MaxCommands,
    None, Broken, Half

VARIABLES
    clients,        \* clients.json, None for no file
    inode,          \* what each file on disk holds
    tokens, partial,    \* layer-tokens.json and the file beside it: their inodes, 0 for none
    op,             \* per operator: its command and how far it is
    minted,         \* the tokens generated so far
    request,        \* per request: what it asked, and how far it is
    edits, commands,
    revoked         \* the tokens whose revoke returned and met no other command

diskVars == <<clients, inode, tokens, partial>>
opVars == <<op, minted, commands, revoked>>
frontVars == <<diskVars, opVars, request, edits>>

Inodes == 1 .. Cardinality(Operators) + 2
Empty == [t \in {} |-> None]
Off == [at |-> "off"]

ASSUME LayerFrontAssumption ==
    /\ MaxConnections \in Nat /\ MaxEdits \in Nat /\ MaxCommands \in Nat
    /\ DOMAIN PrincipalOf = Clients /\ None \notin ClientFiles /\ IsFiniteSet(Operators)
    /\ \A f \in ClientFiles \ {Broken} : f.bare \subseteq f.entries /\ f.entries \subseteq Clients

FrontInit ==
    /\ clients \in ClientFiles \ {Broken}
    /\ inode = [i \in Inodes |-> Empty] /\ tokens = 0 /\ partial = 0
    /\ op = [p \in Operators |-> Off] /\ minted = {} /\ commands = 0 /\ revoked = {}
    /\ request = [r \in Requests |-> Off] /\ edits = 0

-----------------------------------------------------------------------------
(* The enrollment: an entry of its own first, and only then the grant it names *)
(* or the default.                                                             *)

Reads(file) == file \notin {None, Broken} /\ (file.bare = {} \/ file.default)
Enrolled(file, c) == Reads(file) /\ c \in file.entries
(* Until 0.1.63 the default was every trusted certificate's. *)
DefaultForAll(file, c) == Reads(file) /\ (c \in file.entries \/ file.default)

Authorized(file, c) == Enrolled(file, c)

(* A key, or a principal that one entry names.                                 *)
Resolved(file, named) ==
    IF Enrolled(file, named) THEN {named}
    ELSE LET keys == {c \in Clients : Enrolled(file, c) /\ PrincipalOf[c] = named} IN
         IF Cardinality(keys) = 1 THEN keys ELSE {}

EditClients(file) ==
    /\ edits < MaxEdits /\ edits' = edits + 1
    /\ file # clients /\ clients' = file
    /\ request' = [r \in Requests |->
         IF request[r].at \in {"head", "bound"}
         THEN [request[r] EXCEPT !.seen = @ \cup {c \in Clients : Enrolled(file, c)}]
         ELSE request[r]]
    /\ UNCHANGED <<inode, tokens, partial, opVars>>

-----------------------------------------------------------------------------
(* layers-token: load, change, write beside, rename.                           *)

Held == IF tokens = 0 THEN Empty ELSE inode[tokens]
Alone == \A q \in Operators : op[q].at = "off"
NotAlone(p) == [q \in Operators |->
    IF q # p /\ op[q].at # "off" THEN [op[q] EXCEPT !.alone = FALSE] ELSE op[q]]

Load(p) ==
    /\ op[p].at = "off" /\ commands < MaxCommands /\ commands' = commands + 1
    /\ Held # Half
    /\ op' = [NotAlone(p) EXCEPT ![p] = [at |-> "loaded", held |-> Held, alone |-> Alone]]
    /\ UNCHANGED <<diskVars, minted, revoked, request, edits>>

Writes(p, what, held) ==
    op' = [op EXCEPT ![p] = [at |-> "changed", held |-> held, alone |-> op[p].alone, gone |-> what]]

Stops(p) == op' = [op EXCEPT ![p] = Off]

Mint(p, t, named) ==
    /\ op[p].at = "loaded" /\ t \notin minted
    /\ IF Resolved(clients, named) = {} THEN Stops(p) /\ UNCHANGED minted
       ELSE \E c \in Resolved(clients, named) :
              /\ minted' = minted \cup {t}
              /\ Writes(p, None, [u \in DOMAIN op[p].held \cup {t} |->
                                    IF u = t THEN c ELSE op[p].held[u]])
    /\ UNCHANGED <<diskVars, commands, revoked, request, edits>>

Revoke(p, t) ==
    /\ op[p].at = "loaded"
    /\ IF t \in DOMAIN op[p].held
       THEN Writes(p, t, [u \in DOMAIN op[p].held \ {t} |-> op[p].held[u]])
       ELSE Stops(p)
    /\ UNCHANGED <<diskVars, minted, commands, revoked, request, edits>>

(* fs::write opens the one file beside, another command's included, cuts it    *)
(* and then fills it.                                                          *)
Cut(p) ==
    LET i == IF partial # 0 THEN partial
             ELSE CHOOSE j \in Inodes : j # tokens /\ \A q \in Operators :
                    op[q].at = "cut" => op[q].on # j
    IN
    /\ op[p].at = "changed"
    /\ partial' = i /\ inode' = [inode EXCEPT ![i] = Half]
    /\ op' = [op EXCEPT ![p] = [at |-> "cut", on |-> i, held |-> op[p].held,
                                alone |-> op[p].alone, gone |-> op[p].gone]]
    /\ UNCHANGED <<clients, tokens, minted, commands, revoked, request, edits>>

Fill(p) ==
    /\ op[p].at = "cut"
    /\ inode' = [inode EXCEPT ![op[p].on] = op[p].held]
    /\ op' = [op EXCEPT ![p] = [at |-> "full", alone |-> op[p].alone, gone |-> op[p].gone]]
    /\ UNCHANGED <<clients, tokens, partial, minted, commands, revoked, request, edits>>

Replace(p) ==
    /\ op[p].at = "full" /\ Stops(p)
    /\ IF partial = 0 THEN UNCHANGED <<tokens, partial, revoked>>
       ELSE /\ tokens' = partial /\ partial' = 0
            /\ revoked' = IF op[p].alone /\ op[p].gone # None
                          THEN revoked \cup {op[p].gone} ELSE revoked
    /\ UNCHANGED <<clients, inode, minted, commands, request, edits>>

(* A command is killed, or its write refused; what it wrote beside stays.      *)
Killed(p) ==
    /\ op[p].at # "off" /\ Stops(p)
    /\ UNCHANGED <<diskVars, minted, commands, revoked, request, edits>>

-----------------------------------------------------------------------------
(* A request: its session first, then its route, then the kernel.              *)

Answered(r, status) == request' = [request EXCEPT ![r] = [at |-> "answered", status |-> status]]

Serving == {r \in Requests : request[r].at \notin {"off", "answered"}}

(* A connection past the cap is answered 503, whatever it asks.                *)
Accept(r, shape, token) ==
    /\ request[r].at \in {"off", "answered"}
    /\ IF Cardinality(Serving) >= MaxConnections THEN Answered(r, 503)
       ELSE request' = [request EXCEPT ![r] =
              [at |-> "head", asks |-> shape, token |-> token, dead |-> revoked,
               seen |-> {c \in Clients : Enrolled(clients, c)}]]
    /\ UNCHANGED <<diskVars, opVars, edits>>

(* layer-tokens.json is read on every request; one that does not parse binds   *)
(* nothing.                                                                    *)
Bind(r) ==
    /\ request[r].at = "head"
    /\ IF Held # Half /\ request[r].token \in DOMAIN Held
       THEN request' = [request EXCEPT ![r] =
              [at |-> "bound", asks |-> request[r].asks, token |-> request[r].token,
               dead |-> request[r].dead, seen |-> request[r].seen,
               client |-> Held[request[r].token]]]
       ELSE Answered(r, 401)
    /\ UNCHANGED <<diskVars, opVars, edits>>

(* The QUIC door's minter reads the enrollment as it does for a certificate.   *)
Session(r) ==
    /\ request[r].at = "bound"
    /\ IF Authorized(clients, request[r].client)
       THEN request' = [request EXCEPT ![r].at = "session"]
       ELSE Answered(r, 401)
    /\ UNCHANGED <<diskVars, opVars, edits>>

Reading == {"GET", "HEAD"}
Read(what) == [methods |-> Reading, verb |-> "Source", on |-> what]
Post(verb, what) == [methods |-> {"POST"}, verb |-> verb, on |-> what]

(* A path of the table, and of `tuples` the one its method and override name.  *)
Route(shape) ==
    CASE shape.path \in {"feed", "entries"} -> Read(shape.path)
      [] shape.path = "rd" -> Read("tuples")
      [] shape.path = "say" -> Post("Sink", "say")
      [] shape.path = "out" -> Post("Sink", "tuples")
      [] shape.path = "take" -> Post("Delete", "tuples")
      [] shape.path = "tuples" /\ shape.method \in Reading -> Read("tuples")
      [] shape.path = "tuples" /\ shape.method \notin Reading /\ shape.override = None ->
           Post("Sink", "tuples")
      [] shape.path = "tuples" /\ shape.method \notin Reading /\ shape.override = "DELETE" ->
           Post("Delete", "tuples")
      [] OTHER -> None

Refusal(shape) ==
    CASE Route(shape) = None ->
           IF shape.path = "tuples" THEN 400 ELSE 404
      [] Route(shape) # None /\ shape.method \notin Route(shape).methods -> 405
      [] Route(shape) # None /\ shape.method \in Route(shape).methods /\ "twice" \in shape.query -> 400
      [] OTHER -> 0

Dropped == {"principal", "content"}

Decide(r) ==
    LET shape == request[r].asks IN
    /\ request[r].at = "session"
    /\ IF Refusal(shape) # 0 THEN Answered(r, Refusal(shape))
       ELSE request' = [request EXCEPT ![r] =
              [at |-> IF Route(shape).verb = "Sink" /\ shape.body = "bare object"
                      THEN "context" ELSE "routed",
               token |-> request[r].token, dead |-> request[r].dead,
               seen |-> request[r].seen, client |-> request[r].client,
               asks |-> shape, args |-> shape.query \ Dropped]]
    /\ UNCHANGED <<diskVars, opVars, edits>>

(* A bare JSON object is put under the layer's context, read as the caller; or *)
(* it is left as sent.                                                         *)
UnderContext(r) ==
    /\ request[r].at = "context"
    /\ request' = [request EXCEPT ![r].at = "routed"]
    /\ UNCHANGED <<diskVars, opVars, edits>>

(* The kernel, under the session the request was given.                        *)
Issue(r) ==
    /\ request[r].at = "routed"
    /\ request' = [request EXCEPT ![r].at = "issued"]
    /\ UNCHANGED <<diskVars, opVars, edits>>

(* The answer is written; a header that is not safe to write makes it a 500.   *)
Reply(r) ==
    /\ request[r].at = "issued" /\ \E status \in {200, 500} : Answered(r, status)
    /\ UNCHANGED <<diskVars, opVars, edits>>

(* A handshake or a head that is late, or a client that leaves. *)
Leaves(r) ==
    /\ request[r].at \in {"head", "issued"}
    /\ request' = [request EXCEPT ![r] = Off]
    /\ UNCHANGED <<diskVars, opVars, edits>>

Command(p) ==
    \/ Load(p) \/ Cut(p) \/ Fill(p) \/ Replace(p) \/ Killed(p)
    \/ \E t \in Tokens : Revoke(p, t) \/ \E n \in Clients \cup {PrincipalOf[c] : c \in Clients} :
         Mint(p, t, n)
Serve(r) ==
    \/ \E s \in Shapes, t \in Tokens : Accept(r, s, t)
    \/ Bind(r) \/ Session(r) \/ Decide(r) \/ UnderContext(r) \/ Issue(r) \/ Reply(r) \/ Leaves(r)

FrontNext ==
    \/ \E f \in ClientFiles \cup {None} : EditClients(f)
    \/ \E p \in Operators : Command(p)
    \/ \E r \in Requests : Serve(r)

FrontSpec == FrontInit /\ [][FrontNext]_frontVars

-----------------------------------------------------------------------------
(* Who a request speaks for: a token that was minted and whose revocation had  *)
(* not returned when the request came, bound to a client with an entry of its  *)
(* own in the enrollment at some moment since then.                            *)
ForItsClient(r) ==
    /\ request[r].token \in minted \ request[r].dead
    /\ request[r].client \in request[r].seen

(* What it may be: a GET or a HEAD changes nothing whatever else it says, only *)
(* the two ways of asking for a take take, and who asks is not the caller's    *)
(* to name, nor anything but its body the content.                             *)
AsItAsked(r) ==
    LET shape == request[r].asks
        verb == Route(shape).verb
    IN
    /\ shape.method \in Reading => verb = "Source"
    /\ verb = "Delete" =>
         /\ shape.method = "POST"
         /\ shape.path = "take" \/ (shape.path = "tuples" /\ shape.override = "DELETE")
    /\ Dropped \cap request[r].args = {}

SpeaksForItsClient ==
    \A r \in Requests : request[r].at \in {"context", "issued"} => ForItsClient(r) /\ AsItAsked(r)
=============================================================================
