------------------------------ MODULE IntakeDoor ------------------------------
(* A public form (crates/ikigai-intake/src/lib.rs) and what it leans on: the  *)
(* decision log, whose blocks turn a sender away unnoticed, and the people    *)
(* ledger, both files of one record per line that several programs append to  *)
(* (crates/ikigai-embedded/src/decisions.rs, people.rs, jsonl.rs); and the    *)
(* client records that say who a link was given to (lib.rs, ClientIssue).     *)
(* A submission waits at every call it makes, and its client may hang up.     *)
EXTENDS Naturals, FiniteSets

CONSTANTS
    Posts,          \* the submissions
    Submissions,    \* what each may be
    Addresses, Folded,      \* addresses as spelled, and in lower case
    Declared,       \* IntakeConfig.fields
    Tokens,         \* the links' tokens, each minted once
    Issued, Edited, \* records ClientIssue writes, and what an editor may leave
    MaxAppends, MaxCuts     \* bounds on the appends, and on those cut short

Stamps == {"received", "client"}
NoValue == "none"      \* of a token: none came, or not token_shaped

ASSUME IntakeDoorAssumption ==
    /\ Folded \in [Addresses -> STRING]
    /\ {NoValue, "garbled"} \cap Addresses = {} /\ NoValue \notin Tokens
    /\ Declared \cap (Stamps \cup {"via", "via-earliest"}) = {}
    /\ Submissions \subseteq [read : BOOLEAN, trap : BOOLEAN, fit : BOOLEAN, from : Addresses,
                              typed : SUBSET STRING, token : Tokens \cup {NoValue}]
    /\ \A k \in Tokens : k # "visitor"
    /\ \A r \in Issued \cup Edited : r.id # "visitor" /\ r.earliest # "visitor"
    /\ MaxAppends \in Nat /\ MaxCuts \in Nat

VARIABLES
    logs,       \* per book: its lines, each a record or what is left of one
    torn,       \* per book: its last line, if that has no end
    utf8,       \* per book: it reads
    kept,       \* per book: the records told recorded, on a line of their own
    cuts,       \* how many appends were cut short
    suspects,   \* the addresses somebody began to block, or joined to a torn line
    clients,    \* per token: its file
    handed,     \* the tokens whose link was told
    said,       \* per token: the records its file has held
    post        \* each submission and where it is

formVars == <<logs, torn, utf8, kept, cuts, suspects, clients, handed, said, post>>
books == <<logs, torn, utf8, kept, cuts, suspects>>
registry == <<clients, handed, said>>

Books == {"decisions", "people"}
New == [at |-> "new"]
Ended == [act |-> "no line", email |-> NoValue]
NoFile == [id |-> "no file", earliest |-> NoValue]
Unfilled == [id |-> "no record", earliest |-> NoValue]

FormInit ==
    /\ logs = [b \in Books |-> {}] /\ torn = [b \in Books |-> Ended]
    /\ utf8 = [b \in Books |-> TRUE] /\ kept = [b \in Books |-> {}]
    /\ cuts = 0 /\ suspects = {}
    /\ clients = [k \in Tokens |-> NoFile] /\ handed = {} /\ said = [k \in Tokens |-> {}]
    /\ post = [p \in Posts |-> New]

-----------------------------------------------------------------------------
(* The two books.  A decision names what was decided and an address; a contact *)
(* an address.                                                                *)
Records(b) == [act : IF b = "people" THEN {NoValue} ELSE {"block", "approve"}, email : Addresses]

(* What is on disk of a record whose write ended early: up to within its      *)
(* action, its address, or all but the line's end.                            *)
Remains(r) ==
    {[act |-> NoValue, email |-> NoValue], r}
    \cup {[act |-> r.act, email |-> e] : e \in {NoValue, "garbled"}}
    \cup (IF r.act = NoValue THEN {} ELSE {[act |-> "garbled", email |-> NoValue]})

(* jsonl::field takes the first of a name's values: a record that follows a   *)
(* torn one is on its line and fills in what it had not come to.              *)
First(x, y) == IF x = NoValue THEN y ELSE x
Joined(line, r) == [act |-> First(line.act, r.act), email |-> First(line.email, r.email)]

Clean(b) == torn[b] = Ended
Line(b, r) == IF Clean(b) THEN r ELSE Joined(torn[b], r)

Suspected(b, r) ==
    suspects' = suspects \cup
        (IF r.act = "block" \/ (b = "decisions" /\ ~Clean(b)) THEN {Folded[r.email]} ELSE {})

Appends == Cardinality(logs["decisions"]) + Cardinality(logs["people"])

(* Sink urn:decisions, Sink urn:people: "recorded". *)
SinkRecord(b, r) ==
    /\ Appends < MaxAppends
    /\ logs' = [logs EXCEPT ![b] = @ \cup {Line(b, r)}]
    /\ torn' = [torn EXCEPT ![b] = Ended]
    /\ kept' = IF Clean(b) THEN [kept EXCEPT ![b] = @ \cup {r}] ELSE kept
    /\ Suspected(b, r)
    /\ UNCHANGED <<utf8, cuts, registry, post>>

(* The disk is full or the program ends: part of the line is there, perhaps   *)
(* to within a character.                                                     *)
CutShort(b, r, left, within) ==
    /\ cuts < MaxCuts /\ cuts' = cuts + 1
    /\ within => left.email # r.email /\ left.act = r.act
    /\ torn' = [torn EXCEPT ![b] = Line(b, left)]
    /\ utf8' = [utf8 EXCEPT ![b] = @ /\ ~within]
    /\ Suspected(b, r)
    /\ UNCHANGED <<logs, kept, registry, post>>

(* read_lines: a book that is not UTF-8 throughout reads as empty. *)
Lines(b) == IF utf8[b] THEN logs[b] \cup {torn[b]} ELSE {}

(* is_blocked_at. *)
AsSpelled(e) == [act |-> "block", email |-> e] \in Lines("decisions")
Blocked(e) ==
    \E line \in Lines("decisions") :
        /\ line.act = "block" /\ line.email \in Addresses
        /\ Folded[line.email] = Folded[e]

(* PeopleLedger: the roster has one entry per address. *)
Roster == {Folded[line.email] : line \in {x \in Lines("people") : x.email \in Addresses}}

-----------------------------------------------------------------------------
(* ClientIssue writes the record of a token of its own, then tells the link;  *)
(* what comes between may fail, and nothing takes the record back.            *)
FileHolds(k, file) ==
    /\ clients' = [clients EXCEPT ![k] = file]
    /\ said' = [said EXCEPT ![k] = IF file \in {NoFile, Unfilled} THEN @ ELSE @ \cup {file}]

Create(k) ==
    /\ clients[k] = NoFile /\ said[k] = {} /\ k \notin handed
    /\ FileHolds(k, Unfilled)
    /\ UNCHANGED <<books, handed, post>>

Fill(k) ==
    /\ clients[k] = Unfilled /\ said[k] = {}
    /\ \E r \in Issued : FileHolds(k, r)
    /\ UNCHANGED <<books, handed, post>>

Tell(k) ==
    /\ said[k] # {} /\ k \notin handed
    /\ handed' = handed \cup {k}
    /\ UNCHANGED <<books, clients, said, post>>

(* An operator revokes a link by removing its record, or edits the file.      *)
Administer(k) ==
    /\ k \in handed /\ clients[k] # NoFile
    /\ \E file \in Edited \cup {NoFile, Unfilled} : file # clients[k] /\ FileHolds(k, file)
    /\ UNCHANGED <<books, handed, post>>

-----------------------------------------------------------------------------
(* The form.  IntakeEndpoint::invoke up to its first call: a filled honeypot   *)
(* is answered as a submission is, whatever else it holds, and only declared   *)
(* fields are carried.                                                        *)
Goto(p, where) == post' = [post EXCEPT ![p].at = where]

Carried(s) == [f \in {"email"} \cup (s.typed \cap Declared) |-> "visitor"]

Judged(s) ==
    IF ~s.read THEN "error" ELSE IF s.trap THEN "received" ELSE IF ~s.fit THEN "error" ELSE "check"

Submit(p, s) ==
    /\ post[p] = New /\ s.token \in handed \cup {NoValue}
    /\ post' = [post EXCEPT ![p] =
         [at |-> Judged(s), form |-> s, tuple |-> Carried(s), dropped |-> FALSE,
          checked |-> "no", known |->
            \E r \in kept["decisions"] : r.act = "block" /\ Folded[r.email] = Folded[s.from]]]
    /\ UNCHANGED <<books, registry>>

(* Source urn:decisions blocked=...: only a yes turns the sender away. *)
CheckSender(p, asked) ==
    /\ post[p].at = "check"
    /\ post' = [post EXCEPT
         ![p].at = IF asked /\ Blocked(post[p].form.from) THEN "received" ELSE "token",
         ![p].checked = IF ~asked THEN "unasked" ELSE IF utf8["decisions"] THEN "asked" ELSE "unread"]
    /\ UNCHANGED <<books, registry>>

(* lookup_client: who the link was given to, and what its issuer attests; no   *)
(* token, or a lookup that fails, leaves the submission anonymous.  A record   *)
(* without an id goes by its token.                                           *)
Attested(k, r) ==
    [f \in {"via"} \cup (IF r.earliest = NoValue THEN {} ELSE {"via-earliest"}) |->
        IF f = "via-earliest" THEN r.earliest ELSE First(r.id, k)]

Stamped == [f \in Stamps |-> "transport"]
Over(f, g) == [x \in DOMAIN f \cup DOMAIN g |-> IF x \in DOMAIN f THEN f[x] ELSE g[x]]

LookUp(p, found) ==
    LET k == post[p].form.token
        via == IF found THEN Over(Attested(k, clients[k]), post[p].tuple) ELSE post[p].tuple
    IN  /\ post[p].at = "token"
        /\ found => k # NoValue /\ clients[k] \notin {NoFile, Unfilled}
        /\ post' = [post EXCEPT ![p].at = "drop", ![p].tuple = Over(Stamped, via)]
        /\ UNCHANGED <<books, registry>>

(* The space's Sink: a failure may have come before or after the drop. *)
DropTuple(p, ok, landed) ==
    /\ post[p].at = "drop" /\ (ok => landed)
    /\ post' = [post EXCEPT ![p].at = IF ok THEN "received" ELSE "error", ![p].dropped = landed]
    /\ UNCHANGED <<books, registry>>

FormHangsUp(p) ==
    /\ post[p].at \in {"check", "token", "drop"}
    /\ Goto(p, "gone")
    /\ UNCHANGED <<books, registry>>

-----------------------------------------------------------------------------
FormNext ==
    \/ \E b \in Books : \E r \in Records(b) :
          \/ SinkRecord(b, r)
          \/ \E left \in Remains(r), within \in BOOLEAN : CutShort(b, r, left, within)
    \/ \E k \in Tokens : Create(k) \/ Fill(k) \/ Tell(k) \/ Administer(k)
    \/ \E p \in Posts :
          \/ \E s \in Submissions : Submit(p, s)
          \/ \E yes \in BOOLEAN : CheckSender(p, yes) \/ LookUp(p, yes)
          \/ \E ok, landed \in BOOLEAN : DropTuple(p, ok, landed)
          \/ FormHangsUp(p)

FormSpec == FormInit /\ [][FormNext]_formVars

-----------------------------------------------------------------------------
Begun == {p \in Posts : post[p] # New}

(* A sender blocked by a record that went onto a line of its own reaches the  *)
(* space in no later submission, however the address is spelled, unless the   *)
(* log could not be asked or does not read.                                   *)
BlocksHold ==
    \A p \in Begun : post[p].dropped /\ post[p].known => post[p].checked # "asked"

(* "Received" is said of a submission that is in the space, whose honeypot    *)
(* was filled, or whose sender somebody began to block; or whose decision     *)
(* was written onto the remains of another.                                   *)
NothingDiscarded ==
    \A p \in Begun :
        post[p].at = "received" /\ ~post[p].dropped =>
            post[p].form.trap \/ Folded[post[p].form.from] \in suspects

(* "A handler that widens a booking window on via-earliest": what a tuple says *)
(* of its link is one record of that link's, whole, and the visitor typed     *)
(* none of it; nor what the transport says.                                   *)
TupleSaysWho ==
    \A p \in Begun : post[p].dropped =>
        LET t == post[p].tuple
            via == DOMAIN t \cap {"via", "via-earliest"}
        IN  /\ \A f \in DOMAIN t : t[f] = "visitor" => f \in Declared \cup {"email"}
            /\ via # {} =>
                \E r \in said[post[p].form.token] :
                    [f \in via |-> t[f]] = Attested(post[p].form.token, r)

(* Who a person reached out to is asked of the ledger, which keeps everybody  *)
(* it was told of on a line of their own while it reads.                      *)
PeopleKept == \A r \in kept["people"] : utf8["people"] => Folded[r.email] \in Roster

EnquiriesKept == BlocksHold /\ NothingDiscarded /\ TupleSaysWho /\ PeopleKept
=============================================================================
