------------------------------- MODULE MCEdge -------------------------------
(* A serving edge's door, two requests at a time: the signed links, which act *)
(* once; the passkeys that confirm a decision; the rate limits per source;    *)
(* its connections, with what they upload; a form, beside three records of    *)
(* two books, or beside the records of a client; the writes of one document,  *)
(* under every kind of precondition; two items of one path, deleted and put   *)
(* back; and what a cache may keep of the reads.  A behaviour is one part's.  *)
(*                                                                            *)
(* A device that counts and one that does not.  Two rules, one of them for    *)
(* part of what the other governs, and a table of windows that holds fewer    *)
(* than there are (rule, source) pairs in use.  Two connections, two requests *)
(* each: bodies past a bound, refused, spilled side by side past the store's. *)
EXTENDS DecideLinks, SourceLimit, IntakeDoor, Passkey, WebDoor, WebWrites, WebReads,
        FiniteSetTheorems, TLC, TLAPS

VARIABLE part    \* "decide", "passkey", "limit", "door", "blocks", "links",
                 \* "document", "items" or "reads"

MCGoverns == [r \in Rules |-> IF r = "submit" THEN {"form"} ELSE {"form", "page"}]
MCPrefix == [r \in Rules |-> IF r = "submit" THEN 2 ELSE 1]
MCBudget == [r \in Rules |-> IF r = "submit" THEN 1 ELSE 2]
MCWindow == [r \in Rules |-> IF r = "submit" THEN 3 ELSE 2]

R(f, b, m, ok, keep) == [target |-> "good", framing |-> f, bytes |-> b, upload |-> m # NoLen,
                         most |-> m, admitted |-> ok, keep |-> keep]
A(l, g, range) == [len |-> l, gives |-> g, fails |-> FALSE, range |-> range]
MCRequests == {R("chunked", 2, NoLen, TRUE, TRUE),
               R("length", 2, 2, TRUE, TRUE), R("length", 2, 1, TRUE, TRUE),
               R("length", 1, NoLen, FALSE, FALSE)}
MCAnswers == {A(1, 2, TRUE), A(2, 1, FALSE)}

F(from, typed, token) == [read |-> TRUE, trap |-> FALSE, fit |-> TRUE, from |-> from,
                         typed |-> typed, token |-> token]
AForm == F("ada", {"message"}, "none")
MCSubmissions ==
    {AForm, F("Spam", {"message"}, "none"), F("ada", {"via", "via-earliest", "client"}, "none"),
     [AForm EXCEPT !.trap = TRUE, !.fit = FALSE], [AForm EXCEPT !.fit = FALSE],
     [AForm EXCEPT !.read = FALSE], F("ada", {"via-earliest"}, "key")}
MCFolded == [e \in Addresses |-> IF e = "Spam" THEN "spam" ELSE e]
MCIssued == {[id |-> "jane", earliest |-> "7"]}
MCEdited == {[id |-> "none", earliest |-> "none"]}

(* Writes: two items of one path, and one document's fields.                  *)
Item(query) == <<"list", query>>
MCUrls == {Item("a"), Item("b")}
OldDoc == ("title" :> 1)
NewDoc == ("text" :> 1)
MCBodies == {OldDoc, NewDoc}
MCPatches == {"title" :> 2, "text" :> Null}
NoHeader == [kind |-> "absent", tags |-> {}]
StarTag == [kind |-> "star", tags |-> {}]
OldTag == [kind |-> "list", tags |-> {OldDoc}]
MCHeaders == {<<NoHeader, NoHeader>>, <<OldTag, NoHeader>>, <<NoHeader, StarTag>>}

(* One document, whatever is done to it, at one moment; or two items deleted  *)
(* and put back over three ticks.                                             *)
Document == INSTANCE WebWrites WITH Urls <- {Item("a")}, MaxTick <- 0
Items == INSTANCE WebWrites WITH
    Bodies <- {OldDoc}, Patches <- {}, Headers <- {<<NoHeader, NoHeader>>}, Methods <- {"PUT", "DELETE"}

(* Reads: each family of doors varies what one of the door's judgements reads.*)
Creds == {Nil, "stale", "alice", "token"}
Grants(none, named) == [c \in Creds |-> IF c \in {"alice", "token"} THEN named ELSE none]
ByDefault == [as |-> Nil, accept |-> << >>, creds |-> Nil, origin |-> Nil]
RangeOf(by, of, q) == [by |-> by, of |-> of, q |-> q]
All == {"html", "plain", "json"}

Askers == {[ByDefault EXCEPT !.creds = c] : c \in Creds}
Pages == {[ByDefault EXCEPT !.origin = o] : o \in {Nil, "A", "B"}}
Eyes == {ByDefault, [ByDefault EXCEPT !.as = "json"]}
        \union {[ByDefault EXCEPT !.accept = a] :
                   a \in {<<RangeOf(3, {"html"}, 2), RangeOf(1, All, 1)>>,
                          <<RangeOf(3, {"json"}, 2)>>, <<RangeOf(2, {"html", "plain"}, 2)>>}}

PlainDoor ==
    [pin |-> Nil, grants |-> Grants("public", "private"), names |-> FALSE, alike |-> FALSE,
     served |-> <<"html", "json">>, default |-> Nil, gives |-> "html", expiry |-> "at", life |-> 1,
     ownThread |-> TRUE, verbs |-> {"Source"}, written |-> FALSE, asked |-> Nil, noStore |-> FALSE,
     cookie |-> FALSE, accepts |-> {"cache-control"}, cors |-> {}, withCredentials |-> FALSE, produces |-> "bytes",
     states |-> FALSE, clients |-> Askers]
(* Whose capability an answer is made under, and the headers it came with.    *)
Scopes ==
    {[PlainDoor EXCEPT !.pin = s[1], !.names = s[2], !.grants = g, !.asked = k[1], !.noStore = k[2]] :
       s \in {<<Nil, FALSE>>, <<Nil, TRUE>>, <<"public", FALSE>>},
       g \in {Grants("public", "public"), Grants("public", "private"), Grants("nothing", "private")},
       k \in {<<Nil, FALSE>>, <<Nil, TRUE>>, <<{"public", "max-age"}, FALSE>>, <<{"max-age"}, TRUE>>}}
(* How long it lasts, and who may change it meanwhile.                        *)
Ageing ==
    {[PlainDoor EXCEPT !.expiry = x[1], !.life = x[2], !.ownThread = o, !.verbs = v,
                   !.written = ~o \/ v # {"Source"}, !.clients = {ByDefault, [ByDefault EXCEPT !.creds = "alice"]}] :
       x \in {<<"always", 1>>, <<"never", 1>>, <<"at", 0>>, <<"at", 1>>}, o \in BOOLEAN,
       v \in {{}, {"Source"}, {"Source", "Sink"}}}
(* The envelope its answer comes in.                                          *)
Enveloped ==
    {[PlainDoor EXCEPT !.expiry = x, !.accepts = a, !.asked = k[1], !.cookie = k[2]] :
       x \in {"always", "at"}, a \in {{}, {"set-cookie"}, {"cache-control", "set-cookie"}},
       k \in {<<Nil, TRUE>>, <<{"public", "max-age"}, FALSE>>}}
(* The faces it has, and how its body is sent.                                *)
Facing ==
    {[PlainDoor EXCEPT !.served = f[1], !.default = f[2], !.gives = f[3], !.produces = f[4], !.states = f[5],
                   !.alike = TRUE, !.clients = IF f[4] = "bytes" THEN Eyes ELSE {ByDefault, [ByDefault EXCEPT !.as = "json"]}] :
       f \in {<<<<"html", "json">>, Nil, "json", "bytes", FALSE>>, <<<<"html", "json">>, "json", "json", "bytes", FALSE>>,
              <<<<"html", "plain">>, Nil, "plain", "bytes", FALSE>>, <<<<"json">>, Nil, "json", "small", FALSE>>,
              <<<< >>, Nil, "html", "bytes", FALSE>>, <<<<"html", "json">>, Nil, "json", "small", FALSE>>,
              <<<<"html", "json">>, Nil, "json", "large", TRUE>>, <<<<"html", "json">>, Nil, "json", "once", FALSE>>}}
(* The pages of other origins that may read it.                               *)
Crossing ==
    {[PlainDoor EXCEPT !.pin = "public", !.cors = c, !.withCredentials = w, !.clients = Pages] :
       c \in {{}, {"A"}, {"*"}, {"A", "*"}}, w \in BOOLEAN}
MCDoors == Scopes \union Ageing \union Enveloped \union Facing \union Crossing


Symmetry == Permutations(Tasks) \union Permutations(Sources)

NoReads == door = Nil /\ cache = Nil /\ moment = 0 /\ version = 0 /\ deadline = 0 /\ copies = {}

MCInit ==
    /\ part \in {"decide", "passkey", "limit", "door", "blocks", "links", "document", "items", "reads"}
    /\ Init /\ PasskeyInit /\ LimitInit /\ DoorInit /\ FormInit
    /\ part # "passkey" => rp
    /\ IF part = "document" THEN Document!WritesInit ELSE Items!WritesInit
    /\ part \notin {"document", "items"} => \A u \in Urls : doc[u] = NoDoc
    /\ IF part = "reads" THEN ReadsInit ELSE NoReads

forms == <<vars, passkeyVars, limitVars, doorVars, formVars>>
pages == <<writeVars, readVars>>
MCNext ==
    /\ part' = part
    /\ \/ part = "decide" /\ Next /\ UNCHANGED <<passkeyVars, limitVars, doorVars, formVars, pages>>
       \/ part = "passkey" /\ PasskeyNext /\ UNCHANGED <<vars, limitVars, doorVars, formVars, pages>>
       \/ part = "limit" /\ LimitNext /\ UNCHANGED <<vars, passkeyVars, doorVars, formVars, pages>>
       \/ part = "door" /\ DoorNext /\ UNCHANGED <<vars, passkeyVars, limitVars, formVars, pages>>
       \/ /\ part = "blocks" /\ FormNext /\ UNCHANGED registry
          /\ UNCHANGED <<vars, passkeyVars, limitVars, doorVars, pages>>
       \/ /\ part = "links" /\ FormNext /\ Appends' <= 1 /\ UNCHANGED cuts
          /\ UNCHANGED <<vars, passkeyVars, limitVars, doorVars, pages>>
       \/ part = "document" /\ Document!WritesNext /\ UNCHANGED <<forms, readVars>>
       \/ part = "items" /\ Items!WritesNext /\ UNCHANGED <<forms, readVars>>
       \/ part = "reads" /\ ReadsNext /\ UNCHANGED <<forms, writeVars>>

MCSpec == MCInit /\ [][MCNext]_<<part, forms, pages>>

-----------------------------------------------------------------------------
(* Proofs about the form, for any submissions, addresses, tokens and records. *)
(*                                                                            *)
(* What is kept of a book is on its lines, and an address that a line blocks  *)
(* is one somebody began to block, or was joined to a torn line.  A torn      *)
(* decision that has come to its address has its action.                      *)
LineShape == [act : {NoValue, "block", "approve", "garbled", "no line"},
              email : Addresses \cup {NoValue, "garbled"}]
Suspect(line, some) == line.act = "block" /\ line.email \in Addresses => Folded[line.email] \in some

BooksInv ==
    /\ logs \in [Books -> SUBSET LineShape] /\ torn \in [Books -> LineShape]
    /\ utf8 \in [Books -> BOOLEAN] /\ kept \in [Books -> SUBSET LineShape]
    /\ \A b \in Books : kept[b] \subseteq logs[b] \cap Records(b)
    /\ torn["decisions"].act = NoValue => torn["decisions"].email = NoValue
    /\ Suspect(torn["decisions"], suspects) /\ \A line \in logs["decisions"] : Suspect(line, suspects)

(* A client's file, while it holds a record, is among what it has held.       *)
RegistryInv ==
    /\ clients = [k \in Tokens |-> clients[k]] /\ said \in [Tokens -> SUBSET (Issued \cup Edited)]
    /\ \A k \in Tokens : clients[k] \notin {NoFile, Unfilled} => clients[k] \in said[k]

(* A tuple says of its link what one record of it says, and of the visitor    *)
(* only what the form declares.                                               *)
SaysWho(t, k) ==
    LET via == DOMAIN t \cap {"via", "via-earliest"}
    IN  /\ \A f \in DOMAIN t : t[f] = "visitor" => f \in Declared \cup {"email"}
        /\ via # {} => k \in Tokens /\ \E r \in said[k] : [f \in via |-> t[f]] = Attested(k, r)

(* A submission, whole, and what it has found out by each of its calls.       *)
Whole(q) == q = [at |-> q.at, form |-> q.form, tuple |-> q.tuple, dropped |-> q.dropped,
                 checked |-> q.checked, known |-> q.known]
BlockKnown(s) == \E r \in kept["decisions"] : r.act = "block" /\ Folded[r.email] = Folded[s.from]

PostInv(p) == post[p] # New =>
    /\ Whole(post[p]) /\ post[p].form \in Submissions /\ post[p].dropped \in BOOLEAN
    /\ post[p].at \in {"error", "received", "check", "token", "drop", "gone"}
    /\ post[p].at \in {"check", "token", "drop", "gone"} => ~post[p].dropped
    /\ post[p].known => BlockKnown(post[p].form)
    /\ post[p].at \in {"token", "drop"} \/ post[p].dropped =>
          (post[p].known => post[p].checked # "asked")
    /\ post[p].at \in {"check", "token"} => post[p].tuple = Carried(post[p].form)
    /\ post[p].at = "drop" \/ post[p].dropped => SaysWho(post[p].tuple, post[p].form.token)
    /\ post[p].at = "received" /\ ~post[p].dropped =>
          post[p].form.trap \/ Folded[post[p].form.from] \in suspects

PostsInv == post = [p \in Posts |-> post[p]] /\ \A p \in Posts : PostInv(p)
FormInv == BooksInv /\ RegistryInv /\ PostsInv

-----------------------------------------------------------------------------
LEMMA FormStarts == FormInit => FormInv
<1> SUFFICES ASSUME FormInit
             PROVE  FormInv
    OBVIOUS
<1>1. BooksInv
  <2>1. /\ logs \in [Books -> SUBSET LineShape] /\ torn \in [Books -> LineShape]
        /\ utf8 \in [Books -> BOOLEAN] /\ kept \in [Books -> SUBSET LineShape]
      BY DEF FormInit, LineShape, Ended
  <2>2. /\ "decisions" \in Books /\ torn["decisions"] = Ended
        /\ \A b \in Books : kept[b] = {} /\ logs[b] = {}
      BY DEF FormInit, Books
  <2>3. Ended.act = "no line" /\ NoValue # "no line"
      BY DEF Ended, NoValue
  <2>4. Suspect(torn["decisions"], suspects) /\ \A line \in logs["decisions"] : Suspect(line, suspects)
      BY <2>2, <2>3 DEF Suspect
  <2> QED  BY <2>1, <2>2, <2>3, <2>4 DEF BooksInv
<1>2. RegistryInv
    BY DEF FormInit, RegistryInv
<1>3. PostsInv
    BY DEF FormInit, PostsInv, PostInv
<1> QED  BY <1>1, <1>2, <1>3 DEF FormInv

(* More lines, more suspects and more records: what a submission found out    *)
(* stays true.                                                                *)
LEMMA PostsStay ==
    ASSUME FormInv, UNCHANGED post, \A b \in Books : kept[b] \subseteq kept'[b],
           suspects \subseteq suspects', \A k \in Tokens : said[k] \subseteq said'[k]
    PROVE  PostsInv'
<1> SUFFICES ASSUME NEW p \in Posts, post[p] # New
             PROVE  PostInv(p)'
    BY DEF FormInv, PostsInv, PostInv
<1>1. PostInv(p)
    BY DEF FormInv, PostsInv
<1>2. post[p].known => BlockKnown(post[p].form)'
    BY <1>1 DEF PostInv, BlockKnown, Books
<1>3. SaysWho(post[p].tuple, post[p].form.token) => SaysWho(post[p].tuple, post[p].form.token)'
  <2> DEFINE t == post[p].tuple
             k == post[p].form.token
             via == DOMAIN t \cap {"via", "via-earliest"}
  <2> SUFFICES ASSUME SaysWho(t, k), via # {}
               PROVE  \E r \in said'[k] : [f \in via |-> t[f]] = Attested(k, r)
      BY DEF SaysWho
  <2>1. k \in Tokens
      BY DEF SaysWho
  <2>2. PICK r \in said[k] : [f \in via |-> t[f]] = Attested(k, r)
      BY DEF SaysWho
  <2> QED  BY <2>1, <2>2
<1> QED  BY <1>1, <1>2, <1>3 DEF PostInv

(* A record, or what is left of one, on a torn line or on its own.            *)
LEMMA LinesAreShaped ==
    ASSUME BooksInv, NEW b \in Books, NEW r \in Records(b), NEW left \in Remains(r)
    PROVE  Line(b, left) \in LineShape
<1>1. r.act \in {NoValue, "block", "approve"} /\ r.email \in Addresses /\ r = [act |-> r.act, email |-> r.email]
    BY DEF Records
<1>2. left \in LineShape
  <2>1. r \in LineShape
      BY <1>1 DEF LineShape
  <2>2. CASE left = r
      BY <2>1, <2>2
  <2>3. CASE left = [act |-> NoValue, email |-> NoValue]
      BY <2>3 DEF LineShape
  <2>4. CASE left = [act |-> "garbled", email |-> NoValue]
      BY <2>4 DEF LineShape
  <2>5. CASE left = [act |-> r.act, email |-> NoValue]
      BY <1>1, <2>5 DEF LineShape
  <2>6. CASE left = [act |-> r.act, email |-> "garbled"]
      BY <1>1, <2>6 DEF LineShape
  <2> QED  BY <2>2, <2>3, <2>4, <2>5, <2>6 DEF Remains
<1>3. torn[b] \in LineShape
    BY DEF BooksInv
<1>4. Joined(torn[b], left) \in LineShape
  <2>1. /\ torn[b].act \in {NoValue, "block", "approve", "garbled", "no line"}
        /\ torn[b].email \in Addresses \cup {NoValue, "garbled"}
        /\ left.act \in {NoValue, "block", "approve", "garbled", "no line"}
        /\ left.email \in Addresses \cup {NoValue, "garbled"}
      BY <1>2, <1>3 DEF LineShape
  <2>2. /\ First(torn[b].act, left.act) \in {NoValue, "block", "approve", "garbled", "no line"}
        /\ First(torn[b].email, left.email) \in Addresses \cup {NoValue, "garbled"}
      BY <2>1 DEF First
  <2> QED  BY <2>2 DEF Joined, LineShape
<1> QED  BY <1>2, <1>4 DEF Line

LEMMA LinesAreSuspect ==
    ASSUME BooksInv, NEW r \in Records("decisions"), NEW left \in Remains(r), Suspected("decisions", r)
    PROVE  /\ Suspect(Line("decisions", left), suspects')
           /\ Line("decisions", left).act = NoValue => Line("decisions", left).email = NoValue
<1> DEFINE torn1 == torn["decisions"]
           line == Line("decisions", left)
<1>1. r.act \in {"block", "approve"} /\ r.email \in Addresses
    BY DEF Records
<1>2. /\ left.act = NoValue => left.email = NoValue
      /\ left.email \in Addresses => left.email = r.email /\ left.act = r.act
    BY <1>1, IntakeDoorAssumption DEF Remains, NoValue
<1>3. suspects \subseteq suspects'
    BY DEF Suspected
<1>4. CASE Clean("decisions")
  <2>1. line = left
      BY <1>4 DEF Line
  <2>2. left.act = "block" /\ left.email \in Addresses => Folded[left.email] \in suspects'
      BY <1>2 DEF Suspected
  <2> QED  BY <1>2, <2>1, <2>2 DEF Suspect
<1>5. CASE ~Clean("decisions")
  <2>1. line.act = First(torn1.act, left.act) /\ line.email = First(torn1.email, left.email)
      BY <1>5 DEF Line, Joined
  <2>2. Folded[r.email] \in suspects'
      BY <1>5 DEF Suspected
  <2>3. (torn1.act = NoValue => torn1.email = NoValue) /\ Suspect(torn1, suspects)
      BY DEF BooksInv
  <2>4. line.act = NoValue => line.email = NoValue
      BY <1>2, <2>1, <2>3 DEF First
  <2>5. line.act = "block" /\ line.email \in Addresses => Folded[line.email] \in suspects'
    <3> HAVE line.act = "block" /\ line.email \in Addresses
    <3>1. CASE torn1.email = NoValue
        BY <1>2, <2>1, <2>2, <3>1 DEF First
    <3>2. CASE torn1.email # NoValue
        BY <1>3, <2>1, <2>3, <3>2 DEF First, Suspect
    <3> QED  BY <3>1, <3>2
  <2> QED  BY <2>4, <2>5 DEF Suspect
<1> QED  BY <1>4, <1>5

LEMMA RecordKeeps ==
    ASSUME FormInv, NEW b \in Books, NEW r \in Records(b), SinkRecord(b, r)
    PROVE  FormInv'
<1> DEFINE line == Line(b, r)
<1>1. /\ logs' = [logs EXCEPT ![b] = @ \cup {line}] /\ torn' = [torn EXCEPT ![b] = Ended]
      /\ kept' = (IF Clean(b) THEN [kept EXCEPT ![b] = @ \cup {r}] ELSE kept)
      /\ Suspected(b, r) /\ UNCHANGED <<utf8, cuts, registry, post>> /\ BooksInv
    BY DEF SinkRecord, FormInv
<1>2. r \in Remains(r) /\ r \in LineShape
    BY DEF Remains, Records, LineShape
<1>3. line \in LineShape
    BY <1>1, <1>2, LinesAreShaped
<1>4. Clean(b) => line = r
    BY DEF Line
<1>5. suspects \subseteq suspects' /\ \A x : Suspect(x, suspects) => Suspect(x, suspects')
    BY <1>1 DEF Suspected, Suspect
<1>6. Ended \in LineShape /\ Ended.act = "no line" /\ NoValue # "no line" /\ Suspect(Ended, suspects')
    BY DEF Ended, LineShape, NoValue, Suspect
<1>7. b = "decisions" => Suspect(line, suspects')
    BY <1>1, <1>2, LinesAreSuspect
<1> HIDE DEF line
<1>8. /\ logs' \in [Books -> SUBSET LineShape] /\ torn' \in [Books -> LineShape]
      /\ utf8' \in [Books -> BOOLEAN] /\ kept' \in [Books -> SUBSET LineShape]
    BY <1>1, <1>2, <1>3, <1>6 DEF BooksInv
<1>9. \A c \in Books : kept'[c] \subseteq logs'[c] \cap Records(c)
    BY <1>1, <1>4 DEF BooksInv
<1>10. /\ torn'["decisions"].act = NoValue => torn'["decisions"].email = NoValue
       /\ Suspect(torn'["decisions"], suspects') /\ \A l \in logs'["decisions"] : Suspect(l, suspects')
  <2>1. CASE b = "decisions"
    <3>1. torn'["decisions"] = Ended /\ logs'["decisions"] = logs["decisions"] \cup {line}
        BY <1>1, <2>1 DEF BooksInv
    <3> QED  BY <1>1, <1>5, <1>6, <1>7, <2>1, <3>1 DEF BooksInv
  <2>2. CASE b # "decisions"
    <3>1. torn'["decisions"] = torn["decisions"] /\ logs'["decisions"] = logs["decisions"]
        BY <1>1, <2>2 DEF BooksInv, Books
    <3> QED  BY <1>1, <1>5, <3>1 DEF BooksInv
  <2> QED  BY <2>1, <2>2
<1>11. BooksInv'
    BY <1>8, <1>9, <1>10 DEF BooksInv, Suspect
<1>12. RegistryInv'
    BY <1>1 DEF FormInv, RegistryInv, registry
<1>13. PostsInv'
  <2>1. \A c \in Books : kept[c] \subseteq kept'[c]
      BY <1>1 DEF BooksInv
  <2>2. UNCHANGED said
      BY <1>1 DEF registry
  <2> QED  BY <1>1, <1>5, <2>1, <2>2, PostsStay
<1> QED  BY <1>11, <1>12, <1>13 DEF FormInv

LEMMA CutKeepsBooks ==
    ASSUME FormInv, NEW b \in Books, NEW r \in Records(b), NEW left \in Remains(r), NEW within \in BOOLEAN,
           CutShort(b, r, left, within)
    PROVE  FormInv'
<1> DEFINE line == Line(b, left)
<1>1. /\ torn' = [torn EXCEPT ![b] = line] /\ utf8' = [utf8 EXCEPT ![b] = @ /\ ~within]
      /\ Suspected(b, r) /\ UNCHANGED <<logs, kept, registry, post>> /\ BooksInv
    BY DEF CutShort, FormInv
<1>2. line \in LineShape
    BY <1>1, LinesAreShaped
<1>3. suspects \subseteq suspects' /\ \A x : Suspect(x, suspects) => Suspect(x, suspects')
    BY <1>1 DEF Suspected, Suspect
<1>4. b = "decisions" => Suspect(line, suspects') /\ (line.act = NoValue => line.email = NoValue)
    BY <1>1, LinesAreSuspect
<1> HIDE DEF line
<1>5. utf8' \in [Books -> BOOLEAN]
    BY <1>1 DEF BooksInv
<1>6. torn' \in [Books -> LineShape] /\ torn'[b] = line /\ (b # "decisions" => torn'["decisions"] = torn["decisions"])
    BY <1>1, <1>2 DEF BooksInv, Books
<1>7. /\ torn'["decisions"].act = NoValue => torn'["decisions"].email = NoValue
      /\ Suspect(torn'["decisions"], suspects') /\ \A l \in logs'["decisions"] : Suspect(l, suspects')
    BY <1>1, <1>3, <1>4, <1>6 DEF BooksInv, Suspect
<1>8. BooksInv'
    BY <1>1, <1>5, <1>6, <1>7 DEF BooksInv, Suspect
<1>9. RegistryInv'
    BY <1>1 DEF FormInv, RegistryInv, registry
<1>10. PostsInv'
    BY <1>1, <1>3, PostsStay DEF registry
<1> QED  BY <1>8, <1>9, <1>10 DEF FormInv

LEMMA HeldKeeps ==
    ASSUME FormInv, NEW k \in Tokens, NEW file \in Issued \cup Edited \cup {NoFile, Unfilled},
           FileHolds(k, file), UNCHANGED <<books, post>>
    PROVE  FormInv'
<1>1. UNCHANGED <<logs, torn, utf8, kept, suspects, post>>
    BY DEF books
<1>2. /\ clients' = [clients EXCEPT ![k] = file]
      /\ said' = [said EXCEPT ![k] = IF file \in {NoFile, Unfilled} THEN @ ELSE @ \cup {file}]
    BY DEF FileHolds
<1>3. BooksInv'
    BY <1>1 DEF FormInv, BooksInv, Suspect
<1>4. \A j \in Tokens : said[j] \subseteq said'[j]
    BY <1>2 DEF FormInv, RegistryInv
<1>5. RegistryInv'
  <2>1. said' \in [Tokens -> SUBSET (Issued \cup Edited)]
      BY <1>2 DEF FormInv, RegistryInv
  <2>2. \A j \in Tokens : clients'[j] \notin {NoFile, Unfilled} => clients'[j] \in said'[j]
      BY <1>2 DEF FormInv, RegistryInv
  <2>3. clients' = [j \in Tokens |-> clients'[j]]
      BY <1>2 DEF FormInv, RegistryInv
  <2> QED  BY <2>1, <2>2, <2>3 DEF RegistryInv
<1>6. PostsInv'
    BY <1>1, <1>4, PostsStay
<1> QED  BY <1>3, <1>5, <1>6 DEF FormInv

LEMMA ClientsKeep ==
    ASSUME FormInv, NEW k \in Tokens, Create(k) \/ Fill(k) \/ Tell(k) \/ Administer(k)
    PROVE  FormInv'
<1>1. CASE Create(k)
    BY <1>1, HeldKeeps DEF Create
<1>2. CASE Fill(k)
    BY <1>2, HeldKeeps DEF Fill
<1>3. CASE Tell(k)
  <2>1. UNCHANGED <<logs, torn, utf8, kept, suspects, post, clients, said>>
      BY <1>3 DEF Tell, books
  <2> QED  BY <2>1, PostsStay DEF FormInv, BooksInv, Suspect, RegistryInv
<1>4. CASE Administer(k)
    BY <1>4, HeldKeeps DEF Administer
<1> QED  BY <1>1, <1>2, <1>3, <1>4

-----------------------------------------------------------------------------
(* A submission goes on by itself: what is to be shown of where it gets to.   *)
LEMMA PostGoesOn ==
    ASSUME FormInv, NEW p \in Posts, NEW q, post' = [post EXCEPT ![p] = q], UNCHANGED <<books, registry>>,
           PostInv(p)'
    PROVE  FormInv'
<1>1. UNCHANGED <<logs, torn, utf8, kept, suspects, clients, said>>
    BY DEF books, registry
<1>2. BooksInv' /\ RegistryInv'
    BY <1>1 DEF FormInv, BooksInv, RegistryInv, Suspect
<1>3. ASSUME NEW o \in Posts, o # p
      PROVE  PostInv(o)'
  <2>1. post'[o] = post[o] /\ PostInv(o)
      BY <1>3 DEF FormInv, PostsInv
  <2> QED  BY <1>1, <2>1, SMTT(60) DEF PostInv, BlockKnown, SaysWho
<1>4. post' = [o \in Posts |-> post'[o]]
    BY DEF FormInv, PostsInv
<1> QED  BY <1>2, <1>3, <1>4 DEF FormInv, PostsInv

LEMMA GoesTo ==
    ASSUME FormInv, NEW p \in Posts, NEW q, post' = [post EXCEPT ![p] = q]
    PROVE  post'[p] = q /\ (post[p].at # "new" => post[p] # New)
BY DEF FormInv, PostsInv, New

LEMMA SubmitKeeps ==
    ASSUME FormInv, NEW p \in Posts, NEW s \in Submissions, Submit(p, s)
    PROVE  FormInv'
<1> DEFINE q == [at |-> Judged(s), form |-> s, tuple |-> Carried(s), dropped |-> FALSE,
                 checked |-> "no", known |->
                   \E r \in kept["decisions"] : r.act = "block" /\ Folded[r.email] = Folded[s.from]]
<1>1. post' = [post EXCEPT ![p] = q] /\ UNCHANGED <<books, registry>> /\ post'[p] = q
    BY DEF Submit, FormInv, PostsInv
<1>2. /\ q.at = Judged(s) /\ q.form = s /\ q.tuple = Carried(s) /\ q.dropped = FALSE
      /\ (q.known <=> BlockKnown(s)) /\ Whole(q)
    BY DEF BlockKnown, Whole
<1>3. /\ Judged(s) \in {"error", "received", "check"} /\ (Judged(s) = "received" => s.trap)
    BY IntakeDoorAssumption DEF Judged
<1>4. BlockKnown(s) => BlockKnown(s)'
    BY <1>1 DEF BlockKnown, books
<1> HIDE DEF q
<1>5. PostInv(p)'
    BY <1>1, <1>2, <1>3, <1>4 DEF PostInv
<1> QED  BY <1>1, <1>5, PostGoesOn

(* Where a submission gets to, by each of the calls it makes.                 *)
LEMMA AskKeeps ==
    ASSUME FormInv, NEW p \in Posts, NEW yes \in BOOLEAN, CheckSender(p, yes)
    PROVE  FormInv'
<1> DEFINE from == post[p].form.from
           to == IF yes /\ Blocked(from) THEN "received" ELSE "token"
           ch == IF ~yes THEN "unasked" ELSE IF utf8["decisions"] THEN "asked" ELSE "unread"
           q == [post[p] EXCEPT !.at = to, !.checked = ch]
<1>1. /\ post[p].at = "check" /\ post' = [post EXCEPT ![p] = q] /\ UNCHANGED <<books, registry>>
      /\ post'[p] = q /\ post[p] # New
  <2>1. post[p].at = "check" /\ post' = [post EXCEPT ![p] = q] /\ UNCHANGED <<books, registry>>
      BY DEF CheckSender
  <2> QED  BY <2>1, GoesTo DEF New
<1>2. PostInv(p) /\ BooksInv
    BY DEF FormInv, PostsInv
<1>3. /\ q.at = to /\ q.checked = ch /\ q.form = post[p].form /\ q.tuple = post[p].tuple
      /\ q.dropped = post[p].dropped /\ q.known = post[p].known /\ Whole(q)
    BY <1>1, <1>2 DEF PostInv, Whole
<1>4. yes /\ Blocked(from) => Folded[from] \in suspects
  <2> SUFFICES ASSUME Blocked(from)
               PROVE  Folded[from] \in suspects
      OBVIOUS
  <2>1. PICK line \in Lines("decisions") : /\ line.act = "block" /\ line.email \in Addresses
                                           /\ Folded[line.email] = Folded[from]
      BY DEF Blocked
  <2>2. line \in logs["decisions"] \cup {torn["decisions"]}
      BY <2>1 DEF Lines
  <2> QED  BY <1>2, <2>1, <2>2 DEF BooksInv, Suspect
<1>5. ch = "asked" /\ post[p].known => yes /\ Blocked(from)
  <2> SUFFICES ASSUME ch = "asked", post[p].known
               PROVE  yes /\ Blocked(from)
      OBVIOUS
  <2>1. yes /\ utf8["decisions"]
      OBVIOUS
  <2>2. PICK r \in kept["decisions"] : r.act = "block" /\ Folded[r.email] = Folded[from]
      BY <1>1, <1>2 DEF PostInv, BlockKnown
  <2>3. r \in logs["decisions"] /\ r.email \in Addresses
      BY <1>2, <2>2 DEF BooksInv, Books, Records
  <2>4. r \in Lines("decisions")
      BY <2>1, <2>3 DEF Lines
  <2> QED  BY <2>1, <2>2, <2>3, <2>4 DEF Blocked
<1>6. to \in {"received", "token"} /\ (to = "received" <=> yes /\ Blocked(from))
    OBVIOUS
<1>7. BlockKnown(post[p].form) => BlockKnown(post[p].form)'
    BY <1>1 DEF BlockKnown, books
<1>8. suspects' = suspects
    BY <1>1 DEF books
<1> HIDE DEF to, ch, q
<1>9. PostInv(p)'
    BY <1>1, <1>2, <1>3, <1>4, <1>5, <1>6, <1>7, <1>8 DEF PostInv
<1> QED  BY <1>1, <1>9, PostGoesOn

(* What is stamped on what is attested on what was carried.                   *)
LEMMA StampedSays ==
    ASSUME FormInv, NEW s \in Submissions, NEW found \in BOOLEAN,
           found => s.token \in Tokens /\ clients[s.token] \notin {NoFile, Unfilled}
    PROVE  SaysWho(Over(Stamped, IF found THEN Over(Attested(s.token, clients[s.token]), Carried(s))
                                ELSE Carried(s)), s.token)
<1> DEFINE k == s.token
           r == clients[k]
           att == Attested(k, r)
           car == Carried(s)
           t == Over(Stamped, IF found THEN Over(att, car) ELSE car)
           own == {"via", "via-earliest"}
           via == DOMAIN t \cap own
<1>1. /\ DOMAIN car = {"email"} \cup (s.typed \cap Declared) /\ Declared \cap own = {}
      /\ DOMAIN Stamped = Stamps /\ Stamps \cap own = {} /\ \A f \in Stamps : Stamped[f] = "transport"
    BY IntakeDoorAssumption DEF Carried, Stamped, Stamps
<1>2. CASE ~found
  <2>1. t = [f \in DOMAIN Stamped \cup DOMAIN car |-> IF f \in DOMAIN Stamped THEN Stamped[f] ELSE car[f]]
      BY <1>2 DEF Over
  <2>2. via = {}
      BY <1>1, <2>1
  <2>3. \A f \in DOMAIN t : t[f] = "visitor" => f \in Declared \cup {"email"}
      BY <1>1, <2>1
  <2> HIDE DEF t
  <2>4. SaysWho(t, k)
      BY <2>2, <2>3 DEF SaysWho
  <2> QED  BY <2>4 DEF t
<1>3. CASE found
  <2>1. r \in said[k] /\ r \in Issued \cup Edited
      BY <1>3 DEF FormInv, RegistryInv
  <2>2. DOMAIN att = {"via"} \cup (IF r.earliest = NoValue THEN {} ELSE {"via-earliest"})
      BY DEF Attested
  <2>3. \A f \in DOMAIN att : att[f] # "visitor"
    <3>1. First(r.id, k) # "visitor" /\ r.earliest # "visitor"
        BY <1>3, <2>1, IntakeDoorAssumption DEF First
    <3> QED  BY <2>2, <3>1 DEF Attested
  <2> HIDE DEF att, car, r
  <2>4. t = [f \in DOMAIN Stamped \cup DOMAIN Over(att, car) |->
               IF f \in DOMAIN Stamped THEN Stamped[f] ELSE Over(att, car)[f]]
      BY <1>3 DEF Over
  <2>5. Over(att, car) = [f \in DOMAIN att \cup DOMAIN car |-> IF f \in DOMAIN att THEN att[f] ELSE car[f]]
      BY DEF Over
  <2> HIDE DEF t
  <2>6. DOMAIN t = Stamps \cup DOMAIN att \cup DOMAIN car
      BY <1>1, <2>4, <2>5
  <2>7. via = DOMAIN att
      BY <1>1, <2>2, <2>6
  <2>8. \A f \in DOMAIN att : t[f] = att[f]
      BY <1>1, <2>2, <2>4, <2>5
  <2>9. [f \in via |-> t[f]] = att
    <3>1. att = [f \in DOMAIN att |-> att[f]]
        BY DEF att, Attested
    <3> QED  BY <2>7, <2>8, <3>1
  <2>10. \A f \in DOMAIN t : t[f] = "visitor" => f \in Declared \cup {"email"}
      BY <1>1, <2>3, <2>4, <2>5, <2>6
  <2>11. SaysWho(t, k)
    <3>1. k \in Tokens /\ att = Attested(k, r)
        BY <1>3 DEF att
    <3> QED  BY <2>1, <2>9, <2>10, <3>1 DEF SaysWho
  <2> QED  BY <2>11 DEF t, att, car, r
<1> QED  BY <1>2, <1>3

LEMMA LookUpKeeps ==
    ASSUME FormInv, NEW p \in Posts, NEW found \in BOOLEAN, LookUp(p, found)
    PROVE  FormInv'
<1> DEFINE s == post[p].form
           k == s.token
           t == Over(Stamped, IF found THEN Over(Attested(k, clients[k]), post[p].tuple) ELSE post[p].tuple)
           q == [post[p] EXCEPT !.at = "drop", !.tuple = t]
<1>1. /\ post[p].at = "token" /\ post' = [post EXCEPT ![p] = q] /\ UNCHANGED <<books, registry>>
      /\ post'[p] = q /\ post[p] # New /\ (found => k # NoValue /\ clients[k] \notin {NoFile, Unfilled})
  <2>1. /\ post[p].at = "token" /\ post' = [post EXCEPT ![p] = q] /\ UNCHANGED <<books, registry>>
        /\ found => k # NoValue /\ clients[k] \notin {NoFile, Unfilled}
      BY DEF LookUp
  <2> QED  BY <2>1, GoesTo DEF New
<1>2. PostInv(p)
    BY DEF FormInv, PostsInv
<1>3. /\ q.at = "drop" /\ q.checked = post[p].checked /\ q.form = s /\ q.tuple = t
      /\ q.dropped = post[p].dropped /\ q.known = post[p].known /\ Whole(q)
    BY <1>1, <1>2 DEF PostInv, Whole
<1>4. SaysWho(t, k)
  <2>1. post[p].tuple = Carried(s) /\ s \in Submissions
      BY <1>1, <1>2 DEF PostInv
  <2>2. found => k \in Tokens
      BY <1>1, <2>1, IntakeDoorAssumption
  <2> QED  BY <1>1, <2>1, <2>2, StampedSays
<1>5. BlockKnown(s) => BlockKnown(s)'
    BY <1>1 DEF BlockKnown, books
<1>6. UNCHANGED <<suspects, said>>
    BY <1>1 DEF books, registry
<1> HIDE DEF t, q
<1>7. SaysWho(post[p].tuple, post[p].form.token)'
  <2>1. post'[p].tuple = t /\ post'[p].form.token = k
      BY <1>1, <1>3
  <2> QED  BY <1>4, <1>6, <2>1 DEF SaysWho
<1>8. PostInv(p)'
    BY <1>1, <1>2, <1>3, <1>5, <1>6, <1>7 DEF PostInv
<1> QED  BY <1>1, <1>8, PostGoesOn

LEMMA DropKeeps ==
    ASSUME FormInv, NEW p \in Posts, NEW ok \in BOOLEAN, NEW landed \in BOOLEAN, DropTuple(p, ok, landed)
    PROVE  FormInv'
<1> DEFINE to == IF ok THEN "received" ELSE "error"
           q == [post[p] EXCEPT !.at = to, !.dropped = landed]
<1>1. /\ post[p].at = "drop" /\ post' = [post EXCEPT ![p] = q] /\ UNCHANGED <<books, registry>>
      /\ post'[p] = q /\ post[p] # New /\ (ok => landed)
  <2>1. /\ post[p].at = "drop" /\ post' = [post EXCEPT ![p] = q] /\ UNCHANGED <<books, registry>>
        /\ ok => landed
      BY DEF DropTuple
  <2> QED  BY <2>1, GoesTo DEF New
<1>2. PostInv(p)
    BY DEF FormInv, PostsInv
<1>3. /\ q.at = to /\ q.checked = post[p].checked /\ q.form = post[p].form /\ q.tuple = post[p].tuple
      /\ q.dropped = landed /\ q.known = post[p].known /\ Whole(q)
    BY <1>1, <1>2 DEF PostInv, Whole
<1>4. to \in {"received", "error"} /\ (to = "received" => landed)
    BY <1>1
<1>5. BlockKnown(post[p].form) => BlockKnown(post[p].form)'
    BY <1>1 DEF BlockKnown, books
<1>6. SaysWho(post[p].tuple, post[p].form.token)'
  <2>1. post'[p].tuple = post[p].tuple /\ post'[p].form.token = post[p].form.token /\ said' = said
      BY <1>1, <1>3 DEF registry
  <2>2. SaysWho(post[p].tuple, post[p].form.token)
      BY <1>1, <1>2 DEF PostInv
  <2> QED  BY <2>1, <2>2 DEF SaysWho
<1> HIDE DEF to, q
<1>7. PostInv(p)'
    BY <1>1, <1>2, <1>3, <1>4, <1>5, <1>6 DEF PostInv
<1> QED  BY <1>1, <1>7, PostGoesOn

LEMMA HangUpKeeps ==
    ASSUME FormInv, NEW p \in Posts, FormHangsUp(p)
    PROVE  FormInv'
<1> DEFINE q == [post[p] EXCEPT !.at = "gone"]
<1>1. /\ post[p].at \in {"check", "token", "drop"} /\ post' = [post EXCEPT ![p] = q]
      /\ UNCHANGED <<books, registry>> /\ post'[p] = q /\ post[p] # New
    BY DEF FormHangsUp, Goto, FormInv, PostsInv, New
<1>2. PostInv(p)
    BY DEF FormInv, PostsInv
<1>3. /\ q.at = "gone" /\ q.checked = post[p].checked /\ q.form = post[p].form /\ q.tuple = post[p].tuple
      /\ q.dropped = post[p].dropped /\ q.known = post[p].known /\ Whole(q)
    BY <1>1, <1>2 DEF PostInv, Whole
<1>4. BlockKnown(post[p].form) => BlockKnown(post[p].form)'
    BY <1>1 DEF BlockKnown, books
<1> HIDE DEF q
<1>5. PostInv(p)'
    BY <1>1, <1>2, <1>3, <1>4 DEF PostInv
<1> QED  BY <1>1, <1>5, PostGoesOn

LEMMA FormStep == FormInv /\ [FormNext]_formVars => FormInv'
<1> SUFFICES ASSUME FormInv, [FormNext]_formVars
             PROVE  FormInv'
    OBVIOUS
<1>1. CASE UNCHANGED formVars
  <2>1. UNCHANGED <<logs, torn, utf8, kept, suspects, post, clients, said>>
      BY <1>1 DEF formVars
  <2> QED  BY <2>1, PostsStay DEF FormInv, BooksInv, Suspect, RegistryInv
<1> QED  BY <1>1, RecordKeeps, CutKeepsBooks, ClientsKeep, SubmitKeeps, AskKeeps, LookUpKeeps, DropKeeps,
            HangUpKeeps DEF FormNext

(* What the books hold, what a client's file has held and what a submission   *)
(* has found out, for any submissions, addresses and tokens.                  *)
THEOREM FormInvariant == FormSpec => []FormInv
<1> QED  BY FormStarts, FormStep, PTL DEF FormSpec

(* A blocked sender reaches the space no more, nobody else is discarded, what *)
(* a tuple says of its link is one record's of that link, and the ledger has  *)
(* everybody it was told of (IntakeEndpoint::invoke, DecisionLog and          *)
(* PeopleLedger).                                                             *)
THEOREM FormKeepsEnquiries == FormSpec => []EnquiriesKept
<1>1. FormInv => EnquiriesKept
  <2> SUFFICES ASSUME FormInv
               PROVE  EnquiriesKept
      OBVIOUS
  <2>1. \A p \in Begun : PostInv(p) /\ post[p] # New
      BY DEF Begun, FormInv, PostsInv
  <2>2. BlocksHold
      BY <2>1 DEF BlocksHold, PostInv
  <2>3. NothingDiscarded
      BY <2>1 DEF NothingDiscarded, PostInv
  <2>4. TupleSaysWho
      BY <2>1 DEF TupleSaysWho, PostInv, SaysWho
  <2>5. PeopleKept
    <3> SUFFICES ASSUME NEW r \in kept["people"], utf8["people"]
                 PROVE  Folded[r.email] \in Roster
        BY DEF PeopleKept
    <3>1. r \in logs["people"] /\ r.email \in Addresses
        BY DEF FormInv, BooksInv, Books, Records
    <3> QED  BY <3>1 DEF Roster, Lines
  <2> QED  BY <2>2, <2>3, <2>4, <2>5 DEF EnquiriesKept
<1> QED  BY <1>1, FormInvariant, PTL

-----------------------------------------------------------------------------
(* That a process records a link at most once while it is in date, whatever   *)
(* the number of links, of posts at a time and of claims it remembers.        *)

Record == [link : Links, life : Nat, at : Nat]
Works == {Idle} \union [op : {"verified"}, link : Links, now : Nat] \union [op : {"drop"}, link : Links, at : Nat]

Types ==
    /\ clock \in Nat /\ life \in Nat
    /\ expiry \in [Links -> Nat]
    /\ work \in [Tasks -> Works]
    /\ recorded \in Seq(Record)
    /\ DOMAIN acted \subseteq Links

(* Whatever is remembered, in hand or recorded is of a link that was minted,  *)
(* and of the past.                                                           *)
Dates ==
    /\ \A l \in DOMAIN acted : acted[l] = expiry[l] /\ expiry[l] # 0
    /\ \A t \in Tasks : work[t].op = "verified" => work[t].now <= clock /\ expiry[work[t].link] # 0
    /\ \A t \in Tasks : work[t].op = "drop" => work[t].at <= clock /\ expiry[work[t].link] # 0
    /\ \A i \in DOMAIN recorded :
           recorded[i].at <= clock /\ recorded[i].life <= life /\ expiry[recorded[i].link] # 0

(* A claim taken in date, by a post in hand or for a tuple this process has   *)
(* recorded.                                                                  *)
InHand(t) == work[t].op = "drop" /\ work[t].at < expiry[work[t].link]
InBook(i) == recorded[i].life = life /\ recorded[i].at < expiry[recorded[i].link]

(* A link whose claim was taken in date is remembered until it expires, and   *)
(* no two posts, nor a post and a tuple, have its claim.                      *)
Held(l) == l \in DOMAIN acted \/ clock >= expiry[l]
Claims ==
    /\ \A t \in Tasks : InHand(t) => Held(work[t].link)
    /\ \A i \in DOMAIN recorded : InBook(i) => Held(recorded[i].link)
    /\ \A t \in Tasks, i \in DOMAIN recorded : InHand(t) /\ InBook(i) => work[t].link # recorded[i].link
    /\ \A t, u \in Tasks : InHand(t) /\ InHand(u) /\ work[t].link = work[u].link => t = u

IInv == Types /\ Dates /\ Claims /\ RecordedOnceInDate

-----------------------------------------------------------------------------
USE DecideAssumption

(* Nothing is remembered, in hand or recorded at first.                       *)
LEMMA IInvInit == Init => IInv
<1> SUFFICES ASSUME Init PROVE IInv
    OBVIOUS
<1>1. Types
    BY DEF Init, Types, Works, Idle, Nothing
<1>2. Dates /\ Claims /\ RecordedOnceInDate
    BY DEF Init, Dates, Claims, RecordedOnceInDate, InDateTwice, InHand, InBook, Idle, Nothing
<1> QED
    BY <1>1, <1>2 DEF IInv

(* The parts of a tuple's entry, and of a post's work.                        *)
LEMMA Parts ==
    ASSUME Types
    PROVE  /\ DOMAIN recorded = 1 .. Len(recorded)
           /\ \A i \in DOMAIN recorded :
                  recorded[i].link \in Links /\ recorded[i].at \in Nat /\ recorded[i].life \in Nat
           /\ \A t \in Tasks : work[t].op = "verified" => work[t].link \in Links /\ work[t].now \in Nat
           /\ \A t \in Tasks : work[t].op = "drop" => work[t].link \in Links /\ work[t].at \in Nat
<1>1. DOMAIN recorded = 1 .. Len(recorded)
    BY DEF Types
<1>2. \A i \in DOMAIN recorded : recorded[i] \in Record
    BY <1>1 DEF Types
<1>3. \A t \in Tasks : work[t] \in Works
    BY DEF Types
<1> QED
    BY <1>1, <1>2, <1>3 DEF Record, Works, Idle

(* What a step of the rest of the world must leave alone.                     *)
Untouched == UNCHANGED <<clock, expiry, acted, work, life, recorded>>

(* Such a step keeps the invariant.                                           *)
LEMMA UntouchedKeeps ==
    ASSUME IInv, Untouched
    PROVE  IInv'
BY DEF IInv, Untouched, Types, Dates, Claims, RecordedOnceInDate, InDateTwice, InHand, InBook, Held

(* A link is minted once: nothing is remembered, in hand or recorded of it.   *)
LEMMA MintKeeps ==
    ASSUME IInv, NEW l \in Links, Mint(l)
    PROVE  IInv'
<1>1. /\ expiry[l] = 0 /\ expiry' = [expiry EXCEPT ![l] = clock + TTL]
      /\ UNCHANGED <<clock, acted, work, life, recorded>>
    BY DEF Mint
<1>2. Types'
    BY <1>1 DEF IInv, Types
<1>3. \A k \in Links : k # l => expiry'[k] = expiry[k]
    BY <1>1 DEF IInv, Types
<1>4. /\ \A k \in DOMAIN acted : k # l
      /\ \A t \in Tasks : work[t].op \in {"verified", "drop"} => work[t].link # l /\ work[t].link \in Links
      /\ \A i \in DOMAIN recorded : recorded[i].link # l /\ recorded[i].link \in Links
    BY <1>1, Parts DEF IInv, Dates
<1>5. Dates'
    BY <1>1, <1>3, <1>4 DEF IInv, Types, Dates
<1>6. /\ \A t \in Tasks : InHand(t)' <=> InHand(t)
      /\ \A i \in DOMAIN recorded : InBook(i)' <=> InBook(i)
      /\ \A k \in Links : k # l => (Held(k)' <=> Held(k))
    BY <1>1, <1>3, <1>4 DEF InHand, InBook, Held
<1>7. Claims'
    BY <1>1, <1>4, <1>6 DEF IInv, Claims, InHand
<1>8. RecordedOnceInDate'
    BY <1>1, <1>3, <1>4 DEF IInv, RecordedOnceInDate, InDateTwice
<1> QED
    BY <1>2, <1>5, <1>7, <1>8 DEF IInv

(* Time passes.                                                               *)
LEMMA TickKeeps ==
    ASSUME IInv, Tick
    PROVE  IInv'
<1>1. clock' = clock + 1 /\ UNCHANGED <<expiry, acted, work, life, recorded>>
    BY DEF Tick
<1>2. Types' /\ RecordedOnceInDate'
    BY <1>1 DEF IInv, Types, RecordedOnceInDate, InDateTwice
<1>3. Dates'
    BY <1>1, Parts DEF IInv, Types, Dates
<1>4. \A k \in Links : Held(k) => Held(k)'
    BY <1>1 DEF IInv, Types, Held
<1>5. Claims'
    BY <1>1, <1>4, Parts DEF IInv, Claims, InHand, InBook
<1> QED
    BY <1>2, <1>3, <1>5 DEF IInv
(* A post is verified, or refused by the passkey gate: it holds no claim.     *)
LEMMA VerifyKeeps ==
    ASSUME IInv, NEW t \in Tasks,
           UNCHANGED <<clock, expiry, acted, life, recorded>>,
           work[t].op # "drop",
           NEW w \in Works, w.op # "drop",
           w.op = "verified" => w.now = clock /\ expiry[w.link] # 0,
           work' = [work EXCEPT ![t] = w]
    PROVE  IInv'
<1>1. Types' /\ RecordedOnceInDate'
    BY DEF IInv, Types, RecordedOnceInDate, InDateTwice
<1>2. work'[t] = w /\ \A u \in Tasks : u # t => work'[u] = work[u]
    BY DEF IInv, Types
<1>3. Dates'
    BY <1>2 DEF IInv, Types, Dates
<1>4. Claims'
    BY <1>2 DEF IInv, Claims, InHand, InBook, Held
<1> QED
    BY <1>1, <1>3, <1>4 DEF IInv

(* A link that is posted is one that was minted and is in date.               *)
LEMMA PostKeeps ==
    ASSUME IInv, NEW t \in Tasks, NEW l \in Links, Post(t, l)
    PROVE  IInv'
<1> DEFINE w == [op |-> "verified", link |-> l, now |-> clock]
<1>1. w \in Works /\ expiry[l] # 0
    BY DEF IInv, Types, Works, Post, Valid
<1>2. work[t].op # "drop" /\ work' = [work EXCEPT ![t] = w]
    BY DEF Post, Idle
<1>3. w.op # "drop" /\ (w.op = "verified" => w.now = clock /\ expiry[w.link] # 0)
    BY <1>1
<1> QED
    BY <1>1, <1>2, <1>3, VerifyKeeps DEF Post

(* A refusal for want of a passkey leaves the memory as it was.               *)
LEMMA NoPasskeyKeeps ==
    ASSUME IInv, NEW t \in Tasks, NoPasskey(t)
    PROVE  IInv'
<1>1. Idle \in Works /\ Idle.op = "idle"
    BY DEF Works, Idle
<1> QED
    BY <1>1, VerifyKeeps DEF NoPasskey

(* A claim forgets no link in date, and takes none that another claim of this *)
(* process holds.                                                             *)
LEMMA ClaimKeeps ==
    ASSUME IInv, NEW t \in Tasks, Claim(t)
    PROVE  IInv'
<1>0. PICK l : l = work[t].link
    OBVIOUS
<1> DEFINE rest == Live(Now(t))
<1>1. UNCHANGED <<clock, expiry, life, recorded>>
    BY DEF Claim
<1>2. l \in Links /\ Now(t) \in Nat /\ Now(t) <= clock /\ expiry[l] # 0
    BY <1>0, Parts DEF IInv, Types, Dates, Claim, Now
<1>3. rest \subseteq DOMAIN acted /\ \A k \in DOMAIN acted : k \in rest \/ clock >= expiry[k]
    BY <1>2 DEF IInv, Types, Dates, Live
<1>4. RecordedOnceInDate'
    BY <1>1 DEF IInv, RecordedOnceInDate, InDateTwice
<1>5. CASE /\ acted' = [k \in rest |-> acted[k]]
           /\ work' = [work EXCEPT ![t] = Idle]
    <2>1. work'[t].op = "idle" /\ \A u \in Tasks : u # t => work'[u] = work[u]
        BY <1>5 DEF IInv, Types, Idle
    <2>2. Types'
        BY <1>1, <1>3, <1>5 DEF IInv, Types, Works
    <2>3. Dates'
        BY <1>1, <1>3, <1>5, <2>1 DEF IInv, Types, Dates
    <2>4. \A k \in Links : Held(k) => Held(k)'
        BY <1>1, <1>3, <1>5 DEF Held
    <2>5. Claims'
        BY <1>1, <2>1, <2>4, Parts DEF IInv, Claims, InHand, InBook
    <2> QED
        BY <1>4, <2>2, <2>3, <2>5 DEF IInv
<1>6. CASE /\ l \notin rest
           /\ acted' = [k \in rest \union {l} |-> expiry[k]]
           /\ work' = [work EXCEPT ![t] = [op |-> "drop", link |-> l, at |-> clock]]
    <2>1. /\ work'[t] = [op |-> "drop", link |-> l, at |-> clock]
          /\ \A u \in Tasks : u # t => work'[u] = work[u]
        BY <1>6 DEF IInv, Types
    <2>2. Types'
        <3>1. [op |-> "drop", link |-> l, at |-> clock] \in Works
            BY <1>2 DEF IInv, Types, Works
        <3> QED
            BY <1>1, <1>2, <1>3, <1>6, <3>1 DEF IInv, Types
    <2>3. Dates'
        BY <1>1, <1>2, <1>3, <1>6, <2>1 DEF IInv, Types, Dates
    <2>4. /\ \A k \in Links : Held(k) => Held(k)'
          /\ Held(l)'
        BY <1>1, <1>3, <1>6 DEF Held
    <2>5. clock < expiry[l] => ~Held(l)
        BY <1>2, <1>3, <1>6 DEF Held, IInv, Types
    <2>6. \A u \in Tasks : u # t => (InHand(u)' <=> InHand(u))
        BY <1>1, <2>1 DEF InHand
    <2>7. \A i \in DOMAIN recorded : InBook(i)' <=> InBook(i)
        BY <1>1 DEF InBook
    <2>8. InHand(t)' => clock < expiry[l]
        BY <1>1, <2>1 DEF InHand
    <2>9. \A u \in Tasks : u # t /\ InHand(t)' /\ InHand(u) => work[u].link # l
        BY <2>5, <2>8 DEF IInv, Claims
    <2>10. \A i \in DOMAIN recorded : InHand(t)' /\ InBook(i) => recorded[i].link # l
        BY <2>5, <2>8 DEF IInv, Claims
    <2>11. \A u \in Tasks : u # t /\ InHand(u) => work[u].link \in Links
        BY Parts DEF IInv, InHand
    <2>12. Claims'
        <3>1. \A u \in Tasks : InHand(u)' => Held(work[u].link)'
            BY <2>1, <2>4, <2>6, <2>11 DEF IInv, Claims
        <3>2. \A i \in DOMAIN recorded : InBook(i)' => Held(recorded[i].link)'
            BY <1>1, <2>4, <2>7, Parts DEF IInv, Claims
        <3>3. \A u \in Tasks, i \in DOMAIN recorded : InHand(u)' /\ InBook(i)' => work'[u].link # recorded[i].link
            BY <2>1, <2>6, <2>7, <2>10 DEF IInv, Claims
        <3>4. \A u, v \in Tasks : InHand(u)' /\ InHand(v)' /\ work'[u].link = work'[v].link => u = v
            BY <2>1, <2>6, <2>9 DEF IInv, Claims
        <3> QED
            BY <1>1, <3>1, <3>2, <3>3, <3>4 DEF Claims, Held
    <2> QED
        BY <1>4, <2>2, <2>3, <2>12 DEF IInv
<1> QED
    BY <1>0, <1>5, <1>6 DEF Claim

(* A post in hand is done with, its claim left as it is.                      *)
LEMMA PasskeyLetGo ==
    ASSUME IInv, NEW t \in Tasks,
           UNCHANGED <<clock, expiry, acted, life, recorded>>,
           work' = [work EXCEPT ![t] = Idle]
    PROVE  IInv'
<1>1. work'[t].op = "idle" /\ \A u \in Tasks : u # t => work'[u] = work[u]
    BY DEF IInv, Types, Idle
<1>2. Types' /\ RecordedOnceInDate'
    BY DEF IInv, Types, Works, RecordedOnceInDate, InDateTwice
<1>3. Dates'
    BY <1>1 DEF IInv, Types, Dates
<1>4. Claims'
    BY <1>1 DEF IInv, Claims, InHand, InBook, Held
<1> QED
    BY <1>2, <1>3, <1>4 DEF IInv

(* The tuple of a claim in date is the first of its link in this process.     *)
LEMMA DroppedKeeps ==
    ASSUME IInv, NEW t \in Tasks, work[t].op = "drop",
           UNCHANGED <<clock, expiry, acted, life>>,
           Dropped(work[t].link, work[t].at),
           work' = [work EXCEPT ![t] = Idle]
    PROVE  IInv'
<1>0. PICK n : n = Len(recorded) + 1
    OBVIOUS
<1> DEFINE r == [link |-> work[t].link, life |-> life, at |-> work[t].at]
<1>1. CASE recorded' = recorded
    BY <1>1, PasskeyLetGo
<1>2. CASE recorded' = Append(recorded, r)
    <2>1. work'[t].op = "idle" /\ \A u \in Tasks : u # t => work'[u] = work[u]
        BY DEF IInv, Types, Idle
    <2>2. r \in Record /\ r.at <= clock /\ expiry[r.link] # 0
        BY Parts DEF IInv, Types, Dates, Record
    <2>3. /\ DOMAIN recorded = 1 .. Len(recorded) /\ DOMAIN recorded' = 1 .. n
          /\ recorded'[n] = r /\ \A i \in DOMAIN recorded : recorded'[i] = recorded[i]
        BY <1>0, <1>2, <2>2 DEF IInv, Types
    <2>4. Types'
        BY <1>2, <2>2 DEF IInv, Types, Works
    <2>5. Dates'
        <3>1. \A i \in DOMAIN recorded' : i \in DOMAIN recorded \/ i = n
            BY <1>0, <2>3 DEF IInv, Types
        <3>2. \A i \in DOMAIN recorded' :
                  recorded'[i].at <= clock /\ recorded'[i].life <= life /\ expiry[recorded'[i].link] # 0
            BY <2>2, <2>3, <3>1 DEF IInv, Types, Dates
        <3> QED
            BY <2>1, <3>2 DEF IInv, Dates
    <2>6. InBook(n)' => InHand(t)
        BY <2>3 DEF InBook, InHand
    <2>7. /\ \A u \in Tasks : u # t => (InHand(u)' <=> InHand(u))
          /\ ~InHand(t)'
          /\ \A i \in DOMAIN recorded : InBook(i)' <=> InBook(i)
          /\ \A k \in Links : Held(k)' <=> Held(k)
        BY <2>1, <2>3 DEF InHand, InBook, Held
    <2>8. \A i \in DOMAIN recorded' : i \in DOMAIN recorded \/ i = n
        BY <1>0, <2>3 DEF IInv, Types
    <2>9. Claims'
        <3>1. \A u \in Tasks : InHand(u)' => Held(work[u].link)'
            BY <2>1, <2>7, Parts DEF IInv, Claims, InHand
        <3>2. \A i \in DOMAIN recorded' : InBook(i)' => Held(recorded[i].link)'
            BY <2>3, <2>6, <2>7, <2>8, Parts DEF IInv, Claims
        <3>3. \A u \in Tasks, i \in DOMAIN recorded' : InHand(u)' /\ InBook(i)' => work'[u].link # recorded'[i].link
            BY <2>1, <2>3, <2>6, <2>7, <2>8 DEF IInv, Claims
        <3>4. \A u, v \in Tasks : InHand(u)' /\ InHand(v)' /\ work'[u].link = work'[v].link => u = v
            BY <2>1, <2>7 DEF IInv, Claims
        <3> QED
            BY <3>1, <3>2, <3>3, <3>4 DEF Claims
    <2>10. RecordedOnceInDate'
        <3>1. SUFFICES ASSUME NEW i \in DOMAIN recorded', NEW j \in DOMAIN recorded', InDateTwice(i, j)', i # j
                       PROVE  FALSE
            BY DEF RecordedOnceInDate
        <3>2. CASE i \in DOMAIN recorded /\ j \in DOMAIN recorded
            BY <2>3, <3>1, <3>2 DEF IInv, RecordedOnceInDate, InDateTwice
        <3>3. CASE i = n /\ j \in DOMAIN recorded
            BY <2>3, <3>1, <3>3 DEF IInv, Claims, InDateTwice, InHand, InBook
        <3>4. CASE j = n /\ i \in DOMAIN recorded
            BY <2>3, <3>1, <3>4 DEF IInv, Claims, InDateTwice, InHand, InBook
        <3> QED
            BY <2>8, <3>1, <3>2, <3>3, <3>4
    <2> QED
        BY <2>4, <2>5, <2>9, <2>10 DEF IInv
<1> QED
    BY <1>1, <1>2 DEF Dropped

(* A claim is given back when its drop fails: no other claim in date is of    *)
(* the same link.                                                             *)
LEMMA DropFailsKeeps ==
    ASSUME IInv, NEW t \in Tasks, DropFails(t)
    PROVE  IInv'
<1>0. PICK l : l = work[t].link
    OBVIOUS
<1>1. /\ UNCHANGED <<clock, expiry, life, recorded>> /\ work[t].op = "drop"
      /\ acted' = [k \in DOMAIN acted \ {l} |-> acted[k]]
      /\ work' = [work EXCEPT ![t] = Idle]
    BY <1>0 DEF DropFails, Released
<1>2. work'[t].op = "idle" /\ \A u \in Tasks : u # t => work'[u] = work[u]
    BY <1>1 DEF IInv, Types, Idle
<1>3. Types' /\ RecordedOnceInDate'
    BY <1>1 DEF IInv, Types, Works, RecordedOnceInDate, InDateTwice
<1>4. Dates'
    BY <1>1, <1>2 DEF IInv, Types, Dates
<1>5. \A k \in Links : k # l /\ Held(k) => Held(k)'
    BY <1>1 DEF Held
<1>6. InHand(t) \/ Held(l)'
    <2>1. l \in Links /\ work[t].at \in Nat /\ work[t].at <= clock /\ expiry[l] \in Nat
        BY <1>0, <1>1, Parts DEF IInv, Types, Dates
    <2> QED
        BY <1>0, <1>1, <2>1 DEF IInv, Types, InHand, Held
<1>7. Claims'
    <2>1. /\ \A u \in Tasks : u # t => (InHand(u)' <=> InHand(u))
          /\ ~InHand(t)'
          /\ \A i \in DOMAIN recorded : InBook(i)' <=> InBook(i)
        BY <1>1, <1>2 DEF InHand, InBook
    <2>2. \A u \in Tasks : InHand(u)' => Held(work[u].link)'
        BY <1>0, <1>2, <1>5, <1>6, <2>1, Parts DEF IInv, Claims, InHand
    <2>3. \A i \in DOMAIN recorded : InBook(i)' => Held(recorded[i].link)'
        BY <1>0, <1>1, <1>5, <1>6, <2>1, Parts DEF IInv, Claims
    <2> QED
        BY <1>1, <1>2, <2>1, <2>2, <2>3 DEF IInv, Claims, Held
<1> QED
    BY <1>3, <1>4, <1>7 DEF IInv

(* Another process begins: nothing in hand, nothing of its own recorded.      *)
LEMMA RestartKeeps ==
    ASSUME IInv, Restart
    PROVE  IInv'
<1>1. /\ UNCHANGED <<clock, expiry, recorded>> /\ life' = life + 1
      /\ acted' = Nothing /\ \A t \in Tasks : work'[t] = Idle
    BY DEF Restart
<1>2. Types' /\ Dates'
    BY <1>1, Parts DEF IInv, Types, Works, Dates, Restart, Nothing, Idle
<1>3. \A i \in DOMAIN recorded : ~InBook(i)'
    BY <1>1, Parts DEF IInv, Types, Dates, InBook
<1>4. Claims'
    BY <1>1, <1>3 DEF Claims, InHand, Idle
<1>5. RecordedOnceInDate'
    BY <1>1 DEF IInv, RecordedOnceInDate, InDateTwice
<1> QED
    BY <1>2, <1>4, <1>5 DEF IInv

(* Every step keeps the invariant: one case for each action.                  *)
LEMMA IInvStep == IInv /\ [Next]_vars => IInv'
<1> SUFFICES ASSUME IInv, [Next]_vars PROVE IInv'
    OBVIOUS
<1>1. CASE \E l \in Links : Mint(l)
    BY <1>1, MintKeeps
<1>2. CASE \E l \in Links : Settle(l) \/ Accept(l)
    BY <1>2, UntouchedKeeps DEF Settle, Accept, Untouched
<1>3. CASE \E l \in Links, t \in Tasks : Post(t, l)
    BY <1>3, PostKeeps
<1>4. CASE \E t \in Tasks : NoPasskey(t) \/ Claim(t) \/ DropFails(t)
    BY <1>4, NoPasskeyKeeps, ClaimKeeps, DropFailsKeeps
<1>5. CASE \E t \in Tasks : Drop(t) \/ HangUp(t)
    BY <1>5, DroppedKeeps, PasskeyLetGo DEF Drop, HangUp
<1>6. CASE Restart
    BY <1>6, RestartKeeps
<1>7. CASE Tick
    BY <1>7, TickKeeps
<1>8. CASE UNCHANGED vars
    BY <1>8, UntouchedKeeps DEF vars, Untouched
<1> QED
    BY <1>1, <1>2, <1>3, <1>4, <1>5, <1>6, <1>7, <1>8 DEF Next, Edge

(* Whatever the number of posts of a link, the claims' bound and the order of *)
(* its steps, one process records a link once at most while it is in date.    *)
THEOREM RecordsOnce == Spec => []RecordedOnceInDate
<1>1. IInv => RecordedOnceInDate
    BY DEF IInv
<1> QED
    BY <1>1, IInvInit, IInvStep, PTL DEF Spec
-----------------------------------------------------------------------------
(* The memory of a full edge refuses, so that it holds no more than it may.   *)
Bounded == DOMAIN acted \subseteq Links /\ Cardinality(DOMAIN acted) <= MAX

(* Links that are forgotten only make room.                                   *)
LEMMA FewerFit ==
    ASSUME Bounded, NEW S \in SUBSET DOMAIN acted
    PROVE  IsFiniteSet(S) /\ Cardinality(S) \in Nat /\ Cardinality(S) <= MAX
<1>1. IsFiniteSet(DOMAIN acted)
    BY FS_Subset DEF Bounded
<1>2. IsFiniteSet(S) /\ Cardinality(S) <= Cardinality(DOMAIN acted)
    BY <1>1, FS_Subset
<1>3. Cardinality(S) \in Nat /\ Cardinality(DOMAIN acted) \in Nat
    BY <1>1, <1>2, FS_CardinalityType
<1> QED
    BY <1>2, <1>3 DEF Bounded

(* A claim takes a place only where there is one.                             *)
LEMMA ClaimBounded ==
    ASSUME IInv, Bounded, NEW t \in Tasks, Claim(t)
    PROVE  Bounded'
<1>0. PICK l : l = work[t].link
    OBVIOUS
<1>1. PICK rest : rest = Live(Now(t))
    OBVIOUS
<1>2. l \in Links /\ rest \subseteq DOMAIN acted
    BY <1>0, <1>1, Parts DEF IInv, Claim, Live
<1>3. CASE acted' = [k \in rest |-> acted[k]]
    BY <1>2, <1>3, FewerFit DEF Bounded
<1>4. CASE Fits(rest) /\ acted' = [k \in rest \union {l} |-> expiry[k]]
    <2>1. IsFiniteSet(rest) /\ Cardinality(rest) \in Nat /\ Cardinality(rest) < MAX
        BY <1>2, <1>4, FewerFit DEF Fits
    <2>2. Cardinality(rest \union {l}) \in Nat /\ Cardinality(rest \union {l}) <= Cardinality(rest) + 1
        <3>1. Cardinality(rest \union {l}) = IF l \in rest THEN Cardinality(rest) ELSE Cardinality(rest) + 1
            BY <2>1, FS_AddElement
        <3> QED
            BY <2>1, <3>1
    <2>3. DOMAIN acted' = rest \union {l}
        BY <1>4
    <2> QED
        BY <1>2, <2>1, <2>2, <2>3 DEF Bounded
<1> QED
    BY <1>0, <1>1, <1>3, <1>4 DEF Claim

(* A link is dropped, refused or answered for only if it is one.              *)
Known == space \union told \union already \union lost \union refused \subseteq Links

(* Every step answers only for links there are.                               *)
LEMMA KnownStep ==
    ASSUME IInv, Known, [Next]_vars
    PROVE  Known'
<1>1. ASSUME NEW t \in Tasks, Edge(t) PROVE Known'
    <2>1. work[t].op \in {"verified", "drop"} => work[t].link \in Links
        BY Parts DEF IInv
    <2> QED
        BY <1>1, <2>1 DEF Known, Edge, NoPasskey, Claim, Drop, DropFails, HangUp, Dropped, answers
<1>2. ASSUME NEW l \in Links, Mint(l) \/ Settle(l) \/ Accept(l) \/ \E t \in Tasks : Post(t, l) PROVE Known'
    BY <1>2 DEF Known, Mint, Settle, Accept, Post, answers
<1>3. CASE Restart \/ Tick \/ UNCHANGED vars
    BY <1>3 DEF Known, Restart, Tick, vars, answers
<1> QED
    BY <1>1, <1>2, <1>3 DEF Next

(* Every step leaves the memory within its bound.                             *)
LEMMA BoundedStep ==
    ASSUME IInv, Bounded, [Next]_vars
    PROVE  Bounded'
<1>1. ASSUME NEW t \in Tasks, DropFails(t) PROVE Bounded'
    <2>1. acted' = [k \in DOMAIN acted \ {work[t].link} |-> acted[k]]
        BY <1>1 DEF DropFails, Released
    <2> QED
        BY <2>1, FewerFit DEF Bounded
<1>2. CASE Restart
    <2>1. DOMAIN acted' = {}
        BY <1>2 DEF Restart, Nothing
    <2> QED
        BY <2>1, FS_EmptySet DEF Bounded
<1>3. CASE UNCHANGED acted
    BY <1>3 DEF Bounded
<1> QED
    BY <1>1, <1>2, <1>3, ClaimBounded
       DEF Next, Edge, Mint, Settle, Accept, Post, NoPasskey, Drop, HangUp, Tick, vars

(* Every step keeps the types, given the invariant on both sides of it.       *)
LEMMA TypeStep == IInv /\ IInv' /\ TypeOK /\ [Next]_vars => TypeOK'
<1> SUFFICES ASSUME IInv, IInv', TypeOK, [Next]_vars PROVE TypeOK'
    OBVIOUS
<1>1. Bounded /\ Known
    BY DEF TypeOK, Bounded, Known
<1>2. Bounded' /\ Known'
    BY <1>1, BoundedStep, KnownStep
<1>3. \A t \in Tasks : work'[t].op \in {"idle", "verified", "drop"}
    BY DEF IInv, Types, Works, Idle
<1>4. clock' \in 0 .. MaxClock /\ life' \in 1 .. MaxLives
    <2>1. CASE Restart
        BY <2>1 DEF TypeOK, Restart
    <2>2. CASE Tick
        BY <2>2 DEF TypeOK, Tick
    <2>3. CASE UNCHANGED <<clock, life>>
        BY <2>3 DEF TypeOK
    <2> QED
        BY <2>1, <2>2, <2>3
           DEF Next, Edge, Mint, Settle, Accept, Post, NoPasskey, Claim, Drop, DropFails, HangUp, vars
<1>5. \A l \in Links : expiry'[l] \in {0} \union (TTL .. MaxClock + TTL)
    <2>1. ASSUME NEW k \in Links, Mint(k) PROVE \A l \in Links : expiry'[l] \in {0} \union (TTL .. MaxClock + TTL)
        BY <2>1 DEF TypeOK, IInv, Types, Mint
    <2>2. CASE UNCHANGED expiry
        BY <2>2 DEF TypeOK
    <2> QED
        BY <2>1, <2>2 DEF Next, Edge, Settle, Accept, Post, NoPasskey, Claim, Drop, DropFails, HangUp, Restart, Tick, vars
<1> QED
    BY <1>2, <1>3, <1>4, <1>5 DEF TypeOK, Bounded, Known

(* Of any number of links, no more than MAX are remembered, and every time,   *)
(* step and answer is one of those the model states.                          *)
THEOREM MemoryHolds == Spec => []TypeOK
<1>1. Init => TypeOK
    BY FS_EmptySet DEF Init, TypeOK, Nothing, Idle
<1> QED
    BY <1>1, IInvInit, IInvStep, TypeStep, PTL DEF Spec

-----------------------------------------------------------------------------
(* Proofs about the passkey gate, for any devices, lifetimes and bounds.      *)
(*                                                                            *)
(* A challenge that was accepted is not outstanding, and was accepted in its  *)
(* lifetime; what is outstanding expires a lifetime after its issue.          *)
ChallengesInv ==
    /\ pclock \in Nat /\ issued \in Seq(Nat) /\ accepted \in Seq([challenge : Nat, at : Nat])
    /\ DOMAIN live \subseteq 1 .. Len(issued)
    /\ \A c \in DOMAIN live : live[c] = issued[c] + CHALLENGE_TTL
    /\ \A i \in DOMAIN accepted : accepted[i].challenge \in (1 .. Len(issued)) \ DOMAIN live
    /\ PresentedOnce

(* One request is between its load of the file and its save, and it is one of *)
(* a registration with a window's code, or of a decision with a credential.   *)
Job(t) == pwork[t].op
LockInv ==
    /\ pwork = [t \in Callers |-> pwork[t]]
    /\ \A t \in Callers : pwork[t] = AtRest \/ Job(t) \in {"gate", "count", "spend", "store"}
    /\ \A t, u \in Callers : pwork[t] # AtRest /\ pwork[u] # AtRest => t = u

(* Once a credential is stored, the file holds some, and what a decision's    *)
(* request has loaded and may save does.                                      *)
ArmedInv ==
    /\ armed => store.counts # NoKeys
    /\ DOMAIN store = {"state", "counts"}
    /\ \A t \in Callers : Job(t) \in {"gate", "count"} => pwork[t].counts # NoKeys

(* A code that took a registration is no window's that still may.             *)
WindowInv ==
    /\ opened \in Nat /\ enrolled \in Seq(Nat)
    /\ window \in [code : 0 .. opened, until : Nat, spent : BOOLEAN]
    /\ \A i \in DOMAIN enrolled : /\ enrolled[i] \in 1 .. opened
                                  /\ enrolled[i] = window.code => window.spent
    /\ \A t \in Callers : Job(t) \in {"spend", "store"} =>
          LET w == pwork[t].window IN
          /\ DOMAIN pwork[t] = {"op", "key", "window", "counts"}
          /\ w \in [code : 1 .. opened, until : Nat, spent : BOOLEAN]
          /\ \A i \in DOMAIN enrolled : enrolled[i] # w.code
          /\ Job(t) = "store" /\ window.code = w.code => window.spent
    /\ OnePerWindow

PasskeyInv == ChallengesInv /\ LockInv /\ ArmedInv /\ WindowInv

LEMMA PasskeyStarts == PasskeyInit => PasskeyInv
<1> SUFFICES ASSUME PasskeyInit
             PROVE  PasskeyInv
    OBVIOUS
<1> USE DEF PasskeyInit, NoKeys, AtRest, Job
<1>1. ChallengesInv
    BY DEF ChallengesInv, PresentedOnce
<1>2. LockInv
    BY DEF LockInv
<1>3. ArmedInv
    BY DEF ArmedInv, Absent
<1>4. WindowInv
    BY DEF WindowInv, NoWindow, OnePerWindow
<1> QED  BY <1>1, <1>2, <1>3, <1>4 DEF PasskeyInv

(* What a step that leaves a part alone keeps.                                *)
LEMMA ChallengesKept ==
    ASSUME ChallengesInv, UNCHANGED <<pclock, issued, live, accepted>>
    PROVE  ChallengesInv'
    BY DEF ChallengesInv, PresentedOnce

(* A request that ends, with the file as it was or as it had loaded it.       *)
LEMMA EndsWork ==
    ASSUME LockInv, ArmedInv, NEW t \in Callers, pwork' = [pwork EXCEPT ![t] = AtRest],
           DOMAIN store' = {"state", "counts"}, armed' => store'.counts # NoKeys
    PROVE  LockInv' /\ ArmedInv'
<1>1. pwork'[t] = AtRest /\ (\A u \in Callers \ {t} : pwork'[u] = pwork[u])
      /\ pwork' = [u \in Callers |-> pwork'[u]]
    BY DEF LockInv
<1> QED  BY <1>1 DEF LockInv, ArmedInv, Job, AtRest

(* A request that takes the free lock.                                        *)
LEMMA TakesLock ==
    ASSUME LockInv, Free, NEW t \in Callers, NEW w, pwork' = [pwork EXCEPT ![t] = w],
           w.op \in {"gate", "spend"}
    PROVE  LockInv' /\ pwork'[t] = w /\ \A u \in Callers \ {t} : pwork'[u] = AtRest
<1>1. pwork'[t] = w /\ (\A u \in Callers \ {t} : pwork'[u] = AtRest)
      /\ pwork' = [u \in Callers |-> pwork'[u]]
    BY DEF LockInv, Free
<1> QED  BY <1>1 DEF LockInv, Job, AtRest

(* Nothing is said of the windows by a step that leaves them, and the         *)
(* registrations under way, alone.                                            *)
LEMMA WindowKept ==
    ASSUME WindowInv, UNCHANGED <<opened, enrolled, window>>,
           \A t \in Callers : pwork'[t] = pwork[t] \/ pwork'[t].op \notin {"spend", "store"}
    PROVE  WindowInv'
<1>1. OnePerWindow'
    BY DEF WindowInv, OnePerWindow
<1> QED  BY <1>1 DEF WindowInv, Job

LEMMA ChallengeKeeps ==
    ASSUME PasskeyInv, Challenge
    PROVE  PasskeyInv'
<1> USE PasskeyAssumption
<1>1. UNCHANGED <<pclock, rp, people, store, window, pwork, history>>
    BY DEF Challenge
<1>2. UNCHANGED <<pclock, rp, devices, posts, opened, store, window, pwork, accepted, bare, armed, enrolled>>
    BY <1>1 DEF people, history
<1>3. Unexpired \subseteq DOMAIN live
    BY DEF Unexpired, Outstanding
<1>4. ChallengesInv'
  <2>1. CASE Room
    <3> DEFINE c == Len(issued) + 1
    <3>1. /\ issued' = Append(issued, pclock)
          /\ live' = [d \in Unexpired \union {c} |->
                         IF d \in Unexpired THEN live[d] ELSE pclock + CHALLENGE_TTL]
        BY <2>1 DEF Challenge
    <3>2. /\ issued' \in Seq(Nat) /\ Len(issued') = c /\ issued'[c] = pclock
          /\ \A d \in 1 .. Len(issued) : issued'[d] = issued[d]
        BY <3>1 DEF PasskeyInv, ChallengesInv
    <3>3. DOMAIN live' = Unexpired \cup {c} /\ c \notin DOMAIN live
        BY <3>1 DEF PasskeyInv, ChallengesInv
    <3>4. \A d \in DOMAIN live' : d \in 1 .. Len(issued') /\ live'[d] = issued'[d] + CHALLENGE_TTL
        BY <1>3, <3>1, <3>2, <3>3 DEF PasskeyInv, ChallengesInv
    <3>5. \A i \in DOMAIN accepted : /\ accepted[i].challenge \in (1 .. Len(issued')) \ DOMAIN live'
                                     /\ issued'[accepted[i].challenge] = issued[accepted[i].challenge]
      <4> SUFFICES ASSUME NEW i \in DOMAIN accepted
                   PROVE  /\ accepted[i].challenge \in (1 .. Len(issued')) \ DOMAIN live'
                          /\ issued'[accepted[i].challenge] = issued[accepted[i].challenge]
          OBVIOUS
      <4> DEFINE d == accepted[i].challenge
      <4>1. d \in 1 .. Len(issued) /\ d \notin DOMAIN live /\ Len(issued) \in Nat
          BY DEF PasskeyInv, ChallengesInv
      <4>2. issued'[d] = issued[d] /\ d # c /\ d \in 1 .. Len(issued')
          BY <3>2, <4>1
      <4>3. d \notin DOMAIN live'
          BY <1>3, <3>3, <4>1, <4>2
      <4> QED  BY <4>2, <4>3
    <3>6. PresentedOnce'
        BY <1>2, <3>5 DEF PasskeyInv, ChallengesInv, PresentedOnce
    <3> QED  BY <1>2, <3>2, <3>4, <3>5, <3>6 DEF PasskeyInv, ChallengesInv
  <2>2. CASE ~Room
    <3>1. live' = [d \in Unexpired |-> live[d]] /\ issued' = issued
        BY <2>2 DEF Challenge
    <3>2. PresentedOnce'
        BY <1>2, <3>1 DEF PasskeyInv, ChallengesInv, PresentedOnce
    <3> QED  BY <1>2, <1>3, <3>1, <3>2 DEF PasskeyInv, ChallengesInv
  <2> QED  BY <2>1, <2>2
<1>5. LockInv' /\ ArmedInv'
    BY <1>2 DEF PasskeyInv, LockInv, ArmedInv, Job
<1>6. WindowInv'
    BY <1>2, WindowKept DEF PasskeyInv
<1> QED  BY <1>4, <1>5, <1>6 DEF PasskeyInv

(* Who goes on under the lock has read a credential.                          *)
LEMMA GateKeeps ==
    ASSUME PasskeyInv, NEW t \in Callers, NEW p, Gate(t, p)
    PROVE  PasskeyInv'
<1> DEFINE w == [op |-> "gate", post |-> p, counts |-> store.counts]
<1>1. /\ UNCHANGED <<pclock, issued, live, opened, store, window, accepted, armed, enrolled>>
      /\ Free /\ store.counts # NoKeys /\ pwork' = [pwork EXCEPT ![t] = w]
    BY DEF Gate, people, challenges
<1>2. w.op = "gate" /\ w.counts = store.counts
    OBVIOUS
<1> HIDE DEF w
<1>3. LockInv' /\ pwork'[t] = w /\ \A u \in Callers \ {t} : pwork'[u] = AtRest
    BY <1>1, <1>2, TakesLock DEF PasskeyInv
<1>4. ArmedInv'
    BY <1>1, <1>2, <1>3 DEF PasskeyInv, ArmedInv, Job, AtRest
<1>5. WindowInv'
    BY <1>1, <1>2, <1>3, WindowKept DEF PasskeyInv, AtRest
<1>6. ChallengesInv'
    BY <1>1, ChallengesKept DEF PasskeyInv
<1> QED  BY <1>3, <1>4, <1>5, <1>6 DEF PasskeyInv

(* A challenge is taken back whatever becomes of its assertion, so no second  *)
(* one finds it.                                                              *)
LEMMA ConsumeKeeps ==
    ASSUME PasskeyInv, NEW t \in Callers, Consume(t)
    PROVE  PasskeyInv'
<1> USE PasskeyAssumption
<1> DEFINE presented == pwork[t].post
           c == presented.challenge
           stored == pwork[t].counts
           good == /\ c \in DOMAIN live /\ live[c] > pclock /\ presented.key \in DOMAIN stored
                   /\ Verifies(presented.count, stored[presented.key])
           w == [op |-> "count", counts |-> [stored EXCEPT ![presented.key] = presented.count]]
<1>1. /\ UNCHANGED <<pclock, issued, opened, store, window, bare, armed, enrolled>>
      /\ Job(t) = "gate" /\ live' = [d \in DOMAIN live \ {c} |-> live[d]]
    BY DEF Consume, people, TakenBack, Job
<1>2. CASE ~good
  <2>1. accepted' = accepted /\ pwork' = [pwork EXCEPT ![t] = AtRest]
      BY <1>2 DEF Consume, Refuse
  <2>2. PresentedOnce'
      BY <1>1, <2>1 DEF PasskeyInv, ChallengesInv, PresentedOnce
  <2>3. ChallengesInv'
      BY <1>1, <2>1, <2>2 DEF PasskeyInv, ChallengesInv
  <2>4. LockInv' /\ ArmedInv'
      BY <1>1, <2>1, EndsWork DEF PasskeyInv, ArmedInv
  <2>5. \A u \in Callers : pwork'[u] = pwork[u] \/ pwork'[u].op \notin {"spend", "store"}
      BY <2>1 DEF PasskeyInv, LockInv, AtRest
  <2>6. WindowInv'
      BY <1>1, <2>5, WindowKept DEF PasskeyInv
  <2> QED  BY <2>3, <2>4, <2>6 DEF PasskeyInv
<1>3. CASE good
  <2> DEFINE a == [challenge |-> c, at |-> pclock]
  <2>1. accepted' = Append(accepted, a) /\ (pwork' = [pwork EXCEPT ![t] = w] \/ pwork' = [pwork EXCEPT ![t] = AtRest])
      BY <1>3 DEF Consume
  <2>2. /\ c \in 1 .. Len(issued) /\ a \in [challenge : Nat, at : Nat] /\ a.challenge = c /\ a.at = pclock
        /\ pclock < issued[c] + CHALLENGE_TTL
      BY <1>3 DEF PasskeyInv, ChallengesInv
  <2> HIDE DEF a
  <2>3. /\ accepted' \in Seq([challenge : Nat, at : Nat]) /\ Len(accepted') = Len(accepted) + 1
        /\ accepted'[Len(accepted) + 1] = a /\ \A i \in 1 .. Len(accepted) : accepted'[i] = accepted[i]
        /\ DOMAIN accepted' = 1 .. Len(accepted) + 1 /\ DOMAIN accepted = 1 .. Len(accepted)
        /\ Len(accepted) \in Nat
      BY <2>1, <2>2, SMTT(90) DEF PasskeyInv, ChallengesInv
  <2>4. \A i \in 1 .. Len(accepted) : accepted[i].challenge # c
      BY <1>3, <2>3 DEF PasskeyInv, ChallengesInv
  <2>5. /\ \A i \in DOMAIN accepted' : accepted'[i].challenge \in (1 .. Len(issued)) \ DOMAIN live'
        /\ \A i \in DOMAIN accepted' : accepted'[i].at < issued[accepted'[i].challenge] + CHALLENGE_TTL
    <3>1. \A i \in DOMAIN accepted' : i \in DOMAIN accepted \/ i = Len(accepted) + 1
        BY <2>3
    <3>2. \A i \in DOMAIN accepted : accepted'[i].challenge \in (1 .. Len(issued)) \ DOMAIN live'
        BY <1>1, <2>3 DEF PasskeyInv, ChallengesInv
    <3>3. \A i \in DOMAIN accepted : accepted'[i].at < issued[accepted'[i].challenge] + CHALLENGE_TTL
        BY <2>3 DEF PasskeyInv, ChallengesInv, PresentedOnce
    <3>4. a.challenge \in (1 .. Len(issued)) \ DOMAIN live' /\ a.at < issued[a.challenge] + CHALLENGE_TTL
        BY <1>1, <2>2
    <3> QED  BY <2>3, <3>1, <3>2, <3>3, <3>4
  <2>6. \A i, j \in DOMAIN accepted' : accepted'[i].challenge = accepted'[j].challenge => i = j
    <3>1. \A i, j \in DOMAIN accepted : accepted[i].challenge = accepted[j].challenge => i = j
        BY DEF PasskeyInv, ChallengesInv, PresentedOnce
    <3>2. \A i \in DOMAIN accepted' : i \in DOMAIN accepted \/ i = Len(accepted) + 1
        BY <2>3
    <3> QED  BY <2>2, <2>3, <2>4, <3>1, <3>2
  <2>7. PresentedOnce'
      BY <1>1, <2>5, <2>6 DEF PresentedOnce
  <2>8. ChallengesInv'
      BY <1>1, <2>3, <2>5, <2>7 DEF PasskeyInv, ChallengesInv
  <2>9. w.op = "count" /\ w.counts # NoKeys
      BY <1>3 DEF NoKeys
  <2> HIDE DEF w, good
  <2>10. CASE pwork' = [pwork EXCEPT ![t] = AtRest]
    <3>1. LockInv' /\ ArmedInv'
        BY <1>1, <2>10, EndsWork DEF PasskeyInv, ArmedInv
    <3>2. \A u \in Callers : pwork'[u] = pwork[u] \/ pwork'[u].op \notin {"spend", "store"}
        BY <2>10 DEF PasskeyInv, LockInv, AtRest
    <3> QED  BY <1>1, <2>8, <3>1, <3>2, WindowKept DEF PasskeyInv
  <2>11. CASE pwork' = [pwork EXCEPT ![t] = w]
    <3>1. pwork'[t] = w /\ (\A u \in Callers \ {t} : pwork'[u] = pwork[u])
          /\ pwork' = [u \in Callers |-> pwork'[u]]
        BY <2>11 DEF PasskeyInv, LockInv
    <3>2. pwork[t] # AtRest
        BY <1>1 DEF Job, AtRest
    <3>3. LockInv'
        BY <2>9, <3>1, <3>2 DEF PasskeyInv, LockInv, Job
    <3>4. ArmedInv'
        BY <1>1, <2>9, <3>1 DEF PasskeyInv, ArmedInv, Job
    <3>5. WindowInv'
        BY <1>1, <2>9, <3>1, WindowKept DEF PasskeyInv
    <3> QED  BY <2>8, <3>3, <3>4, <3>5 DEF PasskeyInv
  <2> QED  BY <2>1, <2>10, <2>11
<1> QED  BY <1>2, <1>3

(* The counter saved is that of a credential the request had loaded.          *)
LEMMA SaveCountKeeps ==
    ASSUME PasskeyInv, NEW t \in Callers, SaveCount(t)
    PROVE  PasskeyInv'
<1>1. /\ UNCHANGED <<pclock, issued, live, opened, window, accepted, armed, enrolled>>
      /\ Job(t) = "count" /\ pwork' = [pwork EXCEPT ![t] = AtRest]
      /\ store' = store \/ store' = Good(pwork[t].counts)
    BY DEF SaveCount, people, challenges, history, Job
<1>2. DOMAIN store' = {"state", "counts"} /\ (armed' => store'.counts # NoKeys)
    BY <1>1 DEF PasskeyInv, ArmedInv, Good
<1>3. LockInv' /\ ArmedInv'
    BY <1>1, <1>2, EndsWork DEF PasskeyInv
<1>4. \A u \in Callers : pwork'[u] = pwork[u] \/ pwork'[u].op \notin {"spend", "store"}
    BY <1>1 DEF PasskeyInv, LockInv, AtRest
<1> QED  BY <1>1, <1>3, <1>4, WindowKept, ChallengesKept DEF PasskeyInv

(* A window opened has a code no registration has taken.                      *)
LEMMA OpenWindowKeeps ==
    ASSUME PasskeyInv, OpenWindow
    PROVE  PasskeyInv'
<1> USE PasskeyAssumption
<1>1. /\ UNCHANGED <<pclock, issued, live, store, pwork, accepted, armed, enrolled>>
      /\ opened' = opened + 1
      /\ window' = [code |-> opened + 1, until |-> pclock + ENROLL_WINDOW, spent |-> FALSE]
    BY DEF OpenWindow, challenges, history
<1>2. opened \in Nat /\ pclock \in Nat
    BY DEF PasskeyInv, ChallengesInv, WindowInv
<1>3. opened' \in Nat /\ window' \in [code : 0 .. opened', until : Nat, spent : BOOLEAN]
    BY <1>1, <1>2
<1>4. \A i \in DOMAIN enrolled : enrolled[i] \in 1 .. opened' /\ enrolled[i] # window'.code
    BY <1>1, <1>2 DEF PasskeyInv, WindowInv
<1>5. ASSUME NEW t \in Callers, Job(t) \in {"spend", "store"}
      PROVE  /\ DOMAIN pwork[t] = {"op", "key", "window", "counts"}
             /\ pwork[t].window \in [code : 1 .. opened', until : Nat, spent : BOOLEAN]
             /\ \A i \in DOMAIN enrolled : enrolled[i] # pwork[t].window.code
             /\ window'.code # pwork[t].window.code
    <2>1. /\ DOMAIN pwork[t] = {"op", "key", "window", "counts"}
          /\ pwork[t].window \in [code : 1 .. opened, until : Nat, spent : BOOLEAN]
          /\ \A i \in DOMAIN enrolled : enrolled[i] # pwork[t].window.code
        BY <1>5 DEF PasskeyInv, WindowInv
    <2> QED  BY <1>1, <1>2, <2>1
<1>6. OnePerWindow'
    BY <1>1 DEF PasskeyInv, WindowInv, OnePerWindow
<1>7. WindowInv'
    BY <1>1, <1>3, <1>4, <1>5, <1>6 DEF PasskeyInv, WindowInv, Job
<1>8. LockInv' /\ ArmedInv'
    BY <1>1 DEF PasskeyInv, LockInv, ArmedInv, Job
<1> QED  BY <1>1, <1>7, <1>8, ChallengesKept DEF PasskeyInv

(* A registration begins with the code of a window no other has taken.        *)
LEMMA RegisterKeeps ==
    ASSUME PasskeyInv, NEW t \in Callers, NEW k, NEW code \in 1 .. opened, Register(t, k, code)
    PROVE  PasskeyInv'
<1> DEFINE w == [op |-> "spend", key |-> k, window |-> window, counts |-> store.counts]
<1>1. /\ UNCHANGED <<pclock, issued, live, opened, store, window, accepted, armed, enrolled>>
      /\ Free /\ ~window.spent /\ window.code = code /\ pwork' = [pwork EXCEPT ![t] = w]
    BY DEF Register, people, challenges, history
<1>2. w.op = "spend" /\ w.window = window /\ DOMAIN w = {"op", "key", "window", "counts"}
    OBVIOUS
<1> HIDE DEF w
<1>3. LockInv' /\ pwork'[t] = w /\ \A u \in Callers \ {t} : pwork'[u] = AtRest
    BY <1>1, <1>2, TakesLock DEF PasskeyInv
<1>4. ArmedInv'
    BY <1>1, <1>2, <1>3 DEF PasskeyInv, ArmedInv, Job, AtRest
<1>5. /\ window \in [code : 1 .. opened, until : Nat, spent : BOOLEAN]
      /\ \A i \in DOMAIN enrolled : enrolled[i] # window.code
    BY <1>1 DEF PasskeyInv, WindowInv
<1>6. OnePerWindow'
    BY <1>1 DEF PasskeyInv, WindowInv, OnePerWindow
<1>7. WindowInv'
    BY <1>1, <1>2, <1>3, <1>5, <1>6 DEF PasskeyInv, WindowInv, Job, AtRest
<1> QED  BY <1>1, <1>3, <1>4, <1>7, ChallengesKept DEF PasskeyInv

(* The window is spent before the credential is stored.                       *)
LEMMA SpendKeeps ==
    ASSUME PasskeyInv, NEW t \in Callers, Spend(t)
    PROVE  PasskeyInv'
<1> DEFINE w == pwork[t].window
<1>1. /\ UNCHANGED <<pclock, issued, live, opened, store, accepted, armed, enrolled>>
      /\ Job(t) = "spend"
      /\ \/ window' = Spent(w) /\ pwork' = [pwork EXCEPT ![t].op = "store"]
         \/ window' = window /\ pwork' = [pwork EXCEPT ![t] = AtRest]
    BY DEF Spend, people, challenges, history, Job
<1>2. ChallengesInv'
    BY <1>1, ChallengesKept DEF PasskeyInv
<1>3. CASE window' = window /\ pwork' = [pwork EXCEPT ![t] = AtRest]
  <2>1. LockInv' /\ ArmedInv'
      BY <1>1, <1>3, EndsWork DEF PasskeyInv, ArmedInv
  <2>2. \A u \in Callers : pwork'[u] = pwork[u] \/ pwork'[u].op \notin {"spend", "store"}
      BY <1>3 DEF PasskeyInv, LockInv, AtRest
  <2> QED  BY <1>1, <1>2, <1>3, <2>1, <2>2, WindowKept DEF PasskeyInv
<1>4. CASE window' = Spent(w) /\ pwork' = [pwork EXCEPT ![t].op = "store"]
  <2>1. /\ DOMAIN pwork[t] = {"op", "key", "window", "counts"}
        /\ w \in [code : 1 .. opened, until : Nat, spent : BOOLEAN]
        /\ \A i \in DOMAIN enrolled : enrolled[i] # w.code
      BY <1>1 DEF PasskeyInv, WindowInv
  <2>2. /\ DOMAIN pwork' = Callers /\ pwork' = [u \in Callers |-> pwork'[u]]
        /\ \A u \in Callers \ {t} : pwork'[u] = pwork[u]
      BY <1>4 DEF PasskeyInv, LockInv
  <2>3. pwork'[t] = [pwork[t] EXCEPT !.op = "store"]
      BY <1>4 DEF PasskeyInv, LockInv
  <2>4. pwork'[t].op = "store" /\ pwork'[t].window = w /\ DOMAIN pwork'[t] = {"op", "key", "window", "counts"}
      BY <2>1, <2>3
  <2>5. /\ window' \in [code : 0 .. opened, until : Nat, spent : BOOLEAN]
        /\ window'.spent /\ window'.code = w.code
    <3>1. w = [code |-> w.code, until |-> w.until, spent |-> w.spent] /\ opened \in Nat
        BY <2>1 DEF PasskeyInv, WindowInv
    <3>2. window' = [code |-> w.code, until |-> w.until, spent |-> TRUE]
        BY <1>4, <3>1 DEF Spent
    <3> QED  BY <2>1, <3>1, <3>2
  <2>6. \A u \in Callers \ {t} : pwork[u] = AtRest
      BY <1>1 DEF PasskeyInv, LockInv, Job, AtRest
  <2>7. LockInv'
      BY <2>2, <2>4, <2>6 DEF LockInv, Job, AtRest
  <2>8. ArmedInv'
      BY <1>1, <2>2, <2>4, <2>6 DEF PasskeyInv, ArmedInv, Job, AtRest
  <2>9. OnePerWindow'
      BY <1>1 DEF PasskeyInv, WindowInv, OnePerWindow
  <2> HIDE DEF w
  <2>10. WindowInv'
    <3>1. \A i \in DOMAIN enrolled : /\ enrolled[i] \in 1 .. opened
                                      /\ enrolled[i] # window'.code
        BY <2>1, <2>5 DEF PasskeyInv, WindowInv
    <3>2. \A u \in Callers : u = t \/ pwork'[u].op \notin {"spend", "store"}
        BY <2>2, <2>6 DEF AtRest
    <3> QED  BY <1>1, <2>1, <2>4, <2>5, <2>9, <3>1, <3>2 DEF PasskeyInv, WindowInv, Job
  <2> QED  BY <1>2, <2>7, <2>8, <2>10 DEF PasskeyInv
<1> QED  BY <1>1, <1>3, <1>4

(* A credential stored uses the window's code up; a write that fails leaves   *)
(* the file as it was.                                                        *)
LEMMA StoreKeeps ==
    ASSUME PasskeyInv, NEW t \in Callers, Store(t)
    PROVE  PasskeyInv'
<1> DEFINE n == pwork[t].window.code
           counts == With(pwork[t].counts, pwork[t].key)
<1>1. /\ UNCHANGED <<pclock, issued, live, opened, window, accepted>>
      /\ Job(t) = "store" /\ pwork' = [pwork EXCEPT ![t] = AtRest]
      /\ \/ store' = Good(counts) /\ enrolled' = Append(enrolled, n)
         \/ UNCHANGED <<store, enrolled, armed>>
    BY DEF Store, people, challenges, Job
<1>2. counts # NoKeys
    BY DEF With, NoKeys
<1> HIDE DEF counts
<1>3. DOMAIN store' = {"state", "counts"} /\ (armed' => store'.counts # NoKeys)
    BY <1>1, <1>2 DEF PasskeyInv, ArmedInv, Good
<1>4. LockInv' /\ ArmedInv'
    BY <1>1, <1>3, EndsWork DEF PasskeyInv
<1>5. \A u \in Callers : pwork'[u] = pwork[u] \/ pwork'[u].op \notin {"spend", "store"}
    BY <1>1 DEF PasskeyInv, LockInv, AtRest
<1>6. ChallengesInv'
    BY <1>1, ChallengesKept DEF PasskeyInv
<1>7. CASE enrolled' = enrolled
    BY <1>1, <1>4, <1>5, <1>6, <1>7, WindowKept DEF PasskeyInv
<1>8. CASE enrolled' = Append(enrolled, n)
  <2>1. /\ n \in 1 .. opened /\ opened \in Nat /\ enrolled \in Seq(Nat)
        /\ \A i \in DOMAIN enrolled : enrolled[i] # n
        /\ window.code = n => window.spent
      BY <1>1 DEF PasskeyInv, WindowInv
  <2> HIDE DEF n
  <2>2. /\ enrolled' \in Seq(Nat) /\ enrolled'[Len(enrolled) + 1] = n
        /\ \A i \in DOMAIN enrolled : enrolled'[i] = enrolled[i]
        /\ \A i \in DOMAIN enrolled' : i \in DOMAIN enrolled \/ i = Len(enrolled) + 1
      BY <1>8, <2>1
  <2>3. \A i \in DOMAIN enrolled : enrolled[i] \in 1 .. opened /\ (enrolled[i] = window.code => window.spent)
      BY DEF PasskeyInv, WindowInv
  <2>4. \A i \in DOMAIN enrolled' : /\ enrolled'[i] \in 1 .. opened
                                    /\ enrolled'[i] = window.code => window.spent
      BY <2>1, <2>2, <2>3
  <2>5. \A i, j \in DOMAIN enrolled : enrolled[i] = enrolled[j] => i = j
      BY DEF PasskeyInv, WindowInv, OnePerWindow
  <2>6. OnePerWindow'
      BY <2>1, <2>2, <2>5 DEF OnePerWindow
  <2>7. \A u \in Callers : pwork'[u] = AtRest
      BY <1>1 DEF PasskeyInv, LockInv, Job, AtRest
  <2>8. WindowInv'
      BY <1>1, <2>1, <2>2, <2>4, <2>6, <2>7 DEF PasskeyInv, WindowInv, Job, AtRest
  <2> QED  BY <1>4, <1>6, <2>8 DEF PasskeyInv
<1> QED  BY <1>1, <1>7, <1>8

(* The person at the box changes the file's permissions, or removes it.       *)
LEMMA FileKeeps ==
    ASSUME PasskeyInv, Spoil \/ Repair \/ Remove
    PROVE  PasskeyInv'
<1>1. UNCHANGED <<pclock, issued, live, opened, window, pwork, accepted, enrolled>>
    BY DEF Spoil, Repair, Remove, people, challenges, history
<1>2. DOMAIN store' = {"state", "counts"} /\ (armed' => store'.counts # NoKeys)
  <2>1. CASE Spoil \/ Repair
    <3>1. store'.counts = store.counts /\ DOMAIN store' = DOMAIN store /\ armed' = armed
        BY <2>1 DEF PasskeyInv, ArmedInv, Spoil, Repair, history
    <3> QED  BY <3>1 DEF PasskeyInv, ArmedInv
  <2>2. CASE Remove
      BY <2>2 DEF Remove, Absent
  <2> QED  BY <2>1, <2>2
<1>3. LockInv' /\ ArmedInv'
    BY <1>1, <1>2 DEF PasskeyInv, LockInv, ArmedInv, Job
<1> QED  BY <1>1, <1>3, WindowKept, ChallengesKept DEF PasskeyInv

(* A restart forgets the challenges and what was under way; what was accepted *)
(* stays accepted.                                                            *)
LEMMA RestartEdgeKeeps ==
    ASSUME PasskeyInv, RestartEdge
    PROVE  PasskeyInv'
<1>1. /\ UNCHANGED <<pclock, issued, opened, store, window, accepted, armed, enrolled>>
      /\ live' = NoKeys /\ pwork' = [t \in Callers |-> AtRest]
    BY DEF RestartEdge, people, history
<1>2. PresentedOnce'
    BY <1>1 DEF PasskeyInv, ChallengesInv, PresentedOnce
<1>3. ChallengesInv'
    BY <1>1, <1>2 DEF PasskeyInv, ChallengesInv, NoKeys
<1>4. LockInv' /\ ArmedInv'
    BY <1>1 DEF PasskeyInv, LockInv, ArmedInv, Job, AtRest
<1>5. \A t \in Callers : pwork'[t].op \notin {"spend", "store"}
    BY <1>1 DEF AtRest
<1> QED  BY <1>1, <1>3, <1>4, <1>5, WindowKept DEF PasskeyInv

LEMMA PasskeyTickKeeps ==
    ASSUME PasskeyInv, PasskeyTick
    PROVE  PasskeyInv'
<1>1. /\ UNCHANGED <<issued, live, opened, store, window, pwork, accepted, armed, enrolled>>
      /\ pclock' = pclock + 1
    BY DEF PasskeyTick, people, challenges, history
<1>2. PresentedOnce'
    BY <1>1 DEF PasskeyInv, ChallengesInv, PresentedOnce
<1>3. ChallengesInv'
    BY <1>1, <1>2 DEF PasskeyInv, ChallengesInv
<1>4. LockInv' /\ ArmedInv'
    BY <1>1 DEF PasskeyInv, LockInv, ArmedInv, Job
<1> QED  BY <1>1, <1>3, <1>4, WindowKept DEF PasskeyInv

(* The inductive invariant is kept by every step.                             *)
LEMMA PasskeyStep == PasskeyInv /\ [PasskeyNext]_passkeyVars => PasskeyInv'
<1> SUFFICES ASSUME PasskeyInv, [PasskeyNext]_passkeyVars
             PROVE  PasskeyInv'
    OBVIOUS
<1>1. ASSUME UNCHANGED <<pclock, issued, live, opened, store, window, pwork, accepted, armed, enrolled>>
      PROVE  PasskeyInv'
  <2>1. LockInv' /\ ArmedInv'
      BY <1>1 DEF PasskeyInv, LockInv, ArmedInv, Job
  <2> QED  BY <1>1, <2>1, WindowKept, ChallengesKept DEF PasskeyInv
<1>2. CASE Person
  <2>1. ASSUME NEW k, NEW c, Touch(k, c)
        PROVE  PasskeyInv'
      BY <1>1, <2>1 DEF Touch, challenges, history
  <2> QED  BY <1>2, <2>1, ChallengeKeeps, OpenWindowKeeps, FileKeeps DEF Person
<1>3. CASE PasskeyEdge
  <2>1. CASE PassBare
      BY <1>1, <2>1 DEF PassBare, challenges, people
  <2> QED  BY <1>3, <2>1, GateKeeps, ConsumeKeeps, SaveCountKeeps, RegisterKeeps, SpendKeeps, StoreKeeps
           DEF PasskeyEdge
<1>4. CASE UNCHANGED passkeyVars
    BY <1>1, <1>4 DEF passkeyVars
<1> QED  BY <1>2, <1>3, <1>4, RestartEdgeKeeps, PasskeyTickKeeps DEF PasskeyNext

THEOREM PasskeyInvariant == PasskeySpec => []PasskeyInv
<1> QED  BY PasskeyStarts, PasskeyStep, PTL DEF PasskeySpec

(* No decision passes bare once a credential is stored: what lets one pass is *)
(* a file read and without a credential.                                      *)
LEMMA PassesClosed ==
    PasskeyInv /\ [PasskeyNext]_passkeyVars => [armed /\ armed' => bare' \in {bare, FALSE}]_passkeyVars
<1> SUFFICES ASSUME PasskeyInv, PasskeyNext, armed, armed'
             PROVE  bare' = bare \/ bare' = FALSE
    BY DEF passkeyVars
<1>1. ~PassBare
    BY DEF PasskeyInv, ArmedInv, PassBare
<1>2. CASE Person
    BY <1>2 DEF Person, Challenge, OpenWindow, Spoil, Repair, Remove, Touch, history
<1>3. CASE PasskeyEdge
    BY <1>1, <1>3 DEF PasskeyEdge, Gate, Consume, SaveCount, Spend, Store, Register, history
<1>4. CASE RestartEdge \/ PasskeyTick
    BY <1>4 DEF RestartEdge, PasskeyTick, history
<1> QED  BY <1>2, <1>3, <1>4 DEF PasskeyNext

(* A decision is confirmed by a person in person: each assertion is presented *)
(* once and in its challenge's lifetime, and no crash, failed save or spoiled *)
(* file lets a decision pass without one once a credential is stored.         *)
THEOREM DecidedInPerson == PasskeySpec => ConfirmedInPerson
<1>1. PasskeyInv => PresentedOnce
    BY DEF PasskeyInv, ChallengesInv
<1> QED  BY <1>1, PasskeyInvariant, PassesClosed, PTL DEF PasskeySpec, ConfirmedInPerson, FailsClosed

(* One enrollment window takes one registration, whoever opens another while  *)
(* it is under way, and whatever fails between its steps.                     *)
THEOREM OneRegistrationPerWindow == PasskeySpec => []OnePerWindow
<1>1. PasskeyInv => OnePerWindow
    BY DEF PasskeyInv, WindowInv
<1> QED  BY <1>1, PasskeyInvariant, PTL

-----------------------------------------------------------------------------
(* Proofs about the requests a source may make.  The window that a key has in *)
(* the table, none when it is not there, is the end of what was admitted of   *)
(* it; what it lacks has aged out, and no request in hand read an instant     *)
(* from before that by more than Stall.                                       *)
HitsIn(table, k) == IF k \in DOMAIN table THEN table[k] ELSE <<>>

EndOf(admitted, hits, span, most, by) ==
    /\ Len(hits) <= Len(admitted) /\ Len(hits) <= most
    /\ \A i \in 1 .. Len(hits) : hits[i] = admitted[(Len(admitted) - Len(hits)) + i]
    /\ \A i \in 1 .. (Len(admitted) - Len(hits)) : admitted[i] + span <= by

OnTime == \A th \in Threads : asks[th] # NoAsk => asks[th].now <= time /\ time <= asks[th].now + Stall
Remembered == \A k \in Keys : EndOf(counted[k], HitsIn(windows, k), WINDOW[k[1]], BUDGET[k[1]], time)
Past == \A k \in Keys : \A i \in DOMAIN counted[k] : counted[k][i] <= time
TableBounded == Cardinality(DOMAIN windows) <= MaxSources

LimitInv == LimitTypeOK /\ OnTime /\ Remembered /\ Past /\ TableBounded /\ BudgetKept

-----------------------------------------------------------------------------
(* A finite set has an element that no other exceeds: the longest prefix,     *)
(* and the last instant of a window that has aged out.                        *)
LEMMA HasGreatest ==
    ASSUME NEW S, IsFiniteSet(S), S # {}, NEW f \in [S -> Nat]
    PROVE  \E r \in S : \A q \in S : f[q] <= f[r]
<1> DEFINE Beyond(r) == {q \in S : f[q] > f[r]}
           T == {Beyond(r) : r \in S}
<1>1. IsWellFoundedOn(StrictSubsetOrdering(S), SUBSET S)
    BY FS_StrictSubsetOrderingWellFounded, FS_FiniteSubsetsOfFinite
<1>2. T \subseteq SUBSET S /\ T # {}
  <2>1. \A r \in S : Beyond(r) \in SUBSET S /\ Beyond(r) \in T
      OBVIOUS
  <2> HIDE DEF Beyond
  <2> QED  BY <2>1
<1>3. \E x \in T : \A y \in T : <<y, x>> \notin StrictSubsetOrdering(S)
  <2> HIDE DEF T
  <2> QED  BY <1>1, <1>2, WFMin
<1>4. PICK r \in S : \A q \in S : <<Beyond(q), Beyond(r)>> \notin StrictSubsetOrdering(S)
    BY <1>3
<1>5. \A q \in S : ~(f[q] > f[r])
  <2> SUFFICES ASSUME NEW q \in S, f[q] > f[r]
               PROVE  FALSE
      OBVIOUS
  <2>1. Beyond(q) \subseteq Beyond(r)
      OBVIOUS
  <2>2. q \in Beyond(r) /\ q \notin Beyond(q)
      OBVIOUS
  <2> QED  BY <1>4, <2>1, <2>2 DEF StrictSubsetOrdering
<1> QED  BY <1>5

(* expire drops from the front the instants that are a window old, and stops  *)
(* at the first that is not.                                                  *)
LEMMA ExpireDrops ==
    ASSUME NEW hits \in Seq(Nat), NEW span \in Nat \ {0}, NEW now \in Nat
    PROVE  \E n \in 0 .. Len(hits) :
              /\ Expire(hits, span, now) = SubSeq(hits, n + 1, Len(hits))
              /\ \A j \in 1 .. n : hits[j] + span <= now
              /\ n < Len(hits) => Age(now, hits[n + 1]) < span
<1> DEFINE Old(i) == \A j \in 1 .. i : Age(now, hits[j]) >= span
           aged == {i \in 1 .. Len(hits) : Old(i)}
<1>1. Expire(hits, span, now) = SubSeq(hits, Cardinality(aged) + 1, Len(hits))
    BY DEF Expire
<1>2. IsFiniteSet(aged) /\ aged \subseteq 1 .. Len(hits)
    BY FS_Interval, FS_Subset
<1>3. \E n \in 0 .. Len(hits) : aged = 1 .. n
  <2>1. CASE aged = {}
    <3>1. 1 .. 0 = {} /\ 0 \in 0 .. Len(hits)
        OBVIOUS
    <3> HIDE DEF aged
    <3> QED  BY <2>1, <3>1
  <2>2. CASE aged # {}
    <3> DEFINE id == [i \in aged |-> i]
    <3>1. id \in [aged -> Nat]
        BY <1>2
    <3>2. \E n \in aged : \A i \in aged : id[i] <= id[n]
      <4> HIDE DEF aged, id
      <4> QED  BY <1>2, <2>2, <3>1, HasGreatest
    <3>3. PICK n \in aged : \A i \in aged : i <= n
        BY <3>2
    <3>4. \A i \in 1 .. n : i \in aged
        BY <1>2
    <3> QED  BY <1>2, <3>3, <3>4
  <2> QED  BY <2>1, <2>2
<1>4. PICK n \in 0 .. Len(hits) : aged = 1 .. n
    BY <1>3
<1>5. Cardinality(aged) = n
  <2>1. Cardinality(1 .. n) = IF 1 > n THEN 0 ELSE n - 1 + 1
      BY FS_Interval
  <2> HIDE DEF aged
  <2> QED  BY <1>4, <2>1
<1>6. \A j \in 1 .. n : Age(now, hits[j]) >= span /\ hits[j] \in Nat
    BY <1>4
<1>7. \A j \in 1 .. n : hits[j] + span <= now
    BY <1>6 DEF Age
<1>8. n < Len(hits) => Age(now, hits[n + 1]) < span
  <2> SUFFICES ASSUME n < Len(hits), ~(Age(now, hits[n + 1]) < span)
               PROVE  FALSE
      OBVIOUS
  <2>1. Age(now, hits[n + 1]) >= span
      BY DEF Age
  <2>2. Old(n + 1)
      BY <1>6, <2>1
  <2>3. n + 1 \in aged
      BY <2>2
  <2> QED  BY <1>4, <2>3
<1> QED  BY <1>1, <1>5, <1>7, <1>8

-----------------------------------------------------------------------------
(* What was admitted of a key, and the end of it that its window holds: time  *)
(* passes, instants age out of the front, and a request is counted.           *)
LEMMA EndLater ==
    ASSUME NEW admitted \in Seq(Nat), NEW hits, NEW span \in Nat, NEW most, NEW by \in Nat,
           NEW later \in Nat, by <= later, EndOf(admitted, hits, span, most, by),
           Len(hits) \in Nat
    PROVE  EndOf(admitted, hits, span, most, later)
<1>1. \A i \in 1 .. (Len(admitted) - Len(hits)) : admitted[i] \in Nat
    BY DEF EndOf
<1> QED  BY <1>1 DEF EndOf

LEMMA EndShorter ==
    ASSUME NEW admitted \in Seq(Nat), NEW hits \in Seq(Nat), NEW span \in Nat, NEW most \in Nat,
           NEW by \in Nat, NEW now \in Nat, now <= by,
           EndOf(admitted, hits, span, most, by),
           NEW n \in 0 .. Len(hits), \A j \in 1 .. n : hits[j] + span <= now
    PROVE  /\ SubSeq(hits, n + 1, Len(hits)) \in Seq(Nat)
           /\ EndOf(admitted, SubSeq(hits, n + 1, Len(hits)), span, most, by)
<1> DEFINE rest == SubSeq(hits, n + 1, Len(hits))
<1>1. rest \in Seq(Nat) /\ Len(rest) = Len(hits) - n
      /\ \A i \in 1 .. Len(rest) : rest[i] = hits[n + i]
    OBVIOUS
<1> HIDE DEF rest
<1>2. Len(admitted) \in Nat /\ Len(hits) \in Nat /\ Len(hits) <= Len(admitted) /\ Len(hits) <= most
    BY DEF EndOf
<1>3. \A i \in 1 .. Len(rest) : rest[i] = admitted[(Len(admitted) - Len(rest)) + i]
  <2> SUFFICES ASSUME NEW i \in 1 .. Len(rest)
               PROVE  rest[i] = admitted[(Len(admitted) - Len(rest)) + i]
      OBVIOUS
  <2>1. hits[n + i] = admitted[(Len(admitted) - Len(hits)) + (n + i)]
      BY <1>1, <1>2 DEF EndOf
  <2>2. (Len(admitted) - Len(hits)) + (n + i) = (Len(admitted) - Len(rest)) + i
      BY <1>1, <1>2
  <2> QED  BY <1>1, <2>1, <2>2
<1>4. \A i \in 1 .. (Len(admitted) - Len(rest)) : admitted[i] + span <= by
  <2> SUFFICES ASSUME NEW i \in 1 .. (Len(admitted) - Len(rest))
               PROVE  admitted[i] + span <= by
      OBVIOUS
  <2>1. CASE i <= Len(admitted) - Len(hits)
      BY <1>2, <2>1 DEF EndOf
  <2>2. CASE i > Len(admitted) - Len(hits)
    <3> DEFINE j == i - (Len(admitted) - Len(hits))
    <3>1. i \in Nat /\ n \in Nat /\ n <= Len(hits) /\ i <= (Len(admitted) - Len(hits)) + n
        BY <1>1, <1>2
    <3>2. j \in 1 .. n /\ j \in 1 .. Len(hits) /\ (Len(admitted) - Len(hits)) + j = i
        BY <1>2, <2>2, <3>1, SMTT(30)
    <3> HIDE DEF j
    <3>3. hits[j] = admitted[i]
        BY <3>2 DEF EndOf
    <3>4. hits[j] + span <= now /\ hits[j] \in Nat
        BY <3>2, SMTT(90)
    <3> QED  BY <3>3, <3>4
  <2> QED  BY <1>1, <1>2, <2>1, <2>2
<1>5. Len(rest) <= Len(admitted) /\ Len(rest) <= most
    BY <1>1, <1>2
<1> QED  BY <1>1, <1>3, <1>4, <1>5 DEF EndOf, rest

LEMMA EndLonger ==
    ASSUME NEW admitted \in Seq(Nat), NEW hits \in Seq(Nat), NEW span \in Nat, NEW most \in Nat,
           NEW by \in Nat, NEW now \in Nat, Len(hits) < most,
           EndOf(admitted, hits, span, most, by)
    PROVE  EndOf(Append(admitted, now), Append(hits, now), span, most, by)
<1> DEFINE all == Append(admitted, now)
           grown == Append(hits, now)
<1>1. /\ Len(all) = Len(admitted) + 1 /\ all[Len(admitted) + 1] = now
      /\ \A i \in 1 .. Len(admitted) : all[i] = admitted[i]
    OBVIOUS
<1>2. /\ Len(grown) = Len(hits) + 1 /\ grown[Len(hits) + 1] = now
      /\ \A i \in 1 .. Len(hits) : grown[i] = hits[i]
    OBVIOUS
<1> HIDE DEF all, grown
<1>3. Len(admitted) \in Nat /\ Len(hits) \in Nat /\ Len(hits) <= Len(admitted)
    BY DEF EndOf
<1>4. \A i \in 1 .. Len(grown) : grown[i] = all[(Len(all) - Len(grown)) + i]
  <2> SUFFICES ASSUME NEW i \in 1 .. Len(grown)
               PROVE  grown[i] = all[(Len(all) - Len(grown)) + i]
      OBVIOUS
  <2>1. (Len(all) - Len(grown)) + i = (Len(admitted) - Len(hits)) + i
      BY <1>1, <1>2, <1>3
  <2>2. CASE i = Len(hits) + 1
      BY <1>1, <1>2, <1>3, <2>1, <2>2
  <2>3. CASE i \in 1 .. Len(hits)
    <3>1. (Len(admitted) - Len(hits)) + i \in 1 .. Len(admitted)
        BY <1>3, <2>3
    <3>2. hits[i] = admitted[(Len(admitted) - Len(hits)) + i]
        BY <2>3 DEF EndOf
    <3> QED  BY <1>1, <1>2, <2>1, <2>3, <3>1, <3>2
  <2> QED  BY <1>2, <1>3, <2>2, <2>3
<1>5. \A i \in 1 .. (Len(all) - Len(grown)) : all[i] + span <= by
  <2>1. Len(all) - Len(grown) = Len(admitted) - Len(hits)
      BY <1>1, <1>2, <1>3
  <2>2. \A i \in 1 .. (Len(admitted) - Len(hits)) : i \in 1 .. Len(admitted)
      BY <1>3
  <2> QED  BY <1>1, <2>1, <2>2 DEF EndOf
<1>6. Len(grown) <= Len(all) /\ Len(grown) <= most
    BY <1>1, <1>2, <1>3
<1> QED  BY <1>4, <1>5, <1>6 DEF EndOf, all, grown

(* A request that is counted keeps the budget: of the stretches it falls in,  *)
(* none reaches back to an instant that its window has dropped.               *)
LEMMA CountedKeepsBudget ==
    ASSUME NEW admitted \in Seq(Nat), NEW hits \in Seq(Nat), NEW span \in Nat, NEW most \in Nat,
           NEW by \in Nat, NEW now \in Nat, now <= by, by <= now + Stall, Stall \in Nat,
           Len(hits) < most, EndOf(admitted, hits, span, most, by),
           \A i \in DOMAIN admitted : Cardinality(Within(admitted, i, span)) <= most
    PROVE  \A i \in DOMAIN Append(admitted, now) :
              Cardinality(Within(Append(admitted, now), i, span)) <= most
<1> DEFINE all == Append(admitted, now)
           n == Len(admitted) + 1
           d == Len(admitted) - Len(hits)
<1>1. /\ DOMAIN all = 1 .. n /\ all[n] = now /\ \A j \in 1 .. n : all[j] \in Nat
      /\ \A j \in 1 .. Len(admitted) : all[j] = admitted[j]
      /\ DOMAIN admitted = 1 .. Len(admitted) /\ Len(admitted) \in Nat /\ Len(hits) \in Nat
    BY SMTT(30)
<1>2. Len(hits) <= Len(admitted) /\ \A j \in 1 .. d : admitted[j] + span <= by
    BY DEF EndOf
<1> HIDE DEF all
<1> SUFFICES ASSUME NEW i \in 1 .. n
             PROVE  Cardinality(Within(all, i, span)) <= most
    BY <1>1 DEF all
<1>3. CASE n \notin Within(all, i, span) /\ i # n
  <2>1. i \in 1 .. Len(admitted) /\ all[i] = admitted[i]
      BY <1>1, <1>3, SMTT(30)
  <2>2. \A j \in Within(all, i, span) : j \in 1 .. Len(admitted)
      BY <1>1, <1>3 DEF Within
  <2>3. \A j \in 1 .. Len(admitted) : j \in 1 .. n
      BY <1>1
  <2>4. \A j \in 1 .. Len(admitted) :
           j \in Within(all, i, span) <=> j \in Within(admitted, i, span)
      BY <1>1, <2>1, <2>3 DEF Within
  <2>5. \A j \in Within(admitted, i, span) : j \in 1 .. Len(admitted)
      BY <1>1 DEF Within
  <2>6. Within(all, i, span) = Within(admitted, i, span)
      BY <2>2, <2>4, <2>5
  <2> QED  BY <1>1, <2>1, <2>6
<1>4. CASE n \in Within(all, i, span) \/ i = n
  <2>1. \A j \in 1 .. d : j \notin Within(all, i, span)
    <3> SUFFICES ASSUME NEW j \in 1 .. d, j \in Within(all, i, span)
                 PROVE  FALSE
        OBVIOUS
    <3>1. all[j] + span <= now + Stall /\ all[j] \in Nat
        BY <1>1, <1>2, SMTT(30)
    <3>2. all[j] >= all[i] /\ all[j] + Stall < all[i] + span /\ all[i] \in Nat
        BY <1>1 DEF Within
    <3>3. CASE n \in Within(all, i, span)
      <4>1. now + Stall < all[i] + span
          BY <1>1, <3>3 DEF Within
      <4> QED  BY <3>1, <3>2, <4>1, SMTT(30)
    <3>4. CASE i = n
      <4>1. all[i] = now
          BY <1>1, <3>4
      <4> QED  BY <3>1, <3>2, <4>1, SMTT(30)
    <3> QED  BY <1>4, <3>3, <3>4
  <2>2. Within(all, i, span) \subseteq (d + 1) .. n
    <3> SUFFICES ASSUME NEW j \in Within(all, i, span)
                 PROVE  j \in (d + 1) .. n
        OBVIOUS
    <3>1. j \in 1 .. n
        BY <1>1 DEF Within
    <3> QED  BY <1>1, <1>2, <2>1, <3>1
  <2>3. IsFiniteSet((d + 1) .. n) /\ Cardinality((d + 1) .. n) = Len(hits) + 1
    <3>1. d + 1 \in Int /\ n \in Int /\ ~(d + 1 > n) /\ n - (d + 1) + 1 = Len(hits) + 1
        BY <1>1, <1>2
    <3> HIDE DEF d, n
    <3> QED  BY <3>1, FS_Interval
  <2>4. Cardinality(Within(all, i, span)) <= Len(hits) + 1
      BY <2>2, <2>3, FS_Subset
  <2>5. Cardinality(Within(all, i, span)) \in Nat
      BY <2>2, <2>3, FS_Subset, FS_CardinalityType
  <2> QED  BY <1>1, <2>4, <2>5
<1> QED  BY <1>3, <1>4

-----------------------------------------------------------------------------
(* The rule that governs a target is one of the rules, and its prefix is the  *)
(* longest of those that do.                                                  *)
LEMMA GoverningIsLongest ==
    ASSUME NEW target, Candidates(target) # {}
    PROVE  /\ Governing(target) \in Candidates(target)
           /\ \A q \in Candidates(target) : Prefix[q] <= Prefix[Governing(target)]
<1> DEFINE S == Candidates(target)
           f == [r \in S |-> Prefix[r]]
<1>1. IsFiniteSet(S) /\ f \in [S -> Nat]
    BY SourceLimitAssumption, FS_Subset DEF Candidates
<1>2. \E r \in S : \A q \in S : f[q] <= f[r]
  <2> HIDE DEF S, f
  <2> QED  BY <1>1, HasGreatest DEF S
<1>3. \E r \in Candidates(target) : \A q \in Candidates(target) : Prefix[q] <= Prefix[r]
    BY <1>2
<1> HIDE DEF S, f
<1> QED  BY <1>3 DEF Governing

(* A table as the limiter keeps it: within its bound, and of windows that     *)
(* hold an instant.                                                           *)
TableOK(table) ==
    /\ DOMAIN table \subseteq Keys /\ IsFiniteSet(DOMAIN table)
    /\ \A k \in DOMAIN table : table[k] \in Seq(Nat) \ {<<>>}
    /\ Cardinality(DOMAIN table) <= MaxSources

EndsIn(table, by) == \A k \in Keys : EndOf(counted[k], HitsIn(table, k), WINDOW[k[1]], BUDGET[k[1]], by)

LEMMA RulesTyped ==
    ASSUME NEW k \in Keys
    PROVE  k[1] \in Rules /\ WINDOW[k[1]] \in Nat \ {0} /\ BUDGET[k[1]] \in Nat \ {0}
BY SourceLimitAssumption DEF Keys

LEMMA HitsTyped ==
    ASSUME NEW table, TableOK(table), NEW k
    PROVE  HitsIn(table, k) \in Seq(Nat)
BY DEF TableOK, HitsIn

(* One key's window, expired, is still the end of what was admitted of it.    *)
LEMMA ExpiredIsEnd ==
    ASSUME LimitTypeOK, NEW table, TableOK(table), NEW k \in Keys, NEW now \in Nat, now <= time,
           EndOf(counted[k], HitsIn(table, k), WINDOW[k[1]], BUDGET[k[1]], time)
    PROVE  /\ Expire(HitsIn(table, k), WINDOW[k[1]], now) \in Seq(Nat)
           /\ EndOf(counted[k], Expire(HitsIn(table, k), WINDOW[k[1]], now), WINDOW[k[1]], BUDGET[k[1]], time)
<1> DEFINE c == counted[k]
           h == HitsIn(table, k)
           w == WINDOW[k[1]]
           m == BUDGET[k[1]]
<1>1. c \in Seq(Nat) /\ time \in Nat
    BY DEF LimitTypeOK
<1>2. h \in Seq(Nat) /\ w \in Nat \ {0} /\ m \in Nat /\ EndOf(c, h, w, m, time)
    BY HitsTyped, RulesTyped
<1> HIDE DEF c, h, w, m
<1>3. PICK n \in 0 .. Len(h) : /\ Expire(h, w, now) = SubSeq(h, n + 1, Len(h))
                               /\ \A j \in 1 .. n : h[j] + w <= now
    BY <1>2, ExpireDrops
<1>4. w \in Nat
    BY <1>2
<1>5. Expire(h, w, now) \in Seq(Nat) /\ EndOf(c, Expire(h, w, now), w, m, time)
    BY <1>1, <1>2, <1>3, <1>4, EndShorter, SMTT(30)
<1> QED  BY <1>5 DEF c, h, w, m

LEMMA TableAges ==
    ASSUME LimitInv, NEW key \in Keys, NEW now \in Nat, now <= time
    PROVE  TableOK(Table(key, now)) /\ EndsIn(Table(key, now), time)
<1>1. TableOK(windows) /\ EndsIn(windows, time)
    BY DEF LimitInv, LimitTypeOK, Remembered, TableBounded, TableOK, EndsIn
<1>2. CASE Table(key, now) = windows
    BY <1>1, <1>2
<1>3. CASE Table(key, now) = Reclaim(windows, now)
  <2> DEFINE left(k) == Expire(windows[k], WINDOW[k[1]], now)
             table == Reclaim(windows, now)
  <2>1. \A k \in DOMAIN windows : /\ k \in Keys /\ HitsIn(windows, k) = windows[k]
                                  /\ left(k) \in Seq(Nat)
                                  /\ EndOf(counted[k], left(k), WINDOW[k[1]], BUDGET[k[1]], time)
    <3> SUFFICES ASSUME NEW k \in DOMAIN windows
                 PROVE  /\ k \in Keys /\ HitsIn(windows, k) = windows[k]
                        /\ left(k) \in Seq(Nat)
                        /\ EndOf(counted[k], left(k), WINDOW[k[1]], BUDGET[k[1]], time)
        OBVIOUS
    <3>1. k \in Keys /\ HitsIn(windows, k) = windows[k]
        BY <1>1 DEF TableOK, HitsIn
    <3>2. EndOf(counted[k], HitsIn(windows, k), WINDOW[k[1]], BUDGET[k[1]], time)
        BY <1>1, <3>1 DEF EndsIn
    <3>3. LimitTypeOK
        BY DEF LimitInv
    <3> QED  BY <1>1, <3>1, <3>2, <3>3, ExpiredIsEnd
  <2>2. /\ DOMAIN table = {k \in DOMAIN windows : left(k) # <<>>}
        /\ \A k \in DOMAIN table : table[k] = left(k)
      BY DEF Reclaim
  <2>3. IsFiniteSet(DOMAIN table) /\ Cardinality(DOMAIN table) <= Cardinality(DOMAIN windows)
        /\ Cardinality(DOMAIN table) \in Nat /\ Cardinality(DOMAIN windows) \in Nat
    <3>1. DOMAIN table \in SUBSET DOMAIN windows /\ IsFiniteSet(DOMAIN windows)
        BY <1>1, <2>2 DEF TableOK
    <3> HIDE DEF table
    <3> QED  BY <3>1, FS_Subset, FS_CardinalityType
  <2> HIDE DEF table, left
  <2>4. TableOK(table)
      BY <1>1, <2>1, <2>2, <2>3, SourceLimitAssumption DEF TableOK
  <2>5. EndsIn(table, time)
    <3> SUFFICES ASSUME NEW k \in Keys
                 PROVE  EndOf(counted[k], HitsIn(table, k), WINDOW[k[1]], BUDGET[k[1]], time)
        BY DEF EndsIn
    <3>1. CASE k \in DOMAIN table
        BY <2>1, <2>2, <3>1 DEF HitsIn
    <3>2. CASE k \in DOMAIN windows /\ k \notin DOMAIN table
        BY <2>1, <2>2, <3>2 DEF HitsIn
    <3>3. CASE k \notin DOMAIN windows
      <4>1. HitsIn(table, k) = HitsIn(windows, k)
          BY <2>2, <3>3 DEF HitsIn
      <4> QED  BY <1>1, <4>1 DEF EndsIn
    <3> QED  BY <3>1, <3>2, <3>3
  <2> QED  BY <1>3, <2>4, <2>5 DEF table
<1> QED  BY <1>2, <1>3 DEF Table

(* A window put in a table that has room for it, or in the place of one.      *)
LEMMA SetKeepsTable ==
    ASSUME NEW table, TableOK(table), NEW key \in Keys, NEW hits \in Seq(Nat) \ {<<>>},
           ~(key \notin DOMAIN table /\ NoRoom(table))
    PROVE  /\ TableOK(Set(table, key, hits))
           /\ HitsIn(Set(table, key, hits), key) = hits
           /\ \A k : k # key => HitsIn(Set(table, key, hits), k) = HitsIn(table, k)
<1> DEFINE new == Set(table, key, hits)
<1>1. /\ DOMAIN new = DOMAIN table \union {key}
      /\ \A k \in DOMAIN new : new[k] = IF k = key THEN hits ELSE table[k]
    BY DEF Set
<1> HIDE DEF new
<1>2. /\ IsFiniteSet(DOMAIN new) /\ Cardinality(DOMAIN table) \in Nat
      /\ Cardinality(DOMAIN new) = IF key \in DOMAIN table THEN Cardinality(DOMAIN table)
                                                           ELSE Cardinality(DOMAIN table) + 1
    BY <1>1, FS_AddElement, FS_CardinalityType DEF TableOK
<1>3. key \in DOMAIN table \/ Cardinality(DOMAIN table) < MaxSources
    BY <1>2, SourceLimitAssumption DEF NoRoom
<1>4. Cardinality(DOMAIN new) <= MaxSources
    BY <1>2, <1>3, SourceLimitAssumption DEF TableOK
<1>5. TableOK(new)
    BY <1>1, <1>2, <1>4 DEF TableOK
<1>6. HitsIn(new, key) = hits /\ \A k : k # key => HitsIn(new, k) = HitsIn(table, k)
    BY <1>1 DEF HitsIn
<1> QED  BY <1>5, <1>6 DEF new

-----------------------------------------------------------------------------
(* The steps: the invariant holds at first, while time passes, when a request *)
(* reads the clock, and when it is decided.                                   *)
LEMMA LimitStarts == LimitInit => LimitInv
<1> SUFFICES ASSUME LimitInit
             PROVE  LimitInv
    OBVIOUS
<1>1. DOMAIN windows = {} /\ IsFiniteSet({}) /\ Cardinality({}) = 0
    BY FS_EmptySet DEF LimitInit
<1>2. \A k \in Keys : counted[k] = <<>> /\ HitsIn(windows, k) = <<>>
    BY <1>1 DEF LimitInit, HitsIn
<1>3. LimitTypeOK
  <2>1. NoAsk \in [target : SUBSET Targets, source : SUBSET Sources, now : Nat]
      BY DEF NoAsk
  <2> QED  BY <1>1, <2>1 DEF LimitInit, LimitTypeOK
<1>4. OnTime
    BY DEF LimitInit, OnTime
<1>5. Remembered
  <2>1. \A k \in Keys : BUDGET[k[1]] \in Nat \ {0}
      BY RulesTyped
  <2> QED  BY <1>2, <2>1 DEF Remembered, EndOf
<1>6. TableBounded
    BY <1>1, SourceLimitAssumption DEF TableBounded
<1>7. BudgetKept /\ Past
    BY <1>2 DEF BudgetKept, Past
<1> QED  BY <1>3, <1>4, <1>5, <1>6, <1>7 DEF LimitInv

LEMMA TimeKeeps == LimitInv /\ TimePasses => LimitInv'
<1> SUFFICES ASSUME LimitInv, TimePasses
             PROVE  LimitInv'
    OBVIOUS
<1>1. /\ time \in Nat /\ time' = time + 1
      /\ asks' = asks /\ windows' = windows /\ counted' = counted
    BY DEF LimitInv, LimitTypeOK, TimePasses
<1>2. LimitTypeOK'
    BY <1>1 DEF LimitInv, LimitTypeOK
<1>3. OnTime'
  <2> SUFFICES ASSUME NEW th \in Threads, asks[th] # NoAsk
               PROVE  asks[th].now <= time + 1 /\ time + 1 <= asks[th].now + Stall
      BY <1>1 DEF OnTime
  <2>1. asks[th].now \in Nat /\ asks[th].now <= time
      BY DEF LimitInv, LimitTypeOK, OnTime
  <2>2. time < asks[th].now + Stall
      BY DEF TimePasses
  <2> QED  BY <1>1, <2>1, <2>2, SourceLimitAssumption
<1>4. Remembered'
  <2> SUFFICES ASSUME NEW k \in Keys
               PROVE  EndOf(counted[k], HitsIn(windows, k), WINDOW[k[1]], BUDGET[k[1]], time + 1)
      BY <1>1 DEF Remembered, HitsIn
  <2>1. TableOK(windows)
      BY DEF LimitInv, LimitTypeOK, TableBounded, TableOK
  <2>2. HitsIn(windows, k) \in Seq(Nat) /\ WINDOW[k[1]] \in Nat /\ counted[k] \in Seq(Nat)
      BY <2>1, HitsTyped, RulesTyped DEF LimitInv, LimitTypeOK
  <2>3. EndOf(counted[k], HitsIn(windows, k), WINDOW[k[1]], BUDGET[k[1]], time)
      BY DEF LimitInv, Remembered
  <2>4. Len(HitsIn(windows, k)) \in Nat /\ time + 1 \in Nat /\ time <= time + 1
      BY <1>1, <2>2
  <2> QED  BY <1>1, <2>2, <2>3, <2>4, EndLater
<1>5. TableBounded' /\ BudgetKept'
    BY <1>1 DEF LimitInv, TableBounded, BudgetKept
<1>6. Past'
  <2> SUFFICES ASSUME NEW k \in Keys, NEW i \in DOMAIN counted[k]
               PROVE  counted[k][i] <= time + 1
      BY <1>1 DEF Past
  <2>1. counted[k][i] \in Nat /\ counted[k][i] <= time
      BY DEF LimitInv, LimitTypeOK, Past
  <2> QED  BY <1>1, <2>1
<1> QED  BY <1>2, <1>3, <1>4, <1>5, <1>6 DEF LimitInv

LEMMA CheckKeeps ==
    ASSUME LimitInv, NEW th \in Threads, NEW target \in Targets, NEW source \in Sources,
           Check(th, target, source)
    PROVE  LimitInv'
<1>1. /\ time' = time /\ windows' = windows /\ counted' = counted
      /\ asks' = [asks EXCEPT ![th] = [target |-> {target}, source |-> {source}, now |-> time]]
    BY DEF Check
<1>2. LimitTypeOK'
    BY <1>1 DEF LimitInv, LimitTypeOK
<1>3. OnTime'
  <2> SUFFICES ASSUME NEW u \in Threads, asks'[u] # NoAsk
               PROVE  asks'[u].now <= time /\ time <= asks'[u].now + Stall
      BY <1>1 DEF OnTime
  <2>1. time \in Nat /\ time <= time + Stall
      BY SourceLimitAssumption DEF LimitInv, LimitTypeOK
  <2>2. asks'[u] = IF u = th THEN [target |-> {target}, source |-> {source}, now |-> time] ELSE asks[u]
      BY <1>1 DEF LimitInv, LimitTypeOK
  <2> QED  BY <2>1, <2>2 DEF LimitInv, OnTime
<1>4. Remembered' /\ Past' /\ TableBounded' /\ BudgetKept'
    BY <1>1 DEF LimitInv, Remembered, Past, TableBounded, BudgetKept, HitsIn
<1> QED  BY <1>2, <1>3, <1>4 DEF LimitInv

(* An answer takes the request away, and no other's.                          *)
LEMMA AnswerKeeps ==
    ASSUME LimitInv, NEW th \in Threads, NEW kind, NEW key, NEW retry, Answer(th, kind, key, retry)
    PROVE  /\ time' = time /\ OnTime'
           /\ asks' \in [Threads -> [target : SUBSET Targets, source : SUBSET Sources, now : Nat]]
<1>1. time' = time /\ asks' = [asks EXCEPT ![th] = NoAsk]
    BY DEF Answer
<1>2. NoAsk \in [target : SUBSET Targets, source : SUBSET Sources, now : Nat]
    BY DEF NoAsk
<1>3. \A u \in Threads : asks'[u] = IF u = th THEN NoAsk ELSE asks[u]
    BY <1>1 DEF LimitInv, LimitTypeOK
<1>4. OnTime'
    BY <1>1, <1>3 DEF LimitInv, OnTime
<1> QED  BY <1>1, <1>2, <1>4 DEF LimitInv, LimitTypeOK

LEMMA UngovernedKeeps ==
    ASSUME LimitInv, NEW th \in Threads, Ungoverned(th)
    PROVE  LimitInv'
<1>1. Answer(th, "open", <<>>, 0) /\ windows' = windows /\ counted' = counted
    BY DEF Ungoverned
<1>2. /\ time' = time /\ OnTime'
      /\ asks' \in [Threads -> [target : SUBSET Targets, source : SUBSET Sources, now : Nat]]
    BY <1>1, AnswerKeeps
<1>3. LimitTypeOK' /\ Remembered' /\ Past' /\ TableBounded' /\ BudgetKept'
    BY <1>1, <1>2 DEF LimitInv, LimitTypeOK, Remembered, Past, TableBounded, BudgetKept, HitsIn
<1> QED  BY <1>2, <1>3 DEF LimitInv

(* The invariant, of a step that answers a request and leaves a table that is *)
(* as the limiter keeps it.                                                   *)
LEMMA DecidedKeeps ==
    ASSUME LimitInv, NEW th \in Threads, NEW kind, NEW key, NEW retry, Answer(th, kind, key, retry),
           TableOK(windows'), counted' \in [Keys -> Seq(Nat)],
           EndsIn(windows, time)', Past', BudgetKept'
    PROVE  LimitInv'
<1>1. /\ time' = time /\ OnTime'
      /\ asks' \in [Threads -> [target : SUBSET Targets, source : SUBSET Sources, now : Nat]]
    BY AnswerKeeps
<1>2. LimitTypeOK' /\ TableBounded'
    BY <1>1 DEF LimitInv, LimitTypeOK, TableOK, TableBounded
<1>3. Remembered'
    BY DEF EndsIn, Remembered
<1> QED  BY <1>1, <1>2, <1>3 DEF LimitInv

LEMMA DecideKeeps ==
    ASSUME LimitInv, NEW th \in Threads, NEW key \in Keys, NEW now \in Nat,
           now <= time, time <= now + Stall, Decide(th, key, now)
    PROVE  LimitInv'
<1> DEFINE w == WINDOW[key[1]]
           m == BUDGET[key[1]]
           table == Table(key, now)
           hits == IF key \in DOMAIN table THEN Expire(table[key], w, now) ELSE <<>>
           full == key \notin DOMAIN table /\ NoRoom(table)
<1>1. /\ time \in Nat /\ LimitTypeOK /\ w \in Nat \ {0} /\ m \in Nat \ {0}
      /\ counted \in [Keys -> Seq(Nat)] /\ counted[key] \in Seq(Nat)
    BY RulesTyped DEF LimitInv, LimitTypeOK
<1>2. TableOK(table) /\ EndsIn(table, time)
    BY TableAges
<1>3. hits \in Seq(Nat) /\ EndOf(counted[key], hits, w, m, time)
  <2>1. EndOf(counted[key], HitsIn(table, key), w, m, time)
      BY <1>2 DEF EndsIn
  <2>2. CASE key \in DOMAIN table
    <3>1. hits = Expire(HitsIn(table, key), w, now)
        BY <2>2 DEF HitsIn
    <3> HIDE DEF table, hits
    <3> QED  BY <1>1, <1>2, <2>1, <3>1, ExpiredIsEnd
  <2>3. CASE key \notin DOMAIN table
    <3>1. hits = <<>> /\ HitsIn(table, key) = <<>>
        BY <2>3 DEF HitsIn
    <3> HIDE DEF table, hits
    <3> QED  BY <2>1, <3>1
  <2> QED  BY <2>2, <2>3
<1>4. \/ /\ full /\ windows' = table /\ counted' = counted
         /\ Answer(th, "full", key, RetryAfter(w))
      \/ /\ ~full /\ Len(hits) >= m /\ windows' = Set(table, key, hits) /\ counted' = counted
         /\ Answer(th, "over", key, RetryAfter(Waits(hits, w, now)))
      \/ /\ ~full /\ Len(hits) < m /\ windows' = Set(table, key, Append(hits, now))
         /\ counted' = [counted EXCEPT ![key] = Append(@, now)]
         /\ Answer(th, "admitted", key, 0)
    BY DEF Decide
<1>5. \A kind, retry : Answer(th, kind, key, retry) => time' = time
    BY DEF Answer
<1>6. BudgetKept /\ Past
    BY DEF LimitInv
<1> HIDE DEF w, m, table, hits
<1>7. CASE full /\ windows' = table /\ counted' = counted /\ Answer(th, "full", key, RetryAfter(w))
  <2>1. TableOK(windows') /\ EndsIn(windows, time)' /\ Past' /\ BudgetKept'
      BY <1>2, <1>5, <1>6, <1>7 DEF EndsIn, Past, BudgetKept
  <2> QED  BY <1>1, <1>7, <2>1, DecidedKeeps
<1>8. CASE /\ ~full /\ Len(hits) >= m /\ windows' = Set(table, key, hits) /\ counted' = counted
           /\ Answer(th, "over", key, RetryAfter(Waits(hits, w, now)))
  <2>1. hits \in Seq(Nat) \ {<<>>}
      BY <1>1, <1>3, <1>8
  <2>2. /\ TableOK(windows') /\ HitsIn(windows', key) = hits
        /\ \A k : k # key => HitsIn(windows', k) = HitsIn(table, k)
      BY <1>2, <1>8, <2>1, SetKeepsTable
  <2>3. EndsIn(windows, time)'
    <3> SUFFICES ASSUME NEW k \in Keys
                 PROVE  EndOf(counted[k], HitsIn(windows', k), WINDOW[k[1]], BUDGET[k[1]], time)
        BY <1>5, <1>8 DEF EndsIn
    <3>1. CASE k = key
        BY <1>3, <2>2, <3>1 DEF w, m
    <3>2. CASE k # key
        BY <1>2, <2>2, <3>2 DEF EndsIn
    <3> QED  BY <3>1, <3>2
  <2>4. Past' /\ BudgetKept'
      BY <1>5, <1>6, <1>8 DEF Past, BudgetKept
  <2> QED  BY <1>1, <1>8, <2>2, <2>3, <2>4, DecidedKeeps
<1>9. CASE /\ ~full /\ Len(hits) < m /\ windows' = Set(table, key, Append(hits, now))
           /\ counted' = [counted EXCEPT ![key] = Append(@, now)]
           /\ Answer(th, "admitted", key, 0)
  <2> DEFINE more == Append(hits, now)
  <2>1. more \in Seq(Nat) \ {<<>>} /\ windows' = Set(table, key, more)
      BY <1>3, <1>9
  <2>2. /\ TableOK(windows') /\ HitsIn(windows', key) = more
        /\ \A k : k # key => HitsIn(windows', k) = HitsIn(table, k)
    <3> HIDE DEF more
    <3> QED  BY <1>2, <1>9, <2>1, SetKeepsTable
  <2>3. /\ counted' \in [Keys -> Seq(Nat)] /\ counted'[key] = Append(counted[key], now)
        /\ \A k \in Keys : k # key => counted'[k] = counted[k]
    <3>1. Append(counted[key], now) \in Seq(Nat)
        BY <1>1
    <3> QED  BY <1>1, <1>9, <3>1
  <2>4. w \in Nat /\ m \in Nat
      BY <1>1
  <2>5. EndsIn(windows, time)'
    <3> SUFFICES ASSUME NEW k \in Keys
                 PROVE  EndOf(counted'[k], HitsIn(windows', k), WINDOW[k[1]], BUDGET[k[1]], time)
        BY <1>5, <1>9 DEF EndsIn
    <3>1. CASE k = key
      <4>1. EndOf(Append(counted[key], now), Append(hits, now), w, m, time)
          BY <1>1, <1>3, <1>9, <2>4, EndLonger
      <4> QED  BY <2>2, <2>3, <3>1, <4>1 DEF w, m
    <3>2. CASE k # key
        BY <1>2, <2>2, <2>3, <3>2 DEF EndsIn
    <3> QED  BY <3>1, <3>2
  <2>6. BudgetKept'
    <3> SUFFICES ASSUME NEW k \in Keys, NEW i \in DOMAIN counted'[k]
                 PROVE  Cardinality(Within(counted'[k], i, WINDOW[k[1]])) <= BUDGET[k[1]]
        BY DEF BudgetKept
    <3>1. CASE k = key
      <4>1. \A j \in DOMAIN counted[key] : Cardinality(Within(counted[key], j, w)) <= m
          BY <1>6 DEF BudgetKept, w, m
      <4>2. \A j \in DOMAIN Append(counted[key], now) :
               Cardinality(Within(Append(counted[key], now), j, w)) <= m
          BY <1>1, <1>3, <1>9, <2>4, <4>1, SourceLimitAssumption, CountedKeepsBudget
      <4> QED  BY <2>3, <3>1, <4>2 DEF w, m
    <3>2. CASE k # key
        BY <1>6, <2>3, <3>2 DEF BudgetKept
    <3> QED  BY <3>1, <3>2
  <2>7. Past'
    <3> SUFFICES ASSUME NEW k \in Keys, NEW i \in DOMAIN counted'[k]
                 PROVE  counted'[k][i] <= time
        BY <1>5, <1>9 DEF Past
    <3>1. CASE k = key
      <4> DEFINE c == counted[key]
      <4>0. c \in Seq(Nat) /\ counted'[k] = Append(c, now) /\ i \in DOMAIN Append(c, now)
          BY <1>1, <2>3, <3>1
      <4>1. counted'[k][i] = now \/ (i \in DOMAIN counted[k] /\ counted'[k][i] = counted[k][i])
        <5> HIDE DEF c
        <5>1. Append(c, now)[i] = now \/ (i \in DOMAIN c /\ Append(c, now)[i] = c[i])
            BY <4>0
        <5> QED  BY <3>1, <4>0, <5>1 DEF c
      <4> QED  BY <1>6, <4>1 DEF Past
    <3>2. CASE k # key
        BY <1>6, <2>3, <3>2 DEF Past
    <3> QED  BY <3>1, <3>2
  <2> QED  BY <1>1, <1>9, <2>2, <2>3, <2>5, <2>6, <2>7, DecidedKeeps
<1> QED  BY <1>4, <1>7, <1>8, <1>9

LEMMA GovernedKeeps ==
    ASSUME LimitInv, NEW th \in Threads, Governed(th)
    PROVE  LimitInv'
<1>1. asks[th] # NoAsk /\ asks[th] \in [target : SUBSET Targets, source : SUBSET Sources, now : Nat]
    BY DEF Governed, LimitInv, LimitTypeOK
<1>2. PICK target \in asks[th].target, source \in asks[th].source :
         /\ Candidates(target) # {}
         /\ Decide(th, <<Governing(target), source>>, asks[th].now)
    BY DEF Governed
<1>3. Governing(target) \in Rules
    BY <1>2, GoverningIsLongest DEF Candidates
<1>4. <<Governing(target), source>> \in Keys
    BY <1>1, <1>3 DEF Keys
<1>5. asks[th].now \in Nat /\ asks[th].now <= time /\ time <= asks[th].now + Stall
    BY <1>1 DEF LimitInv, OnTime
<1> QED  BY <1>2, <1>4, <1>5, DecideKeeps

(* However many threads, sources, rules and windows there are: the windows of *)
(* the table are the end of what was admitted, the table is within its bound, *)
(* and no source is admitted past a rule's budget (check_at of                *)
(* source_limit.rs).                                                          *)
THEOREM LimitInvariant == LimitSpec => []LimitInv
<1>1. ASSUME LimitInv, [LimitNext]_limitVars
      PROVE  LimitInv'
  <2>1. CASE TimePasses
      BY <1>1, <2>1, TimeKeeps
  <2>2. CASE \E th \in Threads, target \in Targets, source \in Sources : Check(th, target, source)
      BY <1>1, <2>2, CheckKeeps
  <2>3. CASE \E th \in Threads : Ungoverned(th) \/ Governed(th)
      BY <1>1, <2>3, UngovernedKeeps, GovernedKeeps
  <2>4. CASE UNCHANGED limitVars
      BY <1>1, <2>4 DEF limitVars, LimitInv, LimitTypeOK, OnTime, Remembered, Past, TableBounded,
                        BudgetKept, HitsIn
  <2> QED  BY <1>1, <2>1, <2>2, <2>3, <2>4 DEF LimitNext
<1> QED  BY <1>1, LimitStarts, PTL DEF LimitSpec

(* A source is never admitted past its budget in a stretch of the window,     *)
(* whatever the table forgot to make room (check_at of source_limit.rs).      *)
THEOREM BudgetIsKept == LimitSpec => []BudgetKept
<1>1. LimitInv => BudgetKept
    BY DEF LimitInv
<1> QED  BY <1>1, LimitInvariant, PTL

(* The limiter's own memory is bounded: it never holds more windows than it   *)
(* may, and none longer than its rule's budget.                               *)
THEOREM TableStaysBounded ==
    LimitSpec => [](TableBounded /\ \A k \in DOMAIN windows : Len(windows[k]) \in 1 .. BUDGET[k[1]])
<1>1. LimitInv => TableBounded /\ \A k \in DOMAIN windows : Len(windows[k]) \in 1 .. BUDGET[k[1]]
  <2> SUFFICES ASSUME LimitInv, NEW k \in DOMAIN windows
               PROVE  Len(windows[k]) \in 1 .. BUDGET[k[1]]
      BY DEF LimitInv
  <2>1. k \in Keys /\ windows[k] \in Seq(Nat) /\ windows[k] # <<>> /\ HitsIn(windows, k) = windows[k]
      BY DEF LimitInv, LimitTypeOK, HitsIn
  <2>2. Len(windows[k]) <= BUDGET[k[1]] /\ BUDGET[k[1]] \in Nat
      BY <2>1, RulesTyped DEF LimitInv, Remembered, EndOf
  <2> QED  BY <2>1, <2>2
<1> QED  BY <1>1, LimitInvariant, PTL

(* A source is refused for want of room only while every window of the table  *)
(* holds a request that has not aged out (check_at of source_limit.rs).       *)
THEOREM RefusedForLive == LimitSpec => FullOnlyOfLive
<1> DEFINE IsLive(now, k) == \E i \in DOMAIN windows'[k] : Age(now, windows'[k][i]) < WINDOW[k[1]]
           Fine(th) == /\ Cardinality(DOMAIN windows') >= MaxSources
                       /\ \A k \in DOMAIN windows' : IsLive(asks[th].now, k)
           Step == \A th \in Threads : asks'[th] # asks[th] /\ answer'.kind = "full" => Fine(th)
<1>1. ASSUME LimitInv, NEW th \in Threads, NEW key \in Keys, NEW now \in Nat, Decide(th, key, now),
             answer'.kind = "full"
      PROVE  Cardinality(DOMAIN windows') >= MaxSources /\ \A k \in DOMAIN windows' : IsLive(now, k)
  <2> DEFINE table == Table(key, now)
  <2>1. key \notin DOMAIN table /\ NoRoom(table) /\ windows' = table
      BY <1>1 DEF Decide, Answer
  <2>2. IsFiniteSet(DOMAIN windows) /\ Cardinality(DOMAIN windows) \in Nat
      BY <1>1, FS_CardinalityType DEF LimitInv, LimitTypeOK
  <2>3. table = Reclaim(windows, now)
      BY <2>1, <2>2, SourceLimitAssumption DEF Table, NoRoom
  <2>4. Cardinality(DOMAIN windows') >= MaxSources
      BY <2>1 DEF NoRoom
  <2>5. ASSUME NEW k \in DOMAIN windows'
        PROVE  IsLive(now, k)
    <3>1. /\ k \in DOMAIN windows
          /\ windows'[k] = Expire(windows[k], WINDOW[k[1]], now) /\ windows'[k] # <<>>
        BY <2>1, <2>3, <2>5 DEF Reclaim
    <3>2. windows[k] \in Seq(Nat) /\ k \in Keys
        BY <1>1, <3>1 DEF LimitInv, LimitTypeOK
    <3>3. WINDOW[k[1]] \in Nat \ {0}
        BY <3>2, RulesTyped
    <3>4. PICK n \in 0 .. Len(windows[k]) :
             /\ windows'[k] = SubSeq(windows[k], n + 1, Len(windows[k]))
             /\ n < Len(windows[k]) => Age(now, windows[k][n + 1]) < WINDOW[k[1]]
      <4> DEFINE hits == windows[k]
                 rule == WINDOW[k[1]]
      <4>1. hits \in Seq(Nat) /\ rule \in Nat \ {0} /\ now \in Nat
          BY <1>1, <3>2, <3>3
      <4>2. windows'[k] = Expire(hits, rule, now)
          BY <3>1
      <4> HIDE DEF hits, rule
      <4>3. \E n \in 0 .. Len(hits) :
               /\ Expire(hits, rule, now) = SubSeq(hits, n + 1, Len(hits))
               /\ n < Len(hits) => Age(now, hits[n + 1]) < rule
          BY <4>1, ExpireDrops
      <4> QED  BY <4>2, <4>3 DEF hits, rule
    <3>5. n < Len(windows[k])
        BY <3>1, <3>2, <3>4
    <3>6. 1 \in DOMAIN windows'[k] /\ windows'[k][1] = windows[k][n + 1]
        BY <3>2, <3>4, <3>5
    <3> QED  BY <3>4, <3>5, <3>6
  <2> QED  BY <2>4, <2>5
<1>2. ASSUME LimitInv, [LimitNext]_limitVars
      PROVE  Step
  <2> SUFFICES ASSUME NEW th \in Threads, asks'[th] # asks[th], answer'.kind = "full"
               PROVE  Fine(th)
      OBVIOUS
  <2>1. asks' # asks
      OBVIOUS
  <2>2. CASE TimePasses \/ UNCHANGED limitVars
      BY <2>1, <2>2 DEF TimePasses, limitVars
  <2>3. CASE \E u \in Threads, target \in Targets, source \in Sources : Check(u, target, source)
    <3>1. answer' = NoAnswer
        BY <2>3 DEF Check
    <3> QED  BY <3>1 DEF NoAnswer
  <2>4. CASE \E u \in Threads : Ungoverned(u)
    <3>1. \E u \in Threads : Answer(u, "open", <<>>, 0)
        BY <2>4 DEF Ungoverned
    <3> QED  BY <3>1 DEF Answer
  <2>5. CASE \E u \in Threads : Governed(u)
    <3>1. PICK u \in Threads : Governed(u)
        BY <2>5
    <3>2. asks[u] # NoAsk /\ asks[u] \in [target : SUBSET Targets, source : SUBSET Sources, now : Nat]
        BY <1>2, <3>1 DEF Governed, LimitInv, LimitTypeOK
    <3>3. PICK target \in asks[u].target, source \in asks[u].source :
             /\ Candidates(target) # {}
             /\ Decide(u, <<Governing(target), source>>, asks[u].now)
        BY <3>1 DEF Governed
    <3>4. <<Governing(target), source>> \in Keys /\ asks[u].now \in Nat
        BY <3>2, <3>3, GoverningIsLongest DEF Candidates, Keys
    <3>5. /\ Cardinality(DOMAIN windows') >= MaxSources
          /\ \A k \in DOMAIN windows' : IsLive(asks[u].now, k)
        BY <1>1, <1>2, <3>3, <3>4
    <3>6. \E kind, key, retry : Answer(u, kind, key, retry)
        BY <3>3 DEF Decide
    <3>7. asks' = [asks EXCEPT ![u] = NoAsk]
        BY <3>6 DEF Answer
    <3>8. u = th
        BY <3>7, <1>2 DEF LimitInv, LimitTypeOK
    <3> QED  BY <3>5, <3>8
  <2> QED  BY <1>2, <2>2, <2>3, <2>4, <2>5 DEF LimitNext
<1>3. LimitInv /\ [LimitNext]_limitVars => [Step]_limitVars
    BY <1>2
<1> QED  BY <1>3, LimitInvariant, PTL DEF LimitSpec, FullOnlyOfLive

(* The seconds that a source is told to wait are no less than its wait.       *)
LEMMA RetryCoversWait ==
    ASSUME NEW ticks \in Nat
    PROVE  RetryAfter(ticks) \in Nat /\ SECOND * RetryAfter(ticks) >= ticks
<1>1. SECOND \in Nat \ {0}
    BY SourceLimitAssumption
<1>2. CASE ticks = 0
    BY <1>1, <1>2 DEF RetryAfter
<1>3. CASE ticks # 0
  <2> DEFINE n == ticks + SECOND - 1
  <2>1. n \in Nat
      BY <1>1, <1>3
  <2> HIDE DEF n
  <2>2. n \div SECOND \in Nat /\ n < SECOND * (n \div SECOND) + SECOND
      BY <1>1, <2>1
  <2>3. RetryAfter(ticks) = n \div SECOND
      BY <1>3 DEF RetryAfter, n
  <2>4. SECOND * (n \div SECOND) \in Nat
      BY <1>1, <2>2
  <2>5. SECOND * (n \div SECOND) >= ticks
    <3> DEFINE product == SECOND * (n \div SECOND)
    <3>1. product \in Nat /\ ticks + SECOND - 1 < product + SECOND
        BY <2>2, <2>4 DEF n
    <3> HIDE DEF product
    <3>2. product >= ticks
        BY <1>1, <3>1
    <3> QED  BY <3>2 DEF product
  <2> QED  BY <2>2, <2>3, <2>5
<1> QED  BY <1>2, <1>3

(* A source that waits as long as it is told has room in its window again     *)
(* (retry_after_secs of source_limit.rs).                                     *)
LEMMA WaitMakesRoom ==
    ASSUME LimitInv, NEW th \in Threads, NEW key \in Keys, NEW now \in Nat, now <= time,
           time <= now + Stall, Decide(th, key, now), answer'.kind = "over"
    PROVE  Len(Expire(windows'[key], WINDOW[key[1]], time' + SECOND * answer'.retry)) < BUDGET[key[1]]
<1> DEFINE w == WINDOW[key[1]]
           m == BUDGET[key[1]]
           table == Table(key, now)
           hits == IF key \in DOMAIN table THEN Expire(table[key], w, now) ELSE <<>>
           wait == Waits(hits, w, now)
           later == time' + SECOND * answer'.retry
<1>1. /\ Len(hits) >= m /\ windows' = Set(table, key, hits) /\ counted' = counted
      /\ Answer(th, "over", key, RetryAfter(wait))
    BY DEF Decide, Answer
<1>2. time' = time /\ answer'.retry = RetryAfter(wait)
    BY <1>1 DEF Answer
<1>3. windows'[key] = hits /\ key \in DOMAIN windows'
    BY <1>1 DEF Set
<1>4. LimitInv'
    BY DecideKeeps
<1>5. w \in Nat \ {0} /\ m \in Nat \ {0} /\ time \in Nat /\ hits \in Seq(Nat)
  <2>1. windows'[key] \in Seq(Nat)
      BY <1>3, <1>4 DEF LimitInv, LimitTypeOK
  <2> QED  BY <1>3, <2>1, RulesTyped DEF LimitInv, LimitTypeOK
<1> HIDE DEF w, m, table, hits, wait
<1>6. Len(hits) = m /\ hits[1] \in Nat /\ hits[1] <= time
  <2>1. EndOf(counted'[key], hits, w, m, time') /\ counted'[key] \in Seq(Nat)
      BY <1>3, <1>4 DEF LimitInv, LimitTypeOK, Remembered, HitsIn, w, m
  <2>2. Len(hits) = m
      BY <1>1, <1>5, <2>1 DEF EndOf
  <2>3. hits[1] = counted'[key][(Len(counted'[key]) - Len(hits)) + 1]
        /\ (Len(counted'[key]) - Len(hits)) + 1 \in DOMAIN counted'[key]
      BY <1>5, <2>1, <2>2 DEF EndOf
  <2>4. hits[1] <= time
      BY <1>2, <1>4, <2>3 DEF LimitInv, Past
  <2> QED  BY <1>5, <2>2, <2>4
<1>7. wait \in Nat /\ hits[1] + w <= time + wait
    BY <1>5, <1>6 DEF wait, Waits, Age
<1>8. later \in Nat /\ hits[1] + w <= later
  <2>1. RetryAfter(wait) \in Nat /\ SECOND * RetryAfter(wait) >= wait /\ SECOND \in Nat
      BY <1>7, RetryCoversWait, SourceLimitAssumption
  <2>2. SECOND * RetryAfter(wait) \in Nat
      BY <2>1
  <2> DEFINE pause == SECOND * RetryAfter(wait)
  <2>3. pause \in Nat /\ pause >= wait /\ later = time + pause
      BY <1>2, <2>1, <2>2
  <2> HIDE DEF pause, later
  <2> QED  BY <1>5, <1>6, <1>7, <2>3
<1> HIDE DEF later
<1>9. Len(Expire(hits, w, later)) < m
  <2>1. PICK n \in 0 .. Len(hits) : /\ Expire(hits, w, later) = SubSeq(hits, n + 1, Len(hits))
                                    /\ n < Len(hits) => Age(later, hits[n + 1]) < w
      BY <1>5, <1>8, ExpireDrops
  <2>2. n # 0
    <3> SUFFICES ASSUME n = 0
                 PROVE  FALSE
        OBVIOUS
    <3>1. Age(later, hits[1]) < w
        BY <1>5, <1>6, <2>1
    <3> QED  BY <1>5, <1>6, <1>8, <3>1 DEF Age
  <2>3. Len(SubSeq(hits, n + 1, Len(hits))) = Len(hits) - n
      BY <1>5
  <2> QED  BY <1>5, <1>6, <2>1, <2>2, <2>3
<1> QED  BY <1>3, <1>9 DEF w, m, later

(* A refused source that waits as long as it is told, and is not counted      *)
(* meanwhile, is let in (Limited::retry_after_secs of source_limit.rs).       *)
THEOREM RetryIsTruthful == LimitSpec => RetryTruthful
<1> DEFINE HasPlace(k) == Len(Expire(windows'[k], WINDOW[k[1]], time' + SECOND * answer'.retry)) < BUDGET[k[1]]
           Step == \A k \in Keys : answer'.kind = "over" /\ answer'.key = k => HasPlace(k)
<1>1. ASSUME LimitInv, [LimitNext]_limitVars, <<windows, asks>>' # <<windows, asks>>
      PROVE  Step
  <2> SUFFICES ASSUME answer'.kind = "over"
               PROVE  \A k \in Keys : answer'.key = k => HasPlace(k)
      OBVIOUS
  <2>1. CASE TimePasses \/ UNCHANGED limitVars
      BY <1>1, <2>1 DEF TimePasses, limitVars
  <2>2. CASE \E u \in Threads, target \in Targets, source \in Sources : Check(u, target, source)
    <3>1. answer' = NoAnswer
        BY <2>2 DEF Check
    <3> QED  BY <3>1 DEF NoAnswer
  <2>3. CASE \E u \in Threads : Ungoverned(u)
    <3>1. \E u \in Threads : Answer(u, "open", <<>>, 0)
        BY <2>3 DEF Ungoverned
    <3> QED  BY <3>1 DEF Answer
  <2>4. CASE \E u \in Threads : Governed(u)
    <3>1. PICK u \in Threads : Governed(u)
        BY <2>4
    <3>2. asks[u] # NoAsk /\ asks[u] \in [target : SUBSET Targets, source : SUBSET Sources, now : Nat]
        BY <1>1, <3>1 DEF Governed, LimitInv, LimitTypeOK
    <3>3. PICK target \in asks[u].target, source \in asks[u].source :
             /\ Candidates(target) # {}
             /\ Decide(u, <<Governing(target), source>>, asks[u].now)
        BY <3>1 DEF Governed
    <3> DEFINE key == <<Governing(target), source>>
    <3>4. key \in Keys /\ asks[u].now \in Nat /\ asks[u].now <= time /\ time <= asks[u].now + Stall
        BY <1>1, <3>2, <3>3, GoverningIsLongest DEF Candidates, Keys, LimitInv, OnTime
    <3>5. Decide(u, key, asks[u].now)
        BY <3>3
    <3> HIDE DEF key
    <3>6. HasPlace(key)
        BY <1>1, <3>4, <3>5, WaitMakesRoom
    <3>7. answer'.key = key
        BY <3>5 DEF Decide, Answer
    <3> QED  BY <3>6, <3>7
  <2> QED  BY <1>1, <2>1, <2>2, <2>3, <2>4 DEF LimitNext
<1>2. LimitInv /\ [LimitNext]_limitVars => [Step]_<<windows, asks>>
    BY <1>1
<1> QED  BY <1>2, LimitInvariant, PTL DEF LimitSpec, RetryTruthful
-----------------------------------------------------------------------------
(* Proofs about the connections, for any requests, answers and bounds.        *)
(*                                                                            *)
(* What is on its way to the door, arrived or not yet sent: whole requests,   *)
(* of which the door has taken some of the first.                             *)
Piece == [is : {"start", "head", "byte", "end"}, of : Requests \cup {None}]
Coming(c) == in[c] \o todo[c]

(* After place i of it come n units of a body, its last chunk, and then a new *)
(* request or nothing.                                                        *)
LastOf(i, n, chunked) == i + n + (IF chunked THEN 1 ELSE 0)
BodyAfter(s, i, n, chunked) ==
    /\ LastOf(i, n, chunked) <= Len(s) /\ \A j \in i + 1 .. i + n : s[j].is = "byte"
    /\ chunked => s[LastOf(i, n, chunked)].is = "end"
    /\ LastOf(i, n, chunked) < Len(s) => s[LastOf(i, n, chunked) + 1].is = "start"
RestAfter(s, i, r, taken) == BodyAfter(s, i, r.bytes - taken, r.framing = "chunked")
NewAfter(s, i) == BodyAfter(s, i, 0, FALSE)

Framed(s) ==
    \A i \in 1 .. Len(s) :
        /\ s[i].is = "start" => i < Len(s) /\ s[i + 1].is = "head"
        /\ s[i].is = "head" => s[i].of \in Requests /\ RestAfter(s, i, s[i].of, 0)

(* A connection that may be read again has whole requests coming, after what  *)
(* is left of the one it is on.                                               *)
Between(c) == at[c] \in {"away", "backlog", "head", "serving"} \/ (at[c] = "answering" /\ ~closing[c])
InBody(c) == at[c] \in {"reading", "spilling"}

ComingInv(c) ==
    /\ in[c] \in Seq(Piece) /\ todo[c] \in Seq(Piece)
    /\ Between(c) => Framed(Coming(c)) /\ NewAfter(Coming(c), 0)
    /\ InBody(c) => Framed(Coming(c)) /\ RestAfter(Coming(c), 0, cur[c], got[c])

(* What is on disk of a body is what was taken of it, and is let go with it.  *)
BodyInv(c) ==
    /\ got[c] \in Nat /\ disk[c] \in Nat
    /\ InBody(c) \/ at[c] \in {"serving", "answering"} => cur[c] \in Requests
    /\ InBody(c) => got[c] <= cur[c].bytes
    /\ at[c] = "reading" => ~Spills(cur[c])
    /\ at[c] = "spilling" =>
          Spills(cur[c]) /\ cur[c].framing # "chunked" /\ disk[c] = got[c] /\ held[c] = {}
    /\ at[c] = "serving" =>
          got[c] = cur[c].bytes /\ (Spills(cur[c]) => "door" \in held[c] /\ disk[c] = got[c])
    /\ held[c] # {} => at[c] \in {"serving", "answering"}
    /\ at[c] # "spilling" /\ held[c] = {} => disk[c] = 0

AgainInv(c) ==
    /\ at[c] \in {"away", "backlog"} => c \notin answered
    /\ at[c] = "head" /\ c \in answered => IsWhole(c)

ConnInv(c) == ComingInv(c) /\ BodyInv(c) /\ AgainInv(c)
Tables ==
    /\ DOMAIN at = Conns /\ DOMAIN in = Conns /\ DOMAIN todo = Conns /\ DOMAIN asked = Conns
    /\ DOMAIN cur = Conns /\ DOMAIN got = Conns /\ DOMAIN disk = Conns /\ DOMAIN held = Conns
    /\ DOMAIN ans = Conns /\ DOMAIN sent = Conns /\ DOMAIN closing = Conns
StoreInv == IsFiniteSet(StoreHolds) /\ Cardinality(StoreHolds) <= StoreBound
WebDoorInv == Tables /\ StoreInv /\ \A c \in Conns : ConnInv(c)

-----------------------------------------------------------------------------
(* Sequences of pieces, one after another, and one less its beginning.        *)
LEMMA JoinedPieces ==
    ASSUME NEW s \in Seq(Piece), NEW u \in Seq(Piece)
    PROVE  /\ s \o u \in Seq(Piece) /\ Len(s \o u) = Len(s) + Len(u)
           /\ \A i \in 1 .. Len(s) : (s \o u)[i] = s[i]
           /\ \A i \in 1 .. Len(u) : (s \o u)[Len(s) + i] = u[i]
    OBVIOUS

LEMMA PiecesOf ==
    ASSUME NEW r \in Requests
    PROVE  /\ Units(r) \in Seq(Piece) /\ Units(r) # <<>>
           /\ Len(Units(r)) = LastOf(2, r.bytes, r.framing = "chunked")
           /\ Units(r)[1].is = "start" /\ Units(r)[2].is = "head" /\ Units(r)[2].of = r
           /\ \A j \in 3 .. 2 + r.bytes : Units(r)[j].is = "byte"
           /\ r.framing = "chunked" => Units(r)[Len(Units(r))].is = "end"
<1> DEFINE opening == <<Unit("start"), [is |-> "head", of |-> r]>>
           body == [i \in 1 .. r.bytes |-> Unit("byte")]
           last == IF r.framing = "chunked" THEN <<Unit("end")>> ELSE <<>>
<1>1. r.bytes \in Nat
    BY WebDoorAssumption
<1>2. Unit("start") \in Piece /\ Unit("byte") \in Piece /\ Unit("end") \in Piece /\ [is |-> "head", of |-> r] \in Piece
    BY DEF Unit, Piece
<1>3. opening \in Seq(Piece) /\ Len(opening) = 2 /\ opening[1] = Unit("start") /\ opening[2] = [is |-> "head", of |-> r]
    BY <1>2
<1>4. body \in Seq(Piece) /\ Len(body) = r.bytes /\ \A i \in 1 .. r.bytes : body[i] = Unit("byte")
    BY <1>1, <1>2
<1>5. /\ last \in Seq(Piece) /\ Len(last) = (IF r.framing = "chunked" THEN 1 ELSE 0)
      /\ r.framing = "chunked" => last[1] = Unit("end")
    BY <1>2
<1>6. Units(r) = (opening \o body) \o last
    BY DEF Units
<1> HIDE DEF opening, body, last
<1>7. /\ opening \o body \in Seq(Piece) /\ Len(opening \o body) = 2 + r.bytes
      /\ (opening \o body)[1] = Unit("start") /\ (opening \o body)[2] = [is |-> "head", of |-> r]
      /\ \A i \in 1 .. r.bytes : (opening \o body)[2 + i] = Unit("byte")
  <2>1. /\ opening \o body \in Seq(Piece) /\ Len(opening \o body) = Len(opening) + Len(body)
        /\ \A i \in 1 .. Len(opening) : (opening \o body)[i] = opening[i]
        /\ \A i \in 1 .. Len(body) : (opening \o body)[Len(opening) + i] = body[i]
      BY <1>3, <1>4, JoinedPieces
  <2>2. 1 \in 1 .. Len(opening) /\ 2 \in 1 .. Len(opening)
      BY <1>3
  <2> QED  BY <1>3, <1>4, <2>1, <2>2
<1>8. \A j \in 3 .. 2 + r.bytes : (opening \o body)[j] = Unit("byte")
  <2> TAKE j \in 3 .. 2 + r.bytes
  <2>1. j - 2 \in 1 .. r.bytes /\ 2 + (j - 2) = j
      BY <1>1
  <2> QED  BY <1>7, <2>1
<1>9. /\ Units(r) \in Seq(Piece) /\ Len(Units(r)) = 2 + r.bytes + Len(last)
      /\ \A i \in 1 .. 2 + r.bytes : Units(r)[i] = (opening \o body)[i]
      /\ \A i \in 1 .. Len(last) : Units(r)[2 + r.bytes + i] = last[i]
  <2>1. /\ (opening \o body) \o last \in Seq(Piece)
        /\ Len((opening \o body) \o last) = Len(opening \o body) + Len(last)
        /\ \A i \in 1 .. Len(opening \o body) : ((opening \o body) \o last)[i] = (opening \o body)[i]
        /\ \A i \in 1 .. Len(last) : ((opening \o body) \o last)[Len(opening \o body) + i] = last[i]
      BY <1>5, <1>7, JoinedPieces
  <2> QED  BY <1>6, <1>7, <2>1
<1>10. Unit("start").is = "start" /\ Unit("byte").is = "byte" /\ Unit("end").is = "end"
    BY DEF Unit
<1>11. \A j \in 3 .. 2 + r.bytes : Units(r)[j].is = "byte"
  <2> TAKE j \in 3 .. 2 + r.bytes
  <2>1. j \in 1 .. 2 + r.bytes
      BY <1>1
  <2> QED  BY <1>8, <1>9, <1>10, <2>1
<1>12. Units(r)[1].is = "start" /\ Units(r)[2] = [is |-> "head", of |-> r]
  <2>1. 1 \in 1 .. 2 + r.bytes /\ 2 \in 1 .. 2 + r.bytes
      BY <1>1
  <2> QED  BY <1>7, <1>9, <1>10, <2>1
<1>13. Len(Units(r)) = LastOf(2, r.bytes, r.framing = "chunked") /\ Units(r) # <<>>
    BY <1>1, <1>5, <1>9 DEF LastOf
<1>14. r.framing = "chunked" => Units(r)[Len(Units(r))].is = "end"
    BY <1>1, <1>5, <1>9, <1>10
<1> QED  BY <1>9, <1>11, <1>12, <1>13, <1>14

(* A new request after what is coming leaves what was to come as it was.      *)
LEMMA BodyThenMore ==
    ASSUME NEW s \in Seq(Piece), NEW u \in Seq(Piece), u # <<>>, u[1].is = "start",
           NEW i \in Nat, NEW n \in Nat, NEW chunked \in BOOLEAN, BodyAfter(s, i, n, chunked)
    PROVE  BodyAfter(s \o u, i, n, chunked)
<1> DEFINE e == LastOf(i, n, chunked)
<1>1. Len(s) \in Nat /\ Len(u) \in Nat \ {0} /\ e \in Nat /\ e <= Len(s) /\ i + n <= e /\ (chunked => e > 0)
    BY DEF BodyAfter, LastOf
<1>2. e <= Len(s \o u)
    BY <1>1, JoinedPieces
<1>3. \A j \in i + 1 .. i + n : (s \o u)[j].is = "byte"
  <2> TAKE j \in i + 1 .. i + n
  <2>1. j \in 1 .. Len(s)
      BY <1>1
  <2> QED  BY <2>1, JoinedPieces DEF BodyAfter
<1>4. chunked => (s \o u)[e].is = "end"
  <2> SUFFICES ASSUME chunked
               PROVE  (s \o u)[e].is = "end"
      OBVIOUS
  <2>1. e \in 1 .. Len(s)
      BY <1>1 DEF LastOf
  <2> QED  BY <2>1, JoinedPieces DEF BodyAfter
<1>5. (s \o u)[e + 1].is = "start"
  <2>1. CASE e < Len(s)
    <3>1. e + 1 \in 1 .. Len(s)
        BY <1>1, <2>1
    <3> QED  BY <2>1, <3>1, JoinedPieces DEF BodyAfter
  <2>2. CASE e = Len(s)
    <3>1. 1 \in 1 .. Len(u)
        BY <1>1
    <3> QED  BY <2>2, <3>1, JoinedPieces
  <2> QED  BY <1>1, <2>1, <2>2
<1> QED  BY <1>2, <1>3, <1>4, <1>5 DEF BodyAfter

LEMMA MoreIsFramed ==
    ASSUME NEW s \in Seq(Piece), Framed(s), NEW r \in Requests
    PROVE  Framed(s \o Units(r))
<1> DEFINE u == Units(r)
           t == s \o u
<1>1. /\ u \in Seq(Piece) /\ u # <<>> /\ u[1].is = "start" /\ u[2].is = "head" /\ u[2].of = r
      /\ Len(u) = LastOf(2, r.bytes, r.framing = "chunked") /\ r.bytes \in Nat
    BY PiecesOf, WebDoorAssumption
<1>2. t \in Seq(Piece) /\ Len(t) = Len(s) + Len(u) /\ Len(s) \in Nat /\ Len(u) \in Nat /\ Len(u) >= 2
    BY <1>1, JoinedPieces DEF LastOf
<1>3. \A j \in 3 .. 2 + r.bytes : u[j].is = "byte"
    BY PiecesOf
<1>4. r.framing = "chunked" => u[Len(u)].is = "end"
    BY PiecesOf
<1>5. \A i \in 1 .. Len(s) : t[i] = s[i]
    BY <1>1, JoinedPieces
<1>6. \A i \in 1 .. Len(u) : t[Len(s) + i] = u[i]
    BY <1>1, JoinedPieces
<1> HIDE DEF t, u
<1>7. BodyAfter(t, Len(s) + 2, r.bytes, r.framing = "chunked")
  <2> DEFINE e == LastOf(Len(s) + 2, r.bytes, r.framing = "chunked")
  <2> DEFINE k == IF r.framing = "chunked" THEN 1 ELSE 0
  <2>0. Len(u) = 2 + r.bytes + k /\ e = Len(s) + 2 + r.bytes + k /\ k \in Nat
      BY <1>1 DEF LastOf
  <2> HIDE DEF k
  <2>1. e = Len(t) /\ e = Len(s) + Len(u)
    <3> HIDE DEF e
    <3> QED  BY <1>1, <1>2, <2>0
  <2>2. ASSUME NEW j \in Len(s) + 2 + 1 .. Len(s) + 2 + r.bytes PROVE t[j].is = "byte"
    <3>1. j - Len(s) \in 3 .. 2 + r.bytes /\ j - Len(s) \in 1 .. Len(u) /\ Len(s) + (j - Len(s)) = j
        BY <1>1, <1>2, SMTT(30) DEF LastOf
    <3> QED  BY <1>3, <1>6, <3>1
  <2>3. r.framing = "chunked" => t[e].is = "end"
      BY <1>2, <1>4, <1>6, <2>1
  <2> QED  BY <1>2, <2>1, <2>2, <2>3 DEF BodyAfter
<1>8. ASSUME NEW i \in 1 .. Len(s)
      PROVE  /\ t[i].is = "start" => i < Len(t) /\ t[i + 1].is = "head"
             /\ t[i].is = "head" => t[i].of \in Requests /\ RestAfter(t, i, t[i].of, 0)
  <2>1. t[i] = s[i] /\ i \in Nat
      BY <1>2, <1>5
  <2>2. ASSUME s[i].is = "start" PROVE i < Len(t) /\ t[i + 1].is = "head"
    <3>1. i < Len(s) /\ s[i + 1].is = "head"
        BY <2>2 DEF Framed
    <3>2. i + 1 \in 1 .. Len(s)
        BY <1>2, <3>1
    <3> QED  BY <1>2, <1>5, <3>1, <3>2
  <2>3. ASSUME s[i].is = "head" PROVE s[i].of \in Requests /\ RestAfter(t, i, s[i].of, 0)
    <3>1. s[i].of \in Requests /\ RestAfter(s, i, s[i].of, 0)
        BY <2>3 DEF Framed
    <3>2. s[i].of.bytes \in Nat /\ s[i].of.bytes - 0 \in Nat
        BY <3>1, WebDoorAssumption
    <3> QED  BY <1>1, <2>1, <3>1, <3>2, BodyThenMore DEF RestAfter, t
  <2> QED  BY <2>1, <2>2, <2>3
<1>9. ASSUME NEW i \in 1 .. Len(u)
      PROVE  /\ t[Len(s) + i].is = "start" => Len(s) + i < Len(t) /\ t[Len(s) + i + 1].is = "head"
             /\ t[Len(s) + i].is = "head" =>
                    t[Len(s) + i].of \in Requests /\ RestAfter(t, Len(s) + i, t[Len(s) + i].of, 0)
  <2>1. t[Len(s) + i] = u[i]
      BY <1>6
  <2>2. CASE i = 1
    <3>1. 2 \in 1 .. Len(u) /\ Len(s) + i + 1 = Len(s) + 2 /\ Len(s) + i < Len(t)
        BY <1>2, <2>2
    <3>2. t[Len(s) + 2] = u[2]
        BY <1>6, <3>1
    <3> QED  BY <1>1, <2>1, <2>2, <3>1, <3>2
  <2>3. CASE i = 2
    <3>1. r.bytes - 0 = r.bytes
        BY <1>1
    <3> QED  BY <1>1, <1>7, <2>1, <2>3, <3>1 DEF RestAfter
  <2>4. CASE i > 2
    <3>1. i \in 3 .. 2 + r.bytes \/ (r.framing = "chunked" /\ i = Len(u))
        BY <1>1, <2>4 DEF LastOf
    <3>2. u[i].is \in {"byte", "end"}
        BY <1>3, <1>4, <3>1
    <3> QED  BY <2>1, <3>2
  <2> QED  BY <1>2, <2>2, <2>3, <2>4
<1>10. \A i \in 1 .. Len(t) : i \in 1 .. Len(s) \/ (i - Len(s) \in 1 .. Len(u) /\ Len(s) + (i - Len(s)) = i)
    BY <1>2
<1>11. Framed(t)
    BY <1>8, <1>9, <1>10 DEF Framed
<1> QED  BY <1>11 DEF t, u

LEMMA BytesAreNat == \A r \in Requests : r.bytes \in Nat
    BY WebDoorAssumption

(* t is what is left of s without its first k pieces.                         *)
Left(t, s, k) == t \in Seq(Piece) /\ Len(t) + k = Len(s) /\ \A i \in 1 .. Len(t) : t[i] = s[i + k]

LEMMA BodyOfLeft ==
    ASSUME NEW s \in Seq(Piece), NEW k \in Nat, NEW t, Left(t, s, k),
           NEW i \in Nat, NEW n \in Nat, NEW chunked \in BOOLEAN, BodyAfter(s, i + k, n, chunked)
    PROVE  BodyAfter(t, i, n, chunked)
<1> DEFINE e == LastOf(i, n, chunked)
           f == LastOf(i + k, n, chunked)
<1>1. f = e + k /\ e \in Nat /\ i + n <= e /\ (chunked => e > 0)
    BY DEF LastOf
<1>2. Len(t) \in Nat /\ Len(s) = Len(t) + k /\ f <= Len(s) /\ \A j \in 1 .. Len(t) : t[j] = s[j + k]
    BY DEF Left, BodyAfter
<1>3. /\ \A j \in i + k + 1 .. i + k + n : s[j].is = "byte"
      /\ chunked => s[f].is = "end"
      /\ f < Len(s) => s[f + 1].is = "start"
    BY DEF BodyAfter
<1> HIDE DEF e, f
<1>4. \A j \in i + 1 .. i + n : t[j].is = "byte"
  <2> TAKE j \in i + 1 .. i + n
  <2>1. j \in 1 .. Len(t) /\ j + k \in i + k + 1 .. i + k + n
      BY <1>1, <1>2
  <2> QED  BY <1>2, <1>3, <2>1
<1>5. chunked => t[e].is = "end"
    BY <1>1, <1>2, <1>3
<1>6. e < Len(t) => t[e + 1].is = "start"
  <2> SUFFICES ASSUME e < Len(t)
               PROVE  t[e + 1].is = "start"
      OBVIOUS
  <2>1. e + 1 \in 1 .. Len(t) /\ f < Len(s) /\ e + 1 + k = f + 1
      BY <1>1, <1>2
  <2>2. t[e + 1] = s[e + 1 + k]
      BY <1>2, <2>1
  <2> QED  BY <1>3, <2>1, <2>2
<1>7. e <= Len(t)
    BY <1>1, <1>2
<1> QED  BY <1>4, <1>5, <1>6, <1>7 DEF BodyAfter, e

LEMMA LeftIsFramed ==
    ASSUME NEW s \in Seq(Piece), NEW k \in Nat, NEW t, Left(t, s, k), Framed(s)
    PROVE  Framed(t)
<1>1. Len(t) \in Nat /\ Len(s) = Len(t) + k /\ \A j \in 1 .. Len(t) : t[j] = s[j + k]
    BY DEF Left
<1> SUFFICES ASSUME NEW i \in 1 .. Len(t)
             PROVE  /\ t[i].is = "start" => i < Len(t) /\ t[i + 1].is = "head"
                    /\ t[i].is = "head" => t[i].of \in Requests /\ RestAfter(t, i, t[i].of, 0)
    BY DEF Framed
<1>2. t[i] = s[i + k] /\ i \in Nat /\ i + k \in 1 .. Len(s)
    BY <1>1
<1>3. ASSUME t[i].is = "start" PROVE i < Len(t) /\ t[i + 1].is = "head"
  <2>1. i + k < Len(s) /\ s[i + k + 1].is = "head"
      BY <1>2, <1>3 DEF Framed
  <2>2. i + 1 \in 1 .. Len(t) /\ i + 1 + k = i + k + 1
      BY <1>1, <2>1
  <2>3. t[i + 1] = s[i + 1 + k]
      BY <1>1, <2>2
  <2> QED  BY <1>1, <2>1, <2>2, <2>3
<1>4. ASSUME t[i].is = "head" PROVE t[i].of \in Requests /\ RestAfter(t, i, t[i].of, 0)
  <2> DEFINE r == t[i].of
  <2>1. r \in Requests /\ RestAfter(s, i + k, r, 0)
      BY <1>2, <1>4 DEF Framed
  <2> HIDE DEF r
  <2>2. r.bytes - 0 \in Nat
      BY <2>1, BytesAreNat
  <2> DEFINE n == r.bytes - 0
             chunked == r.framing = "chunked"
  <2>3. n \in Nat /\ chunked \in BOOLEAN /\ BodyAfter(s, i + k, n, chunked)
      BY <2>1, <2>2 DEF RestAfter
  <2> HIDE DEF n, chunked
  <2>4. BodyAfter(t, i, n, chunked)
      BY <1>2, <2>3, BodyOfLeft
  <2>5. RestAfter(t, i, r, 0)
      BY <2>4 DEF RestAfter, n, chunked
  <2> QED  BY <2>1, <2>5 DEF r
<1> QED  BY <1>3, <1>4

(* What is taken from the front is taken of what is coming.                   *)
LEMMA TakenFromTheFront ==
    ASSUME NEW a \in Seq(Piece), NEW b \in Seq(Piece)
    PROVE  /\ a # <<>> => Tail(a) \in Seq(Piece) /\ Left(Tail(a) \o b, a \o b, 1) /\ (a \o b)[1] = Head(a)
           /\ Len(a) >= 2 => /\ SubSeq(a, 3, Len(a)) \in Seq(Piece)
                             /\ Left(SubSeq(a, 3, Len(a)) \o b, a \o b, 2)
                             /\ (a \o b)[1] = a[1] /\ (a \o b)[2] = a[2]
<1>1. Len(a) \in Nat /\ Len(b) \in Nat /\ Len(a \o b) = Len(a) + Len(b)
    OBVIOUS
<1>2. ASSUME NEW t \in Seq(Piece), NEW k \in Nat, Len(t) + k = Len(a), \A i \in 1 .. Len(t) : t[i] = a[i + k]
      PROVE  Left(t \o b, a \o b, k)
  <2>1. t \o b \in Seq(Piece) /\ Len(t \o b) = Len(t) + Len(b) /\ Len(t) \in Nat
      BY JoinedPieces
  <2>2. ASSUME NEW i \in 1 .. Len(t) + Len(b) PROVE (t \o b)[i] = (a \o b)[i + k]
    <3>1. CASE i <= Len(t)
      <4>1. i \in 1 .. Len(t) /\ i + k \in 1 .. Len(a)
          BY <1>1, <1>2, <2>1, <3>1
      <4> QED  BY <1>2, <4>1, JoinedPieces
    <3>2. CASE i > Len(t)
      <4> DEFINE j == i - Len(t)
      <4>2. j \in 1 .. Len(b) /\ i = Len(t) + j
          BY <1>1, <2>1, <3>2
      <4> HIDE DEF j
      <4>3. i + k = Len(a) + j
          BY <1>1, <1>2, <2>1, <4>2, SMTT(120)
      <4>4. (t \o b)[Len(t) + j] = b[j] /\ (a \o b)[Len(a) + j] = b[j]
          BY <4>2, JoinedPieces
      <4> QED  BY <4>2, <4>3, <4>4
    <3>3. i <= Len(t) \/ i > Len(t)
        BY <1>1, <2>1
    <3> QED  BY <3>1, <3>2, <3>3
  <2>3. Len(t \o b) + k = Len(a \o b)
      BY <1>1, <1>2, <2>1, SMTT(30)
  <2> QED  BY <2>1, <2>2, <2>3 DEF Left
<1>3. ASSUME a # <<>> PROVE Tail(a) \in Seq(Piece) /\ Left(Tail(a) \o b, a \o b, 1) /\ (a \o b)[1] = Head(a)
  <2>1. Tail(a) \in Seq(Piece) /\ Len(Tail(a)) + 1 = Len(a) /\ \A i \in 1 .. Len(Tail(a)) : Tail(a)[i] = a[i + 1]
      BY <1>3
  <2>2. Head(a) = a[1] /\ 1 \in 1 .. Len(a)
      BY <1>3
  <2>3. (a \o b)[1] = a[1]
      BY <2>2, JoinedPieces
  <2> QED  BY <1>2, <2>1, <2>2, <2>3
<1>4. ASSUME Len(a) >= 2
      PROVE  /\ SubSeq(a, 3, Len(a)) \in Seq(Piece)
             /\ Left(SubSeq(a, 3, Len(a)) \o b, a \o b, 2)
             /\ (a \o b)[1] = a[1] /\ (a \o b)[2] = a[2]
  <2> DEFINE t == SubSeq(a, 3, Len(a))
  <2>1. t \in Seq(Piece) /\ Len(t) + 2 = Len(a) /\ \A i \in 1 .. Len(t) : t[i] = a[i + 2]
    <3>1. \A i \in 3 .. Len(a) : a[i] \in Piece
        BY <1>1
    <3>2. t = [i \in 1 .. Len(a) - 2 |-> a[i + 2]]
        BY <1>1, <1>4
    <3>3. t \in [1 .. Len(a) - 2 -> Piece]
      <4>1. \A i \in 1 .. Len(a) - 2 : i + 2 \in 3 .. Len(a)
          BY <1>1
      <4>2. \A i \in 1 .. Len(a) - 2 : a[i + 2] \in Piece
          BY <3>1, <4>1
      <4> QED  BY <3>2, <4>2
    <3>4. Len(a) - 2 \in Nat
        BY <1>1, <1>4
    <3> HIDE DEF t
    <3> QED  BY <1>1, <3>2, <3>3, <3>4
  <2>2. 1 \in 1 .. Len(a) /\ 2 \in 1 .. Len(a)
      BY <1>1, <1>4
  <2>3. (a \o b)[1] = a[1] /\ (a \o b)[2] = a[2]
      BY <2>2, JoinedPieces
  <2> HIDE DEF t
  <2>4. Left(t \o b, a \o b, 2)
      BY <1>2, <2>1
  <2> QED  BY <2>1, <2>3, <2>4 DEF t
<1> QED  BY <1>3, <1>4

(* What is next: of a body a unit, then its last chunk, then a new request.   *)
LEMMA NextComes ==
    ASSUME NEW s \in Seq(Piece), NEW t, Left(t, s, 1), NEW n \in Nat, NEW chunked \in BOOLEAN,
           BodyAfter(s, 0, n, chunked)
    PROVE  /\ n > 0 => s[1].is = "byte" /\ BodyAfter(t, 0, n - 1, chunked)
           /\ n = 0 /\ chunked => s[1].is = "end" /\ NewAfter(t, 0)
           /\ n = 0 /\ ~chunked => s[1].is = "start"
<1>1. Len(t) \in Nat /\ Len(s) = Len(t) + 1
    BY DEF Left
<1>2. ASSUME n > 0 PROVE s[1].is = "byte" /\ BodyAfter(t, 0, n - 1, chunked)
  <2>1. 1 \in 0 + 1 .. 0 + n
      BY <1>2
  <2>2. LastOf(0 + 1, n - 1, chunked) = LastOf(0, n, chunked) /\ 0 + 1 = 1 /\ n - 1 \in Nat
      BY <1>2 DEF LastOf
  <2>3. \A j \in 0 + 1 + 1 .. 0 + 1 + (n - 1) : j \in 0 + 1 .. 0 + n
      BY <1>2
  <2>4. BodyAfter(s, 0 + 1, n - 1, chunked)
      BY <2>2, <2>3 DEF BodyAfter
  <2>5. BodyAfter(t, 0, n - 1, chunked)
      BY <2>2, <2>4, BodyOfLeft
  <2> QED  BY <2>1, <2>5 DEF BodyAfter
<1>3. ASSUME n = 0, chunked PROVE s[1].is = "end" /\ NewAfter(t, 0)
  <2>1. LastOf(0, n, chunked) = 1 /\ LastOf(0 + 1, 0, FALSE) = 1
      BY <1>3 DEF LastOf
  <2>2. s[1].is = "end" /\ 1 <= Len(s) /\ (1 < Len(s) => s[1 + 1].is = "start")
      BY <1>3, <2>1 DEF BodyAfter
  <2>3. BodyAfter(s, 0 + 1, 0, FALSE)
    <3>1. \A j \in 0 + 1 + 1 .. 0 + 1 + 0 : FALSE
        OBVIOUS
    <3> QED  BY <2>1, <2>2, <3>1 DEF BodyAfter
  <2>4. BodyAfter(t, 0, 0, FALSE)
      BY <2>3, BodyOfLeft
  <2> QED  BY <2>2, <2>4 DEF NewAfter
<1>4. ASSUME n = 0, ~chunked PROVE s[1].is = "start"
  <2>1. LastOf(0, n, chunked) = 0
      BY <1>4 DEF LastOf
  <2> QED  BY <1>1, <2>1 DEF BodyAfter
<1> QED  BY <1>2, <1>3, <1>4

(* A piece that is sent was to come next.                                     *)
LEMMA HeadMovesOver ==
    ASSUME NEW a \in Seq(Piece), NEW b \in Seq(Piece), b # <<>>
    PROVE  /\ Append(a, Head(b)) \in Seq(Piece) /\ Tail(b) \in Seq(Piece)
           /\ Append(a, Head(b)) \o Tail(b) = a \o b
    OBVIOUS

(* One connection moves, the others stay as they are, and the store grows by  *)
(* no spill.                                                                  *)
Quiet(d) ==
    /\ at'[d] = at[d] /\ in'[d] = in[d] /\ todo'[d] = todo[d] /\ cur'[d] = cur[d] /\ got'[d] = got[d]
    /\ disk'[d] = disk[d] /\ held'[d] = held[d] /\ ans'[d] = ans[d] /\ sent'[d] = sent[d]
    /\ closing'[d] = closing[d] /\ (d \in answered' <=> d \in answered)

LEMMA QuietStays ==
    ASSUME NEW d \in Conns, ConnInv(d), Quiet(d)
    PROVE  ConnInv(d)' /\ Stored(d)' = Stored(d)
<1>1. Coming(d)' = Coming(d) /\ (Between(d)' <=> Between(d)) /\ (InBody(d)' <=> InBody(d))
    BY DEF Quiet, Coming, Between, InBody
<1>2. ComingInv(d)'
    BY <1>1 DEF ConnInv, ComingInv, Quiet
<1>3. BodyInv(d)'
    BY <1>1 DEF ConnInv, BodyInv, Quiet
<1>4. AgainInv(d)'
    BY DEF ConnInv, AgainInv, Quiet, IsWhole, Drained, Filled
<1>5. Stored(d)' = Stored(d)
    BY DEF Quiet, Stored
<1> QED  BY <1>2, <1>3, <1>4, <1>5 DEF ConnInv

LEMMA OneMoves ==
    ASSUME WebDoorInv, Tables', NEW c \in Conns, ConnInv(c)', Stored(c)' \in {0, Stored(c)},
           \A d \in Conns \ {c} : Quiet(d)
    PROVE  WebDoorInv'
<1>1. \A d \in Conns \ {c} : ConnInv(d)' /\ Stored(d)' = Stored(d)
    BY QuietStays DEF WebDoorInv
<1>2. StoreHolds' \subseteq StoreHolds
  <2> SUFFICES ASSUME NEW d \in Conns, NEW i \in 1 .. Stored(d)'
               PROVE  i \in 1 .. Stored(d)
      BY DEF StoreHolds
  <2> QED  BY <1>1
<1>3. StoreInv'
  <2>1. IsFiniteSet(StoreHolds') /\ Cardinality(StoreHolds') <= Cardinality(StoreHolds)
      BY <1>2, FS_Subset DEF WebDoorInv, StoreInv
  <2>2. Cardinality(StoreHolds) \in Nat /\ Cardinality(StoreHolds') \in Nat /\ StoreBound \in Nat
      BY <2>1, FS_CardinalityType, WebDoorAssumption DEF WebDoorInv, StoreInv
  <2> QED  BY <2>1, <2>2 DEF WebDoorInv, StoreInv
<1> QED  BY <1>1, <1>3 DEF WebDoorInv

(* Nothing of it is to be read again: it is refused, let go or closed.        *)
LEMMA NothingMoreRead ==
    ASSUME WebDoorInv, NEW c \in Conns, at'[c] \notin {"away", "backlog", "head", "serving", "reading", "spilling"},
           at'[c] = "answering" => closing'[c] /\ cur'[c] \in Requests,
           in'[c] \in Seq(Piece), todo'[c] \in Seq(Piece), got'[c] \in Nat, disk'[c] = 0, held'[c] = {}
    PROVE  ConnInv(c)' /\ Stored(c)' = 0
<1>1. ~Between(c)' /\ ~InBody(c)'
    BY DEF Between, InBody
<1>2. ComingInv(c)'
    BY <1>1 DEF ComingInv
<1>3. BodyInv(c)'
    BY <1>1 DEF BodyInv
<1>4. AgainInv(c)'
    BY DEF AgainInv
<1> QED  BY <1>2, <1>3, <1>4 DEF ConnInv, Stored

(* Where a connection holds no spill, and what it may then hold.              *)
LEMMA NoSpill ==
    ASSUME WebDoorInv, NEW c \in Conns, at[c] \notin {"serving", "answering"}
    PROVE  held[c] = {} /\ (at[c] # "spilling" => disk[c] = 0) /\ Stored(c) = 0
    BY DEF WebDoorInv, ConnInv, BodyInv, Stored

LEMMA CloseKeeps ==
    ASSUME WebDoorInv, NEW c \in Conns, Close(c)
    PROVE  WebDoorInv'
<1>1. /\ at' = [at EXCEPT ![c] = "closed"] /\ answered' = answered \ {c}
      /\ in' = [in EXCEPT ![c] = <<>>] /\ todo' = [todo EXCEPT ![c] = <<>>]
      /\ asked' = [asked EXCEPT ![c] = 0]
      /\ cur' = [cur EXCEPT ![c] = None] /\ got' = [got EXCEPT ![c] = 0]
      /\ disk' = [disk EXCEPT ![c] = 0] /\ held' = [held EXCEPT ![c] = {}]
      /\ ans' = [ans EXCEPT ![c] = Plain] /\ sent' = [sent EXCEPT ![c] = 0]
      /\ closing' = [closing EXCEPT ![c] = FALSE] /\ Tables
    BY DEF Close, LetGo, WebDoorInv
<1>2. Tables'
    BY <1>1 DEF Tables
<1>3. \A d \in Conns \ {c} : Quiet(d)
    BY <1>1 DEF Quiet, Tables
<1>4. /\ at'[c] = "closed" /\ in'[c] = <<>> /\ todo'[c] = <<>> /\ got'[c] = 0 /\ disk'[c] = 0 /\ held'[c] = {}
    BY <1>1 DEF Tables
<1>5. in'[c] \in Seq(Piece) /\ todo'[c] \in Seq(Piece) /\ got'[c] \in Nat
    BY <1>4
<1>6. ConnInv(c)' /\ Stored(c)' = 0
    BY <1>4, <1>5, NothingMoreRead
<1> QED  BY <1>2, <1>3, <1>6, OneMoves

(* A connection only comes to stand elsewhere.                                *)
Stands(c, where) ==
    /\ at' = [at EXCEPT ![c] = where]
    /\ UNCHANGED <<in, todo, asked, cur, got, disk, held, ans, sent, closing, answered>>

LEMMA StandsKeeps ==
    ASSUME WebDoorInv, NEW c \in Conns, NEW where, Stands(c, where), at[c] \notin {"serving", "answering", "spilling"},
           \/ where \in {"busy", "draining", "lingering", "closed"}
           \/ at[c] = "away" /\ where = "backlog"
           \/ at[c] = "backlog" /\ where = "head"
    PROVE  WebDoorInv'
<1>1. Tables /\ ConnInv(c) /\ held[c] = {} /\ disk[c] = 0
    BY NoSpill DEF WebDoorInv
<1>2. Tables' /\ at'[c] = where /\ \A d \in Conns \ {c} : Quiet(d)
    BY <1>1 DEF Tables, Quiet, Stands
<1>3. ConnInv(c)' /\ Stored(c)' = 0
  <2>1. CASE where \in {"busy", "draining", "lingering", "closed"}
    <3>1. in'[c] \in Seq(Piece) /\ todo'[c] \in Seq(Piece) /\ got'[c] \in Nat /\ disk'[c] = 0 /\ held'[c] = {}
        BY <1>1 DEF Stands, ConnInv, ComingInv, BodyInv
    <3> QED  BY <1>2, <2>1, <3>1, NothingMoreRead
  <2>2. CASE where \in {"backlog", "head"} /\ at[c] \in {"away", "backlog"}
    <3>1. Coming(c)' = Coming(c) /\ Between(c) /\ ~InBody(c)'
        BY <1>2, <2>2 DEF Stands, Coming, Between, InBody
    <3>2. ComingInv(c)'
        BY <1>1, <3>1 DEF Stands, ConnInv, ComingInv
    <3>3. BodyInv(c)'
        BY <1>1, <1>2, <2>2, <3>1 DEF Stands, ConnInv, BodyInv
    <3>4. AgainInv(c)'
        BY <1>1, <1>2, <2>2 DEF Stands, ConnInv, AgainInv
    <3> QED  BY <1>1, <3>2, <3>3, <3>4 DEF ConnInv, Stored, Stands
  <2> QED  BY <2>1, <2>2
<1> QED  BY <1>2, <1>3, OneMoves

(* The next piece, or a new request, comes after what was coming.             *)
LEMMA SendKeeps ==
    ASSUME WebDoorInv, NEW c \in Conns, Send(c)
    PROVE  WebDoorInv'
<1>1. Tables /\ ConnInv(c) /\ in[c] \in Seq(Piece) /\ todo[c] \in Seq(Piece)
    BY DEF WebDoorInv, ConnInv, ComingInv
<1>2. UNCHANGED <<at, cur, got, disk, held, ans, sent, closing, answered>>
    BY DEF Send, bodyVars, answerVars
<1>3. /\ in'[c] \in Seq(Piece) /\ todo'[c] \in Seq(Piece)
      /\ Coming(c)' = Coming(c) \/ \E r \in Requests : Coming(c)' = Coming(c) \o Units(r)
  <2>1. CASE /\ todo[c] # <<>> /\ in' = [in EXCEPT ![c] = Append(@, Head(todo[c]))]
             /\ todo' = [todo EXCEPT ![c] = Tail(@)]
    <3>1. in'[c] = Append(in[c], Head(todo[c])) /\ todo'[c] = Tail(todo[c])
        BY <1>1, <2>1 DEF Tables
    <3>2. /\ Append(in[c], Head(todo[c])) \in Seq(Piece) /\ Tail(todo[c]) \in Seq(Piece)
          /\ Append(in[c], Head(todo[c])) \o Tail(todo[c]) = in[c] \o todo[c]
        BY <1>1, <2>1, HeadMovesOver
    <3> QED  BY <3>1, <3>2 DEF Coming
  <2>2. ASSUME NEW r \in Requests, todo[c] = <<>>, in' = [in EXCEPT ![c] = Append(@, Head(Units(r)))],
               todo' = [todo EXCEPT ![c] = Tail(Units(r))]
        PROVE  /\ in'[c] \in Seq(Piece) /\ todo'[c] \in Seq(Piece)
               /\ Coming(c)' = Coming(c) \o Units(r)
    <3>1. in'[c] = Append(in[c], Head(Units(r))) /\ todo'[c] = Tail(Units(r))
        BY <1>1, <2>2 DEF Tables
    <3>2. Units(r) \in Seq(Piece) /\ Units(r) # <<>>
        BY PiecesOf
    <3>3. /\ Append(in[c], Head(Units(r))) \in Seq(Piece) /\ Tail(Units(r)) \in Seq(Piece)
          /\ Append(in[c], Head(Units(r))) \o Tail(Units(r)) = in[c] \o Units(r)
        BY <1>1, <3>2, HeadMovesOver
    <3>4. Coming(c) = in[c]
        BY <1>1, <2>2 DEF Coming
    <3> QED  BY <3>1, <3>3, <3>4 DEF Coming
  <2> QED  BY <2>1, <2>2 DEF Send
<1>4. Tables' /\ \A d \in Conns \ {c} : Quiet(d)
  <2>1. /\ DOMAIN in' = Conns /\ DOMAIN todo' = Conns /\ DOMAIN asked' = Conns
        /\ \A d \in Conns \ {c} : in'[d] = in[d] /\ todo'[d] = todo[d]
      BY <1>1 DEF Send, Tables
  <2> QED  BY <1>1, <1>2, <2>1 DEF Tables, Quiet
<1>5. ComingInv(c)'
  <2>1. (Between(c)' <=> Between(c)) /\ (InBody(c)' <=> InBody(c))
      BY <1>2 DEF Between, InBody
  <2>2. CASE Coming(c)' = Coming(c)
      BY <1>1, <1>2, <1>3, <2>1, <2>2 DEF ConnInv, ComingInv
  <2>3. ASSUME NEW r \in Requests, Coming(c)' = Coming(c) \o Units(r) PROVE ComingInv(c)'
    <3>1. Coming(c) \in Seq(Piece) /\ Units(r) \in Seq(Piece) /\ Units(r) # <<>> /\ Units(r)[1].is = "start"
        BY <1>1, PiecesOf DEF Coming
    <3>2. ASSUME Between(c) PROVE Framed(Coming(c) \o Units(r)) /\ NewAfter(Coming(c) \o Units(r), 0)
      <4>1. Framed(Coming(c)) /\ BodyAfter(Coming(c), 0, 0, FALSE)
          BY <1>1, <3>2 DEF ConnInv, ComingInv, NewAfter
      <4> QED  BY <3>1, <4>1, MoreIsFramed, BodyThenMore DEF NewAfter
    <3>3. ASSUME InBody(c) PROVE Framed(Coming(c) \o Units(r)) /\ RestAfter(Coming(c) \o Units(r), 0, cur[c], got[c])
      <4> DEFINE n == cur[c].bytes - got[c]
                 chunked == cur[c].framing = "chunked"
      <4>1. Framed(Coming(c)) /\ BodyAfter(Coming(c), 0, n, chunked)
          BY <1>1, <3>3 DEF ConnInv, ComingInv, RestAfter
      <4>2. n \in Nat /\ chunked \in BOOLEAN
          BY <1>1, <3>3, BytesAreNat DEF ConnInv, BodyInv
      <4> HIDE DEF n, chunked
      <4>3. BodyAfter(Coming(c) \o Units(r), 0, n, chunked)
          BY <3>1, <4>1, <4>2, BodyThenMore
      <4> QED  BY <3>1, <4>1, <4>3, MoreIsFramed DEF RestAfter, n, chunked
    <3> QED  BY <1>2, <1>3, <2>1, <2>3, <3>2, <3>3 DEF ComingInv
  <2> QED  BY <1>3, <2>2, <2>3
<1>6. BodyInv(c)' /\ Stored(c)' = Stored(c)
    BY <1>1, <1>2 DEF ConnInv, BodyInv, InBody, Stored
<1>7. AgainInv(c)'
    BY <1>1, <1>2 DEF ConnInv, AgainInv, IsWhole, Drained, Filled
<1> QED  BY <1>4, <1>5, <1>6, <1>7, OneMoves DEF ConnInv

(* An answer that closes the connection holds nothing of what was spilled.    *)
LEMMA UnreadKeeps ==
    ASSUME WebDoorInv, NEW c \in Conns, NEW r, Unread(c, r), at[c] \notin {"serving", "answering"},
           UNCHANGED <<permit, todo, asked>>, Tables', cur'[c] \in Requests, in'[c] \in Seq(Piece), got'[c] \in Nat,
           \A d \in Conns \ {c} : in'[d] = in[d] /\ cur'[d] = cur[d] /\ got'[d] = got[d]
    PROVE  WebDoorInv'
<1>1. /\ at' = [at EXCEPT ![c] = "answering"] /\ ans' = [ans EXCEPT ![c] = Plain]
      /\ sent' = [sent EXCEPT ![c] = 0] /\ closing' = [closing EXCEPT ![c] = TRUE]
      /\ disk' = [disk EXCEPT ![c] = 0] /\ UNCHANGED <<held, answered, todo>> /\ Tables
    BY DEF Unread, Reply, WebDoorInv
<1>2. at'[c] = "answering" /\ closing'[c] /\ disk'[c] = 0 /\ held'[c] = {} /\ todo'[c] \in Seq(Piece)
  <2>1. held[c] = {}
      BY NoSpill
  <2>2. todo[c] \in Seq(Piece)
      BY DEF WebDoorInv, ConnInv, ComingInv
  <2> QED  BY <1>1, <2>1, <2>2 DEF Tables
<1>3. \A d \in Conns \ {c} : Quiet(d)
    BY <1>1 DEF Quiet, Tables
<1>4. ConnInv(c)' /\ Stored(c)' = 0
    BY <1>2, NothingMoreRead
<1> QED  BY <1>3, <1>4, OneMoves

(* The body, if the request has one to be read, is at hand.                   *)
WholeOf(c, r) ==
    /\ in'[c] \in Seq(Piece) /\ Framed(in'[c] \o todo[c]) /\ NewAfter(in'[c] \o todo[c], 0)
    /\ r \in Requests /\ cur'[c] = r /\ got'[c] = r.bytes

LEMMA AdmitKeeps ==
    ASSUME WebDoorInv, NEW c \in Conns, NEW r, Admit(c, r), at[c] \in {"head", "reading"}, ~Spills(r), WholeOf(c, r),
           UNCHANGED <<permit, todo, asked>>, Tables',
           \A d \in Conns \ {c} : in'[d] = in[d] /\ cur'[d] = cur[d] /\ got'[d] = got[d]
    PROVE  WebDoorInv'
<1>1. Tables /\ UNCHANGED <<disk, held, answered, todo>> /\ held[c] = {} /\ disk[c] = 0 /\ todo[c] \in Seq(Piece)
  <2>1. UNCHANGED answered
      BY DEF Admit, Hand, Reply, answerVars
  <2> QED  BY <2>1, NoSpill DEF Admit, WebDoorInv, ConnInv, ComingInv
<1>2. /\ at'[c] \in {"serving", "answering"}
      /\ \A d \in Conns \ {c} : Quiet(d)
  <2>1. CASE r.admitted
    <3>1. at' = [at EXCEPT ![c] = "serving"] /\ UNCHANGED <<ans, sent, closing, answered>>
        BY <2>1 DEF Admit, Hand, answerVars
    <3> QED  BY <1>1, <3>1 DEF Quiet, Tables
  <2>2. CASE ~r.admitted
    <3>1. /\ at' = [at EXCEPT ![c] = "answering"] /\ ans' = [ans EXCEPT ![c] = Plain]
          /\ sent' = [sent EXCEPT ![c] = 0] /\ closing' = [closing EXCEPT ![c] = FALSE \/ ~r.keep]
          /\ UNCHANGED answered
        BY <2>2 DEF Admit, Reply
    <3> QED  BY <1>1, <3>1 DEF Quiet, Tables
  <2> QED  BY <2>1, <2>2
<1>3. ~InBody(c)' /\ Coming(c)' = in'[c] \o todo[c]
    BY <1>1, <1>2 DEF InBody, Coming
<1>4. ComingInv(c)'
    BY <1>1, <1>3 DEF ComingInv, WholeOf
<1>5. BodyInv(c)'
  <2>1. got'[c] \in Nat
      BY BytesAreNat DEF WholeOf
  <2> QED  BY <1>1, <1>2, <1>3, <2>1 DEF BodyInv, WholeOf
<1>6. AgainInv(c)' /\ Stored(c)' = 0
    BY <1>1, <1>2 DEF AgainInv, Stored
<1> QED  BY <1>2, <1>4, <1>5, <1>6, OneMoves DEF ConnInv

LEMMA ReadHeadKeeps ==
    ASSUME WebDoorInv, NEW c \in Conns, ReadHead(c)
    PROVE  WebDoorInv'
<1> DEFINE r == in[c][2].of
<1>1. /\ at[c] = "head" /\ Len(in[c]) >= 2 /\ in' = [in EXCEPT ![c] = SubSeq(@, 3, Len(@))]
      /\ cur' = [cur EXCEPT ![c] = r] /\ got' = [got EXCEPT ![c] = 0] /\ UNCHANGED <<permit, todo, asked>>
      /\ \/ (r.target = "bad" \/ Refused(r)) /\ Unread(c, r)
         \/ r.target = "good" /\ ~Refused(r) /\ r.framing = "none" /\ Admit(c, r)
         \/ /\ r.target = "good" /\ ~Refused(r) /\ r.framing # "none"
            /\ at' = [at EXCEPT ![c] = IF Spills(r) THEN "spilling" ELSE "reading"]
            /\ UNCHANGED <<disk, held, ans, sent, closing, answered>>
    BY DEF ReadHead, HeadIsIn, answerVars
<1>2. Tables /\ ConnInv(c) /\ in[c] \in Seq(Piece) /\ todo[c] \in Seq(Piece) /\ Coming(c) \in Seq(Piece)
    BY DEF WebDoorInv, ConnInv, ComingInv, Coming
<1>3. /\ in'[c] = SubSeq(in[c], 3, Len(in[c])) /\ cur'[c] = r /\ got'[c] = 0
      /\ \A d \in Conns \ {c} : in'[d] = in[d] /\ cur'[d] = cur[d] /\ got'[d] = got[d]
      /\ DOMAIN in' = Conns /\ DOMAIN cur' = Conns /\ DOMAIN got' = Conns
    BY <1>1, <1>2 DEF Tables
<1>4. /\ in'[c] \in Seq(Piece) /\ Left(in'[c] \o todo[c], Coming(c), 2)
      /\ Coming(c)[1] = in[c][1] /\ Coming(c)[2] = in[c][2]
    BY <1>1, <1>2, <1>3, TakenFromTheFront DEF Coming
<1>5. /\ Framed(Coming(c)) /\ NewAfter(Coming(c), 0) /\ Len(Coming(c)) >= 2 /\ Len(Coming(c)) \in Nat
  <2>1. Len(Coming(c)) = Len(in[c]) + Len(todo[c]) /\ Len(in[c]) \in Nat /\ Len(todo[c]) \in Nat
      BY <1>2, JoinedPieces DEF Coming
  <2>2. Between(c)
      BY <1>1 DEF Between
  <2>3. Len(Coming(c)) >= 2 /\ Len(Coming(c)) \in Nat
    <3>1. Len(in[c]) >= 2
        BY <1>1
    <3> DEFINE l == Len(in[c])
               m == Len(todo[c])
    <3>2. l \in Nat /\ m \in Nat /\ l >= 2 /\ Len(Coming(c)) = l + m
        BY <2>1, <3>1
    <3> HIDE DEF l, m
    <3> QED  BY <3>2
  <2> QED  BY <1>2, <2>2, <2>3 DEF ConnInv, ComingInv
<1>6. Coming(c)[1].is = "start"
  <2>1. LastOf(0, 0, FALSE) = 0
      BY DEF LastOf
  <2>2. 0 < Len(Coming(c)) => Coming(c)[0 + 1].is = "start"
      BY <1>5, <2>1 DEF NewAfter, BodyAfter
  <2> QED  BY <1>5, <2>2
<1>7. Coming(c)[2].is = "head"
  <2>1. 1 \in 1 .. Len(Coming(c)) /\ 1 + 1 = 2
      BY <1>5
  <2> QED  BY <1>5, <1>6, <2>1 DEF Framed
<1>8. r \in Requests /\ RestAfter(Coming(c), 2, r, 0)
  <2>1. 2 \in 1 .. Len(Coming(c)) /\ Coming(c)[2].of = r
      BY <1>4, <1>5
  <2> QED  BY <1>5, <1>7, <2>1 DEF Framed
<1> HIDE DEF r
<1>9. Framed(in'[c] \o todo[c])
    BY <1>2, <1>4, <1>5, LeftIsFramed
<1>10. RestAfter(in'[c] \o todo[c], 0, r, 0)
  <2> DEFINE n == r.bytes - 0
             chunked == r.framing = "chunked"
  <2>1. n \in Nat /\ chunked \in BOOLEAN /\ BodyAfter(Coming(c), 0 + 2, n, chunked)
      BY <1>8, BytesAreNat DEF RestAfter
  <2> HIDE DEF n, chunked
  <2>2. BodyAfter(in'[c] \o todo[c], 0, n, chunked)
      BY <1>2, <1>4, <2>1, BodyOfLeft
  <2> QED  BY <2>2 DEF RestAfter, n, chunked
<1>11. CASE Unread(c, r)
  <2>1. Tables'
      BY <1>1, <1>2, <1>3, <1>11 DEF Tables, Unread, Reply
  <2> QED  BY <1>1, <1>3, <1>4, <1>8, <1>11, <2>1, UnreadKeeps
<1>12. CASE r.framing = "none" /\ Admit(c, r)
  <2>1. Tables'
      BY <1>1, <1>2, <1>3, <1>12 DEF Tables, Admit, Hand, Reply, answerVars
  <2>2. r.bytes = 0 /\ ~Spills(r)
      BY <1>8, <1>12, WebDoorAssumption DEF Spills
  <2>3. NewAfter(in'[c] \o todo[c], 0)
    <3>1. r.bytes - 0 = 0 /\ (r.framing = "chunked") = FALSE
        BY <1>12, <2>2
    <3> QED  BY <1>10, <3>1 DEF RestAfter, NewAfter
  <2>4. WholeOf(c, r)
      BY <1>3, <1>4, <1>8, <1>9, <2>2, <2>3 DEF WholeOf
  <2> QED  BY <1>1, <1>3, <1>12, <2>1, <2>2, <2>4, AdmitKeeps
<1>13. CASE /\ ~Refused(r) /\ r.framing # "none"
            /\ at' = [at EXCEPT ![c] = IF Spills(r) THEN "spilling" ELSE "reading"]
            /\ UNCHANGED <<disk, held, ans, sent, closing, answered>>
  <2>1. Tables' /\ \A d \in Conns \ {c} : Quiet(d)
      BY <1>1, <1>2, <1>3, <1>13 DEF Tables, Quiet
  <2>2. at'[c] = (IF Spills(r) THEN "spilling" ELSE "reading") /\ held'[c] = {} /\ disk'[c] = 0
      BY <1>1, <1>2, <1>13, NoSpill DEF Tables
  <2>3. ~Between(c)' /\ InBody(c)' /\ Coming(c)' = in'[c] \o todo[c] /\ todo'[c] = todo[c]
      BY <1>1, <2>2 DEF Between, InBody, Coming
  <2>4. ComingInv(c)'
      BY <1>2, <1>3, <1>4, <1>9, <1>10, <2>3 DEF ComingInv
  <2>5. r.bytes \in Nat /\ (Spills(r) => r.framing # "chunked")
      BY <1>8, <1>13, BytesAreNat DEF Refused
  <2>6. BodyInv(c)'
      BY <1>3, <1>8, <2>2, <2>3, <2>5 DEF BodyInv
  <2>7. AgainInv(c)' /\ Stored(c)' = 0
      BY <2>2 DEF AgainInv, Stored
  <2> QED  BY <2>1, <2>4, <2>6, <2>7, OneMoves DEF ConnInv
<1> QED  BY <1>1, <1>11, <1>12, <1>13

(* What is taken of a body: the first piece of it that came.                  *)
LEMMA TakeTakes ==
    ASSUME WebDoorInv, NEW c \in Conns, Take(c), InBody(c)
    PROVE  LET n == cur[c].bytes - got[c]
               chunked == cur[c].framing = "chunked"
               rest == in'[c] \o todo[c]
           IN  /\ n \in Nat /\ in'[c] \in Seq(Piece) /\ Framed(rest) /\ DOMAIN in' = Conns
               /\ \A d \in Conns \ {c} : in'[d] = in[d]
               /\ n > 0 => Head(in[c]).is = "byte" /\ BodyAfter(rest, 0, n - 1, chunked)
               /\ n = 0 /\ chunked => Head(in[c]).is = "end" /\ NewAfter(rest, 0)
               /\ n = 0 /\ ~chunked => Head(in[c]).is = "start"
<1> DEFINE n == cur[c].bytes - got[c]
           chunked == cur[c].framing = "chunked"
           rest == in'[c] \o todo[c]
<1>1. in[c] # <<>> /\ in' = [in EXCEPT ![c] = Tail(in[c])]
    BY DEF Take
<1>2. Tables /\ ConnInv(c) /\ in[c] \in Seq(Piece) /\ todo[c] \in Seq(Piece) /\ Coming(c) \in Seq(Piece)
    BY DEF WebDoorInv, ConnInv, ComingInv, Coming
<1>3. in'[c] = Tail(in[c]) /\ DOMAIN in' = Conns /\ \A d \in Conns \ {c} : in'[d] = in[d]
    BY <1>1, <1>2 DEF Tables
<1>4. in'[c] \in Seq(Piece) /\ Left(rest, Coming(c), 1) /\ Coming(c)[1] = Head(in[c])
    BY <1>1, <1>2, <1>3, TakenFromTheFront DEF Coming
<1>5. Framed(Coming(c)) /\ BodyAfter(Coming(c), 0, n, chunked)
    BY <1>2 DEF ConnInv, ComingInv, RestAfter
<1>6. n \in Nat /\ chunked \in BOOLEAN
    BY <1>2, BytesAreNat DEF ConnInv, BodyInv
<1> HIDE DEF n, chunked, rest
<1>7. Framed(rest)
    BY <1>2, <1>4, <1>5, LeftIsFramed
<1>8. /\ n > 0 => Coming(c)[1].is = "byte" /\ BodyAfter(rest, 0, n - 1, chunked)
      /\ n = 0 /\ chunked => Coming(c)[1].is = "end" /\ NewAfter(rest, 0)
      /\ n = 0 /\ ~chunked => Coming(c)[1].is = "start"
    BY <1>2, <1>4, <1>5, <1>6, NextComes
<1>9. /\ n \in Nat /\ in'[c] \in Seq(Piece) /\ Framed(rest) /\ DOMAIN in' = Conns
      /\ \A d \in Conns \ {c} : in'[d] = in[d]
      /\ n > 0 => Head(in[c]).is = "byte" /\ BodyAfter(rest, 0, n - 1, chunked)
      /\ n = 0 /\ chunked => Head(in[c]).is = "end" /\ NewAfter(rest, 0)
      /\ n = 0 /\ ~chunked => Head(in[c]).is = "start"
    BY <1>3, <1>4, <1>6, <1>7, <1>8
<1> QED  BY <1>9 DEF n, chunked, rest

(* A unit more of a body that is not yet whole.                               *)
LEMMA UnitKeeps ==
    ASSUME WebDoorInv, NEW c \in Conns, Take(c), InBody(c), got[c] < cur[c].bytes, got' = [got EXCEPT ![c] = @ + 1],
           \/ at[c] = "spilling" /\ disk' = [disk EXCEPT ![c] = @ + 1]
           \/ at[c] = "reading" /\ UNCHANGED disk,
           UNCHANGED <<at, todo, asked, cur, held, ans, sent, closing, answered>>
    PROVE  WebDoorInv'
<1> DEFINE n == cur[c].bytes - got[c]
           chunked == cur[c].framing = "chunked"
           rest == in'[c] \o todo[c]
<1>1. Tables /\ ConnInv(c) /\ cur[c].bytes \in Nat /\ got[c] \in Nat /\ disk[c] \in Nat /\ todo[c] \in Seq(Piece)
    BY BytesAreNat DEF WebDoorInv, ConnInv, ComingInv, BodyInv
<1>2. n > 0
    BY <1>1
<1>3. /\ in'[c] \in Seq(Piece) /\ Framed(rest) /\ DOMAIN in' = Conns
      /\ \A d \in Conns \ {c} : in'[d] = in[d]
      /\ BodyAfter(rest, 0, n - 1, chunked)
    BY <1>2, TakeTakes
<1>4. got'[c] = got[c] + 1 /\ DOMAIN got' = Conns /\ \A d \in Conns \ {c} : got'[d] = got[d]
    BY <1>1 DEF Tables
<1>5. /\ at[c] = "spilling" => disk'[c] = disk[c] + 1
      /\ at[c] = "reading" => disk'[c] = disk[c]
      /\ DOMAIN disk' = Conns /\ \A d \in Conns \ {c} : disk'[d] = disk[d]
    BY <1>1 DEF Tables
<1>6. Tables' /\ \A d \in Conns \ {c} : Quiet(d)
    BY <1>1, <1>3, <1>4, <1>5 DEF Tables, Quiet
<1>7. cur[c].bytes - got'[c] = n - 1
    BY <1>1, <1>4
<1>8. Coming(c)' = rest /\ ~Between(c)' /\ InBody(c)'
    BY DEF Coming, Between, InBody
<1>9. ComingInv(c)'
  <2>1. RestAfter(rest, 0, cur[c], got'[c])
      BY <1>3, <1>7 DEF RestAfter
  <2> HIDE DEF rest
  <2> QED  BY <1>1, <1>3, <1>8, <2>1 DEF ComingInv
<1>10. BodyInv(c)'
  <2>1. got'[c] \in Nat /\ got'[c] <= cur[c].bytes /\ disk'[c] \in Nat
      BY <1>1, <1>4, <1>5 DEF InBody
  <2>2. at[c] = "spilling" => disk'[c] = got'[c]
      BY <1>1, <1>4, <1>5 DEF ConnInv, BodyInv
  <2> QED  BY <1>1, <1>5, <1>8, <2>1, <2>2 DEF ConnInv, BodyInv, InBody
<1>11. AgainInv(c)' /\ Stored(c)' = 0
  <2>1. held[c] = {} /\ at[c] \in {"spilling", "reading"}
      BY NoSpill DEF InBody
  <2> QED  BY <2>1 DEF AgainInv, Stored
<1> QED  BY <1>6, <1>9, <1>10, <1>11, OneMoves DEF ConnInv

LEMMA SpillUnitKeeps ==
    ASSUME WebDoorInv, NEW c \in Conns, SpillUnit(c)
    PROVE  WebDoorInv'
    BY UnitKeeps DEF SpillUnit, answerVars, InBody

LEMMA ReadUnitKeeps ==
    ASSUME WebDoorInv, NEW c \in Conns, ReadUnit(c)
    PROVE  WebDoorInv'
<1>1. /\ at[c] = "reading" /\ Head(in[c]).is = "byte" /\ Take(c) /\ InBody(c)
      /\ UNCHANGED <<permit, todo, asked, gone, cur>>
    BY DEF ReadUnit, InBody
<1>2. Tables /\ ConnInv(c) /\ cur[c] \in Requests /\ cur[c].bytes \in Nat /\ got[c] \in Nat
    BY <1>1, BytesAreNat DEF WebDoorInv, ConnInv, BodyInv
<1>3. CASE got[c] < MaxBody
  <2>1. /\ got' = [got EXCEPT ![c] = @ + 1]
        /\ UNCHANGED <<at, disk, held, ans, sent, closing, answered>>
      BY <1>3 DEF ReadUnit, answerVars
  <2>2. got[c] < cur[c].bytes
    <3> DEFINE n == cur[c].bytes - got[c]
               chunked == cur[c].framing = "chunked"
               rest == in'[c] \o todo[c]
    <3>1. n \in Nat /\ (n = 0 /\ ~chunked => Head(in[c]).is = "start")
        BY <1>1, TakeTakes
    <3>2. n = 0 /\ chunked => Head(in[c]).is = "end"
        BY <1>1, TakeTakes
    <3> QED  BY <1>1, <1>2, <3>1, <3>2
  <2> QED  BY <1>1, <2>1, <2>2, UnitKeeps
<1>4. CASE ~(got[c] < MaxBody)
  <2>1. Unread(c, cur[c]) /\ UNCHANGED got
      BY <1>4 DEF ReadUnit
  <2>2. in'[c] \in Seq(Piece) /\ DOMAIN in' = Conns /\ \A d \in Conns \ {c} : in'[d] = in[d]
      BY <1>1, TakeTakes
  <2>3. Tables'
      BY <1>1, <1>2, <2>1, <2>2 DEF Tables, Unread, Reply
  <2>4. at[c] \notin {"serving", "answering"} /\ cur'[c] \in Requests /\ got'[c] \in Nat
      BY <1>1, <1>2, <2>1
  <2> QED  BY <1>1, <2>1, <2>2, <2>3, <2>4, UnreadKeeps
<1> QED  BY <1>3, <1>4

LEMMA BodyIsInKeeps ==
    ASSUME WebDoorInv, NEW c \in Conns, BodyIsIn(c)
    PROVE  WebDoorInv'
<1> DEFINE n == cur[c].bytes - got[c]
           chunked == cur[c].framing = "chunked"
           rest == in'[c] \o todo[c]
<1>1. /\ at[c] = "reading" /\ Admit(c, cur[c]) /\ InBody(c)
      /\ UNCHANGED <<permit, todo, asked, gone, cur, got>>
    BY DEF BodyIsIn, InBody
<1>2. /\ Tables /\ ConnInv(c) /\ cur[c] \in Requests /\ cur[c].bytes \in Nat /\ got[c] \in Nat
      /\ in[c] \in Seq(Piece) /\ ~Spills(cur[c])
    BY <1>1, BytesAreNat DEF WebDoorInv, ConnInv, BodyInv, ComingInv
<1>3. /\ in'[c] \in Seq(Piece) /\ Framed(rest) /\ NewAfter(rest, 0) /\ got[c] = cur[c].bytes
      /\ DOMAIN in' = Conns /\ \A d \in Conns \ {c} : in'[d] = in[d]
  <2>1. CASE cur[c].framing = "length" /\ got[c] = cur[c].bytes /\ UNCHANGED in
    <3>1. Framed(Coming(c)) /\ RestAfter(Coming(c), 0, cur[c], got[c])
        BY <1>1, <1>2 DEF ConnInv, ComingInv
    <3>2. n = 0 /\ chunked = FALSE /\ rest = Coming(c)
        BY <1>2, <2>1 DEF Coming
    <3>3. NewAfter(rest, 0)
        BY <3>1, <3>2 DEF RestAfter, NewAfter
    <3> QED  BY <1>2, <2>1, <3>1, <3>2, <3>3 DEF Tables
  <2>2. CASE cur[c].framing = "chunked" /\ Take(c) /\ Head(in[c]).is = "end"
    <3>1. /\ n \in Nat /\ in'[c] \in Seq(Piece) /\ Framed(rest) /\ DOMAIN in' = Conns
          /\ \A d \in Conns \ {c} : in'[d] = in[d]
          /\ n > 0 => Head(in[c]).is = "byte"
          /\ n = 0 /\ chunked => NewAfter(rest, 0)
        BY <1>1, <2>2, TakeTakes
    <3>2. n = 0
        BY <2>2, <3>1
    <3>3. got[c] = cur[c].bytes
        BY <1>2, <3>2
    <3> QED  BY <2>2, <3>1, <3>2, <3>3
  <2> QED  BY <2>1, <2>2 DEF BodyIsIn
<1>4. Tables'
  <2>1. DOMAIN at' = Conns /\ DOMAIN ans' = Conns /\ DOMAIN sent' = Conns /\ DOMAIN closing' = Conns
      BY <1>1, <1>2 DEF Admit, Hand, Reply, answerVars, Tables
  <2> QED  BY <1>1, <1>2, <1>3, <2>1 DEF Tables, Admit
<1>5. WholeOf(c, cur[c])
    BY <1>1, <1>2, <1>3 DEF WholeOf
<1> QED  BY <1>1, <1>2, <1>3, <1>4, <1>5, AdmitKeeps

LEMMA BodyCutKeeps ==
    ASSUME WebDoorInv, NEW c \in Conns, BodyCut(c)
    PROVE  WebDoorInv'
<1>1. /\ at[c] \in {"spilling", "reading"} /\ Unread(c, cur[c]) /\ InBody(c)
      /\ UNCHANGED <<permit, in, todo, asked, cur, got>>
    BY DEF BodyCut, InBody, clientVars
<1>2. Tables /\ cur[c] \in Requests /\ got[c] \in Nat /\ in[c] \in Seq(Piece)
    BY <1>1 DEF WebDoorInv, ConnInv, ComingInv, BodyInv
<1>3. Tables'
    BY <1>1, <1>2 DEF Tables, Unread, Reply
<1> QED  BY <1>1, <1>2, <1>3, UnreadKeeps

(* A whole spill is held while the store has room for it: it was no part of   *)
(* what is held, and is all that is new.                                      *)
LEMMA HoldSpillKeeps ==
    ASSUME WebDoorInv, NEW c \in Conns, HoldSpill(c)
    PROVE  WebDoorInv'
<1>1. /\ at[c] = "spilling" /\ got[c] = cur[c].bytes /\ UNCHANGED <<permit, in, todo, asked, gone, cur, got>>
    BY DEF HoldSpill, clientVars
<1>2. /\ Tables /\ ConnInv(c) /\ cur[c] \in Requests /\ cur[c].bytes \in Nat /\ got[c] \in Nat /\ in[c] \in Seq(Piece)
      /\ Spills(cur[c]) /\ cur[c].framing # "chunked" /\ disk[c] = got[c] /\ held[c] = {} /\ InBody(c)
    BY <1>1, BytesAreNat DEF WebDoorInv, ConnInv, BodyInv, ComingInv, InBody
<1>3. CASE ~(Cardinality(StoreHolds) + got[c] <= StoreBound)
  <2>1. Unread(c, cur[c])
      BY <1>3 DEF HoldSpill
  <2>2. Tables'
      BY <1>1, <1>2, <2>1 DEF Tables, Unread, Reply
  <2> QED  BY <1>1, <1>2, <2>1, <2>2, UnreadKeeps
<1>4. CASE Cardinality(StoreHolds) + got[c] <= StoreBound
  <2>1. /\ held' = [held EXCEPT ![c] = {"door"}] /\ at' = [at EXCEPT ![c] = "serving"]
        /\ UNCHANGED <<disk, ans, sent, closing, answered>>
      BY <1>4 DEF HoldSpill, Hand, answerVars
  <2>2. Tables' /\ at'[c] = "serving" /\ held'[c] = {"door"} /\ \A d \in Conns \ {c} : Quiet(d)
      BY <1>1, <1>2, <2>1 DEF Tables, Quiet
  <2>3. ComingInv(c)'
    <3>1. Framed(Coming(c)) /\ RestAfter(Coming(c), 0, cur[c], got[c])
        BY <1>2 DEF ConnInv, ComingInv
    <3>2. cur[c].bytes - got[c] = 0 /\ (cur[c].framing = "chunked") = FALSE
        BY <1>1, <1>2
    <3>3. NewAfter(Coming(c), 0)
        BY <3>1, <3>2 DEF RestAfter, NewAfter
    <3>4. ~InBody(c)' /\ Coming(c)' = Coming(c)
        BY <1>1, <2>2 DEF InBody, Coming
    <3> QED  BY <1>1, <1>2, <3>1, <3>3, <3>4 DEF ConnInv, ComingInv
  <2>4. BodyInv(c)' /\ AgainInv(c)'
      BY <1>1, <1>2, <2>1, <2>2 DEF BodyInv, InBody, AgainInv
  <2>5. \A d \in Conns \ {c} : ConnInv(d)' /\ Stored(d)' = Stored(d)
      BY <2>2, QuietStays DEF WebDoorInv
  <2>6. Stored(c)' = got[c]
      BY <1>2, <2>1, <2>2 DEF Stored
  <2> DEFINE new == {c} \X (1 .. got[c])
  <2>7. StoreHolds' \subseteq StoreHolds \cup new
    <3> SUFFICES ASSUME NEW d \in Conns, NEW i \in 1 .. Stored(d)'
                 PROVE  <<d, i>> \in StoreHolds \cup new
        BY DEF StoreHolds
    <3>1. CASE d = c
        BY <2>6, <3>1
    <3>2. CASE d # c
        BY <2>5, <3>2 DEF StoreHolds
    <3> QED  BY <3>1, <3>2
  <2>8. IsFiniteSet(new) /\ Cardinality(new) = got[c]
    <3>1. IsFiniteSet({c}) /\ Cardinality({c}) = 1
        BY FS_Singleton
    <3>2. IsFiniteSet(1 .. got[c]) /\ Cardinality(1 .. got[c]) = got[c]
        BY <1>2, FS_Interval
    <3>3. IsFiniteSet(new) /\ Cardinality(new) = 1 * got[c]
        BY <3>1, <3>2, FS_Product, ZenonT(60)
    <3> QED  BY <1>2, <3>3
  <2> HIDE DEF new
  <2>9. IsFiniteSet(StoreHolds) /\ Cardinality(StoreHolds) \in Nat /\ StoreBound \in Nat
      BY FS_CardinalityType, WebDoorAssumption DEF WebDoorInv, StoreInv
  <2>10. /\ IsFiniteSet(StoreHolds \cup new) /\ Cardinality(StoreHolds \cap new) \in Nat
         /\ Cardinality(StoreHolds \cup new) = Cardinality(StoreHolds) + Cardinality(new) - Cardinality(StoreHolds \cap new)
      BY <2>8, <2>9, FS_Union, FS_Intersection, FS_CardinalityType
  <2>11. IsFiniteSet(StoreHolds') /\ Cardinality(StoreHolds') <= Cardinality(StoreHolds \cup new) /\ Cardinality(StoreHolds') \in Nat
      BY <2>7, <2>10, FS_Subset, FS_CardinalityType
  <2>12. StoreInv'
    <3>1. Cardinality(StoreHolds \cup new) <= Cardinality(StoreHolds) + got[c]
        BY <1>2, <2>8, <2>9, <2>10
    <3>2. Cardinality(StoreHolds \cup new) \in Nat
        BY <2>10, FS_CardinalityType
    <3>3. Cardinality(StoreHolds') <= StoreBound
        BY <1>2, <1>4, <2>9, <2>11, <3>1, <3>2
    <3> QED  BY <2>11, <3>3 DEF StoreInv
  <2> QED  BY <2>2, <2>3, <2>4, <2>5, <2>12 DEF WebDoorInv, ConnInv
<1> QED  BY <1>3, <1>4

LEMMA AnswerBuiltKeeps ==
    ASSUME WebDoorInv, NEW c \in Conns, AnswerBuilt(c)
    PROVE  WebDoorInv'
<1>1. PICK a \in Answers : Reply(c, cur[c], a, FALSE)
    BY DEF AnswerBuilt
<1>2. PICK h \in {{}, {"answer"}} :
          /\ h # {} => held[c] # {}
          /\ held' = [held EXCEPT ![c] = h]
          /\ disk' = [disk EXCEPT ![c] = IF h = {} THEN 0 ELSE @]
    BY DEF AnswerBuilt
<1>3. /\ at[c] = "serving" /\ UNCHANGED <<in, todo, asked, cur, got, answered>>
      /\ at' = [at EXCEPT ![c] = "answering"] /\ ans' = [ans EXCEPT ![c] = a] /\ sent' = [sent EXCEPT ![c] = 0]
      /\ closing' = [closing EXCEPT ![c] = FALSE \/ ~cur[c].keep]
    BY <1>1 DEF AnswerBuilt, Reply, clientVars
<1>4. Tables /\ ConnInv(c) /\ disk[c] \in Nat
    BY DEF WebDoorInv, ConnInv, BodyInv
<1>5. /\ Tables' /\ at'[c] = "answering" /\ held'[c] = h /\ disk'[c] = (IF h = {} THEN 0 ELSE disk[c])
      /\ \A d \in Conns \ {c} : Quiet(d)
    BY <1>2, <1>3, <1>4 DEF Tables, Quiet
<1>6. ComingInv(c)'
  <2>1. Between(c) /\ ~InBody(c)' /\ Coming(c)' = Coming(c)
      BY <1>3, <1>5 DEF Between, InBody, Coming
  <2> QED  BY <1>3, <1>4, <2>1 DEF ConnInv, ComingInv
<1>7. BodyInv(c)'
    BY <1>3, <1>4, <1>5 DEF ConnInv, BodyInv, InBody
<1>8. AgainInv(c)' /\ Stored(c)' = 0
    BY <1>5 DEF AgainInv, Stored
<1> QED  BY <1>5, <1>6, <1>7, <1>8, OneMoves DEF ConnInv

LEMMA WriteUnitKeeps ==
    ASSUME WebDoorInv, NEW c \in Conns, WriteUnit(c)
    PROVE  WebDoorInv'
<1>1. /\ at[c] = "answering" /\ sent' = [sent EXCEPT ![c] = @ + 1]
      /\ UNCHANGED <<at, in, todo, asked, cur, got, disk, held, ans, closing, answered>>
    BY DEF WriteUnit, clientVars, bodyVars
<1>2. Tables /\ ConnInv(c)
    BY DEF WebDoorInv
<1>3. Tables' /\ \A d \in Conns \ {c} : Quiet(d)
    BY <1>1, <1>2 DEF Tables, Quiet
<1>4. ComingInv(c)'
  <2>1. Coming(c)' = Coming(c) /\ (Between(c)' <=> Between(c)) /\ (InBody(c)' <=> InBody(c))
      BY <1>1 DEF Coming, Between, InBody
  <2> QED  BY <1>1, <1>2, <2>1 DEF ConnInv, ComingInv
<1>5. BodyInv(c)' /\ AgainInv(c)' /\ Stored(c)' = Stored(c)
    BY <1>1, <1>2 DEF ConnInv, BodyInv, AgainInv, InBody, Stored
<1> QED  BY <1>3, <1>4, <1>5, OneMoves DEF ConnInv

LEMMA AnswerEndsKeeps ==
    ASSUME WebDoorInv, NEW c \in Conns, AnswerEnds(c)
    PROVE  WebDoorInv'
<1>1. CASE closing[c] /\ Close(c)
    BY <1>1, CloseKeeps
<1>2. CASE ~closing[c]
  <2>1. /\ at[c] = "answering" /\ IsWhole(c)
        /\ at' = [at EXCEPT ![c] = "head"] /\ answered' = answered \cup {c}
        /\ cur' = [cur EXCEPT ![c] = None] /\ got' = [got EXCEPT ![c] = 0]
        /\ held' = [held EXCEPT ![c] = {}] /\ disk' = [disk EXCEPT ![c] = 0]
        /\ UNCHANGED <<in, todo, asked, ans, sent, closing>>
      BY <1>2 DEF AnswerEnds, clientVars
  <2>2. Tables /\ ConnInv(c)
      BY DEF WebDoorInv
  <2>3. /\ Tables' /\ at'[c] = "head" /\ got'[c] = 0 /\ held'[c] = {} /\ disk'[c] = 0
        /\ \A d \in Conns \ {c} : Quiet(d)
      BY <2>1, <2>2 DEF Tables, Quiet
  <2>4. ComingInv(c)'
    <3>1. Between(c) /\ ~InBody(c)' /\ Coming(c)' = Coming(c)
        BY <1>2, <2>1, <2>3 DEF Between, InBody, Coming
    <3> QED  BY <2>1, <2>2, <3>1 DEF ConnInv, ComingInv
  <2>5. BodyInv(c)' /\ Stored(c)' = 0
      BY <2>3 DEF BodyInv, InBody, Stored
  <2>6. AgainInv(c)'
      BY <2>1, <2>3 DEF AgainInv, IsWhole, Drained, Filled
  <2> QED  BY <2>3, <2>4, <2>5, <2>6, OneMoves DEF ConnInv
<1> QED  BY <1>1, <1>2 DEF AnswerEnds

LEMMA WebDoorStarts == DoorInit => WebDoorInv
<1> SUFFICES ASSUME DoorInit
             PROVE  WebDoorInv
    OBVIOUS
<1>1. Tables
    BY DEF DoorInit, Tables
<1>2. ASSUME NEW c \in Conns PROVE ConnInv(c) /\ Stored(c) = 0
  <2>1. /\ at[c] = "away" /\ in[c] = <<>> /\ todo[c] = <<>> /\ got[c] = 0 /\ disk[c] = 0 /\ held[c] = {} /\ answered = {}
      BY DEF DoorInit
  <2>2. <<>> \in Seq(Piece) /\ <<>> \o <<>> = <<>> /\ Len(<<>>) = 0
      OBVIOUS
  <2>3. Framed(Coming(c))
      BY <2>1, <2>2 DEF Coming, Framed
  <2>4. NewAfter(Coming(c), 0)
    <3>1. LastOf(0, 0, FALSE) = 0 /\ \A j \in 0 + 1 .. 0 + 0 : FALSE
        BY DEF LastOf
    <3> DEFINE p == LastOf(0, 0, FALSE)
               l == Len(Coming(c))
    <3>2. l = 0 /\ p = 0
        BY <2>1, <2>2, <3>1 DEF Coming
    <3> HIDE DEF p, l
    <3>4. p <= l /\ ~(p < l)
        BY <3>2
    <3>3. LastOf(0, 0, FALSE) <= Len(Coming(c)) /\ ~(LastOf(0, 0, FALSE) < Len(Coming(c)))
        BY <3>4 DEF p, l
    <3> QED  BY <3>1, <3>3 DEF NewAfter, BodyAfter
  <2>5. ComingInv(c)
      BY <2>1, <2>2, <2>3, <2>4 DEF ComingInv, InBody
  <2> QED  BY <2>1, <2>5 DEF ConnInv, BodyInv, AgainInv, InBody, Stored
<1>3. StoreHolds = {}
    BY <1>2 DEF StoreHolds
<1>4. StoreInv
    BY <1>3, FS_EmptySet, WebDoorAssumption DEF StoreInv
<1> QED  BY <1>1, <1>2, <1>4 DEF WebDoorInv

LEMMA WebDoorSteps == WebDoorInv /\ [DoorNext]_doorVars => WebDoorInv'
<1> SUFFICES ASSUME WebDoorInv, [DoorNext]_doorVars
             PROVE  WebDoorInv'
    OBVIOUS
<1>1. CASE /\ UNCHANGED <<in, todo, asked, cur, got, disk, held, ans, sent, closing, answered>>
           /\ DOMAIN at' = Conns /\ \A d \in Conns : at'[d] = at[d]
  <2>1. Tables' /\ \A d \in Conns : Quiet(d)
      BY <1>1 DEF WebDoorInv, Tables, Quiet
  <2>2. \A d \in Conns : ConnInv(d)' /\ Stored(d)' = Stored(d)
      BY <2>1, QuietStays DEF WebDoorInv
  <2>3. StoreHolds' = StoreHolds
      BY <2>2 DEF StoreHolds
  <2> QED  BY <2>1, <2>2, <2>3 DEF WebDoorInv, StoreInv
<1>2. CASE UNCHANGED doorVars
    BY <1>1, <1>2 DEF WebDoorInv, Tables, doorVars, clientVars, bodyVars, answerVars
<1>3. CASE AcceptFails
  <2>1. ASSUME NEW c \in gone, at[c] = "backlog", at' = [at EXCEPT ![c] = "closed"] PROVE WebDoorInv'
    <3>1. CASE c \in Conns
      <4>1. Stands(c, "closed")
          BY <1>3, <2>1 DEF AcceptFails, Stands, clientVars, bodyVars, answerVars
      <4> QED  BY <2>1, <3>1, <4>1, StandsKeeps
    <3>2. CASE c \notin Conns
      <4>1. DOMAIN at' = Conns /\ \A d \in Conns : at'[d] = at[d]
          BY <2>1, <3>2 DEF WebDoorInv, Tables
      <4>2. UNCHANGED <<in, todo, asked, cur, got, disk, held, ans, sent, closing, answered>>
          BY <1>3 DEF AcceptFails, clientVars, bodyVars, answerVars
      <4> QED  BY <1>1, <4>1, <4>2
    <3> QED  BY <3>1, <3>2
  <2>2. CASE UNCHANGED at
      BY <1>1, <1>3, <2>2 DEF WebDoorInv, Tables, AcceptFails, clientVars, bodyVars, answerVars
  <2> QED  BY <1>3, <2>1, <2>2 DEF AcceptFails
<1>4. CASE BackOff
    BY <1>1, <1>4 DEF WebDoorInv, Tables, BackOff, clientVars, bodyVars, answerVars
<1>5. ASSUME NEW c \in Conns, Connect(c) PROVE WebDoorInv'
  <2>1. Stands(c, "backlog") /\ at[c] = "away"
      BY <1>5 DEF Connect, Stands, clientVars, bodyVars, answerVars
  <2> QED  BY <2>1, StandsKeeps
<1>6. ASSUME NEW c \in Conns, ClientHangsUp(c) PROVE WebDoorInv'
    BY <1>1, <1>6 DEF WebDoorInv, Tables, ClientHangsUp, bodyVars, answerVars
<1>7. ASSUME NEW c \in Conns, AcceptNext(c) PROVE WebDoorInv'
  <2>1. (Stands(c, "head") \/ Stands(c, "busy")) /\ at[c] = "backlog"
      BY <1>7 DEF AcceptNext, Stands, clientVars, bodyVars, answerVars
  <2> QED  BY <2>1, StandsKeeps
<1>8. ASSUME NEW c \in Conns, Refuse503(c) PROVE WebDoorInv'
  <2>1. Stands(c, "draining") /\ at[c] = "busy"
      BY <1>8 DEF Refuse503, Stands, clientVars, bodyVars, answerVars
  <2> QED  BY <2>1, StandsKeeps
<1>9. ASSUME NEW c \in Conns, HeadLate(c) PROVE WebDoorInv'
  <2>1. at[c] = "head" /\ (Stands(c, "lingering") \/ Close(c))
      BY <1>9 DEF HeadLate, Stands, clientVars, bodyVars, answerVars
  <2> QED  BY <2>1, StandsKeeps, CloseKeeps
<1>10. ASSUME NEW c \in Conns, DoorStep(c) PROVE WebDoorInv'
  <2>1. CASE Lingered(c) \/ HeadLost(c) \/ Abandon(c) \/ AnswerBreaks(c)
      BY <2>1, CloseKeeps DEF Lingered, HeadLost, Abandon, AnswerBreaks
  <2> QED  BY <1>8, <1>9, <1>10, <2>1, ReadHeadKeeps, SpillUnitKeeps, HoldSpillKeeps, ReadUnitKeeps, BodyIsInKeeps,
              BodyCutKeeps, AnswerBuiltKeeps, WriteUnitKeeps, AnswerEndsKeeps DEF DoorStep
<1> QED  BY <1>2, <1>3, <1>4, <1>5, <1>6, <1>7, <1>10, SendKeeps DEF DoorNext

LEMMA WebDoorSafe == WebDoorInv => NothingPartial
<1> SUFFICES ASSUME WebDoorInv
             PROVE  WholeBodies /\ SpillsLetGo
    BY DEF NothingPartial
<1>1. ASSUME NEW c \in Conns
      PROVE  /\ at[c] = "serving" => got[c] = cur[c].bytes
             /\ at[c] = "head" /\ c \in answered => IsWhole(c)
             /\ at[c] = "serving" /\ Spills(cur[c]) => "door" \in held[c] /\ disk[c] = cur[c].bytes
             /\ disk[c] > 0 => at[c] = "spilling" \/ held[c] # {}
             /\ held[c] # {} => at[c] \in {"serving", "answering"}
    BY DEF WebDoorInv, ConnInv, BodyInv, AgainInv
<1>2. ASSUME NEW c \in Conns, at[c] = "head", in[c] # <<>>
      PROVE  Head(in[c]).is = "start"
  <2>1. in[c] \in Seq(Piece) /\ todo[c] \in Seq(Piece) /\ NewAfter(Coming(c), 0)
      BY <1>2 DEF WebDoorInv, ConnInv, ComingInv, Between
  <2>2. Len(in[c]) \in Nat \ {0} /\ Len(todo[c]) \in Nat /\ Head(in[c]) = in[c][1]
      BY <1>2, <2>1
  <2> DEFINE l == Len(in[c])
             m == Len(todo[c])
  <2>3. /\ Len(Coming(c)) = l + m /\ \A i \in 1 .. l : Coming(c)[i] = in[c][i]
        /\ l \in Nat \ {0} /\ m \in Nat
      BY <2>1, <2>2, JoinedPieces DEF Coming
  <2> HIDE DEF l, m
  <2>5. Len(Coming(c)) > 0 /\ Coming(c)[1] = in[c][1]
    <3>1. 1 \in 1 .. l
        BY <2>3
    <3> QED  BY <2>3, <3>1
  <2>4. LastOf(0, 0, FALSE) = 0 /\ 0 + 1 = 1
      BY DEF LastOf
  <2> QED  BY <2>1, <2>2, <2>4, <2>5 DEF NewAfter, BodyAfter
<1>3. WholeBodies
    BY <1>1, <1>2 DEF WholeBodies
<1>4. SpillsLetGo
    BY <1>1 DEF SpillsLetGo, WebDoorInv, StoreInv
<1> QED  BY <1>3, <1>4

(* Nothing partial passes for whole, for any requests, however clients send   *)
(* and stop, and whatever the bounds.                                         *)
THEOREM WholeOrNothing == DoorSpec => []NothingPartial
<1>1. DoorInit => WebDoorInv
    BY WebDoorStarts
<1>2. WebDoorInv /\ [DoorNext]_doorVars => WebDoorInv'
    BY WebDoorSteps
<1>3. WebDoorInv => NothingPartial
    BY WebDoorSafe
<1> QED  BY <1>1, <1>2, <1>3, PTL DEF DoorSpec

-----------------------------------------------------------------------------
(* Proofs about the writes, for any documents, patches and preconditions.     *)
(*                                                                            *)
(* What a request is, and what is known of it at each stage: what a watched   *)
(* resource is now is among what it was since the request came; a condition   *)
(* that was checked held of one of those; and a patch about to be written was *)
(* merged into one of them.                                                   *)
WriteStages == {"check", "run", "read", "sink", "record", "gone", "204", "404"}
Patching == UNION {[S -> Values \union {Null}] : S \in SUBSET Fields}
WriteRecords == [at : WriteStages, method : Methods, target : Urls, body : Docs \union Patching,
                 im : Condition, inm : Condition]
WriteTypes ==
    /\ tick \in Nat
    /\ doc \in [Urls -> {NoDoc} \union Docs]
    /\ writes \in [Clients -> {NoWrite} \union WriteRecords]
    /\ was \in [Clients -> SUBSET ({NoDoc} \union Docs)]

WriteInv(c) ==
    writes[c] # NoWrite =>
        /\ writes[c].method = "PUT" => writes[c].body \in Bodies
        /\ writes[c].method = "PATCH" /\ writes[c].at \in {"check", "read"} => writes[c].body \in Patches
        /\ writes[c].at = "read" => writes[c].method = "PATCH"
        /\ writes[c].at = "check" => Conditional(writes[c])
        /\ Watched(writes[c]) => doc[writes[c].target] \in was[c]
        /\ writes[c].at # "check" /\ Conditional(writes[c]) => \E state \in was[c] : Holds(writes[c], state)
        /\ writes[c].at = "sink" =>
              \E old \in was[c] \ {NoDoc}, p \in Patches : writes[c].body = Merge(old, p)

(* A tombstone is of the last DELETE that its caller was told of, and one     *)
(* that is gone had outlived its time.                                        *)
TombInv ==
    /\ toldGone \in [Urls -> {Never} \union Nat]
    /\ \A k \in DOMAIN tombs : k \in Urls /\ tombs[k] \in Nat /\ toldGone[k] = tombs[k]
    /\ \A k \in Urls \ DOMAIN tombs : ~Recent(toldGone[k])

WritesInv == WriteTypes /\ TombInv /\ \A c \in Clients : WriteInv(c)

USE WebWritesAssumption

(* A merged document has the patch's fields, and the others as they were.     *)
LEMMA MergeIsPatched ==
    ASSUME NEW d \in Docs, NEW p \in Patches
    PROVE  Merge(d, p) \in Docs /\ Patched(d, p, Merge(d, p))
<1> DEFINE fields == {f \in DOMAIN d \union DOMAIN p : f \in DOMAIN p => p[f] # Null}
           m == [f \in fields |-> IF f \in DOMAIN p THEN p[f] ELSE d[f]]
<1>1. PICK S \in SUBSET Fields : d \in [S -> Values]
    BY DEF Docs
<1>2. PICK T \in SUBSET Fields : p \in [T -> Values \union {Null}]
    OBVIOUS
<1>3. Merge(d, p) = m
    BY DEF Merge
<1>4. fields \in SUBSET Fields /\ DOMAIN d = S /\ DOMAIN p = T
    BY <1>1, <1>2
<1>5. \A f \in fields : m[f] \in Values
    BY <1>1, <1>2, <1>4
<1>6. m \in [fields -> Values]
    BY <1>5
<1>7. m \in Docs
    BY <1>4, <1>6 DEF Docs
<1>8. Patched(d, p, m)
  <2>1. DOMAIN m = fields /\ \A f \in fields : m[f] = IF f \in DOMAIN p THEN p[f] ELSE d[f]
      OBVIOUS
  <2>2. \A f \in DOMAIN p : IF p[f] = Null THEN f \notin DOMAIN m ELSE f \in DOMAIN m /\ m[f] = p[f]
      BY <2>1
  <2>3. \A f \in Fields \ DOMAIN p : (f \in DOMAIN d <=> f \in DOMAIN m) /\ (f \in DOMAIN d => d[f] = m[f])
      BY <2>1
  <2> QED  BY <2>2, <2>3 DEF Patched
<1> QED  BY <1>3, <1>7, <1>8

(* What is seen of a request by others' steps, which may change its resource. *)
Watches ==
    \A c \in Clients : /\ was[c] \subseteq was'[c]
                       /\ \A k \in Urls : doc'[k] # doc[k] /\ writes[c] # NoWrite /\ Watched(writes[c])
                             /\ writes[c].target = k => doc'[k] \in was'[c]

LEMMA BecomesIsWatched ==
    ASSUME WriteTypes, NEW k \in Urls, NEW d \in {NoDoc} \union Docs, Becomes(k, d)
    PROVE  /\ doc' = [doc EXCEPT ![k] = d] /\ doc' \in [Urls -> {NoDoc} \union Docs]
           /\ was' \in [Clients -> SUBSET ({NoDoc} \union Docs)]
           /\ Watches
<1>1. doc' = [doc EXCEPT ![k] = d] /\ doc' \in [Urls -> {NoDoc} \union Docs]
    BY DEF Becomes, WriteTypes
<1>2. was' = [c \in Clients |-> IF writes[c] # NoWrite /\ Watched(writes[c]) /\ writes[c].target = k
                                THEN was[c] \union {d} ELSE was[c]]
    BY DEF Becomes
<1>3. was' \in [Clients -> SUBSET ({NoDoc} \union Docs)]
    BY <1>2 DEF WriteTypes
<1>4. Watches
    BY <1>1, <1>2 DEF Watches, WriteTypes
<1> QED  BY <1>1, <1>3, <1>4

LEMMA NothingChanges ==
    ASSUME WriteTypes, UNCHANGED <<doc, was>>
    PROVE  /\ doc' \in [Urls -> {NoDoc} \union Docs]
           /\ was' \in [Clients -> SUBSET ({NoDoc} \union Docs)] /\ Watches
BY DEF WriteTypes, Watches

(* A request that stays where it is stays as it is known to be.               *)
LEMMA WriteStays ==
    ASSUME WritesInv, Watches, NEW c \in Clients, writes'[c] = writes[c]
    PROVE  WriteInv(c)'
<1> DEFINE r == writes[c]
<1>1. CASE r = NoWrite
    BY <1>1 DEF WriteInv
<1>2. CASE r # NoWrite
  <2>1. r \in WriteRecords /\ r.target \in Urls
      BY <1>2 DEF WritesInv, WriteTypes, WriteRecords
  <2>2. Watched(r) => doc[r.target]' \in was'[c]
      BY <1>2, <2>1 DEF WritesInv, WriteInv, Watches
  <2> QED
      BY <1>2, <2>2 DEF WritesInv, WriteInv, Watches, Conditional, Watched, Holds, Names, IfMatch, IfNoneMatch
<1> QED  BY <1>1, <1>2

(* One request moves, and what is known of it holds where it is now.          *)
LEMMA OneWriteMoves ==
    ASSUME WritesInv, Watches, tick' \in Nat,
           doc' \in [Urls -> {NoDoc} \union Docs], was' \in [Clients -> SUBSET ({NoDoc} \union Docs)],
           NEW c \in Clients, NEW w \in {NoWrite} \union WriteRecords,
           writes' = [writes EXCEPT ![c] = w], WriteInv(c)'
    PROVE  WriteTypes' /\ \A b \in Clients : WriteInv(b)'
<1>1. writes' \in [Clients -> {NoWrite} \union WriteRecords]
    BY DEF WritesInv, WriteTypes
<1>2. ASSUME NEW b \in Clients PROVE WriteInv(b)'
  <2>1. CASE b = c
      BY <2>1
  <2>2. CASE b # c
    <3>1. writes'[b] = writes[b]
        BY <2>2 DEF WritesInv, WriteTypes
    <3> QED  BY <3>1, WriteStays
  <2> QED  BY <2>1, <2>2
<1> QED  BY <1>1, <1>2 DEF WriteTypes

(* It is answered.                                                            *)
LEMMA WriteReplied ==
    ASSUME WritesInv, Watches, tick' \in Nat,
           doc' \in [Urls -> {NoDoc} \union Docs], was' \in [Clients -> SUBSET ({NoDoc} \union Docs)],
           NEW c \in Clients, Replied(c)
    PROVE  WriteTypes' /\ \A b \in Clients : WriteInv(b)'
<1>1. writes' = [writes EXCEPT ![c] = NoWrite] /\ writes'[c] = NoWrite
    BY DEF Replied, WritesInv, WriteTypes
<1>2. WriteInv(c)'
    BY <1>1 DEF WriteInv
<1> QED  BY <1>1, <1>2, OneWriteMoves

(* Or goes on to another stage, the same request as before.                   *)
LEMMA WriteGoes ==
    ASSUME WritesInv, NEW c \in Clients, writes[c] # NoWrite, NEW s \in WriteStages, Goes(c, s)
    PROVE  \E w \in WriteRecords :
              /\ writes' = [writes EXCEPT ![c] = w] /\ writes'[c] = w
              /\ w.at = s /\ w.method = writes[c].method /\ w.target = writes[c].target
              /\ w.body = writes[c].body /\ w.im = writes[c].im /\ w.inm = writes[c].inm
<1> DEFINE w == [writes[c] EXCEPT !.at = s]
<1>1. writes \in [Clients -> {NoWrite} \union WriteRecords] /\ writes[c] \in WriteRecords
    BY DEF WritesInv, WriteTypes
<1>2. /\ w \in WriteRecords /\ w.at = s /\ w.method = writes[c].method /\ w.target = writes[c].target
      /\ w.body = writes[c].body /\ w.im = writes[c].im /\ w.inm = writes[c].inm
    BY <1>1 DEF WriteRecords
<1>3. writes' = [writes EXCEPT ![c] = w] /\ writes'[c] = w
    BY <1>1 DEF Goes
<1> QED  BY <1>2, <1>3

(* What is known of a request that goes on: all that it needs is a condition  *)
(* that held, if it leaves its check.                                         *)
LEMMA WriteGoesOn ==
    ASSUME WritesInv, Watches, tick' \in Nat,
           doc' \in [Urls -> {NoDoc} \union Docs], was' \in [Clients -> SUBSET ({NoDoc} \union Docs)],
           NEW c \in Clients, writes[c] # NoWrite, NEW s \in WriteStages \ {"check", "sink"}, Goes(c, s),
           Conditional(writes[c]) => \E state \in was[c] : Holds(writes[c], state),
           s = "read" => writes[c].at = "check" /\ writes[c].method = "PATCH"
    PROVE  WriteTypes' /\ \A b \in Clients : WriteInv(b)'
<1>1. PICK w \in WriteRecords :
              /\ writes' = [writes EXCEPT ![c] = w] /\ writes'[c] = w
              /\ w.at = s /\ w.method = writes[c].method /\ w.target = writes[c].target
              /\ w.body = writes[c].body /\ w.im = writes[c].im /\ w.inm = writes[c].inm
    BY WriteGoes
<1>2. Watched(w) <=> Watched(writes[c])
    BY <1>1 DEF Watched, Conditional
<1>3. Conditional(w) => \E state \in was'[c] : Holds(w, state)
    BY <1>1 DEF Watches, Conditional, Holds, IfMatch, IfNoneMatch, Names
<1>4. w.target \in Urls
    BY DEF WriteRecords
<1>5. Watched(w) => doc[w.target]' \in was'[c]
    BY <1>1, <1>2, <1>4 DEF WritesInv, WriteInv, Watches
<1>6. WriteInv(c)'
    BY <1>1, <1>3, <1>5 DEF WritesInv, WriteInv, Watches, Watched, Conditional
<1> QED  BY <1>1, <1>6, OneWriteMoves

-----------------------------------------------------------------------------
(* Each of the steps.                                                         *)
LEMMA WriteTombsStay ==
    ASSUME TombInv, UNCHANGED <<tick, tombs, toldGone>>
    PROVE  TombInv'
BY DEF TombInv, Recent

LEMMA ArriveKeeps ==
    ASSUME WritesInv, NEW c \in Clients, NEW r \in WriteRequests, Sent(r), Arrive(c, r)
    PROVE  WritesInv'
<1> DEFINE w == [at |-> IF Conditional(r) THEN "check" ELSE FirstStep(r), method |-> r.method,
                 target |-> r.target, body |-> r.body, im |-> r.im, inm |-> r.inm]
<1>1. PICK m \in Methods, k \in Urls, d \in Bodies \union Patches, h \in Headers :
         r = [method |-> m, target |-> k, body |-> d, im |-> h[1], inm |-> h[2]]
    BY DEF WriteRequests
<1>2. /\ r.method \in Methods /\ r.target \in Urls /\ r.body \in Docs \union Patching
      /\ r.im \in Condition /\ r.inm \in Condition
    BY <1>1 DEF Patching
<1>3. w \in WriteRecords
    BY <1>2 DEF WriteRecords, WriteStages, FirstStep
<1>4. /\ writes[c] = NoWrite /\ writes' = [writes EXCEPT ![c] = w] /\ writes'[c] = w
      /\ was' = [was EXCEPT ![c] = IF Watched(r) THEN {doc[r.target]} ELSE {}]
      /\ UNCHANGED <<tick, doc, deletes>>
    BY DEF Arrive, WritesInv, WriteTypes
<1>5. /\ doc' \in [Urls -> {NoDoc} \union Docs] /\ was' \in [Clients -> SUBSET ({NoDoc} \union Docs)]
      /\ tick' \in Nat /\ was'[c] = IF Watched(r) THEN {doc[r.target]} ELSE {}
    BY <1>2, <1>4 DEF WritesInv, WriteTypes
<1>6. WriteInv(c)'
  <2>1. r.method = "PUT" => r.body \in Bodies
      BY DEF Sent
  <2>2. r.method = "PATCH" => r.body \in Patches
      BY DEF Sent
  <2>3. (Watched(w) <=> Watched(r)) /\ (Conditional(w) <=> Conditional(r))
      BY DEF Watched, Conditional
  <2>4. Watched(w) => doc'[w.target] \in was'[c]
      BY <1>4, <1>5, <2>3
  <2>5. w.at \in {"check", "read", "run"} /\ (w.at = "check" <=> Conditional(r)) /\ (w.at = "read" => r.method = "PATCH")
      BY DEF FirstStep
  <2>6. w.at # "sink" /\ w.method = r.method /\ w.body = r.body /\ w.target = r.target
      BY <2>5
  <2>7. Watched(w) => doc[w.target]' \in was'[c]
      BY <2>4
  <2> QED
      BY <1>4, <2>1, <2>2, <2>3, <2>5, <2>6, <2>7 DEF WriteInv
<1>7. \A b \in Clients : WriteInv(b)'
  <2> SUFFICES ASSUME NEW b \in Clients, b # c PROVE WriteInv(b)'
      BY <1>6
  <2>1. writes'[b] = writes[b] /\ was'[b] = was[b] /\ doc' = doc
      BY <1>4 DEF WritesInv, WriteTypes
  <2> QED  BY <2>1 DEF WritesInv, WriteInv, Watched, Conditional, Holds, IfMatch, IfNoneMatch, Names
<1>8. WriteTypes'
    BY <1>3, <1>4, <1>5 DEF WritesInv, WriteTypes
<1>9. TombInv'
    BY <1>4, WriteTombsStay DEF WritesInv, deletes
<1> QED  BY <1>7, <1>8, <1>9 DEF WritesInv

(* The resource is written, or not, by a request that is then answered.       *)
LEMMA WriteAnswered ==
    ASSUME WritesInv, NEW c \in Clients, writes[c] # NoWrite,
           \/ UNCHANGED <<doc, was>>
           \/ /\ writes[c].at = "sink" \/ (writes[c].at = "run" /\ writes[c].method = "PUT")
              /\ Becomes(writes[c].target, writes[c].body)
           \/ Becomes(writes[c].target, NoDoc),
           Replied(c), UNCHANGED <<tick, tombs, toldGone>>
    PROVE  WritesInv'
<1>1. writes[c] \in WriteRecords /\ writes[c].target \in Urls
    BY DEF WritesInv, WriteTypes, WriteRecords
<1>2. CASE UNCHANGED <<doc, was>>
    BY <1>2, NothingChanges, WriteReplied, WriteTombsStay DEF WritesInv, WriteTypes
<1>3. CASE /\ writes[c].at = "sink" \/ (writes[c].at = "run" /\ writes[c].method = "PUT")
           /\ Becomes(writes[c].target, writes[c].body)
  <2>1. writes[c].body \in Docs
    <3>1. CASE writes[c].at = "sink"
      <4>1. PICK old \in was[c] \ {NoDoc}, p \in Patches : writes[c].body = Merge(old, p)
          BY <3>1 DEF WritesInv, WriteInv
      <4>2. old \in Docs
          BY DEF WritesInv, WriteTypes
      <4> QED  BY <4>1, <4>2, MergeIsPatched
    <3>2. CASE writes[c].method = "PUT"
        BY <3>2 DEF WritesInv, WriteInv
    <3> QED  BY <1>3, <3>1, <3>2
  <2> QED  BY <1>1, <1>3, <2>1, BecomesIsWatched, WriteReplied, WriteTombsStay DEF WritesInv, WriteTypes
<1>4. CASE Becomes(writes[c].target, NoDoc)
    BY <1>1, <1>4, BecomesIsWatched, WriteReplied, WriteTombsStay DEF WritesInv, WriteTypes
<1> QED  BY <1>2, <1>3, <1>4

LEMMA ChecksKeep ==
    ASSUME WritesInv, NEW c \in Clients, CheckPrecondition(c)
    PROVE  WritesInv'
<1>1. writes[c].at = "check" /\ writes[c] # NoWrite /\ UNCHANGED <<tick, doc, was, tombs, erased, toldGone>>
    BY DEF CheckPrecondition, NoWrite, deletes
<1>2. CASE Replied(c)
    BY <1>1, <1>2, WriteAnswered
<1>3. CASE Holds(writes[c], doc[writes[c].target]) /\ Goes(c, FirstStep(writes[c]))
  <2>1. Conditional(writes[c]) /\ Watched(writes[c]) /\ doc[writes[c].target] \in was[c]
      BY <1>1 DEF WritesInv, WriteInv, Watched
  <2>2. FirstStep(writes[c]) \in {"run", "read"} /\ (FirstStep(writes[c]) = "read" => writes[c].method = "PATCH")
      BY DEF FirstStep
  <2>3. FirstStep(writes[c]) \in WriteStages \ {"check", "sink"}
      BY <2>2 DEF WriteStages
  <2>4. \E state \in was[c] : Holds(writes[c], state)
      BY <1>3, <2>1
  <2>5. WriteTypes' /\ \A b \in Clients : WriteInv(b)'
      BY <1>1, <1>3, <2>2, <2>3, <2>4, NothingChanges, WriteGoesOn DEF WritesInv, WriteTypes
  <2> QED  BY <1>1, <2>5, WriteTombsStay DEF WritesInv
<1> QED  BY <1>2, <1>3 DEF CheckPrecondition, Read

LEMMA PatchReadKeeps ==
    ASSUME WritesInv, NEW c \in Clients, PatchRead(c)
    PROVE  WritesInv'
<1>1. writes[c].at = "read" /\ writes[c] # NoWrite /\ UNCHANGED <<tick, doc, was, tombs, erased, toldGone>>
    BY DEF PatchRead, NoWrite, deletes
<1>2. CASE Replied(c)
    BY <1>1, <1>2, WriteAnswered
<1>3. ASSUME NEW d \in Present(doc[writes[c].target]),
             writes' = [writes EXCEPT ![c].at = "sink", ![c].body = Merge(d, @)]
      PROVE  WritesInv'
  <2> DEFINE r == writes[c]
             w == [r EXCEPT !.at = "sink", !.body = Merge(d, r.body)]
  <2>1. r \in WriteRecords /\ r.target \in Urls /\ writes \in [Clients -> {NoWrite} \union WriteRecords]
      BY <1>1 DEF WritesInv, WriteTypes, WriteRecords
  <2>2. r.method = "PATCH" /\ r.body \in Patches /\ Watched(r)
      BY <1>1 DEF WritesInv, WriteInv, Watched
  <2>3. d = doc[r.target] /\ d # NoDoc /\ d \in was[c] /\ d \in Docs
      BY <1>1, <2>1, <2>2 DEF Present, WritesInv, WriteInv, WriteTypes
  <2>4. Merge(d, r.body) \in Docs
      BY <2>2, <2>3, MergeIsPatched
  <2>5. /\ w \in WriteRecords /\ w.at = "sink" /\ w.body = Merge(d, r.body) /\ w.method = "PATCH"
        /\ w.target = r.target /\ w.im = r.im /\ w.inm = r.inm
      BY <2>1, <2>2, <2>4 DEF WriteRecords, WriteStages
  <2>6. writes' = [writes EXCEPT ![c] = w] /\ writes'[c] = w
      BY <1>3, <2>1
  <2>7. (Conditional(w) <=> Conditional(r)) /\ (Watched(w) <=> Watched(r))
      BY <2>2, <2>5 DEF Conditional, Watched
  <2>8. Conditional(w) => \E state \in was[c] : Holds(w, state)
      BY <1>1, <2>5, <2>7 DEF WritesInv, WriteInv, Holds, IfMatch, IfNoneMatch, Names
  <2>9. doc'[w.target] \in was'[c]
      BY <1>1, <2>3, <2>5
  <2>10. WriteInv(c)'
      BY <1>1, <2>2, <2>3, <2>5, <2>6, <2>8, <2>9 DEF WriteInv
  <2>11. WriteTypes' /\ \A b \in Clients : WriteInv(b)'
      BY <1>1, <2>5, <2>6, <2>10, NothingChanges, OneWriteMoves DEF WritesInv, WriteTypes
  <2> QED  BY <1>1, <2>11, WriteTombsStay DEF WritesInv
<1> QED  BY <1>2, <1>3 DEF PatchRead

LEMMA DeleteKeeps ==
    ASSUME WritesInv, NEW c \in Clients, Delete(c)
    PROVE  WritesInv'
<1>1. writes[c].at = "run" /\ writes[c] # NoWrite /\ UNCHANGED <<tick, tombs, toldGone>>
    BY DEF Delete, NoWrite
<1>2. writes[c].target \in Urls
    BY <1>1 DEF WritesInv, WriteTypes, WriteRecords
<1>3. Conditional(writes[c]) => \E state \in was[c] : Holds(writes[c], state)
    BY <1>1 DEF WritesInv, WriteInv
<1>4. CASE Replied(c) /\ (UNCHANGED <<doc, was>> \/ Erase(writes[c].target))
    BY <1>1, <1>4, WriteAnswered DEF Erase
<1>5. CASE Goes(c, "gone") /\ UNCHANGED <<doc, was>>
  <2>1. WriteTypes' /\ \A b \in Clients : WriteInv(b)'
      BY <1>1, <1>3, <1>5, NothingChanges, WriteGoesOn DEF WritesInv, WriteTypes, WriteStages
  <2> QED  BY <1>1, <2>1, WriteTombsStay DEF WritesInv
<1>6. CASE Goes(c, "record") /\ Erase(writes[c].target)
  <2>1. WriteTypes' /\ \A b \in Clients : WriteInv(b)'
      BY <1>1, <1>2, <1>3, <1>6, BecomesIsWatched, WriteGoesOn DEF WritesInv, WriteTypes, WriteStages, Erase
  <2> QED  BY <1>1, <2>1, WriteTombsStay DEF WritesInv
<1> QED  BY <1>4, <1>5, <1>6 DEF Delete

LEMMA RecordsKeep ==
    ASSUME WritesInv, NEW c \in Clients, RecordTombstone(c)
    PROVE  WritesInv'
<1> DEFINE k == writes[c].target
<1>1. /\ writes[c].at = "record" /\ writes[c] # NoWrite /\ Replied(c) /\ UNCHANGED <<tick, doc, was, erased>>
      /\ tombs' = [l \in LiveTombs \union {k} |-> IF l = k THEN tick ELSE tombs[l]]
      /\ toldGone' = [toldGone EXCEPT ![k] = tick]
    BY DEF RecordTombstone, NoWrite, Key
<1>2. k \in Urls /\ tick \in Nat
    BY <1>1 DEF WritesInv, WriteTypes, WriteRecords
<1>3. WriteTypes' /\ \A b \in Clients : WriteInv(b)'
    BY <1>1, NothingChanges, WriteReplied DEF WritesInv, WriteTypes
<1>4. TombInv'
  <2>1. toldGone' \in [Urls -> {Never} \union Nat] /\ toldGone'[k] = tick
      BY <1>1, <1>2 DEF WritesInv, TombInv
  <2>2. \A l \in DOMAIN tombs' : l \in Urls /\ tombs'[l] \in Nat /\ toldGone'[l] = tombs'[l]
      BY <1>1, <1>2 DEF WritesInv, TombInv, LiveTombs
  <2>3. ASSUME NEW l \in Urls \ DOMAIN tombs' PROVE ~Recent(toldGone[l])'
    <3>1. l # k /\ toldGone'[l] = toldGone[l] /\ l \notin LiveTombs
        BY <1>1, <2>3 DEF WritesInv, TombInv
    <3>2. ~Recent(toldGone[l])
        BY <3>1 DEF WritesInv, TombInv, LiveTombs, Lasts, Recent
    <3> QED  BY <1>1, <3>1, <3>2 DEF Recent
  <2> QED  BY <2>1, <2>2, <2>3 DEF TombInv
<1> QED  BY <1>3, <1>4 DEF WritesInv

LEMMA GoneKeeps ==
    ASSUME WritesInv, NEW c \in Clients, Gone(c)
    PROVE  WritesInv'
<1> DEFINE k == writes[c].target
<1>1. /\ writes[c].at = "gone" /\ writes[c] # NoWrite /\ Goes(c, IF Tombstoned(k) THEN "204" ELSE "404")
      /\ tombs' = [l \in {l \in DOMAIN tombs : l = k => Lasts(l)} |-> tombs[l]]
      /\ UNCHANGED <<tick, doc, was, erased, toldGone>>
    BY DEF Gone, NoWrite, Key
<1>2. PICK s \in {"204", "404"} : Goes(c, s)
    BY <1>1
<1>3. Conditional(writes[c]) => \E state \in was[c] : Holds(writes[c], state)
    BY <1>1 DEF WritesInv, WriteInv
<1>4. WriteTypes' /\ \A b \in Clients : WriteInv(b)'
    BY <1>1, <1>2, <1>3, NothingChanges, WriteGoesOn DEF WritesInv, WriteTypes, WriteStages
<1>5. TombInv'
  <2>1. \A l \in DOMAIN tombs' : l \in DOMAIN tombs /\ tombs'[l] = tombs[l]
      BY <1>1
  <2>2. ASSUME NEW l \in Urls \ DOMAIN tombs' PROVE ~Recent(toldGone[l])
      BY <1>1, <2>2 DEF WritesInv, TombInv, Lasts, Recent
  <2> QED  BY <1>1, <2>1, <2>2 DEF WritesInv, TombInv, Recent
<1> QED  BY <1>4, <1>5 DEF WritesInv

LEMMA WriteTimePasses ==
    ASSUME WritesInv, WritesTick
    PROVE  WritesInv'
<1>1. tick \in Nat /\ tick' = tick + 1 /\ UNCHANGED <<doc, writes, was, tombs, erased, toldGone>>
    BY DEF WritesTick, deletes, WritesInv, WriteTypes
<1>2. WriteTypes'
    BY <1>1 DEF WritesInv, WriteTypes
<1>3. \A c \in Clients : WriteInv(c)'
    BY <1>1, NothingChanges, WriteStays DEF WritesInv
<1>4. TombInv'
  <2>1. ASSUME NEW k \in Urls, ~Recent(toldGone[k]) PROVE ~Recent(toldGone[k])'
      BY <1>1, <2>1 DEF Recent, WritesInv, TombInv
  <2> QED  BY <1>1, <2>1 DEF WritesInv, TombInv
<1> QED  BY <1>2, <1>3, <1>4 DEF WritesInv

LEMMA WritesStep == WritesInv /\ [WritesNext]_writeVars => WritesInv'
<1> SUFFICES ASSUME WritesInv, [WritesNext]_writeVars PROVE WritesInv'
    OBVIOUS
<1>1. ASSUME NEW c \in Clients, Put(c) \/ PatchSink(c) \/ WriteDropped(c) \/ Told(c) PROVE WritesInv'
  <2>1. /\ writes[c] # NoWrite /\ Replied(c) /\ UNCHANGED <<tick, tombs, toldGone>>
        /\ \/ UNCHANGED <<doc, was>>
           \/ /\ writes[c].at = "sink" \/ (writes[c].at = "run" /\ writes[c].method = "PUT")
              /\ Becomes(writes[c].target, writes[c].body)
           \/ Becomes(writes[c].target, NoDoc)
      BY <1>1 DEF Put, PatchSink, WriteDropped, Told, NoWrite, Erase, deletes
  <2> QED  BY <2>1, WriteAnswered
<1>2. ASSUME NEW c \in Clients, NEW r \in WriteRequests, Sent(r), Arrive(c, r) PROVE WritesInv'
    BY <1>2, ArriveKeeps
<1>3. CASE UNCHANGED writeVars
  <2>1. UNCHANGED <<tick, doc, writes, was, tombs, toldGone>>
      BY <1>3 DEF writeVars
  <2>2. \A c \in Clients : WriteInv(c)'
      BY <2>1, NothingChanges, WriteStays DEF WritesInv
  <2> QED  BY <2>1, <2>2, WriteTombsStay DEF WritesInv, WriteTypes
<1> QED
    BY <1>1, <1>2, <1>3, ChecksKeep, PatchReadKeeps, DeleteKeeps, RecordsKeep, GoneKeeps, WriteTimePasses
    DEF WritesNext, Serve

LEMMA WritesStart == WritesInit => WritesInv
<1> SUFFICES ASSUME WritesInit PROVE WritesInv
    OBVIOUS
<1>1. WriteTypes
    BY DEF WritesInit, WriteTypes
<1>2. TombInv
    BY DEF WritesInit, TombInv, Recent
<1>3. \A c \in Clients : WriteInv(c)
    BY DEF WritesInit, WriteInv
<1> QED  BY <1>1, <1>2, <1>3 DEF WritesInv

-----------------------------------------------------------------------------
(* A write lands only on what was, step by step.                              *)
LEMMA CommitIsOfWhatWas ==
    ASSUME WritesInv, WritesNext, NEW c \in Clients, Commits(c)
    PROVE  /\ Conditional(writes[c]) => \E state \in was[c] : Holds(writes[c], state)
           /\ writes[c].at = "sink" =>
                \E old \in was[c] \ {NoDoc}, p \in Patches : Patched(old, p, doc'[writes[c].target])
<1>1. writes[c].at \in {"run", "sink"} /\ writes'[c] # writes[c] /\ doc' # doc /\ writes[c] # NoWrite
    BY DEF Commits, NoWrite
<1>2. writes[c] \in WriteRecords /\ writes[c].target \in Urls
    BY <1>1 DEF WritesInv, WriteTypes, WriteRecords
<1>3. writes[c].at = "sink" => doc'[writes[c].target] = writes[c].body
  <2>1. PICK b \in Clients : Serve(b) \/ WriteDropped(b)
      BY <1>1 DEF WritesNext, Arrive, WritesTick
  <2>2. PICK w : writes' = [writes EXCEPT ![b] = w]
      BY <2>1 DEF Serve, WriteDropped, CheckPrecondition, Put, PatchRead, PatchSink, Delete, RecordTombstone, Gone, Told,
                  Goes, Replied
  <2>3. b = c
      BY <1>1, <2>2 DEF WritesInv, WriteTypes
  <2>4. writes[c].at = "sink" => Becomes(writes[c].target, writes[c].body)
      BY <1>1, <2>1, <2>3 DEF Serve, WriteDropped, CheckPrecondition, Put, PatchRead, PatchSink, Delete,
                               RecordTombstone, Gone, Told
  <2> QED  BY <1>2, <2>4 DEF Becomes, WritesInv, WriteTypes
<1>4. Conditional(writes[c]) => \E state \in was[c] : Holds(writes[c], state)
    BY <1>1 DEF WritesInv, WriteInv
<1>5. ASSUME writes[c].at = "sink"
      PROVE  \E old \in was[c] \ {NoDoc}, p \in Patches : Patched(old, p, doc'[writes[c].target])
  <2>1. PICK old \in was[c] \ {NoDoc}, p \in Patches : writes[c].body = Merge(old, p)
      BY <1>1, <1>5 DEF WritesInv, WriteInv
  <2>2. old \in Docs
      BY DEF WritesInv, WriteTypes
  <2> QED  BY <1>3, <1>5, <2>1, <2>2, MergeIsPatched
<1> QED  BY <1>4, <1>5

(* What a repeated DELETE is told.                                            *)
LEMMA RepeatIsTold ==
    ASSUME WritesInv, WritesNext, NEW c \in Clients, writes[c].at = "gone", writes'[c].at \in {"204", "404"}
    PROVE  writes'[c].at = "204" <=> Recent(toldGone[writes[c].target])
<1>1. writes[c] # NoWrite /\ writes'[c] # writes[c] /\ writes[c].target \in Urls
    BY DEF NoWrite, WritesInv, WriteTypes, WriteRecords
<1>2. PICK b \in Clients : Serve(b) \/ WriteDropped(b) \/ \E r \in WriteRequests : Arrive(b, r)
    BY <1>1 DEF WritesNext, WritesTick
<1>3. PICK w : writes' = [writes EXCEPT ![b] = w]
    BY <1>2 DEF Serve, WriteDropped, CheckPrecondition, Put, PatchRead, PatchSink, Delete, RecordTombstone, Gone, Told,
                Goes, Replied, Arrive
<1>4. b = c
    BY <1>1, <1>3 DEF WritesInv, WriteTypes
<1>5. Gone(c)
    BY <1>1, <1>2, <1>4 DEF Serve, WriteDropped, CheckPrecondition, Put, PatchRead, PatchSink, Delete, RecordTombstone,
                            Told, Arrive, NoWrite
<1>6. Goes(c, IF Tombstoned(writes[c].target) THEN "204" ELSE "404")
    BY <1>5 DEF Gone, Key
<1>7. writes'[c].at = IF Tombstoned(writes[c].target) THEN "204" ELSE "404"
  <2>1. PICK s \in {"204", "404"} : s = IF Tombstoned(writes[c].target) THEN "204" ELSE "404"
      OBVIOUS
  <2>2. s \in WriteStages /\ Goes(c, s)
      BY <1>6, <2>1 DEF WriteStages
  <2> QED  BY <1>1, <2>1, <2>2, WriteGoes
<1>8. Tombstoned(writes[c].target) <=> Recent(toldGone[writes[c].target])
    BY <1>1 DEF Tombstoned, Lasts, Recent, WritesInv, TombInv
<1> QED  BY <1>7, <1>8

(* A write that states a precondition is made only if the resource, as it was *)
(* while the request was under way, met it; a patch changes its own fields of *)
(* such a document: for any documents, patches, headers and requests at once. *)
THEOREM WritesKeepTheirWord == WritesSpec => WritesOnWhatWas
<1>1. WritesInit => WritesInv
    BY WritesStart
<1>2. WritesInv /\ [WritesNext]_writeVars => WritesInv'
    BY WritesStep
<1>3. WritesInv /\ [WritesNext]_writeVars =>
          [\A c \in Clients : Commits(c) =>
              /\ Conditional(writes[c]) => \E state \in was[c] : Holds(writes[c], state)
              /\ writes[c].at = "sink" =>
                    \E old \in was[c] \ {NoDoc}, p \in Patches : Patched(old, p, doc'[writes[c].target])]_writeVars
    BY CommitIsOfWhatWas
<1> QED  BY <1>1, <1>2, <1>3, PTL DEF WritesSpec, WritesOnWhatWas

(* A repeated DELETE is told that its resource is gone by its own path and    *)
(* arguments' last DELETE, within its tombstone's life and not after, however *)
(* many are forgotten meanwhile.                                              *)
THEOREM RepeatsAreTold == WritesSpec => RepeatsTold
<1>1. WritesInit => WritesInv
    BY WritesStart
<1>2. WritesInv /\ [WritesNext]_writeVars => WritesInv'
    BY WritesStep
<1>3. WritesInv /\ [WritesNext]_writeVars =>
          [\A c \in Clients : writes[c].at = "gone" /\ writes'[c].at \in {"204", "404"} =>
              (writes'[c].at = "204" <=> Recent(toldGone[writes[c].target]))]_writeVars
    BY RepeatIsTold
<1> QED  BY <1>1, <1>2, <1>3, PTL DEF WritesSpec, RepeatsTold

-----------------------------------------------------------------------------
(* Proofs about the reads and the cache, for any doors, resources, requests   *)
(* and changes.                                                               *)
USE WebReadsAssumption

(* What a range of an Accept gives a face is a quality.                       *)
LEMMA SmallestPlace ==
    ASSUME NEW S \in SUBSET Nat, S # {}
    PROVE  \E i \in S : \A j \in S : i <= j
<1>1. IsWellFoundedOn(OpToRel(<, Nat), Nat)
    BY NatLessThanWellFounded
<1>2. PICK i \in S : \A k \in S : <<k, i>> \notin OpToRel(<, Nat)
    BY <1>1, WFMin
<1>3. \A k \in S : i <= k
  <2> TAKE k \in S
  <2>1. i \in Nat /\ k \in Nat /\ ~(k < i)
      BY <1>2 DEF OpToRel
  <2> QED  BY <2>1
<1> QED  BY <1>2, <1>3

LEMMA QualityIsNat ==
    ASSUME NEW d \in Doors, NEW r \in d.clients, NEW f
    PROVE  Quality(r.accept, f) \in Nat
<1> DEFINE accept == r.accept
           S == Ranges(accept, f)
<1>1. /\ S \subseteq DOMAIN accept /\ DOMAIN accept = 1 .. Len(accept) /\ Len(accept) \in Nat
      /\ \A i \in DOMAIN accept : accept[i].by \in Anything .. Named /\ accept[i].q \in Nat
  <2>1. accept \in Seq({accept[i] : i \in DOMAIN accept})
      OBVIOUS
  <2>2. DOMAIN accept = 1 .. Len(accept) /\ Len(accept) \in Nat
      BY <2>1
  <2>3. \A i \in DOMAIN accept : accept[i].by \in Anything .. Named /\ accept[i].q \in Nat
      OBVIOUS
  <2> QED  BY <2>2, <2>3 DEF Ranges
<1>2. CASE S = {}
    BY <1>2 DEF Quality
<1>3. CASE S # {}
  <2> HIDE DEF accept, S
  <2>1. \E k \in {1, 2, 3} : (\E i \in S : accept[i].by = k) /\ \A i \in S : accept[i].by <= k
      BY <1>1, <1>3 DEF Anything, Named
  <2>2. PICK k \in {1, 2, 3} : (\E i \in S : accept[i].by = k) /\ \A i \in S : accept[i].by <= k
      BY <2>1
  <2> DEFINE T == {i \in S : accept[i].by = k}
  <2>3. T # {} /\ T \in SUBSET Nat
      BY <1>1, <2>2
  <2>4. PICK i \in T : \A j \in T : i <= j
      BY <2>3, SmallestPlace
  <2>5. i \in S /\ \A j \in S : accept[i].by > accept[j].by \/ (accept[i].by = accept[j].by /\ i <= j)
    <3> SUFFICES ASSUME NEW j \in S PROVE accept[i].by > accept[j].by \/ (accept[i].by = accept[j].by /\ i <= j)
        BY <2>4
    <3>1. accept[i].by = k /\ accept[j].by \in 1 .. 3 /\ accept[j].by <= k
        BY <1>1, <2>2, <2>4 DEF Anything, Named
    <3> QED  BY <2>4, <3>1
  <2>6. MatchOf(accept, f).q \in Nat
    <3>1. (CHOOSE h \in S : \A j \in S : accept[h].by > accept[j].by \/ (accept[h].by = accept[j].by /\ h <= j)) \in S
        BY <2>5
    <3> QED  BY <1>1, <3>1 DEF MatchOf, S
  <2> QED  BY <1>3, <2>6 DEF Quality, accept, S
<1> QED  BY <1>2, <1>3

(* Of a resource of one face every client that is not refused is given it.    *)
LEMMA OneFace ==
    ASSUME NEW d \in Doors, NEW r \in d.clients, Len(d.served) = 1, r.as = Nil, Negotiated(d, r) # "refused"
    PROVE  Face(d, r) = d.served[1]
<1>1. d.served \in Seq(Served(d)) /\ DOMAIN d.served = {1} /\ Served(d) = {d.served[1]}
  <2>1. DOMAIN d.served = 1 .. 1
      OBVIOUS
  <2> QED  BY <2>1 DEF Served
<1>2. Default(d) = d.served[1] /\ d.gives = d.served[1]
    BY <1>1 DEF Default
<1>3. CASE Negotiated(d, r) = "default"
    BY <1>2, <1>3 DEF Face
<1>4. CASE Negotiated(d, r) # "default"
  <2>1. /\ Acceptable(d, r.accept) # {}
        /\ Negotiated(d, r) = Winner(d, r.accept)
      BY <1>1, <1>4 DEF Negotiated
  <2>2. d.served[1] \in Acceptable(d, r.accept)
      BY <1>1, <2>1 DEF Acceptable
  <2>3. Quality(r.accept, d.served[1]) >= Quality(r.accept, d.served[1])
    <3>1. Quality(r.accept, d.served[1]) \in Nat
        BY QualityIsNat
    <3> QED  BY <3>1
  <2>4. Winner(d, r.accept) = d.served[1]
      BY <1>1, <1>2, <2>2, <2>3 DEF Winner
  <2> QED  BY <1>4, <2>1, <2>4 DEF Face
<1> QED  BY <1>3, <1>4

(* Two requests that agree on what an answer varies by are the same to the    *)
(* door.                                                                      *)
LEMMA AskedAlike ==
    ASSUME NEW d \in Doors, NEW r \in d.clients, NEW s \in d.clients,
           s.as = r.as, \A h \in Vary(d, s) : s[h] = r[h]
    PROVE  /\ Capability(d, s) = Capability(d, r) /\ Vary(d, s) = Vary(d, r)
           /\ AllowOrigin(d, s) = AllowOrigin(d, r)
           /\ Negotiated(d, s) # "refused" /\ Negotiated(d, r) # "refused" => Face(d, s) = Face(d, r)
<1>1. Capability(d, s) = Capability(d, r)
  <2>1. CASE d.pin = Nil
    <3>1. s["creds"] = r["creds"]
        BY <2>1 DEF Vary, ReadVary
    <3> QED  BY <3>1 DEF Capability
  <2>2. CASE d.pin # Nil
      BY <2>2 DEF Capability
  <2> QED  BY <2>1, <2>2
<1>2. Vary(d, s) = Vary(d, r)
    BY <1>1 DEF Vary, ReadVary
<1>3. AllowOrigin(d, s) = AllowOrigin(d, r)
  <2>1. CASE d.cors # {}
    <3>1. s["origin"] = r["origin"]
        BY <2>1 DEF Vary
    <3> QED  BY <3>1 DEF AllowOrigin
  <2>2. CASE d.cors = {}
      BY <2>2 DEF AllowOrigin
  <2> QED  BY <2>1, <2>2
<1>4. ASSUME Negotiated(d, s) # "refused", Negotiated(d, r) # "refused"
      PROVE  Face(d, s) = Face(d, r)
  <2>1. CASE s.as # Nil
      BY <2>1 DEF Face, Negotiated
  <2>2. CASE s.as = Nil /\ Len(d.served) # 1
    <3>1. s["accept"] = r["accept"]
        BY <2>2 DEF Vary, ReadVary
    <3>2. s.accept = r.accept /\ s.as = r.as
        BY <3>1
    <3> QED  BY <3>2 DEF Face, Negotiated
  <2>3. CASE s.as = Nil /\ Len(d.served) = 1
      BY <1>4, <2>3, OneFace
  <2> QED  BY <2>1, <2>2, <2>3
<1> QED  BY <1>1, <1>2, <1>3, <1>4

(* What a stored answer is: what the door answered its read at some version,  *)
(* whole or broken off, under that version's tag; of this version if it is    *)
(* fresh and the door says how long, for it can then not have changed.        *)
WholeAt(d, r, v) ==
    [type |-> Face(d, r), bytes |-> << <<View(d, r), v>>, <<View(d, r), v>> >>]
PartAt(d, r, v) == [type |-> Face(d, r), bytes |-> << <<View(d, r), v>>, Nil>>]
TagAt(d, r, v) == IF Settled(d) \/ Ranged(d) THEN WholeAt(d, r, v) ELSE Nil
Lasting(e, v) ==
    door.asked = Nil /\ Fresh(e) =>
        v = version /\ SelfContained(door) /\ door.expiry = "at" /\ deadline = e.until
GenuineAt(e, v) ==
    /\ e.content \in {WholeAt(door, e.read, v), PartAt(door, e.read, v)}
    /\ e.tag = TagAt(door, e.read, v)
    /\ Lasting(e, v)
Genuine(e) ==
    /\ e.read \in door.clients /\ Status(door, e.read) = 200 /\ e.until \in Nat
    /\ e.vary = Vary(door, e.read) /\ e.allow = AllowOrigin(door, e.read) /\ ~e.cookie
    /\ cache = "shared" => Capability(door, e.read) = Capability(door, [e.read EXCEPT !.creds = Nil])
    /\ \E v \in Nat : GenuineAt(e, v)

ReadsInv ==
    /\ door \in Doors /\ moment \in Nat /\ version \in Nat /\ deadline \in Nat
    /\ \A e \in copies : Genuine(e)

(* What a shared cache may store of a request, nobody's credentials earned.   *)
LEMMA SharedIsUnshaped ==
    ASSUME NEW r, MayStore(r, CacheControl(door, r)), cache = "shared"
    PROVE  ~Shaped(door, r)
<1> SUFFICES ASSUME Shaped(door, r) PROVE FALSE
    OBVIOUS
<1>1. "private" \notin CacheControl(door, r) /\ "no-store" \notin CacheControl(door, r)
    BY DEF MayStore
<1>2. CASE door.noStore
    BY <1>1, <1>2 DEF CacheControl
<1>3. CASE ~door.noStore /\ door.asked # Nil
    BY <1>1, <1>3 DEF CacheControl, Asked, PrivateCacheControl
<1>4. CASE ~door.noStore /\ door.asked = Nil
    BY <1>1, <1>4 DEF CacheControl, Projected, Scope
<1> QED  BY <1>2, <1>3, <1>4

LEMMA CookieIsNotStored ==
    ASSUME door \in Doors, NEW r, Status(door, r) = 200, MayStore(r, CacheControl(door, r))
    PROVE  ~door.cookie
<1> SUFFICES ASSUME door.cookie PROVE FALSE
    OBVIOUS
<1>1. door.asked = Nil /\ door.expiry = "always"
    BY DEF Status, Opened
<1>2. Projected(door, r) = {"no-store"}
    BY <1>1 DEF Projected, Ahead
<1>3. "no-store" \in CacheControl(door, r)
  <2>1. CASE door.noStore /\ Shaped(door, r)
      BY <2>1 DEF CacheControl
  <2>2. CASE ~(door.noStore /\ Shaped(door, r))
      BY <1>1, <1>2, <2>2 DEF CacheControl
  <2> QED  BY <2>1, <2>2
<1> QED  BY <1>3 DEF MayStore

LEMMA FreshIsAhead ==
    ASSUME NEW r, NEW e, e.cc = CacheControl(door, r), e.until = Until(door), door.asked = Nil, Fresh(e)
    PROVE  SelfContained(door) /\ door.expiry = "at" /\ deadline = e.until
<1>1. "max-age" \in CacheControl(door, r)
    BY DEF Fresh
<1>2. "max-age" \in Projected(door, r)
    BY <1>1 DEF CacheControl
<1>3. Ahead(door) /\ SelfContained(door)
    BY <1>2 DEF Projected, Scope
<1> QED  BY <1>3 DEF Ahead, Until

(* An entry under a request's headers, of a read the door does not tell from  *)
(* it.                                                                        *)
LEMMA EntryIsGenuine ==
    ASSUME ReadsInv, NEW r \in door.clients, NEW s \in door.clients, NEW e,
           Status(door, r) = 200, Status(door, s) = 200, MayStore(r, CacheControl(door, r)),
           s.as = r.as, \A h \in Vary(door, s) : s[h] = r[h],
           e.read = s, e.content \in {WholeAt(door, s, version), PartAt(door, s, version)},
           e.tag = TagAt(door, r, version), e.cookie = door.cookie, e.cc = CacheControl(door, r),
           e.until = Until(door), e.vary = Vary(door, r), e.allow = AllowOrigin(door, r)
    PROVE  Genuine(e)
<1>1. Negotiated(door, r) # "refused" /\ Negotiated(door, s) # "refused"
    BY DEF Status
<1>2. /\ Capability(door, s) = Capability(door, r) /\ Vary(door, s) = Vary(door, r)
      /\ AllowOrigin(door, s) = AllowOrigin(door, r) /\ Face(door, s) = Face(door, r)
    BY <1>1, AskedAlike DEF ReadsInv
<1>3. View(door, s) = View(door, r)
    BY <1>2 DEF View
<1>4. TagAt(door, s, version) = TagAt(door, r, version)
    BY <1>2, <1>3 DEF TagAt, WholeAt
<1>5. ~e.cookie
    BY CookieIsNotStored DEF ReadsInv
<1>6. e.until \in Nat
    BY DEF Until, ReadsInv
<1>7. Lasting(e, version)
    BY FreshIsAhead DEF Lasting
<1>8. ASSUME cache = "shared"
      PROVE  Capability(door, s) = Capability(door, [s EXCEPT !.creds = Nil])
  <2>1. ~Shaped(door, r)
      BY <1>8, SharedIsUnshaped
  <2>2. DOMAIN r = {"as", "accept", "creds", "origin"} /\ DOMAIN s = {"as", "accept", "creds", "origin"}
    <3>1. \A q \in door.clients : DOMAIN q = {"as", "accept", "creds", "origin"}
        BY ZenonT(60) DEF ReadsInv
    <3> QED  BY <3>1
  <2> DEFINE r0 == [r EXCEPT !.creds = Nil]
             s0 == [s EXCEPT !.creds = Nil]
  <2>3. r0.creds = Nil /\ s0.creds = Nil
      BY <2>2
  <2> HIDE DEF r0, s0
  <2>4. Capability(door, s0) = Capability(door, r0)
      BY <2>3 DEF Capability
  <2>5. Capability(door, r0) = Capability(door, r)
    <3>1. Capability(door, r).who = Nil
        BY <2>1 DEF Shaped
    <3>2. CASE door.pin # Nil
        BY <3>2 DEF Capability, ReadsInv
    <3>3. CASE r.creds = Nil
        BY <2>3, <3>3 DEF Capability
    <3>4. CASE door.pin = Nil /\ r.creds # Nil
        BY <2>1, <3>4 DEF Shaped, r0
    <3> QED  BY <3>2, <3>3, <3>4
  <2> QED  BY <1>2, <2>4, <2>5 DEF s0
<1>9. GenuineAt(e, version)
    BY <1>4, <1>7 DEF GenuineAt
<1> QED  BY <1>2, <1>5, <1>6, <1>8, <1>9 DEF Genuine, ReadsInv

(* What the cache keeps of the answer to a request.                           *)
LEMMA KeptAreGenuine ==
    ASSUME ReadsInv, NEW r, NEW x, Keeps(r, x), UNCHANGED <<door, cache, moment, version, deadline>>,
           MayStore(r, x.cc) => Genuine(x)
    PROVE  ReadsInv'
<1>1. \A e \in copies' : e \in copies \/ (e = x /\ MayStore(r, x.cc))
    BY DEF Keeps
<1>2. \A e : Genuine(e) => Genuine(e)'
    BY DEF Genuine, GenuineAt, Lasting, Fresh
<1>3. \A e \in copies' : Genuine(e)
    BY <1>1 DEF ReadsInv
<1>4. \A e \in copies' : Genuine(e)'
    BY <1>2, <1>3
<1> QED  BY <1>4 DEF ReadsInv

LEMMA ResponseIs ==
    ASSUME ReadsInv, NEW r \in door.clients, NEW a, a = Response(door, r)
    PROVE  /\ a.read = r /\ a.content = WholeAt(door, r, version) /\ a.tag = TagAt(door, r, version)
           /\ a.cookie = door.cookie /\ a.cc = CacheControl(door, r) /\ a.until = Until(door)
           /\ a.vary = Vary(door, r) /\ a.allow = AllowOrigin(door, r)
<1>1. Content(door, r) = WholeAt(door, r, version)
    BY DEF Content, Half, WholeAt
<1> QED  BY <1>1 DEF Response, ValidatorEtag, TagOf, TagAt

LEMMA FetchStores ==
    ASSUME ReadsInv, NEW r \in door.clients, Fetch(r)
    PROVE  ReadsInv'
<1> DEFINE a == Response(door, r)
<1>1. Status(door, r) = 200 /\ UNCHANGED <<door, cache, moment, version, deadline>>
    BY DEF Fetch, Asks
<1>2. /\ a.read = r /\ a.content = WholeAt(door, r, version) /\ a.tag = TagAt(door, r, version)
      /\ a.cookie = door.cookie /\ a.cc = CacheControl(door, r) /\ a.until = Until(door)
      /\ a.vary = Vary(door, r) /\ a.allow = AllowOrigin(door, r)
    BY ResponseIs
<1>3. CASE Keeps(r, a)
  <2> HIDE DEF a
  <2>1. MayStore(r, a.cc) => Genuine(a)
      BY <1>1, <1>2, EntryIsGenuine
  <2> QED  BY <1>1, <1>3, <2>1, KeptAreGenuine
<1>4. CASE Keeps(r, Halved(a))
  <2> DEFINE x == Halved(a)
  <2>1. /\ x.read = a.read /\ x.tag = a.tag /\ x.cookie = a.cookie /\ x.cc = a.cc /\ x.until = a.until
        /\ x.vary = a.vary /\ x.allow = a.allow
      BY DEF Halved, Response
  <2>2. x.content = PartAt(door, r, version)
    <3>1. x.content = [a.content EXCEPT !.bytes[2] = Nil]
        BY DEF Halved, Response
    <3>2. x.content = [WholeAt(door, r, version) EXCEPT !.bytes[2] = Nil]
        BY <1>2, <3>1
    <3> QED  BY <3>2 DEF WholeAt, PartAt
  <2> HIDE DEF x, a
  <2>3. MayStore(r, x.cc) => Genuine(x)
      BY <1>1, <1>2, <2>1, <2>2, EntryIsGenuine
  <2> QED  BY <1>1, <1>4, <2>3, KeptAreGenuine DEF x
<1> QED  BY <1>3, <1>4 DEF Fetch

(* An entry under the tag of the answer there is now is of this version.      *)
LEMMA TagIsOfNow ==
    ASSUME ReadsInv, NEW r \in door.clients, NEW e \in copies,
           e.tag # Nil, e.tag = TagAt(door, r, version)
    PROVE  /\ e.content \in {WholeAt(door, r, version), PartAt(door, r, version)}
           /\ e.content \in {WholeAt(door, e.read, version), PartAt(door, e.read, version)}
<1>1. PICK v \in Nat : GenuineAt(e, v)
    BY DEF ReadsInv, Genuine
<1>2. WholeAt(door, e.read, v) = WholeAt(door, r, version)
    BY <1>1 DEF GenuineAt, TagAt
<1>3. Face(door, e.read) = Face(door, r) /\ View(door, e.read) = View(door, r) /\ v = version
  <2>1. WholeAt(door, e.read, v).type = Face(door, e.read) /\ WholeAt(door, r, version).type = Face(door, r)
      BY DEF WholeAt
  <2>2. WholeAt(door, e.read, v).bytes[1] = <<View(door, e.read), v>> /\ WholeAt(door, r, version).bytes[1] = <<View(door, r), version>>
      BY DEF WholeAt
  <2>3. <<View(door, e.read), v>> = <<View(door, r), version>>
      BY <1>2, <2>2
  <2> QED  BY <1>2, <2>1, <2>3
<1> QED  BY <1>1, <1>3 DEF GenuineAt, WholeAt, PartAt

LEMMA RevalidateStores ==
    ASSUME ReadsInv, NEW r \in door.clients, Revalidate(r)
    PROVE  ReadsInv'
<1> DEFINE a == Response(door, r)
<1>1. /\ Status(door, r) = 200 /\ UNCHANGED <<door, cache, moment, version, deadline>>
      /\ a.tag # Nil
    BY DEF Revalidate, Asks, NotModified
<1>2. PICK e \in copies : Selected(e, r) /\ InFull(e) /\ e.tag = a.tag
                          /\ Keeps(r, [a EXCEPT !.content = e.content, !.read = e.read])
    BY DEF Revalidate
<1> DEFINE x == [a EXCEPT !.content = e.content, !.read = e.read]
<1>3. /\ x.read = e.read /\ x.content = e.content /\ x.tag = a.tag /\ x.cookie = a.cookie /\ x.cc = a.cc
      /\ x.until = a.until /\ x.vary = a.vary /\ x.allow = a.allow
    BY DEF Response
<1>4. /\ a.read = r /\ a.content = WholeAt(door, r, version) /\ a.tag = TagAt(door, r, version)
      /\ a.cookie = door.cookie /\ a.cc = CacheControl(door, r) /\ a.until = Until(door)
      /\ a.vary = Vary(door, r) /\ a.allow = AllowOrigin(door, r)
    BY ResponseIs
<1>5. Keeps(r, x)
    BY <1>2
<1> HIDE DEF x, a
<1>6. /\ e.read \in door.clients /\ Status(door, e.read) = 200
      /\ e.read.as = r.as /\ \A h \in Vary(door, e.read) : e.read[h] = r[h]
    BY <1>2, ZenonT(120) DEF ReadsInv, Genuine, Selected
<1>7. e.content \in {WholeAt(door, e.read, version), PartAt(door, e.read, version)}
    BY <1>1, <1>2, <1>4, TagIsOfNow
<1>8. MayStore(r, x.cc) => Genuine(x)
    BY <1>1, <1>3, <1>4, <1>6, <1>7, EntryIsGenuine
<1> QED  BY <1>1, <1>5, <1>8, KeptAreGenuine

LEMMA ResumeStores ==
    ASSUME ReadsInv, NEW r \in door.clients, Resume(r)
    PROVE  ReadsInv'
<1> DEFINE a == Response(door, r)
<1>1. Status(door, r) = 200 /\ UNCHANGED <<door, cache, moment, version, deadline>>
    BY DEF Resume, Asks
<1>2. PICK e \in copies : /\ PartialContent(door, a, e.tag)
                          /\ Keeps(r, [a EXCEPT !.content.bytes[1] = e.content.bytes[1]])
    BY DEF Resume
<1> DEFINE x == [a EXCEPT !.content.bytes[1] = e.content.bytes[1]]
<1>3. /\ x.read = a.read /\ x.tag = a.tag /\ x.cookie = a.cookie /\ x.cc = a.cc /\ x.until = a.until
      /\ x.vary = a.vary /\ x.allow = a.allow
      /\ x.content = [a.content EXCEPT !.bytes[1] = e.content.bytes[1]]
    BY DEF Response
<1>4. /\ a.read = r /\ a.content = WholeAt(door, r, version) /\ a.tag = TagAt(door, r, version)
      /\ a.cookie = door.cookie /\ a.cc = CacheControl(door, r) /\ a.until = Until(door)
      /\ a.vary = Vary(door, r) /\ a.allow = AllowOrigin(door, r)
    BY ResponseIs
<1>5. Keeps(r, x)
    BY <1>2
<1> HIDE DEF x, a
<1>6. e.tag = TagAt(door, r, version) /\ Ranged(door)
    BY <1>2, <1>4 DEF PartialContent
<1>7. e.content.bytes[1] = <<View(door, r), version>>
  <2>1. PICK v \in Nat : GenuineAt(e, v)
      BY DEF ReadsInv, Genuine
  <2>2. WholeAt(door, e.read, v) = WholeAt(door, r, version)
      BY <1>6, <2>1 DEF GenuineAt, TagAt
  <2>3. e.content.bytes[1] = WholeAt(door, e.read, v).bytes[1]
      BY <2>1 DEF GenuineAt, WholeAt, PartAt
  <2> QED  BY <2>2, <2>3 DEF WholeAt
<1>8. x.content = WholeAt(door, r, version)
    BY <1>3, <1>4, <1>7, SMTT(60) DEF WholeAt
<1>9. MayStore(r, x.cc) => Genuine(x)
    BY <1>1, <1>3, <1>4, <1>8, EntryIsGenuine
<1> QED  BY <1>1, <1>5, <1>9, KeptAreGenuine

(* Whatever only time can change does not while it is ahead of its deadline.  *)
LEMMA ChangeKeeps ==
    ASSUME ReadsInv, Change
    PROVE  ReadsInv'
<1>1. UNCHANGED <<door, cache, moment, copies>> /\ version' = version + 1 /\ (door.written \/ ~Ahead(door))
      /\ deadline' = moment + door.life
    BY DEF Change
<1>2. ASSUME NEW e \in copies
      PROVE  Genuine(e)'
  <2>1. Genuine(e)
      BY DEF ReadsInv
  <2>2. PICK v \in Nat : GenuineAt(e, v)
      BY <2>1 DEF Genuine
  <2>3. ~(door.asked = Nil /\ Fresh(e))
    <3> SUFFICES ASSUME door.asked = Nil, Fresh(e) PROVE FALSE
        OBVIOUS
    <3>1. SelfContained(door) /\ door.expiry = "at" /\ deadline = e.until
        BY <2>2 DEF GenuineAt, Lasting
    <3>2. Ahead(door)
        BY <3>1, <2>1 DEF Ahead, Fresh, ReadsInv, Genuine
    <3>3. ~door.written
        BY <3>1 DEF SelfContained, ReadsInv
    <3> QED  BY <1>1, <3>2, <3>3
  <2>4. GenuineAt(e, v)'
      BY <1>1, <2>2, <2>3 DEF GenuineAt, Lasting, Fresh
  <2> QED  BY <1>1, <2>1, <2>4 DEF Genuine
<1>3. door' \in Doors /\ moment' \in Nat /\ version' \in Nat /\ deadline' \in Nat
    BY <1>1 DEF ReadsInv
<1> QED  BY <1>1, <1>2, <1>3 DEF ReadsInv

LEMMA MomentKeeps ==
    ASSUME ReadsInv, ReadsTick
    PROVE  ReadsInv'
<1>1. UNCHANGED <<door, cache, version, deadline, copies>> /\ moment' = moment + 1
    BY DEF ReadsTick
<1>2. ASSUME NEW e \in copies
      PROVE  Genuine(e)'
  <2>1. Genuine(e)
      BY DEF ReadsInv
  <2>2. PICK v \in Nat : GenuineAt(e, v)
      BY <2>1 DEF Genuine
  <2>3. Fresh(e)' => Fresh(e)
      BY <1>1, <2>1 DEF Fresh, ReadsInv, Genuine
  <2>4. GenuineAt(e, v)'
      BY <1>1, <2>2, <2>3 DEF GenuineAt, Lasting
  <2> QED  BY <1>1, <2>1, <2>4 DEF Genuine
<1> QED  BY <1>1, <1>2 DEF ReadsInv

LEMMA ReadsStart == ReadsInit => ReadsInv
BY DEF ReadsInit, ReadsInv

LEMMA ReadsStep == ReadsInv /\ [ReadsNext]_readVars => ReadsInv'
<1> SUFFICES ASSUME ReadsInv, [ReadsNext]_readVars PROVE ReadsInv'
    OBVIOUS
<1>1. CASE UNCHANGED readVars
  <2>1. \A e : Genuine(e) => Genuine(e)'
      BY <1>1 DEF readVars, Genuine, GenuineAt, Lasting, Fresh
  <2> QED  BY <1>1, <2>1 DEF readVars, ReadsInv
<1> QED
    BY <1>1, ChangeKeeps, MomentKeeps, FetchStores, RevalidateStores, ResumeStores DEF ReadsNext

LEMMA ReadsSafe ==
    ASSUME ReadsInv
    PROVE  AsIfAsked
<1> SUFFICES ASSUME NEW e \in copies, NEW r \in door.clients,
                    NEW a, a = Response(door, r)
             PROVE  /\ HandedOut(e, r) /\ Status(door, r) # 406 =>
                          /\ Status(door, r) = 200 /\ e.allow = a.allow
                          /\ Of(door, e.content) = Of(door, a.content)
                    /\ Status(door, r) = 200 /\ e.tag # Nil /\ e.tag = a.tag =>
                          /\ e.content.type = a.content.type
                          /\ e.content.bytes[1] = a.content.bytes[1]
                          /\ e.content.bytes[2] \in {Nil, a.content.bytes[2]}
                    /\ ~e.cookie
                    /\ cache = "shared" =>
                          Capability(door, e.read) = Capability(door, [e.read EXCEPT !.creds = Nil])
    BY DEF AsIfAsked
<1>1. Genuine(e)
    BY DEF ReadsInv
<1>2. a.content = WholeAt(door, r, version) /\ a.tag = TagAt(door, r, version) /\ a.allow = AllowOrigin(door, r)
    BY ResponseIs
<1>3. ASSUME HandedOut(e, r), Status(door, r) # 406
      PROVE  /\ Status(door, r) = 200 /\ e.allow = a.allow
             /\ Of(door, e.content) = Of(door, a.content)
  <2>1. e.read.as = r.as /\ \A h \in Vary(door, e.read) : e.read[h] = r[h]
      BY <1>1, <1>3 DEF HandedOut, Selected, Genuine
  <2>2. Negotiated(door, r) # "refused" /\ Negotiated(door, e.read) # "refused"
      BY <1>1, <1>3 DEF Status, Genuine
  <2>3. /\ Capability(door, e.read) = Capability(door, r)
        /\ AllowOrigin(door, e.read) = AllowOrigin(door, r) /\ Face(door, e.read) = Face(door, r)
      BY <1>1, <2>1, <2>2, AskedAlike, SMTT(60) DEF ReadsInv, Genuine
  <2>4. Status(door, r) = 200 /\ e.allow = a.allow
      BY <1>1, <1>2, <2>2, <2>3 DEF Status, Genuine
  <2>5. PICK v \in Nat : GenuineAt(e, v)
      BY <1>1 DEF Genuine
  <2>6. e.content = WholeAt(door, e.read, v)
      BY <1>3, <2>5 DEF GenuineAt, HandedOut, InFull, PartAt
  <2>7. View(door, e.read) = View(door, r)
      BY <2>3 DEF View
  <2>8. e.content = WholeAt(door, r, v)
      BY <2>3, <2>6, <2>7 DEF WholeAt
  <2>9. CASE door.asked = Nil
    <3>1. v = version
        BY <1>3, <2>5, <2>9 DEF GenuineAt, Lasting, HandedOut
    <3> QED  BY <1>2, <2>4, <2>8, <3>1
  <2>10. CASE door.asked # Nil
      BY <1>2, <2>4, <2>8, <2>10 DEF Of, WholeAt
  <2> QED  BY <2>9, <2>10
<1>4. ASSUME e.tag # Nil, e.tag = a.tag
      PROVE  /\ e.content.type = a.content.type
             /\ e.content.bytes[1] = a.content.bytes[1]
             /\ e.content.bytes[2] \in {Nil, a.content.bytes[2]}
  <2>1. e.content \in {WholeAt(door, r, version), PartAt(door, r, version)}
      BY <1>2, <1>4, TagIsOfNow
  <2> QED  BY <1>2, <2>1 DEF WholeAt, PartAt
<1> QED  BY <1>1, <1>3, <1>4 DEF Genuine

(* What a cache hands out is what the door would answer, and what it holds is *)
(* its own: for any doors, faces, credentials and origins, and however the    *)
(* resource changes.                                                          *)
THEOREM ReadsAreAsIfAsked == ReadsSpec => []AsIfAsked
<1>1. ReadsInit => ReadsInv
    BY ReadsStart
<1>2. ReadsInv /\ [ReadsNext]_readVars => ReadsInv'
    BY ReadsStep
<1>3. ReadsInv => AsIfAsked
    BY ReadsSafe
<1> QED  BY <1>1, <1>2, <1>3, PTL DEF ReadsSpec
=============================================================================
