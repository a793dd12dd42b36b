------------------------------ MODULE WebLadder -----------------------------
(* A request to the web door, from its head to what reaches the kernel        *)
(* (crates/ikigai-web: answer, answer_admitted, respond, RouteTable,          *)
(* origin.rs, redirect.rs, read_redirect.rs, error_page.rs, upload::plan):    *)
(* the refusals in their order, the target its path is routed to, the         *)
(* capability it is given, and the request the kernel is issued.  The route   *)
(* table may be swapped between a spilled upload's plan and its answer.       *)
(* The resources behind the door, and what a browser sends, are external.     *)
EXTENDS Naturals, Sequences, FiniteSets, SequencesExt

CONSTANTS
    Doors,      \* its configurations
    Tables,     \* the route tables it may be given
    Worlds,     \* the contracts behind it: a function of the bound IRIs
    Requests,   \* what clients send
    Delims,     \* GEN_DELIMS
    None

VARIABLES
    door, table, world,
    work        \* the request under way: idle, spilling, or told its answer

vars == <<door, table, world, work>>
Behind == <<door, table, world>>

-----------------------------------------------------------------------------
(* RouteTable::match_path: the first route whose shape fits claims the path.  *)
(* A segment is the sequence of its characters once decoded, so a delimiter   *)
(* the client escaped is one of them; a strict variable refuses it.           *)
Fits(route, path) ==
    /\ Len(route.pattern) = Len(path)
    /\ \A i \in DOMAIN path : route.pattern[i].var \/ route.pattern[i].is = path[i]

Routed(t, path) == {i \in DOMAIN t : Fits(t[i], path)}
Matched(t, path) == t[CHOOSE i \in Routed(t, path) : \A j \in Routed(t, path) : i <= j]

Characters(s) == {s[i] : i \in DOMAIN s}
Strict(route, i) == route.pattern[i].var /\ (~route.pattern[i].raw \/ i \in route.spelledStrict)
RefusesPath(route, path) ==
    \E i \in DOMAIN path : Strict(route, i) /\ Characters(path[i]) \intersect Delims # {}

(* expand: one pass, so a value is never read as a variable.                  *)
Expand(template, path) ==
    FlattenSeq([i \in DOMAIN template |-> IF template[i].var THEN path[template[i].at] ELSE template[i].is])
(* iri_from_path: the segments, joined by colons.                             *)
Mechanical(path) ==
    FlattenSeq([i \in 1 .. 2 * Len(path) |-> IF i % 2 = 1 THEN <<":">> ELSE path[i \div 2]])

Iri(t, path) == IF Routed(t, path) # {} THEN Expand(Matched(t, path).template, path) ELSE Mechanical(path)

(* page_path: a path that leads back to the page through this very table.     *)
Reaches(t, path, iri) ==
    IF Routed(t, path) # {} THEN ~RefusesPath(Matched(t, path), path) /\ Iri(t, path) = iri
    ELSE ~door.routesOnly /\ Mechanical(path) = iri
HasPage(t, iri, paths) == \E p \in paths : Reaches(t, p, iri)

-----------------------------------------------------------------------------
(* OriginCheck::check, the door's admission.                                  *)
Safe == {"GET", "HEAD", "OPTIONS"}
Ambient(r) == r.creds \in door.ambient
Admitted(r) ==
    \/ ~door.checks \/ r.method \in Safe
    \/ /\ ~r.twice
       /\ IF r.origin # None THEN r.origin \in door.origins
          ELSE IF r.site # None THEN r.site \in {"same-origin", "none"}
          ELSE ~Ambient(r)

(* request_capability; offered_actions, the manifold's own predicate.         *)
ScopeOf(t, r) ==
    IF Routed(t, r.path) # {} /\ Matched(t, r.path).pin # None THEN Matched(t, r.path).pin ELSE door.grants[r.creds]
Capability(t, r) ==
    [scope |-> ScopeOf(t, r), who |-> IF door.names /\ ScopeOf(t, r) # "root" THEN door.person[r.creds] ELSE None]

Contract(w, iri) == IF iri \in DOMAIN w THEN w[iri] ELSE [verbs |-> {}, needs |-> {}, lists |-> {}]
Declared(t, w, r) == Contract(w, Iri(t, r.path)).verbs
Offered(t, w, r) ==
    LET c == Contract(w, Iri(t, r.path))
    IN  {v \in c.verbs : \A n \in c.needs : n[1] = v => n[2] = Capability(t, r).scope}

VerbOf(method) ==
    CASE method \in {"GET", "HEAD"} -> "Source"
      [] method \in {"PUT", "POST", "PATCH"} -> "Sink"
      [] method = "DELETE" -> "Delete"
      [] OTHER -> None
Mutating == {"Sink", "Delete"}
Provenance == {"received", "client", "principal"}

(* forwarded_query, joined_query: the names the door keeps for itself, and a  *)
(* repeat of any other that is no list.                                       *)
Reserved(r) == {"as", "content", "principal"} \union {n \in Provenance : VerbOf(r.method) \in Mutating}
Given(r, n) == SelectSeq(r.query, LAMBDA a : a[1] = n)
Names(r) == {r.query[i][1] : i \in DOMAIN r.query}
Forwarded(r) == Names(r) \ Reserved(r)
Repeated(t, w, r) ==
    \/ Len(Given(r, "as")) > 1
    \/ \E n \in Forwarded(r) \ Contract(w, Iri(t, r.path)).lists : Len(Given(r, n)) > 1
Values(r, n) == [i \in DOMAIN Given(r, n) |-> Given(r, n)[i][2]]

(* What the kernel is issued: the forwarded arguments, and, on a write, who   *)
(* sent it, read off the connection.                                          *)
Stamped(r) == IF VerbOf(r.method) \in Mutating
              THEN {n \in Provenance : n = "principal" => door.names /\ door.person[r.creds] # None} ELSE {}
Connection(r, n) == IF n = "principal" THEN <<door.person[r.creds]>> ELSE <<n>>
Issued(t, r, held) ==
    [does |-> "issue", verb |-> VerbOf(r.method), iri |-> Iri(t, r.path), cap |-> Capability(t, r), held |-> held,
     args |-> [n \in Forwarded(r) \union Stamped(r) |->
                  IF n \in Stamped(r) THEN Connection(r, n) ELSE Values(r, n)]]

-----------------------------------------------------------------------------
(* error_page: a browser that prefers it is answered with a page.             *)
Page(r) == IF ~r.html THEN "plain" ELSE IF door.ownPage /\ r.browser /\ ~r.htmx THEN "own" ELSE "minimal"
Says(r, status, what) ==
    [does |-> "tell", status |-> status, what |-> what, page |-> IF status >= 400 THEN Page(r) ELSE None,
     body |-> r.method # "HEAD"]

Redirects(r) == r.method \in {"GET", "HEAD"} /\ r.path \in door.redirected
Describes(r) == r.method \in {"GET", "HEAD"} /\ "description" \in Names(r)
Allowed(r, t, w) == VerbOf(r.method) # None /\ (Declared(t, w, r) = {} \/ VerbOf(r.method) \in Declared(t, w, r))
Description(r, t, w) ==
    IF Offered(t, w, r) = {} THEN Says(r, 404, "no such resource") ELSE Says(r, 200, Offered(t, w, r))
PostsToPage(r, t) == r.method = "POST" /\ ~r.htmx /\ Routed(t, r.path) # {} /\ Matched(t, r.path).redirect # None
LostPage(r, t) ==
    /\ PostsToPage(r, t)
    /\ ~HasPage(t, Expand(Matched(t, r.path).redirect, r.path), {q.path : q \in Requests})

(* answer, answer_admitted, respond: the first rule that applies answers.     *)
Answer(r, t, w, held) ==
    LET found == Routed(t, r.path) # {}
        pathOf == ~found \/ ~RefusesPath(Matched(t, r.path), r.path)
        rules ==
          << <<~Admitted(r), Says(r, 403, "foreign")>>,
             <<Redirects(r), Says(r, 308, "elsewhere")>>,
             <<r.path = door.push, Says(r, 200, "events")>>,
             <<door.routesOnly /\ ~found, Says(r, 404, "no route")>>,
             <<~pathOf, Says(r, 400, "refused variable")>>,
             <<r.path = << >>, Says(r, 400, "no path")>>,
             <<pathOf /\ Describes(r), Description(r, t, w)>>,
             <<r.method = "OPTIONS", Says(r, 204, Declared(t, w, r))>>,
             <<~Allowed(r, t, w), Says(r, 405, Declared(t, w, r))>>,
             <<Repeated(t, w, r), Says(r, 400, "given twice")>>,
             <<r.spent, Says(r, 429, "limited")>>,
             <<r.unreadable, Says(r, 406, "faces")>>,
             <<pathOf /\ LostPage(r, t), Says(r, 500, "no page path")>>,
             <<TRUE, Issued(t, r, held)>> >>
    IN  rules[CHOOSE i \in DOMAIN rules : rules[i][1] /\ \A j \in 1 .. i - 1 : ~rules[j][1]][2]

-----------------------------------------------------------------------------
(* upload::plan: a write with a body, to an upload route, by somebody who may *)
(* spill and is named, or is root.                                            *)
Spills(r, t) ==
    /\ r.method \in {"POST", "PUT"} /\ r.body /\ r.path \in door.uploads
    /\ Routed(t, r.path) # {} => ~RefusesPath(Matched(t, r.path), r.path)
    /\ Capability(t, r).scope \in door.maySpill
    /\ Capability(t, r).who # None \/ Capability(t, r).scope = "root"

Idle == [at |-> "idle"]
Tells(r, held) ==
    work' = [at |-> "told", read |-> r, answer |-> Answer(r, table, world, held), under |-> table]

Arrive(r) ==
    /\ work = Idle
    /\ IF Spills(r, table) /\ Admitted(r)
       THEN work' = [at |-> "spilling", read |-> r, held |-> Capability(table, r)]
       ELSE Tells(r, None)
    /\ UNCHANGED Behind

(* The body has arrived, and is held for the capability of the plan; what is  *)
(* answered is worked out anew.                                               *)
Spilled ==
    /\ work.at = "spilling" /\ Tells(work.read, work.held)
    /\ UNCHANGED Behind
(* It was too slow, too long or cut.                                          *)
Cut ==
    /\ work.at = "spilling" /\ work' = Idle
    /\ UNCHANGED Behind

(* swap_routes, when the host's route file changes.                           *)
Swap ==
    /\ \E t \in Tables : table' = t
    /\ UNCHANGED <<door, world, work>>

Hang ==
    /\ work.at = "told" /\ work' = Idle
    /\ UNCHANGED Behind

Init == door \in Doors /\ table \in Tables /\ world \in Worlds /\ work = Idle
Next == Spilled \/ Cut \/ Swap \/ Hang \/ \E r \in Requests : Arrive(r)
Spec == Init /\ [][Next]_vars

-----------------------------------------------------------------------------
Told == work.at = "told"
Issues == Told /\ work.answer.does = "issue"
MayDoNothing(t, w, r) ==
    LET c == Contract(w, Iri(t, r.path))
    IN  \A v \in c.verbs : \E n \in c.needs : n[1] = v /\ n[2] # Capability(t, r).scope
(* A client who is refused at the door learns nothing of what is behind it:   *)
(* whatever the routes and the resources, he is told the same.  And one who   *)
(* asks for a contract is told the same of a resource he may do nothing to    *)
(* as of one that does not exist.                                             *)
RefusedLearnNothing ==
    Told => /\ ~Admitted(work.read) =>
                  \A t \in Tables, w \in Worlds : work.answer = Answer(work.read, t, w, None)
            /\ Describes(work.read) /\ MayDoNothing(work.under, world, work.read) =>
                  work.answer = Answer(work.read, work.under, << >>, None)

(* What reaches the kernel is the door's word.  No page elsewhere made it a   *)
(* write under somebody's credentials; its provenance is the connection's     *)
(* whatever the query says; a value captured by a strict variable gives the   *)
(* target no structure of its own; and a Sink can read the spill it is        *)
(* issued over, whatever became of the routes since its plan held it for a    *)
(* principal.  (Held for root, it need not: README, Disagreements.)           *)
ReadableBy(held, cap) == cap.scope = "root" \/ (held.who # None /\ held.who = cap.who)
IssuedIsTheDoors ==
    Issues =>
        LET r == work.read   a == work.answer
        IN  /\ a.verb \in Mutating /\ door.checks /\ r.by = "elsewhere" => ~Ambient(r)
            /\ \A n \in DOMAIN a.args : n \in Provenance /\ a.verb \in Mutating => a.args[n] = Connection(r, n)
            /\ a.held # None /\ a.held.who # None => ReadableBy(a.held, a.cap)
            /\ \A q \in Requests :
                  LET route == Matched(work.under, r.path)
                  IN  /\ Routed(work.under, r.path) # {} /\ \A i \in DOMAIN r.path : ~route.pattern[i].var \/ Strict(route, i)
                      /\ Routed(work.under, q.path) # {} /\ Matched(work.under, q.path) = route
                      /\ ~RefusesPath(route, q.path) /\ Iri(work.under, q.path) = a.iri
                      => q.path = r.path

(* A client hears nothing, and the kernel is asked nothing, that the door has *)
(* not itself granted.                                                        *)
OnTheDoorsWord == RefusedLearnNothing /\ IssuedIsTheDoors
=============================================================================
