------------------------------ MODULE McpTools ------------------------------
(* The projection of the kernel's bindings as MCP tools, and the way of a     *)
(* call back to one of them (crates/ikigai-mcp/src: lib.rs, and tools_list,   *)
(* tool_groups and tools_call of server.rs).  Rows that share an id project   *)
(* one tool for each contract; the patterns they are bound at come back as    *)
(* arguments of it.  Between a list and a call a mount may go or return.      *)
(*                                                                            *)
(* An IRI is a sequence of segments, a pattern one in which a segment may be  *)
(* a variable, an argument's value a sequence too: <<"a", "b">> is "a:b".     *)
EXTENDS Naturals, Sequences, FiniteSets

CONSTANTS
    Kernels,    \* the kernels to look at: sequences of rows, in selection order
    Mounted,    \* where rows are served from, besides the local space
    Vars,       \* the template variables
    Base,       \* each id's tool name
    Qualified,  \* the tool name of a further contract under it
    Unnamed,    \* neither: too long, or not readable back
    Inputs,     \* each contract's declared inputs: bindings, required, default
    Calls       \* what clients send: a name and arguments

ASSUME McpToolsAssumption ==
    \A k \in Kernels :
        /\ DOMAIN k \subseteq Nat
        /\ \A i \in DOMAIN k : /\ k[i].id \in DOMAIN Base /\ k[i].contract \in DOMAIN Inputs
                             /\ k[i].at \in Mounted \union {"local"}

VARIABLES
    kernel,
    reach,      \* the mounts that answer
    listed,     \* the tools the client was last shown
    call,       \* the call it made, and the manifold it met
    answer

toolsVars == <<kernel, reach, listed, call, answer>>

NoCall == [name |-> Unnamed, args |-> [x \in {} |-> <<>>]]
Refused == [ok |-> FALSE]

ToolsInit ==
    /\ kernel \in Kernels /\ reach = Mounted
    /\ listed = {} /\ call = NoCall /\ answer = Refused

(* The rows in reach, by their places in selection order; of some of them the *)
(* first, and all of them in that order.                                      *)
Manifold == {i \in DOMAIN kernel : kernel[i].at \in reach \union {"local"}}
Lowest(places) == CHOOSE i \in places : \A j \in places : i <= j
InOrder(places) ==
    [k \in 1 .. Cardinality(places) |-> CHOOSE i \in places : Cardinality({j \in places : j <= i}) = k]

-----------------------------------------------------------------------------
(* tool_groups: by name, and under one name by contract.                      *)
Named(m, b) == {i \in m : Base[kernel[i].id] = b}
Under(rows, c) == {i \in rows : kernel[i].contract = c}
FirstOf(rows) == kernel[Lowest(rows)]

Group(n, rows, ambiguous) == [name |-> n, rows |-> rows, ambiguous |-> ambiguous]

GroupsNamed(m, b) ==
    LET rows == Named(m, b)
        Contracts == {kernel[i].contract : i \in rows}
        NameOf(c) == IF c = FirstOf(rows).contract THEN b ELSE Qualified[c]
    IN  IF \E i \in rows : kernel[i].id # FirstOf(rows).id
        THEN {Group(b, rows, TRUE)}
        ELSE {g \in {Group(NameOf(c), Under(rows, c), FALSE) : c \in Contracts} : g.name # Unnamed}

(* The groups stand in the order of their bases' first rows, and then of      *)
(* their own.                                                                 *)
BaseOf(g) == Base[FirstOf(g.rows).id]
Precedes(m, g, h) ==
    LET Of(x) == Lowest(Named(m, BaseOf(x)))
    IN  Of(g) < Of(h) \/ (Of(g) = Of(h) /\ Lowest(g.rows) < Lowest(h.rows))

(* A name that another tool has already is not offered twice.                 *)
NeverTaken(m, all, g) == FALSE
Taken(m, all, g) == ~g.ambiguous /\ \E h \in all : h.name = g.name /\ Precedes(m, h, g)

ToolGroups(m) ==
    LET all == UNION {GroupsNamed(m, b) : b \in {Base[kernel[i].id] : i \in m} \ {Unnamed}}
    IN  {g \in all : ~Taken(m, all, g)}

Candidates(m, n) == {g \in ToolGroups(m) : g.name = n}
Find(m, n) == CHOOSE g \in Candidates(m, n) : \A h \in Candidates(m, n) : h = g \/ Precedes(m, g, h)

-----------------------------------------------------------------------------
(* collapse: the calling shapes of one tool, and the arguments that select.   *)
VarsOf(p) == {p[i] : i \in DOMAIN p} \intersect Vars
Patterns(rows) == [k \in DOMAIN InOrder(rows) |-> kernel[InOrder(rows)[k]].pattern]
CallShapes(ps) == {VarsOf(ps[i]) : i \in DOMAIN ps}
Subgroup(ps, vs) ==
    LET distinct == {i \in DOMAIN ps : VarsOf(ps[i]) = vs /\ \A j \in 1 .. i - 1 : ps[j] # ps[i]}
    IN  [k \in DOMAIN InOrder(distinct) |-> ps[InOrder(distinct)[k]]]

NoDimension == [name |-> Unnamed, index |-> 0, values |-> {}]

Dimension(ps, declared) ==
    LET differing == {i \in DOMAIN ps[1] : \E k \in DOMAIN ps : ps[k][i] # ps[1][i]}
        aligned == /\ Len(ps) >= 2 /\ \A k \in DOMAIN ps : Len(ps[k]) = Len(ps[1])
                   /\ Cardinality(differing) = 1
        index == CHOOSE i \in differing : TRUE
        name == ps[1][index - 1]
    IN  IF /\ aligned /\ index > 1
           /\ \A k \in DOMAIN ps : ps[k][index] \notin Vars
           /\ name \notin Vars \union declared
        THEN [name |-> name, index |-> index, values |-> {ps[k][index] : k \in DOMAIN ps}]
        ELSE NoDimension

Dimensions(ps, declared) == {Dimension(Subgroup(ps, vs), declared) : vs \in CallShapes(ps)} \ {NoDimension}
Synthesized(ps, declared) == {d.name : d \in Dimensions(ps, declared)}
ValuesOf(ps, declared, n) == UNION {d.values : d \in {x \in Dimensions(ps, declared) : x.name = n}}

-----------------------------------------------------------------------------
(* GroupShape::route: the one pattern a call's arguments select.              *)
Scalar(v) == v[1]

SelectsARow(ps, declared, args) ==
    \A n \in Synthesized(ps, declared) \intersect DOMAIN args : Scalar(args[n]) \in ValuesOf(ps, declared, n)

AnyShape(ps, supplied) == CallShapes(ps)
Accepting(ps, supplied) == {vs \in CallShapes(ps) : supplied \subseteq vs}

(* The shape that is fully answered, else the first in selection order.       *)
FirstShape(ps, supplied) == VarsOf(ps[Lowest({i \in DOMAIN ps : VarsOf(ps[i]) \in Accepting(ps, supplied)})])
Chosen(ps, supplied) == IF supplied \in CallShapes(ps) THEN supplied ELSE FirstShape(ps, supplied)

RouteIn(sub, d, args) ==
    CASE Len(sub) = 1 \/ d = NoDimension -> [ok |-> TRUE, pattern |-> sub[1]]
      [] Len(sub) > 1 /\ d # NoDimension ->
            IF d.name \in DOMAIN args /\ Scalar(args[d.name]) \in d.values
            THEN [ok |-> TRUE, pattern |-> sub[Lowest({i \in DOMAIN sub : sub[i][d.index] = Scalar(args[d.name])})]]
            ELSE Refused

Route(ps, declared, supplied, args) ==
    IF ~SelectsARow(ps, declared, args) \/ Accepting(ps, supplied) = {} THEN Refused
    ELSE LET sub == Subgroup(ps, Chosen(ps, supplied))
         IN  RouteIn(sub, Dimension(sub, declared), args)

-----------------------------------------------------------------------------
(* tools_call: group, route, validate, substitute, and see what it reaches.   *)
Conforms(given, in) == in.required \subseteq given /\ given \subseteq in.declared

(* A variable is replaced by its value, or its default; one with neither goes *)
(* with its segment.                                                          *)
ValueOf(args, in, v) == IF v \in DOMAIN args THEN args[v] ELSE IF v \in DOMAIN in.default THEN in.default[v] ELSE <<>>
Fill(pattern, args, in) ==
    LET upto[i \in 0 .. Len(pattern)] ==
            IF i = 0 THEN <<>>
            ELSE upto[i - 1] \o (IF pattern[i] \in Vars THEN ValueOf(args, in, pattern[i]) ELSE <<pattern[i]>>)
    IN  upto[Len(pattern)]

Dropped(pattern, args, in) == {v \in VarsOf(pattern) : ValueOf(args, in, v) = <<>>}
Structural(pattern, args) == {v \in VarsOf(pattern) \intersect DOMAIN args : Len(args[v]) > 1}

(* Resolution: the first row whose pattern the IRI is of; a variable that     *)
(* ends a pattern takes the rest.                                             *)
Matches(p, iri) ==
    /\ Len(iri) >= Len(p) /\ \A i \in 1 .. Len(p) - 1 : p[i] \in Vars \/ p[i] = iri[i]
    /\ p[Len(p)] \in Vars \/ (Len(iri) = Len(p) /\ p[Len(p)] = iri[Len(p)])
Binds(m, iri) == \E i \in m : Matches(kernel[i].pattern, iri)
Resolve(m, iri) == FirstOf({i \in m : Matches(kernel[i].pattern, iri)})

IsReached(m, iri, id) == Binds(m, iri) /\ Resolve(m, iri).id = id

ToolsCall(m, n, args) ==
    IF Candidates(m, n) = {} \/ Find(m, n).ambiguous THEN Refused
    ELSE LET g == Find(m, n)
             in == Inputs[FirstOf(g.rows).contract]
             ps == Patterns(g.rows)
             supplied == in.bindings \intersect DOMAIN args
             routed == Route(ps, in.declared, supplied, args)
             target == Fill(routed.pattern, args, in)
             doubtful == Dropped(routed.pattern, args, in) \union Structural(routed.pattern, args) # {}
         IN  IF \/ ~routed.ok \/ ~Conforms(DOMAIN args \ Synthesized(ps, in.declared), in)
                \/ (doubtful /\ ~IsReached(m, target, FirstOf(g.rows).id))
             THEN Refused
             ELSE [ok |-> TRUE, id |-> FirstOf(g.rows).id, contract |-> FirstOf(g.rows).contract,
                   rows |-> g.rows, pattern |-> routed.pattern, supplied |-> supplied, target |-> target,
                   reached |-> IF Binds(m, target) THEN Resolve(m, target).id ELSE Unnamed]

ToolsList(m) ==
    {[name |-> g.name, id |-> FirstOf(g.rows).id, contract |-> FirstOf(g.rows).contract,
      further |-> g.name # BaseOf(g)] :
        g \in {x \in ToolGroups(m) : ~x.ambiguous}}

-----------------------------------------------------------------------------
ListTools ==
    /\ listed' = ToolsList(Manifold) /\ UNCHANGED <<kernel, reach, call, answer>>

CallTool(c) ==
    /\ call = NoCall
    /\ call' = c /\ answer' = ToolsCall(Manifold, c.name, c.args)
    /\ UNCHANGED <<kernel, reach, listed>>

(* A mount goes or returns; what was answered before is of no more interest.  *)
Remount(mounts) ==
    /\ call = NoCall /\ mounts # reach /\ reach' = mounts
    /\ UNCHANGED <<kernel, listed, call, answer>>

ToolsNext == ListTools \/ (\E c \in Calls : CallTool(c)) \/ (\E mounts \in SUBSET Mounted : Remount(mounts))
ToolsSpec == ToolsInit /\ [][ToolsNext]_toolsVars

-----------------------------------------------------------------------------
(* What a client is shown is a tool of the manifold, under a name of its own; *)
(* an answered call went to a row of one that is reachable.                   *)
ToolsTypeOK ==
    /\ kernel \in Kernels /\ reach \subseteq Mounted
    /\ \A s, t \in listed : s.name = t.name => s = t
    /\ answer.ok => \E i \in answer.rows : kernel[i].at \in reach \union {"local"}
                                         /\ kernel[i].pattern = answer.pattern

(* What is shown is what routes: a tool of the list finds the rows of its own *)
(* id and contract, all of them, and a name that two ids project to finds     *)
(* none.                                                                      *)
ListedRoutes ==
    \A t \in ToolsList(Manifold) :
        LET g == Find(Manifold, t.name)
        IN  /\ ~g.ambiguous /\ g.rows = Under(Named(Manifold, Base[t.id]), t.contract)
            /\ \A i \in g.rows : kernel[i].id = t.id

(* No binding argument a caller gave is dropped on the way: the row that is   *)
(* called has a variable for each of them.                                    *)
BindingsKept == answer.ok => answer.supplied \subseteq VarsOf(answer.pattern)

(* Where every calling shape is one pattern or an aligned set of them, every  *)
(* row can be called: some values of the tool's own arguments select it.      *)
Choices(ps, declared) ==
    LET names == Synthesized(ps, declared)
    IN  {f \in [names -> UNION {ValuesOf(ps, declared, n) : n \in names} \union {Unnamed}] :
            \A n \in names : f[n] \in ValuesOf(ps, declared, n) \union {Unnamed}}
ArgsOf(f) == [n \in {x \in DOMAIN f : f[x] # Unnamed} |-> <<f[n]>>]
Selectable(ps, declared, p) ==
    \E f \in Choices(ps, declared), supplied \in SUBSET Vars :
        Route(ps, declared, supplied, ArgsOf(f)) = [ok |-> TRUE, pattern |-> p]
Aligned(ps, declared) ==
    \A vs \in CallShapes(ps) : Len(Subgroup(ps, vs)) = 1 \/ Dimension(Subgroup(ps, vs), declared) # NoDimension

AlignedReachable ==
    \A g \in ToolGroups(Manifold) :
        LET ps == Patterns(g.rows)
            declared == Inputs[FirstOf(g.rows).contract].declared
        IN  Aligned(ps, declared) => \A i \in DOMAIN ps : Selectable(ps, declared, ps[i])

(* lib.rs on the collapse: "every bound row must stay reachable by call".     *)
(* It does not hold: README, Disagreements.                                   *)
EveryRowReachable ==
    \A g \in ToolGroups(Manifold) :
        LET ps == Patterns(g.rows)
        IN  \A i \in DOMAIN ps : Selectable(ps, Inputs[FirstOf(g.rows).contract].declared, ps[i])

(* tools_call on routing: "An argument no row can absorb, or a selector value *)
(* naming no row, is a loud error — never a silent drop."  A call that is     *)
(* answered was answered by a row its selectors name.                         *)
(* It does not hold: README, Disagreements.                                   *)
SelectorHonoured ==
    answer.ok =>
        \A n \in DOMAIN call.args \intersect Synthesized(Patterns(answer.rows), Inputs[answer.contract].declared) :
            \E i \in 2 .. Len(answer.pattern) : answer.pattern[i - 1] = n /\ answer.pattern[i] = Scalar(call.args[n])

(* tools_call on bindings: "what is refused is a call answered by an endpoint *)
(* the tool does not name".                                                   *)
(* It does not hold: README, Disagreements.                                   *)
NeverAnotherEndpoint == answer.ok => answer.reached \in {answer.id, Unnamed}

(* tool_groups on a further contract's name: "stable while the contract is".  *)
(* A tool that was listed under such a name, and whose contract is still      *)
(* served, is still called by it.                                             *)
(* It does not hold: README, Disagreements.                                   *)
FurtherNameStable ==
    \A t \in listed :
        (t.further /\ \E i \in Manifold : kernel[i].contract = t.contract) => Candidates(Manifold, t.name) # {}
=============================================================================
