-------------------------------- MODULE MCMcp -------------------------------
(* How a host shows what it has: its MCP surface, which is a stdio session    *)
(* and the projection of bindings as tools; the record it is found by; and    *)
(* the other machines mounted in its namespace.                               *)
(* A behaviour is one part's.  The session is taken three times: among calls, *)
(* lists and edits of the grants, for what concurrency tells apart; with one  *)
(* line of every kind; and with calls that may never come back.  The kernels  *)
(* have up to three rows of a pool with a tree of two repositories, a         *)
(* template beside it, a pattern that does not align, a peer's copy under     *)
(* another contract, another endpoint within the template, and two ids that   *)
(* differ in punctuation.  The host announced changes its addresses twice,    *)
(* and two callers list the peers.  Two users ask, read and list through      *)
(* mounts of every kind, under each of five topologies, while one of two      *)
(* peers comes or goes.                                                       *)
EXTENDS McpSession, McpTools, Mounts, FiniteSetTheorems, WellFoundedInduction, TLAPS

VARIABLES
    part,       \* "session", "shapes", "polls", "tools", "lan" or "mounts"
    host, edits, faults, run, advertised, withheld, last_failure, registered, log, slot,
    caller, cold, warm, present, age

lanVars == <<host, edits, faults, run, advertised, withheld, last_failure, registered, log, slot,
             caller, cold, warm, present, age>>
all == <<part, sessionVars, toolsVars, lanVars, mountsVars>>

Plain == [text |-> "json", object |-> TRUE, method |-> "other", id |-> "given", version |-> TRUE, params |-> TRUE,
          reply |-> FALSE, twice |-> "none", slow |-> FALSE]
ACall == [Plain EXCEPT !.method = "tools/call"]
AList == [Plain EXCEPT !.method = "tools/list"]
LongPoll == [ACall EXCEPT !.slow = TRUE]

MCMessages == {ACall, AList}
Polls == INSTANCE McpSession WITH
    Messages <- {ACall, AList, LongPoll}, MaxCalls <- 1, MaxLines <- 2, MaxSwaps <- 0

(* Every line there is: text that is not JSON has no members, a value that is *)
(* no object neither, a member named twice is one the line has.               *)
EveryShape ==
    {m \in Message :
        /\ m.text # "json" => m = [Plain EXCEPT !.text = m.text]
        /\ ~m.object => m = [Plain EXCEPT !.object = FALSE]
        /\ m.twice = "id" => m.id # "absent"
        /\ m.twice = "argument" => m.method = "tools/call" /\ m.params
        /\ ~m.slow}
EachKind == INSTANCE McpSession WITH
    Messages <- EveryShape, MaxCalls <- 1, MaxLines <- 1, MaxSwaps <- 0

-----------------------------------------------------------------------------
Row(i, c, p, a) == [id |-> i, contract |-> c, pattern |-> p, at |-> a]

Pool ==
    {Row("e", "c1", <<"urn", "repo", "x">>, "peer"), Row("e", "c1", <<"urn", "repo", "y">>, "local"),
     Row("e", "c1", <<"urn", "repo", "x", "{p}">>, "local"), Row("e", "c1", <<"urn", "repo", "y", "{p}">>, "local"),
     Row("e", "c1", <<"urn", "tree", "y">>, "local"), Row("e", "c2", <<"urn", "repo", "x">>, "local"),
     Row("f", "c3", <<"urn", "repo", "x", "k">>, "local"), Row("e.", "c4", <<"urn", "dot">>, "local"),
     Row("e-2", "c5", <<"urn", "dash">>, "peer")}

Contracts == {"c1", "c2", "c3", "c4", "c5"}
NoDefault == [x \in {} |-> <<>>]
InputsOf(c) ==
    CASE c = "c1" -> [bindings |-> {"{p}"}, declared |-> {"{p}"}, required |-> {}, default |-> NoDefault]
      [] c = "c2" -> [bindings |-> {"{p}"}, declared |-> {"{p}", "repo"}, required |-> {},
                      default |-> [x \in {"{p}"} |-> <<"l">>]]
      [] OTHER -> [bindings |-> {}, declared |-> {}, required |-> {}, default |-> NoDefault]

ArgsGiven ==
    UNION {[S -> {<<"x">>, <<"y">>}] : S \in {{}, {"repo"}}}
    \union {[q \in {"{p}"} |-> v] : v \in {<<"k">>, <<"l">>, <<"k", "l">>}}
    \union {[q \in {"{p}", "repo"} |-> IF q = "repo" THEN <<r>> ELSE v] :
                r \in {"x", "y"}, v \in {<<"k">>, <<"k", "l">>}}

MCKernels == UNION {{k \in [1 .. n -> Pool] : \A i, j \in 1 .. n : k[i] = k[j] => i = j} : n \in 1 .. 3}
MCBase == [i \in {"e", "e.", "f", "e-2"} |-> IF i = "e." THEN "e" ELSE i]
MCQualified == [c \in Contracts |-> IF c = "c1" THEN "e-1" ELSE IF c = "c2" THEN "e-2" ELSE "none"]
MCInputs == [c \in Contracts |-> InputsOf(c)]
MCCalls == [name : {"e", "e-1", "e-2", "f"}, args : ArgsGiven]

(* Loopback, link-local and two addresses that can be dialled.                *)
OnLan == INSTANCE Discovery WITH
    Hosts <- {{}, {"lo"}, {"lo", "ll"}, {"lo", "ll", "r1"}, {"r2"}, {"r1", "r2"}},
    Routable <- {"r1", "r2"}, Callers <- {"c1", "c2"}, TTL <- 1, MaxEdits <- 2, MaxFaults <- 2

(* A family preferred with one of its branches overridden; a family           *)
(* overridden with one of its names preferred, and a line naming this         *)
(* process; aliases of either depth under a preference for every name; and    *)
(* the kernel's own names.                                                    *)
MCPeers == {"p1", "p2"}
MCUsers == {"a", "b"}
MCNames == {<<"llm", "ask">>, <<"llm", "near">>, <<"store">>, <<"q", "store">>, <<"kernel", "actions">>}
MCLocal == {<<"llm", "ask">>, <<"store">>, <<"kernel", "actions">>}
MCServes == [p1 |-> {<<"llm", "ask">>, <<"store">>}, p2 |-> {<<"llm", "ask">>, <<"llm", "near">>}]
AMount(kind, prefixes, peer) == [kind |-> kind, prefixes |-> prefixes, peer |-> peer]
MCTopologies == {
    <<>>,
    <<AMount("prefer", <<<<"llm">>, <<"store">>>>, "p1"), AMount("override", <<<<"llm", "near">>>>, "p2")>>,
    <<AMount("override", <<<<"llm">>>>, "p1"), AMount("prefer", <<<<"llm", "ask">>>>, "p2"),
      AMount("override", <<<<"store">>>>, "self")>>,
    <<AMount("alias", <<<<"q">>>>, "p1"), AMount("alias", <<<<"llm">>>>, "p1"),
      AMount("alias", <<<<"llm", "near">>>>, "p2"), AMount("prefer", <<<<>>>>, "p2")>>,
    <<AMount("override", <<<<"kernel">>>>, "p1")>>}

ASSUME
    /\ EveryShape \subseteq Message /\ LongPoll \in Message
    /\ OnLan!DiscoveryAssumption

-----------------------------------------------------------------------------
OneKernel == <<Row("e", "c1", <<"urn", "repo", "y">>, "local")>>

MCInit ==
    /\ part \in {"session", "shapes", "polls", "tools", "lan", "mounts"}
    /\ MountsInit /\ (part # "mounts" => up = {})
    /\ OnLan!Init /\ (part # "lan" => host = {})
    /\ IF part = "shapes" THEN EachKind!SessionInit ELSE SessionInit
    /\ IF part = "tools" THEN ToolsInit
       ELSE /\ kernel = OneKernel /\ reach = {} /\ listed = {}
            /\ call = NoCall /\ answer = Refused

MCNext ==
    /\ part' = part
    /\ \/ part = "session" /\ SessionNext /\ UNCHANGED <<toolsVars, lanVars, mountsVars>>
       \/ part = "shapes" /\ EachKind!SessionNext /\ UNCHANGED <<toolsVars, lanVars, mountsVars>>
       \/ part = "polls" /\ Polls!SessionNext /\ UNCHANGED <<toolsVars, lanVars, mountsVars>>
       \/ part = "tools" /\ ToolsNext /\ UNCHANGED <<sessionVars, lanVars, mountsVars>>
       \/ part = "lan" /\ OnLan!Next /\ UNCHANGED <<sessionVars, toolsVars, mountsVars>>
       \/ part = "mounts" /\ MountsNext /\ UNCHANGED <<sessionVars, toolsVars, lanVars>>

Polling(A) == part = "polls" /\ pc # "ended" /\ A
MCFairSpec ==
    /\ MCInit /\ [][MCNext]_all
    /\ WF_sessionVars(Polling(Polls!Reader))
    /\ \A n \in 1 .. 2 :
          WF_sessionVars(Polling(Polls!Call(n))) /\ WF_sessionVars(part = "polls" /\ Polls!Returns(n))
    /\ WF_lanVars(part = "lan" /\ OnLan!Check) /\ WF_lanVars(part = "lan" /\ OnLan!Tick)

(* Each line that asks for an answer gets one and no line gets two, and a call *)
(* that never comes back keeps none of the others waiting.                    *)
LinesAnswered == []AnsweredOnce /\ (part = "polls" => Polls!OthersAnswered)

(* A kernel's record comes to hold the addresses it can be dialled at, and    *)
(* goes with the last of them; nobody is counted as withdrawn for ever.       *)
FoundWhereItIs == OnLan!FoundWhereItIs

-----------------------------------------------------------------------------
(* Proofs about the session, for any messages, bounds and edits.              *)
(*                                                                            *)
(* What is on the lines and in the threads.                                   *)
Known == [cap : 0 .. MaxSwaps, filter : 0 .. MaxSwaps]
Kinds == {"parse", "invalid", "tool error", "list", "unknown", "busy", "internal", "result"}
Replies == [kind : Kinds, id : {"given", "null"}]
OutLine ==
    [line : Lines, kind : Kinds \ {"list"}, id : {"given", "null"}]
    \cup [line : Lines, kind : {"list"}, id : {"given", "null"}, cap : 0 .. MaxSwaps, filter : 0 .. MaxSwaps]
    \cup [line : {0}, kind : {"note"}, cap : 0 .. MaxSwaps, filter : 0 .. MaxSwaps]
Midway == {"cap", "filter", "dispatch", "write"}

SessionTypes ==
    /\ sent \in Seq([msg : Messages, knows : Known, pending : Nat]) /\ Len(sent) <= MaxLines
    /\ out \in Seq(OutLine) /\ seen \in 0 .. Len(out) /\ nth \in 0 .. Len(sent)
    /\ open \in BOOLEAN /\ broken \in BOOLEAN /\ gone \in BOOLEAN
    /\ pc \in {"top", "read", "join", "ended"} \cup Midway /\ view \in Known
    /\ (pc \in Midway => nth > 0) /\ (pc = "write" => reply \in Replies)
    /\ calls \in [Lines -> {"none", "running", "result", "panic", "written", "done"}]
    /\ under \in [Lines -> 0 .. MaxSwaps]
    /\ cap \in 0 .. MaxSwaps /\ filter \in 0 .. MaxSwaps
    /\ poll \in [at : {"sleep", "cap", "filter", "note"}, version : 0 .. MaxSwaps, parts : SUBSET {"cap", "filter"}]

(* What a client has read of the notes: the last of them, or the grant the    *)
(* session began under.                                                       *)
LEMMA LatestNote ==
    ASSUME NEW k \in Nat, NEW S \in SUBSET (1 .. k), S # {}
    PROVE  \E i \in S : \A j \in S : j <= i
<1> DEFINE Above == {u \in Nat : \A j \in S : j <= u}
<1>1. Above \subseteq Nat /\ k \in Above
    OBVIOUS
<1>2. PICK u \in Above : \A w \in Above : <<w, u>> \notin OpToRel(<, Nat)
  <2> HIDE DEF Above
  <2> QED  BY <1>1, NatLessThanWellFounded, WFMin
<1>3. u \in Nat /\ (\A j \in S : j <= u) /\ (\A w \in Above : ~(w < u))
    BY <1>2 DEF OpToRel
<1>4. \A j \in S : j \in Nat /\ 0 < j
    OBVIOUS
<1>5. u \in S
  <2> SUFFICES ASSUME u \notin S
               PROVE  FALSE
      OBVIOUS
  <2>1. PICK e \in S : TRUE
      OBVIOUS
  <2>2. \A j \in S : j <= u - 1
    <3> SUFFICES ASSUME NEW j \in S
                 PROVE  j <= u - 1
        OBVIOUS
    <3>1. j \in Nat /\ j <= u /\ j # u
        BY <1>3, <1>4
    <3> QED  BY <1>3, <3>1
  <2>3. e \in Nat /\ 0 < e /\ e <= u
      BY <1>3, <1>4
  <2>4. u - 1 \in Nat /\ u - 1 < u
      BY <1>3, <2>3
  <2> QED  BY <1>3, <2>2, <2>4
<1> QED  BY <1>3, <1>5

Notes(k) == {i \in 1 .. k : out[i].kind = "note"}
LEMMA NotedIsLast ==
    ASSUME NEW k \in Nat
    PROVE  /\ Notes(k) = {} => Noted(k) = [cap |-> 0, filter |-> 0]
           /\ Notes(k) # {} => \E i \in Notes(k) :
                 (\A j \in Notes(k) : j <= i) /\ Noted(k) = [cap |-> out[i].cap, filter |-> out[i].filter]
<1>1. ASSUME Notes(k) # {}
      PROVE  \E i \in Notes(k) :
                 (\A j \in Notes(k) : j <= i) /\ Noted(k) = [cap |-> out[i].cap, filter |-> out[i].filter]
  <2> DEFINE last == CHOOSE i \in Notes(k) : \A j \in Notes(k) : j <= i
  <2>1. Notes(k) \in SUBSET (1 .. k)
      BY DEF Notes
  <2>2. \E i \in Notes(k) : \A j \in Notes(k) : j <= i
      BY <1>1, <2>1, LatestNote
  <2>3. last \in Notes(k) /\ \A j \in Notes(k) : j <= last
      BY <2>2
  <2>4. Noted(k) = [cap |-> out[last].cap, filter |-> out[last].filter]
      BY <1>1 DEF Noted, Notes
  <2> HIDE DEF last
  <2> QED  BY <2>3, <2>4
<1> QED  BY <1>1 DEF Noted, Notes

LEMMA NotedIsKnown ==
    ASSUME SessionTypes, NEW k \in 0 .. Len(out)
    PROVE  Noted(k) \in Known
<1> USE McpSessionAssumption
<1>1. \A i \in Notes(k) : out[i].cap \in 0 .. MaxSwaps /\ out[i].filter \in 0 .. MaxSwaps
  <2> SUFFICES ASSUME NEW i \in Notes(k)
               PROVE  out[i].cap \in 0 .. MaxSwaps /\ out[i].filter \in 0 .. MaxSwaps
      OBVIOUS
  <2>1. out[i] \in OutLine /\ out[i].kind = "note"
      BY DEF Notes, SessionTypes
  <2> QED  BY <2>1 DEF OutLine, Kinds
<1>2. k \in Nat
    BY DEF SessionTypes
<1> QED  BY <1>1, <1>2, NotedIsLast DEF Known

(* A line that is no note changes nothing of what was told; a note is the     *)
(* last word.                                                                 *)
LEMMA NotedStays ==
    ASSUME SessionTypes, NEW r, out' = Append(out, r), r.kind # "note"
    PROVE  Noted(Len(out))' = Noted(Len(out))
<1>1. /\ Len(out) \in Nat /\ Len(out') = Len(out) + 1 /\ out'[Len(out) + 1] = r
      /\ \A i \in 1 .. Len(out) : out'[i] = out[i]
    BY DEF SessionTypes
<1>2. Notes(Len(out))' = Notes(Len(out))
    BY <1>1 DEF Notes
<1>3. \A i \in Notes(Len(out)) : out'[i] = out[i]
    BY <1>1 DEF Notes
<1> DEFINE last == CHOOSE i \in Notes(Len(out)) : \A j \in Notes(Len(out)) : j <= i
<1>4. Noted(Len(out)) = IF Notes(Len(out)) = {} THEN [cap |-> 0, filter |-> 0]
                        ELSE [cap |-> out[last].cap, filter |-> out[last].filter]
    BY DEF Noted, Notes
<1>5. Noted(Len(out))' = IF Notes(Len(out)) = {} THEN [cap |-> 0, filter |-> 0]
                         ELSE [cap |-> out'[last].cap, filter |-> out'[last].filter]
    BY <1>2 DEF Noted, Notes
<1>6. Notes(Len(out)) # {} => last \in Notes(Len(out))
  <2>1. Notes(Len(out)) \in SUBSET (1 .. Len(out))
      BY DEF Notes
  <2> HIDE DEF Notes
  <2> QED  BY <1>1, <2>1, LatestNote
<1> HIDE DEF last
<1> QED  BY <1>3, <1>4, <1>5, <1>6

LEMMA NotedIsNew ==
    ASSUME SessionTypes, NEW r, out' = Append(out, r), r.kind = "note"
    PROVE  Noted(Len(out))' = [cap |-> r.cap, filter |-> r.filter]
<1>1. /\ Len(out) \in Nat /\ Len(out') = Len(out) + 1 /\ out'[Len(out) + 1] = r
    BY DEF SessionTypes
<1>2. Len(out') \in Notes(Len(out))' /\ \A i \in Notes(Len(out))' : i <= Len(out')
    BY <1>1 DEF Notes
<1> DEFINE n == Len(out')
           notes == Notes(Len(out))'
           last == CHOOSE i \in notes : \A j \in notes : j <= i
<1>3. notes \subseteq Nat /\ n \in notes /\ \A i \in notes : i <= n
    BY <1>1, <1>2 DEF Notes
<1>4. Noted(Len(out))' = [cap |-> out'[last].cap, filter |-> out'[last].filter]
    BY <1>2 DEF Noted, Notes
<1>5. last = n
  <2> HIDE DEF notes, n
  <2>1. last \in notes /\ \A j \in notes : j <= last
      BY <1>3
  <2> HIDE DEF last
  <2> QED  BY <1>3, <2>1
<1> QED  BY <1>1, <1>4, <1>5

(* What may be answered to a line that is owed an answer.                     *)
Fits(r, m) ==
    /\ ~OwedNothing(m) /\ (Legible(m) => r.id = "given") /\ (r.id = "given" => Given(m))
    /\ m.text = "json" /\ m.twice # "none" => r.kind \in {"invalid", "tool error"}

LEMMA ReplyIsDue ==
    ASSUME NEW m \in Message, ~IsCall(m)
    PROVE  IF OwedNothing(m) THEN ReplyTo(m) = Nothing
           ELSE ReplyTo(m) \in Replies /\ Fits(ReplyTo(m), m) /\ ReplyTo(m) # Nothing
<1>1. \A k \in Kinds, i \in {"given", "null"} :
        Answer(k, i) \in Replies /\ Answer(k, i).kind = k /\ Answer(k, i).id = i /\ Answer(k, i) # Nothing
    BY DEF Answer, Replies, Nothing
<1>2. {"parse", "invalid", "tool error", "list", "unknown"} \subseteq Kinds
    BY DEF Kinds
<1>3. CASE m.text = "blank"
    BY <1>3 DEF ReplyTo, OwedNothing
<1>4. CASE m.text = "torn"
    BY <1>1, <1>2, <1>4 DEF ReplyTo, OwedNothing, Fits, Legible, Given
<1>5. CASE m.text = "json" /\ Shape(m) \in {"response", "notification"}
  <2>1. OwedNothing(m)
      BY <1>5 DEF OwedNothing, Shape, Message
  <2>2. ReplyTo(m) = Nothing
      BY <1>5 DEF ReplyTo, Handle, RefuseRepeated
  <2> QED  BY <2>1, <2>2
<1>6. CASE m.text = "json" /\ Shape(m) = "invalid"
  <2>1. ~OwedNothing(m) /\ IdUnder(m) \in {"given", "null"} /\ (IdUnder(m) = "given" <=> Given(m))
      BY <1>6 DEF OwedNothing, Shape, IdUnder, Given, Message
  <2>2. ReplyTo(m) = Answer("invalid", IdUnder(m))
      BY <1>6 DEF ReplyTo, Handle, RefuseRepeated
  <2>3. Legible(m) => Given(m)
      BY DEF Legible, Given
  <2>4. ReplyTo(m).id = IdUnder(m) /\ ReplyTo(m).kind = "invalid" /\ ReplyTo(m) \in Replies /\ ReplyTo(m) # Nothing
    <3>1. PICK i \in {"given", "null"} : i = IdUnder(m)
        BY <2>1
    <3>2. "invalid" \in Kinds
        BY <1>2
    <3>3. /\ Answer("invalid", i) \in Replies /\ Answer("invalid", i).kind = "invalid"
          /\ Answer("invalid", i).id = i /\ Answer("invalid", i) # Nothing
        BY <1>1, <3>2
    <3> QED  BY <2>2, <3>1, <3>3
  <2>5. Fits(ReplyTo(m), m)
      BY <2>1, <2>3, <2>4 DEF Fits
  <2> QED  BY <2>1, <2>4, <2>5
<1>7. CASE m.text = "json" /\ Shape(m) = "request"
  <2>1. Given(m) /\ ~OwedNothing(m)
      BY <1>7 DEF OwedNothing, Shape, Given, Message
  <2>2. PICK k \in {"invalid", "tool error", "list", "unknown"}, i \in {"given", "null"} :
           /\ ReplyTo(m) = Answer(k, i) /\ (m.twice # "id" => i = "given")
           /\ (m.twice # "none" => k \in {"invalid", "tool error"})
    <3>1. CASE Repeated(m)
      <4>1. /\ ReplyTo(m) = RefuseRepeated(m)
            /\ Shape(m) = "request" => /\ Shape(m) # "invalid" /\ Shape(m) # "response"
                                       /\ Shape(m) # "notification"
          BY <1>7, <3>1 DEF ReplyTo
      <4>2. \/ ReplyTo(m) = Answer("tool error", "given") /\ m.twice = "argument"
            \/ ReplyTo(m) = Answer("invalid", "null") /\ m.twice = "id"
            \/ ReplyTo(m) = Answer("invalid", "given") /\ m.twice # "id"
          BY <1>7, <4>1 DEF RefuseRepeated
      <4> QED  BY <4>2
    <3>2. CASE ~Repeated(m)
      <4>1. ReplyTo(m) = Answer("list", "given") \/ ReplyTo(m) = Answer("unknown", "given")
          BY <1>7, <3>2 DEF ReplyTo, Handle
      <4> QED  BY <3>2, <4>1 DEF Repeated
    <3> QED  BY <3>1, <3>2
  <2>3. ReplyTo(m).id = i /\ ReplyTo(m).kind = k /\ ReplyTo(m) \in Replies /\ ReplyTo(m) # Nothing
    <3>1. k \in Kinds
        BY <1>2
    <3>2. Answer(k, i) \in Replies /\ Answer(k, i).kind = k /\ Answer(k, i).id = i /\ Answer(k, i) # Nothing
        BY <1>1, <3>1
    <3> QED  BY <2>2, <3>2
  <2>4. Fits(ReplyTo(m), m)
      BY <2>1, <2>2, <2>3 DEF Fits, Legible
  <2> QED  BY <2>1, <2>3, <2>4
<1>8. Shape(m) \in {"response", "notification", "invalid", "request"} /\ m.text \in {"blank", "torn", "json"}
    BY DEF Shape, Message
<1> QED  BY <1>3, <1>4, <1>5, <1>6, <1>7, <1>8

(* A call is owed an answer, under its id.                                    *)
LEMMA CallIsOwed ==
    ASSUME NEW m \in Message, IsCall(m)
    PROVE  \A r \in Replies : r.id = "given" => Fits(r, m)
<1>1. m.text = "json" /\ m.twice = "none" /\ m.object /\ m.id = "given" /\ m.method = "tools/call"
    BY DEF IsCall, Repeated, Shape, Message
<1> QED  BY <1>1 DEF Fits, OwedNothing, Legible, Given

LEMMA LineIsWritten ==
    ASSUME NEW n \in Lines, NEW r \in Replies, view \in Known
    PROVE  /\ Written(n, r) \in OutLine /\ Written(n, r).line = n /\ Written(n, r).kind = r.kind
           /\ Written(n, r).id = r.id
           /\ r.kind = "list" => Written(n, r).cap = view.cap /\ Written(n, r).filter = view.filter
    BY DEF Written, OutLine, Replies, Kinds, Known

LEMMA OutGrows ==
    ASSUME SessionTypes, NEW r \in OutLine, out' = Append(out, r)
    PROVE  /\ out' \in Seq(OutLine) /\ Len(out) \in Nat /\ Len(out') = Len(out) + 1
           /\ out'[Len(out) + 1] = r /\ \A i \in 1 .. Len(out) : out'[i] = out[i]
           /\ seen \in 0 .. Len(out')
    BY DEF SessionTypes

(* The lines that were sent, and the one the reader is at.                    *)
LEMMA SentDomain ==
    ASSUME SessionTypes
    PROVE  DOMAIN sent = 1 .. Len(sent)
BY DEF SessionTypes

LEMMA SentFields ==
    ASSUME SessionTypes, NEW n \in 1 .. Len(sent)
    PROVE  sent[n].msg \in Message /\ sent[n].knows \in Known
<1> DEFINE S == [msg : Messages, knows : Known, pending : Nat]
<1>1. sent \in Seq(S)
    BY DEF SessionTypes
<1> HIDE DEF S
<1>2. sent[n] \in S
    BY <1>1
<1> QED  BY <1>2, McpSessionAssumption DEF S

LEMMA LineIsSent ==
    ASSUME SessionTypes, pc \in Midway
    PROVE  nth \in 1 .. Len(sent) /\ nth \in Lines /\ Line \in Message
<1>1. nth \in 1 .. Len(sent) /\ nth \in Lines
    BY McpSessionAssumption DEF SessionTypes, Lines
<1> QED  BY <1>1, SentFields DEF Line

LEMMA SessionTypesStep == SessionTypes /\ [SessionNext]_sessionVars => SessionTypes'
<1> SUFFICES ASSUME SessionTypes, [SessionNext]_sessionVars
             PROVE  SessionTypes'
    OBVIOUS
<1> USE McpSessionAssumption DEF Midway, client, reader, threads, poller, Go, Owing
<1>1. ASSUME NEW m \in Messages, Send(m)
      PROVE  SessionTypes'
  <2> DEFINE s == [msg |-> m, knows |-> Noted(seen), pending |-> Cardinality(Pending)]
  <2>1. Noted(seen) \in Known
      BY NotedIsKnown DEF SessionTypes
  <2>2. Cardinality(Pending) \in Nat
    <3>1. Pending \subseteq 1 .. Len(sent) /\ Len(sent) \in Nat
        BY DEF Pending, SessionTypes
    <3>2. IsFiniteSet(1 .. Len(sent))
        BY <3>1, FS_Interval
    <3>3. IsFiniteSet(Pending)
        BY <3>1, <3>2, FS_Subset
    <3> QED  BY <3>3, FS_CardinalityType
  <2>3. s \in [msg : Messages, knows : Known, pending : Nat]
      BY <2>1, <2>2
  <2>4. sent' = Append(sent, s) /\ Len(sent) < MaxLines
        /\ UNCHANGED <<open, broken, seen, out, reader, threads, poller>>
      BY <1>1 DEF Send
  <2> HIDE DEF s
  <2> QED  BY <2>3, <2>4 DEF SessionTypes
<1>2. CASE Receive \/ Close \/ Leave
  <2>1. /\ UNCHANGED <<sent, out, reader, threads, poller>>
        /\ open' \in {open, FALSE} /\ broken' \in {broken, TRUE}
        /\ seen' = seen \/ (seen < Len(out) /\ seen' = seen + 1)
      BY <1>2 DEF Receive, Close, Leave
  <2>2. seen' \in 0 .. Len(out) /\ open' \in BOOLEAN /\ broken' \in BOOLEAN
    <3>1. Len(out) \in Nat /\ seen \in 0 .. Len(out) /\ open \in BOOLEAN /\ broken \in BOOLEAN
        BY DEF SessionTypes
    <3>2. seen' \in 0 .. Len(out)
        BY <2>1, <3>1
    <3>3. open' \in BOOLEAN /\ broken' \in BOOLEAN
        BY <2>1, <3>1
    <3> QED  BY <3>2, <3>3
  <2> QED  BY <2>1, <2>2 DEF SessionTypes
<1>3. CASE Top \/ ReadLine \/ EndOfInput \/ Join
  <2>1. CASE ReadLine
    <3>1. UNCHANGED <<client, out, view, reply, threads, poller>> /\ nth' = nth + 1 /\ nth < Len(sent) /\ pc' = "cap"
        BY <2>1 DEF ReadLine
    <3>2. nth' \in 0 .. Len(sent) /\ nth' > 0
        BY <3>1 DEF SessionTypes
    <3> QED  BY <3>1, <3>2 DEF SessionTypes
  <2>2. CASE Top \/ EndOfInput \/ Join
    <3>1. UNCHANGED <<client, out, nth, view, reply, threads, poller>> /\ pc' \in {"read", "join", "ended"}
        BY <2>2 DEF Top, EndOfInput, Join
    <3> QED  BY <3>1 DEF SessionTypes
  <2> QED  BY <1>3, <2>1, <2>2
<1>4. CASE TakeCap \/ TakeFilter
    BY <1>4 DEF TakeCap, TakeFilter, SessionCap, SessionTypes, Known
<1>5. CASE AnswerInline
  <2>1. Line \in Message /\ ~IsCall(Line)
      BY <1>5, LineIsSent DEF AnswerInline
  <2>2. ReplyTo(Line) = Nothing \/ ReplyTo(Line) \in Replies
      BY <2>1, ReplyIsDue
  <2> QED  BY <1>5, <2>2 DEF AnswerInline, SessionTypes
<1>6. CASE Refuse \/ Spawn \/ SpawnFails
  <2>1. Answer("busy", "given") \in Replies /\ Answer("internal", "given") \in Replies
      BY DEF Answer, Replies, Kinds
  <2> QED  BY <1>6, <2>1 DEF Refuse, Spawn, SpawnFails, AfterRefusal, SessionTypes, Known
<1>7. CASE WriteReply
  <2>1. nth \in Lines /\ reply \in Replies /\ view \in Known
      BY <1>7, LineIsSent DEF WriteReply, SessionTypes
  <2>2. Written(nth, reply) \in OutLine
      BY <2>1, LineIsWritten
  <2>3. out' \in Seq(OutLine) /\ seen \in 0 .. Len(out')
    <3>1. CASE out' = out
        BY <3>1 DEF SessionTypes
    <3>2. CASE out' = Append(out, Written(nth, reply))
        BY <2>2, <3>2, OutGrows
    <3> QED  BY <1>7, <3>1, <3>2 DEF WriteReply
  <2>4. pc' \in {"join", "top"} /\ UNCHANGED <<client, nth, view, threads, poller>>
      BY <1>7 DEF WriteReply
  <2> QED  BY <2>3, <2>4 DEF SessionTypes
<1>8. ASSUME NEW n \in Lines, Finish(n) \/ Free(n)
      PROVE  SessionTypes'
    BY <1>8 DEF Finish, Free, SessionTypes
<1>9. ASSUME NEW n \in Lines, WriteCall(n)
      PROVE  SessionTypes'
  <2>1. CallAnswer(calls[n]) \in Replies
      BY DEF CallAnswer, Answer, Replies, Kinds
  <2>2. Written(n, CallAnswer(calls[n])) \in OutLine
      BY <2>1, LineIsWritten DEF SessionTypes
  <2>3. out' \in Seq(OutLine) /\ seen \in 0 .. Len(out')
    <3>1. CASE out' = out
        BY <3>1 DEF SessionTypes
    <3>2. CASE out' = Append(out, Written(n, CallAnswer(calls[n])))
        BY <2>2, <3>2, OutGrows
    <3> QED  BY <1>9, <3>1, <3>2 DEF WriteCall
  <2>4. /\ calls' = [calls EXCEPT ![n] = "written"] /\ gone' \in BOOLEAN
        /\ UNCHANGED <<client, reader, under, running, poller>>
      BY <1>9 DEF WriteCall, SessionTypes
  <2> QED  BY <2>3, <2>4 DEF SessionTypes
<1>10. ASSUME NEW parts \in SUBSET {"cap", "filter"}, Poll(parts)
       PROVE  SessionTypes'
  <2>1. poll.version + 1 \in 0 .. MaxSwaps
      BY <1>10 DEF Poll, SessionTypes
  <2> QED  BY <1>10, <2>1 DEF Poll, SessionTypes
<1>11. CASE SwapCap \/ SwapFilter
    BY <1>11, ZenonT(60) DEF SwapCap, SwapFilter, SessionTypes
<1>12. CASE Note
  <2> DEFINE r == [line |-> 0, kind |-> "note", cap |-> cap, filter |-> filter]
  <2>1. r \in OutLine
      BY DEF OutLine, SessionTypes
  <2>2. poll' = [poll EXCEPT !.at = "sleep"] /\ (out' = out \/ out' = Append(out, r))
        /\ UNCHANGED <<sent, open, broken, seen, reader, threads, cap, filter>>
      BY <1>12 DEF Note
  <2> HIDE DEF r
  <2>3. out' \in Seq(OutLine) /\ seen \in 0 .. Len(out')
      BY <2>1, <2>2, OutGrows DEF SessionTypes
  <2> QED  BY <2>2, <2>3 DEF SessionTypes
<1>13. CASE UNCHANGED sessionVars
    BY <1>13 DEF sessionVars, SessionTypes
<1> QED
    BY <1>1, <1>2, <1>3, <1>4, <1>5, <1>6, <1>7, <1>8, <1>9, <1>10, <1>11, <1>12, <1>13
       DEF SessionNext, Client, Reader, Threads, Poller, Call

(* What is written answers a line that was read, is fit for it, and is the    *)
(* only answer to it.                                                         *)
WrittenInv ==
    \A i \in DOMAIN out : out[i].line # 0 =>
        /\ out[i].line \in 1 .. nth /\ Fits(out[i], sent[out[i].line].msg)
        /\ \A j \in DOMAIN out : out[j].line = out[i].line => j = i

(* A line that was read is being answered by the reader or by a call under    *)
(* way, or it is done with.                                                   *)
Underway == {"running", "result", "panic"}
Settled(n) == OwedNothing(sent[n].msg) \/ broken \/ Answers(n) # {} \/ calls[n] \in Underway
ProgressInv ==
    /\ \A n \in Lines : calls[n] # "none" => n <= nth /\ IsCall(sent[n].msg)
    /\ \A n \in Lines : calls[n] \in Underway => Answers(n) = {}
    /\ pc \in Midway => calls[nth] = "none" /\ Answers(nth) = {}
    /\ pc = "write" => Fits(reply, Line)
    /\ \A n \in 1 .. nth : (n = nth /\ pc \in Midway) \/ Settled(n)
    /\ pc = "ended" => Returned
AnswersInv == WrittenInv /\ ProgressInv

(* What an answer to a line changes, and a note does not.                     *)
LEMMA AnswerWritten ==
    ASSUME SessionTypes, WrittenInv, NEW n \in 1 .. nth, Answers(n) = {}, UNCHANGED <<sent, nth>>,
           NEW r \in OutLine, r.line = n, Fits(r, sent[n].msg), out' = Append(out, r)
    PROVE  WrittenInv' /\ Answers(n)' # {} /\ \A m \in Lines \ {n} : Answers(m)' = Answers(m)
<1>1. /\ Len(out) \in Nat /\ Len(out') = Len(out) + 1 /\ out'[Len(out) + 1] = r
      /\ \A i \in 1 .. Len(out) : out'[i] = out[i]
      /\ DOMAIN out = 1 .. Len(out) /\ DOMAIN out' = 1 .. Len(out) + 1
  <2>1. out' \in Seq(OutLine) /\ out \in Seq(OutLine)
      BY OutGrows DEF SessionTypes
  <2> QED  BY <2>1, OutGrows
<1>2. \A i \in DOMAIN out : out[i].line # n
    BY <1>1 DEF Answers
<1>3. n # 0
    BY DEF SessionTypes
<1>4. WrittenInv'
  <2> SUFFICES ASSUME NEW i \in DOMAIN out', out'[i].line # 0
               PROVE  /\ out'[i].line \in 1 .. nth /\ Fits(out'[i], sent[out'[i].line].msg)
                      /\ \A j \in DOMAIN out' : out'[j].line = out'[i].line => j = i
      BY DEF WrittenInv
  <2>1. CASE i \in DOMAIN out
    <3>1. /\ out[i].line \in 1 .. nth /\ Fits(out[i], sent[out[i].line].msg)
          /\ \A j \in DOMAIN out : out[j].line = out[i].line => j = i
        BY <1>1, <2>1 DEF WrittenInv
    <3> QED  BY <1>1, <1>2, <2>1, <3>1
  <2>2. CASE i = Len(out) + 1
      BY <1>1, <1>2, <2>2
  <2> QED  BY <1>1, <2>1, <2>2
<1>5. Len(out) + 1 \in Answers(n)'
    BY <1>1 DEF Answers
<1>6. \A m \in Lines \ {n} : Answers(m)' = Answers(m)
    BY <1>1 DEF Answers
<1> QED  BY <1>4, <1>5, <1>6

LEMMA NoteWritten ==
    ASSUME SessionTypes, WrittenInv, UNCHANGED <<sent, nth>>,
           NEW r \in OutLine, r.line = 0, out' = Append(out, r)
    PROVE  WrittenInv' /\ \A m \in Lines : Answers(m)' = Answers(m)
<1>1. /\ Len(out) \in Nat /\ Len(out') = Len(out) + 1 /\ out'[Len(out) + 1] = r
      /\ \A i \in 1 .. Len(out) : out'[i] = out[i]
      /\ DOMAIN out = 1 .. Len(out) /\ DOMAIN out' = 1 .. Len(out) + 1
  <2>1. out' \in Seq(OutLine) /\ out \in Seq(OutLine)
      BY OutGrows DEF SessionTypes
  <2> QED  BY <2>1, OutGrows
<1>2. WrittenInv'
  <2> SUFFICES ASSUME NEW i \in DOMAIN out', out'[i].line # 0
               PROVE  /\ out'[i].line \in 1 .. nth /\ Fits(out'[i], sent[out'[i].line].msg)
                      /\ \A j \in DOMAIN out' : out'[j].line = out'[i].line => j = i
      BY DEF WrittenInv
  <2>1. i \in DOMAIN out
      BY <1>1
  <2>2. /\ out[i].line \in 1 .. nth /\ Fits(out[i], sent[out[i].line].msg)
        /\ \A j \in DOMAIN out : out[j].line = out[i].line => j = i
      BY <1>1, <2>1 DEF WrittenInv
  <2> QED  BY <1>1, <2>1, <2>2
<1>3. \A m \in Lines : Answers(m)' = Answers(m)
    BY <1>1 DEF Answers, Lines
<1> QED  BY <1>2, <1>3

(* A step that writes nothing, and what it must leave of the lines.           *)
LEMMA WrittenKept ==
    ASSUME SessionTypes, WrittenInv, out' = out, nth' \in {nth, nth + 1},
           \A n \in 1 .. Len(sent) : sent'[n] = sent[n]
    PROVE  WrittenInv'
<1> SUFFICES ASSUME NEW i \in DOMAIN out, out[i].line # 0
             PROVE  /\ out[i].line \in 1 .. nth' /\ Fits(out[i], sent'[out[i].line].msg)
                    /\ \A j \in DOMAIN out : out[j].line = out[i].line => j = i
    BY DEF WrittenInv
<1>1. /\ out[i].line \in 1 .. nth /\ Fits(out[i], sent[out[i].line].msg)
      /\ \A j \in DOMAIN out : out[j].line = out[i].line => j = i
    BY DEF WrittenInv
<1>2. nth \in Nat /\ nth <= Len(sent) /\ Len(sent) \in Nat
    BY DEF SessionTypes
<1> QED  BY <1>1, <1>2

(* A step that writes nothing of a line's, and lets every thread be.          *)
LEMMA ProgressKept ==
    ASSUME SessionTypes, ProgressInv, UNCHANGED <<nth, calls, reply>>, pc' = pc, broken => broken',
           \A n \in Lines : Answers(n)' = Answers(n), \A n \in 1 .. Len(sent) : sent'[n] = sent[n]
    PROVE  ProgressInv'
<1>1. nth <= Len(sent) /\ nth \in Nat /\ Len(sent) \in Nat /\ Len(sent) <= MaxLines
    BY DEF SessionTypes
<1>2. pc \in Midway => nth \in 1 .. Len(sent) /\ nth \in Lines
    BY LineIsSent
<1>3. \A n \in Lines : calls[n] # "none" => n <= nth /\ IsCall(sent'[n].msg)
    BY <1>1 DEF ProgressInv, Lines
<1>4. pc = "write" => Line' = Line
    BY <1>2 DEF Line, Midway
<1>5. \A n \in 1 .. nth : n \in Lines /\ (Settled(n) => Settled(n)')
    BY <1>1, McpSessionAssumption DEF Settled, Lines
<1>6. Returned' = Returned
    BY DEF Returned
<1>7. pc \in Midway => calls[nth] = "none" /\ Answers(nth)' = {}
    BY <1>2 DEF ProgressInv
<1>8. pc = "write" => Fits(reply, Line)
    BY DEF ProgressInv
<1>9. \A n \in 1 .. nth : (n = nth /\ pc \in Midway) \/ Settled(n)'
    BY <1>5 DEF ProgressInv
<1>10. \A n \in Lines : calls[n] \in Underway => Answers(n)' = {}
    BY DEF ProgressInv
<1>11. pc = "ended" => Returned'
    BY <1>6 DEF ProgressInv
<1> QED
    BY <1>3, <1>4, <1>7, <1>8, <1>9, <1>10, <1>11 DEF ProgressInv

(* The reader's own steps, which let the lines and the threads be: it answers *)
(* the line it is at, or is done with it.                                     *)
LEMMA ReaderKeeps ==
    ASSUME SessionTypes, ProgressInv, UNCHANGED <<sent, broken, out, nth, calls>>, pc' # "ended",
           pc' \in Midway => pc \in Midway,
           pc' = "write" => Fits(reply', Line),
           pc \in Midway /\ pc' \notin Midway => Settled(nth)
    PROVE  ProgressInv'
<1>1. \A n : Answers(n)' = Answers(n) /\ Settled(n)' = Settled(n)
    BY DEF Answers, Settled
<1>2. Line' = Line
    BY DEF Line
<1>3. \A n \in 1 .. nth : (n = nth /\ pc' \in Midway) \/ Settled(n)
    BY DEF ProgressInv
<1>4. pc' \in Midway => calls[nth] = "none" /\ Answers(nth) = {}
    BY DEF ProgressInv
<1>5. /\ \A n \in Lines : calls[n] # "none" => n <= nth /\ IsCall(sent[n].msg)
      /\ \A n \in Lines : calls[n] \in Underway => Answers(n) = {}
    BY DEF ProgressInv
<1> QED  BY <1>1, <1>2, <1>3, <1>4, <1>5 DEF ProgressInv

(* A line that is read has no answer yet, nor a thread.                       *)
LEMMA ReadLineKeeps ==
    ASSUME SessionTypes, AnswersInv, ReadLine
    PROVE  AnswersInv'
<1>1. /\ UNCHANGED <<sent, open, broken, out, reply, calls>>
      /\ nth' = nth + 1 /\ nth < Len(sent) /\ pc = "read" /\ pc' = "cap"
    BY DEF ReadLine, Go, client, threads
<1>2. nth \in Nat /\ Len(sent) \in Nat /\ Len(sent) <= MaxLines
    BY DEF SessionTypes
<1>3. nth + 1 \in Lines /\ "cap" \in Midway /\ "read" \notin Midway
    BY <1>1, <1>2, McpSessionAssumption DEF Lines, Midway
<1>4. calls[nth + 1] = "none"
    BY <1>2, <1>3 DEF AnswersInv, ProgressInv
<1>5. Answers(nth + 1) = {}
  <2> SUFFICES ASSUME NEW i \in 1 .. Len(out), out[i].line = nth + 1
               PROVE  FALSE
      BY DEF Answers
  <2>1. DOMAIN out = 1 .. Len(out)
      BY DEF SessionTypes
  <2>2. out[i].line \in 1 .. nth
      BY <1>2, <2>1 DEF AnswersInv, WrittenInv
  <2> QED  BY <1>2, <2>2
<1>6. WrittenInv'
    BY <1>1, WrittenKept DEF AnswersInv
<1>7. \A n : Answers(n)' = Answers(n) /\ Settled(n)' = Settled(n)
    BY <1>1 DEF Answers, Settled
<1>8. \A n \in 1 .. nth : Settled(n)
    BY <1>1, <1>3 DEF AnswersInv, ProgressInv
<1>9. \A n \in 1 .. nth + 1 : n = nth + 1 \/ Settled(n)
    BY <1>2, <1>8
<1>10. /\ \A n \in Lines : calls[n] # "none" => n <= nth + 1 /\ IsCall(sent[n].msg)
       /\ \A n \in Lines : calls[n] \in Underway => Answers(n) = {}
    BY <1>2 DEF AnswersInv, ProgressInv, Lines
<1>11. ProgressInv'
    BY <1>1, <1>3, <1>4, <1>5, <1>7, <1>9, <1>10 DEF ProgressInv
<1> QED  BY <1>6, <1>11 DEF AnswersInv

(* The reader is done with a line, or owes it an answer.                      *)
LEMMA DispatchKeeps ==
    ASSUME SessionTypes, AnswersInv, AnswerInline \/ Refuse \/ SpawnFails
    PROVE  AnswersInv'
<1>1. /\ UNCHANGED <<sent, open, broken, out, nth, calls>> /\ pc = "dispatch"
      /\ pc' = IF reply' = Nothing THEN "top" ELSE "write"
    BY DEF AnswerInline, Refuse, SpawnFails, Owing, Go, client, threads
<1>2. "dispatch" \in Midway /\ Line \in Message /\ Line = sent[nth].msg
    BY <1>1, LineIsSent DEF Midway, Line
<1>3. reply' = Nothing => OwedNothing(Line)
  <2>1. CASE AnswerInline
      BY <1>2, <2>1, ReplyIsDue DEF AnswerInline, Owing
  <2>2. CASE Refuse \/ SpawnFails
      BY <2>2 DEF Refuse, SpawnFails, Owing, Answer, Nothing
  <2> QED  BY <2>1, <2>2
<1>4. reply' # Nothing => Fits(reply', Line)
  <2>1. CASE AnswerInline
      BY <1>2, <2>1, ReplyIsDue DEF AnswerInline, Owing
  <2>2. CASE Refuse \/ SpawnFails
    <3>1. PICK k \in {"busy", "internal"} : reply' = Answer(k, "given") /\ IsCall(Line)
        BY <2>2 DEF Refuse, SpawnFails, Owing
    <3>2. Answer(k, "given") \in Replies /\ Answer(k, "given").id = "given"
        BY DEF Answer, Replies, Kinds
    <3> QED  BY <1>2, <3>1, <3>2, CallIsOwed
  <2> QED  BY <2>1, <2>2
<1>5. OwedNothing(Line) => Settled(nth)
    BY <1>2 DEF Settled
<1>6. ProgressInv'
    BY <1>1, <1>2, <1>3, <1>4, <1>5, ReaderKeeps DEF AnswersInv, Midway
<1> QED  BY <1>1, <1>6, WrittenKept DEF AnswersInv

(* A call's thread takes its line over.                                       *)
LEMMA SpawnKeeps ==
    ASSUME SessionTypes, AnswersInv, Spawn
    PROVE  AnswersInv'
<1>1. /\ UNCHANGED <<sent, open, broken, out, nth, reply>> /\ pc = "dispatch" /\ IsCall(Line)
      /\ calls' = [calls EXCEPT ![nth] = "running"] /\ pc' = "top"
    BY DEF Spawn, Go, client
<1>2. nth \in Lines /\ nth \in 1 .. Len(sent) /\ Line = sent[nth].msg /\ "dispatch" \in Midway /\ "top" \notin Midway
    BY <1>1, LineIsSent DEF Midway, Line
<1>3. calls'[nth] = "running" /\ \A n \in Lines \ {nth} : calls'[n] = calls[n]
    BY <1>1, <1>2 DEF SessionTypes
<1>4. Answers(nth) = {} /\ \A n : Answers(n)' = Answers(n)
    BY <1>1, <1>2 DEF AnswersInv, ProgressInv, Answers
<1>5. \A n \in 1 .. nth : n \in Lines
    BY <1>2, McpSessionAssumption DEF Lines
<1>6. \A n \in 1 .. nth : Settled(n)'
    BY <1>1, <1>3, <1>4, <1>5 DEF AnswersInv, ProgressInv, Settled, Underway
<1>7. \A n \in Lines : calls'[n] # "none" => n <= nth /\ IsCall(sent[n].msg)
    BY <1>1, <1>2, <1>3 DEF AnswersInv, ProgressInv
<1>8. \A n \in Lines : calls'[n] \in Underway => Answers(n) = {}
    BY <1>3, <1>4 DEF AnswersInv, ProgressInv
<1>9. ProgressInv'
    BY <1>1, <1>2, <1>4, <1>6, <1>7, <1>8 DEF ProgressInv
<1> QED  BY <1>1, <1>9, WrittenKept DEF AnswersInv

(* The answer to the line the reader is at, unless the client stopped         *)
(* reading.                                                                   *)
LEMMA WriteReplyKeeps ==
    ASSUME SessionTypes, AnswersInv, WriteReply
    PROVE  AnswersInv'
<1>1. /\ UNCHANGED <<sent, open, broken, nth, calls>> /\ pc = "write"
      /\ \/ broken /\ pc' = "join" /\ out' = out
         \/ ~broken /\ pc' = "top" /\ out' = Append(out, Written(nth, reply))
    BY DEF WriteReply, Go, client, threads
<1>2. "write" \in Midway /\ "join" \notin Midway /\ "top" \notin Midway
    BY DEF Midway
<1>3. /\ nth \in Lines /\ nth \in 1 .. nth /\ Line = sent[nth].msg /\ nth \in 1 .. Len(sent)
      /\ \A n \in 1 .. nth : n \in Lines
    BY <1>1, <1>2, LineIsSent, McpSessionAssumption DEF Line, Lines
<1>4. reply \in Replies /\ view \in Known /\ Fits(reply, Line) /\ Answers(nth) = {} /\ calls[nth] = "none"
    BY <1>1, <1>2 DEF SessionTypes, AnswersInv, ProgressInv
<1>5. CASE broken
  <2>1. Settled(nth)
      BY <1>5 DEF Settled
  <2>2. ProgressInv'
      BY <1>1, <1>2, <1>5, <2>1, ReaderKeeps DEF AnswersInv
  <2> QED  BY <1>1, <1>5, <2>2, WrittenKept DEF AnswersInv
<1>6. CASE ~broken
  <2> DEFINE r == Written(nth, reply)
  <2>1. r \in OutLine /\ r.line = nth /\ r.kind = reply.kind /\ r.id = reply.id
      BY <1>3, <1>4, LineIsWritten
  <2>2. Fits(r, sent[nth].msg)
      BY <1>3, <1>4, <2>1 DEF Fits
  <2>3. out' = Append(out, r) /\ pc' = "top"
      BY <1>1, <1>6
  <2> HIDE DEF r
  <2>4. WrittenInv' /\ Answers(nth)' # {} /\ \A m \in Lines \ {nth} : Answers(m)' = Answers(m)
      BY <1>1, <1>3, <1>4, <2>1, <2>2, <2>3, AnswerWritten DEF AnswersInv
  <2>5. \A n \in 1 .. nth : Settled(n)'
      BY <1>1, <1>3, <2>4 DEF Settled, AnswersInv, ProgressInv
  <2>6. /\ \A n \in Lines : calls[n] # "none" => n <= nth /\ IsCall(sent[n].msg)
        /\ \A n \in Lines : calls[n] \in Underway => Answers(n)' = {}
      BY <1>4, <2>4 DEF AnswersInv, ProgressInv, Underway
  <2>7. ProgressInv'
      BY <1>1, <1>2, <2>3, <2>5, <2>6 DEF ProgressInv
  <2> QED  BY <2>4, <2>7 DEF AnswersInv
<1> QED  BY <1>5, <1>6

(* A call's own steps: it comes to an end, writes its answer, and leaves.     *)
LEMMA ThreadKeeps ==
    ASSUME SessionTypes, AnswersInv, pc # "ended", NEW n \in Lines, Finish(n) \/ WriteCall(n) \/ Free(n)
    PROVE  AnswersInv'
<1> DEFINE s == calls'[n]
<1>1. /\ UNCHANGED <<sent, open, broken, nth, pc, reply>> /\ calls[n] # "none" /\ s # "none"
      /\ \A m \in Lines \ {n} : calls'[m] = calls[m]
    BY DEF Finish, WriteCall, Free, Caught, client, reader, SessionTypes
<1>2. /\ n \in 1 .. nth /\ IsCall(sent[n].msg) /\ n \in 1 .. Len(sent)
      /\ \A m \in 1 .. nth : m \in Lines
  <2>1. n <= nth /\ IsCall(sent[n].msg)
      BY <1>1 DEF AnswersInv, ProgressInv
  <2>2. nth \in Nat /\ Len(sent) \in Nat /\ nth <= Len(sent) /\ Len(sent) <= MaxLines
      BY DEF SessionTypes
  <2> QED  BY <2>1, <2>2, McpSessionAssumption DEF Lines
<1>3. pc \in Midway => n # nth
    BY <1>1 DEF AnswersInv, ProgressInv
<1>4. \A m \in Lines : calls'[m] # "none" => m <= nth /\ IsCall(sent[m].msg)
    BY <1>1, <1>2 DEF AnswersInv, ProgressInv
<1>5. ASSUME WrittenInv', \A m \in Lines \ {n} : Answers(m)' = Answers(m),
             s \in Underway => Answers(n)' = {}, Settled(n)'
      PROVE  AnswersInv'
  <2> HIDE DEF s
  <2>1. \A m \in 1 .. nth : (m = nth /\ pc \in Midway) \/ Settled(m)'
    <3> SUFFICES ASSUME NEW m \in 1 .. nth, m # n
                 PROVE  (m = nth /\ pc \in Midway) \/ Settled(m)'
        BY <1>5
    <3>1. m \in Lines \ {n}
        BY <1>2
    <3>2. (m = nth /\ pc \in Midway) \/ Settled(m)
        BY DEF AnswersInv, ProgressInv
    <3> QED  BY <1>1, <1>5, <3>1, <3>2 DEF Settled
  <2>2. \A m \in Lines : calls'[m] \in Underway => Answers(m)' = {}
      BY <1>1, <1>5 DEF AnswersInv, ProgressInv, s
  <2>3. pc \in Midway => calls'[nth] = "none" /\ Answers(nth)' = {}
    <3> SUFFICES ASSUME pc \in Midway
                 PROVE  calls'[nth] = "none" /\ Answers(nth)' = {}
        OBVIOUS
    <3>1. nth \in Lines \ {n}
        BY <1>3, LineIsSent
    <3> QED  BY <1>1, <1>5, <3>1 DEF AnswersInv, ProgressInv
  <2>4. (pc = "write" => Fits(reply, Line)) /\ Line' = Line
      BY <1>1 DEF AnswersInv, ProgressInv, Line
  <2>5. ProgressInv'
      BY <1>1, <1>4, <2>1, <2>2, <2>3, <2>4 DEF ProgressInv
  <2> QED  BY <1>5, <2>5 DEF AnswersInv
<1>6. CASE Finish(n)
  <2>1. out' = out /\ s \in Underway /\ calls[n] \in Underway
      BY <1>6 DEF Finish, Underway, SessionTypes
  <2>2. \A m : Answers(m)' = Answers(m)
      BY <2>1 DEF Answers
  <2>3. Answers(n) = {} /\ Settled(n)'
      BY <2>1 DEF AnswersInv, ProgressInv, Settled
  <2> QED  BY <1>1, <1>5, <2>1, <2>2, <2>3, WrittenKept DEF AnswersInv
<1>7. CASE WriteCall(n)
  <2>1. s = "written" /\ s \notin Underway /\ calls[n] \in Underway
      BY <1>7 DEF WriteCall, Caught, Underway, SessionTypes
  <2>2. Answers(n) = {}
      BY <2>1 DEF AnswersInv, ProgressInv
  <2>3. CASE broken
    <3>1. out' = out /\ Settled(n)'
        BY <1>1, <1>7, <2>3 DEF WriteCall, Settled
    <3>2. \A m : Answers(m)' = Answers(m)
        BY <3>1 DEF Answers
    <3> QED  BY <1>1, <1>5, <2>1, <3>1, <3>2, WrittenKept DEF AnswersInv
  <2>4. CASE ~broken
    <3> DEFINE a == CallAnswer(calls[n])
               r == Written(n, a)
    <3>1. a \in Replies /\ a.id = "given"
        BY DEF CallAnswer, Answer, Replies, Kinds
    <3>2. out' = Append(out, r)
        BY <1>7, <2>4 DEF WriteCall
    <3> HIDE DEF a
    <3>3. r \in OutLine /\ r.line = n /\ r.kind = a.kind /\ r.id = a.id
        BY <3>1, LineIsWritten DEF SessionTypes
    <3>4. sent[n].msg \in Message
        BY <1>2, SentFields
    <3>5. Fits(a, sent[n].msg)
        BY <1>2, <3>1, <3>4, CallIsOwed
    <3>6. Fits(r, sent[n].msg)
        BY <3>3, <3>5 DEF Fits
    <3> HIDE DEF r
    <3>7. WrittenInv' /\ Answers(n)' # {} /\ \A m \in Lines \ {n} : Answers(m)' = Answers(m)
        BY <1>1, <1>2, <2>2, <3>2, <3>3, <3>6, AnswerWritten DEF AnswersInv
    <3>8. Settled(n)'
        BY <3>7 DEF Settled
    <3> QED  BY <1>5, <2>1, <3>7, <3>8
  <2> QED  BY <2>3, <2>4
<1>8. CASE Free(n)
  <2>1. out' = out /\ s \notin Underway /\ calls[n] \notin Underway
      BY <1>8 DEF Free, Underway, SessionTypes
  <2>2. \A m : Answers(m)' = Answers(m)
      BY <2>1 DEF Answers
  <2>3. Settled(n)
      BY <1>2, <1>3 DEF AnswersInv, ProgressInv
  <2>4. Settled(n)'
      BY <1>1, <2>1, <2>2, <2>3 DEF Settled
  <2> QED  BY <1>1, <1>5, <2>1, <2>2, <2>4, WrittenKept DEF AnswersInv
<1> QED  BY <1>6, <1>7, <1>8

LEMMA AnswersStep ==
    SessionTypes /\ AnswersInv /\ [SessionNext]_sessionVars => AnswersInv'
<1> SUFFICES ASSUME SessionTypes, AnswersInv, [SessionNext]_sessionVars
             PROVE  AnswersInv'
    OBVIOUS
<1>1. CASE \/ Receive \/ Close \/ Leave \/ SwapCap \/ SwapFilter \/ UNCHANGED sessionVars
           \/ (\E m \in Messages : Send(m)) \/ (\E parts \in SUBSET {"cap", "filter"} : Poll(parts))
  <2>1. UNCHANGED <<nth, calls, reply, out, pc>> /\ broken' \in {broken, TRUE}
      BY <1>1 DEF Receive, Close, Leave, SwapCap, SwapFilter, Send, Poll, sessionVars, client, reader, threads, poller
  <2>2. \A n \in 1 .. Len(sent) : sent'[n] = sent[n]
    <3>1. sent' = sent \/ \E l : sent' = Append(sent, l)
        BY <1>1 DEF Receive, Close, Leave, SwapCap, SwapFilter, Send, Poll, sessionVars, client, reader, threads, poller
    <3> QED  BY <3>1 DEF SessionTypes
  <2>3. \A n \in Lines : Answers(n)' = Answers(n)
      BY <2>1 DEF Answers
  <2>4. WrittenInv'
      BY <2>1, <2>2, WrittenKept DEF AnswersInv
  <2>5. broken => broken'
      BY <2>1
  <2>6. ProgressInv'
      BY <2>1, <2>2, <2>3, <2>5, ProgressKept DEF AnswersInv
  <2> QED  BY <2>4, <2>6 DEF AnswersInv
<1>2. CASE Note
  <2> DEFINE r == [line |-> 0, kind |-> "note", cap |-> cap, filter |-> filter]
  <2>1. UNCHANGED <<sent, nth, calls, reply, broken, pc>> /\ (out' = out \/ out' = Append(out, r))
      BY <1>2 DEF Note, client, reader, threads
  <2>2. r \in OutLine /\ r.line = 0
      BY DEF OutLine, SessionTypes
  <2> HIDE DEF r
  <2>3. WrittenInv' /\ \A m \in Lines : Answers(m)' = Answers(m)
    <3>1. CASE out' = out
        BY <2>1, <3>1, WrittenKept DEF AnswersInv, Answers
    <3>2. CASE out' = Append(out, r)
        BY <2>1, <2>2, <3>2, NoteWritten DEF AnswersInv
    <3> QED  BY <2>1, <3>1, <3>2
  <2> QED  BY <2>1, <2>3, ProgressKept DEF AnswersInv
<1>3. CASE Top \/ EndOfInput \/ TakeCap \/ TakeFilter
  <2>1. /\ UNCHANGED <<sent, broken, out, nth, calls, reply>> /\ pc' # "ended" /\ pc' # "write"
        /\ (pc' \in Midway <=> pc \in Midway)
      BY <1>3 DEF Top, EndOfInput, TakeCap, TakeFilter, Go, client, threads, Midway
  <2> QED  BY <2>1, WrittenKept, ReaderKeeps DEF AnswersInv
<1>4. CASE Join
  <2>1. UNCHANGED <<sent, broken, out, nth, calls, reply>> /\ pc' = "ended" /\ pc = "join" /\ Returned
      BY <1>4 DEF Join, Go, client, threads
  <2>2. \A n : Answers(n)' = Answers(n) /\ Settled(n)' = Settled(n)
      BY <2>1 DEF Answers, Settled
  <2>3. Returned' /\ "join" \notin Midway /\ "ended" \notin Midway
      BY <2>1 DEF Returned, Midway
  <2>4. ProgressInv'
      BY <2>1, <2>2, <2>3 DEF AnswersInv, ProgressInv
  <2> QED  BY <2>1, <2>4, WrittenKept DEF AnswersInv
<1>5. CASE ReadLine
    BY <1>5, ReadLineKeeps
<1>6. CASE AnswerInline \/ Refuse \/ SpawnFails
    BY <1>6, DispatchKeeps
<1>7. CASE Spawn
    BY <1>7, SpawnKeeps
<1>8. CASE WriteReply
    BY <1>8, WriteReplyKeeps
<1>9. ASSUME NEW n \in Lines, pc # "ended", Finish(n) \/ WriteCall(n) \/ Free(n)
      PROVE  AnswersInv'
    BY <1>9, ThreadKeeps
<1> QED
    BY <1>1, <1>2, <1>3, <1>4, <1>5, <1>6, <1>7, <1>8, <1>9 DEF SessionNext, Client, Reader, Threads, Poller, Call

(* The count the reader admits by is the places that are held.                *)
Holding == {n \in Lines : calls[n] \in {"running", "result", "panic", "written"}}
BoundInv == running = Cardinality(Holding) /\ running <= MaxCalls

LEMMA HeldPlaces == IsFiniteSet(Holding) /\ Cardinality(Holding) \in Nat
<1>1. Holding \subseteq 1 .. MaxLines /\ IsFiniteSet(1 .. MaxLines)
    BY McpSessionAssumption, FS_Interval DEF Holding, Lines
<1>2. IsFiniteSet(Holding)
    BY <1>1, FS_Subset
<1> QED  BY <1>2, FS_CardinalityType

LEMMA BoundStep ==
    SessionTypes /\ AnswersInv /\ BoundInv /\ [SessionNext]_sessionVars => BoundInv'
<1> SUFFICES ASSUME SessionTypes, AnswersInv, BoundInv, [SessionNext]_sessionVars
             PROVE  BoundInv'
    OBVIOUS
<1>1. running = Cardinality(Holding) /\ running <= MaxCalls /\ running \in Nat /\ MaxCalls \in Nat
    BY HeldPlaces, McpSessionAssumption DEF BoundInv
<1>2. CASE UNCHANGED <<running, calls>>
    BY <1>2 DEF BoundInv, Holding
<1>3. CASE Refuse
    BY <1>2, <1>3 DEF Refuse, AfterRefusal
<1>4. CASE Spawn
  <2>1. pc \in Midway /\ nth \in Lines
      BY <1>4, LineIsSent DEF Spawn, Midway
  <2>2. calls[nth] = "none" /\ nth \notin Holding
      BY <2>1 DEF AnswersInv, ProgressInv, Holding
  <2>3. Holding' = Holding \cup {nth}
      BY <1>4, <2>1 DEF Spawn, Holding, SessionTypes
  <2>4. Cardinality(Holding') = Cardinality(Holding) + 1
      BY <2>2, <2>3, HeldPlaces, FS_AddElement
  <2>5. running' = running + 1 /\ running < MaxCalls
      BY <1>4 DEF Spawn, HasRoom
  <2> QED  BY <1>1, <2>4, <2>5 DEF BoundInv
<1>5. ASSUME NEW n \in Lines, Finish(n) \/ WriteCall(n)
      PROVE  BoundInv'
  <2>1. Holding' = Holding /\ running' = running
      BY <1>5 DEF Finish, WriteCall, Caught, Holding, SessionTypes
  <2> QED  BY <2>1 DEF BoundInv
<1>6. ASSUME NEW n \in Lines, Free(n)
      PROVE  BoundInv'
  <2>1. n \in Holding /\ Holding' = Holding \ {n}
      BY <1>6 DEF Free, Holding, SessionTypes
  <2>2. Cardinality(Holding') = Cardinality(Holding) - 1
      BY <2>1, HeldPlaces, FS_RemoveElement
  <2>3. running' = running - 1
      BY <1>6 DEF Free
  <2> QED  BY <1>1, <2>2, <2>3 DEF BoundInv
<1>7. CASE \/ Top \/ ReadLine \/ EndOfInput \/ TakeCap \/ TakeFilter \/ AnswerInline
           \/ SpawnFails \/ WriteReply \/ Join \/ Client \/ Poller \/ UNCHANGED sessionVars
  <2>1. UNCHANGED threads
      BY <1>7 DEF Top, ReadLine, EndOfInput, TakeCap, TakeFilter, AnswerInline, SpawnFails, WriteReply, Join,
                  Client, Send, Receive, Close, Leave, Poller, Poll, SwapCap, SwapFilter, Note, sessionVars
  <2> QED  BY <1>2, <2>1 DEF threads
<1> QED
    BY <1>3, <1>4, <1>5, <1>6, <1>7 DEF SessionNext, Reader, Threads, Call

(* What a client was told, what it knew when it sent a line, and what the     *)
(* reader took for it: none is newer than what is in force, and the reader    *)
(* took each after the line was sent.                                         *)
AtLeast(c, f, k) == c >= k.cap /\ f >= k.filter
TakenInv ==
    /\ cap <= poll.version /\ filter <= poll.version
    /\ \A i \in DOMAIN out : out[i].kind = "note" => AtLeast(cap, filter, out[i])
    /\ \A n \in DOMAIN sent : AtLeast(cap, filter, sent[n].knows)
    /\ pc \in {"filter", "dispatch", "write"} => view.cap >= sent[nth].knows.cap
    /\ pc \in {"dispatch", "write"} => view.filter >= sent[nth].knows.filter

(* The last note is of the grant in force, but between the first swap and the *)
(* note.                                                                      *)
Told == Noted(Len(out))
ToldInv ==
    broken \/
        /\ poll.at \in {"sleep", "cap"} => Told = [cap |-> cap, filter |-> filter]
        /\ poll.at = "filter" => Told.filter = filter /\ ("cap" \notin poll.parts => Told.cap = cap)

LEMMA InitHolds == SessionInit => SessionTypes /\ AnswersInv /\ BoundInv /\ TakenInv /\ ToldIsBinding /\ ToldInv
<1> SUFFICES ASSUME SessionInit
             PROVE  SessionTypes /\ AnswersInv /\ BoundInv /\ TakenInv /\ ToldIsBinding /\ ToldInv
    OBVIOUS
<1> USE McpSessionAssumption DEF SessionInit
<1>1. SessionTypes
  <2>1. sent \in Seq([msg : Messages, knows : Known, pending : Nat]) /\ out \in Seq(OutLine) /\ Len(sent) = 0 /\ Len(out) = 0
      OBVIOUS
  <2>2. 0 \in 0 .. MaxSwaps /\ view \in Known
      BY DEF Known
  <2>3. poll \in [at : {"sleep", "cap", "filter", "note"}, version : 0 .. MaxSwaps, parts : SUBSET {"cap", "filter"}]
      BY <2>2
  <2>4. /\ calls \in [Lines -> {"none", "running", "result", "panic", "written", "done"}]
        /\ under \in [Lines -> 0 .. MaxSwaps]
      BY <2>2
  <2>5. open \in BOOLEAN /\ broken \in BOOLEAN /\ gone \in BOOLEAN
      OBVIOUS
  <2> QED  BY <2>1, <2>2, <2>3, <2>4, <2>5 DEF SessionTypes, Midway
<1>2. AnswersInv
    BY DEF AnswersInv, WrittenInv, ProgressInv, Answers, Underway, Midway
<1>3. BoundInv
  <2>1. Holding = {}
      BY DEF Holding
  <2> QED  BY <2>1, FS_EmptySet DEF BoundInv
<1>4. TakenInv /\ ToldIsBinding
    BY DEF TakenInv, ToldIsBinding, Lines
<1>5. Told = [cap |-> 0, filter |-> 0]
  <2>1. Len(out) = 0 /\ Notes(Len(out)) = {}
      BY DEF Notes
  <2> QED  BY <2>1, NotedIsLast DEF Told
<1> QED  BY <1>1, <1>2, <1>3, <1>4, <1>5 DEF ToldInv

LEMMA NoteFields ==
    ASSUME SessionTypes, NEW i \in DOMAIN out
    PROVE  /\ out[i].kind \in {"note", "list"} => out[i].cap \in 0 .. MaxSwaps /\ out[i].filter \in 0 .. MaxSwaps
           /\ out[i].kind = "list" => out[i].line # 0
<1> DEFINE r == out[i]
<1>1. r \in OutLine
    BY DEF SessionTypes
<1> HIDE DEF r
<1>2. CASE r \in [line : Lines, kind : Kinds \ {"list"}, id : {"given", "null"}]
    BY <1>2 DEF Kinds, r
<1>3. CASE r \in [line : Lines, kind : {"list"}, id : {"given", "null"}, cap : 0 .. MaxSwaps, filter : 0 .. MaxSwaps]
  <2>1. r.cap \in 0 .. MaxSwaps /\ r.filter \in 0 .. MaxSwaps /\ r.line \in Lines
      BY <1>3
  <2> QED  BY <2>1 DEF Lines, r
<1>4. CASE r \in [line : {0}, kind : {"note"}, cap : 0 .. MaxSwaps, filter : 0 .. MaxSwaps]
  <2>1. r.cap \in 0 .. MaxSwaps /\ r.filter \in 0 .. MaxSwaps /\ r.kind = "note"
      BY <1>4
  <2> QED  BY <2>1 DEF r
<1> QED  BY <1>1, <1>2, <1>3, <1>4 DEF OutLine

(* What every step but Send leaves of TakenInv.                               *)
LEMMA TakenKept ==
    ASSUME SessionTypes, SessionTypes', TakenInv, sent' = sent, cap <= cap', filter <= filter',
           cap' <= poll'.version, filter' <= poll'.version,
           pc' \in {"filter", "dispatch", "write"} => view'.cap >= sent[nth'].knows.cap,
           pc' \in {"dispatch", "write"} => view'.filter >= sent[nth'].knows.filter,
           out' = out \/ \E r \in OutLine : out' = Append(out, r) /\ (r.kind = "note" => AtLeast(cap', filter', r))
    PROVE  TakenInv'
<1>1. {cap, filter, cap', filter'} \subseteq Nat
    BY McpSessionAssumption DEF SessionTypes
<1>2. ASSUME NEW i \in DOMAIN out', out'[i].kind = "note"
      PROVE  AtLeast(cap', filter', out'[i])
  <2>1. ASSUME i \in DOMAIN out, out'[i] = out[i]
        PROVE  AtLeast(cap', filter', out'[i])
    <3>1. AtLeast(cap, filter, out[i])
        BY <1>2, <2>1 DEF TakenInv
    <3>2. out[i].cap \in Nat /\ out[i].filter \in Nat
        BY <1>2, <2>1, NoteFields, McpSessionAssumption
    <3> QED  BY <1>1, <2>1, <3>1, <3>2 DEF AtLeast
  <2>2. CASE out' = out
      BY <1>2, <2>1, <2>2
  <2>3. ASSUME NEW r \in OutLine, out' = Append(out, r), r.kind = "note" => AtLeast(cap', filter', r)
        PROVE  AtLeast(cap', filter', out'[i])
    <3>1. /\ Len(out) \in Nat /\ DOMAIN out = 1 .. Len(out) /\ DOMAIN out' = 1 .. Len(out) + 1
          /\ out'[Len(out) + 1] = r /\ \A j \in 1 .. Len(out) : out'[j] = out[j]
        BY <2>3 DEF SessionTypes
    <3>2. i \in DOMAIN out \/ i = Len(out) + 1
        BY <3>1
    <3> QED  BY <1>2, <2>1, <2>3, <3>1, <3>2
  <2> QED  BY <2>2, <2>3
<1>3. ASSUME NEW n \in DOMAIN sent
      PROVE  AtLeast(cap', filter', sent[n].knows)
  <2>1. sent[n].knows \in Known
    <3>1. n \in 1 .. Len(sent)
        BY SentDomain
    <3> QED  BY <3>1, SentFields
  <2>2. sent[n].knows.cap \in Nat /\ sent[n].knows.filter \in Nat
      BY <2>1, McpSessionAssumption DEF Known
  <2>3. AtLeast(cap, filter, sent[n].knows)
      BY DEF TakenInv
  <2> QED  BY <1>1, <2>2, <2>3 DEF AtLeast
<1> QED  BY <1>2, <1>3 DEF TakenInv

LEMMA SentAfterRead ==
    ASSUME SessionTypes, TakenInv, NEW k \in 0 .. Len(out)
    PROVE  AtLeast(cap, filter, Noted(k))
<1>1. cap \in Nat /\ filter \in Nat /\ k \in Nat /\ DOMAIN out = 1 .. Len(out)
    BY McpSessionAssumption DEF SessionTypes
<1>2. CASE Notes(k) = {}
    BY <1>1, <1>2, NotedIsLast DEF AtLeast
<1>3. CASE Notes(k) # {}
  <2>1. PICK i \in Notes(k) : Noted(k) = [cap |-> out[i].cap, filter |-> out[i].filter]
      BY <1>1, <1>3, NotedIsLast
  <2>2. AtLeast(cap, filter, out[i])
      BY <1>1 DEF Notes, TakenInv
  <2> QED  BY <2>1, <2>2 DEF AtLeast
<1> QED  BY <1>2, <1>3

LEMMA TakenStep ==
    SessionTypes /\ SessionTypes' /\ TakenInv /\ [SessionNext]_sessionVars => TakenInv'
<1> SUFFICES ASSUME SessionTypes, SessionTypes', TakenInv, [SessionNext]_sessionVars
             PROVE  TakenInv'
    OBVIOUS
<1> USE DEF client, reader, threads, poller, Go, Owing
<1>1. /\ {cap, filter, cap', filter', poll.version} \subseteq Nat /\ cap <= poll.version /\ filter <= poll.version
      /\ poll.parts \subseteq {"cap", "filter"}
    BY McpSessionAssumption DEF SessionTypes, TakenInv
<1>2. ASSUME NEW m \in Messages, Send(m)
      PROVE  TakenInv'
  <2> DEFINE l == [msg |-> m, knows |-> Noted(seen), pending |-> Cardinality(Pending)]
  <2>1. l.knows = Noted(seen)
      OBVIOUS
  <2>2. sent' = Append(sent, l) /\ UNCHANGED <<out, reader, poller>>
      BY <1>2 DEF Send
  <2> HIDE DEF l
  <2>3. /\ Len(sent) \in Nat /\ DOMAIN sent = 1 .. Len(sent) /\ DOMAIN sent' = 1 .. Len(sent) + 1
        /\ sent'[Len(sent) + 1] = l /\ \A n \in 1 .. Len(sent) : sent'[n] = sent[n]
      BY <2>2 DEF SessionTypes
  <2>4. AtLeast(cap, filter, l.knows)
      BY <2>1, SentAfterRead DEF SessionTypes
  <2>5. \A n \in DOMAIN sent' : AtLeast(cap, filter, sent'[n].knows)
    <3> SUFFICES ASSUME NEW n \in DOMAIN sent'
                 PROVE  AtLeast(cap, filter, sent'[n].knows)
        OBVIOUS
    <3>1. n \in DOMAIN sent \/ n = Len(sent) + 1
        BY <2>3
    <3> QED  BY <2>3, <2>4, <3>1 DEF TakenInv
  <2>6. pc \in {"filter", "dispatch", "write"} => sent'[nth] = sent[nth]
      BY <2>3, LineIsSent DEF Midway
  <2> QED  BY <2>2, <2>5, <2>6 DEF TakenInv
<1>3. CASE UNCHANGED <<sent, reader, poller>>
           /\ (out' = out \/ \E r \in OutLine : out' = Append(out, r) /\ r.kind # "note")
    BY <1>1, <1>3, TakenKept DEF TakenInv
<1>4. CASE UNCHANGED <<sent, view, nth, poller>> /\ pc' \notin {"filter", "dispatch"}
           /\ (pc' = "write" => pc = "dispatch")
           /\ (out' = out \/ \E r \in OutLine : out' = Append(out, r) /\ r.kind # "note")
    BY <1>1, <1>4, TakenKept DEF TakenInv
<1>5. CASE TakeCap \/ TakeFilter \/ ReadLine
  <2>1. UNCHANGED <<sent, out, poller>>
      BY <1>5 DEF TakeCap, TakeFilter, ReadLine
  <2>2. CASE ReadLine
    <3>1. pc' = "cap"
        BY <2>2 DEF ReadLine
    <3> QED  BY <1>1, <2>1, <3>1, TakenKept
  <2>3. CASE TakeCap \/ TakeFilter
    <3>1. nth \in DOMAIN sent /\ nth' = nth
        BY <2>3, LineIsSent DEF TakeCap, TakeFilter, Midway, SessionTypes
    <3>2. AtLeast(cap, filter, sent[nth].knows)
        BY <3>1 DEF TakenInv
    <3>3. CASE TakeCap
      <4>1. view'.cap = cap /\ pc' = "filter"
          BY <3>3 DEF TakeCap, SessionCap, SessionTypes, Known
      <4> QED  BY <1>1, <2>1, <3>1, <3>2, <4>1, TakenKept DEF AtLeast
    <3>4. CASE TakeFilter
      <4>1. view'.filter = filter /\ view'.cap = view.cap /\ pc = "filter" /\ pc' = "dispatch"
          BY <3>4 DEF TakeFilter, SessionTypes, Known
      <4>2. view.cap >= sent[nth].knows.cap
          BY <4>1 DEF TakenInv
      <4> QED  BY <1>1, <2>1, <3>1, <3>2, <4>1, <4>2, TakenKept DEF AtLeast
    <3> QED  BY <2>3, <3>3, <3>4
  <2> QED  BY <1>5, <2>2, <2>3
<1>6. CASE Top \/ EndOfInput \/ Join \/ AnswerInline \/ Refuse \/ Spawn \/ SpawnFails
  <2>1. UNCHANGED <<sent, view, nth, poller, out>> /\ pc' \notin {"filter", "dispatch"}
        /\ (pc' = "write" => pc = "dispatch")
      BY <1>6 DEF Top, EndOfInput, Join, AnswerInline, Refuse, Spawn, SpawnFails
  <2> QED  BY <1>4, <2>1
<1>7. CASE WriteReply
  <2>1. nth \in Lines /\ reply \in Replies /\ view \in Known
      BY <1>7, LineIsSent DEF WriteReply, SessionTypes, Midway
  <2>2. Written(nth, reply) \in OutLine /\ Written(nth, reply).kind # "note"
      BY <2>1, LineIsWritten DEF Replies, Kinds
  <2>3. UNCHANGED <<sent, view, nth, poller>> /\ pc' \in {"join", "top"}
        /\ (out' = out \/ out' = Append(out, Written(nth, reply)))
      BY <1>7 DEF WriteReply
  <2> QED  BY <1>4, <2>2, <2>3
<1>8. ASSUME NEW n \in Lines, Finish(n) \/ WriteCall(n) \/ Free(n)
      PROVE  TakenInv'
  <2> DEFINE r == Written(n, CallAnswer(calls[n]))
  <2>1. CallAnswer(calls[n]) \in Replies
      BY DEF CallAnswer, Answer, Replies, Kinds
  <2>2. r \in OutLine /\ r.kind # "note"
      BY <2>1, LineIsWritten DEF SessionTypes, Replies, Kinds
  <2>3. UNCHANGED <<sent, reader, poller>> /\ (out' = out \/ out' = Append(out, r))
      BY <1>8 DEF Finish, WriteCall, Free
  <2> HIDE DEF r
  <2> QED  BY <1>3, <2>2, <2>3
<1>9. ASSUME NEW parts \in SUBSET {"cap", "filter"}, Poll(parts)
      PROVE  TakenInv'
  <2>1. UNCHANGED <<sent, out, reader, cap, filter>> /\ poll'.version = poll.version + 1
      BY <1>9 DEF Poll
  <2> QED  BY <1>1, <2>1, TakenKept DEF TakenInv
<1>10. CASE SwapCap \/ SwapFilter
  <2>1. UNCHANGED <<sent, out, reader>> /\ poll'.version = poll.version
        /\ cap' \in {cap, poll.version} /\ filter' \in {filter, poll.version}
      BY <1>10 DEF SwapCap, SwapFilter, SessionTypes
  <2> QED  BY <1>1, <2>1, TakenKept DEF TakenInv
<1>11. CASE Note
  <2> DEFINE r == [line |-> 0, kind |-> "note", cap |-> cap, filter |-> filter]
  <2>1. UNCHANGED <<sent, reader, cap, filter>> /\ (out' = out \/ out' = Append(out, r)) /\ poll'.version = poll.version
      BY <1>11 DEF Note, SessionTypes
  <2>2. r \in OutLine /\ AtLeast(cap, filter, r)
      BY <1>1 DEF OutLine, SessionTypes, AtLeast
  <2> HIDE DEF r
  <2> QED  BY <1>1, <2>1, <2>2, TakenKept DEF TakenInv
<1>12. CASE Receive \/ Close \/ Leave \/ UNCHANGED sessionVars
  <2>1. UNCHANGED <<sent, out, reader, poller>>
      BY <1>12 DEF Receive, Close, Leave, sessionVars
  <2> QED  BY <1>3, <2>1
<1> QED
    BY <1>2, <1>5, <1>6, <1>7, <1>8, <1>9, <1>10, <1>11, <1>12 DEF SessionNext, Client, Reader, Threads, Poller, Call

(* What a line is served under: what was taken for it.                        *)
LEMMA BindingStep ==
    SessionTypes /\ AnswersInv /\ TakenInv /\ ToldIsBinding /\ [SessionNext]_sessionVars => ToldIsBinding'
<1> SUFFICES ASSUME SessionTypes, AnswersInv, TakenInv, ToldIsBinding, [SessionNext]_sessionVars
             PROVE  ToldIsBinding'
    OBVIOUS
<1> USE DEF client, reader, threads, poller, Go, Owing
<1>1. /\ Len(out) \in Nat /\ Len(sent) \in Nat /\ DOMAIN out = 1 .. Len(out) /\ nth \in 0 .. Len(sent)
      /\ \A n \in 1 .. Len(sent) : n \in Lines
    BY McpSessionAssumption DEF SessionTypes, Lines
<1>2. \A i \in 1 .. Len(out) : out[i].kind = "list" => out[i].line \in 1 .. Len(sent)
    BY <1>1, NoteFields DEF AnswersInv, WrittenInv
<1>3. CASE UNCHANGED <<sent, out, under>>
           /\ \A n \in 1 .. Len(sent) : calls'[n] # "none" => calls[n] # "none"
    BY <1>3 DEF ToldIsBinding
<1>4. ASSUME NEW r \in OutLine, out' = Append(out, r), UNCHANGED <<sent, under>>,
             \A n \in 1 .. Len(sent) : calls'[n] # "none" => calls[n] # "none",
             r.kind = "list" => r.cap >= sent[r.line].knows.cap /\ r.filter >= sent[r.line].knows.filter
      PROVE  ToldIsBinding'
  <2>1. /\ Len(out') = Len(out) + 1 /\ out'[Len(out) + 1] = r /\ \A i \in 1 .. Len(out) : out'[i] = out[i]
      BY <1>4, OutGrows
  <2>2. \A i \in 1 .. Len(out') : i \in 1 .. Len(out) \/ i = Len(out) + 1
      BY <1>1, <2>1
  <2> QED  BY <1>4, <2>1, <2>2 DEF ToldIsBinding
<1>5. ASSUME NEW m \in Messages, Send(m)
      PROVE  ToldIsBinding'
  <2>1. PICK l : sent' = Append(sent, l)
      BY <1>5 DEF Send
  <2>2. UNCHANGED <<out, under, calls>>
      BY <1>5 DEF Send
  <2>3. Len(sent) < MaxLines
      BY <1>5 DEF Send
  <2>4. Len(sent') = Len(sent) + 1 /\ \A n \in 1 .. Len(sent) : sent'[n] = sent[n]
      BY <2>1 DEF SessionTypes
  <2>5. Len(sent) + 1 \in Lines
      BY <1>1, <2>3, McpSessionAssumption DEF Lines
  <2>6. calls[Len(sent) + 1] = "none"
      BY <1>1, <2>5 DEF AnswersInv, ProgressInv
  <2>7. \A n \in 1 .. Len(sent') : calls[n] # "none" => n \in 1 .. Len(sent)
      BY <1>1, <2>4, <2>6
  <2> QED  BY <1>2, <2>2, <2>4, <2>7 DEF ToldIsBinding
<1>6. CASE WriteReply
  <2>1. nth \in Lines /\ reply \in Replies /\ view \in Known
      BY <1>6, LineIsSent DEF WriteReply, SessionTypes, Midway
  <2> DEFINE r == Written(nth, reply)
  <2>2. /\ r \in OutLine /\ r.line = nth
        /\ r.kind = "list" => r.cap = view.cap /\ r.filter = view.filter
      BY <2>1, LineIsWritten
  <2>3. UNCHANGED <<sent, under, calls>> /\ (out' = out \/ out' = Append(out, r)) /\ pc = "write"
      BY <1>6 DEF WriteReply
  <2> HIDE DEF r
  <2>4. r.kind = "list" => r.cap >= sent[r.line].knows.cap /\ r.filter >= sent[r.line].knows.filter
      BY <2>2, <2>3 DEF TakenInv
  <2> QED  BY <1>3, <1>4, <2>2, <2>3, <2>4
<1>7. CASE Note
  <2> DEFINE r == [line |-> 0, kind |-> "note", cap |-> cap, filter |-> filter]
  <2>1. UNCHANGED <<sent, under, calls>> /\ (out' = out \/ out' = Append(out, r))
      BY <1>7 DEF Note
  <2>2. r \in OutLine /\ r.kind # "list"
      BY DEF OutLine, SessionTypes
  <2> HIDE DEF r
  <2> QED  BY <1>3, <1>4, <2>1, <2>2
<1>8. ASSUME NEW n \in Lines, Finish(n) \/ WriteCall(n) \/ Free(n)
      PROVE  ToldIsBinding'
  <2> DEFINE r == Written(n, CallAnswer(calls[n]))
  <2>1. CallAnswer(calls[n]) \in Replies /\ CallAnswer(calls[n]).kind # "list"
      BY DEF CallAnswer, Answer, Replies, Kinds
  <2>2. r \in OutLine /\ r.kind # "list"
      BY <2>1, LineIsWritten DEF SessionTypes
  <2>3. UNCHANGED <<sent, under>> /\ (out' = out \/ out' = Append(out, r))
      BY <1>8 DEF Finish, WriteCall, Free
  <2>4. calls[n] # "none" /\ \A k \in Lines \ {n} : calls'[k] = calls[k]
      BY <1>8 DEF Finish, WriteCall, Free, Caught, SessionTypes
  <2>5. \A k \in 1 .. Len(sent) : calls'[k] # "none" => calls[k] # "none"
      BY <1>1, <2>4
  <2> HIDE DEF r
  <2> QED  BY <1>3, <1>4, <2>2, <2>3, <2>5
<1>9. CASE Spawn
  <2>1. /\ UNCHANGED <<sent, out>> /\ pc = "dispatch"
        /\ calls' = [calls EXCEPT ![nth] = "running"] /\ under' = [under EXCEPT ![nth] = view.cap]
      BY <1>9 DEF Spawn
  <2>2. view.cap >= sent[nth].knows.cap
      BY <2>1 DEF TakenInv
  <2>3. \A n \in 1 .. Len(sent) : n # nth => calls'[n] = calls[n] /\ under'[n] = under[n]
      BY <2>1
  <2>4. nth \in Lines /\ under'[nth] = view.cap
      BY <2>1, LineIsSent DEF Midway, SessionTypes
  <2>5. \A n \in 1 .. Len(sent) : calls'[n] # "none" => under'[n] >= sent[n].knows.cap
      BY <2>2, <2>3, <2>4 DEF ToldIsBinding
  <2> QED  BY <2>1, <2>5 DEF ToldIsBinding
<1>10. CASE \/ Top \/ ReadLine \/ EndOfInput \/ TakeCap \/ TakeFilter \/ AnswerInline \/ Refuse
            \/ SpawnFails \/ Join \/ Receive \/ Close \/ Leave \/ SwapCap \/ SwapFilter
            \/ (\E parts \in SUBSET {"cap", "filter"} : Poll(parts)) \/ UNCHANGED sessionVars
  <2>1. UNCHANGED <<sent, out, under, calls>>
      BY <1>10 DEF Top, ReadLine, EndOfInput, TakeCap, TakeFilter, AnswerInline, Refuse, SpawnFails, Join,
                   Receive, Close, Leave, Poll, SwapCap, SwapFilter, sessionVars
  <2> QED  BY <1>3, <2>1
<1> QED
    BY <1>5, <1>6, <1>7, <1>8, <1>9, <1>10 DEF SessionNext, Client, Reader, Threads, Poller, Call

(* What the client was told of the grant in force.                            *)
LEMMA ToldStep ==
    SessionTypes /\ ToldInv /\ [SessionNext]_sessionVars => ToldInv'
<1> SUFFICES ASSUME SessionTypes, ToldInv, [SessionNext]_sessionVars
             PROVE  ToldInv'
    OBVIOUS
<1> USE DEF client, reader, threads, poller
<1>1. out' = out => Told' = Told
    BY DEF Told, Noted
<1>2. ASSUME NEW r \in OutLine, out' = Append(out, r), r.kind # "note"
      PROVE  Told' = Told
    BY <1>2, NotedStays DEF Told
<1>3. Told \in Known
    BY NotedIsKnown DEF Told, SessionTypes
<1>4. CASE Told' = Told /\ broken' \in {broken, TRUE} /\ UNCHANGED poller
    BY <1>4 DEF ToldInv
<1>5. CASE WriteReply
  <2>1. nth \in Lines /\ reply \in Replies /\ view \in Known
      BY <1>5, LineIsSent DEF WriteReply, SessionTypes, Midway
  <2>2. Written(nth, reply) \in OutLine /\ Written(nth, reply).kind # "note"
      BY <2>1, LineIsWritten DEF Replies, Kinds
  <2>3. UNCHANGED <<broken, poller>> /\ (out' = out \/ out' = Append(out, Written(nth, reply)))
      BY <1>5 DEF WriteReply
  <2> QED  BY <1>1, <1>2, <1>4, <2>2, <2>3
<1>6. ASSUME NEW n \in Lines, Finish(n) \/ WriteCall(n) \/ Free(n)
      PROVE  ToldInv'
  <2> DEFINE r == Written(n, CallAnswer(calls[n]))
  <2>1. CallAnswer(calls[n]) \in Replies
      BY DEF CallAnswer, Answer, Replies, Kinds
  <2>2. r \in OutLine /\ r.kind # "note"
      BY <2>1, LineIsWritten DEF SessionTypes, Replies, Kinds
  <2>3. UNCHANGED <<broken, poller>> /\ (out' = out \/ out' = Append(out, r))
      BY <1>6 DEF Finish, WriteCall, Free
  <2> HIDE DEF r
  <2> QED  BY <1>1, <1>2, <1>4, <2>2, <2>3
<1>7. ASSUME NEW parts \in SUBSET {"cap", "filter"}, Poll(parts)
      PROVE  ToldInv'
  <2>1. poll.at = "sleep" /\ poll'.at = "cap" /\ UNCHANGED <<out, broken, cap, filter>>
      BY <1>7 DEF Poll
  <2> QED  BY <1>1, <2>1 DEF ToldInv
<1>8. CASE SwapCap
  <2>1. /\ poll.at = "cap" /\ poll'.at = "filter" /\ poll'.parts = poll.parts
        /\ UNCHANGED <<out, broken, filter>> /\ ("cap" \notin poll.parts => cap' = cap)
      BY <1>8 DEF SwapCap, SessionTypes
  <2> QED  BY <1>1, <2>1 DEF ToldInv
<1>9. CASE SwapFilter
  <2>1. /\ poll.at = "filter" /\ UNCHANGED <<out, broken, cap>>
        /\ poll'.at = IF Tells THEN "note" ELSE "sleep"
        /\ (~Tells => filter' = filter /\ "cap" \notin poll.parts)
      BY <1>9 DEF SwapFilter, SessionTypes, Tells
  <2>2. CASE Tells
      BY <2>1, <2>2 DEF ToldInv
  <2>3. CASE ~Tells
    <3>1. ~broken => Told.filter = filter /\ Told.cap = cap
        BY <2>1, <2>3 DEF ToldInv
    <3>2. ~broken => Told = [cap |-> cap, filter |-> filter]
        BY <1>3, <3>1 DEF Known
    <3> QED  BY <1>1, <2>1, <2>3, <3>2 DEF ToldInv
  <2> QED  BY <2>2, <2>3
<1>10. CASE Note
  <2> DEFINE r == [line |-> 0, kind |-> "note", cap |-> cap, filter |-> filter]
  <2>1. /\ UNCHANGED <<broken, cap, filter>> /\ poll'.at = "sleep"
        /\ out' = IF broken THEN out ELSE Append(out, r)
      BY <1>10 DEF Note, SessionTypes
  <2>2. r.kind = "note" /\ r.cap = cap /\ r.filter = filter
      OBVIOUS
  <2> HIDE DEF r
  <2>3. CASE ~broken
    <3>1. out' = Append(out, r)
        BY <2>1, <2>3
    <3>2. Told' = [cap |-> cap, filter |-> filter]
        BY <2>2, <3>1, NotedIsNew DEF Told
    <3> QED  BY <2>1, <3>2 DEF ToldInv
  <2>4. CASE broken
      BY <2>1, <2>4 DEF ToldInv
  <2> QED  BY <2>3, <2>4
<1>11. CASE \/ Top \/ ReadLine \/ EndOfInput \/ TakeCap \/ TakeFilter \/ AnswerInline \/ Refuse
            \/ Spawn \/ SpawnFails \/ Join \/ Receive \/ Close \/ Leave
            \/ (\E m \in Messages : Send(m)) \/ UNCHANGED sessionVars
  <2>1. UNCHANGED <<out, poller>> /\ broken' \in {broken, TRUE}
      BY <1>11 DEF Top, ReadLine, EndOfInput, TakeCap, TakeFilter, AnswerInline, Refuse, Spawn, SpawnFails, Join,
                   Receive, Close, Leave, Send, sessionVars
  <2> QED  BY <1>1, <1>4, <2>1
<1> QED
    BY <1>5, <1>6, <1>7, <1>8, <1>9, <1>10, <1>11 DEF SessionNext, Client, Reader, Threads, Poller, Call

(* No state of a session, whatever it is sent and however its threads and the *)
(* grants interleave, breaks the invariant its properties rest on.            *)
SessionInv == SessionTypes /\ AnswersInv /\ BoundInv /\ TakenInv /\ ToldIsBinding /\ ToldInv
THEOREM SessionInvariant == SessionSpec => []SessionInv
<1>1. SessionInit => SessionInv
    BY InitHolds DEF SessionInv
<1>2. SessionInv /\ [SessionNext]_sessionVars => SessionInv'
    BY SessionTypesStep, AnswersStep, BoundStep, TakenStep, BindingStep, ToldStep DEF SessionInv
<1> QED  BY <1>1, <1>2, PTL DEF SessionSpec

(* A list and a call are served under a grant no older than the one their     *)
(* client had been told of when it sent them.                                 *)
THEOREM ToldStaysBinding == SessionSpec => []ToldIsBinding
<1>1. SessionInv => ToldIsBinding
    BY DEF SessionInv
<1> QED  BY <1>1, SessionInvariant, PTL

(* No more than MaxCalls calls run at once, and the count the reader admits   *)
(* by is the places that are held.                                            *)
THEOREM BoundIsKept == SessionSpec => []BoundKept
<1>1. SessionInv => BoundKept
    BY DEF SessionInv, BoundInv, BoundKept, Holding
<1> QED  BY <1>1, SessionInvariant, PTL

(* No swap of the grants goes untold: whenever the poller rests, a client     *)
(* that has read everything knows of what is in force.                        *)
THEOREM NoSwapUntold == SessionSpec => []SwapsAreTold
<1>1. SessionInv => SwapsAreTold
    BY DEF SessionInv, ToldInv, SwapsAreTold, Told
<1> QED  BY <1>1, SessionInvariant, PTL

(* Each line is answered at most once, not at all where nothing is owed,      *)
(* under its own id where it has one, and once by the time a session ends.    *)
THEOREM EveryLineAnsweredOnce == SessionSpec => []AnsweredOnce
<1>1. SessionInv => AnsweredOnce
  <2> SUFFICES ASSUME SessionTypes, AnswersInv, NEW n \in 1 .. nth
               PROVE  LET m == sent[n].msg
                      IN  /\ Cardinality(Answers(n)) <= (IF OwedNothing(m) THEN 0 ELSE 1)
                          /\ \A i \in Answers(n) :
                                 /\ (Legible(m) => out[i].id = "given") /\ (out[i].id = "given" => Given(m))
                                 /\ m.text = "json" /\ m.twice # "none" => out[i].kind \in {"invalid", "tool error"}
                          /\ (pc = "ended" /\ ~broken /\ ~OwedNothing(m)) => Answers(n) # {}
      BY DEF SessionInv, AnsweredOnce
  <2> DEFINE m == sent[n].msg
  <2>1. DOMAIN out = 1 .. Len(out) /\ n # 0 /\ n \in Lines
      BY McpSessionAssumption DEF SessionTypes, Lines
  <2>2. \A i \in Answers(n) : Fits(out[i], m) /\ \A j \in Answers(n) : j = i
      BY <2>1 DEF Answers, AnswersInv, WrittenInv
  <2>3. Cardinality(Answers(n)) <= (IF OwedNothing(m) THEN 0 ELSE 1)
    <3>1. CASE Answers(n) = {}
      <4>1. Cardinality(Answers(n)) = 0
          BY <3>1, FS_EmptySet
      <4> QED  BY <4>1
    <3>2. CASE Answers(n) # {}
      <4>1. PICK i \in Answers(n) : Answers(n) = {i}
          BY <2>2, <3>2
      <4>2. Cardinality(Answers(n)) = 1
          BY <4>1, FS_Singleton
      <4>3. ~OwedNothing(m)
          BY <2>2, <4>1 DEF Fits
      <4> QED  BY <4>2, <4>3
    <3> QED  BY <3>1, <3>2
  <2>4. \A i \in Answers(n) :
           /\ (Legible(m) => out[i].id = "given") /\ (out[i].id = "given" => Given(m))
           /\ m.text = "json" /\ m.twice # "none" => out[i].kind \in {"invalid", "tool error"}
      BY <2>2 DEF Fits
  <2>5. (pc = "ended" /\ ~broken /\ ~OwedNothing(m)) => Answers(n) # {}
      BY <2>1 DEF AnswersInv, ProgressInv, Returned, Settled, Underway, Midway
  <2> QED  BY <2>3, <2>4, <2>5
<1> QED  BY <1>1, SessionInvariant, PTL
-----------------------------------------------------------------------------
(* Proofs about the mounts, for any peers, users, names and topologies.       *)
(*                                                                            *)
(* Where a request is, where it ran, and what it may still do.  One that a    *)
(* mount fronts is on its way there, or has been; one that left its front is  *)
(* a read whose peer was away or did not answer.                              *)
MountStages == {"idle", "look", "dial", "call", "down", "here", "catalog", "dial list"} \cup Results
MountAsks == [at : MountStages, verb : {"Source", "Sink", "List"}, name : Names \cup {<<>>}, via : Nat]

MountTypes ==
    /\ mounts \in Seq(Mount) /\ user \in [Users -> MountAsks] /\ ran \in [Users -> SUBSET (Peers \cup {Own, "here"})]
    /\ process = "off" => \A u \in Users : user[u].at = "idle"

FrontOf(n) == First(Fronting(n), n)
FrontPeer(n) == mounts[FrontOf(n)].peer
Fell(u) ==
    /\ mounts[FrontOf(user[u].name)].kind = "prefer" /\ user[u].verb = "Source"
    /\ u \in missed \/ FrontPeer(user[u].name) \in ran[u]
ToFront(u) ==
    /\ Fronted(user[u].name) /\ user[u].via = FrontOf(user[u].name)
    /\ PeerOf(u) \in up \/ u \in missed
NotHere(u) ==
    \/ Fronted(user[u].name) /\ Fell(u) /\ ran[u] \subseteq {FrontPeer(user[u].name)}
    \/ ~Fronted(user[u].name) /\ ran[u] = {}
ToAlias(u) == user[u].via \in Aliases(user[u].name) /\ user[u].name \notin Local /\ ~IsKernels(user[u].name)

Staged(u) ==
    /\ user[u].at = "idle" => user[u] = Idle
    /\ user[u].at \in {"idle", "catalog", "dial list", "look", "dial"} => ran[u] = {}
    /\ user[u].at \in {"look", "dial"} => ToFront(u)
    /\ user[u].at = "call" => (ToFront(u) /\ ran[u] = {}) \/ (ToAlias(u) /\ NotHere(u))
    /\ user[u].at = "down" =>
          \/ ToFront(u) /\ ran[u] \subseteq {PeerOf(u)} /\ (u \in missed \/ PeerOf(u) \in ran[u])
          \/ ToAlias(u)
    /\ user[u].at = "here" => NotHere(u)

Placed(u) ==
    /\ user[u].verb = "Sink" => \E place \in Peers \cup {Own, "here"} : ran[u] \subseteq {place}
    /\ ~Fronted(user[u].name) /\ (IsKernels(user[u].name) \/ user[u].name \in Local) => ran[u] \subseteq {"here"}
    /\ Fronted(user[u].name) =>
          \A place \in ran[u] \ {FrontPeer(user[u].name)} : Fell(u) /\ (place # "here" => user[u].name \notin Local)

MountInv == MountTypes /\ \A u \in Users : Staged(u) /\ Placed(u)

(* The longest prefix of a mount that a name begins with is a length.         *)
LEMMA ReachIsHead ==
    ASSUME NEW i, NEW n \in Seq(STRING), Claims(i, n)
    PROVE  Reach(i, n) \in 0 .. Len(n)
<1> DEFINE S == Heads(mounts[i], n)
           T == {l + 1 : l \in S}
<1>1. Len(n) \in Nat /\ S \subseteq 0 .. Len(n) /\ S # {}
    BY DEF Claims, Heads
<1>2. Len(n) + 1 \in Nat /\ T \in SUBSET (1 .. Len(n) + 1) /\ T # {}
    BY <1>1
<1>3. PICK t \in T : \A j \in T : j <= t
  <2> HIDE DEF T
  <2> QED  BY <1>2, LatestNote
<1>4. PICK l \in S : t = l + 1
    BY <1>3
<1>5. \A k \in S : k <= l
  <2> SUFFICES ASSUME NEW k \in S
               PROVE  k <= l
      OBVIOUS
  <2>1. k + 1 <= l + 1 /\ k \in Nat /\ l \in Nat
      BY <1>1, <1>3, <1>4
  <2> QED  BY <2>1
<1>6. Reach(i, n) \in S
  <2> HIDE DEF S
  <2>1. Reach(i, n) = CHOOSE m \in S : \A k \in S : k <= m
      BY DEF Reach, S
  <2> QED  BY <2>1, <1>4, <1>5
<1> QED  BY <1>1, <1>6

(* Of any mounts that claim a name one is tried first, and only one.          *)
LEMMA FirstIsOne ==
    ASSUME mounts \in Seq(Mount), NEW n \in Seq(STRING),
           NEW C \in SUBSET DOMAIN mounts, C # {}, \A i \in C : Claims(i, n)
    PROVE  /\ First(C, n) \in C
           /\ \A k \in C \ {First(C, n)} :
                 Reach(First(C, n), n) > Reach(k, n)
                 \/ (Reach(First(C, n), n) = Reach(k, n) /\ First(C, n) < k)
<1> DEFINE T == {Reach(i, n) + 1 : i \in C}
<1>1. Len(n) \in Nat /\ DOMAIN mounts \subseteq Nat /\ \A i \in C : i \in Nat /\ Reach(i, n) \in 0 .. Len(n)
    BY ReachIsHead
<1>2. Len(n) + 1 \in Nat /\ T \in SUBSET (1 .. Len(n) + 1) /\ T # {}
    BY <1>1
<1>3. PICK t \in T : \A j \in T : j <= t
  <2> HIDE DEF T
  <2> QED  BY <1>2, LatestNote
<1> DEFINE Ties == {i \in C : Reach(i, n) + 1 = t}
<1>4. Ties \subseteq Nat /\ \E i \in C : i \in Ties
    BY <1>1, <1>3
<1>5. PICK i \in Ties : \A k \in Ties : <<k, i>> \notin OpToRel(<, Nat)
  <2> HIDE DEF Ties
  <2> QED  BY <1>4, NatLessThanWellFounded, WFMin
<1>6. i \in C /\ \A k \in Ties : ~(k < i)
    BY <1>1, <1>5 DEF OpToRel
<1>7. ASSUME NEW k \in C \ {i}
      PROVE  Reach(i, n) > Reach(k, n) \/ (Reach(i, n) = Reach(k, n) /\ i < k)
  <2>1. Reach(k, n) + 1 <= t /\ Reach(i, n) + 1 = t
      BY <1>3, <1>5
  <2>2. i \in Nat /\ k \in Nat /\ Reach(i, n) \in Nat /\ Reach(k, n) \in Nat /\ i # k
      BY <1>1, <1>6
  <2>3. Reach(k, n) = Reach(i, n) => k \in Ties
      BY <2>1
  <2>4. Reach(k, n) = Reach(i, n) => ~(k < i)
      BY <2>3, <1>6
  <2> QED  BY <2>1, <2>2, <2>4
<1> HIDE DEF T, Ties
<1> QED  BY <1>6, <1>7 DEF First

(* The mount with the longest claim on a name, the earlier of two alike, is   *)
(* the one tried first.                                                       *)
LEMMA LongestIsFirst ==
    ASSUME mounts \in Seq(Mount), NEW n \in Seq(STRING), NEW i \in Fronting(n), Longest(i, n)
    PROVE  i = FrontOf(n)
<1> DEFINE f == FrontOf(n)
<1>1. Fronting(n) \in SUBSET DOMAIN mounts /\ Fronting(n) # {} /\ \A k \in Fronting(n) : Claims(k, n)
    BY DEF Fronting
<1>2. f \in Fronting(n) /\ (i # f => Reach(f, n) > Reach(i, n) \/ (Reach(f, n) = Reach(i, n) /\ f < i))
    BY <1>1, FirstIsOne DEF FrontOf
<1>3. Reach(i, n) > Reach(f, n) \/ (Reach(i, n) = Reach(f, n) /\ i <= f)
    BY <1>2 DEF Longest
<1>4. i \in Nat /\ f \in Nat /\ Reach(i, n) \in Nat /\ Reach(f, n) \in Nat
    BY <1>1, <1>2, ReachIsHead
<1> HIDE DEF f
<1>5. i = f
    BY <1>2, <1>3, <1>4
<1> QED  BY <1>5 DEF f

(* What fronts a name is composed at the start and stays.                     *)
LEMMA FrontsStay ==
    ASSUME mounts' = mounts, NEW n
    PROVE  /\ Fronting(n)' = Fronting(n) /\ Aliases(n)' = Aliases(n)
           /\ FrontOf(n)' = FrontOf(n) /\ FrontPeer(n)' = FrontPeer(n) /\ Fronted(n)' = Fronted(n)
<1>1. Fronting(n)' = Fronting(n) /\ Aliases(n)' = Aliases(n)
    BY DEF Fronting, Aliases, Claims
<1>2. FrontOf(n)' = FrontOf(n)
    BY <1>1 DEF FrontOf, First, Reach
<1> QED  BY <1>1, <1>2 DEF FrontPeer, Fronted

LEMMA FrontIsMounted ==
    ASSUME MountTypes, NEW n \in Names \cup {<<>>}
    PROVE  /\ Fronting(n) # {} => FrontOf(n) \in Fronting(n) /\ FrontOf(n) \in DOMAIN mounts /\ FrontOf(n) # 0
           /\ Aliases(n) # {} => First(Aliases(n), n) \in Aliases(n)
<1>1. n \in Seq(STRING)
  <2>1. <<>> \in Seq(STRING) /\ Names \subseteq Seq(STRING)
      BY MountsAssumption
  <2> QED  BY <2>1
<1>2. mounts \in Seq(Mount)
    BY DEF MountTypes
<1>3. 0 \notin DOMAIN mounts
    BY <1>2
<1>4. Fronting(n) \in SUBSET DOMAIN mounts /\ (\A k \in Fronting(n) : Claims(k, n))
    BY DEF Fronting
<1>5. Aliases(n) \in SUBSET DOMAIN mounts /\ (\A k \in Aliases(n) : Claims(k, n))
    BY DEF Aliases
<1>6. Fronting(n) # {} => FrontOf(n) \in Fronting(n)
    BY <1>1, <1>2, <1>4, FirstIsOne DEF FrontOf
<1>7. Aliases(n) # {} => First(Aliases(n), n) \in Aliases(n)
    BY <1>1, <1>2, <1>5, FirstIsOne
<1> QED  BY <1>3, <1>4, <1>6, <1>7

LEMMA UserFields ==
    ASSUME MountTypes, NEW u \in Users
    PROVE  /\ user[u] \in MountAsks /\ user[u].at \in MountStages /\ user[u].name \in Names \cup {<<>>}
           /\ user[u].verb \in {"Source", "Sink", "List"} /\ user[u].via \in Nat
           /\ ran[u] \in SUBSET (Peers \cup {Own, "here"})
BY DEF MountTypes, MountAsks

LEMMA MountIndices ==
    ASSUME MountTypes
    PROVE  DOMAIN mounts \subseteq Nat
BY DEF MountTypes

LEMMA AListing ==
    ASSUME NEW at \in MountStages, NEW i \in Nat
    PROVE  [at |-> at, verb |-> "List", name |-> <<>>, via |-> i] \in MountAsks
BY DEF MountAsks

LEMMA PeerKnown ==
    ASSUME MountTypes, NEW i \in DOMAIN mounts
    PROVE  mounts[i].peer \in Peers \cup {Own} /\ mounts[i].kind \in {"alias", "override", "prefer"}
<1>1. mounts[i] \in Mount
    BY DEF MountTypes
<1> QED  BY <1>1 DEF Mount

(* A request nobody touches stays what it was, whoever comes or goes, as long *)
(* as its own peer is not missed unnoticed.                                   *)
UserStays(u) ==
    /\ user'[u] = user[u] /\ ran'[u] = ran[u] /\ (u \in missed => u \in missed')
    /\ PeerOf(u) \in up /\ ToFront(u) => PeerOf(u) \in up' \/ u \in missed'
LEMMA StaysStaged ==
    ASSUME mounts' = mounts, NEW u \in Users, Staged(u), Placed(u), UserStays(u)
    PROVE  Staged(u)' /\ Placed(u)'
<1> DEFINE n == user[u].name
<1>1. /\ user'[u] = user[u] /\ ran'[u] = ran[u] /\ (u \in missed => u \in missed')
      /\ Fronted(n)' = Fronted(n) /\ FrontOf(n)' = FrontOf(n) /\ FrontPeer(n)' = FrontPeer(n)
      /\ Aliases(n)' = Aliases(n)
    BY FrontsStay DEF UserStays
<1>2. user'[u].name = n /\ PeerOf(u)' = PeerOf(u)
    BY <1>1 DEF PeerOf
<1>3. /\ Fronted(user[u].name)' = Fronted(n) /\ FrontOf(user[u].name)' = FrontOf(n)
      /\ FrontPeer(user[u].name)' = FrontPeer(n) /\ Aliases(user[u].name)' = Aliases(n)
    BY <1>1, <1>2
<1>4. Fell(u) => Fell(u)'
    BY <1>1, <1>3 DEF Fell
<1>5. ToFront(u) => ToFront(u)'
    BY <1>1, <1>2, <1>3 DEF ToFront, UserStays
<1>6. NotHere(u) => NotHere(u)'
    BY <1>1, <1>3, <1>4 DEF NotHere
<1>7. ToAlias(u) => ToAlias(u)'
    BY <1>1, <1>3 DEF ToAlias
<1>8. Staged(u)'
    BY <1>1, <1>2, <1>5, <1>6, <1>7 DEF Staged, Idle
<1>9. Placed(u)'
    BY <1>1, <1>2, <1>3, <1>4 DEF Placed
<1> QED  BY <1>8, <1>9

(* A step of one user.                                                        *)
OnlyMoves(u) ==
    /\ mounts' = mounts /\ up' = up /\ process' = process
    /\ user' = [user EXCEPT ![u] = user'[u]] /\ ran' = [ran EXCEPT ![u] = ran'[u]]
    /\ \A w \in Users \ {u} : w \in missed => w \in missed'
LEMMA MoveKeeps ==
    ASSUME MountInv, NEW u \in Users, OnlyMoves(u),
           user'[u] \in MountAsks, ran'[u] \in SUBSET (Peers \cup {Own, "here"}),
           process = "off" => user'[u].at = "idle", Staged(u)', Placed(u)'
    PROVE  MountInv'
<1>1. MountTypes'
    BY DEF MountInv, MountTypes, OnlyMoves
<1>2. ASSUME NEW w \in Users \ {u}
      PROVE  Staged(w)' /\ Placed(w)'
  <2>1. UserStays(w) /\ mounts' = mounts
    BY <1>2 DEF OnlyMoves, MountInv, MountTypes, UserStays
  <2> QED  BY <2>1, StaysStaged DEF MountInv
<1> QED  BY <1>1, <1>2 DEF MountInv

LEMMA AskKeeps ==
    ASSUME MountInv, NEW u \in Users, NEW n \in Names, NEW verb \in {"Source", "Sink"}, Ask(u, n, verb)
    PROVE  MountInv'
<1> DEFINE f == FrontOf(n)
           asks(at, i) == [at |-> at, verb |-> verb, name |-> n, via |-> i]
<1>1. MountTypes /\ Staged(u) /\ n \in Names \cup {<<>>} /\ process # "off" /\ mounts' = mounts /\ up' = up
    BY DEF MountInv, Ask, peers
<1>2. ran' = [ran EXCEPT ![u] = {}] /\ ran'[u] = {} /\ process' = process
    BY <1>1 DEF Ask, MountTypes
<1>3. /\ Fronting(n)' = Fronting(n) /\ Fronted(n)' = Fronted(n) /\ FrontOf(n)' = f
      /\ Fronting(n) # {} => f \in Fronting(n) /\ f \in DOMAIN mounts
    BY <1>1, FrontsStay, FrontIsMounted
<1>4. CASE IsKernels(n) \/ Fronting(n) = {}
  <2>1. user' = [user EXCEPT ![u] = asks("here", 0)] /\ missed' = missed \ {u} /\ user'[u] = asks("here", 0)
      BY <1>1, <1>4 DEF Ask, MountTypes
  <2>2. ~Fronted(n)' /\ ~Fronted(user[u].name)'
      BY <1>3, <1>4, <2>1 DEF Fronted
  <2>3. asks("here", 0) \in MountAsks
      BY DEF MountAsks, MountStages
  <2>4. NotHere(u)' /\ user'[u].at = "here"
      BY <1>2, <2>1, <2>2 DEF NotHere
  <2>5. Staged(u)' /\ Placed(u)'
      BY <1>2, <2>1, <2>4 DEF Staged, Placed
  <2>6. OnlyMoves(u)
      BY <1>1, <1>2, <2>1 DEF OnlyMoves
  <2> QED  BY <1>1, <1>2, <2>1, <2>3, <2>5, <2>6, MoveKeeps
<1>5. CASE ~(IsKernels(n) \/ Fronting(n) = {})
  <2> DEFINE at == IF mounts[f].kind = "prefer" THEN "look" ELSE "call"
  <2>1. user' = [user EXCEPT ![u] = asks(at, f)] /\ missed' = Away(u, f) /\ user'[u] = asks(at, f)
      BY <1>1, <1>5 DEF Ask, MountTypes, FrontOf
  <2>2. Fronted(n)' /\ f \in Nat
      BY <1>1, <1>3, <1>5 DEF Fronted, MountTypes
  <2>3. asks(at, f) \in MountAsks
      BY <2>2 DEF MountAsks, MountStages
  <2>4. mounts[f].peer \in up \/ u \in missed'
      BY <2>1 DEF Away
  <2>5. ToFront(u)'
      BY <1>1, <1>3, <2>1, <2>2, <2>4 DEF ToFront, PeerOf
  <2>6. user'[u].at \in {"look", "call"}
      BY <2>1
  <2>7. Staged(u)'
      BY <1>2, <2>5, <2>6 DEF Staged
  <2>8. Placed(u)'
      BY <1>2, <2>1 DEF Placed
  <2>9. OnlyMoves(u)
      BY <1>1, <1>2, <2>1 DEF OnlyMoves, Away
  <2> QED  BY <1>1, <1>2, <2>1, <2>3, <2>7, <2>8, <2>9, MoveKeeps
<1> QED  BY <1>4, <1>5

(* A step that only takes a request further.                                  *)
LEMMA StepsKeeps ==
    ASSUME MountInv, NEW u \in Users, NEW at \in MountStages, Steps(u, at), user[u].at # "idle", at # "idle",
           UNCHANGED <<peers, process, mounts, ran, missed>>,
           at \in {"look", "dial", "catalog", "dial list"} => ran[u] = {},
           at \in {"look", "dial"} => ToFront(u),
           at = "call" => (ToFront(u) /\ ran[u] = {}) \/ (ToAlias(u) /\ NotHere(u)),
           at = "down" => \/ ToFront(u) /\ ran[u] \subseteq {PeerOf(u)} /\ (u \in missed \/ PeerOf(u) \in ran[u])
                          \/ ToAlias(u),
           at = "here" => NotHere(u)
    PROVE  MountInv'
<1> DEFINE n == user[u].name
<1>1. MountTypes /\ Staged(u) /\ Placed(u) /\ user[u] \in MountAsks /\ ran[u] \in SUBSET (Peers \cup {Own, "here"})
    BY UserFields DEF MountInv
<1>2. mounts' = mounts /\ up' = up /\ process' = process /\ ran' = ran /\ missed' = missed
    BY DEF peers
<1>3. /\ user' = [user EXCEPT ![u].at = at] /\ user'[u].at = at /\ user'[u].name = n
      /\ user'[u].verb = user[u].verb /\ user'[u].via = user[u].via /\ user'[u] \in MountAsks
    BY <1>1 DEF Steps, MountTypes, MountAsks
<1>4. PeerOf(u)' = PeerOf(u)
    BY <1>2, <1>3 DEF PeerOf
<1>5. /\ Fronted(user[u].name)' = Fronted(n) /\ FrontOf(user[u].name)' = FrontOf(n)
      /\ FrontPeer(user[u].name)' = FrontPeer(n) /\ Aliases(user[u].name)' = Aliases(n)
    BY <1>2, <1>3, FrontsStay
<1>6. Fell(u)' = Fell(u)
    BY <1>2, <1>3, <1>5 DEF Fell
<1>7. ToFront(u)' = ToFront(u)
    BY <1>2, <1>3, <1>4, <1>5 DEF ToFront
<1>8. NotHere(u)' = NotHere(u)
    BY <1>2, <1>3, <1>5, <1>6 DEF NotHere
<1>9. ToAlias(u)' = ToAlias(u)
    BY <1>2, <1>3, <1>5 DEF ToAlias
<1>10. Staged(u)'
    BY <1>2, <1>3, <1>4, <1>7, <1>8, <1>9 DEF Staged
<1>11. Placed(u)'
    BY <1>1, <1>2, <1>3, <1>5, <1>6 DEF Placed
<1>12. OnlyMoves(u)
    BY <1>1, <1>2, <1>3 DEF OnlyMoves, MountTypes, Steps
<1>13. process = "off" => user'[u].at = "idle"
    BY DEF MountInv, MountTypes
<1> QED  BY <1>1, <1>2, <1>3, <1>10, <1>11, <1>12, <1>13, MoveKeeps

LEMMA LookKeeps ==
    ASSUME MountInv, NEW u \in Users, Look(u)
    PROVE  MountInv'
<1>1. Staged(u) /\ user[u].at = "look"
    BY DEF MountInv, Look, Unless
<1>2. ran[u] = {} /\ ToFront(u)
    BY <1>1 DEF Staged
<1>3. PICK at \in {"call", "dial"} : Steps(u, at)
    BY DEF Look, Unless
<1>4. at \in MountStages /\ UNCHANGED <<peers, process, mounts, ran, missed>>
    BY DEF MountStages, Look, Unless
<1> QED  BY <1>1, <1>2, <1>3, <1>4, StepsKeeps

LEMMA DialKeeps ==
    ASSUME MountInv, NEW u \in Users, Dial(u)
    PROVE  MountInv'
<1>1. Staged(u) /\ user[u].at = "dial"
    BY DEF MountInv, Dial
<1>2. ran[u] = {} /\ ToFront(u)
    BY <1>1 DEF Staged
<1>3. PICK at \in {"call", "down"} : Steps(u, at) /\ (at = "down" => PeerOf(u) \notin up)
    BY DEF Dial
<1>4. at \in MountStages /\ UNCHANGED <<peers, process, mounts, ran, missed>>
    BY DEF MountStages, Dial
<1>5. at = "down" => u \in missed
    BY <1>2, <1>3 DEF ToFront
<1> QED  BY <1>1, <1>2, <1>3, <1>4, <1>5, StepsKeeps

(* A peer's answer.                                                           *)
LEMMA IssueKeeps ==
    ASSUME MountInv, NEW u \in Users, Issue(u)
    PROVE  MountInv'
<1> DEFINE n == user[u].name
           p == PeerOf(u)
<1>1. /\ MountTypes /\ Staged(u) /\ Placed(u) /\ user[u].at = "call" /\ user[u] \in MountAsks
      /\ n \in Names \cup {<<>>} /\ UNCHANGED <<peers, process, mounts, missed>>
    BY UserFields DEF MountInv, Issue
<1>2. (ToFront(u) /\ ran[u] = {}) \/ (ToAlias(u) /\ NotHere(u))
    BY <1>1 DEF Staged
<1>3. CASE ~(p \in up /\ Forwarded(user[u].via, n) \in Serves[p])
  <2>1. PICK at \in {"unresolved", "down"} : Steps(u, at) /\ ran' = ran /\ (at = "down" => p \notin up)
      BY <1>3 DEF Issue
  <2>2. at = "down" /\ ToFront(u) => u \in missed
      BY <2>1 DEF ToFront
  <2>3. at \in MountStages
      BY DEF MountStages, Results
  <2> QED  BY <1>1, <1>2, <2>1, <2>2, <2>3, StepsKeeps
<1>4. CASE p \in up /\ Forwarded(user[u].via, n) \in Serves[p]
  <2>1. PICK at \in {"answered", "denied", "down"} : Steps(u, at)
      BY <1>4 DEF Issue
  <2>2. /\ user' = [user EXCEPT ![u].at = at] /\ user'[u].at = at /\ user'[u].name = n
        /\ user'[u].verb = user[u].verb /\ user'[u].via = user[u].via /\ user'[u] \in MountAsks
      BY <1>1, <2>1 DEF Steps, MountTypes, MountAsks, MountStages, Results
  <2>3. ran' = [ran EXCEPT ![u] = @ \cup {p}] /\ ran'[u] = ran[u] \cup {p}
      BY <1>1, <1>4 DEF Issue, MountTypes
  <2>4. mounts' = mounts /\ up' = up /\ process' = process /\ missed' = missed
      BY <1>1 DEF peers
  <2>5. PeerOf(u)' = p
      BY <2>2, <2>4 DEF PeerOf
  <2>6. /\ Fronted(user[u].name)' = Fronted(n) /\ FrontOf(user[u].name)' = FrontOf(n)
        /\ FrontPeer(user[u].name)' = FrontPeer(n) /\ Aliases(user[u].name)' = Aliases(n)
      BY <2>2, <2>4, FrontsStay
  <2>7. user[u].via \in DOMAIN mounts
    <3>1. CASE ToFront(u)
        BY <1>1, <3>1, FrontIsMounted DEF ToFront, Fronted
    <3>2. CASE ToAlias(u)
        BY <3>2 DEF ToAlias, Aliases
    <3> QED  BY <1>2, <3>1, <3>2
  <2>8. p \in Peers \cup {Own} /\ ran'[u] \in SUBSET (Peers \cup {Own, "here"})
      BY <1>1, <2>3, <2>7, PeerKnown, UserFields DEF PeerOf
  <2>9. OnlyMoves(u)
      BY <1>1, <2>2, <2>3, <2>4 DEF OnlyMoves, MountTypes, Steps
  <2>10. (ToFront(u) => ToFront(u)') /\ (ToAlias(u) => ToAlias(u)')
      BY <2>2, <2>4, <2>5, <2>6 DEF ToFront, ToAlias
  <2>11. Staged(u)'
    <3>1. ToFront(u) => ran'[u] = {p} \/ ToAlias(u)'
        BY <1>2, <2>3, <2>10
    <3> QED  BY <1>2, <2>2, <2>3, <2>5, <2>10, <3>1 DEF Staged
  <2>12. Placed(u)'
    <3>1. CASE ToFront(u) /\ ran[u] = {}
      <4>1. ran'[u] = {p} /\ Fronted(n) /\ p = FrontPeer(n)
          BY <2>3, <3>1 DEF ToFront, FrontPeer, PeerOf
      <4> QED  BY <2>2, <2>6, <2>8, <4>1 DEF Placed
    <3>2. CASE ToAlias(u) /\ NotHere(u)
      <4>1. n \notin Local /\ ~IsKernels(n)
          BY <3>2 DEF ToAlias
      <4>2. Fell(u) => Fell(u)'
          BY <2>2, <2>3, <2>4, <2>6 DEF Fell
      <4>3. CASE Fronted(n)
          BY <2>2, <2>6, <3>2, <4>1, <4>2, <4>3 DEF Placed, NotHere, Fell
      <4>4. CASE ~Fronted(n)
          BY <2>2, <2>3, <2>6, <2>8, <3>2, <4>1, <4>4 DEF Placed, NotHere
      <4> QED  BY <4>3, <4>4
    <3> QED  BY <1>2, <3>1, <3>2
  <2>13. process = "off" => user'[u].at = "idle"
      BY <1>1 DEF MountTypes
  <2> QED  BY <2>2, <2>8, <2>9, <2>11, <2>12, <2>13, MoveKeeps
<1> QED  BY <1>3, <1>4

(* Only a read leaves a preferred peer, and only one that is not answering.   *)
LEMMA DownKeeps ==
    ASSUME MountInv, NEW u \in Users, Down(u)
    PROVE  MountInv'
<1> DEFINE n == user[u].name
<1>1. /\ MountTypes /\ Staged(u) /\ user[u].at = "down" /\ n \in Names \cup {<<>>}
      /\ UNCHANGED <<peers, process, mounts, ran, missed>>
    BY UserFields DEF MountInv, Down
<1>2. PICK at \in {"here", "unavailable"} : Steps(u, at) /\ (at = "here" => Falls(u))
    BY DEF Down
<1>3. at \in MountStages
    BY DEF MountStages, Results
<1>4. ASSUME Falls(u)
      PROVE  NotHere(u)
  <2>1. ~ToAlias(u)
      BY <1>4 DEF ToAlias, Aliases, Falls
  <2>2. ToFront(u) /\ ran[u] \subseteq {PeerOf(u)} /\ (u \in missed \/ PeerOf(u) \in ran[u])
      BY <1>1, <2>1 DEF Staged
  <2>3. Fronted(n) /\ PeerOf(u) = FrontPeer(n) /\ user[u].via = FrontOf(n)
      BY <2>2 DEF ToFront, PeerOf, FrontPeer
  <2> QED  BY <1>4, <2>2, <2>3 DEF NotHere, Fell, Falls
<1> QED  BY <1>1, <1>2, <1>3, <1>4, StepsKeeps

(* What is bound here, and the aliases after it.                              *)
LEMMA HereKeeps ==
    ASSUME MountInv, NEW u \in Users, Here(u)
    PROVE  MountInv'
<1> DEFINE n == user[u].name
<1>1. /\ MountTypes /\ Staged(u) /\ Placed(u) /\ user[u].at = "here" /\ user[u] \in MountAsks
      /\ n \in Names \cup {<<>>} /\ UNCHANGED <<peers, process, mounts, missed>>
    BY UserFields DEF MountInv, Here
<1>2. NotHere(u) /\ process # "off"
    BY <1>1 DEF Staged, MountTypes
<1>3. mounts' = mounts /\ up' = up /\ process' = process /\ missed' = missed
    BY <1>1 DEF peers
<1>4. CASE n \in Local \/ IsKernels(n)
  <2>1. Steps(u, "answered") /\ ran' = [ran EXCEPT ![u] = @ \cup {"here"}]
      BY <1>4 DEF Here
  <2>2. /\ user' = [user EXCEPT ![u].at = "answered"] /\ user'[u].at = "answered" /\ user'[u].name = n
        /\ user'[u].verb = user[u].verb /\ user'[u] \in MountAsks
      BY <1>1, <2>1 DEF Steps, MountTypes, MountAsks, MountStages, Results
  <2>3. ran'[u] = ran[u] \cup {"here"} /\ ran'[u] \in SUBSET (Peers \cup {Own, "here"})
      BY <1>1, <2>1, UserFields DEF MountTypes
  <2>4. Fronted(user[u].name)' = Fronted(n) /\ FrontOf(user[u].name)' = FrontOf(n)
        /\ FrontPeer(user[u].name)' = FrontPeer(n)
      BY <1>3, <2>2, FrontsStay
  <2>5. Staged(u)'
      BY <2>2 DEF Staged
  <2>6. Fell(u) => Fell(u)'
      BY <1>3, <2>2, <2>3, <2>4 DEF Fell
  <2>7. Placed(u)'
    <3>1. CASE Fronted(n)
        BY <1>2, <2>2, <2>3, <2>4, <2>6, <3>1 DEF Placed, NotHere, Fell
    <3>2. CASE ~Fronted(n)
        BY <1>2, <2>2, <2>3, <2>4, <3>2 DEF Placed, NotHere
    <3> QED  BY <3>1, <3>2
  <2>8. OnlyMoves(u)
      BY <1>1, <1>3, <2>1, <2>2, <2>3 DEF OnlyMoves, MountTypes, Steps
  <2> QED  BY <1>2, <2>2, <2>3, <2>5, <2>7, <2>8, MoveKeeps
<1>5. CASE ~(n \in Local \/ IsKernels(n)) /\ Aliases(n) = {}
  <2>1. Steps(u, "unresolved") /\ ran' = ran
      BY <1>5 DEF Here
  <2>2. "unresolved" \in MountStages
      BY DEF MountStages, Results
  <2> QED  BY <1>1, <2>1, <2>2, StepsKeeps
<1>6. CASE ~(n \in Local \/ IsKernels(n)) /\ Aliases(n) # {}
  <2> DEFINE i == First(Aliases(n), n)
  <2>1. i \in Aliases(n) /\ i \in DOMAIN mounts /\ i \in Nat
      BY <1>1, <1>6, FrontIsMounted DEF Aliases, MountTypes
  <2>2. Through(u, i, "call") /\ ran' = ran
      BY <1>6 DEF Here
  <2>3. /\ user' = [user EXCEPT ![u].at = "call", ![u].via = i] /\ user'[u].at = "call" /\ user'[u].name = n
        /\ user'[u].verb = user[u].verb /\ user'[u].via = i /\ user'[u] \in MountAsks
      BY <1>1, <2>1, <2>2 DEF Through, MountTypes, MountAsks, MountStages
  <2>4. /\ Fronted(user[u].name)' = Fronted(n) /\ FrontOf(user[u].name)' = FrontOf(n)
        /\ FrontPeer(user[u].name)' = FrontPeer(n) /\ Aliases(user[u].name)' = Aliases(n)
      BY <1>3, <2>3, FrontsStay
  <2>5. Fell(u)' = Fell(u)
      BY <1>3, <2>2, <2>3, <2>4 DEF Fell
  <2>6. NotHere(u)'
      BY <1>2, <2>2, <2>3, <2>4, <2>5 DEF NotHere
  <2>7. ToAlias(u)'
      BY <1>6, <2>1, <2>3, <2>4 DEF ToAlias
  <2>8. Staged(u)'
      BY <2>3, <2>6, <2>7 DEF Staged
  <2>9. Placed(u)'
      BY <1>1, <2>2, <2>3, <2>4, <2>5 DEF Placed
  <2>10. OnlyMoves(u)
      BY <1>1, <1>3, <2>2, <2>3 DEF OnlyMoves, MountTypes, Through
  <2>11. ran'[u] \in SUBSET (Peers \cup {Own, "here"})
      BY <1>1, <2>2, UserFields
  <2> QED  BY <1>2, <2>3, <2>8, <2>9, <2>10, <2>11, MoveKeeps
<1> QED  BY <1>4, <1>5, <1>6

LEMMA DoneKeeps ==
    ASSUME MountInv, NEW u \in Users, Done(u)
    PROVE  MountInv'
<1>1. MountTypes /\ mounts' = mounts /\ up' = up /\ process' = process /\ missed' = missed \ {u}
    BY DEF MountInv, Done, peers
<1>2. user' = [user EXCEPT ![u] = Idle] /\ user'[u] = Idle /\ ran' = [ran EXCEPT ![u] = {}] /\ ran'[u] = {}
    BY <1>1 DEF Done, MountTypes
<1>3. Idle \in MountAsks /\ Idle.at = "idle" /\ Idle.verb = "Source"
    BY DEF Idle, MountAsks, MountStages
<1>4. Staged(u)'
    BY <1>2, <1>3 DEF Staged
<1>5. Placed(u)'
    BY <1>2, <1>3 DEF Placed
<1>6. OnlyMoves(u)
    BY <1>1, <1>2 DEF OnlyMoves
<1> QED  BY <1>2, <1>3, <1>4, <1>5, <1>6, MoveKeeps

(* Listing runs nothing.                                                      *)
LEMMA ListKeeps ==
    ASSUME MountInv, NEW u \in Users, NEW i \in DOMAIN mounts, List(u, i)
    PROVE  MountInv'
<1>1. MountTypes /\ Staged(u) /\ mounts' = mounts /\ up' = up /\ process' = process /\ process # "off"
    BY DEF MountInv, List, peers
<1>2. PICK at \in {"catalog", "omitted", "dial list"} :
          user' = [user EXCEPT ![u] = [at |-> at, verb |-> "List", name |-> <<>>, via |-> i]]
    BY DEF List
<1>3. user'[u] = [at |-> at, verb |-> "List", name |-> <<>>, via |-> i] /\ user'[u].at = at /\ user'[u].verb = "List"
    BY <1>1, <1>2 DEF MountTypes
<1>4. user'[u] \in MountAsks
  <2>1. i \in Nat
      BY <1>1, MountIndices
  <2>2. at \in MountStages
      BY DEF MountStages, Results
  <2> QED  BY <1>3, <2>1, <2>2, AListing
<1>5. ran' = ran /\ ran'[u] = {} /\ missed' = Away(u, i)
    BY <1>1 DEF List, Staged
<1>6. Staged(u)'
    BY <1>3, <1>5 DEF Staged
<1>7. Placed(u)'
    BY <1>3, <1>5 DEF Placed
<1>8. OnlyMoves(u)
    BY <1>1, <1>2, <1>3, <1>5 DEF OnlyMoves, Away, MountTypes
<1> QED  BY <1>1, <1>4, <1>5, <1>6, <1>7, <1>8, MoveKeeps

LEMMA ListingKeeps ==
    ASSUME MountInv, NEW u \in Users, DialList(u) \/ Catalog(u)
    PROVE  MountInv'
<1>1. Staged(u) /\ user[u].at \in {"catalog", "dial list"} /\ UNCHANGED <<peers, process, mounts, ran, missed>>
    BY DEF MountInv, DialList, Catalog
<1>2. PICK at \in {"catalog", "omitted", "listed", "named"} : Steps(u, at)
    BY DEF DialList, Catalog
<1>3. ran[u] = {}
    BY <1>1 DEF Staged
<1>4. at \in MountStages
    BY DEF MountStages, Results
<1> QED  BY <1>1, <1>2, <1>3, <1>4, StepsKeeps

(* Whoever has a request under way through a peer that goes has missed it.    *)
LEMMA ComesOrGoesKeeps ==
    ASSUME MountInv, NEW p \in Peers, ComesOrGoes(p)
    PROVE  MountInv'
<1>1. MountTypes /\ mounts' = mounts /\ user' = user /\ ran' = ran /\ process' = process
    BY DEF MountInv, ComesOrGoes
<1>2. MountTypes'
    BY <1>1 DEF MountTypes
<1>3. ASSUME NEW u \in Users
      PROVE  Staged(u)' /\ Placed(u)'
  <2>1. Staged(u) /\ Placed(u)
      BY DEF MountInv
  <2>2. u \in missed => u \in missed'
      BY DEF ComesOrGoes
  <2>3. ASSUME PeerOf(u) \in up, ToFront(u)
        PROVE  PeerOf(u) \in up' \/ u \in missed'
    <3>1. user[u].via # 0
        BY <1>1, <2>3, FrontIsMounted, UserFields DEF ToFront, Fronted
    <3> QED  BY <2>3, <3>1 DEF ComesOrGoes
  <2>4. UserStays(u)
      BY <1>1, <2>2, <2>3 DEF UserStays
  <2> QED  BY <1>1, <2>1, <2>4, StaysStaged
<1> QED  BY <1>2, <1>3 DEF MountInv

LEMMA BeginKeeps ==
    ASSUME MountInv, NEW flags \in Topologies, NEW file \in Topologies, NEW declined \in BOOLEAN,
           Begin(flags, declined, file)
    PROVE  MountInv'
<1> DEFINE asked == IF declined THEN <<>> ELSE IF flags # <<>> THEN flags ELSE file
<1>1. MountTypes /\ process = "off" /\ user' = user /\ ran' = ran /\ process' # "off"
    BY DEF MountInv, Begin
<1>2. asked \in Seq(Mount)
  <2>1. flags \in Seq(Mount) /\ file \in Seq(Mount) /\ <<>> \in Seq(Mount)
      BY MountsAssumption
  <2> QED  BY <2>1
<1>3. ASSUME NEW others \in Others(asked)
      PROVE  others \in Seq(Mount)
  <2> HIDE DEF asked
  <2> DEFINE kept == {i \in DOMAIN asked : asked[i].peer # Own}
  <2>1. PICK p \in [1 .. Cardinality(kept) -> kept] : others = [i \in DOMAIN p |-> asked[p[i]]]
      BY <1>3 DEF Others
  <2>2. DOMAIN asked = 1 .. Len(asked) /\ Len(asked) \in Nat /\ \A i \in DOMAIN asked : asked[i] \in Mount
      BY <1>2
  <2>3. IsFiniteSet(kept)
    <3>1. IsFiniteSet(1 .. Len(asked)) /\ kept \subseteq 1 .. Len(asked)
        BY <2>2, FS_Interval
    <3> QED  BY <3>1, FS_Subset
  <2>4. Cardinality(kept) \in Nat
      BY <2>3, FS_CardinalityType
  <2>5. others \in [1 .. Cardinality(kept) -> Mount]
      BY <2>1, <2>2
  <2> DEFINE N == Cardinality(kept)
  <2>6. N \in Nat /\ others \in [1 .. N -> Mount]
      BY <2>4, <2>5
  <2> HIDE DEF N
  <2> QED  BY <2>6
<1>4. mounts' \in Seq(Mount)
    BY <1>1, <1>3 DEF Begin, MountTypes
<1>5. MountTypes'
    BY <1>1, <1>4 DEF MountTypes
<1>6. ASSUME NEW u \in Users
      PROVE  Staged(u)' /\ Placed(u)'
  <2>1. user'[u] = Idle /\ ran'[u] = {}
      BY <1>1 DEF MountInv, MountTypes, Staged
  <2>2. Idle.at = "idle" /\ Idle.verb = "Source"
      BY DEF Idle
  <2> QED  BY <2>1, <2>2 DEF Staged, Placed
<1> QED  BY <1>5, <1>6 DEF MountInv

(* Where every request is and where it ran, always: the names the mounts      *)
(* front are on their way to the front, or left it as a read unanswered       *)
(* (compose_mounts, LazyResolver).                                            *)
THEOREM MountsInvariant == MountsSpec => []MountInv
<1>1. MountsInit => MountInv
  <2> SUFFICES ASSUME MountsInit
               PROVE  MountInv
      OBVIOUS
  <2>1. Idle \in MountAsks /\ Idle.at = "idle" /\ Idle.verb = "Source"
      BY DEF Idle, MountAsks, MountStages
  <2>2. <<>> \in Seq(Mount)
      OBVIOUS
  <2>3. MountTypes
      BY <2>1, <2>2 DEF MountsInit, MountTypes
  <2>4. ASSUME NEW u \in Users
        PROVE  Staged(u) /\ Placed(u)
    <3>1. user[u] = Idle /\ ran[u] = {}
        BY DEF MountsInit
    <3> QED  BY <2>1, <3>1 DEF Staged, Placed
  <2> QED  BY <2>3, <2>4 DEF MountInv
<1>2. MountInv /\ [MountsNext]_mountsVars => MountInv'
  <2> SUFFICES ASSUME MountInv, [MountsNext]_mountsVars
               PROVE  MountInv'
      OBVIOUS
  <2>1. CASE \E flags, file \in Topologies, declined \in BOOLEAN : Begin(flags, declined, file)
      BY <2>1, BeginKeeps
  <2>2. ASSUME NEW u \in Users, Step(u)
        PROVE  MountInv'
      BY <2>2, LookKeeps, DialKeeps, IssueKeeps, DownKeeps, HereKeeps, ListingKeeps, DoneKeeps DEF Step
  <2>3. ASSUME NEW u \in Users, NEW i \in DOMAIN mounts, List(u, i)
        PROVE  MountInv'
      BY <2>3, ListKeeps
  <2>4. ASSUME NEW u \in Users, NEW n \in Names, NEW verb \in {"Source", "Sink"}, Ask(u, n, verb)
        PROVE  MountInv'
      BY <2>4, AskKeeps
  <2>5. CASE \E p \in Peers : ComesOrGoes(p)
      BY <2>5, ComesOrGoesKeeps
  <2>6. ASSUME Tick \/ UNCHANGED mountsVars
        PROVE  MountInv'
    <3>1. mounts' = mounts /\ user' = user /\ ran' = ran /\ process' = process /\ up' = up /\ missed' = missed
        BY <2>6 DEF Tick, mountsVars, peers
    <3>2. MountTypes'
        BY <3>1 DEF MountInv, MountTypes
    <3>3. ASSUME NEW u \in Users
          PROVE  Staged(u)' /\ Placed(u)'
        BY <3>1, StaysStaged DEF MountInv, UserStays
    <3> QED  BY <3>2, <3>3 DEF MountInv
  <2> QED  BY <2>1, <2>2, <2>3, <2>4, <2>5, <2>6 DEF MountsNext
<1> QED  BY <1>1, <1>2, PTL DEF MountsSpec

(* A name is answered by whoever the mounts say (compose_mounts, MountSpace,  *)
(* LazyResolver): its override or nobody; a preferred peer, or this kernel    *)
(* for a read that peer did not answer; a write at one kernel at most; this   *)
(* kernel for what only it binds.                                             *)
THEOREM NamesAreAnsweredWhereClaimed == MountsSpec => []AnsweredWhereClaimed
<1>1. MountInv => AnsweredWhereClaimed
  <2> SUFFICES ASSUME MountInv, NEW u \in Users
               PROVE  LET n == user[u].name IN
                      /\ user[u].verb = "Sink" => Cardinality(ran[u]) <= 1
                      /\ ~Fronted(n) /\ (IsKernels(n) \/ n \in Local) => ran[u] \subseteq {"here"}
                      /\ \A front \in Fronting(n) : Fronted(n) /\ Longest(front, n) =>
                            \A place \in ran[u] \ {mounts[front].peer} :
                                /\ mounts[front].kind = "prefer" /\ user[u].verb = "Source"
                                /\ u \in missed \/ mounts[front].peer \in ran[u]
                                /\ place # "here" => n \notin Local
      BY DEF AnsweredWhereClaimed
  <2> DEFINE n == user[u].name
  <2>1. MountTypes /\ Placed(u) /\ n \in Names \cup {<<>>} /\ ran[u] \in SUBSET (Peers \cup {Own, "here"})
      BY UserFields DEF MountInv
  <2>2. ASSUME user[u].verb = "Sink"
        PROVE  Cardinality(ran[u]) <= 1
    <3>1. PICK place \in Peers \cup {Own, "here"} : ran[u] \subseteq {place}
        BY <2>1, <2>2 DEF Placed
    <3>2. ran[u] = {} \/ ran[u] = {place}
        BY <3>1
    <3>3. Cardinality({}) = 0 /\ Cardinality({place}) = 1
        BY FS_EmptySet, FS_Singleton
    <3> QED  BY <3>2, <3>3
  <2>3. ~Fronted(n) /\ (IsKernels(n) \/ n \in Local) => ran[u] \subseteq {"here"}
      BY <2>1 DEF Placed
  <2>4. ASSUME NEW front \in Fronting(n), Fronted(n), Longest(front, n), NEW place \in ran[u] \ {mounts[front].peer}
        PROVE  /\ mounts[front].kind = "prefer" /\ user[u].verb = "Source"
               /\ u \in missed \/ mounts[front].peer \in ran[u]
               /\ place # "here" => n \notin Local
    <3>1. n \in Seq(STRING)
      <4>1. <<>> \in Seq(STRING) /\ Names \subseteq Seq(STRING)
          BY MountsAssumption
      <4> QED  BY <2>1, <4>1
    <3>2. front = FrontOf(n)
        BY <2>1, <2>4, <3>1, LongestIsFirst DEF MountTypes
    <3>3. mounts[front].peer = FrontPeer(n)
        BY <3>2 DEF FrontPeer
    <3>4. Fell(u) /\ (place # "here" => n \notin Local)
        BY <2>1, <2>4, <3>3 DEF Placed
    <3> QED  BY <3>2, <3>3, <3>4 DEF Fell
  <2> QED  BY <2>2, <2>3, <2>4
<1> QED  BY <1>1, MountsInvariant, PTL

-----------------------------------------------------------------------------
(* Proofs about the tools, for any kernels, names, contracts and mounts.      *)
(*                                                                            *)
(* Of some places, one is the first.                                          *)
LEMMA LowestIsFirst ==
    ASSUME NEW S \in SUBSET Nat, S # {}
    PROVE  Lowest(S) \in S /\ \A j \in S : Lowest(S) <= j
<1>1. IsWellFoundedOn(OpToRel(<, Nat), Nat)
    BY NatLessThanWellFounded
<1>2. PICK i \in S : \A k \in S : <<k, i>> \notin OpToRel(<, Nat)
    BY <1>1, WFMin
<1>3. \A k \in S : i <= k
  <2> TAKE k \in S
  <2>1. i \in Nat /\ k \in Nat /\ ~(k < i)
      BY <1>2 DEF OpToRel
  <2> QED  BY <2>1
<1> QED  BY <1>2, <1>3 DEF Lowest

(* Every group, also those that are not offered.  A group of a base has rows  *)
(* of that name: all of them, if two endpoints have the name, or all of one   *)
(* contract; and its first row tells it from the base's others.               *)
AllGroups(m) == UNION {GroupsNamed(m, b) : b \in {Base[kernel[i].id] : i \in m} \ {Unnamed}}
IsGroup(m, b, g) ==
    /\ g.rows # {} /\ g.rows \subseteq Named(m, b) /\ BaseOf(g) = b
    /\ g.ambiguous \in BOOLEAN
    /\ g.ambiguous => GroupsNamed(m, b) = {g} /\ g.rows = Named(m, b)
    /\ ~g.ambiguous =>
          /\ g.rows = Under(Named(m, b), FirstOf(g.rows).contract)
          /\ \A i \in g.rows : kernel[i].id = FirstOf(g.rows).id
    /\ \A h \in GroupsNamed(m, b) : Lowest(h.rows) = Lowest(g.rows) => h = g

LEMMA GroupsAreGroups ==
    ASSUME NEW m \in SUBSET Nat, NEW b, NEW g \in GroupsNamed(m, b),
           \E i \in m : Base[kernel[i].id] = b
    PROVE  IsGroup(m, b, g)
<1> DEFINE rows == Named(m, b)
           NameOf(c) == IF c = FirstOf(rows).contract THEN b ELSE Qualified[c]
           Of(c) == Group(NameOf(c), Under(rows, c), FALSE)
<1>1. rows # {} /\ rows \in SUBSET Nat /\ \A i \in rows : Base[kernel[i].id] = b
  <2>1. PICK i \in m : Base[kernel[i].id] = b
      OBVIOUS
  <2>2. i \in rows /\ rows \subseteq m
      BY <2>1 DEF Named
  <2> QED  BY <2>2 DEF Named
<1>2. Lowest(rows) \in rows
    BY <1>1, LowestIsFirst
<1>3. CASE \E i \in rows : kernel[i].id # FirstOf(rows).id
  <2>1. GroupsNamed(m, b) = {Group(b, rows, TRUE)}
      BY <1>3 DEF GroupsNamed
  <2>4. g = Group(b, rows, TRUE)
      BY <2>1
  <2>2. g.rows = rows /\ g.ambiguous = TRUE /\ GroupsNamed(m, b) = {g}
    <3>1. GroupsNamed(m, b) = {g}
        BY <2>1, <2>4
    <3> QED  BY <2>4, <3>1 DEF Group
  <2>3. BaseOf(g) = b
      BY <1>1, <1>2, <2>2 DEF BaseOf, FirstOf
  <2> QED  BY <1>1, <2>2, <2>3 DEF IsGroup
<1>4. CASE ~\E i \in rows : kernel[i].id # FirstOf(rows).id
  <2>1. ASSUME NEW h \in GroupsNamed(m, b)
        PROVE  \E c : h = Of(c) /\ \E i \in rows : c = kernel[i].contract
      BY <1>4 DEF GroupsNamed
  <2>2. ASSUME NEW h \in GroupsNamed(m, b)
        PROVE  /\ h.rows \subseteq rows /\ h.rows # {} /\ h.ambiguous = FALSE /\ Lowest(h.rows) \in h.rows
               /\ h.rows = Under(rows, kernel[Lowest(h.rows)].contract)
               /\ h = Of(kernel[Lowest(h.rows)].contract)
    <3>1. PICK c : h = Of(c) /\ \E i \in rows : c = kernel[i].contract
        BY <2>1
    <3>2. h.rows = Under(rows, c) /\ h.ambiguous = FALSE
        BY <3>1 DEF Group
    <3>3. h.rows # {} /\ h.rows \subseteq rows
        BY <3>1, <3>2 DEF Under
    <3>4. Lowest(h.rows) \in h.rows
        BY <1>1, <3>3, LowestIsFirst
    <3>5. kernel[Lowest(h.rows)].contract = c
        BY <3>2, <3>4 DEF Under
    <3> QED  BY <3>1, <3>2, <3>3, <3>4, <3>5
  <2>3. \A i \in rows : kernel[i].id = FirstOf(rows).id
      BY <1>4
  <2>4. BaseOf(g) = b /\ \A i \in g.rows : kernel[i].id = FirstOf(g.rows).id
      BY <1>1, <2>2, <2>3 DEF BaseOf, FirstOf
  <2>5. g.rows = Under(rows, FirstOf(g.rows).contract)
      BY <2>2 DEF FirstOf
  <2>6. \A h \in GroupsNamed(m, b) : Lowest(h.rows) = Lowest(g.rows) => h = g
      BY <2>2
  <2> QED  BY <2>2, <2>4, <2>5, <2>6 DEF IsGroup
<1> QED  BY <1>3, <1>4

(* Of two tools one precedes the other, never both.                           *)
LEMMA OnePrecedes ==
    ASSUME NEW m \in SUBSET Nat, NEW g \in AllGroups(m), NEW h \in AllGroups(m), g # h
    PROVE  Precedes(m, g, h) \/ Precedes(m, h, g)
<1>1. PICK b : b \in {Base[kernel[i].id] : i \in m} /\ g \in GroupsNamed(m, b)
    BY DEF AllGroups
<1>2. PICK d : d \in {Base[kernel[i].id] : i \in m} /\ h \in GroupsNamed(m, d)
    BY DEF AllGroups
<1>3. IsGroup(m, b, g) /\ IsGroup(m, d, h)
    BY <1>1, <1>2, GroupsAreGroups
<1>4. BaseOf(g) = b /\ BaseOf(h) = d /\ g.rows # {} /\ h.rows # {}
      /\ g.rows \subseteq Named(m, b) /\ h.rows \subseteq Named(m, d)
    BY <1>3 DEF IsGroup
<1>5. Named(m, b) \in SUBSET Nat /\ Named(m, d) \in SUBSET Nat
    BY DEF Named
<1>6. /\ Lowest(g.rows) \in g.rows /\ Lowest(h.rows) \in h.rows
      /\ Lowest(Named(m, b)) \in Named(m, b) /\ Lowest(Named(m, d)) \in Named(m, d)
    BY <1>4, <1>5, LowestIsFirst
<1>7. /\ Lowest(g.rows) \in Nat /\ Lowest(h.rows) \in Nat
      /\ Lowest(Named(m, b)) \in Nat /\ Lowest(Named(m, d)) \in Nat
    BY <1>4, <1>5, <1>6
<1>8. CASE b = d
  <2>1. Lowest(g.rows) # Lowest(h.rows)
      BY <1>1, <1>2, <1>3, <1>8 DEF IsGroup
  <2> QED  BY <1>4, <1>7, <1>8, <2>1 DEF Precedes
<1>9. CASE b # d
  <2>1. Lowest(Named(m, b)) # Lowest(Named(m, d))
      BY <1>6, <1>9 DEF Named
  <2> QED  BY <1>4, <1>7, <2>1 DEF Precedes
<1> QED  BY <1>8, <1>9

(* A name that is offered finds what it is offered for.                       *)
LEMMA OfferedOnce ==
    ASSUME NEW m \in SUBSET Nat, NEW g \in ToolGroups(m), ~g.ambiguous
    PROVE  Find(m, g.name) = g
<1>1. ToolGroups(m) = {x \in AllGroups(m) : ~Taken(m, AllGroups(m), x)}
    BY DEF ToolGroups, AllGroups
<1>2. \A h \in Candidates(m, g.name) : h \in AllGroups(m) /\ h.name = g.name
    BY <1>1 DEF Candidates
<1>3. \A h \in Candidates(m, g.name) : ~Precedes(m, h, g)
    BY <1>1, <1>2 DEF Taken
<1>4. \A h \in Candidates(m, g.name) : h = g \/ Precedes(m, g, h)
    BY <1>1, <1>2, <1>3, OnePrecedes
<1>5. g \in Candidates(m, g.name)
    BY DEF Candidates
<1>6. \A x \in Candidates(m, g.name) :
          (\A h \in Candidates(m, g.name) : h = x \/ Precedes(m, x, h)) => x = g
    BY <1>3, <1>5
<1> QED  BY <1>4, <1>5, <1>6 DEF Find

LEMMA ListIsRouted ==
    ASSUME DOMAIN kernel \subseteq Nat
    PROVE  ListedRoutes
<1> DEFINE m == Manifold
<1>1. m \in SUBSET Nat
    BY DEF Manifold
<1> HIDE DEF m
<1>2. ASSUME NEW x \in ToolGroups(m), ~x.ambiguous
      PROVE  LET id == FirstOf(x.rows).id
                 c == FirstOf(x.rows).contract
             IN  /\ Find(m, x.name) = x /\ x.rows = Under(Named(m, Base[id]), c)
                 /\ \A i \in x.rows : kernel[i].id = id
  <2>1. PICK b : b \in {Base[kernel[i].id] : i \in m} /\ x \in GroupsNamed(m, b)
      BY DEF ToolGroups
  <2>2. IsGroup(m, b, x)
      BY <1>1, <2>1, GroupsAreGroups
  <2>3. Find(m, x.name) = x
      BY <1>1, <1>2, OfferedOnce
  <2> QED  BY <1>2, <2>2, <2>3 DEF IsGroup, BaseOf
<1>3. ASSUME NEW t \in ToolsList(m)
      PROVE  LET g == Find(m, t.name)
             IN  /\ ~g.ambiguous /\ g.rows = Under(Named(m, Base[t.id]), t.contract)
                 /\ \A i \in g.rows : kernel[i].id = t.id
  <2>1. PICK x \in ToolGroups(m) :
            /\ ~x.ambiguous
            /\ t.name = x.name /\ t.id = FirstOf(x.rows).id /\ t.contract = FirstOf(x.rows).contract
      BY DEF ToolsList
  <2> QED  BY <1>2, <2>1
<1> QED  BY <1>3 DEF ListedRoutes, m

(* Whatever is bound, and whichever mounts go and return between a list and a *)
(* call: a listed tool routes to the rows of its own id and contract, to all  *)
(* of them, and to no other's.                                                *)
THEOREM ListRoutes == ToolsSpec => []ListedRoutes
<1>1. ToolsInit => kernel \in Kernels
    BY DEF ToolsInit
<1>2. kernel \in Kernels /\ [ToolsNext]_toolsVars => (kernel \in Kernels)'
    BY DEF ToolsNext, ListTools, CallTool, Remount, toolsVars
<1>3. kernel \in Kernels => ListedRoutes
    BY ListIsRouted, McpToolsAssumption
<1> QED  BY <1>1, <1>2, <1>3, PTL DEF ToolsSpec
=============================================================================
