------------------------------ MODULE MCLayers -------------------------------
(* Taking part in layers, the report a host makes on itself, and a terminal.  *)
(* A behaviour is one of: two processes, each of which may be killed and      *)
(* started again, saving a layer's entries, two of them posted with `post     *)
(* file` and the rest false or unsafe in one way each; two requests to the    *)
(* HTTPS front while two token commands run at once and the enrollment is     *)
(* edited; a job and the reports on it, past three of its intervals, with a   *)
(* nap and the clock set; a terminal's faces, with a line and a scratch       *)
(* buffer of one character, one line of history and one other program; or     *)
(* its scratch buffer alone, of two characters.                               *)
EXTENDS HostHealth, LayerFront, LayerFiles, Terminal, FiniteSetTheorems, TLC, TLAPS

VARIABLE part   \* "files", "front", "health", "terminal" or "scratch"

all == <<part, vars, filesVars, frontVars, terminalVars>>

Text == [id |-> "text", plain |-> TRUE, size |-> 3, escapes |-> 1]
Blob == [id |-> "blob", plain |-> FALSE, size |-> 3, escapes |-> 0]
Name(key, with) == [key |-> key, with |-> with]
Notes == Name("notes", {})
Unsafe == {Name("claude.md", {"case"}), Name("claude.md", {"wide"}),
           Name("claude.md", {"case", "trailing"}), Name("claude.md", {"invisible"}),
           Name("claude.md", {"colon"}), Name("con", {"case"}), Name(".ssh", {}),
           Name("notes", {"separator"})}

Entry(name, body) ==
    [type |-> "File", fileName |-> <<name>>, content |-> <<[as |-> "text", body |-> body]>>,
     encoding |-> <<"text">>, byteSize |-> <<body.size>>, contentHash |-> <<body>>]
Good == Entry(Notes, Text)
Spoilt ==
    {[Good EXCEPT !.contentHash = <<Blob>>], [Good EXCEPT !.byteSize = <<2>>],
     [Good EXCEPT !.encoding = <<"base64">>], [Good EXCEPT !.contentHash = <<>>],
     [Good EXCEPT !.content = @ \o @], [Good EXCEPT !.fileName = @ \o <<Name("con", {})>>],
     [Good EXCEPT !.type = "Brief"]}

MCKeys == {"notes", "draft", "claude.md", "con", ".ssh", "outside"}
MCBodies == {Text, Blob}
MCPosts == {[name |-> Notes, body |-> Text], [name |-> Name("draft", {"case"}), body |-> Blob],
            [name |-> Name("claude.md", {"case"}), body |-> Text]}
MCOthers == Spoilt \cup {Entry(n, Text) : n \in Unsafe}
MCCommands == {[how |-> "dir", name |-> None, force |-> TRUE],
               [how |-> "as", name |-> Notes, force |-> FALSE],
               [how |-> "path", name |-> Name("claude.md", {"trailing"}), force |-> TRUE]}

Shape(method, path, override, query, body) ==
    [method |-> method, path |-> path, override |-> override, query |-> query, body |-> body]
Table(entries, bare, default) == [entries |-> entries, bare |-> bare, default |-> default]

MCClients == {"alice", "bobby"}
MCPrincipalOf == [c \in Clients |-> "urn:both"]
MCShapes == {Shape("HEAD", "tuples", "DELETE", {"principal"}, "none"),
             Shape("POST", "tuples", "DELETE", {"content"}, "none"),
             Shape("POST", "out", None, {"as"}, "bare object"),
             Shape("PUT", "say", None, {}, "turtle")}
MCClientFiles == {Table({"alice", "bobby"}, {}, FALSE), Table({"alice"}, {"alice"}, TRUE),
                  Table({}, {}, TRUE), Broken}

MCMaxText == [repl |-> 1, scratch |-> 1]
MCClips == {<<"x">>}
MCScripts == {<<"cap", "resolve">>, <<"resolve", "cap">>, <<"note", "narrow">>, <<"quit", "resolve">>}
Scratch == INSTANCE Terminal WITH
    MaxText <- [repl |-> 0, scratch |-> 2], MaxHistory <- 0, Scripts <- {<<"resolve">>}

(* Requests, tokens and operators are interchangeable. *)
Interchangeable == Permutations(Requests) \cup Permutations(Tokens) \cup Permutations(Operators)

NoTerminal ==
    /\ face = "none" /\ refusing = FALSE /\ script = << >> /\ over = TRUE
    /\ granted = TRUE /\ astray = FALSE /\ scheme = "none" /\ tab = "none" /\ buffer = << >>
    /\ kill = "" /\ mode = "none" /\ history = "" /\ at = "" /\ tool = FALSE /\ clip = "" /\ due = ""

MCInit ==
    /\ part \in {"files", "front", "health", "terminal", "scratch"} /\ FilesInit /\ FrontInit
    /\ Init /\ (part # "health" => measured) /\ (part # "front" => clients = Table({}, {}, TRUE))
    /\ IF part = "terminal" THEN TerminalInit
       ELSE IF part = "scratch" THEN TerminalInit /\ face = "tui"
       ELSE NoTerminal
MCNext ==
    /\ part' = part
    /\ \/ part = "files" /\ FilesNext /\ UNCHANGED <<vars, frontVars, terminalVars>>
       \/ part = "front" /\ FrontNext /\ UNCHANGED <<vars, filesVars, terminalVars>>
       \/ part = "health" /\ Next /\ UNCHANGED <<filesVars, frontVars, terminalVars>>
       \/ part = "terminal" /\ TerminalNext /\ UNCHANGED <<vars, filesVars, frontVars>>
       \/ part = "scratch" /\ Scratch!TerminalNext /\ UNCHANGED <<vars, filesVars, frontVars>>

MCSpec == MCInit /\ [][MCNext]_all

-----------------------------------------------------------------------------
(* Proofs, for any interval.  Moments are in order, whatever the clock is set  *)
(* to: the readings of a pair, and a stamp and a report's time.               *)
Before(m, n) == m.awake <= n.awake /\ m.asleep <= n.asleep
InOrder(m, n) == Before(m, n) \/ Before(n, m)

HealthInv ==
    /\ timer.at = "stamping" => Before(timer.stamp, clock)
    /\ job.runs => /\ Before(job.last_run, clock)
                   /\ job.last_run.asleep <= job.asleep_at_last_run
                   /\ job.asleep_at_last_run <= clock.asleep
    /\ report.at # "idle" => Before(report.now, clock)
    /\ report.at = "judging" => /\ report.now.asleep <= report.asleep_now
                                /\ report.asleep_now <= clock.asleep
    /\ report.at # "idle" /\ job.runs => InOrder(job.last_run, report.now)
    /\ report.at # "idle" /\ timer.at = "stamping" => InOrder(timer.stamp, report.now)

USE HostHealthAssumption

(* Every step keeps the types. *)
LEMMA HealthTypes == TypeOK /\ [Next]_vars => TypeOK'
<1> SUFFICES ASSUME TypeOK, [Next]_vars PROVE TypeOK'
  OBVIOUS
<1> USE DEF TypeOK, Moment
<1>1. ASSUME Passes PROVE TypeOK'
  BY <1>1 DEF Passes
<1>2. ASSUME Naps PROVE TypeOK'
  BY <1>2 DEF Naps
<1>3. ASSUME NEW by \in {-1, 1}, SetClock(by) PROVE TypeOK'
  BY <1>3 DEF SetClock
<1>4. ASSUME Wake PROVE TypeOK'
  BY <1>4 DEF Wake
<1>5. ASSUME Stamp PROVE TypeOK'
  BY <1>5 DEF Stamp
<1>6. ASSUME Fold PROVE TypeOK'
  BY <1>6 DEF Fold, Scheduled, Start
<1>7. ASSUME Reload PROVE TypeOK'
  BY <1>7 DEF Reload, Scheduled, NeverRan, Start
<1>8. ASSUME ReadClock PROVE TypeOK'
  BY <1>8 DEF ReadClock
<1>9. ASSUME ReadSleep PROVE TypeOK'
  BY <1>9 DEF ReadSleep
<1>10. ASSUME Judged PROVE TypeOK'
  BY <1>10 DEF Judged, Idle, Start
<1>11. CASE UNCHANGED vars
  BY <1>11 DEF vars
<1> QED
  BY <1>1, <1>2, <1>3, <1>4, <1>5, <1>6, <1>7, <1>8, <1>9, <1>10, <1>11 DEF Next

(* Every step keeps the readings in order: time only goes on, and what is     *)
(* stamped or read is the present.                                            *)
LEMMA HealthStep == TypeOK /\ HealthInv /\ [Next]_vars => HealthInv'
<1> SUFFICES ASSUME TypeOK, HealthInv, [Next]_vars PROVE HealthInv'
  OBVIOUS
<1> USE DEF TypeOK, HealthInv, Moment, Before, InOrder
<1>1. ASSUME Passes PROVE HealthInv'
  BY <1>1 DEF Passes
<1>2. ASSUME Naps PROVE HealthInv'
  BY <1>2 DEF Naps
<1>3. ASSUME NEW by \in {-1, 1}, SetClock(by) PROVE HealthInv'
  BY <1>3 DEF SetClock
<1>4. ASSUME Wake PROVE HealthInv'
  BY <1>4 DEF Wake
<1>5. ASSUME Stamp PROVE HealthInv'
  BY <1>5 DEF Stamp
<1>6. ASSUME Fold PROVE HealthInv'
  BY <1>6 DEF Fold, Scheduled, Start
<1>7. ASSUME Reload PROVE HealthInv'
  BY <1>7 DEF Reload, Scheduled, NeverRan, Start
<1>8. ASSUME ReadClock PROVE HealthInv'
  BY <1>8 DEF ReadClock
<1>9. ASSUME ReadSleep PROVE HealthInv'
  BY <1>9 DEF ReadSleep
<1>10. ASSUME Judged PROVE HealthInv'
  BY <1>10 DEF Judged, Idle, Start
<1>11. CASE UNCHANGED vars
  BY <1>11 DEF vars
<1> QED
  BY <1>1, <1>2, <1>3, <1>4, <1>5, <1>6, <1>7, <1>8, <1>9, <1>10, <1>11 DEF Next

(* From the order alone: the arithmetic of the verdict. *)
LEMMA OrderMakesDue == TypeOK /\ HealthInv => VerdictIsDue
<1> SUFFICES ASSUME TypeOK, HealthInv, report.at = "judging", job.runs
             PROVE  IF Stale
                    THEN Lateness + SetAhead + NapInStamp + (IF measured THEN 0 ELSE Slept) > Limit
                    ELSE Lateness - SetBack - NapInReport <= Limit
  BY DEF VerdictIsDue
<1> USE DEF TypeOK, Moment
<1>1. /\ job.last_run.awake \in Nat /\ job.last_run.asleep \in Nat /\ job.last_run.set \in Int
      /\ report.now.awake \in Nat /\ report.now.asleep \in Nat /\ report.now.set \in Int
      /\ job.asleep_at_last_run \in Nat /\ report.asleep_now \in Nat
      /\ measured \in BOOLEAN /\ Limit \in Nat
  BY DEF Limit, STALE_CADENCES
<1>2. /\ job.last_run.asleep <= job.asleep_at_last_run
      /\ report.now.asleep <= report.asleep_now
      /\ \/ /\ job.last_run.awake <= report.now.awake
            /\ job.last_run.asleep <= report.now.asleep
         \/ /\ report.now.awake <= job.last_run.awake
            /\ report.now.asleep <= job.last_run.asleep
  BY DEF HealthInv, Before, InOrder
<1> QED
  BY <1>1, <1>2 DEF Stale, since_last, asleep_since_last, Wall, AtLeast, AtMost,
                    Lateness, Slept, SetAhead, SetBack, NapInStamp, NapInReport

(* The readings are in order in every state the host reaches. *)
THEOREM HealthInvariant == Spec => [](TypeOK /\ HealthInv)
<1>1. Init => TypeOK /\ HealthInv
  BY DEF Init, Scheduled, TypeOK, HealthInv, Moment, Start, NeverRan, Idle
<1>2. TypeOK /\ HealthInv /\ [Next]_vars => (TypeOK /\ HealthInv)'
  BY HealthTypes, HealthStep
<1> QED
  BY <1>1, <1>2, PTL DEF Spec

(* urn:host:health calls a job stale when it is due and only then, up to what  *)
(* the clock was set by and a nap between two readings.                       *)
THEOREM VerdictsAreDue == Spec => []VerdictIsDue
  BY HealthInvariant, OrderMakesDue, PTL

-----------------------------------------------------------------------------
(* Proofs, for any requests, clients, tokens and token commands.              *)
(*                                                                            *)
(* What the token commands and the disk hold.  A file beside the tokens' own  *)
(* may be another command's, or one that died: but what any of them writes is *)
(* bound to tokens that were minted and whose revocation has not returned.    *)
Live == minted \ revoked
Bindings(ts) == UNION {[S -> Clients] : S \in SUBSET ts}

OpStates(live, ever) ==
    {Off}
    \cup [at : {"loaded"}, held : Bindings(live), alone : BOOLEAN]
    \cup [at : {"changed"}, held : Bindings(live), alone : BOOLEAN, gone : ever \cup {None}]
    \cup [at : {"cut"}, on : Inodes, held : Bindings(live), alone : BOOLEAN, gone : ever \cup {None}]
    \cup [at : {"full"}, alone : BOOLEAN, gone : ever \cup {None}]

DiskInv ==
    /\ clients \in ClientFiles \cup {None} /\ revoked \subseteq minted
    /\ inode = [i \in Inodes |-> inode[i]]
    /\ tokens \in Inodes \cup {0} /\ partial \in Inodes \cup {0}
    /\ \A i \in {tokens, partial} \ {0} : inode[i] \in {Half} \cup Bindings(Live)

AloneInv == \A p, q \in Operators : op[p].at # "off" /\ op[p].alone /\ q # p => op[q] = Off

(* What a revocation takes away is gone from what it writes; and if it is     *)
(* alone, the file beside is its own.                                         *)
Taken(p) ==
    /\ op[p].at \in {"changed", "cut"} /\ op[p].gone # None => op[p].gone \notin DOMAIN op[p].held
    /\ op[p].at = "cut" /\ op[p].alone => partial = op[p].on
    /\ op[p].at = "full" /\ op[p].alone /\ op[p].gone # None /\ partial # 0 =>
          inode[partial] = Half \/ op[p].gone \notin DOMAIN inode[partial]

TokenInv ==
    /\ DiskInv /\ op \in [Operators -> OpStates(Live, minted)] /\ AloneInv
    /\ \A p \in Operators : Taken(p)

(* What a request has established, each thing before the next.                *)
Enrolling == {c \in Clients : Enrolled(clients, c)}
States(dead) ==
    {Off} \cup [at : {"answered"}, status : Nat]
    \cup [at : {"head"}, asks : Shapes, token : Tokens, dead : SUBSET dead, seen : SUBSET Clients]
    \cup [at : {"bound", "session"}, asks : Shapes, token : Tokens, dead : SUBSET dead,
          seen : SUBSET Clients, client : Clients]
    \cup [at : {"context", "routed", "issued"}, token : Tokens, dead : SUBSET dead,
          seen : SUBSET Clients, client : Clients, asks : Shapes, args : {s.query \ Dropped : s \in Shapes}]

Established(r) ==
    /\ request[r].at \in {"head", "bound"} => Enrolling \subseteq request[r].seen
    /\ request[r].at \in {"bound", "session", "context", "routed", "issued"} =>
          request[r].token \in minted \ request[r].dead
    /\ request[r].at \in {"session", "context", "routed", "issued"} => request[r].client \in request[r].seen
    /\ request[r].at \in {"context", "routed", "issued"} => AsItAsked(r)

FrontInv ==
    /\ TokenInv /\ minted \subseteq Tokens
    /\ request \in [Requests -> States(revoked)] /\ \A r \in Requests : Established(r)

-----------------------------------------------------------------------------
LEMMA BindingsGrow ==
    ASSUME NEW S, NEW T, S \subseteq T
    PROVE  Bindings(S) \subseteq Bindings(T)
BY DEF Bindings

LEMMA CommandsGrow ==
    ASSUME NEW S, NEW T, S \subseteq T, NEW U, NEW V, U \subseteq V
    PROVE  OpStates(S, U) \subseteq OpStates(T, V)
<1>1. Bindings(S) \subseteq Bindings(T)
    BY BindingsGrow
<1> QED  BY <1>1 DEF OpStates

(* There are inodes enough for every command and for the tokens' file.        *)
LEMMA InodeIsFree ==
    ASSUME op \in [Operators -> OpStates(Live, minted)]
    PROVE  \E j \in Inodes : j # tokens /\ \A q \in Operators : op[q].at = "cut" => op[q].on # j
<1> DEFINE f == [q \in Operators |-> IF op[q].at = "cut" THEN op[q].on ELSE 0]
           Ons == {f[q] : q \in Operators}
           n == Cardinality(Operators)
<1>1. IsFiniteSet(Operators) /\ n \in Nat
    BY LayerFrontAssumption, FS_CardinalityType
<1>2. IsFiniteSet(Ons) /\ Cardinality(Ons) <= n
  <2>1. f \in Surjection(Operators, Ons)
      BY DEF Surjection
  <2> QED  BY <1>1, <2>1, FS_Surjection
<1>3. Cardinality(Ons) \in Nat
    BY <1>2, FS_CardinalityType
<1> DEFINE All == Ons \cup {tokens}
<1>4. IsFiniteSet(All) /\ Cardinality(All) <= n + 1
  <2>1. /\ IsFiniteSet(All)
        /\ Cardinality(All) = Cardinality(Ons) \/ Cardinality(All) = Cardinality(Ons) + 1
    <3>1. CASE tokens \in Ons
      <4>1. All = Ons
          BY <3>1
      <4> QED  BY <1>2, <4>1
    <3>2. CASE tokens \notin Ons
      <4> HIDE DEF Ons
      <4> QED  BY <1>2, <3>2, FS_AddElement
    <3> QED  BY <3>1, <3>2
  <2> HIDE DEF All, Ons, n
  <2> QED  BY <1>1, <1>2, <1>3, <2>1
<1>5. Cardinality(All) \in Nat
    BY <1>4, FS_CardinalityType
<1>6. Cardinality(Inodes) = n + 2
    BY <1>1, FS_Interval DEF Inodes
<1>7. ~(Inodes \subseteq All)
  <2> HIDE DEF All, n
  <2> QED  BY <1>1, <1>4, <1>5, <1>6, FS_Subset
<1>8. PICK j \in Inodes : j \notin Ons /\ j # tokens
    BY <1>7
<1>9. ASSUME NEW q \in Operators, op[q].at = "cut"
      PROVE  op[q].on # j
    BY <1>8, <1>9
<1> QED  BY <1>8, <1>9

LEMMA FrontStarts == FrontInit => FrontInv
<1> SUFFICES ASSUME FrontInit
             PROVE  FrontInv
    OBVIOUS
<1>1. DiskInv
    BY DEF FrontInit, DiskInv
<1>2. op \in [Operators -> OpStates(Live, minted)] /\ \A p \in Operators : op[p] = Off /\ op[p].at = "off"
    BY DEF FrontInit, OpStates, Off
<1>3. TokenInv
    BY <1>1, <1>2 DEF TokenInv, AloneInv, Taken
<1>4. request \in [Requests -> States(revoked)] /\ \A r \in Requests : request[r].at = "off"
    BY DEF FrontInit, States, Off
<1>5. minted \subseteq Tokens
    BY DEF FrontInit
<1> QED  BY <1>3, <1>4, <1>5 DEF FrontInv, Established

(* The tokens' file, as whoever loads it finds it.                            *)
LEMMA HeldIsBound == ASSUME DiskInv PROVE Held \in {Half} \cup Bindings(Live)
<1>1. Empty \in Bindings(Live)
  <2>1. {} \in SUBSET Live /\ Empty \in [{} -> Clients]
      BY DEF Empty
  <2> QED  BY <2>1 DEF Bindings
<1> QED  BY <1>1 DEF DiskInv, Held

LEMMA LoadKeeps ==
    ASSUME TokenInv, NEW p \in Operators, Load(p)
    PROVE  TokenInv'
<1>1. /\ op[p].at = "off" /\ Held # Half /\ UNCHANGED <<diskVars, minted, revoked>>
      /\ op' = [NotAlone(p) EXCEPT ![p] = [at |-> "loaded", held |-> Held, alone |-> Alone]]
    BY DEF Load
<1>2. DiskInv' /\ Live' = Live
    BY <1>1 DEF TokenInv, DiskInv, Live, Bindings, diskVars
<1>3. Held \in Bindings(Live) /\ Alone \in BOOLEAN
    BY <1>1, HeldIsBound DEF TokenInv, Alone
<1>4. ASSUME NEW q \in Operators, q # p
      PROVE  /\ op'[q] \in OpStates(Live, minted) /\ op'[q].at = op[q].at
             /\ op[q].at = "off" => op'[q] = op[q]
             /\ op[q].at # "off" => /\ op'[q] = [op[q] EXCEPT !.alone = FALSE] /\ ~op'[q].alone
  <2>1. op'[q] = IF op[q].at # "off" THEN [op[q] EXCEPT !.alone = FALSE] ELSE op[q]
      BY <1>1, <1>4 DEF NotAlone
  <2>2. op[q] \in OpStates(Live, minted)
      BY DEF TokenInv
  <2>3. CASE op[q] = Off
      BY <2>1, <2>2, <2>3 DEF Off
  <2>4. CASE op[q] \in [at : {"loaded"}, held : Bindings(Live), alone : BOOLEAN]
    <3>1. op'[q] = [op[q] EXCEPT !.alone = FALSE]
        BY <2>1, <2>4
    <3>2. op'[q] \in [at : {"loaded"}, held : Bindings(Live), alone : BOOLEAN] /\ op'[q].at = op[q].at
        BY <2>4, <3>1
    <3>3. ~op'[q].alone
        BY <2>4, <3>1
    <3> QED  BY <2>4, <3>1, <3>2, <3>3 DEF OpStates
  <2>5. CASE op[q] \in [at : {"changed"}, held : Bindings(Live), alone : BOOLEAN, gone : minted \cup {None}]
    <3>1. op'[q] = [op[q] EXCEPT !.alone = FALSE]
        BY <2>1, <2>5
    <3>2. /\ op'[q] \in [at : {"changed"}, held : Bindings(Live), alone : BOOLEAN, gone : minted \cup {None}]
          /\ op'[q].at = op[q].at
        BY <2>5, <3>1
    <3>3. ~op'[q].alone
        BY <2>5, <3>1
    <3> QED  BY <2>5, <3>1, <3>2, <3>3 DEF OpStates
  <2>6. CASE op[q] \in [at : {"cut"}, on : Inodes, held : Bindings(Live), alone : BOOLEAN,
                        gone : minted \cup {None}]
    <3>1. op'[q] = [op[q] EXCEPT !.alone = FALSE]
        BY <2>1, <2>6
    <3>2. /\ op'[q] \in [at : {"cut"}, on : Inodes, held : Bindings(Live), alone : BOOLEAN,
                          gone : minted \cup {None}]
          /\ op'[q].at = op[q].at
        BY <2>6, <3>1
    <3>3. ~op'[q].alone
        BY <2>6, <3>1
    <3> QED  BY <2>6, <3>1, <3>2, <3>3 DEF OpStates
  <2>7. CASE op[q] \in [at : {"full"}, alone : BOOLEAN, gone : minted \cup {None}]
    <3>1. op'[q] = [op[q] EXCEPT !.alone = FALSE]
        BY <2>1, <2>7
    <3>2. op'[q] \in [at : {"full"}, alone : BOOLEAN, gone : minted \cup {None}] /\ op'[q].at = op[q].at
        BY <2>7, <3>1
    <3>3. ~op'[q].alone
        BY <2>7, <3>1
    <3> QED  BY <2>7, <3>1, <3>2, <3>3 DEF OpStates
  <2> QED  BY <2>2, <2>3, <2>4, <2>5, <2>6, <2>7 DEF OpStates
<1>5. op'[p] = [at |-> "loaded", held |-> Held, alone |-> Alone] /\ DOMAIN op' = Operators
    BY <1>1 DEF NotAlone
<1>6. op'[p] \in OpStates(Live, minted)
    BY <1>3, <1>5 DEF OpStates
<1>7. op' \in [Operators -> OpStates(Live, minted)]
  <2>1. \A q \in Operators : op'[q] \in OpStates(Live, minted)
      BY <1>4, <1>6
  <2>2. op' = [q \in Operators |-> op'[q]]
      BY <1>1 DEF NotAlone
  <2> QED  BY <2>1, <2>2
<1>8. AloneInv'
  <2> SUFFICES ASSUME NEW q \in Operators, NEW o \in Operators, op'[q].at # "off", op'[q].alone, o # q
               PROVE  op'[o] = Off
      BY DEF AloneInv
  <2>1. q = p
      BY <1>4
  <2>2. op[o].at = "off"
      BY <1>5, <2>1 DEF Alone
  <2>3. op'[o] = op[o]
      BY <1>4, <2>1, <2>2
  <2>4. op[o] \in OpStates(Live, minted)
      BY DEF TokenInv
  <2> QED  BY <2>2, <2>3, <2>4 DEF OpStates, Off
<1>9. ASSUME NEW q \in Operators
      PROVE  Taken(q)'
  <2>1. CASE q = p
      BY <1>5, <2>1 DEF Taken
  <2>2. CASE q # p /\ op[q].at = "off"
      BY <1>4, <2>2 DEF Taken
  <2>3. CASE q # p /\ op[q].at # "off"
    <3>1. Taken(q) /\ op[q] \in OpStates(Live, minted)
        BY DEF TokenInv
    <3>2. ~op'[q].alone /\ op'[q] = [op[q] EXCEPT !.alone = FALSE]
        BY <1>4, <2>3
    <3>3. op[q].at \in {"changed", "cut"} => op'[q].gone = op[q].gone /\ op'[q].held = op[q].held
        BY <3>1, <3>2 DEF OpStates, Off
    <3> QED  BY <1>4, <2>3, <3>1, <3>2, <3>3 DEF Taken
  <2> QED  BY <2>1, <2>2, <2>3
<1> QED  BY <1>1, <1>2, <1>7, <1>8, <1>9 DEF TokenInv

(* A command that goes on, by itself: what it is to be shown of it.           *)
LEMMA StepKeeps ==
    ASSUME TokenInv, NEW p \in Operators, NEW to \in OpStates(Live', minted'),
           op' = [op EXCEPT ![p] = to], op[p].at # "off",
           DiskInv', Live \subseteq Live', minted \subseteq minted',
           to.at # "off" => (to.alone => op[p].alone), Taken(p)'
    PROVE  TokenInv'
<1>1. op \in [Operators -> OpStates(Live, minted)] /\ AloneInv
    BY DEF TokenInv
<1>2. OpStates(Live, minted) \subseteq OpStates(Live', minted')
    BY CommandsGrow
<1>3. op' \in [Operators -> OpStates(Live', minted')]
    BY <1>1, <1>2
<1>4. op'[p] = to /\ \A q \in Operators : q # p => op'[q] = op[q]
    BY <1>1
<1>5. AloneInv'
  <2> SUFFICES ASSUME NEW q \in Operators, NEW o \in Operators, op'[q].at # "off", op'[q].alone, o # q
               PROVE  op'[o] = Off
      BY DEF AloneInv
  <2>1. CASE q = p
    <3>1. op[p].alone
        BY <1>4, <2>1
    <3> QED  BY <1>1, <1>4, <2>1, <3>1 DEF AloneInv
  <2>2. CASE q # p /\ o # p
      BY <1>1, <1>4, <2>2 DEF AloneInv
  <2>3. CASE q # p /\ o = p
    <3>1. op[p] = Off
        BY <1>1, <1>4, <2>3 DEF AloneInv
    <3> QED  BY <3>1 DEF Off
  <2> QED  BY <2>1, <2>2, <2>3
<1>6. ASSUME NEW q \in Operators, q # p
      PROVE  Taken(q)'
  <2>1. op[q].at # "off" => ~op[q].alone
      BY <1>1, <1>6 DEF AloneInv, Off
  <2>2. op'[q] = op[q] /\ Taken(q)
      BY <1>4, <1>6 DEF TokenInv
  <2> QED  BY <2>1, <2>2 DEF Taken
<1>7. \A q \in Operators : Taken(q)'
    BY <1>6
<1> QED  BY <1>3, <1>5, <1>7 DEF TokenInv

LEMMA BoundIs == \A h, S : h \in Bindings(S) <=> DOMAIN h \subseteq S /\ h \in [DOMAIN h -> Clients]
BY DEF Bindings

LEMMA ResolvesClients ==
    ASSUME clients \in ClientFiles \cup {None}, NEW named
    PROVE  Resolved(clients, named) \subseteq Clients
<1>1. Enrolled(clients, named) => named \in Clients
    BY LayerFrontAssumption DEF Enrolled, Reads
<1> QED  BY <1>1 DEF Resolved

LEMMA StopKeeps ==
    ASSUME TokenInv, NEW p \in Operators, op[p].at # "off", Stops(p),
           UNCHANGED <<diskVars, minted, revoked>>
    PROVE  TokenInv'
<1>1. DiskInv' /\ Live' = Live /\ minted' = minted
    BY DEF TokenInv, DiskInv, Live, Bindings, diskVars
<1>2. op' = [op EXCEPT ![p] = Off] /\ op'[p] = Off /\ Off.at = "off"
    BY DEF Stops, Off, TokenInv
<1>3. Off \in OpStates(Live', minted') /\ Taken(p)'
    BY <1>2 DEF OpStates, Taken
<1> QED  BY <1>1, <1>2, <1>3, StepKeeps

LEMMA MintKeeps ==
    ASSUME TokenInv, NEW p \in Operators, NEW t \in Tokens, NEW named, Mint(p, t, named)
    PROVE  TokenInv'
<1>1. /\ op[p].at = "loaded" /\ t \notin minted /\ UNCHANGED <<diskVars, revoked>>
      /\ DiskInv /\ op \in [Operators -> OpStates(Live, minted)]
    BY DEF Mint, TokenInv
<1>2. op[p] \in [at : {"loaded"}, held : Bindings(Live), alone : BOOLEAN]
    BY <1>1 DEF OpStates, Off
<1>3. CASE Stops(p) /\ minted' = minted
    BY <1>1, <1>3, StopKeeps
<1>4. CASE \E c \in Resolved(clients, named) :
              /\ minted' = minted \cup {t}
              /\ Writes(p, None, [u \in DOMAIN op[p].held \cup {t} |->
                                    IF u = t THEN c ELSE op[p].held[u]])
  <2>1. PICK c \in Resolved(clients, named) :
              /\ minted' = minted \cup {t}
              /\ Writes(p, None, [u \in DOMAIN op[p].held \cup {t} |->
                                    IF u = t THEN c ELSE op[p].held[u]])
      BY <1>4
  <2> DEFINE h == [u \in DOMAIN op[p].held \cup {t} |-> IF u = t THEN c ELSE op[p].held[u]]
             to == [at |-> "changed", held |-> h, alone |-> op[p].alone, gone |-> None]
  <2>2. Live' = Live \cup {t} /\ Live \subseteq Live' /\ minted \subseteq minted'
      BY <1>1, <2>1 DEF Live, DiskInv
  <2>3. DiskInv'
    <3>1. Bindings(Live) \subseteq Bindings(Live')
        BY <2>2, BindingsGrow
    <3> QED  BY <1>1, <2>1, <3>1 DEF DiskInv, diskVars
  <2>4. c \in Clients
      BY <1>1, <2>1, ResolvesClients DEF DiskInv
  <2>5. op[p].held \in [DOMAIN op[p].held -> Clients] /\ DOMAIN op[p].held \subseteq Live
      BY <1>2, BoundIs
  <2>6. h \in [DOMAIN h -> Clients] /\ DOMAIN h \subseteq Live'
      BY <2>2, <2>4, <2>5
  <2>7. h \in Bindings(Live')
      BY <2>6, BoundIs
  <2>8. op' = [op EXCEPT ![p] = to]
      BY <2>1 DEF Writes
  <2>9. to \in OpStates(Live', minted') /\ to.alone = op[p].alone /\ to.gone = None /\ to.at = "changed"
      BY <1>2, <2>7 DEF OpStates
  <2>10. op'[p] = to
      BY <1>1, <2>8
  <2>11. Taken(p)'
      BY <2>9, <2>10 DEF Taken
  <2> QED  BY <1>1, <2>2, <2>3, <2>8, <2>9, <2>11, StepKeeps
<1> QED  BY <1>1, <1>3, <1>4 DEF Mint

LEMMA RevokeKeeps ==
    ASSUME TokenInv, NEW p \in Operators, NEW t \in Tokens, Revoke(p, t)
    PROVE  TokenInv'
<1>1. /\ op[p].at = "loaded" /\ UNCHANGED <<diskVars, minted, revoked>>
      /\ DiskInv /\ op \in [Operators -> OpStates(Live, minted)]
    BY DEF Revoke, TokenInv
<1>2. op[p] \in [at : {"loaded"}, held : Bindings(Live), alone : BOOLEAN]
    BY <1>1 DEF OpStates, Off
<1>3. CASE Stops(p)
    BY <1>1, <1>3, StopKeeps
<1> DEFINE h == [u \in DOMAIN op[p].held \ {t} |-> op[p].held[u]]
           to == [at |-> "changed", held |-> h, alone |-> op[p].alone, gone |-> t]
<1>4. CASE t \in DOMAIN op[p].held /\ Writes(p, t, h)
  <2>1. Live' = Live /\ minted' = minted /\ DiskInv'
      BY <1>1 DEF Live, DiskInv, Bindings, diskVars
  <2>2. op[p].held \in [DOMAIN op[p].held -> Clients] /\ DOMAIN op[p].held \subseteq Live
      BY <1>2, BoundIs
  <2>3. h \in [DOMAIN h -> Clients] /\ DOMAIN h \subseteq Live /\ t \notin DOMAIN h /\ t \in minted
      BY <1>4, <2>2 DEF Live
  <2>4. h \in Bindings(Live)
      BY <2>3, BoundIs
  <2>5. op' = [op EXCEPT ![p] = to]
      BY <1>4 DEF Writes
  <2>6. to \in OpStates(Live', minted')
      BY <1>2, <2>1, <2>3, <2>4 DEF OpStates
  <2>7. to.alone = op[p].alone /\ to.gone = t /\ to.at = "changed" /\ to.held = h
      OBVIOUS
  <2>8. op'[p] = to
      BY <1>1, <2>5
  <2>9. Taken(p)'
      BY <2>3, <2>7, <2>8 DEF Taken
  <2> QED  BY <1>1, <2>1, <2>5, <2>6, <2>7, <2>9, StepKeeps
<1> QED  BY <1>3, <1>4 DEF Revoke

LEMMA CutKeeps ==
    ASSUME TokenInv, NEW p \in Operators, Cut(p)
    PROVE  TokenInv'
<1>1. /\ op[p].at = "changed" /\ UNCHANGED <<clients, tokens, minted, revoked>>
      /\ DiskInv /\ op \in [Operators -> OpStates(Live, minted)] /\ Taken(p)
    BY DEF Cut, TokenInv
<1>2. op[p] \in [at : {"changed"}, held : Bindings(Live), alone : BOOLEAN, gone : minted \cup {None}]
    BY <1>1 DEF OpStates, Off
<1> DEFINE i == IF partial # 0 THEN partial
                ELSE CHOOSE j \in Inodes : j # tokens /\ \A q \in Operators :
                       op[q].at = "cut" => op[q].on # j
           to == [at |-> "cut", on |-> i, held |-> op[p].held, alone |-> op[p].alone, gone |-> op[p].gone]
<1>3. i \in Inodes
    BY <1>1, InodeIsFree DEF DiskInv
<1>4. partial' = i /\ inode' = [inode EXCEPT ![i] = Half] /\ op' = [op EXCEPT ![p] = to]
    BY DEF Cut
<1> HIDE DEF i
<1>5. Live' = Live /\ minted' = minted /\ DiskInv'
    BY <1>1, <1>3, <1>4 DEF Live, DiskInv, Bindings
<1>6. to \in OpStates(Live', minted')
    BY <1>2, <1>3, <1>5 DEF OpStates
<1>7. to.alone = op[p].alone /\ to.gone = op[p].gone /\ to.at = "cut" /\ to.held = op[p].held /\ to.on = i
    OBVIOUS
<1>8. op'[p] = to
    BY <1>1, <1>4
<1> HIDE DEF to
<1>9. Taken(p)'
    BY <1>1, <1>4, <1>7, <1>8 DEF Taken
<1> QED  BY <1>1, <1>4, <1>5, <1>6, <1>7, <1>9, StepKeeps

LEMMA FillKeeps ==
    ASSUME TokenInv, NEW p \in Operators, Fill(p)
    PROVE  TokenInv'
<1>1. /\ op[p].at = "cut" /\ UNCHANGED <<clients, tokens, partial, minted, revoked>>
      /\ DiskInv /\ op \in [Operators -> OpStates(Live, minted)] /\ Taken(p)
    BY DEF Fill, TokenInv
<1>2. op[p] \in [at : {"cut"}, on : Inodes, held : Bindings(Live), alone : BOOLEAN, gone : minted \cup {None}]
    BY <1>1 DEF OpStates, Off
<1> DEFINE to == [at |-> "full", alone |-> op[p].alone, gone |-> op[p].gone]
<1>3. inode' = [inode EXCEPT ![op[p].on] = op[p].held] /\ op' = [op EXCEPT ![p] = to]
    BY DEF Fill
<1>4. Live' = Live /\ minted' = minted /\ DiskInv'
  <2>1. Live' = Live /\ minted' = minted
      BY <1>1 DEF Live
  <2>2. op[p].on \in Inodes /\ op[p].held \in Bindings(Live)
      BY <1>2
  <2>3. /\ inode' = [i \in Inodes |-> inode'[i]] /\ inode'[op[p].on] = op[p].held
        /\ \A i \in Inodes : i # op[p].on => inode'[i] = inode[i]
      BY <1>1, <1>3, <2>2 DEF DiskInv
  <2>4. \A i \in {tokens, partial} \ {0} : i \in Inodes /\ inode'[i] \in {Half} \cup Bindings(Live)
      BY <1>1, <2>2, <2>3 DEF DiskInv
  <2> QED  BY <1>1, <2>1, <2>3, <2>4 DEF DiskInv
<1>5. to \in OpStates(Live', minted')
    BY <1>2, <1>4 DEF OpStates
<1>6. to.alone = op[p].alone /\ to.gone = op[p].gone /\ to.at = "full"
    OBVIOUS
<1>7. op'[p] = to
    BY <1>1, <1>3
<1> HIDE DEF to
<1>8. inode'[op[p].on] = op[p].held
    BY <1>1, <1>2, <1>3 DEF DiskInv
<1>9. Taken(p)'
    BY <1>1, <1>6, <1>7, <1>8 DEF Taken
<1> QED  BY <1>1, <1>3, <1>4, <1>5, <1>6, <1>9, StepKeeps

(* The one step that takes a token from those in use: nothing but the file it *)
(* has just replaced is left of what was held.                                *)
LEMMA ReplaceKeeps ==
    ASSUME TokenInv, NEW p \in Operators, Replace(p)
    PROVE  TokenInv'
<1>1. /\ op[p].at = "full" /\ op' = [op EXCEPT ![p] = Off] /\ UNCHANGED <<clients, inode, minted>>
      /\ DiskInv /\ op \in [Operators -> OpStates(Live, minted)] /\ Taken(p)
    BY DEF Replace, Stops, TokenInv
<1>2. op'[p] = Off /\ Off.at = "off"
    BY <1>1 DEF Off
<1>3. Taken(p)' /\ \A S, T : Off \in OpStates(S, T)
    BY <1>2 DEF Taken, OpStates
<1>4. CASE partial = 0 /\ UNCHANGED <<tokens, partial, revoked>>
    BY <1>1, <1>4, StopKeeps DEF Stops, diskVars
<1>5. CASE partial # 0 /\ tokens' = partial /\ partial' = 0 /\ revoked' = revoked
  <2>1. Live' = Live /\ minted' = minted /\ DiskInv'
      BY <1>1, <1>5 DEF Live, DiskInv, Bindings
  <2> QED  BY <1>1, <1>2, <1>3, <2>1, StepKeeps
<1>6. CASE /\ partial # 0 /\ tokens' = partial /\ partial' = 0
           /\ op[p].alone /\ op[p].gone # None /\ revoked' = revoked \cup {op[p].gone}
  <2>1. op[p] \in [at : {"full"}, alone : BOOLEAN, gone : minted \cup {None}]
      BY <1>1 DEF OpStates, Off
  <2>2. op[p].gone \in minted
      BY <1>6, <2>1
  <2>3. Live' = Live \ {op[p].gone} /\ revoked' \subseteq minted'
      BY <1>1, <1>6, <2>2 DEF Live, DiskInv
  <2>4. inode[partial] \in {Half} \cup Bindings(Live')
    <3>1. inode[partial] \in {Half} \cup Bindings(Live)
        BY <1>1, <1>6 DEF DiskInv
    <3>2. inode[partial] = Half \/ op[p].gone \notin DOMAIN inode[partial]
        BY <1>1, <1>6 DEF Taken
    <3>3. CASE inode[partial] = Half
        BY <3>3
    <3>4. CASE inode[partial] \in Bindings(Live) /\ op[p].gone \notin DOMAIN inode[partial]
      <4>1. DOMAIN inode[partial] \subseteq Live' /\ inode[partial] \in [DOMAIN inode[partial] -> Clients]
          BY <2>3, <3>4, BoundIs
      <4> QED  BY <4>1, BoundIs
    <3> QED  BY <3>1, <3>2, <3>3, <3>4
  <2>5. DiskInv'
      BY <1>1, <1>6, <2>3, <2>4 DEF DiskInv
  <2>6. \A q \in Operators : op'[q] = Off
      BY <1>1, <1>2, <1>6 DEF TokenInv, AloneInv
  <2>7. op' \in [Operators -> OpStates(Live', minted')]
      BY <1>1, <1>3, <2>6
  <2> QED  BY <1>2, <2>5, <2>6, <2>7 DEF TokenInv, AloneInv, Taken
<1> QED  BY <1>4, <1>5, <1>6 DEF Replace

(* What a command does, whichever: the requests are as they were, and what    *)
(* they rest on only grows.                                                   *)
LEMMA CommandKeeps ==
    ASSUME FrontInv, NEW p \in Operators, Command(p)
    PROVE  FrontInv'
<1>1. TokenInv /\ request \in [Requests -> States(revoked)] /\ \A r \in Requests : Established(r)
    BY DEF FrontInv
<1>2. TokenInv'
    BY <1>1, LoadKeeps, CutKeeps, FillKeeps, ReplaceKeeps, RevokeKeeps, MintKeeps, StopKeeps DEF Command, Killed
<1>3. UNCHANGED <<clients, request>> /\ minted \subseteq minted' /\ revoked \subseteq revoked'
    BY DEF Command, Load, Cut, Fill, Replace, Killed, Revoke, Mint, Writes, Stops, diskVars
<1>4. minted' \subseteq Tokens
    BY DEF FrontInv, Command, Load, Cut, Fill, Replace, Killed, Revoke, Mint, Writes, Stops
<1>5. States(revoked) \subseteq States(revoked')
    BY <1>3 DEF States
<1>6. \A r \in Requests : Established(r)'
    BY <1>1, <1>3 DEF Established, Enrolling, AsItAsked
<1> QED  BY <1>1, <1>2, <1>3, <1>4, <1>5, <1>6 DEF FrontInv

LEMMA EditKeeps ==
    ASSUME FrontInv, NEW file \in ClientFiles \cup {None}, EditClients(file)
    PROVE  FrontInv'
<1> DEFINE E == {c \in Clients : Enrolled(file, c)}
<1>1. /\ clients' = file /\ UNCHANGED <<inode, tokens, partial, opVars>>
      /\ request' = [r \in Requests |-> IF request[r].at \in {"head", "bound"}
                        THEN [request[r] EXCEPT !.seen = @ \cup E] ELSE request[r]]
    BY DEF EditClients
<1>2. TokenInv' /\ minted' \subseteq Tokens /\ revoked' = revoked /\ minted' = minted
    BY <1>1 DEF FrontInv, TokenInv, DiskInv, AloneInv, Taken, Live, Bindings, OpStates, opVars
<1>3. Enrolling' = E
    BY <1>1 DEF Enrolling
<1>4. E \in SUBSET Clients
    OBVIOUS
<1> HIDE DEF E
<1>5. ASSUME NEW r \in Requests
      PROVE  request'[r] \in States(revoked) /\ Established(r)'
  <2>1. request[r] \in States(revoked) /\ Established(r)
      BY DEF FrontInv
  <2>2. CASE request[r].at \notin {"head", "bound"}
    <3>1. request'[r] = request[r]
        BY <1>1, <2>2
    <3> QED  BY <1>2, <2>1, <2>2, <3>1 DEF Established, AsItAsked
  <2>3. CASE request[r].at = "head"
    <3>1. request[r] \in [at : {"head"}, asks : Shapes, token : Tokens, dead : SUBSET revoked,
                          seen : SUBSET Clients]
        BY <2>1, <2>3 DEF States, Off
    <3>2. request'[r] = [request[r] EXCEPT !.seen = @ \cup E]
        BY <1>1, <2>3
    <3>3. /\ request'[r] \in [at : {"head"}, asks : Shapes, token : Tokens, dead : SUBSET revoked,
                              seen : SUBSET Clients]
          /\ request'[r].at = "head" /\ E \subseteq request'[r].seen
        BY <1>4, <3>1, <3>2
    <3> QED  BY <1>3, <3>3 DEF States, Established
  <2>4. CASE request[r].at = "bound"
    <3>1. request[r] \in [at : {"bound", "session"}, asks : Shapes, token : Tokens, dead : SUBSET revoked,
                          seen : SUBSET Clients, client : Clients]
        BY <2>1, <2>4 DEF States, Off
    <3>2. request'[r] = [request[r] EXCEPT !.seen = @ \cup E]
        BY <1>1, <2>4
    <3>3. request'[r] \in [at : {"bound", "session"}, asks : Shapes, token : Tokens, dead : SUBSET revoked,
                           seen : SUBSET Clients, client : Clients]
        BY <1>4, <3>1, <3>2
    <3>4. /\ request'[r].at = "bound" /\ E \subseteq request'[r].seen
          /\ request'[r].token = request[r].token /\ request'[r].dead = request[r].dead
        BY <2>4, <3>1, <3>2
    <3> QED  BY <1>2, <1>3, <2>1, <2>4, <3>3, <3>4 DEF States, Established
  <2> QED  BY <2>2, <2>3, <2>4
<1>6. request' \in [Requests -> States(revoked')]
    BY <1>1, <1>2, <1>5
<1> QED  BY <1>2, <1>5, <1>6 DEF FrontInv

(* A request goes on by itself: what is to be shown of where it gets to.      *)
LEMMA RequestKeeps ==
    ASSUME FrontInv, NEW r \in Requests, NEW to \in States(revoked),
           request' = [request EXCEPT ![r] = to], UNCHANGED <<diskVars, opVars>>, Established(r)'
    PROVE  FrontInv'
<1>1. TokenInv' /\ minted' \subseteq Tokens /\ minted' = minted /\ revoked' = revoked /\ clients' = clients
    BY DEF FrontInv, TokenInv, DiskInv, AloneInv, Taken, Live, Bindings, OpStates, opVars, diskVars
<1>2. request' \in [Requests -> States(revoked')]
    BY <1>1 DEF FrontInv
<1>3. ASSUME NEW q \in Requests, q # r
      PROVE  Established(q)'
  <2>1. request'[q] = request[q] /\ Established(q)
      BY <1>3 DEF FrontInv
  <2> QED  BY <1>1, <2>1 DEF Established, Enrolling, AsItAsked
<1> QED  BY <1>1, <1>2, <1>3 DEF FrontInv

LEMMA AnsweredKeeps ==
    ASSUME FrontInv, NEW r \in Requests, NEW status \in Nat, Answered(r, status),
           UNCHANGED <<diskVars, opVars>>
    PROVE  FrontInv'
<1> DEFINE to == [at |-> "answered", status |-> status]
<1>1. to \in States(revoked) /\ to.at = "answered"
    BY DEF States
<1>2. request' = [request EXCEPT ![r] = to] /\ request'[r] = to
    BY DEF Answered, FrontInv
<1> HIDE DEF to
<1>3. Established(r)'
    BY <1>1, <1>2 DEF Established
<1> QED  BY <1>1, <1>2, <1>3, RequestKeeps

LEMMA AcceptKeeps ==
    ASSUME FrontInv, NEW r \in Requests, NEW s \in Shapes, NEW t \in Tokens, Accept(r, s, t)
    PROVE  FrontInv'
<1>1. UNCHANGED <<diskVars, opVars>>
    BY DEF Accept
<1>2. CASE Answered(r, 503)
    BY <1>1, <1>2, AnsweredKeeps
<1> DEFINE to == [at |-> "head", asks |-> s, token |-> t, dead |-> revoked,
                  seen |-> {c \in Clients : Enrolled(clients, c)}]
<1>3. CASE request' = [request EXCEPT ![r] = to]
  <2>1. to \in States(revoked) /\ to.at = "head" /\ to.seen = Enrolling
      BY DEF States, Enrolling
  <2>2. request'[r] = to /\ clients' = clients
      BY <1>1, <1>3 DEF FrontInv, diskVars
  <2> HIDE DEF to
  <2>3. Established(r)'
      BY <2>1, <2>2 DEF Established, Enrolling
  <2> QED  BY <1>1, <1>3, <2>1, <2>3, RequestKeeps
<1> QED  BY <1>2, <1>3 DEF Accept

LEMMA BindKeeps ==
    ASSUME FrontInv, NEW r \in Requests, Bind(r)
    PROVE  FrontInv'
<1>1. UNCHANGED <<diskVars, opVars>> /\ request[r].at = "head" /\ Established(r) /\ DiskInv
    BY DEF Bind, FrontInv, TokenInv
<1>2. request[r] \in [at : {"head"}, asks : Shapes, token : Tokens, dead : SUBSET revoked, seen : SUBSET Clients]
    BY <1>1 DEF FrontInv, States, Off
<1>3. CASE Answered(r, 401)
    BY <1>1, <1>3, AnsweredKeeps
<1> DEFINE to == [at |-> "bound", asks |-> request[r].asks, token |-> request[r].token,
                  dead |-> request[r].dead, seen |-> request[r].seen, client |-> Held[request[r].token]]
<1>4. CASE Held # Half /\ request[r].token \in DOMAIN Held /\ request' = [request EXCEPT ![r] = to]
  <2>1. Held \in Bindings(Live)
      BY <1>1, <1>4, HeldIsBound
  <2>2. request[r].token \in Live /\ Held[request[r].token] \in Clients
      BY <1>4, <2>1, BoundIs
  <2>3. to \in States(revoked)
      BY <1>2, <2>2 DEF States
  <2>4. to.at = "bound" /\ to.token = request[r].token /\ to.dead = request[r].dead /\ to.seen = request[r].seen
      OBVIOUS
  <2>5. request'[r] = to /\ clients' = clients /\ minted' = minted
      BY <1>1, <1>4 DEF FrontInv, diskVars, opVars
  <2> HIDE DEF to
  <2>6. to.token \in minted \ to.dead
      BY <1>2, <2>2, <2>4 DEF Live
  <2>7. Enrolling' \subseteq to.seen
      BY <1>1, <2>4, <2>5 DEF Established, Enrolling
  <2>8. Established(r)'
      BY <2>4, <2>5, <2>6, <2>7 DEF Established
  <2> QED  BY <1>1, <1>4, <2>3, <2>8, RequestKeeps
<1> QED  BY <1>3, <1>4 DEF Bind

LEMMA SessionKeeps ==
    ASSUME FrontInv, NEW r \in Requests, Session(r)
    PROVE  FrontInv'
<1>1. UNCHANGED <<diskVars, opVars>> /\ request[r].at = "bound" /\ Established(r)
    BY DEF Session, FrontInv
<1>2. request[r] \in [at : {"bound", "session"}, asks : Shapes, token : Tokens, dead : SUBSET revoked,
                      seen : SUBSET Clients, client : Clients]
    BY <1>1 DEF FrontInv, States, Off
<1>3. CASE Answered(r, 401)
    BY <1>1, <1>3, AnsweredKeeps
<1> DEFINE to == [request[r] EXCEPT !.at = "session"]
<1>4. CASE Authorized(clients, request[r].client) /\ request' = [request EXCEPT ![r].at = "session"]
  <2>1. to \in [at : {"bound", "session"}, asks : Shapes, token : Tokens, dead : SUBSET revoked,
                seen : SUBSET Clients, client : Clients]
      BY <1>2
  <2>2. /\ to.at = "session" /\ to.token = request[r].token /\ to.dead = request[r].dead
        /\ to.seen = request[r].seen /\ to.client = request[r].client
      BY <1>2
  <2>3. request' = [request EXCEPT ![r] = to] /\ request'[r] = to /\ minted' = minted
      BY <1>1, <1>4 DEF FrontInv, opVars
  <2> HIDE DEF to
  <2>4. request[r].client \in request[r].seen
      BY <1>1, <1>2, <1>4 DEF Established, Enrolling, Authorized
  <2>5. Established(r)'
      BY <1>1, <2>2, <2>3, <2>4 DEF Established
  <2>6. to \in States(revoked)
      BY <2>1 DEF States
  <2> QED  BY <1>1, <2>3, <2>5, <2>6, RequestKeeps
<1> QED  BY <1>3, <1>4 DEF Session

(* A request that is not refused asks for what its route is, and may.         *)
LEMMA RouteIsAsked ==
    ASSUME NEW shape, Refusal(shape) = 0
    PROVE  /\ shape.method \in Reading => Route(shape).verb = "Source"
           /\ Route(shape).verb = "Delete" =>
                /\ shape.method = "POST"
                /\ shape.path = "take" \/ (shape.path = "tuples" /\ shape.override = "DELETE")
<1>1. Route(shape) # None
    BY DEF Refusal
<1>2. shape.method \in Route(shape).methods
    BY <1>1 DEF Refusal
<1>3. \/ Route(shape).verb = "Source"
      \/ Route(shape).methods = {"POST"} /\ Route(shape).verb = "Sink"
      \/ /\ Route(shape).methods = {"POST"} /\ Route(shape).verb = "Delete"
         /\ shape.path = "take" \/ (shape.path = "tuples" /\ shape.override = "DELETE")
    BY <1>1 DEF Route, Read, Post
<1> QED  BY <1>2, <1>3 DEF Reading

LEMMA DecideKeeps ==
    ASSUME FrontInv, NEW r \in Requests, Decide(r)
    PROVE  FrontInv'
<1> DEFINE shape == request[r].asks
<1>1. UNCHANGED <<diskVars, opVars>> /\ request[r].at = "session" /\ Established(r)
    BY DEF Decide, FrontInv
<1>2. request[r] \in [at : {"bound", "session"}, asks : Shapes, token : Tokens, dead : SUBSET revoked,
                      seen : SUBSET Clients, client : Clients]
    BY <1>1 DEF FrontInv, States, Off
<1>3. CASE Refusal(shape) # 0
  <2>1. Refusal(shape) \in Nat
      BY DEF Refusal
  <2> QED  BY <1>1, <1>3, <2>1, AnsweredKeeps DEF Decide
<1> DEFINE where == IF Route(shape).verb = "Sink" /\ shape.body = "bare object" THEN "context" ELSE "routed"
           to == [at |-> where, token |-> request[r].token, dead |-> request[r].dead,
                  seen |-> request[r].seen, client |-> request[r].client,
                  asks |-> shape, args |-> shape.query \ Dropped]
<1>4. CASE Refusal(shape) = 0
  <2>1. request' = [request EXCEPT ![r] = to]
      BY <1>4 DEF Decide
  <2>2. to \in States(revoked)
      BY <1>2 DEF States
  <2>3. /\ to.at \in {"context", "routed"} /\ to.token = request[r].token /\ to.dead = request[r].dead
        /\ to.seen = request[r].seen /\ to.client = request[r].client /\ to.asks = shape
        /\ to.args = shape.query \ Dropped
      OBVIOUS
  <2>4. request'[r] = to /\ minted' = minted
      BY <1>1, <2>1 DEF FrontInv, opVars
  <2> HIDE DEF to
  <2>5. AsItAsked(r)'
      BY <1>4, <2>3, <2>4, RouteIsAsked DEF AsItAsked
  <2>6. Established(r)'
      BY <1>1, <2>3, <2>4, <2>5 DEF Established
  <2> QED  BY <1>1, <2>1, <2>2, <2>6, RequestKeeps
<1> QED  BY <1>3, <1>4

LEMMA GoesOnKeeps ==
    ASSUME FrontInv, NEW r \in Requests, UnderContext(r) \/ Issue(r)
    PROVE  FrontInv'
<1>1. UNCHANGED <<diskVars, opVars>> /\ request[r].at \in {"context", "routed"} /\ Established(r)
    BY DEF UnderContext, Issue, FrontInv
<1>2. request[r] \in [at : {"context", "routed", "issued"}, token : Tokens, dead : SUBSET revoked,
                      seen : SUBSET Clients, client : Clients, asks : Shapes,
                      args : {s.query \ Dropped : s \in Shapes}]
    BY <1>1 DEF FrontInv, States, Off
<1>3. PICK where \in {"routed", "issued"} : request' = [request EXCEPT ![r].at = where]
    BY DEF UnderContext, Issue
<1> DEFINE to == [request[r] EXCEPT !.at = where]
<1>4. to \in [at : {"context", "routed", "issued"}, token : Tokens, dead : SUBSET revoked,
              seen : SUBSET Clients, client : Clients, asks : Shapes,
              args : {s.query \ Dropped : s \in Shapes}]
    BY <1>2
<1>5. /\ to.at = where /\ to.token = request[r].token /\ to.dead = request[r].dead /\ to.seen = request[r].seen
      /\ to.client = request[r].client /\ to.asks = request[r].asks /\ to.args = request[r].args
    BY <1>2
<1>6. request' = [request EXCEPT ![r] = to] /\ request'[r] = to /\ minted' = minted
    BY <1>1, <1>3 DEF FrontInv, opVars
<1> HIDE DEF to
<1>7. Established(r)'
    BY <1>1, <1>5, <1>6 DEF Established, AsItAsked
<1>8. to \in States(revoked)
    BY <1>4 DEF States
<1> QED  BY <1>1, <1>6, <1>7, <1>8, RequestKeeps

LEMMA LeavesKeeps ==
    ASSUME FrontInv, NEW r \in Requests, Leaves(r)
    PROVE  FrontInv'
<1>1. request' = [request EXCEPT ![r] = Off] /\ UNCHANGED <<diskVars, opVars>>
    BY DEF Leaves
<1>2. Off \in States(revoked) /\ request'[r] = Off
    BY <1>1 DEF States, FrontInv
<1>3. Established(r)'
    BY <1>2 DEF Established, Off
<1> QED  BY <1>1, <1>2, <1>3, RequestKeeps

(* The front's invariant, for any number of requests and of token commands at *)
(* once, however they interleave, and any edits of the enrollment.            *)
THEOREM FrontInvariant == FrontSpec => []FrontInv
<1>1. ASSUME FrontInv, [FrontNext]_frontVars
      PROVE  FrontInv'
  <2>1. CASE UNCHANGED frontVars
      BY <1>1, <2>1 DEF FrontInv, TokenInv, DiskInv, AloneInv, Taken, Live, Bindings, OpStates, Established,
         Enrolling, AsItAsked, frontVars, opVars, diskVars
  <2>2. ASSUME NEW r \in Requests, Reply(r)
        PROVE  FrontInv'
    <3>1. \E status \in {200, 500} : Answered(r, status)
        BY <2>2 DEF Reply
    <3> QED  BY <1>1, <2>2, <3>1, AnsweredKeeps DEF Reply
  <2>3. ASSUME NEW r \in Requests, Serve(r)
        PROVE  FrontInv'
      BY <1>1, <2>2, <2>3, AcceptKeeps, BindKeeps, SessionKeeps, DecideKeeps, GoesOnKeeps, LeavesKeeps DEF Serve
  <2> QED  BY <1>1, <2>1, <2>3, EditKeeps, CommandKeeps DEF FrontNext
<1> QED  BY <1>1, FrontStarts, PTL DEF FrontSpec

(* Whoever a request is issued for had an entry of its own while the request   *)
(* was under way, and a token whose revocation had not returned before it      *)
(* came; and what is issued is what its method allows (front.rs, tokens.rs).   *)
THEOREM FrontSpeaksForItsClient == FrontSpec => []SpeaksForItsClient
<1>1. FrontInv => SpeaksForItsClient
    BY DEF FrontInv, Established, SpeaksForItsClient, ForItsClient
<1> QED  BY <1>1, FrontInvariant, PTL
-----------------------------------------------------------------------------
(* Proofs about what is posted and saved, for any names, entries of others,   *)
(* processes and kinds of key.                                                *)
(*                                                                            *)
(* Where a save may put its file, and what each save has found out by then.   *)
SafeKeys == Keys \ (ConfigNames \cup Dotted \cup Devices \cup {Outside})
Saving == {"looked", "made", "synced"}
Vetted(s) == /\ DOMAIN s = {"at", "key", "data", "n"} /\ s.key \in SafeKeys /\ s.data \in Bodies
             /\ Vouched(s.data) /\ s.n \in Numbers
InPart(s) == [body |-> s.data, whole |-> FALSE]
InFull(s) == [body |-> s.data, whole |-> TRUE]

SaveInv(p) ==
    /\ save[p].at \in {"idle", "asked"} \cup Saving
    /\ save[p].at = "idle" => save[p].ours = FALSE
    /\ save[p].at = "asked" =>
          save[p].command \in Commands /\ (save[p].command.how # "dir" => SafeName(save[p].command.name))
    /\ save[p].at \in Saving => Vetted(save[p])
    /\ save[p].at = "made" => temps[p][save[p].n] = InPart(save[p])
    /\ save[p].at = "synced" => temps[p][save[p].n] = InFull(save[p])
    /\ save[p].at \in {"made", "synced"} => <<p, save[p].n>> \notin left

(* A process's temporary files are what its save is writing and what earlier  *)
(* ones left.                                                                 *)
TempsInv(p) ==
    \A n \in Numbers : temps[p][n] # Nothing <=>
        <<p, n>> \in left \/ (save[p].at \in {"made", "synced"} /\ save[p].n = n)

FilesInv ==
    /\ files \in [Keys -> Contents] /\ temps \in [Pids -> [Numbers -> Contents]]
    /\ save = [p \in Pids |-> save[p]]
    /\ board \subseteq Others \cup {Posted(f) : f \in {g \in Posts : SafeName(g.name)}}
    /\ \A p \in Pids : SaveInv(p) /\ TempsInv(p)
    /\ FilesAreWhole

-----------------------------------------------------------------------------
(* A name that passes is filed under its own key, and that key is neither a   *)
(* configuration nor a hidden file nor a device.                              *)
LEMMA SafeNameLands ==
    ASSUME NEW name \in Names, SafeName(name)
    PROVE  Lands(name) \in SafeKeys
<1>1. /\ name.key \in Keys \ {Outside} /\ name.with \subseteq Writings
      /\ name.key \in Devices \cup Dotted => "wide" \notin name.with
    BY DEF Names
<1>2. name.with \subseteq {"case", "wide"}
    BY <1>1 DEF SafeName, Writings
<1>3. name.key \notin ConfigNames \cup Dotted
    BY <1>2 DEF SafeName, Config
<1>4. name.key \notin Devices
    BY <1>1, <1>2 DEF SafeName
<1> QED  BY <1>1, <1>2, <1>3, <1>4 DEF Lands, SafeKeys

(* What is posted with `post file` passes every check of a save.              *)
LEMMA PostedPasses ==
    ASSUME NEW f \in Posts, SafeName(f.name)
    PROVE  /\ Posted(f).type = "File" /\ Sound(Posted(f))
           /\ One(Posted(f).fileName) /\ Posted(f).fileName[1] = f.name
           /\ One(Posted(f).content) /\ Posted(f).content[1].body = f.body
    BY DEF Posted, Sound, Decodes, One

(* An entry of the board has names for names and bodies for bodies.           *)
LEMMA EntryShape ==
    ASSUME FilesInv, NEW e \in board
    PROVE  /\ e \in Others \/ (e.type = "File" /\ Sound(e) /\ One(e.fileName) /\ SafeName(e.fileName[1]))
           /\ One(e.fileName) => e.fileName[1] \in Names
           /\ One(e.content) => e.content[1].body \in Bodies
<1>1. CASE e \in Others
    BY <1>1, LayerFilesAssumption DEF One
<1>2. ASSUME NEW f \in Posts, SafeName(f.name), e = Posted(f)
      PROVE  /\ e.type = "File" /\ Sound(e) /\ One(e.fileName) /\ SafeName(e.fileName[1])
             /\ e.fileName[1] \in Names /\ e.content[1].body \in Bodies
    BY <1>2, PostedPasses, LayerFilesAssumption
<1> QED  BY <1>1, <1>2 DEF FilesInv

(* A leftover, a half written file and a whole one are contents, and files.   *)
LEMMA Written ==
    ASSUME NEW b \in Bodies \cup {Mine}, NEW w \in BOOLEAN
    PROVE  [body |-> b, whole |-> w] \in Contents \ {Nothing}
    BY LayerFilesAssumption DEF Contents

(* What a step of one save leaves alone of another.                           *)
LEMMA OthersKeep ==
    ASSUME NEW q, SaveInv(q), TempsInv(q), save'[q] = save[q], temps'[q] = temps[q],
           board \subseteq board', \A n \in Numbers : <<q, n>> \in left' <=> <<q, n>> \in left
    PROVE  SaveInv(q)' /\ TempsInv(q)'
<1>1. \A b : Vouched(b) => Vouched(b)'
    BY DEF Vouched
<1>2. Vetted(save[q]) => Vetted(save[q])'
    BY <1>1 DEF Vetted
<1>3. SaveInv(q)'
    BY <1>2 DEF SaveInv, Vetted, Saving, InPart, InFull
<1>4. TempsInv(q)'
    BY DEF TempsInv
<1> QED  BY <1>3, <1>4

(* A step of one save that puts no file under a name.                         *)
LEMMA OwnStep ==
    ASSUME FilesInv, NEW p \in Pids, files' = files, board' = board, NEW s,
           save' = [save EXCEPT ![p] = s], SaveInv(p)', TempsInv(p)',
           temps' \in [Pids -> [Numbers -> Contents]],
           \A q \in Pids \ {p} : temps'[q] = temps[q],
           \A q \in Pids \ {p}, n \in Numbers : <<q, n>> \in left' <=> <<q, n>> \in left
    PROVE  FilesInv'
<1>1. save' = [q \in Pids |-> save'[q]] /\ \A q \in Pids \ {p} : save'[q] = save[q]
    BY DEF FilesInv
<1>2. \A q \in Pids : SaveInv(q)' /\ TempsInv(q)'
    BY <1>1, OthersKeep DEF FilesInv
<1>3. FilesAreWhole'
    BY DEF FilesInv, FilesAreWhole, Vouched
<1> QED  BY <1>1, <1>2, <1>3 DEF FilesInv

LEMMA FilesStart == FilesInit => FilesInv
<1> SUFFICES ASSUME FilesInit
             PROVE  FilesInv
    OBVIOUS
<1>1. /\ files \in [Keys -> Contents] /\ temps \in [Pids -> [Numbers -> Contents]]
    BY DEF FilesInit, Contents
<1>2. \A p \in Pids : SaveInv(p) /\ TempsInv(p)
    BY DEF FilesInit, SaveInv, TempsInv, NotSaving, Saving
<1>3. FilesAreWhole
    BY DEF FilesInit, FilesAreWhole
<1> QED  BY <1>1, <1>2, <1>3 DEF FilesInit, FilesInv

LEMMA PostFileKeeps ==
    ASSUME FilesInv, NEW f \in Posts, PostFile(f)
    PROVE  FilesInv'
<1>1. SafeName(f.name) /\ board' = board \cup {Posted(f)} /\ UNCHANGED <<files, temps, save, left>>
    BY DEF PostFile
<1>2. \A q \in Pids : SaveInv(q)' /\ TempsInv(q)'
    BY <1>1, OthersKeep DEF FilesInv
<1>3. FilesAreWhole'
    BY <1>1 DEF FilesInv, FilesAreWhole, Vouched
<1> QED  BY <1>1, <1>2, <1>3 DEF FilesInv

(* A save that ends, with its temporary file gone.                            *)
LEMMA EndsKeeps ==
    ASSUME FilesInv, NEW p \in Pids, NEW told, Ends(p, told),
           UNCHANGED <<files, board, left>>, temps' \in [Pids -> [Numbers -> Contents]],
           \A q \in Pids \ {p} : temps'[q] = temps[q],
           \A n \in Numbers : temps'[p][n] # Nothing <=> <<p, n>> \in left
    PROVE  FilesInv'
<1> DEFINE s == [at |-> "idle", told |-> told, ours |-> FALSE]
<1>1. save' = [save EXCEPT ![p] = s] /\ save'[p] = s
    BY DEF Ends, FilesInv
<1>2. SaveInv(p)' /\ TempsInv(p)'
    BY <1>1 DEF SaveInv, TempsInv, Saving
<1> QED  BY <1>1, <1>2, OwnStep

LEMMA IdleTemps ==
    ASSUME FilesInv, NEW p \in Pids, save[p].at \notin {"made", "synced"}
    PROVE  \A n \in Numbers : temps[p][n] # Nothing <=> <<p, n>> \in left
    BY DEF FilesInv, TempsInv

LEMMA PrepareKeeps ==
    ASSUME FilesInv, NEW p \in Pids, NEW c \in Commands, Prepare(p, c)
    PROVE  FilesInv'
<1>1. save[p].at = "idle" /\ UNCHANGED <<files, temps, board, left>> /\ temps \in [Pids -> [Numbers -> Contents]]
    BY DEF Prepare, FilesInv
<1>2. CASE c.how = "dir" \/ SafeName(c.name)
  <2> DEFINE s == [at |-> "asked", command |-> c]
  <2>1. save' = [save EXCEPT ![p] = s] /\ save'[p] = s
      BY <1>2 DEF Prepare, FilesInv
  <2>2. SaveInv(p)'
      BY <1>2, <2>1 DEF SaveInv, Saving
  <2>3. TempsInv(p)'
      BY <1>1, <2>1, IdleTemps DEF TempsInv
  <2> QED  BY <1>1, <2>1, <2>2, <2>3, OwnStep
<1>3. CASE ~(c.how = "dir" \/ SafeName(c.name))
    BY <1>1, <1>3, IdleTemps, EndsKeeps DEF Prepare
<1> QED  BY <1>2, <1>3

(* What was posted with `post file` is not refused; what is not refused is    *)
(* vouched for, and is put under a safe key.                                  *)
LEMMA JudgeKeeps ==
    ASSUME FilesInv, NEW p \in Pids, NEW e \in board, Judge(p, e)
    PROVE  FilesInv'
<1> DEFINE command == save[p].command
           own == command.how = "dir"
           named == e.type = "File" /\ (own => One(e.fileName) /\ SafeName(e.fileName[1]))
           name == IF own THEN e.fileName[1] ELSE command.name
           body == e.content[1].body
           key == Lands(name)
           s == [at |-> "looked", key |-> key, data |-> body, n |-> 0]
<1>1. /\ save[p].at = "asked" /\ UNCHANGED <<files, temps, board, left>>
      /\ temps \in [Pids -> [Numbers -> Contents]] /\ command \in Commands
      /\ ~own => SafeName(command.name)
    BY DEF Judge, FilesInv, SaveInv
<1>2. CASE ~named \/ ~Sound(e)
  <2>1. (e \in board \ Others) = FALSE
      BY <1>2, EntryShape
  <2>2. Ends(p, "refused")
      BY <1>2, <2>1 DEF Judge, RefusesEntry, Ends
  <2> QED  BY <1>1, <2>2, IdleTemps, EndsKeeps
<1>3. CASE named /\ Sound(e)
  <2>1. One(e.content) /\ e.contentHash = <<body>> /\ e.byteSize = <<body.size>> /\ Vouched(body)
      BY <1>3 DEF Sound, Decodes, Vouched
  <2>2. body \in Bodies
      BY <2>1, EntryShape
  <2>3. name \in Names /\ SafeName(name)
    <3>1. CASE own
      <4>1. One(e.fileName) /\ SafeName(e.fileName[1])
          BY <1>3, <3>1
      <4>2. e.fileName[1] \in Names
          BY <4>1, EntryShape
      <4> QED  BY <3>1, <4>1, <4>2
    <3>2. CASE ~own
      <4>1. command.name \in Names
          BY <1>1, <3>2, LayerFilesAssumption
      <4> QED  BY <1>1, <3>2, <4>1
    <3> QED  BY <3>1, <3>2
  <2>4. key \in SafeKeys
      BY <2>3, SafeNameLands
  <2>5. CASE files[key] # Nothing /\ ~command.force
    <3>1. Ends(p, "exists")
        BY <1>3, <2>5 DEF Judge
    <3> QED  BY <1>1, <3>1, IdleTemps, EndsKeeps
  <2>6. CASE ~(files[key] # Nothing /\ ~command.force)
    <3>1. save' = [save EXCEPT ![p] = s] /\ save'[p] = s
        BY <1>3, <2>6 DEF Judge, FilesInv
    <3>2. /\ save'[p].at = "looked" /\ DOMAIN save'[p] = {"at", "key", "data", "n"}
          /\ save'[p].key \in SafeKeys /\ save'[p].data \in Bodies /\ save'[p].n \in Numbers
          /\ save'[p].data = body
        BY <2>2, <2>4, <3>1, LayerFilesAssumption DEF Numbers
    <3>3. \E en \in board' : en.type = "File" /\ en.contentHash = <<save'[p].data>>
                               /\ en.byteSize = <<save'[p].data.size>>
        BY <1>1, <1>3, <2>1, <3>2
    <3>4. SaveInv(p)'
        BY <3>2, <3>3 DEF SaveInv, Saving, Vetted, Vouched
    <3>5. TempsInv(p)'
        BY <1>1, <3>2, IdleTemps DEF TempsInv
    <3> QED  BY <1>1, <3>1, <3>4, <3>5, OwnStep
  <2> QED  BY <2>5, <2>6
<1> QED  BY <1>2, <1>3

LEMMA MakeKeeps ==
    ASSUME FilesInv, NEW p \in Pids, Make(p)
    PROVE  FilesInv'
<1> DEFINE n == save[p].n
<1>1. save[p].at = "looked" /\ Vetted(save[p]) /\ UNCHANGED <<files, board, left>> /\ n \in Numbers
    BY DEF Make, FilesInv, SaveInv, Saving, Vetted
<1>2. temps \in [Pids -> [Numbers -> Contents]] /\ \A m \in Numbers : temps[p][m] # Nothing <=> <<p, m>> \in left
    BY <1>1, IdleTemps DEF FilesInv
<1>3. CASE Free(p)
  <2> DEFINE s == [save[p] EXCEPT !.at = "made"]
  <2>1. /\ temps' = [temps EXCEPT ![p] = [temps[p] EXCEPT ![n] = InPart(save[p])]]
        /\ save' = [save EXCEPT ![p] = s] /\ temps[p][n] = Nothing
      BY <1>3 DEF Make, Free, InPart
  <2>2. InPart(save[p]) \in Contents \ {Nothing}
      BY <1>1, Written DEF InPart, Vetted
  <2>3. /\ temps' \in [Pids -> [Numbers -> Contents]] /\ temps'[p][n] = InPart(save[p])
        /\ \A q \in Pids \ {p} : temps'[q] = temps[q]
        /\ \A m \in Numbers \ {n} : temps'[p][m] = temps[p][m]
      BY <1>1, <1>2, <2>1, <2>2
  <2>4. /\ save'[p].at = "made" /\ DOMAIN save'[p] = {"at", "key", "data", "n"}
        /\ save'[p].key = save[p].key /\ save'[p].data = save[p].data /\ save'[p].n = n
      BY <1>1, <2>1 DEF FilesInv, Vetted
  <2>5. <<p, n>> \notin left
      BY <1>1, <1>2, <2>1
  <2>6. Vetted(save[p])'
      BY <1>1, <2>4 DEF Vetted, Vouched
  <2>7. SaveInv(p)'
      BY <1>1, <2>3, <2>4, <2>5, <2>6 DEF SaveInv, Saving, InPart
  <2>8. TempsInv(p)'
      BY <1>1, <1>2, <2>2, <2>3, <2>4 DEF TempsInv
  <2> QED  BY <1>1, <2>1, <2>3, <2>7, <2>8, OwnStep
<1>4. CASE ~Free(p) /\ n < LastNumber
  <2> DEFINE s == [save[p] EXCEPT !.n = n + 1]
  <2>1. save' = [save EXCEPT ![p] = s] /\ temps' = temps
      BY <1>4 DEF Make
  <2>2. /\ save'[p].at = "looked" /\ DOMAIN save'[p] = {"at", "key", "data", "n"}
        /\ save'[p].key = save[p].key /\ save'[p].data = save[p].data /\ save'[p].n = n + 1
      BY <1>1, <2>1 DEF FilesInv, Vetted
  <2>3. n + 1 \in Numbers
      BY <1>1, <1>4, LayerFilesAssumption DEF Numbers
  <2>4. SaveInv(p)'
      BY <1>1, <2>2, <2>3 DEF SaveInv, Saving, Vetted, Vouched
  <2>5. TempsInv(p)'
      BY <1>1, <1>2, <2>1, <2>2 DEF TempsInv
  <2> QED  BY <1>1, <1>2, <2>1, <2>4, <2>5, OwnStep
<1>5. CASE ~Free(p) /\ ~(n < LastNumber)
  <2>1. Ends(p, "failed") /\ temps' = temps
      BY <1>5 DEF Make
  <2> QED  BY <1>1, <1>2, <2>1, EndsKeeps
<1> QED  BY <1>3, <1>4, <1>5

LEMMA WriteSyncKeeps ==
    ASSUME FilesInv, NEW p \in Pids, WriteSync(p)
    PROVE  FilesInv'
<1> DEFINE n == save[p].n
           s == [save[p] EXCEPT !.at = "synced"]
<1>1. /\ save[p].at = "made" /\ Vetted(save[p]) /\ UNCHANGED <<files, board, left>> /\ n \in Numbers
      /\ temps[p][n] = InPart(save[p]) /\ <<p, n>> \notin left
    BY DEF WriteSync, FilesInv, SaveInv, Saving, Vetted
<1>2. /\ temps \in [Pids -> [Numbers -> Contents]]
      /\ \A m \in Numbers : temps[p][m] # Nothing <=> <<p, m>> \in left \/ n = m
    BY <1>1 DEF FilesInv, TempsInv
<1>3. /\ temps' = [temps EXCEPT ![p] = [temps[p] EXCEPT ![n] = InFull(save[p])]]
      /\ save' = [save EXCEPT ![p] = s]
    BY DEF WriteSync, InFull
<1>4. InFull(save[p]) \in Contents \ {Nothing}
    BY <1>1, Written DEF InFull, Vetted
<1>5. /\ temps' \in [Pids -> [Numbers -> Contents]] /\ temps'[p][n] = InFull(save[p])
      /\ \A q \in Pids \ {p} : temps'[q] = temps[q]
      /\ \A m \in Numbers \ {n} : temps'[p][m] = temps[p][m]
    BY <1>1, <1>2, <1>3, <1>4
<1>6. /\ save'[p].at = "synced" /\ DOMAIN save'[p] = {"at", "key", "data", "n"}
      /\ save'[p].key = save[p].key /\ save'[p].data = save[p].data /\ save'[p].n = n
    BY <1>1, <1>3 DEF FilesInv, Vetted
<1>7. Vetted(save[p])'
    BY <1>1, <1>6 DEF Vetted, Vouched
<1>8. SaveInv(p)'
    BY <1>1, <1>5, <1>6, <1>7 DEF SaveInv, Saving, InFull
<1>9. TempsInv(p)'
    BY <1>1, <1>2, <1>4, <1>5, <1>6 DEF TempsInv
<1> QED  BY <1>1, <1>3, <1>5, <1>8, <1>9, OwnStep

(* Without its temporary file, a save leaves what earlier ones left.          *)
LEMMA TempGone ==
    ASSUME FilesInv, NEW p \in Pids, save[p].at \in {"made", "synced"}, left' = left,
           temps' = [temps EXCEPT ![p][save[p].n] = Nothing]
    PROVE  /\ temps' \in [Pids -> [Numbers -> Contents]] /\ \A q \in Pids \ {p} : temps'[q] = temps[q]
           /\ \A n \in Numbers : temps'[p][n] # Nothing <=> <<p, n>> \in left
<1>1. /\ save[p].n \in Numbers /\ <<p, save[p].n>> \notin left /\ temps \in [Pids -> [Numbers -> Contents]]
      /\ \A n \in Numbers : temps[p][n] # Nothing <=> <<p, n>> \in left \/ save[p].n = n
    BY DEF FilesInv, SaveInv, TempsInv, Saving, Vetted
<1>2. Nothing \in Contents
    BY DEF Contents
<1>3. temps' = [temps EXCEPT ![p] = [temps[p] EXCEPT ![save[p].n] = Nothing]]
    OBVIOUS
<1> QED  BY <1>1, <1>2, <1>3

LEMMA RenameKeeps ==
    ASSUME FilesInv, NEW p \in Pids, Rename(p)
    PROVE  FilesInv'
<1> DEFINE k == save[p].key
           f == [files EXCEPT ![k] = temps[p][save[p].n]]
           s == [at |-> "idle", told |-> "saved", ours |-> FALSE]
<1>1. /\ save[p].at = "synced" /\ files' = f /\ UNCHANGED <<board, left>>
      /\ temps' = [temps EXCEPT ![p][save[p].n] = Nothing] /\ save' = [save EXCEPT ![p] = s]
    BY DEF Rename, Ends
<1>2. Vetted(save[p]) /\ temps[p][save[p].n] = InFull(save[p]) /\ files \in [Keys -> Contents]
    BY <1>1 DEF FilesInv, SaveInv, Saving
<1>3. InFull(save[p]) \in Contents
    BY <1>2, Written DEF InFull, Vetted
<1>4. files' \in [Keys -> Contents] /\ files'[k] = InFull(save[p]) /\ \A j \in Keys \ {k} : files'[j] = files[j]
    BY <1>1, <1>2, <1>3 DEF Vetted, SafeKeys
<1>5. FilesAreWhole'
  <2>1. files'[k].whole /\ Vouched(files'[k].body) /\ k \in SafeKeys
      BY <1>2, <1>4 DEF InFull, Vetted
  <2> DEFINE Backed(b) == \E e \in board' :
                 e.type = "File" /\ e.contentHash = <<b>> /\ e.byteSize = <<b.size>>
  <2>2. \A b : Vouched(b) => Backed(b)
      BY <1>1 DEF Vouched
  <2> HIDE DEF Backed
  <2>3. /\ files'[k].whole /\ Backed(files'[k].body)
        /\ k \notin ConfigNames \cup Dotted \cup Devices \cup {Outside}
      BY <2>1, <2>2 DEF SafeKeys
  <2>4. \A j \in Keys \ {k} : files[j] \notin {Nothing, [body |-> Mine, whole |-> TRUE]} =>
            /\ files[j].whole /\ Vouched(files[j].body)
            /\ j \notin ConfigNames \cup Dotted \cup Devices \cup {Outside}
      BY DEF FilesInv, FilesAreWhole
  <2>5. \A j \in Keys \ {k} : files'[j] \notin {Nothing, [body |-> Mine, whole |-> TRUE]} =>
            /\ files'[j].whole /\ Backed(files'[j].body)
            /\ j \notin ConfigNames \cup Dotted \cup Devices \cup {Outside}
      BY <1>4, <2>2, <2>4
  <2> QED  BY <2>3, <2>5 DEF FilesAreWhole, Vouched, Backed
<1>6. /\ temps' \in [Pids -> [Numbers -> Contents]] /\ \A q \in Pids \ {p} : temps'[q] = temps[q]
      /\ \A n \in Numbers : temps'[p][n] # Nothing <=> <<p, n>> \in left
    BY <1>1, TempGone
<1>7. save'[p] = s /\ save' = [q \in Pids |-> save'[q]] /\ \A q \in Pids \ {p} : save'[q] = save[q]
    BY <1>1 DEF FilesInv
<1>8. SaveInv(p)' /\ TempsInv(p)'
    BY <1>1, <1>6, <1>7 DEF SaveInv, TempsInv, Saving
<1>9. \A q \in Pids \ {p} : SaveInv(q)' /\ TempsInv(q)'
    BY <1>1, <1>6, <1>7, OthersKeep DEF FilesInv
<1> QED  BY <1>1, <1>4, <1>5, <1>6, <1>7, <1>8, <1>9 DEF FilesInv

LEMMA FailKeeps ==
    ASSUME FilesInv, NEW p \in Pids, Fail(p)
    PROVE  FilesInv'
<1>1. Ends(p, "failed") /\ UNCHANGED <<files, board, left>> /\ temps \in [Pids -> [Numbers -> Contents]]
    BY DEF Fail, FilesInv
<1>2. CASE save[p].at = "looked"
    BY <1>1, <1>2, IdleTemps, EndsKeeps DEF Fail
<1>3. CASE save[p].at # "looked"
  <2>1. save[p].at \in {"made", "synced"} /\ temps' = [temps EXCEPT ![p][save[p].n] = Nothing]
      BY <1>3 DEF Fail
  <2> QED  BY <1>1, <2>1, TempGone, EndsKeeps
<1> QED  BY <1>2, <1>3

LEMMA KillSaveKeeps ==
    ASSUME FilesInv, NEW p \in Pids, KillSave(p)
    PROVE  FilesInv'
<1> DEFINE n == save[p].n
<1>1. /\ save' = [save EXCEPT ![p] = NotSaving] /\ UNCHANGED <<files, board>>
      /\ temps \in [Pids -> [Numbers -> Contents]] /\ save'[p] = NotSaving
    BY DEF KillSave, FilesInv
<1>2. SaveInv(p)'
    BY <1>1 DEF SaveInv, NotSaving, Saving
<1>3. CASE save[p].at \in {"made", "synced"}
  <2>1. left' = left \cup {<<p, n>>} /\ temps' = [temps EXCEPT ![p] = [temps[p] EXCEPT ![n] = Leftover]]
      BY <1>3 DEF KillSave
  <2>2. Leftover \in Contents \ {Nothing} /\ n \in Numbers
      BY <1>3, Written DEF Leftover, FilesInv, SaveInv, Saving, Vetted
  <2>3. /\ temps' \in [Pids -> [Numbers -> Contents]] /\ temps'[p][n] = Leftover
        /\ \A q \in Pids \ {p} : temps'[q] = temps[q]
        /\ \A m \in Numbers \ {n} : temps'[p][m] = temps[p][m]
      BY <1>1, <2>1, <2>2
  <2>4. \A m \in Numbers : temps[p][m] # Nothing <=> <<p, m>> \in left \/ n = m
      BY <1>3 DEF FilesInv, TempsInv
  <2>5. TempsInv(p)'
      BY <1>1, <2>1, <2>2, <2>3, <2>4 DEF TempsInv, NotSaving
  <2> QED  BY <1>1, <1>2, <2>1, <2>3, <2>5, OwnStep
<1>4. CASE save[p].at \notin {"made", "synced"}
  <2>1. UNCHANGED <<left, temps>>
      BY <1>4 DEF KillSave
  <2>2. TempsInv(p)'
      BY <1>1, <1>4, <2>1, IdleTemps DEF TempsInv, NotSaving
  <2> QED  BY <1>1, <1>2, <2>1, <2>2, OwnStep
<1> QED  BY <1>3, <1>4

LEMMA OwnKeeps ==
    ASSUME FilesInv, NEW k \in Owned, Own(k)
    PROVE  FilesInv'
<1>1. /\ files' = [files EXCEPT ![k] = [body |-> Mine, whole |-> TRUE]] /\ UNCHANGED <<temps, board, save, left>>
      /\ files \in [Keys -> Contents] /\ [body |-> Mine, whole |-> TRUE] \in Contents
    BY Written DEF Own, FilesInv
<1>2. files' \in [Keys -> Contents] /\ FilesAreWhole'
    BY <1>1 DEF FilesInv, FilesAreWhole, Vouched
<1>3. \A q \in Pids : SaveInv(q)' /\ TempsInv(q)'
    BY <1>1, OthersKeep DEF FilesInv
<1> QED  BY <1>1, <1>2, <1>3 DEF FilesInv

LEMMA FilesStep == FilesInv /\ [FilesNext]_filesVars => FilesInv'
<1> SUFFICES ASSUME FilesInv, [FilesNext]_filesVars
             PROVE  FilesInv'
    OBVIOUS
<1>1. CASE UNCHANGED filesVars
  <2>1. UNCHANGED <<files, temps, board, save, left>>
      BY <1>1 DEF filesVars
  <2>2. \A q \in Pids : SaveInv(q)' /\ TempsInv(q)'
      BY <2>1, OthersKeep DEF FilesInv
  <2>3. FilesAreWhole'
      BY <2>1 DEF FilesInv, FilesAreWhole, Vouched
  <2> QED  BY <2>1, <2>2, <2>3 DEF FilesInv
<1>2. ASSUME NEW p \in Pids, Step(p)
      PROVE  FilesInv'
  <2>1. CASE DoorRefuses(p)
    <3>1. temps' = temps /\ temps \in [Pids -> [Numbers -> Contents]]
        BY <2>1 DEF DoorRefuses, FilesInv
    <3> QED  BY <2>1, <3>1, IdleTemps, EndsKeeps DEF DoorRefuses
  <2> QED  BY <1>2, <2>1, PrepareKeeps, JudgeKeeps, MakeKeeps, WriteSyncKeeps, RenameKeeps, FailKeeps,
              KillSaveKeeps DEF Step
<1> QED  BY <1>1, <1>2, PostFileKeeps, OwnKeeps DEF FilesNext

(* The invariant, whatever is posted, saved, failed and killed meanwhile.     *)
THEOREM FilesInvariant == FilesSpec => []FilesInv
<1> QED  BY FilesStart, FilesStep, PTL DEF FilesSpec

(* Under a safe name there is only the user's file or one whole file that an  *)
(* entry vouches for, an ended save leaves nothing behind (write_whole), and  *)
(* what `post file` posted is not refused.                                    *)
THEOREM WholeOrNotAtAll == FilesSpec => []SavedIsWhole
<1>1. FilesInv => SavedIsWhole
    BY DEF FilesInv, SavedIsWhole, NothingLeft, PostsCanBeSaved, SaveInv, TempsInv
<1> QED  BY <1>1, FilesInvariant, PTL

-----------------------------------------------------------------------------
(* The terminal.  The least and the greatest of a set of places are among     *)
(* them, so every motion ends at a place of its text.                         *)
LEMMA LeastPlace ==
    ASSUME NEW S \in SUBSET Nat, S # {}
    PROVE  Min(S) \in S /\ \A j \in S : Min(S) <= j
<1>1. IsWellFoundedOn(OpToRel(<, Nat), Nat)
    BY NatLessThanWellFounded
<1>2. PICK i \in S : \A k \in S : <<k, i>> \notin OpToRel(<, Nat)
    BY <1>1, WFMin
<1>3. \A k \in S : i <= k
  <2> TAKE k \in S
  <2>1. i \in Nat /\ k \in Nat /\ ~(k < i)
      BY <1>2 DEF OpToRel
  <2> QED  BY <2>1
<1> QED  BY <1>2, <1>3 DEF Min

LEMMA GreatestPlace ==
    ASSUME NEW n \in Nat, NEW S \in SUBSET (0 .. n), S # {}
    PROVE  Max(S) \in S /\ \A j \in S : j <= Max(S)
<1> DEFINE T == {n - x : x \in S}
<1>1. T \in SUBSET Nat /\ T # {}
  <2>1. \A x \in S : n - x \in Nat
      OBVIOUS
  <2> QED  BY <2>1
<1>2. Min(T) \in T /\ \A j \in T : Min(T) <= j
    BY <1>1, LeastPlace
<1>3. PICK i \in S : Min(T) = n - i
    BY <1>2
<1>4. \A k \in S : i >= k
  <2> TAKE k \in S
  <2>1. n - i <= n - k
      BY <1>2, <1>3
  <2>2. i \in Nat /\ k \in Nat
      OBVIOUS
  <2> QED  BY <2>1, <2>2
<1>5. \A y \in S : Max(S) >= y
    BY <1>4 DEF Max
<1>6. Max(S) \in S
    BY <1>4 DEF Max
<1>7. \A j \in S : j <= Max(S)
  <2> TAKE j \in S
  <2>1. \A k \in S : k \in Nat
      OBVIOUS
  <2>2. Max(S) >= j /\ Max(S) \in Nat /\ j \in Nat
      BY <1>5, <1>6, <2>1
  <2> QED  BY <2>2
<1> QED  BY <1>6, <1>7

LEMMA PlacesOfLine ==
    ASSUME NEW s \in Seq(Characters), NEW c \in 0 .. Len(s)
    PROVE  LineStart(s, c) \in 0 .. c /\ LineEnd(s, c) \in c .. Len(s)
<1> DEFINE n == Len(s)
<1>1. n \in Nat /\ c \in Nat /\ c <= n
    OBVIOUS
<1>2. LineStart(s, c) \in 0 .. c
  <2> DEFINE S == {0} \union {i \in 1 .. c : s[i] = "nl"}
  <2>1. S \in SUBSET (0 .. c) /\ S # {}
      BY <1>1
  <2> QED  BY <1>1, <2>1, GreatestPlace DEF LineStart
<1>3. LineEnd(s, c) \in c .. n
  <2> DEFINE S == {n} \union {i \in c .. n - 1 : s[i + 1] = "nl"}
  <2>1. S \in SUBSET (c .. n) /\ S # {}
      BY <1>1
  <2>2. S \in SUBSET Nat
      BY <1>1, <2>1
  <2>3. Min(S) \in S
      BY <2>1, <2>2, LeastPlace
  <2>4. LineEnd(s, c) = Min(S)
      BY DEF LineEnd
  <2> QED  BY <2>1, <2>3, <2>4
<1> QED  BY <1>2, <1>3

LEMMA PlacesOfWord ==
    ASSUME NEW s \in Seq(Characters), NEW c \in 0 .. Len(s)
    PROVE  /\ WordLeft(s, c) \in 0 .. Len(s) /\ WordRight(s, c) \in 0 .. Len(s)
           /\ WordForward(s, c) \in 0 .. Len(s) /\ WordEnd(s, c) \in 0 .. Len(s)
<1> DEFINE n == Len(s)
<1>1. n \in Nat /\ c \in Nat /\ c <= n
    OBVIOUS
<1>2. WordLeft(s, c) \in 0 .. n
  <2> DEFINE S == {0} \union {i \in 1 .. c - 1 : Blank(s[i]) /\ ~Blank(s[i + 1])}
  <2>1. S \in SUBSET (0 .. n) /\ S # {}
      BY <1>1
  <2> QED  BY <1>1, <2>1, GreatestPlace DEF WordLeft
<1>3. WordRight(s, c) \in 0 .. n
  <2> DEFINE S == {n} \union {i \in c + 1 .. n - 1 : ~Blank(s[i]) /\ Blank(s[i + 1])}
  <2>1. S \in SUBSET (0 .. n) /\ S # {} /\ S \in SUBSET Nat
      BY <1>1
  <2>2. Min(S) \in S
      BY <2>1, LeastPlace
  <2>3. WordRight(s, c) = Min(S)
      BY DEF WordRight
  <2> QED  BY <2>1, <2>2, <2>3
<1>4. WordForward(s, c) \in 0 .. n
  <2> DEFINE S == {n} \union {i \in c + 1 .. n - 1 : Blank(s[i]) /\ ~Blank(s[i + 1])}
  <2>1. S \in SUBSET (0 .. n) /\ S # {} /\ S \in SUBSET Nat
      BY <1>1
  <2>2. Min(S) \in S
      BY <2>1, LeastPlace
  <2>3. WordForward(s, c) = Min(S)
      BY DEF WordForward
  <2> QED  BY <2>1, <2>2, <2>3
<1>5. WordEnd(s, c) \in 0 .. n
  <2> DEFINE w == WordRight(s, c)
  <2>1. WordEnd(s, c) = IF w > c THEN w - 1 ELSE c
      BY DEF WordEnd
  <2> HIDE DEF w
  <2>2. w \in 0 .. n
      BY <1>3 DEF w
  <2> QED  BY <1>1, <2>1, <2>2
<1> QED  BY <1>2, <1>3, <1>4, <1>5

LEMMA PlacesOfRow ==
    ASSUME NEW s \in Seq(Characters), NEW c \in 0 .. Len(s)
    PROVE  Above(s, c) \in 0 .. Len(s) /\ Below(s, c) \in 0 .. Len(s)
<1> DEFINE n == Len(s)  a == LineStart(s, c)  e == LineEnd(s, c)
<1>1. n \in Nat /\ c \in Nat /\ c <= n /\ a \in 0 .. c /\ e \in c .. n
    BY PlacesOfLine
<1>2. Column(s, c) \in 0 .. c
    BY <1>1 DEF Column
<1>3. Above(s, c) \in 0 .. n
  <2>1. CASE a = 0
      BY <1>1, <2>1 DEF Above
  <2>2. CASE a # 0
    <3> DEFINE S == {LineStart(s, a - 1) + Column(s, c), a - 1}
    <3>1. a - 1 \in 0 .. n
        BY <1>1, <2>2
    <3>2. LineStart(s, a - 1) \in Nat
        BY <3>1, PlacesOfLine
    <3>3. S \in SUBSET Nat /\ S # {} /\ a - 1 \in S
        BY <1>2, <3>1, <3>2
    <3>4. Min(S) \in S /\ Min(S) <= a - 1
        BY <3>3, LeastPlace
    <3>5. Above(s, c) = Min(S)
        BY <2>2 DEF Above
    <3>6. Min(S) \in Nat
        BY <3>3, <3>4
    <3> QED  BY <1>1, <3>1, <3>4, <3>5, <3>6
  <2> QED  BY <2>1, <2>2
<1>4. Below(s, c) \in 0 .. n
  <2>1. CASE e = n
      BY <1>1, <2>1 DEF Below
  <2>2. CASE e # n
    <3> DEFINE S == {e + 1 + Column(s, c), LineEnd(s, e + 1)}
    <3>1. e + 1 \in 0 .. n
        BY <1>1, <2>2
    <3>2. LineEnd(s, e + 1) \in 0 .. n
      <4>1. LineEnd(s, e + 1) \in (e + 1) .. n
          BY <3>1, PlacesOfLine
      <4> QED  BY <1>1, <4>1
    <3>3. S \in SUBSET Nat /\ S # {} /\ LineEnd(s, e + 1) \in S
        BY <1>1, <1>2, <3>2
    <3>4. Min(S) \in S /\ Min(S) <= LineEnd(s, e + 1)
        BY <3>3, LeastPlace
    <3>5. Below(s, c) = Min(S)
        BY <2>2 DEF Below
    <3>6. Min(S) \in Nat
        BY <3>3, <3>4
    <3> QED  BY <3>2, <3>4, <3>5, <3>6
  <2> QED  BY <2>1, <2>2
<1> QED  BY <1>3, <1>4

LEMMA PartsAreText ==
    ASSUME NEW s \in Seq(Characters), NEW lo \in 0 .. Len(s), NEW hi \in 0 .. Len(s)
    PROVE  /\ Part(s, lo, hi) \in Seq(Characters)
           /\ Len(Part(s, lo, hi)) = IF lo < hi THEN hi - lo ELSE 0
           /\ Trimmed(s) \in Seq(Characters)
<1> DEFINE n == Len(s)
<1>1. n \in Nat
    OBVIOUS
<1>2. ASSUME NEW l \in 0 .. n, NEW h \in 0 .. n
      PROVE  /\ Part(s, l, h) \in Seq(Characters)
             /\ Len(Part(s, l, h)) = IF l < h THEN h - l ELSE 0
  <2>1. CASE l < h
    <3>1. l + 1 \in 1 .. n /\ h \in (l + 1) .. n
        BY <1>1, <2>1
    <3>2. SubSeq(s, l + 1, h) \in Seq(Characters) /\ Len(SubSeq(s, l + 1, h)) = h - (l + 1) + 1
        BY <1>1, <3>1
    <3> QED  BY <1>1, <2>1, <3>2 DEF Part
  <2>2. CASE ~(l < h)
    <3>1. l + 1 > h
        BY <1>1, <2>2
    <3>2. SubSeq(s, l + 1, h) = << >>
        BY <1>1, <3>1
    <3> QED  BY <1>1, <2>2, <3>2 DEF Part
  <2> QED  BY <2>1, <2>2
<1>3. Trimmed(s) \in Seq(Characters)
  <2> DEFINE S == {0} \union {i \in 1 .. n : ~Blank(s[i])}
  <2>1. S \in SUBSET (0 .. n) /\ S # {}
      BY <1>1
  <2>2. Max(S) \in 0 .. n
      BY <1>1, <2>1, GreatestPlace
  <2>3. Trimmed(s) = Part(s, 0, Max(S))
      BY DEF Trimmed
  <2> QED  BY <1>1, <1>2, <2>2, <2>3
<1> QED  BY <1>2, <1>3

(* An editor whose cursor and mark are in its text, marked as it now is.      *)
Editor == [text : Seq(Characters), cursor : Nat, mark : Nat \union {Unset}, marked : Seq(Characters)]
WellPlaced(b) ==
    /\ b \in Editor /\ b.cursor \in 0 .. Len(b.text)
    /\ b.mark # Unset => b.marked = b.text /\ b.mark \in 0 .. Len(b.text)

Buffers ==
    /\ tab \in {"repl", "scratch"} /\ DOMAIN buffer = {"repl", "scratch"}
    /\ buffer = [t \in {"repl", "scratch"} |-> buffer[t]]
    /\ \A t \in {"repl", "scratch"} : WellPlaced(buffer[t])
KillRing == kill \in Seq(Characters) /\ clip \in Seq(Characters)
Recalls == history \in Seq(Seq(Characters)) /\ (at = Unset \/ at \in 1 .. Len(history))

(* What would be inserted is what was taken last: it is in the kill buffer, or*)
(* on the clipboard.                                                          *)
TakenLast == kill = due \/ (tool /\ clip = due)

(* Only a refused `cap` leaves another authority in force than was asked for. *)
Refusing == (~granted => refusing) /\ ~astray

TerminalInv == Buffers /\ KillRing /\ Recalls /\ TakenLast /\ Refusing

LEMMA TextIsPlaced ==
    ASSUME Buffers
    PROVE  /\ text \in Seq(Characters) /\ cursor \in 0 .. Len(text) /\ cursor \in Nat
           /\ Len(text) \in Nat
           /\ mark # Unset => mark \in 0 .. Len(text)
<1>1. WellPlaced(buffer[tab])
    BY DEF Buffers
<1> QED  BY <1>1 DEF WellPlaced, Editor, text, cursor, mark

LEMMA BufferIsPlaced ==
    ASSUME NEW s \in Seq(Characters), NEW c \in 0 .. Len(s), NEW m, m = Unset \/ m \in 0 .. Len(s)
    PROVE  WellPlaced(Buffer(s, c, m))
<1>1. Len(s) \in Nat /\ c \in Nat /\ (m # Unset => m \in Nat)
    OBVIOUS
<1>2. << >> \in Seq(Characters)
    OBVIOUS
<1>3. CASE m = Unset
    BY <1>1, <1>2, <1>3 DEF WellPlaced, Buffer, Editor
<1>4. CASE m # Unset
    BY <1>1, <1>4 DEF WellPlaced, Buffer, Editor
<1> QED  BY <1>3, <1>4

LEMMA BecomesPlaced ==
    ASSUME Buffers, NEW b, WellPlaced(b), Become(b), tab' = tab
    PROVE  Buffers'
<1>1. buffer' = [buffer EXCEPT ![tab] = b]
    BY DEF Become
<1>2. DOMAIN buffer' = {"repl", "scratch"} /\ buffer' = [t \in {"repl", "scratch"} |-> buffer'[t]]
    BY <1>1 DEF Buffers
<1>3. \A t \in {"repl", "scratch"} : buffer'[t] = IF t = tab THEN b ELSE buffer[t]
    BY <1>1 DEF Buffers
<1>4. \A t \in {"repl", "scratch"} : WellPlaced(buffer'[t])
    BY <1>3 DEF Buffers
<1> QED  BY <1>2, <1>4 DEF Buffers

LEMMA GoesPlaced ==
    ASSUME Buffers, NEW c \in 0 .. Len(text), GoTo(c), tab' = tab
    PROVE  Buffers'
<1> DEFINE b == [buffer[tab] EXCEPT !.cursor = c]
<1>1. WellPlaced(buffer[tab]) /\ c \in Nat
    BY DEF Buffers
<1>2. b \in Editor /\ b.cursor = c /\ b.text = text /\ b.mark = mark /\ b.marked = buffer[tab].marked
    BY <1>1 DEF WellPlaced, Editor, text, mark
<1>3. WellPlaced(b)
    BY <1>1, <1>2 DEF WellPlaced, text, mark
<1> QED  BY <1>3, BecomesPlaced DEF GoTo

(* A part removed, whichever end comes first.                                 *)
LEMMA WithoutPlaced ==
    ASSUME Buffers, NEW lo \in 0 .. Len(text), NEW hi \in 0 .. Len(text), tab' = tab,
           Become(Buffer(Without(text, lo, hi), lo, Unset))
    PROVE  Buffers'
<1> DEFINE n == Len(text)  s == Part(text, 0, lo)  e == Part(text, hi, n)
<1>1. text \in Seq(Characters) /\ n \in Nat /\ 0 \in 0 .. n /\ n \in 0 .. n
    BY TextIsPlaced
<1>2. s \in Seq(Characters) /\ Len(s) = lo
  <2>1. s \in Seq(Characters) /\ Len(s) = IF 0 < lo THEN lo - 0 ELSE 0
      BY <1>1, PartsAreText
  <2> QED  BY <1>1, <2>1
<1>3. e \in Seq(Characters)
    BY <1>1, PartsAreText
<1>4. s \o e \in Seq(Characters) /\ Len(s \o e) = lo + Len(e) /\ Len(e) \in Nat
    BY <1>2, <1>3
<1>5. lo \in 0 .. Len(s \o e)
    BY <1>1, <1>4
<1>6. WellPlaced(Buffer(s \o e, lo, Unset))
    BY <1>4, <1>5, BufferIsPlaced
<1> QED  BY <1>6, BecomesPlaced DEF Without

LEMMA PutPlaced ==
    ASSUME Buffers, NEW given \in Seq(Characters), Put(given), tab' = tab
    PROVE  Buffers'
<1> DEFINE n == Len(text)  s == Part(text, 0, cursor)  e == Part(text, cursor, n)
<1>1. text \in Seq(Characters) /\ n \in Nat /\ 0 \in 0 .. n /\ n \in 0 .. n /\ cursor \in 0 .. n
    BY TextIsPlaced
<1>2. s \in Seq(Characters) /\ Len(s) = cursor
  <2>1. s \in Seq(Characters) /\ Len(s) = IF 0 < cursor THEN cursor - 0 ELSE 0
      BY <1>1, PartsAreText
  <2> QED  BY <1>1, <2>1
<1>3. e \in Seq(Characters)
    BY <1>1, PartsAreText
<1>4. /\ s \o given \o e \in Seq(Characters) /\ Len(given) \in Nat /\ Len(e) \in Nat
      /\ Len(s \o given \o e) = cursor + Len(given) + Len(e)
    BY <1>2, <1>3
<1>5. cursor + Len(given) \in 0 .. Len(s \o given \o e)
    BY <1>1, <1>4
<1>6. WellPlaced(Buffer(s \o given \o e, cursor + Len(given), Unset))
    BY <1>4, <1>5, BufferIsPlaced
<1> QED  BY <1>6, BecomesPlaced DEF Put

(* A kill, of whatever span of the text: to the kill buffer it goes.          *)
LEMMA TookKeeps ==
    ASSUME KillRing, NEW s \in Seq(Characters), Took(s), tool' = tool
    PROVE  KillRing' /\ TakenLast'
<1>1. clip' = s \/ clip' = clip
    BY DEF Took
<1> QED  BY <1>1 DEF Took, KillRing, TakenLast

LEMMA KillKeeps ==
    ASSUME Buffers, KillRing, NEW lo \in 0 .. Len(text), NEW hi \in 0 .. Len(text),
           Kill(lo, hi), UNCHANGED <<tab, tool>>
    PROVE  Buffers' /\ KillRing' /\ TakenLast'
<1>1. Part(text, lo, hi) \in Seq(Characters)
    BY TextIsPlaced, PartsAreText
<1> QED  BY <1>1, WithoutPlaced, TookKeeps DEF Kill

(* A line, however it goes, leaves the session refusing or as asked for.      *)
LEMMA EvalKeeps ==
    ASSUME Refusing, NEW kind, NEW ok \in BOOLEAN, Eval(kind, ok)
    PROVE  Refusing'
<1>1. CASE Blocked(kind) \/ kind \in HostsOwn
  <2>1. refusing' = refusing /\ granted' = granted
      BY <1>1 DEF Eval
  <2>2. ~astray'
      BY <1>1 DEF Eval, Refusing
  <2> QED  BY <2>1, <2>2 DEF Refusing
<1>2. CASE ~Blocked(kind) /\ kind \notin HostsOwn /\ kind = "resolve"
  <2>1. refusing' = refusing /\ granted' = granted /\ ~refusing
      BY <1>2 DEF Eval, Blocked, Recovers
  <2>2. granted /\ ~astray
      BY <2>1 DEF Refusing
  <2>3. astray' = (astray \/ ~granted)
      BY <1>2 DEF Eval
  <2> QED  BY <2>1, <2>2, <2>3 DEF Refusing
<1>3. CASE ~Blocked(kind) /\ kind \notin HostsOwn /\ kind # "resolve"
  <2>1. refusing' = ~ok
      BY <1>3 DEF Eval
  <2>3. ~astray'
      BY <1>3 DEF Eval, Refusing
  <2>2. ok => granted'
    <3>1. CASE kind = "narrow"
        BY <1>3, <3>1 DEF Eval
    <3>2. CASE kind # "narrow"
      <4>1. ~refusing
          BY <1>3, <3>2 DEF Blocked, Recovers
      <4>2. ok => granted' = granted
          BY <3>2 DEF Eval
      <4> QED  BY <4>1, <4>2 DEF Refusing
    <3> QED  BY <3>1, <3>2
  <2> QED  BY <2>1, <2>2, <2>3 DEF Refusing
<1> QED  BY <1>1, <1>2, <1>3

LEMMA LineKeeps ==
    ASSUME Refusing, Line
    PROVE  Refusing'
<1> QED  BY EvalKeeps DEF Line, StartScript

LEMMA TerminalStarts == TerminalInit => TerminalInv
<1> SUFFICES ASSUME TerminalInit PROVE TerminalInv
    OBVIOUS
<1>1. << >> \in Seq(Characters) /\ 0 \in 0 .. Len(<< >>) /\ << >> \in Seq(Seq(Characters))
    OBVIOUS
<1>2. WellPlaced(Buffer(<< >>, 0, Unset))
    BY <1>1, BufferIsPlaced
<1>3. Buffers
    BY <1>2 DEF TerminalInit, Buffers
<1> QED  BY <1>1, <1>3 DEF TerminalInit, TerminalInv, KillRing, Recalls, TakenLast, Refusing

(* What the keys of either scheme do to the buffer, the kill buffer and the   *)
(* clipboard.                                                                 *)
EditsKeep == Buffers' /\ KillRing' /\ TakenLast'

LEMMA SameKeeps ==
    ASSUME TerminalInv, Same, tool' = tool
    PROVE  KillRing' /\ TakenLast'
<1> QED  BY DEF TerminalInv, Same, KillRing, TakenLast

LEMMA EditingKeeps ==
    ASSUME TerminalInv, Editing
    PROVE  EditsKeep
<1>1. /\ Buffers /\ KillRing /\ TakenLast
      /\ UNCHANGED <<tab, tool>>
    BY DEF TerminalInv, Editing, Type, Erase, Move, CutText, SetMark, Copy, Yank, Switch, Operate, Clear,
           Edits, Key, fixed
<1>2. /\ text \in Seq(Characters) /\ cursor \in 0 .. Len(text) /\ cursor \in Nat /\ Len(text) \in Nat
      /\ mark # Unset => mark \in 0 .. Len(text)
    BY <1>1, TextIsPlaced
<1>3. Moves.left \in 0 .. Len(text) /\ Moves.right \in 0 .. Len(text)
  <2>1. Max({cursor, 1}) \in {cursor, 1} /\ 1 <= Max({cursor, 1})
    <3>1. {cursor, 1} \in SUBSET (0 .. cursor + 1) /\ cursor + 1 \in Nat
        BY <1>2
    <3> QED  BY <3>1, GreatestPlace
  <2>2. Moves.left \in 0 .. Len(text)
      BY <1>2, <2>1 DEF Moves
  <2>3. Min({cursor + 1, Len(text)}) \in {cursor + 1, Len(text)} /\ Min({cursor + 1, Len(text)}) <= Len(text)
    <3>1. {cursor + 1, Len(text)} \in SUBSET Nat
        BY <1>2
    <3> QED  BY <3>1, LeastPlace
  <2>4. Moves.right \in 0 .. Len(text)
      BY <1>2, <2>3 DEF Moves
  <2> QED  BY <2>2, <2>4
<1>4. \A m \in Reach \union {"left", "right", "home", "end"} : Moves[m] \in 0 .. Len(text)
  <2>1. Moves.home \in 0 .. Len(text) /\ Moves.end \in 0 .. Len(text)
    <3>1. LineStart(text, cursor) \in 0 .. cursor /\ LineEnd(text, cursor) \in cursor .. Len(text)
        BY <1>2, PlacesOfLine
    <3> QED  BY <1>2, <3>1 DEF Moves
  <2>2. /\ Moves.wordLeft \in 0 .. Len(text) /\ Moves.wordRight \in 0 .. Len(text)
        /\ Moves.wordForward \in 0 .. Len(text) /\ Moves.wordEnd \in 0 .. Len(text)
      BY <1>2, PlacesOfWord DEF Moves
  <2>3. \A m \in Reach : m \in {"left", "right", "home", "end", "wordLeft", "wordRight", "wordForward", "wordEnd"}
      BY DEF Reach
  <2> QED  BY <1>3, <2>1, <2>2, <2>3
<1>5. Region[1] \in 0 .. Len(text) /\ Region[2] \in 0 .. Len(text)
  <2>1. CASE mark = Unset
      BY <1>2, <2>1, PlacesOfWord DEF Region
  <2>2. CASE mark # Unset
    <3> DEFINE m == Min({mark, Len(text)})
    <3>1. m \in {mark, Len(text)}
      <4>1. {mark, Len(text)} \in SUBSET Nat
          BY <1>2, <2>2
      <4> QED  BY <4>1, LeastPlace
    <3>2. m \in 0 .. Len(text)
        BY <1>2, <2>2, <3>1
    <3> HIDE DEF m
    <3>3. {m, cursor} \in SUBSET (0 .. Len(text)) /\ {m, cursor} \in SUBSET Nat
        BY <1>2, <3>2
    <3>4. Min({m, cursor}) \in {m, cursor} /\ Max({m, cursor}) \in {m, cursor}
        BY <1>2, <3>3, LeastPlace, GreatestPlace
    <3> QED  BY <2>2, <3>3, <3>4 DEF Region, m
  <2> QED  BY <2>1, <2>2
<1>6. ASSUME Type PROVE EditsKeep
  <2>1. ASSUME NEW S, NEW x \in S
        PROVE  <<x>> \in Seq(S)
      OBVIOUS
  <2>2. PICK x \in Characters : Put(<<x>>)
      BY <1>6 DEF Type, Characters
  <2>3. Buffers'
      BY <1>1, <2>1, <2>2, PutPlaced
  <2> QED  BY <1>1, <1>6, <2>3, SameKeeps DEF Type, EditsKeep
<1>7. ASSUME Erase PROVE EditsKeep
  <2>1. PICK to \in {Moves.left, Moves.right} :
            Become(Buffer(Without(text, Min({to, cursor}), Max({to, cursor})), Min({to, cursor}), Unset))
      BY <1>7 DEF Erase
  <2>2. {to, cursor} \in SUBSET (0 .. Len(text)) /\ {to, cursor} \in SUBSET Nat
    <3>1. to \in 0 .. Len(text)
        BY <1>3, <2>1
    <3> QED  BY <1>2, <3>1
  <2>3. Min({to, cursor}) \in 0 .. Len(text) /\ Max({to, cursor}) \in 0 .. Len(text)
    <3>1. Min({to, cursor}) \in {to, cursor}
        BY <2>2, LeastPlace
    <3>2. Max({to, cursor}) \in {to, cursor}
        BY <1>2, <2>2, GreatestPlace
    <3> QED  BY <2>2, <3>1, <3>2
  <2>4. Buffers'
      BY <1>1, <2>1, <2>3, WithoutPlaced
  <2> QED  BY <1>1, <1>7, <2>4, SameKeeps DEF Erase, EditsKeep
<1>8. ASSUME Move PROVE EditsKeep
  <2>1. PICK c : GoTo(c) /\ c \in {Moves[m] : m \in Reach} \union {Above(text, cursor), Below(text, cursor)}
      BY <1>8 DEF Move
  <2>2. c \in 0 .. Len(text)
      BY <1>2, <1>4, <2>1, PlacesOfRow
  <2>3. Buffers'
      BY <1>1, <2>1, <2>2, GoesPlaced
  <2> QED  BY <1>1, <1>8, <2>3, SameKeeps DEF Move, EditsKeep
<1>9. ASSUME CutText PROVE EditsKeep
  <2>1. PICK span \in Spans : Kill(span[1], span[2])
      BY <1>9 DEF CutText
  <2>2. span[1] \in 0 .. Len(text) /\ span[2] \in 0 .. Len(text)
    <3>1. /\ LineStart(text, cursor) \in 0 .. Len(text) /\ LineEnd(text, cursor) \in 0 .. Len(text)
      <4>1. LineStart(text, cursor) \in 0 .. cursor /\ LineEnd(text, cursor) \in cursor .. Len(text)
          BY <1>2, PlacesOfLine
      <4> QED  BY <1>2, <4>1
    <3>2. \/ span = <<cursor, LineEnd(text, cursor)>>
          \/ span = <<LineStart(text, cursor), cursor>>
          \/ span = Region
        BY <2>1 DEF Spans
    <3> QED  BY <1>2, <1>5, <3>1, <3>2
  <2>3. Buffers' /\ KillRing' /\ TakenLast'
      BY <1>1, <2>1, <2>2, KillKeeps
  <2> QED  BY <2>3 DEF EditsKeep
<1>10. ASSUME SetMark PROVE EditsKeep
  <2>1. Become(Buffer(text, cursor, cursor))
      BY <1>10 DEF SetMark
  <2>2. Buffers'
      BY <1>1, <1>2, <2>1, BufferIsPlaced, BecomesPlaced
  <2> QED  BY <1>1, <1>10, <2>2, SameKeeps DEF SetMark, EditsKeep
<1>11. ASSUME Copy PROVE EditsKeep
  <2>1. Become(Buffer(text, cursor, Unset)) /\ Took(Part(text, Region[1], Region[2]))
      BY <1>11 DEF Copy
  <2>2. Buffers'
      BY <1>1, <1>2, <2>1, BufferIsPlaced, BecomesPlaced
  <2>3. Part(text, Region[1], Region[2]) \in Seq(Characters)
      BY <1>2, <1>5, PartsAreText
  <2> QED  BY <1>1, <2>1, <2>2, <2>3, TookKeeps DEF EditsKeep
<1>12. ASSUME Yank PROVE EditsKeep
  <2>1. Given \in Seq(Characters)
    <3>1. clip \in Seq(Characters) /\ kill \in Seq(Characters)
        BY <1>1 DEF KillRing
    <3>2. 0 \in 0 .. Len(clip)
        BY <3>1
    <3>3. Trimmed(clip) \in Seq(Characters)
        BY <3>1, <3>2, PartsAreText
    <3> QED  BY <3>1, <3>3 DEF Given
  <2>2. Put(Given) /\ kill' = Given /\ due' = Given /\ clip' = clip
      BY <1>12 DEF Yank
  <2>3. Buffers'
      BY <1>1, <2>1, <2>2, PutPlaced
  <2>4. KillRing' /\ TakenLast'
      BY <1>1, <2>1, <2>2 DEF KillRing, TakenLast
  <2> QED  BY <2>3, <2>4 DEF EditsKeep
<1>13. ASSUME Switch PROVE EditsKeep
  <2>1. CASE buffer' = buffer
    <3>1. Buffers'
        BY <1>1, <2>1 DEF Buffers
    <3> QED  BY <1>1, <1>13, <3>1, SameKeeps DEF Switch, EditsKeep
  <2>2. CASE \E c \in {cursor, Moves.right, Moves.home, Moves.end} : GoTo(c)
    <3>1. PICK c \in {cursor, Moves.right, Moves.home, Moves.end} : GoTo(c)
        BY <2>2
    <3>2. c \in 0 .. Len(text)
      <4>1. Moves["right"] \in 0 .. Len(text) /\ Moves["home"] \in 0 .. Len(text) /\ Moves["end"] \in 0 .. Len(text)
          BY <1>4
      <4> QED  BY <1>2, <3>1, <4>1
    <3>3. Buffers'
        BY <1>1, <3>1, <3>2, GoesPlaced
    <3> QED  BY <1>1, <1>13, <3>3, SameKeeps DEF Switch, EditsKeep
  <2> QED  BY <1>13, <2>1, <2>2 DEF Switch
<1>14. ASSUME Operate PROVE EditsKeep
  <2>1. PICK r \in Ranges :
            IF mode = "copy" THEN Become(Buffer(text, r[1], Unset)) /\ Took(Part(text, r[1], r[2]))
            ELSE Kill(r[1], r[2])
      BY <1>14 DEF Operate
  <2>2. r[1] \in 0 .. Len(text) /\ r[2] \in 0 .. Len(text)
    <3>1. /\ WordLeft(text, cursor) \in 0 .. Len(text) /\ WordRight(text, cursor) \in 0 .. Len(text)
          /\ WordForward(text, cursor) \in 0 .. Len(text) /\ 0 \in 0 .. Len(text) /\ Len(text) \in 0 .. Len(text)
        BY <1>2, PlacesOfWord
    <3>2. \E a, b \in {cursor, WordLeft(text, cursor), WordRight(text, cursor), WordForward(text, cursor), 0, Len(text)} :
              r = <<a, b>>
        BY <2>1 DEF Ranges
    <3> QED  BY <1>2, <3>1, <3>2
  <2>3. CASE mode = "copy"
    <3>1. Buffers'
        BY <1>1, <1>2, <2>1, <2>2, <2>3, BufferIsPlaced, BecomesPlaced
    <3>2. Part(text, r[1], r[2]) \in Seq(Characters)
        BY <1>2, <2>2, PartsAreText
    <3> QED  BY <1>1, <2>1, <2>3, <3>1, <3>2, TookKeeps DEF EditsKeep
  <2>4. CASE mode # "copy"
      BY <1>1, <2>1, <2>2, <2>4, KillKeeps DEF EditsKeep
  <2> QED  BY <2>3, <2>4
<1>15. ASSUME Clear PROVE EditsKeep
  <2>1. << >> \in Seq(Characters) /\ Len(<< >>) \in 0 .. Len(<< >>)
      OBVIOUS
  <2>2. Buffers'
      BY <1>1, <1>15, <2>1, BufferIsPlaced, BecomesPlaced DEF Clear, Renew
  <2> QED  BY <1>1, <1>15, <2>2, SameKeeps DEF Clear, EditsKeep
<1> QED  BY <1>6, <1>7, <1>8, <1>9, <1>10, <1>11, <1>12, <1>13, <1>14, <1>15 DEF Editing

LEMMA RenewKeeps ==
    ASSUME Buffers, NEW s \in Seq(Characters), Renew(s), tab' = tab
    PROVE  Buffers'
<1>1. Len(s) \in 0 .. Len(s)
    OBVIOUS
<1>2. WellPlaced(Buffer(s, Len(s), Unset))
    BY <1>1, BufferIsPlaced
<1> QED  BY <1>2, BecomesPlaced DEF Renew

LEMMA RecallKeeps ==
    ASSUME TerminalInv, Recall
    PROVE  TerminalInv'
<1>1. UNCHANGED <<tab, tool, history, refusing, granted, astray>> /\ Same
    BY DEF Recall, Key, fixed, session
<1>2. history \in Seq(Seq(Characters)) /\ Len(history) \in Nat /\ Len(history) >= 1
    BY DEF TerminalInv, Recalls, Recall
<1>3. at' = Unset \/ at' \in 1 .. Len(history)
  <2>1. at # Unset => at \in 1 .. Len(history)
      BY DEF TerminalInv, Recalls
  <2>2. CASE at' = IF at = Unset THEN Len(history) ELSE Max({at - 1, 1})
    <3>1. CASE at = Unset
        BY <1>2, <2>2, <3>1
    <3>2. CASE at # Unset
      <4>1. {at - 1, 1} \in SUBSET (0 .. Len(history))
          BY <1>2, <2>1, <3>2
      <4>2. Max({at - 1, 1}) \in {at - 1, 1} /\ 1 <= Max({at - 1, 1})
          BY <1>2, <4>1, GreatestPlace
      <4> QED  BY <1>2, <2>1, <2>2, <3>2, <4>2
    <3> QED  BY <3>1, <3>2
  <2>3. CASE at' = IF at # Unset /\ at < Len(history) THEN at + 1 ELSE Unset
      BY <1>2, <2>1, <2>3
  <2> QED  BY <2>2, <2>3 DEF Recall
<1>4. (IF at' = Unset THEN << >> ELSE history[at']) \in Seq(Characters)
  <2>1. << >> \in Seq(Characters)
      OBVIOUS
  <2>2. at' # Unset => history[at'] \in Seq(Characters)
      BY <1>2, <1>3
  <2> QED  BY <2>1, <2>2
<1>5. Buffers'
    BY <1>1, <1>4, RenewKeeps DEF Recall, TerminalInv
<1>6. Recalls'
    BY <1>1, <1>2, <1>3 DEF Recalls
<1>7. KillRing' /\ TakenLast'
    BY <1>1, SameKeeps
<1>8. Refusing'
    BY <1>1 DEF TerminalInv, Refusing
<1> QED  BY <1>5, <1>6, <1>7, <1>8 DEF TerminalInv

LEMMA SubmitKeeps ==
    ASSUME TerminalInv, Submit
    PROVE  TerminalInv'
<1>1. UNCHANGED <<tab, tool>> /\ Same /\ at' = Unset /\ Renew(<< >>)
    BY DEF Submit, Key, fixed
<1>2. << >> \in Seq(Characters)
    OBVIOUS
<1>3. Buffers'
    BY <1>1, <1>2, RenewKeeps DEF TerminalInv
<1>4. KillRing' /\ TakenLast'
    BY <1>1, SameKeeps
<1>5. Recalls' /\ Refusing'
  <2>1. CASE UNCHANGED <<session, history>>
      BY <1>1, <2>1 DEF TerminalInv, Recalls, Refusing, session
  <2>2. CASE history' = Append(history, text) /\ Line
    <3>1. text \in Seq(Characters) /\ history \in Seq(Seq(Characters))
        BY TextIsPlaced DEF TerminalInv, Recalls
    <3>2. history' \in Seq(Seq(Characters))
        BY <2>2, <3>1
    <3>3. Refusing'
        BY <2>2, LineKeeps DEF TerminalInv
    <3> QED  BY <1>1, <3>2, <3>3 DEF Recalls
  <2> QED  BY <2>1, <2>2 DEF Submit
<1> QED  BY <1>3, <1>4, <1>5 DEF TerminalInv

LEMMA TerminalSteps == TerminalInv /\ [TerminalNext]_terminalVars => TerminalInv'
<1> SUFFICES ASSUME TerminalInv, [TerminalNext]_terminalVars PROVE TerminalInv'
    OBVIOUS
<1>1. ASSUME UNCHANGED <<tab, history, at, buffer, kill, clip, due, tool>>, Refusing'
      PROVE  TerminalInv'
  <2>1. Buffers' /\ KillRing' /\ Recalls' /\ TakenLast'
      BY <1>1 DEF TerminalInv, Buffers, KillRing, Recalls, TakenLast
  <2> QED  BY <1>1, <2>1 DEF TerminalInv
<1>2. CASE UNCHANGED terminalVars
  <2>1. Refusing'
      BY <1>2 DEF TerminalInv, Refusing, terminalVars, session
  <2> QED  BY <1>1, <1>2, <2>1 DEF terminalVars, screen, edited, fixed
<1>3. CASE ScriptLine
  <2>1. Refusing'
      BY <1>3, EvalKeeps DEF ScriptLine, TerminalInv
  <2> QED  BY <1>1, <1>3, <2>1 DEF ScriptLine, screen, edited, fixed
<1>4. CASE Plain
  <2>1. Refusing'
      BY <1>4, LineKeeps DEF Plain, TerminalInv
  <2> QED  BY <1>1, <1>4, <2>1 DEF Plain, screen, edited, fixed
<1>5. CASE Editing
  <2>1. UNCHANGED <<session, history, at>>
      BY <1>5 DEF Editing, Type, Erase, Move, CutText, SetMark, Copy, Yank, Switch, Operate, Clear, Edits
  <2>2. Recalls' /\ Refusing'
      BY <2>1 DEF TerminalInv, Recalls, Refusing, session
  <2> QED  BY <1>5, <2>2, EditingKeeps DEF TerminalInv, EditsKeep
<1>6. CASE EvalScratch
  <2>1. Refusing'
    <3>1. CASE UNCHANGED <<refusing, granted, astray>>
        BY <3>1 DEF TerminalInv, Refusing
    <3>2. CASE \E ok \in BOOLEAN : Eval("resolve", ok)
        BY <3>2, EvalKeeps DEF TerminalInv
    <3> QED  BY <1>6, <3>1, <3>2 DEF EvalScratch
  <2> QED  BY <1>1, <1>6, <2>1 DEF EvalScratch, Key, edited, fixed
<1>7. CASE Turn
  <2>1. UNCHANGED <<buffer, kill, clip, due, tool, history, at, refusing, granted, astray>> /\ tab' \in DOMAIN buffer
      BY <1>7 DEF Turn, fixed, session, edited
  <2>2. Buffers'
      BY <2>1 DEF TerminalInv, Buffers
  <2> QED  BY <2>1, <2>2 DEF TerminalInv, KillRing, Recalls, TakenLast, Refusing
<1>8. CASE Page
  <2>1. Refusing'
      BY <1>8, EvalKeeps DEF Page, TerminalInv
  <2> QED  BY <1>1, <1>8, <2>1 DEF Page, screen, edited, fixed
<1>9. CASE OtherProgram
  <2>1. /\ UNCHANGED <<tab, buffer, kill, tool, history, at, refusing, granted, astray>>
        /\ clip' \in Seq(Characters) /\ due' = clip' /\ tool
      BY <1>9, TerminalAssumption DEF OtherProgram, fixed, session, screen
  <2>2. Buffers'
      BY <2>1 DEF TerminalInv, Buffers
  <2> QED  BY <2>1, <2>2 DEF TerminalInv, KillRing, Recalls, TakenLast, Refusing
<1> QED  BY <1>2, <1>3, <1>4, <1>5, <1>6, <1>7, <1>8, <1>9, RecallKeeps, SubmitKeeps DEF TerminalNext

(* Whatever is typed, run, pasted and copied meanwhile: nothing is evaluated  *)
(* after a refused `cap`, Ctrl-Y inserts what was taken last, and a region is *)
(* in the text it was marked in.                                              *)
THEOREM TerminalKeeps == TerminalSpec => []TerminalHolds
<1>1. TerminalInv => TerminalHolds
  <2> SUFFICES ASSUME TerminalInv PROVE TerminalHolds
      OBVIOUS
  <2>1. NothingAstray
      BY DEF TerminalInv, Refusing, NothingAstray
  <2>2. KilledIsKept
      BY DEF TerminalInv, TakenLast, KilledIsKept, Given
  <2>3. MarkedIsThere
      BY DEF TerminalInv, Buffers, WellPlaced, MarkedIsThere
  <2> QED  BY <2>1, <2>2, <2>3 DEF TerminalHolds
<1> QED  BY <1>1, TerminalStarts, TerminalSteps, PTL DEF TerminalSpec
=============================================================================
