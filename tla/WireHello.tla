------------------------------ MODULE WireHello ------------------------------
(* How two builds of the wire meet (src/crates/ikigai-wire/src/lib.rs, and its *)
(* use in ikigai-ipc and ikigai-quic): the hello or the ALPN id picks the     *)
(* version of one connection, the client shapes each call for it, the door    *)
(* each reply, and the server may be another build after a restart.           *)
(* It is one resolver's calls, in turn.  IpcLink and QuicWire say when a call *)
(* is sent again; here it is left open.                                       *)
EXTENDS Naturals, FiniteSetsExt

CONSTANTS
    Builds,     \* the builds that meet, each the versions it speaks, [lo, hi]
    MaxChanges, \* how often the server is replaced
    NoLink

HelloSince == 6             \* an older server hangs up on a hello

(* A build that says hello speaks no version without one.                     *)
ASSUME WireAssumption ==
    /\ \A b \in Builds : b.lo \in Nat /\ b.hi \in Nat /\ b.lo <= b.hi
    /\ \A b \in Builds : b.hi >= HelloSince => b.lo >= HelloSince
    /\ MaxChanges \in Nat
    /\ NoLink \notin [build : Builds, at : Nat, age : Nat]

VARIABLES
    kind,       \* the transport, "socket" or "quic"
    ours,       \* the caller's build
    theirs,     \* the build that listens now
    changes,    \* how often it was replaced
    wlink,      \* the resolver's connection: its server's build, version and age
    wcall       \* the call in hand: its place, what it asks, how it was sent, what it
                \* was told

helloVars == <<kind, ours, theirs, changes, wlink, wcall>>

-----------------------------------------------------------------------------
(* The versions. *)

ConflictSince == 8          \* CONFLICT_SINCE
FailureClassesSince == 9    \* FAILURE_CLASSES_SINCE
StreamsSince == 10          \* STREAMS_SINCE

Speaks(b, v) == b.lo <= v /\ v <= b.hi
AnswersItsOwn(b, offered) == b.hi
AnswerTo(b, offered) == IF Speaks(b, offered) THEN offered ELSE b.hi

(* alpns, newest first: TLS picks the newest both list. *)
Common(a, b) == {v \in a.lo..a.hi : Speaks(b, v)}

(* What a call asks for: a body in frames, its run's context, both, neither.  *)
Asks == [head : BOOLEAN, context : BOOLEAN]

(* issue_streamed's fallback, issue_in_run and for_peer. *)
AsItIs(ask, v) == ask
Shape(ask, v) ==
    [head |-> ask.head /\ v >= StreamsSince,
     context |-> ask.context /\ v >= FailureClassesSince]

(* A door reads a head on a connection of its version only, and the context   *)
(* when its build knows the variant.                                          *)
Decodes(l, form) ==
    /\ form.head => l.at >= StreamsSince
    /\ form.context => l.build.hi >= FailureClassesSince

(* The taxonomy: a reply's class, since when a peer can read it. *)
Classes == {"untyped", "conflict", "class"}
Since(class) ==
    IF class = "conflict" THEN ConflictSince
    ELSE IF class = "class" THEN FailureClassesSince ELSE 0

(* Reply::for_peer, and From<&Error> in a build without the variant. *)
TypedAsGiven(class, v) == class
ForPeer(class, v) == IF v < Since(class) THEN "untyped" ELSE class

-----------------------------------------------------------------------------
Up(l) == l.age = changes
Fresh(at) == [build |-> theirs, at |-> at, age |-> changes]

(* A call's round trip, "first" while it has not been sent again. *)
NewCall(ask) ==
    [at |-> "new", ask |-> ask, first |-> TRUE, offer |-> 0, shaped |-> 0,
     on |-> NoLink, given |-> "none", told |-> "none", began |-> 0]

(* The QUIC resolver is built connected; the socket's may have no link yet. *)
HelloInit ==
    /\ kind \in {"socket", "quic"} /\ ours \in {b \in Builds : b.hi >= HelloSince}
    /\ theirs \in Builds /\ changes = 0
    /\ wcall \in {NewCall(ask) : ask \in Asks}
    /\ IF kind = "quic" /\ Common(ours, theirs) # {}
       THEN wlink = Fresh(Max(Common(ours, theirs)))
       ELSE wlink = NoLink

Goto(where) == wcall' = [wcall EXCEPT !.at = where]
Tell(what) == wcall' = [wcall EXCEPT !.at = "done", !.told = what]

(* A QUIC call is shaped before it is sent, for the connection it finds. *)
Begin ==
    /\ wcall.at = "new"
    /\ kind = "quic" => wlink # NoLink
    /\ wcall' = [wcall EXCEPT !.began = changes, !.offer = ours.hi,
                   !.shaped = IF kind = "quic" THEN wlink.at ELSE 0,
                   !.first = wlink # NoLink,
                   !.at = IF wlink = NoLink THEN "dial" ELSE "send"]
    /\ UNCHANGED <<kind, ours, theirs, changes, wlink>>

(* The next call on the resolver. *)
Again ==
    /\ wcall.at = "done"
    /\ wcall' \in {NewCall(ask) : ask \in Asks}
    /\ UNCHANGED <<kind, ours, theirs, changes, wlink>>

(* QUIC's callers share the connection: another of them has healed it. *)
HealedElsewhere ==
    /\ kind = "quic" /\ wcall.at \notin {"new", "done"}
    /\ wlink # NoLink /\ ~Up(wlink) /\ Common(ours, theirs) # {}
    /\ wlink' = Fresh(Max(Common(ours, theirs)))
    /\ UNCHANGED <<kind, ours, theirs, changes, wcall>>

(* handshake: hello_at dials and offers; answer_hello answers and, if it does *)
(* not speak what was offered, closes.                                        *)
HelloAt ==
    /\ kind = "socket" /\ wcall.at = "dial"
    /\ wcall' = [wcall EXCEPT !.at = "hello",
                   !.on = Fresh(AnswerTo(theirs, wcall.offer))]
    /\ UNCHANGED <<kind, ours, theirs, changes, wlink>>

(* The server is replaced, or is too old to answer, while the hello is read.  *)
HungUp == ~Up(wcall.on) \/ wcall.on.build.hi < HelloSince

HelloFails ==
    /\ wcall.at = "hello" /\ HungUp
    /\ Tell("predates")
    /\ UNCHANGED <<kind, ours, theirs, changes, wlink>>

(* An answer lower than the first offer, and spoken here, asks to come back   *)
(* at that version; the second answer must be the offer.                      *)
TakeAnswer ==
    LET said == wcall.on.at
        offer == wcall.offer IN
    /\ wcall.at = "hello" /\ ~HungUp
    /\ \/ /\ said = offer
          /\ Goto("send") /\ wlink' = wcall.on
       \/ /\ said < offer /\ offer = ours.hi /\ Speaks(ours, said)
          /\ wcall' = [wcall EXCEPT !.at = "dial", !.offer = said]
          /\ UNCHANGED wlink
       \/ /\ said # offer /\ ~(said < offer /\ offer = ours.hi /\ Speaks(ours, said))
          /\ Tell("mismatch") /\ UNCHANGED wlink
    /\ UNCHANGED <<kind, ours, theirs, changes>>

(* The socket's call is shaped for the link it is written to, a QUIC call     *)
(* for the one that was current when it began.                                *)
ShapedOnce == IF wcall.shaped = 0 THEN wlink.at ELSE wcall.shaped
ShapedFor == IF kind = "quic" THEN wcall.shaped ELSE wlink.at

Send ==
    /\ wcall.at = "send" /\ Up(wlink)
    /\ wcall' = [wcall EXCEPT !.at = "sent", !.shaped = ShapedFor, !.on = wlink]
    /\ UNCHANGED <<kind, ours, theirs, changes, wlink>>

(* The door answers; what it cannot read it does not run: a socket's door     *)
(* hangs up, QUIC's answers "malformed call", untyped.                        *)
Answer ==
    /\ wcall.at = "sent" /\ Up(wcall.on)
    /\ IF Decodes(wcall.on, Shape(wcall.ask, wcall.shaped))
       THEN \E class \in Classes :
                wcall' = [wcall EXCEPT !.at = "done", !.given = class,
                            !.told = ForPeer(class, wcall.on.at)]
       ELSE Tell("unread")
    /\ wlink' = IF kind = "socket" /\ wcall'.told = "unread" THEN NoLink ELSE wlink
    /\ UNCHANGED <<kind, ours, theirs, changes>>

(* The connection is lost under the call: a first attempt on an old link may  *)
(* be sent again on a new one.  No common id, and TLS refuses the dial.       *)
Lost ==
    /\ \/ wcall.at = "send" /\ ~Up(wlink)
       \/ wcall.at = "sent" /\ ~Up(wcall.on)
    /\ \/ Tell("lost")
       \/ /\ wcall.first
          /\ wcall' = [wcall EXCEPT !.at = "dial", !.first = FALSE, !.offer = ours.hi]
    /\ wlink' = IF kind = "socket" THEN NoLink ELSE wlink
    /\ UNCHANGED <<kind, ours, theirs, changes>>

RedialQuic ==
    /\ kind = "quic" /\ wcall.at = "dial"
    /\ IF Common(ours, theirs) = {}
       THEN Tell("mismatch") /\ UNCHANGED wlink
       ELSE Goto("send") /\ wlink' = Fresh(Max(Common(ours, theirs)))
    /\ UNCHANGED <<kind, ours, theirs, changes>>

(* The server stops, and another build starts on its path or port. *)
Replace ==
    /\ changes < MaxChanges
    /\ changes' = changes + 1
    /\ theirs' \in Builds
    /\ UNCHANGED <<kind, ours, wlink, wcall>>

HelloNext ==
    \/ Replace \/ Begin \/ Again \/ HealedElsewhere
    \/ HelloAt \/ HelloFails \/ TakeAnswer \/ Send \/ Answer \/ Lost \/ RedialQuic

HelloSpec == HelloInit /\ [][HelloNext]_helloVars

-----------------------------------------------------------------------------
Moved == kind = "quic" /\ wcall.on.at # wcall.shaped

(* A door reads whatever is sent to it, with all its version carries, except   *)
(* a QUIC call whose connection was replaced by one of another version after  *)
(* the call was shaped.                                                       *)
EveryCallIsRead ==
    /\ wcall.told = "unread" => Moved
    /\ wcall.given # "none" /\ ~Moved =>
           Shape(wcall.ask, wcall.shaped) = Shape(wcall.ask, wcall.on.at)

(* What a door answers is what the caller is told: the same class of failure  *)
(* where the connection's version carries it, an untyped one where not.       *)
ClassesCross ==
    wcall.given # "none" =>
        /\ Since(wcall.told) <= ours.hi
        /\ wcall.told # wcall.given =>
               wcall.told = "untyped" /\ wcall.on.at < Since(wcall.given)

(* Two builds meet at a version both speak, the newest unless the server was  *)
(* replaced, and neither is told to update but by one gone or changed since.  *)
TheyMeet ==
    /\ wlink # NoLink =>
         /\ wlink.at \in Common(ours, wlink.build)
         /\ wlink.age = 0 => wlink.at = Max(Common(ours, wlink.build))
    /\ wcall.told \in {"mismatch", "predates"} =>
           wcall.began # changes \/ Common(ours, theirs) = {}

SpokenAlike == EveryCallIsRead /\ ClassesCross /\ TheyMeet
=============================================================================
