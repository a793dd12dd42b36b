----------------------------- MODULE DecideLinks -----------------------------
(* A signed link's POST at a serving edge (crates/ikigai-embedded/src/        *)
(* decide.rs, contactblock.rs, prg.rs): the link is verified, claimed in the  *)
(* process's memory so that it acts once, and dropped as a tuple in the       *)
(* airlock's space; the claim is given back when the drop fails.  The tuple   *)
(* is settled later: a contact link's by a reactor at the edge, a booking's   *)
(* by the Mac, which verifies the link again.  Posts of one link may be sent  *)
(* again at any time, wait anywhere between two steps, or be hung up on.      *)
EXTENDS Naturals, Sequences, FiniteSets

CONSTANTS
    Tasks,      \* the POSTs the edge serves at a time
    Links,      \* the signed links: one token each
    Contact,    \* those of the contact pages, whose claim reads the clock again
    TTL,        \* TTL_SECONDS
    MAX,        \* MAX_REMEMBERED
    MaxClock, MaxLives      \* bounds on the clock and on the edge's restarts

ASSUME DecideAssumption ==
    /\ Contact \subseteq Links /\ IsFiniteSet(Tasks) /\ IsFiniteSet(Links)
    /\ TTL \in Nat \ {0} /\ MAX \in Nat \ {0} /\ MaxClock \in Nat /\ MaxLives \in Nat \ {0}

VARIABLES
    clock,
    expiry,     \* each link's, 0 until it is minted
    acted,      \* the links remembered, each with its expiry
    work,       \* what each POST is about to do
    life,       \* how often the edge was started
    space,      \* the airlock: the tuples waiting, one for each link at most
    recorded,   \* the tuples added to it, each with its claim's life and time
    told,       \* the links a POST was answered "recorded" for
    already,    \* the links a POST was answered "already" for
    lost,       \* the links whose claim was left by a POST that was hung up on
    refused     \* the links whose tuple the Mac refused

vars == <<clock, expiry, acted, work, life, space, recorded, told, already, lost, refused>>
answers == <<told, already>>

Idle == [op |-> "idle"]
Nothing == [l \in {} |-> 0]

Init ==
    /\ clock = 0 /\ expiry = [l \in Links |-> 0]
    /\ acted = Nothing /\ work = [t \in Tasks |-> Idle] /\ life = 1
    /\ space = {} /\ recorded = <<>>
    /\ told = {} /\ already = {} /\ lost = {} /\ refused = {}

(* urn:decide:link and the contact pages' minters.                            *)
Mint(l) ==
    /\ expiry[l] = 0 /\ expiry' = [expiry EXCEPT ![l] = clock + TTL]
    /\ UNCHANGED <<clock, acted, work, life, space, recorded, answers, lost, refused>>

(* token_valid, block_valid, label_valid: signed by this host, and in date.   *)
Valid(l) == expiry[l] > clock

-----------------------------------------------------------------------------
(* The POST of a link.  An invalid one is answered at once; a valid one goes  *)
(* through the passkey gate, which may refuse it.                             *)
Post(t, l) ==
    /\ work[t] = Idle /\ Valid(l)
    /\ work' = [work EXCEPT ![t] = [op |-> "verified", link |-> l, now |-> clock]]
    /\ UNCHANGED <<clock, expiry, acted, life, space, recorded, answers, lost, refused>>

NoPasskey(t) ==
    /\ work[t].op = "verified"
    /\ work' = [work EXCEPT ![t] = Idle]
    /\ UNCHANGED <<clock, expiry, acted, life, space, recorded, answers, lost, refused>>

(* prg::claim: the expired claims are forgotten; the link's own, if any, says *)
(* the link acted before; a full memory refuses.                              *)
Forgetful(now) == {}
Live(now) == {l \in DOMAIN acted : acted[l] > now}
OneOver(kept) == Cardinality(kept) <= MAX
Fits(kept) == Cardinality(kept) < MAX

Now(t) == IF work[t].link \in Contact THEN clock ELSE work[t].now

Claim(t) ==
    /\ work[t].op = "verified"
    /\ LET l == work[t].link
           kept == Live(Now(t))
       IN  \/ /\ l \in kept \/ ~Fits(kept)
              /\ acted' = [k \in kept |-> acted[k]]
              /\ already' = IF l \in kept THEN already \union {l} ELSE already
              /\ work' = [work EXCEPT ![t] = Idle]
           \/ /\ l \notin kept /\ Fits(kept)
              /\ acted' = [k \in kept \union {l} |-> expiry[k]]
              /\ work' = [work EXCEPT ![t] = [op |-> "drop", link |-> l, at |-> clock]]
              /\ UNCHANGED already
    /\ UNCHANGED <<clock, expiry, life, space, recorded, told, lost, refused>>

(* The drop: the tuple's name is its content, so the same one waits once.     *)
Dropped(l, at) ==
    /\ space' = space \union {l}
    /\ recorded' = IF l \in space THEN recorded ELSE Append(recorded, [link |-> l, life |-> life, at |-> at])

Drop(t) ==
    /\ work[t].op = "drop"
    /\ Dropped(work[t].link, work[t].at)
    /\ told' = told \union {work[t].link}
    /\ work' = [work EXCEPT ![t] = Idle]
    /\ UNCHANGED <<clock, expiry, acted, life, already, lost, refused>>

(* prg::release gives back the claim of a drop that failed.                   *)
Kept(l) == acted
Released(l) == [k \in DOMAIN acted \ {l} |-> acted[k]]

DropFails(t) ==
    /\ work[t].op = "drop"
    /\ acted' = Released(work[t].link)
    /\ work' = [work EXCEPT ![t] = Idle]
    /\ UNCHANGED <<clock, expiry, life, space, recorded, answers, lost, refused>>

(* The client goes: its POST is dropped where it waits, the drop done or not. *)
HangUp(t) ==
    /\ work[t].op = "drop"
    /\ \/ Dropped(work[t].link, work[t].at)
       \/ UNCHANGED <<space, recorded>>
    /\ lost' = lost \union {work[t].link}
    /\ work' = [work EXCEPT ![t] = Idle]
    /\ UNCHANGED <<clock, expiry, acted, life, answers, refused>>

(* The edge stops anywhere and starts again, its claims forgotten.            *)
Restart ==
    /\ life < MaxLives /\ life' = life + 1
    /\ acted' = Nothing /\ work' = [t \in Tasks |-> Idle]
    /\ UNCHANGED <<clock, expiry, space, recorded, answers, lost, refused>>

-----------------------------------------------------------------------------
(* A waiting tuple is settled: by the edge's reactor, or by the Mac's drain,  *)
(* whose urn:decide:accept verifies the link again.                           *)
Settle(l) ==
    /\ l \in space /\ l \in Contact
    /\ space' = space \ {l}
    /\ UNCHANGED <<clock, expiry, acted, work, life, recorded, answers, lost, refused>>

Accept(l) ==
    /\ l \in space /\ l \notin Contact
    /\ space' = space \ {l}
    /\ refused' = IF Valid(l) THEN refused ELSE refused \union {l}
    /\ UNCHANGED <<clock, expiry, acted, work, life, recorded, answers, lost>>

Tick ==
    /\ clock < MaxClock /\ clock' = clock + 1
    /\ UNCHANGED <<expiry, acted, work, life, space, recorded, answers, lost, refused>>

Edge(t) == NoPasskey(t) \/ Claim(t) \/ Drop(t) \/ DropFails(t) \/ HangUp(t)

Next ==
    \/ \E l \in Links : Mint(l) \/ Settle(l) \/ Accept(l) \/ \E t \in Tasks : Post(t, l)
    \/ \E t \in Tasks : Edge(t)
    \/ Restart \/ Tick

Spec == Init /\ [][Next]_vars

-----------------------------------------------------------------------------
TypeOK ==
    /\ clock \in 0 .. MaxClock /\ life \in 1 .. MaxLives
    /\ \A l \in Links : expiry[l] \in {0} \union (TTL .. MaxClock + TTL)
    /\ DOMAIN acted \subseteq Links /\ Cardinality(DOMAIN acted) <= MAX
    /\ \A t \in Tasks : work[t].op \in {"idle", "verified", "drop"}
    /\ space \union told \union already \union lost \union refused \subseteq Links

(* "The claim is taken BEFORE the action so two POSTs racing each other       *)
(* cannot both act": of all the posts of a link one process serves, however   *)
(* they interleave and whenever the tuple is settled, one at most is recorded *)
(* by a claim taken while the link is in date.                                *)
InDateTwice(i, j) ==
    /\ recorded[i].link = recorded[j].link /\ recorded[i].life = recorded[j].life
    /\ \A k \in {i, j} : recorded[k].at < expiry[recorded[k].link]
RecordedOnceInDate == \A i, j \in DOMAIN recorded : InDateTwice(i, j) => i = j

(* "A failed drop gives the claim back, so the link can be tried again": a    *)
(* link is remembered only if it was recorded, is about to be, or its client  *)
(* hung up before it was told.                                                *)
ClaimMeansRecorded ==
    \A l \in DOMAIN acted :
        \/ l \in lost
        \/ \E i \in DOMAIN recorded : recorded[i].link = l
        \/ \E t \in Tasks : work[t].op = "drop" /\ work[t].link = l

(* "The same signed link POSTed twice records its intent once": within one    *)
(* process, whenever it is posted.                                            *)
(* It does not hold: README, Disagreements.                                   *)
ActsOnce ==
    \A i, j \in DOMAIN recorded :
        recorded[i].link = recorded[j].link /\ recorded[i].life = recorded[j].life => i = j

(* "This link's decision was recorded before.": whoever is told so, it was.   *)
(* It does not hold: README, Disagreements.                                   *)
AlreadyIsTrue == \A l \in already : \E i \in DOMAIN recorded : recorded[i].link = l

(* "The invitation goes out once your Mac picks this up": a decision that was *)
(* answered "recorded" is not refused when the Mac picks it up.               *)
(* It does not hold: README, Disagreements.                                   *)
RecordedActs == told \intersect refused = {}
=============================================================================
