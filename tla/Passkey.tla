------------------------------- MODULE Passkey -------------------------------
(* The passkey second factor of a serving edge (crates/ikigai-embedded/src/    *)
(* passkey.rs): the challenges it hands out and takes back, the credential     *)
(* file, and the enrollment window that a person at the box opens, from        *)
(* another process.  A decision's POST and a registration's POST each hold one *)
(* process-wide lock from their load of the file to its save; they may be sent *)
(* again, arrive late, or be cut short by a crash.                             *)
EXTENDS Naturals, Sequences, FiniteSets

CONSTANTS
    Callers,    \* the requests the edge serves at a time
    Credentials,    \* the devices' credentials
    Counting,   \* the ones whose signature counter counts; the others' stays 0
    CHALLENGE_TTL,
    ENROLL_WINDOW,  \* ENROLL_WINDOW_SECONDS
    MaxChallenges,  \* passkey.max_challenges
    LastSecond, MaxIssued, MaxWindows   \* bounds on the clock, the challenges and the windows

ASSUME PasskeyAssumption ==
    /\ Counting \subseteq Credentials /\ IsFiniteSet(Callers)
    /\ CHALLENGE_TTL \in Nat \ {0} /\ ENROLL_WINDOW \in Nat \ {0} /\ MaxChallenges \in Nat \ {0}
    /\ LastSecond \in Nat /\ MaxIssued \in Nat /\ MaxWindows \in Nat

VARIABLES
    pclock,
    rp,         \* whether the edge was started with a relying party
    issued,     \* when each challenge was issued, in order
    live,       \* the outstanding challenges, each with its expiry
    devices,    \* each device's own counter
    posts,      \* the assertions the devices have made, to be posted any number of times
    store,      \* the credential file: its state, and the counter of each key in it
    window,     \* the window file
    opened,     \* the windows opened so far: each one's number is its one-time code
    pwork,      \* what each task is doing under the lock, with what it has loaded
    accepted,   \* the assertions the gate accepted, and when it took their challenges back
    bare,       \* whether the gate's last pass asked for no assertion
    armed,      \* whether a registration was stored and the file not removed since
    enrolled    \* the codes of the registrations stored, in order

passkeyVars == <<pclock, rp, issued, live, devices, posts, store, window, opened, pwork,
                 accepted, bare, armed, enrolled>>
challenges == <<issued, live>>
people == <<devices, posts, opened>>
history == <<accepted, bare, armed, enrolled>>

AtRest == [op |-> "idle"]
NoWindow == [code |-> 0, until |-> 0, spent |-> FALSE]
NoKeys == [k \in {} |-> 0]
Absent == [state |-> "absent", counts |-> NoKeys]
Good(counts) == [state |-> "good", counts |-> counts]

PasskeyInit ==
    /\ pclock = 0 /\ rp \in BOOLEAN
    /\ issued = <<>> /\ live = NoKeys
    /\ devices = [k \in Credentials |-> 0] /\ posts = {}
    /\ store = Absent /\ window = NoWindow /\ opened = 0
    /\ pwork = [t \in Callers |-> AtRest]
    /\ accepted = <<>> /\ bare = FALSE /\ armed = FALSE /\ enrolled = <<>>

(* credential_lock: no task is between its load and its save.                 *)
NoLock == TRUE
Free == \A t \in Callers : pwork[t] = AtRest

(* load_credentials: the keys of the file, none when it is absent; a file     *)
(* that cannot be read or trusted gives no answer.                            *)
Loads == store.state # "bad"

-----------------------------------------------------------------------------
(* urn:passkey:challenge: a new challenge, unless as many as the store holds  *)
(* are still in date; the expired ones are dropped first.                     *)
Outstanding == {c \in DOMAIN live : live[c] > pclock}
Evicting == {c \in Outstanding : \E d \in Outstanding : live[d] < live[c] \/ (live[d] = live[c] /\ d < c)}
Unexpired == Outstanding
OneMore == Cardinality(Unexpired) <= MaxChallenges
Room == Cardinality(Unexpired) < MaxChallenges

Challenge ==
    /\ Free /\ Loads /\ (rp \/ store.counts = NoKeys) /\ Len(issued) < MaxIssued
    /\ IF Room
       THEN /\ issued' = Append(issued, pclock)
            /\ live' = [c \in Unexpired \union {Len(issued) + 1} |->
                          IF c \in Unexpired THEN live[c] ELSE pclock + CHALLENGE_TTL]
       ELSE /\ live' = [c \in Unexpired |-> live[c]]
            /\ UNCHANGED issued
    /\ UNCHANGED <<pclock, rp, people, store, window, pwork, history>>

(* The person touches the device, which signs the challenge and counts.       *)
Touch(k, c) ==
    /\ \A p \in posts : p.challenge # c
    /\ devices' = [devices EXCEPT ![k] = IF k \in Counting THEN @ + 1 ELSE 0]
    /\ posts' = posts \union {[key |-> k, challenge |-> c, count |-> devices'[k]]}
    /\ UNCHANGED <<pclock, rp, challenges, opened, store, window, pwork, history>>

-----------------------------------------------------------------------------
(* require_passkey for one decision's POST.  With no credential it passes as  *)
(* it is; otherwise it goes on under the lock.                                *)
PassUnread ==
    /\ Free /\ (~Loads \/ store.counts = NoKeys)
    /\ bare' = TRUE
    /\ UNCHANGED <<pclock, rp, challenges, people, store, window, pwork, accepted, armed, enrolled>>

PassBare ==
    /\ Free /\ Loads /\ store.counts = NoKeys
    /\ bare' = TRUE
    /\ UNCHANGED <<pclock, rp, challenges, people, store, window, pwork, accepted, armed, enrolled>>

Gate(t, p) ==
    /\ Free /\ Loads /\ store.counts # NoKeys /\ rp
    /\ pwork' = [pwork EXCEPT ![t] = [op |-> "gate", post |-> p, counts |-> store.counts]]
    /\ bare' = FALSE
    /\ UNCHANGED <<pclock, rp, challenges, people, store, window, accepted, armed, enrolled>>

(* The challenge is taken back, in date or not.                               *)
TakenBack(c) == [d \in DOMAIN live \ {c} |-> live[d]]

(* The signature is good; the counter must have advanced.                     *)
Verifies(count, stored) == (count = 0 /\ stored = 0) \/ count > stored

Refuse(t) ==
    /\ pwork' = [pwork EXCEPT ![t] = AtRest]
    /\ UNCHANGED accepted

Consume(t) ==
    /\ pwork[t].op = "gate"
    /\ LET post == pwork[t].post
           c == post.challenge
           inDate == c \in DOMAIN live /\ live[c] > pclock
       IN  /\ live' = TakenBack(c)
           /\ IF /\ inDate /\ post.key \in DOMAIN pwork[t].counts
                 /\ Verifies(post.count, pwork[t].counts[post.key])
              THEN /\ accepted' = Append(accepted, [challenge |-> c, at |-> pclock])
                   /\ pwork' = [pwork EXCEPT ![t] =
                             IF post.count > pwork[t].counts[post.key]
                             THEN [op |-> "count",
                                   counts |-> [pwork[t].counts EXCEPT ![post.key] = post.count]]
                             ELSE AtRest]
              ELSE Refuse(t)
    /\ UNCHANGED <<pclock, rp, issued, people, store, window, bare, armed, enrolled>>

(* save_credentials replaces the file whole, or fails and leaves it.          *)
SaveCount(t) ==
    /\ pwork[t].op = "count"
    /\ store' \in {store, Good(pwork[t].counts)}
    /\ pwork' = [pwork EXCEPT ![t] = AtRest]
    /\ UNCHANGED <<pclock, rp, challenges, people, window, history>>

-----------------------------------------------------------------------------
(* urn:passkey:enroll-open, run at the box in a process of its own.           *)
OpenWindow ==
    /\ opened < MaxWindows /\ opened' = opened + 1
    /\ window' = [code |-> opened + 1, until |-> pclock + ENROLL_WINDOW, spent |-> FALSE]
    /\ UNCHANGED <<pclock, rp, challenges, devices, posts, store, pwork, history>>

(* A registration with a window's code: it is judged and the file loaded; the *)
(* window is spent; the credential is stored.                                 *)
Register(t, k, code) ==
    /\ rp /\ Free
    /\ window.until > pclock /\ ~window.spent /\ window.code = code
    /\ Loads
    /\ pwork' = [pwork EXCEPT ![t] = [op |-> "spend", key |-> k, window |-> window, counts |-> store.counts]]
    /\ UNCHANGED <<pclock, rp, challenges, people, store, window, history>>

LeftOpen(w) == w
Spent(w) == [w EXCEPT !.spent = TRUE]

Spend(t) ==
    /\ pwork[t].op = "spend"
    /\ \/ window' = Spent(pwork[t].window) /\ pwork' = [pwork EXCEPT ![t].op = "store"]
       \/ UNCHANGED window /\ pwork' = [pwork EXCEPT ![t] = AtRest]
    /\ UNCHANGED <<pclock, rp, challenges, people, store, history>>

With(counts, k) == [i \in DOMAIN counts \union {k} |-> IF i = k THEN 0 ELSE counts[i]]

Store(t) ==
    /\ pwork[t].op = "store"
    /\ \/ /\ store' = Good(With(pwork[t].counts, pwork[t].key))
          /\ enrolled' = Append(enrolled, pwork[t].window.code) /\ armed' = TRUE /\ bare' = FALSE
       \/ UNCHANGED <<store, enrolled, armed, bare>>
    /\ pwork' = [pwork EXCEPT ![t] = AtRest]
    /\ UNCHANGED <<pclock, rp, challenges, people, window, accepted>>

-----------------------------------------------------------------------------
(* The person at the box: the file's permissions let others write it, are     *)
(* repaired, or the file is removed, which un-enrolls.                        *)
Spoil ==
    /\ store.state = "good" /\ store' = [store EXCEPT !.state = "bad"]
    /\ UNCHANGED <<pclock, rp, challenges, people, window, pwork, history>>

Repair ==
    /\ store.state = "bad" /\ store' = [store EXCEPT !.state = "good"]
    /\ UNCHANGED <<pclock, rp, challenges, people, window, pwork, history>>

Remove ==
    /\ store.state # "absent" /\ store' = Absent /\ armed' = FALSE
    /\ UNCHANGED <<pclock, rp, challenges, people, window, pwork, accepted, bare, enrolled>>

(* The edge stops anywhere and starts again, its challenges forgotten; a      *)
(* store it would refuse stops it from starting (preflight).                  *)
RestartEdge ==
    /\ Loads /\ rp' \in BOOLEAN
    /\ live' = NoKeys /\ pwork' = [t \in Callers |-> AtRest]
    /\ UNCHANGED <<pclock, issued, people, store, window, history>>

PasskeyTick ==
    /\ pclock < LastSecond /\ pclock' = pclock + 1
    /\ UNCHANGED <<rp, challenges, people, store, window, pwork, history>>

Person ==
    \/ Challenge \/ OpenWindow \/ Spoil \/ Repair \/ Remove
    \/ \E k \in Credentials, c \in 1 .. Len(issued) : Touch(k, c)
PasskeyEdge ==
    \/ PassBare
    \/ \E t \in Callers : \/ \E p \in posts : Gate(t, p)
                        \/ Consume(t) \/ SaveCount(t) \/ Spend(t) \/ Store(t)
                        \/ \E k \in Credentials, code \in 1 .. opened : Register(t, k, code)
PasskeyNext == Person \/ PasskeyEdge \/ RestartEdge \/ PasskeyTick

PasskeySpec == PasskeyInit /\ [][PasskeyNext]_passkeyVars

-----------------------------------------------------------------------------
PasskeyTypeOK ==
    /\ pclock \in 0 .. LastSecond /\ rp \in BOOLEAN /\ bare \in BOOLEAN /\ armed \in BOOLEAN
    /\ DOMAIN live \subseteq 1 .. Len(issued) /\ Cardinality(DOMAIN live) <= MaxChallenges
    /\ \A p \in posts : p.key \in Credentials /\ p.challenge \in 1 .. Len(issued) /\ p.count <= devices[p.key]
    /\ store.state \in {"absent", "good", "bad"} /\ DOMAIN store.counts \subseteq Credentials
    /\ window.code \in 0 .. opened /\ window.spent \in BOOLEAN
    /\ \A t \in Callers : pwork[t].op \in {"idle", "gate", "count", "spend", "store"}

(* "An assertion can be presented exactly once and only within the window":   *)
(* whatever is posted twice, late, by two requests at a time or across a      *)
(* restart, no challenge is accepted twice, or later than its lifetime.       *)
PresentedOnce ==
    /\ \A i, j \in DOMAIN accepted : accepted[i].challenge = accepted[j].challenge => i = j
    /\ \A i \in DOMAIN accepted : accepted[i].at < issued[accepted[i].challenge] + CHALLENGE_TTL

(* Each window takes one registration, and only with its own code.            *)
OnePerWindow == \A i, j \in DOMAIN enrolled : enrolled[i] = enrolled[j] => i = j

(* Once a registration is stored, and until a person removes the file, no     *)
(* crash, failed write or spoiled file lets a decision through bare.          *)
FailsClosed == [][armed /\ armed' => bare' \in {bare, FALSE}]_passkeyVars

(* An assertion is taken once, and while the credentials cannot be read no    *)
(* decision passes for one without a passkey.                                 *)
ConfirmedInPerson == []PresentedOnce /\ FailsClosed

(* "No outstanding one is ever evicted": a challenge in date leaves the store *)
(* only with the assertion that spends it, or with the process.               *)
NoneEvicted ==
    [][\A c \in DOMAIN live : live[c] > pclock /\ c \notin DOMAIN live' =>
          \/ \E t \in Callers : pwork[t].op = "gate" /\ pwork[t].post.challenge = c
          \/ live' = NoKeys /\ \A t \in Callers : pwork'[t] = AtRest]_passkeyVars

(* "The stored counter only ever rises", but for a new registration of its    *)
(* key and the file's removal by hand.                                        *)
CounterRises ==
    [][\A k \in DOMAIN store.counts \intersect DOMAIN store'.counts :
          \/ store'.counts[k] >= store.counts[k]
          \/ \E t \in Callers : pwork[t].op = "store" /\ pwork[t].key = k]_passkeyVars

(* Opening a window "opens a short window during which one passkey may be     *)
(* registered": the file holds the last one opened, whatever a registration   *)
(* under way in the edge's process writes meanwhile.                          *)
(* It does not hold: README, Disagreements.                                   *)
WindowHolds == window.code = opened

(* "Removing it un-enrolls": the file comes back only by a registration that  *)
(* began after it was removed.                                                *)
(* It does not hold: README, Disagreements.                                   *)
RemovalHolds == ~armed => store = Absent
=============================================================================
