----------------------------- MODULE SyncTriggers -----------------------------
(* What starts a derivation of the consolidated view                          *)
(* (src/crates/ikigai-embedded/src/lib.rs): the timer's heartbeat, a watch of  *)
(* the org directory and a watch of the calendar store, each on a thread of    *)
(* its own.  A watcher lets a burst settle, drops the events it sees in a      *)
(* window after its own last run, and a derivation itself changes both what is *)
(* watched: it drains the capture inbox into an org file, and writes the view. *)
EXTENDS Naturals, FiniteSets

CONSTANTS
    Files,      \* the org files an agenda is read from
    Inbox,      \* the one of them captures are appended to
    Threads,    \* which of "org", "store" and "timer" run
    MaxEdits    \* bound on what people do

SyncTriggersAssumption ==
    Inbox \in Files /\ Threads \subseteq {"org", "store", "timer"} /\ MaxEdits \in Nat

VARIABLES
    edits,      \* what people have done so far
    source,     \* the version of what the view is derived from
    inbox,      \* whether a captured event is in the inbox
    view,       \* the version the view was derived from
    orgq,       \* the org files with an event the org watcher has not received;
                \* a second event for a file adds nothing to one still queued
    storeq,     \* whether the store watcher has an event to receive
    uncut,      \* the org files changed since their golden thread was last cut
    at,         \* per thread: "waiting", "settling", "ingest", "read", "write"
    window,     \* per thread: whether its last run is too recent for another
    snap        \* per thread: the version its derivation has read

vars == <<edits, source, inbox, view, orgq, storeq, uncut, at, window, snap>>

Init ==
    /\ edits = 0 /\ source = 0 /\ inbox = FALSE /\ view = 0
    /\ orgq = {} /\ storeq = FALSE /\ uncut = {}
    /\ at = [t \in Threads |-> "waiting"]
    /\ window = [t \in Threads |-> t = "store"]
    /\ snap = [t \in Threads |-> 0]

Go(t, where) == at' = [at EXCEPT ![t] = where]

-----------------------------------------------------------------------------
(* People: an org file saved, an event changed, an event captured.            *)
EditOrg(f) ==
    /\ edits < MaxEdits /\ edits' = edits + 1
    /\ source' = source + 1 /\ orgq' = orgq \union {f} /\ uncut' = uncut \union {f}
    /\ UNCHANGED <<inbox, view, storeq, at, window, snap>>

EditStore ==
    /\ edits < MaxEdits /\ edits' = edits + 1
    /\ source' = source + 1 /\ storeq' = TRUE
    /\ UNCHANGED <<inbox, view, orgq, uncut, at, window, snap>>

Capture ==
    /\ edits < MaxEdits /\ edits' = edits + 1
    /\ inbox' = TRUE /\ storeq' = TRUE
    /\ UNCHANGED <<source, view, orgq, uncut, at, window, snap>>

-----------------------------------------------------------------------------
(* watch_org's loop takes one event: it cuts the file's thread and, unless    *)
(* its last run is under three seconds old, waits for the burst to settle.    *)
CutNothing(f) == uncut
Cut(f) == uncut \ {f}

ReceiveOrg(f) ==
    /\ "org" \in Threads /\ at["org"] = "waiting" /\ f \in orgq
    /\ orgq' = orgq \ {f} /\ uncut' = Cut(f)
    /\ Go("org", IF window["org"] THEN "waiting" ELSE "settling")
    /\ UNCHANGED <<edits, source, inbox, view, storeq, window, snap>>

ReceiveStore ==
    /\ "store" \in Threads /\ at["store"] = "waiting" /\ storeq
    /\ storeq' = FALSE
    /\ Go("store", IF window["store"] THEN "waiting" ELSE "settling")
    /\ UNCHANGED <<edits, source, inbox, view, orgq, uncut, window, snap>>

(* Two seconds later: whatever has been queued is thrown away, uncut.         *)
Settled(t) ==
    /\ at[t] = "settling"
    /\ orgq' = IF t = "org" THEN {} ELSE orgq
    /\ storeq' = IF t = "store" THEN FALSE ELSE storeq
    /\ Go(t, "ingest")
    /\ UNCHANGED <<edits, source, inbox, view, uncut, window, snap>>

Scheduled == "timer" \in Threads

HeartBeat ==
    /\ Scheduled /\ at["timer"] = "waiting"
    /\ Go("timer", "ingest")
    /\ UNCHANGED <<edits, source, inbox, view, orgq, storeq, uncut, window, snap>>

-----------------------------------------------------------------------------
(* A derivation: the inbox into the org file, the readings, the view.         *)
Ingest(t) ==
    /\ at[t] = "ingest" /\ Go(t, "read")
    /\ IF inbox
       THEN /\ source' = source + 1 /\ inbox' = FALSE
            /\ orgq' = orgq \union {Inbox} /\ uncut' = uncut \union {Inbox} /\ storeq' = TRUE
       ELSE UNCHANGED <<source, inbox, orgq, uncut, storeq>>
    /\ UNCHANGED <<edits, view, window, snap>>

Read(t) ==
    /\ at[t] = "read" /\ Go(t, "write")
    /\ snap' = [snap EXCEPT ![t] = source]
    /\ UNCHANGED <<edits, source, inbox, view, orgq, storeq, uncut, window>>

AllDebounced(t) == TRUE
Debounced(t) == t # "timer"

(* Nothing to change, nothing written.                                        *)
WritesAnyway(t) == TRUE
Changes(t) == view # snap[t]

Write(t) ==
    /\ at[t] = "write" /\ Go(t, "waiting")
    /\ view' = snap[t]
    /\ storeq' = (storeq \/ Changes(t))
    /\ window' = [window EXCEPT ![t] = Debounced(t)]
    /\ snap' = [snap EXCEPT ![t] = 0]
    /\ UNCHANGED <<edits, source, inbox, orgq, uncut>>

(* Three seconds, for the store watcher fifteen, after the run.               *)
Expire(t) ==
    /\ window[t]
    /\ window' = [window EXCEPT ![t] = FALSE]
    /\ UNCHANGED <<edits, source, inbox, view, orgq, storeq, uncut, at, snap>>

Derive(t) == Settled(t) \/ Ingest(t) \/ Read(t) \/ Write(t)
People == (\E f \in Files : EditOrg(f)) \/ EditStore \/ Capture
Receive == (\E f \in Files : ReceiveOrg(f)) \/ ReceiveStore
Next == People \/ Receive \/ HeartBeat \/ \E t \in Threads : Derive(t) \/ Expire(t)

Spec == Init /\ [][Next]_vars

(* The threads run, the platform delivers, time passes, the timer beats.      *)
FairSpec ==
    /\ Spec
    /\ \A f \in Files : WF_vars(ReceiveOrg(f))
    /\ WF_vars(ReceiveStore) /\ WF_vars(HeartBeat)
    /\ \A t \in Threads : WF_vars(Derive(t)) /\ WF_vars(Expire(t))

-----------------------------------------------------------------------------
TypeOK ==
    /\ edits \in 0 .. MaxEdits /\ source \in 0 .. 2 * MaxEdits /\ view \in 0 .. source
    /\ inbox \in BOOLEAN /\ storeq \in BOOLEAN
    /\ orgq \subseteq Files /\ uncut \subseteq Files
    /\ at \in [Threads -> {"waiting", "settling", "ingest", "read", "write"}]
    /\ window \in [Threads -> BOOLEAN] /\ snap \in [Threads -> 0 .. source]
    /\ \A t \in Threads : window[t] => t # "timer"
    /\ \A t \in Threads : snap[t] # 0 => at[t] = "write"

(* With the timer beating, whatever people do is in the end in the view.      *)
Current == view = source /\ ~inbox
EverythingDerived == <>[]Current

(* The watchers' own derivations wake them again, through the view they write *)
(* and the org file they append to: with nobody doing anything the two of     *)
(* them come to rest all the same.                                            *)
Resting == orgq = {} /\ ~storeq /\ \A t \in Threads : at[t] = "waiting"
ComesToRest == <>[]Resting

(* "INSTANT freshness on top of the timer's heartbeat" is the watchers':      *)
(* without waiting for the timer the view becomes current.                    *)
(* It does not hold: README, Disagreements.                                   *)
InstantFreshness == <>[]Current

(* "CUT FIRST, AND OUTSIDE THE DEBOUNCE": an org file whose events have all   *)
(* been received, and whose derivation is under way, has had its thread cut.  *)
(* It does not hold: README, Disagreements.                                   *)
EveryChangeCut == uncut \subseteq orgq
=============================================================================
