------------------------------ MODULE ViewIngest ------------------------------
(* urn:view:ingest (src/crates/ikigai-view/src/lib.rs): the events captured   *)
(* in the inbox calendar are appended to the org file, then deleted from the  *)
(* inbox.  A pass is a dozen kernel requests, each of which can fail, with    *)
(* nothing held between them; the timer's thread, the two watchers' threads   *)
(* and the start each run passes of their own, and people keep capturing      *)
(* events and editing the org file.                                           *)
EXTENDS Naturals, Sequences, FiniteSets, SequencesExt

CONSTANTS
    Capturable, \* what may be captured
    Notes,      \* what a person may write into the org file
    Ingesters,  \* the passes that may be running at once
    PrefixOf,   \* the pairs of events the first of whose uids is a prefix of the other's
    MaxRuns     \* bound on the passes begun

ASSUME ViewIngestAssumption ==
    IsFiniteSet(Capturable) /\ IsFiniteSet(Notes) /\ Capturable \intersect Notes = {}
    /\ PrefixOf \subseteq Capturable \X Capturable /\ MaxRuns \in Nat

VARIABLES
    captured,   \* the events captured so far
    inbox,      \* the ones in the inbox calendar
    org,        \* the org file, as its headings in order
    noted,      \* the notes people have written
    pass,       \* per pass: "idle", "inbox", "org", "write", "drain"
    got,        \* per pass: the events it read, later those left to drain
    text,       \* per pass: the org file as it read it
    runs

ingestVars == <<captured, inbox, org, noted, pass, got, text, runs>>

IngestInit ==
    /\ captured = {} /\ inbox = {} /\ org = <<>> /\ noted = {}
    /\ pass = [p \in Ingesters |-> "idle"] /\ got = [p \in Ingesters |-> {}]
    /\ text = [p \in Ingesters |-> <<>>] /\ runs = 0

Reach(p, where) == pass' = [pass EXCEPT ![p] = where]

(* The phone, and somebody's editor saving the file with a line more.         *)
Capture(e) ==
    /\ e \notin captured
    /\ captured' = captured \union {e} /\ inbox' = inbox \union {e}
    /\ UNCHANGED <<org, noted, pass, got, text, runs>>

EditOrg(n) ==
    /\ n \notin noted
    /\ noted' = noted \union {n} /\ org' = Append(org, n)
    /\ UNCHANGED <<captured, inbox, pass, got, text, runs>>

-----------------------------------------------------------------------------
BeginIngest(p) ==
    /\ pass[p] = "idle" /\ runs < MaxRuns
    /\ Reach(p, "inbox") /\ runs' = runs + 1
    /\ UNCHANGED <<captured, inbox, org, noted, got, text>>

(* An empty inbox ends the pass.                                              *)
ReadInbox(p) ==
    /\ pass[p] = "inbox"
    /\ got' = [got EXCEPT ![p] = inbox]
    /\ Reach(p, IF inbox = {} THEN "idle" ELSE "org")
    /\ UNCHANGED <<captured, inbox, org, noted, text, runs>>

ReadOrg(p) ==
    /\ pass[p] = "org"
    /\ text' = [text EXCEPT ![p] = org]
    /\ Reach(p, "write")
    /\ UNCHANGED <<captured, inbox, org, noted, got, runs>>

(* A heading for each event whose :ID: line is not found in the text the pass *)
(* read, where a longer uid's line is found as well (events go in order of    *)
(* uid, so a pass's own headings hide none); the file is written whole, and   *)
(* not at all when there is nothing to add.                                   *)
HasId(e, headings) == \E h \in headings : h = e \/ <<e, h>> \in PrefixOf
AllOfThem(p) == got[p]
Missing(p) == {e \in got[p] : ~HasId(e, ToSet(text[p]))}
Headings(es) == SetToSeq(es)
Swallowed(p) == org
Written(p) == text[p] \o Headings(Missing(p))

WriteOrg(p) ==
    /\ pass[p] = "write"
    /\ org' = IF Missing(p) = {} THEN org ELSE Written(p)
    /\ text' = [text EXCEPT ![p] = <<>>]
    /\ Reach(p, "drain")
    /\ UNCHANGED <<captured, inbox, noted, got, runs>>

(* One delete by uid; an event that is already gone is an error, which ends   *)
(* the pass.                                                                  *)
OnAndOn(p, e) == e \in inbox
More(p, e) == e \in inbox /\ got[p] # {e}

Drain(p, e) ==
    /\ pass[p] = "drain" /\ e \in got[p]
    /\ inbox' = inbox \ {e}
    /\ got' = [got EXCEPT ![p] = IF e \in inbox THEN @ \ {e} ELSE {}]
    /\ Reach(p, IF More(p, e) THEN "drain" ELSE "idle")
    /\ UNCHANGED <<captured, org, noted, text, runs>>

(* A request fails, or the process stops: the pass goes no further.           *)
AbandonIngest(p) ==
    /\ pass[p] # "idle"
    /\ Reach(p, "idle")
    /\ got' = [got EXCEPT ![p] = {}] /\ text' = [text EXCEPT ![p] = <<>>]
    /\ UNCHANGED <<captured, inbox, org, noted, runs>>

IngestWork(p) == ReadInbox(p) \/ ReadOrg(p) \/ WriteOrg(p) \/ \E e \in Capturable : Drain(p, e)
IngestNext ==
    \/ \E e \in Capturable : Capture(e)
    \/ \E n \in Notes : EditOrg(n)
    \/ \E p \in Ingesters : BeginIngest(p) \/ IngestWork(p) \/ AbandonIngest(p)

IngestSpec == IngestInit /\ [][IngestNext]_ingestVars

-----------------------------------------------------------------------------
IngestTypeOK ==
    /\ captured \subseteq Capturable /\ inbox \subseteq Capturable /\ noted \subseteq Notes
    /\ org \in Seq(Capturable \union Notes)
    /\ pass \in [Ingesters -> {"idle", "inbox", "org", "write", "drain"}]
    /\ got \in [Ingesters -> SUBSET Capturable] /\ runs \in 0 .. MaxRuns
    /\ \A p \in Ingesters : /\ text[p] \in Seq(Capturable \union Notes)
                         /\ pass[p] = "drain" => got[p] # {}

(* "Only after the org write landed: drain the inbox": a captured event is in *)
(* the inbox or in the org file, also when a pass stops half way.             *)
NothingLost == captured \subseteq inbox \union ToSet(org)

(* One capture is one heading: a pass after one that wrote and did not drain  *)
(* finds the :ID: and only drains.                                            *)
OneHeading == IsInjective(org)

(* The headings are "APPENDED": what somebody wrote into the file stays.      *)
(* It does not hold: README, Disagreements.                                   *)
NotesKept == noted \subseteq ToSet(org)
=============================================================================
