----------------------------- MODULE SourceLimit -----------------------------
(* The door's rate limits per source (crates/ikigai-web/src/source_limit.rs).  *)
(* Each rule keeps a window of instants for each source it has counted; a      *)
(* request reads the clock, takes the table's lock, and is admitted and        *)
(* counted, or refused: because its own window is full, or because it has no   *)
(* window and the table has no room for another one.                           *)
(*                                                                             *)
(* The clock is read before the lock, so requests may be decided in another    *)
(* order than that of their instants.  Time passes in ticks, SECOND of them to *)
(* a second; no request is held up between the two for more than Stall ticks.  *)
EXTENDS Naturals, Sequences, FiniteSets

CONSTANTS
    Threads, Sources, Targets, Rules,
    Governs,    \* the targets whose IRI begins with each rule's prefix
    Prefix,     \* the length of each rule's prefix
    BUDGET, WINDOW,        \* each rule's budget and window
    MaxSources,         \* how many windows the table holds
    SECOND, Stall,
    MaxTime     \* bound on the time

ASSUME SourceLimitAssumption ==
    /\ IsFiniteSet(Rules) /\ Governs \in [Rules -> SUBSET Targets] /\ Prefix \in [Rules -> Nat]
    /\ BUDGET \in [Rules -> Nat \ {0}] /\ WINDOW \in [Rules -> Nat \ {0}]
    /\ MaxSources \in Nat /\ SECOND \in Nat \ {0} /\ Stall \in Nat /\ MaxTime \in Nat

VARIABLES
    time,
    asks,       \* what each thread is deciding: the request and the instant it read
    windows,    \* the table: the instants counted under each (rule, source) it tracks
    answer,     \* the last answer given
    counted     \* the instants of the requests admitted under each (rule, source)

limitVars == <<time, asks, windows, answer, counted>>

Keys == Rules \X Sources
NoAsk == [target |-> {}, source |-> {}, now |-> 0]
NoAnswer == [kind |-> "none", key |-> <<>>, retry |-> 0]

LimitInit ==
    /\ time = 0
    /\ asks = [th \in Threads |-> NoAsk]
    /\ windows = [k \in {} |-> <<>>]
    /\ answer = NoAnswer
    /\ counted = [k \in Keys |-> <<>>]

-----------------------------------------------------------------------------
(* The rule that governs a target: the one with the longest prefix.           *)
Candidates(target) == {r \in Rules : target \in Governs[r]}
Governing(target) == CHOOSE r \in Candidates(target) :
                        \A q \in Candidates(target) : Prefix[q] <= Prefix[r]

(* How old an instant is; one that is yet to come is not old at all.          *)
Age(now, t) == IF t <= now THEN now - t ELSE 0

(* The instants left once those at the front that have aged out are dropped.  *)
Expire(hits, window, now) ==
    LET aged == {i \in 1 .. Len(hits) : \A j \in 1 .. i : Age(now, hits[j]) >= window}
    IN  SubSeq(hits, Cardinality(aged) + 1, Len(hits))

(* The table with every window that has emptied taken out of it.              *)
ReclaimAny(table, now) == [k \in {} |-> <<>>]
Reclaim(table, now) ==
    LET left == [k \in DOMAIN table |-> Expire(table[k], WINDOW[k[1]], now)]
    IN  [k \in {key \in DOMAIN left : left[key] # <<>>} |-> left[k]]

(* The table as a request finds it: reclaimed only when it needs the room.    *)
AsItIs(key, now) == windows
Table(key, now) ==
    IF key \notin DOMAIN windows /\ Cardinality(DOMAIN windows) >= MaxSources THEN Reclaim(windows, now) ELSE windows

OverTheTop(table) == FALSE
NoRoom(table) == Cardinality(DOMAIN table) >= MaxSources

-----------------------------------------------------------------------------
TimePasses ==
    /\ time < MaxTime /\ \A th \in Threads : asks[th] # NoAsk => time < asks[th].now + Stall
    /\ time' = time + 1
    /\ UNCHANGED <<asks, windows, answer, counted>>

(* check: a request comes in, and its instant is read.                        *)
Check(th, target, source) ==
    /\ asks[th] = NoAsk
    /\ asks' = [asks EXCEPT ![th] = [target |-> {target}, source |-> {source}, now |-> time]]
    /\ answer' = NoAnswer
    /\ UNCHANGED <<time, windows, counted>>

Answer(th, kind, key, retry) ==
    /\ asks' = [asks EXCEPT ![th] = NoAsk]
    /\ answer' = [kind |-> kind, key |-> key, retry |-> retry]
    /\ UNCHANGED time

Set(table, key, hits) == [k \in DOMAIN table \union {key} |-> IF k = key THEN hits ELSE table[k]]

(* How long a source waits before it may try again: until the first request   *)
(* of its window ages out, in whole seconds, rounded up and never 0.          *)
RoundDown(ticks) == ticks \div SECOND
RetryAfter(ticks) == IF ticks = 0 THEN 1 ELSE (ticks + SECOND - 1) \div SECOND
Waits(hits, window, now) == IF Age(now, hits[1]) <= window THEN window - Age(now, hits[1]) ELSE 0

Ungoverned(th) ==
    /\ asks[th] # NoAsk /\ \A target \in asks[th].target : Candidates(target) = {}
    /\ Answer(th, "open", <<>>, 0)
    /\ UNCHANGED <<windows, counted>>

(* check_at, for the request of key and the instant that the thread read.     *)
Decide(th, key, now) ==
    LET rule == key[1]
        table == Table(key, now)
        hits == IF key \in DOMAIN table THEN Expire(table[key], WINDOW[rule], now) ELSE <<>>
    IN  \/ /\ key \notin DOMAIN table /\ NoRoom(table)
           /\ windows' = table
           /\ Answer(th, "full", key, RetryAfter(WINDOW[rule]))
           /\ UNCHANGED counted
        \/ /\ ~(key \notin DOMAIN table /\ NoRoom(table)) /\ Len(hits) >= BUDGET[rule]
           /\ windows' = Set(table, key, hits)
           /\ Answer(th, "over", key, RetryAfter(Waits(hits, WINDOW[rule], now)))
           /\ UNCHANGED counted
        \/ /\ ~(key \notin DOMAIN table /\ NoRoom(table)) /\ Len(hits) < BUDGET[rule]
           /\ windows' = Set(table, key, Append(hits, now))
           /\ Answer(th, "admitted", key, 0)
           /\ counted' = [counted EXCEPT ![key] = Append(@, now)]

Governed(th) ==
    /\ asks[th] # NoAsk
    /\ \E target \in asks[th].target, source \in asks[th].source :
          /\ Candidates(target) # {}
          /\ Decide(th, <<Governing(target), source>>, asks[th].now)

LimitNext ==
    \/ TimePasses
    \/ \E th \in Threads, target \in Targets, source \in Sources : Check(th, target, source)
    \/ \E th \in Threads : Ungoverned(th) \/ Governed(th)

LimitSpec == LimitInit /\ [][LimitNext]_limitVars

-----------------------------------------------------------------------------
LimitTypeOK ==
    /\ time \in Nat
    /\ asks \in [Threads -> [target : SUBSET Targets, source : SUBSET Sources, now : Nat]]
    /\ DOMAIN windows \subseteq Keys /\ IsFiniteSet(DOMAIN windows)
    /\ \A k \in DOMAIN windows : windows[k] \in Seq(Nat) \ {<<>>}
    /\ counted \in [Keys -> Seq(Nat)]

(* The requests admitted in the stretch of a window that begins with the      *)
(* i-th of them, less what a request may be held up.                          *)
Within(admitted, i, window) ==
    {j \in DOMAIN admitted : admitted[j] >= admitted[i] /\ admitted[j] + Stall < admitted[i] + window}

(* However its requests interleave with those of others, and whatever the     *)
(* table forgot to make room, a source has no more than BUDGET requests       *)
(* admitted in any stretch of the rule's window.                              *)
BudgetKept ==
    \A k \in Keys : \A i \in DOMAIN counted[k] :
        Cardinality(Within(counted[k], i, WINDOW[k[1]])) <= BUDGET[k[1]]

(* A refused source that waits as long as it is told, and is not counted      *)
(* meanwhile by another request, finds room in its window.                    *)
RetryTruthful ==
    [][\A k \in Keys : answer'.kind = "over" /\ answer'.key = k =>
          Len(Expire(windows'[k], WINDOW[k[1]], time' + SECOND * answer'.retry)) < BUDGET[k[1]]]_<<windows, asks>>

(* A source is refused for want of room only while every window of the table  *)
(* holds a request that has not aged out.                                     *)
FullOnlyOfLive ==
    [][\A th \in Threads : asks'[th] # asks[th] /\ answer'.kind = "full" =>
          /\ Cardinality(DOMAIN windows') >= MaxSources
          /\ \A k \in DOMAIN windows' : \E i \in DOMAIN windows'[k] : Age(asks[th].now, windows'[k][i]) < WINDOW[k[1]]]_limitVars
=============================================================================
