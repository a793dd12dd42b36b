------------------------------ MODULE PushStream ------------------------------
(* One page and its event stream (src/crates/ikigai-web/src/push.rs).  A cut   *)
(* of a thread invalidates what hangs from it; the kernel's listener queues an *)
(* event for a cut that invalidates something this capability has cached, and  *)
(* counts the events that no longer fit; the stream's task turns a batch into  *)
(* one message at a time, and the page fetches again what a message names.     *)
(* A stream ends at its idle limit, or with its connection, and the page opens *)
(* another.                                                                    *)
EXTENDS Naturals, Sequences, FiniteSets

CONSTANTS
    Paths,      \* the fragments the page shows, all of them subscribed to
    Threads,
    Hangs,      \* the paths that hang from each thread
    NAMED,      \* how many targets an event names; the kernel's is 64
    CAPACITY,   \* PushConfig::queue
    MaxCuts     \* bound on the cuts

PushStreamAssumption ==
    /\ Hangs \in [Threads -> SUBSET Paths] /\ IsFiniteSet(Paths)
    /\ NAMED \in Nat /\ CAPACITY \in Nat \ {0} /\ MaxCuts \in Nat

VARIABLES
    cuts,       \* the cuts so far
    cached,     \* the paths with an entry in the kernel's cache
    stale,      \* the paths the page shows an old version of
    unheard,    \* the stale paths whose cut fell before the page had an event with an id
    listening,  \* whether the task's listener is registered
    queue, dropped,     \* its bounded queue, and whether any event did not fit
    task,       \* "none", "open", "wait", "send"
    sending,    \* the message the task is handing to the channel
    channel,    \* the channel of one message to the connection
    page,       \* "loading", "connecting", "reading", "closed"
    lastId,     \* whether the page has had an event with an id
    refetch     \* the paths the page is about to fetch again

vars == <<cuts, cached, stale, unheard, listening, queue, dropped, task, sending, channel, page, lastId, refetch>>
kernel == <<cuts, cached, stale, unheard, listening, queue, dropped>>

Nothing == [kind |-> "none", paths |-> {}]

Init ==
    /\ cuts = 0 /\ cached = {} /\ stale = Paths /\ unheard = {}
    /\ listening = FALSE /\ queue = <<>> /\ dropped = FALSE
    /\ task = "none" /\ sending = Nothing /\ channel = <<>>
    /\ page = "loading" /\ lastId = FALSE /\ refetch = Paths

-----------------------------------------------------------------------------
(* The kernel cuts a thread, and names at most NAMED of what it invalidated.  *)
Named(targets) == {s \in SUBSET targets : Cardinality(s) = NAMED \/ (s = targets /\ Cardinality(s) < NAMED)}

Hear(event) ==
    /\ queue' = IF Len(queue) < CAPACITY THEN Append(queue, event) ELSE queue
    /\ dropped' = (dropped \/ Len(queue) = CAPACITY)

Cut(t) ==
    /\ cuts < MaxCuts /\ cuts' = cuts + 1
    /\ cached' = cached \ Hangs[t] /\ stale' = stale \union Hangs[t]
    /\ unheard' = IF lastId \/ (listening /\ page = "reading") THEN unheard ELSE unheard \union Hangs[t]
    /\ IF listening /\ cached \intersect Hangs[t] # {}
       THEN \E s \in Named(cached \intersect Hangs[t]) :
              Hear([named |-> s, more |-> s # cached \intersect Hangs[t]])
       ELSE UNCHANGED <<queue, dropped>>
    /\ UNCHANGED <<listening, task, sending, channel, page, lastId, refetch>>

(* The page fetches a fragment: a read that the kernel caches.                *)
Fetch(p) ==
    /\ p \in refetch
    /\ refetch' = refetch \ {p}
    /\ cached' = cached \union {p} /\ stale' = stale \ {p} /\ unheard' = unheard \ {p}
    /\ UNCHANGED <<cuts, listening, queue, dropped, task, sending, channel, page, lastId>>

-----------------------------------------------------------------------------
(* open: the listener is registered, and the task begins with the opening,    *)
(* which tells a page that reconnects to fetch everything.                    *)
ResyncNever == {}
Resync == IF lastId THEN Paths ELSE {}

Connect ==
    /\ page \in {"loading", "closed"} /\ (page = "loading" => refetch = {})
    /\ page' = "connecting"
    /\ UNCHANGED <<kernel, task, sending, channel, lastId, refetch>>

Open ==
    /\ page = "connecting" /\ task = "none"
    /\ page' = "reading" /\ channel' = <<>>
    /\ listening' = TRUE /\ task' = "open"
    /\ sending' = [kind |-> "ready", paths |-> Resync]
    /\ UNCHANGED <<cuts, cached, stale, unheard, queue, dropped, lastId, refetch>>

(* The wire text of a batch: the paths each event touches, all of them when   *)
(* it left some unnamed, and a resync when the queue overflowed.              *)
Touched(event) == IF event.more THEN Paths ELSE event.named
Forgotten == {}
Overflow == IF dropped THEN Paths ELSE {}
Render == [kind |-> "cut",
           paths |-> UNION {Touched(queue[i]) : i \in 1 .. Len(queue)} \union Overflow]

Drain ==
    /\ task = "wait" /\ (queue # <<>> \/ dropped)
    /\ queue' = <<>> /\ dropped' = FALSE
    /\ sending' = Render /\ task' = "send"
    /\ UNCHANGED <<cuts, cached, stale, unheard, listening, channel, page, lastId, refetch>>

HeartBeat ==
    /\ task = "wait"
    /\ sending' = [kind |-> "keepalive", paths |-> {}] /\ task' = "send"
    /\ UNCHANGED <<kernel, channel, page, lastId, refetch>>

AnyRoom == TRUE
Room == channel = <<>>
Send ==
    /\ task \in {"open", "send"} /\ page = "reading" /\ Room
    /\ channel' = Append(channel, sending) /\ sending' = Nothing /\ task' = "wait"
    /\ UNCHANGED <<kernel, page, lastId, refetch>>

(* The task ends and its listener with it: at the idle limit, or, at whatever *)
(* await it stands, because the receiver is gone.                             *)
IdleOnly == task = "wait" /\ page = "reading"
Ends == (task = "wait" /\ page = "reading") \/ (task # "none" /\ page # "reading")

End ==
    /\ Ends
    /\ listening' = FALSE /\ queue' = <<>> /\ dropped' = FALSE
    /\ task' = "none" /\ sending' = Nothing
    /\ UNCHANGED <<cuts, cached, stale, unheard, channel, page, lastId, refetch>>

-----------------------------------------------------------------------------
(* The connection takes the message and the page acts on it.                  *)
Deliver ==
    /\ page = "reading" /\ channel # <<>>
    /\ channel' = <<>> /\ lastId' = TRUE
    /\ refetch' = refetch \union channel[1].paths
    /\ UNCHANGED <<kernel, task, sending, page>>

(* The end of the stream, or of the connection with what was on it.           *)
Close ==
    /\ page = "reading"
    /\ page' = "closed" /\ channel' = <<>>
    /\ unheard' = IF lastId THEN unheard ELSE unheard \union stale
    /\ UNCHANGED <<cuts, cached, stale, listening, queue, dropped, task, sending, lastId, refetch>>

EndOfStream == task = "none" /\ channel = <<>> /\ Close

Page == (\E p \in Paths : Fetch(p)) \/ Connect \/ Deliver \/ EndOfStream
Task == Open \/ Drain \/ HeartBeat \/ Send \/ End
Next == (\E t \in Threads : Cut(t)) \/ Page \/ Task \/ Close

Spec == Init /\ [][Next]_vars

(* The page and the task run, the connection is not lost every time before it *)
(* carries a message, and a stream that sends nothing but keepalives reaches  *)
(* its idle limit.                                                            *)
Idle == task = "wait" /\ page = "reading" /\ End
LetGo == page # "reading" /\ End
FairSpec ==
    /\ Spec
    /\ \A p \in Paths : WF_vars(Fetch(p))
    /\ WF_vars(Connect) /\ WF_vars(Open) /\ SF_vars(Deliver) /\ WF_vars(EndOfStream)
    /\ SF_vars(Drain) /\ SF_vars(Send) /\ SF_vars(Idle) /\ WF_vars(LetGo)

-----------------------------------------------------------------------------
TypeOK ==
    /\ cuts \in 0 .. MaxCuts /\ cached \subseteq Paths /\ stale \subseteq Paths /\ unheard \subseteq Paths /\ refetch \subseteq Paths
    /\ listening \in BOOLEAN /\ dropped \in BOOLEAN /\ lastId \in BOOLEAN
    /\ queue \in Seq([named : SUBSET Paths, more : BOOLEAN])
    /\ task \in {"none", "open", "wait", "send"} /\ (listening <=> task # "none")
    /\ sending \in [kind : {"none", "ready", "cut", "keepalive"}, paths : SUBSET Paths]
    /\ Len(channel) <= 1 /\ page \in {"loading", "connecting", "reading", "closed"}
    /\ cached \intersect stale = {} /\ (queue = <<>> \/ listening) /\ Len(queue) <= CAPACITY

(* What a page shows is current, or it is fetching it, or it is about to be   *)
(* told; lost events and lost streams included.  What changed between its     *)
(* first fetch and its first stream is the exception.                         *)
Told(p) ==
    \/ p \in refetch
    \/ \E i \in 1 .. Len(queue) : p \in Touched(queue[i])
    \/ dropped \/ p \in sending.paths
    \/ channel # <<>> /\ p \in channel[1].paths
    \/ page \in {"closed", "connecting"} /\ lastId
    \/ page = "reading" /\ task = "none"
NothingMissed == \A p \in stale : p \in unheard \/ Told(p)

(* "an event stream that tells a page when something it shows was             *)
(* invalidated": whatever it shows, from when it first showed it.             *)
(* It does not hold: README, Disagreements.                                   *)
TellsThePage == \A p \in stale : page = "reading" /\ lastId => Told(p)

(* A stream whose client has gone lets its listener and its permit go.        *)
LetsGo == page # "reading" ~> task = "none"

(* Once nothing is cut any more, the page comes to show what is current:      *)
(* what no stream told it, the reconnection after the idle limit does.        *)
ComesCurrent == <>[](stale = {})
=============================================================================
