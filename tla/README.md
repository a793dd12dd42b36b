# A TLA+ model of ikigai

This directory holds TLA+ modules that model the parts of ikigai whose
correctness depends on order, concurrency or failure; the TLC configurations
that check them on small instances; and proofs, checked by TLAPS, of what holds
for every instance. Every definition is translated from the Rust source;
`PROJECT.json` maps each one to the lines it stands for.

1. The system
2. The plan
3. The modules and the code
4. The runs: what is checked, within which bounds
5. Fairness
6. The proofs
7. What holds besides
8. Disagreements
9. What is not modelled

Run `tlc -config X.cfg M` for the module and configuration pairs of section 4
and `tlapm M.tla` for the modules of section 6. The proofs about a component stand at
the end of the module that makes a run of it:

| module | holds the proofs about |
|---|---|
| `MCIpcLink` | `IpcLink`, `WireHello` |
| `IpcDoor` | itself and `IpcBind` |
| `MCHost` | `Scheduler`, `TimeJobs`, `StartupJobs` |
| `QuicWire` | itself |
| `MCFreshness` | `ViewIngest`, `ViewDerive`, `Admission` |
| `MCEdge` | `DecideLinks`, `IntakeDoor`, `Passkey`, `SourceLimit`, `WebDoor`, `WebReads`, `WebWrites` |
| `MCMcp` | `McpSession`, `McpTools`, `Mounts` |
| `MCLayers` | `HostHealth`, `LayerFront`, `LayerFiles`, `Terminal` |

## 1. The system

ikigai is a resource-oriented kernel with a command line around it: everything
is a request (a verb, an IRI, arguments, a capability) issued to a space of
bindings. The kernel itself is a dependency; this repository holds the
transports that carry requests between processes, the doors that serve them,
the host that composes the spaces, and the applications on top. A request
arrives by a door (socket, QUIC, HTTP, MCP), is resolved by the embedded kernel
under the caller's capability, and may go on over a client transport (an
`IpcResolver` or `QuicResolver` mounted as a space) to another process.

| part | state it keeps | operations | what must hold | where |
|---|---|---|---|---|
| **ipc client** (`ikigai-ipc`) | one connection behind a mutex, the answer's place on it given by position alone | round trip under a deadline, heal on use, one redial, one replay | a caller gets its own reply; a call with an effect never runs twice; every call returns | `IpcLink`, `RpcPromise` |
| **ipc streams** (`ikigai-ipc/stream.rs`, `ikigai-wire`) | the same connection, lent to a body in chunks | a call with an upload, a streamed answer, abandoning it | no cut body passes for a whole one; the link stays aligned; the two sides never both wait to write | `IpcStream` |
| **ipc bind** | the socket file, its flock, the listeners | probe, remove, bind, restrict, release | a live door is never displaced; a dead one never blocks the next | `IpcBind` |
| **ipc door** | places, the accept queue | accept, admit by uid, take a place, refuse aloud, drop | a place for each connection served and no other; the queue always moves | `IpcDoor` |
| **work scheduler** (`ikigai-scheduler`) | tasks, workers, three counters | spawn, poll, join, panic, drop | fan-out on a full pool ends; the counters add up | `Scheduler` |
| **QUIC** (`ikigai-quic`) | the current connection and its staleness marks; permits, an age bound at the door | call, redial, replay; accept, refuse, age, drain, close | refused means not run; one effect at most; an aged connection closes | `QuicWire`, `RpcPromise` |
| **time** (`ikigai-time`) | the job registry, one thread a job | schedule, tick, cancel, list | only an equal authority stops a job; nothing fires after its cancel | `TimeJobs` |
| **startup jobs** | the jobs table in force | start, watch, reload | a job in the old and the new table is never untimed | `StartupJobs`, `LiveFile` |
| **names layer** | the topology in force | attach, watch, Sink | the last Sink is in force | `NamesLayer`, `LiveFile` |
| **polled settings** (MCP grants, web routes) | what the last reading said | start, poll, reload | never wider than the session began; a change is taken up | `PolledFile`, `LiveFile` |
| **consolidated view** (`ikigai-view`) | inbox, org file, calendar view, breaker | ingest pass, derive pass | no captured event is lost; a runaway is contained | `ViewIngest`, `ViewDerive` |
| **standing sync** | pending file events, debounce windows | org watcher, store watcher, timer | everything people do is derived; watchers that wake themselves rest | `SyncTriggers` |
| **server push** (`ikigai-web/push.rs`) | queue of cuts for one page | listen, send, drop, resync, idle out | a page hears of every cut once it listens, and comes to be current | `PushStream` |
| **rate limits** | windows of instants per rule and source | check | a budget is never exceeded by more than the time a request is held up | `SourceLimit` |
| **passkeys** | challenges, credential file, enrolment window | gate, register, spoil, repair, restart | an assertion passes once; the gate fails closed | `Passkey` |
| **signed links** | the claims of this process, the tuples dropped | mint, post, claim, drop, settle | a link records its intent once | `DecideLinks` |
| **web door** (`ikigai-web`: `serve_shared`, `h1.rs`, `door.rs`, `upload.rs`) | permits, each connection's stage, the spills on disk and who holds them | accept, refuse, read a head, read or spill a body, answer, keep, linger, close | nothing partial passes for whole; a spill lives as long as its request; every connection ends | `WebDoor` |
| **web writes** | documents, tombstones | PUT, POST, PATCH, DELETE under preconditions | a precondition was met by the resource itself; a repeat of a DELETE is told | `WebWrites` |
| **MCP session** (`ikigai-mcp`) | calls under way, the grant and the filter in force | read a line, run a call, poll the grants | one answer a request; what a client was told binds | `McpSession` |
| **MCP projection** | none: computed from the bindings, for a list and for a call | list, route, substitute | a listed tool's call goes to the endpoint listed | `McpTools` |
| **web reads** | what a cache between client and door keeps | read, negotiate a face, put an envelope on, revalidate, give a range | whoever is handed a kept answer could have been given it by the door | `WebReads` |
| **web ladder** | the route table in force, uploads held | refuse, redirect, describe, match, issue | who is refused learns nothing; what is issued is the door's word | `WebLadder` |
| **wire hello and bodies** (`ikigai-wire`) | the version a link speaks | hello, shape a call, shape a failure; frame, abort, end a body | both sides agree on what was said, whichever build answers | `WireHello`, `WireBody` |
| **QUIC streams** (`ikigai-quic/stream.rs`) | a call's stream, its upload held or read, a permit | head, chunks, abort, hold, answer, stop | no cut body passes for whole; every exchange ends | `QuicStream` |
| **QUIC lobby** (`ikigai-cli` serve, `clients.rs`, minters) | certificates on disk, sessions minted, the door's cache | admit, mint, close, age, answer | a session is what one reading of the files said, and ends after an edit; answers are not shared | `Admission` |
| **p2p** (`ikigai-p2p`) | one request per call with its peer, connections | command, respond, fail, time out, close | each caller is told once, of its own call | `P2pPeer` |
| **intake, people, decisions** (`ikigai-intake`, `jsonl.rs`, `people.rs`, `decisions.rs`, `contactblock.rs`) | two append-only books; client links | submit, record, block, issue, revoke, look up | nobody blocked gets through, nobody admitted is lost | `IntakeDoor` |
| **discovery** (`ikigai-discovery`) | the record announced, what a browser has seen | check, register, withdraw, browse, list | a listed host is where it says | `Discovery` |
| **mounts** | peers connected, their failures | resolve, dial, list, fall back | a request is answered by the space that claims it | `Mounts` |
| **layers: post and save** | a directory others' files are saved into | look, write beside, rename | a participant's file is never replaced or in part | `LayerFiles` |
| **layers: front and tokens** | tokens file, enrollment, grants, challenge | issue, revoke, enroll, authorize | a request is answered as the one its token names | `LayerFront` |
| **host health** | a job's last run by two clocks | run, report, heartbeat | STALE is said of a job that is | `HostHealth` |
| **session and terminal** (`session.rs`, `script.rs`, `tui.rs`) | whether a `cap` was refused; two buffers, kill buffer, clipboard | evaluate a line, a script, a buffer; edit | nothing runs under an authority not asked for; what was killed comes back | `Terminal` |

Parts with no module are in `PROJECT.json` with the
reason; section 9 sums them up.

How the parts meet:

- A process *binds* its socket (`IpcBind`) before it serves its *door*
  (`IpcDoor`); each connection the door admits is a serving thread, which
  `IpcLink` (plain calls) and `IpcStream` (bodies in chunks) model together with
  the client that shares the connection among its callers.
- `IpcResolver` and `QuicResolver` are used as kernel spaces through the same
  trait. What that trait's callers may rely on is `RpcPromise`, the abstract
  specification that `IpcLink` and `QuicWire` are both shown to implement.
- Four parts keep something in force that a file states: the names layer, the
  startup jobs, the MCP grants and the web routes. `LiveFile` is the abstract
  specification of that, implemented by `NamesLayer`, `StartupJobs` and
  `PolledFile` (as grants and as routes).
- The standing sync starts the passes of the consolidated view, whose writes are
  file events that wake the sync again (`SyncTriggers` takes a derivation as one
  of its steps; `ViewIngest` and `ViewDerive` open it up). What the passes
  invalidate reaches the pages through the push stream.
- A request reaches the web door on a connection (`WebDoor`) and goes on through
  the source limit to either a signed link or passkey page of the edge, or a
  verb on a route. `SourceLimit`, `DecideLinks`, `Passkey` and `WebWrites` are
  those four stages; the passkey gate in front of
  a decision is a choice in `DecideLinks` and a module of its own in `Passkey`.
- The MCP session lists and routes tools (`McpTools`) under the grant that
  `PolledFile` keeps fresh and `McpSession` swaps.
- Between the source limit and those stages a request climbs the door's ladder
  (`WebLadder`); a read of what it reaches then becomes a response that caches
  keep (`WebReads`).
- A QUIC connection is admitted by what the lobby's files say (`Admission`)
  before its calls, plain (`QuicWire`) or with bodies (`QuicStream`, whose chunks
  `WireBody` frames for the socket as well), are exchanged. Which version either
  wire speaks is settled by `WireHello`.
- A form reaches `IntakeDoor` by the web door; what is decided about it is
  recorded in the books that `DecideLinks` writes to through the kernel.
- A `Mounts` space issues over the transports above, to peers that `Discovery`
  finds or the configuration names.
- A layer's requests come by the HTTPS front (`LayerFront`); their files reach a
  participant's disk by `layer save` (`LayerFiles`).

What is hard here, and where it is taken up (every entry, with its line, is
under "hazards" in `PROJECT.json`):

- *Interleaving.* Several callers share one connection; several passes share one
  org file; two threads reload one jobs file; two requests check one
  precondition.
- *Answers out of order.* A reply to a call that was given up arrives on a
  connection the next call would use.
- *Lost answers and retries.* A connection that dies after a write may or may
  not have run the call.
- *Crashes.* A server that dies holding a flock, leaving a socket file, or half
  way between the org write and the drain; an edge that forgets its claims.
- *Bounds.* The door's places, QUIC's permits, the push queue, the table of
  windows, the memory of claims.
- *Things that must happen.* A full pool's fan-out; an aged connection's close;
  a page that must come to show what is current.
- *Stale reads.* A reload that read an older file; a link verified before its
  gate and used after; a grant read before it was narrowed.

## 2. The plan

The order is that of how much rests on each part.

1. The socket, which every mounted peer and every command goes through:
   `RpcPromise`, `IpcLink`, `IpcBind`, `IpcDoor`, `IpcStream`, and its bodies and
   hello, `WireBody` and `WireHello`. Done; the transport, the hello, the bind and
   the door proved.
2. What runs in the background: `Scheduler`, `TimeJobs`, `StartupJobs`,
   `HostHealth`. Done; the scheduler's counters, the jobs file and the verdict on
   a job proved.
3. The network: `QuicWire`, `QuicStream`, the lobby `Admission`, `P2pPeer`,
   `Discovery`, `Mounts`. Done; the QUIC transport, the lobby and the mounts
   proved.
4. Files kept in force: `LiveFile`, `NamesLayer`, `PolledFile`. Done.
5. Freshness: `ViewIngest`, `ViewDerive`, `SyncTriggers`, `PushStream`. Done; the
   ingest and the breaker proved.
6. The edge: `WebDoor`, `SourceLimit`, `WebLadder`, `WebReads`, `WebWrites`,
   `Passkey`, `DecideLinks`, `IntakeDoor`. Done; all proved but the ladder.
7. MCP: `McpSession`, `McpTools`. Done; both proved.
8. Layers: `LayerFiles`, `LayerFront`; the terminal: `Terminal`. Done; proved.
9. To come: the arrangement's reloads and the store's, with the startup jobs.
10. The bodies of `IpcStream` and `QuicStream` (`BodiesAreWhole`). Done; proved.

Every module takes its bounds as CONSTANTS, has one action per step of the
code, states its assumptions by name and uses no RECURSIVE operator, so that
each can be proved about.

## 3. The modules and the code

Names of actions and variables follow the code's where TLA+ allows. What a
module leaves out is said in its header and in the note of its component.

**Abstract specifications.**
`RpcPromise` is what a caller of a transport relies on: a call runs, its caller
gives up or is told; a read-only call may run twice, a mutating one once, and
what is told afterwards never changes. It has one variable per call and no
connection. `LiveFile` is what a reader of a settings file relies on: what is in
force is some version the file had (a file that does not read binds what the
component says it binds), versions never go back, and a file left alone is in
the end in force.

**The socket** (`ikigai-ipc/src/lib.rs`, `stream.rs`, `accept.rs`).
`IpcLink`: `Submit` and `Lock` are the beginning of `round_trip_within`; `Dial`
and `Handshake` the heal on use; `Write`, `Read`, `Dead`, `RedialAgain`, `Miss`
the exchange and each way it ends; `Release` the return. `ReplayMayFollow` is
the code's decision to replay, `SpendLink` and `DropLink` its decisions about
the connection. The other end is one thread per connection: `ServeRead`,
`Dispatch`, `Reply`, `ReplyFails`, `IdleOut`, and the process's `Crash` and
`Restart`. A frame is one element of a sequence. `link` is the
`Mutex<Option<Link>>`'s content, `holder` the mutex.
`IpcStream`: one caller and its connections, on sockets that hold `Wire`
frames each way. `Issue`, `WriteHead`, `WriteBody`, `ReadFirst`, `Read`,
`Abandon` are `issue_streamed` and the reader it returns; `ReadHead`,
`Demand`, `Resolve`, `Settle` and `Pump` are the serving thread with the
attached upload, up to the bound on what `settle` may hold.
`IpcBind`: the steps of `bind` under its flock, each of which may fail or be the
process's last. `IpcDoor`: `serve_loop` one statement at a time (accept and its
error classes, the uid, the place, the spawn, the refusal spoken on the loop
itself), with a connection's thread reduced to hello, calls and end.
`WireBody` is a body in frames, for the socket and for QUIC: what the sender
adds (END, ABORT) and what the reader may conclude. `WireHello` is the meeting
of two builds: `Dial`, `TakeAnswer`, `HelloFails` and `Redial` are the hello on
the socket and the ALPN id on QUIC, `Send` shapes a call for the version agreed
(`ShapedFor`), `Answer` reads it as the other build would and shapes the
failure (`ForPeer`), `Lost` and `HealedElsewhere` are what the resolver makes of
a broken connection; `Replace` puts another build behind the path.

**In the background.** `Scheduler` (`ikigai-scheduler`): a worker polls a task
to a join it parks on or to its end. With `Inline`, of one
worker, a task runs only while its spawner waits for it. `TimeJobs` (`ikigai-time`): `schedule_inner`'s critical sections
(`Reserve`, `Start`, `Insert`), a timer thread's loop (`WakeTimer`, `Fire`, `Fold`,
`IdleTick`), and cancel's two (`Cancel`, `SetFlag`), all under the capability
they are made with. `StartupJobs`: the reload by the starting thread and by the
watcher's, one schedule and one cancel a step. `HostHealth`: the two readings a
run is stamped with (`Wake`, `Stamp`, `Fold`), a reload that declares the job
anew, and the two a report judges it by (`ReadClock`, `ReadSleep`, `Judged`).

**Files kept in force.** `NamesLayer`: attach, the watcher's callback and the
atom's Sink under one lock, over a file whose rewrite passes through empty.
`PolledFile`: the load at the start, the first mtime noted later, the poll, and
a refused reading, as the MCP grants (`FailClosed`) and as the web routes.

**Freshness.** `ViewIngest` is `ingest` request by request: list the inbox, read
the org file, write it, drain one event at a time; `Abandon` is a failed request
or the end of the process. `ViewDerive` is `derive` with its breaker, over
events that may fail to be written, lose a field on the way, or come back
different. `SyncTriggers` is `watch_org`, `watch_store` and the beat, with the
debounce windows as states that time leaves. `PushStream` is one page: its
fetches, the listener's callback, the bounded queue, the sending task, the
channel, the idle limit and the reconnection with a Last-Event-ID.

**The edge.** `WebDoor` is a connection from the backlog to its close:
`Admit`, `AcceptFails`, `BackOff` and `Refuse503` are `serve_shared` with its
permits and the classes of accept errors; `HeadLate`, `HeadLost`, `ReadHead` and
`AnswerEnds` are `h1`'s deadlines, its 408s and what it keeps; `ReadUnit`,
`BodyIsIn`, `BodyCut` are `read_body`; `SpillUnit` and `HoldSpill` are `upload`'s
plan and exchange; `WriteUnit` and `AnswerBreaks` are the answer's body. Clients
`Send` or hang up (`ClientHangsUp`) as they like. `SourceLimit` is `check` and `check_at` over the table of windows.
`Passkey` is the gate, the registration and the enrolment window, whose
credential and window files other processes write as well. `DecideLinks` is the
POST of a signed link from its verification to the tuple, `prg`'s memory of
claims, and the settling that verifies again. `WebWrites` is a write from its
precondition's read to its answer, JSON Merge Patch worked out on fields, and
the tombstones. `WebLadder` is `answer`, `answer_admitted` and `respond` up to
the kernel, one refusal after the other (`Answer`), with the table swapped
between an upload's plan and its answer. `WebReads` is `respond` after the
kernel: the face (`Ranges`, `Quality`), the envelope (`CacheControl`, `TagOf`, what
`Vary` names), 304 and 206, seen by a cache that keeps and completes what it may.
`IntakeDoor` is a submission from its provenance to the tuple, an append and a
cut append (`SinkRecord`, `CutShort`), and a client link's life (`Create`,
`Fill`, `Tell`, `Administer`); a line of a book is the parts that one record's end and
the next one's beginning make of it.

**MCP.** `McpSession` is `serve_io` and its threads: the reader's line by line
work, the bound on calls, each call's end, and the two locks the poller swaps
under. `McpTools` is `tool_groups`, `collapse`, `route` and the substitution in
`tools_call`, as operators over small kernels; IRIs are sequences of segments.

**QUIC.** `QuicWire` has both sides of plain calls: the resolver's marks
(`stale`, `suspect`), its one replay and its deadlines, and the door's permits,
refusals, age bound and drain. `QuicStream` has the calls with bodies, each
half of a stream on its own: the caller's task, the door's, the request that
holds, reads or drops its upload, and the pump of the answer. `Admission` is the
lobby: `Admit` by the certificates on disk, `Mint` from `clients.json` and then
`grants.json`, the session's calls through the door's cache (`Answer`), its
close and age; `Edit` and `Start` are the operator's.

**Other machines.** `P2pPeer` is one call from `Call` by the swarm's map to
`Dispatch` under an authority minted for it, and every way back; `Send` and
`Close` are libp2p's. `Discovery` is the announcer's `Check`, with each failure
of its two steps, and a browser's `Resolved`, `Removed`, `List` and `Listen`.
`Mounts` is `Ask` through the composed spaces (`Look`, `Fronting`), the dial of a
preferred peer outside its lock, and the listing with its remembered failures.

**Layers.** `LayerFiles`: `save` from the look at the name to the rename, by
processes that may be killed at each step, over names another participant
chose. `LayerFront`: the token commands' load and save, and a request's three
readings (tokens, enrollment, grants).

**The terminal.** `Terminal` is `Session::eval` and the faces that call it:
`Plain` (the plain REPL and `-c`), `ScriptLine`, `Submit`, `EvalScratch`,
`Page`. The rest is `edit_text` and its two callers, one action per kind of key;
`Took` is `apply`'s copy to the clipboard, `Given` its paste. A buffer is a
sequence of characters, of which newline and any other are told apart.

## 4. The runs

Most runs check several components at once. Such an `MC…` module has a variable
`part`, chosen at the start and never changed, that says which component a
behaviour is about; the others stay in their initial state. The components of a
run share no state, so this explores exactly the union of the components' own
state graphs: it neither interleaves nor constrains them, and every property is
checked on the part it speaks of. `CHECK_DEADLOCK FALSE` is set where the
system may really stop (every call returned, every edit made, every task ended);
the web run alone checks deadlock.

| run | module, configuration | instance | why it is enough | states |
|---|---|---|---|---|
| `ipc_link` | `MCIpcLink`, `IpcLink.cfg` | three callers, one writing, on two connections; or two streamed calls on two connections, one-frame sockets, three kinds of body each way; or one such call on QUIC over two connections, or an upload and a call without one at once, one permit, windows of one; or one resolver's calls in turn to servers of five builds (versions 5-5, 7-7, 7-9, 7-10, 9-11), two replacements | a waiter finds the link spent by another caller while a third still owns the abandoned connection; a replay meets a second failure; a body overflows the socket and the hold; a server is replaced between the two dials of a downgrade | 1.7 M |
| `ipc` | `MCIpc`, `Ipc.cfg` | three binders of one path; four peers (one without the hello, one of another uid) at a door of one place; two callers on two connections; all fair | a third starter comes between the first two's steps; the door is full while two are refused and one is turned away | 23 k |
| `quic` | `QuicWire`, `QuicWire.cfg` | a write without a deadline and a read under one, one permit, three connections | a refused, replayed and abandoned call coexist on an aged, a broken and a current connection | 3.4 M |
| `wires` | `MCWires`, `Wires.cfg` | the same over two connections, no deadline set, and two streamed exchanges with bodies of two chunks each way over one-frame sockets; one on QUIC with its bodies; or two clients of an HTTP door with room for one, a request each, kept open; fair | the drain meets a running and a refused call; each side fills the other's socket; a client is refused, backs up, falls silent or hangs up at every stage | 243 k |
| `host` | `MCHost`, `Host.cfg` | four tasks on one worker; two schedules with three kinds of job and holders of less authority; three edits among four contents of the jobs, names, grants or routes file; fair | a fan-out of three is deeper than the pool; an id is scheduled, cancelled and scheduled again; an edit, its repair and a Sink fall before, between and after every step of a start, a watch and a poll; two edits share an mtime | 330 k |
| `freshness` | `MCFreshness`, `Freshness.cfg` | two events and a note under one pass run four times; a breaker of three under two passes, one flaky and one lossy event; two org files with and without the beat; a page of two fragments, a queue of one, three cuts; a QUIC door with two certificates, three client files (one of them broken), two grants files, three ways to start it, one connection, two edits or expiries, a cache of one; two p2p calls to one serving peer over one path, one edit, one close; fair | a pass stops half way and is run again; two passes count on one breaker; a derivation wakes both watchers; the queue overflows and an event leaves a target unnamed; an edit falls between the minter's two readings and after them; an answer meets a connection's end | 274 k |
| `edge` | `MCEdge`, `Edge.cfg` | two requests at a time: two links of one tick, a memory of one and one restart; two devices, two challenges, two windows; two nested rules of one and two requests and a table of one window for two sources; two connections of two HTTP requests, bodies past a bound, refused, or spilled side by side past the store's; one post of seven forms, beside two appends to two books, one of them cut short, or beside one append and a client link issued, recorded and edited; one document of two fields under three kinds of precondition; two items of one path over three ticks and a tombstone of two; a cache of two answers before doors of 88 kinds, one change of the resource and two ticks | the memory is full while a claim expires; an assertion is posted again across a restart; a window is evicted while it counts; a kept connection's next request is in the buffer before the last answer is out; a record lands on what a cut one left; the document changes, goes and returns between the check and the write; a tombstone expires between a DELETE and its repeat; two clients differ in each header by itself | 2.3 M |
| `web` | `MCWeb`, `Web.cfg` | one request of every shape on four route tables | a table is swapped under an upload | 20 k |
| `mcp` | `MCMcp`, `Mcp.cfg` | two lines, one place and one edit of the grants; one line of every shape; two lines with a call that may never return; every kernel of up to three of nine rows; six sets of host addresses, two moves, two faults, two processes that list; two users of five topologies of mounts, two peers of which one comes or goes once | the edit falls between the two locks of a line; the second line is refused for the first; three rows can share a name, a contract, a shape or a pattern; the last address goes while a registration fails; a dial fails for one user while another is connected | 576 k |
| `layers` | `MCLayers`, `Layers.cfg` | two processes that save, by three commands, entries of which three were posted with `post file` and fifteen are false or unsafe in one way each, over the least helpful file system; two requests and two token commands around an edit of the enrollment, one place at the front; a job of interval 1 over five ticks awake, one nap, a clock set by one; a line and a scratch buffer of one character, one line of history, one other program, scripts of two lines; or a scratch buffer of two | a save is killed before its rename and its process id comes back; a revocation is overlapped by a mint; a run falls between the two readings of a report; a `cap` is refused inside a script and the scratch buffer evaluated after it | 725 k |
| `ingest_overlap` | `ViewIngest`, `ViewIngestOverlap.cfg` | two passes | see section 8 | |
| `decide_twice` | `DecideLinks`, `DecideTwice.cfg` | two posts of two links | see section 8 | |

What they show (a property joined from named parts is checked as their
conjunction):

- `KeepsPromise` (`ipc_link`): `IpcLink` implements `RpcPromise`: whatever
  deadlines were missed and connections replaced, a caller reads its own call's
  reply, a Sink or Delete runs at most once and a read at most twice.
  `BodiesAreWhole`: a body read to its end is the body its producer gave, all of
  it, or the reader is told it is not, on either wire; what is left behind the
  mutex is a connection with nothing of an earlier exchange on it; a refusal that
  QUIC's door wrote is what its caller reads; and no streamed call is dispatched
  twice.
  `SpokenAlike`: a door reads what it is sent, with all its version carries, and
  the caller gets the class of a failure if both have words for it (a QUIC call
  shaped before its connection was replaced aside: section 8); a client and a
  door that share a version meet in it.
- `ListenerIsReachable` (`ipc`): a process that is listening on the path is the
  one its socket file leads to, for as long as it lives. `SlotsAreTheServed`:
  the places taken are the connections being served (and the one about to be).
  `EveryoneMovesOn`: every start ends, listening or reported, whoever died
  before it; every queued peer is taken, whatever the refused ones hold back;
  every call returns although the server does nothing.
- `KeepsPromise` (`quic`): the resolver implements `RpcPromise`, whichever way
  the connection is lost; and a call told that the door refused it has not run
  on any connection and never will.
- `ExchangesEnd` (`wires`): a connection past its age closes once its calls are
  done; two streamed exchanges end although neither side's socket, or stream, can
  hold the other's body. `EveryConnectionEnds`: whoever connects to the HTTP
  door is let in or told it is busy, unless the listener dies, and whatever a
  client does or stops doing its connection ends and its permit comes back.
- `EveryTaskEnds` (`host`): every task ends on a pool of one.
  `StopsForGood`: a job is cancelled only by a caller whose authority covers the
  job's, and once it is removed no new run of it begins. `NoGap`: a job that the
  old and the new table declare is timed throughout the reload. `KeepsPromise`:
  the names layer implements `LiveFile`'s safety, a Sink that returned included.
  `EditsSettle`: no sequence of edits gives a session more than it started with;
  a change that the mtime shows is taken up.
- `NothingLost` (`freshness`): a captured event is in the inbox or the org file,
  wherever a pass stops. `RunawayContained`: a view that cannot converge is
  written at most as often as the breaker and the passes under way allow.
  `ComesToRest`: with the beat everything people do is derived; without it the
  watchers do not keep each other running. `ComesCurrent`: a page left alone
  comes to show what is current. `MintedAsSaid`: what a session holds, some
  reading of each of the two files since its handshake gave its certificate.
  `EachItsOwn`: an answer was made within the scopes of the one it is given to
  and what its call carries, and one principal's answer or client's file is
  nobody else's, kept in the door's cache or not. `EditsRevoke`: once the edits
  are over, a certificate they shut out comes to have no session for good; and a
  p2p call runs only if the file gave its caller something since it came.
  `CallsAreAnswered`: a p2p call runs at most once, an answer is of one that ran
  and a denial of one that did not, and every call comes back.
- `RecordedOnceInDate` (`edge`): a link is recorded at most once by claims taken
  while it is in date. `ConfirmedInPerson`: no challenge is accepted twice or
  late, across restarts, and no step lets a decision through bare while a
  credential is enrolled, or when it cannot be known. `BudgetKept`: a source
  gets no more than its budget in any stretch of the window, less the time a
  request may be held up between its clock's reading and its turn.
  `NothingPartial`: a request is handed on with its whole body or not at all, a
  connection is only read again where a head begins, a spill is on disk exactly
  as long as a request needs it, within the store's bound.
  `EnquiriesKept`: who was blocked by a record on a line of its own reaches the
  space in no later submission; "received" is said of a submission that is in
  the space, or whose sender somebody began to block; what a tuple says of its
  link is one whole record of that link's, none of it typed by the visitor; and
  the ledger keeps everybody it was told of on a whole line.
  `WritesOnWhatWas`: a write under a precondition is made only if the resource, as
  it was while the request was under way, met it; a patch changes its own fields
  of a document that was there meanwhile, and makes none where there was none.
  `RepeatsTold`: a repeated DELETE is told that its resource is gone by the last
  DELETE of its own path and arguments, within the tombstone's life and not
  after.
  `AsIfAsked`: what a cache hands out without asking is what the door would answer
  that very request, current unless the endpoint let it age; an ETag stands for
  one content, so a 304 confirms and a range completes only what a whole answer
  would hold; no cache holds a cookie, nor a shared one what somebody's
  credentials earned.
- `OnTheDoorsWord` (`web`): who is refused at the door is told the same whatever
  the routes and resources behind it; a request that is issued carries the
  connection's provenance, no structure smuggled in by a captured value, no
  write that a page elsewhere started under somebody's credentials, and a spill
  its Sink can read.
- `LinesAnswered` (`mcp`): one answer for each line that is owed one, and a call
  that never returns holds up no other. `ToldIsBinding`: a client told of a
  narrowing is never served under the grant before it. `ListedRoutes`: a listed
  name routes to the endpoint it was listed for, or nowhere.
  `AnsweredWhereClaimed`: a name an override claims runs at its peer or nowhere;
  one a preferred peer claims runs here only to be read, when that peer was away
  or its answer lost;
  a write runs at one kernel at most. `FoundWhereItIs`: no record is
  registered that cannot be dialled, none is withdrawn falsely, what is
  advertised is what the log said last, a failure aside, and once the addresses
  stay the record comes to hold exactly them, or is withheld; and a peer that
  was withdrawn is not so for ever.
- `SavedIsWhole` (`layers`): under a name of the directory there is the user's own
  file or all the bytes of an entry that vouches for them, never a
  configuration, hidden or device name and nothing outside; a save leaves
  nothing of its own behind but when it is killed; and what `post file` posted
  `save` does not refuse. `SpeaksForItsClient`: a request speaks for an enrolled
  client that its token, minted and not revoked before it came, is bound to;
  only what asks to take takes, and nobody names himself. `VerdictIsDue`: a job
  is called STALE only if it was not run for more than three of its intervals
  awake, and is if it was not, up to what the clock was set by and a nap between
  two readings. `TerminalHolds`: after a refused `cap` nothing is evaluated
  under another authority than the one last asked for; Ctrl-Y gives what was
  killed or copied last; a region is taken out of the text it was marked in.

Each of these properties is known to bite: `PROJECT.json` names, for each, a
plausible wrong version of a definition (a guard dropped, an order swapped, a
reset forgotten) under which TLC finds it violated within the same bounds. Those
versions stand in the modules, before the definitions they spoil.

Bounds that exist only to keep the instances finite are constants named `Max…`,
`Links`, `NCalls`, `Wire`, or the number of elements of a set (connections are
reused once both ends are closed). Two callers or tasks that are alike are
exchanged by symmetry in runs that check safety only.

## 5. Fairness

Only steps that the code takes by itself are fair: a thread that is not
blocked, a runtime that polls its tasks, a platform that delivers file events.
No peer is ever assumed to act, no network to deliver, nobody to press a key.

| module | fair | why |
|---|---|---|
| `IpcLink` | a caller's own steps, the passing of its deadline | a thread runs; time passes. The server is not fair: `EveryCallReturns` holds although it does nothing. Each caller makes one call, so weak fairness of taking the mutex is enough; that an endless stream of other calls could starve a waiter is not excluded by this run |
| `IpcBind` | a process's steps, weakly; the flock, strongly | the kernel serves waiters on a flock in turn |
| `IpcDoor` | the loop's own steps and the silence limit on a refusal; `Accept` strongly; the end of an idle connection | the silence limit is a socket timeout; `accept` fails now and then (descriptors run out) but not for ever; an idle connection meets the session's idle timeout |
| `IpcStream` | the caller's and each serving thread's steps | no timeout, hang-up or crash is counted on |
| `QuicStream` | the caller's task and the door's | one async runtime on each side; no deadline, close or break is counted on |
| `Admission` | the door's tasks: to admit, to close what is aged, to answer | a connection's age is a timer; clients need do nothing |
| `P2pPeer` | the swarm's task takes its commands; a request's fate is told | libp2p reports an answer or a failure of every request it took |
| `Discovery` | the watcher's interval passes, and time | a thread that sleeps and checks |
| `Scheduler` | polling a task that is ready, strongly (a worker may be taken by others), its progress, the loss of a task whose handle is gone | the pool's workers take from the queue in order |
| `QuicWire` | the two sides' steps | one async runtime on each side; the deadline is not fair |
| `TimeJobs`, `StartupJobs`, `NamesLayer`, `PolledFile` | the threads' steps; the lock of `NamesLayer` and the delivery of events | a thread runs; the poller wakes every second |
| `ViewDerive` | a pass that was begun; no request fails for ever | only `Converges` and `OthersSync` use it |
| `WebDoor` | the accept loop and its back-off; each connection's task, whose every wait is under a deadline | nothing of a client is fair: it may fall silent at any byte |
| `SyncTriggers` | the watchers, the windows' ends, and with the timer its beat | the beat is a job of its own |
| `PushStream` | the page's fetches and reconnections, the task, the idle limit; `Deliver`, `Drain`, `Send` and `Idle` strongly | each competes with the loss of the connection, which may happen again and again but leaves them enabled again and again |
| `McpSession` | the reader, each call's thread; a call comes back unless its line says it may not | threads are scheduled |

## 6. The proofs

TLAPS checks these for every number of callers, connections, processes, peers,
places, tasks, workers, links, posts, threads, sources, passes, file contents,
requests, tokens, clients, messages, users, names and mounts. The assumptions are the named ASSUMEs of the
modules (a reader's sets are disjoint from its null value, bounds are positive
numbers, what is counted is finite), which the runs evaluate. Tasks and peers may be infinitely
many: the proofs count over the finite set of those begun or served.

| theorem | what it says | how |
|---|---|---|
| `MCIpcLink!LinkTypes`, `LinkInvariant` | the transport's types and its inductive invariant | below |
| `OwnReplyHolds` | a caller reads its own call's reply (no run lists it: `KeepsPromise` implies it) | a conjunct of the invariant |
| `NeverRunAgainHolds` | a mutating call runs at most once, a read at most twice (likewise) | from `RunInv`: what ran is at most what was sent |
| `OneDialHolds`, `IdleLinkHolds` | a call dials at most once; a link at rest is clean | from `DialInv`; from `FrameInv` |
| `LinkKeepsPromise` | `IpcLink` implements `RpcPromise` | `PromiseInit`, `PromiseStep` under the invariant |
| `MCIpcLink!BodiesComeWhole` (from `StreamedOverTheSocket`, `StreamedOverQuic`) | a streamed body comes whole or its reader is told, a link at rest is aligned, a written refusal is read, no streamed call runs twice: for any calls, bodies, connections and bounds | inductive `SocketInv` with `RunsInTurn`; inductive `QuicInv` |
| `MCIpcLink!BuildsMeet` (of `WireHello`) | a door reads what it is sent with all its version carries, a caller gets the class of a failure both have words for, and builds that share a version meet in it, whichever builds and however often a server is replaced | inductive `HelloInv` |
| `IpcDoor!BindInvariant` (of `IpcBind`) | only the lock's holder is between the probe and the bind | inductive |
| `ListenerStaysReachable`, `PlainFileIsKept` | a live listener is never displaced; a file that is no socket is never replaced | from `BindInv` |
| `IpcDoor!DoorInvariant` | queue, hand and places of the accept loop | inductive with `TypeOK` |
| `SlotsMatchServed`, `DoorStaysWithinCap` | places are the served connections; never more than the cap | from `CapInv` |
| `MCHost!StatsInvariant` (of `Scheduler`) | the counters | inductive with `TypeOK` and `BegunFirst` |
| `MCHost!RegistryInvariant` (of `TimeJobs`) | whose each listed job is, and where its thread stands | inductive `RegistryInv` |
| `TimerStopsForGood` | only an equal authority stops a job, and no run of it begins once it is off the list | from `RegistryInv`, and an action property under it |
| `ReadoutIsItsOwn` | a readout was read under the job's own authority; a listed recurring job still ticks | from `RegistryInv` |
| `MCHost!JobsInvariant` (of `StartupJobs`) | one reload at a time, and what the registry times meanwhile | inductive `JobsInv` |
| `NoJobIsDropped`, `RegistryIsInForce` | a job of both tables is timed throughout a reload; between reloads exactly the table in force is timed | from `TimedInv` |
| `JobsFileKeepsPromise` | `StartupJobs` implements `LiveFile` | `LockInv`: what is installed reads and is newer |
| `QuicWire!WireInvariant` | types, and what each call's attempts may still do | inductive `WireInv` |
| `RefusedNeverRan` | a call told "not run, retry it" has not run | from `RefusedInv` |
| `WireKeepsPromise` | `QuicWire` implements `RpcPromise` | step by step, under the invariant |
| `MCFreshness!DoorInvariant` (of `Admission`) | what a connection has found out by each stage of its admission, and whose each kept answer is | inductive `DoorInv` |
| `AnswersAreTheirOwn` | what a call is answered was made for its caller, under what the session holds and the call carries | from `DoorInv` |
| `GivenAsSaid` | what a connection is given, some reading of the files since it began gave its certificate | an action property under `DoorInv` |
| `MCFreshness!NoEventIsLost` (of `ViewIngest`) | a captured event is in the inbox or the org file, wherever a pass stops, *while passes do not overlap* and no captured uid begins another's | inductive `IngestInv` under `Apart` |
| `MCFreshness!DeriveInvariant` (of `ViewDerive`) | the breaker's count and flag against the passes under way | inductive `DeriveInv` |
| `RunawayIsContained`, `PausedOnlyByAStreak` | a view that never converges is written by no more passes than the limit and those running; it is paused only by a streak | counting; from `churn = unconverged` |
| `MCEdge!LimitInvariant` (of `SourceLimit`) | the table's windows are the end of what was admitted | inductive `LimitInv` |
| `BudgetIsKept`, `TableStaysBounded` | no source passes a rule's budget in a stretch of its window; the table is bounded | conjuncts of the invariant |
| `RefusedForLive`, `RetryIsTruthful` | a refusal for want of room means a table of live windows; who waits as told is let in | action properties under the invariant |
| `MCEdge!RecordsOnce` (of `DecideLinks`) | a link is recorded at most once by claims taken in date | inductive `IInv` |
| `MemoryHolds` | types, and the memory of claims within its bound | `Bounded` and `Known` under `IInv` |
| `MCEdge!FormInvariant` (of `IntakeDoor`) | the books' lines, the links' files, and what each submission found out by each of its calls | inductive `FormInv` |
| `FormKeepsEnquiries` | a block turns its sender away, nobody else is turned away, a tuple says of its link what one record says, the ledger keeps who it was told of | from `FormInv` |
| `MCEdge!PasskeyInvariant` (of `Passkey`) | the challenges, the lock, what each request under it has loaded, the window | inductive `PasskeyInv` |
| `DecidedInPerson` | a challenge is accepted once and in its lifetime; once a credential is stored no decision passes bare | from `ChallengesInv`; an action property under `ArmedInv` |
| `OneRegistrationPerWindow` | a window takes one registration | from `WindowInv` |
| `MCEdge!WholeOrNothing` (of `WebDoor`) | a request is handed on whole or not at all; what is read next is a head; a spill is on disk as long as it is needed, within the store's bound | inductive `WebDoorInv` |
| `WritesKeepTheirWord` (of `WebWrites`) | a write under a precondition is made over a resource that met it while the request was under way; a patch changes its own fields of such a document | inductive `WritesInv`, an action property under it |
| `RepeatsAreTold` | a repeated DELETE is told by its own path and arguments' last one, within its tombstone's life | an action property under `WritesInv` |
| `ReadsAreAsIfAsked` (of `WebReads`) | what a cache hands out is what the door would answer; a tag stands for one content; nothing kept that was one client's own | inductive `ReadsInv` |
| `MCLayers!HealthInvariant` (of `HostHealth`) | the readings of a stamp and of a report are in order | inductive `HealthInv` |
| `VerdictsAreDue` | STALE is said when three intervals awake have gone by, and only then, for every interval and however long it runs | arithmetic over `HealthInv` |
| `MCLayers!FrontInvariant` (of `LayerFront`) | the tokens' file, the commands at it and the requests' progress | inductive `FrontInv` |
| `MCLayers!FilesInvariant` (of `LayerFiles`) | what each save knows and has written at each stage | inductive `FilesInv` |
| `WholeOrNotAtAll` | a name holds the user's file or a whole, vouched one; a save that ended left nothing; what was posted is not refused | from `FilesInv` |
| `FrontSpeaksForItsClient` | what reaches the layers kernel names the client its token is bound to, and asks what was asked | from `FrontInv` |
| `MCLayers!TerminalKeeps` (of `Terminal`) | after a refused `cap` nothing is evaluated under another authority; Ctrl-Y gives what was killed or copied last; a region is taken out of the text it was marked in | inductive `TerminalInv` |
| `MCMcp!SessionInvariant` (of `McpSession`) | lines, answers, the reader's view, each call's thread and place, the grant and what was told of it | inductive `SessionInv` |
| `ToldStaysBinding` | a list and a call are served under a grant no older than the one their client had been told of when it sent them | a conjunct; it needs `TakenInv` |
| `EveryLineAnsweredOnce` | a line is answered at most once, under its own id, not at all where nothing is owed, and once by the session's end | from `WrittenInv` and `ProgressInv`: the safety half of `LinesAnswered` |
| `BoundIsKept`, `NoSwapUntold` | no more calls run than MaxCalls; a resting poller has told of every swap | from `BoundInv`; from `ToldInv` |
| `MCMcp!MountsInvariant` (of `Mounts`) | where each request is, where it ran, and what it may still do | inductive `MountInv` |
| `NamesAreAnsweredWhereClaimed` | an override's name at its peer or nowhere; a preferred peer's elsewhere only to be read, when that peer was away or its answer lost; a write at one kernel; this kernel's own here | from `MountInv` and `LongestIsFirst` |
| `ListRoutes` (of `McpTools`) | a listed name routes to the endpoint it was listed for, or nowhere | a fact about `Listed` and `Find` for every set of kernels |

**IpcLink.** `OwnReply` alone is not inductive: a reply is matched by position,
so it depends on nothing else being on the connection. `LinkInv` says so in four
parts. `HolderInv`: exactly the mutex's holder is in an exchange, and the link
behind the mutex is the connection of its first attempt, or empty while it
replays. `FrameInv`: a connection carries at most one call (its frame, its
dispatch or its reply), a caller about to write finds its connection clean, and
a link nobody holds is clean. `RunInv`: a frame that may still be dispatched
belongs to a caller that has sent more than ran; no call is pending on two
connections. `DialInv`: who has dialed. Each action is a lemma of its own for
the part it disturbs (`WriteFrames`, `ReadFrames`, `HandshakeFrames`, …); the
server's steps are summarised once (`ServerMoves`) and reused.

**The refinement.** A caller's `pc` maps to a phase (new, open, done), `executed`
to the runs, `answer` to itself. Each step maps to a step of `RpcPromise` or
leaves it as it is; the one that needs the invariant is `Dispatch`, which may be
an abstract `Run` only while the limit is not reached (`RunInv`).

**IpcBind.** What the probe decided stays true until the bind because everybody
who could change it needs the flock: `stage[p] \in Holding <=> lock = p`, with
the path's content at each stage. A dying process drops its listener and its
lock in one step, its file stays.

**IpcDoor.** `CapInv` says that the count read before a place is taken cannot
have grown when it is taken, since only the loop adds. It needs to know who is
in the loop's hand (`HandInv`) and that nobody is queued twice (`QueueInv`).

**Scheduler.** `StatsAddUp` counts sets of tasks that change by one member a
step (`OneMore`, `OneLess`), which are finite because only spawned tasks are
begun (`BegunFirst`).

**DecideLinks.** The claim of a link taken in date is remembered until it
expires, unless given back (`Claims`); what is remembered, in hand or recorded
is of the past and of a minted link (`Dates`). The invariant holds for claims
taken *in date*: section 8 says why it does not hold for those taken late.

**IntakeDoor.** `EnquiriesKept` relates what a submission found out to books and
files that others write between its calls, so the invariant is about those:
`BooksInv` says that a record told recorded is a line of its book, and that any
line that blocks an address, whole or joined to a torn one, blocks one that
somebody set out to block (a torn line with an address has its action, hence
what is joined to it cannot block anybody new); `RegistryInv`, that what is in a
link's file is among what was written there, so that a tuple's `via` and
`via-earliest` come from one and the same record. Both only grow, and what
`PostInv` says of a submission at each stage is kept by all that happens
meanwhile. The proof is for any submissions, spellings, tokens and records;
`IntakeDoorAssumption` only keeps the model's mark for a visitor's words apart
from ids and tokens.

**Passkey.** A challenge accepted is outstanding no more and its number is never
issued again, restart or not, so no second assertion finds it; what is
outstanding expires a lifetime after its issue (`ChallengesInv`). That the gate
stays shut rests on the file: `ArmedInv` says that a request under the lock can
save back only what holds a credential, so nothing but the person who removes
the file empties it. The window file is written by two processes and the lock is
of one of them: a registration may write an older window back over a newer one
(section 8). `WindowInv` says why that still gives no code a second
registration: what it writes back is spent, and a code is stored under the lock.

**HostHealth.** A verdict compares the difference of two wall readings, less what
the sleep clock says was slept, with three intervals. What it means depends on
how the four readings lie in time: `HealthInv` says that each pair was read in
order and not in the future, and that a stamp and a report's first reading lie
one before the other, awake and asleep alike, whatever the clock was set to.

**TimeJobs.** A cancel and a tick meet only through an id: what makes a run that
begins the listed job's own is that no two calls ever reserve one id (`IdsInv`,
which counts the calls made), so a thread that wakes late finds its own record
or none, never the next job's. `ThreadsInv` says where each thread stands and
that only a job taken out was told to stop. `StopsForGood` and what a readout may
show follow from the two.

**LayerFiles.** That a file is whole under its name follows from what its save held
beside it when it renamed: `SaveInv` carries what `Judge` found (a safe key, the
bytes an entry vouches for) to the rename, over other saves and posts, which
only add to the board; `TempsInv` says which temporary files a process has, so a
number that a killed save left is never written to again. Of what others post
the assumption says only that a name is a name; of names, that a device or a
hidden file written in a compatibility form is neither. Without that last
clause the theorem fails: safe_name compares configuration names after NFKC, but
devices and dots as they are written.

**StartupJobs.** `NoGap` speaks of the versions declared; what makes it hold is
`TimedInv`: every job of the version in force has its record until the whole
table of the next version has one, and no record is of a third version.
`LockInv` is why there is a next version and not two: one thread is in a reload
at a time, of a version that reads and is newer than the one in force. From the
same invariant a record of a version is a step of `LiveFile`, and the rest are
stutters or edits.

**QuicWire.** A call has two attempts, each a stream of its own that the network
and the door move on. `TriesInv` says which attempts may be under way when,
`RunInv` that what ran is at most what was sent and what may still run counts
against it, `RefusedInv` that a write told it was refused has no attempt left
that could run. The door's and the network's steps change one stream and are
reasoned about once (`DoorTakes`, `ServedStep`); the client's, one call each; a
step of one call leaves what is said of another as it is (`OtherCall`).

**IpcStream, QuicStream.** That a cut body never passes for a whole one is a
fact about what is on the way. `SocketInv` says of each direction of each
connection that its frames are, in turn, what the sender of that body may put
there next (`IsRun`, `IsLine`): its chunks, then the one frame that ends it as it
ended, then nothing, and before them its head. It says that one connection bears a
call at a time (`OneBearer`), so that what a thread reads belongs to the call it
serves, and that what the resolver took and what is held for it add up to what the
thread read from the connection, unless the hold overflowed. From this a body
read to its end was ended by its sender, at the length its sender counted; and a
link is put back behind the mutex only when all that was due on it has been read
(`LinkAt`). `RunsInTurn` follows the head: a call whose head is still to be
written, or to be read, has not run. On QUIC a call has a stream of its own,
`QuicInv` says the same of its two halves (`UpInOrder`, `DownInOrder`), and one
thing more: a task that replied has left its reply where the caller reads it, as
long as the connection stands. The step of one stream leaves what is said of the
others as it is (`TaskStepEnough`, `CallStays`). Neither needs a bound on the
bodies or on the buffers; a full buffer only disables a step.

**Admission.** Files are edited between any two of the minter's readings, so what
a connection is given cannot be what the files say at one moment. `Knows` says of
each stage which reading gave it what it has found out, and that what the files
say now is among what they have said since the connection began (`Saying`): that
is what lets the grant read last count as one of them. Answers are shared by a
cache: `Fits` says that whatever is kept under a key was made for the principal
and the segment the key names, `Served` that a call is under way on a connection
whose session no longer changes.

**ViewIngest.** The theorem is about passes that do not overlap and uids none of
which begins another (`Apart`, a hypothesis about the behaviour): without either,
section 8 shows the event that is lost. What a pass is about to write has all
that was drained before it read, since only it drains, and what it is about to
drain is in the file; any number of passes may follow one another and stop
anywhere, while people capture events and add lines. That the headings are those
of the events read rests on `SetToSeq` of a finite set having exactly its members
(`EveryHeading`).

**ViewDerive.** What bounds a runaway is that every pass that still writes had
seen the breaker closed: `Contained` counts the writing passes against the
trips to come, for any number of passes at once and any limit.

**SourceLimit.** The table forgets: hits age out, and whole windows are dropped
to make room. `Remembered` says that what it holds of a source is the end of
what was admitted (`EndOf`), and that whatever it has forgotten is older than
the rule's window, so that the budget kept by the table is the budget kept.
Time is read before the lock is taken, so all of this is up to `Stall`
(`OnTime`). Which window is dropped is a choice over a finite set with a
greatest element (`HasGreatest`).

**LayerFront.** Two token commands at once may each write over the other's file
beside the tokens'. `DiskInv` says that whatever is in either file is a half
written one that nobody reads or a binding of tokens that were minted and not
revoked; `AloneInv` and `Taken` that a revocation counts only when its command
had the file to itself, and that then the file it renames has the token no
more. `Established` says of a request what it has checked by each stage; the
enrollment may change between any two of them, which is why the property says
"while the request was served".

**McpSession.** That nothing is answered twice is a matter of who has the line:
`ProgressInv` says that a line that was read is with the reader, with a call's
thread, settled, or was given up with the client, and that neither the reader
nor a thread has a line that is answered. `WrittenInv` says of what is on the
output that it fits its line (`Fits`) and is the line's only answer; that every
answer the reader works out fits is a fact about the tables of shapes
(`ReplyIsDue`). A grant that was told binds because what a client knows, what is
written in a note and what the reader took all come from versions that only
rise: `TakenInv` orders them, per half of the grant, since the capability and
the filter are swapped and taken one after the other. `ToldInv` follows the
poller from the first swap to the note.

**Mounts.** The property speaks of the mount with the longest claim, the code of
the first one in an order: `FirstIsOne` shows that of any mounts that claim a
name exactly one is tried first, and `LongestIsFirst` that it is that one. Where
a request ran does not tell where it may still go, so `Staged` says for each
stage what has happened by then: a request is with its front (`ToFront`), or it
has left it (`Fell`), as a read, with the peer missed or its answer lost.
`ToFront` also keeps that a peer which is away now was missed, for else the
dial's failure would say nothing; `StaysStaged` is what anybody else's step, or
a peer that comes or goes, leaves in force.

**WireHello.** Who answers may be another build than the one that was greeted, so
`HelloInv` says of a link what was agreed on it, whoever is behind the path now:
what is offered is this build's newest or, while no server was replaced, the
server's own; a link that is up was agreed at a version both spoke; a call on the
way is shaped for the link it is on, and what comes back was shaped by who read
it. The class of a failure is then a table look-up for the two versions at hand.
`WireAssumption` asks that a build that says hello speak no version from before
there was one.

**WebDoor.** What a client has sent is whole requests after what is left of the
current one, so where a body ends the next head begins (`ConnInv`, with
`Coming` for what was sent and not yet read): the door never reads the middle of
one request as the beginning of another. `StoreInv` counts: what is on disk for a
connection is what it took of its body, and what is held for requests is within
the store's bound. The proof is for any requests, framings, bounds, and clients
that send and stop anywhere.

**WebWrites.** A write is checked by one read and made by another request, and the
document changes in between. `WriteInv` keeps, for each request under way, that
what its resource is now is among what it was since the request came; that a
condition that was checked held of one of those, and a patch about to be written
was merged into one of them. The tombstones agree with what was last told
(`TombInv`): one that is kept has its resource's own time, and one that was
forgotten had outlived its life.

**WebReads.** `AsIfAsked` compares what a cache hands out with what the door would
say now. `Genuine` says what a stored answer is: the door's content for the read
it was first made for, at some version, whole or broken off, under the tag and
the headers that content has. Two lemmas carry the rest. `AskedAlike`: requests
that agree on what `Vary` names are given the same capability, face and origin's
answer (a resource with one face needs `OneFace`: any client that is not refused
is given it). `FreshIsAhead`: what is fresh by the door's own reckoning is of a
resource that only time can change, before its deadline, so it cannot have
changed. A revalidation or a range is joined to a stored answer by its tag, which
is of one version (`TagIsOfNow`). `WebReadsAssumption` says what a resource's
declarations and a client's headers look like, and keeps out the two
combinations of section 8 for which the property fails.

**McpTools.** A listed tool is told from others of its name by the first row of
its group; groups are ordered by it, a listed one comes before all others of its
name, and `Find` takes the first. So the route of a listed name is the group it
was listed for, whatever rows a kernel has and whatever their contracts.

**Terminal.** `TerminalInv` has two parts. A session whose last `cap` was refused
refuses, from the refusal on, through every face that evaluates. A mark is a
place of the text it was set in, every motion ends at a place of its text (a
least or greatest element of a set of places is one of them), so a region is cut
out of what is there; and what Ctrl-Y will give is in the kill buffer, or on the
clipboard if another program did not write there.

Liveness and ENABLED are outside the prover, and so is what a recursive
definition computes; these stay with TLC: `EveryoneMovesOn`, `ExchangesEnd`,
`EveryConnectionEnds`, `EveryTaskEnds`, `ComesToRest`, `ComesCurrent`,
`EditsRevoke`, `CallsAreAnswered`, `LinesAnswered`, `FoundWhereItIs` and the fair
halves of `EditsSettle`. Of the properties without fairness one is only
model-checked: `OnTheDoorsWord` holds of the route tables the instance gives and
not of every table: a template may put two captured values side by side, and two
paths then expand alike, so there is no theorem to state for every value of that
constant. No module uses a RECURSIVE operator.

## 7. What holds besides

The modules state further properties, which hold on the same instances and can
be checked by naming them in a configuration; they are not part of the runs,
which keep to those that say most: each module's `TypeOK`; `IpcLink`:
`OneDial`, `IdleLinkIsClean`, `LinkInv`, `OwnReply`, `NeverRunAgain` (proved).
`Scheduler`: `StatsAddUp` (proved). `IpcStream`: `OwnFrames`. `IpcBind`: `PlainFileStays` (proved), `VerdictHolds`. `IpcDoor`: `WithinCap`,
`StrangersHearNothing`, `RefusalIsFinal`, `PlacesComeBack`. `QuicWire`:
`DrainedBeforeClose`, `SuspectIsMarked`, `RefusalMeansUnrun` (proved),
`EveryCallReturns`. `TimeJobs`:
`OwnOutput`, `ListedIsTicking` (proved), `CancelledThreadsEnd`, `RecurringKeepsFiring`.
`StartupJobs`: `TimedIsInForce` and `JobsKeepPromise` (proved), `QuietIsCurrent`,
`JobsSettle`.
`NamesLayer`: `SinkIsInForce`, `NeverTorn`, `QuietIsCurrent`. `Discovery`:
`RecordAsSaid`. `ViewIngest`: `OneHeading`.
`ViewDerive`: `PausedByAStreak` (proved), `Converges`. `PushStream`: `LetsGo`.
`SourceLimit`: `RetryTruthful`, `FullOnlyOfLive` (proved). `Passkey`: `OnePerWindow` (proved),
`NoneEvicted`, `CounterRises`. `DecideLinks`: `ClaimMeansRecorded`.
`McpSession`: `BoundKept`, `SwapsAreTold` (proved). `McpTools`: `BindingsKept`,
`AlignedReachable`.

"hazards" in `PROJECT.json` lists what the runs' properties are aimed at. The
code is exposed to more of the same kind, which the properties above cover:
a redial loop (`OneDial`); a link half used left for the next caller
(`IdleLinkIsClean`); the place count read and added to in two steps
(`WithinCap`); a refused connection, or a stranger's, that reaches the kernel
(`RefusalIsFinal`, `StrangersHearNothing`); a streamed head redialed after its
body is spent (`RunsOnce`, a part of `BodiesAreWhole`); a stale mark lost with the redial it asked for
(`SuspectIsMarked`); the age bound passing between a call's steps
(`DrainedBeforeClose`); a job's output shown under another's authority
(`OwnOutput`); a leaked timer thread (`CancelledThreadsEnd`); a watcher that
reads a file between its truncation and its writing (`NeverTorn`); two passes
counting on one breaker (`PausedByAStreak`); a window forgotten to make room
while it counts (`FullOnlyOfLive`); two assertions loading one credential file
(`CounterRises`, `OnePerWindow`); a challenge evicted under a ceremony
(`NoneEvicted`); a drop that fails after its claim (`ClaimMeansRecorded`); the
calls' bound under panics and threads that do not start (`BoundKept`). Three are
covered by nothing: a panic in the resolver that ends a timer's thread while its
job stays listed (`ikigai-time/src/lib.rs:690`), two edits within the mtime's
resolution of which the poller saw the first (`ikigai-cli/src/main.rs:2662`; the
properties speak of changes that the mtime shows), and a page beyond the cap on
streams, whose EventSource gives up at the 503 (`ikigai-web/src/push.rs:474`).

## 8. Disagreements

What the code does and what its documents, comments or messages say differ in
the following places. Each is a property that its module states and that TLC
finds violated on the instance given. The two that lose or double what a person
did, `ViewIngest!NothingLost` and `DecideLinks!ActsOnce`, have a run of their own
and are in `PROJECT.json` under "findings". None of the properties of section 4
rests on what is said here.

- **`IpcDoor!DoorOutlivesStderr`**, four peers, one place. At
  `ikigai-ipc/src/lib.rs:1854`: answer_hello reports a client without the hello
  with eprintln!, and refuse_over_capacity calls it on the accept loop, so at a
  full door with a closed stderr that client's frame panics the loop;
  ikigai-ipc/src/accept.rs:23 says of that loop's lines "A diagnostic that
  cannot be written is lost; the door is not.".
- **`IpcDoor!RefusalTakesTwoReads`**, four peers, one place, frames of two
  pieces (`Reads = 2`). At `ikigai-ipc/src/lib.rs:792`: refuse_over_capacity
  sets a timeout on each read of the socket, and a frame is read as a length
  and then a payload, each in as many reads as its bytes arrive in;
  ikigai-ipc/src/lib.rs:543 says "the door is full it takes at most about two
  seconds per refused connection".
- **`Scheduler!ActiveIsAttached`**, four tasks, two workers. At
  `ikigai-scheduler/src/lib.rs:158`: spawn adds one to active on a task's first
  poll and subtracts it only after the task's future has returned, so tasks
  parked on a join are counted, and tasks that panicked or whose handle was
  dropped are counted for ever; ikigai-scheduler/src/lib.rs:224 says "Tasks
  currently running (attached to a worker).".
- **`QuicWire!AnswersLandFirst`**, as in `quic`, `Links = 4`. At
  `ikigai-quic/src/lib.rs:881`: answer waits for its reply to land only if the
  bound has already passed when it checks; a reply written just before the
  bound gives its permit back at once, the loop then breaks, takes every permit
  and closes, and a reply still in flight is cut, so a call that ran is
  reported lost; ikigai-quic/src/lib.rs:408 says "One race remains: a call the
  client opens in" the instant the door closes.
- **`TimeJobs!OneShotStillDue`**, as in `host`. At
  `ikigai-time/src/lib.rs:503`: schedule_inner starts the timer before it
  inserts the record, so a one-shot whose tick comes first finds no record and
  is never run, yet stays in the list with runs 0; ikigai-time/src/lib.rs:538
  says such a tick is benign, and that this "window never matters in practice".
- **`NamesLayer!Settles`**, two edits, `FairSpec`. At
  `ikigai-embedded/src/names.rs:230`: attach reads the file and attaches the
  watch afterwards, with no second read, so an edit between the two stays
  unbound until the next one; ikigai-embedded/src/names.rs:11 says the bindings
  are "rebuilt on every write and every out-of-band edit of the file"
  (startup_jobs.rs reloads once more after its watch is attached).
- **`PolledFile!NarrowsLive`**, grants, two edits, `Coarse = FALSE`,
  `FairSpec`. At `ikigai-cli/src/main.rs:2659`: the session is built from the
  grants file first and the poller's baseline mtime is read much later, after
  mounts and peers are dialled, so a narrowing saved in between is taken as
  already seen and never applied; ikigai-cli/src/main.rs:2513 says "A reload
  NARROWS live".
- **`PolledFile!Settles`**, routes, two edits, `Coarse = FALSE`, `FairSpec`.
  At `ikigai-cli/src/main.rs:5447`: the route table is loaded before the poller
  notes the file's mtime, so a version saved in between is never loaded;
  ikigai-cli/src/main.rs:5440 says "Hot-reload: poll the watched file's mtime;
  on change re-query".
- **`ViewIngest!NothingLost`**, run `ingest_overlap`. At
  `ikigai-view/src/lib.rs:550`: two passes at once read the same org file, the
  second write replaces the first one's headings, and both passes then drain
  their events, so an event is in neither place; ikigai-view/src/lib.rs:570
  says "Only after the org write landed: drain the inbox.".
- **`ViewIngest!NotesKept`**, one event, one note, one pass. At
  `ikigai-view/src/lib.rs:550`: the org file is read, extended in memory and
  written back whole, so an edit saved in between is lost;
  ikigai-view/src/lib.rs:490 says each event's heading is "APPENDED through the
  kernel".
- **`ViewIngest!NothingLost`**, one pass, an event whose uid is a prefix of
  another's (`PrefixOf`). At `ikigai-view/src/lib.rs:558`: the test for an
  already ingested event is a substring test for ":ID: <uid>", which the line
  of a longer uid satisfies, so an event whose uid is a prefix of an ingested
  one's gets no heading and is drained; ikigai-view/src/lib.rs:556 says "an ID
  already in the file was ingested by an earlier (possibly crashed) pass".
- **`ViewDerive!BurstNeverTrips`**, one event of two versions, `CHURN_LIMIT =
  5`, five edits. At `ikigai-view/src/lib.rs:636`: record counts every pass
  that changed something, so five passes in a row that each take up an edit,
  and each converge, trip the breaker until a restart;
  ikigai-view/src/lib.rs:626 says a legitimate burst "never trips; only
  sustained non-convergence does.".
- **`ViewDerive!OthersSync`**, two events, one in `Failing`, `FairSpec`. At
  `ikigai-view/src/lib.rs:860`: a failed request counts as churn, so one event
  that can never be written trips the breaker after five passes and no event is
  synced any more; ikigai-view/src/lib.rs:797 says the failure is reported
  "instead of wedging the whole view on one entry.".
- **`SyncTriggers!EveryChangeCut`**, two files, the org watcher. At
  `ikigai-embedded/src/lib.rs:7104`: the events received while the burst
  settles are discarded without cutting their files' threads;
  ikigai-embedded/src/lib.rs:7071 says "CUT FIRST, AND OUTSIDE THE DEBOUNCE.".
- **`SyncTriggers!InstantFreshness`**, two files, no timer, `FairSpec`. At
  `ikigai-embedded/src/lib.rs:7100`: an edit whose event arrives during a
  derivation, or within three seconds of its end, is dropped and waits for the
  timer; ikigai-embedded/src/lib.rs:7020 says of the watch "INSTANT freshness
  on top of the timer's heartbeat.".
- **`PushStream!TellsThePage`**, as in `freshness`, four cuts. At
  `ikigai-web/src/push.rs:492`: a page's first stream carries no Last-Event-ID
  and is not told to resync, so what was cut between the page's fetches and the
  stream's listener stays stale on the page while it reads its stream;
  ikigai-web/src/push.rs:1 says the stream "tells a page when something it
  shows was invalidated, so it re-fetches instead of polling" (lines 1-2).
- **`Passkey!WindowHolds`**, as in `edge`. At
  `ikigai-embedded/src/passkey.rs:1325`: a registration writes back the window
  it read, spent, over a window that urn:passkey:enroll-open has opened in
  another process meanwhile, so the new code, just printed, opens nothing;
  ikigai-embedded/src/passkey.rs:1009 says the endpoint "Opens a brief window
  during which one credential may register".
- **`Passkey!RemovalHolds`**, as in `edge`. At
  `ikigai-embedded/src/passkey.rs:930`: a gate that loaded the credentials
  before the file was removed writes them back when the counter advanced, so
  the gate is armed again; ikigai-embedded/src/passkey.rs:637 says "removing it
  un-enrolls".
- **`DecideLinks!ActsOnce`**, run `decide_twice`. At
  `ikigai-embedded/src/decide.rs:607`: a POST verified before the link expires
  claims it with the time it was verified at (record_once: without verifying it
  again), after another POST's claim, at a later time, has forgotten the first
  one's: the link is recorded twice; ikigai-embedded/src/prg.rs:13 says "The
  same signed link POSTed twice" "records its intent once".
- **`DecideLinks!AlreadyIsTrue`**, as in `decide_twice`. At
  `ikigai-embedded/src/decide.rs:609`: a POST that finds the link claimed is
  answered "already" while the POST that claimed it has still to drop its
  tuple, and that drop may fail; ikigai-embedded/src/decide.rs:522 tells the
  person "This link's decision was recorded before. Nothing more was done.".
- **`DecideLinks!RecordedActs`**, as in `decide_twice`. At
  `ikigai-embedded/src/decide.rs:763`: a decision recorded before its link
  expires and picked up after is refused, and nobody is told;
  ikigai-embedded/src/decide.rs:510 tells the person "the invitation goes out
  once your Mac picks this up".
- **`WebDoor!DiskWithinStore`**, the door of `edge`. At
  `ikigai-web/src/upload.rs:336`: the store's bound is asked of a spill only
  when it is complete, and a spill whose answer is still read counts no more,
  so the uploads in flight may have more on disk at once;
  ikigai-web/src/upload.rs:104 says the store's bound "is the most disk the
  door's uploads in flight may hold at once".
- **`WebWrites!LostUpdateGuard`**, one document, PUT only. At
  `ikigai-web/src/lib.rs:2014`: the precondition is checked by a read before
  the write and nothing holds the resource in between: two PUTs naming the same
  ETag both pass and the second overwrites what the first wrote;
  ikigai-web/src/lib.rs:2010 calls the check "a lost-update" "guard for Sink".
- **`WebWrites!DeleteIdempotent`**, one document, DELETE only, `TOMBSTONE_TTL = 2`, one
  tick. At `ikigai-web/src/lib.rs:2101`: a tombstone is left only when the
  DELETE that removed the resource gets as far as its own answer: not when its
  client hung up or its answer could not be gathered, nor yet when another
  DELETE asks in between, which is told 404; ikigai-web/README.md:312 says
  "`DELETE` is idempotent — a repeat of a delete that succeeded" "returns
  `204`".
- **`McpSession!AdmittedOnceAnswered`**, two calls, one place. At
  `ikigai-mcp/src/server.rs:1077`: a call's place is given back after its
  answer has been written and flushed, so the next call of a client that has
  read the answer may still be refused with SERVER_BUSY;
  ikigai-mcp/src/server.rs:971 says "Transient: the same call is admitted once
  one of the running calls has answered".
- **`McpSession!RepeatedIdUnderNull`**, one line of every shape. At
  `ikigai-mcp/src/server.rs:167`: a message that names `id` twice and is also
  invalid (no "jsonrpc": "2.0") is answered under the last of the two ids;
  ikigai-mcp/src/server.rs:164 says "a repeated `id` answers under `null`,
  since which id was meant is the ambiguity".
- **`McpTools!SelectorHonoured`**, the kernels of `mcp`. At
  `ikigai-mcp/src/lib.rs:518`: a calling shape with a single row (or with no
  dimension) is taken whatever the selector says, so a call with repo=y and a
  path is answered by repository x when only x binds the templated row;
  ikigai-mcp/src/server.rs:657 says "An argument no row can absorb, or a
  selector value naming no row, is a loud error — never a silent drop".
- **`McpTools!EveryRowReachable`**, the kernels of `mcp`. At
  `ikigai-mcp/src/lib.rs:522`: rows whose patterns differ in more than one
  segment get no selector and every call goes to the first;
  ikigai-mcp/src/lib.rs:236 says "every bound row must stay reachable by call".
- **`McpTools!NeverAnotherEndpoint`**, the kernels of `mcp`. At
  `ikigai-mcp/src/server.rs:810`: only a value with a delimiter of RFC 3986 in
  it, or an omitted binding, has the target checked; a plain value that
  completes the IRI of another binding is issued to that endpoint;
  ikigai-mcp/src/server.rs:757 says "what is refused is a call answered by an
  endpoint the tool does not name".
- **`McpTools!FurtherNameStable`**, the kernels of `mcp`. At
  `ikigai-mcp/src/server.rs:514`: a further contract's name is its own only
  while another contract precedes it: when that one's mount goes, it takes the
  plain name and the name it was listed under routes nowhere;
  ikigai-mcp/src/server.rs:466 says the name is "stable while the contract is".

- **`HostHealth!YoungIsNotStale`**, as in `host`. At
  `ikigai-embedded/src/lib.rs:3656`: a job that has not run is measured by the
  process's uptime, so one scheduled in a process already up for more than three
  of its intervals reads STALE until its first run;
  ikigai-embedded/src/lib.rs:3651 says "A job that has NEVER run is not yet
  stale".
- **`Discovery!FailureTold`**, as in `mcp`. At
  `ikigai-discovery/src/lib.rs:436`: the last failure is forgotten only by a
  register that succeeds, so a failure, a withdrawal and the same failure again
  is reported once; the announcer is silent although it announces nothing.
- **`Discovery!ListensFirst`**, as in `mcp`. At
  `ikigai-embedded/src/lib.rs:3973`: the first listing starts the browse and
  listens before it answers; a second one meanwhile finds the browse started and
  answers at once from a cache that may be empty;
  ikigai-embedded/src/lib.rs:3932 says that without the wait "a first call would
  report an empty network".

The following were met where a module abstracts, and are not properties of one.

- *Uploads.* An upload's plan, with the capability its spill is held under, is
  made with the route table of before its body, and `answer_admitted` matches
  the table of after it, so a table replaced in between may issue the Sink under
  another capability than "the capability its Sink is issued with"
  (`ikigai-web/src/upload.rs:23`).
- *Bytes read ahead.* Bytes of a next request that the HTTP library reads before
  the last of the answer is written are not remembered as a request begun, so
  such a request cut short is closed in silence, where `ikigai-web/src/h1.rs:17`
  says the door answers 408 "when a request had been started".
- *What a read varies on* (`ikigai-web/src/lib.rs:2114`). Under a route that pins
  its capability, `Vary` names the credentials only for a caller who has shown
  some: a copy kept of an anonymous read may be handed to a principal
  (`WebReadsAssumption` keeps a principal hook and a pinned route apart). Nor is
  Accept named when a resource declares exactly one face and does not give it.
- *Cookies on a read* (`ikigai-web/src/entity.rs:320`). The test is of the
  answer's expiry; an envelope whose own Cache-Control makes an `Always` read
  cacheable may set a cookie, where line 55 says "only on an answer no cache can
  hold".
- *`layer save`* (`ikigai-cli/src/layer.rs:571`) without --force looks once and
  renames later: a file made in between is replaced. `LayerFiles` takes the look
  and the rename as two steps and says what is lost.
- *Layer tokens* (`ikigai-cli/src/main.rs:4786`) are loaded, changed and saved
  with no lock, so a mint that overlaps a revocation puts the token back; and two
  saves share one `.json.partial` (`ikigai-embedded/src/tokens.rs:253`), where
  line 248 says "a reader never sees half a file".
- *A QUIC exchange with a body* (`ikigai-quic/src/stream.rs:867`) clears the
  stale mark before it reconnects; when that fails the mark stays cleared and the
  next exchange uses the connection that was in doubt.
- *Enrolled certificates.* `ikigai-quic/src/lib.rs:541` says "a list that does
  not read refuses the connection"; the list's builder
  (`ikigai-cli/src/quic.rs:229`) leaves out a directory or certificate that it
  cannot read. A session's authority is minted once a connection, where
  `ikigai-cli/src/main.rs:4527` says "an edit revokes on the next call": it does
  on the next connection. The minter reads clients.json and then the grants file,
  so that a session may mix two edits.
- *The p2p keypair* (`ikigai-p2p/src/transport.rs:700`): two first starts each
  generate one, and the second written is the one kept.
- *The logs* (`ikigai-embedded/src/jsonl.rs:76`). An append that is cut short
  leaves a line without its end, which the next record joins: an approval joined
  to the remains of a block blocks the person approved, and a cut inside a
  character makes the whole log read as empty. `IntakeDoor` has
  such cuts; its properties except who was named on a line so joined.
- *Client links* (`ikigai-intake/src/lib.rs:207`): "the raw token never reaches
  the tuple" does not hold of a record without an id, which goes by its token
  (line 397). An issue whose mail fails leaves a link in force that nobody was
  told.
- *The browse* of discovery, once it has failed to start, stays failed for the
  process's life.
- *The HTTP door's spill directory* (`ikigai-cli/src/main.rs:5584`) is opened,
  and emptied, before the port is bound: "two doors cannot both hold one port" is
  true, yet a second `serve --http` on the port of a running door removes that
  door's spills before it learns so. Two addresses of one port share a directory.
- *A job's age across a nap.* The two clocks of `urn:host:health` are read one
  after the other; a suspension or a set clock in between shifts the verdict.
- *Mounts.* A prefix for a preferred peer that is away falls to the local spaces,
  not to a less specific override of the same request, which
  `ikigai-embedded/src/lib.rs:5228` calls "remote wins"; two listings at once
  both dial, where `ikigai-cli/src/main.rs:3241` says "at most once per
  ENTRIES_REDIAL_AFTER".
- *The hello.* A server that is replaced or closes during it is diagnosed as one
  that "predates wire v6" (`ikigai-ipc/src/lib.rs:1056`); one replaced between
  the two dials of a downgrade leaves the link at the older version for its
  life.
- *The kill buffer* (`ikigai-cli/src/tui.rs:731`). What is killed is pushed to
  the clipboard when it differs from the last kill, and a yank takes the
  clipboard first: the same text killed again after another program's copy is
  not what Ctrl-Y gives, where line 162 says "The most recent killed/copied
  text". In Scratch the vi commands on a line (`vi_range`, line 901) act on the
  whole buffer. Down on a line just typed empties it (`recall`, line 1272).

## 9. What is not modelled

- *Drawing and argument parsing*: the terminal's screen, its completions and
  help, the command line's flags. `Terminal` has the session, its scripts and its
  buffers.
- *Settings read once at a start*: the ladders of sources for the scheduler, the
  uploads and the rate limits; the postures of sockets and tenants, which are a
  report frozen at the start. What they decide is a CONSTANT of the module that
  uses it.
- *Who may do what*: whether a capability grants a verb on an IRI is decided by
  the capability crate, outside the repository. The modules say under which
  capability a request is issued and treat its verdict as a relation.
- *The embedded composition*: which endpoint is bound where, the arrangement's
  reload and the store behind it. The endpoints' own work (time zones, mail,
  calendars, the people's filter of unwanted mail, what a layer's endpoints do)
  is a function of one request.
- *The spill directory of the REPL*, which has one user and one process; the HTTP
  door's is in `WebDoor` once it is open.
- *Text*: error pages, parsing and printing of IRIs, settings, dates and records,
  the wire's encodings. They are tested easily and have no order to get wrong;
  where a property turns on one (a substring test, a prefix), the module models
  what it does.
- *Cryptography*: a signature, certificate or token is valid or not.
- *p2p below a request*: the swarm's own dialling, its NAT traversal and its
  streams are the library's. `P2pPeer` has the calls, their answers and their
  failures.
- *The kernel*, TLS, QUIC's streams, the platform's file events, the HTTP parser
  and the passkey library are outside the repository: they appear as the choices
  that the code here has to be ready for, marked external in the map.

Two limits of the modelled parts. In `IpcBind` a probe of a live socket always
connects; on macOS a listener whose backlog is full refuses like a dead one, and
a start would then take its path, which the model does not show. In
`SourceLimit` a request is held up between the clock and the lock by at most
`Stall`; the budget is stated less that time.
