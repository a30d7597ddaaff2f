# flowcontrol in TLA+

flowcontrol keeps a graph of work (work packages, tasks, steps and the
dependencies between them) in one SQLite database per machine. A daemon serves it
to a terminal UI, a web UI and to agents, who all see the same graph change under
their hands. These modules model the store with its schema, its event log, its undo
and its idempotency ledger; the mutex and the transactions below it; the way a
database is opened; the two change streams; how the processes of a machine find one
daemon; and what the clients make of it all: agents that poll, page and retry, and
the boards of the two UIs.

## The system

| part | state it keeps | operations | talks to |
|---|---|---|---|
| `flowcore` schema (`migrations/0001_initial_schema.sql`) | tables projects, nodes, dependencies, verifications, events, idempotency; view node_state | triggers on hierarchy, cycles and `updated_at`; CHECKs; foreign keys with cascades | acts inside every statement of the store |
| `flowcore` store (`src/store.rs`) | none of its own: the database behind a session lock | 14 writes (projects, nodes, status, moves, dependencies, reports, verdicts, comments, undo), 9 reads | called by both daemons through `dispatch` or the typed methods |
| `flowcore` errors (`src/error.rs`) | none | makes a code of a message | both daemons, `flowwasm` |
| `flowcore` sql and db (`src/sql.rs`, `src/db/mod.rs`) | one connection, `user_version` | BEGIN / COMMIT / ROLLBACK around an operation, migration, dev fixture | SQLite |
| `flowd` (`src/store/mod.rs`, `src/store/watch.rs`, `src/grpc/mod.rs`) | a broadcast ring of 256, one task and one channel of 16 per stream | commit on a blocking thread, publish afterwards, Watch | gRPC clients |
| `flowdjs` Watch (`service.ts`, `bus.ts`) | a set of listeners, one queue per stream | dispatch and publish in one turn of the event loop, Watch as a generator | HTTP/2 clients, `flowwasm` |
| `flowdjs` session (`session.ts`, `index.ts`, `host.ts`) | a session file, a lock file, a port | elect one daemon per machine, take over from a dead one | other processes of the same user |
| `flowcli` (`internal/store`, `internal/ui`) | a cached snapshot, the board, one level of undo | commands that read and write, cascades of writes | a daemon |
| `flowui` (`src/lib`) | snapshot, connection, a timer | loads and refreshes that overlap, a poll that reconnects | a daemon or `flowwasm` in the page |
| `flowmcp` | the agent's poll cursor | tools that forward | a daemon |

An operation of the store holds the session lock from its first read to its last
and runs in one transaction, so writes at one daemon are serial. What is hard lies

- **in the length of histories**: many kinds of writes, each of which can be undone
  out of order, over tables that cascade into each other;
- **around the lock**: retries over a network, handlers that publish after it is
  released, callers that hang up, threads that panic with it, a COMMIT that fails, a second
  daemon on the same file;
- **between processes**: daemons that start at once, die with a lock or half-way
  through a migration, or take long to stop;
- **in the clients**: commands and calls that overlap and end in any order, over a
  connection that fails.

What makes each part correct:

- the schema: dependencies never close a circle, the hierarchy stays three deep, no
  row outlives what it names;
- the store: a node is not lost quietly, a reply names all that changed, a cursor is
  never handed out twice, undo gives back what was, a report and a verdict do not
  overwrite each other, a retry does not write again and is told the first answer,
  a refusal has a code that says why;
- the reads: a snapshot is of one moment, pages and polls neither miss nor repeat;
- the session: a request takes effect at one moment or not at all, what is
  acknowledged survives, nobody hangs;
- the streams: in order, without a gap that the client is not told of, and a change
  does arrive;
- the machine: the daemon that serves is the one that is found, with a whole schema;
- the boards: never older than an own write that was reported, never hung or
  disconnected for good, a task not done before the steps that were to be closed.

## The modules

The store:

| module | what it is |
|---|---|
| `FlowSchema` | rows, and as operators over tables what SQLite does by itself: triggers, CHECKs, cascades, the view |
| `FlowStore` | one action per write of `store.rs`, with its idempotency look-up, its refusals, its events and its reply |
| `FlowReads` | what `snapshot`, `poll_changes`, `list_events` and progress return, as functions of the tables |
| `FlowErrors` | which message a refused request ends with, in the order in which code, triggers and constraints come to be checked, what `classify` makes of it, and what each daemon makes of that |
| `FlowProperties` | the type invariant, the safety invariants and the action properties of the store |
| `WorkGraph` | abstract: items and a relation that never closes a circle |
| `EventLog` | abstract: numbered events, numbers never reused, events that may go but never change |
| `StoreRefines` | the store implements both |
| `StoreMC`, `SeedMC`, `ConcernsMC` | the store for TLC: from the empty database with every request; from the dev fixture (`SEED_SQL`); and from there with the requests of one concern |

Its clients:

| module | what it is |
|---|---|
| `AgentRetry` | an agent that repeats a write with one key over a transport that loses and delays, with other callers in between |
| `FlowUndo` | undo against the graph it ought to give back |
| `Readers` | an agent that polls from its cursor, a client that pages back through the history, while others write |
| `ClientsMC` | any one of these with the store |
| `FlowClaims` | a sentence of the repository that the store does not keep |

Below and around it:

| module | what it is |
|---|---|
| `SqlSession` | the way of a unary request: handler, blocking pool, mutex, ledger, BEGIN, statements, COMMIT, read-back, publish, answer, with what may fail at each |
| `AtomicStore` | abstract: a request takes effect at one moment or not at all, and a key is spent once |
| `SessionMC` | requests and daemons for `SqlSession` |
| `Startup` | opening, migrating and seeding, statement by statement, by any number of flowd and flowd.js processes |
| `Election` | `ensureDaemon` and the life of a daemon around session file, lock file and port |
| `Machine` | `Election` and `Startup`, one in each behaviour |
| `Watch` | flowd's change stream: handlers, ring, stream task, client. Extends `EventLog`, which the store implements, in place of the store |
| `WatchJs` | the same for flowdjs |
| `Streams` | a client at either daemon |

The boards:

| module | what it is |
|---|---|
| `CliBoard` | flowcli's cached snapshot with its lock, and the commands that read and drop it |
| `CliUndo` | status changes, cascades and the key u |
| `WebBoard` | flowui's loads, refreshes, retries and its reconnect timer |
| `Screens` | all three together, one in each behaviour |
| `ScreensMC` | the boards for TLC: one task has a step |

Proofs: `FlowStore_proofs` (with `FlowProperties` and `FlowErrors`), `Clients_proofs` (`ClientsMC`),
`WorkGraph_proofs`, `StoreRefines_proofs`, `SqlSession_proofs`, `Watch_proofs` (`Streams`),
`Machine_proofs`, `Screens_proofs`.

**How to read the correspondence.** A table is a function from primary key to row, so
that `DOMAIN nodes` is what exists. In `FlowStore` a write is one action, because of the lock and
the transaction (that this may be done is what `SqlSession` shows); its disjuncts are the
paths of the code, in the code's order: not found, answered from the ledger, refused by an
argument or by the schema, done. A refusal changes no table. `Commit` is what every write
ends with: `append_event`, `record_idempotency`, `finish_mutation`. Events keep of
their payload what undo reads. `reply` is the latest answer. Minted ids are never
minted again (UUIDs). Time is `now`, in seconds as `unixepoch()` counts. What an INSERT OR
IGNORE passes over and what a trigger aborts is kept. Abstracted: titles, descriptions, notes,
positions, authors, summaries and the full-text index. `wp_state` is there as far as its
CHECK can refuse an update.

In `SqlSession` what a write does is left out: it is in the file or it is not. `Faults`
names what may fail, so that a run or a theorem says which failures it is about. "commit"
and "commit stays open" are the two outcomes of a COMMIT that fails: SQLite has ended the
transaction (a full disk) or has not (a busy file); the `?` of `sql.rs:200` rolls back in neither.

In `Startup` a script is a number of statements, each a transaction of its own, that fail
when what they make is there. `past` remembers that a process died at it, or that flowd had
a hand in seeding.

In `Election` each await of `session.ts` is a step boundary. Time is left out: a deadline may
have passed whenever one is set, which the code's own numbers allow (a lock is stolen after 8
seconds, its holder may need more than 10).

In `Watch`, a write is two steps, `Commit` under the lock and `Publish` after it,
and the daemon can lose the second one (`Abandon`: the handler's future is dropped;
`Restart`). The ring is kept whole with the index where the receiver reads;
`Overrun` is where the real ring has overwritten that slot. `Slots` is the channel of
16 and the response that the task holds while the channel is full. The client is not
part of the repository: it takes a snapshot, watches from its cursor, moves the
cursor with every response that brings events, and starts again when told to
resync. `dropped` is a variable that the code does not have: changes that the daemon
gave up on, by `Abandon` or by a replay that could not be read. In `WatchJs`, dispatch and
publish are one step, as nothing is awaited between them, and the generator is suspended at
its yields until the transport wants more.

In `CliBoard` what a project contains is the number of writes it has seen; a command is a
goroutine whose steps are calls and lock operations. In `CliUndo` a command is its sequence
of requests. In `WebBoard` a step is the code between two awaits.

**Composition.** Some parts never share a variable: a poll and an undo of the same store, an
election and a migration, the boards of two programs. `ConcernsMC`, `ClientsMC`,
`Streams`, `Machine` and `Screens` choose at the start which part a behaviour is about and let
the others rest, which is the union of their behaviours and not a product that has nothing to
show. Parts that do act on each other (agent, other callers and store; handlers, ring, task and client;
doors, daemons and files) interleave in full.

## The runs

| run | bounds | shows |
|---|---|---|
| `store_all` | 3 nodes, 2 projects, 1 key, 3 events, from nothing | every request with every argument, in every order, replays and refusals included: a key buys one write, of which the ledger keeps the cursor; whatever is refused has a message whose code says why, and both daemons answer with the same status |
| `store_graph` | fixture and 2 new nodes, 3 further events; or reports, verdicts and edits with 2 ticks of the clock | whatever creates, moves, deletes, links and undoes: no circle, a sound hierarchy, no dangling row, deletes logged, replies complete; reports and verdicts independent and stale when they should be; the store implements `WorkGraph` and `EventLog` |
| `store_clients` | fixture and 1 new node, 3 further events, 3 sends, pages of 1 and 2 | one effect and one answer per key; undo gives the graph back; polls and pages neither miss nor repeat; no event means no change, edges within the project provided; a snapshot is of one moment |
| `watch` | 5 seqs, 2 handlers, ring 1, channel 2, replay 1, 1 stream at flowd, any number at flowdjs | no silent gap, in order, and a change or the word to resync arrives |
| `session` | 1 read, 2 retries of one write, 1 daemon; every fault but "commit stays open" | one moment, one write per key, nothing lost that was acknowledged, nothing seen that was not kept, every request answered |
| `session_open` | 1 read, 3 writes, 2 daemons; failing statements and both failing COMMITs, crashes | what failed does not turn up later |
| `machine` | 2 doors, 2 daemons, 1 signal each, doors and daemons that die, a user who starts one, slow probes; 4 openers of one file (2 of each daemon, one seeder each), 3 and 2 statements | the daemon that serves is the one that is found; every door gets through; nobody serves half a schema or half a fixture; opening fails only in company, and not everyone fails |
| `screens` | 2 commands or calls, 2 projects, 1 write each, 2 tasks and a step, 2 timers, lost requests and replies, a daemon that comes and goes | own writes stay in view; every command ends; u reverses; steps first; the page comes back |
| `claim_*` | as small as shows it | see Departures |

Why these bounds are enough to be interesting. Three nodes close a circle and four
an indirect one through a deleted and restored node; the fixture already has a
done task behind an open one. Three further events are create or link, delete, undo:
the long way round for every invariant. In the streams a ring of one slot overruns with two commits, a
replay limit of one is passed with two events, and two handlers are what it takes to
publish in the wrong order. Two retries and a reader are what it takes to get between look-up and
COMMIT, and to see what is inside a transaction. Two doors are needed for a steal, and the second
daemon for a successor. A script of three statements has a first, a middle and a last. Two commands are
a write and a fetch that overlap. Every property of these runs is also known to fail there when the
code is changed in one place, as a plausible bug would.

`MaxSeq`, `MaxClock`, `MaxSends`, `MaxOpens`, `Handlers`, `Seqs`, `MaxRev`, `MaxSignals`,
`PollDefault`, `RecentLimit`, `Statements`, `Inserts`, `Ops` and `Timers` are
bounds of the models (seqs are 64 bits wide, which nothing here gets near). `MaxSignals = 1` says that a
daemon is told to stop once; what a second signal does is under Departures. The views leave out the latest
reply, on which no later step depends.

`CHECK_DEADLOCK FALSE` is set where things really stop: an agent that has its answer
(`store_clients`), requests that are all answered (`session`, `session_open`, `claim_commit`), doors and
daemons that are through (`machine`), a board on which nothing more can be written within the bounds
(`screens`).

**Fairness.** Each assumption is one that the schedulers give.

- `FairWatch`: handlers publish, the task replays and the client reads (weak: the tasks of a running
  executor are polled when they can go on). `Receive` and `FallBehind` are strong: `select!` picks among the
  branches that are ready at random, and heartbeats, which take slots of the channel, make the guards come
  and go. Nothing is assumed of commits, connections or restarts.
- `FairJs`: the event loop runs the generator when the transport asks, and the client reads (weak).
- `FairSessionSpec`: a thread or a task that can go on does (weak, per request). A request is made once,
  so nobody is passed over at the mutex for ever.
- `FairElection`: event loops turn (weak), and a poll gives up some day (strong: its deadline passes
  although it is off waiting between the tries).
- `FairStartup`: a process that is opening the file goes on with it (weak). Nobody need start.
- `FairBoard`: calls are answered or fail (weak); the lock is strong, as Go's `sync.Mutex` hands itself over
  to whoever has waited for a millisecond.
- `FairWeb`: calls end and timers fire (weak). Nothing is assumed of the daemon or the user.

## Departures from the documentation

Four are shown by runs, each a counterexample of a property that quotes the sentence:

- `claim_watch`: two handlers of flowd publish in the other order than they
  committed. A client that has the later one when its stream breaks reconnects from the
  later seq and never gets the earlier change, against "gets everything after it"
  (`0001_initial_schema.sql:208-210`).
- `claim_js`: flowdjs adds its listener after the yield of the replay. A write that
  is served while the generator is suspended there is neither replayed nor queued;
  flowd subscribes first.
- `claim_retry`: a delete looks for the node before it looks for the key, so the
  retry of a delete that got through is an error, against `0001_initial_schema.sql:306`.
- `claim_commit`: the `?` on COMMIT leaves without a ROLLBACK, and a connection that SQLite has left in
  its transaction answers every later write with an error, against `sql.rs:189` "commit on `Ok`, roll back on
  `Err`".

The following were met while modelling and are kept as the code has them. Where a property would not
hold because of one, the property, the faults of the run or an assumption of the theorem says what is set aside.

*Store.* An edge may join two projects, though `flow.proto:122` says never, and a node may be
created under a parent elsewhere (only a move is checked); a status then changes
without an event in its own project, against `reads.ts:116` "No events = nothing changed".
`poll_changes` is told to start from "the highest seq you have seen (from get_project or any write)"
(`reads.ts:115`); from the seq of an own write it skips what others wrote before that. Adding an edge
that is there, or removing one that is not, is logged like a change, so that its undo makes one
(`concepts.md:56`). `fail_if_referenced` looks at the named node's edges, and the cascade takes those
of everything below it (`flow.proto:433`). The events of a deleted node go with it. The reply to an undo does
not name the node whose status it sets. A report stays trusted through a change within the same second.
`DEFERRED` is not inherited from an ancestor (`flow.proto:56`).

*Errors.* A project that is not there is found out by a constraint in some operations and is Internal
instead of NotFound (`error.rs:22`); so is an undo of the event of an undone dependency
change, which `error.rs:25-26` calls a failed precondition, and an FTS query with an open quote or
a hyphen, which `error.rs:24` lists under InvalidArgument.

*Session and start.* Two daemons on one file can both miss a key and both write (`flow.proto:371`). A snapshot of an
empty database has cursor 0, which a Watch takes for "from now on" (`flow.proto:272`). A process that dies
between two statements of the migration leaves a file that no later start can open
(`db/mod.rs:67`). flowd with `--seed` fails on its second start (`main.rs:43`).

*Machine.* A second signal to a daemon that drains its streams removes its successor's session file
(`index.ts:67`). A lock can be stolen from a holder who is still waiting for its daemon, who later
removes the thief's (`session.ts:150`). A daemon started after one that was told to stop makes up a new
token (`index.ts:7`).

*Boards.* flowcli shows the cached board of one project under the name of another (`grpc.go:82`); a refresh
may combine reads of two moments when another command drops the snapshot in between (`grpc.go:84`); a write
whose reply is lost stays out of the next refresh (`grpc.go:84-85`). u does not bring back a deleted leaf
(`update.go:626`), nor the steps that a cascade closed (`cascade.go:165`), and may overtake the change it is
for. The prompt says "[y/N]" and a comment "N is the default" (`cascade.go:107`), while Enter closes the steps. flowui
shows the project whose load ends last (`state.svelte.ts:227`), and can have two polls at a time
(`state.svelte.ts:164`).

## Proofs

TLC looks at the instances above. What follows holds for every number of nodes,
projects, keys, events, handlers, requests, daemons, doors, statements, commands, tasks and timers, and
for every size of ring, channel, replay and page. Every invariant and every action property of the passing
runs is stated by a theorem; what stays with TLC is what must eventually happen.

The proofs rest on the named assumptions of the modules, which TLC evaluates on every run:

- `SchemaAssumption`: ids are apart from their null values, node ids from project ids (`new_id` gives them
  different prefixes), and node ids are finitely many;
- `ImageAssumption`: the null value of images is none of them;
- `StoreAssumption`, `ReadsAssumption`: the bounds are naturals, and the limits of a read at least 1;
- `SeedAssumption`: the ids of the fixture are different ids, and there is room for its one event;
- `WatchAssumption`: sizes are at least 1, and `Seqs` is an initial part of the naturals, which may be all of them;
- `SessionAssumption`, `ElectionAssumption`, `StartupAssumption`, `BoardAssumption`, `ScreensAssumption`: actors are
  apart from the null values and from each other, sizes are naturals, a board has finitely many steps,
  and `Faults` names faults that exist.

| theorem | module | says | further assumption |
|---|---|---|---|
| `TypeCorrect` | `FlowStore_proofs` | the tables hold rows of the schema | |
| `StoreInvariant` | `FlowStore_proofs` | the inductive invariant of the store, on which the next ones rest | |
| `TablesStaySound` | `FlowStore_proofs` | three levels, parents that are there, nothing that names what is gone | |
| `LedgerIsKept` | `FlowStore_proofs` | a key buys one write, and its entry has a cursor of its own | |
| `ChangesReachCallers` | `FlowStore_proofs` | no node goes without an event, and a reply names every node whose status changed | |
| `ReviewsHold` | `FlowStore_proofs` | reports and verdicts leave each other alone, and a later write makes a report stale | |
| `CallersAreTold` | `FlowStore_proofs` | what is refused has a message, what is written none, and both daemons make the same status of it | |
| `NeverCircular` | `WorkGraph_proofs` | the abstract graph never closes a circle | |
| `RefinesWorkGraph`, `RefinesEventLog` | `StoreRefines_proofs` | the store implements both abstract specifications | |
| `NobodyWaitsInACircle` | `StoreRefines_proofs` | no set of nodes waits on itself | |
| `RetriesTakeEffectOnce` | `Clients_proofs` | one effect and one answer, however often an agent sends | there is a key |
| `ReadersMissNothing`, `ReadersHearOnce` | `Clients_proofs` | polls and pages neither miss nor repeat | the same |
| `SnapshotsAreOfOneMoment` | `Clients_proofs` | a cursor is that of the newest commit, and progress what a client would count | the same |
| `NoNewsIsTrue` | `Clients_proofs` | nothing to poll means that nothing changed | the same |
| `UndoGivesGraphBack` | `Clients_proofs` | undo of the latest write restores status, hierarchy and edges | the same |
| `WatchTypes`, `NoSilentGap` | `Watch_proofs` | a channel within its capacity; a stream of flowd lacks no change it does not own up to | |
| `JsStreamsAreWhole` | `Watch_proofs` | a stream of flowd.js is in order, without repeats, and complete once its listener is there | |
| `SessionTypes`, `FailedStaysFailed` | `SqlSession_proofs` | who holds the session is in it; what failed stays failed | |
| `AcknowledgedSurvives`, `NothingElseIsSeen` | `SqlSession_proofs` | what was acknowledged is in the file; reads see nothing else | no COMMIT stays open |
| `RefinesAtomicStore` | `SqlSession_proofs` | the steps of a request implement one atomic step | the same, and one daemon |
| `ServerIsFound` | `Machine_proofs` | the daemon that serves is in the session file | one signal per daemon |
| `WholeSchemaServed`, `WholeFixtureServed` | `Machine_proofs` | nobody serves half a schema; flowd.js does not serve half a fixture | for the fixture, flowd has not seeded |
| `FailsWhenOvertaken` | `Machine_proofs` | opening fails only when somebody else is at the file or has been through | nobody has died at it |
| `MachineTypes` | `Machine_proofs` | types of election and start | |
| `CacheKeepsUp`, `RefreshesAreFresh` | `Screens_proofs` | the cache and what a command hands over have every own write that was reported | |
| `ReadsGoForward` | `Screens_proofs` | a command reads the parts of its board in the order of history | |
| `UndoGivesBack` | `Screens_proofs` | u gives every status back, if one change was all that happened | |
| `StepsCloseFirst` | `Screens_proofs` | a cascade closes the steps before the task | |
| `PageIsPolled` | `Screens_proofs` | a page that is disconnected has a poll under way or about to start | |
| `ScreensTypes` | `Screens_proofs` | types of the three boards | |

The assumption on the fixture and on deaths is part of the property itself, as it is in the run.

**Types of the store.** `TypeOK` is inductive as it stands. Lemmas say what inserts,
updates and cascades make of a table; one lemma per request carries them
through `Commit`, where an event is appended and a key recorded.

**The store.** `TablesAreSound` is not inductive: an undo writes rows back from the log, so that what the log holds has
to be as sound as the tables. `StoreInv` has in addition that nodes that are there or can come back were
minted once (`IdsAreMinted`), without which `create_node` might give a node the id of one that is to be restored;
that events have numbers that were given out (`LogIsNumbered`); and what an entry of the ledger names, also
if its node comes back from an image (`EntriesFit`). There are fourteen requests and many properties, so that each request is
looked at once: its lemma says that it is an `Effect`, which is nothing, a write of a project (`Filed`) or
a `Commit` of which eight things are known (`Wrote`): which events stay, where its nodes come from,
what it counts as deleted, whose status it reports, what it does to verifications. Each
theorem then follows from `Effect` and not from the requests. `Spec` starts with empty tables; that the fixture satisfies `StoreInv`
as well is the base of the proofs about clients. The undo is the long lemma, with one part per kind of event.

**Refusals.** `CallersAreTold` needs, for every request and every argument it may have (`Fits`), that its
action succeeds exactly where `Message` finds nothing to complain about: the code's early returns on the one side and the
order of checks, triggers and constraints on the other. `StoreInv` is needed where the two look at different rows
to find the same: the level of a parent that the hierarchy fixes, the one event that an undo can mean. The
statuses agree because `classify` knows every message (`ClassifyGivesCode`).

**Clients.** All run from the fixture, whose `ClientsInv` adds to `StoreInv` that the newest event is still there. For *retries*
(`RetryInv`), the ledger is empty until the request has taken effect and has exactly its entry from then on, under the seq of
the effect; an early return before the look-up is excluded because every node belongs to the one project that the
ledger is asked for. For *polls and pages* (`PollInv`, `PagerInv`), what lies behind a reader stays behind: the log grows at its end,
and what is missing of the past is still ahead of the pager. For *no news*, every id ever minted has a
project for good, and its parents, edges and events keep to it (`Homed`, `Linked`); with that, a write is
`Confined` to the nodes of one project, and a change of the picture logs an event there that is followed only by events
that are themselves news (`NewsInv`). This is where the run's assumption on the others' writes is used: an edge between two
projects breaks `Linked`. For *undo*, what is remembered is a graph which the newest event describes
(`PriorInv`, `Describes`): the status before, the pair, the row. A write makes it so, and its inverse gets there from
the description alone.

**No circular wait.** Proved once, on the abstract graph. `GraphInv` adds to the
absence of circles that the relation joins items that exist, without which an
item that is added could close a circle. The step that matters is a new link:
if a set S waited on itself after it, then S with all that lies downstream of the
blocked item would have done so before, and the cycle trigger's walk is just
the set that shows it does not. The store then only has to be shown to take the abstract
steps, one lemma per request: it adds a node, drops a set of them with what touches it,
links, unlinks or leaves the graph alone. In particular an undo that brings an edge back
links like a request does. `NobodyWaitsInACircle` follows from the two.

**The event log.** `Commit` takes the next number, so that numbers of deleted events are
not used again, and every other change of the table `events` is a cascade, which removes
rows and rewrites none. `Watch` and `WatchJs` start from the module that this justifies.

**No silent gap.** `StreamHasNoGap` says that a change later than a stream's starting point
was delivered, or is on its way, or the client will be told to resync, or was dropped by
the daemon. Whether a change that was committed is still ahead of the task depends on where the
task stands. `WatchInv` adds to it, as `WatchShape`, that the log still has its newest event, so that a cursor is
positive once anything was committed; that mutations name events of the log; that a
task that has not replayed yet has put nothing into its channel and has a cursor to
replay from; and that the receiver is at most one past the end of the ring. With these each
step of handler, task and client moves a change from one of the places to
the next, or sets the flag.

**The stream of flowd.js.** What waits for the client, on the wire or in the queue, ascends and lies above its cursor (`Ascends`), so that
taking the first response leaves that true of the rest; a listener is added with all its changes still to come, and
dispatch adds to the queue in the step that commits, so that nothing can fall between the two (`LiveHasNoGap`).
A stream that has not started has sent nothing (`JsShape`), which makes the replay the first thing on it.

**One atomic step.** In three layers, which need ever stronger assumptions. `SessionInv`, with every fault: the
request that is in the session holds the mutex, and only what a transaction has written is pending in
it. From it follows that a write that failed is pending nowhere where it could still be
committed (`FailedStaysFailed`). `TruthInv`, without a COMMIT that stays open: nothing is pending on a connection but
what the request has written that is about to commit, so that a reader sees the file and nothing else, and
an outcome "ok" or "replay" speaks for rows of the file. `OneInv`, with one daemon: from the look-up that missed its key
to the COMMIT the key is unspent. The
refinement maps COMMIT to the abstract step and everything else to an answer or a stutter; without
the last assumption it is false (two daemons, under Departures).

**The server is found.** `ServingIsFound` breaks if a daemon that is on its way out can clear the file that its
successor has written. `FoundInv` says that whoever is bound or serves has the port, so that it does so alone; that
whoever serves wrote the session file last; and that whoever drains has had a signal, and so, with one
signal, has cleared the file for the last time.

**Whole schema, whole fixture.** A process that migrates is at most one statement ahead of the file and fails on a
statement that another has run before it. So of those that migrate at the same time only one comes to the end of the script
(`FileInv`, by the step of the last statement), and until the version is recorded that one alone seeds: flowd.js records it after the last
insert, and nobody can find the version before. `Opening` says where each process stands relative to the file. For
`FailsWhenOvertaken` somebody must be to blame: as long as nobody dies there is one process that `Leads`, whose next
statement is the first that the file lacks, and it is not the one that fails.

**The cache keeps up.** `LockInv` says that whoever holds the lock is reading, `CacheInv` that what is
cached, or has been read for the holder, is not older than any write reported for its project,
and `WriteInv` that a command that reads has had its own write reported and has read nothing older.
The step that matters is `Invalidate`, which waits for the lock: an answer read before the write can arrive after
it, but not be kept. `ForwardInv`, for the order of the reads, adds that what is cached or on its way is not
older than what *any* command has read, which the lock around question and answer keeps.

**The key u.** `SyncInv` says that where the list differs from the daemon, a command is under way that will refresh it whatever fails, so
that the status u remembers is the one the daemon had. `HistoryInv` follows the one change through its four stages: asked for, made, asked
back, given back. `ClosesInv` says that a step which a cascade closes is closed, or comes before the subject in the list of
requests; a failure ends the cascade.

**The poll.** `WebInv` says that the handle is that of a timer that has not fired, that timers make no calls but
the poll's, and that a page which is disconnected has a timer, a tick or a retry under way. Each call that ends, with or
without success, either sets the connection right or leaves another of these.

Only model-checked: everything in time (`ChangesArrive`, `EveryRequestIsAnswered`, `DoorsGetThrough`,
`SomebodyServes`, `CommandsEnd`, and the half of `StaysReachable` that says the page does come back), as fairness is out
of the prover's reach; and the four departures, which are counterexamples.

## Not modelled

- `flowdjs`: the token guard and the CORS headers of `server.ts`, static files, the UI launcher, and the
  bridge in `host.ts` that passes statements on. They keep no state a rule depends on.
- `flowd`: the draining of its HTTP server at shutdown, which is axum's.
- `flowwasm`: the encoding of rows and arguments (the code of an error is in `FlowErrors`).
- `flowui`: its writes, its one level of undo (as in `CliUndo`), components, and the derived layout of the graph.
- `flowcli`: the in-memory store of the demo, the landing screen, forms, and which dependents a cascade preview lists.
- `flowmcp`: tool descriptions and presentation. The cursor an agent keeps is in `Readers`, its retries in `AgentRetry`.
- full-text search, which changes nothing; its index follows the rows by triggers that no rule reads.
- proto and generated code: the contract, quoted where the code departs from it.

What could be done next: `WatchJs` and `Watch` against one abstract stream, which would state what a client may
rely on at either daemon; the writes of `flowui`; and, for the liveness properties, measures whose decrease is an action property.
