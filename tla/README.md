# mcp-wrapper-rs in TLA+

`mcp-wrapper-rs` sits between MCP clients and one stdio MCP backend process. It
answers the discovery lists from a cache, passes everything else through, and
restarts the backend when it dies. In daemon mode one broker process shares one
backend and one cache among many client sessions. This directory specifies the
concurrent core of that program, checks it with TLC, and proves the central
safety properties with TLAPS for every number of sessions, calls and processes.

    tlc -workers 2 -config BrokerPeers.cfg MCBrokerPeers     # one run
    tlapm BrokerPeersProofs.tla                              # one proof module

`PROJECT.json` lists the components, the runs, the faults each property detects,
the source lines of every definition, the hazards and the theorems.

## 1. The system

| Component | Source | State | Operations | Hard because |
|---|---|---|---|---|
| Request lifetime index | `lifetime.rs` | rows by (session, raw id), reverse index by backend id, index by progress token, the two tables of peer requests | admit, bind, remove, cancel from both ends, insert / take / clear peer requests | five maps that must agree; tokens are not scoped by session; rows carry no generation |
| Backend channel | `backend_manager.rs` (`Backend`) | pending senders, tombstones, closed flag, pipes, progress acknowledgements, event queue | send with and without timeout, cancel, read a line, deliver, end of file | timeout, answer, cancellation and exit contend for one sender; answers must not overtake progress |
| Backend slot | `backend_manager.rs` (`BackendSlot`) | the process, the generation, the cooldown | ensure, restart, stop, empty after a failure | process starts run outside the lock and overlap |
| Broker | `broker_manager.rs` | sessions and their queues, `pass_through_lock`, one task per call, the fan-out task | admit, call, cancel, control, relay in both directions, half-close | five kinds of tasks share the index and the slot |
| Discovery cache | `mcp_manager.rs` | one snapshot: rows, generation, epoch; a refresh lock | refresh all, refresh the keys of a notification | a refresh awaits several queries while the backend is replaced |
| Daemon start-up | `daemon_manager.rs`, start and end of `broker_main` | socket, pid, metadata and lock file | start, attach, stop, restart | processes that share only files; crashes leave files behind |
| Normal-mode runtime | `runtime_manager.rs` | the same index, slot and cache for one stdio client; a count of calls; an idle reaper | the same for one session | one loop reads lines, consumes events and waits for refreshes |
| Event plane, JSON-RPC classification | `event_plane.rs`, `mcp_interface.rs` | none | the mount table and its look-ups; reading a line | the first match wins; half-read lines |
| Wrapper tool | `tools/` | none | refresh, restart, stop, status as a tool call | a second door to the same gate |
| Admin CLI, logging, timeouts | `admin_cli.rs`, `cli.rs`, `logging.rs`, `timeouts.rs` | none | arguments, printing, constants | - |

A client line is read by the loop of its session (`handle_session`). A
pass-through request is *admitted* (a row), and a spawned task takes
`pass_through_lock`, ensures a backend, *binds* the row to the backend id it
drew, registers a sender with the channel, waits, removes the row, and puts the
answer into the session's queue, which the session loop writes out. Meanwhile
other session loops may cancel the row or stop and restart the backend, and the
fan-out task consumes the backend's progress, cancellations, requests and
`list_changed` notifications; each of the latter starts a task that refreshes the
cache. The tasks meet in the index, the slot's lock, the refresh lock and the
queues only. In normal mode one loop does what session loops and fan-out task do
in the daemon, and counts the calls itself.

What makes each part correct:

- index: reverse entries exist exactly for bound rows; progress goes to a live
  request that asked for it, and the end of one request leaves the others' routes;
- channel: every caller is woken, once; an id is awaited or suppressed, never
  both; progress first, then the answer; a call ends with its timeout or with
  the process;
- broker: one call at a time is at the backend; every call ends with an answer
  or a cancellation, takes its row along and drops the lock, provided that
  backends answer or a timeout is set; a failure never kills a process that works; a
  session that was half-closed goes away, and not while it has a row;
- slot and cache: all-or-nothing commits of rows of one process, of the
  generation in the slot;
- requests of the backend: they go to the session of the one bound row, their own
  rows are there before the client can answer and end with the process that asked,
  and the client's answer finds its way back;
- normal mode: every line is handled, every call accounted for, nobody kills the
  backend under a call that was counted, the loop always comes back, and a client
  that has gone does not keep a backend, on the same condition;
- daemon: one broker per command, reachable through its files.

## 2. Modules

Constants carry named assumptions in the module that declares them. Bounds
(`MaxGens`, `MaxSpawns`, `MaxProgress`, `MaxStray`, `MaxContent`, `MaxBrokers`,
`MaxCrashes`) are constants used in guards. In BrokerCalls, BrokerPeers and
NormalRuntime the bound is `Scripts`: a behaviour takes one script, a set of inputs
that may arrive once each, in any order and at any time, besides the calls. Some of
these inputs are conditions: with `"deadline"` among them a request timeout is set
(`Timed`; `MCP_TIMEOUT` is unset by default, `timeouts.rs:36`), with `"reap"` the idle
reaper is there, and with `"drain"` the pipe to a process is full until that comes. No
module declares a RECURSIVE operator.

**RequestLifetime** is `lifetime.rs`. A map of the code is a function with `None`
(or `Absent`: no row) as default: `backendOf` and `tokenOf` are the rows,
`clientByBackend` and `clientByToken` the reverse indexes, `peerToken` and
`peerByToken` the peer requests. One action per method: `Admit`, `Bind`,
`Remove` (removal, timeout and client cancellation have the same effect),
`RemoveByBackend`, `InsertPeer`, `TakePeer`, `ClearPeers`. `LifetimeNext` binds
only fresh backend ids: this is the obligation of the caller, which BrokerCalls
discharges.

**BackendChannel** is one process and the channel to it: the callers
(`Register`, `Write`, `Receive`, `Expire`, `MarkExpired`, ...), the cancellations
(`TakeSender` and `WriteCancel` of `cancel_pending_request`, `BackendCancel` of
`discard_pending_response`), the stdout reader (`ReadResponse`, `ReadProgress`,
`ReadEof`), the delivery tasks with the acknowledgements they wait for (`Deliver`),
the consumer of the events, and the process itself (external: it may answer
late, twice or never, and exit at any time). Whatever the code does under one
hold of the pending lock is one action.

**ChannelService** is the abstract specification of the channel: a request ends once,
by its answer, its deadline, a cancellation or the end of the process, and who comes
second changes nothing; once the answer is taken only the deadline can still
overtake it; the id of a request is silenced exactly when the request is given up,
and until its late answer has come. BackendChannel implements it
(`ChannelServiceSpec`): `Outcomes` reads what became of a request off the place of its
caller and its reply, and a call counts as given up when its timer fires, one step
before the code sets its tombstone (`Silenced`). The broker's own, coarser use of the
channel to each process is held against the same specification
(`ChannelsUsedAsPromised`), so the two models meet in it.

**BackendSlot** is `BackendSlot`: the steps of `ensure` (the broker's look, its
own look, the number, the attempts, the installation, the cooldown), of
`restart` (start, take and kill, install or fail) and `stop`, each step one hold
of the slot's lock, with process starts (`Spawn`, `Handshake`) in between.

**DiscoveryCache** extends BackendSlot with `refresh_keys` (`Lock`, `Live`,
`Base`, one `Query` per list, `CheckCurrent`, `Commit`) and its callers. The cache is
locked from `CheckCurrent`, which compares generation and epoch, to `Commit`, which
writes the rows; the slot is not, so the generation may move in between. A row records the
process it was read from; `tagOf` and `overwritten` are history variables for the
properties. **DiscoverySnapshot** is the abstract specification: one
variable `cache`, replaced in one step by rows that one process gave for a
selection of lists, with an epoch that names the content. DiscoveryCache
implements it with `cache` as itself (`SnapshotSpec`).

**BrokerCalls** extends RequestLifetime with the tasks of `broker_manager.rs`: the
task of a call (`Acquire` to `Respond` or `Report`), the fan-out task
(`TakeProgress`, `TakeCancel`, `TranslateCancel`, `DiscardCancelled`), the session
loops (`Request`, `CancelLine`, `ControlLine`, `WriteOut`, `CheckClosed`, ...) and
the backends. A step is the code between two awaits at which others can get in.
The channel appears as what ChannelService says of it, one for each process
(`Channel(g)`), the slot as installed or emptied in one step. Sending is two steps, as
in `send_request`: `Register` puts the sender into the map, `Write` waits with
`pass_through_lock` in hand until the pipe takes the line, and no timer runs before
that. A process may have its pipe full from the start, or stop reading and go on later
(`Jammed`, `Jam`, `Drain`); cancellations and answers that are written to a process wait for room
in the same way (`TellBackend`, `RefuseAsk`, `RemoveRow` after a timeout). A task whose sender was taken
while it writes is `"disowned"` and learns of it after the write. Each progress event
carries who waits for its acknowledgement (`ack`): the reader, from the answer on the
delivery task of that answer, or nobody. `owner` and `history` are history variables for the
properties. A session's outbox keeps which calls have an answer in it; all
notifications are one value `"notice"`, since they matter only as wake-ups of a
half-closed loop. An answer put into the queue of a session whose loop has left is
`"lost"` (`Listens`), and `history.left` keeps the calls that were left behind: those
between row and answer when a half-closed loop leaves, and those of a client that is
gone.

**BrokerPeers** extends BrokerCalls with the requests of the backend:
`forward_peer_request` (`TakeAsk` chooses the session of the row that is bound when the
fan-out consumes the event, whatever its process worked on when it asked; `InsertAsk`
and `SendAsk` are its two awaits, `RefuseAsk` the error where no row is bound), the client's answer (`ReadAnswer`,
`ForwardAnswer`), the end of a process as an event of its own (`SendExit`,
`TakeExit`), which clears the peer tables. A cancellation that matches no call
falls through to the peer request of that id (`CancelPeer`, in BrokerCalls). All
of it shares the index, the queue of events, the fan-out task and the session
loops with the calls, so the run checks the broker as a whole.

**CallService** is the abstract specification of what daemon and normal mode promise for
pass-through calls: a call is unsent, pending, then answered or dropped, once; one
call is served at a time; only a forfeited call is dropped. BrokerCalls and
NormalRuntime both implement it (`CallServiceSpec`): `Stages` reads the stage of a call
off its place, its reply and its row: answered is a call whose answer a session has taken,
and an answer nobody takes leaves its call dropped. The served call is the holder of the
lock, and `Forfeited` are the cancelled calls and, in the broker, those that were left
behind - all calls once somebody has asked for a restart
(broker) or a restart has put in another process (normal mode), because a
cancellation that knows one process may then hit the call with the same number in the
other.

**EventPlane** is the mount table of `event_plane.rs` and its look-ups as
operators; entries of one shape are one entry with a set of methods.
**WrapperTool** is the checking of the arguments of `mcp.wrapper`.

**NormalRuntime** is `runtime_manager.rs`. The loop has one action per branch of
its `select!` and per handler, split where a handler awaits something another task
can change (`loop` names the place); the call tasks are those of the broker with
the differences the code has: the row is made after the lock is taken, the call is
counted from its dispatch (`Active`), every way out answers before it drops the
count. `ReapDecide` and `ReapTake` are the two halves of the idle reaper, `JobEnds`
the task of a list_changed notification. A refresh is asked (`asking`), its answer
taken by the reader together with the acknowledgements of the progress before it
(`RefreshAnswered`), and ended by delivery, failure or the deadline
(`RefreshEnds`). Where a line goes is computed by EventPlane and WrapperTool from
what the line says, so the table is checked in the runtime that uses it. `half` is
what `read_line` holds when it has read a part of a line.

**DaemonStartup** is `connect_or_start_broker`, `connect_existing_broker`,
`stop_broker` and `restart_broker` on the wrappers' side, start and clean-up of
`broker_main` on the broker's. A file is the broker that made it; each system call
another process can notice is one action. A wrapper that stops a broker keeps
the pid it has signalled and kills that one (`Stopping`), whatever the pid file says by
then. `Crash` ends a broker without clean-up.

`MC*` modules instantiate these for TLC; `*Proofs` modules hold the theorems.
Definitions introduced by a comment `Slip:` are faulty variants of the
definition that follows; nothing in the models uses them. Each shows that one of
the properties detects a fault of that kind.

## 3. Runs

| Run | Instance | Shows | distinct states |
|---|---|---|---|
| BackendChannel | 1 timed and 1 untimed call, pipe of 3, 1 progress, 1 stray answer, fairness | ChannelTypeOK, NoLostWaiter, MapExclusive, LateAnswerAbsorbed, ProgressBeforeAnswer, ChannelServiceSpec, ExitReleasesCallers, TimeoutBoundsCall | 232 803 |
| BrokerPeers | 2 sessions, 1 call each under the same raw id and token, 2 processes, timeouts, 2 requests of the backend under that id, 8 scripts | BrokerTypeOK, OneBoundRow, NoOrphanRow, HealthyBackendKept, NoticeEndsItsCall, PeerRowsEndWithProcess, AnswerFindsItsRow, BackendIndexExact, TokenIndexSound, PeerIndexSound, LifetimeSpec, RouteOutlivesOthers | 1 729 671 |
| BrokerEnds | the calls alone, with leaving clients, cancellations, a stop, a restart, dying processes and full pipes, with a timeout and without, 9 scripts, fairness | SleeperIsWoken, CallServiceSpec, ChannelsUsedAsPromised, AdmittedCallEnds, HalfClosedSessionEnds | 75 167 |
| NormalRuntime | 2 calls, 12 other lines, 5 messages of the backend, 2 processes, with a timeout and without, 12 scripts, fairness | NormalTypeOK, OldCallsSpared, DrainedAtExit, BackendSeesOnlyItsOwn, LifetimeSpec, CallServiceSpec, LoopComesBack, RequestEnds, GoneClientFreesBackend | 43 632 |
| DiscoveryCache | 1 caller, 1 restarting session, 1 refresher, 3 processes, 2 lists, 2 attempts | SlotTypeOK, SnapshotSpec, CommitsCurrentGeneration | 4 496 553 |
| DaemonStartup | 2 wrappers of one executable or of two, each with any operation, 2 brokers, 1 crash | DaemonTypeOK, LoneStartOwnsDaemon, EveryStartEnds | 124 342 |

The bounds. Two sessions under one raw id and one token are the smallest instance
in which one session can hurt another; a third would meet the second at the same
lock. Two calls give a holder of `pass_through_lock` and one that queues. Two
processes give an old one and its successor, with backend ids that start from one
again. In DiscoveryCache three processes let a refresh be crossed by two
replacements, and two lists let a snapshot be mixed; the limit of
`CommitsCurrentGeneration`, an overwritten process whose rows are committed, takes
four processes, which is too much for a run with changing lists, and is covered by
the theorem. A pipe of three lines can
fill up with two calls and their cancellations (TimeoutBoundsCall says what a
timeout is worth while it does not). A script puts together the inputs that can
hurt each other: two or three actors at a time, with two calls in between; any
two kinds of input of the broker that touch the same state are together in one.
Two wrappers give every overlap of two operations; a third is the second again once the
first is done. `Attempts` is 2 (3 in the code): one retry and the give-up.

Deadlock is not checked where a bounded environment may have nothing left to
do: all clients served, all processes spawned, all wrappers returned. That nobody
waits for ever is stated by the liveness properties.

Fairness is weak, except where named below, and only for the wrapper's own tasks, which the tokio runtime
polls when they are ready: callers, reader, delivery tasks, consumer, call
tasks, session loops, fan-out, and in DaemonStartup the wrapper processes, whose
waits are all bounded by timers. Timers are steps of the tasks that set them.
Nothing is assumed of backends, clients and brokers: they may hang or die.
tokio's mutex serves its waiters in order; in the broker weak fairness is enough,
since each call takes the lock once. In NormalRuntime three steps have strong
fairness: taking the lock (tokio's mutex is fair), consuming an event and writing a
message, since `select!` picks at random among the branches that are ready and so
takes each of them in time, however often the loop is busy in between. The branch
that reads has no fairness: the client owes nothing.

A backend that hangs can hold up the daemon, and four properties say so: by default
there is no request timeout, and where there is one it does not cover the write of the
line. `AdmittedCallEnds` and `HalfClosedSessionEnds` have the hypothesis `CallsReturn`:
no process leaves its pipe full and runs on for ever (`PipesDrain`), and either there is
a timeout or no process keeps a call for ever (`BackendsAnswer`). `RequestEnds` and
`GoneClientFreesBackend` have the second half, since pipes have room in the model of
normal mode. The scripts meet the hypothesis in both ways, and
let a pipe be full from the start, or fill up in the course of things.

### Disagreements with the documentation

Six runs are expected to find a counterexample. Each states what a document or a
comment of the repository says:

- **BrokerCancelledAnswer** (`CancelledNotAnswered`): a cancellation between
  `bind_backend` and the registration of the sender finds no sender; the
  cancelled call is sent and answered (`flow.html` says removed and discarded).
- **BrokerGate** (`GateHolds`): the number of active calls is read before the
  stop acts, and a call of another session admitted in between is killed (README
  and `architecture.html` say rejected).
- **CacheMixed** (`SnapshotOfItsGeneration`): a process started into an empty slot
  is not followed by a full refresh; a later refresh of one list commits a
  snapshot of the new generation with rows of the old one (`data.html` says
  scoped by backend generation).
- **DaemonSpawners** (`OneBrokerServes`): the guard of the flock is dropped in the
  statement that takes it, so two wrappers both spawn a broker
  (`daemon_manager.rs:239` says only one).
- **NormalCutLine** (`EveryLineClassified`): a backend event that is ready while half
  of a line has been read drops that half; the rest is skipped as malformed
  (`flow.html:8` says every line is classified). The daemon's session loop reads in
  the same way.
- **BrokerPeerDirection** (`CancelsKeepDirection`): a client's cancellation of a call
  that has just been answered cancels the backend's request of the same id
  (`logic.html:26` says same direction).

Seen while modelling and not given a run; the models have the behaviour:

- The row of a call goes (`broker_manager.rs:743`) before its answer is handed over
  (793), and the loop of a session whose client has closed its end may leave in between
  (411): the answer is lost. `flow.html:12` has the response before the removal of the
  index, and the wrapper goes on reading responses (`daemon_manager.rs:396`).
- A request of the backend is queued (`backend_manager.rs:189`), and relayed to the
  session of the row that is bound when it is consumed, be it that of another call or
  another process; `flow.html:16` calls such requests request-scoped. A client's answer
  to a request of a dead process goes to its successor (`broker_manager.rs:528`), and the
  exit of a process clears the requests its successor has made already (230).
- Without `MCP_TIMEOUT` a backend that never answers keeps the count of calls up in
  normal mode, which holds loop and reaper off, and `pass_through_lock` in the daemon. A
  pipe that stays full does the latter with a timeout as well.
- Cancelled and timed-out ids leave the tombstones with their first late answer
  (`backend_manager.rs:178`), where `flow.html:18` keeps them for the generation. A
  cancelled call whose answer comes before its task asks `is_discarding_response` is
  taken for a failure and its process killed.
- After a restart under a running call, in the daemon and in normal mode, a cancellation
  that knows one process may discard the call that has the same number in the other: a
  call nobody cancelled ends without an answer (`Forfeited` says how far the promise
  goes; `README.md:84` of the repository says that one session cannot cancel another
  session's request). If its client has half-closed, nobody wakes the loop of that
  session, which then stays for ever.
- In normal mode the cancellation of a call that is still queued finds no row and is
  dropped, and a refresh with progress before its answer stands still until its
  deadline (`LoopComesBack` shows that it ends).
- A refresh takes its process and then reads the generation (`mcp_manager.rs:175`, 179).
  A restart that overwrites that process in between without killing it
  (`backend_manager.rs:669`, when a call has installed one into the slot the restart had
  emptied) gets the rows of the overwritten process committed under its own generation,
  where `flow.html:20` says "Any failed, incomplete, stale, or generation-crossing
  candidate preserves the complete previous snapshot".

Where a hazard is real but a weaker property still holds, the weaker property is
checked and its comment names the limit: `HealthyBackendKept` until a
cancellation or a restart comes in between (a stop does no harm), `CallServiceSpec` with
what `Forfeited` gives up after a restart and for calls left behind, `SleeperIsWoken` and `HalfClosedSessionEnds`
until somebody asks for one, `AdmittedCallEnds`, `HalfClosedSessionEnds`, `RequestEnds`
and `GoneClientFreesBackend` if calls return (above), `NoticeEndsItsCall` within one process,
`PeerRowsEndWithProcess` for rows that stay too long,
`ProgressBeforeAnswer` for a call alone at its backend, `TimeoutBoundsCall` while
the pipe has room, `LoneStartOwnsDaemon` for starts that do not overlap,
`AnswerFindsItsRow` as long as there has been one process, `CommitsCurrentGeneration`
for processes that were not overwritten, `OldCallsSpared` for the
calls dispatched before the count is read, `GoneClientFreesBackend` by way of the
reaper where the loop sleeps on.

## 4. Proofs

All proofs are for arbitrary values of the constants under the named assumptions.

**RequestLifetimeProofs.** `LifetimeInv` (types, `BackendIndexExact`,
`TokenIndexSound`, `PeerIndexSound`) is inductive: one lemma per operation,
combined in `LifetimeIndexConsistent`. `RoutesSurvive` proves the action property
`RouteOutlivesOthers`: `TokenIndexSound` is needed to know that the owner of an
index entry carries its token.

**BrokerCallsProofs.** Each process numbers its requests from one, so nothing
local stops an id from being bound twice. The argument is global: `LockInv` (the
calls between taking and dropping the lock are exactly its holder) and
`OneBoundRow` (a bound row is the holder's, under its id) make every `BindRow`
bind a fresh id; so every step of the broker is a step of the index or leaves it
alone (`BrokerUsesIndexAsMeant`: the broker implements `LifetimeSpec`), and the
index's own invariant holds of the daemon. `QuietStep` collects the many steps
that leave rows and lock alone. `CallsSerialized` is `OneBoundRow`;
`RowsHaveOwners` proves `NoOrphanRow` on top of it, one lemma for quiet steps and
one for the steps that end a call's claim to its row. `BrokerWellTyped` is
`BrokerTypeOK`, in three parts that do not need each other in most steps: calls
(`CallType`: an id is drawn by whoever has one), processes and slot (`ProcessType`),
sessions, queue and fan-out (`SessionType`).

**BrokerPeersProofs.** A step of BrokerPeers is a step of BrokerCalls or touches
only the peer tables (`PeerOnlyKeepsInv`), so the invariant of the broker carries
over (`PeersSerialized`, `PeersUseIndexAsMeant`, `PeersRowsHaveOwners`), and with it
the index's: `BrokerIndexConsistent`, `ProgressFindsLiveCalls`,
`ClientProgressFindsPeers` and `BrokerRoutesSurvive` are the theorems of
RequestLifetimeProofs about the daemon, and `PeersWellTyped` is its type invariant. `PeerRowsDieWithProcess`
is `PeerRowsEndWithProcess`: in the queue a request comes before the exit of its
process, each request is at one place, in the queue, with the fan-out task or handed over,
and the exit, when it is consumed, takes all rows along; so a row always belongs to a process
whose exit is still to come. That is a fact about the order of one queue, which every
action of the broker that touches it must keep. `AnswersFindTheirRows` is `AnswerFindsItsRow`: the row of a
request is there from before the request goes out until its answer comes
(`RowsThere`), as long as no exit has been consumed and no cancellation has crossed
over, and an exit is in the queue only when a process has ended (`AnswerInv`).
`HealthyBackendsKept` is `HealthyBackendKept`: without a cancellation or a restart
the process in the slot, if there is one, is the last one spawned and the one the
served call was sent to, and a call fails only when it has ended (`Health`). A stop
empties the slot, so a call that fails after it finds nothing to take out.

**BrokerServiceProofs.** The broker implements CallService (`BrokerServesCalls`, and
`PeersServeCalls` with requests of the backend). Hypothesis `IdsUsedOnce`: finitely
many calls, no raw id twice in a session, as JSON-RPC asks. Numbers are drawn per
process, so two calls of one process never share one (`NumberInv`); as long as nobody
asks for a restart there is one process after the other, stopped or dead before the
next one starts, and only the last one has calls (`LastProcess`), so a cancellation on
its way hits at most the call that lost its row to it (`Aimed`), a call that ends
without an answer was cancelled (`OnlyCancelled`), and an answer is lost only to a
session that has left it behind (`LeftBehind`): a loop that leaves has seen no row, so
what it leaves has lost its row before. After a restart every call is
forfeited and the argument is not needed. `NoticesEndTheirCalls` is
`NoticeEndsItsCall`, from `NumberInv`.

`SleepersAreWoken` (and `PeersWakeSleepers`) is the safety half of
`HalfClosedSessionEnds`: it proves `SleeperIsWoken`, that a loop never sleeps with
nobody left to wake it. The loop of a session that is not open handles no line any more
(`LoopOpen`); a call that was cancelled has lost its row for good (`CancelledGone`), so
the end in silence of a call takes nobody's waker away; and a call that is to wake its
session stays so (`Stays`) until it has put a message into the queue, or hands over
to the cancellation that takes its row. That the waker gets there is the liveness
half, and TLC's.

`BrokerUsesChannels` (and `PeersUseChannels`) is `ChannelsUsedAsPromised`: seen from
each process, every step of the broker is a step of ChannelService or none. A call that
waits has a process that runs, tombstones belong to calls that were given up, and a
process works on no call before it is sent (`AtProcesses`, `CallPlaces`); only a behaviour that has
a deadline lets a call time out (`Scripted`); by
`NumberInv` a cancellation hits one call at most. With `ChannelKeepsPromise` this
closes the gap between the two models: what the broker's model takes for granted of
`send_request` and of the cancellations is what the model of `Backend` has been shown to
keep.

**DiscoveryCacheProofs.** `SlotInv` types the slot and bounds the attempts
(`SlotWellTyped`). `CandidateOf` is what a refresh holds between its queries: the
committed snapshot as its base, and a candidate that differs from it only in
selected rows, all from the one process it asks. It is inductive because only
the holder of the refresh lock gets past `lock` (`JobOK`). Then `Commit` is a
step of the abstract snapshot (`CommitIsReplacement`) and all others stutter
(`CacheImplementsSnapshot`). `CommitsAreCurrent` is `CommitsCurrentGeneration`: the
process in the slot carries the slot's number and a process that is being started
has none and one holder (`SlotScope`); the process a refresh has taken stays in the
slot until its number is read, or is dead or overwritten (`JobScope`). A dead one
answers no query, so the theorem assumes that every selection has a list the backend
is asked for (`SelectionsAsked`).

**BackendChannelProofs.** A sender leaves the map once, and what happens to its
call depends on who took it: response, timeout, cancellation or exit. Each property
speaks of one of them and none is inductive alone. `PendingFresh` strengthens them
together: as long as the sender is in the map nothing has happened to its call, no
reply, no acknowledgements handed over, no cancellation. `ChannelInv` (types,
`PendingFresh`, `CancelledTaken`) gives `ChannelWellTyped`, `CallersAreServed`,
`AwaitedOrSuppressed` and `CancelledStaysCancelled` (`CancelledNotCompleted`, which no
run repeats, since `ChannelServiceSpec` says it and more). `LateAnswersAbsorbed` needs the
way of a request through the pipes as well: it is on stdin, at the backend or
answered on stdout, at one place, and until its answer is read its id is awaited or
suppressed (`OnePlace`).

`AnswersFollowProgress` is `ProgressBeforeAnswer`, by an invariant for each call
(`OrderInv`). `InTurn`: a request is read once and answered after that, and its progress is
neither older than the request nor behind its answer. `Held`: progress that is still
in the queue of a call alone at its backend is awaited, by the acknowledgements the
reader holds while the sender is in the map, and by those the delivery task has
taken over after that, so that no such call has its answer.

`ChannelKeepsPromise` is the refinement of ChannelService. What it needs beyond the
invariants above is that a request is served once (`ServedOnce`): an answer that was
taken finds no reply yet, and a tombstone at a caller that still waits means that its
sender was dropped. Then `Deliver` completes only what was not given up, and every
other step of the channel, the reader, the pipes and the backend is a step of the
service or a stutter.

**DaemonStartupProofs.** `DaemonWellTyped` needs that whoever is between the steps
of a removal holds the lock (`LockInRemoval`). `LoneStartOwns` adds what holds as
long as starts follow each other: one wrapper is at work and waits for the one
broker that lives (`OneAtATime`), each file the broker has made so far leads to it
(`FilesFollow`), and files are removed only while no broker lives (`RemovalAlone`).

**NormalRuntimeProofs.** The first two theorems are about a number that is read and
used later. `DrainInv` keeps, for the look at the queue, what the look at the calls has
found: between the two the loop is the only one that could add a call. `SpareInv`
keeps what was over when the active calls were counted, until the loop or the reaper
takes the slot. Most steps move calls inside their tasks and take the loop to no
place where it decides (`HarmlessStep`); for a notification of the client this says
that no mount of the table names such a place (`ProgramsDecideNothing`). The set of
lines is finite, since `Active` counts.

The other two are the refinements. Here a row is made under the lock, so the holder
of the lock owns the only row there is (`RowInv`), every number that is bound is new
(`NormalUsesIndexAsMeant`), and nothing is assumed of the ids the client uses. That a
call nobody cancelled does not end in silence (`NormalServesCalls`) is the argument of
the broker again, with the one loop that cancels in the place of the sessions:
`NumberInv`, and until a restart `LastProcess` and `OnlyCancelled`. The runs
leave out a script with two calls, a forced restart and a cancellation, which takes
too long; the theorem has it. `BackendSeesItsOwn` reads the table of the event plane:
the methods the wrapper answers are mounted (`ReservedIsMounted`), no entry that
matches one of them passes it on (`ReservedPrograms`), the wrapper's tool comes before
`tools/call` (`WrapperToolIsMounted`), so no call is reserved, and the line that is on
its way from the loop is not either (`SentInv`). `NormalWellTyped` types processes
and loop on top of `ServiceInv`.

Only model-checked: `ExitReleasesCallers`, `TimeoutBoundsCall`, `AdmittedCallEnds`,
`HalfClosedSessionEnds`, `LoopComesBack`, `RequestEnds`, `GoneClientFreesBackend`,
`EveryStartEnds`. They are liveness under fairness, which is out of the prover's reach.
Every invariant, action property and refinement the passing runs check is a theorem.

## 5. What is not modelled

- In normal mode the first initialization of the cache, and the check of cursors in
  list requests; in the daemon client progress and the answers from the cache,
  which touch no state.
- Framing of lines other than the half that `select!` drops in normal mode; the
  content of messages, ids and errors; the envelopes of the wrapper tool.
- A write in normal mode that blocks: pipes have room there (BackendChannel and
  BrokerCalls have the pipe that fills up).
- The status snapshot and counters of the slot, process groups and their
  clean-up; the length of timers.
- Reuse of process ids, partial writes and file-system errors in the daemon
  directory; the relay between stdio and the socket.
- Admin CLI, logging, constants: no state.

The hazards in `PROJECT.json` that no property covers say why.

## 6. Plan

Done, in this order: RequestLifetime, BackendChannel, BrokerCalls, BackendSlot with
DiscoveryCache over DiscoverySnapshot, DaemonStartup, EventPlane and WrapperTool
under NormalRuntime, BrokerPeers, CallService under broker and normal mode,
ChannelService under the channel; proofs for
the index, the channel, the broker with and without requests of the backend, the
cache, the daemon start-up and normal mode.

Worth adding:

1. The list of process groups of `backend_manager.rs` and the processes it reaps.
2. Proofs: the channel of normal mode against ChannelService, as for the broker; the
   safety halves of `GoneClientFreesBackend` and `LoopComesBack`.
