# A TLA+ specification of VT Code

VT Code is a coding agent: an interactive or headless session runs turns of a
language model, executes tools, and records everything that happens as a stream
of `ThreadEvent`s. These modules specify the parts of it whose correctness
depends on order, concurrency and failure, check them with TLC on small
instances and prove the central results with TLAPS for every instance.

Paths below are relative to the repository.

## 1. Inventory

### The persistence path (modelled)

The authoritative record of a run is `<workspace>/.vtcode/sessions/<id>/events.jsonl`
(`docs/development/session-persistence.md`). An event takes this path:

| Part | State | Operations | Correct when |
| --- | --- | --- | --- |
| `HarnessEventEmitter` and the session that owns it (`inline_events/harness.rs`, `session_loop_runner/orchestration.rs`) | dispatch gate, `finalized`, exporters, clones | `emit`, `finish`, `finish_after_unexpected_exit`, clone, drop | success is reported only after the terminal event and the drain; every run is finalized; exporters follow the canonical order |
| `SessionStoreSink` (`vtcode-core/src/core/agent/events/mod.rs`) | bounded channel, byte budget, failure flag, drain thread | `emit`, `close`, drop | an `Ok` from `close` means: everything accepted is durable, once and in order, and nothing was refused |
| `SessionEventLog` (`vtcode-memory/src/event_log.rs`, `manifest.rs`) | event file, manifest, turn index, cap-rewrite marker, write buffer | `open`, `append`, `flush`, cap eviction, drop | after a crash anywhere, `open` finds what a scan would find; turns keep their numbers; nothing synced disappears unsummarised |

They interact by calls: the session and the callbacks and streams that hold a
clone of the emitter call `emit` concurrently, one drain thread calls `append`
and `flush`, the end of a run, or of its last clone, calls `close`, which joins
the drain. Exec and the agent runner feed the same sink from one task each. Hard here: atomics read before and used after a lock, a drain that
fails while emitters keep sending, a process that dies between any two of the
seven file operations of a cap eviction, a write, rollback or sync that fails.

### The durable scheduler (modelled)

Scheduled tasks live in files of the user's directory, shared by every process
that has VT Code open, `vtcode schedule serve` and the `schedule` commands.

| Part | State | Operations | Correct when |
| --- | --- | --- | --- |
| `DurableTaskStore` (`vtcode-core/src/scheduler/mod.rs`) | definition, runtime state and claim of each task | `create`, `delete`, `load_records`, `update_runtime` | the limit holds; a run's outcome reaches its file |
| `SchedulerDaemon` (same file; called by `serve_forever` and by the loop of an interactive session) | the copy of the records a pass works on | `run_due_tasks_once`, claims | no slot is skipped; a slot runs once; a crash blocks no task for ever |

There is no lock but the claim file. Hard here: a copy that is stale when used,
a claim that is removed while its run goes on, a process that dies between
claim, run, release and update, and a command that creates or deletes files
under a pass.

### The subagent controller (modelled)

A session delegates to children, and a child that may delegate has a controller
of its own for its children (`vtcode-core/src/subagents`, two levels).

| Part | State | Operations | Correct when |
| --- | --- | --- | --- |
| `SubagentController` | a record for each child: status, queued prompts, task handle, its own controller; the flags `shutdown_requested` and `closing` | `spawn`, `send_input`, `resume`, `close`, `wait`, `signal_shutdown` | what is closed takes no child; every prompt is worked off; every call returns |
| the task of a child (`child_loop`) | - | dequeue, run, apply the result, tear down its own children | it stores its result and its handle in the right record |

The state is behind one lock that is released between the steps of every call.
Hard here: a spawn that has passed its gates when a close begins, handles stored
after the task has started, a task that is aborted and has not ended, a prompt
that arrives as a run ends, a notification before its waiter sleeps.

### The A2A server (modelled)

| Part | State | Operations | Correct when |
| --- | --- | --- | --- |
| `TaskManager` (`vtcode-a2a/src/task_manager.rs`) | tasks, the tasks of each context, webhook configurations | create with eviction, status, cancel, configure | the indexes agree; eviction takes what ended first |
| `handle_message_send`, `handle_stream` (`server.rs`) | requests under way, a detached pipeline for each stream, one broadcast channel | message, status update, subscribe, send, receive | every stream ends and shows what belongs to it |

Hard here: a task that is cancelled, sent to again or evicted between the steps
of a request or a pipeline, a receiver that falls behind, and one channel for
all streams.

### The rest of the system

| Component | State and operations | Hard behaviour | Correct when |
| --- | --- | --- | --- |
| Session scheduler (`vtcode-core/src/scheduler`) | tasks in memory; due prompts | one step failing after another was advanced | no due prompt is lost |
| Circuit breakers, rate limiters (`vtcode-core/src/tools/resilience`) | closed/open/half-open, windows | concurrent probes, time | at most the allowed probes; recovery is possible |
| Agent runtime, steering, threads | input queue, turn state | steering that arrives as a turn ends | no input lost or run twice |
| Turn loop and recovery | phases, retries, lifecycle events | exits by `?` from a hundred places | every started turn is ended |
| Exec sessions, PTY manager | session tables, exit state | exit against read, prune of live sessions | output is delivered, live sessions are kept |
| MCP client and connection pool | connections, permits | timeouts, reconnects | permits are returned |
| Persistent memory, OAuth storage, archives, retention | files shared between processes | locks, stale reads | an active session is never pruned; updates are not lost |
| Tool registry, safety gateway, policies, loop detector | tables and counters | long call sequences | decisions follow the policy |
| WebMCP event hub | sequence numbers, replay buffer | reconnects | replay has no gap |
| Compaction, hooks, worktrees, providers, TUI, ACP, configuration, updater | external programs, text, rendering | - | outside a state model, or not planned |

`PROJECT.json` lists all of them under `components`, and under `hazards` what in
this code a test would hardly reach.

## 2. Plan

1. `CanonicalStore`, `DurableFeed`, `SessionStoreSink` with proofs - done.
2. `TurnIndex`, `SessionEventLog` with proofs - done.
3. `DurableScheduler` with proofs - done.
4. `HarnessRun` above `DurableFeed`, with proofs - done.
5. `SubagentController` with proofs - done.
6. `A2aServer` with proofs - done.
7. `CircuitBreaker` (probes of several calls, time), the session scheduler,
   `Retention` against an active session, two processes on one
   `SessionEventLog`.
8. `ExecSessions`, `SteeringQueue`, `EventHub`, the goal tracker, the connection
   pool of MCP, the token refresh of several processes.
9. Proofs of `LiveMatchesScan`, `FastPathIsExact`, `RecoveryKeepsTurnNumbers` and
   `CapHolds` of the log, by an invariant that ties the metadata on the disk and
   the marker to a scan of the file - done.
10. Where each disagreement of section 4 ends: theorems that delimit the findings
    about the turn numbers, `serve` and the stray messages, and the chain from the
    emitter to the sink (`RunFollowsFeed`) - done.

## 3. Modules

| Module | What it is | Lines it stands for |
| --- | --- | --- |
| `DurableFeed` | what the sink promises a run: accept, persist along the feed, answer | abstract |
| `CanonicalStore` | what one handle of the log promises its drain: append and flush, succeeding or failing | contract between the two parts |
| `SessionStoreSink` | `enqueue_session_event`, `drain_session_events`, `close`, drop | `core/agent/events/mod.rs:98-365` |
| `MCSessionStoreSink` | event costs for TLC | |
| `SessionStoreSinkProofs` | theorems about `SessionStoreSink` | |
| `TurnIndex` | pure part of the log: lifecycle state machine, scan, eviction plan, checks of `open`, recovery of the first turn number | `event_log.rs` |
| `SessionEventLog` | the log with its files, crashes and failing writes | `event_log.rs`, `manifest.rs` |
| `SessionEventLogProofs` | theorems about `SessionEventLog` | |
| `DurableScheduler` | store, pollers and commands of the durable scheduled tasks | `scheduler/mod.rs`, the poll of `interaction_loop_runner.rs` |
| `DurableSchedulerProofs` | theorems about `DurableScheduler` | |
| `DurableSchedulerOnceProofs` | theorems about a single poller | |
| `HarnessRun` | the emitter, its clones and the end of the session, above `DurableFeed` | `inline_events/harness.rs`, the end of `orchestration.rs` |
| `HarnessRunProofs` | theorems about `HarnessRun`: types, success, its use of the feed | |
| `HarnessRunEndProofs` | theorems about `HarnessRun`: the last owner, the completion, the exporters, the closed sink | |
| `SubagentController` | every call on the controllers of a session and the task of a child | `subagents/*.rs` |
| `MCSubagentController` | the tree of agents and the calls for TLC | |
| `SubagentControllerProofs` | theorems about `SubagentController` | |
| `A2aServer` | the store of tasks, the requests, pipelines and streams | `vtcode-a2a/src/task_manager.rs`, `server.rs` |
| `A2aServerProofs` | theorems about `A2aServer` | |

### SessionStoreSink

One event value is one emission. Each atomic access of `enqueue_session_event`
is a step: the check of the failure flag (`CheckHealth`, `RefuseFailed`), the
compare-and-swap on the budget (`Reserve`), the refusal after it
(`RefuseOverBudget`), and the hand-off under the sender lock (`Send`,
`RefuseSend`). `Cost` is what the code computes for an event: twice its
serialized size plus the size of the value. The drain is `Receive`,
`DrainAppend` or `DrainAppendFails`, `ReleaseBytes`, `Discard`, `DrainFlush`.
`BeginClose` takes handle and sender, `EndClose` is the join; `DropSink` is a
run that is cancelled. The counters of `SessionStoreSinkHealth` other than
`failed` are diagnostics and left out. The drain's calls into the log are the
actions of `CanonicalStore`, failures included: a failed append may have
appended, may have been rolled back, or may have lost unsynced events.

### TurnIndex and SessionEventLog

A file is a sequence of records, an offset a number of records. The code only
compares lengths with lengths and cuts at record boundaries, so one record may
stand for any number of bytes; what a failed write leaves inside a record is a
record of kind `torn`, or a whole one without its newline.

Every operation holds `eviction_lock` from first to last write. An operation is
therefore a list of writes (`todo`) executed one at a time, and what can happen
between or within two writes is a failure or the end of the process. `append`
chooses freely whether a non-boundary event fills the 64 KiB buffer. In
`enforce_event_cap` the plan is computed again at each step from the state,
which does not change before the plan is applied.

Environment: the client is the sink's drain. After a failed operation it appends
no more, flushes and closes. After `thread.completed` only a new
`thread.started` or events of the session level follow. (A turn that ends after
`thread.completed` could make an eviction remove the latter, and a scan would
then report the session active.)

The history variables `synced`, `summarised`, `durableTurns`, `taken` and
`damaged` only serve the properties. `damaged` records that a write was cut
short and its remains stayed in the file; the properties about exact recovery
are stated for files without such remains; `log_torn_tail` shows what such
remains do to the next event.

### HarnessRun

`HarnessRun` extends `DurableFeed`: the sink below the emitter is taken for what
`SessionStoreSink` is proved to implement. What an owner of a clone still has to
do is a list of steps (`todo`), and a step ends where the code gives the
dispatch gate back or awaits.

`emit` is `Enter` (takes `dispatch_gate`, looks at `finalized` under it),
`Canonical` (the sink, which refuses for good once it has refused) and `Export`
(every exporter, whatever becomes of it; `Thinned` is what one that may lose items
can hold). `finish` is `Finish` (`finish_once`),
`FinishExports`, `Close` and `Return`. `Complete` and `Fail` are the two ways
out of the session's loop, `UnexpectedExit` is `finish_after_unexpected_exit`.
`Drop` looks at the number of clones while its own still counts (`LastClone`): it
spawns the finalizer (`SpawnFinalizer`) or lets the clone go (`LetGo`), which is
also what it does with the last one where there is no Tokio runtime. `Release` is
the end of its fields. `RuntimeEnds` drops the finalizer where it awaits, as `main`
does when it drops the runtime behind `block_on`. A panic under the dispatch gate,
which would poison it, is not modelled. `Vanish` is a session whose future is dropped, or
unwinds, where it awaits; the release profile aborts on a panic, so unwinding
belongs to the other builds.

`vanishedAt`, `overlapped` and `stranded` are history. They name the exceptions of
`LastOwnerFinalizes` and `CompletedOnce`: two drops that each count the other's
clone spawn no finalizer; a finish in whose middle the session vanished is not
taken up again; a last clone that is dropped without a runtime, or a finalizer
whose runtime ends under it, leaves the run as it is (`stranded`; the code logs
"cannot finalize harness after an unexpected session exit without a Tokio
runtime"); and a session that vanished between its terminal event and its finish
gets another one from the finalizer.

### SubagentController

An action is what the code does under one acquisition of a controller's lock, or
between two awaits. A call, and the task of a child, is again a list of steps;
calls on a tree (`close_tree`, `resume_tree`, `signal_shutdown`) put the steps of
the descendants in front of what is left.

`spawn_with_spec` is `Spawn` or `SpawnNested` (the gates and the limit) and
`Insert` (the gates again); `launch_child` is `Launch` and `Store`, between which
the task already runs. `child_loop` is `Dequeue`, `Start`, `Attach`, `Finish`,
`Apply`, `Teardown`, `End`. A run that cannot be prepared (its configuration, its
archive, its runner) goes from `Start` straight to `Apply`, and a controller of its
own that cannot be created leaves the child without one. `Abort` only marks a task; it ends at its next yield
(`Cancelled`), and may take the steps before that. `wait` is `Check`, `Arm` and
`Timeout`: the notification has no waiter before `Arm`. Completed and failed are
one status, which no code of the controller tells apart; prompts are counted
(`queue` is their number), and `Absent` stands for a child that is not in the map.

### A2aServer

An action is one acquisition of the lock of `TaskManager`, one send into the
broadcast channel or one receive. A request is `AcceptNew` or `AcceptKnown`, then
`add_message`, then `update_status` (send) or `subscribe` (stream), whose
pipeline sets the status and sends its three events on its own. `updated` is the
order of the status timestamps that eviction sorts by, as a set of pairs with the
older status first; a change of status puts its task behind all others (`Touched`). A receiver that is behind
by the capacity gets the error `Lagged` and the stream ends.

`Settled` forgets what nobody can observe of a stream that has ended and whose
pipeline is done, `stray` is history.

### DurableScheduler

A step is one access to one file. `run_due_tasks_once` is `BeginPass` (the time
and the listing of the definitions), `read_definition` and `read_runtime` for
each file, `EndLoad`, then for each due record in the order of the stable sort:
`try_acquire_claim`, or `claim_is_taken` followed by `claim_is_stale` and
`remove_stale`; `execute_record`; `release_claim` (which looks) and
`remove_claim` (which removes); `update_runtime`. Every `?` is `PassFails`: the
serve process exits, the loop of an interactive session polls again. The test
whether a runtime file exists and its reading are one step.

`create` is `build_definition`, `count`, `write_definition`, `write_runtime`;
`delete` is `load_record` and three removals. Ids are not used again.

`clock` counts intervals. A recurring task has a slot per interval from its
first on; a one-shot task has one slot, which may be due as soon as the task
exists because jitter takes up to 90 seconds off it and `--at` accepts the past.
Cron expressions are recurring tasks that always have a next time. The age of a
claim is only whether it has reached `CLAIM_STALE_SECS` (`ClaimAges`);
`LongRuns` says whether that may happen while its run goes on. A poller that is
killed is taken to end its child process with it.

Crashes and failing writes are faults of one number, `MaxFaults`.

`started`, `finished`, `pried` and `mishaps` are history. `mishaps` counts, for
each task, what makes a run not count: a run that was not followed by its update
(crash, failing write, a release that finds the claim gone), and a runtime file
that `create` replaced or `delete` removed under a poller.

## 4. Runs

| Run | Instance | Question |
| --- | --- | --- |
| `sink` | 2 emitters, 4 events (one costs 2 of 3 bytes, one never fits), channel of 1; 51 000 states | Is an `Ok` from `close` to be believed, is the budget exact, do close and drain end? |
| `log` | 4 events, cap of 1, 2 processes, 1 failing write; 1 764 000 states | Is recovery right after a crash at every write, also within an eviction, and after a failing write, rollback, sync or rename? Does the log honour `CanonicalStore`? |
| `log_torn_tail` (violation) | 4 events, no cap, 2 processes | Is a synced event always in the log? |
| `log_turn_numbers` (violation) | 4 events, no cap | Can every turn be looked up by its number? |
| `sched_one_poller` | 1 poller, 1 command, 2 tasks in a store for 1, 2 ticks, 1 fault; 199 000 states | Does a slot run twice without a cause, and does a due task run in the end? |
| `sched_race` | 2 pollers, 2 tasks, 2 ticks, 1 fault, long runs; 423 000 states | What do claims guarantee, and is any slot skipped? |
| `sched_serve` (violation) | 1 serve process, 1 command, no fault | Does serve keep running? |
| `subagents` | 1 child, 1 grandchild, 2 callers, 3 calls, 2 tasks; 200 000 states | Is what is closed closed, is every prompt worked off, does every call return? |
| `subagent_wait` (violation) | the same with 3 tasks | Is a notification ever lost? |
| `a2a` | 3 tasks in a store of 2, 1 stream, channel of 2, 3 messages; 219 000 states | Do the indexes agree, what is evicted, does every stream end? |
| `a2a_stray` (violation) | 2 clients, 2 streams, no eviction | Does a stream show only what belongs to it? |
| `harness` | the session and 2 helpers, 2 items, 1 exporter that loses nothing and 1 that may, a runtime that may be missing or end; 1 462 000 states | Is success to be believed, is every run finalized, and once, and is a closed sink left alone? |

Bounds. Every passing run ends within half a minute on two cores; larger instances
(5 events of the log or the sink, 3 tasks of the controller, 3 ticks) were checked
with the same result, and the theorems of section 5 cover every size. Two emitters are enough for every race on the flag, the budget and the
channel, since a third would only repeat one of their steps; with a budget of 3
and costs of 1, 2 and 4, both a full budget and an oversized event occur, and
with a channel of 1 also one that is full before the budget; with the event in
the drain's hand two accepted events wait for the log, so that their order matters.
In the log, a cap of 1 with 4 events allows two evictions in one process, an
eviction with only the active turn left, one that removes session-level
records, and one that crashes at each of its seven writes, followed by a second
process that evicts again. A second process is the first that reads what
another left; a third was checked with fewer events and added nothing.
Deadlock is not checked for the sink, the log, the emitter, the controller and
the A2A server: a closed sink and a finished run stop, and the others stop at
their bounds.
In the scheduler, a recurring and a one-shot task exercise both kinds of slot and
the order of the records (`sched_race`, where both exist from the start); two ticks
let a task fall behind and catch up. In `sched_one_poller` the store has room for
one task, so that a create is refused until a delete has made room. Two pollers are enough for both claim races, since a third
only repeats a step of one of them. `sched_race` does without commands and
`sched_one_poller` without a second poller to keep the state spaces small; the
theorem about `NoSlotSkipped` covers their combination.
A grandchild is the deepest agent the code allows. Two callers make every pair of
calls on one child overlap, three calls let a spawn, a close and a resume follow
each other, and two tasks let a task that is aborted overlap with the one that
replaces it. With a limit of one child at a time a spawn is refused as soon as
another is at work.
Three tasks in a store of two force an eviction, three messages let a task be
created, cancelled (which takes no message) and evicted under a stream, or be sent
to again, and a channel of two
is shorter than the three events of a pipeline, so a receiver can fall behind.
Two helpers can drop their clones at the same time, with and without the
session's; two items let an item of each overlap with the end of the run.

Fairness. The drain is a thread of the blocking pool and `enqueue_session_event`
never awaits, so both have weak fairness, and so has the end of a close that
waits for the join. Nothing obliges an emitter to emit, a run to close, or the
log's client to do anything; the log has no liveness property.
A poller has weak fairness: `serve_forever` and the interactive loop poll every
second, and a run ends because its command does. `Restart` is fair because the
service file asks for it (`Restart=always`, `KeepAlive`) or because somebody
opens VT Code again; without it no task need ever run. `Tick` and `ClaimAges`
are time. Commands and faults have no fairness.
A call on the controller that has been made goes on (`CallStep`, `SharedStep`):
the lock is fair and the deadline of `wait` passes. Nothing is assumed of the
children, whose runs need not end. `CallsReturn` leaves out the states in which
the model has no task left to launch.
A pipeline of the A2A server is a task of the runtime that sleeps for bounded
times, and a receiver is polled by its connection; requests have no fairness.
The emitter has no liveness property: a session need not end.

What the runs show. Every property has a mutant, a small change of the mapped
code that TLC catches: for instance a drain that goes on after a failed append
breaks `StoredFollowsAccepted`, a health read before the join breaks
`OkCloseIsDurable`, an eviction that subtracts only indexed events breaks
`LiveMatchesScan`, an ignored rewrite marker breaks
`RecoveryKeepsTurnNumbers`, an emit that looks at `finalized` without the gate
breaks the type of `gate`, a drop that counts as if its clone were gone leaves a
run without an end, a finish that does not wait for the emit at the gate closes the
sink under it, and a spawn that does not look at the gates again puts a
child into a closed controller.

With two pollers a slot can run twice, and a runtime file can go back to an
older state: a pass works on a copy, two pollers may remove the same stale claim,
and a run may take longer than a claim lasts. No document promises otherwise, so
`RunsOnce` is stated for one poller and `Exclusive` for two; `NoSlotSkipped`
holds for both. The same property shows why a one-shot task may fire twice when
it is created: between the two writes of `create` a poller can run a task that is
already due, and the second write resets its state (a `mishap` of the model).
`docs/user-guide/scheduled-tasks.md` says that such a task keeps its run state.
What `RunsOnce` leaves out as a mishap it does not judge: it shows that a slot runs
again for no other reason.

The five violations are disagreements between the code and its own comments,
messages or guides:

* *Torn tail.* `open` neither cuts nor terminates an unfinished last line. The
  next event is written and synced onto it, and the scan skips the joint line.
  The loss is one event per torn tail; later events are read again.
* *Turn numbers.* `turn_count` grows when a turn ends. A turn that starts while
  another is open gets the same number; `reconstruct_turn` then finds the first
  only, and the persisted index is refused at every later open.
* *Serve ends.* A delete within the load of a pass, or a claim that vanishes
  before it is examined, is an error that `serve_forever` passes on.
* *Lost wakeup.* `wait` says it registers its futures before it looks at the
  status; the `async` block creates them when `select!` polls it, after the look.
  A child that ends in between wakes nobody, and the call sleeps until its
  deadline (`CallsReturn` holds because there is one).
* *Stray messages.* A stream filters messages by context; for requests that named
  none, both sides of the comparison are empty and equal, so streams that are
  open at the same time show each other's messages.

## 5. Proofs

`SessionStoreSinkProofs` holds for every set of events and emitters, every
capacity, budget and cost function (`SinkAssumption`: positive capacity, budget
and costs).

The safety properties are not inductive: that a run told "ok" has all its
events stored depends on where they were before. `SinkInv` says where they are
at each stage of the drain (`NothingAstray`): as long as no append has failed,
the accepted events are those stored, then the one in the drain's hand, then
the channel, in this order; once the drain is past its loop, either the failure
flag is up or nothing is left anywhere. `CloseIsFinal` ties the answer of close
to the state of the drain. Each step of an emitter (`EmitterStep`), of the drain
(`DrainStep`) and of close (`CloseStep`) preserves it; `InvImplies` derives the
properties.

| Theorem | Says |
| --- | --- |
| `TypeCorrect` | type correctness |
| `SinkInvariant` | the inductive invariant |
| `OkCloseDurable`, `OkCloseRefusals` | what an `Ok` from close means |
| `StoredPrefix` | the log is a prefix of what was accepted |
| `QuietDrain` | no silent loss, closed or dropped |
| `WithinBounds` | neither the channel nor the budget is overdrawn |
| `BudgetBalances` | the reserved bytes are those of the events between reservation and release |
| `Refinement` | the sink implements `DurableFeed` |

`BudgetInv` says where every reserved byte is: with an emitter between its
reservation and its hand-off, in the channel, or in the drain's hand. The sums over
sets of emitters and over the channel are met through the equations that define
them, by induction over a set of naturals (`EveryNatural`, from the well-founded
order of the library); this is how every recursive function of the models is
treated.

`DurableSchedulerProofs` holds for every number of tasks, pollers, commands, ticks,
crashes and failures (`SchedulerAssumption`, `AbsentAssumption`).

Type correctness already needs an invariant of control: a poller between claim
and update has a due record (`AtRecord`), otherwise `Current` means nothing.
That the record sorted first exists rests on a least element of every non-empty
set of naturals (`LeastNat`, by the well-founded order of the library).

`Exclusive` becomes inductive with the fact that a run whose claim nobody removed
has a claim file (`ExclusiveInv`). `NoSlotSkipped` speaks of files and of copies;
`CatchUpInv` adds that nothing is known of an id before it is in use, that a
one-shot task has no slot but its first, and that a poller past its run has
brought the slot of its record to the end. `RuntimeFiles` and `CopiedRecords` say
what a step may leave in a file or a copy: what was there, the initial state, or
the advanced record; `Sound` is shown for each.

`ClaimHasOwner` is inductive together with the types: as long as no fault has
happened, a claim that appears is that of a poller which now runs the task
(`ClaimIsRun`), and a run that ends leaves none behind (`RunLeavesNoClaim`).

`DurableSchedulerOnceProofs` proves `RunsOnce` where at most one process polls
(`SinglePoller`), for every number of commands, tasks and faults. With two pollers
the formula is false, since both may hold a copy of the same record. The
invariant `OnceInv` says that a slot from which a file or a copy would go on has not
been started more often than mishaps allow, except between the start of a run and
its record (`CopiesAhead`, `FilesAhead`); every way out of that window is
`update_runtime` or a mishap (`RunEnds`). A file that is missing counts as a new
task, so it also needs that a definition is written by one command, before anything
is known of its task, and never again after a delete (`UntouchedTasks`,
`OneCreator`, `Undefined`).

`ServeKeepsRunningAlone` says how far the finding about `serve` reaches. With one
poller and no delete, only a fault ends a poller: the definition files that a pass
has listed are still there when it reads them, and a claim that it has found is
there when it is examined, since only the poller itself removes claims
(`Undisturbed`). The condition on deletes is on the behaviour (`NoDelete`: no
`load_record` step, the first of a delete); creates may come at any time.

| Theorem | Says |
| --- | --- |
| `TypeCorrect` | type correctness |
| `RunsExclude` | two runs of a task at once only after its claim was removed |
| `CatchUp` | no slot is skipped |
| `ClaimOwned` | without a fault every claim belongs to a run |
| `SinglePollerRunsOnce` | with a single poller no slot runs twice, mishaps aside |
| `ServeKeepsRunningAlone` | with a single poller and no delete only a fault ends `serve` |

`HarnessRunProofs` holds for every set of helpers, exporters and items
(`HarnessAssumption`).

That success means a complete log is far from inductive: it depends on where in
its list of steps the session is, on what it has seen, and on nobody else having
closed the sink. `HInv` has two halves. `Control` says who may be where: only the
first step of a list holds the gate, `finalized` goes with an open gate, and what
follows a finish comes only when the run has been finalized. `Phases` says which
script the session and the finalizer are in: a session that completes reaches
its finish with the terminal event accepted or an error kept (`Told`), and as long
as it is at work it holds its clone, so no finalizer exists. Each half is shown
for every action (`...Control`, `...Phases`); the drop of the last clone, which
changes two lists at once, needs both (`LastDrop`).

`RunFollowsFeed` is a refinement of the other kind: `HarnessRun` is the client of
the feed, `SessionStoreSink` its implementation. Each step of an owner is a step of
`DurableFeed` or leaves its variables alone, so whatever the run is shown to owe to
the feed it may owe to the sink (`Refinement`).

| Theorem | Says |
| --- | --- |
| `TypeCorrect` | type correctness, and who holds the gate |
| `SuccessComplete` | a run that reports success has its terminal event and everything that was emitted in the log |
| `RunFollowsFeed` | the run uses the sink only as `DurableFeed` allows |

`HarnessRunEndProofs` goes on from `HInv`. `Lists` says that an owner with steps
left holds a clone, that a helper is within one emission or at its end, and that a
session that is gone has at most the drop of its clone left. `Ends` follows the
finalization: once `finalized`, the run is settled or an owner is at it
(`Finishing`), and whoever gives its clone back leaves a settled run or somebody
with another clone, unless two drops overlapped (`OneReleases`, `Guarded`) or no
runtime carried the finalizer to its end (`stranded`, a case of `Settled`). `Once`
says that with a terminal event in the sequence nobody has another one left to
offer and no drop spawns a finalizer. `Follow` says that the exporters have the
canonical sequence, without its last event while an owner is at its `export`.
`Closers` says that whoever has a close ahead finds the sink open; since only one
owner can have one (`OneCloses`), the sink is left alone afterwards.

| Theorem | Says |
| --- | --- |
| `LastOwner` | without a clone the run was finalized, the three named exceptions aside |
| `OneCompletion` | the log holds at most one `thread.completed` |
| `ExportsInOrder` | an exporter has the canonical items in order; one that loses nothing has all of them |
| `SinkLeftAlone` | `ClosedSinkIsLeftAlone`: behind the answer of its close nobody offers the sink an event or closes it again |

`SubagentControllerProofs` holds for every finite tree of agents of depth two and
any callers (`ControllerAssumption`, `AbsentAssumption`).

The types already need to know which steps may stand in a list (`Plausible`): one
that works on a child presupposes its record, one that stores a handle the task it
is the handle of. `ClosedToSpawns` is an action property: only `Insert` brings a
record in, and it looks at the gates again. `DrainInv` says that a child which
reports its end with a prompt in the queue is about to be launched by a caller,
never by a task, which could be cancelled before it; a caller at that step stays
there until it takes it (`LaunchStays`).

| Theorem | Says |
| --- | --- |
| `TypeCorrect` | type correctness of every record, list of steps and handle |
| `MarkedTakesNoSpawn` | no step brings a child into a controller that is marked |
| `DoneIsDrained` | a child that is reported done has no prompt left, or is about to be restarted |

`SessionEventLogProofs` holds for every cap and every number of events, failures and
processes (`LogAssumption`; `AbsentAssumption`: the value for a missing file is
neither a manifest nor a marker).

`LogInv` has five parts. The types of the metadata need the existence of what a scan
and the plan of an eviction compute (`ScannedExists`, `EvictedTurnsExist`).
`Program` says which lists of writes can be left, so that a rewrite is carried out
only while its plan is defined. `Ordered` says that file and buffer hold ascending
ids, `CutKnown` that the hook has seen what the next rewrite removes, `Kept` where
the synced events are, in a file of whole records. `StoreInv` adds what the process
knows of the events it has taken: those not in the buffer are in the file, so a
step of the log is a step of `CanonicalStore`.

The four properties about recovery need to know what manifest, index and marker
tell of the event file between any two writes, since a process may die there.
`MetaInv` says it for a log without remains of a cut-short write (the condition of
these properties), and is inductive relative to `LogInv`. TLC checked it on the
instance of the run `log` before it was proved. Its parts:

- `Scheduled`, `Drained`: the index is written only behind the events, the manifest
  only behind the index, the marker is cleared only behind the manifest, and none
  of them while records are buffered.
- `BaseOf`, `Tracks`: the number of the first retained turn is the marker's if the
  marker matches the file, else the manifest's; the live state is a scan of file
  and buffer from this number. The exception is a rewrite that renamed the file and
  then failed to open it again: that handle is unusable, and the marker stays.
- `Fits`, `Written`: unless the marker matches, the manifest describes no more than
  the file, and one that describes all of it agrees with a scan, as does the
  index; what an operation has written is what its next write presupposes.
- `Marked`: a marker outlives its operation only if the operation failed.
- `Capped`: behind the plan and its rewrite an append is within the cap.
- `Numbers`: scanned turns have the numbers they were given, and no number of a
  turn that was completed and synced is free again.

Two facts about scans carry the proof. `ScanAppend`: `append` does to the live state
what a scan does at one more record. `EvictionIsScan`: what `apply_cap_eviction`
leaves of the live state, index entries shifted and counters reduced, is what a
scan of the retained records finds from the base the marker holds. The second needs
the order in which the drain hands in thread events (`Polite`, the environment of
section 3): otherwise the event that decides the thread's status could lie in the
evicted part.

`ApartTurnsAreDistinct` says how far the finding about turn numbers reaches. In file
and buffer a turn that starts before the open one has ended is all that gives a
number twice: if there is none (`TurnsApart`), the numbers of a scan rise
(`Rising`, an invariant of the scan), and `LiveIsScan` carries this to the live
state. It holds for any cap and whatever failed or died on the way, as long as no
remains of a cut-short write are left.

| Theorem | Says |
| --- | --- |
| `TypeCorrect` | type correctness; a rewrite has a plan |
| `EachOnce` | no event is in file or buffer twice or out of order |
| `SyncedKept` | a synced event is readable or was handed to the summary hook |
| `ImplementsStore` | the log implements `CanonicalStore`, process by process |
| `LiveIsScan` | the live state is that of a scan of file and buffer |
| `FastPathExact` | metadata trusted without a scan tells what a scan would |
| `TurnNumbersKept` | turns keep their numbers through every crash, also within a rewrite |
| `WithinCap` | behind an append the log is within its cap, or nothing may be evicted |
| `ApartTurnsAreDistinct` | unless a turn starts within another one, its number names one turn |

`A2aServerProofs` holds for every number of tasks, streams and clients, every set
of contexts and every capacity (`ServerAssumption`). `StoreInv` ties the indexes to
the tasks, `OrderedStore` says that the status times are a strict order of the
stored tasks with one youngest, and `GoodStreams` what a pipeline and its receiver
may hold.

`StreamsAreServed` is the safety half of `StreamsEnd`: an open stream whose pipeline
is done has its final event in the receiver's queue, behind the events it has not
taken yet, or has fallen behind, which ends it at the next `recv` (`Served`).
Eviction and cancellation do not matter, since the events carry their own copies.
What remains to `StreamsEnd` is that pipelines and receivers go on, which is
fairness. `StraysNamedNoContext` says how far the finding about stray messages
reaches: only a client that named no context is ever shown them.

| Theorem | Says |
| --- | --- |
| `IndexesAgree` | the indexes of the store agree, through every eviction |
| `EvictsOldest` | a task leaves only when it has ended, and before every ended task that stays |
| `TypeCorrect` | type correctness, the order of the status times included |
| `StreamsAreServed` | no open stream waits for a pipeline that is done |
| `StraysNamedNoContext` | an open stream that named a context shows what belongs to it |

Every safety property that a passing run checks has a theorem. Only model-checked
are the liveness properties (`CloseReturns`, `AcceptedIsSettled`,
`DroppedDrainReturns`, `DueTaskRuns`, `CallsReturn`, `StreamsEnd`), since fairness
is outside the prover.

## 6. Not modelled

`reconstruct_turn` and `complete` of the log are called by tests only. A second
process on the same session is not modelled: the code takes no lock between
processes. Loss of power is not distinguished from the end of the process except
through `sync_data`; directory entries are assumed durable. The rename of Windows,
which removes the destination first, is not modelled. A serialization error
inside `append` leaves the log unchanged and reaches the sink as a failed append.

Of the emitter, what each exporter writes; the headless paths (exec, the agent
runner), which emit from one task. Of the controller, background subprocesses,
the calls other than `spawn` that a child makes on its own controller, worktrees,
hooks and transcripts, and callers that are dropped halfway. Of the A2A server,
webhook deliveries, artifacts and history. That a late status update takes a
cancellation back is what the model does, and no document forbids it; it has no
property. In the scheduler two `create` commands between the count and their own
writes pass the task limit together, which no document promises either. Lists,
cron without a next time, service files, and a child process that outlives a
killed poller are left out.

The turn loop, the terminal interface, the providers and the configuration make
up most of the repository by lines. Their code shapes text, renders it or adapts
protocols; the turn loop decides by the content of model responses. A state model
of them would repeat their branches, and none is planned beyond the parts named
in section 2.
