# Verification of journio

journio runs *durable workflows*: a workflow body is ordinary async code whose
dealings with the outside go through a context (`ctx`) that journals them in a
database.  When a process dies, another execution of the body replays the journal
and goes on where the first one stopped.  This directory holds TLA+ models of
that machinery, the TLC runs that check them on small instances, and TLAPS
proofs of their main theorems for every instance.

Paths below are relative to the repository; `context.rs` is
`crates/journio-core/src/context.rs`, `pg` and `sqlite` are the two
`crates/journio-{postgres,sqlite}/src/lib_impl.rs`.

## 1. Inventory

| Component | State | Operations | Code |
|---|---|---|---|
| Durable execution | `operation_outputs` (journal), `notifications`, `workflow_events` + `_history`, `streams`; per execution: the step counter | `run_as_step`, `sleep`, `recv`, `send`, `set_event`, `get_event`, `write_stream`, `close_stream`; replay | context.rs 134-699, 2270-2374 and the statements they call |
| Workflow rows and executors | `workflow_status` (status, executor, queue) | start, execute, record result, cancel, resume, recover, delay, delete | context.rs 967-1084, 1370-1453, 1584-1730 |
| Queues | `queues`, queue columns of `workflow_status` | dequeue with concurrency, rate limit, partitions, priority; deduplication; worker loop | context.rs 1119-1146, 1334-1366, 1762-1777; pg 838-1041 |
| Child workflows | journal rows with `child_workflow_id` | `run_workflow`, `start_workflow` on ctx; `get_result` polling | context.rs 237-292, 844-915 |
| Patching | journal rows named after patches | `patch`, `deprecate_patch` | context.rs 731-783 |
| Fork | copies of all of a workflow's rows up to a step | `fork_workflow` | context.rs 1191-1226; pg 564-713 |
| Debouncer | an internal workflow, its message topic and acknowledgement events | `debounce`, `debounce_workflow` | context.rs 703-728, 1482-1580, 2168-2267 |
| Scheduler | `workflow_schedules` (last_fired_at, status) | due times, fire, pause, resume, trigger, backfill | context.rs 1779-1934; client.rs 241-401 |
| Stream reader | an offset | `read_stream` | context.rs 1295-1331, 1993-1998 |
| Notification waiting | waiter maps, a LISTEN connection | wait, notify, re-poll | pg 115-200, 1143-1165 |
| Client | none | forwards enqueue, schedules, versions | client.rs |
| Migrations | the version row, the schema | `run_migrations` at every launch and by every client | the two migrations.rs |
| Registry, configuration, errors, dialects | tables fixed at start | | workflow.rs, config.rs, error.rs, dialect.rs |
| Admin server, command line, UI, Node.js bindings | none of their own | front ends | crates/journio-admin, -cli, ui, bindings |

**How they interact.**  Everything shared is in the database; processes hold only
the contexts of the executions in progress.  A workflow body calls `ctx`, which
calls the `SystemDatabase` trait, whose two implementations issue SQL.  Most
operations are *two* database calls, the side effect and then its checkpoint,
and nothing makes the two atomic.  Workflows reach each other through
notifications, events, streams and results, all by polling the database.
Executors share queues by dequeuing with an UPDATE, and take over each other's
rows only by recovery (at launch, for their own executor id) or by the admin
server's `recover_workflows` (for any executor ids it is given).

**What is hard.**

- A process may die between any two database calls; a reply may be lost after
  the call took effect.
- One workflow may have several executions at once: recovery never asks whether
  an execution is in progress, it works through a list read earlier, and cancel +
  resume re-queues a row that is still being executed.
- Several executors dequeue from one queue at once; the limits are counted
  before the claim.
- Code changes between a run and its replay.
- Waiting: `recv`, `get_event`, `get_result`, `read_stream` poll with or without
  a deadline while the other side may be waiting, dead or not yet recovered.
- Loops with `?`: one failure ends an iteration that still had work for others.
- Several processes launch at once and migrate the same database.

**What makes each component correct.**

- Durable execution: a call has one outcome, whoever asks and whenever; the
  journal grows in call order; effects never run ahead of it; the tables agree
  with it; an ended workflow executed again keeps its SUCCESS but for named reasons; workflows end.
- Rows and executors: a row that is runnable is run by somebody; a cancelled or
  finished workflow stays so unless resumed; at most one execution unless
  recovery or resume makes another.
- Queues: limits, order among equals, no workflow lost or handed out twice.
- Children: one child per call of the parent, across replays; waiting parents
  wake.  Patching: old runs keep the old path.  Fork: the copy replays like the
  original.  Debouncer: the last input wins and runs once.  Scheduler: every due
  time fires once.  Stream reader: every entry, in order, then end.  Migrations: the
  version row vouches for the schema, and a launch that failed can be repeated.

The hazards of the code, each at its line and with the properties aimed at it,
are listed in `PROJECT.json`.

## 2. Plan

| # | Module | What | Composes | State |
|---|---|---|---|---|
| 1 | `OutcomeOnce` | abstract journal: an outcome is decided once, in order, and everybody is told the same | | done |
| 2 | `DurableExecution` | bodies, journal, replay, crashes, overlapping executions | implements 1 | done |
| 3 | `DurableExecution_proofs` | type correctness, all safety and action properties of 2, the refinement of 1 | 2 | done |
| 4 | `WorkflowLifecycle` | rows, executors, worker loop, recovery, cancel, resume, delay, deletion | | done |
| 4p | `WorkflowLifecycle_proofs` | type correctness and all its safety properties | 4 | done |
| 5 | `QueueDequeue` | dequeue under concurrent executors, both databases; limits, partitions, priority, deduplication | the claim that 4 leaves abstract | done |
| 6 | `ChildWorkflows` | parent and child, checkpoint after insert, awaiting results during launch recovery | journal as in 2, rows as in 4 | done |
| 7 | `ForkAndPatch` | patch markers in old and new code; what a fork copies, replayed like its original | journal as in 2 | done |
| 8 | `Debouncer` | message, acknowledgement and deduplication protocol | journal as in 2 | done |
| 9 | `Scheduler` | due times, deterministic ids, last_fired_at, pause, delete, backfill | | done |
| 10 | `StreamReader` | reader against writers and end of workflow; lost wake-ups bounded by the re-poll | streams as in 2 | done |
| 11 | `Migrations` | launches at once, crashes in and between scripts, online indexes | | done |
| 5p | `QueueDequeue_proofs` | both limits, deduplication | 5 | done |
| 6p | `ChildWorkflows_proofs` | whose child is whose, orphans, a parent's success | 6 | done |
| 7p | `ForkAndPatch_proofs` | a fork's steps before start_step are its original's; effects follow the journal; one branch; replays fit | 7 | done |
| 9p | `Scheduler_proofs` | no slot is lost | 9 | done |
| 10p | `WaitingCalls_proofs` | debounced inputs and the launch window; a stream's values in order, each once | 8, 10 | done |
| 11p | `Migrations_proofs` | what the version vouches for; the whole schema when launches do not overlap | 11 | done |

Abstract specifications: `OutcomeOnce` (journal).  Others worth stating: a queue is
a counting semaphore with hand-over; a schedule fires each due time once.

Every safety and action property that the runs check is a theorem as well, and so is the
refinement of `OutcomeOnce`.  What stays with TLC is liveness under fairness, which is
out of the prover's reach: `EventuallyTerminal`, `EventuallyDone`, `NothingStarves`,
`OnlySelfBlocked`, `SlotsFire`, `ReadersReturn` and `RetryLaunches`.

## 3. Durable execution

### `OutcomeOnce.tla`

The promise, with two variables: `decided`, the outcomes fixed so far, and
`observed`, those somebody has been told.  `Decide` fixes the outcome of a call
that has none and whose predecessor has one; `Observe` tells a decided outcome.

### `DurableExecution.tla`

The tables are variables named after what they hold: `status`
(`workflow_status.status`), `journal` (`operation_outputs`), `notes`
(`notifications`), `events`, `history`, `streams`.  `exec[s]` is the context of the
execution in slot `s`: its workflow, code version, step counter and where it is
between two database calls.  `seen`, `starts` and `faults` are history variables.

A body is a sequence of calls `[kind, dest, key, val, catches]`.  `catches` names
the error codes the body matches on and survives; any other error leaves it
through `?`.  Bodies do not branch on values and do not run steps concurrently.

| Action | Code |
|---|---|
| `InitWorkflow` | `run_workflow`'s row, inserted PENDING |
| `Start` | `execute_workflow`, after the insert, by launch recovery, by `recover_workflows`, or by a start with an id that has a row: the status is not looked at, so an ended workflow may be executed again |
| `ReplayStep`, `GoLive` | the look-up every operation begins with (`recorded_step`, `validate_recorded_step`): a recorded id decides the call, another one takes the id and runs |
| `RunStep`, `SetDeadline`, `Send`, `SetEvent`, `GetEvent` | the live half of `run_as_step`, `sleep`, `send`, `set_event`, `get_event` |
| `RecvMessage` / `PickMessage`, `ConsumePicked` | `consume_notification`: one transaction on SQLite; on Postgres the common table expression picks a row from its snapshot and the UPDATE takes it without a second look at `consumed` |
| `RecvTimeout` | the poll after the deadline finds nothing; `GetEvent` has its own branch |
| `CheckStream`, `AppendStream` | the sentinel query and the INSERT of `write_stream` / `close_stream`, two statements |
| `RecordStep` | `record_step_output`, a plain INSERT whose primary key refuses a second row |
| `Finish`, `FinishFails` | `record_workflow_result`, done or failed |
| `DbFails`, the second branch of `Reply` | a database call that fails before, or after, it took effect |
| `Crash` | the process or the task dies |

Abstractions.  Payloads and names are model values.  Time is only order: a
deadline has passed or has not, and since `created_at_epoch_ms` is the senders'
wall clock, any waiting message may be the oldest.  An INSERT into `streams` that
meets another with the same offset fails like any other database call.  A poll
that finds nothing before its deadline changes nothing and is no action.  A start with
a used id runs the body that the id had; a caller that passes another input, for which
the body would make other calls, is left out (`Body` depends on the version only).

### Runs

`MCDurableExecution` holds the bodies; every run bounds executions per workflow
by `MaxStarts = 2` (a first one and one more, after it or beside it), which is
enough for each hazard listed: each is about one replay or one competitor.
`MaxFaults` bounds database calls that fail.  The last permitted execution is not
killed, so that the bound never leaves a workflow that nobody may restart.

| Run | Question | Bounds |
|---|---|---|
| `exec_crash` | What do the tables say of each other when executions follow one another (SQLite)?  A recorded success has its effect, a send leaves at most one copy per execution, a stream keeps call order and nothing follows its closing entry, an event's value is its history's last, and SUCCESS is lost only for two reasons when an ended workflow is executed again | two workflows, all kinds of calls, one fault |
| `exec_overlap` | With two executions of one workflow at once, of two versions of its code (Postgres): replay agreement, contiguity, effects behind the journal, no message recorded twice although one may be handed to two executions, SUCCESS explained by one version, and refinement of `OutcomeOnce` | two versions, two `recv` of one topic, one fault |
| `exec_live` | Workflows that wait for each other, killed and restarted, end | `FairSpec`, one fault |

Deadlock is not checked: a system whose workflows have ended stops.

*Fairness* (`exec_live` only).  Weak fairness of each slot's own steps: a live
process keeps polling its futures (tokio), and a `recv` past its deadline returns
at its next poll.  Weak fairness of restarting a workflow that nobody runs: an
executor that is started again recovers its rows (`launch`).  Crashes and faults
have no fairness.  The runtime never times out a workflow itself, so without
restarts nothing could be promised.

*Why some properties assume one execution at a time or* `WellBehaved`.  The
stream order, the event history and `SuccessIsKept` do not hold when two
executions overlap: the code then has an interleaving that breaks each (an entry
after the sentinel; an older `set_event` committing last; ERROR, from the loser of
a race, over SUCCESS).  They are stated for the runs without `Overlap`.  Even then
SUCCESS is not final: nothing but CANCELLED is protected, and an ended workflow is
executed again by a recovery that read its list before the end or by a start with its
id.  `SuccessIsKept` says which failures of such a replay reach the row: a database
call that fails, and a recorded error that the body had caught by its code and that the
replay returns as `StepExecutionError` (in `exec_crash`, the timed out `recv`).
`WellBehaved` says that bodies let the runtime's own, unrecorded errors through:
a body that swallows a lost reply goes on past a call that has no journal row.

## 4. Proofs about the execution of a workflow

`DurableExecution_proofs.tla` proves, for all workflows, bodies, slots, versions
and bounds:

- `TypeCorrect`: `Spec => []TypeOK`.
- `ReplayIsFaithful`: `Spec => []ReplayAgrees`.  The invariant is `JournalInv`:
  a journal key has one row, and whatever was told as recorded has a row with
  that name and outcome.  `ReplayAgrees` alone is not inductive, since it does not
  say where an observation came from.
- `JournalHasNoGaps`: `Spec => []JournalContiguous`, and
- `EffectsNeverRunAhead`: `Spec => []EffectsFollowJournal`, both from `PrefixInv`:
  an execution at call `i` that may still go on has every earlier call on
  record, and so have the rows and effects.  This needs `WellBehaved`: an execution
  that keeps going after an unrecorded error breaks it.
- `JournalImplementsOutcomeOnce`: under `WellBehaved`, `Spec => Outcomes!Spec`.
  From `JournalInv` and `PrefixInv`: `ReplayStep` maps to `Observe` (what is replayed
  was decided), `RecordStep` to `Decide` (`PrefixInv` gives the order, the primary
  key that nothing was decided), and all other steps to stutters.

Most of the others start from `StepContexts`, which sorts every step by what it
does to one context and to the journal: enter, leave, go live, work on, fail, replay
or record.  With it a step invariant about contexts needs seven cases, not nineteen.

- `SuccessExplained`: `Spec => []SuccessIsExplained`.  The invariant,
  `ExplainedInv`, says of an execution in progress what the property says of one
  that has succeeded: each call up to here is on record under its name.
- `CopiesAreBounded`: `Spec => []SendCopiesBounded`.  The bound alone is not
  inductive: another execution may be about to send.  `CopiesInv` counts those too:
  copies of a call's message, plus executions that may still send it, never
  exceed the starts.
- `RowsFollowEffects`: `Spec => []JournaledEffectsHappened`.  `SoundInv` carries the
  claim back to the context that is about to write the row: one that is about to
  record has its effect in a table, one that has picked a message is in a `recv`
  of its addressee.  Effects stay (`EffectsGrowStep`) and so does a mark
  (`NotesGrowStep`).
- `OneReceiptPerMessage`: `Spec => []MessageJournaledOnce`, by two different
  invariants.  On SQLite (`ExclusiveInv`) a context that holds a message is the
  only one that ever had it.  On Postgres two executions may hold one message,
  and `OrderedInv` says that neither is past the row that has it; since the
  journal has no gaps (`PrefixInv`), the row a holder may still write lies before
  that row and so exists already.  This is where `WellBehaved` is needed.
- `SuccessIsForGood`, for `~Overlap`: `Spec => SuccessIsKept`, from `Alone` (an
  execution has no rival), `JournalInv` and `ExplainedInv`.  `KeptInv` says that an
  execution of a workflow that has succeeded is a replay: since every call of the body is
  on record, once, under its name, it never goes live, and a failure that leaves its body
  is one of the two named ones.
- `StreamsStayInOrder` and `EventsStayLatest`, for `~Overlap` and `WellBehaved`:
  `Spec => []StreamWellFormed` and `Spec => []EventIsLatest`, from `Alone`, `Fresh`
  (the call in progress is not on record) and `EffectPrefix`, which together say
  that no entry and no history row lies ahead of the call in progress
  (`NothingAhead`).  Without `WellBehaved` both fail: a body that survives a lost
  reply goes on ahead of the journal, and its replay writes again what came before.
  The bodies of the `exec_*` runs are all well behaved.

They assume only `BodyAssumption` and `BoundsAssumption` of `DurableExecution`,
which TLC evaluates in every run.  Every invariant and action property of the `exec_*` runs is
proved; liveness (`EventuallyTerminal`) is model-checked only, as fairness and
`ENABLED` are beyond the prover.

## 5. Workflow rows and executors

### `WorkflowLifecycle.tla`

`row[w]` holds the columns of `workflow_status` that decide who runs what: status,
executor, queue, and whether `delay_until` has passed.  `proc[p]` says whether
process `p` is down, launching or up; `runs` is the set of executions in progress,
each with its process, its caller (and a number, `no`, for those started under a
used id): `launch`, `admin` (`recover_workflows`),
`worker` (the queue worker loop) or `task` (`run_workflow` and
`start_workflow_background`).  `todo[p]` holds the lists that launch and
`recover_workflows` have read and not yet worked through; `worker[p]` is the
worker loop: at its head, scanning the queues it listed, holding a picked row, or
executing.  What a body does is left out: `EndRun` gives it any result.

| Action | Code |
|---|---|
| `Enqueue` | `enqueue_workflow`; `init_workflow`'s upsert changes neither status, executor nor queue of an existing row |
| `RunWorkflow`, `StartAgain`, `StartFails` | `start_workflow` for an execution at once (`run_workflow`, `start_workflow_background`), with a fresh id, with a used id, with a lost reply; the upsert (`Upsert`) makes an existing row this executor's, even when the call is then refused because the row has another function or queue; otherwise the workflow is executed, whatever the row's status and whoever executes it already |
| `Launch`, `RecoverNext`, `Launched` | `launch`, `recover`: one workflow at a time, the first error ends it |
| `Recover`, `RecoverNext` | `recover_workflows`, for any executor id |
| `BeginScan`, `Pick`, `Claim`, `WorkerExits` | `run_queue_worker_loop`, `run_all_queues_once`, `run_queue_once` and `dequeue_workflow`, its SELECT and its UPDATE as two steps (SQLite; Postgres' row lock allows fewer behaviours); the limits in between are in `QueueDequeue` |
| `EndRun`, `RecordFails` | `execute_workflow`'s end and `record_workflow_result` |
| `Cancel`, `CancelAllBefore`, `Resume`, `SetDelay`, `Delete`, `Deactivate` | the operators' commands |
| `Crash`, `DequeueFails` | a process dies; a database call of the worker fails or its reply is lost |

Abstractions.  Any due row of a queue may be picked and a recovery list may be
worked through in any order: both orders are by `created_at`, the wall clock of
whoever inserted the row, and limits and priorities are left to `QueueDequeue`.
Queues are scanned in any order.  Every row has an input, as every row
`start_workflow` inserts has.  When launch returns an error its process ends, as
in all of the repository's examples, which return it from `main`.  `cancel_all_before` on Postgres asks for
`LIMIT 0` rows (`LimitZero`; the `life_*` runs take SQLite's, which lists all).
Workflows are started by a process only after its `launch` has read its recovery list: the
code does not prevent an earlier start, whose workflow launch would then execute
a second time.

### Runs

| Run | Question | Bounds |
|---|---|---|
| `life_safe` | Is every waiting row on a queue?  Does every PENDING row name an executor some process runs under, and does that executor run it, is it about to recover it, or is it down (but for what the history variable `stranded` holds)?  Is a workflow nobody interferes with executed once at a time, where its row says?  Can anything stale (an execution, a recovery list, a picked row) make an ended row run again? | two workflows, two processes, one of them without one registration, a client that enqueues; two disturbances (commands, starts under a used id, crashes, faults) in any combination: cancel and resume, crash and fault ... |
| `life_live` | Does every runnable row end? | `FairSpec`, two workflows, two processes, a client and a process that enqueue, one disturbance: a crash, or a cancel, resume, delete, deactivation or new delay |

*Fairness* (`life_live`).  A process that is down is launched again, its worker loop
and its launch take their next steps (tokio schedules their tasks), bodies end, and time passes.
No fairness of crashes, commands or faults: after a failed call a row may stay
PENDING until its process is restarted, which is what `PendingHasRunner` is
careful to except, so `life_live` has no faults and all functions registered.
Nor does it have starts under a used id: refused, one may leave a row PENDING of a
process that is up and does not run it, as a fault does, while the process that
runs it stops before the end; TLC finds the workflow waiting for ever then.

*Stranded.*  A row is in `stranded` from the call that fails, the claim without a
registration or the refused start, until a launch of the executor it names lists
it.  What `PendingHasRunner` says of such rows is its first conjunct: they name an
executor that some process runs under, so that a launch can find them.  The second
conjunct is about all other rows, and says that nothing else (a crash, a failed
launch, a stale list, a claim that another worker overtook, a second start) takes
a PENDING row's runner away.

`SoleExecution` excepts the workflows in the history variable `exposed`: those
queued under the executor id of a process (which its launch recovery would
execute too), started again under their id (two `start_workflow_background` calls
with one id both execute it), resumed, deleted, or handed to `recover_workflows`.
Each exception is one the code has: with any of the five left out, TLC finds the
invariant broken, given all disturbances and both enqueuers of `life_live`.  (`life_safe`
leaves deletions out, and its only enqueuer is the client: there `recover_workflows` is
what executes a waiting row on the spot.)



### Proofs

`WorkflowLifecycle_proofs.tla` proves, for any workflows, processes, executors,
queues, registrations and number of disturbances, from `DeploymentAssumption`
alone (TLC evaluates it in every `life_*` run):

- `TypeCorrect`: `Spec => []TypeOK`.
- `QueuedAlwaysListed`: `Spec => []QueuedIsListed`, and `EndedForGood`:
  `Spec => EndedStaysEnded`.  Both follow from one lemma, `RowMoves`, which lists
  what a step may do to a row (start it, claim it, end it, delete it, put it back
  on a queue), whatever the action.
- `PendingIsRunning`: `Spec => []PendingHasRunner`.  It is inductive given `TypeOK`.
  A step either loses nothing that keeps the row running (`QuietKeeps`), or takes
  a process down, whose executor is then not alive (`GoneKeeps`), or ends the
  execution, and with it the row, or leaves it `stranded`.  A launch takes rows out
  of `stranded` only as it lists them.  That the executor of a PENDING row is some
  process's follows from `RowMoves`.
- `OneExecution`: `Spec => []SoleExecution`.  The invariant is `SoleInv`, one
  conjunction (`Sole`) per workflow that is not `exposed`: an execution or a
  launch list that has `w` is of the process its row names; `w` is not in two of
  them; a row that waits names no process (so that launch does not list what a
  worker may claim); `recover_workflows` has not listed it.  `SoleExecution` alone
  is not inductive, since it says nothing of lists, which become executions.  That
  launch starts no second execution of a row rests on a lemma about restarts, that
  a process that is down has no executions, lists or worker loop.

`DistinctExecutors` is a hypothesis inside `SoleExecution`: two processes under one
executor id would both recover its rows, and the code does not prevent it.
`EventuallyDone` is model-checked only.

## 6. Queues

### `QueueDequeue.tla`

`dequeue_workflow` statement by statement, for several workers at once, on either
database (`backend`).  `row` has the queue columns of `workflow_status`, `deq[x]` is
where worker `x` is in the chain (`check`, `rate`, `claim`), what it has listed and
locked, and the clock reading it works with.

| Action | Code |
|---|---|
| `RegisterQueue`, `Enqueue` | `register_queue`; `enqueue_workflow` under `validate_queue_assignment` and the unique index on queue and deduplication id |
| `ListCandidates` | the queue's row and the SELECT, with `FOR UPDATE SKIP LOCKED` on Postgres |
| `CheckConcurrency`, `CheckRate`, `NothingToRun` | the two counts, per partition on a partitioned queue; a refused candidate is passed over |
| `Claim` | the UPDATE, which looks at the status again and at nothing else, and the commit |
| `EndRun`, `Launch`, `RunRecovered` | `record_workflow_result`; recovery, which executes a row past every limit |
| `Cancel`, `Resume`, `Crash`, `Tick` | commands, failures, the clock |

The counts are taken before the claim and nothing holds them, so **the limits are
not hard**: two workers that count at the same time exceed either by one claim
each.  What the code does keep is stated over the rows that no worker claimed
between another's count and claim: the history variable `loose` has the others.
Dropping `loose` from `ConcurrencyBound` or `RateBound` makes TLC find the two
workers.  `worker_concurrency` and `priority_enabled` are stored and never read.

Run `queue`: two workflows (with a partition key and a delay; with a better
priority, a deduplication id and no key, enqueued before its queue is registered),
two workers, a partitioned queue with both limits 1 and the internal queue, both
databases, one command or crash, two clock values.  Two rows and two workers are
enough for every hazard listed: each is about one row or worker in the way of one
other.

*Fairness.*  A worker takes its next statement, bodies end, and the loop that lists
queues comes to every queue again (`SF` of `ListCandidates`: with `WF` a worker that
another keeps ahead of need never list).  A dead worker is not assumed to be
restarted; `Held` names what may keep a row waiting then.

*Proofs.*  `QueueDequeue_proofs.tla` proves, for any workflows, workers, queues and
configurations, from `QueueAssumption`:

- `TypeCorrect`: `Spec => []Typed`.  `Typed` also says that finitely many rows
  exist, without which the cardinalities of the limits would mean nothing.
- `ConcurrencyIsBounded` and `RateIsBounded`: `Spec => []ConcurrencyBound` and
  `Spec => []RateBound`, from `LimitsInv`.  The bounds are not inductive: a claim
  writes without looking.  `Vouched` adds what the worker that is about to claim
  knows: unless it was overtaken, its count still leaves room for one row.
  `ScanKept` shows that no step but a claim on the same queue can spoil a count, and
  `Overtaken` records the workers that one spoils; `OneMore` then takes the claim.
- `DedupIsExclusive`: `Spec => []DedupExclusive`, from `DedupInv`: the unique index, a
  row nobody cancelled or resumed keeps its id in the index until it ends, and only
  the worker that claimed it holds it (its own launch's list included).

`NothingStarves` is liveness and model-checked only.

## 7. Child workflows

### `ChildWorkflows.tla`

`rows` is a sequence of workflow rows (fresh ids in the order of `created_at`), each
with `kids`, the children its journal names step by step.  A task (`task[p][s]`) is a
future that executes workflows: a stack of executions, each called by the one
below it, and what is left of the list it works through (`launch`, `admin` or none):
a list in order of creation is the set of its ids, of which the least comes next.

| Action | Code |
|---|---|
| `RunRoot` | `JournioContext::run_workflow` |
| `ReplayCall` | a recorded child: `WorkflowContext::run_workflow` returns its handle and executes nothing |
| `InsertChild`, `CheckpointChild` | the child's row, then the parent's checkpoint, then the execution inside the parent's future; the checkpoint may find its step taken, or the parent's row deleted |
| `GetResult` | `get_result` without a timeout, polling |
| `EndBody` | `execute_workflow`'s end, and whoever awaited it |
| `Launch`, `RecoverNext`, `Launched`, `RecoverWorkflows` | recovery, one workflow after the other |
| `DeleteWorkflow`, `GatherChildren`, `DeleteRows` | `delete_workflows` with or without `delete_children`: descendants are looked up query by query, then deleted; a child inserted meanwhile survives |
| `Cancel`, `Crash` | |

Run `child`: bodies that call and await a child which calls another; one whose child
fails; two processes; two faults (crash, recovery by the other process, a
cancellation, a deletion).  `OnlySelfBlocked` says what can keep a workflow from
ending: a recovery list that awaits a row behind it in the same list, and the
deletion of a workflow that is awaited, since `get_result` polls a missing row as if
it were still to come.  The first is a launch that never
ends: section 13.

*Fairness.*  Every task goes on, a process that is down is launched.  A second
execution of a step that lost the checkpoint leaves an orphan row that nobody
executes before its executor restarts: `OrphansBounded` counts these, and
`OnlySelfBlocked` excepts them.

*Proofs.*  `ChildWorkflows_proofs.tla` proves, for any bodies, names, processes and
numbers of roots and faults, from `ChildAssumption` (which says that a body awaits
nothing before its first call), `Spec => []IInv` and from it:

- `ChildrenOfTheirSteps`: `Spec => []ChildOfItsStep`.  A journal alone does not say why
  the next child fits: the execution does.  Each is at an operation of its body with as
  many steps behind it as there are calls before that operation (`FrameOK`); a child
  between its row and the checkpoint is that of the operation its parent is at
  (`InCall`), and nobody else's (`Fresh`), which is why no second step can name it.
- `SuccessNeedsItsChildren`: `Spec => []SuccessNeedsChildren`.  Every child behind an
  execution has succeeded, but for the one that it called last and awaits next
  (`Behind`, `Awaited`): the handle that a replayed call returns says nothing of its
  child, the `get_result` after it does.  And a row that says SUCCESS has called all that
  its body calls, so that no execution can add a child afterwards (`SuccessOK`).
- `OrphansAreBounded`: `Spec => []OrphansBounded`.  The bound is not inductive, since an
  execution leaves an orphan after it was counted.  `Counts` adds the executions that may
  still leave one or succeed (`Live`), each of which can do one of the two, once: it
  stops being live with the child's row and is again with the checkpoint, which makes
  the child no orphan.

A stack is linked by its calls (`StackOK`), so that the execution to which one returns
is known to be in the call of just that child.  `OnlySelfBlocked` is liveness, and
model-checked only.

## 8. Patches and forks

### `ForkAndPatch.tla`

`wf[w]` holds a workflow's rows in all the tables a fork copies: journal, event,
event history and stream; `exec[w]` its execution; `deployed` the version of the
code that executions begin with.  The four versions (`Code`) are the life of a patch:
old code, `patch`, `deprecate_patch`, new code.  What stands `Before` the branch, in its
`Old` and its `New` version and `After` it are constants: any steps, events and stream
writes, none at all included.  `Deploy` is the operator's discipline
(a version goes when no workflow is active that began two before).

| Action | Code |
|---|---|
| `Replay`, `Mismatch`, `Checkpoint` | `recorded_step`, `validate_recorded_step`, `record_step_output` |
| `TakeEffect` | `set_event`'s upserts, `write_stream`'s INSERT, before the checkpoint |
| `Patch`, `DeprecatePatch` | `patch`: a marker uses a step, another operation's row does not; `deprecate_patch` |
| `ForkAtOnce` | SQLite's transaction, which sees one snapshot |
| `BeginFork`, `CopyNext`, `CommitFork` | Postgres' transaction (READ COMMITTED): each statement sees what is committed when it runs |
| `Crash`, `Deploy` | |

Run `fork`: one workflow and its fork, four versions, two crashes, both databases,
forks at steps 0, 2, 3 and 4.  `ReplaysFit` and `OneBranch`: what may a deployment
break?  Only forks of workflows that began before it, and no journal ever mixes the
branches.  `ForkFromStart`: a fork inherits exactly the steps before `start_step`.
`EffectsAreJournaled`: events and streams agree with the journal in the end, but for
a crash between an effect and its checkpoint, or a fork of a workflow that was still
active, whose effects may be copied without the step (the history field `torn`).

*Proofs.*  `ForkAndPatch_proofs.tla` proves, for any code, workflows, start steps,
crashes, forks and forks of forks, on both databases, from `CodeAssumption`:

- `ForkKeepsItsStart`: `Spec => []ForkFromStart`, from `IInv`.  Every step of a journal
  was executed by its own workflow or is `Copied`, which says that the original
  still has it and that it lies before `start_step`; journals only grow and rows stay,
  so nothing a step does to another workflow can spoil that.  Of a fork in progress on
  Postgres, whose row nobody else sees yet, all that it has is copied (`Forking`).
- `EffectsFollowTheJournal`: `Spec => []EffectsAreJournaled`, from `EInv`.  Of a workflow
  that is not `torn` the tables show, at all times, the steps of its journal and the
  one that is `Pending`: its effect is there and its checkpoint is not.  Such a step
  comes right after the journal (`Executing`), which is why streams stay in the
  order of their steps.  The copies a fork makes one after the other are all of one
  state, since the original is over (`ForkShows`): an active one makes the fork `torn`.
- `BranchesAreKept` and `PatchedReplaysFit`: `Spec => []OneBranch` and
  `Spec => []ReplaysFit`, from `BInv`.  There are three ways through the code: the old
  one, the new one with the marker, and the new one alone.  Every journal begins one
  that may have been walked since its workflow began (`MayWalk`); an execution runs the
  deployed version, or the one before if the workflow began under it, and it has
  before it what is left of the way it took (`Running`).  The forks for which this
  cannot be said (`Left`: they are older than the discipline of `Deploy` allows) fail at
  the branch rather than mix: a journal with a step of the old branch has one at the
  place of the branch (`Unmixed`), and there the new code meets a step of another name.

The last argument is where `BranchAssumption` is needed: the two branches do not both
begin with an event, or both with a stream write.  A step is recorded under its own name
(the model takes steps of different branches to be named differently), but all events
share one recorded name and so do all stream writes.  Without the assumption TLC finds
`OneBranch` violated, say with the branches `event` and `event, step`: a fork of a
workflow that began before the patch takes its old event for the new one and goes on
along the new branch.

## 9. The debouncer

### `Debouncer.tla`

One key.  `call[c]` is a call of `debounce_workflow`, `deb` the debouncer workflows in
the order of their rows, each with its message queue, acknowledgement events,
journal and execution, `target[t]` the row of a workflow to start.  `options` says how
targets start, and which target each call names: a new id, or one that the caller
chose (`DebounceOptions.workflow_id`) and another call may choose too.

| Action | Code |
|---|---|
| `Enqueue`, `Refused`, `Find`, `Send`, `Return`, `GiveUp` | `debounce_workflow_inner`: enqueue under the key's deduplication id; if refused, find the debouncer, send, wait two seconds for the acknowledgement, or start over |
| `CallAgain` | a caller that is a workflow is replayed: same ids, the call again |
| `Run`, `StartTime`, `LoopTime` | `InternalDebouncerWorkflow::run` and its `durable_now_step`s |
| `Consume`, `Receive`, `RecvTimeout`, `ReplayRecv`, `ReplayTimeout` | `recv`, live and replayed |
| `Acknowledge`, `Launch`, `LaunchRefused`, `Executed`, `Finish` | `set_event`, the target's start, the end |
| `Crash`, `TargetEnds`, `Tick` | |

Run `debounce`: two calls, one of them by a workflow, each with a target of its own or
both with the same, one crash or replay, one wait given up, three debouncers, delay 2,
timeout 3, five units of time, targets started inline, queued, or queued with a
deduplication id.

`InputCarried`: a call that has returned has its input in the debouncer it returned
through; and the last input of a debouncer that has ended has reached the target.  Where
it cannot, it says why:

- On a queue, a row that another debouncer inserted for the same id, be it of the same
  call, replayed, or of another call with the same `workflow_id`, is left as it is:
  this debouncer succeeds, and the inputs it acknowledged are lost.
- Inline, `start_workflow` executes the target again with this debouncer's input,
  whatever its row holds (`Launch`), so that input does reach it.  If the target
  fails, the debouncer fails with it (`Executed`), after the fact.
- A debouncer whose recorded timeout is replayed ends in ERROR (`ReplayTimeout`): the
  error that comes back has another code than the one recorded.  `TimedOut` allows that
  only when the execution was interrupted after the timeout.
- So does one whose target's deduplication id is taken (`LaunchRefused`).

`LaunchWindow`: when may a debouncer start its target?  The delay counts from the
loop's time, not from the message.  `set_event` is one step here (its inside is in
`DurableExecution`), and a step takes no time.  A target on a queue, or one whose
debouncer was interrupted, ends on its own (`TargetEnds`); what a second execution of a
target does to its journal and its row is in `DurableExecution`.

*Proofs.*  `WaitingCalls_proofs.tla` proves `InputsAreCarried`: `Spec => []InputCarried`,
and `TargetsStartInTheWindow`: `Spec => []LaunchWindow`, for any callers, delays,
timeouts and bounds, from `DInv`.  The journal tells everything: after `n` entries which
operation comes next (`Stage`), what the last input is (`LastBy`) and when the target is
due (`DueBy`).  An execution, live or replaying, is where its journal says (`OnTrack`);
until it is interrupted it never lets the clock pass the time it has to keep
(`OnTime`); nothing follows the launch, so that what a target was started with stays
the last input (`Kept`, `StartedBy`, `Gave`); a debouncer that fails was excused by one
of the reasons above (`Excused`); and only a call that is made again has a second
debouncer (`Once`).  That a set of entries has a last one is proved from
the least-number principle (`WFMin`), so no induction over journals is needed.

## 10. Schedules

### `Scheduler.tla`

`sched[s]` is a row of `workflow_schedules`, `runs[s]` the slots that have a workflow
row, `pass[p]` process `p`'s walk through the rows it read.

| Action | Code |
|---|---|
| `List`, `ReadClock`, `LookAt`, `PassOver`, `Fire`, `Fail`, `Advance`, `Sleep` | `run_scheduler_once` and its loop |
| `Create`, `Register`, `Pause`, `Resume`, `DeleteSchedule`, `Trigger`, `BackfillSchedule` | the client's and the context's operations |
| `Crash`, `Tick` | |

The options of a schedule are a record: its slots (the cron expression),
`automatic_backfill`, and whether its queue accepts its workflows.  `Create` and
`Register` replace them, as `upsert_schedule` does.  Of a replaced `workflow_name` or context
nothing is said: the slot's id does not have them, so that a slot enqueued under the
old row counts for the new one, in the code and here.

Run `schedule`: two processes; a schedule whose queue refuses it, unless it is paused,
and after it one that has `automatic_backfill` and two slots or neither of them and one; one
command, one crash, time up to 2.  `NoSlotLost`: `last_fired_at` never passes a slot without
a workflow, through races of two passes, a crash between the two writes, or a row
replaced, paused or deleted in between.  One exception the code has: a pass writes
`last_fired_at` to a row that has been replaced since the pass read it.  If the new row
has other options, slots owed under these and no others are passed over for good.  The
history field `from`, from which a row's slots are owed, is raised by such a write.
(Without that TLC finds a row without backfill that is read, then replaced by one with
backfill and an earlier slot.)  `SlotsFire`: each slot owed fires in the end (weak
fairness of each process's loop, which tokio keeps polling), except for schedules behind
one that is refused: an error ends the pass, and the next begins with the same schedule.

`register_schedule`'s option `last_fired_at` is left out: with it a pass in progress
writes its own value over the one registered, and `NoSlotLost` fails.  The time zone
that `backfill_schedule` ignores, and the application version that `trigger` and
`backfill` attach, are left out too.  A queue that does not refuse accepts.

`Scheduler_proofs.tla` proves `NoSlotIsLost`: `Spec => []NoSlotLost`, for any
processes, schedules, options and clocks.  The table alone is not inductive.  What is
needed besides (`PassInv`) is what a pass may still write: a row it has read tells the
truth about the row there is now if that has the same options, for if it was replaced
meanwhile it is younger than everything the pass has read; and every slot between the row it has read
and what it will write is enqueued already or in `due`.

## 11. Streams and their readers

### `StreamReader.tla`

`reader[r]` is a call of `read_stream` between its queries, `writer[x]` an execution
between the sentinel check and the INSERT, `notify` a notification under way.

| Action | Code |
|---|---|
| `Read` | `read_stream` of the system database: one query, up to the closing row |
| `ReadStatus`, `Wait`, `WaitOver` | the status, `wait_for_stream`, `LISTENER_WAIT_CAP` |
| `CheckClosed`, `Insert` | `write_stream`, `close_stream`; the trigger's NOTIFY and the process's own waiters |
| `Listen`, `Drop` | `run_listener_loop`, which may lose its connection and what came before it listens again |
| `Due`, `Execute`, `Leave`, `End` | the workflow |

Run `stream`: two readers, one of them in the writers' process, two executions, two
entries, one lost connection, both databases.  `InOrder`: values come in order,
from the offset on, none twice and none left out up to the reader's own offset, and
none beyond the closing row, although two executions write and close at once.
`ReadersReturn`: every call returns whatever wake-ups are lost, given weak fairness
of the reader and of the workflow (`WF` of its due time, start and end).  What a
reader may miss are values at the end: one that is inserted between the query and
that of the status, before the workflow ends, is not returned although the call
says `closed`.  A DELAYED workflow counts as inactive, so that a reader that comes before
it is due returns at once.

`WaitingCalls_proofs.tla` proves `ReadInOrder`: `StreamSpec => []InOrder`, for any readers,
writers, offsets and entries: a reader's offset is where its values end, and rows are
only appended.  The module holds the proofs of the two calls that wait, this one and
that of section 9; they share nothing, and the specification of streams has names of its
own (`StreamInit`, `StreamNext`, `StreamSpec`) so that one module can extend both.

## 12. Migrations

### `Migrations.tla`

`versions` has the rows of the version table, `schema[o]` says whether a table, column
or index is absent, there, being built or invalid, and `at[p]` where a launch is:
the version it has `seen` or reached, the statement of a script it is at, the
invalid indexes it is to drop.

| Action | Code |
|---|---|
| `Begin`, `Finish` | `run_migrations` up to its loop, and the end of it |
| `ApplyOffline` | Postgres: the script and its version in one transaction |
| `LookForInvalid`, `DropInvalid`, `RunOnline`, `FinishBuild` | Postgres: `cleanup_invalid_indexes`, then the one statement of an online script, then the version |
| `ApplyStatement` | SQLite: each statement of a script commits by itself |
| `WriteVersion` | `bump_version`, and SQLite's write of the version |
| `Fail` | a launch dies, loses its connection or is a deadlock's victim; what it was building or dropping stays behind, invalid |

`Init` is a new database or one of any earlier release.  The list of the instance
has one script of each kind that occurs, in the order they occur in: tables with an
index, an index that a later script drops, one that finds what it makes (Postgres 10 and
20), a column, an index dropped and built again under its name, a column added late (`IF NOT EXISTS` on Postgres, without it on
SQLite, as in the two migrations 33), an index dropped for good.  That
`CREATE` and `DROP INDEX CONCURRENTLY` lock their table against each other and against
`ALTER TABLE` is PostgreSQL's, and external.

Run `migrate`: two processes, two failures, both databases.  `VersionTells`: the
version row vouches for tables and columns in every interleaving.  `CompleteWhenAlone`:
for indexes it does so only while no two launches have overlapped.
(Dropping `~overlapped` makes TLC find a launch whose clean-up drops an
index that the other is still building, and one that repeats the DROP of a
script after the other has gone on to build the index again.)  `RetryLaunches`: a
launch that fails can be repeated until it succeeds, as `bindings/nodejs/README.md`
advises, with two exceptions the code has.  On SQLite a launch that dies between
the statements of a script, or before the version, leaves a database whose every later launch
fails on what is there already.  And launches that overlap may rewind the version:
one that lags behind, while another goes through the whole list, applies a script
that succeeds once more and writes its number, after which it, and every later
launch, fails at the next script that adds what is there.  Such are the scripts that
find what they make (10 before 11 to 19, 20 before 21) and those whose index a later script
drops (3, dropped by 35); `Rewinds` has both, and the run has both.  On Postgres a database
of version 20 or later is safe, one of an earlier version if its first launch is alone.

*Fairness.*  A launch goes on, and an application whose launch failed launches again.

`Migrations_proofs.tla` proves `VersionIsTrue`: `Spec => []VersionTells`, for any lists
of scripts of which `ScriptAssumption` holds and any number of launches and failures.
The invariant has three ideas.  What a script alone adds is never touched again: not
by another script, and not by the clean-up, since it is never an index under
construction (`OwnedSound`).  What a launch has `seen`, or done of the script it is at,
is there (`Vouched`, `Placed`).  And there are never two version rows, though a
launch that saw none inserts one: only one launch can have created the first
table (`OneCreator`), and on Postgres it has then written the version as well.

It also proves `SchemaIsComplete`: `Spec => []CompleteWhenAlone`.  While launches come
one after the other the schema is what the scripts up to the version row make of it,
but for what the next script names (`Fits`), of which no more is known than that
SQLite and the offline scripts leave nothing invalid: each kind of statement, when it
succeeds, ends the same whichever half of its script it found done.  What a launch has
done of its script (`Done`) carries the argument through the crashes: an online script's
launch knows every invalid index, so that `IF NOT EXISTS` never meets one.

## 13. Where the code and its documentation part

Met while modelling and shown by the models, without a run of their own.  Each is
a behaviour that the properties above take care to except.

- *A launch that never ends.*  Launch recovery executes the PENDING workflows one by
  one, oldest first (context.rs 1381).  A recovered parent gets a handle to its
  child without executing it (context.rs 261) and waits in `get_result` for a row
  that the same launch, further down its list, would execute.  The queue and
  scheduler loops are never spawned.  (`SelfBlocked` in `ChildWorkflows`; without it
  `OnlySelfBlocked` is violated.)
- *Effects that are repeated or lost.*  Killed between its INSERT and its checkpoint,
  `send` sends and `write_stream` appends twice.  Killed between consuming a message
  and recording it, `recv` loses it.  Killed between its two calls,
  `close_stream` meets its own closing row when recovered, and the workflow fails.
- *Errors that change.*  A recorded `TimeoutError` is replayed as
  `StepExecutionError`, which a body that matches on codes, the debouncer among
  them, takes for another one.  The error of a `send` to a workflow that does not
  exist yet is not recorded, and its replay may succeed.
- *Recovery and queues.*  Launch recovery also takes ENQUEUED and DELAYED rows of
  its executor id and executes them on the spot, due or not, while others may
  dequeue them.  A deactivated worker goes on dequeuing until its queues are empty.
  On Postgres `cancel_all_before` cancels nothing: its `limit: Some(0)` becomes
  `LIMIT 0`.
- *Starts under a used id.*  `start_workflow` executes a workflow whose id already
  has a row, whatever its status, so two background starts with one id run it
  twice.  If the row has another function or queue the call is refused, but the
  upsert has made the row this executor's (pg lib_impl.rs 268-272): PENDING, it is
  then recovered by neither the process that runs it nor, until its next launch,
  the one it names.
- *Patches.*  Events share one recorded name, whatever their key (`journio.setEvent`), and so
  do stream writes.  If both branches of a patch begin with one of these, the
  check of a replay cannot tell them apart, and a fork of a workflow older than the
  patch mixes the branches (section 8).
- *Readers.*  `read_stream` may say that a stream is closed and leave out values that
  were inserted between its two queries.
- *Replaced schedules.*  A pass that read a schedule before it was replaced writes its own
  `last_fired_at` to the new row (section 10): slots that only the new options have, with
  `automatic_backfill` turned on say, are then never enqueued.
- *Migrations.*  Launches that overlap may leave a database on which every later
  launch fails (section 12).

## 14. Not modelled

- **Within modelled components.**  Steps that run concurrently or inside each other
  in one body, and bodies that branch on results, do not fit a body that is a
  sequence of calls.  Children that are enqueued or run in the background, and
  `get_result` with a timeout.  `register_schedule`'s `last_fired_at`, schedules' time
  zones, application versions of triggered runs.  Workflow timeouts and
  deadlines are stored and acted on by nothing, and `max_retries` is 0 wherever the
  code inserts a row, so that the dead-letter branch of `init_workflow` is never taken.
- **Application versions.**  A table that only the client's listing reads: neither
  recovery nor dequeue compares a row's `application_version`.
- **Registry, configuration, errors, dialects, value conversion.**  Data fixed before launch
  and functions without state; what a missing registration does is in
  `WorkflowLifecycle`.
- **Admin server, command line, user interface, language bindings.**  Front ends.  The
  admin server's operations with consequences (`recover_workflows`,
  `cancel_all_before`, deactivation) are actions of `WorkflowLifecycle`.
