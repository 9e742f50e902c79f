-------------------------- MODULE WorkflowLifecycle --------------------------
(***************************************************************************)
(* Which process executes which row of workflow_status, and what every     *)
(* operation does to the row's status, executor and queue.                 *)
(*                                                                         *)
(* A process executes workflows on behalf of four callers: launch, which   *)
(* recovers the rows of its executor id one after the other; the queue     *)
(* worker loop, which dequeues and executes one workflow at a time; the    *)
(* admin server's recover_workflows; and tasks, the callers of             *)
(* run_workflow and start_workflow_background.  The first three stop at    *)
(* the first error.  What a body does is left out: it ends somehow         *)
(* (DurableExecution has the inside of an execution).  Queue limits,       *)
(* priorities and partitions belong to another module: here a worker may   *)
(* pick any due row of a queue.                                            *)
(***************************************************************************)
EXTENDS Naturals, FiniteSets

CONSTANTS
    Workflow,     \* workflow ids; each is of a function of its own
    Process,      \* JournioContexts
    Executor,     \* executor ids
    Queue,        \* queue names, the internal queue included
    Nil,          \* SQL NULL
    ExecutorOf,   \* ExecutorOf[p]: config.executor_id
    Registered,   \* Registered[p]: workflows whose function p has registered
    Listens,      \* Listens[p]: config.listen_queues
    Enqueuer,     \* executor ids from which workflows are enqueued (a client
                  \* has one that no process runs under)
    Disturbances, \* which commands, crashes and faults happen
    LimitZero,    \* TRUE: LIMIT 0 selects nothing (Postgres); FALSE: no limit
    MaxDisturbances  \* bound: how many of them

Disturbance == {"cancel", "cancelAll", "resume", "delay", "delete",
                "deactivate", "recover", "reuse", "crash", "fault"}

ASSUME DeploymentAssumption ==
    /\ Nil \notin Executor \cup Queue
    /\ ExecutorOf \in [Process -> Executor]
    /\ Registered \in [Process -> SUBSET Workflow]
    /\ Listens \in [Process -> SUBSET Queue]
    /\ Enqueuer \subseteq Executor
    /\ Disturbances \subseteq Disturbance
    /\ LimitZero \in BOOLEAN

ASSUME LifecycleBounds == MaxDisturbances \in Nat

VARIABLES
    row,        \* workflow_status
    proc,       \* what each process is doing
    todo,       \* rows that launch or recover_workflows has read, not yet run
    worker,     \* the queue worker loop of each process
    runs,       \* executions in progress
    cancelled,  \* processes whose cancellation token is set
    count,      \* history: disturbances so far
    stranded,   \* history: left PENDING of an executor that does not run it, by
                \* a failed call, for want of a registration or by a refused
                \* start, and not listed by a launch of that executor since
    exposed     \* history: queued under the executor id of a process, started
                \* again, resumed, deleted, or given to recover_workflows

vars == <<row, proc, todo, worker, runs, cancelled, count, stranded, exposed>>

Queued == {"ENQUEUED", "DELAYED"}
Active == {"PENDING"} \cup Queued
Terminal == {"SUCCESS", "ERROR", "CANCELLED"}
NoRow == {"ABSENT", "DELETED"}   \* DELETED: no row, but the id has been used

Lists == {"launch", "admin"}
Caller == Lists \cup {"worker", "task"}

Off == [at |-> "off", left |-> {}, queue |-> Nil, pick |-> Nil]
Head == [Off EXCEPT !.at = "head"]
Scan(qs) == IF qs = {} THEN Head ELSE [Off EXCEPT !.at = "scan", !.left = qs]

With(w, st) == [row EXCEPT ![w].status = st]

\* One execution at a time per list and per worker loop.
Busy(p, by) == \E r \in runs : r.proc = p /\ r.by = by

\* The process is gone, and everything it was doing with it.
Gone(p) ==
    /\ proc' = [proc EXCEPT ![p] = "down"]
    /\ todo' = [todo EXCEPT ![p] = [l \in Lists |-> {}]]
    /\ worker' = [worker EXCEPT ![p] = Off]
    /\ runs' = {r \in runs : r.proc # p}
    /\ cancelled' = cancelled \ {p}

\* no tells executions apart that one process has of one id: the disturbance
\* that started this one, 0 for the ordinary ones.
BeginNo(p, w, by, n) ==
    runs' = runs \cup {[wf |-> w, proc |-> p, by |-> by, no |-> n]}
Begin(p, w, by) == BeginNo(p, w, by, 0)
-----------------------------------------------------------------------------
Init ==
    /\ row = [w \in Workflow |->
                [status |-> "ABSENT", exe |-> Nil, queue |-> Nil, due |-> FALSE]]
    /\ proc = [p \in Process |-> "down"]
    /\ todo = [p \in Process |-> [l \in Lists |-> {}]]
    /\ worker = [p \in Process |-> Off]
    /\ runs = {}
    /\ cancelled = {}
    /\ count = 0
    /\ stranded = {}
    /\ exposed = {}

(* Starting workflows.                                                     *)

Happens(d) == /\ d \in Disturbances
              /\ count < MaxDisturbances
              /\ count' = count + 1

\* init_workflow leaves the status, executor and queue of an existing row as
\* they are when what it is asked for is ENQUEUED or DELAYED.
Insertable(w) == row[w].status \in NoRow

\* enqueue_workflow, with an id the caller may choose.
Enqueue(w, x, q, st) ==
    /\ Insertable(w)
    /\ row' = [row EXCEPT ![w] = [status |-> st, exe |-> x, queue |-> q,
                                  due |-> st = "ENQUEUED"]]
    /\ exposed' = IF \E p \in Process : ExecutorOf[p] = x
                  THEN exposed \cup {w} ELSE exposed
    /\ UNCHANGED <<proc, todo, worker, runs, cancelled, count, stranded>>

\* init_workflow for an execution at once: a new row is PENDING, an existing one
\* keeps its status and queue but is made this executor's.
Upsert(p, w) ==
    row' = IF Insertable(w)
           THEN [row EXCEPT ![w] = [status |-> "PENDING", exe |-> ExecutorOf[p],
                                    queue |-> Nil, due |-> TRUE]]
           ELSE [row EXCEPT ![w].exe = ExecutorOf[p]]

\* run_workflow, start_workflow_background: a row of a fresh id is inserted
\* PENDING and executed; the caller, or the spawned task, sees its errors.
RunWorkflow(p, w) ==
    /\ proc[p] # "down"
    /\ w \in Registered[p]
    /\ row[w].status = "ABSENT"
    /\ Upsert(p, w)
    /\ Begin(p, w, "task")
    /\ UNCHANGED <<proc, todo, worker, cancelled, count, stranded, exposed>>

\* The same with an id that has been used, chosen by the caller.  For another
\* function, or another queue, the call is refused, after the upsert; otherwise
\* the workflow is executed, whatever its status and whoever executes it.
StartAgain(p, w) ==
    /\ proc[p] # "down"
    /\ row[w].status # "ABSENT"
    /\ Happens("reuse")
    /\ Upsert(p, w)
    /\ \/ /\ w \in Registered[p]
          /\ BeginNo(p, w, "task", count')
          /\ stranded' = stranded \ {w}
       \/ /\ row[w].status \notin NoRow
          /\ stranded' = stranded \cup {w}
          /\ UNCHANGED runs
    /\ exposed' = exposed \cup {w}
    /\ UNCHANGED <<proc, todo, worker, cancelled>>

\* init_workflow takes effect but its reply is lost: nothing is executed.
StartFails(p, w) ==
    /\ proc[p] # "down"
    /\ w \in Registered[p]
    /\ row[w].status = "ABSENT"
    /\ Happens("fault")
    /\ Upsert(p, w)
    /\ stranded' = stranded \cup {w}
    /\ UNCHANGED <<proc, todo, worker, runs, cancelled, exposed>>

\* delay_until passes.
TimePasses(w) ==
    /\ row[w].status = "DELAYED" /\ ~row[w].due
    /\ row' = [row EXCEPT ![w].due = TRUE]
    /\ UNCHANGED <<proc, todo, worker, runs, cancelled, count, stranded,
                   exposed>>
-----------------------------------------------------------------------------
(* Recovery, by launch and by recover_workflows.                           *)

\* get_workflows_for_recovery.
\* (RecoverableOfAll is a mutant: the rows of every executor.)
RecoverableOfAll(x) == {w \in Workflow : row[w].status \in Active}
Recoverable(x) == {w \in Workflow : row[w].exe = x /\ row[w].status \in Active}

\* launch, up to the list of rows to recover.
Launch(p) ==
    /\ proc[p] = "down"
    /\ proc' = [proc EXCEPT ![p] = "launching"]
    /\ todo' = [todo EXCEPT ![p].launch = Recoverable(ExecutorOf[p])]
    /\ stranded' = stranded \ Recoverable(ExecutorOf[p])
    /\ UNCHANGED <<row, worker, runs, cancelled, count, exposed>>

\* The next workflow of a list is executed, whatever has become of it since the
\* list was read.  (The order, created_at, is that of the clocks of whoever
\* inserted the rows: any.)  Without a registration the error ends the list,
\* and launch, whose caller gives up.
RecoverNext(p, l) ==
    /\ ~Busy(p, l)
    /\ \E w \in todo[p][l] :
          \/ /\ w \in Registered[p]
             /\ Begin(p, w, l)
             /\ todo' = [todo EXCEPT ![p][l] = @ \ {w}]
             /\ UNCHANGED <<proc, worker, cancelled>>
          \/ /\ w \notin Registered[p]
             /\ \/ l = "launch" /\ Gone(p)
                \/ /\ l = "admin"
                   /\ todo' = [todo EXCEPT ![p].admin = {}]
                   /\ UNCHANGED <<proc, worker, runs, cancelled>>
    /\ UNCHANGED <<row, count, stranded, exposed>>

\* All are recovered: the worker loop starts.
Launched(p) ==
    /\ proc[p] = "launching"
    /\ todo[p].launch = {} /\ ~Busy(p, "launch")
    /\ proc' = [proc EXCEPT ![p] = "up"]
    /\ worker' = [worker EXCEPT ![p] = Head]
    /\ UNCHANGED <<row, todo, runs, cancelled, count, stranded, exposed>>
-----------------------------------------------------------------------------
(* The queue worker loop.                                                  *)

\* list_runnable_queues.
\* (RunnableEnqueued is a mutant: DELAYED rows are not looked at.)
RunnableEnqueued ==
    {row[w].queue : w \in {v \in Workflow : row[v].status = "ENQUEUED"}} \ {Nil}
RunnableQueues ==
    {row[w].queue : w \in {v \in Workflow : row[v].status \in Queued}} \ {Nil}

\* run_all_queues_once begins, if the token is not set.  (Without a runnable
\* queue the loop sleeps and comes back.)
BeginScan(p) ==
    /\ worker[p].at = "head"
    /\ p \notin cancelled
    /\ RunnableQueues \cap Listens[p] # {}
    /\ worker' = [worker EXCEPT ![p] = Scan(RunnableQueues \cap Listens[p])]
    /\ UNCHANGED <<row, proc, todo, runs, cancelled, count, stranded, exposed>>

WorkerExits(p) ==
    /\ worker[p].at = "head"
    /\ p \in cancelled
    /\ worker' = [worker EXCEPT ![p] = Off]
    /\ UNCHANGED <<row, proc, todo, runs, cancelled, count, stranded, exposed>>

Candidates(q) ==
    {w \in Workflow : /\ row[w].queue = q
                      /\ \/ row[w].status = "ENQUEUED"
                         \/ row[w].status = "DELAYED" /\ row[w].due}

\* The queue is drained: the scan goes on with the others.
NextQueue(p, q) ==
    worker' = [worker EXCEPT ![p] = Scan(worker[p].left \ {q})]

\* (Mutant: an empty result is not told from a row.)
PickUnchecked(p) ==
    /\ worker[p].at = "scan"
    /\ \E q \in worker[p].left :
          worker' = [worker EXCEPT ![p] =
             [@ EXCEPT !.at = "claim", !.queue = q,
                       !.pick = IF Candidates(q) = {} THEN Nil
                                ELSE CHOOSE w \in Candidates(q) : TRUE]]
    /\ UNCHANGED <<row, proc, todo, runs, cancelled, count, stranded, exposed>>

\* dequeue_workflow's SELECT.
Pick(p) ==
    /\ worker[p].at = "scan"
    /\ \E q \in worker[p].left :
          \/ Candidates(q) = {} /\ NextQueue(p, q)
          \/ \E w \in Candidates(q) :
                worker' = [worker EXCEPT ![p] =
                             [@ EXCEPT !.at = "claim", !.queue = q, !.pick = w]]
    /\ UNCHANGED <<row, proc, todo, runs, cancelled, count, stranded, exposed>>

\* (ClaimUnguarded is a mutant: the UPDATE does not look at the status again;
\* ClaimKeepsOwner: it does not set executor_id.)
ClaimUnguarded(w) == TRUE
Claimable(w) == row[w].status \in Queued
ClaimKeepsOwner(p, w) == row' = With(w, "PENDING")
TakeRow(p, w) ==
    row' = [row EXCEPT ![w].status = "PENDING", ![w].exe = ExecutorOf[p]]

\* dequeue_workflow's UPDATE, and the start of the execution.  SQLite does
\* nothing to keep the picked row from changing in between (Postgres locks it:
\* its behaviours are among these).
Claim(p) ==
    /\ worker[p].at = "claim"
    /\ LET w == worker[p].pick IN
       \/ /\ Claimable(w)
          /\ w \in Registered[p]
          /\ TakeRow(p, w)
          /\ Begin(p, w, "worker")
          /\ worker' = [worker EXCEPT ![p] =
                          [Off EXCEPT !.at = "run", !.left = worker[p].left]]
          /\ stranded' = stranded \ {w}
       \/ /\ Claimable(w)
          /\ w \notin Registered[p]
          /\ TakeRow(p, w)
          /\ worker' = [worker EXCEPT ![p] = Head]
          /\ stranded' = stranded \cup {w}
          /\ UNCHANGED runs
       \/ /\ ~Claimable(w)
          /\ NextQueue(p, worker[p].queue)
          /\ UNCHANGED <<row, runs, stranded>>
    /\ UNCHANGED <<proc, todo, cancelled, count, exposed>>
-----------------------------------------------------------------------------
(* The end of an execution.                                                *)

\* record_workflow_result: spares a CANCELLED row, and finds none deleted.
RecordResult(w, st) ==
    row' = IF \/ row[w].status \in NoRow
              \/ row[w].status = "CANCELLED" /\ st # "CANCELLED"
           THEN row ELSE With(w, st)

\* What r's caller does next: an error ends the list, the launch or the scan.
Resumed(r, ok) ==
    \/ /\ r.by = "launch" /\ ~ok
       /\ Gone(r.proc)
    \/ /\ r.by = "launch" => ok
       /\ runs' = runs \ {r}
       /\ worker' = IF r.by # "worker" THEN worker
                    ELSE [worker EXCEPT ![r.proc] =
                            IF ok THEN Scan(worker[r.proc].left) ELSE Head]
       /\ todo' = IF r.by = "admin" /\ ~ok
                  THEN [todo EXCEPT ![r.proc].admin = {}] ELSE todo
       /\ UNCHANGED <<proc, cancelled>>

EndRun(r) ==
    /\ \/ RecordResult(r.wf, "SUCCESS") /\ Resumed(r, TRUE)
       \/ RecordResult(r.wf, "ERROR") /\ Resumed(r, FALSE)
       \/ RecordResult(r.wf, "CANCELLED") /\ Resumed(r, FALSE)
    /\ UNCHANGED <<count, stranded, exposed>>
-----------------------------------------------------------------------------
(* Commands.                                                               *)

Issue(c) == Happens(c) /\ UNCHANGED <<stranded>>

CancelledRow(w) == [row[w] EXCEPT !.status = "CANCELLED", !.queue = Nil]

\* cancel_workflows.  An execution in progress is not told.
Cancel(w) ==
    /\ Issue("cancel")
    /\ row[w].status \in Active
    /\ row' = [row EXCEPT ![w] = CancelledRow(w)]
    /\ UNCHANGED <<proc, todo, worker, runs, cancelled, exposed>>

\* list_workflows_filtered for the statuses of Active with a limit of 0: no
\* limit on SQLite, no row on Postgres.
ActiveRows == {w \in Workflow : row[w].status \in Active}
ListActive == IF LimitZero THEN {} ELSE ActiveRows

\* cancel_all_before cancels what it has listed and finds still active: of the
\* rows that are active by then any set, by the cutoff and by what has become
\* active since.
CancelAllBefore ==
    /\ Issue("cancelAll")
    /\ \E ws \in SUBSET ListActive :
          row' = [w \in Workflow |-> IF w \in ws THEN CancelledRow(w) ELSE row[w]]
    /\ UNCHANGED <<proc, todo, worker, runs, cancelled, exposed>>

\* resume_workflows.  Nothing asks whether an execution is in progress.
\* (ResumeKeepsQueue is a mutant.)
ResumeKeepsQueue(w, q) == row' = With(w, "ENQUEUED")
Requeue(w, q) ==
    row' = [row EXCEPT ![w].status = "ENQUEUED", ![w].queue = q]
Resume(w, q) ==
    /\ Issue("resume")
    /\ row[w].status \in Active \cup {"CANCELLED"}
    /\ Requeue(w, q)
    /\ exposed' = exposed \cup {w}
    /\ UNCHANGED <<proc, todo, worker, runs, cancelled>>

\* set_workflow_delay writes a new delay_until, which need not have come yet.
Postponed(w) == [row[w] EXCEPT !.due = FALSE]
SetDelay(w) ==
    /\ Issue("delay")
    /\ row[w].status = "DELAYED"
    /\ row' = [row EXCEPT ![w] = Postponed(w)]
    /\ UNCHANGED <<proc, todo, worker, runs, cancelled, exposed>>

Deleted == [status |-> "DELETED", exe |-> Nil, queue |-> Nil, due |-> FALSE]

\* delete_workflows (any row), delete_workflows_before (ended rows).
Delete(w) ==
    /\ Issue("delete")
    /\ row[w].status \notin NoRow
    /\ row' = [row EXCEPT ![w] = Deleted]
    /\ exposed' = exposed \cup {w}
    /\ UNCHANGED <<proc, todo, worker, runs, cancelled>>

\* deactivate: only sets the token.
Deactivate(p) ==
    /\ Issue("deactivate")
    /\ proc[p] # "down"
    /\ cancelled' = cancelled \cup {p}
    /\ UNCHANGED <<row, proc, todo, worker, runs, exposed>>

\* recover_workflows, for one executor id, one call at a time in a process.
Recover(p, x) ==
    /\ Issue("recover")
    /\ proc[p] # "down"
    /\ todo[p].admin = {} /\ ~Busy(p, "admin")
    /\ todo' = [todo EXCEPT ![p].admin = Recoverable(x)]
    /\ exposed' = exposed \cup Recoverable(x)
    /\ UNCHANGED <<row, proc, worker, runs, cancelled>>
-----------------------------------------------------------------------------
(* Failures.                                                               *)

Crash(p) ==
    /\ proc[p] # "down"
    /\ Happens("crash")
    /\ Gone(p)
    /\ UNCHANGED <<row, stranded, exposed>>

\* A database call of dequeue_workflow fails, or only its reply is lost.
DequeueFails(p) ==
    /\ worker[p].at \in {"scan", "claim"}
    /\ Happens("fault")
    /\ worker' = [worker EXCEPT ![p] = Head]
    /\ \/ UNCHANGED <<row, stranded>>
       \/ /\ worker[p].at = "claim" /\ Claimable(worker[p].pick)
          /\ TakeRow(p, worker[p].pick)
          /\ stranded' = stranded \cup {worker[p].pick}
    /\ UNCHANGED <<proc, todo, runs, cancelled, exposed>>

\* record_workflow_result fails: the execution is over, its row is not.
RecordFails(r) ==
    /\ Happens("fault")
    /\ stranded' = stranded \cup {r.wf}
    /\ Resumed(r, FALSE)
    /\ UNCHANGED <<row, exposed>>

WorkerStep(p) == BeginScan(p) \/ WorkerExits(p) \/ Pick(p) \/ Claim(p)

CommandStep ==
    \/ CancelAllBefore
    \/ \E w \in Workflow : Cancel(w) \/ SetDelay(w) \/ Delete(w)
    \/ \E w \in Workflow, q \in Queue : Resume(w, q)
    \/ \E p \in Process : Deactivate(p)
    \/ \E p \in Process, x \in Executor : Recover(p, x)

Next ==
    \/ \E w \in Workflow, x \in Enqueuer, q \in Queue, st \in Queued :
          Enqueue(w, x, q, st)
    \/ \E p \in Process, w \in Workflow :
          RunWorkflow(p, w) \/ StartAgain(p, w) \/ StartFails(p, w)
    \/ \E w \in Workflow : TimePasses(w)
    \/ \E p \in Process : Launch(p) \/ Launched(p) \/ WorkerStep(p)
    \/ \E p \in Process, l \in Lists : RecoverNext(p, l)
    \/ \E r \in runs : EndRun(r) \/ RecordFails(r)
    \/ CommandStep
    \/ \E p \in Process : Crash(p) \/ DequeueFails(p)

Spec == Init /\ [][Next]_vars

Execution == [wf : Workflow, proc : Process, by : Caller,
              no : 0 .. MaxDisturbances]

\* Processes are started again, their tasks are scheduled, bodies end, and
\* time goes on.
Fairness ==
    /\ \A p \in Process : /\ WF_vars(Launch(p)) /\ WF_vars(Launched(p))
                          /\ WF_vars(WorkerStep(p))
                          /\ WF_vars(RecoverNext(p, "launch"))
    /\ \A r \in Execution : WF_vars(r \in runs /\ EndRun(r))
    /\ \A w \in Workflow : WF_vars(TimePasses(w))

FairSpec == Spec /\ Fairness
-----------------------------------------------------------------------------
(* Properties.                                                             *)

StatusRow == [status : Active \cup Terminal \cup NoRow,
              exe : Executor \cup {Nil}, queue : Queue \cup {Nil},
              due : BOOLEAN]
Worker == [at : {"off", "head", "scan", "claim", "run"}, left : SUBSET Queue,
           queue : Queue \cup {Nil}, pick : Workflow \cup {Nil}]

\* Every variable keeps its type.
TypeOK ==
    /\ row \in [Workflow -> StatusRow]
    /\ proc \in [Process -> {"down", "launching", "up"}]
    /\ todo \in [Process -> [Lists -> SUBSET Workflow]]
    /\ worker \in [Process -> Worker]
    /\ \A p \in Process : worker[p].at = "claim" => worker[p].pick \in Workflow
    /\ runs \subseteq Execution
    /\ cancelled \subseteq Process
    /\ count \in Nat
    /\ stranded \subseteq Workflow /\ exposed \subseteq Workflow

\* A row that waits to be run is on a queue: a row without one is never looked
\* at again by any worker.
QueuedIsListed == \A w \in Workflow : row[w].status \in Queued =>
                                         row[w].queue # Nil

\* Its executor's processes are all alive.
Alive(x) == \A p \in Process : ExecutorOf[p] = x => proc[p] # "down"

\* A process of row w's executor executes it.
Owned(w) == \E r \in runs : r.wf = w /\ ExecutorOf[r.proc] = row[w].exe

\* A process of row w's executor has w on its list of rows to recover.
Listed(w) == \E p \in Process :
                ExecutorOf[p] = row[w].exe /\ w \in todo[p].launch

\* A PENDING row names an executor that some process runs under, so that a
\* launch finds it, whatever was lost or failed.  And that executor executes it,
\* is about to recover it, or is down: only a failed call, an executor that
\* dequeues what it has not registered, or a start that was refused leaves it
\* with nobody to run it (nobody else takes it over then, since only queued rows
\* are dequeued), and no longer than until the executor's next launch.
PendingHasRunner ==
    \A w \in Workflow : row[w].status = "PENDING" =>
       /\ \E p \in Process : ExecutorOf[p] = row[w].exe
       /\ w \notin stranded =>
             (Alive(row[w].exe) => Owned(w) \/ Listed(w))

DistinctExecutors ==
    \A p, q \in Process : ExecutorOf[p] = ExecutorOf[q] => p = q

\* Where executor ids are distinct, a workflow that was enqueued by a client or
\* run at once, and that nobody has started again under its id, resumed, deleted
\* or had recovered, has at most one execution at a time, in the process its row
\* names, through every crash, restart, cancellation and failed call.
SoleExecution ==
    DistinctExecutors =>
       \A r \in runs : r.wf \notin exposed =>
          /\ row[r.wf].exe = ExecutorOf[r.proc]
          /\ \A s \in runs : r.wf = s.wf => r = s

\* An ended row stays ended, whatever stale execution, stale recovery list or
\* stale dequeue still has to do with it, and CANCELLED is not overwritten;
\* only resume makes a CANCELLED row run again.
EndedStaysEnded ==
    [][\A w \in Workflow :
          /\ row[w].status \in {"SUCCESS", "ERROR"} =>
                row'[w].status \in Terminal \cup {"DELETED"}
          /\ row[w].status = "CANCELLED" =>
                \/ row'[w].status \in {"CANCELLED", "DELETED"}
                \/ row'[w].status = "ENQUEUED" /\ count' # count]_vars

\* Every runnable workflow ends, or is cancelled or deleted, as long as
\* processes are restarted, functions are registered and calls do not fail.
EventuallyDone ==
    \A w \in Workflow :
       row[w].status \in Active ~> row[w].status \in Terminal \cup NoRow
=============================================================================
