----------------------- MODULE WorkflowLifecycle_proofs -----------------------
(* Theorems about WorkflowLifecycle, for every deployment and every bound.  *)
EXTENDS WorkflowLifecycle, TLAPS

-----------------------------------------------------------------------------
(* Type correctness.                                                       *)

\* The worker loop's resting states are worker states, and hold no pick.
LEMMA WorkerStates ==
    /\ Off \in Worker /\ Off.at # "claim"
    /\ Head \in Worker /\ Head.at # "claim"
    /\ \A qs \in SUBSET Queue : Scan(qs) \in Worker /\ Scan(qs).at # "claim"
BY DEF Off, Head, Scan, Worker

\* The disappearance of a process keeps the types.
LEMMA GoneTyped ==
    ASSUME TypeOK, NEW p \in Process, Gone(p)
    PROVE  /\ proc' \in [Process -> {"down", "launching", "up"}]
           /\ todo' \in [Process -> [Lists -> SUBSET Workflow]]
           /\ worker' \in [Process -> Worker]
           /\ \A q \in Process :
                 worker'[q].at = "claim" => worker'[q].pick \in Workflow
           /\ runs' \subseteq Execution
           /\ cancelled' \subseteq Process
BY WorkerStates DEF TypeOK, Gone

\* So does giving one process a worker state that holds no pick.
LEMMA WorkerTyped ==
    ASSUME TypeOK, NEW p \in Process, NEW u \in Worker, u.at # "claim",
           worker' = [worker EXCEPT ![p] = u]
    PROVE  /\ worker' \in [Process -> Worker]
           /\ \A q \in Process :
                 worker'[q].at = "claim" => worker'[q].pick \in Workflow
BY DEF TypeOK

\* And so do the caller's steps after an execution.
LEMMA ResumedTyped ==
    ASSUME TypeOK, NEW r \in runs, NEW ok \in BOOLEAN, Resumed(r, ok)
    PROVE  /\ proc' \in [Process -> {"down", "launching", "up"}]
           /\ todo' \in [Process -> [Lists -> SUBSET Workflow]]
           /\ worker' \in [Process -> Worker]
           /\ \A q \in Process :
                 worker'[q].at = "claim" => worker'[q].pick \in Workflow
           /\ runs' \subseteq Execution
           /\ cancelled' \subseteq Process
<1>1. r.proc \in Process
  BY DEF TypeOK, Execution
<1>2. CASE Gone(r.proc)
  BY <1>1, <1>2, GoneTyped
<1>3. CASE /\ r.by = "launch" => ok
           /\ runs' = runs \ {r}
           /\ worker' = IF r.by # "worker" THEN worker
                        ELSE [worker EXCEPT ![r.proc] =
                                IF ok THEN Scan(worker[r.proc].left) ELSE Head]
           /\ todo' = IF r.by = "admin" /\ ~ok
                      THEN [todo EXCEPT ![r.proc].admin = {}] ELSE todo
           /\ UNCHANGED <<proc, cancelled>>
  <2>1. worker[r.proc].left \in SUBSET Queue
    BY <1>1 DEF TypeOK, Worker
  <2>2. PICK u \in Worker : /\ u.at # "claim"
                            /\ \/ worker' = worker
                               \/ worker' = [worker EXCEPT ![r.proc] = u]
    BY <1>3, <2>1, WorkerStates
  <2>3. /\ worker' \in [Process -> Worker]
        /\ \A q \in Process :
              worker'[q].at = "claim" => worker'[q].pick \in Workflow
    <3>1. CASE worker' = worker
      BY <3>1 DEF TypeOK
    <3>2. CASE worker' = [worker EXCEPT ![r.proc] = u]
      BY <3>2, <2>2, <1>1, WorkerTyped
    <3> QED
      BY <2>2, <3>1, <3>2
  <2>4. todo' \in [Process -> [Lists -> SUBSET Workflow]]
    BY <1>1, <1>3 DEF TypeOK, Lists
  <2> QED
    BY <1>3, <2>3, <2>4 DEF TypeOK
<1> QED
  BY <1>2, <1>3 DEF Resumed

\* A row update in which the columns stay in their types.
LEMMA RowTyped ==
    ASSUME TypeOK, NEW w \in Workflow, NEW n \in StatusRow,
           row' = [row EXCEPT ![w] = n]
    PROVE  row' \in [Workflow -> StatusRow]
BY DEF TypeOK

\* The updates the actions make.
LEMMA RowUpdates ==
    ASSUME TypeOK, NEW w \in Workflow
    PROVE  /\ \A st \in Active \cup Terminal : With(w, st) \in [Workflow -> StatusRow]
           /\ \A p \in Process : TakeRow(p, w) => row' \in [Workflow -> StatusRow]
           /\ \A st \in Active \cup Terminal :
                 RecordResult(w, st) => row' \in [Workflow -> StatusRow]
           /\ \A q \in Queue : Requeue(w, q) => row' \in [Workflow -> StatusRow]
           /\ CancelledRow(w) \in StatusRow
<1> USE DeploymentAssumption DEF StatusRow
<1>1. \A st \in Active \cup Terminal : With(w, st) \in [Workflow -> StatusRow]
  BY DEF TypeOK, With
<1>2. \A p \in Process : TakeRow(p, w) => row' \in [Workflow -> StatusRow]
  <2> SUFFICES ASSUME NEW p \in Process, TakeRow(p, w)
               PROVE  row' \in [Workflow -> StatusRow]
    OBVIOUS
  <2> DEFINE n == [row[w] EXCEPT !.status = "PENDING", !.exe = ExecutorOf[p]]
  <2>1. row[w] \in StatusRow /\ "PENDING" \in Active /\ ExecutorOf[p] \in Executor
    BY DEF TypeOK, Active
  <2>2. n \in StatusRow
    BY <2>1
  <2>3. row' = [row EXCEPT ![w] = n]
    BY DEF TakeRow, TypeOK
  <2> QED
    BY <2>2, <2>3, RowTyped
<1>3. \A st \in Active \cup Terminal :
         RecordResult(w, st) => row' \in [Workflow -> StatusRow]
  BY <1>1 DEF TypeOK, RecordResult
<1>4. \A q \in Queue : Requeue(w, q) => row' \in [Workflow -> StatusRow]
  <2> SUFFICES ASSUME NEW q \in Queue, Requeue(w, q)
               PROVE  row' \in [Workflow -> StatusRow]
    OBVIOUS
  <2> DEFINE n == [row[w] EXCEPT !.status = "ENQUEUED", !.queue = q]
  <2>1. row[w] \in StatusRow /\ "ENQUEUED" \in Active
    BY DEF TypeOK, Active, Queued
  <2>2. n \in StatusRow
    BY <2>1
  <2>3. row' = [row EXCEPT ![w] = n]
    BY DEF Requeue, TypeOK
  <2> QED
    BY <2>2, <2>3, RowTyped
<1>5. CancelledRow(w) \in StatusRow
  <2>1. row[w] \in StatusRow /\ "CANCELLED" \in Terminal
    BY DEF TypeOK, Terminal
  <2> QED
    BY <2>1 DEF CancelledRow
<1> QED
  BY <1>1, <1>2, <1>3, <1>4, <1>5

\* What init_workflow leaves of a row that is to be executed at once.
LEMMA UpsertFacts ==
    ASSUME TypeOK, NEW p \in Process, NEW w \in Workflow, Upsert(p, w)
    PROVE  /\ row' \in [Workflow -> StatusRow]
           /\ \A v \in Workflow : v # w => row'[v] = row[v]
           /\ row'[w].exe = ExecutorOf[p]
           /\ row[w].status \in NoRow => row'[w].status = "PENDING"
           /\ row[w].status \notin NoRow => /\ row'[w].status = row[w].status
                                            /\ row'[w].queue = row[w].queue
<1> USE DeploymentAssumption
<1>0. row[w] \in StatusRow /\ row \in [Workflow -> StatusRow]
  BY DEF TypeOK
<1>1. CASE Insertable(w)
  <2> DEFINE n == [status |-> "PENDING", exe |-> ExecutorOf[p], queue |-> Nil,
                   due |-> TRUE]
  <2>1. n \in StatusRow
    BY DEF StatusRow, Active
  <2>2. row' = [row EXCEPT ![w] = n]
    BY <1>1 DEF Upsert
  <2> QED
    BY <1>0, <1>1, <2>1, <2>2, RowTyped DEF Insertable
<1>2. CASE ~Insertable(w)
  <2>1. [row[w] EXCEPT !.exe = ExecutorOf[p]] \in StatusRow
    BY <1>0 DEF StatusRow
  <2>2. row' = [row EXCEPT ![w] = [row[w] EXCEPT !.exe = ExecutorOf[p]]]
    BY <1>0, <1>2 DEF Upsert
  <2> QED
    BY <1>0, <1>2, <2>1, <2>2, RowTyped DEF Insertable, StatusRow
<1> QED
  BY <1>1, <1>2

(* What cancel_all_before leaves of a row: itself, or its cancelled form if it
   was active. *)
LEMMA CancelAllRows ==
    ASSUME TypeOK, CancelAllBefore
    PROVE  /\ row' \in [Workflow -> StatusRow]
           /\ \A w \in Workflow :
                 \/ row'[w] = row[w]
                 \/ row[w].status \in Active /\ row'[w] = CancelledRow(w)
<1>1. PICK ws \in SUBSET ListActive :
         row' = [w \in Workflow |-> IF w \in ws THEN CancelledRow(w) ELSE row[w]]
  BY DEF CancelAllBefore
<1>2. \A w \in ws : w \in Workflow /\ row[w].status \in Active
  BY <1>1 DEF ListActive, ActiveRows
<1>3. \A w \in Workflow : CancelledRow(w) \in StatusRow /\ row[w] \in StatusRow
  BY RowUpdates DEF TypeOK
<1> QED
  BY <1>1, <1>2, <1>3

\* No process runs yet and no row exists.
LEMMA InitTyped == Init => TypeOK
BY WorkerStates DEF Init, TypeOK, StatusRow, NoRow, Lists

\* Every action keeps the types.
LEMMA StepTyped ==
    ASSUME TypeOK, [Next]_vars
    PROVE  TypeOK'
<1> USE DeploymentAssumption
<1>1. ASSUME NEW w \in Workflow, NEW x \in Enqueuer, NEW q \in Queue,
             NEW st \in Queued, Enqueue(w, x, q, st)
      PROVE  TypeOK'
  <2>1. [status |-> st, exe |-> x, queue |-> q, due |-> st = "ENQUEUED"]
           \in StatusRow
    BY DEF StatusRow, Active
  <2>2. row' \in [Workflow -> StatusRow]
    BY <1>1, <2>1, RowTyped DEF Enqueue
  <2> QED
    BY <1>1, <2>2 DEF Enqueue, TypeOK
<1>2. ASSUME NEW p \in Process, NEW w \in Workflow,
             RunWorkflow(p, w) \/ StartAgain(p, w) \/ StartFails(p, w)
      PROVE  TypeOK'
  <2>1. row' \in [Workflow -> StatusRow]
    BY <1>2, UpsertFacts DEF RunWorkflow, StartAgain, StartFails
  <2>2. runs' \subseteq Execution
    <3>1. \A n \in 0 .. MaxDisturbances :
             BeginNo(p, w, "task", n) => runs' \subseteq Execution
      BY DEF BeginNo, TypeOK, Execution, Caller
    <3>2. CASE RunWorkflow(p, w)
      BY <3>1, <3>2, LifecycleBounds DEF RunWorkflow, Begin
    <3>3. CASE StartAgain(p, w)
      <4>1. count' \in 0 .. MaxDisturbances
        BY <3>3, LifecycleBounds DEF StartAgain, Happens, TypeOK
      <4>2. runs' = runs \/ BeginNo(p, w, "task", count')
        BY <3>3 DEF StartAgain
      <4> QED
        BY <3>1, <4>1, <4>2 DEF TypeOK
    <3>4. CASE StartFails(p, w)
      BY <3>4 DEF StartFails, TypeOK
    <3> QED
      BY <1>2, <3>2, <3>3, <3>4
  <2>3. /\ count' \in Nat
        /\ stranded' \subseteq Workflow /\ exposed' \subseteq Workflow
    BY <1>2 DEF RunWorkflow, StartAgain, StartFails, Happens, TypeOK
  <2>4. UNCHANGED <<proc, todo, worker, cancelled>>
    BY <1>2 DEF RunWorkflow, StartAgain, StartFails
  <2> QED
    BY <2>1, <2>2, <2>3, <2>4 DEF TypeOK
<1>3. ASSUME NEW w \in Workflow, TimePasses(w)
      PROVE  TypeOK'
  <2>1. row' \in [Workflow -> StatusRow]
    BY <1>3 DEF TimePasses, TypeOK, StatusRow
  <2> QED
    BY <1>3, <2>1 DEF TimePasses, TypeOK
<1>4. ASSUME NEW p \in Process, Launch(p)
      PROVE  TypeOK'
  <2>1. todo' \in [Process -> [Lists -> SUBSET Workflow]]
    BY <1>4 DEF Launch, TypeOK, Lists, Recoverable
  <2> QED
    BY <1>4, <2>1 DEF Launch, TypeOK
<1>5. ASSUME NEW p \in Process, Launched(p)
      PROVE  TypeOK'
  <2>1. /\ worker' \in [Process -> Worker]
        /\ \A q \in Process :
              worker'[q].at = "claim" => worker'[q].pick \in Workflow
    BY <1>5, WorkerStates, WorkerTyped DEF Launched
  <2> QED
    BY <1>5, <2>1 DEF Launched, TypeOK
<1>6. ASSUME NEW p \in Process, BeginScan(p) \/ WorkerExits(p)
      PROVE  TypeOK'
  <2>1. RunnableQueues \cap Listens[p] \in SUBSET Queue
    BY DEF TypeOK
  <2>2. /\ worker' \in [Process -> Worker]
        /\ \A q \in Process :
              worker'[q].at = "claim" => worker'[q].pick \in Workflow
    BY <1>6, <2>1, WorkerStates, WorkerTyped DEF BeginScan, WorkerExits
  <2> QED
    BY <1>6, <2>2 DEF BeginScan, WorkerExits, TypeOK
<1>7. ASSUME NEW p \in Process, Pick(p)
      PROVE  TypeOK'
  <2>1. worker[p] \in Worker /\ worker[p].left \in SUBSET Queue
    BY DEF TypeOK, Worker
  <2>2. PICK q \in worker[p].left :
           \/ NextQueue(p, q)
           \/ \E w \in Candidates(q) :
                 worker' = [worker EXCEPT ![p] =
                             [@ EXCEPT !.at = "claim", !.queue = q, !.pick = w]]
    BY <1>7 DEF Pick
  <2>3. /\ worker' \in [Process -> Worker]
        /\ \A r \in Process :
              worker'[r].at = "claim" => worker'[r].pick \in Workflow
    <3>1. CASE NextQueue(p, q)
      BY <3>1, <2>1, WorkerStates, WorkerTyped DEF NextQueue
    <3>2. ASSUME NEW w \in Candidates(q),
                 worker' = [worker EXCEPT ![p] =
                             [@ EXCEPT !.at = "claim", !.queue = q, !.pick = w]]
          PROVE  /\ worker' \in [Process -> Worker]
                 /\ \A r \in Process :
                       worker'[r].at = "claim" => worker'[r].pick \in Workflow
      <4>1. w \in Workflow /\ q \in Queue
        BY <2>1 DEF Candidates
      <4>2. [worker[p] EXCEPT !.at = "claim", !.queue = q, !.pick = w] \in Worker
        BY <4>1, <2>1 DEF Worker
      <4>3. worker'[p].pick = w
        BY <3>2, <2>1 DEF TypeOK, Worker
      <4> QED
        BY <3>2, <4>1, <4>2, <4>3 DEF TypeOK
    <3> QED
      BY <2>2, <3>1, <3>2
  <2> QED
    BY <1>7, <2>3 DEF Pick, TypeOK
<1>8. ASSUME NEW p \in Process, Claim(p)
      PROVE  TypeOK'
  <2>1. /\ worker[p] \in Worker /\ worker[p].left \in SUBSET Queue
        /\ worker[p].pick \in Workflow
    BY <1>8 DEF TypeOK, Worker, Claim
  <2>2. row' \in [Workflow -> StatusRow]
    BY <1>8, <2>1, RowUpdates DEF Claim, TypeOK
  <2>3. [Off EXCEPT !.at = "run", !.left = worker[p].left] \in Worker
    BY <2>1 DEF Worker, Off
  <2>4. [Off EXCEPT !.at = "run", !.left = worker[p].left].at # "claim"
    BY DEF Off
  <2>5. /\ worker' \in [Process -> Worker]
        /\ \A q \in Process :
              worker'[q].at = "claim" => worker'[q].pick \in Workflow
    BY <1>8, <2>1, <2>3, <2>4, WorkerStates, WorkerTyped DEF Claim, NextQueue
  <2>6. runs' \subseteq Execution
    BY <1>8, <2>1, LifecycleBounds
    DEF Claim, Begin, BeginNo, TypeOK, Execution, Caller
  <2>7. stranded' \subseteq Workflow
    BY <1>8, <2>1 DEF Claim, TypeOK
  <2> QED
    BY <1>8, <2>2, <2>5, <2>6, <2>7 DEF Claim, TypeOK
<1>9. ASSUME NEW p \in Process, NEW l \in Lists, RecoverNext(p, l)
      PROVE  TypeOK'
  <2>1. PICK w \in todo[p][l] :
          \/ /\ w \in Registered[p]
             /\ Begin(p, w, l)
             /\ todo' = [todo EXCEPT ![p][l] = @ \ {w}]
             /\ UNCHANGED <<proc, worker, cancelled>>
          \/ /\ w \notin Registered[p]
             /\ \/ l = "launch" /\ Gone(p)
                \/ /\ l = "admin"
                   /\ todo' = [todo EXCEPT ![p].admin = {}]
                   /\ UNCHANGED <<proc, worker, runs, cancelled>>
    BY <1>9 DEF RecoverNext
  <2>2. w \in Workflow
    BY DEF TypeOK
  <2>3. CASE Begin(p, w, l) /\ todo' = [todo EXCEPT ![p][l] = @ \ {w}]
             /\ UNCHANGED <<proc, worker, cancelled>>
    <3>1. runs' \subseteq Execution
      BY <2>2, <2>3, LifecycleBounds
      DEF Begin, BeginNo, TypeOK, Execution, Caller, Lists
    <3>2. todo' \in [Process -> [Lists -> SUBSET Workflow]]
      BY <2>3 DEF TypeOK
    <3> QED
      BY <1>9, <2>3, <3>1, <3>2 DEF RecoverNext, TypeOK
  <2>4. CASE Gone(p)
    BY <1>9, <2>4, GoneTyped DEF RecoverNext, TypeOK
  <2>5. CASE todo' = [todo EXCEPT ![p].admin = {}]
             /\ UNCHANGED <<proc, worker, runs, cancelled>>
    <3>1. todo' \in [Process -> [Lists -> SUBSET Workflow]]
      BY <2>5 DEF TypeOK, Lists
    <3> QED
      BY <1>9, <2>5, <3>1 DEF RecoverNext, TypeOK
  <2> QED
    BY <2>1, <2>3, <2>4, <2>5
<1>10. ASSUME NEW r \in runs, EndRun(r)
       PROVE  TypeOK'
  <2>1. r.wf \in Workflow
    BY DEF TypeOK, Execution
  <2>2. PICK st \in Terminal, ok \in BOOLEAN :
           RecordResult(r.wf, st) /\ Resumed(r, ok)
    BY <1>10 DEF EndRun, Terminal
  <2>3. row' \in [Workflow -> StatusRow]
    BY <2>1, <2>2, RowUpdates
  <2> QED
    BY <1>10, <2>2, <2>3, ResumedTyped DEF EndRun, TypeOK
<1>11. ASSUME NEW r \in runs, RecordFails(r)
       PROVE  TypeOK'
  <2>1. r.wf \in Workflow
    BY DEF TypeOK, Execution
  <2>2. PICK ok \in BOOLEAN : Resumed(r, ok)
    BY <1>11, Zenon DEF RecordFails
  <2> QED
    BY <1>11, <2>1, <2>2, ResumedTyped DEF RecordFails, Happens, TypeOK
<1>12. CASE CommandStep
  <2>1. CASE CancelAllBefore
    <3>1. row' \in [Workflow -> StatusRow]
      BY <2>1, CancelAllRows
    <3> QED
      BY <2>1, <3>1 DEF CancelAllBefore, Issue, Happens, TypeOK
  <2>2. ASSUME NEW w \in Workflow, Cancel(w)
        PROVE  TypeOK'
    <3>1. row' \in [Workflow -> StatusRow]
      BY <2>2, RowUpdates, RowTyped DEF Cancel
    <3> QED
      BY <2>2, <3>1 DEF Cancel, Issue, Happens, TypeOK
  <2>3. ASSUME NEW w \in Workflow, SetDelay(w)
        PROVE  TypeOK'
    <3>1. row' \in [Workflow -> StatusRow]
      BY <2>3 DEF SetDelay, Postponed, TypeOK, StatusRow
    <3> QED
      BY <2>3, <3>1 DEF SetDelay, Postponed, Issue, Happens, TypeOK
  <2>4. ASSUME NEW w \in Workflow, Delete(w)
        PROVE  TypeOK'
    <3>1. row' \in [Workflow -> StatusRow]
      BY <2>4 DEF Delete, Deleted, TypeOK, StatusRow, NoRow
    <3> QED
      BY <2>4, <3>1 DEF Delete, Issue, Happens, TypeOK
  <2>5. ASSUME NEW w \in Workflow, NEW q \in Queue, Resume(w, q)
        PROVE  TypeOK'
    <3>1. row' \in [Workflow -> StatusRow]
      BY <2>5, RowUpdates DEF Resume
    <3> QED
      BY <2>5, <3>1 DEF Resume, Issue, Happens, TypeOK
  <2>6. ASSUME NEW p \in Process, Deactivate(p)
        PROVE  TypeOK'
    BY <2>6 DEF Deactivate, Issue, Happens, TypeOK
  <2>7. ASSUME NEW p \in Process, NEW x \in Executor, Recover(p, x)
        PROVE  TypeOK'
    <3>1. /\ todo' \in [Process -> [Lists -> SUBSET Workflow]]
          /\ exposed' \subseteq Workflow
      BY <2>7 DEF Recover, Recoverable, TypeOK, Lists
    <3> QED
      <4>1. UNCHANGED <<row, proc, worker, runs, cancelled, stranded>>
        BY <2>7 DEF Recover, Issue
      <4>2. count' \in Nat
        BY <2>7 DEF Recover, Issue, Happens, TypeOK
      <4> QED
        BY <3>1, <4>1, <4>2 DEF TypeOK
  <2> QED
    BY <1>12, <2>1, <2>2, <2>3, <2>4, <2>5, <2>6, <2>7 DEF CommandStep
<1>13. ASSUME NEW p \in Process, Crash(p)
       PROVE  TypeOK'
  BY <1>13, GoneTyped DEF Crash, Happens, TypeOK
<1>14. ASSUME NEW p \in Process, DequeueFails(p)
       PROVE  TypeOK'
  <2>1. /\ worker' \in [Process -> Worker]
        /\ \A q \in Process :
              worker'[q].at = "claim" => worker'[q].pick \in Workflow
    BY <1>14, WorkerStates, WorkerTyped DEF DequeueFails
  <2>2. row' \in [Workflow -> StatusRow] /\ stranded' \subseteq Workflow
    BY <1>14, RowUpdates DEF DequeueFails, TypeOK
  <2> QED
    BY <1>14, <2>1, <2>2 DEF DequeueFails, Happens, TypeOK
<1>15. CASE UNCHANGED vars
  BY <1>15 DEF vars, TypeOK
<1> QED
  BY <1>1, <1>2, <1>3, <1>4, <1>5, <1>6, <1>7, <1>8, <1>9, <1>10, <1>11,
     <1>12, <1>13, <1>14, <1>15 DEF Next, WorkerStep

\* Type correctness: rows, processes, lists, worker loops and executions keep
\* their types, and a worker about to claim holds a workflow.
THEOREM TypeCorrect == Spec => []TypeOK
<1>1. Init => TypeOK
  BY InitTyped
<1>2. TypeOK /\ [Next]_vars => TypeOK'
  BY StepTyped
<1> QED
  BY <1>1, <1>2, PTL DEF Spec

-----------------------------------------------------------------------------
(* What one step may do to a row.                                          *)

Taken(w) == \E p \in Process : row'[w].exe = ExecutorOf[p]

Moves(w) ==
    \/ /\ row'[w].status = row[w].status
       /\ row'[w].queue = row[w].queue
       /\ row'[w].exe = row[w].exe \/ Taken(w)
    \/ /\ row[w].status \in NoRow
       /\ \/ row'[w].status \in Queued /\ row'[w].queue \in Queue
          \/ row'[w].status = "PENDING" /\ Taken(w)
    \/ /\ row[w].status \in Queued
       /\ row'[w].status = "PENDING" /\ Taken(w)
    \/ /\ row'[w].status \in Terminal
       /\ row[w].status = "CANCELLED" => row'[w].status = "CANCELLED"
    \/ row'[w].status = "DELETED"
    \/ /\ row[w].status \in Active \cup {"CANCELLED"}
       /\ row'[w].status = "ENQUEUED" /\ row'[w].queue \in Queue
       /\ count' # count

\* A command, crash or fault counts, so that a step that is one shows.
LEMMA Counted == ASSUME TypeOK, NEW d, Happens(d) PROVE count' # count
BY DEF TypeOK, Happens

\* The groups of statuses do not overlap, but for Queued within Active.
LEMMA StatusFacts == /\ Terminal \cap Queued = {} /\ Terminal \cap NoRow = {}
                     /\ NoRow \cap Active = {} /\ Queued \subseteq Active
                     /\ "PENDING" \in Active \ Queued
                     /\ Terminal \cap Active = {}
BY DEF Terminal, Queued, NoRow, Active

\* Whatever the action, each row moves in one of these ways.
LEMMA RowMoves ==
    ASSUME TypeOK, [Next]_vars
    PROVE  \A w \in Workflow : Moves(w)
<1> SUFFICES ASSUME NEW v \in Workflow
             PROVE  Moves(v)
  OBVIOUS
<1> USE DeploymentAssumption
<1>0. row[v] \in StatusRow /\ row \in [Workflow -> StatusRow]
  BY DEF TypeOK
<1>1. ASSUME row'[v] = row[v] PROVE Moves(v)
  BY <1>1 DEF Moves
<1>2. ASSUME NEW w \in Workflow, NEW x \in Enqueuer, NEW q \in Queue,
             NEW st \in Queued, Enqueue(w, x, q, st)
      PROVE  Moves(v)
  BY <1>0, <1>1, <1>2 DEF Enqueue, Insertable, Moves
<1>3. ASSUME NEW p \in Process, NEW w \in Workflow, Upsert(p, w)
      PROVE  Moves(v)
  <2>1. CASE w = v
    BY <1>3, <2>1, UpsertFacts DEF Moves, Taken
  <2>2. CASE w # v
    BY <1>1, <1>3, <2>2, UpsertFacts
  <2> QED
    BY <2>1, <2>2
<1>4. ASSUME NEW w \in Workflow, TimePasses(w) \/ SetDelay(w)
      PROVE  Moves(v)
  BY <1>0, <1>1, <1>4 DEF TimePasses, SetDelay, Postponed, Moves, StatusRow
<1>5. ASSUME NEW p \in Process, NEW w \in Workflow, Claimable(w), TakeRow(p, w)
      PROVE  Moves(v)
  BY <1>0, <1>1, <1>5 DEF Claimable, TakeRow, Moves, Taken, StatusRow
<1>6. ASSUME NEW w \in Workflow, NEW st \in Terminal, RecordResult(w, st)
      PROVE  Moves(v)
  <2>1. CASE row' = row
    BY <1>1, <2>1
  <2>2. CASE /\ row' = With(w, st)
             /\ row[w].status = "CANCELLED" => st = "CANCELLED"
    BY <1>0, <1>1, <2>2 DEF With, Moves, StatusRow
  <2> QED
    BY <1>6, <2>1, <2>2 DEF RecordResult
<1>7. ASSUME NEW w \in Workflow, Cancel(w)
      PROVE  Moves(v)
  BY <1>0, <1>1, <1>7, StatusFacts
  DEF Cancel, CancelledRow, Moves, Terminal, StatusRow
<1>8. ASSUME CancelAllBefore
      PROVE  Moves(v)
  <2>1. CASE row'[v] = CancelledRow(v) /\ row[v].status \in Active
    BY <1>0, <2>1, StatusFacts DEF CancelledRow, Moves, Terminal, StatusRow
  <2>2. CASE row'[v] = row[v]
    BY <1>1, <2>2
  <2> QED
    BY <1>8, <2>1, <2>2, CancelAllRows
<1>9. ASSUME NEW w \in Workflow, Delete(w)
      PROVE  Moves(v)
  BY <1>0, <1>1, <1>9 DEF Delete, Deleted, Moves
<1>10. ASSUME NEW w \in Workflow, NEW q \in Queue, Resume(w, q)
       PROVE  Moves(v)
  <2>1. count' # count
    BY <1>10, Counted DEF Resume, Issue
  <2>2. CASE v = w
    <3>1. /\ row'[v].status = "ENQUEUED" /\ row'[v].queue = q
          /\ row[v].status \in Active \cup {"CANCELLED"}
      BY <1>0, <1>10, <2>2 DEF Resume, Requeue, StatusRow
    <3> QED
      BY <2>1, <3>1 DEF Moves
  <2>3. CASE v # w
    BY <1>0, <1>1, <1>10, <2>3 DEF Resume, Requeue
  <2> QED
    BY <2>2, <2>3
<1>11. ASSUME NEW p \in Process, WorkerStep(p) \/ DequeueFails(p)
       PROVE  Moves(v)
  <2>1. CASE row' = row
    BY <1>1, <2>1
  <2>2. CASE /\ Claimable(worker[p].pick) /\ TakeRow(p, worker[p].pick)
             /\ worker[p].at = "claim"
    BY <1>5, <2>2 DEF TypeOK
  <2> QED
    BY <1>11, <2>1, <2>2
    DEF WorkerStep, BeginScan, WorkerExits, Pick, Claim, DequeueFails
<1>12. ASSUME NEW r \in runs, EndRun(r)
       PROVE  Moves(v)
  <2>1. r.wf \in Workflow
    BY DEF TypeOK, Execution
  <2>2. PICK st \in Terminal : RecordResult(r.wf, st)
    BY <1>12 DEF EndRun, Terminal
  <2> QED
    BY <1>6, <2>1, <2>2
<1>13. CASE CommandStep
  <2>1. ASSUME row' = row PROVE Moves(v)
    BY <1>1, <2>1
  <2> QED
    BY <1>4, <1>7, <1>8, <1>9, <1>10, <1>13, <2>1
    DEF CommandStep, Deactivate, Recover
<1>14. ASSUME \/ \E p \in Process : Launch(p) \/ Launched(p) \/ Crash(p)
              \/ \E p \in Process, l \in Lists : RecoverNext(p, l)
              \/ \E r \in runs : RecordFails(r)
              \/ UNCHANGED vars
       PROVE  Moves(v)
  BY <1>1, <1>14 DEF Launch, Launched, Crash, RecoverNext, RecordFails, vars
<1> QED
  BY <1>2, <1>3, <1>4, <1>11, <1>12, <1>13, <1>14
  DEF Next, RunWorkflow, StartAgain, StartFails

\* A row that waits to be run is on a queue: no update of status_queue.rs or
\* queue_dequeue.rs leaves a queued row without one.
THEOREM QueuedAlwaysListed == Spec => []QueuedIsListed
<1> USE DeploymentAssumption
<1>1. Init => QueuedIsListed
  BY DEF Init, QueuedIsListed, Queued
<1>2. TypeOK /\ QueuedIsListed /\ [Next]_vars => QueuedIsListed'
  <2> SUFFICES ASSUME TypeOK, QueuedIsListed, [Next]_vars,
                      NEW w \in Workflow, row'[w].status \in Queued
               PROVE  row'[w].queue # Nil
    BY DEF QueuedIsListed
  <2>1. Moves(w)
    BY RowMoves
  <2> QED
    BY <2>1 DEF Moves, QueuedIsListed, Terminal, Queued
<1> QED
  BY <1>1, <1>2, TypeCorrect, PTL DEF Spec

\* An ended row stays ended, whatever stale execution, recovery list or dequeue
\* still has to do with it; only resume makes a CANCELLED row run again.
THEOREM EndedForGood == Spec => EndedStaysEnded
<1> DEFINE Stays ==
       \A w \in Workflow :
          /\ row[w].status \in {"SUCCESS", "ERROR"} =>
                row'[w].status \in Terminal \cup {"DELETED"}
          /\ row[w].status = "CANCELLED" =>
                \/ row'[w].status \in {"CANCELLED", "DELETED"}
                \/ row'[w].status = "ENQUEUED" /\ count' # count
<1>1. TypeOK /\ [Next]_vars => [Stays]_vars
  <2> SUFFICES ASSUME TypeOK, [Next]_vars, NEW w \in Workflow
               PROVE  /\ row[w].status \in {"SUCCESS", "ERROR"} =>
                            row'[w].status \in Terminal \cup {"DELETED"}
                      /\ row[w].status = "CANCELLED" =>
                            \/ row'[w].status \in {"CANCELLED", "DELETED"}
                            \/ row'[w].status = "ENQUEUED" /\ count' # count
    OBVIOUS
  <2>1. Moves(w)
    BY RowMoves
  <2> QED
    BY <2>1 DEF Moves, Terminal, NoRow, Queued, Active
<1>2. [][Stays]_vars <=> EndedStaysEnded
  BY DEF EndedStaysEnded
<1> QED
  BY <1>1, <1>2, TypeCorrect, PTL DEF Spec

-----------------------------------------------------------------------------
(* PENDING has a runner.                                                   *)

HasOwner(w) ==
    row[w].status = "PENDING" => \E p \in Process : ExecutorOf[p] = row[w].exe

HasRunner(w) ==
    row[w].status = "PENDING" /\ w \notin stranded =>
       (Alive(row[w].exe) => Owned(w) \/ Listed(w))

\* Nothing that keeps w waiting or running is lost.
LEMMA QuietKeeps ==
    ASSUME NEW w \in Workflow, HasRunner(w),
           row'[w].status = "PENDING" => /\ row[w].status = "PENDING"
                                         /\ row'[w].exe = row[w].exe,
           w \in stranded => w \in stranded',
           runs \subseteq runs',
           \A p \in Process : w \in todo[p].launch => w \in todo'[p].launch,
           \A p \in Process : ExecutorOf[p] = row[w].exe /\ proc[p] = "down"
                                 => proc'[p] = "down"
    PROVE  HasRunner(w)'
<1> SUFFICES ASSUME row'[w].status = "PENDING", w \notin stranded',
                    Alive(row[w].exe)'
             PROVE  Owned(w)' \/ Listed(w)'
  BY DEF HasRunner, Alive
<1>1. Alive(row[w].exe)
  BY DEF Alive
<1>2. Owned(w) \/ Listed(w)
  BY <1>1 DEF HasRunner
<1>3. CASE Owned(w)
  BY <1>3 DEF Owned
<1>4. CASE Listed(w)
  BY <1>4 DEF Listed
<1> QED
  BY <1>2, <1>3, <1>4

\* A process takes down only what is its own executor's.
LEMMA GoneKeeps ==
    ASSUME TypeOK, NEW w \in Workflow, HasRunner(w), NEW p \in Process, Gone(p),
           row'[w] = row[w], w \in stranded => w \in stranded'
    PROVE  HasRunner(w)'
<1> SUFFICES ASSUME row[w].status = "PENDING", w \notin stranded',
                    Alive(row[w].exe)'
             PROVE  Owned(w)' \/ Listed(w)'
  BY DEF HasRunner, Alive
<1>1. /\ proc'[p] = "down"
      /\ \A q \in Process : q # p => proc'[q] = proc[q] /\ todo'[q] = todo[q]
      /\ \A r \in runs : r.proc # p => r \in runs'
  BY DEF Gone, TypeOK
<1>2. ExecutorOf[p] # row[w].exe
  BY <1>1 DEF Alive
<1>3. Alive(row[w].exe)
  BY <1>1, <1>2 DEF Alive
<1>4. Owned(w) \/ Listed(w)
  BY <1>3 DEF HasRunner
<1>5. CASE Owned(w)
  <2>1. PICK r \in runs : r.wf = w /\ ExecutorOf[r.proc] = row[w].exe
    BY <1>5 DEF Owned
  <2>2. r \in runs'
    BY <1>1, <1>2, <2>1
  <2> QED
    BY <2>1, <2>2 DEF Owned
<1>6. CASE Listed(w)
  BY <1>1, <1>2, <1>6 DEF Listed
<1> QED
  BY <1>4, <1>5, <1>6

\* The end of another workflow's execution.
LEMMA ResumedKeeps ==
    ASSUME TypeOK, NEW w \in Workflow, HasRunner(w), NEW r \in runs,
           NEW ok \in BOOLEAN, Resumed(r, ok), r.wf # w,
           row'[w] = row[w], w \in stranded => w \in stranded'
    PROVE  HasRunner(w)'
<1>1. r.proc \in Process
  BY DEF TypeOK, Execution
<1>2. CASE Gone(r.proc)
  BY <1>1, <1>2, GoneKeeps
<1>3. CASE /\ runs' = runs \ {r}
           /\ proc' = proc
           /\ \A p \in Process : todo'[p].launch = todo[p].launch
  <2> SUFFICES ASSUME row[w].status = "PENDING", w \notin stranded',
                      Alive(row[w].exe)'
               PROVE  Owned(w)' \/ Listed(w)'
    BY DEF HasRunner, Alive
  <2>1. Alive(row[w].exe)
    BY <1>3 DEF Alive
  <2>2. Owned(w) \/ Listed(w)
    BY <2>1 DEF HasRunner
  <2>3. Owned(w) => Owned(w)'
    BY <1>3 DEF Owned
  <2>4. Listed(w) => Listed(w)'
    BY <1>3 DEF Listed
  <2> QED
    BY <2>2, <2>3, <2>4
<1>4. CASE /\ runs' = runs \ {r}
           /\ todo' = IF r.by = "admin" /\ ~ok
                      THEN [todo EXCEPT ![r.proc].admin = {}] ELSE todo
           /\ UNCHANGED <<proc, cancelled>>
  <2>1. \A p \in Process : todo'[p].launch = todo[p].launch
    BY <1>1, <1>4 DEF TypeOK, Lists
  <2> QED
    BY <1>3, <1>4, <2>1
<1> QED
  BY <1>2, <1>4 DEF Resumed

\* Every action keeps PendingHasRunner.
LEMMA RunnerKept ==
    ASSUME TypeOK, PendingHasRunner, [Next]_vars
    PROVE  PendingHasRunner'
<1> SUFFICES ASSUME NEW v \in Workflow
             PROVE  HasOwner(v)' /\ HasRunner(v)'
  BY DEF PendingHasRunner, HasOwner, HasRunner
<1> USE DeploymentAssumption
<1>0. /\ row[v] \in StatusRow /\ row \in [Workflow -> StatusRow]
      /\ todo \in [Process -> [Lists -> SUBSET Workflow]]
      /\ proc \in [Process -> {"down", "launching", "up"}]
      /\ HasOwner(v) /\ HasRunner(v)
  BY DEF TypeOK, PendingHasRunner, HasOwner, HasRunner
\* What makes a row PENDING makes it some process's.
<1>owner. HasOwner(v)'
  <2>1. Moves(v)
    BY RowMoves
  <2> QED
    BY <1>0, <2>1 DEF Moves, Taken, HasOwner, Queued, Terminal
<1> SUFFICES HasRunner(v)'
  BY <1>owner
\* Steps that touch neither executions, processes nor lists for launch.
<1>1. ASSUME row'[v].status = "PENDING" => row'[v] = row[v],
             v \in stranded => v \in stranded',
             runs \subseteq runs',
             \A p \in Process : todo'[p].launch = todo[p].launch,
             \A p \in Process : proc[p] = "down" => proc'[p] = "down"
      PROVE  HasRunner(v)'
  BY <1>0, <1>1, QuietKeeps
<1>2. ASSUME NEW w \in Workflow, NEW x \in Enqueuer, NEW q \in Queue,
             NEW st \in Queued, Enqueue(w, x, q, st)
      PROVE  HasRunner(v)'
  BY <1>0, <1>1, <1>2 DEF Enqueue, Queued
<1>3. ASSUME NEW p \in Process, NEW w \in Workflow,
             RunWorkflow(p, w) \/ StartAgain(p, w) \/ StartFails(p, w)
      PROVE  HasRunner(v)'
  <2>0. Upsert(p, w) /\ todo' = todo /\ proc' = proc
    BY <1>3 DEF RunWorkflow, StartAgain, StartFails
  <2>1. CASE w = v
    <3>1. \/ v \in stranded'
          \/ \E n : [wf |-> v, proc |-> p, by |-> "task", no |-> n] \in runs'
      BY <1>3, <2>1 DEF RunWorkflow, StartAgain, StartFails, Begin, BeginNo
    <3>2. row'[v].exe = ExecutorOf[p]
      BY <2>0, <2>1, UpsertFacts
    <3>3. v \in stranded' \/ Owned(v)'
      BY <3>1, <3>2 DEF Owned
    <3> QED
      BY <3>3 DEF HasRunner
  <2>2. CASE w # v
    <3>1. row'[v] = row[v]
      BY <2>0, <2>2, UpsertFacts
    <3>2. runs \subseteq runs' /\ (v \in stranded => v \in stranded')
      BY <1>3, <2>2 DEF RunWorkflow, StartAgain, StartFails, Begin, BeginNo
    <3> QED
      BY <1>0, <1>1, <2>0, <3>1, <3>2
  <2> QED
    BY <2>1, <2>2
<1>4. ASSUME NEW w \in Workflow, TimePasses(w) \/ SetDelay(w)
      PROVE  HasRunner(v)'
  <2>1. row[w].status = "DELAYED" /\ \E b \in BOOLEAN : row' = [row EXCEPT ![w].due = b]
    BY <1>4 DEF TimePasses, SetDelay, Postponed
  <2>2. row'[v].status = "PENDING" => row'[v] = row[v]
    BY <1>0, <2>1 DEF StatusRow
  <2> QED
    BY <1>1, <1>4, <2>2 DEF TimePasses, SetDelay, Postponed, Issue
<1>5. ASSUME NEW p \in Process, Launch(p)
      PROVE  HasRunner(v)'
  <2>1. CASE ExecutorOf[p] = row[v].exe
    <3>1. row[v].status = "PENDING" => v \in todo'[p].launch
      BY <1>0, <1>5, <2>1 DEF Launch, Recoverable, Active, Lists
    <3>2. row[v].status = "PENDING" => Listed(v)'
      BY <1>5, <2>1, <3>1 DEF Launch, Listed
    <3> QED
      BY <1>5, <3>2 DEF HasRunner, Launch
  <2>2. CASE ExecutorOf[p] # row[v].exe
    <3>1. \A q \in Process : v \in todo[q].launch /\ q # p => v \in todo'[q].launch
      BY <1>0, <1>5 DEF Launch
    <3>2. \A q \in Process : q # p => proc'[q] = proc[q]
      BY <1>0, <1>5 DEF Launch
    <3>3. /\ runs' = runs /\ row' = row
          /\ v \in stranded => v \in stranded'
      BY <1>5, <2>2 DEF Launch, Recoverable
    <3> SUFFICES ASSUME row[v].status = "PENDING", v \notin stranded,
                        Alive(row[v].exe)'
                 PROVE  Owned(v)' \/ Listed(v)'
      BY <3>3 DEF HasRunner, Alive
    <3>4. Alive(row[v].exe)
      BY <2>2, <3>2, <3>3 DEF Alive
    <3>5. Owned(v) \/ Listed(v)
      BY <1>0, <3>4 DEF HasRunner
    <3>6. Owned(v) => Owned(v)'
      BY <3>3 DEF Owned
    <3>7. Listed(v) => Listed(v)'
      BY <2>2, <3>1, <3>3 DEF Listed
    <3> QED
      BY <3>5, <3>6, <3>7
  <2> QED
    BY <2>1, <2>2
<1>6. ASSUME NEW p \in Process, Launched(p)
      PROVE  HasRunner(v)'
  BY <1>0, <1>1, <1>6 DEF Launched
<1>7. ASSUME NEW p \in Process, NEW l \in Lists, RecoverNext(p, l)
      PROVE  HasRunner(v)'
  <2>0. row' = row /\ stranded' = stranded
    BY <1>7 DEF RecoverNext
  <2>1. ASSUME NEW w \in todo[p][l], Begin(p, w, l),
               todo' = [todo EXCEPT ![p][l] = @ \ {w}],
               UNCHANGED <<proc, worker, cancelled>>
        PROVE  HasRunner(v)'
    <3>1. CASE w = v /\ ExecutorOf[p] = row[v].exe
      <4>1. [wf |-> v, proc |-> p, by |-> l, no |-> 0] \in runs'
        BY <2>1, <3>1 DEF Begin, BeginNo
      <4>2. Owned(v)'
        BY <2>0, <3>1, <4>1 DEF Owned
      <4> QED
        BY <4>2 DEF HasRunner
    <3>2. CASE ~(w = v /\ ExecutorOf[p] = row[v].exe)
      <4> SUFFICES ASSUME row[v].status = "PENDING", v \notin stranded,
                          Alive(row[v].exe)'
                   PROVE  Owned(v)' \/ Listed(v)'
        BY <2>0 DEF HasRunner, Alive
      <4>1. Owned(v) \/ Listed(v)
        BY <1>0, <2>0, <2>1 DEF HasRunner, Alive
      <4>2. Owned(v) => Owned(v)'
        BY <2>0, <2>1 DEF Owned, Begin, BeginNo
      <4>3. ASSUME Listed(v) PROVE Listed(v)'
        <5>1. PICK q \in Process : ExecutorOf[q] = row[v].exe /\ v \in todo[q].launch
          BY <4>3 DEF Listed
        <5>2. v \in todo'[q].launch
          <6>1. CASE q # p
            BY <1>0, <2>1, <5>1, <6>1
          <6>2. CASE q = p
            <7>1. w # v
              BY <3>2, <5>1, <6>2
            <7>2. todo'[p].launch = todo[p].launch \/ todo'[p].launch = todo[p].launch \ {w}
              BY <1>0, <2>1 DEF Lists
            <7> QED
              BY <5>1, <6>2, <7>1, <7>2
          <6> QED
            BY <6>1, <6>2
        <5> QED
          BY <2>0, <5>1, <5>2 DEF Listed
      <4> QED
        BY <4>1, <4>2, <4>3
    <3> QED
      BY <3>1, <3>2
  <2>2. CASE Gone(p)
    BY <1>0, <2>0, <2>2, GoneKeeps
  <2>3. CASE todo' = [todo EXCEPT ![p].admin = {}]
             /\ UNCHANGED <<proc, worker, runs, cancelled>>
    BY <1>0, <1>1, <2>0, <2>3 DEF Lists
  <2> QED
    BY <1>7, <2>1, <2>2, <2>3 DEF RecoverNext
<1>8. ASSUME NEW p \in Process, BeginScan(p) \/ WorkerExits(p) \/ Pick(p)
      PROVE  HasRunner(v)'
  BY <1>1, <1>8 DEF BeginScan, WorkerExits, Pick
<1>9. ASSUME NEW p \in Process, Claim(p)
      PROVE  HasRunner(v)'
  <2> DEFINE w == worker[p].pick
  <2>0. w \in Workflow /\ todo' = todo /\ proc' = proc
    BY <1>9 DEF Claim, TypeOK
  <2>1. CASE /\ TakeRow(p, w) /\ Begin(p, w, "worker")
             /\ stranded' = stranded \ {w}
    <3>1. CASE w = v
      <4>1. [wf |-> v, proc |-> p, by |-> "worker", no |-> 0] \in runs'
        BY <2>1, <3>1 DEF Begin, BeginNo
      <4>2. row'[v].exe = ExecutorOf[p]
        BY <1>0, <2>1, <3>1 DEF TakeRow, StatusRow
      <4>3. Owned(v)'
        BY <4>1, <4>2 DEF Owned
      <4> QED
        BY <4>3 DEF HasRunner
    <3>2. CASE w # v
      BY <1>0, <1>1, <2>0, <2>1, <3>2 DEF TakeRow, Begin, BeginNo
    <3> QED
      BY <3>1, <3>2
  <2>2. CASE /\ TakeRow(p, w) /\ stranded' = stranded \cup {w} /\ runs' = runs
    <3>1. CASE w = v
      BY <2>2, <3>1 DEF HasRunner
    <3>2. CASE w # v
      BY <1>0, <1>1, <2>0, <2>2, <3>2 DEF TakeRow
    <3> QED
      BY <3>1, <3>2
  <2>3. CASE UNCHANGED <<row, runs, stranded>>
    BY <1>1, <2>0, <2>3
  <2> QED
    BY <1>9, <2>1, <2>2, <2>3 DEF Claim
<1>10. ASSUME NEW r \in runs, EndRun(r)
       PROVE  HasRunner(v)'
  <2>1. r.wf \in Workflow /\ stranded' = stranded
    BY <1>10 DEF TypeOK, Execution, EndRun
  <2>2. PICK st \in Terminal, ok \in BOOLEAN :
           RecordResult(r.wf, st) /\ Resumed(r, ok)
    BY <1>10 DEF EndRun, Terminal
  <2>3. CASE r.wf = v
    <3>1. row'[v].status # "PENDING"
      BY <1>0, <2>2, <2>3 DEF RecordResult, With, NoRow, Terminal, StatusRow
    <3> QED
      BY <3>1 DEF HasRunner
  <2>4. CASE r.wf # v
    <3>1. row'[v] = row[v]
      BY <1>0, <2>2, <2>4 DEF RecordResult, With
    <3> QED
      BY <1>0, <2>1, <2>2, <2>4, <3>1, ResumedKeeps
  <2> QED
    BY <2>3, <2>4
<1>11. ASSUME NEW r \in runs, RecordFails(r)
       PROVE  HasRunner(v)'
  <2>1. row' = row /\ stranded' = stranded \cup {r.wf}
    BY <1>11 DEF RecordFails
  <2>2. PICK ok \in BOOLEAN : Resumed(r, ok)
    BY <1>11, Zenon DEF RecordFails
  <2>3. CASE r.wf = v
    BY <2>1, <2>3 DEF HasRunner
  <2>4. CASE r.wf # v
    BY <1>0, <2>1, <2>2, <2>4, ResumedKeeps
  <2> QED
    BY <2>3, <2>4
<1>12. CASE CommandStep
  <2>1. runs' = runs /\ stranded' = stranded /\ proc' = proc
    BY <1>12 DEF CommandStep, CancelAllBefore, Cancel, SetDelay, Delete, Resume,
                 Deactivate, Recover, Issue
  <2>2. \A p \in Process : todo'[p].launch = todo[p].launch
    BY <1>0, <1>12
    DEF CommandStep, CancelAllBefore, Cancel, SetDelay, Delete, Resume,
        Deactivate, Recover, Lists
  <2>3. row'[v].status = "PENDING" => row'[v] = row[v]
    <3>1. ASSUME NEW w \in Workflow, Cancel(w) \/ SetDelay(w) \/ Delete(w)
          PROVE  row'[v].status = "PENDING" => row'[v] = row[v]
      <4>1. CASE Cancel(w)
        BY <1>0, <4>1 DEF Cancel, CancelledRow, StatusRow
      <4>2. CASE SetDelay(w)
        BY <1>0, <4>2 DEF SetDelay, Postponed, StatusRow
      <4>3. CASE Delete(w)
        BY <1>0, <4>3 DEF Delete, Deleted
      <4> QED
        BY <3>1, <4>1, <4>2, <4>3
    <3>2. ASSUME NEW w \in Workflow, NEW q \in Queue, Resume(w, q)
          PROVE  row'[v].status = "PENDING" => row'[v] = row[v]
      BY <1>0, <3>2 DEF Resume, Requeue, StatusRow
    <3>3. CASE CancelAllBefore
      BY <1>0, <3>3, CancelAllRows DEF CancelledRow, StatusRow
    <3> QED
      BY <1>12, <3>1, <3>2, <3>3 DEF CommandStep, Deactivate, Recover
  <2> QED
    BY <1>1, <2>1, <2>2, <2>3
<1>13. ASSUME NEW p \in Process, Crash(p)
       PROVE  HasRunner(v)'
  BY <1>0, <1>13, GoneKeeps DEF Crash
<1>14. ASSUME NEW p \in Process, DequeueFails(p)
       PROVE  HasRunner(v)'
  <2>0. todo' = todo /\ proc' = proc /\ runs' = runs
    BY <1>14 DEF DequeueFails
  <2>1. CASE UNCHANGED <<row, stranded>>
    BY <1>1, <2>0, <2>1
  <2>2. CASE /\ TakeRow(p, worker[p].pick)
             /\ stranded' = stranded \cup {worker[p].pick}
    <3>1. CASE worker[p].pick = v
      BY <2>2, <3>1 DEF HasRunner
    <3>2. CASE worker[p].pick # v
      BY <1>0, <1>1, <2>0, <2>2, <3>2 DEF TakeRow
    <3> QED
      BY <3>1, <3>2
  <2> QED
    BY <1>14, <2>1, <2>2 DEF DequeueFails
<1>15. CASE UNCHANGED vars
  BY <1>1, <1>15 DEF vars
<1> QED
  BY <1>2, <1>3, <1>4, <1>5, <1>6, <1>7, <1>8, <1>9, <1>10, <1>11, <1>12,
     <1>13, <1>14, <1>15 DEF Next, WorkerStep

\* PENDING means that the row's executor executes the workflow, is about to
\* recover it, or is down and will: unless a call failed, the executor dequeued
\* what it had not registered, or a start under a used id was refused, and then
\* until the executor's next launch.
THEOREM PendingIsRunning == Spec => []PendingHasRunner
<1>1. Init => PendingHasRunner
  BY DEF Init, PendingHasRunner
<1>2. TypeOK /\ PendingHasRunner /\ [Next]_vars => PendingHasRunner'
  BY RunnerKept
<1> QED
  BY <1>1, <1>2, TypeCorrect, PTL DEF Spec

-----------------------------------------------------------------------------
(* A process that is down does nothing.                                    *)

Idle(p) ==
    proc[p] = "down" =>
       /\ \A r \in runs : r.proc # p
       /\ \A l \in Lists : todo[p][l] = {}
       /\ worker[p].at = "off"

DownIsIdle == \A p \in Process : Idle(p)

\* A step that gives a process nothing while it is down leaves it idle.
LEMMA IdleUnlessUp ==
    ASSUME NEW p \in Process, Idle(p),
           proc[p] = "down" =>
              /\ \A r \in runs' : r.proc = p => r \in runs
              /\ \A l \in Lists : todo'[p][l] \subseteq todo[p][l]
              /\ worker'[p] = worker[p],
           proc'[p] = "down" => proc[p] = "down"
    PROVE  Idle(p)'
BY DEF Idle

\* A process that goes takes everything it was doing with it.
LEMMA GoneIdle ==
    ASSUME TypeOK, DownIsIdle, NEW p \in Process, Gone(p)
    PROVE  DownIsIdle'
<1> SUFFICES ASSUME NEW v \in Process
             PROVE  Idle(v)'
  BY DEF DownIsIdle
<1>1. CASE v = p
  BY <1>1 DEF Gone, Idle, TypeOK, Off
<1>2. CASE v # p
  <2>1. /\ proc'[v] = proc[v] /\ todo'[v] = todo[v] /\ worker'[v] = worker[v]
        /\ runs' \subseteq runs
    BY <1>2 DEF Gone, TypeOK
  <2> QED
    BY <2>1, IdleUnlessUp DEF DownIsIdle
<1> QED
  BY <1>1, <1>2

\* The steps after an execution are those of a process that is up.
LEMMA ResumedIdle ==
    ASSUME TypeOK, DownIsIdle, NEW r \in runs, NEW ok \in BOOLEAN, Resumed(r, ok)
    PROVE  DownIsIdle'
<1>1. r.proc \in Process
  BY DEF TypeOK, Execution
<1>2. CASE Gone(r.proc)
  BY <1>1, <1>2, GoneIdle
<1>3. CASE /\ runs' = runs \ {r}
           /\ worker' = IF r.by # "worker" THEN worker
                        ELSE [worker EXCEPT ![r.proc] =
                                IF ok THEN Scan(worker[r.proc].left) ELSE Head]
           /\ todo' = IF r.by = "admin" /\ ~ok
                      THEN [todo EXCEPT ![r.proc].admin = {}] ELSE todo
           /\ UNCHANGED <<proc, cancelled>>
  <2> SUFFICES ASSUME NEW v \in Process
               PROVE  Idle(v)'
    BY DEF DownIsIdle
  <2>1. proc[v] = "down" => r.proc # v
    BY DEF DownIsIdle, Idle
  <2>2. r.proc # v => worker'[v] = worker[v] /\ todo'[v] = todo[v]
    BY <1>1, <1>3 DEF TypeOK
  <2>3. runs' \subseteq runs /\ proc' = proc
    BY <1>3
  <2> QED
    BY <2>1, <2>2, <2>3, IdleUnlessUp DEF DownIsIdle
<1> QED
  BY <1>2, <1>3 DEF Resumed

\* Every action keeps DownIsIdle.
LEMMA IdleKept ==
    ASSUME TypeOK, DownIsIdle, [Next]_vars
    PROVE  DownIsIdle'
<1>0. /\ \A v \in Process : Idle(v)
      /\ proc \in [Process -> {"down", "launching", "up"}]
      /\ todo \in [Process -> [Lists -> SUBSET Workflow]]
      /\ worker \in [Process -> Worker]
  BY DEF DownIsIdle, TypeOK
\* Steps of a process that is up, or that comes up.
<1>1. ASSUME NEW p \in Process, proc[p] # "down", proc'[p] # "down",
             \A v \in Process : v # p => /\ worker'[v] = worker[v]
                                         /\ todo'[v] = todo[v]
                                         /\ proc'[v] = proc[v],
             \A r \in runs' : r \in runs \/ r.proc = p
      PROVE  DownIsIdle'
  <2> SUFFICES ASSUME NEW v \in Process
               PROVE  Idle(v)'
    BY DEF DownIsIdle
  <2> QED
    BY <1>0, <1>1, IdleUnlessUp DEF Idle
<1>2. ASSUME UNCHANGED <<proc, todo, worker, runs>> PROVE DownIsIdle'
  BY <1>2 DEF DownIsIdle, Idle
<1>3. ASSUME NEW p \in Process, NEW w \in Workflow,
             RunWorkflow(p, w) \/ StartAgain(p, w) \/ StartFails(p, w)
      PROVE  DownIsIdle'
  <2>1. \A r \in runs' : r \in runs \/ r.proc = p
    BY <1>3 DEF RunWorkflow, StartAgain, StartFails, Begin, BeginNo
  <2> QED
    BY <1>1, <1>3, <2>1 DEF RunWorkflow, StartAgain, StartFails
<1>4. ASSUME NEW p \in Process, Launch(p)
      PROVE  DownIsIdle'
  <2> SUFFICES ASSUME NEW v \in Process
               PROVE  Idle(v)'
    BY DEF DownIsIdle
  <2>1. CASE v = p
    BY <1>0, <1>4, <2>1 DEF Launch, Idle
  <2>2. CASE v # p
    BY <1>0, <1>4, <2>2, IdleUnlessUp DEF Launch
  <2> QED
    BY <2>1, <2>2
<1>5. ASSUME NEW p \in Process, Launched(p)
      PROVE  DownIsIdle'
  BY <1>0, <1>1, <1>5 DEF Launched
<1>6. ASSUME NEW p \in Process, NEW l \in Lists, RecoverNext(p, l)
      PROVE  DownIsIdle'
  <2>1. PICK w \in todo[p][l] :
          \/ Begin(p, w, l) /\ todo' = [todo EXCEPT ![p][l] = @ \ {w}]
             /\ UNCHANGED <<proc, worker, cancelled>>
          \/ Gone(p)
          \/ todo' = [todo EXCEPT ![p].admin = {}]
             /\ UNCHANGED <<proc, worker, runs, cancelled>>
    BY <1>6 DEF RecoverNext
  <2>2. proc[p] # "down"
    BY <1>0, <2>1 DEF Idle
  <2>3. CASE Gone(p)
    BY <2>3, GoneIdle
  <2>4. CASE Begin(p, w, l) /\ todo' = [todo EXCEPT ![p][l] = @ \ {w}]
             /\ UNCHANGED <<proc, worker, cancelled>>
    BY <1>0, <1>1, <2>2, <2>4 DEF Begin, BeginNo
  <2>5. CASE todo' = [todo EXCEPT ![p].admin = {}]
             /\ UNCHANGED <<proc, worker, runs, cancelled>>
    BY <1>0, <1>1, <2>2, <2>5
  <2> QED
    BY <2>1, <2>3, <2>4, <2>5
<1>7. ASSUME NEW p \in Process, WorkerStep(p) \/ DequeueFails(p)
      PROVE  DownIsIdle'
  <2>1. worker[p].at # "off"
    BY <1>7 DEF WorkerStep, BeginScan, WorkerExits, Pick, Claim, DequeueFails
  <2>2. proc[p] # "down" /\ proc' = proc /\ todo' = todo
    BY <1>0, <1>7, <2>1
    DEF Idle, WorkerStep, BeginScan, WorkerExits, Pick, Claim, DequeueFails
  <2>3. \A v \in Process : v # p => worker'[v] = worker[v]
    BY <1>0, <1>7
    DEF WorkerStep, BeginScan, WorkerExits, Pick, NextQueue, Claim, DequeueFails
  <2>4. \A r \in runs' : r \in runs \/ r.proc = p
    <3>1. runs' = runs \/ Begin(p, worker[p].pick, "worker")
      BY <1>7 DEF WorkerStep, BeginScan, WorkerExits, Pick, Claim, DequeueFails
    <3> QED
      BY <3>1 DEF Begin, BeginNo
  <2> QED
    BY <1>1, <2>2, <2>3, <2>4
<1>8. ASSUME NEW r \in runs, EndRun(r) \/ RecordFails(r)
      PROVE  DownIsIdle'
  <2>1. PICK ok \in BOOLEAN : Resumed(r, ok)
    BY <1>8, Zenon DEF EndRun, RecordFails
  <2> QED
    BY <2>1, ResumedIdle
<1>9. CASE CommandStep
  <2>1. ASSUME NEW p \in Process, NEW x \in Executor, Recover(p, x)
        PROVE  DownIsIdle'
    BY <1>0, <1>1, <2>1 DEF Recover
  <2> QED
    BY <1>2, <1>9, <2>1 DEF CommandStep, CancelAllBefore, Cancel, SetDelay, Postponed,
       Delete, Resume, Deactivate
<1>10. ASSUME NEW p \in Process, Crash(p)
       PROVE  DownIsIdle'
  BY <1>10, GoneIdle DEF Crash
<1>11. ASSUME \/ \E w \in Workflow, x \in Enqueuer, q \in Queue, st \in Queued :
                    Enqueue(w, x, q, st)
              \/ \E w \in Workflow : TimePasses(w)
              \/ UNCHANGED vars
       PROVE  DownIsIdle'
  BY <1>2, <1>11 DEF Enqueue, TimePasses, vars
<1> QED
  BY <1>3, <1>4, <1>5, <1>6, <1>7, <1>8, <1>9, <1>10, <1>11 DEF Next

\* A process that is down has no executions, no lists and no worker loop: what
\* a crash, or a failed launch, leaves behind is only in the database.
LEMMA DownHasNothing == Spec => []DownIsIdle
<1>1. Init => DownIsIdle
  BY DEF Init, DownIsIdle, Idle, Off
<1>2. TypeOK /\ DownIsIdle /\ [Next]_vars => DownIsIdle'
  BY IdleKept
<1> QED
  BY <1>1, <1>2, TypeCorrect, PTL DEF Spec

-----------------------------------------------------------------------------
(* One execution at a time.                                                *)

\* What SoleExecution rests on: who executes w, or is about to recover it, is
\* the process its row names; a row that waits names no process, so that it is
\* in nobody's list; a row that is listed for launch has no execution; and only
\* recover_workflows, which exposes w, puts it into a list of the other kind.
Sole(w) ==
    /\ \A r \in runs : r.wf = w =>
          /\ row[w].exe = ExecutorOf[r.proc]
          /\ row[w].status \notin Queued \cup NoRow
          /\ \A s \in runs : s.wf = w => r = s
          /\ \A p \in Process : w \notin todo[p].launch
    /\ \A p \in Process : w \in todo[p].launch =>
          /\ row[w].exe = ExecutorOf[p]
          /\ row[w].status \notin Queued \cup NoRow
    /\ row[w].status \in Queued => \A p \in Process : row[w].exe # ExecutorOf[p]
    /\ \A p \in Process : w \notin todo[p].admin

SoleInv == \A w \in Workflow \ exposed : Sole(w)

\* Nothing new is executed or listed.
LEMMA SoleKeeps ==
    ASSUME NEW w \in Workflow, Sole(w),
           row'[w].exe = row[w].exe,
           row'[w].status \in Queued \cup NoRow =>
              row'[w].status = row[w].status,
           \A r \in runs' : r.wf = w => r \in runs,
           \A p \in Process : w \in todo'[p].launch => w \in todo[p].launch,
           \A p \in Process : w \in todo'[p].admin => w \in todo[p].admin
    PROVE  Sole(w)'
<1>1. \A r \in runs' : r.wf = w =>
         /\ row'[w].exe = ExecutorOf[r.proc]
         /\ row'[w].status \notin Queued \cup NoRow
         /\ \A s \in runs' : s.wf = w => r = s
         /\ \A p \in Process : w \notin todo'[p].launch
  BY DEF Sole
<1>2. \A p \in Process : w \in todo'[p].launch =>
         /\ row'[w].exe = ExecutorOf[p]
         /\ row'[w].status \notin Queued \cup NoRow
  BY DEF Sole
<1>3. row'[w].status \in Queued =>
         \A p \in Process : row'[w].exe # ExecutorOf[p]
  BY DEF Sole
<1> QED
  BY <1>1, <1>2, <1>3 DEF Sole

\* A row that nobody executes or lists begins to be executed.
LEMMA SoleBegins ==
    ASSUME NEW w \in Workflow, NEW p \in Process,
           \A r \in runs : r.wf # w,
           \A r \in runs' : r.wf = w => r.proc = p,
           \A r, s \in runs' : r.wf = w /\ s.wf = w => r = s,
           row'[w].exe = ExecutorOf[p],
           row'[w].status \notin Queued \cup NoRow,
           \A q \in Process : w \notin todo'[q].launch /\ w \notin todo'[q].admin
    PROVE  Sole(w)'
BY DEF Sole

\* A process that goes only takes executions and lists away.
LEMMA GoneSole ==
    ASSUME TypeOK, NEW w \in Workflow, Sole(w), NEW p \in Process, Gone(p),
           row'[w].exe = row[w].exe,
           row'[w].status \in Queued \cup NoRow =>
              row'[w].status = row[w].status
    PROVE  Sole(w)'
<1>1. \A q \in Process : \A l \in Lists : todo'[q][l] \subseteq todo[q][l]
  BY DEF Gone, TypeOK
<1>2. runs' \subseteq runs
  BY DEF Gone
<1> QED
  BY <1>1, <1>2, SoleKeeps DEF Lists

\* So does the end of an execution.
LEMMA ResumedSole ==
    ASSUME TypeOK, NEW w \in Workflow, Sole(w), NEW r \in runs,
           NEW ok \in BOOLEAN, Resumed(r, ok),
           row'[w].exe = row[w].exe,
           row'[w].status \in Queued \cup NoRow =>
              row'[w].status = row[w].status
    PROVE  Sole(w)'
<1>1. r.proc \in Process
  BY DEF TypeOK, Execution
<1>2. CASE Gone(r.proc)
  BY <1>1, <1>2, GoneSole
<1>3. CASE /\ runs' = runs \ {r}
           /\ todo' = IF r.by = "admin" /\ ~ok
                      THEN [todo EXCEPT ![r.proc].admin = {}] ELSE todo
  <2>1. \A q \in Process : \A l \in Lists : todo'[q][l] \subseteq todo[q][l]
    BY <1>1, <1>3 DEF TypeOK
  <2> QED
    BY <1>3, <2>1, SoleKeeps DEF Lists
<1> QED
  BY <1>2, <1>3 DEF Resumed

\* dequeue_workflow's UPDATE, with or without the execution that follows it.
LEMMA TakenSole ==
    ASSUME TypeOK, NEW v \in Workflow, Sole(v), NEW p \in Process,
           NEW w \in Workflow, Claimable(w), TakeRow(p, w), todo' = todo,
           runs' = runs \/ Begin(p, w, "worker")
    PROVE  Sole(v)'
<1>0. row[v] \in StatusRow /\ row \in [Workflow -> StatusRow]
  BY DEF TypeOK
<1>1. CASE v = w
  <2>1. /\ \A r \in runs : r.wf # w
        /\ \A q \in Process : w \notin todo'[q].launch /\ w \notin todo'[q].admin
    BY <1>1 DEF Sole, Claimable
  <2>2. row'[w].exe = ExecutorOf[p] /\ row'[w].status = "PENDING"
    BY <1>0, <1>1 DEF TakeRow, StatusRow
  <2>3. "PENDING" \notin Queued \cup NoRow
    BY DEF Queued, NoRow
  <2>4. \A r \in runs' : r.wf = w => r = [wf |-> w, proc |-> p, by |-> "worker",
                                       no |-> 0]
    BY <2>1 DEF Begin, BeginNo
  <2> QED
    BY <1>1, <2>1, <2>2, <2>3, <2>4, SoleBegins
<1>2. CASE v # w
  <2>1. \A r \in runs' : r.wf = v => r \in runs
    BY <1>2 DEF Begin, BeginNo
  <2>2. row'[v] = row[v]
    BY <1>0, <1>2 DEF TakeRow
  <2> QED
    BY <2>1, <2>2, SoleKeeps
<1> QED
  BY <1>1, <1>2

\* Every action keeps SoleInv.
LEMMA SoleKept ==
    ASSUME DistinctExecutors, TypeOK, DownIsIdle, SoleInv, [Next]_vars
    PROVE  SoleInv'
<1> SUFFICES ASSUME NEW v \in Workflow, v \notin exposed'
             PROVE  Sole(v)'
  BY DEF SoleInv
<1> USE DeploymentAssumption
<1>0. /\ row[v] \in StatusRow /\ row \in [Workflow -> StatusRow]
      /\ todo \in [Process -> [Lists -> SUBSET Workflow]]
  BY DEF TypeOK
\* exposed only grows, so v was not exposed before either.
<1>1. v \notin exposed
  BY DEF Next, vars, Enqueue, RunWorkflow, StartAgain, StartFails, TimePasses,
     Launch, Launched,
     WorkerStep, BeginScan, WorkerExits, Pick, Claim, RecoverNext, EndRun,
     RecordFails, CommandStep, CancelAllBefore, Cancel, SetDelay, Delete,
     Resume, Deactivate, Recover, Crash, DequeueFails
<1>2. Sole(v)
  BY <1>1 DEF SoleInv
<1>3. ASSUME row'[v].exe = row[v].exe,
             row'[v].status \in Queued \cup NoRow =>
                row'[v].status = row[v].status,
             runs' = runs, todo' = todo
      PROVE  Sole(v)'
  BY <1>2, <1>3, SoleKeeps
<1>4. ASSUME NEW w \in Workflow, NEW x \in Enqueuer, NEW q \in Queue,
             NEW st \in Queued, Enqueue(w, x, q, st)
      PROVE  Sole(v)'
  <2>1. CASE w = v
    <3>1. /\ \A r \in runs : r.wf # v
          /\ \A p \in Process : v \notin todo[p].launch
      BY <1>2, <1>4, <2>1 DEF Sole, Enqueue, Insertable
    <3>2. row'[v].exe = x /\ runs' = runs /\ todo' = todo
      BY <1>0, <1>4, <2>1 DEF Enqueue
    <3>3. \A p \in Process : ExecutorOf[p] # x
      BY <1>4, <2>1 DEF Enqueue
    <3> QED
      BY <1>2, <3>1, <3>2, <3>3 DEF Sole
  <2>2. CASE w # v
    BY <1>0, <1>3, <1>4, <2>2 DEF Enqueue
  <2> QED
    BY <2>1, <2>2
<1>5. ASSUME NEW p \in Process, NEW w \in Workflow,
             RunWorkflow(p, w) \/ StartAgain(p, w) \/ StartFails(p, w)
      PROVE  Sole(v)'
  <2>0. Upsert(p, w) /\ todo' = todo
    BY <1>5 DEF RunWorkflow, StartAgain, StartFails
  <2>1. CASE w = v
    <3>1. /\ row[v].status = "ABSENT"
          /\ \/ runs' = runs
             \/ runs' = runs \cup {[wf |-> v, proc |-> p, by |-> "task",
                                    no |-> 0]}
      BY <1>5, <2>1 DEF RunWorkflow, StartAgain, StartFails, Begin, BeginNo
    <3>2. /\ \A r \in runs : r.wf # v
          /\ \A q \in Process : v \notin todo[q].launch /\ v \notin todo[q].admin
      BY <1>2, <3>1 DEF Sole, NoRow
    <3>3. row'[v].exe = ExecutorOf[p] /\ row'[v].status = "PENDING"
      BY <2>0, <2>1, <3>1, UpsertFacts DEF NoRow
    <3>4. "PENDING" \notin Queued \cup NoRow
      BY DEF Queued, NoRow
    <3>5. \A r \in runs' : r.wf = v =>
             r = [wf |-> v, proc |-> p, by |-> "task", no |-> 0]
      BY <3>1, <3>2
    <3> QED
      BY <2>0, <3>2, <3>3, <3>4, <3>5, SoleBegins
  <2>2. CASE w # v
    <3>1. row'[v] = row[v]
      BY <2>0, <2>2, UpsertFacts
    <3>2. \A r \in runs' : r.wf = v => r \in runs
      BY <1>5, <2>2 DEF RunWorkflow, StartAgain, StartFails, Begin, BeginNo
    <3> QED
      BY <1>2, <2>0, <3>1, <3>2, SoleKeeps
  <2> QED
    BY <2>1, <2>2
<1>6. ASSUME NEW w \in Workflow, TimePasses(w) \/ SetDelay(w)
      PROVE  Sole(v)'
  <2>1. \E b \in BOOLEAN : row' = [row EXCEPT ![w].due = b]
    BY <1>6 DEF TimePasses, SetDelay, Postponed
  <2>2. row'[v].exe = row[v].exe /\ row'[v].status = row[v].status
    BY <1>0, <2>1 DEF StatusRow
  <2> QED
    BY <1>3, <1>6, <2>2 DEF TimePasses, SetDelay, Postponed
<1>7. ASSUME NEW p \in Process, Launch(p)
      PROVE  Sole(v)'
  <2>1. /\ row' = row /\ runs' = runs
        /\ \A q \in Process : todo'[q].admin = todo[q].admin
        /\ \A q \in Process : q # p => todo'[q].launch = todo[q].launch
        /\ todo'[p].launch = Recoverable(ExecutorOf[p])
    BY <1>0, <1>7 DEF Launch, Lists
  <2>2. CASE v \in Recoverable(ExecutorOf[p])
    <3>1. row[v].exe = ExecutorOf[p] /\ row[v].status \in Active
      BY <2>2 DEF Recoverable
    <3>2. row[v].status \notin Queued \cup NoRow
      BY <1>2, <3>1, StatusFacts DEF Sole
    <3>3. \A r \in runs : r.wf # v
      <4> SUFFICES ASSUME NEW r \in runs, r.wf = v
                   PROVE  FALSE
        OBVIOUS
      <4>1. r.proc \in Process /\ ExecutorOf[r.proc] = ExecutorOf[p]
        BY <1>2, <3>1 DEF Sole, TypeOK, Execution
      <4>2. r.proc = p
        BY <4>1 DEF DistinctExecutors
      <4> QED
        BY <1>7, <4>2 DEF Launch, DownIsIdle, Idle
    <3>4. \A q \in Process : v \in todo'[q].launch => row[v].exe = ExecutorOf[q]
      BY <1>2, <2>1, <3>1 DEF Sole
    <3> QED
      BY <1>2, <2>1, <3>2, <3>3, <3>4 DEF Sole
  <2>3. CASE v \notin Recoverable(ExecutorOf[p])
    BY <1>2, <2>1, <2>3, SoleKeeps
  <2> QED
    BY <2>2, <2>3
<1>8. ASSUME NEW p \in Process, Launched(p)
      PROVE  Sole(v)'
  BY <1>3, <1>8 DEF Launched
<1>9. ASSUME NEW p \in Process, NEW l \in Lists, RecoverNext(p, l)
      PROVE  Sole(v)'
  <2>0. row' = row
    BY <1>9 DEF RecoverNext
  <2>1. ASSUME NEW w \in todo[p][l], Begin(p, w, l),
               todo' = [todo EXCEPT ![p][l] = @ \ {w}]
        PROVE  Sole(v)'
    <3>1. \A q \in Process : \A k \in Lists : todo'[q][k] \subseteq todo[q][k]
      BY <1>0, <2>1
    <3>2. CASE w = v
      <4>1. l = "launch"
        BY <1>2, <2>1, <3>2 DEF Sole, Lists
      <4>2. /\ \A r \in runs : r.wf # v
            /\ row[v].exe = ExecutorOf[p]
            /\ row[v].status \notin Queued \cup NoRow
        BY <1>2, <2>1, <3>2, <4>1 DEF Sole
      <4>3. \A q \in Process : v \notin todo'[q].launch
        <5> SUFFICES ASSUME NEW q \in Process, v \in todo'[q].launch
                     PROVE  FALSE
          OBVIOUS
        <5>1. v \in todo[q].launch
          BY <3>1 DEF Lists
        <5>2. q = p
          BY <1>2, <4>2, <5>1 DEF Sole, DistinctExecutors
        <5>3. todo'[p].launch = todo[p].launch \ {v}
          BY <1>0, <2>1, <3>2, <4>1 DEF Lists
        <5> QED
          BY <5>2, <5>3
      <4>4. \A q \in Process : v \notin todo'[q].admin
        BY <1>2, <3>1 DEF Sole, Lists
      <4>5. \A r \in runs' : r.wf = v => r = [wf |-> v, proc |-> p, by |-> l,
                                           no |-> 0]
        BY <2>1, <3>2, <4>2 DEF Begin, BeginNo
      <4> QED
        BY <2>0, <4>2, <4>3, <4>4, <4>5, SoleBegins
    <3>3. CASE w # v
      <4>1. \A r \in runs' : r.wf = v => r \in runs
        BY <2>1, <3>3 DEF Begin, BeginNo
      <4> QED
        BY <1>2, <2>0, <3>1, <4>1, SoleKeeps DEF Lists
    <3> QED
      BY <3>2, <3>3
  <2>2. CASE Gone(p)
    BY <1>2, <2>0, <2>2, GoneSole
  <2>3. CASE todo' = [todo EXCEPT ![p].admin = {}] /\ runs' = runs
    <3>1. \A q \in Process : \A k \in Lists : todo'[q][k] \subseteq todo[q][k]
      BY <1>0, <2>3
    <3> QED
      BY <1>2, <2>0, <2>3, <3>1, SoleKeeps DEF Lists
  <2> QED
    BY <1>9, <2>1, <2>2, <2>3 DEF RecoverNext
<1>10. ASSUME NEW p \in Process, WorkerStep(p) \/ DequeueFails(p)
       PROVE  Sole(v)'
  <2>1. todo' = todo
    BY <1>10
    DEF WorkerStep, BeginScan, WorkerExits, Pick, Claim, DequeueFails
  <2>2. CASE row' = row /\ runs' = runs
    BY <1>3, <2>1, <2>2
  <2>3. CASE /\ worker[p].at = "claim" /\ Claimable(worker[p].pick)
             /\ TakeRow(p, worker[p].pick)
             /\ runs' = runs \/ Begin(p, worker[p].pick, "worker")
    BY <1>2, <2>1, <2>3, TakenSole DEF TypeOK
  <2> QED
    BY <1>10, <2>2, <2>3
    DEF WorkerStep, BeginScan, WorkerExits, Pick, Claim, DequeueFails
<1>11. ASSUME NEW r \in runs, EndRun(r)
       PROVE  Sole(v)'
  <2>1. PICK st \in Terminal, ok \in BOOLEAN :
           RecordResult(r.wf, st) /\ Resumed(r, ok)
    BY <1>11 DEF EndRun, Terminal
  <2>2. /\ row'[v].exe = row[v].exe
        /\ row'[v].status = row[v].status \/ row'[v].status \in Terminal
    BY <1>0, <2>1 DEF RecordResult, With, StatusRow
  <2> QED
    BY <1>2, <2>1, <2>2, ResumedSole, StatusFacts
<1>12. ASSUME NEW r \in runs, RecordFails(r)
       PROVE  Sole(v)'
  <2>1. PICK ok \in BOOLEAN : Resumed(r, ok)
    BY <1>12, Zenon DEF RecordFails
  <2> QED
    BY <1>2, <1>12, <2>1, ResumedSole DEF RecordFails
<1>13. CASE CommandStep
  <2>1. CASE CancelAllBefore \/ \E w \in Workflow : Cancel(w)
    <3>1. row'[v] = row[v] \/ row'[v] = CancelledRow(v)
      BY <1>0, <2>1, CancelAllRows DEF Cancel
    <3>2. /\ row'[v].exe = row[v].exe
          /\ row'[v].status = row[v].status \/ row'[v].status = "CANCELLED"
      BY <1>0, <3>1 DEF CancelledRow, StatusRow
    <3>3. "CANCELLED" \notin Queued \cup NoRow
      BY DEF Queued, NoRow
    <3> QED
      BY <1>3, <2>1, <3>2, <3>3 DEF CancelAllBefore, Cancel
  <2>2. ASSUME NEW w \in Workflow, NEW q \in Queue, Resume(w, q)
        PROVE  Sole(v)'
    <3>1. w # v
      BY <2>2 DEF Resume
    <3> QED
      BY <1>0, <1>3, <2>2, <3>1 DEF Resume, Requeue
  <2>3. ASSUME NEW w \in Workflow, Delete(w)
        PROVE  Sole(v)'
    <3>1. w # v
      BY <2>3 DEF Delete
    <3> QED
      BY <1>0, <1>3, <2>3, <3>1 DEF Delete, Deleted
  <2>4. ASSUME NEW p \in Process, Deactivate(p)
        PROVE  Sole(v)'
    BY <1>3, <2>4 DEF Deactivate
  <2>5. ASSUME NEW p \in Process, NEW x \in Executor, Recover(p, x)
        PROVE  Sole(v)'
    <3>1. v \notin Recoverable(x)
      BY <2>5 DEF Recover
    <3>2. \A q \in Process : /\ v \in todo'[q].launch => v \in todo[q].launch
                             /\ v \in todo'[q].admin => v \in todo[q].admin
      BY <1>0, <2>5, <3>1 DEF Recover, Lists
    <3> QED
      BY <1>2, <2>5, <3>2, SoleKeeps DEF Recover
  <2> QED
    BY <1>6, <1>13, <2>1, <2>2, <2>3, <2>4, <2>5 DEF CommandStep
<1>14. ASSUME NEW p \in Process, Crash(p)
       PROVE  Sole(v)'
  BY <1>2, <1>14, GoneSole DEF Crash
<1>15. CASE UNCHANGED vars
  BY <1>3, <1>15 DEF vars
<1> QED
  BY <1>4, <1>5, <1>6, <1>7, <1>8, <1>9, <1>10, <1>11, <1>12, <1>13, <1>14,
     <1>15 DEF Next

\* Where executor ids are distinct, a workflow that was enqueued by a client or
\* run at once, and that nobody has started again under its id, resumed, deleted
\* or had recovered, has at most one execution at a time, in the process its row
\* names.
THEOREM OneExecution == Spec => []SoleExecution
<1>1. CASE DistinctExecutors
  <2>1. Init => SoleInv
    BY DEF Init, SoleInv, Sole, Queued, Lists
  <2>2. TypeOK /\ DownIsIdle /\ SoleInv /\ [Next]_vars => SoleInv'
    BY <1>1, SoleKept
  <2>3. TypeOK /\ SoleInv => SoleExecution
    BY DEF TypeOK, Execution, SoleInv, Sole, SoleExecution
  <2> QED
    BY <2>1, <2>2, <2>3, TypeCorrect, DownHasNothing, PTL DEF Spec
<1>2. CASE ~DistinctExecutors
  <2>1. SoleExecution
    BY <1>2 DEF SoleExecution
  <2> QED
    BY <2>1, PTL
<1> QED
  BY <1>1, <1>2
=============================================================================
