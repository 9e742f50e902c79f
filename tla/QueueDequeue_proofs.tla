------------------------- MODULE QueueDequeue_proofs -------------------------
(***************************************************************************)
(* Theorems about QueueDequeue, for every set of workflows, workers and    *)
(* queues, every configuration of them, and every bound.                   *)
(***************************************************************************)
EXTENDS QueueDequeue, FiniteSetTheorems, TLAPS
-----------------------------------------------------------------------------
(* Typing.                                                                 *)

Status == {"ABSENT", "PENDING", "CANCELLED", "ENDED"} \cup Queued
Place == {"off", "launch", "idle", "check", "rate", "claim", "run", "rerun"}

WorkflowRow == [status : Status, opts : Options \cup {Nil},
                queue : Queue \cup {Nil}, created : Nat, due : Nat,
                started : Nat \cup {Nil}, limited : BOOLEAN,
                dedup : Dedup \cup {Nil}, exe : Worker \cup {Nil}]
Scan == [at : Place, queue : Queue \cup {Nil}, cfg : QueueRow \cup {Nil},
         time : Nat, left : SUBSET Workflow, locks : SUBSET Workflow,
         pick : Workflow \cup {Nil}, loose : BOOLEAN]

\* A worker that is about to claim, or executes, has a workflow.
Placed(d) ==
    d.at \in {"rate", "claim", "run", "rerun"} => d.pick \in Workflow

\* Workflows that have a row.
Present == {w \in Workflow : row[w].status # "ABSENT"}

Typed ==
    /\ registered \subseteq Queue \ {Internal}
    /\ row \in [Workflow -> WorkflowRow]
    /\ deq \in [Worker -> Scan] /\ \A x \in Worker : Placed(deq[x])
    /\ now \in Nat
    /\ IsFiniteSet(Present)

\* Options and queue rows are what validation lets through.
LEMMA ConfigType ==
    /\ \A o \in Options : /\ o.part \in Partition \cup {Nil} /\ o.delay \in Nat
                          /\ o.dedup \in Dedup \cup {Nil}
    /\ \A q \in Queue \ {Internal} : Config[q] \in QueueRow
BY QueueAssumption DEF OptionsRow

LEMMA TypeInit == Init => Typed
<1>1. Init => Present = {}
  BY DEF Init, Present, NoRow
<1>2. NoRow \in WorkflowRow
  BY DEF NoRow, WorkflowRow, Status
<1>3. Idle \in Scan /\ Placed(Idle)
  BY DEF Idle, Scan, Place, Placed
<1>4. QED BY <1>1, <1>2, <1>3, FS_EmptySet DEF Init, Typed

\* A row that takes a value of its type leaves finitely many rows.
LEMMA RowUpdate ==
    ASSUME Typed, NEW w \in Workflow, NEW r \in WorkflowRow,
           row' = [row EXCEPT ![w] = r]
    PROVE  row' \in [Workflow -> WorkflowRow] /\ IsFiniteSet(Present')
<1>1. row' \in [Workflow -> WorkflowRow]
  BY DEF Typed
<1>2. Present' \subseteq Present \cup {w}
  BY DEF Typed, Present
<1>3. IsFiniteSet(Present \cup {w})
  BY FS_AddElement DEF Typed
<1>4. QED BY <1>1, <1>2, <1>3, FS_Subset

\* Every step keeps the types: one proof step per action.
LEMMA TypeStep == Typed /\ [Next]_vars => Typed'
<1> SUFFICES ASSUME Typed, [Next]_vars PROVE Typed'
  OBVIOUS
<1>t. /\ registered \subseteq Queue \ {Internal}
      /\ row \in [Workflow -> WorkflowRow]
      /\ deq \in [Worker -> Scan] /\ \A x \in Worker : Placed(deq[x])
      /\ now \in Nat
      /\ IsFiniteSet(Present)
  BY DEF Typed
<1>d. ASSUME NEW x \in Worker, NEW d \in Scan, Placed(d),
             deq' = [deq EXCEPT ![x] = d], UNCHANGED <<registered, row, now>>
      PROVE  Typed'
  <2>1. /\ deq' \in [Worker -> Scan]
        /\ \A y \in Worker : deq'[y] = IF y = x THEN d ELSE deq[y]
    BY <1>d, <1>t
  <2>2. \A y \in Worker : Placed(deq'[y])
    BY <2>1, <1>d, <1>t
  <2>3. QED BY <2>1, <2>2, <1>d, <1>t DEF Typed, Present
<1>r. ASSUME NEW w \in Workflow, NEW r \in WorkflowRow, row' = [row EXCEPT ![w] = r],
             UNCHANGED <<registered, deq, now>>
      PROVE  Typed'
  BY <1>r, <1>t, RowUpdate DEF Typed
<1>i. Idle \in Scan /\ Off \in Scan /\ Placed(Idle) /\ Placed(Off)
  BY DEF Idle, Off, Scan, Place, Placed
<1>1. ASSUME NEW q \in Queue, RegisterQueue(q) PROVE Typed'
  BY <1>1, <1>t DEF RegisterQueue, StoreQueue, Typed, Present
<1>2. ASSUME NEW w \in Workflow, NEW q \in Queue, NEW o \in Options, Enqueue(w, q, o)
      PROVE  Typed'
  <2>1. Inserted(o, q) \in WorkflowRow
    <3>1. now + o.delay \in Nat /\ o.dedup \in Dedup \cup {Nil}
      BY <1>t, ConfigType
    <3>2. QED BY <3>1, <1>t DEF Inserted, NoRow, WorkflowRow, Status, Queued
  <2>2. QED BY <1>2, <2>1, <1>r DEF Enqueue
<1>3. ASSUME NEW w \in Workflow, NEW q \in Queue, Resume(w, q) PROVE Typed'
  <2> DEFINE r == [row[w] EXCEPT !.status = "ENQUEUED",
                                 !.queue = q, !.started = Nil, !.dedup = Nil]
  <2>1. r \in WorkflowRow
    BY <1>t DEF WorkflowRow, Status, Queued
  <2>2. QED BY <1>3, <2>1, <1>r DEF Resume
<1>4. ASSUME NEW w \in Workflow, Cancel(w) PROVE Typed'
  <2> DEFINE r == [row[w] EXCEPT !.status = "CANCELLED",
                                 !.queue = Nil, !.started = Nil, !.dedup = Nil]
  <2>1. r \in WorkflowRow
    BY <1>t DEF WorkflowRow, Status
  <2>2. QED BY <1>4, <2>1, <1>r DEF Cancel
<1>5. ASSUME NEW x \in Worker, NEW q \in Queue, ListCandidates(x, q) PROVE Typed'
  <2> DEFINE all == Candidates(q, now)
             got == IF Locking THEN {w \in all : Unlocked(w)} ELSE all
             d == [Idle EXCEPT !.at = "check", !.queue = q, !.time = now,
                          !.cfg = IF q \in registered THEN Config[q] ELSE Nil,
                          !.left = got, !.locks = IF Locking THEN got ELSE {}]
  <2>1. got \subseteq Workflow
    BY DEF Candidates
  <2>2. (IF q \in registered THEN Config[q] ELSE Nil) \in QueueRow \cup {Nil}
    BY <1>t, ConfigType
  <2>3. d \in Scan /\ Placed(d)
    <3>1. ASSUME NEW c \in QueueRow \cup {Nil}, NEW ws \in SUBSET Workflow,
                 NEW ls \in SUBSET Workflow
          PROVE  LET e == [Idle EXCEPT !.at = "check", !.queue = q, !.time = now,
                                       !.cfg = c, !.left = ws, !.locks = ls]
                 IN  e \in Scan /\ Placed(e)
      BY <1>t DEF Idle, Scan, Place, Placed
    <3>2. (IF Locking THEN got ELSE {}) \in SUBSET Workflow
      BY <2>1
    <3>3. QED BY <2>1, <2>2, <3>1, <3>2, Zenon
  <2>4. deq' = [deq EXCEPT ![x] = d] /\ UNCHANGED <<registered, row, now>>
    BY <1>5 DEF ListCandidates
  <2>5. QED BY <2>3, <2>4, <1>d
<1>6. ASSUME NEW x \in Worker, NEW w, PassOver(x, w), UNCHANGED <<registered, row, now>>
      PROVE  Typed'
  <2> DEFINE d == [deq[x] EXCEPT !.at = "check", !.left = @ \ {w}, !.pick = Nil]
  <2>1. d \in Scan /\ Placed(d)
    BY <1>t DEF Scan, Place, Placed
  <2>2. deq' = [deq EXCEPT ![x] = d]
    BY <1>6, <1>t DEF PassOver
  <2>3. QED BY <2>1, <2>2, <1>6, <1>d
<1>7. ASSUME NEW x \in Worker, CheckConcurrency(x) PROVE Typed'
  <2>1. UNCHANGED <<registered, row, now>>
    BY <1>7 DEF CheckConcurrency
  <2>2. PICK w \in First(deq[x].left) :
          \/ PassOver(x, w)
          \/ deq' = [deq EXCEPT ![x].at = "rate", ![x].pick = w,
                                ![x].loose = (deq[x].cfg = Nil)]
    BY <1>7 DEF CheckConcurrency
  <2>3. w \in Workflow
    BY <1>t DEF First, Scan
  <2> DEFINE d == [deq[x] EXCEPT !.at = "rate", !.pick = w,
                                 !.loose = (deq[x].cfg = Nil)]
  <2>4. d \in Scan /\ Placed(d)
    <3>1. (deq[x].cfg = Nil) \in BOOLEAN
      OBVIOUS
    <3>2. deq[x] \in Scan
      BY <1>t
    <3>3. QED BY <3>1, <3>2, <2>3 DEF Scan, Place, Placed
  <2>5. CASE deq' = [deq EXCEPT ![x] = d]
    BY <2>1, <2>4, <2>5, <1>d
  <2>6. QED BY <2>1, <2>2, <2>5, <1>6, <1>t
<1>8. ASSUME NEW x \in Worker, CheckRate(x) PROVE Typed'
  <2> DEFINE d == [deq[x] EXCEPT !.at = "claim"]
  <2>1. d \in Scan /\ Placed(d)
    BY <1>8, <1>t DEF Scan, Place, Placed, CheckRate
  <2>2. UNCHANGED <<registered, row, now>>
    BY <1>8 DEF CheckRate
  <2>3. CASE PassOver(x, deq[x].pick)
    BY <2>2, <2>3, <1>6
  <2>4. CASE deq' = [deq EXCEPT ![x] = d]
    BY <2>1, <2>2, <2>4, <1>d
  <2>5. QED BY <1>8, <2>3, <2>4, <1>t DEF CheckRate
<1>9. ASSUME NEW x \in Worker, NothingToRun(x) PROVE Typed'
  BY <1>9, <1>i, <1>d DEF NothingToRun
<1>10. ASSUME NEW x \in Worker, Claim(x) PROVE Typed'
  <2> DEFINE w == deq[x].pick
             r == [row[w] EXCEPT !.status = "PENDING", !.exe = x,
                                 !.started = deq[x].time,
                                 !.limited = deq[x].cfg # Nil /\ deq[x].cfg.rate # Nil]
             e(y) == IF y = x THEN [Idle EXCEPT !.at = "run", !.pick = w]
                     ELSE IF deq[y].queue = row[w].queue /\ deq[y].at \in {"rate", "claim"}
                     THEN [deq[y] EXCEPT !.loose = TRUE] ELSE deq[y]
  <2>1. deq[x] \in Scan /\ w \in Workflow
    BY <1>10, <1>t DEF Claim, Placed
  <2>2. CASE row[w].status \in Queued
    <3>1. row' = [row EXCEPT ![w] = r] /\ deq' = [y \in Worker |-> e(y)]
          /\ UNCHANGED <<registered, now>>
      BY <1>10, <2>2 DEF Claim, Overtaken
    <3>2. (deq[x].cfg # Nil /\ deq[x].cfg.rate # Nil) \in BOOLEAN
      OBVIOUS
    <3>3. r \in WorkflowRow
      <4>1. ASSUME NEW r0 \in WorkflowRow, NEW t \in Nat, NEW b \in BOOLEAN
            PROVE  [r0 EXCEPT !.status = "PENDING", !.exe = x, !.started = t,
                              !.limited = b] \in WorkflowRow
        BY DEF WorkflowRow, Status
      <4>2. row[w] \in WorkflowRow /\ deq[x].time \in Nat
        BY <2>1, <1>t DEF Scan
      <4>3. QED BY <3>2, <4>1, <4>2, Zenon
    <3>4. row' \in [Workflow -> WorkflowRow] /\ IsFiniteSet(Present')
      BY <3>1, <3>3, <2>1, RowUpdate
    <3>5. ASSUME NEW y \in Worker PROVE e(y) \in Scan /\ Placed(e(y))
      BY <2>1, <1>t DEF Idle, Scan, Place, Placed
    <3>6. /\ deq' \in [Worker -> Scan]
          /\ \A y \in Worker : Placed(deq'[y])
      BY <3>1, <3>5
    <3>7. QED BY <3>1, <3>4, <3>6, <1>t DEF Typed
  <2>3. CASE row[w].status \notin Queued
    BY <1>10, <2>3, <1>i, <1>d DEF Claim
  <2>4. QED BY <2>2, <2>3
<1>11. ASSUME NEW x \in Worker, EndRun(x) PROVE Typed'
  <2> DEFINE w == deq[x].pick
             r == [row[w] EXCEPT !.status = "ENDED", !.dedup = Nil]
             d == [Off EXCEPT !.at = "launch", !.left = deq[x].left]
  <2>1. deq[x] \in Scan /\ w \in Workflow
    BY <1>11, <1>t DEF EndRun, Placed
  <2>2. row' \in [Workflow -> WorkflowRow] /\ IsFiniteSet(Present')
    <3>1. CASE row' = row
      BY <3>1, <1>t DEF Present
    <3>2. CASE row' = [row EXCEPT ![w] = r]
      <4>1. r \in WorkflowRow
        <5>1. row[w] \in WorkflowRow
          BY <2>1, <1>t
        <5>2. \A r0 \in WorkflowRow :
                 [r0 EXCEPT !.status = "ENDED", !.dedup = Nil] \in WorkflowRow
          BY DEF WorkflowRow, Status
        <5>3. QED BY <5>1, <5>2
      <4>2. QED BY <4>1, <3>2, <2>1, RowUpdate
    <3>3. QED BY <1>11, <2>1, <1>t, <3>1, <3>2 DEF EndRun, RecordResult
  <2>3. d \in Scan /\ Placed(d)
    BY <2>1 DEF Off, Idle, Scan, Place, Placed
  <2>4. PICK e \in Scan : Placed(e) /\ deq' = [deq EXCEPT ![x] = e]
    BY <1>11, <1>i, <2>3 DEF EndRun
  <2>5. /\ deq' \in [Worker -> Scan]
        /\ \A y \in Worker : deq'[y] = IF y = x THEN e ELSE deq[y]
    BY <2>4, <1>t
  <2>6. QED BY <1>11, <2>2, <2>4, <2>5, <1>t DEF Typed, EndRun
<1>12. ASSUME NEW x \in Worker, Launch(x) PROVE Typed'
  <2> DEFINE ws == {w \in Workflow : row[w].exe = x /\ row[w].status \in Active}
             d == [Off EXCEPT !.at = "launch", !.left = ws]
  <2>1. ws \in SUBSET Workflow
    OBVIOUS
  <2>2. deq' = [deq EXCEPT ![x] = d] /\ UNCHANGED <<registered, row, now>>
    BY <1>12 DEF Launch
  <2> HIDE DEF ws
  <2>3. d \in Scan /\ Placed(d)
    BY <2>1 DEF Off, Idle, Scan, Place, Placed
  <2>4. QED BY <2>2, <2>3, <1>d
<1>13. ASSUME NEW x \in Worker, RunRecovered(x) PROVE Typed'
  <2>1. UNCHANGED <<registered, row, now>>
    BY <1>13 DEF RunRecovered
  <2>2. CASE deq' = [deq EXCEPT ![x] = Idle]
    BY <2>1, <2>2, <1>i, <1>d
  <2>3. ASSUME NEW w \in deq[x].left,
               deq' = [deq EXCEPT ![x].at = "rerun", ![x].pick = w,
                                  ![x].left = @ \ {w}]
        PROVE  Typed'
    <3> DEFINE d == [deq[x] EXCEPT !.at = "rerun", !.pick = w, !.left = @ \ {w}]
    <3>1. deq[x] \in Scan /\ w \in Workflow
      BY <1>t DEF Scan
    <3>2. d \in Scan /\ Placed(d)
      BY <3>1 DEF Scan, Place, Placed
    <3>3. deq' = [deq EXCEPT ![x] = d]
      BY <2>3, <1>t
    <3>4. QED BY <3>2, <3>3, <2>1, <1>d
  <2>4. QED BY <1>13, <2>2, <2>3 DEF RunRecovered
<1>14. ASSUME NEW x \in Worker, Crash(x) PROVE Typed'
  BY <1>14, <1>i, <1>d DEF Crash
<1>15. CASE Tick
  BY <1>15, <1>t DEF Tick, Typed, Present
<1>16. CASE UNCHANGED vars
  BY <1>16, <1>t DEF vars, Typed, Present
<1>17. QED
  BY <1>1, <1>2, <1>3, <1>4, <1>5, <1>7, <1>8, <1>9, <1>10, <1>11, <1>12,
     <1>13, <1>14, <1>15, <1>16 DEF Next, Dequeue

THEOREM TypeCorrect == Spec => []Typed
BY TypeInit, TypeStep, PTL DEF Spec
-----------------------------------------------------------------------------
(* The limits.                                                             *)

\* What the concurrency limit counts, and what the rate limit counts at t.
Pending(q, cfg, k) == {v \in Scope(q, cfg, k) : row[v].status = "PENDING"}
Recent(q, cfg, k, t) ==
    {v \in Scope(q, cfg, k) :
       /\ row[v].limited /\ row[v].status \notin Queued
       /\ row[v].started # Nil /\ row[v].started + cfg.period > t}

\* A row has a start time while it is counted, and the queue of one claimed
\* under limits is registered.
RowsInv ==
    \A w \in Workflow :
       /\ row[w].status = "ABSENT" => row[w].queue = Nil
       /\ row[w].status # "ABSENT" => row[w].opts \in Options
       /\ row[w].status \in Queued \cup {"ABSENT"} => row[w].started = Nil
       /\ row[w].status = "PENDING" => row[w].started # Nil
       /\ row[w].started # Nil /\ w \notin loose => row[w].queue \in registered

\* A scan has its queue's configuration; its candidates have rows.
ScanOK(d) ==
    /\ d.left \subseteq Present
    /\ d.at \in {"rate", "claim", "run", "rerun"} => d.pick \in Present
    /\ d.at \in {"check", "rate", "claim"} /\ d.cfg # Nil =>
          d.queue \in registered /\ d.cfg = Config[d.queue]
    /\ d.at \in {"rate", "claim"} /\ d.cfg = Nil => d.loose

\* What a worker has counted still holds, unless somebody overtook it.
Vouched(d) ==
    ~d.loose =>
       /\ d.at \in {"rate", "claim"} /\ d.cfg.conc # Nil =>
             Cardinality(Pending(d.queue, d.cfg, row[d.pick].opts.part)) < d.cfg.conc
       /\ d.at = "claim" /\ d.cfg.rate # Nil =>
             Cardinality(Recent(d.queue, d.cfg, row[d.pick].opts.part, d.time))
                < d.cfg.rate

\* Rows claimed in order that are PENDING, and those that were started in the
\* period that ends after t; both within the limit.
Claimed(q, k) == Pending(q, Config[q], k) \ loose
Begun(q, k, t) == {v \in Recent(q, Config[q], k, t) \ loose : row[v].started <= t}

WithinLimits ==
    \A q \in registered, k \in Partition \cup {Nil} :
       /\ Config[q].conc # Nil => Cardinality(Claimed(q, k)) <= Config[q].conc
       /\ Config[q].rate # Nil =>
             \A t \in 0 .. MaxTime : Cardinality(Begun(q, k, t)) <= Config[q].rate

\* The inductive invariant behind ConcurrencyBound and RateBound.
LimitsInv ==
    /\ RowsInv
    /\ \A x \in Worker : ScanOK(deq[x]) /\ Vouched(deq[x])
    /\ WithinLimits

LEMMA LimitsInvBounds == LimitsInv => ConcurrencyBound /\ RateBound
<1> SUFFICES ASSUME LimitsInv PROVE ConcurrencyBound /\ RateBound
  OBVIOUS
<1>1. \A q, k : {v \in Counted(q, k) : row[v].status = "PENDING"} = Claimed(q, k)
  BY DEF Counted, Pending, Claimed
<1>2. ConcurrencyBound
  BY <1>1, Zenon DEF ConcurrencyBound, LimitsInv, WithinLimits
<1>3. \A q, k, t : {v \in Counted(q, k) :
                      /\ row[v].limited /\ row[v].started # Nil
                      /\ row[v].status \notin Queued
                      /\ row[v].started <= t /\ row[v].started + Config[q].period > t}
                   = Begun(q, k, t)
  BY DEF Counted, Recent, Begun
<1>4. RateBound
  <2> SUFFICES ASSUME NEW q \in registered, NEW k \in Partition \cup {Nil},
                      NEW t \in 0 .. MaxTime, Config[q].rate # Nil
               PROVE  Cardinality({v \in Counted(q, k) :
                         /\ row[v].limited /\ row[v].started # Nil
                         /\ row[v].status \notin Queued
                         /\ row[v].started <= t
                         /\ row[v].started + Config[q].period > t}) <= Config[q].rate
    BY DEF RateBound
  <2>1. Cardinality(Begun(q, k, t)) <= Config[q].rate
    BY DEF LimitsInv, WithinLimits
  <2>2. QED BY <1>3, <2>1
<1>5. QED BY <1>2, <1>4

\* A step in which no row of queue q comes to be counted, ...
StillIn(q) ==
    \A w \in Workflow : row'[w].started # Nil /\ row'[w].queue = q =>
       /\ row'[w].started = row[w].started /\ row'[w].limited = row[w].limited
       /\ row'[w].queue = row[w].queue /\ row'[w].opts = row[w].opts
       /\ row'[w].status = "PENDING" => row[w].status = "PENDING"

\* ... of no queue, and in which no row goes.
Still == \A q : StillIn(q)
Kept == \A w \in Present : w \in Present' /\ row'[w].opts = row[w].opts

\* What is counted is finite ...
LEMMA CountsFinite ==
    ASSUME Typed, RowsInv, NEW q, NEW cfg, NEW k, NEW t
    PROVE  /\ IsFiniteSet(Pending(q, cfg, k)) /\ Cardinality(Pending(q, cfg, k)) \in Nat
           /\ IsFiniteSet(Recent(q, cfg, k, t))
           /\ Cardinality(Recent(q, cfg, k, t)) \in Nat
<1>1. Pending(q, cfg, k) \subseteq Present
  BY DEF Pending, Scope, Present
<1>2. Recent(q, cfg, k, t) \subseteq Present
  BY DEF Recent, Scope, Present, RowsInv
<1>3. IsFiniteSet(Present)
  BY DEF Typed
<1>4. QED BY <1>1, <1>2, <1>3, FS_Subset, FS_CardinalityType

\* ... and a subset counts no more.
LEMMA CountsLess ==
    ASSUME NEW A, IsFiniteSet(A), NEW B, B \subseteq A
    PROVE  /\ IsFiniteSet(B) /\ Cardinality(B) \in Nat /\ Cardinality(A) \in Nat
           /\ Cardinality(B) <= Cardinality(A)
BY FS_Subset, FS_CardinalityType

LEMMA StillCounts ==
    ASSUME RowsInv, RowsInv', NEW q, StillIn(q), NEW cfg, NEW k, NEW t
    PROVE  /\ Pending(q, cfg, k)' \subseteq Pending(q, cfg, k)
           /\ Recent(q, cfg, k, t)' \subseteq Recent(q, cfg, k, t)
<1>1. ASSUME NEW v \in Pending(q, cfg, k)' PROVE v \in Pending(q, cfg, k)
  BY <1>1 DEF Pending, Scope, RowsInv, StillIn
<1>2. ASSUME NEW v \in Recent(q, cfg, k, t)' PROVE v \in Recent(q, cfg, k, t)
  BY <1>2 DEF Recent, Scope, RowsInv, StillIn
<1>3. QED BY <1>1, <1>2

\* A scan stays as good as it was.
LEMMA ScanKept ==
    ASSUME Typed, RowsInv, RowsInv', Kept, registered \subseteq registered',
           NEW d, ScanOK(d), Vouched(d), StillIn(d.queue),
           d.cfg # Nil => d.cfg.conc \in Nat \cup {Nil} /\ d.cfg.rate \in Nat \cup {Nil}
    PROVE  ScanOK(d)' /\ Vouched(d)'
<1>1. ScanOK(d)'
  BY DEF ScanOK, Kept
<1>2. ASSUME ~d.loose, d.at \in {"rate", "claim"}
      PROVE  /\ d.cfg # Nil
             /\ row'[d.pick].opts = row[d.pick].opts
  BY <1>2 DEF ScanOK, Kept
<1>3. ASSUME ~d.loose, d.at \in {"rate", "claim"}, d.cfg.conc # Nil
      PROVE  Cardinality(Pending(d.queue, d.cfg, row[d.pick].opts.part))' < d.cfg.conc
  <2> SUFFICES ASSUME NEW k, k = row[d.pick].opts.part
               PROVE  Cardinality(Pending(d.queue, d.cfg, k)') < d.cfg.conc
    BY <1>2, <1>3
  <2>1. Cardinality(Pending(d.queue, d.cfg, k)) < d.cfg.conc
    BY <1>3 DEF Vouched
  <2>2. /\ IsFiniteSet(Pending(d.queue, d.cfg, k))
        /\ Pending(d.queue, d.cfg, k)' \subseteq Pending(d.queue, d.cfg, k)
    BY CountsFinite, StillCounts
  <2>3. /\ Cardinality(Pending(d.queue, d.cfg, k)') \in Nat
        /\ Cardinality(Pending(d.queue, d.cfg, k)) \in Nat
        /\ Cardinality(Pending(d.queue, d.cfg, k)')
             <= Cardinality(Pending(d.queue, d.cfg, k))
    BY <2>2, CountsLess
  <2>4. d.cfg.conc \in Nat
    BY <1>2, <1>3
  <2>5. QED BY <2>1, <2>3, <2>4
<1>4. ASSUME ~d.loose, d.at = "claim", d.cfg.rate # Nil
      PROVE  Cardinality(Recent(d.queue, d.cfg, row[d.pick].opts.part, d.time))'
                < d.cfg.rate
  <2> SUFFICES ASSUME NEW k, k = row[d.pick].opts.part, NEW t, t = d.time
               PROVE  Cardinality(Recent(d.queue, d.cfg, k, t)') < d.cfg.rate
    BY <1>2, <1>4
  <2>1. Cardinality(Recent(d.queue, d.cfg, k, t)) < d.cfg.rate
    BY <1>4 DEF Vouched
  <2>2. /\ IsFiniteSet(Recent(d.queue, d.cfg, k, t))
        /\ Recent(d.queue, d.cfg, k, t)' \subseteq Recent(d.queue, d.cfg, k, t)
    BY CountsFinite, StillCounts
  <2>3. /\ Cardinality(Recent(d.queue, d.cfg, k, t)') \in Nat
        /\ Cardinality(Recent(d.queue, d.cfg, k, t)) \in Nat
        /\ Cardinality(Recent(d.queue, d.cfg, k, t)')
             <= Cardinality(Recent(d.queue, d.cfg, k, t))
    BY <2>2, CountsLess
  <2>4. d.cfg.rate \in Nat
    BY <1>2, <1>4
  <2>5. QED BY <2>1, <2>3, <2>4
<1>5. Vouched(d)'
  BY <1>3, <1>4 DEF Vouched
<1>6. QED BY <1>1, <1>5

\* The limits of a registered queue are numbers, if it has them.
LEMMA LimitType ==
    ASSUME Typed, NEW q \in registered
    PROVE  /\ Config[q].conc \in Nat \cup {Nil} /\ Config[q].rate \in Nat \cup {Nil}
           /\ Config[q].period \in Nat
BY ConfigType DEF Typed, QueueRow

\* The bounds hold on while no row comes to be counted.
LEMMA BoundsKept ==
    ASSUME Typed, RowsInv, RowsInv', Still, WithinLimits,
           UNCHANGED <<registered, loose>>
    PROVE  WithinLimits'
<1>1. ASSUME NEW q \in registered, NEW k \in Partition \cup {Nil}, Config[q].conc # Nil
      PROVE  Cardinality(Claimed(q, k)') <= Config[q].conc
  <2>1. Cardinality(Claimed(q, k)) <= Config[q].conc
    BY <1>1 DEF WithinLimits
  <2>2. Pending(q, Config[q], k)' \subseteq Pending(q, Config[q], k)
    BY StillCounts DEF Still
  <2>3. IsFiniteSet(Pending(q, Config[q], k))
    BY CountsFinite
  <2>4. Claimed(q, k)' \subseteq Claimed(q, k)
    BY <2>2 DEF Claimed
  <2>5. IsFiniteSet(Claimed(q, k))
    BY <2>3, FS_Subset DEF Claimed
  <2>6. Config[q].conc \in Nat
    BY <1>1, LimitType
  <2>7. QED BY <2>1, <2>4, <2>5, <2>6, CountsLess
<1>2. ASSUME NEW q \in registered, NEW k \in Partition \cup {Nil}, NEW t \in 0 .. MaxTime,
             Config[q].rate # Nil
      PROVE  Cardinality(Begun(q, k, t)') <= Config[q].rate
  <2>1. Cardinality(Begun(q, k, t)) <= Config[q].rate
    BY <1>2 DEF WithinLimits
  <2>2. Recent(q, Config[q], k, t)' \subseteq Recent(q, Config[q], k, t)
    BY StillCounts DEF Still
  <2>3. IsFiniteSet(Recent(q, Config[q], k, t))
    BY CountsFinite
  <2>4. Begun(q, k, t)' \subseteq Begun(q, k, t)
    <3>1. ASSUME NEW v \in Recent(q, Config[q], k, t)'
          PROVE  row'[v].started = row[v].started
      BY <3>1 DEF Recent, Scope, Still, StillIn
    <3>2. QED BY <2>2, <3>1 DEF Begun
  <2>5. IsFiniteSet(Begun(q, k, t))
    BY <2>3, FS_Subset DEF Begun
  <2>6. Config[q].rate \in Nat
    BY <1>2, LimitType
  <2>7. QED BY <2>1, <2>4, <2>5, <2>6, CountsLess
<1>3. QED BY <1>1, <1>2 DEF WithinLimits

\* So does the invariant, when scans that change are as good.
LEMMA QuietStep ==
    ASSUME Typed, LimitsInv, RowsInv', Still, Kept, UNCHANGED <<registered, loose>>,
           NEW x, \A y \in Worker \ {x} : deq'[y] = deq[y],
           x \in Worker => (ScanOK(deq[x]) /\ Vouched(deq[x]))'
    PROVE  LimitsInv'
<1>1. ASSUME NEW y \in Worker \ {x} PROVE ScanOK(deq[y])' /\ Vouched(deq[y])'
  <2> SUFFICES ASSUME NEW d, d = deq[y]
               PROVE  ScanOK(d)' /\ Vouched(d)'
    BY <1>1
  <2>1. ScanOK(d) /\ Vouched(d)
    BY DEF LimitsInv
  <2>2. d.cfg # Nil => d.cfg \in QueueRow
    BY DEF Typed, Scan
  <2>3. d.cfg # Nil => d.cfg.conc \in Nat \cup {Nil} /\ d.cfg.rate \in Nat \cup {Nil}
    BY <2>2 DEF QueueRow
  <2>4. QED BY <2>1, <2>3, ScanKept DEF LimitsInv, Still
<1>2. WithinLimits'
  BY BoundsKept DEF LimitsInv
<1>3. QED BY <1>1, <1>2 DEF LimitsInv

\* All the more when none changes.
LEMMA RestStep ==
    ASSUME Typed, LimitsInv, RowsInv', Still, Kept, UNCHANGED <<registered, deq, loose>>
    PROVE  LimitsInv'
<1>1. Nil \notin Worker /\ \A y \in Worker \ {Nil} : deq'[y] = deq[y]
  BY QueueAssumption
<1>2. Nil \in Worker => (ScanOK(deq[Nil]) /\ Vouched(deq[Nil]))'
  BY <1>1
<1>3. QED BY <1>1, <1>2, QuietStep

\* A set that has one element more is larger by one.
LEMMA OneMore ==
    ASSUME NEW A, IsFiniteSet(A), NEW n \in Nat, Cardinality(A) < n,
           NEW w, NEW B, B \subseteq A \cup {w}
    PROVE  Cardinality(B) <= n
<1>1. /\ IsFiniteSet(A \cup {w}) /\ Cardinality(A) \in Nat
      /\ Cardinality(A \cup {w}) <= Cardinality(A) + 1
  BY FS_AddElement, FS_CardinalityType
<1>2. /\ Cardinality(B) \in Nat /\ Cardinality(A \cup {w}) \in Nat
      /\ Cardinality(B) <= Cardinality(A \cup {w})
  BY <1>1, CountsLess
<1>3. QED BY <1>1, <1>2

\* The claim: the claimed row is the one more that the counts left room for.
LEMMA ClaimStep ==
    ASSUME Typed, LimitsInv, NEW x \in Worker, Claim(x), row[deq[x].pick].status \in Queued
    PROVE  LimitsInv'
<1> DEFINE d == deq[x]
           w == d.pick
           p == row[w].opts.part
           over == d.loose \/ row[w].queue # d.queue
<1>1. /\ w \in Present /\ w \in Workflow /\ d \in Scan
      /\ d.cfg = Nil => d.loose
      /\ d.cfg # Nil => d.queue \in registered /\ d.cfg = Config[d.queue]
      /\ d.time \in Nat /\ d.time # Nil
      /\ Vouched(d) /\ d.at = "claim"
  <2>1. d.at = "claim" /\ d \in Scan /\ ScanOK(d) /\ Vouched(d)
    BY DEF Claim, Typed, LimitsInv
  <2>2. d.time \in Nat /\ d.time # Nil
    BY <2>1, QueueAssumption DEF Scan
  <2>3. QED BY <2>1, <2>2 DEF ScanOK, Present
<1>2. /\ row' = [row EXCEPT ![w] = [row[w] EXCEPT
                !.status = "PENDING", !.exe = x, !.started = d.time,
                !.limited = d.cfg # Nil /\ d.cfg.rate # Nil]]
      /\ loose' = IF over THEN loose \cup {w} ELSE loose \ {w}
      /\ deq' = Overtaken(x, row[w].queue)
      /\ registered' = registered
  BY DEF Claim
<1>3. /\ \A v \in Workflow \ {w} : row'[v] = row[v]
      /\ row'[w].status = "PENDING" /\ row'[w].started = d.time
      /\ row'[w].queue = row[w].queue /\ row'[w].opts = row[w].opts
  BY <1>1, <1>2 DEF Typed, WorkflowRow
<1>4. RowsInv'
  <2>1. ASSUME NEW v \in Workflow \ {w} PROVE v \notin loose' => v \notin loose
    BY <1>2
  <2>2. w \notin loose' => row[w].queue \in registered
    BY <1>1, <1>2
  <2>3. row'[w].opts \in Options
    BY <1>1, <1>3 DEF LimitsInv, RowsInv, Present
  <2>4. QED BY <1>1, <1>2, <1>3, <2>1, <2>2, <2>3 DEF LimitsInv, RowsInv, Queued
<1>5. Kept
  BY <1>1, <1>3 DEF Kept, Present
<1>6. \A q : q # row[w].queue => StillIn(q)
  BY <1>3 DEF StillIn
<1>7. ASSUME NEW y \in Worker PROVE ScanOK(deq[y])' /\ Vouched(deq[y])'
  <2>1. CASE y = x
    <3>1. deq'[x] = [Idle EXCEPT !.at = "run", !.pick = w]
      BY <1>2 DEF Overtaken
    <3>2. deq'[x].at = "run" /\ deq'[x].pick = w /\ deq'[x].left = {}
      BY <3>1 DEF Idle
    <3>3. w \in Present'
      BY <1>1, <1>5 DEF Kept
    <3>4. QED BY <2>1, <3>2, <3>3 DEF ScanOK, Vouched
  <2>2. CASE y # x /\ deq[y].queue = row[w].queue /\ deq[y].at \in {"rate", "claim"}
    <3>1. deq'[y] = [deq[y] EXCEPT !.loose = TRUE] /\ deq[y] \in Scan /\ ScanOK(deq[y])
      BY <1>2, <2>2 DEF Overtaken, Typed, LimitsInv
    <3>2. /\ deq'[y].loose /\ deq'[y].at = deq[y].at /\ deq'[y].queue = deq[y].queue
          /\ deq'[y].cfg = deq[y].cfg /\ deq'[y].left = deq[y].left
          /\ deq'[y].pick = deq[y].pick
      BY <3>1 DEF Scan
    <3>3. ScanOK(deq[y])'
      BY <1>2, <1>5, <3>1, <3>2 DEF ScanOK, Kept
    <3>4. Vouched(deq[y])'
      BY <3>2, Zenon DEF Vouched
    <3>5. QED BY <3>3, <3>4
  <2>3. CASE y # x /\ ~(deq[y].queue = row[w].queue /\ deq[y].at \in {"rate", "claim"})
    <3>1. deq'[y] = deq[y]
      BY <1>2, <2>3 DEF Overtaken
    <3> SUFFICES ASSUME NEW e, e = deq[y] PROVE ScanOK(e)' /\ Vouched(e)'
      BY <3>1
    <3>2. ScanOK(e) /\ Vouched(e)
      BY DEF LimitsInv
    <3>3. e.cfg # Nil => e.cfg.conc \in Nat \cup {Nil} /\ e.cfg.rate \in Nat \cup {Nil}
      BY DEF Typed, Scan, QueueRow
    <3>4. CASE e.at \notin {"rate", "claim"}
      BY <1>2, <1>5, <3>2, <3>4 DEF ScanOK, Vouched, Kept
    <3>5. CASE e.at \in {"rate", "claim"}
      BY <1>2, <1>4, <1>5, <1>6, <2>3, <3>2, <3>3, <3>5, ScanKept DEF LimitsInv
    <3>6. QED BY <3>4, <3>5
  <2>4. QED BY <2>1, <2>2, <2>3
<1>8. ASSUME NEW q \in registered, NEW k \in Partition \cup {Nil}
      PROVE  \/ w \notin Claimed(q, k)'
             \/ /\ ~d.loose /\ q = d.queue /\ d.cfg = Config[q]
                /\ \A t : Recent(q, d.cfg, p, t) = Recent(q, d.cfg, k, t)
                /\ Pending(q, d.cfg, p) = Pending(q, d.cfg, k)
  <2> SUFFICES ASSUME w \in Claimed(q, k)'
               PROVE  /\ ~d.loose /\ q = d.queue /\ d.cfg = Config[q]
                      /\ \A t : Recent(q, d.cfg, p, t) = Recent(q, d.cfg, k, t)
                      /\ Pending(q, d.cfg, p) = Pending(q, d.cfg, k)
    OBVIOUS
  <2>1. w \notin loose' /\ row[w].queue = q
        /\ (Config[q].parted => p = k)
    BY <1>3 DEF Claimed, Pending, Scope
  <2>2. ~d.loose /\ q = d.queue /\ d.cfg = Config[q]
    BY <1>1, <1>2, <2>1
  <2>3. Scope(q, d.cfg, p) = Scope(q, d.cfg, k)
    BY <2>1, <2>2 DEF Scope
  <2>4. QED BY <2>2, <2>3 DEF Recent, Pending
<1>9. ASSUME NEW q \in registered, NEW k \in Partition \cup {Nil}, NEW v \in Workflow \ {w}
      PROVE  /\ v \in Claimed(q, k)' => v \in Claimed(q, k)
             /\ \A t : v \in Begun(q, k, t)' => v \in Begun(q, k, t)
  <2>1. row'[v] = row[v] /\ (v \notin loose' => v \notin loose)
    BY <1>2, <1>3
  <2>2. QED BY <2>1 DEF Claimed, Begun, Pending, Recent, Scope
<1>10. ASSUME NEW q \in registered, NEW k \in Partition \cup {Nil}, Config[q].conc # Nil
       PROVE  Cardinality(Claimed(q, k)') <= Config[q].conc
  <2>1. Config[q].conc \in Nat
    BY <1>10, LimitType
  <2>2. Claimed(q, k)' \subseteq Workflow
    BY DEF Claimed, Pending, Scope
  <2>3. CASE w \notin Claimed(q, k)'
    <3>1. Claimed(q, k)' \subseteq Claimed(q, k)
      BY <1>9, <2>2, <2>3
    <3>2. IsFiniteSet(Pending(q, Config[q], k))
      BY CountsFinite DEF LimitsInv
    <3>3. IsFiniteSet(Claimed(q, k))
      BY <3>2, FS_Subset DEF Claimed
    <3>4. Cardinality(Claimed(q, k)) <= Config[q].conc
      BY <1>10 DEF LimitsInv, WithinLimits
    <3>5. QED BY <2>1, <3>1, <3>3, <3>4, CountsLess
  <2>4. CASE w \in Claimed(q, k)'
    <3>1. /\ ~d.loose /\ q = d.queue /\ d.cfg = Config[q]
          /\ Pending(q, d.cfg, p) = Pending(q, d.cfg, k)
      BY <1>8, <2>4
    <3>2. Cardinality(Pending(q, Config[q], k)) < Config[q].conc
      BY <1>1, <1>10, <3>1 DEF Vouched
    <3>3. IsFiniteSet(Pending(q, Config[q], k))
      BY CountsFinite DEF LimitsInv
    <3>4. Claimed(q, k)' \subseteq Pending(q, Config[q], k) \cup {w}
      BY <1>9, <2>2 DEF Claimed
    <3>5. QED BY <2>1, <3>2, <3>3, <3>4, OneMore
  <2>5. QED BY <2>3, <2>4
<1>11. ASSUME NEW q \in registered, NEW k \in Partition \cup {Nil}, Config[q].rate # Nil,
              NEW t \in 0 .. MaxTime
       PROVE  Cardinality(Begun(q, k, t)') <= Config[q].rate
  <2>1. Config[q].rate \in Nat /\ Config[q].period \in Nat /\ t \in Nat
    BY <1>11, LimitType, QueueBounds
  <2>2. Begun(q, k, t)' \subseteq Workflow
    BY DEF Begun, Recent, Scope
  <2>3. CASE w \notin Begun(q, k, t)'
    <3>1. Begun(q, k, t)' \subseteq Begun(q, k, t)
      BY <1>9, <2>2, <2>3
    <3>2. IsFiniteSet(Recent(q, Config[q], k, t))
      BY CountsFinite DEF LimitsInv
    <3>3. IsFiniteSet(Begun(q, k, t))
      BY <3>2, FS_Subset DEF Begun
    <3>4. Cardinality(Begun(q, k, t)) <= Config[q].rate
      BY <1>11 DEF LimitsInv, WithinLimits
    <3>5. QED BY <2>1, <3>1, <3>3, <3>4, CountsLess
  <2>4. CASE w \in Begun(q, k, t)'
    <3>1. w \in Claimed(q, k)' /\ d.time <= t
      BY <1>3, <2>4 DEF Begun, Claimed, Recent, Pending
    <3>2. /\ ~d.loose /\ q = d.queue /\ d.cfg = Config[q]
          /\ Recent(q, d.cfg, p, d.time) = Recent(q, d.cfg, k, d.time)
      BY <1>8, <3>1
    <3>3. Cardinality(Recent(q, Config[q], k, d.time)) < Config[q].rate
      BY <1>1, <1>11, <3>2 DEF Vouched
    <3>4. IsFiniteSet(Recent(q, Config[q], k, d.time))
      BY CountsFinite DEF LimitsInv
    <3>5. ASSUME NEW v \in Begun(q, k, t) PROVE v \in Recent(q, Config[q], k, d.time)
      <4>1. v \in Workflow /\ row[v].started \in Nat
        BY DEF Begun, Recent, Scope, Typed, WorkflowRow
      <4>2. row[v].started + Config[q].period > t
        BY DEF Begun, Recent
      <4>3. row[v].started + Config[q].period > d.time
        BY <1>1, <2>1, <3>1, <4>1, <4>2
      <4>4. QED BY <4>3 DEF Begun, Recent
    <3>6. Begun(q, k, t)' \subseteq Recent(q, Config[q], k, d.time) \cup {w}
      BY <1>9, <2>2, <3>5
    <3>7. QED BY <2>1, <3>3, <3>4, <3>6, OneMore
  <2>5. QED BY <2>3, <2>4
<1>12. WithinLimits'
  BY <1>2, <1>10, <1>11 DEF WithinLimits
<1>13. QED BY <1>4, <1>7, <1>12 DEF LimitsInv

\* A step of worker x that leaves the rows alone.
LEMMA ScanStep ==
    ASSUME Typed, LimitsInv, NEW x \in Worker, NEW d, deq' = [deq EXCEPT ![x] = d],
           UNCHANGED <<registered, row, loose>>, ScanOK(d), Vouched(d)
    PROVE  LimitsInv'
<1>1. RowsInv'
  BY DEF LimitsInv, RowsInv
<1>2. Still /\ Kept
  BY DEF Still, StillIn, Kept, Present
<1>3. /\ deq'[x] = d
      /\ \A y \in Worker \ {x} : deq'[y] = deq[y]
  BY DEF Typed
<1>4. /\ \A q, cfg, k : Pending(q, cfg, k)' = Pending(q, cfg, k)
      /\ \A q, cfg, k, t : Recent(q, cfg, k, t)' = Recent(q, cfg, k, t)
      /\ Present' = Present
  BY DEF Pending, Recent, Scope, Present
<1>5. ScanOK(deq[x])' /\ Vouched(deq[x])'
  <2>1. ScanOK(d)' /\ Vouched(d)'
    BY <1>4 DEF ScanOK, Vouched
  <2>2. QED BY <1>3, <2>1
<1>6. QED BY <1>1, <1>2, <1>3, <1>5, QuietStep

\* A worker that is not about to claim owes nothing.
LEMMA AtRest ==
    ASSUME NEW d, d.at \notin {"check", "rate", "claim"}, d.left \subseteq Present,
           d.at \in {"run", "rerun"} => d.pick \in Present
    PROVE  ScanOK(d) /\ Vouched(d)
BY DEF ScanOK, Vouched

\* No step breaks the limits: one proof step per action.
LEMMA LimitsStep == Typed /\ Typed' /\ LimitsInv /\ [Next]_vars => LimitsInv'
<1> SUFFICES ASSUME Typed, Typed', LimitsInv, [Next]_vars PROVE LimitsInv'
  OBVIOUS
<1>1. ASSUME NEW q \in Queue, RegisterQueue(q) PROVE LimitsInv'
  <2>1. /\ registered' = registered \cup {q} /\ q \notin registered
        /\ q \in Queue \ {Internal} /\ UNCHANGED <<row, deq, loose>>
    BY <1>1 DEF RegisterQueue, StoreQueue
  <2>2. RowsInv'
    BY <2>1 DEF LimitsInv, RowsInv
  <2>3. Still /\ Kept
    BY <2>1 DEF Still, StillIn, Kept, Present
  <2>4. ASSUME NEW y \in Worker PROVE ScanOK(deq[y])' /\ Vouched(deq[y])'
    <3> SUFFICES ASSUME NEW d, d = deq[y]
                 PROVE  ScanOK(d)' /\ Vouched(d)'
      BY <2>1
    <3>1. ScanOK(d) /\ Vouched(d)
      BY DEF LimitsInv
    <3>2. d.cfg # Nil => d.cfg.conc \in Nat \cup {Nil} /\ d.cfg.rate \in Nat \cup {Nil}
      BY DEF Typed, Scan, QueueRow
    <3>3. QED BY <2>1, <2>2, <2>3, <3>1, <3>2, ScanKept DEF LimitsInv, Still
  <2>5. ASSUME NEW p \in registered', NEW k \in Partition \cup {Nil}
        PROVE  /\ Config[p].conc # Nil => Cardinality(Claimed(p, k)') <= Config[p].conc
               /\ Config[p].rate # Nil => \A t \in 0 .. MaxTime :
                    Cardinality(Begun(p, k, t)') <= Config[p].rate
    <3>1. /\ Claimed(p, k)' = Claimed(p, k)
          /\ \A t : Begun(p, k, t)' = Begun(p, k, t)
      BY <2>1 DEF Claimed, Begun, Pending, Recent, Scope
    <3>2. CASE p \in registered
      BY <3>1, <3>2 DEF LimitsInv, WithinLimits
    <3>3. CASE p = q
      <4>1. Claimed(p, k) = {} /\ \A t : Begun(p, k, t) = {}
        BY <2>1, <3>3 DEF LimitsInv, RowsInv, Claimed, Begun, Pending, Recent, Scope
      <4>2. Config[p] \in QueueRow
        BY <2>1, <3>3, ConfigType
      <4>3. Config[p].conc \in Nat \cup {Nil} /\ Config[p].rate \in Nat \cup {Nil}
        BY <4>2 DEF QueueRow
      <4>4. \A n \in Nat : Cardinality({}) <= n
        BY FS_EmptySet
      <4>5. QED BY <3>1, <4>1, <4>3, <4>4
    <3>4. QED BY <2>1, <3>2, <3>3
  <2>6. WithinLimits'
    BY <2>5 DEF WithinLimits
  <2>7. QED BY <2>2, <2>4, <2>6 DEF LimitsInv
<1>2. ASSUME NEW w \in Workflow, NEW q \in Queue, NEW o \in Options, Enqueue(w, q, o)
      PROVE  LimitsInv'
  <2>1. /\ row[w].status = "ABSENT" /\ row' = [row EXCEPT ![w] = Inserted(o, q)]
        /\ UNCHANGED <<registered, deq, loose>>
    BY <1>2 DEF Enqueue
  <2>2. /\ \A v \in Workflow \ {w} : row'[v] = row[v]
        /\ row'[w].status \in Queued /\ row'[w].started = Nil
        /\ row'[w].queue = q /\ row'[w].opts = o
    BY <2>1 DEF Inserted, NoRow, Typed, Queued
  <2>3. RowsInv'
    BY <2>1, <2>2 DEF LimitsInv, RowsInv, Queued
  <2>4. Still /\ Kept
    BY <2>1, <2>2 DEF Still, StillIn, Kept, Present, Queued
  <2>5. QED BY <2>1, <2>3, <2>4, RestStep
<1>3. ASSUME NEW w \in Workflow, NEW q \in Queue, Resume(w, q) \/ Cancel(w)
      PROVE  LimitsInv'
  <2>1. /\ row[w].status \in Active \cup {"CANCELLED"}
        /\ \/ row' = [row EXCEPT ![w] = [row[w] EXCEPT !.status = "ENQUEUED",
                                 !.queue = q, !.started = Nil, !.dedup = Nil]]
           \/ row' = [row EXCEPT ![w] = [row[w] EXCEPT !.status = "CANCELLED",
                                 !.queue = Nil, !.started = Nil, !.dedup = Nil]]
        /\ UNCHANGED <<registered, deq, loose>>
    BY <1>3 DEF Resume, Cancel
  <2>2. /\ \A v \in Workflow \ {w} : row'[v] = row[v]
        /\ row'[w].status \in {"ENQUEUED", "CANCELLED"} /\ row'[w].started = Nil
        /\ row'[w].opts = row[w].opts
    <3>1. row[w] \in WorkflowRow /\ row \in [Workflow -> WorkflowRow]
      BY DEF Typed
    <3>2. ASSUME NEW r, row' = [row EXCEPT ![w] = r], r.status \in {"ENQUEUED", "CANCELLED"},
                 r.started = Nil, r.opts = row[w].opts
          PROVE  /\ \A v \in Workflow \ {w} : row'[v] = row[v]
                 /\ row'[w].status \in {"ENQUEUED", "CANCELLED"} /\ row'[w].started = Nil
                 /\ row'[w].opts = row[w].opts
      BY <3>1, <3>2
    <3>3. CASE row' = [row EXCEPT ![w] = [row[w] EXCEPT !.status = "ENQUEUED",
                                 !.queue = q, !.started = Nil, !.dedup = Nil]]
      BY <3>1, <3>2, <3>3 DEF WorkflowRow
    <3>4. CASE row' = [row EXCEPT ![w] = [row[w] EXCEPT !.status = "CANCELLED",
                                 !.queue = Nil, !.started = Nil, !.dedup = Nil]]
      BY <3>1, <3>2, <3>4 DEF WorkflowRow
    <3>5. QED BY <2>1, <3>3, <3>4
  <2>3. row[w].status # "ABSENT"
    BY <2>1 DEF Active, Queued
  <2>4. RowsInv'
    <3>1. ASSUME NEW v \in Workflow \ {w}
          PROVE  row'[v] = row[v] /\ loose' = loose /\ registered' = registered
      BY <2>1, <2>2
    <3>2. row[w].opts \in Options
      BY <2>3 DEF LimitsInv, RowsInv
    <3>3. w \in Workflow => /\ row'[w].status \notin {"ABSENT", "PENDING"}
                            /\ row'[w].opts \in Options /\ row'[w].started = Nil
      BY <3>2, <2>2
    <3>4. QED BY <3>1, <3>3 DEF LimitsInv, RowsInv
  <2>5. Still /\ Kept
    BY <2>1, <2>2 DEF Still, StillIn, Kept, Present
  <2>6. QED BY <2>1, <2>4, <2>5, RestStep
<1>4. ASSUME NEW x \in Worker, NEW q \in Queue, ListCandidates(x, q) PROVE LimitsInv'
  <2> DEFINE got == IF Locking THEN {w \in Candidates(q, now) : Unlocked(w)}
                    ELSE Candidates(q, now)
             d == [Idle EXCEPT !.at = "check", !.queue = q, !.time = now,
                          !.cfg = IF q \in registered THEN Config[q] ELSE Nil,
                          !.left = got, !.locks = IF Locking THEN got ELSE {}]
  <2>1. deq' = [deq EXCEPT ![x] = d] /\ UNCHANGED <<registered, row, loose>>
    BY <1>4 DEF ListCandidates
  <2>2. got \subseteq Present
    BY DEF Candidates, Present
  <2>3. /\ d.at = "check" /\ d.queue = q /\ d.left = got
        /\ d.cfg = IF q \in registered THEN Config[q] ELSE Nil
    BY DEF Idle
  <2>4. ScanOK(d) /\ Vouched(d)
    BY <2>2, <2>3 DEF ScanOK, Vouched, Typed
  <2>5. QED BY <2>1, <2>4, ScanStep
<1>5. ASSUME NEW x \in Worker, NEW w, deq[x].at \in {"check", "rate"}, PassOver(x, w),
             UNCHANGED <<registered, row, loose>>
      PROVE  LimitsInv'
  <2> DEFINE d == [deq[x] EXCEPT !.at = "check", !.left = @ \ {w}, !.pick = Nil]
  <2>1. deq' = [deq EXCEPT ![x] = d] /\ deq[x] \in Scan /\ ScanOK(deq[x])
    BY <1>5 DEF PassOver, Typed, LimitsInv
  <2>2. /\ d.at = "check" /\ d.queue = deq[x].queue /\ d.cfg = deq[x].cfg
        /\ d.left \subseteq deq[x].left
    BY <2>1 DEF Scan
  <2>3. ScanOK(d) /\ Vouched(d)
    BY <1>5, <2>1, <2>2 DEF ScanOK, Vouched
  <2>4. QED BY <1>5, <2>1, <2>3, ScanStep
<1>6. ASSUME NEW x \in Worker, CheckConcurrency(x) PROVE LimitsInv'
  <2>1. deq[x].at = "check" /\ UNCHANGED <<registered, row, loose>>
    BY <1>6 DEF CheckConcurrency
  <2>2. PICK w \in First(deq[x].left) :
          \/ PassOver(x, w)
          \/ /\ ~ConcurrencyFull(deq[x].queue, deq[x].cfg, w)
             /\ deq' = [deq EXCEPT ![x].at = "rate", ![x].pick = w,
                                   ![x].loose = (deq[x].cfg = Nil)]
    BY <1>6 DEF CheckConcurrency
  <2>3. CASE PassOver(x, w)
    BY <1>5, <2>1, <2>3
  <2>4. CASE /\ ~ConcurrencyFull(deq[x].queue, deq[x].cfg, w)
             /\ deq' = [deq EXCEPT ![x].at = "rate", ![x].pick = w,
                                   ![x].loose = (deq[x].cfg = Nil)]
    <3> DEFINE d == [deq[x] EXCEPT !.at = "rate", !.pick = w,
                                   !.loose = (deq[x].cfg = Nil)]
               k == row[w].opts.part
    <3>1. /\ deq' = [deq EXCEPT ![x] = d] /\ deq[x] \in Scan
          /\ ScanOK(deq[x]) /\ w \in deq[x].left
      BY <2>4 DEF Typed, LimitsInv, First
    <3>2. /\ d.at = "rate" /\ d.queue = deq[x].queue /\ d.cfg = deq[x].cfg
          /\ d.left = deq[x].left /\ d.pick = w
      BY <3>1 DEF Scan
    <3>3. d.loose = (deq[x].cfg = Nil)
      BY <3>1, Zenon DEF Scan
    <3>4. ScanOK(d)
      BY <2>1, <3>1, <3>2, <3>3 DEF ScanOK
    <3>5. ASSUME d.cfg # Nil, d.cfg.conc # Nil
          PROVE  Cardinality(Pending(d.queue, d.cfg, k)) < d.cfg.conc
      <4>1. d.cfg.conc \in Nat
        BY <3>1, <3>2, <3>5 DEF Scan, QueueRow
      <4>2. Cardinality(Pending(d.queue, d.cfg, k)) \in Nat
        BY CountsFinite DEF LimitsInv
      <4>3. ~(Cardinality(Pending(d.queue, d.cfg, k)) >= d.cfg.conc)
        BY <2>4, <3>2, <3>5 DEF ConcurrencyFull, Pending
      <4>4. QED BY <4>1, <4>2, <4>3
    <3>6. Vouched(d)
      BY <3>2, <3>3, <3>5 DEF Vouched
    <3>7. QED BY <2>1, <3>1, <3>4, <3>6, ScanStep
  <2>5. QED BY <2>2, <2>3, <2>4
<1>7. ASSUME NEW x \in Worker, CheckRate(x) PROVE LimitsInv'
  <2>1. deq[x].at = "rate" /\ UNCHANGED <<registered, row, loose>>
    BY <1>7 DEF CheckRate
  <2>2. CASE PassOver(x, deq[x].pick)
    BY <1>5, <2>1, <2>2
  <2>3. CASE /\ ~RateFull(deq[x].queue, deq[x].cfg, deq[x].pick, deq[x].time)
             /\ deq' = [deq EXCEPT ![x].at = "claim"]
    <3> DEFINE d == [deq[x] EXCEPT !.at = "claim"]
               k == row[deq[x].pick].opts.part
    <3>1. /\ deq' = [deq EXCEPT ![x] = d] /\ deq[x] \in Scan
          /\ ScanOK(deq[x]) /\ Vouched(deq[x])
      BY <2>3 DEF Typed, LimitsInv
    <3>2. /\ d.at = "claim" /\ d.queue = deq[x].queue /\ d.cfg = deq[x].cfg
          /\ d.left = deq[x].left /\ d.pick = deq[x].pick /\ d.time = deq[x].time
          /\ d.loose = deq[x].loose
      BY <3>1 DEF Scan
    <3>3. ScanOK(d)
      BY <2>1, <3>1, <3>2 DEF ScanOK
    <3>4. ASSUME ~d.loose, d.cfg.rate # Nil
          PROVE  Cardinality(Recent(d.queue, d.cfg, k, d.time)) < d.cfg.rate
      <4>0. d.cfg # Nil
        BY <3>2, <3>3, <3>4 DEF ScanOK
      <4>1. d.cfg.rate \in Nat
        BY <3>1, <3>2, <3>4, <4>0 DEF Scan, QueueRow
      <4>2. Cardinality(Recent(d.queue, d.cfg, k, d.time)) \in Nat
        BY CountsFinite DEF LimitsInv
      <4>3. ~(Cardinality(Recent(d.queue, d.cfg, k, d.time)) >= d.cfg.rate)
        BY <2>3, <3>2, <3>4, <4>0 DEF RateFull, Recent
      <4>4. QED BY <4>1, <4>2, <4>3
    <3>5. Vouched(d)
      BY <2>1, <3>1, <3>2, <3>4 DEF Vouched
    <3>6. QED BY <2>1, <3>1, <3>3, <3>5, ScanStep
  <2>4. QED BY <1>7, <2>2, <2>3 DEF CheckRate
<1>8. /\ Idle.at = "idle" /\ Idle.left = {} /\ Off.at = "off" /\ Off.left = {}
      /\ ScanOK(Idle) /\ Vouched(Idle) /\ ScanOK(Off) /\ Vouched(Off)
  BY DEF Idle, Off, ScanOK, Vouched
<1>9. ASSUME NEW x \in Worker, NothingToRun(x) \/ Launch(x) \/ RunRecovered(x) \/ Crash(x)
      PROVE  LimitsInv'
  <2>1. UNCHANGED <<registered, row, loose>>
    BY <1>9 DEF NothingToRun, Launch, RunRecovered, Crash
  <2>2. deq[x] \in Scan /\ deq[x].left \subseteq Present
    BY DEF Typed, LimitsInv, ScanOK
  <2>3. CASE deq' = [deq EXCEPT ![x] = Idle] \/ deq' = [deq EXCEPT ![x] = Off]
    BY <1>8, <2>1, <2>3, ScanStep
  <2>4. ASSUME NEW w \in deq[x].left,
               deq' = [deq EXCEPT ![x].at = "rerun", ![x].pick = w,
                                  ![x].left = @ \ {w}]
        PROVE  LimitsInv'
    <3> DEFINE d == [deq[x] EXCEPT !.at = "rerun", !.pick = w, !.left = @ \ {w}]
    <3>1. deq' = [deq EXCEPT ![x] = d]
      BY <2>4 DEF Typed
    <3>2. d.at = "rerun" /\ d.pick \in Present /\ d.left \subseteq Present
      BY <2>2 DEF Scan
    <3>3. QED BY <2>1, <3>1, <3>2, AtRest, ScanStep
  <2>5. CASE Launch(x)
    <3> DEFINE ws == {w \in Workflow : row[w].exe = x /\ row[w].status \in Active}
               d == [Off EXCEPT !.at = "launch", !.left = ws]
    <3>1. deq' = [deq EXCEPT ![x] = d]
      BY <2>5 DEF Launch
    <3>2. d.at = "launch" /\ d.left \subseteq Present
      BY DEF Off, Idle, Present, Active, Queued
    <3>3. QED BY <2>1, <3>1, <3>2, AtRest, ScanStep
  <2>6. QED BY <1>9, <2>3, <2>4, <2>5 DEF NothingToRun, RunRecovered, Crash
<1>10. ASSUME NEW x \in Worker, Claim(x) PROVE LimitsInv'
  <2>1. CASE row[deq[x].pick].status \in Queued
    BY <1>10, <2>1, ClaimStep
  <2>2. CASE row[deq[x].pick].status \notin Queued
    BY <1>8, <1>10, <2>2, ScanStep DEF Claim
  <2>3. QED BY <2>1, <2>2
<1>11. ASSUME NEW x \in Worker, EndRun(x) PROVE LimitsInv'
  <2> DEFINE w == deq[x].pick
  <2>1. /\ deq[x].left \subseteq Present /\ w \in Present /\ w \in Workflow
        /\ UNCHANGED <<registered, loose>>
    BY <1>11 DEF EndRun, LimitsInv, ScanOK, Present
  <2>2. /\ \A v \in Workflow \ {w} : row'[v] = row[v]
        /\ row'[w].queue = row[w].queue /\ row'[w].opts = row[w].opts
        /\ row'[w].started = row[w].started /\ row'[w].limited = row[w].limited
        /\ row'[w].status \in {"CANCELLED", "ENDED"}
    <3>1. CASE row[w].status = "CANCELLED" /\ row' = row
      BY <3>1
    <3>2. CASE row' = [row EXCEPT ![w].status = "ENDED", ![w].dedup = Nil]
      BY <2>1, <3>2 DEF Typed, WorkflowRow
    <3>3. QED BY <1>11, <3>1, <3>2 DEF EndRun, RecordResult
  <2>3. RowsInv'
    <3>1. ASSUME NEW v \in Workflow \ {w}
          PROVE  row'[v] = row[v] /\ loose' = loose /\ registered' = registered
      BY <2>1, <2>2
    <3>2. row[w].opts \in Options
      BY <2>1 DEF LimitsInv, RowsInv, Present
    <3>3. row[w].started # Nil /\ w \notin loose => row[w].queue \in registered
      BY <2>1 DEF LimitsInv, RowsInv
    <3>4. /\ row'[w].status \notin {"ABSENT", "PENDING"} \cup Queued
          /\ row'[w].opts \in Options
          /\ row'[w].started # Nil /\ w \notin loose' => row'[w].queue \in registered'
      BY <2>1, <2>2, <3>2, <3>3 DEF Queued
    <3>5. QED BY <3>1, <3>4 DEF LimitsInv, RowsInv
  <2>4. Still /\ Kept
    BY <2>1, <2>2 DEF Still, StillIn, Kept, Present
  <2>5. \E d : deq' = [deq EXCEPT ![x] = d] /\ d.at \in {"idle", "off", "launch"}
               /\ d.left \subseteq Present
    <3> DEFINE d == [Off EXCEPT !.at = "launch", !.left = deq[x].left]
    <3>1. d.at = "launch" /\ d.left = deq[x].left
      BY DEF Off, Idle
    <3>2. \/ deq' = [deq EXCEPT ![x] = Idle] \/ deq' = [deq EXCEPT ![x] = Off]
          \/ deq' = [deq EXCEPT ![x] = d]
      BY <1>11 DEF EndRun
    <3>3. QED BY <1>8, <2>1, <3>1, <3>2
  <2>6. /\ deq'[x].at \in {"idle", "off", "launch"} /\ deq'[x].left \subseteq Present
        /\ \A y \in Worker \ {x} : deq'[y] = deq[y]
    BY <2>5 DEF Typed
  <2>7. (ScanOK(deq[x]) /\ Vouched(deq[x]))'
    BY <2>4, <2>6 DEF ScanOK, Vouched, Kept
  <2>8. QED BY <2>1, <2>3, <2>4, <2>6, <2>7, QuietStep
<1>12. CASE Tick \/ UNCHANGED vars
  <2>1. UNCHANGED <<registered, deq, loose>> /\ row' = row
    BY <1>12 DEF Tick, vars
  <2>2. RowsInv'
    BY <2>1 DEF LimitsInv, RowsInv
  <2>3. Still /\ Kept
    BY <2>1 DEF Still, StillIn, Kept, Present
  <2>4. QED BY <2>1, <2>2, <2>3, RestStep
<1>13. ASSUME NEW x \in Worker,
              Dequeue(x) \/ EndRun(x) \/ Launch(x) \/ RunRecovered(x) \/ Crash(x)
       PROVE  LimitsInv'
  BY <1>6, <1>7, <1>9, <1>10, <1>11, <1>13 DEF Dequeue
<1>14. QED
  BY <1>1, <1>2, <1>3, <1>4, <1>12, <1>13, QueueAssumption DEF Next

LEMMA LimitsInit == Init => LimitsInv
<1> SUFFICES ASSUME Init PROVE LimitsInv
  OBVIOUS
<1>1. RowsInv
  BY DEF Init, RowsInv, NoRow, Queued
<1>2. ASSUME NEW x \in Worker PROVE ScanOK(deq[x]) /\ Vouched(deq[x])
  BY DEF Init, Idle, ScanOK, Vouched
<1>3. WithinLimits
  BY DEF Init, WithinLimits
<1>4. QED BY <1>1, <1>2, <1>3 DEF LimitsInv

\* The concurrency limit holds of the rows claimed in order, however many
\* workers count and claim at once, and whatever else happens to the rows.
THEOREM ConcurrencyIsBounded == Spec => []ConcurrencyBound
BY TypeInit, TypeStep, LimitsInit, LimitsStep, LimitsInvBounds, PTL DEF Spec

\* So does the rate limit, in every window of the period's length.
THEOREM RateIsBounded == Spec => []RateBound
BY TypeInit, TypeStep, LimitsInit, LimitsStep, LimitsInvBounds, PTL DEF Spec
-----------------------------------------------------------------------------
(* Deduplication.                                                          *)

\* The workflows a worker executes, or is about to recover.
Holds(d) ==
    (IF d.at \in {"run", "rerun"} THEN {d.pick} ELSE {})
       \cup (IF d.at \in {"launch", "rerun"} THEN d.left ELSE {})

\* The unique index.
IndexInv ==
    \A v, w \in Workflow :
       v # w /\ row[v].queue = row[w].queue /\ row[v].dedup = row[w].dedup
       => row[v].dedup = Nil

\* A row nobody cancelled or resumed: a worker is noted once it is claimed, and
\* the deduplication id stays until it ends.
Kept1(w) ==
    /\ row[w].status \in Queued \cup {"ABSENT"} => row[w].exe = Nil
    /\ row[w].status \in Active => row[w].dedup = row[w].opts.dedup
KeptInv == \A w \in Workflow \ exposed : Kept1(w)

\* Such a row is held by the worker that claimed it, and by no other.
HoldsInv ==
    \A x \in Worker :
       /\ deq[x].at = "rerun" => deq[x].pick \notin deq[x].left
       /\ \A w \in Holds(deq[x]) \ exposed : row[w].status = "PENDING" /\ row[w].exe = x

\* The inductive invariant behind DedupExclusive.
DedupInv == IndexInv /\ KeptInv /\ HoldsInv

LEMMA DedupInvExcludes == Typed /\ DedupInv => DedupExclusive
<1> SUFFICES ASSUME Typed, DedupInv, NEW x \in Worker, NEW y \in Worker,
                    deq[x].at \in {"run", "rerun"}, deq[y].at \in {"run", "rerun"},
                    deq[x].pick # deq[y].pick,
                    {deq[x].pick, deq[y].pick} \cap exposed = {},
                    row[deq[x].pick].queue = row[deq[y].pick].queue,
                    row[deq[x].pick].opts.dedup = row[deq[y].pick].opts.dedup
             PROVE  row[deq[x].pick].opts.dedup = Nil
  BY DEF DedupExclusive
<1>1. ASSUME NEW z \in Worker, deq[z].at \in {"run", "rerun"}, deq[z].pick \notin exposed
      PROVE  /\ deq[z].pick \in Workflow
             /\ row[deq[z].pick].dedup = row[deq[z].pick].opts.dedup
  <2>1. deq[z].pick \in Workflow /\ deq[z].pick \in Holds(deq[z])
    BY <1>1 DEF Typed, Placed, Holds
  <2>2. row[deq[z].pick].status = "PENDING"
    BY <1>1, <2>1 DEF DedupInv, HoldsInv
  <2>3. QED BY <1>1, <2>1, <2>2 DEF DedupInv, KeptInv, Kept1, Active
<1>2. QED BY <1>1 DEF DedupInv, IndexInv

\* A worker that takes up nothing it did not hold keeps the invariant.
LEMMA HolderStep ==
    ASSUME Typed, DedupInv, UNCHANGED <<row, exposed>>, NEW x \in Worker, NEW d,
           deq' = [deq EXCEPT ![x] = d],
           d.at = "rerun" => d.pick \notin d.left,
           \A w \in Holds(d) \ exposed : row[w].status = "PENDING" /\ row[w].exe = x
    PROVE  DedupInv'
<1>1. \A y \in Worker : deq'[y] = IF y = x THEN d ELSE deq[y]
  BY DEF Typed
<1>2. HoldsInv'
  BY <1>1 DEF DedupInv, HoldsInv, Holds
<1>3. QED BY <1>2 DEF DedupInv, IndexInv, KeptInv, Kept1

LEMMA LetGo ==
    ASSUME Typed, DedupInv, UNCHANGED <<row, exposed>>, NEW x \in Worker, NEW d,
           deq' = [deq EXCEPT ![x] = d], d.at \notin {"launch", "run", "rerun"}
    PROVE  DedupInv'
<1>1. Holds(d) = {}
  BY DEF Holds
<1>2. QED BY <1>1, HolderStep

\* A row that leaves the index, or keeps its place in it.
LEMMA RowStep ==
    ASSUME Typed, DedupInv, NEW w \in Workflow, NEW r,
           row' = [row EXCEPT ![w] = r], exposed \subseteq exposed',
           \/ r.dedup = Nil
           \/ r.dedup = row[w].dedup /\ r.queue = row[w].queue
           \/ \A v \in Workflow \ {w} : row[v].queue # r.queue \/ row[v].dedup # r.dedup,
           w \notin exposed' =>
              /\ r.status \in Queued \cup {"ABSENT"} => r.exe = Nil
              /\ r.status \in Active => r.dedup = r.opts.dedup
    PROVE  IndexInv' /\ KeptInv'
<1>1. \A v \in Workflow : row'[v] = IF v = w THEN r ELSE row[v]
  BY DEF Typed
<1>2. KeptInv'
  BY <1>1 DEF DedupInv, KeptInv, Kept1
<1>3. ASSUME NEW u \in Workflow, NEW v \in Workflow, u # v,
             row'[u].queue = row'[v].queue, row'[u].dedup = row'[v].dedup
      PROVE  row'[u].dedup = Nil
  BY <1>1, <1>3 DEF DedupInv, IndexInv
<1>4. QED BY <1>2, <1>3 DEF IndexInv

LEMMA DedupStep == Typed /\ DedupInv /\ [Next]_vars => DedupInv'
<1> SUFFICES ASSUME Typed, DedupInv, [Next]_vars PROVE DedupInv'
  OBVIOUS
<1>i. /\ Idle.at = "idle" /\ Off.at = "off"
      /\ [Off EXCEPT !.at = "launch"].at = "launch"
  BY DEF Off, Idle
<1>1. ASSUME UNCHANGED <<row, deq, exposed>> PROVE DedupInv'
  BY <1>1 DEF DedupInv, IndexInv, KeptInv, Kept1, HoldsInv, Holds
<1>2. ASSUME NEW w \in Workflow, NEW q \in Queue, NEW o \in Options, Enqueue(w, q, o)
      PROVE  DedupInv'
  <2> DEFINE r == Inserted(o, q)
  <2>1. /\ r.queue = q /\ r.dedup = o.dedup /\ r.opts = o /\ r.exe = Nil
        /\ r.status \in Queued
    BY DEF Inserted, NoRow, Queued
  <2>2. \/ r.dedup = Nil
        \/ \A v \in Workflow \ {w} : row[v].queue # r.queue \/ row[v].dedup # r.dedup
    BY <1>2, <2>1 DEF Enqueue, Duplicate
  <2>3. IndexInv' /\ KeptInv'
    BY <1>2, <2>1, <2>2, RowStep DEF Enqueue
  <2>4. \A v \in Workflow : v # w => row'[v] = row[v]
    BY <1>2 DEF Enqueue, Typed
  <2>5. HoldsInv'
    <3> SUFFICES ASSUME NEW x \in Worker
                 PROVE  /\ deq[x].at = "rerun" => deq[x].pick \notin deq[x].left
                        /\ \A v \in Holds(deq[x]) \ exposed :
                              row'[v].status = "PENDING" /\ row'[v].exe = x
      BY <1>2 DEF Enqueue, HoldsInv, Holds
    <3>1. ASSUME NEW v \in Holds(deq[x]) \ exposed
          PROVE  row'[v].status = "PENDING" /\ row'[v].exe = x
      <4>1. v \in Workflow
        BY DEF Holds, Typed, Placed, Scan
      <4>2. row[v].status = "PENDING" /\ row[v].exe = x
        BY DEF DedupInv, HoldsInv
      <4>3. QED BY <1>2, <2>4, <4>1, <4>2 DEF Enqueue
    <3>2. QED BY <3>1 DEF DedupInv, HoldsInv
  <2>6. QED BY <2>3, <2>5 DEF DedupInv
<1>3. ASSUME NEW w \in Workflow, NEW q \in Queue, Resume(w, q) \/ Cancel(w) PROVE DedupInv'
  <2>1. \E r : /\ row' = [row EXCEPT ![w] = r] /\ r.dedup = Nil
    <3> DEFINE r == [row[w] EXCEPT !.status = "ENQUEUED",
                                   !.queue = q, !.started = Nil, !.dedup = Nil]
               c == [row[w] EXCEPT !.status = "CANCELLED",
                                   !.queue = Nil, !.started = Nil, !.dedup = Nil]
    <3>1. r.dedup = Nil /\ c.dedup = Nil
      BY DEF Typed, WorkflowRow
    <3>2. row' = [row EXCEPT ![w] = r] \/ row' = [row EXCEPT ![w] = c]
      BY <1>3 DEF Resume, Cancel
    <3>3. QED BY <3>1, <3>2
  <2>2. exposed' = exposed \cup {w} /\ deq' = deq
    BY <1>3 DEF Resume, Cancel
  <2>3. IndexInv' /\ KeptInv'
    BY <2>1, <2>2, RowStep
  <2>4. \A v \in Workflow : v # w => row'[v] = row[v]
    BY <2>1 DEF Typed
  <2>5. HoldsInv'
    <3> SUFFICES ASSUME NEW x \in Worker
                 PROVE  /\ deq[x].at = "rerun" => deq[x].pick \notin deq[x].left
                        /\ \A v \in Holds(deq[x]) \ exposed' :
                              row'[v].status = "PENDING" /\ row'[v].exe = x
      BY <2>2 DEF HoldsInv, Holds
    <3>1. ASSUME NEW v \in Holds(deq[x]) \ exposed'
          PROVE  row'[v].status = "PENDING" /\ row'[v].exe = x
      <4>1. v \in Workflow
        BY DEF Holds, Typed, Placed, Scan
      <4>2. row[v].status = "PENDING" /\ row[v].exe = x /\ v # w
        BY <2>2 DEF DedupInv, HoldsInv
      <4>3. QED BY <2>4, <4>1, <4>2
    <3>2. QED BY <3>1 DEF DedupInv, HoldsInv
  <2>6. QED BY <2>3, <2>5 DEF DedupInv
<1>4. ASSUME NEW x \in Worker, NEW q \in Queue, ListCandidates(x, q) PROVE DedupInv'
  <2> DEFINE all == Candidates(q, now)
             got == IF Locking THEN {w \in all : Unlocked(w)} ELSE all
             d == [Idle EXCEPT !.at = "check", !.queue = q, !.time = now,
                          !.cfg = IF q \in registered THEN Config[q] ELSE Nil,
                          !.left = got, !.locks = IF Locking THEN got ELSE {}]
  <2>1. deq' = [deq EXCEPT ![x] = d] /\ d.at = "check"
    <3>1. deq' = [deq EXCEPT ![x] = d]
      BY <1>4 DEF ListCandidates
    <3>2. d.at = "check"
      <4> HIDE DEF got
      <4>1. QED BY DEF Idle
    <3>3. QED BY <3>1, <3>2
  <2>2. UNCHANGED <<row, exposed>>
    BY <1>4 DEF ListCandidates
  <2> HIDE DEF d
  <2>3. QED BY <2>1, <2>2, LetGo
<1>5. ASSUME NEW x \in Worker, NEW w, PassOver(x, w), UNCHANGED <<row, exposed>>
      PROVE  DedupInv'
  <2> DEFINE d == [deq[x] EXCEPT !.at = "check", !.left = @ \ {w}, !.pick = Nil]
  <2>1. deq' = [deq EXCEPT ![x] = d]
    BY <1>5 DEF PassOver, Typed
  <2>2. d.at = "check"
    BY DEF Typed, Scan
  <2>3. QED BY <1>5, <2>1, <2>2, LetGo
<1>6. ASSUME NEW x \in Worker, CheckConcurrency(x) \/ CheckRate(x) PROVE DedupInv'
  <2>1. UNCHANGED <<row, exposed>>
    BY <1>6 DEF CheckConcurrency, CheckRate
  <2>2. ASSUME NEW w, deq' = [deq EXCEPT ![x].at = "rate", ![x].pick = w,
                                         ![x].loose = (deq[x].cfg = Nil)]
        PROVE  DedupInv'
    <3> DEFINE d == [deq[x] EXCEPT !.at = "rate", !.pick = w,
                                   !.loose = (deq[x].cfg = Nil)]
    <3>1. deq' = [deq EXCEPT ![x] = d]
      BY <2>2 DEF Typed
    <3>2. d.at = "rate"
      BY DEF Typed, Scan
    <3>3. QED BY <2>1, <3>1, <3>2, LetGo
  <2>3. ASSUME deq' = [deq EXCEPT ![x].at = "claim"] PROVE DedupInv'
    <3> DEFINE d == [deq[x] EXCEPT !.at = "claim"]
    <3>1. deq' = [deq EXCEPT ![x] = d] /\ d.at = "claim"
      BY <2>3 DEF Typed, Scan
    <3>2. QED BY <2>1, <3>1, LetGo
  <2>4. CASE CheckConcurrency(x)
    BY <1>5, <2>1, <2>2, <2>4 DEF CheckConcurrency
  <2>5. CASE CheckRate(x)
    BY <1>5, <2>1, <2>3, <2>5 DEF CheckRate
  <2>6. QED BY <1>6, <2>4, <2>5
<1>7. ASSUME NEW x \in Worker, NothingToRun(x) \/ Crash(x) PROVE DedupInv'
  BY <1>7, <1>i, LetGo DEF NothingToRun, Crash
<1>8. ASSUME NEW x \in Worker, Launch(x) PROVE DedupInv'
  <2> DEFINE ws == {w \in Workflow : row[w].exe = x /\ row[w].status \in Active}
             d == [Off EXCEPT !.at = "launch", !.left = ws]
  <2>1. d.at = "launch" /\ Holds(d) = ws
    BY DEF Off, Idle, Holds
  <2>2. ASSUME NEW w \in Holds(d) \ exposed PROVE row[w].status = "PENDING" /\ row[w].exe = x
    BY <2>1, QueueAssumption DEF DedupInv, KeptInv, Kept1, Active
  <2>3. deq' = [deq EXCEPT ![x] = d] /\ UNCHANGED <<row, exposed>>
    BY <1>8 DEF Launch
  <2>4. QED BY <2>1, <2>2, <2>3, HolderStep
<1>9. ASSUME NEW x \in Worker, RunRecovered(x) PROVE DedupInv'
  <2>1. UNCHANGED <<row, exposed>> /\ deq[x].at = "launch"
    BY <1>9 DEF RunRecovered
  <2>2. CASE deq' = [deq EXCEPT ![x] = Idle]
    BY <2>1, <2>2, <1>i, LetGo
  <2>3. ASSUME NEW w \in deq[x].left,
               deq' = [deq EXCEPT ![x].at = "rerun", ![x].pick = w, ![x].left = @ \ {w}]
        PROVE  DedupInv'
    <3> DEFINE d == [deq[x] EXCEPT !.at = "rerun", !.pick = w, !.left = @ \ {w}]
    <3>1. deq' = [deq EXCEPT ![x] = d]
      BY <2>3 DEF Typed
    <3>2. d.at = "rerun" /\ d.pick = w /\ d.left = deq[x].left \ {w}
      BY DEF Typed, Scan
    <3>3. Holds(d) \subseteq Holds(deq[x])
      BY <2>1, <3>2 DEF Holds
    <3>4. \A v \in Holds(d) \ exposed : row[v].status = "PENDING" /\ row[v].exe = x
      BY <3>3 DEF DedupInv, HoldsInv
    <3>5. QED BY <2>1, <3>1, <3>2, <3>4, HolderStep
  <2>4. QED BY <1>9, <2>2, <2>3 DEF RunRecovered
<1>10. ASSUME NEW x \in Worker, Claim(x) PROVE DedupInv'
  <2> DEFINE w == deq[x].pick
  <2>1. CASE row[w].status \notin Queued
    BY <1>10, <1>i, <2>1, LetGo DEF Claim
  <2>2. CASE row[w].status \in Queued
    <3> DEFINE r == [row[w] EXCEPT !.status = "PENDING", !.exe = x,
                        !.started = deq[x].time,
                        !.limited = (deq[x].cfg # Nil /\ deq[x].cfg.rate # Nil)]
    <3>1. w \in Workflow
      BY <1>10 DEF Claim, Typed, Placed
    <3>2. row' = [row EXCEPT ![w] = r] /\ exposed' = exposed
      BY <1>10, <2>2 DEF Claim
    <3>3. /\ r.status = "PENDING" /\ r.exe = x
          /\ r.dedup = row[w].dedup /\ r.queue = row[w].queue /\ r.opts = row[w].opts
      <4>1. row[w] \in WorkflowRow
        BY <3>1 DEF Typed
      <4>2. ASSUME NEW b PROVE LET e == [row[w] EXCEPT !.status = "PENDING", !.exe = x,
                                  !.started = deq[x].time, !.limited = b]
                   IN  /\ e.status = "PENDING" /\ e.exe = x /\ e.dedup = row[w].dedup
                       /\ e.queue = row[w].queue /\ e.opts = row[w].opts
        BY <4>1 DEF WorkflowRow
      <4>3. QED BY <4>2, Zenon
    <3>4. IndexInv' /\ KeptInv'
      <4>1. w \notin exposed => r.dedup = r.opts.dedup
        BY <2>2, <3>1, <3>3 DEF DedupInv, KeptInv, Kept1, Active
      <4>2. r.status \notin Queued \cup {"ABSENT"}
        BY <3>3 DEF Queued
      <4> HIDE DEF r
      <4>3. QED BY <3>1, <3>2, <3>3, <4>1, <4>2, RowStep
    <3>5. /\ deq'[x].at = "run" /\ deq'[x].pick = w
          /\ \A y \in Worker \ {x} : /\ deq'[y].at = deq[y].at
                                     /\ deq'[y].pick = deq[y].pick
                                     /\ deq'[y].left = deq[y].left
      <4>1. deq' = Overtaken(x, row[w].queue)
        BY <1>10, <2>2 DEF Claim
      <4>2. QED BY <4>1 DEF Overtaken, Idle, Typed, Scan
    <3>6. /\ \A v \in Workflow : v # w => row'[v] = row[v]
          /\ row'[w].status = "PENDING" /\ row'[w].exe = x
      BY <3>1, <3>2, <3>3 DEF Typed
    <3>7. HoldsInv'
      <4> SUFFICES ASSUME NEW y \in Worker
                   PROVE  /\ deq'[y].at = "rerun" => deq'[y].pick \notin deq'[y].left
                          /\ \A v \in Holds(deq'[y]) \ exposed :
                                row'[v].status = "PENDING" /\ row'[v].exe = y
        BY <3>2 DEF HoldsInv, Holds
      <4>1. CASE y = x
        BY <3>5, <3>6, <4>1 DEF Holds
      <4>2. CASE y # x
        <5>1. Holds(deq'[y]) = Holds(deq[y])
          BY <3>5, <4>2 DEF Holds
        <5>2. Holds(deq[y]) \subseteq Workflow
          BY DEF Holds, Typed, Placed, Scan
        <5>3. \A v \in Holds(deq[y]) \ exposed :
                 row[v].status = "PENDING" /\ row[v].exe = y /\ v # w
          BY <2>2 DEF DedupInv, HoldsInv, Queued
        <5>4. QED BY <3>5, <3>6, <4>2, <5>1, <5>2, <5>3 DEF DedupInv, HoldsInv
      <4>3. QED BY <4>1, <4>2
    <3>8. QED BY <3>4, <3>7 DEF DedupInv
  <2>3. QED BY <2>1, <2>2
<1>11. ASSUME NEW x \in Worker, EndRun(x) PROVE DedupInv'
  <2> DEFINE w == deq[x].pick
  <2>1. w \in Workflow /\ w \in Holds(deq[x]) /\ exposed' = exposed
    BY <1>11 DEF EndRun, Typed, Placed, Holds
  <2>2. IndexInv' /\ KeptInv'
    <3>1. CASE row' = row
      BY <2>1, <3>1 DEF DedupInv, IndexInv, KeptInv, Kept1
    <3>2. CASE row' = [row EXCEPT ![w].status = "ENDED", ![w].dedup = Nil]
      <4> DEFINE r == [row[w] EXCEPT !.status = "ENDED", !.dedup = Nil]
      <4>1. row' = [row EXCEPT ![w] = r] /\ r.status = "ENDED" /\ r.dedup = Nil
        BY <2>1, <3>2 DEF Typed, WorkflowRow
      <4>2. r.status \notin Active \cup {"ABSENT"}
        BY <4>1 DEF Active, Queued
      <4> HIDE DEF r
      <4>3. QED BY <2>1, <4>1, <4>2, RowStep DEF Active
    <3>3. QED BY <1>11, <3>1, <3>2 DEF EndRun, RecordResult
  <2>3. \A v \in Workflow : v # w => row'[v] = row[v]
    BY <1>11, <2>1 DEF EndRun, RecordResult, Typed
  <2>4. /\ \A y \in Worker \ {x} : deq'[y] = deq[y]
        /\ deq'[x].at # "rerun"
        /\ Holds(deq'[x]) \subseteq Holds(deq[x])
        /\ Holds(deq'[x]) \subseteq deq[x].left
        /\ Holds(deq'[x]) # {} => deq[x].at = "rerun"
    <3> DEFINE d == [Off EXCEPT !.at = "launch", !.left = deq[x].left]
    <3>1. d.at = "launch" /\ d.left = deq[x].left
      BY DEF Off, Idle
    <3>2. \/ deq' = [deq EXCEPT ![x] = Idle]
          \/ deq' = [deq EXCEPT ![x] = Off]
          \/ deq' = [deq EXCEPT ![x] = d] /\ deq[x].at = "rerun"
      BY <1>11 DEF EndRun
    <3>3. CASE deq' = [deq EXCEPT ![x] = Idle] \/ deq' = [deq EXCEPT ![x] = Off]
      BY <1>i, <3>3 DEF Typed, Holds
    <3>4. CASE deq' = [deq EXCEPT ![x] = d] /\ deq[x].at = "rerun"
      BY <3>1, <3>4 DEF Typed, Holds
    <3>5. QED BY <3>2, <3>3, <3>4
  <2>5. HoldsInv'
    <3> SUFFICES ASSUME NEW y \in Worker
                 PROVE  /\ deq'[y].at = "rerun" => deq'[y].pick \notin deq'[y].left
                        /\ \A v \in Holds(deq'[y]) \ exposed :
                              row'[v].status = "PENDING" /\ row'[v].exe = y
      BY <2>1 DEF HoldsInv, Holds
    <3>1. ASSUME NEW v \in Holds(deq'[y]) \ exposed
          PROVE  row'[v].status = "PENDING" /\ row'[v].exe = y
      <4>1. v \in Holds(deq[y])
        BY <2>4
      <4>2. row[v].status = "PENDING" /\ row[v].exe = y /\ v \in Workflow
        BY <4>1 DEF DedupInv, HoldsInv, Holds, Typed, Placed, Scan
      <4>3. v # w
        <5>1. CASE y = x
          BY <2>4, <5>1 DEF DedupInv, HoldsInv
        <5>2. CASE y # x
          BY <2>1, <4>2, <5>2 DEF DedupInv, HoldsInv
        <5>3. QED BY <5>1, <5>2
      <4>4. QED BY <2>3, <4>2, <4>3
    <3>2. QED BY <2>4, <3>1 DEF DedupInv, HoldsInv
  <2>6. QED BY <2>2, <2>5 DEF DedupInv
<1>12. CASE Tick \/ UNCHANGED vars \/ \E q \in Queue : RegisterQueue(q)
  BY <1>1, <1>12 DEF Tick, vars, RegisterQueue
<1>13. ASSUME NEW x \in Worker,
              Dequeue(x) \/ EndRun(x) \/ Launch(x) \/ RunRecovered(x) \/ Crash(x)
       PROVE  DedupInv'
  BY <1>6, <1>7, <1>8, <1>9, <1>10, <1>11, <1>13 DEF Dequeue
<1>14. QED
  BY <1>2, <1>3, <1>4, <1>12, <1>13, QueueAssumption DEF Next

LEMMA DedupInit == Init => DedupInv
<1> SUFFICES ASSUME Init PROVE DedupInv
  OBVIOUS
<1>1. IndexInv /\ KeptInv
  BY DEF Init, NoRow, IndexInv, KeptInv, Kept1, Active, Queued
<1>2. HoldsInv
  BY DEF Init, Idle, HoldsInv, Holds
<1>3. QED BY <1>1, <1>2 DEF DedupInv

\* Of the rows nobody cancelled or resumed, no two that share a deduplication
\* id on a queue are executed at once.
THEOREM DedupIsExclusive == Spec => []DedupExclusive
BY TypeInit, TypeStep, DedupInit, DedupStep, DedupInvExcludes, PTL DEF Spec
=============================================================================
