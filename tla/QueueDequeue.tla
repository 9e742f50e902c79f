----------------------------- MODULE QueueDequeue -----------------------------
(***************************************************************************)
(* Queues: enqueuing under the rules of a queue, and dequeue_workflow with *)
(* its limits, run by several workers at once.                             *)
(*                                                                         *)
(* dequeue_workflow is a chain of statements: read the queue's row, list   *)
(* the candidates, count against the concurrency limit, count against the  *)
(* rate limit, UPDATE the one that passed.  Postgres runs the chain in one *)
(* READ COMMITTED transaction that locks the rows it lists; SQLite runs it *)
(* unprotected.  Either way the counts are of what other workers had       *)
(* committed when they were taken.                                         *)
(*                                                                         *)
(* worker_concurrency and priority_enabled are stored and never read by    *)
(* the code, so they are left out; a queue is registered with the same     *)
(* options whenever it is.  Rows are enqueued by clients, whose executor   *)
(* ids no worker has.                                                      *)
(***************************************************************************)
EXTENDS Naturals, FiniteSets

CONSTANTS
    Workflow,     \* workflow ids
    Worker,       \* executors, each with its queue worker loop
    Queue,        \* queue names
    Internal,     \* INTERNAL_QUEUE_NAME, which is never registered
    Partition,    \* queue partition keys
    Dedup,        \* deduplication ids
    Nil,          \* SQL NULL
    Options,      \* the EnqueueOptions workflows come with
    Config,       \* Config[q]: what register_queue(q) stores
    Backends,     \* the databases it may run on: "postgres", "sqlite"
    Commands,     \* which commands and crashes happen
    MaxCommands,  \* bound: how many of them
    MaxTime       \* bound: the clock

Command == {"cancel", "resume", "crash"}

OptionsRow == [prio : Nat, part : Partition \cup {Nil},
               dedup : Dedup \cup {Nil}, delay : Nat]
QueueRow == [conc : Nat \cup {Nil}, rate : (Nat \ {0}) \cup {Nil},
             period : Nat \ {0}, parted : BOOLEAN]

\* validate_enqueue_options and validate_queue_options.
ASSUME QueueAssumption ==
    /\ Options \subseteq OptionsRow
    /\ \A o \in Options : o.part = Nil \/ o.dedup = Nil
    /\ Internal \in Queue
    /\ Config \in [Queue \ {Internal} -> QueueRow]
    /\ Nil \notin Nat \cup Partition \cup Dedup \cup Queue \cup Worker \cup Workflow
    /\ Backends \subseteq {"postgres", "sqlite"} /\ Commands \subseteq Command

ASSUME QueueBounds == MaxCommands \in Nat /\ MaxTime \in Nat

VARIABLES
    backend,     \* the database
    registered,  \* queues that have a row in queues
    row,         \* workflow_status
    deq,         \* each worker: where it is in dequeue_workflow, what it holds
    now,         \* the clock
    count,       \* history: commands and crashes so far
    loose,       \* history: rows claimed with no limit in force, or after
                 \* another worker claimed since the counts were taken
    exposed      \* history: rows cancelled or resumed

vars == <<backend, registered, row, deq, now, count, loose, exposed>>

Queued == {"ENQUEUED", "DELAYED"}
Active == Queued \cup {"PENDING"}
\* A row that has ended is CANCELLED or ENDED: SUCCESS or ERROR, which no
\* statement of this module tells apart.

NoRow == [status |-> "ABSENT", opts |-> Nil, queue |-> Nil, created |-> 0, due |-> 0,
          started |-> Nil, limited |-> FALSE, dedup |-> Nil, exe |-> Nil]

Idle == [at |-> "idle", queue |-> Nil, cfg |-> Nil, time |-> 0, left |-> {},
         locks |-> {}, pick |-> Nil, loose |-> FALSE]
Off == [Idle EXCEPT !.at = "off"]

Locking == backend = "postgres"

\* Another worker's transaction holds a row until it commits.
Unlocked(w) == \A x \in Worker : w \notin deq[x].locks

Init ==
    /\ backend \in Backends
    /\ registered = {}
    /\ row = [w \in Workflow |-> NoRow]
    /\ deq = [x \in Worker |-> Idle]
    /\ now = 0
    /\ count = 0
    /\ loose = {}
    /\ exposed = {}
-----------------------------------------------------------------------------
(* Registering and enqueuing.                                              *)

\* upsert_queue.
StoreQueue(q) == registered' = registered \cup {q}

RegisterQueue(q) ==
    /\ q \in Queue \ (registered \cup {Internal})
    /\ StoreQueue(q)
    /\ UNCHANGED <<backend, row, deq, now, count, loose, exposed>>

\* validate_queue_assignment: asked of a registered queue only.
Assignable(o, q) ==
    q \in registered => (Config[q].parted <=> o.part # Nil)

\* The unique index on (queue_name, deduplication_id), which rows that have
\* ended have left.  (DedupPending is a mutant: rows that run have left too.)
DedupPending(o, q) ==
    \E v \in Workflow : /\ row[v].queue = q /\ row[v].dedup = o.dedup
                        /\ row[v].dedup # Nil /\ row[v].status \in Queued
Duplicate(o, q) ==
    \E v \in Workflow : /\ row[v].queue = q /\ row[v].dedup = o.dedup
                        /\ row[v].dedup # Nil

\* init_workflow's INSERT of a fresh id.
Inserted(o, q) ==
    [NoRow EXCEPT !.status = IF o.delay = 0 THEN "ENQUEUED" ELSE "DELAYED",
                  !.opts = o, !.queue = q, !.created = now,
                  !.due = now + o.delay, !.dedup = o.dedup]

\* enqueue_workflow: the row is inserted, or the caller gets an error.
Enqueue(w, q, o) ==
    /\ row[w].status = "ABSENT"
    /\ now + o.delay <= MaxTime
    /\ q # Internal
    /\ Assignable(o, q) /\ ~Duplicate(o, q)
    /\ row' = [row EXCEPT ![w] = Inserted(o, q)]
    /\ UNCHANGED <<backend, registered, deq, now, count, loose, exposed>>
-----------------------------------------------------------------------------
(* dequeue_workflow, statement by statement.                               *)

Runnable(q) ==
    \E w \in Workflow : row[w].queue = q /\ row[w].status \in Queued

Candidates(q, t) ==
    {w \in Workflow : /\ row[w].queue = q
                      /\ \/ row[w].status = "ENQUEUED"
                         \/ row[w].status = "DELAYED" /\ row[w].due <= t}

\* The worker's scan reaches q: the time, the queue's row and the candidates
\* are read (what happens between the three has nothing to overtake yet); on
\* Postgres the candidates are locked, and those of others skipped.
ListCandidates(x, q) ==
    /\ deq[x].at = "idle"
    /\ Runnable(q)
    /\ LET all == Candidates(q, now)
           got == IF Locking THEN {w \in all : Unlocked(w)} ELSE all
       IN deq' = [deq EXCEPT ![x] =
             [Idle EXCEPT !.at = "check", !.queue = q, !.time = now,
                          !.cfg = IF q \in registered THEN Config[q] ELSE Nil,
                          !.left = got, !.locks = IF Locking THEN got ELSE {}]]
    /\ UNCHANGED <<backend, registered, row, now, count, loose, exposed>>

\* ORDER BY priority ASC, created_at ASC; ties in any order.
Before(v, w) ==
    \/ row[v].opts.prio < row[w].opts.prio
    \/ row[v].opts.prio = row[w].opts.prio /\ row[v].created < row[w].created
First(ws) == {w \in ws : \A v \in ws : ~Before(v, w)}

\* The rows a limit of queue q counts for a row with partition key k.
Scope(q, cfg, k) ==
    {v \in Workflow : row[v].queue = q /\ (cfg.parted => row[v].opts.part = k)}

Unkeyed(cfg, w) == cfg # Nil /\ cfg.parted /\ row[w].opts.part = Nil

\* (ConcurrencyOver is a mutant: > for >=.)
ConcurrencyOver(q, cfg, w) ==
    /\ cfg # Nil /\ cfg.conc # Nil
    /\ Cardinality({v \in Scope(q, cfg, row[w].opts.part) : row[v].status = "PENDING"}) > cfg.conc
ConcurrencyFull(q, cfg, w) ==
    /\ cfg # Nil /\ cfg.conc # Nil
    /\ Cardinality({v \in Scope(q, cfg, row[w].opts.part) : row[v].status = "PENDING"})
         >= cfg.conc

\* (RatePending is a mutant: only rows that still run are counted.)
RatePending(q, cfg, w, t) ==
    /\ cfg # Nil /\ cfg.rate # Nil
    /\ Cardinality({v \in Scope(q, cfg, row[w].opts.part) :
          /\ row[v].limited /\ row[v].status = "PENDING"
          /\ row[v].started # Nil /\ row[v].started + cfg.period > t})
         >= cfg.rate
RateFull(q, cfg, w, t) ==
    /\ cfg # Nil /\ cfg.rate # Nil
    /\ Cardinality({v \in Scope(q, cfg, row[w].opts.part) :
          /\ row[v].limited /\ row[v].status \notin Queued
          /\ row[v].started # Nil /\ row[v].started + cfg.period > t})
         >= cfg.rate

\* (PassOver is what a refused candidate leads to; StopAtRefusal is a mutant:
\* the rest of the list is not looked at.)
StopAtRefusal(x, w) == deq' = [deq EXCEPT ![x] = Idle]
PassOver(x, w) ==
    deq' = [deq EXCEPT ![x].at = "check", ![x].left = @ \ {w}, ![x].pick = Nil]

\* The next candidate is counted against the concurrency limit.
CheckConcurrency(x) ==
    /\ deq[x].at = "check"
    /\ LET d == deq[x] IN
       \E w \in First(d.left) :
          \/ /\ Unkeyed(d.cfg, w) \/ ConcurrencyFull(d.queue, d.cfg, w)
             /\ PassOver(x, w)
          \/ /\ ~Unkeyed(d.cfg, w) /\ ~ConcurrencyFull(d.queue, d.cfg, w)
             /\ deq' = [deq EXCEPT ![x].at = "rate", ![x].pick = w,
                                   ![x].loose = d.cfg = Nil]
    /\ UNCHANGED <<backend, registered, row, now, count, loose, exposed>>

\* ... and against the rate limit.
CheckRate(x) ==
    /\ deq[x].at = "rate"
    /\ LET d == deq[x] IN
       IF RateFull(d.queue, d.cfg, d.pick, d.time)
       THEN PassOver(x, d.pick)
       ELSE deq' = [deq EXCEPT ![x].at = "claim"]
    /\ UNCHANGED <<backend, registered, row, now, count, loose, exposed>>

\* No candidate passed: Ok(None), and the scan goes on.
NothingToRun(x) ==
    /\ deq[x].at = "check" /\ deq[x].left = {}
    /\ deq' = [deq EXCEPT ![x] = Idle]
    /\ UNCHANGED <<backend, registered, row, now, count, loose, exposed>>

\* Whoever has counted q's rows has counted too early.
Overtaken(x, q) ==
    [y \in Worker |->
       IF y = x THEN [Idle EXCEPT !.at = "run", !.pick = deq[x].pick]
       ELSE IF deq[y].queue = q /\ deq[y].at \in {"rate", "claim"}
       THEN [deq[y] EXCEPT !.loose = TRUE] ELSE deq[y]]

\* The UPDATE, which looks at the status again and at nothing else, and the
\* COMMIT.  If the row has gone, the result is None.
Claim(x) ==
    /\ deq[x].at = "claim"
    /\ LET d == deq[x]
           w == d.pick IN
       \/ /\ row[w].status \in Queued
          /\ row' = [row EXCEPT ![w] = [@ EXCEPT
                !.status = "PENDING", !.exe = x, !.started = d.time,
                !.limited = d.cfg # Nil /\ d.cfg.rate # Nil]]
          /\ loose' = IF d.loose \/ row[w].queue # d.queue
                      THEN loose \cup {w} ELSE loose \ {w}
          /\ deq' = Overtaken(x, row[w].queue)
       \/ /\ row[w].status \notin Queued
          /\ deq' = [deq EXCEPT ![x] = Idle]
          /\ UNCHANGED <<row, loose>>
    /\ UNCHANGED <<backend, registered, now, count, exposed>>
-----------------------------------------------------------------------------
(* The execution ends; commands; failures; the clock.                      *)

\* record_workflow_result.
RecordResult(w) ==
    row' = IF row[w].status = "CANCELLED" THEN row
           ELSE [row EXCEPT ![w].status = "ENDED", ![w].dedup = Nil]

\* A dequeued or a recovered workflow ends.  A recovered one's error ends
\* launch too.
EndRun(x) ==
    /\ deq[x].at \in {"run", "rerun"}
    /\ Unlocked(deq[x].pick)
    /\ RecordResult(deq[x].pick)
    /\ \/ deq[x].at = "run" /\ deq' = [deq EXCEPT ![x] = Idle]
       \/ deq[x].at = "rerun" /\ deq' = [deq EXCEPT ![x] = Off]
       \/ /\ deq[x].at = "rerun"
          /\ deq' = [deq EXCEPT ![x] =
                       [Off EXCEPT !.at = "launch", !.left = deq[x].left]]
    /\ UNCHANGED <<backend, registered, now, count, loose, exposed>>

\* get_workflows_for_recovery, and each of its rows in turn.
Launch(x) ==
    /\ deq[x].at = "off"
    /\ deq' = [deq EXCEPT ![x] = [Off EXCEPT !.at = "launch",
          !.left = {w \in Workflow : row[w].exe = x /\ row[w].status \in Active}]]
    /\ UNCHANGED <<backend, registered, row, now, count, loose, exposed>>

RunRecovered(x) ==
    /\ deq[x].at = "launch"
    /\ \/ \E w \in deq[x].left :
             deq' = [deq EXCEPT ![x].at = "rerun", ![x].pick = w,
                                ![x].left = @ \ {w}]
       \/ deq[x].left = {} /\ deq' = [deq EXCEPT ![x] = Idle]
    /\ UNCHANGED <<backend, registered, row, now, count, loose, exposed>>

Issue(c) == /\ c \in Commands
            /\ count < MaxCommands
            /\ count' = count + 1

\* cancel_workflows: the slot and the deduplication id are released at once,
\* the execution is not told.
Cancel(w) ==
    /\ Issue("cancel")
    /\ row[w].status \in Active /\ Unlocked(w)
    /\ row' = [row EXCEPT ![w] = [@ EXCEPT !.status = "CANCELLED",
                  !.queue = Nil, !.started = Nil, !.dedup = Nil]]
    /\ exposed' = exposed \cup {w}
    /\ UNCHANGED <<backend, registered, deq, now, loose>>

\* resume_workflows, onto any queue; the delay no longer counts.
Resume(w, q) ==
    /\ Issue("resume")
    /\ row[w].status \in Active \cup {"CANCELLED"} /\ Unlocked(w)
    /\ row' = [row EXCEPT ![w] = [@ EXCEPT !.status = "ENQUEUED",
                  !.queue = q, !.started = Nil, !.dedup = Nil]]
    /\ exposed' = exposed \cup {w}
    /\ UNCHANGED <<backend, registered, deq, now, loose>>

\* The worker's process dies; its transaction is rolled back.
Crash(x) ==
    /\ deq[x].at # "off"
    /\ Issue("crash")
    /\ deq' = [deq EXCEPT ![x] = Off]
    /\ UNCHANGED <<backend, registered, row, now, loose, exposed>>

Tick ==
    /\ now < MaxTime
    /\ now' = now + 1
    /\ UNCHANGED <<backend, registered, row, deq, count, loose, exposed>>

Dequeue(x) ==
    \/ CheckConcurrency(x) \/ CheckRate(x) \/ NothingToRun(x) \/ Claim(x)

Next ==
    \/ \E q \in Queue : RegisterQueue(q)
    \/ \E w \in Workflow, q \in Queue, o \in Options : Enqueue(w, q, o)
    \/ \E w \in Workflow, q \in Queue : Resume(w, q)
    \/ \E x \in Worker, q \in Queue : ListCandidates(x, q)
    \/ \E x \in Worker : Dequeue(x) \/ EndRun(x) \/ Launch(x) \/ RunRecovered(x)
    \/ \E w \in Workflow : Cancel(w)
    \/ \E x \in Worker : Crash(x)
    \/ Tick

Spec == Init /\ [][Next]_vars

\* A live worker keeps scanning, every queue in its turn; bodies end.  Nothing
\* is assumed of who restarts a dead one.
Fairness ==
    /\ \A x \in Worker : WF_vars(Dequeue(x) \/ EndRun(x) \/ RunRecovered(x))
    /\ \A q \in Queue : SF_vars(\E x \in Worker : ListCandidates(x, q))
    /\ WF_vars(Tick)

FairSpec == Spec /\ Fairness
-----------------------------------------------------------------------------
(* Properties.                                                             *)

\* Rows of queue q with partition key k, of those claimed under its limits by
\* counts that nobody overtook.
Counted(q, k) == Scope(q, Config[q], k) \ loose

\* The concurrency limit: of the rows claimed in order, no more are PENDING on
\* a queue, or in a partition of it, than its limit, whatever is cancelled,
\* resumed, recovered or left behind by a crash.
ConcurrencyBound ==
    \A q \in registered, k \in Partition \cup {Nil} : Config[q].conc # Nil =>
       Cardinality({v \in Counted(q, k) : row[v].status = "PENDING"})
          <= Config[q].conc

\* The rate limit: of the rows claimed in order, no more were started within
\* any period than the limit, though workers claim under clock readings of
\* different ages.
RateBound ==
    \A q \in registered, k \in Partition \cup {Nil}, t \in 0 .. MaxTime :
       Config[q].rate # Nil =>
          Cardinality({v \in Counted(q, k) :
             /\ row[v].limited /\ row[v].started # Nil
             /\ row[v].status \notin Queued
             /\ row[v].started <= t /\ row[v].started + Config[q].period > t})
          <= Config[q].rate

\* Two workflows of one deduplication id on one queue are not executed at the
\* same time, unless one was cancelled or resumed: cancelling releases the id
\* while the execution goes on.
DedupExclusive ==
    \A x, y \in Worker :
       LET v == deq[x].pick
           w == deq[y].pick IN
       /\ deq[x].at \in {"run", "rerun"} /\ deq[y].at \in {"run", "rerun"}
       /\ v # w /\ {v, w} \cap exposed = {}
       /\ row[v].queue = row[w].queue
       => row[v].opts.dedup = Nil \/ row[v].opts.dedup # row[w].opts.dedup

\* What may keep a row waiting: no worker is up; the row has no partition key
\* on a partitioned queue; a dead worker's rows keep the slots of its
\* partition; or (by the bound of the clock) no more time passes.
Held(w) ==
    LET q == row[w].queue
        cfg == IF q \in registered THEN Config[q] ELSE Nil IN
    \/ \A x \in Worker : deq[x].at = "off"
    \/ Unkeyed(cfg, w)
    \/ /\ ConcurrencyFull(q, cfg, w)
       /\ \E v \in Scope(q, cfg, row[w].opts.part) : /\ row[v].status = "PENDING"
                                      /\ deq[row[v].exe].at = "off"
    \/ now = MaxTime /\ RateFull(q, cfg, w, now)

\* Nothing starves: again and again every row that waits is one that something
\* of its own partition holds.  Neither other partitions at their limits, nor
\* rows of better priority, nor commands keep a row waiting for ever.
NothingStarves ==
    []<>(\A w \in Workflow : row[w].status \in Queued => Held(w))
=============================================================================
