-------------------------- MODULE DurableExecution --------------------------
(***************************************************************************)
(* The durable execution of workflow bodies through the journal.           *)
(*                                                                         *)
(* A workflow body calls the operations of WorkflowContext one after the   *)
(* other.  Every call takes the next step id, looks that id up in          *)
(* operation_outputs, and either REPLAYS the row it finds or runs LIVE:    *)
(* the side effect first, the INSERT of the row second, each a database    *)
(* call of its own.  A process may die between any two of them; recovery   *)
(* runs the body again from the top.  Several executions of one workflow   *)
(* may be in progress at once (recover_workflows does not ask whether the  *)
(* workflow it restarts is still running), each in a Slot.                 *)
(*                                                                         *)
(* Tables are sets of rows (notifications and streams are sequences in     *)
(* insertion order); columns no operation reads are left out.  Child       *)
(* workflows, patching, cancellation and queues belong to other modules.   *)
(***************************************************************************)
EXTENDS Naturals, Sequences, FiniteSets

CONSTANTS
    Workflow,        \* workflow ids
    Slot,            \* concurrent calls of execute_workflow
    Version,         \* deployed versions of the application code
    Key,             \* topics, event keys, stream keys and step names
    Value,           \* payloads
    Nil,             \* SQL NULL / "no value"
    Sentinel,        \* STREAM_CLOSED_SENTINEL
    Body,            \* Body[v][w]: the operations w's function calls in version v
    StepError,       \* error codes a step closure may return
    MaxStarts,       \* bound: executions of one workflow
    MaxFaults,       \* bound: database calls that fail, in total
    SnapshotConsume, \* TRUE: Postgres consume_notification; FALSE: SQLite
    Overlap          \* may a workflow be started while an execution of it runs

Kind == {"step", "sleep", "recv", "send", "setEvent", "getEvent",
         "writeStream", "closeStream"}

\* Codes of errors that an operation returns without recording them.
UnrecordedCode == {"ConflictingIDError", "NonExistentWorkflowError",
                   "UnexpectedStep", "StreamClosed", "Database"}
ErrorCode == UnrecordedCode \cup {"TimeoutError", "StepExecutionError"}
                            \cup StepError

\* One call in a body.  catches: the error codes the body matches on and
\* survives; any other error leaves the body through `?`.
Op == [kind : Kind, dest : Workflow, key : Key, val : Value,
       catches : SUBSET ErrorCode]

ASSUME BodyAssumption ==
    /\ Body \in [Version -> [Workflow -> Seq(Op)]]
    /\ Nil \notin Value
    /\ Sentinel \notin Value
    /\ Nil # Sentinel

ASSUME BoundsAssumption ==
    /\ MaxStarts \in Nat /\ MaxFaults \in Nat
    /\ SnapshotConsume \in BOOLEAN /\ Overlap \in BOOLEAN

VARIABLES
    status,   \* workflow_status.status, or "ABSENT"
    journal,  \* operation_outputs
    notes,    \* notifications; the index is message_uuid
    events,   \* workflow_events
    history,  \* workflow_events_history
    streams,  \* streams; the index is the offset + 1
    exec,     \* the WorkflowContext of each execution in progress
    starts,   \* history: executions begun per workflow
    faults,   \* history: database calls that failed
    seen      \* history: every result an operation returned to a body

effects == <<notes, events, history, streams>>
tables == <<status, journal, notes, events, history, streams>>
vars == <<status, journal, notes, events, history, streams, exec, starts,
          faults, seen>>

Terminal == {"SUCCESS", "ERROR", "CANCELLED"}
Status == {"ABSENT", "PENDING"} \cup Terminal
Phase == {"idle",    \* no execution in this slot
          "body",    \* between two operations
          "live",    \* id not recorded: about to run the operation
          "picked",  \* Postgres: the oldest message is chosen, not yet updated
          "append",  \* write_stream found the stream open
          "record",  \* about to INSERT the outcome
          "failed"}  \* an error left the body

Ok(v) == [ok |-> TRUE, val |-> v, code |-> "None", msg |-> 0]
Err(c) == [ok |-> FALSE, val |-> Nil, code |-> c, msg |-> 0]
Result == [ok : BOOLEAN, val : Value \cup {Nil},
           code : ErrorCode \cup {"None"}, msg : Nat]

Idle == [phase |-> "idle", wf |-> Nil, ver |-> Nil, fid |-> 0, res |-> Ok(Nil)]

\* function_name of an operation: a step's own name, else "journio.<kind>".
FunctionName(op) == IF op.kind = "step" THEN <<"step", op.key>>
                                        ELSE <<op.kind, Nil>>
FName == (Kind \X (Key \cup {Nil}))

\* validate_recorded_step.
\* (NameIgnored is a mutant: the name is not compared.)
NameIgnored(r, op) == TRUE
NameMatches(r, op) == r.fname = FunctionName(op)

Calls(s) == Body[exec[s].ver][exec[s].wf]
Row(w, i) == {r \in journal : r.wf = w /\ r.fid = i}
Recorded(w, i) == Row(w, i) # {}
-----------------------------------------------------------------------------
(* What a call hands back to the body.                                     *)

\* (Mutant: the body goes on after any error.)
ReturnSwallowed(s, i, r, recorded) ==
    /\ exec' = [exec EXCEPT ![s] = [@ EXCEPT !.phase = "body", !.fid = i]]
    /\ UNCHANGED seen

\* The body goes on, or the error leaves it through `?`.
Resume(s, i, r) ==
    exec' = [exec EXCEPT ![s] =
               [@ EXCEPT !.phase = IF r.ok \/ r.code \in Calls(s)[i].catches
                                   THEN "body" ELSE "failed",
                         !.fid = i,
                         !.res = r]]

\* Operation i returns r.
Return(s, i, r, recorded) ==
    /\ Resume(s, i, r)
    /\ seen' = seen \cup
         {[wf |-> exec[s].wf, fid |-> i, fname |-> FunctionName(Calls(s)[i]),
           ok |-> r.ok, val |-> r.val, code |-> r.code,
           recorded |-> recorded]}

\* (Mutant: a failed call is retried in place.)
DbFaultRetried(s, i) ==
    /\ faults < MaxFaults
    /\ faults' = faults + 1
    /\ exec' = [exec EXCEPT ![s] = [@ EXCEPT !.phase = "live", !.fid = i]]
    /\ UNCHANGED seen

\* The database call of operation i fails.
DbFault(s, i) ==
    /\ faults < MaxFaults
    /\ faults' = faults + 1
    /\ Return(s, i, Err("Database"), FALSE)

\* (Mutant: the outcome is handed to the body without waiting for its record.)
HoldUnrecorded(s, r) ==
    /\ exec' = [exec EXCEPT ![s] = [@ EXCEPT !.phase = "body", !.res = r]]
    /\ UNCHANGED <<seen, faults>>

\* The operation has its outcome r and goes on to record it.
Hold(s, r) ==
    /\ exec' = [exec EXCEPT ![s] = [@ EXCEPT !.phase = "record", !.res = r]]
    /\ UNCHANGED <<seen, faults>>

\* The database call took effect: its reply arrives, or is lost on the way.
Reply(s, r) == Hold(s, r) \/ DbFault(s, exec[s].fid)

AtLive(s, kinds) ==
    /\ exec[s].phase = "live"
    /\ Calls(s)[exec[s].fid].kind \in kinds

HasNext(s) == exec[s].phase = "body" /\ exec[s].fid < Len(Calls(s))
-----------------------------------------------------------------------------
Init ==
    /\ status = [w \in Workflow |-> "ABSENT"]
    /\ journal = {}
    /\ notes = <<>>
    /\ events = [w \in Workflow |-> [k \in Key |-> Nil]]
    /\ history = {}
    /\ streams = [w \in Workflow |-> [k \in Key |-> <<>>]]
    /\ exec = [s \in Slot |-> Idle]
    /\ starts = [w \in Workflow |-> 0]
    /\ faults = 0
    /\ seen = {}

\* run_workflow from outside a workflow: the row is inserted PENDING.
InitWorkflow(w) ==
    /\ status[w] = "ABSENT"
    /\ status' = [status EXCEPT ![w] = "PENDING"]
    /\ UNCHANGED <<journal, effects, exec, starts, faults, seen>>

\* execute_workflow, called right after the insert, after a start with an id that
\* has a row, by launch's recovery or by the admin server's recover_workflows: a
\* fresh context with its counter at 0.  Nothing in it reads the status: recovery
\* works through a list it read before, so w may have ended since, and a used id
\* is executed again whatever became of it.  Nor does it ask whether an execution
\* of w is in progress; without Overlap the operators of the system see to that.
Start(s, w, v) ==
    /\ exec[s].phase = "idle"
    /\ status[w] # "ABSENT"
    /\ Overlap \/ \A t \in Slot : exec[t].wf # w
    /\ starts[w] < MaxStarts
    /\ starts' = [starts EXCEPT ![w] = @ + 1]
    /\ exec' = [exec EXCEPT ![s] = [phase |-> "body", wf |-> w, ver |-> v,
                                    fid |-> 0, res |-> Ok(Nil)]]
    /\ UNCHANGED <<tables, faults, seen>>

\* The id is recorded: its row decides what the call returns.  The row keeps
\* an error's message but not its code.
ReplayStep(s) ==
    /\ HasNext(s)
    /\ LET i == exec[s].fid + 1 IN
       \E r \in Row(exec[s].wf, i) :
          \/ /\ ~NameMatches(r, Calls(s)[i])
             /\ Return(s, i, Err("UnexpectedStep"), FALSE)
          \/ /\ NameMatches(r, Calls(s)[i])
             /\ r.ok
             /\ Return(s, i, Ok(r.val), TRUE)
          \/ /\ NameMatches(r, Calls(s)[i])
             /\ ~r.ok
             /\ Return(s, i, Err("StepExecutionError"), TRUE)
    /\ UNCHANGED <<tables, starts, faults>>

\* (Mutant: the counter's value before the increment is used.)
GoLiveOldCounter(s) ==
    /\ HasNext(s)
    /\ exec' = [exec EXCEPT ![s] = [@ EXCEPT !.phase = "live"]]
    /\ UNCHANGED <<tables, starts, faults, seen>>

\* (Mutant: the look-up's answer is not used.)
GoLiveAlways(s) ==
    /\ HasNext(s)
    /\ exec' = [exec EXCEPT ![s] = [@ EXCEPT !.phase = "live",
                                            !.fid = exec[s].fid + 1]]
    /\ UNCHANGED <<tables, starts, faults, seen>>

\* The id is not recorded: the call takes it and goes live.
GoLive(s) ==
    /\ HasNext(s)
    /\ ~Recorded(exec[s].wf, exec[s].fid + 1)
    /\ exec' = [exec EXCEPT ![s] = [@ EXCEPT !.phase = "live",
                                            !.fid = exec[s].fid + 1]]
    /\ UNCHANGED <<tables, starts, faults, seen>>
-----------------------------------------------------------------------------
(* The live half of each operation, up to its record.                      *)

\* run_as_step: the closure runs and returns some value or some error.
RunStep(s) ==
    /\ AtLive(s, {"step"})
    /\ \/ \E v \in Value : Hold(s, Ok(v))
       \/ \E c \in StepError : Hold(s, Err(c))
    /\ UNCHANGED <<tables, starts>>

\* sleep: the outcome recorded is the wake-up deadline computed now.
SetDeadline(s) ==
    /\ AtLive(s, {"sleep"})
    /\ \E v \in Value : Hold(s, Ok(v))
    /\ UNCHANGED <<tables, starts>>

\* (Mutant: the foreign key error of an unknown destination is ignored.)
SendUnchecked(s) ==
    /\ AtLive(s, {"send"})
    /\ status[Calls(s)[exec[s].fid].dest] = "ABSENT"
    /\ Hold(s, Ok(Nil))
    /\ UNCHANGED <<tables, starts>>

\* The row that the system database's send inserts.
NewNote(s) ==
    LET op == Calls(s)[exec[s].fid] IN
    [dest |-> op.dest, topic |-> op.key, val |-> op.val,
     wf |-> exec[s].wf, fid |-> exec[s].fid, consumed |-> FALSE]

\* send: inserts a notification, unless the destination row does not exist
\* (foreign key); that error is returned without being recorded.
Send(s) ==
    /\ AtLive(s, {"send"})
    /\ LET op == Calls(s)[exec[s].fid] IN
       \/ /\ status[op.dest] # "ABSENT"
          /\ notes' = Append(notes, NewNote(s))
          /\ Reply(s, Ok(Nil))
       \/ /\ status[op.dest] = "ABSENT"
          /\ Return(s, exec[s].fid, Err("NonExistentWorkflowError"), FALSE)
          /\ UNCHANGED <<notes, faults>>
    /\ UNCHANGED <<status, journal, events, history, streams, starts>>

\* Unconsumed messages for the recv in slot s.  created_at_epoch_ms is the
\* senders' wall clock in milliseconds, so any of them may be the oldest.
Waiting(s) ==
    {n \in DOMAIN notes : /\ notes[n].dest = exec[s].wf
                          /\ notes[n].topic = Calls(s)[exec[s].fid].key
                          /\ ~notes[n].consumed}

\* (ConsumeNothing is a mutant: the row is returned but not marked.)
ConsumeNothing(n) == UNCHANGED notes
Consume(n) == notes' = [notes EXCEPT ![n].consumed = TRUE]

Message(n) == [Ok(notes[n].val) EXCEPT !.msg = n]

\* recv on SQLite: consume_notification selects and updates in one transaction.
RecvMessage(s) ==
    /\ ~SnapshotConsume
    /\ AtLive(s, {"recv"})
    /\ \E n \in Waiting(s) : Consume(n) /\ Reply(s, Message(n))
    /\ UNCHANGED <<status, journal, events, history, streams, starts>>

\* recv on Postgres: the CTE picks the oldest message from its snapshot ...
PickMessage(s) ==
    /\ SnapshotConsume
    /\ AtLive(s, {"recv"})
    /\ \E n \in Waiting(s) :
          exec' = [exec EXCEPT ![s] = [@ EXCEPT !.phase = "picked",
                                                !.res = Message(n)]]
    /\ UNCHANGED <<tables, starts, faults, seen>>

\* ... and the UPDATE takes that row whether or not it was consumed meanwhile.
ConsumePicked(s) ==
    /\ exec[s].phase = "picked"
    /\ Consume(exec[s].res.msg)
    /\ Reply(s, exec[s].res)
    /\ UNCHANGED <<status, journal, events, history, streams, starts>>

\* (Mutant: every poll restarts the timeout.)
RecvTimeoutRestarted(s) ==
    /\ AtLive(s, {"recv"})
    /\ Waiting(s) = {}
    /\ UNCHANGED vars

\* The poll finds nothing and the deadline has passed.  (A poll that finds
\* nothing before the deadline changes nothing.)
RecvTimeout(s) ==
    /\ AtLive(s, {"recv"})
    /\ Waiting(s) = {}
    /\ Hold(s, Err("TimeoutError"))
    /\ UNCHANGED <<tables, starts>>

\* The upsert of the current value.
\* (UpsertEventOnce is a mutant: ON CONFLICT DO NOTHING.)
UpsertEventOnce(w, k, v) ==
    events' = [events EXCEPT ![w][k] = IF @ = Nil THEN v ELSE @]
UpsertEvent(w, k, v) == events' = [events EXCEPT ![w][k] = v]

\* set_event: both upserts in one transaction.
SetEvent(s) ==
    /\ AtLive(s, {"setEvent"})
    /\ LET op == Calls(s)[exec[s].fid]
           w == exec[s].wf
           i == exec[s].fid
       IN /\ UpsertEvent(w, op.key, op.val)
          /\ history' =
               {h \in history : ~(h.wf = w /\ h.fid = i /\ h.key = op.key)}
               \cup {[wf |-> w, fid |-> i, key |-> op.key, val |-> op.val]}
    /\ Reply(s, Ok(Nil))
    /\ UNCHANGED <<status, journal, notes, streams, starts>>

\* get_event: the poll finds the event, or the deadline passes without one.
GetEvent(s) ==
    /\ AtLive(s, {"getEvent"})
    /\ LET op == Calls(s)[exec[s].fid] IN
       \/ /\ events[op.dest][op.key] # Nil
          /\ Hold(s, Ok(events[op.dest][op.key]))
       \/ /\ events[op.dest][op.key] = Nil
          /\ Hold(s, Err("TimeoutError"))
    /\ UNCHANGED <<tables, starts>>

\* (ClosedNever is a mutant: the sentinel is compared in a form no row has.)
ClosedNever(w, k) == FALSE
Closed(w, k) == \E n \in DOMAIN streams[w][k] : streams[w][k][n].val = Sentinel

\* write_stream and close_stream: first a query for the sentinel row, whose
\* error is not recorded ...
CheckStream(s) ==
    /\ AtLive(s, {"writeStream", "closeStream"})
    /\ LET op == Calls(s)[exec[s].fid] IN
       \/ /\ Closed(exec[s].wf, op.key)
          /\ Return(s, exec[s].fid, Err("StreamClosed"), FALSE)
       \/ /\ ~Closed(exec[s].wf, op.key)
          /\ exec' = [exec EXCEPT ![s] = [@ EXCEPT !.phase = "append"]]
          /\ UNCHANGED seen
    /\ UNCHANGED <<tables, starts, faults>>

\* ... then the INSERT at MAX(offset) + 1, a statement of its own.
AppendStream(s) ==
    /\ exec[s].phase = "append"
    /\ LET op == Calls(s)[exec[s].fid] IN
       streams' = [streams EXCEPT ![exec[s].wf][op.key] =
                     Append(@, [val |-> IF op.kind = "closeStream"
                                        THEN Sentinel ELSE op.val,
                                fid |-> exec[s].fid])]
    /\ Reply(s, Ok(Nil))
    /\ UNCHANGED <<status, journal, notes, events, history, starts>>
-----------------------------------------------------------------------------
(* Recording, the end of an execution, and failures.                       *)

\* The primary key of operation_outputs refuses a second row.
\* (NoConflict is a mutant: no primary key.)
NoConflict(w, i) == FALSE
Conflict(w, i) == Recorded(w, i)

\* (Mutant: ON CONFLICT DO NOTHING, the caller keeps the result it has.)
RecordStepQuietly(s) ==
    /\ exec[s].phase = "record"
    /\ LET w == exec[s].wf
           i == exec[s].fid
           r == exec[s].res
       IN journal' = IF Recorded(w, i) THEN journal ELSE journal \cup
             {[wf |-> w, fid |-> i, fname |-> FunctionName(Calls(s)[i]),
               ok |-> r.ok, val |-> r.val, msg |-> r.msg]}
    /\ Return(s, exec[s].fid, exec[s].res, TRUE)
    /\ UNCHANGED <<status, effects, starts, faults>>

\* record_step_output: a plain INSERT; the primary key (workflow_uuid,
\* function_id) refuses a second row.
RecordStep(s) ==
    /\ exec[s].phase = "record"
    /\ LET w == exec[s].wf
           i == exec[s].fid
           r == exec[s].res
       IN \/ /\ ~Conflict(w, i)
             /\ journal' = journal \cup
                  {[wf |-> w, fid |-> i, fname |-> FunctionName(Calls(s)[i]),
                    ok |-> r.ok, val |-> r.val, msg |-> r.msg]}
             /\ \/ Return(s, i, r, TRUE) /\ UNCHANGED faults
                \/ DbFault(s, i)
          \/ /\ Conflict(w, i)
             /\ Return(s, i, Err("ConflictingIDError"), FALSE)
             /\ UNCHANGED <<journal, faults>>
    /\ UNCHANGED <<status, effects, starts>>

\* record_workflow_result: one UPDATE, which spares a CANCELLED row.
RecordResult(w, st) ==
    status' = [status EXCEPT ![w] =
                 IF @ = "CANCELLED" /\ st \in {"SUCCESS", "ERROR"}
                 THEN @ ELSE st]

\* The body has returned (Ok at its end, or the error that left it).
BodyDone(s) == \/ exec[s].phase = "body" /\ exec[s].fid = Len(Calls(s))
               \/ exec[s].phase = "failed"

Finish(s) ==
    /\ BodyDone(s)
    /\ RecordResult(exec[s].wf,
         IF exec[s].phase = "body" THEN "SUCCESS"
         ELSE IF exec[s].res.code = "WorkflowCancelled" THEN "CANCELLED"
         ELSE "ERROR")
    /\ exec' = [exec EXCEPT ![s] = Idle]
    /\ UNCHANGED <<journal, effects, starts, faults, seen>>

\* A database call fails before it takes effect.
DbFails(s) ==
    /\ \/ HasNext(s) /\ DbFault(s, exec[s].fid + 1)
       \/ /\ \/ AtLive(s, Kind \ {"step", "sleep"})
             \/ exec[s].phase \in {"picked", "append", "record"}
          /\ DbFault(s, exec[s].fid)
    /\ UNCHANGED <<tables, starts>>

\* Bound: the last execution that MaxStarts allows is not killed, so that
\* every killed execution can be recovered.
Restartable(s) == exec[s].phase # "idle" /\ starts[exec[s].wf] < MaxStarts

\* record_workflow_result fails: the execution is over, the row unchanged.
FinishFails(s) ==
    /\ BodyDone(s)
    /\ Restartable(s)
    /\ faults < MaxFaults
    /\ faults' = faults + 1
    /\ exec' = [exec EXCEPT ![s] = Idle]
    /\ UNCHANGED <<tables, starts, seen>>

\* The process dies, or the task that runs the body does.
Crash(s) ==
    /\ Restartable(s)
    /\ exec' = [exec EXCEPT ![s] = Idle]
    /\ UNCHANGED <<tables, starts, faults, seen>>

Progress(s) ==
    \/ ReplayStep(s) \/ GoLive(s)
    \/ RunStep(s) \/ SetDeadline(s) \/ Send(s)
    \/ RecvMessage(s) \/ PickMessage(s) \/ ConsumePicked(s) \/ RecvTimeout(s)
    \/ SetEvent(s) \/ GetEvent(s)
    \/ CheckStream(s) \/ AppendStream(s)
    \/ RecordStep(s) \/ Finish(s)

Next ==
    \/ \E w \in Workflow : InitWorkflow(w)
    \/ \E s \in Slot, w \in Workflow, v \in Version : Start(s, w, v)
    \/ \E s \in Slot : Progress(s) \/ DbFails(s) \/ FinishFails(s) \/ Crash(s)

Spec == Init /\ [][Next]_vars

\* A live process keeps polling the runtime's futures, and somebody restarts a
\* workflow that nobody runs.
Fairness ==
    /\ \A s \in Slot : WF_vars(Progress(s))
    /\ \A w \in Workflow :
          WF_vars(\E s \in Slot, v \in Version : Start(s, w, v))

FairSpec == Spec /\ Fairness
-----------------------------------------------------------------------------
(* Properties.                                                             *)

Recv(f) == f = <<"recv", Nil>>

JournalRow == [wf : Workflow, fid : Nat \ {0}, fname : FName, ok : BOOLEAN,
               val : Value \cup {Nil}, msg : Nat]
Note == [dest : Workflow, topic : Key, val : Value, wf : Workflow,
         fid : Nat \ {0}, consumed : BOOLEAN]
HistoryRow == [wf : Workflow, fid : Nat \ {0}, key : Key, val : Value]
StreamEntry == [val : Value \cup {Sentinel}, fid : Nat \ {0}]
Execution == [phase : Phase, wf : Workflow \cup {Nil},
              ver : Version \cup {Nil}, fid : Nat, res : Result]
Observation == [wf : Workflow, fid : Nat \ {0}, fname : FName, ok : BOOLEAN,
                val : Value \cup {Nil}, code : ErrorCode \cup {"None"},
                recorded : BOOLEAN]

\* The tables.
TablesOK ==
    /\ status \in [Workflow -> Status]
    /\ journal \subseteq JournalRow
    /\ notes \in Seq(Note)
    /\ events \in [Workflow -> [Key -> Value \cup {Nil}]]
    /\ history \subseteq HistoryRow
    /\ streams \in [Workflow -> [Key -> Seq(StreamEntry)]]

\* An execution in progress is inside its body.
Running(e) ==
    e.phase # "idle" =>
       /\ e.wf \in Workflow
       /\ e.ver \in Version
       /\ e.fid \in 0 .. Len(Body[e.ver][e.wf])
       /\ e.phase # "body" => e.fid # 0

\* The contexts, and what they have been told.
ContextsOK ==
    /\ exec \in [Slot -> Execution]
    /\ \A s \in Slot : Running(exec[s])
    /\ seen \subseteq Observation

\* Every variable keeps its type, and the counter of every execution stays
\* within the calls of the body it runs.
TypeOK ==
    /\ TablesOK
    /\ ContextsOK
    /\ starts \in [Workflow -> Nat]
    /\ faults \in Nat

\* Whatever an operation returned out of the journal, at its first execution or
\* at any replay, by this execution or by another one running at the same time,
\* it is the same: the read-before-run, the INSERT that refuses a second row
\* and the error its loser gets leave no other way out.
ReplayAgrees ==
    \A a, b \in seen :
       a.recorded /\ b.recorded /\ a.wf = b.wf /\ a.fid = b.fid =>
          a.fname = b.fname /\ a.ok = b.ok /\ a.val = b.val

\* Bodies let the runtime's own errors (those no row records) through.
WellBehaved ==
    \A v \in Version, w \in Workflow : \A i \in DOMAIN Body[v][w] :
       Body[v][w][i].catches \cap UnrecordedCode = {}

\* The journal of a workflow is the gap-free beginning of its run: no row is
\* written while an earlier call has none, not even by an execution that lost
\* a race or a database reply.
JournalContiguous ==
    WellBehaved =>
       \A r \in journal : r.fid > 1 => Recorded(r.wf, r.fid - 1)

\* Ids of the calls of w whose side effect is in some table.
Effects(w) ==
    {notes[n].fid : n \in {m \in DOMAIN notes : notes[m].wf = w}}
    \cup {h.fid : h \in {g \in history : g.wf = w}}
    \cup UNION {{streams[w][k][n].fid : n \in DOMAIN streams[w][k]} : k \in Key}

\* No side effect runs ahead of the journal: when a message, an event or a
\* stream entry of call i exists, call i - 1 has its outcome on record.
EffectsFollowJournal ==
    WellBehaved =>
       \A w \in Workflow : \A i \in Effects(w) : i > 1 => Recorded(w, i - 1)

\* A row that says an operation succeeded was written after its effect: the
\* message, event or stream entry is there, the received message is consumed.
JournaledEffectsHappened ==
    \A r \in journal : r.ok =>
       /\ r.fname \in {<<k, Nil>> : k \in {"send", "setEvent", "writeStream",
                                           "closeStream"}}
             => r.fid \in Effects(r.wf)
       /\ Recv(r.fname)
             => r.msg \in DOMAIN notes /\ notes[r.msg].consumed

\* A send leaves at most one copy of its message per execution of its
\* workflow, and so exactly one when nothing was killed.
SendCopiesBounded ==
    \A w \in Workflow : \A i \in Effects(w) :
       Cardinality({n \in DOMAIN notes : notes[n].wf = w /\ notes[n].fid = i})
          <= starts[w]

\* No message is the recorded outcome of two recv calls.  On Postgres two
\* concurrent executions may both be handed one message: there it takes the
\* journal's order and its primary key to keep one of them from recording it.
MessageJournaledOnce ==
    WellBehaved \/ ~SnapshotConsume =>
       \A a, b \in journal : a.msg # 0 /\ a.msg = b.msg => a = b

\* SUCCESS is recorded only of a run that some version's body explains call by
\* call, each one recorded under its name, in error only where the body goes
\* on after errors.
SuccessIsExplained ==
    WellBehaved =>
       \A w \in Workflow : status[w] = "SUCCESS" =>
          \E v \in Version : \A i \in DOMAIN Body[v][w] :
             \E r \in Row(w, i) :
                /\ r.fname = FunctionName(Body[v][w][i])
                /\ r.ok \/ Body[v][w][i].catches # {}

\* One execution at a time, of bodies that let the runtime's own errors through:
\* a stream holds its entries in the order of the calls that wrote them, and
\* nothing after the entry that closes it.
StreamWellFormed ==
    \A w \in Workflow, k \in Key : \A m, n \in DOMAIN streams[w][k] :
       m < n => /\ streams[w][k][m].fid <= streams[w][k][n].fid
                /\ streams[w][k][m].val # Sentinel

\* Under the same conditions: the current value of an event is the one its
\* history shows for the latest call (what fork_workflow rebuilds it from).
EventIsLatest ==
    \A h \in history :
       \/ events[h.wf][h.key] = h.val
       \/ \E g \in history : g.wf = h.wf /\ g.key = h.key /\ g.fid > h.fid

\* The function of w is the same in every version deployed.
SameCode(w) == \A u, v \in Version : Body[u][w] = Body[v][w]

\* What may make a replay of a complete run fail: a database call, or an error
\* the body had caught by its code, which the journal does not keep.
ReplayMayFail(s) ==
    \/ exec[s].res.code = "Database"
    \/ /\ exec[s].res.code = "StepExecutionError"
       /\ Calls(s)[exec[s].fid].catches # {}

\* One execution at a time, of bodies that let the runtime's own errors through
\* and whose code did not change: record_workflow_result protects CANCELLED only
\* and an ended workflow may be executed again, but that execution finds every
\* call on record and takes SUCCESS away only for one of those two reasons.
SuccessIsKept ==
    [][\A s \in Slot :
          /\ WellBehaved
          /\ exec[s].phase # "idle"
          /\ SameCode(exec[s].wf)
          /\ status[exec[s].wf] = "SUCCESS"
          /\ status'[exec[s].wf] # "SUCCESS"
          => ReplayMayFail(s)]_vars

Outcomes ==
    INSTANCE OutcomeOnce WITH
       decided <- {[wf |-> r.wf, fid |-> r.fid, fname |-> r.fname,
                    ok |-> r.ok, val |-> r.val] : r \in journal},
       observed <- {[wf |-> r.wf, fid |-> r.fid, fname |-> r.fname,
                     ok |-> r.ok, val |-> r.val] :
                    r \in {q \in seen : q.recorded}}

\* The journal, with its concurrent, crashing and replaying executions,
\* implements OutcomeOnce.
ImplementsOutcomeOnce == Outcomes!Spec

\* However often its executions are killed, a started workflow reaches a
\* terminal status.
EventuallyTerminal ==
    \A w \in Workflow : status[w] = "PENDING" ~> status[w] \in Terminal
=============================================================================
