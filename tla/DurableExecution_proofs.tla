---------------------- MODULE DurableExecution_proofs ----------------------
(***************************************************************************)
(* Theorems about DurableExecution, for every set of workflows, slots and  *)
(* versions, every body and every bound.                                   *)
(***************************************************************************)
EXTENDS DurableExecution, FiniteSetTheorems, TLAPS
-----------------------------------------------------------------------------
(* Typing.                                                                 *)

\* The call an execution in progress is at, or at next, is an operation.
LEMMA CallType ==
    ASSUME NEW s \in Slot, ContextsOK, exec[s].phase # "idle"
    PROVE  /\ Calls(s) \in Seq(Op)
           /\ exec[s].wf \in Workflow
           /\ exec[s].ver \in Version
           /\ exec[s].fid \in 0 .. Len(Calls(s))
           /\ exec[s].res \in Result
           /\ exec[s].phase # "body" => exec[s].fid \in 1 .. Len(Calls(s))
           /\ \A i \in 1 .. Len(Calls(s)) :
                 /\ Calls(s)[i] \in Op
                 /\ FunctionName(Calls(s)[i]) \in FName
<1>1. exec[s] \in Execution /\ Running(exec[s])
  BY DEF ContextsOK
<1>2. /\ exec[s].wf \in Workflow
      /\ exec[s].ver \in Version
      /\ exec[s].fid \in 0 .. Len(Calls(s))
      /\ exec[s].phase # "body" => exec[s].fid # 0
      /\ exec[s].res \in Result
  BY <1>1 DEF Running, Execution, Calls
<1>3. Calls(s) \in Seq(Op)
  BY <1>2, BodyAssumption DEF Calls
<1>4. ASSUME NEW i \in 1 .. Len(Calls(s))
      PROVE  Calls(s)[i] \in Op /\ FunctionName(Calls(s)[i]) \in FName
  <2>1. Calls(s)[i] \in Op
    BY <1>3
  <2>2. /\ Calls(s)[i].kind \in Kind
        /\ Calls(s)[i].key \in Key
    BY <2>1 DEF Op
  <2>3. QED BY <2>1, <2>2 DEF FunctionName, FName, Kind
<1>5. QED BY <1>2, <1>3, <1>4

\* Outcomes are results.
LEMMA OutcomeType ==
    /\ \A v \in Value \cup {Nil} : Ok(v) \in Result
    /\ \A c \in ErrorCode : Err(c) \in Result
    /\ \A v \in Value \cup {Nil}, n \in Nat : [Ok(v) EXCEPT !.msg = n] \in Result
    /\ {"Database", "UnexpectedStep", "NonExistentWorkflowError",
        "StreamClosed", "ConflictingIDError", "TimeoutError",
        "StepExecutionError"} \subseteq ErrorCode
    /\ StepError \subseteq ErrorCode
BY DEF Ok, Err, Result, ErrorCode, UnrecordedCode

\* A slot may take any context that is well formed.
LEMMA ContextUpdate ==
    ASSUME NEW s \in Slot, ContextsOK,
           NEW e \in Execution, Running(e),
           exec' = [exec EXCEPT ![s] = e],
           seen' \subseteq Observation
    PROVE  ContextsOK'
<1>1. exec' \in [Slot -> Execution]
  BY DEF ContextsOK
<1>2. \A t \in Slot : exec'[t] = IF t = s THEN e ELSE exec[t]
  BY DEF ContextsOK
<1>3. \A t \in Slot : Running(exec'[t])
  BY <1>2 DEF ContextsOK
<1>4. QED BY <1>1, <1>3 DEF ContextsOK

\* A call that returns leaves the contexts well formed.
LEMMA ReturnType ==
    ASSUME NEW s \in Slot, ContextsOK, exec[s].phase # "idle",
           NEW i \in 1 .. Len(Calls(s)), NEW r \in Result,
           NEW recorded \in BOOLEAN,
           Return(s, i, r, recorded)
    PROVE  ContextsOK'
<1> DEFINE e == [exec[s] EXCEPT
                   !.phase = IF r.ok \/ r.code \in Calls(s)[i].catches
                             THEN "body" ELSE "failed",
                   !.fid = i, !.res = r]
           o == [wf |-> exec[s].wf, fid |-> i,
                 fname |-> FunctionName(Calls(s)[i]), ok |-> r.ok,
                 val |-> r.val, code |-> r.code, recorded |-> recorded]
<1>1. exec' = [exec EXCEPT ![s] = e] /\ seen' = seen \cup {o}
  BY DEF Return, Resume
<1>2. e \in Execution /\ Running(e)
  <2>1. exec[s] \in Execution
    BY DEF ContextsOK
  <2>2. /\ i \in Nat /\ i # 0
        /\ exec[s].wf \in Workflow /\ exec[s].ver \in Version
        /\ i \in 0 .. Len(Calls(s))
    BY CallType
  <2>3. /\ e.phase \in Phase /\ e.fid = i /\ e.res = r
        /\ e.wf = exec[s].wf /\ e.ver = exec[s].ver
        /\ e \in Execution
    BY <2>1, <2>2 DEF Execution, Phase
  <2>4. Running(e)
    BY <2>2, <2>3 DEF Running, Calls
  <2>5. QED BY <2>3, <2>4
<1>3. o \in Observation
  BY CallType DEF Observation, Result
<1>4. seen' \subseteq Observation
  BY <1>1, <1>3 DEF ContextsOK
<1>5. QED BY <1>1, <1>2, <1>4, ContextUpdate

\* So does a failed database call ...
LEMMA DbFaultType ==
    ASSUME NEW s \in Slot, ContextsOK, exec[s].phase # "idle", faults \in Nat,
           NEW i \in 1 .. Len(Calls(s)), DbFault(s, i)
    PROVE  ContextsOK' /\ faults' \in Nat
<1>1. Err("Database") \in Result
  BY OutcomeType
<1>2. Return(s, i, Err("Database"), FALSE) /\ faults' = faults + 1
  BY DEF DbFault
<1>3. FALSE \in BOOLEAN
  OBVIOUS
<1>4. ContextsOK'
  BY <1>1, <1>2, <1>3, ReturnType, Zenon
<1>5. QED BY <1>2, <1>4

\* ... an outcome that waits to be recorded ...
LEMMA HoldType ==
    ASSUME NEW s \in Slot, ContextsOK, faults \in Nat,
           exec[s].phase \notin {"idle", "body"},
           NEW r \in Result, Hold(s, r)
    PROVE  ContextsOK' /\ faults' \in Nat
<1> DEFINE e == [exec[s] EXCEPT !.phase = "record", !.res = r]
<1>1. exec' = [exec EXCEPT ![s] = e] /\ seen' = seen /\ faults' = faults
  BY DEF Hold
<1>2. e \in Execution /\ Running(e)
  BY DEF ContextsOK, Execution, Running, Phase
<1>3. QED BY <1>1, <1>2, ContextUpdate DEF ContextsOK

\* ... and a reply, whether it arrives or not.
LEMMA ReplyType ==
    ASSUME NEW s \in Slot, ContextsOK, faults \in Nat,
           exec[s].phase \notin {"idle", "body"},
           NEW r \in Result, Reply(s, r)
    PROVE  ContextsOK' /\ faults' \in Nat
<1>1. exec[s].fid \in 1 .. Len(Calls(s))
  BY CallType
<1>2. QED BY <1>1, HoldType, DbFaultType DEF Reply

\* Every step keeps the types: one proof step per action.
LEMMA TypeStep == TypeOK /\ [Next]_vars => TypeOK'
<1> SUFFICES ASSUME TypeOK, [Next]_vars PROVE TypeOK'
  OBVIOUS
<1> USE DEF effects, tables
<1>t. /\ TablesOK /\ ContextsOK
      /\ starts \in [Workflow -> Nat] /\ faults \in Nat
  BY DEF TypeOK
<1>1. ASSUME NEW w \in Workflow, InitWorkflow(w) PROVE TypeOK'
  BY <1>1, <1>t DEF InitWorkflow, TypeOK, TablesOK, ContextsOK, Status
<1>2. ASSUME NEW s \in Slot, NEW w \in Workflow, NEW v \in Version,
             Start(s, w, v)
      PROVE  TypeOK'
  <2> DEFINE e == [phase |-> "body", wf |-> w, ver |-> v, fid |-> 0,
                   res |-> Ok(Nil)]
  <2>1. Body[v][w] \in Seq(Op)
    BY BodyAssumption
  <2>2. e \in Execution /\ Running(e)
    BY <2>1, OutcomeType DEF Execution, Running, Phase
  <2>3. ContextsOK'
    BY <1>2, <1>t, <2>2, ContextUpdate DEF Start, ContextsOK
  <2>4. TablesOK' /\ starts' \in [Workflow -> Nat] /\ faults' \in Nat
    BY <1>2, <1>t DEF Start, TablesOK
  <2>5. QED BY <2>3, <2>4 DEF TypeOK
<1>3. ASSUME NEW s \in Slot, ReplayStep(s) PROVE TypeOK'
  <2>1. /\ exec[s].phase = "body"
        /\ exec[s].fid + 1 \in 1 .. Len(Calls(s))
    BY <1>3, <1>t, CallType DEF ReplayStep, HasNext
  <2>2. PICK r \in Row(exec[s].wf, exec[s].fid + 1) :
          \/ Return(s, exec[s].fid + 1, Err("UnexpectedStep"), FALSE)
          \/ r.ok /\ Return(s, exec[s].fid + 1, Ok(r.val), TRUE)
          \/ Return(s, exec[s].fid + 1, Err("StepExecutionError"), TRUE)
    BY <1>3 DEF ReplayStep
  <2>3. r.val \in Value \cup {Nil}
    BY <1>t DEF Row, TablesOK, JournalRow
  <2>4. \E x \in Result, rec \in BOOLEAN : Return(s, exec[s].fid + 1, x, rec)
    BY <2>2, <2>3, OutcomeType, Zenon
  <2>5. ContextsOK'
    BY <2>1, <2>4, <1>t, ReturnType, Zenon
  <2>6. QED BY <1>3, <1>t, <2>5 DEF ReplayStep, TypeOK, TablesOK
<1>4. ASSUME NEW s \in Slot, GoLive(s) PROVE TypeOK'
  <2> DEFINE e == [exec[s] EXCEPT !.phase = "live", !.fid = exec[s].fid + 1]
  <2>1. /\ exec[s].phase = "body"
        /\ exec[s].fid + 1 \in 1 .. Len(Calls(s))
    BY <1>4, <1>t, CallType DEF GoLive, HasNext
  <2>2. /\ exec[s] \in Execution
        /\ exec' = [exec EXCEPT ![s] = e]
    BY <1>4, <1>t DEF GoLive, ContextsOK
  <2>3. e \in Execution
    <3>1. exec[s].fid + 1 \in Nat
      BY <2>2 DEF Execution
    <3>2. QED BY <2>2, <3>1 DEF Execution, Phase
  <2>4. /\ e.wf = exec[s].wf /\ e.ver = exec[s].ver
        /\ e.fid = exec[s].fid + 1 /\ e.phase = "live"
    BY <2>2 DEF Execution
  <2>5. exec[s].wf \in Workflow /\ exec[s].ver \in Version
    BY <2>1, <1>t, CallType
  <2>6. Running(e)
    BY <2>1, <2>4, <2>5 DEF Running, Calls
  <2>7. ContextsOK'
    BY <1>4, <1>t, <2>2, <2>3, <2>6, ContextUpdate DEF GoLive, ContextsOK
  <2>8. QED BY <1>4, <1>t, <2>7 DEF GoLive, TypeOK, TablesOK
<1>5. ASSUME NEW s \in Slot, RunStep(s) \/ SetDeadline(s) PROVE TypeOK'
  <2>1. \E r \in Result : Hold(s, r)
    BY <1>5, OutcomeType DEF RunStep, SetDeadline
  <2>2. exec[s].phase \notin {"idle", "body"}
    BY <1>5 DEF RunStep, SetDeadline, AtLive
  <2>3. ContextsOK' /\ faults' \in Nat
    BY <1>t, <2>1, <2>2, HoldType
  <2>4. QED BY <1>5, <1>t, <2>3 DEF RunStep, SetDeadline, TypeOK, TablesOK
<1>6. ASSUME NEW s \in Slot, Send(s) PROVE TypeOK'
  <2> DEFINE op == Calls(s)[exec[s].fid]
  <2>1. /\ exec[s].phase \notin {"idle", "body"}
        /\ exec[s].fid \in 1 .. Len(Calls(s))
        /\ op \in Op
        /\ exec[s].wf \in Workflow
    BY <1>6, <1>t, CallType DEF Send, AtLive
  <2>2. CASE notes' = Append(notes, NewNote(s)) /\ Reply(s, Ok(Nil))
    <3>1. NewNote(s) \in Note
      BY <2>1 DEF NewNote, Note, Op
    <3>2. notes' \in Seq(Note)
      BY <2>2, <3>1, <1>t DEF TablesOK
    <3>3. ContextsOK' /\ faults' \in Nat
      BY <2>1, <2>2, <1>t, OutcomeType, ReplyType
    <3>4. QED BY <1>6, <1>t, <3>2, <3>3 DEF Send, TypeOK, TablesOK
  <2>3. CASE /\ Return(s, exec[s].fid, Err("NonExistentWorkflowError"), FALSE)
             /\ UNCHANGED <<notes, faults>>
    <3>1. Err("NonExistentWorkflowError") \in Result /\ FALSE \in BOOLEAN
      BY OutcomeType
    <3>2. ContextsOK'
      BY <2>1, <2>3, <3>1, <1>t, ReturnType, Zenon
    <3>3. QED BY <1>6, <1>t, <2>3, <3>2 DEF Send, TypeOK, TablesOK
  <2>4. QED BY <1>6, <2>2, <2>3 DEF Send
<1>7. ASSUME NEW s \in Slot, NEW n \in Nat, NEW r \in Result,
             exec[s].phase \notin {"idle", "body"}, Consume(n), Reply(s, r),
             UNCHANGED <<status, journal, events, history, streams, starts>>
      PROVE  TypeOK'
  <2>1. notes' \in Seq(Note)
    <3>1. notes' = [notes EXCEPT ![n].consumed = TRUE] /\ notes \in Seq(Note)
      BY <1>7, <1>t DEF Consume, TablesOK
    <3>2. CASE n \in 1 .. Len(notes)
      <4>1. notes[n] \in Note
        BY <3>1, <3>2
      <4>2. [notes[n] EXCEPT !.consumed = TRUE] \in Note
        BY <4>1 DEF Note
      <4>3. QED BY <3>1, <3>2, <4>2
    <3>3. CASE n \notin 1 .. Len(notes)
      <4>1. DOMAIN notes = 1 .. Len(notes) /\ notes = [j \in DOMAIN notes |-> notes[j]]
        BY <3>1
      <4>2. notes' = [j \in DOMAIN notes |-> notes[j]]
        BY <3>1, <3>3, <4>1, Zenon
      <4>3. QED BY <3>1, <4>1, <4>2
    <3>4. QED BY <3>2, <3>3
  <2>2. ContextsOK' /\ faults' \in Nat
    BY <1>7, <1>t, ReplyType
  <2>3. QED BY <1>7, <1>t, <2>1, <2>2 DEF TypeOK, TablesOK
<1>8. ASSUME NEW s \in Slot, NEW n \in Waiting(s)
      PROVE  n \in Nat /\ Message(n) \in Result
  <2>1. n \in 1 .. Len(notes) /\ notes[n] \in Note
    BY <1>t DEF Waiting, TablesOK
  <2>2. QED BY <2>1, OutcomeType DEF Message, Note
<1>9. ASSUME NEW s \in Slot, RecvMessage(s) PROVE TypeOK'
  <2>1. PICK n \in Waiting(s) : Consume(n) /\ Reply(s, Message(n))
    BY <1>9 DEF RecvMessage
  <2>2. QED BY <1>9, <2>1, <1>7, <1>8 DEF RecvMessage, AtLive
<1>10. ASSUME NEW s \in Slot, PickMessage(s) PROVE TypeOK'
  <2>1. PICK n \in Waiting(s) :
          exec' = [exec EXCEPT ![s] = [exec[s] EXCEPT !.phase = "picked",
                                                      !.res = Message(n)]]
    BY <1>10 DEF PickMessage
  <2> DEFINE e == [exec[s] EXCEPT !.phase = "picked", !.res = Message(n)]
  <2>2. exec[s].phase = "live" /\ Message(n) \in Result
    BY <1>10, <1>8 DEF PickMessage, AtLive
  <2>3. e \in Execution /\ Running(e)
    BY <2>2, <1>t DEF ContextsOK, Execution, Running, Phase
  <2>4. ContextsOK'
    BY <1>10, <1>t, <2>1, <2>3, ContextUpdate DEF PickMessage, ContextsOK
  <2>5. QED BY <1>10, <1>t, <2>4 DEF PickMessage, TypeOK, TablesOK
<1>11. ASSUME NEW s \in Slot, ConsumePicked(s) PROVE TypeOK'
  <2>1. exec[s].res \in Result /\ exec[s].res.msg \in Nat
    BY <1>11, <1>t, CallType DEF ConsumePicked, Result
  <2>2. QED BY <1>11, <2>1, <1>7 DEF ConsumePicked
<1>12. ASSUME NEW s \in Slot, RecvTimeout(s) \/ GetEvent(s) PROVE TypeOK'
  <2>1. /\ exec[s].phase = "live"
        /\ exec[s].fid \in 1 .. Len(Calls(s))
        /\ Calls(s)[exec[s].fid] \in Op
    BY <1>12, <1>t, CallType DEF RecvTimeout, GetEvent, AtLive
  <2>2. \E r \in Result : Hold(s, r)
    <3>1. Calls(s)[exec[s].fid].dest \in Workflow
          /\ Calls(s)[exec[s].fid].key \in Key
      BY <2>1 DEF Op
    <3>2. events[Calls(s)[exec[s].fid].dest][Calls(s)[exec[s].fid].key]
             \in Value \cup {Nil}
      BY <3>1, <1>t DEF TablesOK
    <3>3. QED BY <1>12, <3>2, OutcomeType DEF RecvTimeout, GetEvent
  <2>3. ContextsOK' /\ faults' \in Nat
    BY <1>t, <2>1, <2>2, HoldType
  <2>4. QED BY <1>12, <1>t, <2>3 DEF RecvTimeout, GetEvent, TypeOK, TablesOK
<1>13. ASSUME NEW s \in Slot, SetEvent(s) PROVE TypeOK'
  <2> DEFINE op == Calls(s)[exec[s].fid]
             h == [wf |-> exec[s].wf, fid |-> exec[s].fid, key |-> op.key,
                   val |-> op.val]
  <2>1. /\ exec[s].phase = "live"
        /\ exec[s].fid \in 1 .. Len(Calls(s))
        /\ op \in Op
        /\ exec[s].wf \in Workflow
    BY <1>13, <1>t, CallType DEF SetEvent, AtLive
  <2>2. op.key \in Key /\ op.val \in Value
    BY <2>1 DEF Op
  <2>3. events' \in [Workflow -> [Key -> Value \cup {Nil}]]
    BY <1>13, <1>t, <2>1, <2>2 DEF SetEvent, UpsertEvent, TablesOK
  <2>4. h \in HistoryRow
    BY <2>1, <2>2 DEF HistoryRow
  <2>5. history' \subseteq HistoryRow
    BY <1>13, <1>t, <2>4 DEF SetEvent, TablesOK
  <2>6. ContextsOK' /\ faults' \in Nat
    BY <1>13, <1>t, <2>1, OutcomeType, ReplyType DEF SetEvent
  <2>7. QED BY <1>13, <1>t, <2>3, <2>5, <2>6 DEF SetEvent, TypeOK, TablesOK
<1>14. ASSUME NEW s \in Slot, CheckStream(s) PROVE TypeOK'
  <2>1. exec[s].phase = "live" /\ exec[s].fid \in 1 .. Len(Calls(s))
    BY <1>14, <1>t, CallType DEF CheckStream, AtLive
  <2>2. CASE Return(s, exec[s].fid, Err("StreamClosed"), FALSE)
    <3>1. Err("StreamClosed") \in Result /\ FALSE \in BOOLEAN
      BY OutcomeType
    <3>2. ContextsOK'
      BY <2>1, <2>2, <3>1, <1>t, ReturnType, Zenon
    <3>3. QED BY <1>14, <1>t, <3>2 DEF CheckStream, TypeOK, TablesOK
  <2>3. CASE /\ exec' = [exec EXCEPT ![s] = [exec[s] EXCEPT !.phase = "append"]]
             /\ UNCHANGED seen
    <3> DEFINE e == [exec[s] EXCEPT !.phase = "append"]
    <3>1. e \in Execution /\ Running(e)
      BY <2>1, <1>t DEF ContextsOK, Execution, Running, Phase
    <3>2. ContextsOK'
      BY <1>t, <2>3, <3>1, ContextUpdate DEF ContextsOK
    <3>3. QED BY <1>14, <1>t, <3>2 DEF CheckStream, TypeOK, TablesOK
  <2>4. QED BY <1>14, <2>2, <2>3 DEF CheckStream
<1>15. ASSUME NEW s \in Slot, AppendStream(s) PROVE TypeOK'
  <2> DEFINE op == Calls(s)[exec[s].fid]
             x == [val |-> IF op.kind = "closeStream" THEN Sentinel ELSE op.val,
                   fid |-> exec[s].fid]
             w == exec[s].wf
  <2>1. /\ exec[s].phase = "append"
        /\ exec[s].fid \in 1 .. Len(Calls(s))
        /\ op \in Op
        /\ w \in Workflow
    BY <1>15, <1>t, CallType DEF AppendStream
  <2>2. op.key \in Key /\ op.val \in Value
    BY <2>1 DEF Op
  <2>3. x \in StreamEntry
    BY <2>1, <2>2 DEF StreamEntry
  <2>4. Append(streams[w][op.key], x) \in Seq(StreamEntry)
    BY <1>t, <2>1, <2>2, <2>3 DEF TablesOK
  <2>5. streams' \in [Workflow -> [Key -> Seq(StreamEntry)]]
    BY <1>15, <1>t, <2>1, <2>2, <2>4 DEF AppendStream, TablesOK
  <2>6. ContextsOK' /\ faults' \in Nat
    BY <1>15, <1>t, <2>1, OutcomeType, ReplyType DEF AppendStream
  <2>7. QED BY <1>15, <1>t, <2>5, <2>6 DEF AppendStream, TypeOK, TablesOK
<1>16. ASSUME NEW s \in Slot, RecordStep(s) PROVE TypeOK'
  <2> DEFINE w == exec[s].wf
             i == exec[s].fid
             r == exec[s].res
             row == [wf |-> w, fid |-> i, fname |-> FunctionName(Calls(s)[i]),
                     ok |-> r.ok, val |-> r.val, msg |-> r.msg]
  <2>1. /\ exec[s].phase = "record"
        /\ i \in 1 .. Len(Calls(s))
        /\ w \in Workflow /\ r \in Result
        /\ FunctionName(Calls(s)[i]) \in FName
    BY <1>16, <1>t, CallType DEF RecordStep
  <2>2. row \in JournalRow
    BY <2>1 DEF JournalRow, Result
  <2>3. journal' \subseteq JournalRow
    BY <1>16, <1>t, <2>2 DEF RecordStep, TablesOK
  <2>4. ContextsOK' /\ faults' \in Nat
    <3>1. CASE Return(s, i, r, TRUE) /\ UNCHANGED faults
      <4>1. TRUE \in BOOLEAN
        OBVIOUS
      <4>2. ContextsOK'
        BY <2>1, <3>1, <4>1, <1>t, ReturnType, Zenon
      <4>3. QED BY <3>1, <4>2, <1>t
    <3>2. CASE DbFault(s, i)
      BY <2>1, <3>2, <1>t, DbFaultType
    <3>3. CASE Return(s, i, Err("ConflictingIDError"), FALSE) /\ UNCHANGED faults
      <4>1. Err("ConflictingIDError") \in Result /\ FALSE \in BOOLEAN
        BY OutcomeType
      <4>2. ContextsOK'
        BY <2>1, <3>3, <4>1, <1>t, ReturnType, Zenon
      <4>3. QED BY <3>3, <4>2, <1>t
    <3>4. QED BY <1>16, <3>1, <3>2, <3>3 DEF RecordStep
  <2>5. QED BY <1>16, <1>t, <2>3, <2>4 DEF RecordStep, TypeOK, TablesOK
<1>17. Idle \in Execution /\ Running(Idle)
  BY OutcomeType DEF Idle, Execution, Running, Phase
<1>18. ASSUME NEW s \in Slot, Finish(s) PROVE TypeOK'
  <2>1. ContextsOK'
    BY <1>18, <1>17, <1>t, ContextUpdate DEF Finish, ContextsOK
  <2>2. status' \in [Workflow -> Status]
    BY <1>18, <1>t DEF Finish, RecordResult, TablesOK, Status, Terminal
  <2>3. QED BY <1>18, <1>t, <2>1, <2>2 DEF Finish, TypeOK, TablesOK
<1>19. ASSUME NEW s \in Slot, FinishFails(s) \/ Crash(s) PROVE TypeOK'
  <2>1. ContextsOK'
    BY <1>19, <1>17, <1>t, ContextUpdate DEF FinishFails, Crash, ContextsOK
  <2>2. QED BY <1>19, <1>t, <2>1 DEF FinishFails, Crash, TypeOK, TablesOK
<1>20. ASSUME NEW s \in Slot, DbFails(s) PROVE TypeOK'
  <2>1. \E i \in 1 .. Len(Calls(s)) : DbFault(s, i)
    BY <1>20, <1>t, CallType DEF DbFails, HasNext, AtLive
  <2>2. exec[s].phase # "idle"
    BY <1>20 DEF DbFails, HasNext, AtLive
  <2>3. ContextsOK' /\ faults' \in Nat
    BY <1>t, <2>1, <2>2, DbFaultType
  <2>4. QED BY <1>20, <1>t, <2>3 DEF DbFails, TypeOK, TablesOK
<1>21. CASE UNCHANGED vars
  BY <1>21 DEF vars, TypeOK, TablesOK, ContextsOK
<1>22. QED
  BY <1>1, <1>2, <1>3, <1>4, <1>5, <1>6, <1>9, <1>10, <1>11, <1>12, <1>13,
     <1>14, <1>15, <1>16, <1>18, <1>19, <1>20, <1>21 DEF Next, Progress

\* The initial tables and contexts are typed.
LEMMA TypeInit == Init => TypeOK
<1>1. Ok(Nil) \in Result
  BY OutcomeType
<1>2. Idle \in Execution /\ Running(Idle)
  BY <1>1 DEF Idle, Execution, Running, Phase
<1>3. QED
  BY <1>2 DEF Init, TypeOK, TablesOK, ContextsOK, Status

\* Every variable keeps its type under every interleaving, crash and fault, and
\* no execution's counter passes the end of the body it runs.
THEOREM TypeCorrect == Spec => []TypeOK
BY TypeInit, TypeStep, PTL DEF Spec
-----------------------------------------------------------------------------
(* Whoever is told a recorded outcome is told the same one.                *)

Explains(r, o) ==
    /\ r.wf = o.wf /\ r.fid = o.fid
    /\ r.fname = o.fname /\ r.ok = o.ok /\ r.val = o.val

\* The primary key of operation_outputs.
UniqueRows ==
    \A q, r \in journal : q.wf = r.wf /\ q.fid = r.fid => q = r

\* A failure carries no value, whether recorded or still held by a context.
FailuresAreEmpty ==
    /\ \A r \in journal : ~r.ok => r.val = Nil
    /\ \A s \in Slot : ~exec[s].res.ok => exec[s].res.val = Nil

\* What was returned as recorded has a row that says so.
ObservationsRecorded ==
    \A o \in seen : o.recorded => \E r \in journal : Explains(r, o)

\* The inductive invariant behind ReplayAgrees.
JournalInv == UniqueRows /\ FailuresAreEmpty /\ ObservationsRecorded

\* A step that tells nobody anything recorded.
TellsNothing ==
    /\ \A o \in seen' : o.recorded => o \in seen
    /\ \A s \in Slot : \/ exec'[s].res = exec[s].res
                       \/ ~exec'[s].res.ok => exec'[s].res.val = Nil

\* What the three forms of an outcome say.
LEMMA OutcomeShape ==
    /\ \A v : Ok(v).ok /\ Ok(v).val = v
    /\ \A c : ~Err(c).ok /\ Err(c).val = Nil /\ Err(c).code = c
    /\ \A n : Message(n).ok
BY DEF Ok, Err, Message

\* A step that tells and records nothing keeps the invariant.
LEMMA TellsNothingKeeps ==
    ASSUME JournalInv, TellsNothing, journal' = journal
    PROVE  JournalInv'
BY DEF JournalInv, UniqueRows, FailuresAreEmpty, ObservationsRecorded,
       TellsNothing, Explains

\* A slot takes a context whose outcome, if it is new, is well formed.
LEMMA TellsNothingUpdate ==
    ASSUME ContextsOK, NEW s \in Slot, NEW e,
           exec' = [exec EXCEPT ![s] = e],
           e.res = exec[s].res \/ (~e.res.ok => e.res.val = Nil),
           \A o \in seen' : o.recorded => o \in seen
    PROVE  TellsNothing
BY DEF ContextsOK, TellsNothing

\* What a returning call tells, and to whom.
LEMMA ReturnTells ==
    ASSUME ContextsOK, NEW s \in Slot, NEW i, NEW r, NEW recorded \in BOOLEAN,
           Return(s, i, r, recorded), r.ok \/ r.val = Nil
    PROVE  /\ \A t \in Slot : \/ exec'[t].res = exec[t].res
                              \/ ~exec'[t].res.ok => exec'[t].res.val = Nil
           /\ seen' = seen \cup
                {[wf |-> exec[s].wf, fid |-> i,
                  fname |-> FunctionName(Calls(s)[i]), ok |-> r.ok,
                  val |-> r.val, code |-> r.code, recorded |-> recorded]}
<1> DEFINE e == [exec[s] EXCEPT
                   !.phase = IF r.ok \/ r.code \in Calls(s)[i].catches
                             THEN "body" ELSE "failed",
                   !.fid = i, !.res = r]
<1>1. exec' = [exec EXCEPT ![s] = e] /\ exec[s] \in Execution
  BY DEF Return, Resume, ContextsOK
<1>2. e.res = r
  BY <1>1 DEF Execution
<1>3. \A t \in Slot : exec'[t] = IF t = s THEN e ELSE exec[t]
  BY <1>1 DEF ContextsOK
<1>4. QED BY <1>2, <1>3 DEF Return

\* An error that no row records tells nothing recorded.
LEMMA UnrecordedTellsNothing ==
    ASSUME ContextsOK, NEW s \in Slot, NEW i, NEW c,
           Return(s, i, Err(c), FALSE)
    PROVE  TellsNothing
<1>1. FALSE \in BOOLEAN
  OBVIOUS
<1>2. Err(c).ok \/ Err(c).val = Nil
  BY OutcomeShape
<1>3. /\ \A t \in Slot : \/ exec'[t].res = exec[t].res
                         \/ ~exec'[t].res.ok => exec'[t].res.val = Nil
      /\ seen' = seen \cup
           {[wf |-> exec[s].wf, fid |-> i,
             fname |-> FunctionName(Calls(s)[i]), ok |-> Err(c).ok,
             val |-> Err(c).val, code |-> Err(c).code, recorded |-> FALSE]}
  BY <1>1, <1>2, ReturnTells, Zenon
<1>4. QED BY <1>3 DEF TellsNothing

\* Neither does an outcome that waits to be recorded ...
LEMMA HoldTellsNothing ==
    ASSUME ContextsOK, NEW s \in Slot, NEW r, r.ok \/ r.val = Nil,
           Hold(s, r)
    PROVE  TellsNothing
<1> DEFINE e == [exec[s] EXCEPT !.phase = "record", !.res = r]
<1>1. exec' = [exec EXCEPT ![s] = e] /\ seen' = seen
  BY DEF Hold
<1>2. e.res = r
  BY DEF ContextsOK, Execution
<1>3. QED BY <1>1, <1>2, TellsNothingUpdate

\* ... nor a reply.
LEMMA ReplyTellsNothing ==
    ASSUME ContextsOK, NEW s \in Slot, NEW r, r.ok \/ r.val = Nil,
           Reply(s, r)
    PROVE  TellsNothing
BY HoldTellsNothing, UnrecordedTellsNothing DEF Reply, DbFault

\* An outcome a row explains may be returned any number of times.
LEMMA RecordedKeeps ==
    ASSUME TypeOK, JournalInv, NEW s \in Slot, NEW i, NEW r,
           Return(s, i, r, TRUE), r.ok \/ r.val = Nil,
           journal \subseteq journal',
           UniqueRows', \A q \in journal' : ~q.ok => q.val = Nil,
           \E q \in journal' :
              /\ q.wf = exec[s].wf /\ q.fid = i
              /\ q.fname = FunctionName(Calls(s)[i])
              /\ q.ok = r.ok /\ q.val = r.val
    PROVE  JournalInv'
<1> DEFINE o == [wf |-> exec[s].wf, fid |-> i,
                 fname |-> FunctionName(Calls(s)[i]), ok |-> r.ok,
                 val |-> r.val, code |-> r.code, recorded |-> TRUE]
<1>1. TRUE \in BOOLEAN /\ ContextsOK
  BY DEF TypeOK
<1>2. /\ \A t \in Slot : \/ exec'[t].res = exec[t].res
                         \/ ~exec'[t].res.ok => exec'[t].res.val = Nil
      /\ seen' = seen \cup {o}
  BY <1>1, ReturnTells, Zenon
<1>3. \E q \in journal' : Explains(q, o)
  BY DEF Explains
<1>4. ObservationsRecorded'
  BY <1>2, <1>3 DEF JournalInv, ObservationsRecorded, Explains
<1>5. FailuresAreEmpty'
  BY <1>2 DEF JournalInv, FailuresAreEmpty
<1>6. QED BY <1>4, <1>5 DEF JournalInv

\* Only ReplayStep and RecordStep tell a body a recorded outcome, and only
\* RecordStep writes a row.
LEMMA JournalStep == TypeOK /\ JournalInv /\ [Next]_vars => JournalInv'
<1> SUFFICES ASSUME TypeOK, JournalInv, [Next]_vars PROVE JournalInv'
  OBVIOUS
<1> USE DEF effects, tables
<1>t. ContextsOK /\ TablesOK
  BY DEF TypeOK
<1>k. ASSUME journal' = journal, TellsNothing PROVE JournalInv'
  BY <1>k, TellsNothingKeeps
<1>1. ASSUME NEW w \in Workflow, InitWorkflow(w) PROVE JournalInv'
  BY <1>1, <1>k DEF InitWorkflow, TellsNothing
<1>2. ASSUME NEW s \in Slot, NEW w \in Workflow, NEW v \in Version,
             Start(s, w, v)
      PROVE  JournalInv'
  <2> DEFINE e == [phase |-> "body", wf |-> w, ver |-> v, fid |-> 0,
                   res |-> Ok(Nil)]
  <2>1. exec' = [exec EXCEPT ![s] = e] /\ journal' = journal /\ seen' = seen
    BY <1>2 DEF Start
  <2>2. e.res.ok
    BY OutcomeShape
  <2>3. QED BY <2>1, <2>2, <1>t, <1>k, TellsNothingUpdate
<1>3. ASSUME NEW s \in Slot, ReplayStep(s) PROVE JournalInv'
  <2> DEFINE i == exec[s].fid + 1
  <2>1. journal' = journal
    BY <1>3 DEF ReplayStep
  <2>2. PICK r \in Row(exec[s].wf, i) :
          \/ Return(s, i, Err("UnexpectedStep"), FALSE)
          \/ /\ NameMatches(r, Calls(s)[i])
             /\ r.ok
             /\ Return(s, i, Ok(r.val), TRUE)
          \/ /\ NameMatches(r, Calls(s)[i])
             /\ ~r.ok
             /\ Return(s, i, Err("StepExecutionError"), TRUE)
    BY <1>3 DEF ReplayStep
  <2>3. CASE Return(s, i, Err("UnexpectedStep"), FALSE)
    BY <2>1, <2>3, <1>t, <1>k, UnrecordedTellsNothing
  <2>4. ASSUME NEW x, NameMatches(r, Calls(s)[i]), Return(s, i, x, TRUE),
               x.ok = r.ok, x.val = r.val, x.ok \/ x.val = Nil
        PROVE  JournalInv'
    <3>1. /\ r \in journal' /\ r.wf = exec[s].wf /\ r.fid = i
          /\ r.fname = FunctionName(Calls(s)[i])
          /\ r.ok = x.ok /\ r.val = x.val
      BY <2>1, <2>4 DEF Row, NameMatches
    <3>2. UniqueRows' /\ \A q \in journal' : ~q.ok => q.val = Nil
      BY <2>1 DEF JournalInv, UniqueRows, FailuresAreEmpty
    <3>3. QED BY <2>1, <2>4, <3>1, <3>2, RecordedKeeps
  <2>5. r \in journal /\ r.ok \in BOOLEAN
    BY <1>t DEF Row, TablesOK, JournalRow
  <2>6. ~r.ok => r.val = Nil
    BY <2>5 DEF JournalInv, FailuresAreEmpty
  <2>7. CASE /\ NameMatches(r, Calls(s)[i]) /\ r.ok
             /\ Return(s, i, Ok(r.val), TRUE)
    <3>1. /\ Ok(r.val).ok = r.ok /\ Ok(r.val).val = r.val
          /\ Ok(r.val).ok \/ Ok(r.val).val = Nil
      BY <2>5, <2>7 DEF Ok
    <3>2. QED BY <2>4, <2>7, <3>1, Zenon
  <2>8. CASE /\ NameMatches(r, Calls(s)[i]) /\ ~r.ok
             /\ Return(s, i, Err("StepExecutionError"), TRUE)
    <3>1. LET x == Err("StepExecutionError") IN
          x.ok = r.ok /\ x.val = r.val /\ (x.ok \/ x.val = Nil)
      BY <2>5, <2>6, <2>8 DEF Err
    <3>2. QED BY <2>4, <2>8, <3>1, Zenon
  <2>9. QED BY <2>2, <2>3, <2>7, <2>8
<1>4. ASSUME NEW s \in Slot, GoLive(s) PROVE JournalInv'
  <2> DEFINE e == [exec[s] EXCEPT !.phase = "live", !.fid = exec[s].fid + 1]
  <2>1. exec' = [exec EXCEPT ![s] = e] /\ journal' = journal /\ seen' = seen
    BY <1>4 DEF GoLive
  <2>2. e.res = exec[s].res
    BY <1>t DEF ContextsOK, Execution
  <2>3. QED BY <2>1, <2>2, <1>t, <1>k, TellsNothingUpdate
<1>5. ASSUME NEW s \in Slot, RunStep(s) \/ SetDeadline(s) PROVE JournalInv'
  <2>1. journal' = journal /\ \E r : (r.ok \/ r.val = Nil) /\ Hold(s, r)
    BY <1>5, OutcomeShape DEF RunStep, SetDeadline
  <2>2. QED BY <2>1, <1>t, <1>k, HoldTellsNothing
<1>6. ASSUME NEW s \in Slot, Send(s) PROVE JournalInv'
  <2>1. journal' = journal
    BY <1>6 DEF Send
  <2>2. CASE Reply(s, Ok(Nil))
    BY <2>1, <2>2, <1>t, <1>k, OutcomeShape, ReplyTellsNothing
  <2>3. CASE Return(s, exec[s].fid, Err("NonExistentWorkflowError"), FALSE)
    BY <2>1, <2>3, <1>t, <1>k, UnrecordedTellsNothing
  <2>4. QED BY <1>6, <2>2, <2>3 DEF Send
<1>7. ASSUME NEW s \in Slot, RecvMessage(s) PROVE JournalInv'
  <2>1. journal' = journal /\ \E n : Reply(s, Message(n))
    BY <1>7 DEF RecvMessage
  <2>2. QED BY <2>1, <1>t, <1>k, OutcomeShape, ReplyTellsNothing
<1>8. ASSUME NEW s \in Slot, PickMessage(s) PROVE JournalInv'
  <2>1. PICK n \in Waiting(s) :
          exec' = [exec EXCEPT ![s] = [exec[s] EXCEPT !.phase = "picked",
                                                      !.res = Message(n)]]
    BY <1>8 DEF PickMessage
  <2> DEFINE e == [exec[s] EXCEPT !.phase = "picked", !.res = Message(n)]
  <2>2. e.res.ok
    BY <1>t, OutcomeShape DEF ContextsOK, Execution
  <2>3. journal' = journal /\ seen' = seen
    BY <1>8 DEF PickMessage
  <2>4. QED BY <2>1, <2>2, <2>3, <1>t, <1>k, TellsNothingUpdate
<1>9. ASSUME NEW s \in Slot, ConsumePicked(s) PROVE JournalInv'
  <2>1. exec[s].res \in Result
    BY <1>t DEF ContextsOK, Execution
  <2>2. exec[s].res.ok \/ exec[s].res.val = Nil
    BY <2>1 DEF JournalInv, FailuresAreEmpty, Result
  <2>3. QED BY <1>9, <2>2, <1>t, <1>k, ReplyTellsNothing DEF ConsumePicked
<1>10. ASSUME NEW s \in Slot, RecvTimeout(s) \/ GetEvent(s) PROVE JournalInv'
  <2>1. journal' = journal /\ \E r : (r.ok \/ r.val = Nil) /\ Hold(s, r)
    BY <1>10, OutcomeShape DEF RecvTimeout, GetEvent
  <2>2. QED BY <2>1, <1>t, <1>k, HoldTellsNothing
<1>11. ASSUME NEW s \in Slot, SetEvent(s) \/ AppendStream(s) PROVE JournalInv'
  <2>1. journal' = journal /\ Reply(s, Ok(Nil))
    BY <1>11 DEF SetEvent, AppendStream
  <2>2. QED BY <2>1, <1>t, <1>k, OutcomeShape, ReplyTellsNothing
<1>12. ASSUME NEW s \in Slot, CheckStream(s) PROVE JournalInv'
  <2> DEFINE e == [exec[s] EXCEPT !.phase = "append"]
  <2>1. journal' = journal
    BY <1>12 DEF CheckStream
  <2>2. CASE Return(s, exec[s].fid, Err("StreamClosed"), FALSE)
    BY <2>1, <2>2, <1>t, <1>k, UnrecordedTellsNothing
  <2>3. CASE exec' = [exec EXCEPT ![s] = e] /\ UNCHANGED seen
    <3>1. e.res = exec[s].res
      BY <1>t DEF ContextsOK, Execution
    <3>2. QED BY <2>1, <2>3, <3>1, <1>t, <1>k, TellsNothingUpdate
  <2>4. QED BY <1>12, <2>2, <2>3 DEF CheckStream
<1>13. ASSUME NEW s \in Slot, RecordStep(s) PROVE JournalInv'
  <2> DEFINE w == exec[s].wf
             i == exec[s].fid
             r == exec[s].res
             row == [wf |-> w, fid |-> i, fname |-> FunctionName(Calls(s)[i]),
                     ok |-> r.ok, val |-> r.val, msg |-> r.msg]
  <2>1. r.ok \in BOOLEAN /\ (r.ok \/ r.val = Nil)
    BY <1>t DEF ContextsOK, Execution, Result, JournalInv, FailuresAreEmpty
  <2>2. CASE ~Conflict(w, i) /\ journal' = journal \cup {row}
    <3>1. \A q \in journal : ~(q.wf = w /\ q.fid = i)
      BY <2>2 DEF Conflict, Recorded, Row
    <3>2. UniqueRows'
      BY <2>2, <3>1 DEF JournalInv, UniqueRows
    <3>3. \A q \in journal' : ~q.ok => q.val = Nil
      BY <2>1, <2>2 DEF JournalInv, FailuresAreEmpty
    <3>4. CASE Return(s, i, r, TRUE)
      <4>1. /\ row \in journal' /\ row.wf = exec[s].wf /\ row.fid = i
            /\ row.fname = FunctionName(Calls(s)[i])
            /\ row.ok = r.ok /\ row.val = r.val
            /\ journal \subseteq journal'
        BY <2>2
      <4>2. QED BY <2>1, <3>2, <3>3, <3>4, <4>1, RecordedKeeps
    <3>5. CASE DbFault(s, i)
      <4>1. TellsNothing
        BY <3>5, <1>t, UnrecordedTellsNothing DEF DbFault
      <4>2. ObservationsRecorded'
        BY <2>2, <4>1 DEF TellsNothing, JournalInv, ObservationsRecorded,
                          Explains
      <4>3. FailuresAreEmpty'
        BY <3>3, <4>1 DEF TellsNothing, JournalInv, FailuresAreEmpty
      <4>4. QED BY <3>2, <4>2, <4>3 DEF JournalInv
    <3>6. QED BY <1>13, <2>2, <3>4, <3>5 DEF RecordStep
  <2>3. CASE /\ Conflict(w, i)
             /\ Return(s, i, Err("ConflictingIDError"), FALSE)
             /\ journal' = journal
    BY <2>3, <1>t, <1>k, UnrecordedTellsNothing
  <2>4. QED BY <1>13, <2>2, <2>3 DEF RecordStep
<1>14. ASSUME NEW s \in Slot, Finish(s) \/ FinishFails(s) \/ Crash(s)
       PROVE  JournalInv'
  <2>1. exec' = [exec EXCEPT ![s] = Idle] /\ journal' = journal /\ seen' = seen
    BY <1>14 DEF Finish, FinishFails, Crash
  <2>2. Idle.res.ok
    BY OutcomeShape DEF Idle
  <2>3. QED BY <2>1, <2>2, <1>t, <1>k, TellsNothingUpdate
<1>15. ASSUME NEW s \in Slot, DbFails(s) PROVE JournalInv'
  <2>1. journal' = journal /\ \E i : Return(s, i, Err("Database"), FALSE)
    BY <1>15 DEF DbFails, DbFault
  <2>2. QED BY <2>1, <1>t, <1>k, UnrecordedTellsNothing
<1>16. CASE UNCHANGED vars
  BY <1>16, <1>k DEF vars, TellsNothing
<1>17. QED
  BY <1>1, <1>2, <1>3, <1>4, <1>5, <1>6, <1>7, <1>8, <1>9, <1>10, <1>11,
     <1>12, <1>13, <1>14, <1>15, <1>16 DEF Next, Progress

\* Nothing is recorded, held or told at first.
LEMMA JournalInit == Init => JournalInv
BY OutcomeShape DEF Init, JournalInv, UniqueRows, FailuresAreEmpty,
                    ObservationsRecorded, Idle

\* The outcome of a call, once recorded, is what every execution of its
\* workflow is told: at its first run, at every replay, and by executions that
\* race for the same row.
THEOREM ReplayIsFaithful == Spec => []ReplayAgrees
<1>1. JournalInv => ReplayAgrees
  <2> SUFFICES ASSUME JournalInv, NEW a \in seen, NEW b \in seen,
                      a.recorded, b.recorded, a.wf = b.wf, a.fid = b.fid
               PROVE  a.fname = b.fname /\ a.ok = b.ok /\ a.val = b.val
    BY DEF ReplayAgrees
  <2>1. PICK q \in journal : Explains(q, a)
    BY DEF JournalInv, ObservationsRecorded
  <2>2. PICK r \in journal : Explains(r, b)
    BY DEF JournalInv, ObservationsRecorded
  <2>3. q = r
    BY <2>1, <2>2 DEF Explains, JournalInv, UniqueRows
  <2>4. QED BY <2>1, <2>2, <2>3 DEF Explains
<1>2. QED
  BY TypeInit, TypeStep, JournalInit, JournalStep, <1>1, PTL DEF Spec
-----------------------------------------------------------------------------
(* The journal is a prefix of the run, and no effect is ahead of it.       *)

Working == {"live", "picked", "append", "record"}

\* In journal j, the first n calls of w are recorded.
Done(j, w, n) == \A i \in 1 .. n : \E r \in j : r.wf = w /\ r.fid = i

\* A context between two calls has every call so far on record; one inside a
\* call has every earlier call on record.
Settled(j, e) ==
    /\ e.phase = "body" => Done(j, e.wf, e.fid)
    /\ e.phase \in Working => Done(j, e.wf, e.fid - 1)

ContextPrefix == \A s \in Slot : Settled(journal, exec[s])

JournalPrefix == \A r \in journal : Done(journal, r.wf, r.fid)

EffectPrefix ==
    /\ \A n \in DOMAIN notes : Done(journal, notes[n].wf, notes[n].fid - 1)
    /\ \A h \in history : Done(journal, h.wf, h.fid - 1)
    /\ \A w \in Workflow, k \in Key : \A n \in DOMAIN streams[w][k] :
          Done(journal, w, streams[w][k][n].fid - 1)

\* The inductive invariant behind JournalContiguous and EffectsFollowJournal.
PrefixInv == JournalPrefix /\ ContextPrefix /\ EffectPrefix

\* Rows are never removed, so nothing recorded is forgotten.
LEMMA DoneKept ==
    ASSUME NEW j, NEW k, j \subseteq k, NEW w, NEW n, Done(j, w, n)
    PROVE  Done(k, w, n)
BY DEF Done

\* Nor does a context that owed nothing come to owe something ...
LEMMA SettledKept ==
    ASSUME NEW j, NEW k, j \subseteq k, NEW e, Settled(j, e)
    PROVE  Settled(k, e)
BY DoneKept DEF Settled

\* ... or an effect run ahead.
LEMMA EffectsKept ==
    ASSUME EffectPrefix, journal \subseteq journal', UNCHANGED effects
    PROVE  EffectPrefix'
BY DoneKept DEF EffectPrefix, effects

\* A slot may take any context whose calls are on record.
LEMMA ContextPrefixUpdate ==
    ASSUME ContextsOK, ContextPrefix, journal \subseteq journal',
           NEW s \in Slot, NEW e, exec' = [exec EXCEPT ![s] = e],
           Settled(journal', e)
    PROVE  ContextPrefix'
<1>1. \A t \in Slot : exec'[t] = IF t = s THEN e ELSE exec[t]
  BY DEF ContextsOK
<1>2. \A t \in Slot : Settled(journal', exec[t])
  BY SettledKept DEF ContextPrefix
<1>3. QED BY <1>1, <1>2 DEF ContextPrefix

\* A context whose execution has ended, or is about to, owes nothing.
LEMMA AtRestSettled ==
    ASSUME NEW j, NEW e, e.phase = "idle" \/ e.phase = "failed"
    PROVE  Settled(j, e)
BY DEF Settled, Working

\* The context of a call that returns.
LEMMA ResumeContext ==
    ASSUME ContextsOK, NEW s \in Slot, NEW i, NEW r,
           Resume(s, i, r)
    PROVE  \E e : /\ exec' = [exec EXCEPT ![s] = e]
                  /\ e.wf = exec[s].wf /\ e.fid = i
                  /\ e.phase = "body" \/ e.phase = "failed"
                  /\ ~r.ok /\ r.code \notin Calls(s)[i].catches
                        => e.phase = "failed"
<1> DEFINE e == [exec[s] EXCEPT
                   !.phase = IF r.ok \/ r.code \in Calls(s)[i].catches
                             THEN "body" ELSE "failed",
                   !.fid = i, !.res = r]
<1>1. exec' = [exec EXCEPT ![s] = e] /\ exec[s] \in Execution
  BY DEF Resume, ContextsOK
<1>2. /\ e.wf = exec[s].wf /\ e.fid = i
      /\ e.phase = "body" \/ e.phase = "failed"
      /\ ~r.ok /\ r.code \notin Calls(s)[i].catches => e.phase = "failed"
  BY <1>1 DEF Execution
<1>3. QED BY <1>1, <1>2, Zenon

\* No body survives an error that no row records.
LEMMA UnrecordedSettles ==
    ASSUME WellBehaved, ContextsOK, ContextPrefix, journal \subseteq journal',
           NEW s \in Slot, exec[s].phase # "idle",
           NEW i \in 1 .. Len(Calls(s)), NEW c \in UnrecordedCode,
           Resume(s, i, Err(c))
    PROVE  ContextPrefix'
<1>1. PICK e : /\ exec' = [exec EXCEPT ![s] = e]
               /\ ~Err(c).ok /\ Err(c).code \notin Calls(s)[i].catches
                     => e.phase = "failed"
  BY ResumeContext
<1>2. ~Err(c).ok /\ Err(c).code = c
  BY OutcomeShape, Zenon
<1>3. c \notin Calls(s)[i].catches
  <2>1. /\ exec[s].ver \in Version /\ exec[s].wf \in Workflow
        /\ Calls(s) = Body[exec[s].ver][exec[s].wf]
        /\ i \in DOMAIN Calls(s)
    BY CallType DEF Calls
  <2>2. QED BY <2>1 DEF WellBehaved
<1>4. e.phase = "failed"
  BY <1>1, <1>2, <1>3
<1>5. Settled(journal', e)
  BY <1>4, AtRestSettled, Zenon
<1>6. QED BY <1>1, <1>5, ContextPrefixUpdate

\* A call that waits to be recorded is still inside the call.
LEMMA HoldSettles ==
    ASSUME ContextsOK, ContextPrefix, journal' = journal, NEW s \in Slot,
           exec[s].phase \in Working, NEW r, Hold(s, r)
    PROVE  ContextPrefix'
<1> DEFINE e == [exec[s] EXCEPT !.phase = "record", !.res = r]
<1>1. exec' = [exec EXCEPT ![s] = e]
  BY DEF Hold
<1>2. e.wf = exec[s].wf /\ e.fid = exec[s].fid /\ e.phase = "record"
  BY DEF ContextsOK, Execution
<1>3. Settled(journal, e)
  BY <1>2 DEF ContextPrefix, Settled, Working
<1>4. QED BY <1>1, <1>3, ContextPrefixUpdate

\* And so is one whose reply arrives; one whose reply is lost has failed.
LEMMA ReplySettles ==
    ASSUME WellBehaved, ContextsOK, ContextPrefix, journal' = journal,
           NEW s \in Slot, exec[s].phase \in Working, NEW r, Reply(s, r)
    PROVE  ContextPrefix'
<1>1. CASE Hold(s, r)
  BY <1>1, HoldSettles
<1>2. CASE DbFault(s, exec[s].fid)
  <2>1. /\ exec[s].phase # "idle"
        /\ exec[s].fid \in 1 .. Len(Calls(s))
    BY CallType DEF Working
  <2>2. "Database" \in UnrecordedCode
    BY DEF UnrecordedCode
  <2>3. QED BY <1>2, <2>1, <2>2, UnrecordedSettles DEF DbFault, Return
<1>3. QED BY <1>1, <1>2 DEF Reply

\* A call that returns a recorded outcome extends the prefix by itself.
LEMMA RecordedSettles ==
    ASSUME ContextsOK, ContextPrefix, journal \subseteq journal',
           NEW s \in Slot, NEW i, NEW r, Resume(s, i, r),
           Done(journal', exec[s].wf, i)
    PROVE  ContextPrefix'
<1>1. PICK e : /\ exec' = [exec EXCEPT ![s] = e]
               /\ e.wf = exec[s].wf /\ e.fid = i
               /\ e.phase = "body" \/ e.phase = "failed"
  BY ResumeContext
<1>2. Settled(journal', e)
  BY <1>1 DEF Settled, Working
<1>3. QED BY <1>1, <1>2, ContextPrefixUpdate

\* One more call, recorded, after n recorded ones.
LEMMA DoneNext ==
    ASSUME NEW j, NEW w, NEW n \in Nat \ {0}, Done(j, w, n - 1),
           \E r \in j : r.wf = w /\ r.fid = n
    PROVE  Done(j, w, n)
BY DEF Done

\* Every action keeps the prefixes: one proof step per action.
LEMMA PrefixStep ==
    WellBehaved /\ TypeOK /\ PrefixInv /\ [Next]_vars => PrefixInv'
<1> SUFFICES ASSUME WellBehaved, TypeOK, PrefixInv, [Next]_vars
             PROVE  PrefixInv'
  OBVIOUS
<1> USE DEF effects, tables
<1>t. /\ ContextsOK /\ TablesOK
      /\ JournalPrefix /\ ContextPrefix /\ EffectPrefix
  BY DEF TypeOK, PrefixInv
<1>j. ASSUME journal' = journal, UNCHANGED effects, ContextPrefix'
      PROVE  PrefixInv'
  BY <1>j, <1>t, EffectsKept DEF PrefixInv, JournalPrefix
<1>e. ASSUME journal' = journal, EffectPrefix', ContextPrefix' PROVE PrefixInv'
  BY <1>e, <1>t DEF PrefixInv, JournalPrefix
<1>w. ASSUME NEW s \in Slot, exec[s].phase \in Working
      PROVE  /\ Done(journal, exec[s].wf, exec[s].fid - 1)
             /\ exec[s].wf \in Workflow
             /\ exec[s].phase # "idle"
             /\ exec[s].fid \in 1 .. Len(Calls(s))
             /\ exec[s].fid \in Nat \ {0}
             /\ Calls(s)[exec[s].fid] \in Op
  BY <1>w, <1>t, CallType DEF ContextPrefix, Settled, Working
<1>l. ASSUME NEW s \in Slot, NEW kinds, AtLive(s, kinds)
      PROVE  exec[s].phase \in Working
  BY <1>l DEF AtLive, Working
<1>1. ASSUME NEW w \in Workflow, InitWorkflow(w) PROVE PrefixInv'
  BY <1>1, <1>t, <1>j DEF InitWorkflow, ContextPrefix
<1>2. ASSUME NEW s \in Slot, NEW w \in Workflow, NEW v \in Version,
             Start(s, w, v)
      PROVE  PrefixInv'
  <2> DEFINE e == [phase |-> "body", wf |-> w, ver |-> v, fid |-> 0,
                   res |-> Ok(Nil)]
  <2>1. exec' = [exec EXCEPT ![s] = e] /\ journal' = journal
    BY <1>2 DEF Start
  <2>2. Settled(journal', e)
    BY DEF Settled, Working, Done
  <2>3. ContextPrefix'
    BY <2>1, <2>2, <1>t, ContextPrefixUpdate
  <2>4. QED BY <1>2, <2>3, <1>j DEF Start
<1>3. ASSUME NEW s \in Slot, ReplayStep(s) PROVE PrefixInv'
  <2> DEFINE i == exec[s].fid + 1
  <2>1. journal' = journal /\ UNCHANGED effects
    BY <1>3 DEF ReplayStep
  <2>2. /\ exec[s].phase = "body"
        /\ i \in 1 .. Len(Calls(s))
        /\ i \in Nat \ {0} /\ i - 1 = exec[s].fid
    BY <1>3, <1>t, CallType DEF ReplayStep, HasNext
  <2>3. Done(journal, exec[s].wf, i)
    <3>1. Done(journal, exec[s].wf, i - 1)
      BY <1>t, <2>2 DEF ContextPrefix, Settled
    <3>2. \E r \in journal : r.wf = exec[s].wf /\ r.fid = i
      BY <1>3 DEF ReplayStep, Row
    <3>3. QED BY <2>2, <3>1, <3>2, DoneNext
  <2>4. \/ Resume(s, i, Err("UnexpectedStep"))
        \/ \E r : Return(s, i, r, TRUE)
    BY <1>3 DEF ReplayStep, Return
  <2>5. CASE Resume(s, i, Err("UnexpectedStep"))
    <3>1. "UnexpectedStep" \in UnrecordedCode
      BY DEF UnrecordedCode
    <3>2. ContextPrefix'
      BY <2>1, <2>2, <2>5, <3>1, <1>t, UnrecordedSettles
    <3>3. QED BY <2>1, <3>2, <1>j
  <2>6. CASE \E r : Return(s, i, r, TRUE)
    <3>1. \E r : Resume(s, i, r)
      BY <2>6 DEF Return
    <3>2. ContextPrefix'
      BY <2>1, <2>3, <3>1, <1>t, RecordedSettles
    <3>3. QED BY <2>1, <3>2, <1>j
  <2>7. QED BY <2>4, <2>5, <2>6
<1>4. ASSUME NEW s \in Slot, GoLive(s) PROVE PrefixInv'
  <2> DEFINE e == [exec[s] EXCEPT !.phase = "live", !.fid = exec[s].fid + 1]
  <2>1. exec' = [exec EXCEPT ![s] = e] /\ journal' = journal
    BY <1>4 DEF GoLive
  <2>2. /\ e.wf = exec[s].wf /\ e.fid = exec[s].fid + 1 /\ e.phase = "live"
        /\ exec[s].fid \in Nat
    BY <1>t DEF ContextsOK, Execution
  <2>3. exec[s].phase = "body" /\ e.fid - 1 = exec[s].fid
    BY <1>4, <2>2 DEF GoLive, HasNext
  <2>4. Settled(journal', e)
    BY <1>t, <2>1, <2>2, <2>3 DEF ContextPrefix, Settled
  <2>5. ContextPrefix'
    BY <2>1, <2>4, <1>t, ContextPrefixUpdate
  <2>6. QED BY <1>4, <2>5, <1>j DEF GoLive
<1>5. ASSUME NEW s \in Slot,
             \/ RunStep(s) \/ SetDeadline(s)
             \/ RecvTimeout(s) \/ GetEvent(s)
      PROVE  PrefixInv'
  <2>1. /\ journal' = journal /\ UNCHANGED effects
        /\ exec[s].phase \in Working
        /\ \E r : Hold(s, r)
    BY <1>5, <1>l DEF RunStep, SetDeadline, RecvTimeout, GetEvent
  <2>2. ContextPrefix'
    BY <2>1, <1>t, HoldSettles
  <2>3. QED BY <2>1, <2>2, <1>j
<1>6. ASSUME NEW s \in Slot, Send(s) PROVE PrefixInv'
  <2>1. /\ exec[s].phase \in Working
        /\ UNCHANGED <<journal, history, streams>>
    BY <1>6, <1>l DEF Send
  <2>2. CASE notes' = Append(notes, NewNote(s)) /\ Reply(s, Ok(Nil))
    <3>1. ContextPrefix'
      BY <2>1, <2>2, <1>t, ReplySettles
    <3>2. /\ notes \in Seq(Note)
          /\ NewNote(s).wf = exec[s].wf /\ NewNote(s).fid = exec[s].fid
      BY <1>t DEF TablesOK, NewNote
    <3>3. \A m \in DOMAIN notes' :
             notes'[m] = NewNote(s) \/ (m \in DOMAIN notes /\ notes'[m] = notes[m])
      BY <2>2, <3>2
    <3>4. \A m \in DOMAIN notes' :
             Done(journal', notes'[m].wf, notes'[m].fid - 1)
      BY <2>1, <3>2, <3>3, <1>t, <1>w DEF EffectPrefix
    <3>5. EffectPrefix'
      BY <2>1, <3>4, <1>t DEF EffectPrefix
    <3>6. QED BY <2>1, <3>1, <3>5, <1>e
  <2>3. CASE /\ Return(s, exec[s].fid, Err("NonExistentWorkflowError"), FALSE)
             /\ UNCHANGED <<notes, faults>>
    <3>1. "NonExistentWorkflowError" \in UnrecordedCode
      BY DEF UnrecordedCode
    <3>2. ContextPrefix'
      BY <2>1, <2>3, <3>1, <1>t, <1>w, UnrecordedSettles DEF Return
    <3>3. EffectPrefix'
      BY <2>1, <2>3, <1>t DEF EffectPrefix
    <3>4. QED BY <2>1, <3>2, <3>3, <1>e
  <2>4. QED BY <1>6, <2>2, <2>3 DEF Send
<1>7. ASSUME NEW s \in Slot, exec[s].phase \in Working, NEW n,
             Consume(n), NEW r, Reply(s, r),
             UNCHANGED <<journal, history, streams>>
      PROVE  PrefixInv'
  <2>1. ContextPrefix'
    BY <1>7, <1>t, ReplySettles
  <2>2. /\ notes' = [notes EXCEPT ![n].consumed = TRUE]
        /\ notes \in Seq(Note)
    BY <1>7, <1>t DEF Consume, TablesOK
  <2>3. \A m \in DOMAIN notes :
           notes'[m].wf = notes[m].wf /\ notes'[m].fid = notes[m].fid
    BY <2>2 DEF Note
  <2>4. DOMAIN notes' = DOMAIN notes
    BY <2>2
  <2>5. EffectPrefix'
    BY <1>7, <1>t, <2>3, <2>4 DEF EffectPrefix
  <2>6. QED BY <1>7, <2>1, <2>5, <1>e
<1>8. ASSUME NEW s \in Slot, RecvMessage(s) PROVE PrefixInv'
  BY <1>8, <1>7, <1>l DEF RecvMessage
<1>9. ASSUME NEW s \in Slot, PickMessage(s) PROVE PrefixInv'
  <2>1. PICK n \in Waiting(s) :
          exec' = [exec EXCEPT ![s] = [exec[s] EXCEPT !.phase = "picked",
                                                      !.res = Message(n)]]
    BY <1>9 DEF PickMessage
  <2> DEFINE e == [exec[s] EXCEPT !.phase = "picked", !.res = Message(n)]
  <2>2. /\ e.wf = exec[s].wf /\ e.fid = exec[s].fid /\ e.phase = "picked"
        /\ exec[s].phase \in Working /\ journal' = journal
    BY <1>9, <1>t, <1>l DEF ContextsOK, Execution, PickMessage
  <2>3. Settled(journal', e)
    BY <2>2, <1>t DEF ContextPrefix, Settled
  <2>4. ContextPrefix'
    BY <2>1, <2>2, <2>3, <1>t, ContextPrefixUpdate
  <2>5. QED BY <1>9, <2>4, <1>j DEF PickMessage
<1>10. ASSUME NEW s \in Slot, ConsumePicked(s) PROVE PrefixInv'
  BY <1>10, <1>7 DEF ConsumePicked, Working
<1>11. ASSUME NEW s \in Slot, SetEvent(s) PROVE PrefixInv'
  <2> DEFINE w == exec[s].wf
             i == exec[s].fid
  <2>1. /\ exec[s].phase \in Working
        /\ Reply(s, Ok(Nil))
        /\ UNCHANGED <<journal, notes, streams>>
    BY <1>11, <1>l DEF SetEvent
  <2>2. ContextPrefix'
    BY <2>1, <1>t, ReplySettles
  <2>3. \A h \in history' : h \in history \/ (h.wf = w /\ h.fid = i)
    BY <1>11 DEF SetEvent
  <2>4. \A h \in history' : Done(journal', h.wf, h.fid - 1)
    BY <2>1, <2>3, <1>t, <1>w DEF EffectPrefix
  <2>5. EffectPrefix'
    BY <2>1, <2>4, <1>t DEF EffectPrefix
  <2>6. QED BY <2>1, <2>2, <2>5, <1>e
<1>12. ASSUME NEW s \in Slot, CheckStream(s) PROVE PrefixInv'
  <2> DEFINE e == [exec[s] EXCEPT !.phase = "append"]
  <2>1. /\ journal' = journal /\ UNCHANGED effects
        /\ exec[s].phase \in Working
    BY <1>12, <1>l DEF CheckStream
  <2>2. CASE Return(s, exec[s].fid, Err("StreamClosed"), FALSE)
    <3>1. "StreamClosed" \in UnrecordedCode
      BY DEF UnrecordedCode
    <3>2. ContextPrefix'
      BY <2>1, <2>2, <3>1, <1>t, <1>w, UnrecordedSettles DEF Return
    <3>3. QED BY <2>1, <3>2, <1>j
  <2>3. CASE exec' = [exec EXCEPT ![s] = e]
    <3>1. e.wf = exec[s].wf /\ e.fid = exec[s].fid /\ e.phase = "append"
      BY <1>t DEF ContextsOK, Execution
    <3>2. Settled(journal', e)
      BY <2>1, <3>1, <1>t DEF ContextPrefix, Settled
    <3>3. ContextPrefix'
      BY <2>1, <2>3, <3>2, <1>t, ContextPrefixUpdate
    <3>4. QED BY <2>1, <3>3, <1>j
  <2>4. QED BY <1>12, <2>2, <2>3 DEF CheckStream
<1>13. ASSUME NEW s \in Slot, AppendStream(s) PROVE PrefixInv'
  <2> DEFINE op == Calls(s)[exec[s].fid]
             x == [val |-> IF op.kind = "closeStream" THEN Sentinel ELSE op.val,
                   fid |-> exec[s].fid]
             w == exec[s].wf
  <2>1. /\ exec[s].phase \in Working
        /\ Reply(s, Ok(Nil))
        /\ UNCHANGED <<journal, notes, history>>
        /\ streams' = [streams EXCEPT ![w][op.key] = Append(@, x)]
    BY <1>13 DEF AppendStream, Working
  <2>2. ContextPrefix'
    BY <2>1, <1>t, ReplySettles
  <2>3. w \in Workflow /\ op.key \in Key
    BY <2>1, <1>w DEF Op
  <2>4. ASSUME NEW u \in Workflow, NEW k \in Key, NEW n \in DOMAIN streams'[u][k]
        PROVE  Done(journal', u, streams'[u][k][n].fid - 1)
    <3>1. streams[u][k] \in Seq(StreamEntry)
      BY <1>t DEF TablesOK
    <3>2. CASE u = w /\ k = op.key
      <4>1. streams'[u][k] = Append(streams[u][k], x)
        BY <2>1, <2>3, <3>2, <1>t DEF TablesOK
      <4>2. \/ n \in DOMAIN streams[u][k] /\ streams'[u][k][n] = streams[u][k][n]
            \/ streams'[u][k][n] = x
        BY <3>1, <4>1, <2>4
      <4>3. CASE n \in DOMAIN streams[u][k] /\ streams'[u][k][n] = streams[u][k][n]
        BY <4>3, <2>1, <1>t DEF EffectPrefix
      <4>4. CASE streams'[u][k][n] = x
        <5>1. x.fid = exec[s].fid
          OBVIOUS
        <5>2. QED BY <4>4, <5>1, <3>2, <2>1, <1>w
      <4>5. QED BY <4>2, <4>3, <4>4
    <3>3. CASE ~(u = w /\ k = op.key)
      <4>1. streams'[u][k] = streams[u][k]
        BY <2>1, <3>3, <1>t DEF TablesOK
      <4>2. QED BY <4>1, <2>1, <2>4, <1>t DEF EffectPrefix
    <3>4. QED BY <3>2, <3>3
  <2>5. EffectPrefix'
    BY <2>1, <2>4, <1>t DEF EffectPrefix
  <2>6. QED BY <2>1, <2>2, <2>5, <1>e
<1>14. ASSUME NEW s \in Slot, RecordStep(s) PROVE PrefixInv'
  <2> DEFINE w == exec[s].wf
             i == exec[s].fid
             r == exec[s].res
             row == [wf |-> w, fid |-> i, fname |-> FunctionName(Calls(s)[i]),
                     ok |-> r.ok, val |-> r.val, msg |-> r.msg]
  <2>1. exec[s].phase \in Working /\ UNCHANGED effects
    BY <1>14 DEF RecordStep, Working
  <2>2. CASE journal' = journal \cup {row} /\ (Return(s, i, r, TRUE) \/ DbFault(s, i))
    <3>1. journal \subseteq journal' /\ row \in journal'
          /\ row.wf = w /\ row.fid = i
      BY <2>2
    <3>2. Done(journal', w, i - 1)
      BY <2>1, <3>1, <1>w, DoneKept
    <3>3. Done(journal', w, i)
      BY <2>1, <3>1, <3>2, <1>w, DoneNext
    <3>4. JournalPrefix'
      <4> SUFFICES ASSUME NEW q \in journal' PROVE Done(journal', q.wf, q.fid)
        BY DEF JournalPrefix
      <4>1. CASE q = row
        BY <4>1, <3>1, <3>3
      <4>2. CASE q \in journal
        BY <4>2, <3>1, <1>t, DoneKept DEF JournalPrefix
      <4>3. QED BY <2>2, <4>1, <4>2
    <3>5. Return(s, i, r, TRUE) => ContextPrefix'
      BY <3>1, <3>3, <1>t, RecordedSettles DEF Return
    <3>6. ASSUME DbFault(s, i) PROVE ContextPrefix'
      <4>1. "Database" \in UnrecordedCode
        BY DEF UnrecordedCode
      <4>2. QED
        BY <2>1, <3>1, <3>6, <4>1, <1>t, <1>w, UnrecordedSettles
           DEF DbFault, Return
    <3>7. ContextPrefix'
      BY <2>2, <3>5, <3>6
    <3>8. EffectPrefix'
      BY <2>1, <3>1, <1>t, EffectsKept
    <3>9. QED BY <3>4, <3>7, <3>8 DEF PrefixInv
  <2>3. CASE /\ Return(s, i, Err("ConflictingIDError"), FALSE)
             /\ journal' = journal
    <3>1. "ConflictingIDError" \in UnrecordedCode
      BY DEF UnrecordedCode
    <3>2. ContextPrefix'
      BY <2>1, <2>3, <3>1, <1>t, <1>w, UnrecordedSettles DEF Return
    <3>3. QED BY <2>1, <2>3, <3>2, <1>j
  <2>4. QED BY <1>14, <2>2, <2>3 DEF RecordStep
<1>15. ASSUME NEW s \in Slot, Finish(s) \/ FinishFails(s) \/ Crash(s)
       PROVE  PrefixInv'
  <2>1. /\ exec' = [exec EXCEPT ![s] = Idle] /\ journal' = journal
        /\ UNCHANGED effects
    BY <1>15 DEF Finish, FinishFails, Crash
  <2>2. Settled(journal', Idle)
    BY AtRestSettled DEF Idle
  <2>3. ContextPrefix'
    BY <2>1, <2>2, <1>t, ContextPrefixUpdate
  <2>4. QED BY <2>1, <2>3, <1>j
<1>16. ASSUME NEW s \in Slot, DbFails(s) PROVE PrefixInv'
  <2>1. /\ journal' = journal /\ UNCHANGED effects
        /\ exec[s].phase # "idle"
    BY <1>16 DEF DbFails, HasNext, AtLive
  <2>2. PICK i \in 1 .. Len(Calls(s)) : DbFault(s, i)
    BY <1>16, <1>t, CallType DEF DbFails, HasNext, AtLive
  <2>3. Resume(s, i, Err("Database")) /\ "Database" \in UnrecordedCode
    BY <2>2 DEF DbFault, Return, UnrecordedCode
  <2>4. ContextPrefix'
    BY <2>1, <2>3, <1>t, UnrecordedSettles
  <2>5. QED BY <2>1, <2>4, <1>j
<1>17. CASE UNCHANGED vars
  BY <1>17, <1>t, <1>j DEF vars, ContextPrefix
<1>18. QED
  BY <1>1, <1>2, <1>3, <1>4, <1>5, <1>6, <1>8, <1>9, <1>10, <1>11, <1>12,
     <1>13, <1>14, <1>15, <1>16, <1>17 DEF Next, Progress

\* An empty journal is a prefix.
LEMMA PrefixInit == Init => PrefixInv
<1> SUFFICES ASSUME Init PROVE PrefixInv
  OBVIOUS
<1>1. JournalPrefix
  BY DEF Init, JournalPrefix
<1>2. ContextPrefix
  BY AtRestSettled DEF Init, ContextPrefix, Idle
<1>3. EffectPrefix
  BY DEF Init, EffectPrefix
<1>4. QED BY <1>1, <1>2, <1>3 DEF PrefixInv

\* When bodies let the runtime's own errors through, no row is ever written
\* while an earlier call of the workflow has none.
THEOREM JournalHasNoGaps == Spec => []JournalContiguous
<1>1. CASE ~WellBehaved
  BY <1>1, PTL DEF JournalContiguous
<1>2. CASE WellBehaved
  <2>1. PrefixInv /\ TypeOK => JournalContiguous
    <3> SUFFICES ASSUME PrefixInv, TypeOK, NEW r \in journal, r.fid > 1
                 PROVE  Recorded(r.wf, r.fid - 1)
      BY DEF JournalContiguous
    <3>1. r.fid - 1 \in 1 .. r.fid
      BY DEF TypeOK, TablesOK, JournalRow
    <3>2. Done(journal, r.wf, r.fid)
      BY DEF PrefixInv, JournalPrefix
    <3>3. QED BY <3>1, <3>2 DEF Done, Recorded, Row
  <2>2. TypeOK /\ PrefixInv /\ [Next]_vars => PrefixInv'
    BY <1>2, PrefixStep
  <2>3. QED BY <2>1, <2>2, TypeInit, TypeStep, PrefixInit, PTL DEF Spec
<1>3. QED BY <1>1, <1>2

\* Under the same condition no message, event or stream entry of a call exists
\* before the call that precedes it is on record.
THEOREM EffectsNeverRunAhead == Spec => []EffectsFollowJournal
<1>1. PrefixInv /\ TypeOK => EffectsFollowJournal
  <2> SUFFICES ASSUME PrefixInv, TypeOK, NEW w \in Workflow,
                      NEW i \in Effects(w), i > 1
               PROVE  Recorded(w, i - 1)
    BY DEF EffectsFollowJournal
  <2>1. i \in Nat /\ Done(journal, w, i - 1)
    <3>1. CASE i \in {notes[n].fid : n \in {m \in DOMAIN notes : notes[m].wf = w}}
      <4>1. PICK n \in DOMAIN notes : notes[n].wf = w /\ i = notes[n].fid
        BY <3>1
      <4>2. notes[n] \in Note
        BY <4>1 DEF TypeOK, TablesOK
      <4>3. QED BY <4>1, <4>2 DEF Note, PrefixInv, EffectPrefix
    <3>2. CASE i \in {h.fid : h \in {g \in history : g.wf = w}}
      BY <3>2 DEF TypeOK, TablesOK, HistoryRow, PrefixInv, EffectPrefix
    <3>3. CASE i \in UNION {{streams[w][k][n].fid : n \in DOMAIN streams[w][k]} :
                               k \in Key}
      <4>1. PICK k \in Key : \E n \in DOMAIN streams[w][k] :
               i = streams[w][k][n].fid
        BY <3>3
      <4>2. PICK n \in DOMAIN streams[w][k] : i = streams[w][k][n].fid
        BY <4>1
      <4>3. streams[w][k] \in Seq(StreamEntry)
        BY DEF TypeOK, TablesOK
      <4>4. streams[w][k][n] \in StreamEntry
        BY <4>2, <4>3
      <4>5. QED BY <4>2, <4>4 DEF StreamEntry, PrefixInv, EffectPrefix
    <3>4. QED BY <3>1, <3>2, <3>3 DEF Effects
  <2>2. i - 1 \in 1 .. i - 1
    BY <2>1
  <2>3. QED BY <2>1, <2>2 DEF Done, Recorded, Row
<1>2. ~WellBehaved => EffectsFollowJournal
  BY DEF EffectsFollowJournal
<1>3. CASE ~WellBehaved
  BY <1>2, <1>3, PTL
<1>4. CASE WellBehaved
  <2>1. TypeOK /\ PrefixInv /\ [Next]_vars => PrefixInv'
    BY <1>4, PrefixStep
  <2>2. QED BY <1>1, <2>1, TypeInit, TypeStep, PrefixInit, PTL DEF Spec
<1>5. QED BY <1>3, <1>4
-----------------------------------------------------------------------------
(* The journal implements OutcomeOnce.                                     *)

\* What the abstraction keeps of a row, or of an observation.
Outcome(r) == [wf |-> r.wf, fid |-> r.fid, fname |-> r.fname,
               ok |-> r.ok, val |-> r.val]

\* The variables of OutcomeOnce.
Decided == {Outcome(r) : r \in journal}
Observed == {Outcome(r) : r \in {q \in seen : q.recorded}}

\* A step that writes no row and tells nothing recorded is a stutter.
LEMMA SilentStutters ==
    ASSUME journal' = journal,
           \A q : q.recorded => (q \in seen' <=> q \in seen)
    PROVE  UNCHANGED <<Decided, Observed>>
BY DEF Decided, Observed

\* Such are the return of an unrecorded error ...
LEMMA UnrecordedIsSilent ==
    ASSUME NEW s, NEW i, NEW r, Return(s, i, r, FALSE)
    PROVE  \A q : q.recorded => (q \in seen' <=> q \in seen)
<1> DEFINE o == [wf |-> exec[s].wf, fid |-> i,
                 fname |-> FunctionName(Calls(s)[i]), ok |-> r.ok,
                 val |-> r.val, code |-> r.code, recorded |-> FALSE]
<1>1. seen' = seen \cup {o} /\ ~o.recorded
  BY DEF Return
<1> QED
  BY <1>1

\* ... and a reply, whether it arrives or not.
LEMMA ReplyIsSilent ==
    ASSUME NEW s, NEW r, Reply(s, r)
    PROVE  \A q : q.recorded => (q \in seen' <=> q \in seen)
<1>1. CASE Hold(s, r)
  BY <1>1 DEF Hold
<1>2. CASE DbFault(s, exec[s].fid)
  BY <1>2, UnrecordedIsSilent DEF DbFault
<1> QED
  BY <1>1, <1>2 DEF Reply

\* What the return of a recorded outcome adds to Observed.
LEMMA RecordedIsObserved ==
    ASSUME NEW s, NEW i, NEW r, Return(s, i, r, TRUE)
    PROVE  Observed' = Observed \cup
              {[wf |-> exec[s].wf, fid |-> i,
                fname |-> FunctionName(Calls(s)[i]), ok |-> r.ok,
                val |-> r.val]}
<1> DEFINE o == [wf |-> exec[s].wf, fid |-> i,
                 fname |-> FunctionName(Calls(s)[i]), ok |-> r.ok,
                 val |-> r.val, code |-> r.code, recorded |-> TRUE]
<1>1. seen' = seen \cup {o} /\ o.recorded
  BY DEF Return
<1>2. Outcome(o) = [wf |-> exec[s].wf, fid |-> i,
                    fname |-> FunctionName(Calls(s)[i]), ok |-> r.ok,
                    val |-> r.val]
  BY DEF Outcome
<1>3. Observed' = Observed \cup {Outcome(o)}
  BY <1>1 DEF Observed
<1> QED
  BY <1>2, <1>3

\* A replay observes what was decided.
LEMMA ReplayObserves ==
    ASSUME TypeOK, JournalInv, NEW s \in Slot, ReplayStep(s)
    PROVE  [Outcomes!Next]_<<Decided, Observed>>
<1> DEFINE i == exec[s].fid + 1
<1>1. journal' = journal
  BY DEF ReplayStep, tables
<1>2. PICK r \in Row(exec[s].wf, i) :
        \/ Return(s, i, Err("UnexpectedStep"), FALSE)
        \/ /\ NameMatches(r, Calls(s)[i])
           /\ r.ok
           /\ Return(s, i, Ok(r.val), TRUE)
        \/ /\ NameMatches(r, Calls(s)[i])
           /\ ~r.ok
           /\ Return(s, i, Err("StepExecutionError"), TRUE)
  BY DEF ReplayStep
<1>3. CASE Return(s, i, Err("UnexpectedStep"), FALSE)
  BY <1>1, <1>3, UnrecordedIsSilent, SilentStutters
<1>4. ASSUME NEW x, NameMatches(r, Calls(s)[i]), Return(s, i, x, TRUE),
             x.ok = r.ok, x.val = r.val
      PROVE  Outcomes!Observe
  <2>1. r \in journal /\ r.wf = exec[s].wf /\ r.fid = i
        /\ r.fname = FunctionName(Calls(s)[i])
    BY <1>4 DEF Row, NameMatches
  <2>2. Observed' = Observed \cup {Outcome(r)}
    <3>1. Observed' = Observed \cup
            {[wf |-> exec[s].wf, fid |-> i,
              fname |-> FunctionName(Calls(s)[i]), ok |-> x.ok,
              val |-> x.val]}
      BY <1>4, RecordedIsObserved, Zenon
    <3>2. Outcome(r) = [wf |-> exec[s].wf, fid |-> i,
                        fname |-> FunctionName(Calls(s)[i]), ok |-> x.ok,
                        val |-> x.val]
      BY <1>4, <2>1, Zenon DEF Outcome
    <3> QED
      BY <3>1, <3>2, Zenon
  <2>3. Outcome(r) \in Decided /\ Decided' = Decided
    BY <1>1, <2>1 DEF Decided
  <2> QED
    BY <2>2, <2>3 DEF Outcomes!Observe, Decided, Observed, Outcome
<1>5. r \in journal /\ r.ok \in BOOLEAN
  BY DEF Row, TypeOK, TablesOK, JournalRow
<1>6. ~r.ok => r.val = Nil
  BY <1>5 DEF JournalInv, FailuresAreEmpty
<1>7. CASE /\ NameMatches(r, Calls(s)[i]) /\ r.ok
           /\ Return(s, i, Ok(r.val), TRUE)
  <2>1. Ok(r.val).ok = r.ok /\ Ok(r.val).val = r.val
    BY <1>5, <1>7 DEF Ok
  <2>2. Outcomes!Observe
    BY <1>4, <1>7, <2>1, Zenon
  <2> QED
    BY <2>2 DEF Outcomes!Next
<1>8. CASE /\ NameMatches(r, Calls(s)[i]) /\ ~r.ok
           /\ Return(s, i, Err("StepExecutionError"), TRUE)
  <2>1. LET x == Err("StepExecutionError") IN x.ok = r.ok /\ x.val = r.val
    BY <1>5, <1>6, <1>8 DEF Err
  <2>2. Outcomes!Observe
    BY <1>4, <1>8, <2>1, Zenon
  <2> QED
    BY <2>2 DEF Outcomes!Next
<1> QED
  BY <1>2, <1>3, <1>7, <1>8

\* The INSERT decides, in order, whether or not its caller learns of it; one
\* that is refused decides nothing.
LEMMA RecordDecides ==
    ASSUME TypeOK, PrefixInv, NEW s \in Slot, RecordStep(s)
    PROVE  [Outcomes!Next]_<<Decided, Observed>>
<1> DEFINE w == exec[s].wf
           i == exec[s].fid
           r == exec[s].res
           row == [wf |-> w, fid |-> i, fname |-> FunctionName(Calls(s)[i]),
                   ok |-> r.ok, val |-> r.val, msg |-> r.msg]
           o == Outcome(row)
<1>1. CASE /\ Conflict(w, i)
           /\ Return(s, i, Err("ConflictingIDError"), FALSE)
           /\ journal' = journal
  BY <1>1, UnrecordedIsSilent, SilentStutters
<1>2. CASE /\ ~Conflict(w, i) /\ journal' = journal \cup {row}
           /\ Return(s, i, r, TRUE) \/ DbFault(s, i)
  <2>1. o = [wf |-> w, fid |-> i, fname |-> FunctionName(Calls(s)[i]),
             ok |-> r.ok, val |-> r.val]
    BY DEF Outcome
  <2>2. Decided' = Decided \cup {o}
    BY <1>2 DEF Decided
  <2>3. Observed' \in {Observed, Observed \cup {o}}
    <3>1. CASE Return(s, i, r, TRUE)
      <4>1. Observed' = Observed \cup
                           {[wf |-> exec[s].wf, fid |-> i, fname |-> FunctionName(Calls(s)[i]),
                             ok |-> r.ok, val |-> r.val]}
        BY <3>1, RecordedIsObserved, ZenonT(60)
      <4> QED
        BY <2>1, <4>1, ZenonT(60)
    <3>2. CASE DbFault(s, i)
      <4>1. \A q : q.recorded => (q \in seen' <=> q \in seen)
        BY <3>2, UnrecordedIsSilent DEF DbFault
      <4> QED
        BY <4>1 DEF Observed
    <3> QED
      BY <1>2, <3>1, <3>2
  <2>4. \A d \in Decided : ~(d.wf = o.wf /\ d.fid = o.fid)
    <3>1. \A q \in journal : ~(q.wf = w /\ q.fid = i)
      BY <1>2 DEF Conflict, Recorded, Row
    <3> QED
      BY <2>1, <3>1 DEF Decided, Outcome
  <2>5. o.fid = 1 \/ \E d \in Decided : d.wf = o.wf /\ d.fid + 1 = o.fid
    <3>1. exec[s].phase = "record"
      BY DEF RecordStep
    <3>2. i \in 1 .. Len(Calls(s)) /\ Calls(s) \in Seq(Op)
      BY <3>1, CallType DEF TypeOK
    <3>3. Done(journal, w, i - 1)
      BY <3>1 DEF PrefixInv, ContextPrefix, Settled, Working
    <3>4. CASE i # 1
      <4>1. i - 1 \in 1 .. i - 1 /\ (i - 1) + 1 = i
        BY <3>2, <3>4
      <4>2. PICK q \in journal : q.wf = w /\ q.fid = i - 1
        BY <3>3, <4>1 DEF Done
      <4>3. Outcome(q) \in Decided /\ Outcome(q).wf = w /\ Outcome(q).fid = i - 1
        BY <4>2 DEF Decided, Outcome
      <4> QED
        BY <2>1, <4>1, <4>3
    <3> QED
      BY <2>1, <3>4
  <2>6. o \in Decided'
    BY <2>2
  <2>7. Outcomes!Decide
    BY <2>2, <2>3, <2>4, <2>5, <2>6
    DEF Outcomes!Decide, Outcomes!Undecided, Outcomes!InOrder, Decided,
        Observed, Outcome
  <2> QED
    BY <2>7 DEF Outcomes!Next
<1> QED
  BY <1>1, <1>2 DEF RecordStep

\* Every other action is silent.
LEMMA OthersAreSilent ==
    ASSUME [Next]_vars,
           \A s \in Slot : ~ReplayStep(s) /\ ~RecordStep(s)
    PROVE  UNCHANGED <<Decided, Observed>>
<1> USE DEF effects, tables
<1>k. ASSUME journal' = journal, seen' = seen
      PROVE  UNCHANGED <<Decided, Observed>>
  BY <1>k, SilentStutters
<1>1. ASSUME NEW s \in Slot,
             Send(s) \/ RecvMessage(s) \/ ConsumePicked(s) \/ SetEvent(s)
                \/ CheckStream(s) \/ AppendStream(s) \/ DbFails(s)
      PROVE  UNCHANGED <<Decided, Observed>>
  <2>1. journal' = journal
    BY <1>1 DEF Send, RecvMessage, ConsumePicked, SetEvent, CheckStream,
                AppendStream, DbFails
  <2>2. \/ seen' = seen
        \/ \E r : Reply(s, r)
        \/ \E i, r : Return(s, i, r, FALSE)
    BY <1>1, Zenon DEF Send, RecvMessage, ConsumePicked, SetEvent, CheckStream,
                       AppendStream, DbFails, DbFault
  <2> QED
    BY <2>1, <2>2, SilentStutters, ReplyIsSilent, UnrecordedIsSilent
<1>2. ASSUME NEW s \in Slot,
             GoLive(s) \/ RunStep(s) \/ SetDeadline(s) \/ PickMessage(s)
                \/ RecvTimeout(s) \/ GetEvent(s) \/ Finish(s)
                \/ FinishFails(s) \/ Crash(s)
      PROVE  UNCHANGED <<Decided, Observed>>
  BY <1>2, <1>k DEF GoLive, RunStep, SetDeadline, PickMessage, RecvTimeout,
                    GetEvent, Hold, Finish, FinishFails, Crash
<1>3. CASE \/ \E w \in Workflow : InitWorkflow(w)
           \/ \E s \in Slot, w \in Workflow, v \in Version : Start(s, w, v)
           \/ UNCHANGED vars
  BY <1>3, <1>k DEF InitWorkflow, Start, vars
<1> QED
  BY <1>1, <1>2, <1>3 DEF Next, Progress

\* When bodies let the runtime's own errors through, the journal, with its
\* crashes, replays, lost replies and racing executions, implements OutcomeOnce:
\* each call is decided once, in order, and everybody is told what was decided.
THEOREM JournalImplementsOutcomeOnce ==
    ASSUME WellBehaved
    PROVE  Spec => ImplementsOutcomeOnce
<1>1. Init => Outcomes!Init
  BY DEF Init, Outcomes!Init
<1>2. TypeOK /\ JournalInv /\ PrefixInv /\ [Next]_vars
         => [Outcomes!Next]_(Outcomes!vars)
  <2> SUFFICES ASSUME TypeOK, JournalInv, PrefixInv, [Next]_vars
               PROVE  [Outcomes!Next]_(Outcomes!vars)
    OBVIOUS
  <2>1. [Outcomes!Next]_<<Decided, Observed>>
    BY ReplayObserves, RecordDecides, OthersAreSilent, Zenon
  <2> QED
    BY <2>1 DEF Outcomes!vars, Decided, Observed, Outcome
<1>3. TypeOK /\ PrefixInv /\ [Next]_vars => PrefixInv'
  BY PrefixStep
<1> QED
  BY <1>1, <1>2, <1>3, TypeInit, TypeStep, JournalInit, JournalStep, PrefixInit,
     PTL DEF Spec, Outcomes!Spec, ImplementsOutcomeOnce
-----------------------------------------------------------------------------
(* What a step does to a context and to the journal.                       *)

\* Slot s takes context e of the same execution.
Keeps(s, e) ==
    /\ exec' = [exec EXCEPT ![s] = e]
    /\ e.wf = exec[s].wf /\ e.ver = exec[s].ver

\* A start; an end, orderly or not.
Enters(s, e) ==
    /\ exec' = [exec EXCEPT ![s] = e] /\ UNCHANGED <<journal, status>>
    /\ exec[s].phase = "idle"
    /\ e.phase = "body" /\ e.fid = 0 /\ e.wf \in Workflow
    /\ starts' = [starts EXCEPT ![e.wf] = @ + 1]
    /\ ~Overlap => \A t \in Slot : exec[t].wf # e.wf
Leaves(s, e) ==
    /\ exec' = [exec EXCEPT ![s] = e] /\ UNCHANGED <<journal, starts>>
    /\ exec[s].phase # "idle" /\ e = Idle

\* A call goes live, works, and returns.
Goes(s, e) ==
    /\ Keeps(s, e) /\ UNCHANGED <<journal, starts>>
    /\ exec[s].phase = "body" /\ e.phase = "live"
    /\ e.fid = exec[s].fid + 1 /\ ~Recorded(exec[s].wf, e.fid)
Works(s, e) ==
    /\ Keeps(s, e) /\ UNCHANGED <<journal, starts>>
    /\ exec[s].phase \in Working /\ e.phase \in Working \ {"live"}
    /\ e.fid = exec[s].fid
    /\ e.phase = "append" => ~Closed(exec[s].wf, Calls(s)[exec[s].fid].key)
Returns(s, e) ==
    /\ Keeps(s, e) /\ UNCHANGED starts
    /\ \/ exec[s].phase = "body" /\ e.fid = exec[s].fid + 1
       \/ exec[s].phase \in Working /\ e.fid = exec[s].fid
    /\ e.phase \in {"body", "failed"} /\ e.fid \in 1 .. Len(Calls(s))

\* It returns an error that no row records, the outcome of a row, or the
\* outcome of the row it writes.
Fails(s, e) ==
    /\ Returns(s, e) /\ UNCHANGED journal
    /\ WellBehaved => e.phase = "failed"
Survives(s, i, q) == q.ok \/ Calls(s)[i].catches # {}
Replays(s, e) ==
    /\ Returns(s, e) /\ UNCHANGED journal
    /\ \E q \in Row(exec[s].wf, e.fid) :
          /\ q.fname = FunctionName(Calls(s)[e.fid])
          /\ e.phase = "body" => Survives(s, e.fid, q)
NewRow(s) ==
    [wf |-> exec[s].wf, fid |-> exec[s].fid,
     fname |-> FunctionName(Calls(s)[exec[s].fid]), ok |-> exec[s].res.ok,
     val |-> exec[s].res.val, msg |-> exec[s].res.msg]
Records(s, e) ==
    /\ Returns(s, e)
    /\ exec[s].phase = "record" /\ ~Recorded(exec[s].wf, exec[s].fid)
    /\ journal' = journal \cup {NewRow(s)}
    /\ WellBehaved /\ e.phase = "body" => Survives(s, e.fid, NewRow(s))

\* The context of a call that returns.
LEMMA ReturnKeeps ==
    ASSUME ContextsOK, NEW s \in Slot, NEW i, NEW r, Resume(s, i, r)
    PROVE  \E e : /\ Keeps(s, e) /\ e.fid = i /\ e.phase \in {"body", "failed"}
                  /\ e.phase = "body" => r.ok \/ r.code \in Calls(s)[i].catches
<1> DEFINE e == [exec[s] EXCEPT
                   !.phase = IF r.ok \/ r.code \in Calls(s)[i].catches
                             THEN "body" ELSE "failed",
                   !.fid = i, !.res = r]
<1>1. exec' = [exec EXCEPT ![s] = e] /\ exec[s] \in Execution
  BY DEF Resume, ContextsOK
<1>2. /\ e.wf = exec[s].wf /\ e.ver = exec[s].ver /\ e.fid = i
      /\ e.phase \in {"body", "failed"}
      /\ e.phase = "body" => r.ok \/ r.code \in Calls(s)[i].catches
  BY <1>1 DEF Execution
<1>3. QED BY <1>1, <1>2, Zenon DEF Keeps

\* An error that no row records.
LEMMA UnrecordedFails ==
    ASSUME ContextsOK, NEW s \in Slot, exec[s].phase # "idle",
           NEW i \in 1 .. Len(Calls(s)), NEW c \in UnrecordedCode,
           Resume(s, i, Err(c)), UNCHANGED <<journal, starts>>,
           \/ exec[s].phase = "body" /\ i = exec[s].fid + 1
           \/ exec[s].phase \in Working /\ i = exec[s].fid
    PROVE  \E e : Fails(s, e)
<1>1. PICK e : /\ Keeps(s, e) /\ e.fid = i /\ e.phase \in {"body", "failed"}
               /\ e.phase = "body" => Err(c).ok \/ Err(c).code \in Calls(s)[i].catches
  BY ReturnKeeps
<1>2. ~Err(c).ok /\ Err(c).code = c
  BY OutcomeShape, Zenon
<1>3. WellBehaved => c \notin Calls(s)[i].catches
  <2>1. /\ exec[s].ver \in Version /\ exec[s].wf \in Workflow
        /\ Calls(s) = Body[exec[s].ver][exec[s].wf]
        /\ i \in DOMAIN Calls(s)
    BY CallType DEF Calls
  <2>2. QED BY <2>1 DEF WellBehaved
<1>4. WellBehaved => e.phase = "failed"
  BY <1>1, <1>2, <1>3
<1>5. QED BY <1>1, <1>4 DEF Fails, Returns

\* An outcome that waits to be recorded, and a reply.
LEMMA HoldWorks ==
    ASSUME ContextsOK, NEW s \in Slot, exec[s].phase \in Working, NEW r,
           Hold(s, r), UNCHANGED <<journal, starts>>
    PROVE  \E e : Works(s, e)
<1> DEFINE e == [exec[s] EXCEPT !.phase = "record", !.res = r]
<1>1. exec' = [exec EXCEPT ![s] = e]
  BY DEF Hold
<1>2. /\ e.wf = exec[s].wf /\ e.fid = exec[s].fid /\ e.ver = exec[s].ver
      /\ e.phase = "record"
  BY DEF ContextsOK, Execution
<1> HIDE DEF e
<1>3. QED BY <1>1, <1>2 DEF Works, Keeps, Working

\* The context of a call whose reply arrives, or is lost.
LEMMA ReplyKeeps ==
    ASSUME ContextsOK, NEW s \in Slot, NEW r, Reply(s, r)
    PROVE  \E e : /\ Keeps(s, e) /\ e.fid = exec[s].fid
                  /\ \/ e.phase = "record" /\ e.res = r
                     \/ e.phase \in {"body", "failed"}
<1>1. CASE Hold(s, r)
  <2> DEFINE e == [exec[s] EXCEPT !.phase = "record", !.res = r]
  <2>1. exec' = [exec EXCEPT ![s] = e]
    BY <1>1 DEF Hold
  <2>2. /\ e.wf = exec[s].wf /\ e.fid = exec[s].fid /\ e.ver = exec[s].ver
        /\ e.phase = "record" /\ e.res = r
    BY DEF ContextsOK, Execution
  <2> HIDE DEF e
  <2>3. QED BY <2>1, <2>2 DEF Keeps
<1>2. CASE DbFault(s, exec[s].fid)
  BY <1>2, ReturnKeeps DEF DbFault, Return
<1>3. QED BY <1>1, <1>2 DEF Reply

LEMMA DbFaultFails ==
    ASSUME ContextsOK, NEW s \in Slot, exec[s].phase # "idle", NEW i, DbFault(s, i),
           UNCHANGED <<journal, starts>>, i \in 1 .. Len(Calls(s)),
           \/ exec[s].phase = "body" /\ i = exec[s].fid + 1
           \/ exec[s].phase \in Working /\ i = exec[s].fid
    PROVE  \E e : Fails(s, e)
<1>1. "Database" \in UnrecordedCode /\ Resume(s, i, Err("Database"))
  BY DEF UnrecordedCode, DbFault, Return
<1>2. QED BY <1>1, UnrecordedFails

LEMMA ReplyWorks ==
    ASSUME ContextsOK, NEW s \in Slot, exec[s].phase \in Working, NEW r,
           Reply(s, r), UNCHANGED <<journal, starts>>
    PROVE  \E e : Works(s, e) \/ Fails(s, e)
<1>1. exec[s].phase # "idle" /\ exec[s].fid \in 1 .. Len(Calls(s))
  BY CallType DEF Working
<1>2. QED BY <1>1, HoldWorks, DbFaultFails DEF Reply

\* The INSERT of an outcome: refused, taken, or taken with the reply lost.
LEMMA RecordReturns ==
    ASSUME ContextsOK, NEW s \in Slot, RecordStep(s)
    PROVE  \E e : Fails(s, e) \/ Records(s, e)
<1> DEFINE w == exec[s].wf
           i == exec[s].fid
           r == exec[s].res
<1>1. /\ exec[s].phase = "record" /\ exec[s].phase \in Working /\ UNCHANGED starts
      /\ exec[s].phase # "idle" /\ i \in 1 .. Len(Calls(s))
  BY CallType DEF RecordStep, Working
<1>2. CASE /\ Conflict(w, i)
           /\ Return(s, i, Err("ConflictingIDError"), FALSE)
           /\ journal' = journal
  <2>1. "ConflictingIDError" \in UnrecordedCode /\ Resume(s, i, Err("ConflictingIDError"))
    BY <1>2 DEF UnrecordedCode, Return
  <2>2. QED BY <1>1, <1>2, <2>1, UnrecordedFails
<1>3. CASE /\ ~Conflict(w, i) /\ journal' = journal \cup {NewRow(s)}
           /\ Return(s, i, r, TRUE)
  <2>1. PICK e : /\ Keeps(s, e) /\ e.fid = i /\ e.phase \in {"body", "failed"}
                 /\ e.phase = "body" => r.ok \/ r.code \in Calls(s)[i].catches
    BY <1>3, ReturnKeeps DEF Return
  <2>2. e.phase = "body" => Survives(s, e.fid, NewRow(s))
    BY <2>1 DEF Survives, NewRow
  <2>3. Records(s, e)
    BY <1>1, <1>3, <2>1, <2>2 DEF Records, Returns, Conflict
  <2>4. QED BY <2>3
<1>4. CASE /\ ~Conflict(w, i) /\ journal' = journal \cup {NewRow(s)}
           /\ DbFault(s, i)
  <2>1. PICK e : /\ Keeps(s, e) /\ e.fid = i /\ e.phase \in {"body", "failed"}
                 /\ e.phase = "body" => \/ Err("Database").ok
                                        \/ Err("Database").code \in Calls(s)[i].catches
    BY <1>4, ReturnKeeps DEF DbFault, Return
  <2>2. WellBehaved => "Database" \notin Calls(s)[i].catches
    <3>1. /\ exec[s].ver \in Version /\ exec[s].wf \in Workflow
          /\ Calls(s) = Body[exec[s].ver][exec[s].wf]
          /\ i \in DOMAIN Calls(s) /\ "Database" \in UnrecordedCode
      BY <1>1, CallType DEF Calls, UnrecordedCode
    <3>2. QED BY <3>1 DEF WellBehaved
  <2>3. ~Err("Database").ok /\ Err("Database").code = "Database"
    BY OutcomeShape, Zenon
  <2>4. WellBehaved => e.phase # "body"
    BY <2>1, <2>2, <2>3
  <2>5. Records(s, e)
    BY <1>1, <1>4, <2>1, <2>4 DEF Records, Returns, Conflict
  <2>6. QED BY <2>5
<1>5. QED BY <1>2, <1>3, <1>4 DEF RecordStep, NewRow

\* Every step, seen from the context it changes: one proof step per action.
LEMMA StepContexts ==
    ASSUME TypeOK, [Next]_vars
    PROVE  \/ UNCHANGED <<exec, journal, starts>>
           \/ \E s \in Slot : \E e :
                 \/ Enters(s, e) \/ Leaves(s, e) \/ Goes(s, e) \/ Works(s, e)
                 \/ Fails(s, e) \/ Replays(s, e) \/ Records(s, e)
<1> DEFINE Seen ==
              \/ UNCHANGED <<exec, journal, starts>>
              \/ \E s \in Slot : \E e :
                    \/ Enters(s, e) \/ Leaves(s, e) \/ Goes(s, e) \/ Works(s, e)
                    \/ Fails(s, e) \/ Replays(s, e) \/ Records(s, e)
<1> USE DEF effects, tables
<1>t. ContextsOK
  BY DEF TypeOK
<1>l. ASSUME NEW s \in Slot, NEW kinds, AtLive(s, kinds)
      PROVE  exec[s].phase \in Working
  BY <1>l DEF AtLive, Working
<1>w. ASSUME NEW s \in Slot, exec[s].phase \in Working
      PROVE  exec[s].phase # "idle" /\ exec[s].fid \in 1 .. Len(Calls(s))
  BY <1>w, <1>t, CallType DEF Working
<1>n. ASSUME NEW s \in Slot, HasNext(s)
      PROVE  /\ exec[s].phase = "body" /\ exec[s].phase # "idle"
             /\ exec[s].fid + 1 \in 1 .. Len(Calls(s))
  BY <1>n, <1>t, CallType DEF HasNext
<1>1. ASSUME NEW w \in Workflow, InitWorkflow(w) PROVE Seen
  BY <1>1 DEF InitWorkflow
<1>2. ASSUME NEW s \in Slot, NEW w \in Workflow, NEW v \in Version, Start(s, w, v)
      PROVE  Seen
  <2> DEFINE e == [phase |-> "body", wf |-> w, ver |-> v, fid |-> 0, res |-> Ok(Nil)]
  <2>1. Enters(s, e)
    BY <1>2 DEF Start, Enters
  <2>2. QED BY <2>1
<1>3. ASSUME NEW s \in Slot, ReplayStep(s) PROVE Seen
  <2> DEFINE i == exec[s].fid + 1
  <2>1. UNCHANGED <<journal, starts>> /\ HasNext(s)
    BY <1>3 DEF ReplayStep
  <2>2. PICK q \in Row(exec[s].wf, i) :
          \/ Return(s, i, Err("UnexpectedStep"), FALSE)
          \/ NameMatches(q, Calls(s)[i]) /\ q.ok /\ Return(s, i, Ok(q.val), TRUE)
          \/ NameMatches(q, Calls(s)[i]) /\ Return(s, i, Err("StepExecutionError"), TRUE)
    BY <1>3 DEF ReplayStep
  <2>3. CASE Return(s, i, Err("UnexpectedStep"), FALSE)
    <3>1. "UnexpectedStep" \in UnrecordedCode /\ Resume(s, i, Err("UnexpectedStep"))
      BY <2>3 DEF UnrecordedCode, Return
    <3>2. QED BY <2>1, <3>1, <1>t, <1>n, UnrecordedFails
  <2>4. ASSUME NameMatches(q, Calls(s)[i]), NEW r, Return(s, i, r, TRUE), r.ok => q.ok
        PROVE  Seen
    <3>1. PICK e : /\ Keeps(s, e) /\ e.fid = i /\ e.phase \in {"body", "failed"}
                   /\ e.phase = "body" => r.ok \/ r.code \in Calls(s)[i].catches
      BY <2>4, <1>t, ReturnKeeps DEF Return
    <3>2. Replays(s, e)
      BY <2>1, <2>4, <3>1, <1>n DEF Replays, Returns, Survives, NameMatches
    <3>3. QED BY <3>2
  <2>5. ~Err("StepExecutionError").ok
    BY OutcomeShape
  <2>6. QED BY <2>2, <2>3, <2>4, <2>5
<1>4. ASSUME NEW s \in Slot, GoLive(s) PROVE Seen
  <2> DEFINE e == [exec[s] EXCEPT !.phase = "live", !.fid = exec[s].fid + 1]
  <2>1. /\ exec' = [exec EXCEPT ![s] = e] /\ UNCHANGED <<journal, starts>>
        /\ exec[s].phase = "body" /\ ~Recorded(exec[s].wf, exec[s].fid + 1)
    BY <1>4 DEF GoLive, HasNext
  <2>2. /\ e.wf = exec[s].wf /\ e.ver = exec[s].ver
        /\ e.fid = exec[s].fid + 1 /\ e.phase = "live"
    BY <1>t DEF ContextsOK, Execution
  <2> HIDE DEF e
  <2>3. Goes(s, e)
    BY <2>1, <2>2 DEF Goes, Keeps
  <2>4. QED BY <2>3
<1>5. ASSUME NEW s \in Slot,
             \/ RunStep(s) \/ SetDeadline(s)
             \/ RecvTimeout(s) \/ GetEvent(s)
      PROVE  Seen
  <2>1. /\ UNCHANGED <<journal, starts>>
        /\ exec[s].phase \in Working
        /\ \E r : Hold(s, r)
    BY <1>5, <1>l DEF RunStep, SetDeadline, RecvTimeout, GetEvent
  <2>2. QED BY <2>1, <1>t, HoldWorks
<1>6. ASSUME NEW s \in Slot, Send(s) PROVE Seen
  <2>1. exec[s].phase \in Working /\ UNCHANGED <<journal, starts>>
    BY <1>6, <1>l DEF Send
  <2>2. CASE Reply(s, Ok(Nil))
    BY <2>1, <2>2, <1>t, ReplyWorks
  <2>3. CASE Return(s, exec[s].fid, Err("NonExistentWorkflowError"), FALSE)
    <3>1. /\ "NonExistentWorkflowError" \in UnrecordedCode
          /\ Resume(s, exec[s].fid, Err("NonExistentWorkflowError"))
      BY <2>3 DEF UnrecordedCode, Return
    <3>2. QED BY <2>1, <3>1, <1>t, <1>w, UnrecordedFails
  <2>4. QED BY <1>6, <2>2, <2>3 DEF Send
<1>7. ASSUME NEW s \in Slot,
             \/ RecvMessage(s) \/ ConsumePicked(s) \/ SetEvent(s) \/ AppendStream(s)
      PROVE  Seen
  <2>1. exec[s].phase \in Working /\ UNCHANGED <<journal, starts>>
    BY <1>7, <1>l DEF RecvMessage, ConsumePicked, SetEvent, AppendStream, Working
  <2>2. \E r : Reply(s, r)
    BY <1>7 DEF RecvMessage, ConsumePicked, SetEvent, AppendStream
  <2>3. QED BY <2>1, <2>2, <1>t, ReplyWorks
<1>8. ASSUME NEW s \in Slot, PickMessage(s) PROVE Seen
  <2>1. PICK n : exec' = [exec EXCEPT ![s] = [exec[s] EXCEPT !.phase = "picked",
                                                             !.res = Message(n)]]
    BY <1>8 DEF PickMessage
  <2> DEFINE e == [exec[s] EXCEPT !.phase = "picked", !.res = Message(n)]
  <2>2. /\ e.wf = exec[s].wf /\ e.fid = exec[s].fid /\ e.ver = exec[s].ver
        /\ e.phase = "picked" /\ exec' = [exec EXCEPT ![s] = e]
    BY <2>1, <1>t DEF ContextsOK, Execution
  <2>3. exec[s].phase \in Working /\ UNCHANGED <<journal, starts>>
    BY <1>8, <1>l DEF PickMessage
  <2> HIDE DEF e
  <2>4. Works(s, e)
    BY <2>2, <2>3 DEF Works, Keeps, Working
  <2>5. QED BY <2>4
<1>9. ASSUME NEW s \in Slot, CheckStream(s) PROVE Seen
  <2>1. exec[s].phase \in Working /\ UNCHANGED <<journal, starts>> /\ exec[s].fid = exec[s].fid
    BY <1>9, <1>l DEF CheckStream
  <2>2. CASE Return(s, exec[s].fid, Err("StreamClosed"), FALSE)
    <3>1. "StreamClosed" \in UnrecordedCode /\ Resume(s, exec[s].fid, Err("StreamClosed"))
      BY <2>2 DEF UnrecordedCode, Return
    <3>2. QED BY <2>1, <3>1, <1>t, <1>w, UnrecordedFails
  <2>3. CASE exec' = [exec EXCEPT ![s] = [@ EXCEPT !.phase = "append"]]
    <3> DEFINE e == [exec[s] EXCEPT !.phase = "append"]
    <3>1. /\ e.wf = exec[s].wf /\ e.fid = exec[s].fid /\ e.ver = exec[s].ver
          /\ e.phase = "append"
      BY <1>t DEF ContextsOK, Execution
    <3>2. exec' = [exec EXCEPT ![s] = e]
      BY <2>3
    <3> HIDE DEF e
    <3>3. ~Closed(exec[s].wf, Calls(s)[exec[s].fid].key)
      <4>1. exec[s].phase = "live" /\ exec'[s] = e
        BY <1>9, <3>2, <1>t DEF CheckStream, AtLive, ContextsOK
      <4>2. ~Return(s, exec[s].fid, Err("StreamClosed"), FALSE)
        <5> SUFFICES ASSUME Return(s, exec[s].fid, Err("StreamClosed"), FALSE) PROVE FALSE
          OBVIOUS
        <5>1. PICK f : Keeps(s, f) /\ f.phase \in {"body", "failed"}
          BY <1>t, ReturnKeeps DEF Return
        <5>2. QED BY <3>1, <4>1, <5>1, <1>t DEF Keeps, ContextsOK
      <4>3. QED BY <1>9, <4>2 DEF CheckStream
    <3>4. Works(s, e)
      BY <2>1, <3>1, <3>2, <3>3 DEF Works, Keeps, Working
    <3>5. QED BY <3>4
  <2>4. QED BY <1>9, <2>2, <2>3 DEF CheckStream
<1>10. ASSUME NEW s \in Slot, RecordStep(s) PROVE Seen
  BY <1>10, <1>t, RecordReturns
<1>11. ASSUME NEW s \in Slot, Finish(s) \/ FinishFails(s) \/ Crash(s) PROVE Seen
  <2>1. /\ exec' = [exec EXCEPT ![s] = Idle] /\ UNCHANGED <<journal, starts>>
        /\ exec[s].phase # "idle"
    BY <1>11 DEF Finish, FinishFails, Crash, BodyDone, Restartable
  <2>2. QED BY <2>1 DEF Leaves
<1>12. ASSUME NEW s \in Slot, DbFails(s) PROVE Seen
  <2>1. UNCHANGED <<journal, starts>>
    BY <1>12 DEF DbFails
  <2>2. CASE HasNext(s) /\ DbFault(s, exec[s].fid + 1)
    BY <2>1, <2>2, <1>n, <1>t, DbFaultFails
  <2>3. CASE exec[s].phase \in Working /\ DbFault(s, exec[s].fid)
    BY <2>1, <2>3, <1>w, <1>t, DbFaultFails
  <2>4. QED BY <1>12, <2>2, <2>3, <1>l DEF DbFails, Working
<1>13. CASE UNCHANGED vars
  BY <1>13 DEF vars
<1>14. QED
  BY <1>1, <1>2, <1>3, <1>4, <1>5, <1>6, <1>7, <1>8, <1>9, <1>10, <1>11,
     <1>12, <1>13 DEF Next, Progress
\* Who changes the status column, and how.
LEMMA StatusStep ==
    ASSUME [Next]_vars
    PROVE  \/ status' = status
           \/ \E w \in Workflow : InitWorkflow(w)
           \/ \E s \in Slot : Finish(s)
<1> USE DEF tables, effects
<1>1. ASSUME NEW s \in Slot, Progress(s), ~Finish(s) PROVE status' = status
  BY <1>1 DEF Progress, ReplayStep, GoLive, RunStep, SetDeadline, Send, RecvMessage,
              PickMessage, ConsumePicked, RecvTimeout, SetEvent, GetEvent,
              CheckStream, AppendStream, RecordStep
<1>2. QED
  BY <1>1 DEF Next, vars, Start, DbFails, FinishFails, Crash
-----------------------------------------------------------------------------
(* A success is explained.                                                 *)

\* In journal j, each of the first n calls of w's body of version v is recorded
\* under its name, in error only where the body goes on after errors.
Explained(j, v, w, n) ==
    \A i \in 1 .. n : \E r \in j :
       /\ r.wf = w /\ r.fid = i /\ r.fname = FunctionName(Body[v][w][i])
       /\ r.ok \/ Body[v][w][i].catches # {}

\* A context between two calls has its calls so far explained; one inside a
\* call, the earlier ones.
Told(j, e) ==
    /\ e.phase = "body" => Explained(j, e.ver, e.wf, e.fid)
    /\ e.phase \in Working => Explained(j, e.ver, e.wf, e.fid - 1)

\* The inductive invariant behind SuccessIsExplained.
ExplainedInv ==
    /\ \A s \in Slot : Told(journal, exec[s])
    /\ \A w \in Workflow : status[w] = "SUCCESS" =>
          \E v \in Version : Explained(journal, v, w, Len(Body[v][w]))

LEMMA ExplainedKept ==
    ASSUME NEW j, NEW k, j \subseteq k, NEW v, NEW w, NEW n, Explained(j, v, w, n)
    PROVE  Explained(k, v, w, n)
BY DEF Explained

\* One more call, explained, after n - 1 explained ones.
LEMMA ExplainedNext ==
    ASSUME NEW j, NEW v, NEW w, NEW n \in Nat \ {0}, Explained(j, v, w, n - 1),
           NEW r \in j, r.wf = w, r.fid = n, r.fname = FunctionName(Body[v][w][n]),
           r.ok \/ Body[v][w][n].catches # {}
    PROVE  Explained(j, v, w, n)
BY DEF Explained

LEMMA JournalGrows == ASSUME TypeOK, [Next]_vars PROVE journal \subseteq journal'
BY StepContexts DEF Enters, Leaves, Goes, Works, Fails, Replays, Records

LEMMA ExplainedStep ==
    WellBehaved /\ TypeOK /\ ExplainedInv /\ [Next]_vars => ExplainedInv'
<1> SUFFICES ASSUME WellBehaved, TypeOK, ExplainedInv, [Next]_vars PROVE ExplainedInv'
  OBVIOUS
<1>t. /\ ContextsOK /\ journal \subseteq journal'
      /\ \A s \in Slot : exec[s] \in Execution /\ Told(journal, exec[s])
  BY JournalGrows DEF TypeOK, ContextsOK, ExplainedInv
<1>k. ASSUME NEW e, Told(journal, e) PROVE Told(journal', e)
  BY <1>k, <1>t, ExplainedKept DEF Told
<1>u. ASSUME NEW s \in Slot, NEW e, exec' = [exec EXCEPT ![s] = e], Told(journal', e)
      PROVE  \A t \in Slot : Told(journal', exec'[t])
  <2>1. \A t \in Slot : exec'[t] = IF t = s THEN e ELSE exec[t]
    BY <1>u, <1>t DEF ContextsOK
  <2>2. QED BY <1>u, <1>t, <1>k, <2>1
<1>n. ASSUME NEW s \in Slot, NEW e, Returns(s, e)
      PROVE  /\ e.fid \in Nat \ {0}
             /\ Explained(journal', e.ver, e.wf, e.fid - 1)
             /\ Calls(s)[e.fid] = Body[e.ver][e.wf][e.fid]
             /\ e.wf = exec[s].wf
  <2>1. /\ e.wf = exec[s].wf /\ e.ver = exec[s].ver /\ e.fid \in Nat \ {0}
        /\ exec[s].fid \in Nat
    BY <1>n, <1>t DEF Returns, Keeps, Execution
  <2>2. Explained(journal, e.ver, e.wf, e.fid - 1)
    BY <1>n, <1>t, <2>1 DEF Returns, Told
  <2>3. QED BY <2>1, <2>2, <1>t, ExplainedKept DEF Calls
<1>1. \A s \in Slot : Told(journal', exec'[s])
  <2>1. CASE UNCHANGED <<exec, journal, starts>>
    BY <2>1, <1>t
  <2>2. ASSUME NEW s \in Slot, NEW e, Enters(s, e) PROVE Told(journal', e)
    BY <2>2 DEF Enters, Told, Explained, Working
  <2>3. ASSUME NEW s \in Slot, NEW e, Leaves(s, e) PROVE Told(journal', e)
    BY <2>3 DEF Leaves, Told, Working, Idle
  <2>4. ASSUME NEW s \in Slot, NEW e, Goes(s, e) \/ Works(s, e) PROVE Told(journal', e)
    <3>1. exec[s].fid \in Nat /\ e.wf = exec[s].wf /\ e.ver = exec[s].ver
      BY <2>4, <1>t DEF Goes, Works, Keeps, Execution
    <3>2. e.phase \in Working /\ Explained(journal, e.ver, e.wf, e.fid - 1)
      BY <2>4, <3>1, <1>t DEF Goes, Works, Told, Working
    <3>3. QED BY <3>2, <1>t, ExplainedKept DEF Told, Working
  <2>5. ASSUME NEW s \in Slot, NEW e, Fails(s, e) PROVE Told(journal', e)
    BY <2>5 DEF Fails, Told, Working
  <2>6. ASSUME NEW s \in Slot, NEW e, Replays(s, e) \/ Records(s, e)
        PROVE  Told(journal', e)
    <3>1. Returns(s, e) /\ e.phase \in {"body", "failed"}
      BY <2>6 DEF Replays, Records, Returns
    <3>2. CASE e.phase = "failed"
      BY <3>2 DEF Told, Working
    <3>3. CASE e.phase = "body"
      <4>1. PICK q \in journal' : /\ q.wf = exec[s].wf /\ q.fid = e.fid
                                  /\ q.fname = FunctionName(Calls(s)[e.fid])
                                  /\ Survives(s, e.fid, q)
        <5>1. CASE Replays(s, e)
          BY <3>3, <5>1 DEF Replays, Row
        <5>2. CASE Records(s, e)
          <6>1. NewRow(s) \in journal' /\ Survives(s, e.fid, NewRow(s)) /\ e.fid = exec[s].fid
            BY <3>3, <5>2 DEF Records, Returns
          <6>2. QED BY <6>1 DEF NewRow
        <5>3. QED BY <2>6, <5>1, <5>2
      <4>2. Explained(journal', e.ver, e.wf, e.fid)
        BY <3>1, <4>1, <1>n, ExplainedNext DEF Survives
      <4>3. QED BY <3>3, <4>2 DEF Told, Working
    <3>4. QED BY <3>1, <3>2, <3>3
  <2>7. QED
    BY <2>1, <2>2, <2>3, <2>4, <2>5, <2>6, <1>u, StepContexts
       DEF Enters, Leaves, Goes, Works, Fails, Replays, Records, Returns, Keeps
<1>2. ASSUME NEW w \in Workflow, status'[w] = "SUCCESS"
      PROVE  \E v \in Version : Explained(journal', v, w, Len(Body[v][w]))
  <2>1. CASE status[w] = "SUCCESS"
    BY <2>1, <1>t, ExplainedKept DEF ExplainedInv
  <2>2. CASE status[w] # "SUCCESS"
    <3>1. status' # status /\ \A v \in Workflow : ~InitWorkflow(v)
      BY <1>2, <2>2 DEF InitWorkflow, TypeOK, TablesOK
    <3>2. PICK s \in Slot : Finish(s)
      BY <3>1, StatusStep
    <3>3. w = exec[s].wf /\ exec[s].phase = "body"
      BY <1>2, <2>2, <3>2 DEF Finish, RecordResult, TypeOK, TablesOK
    <3>4. exec[s].ver \in Version /\ exec[s].fid = Len(Body[exec[s].ver][w])
      BY <3>2, <3>3, <1>t, CallType DEF Finish, BodyDone, Calls
    <3>5. Explained(journal, exec[s].ver, w, exec[s].fid)
      BY <3>3, <1>t DEF Told
    <3>6. QED BY <3>4, <3>5, <1>t, ExplainedKept
  <2>3. QED BY <2>1, <2>2
<1>3. QED BY <1>1, <1>2 DEF ExplainedInv

\* A workflow is recorded a success only if a body of it says so, call by call,
\* in spite of crashes, replays, races and changes of version.
THEOREM SuccessExplained == Spec => []SuccessIsExplained
<1>1. Init => ExplainedInv
  BY DEF Init, Idle, ExplainedInv, Told, Working
<1>2. ExplainedInv => SuccessIsExplained
  <2> SUFFICES ASSUME ExplainedInv, NEW w \in Workflow, status[w] = "SUCCESS"
               PROVE  \E v \in Version : \A i \in DOMAIN Body[v][w] : \E r \in Row(w, i) :
                         /\ r.fname = FunctionName(Body[v][w][i])
                         /\ r.ok \/ Body[v][w][i].catches # {}
    BY DEF SuccessIsExplained
  <2>1. PICK v \in Version : Explained(journal, v, w, Len(Body[v][w]))
    BY DEF ExplainedInv
  <2>2. DOMAIN Body[v][w] = 1 .. Len(Body[v][w])
    BY BodyAssumption
  <2>3. QED BY <2>1, <2>2 DEF Explained, Row
<1>3. CASE WellBehaved
  BY <1>1, <1>2, <1>3, TypeInit, TypeStep, ExplainedStep, PTL DEF Spec
<1>4. CASE ~WellBehaved
  <2>1. SuccessIsExplained
    BY <1>4 DEF SuccessIsExplained
  <2>2. QED BY <2>1, PTL
<1>5. QED BY <1>3, <1>4
-----------------------------------------------------------------------------
(* One execution at a time.                                                *)

\* Nobody executes a workflow that is being executed.
Alone ==
    \A s, t \in Slot :
       exec[s].phase # "idle" /\ exec[t].phase # "idle" /\ exec[t].wf = exec[s].wf
          => t = s

\* The call an execution works on is not on record.
Fresh == \A s \in Slot : exec[s].phase \in Working => ~Recorded(exec[s].wf, exec[s].fid)

LEMMA AloneStep == ~Overlap /\ TypeOK /\ Alone /\ [Next]_vars => Alone'
<1> SUFFICES ASSUME ~Overlap, TypeOK, Alone, [Next]_vars PROVE Alone'
  OBVIOUS
<1>t. ContextsOK
  BY DEF TypeOK
<1>1. CASE UNCHANGED <<exec, journal, starts>>
  BY <1>1 DEF Alone
<1>2. ASSUME NEW s \in Slot, NEW e, exec' = [exec EXCEPT ![s] = e],
             e.phase # "idle" =>
                \/ exec[s].phase # "idle" /\ e.wf = exec[s].wf
                \/ \A t \in Slot : exec[t].wf # e.wf
      PROVE  Alone'
  <2>1. \A t \in Slot : exec'[t] = IF t = s THEN e ELSE exec[t]
    BY <1>2, <1>t DEF ContextsOK
  <2>2. QED BY <1>2, <2>1 DEF Alone
<1>3. ASSUME NEW s \in Slot, NEW e, Enters(s, e) \/ Leaves(s, e) PROVE Alone'
  BY <1>2, <1>3 DEF Enters, Leaves, Idle
<1>4. ASSUME NEW s \in Slot, NEW e, Goes(s, e) \/ Works(s, e) \/ Returns(s, e)
      PROVE  Alone'
  BY <1>2, <1>4 DEF Goes, Works, Returns, Keeps, Working
<1>5. QED BY <1>1, <1>3, <1>4, StepContexts DEF Fails, Replays, Records

LEMMA AloneInit == Init => Alone
BY DEF Init, Idle, Alone

LEMMA FreshStep == Alone /\ TypeOK /\ Fresh /\ [Next]_vars => Fresh'
<1> SUFFICES ASSUME Alone, TypeOK, Fresh, [Next]_vars PROVE Fresh'
  OBVIOUS
<1>t. ContextsOK
  BY DEF TypeOK
<1>1. CASE UNCHANGED <<exec, journal, starts>>
  BY <1>1 DEF Fresh, Recorded, Row
<1>2. ASSUME NEW s \in Slot, NEW e, exec' = [exec EXCEPT ![s] = e], journal' = journal,
             e.phase \in Working => ~Recorded(e.wf, e.fid)
      PROVE  Fresh'
  <2>1. \A t \in Slot : exec'[t] = IF t = s THEN e ELSE exec[t]
    BY <1>2, <1>t DEF ContextsOK
  <2>2. QED BY <1>2, <2>1 DEF Fresh, Recorded, Row
<1>3. ASSUME NEW s \in Slot, NEW e, Enters(s, e) \/ Leaves(s, e) PROVE Fresh'
  BY <1>2, <1>3 DEF Enters, Leaves, Idle, Working
<1>4. ASSUME NEW s \in Slot, NEW e, Goes(s, e) PROVE Fresh'
  BY <1>2, <1>4 DEF Goes, Keeps
<1>5. ASSUME NEW s \in Slot, NEW e, Works(s, e) PROVE Fresh'
  BY <1>2, <1>5 DEF Works, Keeps, Fresh
<1>6. ASSUME NEW s \in Slot, NEW e, Fails(s, e) \/ Replays(s, e) PROVE Fresh'
  BY <1>2, <1>6 DEF Fails, Replays, Returns, Keeps, Working
<1>7. ASSUME NEW s \in Slot, NEW e, Records(s, e) PROVE Fresh'
  <2>1. /\ \A t \in Slot : exec'[t] = IF t = s THEN e ELSE exec[t]
        /\ e.phase \notin Working
        /\ exec[s].phase # "idle"
    BY <1>7, <1>t DEF ContextsOK, Records, Returns, Keeps, Working
  <2>2. \A r \in journal' : r \in journal \/ r.wf = exec[s].wf
    BY <1>7 DEF Records, NewRow
  <2>3. \A t \in Slot : t # s /\ exec[t].phase \in Working => exec[t].wf # exec[s].wf
    BY <2>1 DEF Alone, Working
  <2>4. QED BY <2>1, <2>2, <2>3 DEF Fresh, Recorded, Row
<1>8. QED BY <1>1, <1>3, <1>4, <1>5, <1>6, <1>7, StepContexts

LEMMA FreshInit == Init => Fresh
BY DEF Init, Idle, Fresh, Working

\* An execution of a workflow that has succeeded is a replay: it is between two
\* calls, or has failed for one of the reasons a replay may.
Replaying(s) ==
    /\ exec[s].phase \in {"body", "failed"}
    /\ exec[s].phase = "failed" => ReplayMayFail(s)

\* The inductive invariant behind SuccessIsKept.
KeptInv ==
    \A s \in Slot :
       exec[s].phase # "idle" /\ SameCode(exec[s].wf) /\ status[exec[s].wf] = "SUCCESS"
          => Replaying(s)

\* Every call of an ended workflow is on record, once, and in error only where
\* the body goes on after errors.
LEMMA AllRecorded ==
    ASSUME TypeOK, UniqueRows, ExplainedInv, NEW s \in Slot,
           exec[s].phase # "idle", SameCode(exec[s].wf),
           status[exec[s].wf] = "SUCCESS", NEW i \in 1 .. Len(Calls(s))
    PROVE  /\ Recorded(exec[s].wf, i)
           /\ \A r \in Row(exec[s].wf, i) :
                 NameMatches(r, Calls(s)[i]) /\ (r.ok \/ Calls(s)[i].catches # {})
<1>1. exec[s].wf \in Workflow /\ exec[s].ver \in Version
  BY CallType DEF TypeOK
<1>2. PICK v \in Version : Explained(journal, v, exec[s].wf, Len(Body[v][exec[s].wf]))
  BY <1>1 DEF ExplainedInv
<1>3. Body[v][exec[s].wf] = Calls(s)
  BY <1>1 DEF SameCode, Calls
<1>4. PICK r \in journal : /\ r.wf = exec[s].wf /\ r.fid = i
                           /\ r.fname = FunctionName(Calls(s)[i])
                           /\ r.ok \/ Calls(s)[i].catches # {}
  BY <1>2, <1>3 DEF Explained
<1>5. \A q \in Row(exec[s].wf, i) : q = r
  BY <1>4 DEF UniqueRows, Row
<1>6. QED BY <1>4, <1>5 DEF Recorded, Row, NameMatches

\* A replay goes on, or fails for one of the two reasons.
LEMMA ReplayGoesOn ==
    ASSUME ContextsOK, NEW s \in Slot, exec[s].phase # "idle",
           NEW i \in 1 .. Len(Calls(s)), NEW r, Resume(s, i, r),
           \/ r.ok \/ r.code = "Database"
           \/ r.code = "StepExecutionError" /\ Calls(s)[i].catches # {}
    PROVE  Replaying(s)'
<1>1. exec[s] \in Execution
  BY DEF ContextsOK
<1>2. exec'[s] = [exec[s] EXCEPT
                    !.phase = IF r.ok \/ r.code \in Calls(s)[i].catches
                              THEN "body" ELSE "failed",
                    !.fid = i, !.res = r]
  BY DEF Resume, ContextsOK
<1>3. /\ exec'[s].wf = exec[s].wf /\ exec'[s].ver = exec[s].ver
      /\ exec'[s].fid = i /\ exec'[s].res = r
      /\ exec'[s].phase \in {"body", "failed"}
      /\ exec'[s].phase = "failed" => ~r.ok
  BY <1>1, <1>2 DEF Execution
<1>4. Calls(s)' = Calls(s)
  BY <1>3 DEF Calls
<1>5. QED BY <1>3, <1>4 DEF Replaying, ReplayMayFail

\* A step of the replay itself.
LEMMA ReplayStays ==
    ASSUME TypeOK, UniqueRows, ExplainedInv, KeptInv, NEW s \in Slot,
           exec[s].phase # "idle", SameCode(exec[s].wf),
           status[exec[s].wf] = "SUCCESS",
           ReplayStep(s) \/ GoLive(s) \/ DbFails(s) \/ RecordStep(s)
              \/ RunStep(s) \/ SetDeadline(s) \/ Send(s) \/ RecvMessage(s)
              \/ PickMessage(s) \/ ConsumePicked(s) \/ RecvTimeout(s)
              \/ SetEvent(s) \/ GetEvent(s) \/ CheckStream(s) \/ AppendStream(s)
    PROVE  Replaying(s)'
<1>t. ContextsOK
  BY DEF TypeOK
<1>1. exec[s].phase \in {"body", "failed"}
  BY DEF KeptInv, Replaying
<1>2. HasNext(s) => exec[s].fid + 1 \in 1 .. Len(Calls(s))
  BY <1>t, CallType DEF HasNext
<1>3. CASE ReplayStep(s)
  <2> DEFINE i == exec[s].fid + 1
  <2>1. HasNext(s) /\ i \in 1 .. Len(Calls(s))
    BY <1>2, <1>3 DEF ReplayStep
  <2>2. PICK r \in Row(exec[s].wf, i) :
          \/ ~NameMatches(r, Calls(s)[i])
          \/ r.ok /\ Resume(s, i, Ok(r.val))
          \/ ~r.ok /\ Resume(s, i, Err("StepExecutionError"))
    BY <1>3 DEF ReplayStep, Return
  <2>3. NameMatches(r, Calls(s)[i]) /\ (r.ok \/ Calls(s)[i].catches # {})
    BY <2>1, AllRecorded
  <2>4. CASE r.ok /\ Resume(s, i, Ok(r.val))
    <3>1. Ok(r.val).ok
      BY OutcomeShape, Zenon
    <3>2. QED BY <1>t, <2>1, <2>4, <3>1, ReplayGoesOn
  <2>5. CASE ~r.ok /\ Resume(s, i, Err("StepExecutionError"))
    <3>1. Err("StepExecutionError").code = "StepExecutionError"
      BY OutcomeShape, Zenon
    <3>2. QED BY <1>t, <2>1, <2>3, <2>5, <3>1, ReplayGoesOn
  <2>6. QED BY <2>2, <2>3, <2>4, <2>5
<1>4. CASE GoLive(s)
  <2>1. HasNext(s) /\ ~Recorded(exec[s].wf, exec[s].fid + 1)
    BY <1>4 DEF GoLive
  <2>2. QED BY <1>2, <2>1, AllRecorded
<1>5. CASE DbFails(s)
  <2>1. HasNext(s) /\ Resume(s, exec[s].fid + 1, Err("Database"))
    BY <1>1, <1>5 DEF DbFails, DbFault, Return, AtLive
  <2>2. Err("Database").code = "Database"
    BY OutcomeShape, Zenon
  <2>3. QED BY <1>t, <1>2, <2>1, <2>2, ReplayGoesOn
<1>6. QED
  BY <1>1, <1>3, <1>4, <1>5
     DEF RecordStep, RunStep, SetDeadline, Send, RecvMessage, PickMessage,
         ConsumePicked, RecvTimeout, SetEvent, GetEvent, CheckStream, AppendStream,
         AtLive

\* A call of an execution does not change what it executes.
LEMMA KeepsWorkflow ==
    ASSUME TypeOK, NEW s \in Slot, exec[s].phase # "idle",
           (Progress(s) \/ DbFails(s)) /\ ~Finish(s)
    PROVE  exec'[s].wf = exec[s].wf
<1>t. ContextsOK /\ exec[s] \in Execution
  BY DEF TypeOK, ContextsOK
<1>2. ASSUME NEW i, NEW r, Resume(s, i, r) PROVE exec'[s].wf = exec[s].wf
  BY <1>t, <1>2 DEF Resume, ContextsOK, Execution
<1>3. ASSUME NEW r, Hold(s, r) PROVE exec'[s].wf = exec[s].wf
  BY <1>t, <1>3 DEF Hold, ContextsOK, Execution
<1>4. ASSUME NEW i, NEW r, NEW b, Return(s, i, r, b) PROVE exec'[s].wf = exec[s].wf
  BY <1>2, <1>4 DEF Return
<1>5. ASSUME NEW i, DbFault(s, i) PROVE exec'[s].wf = exec[s].wf
  BY <1>4, <1>5 DEF DbFault
<1>6. ASSUME NEW r, Reply(s, r) PROVE exec'[s].wf = exec[s].wf
  BY <1>3, <1>5, <1>6 DEF Reply
<1>7. CASE ReplayStep(s) BY <1>4, <1>7 DEF ReplayStep
<1>8. CASE GoLive(s) BY <1>t, <1>8 DEF GoLive, ContextsOK, Execution
<1>9. CASE RunStep(s) \/ SetDeadline(s) \/ RecvTimeout(s) \/ GetEvent(s)
  BY <1>3, <1>9 DEF RunStep, SetDeadline, RecvTimeout, GetEvent
<1>10. CASE Send(s) BY <1>4, <1>6, <1>10 DEF Send
<1>11. CASE RecvMessage(s) \/ ConsumePicked(s) \/ SetEvent(s) \/ AppendStream(s)
  BY <1>6, <1>11 DEF RecvMessage, ConsumePicked, SetEvent, AppendStream
<1>12. CASE PickMessage(s) BY <1>t, <1>12 DEF PickMessage, ContextsOK, Execution
<1>13. CASE CheckStream(s)
  BY <1>t, <1>4, <1>13 DEF CheckStream, ContextsOK, Execution
<1>14. CASE RecordStep(s) BY <1>4, <1>5, <1>14 DEF RecordStep
<1>15. CASE DbFails(s) BY <1>5, <1>15 DEF DbFails
<1>16. QED
  BY <1>7, <1>8, <1>9, <1>10, <1>11, <1>12, <1>13, <1>14, <1>15 DEF Progress

\* Each step changes one context at most.
LEMMA OneContext ==
    ASSUME TypeOK, NEW s \in Slot, NEW t \in Slot, t # s,
           Progress(s) \/ DbFails(s) \/ FinishFails(s) \/ Crash(s)
    PROVE  exec'[t] = exec[t]
<1>t. ContextsOK
  BY DEF TypeOK
<1>1. ASSUME NEW e, exec' = [exec EXCEPT ![s] = e] PROVE exec'[t] = exec[t]
  BY <1>t, <1>1 DEF ContextsOK
<1>2. ASSUME NEW i, NEW r, Resume(s, i, r) PROVE exec'[t] = exec[t]
  BY <1>1, <1>2 DEF Resume
<1>3. ASSUME NEW r, Hold(s, r) \/ DbFault(s, exec[s].fid) \/ Reply(s, r)
      PROVE  exec'[t] = exec[t]
  BY <1>1, <1>2, <1>3 DEF Hold, DbFault, Reply, Return
<1>4. ASSUME NEW i, NEW r, NEW b, Return(s, i, r, b) PROVE exec'[t] = exec[t]
  BY <1>2, <1>4 DEF Return
<1>5. ASSUME NEW i, DbFault(s, i) PROVE exec'[t] = exec[t]
  BY <1>4, <1>5 DEF DbFault
<1>6. CASE ReplayStep(s) BY <1>4, <1>6 DEF ReplayStep
<1>7. CASE GoLive(s) BY <1>1, <1>7 DEF GoLive
<1>8. CASE RunStep(s) \/ SetDeadline(s) \/ RecvTimeout(s) \/ GetEvent(s)
  BY <1>3, <1>8 DEF RunStep, SetDeadline, RecvTimeout, GetEvent
<1>9. CASE Send(s) BY <1>3, <1>4, <1>9 DEF Send
<1>10. CASE RecvMessage(s) \/ ConsumePicked(s) \/ SetEvent(s) \/ AppendStream(s)
  BY <1>3, <1>10 DEF RecvMessage, ConsumePicked, SetEvent, AppendStream
<1>11. CASE PickMessage(s) BY <1>1, <1>11 DEF PickMessage
<1>12. CASE CheckStream(s) BY <1>1, <1>4, <1>12 DEF CheckStream
<1>13. CASE RecordStep(s) BY <1>4, <1>5, <1>13 DEF RecordStep
<1>14. CASE Finish(s) \/ FinishFails(s) \/ Crash(s)
  BY <1>1, <1>14 DEF Finish, FinishFails, Crash
<1>15. CASE DbFails(s) BY <1>5, <1>15 DEF DbFails
<1>16. QED
  BY <1>6, <1>7, <1>8, <1>9, <1>10, <1>11, <1>12, <1>13, <1>14, <1>15 DEF Progress

LEMMA KeptStep ==
    ~Overlap /\ TypeOK /\ UniqueRows /\ ExplainedInv /\ Alone /\ KeptInv /\ [Next]_vars
       => KeptInv'
<1> SUFFICES ASSUME ~Overlap, TypeOK, UniqueRows, ExplainedInv, Alone, KeptInv,
                    [Next]_vars
             PROVE  KeptInv'
  OBVIOUS
<1>t. ContextsOK /\ status \in [Workflow -> Status]
      /\ \A s \in Slot : exec[s].phase # "idle" => exec[s].wf \in Workflow
  BY CallType DEF TypeOK, TablesOK
<1>k. ASSUME NEW t \in Slot, exec'[t] = exec[t],
             exec[t].phase # "idle" /\ status'[exec[t].wf] = "SUCCESS"
                => status[exec[t].wf] = "SUCCESS",
             exec'[t].phase # "idle", SameCode(exec[t].wf),
             status'[exec'[t].wf] = "SUCCESS"
      PROVE  Replaying(t)'
  BY <1>k DEF KeptInv, Replaying, ReplayMayFail, Calls
<1>1. CASE UNCHANGED vars
  BY <1>1, <1>k DEF vars, KeptInv, SameCode
<1>2. ASSUME NEW w \in Workflow, InitWorkflow(w) PROVE KeptInv'
  BY <1>2, <1>t, <1>k DEF InitWorkflow, KeptInv, SameCode
<1>3. ASSUME NEW s \in Slot, NEW w \in Workflow, NEW v \in Version, Start(s, w, v)
      PROVE  KeptInv'
  <2>1. exec'[s].phase = "body" /\ status' = status
    BY <1>3, <1>t DEF Start, tables, ContextsOK
  <2>2. \A t \in Slot : t # s => exec'[t] = exec[t]
    BY <1>3, <1>t DEF Start, ContextsOK
  <2>3. Replaying(s)'
    BY <2>1 DEF Replaying
  <2>4. QED BY <1>k, <2>1, <2>2, <2>3 DEF KeptInv, SameCode
<1>4. ASSUME NEW s \in Slot, Progress(s) \/ DbFails(s) \/ FinishFails(s) \/ Crash(s)
      PROVE  KeptInv'
  <2>1. \A t \in Slot : t # s => exec'[t] = exec[t]
    BY <1>4, OneContext
  <2>2. CASE Finish(s)
    <3>1. exec'[s].phase = "idle" /\ exec[s].phase # "idle"
      BY <2>2, <1>t DEF Finish, ContextsOK, Idle, BodyDone
    <3>2. \A w \in Workflow : w # exec[s].wf => status'[w] = status[w]
      BY <2>2, <1>t DEF Finish, RecordResult
    <3>3. \A t \in Slot : t # s /\ exec[t].phase # "idle" => exec[t].wf # exec[s].wf
      BY <3>1 DEF Alone
    <3>4. QED BY <1>t, <1>k, <2>1, <3>1, <3>2, <3>3 DEF KeptInv, SameCode
  <2>3. CASE FinishFails(s) \/ Crash(s)
    <3>1. exec'[s].phase = "idle" /\ status' = status
      BY <2>3, <1>t DEF FinishFails, Crash, ContextsOK, Idle, tables
    <3>2. QED BY <1>k, <2>1, <3>1 DEF KeptInv, SameCode
  <2>4. CASE (Progress(s) \/ DbFails(s)) /\ ~Finish(s)
    <3>1. status' = status
      BY <2>4 DEF Progress, DbFails, ReplayStep, GoLive, RunStep, SetDeadline, Send,
                  RecvMessage, PickMessage, ConsumePicked, RecvTimeout, SetEvent,
                  GetEvent, CheckStream, AppendStream, RecordStep, tables, effects
    <3>2. /\ exec[s].phase # "idle"
          /\ exec'[s].wf = exec[s].wf
      <4>1. exec[s].phase # "idle"
        BY <2>4 DEF Progress, DbFails, ReplayStep, GoLive, RunStep, SetDeadline, Send,
                  RecvMessage, PickMessage, ConsumePicked, RecvTimeout, SetEvent,
                  GetEvent, CheckStream, AppendStream, RecordStep, HasNext, AtLive
      <4>2. QED BY <4>1, <2>4, KeepsWorkflow
    <3>3. SameCode(exec[s].wf) /\ status[exec[s].wf] = "SUCCESS" => Replaying(s)'
      BY <2>4, <3>2, ReplayStays DEF Progress
    <3>4. QED BY <1>k, <2>1, <3>1, <3>2, <3>3 DEF KeptInv, SameCode
  <2>5. QED BY <1>4, <2>2, <2>3, <2>4
<1>5. QED BY <1>1, <1>2, <1>3, <1>4 DEF Next

\* An ended workflow may be executed again, but while executions follow one
\* another its success is taken away only by a database failure or by an error
\* whose code the journal has lost.
THEOREM SuccessIsForGood ==
    ASSUME ~Overlap
    PROVE  Spec => SuccessIsKept
<1> DEFINE Inv == /\ TypeOK /\ JournalInv /\ Alone
                  /\ WellBehaved => ExplainedInv /\ KeptInv
<1>1. Init => Inv
  BY TypeInit, JournalInit, AloneInit
     DEF Init, Idle, ExplainedInv, Told, Working, KeptInv
<1>2. Inv /\ [Next]_vars => Inv'
  <2> SUFFICES ASSUME Inv, [Next]_vars PROVE Inv'
    OBVIOUS
  <2>1. TypeOK' /\ JournalInv' /\ Alone'
    BY TypeStep, JournalStep, AloneStep
  <2>2. CASE WellBehaved
    <3>1. ExplainedInv' /\ KeptInv'
      BY <2>2, ExplainedStep, KeptStep DEF JournalInv
    <3>2. QED BY <2>1, <3>1
  <2>3. CASE ~WellBehaved
    <3>1. ~WellBehaved'
      BY <2>3 DEF WellBehaved
    <3>2. QED BY <2>1, <3>1
  <2>4. QED BY <2>2, <2>3
<1>3. Inv /\ [Next]_vars
        => [\A s \in Slot :
              /\ WellBehaved
              /\ exec[s].phase # "idle"
              /\ SameCode(exec[s].wf)
              /\ status[exec[s].wf] = "SUCCESS"
              /\ status'[exec[s].wf] # "SUCCESS"
              => ReplayMayFail(s)]_vars
  <2> SUFFICES ASSUME Inv, [Next]_vars, NEW s \in Slot, WellBehaved,
                      exec[s].phase # "idle", SameCode(exec[s].wf),
                      status[exec[s].wf] = "SUCCESS", status'[exec[s].wf] # "SUCCESS"
               PROVE  ReplayMayFail(s)
    OBVIOUS
  <2>1. Replaying(s) /\ exec[s].wf \in Workflow /\ status \in [Workflow -> Status]
    BY CallType DEF KeptInv, TypeOK, TablesOK
  <2>2. ~\E w \in Workflow : InitWorkflow(w)
    BY <2>1 DEF InitWorkflow
  <2>3. PICK t \in Slot : Finish(t)
    BY <2>2, StatusStep
  <2>4. exec[t].phase # "idle" /\ exec[t].wf = exec[s].wf
    BY <2>1, <2>3 DEF Finish, RecordResult, BodyDone
  <2>5. t = s
    BY <2>4 DEF Alone
  <2>6. exec[s].phase # "body"
    BY <2>1, <2>3, <2>5 DEF Finish, RecordResult
  <2>7. QED BY <2>1, <2>6 DEF Replaying
<1>4. QED
  BY <1>1, <1>2, <1>3, PTL DEF Spec, SuccessIsKept
-----------------------------------------------------------------------------
(* One execution at a time: streams and events.                            *)

\* Elements of sequences.
LEMMA SeqElement ==
    ASSUME NEW S, NEW q \in Seq(S), NEW n \in DOMAIN q
    PROVE  q[n] \in S
OBVIOUS

LEMMA AppendElements ==
    ASSUME NEW S, NEW q \in Seq(S), NEW x \in S
    PROVE  /\ DOMAIN Append(q, x) = 1 .. Len(q) + 1 /\ DOMAIN q = 1 .. Len(q)
           /\ Len(q) \in Nat
           /\ \A n \in 1 .. Len(q) : Append(q, x)[n] = q[n]
           /\ Append(q, x)[Len(q) + 1] = x
OBVIOUS

\* No other call of w has an effect ahead of the one that works.
LEMMA NothingAhead ==
    ASSUME Fresh, EffectPrefix, TypeOK, NEW s \in Slot, exec[s].phase \in Working
    PROVE  /\ \A h \in history : h.wf = exec[s].wf => h.fid <= exec[s].fid
           /\ \A k \in Key : \A n \in DOMAIN streams[exec[s].wf][k] :
                 streams[exec[s].wf][k][n].fid <= exec[s].fid
<1>1. exec[s].wf \in Workflow /\ exec[s].fid \in Nat \ {0}
  BY CallType DEF TypeOK, Working
<1>2. ASSUME NEW f \in Nat, Done(journal, exec[s].wf, f - 1) PROVE f <= exec[s].fid
  <2> SUFFICES ASSUME f > exec[s].fid PROVE FALSE
    BY <1>1
  <2>1. exec[s].fid \in 1 .. f - 1
    BY <1>1
  <2>2. \E r \in journal : r.wf = exec[s].wf /\ r.fid = exec[s].fid
    BY <1>2, <2>1, Zenon DEF Done
  <2>3. QED BY <2>2 DEF Fresh, Recorded, Row
<1>3. \A h \in history : h.wf = exec[s].wf => h.fid <= exec[s].fid
  <2>1. \A h \in history : h.fid \in Nat /\ Done(journal, h.wf, h.fid - 1)
    BY DEF TypeOK, TablesOK, HistoryRow, EffectPrefix
  <2>2. QED BY <1>2, <2>1
<1>4. ASSUME NEW k \in Key, NEW n \in DOMAIN streams[exec[s].wf][k]
      PROVE  streams[exec[s].wf][k][n].fid <= exec[s].fid
  <2>1. streams[exec[s].wf][k] \in Seq(StreamEntry)
    BY <1>1 DEF TypeOK, TablesOK
  <2>2. streams[exec[s].wf][k][n].fid \in Nat
    <3>1. streams[exec[s].wf][k][n] \in StreamEntry
      BY <2>1, SeqElement
    <3>2. QED BY <3>1 DEF StreamEntry
  <2>3. Done(journal, exec[s].wf, streams[exec[s].wf][k][n].fid - 1)
    BY <1>1 DEF EffectPrefix
  <2>4. QED BY <1>2, <2>2, <2>3
<1>5. QED BY <1>3, <1>4

\* Who writes streams, and who events.
LEMMA TableStep ==
    ASSUME [Next]_vars
    PROVE  /\ streams' = streams \/ \E s \in Slot : AppendStream(s)
           /\ UNCHANGED <<events, history>> \/ \E s \in Slot : SetEvent(s)
<1> USE DEF tables, effects
<1>1. ASSUME NEW s \in Slot, Progress(s)
      PROVE  /\ streams' = streams \/ AppendStream(s)
             /\ UNCHANGED <<events, history>> \/ SetEvent(s)
  BY <1>1 DEF Progress, ReplayStep, GoLive, RunStep, SetDeadline, Send, RecvMessage,
              PickMessage, ConsumePicked, RecvTimeout, SetEvent, GetEvent,
              CheckStream, AppendStream, RecordStep, Finish
<1>2. QED
  BY <1>1 DEF Next, vars, InitWorkflow, Start, DbFails, FinishFails, Crash

\* A context about to append found its stream open.
Opened ==
    \A s \in Slot : exec[s].phase = "append" =>
       ~Closed(exec[s].wf, Calls(s)[exec[s].fid].key)

\* The inductive invariant behind StreamWellFormed.
StreamInv == Opened /\ StreamWellFormed

LEMMA StreamStep ==
    TypeOK /\ Alone /\ Fresh /\ EffectPrefix /\ StreamInv /\ [Next]_vars => StreamInv'
<1> SUFFICES ASSUME TypeOK, Alone, Fresh, EffectPrefix, StreamInv, [Next]_vars
             PROVE  StreamInv'
  OBVIOUS
<1>t. ContextsOK
  BY DEF TypeOK
<1>c. \A s \in Slot : exec[s].phase = "append" =>
         exec[s].wf \in Workflow /\ Calls(s)[exec[s].fid] \in Op
  BY <1>t, CallType
<1>1. ASSUME NEW s \in Slot, AppendStream(s) PROVE StreamInv'
  <2> DEFINE op == Calls(s)[exec[s].fid]
             w == exec[s].wf
             x == [val |-> IF op.kind = "closeStream" THEN Sentinel ELSE op.val,
                   fid |-> exec[s].fid]
             old == streams[w][op.key]
  <2>1. exec[s].phase = "append" /\ w \in Workflow /\ op.key \in Key
    BY <1>1, <1>c DEF AppendStream, Op
  <2>2. old \in Seq(StreamEntry) /\ x \in StreamEntry
    <3>1. old \in Seq(StreamEntry)
      BY <2>1 DEF TypeOK, TablesOK
    <3>2. exec[s].fid \in Nat \ {0} /\ op \in Op
      BY <2>1, <1>t, CallType
    <3>3. op.val \in Value
      BY <3>2 DEF Op
    <3>4. x \in StreamEntry
      BY <3>2, <3>3 DEF StreamEntry
    <3>5. QED BY <3>1, <3>4
  <2>3. /\ streams'[w][op.key] = Append(old, x)
        /\ \A v \in Workflow, k \in Key :
              v # w \/ k # op.key => streams'[v][k] = streams[v][k]
    BY <1>1, <2>1 DEF AppendStream, TypeOK, TablesOK
  <2>4. \A n \in DOMAIN old : old[n].fid <= exec[s].fid /\ old[n].val # Sentinel
    BY <2>1, NothingAhead DEF Working, StreamInv, Opened, Closed
  <2>5. ASSUME NEW m \in DOMAIN Append(old, x), NEW n \in DOMAIN Append(old, x), m < n
        PROVE  /\ Append(old, x)[m].fid <= Append(old, x)[n].fid
               /\ Append(old, x)[m].val # Sentinel
    <3>1. /\ m \in DOMAIN old /\ Append(old, x)[m] = old[m]
          /\ \/ n \in DOMAIN old /\ Append(old, x)[n] = old[n]
             \/ Append(old, x)[n] = x
      <4> HIDE DEF old, x
      <4>1. QED BY <2>2, <2>5, AppendElements
    <3>2. x.fid = exec[s].fid
      OBVIOUS
    <3>3. CASE Append(old, x)[n] = x
      BY <2>4, <3>1, <3>2, <3>3
    <3>4. CASE n \in DOMAIN old /\ Append(old, x)[n] = old[n]
      BY <2>1, <2>5, <3>1, <3>4 DEF StreamInv, StreamWellFormed
    <3>5. QED BY <3>1, <3>3, <3>4
  <2>6. StreamWellFormed'
    <3> SUFFICES ASSUME NEW v \in Workflow, NEW k \in Key,
                        NEW m \in DOMAIN streams'[v][k], NEW n \in DOMAIN streams'[v][k],
                        m < n
                 PROVE  /\ streams'[v][k][m].fid <= streams'[v][k][n].fid
                        /\ streams'[v][k][m].val # Sentinel
      BY DEF StreamWellFormed
    <3> HIDE DEF old, x
    <3>1. CASE v = w /\ k = op.key
      BY <2>3, <2>5, <3>1
    <3>2. CASE v # w \/ k # op.key
      <4>1. streams'[v][k] = streams[v][k]
        BY <2>3, <3>2
      <4>2. QED BY <4>1 DEF StreamInv, StreamWellFormed
    <3>3. QED BY <3>1, <3>2
  <2>7. Opened'
    <3>1. PICK e : Keeps(s, e) /\ e.phase # "append"
      BY <1>1, <1>t, ReplyKeeps DEF AppendStream
    <3>2. /\ \A t \in Slot : t # s => exec'[t] = exec[t]
          /\ exec'[s].phase # "append"
      BY <3>1, <1>t DEF Keeps, ContextsOK
    <3>3. ASSUME NEW t \in Slot, exec'[t].phase = "append"
          PROVE  \A n \in DOMAIN streams'[exec'[t].wf][Calls(t)'[exec'[t].fid].key] :
                    streams'[exec'[t].wf][Calls(t)'[exec'[t].fid].key][n].val # Sentinel
      <4>1. t # s /\ exec'[t] = exec[t] /\ exec[t].phase = "append"
        BY <3>2, <3>3
      <4>2. exec[t].wf # w /\ exec[t].wf \in Workflow /\ Calls(t)[exec[t].fid].key \in Key
        BY <2>1, <4>1, <1>c DEF Alone, Op
      <4>3. streams'[exec[t].wf][Calls(t)[exec[t].fid].key]
              = streams[exec[t].wf][Calls(t)[exec[t].fid].key]
        BY <2>3, <4>2
      <4>4. Calls(t)' = Calls(t)
        BY <4>1 DEF Calls
      <4>5. QED BY <4>1, <4>3, <4>4 DEF StreamInv, Opened, Closed
    <3>4. QED BY <3>3 DEF Opened, Closed
  <2>8. QED BY <2>6, <2>7 DEF StreamInv
<1>2. CASE streams' = streams
  <2>1. StreamWellFormed'
    BY <1>2 DEF StreamInv, StreamWellFormed
  <2>2. Opened'
    <3>1. ASSUME NEW t \in Slot, exec'[t].phase = "append"
          PROVE  /\ exec'[t].wf = exec[t].wf /\ exec'[t].fid = exec[t].fid
                 /\ exec'[t].ver = exec[t].ver
                 /\ ~Closed(exec[t].wf, Calls(t)[exec[t].fid].key)
      <4>1. CASE exec'[t] = exec[t]
        BY <3>1, <4>1 DEF StreamInv, Opened
      <4>2. ASSUME NEW e, exec'[t] = e, Works(t, e)
            PROVE  /\ exec'[t].wf = exec[t].wf /\ exec'[t].fid = exec[t].fid
                   /\ exec'[t].ver = exec[t].ver
                   /\ ~Closed(exec[t].wf, Calls(t)[exec[t].fid].key)
        BY <3>1, <4>2 DEF Works, Keeps
      <4>3. ASSUME NEW s \in Slot, NEW e,
                   \/ Enters(s, e) \/ Leaves(s, e) \/ Goes(s, e) \/ Works(s, e)
                   \/ Fails(s, e) \/ Replays(s, e) \/ Records(s, e)
            PROVE  exec'[t] = exec[t] \/ (s = t /\ exec'[t] = e /\ Works(t, e))
        <5>1. exec' = [exec EXCEPT ![s] = e]
          BY <4>3 DEF Enters, Leaves, Goes, Works, Fails, Replays, Records, Returns, Keeps
        <5>2. e.phase = "append" => Works(s, e)
          BY <4>3 DEF Enters, Leaves, Goes, Fails, Replays, Records, Returns, Idle
        <5>3. QED BY <3>1, <5>1, <5>2, <1>t DEF ContextsOK
      <4>4. QED BY <4>1, <4>2, <4>3, StepContexts
    <3>2. QED BY <1>2, <3>1 DEF Opened, Closed, Calls
  <2>3. QED BY <2>1, <2>2 DEF StreamInv
<1>3. QED BY <1>1, <1>2, TableStep

LEMMA StreamInit == Init => StreamInv
BY DEF Init, Idle, StreamInv, Opened, StreamWellFormed

\* What the prefixes need, with executions that do not overlap.
SoloInv == TypeOK /\ PrefixInv /\ Alone /\ Fresh

LEMMA SoloStep ==
    ASSUME ~Overlap, WellBehaved
    PROVE  /\ Init => SoloInv
           /\ SoloInv /\ [Next]_vars => SoloInv'
BY TypeInit, TypeStep, PrefixInit, PrefixStep, AloneInit, AloneStep, FreshInit, FreshStep
   DEF SoloInv

\* However often an execution is killed and its calls repeated, a stream keeps
\* the order of the calls and ends with the entry that closes it.
THEOREM StreamsStayInOrder ==
    ASSUME ~Overlap, WellBehaved
    PROVE  Spec => []StreamWellFormed
<1>1. SoloInv => TypeOK /\ Alone /\ Fresh /\ EffectPrefix
  BY DEF SoloInv, PrefixInv
<1>2. StreamInv => StreamWellFormed
  BY DEF StreamInv
<1>3. QED
  BY <1>1, <1>2, SoloStep, StreamInit, StreamStep, PTL DEF Spec

LEMMA EventStep ==
    TypeOK /\ Fresh /\ EffectPrefix /\ EventIsLatest /\ [Next]_vars => EventIsLatest'
<1> SUFFICES ASSUME TypeOK, Fresh, EffectPrefix, EventIsLatest, [Next]_vars
             PROVE  EventIsLatest'
  OBVIOUS
<1>1. CASE UNCHANGED <<events, history>>
  BY <1>1 DEF EventIsLatest
<1>2. ASSUME NEW s \in Slot, SetEvent(s) PROVE EventIsLatest'
  <2> DEFINE op == Calls(s)[exec[s].fid]
             w == exec[s].wf
             i == exec[s].fid
             new == [wf |-> w, fid |-> i, key |-> op.key, val |-> op.val]
  <2>1. exec[s].phase \in Working
    BY <1>2 DEF SetEvent, AtLive, Working
  <2>2. w \in Workflow /\ op.key \in Key /\ i \in Nat
    <3>1. w \in Workflow /\ op \in Op /\ i \in Nat
      BY <2>1, CallType DEF TypeOK, Working
    <3>2. QED BY <3>1 DEF Op
  <2>3. /\ new \in history'
        /\ \A h \in history' : h # new => h \in history /\ ~(h.wf = w /\ h.fid = i /\ h.key = op.key)
        /\ \A h \in history : ~(h.wf = w /\ h.fid = i /\ h.key = op.key) => h \in history'
    BY <1>2 DEF SetEvent
  <2>4. /\ events'[w][op.key] = op.val
        /\ \A v \in Workflow, k \in Key :
              v # w \/ k # op.key => events'[v][k] = events[v][k]
    BY <1>2, <2>2 DEF SetEvent, UpsertEvent, TypeOK, TablesOK
  <2>5. \A h \in history : h.wf \in Workflow /\ h.key \in Key /\ h.fid \in Nat
    BY DEF TypeOK, TablesOK, HistoryRow
  <2>6. new.wf = w /\ new.key = op.key /\ new.val = op.val /\ new.fid = i
    OBVIOUS
  <2> HIDE DEF new
  <2>7. ASSUME NEW h \in history'
        PROVE  \/ events'[h.wf][h.key] = h.val
               \/ \E g \in history' : g.wf = h.wf /\ g.key = h.key /\ g.fid > h.fid
    <3>1. CASE h = new
      BY <2>4, <2>6, <3>1
    <3>2. CASE h # new /\ h.wf = w /\ h.key = op.key
      <4>1. h \in history /\ h.fid # i
        BY <2>3, <3>2
      <4>2. h.fid <= i
        BY <2>1, <3>2, <4>1, NothingAhead
      <4>3. i > h.fid
        BY <2>2, <2>5, <4>1, <4>2
      <4>4. QED BY <2>3, <2>6, <3>2, <4>3
    <3>3. CASE h # new /\ ~(h.wf = w /\ h.key = op.key)
      <4>1. h \in history /\ events'[h.wf][h.key] = events[h.wf][h.key]
        BY <2>3, <2>4, <2>5, <3>3
      <4>2. CASE events[h.wf][h.key] = h.val
        BY <4>1, <4>2
      <4>3. CASE \E g \in history : g.wf = h.wf /\ g.key = h.key /\ g.fid > h.fid
        BY <2>3, <3>3, <4>3
      <4>4. QED BY <4>1, <4>2, <4>3 DEF EventIsLatest
    <3>4. QED BY <3>1, <3>2, <3>3
  <2>8. QED BY <2>7 DEF EventIsLatest
<1>3. QED BY <1>1, <1>2, TableStep

\* However often it is set and set again, an event is what the latest call that
\* set it says.
THEOREM EventsStayLatest ==
    ASSUME ~Overlap, WellBehaved
    PROVE  Spec => []EventIsLatest
<1>1. SoloInv => TypeOK /\ Fresh /\ EffectPrefix
  BY DEF SoloInv, PrefixInv
<1>2. Init => EventIsLatest
  BY DEF Init, EventIsLatest
<1>3. QED
  BY <1>1, <1>2, SoloStep, EventStep, PTL DEF Spec
-----------------------------------------------------------------------------
(* Messages.                                                               *)

\* No message changes, but one may be marked.
Delivers ==
    /\ DOMAIN notes' = DOMAIN notes
    /\ \A n \in DOMAIN notes :
          /\ notes'[n].wf = notes[n].wf /\ notes'[n].fid = notes[n].fid
          /\ notes'[n].dest = notes[n].dest
          /\ notes[n].consumed => notes'[n].consumed

\* The call of s adds a message.
Sends(s) == notes' = Append(notes, NewNote(s)) /\ Send(s) /\ Reply(s, Ok(Nil))

LEMMA ConsumeDelivers ==
    ASSUME TablesOK, NEW n, Consume(n)
    PROVE  Delivers /\ (n \in DOMAIN notes => notes'[n].consumed)
<1>1. notes' = [notes EXCEPT ![n].consumed = TRUE] /\ notes \in Seq(Note)
  BY DEF Consume, TablesOK
<1>2. DOMAIN notes' = DOMAIN notes
  BY <1>1
<1>3. ASSUME NEW m \in DOMAIN notes
      PROVE  /\ notes'[m].wf = notes[m].wf /\ notes'[m].fid = notes[m].fid
             /\ notes'[m].dest = notes[m].dest
             /\ notes[m].consumed => notes'[m].consumed
             /\ m = n => notes'[m].consumed
  <2>1. notes[m] \in Note
    BY <1>1, SeqElement
  <2>2. notes'[m] = IF m = n THEN [notes[m] EXCEPT !.consumed = TRUE] ELSE notes[m]
    BY <1>1
  <2>3. QED BY <2>1, <2>2 DEF Note
<1>4. QED BY <1>2, <1>3 DEF Delivers

LEMMA NotesStep ==
    ASSUME TypeOK, [Next]_vars
    PROVE  Delivers \/ \E s \in Slot : Sends(s)
<1> USE DEF tables, effects
<1>1. CASE notes' = notes
  BY <1>1 DEF Delivers
<1>2. ASSUME NEW s \in Slot, Progress(s), notes' # notes
      PROVE  Send(s) \/ RecvMessage(s) \/ ConsumePicked(s)
  BY <1>2 DEF Progress, ReplayStep, GoLive, RunStep, SetDeadline, Send, RecvMessage,
              PickMessage, ConsumePicked, RecvTimeout, SetEvent, GetEvent,
              CheckStream, AppendStream, RecordStep, Finish
<1>3. notes' # notes => \E s \in Slot : Send(s) \/ RecvMessage(s) \/ ConsumePicked(s)
  BY <1>2 DEF Next, vars, InitWorkflow, Start, DbFails, FinishFails, Crash
<1>4. ASSUME NEW s \in Slot, Send(s), notes' # notes PROVE Sends(s)
  BY <1>4 DEF Send, Sends
<1>5. ASSUME NEW s \in Slot, RecvMessage(s) \/ ConsumePicked(s) PROVE Delivers
  BY <1>5, ConsumeDelivers DEF RecvMessage, ConsumePicked, TypeOK
<1>6. QED BY <1>1, <1>3, <1>4, <1>5

\* What a message looks like once it is sent.
LEMMA SendsLast ==
    ASSUME TypeOK, NEW s \in Slot, Sends(s)
    PROVE  /\ Len(notes) \in Nat /\ DOMAIN notes = 1 .. Len(notes)
           /\ DOMAIN notes' = 1 .. Len(notes) + 1
           /\ \A n \in DOMAIN notes : notes'[n] = notes[n]
           /\ notes'[Len(notes) + 1] = NewNote(s)
           /\ NewNote(s).wf = exec[s].wf /\ NewNote(s).fid = exec[s].fid
           /\ exec[s].phase = "live"
<1>1. exec[s].phase = "live"
  BY DEF Sends, Send, AtLive
<1>2. Calls(s)[exec[s].fid] \in Op /\ exec[s].wf \in Workflow /\ exec[s].fid \in Nat \ {0}
  BY <1>1, CallType DEF TypeOK
<1>3. NewNote(s) \in Note /\ NewNote(s).wf = exec[s].wf /\ NewNote(s).fid = exec[s].fid
  BY <1>2 DEF NewNote, Note, Op
<1>4. notes \in Seq(Note)
  BY DEF TypeOK, TablesOK
<1>5. QED BY <1>1, <1>3, <1>4, AppendElements DEF Sends
-----------------------------------------------------------------------------
(* Copies of a message.                                                    *)

Copies(w, i) == {n \in DOMAIN notes : notes[n].wf = w /\ notes[n].fid = i}

\* Executions of w that have call i still to run, or are about to.
Unsent(w, i) ==
    {s \in Slot : /\ exec[s].phase # "idle" /\ exec[s].wf = w
                  /\ exec[s].fid < i \/ (exec[s].fid = i /\ exec[s].phase = "live")}

Busy == {s \in Slot : exec[s].phase # "idle"}

\* The inductive invariant behind SendCopiesBounded: an execution leaves a copy
\* or can still leave one, not both.
CopiesInv ==
    /\ IsFiniteSet(Busy)
    /\ \A w \in Workflow, i \in Nat \ {0} :
          Cardinality(Copies(w, i)) + Cardinality(Unsent(w, i)) <= starts[w]

LEMMA CopiesFinite ==
    ASSUME TypeOK, IsFiniteSet(Busy), NEW w, NEW i
    PROVE  /\ IsFiniteSet(Copies(w, i)) /\ Cardinality(Copies(w, i)) \in Nat
           /\ IsFiniteSet(Unsent(w, i)) /\ Cardinality(Unsent(w, i)) \in Nat
<1>1. notes \in Seq(Note)
  BY DEF TypeOK, TablesOK
<1>2. DOMAIN notes = 1 .. Len(notes) /\ Len(notes) \in Nat
  BY <1>1
<1>3. IsFiniteSet(DOMAIN notes)
  BY <1>2, FS_Interval
<1>4. Copies(w, i) \subseteq DOMAIN notes /\ Unsent(w, i) \subseteq Busy
  BY DEF Copies, Unsent, Busy
<1>5. QED BY <1>3, <1>4, FS_Subset, FS_CardinalityType

LEMMA CopiesStep == TypeOK /\ CopiesInv /\ [Next]_vars => CopiesInv'
<1> SUFFICES ASSUME TypeOK, CopiesInv, [Next]_vars PROVE CopiesInv'
  OBVIOUS
<1>t. /\ ContextsOK /\ starts \in [Workflow -> Nat]
      /\ \A s \in Slot : exec[s] \in Execution /\ exec[s].fid \in Nat
      /\ IsFiniteSet(Busy)
  BY DEF TypeOK, ContextsOK, Execution, CopiesInv
<1>1. CASE UNCHANGED <<exec, journal, starts>> /\ Delivers
  BY <1>1 DEF CopiesInv, Copies, Unsent, Busy, Delivers
<1>2. ASSUME NEW s \in Slot, NEW e, exec' = [exec EXCEPT ![s] = e]
      PROVE  IsFiniteSet(Busy')
  <2>1. Busy' \subseteq Busy \cup {s}
    BY <1>2, <1>t DEF Busy, ContextsOK
  <2>2. QED BY <2>1, <1>t, FS_AddElement, FS_Subset
<1>3. ASSUME NEW s \in Slot, NEW e, Keeps(s, e) \/ Leaves(s, e), UNCHANGED starts,
             \/ e.phase = "idle"
             \/ /\ exec[s].phase # "idle" /\ exec[s].fid <= e.fid /\ e.fid \in Nat
                /\ e.phase = "live" => exec[s].fid < e.fid \/ exec[s].phase = "live"
      PROVE  /\ IsFiniteSet(Busy')
             /\ \A w \in Workflow, i \in Nat \ {0} : Unsent(w, i)' \subseteq Unsent(w, i)
  <2>1. \A t \in Slot : exec'[t] = IF t = s THEN e ELSE exec[t]
    BY <1>3, <1>t DEF Keeps, Leaves, ContextsOK
  <2>2. e.phase = "idle" \/ e.wf = exec[s].wf
    BY <1>3 DEF Keeps, Leaves, Idle
  <2>3. ASSUME NEW w \in Workflow, NEW i \in Nat \ {0}, NEW t \in Unsent(w, i)'
        PROVE  t \in Unsent(w, i)
    <3>1. CASE t = s
      BY <1>3, <1>t, <2>1, <2>2, <2>3, <3>1 DEF Unsent
    <3>2. CASE t # s
      BY <2>1, <2>3, <3>2 DEF Unsent
    <3>3. QED BY <3>1, <3>2
  <2>4. IsFiniteSet(Busy')
    BY <1>2, <1>3 DEF Keeps, Leaves
  <2>5. QED BY <2>3, <2>4
<1>4. ASSUME NEW s \in Slot, NEW e,
             \/ Leaves(s, e) \/ Goes(s, e) \/ Works(s, e)
             \/ Fails(s, e) \/ Replays(s, e) \/ Records(s, e)
      PROVE  /\ IsFiniteSet(Busy') /\ starts' = starts
             /\ \A w \in Workflow, i \in Nat \ {0} : Unsent(w, i)' \subseteq Unsent(w, i)
  <2>1. CASE Leaves(s, e)
    BY <1>3, <2>1 DEF Leaves, Idle
  <2>2. CASE Goes(s, e) \/ Works(s, e)
    BY <1>3, <1>t, <2>2 DEF Goes, Works, Working
  <2>3. CASE Returns(s, e)
    BY <1>3, <1>t, <2>3 DEF Returns, Working
  <2>4. QED BY <1>4, <2>1, <2>2, <2>3 DEF Fails, Replays, Records
<1>5. ASSUME Delivers, IsFiniteSet(Busy'), starts' = starts,
             \A w \in Workflow, i \in Nat \ {0} : Unsent(w, i)' \subseteq Unsent(w, i)
      PROVE  CopiesInv'
  <2>1. ASSUME NEW w \in Workflow, NEW i \in Nat \ {0}
        PROVE  Cardinality(Copies(w, i)') + Cardinality(Unsent(w, i)') <= starts'[w]
    <3>1. Copies(w, i)' = Copies(w, i)
      BY <1>5 DEF Copies, Delivers
    <3>2. /\ Cardinality(Unsent(w, i)') <= Cardinality(Unsent(w, i))
          /\ Cardinality(Unsent(w, i)') \in Nat
      BY <1>5, <1>t, CopiesFinite, FS_Subset, FS_CardinalityType
    <3>3. Cardinality(Copies(w, i)) + Cardinality(Unsent(w, i)) <= starts[w]
      BY DEF CopiesInv
    <3>4. QED BY <1>5, <1>t, <3>1, <3>2, <3>3, CopiesFinite
  <2>2. QED BY <1>5, <2>1 DEF CopiesInv
<1>6. ASSUME NEW s \in Slot, NEW e, Enters(s, e), Delivers PROVE CopiesInv'
  <2>1. /\ \A t \in Slot : exec'[t] = IF t = s THEN e ELSE exec[t]
        /\ exec' = [exec EXCEPT ![s] = e] /\ exec[s].phase = "idle"
        /\ e.phase = "body" /\ e.fid = 0 /\ e.wf \in Workflow
        /\ starts' = [starts EXCEPT ![e.wf] = @ + 1]
    BY <1>6, <1>t DEF Enters, ContextsOK
  <2>2. IsFiniteSet(Busy')
    BY <1>2, <2>1
  <2>3. ASSUME NEW w \in Workflow, NEW i \in Nat \ {0}
        PROVE  Cardinality(Copies(w, i)') + Cardinality(Unsent(w, i)') <= starts'[w]
    <3>1. Copies(w, i)' = Copies(w, i)
      BY <1>6 DEF Copies, Delivers
    <3>2. /\ Cardinality(Copies(w, i)) + Cardinality(Unsent(w, i)) <= starts[w]
          /\ Cardinality(Copies(w, i)) \in Nat /\ Cardinality(Unsent(w, i)) \in Nat
          /\ IsFiniteSet(Unsent(w, i))
      BY <1>t, CopiesFinite DEF CopiesInv
    <3>3. CASE w # e.wf
      <4>1. Unsent(w, i)' = Unsent(w, i)
        BY <2>1, <3>3 DEF Unsent
      <4>2. starts'[w] = starts[w]
        BY <2>1, <3>3, <1>t
      <4>3. QED BY <3>1, <3>2, <4>1, <4>2
    <3>4. CASE w = e.wf
      <4>1. Unsent(w, i)' = Unsent(w, i) \cup {s} /\ s \notin Unsent(w, i)
        BY <2>1, <3>4 DEF Unsent
      <4>2. Cardinality(Unsent(w, i)') = Cardinality(Unsent(w, i)) + 1
        BY <3>2, <4>1, FS_AddElement
      <4>3. starts'[w] = starts[w] + 1 /\ starts[w] \in Nat
        BY <2>1, <3>4, <1>t
      <4>4. QED BY <3>1, <3>2, <4>2, <4>3
    <3>5. QED BY <3>3, <3>4
  <2>4. QED BY <2>2, <2>3 DEF CopiesInv
<1>7. ASSUME NEW s \in Slot, Sends(s) PROVE CopiesInv'
  <2>1. PICK e : /\ Keeps(s, e) /\ e.fid = exec[s].fid
                 /\ e.phase \in {"record", "body", "failed"}
    BY <1>7, <1>t, ReplyKeeps DEF Sends
  <2>2. /\ \A t \in Slot : exec'[t] = IF t = s THEN e ELSE exec[t]
        /\ e.wf = exec[s].wf /\ e.fid = exec[s].fid /\ starts' = starts
        /\ exec[s].phase = "live"
    BY <1>7, <1>t, <2>1, SendsLast DEF Keeps, Sends, Send, ContextsOK
  <2>3. /\ IsFiniteSet(Busy')
        /\ \A w \in Workflow, i \in Nat \ {0} : Unsent(w, i)' \subseteq Unsent(w, i)
    BY <1>3, <1>t, <2>1, <2>2
  <2>4. ASSUME NEW w \in Workflow, NEW i \in Nat \ {0}
        PROVE  Cardinality(Copies(w, i)') + Cardinality(Unsent(w, i)') <= starts'[w]
    <3>1. /\ Cardinality(Copies(w, i)) + Cardinality(Unsent(w, i)) <= starts[w]
          /\ Cardinality(Copies(w, i)) \in Nat /\ Cardinality(Unsent(w, i)) \in Nat
          /\ IsFiniteSet(Copies(w, i)) /\ IsFiniteSet(Unsent(w, i)) /\ starts[w] \in Nat
      BY <1>t, CopiesFinite DEF CopiesInv
    <3>2. /\ Cardinality(Unsent(w, i)') <= Cardinality(Unsent(w, i))
          /\ Cardinality(Unsent(w, i)') \in Nat
      BY <2>3, <3>1, FS_Subset, FS_CardinalityType
    <3>3. CASE w # exec[s].wf \/ i # exec[s].fid
      <4>1. Copies(w, i)' = Copies(w, i)
        BY <1>7, <3>3, SendsLast DEF Copies
      <4>2. QED BY <2>2, <3>1, <3>2, <4>1
    <3>4. CASE w = exec[s].wf /\ i = exec[s].fid
      <4>1. /\ Copies(w, i)' = Copies(w, i) \cup {Len(notes) + 1}
            /\ Len(notes) + 1 \notin Copies(w, i)
        BY <1>7, <3>4, SendsLast DEF Copies
      <4>2. Cardinality(Copies(w, i)') = Cardinality(Copies(w, i)) + 1
        BY <3>1, <4>1, FS_AddElement
      <4>3. s \in Unsent(w, i) /\ s \notin Unsent(w, i)'
        BY <1>t, <2>1, <2>2, <3>4 DEF Unsent
      <4>4. Unsent(w, i)' \subseteq Unsent(w, i) \ {s}
        BY <2>3, <4>3
      <4>5. /\ Cardinality(Unsent(w, i) \ {s}) = Cardinality(Unsent(w, i)) - 1
            /\ IsFiniteSet(Unsent(w, i) \ {s})
        BY <3>1, <4>3, FS_RemoveElement
      <4>6. Cardinality(Unsent(w, i)') <= Cardinality(Unsent(w, i)) - 1
        BY <4>4, <4>5, FS_Subset
      <4>7. QED BY <2>2, <3>1, <3>2, <4>2, <4>6
    <3>5. QED BY <3>3, <3>4
  <2>5. QED BY <2>3, <2>4 DEF CopiesInv
<1>8. QED BY <1>1, <1>4, <1>5, <1>6, <1>7, StepContexts, NotesStep

LEMMA CopiesInit == Init => CopiesInv
<1> SUFFICES ASSUME Init PROVE CopiesInv
  OBVIOUS
<1>1. Busy = {} /\ \A w, i : Unsent(w, i) = {} /\ Copies(w, i) = {}
  BY DEF Init, Idle, Busy, Unsent, Copies
<1>2. \A w \in Workflow : starts[w] = 0
  BY DEF Init
<1>3. QED BY <1>1, <1>2, FS_EmptySet DEF CopiesInv

\* However a workflow is killed, restarted and raced, a call of it sends no more
\* copies of its message than there were executions.
THEOREM CopiesAreBounded == Spec => []SendCopiesBounded
<1>1. TypeOK /\ CopiesInv => SendCopiesBounded
  <2> SUFFICES ASSUME TypeOK, CopiesInv, NEW w \in Workflow, NEW i \in Effects(w)
               PROVE  Cardinality({n \in DOMAIN notes : notes[n].wf = w /\ notes[n].fid = i})
                         <= starts[w]
    BY DEF SendCopiesBounded
  <2>1. CASE i \in Nat \ {0}
    <3>1. /\ Cardinality(Copies(w, i)) + Cardinality(Unsent(w, i)) <= starts[w]
          /\ Cardinality(Copies(w, i)) \in Nat /\ Cardinality(Unsent(w, i)) \in Nat
          /\ starts[w] \in Nat
      BY <2>1, CopiesFinite DEF CopiesInv, TypeOK
    <3>2. QED BY <3>1 DEF Copies
  <2>2. CASE i \notin Nat \ {0}
    <3>1. \A n \in DOMAIN notes : notes[n].fid # i
      <4>1. notes \in Seq(Note)
        BY DEF TypeOK, TablesOK
      <4>2. \A n \in DOMAIN notes : notes[n] \in Note
        BY <4>1, SeqElement
      <4>3. QED BY <2>2, <4>2 DEF Note
    <3> DEFINE c == {n \in DOMAIN notes : notes[n].wf = w /\ notes[n].fid = i}
    <3>2. c = {}
      BY <3>1
    <3> HIDE DEF c
    <3>3. Cardinality(c) = 0 /\ starts[w] \in Nat
      BY <3>2, FS_EmptySet DEF TypeOK
    <3>4. Cardinality(c) <= starts[w]
      BY <3>3
    <3>5. QED BY <3>4 DEF c
  <2>3. QED BY <2>1, <2>2
<1>2. QED BY <1>1, TypeInit, TypeStep, CopiesInit, CopiesStep, PTL DEF Spec
-----------------------------------------------------------------------------
(* Effects come before the rows that claim them.                           *)

\* Some table shows the effect of call i of w.
HasEffect(w, i) ==
    \/ \E n \in DOMAIN notes : notes[n].wf = w /\ notes[n].fid = i
    \/ \E h \in history : h.wf = w /\ h.fid = i
    \/ \E k \in Key : \E n \in DOMAIN streams[w][k] : streams[w][k][n].fid = i

\* Nothing is taken back: messages stay, and stay consumed; effects stay.
NotesGrow ==
    \A n \in DOMAIN notes :
       /\ n \in DOMAIN notes'
       /\ notes'[n].wf = notes[n].wf /\ notes'[n].fid = notes[n].fid
       /\ notes'[n].dest = notes[n].dest
       /\ notes[n].consumed => notes'[n].consumed
EffectsGrow == \A w \in Workflow : \A i : HasEffect(w, i) => HasEffect(w, i)'

LEMMA NotesGrowStep == ASSUME TypeOK, [Next]_vars PROVE NotesGrow
<1>1. CASE Delivers
  BY <1>1 DEF Delivers, NotesGrow
<1>2. ASSUME NEW s \in Slot, Sends(s) PROVE NotesGrow
  BY <1>2, SendsLast DEF NotesGrow
<1>3. QED BY <1>1, <1>2, NotesStep

\* The entry an append leaves.
LEMMA AppendsLast ==
    ASSUME TypeOK, NEW s \in Slot, AppendStream(s)
    PROVE  /\ \E k \in Key : \E n \in DOMAIN streams'[exec[s].wf][k] :
                 streams'[exec[s].wf][k][n].fid = exec[s].fid
           /\ \A w \in Workflow, k \in Key : \A n \in DOMAIN streams[w][k] :
                 n \in DOMAIN streams'[w][k] /\ streams'[w][k][n] = streams[w][k][n]
<1> DEFINE op == Calls(s)[exec[s].fid]
           v == exec[s].wf
           x == [val |-> IF op.kind = "closeStream" THEN Sentinel ELSE op.val,
                 fid |-> exec[s].fid]
           old == streams[v][op.key]
<1>1. /\ exec[s].phase = "append" /\ v \in Workflow
      /\ op \in Op /\ exec[s].fid \in Nat \ {0}
  <2>1. exec[s].phase = "append" /\ ContextsOK
    BY DEF AppendStream, TypeOK
  <2>2. QED BY <2>1, CallType
<1>2. op.key \in Key /\ op.val \in Value
  BY <1>1 DEF Op
<1>3. old \in Seq(StreamEntry) /\ x \in StreamEntry
  BY <1>1, <1>2 DEF StreamEntry, TypeOK, TablesOK
<1>4. /\ streams'[v][op.key] = Append(old, x)
      /\ \A w \in Workflow, k \in Key :
            w # v \/ k # op.key => streams'[w][k] = streams[w][k]
  BY <1>1, <1>2 DEF AppendStream, TypeOK, TablesOK
<1>5. x.fid = exec[s].fid
  OBVIOUS
<1> HIDE DEF x, op, old, v
<1>6. /\ DOMAIN streams'[v][op.key] = 1 .. Len(old) + 1 /\ DOMAIN old = 1 .. Len(old)
      /\ Len(old) \in Nat
      /\ \A n \in 1 .. Len(old) : streams'[v][op.key][n] = old[n]
      /\ streams'[v][op.key][Len(old) + 1] = x
  BY <1>3, <1>4, AppendElements
<1>7. \E k \in Key : \E n \in DOMAIN streams'[v][k] : streams'[v][k][n].fid = exec[s].fid
  <2>1. Len(old) + 1 \in DOMAIN streams'[v][op.key]
    BY <1>6
  <2>2. QED BY <1>2, <1>5, <1>6, <2>1
<1>8. ASSUME NEW w \in Workflow, NEW k \in Key, NEW n \in DOMAIN streams[w][k]
      PROVE  n \in DOMAIN streams'[w][k] /\ streams'[w][k][n] = streams[w][k][n]
  <2>1. CASE w = v /\ k = op.key
    <3>1. n \in DOMAIN old /\ streams[w][k] = old
      BY <1>8, <2>1 DEF old
    <3>2. n \in 1 .. Len(old) /\ n \in 1 .. Len(old) + 1
      BY <1>6, <3>1
    <3>3. streams'[w][k] = streams'[v][op.key]
      BY <2>1
    <3>4. QED BY <1>6, <3>1, <3>2, <3>3, Zenon
  <2>2. CASE w # v \/ k # op.key
    BY <1>4, <1>8, <2>2
  <2>3. QED BY <2>1, <2>2
<1>9. QED BY <1>7, <1>8 DEF v

LEMMA EffectsGrowStep == ASSUME TypeOK, [Next]_vars PROVE EffectsGrow
<1>1. NotesGrow
  BY NotesGrowStep
<1>2. ASSUME NEW h \in history
      PROVE  \E g \in history' : g.wf = h.wf /\ g.fid = h.fid
  <2>1. CASE history' = history
    BY <2>1
  <2>2. ASSUME NEW s \in Slot, SetEvent(s)
        PROVE  \E g \in history' : g.wf = h.wf /\ g.fid = h.fid
    <3>1. CASE h \in history'
      BY <3>1
    <3>2. CASE h \notin history'
      <4> DEFINE op == Calls(s)[exec[s].fid]
                 g == [wf |-> exec[s].wf, fid |-> exec[s].fid, key |-> op.key,
                       val |-> op.val]
      <4>1. g \in history' /\ h.wf = exec[s].wf /\ h.fid = exec[s].fid
        BY <1>2, <2>2, <3>2 DEF SetEvent
      <4>2. g.wf = exec[s].wf /\ g.fid = exec[s].fid
        OBVIOUS
      <4> HIDE DEF g
      <4>3. QED BY <4>1, <4>2
    <3>3. QED BY <3>1, <3>2
  <2>3. QED BY <2>1, <2>2, TableStep
<1>3. ASSUME NEW w \in Workflow, NEW k \in Key, NEW n \in DOMAIN streams[w][k]
      PROVE  n \in DOMAIN streams'[w][k] /\ streams'[w][k][n] = streams[w][k][n]
  BY AppendsLast, TableStep
<1>4. QED BY <1>1, <1>2, <1>3 DEF EffectsGrow, HasEffect, NotesGrow
-----------------------------------------------------------------------------
(* What a context may claim.                                               *)

\* Names of the operations that leave an effect behind.
Leaving == {<<k, Nil>> : k \in {"send", "setEvent", "writeStream", "closeStream"}}

\* Outcome r of call i of w, which is named f, claims no effect that did not
\* happen, and no message but one of its own that is consumed.
Backed(w, i, f, r) ==
    /\ r.ok /\ f \in Leaving => HasEffect(w, i)
    /\ r.ok /\ Recv(f) => r.msg # 0
    /\ r.msg # 0 => /\ r.msg \in DOMAIN notes /\ notes[r.msg].consumed
                    /\ notes[r.msg].dest = w

OpAt(e) == Body[e.ver][e.wf][e.fid]

Sound(e) ==
    /\ e.phase = "picked" => /\ OpAt(e).kind = "recv"
                             /\ e.res.msg \in DOMAIN notes
                             /\ notes[e.res.msg].dest = e.wf
    /\ e.phase = "append" => OpAt(e).kind \in {"writeStream", "closeStream"}
    /\ e.phase = "record" => Backed(e.wf, e.fid, FunctionName(OpAt(e)), e.res)

\* The inductive invariant behind JournaledEffectsHappened.
SoundInv ==
    /\ \A s \in Slot : Sound(exec[s])
    /\ \A r \in journal : Backed(r.wf, r.fid, r.fname, r)

\* Slot s holds message n, or context e does.
Holds(e, n) == e.phase \in {"picked", "record"} /\ e.res.msg = n /\ n # 0

\* A context that comes to hold a message had it already, or takes it while it
\* is unconsumed.
Hands(s, e) ==
    \A n : Holds(e, n) =>
       /\ e.fid = exec[s].fid /\ e.wf = exec[s].wf
       /\ \/ Holds(exec[s], n)
          \/ n \in DOMAIN notes /\ ~notes[n].consumed
       /\ e.phase = "picked" => SnapshotConsume

\* A step inside a call, and any other.
Inside(s, e) == 
    /\ exec' = [exec EXCEPT ![s] = e] /\ journal' = journal
    /\ Sound(e)' /\ Hands(s, e)
Outside(s, e) ==
    /\ exec' = [exec EXCEPT ![s] = e]
    /\ e.phase \notin {"picked", "append", "record"}
    /\ journal' = journal \/ Records(s, e)

\* Names tell kinds apart.
LEMMA NameKinds ==
    ASSUME NEW op
    PROVE  /\ FunctionName(op) \in Leaving <=>
                 op.kind \in {"send", "setEvent", "writeStream", "closeStream"}
           /\ Recv(FunctionName(op)) <=> op.kind = "recv"
BY DEF FunctionName, Leaving, Recv

\* The context of a call that has its outcome r.
LEMMA OutcomeSound ==
    ASSUME ContextsOK, NEW s \in Slot, exec[s].phase \in Working, NEW r, Reply(s, r),
           journal' = journal,
           NEW w, w = exec[s].wf, NEW i, i = exec[s].fid,
           NEW f, f = FunctionName(Calls(s)[exec[s].fid]), Backed(w, i, f, r)',
           \/ r.msg = 0
           \/ exec[s].phase = "picked" /\ exec[s].res.msg = r.msg
           \/ r.msg \in DOMAIN notes /\ ~notes[r.msg].consumed
    PROVE  \E e : Inside(s, e) \/ Outside(s, e)
<1>1. PICK e : /\ Keeps(s, e) /\ e.fid = exec[s].fid
               /\ \/ e.phase = "record" /\ e.res = r
                  \/ e.phase \in {"body", "failed"}
  BY ReplyKeeps
<1>2. CASE e.phase = "record" /\ e.res = r
  <2>1. e.wf = w /\ e.fid = i /\ FunctionName(OpAt(e)) = f
    BY <1>1 DEF Keeps, OpAt, Calls
  <2>2. Sound(e)'
    BY <1>2, <2>1 DEF Sound
  <2>3. Hands(s, e)
    BY <1>1, <1>2 DEF Hands, Holds, Keeps
  <2>4. QED BY <1>1, <2>2, <2>3 DEF Inside, Keeps
<1>3. CASE e.phase \in {"body", "failed"}
  BY <1>1, <1>3 DEF Outside, Keeps
<1>4. QED BY <1>1, <1>2, <1>3

\* An outcome that brings no message.
LEMMA PlainSound ==
    ASSUME ContextsOK, NEW s \in Slot, exec[s].phase \in Working, NEW r, Reply(s, r),
           journal' = journal, r.msg = 0,
           r.ok => Calls(s)[exec[s].fid].kind # "recv",
           r.ok /\ Calls(s)[exec[s].fid].kind \in {"send", "setEvent", "writeStream", "closeStream"}
              => \A w, i : w = exec[s].wf /\ i = exec[s].fid => HasEffect(w, i)'
    PROVE  \E e : Inside(s, e) \/ Outside(s, e)
<1>1. PICK w, i, f : /\ w = exec[s].wf /\ i = exec[s].fid
                     /\ f = FunctionName(Calls(s)[exec[s].fid])
  OBVIOUS
<1>2. Backed(w, i, f, r)'
  BY <1>1, NameKinds DEF Backed
<1>3. QED BY <1>1, <1>2, OutcomeSound

\* Every step, seen from what its context may claim: one proof step per action.
LEMMA SoundContexts ==
    ASSUME TypeOK, SoundInv, [Next]_vars
    PROVE  \/ UNCHANGED <<exec, journal>>
           \/ \E s \in Slot : \E e : Inside(s, e) \/ Outside(s, e)
<1> DEFINE Seen == \/ UNCHANGED <<exec, journal>>
                   \/ \E s \in Slot : \E e : Inside(s, e) \/ Outside(s, e)
<1> USE DEF effects, tables
<1>t. ContextsOK
  BY DEF TypeOK
<1>r. /\ \A v : Ok(v).ok /\ Ok(v).msg = 0
      /\ \A c : ~Err(c).ok /\ Err(c).msg = 0
      /\ \A n : Message(n).ok /\ Message(n).msg = n
  BY DEF Ok, Err, Message
<1>l. ASSUME NEW s \in Slot, NEW kinds, AtLive(s, kinds)
      PROVE  exec[s].phase \in Working /\ Calls(s)[exec[s].fid].kind \in kinds
  BY <1>l DEF AtLive, Working
<1>b. ASSUME NEW s \in Slot, NEW i, NEW r, Resume(s, i, r), journal' = journal
      PROVE  Seen
  <2>1. PICK e : Keeps(s, e) /\ e.phase \in {"body", "failed"}
    BY <1>b, <1>t, ReturnKeeps
  <2>2. QED BY <1>b, <2>1 DEF Outside, Keeps
<1>1. ASSUME NEW w \in Workflow, InitWorkflow(w) PROVE Seen
  BY <1>1 DEF InitWorkflow
<1>2. ASSUME NEW s \in Slot, NEW w \in Workflow, NEW v \in Version, Start(s, w, v)
      PROVE  Seen
  <2>1. PICK e : /\ exec' = [exec EXCEPT ![s] = e] /\ e.phase = "body"
    <3> DEFINE e == [phase |-> "body", wf |-> w, ver |-> v, fid |-> 0, res |-> Ok(Nil)]
    <3>1. exec' = [exec EXCEPT ![s] = e] /\ e.phase = "body"
      BY <1>2 DEF Start
    <3>2. QED BY <3>1
  <2>2. QED BY <1>2, <2>1 DEF Outside, Start
<1>3. ASSUME NEW s \in Slot, ReplayStep(s) PROVE Seen
  BY <1>3, <1>b DEF ReplayStep, Return
<1>4. ASSUME NEW s \in Slot, GoLive(s) PROVE Seen
  <2>1. PICK e : e = [exec[s] EXCEPT !.phase = "live", !.fid = exec[s].fid + 1]
    OBVIOUS
  <2>2. exec' = [exec EXCEPT ![s] = e] /\ e.phase = "live"
    BY <1>4, <1>t, <2>1 DEF GoLive, ContextsOK, Execution
  <2>3. QED BY <1>4, <2>2 DEF Outside, GoLive
<1>5. ASSUME NEW s \in Slot,
             RunStep(s) \/ SetDeadline(s) \/ RecvTimeout(s) \/ GetEvent(s)
      PROVE  Seen
  <2>1. exec[s].phase \in Working /\ journal' = journal
    BY <1>5, <1>l DEF RunStep, SetDeadline, RecvTimeout, GetEvent
  <2>2. CASE Calls(s)[exec[s].fid].kind \in {"step", "sleep", "getEvent"}
    <3>1. \E r : Hold(s, r) /\ r.msg = 0
      BY <1>5, <1>r DEF RunStep, SetDeadline, RecvTimeout, GetEvent
    <3>2. QED BY <1>t, <2>1, <2>2, <3>1, PlainSound DEF Reply
  <2>3. CASE RecvTimeout(s)
    <3>1. Hold(s, Err("TimeoutError")) /\ ~Err("TimeoutError").ok /\ Err("TimeoutError").msg = 0
      BY <1>r, <2>3 DEF RecvTimeout
    <3>2. QED BY <1>t, <2>1, <3>1, PlainSound DEF Reply
  <2>4. QED BY <1>5, <1>l, <2>2, <2>3 DEF RunStep, SetDeadline, GetEvent
<1>6. ASSUME NEW s \in Slot, Send(s) PROVE Seen
  <2>1. /\ exec[s].phase \in Working /\ journal' = journal
        /\ Calls(s)[exec[s].fid].kind = "send"
    BY <1>6, <1>l DEF Send
  <2>2. CASE notes' = Append(notes, NewNote(s)) /\ Reply(s, Ok(Nil))
    <3>1. Sends(s)
      BY <1>6, <2>2 DEF Sends
    <3>2. \E n \in DOMAIN notes' : notes'[n].wf = exec[s].wf /\ notes'[n].fid = exec[s].fid
      <4>1. Len(notes) + 1 \in DOMAIN notes'
        BY <3>1, SendsLast
      <4>2. QED BY <3>1, <4>1, SendsLast
    <3>3. \A w, i : w = exec[s].wf /\ i = exec[s].fid => HasEffect(w, i)'
      BY <3>2 DEF HasEffect
    <3>4. QED BY <1>t, <1>r, <2>1, <2>2, <3>3, PlainSound
  <2>3. CASE Return(s, exec[s].fid, Err("NonExistentWorkflowError"), FALSE)
    BY <1>b, <2>1, <2>3 DEF Return
  <2>4. QED BY <1>6, <2>2, <2>3 DEF Send
<1>7. ASSUME NEW s \in Slot, SetEvent(s) PROVE Seen
  <2>1. /\ exec[s].phase \in Working /\ journal' = journal /\ Reply(s, Ok(Nil))
        /\ Calls(s)[exec[s].fid].kind = "setEvent"
    BY <1>7, <1>l DEF SetEvent
  <2>2. \E h \in history' : h.wf = exec[s].wf /\ h.fid = exec[s].fid
    <3> DEFINE op == Calls(s)[exec[s].fid]
               g == [wf |-> exec[s].wf, fid |-> exec[s].fid, key |-> op.key,
                     val |-> op.val]
    <3>1. g \in history'
      BY <1>7 DEF SetEvent
    <3>2. g.wf = exec[s].wf /\ g.fid = exec[s].fid
      OBVIOUS
    <3> HIDE DEF g
    <3>3. QED BY <3>1, <3>2
  <2>3. \A w, i : w = exec[s].wf /\ i = exec[s].fid => HasEffect(w, i)'
    BY <2>2 DEF HasEffect
  <2>4. QED BY <1>t, <1>r, <2>1, <2>3, PlainSound
<1>8. ASSUME NEW s \in Slot, AppendStream(s) PROVE Seen
  <2>1. /\ exec[s].phase \in Working /\ journal' = journal /\ Reply(s, Ok(Nil))
        /\ exec[s].phase = "append"
    BY <1>8 DEF AppendStream, Working
  <2>2. Calls(s)[exec[s].fid].kind \in {"writeStream", "closeStream"}
    BY <2>1 DEF SoundInv, Sound, OpAt, Calls
  <2>3. \A w, i : w = exec[s].wf /\ i = exec[s].fid => HasEffect(w, i)'
    BY <1>8, AppendsLast DEF HasEffect
  <2>4. QED BY <1>t, <1>r, <2>1, <2>2, <2>3, PlainSound
<1>9. ASSUME NEW s \in Slot, NEW n, Consume(n), NEW r, Reply(s, r), journal' = journal,
             r.msg = n, n \in DOMAIN notes, notes[n].dest = exec[s].wf,
             exec[s].phase \in Working, Calls(s)[exec[s].fid].kind = "recv",
             \/ exec[s].phase = "picked" /\ exec[s].res.msg = n
             \/ ~notes[n].consumed
      PROVE  Seen
  <2>1. PICK w, i, f : /\ w = exec[s].wf /\ i = exec[s].fid
                       /\ f = FunctionName(Calls(s)[exec[s].fid])
    OBVIOUS
  <2>2. /\ n \in DOMAIN notes' /\ notes'[n].dest = w /\ notes'[n].consumed /\ n # 0
    <3>1. Delivers /\ notes'[n].consumed
      BY <1>9, ConsumeDelivers DEF TypeOK
    <3>2. notes \in Seq(Note)
      BY DEF TypeOK, TablesOK
    <3>3. n # 0
      BY <1>9, <3>2
    <3>4. QED BY <1>9, <2>1, <3>1, <3>3 DEF Delivers
  <2>3. f \notin Leaving
    BY <1>9, <2>1, NameKinds
  <2>4. Backed(w, i, f, r)'
    BY <1>9, <2>2, <2>3 DEF Backed
  <2>5. QED BY <1>9, <1>t, <2>1, <2>4, OutcomeSound
<1>10. ASSUME NEW s \in Slot, RecvMessage(s) PROVE Seen
  <2>1. /\ exec[s].phase \in Working /\ journal' = journal
        /\ Calls(s)[exec[s].fid].kind = "recv"
    BY <1>10, <1>l DEF RecvMessage
  <2>2. PICK n \in Waiting(s) : Consume(n) /\ Reply(s, Message(n))
    BY <1>10 DEF RecvMessage
  <2>3. PICK r : r = Message(n)
    OBVIOUS
  <2>4. n \in DOMAIN notes /\ notes[n].dest = exec[s].wf /\ ~notes[n].consumed
    BY <2>2 DEF Waiting
  <2>5. r.msg = n /\ Reply(s, r)
    BY <1>r, <2>2, <2>3
  <2>6. QED BY <1>9, <2>1, <2>2, <2>4, <2>5
<1>11. ASSUME NEW s \in Slot, PickMessage(s) PROVE Seen
  <2>1. PICK n \in Waiting(s) :
           exec' = [exec EXCEPT ![s] = [exec[s] EXCEPT !.phase = "picked",
                                                       !.res = Message(n)]]
    BY <1>11 DEF PickMessage
  <2>2. PICK e : e = [exec[s] EXCEPT !.phase = "picked", !.res = Message(n)]
    OBVIOUS
  <2>3. /\ e.wf = exec[s].wf /\ e.fid = exec[s].fid /\ e.ver = exec[s].ver
        /\ e.phase = "picked" /\ e.res = Message(n) /\ exec' = [exec EXCEPT ![s] = e]
    BY <1>t, <2>1, <2>2 DEF ContextsOK, Execution
  <2>4. n \in DOMAIN notes /\ notes[n].dest = exec[s].wf /\ ~notes[n].consumed
    BY <2>1 DEF Waiting
  <2>5. /\ e.res.msg = n /\ OpAt(e).kind = "recv" /\ notes' = notes /\ journal' = journal
        /\ SnapshotConsume
    BY <1>11, <1>l, <1>r, <2>3 DEF PickMessage, OpAt, Calls
  <2>6. Sound(e)' /\ Hands(s, e)
    BY <2>3, <2>4, <2>5 DEF Sound, Hands, Holds
  <2>7. QED BY <2>3, <2>5, <2>6 DEF Inside
<1>12. ASSUME NEW s \in Slot, ConsumePicked(s) PROVE Seen
  <2>1. PICK n, r : n = exec[s].res.msg /\ r = exec[s].res
    OBVIOUS
  <2>2. /\ exec[s].phase = "picked" /\ exec[s].phase \in Working /\ journal' = journal
        /\ Consume(n) /\ Reply(s, r)
    BY <1>12, <2>1 DEF ConsumePicked, Working
  <2>3. /\ n \in DOMAIN notes /\ notes[n].dest = exec[s].wf
        /\ Calls(s)[exec[s].fid].kind = "recv"
    BY <2>1, <2>2 DEF SoundInv, Sound, OpAt, Calls
  <2>4. QED BY <1>9, <2>1, <2>2, <2>3
<1>13. ASSUME NEW s \in Slot, CheckStream(s) PROVE Seen
  <2>1. /\ journal' = journal
        /\ Calls(s)[exec[s].fid].kind \in {"writeStream", "closeStream"}
    BY <1>13, <1>l DEF CheckStream
  <2>2. CASE Return(s, exec[s].fid, Err("StreamClosed"), FALSE)
    BY <1>b, <2>1, <2>2 DEF Return
  <2>3. CASE exec' = [exec EXCEPT ![s] = [@ EXCEPT !.phase = "append"]]
    <3>1. PICK e : e = [exec[s] EXCEPT !.phase = "append"]
      OBVIOUS
    <3>2. /\ e.wf = exec[s].wf /\ e.fid = exec[s].fid /\ e.ver = exec[s].ver
          /\ e.phase = "append" /\ exec' = [exec EXCEPT ![s] = e]
      BY <1>t, <2>3, <3>1 DEF ContextsOK, Execution
    <3>3. Sound(e)' /\ Hands(s, e)
      BY <2>1, <3>2 DEF Sound, Hands, Holds, OpAt, Calls
    <3>4. QED BY <2>1, <3>2, <3>3 DEF Inside
  <2>4. QED BY <1>13, <2>2, <2>3 DEF CheckStream
<1>14. ASSUME NEW s \in Slot, RecordStep(s) PROVE Seen
  <2>1. PICK e : Fails(s, e) \/ Records(s, e)
    BY <1>14, <1>t, RecordReturns
  <2>2. QED BY <2>1 DEF Outside, Fails, Records, Returns, Keeps
<1>15. ASSUME NEW s \in Slot, Finish(s) \/ FinishFails(s) \/ Crash(s) PROVE Seen
  <2>1. exec' = [exec EXCEPT ![s] = Idle] /\ journal' = journal /\ Idle.phase = "idle"
    BY <1>15 DEF Finish, FinishFails, Crash, Idle
  <2>2. QED BY <2>1 DEF Outside
<1>16. ASSUME NEW s \in Slot, DbFails(s) PROVE Seen
  BY <1>16, <1>b DEF DbFails, DbFault, Return
<1>17. CASE UNCHANGED vars
  BY <1>17 DEF vars
<1>18. QED
  BY <1>1, <1>2, <1>3, <1>4, <1>5, <1>6, <1>7, <1>8, <1>10, <1>11, <1>12,
     <1>13, <1>14, <1>15, <1>16, <1>17 DEF Next, Progress

LEMMA SoundStep == TypeOK /\ SoundInv /\ [Next]_vars => SoundInv'
<1> SUFFICES ASSUME TypeOK, SoundInv, [Next]_vars PROVE SoundInv'
  OBVIOUS
<1>1. NotesGrow /\ EffectsGrow /\ exec \in [Slot -> Execution]
  BY NotesGrowStep, EffectsGrowStep DEF TypeOK, ContextsOK
<1>2. ASSUME NEW w \in Workflow, NEW i, NEW f, NEW r, Backed(w, i, f, r)
      PROVE  Backed(w, i, f, r)'
  BY <1>1, <1>2 DEF Backed, NotesGrow, EffectsGrow
<1>3. ASSUME NEW e, Sound(e), e.phase # "idle" => e.wf \in Workflow
      PROVE  Sound(e)'
  <2>1. e.phase = "record" => Backed(e.wf, e.fid, FunctionName(OpAt(e)), e.res)'
    BY <1>2, <1>3 DEF Sound, OpAt
  <2>2. QED BY <1>1, <1>3, <2>1 DEF Sound, NotesGrow, OpAt
<1>4. ASSUME NEW s \in Slot PROVE \E c : c = exec[s] /\ Sound(c)'
  <2>1. PICK c : c = exec[s]
    OBVIOUS
  <2>2. Sound(c) /\ (c.phase # "idle" => c.wf \in Workflow)
    BY <2>1 DEF SoundInv, TypeOK, ContextsOK, Running
  <2>3. QED BY <1>3, <2>1, <2>2
<1>5. ASSUME NEW r \in journal PROVE Backed(r.wf, r.fid, r.fname, r)'
  <2>1. r.wf \in Workflow
    BY DEF TypeOK, TablesOK, JournalRow
  <2>2. QED BY <1>2, <2>1 DEF SoundInv
<1>6. CASE UNCHANGED <<exec, journal>>
  BY <1>4, <1>5, <1>6 DEF SoundInv
<1>7. ASSUME NEW s \in Slot, NEW e, exec' = [exec EXCEPT ![s] = e], Sound(e)'
      PROVE  \A t \in Slot : Sound(exec[t])'
  <2>1. \A t \in Slot : exec'[t] = IF t = s THEN e ELSE exec[t]
    BY <1>1, <1>7
  <2>2. QED BY <1>4, <1>7, <2>1
<1>8. ASSUME NEW s \in Slot, NEW e, Inside(s, e) PROVE SoundInv'
  BY <1>5, <1>7, <1>8 DEF Inside, SoundInv
<1>9. ASSUME NEW s \in Slot, NEW e, Outside(s, e) PROVE SoundInv'
  <2>1. \A t \in Slot : Sound(exec[t])'
    <3>1. Sound(e)'
      BY <1>9 DEF Outside, Sound
    <3>2. QED BY <1>7, <1>9, <3>1 DEF Outside
  <2>2. CASE journal' = journal
    BY <1>5, <2>1, <2>2 DEF SoundInv
  <2>3. CASE Records(s, e)
    <3>1. PICK q : q = NewRow(s)
      OBVIOUS
    <3>2. PICK c : c = exec[s] /\ Sound(c)'
      BY <1>4
    <3>3. journal' = journal \cup {q} /\ c.phase = "record"
      BY <2>3, <3>1, <3>2 DEF Records
    <3>4. /\ q.wf = c.wf /\ q.fid = c.fid /\ q.fname = FunctionName(OpAt(c))
          /\ q.msg = c.res.msg
      BY <3>1, <3>2 DEF NewRow, OpAt, Calls
    <3>5. q.ok = c.res.ok
      BY <3>1, <3>2, Zenon DEF NewRow
    <3>6. Backed(q.wf, q.fid, q.fname, q)'
      <4>1. Backed(c.wf, c.fid, FunctionName(OpAt(c)), c.res)'
        BY <3>2, <3>3 DEF Sound
      <4>2. QED BY <3>4, <3>5, <4>1 DEF Backed
    <3>7. QED BY <1>5, <2>1, <3>3, <3>6 DEF SoundInv
  <2>4. QED BY <1>9, <2>2, <2>3 DEF Outside
<1>10. QED BY <1>6, <1>8, <1>9, SoundContexts

LEMMA SoundInit == Init => SoundInv
BY DEF Init, Idle, SoundInv, Sound

\* A row that reports success was written after the effect it stands for, and a
\* recorded receipt after its message was consumed.
THEOREM RowsFollowEffects == Spec => []JournaledEffectsHappened
<1>1. SoundInv => JournaledEffectsHappened
  <2>1. \A w, i : HasEffect(w, i) => i \in Effects(w)
    BY DEF HasEffect, Effects
  <2>2. QED BY <2>1 DEF SoundInv, Backed, Leaving, JournaledEffectsHappened
<1>2. QED BY <1>1, TypeInit, TypeStep, SoundInit, SoundStep, PTL DEF Spec
-----------------------------------------------------------------------------
(* A message is recorded once.                                             *)

NoneTwice == \A a, b \in journal : a.msg # 0 /\ a.msg = b.msg => a = b

\* On either database: who holds a message that is on record, of an earlier
\* execution, is at that row's call or at one before it.
Ordered ==
    \A s \in Slot, r \in journal : Holds(exec[s], r.msg) => exec[s].fid <= r.fid
OrderedInv == Ordered /\ NoneTwice

\* On SQLite: who holds a message is the only one that has ever had it.
Exclusive ==
    \A s \in Slot : \A n : Holds(exec[s], n) =>
       /\ exec[s].phase = "record"
       /\ \A r \in journal : r.msg # n
       /\ \A t \in Slot : Holds(exec[t], n) => t = s
ExclusiveInv == Exclusive /\ NoneTwice

\* Who holds a message it is addressed to, and has marked it by the time it
\* records it; a message on record is marked too.
LEMMA HeldMessages ==
    ASSUME SoundInv
    PROVE  /\ \A s \in Slot : \A n : Holds(exec[s], n) =>
                 /\ n \in DOMAIN notes /\ notes[n].dest = exec[s].wf
                 /\ exec[s].phase = "record" => notes[n].consumed
           /\ \A r \in journal : r.msg # 0 =>
                 /\ r.msg \in DOMAIN notes /\ notes[r.msg].dest = r.wf
                 /\ notes[r.msg].consumed
BY DEF SoundInv, Sound, Backed, Holds

LEMMA OrderedStep ==
    TypeOK /\ PrefixInv /\ SoundInv /\ OrderedInv /\ [Next]_vars => OrderedInv'
<1> SUFFICES ASSUME TypeOK, PrefixInv, SoundInv, OrderedInv, [Next]_vars
             PROVE  OrderedInv'
  OBVIOUS
<1>t. /\ ContextsOK /\ exec \in [Slot -> Execution]
      /\ \A s \in Slot : exec[s].fid \in Nat
      /\ \A r \in journal : r.fid \in Nat
  BY DEF TypeOK, ContextsOK, Execution, TablesOK, JournalRow
<1>1. CASE UNCHANGED <<exec, journal>>
  BY <1>1 DEF OrderedInv, Ordered, NoneTwice
<1>2. ASSUME NEW s \in Slot, NEW e, Inside(s, e) PROVE OrderedInv'
  <2>1. /\ \A t \in Slot : exec'[t] = IF t = s THEN e ELSE exec[t]
        /\ journal' = journal
    BY <1>2, <1>t DEF Inside
  <2>2. ASSUME NEW r \in journal, Holds(e, r.msg) PROVE e.fid <= r.fid
    <3>1. r.msg # 0 /\ notes[r.msg].consumed
      BY <2>2, HeldMessages DEF Holds
    <3>2. e.fid = exec[s].fid /\ Holds(exec[s], r.msg)
      BY <1>2, <2>2, <3>1 DEF Inside, Hands
    <3>3. QED BY <3>2 DEF OrderedInv, Ordered
  <2>3. QED BY <2>1, <2>2 DEF OrderedInv, Ordered, NoneTwice
<1>3. ASSUME NEW s \in Slot, NEW e, Outside(s, e) PROVE OrderedInv'
  <2>1. /\ \A t \in Slot : exec'[t] = IF t = s THEN e ELSE exec[t]
        /\ \A n : ~Holds(e, n)
    BY <1>3, <1>t DEF Outside, Holds
  <2>2. CASE journal' = journal
    BY <2>1, <2>2 DEF OrderedInv, Ordered, NoneTwice
  <2>3. CASE Records(s, e)
    <3>1. /\ exec[s].phase = "record" /\ ~Recorded(exec[s].wf, exec[s].fid)
          /\ journal' = journal \cup {NewRow(s)}
          /\ exec[s].fid \in Nat \ {0}
      <4>1. exec[s].phase = "record"
        BY <2>3 DEF Records
      <4>2. exec[s].fid \in 1 .. Len(Calls(s)) /\ Calls(s) \in Seq(Op)
        BY <4>1, <1>t, CallType
      <4>3. QED BY <2>3, <4>2 DEF Records
    <3>2. NewRow(s).msg = exec[s].res.msg /\ NewRow(s).fid = exec[s].fid
      BY DEF NewRow
    <3>3. \A n \in Nat : Done(journal, exec[s].wf, n) => n < exec[s].fid
      <4>1. ASSUME NEW n \in Nat, Done(journal, exec[s].wf, n), exec[s].fid <= n
            PROVE  FALSE
        <5>1. exec[s].fid \in 1 .. n
          BY <3>1, <4>1
        <5>2. QED BY <3>1, <4>1, <5>1 DEF Done, Recorded, Row
      <4>2. QED BY <3>1, <4>1
    <3>4. ASSUME NEW t \in Slot, Holds(exec[t], NewRow(s).msg)
          PROVE  exec[t].fid <= exec[s].fid
      <4>1. Holds(exec[s], NewRow(s).msg)
        BY <3>1, <3>2, <3>4 DEF Holds
      <4>2. exec[t].wf = exec[s].wf
        BY <3>4, <4>1, HeldMessages
      <4>3. exec[t].phase \in Working
        BY <3>4 DEF Holds, Working
      <4>4. exec[t].fid - 1 \in Nat /\ Done(journal, exec[t].wf, exec[t].fid - 1)
        <5>1. exec[t].fid # 0
          BY <4>3, <1>t DEF ContextsOK, Running, Working
        <5>2. QED BY <4>3, <5>1, <1>t DEF PrefixInv, ContextPrefix, Settled
      <4>5. exec[t].fid - 1 < exec[s].fid
        BY <3>3, <4>2, <4>4
      <4>6. QED BY <1>t, <4>5
    <3>5. ASSUME NEW r \in journal, r.msg = NewRow(s).msg, r.msg # 0 PROVE FALSE
      <4>1. Holds(exec[s], r.msg)
        BY <3>1, <3>2, <3>5 DEF Holds
      <4>2. r.wf = exec[s].wf
        BY <3>5, <4>1, HeldMessages
      <4>3. exec[s].fid <= r.fid
        BY <4>1 DEF OrderedInv, Ordered
      <4>4. Done(journal, exec[s].wf, r.fid)
        BY <4>2 DEF PrefixInv, JournalPrefix
      <4>5. QED BY <1>t, <3>3, <4>3, <4>4
    <3>6. Ordered'
      <4>1. ASSUME NEW t \in Slot, NEW r \in journal', Holds(exec'[t], r.msg)
            PROVE  exec'[t].fid <= r.fid
        <5>1. exec'[t] = exec[t]
          BY <2>1, <4>1
        <5>2. QED BY <3>1, <3>2, <3>4, <4>1, <5>1 DEF OrderedInv, Ordered
      <4>2. QED BY <4>1 DEF Ordered
    <3>7. NoneTwice'
      BY <3>1, <3>5 DEF OrderedInv, NoneTwice
    <3>8. QED BY <3>6, <3>7 DEF OrderedInv
  <2>4. QED BY <1>3, <2>2, <2>3 DEF Outside
<1>4. QED BY <1>1, <1>2, <1>3, SoundContexts

LEMMA ExclusiveStep ==
    ~SnapshotConsume /\ TypeOK /\ SoundInv /\ ExclusiveInv /\ [Next]_vars => ExclusiveInv'
<1> SUFFICES ASSUME ~SnapshotConsume, TypeOK, SoundInv, ExclusiveInv, [Next]_vars
             PROVE  ExclusiveInv'
  OBVIOUS
<1>t. exec \in [Slot -> Execution]
  BY DEF TypeOK, ContextsOK
<1>1. CASE UNCHANGED <<exec, journal>>
  BY <1>1 DEF ExclusiveInv, Exclusive, NoneTwice
<1>2. ASSUME NEW s \in Slot, NEW e, Inside(s, e) PROVE ExclusiveInv'
  <2>1. /\ \A t \in Slot : exec'[t] = IF t = s THEN e ELSE exec[t]
        /\ journal' = journal
    BY <1>2, <1>t DEF Inside
  <2>2. ASSUME NEW n, Holds(e, n)
        PROVE  /\ e.phase = "record"
               /\ \A r \in journal : r.msg # n
               /\ \A t \in Slot : Holds(exec[t], n) => t = s
    <3>1. e.phase = "record"
      BY <1>2, <2>2 DEF Inside, Hands, Holds
    <3>2. CASE Holds(exec[s], n)
      BY <3>1, <3>2 DEF ExclusiveInv, Exclusive
    <3>3. CASE ~notes[n].consumed
      <4>1. n # 0
        BY <2>2 DEF Holds
      <4>2. QED BY <3>1, <3>3, <4>1, HeldMessages DEF ExclusiveInv, Exclusive
    <3>4. QED BY <1>2, <2>2, <3>2, <3>3 DEF Inside, Hands
  <2>3. QED BY <2>1, <2>2 DEF ExclusiveInv, Exclusive, NoneTwice
<1>3. ASSUME NEW s \in Slot, NEW e, Outside(s, e) PROVE ExclusiveInv'
  <2>1. /\ \A t \in Slot : exec'[t] = IF t = s THEN e ELSE exec[t]
        /\ \A n : ~Holds(e, n)
    BY <1>3, <1>t DEF Outside, Holds
  <2>2. CASE journal' = journal
    BY <2>1, <2>2 DEF ExclusiveInv, Exclusive, NoneTwice
  <2>3. CASE Records(s, e)
    <3>1. exec[s].phase = "record" /\ journal' = journal \cup {NewRow(s)}
      BY <2>3 DEF Records
    <3>2. NewRow(s).msg = exec[s].res.msg
      BY DEF NewRow
    <3>3. NewRow(s).msg # 0 => Holds(exec[s], NewRow(s).msg)
      BY <3>1, <3>2 DEF Holds
    <3>4. NewRow(s).msg # 0 => /\ \A r \in journal : r.msg # NewRow(s).msg
                               /\ \A t \in Slot : Holds(exec[t], NewRow(s).msg) => t = s
      BY <3>3 DEF ExclusiveInv, Exclusive
    <3>5. NoneTwice'
      BY <3>1, <3>4 DEF ExclusiveInv, NoneTwice
    <3>6. Exclusive'
      <4>1. ASSUME NEW t \in Slot, NEW n, Holds(exec'[t], n)
            PROVE  /\ exec'[t].phase = "record"
                   /\ \A r \in journal' : r.msg # n
                   /\ \A u \in Slot : Holds(exec'[u], n) => u = t
        <5>1. exec'[t] = exec[t] /\ t # s /\ n # 0
          BY <2>1, <4>1 DEF Holds
        <5>2. /\ exec[t].phase = "record"
              /\ \A r \in journal : r.msg # n
              /\ \A u \in Slot : Holds(exec[u], n) => u = t
          BY <4>1, <5>1 DEF ExclusiveInv, Exclusive
        <5>3. NewRow(s).msg # n
          BY <3>3, <5>1, <5>2
        <5>4. QED BY <2>1, <3>1, <5>1, <5>2, <5>3
      <4>2. QED BY <4>1 DEF Exclusive
    <3>7. QED BY <3>5, <3>6 DEF ExclusiveInv
  <2>4. QED BY <1>3, <2>2, <2>3 DEF Outside
<1>4. QED BY <1>1, <1>2, <1>3, SoundContexts

\* No message is the recorded outcome of two calls of recv: on SQLite because
\* one transaction selects and marks it, on Postgres because the executions that
\* may share it race for the same row of a journal without gaps.
THEOREM OneReceiptPerMessage == Spec => []MessageJournaledOnce
<1>1. Init => OrderedInv /\ ExclusiveInv
  BY DEF Init, Idle, OrderedInv, ExclusiveInv, Ordered, Exclusive, NoneTwice, Holds
<1>2. NoneTwice => MessageJournaledOnce
  BY DEF NoneTwice, MessageJournaledOnce
<1>3. CASE WellBehaved
  <2>1. TypeOK /\ PrefixInv /\ [Next]_vars => PrefixInv'
    BY <1>3, PrefixStep
  <2>2. OrderedInv => MessageJournaledOnce
    BY <1>2 DEF OrderedInv
  <2>3. QED
    BY <1>1, <2>1, <2>2, TypeInit, TypeStep, PrefixInit, SoundInit, SoundStep,
       OrderedStep, PTL DEF Spec
<1>4. CASE ~SnapshotConsume
  <2>1. TypeOK /\ SoundInv /\ ExclusiveInv /\ [Next]_vars => ExclusiveInv'
    BY <1>4, ExclusiveStep
  <2>2. ExclusiveInv => MessageJournaledOnce
    BY <1>2 DEF ExclusiveInv
  <2>3. QED
    BY <1>1, <2>1, <2>2, TypeInit, TypeStep, SoundInit, SoundStep, PTL DEF Spec
<1>5. CASE ~WellBehaved /\ SnapshotConsume
  <2>1. MessageJournaledOnce
    BY <1>5 DEF MessageJournaledOnce
  <2>2. QED BY <2>1, PTL
<1>6. QED BY <1>3, <1>4, <1>5
=============================================================================
