---------------------------- MODULE ChildWorkflows ----------------------------
(***************************************************************************)
(* Child workflows: WorkflowContext::run_workflow and get_result, under    *)
(* crashes, launch recovery and recover_workflows.                         *)
(*                                                                         *)
(* run_workflow of a context inserts the child's row, then the parent's    *)
(* checkpoint that names it, then executes the child inside the parent's   *)
(* own future; replayed, it returns a handle and executes nothing.  Ids    *)
(* are fresh UUIDs, so the rows are a sequence and an id is a place in it, *)
(* which is the order of created_at too.                                   *)
(*                                                                         *)
(* A body is a sequence of calls and of get_results (without a timeout) of *)
(* the child called last; it passes on every error it is given.  A task is *)
(* a future that executes workflows: the stack of executions it is in the  *)
(* midst of, each called by the one before, and the list it works through. *)
(***************************************************************************)
EXTENDS Naturals, Sequences, SequencesExt, FiniteSets

CONSTANTS
    Name,      \* names of registered workflows
    Body,      \* Body[n]: what workflows named n do
    Fails,     \* names of workflows whose bodies end in an error
    Root,      \* names of workflows that are run from outside
    Process,   \* processes; each has its own executor id
    Nil,       \* no value
    MaxRoots,  \* bound: workflows run from outside
    MaxFaults  \* bound: crashes, recover_workflows, cancellations, deletions

Ops == {[op |-> "call", name |-> n] : n \in Name} \cup {[op |-> "await"]}

ASSUME ChildAssumption ==
    /\ Body \in [Name -> Seq(Ops)]
    /\ \A n \in Name : Body[n] # <<>> => Body[n][1].op = "call"
    /\ Fails \subseteq Name /\ Root \subseteq Name
    /\ Nil \notin Nat

ASSUME ChildBounds == MaxRoots \in Nat /\ MaxFaults \in Nat

VARIABLES
    rows,   \* workflow_status, with the child rows of operation_outputs
    state,  \* each process: "off", "launching" or "up"
    task,   \* each process: its tasks
    doomed, \* what delete_workflows has gathered so far
    faults, \* history: what MaxFaults bounds, so far
    good    \* history: workflows whose success has been recorded

vars == <<rows, state, task, doomed, faults, good>>

Id == 1 .. Len(rows)
Slot == {"launch", "admin", "run"}
Terminal == {"SUCCESS", "ERROR", "CANCELLED"}

Deleted(w) == rows[w].status = "DELETED"

\* init_workflow inserts a fresh row.
Insert(n, p, parent) ==
    Append(rows, [status |-> "PENDING", name |-> n, exe |-> p,
                  parent |-> parent, kids |-> <<>>, runs |-> 0])

\* History: how often a workflow has been executed.
Counted(rs, w) == [rs EXCEPT ![w].runs = @ + 1]

\* execute_workflow: a context that has taken no step yet.
Begin(w) == [id |-> w, pc |-> 1, steps |-> 0, at |-> "body", child |-> Nil]

NoTask == [stack |-> <<>>, todo |-> {}]

\* delete_workflows: ids to delete, and those whose children are still to be
\* looked up.
NoDeletion == [ids |-> {}, queue |-> {}]

Init ==
    /\ rows = <<>>
    /\ state = [p \in Process |-> "up"]
    /\ task = [p \in Process |-> [s \in Slot |-> NoTask]]
    /\ doomed = NoDeletion
    /\ faults = 0
    /\ good = {}

Busy(p, s) == task[p][s].stack # <<>>
Top(p, s) == Last(task[p][s].stack)
SetTop(p, s, f) ==
    task' = [task EXCEPT ![p][s].stack = Append(Front(@), f)]

Op(f) == Body[rows[f.id].name][f.pc]
BodyDone(f) == f.pc > Len(Body[rows[f.id].name])
At(p, s, op) ==
    /\ Busy(p, s) /\ Top(p, s).at = "body"
    /\ ~BodyDone(Top(p, s)) /\ Op(Top(p, s)).op = op
-----------------------------------------------------------------------------
(* Executing a body.                                                       *)

\* JournioContext::run_workflow.
RunRoot(p, n) ==
    /\ state[p] = "up" /\ ~Busy(p, "run")
    /\ Cardinality({w \in Id : rows[w].parent = Nil}) < MaxRoots
    /\ rows' = Counted(Insert(n, p, Nil), Len(rows) + 1)
    /\ task' = [task EXCEPT ![p]["run"].stack = <<Begin(Len(rows) + 1)>>]
    /\ UNCHANGED <<state, doomed, faults, good>>

\* The child the step's checkpoint names, if there is one.
RecordedChild(f) ==
    {rows[f.id].kids[i] : i \in {f.steps + 1} \cap DOMAIN rows[f.id].kids}

\* The execution once its call has returned a handle.
Called(f, c) ==
    [f EXCEPT !.at = "body", !.pc = @ + 1, !.steps = @ + 1, !.child = c]

\* A recorded call: a handle, whatever became of the child.
ReplayCall(p, s) ==
    /\ At(p, s, "call")
    /\ \E c \in RecordedChild(Top(p, s)) : SetTop(p, s, Called(Top(p, s), c))
    /\ UNCHANGED <<rows, state, doomed, faults, good>>

InsertChild(p, s) ==
    /\ At(p, s, "call") /\ RecordedChild(Top(p, s)) = {}
    /\ rows' = Insert(Op(Top(p, s)).name, p, Top(p, s).id)
    /\ SetTop(p, s, [Top(p, s) EXCEPT !.at = "checkpoint", !.child = Len(rows) + 1])
    /\ UNCHANGED <<state, doomed, faults, good>>

\* record_step_output finds the step's number taken.  (TakenLate is a mutant:
\* off by one.)
TakenLate(f) == Len(rows[f.id].kids) > f.steps + 1
Taken(f) == Len(rows[f.id].kids) > f.steps

\* start_workflow executes the child once it has been named.
Execute(p, s, f) ==
    task' = [task EXCEPT ![p][s].stack =
       Append(Append(Front(@), [f EXCEPT !.at = "calling"]), Begin(f.child))]

\* The step has another child, or the parent's row is gone, to which the
\* checkpoint refers: the call fails, and its own child is executed by nobody.
\* (GoOnAnyway is a mutant.)
GoOnAnyway(p, s, f) ==
    Execute(p, s, f) /\ rows' = Counted(rows, f.child)
LoseStep(p, s, f) ==
    SetTop(p, s, [f EXCEPT !.at = "failed"]) /\ UNCHANGED rows

CheckpointChild(p, s) ==
    /\ Busy(p, s) /\ Top(p, s).at = "checkpoint"
    /\ LET f == Top(p, s) IN
       \/ (Taken(f) \/ Deleted(f.id)) /\ LoseStep(p, s, f)
       \/ /\ ~Taken(f) /\ ~Deleted(f.id) /\ Execute(p, s, f)
          /\ rows' = Counted([rows EXCEPT ![f.id].kids = Append(@, f.child)],
                             f.child)
    /\ UNCHANGED <<state, doomed, faults, good>>

\* get_result polls until the child's row has ended; a row that does not exist
\* may come yet.  (EndedSomehow is a mutant: it does not look how.)
EndedSomehow(c) == rows[c].status \in Terminal
EndedWell(c) == rows[c].status = "SUCCESS"

GetResult(p, s) ==
    /\ At(p, s, "await")
    /\ LET f == Top(p, s) IN
       /\ rows[f.child].status \in Terminal
       /\ SetTop(p, s, IF EndedWell(f.child) THEN [f EXCEPT !.pc = @ + 1]
                       ELSE [f EXCEPT !.at = "failed"])
    /\ UNCHANGED <<rows, state, doomed, faults, good>>

\* Whoever awaited the execution goes on: the caller with a handle or the
\* error, the list with its next workflow or, after an error, not at all.
Return(p, s, ok) ==
    LET rest == Front(task[p][s].stack) IN
    IF rest # <<>>
    THEN /\ task' = [task EXCEPT ![p][s].stack = Append(Front(rest),
               IF ok THEN Called(Last(rest), Top(p, s).id)
               ELSE [Last(rest) EXCEPT !.at = "failed"])]
         /\ UNCHANGED state
    ELSE IF s = "launch" /\ ~ok
    THEN /\ task' = [task EXCEPT ![p] = [r \in Slot |-> NoTask]]
         /\ state' = [state EXCEPT ![p] = "off"]
    ELSE /\ task' = [task EXCEPT ![p][s] =
               IF ok THEN [NoTask EXCEPT !.todo = task[p][s].todo] ELSE NoTask]
         /\ UNCHANGED state

\* execute_workflow's end: record_workflow_result spares CANCELLED and does
\* nothing without a row.
EndBody(p, s) ==
    /\ Busy(p, s)
    /\ LET f == Top(p, s)
           ok == f.at = "body" /\ rows[f.id].name \notin Fails IN
       /\ f.at = "failed" \/ (f.at = "body" /\ BodyDone(f))
       /\ rows' = IF rows[f.id].status = "CANCELLED" \/ Deleted(f.id) THEN rows
                  ELSE [rows EXCEPT ![f.id].status = IF ok THEN "SUCCESS" ELSE "ERROR"]
       /\ good' = {w \in DOMAIN rows' : w \in good \/ rows'[w].status = "SUCCESS"}
       /\ Return(p, s, ok)
    /\ UNCHANGED <<doomed, faults>>
-----------------------------------------------------------------------------
(* Recovery, cancellation and crashes.                                     *)

\* get_workflows_for_recovery: of executor e.  A list in order of creation is
\* the set of what is left of it, since that is the order of the ids.
\* (RecoverableRoots is a mutant: children are left to their parents.)
RecoverableRoots(e) ==
    {w \in Id : rows[w].exe = e /\ rows[w].status = "PENDING" /\ rows[w].parent = Nil}
Recoverable(e) == {w \in Id : rows[w].exe = e /\ rows[w].status = "PENDING"}

Launch(p) ==
    /\ state[p] = "off"
    /\ state' = [state EXCEPT ![p] = "launching"]
    /\ task' = [task EXCEPT ![p]["launch"].todo = Recoverable(p)]
    /\ UNCHANGED <<rows, doomed, faults, good>>

\* recover and recover_workflows execute a list's workflows one by one.
RecoverNext(p, s) ==
    /\ ~Busy(p, s)
    /\ \E w \in task[p][s].todo :
       /\ \A v \in task[p][s].todo : w <= v
       /\ task' = [task EXCEPT ![p][s] = [stack |-> <<Begin(w)>>, todo |-> @.todo \ {w}]]
       /\ rows' = Counted(rows, w)
    /\ UNCHANGED <<state, doomed, faults, good>>

Launched(p) ==
    /\ state[p] = "launching"
    /\ ~Busy(p, "launch") /\ task[p]["launch"].todo = {}
    /\ state' = [state EXCEPT ![p] = "up"]
    /\ UNCHANGED <<rows, task, doomed, faults, good>>

Fault == faults < MaxFaults /\ faults' = faults + 1

\* recover_workflows, called of any process for any executor.
RecoverWorkflows(p, e) ==
    /\ state[p] = "up" /\ task[p]["admin"] = NoTask
    /\ Fault
    /\ Recoverable(e) # {}
    /\ task' = [task EXCEPT ![p]["admin"].todo = Recoverable(e)]
    /\ UNCHANGED <<rows, state, doomed, good>>

\* cancel_workflows: neither the execution nor the children are told.
Cancel(w) ==
    /\ Fault
    /\ rows[w].status = "PENDING"
    /\ rows' = [rows EXCEPT ![w].status = "CANCELLED"]
    /\ UNCHANGED <<state, task, doomed, good>>

Crash(p) ==
    /\ state[p] # "off"
    /\ Fault
    /\ state' = [state EXCEPT ![p] = "off"]
    /\ task' = [task EXCEPT ![p] = [s \in Slot |-> NoTask]]
    /\ UNCHANGED <<rows, doomed, good>>

\* delete_workflows, with or without delete_children.
DeleteWorkflow(w, deep) ==
    /\ doomed = NoDeletion
    /\ Fault
    /\ ~Deleted(w)
    /\ doomed' = [ids |-> {w}, queue |-> IF deep THEN {w} ELSE {}]
    /\ UNCHANGED <<rows, state, task, good>>

\* gather_descendants looks up the children of one workflow at a time.
Children(w) == {c \in Id : rows[c].parent = w /\ ~Deleted(c)}
GatherChildren(w) ==
    /\ w \in doomed.queue
    /\ LET more == Children(w) \ doomed.ids IN
       doomed' = [ids |-> doomed.ids \cup more,
                  queue |-> (doomed.queue \ {w}) \cup more]
    /\ UNCHANGED <<rows, state, task, faults, good>>

\* The DELETE, which takes the journals with it.  Nobody is told.
DeleteRows ==
    /\ doomed.ids # {} /\ doomed.queue = {}
    /\ rows' = [w \in Id |-> IF w \in doomed.ids
                  THEN [rows[w] EXCEPT !.status = "DELETED", !.kids = <<>>]
                  ELSE rows[w]]
    /\ doomed' = NoDeletion
    /\ UNCHANGED <<state, task, faults, good>>

TaskStep(p, s) ==
    \/ ReplayCall(p, s) \/ InsertChild(p, s) \/ CheckpointChild(p, s)
    \/ GetResult(p, s) \/ EndBody(p, s) \/ RecoverNext(p, s)

Next ==
    \/ \E p \in Process, n \in Root : RunRoot(p, n)
    \/ \E p \in Process, s \in Slot : TaskStep(p, s)
    \/ \E p \in Process : Launch(p) \/ Launched(p) \/ Crash(p)
    \/ \E p, e \in Process : RecoverWorkflows(p, e)
    \/ \E w \in Id : Cancel(w) \/ GatherChildren(w)
    \/ \E w \in Id, deep \in BOOLEAN : DeleteWorkflow(w, deep)
    \/ DeleteRows

Spec == Init /\ [][Next]_vars

\* Every task makes progress (tokio), and a process that is down is restarted.
Fairness ==
    \A p \in Process : /\ WF_vars(Launch(p) \/ Launched(p))
                       /\ \A s \in Slot : WF_vars(TaskStep(p, s))

FairSpec == Spec /\ Fairness
-----------------------------------------------------------------------------
(* Properties.                                                             *)

\* How many calls come before the k-th operation of n.
CallsBefore(n, k) == Cardinality({j \in 1 .. k - 1 : Body[n][j].op = "call"})

\* A checkpoint names a row that exists, was started by this parent at this
\* step under the name the body called, and by no other step: a crash between
\* the two inserts leaves a child without a checkpoint, never the reverse.
ChildOfItsStep ==
    \A w \in Id : \A i \in DOMAIN rows[w].kids :
       LET c == rows[w].kids[i]
           n == rows[w].name IN
       /\ c \in Id /\ rows[c].parent = w
       /\ \E k \in DOMAIN Body[n] :
             /\ Body[n][k] = [op |-> "call", name |-> rows[c].name]
             /\ CallsBefore(n, k) = i - 1
       /\ \A j \in DOMAIN rows[w].kids : rows[w].kids[j] = c => i = j

\* A child that the journal of its parent does not name.
Orphan(w) ==
    rows[w].parent # Nil /\ w \notin Range(rows[rows[w].parent].kids)

\* An execution leaves at most one orphan, by dying or losing the step to
\* another execution; one that succeeds leaves none.
OrphansBounded ==
    \A w \in Id : ~Deleted(w) =>
       Cardinality({c \in Id : Orphan(c) /\ rows[c].parent = w})
          + (IF w \in good THEN 1 ELSE 0) <= rows[w].runs

\* A body that awaits what it calls succeeds only if all its children have,
\* however often either was recovered, and although a replayed call returns a
\* handle where the first had returned the child's error.
Awaiting(n) ==
    \A i \in DOMAIN Body[n] : Body[n][i].op = "call" =>
       i < Len(Body[n]) /\ Body[n][i + 1].op = "await"
SuccessNeedsChildren ==
    \A w \in Id : rows[w].status = "SUCCESS" /\ Awaiting(rows[w].name) =>
       Range(rows[w].kids) \subseteq good

\* The task waits for a workflow that its own list has yet to execute.
SelfBlocked(p, s) ==
    /\ At(p, s, "await")
    /\ Top(p, s).child \in task[p][s].todo
    /\ rows[Top(p, s).child].status = "PENDING"

\* The task waits for a workflow that has been deleted.
AwaitsDeleted(p, s) == At(p, s, "await") /\ Deleted(Top(p, s).child)

\* Nothing but a recovery that awaits a workflow behind it in its own list, or
\* the deletion of one that is awaited, keeps a workflow from ending that is
\* not an orphan (which waits for a restart): no crash, no error, no execution
\* that lost to another one.
OnlySelfBlocked ==
    []<>(\/ \A w \in Id : rows[w].status # "PENDING" \/ Orphan(w)
         \/ \E p \in Process, s \in Slot : SelfBlocked(p, s) \/ AwaitsDeleted(p, s))

=============================================================================
