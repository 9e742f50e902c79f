----------------------------- MODULE ForkAndPatch -----------------------------
(***************************************************************************)
(* Workflows whose code changes under them, and forks of them: patch,      *)
(* deprecate_patch and fork_workflow over the journal, the events and the  *)
(* streams that WorkflowContext keeps.                                     *)
(*                                                                         *)
(* A body is a sequence of operations, and a new deployment is another     *)
(* body: the old one; one with a patch, which takes the new or the old     *)
(* branch; one where the patch is deprecated; and the new one alone.  What *)
(* the bodies consist of is arbitrary.                                     *)
(* Running executions keep the code they began with, later ones have the   *)
(* new code.  set_event and write_stream take effect before their          *)
(* checkpoint.  Each workflow has one execution at a time.                 *)
(*                                                                         *)
(* fork_workflow's statements are one transaction.  On Postgres (READ      *)
(* COMMITTED) each of them reads what is committed when it runs; on SQLite *)
(* they share a snapshot.                                                  *)
(***************************************************************************)
EXTENDS Naturals, Sequences, SequencesExt, FiniteSets

CONSTANTS
    Workflow,   \* workflow ids
    Before,     \* the operations before the branch,
    Old, New,   \* those of its old and of its new version,
    After,      \* and those after it
    Nil,        \* no value
    Backends,   \* the databases it may run on: "postgres", "sqlite"
    Starts,     \* start_step of forks
    MaxCrashes, \* bound
    MaxForks    \* bound

\* An operation, and the branch it is of: "old", "new", or "any".
Plain(branch) == [op : {"step", "event", "stream"}, branch : {branch}]
Op == Plain("any") \cup Plain("old") \cup Plain("new") \cup [op : {"patch", "deprecate"}]

\* Code[v]: the body of version v.
Code == <<Before \o Old \o After,
          Before \o <<[op |-> "patch"]>> \o After,
          Before \o <<[op |-> "deprecate"]>> \o New \o After,
          Before \o New \o After>>

ASSUME CodeAssumption ==
    /\ Before \in Seq(Plain("any")) /\ After \in Seq(Plain("any"))
    /\ Old \in Seq(Plain("old")) /\ New \in Seq(Plain("new"))
    /\ Nil \notin Workflow
    /\ Backends \subseteq {"postgres", "sqlite"}
    /\ Starts \subseteq Nat
    /\ MaxCrashes \in Nat /\ MaxForks \in Nat

\* The branches do not begin with operations recorded under one name.  (Steps
\* have names of their own, all events and all stream writes share one.)
ASSUME BranchAssumption ==
    Old # <<>> /\ New # <<>> /\ Head(Old).op = Head(New).op => Head(Old).op = "step"

VARIABLES
    backend,   \* the database
    deployed,  \* the version that executions begin with
    wf,        \* each workflow's rows in all tables
    exec,      \* each workflow's execution
    fork,      \* the fork_workflow in progress on Postgres
    crashes    \* crashes so far

vars == <<backend, deployed, wf, exec, fork, crashes>>

\* event: the current value of workflow_events, by the step that set it;
\* history: workflow_events_history; stream: at each offset, the step that
\* appended.
\* begun and torn are history: the version it (or its original) began with,
\* and whether an effect may have no checkpoint or a checkpoint no effect.
NoWorkflow == [status |-> "ABSENT", journal |-> <<>>, event |-> 0, history |-> {},
               stream |-> <<>>, from |-> Nil, start |-> 0, begun |-> 0,
               torn |-> FALSE]

NoExec == [on |-> FALSE, rest |-> <<>>, fid |-> 0, wrote |-> FALSE]
Begin(v) == [NoExec EXCEPT !.on = TRUE, !.rest = Code[v]]

Init ==
    /\ backend \in Backends
    /\ deployed = 1
    /\ wf = [w \in Workflow |-> NoWorkflow]
    /\ exec = [w \in Workflow |-> NoExec]
    /\ fork = Nil
    /\ crashes = 0
-----------------------------------------------------------------------------
(* Executions.                                                             *)

\* run_workflow.
Start(w) ==
    /\ wf[w].status = "ABSENT"
    /\ fork # Nil => fork.to # w
    /\ wf' = [wf EXCEPT ![w].status = "ACTIVE", ![w].begun = deployed]
    /\ exec' = [exec EXCEPT ![w] = Begin(deployed)]
    /\ UNCHANGED <<backend, deployed, fork, crashes>>

\* Recovery, or the queue worker that dequeues a fork.
Resume(w) ==
    /\ wf[w].status = "ACTIVE" /\ ~exec[w].on
    /\ exec' = [exec EXCEPT ![w] = Begin(deployed)]
    /\ UNCHANGED <<backend, deployed, wf, fork, crashes>>

At(w, ops) == exec[w].on /\ exec[w].rest # <<>> /\ Head(exec[w].rest).op \in ops
Recorded(w) == Len(wf[w].journal) > exec[w].fid
Entry(w) == wf[w].journal[exec[w].fid + 1]

\* next_step_id, and on with the rest of the body.
Advance(w, rest, steps) ==
    exec' = [exec EXCEPT ![w].rest = rest, ![w].fid = @ + steps, ![w].wrote = FALSE]
Skip(w) == Advance(w, Tail(exec[w].rest), 1)

Note(w, op, branch) == [fn |-> op, branch |-> branch, by |-> w]

\* A recorded step: its outcome, if it is the same operation.
Replay(w) ==
    /\ At(w, {"step", "event", "stream"}) /\ Recorded(w)
    /\ Entry(w).fn = Head(exec[w].rest).op
    /\ Entry(w).fn = "step" => Entry(w).branch = Head(exec[w].rest).branch
    /\ Skip(w)
    /\ UNCHANGED <<backend, deployed, wf, fork, crashes>>

\* validate_recorded_step: UnexpectedStep, which ends the workflow.
Mismatch(w) ==
    /\ At(w, {"step", "event", "stream"}) /\ Recorded(w)
    /\ \/ Entry(w).fn # Head(exec[w].rest).op
       \/ Entry(w).fn = "step" /\ Entry(w).branch # Head(exec[w].rest).branch
    /\ wf' = [wf EXCEPT ![w].status = "ERROR"]
    /\ exec' = [exec EXCEPT ![w] = NoExec]
    /\ UNCHANGED <<backend, deployed, fork, crashes>>

\* The next offset: MAX(offset) + 1.
Appended(stream, fid) ==
    [n \in DOMAIN stream \cup {Max(DOMAIN stream \cup {0}) + 1} |->
        IF n \in DOMAIN stream THEN stream[n] ELSE fid]

\* set_event's upserts, write_stream's INSERT.
TakeEffect(w) ==
    /\ At(w, {"event", "stream"}) /\ ~Recorded(w) /\ ~exec[w].wrote
    /\ LET fid == exec[w].fid + 1 IN
       wf' = IF Head(exec[w].rest).op = "stream"
             THEN [wf EXCEPT ![w].stream = Appended(@, fid)]
             ELSE [wf EXCEPT ![w].event = fid, ![w].history = @ \cup {fid}]
    /\ exec' = [exec EXCEPT ![w].wrote = TRUE]
    /\ UNCHANGED <<backend, deployed, fork, crashes>>

\* record_step_output.
Checkpoint(w) ==
    /\ At(w, {"step", "event", "stream"}) /\ ~Recorded(w)
    /\ Head(exec[w].rest).op # "step" => exec[w].wrote
    /\ LET o == Head(exec[w].rest) IN
       wf' = [wf EXCEPT ![w].journal = Append(@, Note(w, o.op, o.branch))]
    /\ Skip(w)
    /\ UNCHANGED <<backend, deployed, fork, crashes>>

\* patch: whether the new branch is taken, and how many steps it uses, given
\* the step that is recorded where it stands.  (PatchUsesAny and PatchTakesAny
\* are mutants: another operation's step is used up; is taken for the marker.)
PatchUsesAny(e) == [new |-> e.fn = "patch", steps |-> 1]
PatchTakesAny(e) == [new |-> TRUE, steps |-> 1]
PatchOver(e) == [new |-> e.fn = "patch", steps |-> IF e.fn = "patch" THEN 1 ELSE 0]

Patch(w) ==
    /\ At(w, {"patch"})
    /\ LET p == IF Recorded(w) THEN PatchOver(Entry(w)) ELSE [new |-> TRUE, steps |-> 1]
       IN /\ Advance(w, (IF p.new THEN New ELSE Old) \o Tail(exec[w].rest), p.steps)
          /\ wf' = IF Recorded(w) THEN wf
                   ELSE [wf EXCEPT ![w].journal = Append(@, Note(w, "patch", "new"))]
    /\ UNCHANGED <<backend, deployed, fork, crashes>>

\* deprecate_patch: a marker is used up, and none is recorded.
DeprecatePatch(w) ==
    /\ At(w, {"deprecate"})
    /\ Advance(w, Tail(exec[w].rest),
               IF Recorded(w) /\ Entry(w).fn = "patch" THEN 1 ELSE 0)
    /\ UNCHANGED <<backend, deployed, wf, fork, crashes>>

Finish(w) ==
    /\ exec[w].on /\ exec[w].rest = <<>>
    /\ wf' = [wf EXCEPT ![w].status = "SUCCESS"]
    /\ exec' = [exec EXCEPT ![w] = NoExec]
    /\ UNCHANGED <<backend, deployed, fork, crashes>>

Crash(w) ==
    /\ crashes < MaxCrashes /\ exec[w].on
    /\ crashes' = crashes + 1
    /\ wf' = [wf EXCEPT ![w].torn = @ \/ exec[w].wrote]
    /\ exec' = [exec EXCEPT ![w] = NoExec]
    /\ UNCHANGED <<backend, deployed, fork>>

\* The next version, once no workflow is left that may not fit it: the patch
\* is deprecated when all that began before it have ended, and removed when
\* all that began before the deprecation have.
Deploy ==
    /\ deployed < Len(Code)
    /\ \A w \in Workflow : wf[w].status = "ACTIVE" => wf[w].begun >= deployed
    /\ fork # Nil => wf[fork.from].begun >= deployed
    /\ deployed' = deployed + 1
    /\ UNCHANGED <<backend, wf, exec, fork, crashes>>
-----------------------------------------------------------------------------
(* fork_workflow.                                                          *)

\* function_id < start_step.  (BelowOrAt is a mutant: <=.)
BelowOrAt(fid, start) == fid <= start
Below(fid, start) == fid < start

CopyJournal(o, s) ==
    SubSeq(wf[o].journal, 1,
           Cardinality({k \in DOMAIN wf[o].journal : Below(k, s)}))
CopyHistory(o, s) == {k \in wf[o].history : Below(k, s)}

\* The latest event before the step.
CopyEvent(o, s) == Max(CopyHistory(o, s) \cup {0})

\* Offsets stay.  (StreamAnyway is a mutant: all entries.)
StreamAnyway(o, s) == wf[o].stream
CopyStream(o, s) ==
    Restrict(wf[o].stream, {n \in DOMAIN wf[o].stream : Below(wf[o].stream[n], s)})

\* The row, which the transaction inserts; the rest is copied if s > 0.
ForkRow(o, s) ==
    [NoWorkflow EXCEPT !.status = "ACTIVE", !.from = o, !.start = s,
                       !.begun = wf[o].begun,
                       !.torn = wf[o].torn \/ wf[o].status = "ACTIVE"]

MayFork(o, f) ==
    /\ o # f /\ wf[o].status # "ABSENT" /\ wf[f].status = "ABSENT"
    /\ Cardinality({w \in Workflow : wf[w].from # Nil}) < MaxForks

ForkAtOnce(o, f, s) ==
    /\ backend = "sqlite" /\ MayFork(o, f)
    /\ wf' = [wf EXCEPT ![f] =
          [ForkRow(o, s) EXCEPT !.journal = CopyJournal(o, s),
              !.history = CopyHistory(o, s), !.event = CopyEvent(o, s),
              !.stream = CopyStream(o, s)]]
    /\ UNCHANGED <<backend, deployed, exec, fork, crashes>>

\* Postgres, statement by statement.
BeginFork(o, f, s) ==
    /\ backend = "postgres" /\ fork = Nil /\ MayFork(o, f)
    /\ fork' = [from |-> o, to |-> f, next |-> "journal",
                row |-> [ForkRow(o, s) EXCEPT !.journal = <<>>]]
    /\ UNCHANGED <<backend, deployed, wf, exec, crashes>>

CopyNext ==
    /\ fork # Nil /\ fork.next # "commit"
    /\ LET o == fork.from
           s == fork.row.start IN
       fork' = CASE fork.next = "journal" ->
                      [fork EXCEPT !.next = "history", !.row.journal = CopyJournal(o, s)]
                 [] fork.next = "history" ->
                      [fork EXCEPT !.next = "event", !.row.history = CopyHistory(o, s)]
                 [] fork.next = "event" ->
                      [fork EXCEPT !.next = "stream", !.row.event = CopyEvent(o, s)]
                 [] fork.next = "stream" ->
                      [fork EXCEPT !.next = "commit", !.row.stream = CopyStream(o, s)]
    /\ UNCHANGED <<backend, deployed, wf, exec, crashes>>

CommitFork ==
    /\ fork # Nil /\ fork.next = "commit"
    /\ wf' = [wf EXCEPT ![fork.to] =
          [fork.row EXCEPT !.torn = @ \/ wf[fork.from].torn]]
    /\ fork' = Nil
    /\ UNCHANGED <<backend, deployed, exec, crashes>>

Next ==
    \/ \E w \in Workflow :
          \/ Start(w) \/ Resume(w) \/ Replay(w) \/ Mismatch(w) \/ TakeEffect(w)
          \/ Checkpoint(w) \/ Patch(w) \/ DeprecatePatch(w) \/ Finish(w) \/ Crash(w)
    \/ Deploy
    \/ \E o, f \in Workflow, s \in Starts : ForkAtOnce(o, f, s) \/ BeginFork(o, f, s)
    \/ CopyNext \/ CommitFork

Spec == Init /\ [][Next]_vars
-----------------------------------------------------------------------------
(* Properties.                                                             *)

\* While the patched code is deployed every workflow replays, whenever it
\* began, was killed or was forked; under the later versions, all but forks
\* made of workflows that began before.
ReplaysFit ==
    \A w \in Workflow : wf[w].status = "ERROR" =>
       wf[w].from # Nil /\ deployed > 2 /\ wf[w].begun < deployed - 1

\* A workflow, or a fork with what it took over, keeps to one branch, through
\* all crashes and deployments.
OneBranch ==
    \A w \in Workflow : \A i, j \in DOMAIN wf[w].journal :
       {wf[w].journal[i].branch, wf[w].journal[j].branch} # {"old", "new"}

\* A fork has the steps of its original before start_step, and executes
\* start_step and all that follow itself.
ForkFromStart ==
    \A w \in Workflow : wf[w].from # Nil =>
       \A k \in DOMAIN wf[w].journal :
          \/ wf[w].journal[k].by = w
          \/ k < wf[w].start /\ wf[w].journal[k] = wf[wf[w].from].journal[k]

\* What others see of a workflow that has succeeded is what its journal says
\* it did: the value of the last event it set, one stream entry per write, in
\* order; of a fork too, unless it was forked while the original ran, or a
\* crash fell between an effect and its checkpoint.
StepsOf(w, op) == {k \in DOMAIN wf[w].journal : wf[w].journal[k].fn = op}
EffectsAreJournaled ==
    \A w \in Workflow : wf[w].status = "SUCCESS" /\ ~wf[w].torn =>
       /\ wf[w].history = StepsOf(w, "event")
       /\ wf[w].event = Max(wf[w].history \cup {0})
       /\ Range(wf[w].stream) = StepsOf(w, "stream")
       /\ \A m, n \in DOMAIN wf[w].stream :
             m < n => wf[w].stream[m] < wf[w].stream[n]
=============================================================================
