------------------------------- MODULE Scheduler -------------------------------
(***************************************************************************)
(* Schedules: the scheduler loop of every process and the client's         *)
(* operations on the workflow_schedules table.                             *)
(*                                                                         *)
(* A pass reads all schedules, then the clock, and then goes through what  *)
(* it read: it enqueues the slots that are due, under an id made of the    *)
(* schedule's name and the slot, and moves last_fired_at to the last of    *)
(* them.  Nothing but those ids keeps two processes, or a pass after a     *)
(* crash, from enqueueing a slot twice.  An error ends the pass.           *)
(*                                                                         *)
(* A schedule's options are its cron expression, which is the set of its   *)
(* slots, automatic_backfill and its queue.  A row that is created or      *)
(* registered again gets others.  A workflow is its row; that the row is   *)
(* executed is QueueDequeue's concern.                                     *)
(***************************************************************************)
EXTENDS Naturals, Sequences, Functions

CONSTANTS
    Process,     \* processes with a scheduler loop
    Schedules,   \* schedule names, in the order of the alphabet
    Options,     \* Options[s]: what s may be registered with: its slots,
                 \* automatic_backfill, and a queue that accepts its workflows
                 \* or refuses them, as a partitioned one does that gets no
                 \* partition key
    Spans,       \* the spans of time that backfill_schedule is called with
    Nil,         \* no value
    MaxTime,     \* bound
    MaxCommands, \* bound
    MaxCrashes   \* bound

Schedule == Range(Schedules)

Option == [slots : SUBSET Nat, backfill : BOOLEAN, accepts : BOOLEAN]

ASSUME SchedulerAssumption ==
    /\ IsInjective(Schedules)
    /\ Options \in [Schedule -> SUBSET Option] /\ Spans \subseteq Nat \X Nat
    /\ {MaxTime, MaxCommands, MaxCrashes} \subseteq Nat

VARIABLES
    now,      \* the time
    sched,    \* workflow_schedules: each schedule's row, or Nil
    runs,     \* the slots of each schedule that have a workflow row
    triggered, \* the times trigger_schedule was called at: a workflow row each
    pass,     \* each process's pass over the schedules
    commands, \* commands so far
    crashes   \* crashes so far

vars == <<now, sched, runs, triggered, pass, commands, crashes>>

\* from is history: when the row was created or replaced, or the last_fired_at
\* that a pass wrote to it since which had read other options.
NewRow(opt, t) == [status |-> "ACTIVE", last |-> t, from |-> t, opt |-> opt]

\* read: the rows as they were read; next: which schedule's turn it is; due: the
\* slots of that one that are still to be enqueued; last: the last of them.
NoPass == [pc |-> "idle", read |-> [s \in Schedule |-> Nil], next |-> 1, at |-> 0,
           due |-> {}, last |-> 0]

\* The schedules have been registered at the start, active or paused.
Init ==
    /\ now = 0
    /\ \E paused \in SUBSET Schedule, opt \in [Schedule -> UNION Range(Options)] :
         /\ \A s \in Schedule : opt[s] \in Options[s]
         /\ sched = [s \in Schedule |->
                       [NewRow(opt[s], 0) EXCEPT !.status = IF s \in paused THEN "PAUSED" ELSE @]]
    /\ runs = [s \in Schedule |-> {}]
    /\ triggered = [s \in Schedule |-> {}]
    /\ pass = [p \in Process |-> NoPass]
    /\ commands = 0
    /\ crashes = 0
-----------------------------------------------------------------------------
(* The system database's operations on workflow_schedules.  Each is one    *)
(* statement, and all but the upsert do nothing if there is no such row.   *)

Upserted(s, row) == [sched EXCEPT ![s] = row]
StatusSet(s, status) == IF sched[s] = Nil THEN sched ELSE [sched EXCEPT ![s].status = status]
Later(t, u) == IF t < u THEN u ELSE t
LastSet(s, t, opt) ==
    IF sched[s] = Nil THEN sched
    ELSE [sched EXCEPT ![s].last = t,
                       ![s].from = IF sched[s].opt = opt THEN @ ELSE Later(@, t)]
Removed(s) == [sched EXCEPT ![s] = Nil]
-----------------------------------------------------------------------------
(* run_scheduler_once.                                                     *)

\* due_schedule_times: the slots passed, or without backfill the last of them.
Due(row, at) ==
    LET passed == {t \in row.opt.slots : row.last < t /\ t <= at}
    IN IF row.opt.backfill THEN passed ELSE {t \in passed : \A u \in passed : u <= t}

\* list_schedules.
List(p) ==
    /\ pass[p].pc = "idle"
    /\ pass' = [pass EXCEPT ![p].pc = "listed", ![p].read = sched]
    /\ UNCHANGED <<now, sched, runs, triggered, commands, crashes>>

\* Utc::now.
ReadClock(p) ==
    /\ pass[p].pc = "listed"
    /\ pass' = [pass EXCEPT ![p].pc = "next", ![p].at = now]
    /\ UNCHANGED <<now, sched, runs, triggered, commands, crashes>>

\* The schedule whose turn it is, in the order of the names, and its row.
Turn(p) == Schedules[pass[p].next]
RowRead(p) == pass[p].read[Turn(p)]
More(p) == pass[p].pc = "next" /\ pass[p].next \in DOMAIN Schedules

\* Whether the row that was read calls for workflows, and for which.
Calls(p) == RowRead(p) # Nil /\ RowRead(p).status = "ACTIVE"
DueNow(p) == Due(RowRead(p), pass[p].at)

LookAt(p) ==
    /\ More(p)
    /\ Calls(p)
    /\ \E last \in DueNow(p) :
          /\ \A t \in DueNow(p) : t <= last
          /\ pass' = [pass EXCEPT ![p].pc = "fire", ![p].due = DueNow(p), ![p].last = last]
    /\ UNCHANGED <<now, sched, runs, triggered, commands, crashes>>

PassOver(p) ==
    /\ More(p)
    /\ Calls(p) => DueNow(p) = {}
    /\ pass' = [pass EXCEPT ![p].next = @ + 1]
    /\ UNCHANGED <<now, sched, runs, triggered, commands, crashes>>

\* The next slot to be enqueued: the first.
First(p, t) ==
    /\ pass[p].pc = "fire"
    /\ t \in pass[p].due /\ \A u \in pass[p].due : t <= u

\* get_workflow_status, and enqueue_workflow, onto the queue that was read, if
\* there is no such row; both leave a row alone that another process inserts in
\* between.
Fire(p, t) ==
    /\ First(p, t)
    /\ ~RowRead(p).opt.accepts => t \in runs[Turn(p)]
    /\ runs' = [runs EXCEPT ![Turn(p)] = @ \cup {t}]
    /\ pass' = [pass EXCEPT ![p].due = @ \ {t}]
    /\ UNCHANGED <<now, sched, triggered, commands, crashes>>

\* Mutant: the error is logged and the pass goes on.
FailOn(p, t) ==
    /\ First(p, t) /\ ~RowRead(p).opt.accepts /\ t \notin runs[Turn(p)]
    /\ pass' = [pass EXCEPT ![p].due = @ \ {t}]
    /\ UNCHANGED <<now, sched, runs, triggered, commands, crashes>>

\* validate_queue_assignment's error, or the database's: the pass is over.
Fail(p, t) ==
    /\ First(p, t) /\ ~RowRead(p).opt.accepts /\ t \notin runs[Turn(p)]
    /\ pass' = [pass EXCEPT ![p] = NoPass]
    /\ UNCHANGED <<now, sched, runs, triggered, commands, crashes>>

Fired(p) == pass[p].pc = "fire" /\ pass[p].due = {}

\* Mutant: last_fired_at is the time at which it is written.
AdvanceToNow(p) ==
    /\ Fired(p)
    /\ sched' = LastSet(Turn(p), now, RowRead(p).opt)
    /\ pass' = [pass EXCEPT ![p].pc = "next", ![p].next = @ + 1]
    /\ UNCHANGED <<now, runs, triggered, commands, crashes>>

\* update_schedule_last_fired_at: whatever the row holds by now, if it is there.
Advance(p) ==
    /\ Fired(p)
    /\ sched' = LastSet(Turn(p), pass[p].last, RowRead(p).opt)
    /\ pass' = [pass EXCEPT ![p].pc = "next", ![p].next = @ + 1]
    /\ UNCHANGED <<now, runs, triggered, commands, crashes>>

\* The loop sleeps for its polling interval.
Sleep(p) ==
    /\ pass[p].pc = "next" /\ pass[p].next \notin DOMAIN Schedules
    /\ pass' = [pass EXCEPT ![p] = NoPass]
    /\ UNCHANGED <<now, sched, runs, triggered, commands, crashes>>

Crash(p) ==
    /\ pass[p].pc # "idle" /\ crashes < MaxCrashes
    /\ pass' = [pass EXCEPT ![p] = NoPass]
    /\ crashes' = crashes + 1
    /\ UNCHANGED <<now, sched, runs, triggered, commands>>
-----------------------------------------------------------------------------
(* The client's commands.                                                  *)

Commanded == commands < MaxCommands /\ commands' = commands + 1

\* require_schedule.  (The row may be gone by the time the command writes to it:
\* the update then does nothing, as a command refused does.)
Known(s) == sched[s] # Nil

\* create_schedule, and apply_schedules for each of its schedules.
Create(s, opt) ==
    /\ Commanded
    /\ sched' = Upserted(s, NewRow(opt, now))
    /\ UNCHANGED <<now, runs, triggered, pass, crashes>>

\* register_schedule, whose options may hold a status.
Register(s, opt, status) ==
    /\ Commanded
    /\ sched' = Upserted(s, [NewRow(opt, now) EXCEPT !.status = status])
    /\ UNCHANGED <<now, runs, triggered, pass, crashes>>

\* pause_schedule and resume_schedule: last_fired_at stays.
Pause(s) ==
    /\ Commanded
    /\ Known(s) /\ sched[s].status = "ACTIVE"
    /\ sched' = StatusSet(s, "PAUSED")
    /\ UNCHANGED <<now, runs, triggered, pass, crashes>>

Resume(s) ==
    /\ Commanded
    /\ Known(s) /\ sched[s].status = "PAUSED"
    /\ sched' = StatusSet(s, "ACTIVE")
    /\ UNCHANGED <<now, runs, triggered, pass, crashes>>

DeleteSchedule(s) ==
    /\ Commanded /\ sched[s] # Nil
    /\ sched' = Removed(s)
    /\ UNCHANGED <<now, runs, triggered, pass, crashes>>

\* trigger_schedule: a workflow with an id of its own, whatever the status.
Trigger(s) ==
    /\ Commanded
    /\ Known(s) /\ sched[s].opt.accepts
    /\ triggered' = [triggered EXCEPT ![s] = @ \cup {now}]
    /\ UNCHANGED <<now, sched, runs, pass, crashes>>

\* backfill_schedule: the slots of a span.  It enqueues one after the other and
\* may stop at an error, which is a shorter span here: rows are only added, so
\* that what happens between two of them makes no difference.
BackfillSchedule(s, from, to) ==
    /\ Commanded
    /\ Known(s) /\ sched[s].opt.accepts
    /\ runs' = [runs EXCEPT ![s] = @ \cup {t \in sched[s].opt.slots : from < t /\ t <= to}]
    /\ UNCHANGED <<now, sched, triggered, pass, crashes>>
-----------------------------------------------------------------------------
Tick ==
    /\ now < MaxTime
    /\ now' = now + 1
    /\ UNCHANGED <<sched, runs, triggered, pass, commands, crashes>>

Loop(p) ==
    \/ List(p) \/ ReadClock(p) \/ LookAt(p) \/ PassOver(p) \/ Advance(p) \/ Sleep(p)
    \/ \E t \in pass[p].due : Fire(p, t) \/ Fail(p, t)

Next ==
    \/ \E p \in Process : Loop(p) \/ Crash(p)
    \/ \E s \in Schedule :
         \/ Pause(s) \/ Resume(s) \/ DeleteSchedule(s) \/ Trigger(s)
         \/ \E opt \in Options[s] :
              \/ Create(s, opt)
              \/ \E status \in {"ACTIVE", "PAUSED"} : Register(s, opt, status)
         \/ \E span \in Spans : BackfillSchedule(s, span[1], span[2])
    \/ Tick

\* Every process's loop goes on (run_scheduler_loop).
Spec == Init /\ [][Next]_vars
FairSpec == Spec /\ \A p \in Process : WF_vars(Loop(p))
-----------------------------------------------------------------------------
(* Properties.                                                             *)

\* last_fired_at never passes a slot for which no workflow was enqueued: with
\* automatic_backfill every slot since the row was created or replaced,
\* otherwise the one it stands at.  So a crash between the two writes, a second
\* process or a row paused, deleted or replaced during a pass loses no slot,
\* but for a row replaced by one with other options: a pass that read the old
\* ones writes its last_fired_at to the new row, and what comes before that is
\* lost (run_scheduler_once, upsert_schedule).
NoSlotLost ==
    \A s \in Schedule : sched[s] # Nil =>
        /\ sched[s].last # sched[s].from => sched[s].last \in runs[s]
        /\ sched[s].opt.backfill =>
             \A t \in sched[s].opt.slots :
                sched[s].from < t /\ t <= sched[s].last => t \in runs[s]

\* A schedule no pass gets to the end of once it is due, or one after it in the
\* list.
Behind(s) ==
    \E n, k \in DOMAIN Schedules :
        /\ n <= k /\ Schedules[k] = s
        /\ LET row == sched[Schedules[n]] IN
           row # Nil /\ row.status = "ACTIVE" /\ ~row.opt.accepts

\* A slot of an active schedule with automatic_backfill is enqueued in the end,
\* however often processes crash, unless the schedule is paused, deleted or
\* replaced before; schedules that stand behind one whose queue refuses its
\* workflows are not promised anything, nor is what a pass with other options
\* has passed over (run_scheduler_loop, run_scheduler_once).
Owed(s, t) ==
    /\ sched[s] # Nil /\ sched[s].status = "ACTIVE" /\ ~Behind(s)
    /\ sched[s].opt.backfill /\ t \in sched[s].opt.slots
    /\ sched[s].from < t /\ t <= now
Backfilled(s) == UNION {opt.slots : opt \in {o \in Options[s] : o.backfill}}
SlotsFire ==
    \A s \in Schedule : \A t \in Backfilled(s) :
        Owed(s, t) ~> (t \in runs[s] \/ ~Owed(s, t))
=============================================================================
