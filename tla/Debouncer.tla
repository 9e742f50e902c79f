------------------------------- MODULE Debouncer -------------------------------
(***************************************************************************)
(* debounce_workflow and the internal workflow behind it, for one key.     *)
(*                                                                         *)
(* A call enqueues a debouncer workflow whose deduplication id is the key. *)
(* When one is alive already the call sends it its input instead and waits *)
(* two seconds for an event that acknowledges it; without one, it starts   *)
(* over.  The debouncer waits out the delay, taking later inputs, and then *)
(* starts the target with the last of them.  Its operations are durable:   *)
(* after a crash the execution goes through its journal again.             *)
(*                                                                         *)
(* Inputs are those of the callers, who may choose the target's id;        *)
(* debouncers are numbered in the order of their rows.  A caller that is a *)
(* workflow itself keeps its ids in its journal and makes the call again   *)
(* when it is replayed.                                                    *)
(***************************************************************************)
EXTENDS Integers, Sequences, FiniteSetsExt

CONSTANTS
    Caller,        \* calls of debounce_workflow with this key
    Durable,       \* those made by workflows
    Delay,         \* the delay of every call
    Timeout,       \* debounce_timeout of every call
    Target,        \* ids of target workflows
    Namings,       \* which target ids the calls may ask for
    Modes,         \* how targets start: "inline", "queue", "dedup"
    Nil,           \* no value
    MaxTime,       \* bound
    MaxCrashes,    \* bound
    MaxWaits,      \* bound: waits for an acknowledgement given up by a call
    MaxDebouncers  \* bound

ASSUME DebouncerAssumption ==
    /\ Durable \subseteq Caller /\ Nil \notin Caller
    /\ {Delay, Timeout, MaxTime, MaxCrashes, MaxWaits, MaxDebouncers} \subseteq Nat
    /\ Modes \subseteq {"inline", "queue", "dedup"}
    /\ Namings \subseteq [Caller -> Target]

VARIABLES
    options, \* the calls': the target runs inline, or on a queue, with a
             \* deduplication id ("dedup") or not; the target's id
    now,     \* the time
    call,    \* each call
    deb,     \* the debouncer workflows
    target,  \* the rows of the target workflows
    crashes  \* crashes so far

vars == <<options, now, call, deb, target, crashes>>

NoCall == [pc |-> "enqueue", via |-> 0, waits |-> 0]
NoTarget == [status |-> "ABSENT", input |-> Nil, by |-> 0]

\* An execution: the operation it is at, its position in the journal, and
\* the workflow's variables; took is a message consumed and not recorded.
NoExec == [pc |-> "off", fid |-> 0, cur |-> Nil, max |-> 0, at |-> 0, seen |-> 0,
           deadline |-> 0, took |-> Nil]
\* gave is history: the input that the debouncer last started a target with, in
\* its row or by executing it, and when.
NotYet == [input |-> Nil, at |-> 0]
NewDebouncer(c) == [by |-> c, status |-> "ACTIVE", mail |-> <<>>, acks |-> {},
                    journal |-> <<>>, exec |-> NoExec, replayed |-> FALSE,
                    gave |-> NotYet]

Mode == options.mode
TargetOf(i) == options.id[deb[i].by]

Init ==
    /\ options \in [mode : Modes, id : Namings]
    /\ now = 0
    /\ call = [c \in Caller |-> NoCall]
    /\ deb = <<>>
    /\ target = [t \in Target |-> NoTarget]
    /\ crashes = 0
-----------------------------------------------------------------------------
(* The call.                                                               *)

\* Debouncers whose rows hold the key's deduplication id.
Alive == {i \in DOMAIN deb : deb[i].status = "ACTIVE"}

\* enqueue_workflow onto the internal queue: the caller's own target.
Enqueue(c) ==
    /\ call[c].pc = "enqueue" /\ Alive = {} /\ Len(deb) < MaxDebouncers
    /\ deb' = Append(deb, NewDebouncer(c))
    /\ call' = [call EXCEPT ![c].pc = "done", ![c].via = Len(deb) + 1]
    /\ UNCHANGED <<options, now, target, crashes>>

\* QueueDeduplicated.
Refused(c) ==
    /\ call[c].pc = "enqueue" /\ Alive # {}
    /\ call' = [call EXCEPT ![c].pc = "find"]
    /\ UNCHANGED <<options, now, deb, target, crashes>>

\* find_existing_debouncer_workflow.
Find(c) ==
    /\ call[c].pc = "find"
    /\ call' = IF Alive = {}
               THEN [call EXCEPT ![c].pc = "enqueue"]
               ELSE [call EXCEPT ![c].pc = "send", ![c].via = Max(Alive)]
    /\ UNCHANGED <<options, now, deb, target, crashes>>

\* The system database's send inserts the message; the workflow it goes to may
\* have ended by now.
Posted(c) == [deb EXCEPT ![call[c].via].mail = Append(@, c)]

Send(c) ==
    /\ call[c].pc = "send"
    /\ deb' = Posted(c)
    /\ call' = [call EXCEPT ![c].pc = "wait"]
    /\ UNCHANGED <<options, now, target, crashes>>

\* get_event: the acknowledgement.
\* Mutant: any acknowledgement will do.
AckedAny(c) == deb[call[c].via].acks # {} \/ deb[call[c].via].status # "ACTIVE"
Acked(c) == c \in deb[call[c].via].acks
Return(c) ==
    /\ call[c].pc = "wait" /\ Acked(c)
    /\ call' = [call EXCEPT ![c].pc = "done"]
    /\ UNCHANGED <<options, now, deb, target, crashes>>

\* get_event's timeout: null, and over again.
GiveUp(c) ==
    /\ call[c].pc = "wait" /\ ~Acked(c) /\ call[c].waits < MaxWaits
    /\ call' = [call EXCEPT ![c].pc = "enqueue", ![c].waits = @ + 1]
    /\ UNCHANGED <<options, now, deb, target, crashes>>

\* The calling workflow is replayed: recorded ids, and the call again.
CallAgain(c) ==
    /\ c \in Durable /\ call[c].via # 0 /\ crashes < MaxCrashes
    /\ call' = [call EXCEPT ![c] = [NoCall EXCEPT !.waits = call[c].waits]]
    /\ crashes' = crashes + 1
    /\ UNCHANGED <<options, now, deb, target>>
-----------------------------------------------------------------------------
(* The debouncer workflow.                                                 *)

At(i, pc) == i \in DOMAIN deb /\ deb[i].exec.pc = pc
Recorded(i) == Len(deb[i].journal) > deb[i].exec.fid
Entry(i) == deb[i].journal[deb[i].exec.fid + 1]
Exec(i, e) == deb' = [deb EXCEPT ![i].exec = [e EXCEPT !.fid = @ + 1]]
ExecNote(i, e, entry) ==
    deb' = [deb EXCEPT ![i].exec = [e EXCEPT !.fid = @ + 1],
                       ![i].journal = Append(@, entry)]
Quiet == UNCHANGED <<options, now, call, target, crashes>>

\* The queue worker, or recovery after a crash.
Run(i) ==
    /\ At(i, "off") /\ deb[i].status = "ACTIVE"
    /\ deb' = [deb EXCEPT ![i].exec = [NoExec EXCEPT !.pc = "start", !.cur = deb[i].by],
                          ![i].replayed = @ \/ deb[i].journal # <<>>]
    /\ Quiet

\* durable_now_step: the time, or the recorded one.
DurableNow(i) == IF Recorded(i) THEN Entry(i).at ELSE now
Clock(i, e) ==
    IF Recorded(i) THEN Exec(i, e)
    ELSE ExecNote(i, e, [op |-> "now", at |-> now, msg |-> Nil])

\* Mutant: every call pushes the start back.
Uncapped(t, max) == t
Capped(t, max) == Min({t, max})

StartTime(i) ==
    /\ At(i, "start")
    /\ LET t == DurableNow(i) IN
       Clock(i, [deb[i].exec EXCEPT !.pc = "loop", !.max = t + Timeout,
                                    !.at = Capped(t + Delay, t + Timeout)])
    /\ Quiet

\* remaining: nothing, or as much to wait for a message, from now on.
LoopTime(i) ==
    /\ At(i, "loop")
    /\ LET e == deb[i].exec
           t == DurableNow(i) IN
       Clock(i, IF e.at <= t THEN [e EXCEPT !.pc = "launch"]
                ELSE [e EXCEPT !.pc = "recv", !.seen = t,
                               !.deadline = now + (e.at - t)])
    /\ Quiet

\* A message: the new input, and a delay counted from the loop's time.
Heard(e, msg) == [e EXCEPT !.pc = "ack", !.cur = msg, !.took = Nil,
                           !.at = Capped(e.seen + Delay, e.max)]

ReplayRecv(i) ==
    /\ At(i, "recv") /\ Recorded(i) /\ Entry(i).msg # Nil
    /\ Exec(i, Heard(deb[i].exec, Entry(i).msg))
    /\ Quiet

\* A recorded timeout comes back as a StepExecutionError, which is returned.
ReplayTimeout(i) ==
    /\ At(i, "recv") /\ Recorded(i) /\ Entry(i).msg = Nil
    /\ deb' = [deb EXCEPT ![i].status = "ERROR", ![i].exec = NoExec]
    /\ Quiet

\* consume_notification; its checkpoint comes after it.
Consume(i) ==
    /\ At(i, "recv") /\ ~Recorded(i) /\ deb[i].exec.took = Nil /\ deb[i].mail # <<>>
    /\ deb' = [deb EXCEPT ![i].exec.took = Head(deb[i].mail), ![i].mail = Tail(@)]
    /\ Quiet

Receive(i) ==
    /\ At(i, "recv") /\ deb[i].exec.took # Nil
    /\ LET msg == deb[i].exec.took IN
       ExecNote(i, Heard(deb[i].exec, msg), [op |-> "recv", at |-> 0, msg |-> msg])
    /\ Quiet

\* The TimeoutError is recorded, and ends the loop.
RecvTimeout(i) ==
    /\ At(i, "recv") /\ ~Recorded(i) /\ deb[i].exec.took = Nil
    /\ deb[i].mail = <<>> /\ now >= deb[i].exec.deadline
    /\ ExecNote(i, [deb[i].exec EXCEPT !.pc = "launch"],
                [op |-> "recv", at |-> 0, msg |-> Nil])
    /\ Quiet

\* set_event, one step here: to repeat it changes nothing.
Acknowledge(i) ==
    /\ At(i, "ack")
    /\ LET e == [deb[i].exec EXCEPT !.pc = "loop", !.fid = @ + 1] IN
       deb' = IF Recorded(i) THEN [deb EXCEPT ![i].exec = e]
              ELSE [deb EXCEPT ![i].exec = e, ![i].acks = @ \cup {e.cur},
                    ![i].journal = Append(@, [op |-> "ack", at |-> 0, msg |-> e.cur])]
    /\ Quiet

\* enqueue_workflow or start_workflow, with the id of the debouncer's caller:
\* init_workflow leaves the input of a row that exists already as it is, but
\* start_workflow executes the target with this one all the same.
Clash(t) == Mode = "dedup" /\ \E u \in Target \ {t} : target[u].status = "ACTIVE"
Launch(i) ==
    /\ At(i, "launch")
    /\ LET t == TargetOf(i)
           absent == target[t].status = "ABSENT"
           cur == deb[i].exec.cur IN
       /\ absent => ~Clash(t)
       /\ target' = IF ~absent THEN target
                    ELSE [target EXCEPT ![t] = [status |-> "ACTIVE", by |-> i, input |-> cur]]
       /\ deb' = [deb EXCEPT ![i].exec.pc = IF Mode = "inline" THEN "inline" ELSE "end",
                             ![i].gave = IF absent \/ Mode = "inline"
                                         THEN [input |-> cur, at |-> now] ELSE @]
    /\ UNCHANGED <<options, now, call, crashes>>

\* QueueDeduplicated, for the target: the debouncer's error.
LaunchRefused(i) ==
    /\ At(i, "launch") /\ target[TargetOf(i)].status = "ABSENT" /\ Clash(TargetOf(i))
    /\ deb' = [deb EXCEPT ![i].status = "ERROR", ![i].exec = NoExec]
    /\ Quiet

\* start_workflow executes the target before it returns, with the target's
\* error if it has one.
Executed(i) ==
    /\ At(i, "inline")
    /\ target' = [target EXCEPT ![TargetOf(i)].status = "ENDED"]
    /\ \E pc \in {"end", "failed"} : deb' = [deb EXCEPT ![i].exec.pc = pc]
    /\ UNCHANGED <<options, now, call, crashes>>

\* A target on a queue ends, or one that was left behind inline and recovered.
TargetEnds(t) ==
    /\ target[t].status = "ACTIVE"
    /\ \A i \in DOMAIN deb : At(i, "inline") => TargetOf(i) # t
    /\ target' = [target EXCEPT ![t].status = "ENDED"]
    /\ UNCHANGED <<options, now, call, deb, crashes>>

\* record_workflow_result, which frees the deduplication id.
Finish(i) ==
    /\ At(i, "end") \/ At(i, "failed")
    /\ deb' = [deb EXCEPT ![i].status = IF At(i, "end") THEN "SUCCESS" ELSE "ERROR",
                          ![i].exec = NoExec]
    /\ Quiet
-----------------------------------------------------------------------------
\* The process that executes a debouncer stops.
Crash(i) ==
    /\ i \in DOMAIN deb /\ deb[i].exec.pc # "off" /\ crashes < MaxCrashes
    /\ deb' = [deb EXCEPT ![i].exec = NoExec]
    /\ crashes' = crashes + 1
    /\ UNCHANGED <<options, now, call, target>>

\* A step takes no time: it passes while every execution waits or is off.
Idle(i) == \/ deb[i].exec.pc = "off"
           \/ /\ deb[i].exec.pc = "recv" /\ ~Recorded(i) /\ deb[i].mail = <<>>
              /\ deb[i].exec.took = Nil /\ now < deb[i].exec.deadline
Tick ==
    /\ now < MaxTime /\ \A i \in DOMAIN deb : Idle(i)
    /\ now' = now + 1
    /\ UNCHANGED <<options, call, deb, target, crashes>>

Debounce(i) ==
    \/ Run(i) \/ StartTime(i) \/ LoopTime(i) \/ ReplayRecv(i) \/ ReplayTimeout(i)
    \/ Consume(i) \/ Receive(i) \/ RecvTimeout(i) \/ Acknowledge(i)
    \/ Launch(i) \/ LaunchRefused(i) \/ Executed(i) \/ Finish(i)

Next ==
    \/ \E c \in Caller : \/ Enqueue(c) \/ Refused(c) \/ Find(c) \/ Send(c) \/ Return(c)
                         \/ GiveUp(c) \/ CallAgain(c)
    \/ \E t \in Target : TargetEnds(t)
    \/ \E i \in 1..MaxDebouncers : Debounce(i) \/ Crash(i)
    \/ Tick

Spec == Init /\ [][Next]_vars
-----------------------------------------------------------------------------
(* Properties.                                                             *)

\* The messages a debouncer has on record, its inputs with that of its caller,
\* and the last of them.
Taken(i) == {n \in DOMAIN deb[i].journal :
                deb[i].journal[n].op = "recv" /\ deb[i].journal[n].msg # Nil}
Inputs(i) == {deb[i].by} \cup {deb[i].journal[n].msg : n \in Taken(i)}
LastInput(i) == IF Taken(i) = {} THEN deb[i].by ELSE deb[i].journal[Max(Taken(i))].msg

\* The row of its target was inserted by another debouncer: of the same call,
\* replayed, or of another call for the same target id.
StartedBefore(i) ==
    LET k == target[TargetOf(i)].by IN
    /\ k # i /\ TargetOf(k) = TargetOf(i)
    /\ deb[k].by = deb[i].by => deb[i].by \in Durable

\* It stopped waiting for messages, and was interrupted after that.
TimedOut(i) ==
    LET j == deb[i].journal IN
    deb[i].replayed /\ j # <<>> /\ j[Len(j)].op = "recv" /\ j[Len(j)].msg = Nil

\* A call that has returned put its input into the debouncer it returned
\* through, although messages are lost in crashes and waits are given up.  The
\* last input of a debouncer that ends reaches the target: inline the target is
\* executed with it, even if its row is another debouncer's; on a queue it is
\* the row's, unless the row was inserted by another debouncer.  A debouncer
\* fails only after its inline target has had that input too, or for a target's
\* deduplication id, or when a timeout it had recorded is replayed
\* (debounce_workflow_inner, InternalDebouncerWorkflow).
InputCarried ==
    /\ \A c \in Caller : call[c].pc = "done" => c \in Inputs(call[c].via)
    /\ \A i \in DOMAIN deb :
          LET t == target[TargetOf(i)] IN
          /\ deb[i].status = "SUCCESS" =>
                IF Mode = "inline" THEN deb[i].gave.input = LastInput(i)
                ELSE /\ t.status # "ABSENT"
                     /\ (t.by = i /\ t.input = LastInput(i)) \/ StartedBefore(i)
          /\ deb[i].status = "ERROR" =>
                \/ Mode = "inline" /\ deb[i].gave.input = LastInput(i)
                \/ Mode = "dedup"
                \/ TimedOut(i)

\* The time the debouncer's journal begins with, and that of the loop that
\* took the last message, or of the beginning.
Began(i) == deb[i].journal[1].at
LastLoop(i) == IF Taken(i) = {} THEN Began(i) ELSE deb[i].journal[Max(Taken(i)) - 1].at

\* A debouncer does not start its target before the delay has run out, counted
\* from the loop that took the last input or, without one, from the beginning;
\* and unless it was interrupted it starts it within debounce_timeout of the
\* beginning, however many calls push it back (InternalDebouncerWorkflow's
\* target_start_time and max_start_time).
LaunchWindow ==
    \A i \in DOMAIN deb : deb[i].gave # NotYet =>
      /\ deb[i].gave.at >= Capped(LastLoop(i) + Delay, Began(i) + Timeout)
      /\ ~deb[i].replayed => deb[i].gave.at <= Began(i) + Timeout
=============================================================================
