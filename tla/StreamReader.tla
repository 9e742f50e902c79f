------------------------------ MODULE StreamReader ------------------------------
(***************************************************************************)
(* Readers of a durable stream, its writers, and the wake-ups between      *)
(* them: JournioContext::read_stream, write_stream and close_stream of the *)
(* system databases, wait_on_map and the LISTEN/NOTIFY listener.           *)
(*                                                                         *)
(* A reader reads what is there from its offset on, then the workflow's    *)
(* status, and then waits: for a write by its own process or for the       *)
(* notification of one by another, which only wake those that wait already *)
(* and may be lost; and at most for LISTENER_WAIT_CAP.                     *)
(*                                                                         *)
(* Two executions of the workflow may write at the same time.  Each first  *)
(* looks for the row that closes the stream and then inserts its own with  *)
(* the next offset.  An entry stands for its value.                        *)
(*                                                                         *)
(* The names of this specification are apart from the debouncer's, so that *)
(* WaitingCalls_proofs can extend both.                                    *)
(***************************************************************************)
EXTENDS Naturals, Sequences, Functions

CONSTANTS
    Reader,     \* calls of read_stream
    Local,      \* those in the process that executes the workflow
    Writer,     \* executions of the workflow
    Froms,      \* from_offset of readers
    Backends,   \* the databases it may run on: "postgres", "sqlite"
    MaxEntries, \* bound
    MaxDrops    \* bound: connections the listener loses

ASSUME StreamAssumption ==
    /\ Local \subseteq Reader
    /\ Froms \subseteq Nat /\ MaxEntries \in Nat /\ MaxDrops \in Nat
    /\ Backends \subseteq {"postgres", "sqlite"}

VARIABLES
    backend, \* the database
    status,  \* the workflow's status
    stream,  \* the rows of the stream, by offset: "value" or "closed"
    writer,  \* each execution: the row it is to insert, or none
    reader,  \* each call of read_stream
    notify,  \* a notification of a write is on its way to the listener
    drops    \* how often the listener lost its connection

streamVars == <<backend, status, stream, writer, reader, notify, drops>>

NoRead == [pc |-> "off", snapshot |-> FALSE, from |-> 0, offset |-> 0, values |-> <<>>,
           closed |-> FALSE]

StreamInit ==
    /\ backend \in Backends
    /\ status \in {"DELAYED", "ENQUEUED"}
    /\ stream = <<>>
    /\ writer = [x \in Writer |-> "off"]
    /\ reader = [r \in Reader |-> NoRead]
    /\ notify = FALSE
    /\ drops = 0
-----------------------------------------------------------------------------
(* The workflow.                                                           *)

\* The delay is over; a worker claims the row, or recovery executes it again.
Due ==
    /\ status = "DELAYED"
    /\ status' = "ENQUEUED"
    /\ UNCHANGED <<backend, stream, writer, reader, notify, drops>>

Execute(x) ==
    /\ status \in {"ENQUEUED", "PENDING"} /\ writer[x] = "off"
    /\ status' = "PENDING"
    /\ writer' = [writer EXCEPT ![x] = "on"]
    /\ UNCHANGED <<backend, stream, reader, notify, drops>>

Closed == "closed" \in Range(stream)

\* write_stream, close_stream: the check, which ends the execution in an error
\* once the stream is closed.
CheckClosed(x, row) ==
    /\ writer[x] = "on" /\ ~Closed /\ Len(stream) < MaxEntries
    /\ writer' = [writer EXCEPT ![x] = row]
    /\ UNCHANGED <<backend, status, stream, reader, notify, drops>>

\* notify_waiters: those of this process that wait at this moment.
Woken(r) == IF reader[r].pc = "wait" THEN [reader[r] EXCEPT !.pc = "read"] ELSE reader[r]

\* The INSERT, the trigger's pg_notify, and the waiters of this process.
\* SQLite has neither of the latter.
Insert(x) ==
    /\ writer[x] \in {"value", "closed"}
    /\ stream' = Append(stream, writer[x])
    /\ writer' = [writer EXCEPT ![x] = "on"]
    /\ IF backend = "sqlite" THEN UNCHANGED <<reader, notify>>
       ELSE /\ notify' = TRUE
            /\ reader' = [r \in Reader |-> IF r \in Local THEN Woken(r) ELSE reader[r]]
    /\ UNCHANGED <<backend, status, drops>>

\* record_workflow_result, or cancellation, which stops no execution.
End ==
    /\ status = "PENDING"
    /\ status' = "ENDED"
    /\ UNCHANGED <<backend, stream, writer, reader, notify, drops>>

\* An execution returns, or its process stops.
Leave(x) ==
    /\ writer[x] # "off"
    /\ writer' = [writer EXCEPT ![x] = "off"]
    /\ UNCHANGED <<backend, status, stream, reader, notify, drops>>
-----------------------------------------------------------------------------
(* The listener of the processes.                                          *)

\* run_listener_loop hands a notification to the waiters.
Listen ==
    /\ notify
    /\ notify' = FALSE
    /\ reader' = [r \in Reader |-> Woken(r)]
    /\ UNCHANGED <<backend, status, stream, writer, drops>>

\* It loses its connection, and what comes before it listens again.
Drop ==
    /\ notify /\ drops < MaxDrops
    /\ notify' = FALSE
    /\ drops' = drops + 1
    /\ UNCHANGED <<backend, status, stream, writer, reader>>
-----------------------------------------------------------------------------
(* read_stream.                                                            *)

Set(r, call) == reader' = [reader EXCEPT ![r] = call]

Call(r, from, snapshot) ==
    /\ reader[r].pc = "off"
    /\ Set(r, [NoRead EXCEPT !.pc = "read", !.snapshot = snapshot, !.from = from, !.offset = from])
    /\ UNCHANGED <<backend, status, stream, writer, notify, drops>>

\* Where the rows from an offset on end: before the one that closes the stream,
\* or where there are no more.
Ends(offset, end) ==
    /\ \A n \in offset + 1 .. end : n \in DOMAIN stream /\ stream[n] = "value"
    /\ end + 1 \in DOMAIN stream => stream[end + 1] = "closed"
ClosedFrom(offset) == \E n \in DOMAIN stream : n > offset /\ stream[n] = "closed"

\* Mutant: the offset of the last value read.
LastOffset(offset, end) == IF end = offset THEN offset ELSE end - 1

\* SystemDatabase::read_stream: a value is known by its offset.
NextOffset(offset, end) == end
Read(r) ==
    /\ reader[r].pc = "read"
    /\ LET call == reader[r]
           closed == ClosedFrom(call.offset)
       IN \E end \in call.offset .. call.offset + Len(stream) :
            /\ Ends(call.offset, end)
            /\ Set(r, [call EXCEPT
                 !.values = @ \o [n \in 1 .. end - call.offset |-> call.offset + n - 1],
                 !.offset = NextOffset(call.offset, end), !.closed = closed,
                 !.pc = IF closed \/ call.snapshot THEN "done" ELSE "status"])
    /\ UNCHANGED <<backend, status, stream, writer, notify, drops>>

\* get_workflow_status: delayed workflows are not active either.
Active == status \in {"PENDING", "ENQUEUED"}
ReadStatus(r) ==
    /\ reader[r].pc = "status"
    /\ Set(r, [reader[r] EXCEPT !.closed = ~Active, !.pc = IF Active THEN "await" ELSE "done"])
    /\ UNCHANGED <<backend, status, stream, writer, notify, drops>>

\* wait_for_stream: from here on wake-ups reach it.
Wait(r) ==
    /\ reader[r].pc = "await"
    /\ Set(r, [reader[r] EXCEPT !.pc = "wait"])
    /\ UNCHANGED <<backend, status, stream, writer, notify, drops>>

\* Mutant: only a wake-up ends the wait.
WaitOn(r) ==
    /\ reader[r].pc = "wait" /\ notify
    /\ Set(r, [reader[r] EXCEPT !.pc = "read"])
    /\ UNCHANGED <<backend, status, stream, writer, notify, drops>>

\* LISTENER_WAIT_CAP, for those a wake-up did not reach.
WaitOver(r) ==
    /\ reader[r].pc = "wait"
    /\ Set(r, [reader[r] EXCEPT !.pc = "read"])
    /\ UNCHANGED <<backend, status, stream, writer, notify, drops>>
-----------------------------------------------------------------------------
Reading(r) == Read(r) \/ ReadStatus(r) \/ Wait(r) \/ WaitOver(r)

StreamNext ==
    \/ Due \/ End \/ Listen \/ Drop
    \/ \E x \in Writer : \/ Execute(x) \/ Insert(x) \/ Leave(x)
                         \/ \E row \in {"value", "closed"} : CheckClosed(x, row)
    \/ \E r \in Reader :
         \/ Reading(r)
         \/ \E from \in Froms, snapshot \in BOOLEAN : Call(r, from, snapshot)

StreamSpec == StreamInit /\ [][StreamNext]_streamVars

\* Readers go on, and a workflow ends once it is executed.
FairSpec ==
    /\ StreamSpec
    /\ WF_streamVars(Due \/ (status = "ENQUEUED" /\ \E x \in Writer : Execute(x)) \/ End)
    /\ \A r \in Reader : WF_streamVars(Reading(r))
-----------------------------------------------------------------------------
(* Properties.                                                             *)

\* What a reader has read are the values from its offset on, in order, none of
\* them twice and none left out, up to its own offset and not beyond the row
\* that closes the stream, although others write, and close it, while it reads
\* and values may come after that row (JournioContext::read_stream).
InOrder ==
    \A r \in Reader :
        LET call == reader[r] IN
        /\ call.values = [n \in 1..Len(call.values) |-> call.from + n - 1]
        /\ \A n \in 1..Len(call.values) : stream[call.values[n] + 1] = "value"

\* Every call returns, whichever wake-ups are lost, as the workflow ends
\* (read_stream, wait_on_map, run_listener_loop).
ReadersReturn == \A r \in Reader : (reader[r].pc = "read") ~> (reader[r].pc = "done")
=============================================================================
