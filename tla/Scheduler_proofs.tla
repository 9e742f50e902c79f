---------------------------- MODULE Scheduler_proofs ----------------------------
(***************************************************************************)
(* Proof that last_fired_at passes no slot that was not enqueued           *)
(* (NoSlotLost), for any number of processes, schedules and slots.         *)
(*                                                                         *)
(* What must be known besides is what a pass may still write: the rows it  *)
(* holds are old, other passes and the client have changed the table since.*)
(***************************************************************************)
EXTENDS Scheduler, TLAPS

Row == [status : {"ACTIVE", "PAUSED"}, last : Nat, from : Nat, opt : Option]
Pass == [pc : {"idle", "listed", "next", "fire"}, read : [Schedule -> Row \cup {Nil}],
         next : Nat, at : Nat, due : SUBSET Nat, last : Nat]

TypeInv ==
    /\ now \in Nat
    /\ sched \in [Schedule -> Row \cup {Nil}]
    /\ runs \in [Schedule -> SUBSET Nat]
    /\ pass \in [Process -> Pass]

\* The table holds no time to come.
RowsPast ==
    \A s \in Schedule : sched[s] # Nil => sched[s].last <= now /\ sched[s].from <= now

\* Nor does a pass.
PassPast(p) ==
    /\ pass[p].at <= now
    /\ \A s \in Schedule : pass[p].read[s] # Nil => pass[p].read[s].last <= now

\* A row that a pass has read tells the truth about a row with its options,
\* even if that one is another by now: it is then younger than all of it.
Tells(row, s) ==
    row # Nil /\ sched[s] # Nil /\ sched[s].opt = row.opt /\ row.opt.backfill =>
        \A t \in row.opt.slots : sched[s].from < t /\ t <= row.last => t \in runs[s]
ReadTells(p) == \A s \in Schedule : Tells(pass[p].read[s], s)

\* A slot between the row that was read and what will be written is enqueued
\* or going to be.
DueTells(p) ==
    pass[p].pc = "fire" =>
        /\ pass[p].next \in DOMAIN Schedules
        /\ RowRead(p) # Nil
        /\ pass[p].last <= pass[p].at
        /\ pass[p].last \in runs[Turn(p)] \cup pass[p].due
        /\ RowRead(p).opt.backfill =>
             \A t \in RowRead(p).opt.slots :
                RowRead(p).last < t /\ t <= pass[p].last
                   => t \in runs[Turn(p)] \cup pass[p].due

PassInv(p) == PassPast(p) /\ ReadTells(p) /\ DueTells(p)

IInv == TypeInv /\ RowsPast /\ NoSlotLost /\ \A p \in Process : PassInv(p)
-----------------------------------------------------------------------------
(* Facts about the actions.                                                *)

\* A schedule's turn is the turn of a schedule.
LEMMA TurnIsSchedule ==
    ASSUME NEW p \in Process, pass[p].next \in DOMAIN Schedules
    PROVE  Turn(p) \in Schedule
BY DEF Turn, Schedule, Range

\* A pass that only moves on in its own row leaves the invariant alone but for
\* what concerns that row.
LEMMA OnlyPass ==
    ASSUME IInv, NEW p \in Process, NEW n \in Pass,
           pass' = [pass EXCEPT ![p] = n], UNCHANGED <<now, sched, runs>>,
           PassInv(p)'
    PROVE  IInv'
<1>1. TypeInv' BY DEF IInv, TypeInv
<1>2. RowsPast' /\ NoSlotLost' BY DEF IInv, RowsPast, NoSlotLost
<1>3. ASSUME NEW q \in Process PROVE PassInv(q)'
  <2>1. CASE q = p BY <2>1
  <2>2. CASE q # p
    <3>1. pass'[q] = pass[q] BY <2>2 DEF IInv, TypeInv
    <3> QED BY <3>1 DEF IInv, PassInv, PassPast, ReadTells, Tells, DueTells, RowRead, Turn
  <2> QED BY <2>1, <2>2
<1> QED BY <1>1, <1>2, <1>3 DEF IInv

\* A pass that is given up is idle and has read nothing.
LEMMA GivenUp ==
    ASSUME IInv, NEW p \in Process,
           pass' = [pass EXCEPT ![p] = NoPass], UNCHANGED <<now, sched, runs>>
    PROVE  IInv'
<1>1. NoPass \in Pass BY DEF NoPass, Pass
<1>2. pass'[p] = NoPass BY DEF IInv, TypeInv
<1>3. PassInv(p)'
  BY <1>2, SchedulerAssumption
  DEF PassInv, PassPast, ReadTells, Tells, DueTells, NoPass, IInv, TypeInv
<1> QED BY <1>1, <1>3, OnlyPass

\* What NoSlotLost says of a row.
Whole(row, s) ==
    row # Nil =>
        /\ row.last # row.from => row.last \in runs[s]
        /\ row.opt.backfill =>
             \A t \in row.opt.slots : row.from < t /\ t <= row.last => t \in runs[s]

LEMMA NoSlotLostIsWhole == NoSlotLost <=> \A s \in Schedule : Whole(sched[s], s)
BY DEF NoSlotLost, Whole

\* But for the status.
Same(row, other) ==
    other.last = row.last /\ other.from = row.from /\ other.opt = row.opt

\* While the passes stand still, rows may be removed, created anew or change
\* their status, workflow rows may be added, and time may go by.
LEMMA TableChanges ==
    ASSUME IInv, UNCHANGED pass, now' \in Nat, now <= now',
           sched' \in [Schedule -> Row \cup {Nil}],
           runs' \in [Schedule -> SUBSET Nat],
           \A s \in Schedule : runs[s] \subseteq runs'[s],
           \A s \in Schedule : sched'[s] # Nil =>
              \/ sched'[s].last = now /\ sched'[s].from = now
              \/ sched[s] # Nil /\ Same(sched[s], sched'[s])
    PROVE  IInv'
<1> USE SchedulerAssumption
<1>1. TypeInv' BY DEF IInv, TypeInv
<1>2. RowsPast'
  <2> SUFFICES ASSUME NEW s \in Schedule, sched'[s] # Nil
               PROVE  sched'[s].last <= now' /\ sched'[s].from <= now'
    BY DEF RowsPast
  <2>1. sched[s] # Nil => sched[s] \in Row /\ sched[s].last <= now /\ sched[s].from <= now
    BY DEF IInv, TypeInv, RowsPast
  <2> QED BY <2>1 DEF IInv, TypeInv, Row, Same
<1>3. NoSlotLost'
  <2> SUFFICES ASSUME NEW s \in Schedule, sched'[s] # Nil PROVE Whole(sched[s], s)'
    BY NoSlotLostIsWhole DEF NoSlotLost, Whole
  <2>1. sched'[s] \in Row /\ sched'[s].opt.slots \subseteq Nat
    <3>1. sched'[s] \in Row OBVIOUS
    <3> QED BY <3>1 DEF Row, Option
  <2>2. CASE sched'[s].last = now /\ sched'[s].from = now
    BY <2>1, <2>2 DEF IInv, TypeInv, Whole
  <2>3. CASE sched[s] # Nil /\ Same(sched[s], sched'[s])
    BY <2>3 DEF IInv, NoSlotLost, Whole, Same
  <2> QED BY <2>2, <2>3
<1>4. ASSUME NEW p \in Process PROVE PassInv(p)'
  <2>1. PassInv(p) /\ pass[p] \in Pass BY DEF IInv, TypeInv
  <2>2. PassPast(p)'
    <3>1. pass[p].at \in Nat /\ now \in Nat BY <2>1 DEF Pass, IInv, TypeInv
    <3>2. pass[p].at <= now' BY <2>1, <3>1 DEF PassInv, PassPast
    <3>3. ASSUME NEW s \in Schedule, pass[p].read[s] # Nil
          PROVE  pass[p].read[s].last <= now'
      <4>1. pass[p].read[s] \in Row BY <2>1, <3>3 DEF Pass
      <4>2. pass[p].read[s].last \in Nat BY <4>1 DEF Row
      <4> QED BY <2>1, <3>1, <3>3, <4>2 DEF PassInv, PassPast
    <3> QED BY <3>2, <3>3 DEF PassPast
  <2>3. ReadTells(p)'
    <3> SUFFICES ASSUME NEW s \in Schedule, pass[p].read[s] # Nil, sched'[s] # Nil,
                        sched'[s].opt = pass[p].read[s].opt, pass[p].read[s].opt.backfill,
                        NEW t \in pass[p].read[s].opt.slots,
                        sched'[s].from < t, t <= pass[p].read[s].last
                 PROVE  t \in runs'[s]
      BY DEF ReadTells, Tells
    <3>1. pass[p].read[s] \in Row BY <2>1 DEF Pass
    <3>2. t \in Nat /\ pass[p].read[s].last \in Nat /\ now \in Nat
      BY <3>1 DEF Row, Option, IInv, TypeInv
    <3>3. pass[p].read[s].last <= now BY <2>1 DEF PassInv, PassPast
    <3>4. ~ (sched'[s].last = now /\ sched'[s].from = now) BY <3>2, <3>3
    <3>5. sched[s] # Nil /\ Same(sched[s], sched'[s]) BY <3>4
    <3>6. t \in runs[s] BY <2>1, <3>5 DEF PassInv, ReadTells, Tells, Same
    <3> QED BY <3>6
  <2>4. DueTells(p)'
    <3> SUFFICES ASSUME pass[p].pc = "fire" PROVE DueTells(p)' BY DEF DueTells
    <3>1. Turn(p) \in Schedule BY <2>1, TurnIsSchedule DEF PassInv, DueTells
    <3>2. runs[Turn(p)] \subseteq runs'[Turn(p)] BY <3>1
    <3>3. Turn(p)' = Turn(p) /\ RowRead(p)' = RowRead(p) BY DEF Turn, RowRead
    <3> QED BY <2>1, <3>2, <3>3 DEF PassInv, DueTells
  <2> QED BY <2>2, <2>3, <2>4 DEF PassInv
<1> QED BY <1>1, <1>2, <1>3, <1>4 DEF IInv
-----------------------------------------------------------------------------
(* The steps.                                                              *)

\* The schedules are as they were registered, and nothing has been enqueued.
LEMMA InitHolds == Init => IInv
<1> SUFFICES ASSUME Init PROVE IInv OBVIOUS
<1> USE SchedulerAssumption
<1>1. PICK paused \in SUBSET Schedule, opt \in [Schedule -> UNION Range(Options)] :
        /\ \A s \in Schedule : opt[s] \in Options[s]
        /\ sched = [s \in Schedule |->
                    [NewRow(opt[s], 0) EXCEPT !.status = IF s \in paused THEN "PAUSED" ELSE @]]
  BY DEF Init
<1>2. ASSUME NEW s \in Schedule
      PROVE  sched[s] \in Row /\ sched[s].last = 0 /\ sched[s].from = 0
  <2>1. opt[s] \in Option BY <1>1
  <2> QED BY <1>1, <2>1 DEF NewRow, Row
<1>3. NoPass \in Pass BY DEF NoPass, Pass
<1>4. TypeInv BY <1>1, <1>2, <1>3 DEF Init, TypeInv
<1>5. RowsPast BY <1>2 DEF RowsPast, Init
<1>6. NoSlotLost
  <2>1. \A s \in Schedule : sched[s].opt.slots \subseteq Nat BY <1>2 DEF Row, Option
  <2> QED BY <1>2, <2>1 DEF NoSlotLost
<1>7. ASSUME NEW p \in Process PROVE PassInv(p)
  <2>1. pass[p] = NoPass BY DEF Init
  <2> QED BY <2>1 DEF PassInv, PassPast, ReadTells, Tells, DueTells, NoPass, Init
<1> QED BY <1>4, <1>5, <1>6, <1>7 DEF IInv

\* A pass reads the table: what it says of itself, the copy says as well.
LEMMA ListHolds == ASSUME IInv, NEW p \in Process, List(p) PROVE IInv'
<1> DEFINE n == [pass[p] EXCEPT !.pc = "listed", !.read = sched]
<1>1. pass[p] \in Pass /\ sched \in [Schedule -> Row \cup {Nil}] BY DEF IInv, TypeInv
<1>2. n \in Pass BY <1>1 DEF Pass
<1>3. pass' = [pass EXCEPT ![p] = n] BY DEF List
<1>4. pass'[p] = n BY <1>3 DEF IInv, TypeInv
<1>5. n.pc = "listed" /\ n.read = sched /\ n.at = pass[p].at BY <1>1 DEF Pass
<1>6. UNCHANGED <<now, sched, runs>> BY DEF List
<1>7. PassPast(p)' BY <1>4, <1>5, <1>6 DEF PassPast, IInv, PassInv, RowsPast
<1>8. ReadTells(p)'
  BY <1>4, <1>5, <1>6 DEF ReadTells, Tells, IInv, NoSlotLost
<1>9. DueTells(p)' BY <1>4, <1>5 DEF DueTells
<1> HIDE DEF n
<1> QED BY <1>2, <1>3, <1>6, <1>7, <1>8, <1>9, OnlyPass DEF PassInv

\* It reads the clock.
LEMMA ReadClockHolds == ASSUME IInv, NEW p \in Process, ReadClock(p) PROVE IInv'
<1> DEFINE n == [pass[p] EXCEPT !.pc = "next", !.at = now]
<1>1. pass[p] \in Pass /\ now \in Nat /\ PassInv(p) BY DEF IInv, TypeInv
<1>2. n \in Pass BY <1>1 DEF Pass
<1>3. pass' = [pass EXCEPT ![p] = n] BY DEF ReadClock
<1>4. pass'[p] = n BY <1>3 DEF IInv, TypeInv
<1>5. n.pc = "next" /\ n.read = pass[p].read /\ n.at = now BY <1>1 DEF Pass
<1>6. UNCHANGED <<now, sched, runs>> BY DEF ReadClock
<1>7. PassPast(p)' BY <1>1, <1>4, <1>5, <1>6 DEF PassPast, PassInv
<1>8. ReadTells(p)' BY <1>1, <1>4, <1>5, <1>6 DEF ReadTells, Tells, PassInv
<1>9. DueTells(p)' BY <1>4, <1>5 DEF DueTells
<1> HIDE DEF n
<1> QED BY <1>2, <1>3, <1>6, <1>7, <1>8, <1>9, OnlyPass DEF PassInv

\* It finds out which slots are due.
LEMMA LookAtHolds == ASSUME IInv, NEW p \in Process, LookAt(p) PROVE IInv'
<1> USE SchedulerAssumption
<1>1. PICK last \in DueNow(p) :
        /\ \A t \in DueNow(p) : t <= last
        /\ pass' = [pass EXCEPT ![p].pc = "fire", ![p].due = DueNow(p), ![p].last = last]
  BY DEF LookAt
<1> DEFINE n == [pass[p] EXCEPT !.pc = "fire", !.due = DueNow(p), !.last = last]
<1>2. pass[p] \in Pass /\ PassInv(p) BY DEF IInv, TypeInv
<1>3. pass[p].next \in DOMAIN Schedules /\ RowRead(p) # Nil BY DEF LookAt, More, Calls
<1>4. Turn(p) \in Schedule BY <1>3, TurnIsSchedule
<1>5. /\ DueNow(p) \subseteq RowRead(p).opt.slots
      /\ \A t \in DueNow(p) : t <= pass[p].at
      /\ RowRead(p).opt.backfill =>
            DueNow(p) = {t \in RowRead(p).opt.slots :
                            RowRead(p).last < t /\ t <= pass[p].at}
  BY DEF DueNow, Due
<1>6. /\ DueNow(p) \in SUBSET Nat /\ last \in Nat /\ last <= pass[p].at
      /\ RowRead(p).opt.slots \subseteq Nat
  <2>1. RowRead(p) \in Row BY <1>2, <1>3, <1>4 DEF Pass, RowRead
  <2>2. RowRead(p).opt.slots \subseteq Nat BY <2>1 DEF Row, Option
  <2> QED BY <1>1, <1>5, <2>2
<1>7. n \in Pass BY <1>2, <1>6 DEF Pass
<1>8. pass' = [pass EXCEPT ![p] = n] BY <1>1 DEF IInv, TypeInv
<1>9. pass'[p] = n BY <1>8 DEF IInv, TypeInv
<1>10. /\ n.pc = "fire" /\ n.read = pass[p].read /\ n.at = pass[p].at
       /\ n.next = pass[p].next /\ n.due = DueNow(p) /\ n.last = last
  BY <1>2 DEF Pass
<1>11. UNCHANGED <<now, sched, runs>> BY DEF LookAt
<1>12. PassPast(p)' BY <1>2, <1>9, <1>10, <1>11 DEF PassPast, PassInv
<1>13. ReadTells(p)' BY <1>2, <1>9, <1>10, <1>11 DEF ReadTells, Tells, PassInv
<1>14. DueTells(p)'
  <2>1. Turn(p)' = Turn(p) /\ RowRead(p)' = RowRead(p) BY <1>9, <1>10 DEF Turn, RowRead
  <2>2. ASSUME RowRead(p).opt.backfill, NEW t \in RowRead(p).opt.slots,
               RowRead(p).last < t, t <= last
        PROVE  t \in DueNow(p)
    <3>1. t \in Nat /\ pass[p].at \in Nat BY <1>2, <1>6 DEF Pass
    <3>2. t <= pass[p].at BY <1>6, <2>2, <3>1
    <3> QED BY <1>5, <2>2, <3>2
  <2> HIDE DEF n
  <2> QED BY <1>1, <1>3, <1>6, <1>9, <1>10, <1>11, <2>1, <2>2 DEF DueTells
<1> HIDE DEF n
<1> QED BY <1>7, <1>8, <1>11, <1>12, <1>13, <1>14, OnlyPass DEF PassInv

\* It passes over a schedule.
LEMMA PassOverHolds == ASSUME IInv, NEW p \in Process, PassOver(p) PROVE IInv'
<1> DEFINE n == [pass[p] EXCEPT !.next = pass[p].next + 1]
<1>1. pass[p] \in Pass /\ PassInv(p) /\ pass[p].pc = "next"
  BY DEF IInv, TypeInv, PassOver, More
<1>2. n \in Pass BY <1>1 DEF Pass
<1>3. pass' = [pass EXCEPT ![p] = n] BY DEF PassOver
<1>4. pass'[p] = n BY <1>3 DEF IInv, TypeInv
<1>5. n.pc = "next" /\ n.read = pass[p].read /\ n.at = pass[p].at BY <1>1 DEF Pass
<1>6. UNCHANGED <<now, sched, runs>> BY DEF PassOver
<1>7. PassPast(p)' BY <1>1, <1>4, <1>5, <1>6 DEF PassPast, PassInv
<1>8. ReadTells(p)' BY <1>1, <1>4, <1>5, <1>6 DEF ReadTells, Tells, PassInv
<1>9. DueTells(p)' BY <1>4, <1>5 DEF DueTells
<1> HIDE DEF n
<1> QED BY <1>2, <1>3, <1>6, <1>7, <1>8, <1>9, OnlyPass DEF PassInv

\* It enqueues a slot: from what is due the slot goes to the workflow rows.
LEMMA FireHolds ==
    ASSUME IInv, NEW p \in Process, NEW t \in pass[p].due, Fire(p, t) PROVE IInv'
<1> DEFINE n == [pass[p] EXCEPT !.due = pass[p].due \ {t}]
<1>1. pass[p] \in Pass /\ PassInv(p) /\ pass[p].pc = "fire" /\ TypeInv
  BY DEF IInv, TypeInv, Fire, First
<1>2. n \in Pass BY <1>1 DEF Pass
<1>3. pass' = [pass EXCEPT ![p] = n] BY DEF Fire
<1>4. pass'[p] = n BY <1>1, <1>3 DEF TypeInv
<1>5. /\ n.pc = "fire" /\ n.read = pass[p].read /\ n.at = pass[p].at
      /\ n.next = pass[p].next /\ n.due = pass[p].due \ {t} /\ n.last = pass[p].last
  BY <1>1 DEF Pass
<1>6. UNCHANGED <<now, sched>> BY DEF Fire
<1>7. Turn(p) \in Schedule BY <1>1, TurnIsSchedule DEF PassInv, DueTells
<1>8. runs' = [runs EXCEPT ![Turn(p)] = runs[Turn(p)] \cup {t}] BY DEF Fire
<1>9. t \in Nat BY <1>1 DEF Pass
<1>10. /\ runs' \in [Schedule -> SUBSET Nat]
       /\ \A s \in Schedule : runs[s] \subseteq runs'[s]
       /\ runs'[Turn(p)] = runs[Turn(p)] \cup {t}
  BY <1>1, <1>7, <1>8, <1>9 DEF TypeInv
<1> HIDE DEF n
<1>11. TypeInv' BY <1>1, <1>2, <1>3, <1>6, <1>10 DEF TypeInv
<1>12. RowsPast' BY <1>6 DEF IInv, RowsPast
<1>13. NoSlotLost' BY <1>6, <1>10, SchedulerAssumption DEF IInv, NoSlotLost
<1>14. ASSUME NEW q \in Process PROVE PassInv(q)'
  <2>1. PassInv(q) BY DEF IInv
  <2>2. CASE q = p
    <3>1. PassPast(p)' BY <1>1, <1>4, <1>5, <1>6 DEF PassInv, PassPast
    <3>2. ReadTells(p)'
      BY <1>1, <1>4, <1>5, <1>6, <1>10, SchedulerAssumption DEF PassInv, ReadTells, Tells
    <3>3. Turn(p)' = Turn(p) /\ RowRead(p)' = RowRead(p)
      BY <1>4, <1>5 DEF Turn, RowRead
    <3>4. runs'[Turn(p)] \cup n.due = runs[Turn(p)] \cup pass[p].due BY <1>5, <1>10
    <3>5. DueTells(p)' BY <1>1, <1>4, <1>5, <3>3, <3>4 DEF PassInv, DueTells
    <3> QED BY <2>2, <3>1, <3>2, <3>5 DEF PassInv
  <2>3. CASE q # p
    <3>1. pass'[q] = pass[q] BY <1>1, <1>3, <2>3 DEF TypeInv
    <3>2. PassPast(q)' BY <1>6, <2>1, <3>1 DEF PassInv, PassPast
    <3>3. ReadTells(q)'
      BY <1>6, <1>10, <2>1, <3>1, SchedulerAssumption DEF PassInv, ReadTells, Tells
    <3>4. ASSUME pass[q].pc = "fire" PROVE runs[Turn(q)] \subseteq runs'[Turn(q)]
      BY <1>10, <2>1, <3>4, TurnIsSchedule DEF PassInv, DueTells
    <3>5. Turn(q)' = Turn(q) /\ RowRead(q)' = RowRead(q) BY <3>1 DEF Turn, RowRead
    <3>6. DueTells(q)' BY <2>1, <3>1, <3>4, <3>5 DEF PassInv, DueTells
    <3> QED BY <3>2, <3>3, <3>6 DEF PassInv
  <2> QED BY <2>2, <2>3
<1> QED BY <1>11, <1>12, <1>13, <1>14 DEF IInv

\* It moves last_fired_at, of whatever row there is by now.
LEMMA AdvanceHolds == ASSUME IInv, NEW p \in Process, Advance(p) PROVE IInv'
<1> DEFINE n == [pass[p] EXCEPT !.pc = "next", !.next = pass[p].next + 1]
           s == Turn(p)
<1>1. /\ pass[p] \in Pass /\ PassInv(p) /\ TypeInv
      /\ pass[p].pc = "fire" /\ pass[p].due = {}
  BY DEF IInv, TypeInv, Advance, Fired
<1>2. n \in Pass
  <2>1. pass[p] \in Pass BY <1>1
  <2>2. pass[p].next + 1 \in Nat BY <2>1 DEF Pass
  <2> QED BY <2>1, <2>2 DEF Pass
<1>3. pass' = [pass EXCEPT ![p] = n] BY DEF Advance
<1>4. UNCHANGED <<now, runs>> BY DEF Advance
<1>5. s \in Schedule BY <1>1, TurnIsSchedule DEF PassInv, DueTells
<1>6. pass[p].last \in Nat /\ pass[p].last <= now /\ pass[p].last \in runs[s]
  <2>1. pass[p].last \in Nat /\ pass[p].at \in Nat /\ now \in Nat BY <1>1 DEF Pass, TypeInv
  <2>2. pass[p].last <= pass[p].at /\ pass[p].at <= now /\ pass[p].last \in runs[s]
    BY <1>1 DEF PassInv, PassPast, DueTells
  <2> QED BY <2>1, <2>2
<1>7. \A u \in Schedule : u # s => sched'[u] = sched[u]
  BY <1>1, <1>5 DEF Advance, LastSet, TypeInv
<1>8. sched'[s] # Nil =>
        /\ sched[s] # Nil /\ sched'[s] \in Row
        /\ sched'[s].last = pass[p].last /\ sched'[s].opt = sched[s].opt
        /\ sched'[s].from = IF sched[s].opt = RowRead(p).opt THEN sched[s].from
                            ELSE Later(sched[s].from, pass[p].last)
  <2>1. CASE sched[s] = Nil BY <2>1 DEF Advance, LastSet
  <2>2. CASE sched[s] # Nil
    <3> DEFINE f == IF sched[s].opt = RowRead(p).opt THEN sched[s].from
                    ELSE Later(sched[s].from, pass[p].last)
               row == [sched[s] EXCEPT !.last = pass[p].last, !.from = f]
    <3>1. sched[s] \in Row BY <1>1, <1>5, <2>2 DEF TypeInv
    <3>2. f \in Nat BY <1>6, <3>1 DEF Row, Later
    <3>3. sched' = [sched EXCEPT ![s] = row]
      BY <1>1, <1>5, <2>2 DEF Advance, LastSet, TypeInv
    <3>4. sched'[s] = row BY <1>1, <1>5, <3>3 DEF TypeInv
    <3> HIDE DEF f
    <3>5. row \in Row /\ row.last = pass[p].last /\ row.opt = sched[s].opt /\ row.from = f
      BY <1>6, <3>1, <3>2 DEF Row
    <3> QED BY <2>2, <3>4, <3>5 DEF f
  <2> QED BY <2>1, <2>2
<1>9. sched' \in [Schedule -> Row \cup {Nil}]
  <2>1. sched' = [u \in Schedule |-> sched'[u]]
    BY <1>1 DEF Advance, LastSet, TypeInv
  <2>2. \A u \in Schedule : sched'[u] \in Row \cup {Nil} BY <1>1, <1>7, <1>8 DEF TypeInv
  <2> QED BY <2>1, <2>2
<1> HIDE DEF n, s
<1>10. TypeInv' BY <1>1, <1>2, <1>3, <1>4, <1>9 DEF TypeInv
<1>11. RowsPast'
  <2> SUFFICES ASSUME NEW u \in Schedule, sched'[u] # Nil
               PROVE  sched'[u].last <= now /\ sched'[u].from <= now
    BY <1>4 DEF RowsPast
  <2> QED BY <1>6, <1>7, <1>8 DEF IInv, RowsPast, Later
<1>12. NoSlotLost'
  <2> SUFFICES ASSUME NEW u \in Schedule, sched'[u] # Nil PROVE Whole(sched[u], u)'
    BY NoSlotLostIsWhole DEF NoSlotLost, Whole
  <2>1. CASE u # s BY <1>4, <1>7, <2>1 DEF IInv, NoSlotLost, Whole
  <2>2. CASE u = s
    <3>1. RowRead(p) = pass[p].read[s] /\ RowRead(p) # Nil
      BY <1>1 DEF PassInv, DueTells, RowRead, s
    <3>2. RowRead(p) \in Row /\ sched[s] \in Row /\ sched[s] # Nil
      BY <1>1, <1>5, <1>8, <2>2, <3>1 DEF Pass, TypeInv
    <3>3. ASSUME sched[s].opt.backfill, NEW t \in sched[s].opt.slots,
                 sched'[s].from < t, t <= pass[p].last
          PROVE  t \in runs[s]
      <4>1. t \in Nat /\ RowRead(p).last \in Nat /\ sched[s].from \in Nat
        BY <3>2, <3>3 DEF Row, Option
      <4>2. CASE sched[s].opt # RowRead(p).opt
        BY <1>6, <1>8, <2>2, <3>3, <4>1, <4>2 DEF Later
      <4>3. CASE sched[s].opt = RowRead(p).opt /\ t <= RowRead(p).last
        BY <1>1, <1>5, <1>8, <2>2, <3>1, <3>2, <3>3, <4>3 DEF PassInv, ReadTells, Tells
      <4>4. CASE sched[s].opt = RowRead(p).opt /\ RowRead(p).last < t
        BY <1>1, <3>3, <4>4 DEF PassInv, DueTells, s
      <4> QED BY <4>1, <4>2, <4>3, <4>4
    <3> QED BY <1>4, <1>6, <1>8, <2>2, <3>3 DEF Whole
  <2> QED BY <2>1, <2>2
<1>13. ASSUME NEW q \in Process PROVE PassInv(q)'
  <2>1. PassInv(q) BY DEF IInv
  <2>2. ASSUME NEW u \in Schedule, sched'[u] # Nil
        PROVE  /\ sched[u] # Nil /\ sched'[u].opt = sched[u].opt
               /\ sched[u].from <= sched'[u].from
               /\ sched[u].from \in Nat /\ sched'[u].from \in Nat
               /\ sched[u].opt.slots \subseteq Nat
    <3>1. sched[u] # Nil /\ sched[u] \in Row /\ sched'[u] \in Row
      BY <1>1, <1>7, <1>8, <1>9, <2>2 DEF TypeInv
    <3> QED BY <1>6, <1>7, <1>8, <2>2, <3>1 DEF Row, Option, Later
  <2>3. CASE q = p
    <3>1. pass'[p] = n BY <1>1, <1>3 DEF TypeInv
    <3>2. n.pc = "next" /\ n.read = pass[p].read /\ n.at = pass[p].at
      BY <1>1 DEF Pass, n
    <3>3. PassPast(p)' BY <1>1, <1>4, <3>1, <3>2 DEF PassInv, PassPast
    <3>4. ReadTells(p)'
      BY <1>1, <1>4, <2>2, <3>1, <3>2, SchedulerAssumption DEF PassInv, ReadTells, Tells
    <3>5. DueTells(p)' BY <3>1, <3>2 DEF DueTells
    <3> QED BY <2>3, <3>3, <3>4, <3>5 DEF PassInv
  <2>4. CASE q # p
    <3>1. pass'[q] = pass[q] BY <1>1, <1>3, <2>4 DEF TypeInv
    <3>2. PassPast(q)' BY <1>4, <2>1, <3>1 DEF PassInv, PassPast
    <3>3. ReadTells(q)'
      BY <1>4, <2>1, <2>2, <3>1, SchedulerAssumption DEF PassInv, ReadTells, Tells
    <3>4. DueTells(q)' BY <1>4, <2>1, <3>1 DEF PassInv, DueTells, Turn, RowRead
    <3> QED BY <3>2, <3>3, <3>4 DEF PassInv
  <2> QED BY <2>3, <2>4
<1> QED BY <1>10, <1>11, <1>12, <1>13 DEF IInv

\* The client's commands.
LEMMA CommandHolds ==
    ASSUME IInv, NEW s \in Schedule,
           \/ Pause(s) \/ Resume(s) \/ DeleteSchedule(s) \/ Trigger(s)
           \/ \E opt \in Options[s] :
                Create(s, opt) \/ \E status \in {"ACTIVE", "PAUSED"} : Register(s, opt, status)
           \/ \E span \in Spans : BackfillSchedule(s, span[1], span[2])
    PROVE  IInv'
<1> USE SchedulerAssumption
<1>1. TypeInv BY DEF IInv
<1>2. now' = now /\ pass' = pass /\ now \in Nat
  BY <1>1 DEF TypeInv, Create, Pause, Resume, DeleteSchedule, Trigger, Register,
              BackfillSchedule
<1> DEFINE Kept(u) == \/ sched'[u].last = now /\ sched'[u].from = now
                      \/ sched[u] # Nil /\ Same(sched[u], sched'[u])
           Table == /\ sched' \in [Schedule -> Row \cup {Nil}]
                    /\ \A u \in Schedule : sched'[u] # Nil => Kept(u)
           Longer == /\ runs' \in [Schedule -> SUBSET Nat]
                     /\ \A u \in Schedule : runs[u] \subseteq runs'[u]
<1>3. sched' = sched => Table BY <1>1 DEF TypeInv, Same
<1>4. runs' = runs => Longer BY <1>1 DEF TypeInv
<1>5. ASSUME NEW row \in Row, row.last = now, row.from = now, sched' = Upserted(s, row)
      PROVE  Table
  BY <1>1, <1>5 DEF TypeInv, Upserted, Same
<1>6. ASSUME NEW status \in {"ACTIVE", "PAUSED"}, sched' = StatusSet(s, status)
      PROVE  Table
  <2>1. CASE sched[s] = Nil BY <1>3, <1>6, <2>1 DEF StatusSet
  <2>2. CASE sched[s] # Nil
    <3> DEFINE row == [sched[s] EXCEPT !.status = status]
    <3>1. sched[s] \in Row BY <1>1, <2>2 DEF TypeInv
    <3>2. row \in Row /\ Same(sched[s], row) BY <3>1 DEF Row, Same
    <3>3. sched' = [sched EXCEPT ![s] = row] BY <1>6, <2>2 DEF StatusSet
    <3> HIDE DEF row
    <3> QED BY <1>1, <2>2, <3>2, <3>3 DEF TypeInv, Same
  <2> QED BY <2>1, <2>2
<1>7. Table /\ Longer
  <2>1. ASSUME NEW opt \in Options[s], Create(s, opt) PROVE Table /\ Longer
    <3> DEFINE row == NewRow(opt, now)
    <3>1. opt \in Option OBVIOUS
    <3>2. row \in Row /\ row.last = now /\ row.from = now BY <1>2, <3>1 DEF NewRow, Row
    <3>3. sched' = Upserted(s, row) /\ runs' = runs BY <2>1 DEF Create
    <3> HIDE DEF row
    <3> QED BY <1>4, <1>5, <3>2, <3>3
  <2>2. CASE Pause(s) BY <1>4, <1>6, <2>2 DEF Pause
  <2>3. CASE Resume(s) BY <1>4, <1>6, <2>3 DEF Resume
  <2>4. CASE DeleteSchedule(s)
    <3>1. sched' = [sched EXCEPT ![s] = Nil] /\ runs' = runs
      BY <2>4 DEF DeleteSchedule, Removed
    <3> QED BY <1>1, <1>4, <3>1 DEF TypeInv, Same
  <2>5. CASE Trigger(s) BY <1>3, <1>4, <2>5 DEF Trigger
  <2>6. ASSUME NEW opt \in Options[s], NEW status \in {"ACTIVE", "PAUSED"},
               Register(s, opt, status)
        PROVE  Table /\ Longer
    <3> DEFINE row == [NewRow(opt, now) EXCEPT !.status = status]
    <3>3. opt \in Option OBVIOUS
    <3>1. row \in Row /\ row.last = now /\ row.from = now BY <1>2, <3>3 DEF NewRow, Row
    <3>2. sched' = Upserted(s, row) /\ runs' = runs BY <2>6 DEF Register
    <3> HIDE DEF row
    <3> QED BY <1>4, <1>5, <3>1, <3>2
  <2>7. ASSUME NEW span \in Spans, BackfillSchedule(s, span[1], span[2])
        PROVE  Table /\ Longer
    <3> DEFINE more == {t \in sched[s].opt.slots : span[1] < t /\ t <= span[2]}
    <3>1. sched' = sched /\ runs' = [runs EXCEPT ![s] = runs[s] \cup more]
      BY <2>7 DEF BackfillSchedule
    <3>2. more \subseteq Nat
      <4>1. sched[s] \in Row BY <1>1, <2>7 DEF TypeInv, BackfillSchedule, Known
      <4> QED BY <4>1 DEF Row, Option
    <3> HIDE DEF more
    <3>3. Longer BY <1>1, <3>1, <3>2 DEF TypeInv
    <3> QED BY <1>3, <3>1, <3>3
  <2> QED BY <2>1, <2>2, <2>3, <2>4, <2>5, <2>6, <2>7
<1> QED BY <1>2, <1>7, TableChanges
-----------------------------------------------------------------------------
\* Every step keeps the invariant.
LEMMA NextHolds == IInv /\ [Next]_vars => IInv'
<1> SUFFICES ASSUME IInv, [Next]_vars PROVE IInv' OBVIOUS
<1>1. CASE UNCHANGED vars
  BY <1>1 DEF vars, IInv, TypeInv, RowsPast, NoSlotLost, PassInv, PassPast, ReadTells,
              Tells, DueTells, RowRead, Turn
<1>2. ASSUME NEW p \in Process, Loop(p) PROVE IInv'
  <2>1. CASE List(p) BY <2>1, ListHolds
  <2>2. CASE ReadClock(p) BY <2>2, ReadClockHolds
  <2>3. CASE LookAt(p) BY <2>3, LookAtHolds
  <2>4. CASE PassOver(p) BY <2>4, PassOverHolds
  <2>5. CASE Advance(p) BY <2>5, AdvanceHolds
  <2>6. CASE Sleep(p) BY <2>6, GivenUp DEF Sleep
  <2>7. ASSUME NEW t \in pass[p].due, Fire(p, t) PROVE IInv' BY <2>7, FireHolds
  <2>8. ASSUME NEW t \in pass[p].due, Fail(p, t) PROVE IInv' BY <2>8, GivenUp DEF Fail
  <2> QED BY <1>2, <2>1, <2>2, <2>3, <2>4, <2>5, <2>6, <2>7, <2>8 DEF Loop
<1>3. ASSUME NEW p \in Process, Crash(p) PROVE IInv' BY <1>3, GivenUp DEF Crash
<1>4. CASE Tick
  <2>1. now \in Nat /\ now' = now + 1 /\ UNCHANGED <<sched, runs, pass>>
    BY <1>4 DEF Tick, IInv, TypeInv
  <2> QED BY <2>1, TableChanges DEF IInv, TypeInv, Same
<1>5. ASSUME NEW s \in Schedule,
             \/ Pause(s) \/ Resume(s) \/ DeleteSchedule(s) \/ Trigger(s)
             \/ \E opt \in Options[s] :
                  Create(s, opt) \/ \E status \in {"ACTIVE", "PAUSED"} : Register(s, opt, status)
             \/ \E span \in Spans : BackfillSchedule(s, span[1], span[2])
      PROVE  IInv'
  BY <1>5, CommandHolds
<1> QED BY <1>1, <1>2, <1>3, <1>4, <1>5 DEF Next

\* last_fired_at never passes a slot that was not enqueued, however many
\* processes go through the schedules, wherever they crash, and whatever the
\* client does to a schedule meanwhile: but for what a pass passes over in a row
\* that was replaced by one with other options since the pass read it
\* (run_scheduler_once, upsert_schedule).
THEOREM NoSlotIsLost == Spec => []NoSlotLost
<1>1. IInv => NoSlotLost BY DEF IInv
<1> QED BY <1>1, InitHolds, NextHolds, PTL DEF Spec
=============================================================================
