--------------------------- MODULE WaitingCalls_proofs ---------------------------
(***************************************************************************)
(* Proofs about two calls that wait for another workflow, debounce_workflow*)
(* and read_stream: two specifications with nothing in common, in turn.    *)
(*                                                                         *)
(* A debounced call that returns has put its input into the debouncer it   *)
(* returned through, the last input of a debouncer that ends reaches the   *)
(* target unless a stated reason keeps it (InputCarried), and the target is*)
(* started within its window (LaunchWindow), for any calls, choices of     *)
(* target ids, delays, timeouts and crashes.  The invariant DInv says where*)
(* an execution is in terms of its journal alone: which operation comes    *)
(* next (Stage), which input is the last (LastBy) and when the target is   *)
(* due (DueBy).  An execution that goes on and one that replays are the    *)
(* same then, and every journal is one that executions leave (Kept).       *)
(*                                                                         *)
(* Readers miss no value of a stream, read none twice and stop at the row  *)
(* that closes it (InOrder), for any number of readers, writers and        *)
(* entries.  The invariant RInv says that a reader's offset is where the   *)
(* values it has read end; rows are only appended.                         *)
(***************************************************************************)
EXTENDS Debouncer, StreamReader, WellFoundedInduction, TLAPS

(* The debouncer's journal.                                                *)

\* What stands in it.
Noted == [op : {"now", "recv", "ack"}, at : Nat, msg : Caller \cup {Nil}]

\* The messages among its first n entries, and the last input.
TakenBy(j, n) == {k \in 1 .. n : j[k].op = "recv" /\ j[k].msg # Nil}
LastBy(j, n, by) == IF TakenBy(j, n) = {} THEN by ELSE j[Max(TakenBy(j, n))].msg

\* The time at which the target is due after n entries.
LoopBy(j, n) == IF TakenBy(j, n) = {} THEN 1 ELSE Max(TakenBy(j, n)) - 1
DueBy(j, n) == Capped(j[LoopBy(j, n)].at + Delay, j[1].at + Timeout)

\* The operation that comes after n entries.
Stage(j, n) ==
    IF n = 0 THEN "start"
    ELSE IF n = 1 THEN "loop"
    ELSE IF j[n].op = "now" THEN IF DueBy(j, n) <= j[n].at THEN "launch" ELSE "recv"
    ELSE IF j[n].op = "recv" THEN IF j[n].msg = Nil THEN "launch" ELSE "ack"
    ELSE "loop"

\* A journal that executions leave: nothing follows the target's launch.
Kept(j, n) ==
    /\ Stage(j, n) # "launch"
    /\ Stage(j, n) \in {"start", "loop"} => j[n + 1].op = "now"
    /\ Stage(j, n) = "recv" => j[n + 1].op = "recv"
    /\ Stage(j, n) = "ack" => j[n + 1].op = "ack"
Journal(j, time) ==
    /\ \A n \in 0 .. Len(j) - 1 : Kept(j, n)
    /\ \A n \in 1 .. Len(j) : j[n].at <= time
-----------------------------------------------------------------------------
(* The invariant.                                                          *)

Launching == {"launch", "inline", "end", "failed"}
PC == {"off", "start", "loop", "recv", "ack"} \cup Launching
Execution == [pc : PC, fid : Nat, cur : Caller \cup {Nil}, max : Nat, at : Nat, seen : Nat,
              deadline : Nat, took : Caller \cup {Nil}]
Debouncing == [by : Caller, status : {"ACTIVE", "ERROR", "SUCCESS"}, mail : Seq(Caller),
               acks : SUBSET Caller, journal : Seq(Noted), exec : Execution,
               replayed : BOOLEAN, gave : [input : Caller \cup {Nil}, at : Nat]]
Calling == [pc : {"enqueue", "find", "send", "wait", "done"}, via : Nat, waits : Nat]
Started == [status : {"ABSENT", "ACTIVE", "ENDED"}, input : Caller \cup {Nil}, by : Nat]

TypeInv ==
    /\ options \in [mode : Modes, id : Namings]
    /\ now \in Nat
    /\ deb \in Seq(Debouncing)
    /\ call \in [Caller -> Calling]
    /\ target \in [Target -> Started]

InputsBy(d) == {d.by} \cup {d.journal[n].msg : n \in TakenBy(d.journal, Len(d.journal))}

\* An execution is where its journal says.
OnTrack(j, e, by) ==
    /\ e.fid <= Len(j)
    /\ Stage(j, e.fid) = IF e.pc \in Launching THEN "launch" ELSE e.pc
    /\ e.cur = LastBy(j, e.fid, by)
    /\ e.pc # "start" => e.max = j[1].at + Timeout /\ e.at = DueBy(j, e.fid)
    /\ e.pc = "recv" => e.seen = j[e.fid].at /\ e.deadline >= e.at
    /\ e.took # Nil => e.pc = "recv" /\ e.fid = Len(j)

\* It launches the target when it is due, and if it was not interrupted no
\* later than debounce_timeout allows.
OnTime(j, e, replayed, time) ==
    /\ e.pc \in Launching => e.at <= time
    /\ ~replayed =>
          /\ e.fid = Len(j)
          /\ e.pc \in {"loop", "recv", "ack", "launch"} => time <= e.max
          /\ e.pc = "recv" => e.deadline = e.at

Sound(d, time) ==
    /\ Journal(d.journal, time)
    /\ d.acks \subseteq InputsBy(d)
    /\ d.exec.pc # "off" =>
          /\ d.status = "ACTIVE"
          /\ OnTrack(d.journal, d.exec, d.by)
          /\ OnTime(d.journal, d.exec, d.replayed, time)

\* A target's row was inserted by a debouncer, at the end of its journal.
StartedBy(t, names, row, d) ==
    /\ names[d.by] = t /\ Stage(d.journal, Len(d.journal)) = "launch"
    /\ row.input = LastBy(d.journal, Len(d.journal), d.by)

\* One that is past the launch.
Past(d) == d.status = "SUCCESS" \/ d.exec.pc \in {"inline", "end", "failed"}

\* What it started a target with, at the end of its journal.
Gave(d) ==
    LET j == d.journal
        n == Len(j) IN
    /\ Stage(j, n) = "launch"
    /\ d.gave.input = LastBy(j, n, d.by)
    /\ d.gave.at >= DueBy(j, n)
    /\ ~d.replayed => d.gave.at <= j[1].at + Timeout

\* Why it failed.
Excused(d, mode) ==
    \/ mode = "inline" /\ d.gave # NotYet
    \/ mode = "dedup"
    \/ /\ d.replayed /\ d.journal # <<>>
       /\ d.journal[Len(d.journal)].op = "recv" /\ d.journal[Len(d.journal)].msg = Nil

History(d, mode) ==
    /\ d.gave # NotYet => Gave(d)
    /\ mode = "inline" /\ Past(d) => d.gave # NotYet
    /\ d.exec.pc \in {"inline", "failed"} => mode = "inline"
    /\ d.status = "ERROR" => Excused(d, mode)

CallOK(c) ==
    /\ call[c].pc \in {"send", "wait", "done"} => call[c].via \in DOMAIN deb
    /\ call[c].pc = "done" => c \in InputsBy(deb[call[c].via])

TargetOK(t) ==
    target[t].status # "ABSENT" =>
       /\ target[t].by \in DOMAIN deb
       /\ StartedBy(t, options.id, target[t], deb[target[t].by])

\* Only a call that is made again has a second debouncer.
Once(i) ==
    deb[i].by \notin Durable =>
       /\ call[deb[i].by].pc = "done"
       /\ \A k \in DOMAIN deb : deb[k].by = deb[i].by => k = i

DInv ==
    /\ TypeInv
    /\ \A c \in Caller : CallOK(c)
    /\ \A t \in Target : TargetOK(t)
    /\ \A i \in DOMAIN deb :
          /\ Sound(deb[i], now) /\ Once(i) /\ History(deb[i], options.mode)
          /\ Past(deb[i]) => target[options.id[deb[i].by]].status # "ABSENT"
-----------------------------------------------------------------------------
(* Numbers.                                                                *)

\* A set of numbers has a least element, ...
LEMMA LeastOf ==
    ASSUME NEW S, S \subseteq Nat, S # {} PROVE \E x \in S : \A y \in S : x <= y
<1> DEFINE R == OpToRel(<, Nat)
<1>1. IsWellFoundedOn(R, Nat) BY NatLessThanWellFounded
<1>2. \A x, y \in Nat : <<x, y>> \in R <=> x < y BY DEF OpToRel
<1> HIDE DEF R
<1>3. PICK x \in S : \A y \in S : ~ (<<y, x>> \in R) BY <1>1, WFMin
<1>4. ASSUME NEW y \in S PROVE x <= y
  <2>1. x \in Nat /\ y \in Nat OBVIOUS
  <2>2. ~ (<<y, x>> \in R) BY <1>3
  <2>3. ~ (y < x) BY <1>2, <2>1, <2>2
  <2> QED BY <2>1, <2>3
<1> QED BY <1>4

\* ... and, if it is bounded, a greatest one.
LEMMA GreatestOf ==
    ASSUME NEW S, S \subseteq Nat, S # {}, NEW n \in Nat, \A x \in S : x <= n
    PROVE  Max(S) \in S /\ \A y \in S : y <= Max(S)
<1> DEFINE T == {m \in Nat : \A x \in S : x <= m}
<1>1. T \subseteq Nat /\ n \in T OBVIOUS
<1>2. PICK m \in T : \A k \in T : m <= k BY <1>1, LeastOf
<1>3. m \in Nat /\ \A x \in S : x <= m OBVIOUS
<1>4. m \in S
  <2> SUFFICES ASSUME m \notin S PROVE FALSE OBVIOUS
  <2>1. PICK x \in S : TRUE OBVIOUS
  <2>2. x \in Nat /\ x <= m /\ x # m BY <1>3
  <2>3. m - 1 \in Nat BY <1>3, <2>2
  <2>4. ASSUME NEW y \in S PROVE y <= m - 1
    <3>1. y \in Nat /\ y <= m /\ y # m BY <1>3
    <3> QED BY <1>3, <3>1
  <2>5. m - 1 \in T BY <2>3, <2>4
  <2>6. m <= m - 1 BY <1>2, <2>5
  <2> QED BY <1>3, <2>6
<1>5. \E x \in S : \A y \in S : x >= y
  <2>1. \A y \in S : m >= y
    <3> SUFFICES ASSUME NEW y \in S PROVE m >= y OBVIOUS
    <3>1. y \in Nat /\ y <= m BY <1>3
    <3> QED BY <1>3, <3>1
  <2> QED BY <1>4, <2>1
<1>6. Max(S) \in S /\ \A y \in S : Max(S) >= y BY <1>5 DEF Max
<1> QED
  <2> SUFFICES ASSUME NEW y \in S PROVE y <= Max(S) BY <1>6
  <2>1. y \in Nat /\ Max(S) \in Nat /\ Max(S) >= y BY <1>6
  <2> QED BY <2>1

\* The greatest one is the only one.
LEMMA GreatestIs ==
    ASSUME NEW S, S \subseteq Nat, NEW m \in S, \A x \in S : x <= m
    PROVE  Max(S) = m
<1>1. m \in Nat OBVIOUS
<1>2. Max(S) \in S /\ m <= Max(S) BY <1>1, GreatestOf
<1>3. Max(S) \in Nat /\ Max(S) <= m BY <1>2
<1> QED BY <1>1, <1>2, <1>3

\* The earlier of two times.
LEMMA CappedIs ==
    ASSUME NEW t \in Nat, NEW max \in Nat
    PROVE  /\ Capped(t, max) \in Nat
           /\ Capped(t, max) <= t /\ Capped(t, max) <= max
<1>1. \E x \in {t, max} : \A y \in {t, max} : x <= y
  <2>1. CASE t <= max
    <3>1. \A y \in {t, max} : t <= y BY <2>1
    <3> QED BY <3>1
  <2>2. CASE max <= t
    <3>1. \A y \in {t, max} : max <= y BY <2>2
    <3> QED BY <3>1
  <2> QED BY <2>1, <2>2
<1>2. Capped(t, max) \in {t, max} /\ \A y \in {t, max} : Capped(t, max) <= y
  BY <1>1 DEF Capped, Min
<1> QED BY <1>2

LEMMA ConstantsAre ==
    /\ Delay \in Nat /\ Timeout \in Nat /\ Durable \subseteq Caller /\ Nil \notin Caller
    /\ Namings \subseteq [Caller -> Target]
BY DebouncerAssumption
-----------------------------------------------------------------------------
(* What a journal says, as it is gone through and as it grows.             *)

\* The messages taken are those of callers, and there is a last one.
LEMMA TakenIs ==
    ASSUME NEW j \in Seq(Noted), NEW n \in 0 .. Len(j)
    PROVE  /\ TakenBy(j, n) \subseteq 1 .. n
           /\ \A k \in TakenBy(j, n) : j[k].msg \in Caller
           /\ TakenBy(j, n) # {} =>
                 /\ Max(TakenBy(j, n)) \in TakenBy(j, n)
                 /\ \A k \in TakenBy(j, n) : k <= Max(TakenBy(j, n))
<1>1. Len(j) \in Nat /\ n \in Nat /\ n <= Len(j) OBVIOUS
<1>2. TakenBy(j, n) \subseteq 1 .. n BY DEF TakenBy
<1>3. ASSUME NEW k \in TakenBy(j, n) PROVE j[k].msg \in Caller
  <2>1. k \in 1 .. Len(j) /\ j[k].msg # Nil BY <1>1 DEF TakenBy
  <2>2. j[k] \in Noted BY <2>1
  <2> QED BY <2>1, <2>2 DEF Noted
<1>4. TakenBy(j, n) \subseteq Nat /\ \A k \in TakenBy(j, n) : k <= n BY <1>1, <1>2
<1> HIDE DEF TakenBy
<1> QED BY <1>1, <1>2, <1>3, <1>4, GreatestOf

\* An input is a caller's.
LEMMA LastIs ==
    ASSUME NEW j \in Seq(Noted), NEW n \in 0 .. Len(j), NEW by \in Caller
    PROVE  /\ LastBy(j, n, by) \in Caller
           /\ LastBy(j, n, by) \in {by} \cup {j[k].msg : k \in TakenBy(j, n)}
BY TakenIs DEF LastBy

\* The due time, within debounce_timeout of the beginning.
LEMMA DueIs ==
    ASSUME NEW j \in Seq(Noted), NEW n \in 1 .. Len(j), j[1].op = "now"
    PROVE  /\ LoopBy(j, n) \in 1 .. n
           /\ DueBy(j, n) \in Nat /\ DueBy(j, n) <= j[1].at + Timeout
<1>1. Len(j) \in Nat /\ n \in Nat /\ 1 <= n /\ n <= Len(j) /\ n \in 0 .. Len(j) OBVIOUS
<1>2. LoopBy(j, n) \in 1 .. n
  <2>1. CASE TakenBy(j, n) = {} BY <1>1, <2>1 DEF LoopBy
  <2>2. CASE TakenBy(j, n) # {}
    <3>1. PICK m : m = Max(TakenBy(j, n)) OBVIOUS
    <3>2. m \in TakenBy(j, n) BY <1>1, <2>2, <3>1, TakenIs
    <3>3. m \in 1 .. n /\ m # 1 BY <3>2 DEF TakenBy
    <3>4. LoopBy(j, n) = m - 1 BY <2>2, <3>1 DEF LoopBy
    <3> QED BY <1>1, <3>3, <3>4
  <2> QED BY <2>1, <2>2
<1>3. \A k \in 1 .. Len(j) : j[k].at \in Nat
  <2>1. \A k \in 1 .. Len(j) : j[k] \in Noted OBVIOUS
  <2> QED BY <2>1 DEF Noted
<1>4. 1 \in 1 .. Len(j) /\ LoopBy(j, n) \in 1 .. Len(j) BY <1>1, <1>2
<1>5. j[LoopBy(j, n)].at + Delay \in Nat /\ j[1].at + Timeout \in Nat
  BY <1>3, <1>4, ConstantsAre
<1> QED BY <1>2, <1>5, CappedIs DEF DueBy

\* An entry that is no message changes neither input nor time.
LEMMA NoMessage ==
    ASSUME NEW j \in Seq(Noted), NEW n \in 0 .. Len(j), n < Len(j),
           j[n + 1].op # "recv" \/ j[n + 1].msg = Nil
    PROVE  /\ TakenBy(j, n + 1) = TakenBy(j, n)
           /\ \A by : LastBy(j, n + 1, by) = LastBy(j, n, by)
           /\ LoopBy(j, n + 1) = LoopBy(j, n) /\ DueBy(j, n + 1) = DueBy(j, n)
<1>1. TakenBy(j, n + 1) = TakenBy(j, n)
  <2>1. n \in Nat OBVIOUS
  <2>2. \A k : k \in 1 .. n + 1 <=> k \in 1 .. n \/ k = n + 1 BY <2>1
  <2> QED BY <2>2 DEF TakenBy
<1> QED BY <1>1 DEF LastBy, LoopBy, DueBy

\* A message is the input, and the delay counts from the loop before it.
LEMMA Message ==
    ASSUME NEW j \in Seq(Noted), NEW n \in 0 .. Len(j), n < Len(j),
           j[n + 1].op = "recv", j[n + 1].msg # Nil
    PROVE  /\ \A by : LastBy(j, n + 1, by) = j[n + 1].msg
           /\ DueBy(j, n + 1) = Capped(j[n].at + Delay, j[1].at + Timeout)
<1>1. n \in Nat OBVIOUS
<1>2. n + 1 \in TakenBy(j, n + 1) BY <1>1 DEF TakenBy
<1>3. TakenBy(j, n + 1) \subseteq Nat /\ \A k \in TakenBy(j, n + 1) : k <= n + 1
  BY <1>1 DEF TakenBy
<1>4. Max(TakenBy(j, n + 1)) = n + 1 BY <1>2, <1>3, GreatestIs
<1>5. LoopBy(j, n + 1) = n BY <1>1, <1>2, <1>4 DEF LoopBy
<1> QED BY <1>2, <1>4, <1>5 DEF LastBy, DueBy

\* What the first entries say does not depend on those that follow.
LEMMA Prefix ==
    ASSUME NEW j \in Seq(Noted), NEW k \in Seq(Noted), Len(j) <= Len(k),
           \A m \in 1 .. Len(j) : k[m] = j[m], Len(j) >= 1 => j[1].op = "now",
           NEW n \in 0 .. Len(j)
    PROVE  /\ TakenBy(k, n) = TakenBy(j, n)
           /\ \A by : LastBy(k, n, by) = LastBy(j, n, by)
           /\ n >= 1 => DueBy(k, n) = DueBy(j, n)
           /\ Stage(k, n) = Stage(j, n)
<1>1. Len(j) \in Nat /\ n \in Nat /\ n <= Len(j) OBVIOUS
<1>2. \A m \in 1 .. n : m \in 1 .. Len(j) BY <1>1
<1>3. TakenBy(k, n) = TakenBy(j, n) BY <1>2 DEF TakenBy
<1>4. \A by : LastBy(k, n, by) = LastBy(j, n, by)
  <2>1. CASE TakenBy(j, n) = {} BY <1>3, <2>1 DEF LastBy
  <2>2. CASE TakenBy(j, n) # {}
    <3>1. Max(TakenBy(j, n)) \in 1 .. Len(j) BY <1>2, <2>2, TakenIs
    <3> QED BY <1>3, <3>1 DEF LastBy
  <2> QED BY <2>1, <2>2
<1>5. ASSUME n >= 1 PROVE DueBy(k, n) = DueBy(j, n)
  <2>1. n \in 1 .. Len(j) /\ 1 \in 1 .. Len(j) /\ j[1].op = "now" BY <1>1, <1>5
  <2>2. LoopBy(j, n) \in 1 .. Len(j) BY <1>2, <2>1, DueIs
  <2>3. LoopBy(k, n) = LoopBy(j, n) BY <1>3 DEF LoopBy
  <2> QED BY <2>1, <2>2, <2>3 DEF DueBy
<1>6. Stage(k, n) = Stage(j, n)
  <2>1. CASE n = 0 BY <2>1 DEF Stage
  <2>2. CASE n >= 1
    <3>1. k[n] = j[n] BY <1>1, <2>2
    <3> QED BY <1>5, <2>2, <3>1 DEF Stage
  <2> QED BY <1>1, <2>1, <2>2
<1> QED BY <1>3, <1>4, <1>5, <1>6

\* A journal begins with the time.
LEMMA Opens ==
    ASSUME NEW j \in Seq(Noted), NEW time, Journal(j, time), Len(j) >= 1
    PROVE  j[1].op = "now"
<1>1. 0 \in 0 .. Len(j) - 1 /\ 0 + 1 = 1 OBVIOUS
<1>2. Kept(j, 0) BY <1>1 DEF Journal
<1> QED BY <1>1, <1>2 DEF Kept, Stage

\* Nothing follows the launch.
LEMMA LaunchIsLast ==
    ASSUME NEW j \in Seq(Noted), NEW time, Journal(j, time), NEW n \in 0 .. Len(j),
           Stage(j, n) = "launch"
    PROVE  n = Len(j)
<1>1. CASE n < Len(j)
  <2>1. n \in 0 .. Len(j) - 1 BY <1>1
  <2> QED BY <2>1 DEF Journal, Kept
<1> QED BY <1>1

\* The entry of the next operation.
OpOf(stage) == IF stage \in {"start", "loop"} THEN "now" ELSE stage
Grown(j, k, x, time) ==
    /\ k \in Seq(Noted) /\ Len(k) = Len(j) + 1 /\ k[Len(j) + 1] = x
    /\ \A m \in 1 .. Len(j) : k[m] = j[m]
    /\ Journal(k, time)
    /\ \A n \in 0 .. Len(j) :
          /\ TakenBy(k, n) = TakenBy(j, n)
          /\ \A by : LastBy(k, n, by) = LastBy(j, n, by)
          /\ n >= 1 => DueBy(k, n) = DueBy(j, n)
          /\ Stage(k, n) = Stage(j, n)

LEMMA Grows ==
    ASSUME NEW j \in Seq(Noted), NEW time, Journal(j, time), NEW x \in Noted, x.at <= time,
           Stage(j, Len(j)) # "launch", x.op = OpOf(Stage(j, Len(j))),
           NEW k, k = Append(j, x)
    PROVE  Grown(j, k, x, time)
<1>1. /\ k \in Seq(Noted) /\ Len(k) = Len(j) + 1 /\ k[Len(j) + 1] = x
      /\ \A m \in 1 .. Len(j) : k[m] = j[m]
  OBVIOUS
<1>2. Len(j) \in Nat OBVIOUS
<1>3. ASSUME NEW n \in 0 .. Len(j)
      PROVE  /\ TakenBy(k, n) = TakenBy(j, n)
             /\ \A by : LastBy(k, n, by) = LastBy(j, n, by)
             /\ n >= 1 => DueBy(k, n) = DueBy(j, n)
             /\ Stage(k, n) = Stage(j, n)
  <2>1. Len(j) <= Len(k) /\ (Len(j) >= 1 => j[1].op = "now") BY <1>1, <1>2, Opens
  <2> QED BY <1>1, <2>1, Prefix
<1>4. ASSUME NEW n \in 0 .. Len(k) - 1 PROVE Kept(k, n)
  <2>1. n \in 0 .. Len(j) BY <1>1, <1>2
  <2>2. Stage(k, n) = Stage(j, n) BY <1>3, <2>1
  <2>3. CASE n = Len(j)
    <3>1. k[n + 1] = x BY <1>1, <2>3
    <3> QED BY <2>2, <2>3, <3>1 DEF Kept, OpOf
  <2>4. CASE n # Len(j)
    <3>1. n \in 0 .. Len(j) - 1 /\ n + 1 \in 1 .. Len(j) BY <1>2, <2>1, <2>4
    <3>2. Kept(j, n) /\ k[n + 1] = j[n + 1] BY <1>1, <3>1 DEF Journal
    <3> QED BY <2>2, <3>2 DEF Kept
  <2> QED BY <2>3, <2>4
<1>5. ASSUME NEW n \in 1 .. Len(k) PROVE k[n].at <= time
  <2>1. n \in 1 .. Len(j) \/ n = Len(j) + 1 BY <1>1, <1>2
  <2> QED BY <1>1, <2>1 DEF Journal
<1> QED BY <1>1, <1>3, <1>4, <1>5 DEF Journal, Grown
-----------------------------------------------------------------------------
(* How an execution goes on by one operation.                              *)

\* The entry of that operation is recorded, or is recorded now.
Goes(j, fid, op, k, x, time) ==
    \/ fid < Len(j) /\ x = j[fid + 1] /\ k = j
    \/ fid = Len(j) /\ x \in Noted /\ x.at <= time /\ x.op = op /\ k = Append(j, x)

\* The execution after each of its operations.
Numbered(e) == [e EXCEPT !.fid = @ + 1]
Begun(e, t) == Numbered([e EXCEPT !.pc = "loop", !.max = t + Timeout,
                                  !.at = Capped(t + Delay, t + Timeout)])
Looped(e, t, time) ==
    Numbered(IF e.at <= t THEN [e EXCEPT !.pc = "launch"]
             ELSE [e EXCEPT !.pc = "recv", !.seen = t, !.deadline = time + (e.at - t)])
TookMessage(e, msg) == Numbered(Heard(e, msg))
TimeUp(e) == Numbered([e EXCEPT !.pc = "launch"])
Acknowledged(e) == Numbered([e EXCEPT !.pc = "loop"])

\* An operation of the loop.
LEMMA StageIs ==
    ASSUME NEW j, NEW n \in Nat
    PROVE  /\ Stage(j, n) = "start" => n = 0
           /\ Stage(j, n) \in {"recv", "ack", "launch"} => n >= 2
           /\ Stage(j, n) # "start" => n >= 1
BY DEF Stage

\* What one knows of it then.
Gone(j, e, by, k, x, time) ==
    /\ k \in Seq(Noted) /\ Journal(k, time)
    /\ e.fid \in Nat /\ e.fid < Len(k) /\ e.fid \in 0 .. Len(k)
    /\ Len(j) \in Nat /\ Len(k) \in Nat /\ Len(j) <= Len(k)
    /\ \A n \in 1 .. Len(j) : k[n] = j[n]
    /\ k[e.fid + 1] = x /\ x \in Noted /\ x.at <= time /\ x.op = OpOf(e.pc)
    /\ LastBy(k, e.fid, by) = e.cur
    /\ e.pc # "start" =>
          /\ e.fid >= 1 /\ k[1] = j[1] /\ k[1].op = "now"
          /\ e.at = DueBy(k, e.fid) /\ e.max = k[1].at + Timeout
    /\ e.fid = Len(j) => Len(k) = e.fid + 1
    /\ TakenBy(j, Len(j)) \subseteq TakenBy(k, Len(k))

LEMMA GoesOn ==
    ASSUME NEW j \in Seq(Noted), NEW time \in Nat, Journal(j, time), NEW e \in Execution,
           NEW by \in Caller, OnTrack(j, e, by), e.pc \in {"start", "loop", "recv", "ack"},
           NEW k, NEW x, Goes(j, e.fid, OpOf(e.pc), k, x, time)
    PROVE  Gone(j, e, by, k, x, time)
<1>1. e.fid \in Nat /\ Len(j) \in Nat /\ e.fid <= Len(j) /\ e.fid \in 0 .. Len(j)
  BY DEF Execution, OnTrack
<1>2. Stage(j, e.fid) = e.pc BY DEF OnTrack, Launching
<1>3. e.pc # "start" => e.fid >= 1 BY <1>1, <1>2, StageIs
<1>4. e.cur = LastBy(j, e.fid, by) BY DEF OnTrack
<1>5. e.pc # "start" => e.max = j[1].at + Timeout /\ e.at = DueBy(j, e.fid) BY DEF OnTrack
<1>6. e.fid >= 1 => j[1].op = "now" BY <1>1, Opens
<1>7. CASE e.fid < Len(j)
  <2>1. x = j[e.fid + 1] /\ k = j BY <1>1, <1>7 DEF Goes
  <2>2. e.fid \in 0 .. Len(j) - 1 /\ e.fid + 1 \in 1 .. Len(j) BY <1>1, <1>7
  <2>3. Kept(j, e.fid) /\ j[e.fid + 1].at <= time BY <2>2 DEF Journal
  <2>4. x.op = OpOf(e.pc) BY <1>2, <2>1, <2>3 DEF Kept, OpOf
  <2>5. x \in Noted BY <2>1, <2>2
  <2> QED BY <1>1, <1>3, <1>4, <1>5, <1>6, <1>7, <2>1, <2>3, <2>4, <2>5 DEF Gone
<1>8. CASE e.fid = Len(j)
  <2>1. x \in Noted /\ x.at <= time /\ x.op = OpOf(e.pc) /\ k = Append(j, x)
    BY <1>1, <1>8 DEF Goes
  <2>2. Stage(j, Len(j)) # "launch" /\ x.op = OpOf(Stage(j, Len(j))) BY <1>2, <1>8, <2>1
  <2>3. Grown(j, k, x, time) BY <2>1, <2>2, Grows
  <2>4. LastBy(k, e.fid, by) = e.cur /\ (e.fid >= 1 => DueBy(k, e.fid) = DueBy(j, e.fid))
    BY <1>1, <1>4, <2>3 DEF Grown
  <2>5. e.fid >= 1 => k[1] = j[1] BY <1>1, <2>3 DEF Grown
  <2>6. TakenBy(j, Len(j)) \subseteq TakenBy(k, Len(k))
    <3>1. TakenBy(k, Len(j)) = TakenBy(j, Len(j)) BY <1>1, <1>8, <2>3 DEF Grown
    <3>2. TakenBy(k, Len(j)) \subseteq TakenBy(k, Len(k)) BY <1>1, <2>3 DEF TakenBy, Grown
    <3> QED BY <3>1, <3>2
  <2> QED BY <1>1, <1>3, <1>5, <1>6, <1>8, <2>1, <2>3, <2>4, <2>5, <2>6 DEF Grown, Gone
<1> QED BY <1>1, <1>7, <1>8

\* The start time (durable_now_step before the loop).
LEMMA StartGoes ==
    ASSUME NEW j \in Seq(Noted), NEW time \in Nat, Journal(j, time), NEW e \in Execution,
           NEW by \in Caller, OnTrack(j, e, by), NEW replayed, OnTime(j, e, replayed, time),
           e.pc = "start", NEW k, NEW x, Goes(j, e.fid, "now", k, x, time),
           e.fid = Len(j) => x.at = time,
           NEW v, v = x.at, NEW f, f = Begun(e, v)
    PROVE  f \in Execution /\ OnTrack(k, f, by) /\ OnTime(k, f, replayed, time)
<1>0. f = Begun(e, x.at) OBVIOUS
<1>1. /\ Goes(j, e.fid, OpOf(e.pc), k, x, time) /\ OpOf(e.pc) = "now"
      /\ e.pc \in {"start", "loop", "recv", "ack"}
  BY DEF OpOf
<1>20. Gone(j, e, by, k, x, time) BY <1>1, GoesOn
<1>2. /\ k \in Seq(Noted) /\ e.fid \in Nat /\ e.fid < Len(k) /\ e.fid \in 0 .. Len(k)
      /\ Len(k) \in Nat /\ k[e.fid + 1] = x /\ x \in Noted /\ x.op = "now"
      /\ LastBy(k, e.fid, by) = e.cur /\ (e.fid = Len(j) => Len(k) = e.fid + 1)
  BY <1>1, <1>20 DEF Gone
<1>3. e.fid = 0 BY <1>2, StageIs DEF OnTrack, Launching
<1>4. e.took = Nil BY DEF OnTrack
<1>5. x.at \in Nat /\ x.at + Timeout \in Nat /\ x.at + Delay \in Nat
  BY <1>2, ConstantsAre DEF Noted
<1>6. PICK due : due = Capped(x.at + Delay, x.at + Timeout) OBVIOUS
<1>7. due \in Nat BY <1>5, <1>6, CappedIs
<1>8. /\ f \in Execution /\ f.pc = "loop" /\ f.max = x.at + Timeout /\ f.at = due
      /\ f.fid = 1 /\ f.cur = e.cur /\ f.took = Nil
  <2>1. e.fid + 1 = 1 /\ 1 \in Nat BY <1>3
  <2>2. "loop" \in PC BY DEF PC
  <2>3. PICK e1 : e1 = [e EXCEPT !.pc = "loop", !.max = x.at + Timeout, !.at = due] OBVIOUS
  <2>4. /\ e1 \in Execution /\ e1.pc = "loop" /\ e1.max = x.at + Timeout /\ e1.at = due
        /\ e1.fid = e.fid /\ e1.cur = e.cur /\ e1.took = Nil
    BY <1>4, <1>5, <1>7, <2>2, <2>3, Zenon DEF Execution
  <2>5. f = [e1 EXCEPT !.fid = e1.fid + 1] BY <1>6, <2>3, <1>0, Zenon DEF Begun, Numbered
  <2>6. f = [e1 EXCEPT !.fid = 1] BY <2>1, <2>4, <2>5, Zenon
  <2> QED BY <2>1, <2>4, <2>6, Zenon DEF Execution
<1>9. TakenBy(k, 0 + 1) = TakenBy(k, 0) /\ LastBy(k, 0 + 1, by) = LastBy(k, 0, by)
  BY <1>2, <1>3, NoMessage
<1>10. TakenBy(k, 0) = {} BY DEF TakenBy
<1>11. k[1] = x BY <1>2, <1>3
<1>12. DueBy(k, 1) = due BY <1>6, <1>9, <1>10, <1>11 DEF DueBy, LoopBy
<1>13. OnTrack(k, f, by)
  <2>1. Stage(k, 1) = "loop" BY DEF Stage
  <2>2. f.fid <= Len(k) BY <1>2, <1>3, <1>8
  <2> QED BY <1>2, <1>3, <1>8, <1>9, <1>11, <1>12, <2>1, <2>2 DEF OnTrack, Launching
<1>14. OnTime(k, f, replayed, time)
  <2>1. ~replayed => f.fid = Len(k) /\ x.at = time BY <1>2, <1>3, <1>8 DEF OnTime
  <2>2. ~replayed => time <= f.max BY <1>5, <1>8, <2>1, ConstantsAre
  <2> QED BY <1>8, <2>1, <2>2 DEF OnTime, Launching
<1> QED BY <1>8, <1>13, <1>14

\* The time at the head of the loop: the target is due, or how long to wait.
LEMMA LoopGoes ==
    ASSUME NEW j \in Seq(Noted), NEW time \in Nat, Journal(j, time), NEW e \in Execution,
           NEW by \in Caller, OnTrack(j, e, by), NEW replayed, OnTime(j, e, replayed, time),
           e.pc = "loop", NEW k, NEW x, Goes(j, e.fid, "now", k, x, time),
           e.fid = Len(j) => x.at = time,
           NEW v, v = x.at, NEW f, f = Looped(e, v, time)
    PROVE  f \in Execution /\ OnTrack(k, f, by) /\ OnTime(k, f, replayed, time)
<1>0. f = Looped(e, x.at, time) OBVIOUS
<1>1. /\ Goes(j, e.fid, OpOf(e.pc), k, x, time) /\ OpOf(e.pc) = "now"
      /\ e.pc \in {"start", "loop", "recv", "ack"}
  BY DEF OpOf
<1>20. Gone(j, e, by, k, x, time) BY <1>1, GoesOn
<1>2. /\ k \in Seq(Noted) /\ e.fid \in Nat /\ e.fid < Len(k) /\ e.fid \in 0 .. Len(k)
      /\ Len(k) \in Nat /\ k[e.fid + 1] = x /\ x \in Noted /\ x.op = "now" /\ x.at <= time
      /\ LastBy(k, e.fid, by) = e.cur /\ (e.fid = Len(j) => Len(k) = e.fid + 1)
      /\ e.fid >= 1 /\ e.at = DueBy(k, e.fid) /\ e.max = k[1].at + Timeout
  BY <1>1, <1>20 DEF Gone
<1>3. e.took = Nil BY DEF OnTrack
<1>4. x.at \in Nat /\ e.at \in Nat /\ e.max \in Nat BY <1>2 DEF Noted, Execution
<1>5. DueBy(k, e.fid + 1) = e.at /\ LastBy(k, e.fid + 1, by) = e.cur BY <1>2, NoMessage
<1>6. e.fid + 1 \in Nat /\ e.fid + 1 <= Len(k) /\ e.fid + 1 # 0 /\ e.fid + 1 # 1 BY <1>2
<1>7. Stage(k, e.fid + 1) = IF e.at <= x.at THEN "launch" ELSE "recv"
  BY <1>2, <1>5, <1>6 DEF Stage
<1>8. ~replayed => e.fid = Len(j) /\ e.fid + 1 = Len(k) /\ x.at = time /\ time <= e.max
  BY <1>2 DEF OnTime
<1>9. "launch" \in PC /\ "recv" \in PC BY DEF PC, Launching
<1>10. CASE e.at <= x.at
  <2>1. /\ f \in Execution /\ f.pc = "launch" /\ f.max = e.max /\ f.at = e.at
        /\ f.fid = e.fid + 1 /\ f.cur = e.cur /\ f.took = Nil
    <3>1. PICK e1 : e1 = [e EXCEPT !.pc = "launch"] OBVIOUS
    <3>2. /\ e1 \in Execution /\ e1.pc = "launch" /\ e1.max = e.max /\ e1.at = e.at
          /\ e1.fid = e.fid /\ e1.cur = e.cur /\ e1.took = Nil
      BY <1>3, <1>9, <3>1, Zenon DEF Execution
    <3>3. f = [e1 EXCEPT !.fid = e1.fid + 1] BY <1>10, <3>1, <1>0, Zenon DEF Looped, Numbered
    <3>4. f = [e1 EXCEPT !.fid = e.fid + 1] BY <3>2, <3>3, Zenon
    <3> QED BY <1>6, <3>2, <3>4, Zenon DEF Execution
  <2>2. OnTrack(k, f, by)
    BY <1>2, <1>5, <1>6, <1>7, <1>10, <2>1 DEF OnTrack, Launching
  <2>3. OnTime(k, f, replayed, time)
    <3>1. e.at <= time BY <1>2, <1>4, <1>10
    <3> QED BY <1>8, <2>1, <3>1 DEF OnTime, Launching
  <2> QED BY <2>1, <2>2, <2>3
<1>11. CASE ~(e.at <= x.at)
  <2>1. PICK deadline : deadline = time + (e.at - x.at) OBVIOUS
  <2>2. deadline \in Nat /\ deadline >= e.at /\ (x.at = time => deadline = e.at)
    BY <1>2, <1>4, <1>11, <2>1
  <2>3. /\ f \in Execution /\ f.pc = "recv" /\ f.max = e.max /\ f.at = e.at
        /\ f.seen = x.at /\ f.deadline = deadline
        /\ f.fid = e.fid + 1 /\ f.cur = e.cur /\ f.took = Nil
    <3>1. PICK e1 : e1 = [e EXCEPT !.pc = "recv", !.seen = x.at, !.deadline = deadline] OBVIOUS
    <3>2. /\ e1 \in Execution /\ e1.pc = "recv" /\ e1.max = e.max /\ e1.at = e.at
          /\ e1.seen = x.at /\ e1.deadline = deadline
          /\ e1.fid = e.fid /\ e1.cur = e.cur /\ e1.took = Nil
      BY <1>3, <1>4, <1>9, <2>2, <3>1, Zenon DEF Execution
    <3>3. f = [e1 EXCEPT !.fid = e1.fid + 1]
      BY <1>11, <2>1, <3>1, <1>0, Zenon DEF Looped, Numbered
    <3>4. f = [e1 EXCEPT !.fid = e.fid + 1] BY <3>2, <3>3, Zenon
    <3> QED BY <1>6, <3>2, <3>4, Zenon DEF Execution
  <2>4. OnTrack(k, f, by)
    BY <1>2, <1>5, <1>6, <1>7, <1>11, <2>2, <2>3 DEF OnTrack, Launching
  <2>5. OnTime(k, f, replayed, time)
    BY <1>8, <2>2, <2>3 DEF OnTime, Launching
  <2> QED BY <2>3, <2>4, <2>5
<1> QED BY <1>10, <1>11

\* A message: the new input (recv).
LEMMA MessageGoes ==
    ASSUME NEW j \in Seq(Noted), NEW time \in Nat, Journal(j, time), NEW e \in Execution,
           NEW by \in Caller, OnTrack(j, e, by), NEW replayed, OnTime(j, e, replayed, time),
           e.pc = "recv", NEW k, NEW x, Goes(j, e.fid, "recv", k, x, time), x.msg # Nil,
           NEW v, v = x.msg, NEW f, f = TookMessage(e, v)
    PROVE  f \in Execution /\ OnTrack(k, f, by) /\ OnTime(k, f, replayed, time)
<1>0. f = TookMessage(e, x.msg) OBVIOUS
<1>1. /\ Goes(j, e.fid, OpOf(e.pc), k, x, time) /\ OpOf(e.pc) = "recv"
      /\ e.pc \in {"start", "loop", "recv", "ack"}
  BY DEF OpOf
<1>20. Gone(j, e, by, k, x, time) BY <1>1, GoesOn
<1>2. /\ k \in Seq(Noted) /\ e.fid \in Nat /\ e.fid < Len(k) /\ e.fid \in 0 .. Len(k)
      /\ Len(k) \in Nat /\ Len(j) \in Nat /\ \A n \in 1 .. Len(j) : k[n] = j[n]
      /\ k[e.fid + 1] = x /\ x \in Noted /\ x.op = "recv" /\ x.at <= time
      /\ (e.fid = Len(j) => Len(k) = e.fid + 1)
      /\ k[1].op = "now" /\ e.max = k[1].at + Timeout
  BY <1>1, <1>20 DEF Gone
<1>3. e.fid >= 2 /\ e.fid <= Len(j) BY <1>2, StageIs DEF OnTrack, Launching
<1>4. e.seen = k[e.fid].at
  <2>1. e.seen = j[e.fid].at BY DEF OnTrack
  <2>2. e.fid \in 1 .. Len(j) BY <1>2, <1>3
  <2> QED BY <1>2, <2>1, <2>2
<1>5. /\ LastBy(k, e.fid + 1, by) = x.msg
      /\ DueBy(k, e.fid + 1) = Capped(k[e.fid].at + Delay, k[1].at + Timeout)
  BY <1>2, Message
<1>6. PICK due : due = Capped(e.seen + Delay, e.max) OBVIOUS
<1>7. DueBy(k, e.fid + 1) = due BY <1>2, <1>4, <1>5, <1>6
<1>8. e.fid + 1 \in 1 .. Len(k) /\ e.fid + 1 \in Nat /\ e.fid + 1 # 0 /\ e.fid + 1 # 1
  BY <1>2, <1>3
<1>9. due \in Nat BY <1>2, <1>7, <1>8, DueIs
<1>10. x.msg \in Caller \cup {Nil} BY <1>2 DEF Noted
<1>11. /\ f \in Execution /\ f.pc = "ack" /\ f.max = e.max /\ f.at = due
       /\ f.fid = e.fid + 1 /\ f.cur = x.msg /\ f.took = Nil
  <2>1. Heard(e, x.msg) = [e EXCEPT !.pc = "ack", !.cur = x.msg, !.took = Nil, !.at = due]
    BY <1>6 DEF Heard
  <2>2. "ack" \in PC /\ Nil \in Caller \cup {Nil} BY DEF PC
  <2>3. /\ Heard(e, x.msg) \in Execution /\ Heard(e, x.msg).pc = "ack"
        /\ Heard(e, x.msg).cur = x.msg /\ Heard(e, x.msg).took = Nil
        /\ Heard(e, x.msg).at = due /\ Heard(e, x.msg).fid = e.fid
        /\ Heard(e, x.msg).max = e.max
    BY <1>9, <1>10, <2>1, <2>2, Zenon DEF Execution
  <2>4. f = [Heard(e, x.msg) EXCEPT !.fid = Heard(e, x.msg).fid + 1]
    BY <1>0, Zenon DEF TookMessage, Numbered
  <2>5. f = [Heard(e, x.msg) EXCEPT !.fid = e.fid + 1] BY <2>3, <2>4, Zenon
  <2> QED BY <1>8, <2>3, <2>5, Zenon DEF Execution
<1>12. Stage(k, e.fid + 1) = "ack" BY <1>2, <1>8 DEF Stage
<1>13. OnTrack(k, f, by)
  <2>1. f.fid <= Len(k) /\ Stage(k, f.fid) = "ack" BY <1>8, <1>11, <1>12
  <2>2. f.cur = LastBy(k, f.fid, by) /\ f.max = k[1].at + Timeout /\ f.at = DueBy(k, f.fid)
    BY <1>2, <1>5, <1>7, <1>11
  <2> QED BY <1>11, <2>1, <2>2 DEF OnTrack, Launching
<1>14. OnTime(k, f, replayed, time)
  BY <1>2, <1>11 DEF OnTime, Launching
<1> QED BY <1>11, <1>13, <1>14

\* No message until the target is due.
LEMMA TimeoutGoes ==
    ASSUME NEW j \in Seq(Noted), NEW time \in Nat, Journal(j, time), NEW e \in Execution,
           NEW by \in Caller, OnTrack(j, e, by), NEW replayed, OnTime(j, e, replayed, time),
           e.pc = "recv", NEW k, NEW x, Goes(j, e.fid, "recv", k, x, time), x.msg = Nil,
           e.took = Nil, time >= e.deadline,
           NEW f, f = TimeUp(e)
    PROVE  f \in Execution /\ OnTrack(k, f, by) /\ OnTime(k, f, replayed, time)
<1>1. /\ Goes(j, e.fid, OpOf(e.pc), k, x, time) /\ OpOf(e.pc) = "recv"
      /\ e.pc \in {"start", "loop", "recv", "ack"}
  BY DEF OpOf
<1>20. Gone(j, e, by, k, x, time) BY <1>1, GoesOn
<1>2. /\ k \in Seq(Noted) /\ e.fid \in Nat /\ e.fid < Len(k) /\ e.fid \in 0 .. Len(k)
      /\ Len(k) \in Nat /\ k[e.fid + 1] = x /\ x \in Noted /\ x.op = "recv"
      /\ LastBy(k, e.fid, by) = e.cur /\ (e.fid = Len(j) => Len(k) = e.fid + 1)
      /\ e.at = DueBy(k, e.fid) /\ e.max = k[1].at + Timeout
  BY <1>1, <1>20 DEF Gone
<1>3. e.fid >= 2 BY <1>2, StageIs DEF OnTrack, Launching
<1>4. DueBy(k, e.fid + 1) = e.at /\ LastBy(k, e.fid + 1, by) = e.cur BY <1>2, NoMessage
<1>5. e.fid + 1 \in Nat /\ e.fid + 1 <= Len(k) /\ e.fid + 1 # 0 /\ e.fid + 1 # 1
  BY <1>2, <1>3
<1>6. Stage(k, e.fid + 1) = "launch" BY <1>2, <1>5 DEF Stage
<1>7. e.at <= time
  <2>1. e.deadline >= e.at /\ e.deadline \in Nat /\ e.at \in Nat BY DEF OnTrack, Execution
  <2> QED BY <2>1
<1>8. /\ f \in Execution /\ f.pc = "launch" /\ f.max = e.max /\ f.at = e.at
      /\ f.fid = e.fid + 1 /\ f.cur = e.cur /\ f.took = Nil
  <2>1. "launch" \in PC BY DEF PC, Launching
  <2>2. PICK e1 : e1 = [e EXCEPT !.pc = "launch"] OBVIOUS
  <2>3. /\ e1 \in Execution /\ e1.pc = "launch" /\ e1.max = e.max /\ e1.at = e.at
        /\ e1.fid = e.fid /\ e1.cur = e.cur /\ e1.took = Nil
    BY <2>1, <2>2, Zenon DEF Execution
  <2>4. f = [e1 EXCEPT !.fid = e1.fid + 1] BY <2>2, Zenon DEF TimeUp, Numbered
  <2>5. f = [e1 EXCEPT !.fid = e.fid + 1] BY <2>3, <2>4, Zenon
  <2> QED BY <1>5, <2>3, <2>5, Zenon DEF Execution
<1>9. OnTrack(k, f, by) BY <1>2, <1>4, <1>5, <1>6, <1>8 DEF OnTrack, Launching
<1>10. OnTime(k, f, replayed, time) BY <1>2, <1>7, <1>8 DEF OnTime, Launching
<1> QED BY <1>8, <1>9, <1>10

\* The acknowledgement.
LEMMA AckGoes ==
    ASSUME NEW j \in Seq(Noted), NEW time \in Nat, Journal(j, time), NEW e \in Execution,
           NEW by \in Caller, OnTrack(j, e, by), NEW replayed, OnTime(j, e, replayed, time),
           e.pc = "ack", NEW k, NEW x, Goes(j, e.fid, "ack", k, x, time),
           NEW f, f = Acknowledged(e)
    PROVE  f \in Execution /\ OnTrack(k, f, by) /\ OnTime(k, f, replayed, time)
<1>1. /\ Goes(j, e.fid, OpOf(e.pc), k, x, time) /\ OpOf(e.pc) = "ack"
      /\ e.pc \in {"start", "loop", "recv", "ack"}
  BY DEF OpOf
<1>20. Gone(j, e, by, k, x, time) BY <1>1, GoesOn
<1>2. /\ k \in Seq(Noted) /\ e.fid \in Nat /\ e.fid < Len(k) /\ e.fid \in 0 .. Len(k)
      /\ Len(k) \in Nat /\ k[e.fid + 1] = x /\ x \in Noted /\ x.op = "ack"
      /\ LastBy(k, e.fid, by) = e.cur /\ (e.fid = Len(j) => Len(k) = e.fid + 1)
      /\ e.at = DueBy(k, e.fid) /\ e.max = k[1].at + Timeout
  BY <1>1, <1>20 DEF Gone
<1>3. e.fid >= 2 BY <1>2, StageIs DEF OnTrack, Launching
<1>4. DueBy(k, e.fid + 1) = e.at /\ LastBy(k, e.fid + 1, by) = e.cur BY <1>2, NoMessage
<1>5. e.fid + 1 \in Nat /\ e.fid + 1 <= Len(k) /\ e.fid + 1 # 0 /\ e.fid + 1 # 1
  BY <1>2, <1>3
<1>6. Stage(k, e.fid + 1) = "loop" BY <1>2, <1>5 DEF Stage
<1>7. e.took = Nil BY DEF OnTrack
<1>8. /\ f \in Execution /\ f.pc = "loop" /\ f.max = e.max /\ f.at = e.at
      /\ f.fid = e.fid + 1 /\ f.cur = e.cur /\ f.took = Nil
  <2>1. "loop" \in PC BY DEF PC
  <2>2. PICK e1 : e1 = [e EXCEPT !.pc = "loop"] OBVIOUS
  <2>3. /\ e1 \in Execution /\ e1.pc = "loop" /\ e1.max = e.max /\ e1.at = e.at
        /\ e1.fid = e.fid /\ e1.cur = e.cur /\ e1.took = Nil
    BY <1>7, <2>1, <2>2, Zenon DEF Execution
  <2>4. f = [e1 EXCEPT !.fid = e1.fid + 1] BY <2>2, Zenon DEF Acknowledged, Numbered
  <2>5. f = [e1 EXCEPT !.fid = e.fid + 1] BY <2>3, <2>4, Zenon
  <2> QED BY <1>5, <2>3, <2>5, Zenon DEF Execution
<1>9. OnTrack(k, f, by) BY <1>2, <1>4, <1>5, <1>6, <1>8 DEF OnTrack, Launching
<1>10. OnTime(k, f, replayed, time) BY <1>2, <1>8 DEF OnTime, Launching
<1> QED BY <1>8, <1>9, <1>10
-----------------------------------------------------------------------------
(* What a step of one debouncer leaves as it is.                           *)

Onward(d, q) ==
    /\ q.by = d.by
    /\ Len(d.journal) <= Len(q.journal)
    /\ \A n \in 1 .. Len(d.journal) : q.journal[n] = d.journal[n]
    /\ Stage(d.journal, Len(d.journal)) = "launch" => q.journal = d.journal
    /\ d.replayed => q.replayed

LEMMA Fields ==
    ASSUME NEW d \in Debouncing
    PROVE  /\ d.by \in Caller /\ d.status \in {"ACTIVE", "ERROR", "SUCCESS"}
           /\ d.mail \in Seq(Caller) /\ d.acks \in SUBSET Caller /\ d.journal \in Seq(Noted)
           /\ d.exec \in Execution /\ d.replayed \in BOOLEAN
           /\ d.gave \in [input : Caller \cup {Nil}, at : Nat]
           /\ Len(d.journal) \in Nat /\ Len(d.journal) \in 0 .. Len(d.journal)
<1>1. d.journal \in Seq(Noted) BY DEF Debouncing
<1>2. Len(d.journal) \in Nat BY <1>1
<1> QED BY <1>1, <1>2 DEF Debouncing

\* An input stays one, and so does what was said when the target was started.
LEMMA StaysInput ==
    ASSUME NEW d \in Debouncing, NEW q \in Debouncing, Onward(d, q)
    PROVE  InputsBy(d) \subseteq InputsBy(q)
<1> DEFINE j == d.journal
           k == q.journal
<1>1. /\ Len(j) \in Nat /\ Len(k) \in Nat /\ Len(j) <= Len(k)
      /\ \A n \in 1 .. Len(j) : k[n] = j[n]
  BY Fields DEF Onward
<1>2. ASSUME NEW n \in TakenBy(j, Len(j)) PROVE n \in TakenBy(k, Len(k)) /\ k[n] = j[n]
  <2>1. n \in 1 .. Len(j) /\ j[n].op = "recv" /\ j[n].msg # Nil BY DEF TakenBy
  <2>2. n \in 1 .. Len(k) /\ k[n] = j[n] BY <1>1, <2>1
  <2> HIDE DEF j, k
  <2> QED BY <2>1, <2>2 DEF TakenBy
<1>3. q.by = d.by BY DEF Onward
<1> HIDE DEF j, k
<1>4. {j[n].msg : n \in TakenBy(j, Len(j))} \subseteq {k[n].msg : n \in TakenBy(k, Len(k))}
  BY <1>2
<1> QED BY <1>3, <1>4 DEF InputsBy, j, k

LEMMA StaysStarted ==
    ASSUME NEW d \in Debouncing, NEW q \in Debouncing, Onward(d, q),
           NEW t, NEW names, NEW row, StartedBy(t, names, row, d)
    PROVE  StartedBy(t, names, row, q)
<1>1. q.journal = d.journal /\ q.by = d.by BY DEF Onward, StartedBy
<1> QED BY <1>1 DEF StartedBy

\* What a debouncer has done stays done.
LEMMA StaysDone ==
    ASSUME NEW d \in Debouncing, NEW q \in Debouncing, Onward(d, q), NEW mode,
           History(d, mode), q.gave = d.gave, Past(q) => Past(d),
           q.exec.pc \in {"inline", "failed"} => d.exec.pc = q.exec.pc,
           q.status = "ERROR" => Excused(q, mode)
    PROVE  History(q, mode)
<1>1. ASSUME q.gave # NotYet PROVE Gave(q)
  <2>1. Gave(d) BY <1>1 DEF History
  <2>2. q.journal = d.journal /\ q.by = d.by /\ (d.replayed => q.replayed)
    BY <2>1 DEF Onward, Gave
  <2> QED BY <2>1, <2>2 DEF Gave
<1> QED BY <1>1 DEF History

\* A call's target has an id of its own choice.
LEMMA IdIs ==
    ASSUME TypeInv, NEW d \in Debouncing PROVE options.id[d.by] \in Target
<1>1. d.by \in Caller BY Fields
<1>2. options.id \in [Caller -> Target] BY ConstantsAre DEF TypeInv
<1> QED BY <1>1, <1>2

\* What may change with a debouncer's row: targets that it starts or that end,
\* and a call that is on its way.
TargetGoes(i, q) ==
    /\ target' \in [Target -> Started]
    /\ \A t \in Target :
          \/ target'[t] = target[t]
          \/ /\ target'[t].status # "ABSENT" /\ target'[t].by \in DOMAIN deb
             /\ StartedBy(t, options.id, target'[t],
                          IF target'[t].by = i THEN q ELSE deb[target'[t].by])
CallGoes ==
    /\ call' \in [Caller -> Calling]
    /\ \A c \in Caller :
          \/ call'[c] = call[c]
          \/ /\ call[c].pc # "done" /\ call'[c].pc # "done"
             /\ call'[c].via \in DOMAIN deb

\* One debouncer moves, and perhaps its target and a call.
LEMMA DebouncerMoves ==
    ASSUME DInv, NEW i \in DOMAIN deb, NEW q \in Debouncing, deb' = [deb EXCEPT ![i] = q],
           Sound(q, now), Onward(deb[i], q), History(q, options.mode),
           TargetGoes(i, q), CallGoes,
           Past(q) => target'[options.id[q.by]].status # "ABSENT",
           now' = now, options' = options
    PROVE  DInv'
<1>1. /\ deb \in Seq(Debouncing) /\ now \in Nat /\ call \in [Caller -> Calling]
      /\ target \in [Target -> Started] /\ TypeInv
  BY DEF DInv, TypeInv
<1>2. /\ deb' \in Seq(Debouncing) /\ DOMAIN deb' = DOMAIN deb /\ deb'[i] = q
      /\ \A n \in DOMAIN deb : n # i => deb'[n] = deb[n]
  BY <1>1
<1>3. \A n \in DOMAIN deb : deb[n] \in Debouncing BY <1>1
<1>4. \A n \in DOMAIN deb : deb'[n].by = deb[n].by BY <1>2 DEF Onward
<1>5. TypeInv' BY <1>1, <1>2 DEF TypeInv, TargetGoes, CallGoes
<1>6. ASSUME NEW n \in DOMAIN deb PROVE InputsBy(deb[n]) \subseteq InputsBy(deb'[n])
  BY <1>2, <1>3, StaysInput
<1>7. ASSUME NEW c \in Caller PROVE CallOK(c)'
  <2>1. CallOK(c) BY DEF DInv
  <2>2. CASE call'[c] = call[c] BY <1>2, <1>6, <2>1, <2>2 DEF CallOK
  <2>3. CASE call'[c] # call[c] BY <1>2, <2>3 DEF CallOK, CallGoes
  <2> QED BY <2>2, <2>3
<1>8. ASSUME NEW n \in DOMAIN deb, NEW t, NEW row, StartedBy(t, options.id, row, deb[n])
      PROVE  StartedBy(t, options.id, row, deb'[n])
  BY <1>2, <1>3, <1>8, StaysStarted
<1>9. ASSUME NEW t \in Target PROVE TargetOK(t)'
  <2>1. SUFFICES ASSUME target'[t].status # "ABSENT"
                 PROVE  /\ target'[t].by \in DOMAIN deb
                        /\ StartedBy(t, options.id, target'[t], deb'[target'[t].by])
    BY <1>2 DEF TargetOK
  <2>2. CASE target'[t] = target[t]
    <3>1. TargetOK(t) BY DEF DInv
    <3> QED BY <1>8, <2>1, <2>2, <3>1 DEF TargetOK
  <2>3. CASE target'[t] # target[t] BY <1>2, <2>1, <2>3 DEF TargetGoes
  <2> QED BY <2>2, <2>3
<1>10. ASSUME NEW n \in DOMAIN deb'
       PROVE  /\ Sound(deb'[n], now') /\ Once(n)' /\ History(deb'[n], options'.mode)
              /\ Past(deb'[n]) => target'[options'.id[deb'[n].by]].status # "ABSENT"
  <2>1. n \in DOMAIN deb BY <1>2
  <2>2. /\ Sound(deb[n], now) /\ Once(n) /\ History(deb[n], options.mode)
        /\ Past(deb[n]) => target[options.id[deb[n].by]].status # "ABSENT"
    BY <2>1 DEF DInv
  <2>3. Sound(deb'[n], now') /\ History(deb'[n], options'.mode) BY <1>2, <2>1, <2>2
  <2>4. Once(n)'
    <3>1. deb[n].by \in Caller BY <1>3, <2>1, Fields
    <3>2. call[deb[n].by].pc = "done" => call'[deb[n].by].pc = "done" BY <3>1 DEF CallGoes
    <3> QED BY <1>2, <1>4, <2>1, <2>2, <3>2 DEF Once
  <2>5. ASSUME Past(deb'[n]) PROVE target'[options'.id[deb'[n].by]].status # "ABSENT"
    <3>1. CASE n = i BY <1>2, <2>5, <3>1
    <3>2. CASE n # i
      <4>1. deb'[n] = deb[n] BY <1>2, <2>1, <3>2
      <4>2. target[options.id[deb[n].by]].status # "ABSENT" BY <2>2, <2>5, <4>1
      <4>3. PICK t \in Target : t = options.id[deb[n].by] BY <1>1, <1>3, <2>1, IdIs
      <4>4. target'[t].status # "ABSENT" BY <4>2, <4>3 DEF TargetGoes
      <4> QED BY <4>1, <4>3, <4>4
    <3> QED BY <3>1, <3>2
  <2> QED BY <2>3, <2>4, <2>5
<1> QED BY <1>5, <1>7, <1>9, <1>10 DEF DInv

\* It moves alone, and does not go past the launch.
LEMMA DebouncerGoes ==
    ASSUME DInv, NEW i \in DOMAIN deb, NEW q \in Debouncing, deb' = [deb EXCEPT ![i] = q],
           Sound(q, now), Onward(deb[i], q), Past(q) => Past(deb[i]), q.gave = deb[i].gave,
           q.exec.pc \notin {"inline", "failed"}, q.status = "ERROR" => Excused(q, options.mode),
           target' = target, now' = now, call' = call, options' = options
    PROVE  DInv'
<1>1. target' = target /\ now' = now /\ call' = call /\ options' = options OBVIOUS
<1>2. TargetGoes(i, q) /\ CallGoes BY <1>1 DEF DInv, TypeInv, TargetGoes, CallGoes
<1>3. Past(q) => target'[options.id[q.by]].status # "ABSENT"
  <2>1. Past(deb[i]) => target[options.id[deb[i].by]].status # "ABSENT" BY DEF DInv
  <2> QED BY <1>1, <2>1 DEF Onward
<1>4. History(q, options.mode)
  <2>1. deb[i] \in Debouncing /\ History(deb[i], options.mode) BY DEF DInv, TypeInv
  <2> QED BY <2>1, StaysDone
<1> QED BY <1>1, <1>2, <1>3, <1>4, DebouncerMoves

\* It moves by an operation that is in its journal, or is now.
With(d, f, k, a) == [d EXCEPT !.exec = f, !.journal = k, !.acks = a]

LEMMA OperationGoes ==
    ASSUME DInv, NEW i \in DOMAIN deb, NEW d, d = deb[i],
           d.exec.pc \in {"start", "loop", "recv", "ack"},
           NEW k, NEW x, Goes(d.journal, d.exec.fid, OpOf(d.exec.pc), k, x, now),
           NEW f \in Execution, f.pc \notin {"inline", "end", "failed"},
           OnTrack(k, f, d.by), OnTime(k, f, d.replayed, now),
           NEW a, a \subseteq d.acks \cup {d.exec.cur},
           deb' = [deb EXCEPT ![i] = With(d, f, k, a)],
           Quiet
    PROVE  DInv'
<1>1. d \in Debouncing /\ now \in Nat /\ Sound(d, now) BY DEF DInv, TypeInv
<1>2. /\ d.status = "ACTIVE" /\ OnTrack(d.journal, d.exec, d.by) /\ Journal(d.journal, now)
      /\ d.acks \subseteq InputsBy(d)
  BY <1>1 DEF Sound
<1>3. /\ d.by \in Caller /\ d.journal \in Seq(Noted) /\ d.exec \in Execution
      /\ d.acks \in SUBSET Caller
  BY <1>1, Fields
<1>4. Gone(d.journal, d.exec, d.by, k, x, now) BY <1>1, <1>2, <1>3, GoesOn
<1>5. PICK q : q = With(d, f, k, a) OBVIOUS
<1>6. d.exec.cur \in Caller
  <2>1. k \in Seq(Noted) /\ d.exec.fid \in 0 .. Len(k) /\ LastBy(k, d.exec.fid, d.by) = d.exec.cur
    BY <1>4 DEF Gone
  <2> QED BY <1>3, <2>1, LastIs
<1>7. /\ q \in Debouncing /\ q.by = d.by /\ q.status = d.status /\ q.journal = k
      /\ q.exec = f /\ q.acks = a /\ q.replayed = d.replayed /\ q.gave = d.gave
  <2>1. k \in Seq(Noted) /\ a \in SUBSET Caller BY <1>3, <1>4, <1>6 DEF Gone
  <2> QED BY <1>1, <1>5, <2>1, Zenon DEF Debouncing, With
<1>8. Onward(d, q)
  <2>1. Stage(d.journal, Len(d.journal)) = "launch" => k = d.journal
    <3>1. CASE d.exec.fid = Len(d.journal)
      <4>1. Stage(d.journal, d.exec.fid) = d.exec.pc BY <1>2 DEF OnTrack, Launching
      <4> QED BY <3>1, <4>1
    <3>2. CASE d.exec.fid # Len(d.journal) BY <3>2 DEF Goes
    <3> QED BY <3>1, <3>2
  <2> QED BY <1>4, <1>7, <2>1 DEF Onward, Gone
<1>9. a \subseteq InputsBy(q)
  <2>1. InputsBy(d) \subseteq InputsBy(q) BY <1>1, <1>7, <1>8, StaysInput
  <2>2. d.exec.cur \in InputsBy(q)
    <3>1. /\ k \in Seq(Noted) /\ d.exec.fid \in 0 .. Len(k) /\ Len(k) \in Nat
          /\ LastBy(k, d.exec.fid, d.by) = d.exec.cur
      BY <1>4 DEF Gone
    <3>2. d.exec.cur \in {d.by} \cup {k[n].msg : n \in TakenBy(k, d.exec.fid)}
      BY <1>3, <3>1, LastIs
    <3>3. TakenBy(k, d.exec.fid) \subseteq TakenBy(k, Len(k)) BY <3>1 DEF TakenBy
    <3> QED BY <1>7, <3>2, <3>3 DEF InputsBy
  <2> QED BY <1>2, <2>1, <2>2
<1>10. Sound(q, now) BY <1>2, <1>4, <1>7, <1>9 DEF Sound, Gone
<1>11. ~Past(q) BY <1>2, <1>7 DEF Past
<1>12. target' = target /\ now' = now /\ call' = call /\ options' = options BY DEF Quiet
<1>13. q.gave = deb[i].gave /\ q.exec.pc \notin {"inline", "failed"} /\ q.status # "ERROR" BY <1>2, <1>7
<1> QED BY <1>5, <1>7, <1>8, <1>10, <1>11, <1>12, <1>13, DebouncerGoes
-----------------------------------------------------------------------------
(* The debouncer's steps.                                                  *)

LEMMA AtIs ==
    ASSUME DInv, NEW i, NEW pc, pc # "off", At(i, pc), NEW d, d = deb[i]
    PROVE  /\ i \in DOMAIN deb /\ d \in Debouncing /\ d.exec.pc = pc /\ d.status = "ACTIVE"
           /\ Journal(d.journal, now) /\ OnTrack(d.journal, d.exec, d.by)
           /\ OnTime(d.journal, d.exec, d.replayed, now)
           /\ now \in Nat /\ d.journal \in Seq(Noted) /\ d.exec \in Execution
           /\ d.by \in Caller /\ Len(d.journal) \in Nat /\ d.exec.fid \in Nat
           /\ d.exec.fid <= Len(d.journal)
<1>1. i \in DOMAIN deb /\ d.exec.pc = pc BY DEF At
<1>2. d \in Debouncing /\ Sound(d, now) /\ now \in Nat BY <1>1 DEF DInv, TypeInv
<1>3. /\ d.status = "ACTIVE" /\ Journal(d.journal, now)
      /\ OnTrack(d.journal, d.exec, d.by) /\ OnTime(d.journal, d.exec, d.replayed, now)
  BY <1>1, <1>2 DEF Sound
<1>4. /\ d.journal \in Seq(Noted) /\ d.exec \in Execution /\ d.by \in Caller
      /\ Len(d.journal) \in Nat
  BY <1>2, Fields
<1>5. d.exec.fid \in Nat /\ d.exec.fid <= Len(d.journal) BY <1>3, <1>4 DEF Execution, OnTrack
<1> QED BY <1>1, <1>2, <1>3, <1>4, <1>5

\* The next entry, where there is one, and where there is none.
LEMMA RecordedIs ==
    ASSUME NEW i, NEW d, d = deb[i], d.journal \in Seq(Noted), d.exec.fid \in Nat,
           d.exec.fid <= Len(d.journal)
    PROVE  /\ Recorded(i) => /\ d.exec.fid < Len(d.journal) /\ d.exec.fid # Len(d.journal)
                             /\ d.exec.fid + 1 \in 1 .. Len(d.journal)
                             /\ Entry(i) = d.journal[d.exec.fid + 1] /\ Entry(i) \in Noted
           /\ ~Recorded(i) => d.exec.fid = Len(d.journal)
<1>1. Len(d.journal) \in Nat OBVIOUS
<1>2. Recorded(i) => d.exec.fid < Len(d.journal) /\ d.exec.fid + 1 \in 1 .. Len(d.journal)
  BY <1>1 DEF Recorded
<1>3. ~Recorded(i) => d.exec.fid = Len(d.journal) BY <1>1 DEF Recorded
<1>4. Entry(i) = d.journal[d.exec.fid + 1] BY DEF Entry
<1> QED BY <1>1, <1>2, <1>3, <1>4

\* A step of the execution alone.
LEMMA SameJournal ==
    ASSUME DInv, NEW i \in DOMAIN deb, NEW d, d = deb[i], NEW q \in Debouncing,
           q.by = d.by, q.journal = d.journal, q.acks = d.acks, d.replayed => q.replayed,
           q.exec.pc # "off" =>
              /\ q.status = "ACTIVE" /\ OnTrack(q.journal, q.exec, q.by)
              /\ OnTime(q.journal, q.exec, q.replayed, now)
    PROVE  Sound(q, now) /\ Onward(d, q)
<1>1. d \in Debouncing /\ Sound(d, now) BY DEF DInv, TypeInv
<1>2. Len(d.journal) \in Nat BY <1>1, Fields
<1>3. InputsBy(q) = InputsBy(d) BY DEF InputsBy
<1> QED BY <1>1, <1>2, <1>3 DEF Sound, Onward

LEMMA NoExecIs == NoExec \in Execution /\ NoExec.pc = "off"
BY DEF NoExec, Execution, PC

\* An execution begins; after another one, it replays.
LEMMA RunHolds == ASSUME DInv, NEW i, Run(i) PROVE DInv'
<1>1. PICK d : d = deb[i] OBVIOUS
<1>2. i \in DOMAIN deb /\ d.status = "ACTIVE" /\ d.exec.pc = "off" BY <1>1 DEF Run, At
<1>3. d \in Debouncing BY <1>1, <1>2 DEF DInv, TypeInv
<1>4. PICK e : e = [NoExec EXCEPT !.pc = "start", !.cur = d.by] OBVIOUS
<1>5. /\ e \in Execution /\ e.pc = "start" /\ e.cur = d.by /\ e.fid = 0 /\ e.took = Nil
  BY <1>3, <1>4, Fields DEF NoExec, Execution, PC
<1>6. PICK r \in BOOLEAN : r = (d.replayed \/ d.journal # <<>>) BY Zenon
<1>7. PICK q : q = [d EXCEPT !.exec = e, !.replayed = r] OBVIOUS
<1>8. /\ q \in Debouncing /\ q.by = d.by /\ q.journal = d.journal /\ q.acks = d.acks
      /\ q.exec = e /\ q.replayed = r /\ q.status = d.status /\ q.gave = d.gave
  BY <1>3, <1>5, <1>6, <1>7, Zenon DEF Debouncing
<1>9. deb' = [deb EXCEPT ![i] = q] BY <1>1, <1>4, <1>6, <1>7, Zenon DEF Run
<1>10. OnTrack(d.journal, e, d.by)
  <2>1. Len(d.journal) \in Nat BY <1>3, Fields
  <2>2. TakenBy(d.journal, 0) = {} BY DEF TakenBy
  <2>3. LastBy(d.journal, 0, d.by) = d.by BY <2>2 DEF LastBy
  <2>4. Stage(d.journal, 0) = "start" BY DEF Stage
  <2> QED BY <1>5, <2>1, <2>3, <2>4 DEF OnTrack, Launching
<1>11. OnTime(d.journal, e, r, now)
  <2>1. ~r => d.journal = <<>> BY <1>6, Zenon
  <2>2. ~r => Len(d.journal) = 0 BY <2>1
  <2> QED BY <1>5, <2>2 DEF OnTime, Launching
<1>12. Sound(q, now) /\ Onward(d, q)
  BY <1>1, <1>2, <1>6, <1>8, <1>10, <1>11, SameJournal
<1>13. ~Past(q) BY <1>2, <1>5, <1>8 DEF Past
<1>14. target' = target /\ now' = now /\ call' = call /\ options' = options
  BY DEF Run, Quiet
<1>15. q.exec.pc \notin {"inline", "failed"} /\ q.status # "ERROR" BY <1>2, <1>5, <1>8
<1> QED BY <1>1, <1>2, <1>8, <1>9, <1>15, <1>12, <1>13, <1>14, DebouncerGoes

\* The row after an operation that is recorded already, or is recorded now.
LEMMA WithIs ==
    ASSUME NEW d \in Debouncing, NEW f, NEW k
    PROVE  /\ [d EXCEPT !.exec = f] = With(d, f, d.journal, d.acks)
           /\ [d EXCEPT !.exec = f, !.journal = k] = With(d, f, k, d.acks)
BY DEF Debouncing, With

LEMMA ExecIs ==
    ASSUME TypeInv, NEW i \in DOMAIN deb, NEW d, d = deb[i], NEW e
    PROVE  /\ Exec(i, e) => deb' = [deb EXCEPT ![i] = With(d, Numbered(e), d.journal, d.acks)]
           /\ \A x : ExecNote(i, e, x) =>
                 deb' = [deb EXCEPT ![i] = With(d, Numbered(e), Append(d.journal, x), d.acks)]
<1>1. d \in Debouncing BY DEF TypeInv
<1>2. PICK f : f = Numbered(e) OBVIOUS
<1>3. ASSUME Exec(i, e) PROVE deb' = [deb EXCEPT ![i] = With(d, f, d.journal, d.acks)]
  <2>1. deb' = [deb EXCEPT ![i].exec = f] BY <1>2, <1>3, Zenon DEF Exec, Numbered
  <2>2. deb' = [deb EXCEPT ![i] = [d EXCEPT !.exec = f]] BY <2>1
  <2> QED BY <1>1, <2>2, WithIs, Zenon
<1>4. ASSUME NEW x, ExecNote(i, e, x)
      PROVE  deb' = [deb EXCEPT ![i] = With(d, f, Append(d.journal, x), d.acks)]
  <2>1. PICK k : k = Append(d.journal, x) OBVIOUS
  <2>2. deb' = [deb EXCEPT ![i].exec = f, ![i].journal = Append(@, x)]
    BY <1>2, <1>4, Zenon DEF ExecNote, Numbered
  <2>3. deb' = [deb EXCEPT ![i] = [d EXCEPT !.exec = f, !.journal = k]] BY <2>1, <2>2
  <2>4. [d EXCEPT !.exec = f, !.journal = k] = With(d, f, k, d.acks) BY <1>1, WithIs
  <2> QED BY <2>1, <2>3, <2>4, Zenon
<1> QED BY <1>2, <1>3, <1>4

\* durable_now_step: the recorded time, or the time.
LEMMA ClockIs ==
    ASSUME DInv, NEW i, NEW pc, pc # "off", At(i, pc), NEW d, d = deb[i],
           NEW e, Clock(i, e)
    PROVE  \E k, x : /\ Goes(d.journal, d.exec.fid, "now", k, x, now)
                     /\ x.at = DurableNow(i)
                     /\ d.exec.fid = Len(d.journal) => x.at = now
                     /\ deb' = [deb EXCEPT ![i] = With(d, Numbered(e), k, d.acks)]
<1>1. /\ i \in DOMAIN deb /\ d \in Debouncing /\ now \in Nat /\ d.journal \in Seq(Noted)
      /\ d.exec.fid \in Nat /\ d.exec.fid <= Len(d.journal) /\ TypeInv
  BY AtIs DEF DInv
<1>2. CASE Recorded(i)
  <2>1. /\ d.exec.fid < Len(d.journal) /\ d.exec.fid # Len(d.journal)
        /\ Entry(i) = d.journal[d.exec.fid + 1]
    BY <1>1, <1>2, RecordedIs
  <2>2. DurableNow(i) = Entry(i).at BY <1>2 DEF DurableNow
  <2>3. Goes(d.journal, d.exec.fid, "now", d.journal, Entry(i), now) BY <2>1 DEF Goes
  <2>4. Exec(i, e) BY <1>2 DEF Clock
  <2>5. deb' = [deb EXCEPT ![i] = With(d, Numbered(e), d.journal, d.acks)] BY <1>1, <2>4, ExecIs
  <2> QED BY <2>1, <2>2, <2>3, <2>5
<1>3. CASE ~Recorded(i)
  <2>1. d.exec.fid = Len(d.journal) BY <1>1, <1>3, RecordedIs
  <2>2. DurableNow(i) = now BY <1>3 DEF DurableNow
  <2>3. PICK x : x = [op |-> "now", at |-> now, msg |-> Nil] OBVIOUS
  <2>4. x \in Noted /\ x.at = now /\ x.op = "now" BY <1>1, <2>3 DEF Noted
  <2>5. PICK k : k = Append(d.journal, x) OBVIOUS
  <2>6. Goes(d.journal, d.exec.fid, "now", k, x, now) BY <1>1, <2>1, <2>4, <2>5 DEF Goes
  <2>7. ExecNote(i, e, x) BY <1>3, <2>3 DEF Clock
  <2>8. deb' = [deb EXCEPT ![i] = With(d, Numbered(e), k, d.acks)]
    BY <1>1, <2>5, <2>7, ExecIs
  <2> QED BY <2>2, <2>4, <2>6, <2>8
<1> QED BY <1>2, <1>3

LEMMA StartTimeHolds == ASSUME DInv, NEW i, StartTime(i) PROVE DInv'
<1>1. PICK d : d = deb[i] OBVIOUS
<1>2. At(i, "start") /\ Quiet BY DEF StartTime
<1>3. PICK t : t = DurableNow(i) OBVIOUS
<1>4. PICK e : e = [d.exec EXCEPT !.pc = "loop", !.max = t + Timeout,
                                  !.at = Capped(t + Delay, t + Timeout)]
  OBVIOUS
<1>5. Clock(i, e) BY <1>1, <1>3, <1>4 DEF StartTime
<1>6. /\ i \in DOMAIN deb /\ d.exec.pc = "start" /\ d.exec \in Execution
      /\ Journal(d.journal, now) /\ OnTrack(d.journal, d.exec, d.by)
      /\ OnTime(d.journal, d.exec, d.replayed, now)
      /\ now \in Nat /\ d.journal \in Seq(Noted) /\ d.by \in Caller
  BY <1>1, <1>2, AtIs
<1>7. PICK f : f = Numbered(e) OBVIOUS
<1>8. PICK k, x : /\ Goes(d.journal, d.exec.fid, "now", k, x, now)
                  /\ x.at = t
                  /\ d.exec.fid = Len(d.journal) => x.at = now
                  /\ deb' = [deb EXCEPT ![i] = With(d, f, k, d.acks)]
  BY <1>1, <1>2, <1>3, <1>5, <1>7, ClockIs
<1>9. f = Begun(d.exec, t) BY <1>4, <1>7, <1>8 DEF Begun
<1>13. PICK j, e1, by, r : j = d.journal /\ e1 = d.exec /\ by = d.by /\ r = d.replayed
  OBVIOUS
<1>14. /\ e1.pc = "start" /\ e1 \in Execution /\ Journal(j, now) /\ OnTrack(j, e1, by)
       /\ OnTime(j, e1, r, now) /\ now \in Nat /\ j \in Seq(Noted) /\ by \in Caller
       /\ Goes(j, e1.fid, "now", k, x, now) /\ x.at = t /\ f = Begun(e1, t)
       /\ e1.fid = Len(j) => x.at = now
  BY <1>6, <1>8, <1>9, <1>13
<1>15. f \in Execution /\ OnTrack(k, f, by) /\ OnTime(k, f, r, now) BY <1>14, StartGoes
<1>10. f \in Execution /\ OnTrack(k, f, d.by) /\ OnTime(k, f, d.replayed, now)
  BY <1>13, <1>15
<1>11. f.pc = "loop" BY <1>6, <1>9, Zenon DEF Execution, Begun, Numbered
<1>12. Goes(d.journal, d.exec.fid, OpOf(d.exec.pc), k, x, now) BY <1>6, <1>8 DEF OpOf
<1> QED BY <1>1, <1>2, <1>6, <1>8, <1>10, <1>11, <1>12, OperationGoes

LEMMA LoopTimeHolds == ASSUME DInv, NEW i, LoopTime(i) PROVE DInv'
<1>1. PICK d : d = deb[i] OBVIOUS
<1>2. At(i, "loop") /\ Quiet BY DEF LoopTime
<1>3. PICK t : t = DurableNow(i) OBVIOUS
<1>4. PICK e : e = IF d.exec.at <= t THEN [d.exec EXCEPT !.pc = "launch"]
                   ELSE [d.exec EXCEPT !.pc = "recv", !.seen = t,
                                       !.deadline = now + (d.exec.at - t)]
  OBVIOUS
<1>5. Clock(i, e) BY <1>1, <1>3, <1>4 DEF LoopTime
<1>6. /\ i \in DOMAIN deb /\ d.exec.pc = "loop" /\ d.exec \in Execution
      /\ Journal(d.journal, now) /\ OnTrack(d.journal, d.exec, d.by)
      /\ OnTime(d.journal, d.exec, d.replayed, now)
      /\ now \in Nat /\ d.journal \in Seq(Noted) /\ d.by \in Caller
  BY <1>1, <1>2, AtIs
<1>7. PICK f : f = Numbered(e) OBVIOUS
<1>8. PICK k, x : /\ Goes(d.journal, d.exec.fid, "now", k, x, now)
                  /\ x.at = t
                  /\ d.exec.fid = Len(d.journal) => x.at = now
                  /\ deb' = [deb EXCEPT ![i] = With(d, f, k, d.acks)]
  BY <1>1, <1>2, <1>3, <1>5, <1>7, ClockIs
<1>9. f = Looped(d.exec, t, now) BY <1>4, <1>7, <1>8 DEF Looped
<1>13. PICK j, e1, by, r : j = d.journal /\ e1 = d.exec /\ by = d.by /\ r = d.replayed
  OBVIOUS
<1>14. /\ e1.pc = "loop" /\ e1 \in Execution /\ Journal(j, now) /\ OnTrack(j, e1, by)
       /\ OnTime(j, e1, r, now) /\ now \in Nat /\ j \in Seq(Noted) /\ by \in Caller
       /\ Goes(j, e1.fid, "now", k, x, now) /\ x.at = t /\ f = Looped(e1, t, now)
       /\ e1.fid = Len(j) => x.at = now
  BY <1>6, <1>8, <1>9, <1>13
<1>15. f \in Execution /\ OnTrack(k, f, by) /\ OnTime(k, f, r, now) BY <1>14, LoopGoes
<1>10. f \in Execution /\ OnTrack(k, f, d.by) /\ OnTime(k, f, d.replayed, now)
  BY <1>13, <1>15
<1>11. f.pc \in {"launch", "recv"} BY <1>6, <1>9, Zenon DEF Execution, Looped, Numbered
<1>12. Goes(d.journal, d.exec.fid, OpOf(d.exec.pc), k, x, now) BY <1>6, <1>8 DEF OpOf
<1> QED BY <1>1, <1>2, <1>6, <1>8, <1>10, <1>11, <1>12, OperationGoes

\* A recorded message, and one that is recorded now.
LEMMA MessageHolds ==
    ASSUME DInv, NEW i, At(i, "recv"), NEW d, d = deb[i], Quiet,
           NEW k, NEW x, Goes(d.journal, d.exec.fid, "recv", k, x, now), x.msg # Nil,
           NEW m, m = x.msg, NEW f, f = TookMessage(d.exec, m),
           deb' = [deb EXCEPT ![i] = With(d, f, k, d.acks)]
    PROVE  DInv'
<1>1. /\ i \in DOMAIN deb /\ d.exec.pc = "recv" /\ d.exec \in Execution
      /\ Journal(d.journal, now) /\ OnTrack(d.journal, d.exec, d.by)
      /\ OnTime(d.journal, d.exec, d.replayed, now)
      /\ now \in Nat /\ d.journal \in Seq(Noted) /\ d.by \in Caller
  BY AtIs
<1>5. PICK j, e, by, r : j = d.journal /\ e = d.exec /\ by = d.by /\ r = d.replayed OBVIOUS
<1>6. /\ e.pc = "recv" /\ e \in Execution /\ Journal(j, now) /\ OnTrack(j, e, by)
      /\ OnTime(j, e, r, now) /\ now \in Nat /\ j \in Seq(Noted) /\ by \in Caller
      /\ Goes(j, e.fid, "recv", k, x, now) /\ f = TookMessage(e, m)
  BY <1>1, <1>5
<1>7. f \in Execution /\ OnTrack(k, f, by) /\ OnTime(k, f, r, now)
  BY <1>6, x.msg # Nil, m = x.msg, MessageGoes
<1>2. f \in Execution /\ OnTrack(k, f, d.by) /\ OnTime(k, f, d.replayed, now)
  BY <1>5, <1>7
<1>3. f.pc = "ack" BY <1>1, Zenon DEF TookMessage, Numbered, Heard, Execution
<1>4. Goes(d.journal, d.exec.fid, OpOf(d.exec.pc), k, x, now) BY <1>1 DEF OpOf
<1> QED BY <1>1, <1>2, <1>3, <1>4, OperationGoes

LEMMA ReplayRecvHolds == ASSUME DInv, NEW i, ReplayRecv(i) PROVE DInv'
<1>1. PICK d : d = deb[i] OBVIOUS
<1>2. At(i, "recv") /\ Recorded(i) /\ Entry(i).msg # Nil /\ Quiet BY DEF ReplayRecv
<1>3. /\ d.journal \in Seq(Noted) /\ d.exec.fid \in Nat /\ TypeInv
      /\ d.exec.fid <= Len(d.journal) /\ i \in DOMAIN deb
  BY <1>1, <1>2, AtIs DEF DInv
<1>4. d.exec.fid < Len(d.journal) /\ Entry(i) = d.journal[d.exec.fid + 1]
  BY <1>1, <1>2, <1>3, RecordedIs
<1>5. PICK x : x = Entry(i) OBVIOUS
<1>6. Goes(d.journal, d.exec.fid, "recv", d.journal, x, now) BY <1>4, <1>5 DEF Goes
<1>7. Exec(i, Heard(d.exec, x.msg)) BY <1>1, <1>5 DEF ReplayRecv
<1>8. PICK f : f = TookMessage(d.exec, x.msg) OBVIOUS
<1>9. deb' = [deb EXCEPT ![i] = With(d, f, d.journal, d.acks)]
  BY <1>1, <1>3, <1>7, <1>8, ExecIs DEF TookMessage
<1>10. x.msg # Nil BY <1>2, <1>5
<1> QED BY <1>1, <1>2, <1>6, <1>8, <1>9, <1>10, MessageHolds

LEMMA ReceiveHolds == ASSUME DInv, NEW i, Receive(i) PROVE DInv'
<1>1. PICK d : d = deb[i] OBVIOUS
<1>2. At(i, "recv") /\ d.exec.took # Nil /\ Quiet BY <1>1 DEF Receive
<1>3. /\ d.exec \in Execution /\ i \in DOMAIN deb /\ now \in Nat /\ TypeInv
      /\ OnTrack(d.journal, d.exec, d.by)
  BY <1>1, <1>2, AtIs DEF DInv
<1>4. d.exec.fid = Len(d.journal) BY <1>2, <1>3 DEF OnTrack
<1>5. PICK x : x = [op |-> "recv", at |-> 0, msg |-> d.exec.took] OBVIOUS
<1>6. x \in Noted /\ x.at <= now /\ x.op = "recv" /\ x.msg = d.exec.took
  BY <1>3, <1>5 DEF Noted, Execution
<1>7. PICK k : k = Append(d.journal, x) OBVIOUS
<1>8. Goes(d.journal, d.exec.fid, "recv", k, x, now) BY <1>4, <1>6, <1>7 DEF Goes
<1>9. ExecNote(i, Heard(d.exec, x.msg), x) BY <1>1, <1>5, <1>6 DEF Receive
<1>10. PICK f : f = TookMessage(d.exec, x.msg) OBVIOUS
<1>11. deb' = [deb EXCEPT ![i] = With(d, f, k, d.acks)]
  BY <1>1, <1>3, <1>7, <1>9, <1>10, ExecIs DEF TookMessage
<1> QED BY <1>1, <1>2, <1>6, <1>8, <1>10, <1>11, MessageHolds

LEMMA RecvTimeoutHolds == ASSUME DInv, NEW i, RecvTimeout(i) PROVE DInv'
<1>1. PICK d : d = deb[i] OBVIOUS
<1>2. /\ At(i, "recv") /\ ~Recorded(i) /\ d.exec.took = Nil /\ now >= d.exec.deadline
      /\ Quiet
  BY <1>1 DEF RecvTimeout
<1>3. /\ i \in DOMAIN deb /\ d.exec.pc = "recv" /\ d.exec \in Execution /\ TypeInv
      /\ Journal(d.journal, now) /\ OnTrack(d.journal, d.exec, d.by)
      /\ OnTime(d.journal, d.exec, d.replayed, now)
      /\ now \in Nat /\ d.journal \in Seq(Noted) /\ d.by \in Caller
      /\ d.exec.fid \in Nat /\ d.exec.fid <= Len(d.journal)
  BY <1>1, <1>2, AtIs DEF DInv
<1>4. d.exec.fid = Len(d.journal) BY <1>1, <1>2, <1>3, RecordedIs
<1>5. PICK x : x = [op |-> "recv", at |-> 0, msg |-> Nil] OBVIOUS
<1>6. x \in Noted /\ x.at <= now /\ x.op = "recv" /\ x.msg = Nil BY <1>3, <1>5 DEF Noted
<1>7. PICK k : k = Append(d.journal, x) OBVIOUS
<1>8. Goes(d.journal, d.exec.fid, "recv", k, x, now) BY <1>4, <1>6, <1>7 DEF Goes
<1>9. ExecNote(i, [d.exec EXCEPT !.pc = "launch"], x) BY <1>1, <1>5 DEF RecvTimeout
<1>10. PICK f : f = TimeUp(d.exec) OBVIOUS
<1>11. deb' = [deb EXCEPT ![i] = With(d, f, k, d.acks)]
  BY <1>1, <1>3, <1>7, <1>9, <1>10, ExecIs DEF TimeUp
<1>12. f \in Execution /\ OnTrack(k, f, d.by) /\ OnTime(k, f, d.replayed, now)
  BY <1>2, <1>3, <1>6, <1>8, <1>10, TimeoutGoes
<1>13. f.pc = "launch" BY <1>3, <1>10, Zenon DEF Execution, TimeUp, Numbered
<1>14. Goes(d.journal, d.exec.fid, OpOf(d.exec.pc), k, x, now) BY <1>3, <1>8 DEF OpOf
<1> QED BY <1>1, <1>2, <1>3, <1>8, <1>11, <1>12, <1>13, <1>14, OperationGoes

LEMMA AcknowledgeHolds == ASSUME DInv, NEW i, Acknowledge(i) PROVE DInv'
<1>1. PICK d : d = deb[i] OBVIOUS
<1>2. At(i, "ack") /\ Quiet BY DEF Acknowledge
<1>3. /\ i \in DOMAIN deb /\ d.exec.pc = "ack" /\ d.exec \in Execution /\ d \in Debouncing
      /\ Journal(d.journal, now) /\ OnTrack(d.journal, d.exec, d.by)
      /\ OnTime(d.journal, d.exec, d.replayed, now)
      /\ now \in Nat /\ d.journal \in Seq(Noted) /\ d.by \in Caller
      /\ d.exec.fid \in Nat /\ d.exec.fid <= Len(d.journal)
  BY <1>1, <1>2, AtIs
<1>4. PICK f : f = Acknowledged(d.exec) OBVIOUS
<1>5. f.pc = "loop" /\ f.cur = d.exec.cur
  BY <1>3, <1>4, Zenon DEF Execution, Acknowledged, Numbered
<1>6. f = [d.exec EXCEPT !.pc = "loop", !.fid = @ + 1]
  BY <1>3, <1>4 DEF Execution, Acknowledged, Numbered
<1>7. \E k, x, a : /\ Goes(d.journal, d.exec.fid, "ack", k, x, now)
                   /\ a \subseteq d.acks \cup {d.exec.cur}
                   /\ deb' = [deb EXCEPT ![i] = With(d, f, k, a)]
  <2>1. CASE Recorded(i)
    <3>1. d.exec.fid < Len(d.journal) /\ Entry(i) = d.journal[d.exec.fid + 1]
      BY <1>1, <1>3, <2>1, RecordedIs
    <3>2. Goes(d.journal, d.exec.fid, "ack", d.journal, Entry(i), now) BY <3>1 DEF Goes
    <3>3. deb' = [deb EXCEPT ![i].exec = f] BY <1>1, <1>6, <2>1, Zenon DEF Acknowledge
    <3>4. deb' = [deb EXCEPT ![i] = [d EXCEPT !.exec = f]] BY <1>1, <1>3, <3>3
    <3>5. deb' = [deb EXCEPT ![i] = With(d, f, d.journal, d.acks)] BY <1>3, <3>4, WithIs, Zenon
    <3>6. d.acks \subseteq d.acks \cup {d.exec.cur} OBVIOUS
    <3> QED BY <3>2, <3>5, <3>6
  <2>2. CASE ~Recorded(i)
    <3>1. d.exec.fid = Len(d.journal) BY <1>1, <1>3, <2>2, RecordedIs
    <3>2. PICK x : x = [op |-> "ack", at |-> 0, msg |-> d.exec.cur] OBVIOUS
    <3>3. x \in Noted /\ x.at <= now /\ x.op = "ack" BY <1>3, <3>2 DEF Noted, Execution
    <3>4. PICK k : k = Append(d.journal, x) OBVIOUS
    <3>5. Goes(d.journal, d.exec.fid, "ack", k, x, now) BY <3>1, <3>3, <3>4 DEF Goes
    <3>6. PICK a : a = d.acks \cup {d.exec.cur} OBVIOUS
    <3>7. deb' = [deb EXCEPT ![i].exec = f, ![i].acks = @ \cup {f.cur},
              ![i].journal = Append(@, [op |-> "ack", at |-> 0, msg |-> f.cur])]
      BY <1>1, <1>6, <2>2, Zenon DEF Acknowledge
    <3>8. deb' = [deb EXCEPT ![i] = [d EXCEPT !.exec = f, !.acks = a, !.journal = k]]
      BY <1>1, <1>3, <1>5, <3>2, <3>4, <3>6, <3>7
    <3>9. [d EXCEPT !.exec = f, !.acks = a, !.journal = k] = With(d, f, k, a)
      BY <1>3 DEF Debouncing, With
    <3>10. deb' = [deb EXCEPT ![i] = With(d, f, k, a)] BY <3>8, <3>9, Zenon
    <3> QED BY <3>5, <3>6, <3>10
  <2> QED BY <2>1, <2>2
<1>8. PICK k, x, a : /\ Goes(d.journal, d.exec.fid, "ack", k, x, now)
                     /\ a \subseteq d.acks \cup {d.exec.cur}
                     /\ deb' = [deb EXCEPT ![i] = With(d, f, k, a)]
  BY <1>7
<1>9. f \in Execution /\ OnTrack(k, f, d.by) /\ OnTime(k, f, d.replayed, now)
  BY <1>3, <1>4, <1>8, AckGoes
<1>10. Goes(d.journal, d.exec.fid, OpOf(d.exec.pc), k, x, now) BY <1>3, <1>8 DEF OpOf
<1> QED BY <1>1, <1>2, <1>3, <1>5, <1>8, <1>9, <1>10, OperationGoes
-----------------------------------------------------------------------------
(* The end of a debouncer, and that of its target.                         *)

\* It stops: with its result, or an error, or because its process does.
LEMMA Stops ==
    ASSUME DInv, NEW i \in DOMAIN deb, NEW d, d = deb[i],
           NEW s \in {"ACTIVE", "ERROR", "SUCCESS"}, s = "SUCCESS" => Past(d),
           s = "ERROR" => Excused(d, options.mode),
           deb' = [deb EXCEPT ![i] = [d EXCEPT !.status = s, !.exec = NoExec]],
           target' = target, now' = now, call' = call, options' = options
    PROVE  DInv'
<1>1. d \in Debouncing BY DEF DInv, TypeInv
<1>2. PICK q : q = [d EXCEPT !.status = s, !.exec = NoExec] OBVIOUS
<1>3. /\ q \in Debouncing /\ q.by = d.by /\ q.journal = d.journal /\ q.acks = d.acks
      /\ q.exec = NoExec /\ q.status = s /\ q.replayed = d.replayed /\ q.gave = d.gave
  BY <1>1, <1>2, NoExecIs, Zenon DEF Debouncing
<1>4. q.exec.pc = "off" BY <1>3, NoExecIs
<1>5. Sound(q, now) /\ Onward(d, q) BY <1>3, <1>4, SameJournal
<1>6. Past(q) => Past(d) BY <1>3, <1>4 DEF Past, Launching
<1>7. q.exec.pc \notin {"inline", "failed"} /\ (q.status = "ERROR" => Excused(q, options.mode))
  BY <1>3, <1>4 DEF Excused
<1> QED BY <1>2, <1>3, <1>5, <1>6, <1>7, DebouncerGoes

\* A recorded timeout, come back as an error.
LEMMA ReplayTimeoutHolds == ASSUME DInv, NEW i, ReplayTimeout(i) PROVE DInv'
<1>1. PICK d : d = deb[i] OBVIOUS
<1>2. i \in DOMAIN deb /\ d \in Debouncing /\ deb \in Seq(Debouncing)
  BY <1>1 DEF ReplayTimeout, At, DInv, TypeInv
<1>3. deb' = [deb EXCEPT ![i].status = "ERROR", ![i].exec = NoExec] BY DEF ReplayTimeout
<1>4. deb' = [deb EXCEPT ![i] = [d EXCEPT !.status = "ERROR", !.exec = NoExec]]
  BY <1>1, <1>2, <1>3
<1>5. target' = target /\ now' = now /\ call' = call /\ options' = options
  BY DEF ReplayTimeout, Quiet
<1>6. Excused(d, options.mode)
  <2>1. At(i, "recv") /\ Recorded(i) /\ Entry(i).msg = Nil BY DEF ReplayTimeout
  <2>2. /\ Journal(d.journal, now) /\ OnTrack(d.journal, d.exec, d.by)
        /\ OnTime(d.journal, d.exec, d.replayed, now) /\ d.exec.pc = "recv"
        /\ d.journal \in Seq(Noted) /\ Len(d.journal) \in Nat /\ d.exec.fid \in Nat
        /\ d.exec.fid <= Len(d.journal)
    BY <1>1, <2>1, AtIs
  <2>3. PICK n \in Nat : n = d.exec.fid BY <2>2
  <2>4. n < Len(d.journal) /\ Entry(i) = d.journal[n + 1]
    BY <1>1, <2>1, <2>2, <2>3, RecordedIs
  <2>5. Stage(d.journal, n) = "recv" BY <2>2, <2>3 DEF OnTrack, Launching
  <2>6. n \in 0 .. Len(d.journal) - 1 /\ n + 1 \in 0 .. Len(d.journal) BY <2>2, <2>3, <2>4
  <2>7. d.journal[n + 1].op = "recv" /\ d.journal[n + 1].msg = Nil
    BY <2>1, <2>2, <2>4, <2>5, <2>6 DEF Journal, Kept
  <2>8. Stage(d.journal, n + 1) = "launch"
    <3>1. n >= 2 BY <2>3, <2>5, StageIs
    <3>2. n + 1 # 0 /\ n + 1 # 1 BY <3>1
    <3> QED BY <2>7, <3>2 DEF Stage
  <2>9. n + 1 = Len(d.journal) BY <2>2, <2>6, <2>8, LaunchIsLast
  <2>10. d.replayed BY <2>2, <2>3, <2>4 DEF OnTime
  <2>11. d.journal # <<>> BY <2>2, <2>9
  <2> QED BY <2>7, <2>9, <2>10, <2>11 DEF Excused
<1> QED BY <1>1, <1>2, <1>4, <1>5, <1>6, Stops

\* Another target with the deduplication id: the debouncer's error.
LEMMA LaunchRefusedHolds == ASSUME DInv, NEW i, LaunchRefused(i) PROVE DInv'
<1>1. PICK d : d = deb[i] OBVIOUS
<1>2. i \in DOMAIN deb /\ d \in Debouncing /\ deb \in Seq(Debouncing)
  BY <1>1 DEF LaunchRefused, At, DInv, TypeInv
<1>3. deb' = [deb EXCEPT ![i].status = "ERROR", ![i].exec = NoExec] BY DEF LaunchRefused
<1>4. deb' = [deb EXCEPT ![i] = [d EXCEPT !.status = "ERROR", !.exec = NoExec]]
  BY <1>1, <1>2, <1>3
<1>5. target' = target /\ now' = now /\ call' = call /\ options' = options
  BY DEF LaunchRefused, Quiet
<1>6. Excused(d, options.mode) BY DEF LaunchRefused, Clash, Mode, Excused
<1> QED BY <1>1, <1>2, <1>4, <1>5, <1>6, Stops

\* Its result is recorded.
LEMMA FinishHolds == ASSUME DInv, NEW i, Finish(i) PROVE DInv'
<1>1. PICK d : d = deb[i] OBVIOUS
<1>2. i \in DOMAIN deb /\ d \in Debouncing /\ d.exec.pc \in {"end", "failed"}
  BY <1>1 DEF Finish, At, DInv, TypeInv
<1>3. PICK s \in {"ERROR", "SUCCESS"} : s = IF At(i, "end") THEN "SUCCESS" ELSE "ERROR"
  OBVIOUS
<1>4. deb' = [deb EXCEPT ![i] = [d EXCEPT !.status = s, !.exec = NoExec]]
  <2>1. deb \in Seq(Debouncing) BY DEF DInv, TypeInv
  <2>2. deb' = [deb EXCEPT ![i].status = s, ![i].exec = NoExec] BY <1>3, Zenon DEF Finish
  <2> QED BY <1>1, <1>2, <2>1, <2>2
<1>5. target' = target /\ now' = now /\ call' = call /\ options' = options
  BY DEF Finish, Quiet
<1>6. Past(d) BY <1>2 DEF Past
<1>7. ASSUME s = "ERROR" PROVE Excused(d, options.mode)
  <2>1. d.exec.pc = "failed" BY <1>1, <1>2, <1>3, <1>7 DEF At
  <2>2. History(d, options.mode) BY <1>1, <1>2 DEF DInv
  <2> QED BY <1>6, <2>1, <2>2 DEF History, Excused
<1> QED BY <1>1, <1>2, <1>3, <1>4, <1>5, <1>6, <1>7, Stops

\* The process that executes it stops.
LEMMA CrashHolds == ASSUME DInv, NEW i, Crash(i) PROVE DInv'
<1>1. PICK d : d = deb[i] OBVIOUS
<1>2. i \in DOMAIN deb /\ d \in Debouncing /\ deb \in Seq(Debouncing) /\ d.exec.pc # "off"
  BY <1>1 DEF Crash, DInv, TypeInv
<1>3. d.status = "ACTIVE" BY <1>1, <1>2 DEF DInv, Sound
<1>4. deb' = [deb EXCEPT ![i].exec = NoExec] BY DEF Crash
<1>5. deb' = [deb EXCEPT ![i] = [d EXCEPT !.exec = NoExec]] BY <1>1, <1>2, <1>4
<1>6. [d EXCEPT !.exec = NoExec] = [d EXCEPT !.status = "ACTIVE", !.exec = NoExec]
  BY <1>2, <1>3 DEF Debouncing
<1>7. deb' = [deb EXCEPT ![i] = [d EXCEPT !.status = "ACTIVE", !.exec = NoExec]]
  BY <1>5, <1>6, Zenon
<1>8. target' = target /\ now' = now /\ call' = call /\ options' = options BY DEF Crash
<1> QED BY <1>1, <1>2, <1>7, <1>8, Stops

\* A message is consumed, and not recorded yet.
LEMMA ConsumeHolds == ASSUME DInv, NEW i, Consume(i) PROVE DInv'
<1>1. PICK d : d = deb[i] OBVIOUS
<1>2. At(i, "recv") /\ ~Recorded(i) /\ d.mail # <<>> BY <1>1 DEF Consume
<1>3. /\ i \in DOMAIN deb /\ d \in Debouncing /\ d.exec.pc = "recv" /\ d.status = "ACTIVE"
      /\ OnTrack(d.journal, d.exec, d.by) /\ OnTime(d.journal, d.exec, d.replayed, now)
      /\ d.journal \in Seq(Noted) /\ d.exec \in Execution
      /\ d.exec.fid \in Nat /\ d.exec.fid <= Len(d.journal)
  BY <1>1, <1>2, AtIs
<1>4. d.exec.fid = Len(d.journal) BY <1>1, <1>2, <1>3, RecordedIs
<1>5. d.mail \in Seq(Caller) BY <1>3, Fields
<1>6. PICK m, rest : m = Head(d.mail) /\ rest = Tail(d.mail) OBVIOUS
<1>7. m \in Caller /\ rest \in Seq(Caller) BY <1>2, <1>5, <1>6
<1>8. PICK e : e = [d.exec EXCEPT !.took = m] OBVIOUS
<1>9. /\ e \in Execution /\ e.pc = "recv" /\ e.fid = d.exec.fid /\ e.cur = d.exec.cur
      /\ e.max = d.exec.max /\ e.at = d.exec.at /\ e.seen = d.exec.seen
      /\ e.deadline = d.exec.deadline
  BY <1>3, <1>7, <1>8 DEF Execution
<1>10. PICK q : q = [d EXCEPT !.exec = e, !.mail = rest] OBVIOUS
<1>11. /\ q \in Debouncing /\ q.by = d.by /\ q.journal = d.journal /\ q.acks = d.acks
       /\ q.exec = e /\ q.status = d.status /\ q.replayed = d.replayed /\ q.gave = d.gave
  BY <1>3, <1>7, <1>9, <1>10, Zenon DEF Debouncing
<1>12. OnTrack(d.journal, e, d.by)
  BY <1>3, <1>4, <1>9 DEF OnTrack, Launching
<1>13. OnTime(d.journal, e, d.replayed, now) BY <1>3, <1>9 DEF OnTime, Launching
<1>14. Sound(q, now) /\ Onward(d, q)
  BY <1>1, <1>3, <1>11, <1>12, <1>13, SameJournal
<1>15. ~Past(q) BY <1>3, <1>9, <1>11 DEF Past
<1>16. deb' = [deb EXCEPT ![i].exec.took = m, ![i].mail = Tail(@)]
  BY <1>1, <1>6 DEF Consume
<1>17. deb' = [deb EXCEPT ![i] = q]
  <2>1. deb \in Seq(Debouncing) BY DEF DInv, TypeInv
  <2>2. deb' = [deb EXCEPT ![i] = [d EXCEPT !.exec = e, !.mail = rest]]
    BY <1>1, <1>3, <1>6, <1>8, <1>16, <2>1
  <2> QED BY <1>10, <2>2
<1>18. target' = target /\ now' = now /\ call' = call /\ options' = options
  BY DEF Consume, Quiet
<1>19. q.exec.pc \notin {"inline", "failed"} /\ q.status # "ERROR" BY <1>3, <1>9, <1>11
<1> QED BY <1>19, <1>1, <1>3, <1>11, <1>14, <1>15, <1>17, <1>18, DebouncerGoes

\* Past the launch: the journal, and the times, stay as they are.
Passed(i, d, q, p, g) ==
    /\ q \in Debouncing /\ deb' = [deb EXCEPT ![i] = q] /\ Sound(q, now) /\ Onward(d, q)
    /\ q.by = d.by /\ q.journal = d.journal /\ q.replayed = d.replayed
    /\ q.status = "ACTIVE" /\ q.exec.pc = p /\ q.gave = g

LEMMA Passes ==
    ASSUME DInv, NEW i, NEW pc \in Launching, At(i, pc), NEW d, d = deb[i],
           NEW p \in {"inline", "end", "failed"}, NEW g \in [input : Caller \cup {Nil}, at : Nat],
           \/ deb' = [deb EXCEPT ![i].exec.pc = p] /\ g = d.gave
           \/ deb' = [deb EXCEPT ![i].exec.pc = p, ![i].gave = g]
    PROVE  \E q : Passed(i, d, q, p, g)
<1>1. /\ i \in DOMAIN deb /\ d \in Debouncing /\ d.exec.pc = pc /\ d.status = "ACTIVE"
      /\ OnTrack(d.journal, d.exec, d.by) /\ OnTime(d.journal, d.exec, d.replayed, now)
      /\ d.exec \in Execution
  BY AtIs DEF Launching
<1>2. PICK e : e = [d.exec EXCEPT !.pc = p] OBVIOUS
<1>3. /\ e \in Execution /\ e.pc = p /\ e.fid = d.exec.fid /\ e.cur = d.exec.cur
      /\ e.max = d.exec.max /\ e.at = d.exec.at /\ e.took = d.exec.took
  BY <1>1, <1>2 DEF Execution, PC, Launching
<1>4. PICK q : q = [d EXCEPT !.exec = e, !.gave = g] OBVIOUS
<1>5. /\ q \in Debouncing /\ q.by = d.by /\ q.journal = d.journal /\ q.acks = d.acks
      /\ q.exec = e /\ q.status = d.status /\ q.replayed = d.replayed /\ q.gave = g
  BY <1>1, <1>3, <1>4, Zenon DEF Debouncing
<1>6. p \in Launching /\ p # "launch" /\ p # "recv" /\ p # "start" /\ pc # "recv" /\ pc # "start"
  BY DEF Launching
<1>7. OnTrack(d.journal, e, d.by)
  BY <1>1, <1>3, <1>6 DEF OnTrack
<1>8. OnTime(d.journal, e, d.replayed, now) BY <1>1, <1>3, <1>6 DEF OnTime
<1>9. Sound(q, now) /\ Onward(d, q) BY <1>1, <1>5, <1>7, <1>8, SameJournal
<1>10. deb' = [deb EXCEPT ![i] = q]
  <2>1. deb \in Seq(Debouncing) BY DEF DInv, TypeInv
  <2>2. CASE deb' = [deb EXCEPT ![i].exec.pc = p] /\ g = d.gave
    <3>1. deb' = [deb EXCEPT ![i] = [d EXCEPT !.exec = e]] BY <1>1, <1>2, <2>1, <2>2
    <3>2. [d EXCEPT !.exec = e] = q BY <1>1, <1>4, <2>2 DEF Debouncing
    <3> QED BY <3>1, <3>2, Zenon
  <2>3. CASE deb' = [deb EXCEPT ![i].exec.pc = p, ![i].gave = g]
    <3>1. deb' = [deb EXCEPT ![i] = [d EXCEPT !.exec = e, !.gave = g]]
      BY <1>1, <1>2, <2>1, <2>3
    <3> QED BY <1>4, <3>1
  <2> QED BY <2>2, <2>3
<1> QED BY <1>1, <1>3, <1>5, <1>9, <1>10 DEF Passed

\* The target starts, when it is due, with the last input: a row for it, or an
\* execution.
LEMMA LaunchHolds == ASSUME DInv, NEW i, Launch(i) PROVE DInv'
<1>1. PICK d : d = deb[i] OBVIOUS
<1>2. At(i, "launch") /\ now' = now /\ call' = call /\ options' = options BY DEF Launch
<1>3. /\ i \in DOMAIN deb /\ d \in Debouncing /\ d.exec.pc = "launch" /\ d.status = "ACTIVE"
      /\ Journal(d.journal, now) /\ OnTrack(d.journal, d.exec, d.by)
      /\ OnTime(d.journal, d.exec, d.replayed, now)
      /\ now \in Nat /\ d.journal \in Seq(Noted) /\ d.exec \in Execution
      /\ d.by \in Caller /\ Len(d.journal) \in Nat /\ d.exec.fid \in Nat
      /\ d.exec.fid <= Len(d.journal)
  BY <1>1, <1>2, AtIs
<1>4. PICK u \in Target : u = options.id[d.by] BY <1>3, IdIs DEF DInv
<1>5. TargetOf(i) = u BY <1>1, <1>4 DEF TargetOf
<1>6. Stage(d.journal, d.exec.fid) = "launch" BY <1>3 DEF OnTrack, Launching
<1>7. d.exec.fid = Len(d.journal) BY <1>3, <1>6, LaunchIsLast
<1>8. /\ d.exec.cur = LastBy(d.journal, Len(d.journal), d.by)
      /\ d.exec.cur \in Caller
  <2>1. d.exec.cur = LastBy(d.journal, Len(d.journal), d.by) BY <1>3, <1>7 DEF OnTrack
  <2>2. Len(d.journal) \in 0 .. Len(d.journal) BY <1>3
  <2> QED BY <1>3, <2>1, <2>2, LastIs
<1>9. PICK p \in {"inline", "end"} : p = IF Mode = "inline" THEN "inline" ELSE "end"
  OBVIOUS
<1>10. PICK fresh \in BOOLEAN : fresh = (target[u].status = "ABSENT" \/ Mode = "inline")
  BY Zenon
<1>11. PICK g : g = IF fresh THEN [input |-> d.exec.cur, at |-> now] ELSE d.gave OBVIOUS
<1>12. g \in [input : Caller \cup {Nil}, at : Nat] BY <1>3, <1>8, <1>11, Fields
<1>13. deb' = [deb EXCEPT ![i].exec.pc = p, ![i].gave = g]
  <2>1. deb \in Seq(Debouncing) BY DEF DInv, TypeInv
  <2>2. deb' = [deb EXCEPT ![i].exec.pc = p,
                           ![i].gave = IF fresh THEN [input |-> d.exec.cur, at |-> now] ELSE @]
    BY <1>1, <1>5, <1>9, <1>10, Zenon DEF Launch
  <2> QED BY <1>1, <1>11, <2>1, <2>2
<1>14. PICK q : Passed(i, d, q, p, g)
  <2>1. "launch" \in Launching BY DEF Launching
  <2> QED BY <1>1, <1>2, <1>9, <1>12, <1>13, <2>1, Passes
<1>15. /\ q \in Debouncing /\ deb' = [deb EXCEPT ![i] = q] /\ Sound(q, now) /\ Onward(d, q)
       /\ q.by = d.by /\ q.journal = d.journal /\ q.replayed = d.replayed
       /\ q.status = "ACTIVE" /\ q.exec.pc = p /\ q.gave = g
  BY <1>14 DEF Passed
<1>16. PICK row : row = [status |-> "ACTIVE", by |-> i, input |-> d.exec.cur] OBVIOUS
<1>17. row \in Started /\ row.status = "ACTIVE" /\ row.by = i /\ row.input = d.exec.cur
  <2>1. i \in Nat BY <1>3 DEF DInv, TypeInv
  <2> QED BY <1>3, <1>16, <2>1 DEF Started, Execution
<1>18. StartedBy(u, options.id, row, q)
  BY <1>4, <1>6, <1>7, <1>8, <1>15, <1>17 DEF StartedBy
<1>19. target \in [Target -> Started] /\ call \in [Caller -> Calling] BY DEF DInv, TypeInv
<1>20. target' = IF target[u].status # "ABSENT" THEN target ELSE [target EXCEPT ![u] = row]
  BY <1>1, <1>5, <1>16 DEF Launch
<1>21. target' \in [Target -> Started] /\ target'[u].status # "ABSENT"
  BY <1>17, <1>19, <1>20
<1>22. ASSUME NEW t \in Target
       PROVE  \/ target'[t] = target[t]
              \/ /\ target'[t].status # "ABSENT" /\ target'[t].by \in DOMAIN deb
                 /\ StartedBy(t, options.id, target'[t],
                              IF target'[t].by = i THEN q ELSE deb[target'[t].by])
  <2>1. CASE target'[t] = target[t] BY <2>1
  <2>2. CASE target'[t] # target[t]
    <3>1. t = u /\ target'[t] = row BY <1>19, <1>20, <2>2
    <3> QED BY <1>3, <1>17, <1>18, <1>21, <3>1
  <2> QED BY <2>1, <2>2
<1>23. TargetGoes(i, q) BY <1>21, <1>22 DEF TargetGoes
<1>24. CallGoes BY <1>2, <1>19 DEF CallGoes
<1>25. p \in {"inline", "failed"} => options.mode = "inline" BY <1>9 DEF Mode
<1>26. History(q, options.mode)
  <2>1. History(d, options.mode) BY <1>1, <1>3 DEF DInv
  <2>2. CASE fresh
    <3>1. g.input = d.exec.cur /\ g.at = now BY <1>11, <2>2
    <3>2. g # NotYet BY <1>8, <3>1, ConstantsAre DEF NotYet
    <3>3. Gave(q)
      <4>1. q.gave.at >= DueBy(d.journal, Len(d.journal))
        <5>1. d.exec.at = DueBy(d.journal, Len(d.journal)) /\ d.exec.at \in Nat
          BY <1>3, <1>7 DEF OnTrack, Execution
        <5>2. d.exec.at <= now BY <1>3 DEF OnTime, Launching
        <5> QED BY <1>3, <1>15, <3>1, <5>1, <5>2
      <4>2. ~q.replayed => q.gave.at <= d.journal[1].at + Timeout
        BY <1>3, <1>15, <3>1 DEF OnTrack, OnTime
      <4> QED BY <1>6, <1>7, <1>8, <1>15, <3>1, <4>1, <4>2 DEF Gave
    <3> QED BY <1>15, <1>25, <3>2, <3>3 DEF History
  <2>3. CASE ~fresh
    <3>1. options.mode # "inline" /\ g = d.gave BY <1>10, <1>11, <2>3 DEF Mode
    <3>2. q.gave # NotYet => Gave(q) BY <1>15, <2>1, <3>1 DEF History, Gave
    <3> QED BY <1>15, <1>25, <3>1, <3>2 DEF History
  <2> QED BY <2>2, <2>3
<1>27. target'[options.id[q.by]].status # "ABSENT" BY <1>4, <1>15, <1>21
<1> QED BY <1>1, <1>2, <1>3, <1>15, <1>23, <1>24, <1>26, <1>27, DebouncerMoves

\* A target that ends is one that was started.
LEMMA EndIs ==
    ASSUME DInv, NEW t \in Target, target[t].status # "ABSENT",
           target' = [target EXCEPT ![t].status = "ENDED"]
    PROVE  /\ target' \in [Target -> Started]
           /\ target'[t].status # "ABSENT" /\ target'[t].by = target[t].by
           /\ \A b \in Target : target'[b] = target[b] \/ b = t
           /\ target[t].by \in DOMAIN deb
           /\ StartedBy(t, options.id, target'[t], deb[target[t].by])
<1>1. target \in [Target -> Started] /\ target[t] \in Started BY DEF DInv, TypeInv
<1>2. /\ target'[t] = [target[t] EXCEPT !.status = "ENDED"]
      /\ \A b \in Target : target'[b] = target[b] \/ b = t
  BY <1>1
<1>3. /\ target'[t] \in Started /\ target'[t].status = "ENDED"
      /\ target'[t].by = target[t].by /\ target'[t].input = target[t].input
  BY <1>1, <1>2 DEF Started
<1>4. target' \in [Target -> Started] BY <1>1, <1>3
<1>5. target[t].by \in DOMAIN deb /\ StartedBy(t, options.id, target[t], deb[target[t].by])
  BY DEF DInv, TargetOK
<1> QED BY <1>2, <1>3, <1>4, <1>5 DEF StartedBy

LEMMA ExecutedHolds == ASSUME DInv, NEW i, Executed(i) PROVE DInv'
<1>1. PICK d : d = deb[i] OBVIOUS
<1>2. /\ At(i, "inline") /\ now' = now /\ call' = call /\ options' = options
      /\ target' = [target EXCEPT ![TargetOf(i)].status = "ENDED"]
  BY DEF Executed
<1>3. PICK p \in {"end", "failed"} : deb' = [deb EXCEPT ![i].exec.pc = p] BY DEF Executed
<1>4. /\ i \in DOMAIN deb /\ d \in Debouncing /\ d.exec.pc = "inline" /\ d.by \in Caller
  BY <1>1, <1>2, AtIs
<1>5. PICK q : Passed(i, d, q, p, d.gave)
  <2>1. "inline" \in Launching BY DEF Launching
  <2>2. PICK g \in [input : Caller \cup {Nil}, at : Nat] : g = d.gave BY <1>4, Fields
  <2>3. p \in {"inline", "end", "failed"} OBVIOUS
  <2>4. \E q : Passed(i, d, q, p, g) BY <1>1, <1>2, <1>3, <2>1, <2>2, <2>3, Passes
  <2> QED BY <2>2, <2>4
<1>6. /\ q \in Debouncing /\ deb' = [deb EXCEPT ![i] = q] /\ Sound(q, now) /\ Onward(d, q)
      /\ q.by = d.by /\ q.journal = d.journal /\ q.replayed = d.replayed
      /\ q.status = "ACTIVE" /\ q.exec.pc = p /\ q.gave = d.gave
  BY <1>5 DEF Passed
<1>7. PICK t \in Target : t = options.id[d.by] BY <1>4, IdIs DEF DInv
<1>8. TargetOf(i) = t BY <1>1, <1>7 DEF TargetOf
<1>9. Past(d) BY <1>4 DEF Past
<1>10. target[t].status # "ABSENT" BY <1>1, <1>4, <1>7, <1>9 DEF DInv
<1>11. /\ target' \in [Target -> Started]
       /\ target'[t].status # "ABSENT" /\ target'[t].by = target[t].by
       /\ \A b \in Target : target'[b] = target[b] \/ b = t
       /\ target[t].by \in DOMAIN deb
       /\ StartedBy(t, options.id, target'[t], deb[target[t].by])
  BY <1>2, <1>8, <1>10, EndIs
<1>12. ASSUME target[t].by = i PROVE StartedBy(t, options.id, target'[t], q)
  <2>1. StartedBy(t, options.id, target'[t], d) BY <1>1, <1>11, <1>12
  <2> QED BY <1>4, <1>6, <2>1, StaysStarted
<1>13. ASSUME NEW b \in Target
       PROVE  \/ target'[b] = target[b]
              \/ /\ target'[b].status # "ABSENT" /\ target'[b].by \in DOMAIN deb
                 /\ StartedBy(b, options.id, target'[b],
                              IF target'[b].by = i THEN q ELSE deb[target'[b].by])
  BY <1>11, <1>12
<1>14. call \in [Caller -> Calling] BY DEF DInv, TypeInv
<1>15. target'[options.id[q.by]].status # "ABSENT" BY <1>6, <1>7, <1>11
<1>16. TargetGoes(i, q) BY <1>11, <1>13 DEF TargetGoes
<1>17. CallGoes BY <1>2, <1>14 DEF CallGoes
<1>18. History(q, options.mode)
  <2>1. History(d, options.mode) BY <1>1, <1>4 DEF DInv
  <2>2. options.mode = "inline" BY <1>4, <2>1 DEF History
  <2>3. d.gave # NotYet BY <1>9, <2>1, <2>2 DEF History
  <2>4. Gave(q) BY <1>6, <2>1, <2>3 DEF History, Gave
  <2> QED BY <1>6, <2>2, <2>3, <2>4 DEF History
<1> QED BY <1>1, <1>2, <1>4, <1>6, <1>15, <1>16, <1>17, <1>18, DebouncerMoves

LEMMA TargetEndsHolds == ASSUME DInv, NEW t \in Target, TargetEnds(t) PROVE DInv'
<1>1. /\ target[t].status # "ABSENT" /\ target' = [target EXCEPT ![t].status = "ENDED"]
      /\ now' = now /\ call' = call /\ deb' = deb /\ options' = options
  BY DEF TargetEnds
<1>2. /\ target' \in [Target -> Started]
      /\ target'[t].status # "ABSENT" /\ target'[t].by = target[t].by
      /\ \A b \in Target : target'[b] = target[b] \/ b = t
      /\ target[t].by \in DOMAIN deb
      /\ StartedBy(t, options.id, target'[t], deb[target[t].by])
  BY <1>1, EndIs
<1>3. PICK i \in DOMAIN deb : i = target[t].by BY <1>2
<1>4. PICK q : q = deb[i] OBVIOUS
<1>5. deb \in Seq(Debouncing) /\ call \in [Caller -> Calling] BY DEF DInv, TypeInv
<1>6. q \in Debouncing /\ Sound(q, now) /\ History(q, options.mode) BY <1>4, <1>5 DEF DInv
<1>7. deb' = [deb EXCEPT ![i] = q] BY <1>1, <1>4, <1>5
<1>8. Onward(q, q)
  <2>1. Len(q.journal) \in Nat BY <1>6, Fields
  <2> QED BY <2>1 DEF Onward
<1>9. Past(q) => target'[options.id[q.by]].status # "ABSENT"
  <2>1. Past(q) => target[options.id[q.by]].status # "ABSENT" BY <1>4 DEF DInv
  <2>2. options.id[q.by] \in Target BY <1>6, IdIs DEF DInv
  <2> QED BY <1>2, <2>1, <2>2
<1>10. ASSUME NEW b \in Target
       PROVE  \/ target'[b] = target[b]
              \/ /\ target'[b].status # "ABSENT" /\ target'[b].by \in DOMAIN deb
                 /\ StartedBy(b, options.id, target'[b],
                              IF target'[b].by = i THEN q ELSE deb[target'[b].by])
  BY <1>2, <1>3, <1>4
<1>11. TargetGoes(i, q) BY <1>2, <1>10 DEF TargetGoes
<1>12. CallGoes BY <1>1, <1>5 DEF CallGoes
<1> QED BY <1>1, <1>4, <1>6, <1>7, <1>8, <1>9, <1>11, <1>12, DebouncerMoves
-----------------------------------------------------------------------------
(* The calls, the clock, and the whole.                                    *)

\* A call alone: one that has not returned, or one that is made again.
LEMMA CallMoves ==
    ASSUME DInv, NEW c \in Caller, NEW r \in Calling, call' = [call EXCEPT ![c] = r],
           call[c].pc # "done" \/ c \in Durable,
           r.pc \in {"send", "wait", "done"} => r.via \in DOMAIN deb,
           r.pc = "done" => c \in InputsBy(deb[r.via]),
           deb' = deb, target' = target, now' = now, options' = options
    PROVE  DInv'
<1>1. call \in [Caller -> Calling] /\ deb \in Seq(Debouncing) BY DEF DInv, TypeInv
<1>2. /\ call' \in [Caller -> Calling] /\ call'[c] = r
      /\ \A b \in Caller : b = c \/ call'[b] = call[b]
  BY <1>1
<1>3. TypeInv' BY <1>2 DEF DInv, TypeInv
<1>4. ASSUME NEW b \in Caller PROVE CallOK(b)'
  <2>1. CallOK(b) BY DEF DInv
  <2>2. CASE b = c BY <1>2, <2>2 DEF CallOK
  <2>3. CASE b # c BY <1>2, <2>1, <2>3 DEF CallOK
  <2> QED BY <2>2, <2>3
<1>6. ASSUME NEW t \in Target PROVE TargetOK(t)'
  <2>1. TargetOK(t) BY DEF DInv
  <2> QED BY <2>1 DEF TargetOK
<1>5. ASSUME NEW i \in DOMAIN deb'
      PROVE  /\ Sound(deb'[i], now') /\ Once(i)' /\ History(deb'[i], options'.mode)
             /\ Past(deb'[i]) => target'[options'.id[deb'[i].by]].status # "ABSENT"
  <2>1. /\ Sound(deb[i], now) /\ Once(i) /\ History(deb[i], options.mode)
        /\ Past(deb[i]) => target[options.id[deb[i].by]].status # "ABSENT"
    BY DEF DInv
  <2>2. deb[i].by \in Caller BY <1>1, Fields
  <2>3. Once(i)'
    <3>1. CASE deb[i].by = c BY <2>1, <3>1 DEF Once
    <3>2. CASE deb[i].by # c
      <4>1. call'[deb[i].by] = call[deb[i].by] BY <1>2, <2>2, <3>2
      <4> QED BY <2>1, <4>1 DEF Once
    <3> QED BY <3>1, <3>2
  <2> QED BY <2>1, <2>3
<1> QED BY <1>3, <1>4, <1>5, <1>6 DEF DInv

LEMMA RefusedHolds == ASSUME DInv, NEW c \in Caller, Refused(c) PROVE DInv'
<1>1. PICK r : r = [call[c] EXCEPT !.pc = "find"] OBVIOUS
<1>2. call \in [Caller -> Calling] /\ call[c] \in Calling BY DEF DInv, TypeInv
<1>3. r \in Calling /\ r.pc = "find" BY <1>1, <1>2 DEF Calling
<1>4. /\ call[c].pc # "done" /\ deb' = deb /\ target' = target /\ now' = now /\ options' = options
      /\ call' = [call EXCEPT ![c].pc = "find"]
  BY DEF Refused
<1>5. call' = [call EXCEPT ![c] = r] BY <1>1, <1>2, <1>4
<1> QED BY <1>3, <1>4, <1>5, CallMoves

\* The debouncer it finds is one whose row is there.
LEMMA FindHolds == ASSUME DInv, NEW c \in Caller, Find(c) PROVE DInv'
<1>1. call \in [Caller -> Calling] /\ call[c] \in Calling BY DEF DInv, TypeInv
<1>2. call[c].pc # "done" /\ deb' = deb /\ target' = target /\ now' = now /\ options' = options
  BY DEF Find
<1>3. CASE Alive = {}
  <2>1. PICK r : r = [call[c] EXCEPT !.pc = "enqueue"] OBVIOUS
  <2>2. r \in Calling /\ r.pc = "enqueue" BY <1>1, <2>1 DEF Calling
  <2>3. call' = [call EXCEPT ![c].pc = "enqueue"] BY <1>3 DEF Find
  <2>4. call' = [call EXCEPT ![c] = r] BY <1>1, <2>1, <2>3
  <2> QED BY <1>2, <2>2, <2>4, CallMoves
<1>4. CASE Alive # {}
  <2>1. DOMAIN deb = 1 .. Len(deb) /\ Len(deb) \in Nat BY DEF DInv, TypeInv
  <2>2. Alive \subseteq DOMAIN deb BY DEF Alive
  <2>3. Alive \subseteq Nat /\ \A i \in Alive : i <= Len(deb) BY <2>1, <2>2
  <2>4. PICK v : v = Max(Alive) OBVIOUS
  <2>5. v \in Alive BY <1>4, <2>1, <2>3, <2>4, GreatestOf
  <2>6. v \in DOMAIN deb /\ v \in Nat BY <2>2, <2>3, <2>5
  <2>7. PICK r : r = [call[c] EXCEPT !.pc = "send", !.via = v] OBVIOUS
  <2>8. r \in Calling /\ r.pc = "send" /\ r.via = v BY <1>1, <2>6, <2>7 DEF Calling
  <2>9. call' = [call EXCEPT ![c].pc = "send", ![c].via = v] BY <1>4, <2>4 DEF Find
  <2>10. call' = [call EXCEPT ![c] = r] BY <1>1, <2>7, <2>9
  <2> QED BY <1>2, <2>6, <2>8, <2>10, CallMoves
<1> QED BY <1>3, <1>4

\* An acknowledgement is for an input that is recorded.
LEMMA ReturnHolds == ASSUME DInv, NEW c \in Caller, Return(c) PROVE DInv'
<1>1. PICK r : r = [call[c] EXCEPT !.pc = "done"] OBVIOUS
<1>2. call \in [Caller -> Calling] /\ call[c] \in Calling BY DEF DInv, TypeInv
<1>3. r \in Calling /\ r.pc = "done" /\ r.via = call[c].via BY <1>1, <1>2 DEF Calling
<1>4. /\ call[c].pc = "wait" /\ Acked(c) /\ deb' = deb /\ target' = target /\ now' = now /\ options' = options
      /\ call' = [call EXCEPT ![c].pc = "done"]
  BY DEF Return
<1>5. call' = [call EXCEPT ![c] = r] BY <1>1, <1>2, <1>4
<1>6. call[c].via \in DOMAIN deb BY <1>4 DEF DInv, CallOK
<1>7. c \in InputsBy(deb[call[c].via]) BY <1>4, <1>6 DEF DInv, Sound, Acked
<1> QED BY <1>3, <1>4, <1>5, <1>6, <1>7, CallMoves

LEMMA GiveUpHolds == ASSUME DInv, NEW c \in Caller, GiveUp(c) PROVE DInv'
<1>1. call \in [Caller -> Calling] /\ call[c] \in Calling BY DEF DInv, TypeInv
<1>2. call[c].waits + 1 \in Nat BY <1>1 DEF Calling
<1>3. PICK r : r = [call[c] EXCEPT !.pc = "enqueue", !.waits = call[c].waits + 1] OBVIOUS
<1>4. r \in Calling /\ r.pc = "enqueue" BY <1>1, <1>2, <1>3 DEF Calling
<1>5. /\ call[c].pc # "done" /\ deb' = deb /\ target' = target /\ now' = now /\ options' = options
      /\ call' = [call EXCEPT ![c].pc = "enqueue", ![c].waits = @ + 1]
  BY DEF GiveUp
<1>6. call' = [call EXCEPT ![c] = r] BY <1>1, <1>3, <1>5
<1> QED BY <1>4, <1>5, <1>6, CallMoves

LEMMA CallAgainHolds == ASSUME DInv, NEW c \in Caller, CallAgain(c) PROVE DInv'
<1>1. call \in [Caller -> Calling] /\ call[c] \in Calling BY DEF DInv, TypeInv
<1>2. PICK r : r = [NoCall EXCEPT !.waits = call[c].waits] OBVIOUS
<1>3. r \in Calling /\ r.pc = "enqueue" BY <1>1, <1>2 DEF NoCall, Calling
<1>4. /\ c \in Durable /\ deb' = deb /\ target' = target /\ now' = now /\ options' = options
      /\ call' = [call EXCEPT ![c] = r]
  BY <1>2 DEF CallAgain
<1> QED BY <1>3, <1>4, CallMoves

\* The message goes to the debouncer's row.
LEMMA SendHolds == ASSUME DInv, NEW c \in Caller, Send(c) PROVE DInv'
<1>1. call \in [Caller -> Calling] /\ call[c] \in Calling /\ deb \in Seq(Debouncing)
  BY DEF DInv, TypeInv
<1>2. /\ call[c].pc = "send" /\ target' = target /\ now' = now /\ options' = options
      /\ call' = [call EXCEPT ![c].pc = "wait"] /\ deb' = Posted(c)
  BY DEF Send
<1>3. PICK i : i = call[c].via OBVIOUS
<1>4. i \in DOMAIN deb BY <1>2, <1>3 DEF DInv, CallOK
<1>5. PICK d : d = deb[i] OBVIOUS
<1>6. d \in Debouncing /\ Sound(d, now) BY <1>4, <1>5 DEF DInv, TypeInv
<1>7. PICK m : m = Append(d.mail, c) OBVIOUS
<1>8. m \in Seq(Caller) BY <1>6, <1>7, Fields
<1>9. PICK q : q = [d EXCEPT !.mail = m] OBVIOUS
<1>10. /\ q \in Debouncing /\ q.by = d.by /\ q.journal = d.journal /\ q.acks = d.acks
       /\ q.exec = d.exec /\ q.status = d.status /\ q.replayed = d.replayed
       /\ q.gave = d.gave
  BY <1>6, <1>8, <1>9, Zenon DEF Debouncing
<1>11. deb' = [deb EXCEPT ![i] = q]
  <2>1. deb' = [deb EXCEPT ![i].mail = Append(@, c)] BY <1>2, <1>3 DEF Posted
  <2>2. deb' = [deb EXCEPT ![i] = [d EXCEPT !.mail = m]] BY <1>1, <1>4, <1>5, <1>7, <2>1
  <2> QED BY <1>9, <2>2
<1>12. Sound(q, now) /\ Onward(d, q)
  BY <1>4, <1>5, <1>6, <1>10, SameJournal DEF Sound
<1>13. PICK r : r = [call[c] EXCEPT !.pc = "wait"] OBVIOUS
<1>14. r \in Calling /\ r.pc = "wait" /\ r.via = i BY <1>1, <1>3, <1>13 DEF Calling
<1>15. call' = [call EXCEPT ![c] = r] BY <1>1, <1>2, <1>13
<1>16. /\ call' \in [Caller -> Calling] /\ call'[c] = r
       /\ \A b \in Caller : b = c \/ call'[b] = call[b]
  BY <1>1, <1>14, <1>15
<1>17. DOMAIN deb' = DOMAIN deb BY <1>1, <1>4, <1>10, <1>11
<1>18. CallGoes BY <1>2, <1>4, <1>14, <1>16 DEF CallGoes
<1>19. TargetGoes(i, q) BY <1>2 DEF TargetGoes, DInv, TypeInv
<1>20. Past(q) => target'[options.id[q.by]].status # "ABSENT"
  BY <1>2, <1>4, <1>5, <1>10 DEF DInv, Past
<1>21. History(q, options.mode)
  <2>1. History(d, options.mode) BY <1>4, <1>5 DEF DInv
  <2>2. (Past(q) => Past(d)) /\ (q.status = "ERROR" => Excused(q, options.mode))
    BY <1>10, <2>1 DEF Past, Excused, History
  <2> QED BY <1>6, <1>10, <1>12, <2>1, <2>2, StaysDone
<1> QED BY <1>21, <1>2, <1>4, <1>5, <1>10, <1>11, <1>12, <1>18, <1>19, <1>20, DebouncerMoves

\* A call's first debouncer, or one of a call that is made again.
LEMMA EnqueueHolds == ASSUME DInv, NEW c \in Caller, Enqueue(c) PROVE DInv'
<1>1. /\ call \in [Caller -> Calling] /\ call[c] \in Calling /\ deb \in Seq(Debouncing)
      /\ now \in Nat
  BY DEF DInv, TypeInv
<1>2. PICK q : q = NewDebouncer(c) OBVIOUS
<1>3. /\ q \in Debouncing /\ q.by = c /\ q.status = "ACTIVE" /\ q.acks = {}
      /\ q.journal = <<>> /\ q.exec = NoExec /\ q.gave = NotYet
  BY <1>2, NoExecIs DEF NewDebouncer, Debouncing, NotYet
<1>4. PICK n : n = Len(deb) + 1 OBVIOUS
<1>5. n \in Nat /\ n \notin DOMAIN deb BY <1>1, <1>4
<1>6. /\ call[c].pc = "enqueue" /\ target' = target /\ now' = now /\ options' = options
      /\ call' = [call EXCEPT ![c].pc = "done", ![c].via = n] /\ deb' = Append(deb, q)
  BY <1>2, <1>4 DEF Enqueue
<1>7. /\ deb' \in Seq(Debouncing) /\ DOMAIN deb' = DOMAIN deb \cup {n} /\ deb'[n] = q
      /\ \A i \in DOMAIN deb : deb'[i] = deb[i]
  BY <1>1, <1>3, <1>4, <1>6
<1>8. PICK r : r = [call[c] EXCEPT !.pc = "done", !.via = n] OBVIOUS
<1>9. r \in Calling /\ r.pc = "done" /\ r.via = n BY <1>1, <1>5, <1>8 DEF Calling
<1>10. call' = [call EXCEPT ![c] = r] BY <1>1, <1>6, <1>8
<1>11. /\ call' \in [Caller -> Calling] /\ call'[c] = r
       /\ \A b \in Caller : b = c \/ call'[b] = call[b]
  BY <1>1, <1>9, <1>10
<1>12. TypeInv' BY <1>6, <1>7, <1>11 DEF DInv, TypeInv
<1>13. ASSUME NEW b \in Caller PROVE CallOK(b)'
  <2>1. CallOK(b) BY DEF DInv
  <2>2. CASE b = c
    <3>1. c \in InputsBy(q) BY <1>3 DEF InputsBy
    <3> QED BY <1>7, <1>9, <1>11, <2>2, <3>1 DEF CallOK
  <2>3. CASE b # c
    <3>1. call'[b] = call[b] BY <1>11, <2>3
    <3> QED BY <1>7, <2>1, <3>1 DEF CallOK
  <2> QED BY <2>2, <2>3
<1>16. ASSUME NEW t \in Target PROVE TargetOK(t)'
  <2>1. target'[t] = target[t] /\ TargetOK(t) /\ options'.id = options.id BY <1>6 DEF DInv
  <2>2. ASSUME target[t].status # "ABSENT"
        PROVE  /\ target[t].by \in DOMAIN deb'
               /\ StartedBy(t, options.id, target[t], deb'[target[t].by])
    BY <1>7, <2>1, <2>2 DEF TargetOK
  <2> QED BY <2>1, <2>2 DEF TargetOK
<1>14. ASSUME NEW i \in DOMAIN deb PROVE deb[i].by \in Durable \/ deb[i].by # c
  BY <1>6 DEF DInv, Once
<1>15. ASSUME NEW i \in DOMAIN deb'
       PROVE  /\ Sound(deb'[i], now') /\ Once(i)' /\ History(deb'[i], options'.mode)
              /\ Past(deb'[i]) => target'[options'.id[deb'[i].by]].status # "ABSENT"
  <2>1. CASE i = n
    <3>1. Sound(q, now) BY <1>3, NoExecIs DEF Sound, Journal
    <3>2. ~Past(q) /\ History(q, options'.mode) BY <1>3, NoExecIs DEF Past, History
    <3>3. Once(i)'
      <4>1. call'[c].pc = "done" BY <1>9, <1>11
      <4> QED BY <1>3, <1>7, <1>14, <2>1, <4>1 DEF Once
    <3> QED BY <1>6, <1>7, <2>1, <3>1, <3>2, <3>3
  <2>2. CASE i # n
    <3>1. i \in DOMAIN deb /\ deb'[i] = deb[i] BY <1>7, <2>2
    <3>2. /\ Sound(deb[i], now) /\ Once(i) /\ History(deb[i], options.mode)
          /\ Past(deb[i]) => target[options.id[deb[i].by]].status # "ABSENT"
      BY <3>1 DEF DInv
    <3>3. deb[i].by \in Caller BY <1>1, <3>1, Fields
    <3>4. Once(i)'
      <4>1. CASE deb[i].by \in Durable BY <3>1, <4>1 DEF Once
      <4>2. CASE deb[i].by \notin Durable
        <5>1. deb[i].by # c /\ call'[deb[i].by] = call[deb[i].by]
          BY <1>11, <1>14, <3>1, <3>3, <4>2
        <5> QED BY <1>3, <1>7, <3>1, <3>2, <5>1 DEF Once
      <4> QED BY <4>1, <4>2
    <3> QED BY <1>6, <3>1, <3>2, <3>4
  <2> QED BY <2>1, <2>2
<1> QED BY <1>12, <1>13, <1>15, <1>16 DEF DInv

\* Time passes while executions wait: none of them is past its deadline.
LEMMA TickHolds == ASSUME DInv, Tick PROVE DInv'
<1>1. now \in Nat /\ deb \in Seq(Debouncing) BY DEF DInv, TypeInv
<1>2. /\ now' = now + 1 /\ call' = call /\ deb' = deb /\ target' = target
      /\ options' = options
      /\ \A i \in DOMAIN deb : Idle(i)
  BY DEF Tick
<1>3. TypeInv' BY <1>1, <1>2 DEF DInv, TypeInv
<1>4. ASSUME NEW c \in Caller PROVE CallOK(c)'
  <2>1. CallOK(c) BY DEF DInv
  <2> QED BY <1>2, <2>1 DEF CallOK
<1>7. ASSUME NEW t \in Target PROVE TargetOK(t)'
  <2>1. TargetOK(t) BY DEF DInv
  <2> QED BY <1>2, <2>1 DEF TargetOK
<1>5. ASSUME NEW i \in DOMAIN deb PROVE Sound(deb[i], now + 1)
  <2>1. PICK d : d = deb[i] OBVIOUS
  <2>2. d \in Debouncing /\ Sound(d, now) BY <1>1, <2>1 DEF DInv
  <2>3. d.journal \in Seq(Noted) /\ d.exec \in Execution BY <2>2, Fields
  <2>4. Journal(d.journal, now + 1)
    <3>1. ASSUME NEW n \in 1 .. Len(d.journal) PROVE d.journal[n].at <= now + 1
      <4>1. d.journal[n] \in Noted BY <2>3
      <4>2. d.journal[n].at \in Nat /\ d.journal[n].at <= now
        BY <2>2, <4>1 DEF Sound, Journal, Noted
      <4> QED BY <1>1, <4>2
    <3> QED BY <2>2, <3>1 DEF Sound, Journal
  <2>5. ASSUME d.exec.pc # "off" PROVE OnTime(d.journal, d.exec, d.replayed, now + 1)
    <3>1. d.exec.pc = "recv" /\ now < d.exec.deadline BY <1>2, <2>1, <2>5 DEF Idle
    <3>2. OnTrack(d.journal, d.exec, d.by) /\ OnTime(d.journal, d.exec, d.replayed, now)
      BY <2>2, <2>5 DEF Sound
    <3>3. ASSUME ~d.replayed
          PROVE  /\ d.exec.fid = Len(d.journal) /\ d.exec.deadline = d.exec.at
                 /\ now + 1 <= d.exec.max
      <4>1. d.exec.fid = Len(d.journal) /\ d.exec.deadline = d.exec.at
        BY <3>1, <3>2, <3>3 DEF OnTime
      <4>2. d.exec.fid \in Nat /\ d.exec.at \in Nat /\ d.exec.max \in Nat
        BY <2>3 DEF Execution
      <4>3. Stage(d.journal, d.exec.fid) = "recv" BY <3>1, <3>2 DEF OnTrack, Launching
      <4>4. d.exec.fid >= 2 BY <4>2, <4>3, StageIs
      <4>5. d.exec.fid \in 1 .. Len(d.journal) /\ Len(d.journal) >= 1 BY <4>1, <4>2, <4>4
      <4>6. d.journal[1].op = "now" BY <2>2, <2>3, <4>5, Opens DEF Sound
      <4>7. DueBy(d.journal, d.exec.fid) <= d.journal[1].at + Timeout
        BY <2>3, <4>5, <4>6, DueIs
      <4>8. d.exec.at <= d.exec.max BY <3>1, <3>2, <4>7 DEF OnTrack
      <4> QED BY <1>1, <3>1, <4>1, <4>2, <4>8
    <3> QED BY <3>1, <3>3 DEF OnTime, Launching
  <2> QED BY <2>1, <2>2, <2>4, <2>5 DEF Sound
<1>6. ASSUME NEW i \in DOMAIN deb'
      PROVE  /\ Sound(deb'[i], now') /\ Once(i)' /\ History(deb'[i], options'.mode)
             /\ Past(deb'[i]) => target'[options'.id[deb'[i].by]].status # "ABSENT"
  <2>1. /\ i \in DOMAIN deb /\ Once(i) /\ History(deb[i], options.mode)
        /\ Past(deb[i]) => target[options.id[deb[i].by]].status # "ABSENT"
    BY <1>2 DEF DInv
  <2>2. Once(i)' BY <1>2, <2>1 DEF Once
  <2> QED BY <1>2, <1>5, <2>1, <2>2
<1> QED BY <1>3, <1>4, <1>6, <1>7 DEF DInv

LEMMA InitHolds == ASSUME Init PROVE DInv
<1>1. deb = <<>> /\ now = 0 BY DEF Init
<1>2. TypeInv
  <2>1. NoCall \in Calling BY DEF NoCall, Calling
  <2>2. NoTarget \in Started BY DEF NoTarget, Started
  <2> QED BY <1>1, <2>1, <2>2 DEF Init, TypeInv
<1>3. ASSUME NEW c \in Caller PROVE CallOK(c)
  <2>1. call[c].pc = "enqueue" BY DEF Init, NoCall
  <2> QED BY <2>1 DEF CallOK
<1>4. ASSUME NEW t \in Target PROVE TargetOK(t)
  <2>1. target[t].status = "ABSENT" BY DEF Init, NoTarget
  <2> QED BY <2>1 DEF TargetOK
<1> QED BY <1>1, <1>2, <1>3, <1>4 DEF DInv

LEMMA NextHolds == ASSUME DInv, [Next]_vars PROVE DInv'
<1>1. CASE UNCHANGED vars
  BY <1>1 DEF vars, DInv, TypeInv, CallOK, TargetOK, Once
<1>2. ASSUME NEW c \in Caller,
             \/ Enqueue(c) \/ Refused(c) \/ Find(c) \/ Send(c) \/ Return(c)
             \/ GiveUp(c) \/ CallAgain(c)
      PROVE  DInv'
  BY <1>2, EnqueueHolds, RefusedHolds, FindHolds, SendHolds, ReturnHolds, GiveUpHolds,
     CallAgainHolds
<1>4. ASSUME NEW t \in Target, TargetEnds(t) PROVE DInv' BY <1>4, TargetEndsHolds
<1>3. ASSUME NEW i \in 1 .. MaxDebouncers, Debounce(i) PROVE DInv'
  BY <1>3, RunHolds, StartTimeHolds, LoopTimeHolds, ReplayRecvHolds, ReplayTimeoutHolds,
     ConsumeHolds, ReceiveHolds, RecvTimeoutHolds, AcknowledgeHolds, LaunchHolds,
     LaunchRefusedHolds, ExecutedHolds, FinishHolds DEF Debounce
<1> QED BY <1>1, <1>2, <1>3, <1>4, CrashHolds, TickHolds DEF Next

LEMMA AlwaysDInv == Spec => []DInv
<1>1. Init => DInv BY InitHolds
<1>2. DInv /\ [Next]_vars => DInv' BY NextHolds
<1> QED BY <1>1, <1>2, PTL DEF Spec

\* The definitions above are those of the properties.
LEMMA TakenAre ==
    ASSUME TypeInv, NEW i \in DOMAIN deb
    PROVE  /\ Taken(i) = TakenBy(deb[i].journal, Len(deb[i].journal))
           /\ Inputs(i) = InputsBy(deb[i])
           /\ LastInput(i) = LastBy(deb[i].journal, Len(deb[i].journal), deb[i].by)
           /\ Capped(LastLoop(i) + Delay, Began(i) + Timeout)
                 = DueBy(deb[i].journal, Len(deb[i].journal))
<1>1. PICK d : d = deb[i] OBVIOUS
<1>2. d \in Debouncing BY <1>1 DEF TypeInv
<1>3. d.journal \in Seq(Noted) BY <1>2, Fields
<1>4. DOMAIN d.journal = 1 .. Len(d.journal) BY <1>3
<1>5. Taken(i) = TakenBy(d.journal, Len(d.journal)) BY <1>1, <1>4 DEF Taken, TakenBy
<1>6. Inputs(i) = InputsBy(d) BY <1>1, <1>5 DEF Inputs, InputsBy
<1>7. LastInput(i) = LastBy(d.journal, Len(d.journal), d.by)
  BY <1>1, <1>5 DEF LastInput, LastBy
<1>8. LastLoop(i) = d.journal[LoopBy(d.journal, Len(d.journal))].at
  BY <1>1, <1>5 DEF LastLoop, LoopBy, Began
<1>9. Capped(LastLoop(i) + Delay, Began(i) + Timeout) = DueBy(d.journal, Len(d.journal))
  BY <1>1, <1>8 DEF DueBy, Began
<1> QED BY <1>1, <1>5, <1>6, <1>7, <1>9

\* A call that has returned put its input into the debouncer it returned
\* through, whatever the crashes and the waits given up; and the last input of
\* a debouncer that ends reaches its target: inline as it is executed with it,
\* on a queue in its row, unless another debouncer inserted that.  It fails only
\* then, for a deduplication id, or when it replays a timeout.
THEOREM InputsAreCarried == Spec => []InputCarried
<1>1. DInv => InputCarried
  <2> SUFFICES ASSUME DInv PROVE InputCarried OBVIOUS
  <2>1. TypeInv BY DEF DInv
  <2>2. ASSUME NEW c \in Caller, call[c].pc = "done" PROVE c \in Inputs(call[c].via)
    <3>1. call[c].via \in DOMAIN deb /\ c \in InputsBy(deb[call[c].via])
      BY <2>2 DEF DInv, CallOK
    <3> QED BY <2>1, <3>1, TakenAre
  <2>3. ASSUME NEW i \in DOMAIN deb, deb[i].gave # NotYet
        PROVE  deb[i].gave.input = LastInput(i)
    <3>1. History(deb[i], options.mode) BY DEF DInv
    <3> QED BY <2>1, <2>3, <3>1, TakenAre DEF History, Gave
  <2>4. ASSUME NEW i \in DOMAIN deb, deb[i].status = "SUCCESS", Mode = "inline"
        PROVE  deb[i].gave.input = LastInput(i)
    <3>1. History(deb[i], options.mode) BY DEF DInv
    <3>2. deb[i].gave # NotYet BY <2>4, <3>1 DEF History, Past, Mode
    <3> QED BY <2>3, <3>2
  <2>5. ASSUME NEW i \in DOMAIN deb, deb[i].status = "SUCCESS", NEW t, t = target[TargetOf(i)]
        PROVE  /\ t.status # "ABSENT"
               /\ (t.by = i /\ t.input = LastInput(i)) \/ StartedBefore(i)
    <3>1. PICK u \in Target : u = options.id[deb[i].by] BY <2>1, IdIs DEF TypeInv
    <3>2. u = TargetOf(i) BY <3>1 DEF TargetOf
    <3>3. t.status # "ABSENT" BY <2>5, <3>1, <3>2 DEF DInv, Past
    <3>4. t.by \in DOMAIN deb /\ StartedBy(u, options.id, t, deb[t.by])
      BY <2>5, <3>2, <3>3 DEF DInv, TargetOK
    <3>5. CASE t.by = i BY <2>1, <3>3, <3>4, <3>5, TakenAre DEF StartedBy
    <3>6. CASE t.by # i
      <4>1. TargetOf(t.by) = TargetOf(i) BY <3>2, <3>4 DEF StartedBy, TargetOf
      <4>2. deb[t.by].by = deb[i].by => deb[i].by \in Durable BY <3>4, <3>6 DEF DInv, Once
      <4> QED BY <2>5, <3>3, <3>6, <4>1, <4>2 DEF StartedBefore
    <3> QED BY <3>5, <3>6
  <2>6. ASSUME NEW i \in DOMAIN deb, deb[i].status = "ERROR"
        PROVE  \/ Mode = "inline" /\ deb[i].gave.input = LastInput(i)
               \/ Mode = "dedup"
               \/ TimedOut(i)
    <3>1. Excused(deb[i], options.mode) BY <2>6 DEF DInv, History
    <3> QED BY <2>3, <3>1 DEF Excused, Mode, TimedOut
  <2> QED BY <2>2, <2>4, <2>5, <2>6 DEF InputCarried
<1> QED BY <1>1, AlwaysDInv, PTL

\* A debouncer starts its target when the delay has run out, counted from the
\* loop that took the last input, and within debounce_timeout of its beginning
\* unless its execution was interrupted: for every delay and timeout, and
\* however many calls push it back.
THEOREM TargetsStartInTheWindow == Spec => []LaunchWindow
<1>1. DInv => LaunchWindow
  <2> SUFFICES ASSUME DInv, NEW i \in DOMAIN deb, deb[i].gave # NotYet
               PROVE  /\ deb[i].gave.at >= Capped(LastLoop(i) + Delay, Began(i) + Timeout)
                      /\ ~deb[i].replayed => deb[i].gave.at <= Began(i) + Timeout
    BY DEF LaunchWindow
  <2>1. Gave(deb[i]) BY DEF DInv, History
  <2>2. TypeInv BY DEF DInv
  <2> QED BY <2>1, <2>2, TakenAre DEF Gave, Began
<1> QED BY <1>1, AlwaysDInv, PTL
-----------------------------------------------------------------------------
(* The reader of a stream.                                                 *)

ReadType == [pc : {"off", "read", "status", "await", "wait", "done"}, snapshot : BOOLEAN,
             from : Nat, offset : Nat, values : Seq(Nat), closed : BOOLEAN]

StreamTypeInv ==
    /\ stream \in Seq({"value", "closed"})
    /\ writer \in [Writer -> {"off", "on", "value", "closed"}]
    /\ reader \in [Reader -> ReadType]

\* A reader has read the values up to its offset.
ReadUpTo(r) ==
    /\ reader[r].offset = reader[r].from + Len(reader[r].values)
    /\ \A n \in 1 .. Len(reader[r].values) :
          /\ reader[r].values[n] = reader[r].from + n - 1
          /\ reader[r].from + n \in DOMAIN stream
          /\ stream[reader[r].from + n] = "value"

RInv == StreamTypeInv /\ \A r \in Reader : ReadUpTo(r)
-----------------------------------------------------------------------------
\* The invariant contains the property.
LEMMA RInvInOrder == RInv => InOrder
<1> SUFFICES ASSUME RInv, NEW r \in Reader
             PROVE  /\ reader[r].values =
                         [n \in 1 .. Len(reader[r].values) |-> reader[r].from + n - 1]
                    /\ \A n \in 1 .. Len(reader[r].values) :
                          stream[reader[r].values[n] + 1] = "value"
  BY DEF InOrder
<1> DEFINE values == reader[r].values
           from == reader[r].from
<1>1. values \in Seq(Nat) /\ from \in Nat BY DEF RInv, StreamTypeInv, ReadType
<1>2. /\ Len(values) \in Nat
      /\ \A n \in 1 .. Len(values) : values[n] = from + n - 1 /\ stream[from + n] = "value"
  BY <1>1 DEF RInv, ReadUpTo
<1> HIDE DEF values, from
<1>3. values = [n \in 1 .. Len(values) |-> from + n - 1] BY <1>1, <1>2
<1>4. \A n \in 1 .. Len(values) : stream[values[n] + 1] = "value"
  <2> TAKE n \in 1 .. Len(values)
  <2>1. values[n] + 1 = from + n BY <1>1, <1>2
  <2> QED BY <1>2, <2>1
<1> QED BY <1>3, <1>4 DEF values, from

\* No call has begun.
LEMMA StreamInitHolds == StreamInit => RInv
<1> SUFFICES ASSUME StreamInit PROVE RInv OBVIOUS
<1>1. /\ NoRead \in ReadType /\ NoRead.offset = 0 /\ NoRead.from = 0 /\ NoRead.values = <<>>
  BY DEF NoRead, ReadType
<1>2. StreamTypeInv BY <1>1 DEF StreamInit, StreamTypeInv
<1>3. ASSUME NEW r \in Reader PROVE ReadUpTo(r)
  <2>1. reader[r] = NoRead BY DEF StreamInit
  <2> QED BY <1>1, <2>1 DEF ReadUpTo
<1> QED BY <1>2, <1>3 DEF RInv

\* Rows that are appended change nothing about what was read.
LEMMA Longer ==
    ASSUME RInv, stream' \in Seq({"value", "closed"}),
           \A n \in DOMAIN stream : n \in DOMAIN stream' /\ stream'[n] = stream[n],
           NEW r \in Reader, reader'[r].values = reader[r].values,
           reader'[r].from = reader[r].from, reader'[r].offset = reader[r].offset
    PROVE  ReadUpTo(r)'
BY DEF RInv, ReadUpTo

\* A call that goes on without reading.
LEMMA OneGoesOn ==
    ASSUME RInv, UNCHANGED <<stream, writer>>, NEW r \in Reader,
           NEW state \in ReadType, reader' = [reader EXCEPT ![r] = state],
           state.values = reader[r].values, state.from = reader[r].from,
           state.offset = reader[r].offset
    PROVE  RInv'
<1>1. StreamTypeInv' BY DEF RInv, StreamTypeInv
<1>2. ASSUME NEW q \in Reader PROVE ReadUpTo(q)'
  <2>1. /\ reader'[q].values = reader[q].values /\ reader'[q].from = reader[q].from
        /\ reader'[q].offset = reader[q].offset
    BY DEF RInv, StreamTypeInv
  <2> QED BY <2>1, Longer DEF RInv, StreamTypeInv
<1> QED BY <1>1, <1>2 DEF RInv

\* Writers and the listener wake readers, and append.
LEMMA OthersGoOn ==
    ASSUME RInv, stream' \in Seq({"value", "closed"}),
           \A n \in DOMAIN stream : n \in DOMAIN stream' /\ stream'[n] = stream[n],
           writer' \in [Writer -> {"off", "on", "value", "closed"}],
           NEW woken \in SUBSET Reader,
           reader' = [r \in Reader |-> IF r \in woken THEN Woken(r) ELSE reader[r]]
    PROVE  RInv'
<1>1. ASSUME NEW r \in Reader
      PROVE  /\ reader'[r] \in ReadType /\ reader'[r].values = reader[r].values
             /\ reader'[r].from = reader[r].from /\ reader'[r].offset = reader[r].offset
  BY DEF RInv, StreamTypeInv, ReadType, Woken
<1>2. StreamTypeInv' BY <1>1 DEF StreamTypeInv
<1>3. ASSUME NEW r \in Reader PROVE ReadUpTo(r)' BY <1>1, Longer
<1> QED BY <1>2, <1>3 DEF RInv

\* A call begins.
LEMMA CallHolds ==
    ASSUME RInv, NEW r \in Reader, NEW from \in Froms, NEW snapshot \in BOOLEAN,
           Call(r, from, snapshot)
    PROVE  RInv'
<1> DEFINE state == [NoRead EXCEPT !.pc = "read", !.snapshot = snapshot, !.from = from,
                                  !.offset = from]
<1>1. from \in Nat BY StreamAssumption
<1>2. /\ state \in ReadType /\ state.values = <<>> /\ state.offset = from /\ state.from = from
  <2>1. <<>> \in Seq(Nat) OBVIOUS
  <2>2. NoRead \in ReadType /\ NoRead.values = <<>> BY <2>1, Zenon DEF NoRead, ReadType
  <2> QED BY <1>1, <2>2, Zenon DEF ReadType
<1>3. reader' = [reader EXCEPT ![r] = state] /\ UNCHANGED <<stream, writer>>
  BY DEF Call, Set
<1> HIDE DEF state
<1>4. StreamTypeInv' BY <1>2, <1>3 DEF RInv, StreamTypeInv
<1>5. ASSUME NEW q \in Reader PROVE ReadUpTo(q)'
  <2>1. CASE q = r
    <3>1. reader'[r] = state BY <1>3 DEF RInv, StreamTypeInv
    <3> QED BY <1>1, <1>2, <2>1, <3>1 DEF ReadUpTo
  <2>2. CASE q # r
    <3>1. reader'[q] = reader[q] BY <1>3, <2>2 DEF RInv, StreamTypeInv
    <3> QED BY <1>3, <3>1, Longer DEF RInv, StreamTypeInv
  <2> QED BY <2>1, <2>2
<1> QED BY <1>4, <1>5 DEF RInv

\* Values that are numbered on are numbered through.
LEMMA Extended ==
    ASSUME NEW v \in Seq(Nat), NEW from \in Nat, NEW offset \in Nat, NEW c \in Nat,
           offset = from + Len(v), \A n \in 1 .. Len(v) : v[n] = from + n - 1,
           NEW w, w = v \o [n \in 1 .. c |-> offset + n - 1]
    PROVE  /\ w \in Seq(Nat) /\ Len(w) = Len(v) + c
           /\ \A n \in 1 .. Len(w) : w[n] = from + n - 1
<1> DEFINE more == [n \in 1 .. c |-> offset + n - 1]
<1>1. more \in Seq(Nat) /\ Len(more) = c /\ \A n \in 1 .. c : more[n] = offset + n - 1
  <2>1. \A n \in 1 .. c : offset + n - 1 \in Nat OBVIOUS
  <2> QED BY <2>1
<1> HIDE DEF more
<1>2. w = v \o more BY DEF more
<1>3. w \in Seq(Nat) /\ Len(w) = Len(v) + c /\ Len(v) \in Nat BY <1>1, <1>2
<1>4. ASSUME NEW n \in 1 .. Len(w) PROVE w[n] = from + n - 1
  <2>1. CASE n <= Len(v)
    <3>1. w[n] = v[n] BY <1>1, <1>2, <1>3, <2>1
    <3> QED BY <1>3, <2>1, <3>1
  <2>2. CASE n > Len(v)
    <3>1. w[n] = more[n - Len(v)] BY <1>1, <1>2, <1>3, <2>2
    <3>2. n - Len(v) \in 1 .. c BY <1>3, <2>2
    <3>3. more[n - Len(v)] = offset + (n - Len(v)) - 1 BY <1>1, <3>2
    <3> QED BY <1>3, <3>1, <3>2, <3>3
  <2> QED BY <1>3, <2>1, <2>2
<1> QED BY <1>3, <1>4

\* A reader reads on from its offset.
LEMMA ReadHolds == ASSUME RInv, NEW r \in Reader, Read(r) PROVE RInv'
<1> SUFFICES ASSUME NEW old, old = reader[r] PROVE RInv' OBVIOUS
<1>1. old \in ReadType /\ ReadUpTo(r) BY DEF RInv, StreamTypeInv
<1>2. old.offset \in Nat /\ old.from \in Nat /\ old.values \in Seq(Nat) BY <1>1 DEF ReadType
<1>3. Len(old.values) \in Nat /\ old.offset = old.from + Len(old.values)
  BY <1>1, <1>2 DEF ReadUpTo
<1>4. \A n \in 1 .. Len(old.values) :
         /\ old.values[n] = old.from + n - 1 /\ old.from + n \in DOMAIN stream
         /\ stream[old.from + n] = "value"
  BY <1>1 DEF ReadUpTo
<1>5. Len(stream) \in Nat BY DEF RInv, StreamTypeInv
<1>6. PICK end \in old.offset .. old.offset + Len(stream) :
        /\ Ends(old.offset, end)
        /\ Set(r, [old EXCEPT
             !.values = old.values \o [n \in 1 .. end - old.offset |-> old.offset + n - 1],
             !.offset = NextOffset(old.offset, end), !.closed = ClosedFrom(old.offset),
             !.pc = IF ClosedFrom(old.offset) \/ old.snapshot THEN "done" ELSE "status"])
  BY Zenon DEF Read
<1>7. end \in Nat /\ end >= old.offset /\ end - old.offset \in Nat BY <1>2, <1>5, <1>6
<1>17. SUFFICES ASSUME NEW values,
                    values = old.values \o [n \in 1 .. end - old.offset |-> old.offset + n - 1],
                    NEW closed, closed = ClosedFrom(old.offset),
                    NEW pc, pc = IF ClosedFrom(old.offset) \/ old.snapshot THEN "done"
                                 ELSE "status"
             PROVE  RInv'
  OBVIOUS
<1> DEFINE state == [old EXCEPT !.values = values, !.offset = end, !.closed = closed, !.pc = pc]
<1>8. reader' = [reader EXCEPT ![r] = state] BY <1>6, <1>17, Zenon DEF Set, NextOffset
<1>9. UNCHANGED <<stream, writer>> BY DEF Read
<1> DEFINE have == Len(old.values)
           count == end - old.offset
<1>10. /\ values \in Seq(Nat) /\ Len(values) = have + count
       /\ \A n \in 1 .. Len(values) : values[n] = old.from + n - 1
  <2>1. count \in Nat BY <1>7
  <2> HIDE DEF count
  <2>2. ASSUME NEW v, v = old.values, NEW from, from = old.from,
               NEW offset, offset = old.offset, NEW c, c = count
        PROVE  /\ values \in Seq(Nat) /\ Len(values) = Len(v) + c
               /\ \A n \in 1 .. Len(values) : values[n] = from + n - 1
    <3>1. v \in Seq(Nat) /\ from \in Nat /\ offset \in Nat /\ c \in Nat
      BY <1>2, <2>1, <2>2
    <3>2. offset = from + Len(v) BY <1>3, <2>2
    <3>3. \A n \in 1 .. Len(v) : v[n] = from + n - 1 BY <1>4, <2>2
    <3>4. values = v \o [n \in 1 .. c |-> offset + n - 1] BY <1>17, <2>2 DEF count
    <3> HIDE DEF have
    <3> QED BY <3>1, <3>2, <3>3, <3>4, Extended
  <2> QED BY <2>2
<1>11. closed \in BOOLEAN /\ pc \in {"done", "status"} BY <1>17, Zenon DEF ClosedFrom
<1>12. state \in ReadType /\ state.values = values /\ state.offset = end /\ state.from = old.from
  <2>1. end \in Nat /\ values \in Seq(Nat) BY <1>7, <1>10
  <2> QED BY <1>1, <1>11, <2>1, Zenon DEF ReadType
<1> HIDE DEF state
<1>13. StreamTypeInv' BY <1>8, <1>9, <1>12 DEF RInv, StreamTypeInv
<1>14. /\ end = old.from + Len(values) /\ Len(values) \in Nat
       /\ \A n \in Nat : n > have /\ n <= Len(values) => old.from + n \in old.offset + 1 .. end
  <2>1. have \in Nat /\ old.offset = old.from + have /\ old.from \in Nat BY <1>2, <1>3
  <2>2. count \in Nat /\ end = old.offset + count BY <1>2, <1>7
  <2>3. Len(values) = have + count BY <1>10
  <2> HIDE DEF have, count
  <2>4. Len(values) \in Nat /\ end = old.from + Len(values) BY <2>1, <2>2, <2>3
  <2>5. ASSUME NEW n \in Nat, n > have, n <= Len(values)
        PROVE  old.from + n \in old.offset + 1 .. end
    <3>1. PICK m \in Nat : m = old.from + n BY <2>1
    <3>2. old.offset + 1 \in Nat /\ end \in Nat BY <1>2, <1>7
    <3>3. old.offset + 1 <= m /\ m <= end BY <2>1, <2>4, <2>5, <3>1
    <3> QED BY <3>1, <3>2, <3>3
  <2> QED BY <2>4, <2>5
<1>15. ASSUME NEW n \in 1 .. Len(values)
       PROVE  old.from + n \in DOMAIN stream /\ stream[old.from + n] = "value"
  <2>1. have \in Nat /\ Len(values) \in Nat /\ n \in Nat BY <1>3, <1>14
  <2>2. CASE n <= have
    <3>1. n \in 1 .. have BY <2>1, <2>2
    <3> QED BY <1>4, <3>1
  <2>3. CASE n > have
    <3>1. old.from + n \in old.offset + 1 .. end BY <1>14, <2>1, <2>3
    <3> QED BY <1>6, <3>1 DEF Ends
  <2> HIDE DEF have
  <2> QED BY <2>1, <2>2, <2>3
<1>16. ASSUME NEW q \in Reader PROVE ReadUpTo(q)'
  <2>1. CASE q = r
    <3>1. reader'[r] = state BY <1>8 DEF RInv, StreamTypeInv
    <3> QED BY <1>9, <1>10, <1>12, <1>14, <1>15, <2>1, <3>1 DEF ReadUpTo
  <2>2. CASE q # r
    <3>1. reader'[q] = reader[q] BY <1>8, <2>2 DEF RInv, StreamTypeInv
    <3> QED BY <1>9, <3>1, Longer DEF RInv, StreamTypeInv
  <2> QED BY <2>1, <2>2
<1> QED BY <1>13, <1>16 DEF RInv

\* The steps of a call that read no rows.
LEMMA WaitingHolds ==
    ASSUME RInv, NEW r \in Reader, ReadStatus(r) \/ Wait(r) \/ WaitOver(r) PROVE RInv'
<1>1. reader[r] \in ReadType BY DEF RInv, StreamTypeInv
<1>2. ASSUME NEW state, \/ \E pc \in {"wait", "read"} : state = [reader[r] EXCEPT !.pc = pc]
                       \/ \E closed \in BOOLEAN, pc \in {"await", "done"} :
                             state = [reader[r] EXCEPT !.closed = closed, !.pc = pc]
      PROVE  /\ state \in ReadType /\ state.values = reader[r].values
             /\ state.from = reader[r].from /\ state.offset = reader[r].offset
  BY <1>1, <1>2, Zenon DEF ReadType
<1>3. \E state : /\ reader' = [reader EXCEPT ![r] = state]
                /\ \/ \E pc \in {"wait", "read"} : state = [reader[r] EXCEPT !.pc = pc]
                   \/ \E closed \in BOOLEAN, pc \in {"await", "done"} :
                         state = [reader[r] EXCEPT !.closed = closed, !.pc = pc]
  <2>1. CASE Wait(r) BY <2>1, Zenon DEF Wait, Set
  <2>2. CASE WaitOver(r) BY <2>2, Zenon DEF WaitOver, Set
  <2>3. CASE ReadStatus(r)
    <3> DEFINE closed == ~Active
               pc == IF Active THEN "await" ELSE "done"
    <3>1. closed \in BOOLEAN /\ pc \in {"await", "done"} BY Zenon DEF Active
    <3>2. reader' = [reader EXCEPT ![r] = [reader[r] EXCEPT !.closed = closed, !.pc = pc]]
      BY <2>3, Zenon DEF ReadStatus, Set
    <3> HIDE DEF closed, pc
    <3> QED BY <3>1, <3>2, Zenon
  <2> QED BY <2>1, <2>2, <2>3
<1>4. UNCHANGED <<stream, writer>> BY DEF ReadStatus, Wait, WaitOver
<1> QED BY <1>2, <1>3, <1>4, OneGoesOn

\* The workflow's executions.
LEMMA WriterHolds ==
    ASSUME RInv, NEW x \in Writer,
           \/ Execute(x) \/ Insert(x) \/ Leave(x)
           \/ \E row \in {"value", "closed"} : CheckClosed(x, row)
    PROVE  RInv'
<1>1. ASSUME NEW w \in {"off", "on", "value", "closed"}
      PROVE  [writer EXCEPT ![x] = w] \in [Writer -> {"off", "on", "value", "closed"}]
  BY DEF RInv, StreamTypeInv
<1>2. reader = [r \in Reader |-> IF r \in {} THEN Woken(r) ELSE reader[r]]
  BY DEF RInv, StreamTypeInv
<1>3. CASE Insert(x)
  <2>1. stream \in Seq({"value", "closed"}) /\ writer[x] \in {"value", "closed"}
    BY <1>3 DEF Insert, RInv, StreamTypeInv
  <2>2. stream' = Append(stream, writer[x]) BY <1>3 DEF Insert
  <2>3. /\ stream' \in Seq({"value", "closed"})
        /\ \A n \in DOMAIN stream : n \in DOMAIN stream' /\ stream'[n] = stream[n]
    BY <2>1, <2>2
  <2>4. writer' \in [Writer -> {"off", "on", "value", "closed"}] BY <1>1, <1>3 DEF Insert
  <2>5. PICK woken \in SUBSET Reader :
           reader' = [r \in Reader |-> IF r \in woken THEN Woken(r) ELSE reader[r]]
    <3>1. CASE backend = "sqlite"
      <4>1. reader' = reader BY <1>3, <3>1 DEF Insert
      <4>2. reader' = [r \in Reader |-> IF r \in {} THEN Woken(r) ELSE reader[r]]
        BY <1>2, <4>1
      <4>3. {} \in SUBSET Reader OBVIOUS
      <4> QED BY <4>2, <4>3
    <3>2. CASE backend # "sqlite"
      <4>1. reader' = [r \in Reader |-> IF r \in Local THEN Woken(r) ELSE reader[r]]
        BY <1>3, <3>2 DEF Insert
      <4> QED BY <4>1, StreamAssumption
    <3> QED BY <3>1, <3>2
  <2> QED BY <2>3, <2>4, <2>5, OthersGoOn
<1>4. CASE ~Insert(x)
  <2>1. UNCHANGED <<stream, reader>> BY <1>4 DEF Execute, Leave, CheckClosed
  <2>2. writer' \in [Writer -> {"off", "on", "value", "closed"}]
    BY <1>1, <1>4 DEF Execute, Leave, CheckClosed
  <2>3. StreamTypeInv' BY <2>1, <2>2 DEF RInv, StreamTypeInv
  <2>4. \A r \in Reader : ReadUpTo(r)' BY <2>1, Longer DEF RInv, StreamTypeInv
  <2> QED BY <2>3, <2>4 DEF RInv
<1> QED BY <1>3, <1>4

\* Every step keeps the invariant.
LEMMA StreamNextHolds == RInv /\ [StreamNext]_streamVars => RInv'
<1> SUFFICES ASSUME RInv, [StreamNext]_streamVars PROVE RInv' OBVIOUS
<1>1. CASE UNCHANGED <<stream, writer, reader>>
  <2>1. StreamTypeInv' BY <1>1 DEF RInv, StreamTypeInv
  <2>2. \A r \in Reader : ReadUpTo(r)' BY <1>1, Longer DEF RInv, StreamTypeInv
  <2> QED BY <2>1, <2>2 DEF RInv
<1>2. CASE Listen
  <2>1. reader' = [r \in Reader |-> IF r \in Reader THEN Woken(r) ELSE reader[r]]
    BY <1>2 DEF Listen
  <2>2. UNCHANGED <<stream, writer>> BY <1>2 DEF Listen
  <2> QED BY <2>1, <2>2, OthersGoOn DEF RInv, StreamTypeInv
<1>3. ASSUME NEW r \in Reader, Reading(r) PROVE RInv'
  BY <1>3, ReadHolds, WaitingHolds DEF Reading
<1> QED BY <1>1, <1>2, <1>3, CallHolds, WriterHolds DEF StreamNext, streamVars, Due, End, Drop

\* Readers read the values of a stream in order, each once and none left out,
\* while others write to it (JournioContext::read_stream).
THEOREM ReadInOrder == StreamSpec => []InOrder
<1> QED BY RInvInOrder, StreamInitHolds, StreamNextHolds, PTL DEF StreamSpec
=============================================================================
