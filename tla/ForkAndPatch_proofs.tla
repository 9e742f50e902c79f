-------------------------- MODULE ForkAndPatch_proofs --------------------------
(***************************************************************************)
(* Proofs about forks and patches, for any workflows, start steps, forks   *)
(* of forks and crashes, on both databases, and for any code: what stands  *)
(* before the branch, in its old and its new version, and after it.        *)
(*                                                                         *)
(* ForkFromStart (IInv): a step once recorded is never changed, and a row  *)
(* that somebody was forked from is never replaced; so what a fork copied  *)
(* stays what its original has.                                            *)
(*                                                                         *)
(* EffectsAreJournaled (EInv): the tables show the steps of the journal    *)
(* and the one whose effect precedes its checkpoint.  A fork's copies,     *)
(* made statement by statement, are of one state unless the original was   *)
(* active.                                                                 *)
(*                                                                         *)
(* OneBranch and ReplaysFit (BInv): every journal begins one of the ways   *)
(* through the code that may have been deployed since its workflow began,  *)
(* and an execution is where its own way is after as many steps.           *)
(***************************************************************************)
EXTENDS ForkAndPatch, Integers, SequenceTheorems, FiniteSetTheorems,
        WellFoundedInduction, TLAPS

AnyPlain == Plain("any") \cup Plain("old") \cup Plain("new")
Status == {"ABSENT", "ACTIVE", "ERROR", "SUCCESS"}
Stage == {"journal", "history", "event", "stream", "commit"}
Noted == [fn : {"step", "event", "stream", "patch"}, branch : {"old", "new", "any"},
          by : Workflow]
Context == [on : BOOLEAN, rest : Seq(Op), fid : Nat, wrote : BOOLEAN]
Fields == {"status", "journal", "event", "history", "stream", "from", "start",
           "begun", "torn"}

\* A workflow's rows.  (Events and streams come with EInv.)
RowOK(r) ==
    /\ r = [f \in Fields |-> r[f]]
    /\ r.status \in Status
    /\ r.journal \in Seq(Noted)
    /\ r.from \in Workflow \cup {Nil}
    /\ r.start \in Nat

ForkOK ==
    fork # Nil =>
       /\ fork = [from |-> fork.from, to |-> fork.to, next |-> fork.next, row |-> fork.row]
       /\ fork.from \in Workflow /\ fork.to \in Workflow /\ fork.next \in Stage
       /\ RowOK(fork.row)

TypeInv ==
    /\ deployed \in 1 .. Len(Code)
    /\ wf = [w \in Workflow |-> wf[w]]
    /\ \A w \in Workflow : RowOK(wf[w])
    /\ exec \in [Workflow -> Context]
    /\ ForkOK

\* Step k of row r is the original's, and one that is copied.
Copied(r, k) ==
    /\ r.from \in Workflow /\ wf[r.from].status # "ABSENT"
    /\ k < r.start
    /\ k \in DOMAIN wf[r.from].journal /\ wf[r.from].journal[k] = r.journal[k]

\* Each step is the workflow's own or copied.
OwnOrCopied(w) ==
    \A k \in DOMAIN wf[w].journal : wf[w].journal[k].by = w \/ Copied(wf[w], k)

\* A fork in progress: its row is not there yet, all that it has is copied.
Forking ==
    fork # Nil =>
       /\ backend = "postgres"
       /\ wf[fork.to].status = "ABSENT"
       /\ fork.row.status = "ACTIVE" /\ fork.row.from = fork.from
       /\ wf[fork.from].status # "ABSENT"
       /\ \A k \in DOMAIN fork.row.journal : Copied(fork.row, k)

IInv ==
    /\ TypeInv
    /\ \A w \in Workflow : exec[w].on => wf[w].status # "ABSENT"
    /\ \A w \in Workflow : OwnOrCopied(w)
    /\ Forking
-----------------------------------------------------------------------------
\* The bodies consist of operations.
LEMMA CodeTyped ==
    /\ Before \in Seq(Op) /\ Old \in Seq(Op) /\ New \in Seq(Op) /\ After \in Seq(Op)
    /\ Code \in Seq(Seq(Op)) /\ Len(Code) = 4 /\ DOMAIN Code = 1 .. 4
    /\ \A v \in 1 .. 4 : Code[v] \in Seq(Op)
<1>1. /\ Before \in Seq(Op) /\ Old \in Seq(Op) /\ New \in Seq(Op) /\ After \in Seq(Op)
  <2>1. Plain("any") \subseteq Op /\ Plain("old") \subseteq Op /\ Plain("new") \subseteq Op
    BY DEF Op
  <2> HIDE DEF Plain, Op
  <2> QED BY <2>1, CodeAssumption
<1>2. <<[op |-> "patch"]>> \in Seq(Op) /\ <<[op |-> "deprecate"]>> \in Seq(Op)
  <2>1. [op |-> "patch"] \in Op /\ [op |-> "deprecate"] \in Op BY DEF Op
  <2> QED BY <2>1
<1>3. ASSUME NEW s \in Seq(Op), NEW t \in Seq(Op) PROVE s \o t \in Seq(Op)
  BY ConcatProperties
<1>4. \A v \in 1 .. 4 : Code[v] \in Seq(Op)
  <2>1. /\ Code[1] = Before \o Old \o After
        /\ Code[2] = Before \o <<[op |-> "patch"]>> \o After
        /\ Code[3] = Before \o <<[op |-> "deprecate"]>> \o New \o After
        /\ Code[4] = Before \o New \o After
    BY DEF Code
  <2>2. Before \o Old \in Seq(Op) /\ Before \o New \in Seq(Op) BY <1>1, <1>3
  <2>3. Before \o <<[op |-> "patch"]>> \in Seq(Op) BY <1>1, <1>2, <1>3
  <2>4. Before \o <<[op |-> "deprecate"]>> \in Seq(Op) BY <1>1, <1>2, <1>3
  <2>5. Before \o <<[op |-> "deprecate"]>> \o New \in Seq(Op) BY <1>1, <1>3, <2>4
  <2>6. Code[1] \in Seq(Op) BY <1>1, <1>3, <2>1, <2>2
  <2>7. Code[2] \in Seq(Op) BY <1>1, <1>3, <2>1, <2>3
  <2>8. Code[3] \in Seq(Op) BY <1>1, <1>3, <2>1, <2>5
  <2>9. Code[4] \in Seq(Op) BY <1>1, <1>3, <2>1, <2>2
  <2> HIDE DEF Code
  <2>10. ASSUME NEW v \in 1 .. 4 PROVE v = 1 \/ v = 2 \/ v = 3 \/ v = 4 OBVIOUS
  <2> QED BY <2>6, <2>7, <2>8, <2>9, <2>10
<1>5. Len(Code) = 4 /\ DOMAIN Code = 1 .. 4 BY DEF Code
<1>6. Code = [v \in 1 .. 4 |-> Code[v]] BY DEF Code
<1> HIDE DEF Code
<1> QED BY <1>1, <1>4, <1>5, <1>6
-----------------------------------------------------------------------------
(* Rows, and the journals they carry.                                      *)

\* The fields that matter here.
LEMMA RowFields ==
    ASSUME NEW r, RowOK(r)
    PROVE  /\ r = [f \in Fields |-> r[f]]
           /\ "status" \in Fields /\ "journal" \in Fields /\ "from" \in Fields
           /\ "start" \in Fields
BY DEF RowOK, Fields

\* The version or a mark of a row changes, or what it has to show.
LEMMA RowMark ==
    ASSUME NEW r, RowOK(r), NEW f \in {"event", "history", "stream", "begun", "torn"}, NEW x,
           NEW q, q = [r EXCEPT ![f] = x]
    PROVE  /\ RowOK(q) /\ q.journal = r.journal /\ q.from = r.from /\ q.start = r.start
           /\ q.status = r.status
<1>1. f \in Fields BY DEF Fields
<1>2. q = [g \in Fields |-> q[g]] BY <1>1, RowFields
<1>3. /\ q.journal = r.journal /\ q.from = r.from /\ q.start = r.start
      /\ q.status = r.status
  BY RowFields
<1> QED BY <1>2, <1>3 DEF RowOK

\* Its status does.
LEMMA RowStatus ==
    ASSUME NEW r, RowOK(r), NEW x \in Status, NEW q, q = [r EXCEPT !.status = x]
    PROVE  /\ RowOK(q) /\ q.journal = r.journal /\ q.from = r.from /\ q.start = r.start
           /\ q.status = x
<1>1. q = [g \in Fields |-> q[g]] BY RowFields
<1>2. /\ q.journal = r.journal /\ q.from = r.from /\ q.start = r.start
      /\ q.status = x
  BY RowFields
<1> QED BY <1>1, <1>2 DEF RowOK

\* Its journal does.
LEMMA RowJournal ==
    ASSUME NEW r, RowOK(r), NEW x \in Seq(Noted), NEW q, q = [r EXCEPT !.journal = x]
    PROVE  /\ RowOK(q) /\ q.journal = x /\ q.from = r.from /\ q.start = r.start
           /\ q.status = r.status
<1>1. q = [g \in Fields |-> q[g]] BY RowFields
<1>2. /\ q.journal = x /\ q.from = r.from /\ q.start = r.start
      /\ q.status = r.status
  BY RowFields
<1> QED BY <1>1, <1>2 DEF RowOK

\* It has none.
LEMMA RowEmptied ==
    ASSUME NEW r, RowOK(r), NEW q, q = [r EXCEPT !.journal = <<>>]
    PROVE  /\ RowOK(q) /\ q.journal = <<>> /\ q.from = r.from /\ q.start = r.start
           /\ q.status = r.status
<1>1. q = [g \in Fields |-> q[g]] BY RowFields
<1>2. /\ q.journal = <<>> /\ q.from = r.from /\ q.start = r.start
      /\ q.status = r.status
  BY RowFields
<1>3. <<>> \in Seq(Noted) OBVIOUS
<1>4. q.journal \in Seq(Noted) BY <1>2, <1>3
<1> QED BY <1>1, <1>2, <1>4 DEF RowOK

\* What fork_workflow copies are the steps before start_step.
LEMMA JournalCopied ==
    ASSUME TypeInv, NEW o \in Workflow, NEW s \in Nat
    PROVE  /\ CopyJournal(o, s) \in Seq(Noted)
           /\ \A k \in DOMAIN CopyJournal(o, s) :
                 /\ k < s /\ k \in DOMAIN wf[o].journal
                 /\ CopyJournal(o, s)[k] = wf[o].journal[k]
           /\ \A k \in DOMAIN wf[o].journal : k < s => k \in DOMAIN CopyJournal(o, s)
<1> DEFINE j == wf[o].journal
           c == Cardinality({k \in DOMAIN j : Below(k, s)})
<1>1. j \in Seq(Noted) /\ Len(j) \in Nat /\ DOMAIN j = 1 .. Len(j) BY DEF TypeInv, RowOK
<1>2. /\ c \in 0 .. Len(j) /\ \A k \in 1 .. c : k < s
      /\ \A k \in 1 .. Len(j) : k < s => k \in 1 .. c
  <2>1. PICK m \in 0 .. Len(j) : \A k \in 1 .. Len(j) : k < s <=> k <= m
    <3> HIDE DEF j
    <3>1. CASE s = 0
      <4>1. 0 \in 0 .. Len(j) /\ \A k \in 1 .. Len(j) : k < s <=> k <= 0 BY <1>1, <3>1
      <4> QED BY <4>1
    <3>2. CASE s > 0 /\ s <= Len(j)
      <4>1. s - 1 \in 0 .. Len(j) /\ \A k \in 1 .. Len(j) : k < s <=> k <= s - 1
        BY <1>1, <3>2
      <4> QED BY <4>1
    <3>3. CASE s > Len(j)
      <4>1. Len(j) \in 0 .. Len(j) /\ \A k \in 1 .. Len(j) : k < s <=> k <= Len(j)
        BY <1>1, <3>3
      <4> QED BY <4>1
    <3> QED BY <1>1, <3>1, <3>2, <3>3
  <2>2. {k \in DOMAIN j : Below(k, s)} = 1 .. m BY <1>1, <2>1 DEF Below
  <2>3. m \in Int /\ m >= 0 BY <1>1, <2>1
  <2>4. Cardinality(1 .. m) = m
    <3>1. Cardinality(1 .. m) = IF 1 > m THEN 0 ELSE m - 1 + 1 BY <2>3, FS_Interval
    <3> QED BY <2>3, <3>1
  <2>5. c = m BY <2>2, <2>4
  <2> HIDE DEF c, j
  <2>6. \A k \in 1 .. m : k \in 1 .. Len(j) /\ k <= m BY <1>1, <2>1, <2>3
  <2>7. \A k \in 1 .. Len(j) : k <= m => k \in 1 .. m BY <1>1, <2>3
  <2> QED BY <2>1, <2>5, <2>6, <2>7
<1> HIDE DEF c, j
<1>3. /\ SubSeq(j, 1, c) \in Seq(Noted) /\ Len(SubSeq(j, 1, c)) = c
      /\ \A k \in 1 .. c : SubSeq(j, 1, c)[k] = j[k]
  <2>1. 1 \in 1 .. Len(j) + 1 /\ c \in 1 - 1 .. Len(j) BY <1>1, <1>2
  <2>2. /\ SubSeq(j, 1, c) \in Seq(Noted)
        /\ Len(SubSeq(j, 1, c)) = IF 1 <= c THEN c - 1 + 1 ELSE 0
        /\ \A k \in 1 .. c - 1 + 1 : SubSeq(j, 1, c)[k] = j[1 + k - 1]
    BY <1>1, <2>1, SubSeqProperties
  <2>3. c \in Nat BY <1>1, <1>2
  <2> QED BY <2>2, <2>3
<1>4. CopyJournal(o, s) = SubSeq(j, 1, c) BY DEF CopyJournal, c, j
<1>5. \A k \in DOMAIN SubSeq(j, 1, c) : k \in 1 .. c /\ k \in DOMAIN j BY <1>1, <1>2, <1>3
<1>6. \A k \in DOMAIN j : k < s => k \in DOMAIN SubSeq(j, 1, c) BY <1>1, <1>2, <1>3
<1> QED BY <1>2, <1>3, <1>4, <1>5, <1>6 DEF j
-----------------------------------------------------------------------------
(* What every step leaves alone.                                           *)

\* Rows that are there stay, and so does what their journals have.
Stays ==
    \A u \in Workflow : wf[u].status # "ABSENT" =>
       /\ wf'[u].status # "ABSENT"
       /\ \A k \in DOMAIN wf[u].journal :
             k \in DOMAIN wf'[u].journal /\ wf'[u].journal[k] = wf[u].journal[k]

LEMMA CopiedStays ==
    ASSUME Stays, NEW q, NEW k, Copied(q, k)
    PROVE  Copied(q, k)'
BY DEF Stays, Copied

\* A step of one execution, which may append a step of its own.
LEMMA OneMoves ==
    ASSUME IInv, NEW w \in Workflow, NEW r, NEW e \in Context,
           wf' = [wf EXCEPT ![w] = r], exec' = [exec EXCEPT ![w] = e],
           backend' = backend, deployed' = deployed, fork' = fork,
           RowOK(r), r.status # "ABSENT", r.from = wf[w].from, r.start = wf[w].start,
           \/ r.journal = wf[w].journal
           \/ \E n \in Noted : n.by = w /\ r.journal = Append(wf[w].journal, n),
           fork # Nil => fork.to # w
    PROVE  IInv'
<1>1. /\ wf = [u \in Workflow |-> wf[u]] /\ wf[w].journal \in Seq(Noted)
      /\ exec \in [Workflow -> Context]
  BY DEF IInv, TypeInv, RowOK
<1>2. wf'[w] = r /\ \A u \in Workflow : u # w => wf'[u] = wf[u] BY <1>1
<1>3. /\ \A k \in DOMAIN wf[w].journal :
            k \in DOMAIN r.journal /\ r.journal[k] = wf[w].journal[k]
      /\ \A k \in DOMAIN r.journal : k \in DOMAIN wf[w].journal \/ r.journal[k].by = w
  <2>1. CASE r.journal = wf[w].journal BY <2>1
  <2>2. ASSUME NEW n \in Noted, n.by = w, NEW j \in Seq(Noted), j = wf[w].journal,
               r.journal = Append(j, n)
        PROVE  /\ \A k \in DOMAIN j : k \in DOMAIN r.journal /\ r.journal[k] = j[k]
               /\ \A k \in DOMAIN r.journal : k \in DOMAIN j \/ r.journal[k].by = w
    <3> HIDE DEF Noted
    <3> QED BY <2>2, AppendProperties
  <2> QED BY <1>1, <2>1, <2>2
<1>4. Stays BY <1>2, <1>3 DEF Stays
<1>5. TypeInv'
  <2>1. wf' = [u \in Workflow |-> wf'[u]] BY <1>1
  <2>2. \A u \in Workflow : RowOK(wf[u])' BY <1>2 DEF IInv, TypeInv, RowOK
  <2>3. exec' \in [Workflow -> Context] BY <1>1
  <2>4. ForkOK' BY DEF IInv, TypeInv, ForkOK, RowOK
  <2> QED BY <2>1, <2>2, <2>3, <2>4 DEF IInv, TypeInv
<1>6. ASSUME NEW u \in Workflow, exec'[u].on PROVE wf'[u].status # "ABSENT"
  BY <1>1, <1>2, <1>6 DEF IInv
<1>7. ASSUME NEW u \in Workflow PROVE OwnOrCopied(u)'
  <2>1. PICK q : q = wf'[u] OBVIOUS
  <2> SUFFICES ASSUME NEW k \in DOMAIN q.journal, q.journal[k].by # u
               PROVE  Copied(q, k)'
    BY <2>1 DEF OwnOrCopied, Copied
  <2>2. CASE u # w
    <3>1. q = wf[u] BY <1>2, <2>1, <2>2
    <3>2. Copied(q, k) BY <3>1 DEF IInv, OwnOrCopied
    <3> QED BY <1>4, <3>2, CopiedStays
  <2>3. CASE u = w
    <3>1. q = r BY <1>2, <2>1, <2>3
    <3>2. k \in DOMAIN wf[w].journal /\ q.journal[k] = wf[w].journal[k]
      BY <1>3, <2>3, <3>1
    <3>3. Copied(wf[w], k) BY <2>3, <3>2 DEF IInv, OwnOrCopied
    <3>4. Copied(q, k) BY <3>1, <3>2, <3>3 DEF Copied
    <3> QED BY <1>4, <3>4, CopiedStays
  <2> QED BY <2>2, <2>3
<1>8. Forking'
  <2> SUFFICES ASSUME fork # Nil
               PROVE  /\ backend = "postgres"
                      /\ wf'[fork.to].status = "ABSENT"
                      /\ fork.row.status = "ACTIVE" /\ fork.row.from = fork.from
                      /\ wf'[fork.from].status # "ABSENT"
                      /\ \A k \in DOMAIN fork.row.journal : Copied(fork.row, k)'
    BY DEF Forking, Copied
  <2>1. Forking /\ fork.from \in Workflow /\ fork.to \in Workflow
    BY DEF IInv, TypeInv, ForkOK
  <2>2. PICK q : q = fork.row OBVIOUS
  <2>3. \A k \in DOMAIN q.journal : Copied(q, k)'
    BY <1>4, <2>1, <2>2, CopiedStays DEF Forking
  <2>4. \A k \in DOMAIN fork.row.journal : Copied(fork.row, k)'
    BY <2>2, <2>3 DEF Copied
  <2> QED BY <1>2, <1>4, <2>1, <2>4 DEF Forking, Stays
<1> QED BY <1>5, <1>6, <1>7, <1>8 DEF IInv

\* The rows as they are, for an execution that only moves on.
LEMMA OnlyMoves ==
    ASSUME IInv, NEW w \in Workflow, wf[w].status # "ABSENT", NEW e \in Context,
           exec' = [exec EXCEPT ![w] = e], UNCHANGED <<backend, deployed, wf, fork>>
    PROVE  IInv'
<1>1. wf = [u \in Workflow |-> wf[u]] /\ RowOK(wf[w]) BY DEF IInv, TypeInv
<1>2. wf' = [wf EXCEPT ![w] = wf[w]] BY <1>1
<1>3. fork # Nil => fork.to # w BY DEF IInv, Forking
<1> QED BY <1>1, <1>2, <1>3, OneMoves
-----------------------------------------------------------------------------
(* The steps of an execution.                                              *)

\* A context in which one thing changes.
LEMMA ContextSet ==
    ASSUME NEW e \in Context
    PROVE  /\ \A x \in BOOLEAN : [e EXCEPT !.on = x] \in Context
           /\ \A x \in Seq(Op) : [e EXCEPT !.rest = x] \in Context
           /\ \A x \in Nat : [e EXCEPT !.fid = x] \in Context
           /\ \A x \in BOOLEAN : [e EXCEPT !.wrote = x] \in Context
<1>1. ASSUME NEW x \in BOOLEAN PROVE [e EXCEPT !.on = x] \in Context BY DEF Context
<1>2. ASSUME NEW x \in Seq(Op) PROVE [e EXCEPT !.rest = x] \in Context BY DEF Context
<1>3. ASSUME NEW x \in Nat PROVE [e EXCEPT !.fid = x] \in Context BY DEF Context
<1>4. ASSUME NEW x \in BOOLEAN PROVE [e EXCEPT !.wrote = x] \in Context BY DEF Context
<1> QED BY <1>1, <1>2, <1>3, <1>4

\* An execution that begins, and one that is over.
LEMMA BeginContext == TypeInv => NoExec \in Context /\ Begin(deployed) \in Context
<1> SUFFICES ASSUME TypeInv PROVE NoExec \in Context /\ Begin(deployed) \in Context
  OBVIOUS
<1>1. Code[deployed] \in Seq(Op) BY CodeTyped DEF TypeInv
<1>2. <<>> \in Seq(Op) /\ 0 \in Nat /\ TRUE \in BOOLEAN /\ FALSE \in BOOLEAN OBVIOUS
<1>3. NoExec \in Context BY <1>2, Zenon DEF NoExec, Context
<1>4. [NoExec EXCEPT !.on = TRUE] \in Context BY <1>2, <1>3, ContextSet, Zenon
<1>5. [[NoExec EXCEPT !.on = TRUE] EXCEPT !.rest = Code[deployed]] \in Context
  BY <1>1, <1>4, ContextSet, Zenon
<1>6. Begin(deployed) = [[NoExec EXCEPT !.on = TRUE] EXCEPT !.rest = Code[deployed]]
  BY DEF Begin
<1> QED BY <1>3, <1>5, <1>6

\* Where an execution stands.
LEMMA AtFacts ==
    ASSUME IInv, NEW w \in Workflow, exec[w].on
    PROVE  /\ exec[w] \in Context /\ exec[w].rest \in Seq(Op) /\ exec[w].fid \in Nat
           /\ wf[w].status # "ABSENT" /\ RowOK(wf[w])
           /\ wf[w].journal \in Seq(Noted)
           /\ fork # Nil => fork.to # w
           /\ exec[w].rest # <<>> =>
                 /\ Head(exec[w].rest) \in Op /\ Tail(exec[w].rest) \in Seq(Op)
                 /\ Head(exec[w].rest).op \in {"step", "event", "stream"} =>
                       Head(exec[w].rest) \in AnyPlain
<1>1. exec[w] \in Context /\ RowOK(wf[w]) /\ wf[w].status # "ABSENT"
  BY DEF IInv, TypeInv
<1>2. exec[w].rest \in Seq(Op) /\ exec[w].fid \in Nat BY <1>1, Zenon DEF Context
<1>3. fork # Nil => fork.to # w BY <1>1 DEF IInv, Forking
<1>4. ASSUME exec[w].rest # <<>>
      PROVE  Head(exec[w].rest) \in Op /\ Tail(exec[w].rest) \in Seq(Op)
  BY <1>2, <1>4, HeadTailProperties
<1>5. ASSUME NEW o \in Op, o.op \in {"step", "event", "stream"} PROVE o \in AnyPlain
  BY <1>5 DEF Op, AnyPlain
<1> QED BY <1>1, <1>2, <1>3, <1>4, <1>5 DEF RowOK

\* It goes on.
LEMMA AdvanceContext ==
    ASSUME IInv, NEW w \in Workflow, exec[w].on, NEW rest \in Seq(Op), NEW steps \in Nat,
           Advance(w, rest, steps)
    PROVE  \E e \in Context : exec' = [exec EXCEPT ![w] = e]
<1> DEFINE e1 == [exec[w] EXCEPT !.rest = rest]
           e2 == [e1 EXCEPT !.fid = exec[w].fid + steps]
           e == [e2 EXCEPT !.wrote = FALSE]
<1>1. exec[w] \in Context /\ exec[w].fid + steps \in Nat /\ FALSE \in BOOLEAN BY AtFacts
<1>2. e1 \in Context BY <1>1, ContextSet
<1>3. e2 \in Context BY <1>1, <1>2, ContextSet
<1>4. e \in Context BY <1>1, <1>3, ContextSet
<1>5. exec' = [exec EXCEPT ![w] = e] BY Zenon DEF Advance
<1> QED BY <1>4, <1>5

\* run_workflow.
LEMMA StartHolds == ASSUME IInv, NEW w \in Workflow, Start(w) PROVE IInv'
<1> DEFINE r1 == [wf[w] EXCEPT !.status = "ACTIVE"]
           r == [r1 EXCEPT !["begun"] = deployed]
<1>1. RowOK(wf[w]) BY DEF IInv, TypeInv
<1>2. "ACTIVE" \in Status BY DEF Status
<1>3. /\ RowOK(r1) /\ r1.journal = wf[w].journal /\ r1.from = wf[w].from
      /\ r1.start = wf[w].start /\ r1.status = "ACTIVE"
  BY <1>1, <1>2, RowStatus
<1>4. wf' = [wf EXCEPT ![w] = r] BY DEF Start
<1> HIDE DEF r1
<1>5. /\ RowOK(r) /\ r.journal = wf[w].journal /\ r.from = wf[w].from
      /\ r.start = wf[w].start /\ r.status = "ACTIVE"
  BY <1>3, RowMark
<1> HIDE DEF r
<1>6. Begin(deployed) \in Context BY BeginContext DEF IInv
<1>7. /\ exec' = [exec EXCEPT ![w] = Begin(deployed)]
      /\ fork # Nil => fork.to # w
      /\ UNCHANGED <<backend, deployed, fork>>
  BY DEF Start
<1> QED BY <1>4, <1>5, <1>6, <1>7, OneMoves

\* Recovery.
LEMMA ResumeHolds == ASSUME IInv, NEW w \in Workflow, Resume(w) PROVE IInv'
<1>1. Begin(deployed) \in Context BY BeginContext DEF IInv
<1> QED BY <1>1, OnlyMoves DEF Resume

\* An execution that skips a recorded step.
LEMMA ReplayHolds == ASSUME IInv, NEW w \in Workflow, Replay(w) PROVE IInv'
<1>1. exec[w].on /\ exec[w].rest # <<>> BY DEF Replay, At
<1>2. Advance(w, Tail(exec[w].rest), 1) /\ UNCHANGED <<backend, deployed, wf, fork>>
  BY DEF Replay, Skip
<1>3. Tail(exec[w].rest) \in Seq(Op) /\ wf[w].status # "ABSENT" BY <1>1, AtFacts
<1> QED BY <1>1, <1>2, <1>3, AdvanceContext, OnlyMoves

\* The status of a workflow changes, and its execution is over.
LEMMA Ends ==
    ASSUME IInv, NEW w \in Workflow, exec[w].on, NEW x \in Status, x # "ABSENT",
           wf' = [wf EXCEPT ![w].status = x], exec' = [exec EXCEPT ![w] = NoExec],
           UNCHANGED <<backend, deployed, fork>>
    PROVE  IInv'
<1> DEFINE r == [wf[w] EXCEPT !.status = x]
<1>1. RowOK(wf[w]) /\ (fork # Nil => fork.to # w) BY AtFacts
<1>2. /\ RowOK(r) /\ r.journal = wf[w].journal /\ r.from = wf[w].from
      /\ r.start = wf[w].start /\ r.status = x
  BY <1>1, RowStatus
<1>3. wf' = [wf EXCEPT ![w] = r] OBVIOUS
<1>4. NoExec \in Context BY BeginContext DEF IInv
<1> HIDE DEF r
<1> QED BY <1>1, <1>2, <1>3, <1>4, OneMoves

LEMMA MismatchHolds == ASSUME IInv, NEW w \in Workflow, Mismatch(w) PROVE IInv'
<1>1. "ERROR" \in Status /\ "ERROR" # "ABSENT" BY DEF Status
<1> QED BY <1>1, Ends DEF Mismatch, At

LEMMA FinishHolds == ASSUME IInv, NEW w \in Workflow, Finish(w) PROVE IInv'
<1>1. "SUCCESS" \in Status /\ "SUCCESS" # "ABSENT" BY DEF Status
<1> QED BY <1>1, Ends DEF Finish

\* set_event and write_stream take effect.
LEMMA TakeEffectHolds == ASSUME IInv, NEW w \in Workflow, TakeEffect(w) PROVE IInv'
<1> DEFINE e == [exec[w] EXCEPT !.wrote = TRUE]
           fid == exec[w].fid + 1
<1>1. exec[w].on /\ UNCHANGED <<backend, deployed, fork>> BY DEF TakeEffect, At
<1>2. RowOK(wf[w]) /\ exec[w] \in Context /\ (fork # Nil => fork.to # w)
      /\ wf[w].status # "ABSENT"
  BY <1>1, AtFacts
<1>3. e \in Context
  <2>1. TRUE \in BOOLEAN OBVIOUS
  <2> QED BY <1>2, <2>1, ContextSet
<1>4. exec' = [exec EXCEPT ![w] = e] BY Zenon DEF TakeEffect
<1> HIDE DEF e
<1>5. \E r : /\ wf' = [wf EXCEPT ![w] = r]
             /\ RowOK(r) /\ r.journal = wf[w].journal /\ r.from = wf[w].from
             /\ r.start = wf[w].start /\ r.status = wf[w].status
  <2>1. CASE wf' = [wf EXCEPT ![w].stream = Appended(wf[w].stream, fid)]
    <3> DEFINE r == [wf[w] EXCEPT !["stream"] = Appended(wf[w].stream, fid)]
    <3>1. /\ RowOK(r) /\ r.journal = wf[w].journal /\ r.from = wf[w].from
          /\ r.start = wf[w].start /\ r.status = wf[w].status
      BY <1>2, RowMark
    <3>2. wf' = [wf EXCEPT ![w] = r] BY <2>1
    <3> QED BY <3>1, <3>2
  <2>2. CASE wf' = [wf EXCEPT ![w].event = fid, ![w].history = wf[w].history \cup {fid}]
    <3> DEFINE r1 == [wf[w] EXCEPT !["event"] = fid]
               r == [r1 EXCEPT !["history"] = wf[w].history \cup {fid}]
    <3>1. wf' = [wf EXCEPT ![w] = r] BY <2>2, Zenon
    <3>2. /\ RowOK(r1) /\ r1.journal = wf[w].journal /\ r1.from = wf[w].from
          /\ r1.start = wf[w].start /\ r1.status = wf[w].status
      BY <1>2, RowMark
    <3> HIDE DEF r1
    <3>3. /\ RowOK(r) /\ r.journal = wf[w].journal /\ r.from = wf[w].from
          /\ r.start = wf[w].start /\ r.status = wf[w].status
      BY <3>2, RowMark
    <3> QED BY <3>1, <3>3
  <2>3. wf' = IF Head(exec[w].rest).op = "stream"
              THEN [wf EXCEPT ![w].stream = Appended(wf[w].stream, fid)]
              ELSE [wf EXCEPT ![w].event = fid, ![w].history = wf[w].history \cup {fid}]
    BY Zenon DEF TakeEffect
  <2> HIDE DEF fid
  <2> QED BY <2>1, <2>2, <2>3
<1> QED BY <1>1, <1>2, <1>3, <1>4, <1>5, OneMoves

\* A step is recorded, by the workflow itself.
LEMMA Records ==
    ASSUME IInv, NEW w \in Workflow, exec[w].on, NEW rest \in Seq(Op), NEW steps \in Nat,
           Advance(w, rest, steps), UNCHANGED <<backend, deployed, fork>>,
           NEW n \in Noted, n.by = w,
           wf' = [wf EXCEPT ![w].journal = Append(wf[w].journal, n)]
    PROVE  IInv'
<1>1. PICK e \in Context : exec' = [exec EXCEPT ![w] = e] BY AdvanceContext
<1>2. /\ RowOK(wf[w]) /\ wf[w].status # "ABSENT" /\ wf[w].journal \in Seq(Noted)
      /\ fork # Nil => fork.to # w
  BY AtFacts
<1>3. PICK j \in Seq(Noted) : j = Append(wf[w].journal, n) BY <1>2, AppendProperties
<1> DEFINE r == [wf[w] EXCEPT !.journal = j]
<1>4. /\ RowOK(r) /\ r.journal = j /\ r.from = wf[w].from
      /\ r.start = wf[w].start /\ r.status = wf[w].status
  BY <1>2, RowJournal
<1>5. wf' = [wf EXCEPT ![w] = r] BY <1>3
<1>6. \E m \in Noted : m.by = w /\ r.journal = Append(wf[w].journal, m) BY <1>3, <1>4
<1> HIDE DEF r
<1> QED BY <1>1, <1>2, <1>4, <1>5, <1>6, OneMoves

LEMMA CheckpointHolds == ASSUME IInv, NEW w \in Workflow, Checkpoint(w) PROVE IInv'
<1> DEFINE o == Head(exec[w].rest)
           n == Note(w, o.op, o.branch)
<1>1. /\ exec[w].on /\ exec[w].rest # <<>> /\ o.op \in {"step", "event", "stream"}
      /\ UNCHANGED <<backend, deployed, fork>>
      /\ Advance(w, Tail(exec[w].rest), 1)
      /\ wf' = [wf EXCEPT ![w].journal = Append(wf[w].journal, n)]
  BY DEF Checkpoint, At, Skip
<1>2. o \in AnyPlain /\ Tail(exec[w].rest) \in Seq(Op) BY <1>1, AtFacts
<1>3. n \in Noted /\ n.by = w BY <1>2 DEF AnyPlain, Plain, Noted, Note
<1> HIDE DEF n, o
<1> QED BY <1>1, <1>2, <1>3, Records

\* patch: a branch is taken, and a marker recorded if nothing is there yet.
LEMMA PatchHolds == ASSUME IInv, NEW w \in Workflow, Patch(w) PROVE IInv'
<1>1. exec[w].on /\ exec[w].rest # <<>> /\ Head(exec[w].rest).op = "patch"
      /\ UNCHANGED <<backend, deployed, fork>>
  BY DEF Patch, At
<1> DEFINE p == IF Recorded(w) THEN PatchOver(Entry(w)) ELSE [new |-> TRUE, steps |-> 1]
           rest == (IF p.new THEN New ELSE Old) \o Tail(exec[w].rest)
<1>2. Advance(w, rest, p.steps) BY DEF Patch
<1>3. p.steps \in Nat
  <2>1. CASE Recorded(w)
    <3>1. p = PatchOver(Entry(w)) BY <2>1
    <3>2. PatchOver(Entry(w)).steps \in Nat BY DEF PatchOver
    <3> QED BY <3>1, <3>2
  <2>2. CASE ~Recorded(w) BY <2>2
  <2> QED BY <2>1, <2>2
<1>4. rest \in Seq(Op)
  <2>1. Tail(exec[w].rest) \in Seq(Op) BY <1>1, AtFacts
  <2> HIDE DEF p
  <2>4. (IF p.new THEN New ELSE Old) \in Seq(Op) BY CodeTyped
  <2> QED BY <2>1, <2>4, ConcatProperties
<1>5. CASE Recorded(w)
  <2>1. UNCHANGED wf BY <1>5 DEF Patch
  <2>2. wf[w].status # "ABSENT" BY <1>1, AtFacts
  <2> HIDE DEF rest, p
  <2> QED BY <1>1, <1>2, <1>3, <1>4, <2>1, <2>2, AdvanceContext, OnlyMoves
<1>6. CASE ~Recorded(w)
  <2> DEFINE n == Note(w, "patch", "new")
  <2>1. wf' = [wf EXCEPT ![w].journal = Append(wf[w].journal, n)] BY <1>6 DEF Patch
  <2>2. n \in Noted /\ n.by = w BY DEF Note, Noted
  <2> HIDE DEF rest, p, n
  <2> QED BY <1>1, <1>2, <1>3, <1>4, <2>1, <2>2, Records
<1> QED BY <1>5, <1>6

LEMMA DeprecatePatchHolds == ASSUME IInv, NEW w \in Workflow, DeprecatePatch(w) PROVE IInv'
<1> DEFINE steps == IF Recorded(w) /\ Entry(w).fn = "patch" THEN 1 ELSE 0
<1>1. /\ exec[w].on /\ exec[w].rest # <<>> /\ UNCHANGED <<backend, deployed, wf, fork>>
      /\ Advance(w, Tail(exec[w].rest), steps)
  BY DEF DeprecatePatch, At
<1>2. steps \in Nat OBVIOUS
<1>3. Tail(exec[w].rest) \in Seq(Op) /\ wf[w].status # "ABSENT" BY <1>1, AtFacts
<1> HIDE DEF steps
<1> QED BY <1>1, <1>2, <1>3, AdvanceContext, OnlyMoves

\* An execution dies.
LEMMA CrashHolds == ASSUME IInv, NEW w \in Workflow, Crash(w) PROVE IInv'
<1> DEFINE torn == wf[w].torn \/ exec[w].wrote
           r == [wf[w] EXCEPT !["torn"] = torn]
<1>1. exec[w].on /\ UNCHANGED <<backend, deployed, fork>> BY DEF Crash
<1>2. RowOK(wf[w]) /\ wf[w].status # "ABSENT" /\ (fork # Nil => fork.to # w)
  BY <1>1, AtFacts
<1>3. /\ RowOK(r) /\ r.journal = wf[w].journal /\ r.from = wf[w].from
      /\ r.start = wf[w].start /\ r.status = wf[w].status
  <2> HIDE DEF torn
  <2> QED BY <1>2, RowMark
<1>4. wf' = [wf EXCEPT ![w] = r] BY DEF Crash
<1>5. exec' = [exec EXCEPT ![w] = NoExec] /\ NoExec \in Context
  BY BeginContext DEF Crash, IInv
<1> HIDE DEF r
<1> QED BY <1>1, <1>2, <1>3, <1>4, <1>5, OneMoves
-----------------------------------------------------------------------------
(* Deployments and forks.                                                  *)

LEMMA DeployHolds == ASSUME IInv, Deploy PROVE IInv'
<1>1. deployed < Len(Code) /\ deployed' = deployed + 1 /\ UNCHANGED <<backend, wf, exec, fork>>
  BY DEF Deploy
<1>2. deployed' \in 1 .. Len(Code) BY <1>1, CodeTyped DEF IInv, TypeInv
<1>3. TypeInv' BY <1>1, <1>2 DEF IInv, TypeInv, ForkOK, RowOK
<1>4. \A w \in Workflow : OwnOrCopied(w)' BY <1>1 DEF IInv, OwnOrCopied, Copied
<1>5. Forking' BY <1>1 DEF IInv, Forking, Copied
<1> QED BY <1>1, <1>3, <1>4, <1>5 DEF IInv

\* A row that fork_workflow inserts: all that it has is copied.
LEMMA ForkCommits ==
    ASSUME IInv, NEW f \in Workflow, wf[f].status = "ABSENT",
           NEW r, RowOK(r), r.status # "ABSENT", \A k \in DOMAIN r.journal : Copied(r, k),
           wf' = [wf EXCEPT ![f] = r], UNCHANGED <<backend, deployed, exec>>, fork' = Nil
    PROVE  IInv'
<1>1. wf'[f] = r /\ \A u \in Workflow : u # f => wf'[u] = wf[u] BY DEF IInv, TypeInv
<1>2. Stays BY <1>1 DEF Stays
<1>3. TypeInv'
  <2>1. wf' = [u \in Workflow |-> wf'[u]] BY DEF IInv, TypeInv
  <2>2. \A u \in Workflow : RowOK(wf[u])' BY <1>1 DEF IInv, TypeInv, RowOK
  <2>3. ForkOK' BY DEF ForkOK
  <2> QED BY <2>1, <2>2, <2>3 DEF IInv, TypeInv
<1>4. ASSUME NEW u \in Workflow, exec'[u].on PROVE wf'[u].status # "ABSENT"
  BY <1>1, <1>4 DEF IInv
<1>5. ASSUME NEW u \in Workflow PROVE OwnOrCopied(u)'
  <2>1. PICK q : q = wf'[u] OBVIOUS
  <2> SUFFICES ASSUME NEW k \in DOMAIN q.journal, q.journal[k].by # u
               PROVE  Copied(q, k)'
    BY <2>1 DEF OwnOrCopied, Copied
  <2>2. Copied(q, k) BY <1>1, <2>1 DEF IInv, OwnOrCopied
  <2> QED BY <1>2, <2>2, CopiedStays
<1>6. Forking' BY DEF Forking
<1> QED BY <1>3, <1>4, <1>5, <1>6 DEF IInv

\* The row of a fork, before anything is copied.
LEMMA ForkRowOK ==
    ASSUME TypeInv, NEW o \in Workflow, NEW s \in Nat
    PROVE  /\ RowOK(ForkRow(o, s)) /\ ForkRow(o, s).status = "ACTIVE"
           /\ ForkRow(o, s).from = o /\ ForkRow(o, s).start = s
<1> DEFINE r1 == [NoWorkflow EXCEPT !.status = "ACTIVE", !.from = o, !.start = s]
           r2 == [r1 EXCEPT !["begun"] = wf[o].begun]
           torn == wf[o].torn \/ wf[o].status = "ACTIVE"
           r == [r2 EXCEPT !["torn"] = torn]
<1>1. RowOK(r1) /\ r1.status = "ACTIVE" /\ r1.from = o /\ r1.start = s
  <2>1. r1 = [g \in Fields |-> r1[g]] BY DEF NoWorkflow, Fields
  <2>2. r1.status = "ACTIVE" /\ r1.from = o /\ r1.start = s /\ r1.journal = <<>>
    BY DEF NoWorkflow
  <2>3. <<>> \in Seq(Noted) /\ "ACTIVE" \in Status BY DEF Status
  <2> HIDE DEF r1
  <2> QED BY <2>1, <2>2, <2>3 DEF RowOK
<1> HIDE DEF r1
<1>2. RowOK(r2) /\ r2.status = "ACTIVE" /\ r2.from = o /\ r2.start = s BY <1>1, RowMark
<1> HIDE DEF r2, torn
<1>3. RowOK(r) /\ r.status = "ACTIVE" /\ r.from = o /\ r.start = s BY <1>2, RowMark
<1>4. ForkRow(o, s) = r BY Zenon DEF ForkRow, r, r2, r1, torn
<1> QED BY <1>3, <1>4

\* SQLite: in a snapshot.
LEMMA ForkAtOnceHolds ==
    ASSUME IInv, NEW o \in Workflow, NEW f \in Workflow, NEW s \in Starts, ForkAtOnce(o, f, s)
    PROVE  IInv'
<1>1. s \in Nat /\ TypeInv BY CodeAssumption DEF IInv
<1> DEFINE r0 == ForkRow(o, s)
           r1 == [r0 EXCEPT !.journal = CopyJournal(o, s)]
           r2 == [r1 EXCEPT !["history"] = CopyHistory(o, s)]
           r3 == [r2 EXCEPT !["event"] = CopyEvent(o, s)]
           r == [r3 EXCEPT !["stream"] = CopyStream(o, s)]
<1>2. /\ wf' = [wf EXCEPT ![f] = r] /\ UNCHANGED <<backend, deployed, exec, fork>>
      /\ backend = "sqlite" /\ wf[o].status # "ABSENT" /\ wf[f].status = "ABSENT"
  BY Zenon DEF ForkAtOnce, MayFork
<1>3. RowOK(r0) /\ r0.status = "ACTIVE" /\ r0.from = o /\ r0.start = s
  BY <1>1, ForkRowOK
<1> HIDE DEF r0
<1>4. CopyJournal(o, s) \in Seq(Noted) BY <1>1, JournalCopied
<1>5. /\ RowOK(r1) /\ r1.status = "ACTIVE" /\ r1.from = o /\ r1.start = s
      /\ r1.journal = CopyJournal(o, s)
  BY <1>3, <1>4, RowJournal
<1> HIDE DEF r1
<1>6. /\ RowOK(r2) /\ r2.status = "ACTIVE" /\ r2.from = o /\ r2.start = s
      /\ r2.journal = CopyJournal(o, s)
  BY <1>5, RowMark
<1> HIDE DEF r2
<1>7. /\ RowOK(r3) /\ r3.status = "ACTIVE" /\ r3.from = o /\ r3.start = s
      /\ r3.journal = CopyJournal(o, s)
  BY <1>6, RowMark
<1> HIDE DEF r3
<1>8. /\ RowOK(r) /\ r.status = "ACTIVE" /\ r.from = o /\ r.start = s
      /\ r.journal = CopyJournal(o, s)
  BY <1>7, RowMark
<1> HIDE DEF r
<1>9. ASSUME NEW k \in DOMAIN r.journal PROVE Copied(r, k)
  <2>1. /\ k < s /\ k \in DOMAIN wf[o].journal
        /\ CopyJournal(o, s)[k] = wf[o].journal[k]
    BY <1>1, <1>8, JournalCopied
  <2> QED BY <1>2, <1>8, <2>1 DEF Copied
<1>10. fork = Nil BY <1>2 DEF IInv, Forking
<1> QED BY <1>2, <1>8, <1>9, <1>10, ForkCommits

\* Postgres: a statement of the transaction changes what is to be committed.
LEMMA ForkGoesOn ==
    ASSUME IInv, NEW o \in Workflow, NEW f \in Workflow, NEW n \in Stage, NEW r, RowOK(r),
           fork' = [from |-> o, to |-> f, next |-> n, row |-> r],
           UNCHANGED <<backend, deployed, wf, exec>>,
           backend = "postgres", wf[f].status = "ABSENT", wf[o].status # "ABSENT",
           r.status = "ACTIVE", r.from = o, \A k \in DOMAIN r.journal : Copied(r, k)
    PROVE  IInv'
<1>1. ForkOK' BY DEF ForkOK, RowOK
<1>2. TypeInv' BY <1>1 DEF IInv, TypeInv, RowOK
<1>3. \A w \in Workflow : OwnOrCopied(w)' BY DEF IInv, OwnOrCopied, Copied
<1>4. Forking' BY DEF Forking, Copied
<1> QED BY <1>2, <1>3, <1>4 DEF IInv

LEMMA BeginForkHolds ==
    ASSUME IInv, NEW o \in Workflow, NEW f \in Workflow, NEW s \in Starts, BeginFork(o, f, s)
    PROVE  IInv'
<1>1. s \in Nat /\ TypeInv BY CodeAssumption DEF IInv
<1> DEFINE r == [ForkRow(o, s) EXCEPT !.journal = <<>>]
<1>2. /\ backend = "postgres" /\ wf[o].status # "ABSENT" /\ wf[f].status = "ABSENT"
      /\ fork' = [from |-> o, to |-> f, next |-> "journal", row |-> r]
      /\ UNCHANGED <<backend, deployed, wf, exec>>
  BY DEF BeginFork, MayFork
<1>3. RowOK(ForkRow(o, s)) /\ ForkRow(o, s).status = "ACTIVE" /\ ForkRow(o, s).from = o
  BY <1>1, ForkRowOK
<1>5. RowOK(r) /\ r.status = "ACTIVE" /\ r.from = o /\ r.journal = <<>>
  BY <1>3, RowEmptied
<1>6. "journal" \in Stage BY DEF Stage
<1> HIDE DEF r
<1>7. \A k \in DOMAIN r.journal : Copied(r, k) BY <1>5
<1> QED BY <1>2, <1>5, <1>6, <1>7, ForkGoesOn

\* A statement that copies.
LEMMA CopyNextHolds == ASSUME IInv, CopyNext PROVE IInv'
<1>1. /\ fork # Nil /\ fork.next # "commit" /\ UNCHANGED <<backend, deployed, wf, exec>>
      /\ TypeInv /\ Forking
  BY DEF CopyNext, IInv
<1> SUFFICES ASSUME NEW o \in Workflow, NEW f \in Workflow, NEW n \in Stage, NEW r,
                    RowOK(r), fork = [from |-> o, to |-> f, next |-> n, row |-> r],
                    NEW s, s = r.start
             PROVE  IInv'
  BY <1>1 DEF TypeInv, ForkOK
<1>2. /\ backend = "postgres" /\ wf[f].status = "ABSENT" /\ wf[o].status # "ABSENT"
      /\ r.status = "ACTIVE" /\ r.from = o
      /\ \A k \in DOMAIN r.journal : Copied(r, k)
  BY <1>1 DEF Forking
<1>3. s \in Nat BY DEF RowOK
<1>4. ASSUME NEW m \in Stage, NEW q, RowOK(q), q.status = "ACTIVE", q.from = o,
             \A k \in DOMAIN q.journal : Copied(q, k),
             fork' = [from |-> o, to |-> f, next |-> m, row |-> q]
      PROVE  IInv'
  BY <1>1, <1>2, <1>4, ForkGoesOn
<1>5. CASE n = "journal"
  <2> DEFINE q == [r EXCEPT !.journal = CopyJournal(o, s)]
  <2>1. fork' = [from |-> o, to |-> f, next |-> "history", row |-> q]
    BY <1>5, Zenon DEF CopyNext
  <2>2. CopyJournal(o, s) \in Seq(Noted) BY <1>1, <1>3, JournalCopied
  <2>3. /\ RowOK(q) /\ q.journal = CopyJournal(o, s) /\ q.from = o /\ q.start = s
        /\ q.status = "ACTIVE"
    BY <1>2, <2>2, RowJournal
  <2> HIDE DEF q
  <2>4. ASSUME NEW k \in DOMAIN q.journal PROVE Copied(q, k)
    <3>1. /\ k < s /\ k \in DOMAIN wf[o].journal
          /\ CopyJournal(o, s)[k] = wf[o].journal[k]
      BY <1>1, <1>3, <2>3, JournalCopied
    <3> QED BY <1>2, <2>3, <3>1 DEF Copied
  <2>5. "history" \in Stage BY DEF Stage
  <2> QED BY <1>4, <2>1, <2>3, <2>4, <2>5
<1>6. ASSUME NEW m \in Stage, NEW q, RowOK(q), q.journal = r.journal, q.from = r.from,
             q.start = r.start, q.status = r.status,
             fork' = [from |-> o, to |-> f, next |-> m, row |-> q]
      PROVE  IInv'
  <2>1. \A k \in DOMAIN q.journal : Copied(q, k) BY <1>2, <1>6 DEF Copied
  <2> QED BY <1>2, <1>4, <1>6, <2>1
<1>7. CASE n = "history"
  <2> DEFINE q == [r EXCEPT !["history"] = CopyHistory(o, s)]
  <2>1. fork' = [from |-> o, to |-> f, next |-> "event", row |-> q]
    BY <1>7, Zenon DEF CopyNext
  <2>2. /\ RowOK(q) /\ q.journal = r.journal /\ q.from = r.from /\ q.start = r.start
        /\ q.status = r.status
    BY RowMark
  <2>3. "event" \in Stage BY DEF Stage
  <2> HIDE DEF q
  <2> QED BY <1>6, <2>1, <2>2, <2>3
<1>8. CASE n = "event"
  <2> DEFINE q == [r EXCEPT !["event"] = CopyEvent(o, s)]
  <2>1. fork' = [from |-> o, to |-> f, next |-> "stream", row |-> q]
    BY <1>8, Zenon DEF CopyNext
  <2>2. /\ RowOK(q) /\ q.journal = r.journal /\ q.from = r.from /\ q.start = r.start
        /\ q.status = r.status
    BY RowMark
  <2>3. "stream" \in Stage BY DEF Stage
  <2> HIDE DEF q
  <2> QED BY <1>6, <2>1, <2>2, <2>3
<1>9. CASE n = "stream"
  <2> DEFINE q == [r EXCEPT !["stream"] = CopyStream(o, s)]
  <2>1. fork' = [from |-> o, to |-> f, next |-> "commit", row |-> q]
    BY <1>9, Zenon DEF CopyNext
  <2>2. /\ RowOK(q) /\ q.journal = r.journal /\ q.from = r.from /\ q.start = r.start
        /\ q.status = r.status
    BY RowMark
  <2>3. "commit" \in Stage BY DEF Stage
  <2> HIDE DEF q
  <2> QED BY <1>6, <2>1, <2>2, <2>3
<1> QED BY <1>1, <1>5, <1>7, <1>8, <1>9 DEF Stage

\* The transaction commits.
LEMMA CommitForkHolds == ASSUME IInv, CommitFork PROVE IInv'
<1> DEFINE torn == fork.row.torn \/ wf[fork.from].torn
           r == [fork.row EXCEPT !["torn"] = torn]
<1>1. /\ fork # Nil /\ fork' = Nil /\ UNCHANGED <<backend, deployed, exec>>
      /\ wf' = [wf EXCEPT ![fork.to] = r]
  BY DEF CommitFork
<1>2. /\ RowOK(fork.row) /\ fork.to \in Workflow /\ Forking
  BY <1>1 DEF IInv, TypeInv, ForkOK
<1> HIDE DEF torn
<1>3. /\ RowOK(r) /\ r.journal = fork.row.journal /\ r.from = fork.row.from
      /\ r.start = fork.row.start /\ r.status = fork.row.status
  BY <1>2, RowMark
<1> HIDE DEF r
<1>4. \A k \in DOMAIN r.journal : Copied(r, k) BY <1>1, <1>2, <1>3 DEF Forking, Copied
<1> QED BY <1>1, <1>2, <1>3, <1>4, ForkCommits DEF Forking
-----------------------------------------------------------------------------
\* Nothing is there at first.
LEMMA InitHolds == Init => IInv
<1> SUFFICES ASSUME Init PROVE IInv OBVIOUS
<1>1. RowOK(NoWorkflow) /\ NoWorkflow.journal = <<>>
  <2>1. NoWorkflow = [g \in Fields |-> NoWorkflow[g]] BY DEF NoWorkflow, Fields
  <2>2. NoWorkflow.status = "ABSENT" /\ NoWorkflow.from = Nil /\ NoWorkflow.start = 0
        /\ NoWorkflow.journal = <<>>
    BY DEF NoWorkflow
  <2>3. <<>> \in Seq(Noted) /\ "ABSENT" \in Status /\ 0 \in Nat BY DEF Status
  <2>4. NoWorkflow.journal \in Seq(Noted) BY <2>2, <2>3
  <2> QED BY <2>1, <2>2, <2>3, <2>4 DEF RowOK
<1>2. deployed \in 1 .. Len(Code)
  <2>1. Len(Code) = 4 BY CodeTyped
  <2> QED BY <2>1 DEF Init
<1>3. NoExec \in Context /\ ~NoExec.on
  <2>1. <<>> \in Seq(Op) /\ 0 \in Nat /\ FALSE \in BOOLEAN OBVIOUS
  <2> QED BY <2>1, Zenon DEF NoExec, Context
<1>4. /\ wf = [w \in Workflow |-> NoWorkflow] /\ exec = [w \in Workflow |-> NoExec]
      /\ fork = Nil
  BY DEF Init
<1> HIDE DEF NoWorkflow, NoExec
<1>5. TypeInv
  <2>1. wf = [w \in Workflow |-> wf[w]] /\ \A w \in Workflow : RowOK(wf[w]) BY <1>1, <1>4
  <2>2. exec \in [Workflow -> Context] BY <1>3, <1>4
  <2>3. ForkOK BY <1>4 DEF ForkOK
  <2> QED BY <1>2, <2>1, <2>2, <2>3 DEF TypeInv
<1>6. \A w \in Workflow : ~exec[w].on BY <1>3, <1>4
<1>7. \A w \in Workflow : OwnOrCopied(w) BY <1>1, <1>4 DEF OwnOrCopied
<1>8. Forking BY <1>4 DEF Forking
<1> QED BY <1>5, <1>6, <1>7, <1>8 DEF IInv

\* Every step keeps the invariant.
LEMMA NextHolds == IInv /\ [Next]_vars => IInv'
<1> SUFFICES ASSUME IInv, [Next]_vars PROVE IInv' OBVIOUS
<1>1. CASE UNCHANGED vars
  <2>1. UNCHANGED <<backend, deployed, wf, exec, fork>> BY <1>1 DEF vars
  <2>2. TypeInv' BY <2>1 DEF IInv, TypeInv, ForkOK, RowOK
  <2>3. \A w \in Workflow : OwnOrCopied(w)' BY <2>1 DEF IInv, OwnOrCopied, Copied
  <2>4. Forking' BY <2>1 DEF IInv, Forking, Copied
  <2> QED BY <2>1, <2>2, <2>3, <2>4 DEF IInv
<1>2. ASSUME NEW w \in Workflow,
             \/ Start(w) \/ Resume(w) \/ Replay(w) \/ Mismatch(w) \/ TakeEffect(w)
             \/ Checkpoint(w) \/ Patch(w) \/ DeprecatePatch(w) \/ Finish(w) \/ Crash(w)
      PROVE  IInv'
  BY <1>2, StartHolds, ResumeHolds, ReplayHolds, MismatchHolds, TakeEffectHolds,
     CheckpointHolds, PatchHolds, DeprecatePatchHolds, FinishHolds, CrashHolds
<1>3. ASSUME NEW o \in Workflow, NEW f \in Workflow, NEW s \in Starts,
             ForkAtOnce(o, f, s) \/ BeginFork(o, f, s)
      PROVE  IInv'
  BY <1>3, ForkAtOnceHolds, BeginForkHolds
<1> QED BY <1>1, <1>2, <1>3, DeployHolds, CopyNextHolds, CommitForkHolds DEF Next

\* A fork has the steps of its original before start_step, and executes
\* start_step and all that follow itself (fork_workflow).
THEOREM ForkKeepsItsStart == Spec => []ForkFromStart
<1>1. IInv => ForkFromStart BY DEF IInv, OwnOrCopied, Copied, ForkFromStart
<1> QED BY <1>1, InitHolds, NextHolds, PTL DEF Spec
-----------------------------------------------------------------------------
(* What each step does to the rows and to the execution, field by field.   *)

\* One workflow moves, the others and the fork in progress stay.
Local(w) ==
    /\ \A u \in Workflow : u # w => wf'[u] = wf[u] /\ exec'[u] = exec[u]
    /\ UNCHANGED <<backend, deployed, fork>>

SameOrigin(q, r) == q.from = r.from /\ q.start = r.start /\ q.begun = r.begun
SameShown(q, r) == q.event = r.event /\ q.history = r.history /\ q.stream = r.stream

\* An execution that begins.
Begun(w) == exec'[w].on /\ exec'[w].rest = Code[deployed] /\ exec'[w].fid = 0 /\ ~exec'[w].wrote

LEMMA BeginsDoes ==
    ASSUME IInv, NEW w \in Workflow, exec' = [exec EXCEPT ![w] = Begin(deployed)]
    PROVE  Begun(w) /\ \A u \in Workflow : u # w => exec'[u] = exec[u]
<1>1. exec'[w] = Begin(deployed) /\ \A u \in Workflow : u # w => exec'[u] = exec[u]
  BY DEF IInv, TypeInv
<1>2. /\ Begin(deployed).on /\ Begin(deployed).rest = Code[deployed]
      /\ Begin(deployed).fid = 0 /\ ~Begin(deployed).wrote
  BY Zenon DEF Begin, NoExec
<1> QED BY <1>1, <1>2 DEF Begun

\* One that is over.
LEMMA OverDoes ==
    ASSUME IInv, NEW w \in Workflow, exec' = [exec EXCEPT ![w] = NoExec]
    PROVE  /\ ~exec'[w].on /\ ~exec'[w].wrote
           /\ \A u \in Workflow : u # w => exec'[u] = exec[u]
<1>1. exec'[w] = NoExec /\ \A u \in Workflow : u # w => exec'[u] = exec[u]
  BY DEF IInv, TypeInv
<1>2. ~NoExec.on /\ ~NoExec.wrote BY Zenon DEF NoExec
<1> QED BY <1>1, <1>2

\* One that goes on.
LEMMA AdvanceDoes ==
    ASSUME IInv, NEW w \in Workflow, NEW rest, NEW steps, Advance(w, rest, steps)
    PROVE  /\ exec'[w].on = exec[w].on /\ exec'[w].rest = rest
           /\ exec'[w].fid = exec[w].fid + steps /\ exec'[w].wrote = FALSE
           /\ \A u \in Workflow : u # w => exec'[u] = exec[u]
<1>1. exec \in [Workflow -> Context] BY DEF IInv, TypeInv
<1>2. PICK e \in Context : e = exec[w] BY <1>1
<1>3. PICK q : q = [e EXCEPT !.rest = rest, !.fid = e.fid + steps, !.wrote = FALSE] OBVIOUS
<1>4. exec' = [exec EXCEPT ![w] = q] BY <1>2, <1>3, Zenon DEF Advance
<1>5. q.on = e.on /\ q.rest = rest /\ q.fid = e.fid + steps /\ q.wrote = FALSE
  BY <1>3 DEF Context
<1>6. exec'[w] = q /\ \A u \in Workflow : u # w => exec'[u] = exec[u] BY <1>1, <1>4
<1> QED BY <1>2, <1>5, <1>6

\* All of a row's fields.
LEMMA AllFields ==
    ASSUME NEW r, RowOK(r)
    PROVE  /\ r = [f \in Fields |-> r[f]]
           /\ "status" \in Fields /\ "journal" \in Fields /\ "from" \in Fields
           /\ "start" \in Fields /\ "event" \in Fields /\ "history" \in Fields
           /\ "stream" \in Fields /\ "begun" \in Fields /\ "torn" \in Fields
BY DEF RowOK, Fields

LEMMA StartDoes ==
    ASSUME IInv, NEW w \in Workflow, Start(w)
    PROVE  /\ Local(w) /\ Begun(w)
           /\ wf[w].status = "ABSENT" /\ wf'[w].status = "ACTIVE"
           /\ wf'[w].begun = deployed /\ wf'[w].journal = wf[w].journal
           /\ wf'[w].from = wf[w].from /\ wf'[w].torn = wf[w].torn
           /\ SameShown(wf'[w], wf[w])
           /\ fork # Nil => fork.to # w
<1>1. wf = [u \in Workflow |-> wf[u]] /\ RowOK(wf[w]) BY DEF IInv, TypeInv
<1>2. /\ wf[w].status = "ABSENT" /\ UNCHANGED <<backend, deployed, fork>>
      /\ wf' = [wf EXCEPT ![w].status = "ACTIVE", ![w].begun = deployed]
      /\ exec' = [exec EXCEPT ![w] = Begin(deployed)]
      /\ fork # Nil => fork.to # w
  BY DEF Start
<1>3. PICK r : r = wf[w] OBVIOUS
<1>4. PICK q : q = [r EXCEPT !.status = "ACTIVE", !.begun = deployed] OBVIOUS
<1>5. wf' = [wf EXCEPT ![w] = q] BY <1>2, <1>3, <1>4, Zenon
<1>6. /\ q.status = "ACTIVE" /\ q.begun = deployed /\ q.journal = r.journal
      /\ q.from = r.from /\ q.torn = r.torn /\ SameShown(q, r)
  BY <1>1, <1>3, <1>4, AllFields DEF SameShown
<1>7. wf'[w] = q /\ \A u \in Workflow : u # w => wf'[u] = wf[u] BY <1>1, <1>5
<1> QED BY <1>2, <1>3, <1>6, <1>7, BeginsDoes DEF Local

LEMMA ResumeDoes ==
    ASSUME IInv, NEW w \in Workflow, Resume(w)
    PROVE  Local(w) /\ Begun(w) /\ wf[w].status = "ACTIVE" /\ ~exec[w].on /\ wf' = wf
BY BeginsDoes DEF Resume, Local

\* Mismatch and Finish.
LEMMA EndsDoes ==
    ASSUME IInv, NEW w \in Workflow, NEW x, wf' = [wf EXCEPT ![w].status = x],
           exec' = [exec EXCEPT ![w] = NoExec], UNCHANGED <<backend, deployed, fork>>
    PROVE  /\ Local(w) /\ wf'[w].status = x /\ wf'[w].journal = wf[w].journal
           /\ SameOrigin(wf'[w], wf[w]) /\ SameShown(wf'[w], wf[w])
           /\ wf'[w].torn = wf[w].torn /\ ~exec'[w].on /\ ~exec'[w].wrote
<1>1. wf = [u \in Workflow |-> wf[u]] /\ RowOK(wf[w]) BY DEF IInv, TypeInv
<1>2. PICK r : r = wf[w] OBVIOUS
<1>3. PICK q : q = [r EXCEPT !.status = x] OBVIOUS
<1>4. wf' = [wf EXCEPT ![w] = q] BY <1>2, <1>3, Zenon
<1>5. /\ q.status = x /\ q.journal = r.journal /\ SameOrigin(q, r) /\ SameShown(q, r)
      /\ q.torn = r.torn
  BY <1>1, <1>2, <1>3, AllFields DEF SameOrigin, SameShown
<1>6. wf'[w] = q /\ \A u \in Workflow : u # w => wf'[u] = wf[u] BY <1>1, <1>4
<1> QED BY <1>2, <1>5, <1>6, OverDoes DEF Local

LEMMA CrashDoes ==
    ASSUME IInv, NEW w \in Workflow, Crash(w)
    PROVE  /\ Local(w) /\ wf'[w].status = wf[w].status /\ wf'[w].journal = wf[w].journal
           /\ SameOrigin(wf'[w], wf[w]) /\ SameShown(wf'[w], wf[w])
           /\ wf'[w].torn = (wf[w].torn \/ exec[w].wrote)
           /\ exec[w].on /\ ~exec'[w].on /\ ~exec'[w].wrote
<1>1. wf = [u \in Workflow |-> wf[u]] /\ RowOK(wf[w]) BY DEF IInv, TypeInv
<1>2. /\ exec[w].on /\ UNCHANGED <<backend, deployed, fork>>
      /\ wf' = [wf EXCEPT ![w].torn = wf[w].torn \/ exec[w].wrote]
      /\ exec' = [exec EXCEPT ![w] = NoExec]
  BY DEF Crash
<1>3. PICK r : r = wf[w] OBVIOUS
<1>4. PICK x : x = (wf[w].torn \/ exec[w].wrote) OBVIOUS
<1>5. PICK q : q = [r EXCEPT !.torn = x] OBVIOUS
<1>6. wf' = [wf EXCEPT ![w] = q] BY <1>2, <1>3, <1>4, <1>5, Zenon
<1>7. /\ q.status = r.status /\ q.journal = r.journal /\ SameOrigin(q, r) /\ SameShown(q, r)
      /\ q.torn = x
  BY <1>1, <1>3, <1>5, AllFields DEF SameOrigin, SameShown
<1>8. wf'[w] = q /\ \A u \in Workflow : u # w => wf'[u] = wf[u] BY <1>1, <1>6
<1>9. wf'[w].torn = (wf[w].torn \/ exec[w].wrote) BY <1>4, <1>7, <1>8
<1> QED BY <1>2, <1>3, <1>7, <1>8, <1>9, OverDoes DEF Local

\* Checkpoint and Patch.
LEMMA RecordsDoes ==
    ASSUME IInv, NEW w \in Workflow, NEW rest, NEW steps, Advance(w, rest, steps),
           UNCHANGED <<backend, deployed, fork>>,
           NEW n, wf' = [wf EXCEPT ![w].journal = Append(wf[w].journal, n)]
    PROVE  /\ Local(w) /\ wf'[w].status = wf[w].status
           /\ wf'[w].journal = Append(wf[w].journal, n)
           /\ SameOrigin(wf'[w], wf[w]) /\ SameShown(wf'[w], wf[w])
           /\ wf'[w].torn = wf[w].torn
<1>1. wf = [u \in Workflow |-> wf[u]] /\ RowOK(wf[w]) BY DEF IInv, TypeInv
<1>2. PICK r : r = wf[w] OBVIOUS
<1>3. PICK j : j = Append(wf[w].journal, n) OBVIOUS
<1>4. PICK q : q = [r EXCEPT !.journal = j] OBVIOUS
<1>5. wf' = [wf EXCEPT ![w] = q] BY <1>2, <1>3, <1>4, Zenon
<1>6. /\ q.status = r.status /\ q.journal = j /\ SameOrigin(q, r) /\ SameShown(q, r)
      /\ q.torn = r.torn
  BY <1>1, <1>2, <1>4, AllFields DEF SameOrigin, SameShown
<1>7. wf'[w] = q /\ \A u \in Workflow : u # w => wf'[u] = wf[u] BY <1>1, <1>5
<1> QED BY <1>2, <1>3, <1>6, <1>7, AdvanceDoes DEF Local

LEMMA TakeEffectDoes ==
    ASSUME IInv, NEW w \in Workflow, TakeEffect(w)
    PROVE  /\ Local(w) /\ wf'[w].status = wf[w].status /\ wf'[w].journal = wf[w].journal
           /\ SameOrigin(wf'[w], wf[w]) /\ wf'[w].torn = wf[w].torn
           /\ exec'[w].on /\ exec'[w].rest = exec[w].rest /\ exec'[w].fid = exec[w].fid
           /\ exec'[w].wrote
           /\ Head(exec[w].rest).op = "stream" =>
                 /\ wf'[w].stream = Appended(wf[w].stream, exec[w].fid + 1)
                 /\ wf'[w].event = wf[w].event /\ wf'[w].history = wf[w].history
           /\ Head(exec[w].rest).op # "stream" =>
                 /\ wf'[w].stream = wf[w].stream /\ wf'[w].event = exec[w].fid + 1
                 /\ wf'[w].history = wf[w].history \cup {exec[w].fid + 1}
<1>1. /\ wf = [u \in Workflow |-> wf[u]] /\ RowOK(wf[w]) /\ exec \in [Workflow -> Context]
      /\ exec[w].on /\ UNCHANGED <<backend, deployed, fork>>
  BY DEF IInv, TypeInv, TakeEffect, At
<1>2. /\ exec'[w].on /\ exec'[w].rest = exec[w].rest /\ exec'[w].fid = exec[w].fid
      /\ exec'[w].wrote /\ \A u \in Workflow : u # w => exec'[u] = exec[u]
  <2>1. PICK e \in Context : e = exec[w] BY <1>1
  <2>2. PICK q : q = [e EXCEPT !.wrote = TRUE] OBVIOUS
  <2>3. exec' = [exec EXCEPT ![w] = q] BY <2>1, <2>2, Zenon DEF TakeEffect
  <2>4. q.on = e.on /\ q.rest = e.rest /\ q.fid = e.fid /\ q.wrote BY <2>2 DEF Context
  <2> QED BY <1>1, <2>1, <2>3, <2>4
<1>3. PICK r : r = wf[w] OBVIOUS
<1>4. PICK fid : fid = exec[w].fid + 1 OBVIOUS
<1>5. wf' = IF Head(exec[w].rest).op = "stream"
            THEN [wf EXCEPT ![w].stream = Appended(wf[w].stream, fid)]
            ELSE [wf EXCEPT ![w].event = fid, ![w].history = wf[w].history \cup {fid}]
  BY <1>4, Zenon DEF TakeEffect
<1>6. CASE Head(exec[w].rest).op = "stream"
  <2>1. PICK x : x = Appended(r.stream, fid) OBVIOUS
  <2>2. PICK q : q = [r EXCEPT !.stream = x] OBVIOUS
  <2>3. wf' = [wf EXCEPT ![w] = q] BY <1>3, <1>5, <1>6, <2>1, <2>2, Zenon
  <2>4. /\ q.status = r.status /\ q.journal = r.journal /\ SameOrigin(q, r)
        /\ q.torn = r.torn /\ q.stream = x /\ q.event = r.event /\ q.history = r.history
    BY <1>1, <1>3, <2>2, AllFields DEF SameOrigin
  <2>5. wf'[w] = q /\ \A u \in Workflow : u # w => wf'[u] = wf[u] BY <1>1, <2>3
  <2> QED BY <1>1, <1>2, <1>3, <1>4, <1>6, <2>1, <2>4, <2>5 DEF Local
<1>7. CASE Head(exec[w].rest).op # "stream"
  <2>1. PICK x : x = r.history \cup {fid} OBVIOUS
  <2>2. PICK q : q = [r EXCEPT !.event = fid, !.history = x] OBVIOUS
  <2>3. wf' = [wf EXCEPT ![w] = q] BY <1>3, <1>5, <1>7, <2>1, <2>2, Zenon
  <2>4. /\ q.status = r.status /\ q.journal = r.journal /\ SameOrigin(q, r)
        /\ q.torn = r.torn /\ q.stream = r.stream /\ q.event = fid /\ q.history = x
    BY <1>1, <1>3, <2>2, AllFields DEF SameOrigin
  <2>5. wf'[w] = q /\ \A u \in Workflow : u # w => wf'[u] = wf[u] BY <1>1, <2>3
  <2> QED BY <1>1, <1>2, <1>3, <1>4, <1>7, <2>1, <2>4, <2>5 DEF Local
<1> QED BY <1>6, <1>7
-----------------------------------------------------------------------------
(* The events and streams, and the journal.                                *)

\* A set of numbers has a least element, ...
LEMMA LeastOf ==
    ASSUME NEW S, S \subseteq Nat, S # {} PROVE \E x \in S : \A y \in S : x <= y
<1> DEFINE R == OpToRel(<, Nat)
<1>1. IsWellFoundedOn(R, Nat) BY NatLessThanWellFounded
<1>2. \A x, y \in Nat : <<x, y>> \in R <=> x < y BY DEF OpToRel
<1> HIDE DEF R
<1>3. PICK x \in S : \A y \in S : ~ (<<y, x>> \in R) BY <1>1, WFMin
<1>4. ASSUME NEW y \in S PROVE x <= y
  <2>1. x \in Nat /\ y \in Nat OBVIOUS
  <2>2. ~ (<<y, x>> \in R) BY <1>3
  <2>3. ~ (y < x) BY <1>2, <2>1, <2>2
  <2> QED BY <2>1, <2>3
<1> QED BY <1>4

\* ... and, if it is bounded, a greatest one.
LEMMA GreatestOf ==
    ASSUME NEW S, S \subseteq Nat, S # {}, NEW n \in Nat, \A x \in S : x <= n
    PROVE  Max(S) \in S /\ \A y \in S : y <= Max(S)
<1> DEFINE T == {m \in Nat : \A x \in S : x <= m}
<1>1. T \subseteq Nat /\ n \in T OBVIOUS
<1>2. PICK m \in T : \A k \in T : m <= k BY <1>1, LeastOf
<1>3. m \in Nat /\ \A x \in S : x <= m OBVIOUS
<1>4. m \in S
  <2> SUFFICES ASSUME m \notin S PROVE FALSE OBVIOUS
  <2>1. PICK x \in S : TRUE OBVIOUS
  <2>2. x \in Nat /\ x <= m /\ x # m BY <1>3
  <2>3. m - 1 \in Nat BY <1>3, <2>2
  <2>4. ASSUME NEW y \in S PROVE y <= m - 1
    <3>1. y \in Nat /\ y <= m /\ y # m BY <1>3
    <3> QED BY <1>3, <3>1
  <2>5. m - 1 \in T BY <2>3, <2>4
  <2>6. m <= m - 1 BY <1>2, <2>5
  <2> QED BY <1>3, <2>6
<1>5. \E x \in S : \A y \in S : x >= y
  <2>1. \A y \in S : m >= y
    <3> SUFFICES ASSUME NEW y \in S PROVE m >= y OBVIOUS
    <3>1. y \in Nat /\ y <= m BY <1>3
    <3> QED BY <1>3, <3>1
  <2> QED BY <1>4, <2>1
<1>6. Max(S) \in S /\ \A y \in S : Max(S) >= y BY <1>5 DEF Max
<1> QED
  <2> SUFFICES ASSUME NEW y \in S PROVE y <= Max(S) BY <1>6
  <2>1. y \in Nat /\ Max(S) \in Nat /\ Max(S) >= y BY <1>6
  <2> QED BY <2>1

\* The greatest one is the only one.
LEMMA GreatestIs ==
    ASSUME NEW S, S \subseteq Nat, NEW m \in S, \A x \in S : x <= m
    PROVE  Max(S) = m
<1>1. m \in Nat OBVIOUS
<1>2. Max(S) \in S /\ m <= Max(S) BY <1>1, GreatestOf
<1>3. Max(S) \in Nat /\ Max(S) <= m BY <1>2
<1> QED BY <1>1, <1>2, <1>3

\* The steps of one kind in a row's journal.
Steps(r, op) == {k \in DOMAIN r.journal : r.journal[k].fn = op}

\* The step whose effect is there and whose checkpoint is not.
Pending(w, op) ==
    {k \in {exec[w].fid + 1} : exec[w].wrote /\ Head(exec[w].rest).op = op}

\* What a row has to show is what these steps have set and appended.
Shows(r, events, streams) ==
    /\ r.history = events
    /\ r.event = Max(r.history \cup {0})
    /\ Range(r.stream) = streams
    /\ \E n \in Nat : DOMAIN r.stream \subseteq 1 .. n
    /\ \A m, n \in DOMAIN r.stream : m < n => r.stream[m] < r.stream[n]

Effects(w) ==
    ~wf[w].torn => Shows(wf[w], Steps(wf[w], "event") \cup Pending(w, "event"),
                                Steps(wf[w], "stream") \cup Pending(w, "stream"))

\* An execution is that of an active workflow, not ahead of its journal, and
\* takes an effect only at its end.
Executing(w) ==
    /\ exec[w].on => wf[w].status = "ACTIVE" /\ exec[w].fid <= Len(wf[w].journal)
    /\ exec[w].wrote =>
          /\ exec[w].on /\ exec[w].rest # <<>> /\ ~Recorded(w)
          /\ Head(exec[w].rest).op \in {"event", "stream"}

\* A fork that is not of a running workflow has copies of tables that stay.
ForkShows ==
    fork # Nil =>
       /\ fork.row.torn \in BOOLEAN
       /\ ~fork.row.torn =>
             /\ wf[fork.from].status \in {"ERROR", "SUCCESS"}
             /\ fork.next # "journal" =>
                   fork.row.journal = CopyJournal(fork.from, fork.row.start)
             /\ fork.next \notin {"journal", "history"} =>
                   fork.row.history = CopyHistory(fork.from, fork.row.start)
             /\ fork.next \in {"stream", "commit"} =>
                   fork.row.event = CopyEvent(fork.from, fork.row.start)
             /\ fork.next = "commit" =>
                   fork.row.stream = CopyStream(fork.from, fork.row.start)

EInv ==
    /\ \A w \in Workflow : wf[w].torn \in BOOLEAN /\ Executing(w) /\ Effects(w)
    /\ ForkShows

\* Steps are numbered from 1.
LEMMA StepsAre ==
    ASSUME NEW r, RowOK(r), NEW op
    PROVE  /\ Len(r.journal) \in Nat /\ DOMAIN r.journal = 1 .. Len(r.journal)
           /\ \A k \in Steps(r, op) : k \in Nat /\ 1 <= k /\ k <= Len(r.journal)
<1>1. Len(r.journal) \in Nat /\ DOMAIN r.journal = 1 .. Len(r.journal) BY DEF RowOK
<1> QED BY <1>1 DEF Steps

\* set_event: a later step than all before.
LEMMA EventShown ==
    ASSUME NEW r, NEW q, NEW E, NEW S, Shows(r, E, S), NEW k \in Nat, k > 0,
           E \subseteq Nat, \A x \in E : x < k,
           q.history = r.history \cup {k}, q.event = k, q.stream = r.stream
    PROVE  Shows(q, E \cup {k}, S)
<1>1. q.history = E \cup {k} BY DEF Shows
<1>2. E \cup {k} \cup {0} \subseteq Nat /\ k \in E \cup {k} \cup {0} OBVIOUS
<1>3. \A x \in E \cup {k} \cup {0} : x <= k OBVIOUS
<1>4. Max(E \cup {k} \cup {0}) = k BY <1>2, <1>3, GreatestIs
<1> QED BY <1>1, <1>4 DEF Shows

\* write_stream: a later step, at a later offset.
LEMMA StreamShown ==
    ASSUME NEW r, NEW q, NEW E, NEW S, Shows(r, E, S), NEW k \in Nat,
           S \subseteq Nat, \A x \in S : x < k,
           q.history = r.history, q.event = r.event, q.stream = Appended(r.stream, k)
    PROVE  Shows(q, E, S \cup {k})
<1> DEFINE s == r.stream
           D == DOMAIN s \cup {0}
           m == Max(D) + 1
<1>1. PICK n \in Nat : DOMAIN s \subseteq 1 .. n BY DEF Shows
<1>2. D \subseteq Nat /\ \A x \in D : x <= n BY <1>1
<1>3. Max(D) \in D /\ \A x \in D : x <= Max(D) BY <1>2, GreatestOf
<1>4. Max(D) \in Nat /\ Max(D) <= n BY <1>2, <1>3
<1>5. q.stream = [x \in DOMAIN s \cup {m} |-> IF x \in DOMAIN s THEN s[x] ELSE k]
  BY DEF Appended
<1>6. m \in Nat /\ m > 0 /\ m <= n + 1 /\ \A x \in DOMAIN s : x \in Nat /\ x < m
  BY <1>2, <1>3, <1>4
<1> HIDE DEF m, D
<1>7. DOMAIN q.stream = DOMAIN s \cup {m} /\ q.stream[m] = k
      /\ \A x \in DOMAIN s : q.stream[x] = s[x]
  BY <1>5, <1>6
<1>8. Range(s) = S /\ \A x \in DOMAIN s : s[x] \in S BY DEF Shows, Range
<1>9. Range(q.stream) = S \cup {k} BY <1>7, <1>8 DEF Range
<1>10. n + 1 \in Nat /\ DOMAIN q.stream \subseteq 1 .. n + 1 BY <1>1, <1>6, <1>7
<1>11. ASSUME NEW x \in DOMAIN q.stream, NEW y \in DOMAIN q.stream, x < y
       PROVE  q.stream[x] < q.stream[y]
  <2>1. CASE x \in DOMAIN s /\ y \in DOMAIN s BY <1>7, <1>11, <2>1 DEF Shows
  <2>2. CASE x \in DOMAIN s /\ y = m BY <1>7, <1>8, <2>2
  <2>3. CASE x = m
    <3>1. y \in DOMAIN s \/ y = m BY <1>7
    <3>2. m < y BY <1>11, <2>3
    <3> QED BY <1>6, <3>1, <3>2
  <2> QED BY <1>7, <2>1, <2>2, <2>3
<1> HIDE DEF s
<1> QED BY <1>9, <1>10, <1>11 DEF Shows

\* A step of one workflow that has not ended.
LEMMA EffectsLocal ==
    ASSUME IInv, EInv, NEW w \in Workflow, Local(w),
           wf[w].status \notin {"ERROR", "SUCCESS"},
           wf'[w].torn \in BOOLEAN, Executing(w)', Effects(w)'
    PROVE  EInv'
<1>1. ASSUME NEW u \in Workflow, u # w
      PROVE  wf'[u].torn \in BOOLEAN /\ Executing(u)' /\ Effects(u)'
  <2>1. wf'[u] = wf[u] /\ exec'[u] = exec[u] BY <1>1 DEF Local
  <2>2. wf[u].torn \in BOOLEAN /\ Executing(u) /\ Effects(u) BY DEF EInv
  <2>3. Executing(u)' BY <2>1, <2>2 DEF Executing, Recorded
  <2>4. Effects(u)' BY <2>1, <2>2 DEF Effects, Pending
  <2> QED BY <2>1, <2>2, <2>3, <2>4
<1>2. ForkShows'
  <2> SUFFICES ASSUME fork # Nil PROVE ForkShows' BY DEF ForkShows, Local
  <2>1. fork' = fork /\ fork.row.torn \in BOOLEAN BY DEF Local, EInv, ForkShows
  <2>2. CASE fork.row.torn BY <2>1, <2>2 DEF ForkShows
  <2>3. CASE ~fork.row.torn
    <3>1. wf[fork.from].status \in {"ERROR", "SUCCESS"} BY <2>3 DEF EInv, ForkShows
    <3>2. fork.from \in Workflow BY DEF IInv, TypeInv, ForkOK
    <3>3. wf'[fork.from] = wf[fork.from] BY <3>1, <3>2 DEF Local
    <3> QED BY <2>1, <3>3 DEF EInv, ForkShows, CopyJournal, CopyHistory, CopyEvent, CopyStream
  <2> QED BY <2>1, <2>2, <2>3
<1> QED BY <1>1, <1>2 DEF EInv

\* The same is shown, by the same steps.
LEMMA EffectsKept ==
    ASSUME EInv, NEW w \in Workflow, SameShown(wf'[w], wf[w]), wf[w].torn => wf'[w].torn,
           ~wf'[w].torn => \A op \in {"event", "stream"} :
               Steps(wf'[w], op) \cup Pending(w, op)' = Steps(wf[w], op) \cup Pending(w, op)
    PROVE  Effects(w)'
<1> SUFFICES ASSUME ~wf'[w].torn
             PROVE  Shows(wf'[w], Steps(wf'[w], "event") \cup Pending(w, "event")',
                                  Steps(wf'[w], "stream") \cup Pending(w, "stream")')
  BY DEF Effects
<1>1. Shows(wf[w], Steps(wf[w], "event") \cup Pending(w, "event"),
                   Steps(wf[w], "stream") \cup Pending(w, "stream"))
  BY DEF EInv, Effects
<1>2. /\ Steps(wf'[w], "event") \cup Pending(w, "event")'
           = Steps(wf[w], "event") \cup Pending(w, "event")
      /\ Steps(wf'[w], "stream") \cup Pending(w, "stream")'
           = Steps(wf[w], "stream") \cup Pending(w, "stream")
  OBVIOUS
<1> QED BY <1>1, <1>2 DEF Shows, SameShown

\* Nothing pending before, nothing after, and the same journal.
LEMMA EffectsRest ==
    ASSUME EInv, NEW w \in Workflow, SameShown(wf'[w], wf[w]), wf'[w].torn = wf[w].torn,
           wf'[w].journal = wf[w].journal, ~exec[w].wrote, ~exec'[w].wrote
    PROVE  Effects(w)'
<1>1. \A op \in {"event", "stream"} :
         Steps(wf'[w], op) \cup Pending(w, op)' = Steps(wf[w], op) \cup Pending(w, op)
  BY DEF Steps, Pending
<1> QED BY <1>1, EffectsKept

LEMMA StartShows == ASSUME IInv, EInv, NEW w \in Workflow, Start(w) PROVE EInv'
<1>1. /\ Local(w) /\ Begun(w) /\ wf[w].status = "ABSENT" /\ wf'[w].status = "ACTIVE"
      /\ wf'[w].journal = wf[w].journal /\ wf'[w].torn = wf[w].torn
      /\ SameShown(wf'[w], wf[w])
  BY StartDoes
<1>2. Executing(w) /\ wf[w].torn \in BOOLEAN /\ RowOK(wf[w]) BY DEF EInv, IInv, TypeInv
<1>3. ~exec[w].wrote BY <1>1, <1>2 DEF Executing
<1>4. Executing(w)' BY <1>1, <1>2, StepsAre DEF Executing, Begun
<1>5. Effects(w)' BY <1>1, <1>3, EffectsRest DEF Begun
<1> QED BY <1>1, <1>2, <1>4, <1>5, EffectsLocal

LEMMA ResumeShows == ASSUME IInv, EInv, NEW w \in Workflow, Resume(w) PROVE EInv'
<1>1. Local(w) /\ Begun(w) /\ wf[w].status = "ACTIVE" /\ ~exec[w].on /\ wf' = wf
  BY ResumeDoes
<1>2. Executing(w) /\ wf[w].torn \in BOOLEAN /\ RowOK(wf[w]) BY DEF EInv, IInv, TypeInv
<1>3. ~exec[w].wrote BY <1>1, <1>2 DEF Executing
<1>4. Executing(w)' BY <1>1, <1>2, StepsAre DEF Executing, Begun
<1>5. SameShown(wf'[w], wf[w]) BY <1>1 DEF SameShown
<1>6. Effects(w)' BY <1>1, <1>3, <1>5, EffectsRest DEF Begun
<1> QED BY <1>1, <1>2, <1>4, <1>6, EffectsLocal

\* An execution that goes over what is recorded, or over no step at all.
LEMMA MovesShows ==
    ASSUME IInv, EInv, NEW w \in Workflow, exec[w].on, NEW rest, NEW steps \in {0, 1},
           steps = 1 => Recorded(w), ~exec[w].wrote,
           Advance(w, rest, steps), UNCHANGED <<backend, deployed, wf, fork>>
    PROVE  EInv'
<1>1. /\ exec'[w].on /\ exec'[w].fid = exec[w].fid + steps /\ ~exec'[w].wrote
      /\ Local(w)
  BY AdvanceDoes DEF Local
<1>2. /\ Executing(w) /\ wf[w].torn \in BOOLEAN /\ RowOK(wf[w]) /\ wf[w].status = "ACTIVE"
      /\ exec[w].fid \in Nat
  BY AtFacts DEF EInv, IInv, TypeInv, Executing
<1>3. exec'[w].fid <= Len(wf[w].journal) BY <1>1, <1>2, StepsAre DEF Executing, Recorded
<1>4. Executing(w)' BY <1>1, <1>2, <1>3 DEF Executing
<1>5. SameShown(wf'[w], wf[w]) BY DEF SameShown
<1>6. Effects(w)' BY <1>1, <1>5, EffectsRest
<1> QED BY <1>1, <1>2, <1>4, <1>6, EffectsLocal

LEMMA ReplayShows == ASSUME IInv, EInv, NEW w \in Workflow, Replay(w) PROVE EInv'
<1>1. /\ exec[w].on /\ Recorded(w) /\ Advance(w, Tail(exec[w].rest), 1)
      /\ UNCHANGED <<backend, deployed, wf, fork>>
  BY DEF Replay, At, Skip
<1>2. ~exec[w].wrote BY <1>1 DEF EInv, Executing
<1> QED BY <1>1, <1>2, MovesShows

\* An execution that is over, with nothing pending.
LEMMA EndsShows ==
    ASSUME IInv, EInv, NEW w \in Workflow, NEW x, exec[w].on, ~exec[w].wrote,
           wf' = [wf EXCEPT ![w].status = x],
           exec' = [exec EXCEPT ![w] = NoExec], UNCHANGED <<backend, deployed, fork>>
    PROVE  EInv'
<1>1. /\ Local(w) /\ wf'[w].journal = wf[w].journal /\ SameShown(wf'[w], wf[w])
      /\ wf'[w].torn = wf[w].torn /\ ~exec'[w].on /\ ~exec'[w].wrote
  BY EndsDoes
<1>2. wf[w].torn \in BOOLEAN /\ wf[w].status = "ACTIVE" BY DEF EInv, Executing
<1>3. Executing(w)' BY <1>1 DEF Executing
<1>4. Effects(w)' BY <1>1, EffectsRest
<1> QED BY <1>1, <1>2, <1>3, <1>4, EffectsLocal

LEMMA MismatchShows == ASSUME IInv, EInv, NEW w \in Workflow, Mismatch(w) PROVE EInv'
<1>1. exec[w].on /\ Recorded(w) BY DEF Mismatch, At
<1>2. ~exec[w].wrote BY <1>1 DEF EInv, Executing
<1> QED BY <1>1, <1>2, EndsShows DEF Mismatch

LEMMA FinishShows == ASSUME IInv, EInv, NEW w \in Workflow, Finish(w) PROVE EInv'
<1>1. exec[w].on /\ exec[w].rest = <<>> BY DEF Finish
<1>2. ~exec[w].wrote BY <1>1 DEF EInv, Executing
<1> QED BY <1>1, <1>2, EndsShows DEF Finish

\* An effect whose checkpoint is lost leaves the workflow torn.
LEMMA CrashShows == ASSUME IInv, EInv, NEW w \in Workflow, Crash(w) PROVE EInv'
<1>1. /\ Local(w) /\ wf'[w].journal = wf[w].journal /\ SameShown(wf'[w], wf[w])
      /\ wf'[w].torn = (wf[w].torn \/ exec[w].wrote)
      /\ exec[w].on /\ ~exec'[w].on /\ ~exec'[w].wrote
  BY CrashDoes
<1>2. wf'[w].torn \in BOOLEAN /\ wf[w].status = "ACTIVE" BY <1>1 DEF EInv, Executing
<1>3. Executing(w)' BY <1>1 DEF Executing
<1>4. ASSUME ~wf'[w].torn, NEW op \in {"event", "stream"}
      PROVE  Steps(wf'[w], op) \cup Pending(w, op)' = Steps(wf[w], op) \cup Pending(w, op)
  BY <1>1, <1>4 DEF Steps, Pending
<1>5. wf[w].torn => wf'[w].torn BY <1>1
<1>6. Effects(w)' BY <1>1, <1>4, <1>5, EffectsKept
<1> QED BY <1>1, <1>2, <1>3, <1>6, EffectsLocal

\* At the end of the journal.
LEMMA AtEnd ==
    ASSUME IInv, EInv, NEW w \in Workflow, exec[w].on, ~Recorded(w)
    PROVE  /\ exec[w].fid = Len(wf[w].journal) /\ exec[w].fid \in Nat /\ RowOK(wf[w])
           /\ wf[w].journal \in Seq(Noted) /\ wf[w].torn \in BOOLEAN
           /\ wf[w].status = "ACTIVE"
<1>1. exec[w].fid \in Nat /\ RowOK(wf[w]) /\ wf[w].journal \in Seq(Noted) BY AtFacts
<1>2. Executing(w) BY DEF EInv
<1> QED BY <1>1, <1>2, StepsAre DEF Executing, Recorded, EInv

\* set_event and write_stream take effect.
LEMMA TakeEffectShows == ASSUME IInv, EInv, NEW w \in Workflow, TakeEffect(w) PROVE EInv'
<1> DEFINE k == exec[w].fid + 1
           E == Steps(wf[w], "event")
           S == Steps(wf[w], "stream")
<1>1. /\ exec[w].on /\ exec[w].rest # <<>> /\ Head(exec[w].rest).op \in {"event", "stream"}
      /\ ~Recorded(w) /\ ~exec[w].wrote
  BY DEF TakeEffect, At
<1>2. /\ exec[w].fid = Len(wf[w].journal) /\ exec[w].fid \in Nat /\ RowOK(wf[w])
      /\ wf[w].torn \in BOOLEAN /\ wf[w].status = "ACTIVE"
  BY <1>1, AtEnd
<1>3. /\ Local(w) /\ wf'[w].status = wf[w].status /\ wf'[w].journal = wf[w].journal
      /\ wf'[w].torn = wf[w].torn
      /\ exec'[w].on /\ exec'[w].rest = exec[w].rest /\ exec'[w].fid = exec[w].fid
      /\ exec'[w].wrote
  BY TakeEffectDoes
<1>4. Executing(w)' BY <1>1, <1>2, <1>3 DEF Executing, Recorded
<1>5. k \in Nat /\ k > 0 BY <1>2
<1>6. E \subseteq Nat /\ S \subseteq Nat /\ (\A x \in E : x < k) /\ (\A x \in S : x < k)
  <2>1. Len(wf[w].journal) \in Nat BY <1>2, StepsAre
  <2>2. ASSUME NEW x \in E \cup S PROVE x \in Nat /\ x < k
    <3>1. x \in Nat /\ x <= Len(wf[w].journal) BY <1>2, StepsAre
    <3> QED BY <1>2, <2>1, <3>1
  <2> QED BY <2>2
<1>7. ASSUME NEW op
      PROVE  /\ Steps(wf'[w], op) = Steps(wf[w], op) /\ Pending(w, op) = {}
             /\ Pending(w, op)' = IF Head(exec[w].rest).op = op THEN {k} ELSE {}
  BY <1>1, <1>3 DEF Steps, Pending
<1>8. ASSUME ~wf'[w].torn
      PROVE  Shows(wf'[w], Steps(wf'[w], "event") \cup Pending(w, "event")',
                           Steps(wf'[w], "stream") \cup Pending(w, "stream")')
  <2>1. Shows(wf[w], E, S)
    <3>1. Shows(wf[w], E \cup Pending(w, "event"), S \cup Pending(w, "stream"))
      BY <1>3, <1>8 DEF EInv, Effects
    <3>2. E \cup Pending(w, "event") = E /\ S \cup Pending(w, "stream") = S BY <1>7
    <3> QED BY <3>1, <3>2
  <2>2. CASE Head(exec[w].rest).op = "stream"
    <3>1. /\ wf'[w].stream = Appended(wf[w].stream, k)
          /\ wf'[w].event = wf[w].event /\ wf'[w].history = wf[w].history
      BY <2>2, TakeEffectDoes
    <3> HIDE DEF k, E, S
    <3>2. Shows(wf'[w], E, S \cup {k}) BY <1>5, <1>6, <2>1, <3>1, StreamShown
    <3>3. Steps(wf'[w], "event") \cup Pending(w, "event")' = E BY <1>7, <2>2 DEF E
    <3>4. Steps(wf'[w], "stream") \cup Pending(w, "stream")' = S \cup {k}
      BY <1>7, <2>2 DEF S
    <3> QED BY <3>2, <3>3, <3>4
  <2>3. CASE Head(exec[w].rest).op = "event"
    <3>1. /\ wf'[w].stream = wf[w].stream /\ wf'[w].event = k
          /\ wf'[w].history = wf[w].history \cup {k}
      BY <2>3, TakeEffectDoes
    <3> HIDE DEF k, E, S
    <3>2. Shows(wf'[w], E \cup {k}, S) BY <1>5, <1>6, <2>1, <3>1, EventShown
    <3>3. Steps(wf'[w], "event") \cup Pending(w, "event")' = E \cup {k}
      BY <1>7, <2>3 DEF E
    <3>4. Steps(wf'[w], "stream") \cup Pending(w, "stream")' = S BY <1>7, <2>3 DEF S
    <3> QED BY <3>2, <3>3, <3>4
  <2> QED BY <1>1, <2>2, <2>3
<1>9. Effects(w)' BY <1>8 DEF Effects
<1> QED BY <1>2, <1>3, <1>4, <1>9, EffectsLocal

\* A step is recorded: its effect, if it has one, is pending no more.
LEMMA RecordsShows ==
    ASSUME IInv, EInv, NEW w \in Workflow, exec[w].on, ~Recorded(w), NEW rest,
           Advance(w, rest, 1), UNCHANGED <<backend, deployed, fork>>,
           NEW n \in Noted, wf' = [wf EXCEPT ![w].journal = Append(wf[w].journal, n)],
           exec[w].wrote <=> n.fn \in {"event", "stream"},
           exec[w].wrote => n.fn = Head(exec[w].rest).op
    PROVE  EInv'
<1>1. /\ exec[w].fid = Len(wf[w].journal) /\ exec[w].fid \in Nat /\ RowOK(wf[w])
      /\ wf[w].journal \in Seq(Noted) /\ wf[w].torn \in BOOLEAN
      /\ wf[w].status = "ACTIVE"
  BY AtEnd
<1>2. /\ Local(w) /\ wf'[w].status = wf[w].status
      /\ wf'[w].journal = Append(wf[w].journal, n)
      /\ SameShown(wf'[w], wf[w]) /\ wf'[w].torn = wf[w].torn
      /\ exec'[w].on /\ exec'[w].fid = exec[w].fid + 1 /\ ~exec'[w].wrote
  BY RecordsDoes, AdvanceDoes
<1>3. PICK j \in Seq(Noted) : j = wf[w].journal BY <1>1
<1>4. PICK i \in Seq(Noted) : i = Append(j, n) BY AppendProperties
<1>5. /\ Len(i) = Len(j) + 1 /\ i[Len(j) + 1] = n /\ \A k \in 1 .. Len(j) : i[k] = j[k]
      /\ DOMAIN i = 1 .. Len(j) + 1 /\ DOMAIN j = 1 .. Len(j) /\ Len(j) \in Nat
  <2> HIDE DEF Noted
  <2> QED BY <1>4, AppendProperties
<1>6. wf'[w].journal = i BY <1>2, <1>3, <1>4
<1>7. Executing(w)' BY <1>1, <1>2, <1>3, <1>5, <1>6 DEF Executing
<1>8. ASSUME NEW op \in {"event", "stream"}
      PROVE  Steps(wf'[w], op) \cup Pending(w, op)' = Steps(wf[w], op) \cup Pending(w, op)
  <2>1. Pending(w, op)' = {} BY <1>2 DEF Pending
  <2>2. Pending(w, op) = IF n.fn = op THEN {Len(j) + 1} ELSE {} BY <1>1, <1>3 DEF Pending
  <2>3. Steps(wf[w], op) = {k \in 1 .. Len(j) : j[k].fn = op} BY <1>3, <1>5 DEF Steps
  <2>4. Steps(wf'[w], op) = {k \in 1 .. Len(j) + 1 : i[k].fn = op}
    BY <1>5, <1>6 DEF Steps
  <2>5. 1 .. Len(j) + 1 = (1 .. Len(j)) \cup {Len(j) + 1} BY <1>5
  <2>6. {k \in 1 .. Len(j) + 1 : i[k].fn = op}
           = {k \in 1 .. Len(j) : j[k].fn = op}
                \cup (IF n.fn = op THEN {Len(j) + 1} ELSE {})
    BY <1>5, <2>5
  <2> QED BY <2>1, <2>2, <2>3, <2>4, <2>6
<1>9. Effects(w)' BY <1>2, <1>8, EffectsKept
<1> QED BY <1>1, <1>2, <1>7, <1>9, EffectsLocal

LEMMA CheckpointShows == ASSUME IInv, EInv, NEW w \in Workflow, Checkpoint(w) PROVE EInv'
<1> DEFINE o == Head(exec[w].rest)
           n == Note(w, o.op, o.branch)
<1>1. /\ exec[w].on /\ exec[w].rest # <<>> /\ o.op \in {"step", "event", "stream"}
      /\ ~Recorded(w) /\ (o.op # "step" => exec[w].wrote)
      /\ UNCHANGED <<backend, deployed, fork>>
      /\ Advance(w, Tail(exec[w].rest), 1)
      /\ wf' = [wf EXCEPT ![w].journal = Append(wf[w].journal, n)]
  BY DEF Checkpoint, At, Skip
<1>2. o \in AnyPlain BY <1>1, AtFacts
<1>3. n \in Noted /\ n.fn = o.op BY <1>2 DEF AnyPlain, Plain, Noted, Note
<1>4. exec[w].wrote => o.op \in {"event", "stream"} BY DEF EInv, Executing
<1> HIDE DEF n
<1> QED BY <1>1, <1>3, <1>4, RecordsShows

LEMMA PatchShows == ASSUME IInv, EInv, NEW w \in Workflow, Patch(w) PROVE EInv'
<1>1. /\ exec[w].on /\ exec[w].rest # <<>> /\ Head(exec[w].rest).op = "patch"
      /\ UNCHANGED <<backend, deployed, fork>>
  BY DEF Patch, At
<1>2. ~exec[w].wrote BY <1>1 DEF EInv, Executing
<1> DEFINE p == IF Recorded(w) THEN PatchOver(Entry(w)) ELSE [new |-> TRUE, steps |-> 1]
           rest == (IF p.new THEN New ELSE Old) \o Tail(exec[w].rest)
<1>3. Advance(w, rest, p.steps) BY DEF Patch
<1>4. CASE Recorded(w)
  <2>1. UNCHANGED wf BY <1>4 DEF Patch
  <2>2. p.steps \in {0, 1}
    <3>1. p = PatchOver(Entry(w)) BY <1>4
    <3>2. PatchOver(Entry(w)).steps \in {0, 1} BY DEF PatchOver
    <3> QED BY <3>1, <3>2
  <2> HIDE DEF rest, p
  <2> QED BY <1>1, <1>2, <1>3, <1>4, <2>1, <2>2, MovesShows
<1>5. CASE ~Recorded(w)
  <2> DEFINE n == Note(w, "patch", "new")
  <2>1. wf' = [wf EXCEPT ![w].journal = Append(wf[w].journal, n)] BY <1>5 DEF Patch
  <2>2. n \in Noted /\ n.fn = "patch" BY DEF Note, Noted
  <2>3. p.steps = 1 BY <1>5
  <2> HIDE DEF rest, p, n
  <2>4. Advance(w, rest, 1) BY <1>3, <2>3
  <2> QED BY <1>1, <1>2, <1>5, <2>1, <2>2, <2>4, RecordsShows
<1> QED BY <1>4, <1>5

LEMMA DeprecatePatchShows ==
    ASSUME IInv, EInv, NEW w \in Workflow, DeprecatePatch(w) PROVE EInv'
<1> DEFINE steps == IF Recorded(w) /\ Entry(w).fn = "patch" THEN 1 ELSE 0
<1>1. /\ exec[w].on /\ exec[w].rest # <<>> /\ Head(exec[w].rest).op = "deprecate"
      /\ UNCHANGED <<backend, deployed, wf, fork>>
      /\ Advance(w, Tail(exec[w].rest), steps)
  BY DEF DeprecatePatch, At
<1>2. ~exec[w].wrote BY <1>1 DEF EInv, Executing
<1>3. steps \in {0, 1} /\ (steps = 1 => Recorded(w)) OBVIOUS
<1> HIDE DEF steps
<1> QED BY <1>1, <1>2, <1>3, MovesShows

\* What fork_workflow copies agrees with the steps that it copies.
LEMMA CopyShows ==
    ASSUME TypeInv, NEW o \in Workflow, NEW s \in Nat,
           Shows(wf[o], Steps(wf[o], "event"), Steps(wf[o], "stream")),
           NEW q, q.journal = CopyJournal(o, s), q.history = CopyHistory(o, s),
           q.event = CopyEvent(o, s), q.stream = CopyStream(o, s)
    PROVE  Shows(q, Steps(q, "event"), Steps(q, "stream"))
<1> DEFINE j == wf[o].journal
           t == wf[o].stream
           D == {n \in DOMAIN t : t[n] < s}
<1>1. \A op : Steps(q, op) = {k \in Steps(wf[o], op) : k < s}
  <2>1. /\ \A k \in DOMAIN q.journal : k < s /\ k \in DOMAIN j /\ q.journal[k] = j[k]
        /\ \A k \in DOMAIN j : k < s => k \in DOMAIN q.journal
    BY JournalCopied
  <2> QED BY <2>1 DEF Steps
<1>2. q.history = Steps(q, "event")
  <2>1. q.history = {k \in wf[o].history : k < s} BY DEF CopyHistory, Below
  <2> QED BY <1>1, <2>1 DEF Shows
<1>3. q.event = Max(q.history \cup {0}) BY DEF CopyEvent
<1>4. q.stream = [n \in D |-> t[n]] BY DEF CopyStream, Restrict, Below
<1>5. DOMAIN q.stream = D /\ \A n \in D : q.stream[n] = t[n] BY <1>4
<1>6. Range(q.stream) = Steps(q, "stream")
  <2>1. Range(t) = Steps(wf[o], "stream") BY DEF Shows
  <2>2. Range(q.stream) = {k \in Range(t) : k < s} BY <1>5 DEF Range
  <2> QED BY <1>1, <2>1, <2>2
<1>7. \E n \in Nat : DOMAIN q.stream \subseteq 1 .. n
  <2>1. PICK n \in Nat : DOMAIN t \subseteq 1 .. n BY DEF Shows
  <2> QED BY <1>5, <2>1
<1>8. \A m, n \in DOMAIN q.stream : m < n => q.stream[m] < q.stream[n]
  <2>1. \A m, n \in DOMAIN t : m < n => t[m] < t[n] BY DEF Shows
  <2> QED BY <1>5, <2>1
<1> QED BY <1>2, <1>3, <1>6, <1>7, <1>8 DEF Shows

\* A workflow that is over has nothing pending.
LEMMA OverShows ==
    ASSUME EInv, NEW o \in Workflow, ~wf[o].torn, wf[o].status # "ACTIVE"
    PROVE  Shows(wf[o], Steps(wf[o], "event"), Steps(wf[o], "stream"))
<1>1. ~exec[o].wrote BY DEF EInv, Executing
<1>2. /\ Steps(wf[o], "event") \cup Pending(o, "event") = Steps(wf[o], "event")
      /\ Steps(wf[o], "stream") \cup Pending(o, "stream") = Steps(wf[o], "stream")
  BY <1>1 DEF Pending
<1>3. Shows(wf[o], Steps(wf[o], "event") \cup Pending(o, "event"),
                   Steps(wf[o], "stream") \cup Pending(o, "stream"))
  BY DEF EInv, Effects
<1> QED BY <1>2, <1>3

\* A row that fork_workflow inserts.
LEMMA CommitShows ==
    ASSUME IInv, EInv, NEW f \in Workflow, wf[f].status = "ABSENT", NEW q,
           wf' = [wf EXCEPT ![f] = q], exec' = exec, fork' = Nil, q.torn \in BOOLEAN,
           ~q.torn => Shows(q, Steps(q, "event"), Steps(q, "stream"))
    PROVE  EInv'
<1>1. wf'[f] = q /\ \A u \in Workflow : u # f => wf'[u] = wf[u] BY DEF IInv, TypeInv
<1>2. ASSUME NEW u \in Workflow, u # f
      PROVE  wf'[u].torn \in BOOLEAN /\ Executing(u)' /\ Effects(u)'
  <2>1. wf'[u] = wf[u] /\ exec'[u] = exec[u] BY <1>1, <1>2
  <2>2. wf[u].torn \in BOOLEAN /\ Executing(u) /\ Effects(u) BY DEF EInv
  <2>3. Executing(u)' BY <2>1, <2>2 DEF Executing, Recorded
  <2>4. Effects(u)' BY <2>1, <2>2 DEF Effects, Pending
  <2> QED BY <2>1, <2>2, <2>3, <2>4
<1>3. ~exec[f].on /\ ~exec[f].wrote BY DEF EInv, Executing
<1>4. Executing(f)' BY <1>3 DEF Executing
<1>5. Effects(f)'
  <2>1. Pending(f, "event")' = {} /\ Pending(f, "stream")' = {} BY <1>3 DEF Pending
  <2> QED BY <1>1, <2>1 DEF Effects
<1>6. ForkShows' BY DEF ForkShows
<1> QED BY <1>1, <1>2, <1>4, <1>5, <1>6 DEF EInv

\* The marks of the row of a fork.
LEMMA ForkRowDoes ==
    ASSUME NEW o, NEW s
    PROVE  /\ ForkRow(o, s).torn = (wf[o].torn \/ wf[o].status = "ACTIVE")
           /\ ForkRow(o, s).begun = wf[o].begun /\ ForkRow(o, s).start = s
           /\ ForkRow(o, s).from = o
           /\ DOMAIN ForkRow(o, s) = Fields
<1> DEFINE torn == wf[o].torn \/ wf[o].status = "ACTIVE"
<1>1. PICK x : x = torn OBVIOUS
<1>2. PICK b : b = wf[o].begun OBVIOUS
<1>3. PICK q : q = [NoWorkflow EXCEPT !.status = "ACTIVE", !.from = o, !.start = s,
                                      !.begun = b, !.torn = x]
  OBVIOUS
<1>4. ForkRow(o, s) = q BY <1>1, <1>2, <1>3, Zenon DEF ForkRow
<1>5. q.torn = x /\ q.begun = b /\ q.start = s /\ q.from = o BY <1>3 DEF NoWorkflow
<1>6. DOMAIN q = Fields BY <1>3 DEF NoWorkflow, Fields
<1>7. ForkRow(o, s).torn = torn BY <1>1, <1>4, <1>5
<1> QED BY <1>2, <1>4, <1>5, <1>6, <1>7

LEMMA ForkAtOnceShows ==
    ASSUME IInv, EInv, NEW o \in Workflow, NEW f \in Workflow, NEW s \in Starts,
           ForkAtOnce(o, f, s)
    PROVE  EInv'
<1>1. s \in Nat /\ TypeInv BY CodeAssumption DEF IInv
<1>2. PICK r : r = ForkRow(o, s) OBVIOUS
<1>3. PICK j : j = CopyJournal(o, s) OBVIOUS
<1>4. PICK h : h = CopyHistory(o, s) OBVIOUS
<1>5. PICK e : e = CopyEvent(o, s) OBVIOUS
<1>6. PICK t : t = CopyStream(o, s) OBVIOUS
<1>7. PICK q : q = [r EXCEPT !.journal = j, !.history = h, !.event = e, !.stream = t]
  OBVIOUS
<1>8. /\ wf' = [wf EXCEPT ![f] = q] /\ exec' = exec /\ fork' = fork /\ backend = "sqlite"
      /\ wf[o].status # "ABSENT" /\ wf[f].status = "ABSENT"
  BY <1>2, <1>3, <1>4, <1>5, <1>6, <1>7, Zenon DEF ForkAtOnce, MayFork
<1>9. fork' = Nil BY <1>8 DEF IInv, Forking
<1>10. DOMAIN r = Fields /\ r.torn = (wf[o].torn \/ wf[o].status = "ACTIVE")
  BY <1>2, ForkRowDoes
<1>11. q.journal = j /\ q.history = h /\ q.event = e /\ q.stream = t /\ q.torn = r.torn
  BY <1>7, <1>10 DEF Fields
<1>12. wf[o].torn \in BOOLEAN BY DEF EInv
<1>13. q.torn \in BOOLEAN BY <1>10, <1>11, <1>12
<1>14. ASSUME ~q.torn PROVE Shows(q, Steps(q, "event"), Steps(q, "stream"))
  <2>1. ~wf[o].torn /\ wf[o].status # "ACTIVE" BY <1>10, <1>11, <1>14
  <2>2. Shows(wf[o], Steps(wf[o], "event"), Steps(wf[o], "stream")) BY <2>1, OverShows
  <2> QED BY <1>1, <1>3, <1>4, <1>5, <1>6, <1>11, <2>2, CopyShows
<1> QED BY <1>8, <1>9, <1>13, <1>14, CommitShows

\* The rows and the executions stay, a fork goes on.
LEMMA RowsStayShow ==
    ASSUME EInv, UNCHANGED <<wf, exec>>, ForkShows' PROVE EInv'
<1> SUFFICES ASSUME NEW w \in Workflow
             PROVE  wf'[w].torn \in BOOLEAN /\ Executing(w)' /\ Effects(w)'
  BY DEF EInv
<1>1. wf[w].torn \in BOOLEAN /\ Executing(w) /\ Effects(w) BY DEF EInv
<1>2. Executing(w)' BY <1>1 DEF Executing, Recorded
<1>3. Effects(w)' BY <1>1 DEF Effects, Pending, Steps, Shows
<1> QED BY <1>1, <1>2, <1>3

LEMMA DeployShows == ASSUME IInv, EInv, Deploy PROVE EInv'
<1>1. UNCHANGED <<wf, exec, fork>> BY DEF Deploy
<1>2. ForkShows' BY <1>1 DEF EInv, ForkShows, CopyJournal, CopyHistory, CopyEvent, CopyStream
<1> QED BY <1>1, <1>2, RowsStayShow

LEMMA BeginForkShows ==
    ASSUME IInv, EInv, NEW o \in Workflow, NEW f \in Workflow, NEW s \in Starts,
           BeginFork(o, f, s)
    PROVE  EInv'
<1>1. PICK r : r = ForkRow(o, s) OBVIOUS
<1>2. PICK q : q = [r EXCEPT !.journal = <<>>] OBVIOUS
<1>3. /\ fork' = [from |-> o, to |-> f, next |-> "journal", row |-> q]
      /\ wf[o].status # "ABSENT" /\ UNCHANGED <<wf, exec>>
  BY <1>1, <1>2, Zenon DEF BeginFork, MayFork
<1>4. DOMAIN r = Fields /\ r.torn = (wf[o].torn \/ wf[o].status = "ACTIVE")
  BY <1>1, ForkRowDoes
<1>5. q.torn = r.torn BY <1>2, <1>4 DEF Fields
<1>6. wf[o].torn \in BOOLEAN /\ wf[o].status \in Status BY DEF EInv, IInv, TypeInv, RowOK
<1>7. q.torn \in BOOLEAN /\ (~q.torn => wf[o].status \in {"ERROR", "SUCCESS"})
  BY <1>3, <1>4, <1>5, <1>6 DEF Status
<1>8. fork'.from = o /\ fork'.next = "journal" /\ fork'.row = q BY <1>3
<1>9. ForkShows' BY <1>3, <1>7, <1>8 DEF ForkShows
<1> QED BY <1>3, <1>9, RowsStayShow

\* A statement of the transaction copies what the earlier ones have left.
LEMMA CopyNextShows == ASSUME IInv, EInv, CopyNext PROVE EInv'
<1>1. fork # Nil /\ fork.next # "commit" /\ UNCHANGED <<wf, exec>> BY DEF CopyNext
<1>2. PICK o, f, n, r : fork = [from |-> o, to |-> f, next |-> n, row |-> r]
  BY <1>1 DEF IInv, TypeInv, ForkOK
<1>3. /\ fork.from = o /\ fork.next = n /\ fork.row = r BY <1>2
<1>4. RowOK(r) /\ n \in Stage BY <1>1, <1>3 DEF IInv, TypeInv, ForkOK
<1>5. r.torn \in BOOLEAN BY <1>1, <1>3 DEF EInv, ForkShows
<1>6. PICK s : s = r.start OBVIOUS
<1>7. ~r.torn =>
         /\ wf[o].status \in {"ERROR", "SUCCESS"}
         /\ n # "journal" => r.journal = CopyJournal(o, s)
         /\ n \notin {"journal", "history"} => r.history = CopyHistory(o, s)
         /\ n \in {"stream", "commit"} => r.event = CopyEvent(o, s)
  BY <1>1, <1>3, <1>6 DEF EInv, ForkShows
<1>8. ASSUME NEW m, NEW q, fork' = [from |-> o, to |-> f, next |-> m, row |-> q],
             q.torn = r.torn, q.start = s,
             ~r.torn =>
               /\ m # "journal" => q.journal = CopyJournal(o, s)
               /\ m \notin {"journal", "history"} => q.history = CopyHistory(o, s)
               /\ m \in {"stream", "commit"} => q.event = CopyEvent(o, s)
               /\ m = "commit" => q.stream = CopyStream(o, s)
      PROVE  EInv'
  <2>1. fork'.from = o /\ fork'.next = m /\ fork'.row = q BY <1>8
  <2>2. ForkShows'
    BY <1>1, <1>5, <1>7, <1>8, <2>1
       DEF ForkShows, CopyJournal, CopyHistory, CopyEvent, CopyStream
  <2> QED BY <1>1, <2>2, RowsStayShow
<1>9. CASE n = "journal"
  <2>1. PICK x : x = CopyJournal(o, s) OBVIOUS
  <2>2. PICK q : q = [r EXCEPT !.journal = x] OBVIOUS
  <2>3. fork' = [from |-> o, to |-> f, next |-> "history", row |-> q]
    BY <1>2, <1>6, <1>9, <2>1, <2>2, Zenon DEF CopyNext
  <2>4. q.journal = x /\ q.torn = r.torn /\ q.start = s BY <1>4, <1>6, <2>2, AllFields
  <2> QED BY <1>8, <2>1, <2>3, <2>4
<1>10. CASE n = "history"
  <2>1. PICK x : x = CopyHistory(o, s) OBVIOUS
  <2>2. PICK q : q = [r EXCEPT !.history = x] OBVIOUS
  <2>3. fork' = [from |-> o, to |-> f, next |-> "event", row |-> q]
    BY <1>2, <1>6, <1>10, <2>1, <2>2, Zenon DEF CopyNext
  <2>4. /\ q.history = x /\ q.torn = r.torn /\ q.start = s /\ q.journal = r.journal
    BY <1>4, <1>6, <2>2, AllFields
  <2> QED BY <1>7, <1>8, <1>10, <2>1, <2>3, <2>4
<1>11. CASE n = "event"
  <2>1. PICK x : x = CopyEvent(o, s) OBVIOUS
  <2>2. PICK q : q = [r EXCEPT !.event = x] OBVIOUS
  <2>3. fork' = [from |-> o, to |-> f, next |-> "stream", row |-> q]
    BY <1>2, <1>6, <1>11, <2>1, <2>2, Zenon DEF CopyNext
  <2>4. /\ q.event = x /\ q.torn = r.torn /\ q.start = s /\ q.journal = r.journal
        /\ q.history = r.history
    BY <1>4, <1>6, <2>2, AllFields
  <2> QED BY <1>7, <1>8, <1>11, <2>1, <2>3, <2>4
<1>12. CASE n = "stream"
  <2>1. PICK x : x = CopyStream(o, s) OBVIOUS
  <2>2. PICK q : q = [r EXCEPT !.stream = x] OBVIOUS
  <2>3. fork' = [from |-> o, to |-> f, next |-> "commit", row |-> q]
    BY <1>2, <1>6, <1>12, <2>1, <2>2, Zenon DEF CopyNext
  <2>4. /\ q.stream = x /\ q.torn = r.torn /\ q.start = s /\ q.journal = r.journal
        /\ q.history = r.history /\ q.event = r.event
    BY <1>4, <1>6, <2>2, AllFields
  <2> QED BY <1>7, <1>8, <1>12, <2>1, <2>3, <2>4
<1> QED BY <1>1, <1>3, <1>4, <1>9, <1>10, <1>11, <1>12 DEF Stage

LEMMA CommitForkShows == ASSUME IInv, EInv, CommitFork PROVE EInv'
<1>1. /\ fork # Nil /\ fork.next = "commit" /\ fork' = Nil /\ exec' = exec
      /\ wf' = [wf EXCEPT ![fork.to] =
                   [fork.row EXCEPT !.torn = fork.row.torn \/ wf[fork.from].torn]]
  BY DEF CommitFork
<1>2. PICK r : r = fork.row OBVIOUS
<1>3. PICK o \in Workflow : o = fork.from BY <1>1 DEF IInv, TypeInv, ForkOK
<1>4. PICK f \in Workflow : f = fork.to BY <1>1 DEF IInv, TypeInv, ForkOK
<1>5. PICK x : x = (r.torn \/ wf[o].torn) OBVIOUS
<1>6. PICK q : q = [r EXCEPT !.torn = x] OBVIOUS
<1>7. wf' = [wf EXCEPT ![f] = q] BY <1>1, <1>2, <1>3, <1>4, <1>5, <1>6, Zenon
<1>8. RowOK(r) /\ wf[f].status = "ABSENT"
  BY <1>1, <1>2, <1>4 DEF IInv, TypeInv, ForkOK, Forking
<1>9. /\ q.torn = x /\ q.journal = r.journal /\ q.history = r.history
      /\ q.event = r.event /\ q.stream = r.stream
  BY <1>6, <1>8, AllFields
<1>10. r.torn \in BOOLEAN /\ wf[o].torn \in BOOLEAN BY <1>1, <1>2 DEF EInv, ForkShows
<1>11. q.torn \in BOOLEAN BY <1>5, <1>9, <1>10
<1>12. ASSUME ~q.torn PROVE Shows(q, Steps(q, "event"), Steps(q, "stream"))
  <2>1. ~r.torn /\ ~wf[o].torn BY <1>5, <1>9, <1>10, <1>12
  <2>2. PICK s : s = r.start OBVIOUS
  <2>3. /\ wf[o].status \in {"ERROR", "SUCCESS"}
        /\ r.journal = CopyJournal(o, s) /\ r.history = CopyHistory(o, s)
        /\ r.event = CopyEvent(o, s) /\ r.stream = CopyStream(o, s)
    BY <1>1, <1>2, <1>3, <2>1, <2>2 DEF EInv, ForkShows
  <2>4. s \in Nat BY <1>8, <2>2 DEF RowOK
  <2>5. Shows(wf[o], Steps(wf[o], "event"), Steps(wf[o], "stream"))
    BY <2>1, <2>3, OverShows
  <2>6. TypeInv BY DEF IInv
  <2> QED BY <1>9, <2>3, <2>4, <2>5, <2>6, CopyShows
<1> QED BY <1>1, <1>7, <1>8, <1>11, <1>12, CommitShows

\* Nothing is shown at first.
LEMMA InitShows == Init => EInv
<1> SUFFICES ASSUME Init PROVE EInv OBVIOUS
<1>1. /\ wf = [w \in Workflow |-> NoWorkflow] /\ exec = [w \in Workflow |-> NoExec]
      /\ fork = Nil
  BY DEF Init
<1>2. PICK r : r = NoWorkflow OBVIOUS
<1>3. /\ r.torn = FALSE /\ r.journal = <<>> /\ r.history = {} /\ r.event = 0
      /\ r.stream = <<>>
  BY <1>2 DEF NoWorkflow
<1>4. ~NoExec.on /\ ~NoExec.wrote BY Zenon DEF NoExec
<1>5. DOMAIN r.journal = {} /\ DOMAIN r.stream = {} BY <1>3
<1>6. Shows(r, {}, {})
  <2>1. Range(r.stream) = {} BY <1>5 DEF Range
  <2>2. Max({} \cup {0}) = 0
    <3>1. {0} \subseteq Nat /\ 0 \in {0} /\ \A x \in {0} : x <= 0 OBVIOUS
    <3>2. Max({0}) = 0 BY <3>1, GreatestIs
    <3>3. {} \cup {0} = {0} OBVIOUS
    <3> QED BY <3>2, <3>3
  <2>3. 0 \in Nat /\ DOMAIN r.stream \subseteq 1 .. 0 BY <1>5
  <2> QED BY <1>3, <1>5, <2>1, <2>2, <2>3 DEF Shows
<1>7. ASSUME NEW w \in Workflow
      PROVE  wf[w].torn \in BOOLEAN /\ Executing(w) /\ Effects(w)
  <2>1. wf[w] = r /\ exec[w] = NoExec BY <1>1, <1>2
  <2>2. Executing(w) BY <1>4, <2>1 DEF Executing
  <2>3. \A op : Steps(wf[w], op) \cup Pending(w, op) = {}
    BY <1>4, <1>5, <2>1 DEF Steps, Pending
  <2>4. Effects(w) BY <1>6, <2>1, <2>3 DEF Effects
  <2> QED BY <1>3, <2>1, <2>2, <2>4
<1>8. ForkShows BY <1>1 DEF ForkShows
<1> QED BY <1>7, <1>8 DEF EInv

LEMMA NextShows == IInv /\ EInv /\ [Next]_vars => EInv'
<1> SUFFICES ASSUME IInv, EInv, [Next]_vars PROVE EInv' OBVIOUS
<1>1. CASE UNCHANGED vars
  <2>1. UNCHANGED <<wf, exec, fork>> BY <1>1 DEF vars
  <2>2. ForkShows'
    BY <2>1 DEF EInv, ForkShows, CopyJournal, CopyHistory, CopyEvent, CopyStream
  <2> QED BY <2>1, <2>2, RowsStayShow
<1>2. ASSUME NEW w \in Workflow,
             \/ Start(w) \/ Resume(w) \/ Replay(w) \/ Mismatch(w) \/ TakeEffect(w)
             \/ Checkpoint(w) \/ Patch(w) \/ DeprecatePatch(w) \/ Finish(w) \/ Crash(w)
      PROVE  EInv'
  BY <1>2, StartShows, ResumeShows, ReplayShows, MismatchShows, TakeEffectShows,
     CheckpointShows, PatchShows, DeprecatePatchShows, FinishShows, CrashShows
<1>3. ASSUME NEW o \in Workflow, NEW f \in Workflow, NEW s \in Starts,
             ForkAtOnce(o, f, s) \/ BeginFork(o, f, s)
      PROVE  EInv'
  BY <1>3, ForkAtOnceShows, BeginForkShows
<1> QED BY <1>1, <1>2, <1>3, DeployShows, CopyNextShows, CommitForkShows DEF Next

\* What others see of a workflow that has succeeded, its events and its
\* streams, is what its journal says it did (set_event, write_stream,
\* fork_workflow).
THEOREM EffectsFollowTheJournal == Spec => []EffectsAreJournaled
<1>1. EInv => EffectsAreJournaled
  <2> SUFFICES ASSUME EInv, NEW w \in Workflow, wf[w].status = "SUCCESS", ~wf[w].torn
               PROVE  /\ wf[w].history = StepsOf(w, "event")
                      /\ wf[w].event = Max(wf[w].history \cup {0})
                      /\ Range(wf[w].stream) = StepsOf(w, "stream")
                      /\ \A m, n \in DOMAIN wf[w].stream :
                            m < n => wf[w].stream[m] < wf[w].stream[n]
    BY DEF EffectsAreJournaled
  <2>1. Shows(wf[w], Steps(wf[w], "event"), Steps(wf[w], "stream")) BY OverShows
  <2>2. \A op : Steps(wf[w], op) = StepsOf(w, op) BY DEF Steps, StepsOf
  <2> QED BY <2>1, <2>2 DEF Shows
<1> QED BY <1>1, InitHolds, NextHolds, InitShows, NextShows, PTL DEF Spec
-----------------------------------------------------------------------------
(* What the versions do, once they have taken a branch.                    *)

PlainOps == {"step", "event", "stream"}

\* The step after Before: the first of a branch, or the marker.
Split == Len(Before) + 1
Marker == [op |-> "patch", branch |-> "new"]

\* The journals of the old code, of patched code that takes the new branch,
\* and of the new code.
OldWay == Before \o Old \o After
MarkedWay == Before \o <<Marker>> \o New \o After
NewWay == Before \o New \o After

\* The operations of the parts.
LEMMA PartsAre ==
    /\ Len(Before) \in Nat /\ Len(Old) \in Nat /\ Len(New) \in Nat /\ Len(After) \in Nat
    /\ \A k \in 1 .. Len(Before) : Before[k].op \in PlainOps /\ Before[k].branch = "any"
    /\ \A k \in 1 .. Len(Old) : Old[k].op \in PlainOps /\ Old[k].branch = "old"
    /\ \A k \in 1 .. Len(New) : New[k].op \in PlainOps /\ New[k].branch = "new"
    /\ \A k \in 1 .. Len(After) : After[k].op \in PlainOps /\ After[k].branch = "any"
<1>1. ASSUME NEW branch, NEW s \in Seq(Plain(branch))
      PROVE  /\ Len(s) \in Nat
             /\ \A k \in 1 .. Len(s) : s[k].op \in PlainOps /\ s[k].branch = branch
  <2>1. Len(s) \in Nat /\ \A k \in 1 .. Len(s) : s[k] \in Plain(branch) OBVIOUS
  <2> QED BY <2>1 DEF Plain, PlainOps
<1> QED BY <1>1, CodeAssumption

\* A sequence of two parts.
LEMMA TwoParts ==
    ASSUME NEW S, NEW a \in Seq(S), NEW b \in Seq(S), NEW s, s = a \o b
    PROVE  /\ s \in Seq(S) /\ Len(s) = Len(a) + Len(b)
           /\ Len(a) \in Nat /\ Len(b) \in Nat /\ Len(s) \in Nat
           /\ \A k \in 1 .. Len(a) : s[k] = a[k]
           /\ \A k \in 1 .. Len(b) : s[Len(a) + k] = b[k]
<1>1. Len(a) \in Nat /\ Len(b) \in Nat OBVIOUS
<1>2. /\ s \in Seq(S) /\ Len(s) = Len(a) + Len(b)
      /\ \A i \in 1 .. Len(a) + Len(b) :
            s[i] = IF i <= Len(a) THEN a[i] ELSE b[i - Len(a)]
  BY ConcatProperties
<1>3. \A k \in 1 .. Len(a) : s[k] = a[k] BY <1>1, <1>2
<1>4. ASSUME NEW k \in 1 .. Len(b) PROVE s[Len(a) + k] = b[k]
  <2>1. Len(a) + k \in 1 .. Len(a) + Len(b) /\ ~ (Len(a) + k <= Len(a)) BY <1>1
  <2>2. Len(a) + k - Len(a) = k BY <1>1
  <2> QED BY <1>2, <2>1, <2>2
<1> QED BY <1>1, <1>2, <1>3, <1>4

\* One of three.
LEMMA ThreeParts ==
    ASSUME NEW S, NEW a \in Seq(S), NEW b \in Seq(S), NEW c \in Seq(S),
           NEW s, s = a \o b \o c
    PROVE  /\ s \in Seq(S) /\ Len(s) = Len(a) + Len(b) + Len(c)
           /\ \A k \in 1 .. Len(a) : s[k] = a[k]
           /\ \A k \in 1 .. Len(b) : s[Len(a) + k] = b[k]
           /\ \A k \in 1 .. Len(c) : s[Len(a) + Len(b) + k] = c[k]
<1>1. PICK t : t = a \o b OBVIOUS
<1>2. /\ t \in Seq(S) /\ Len(t) = Len(a) + Len(b) /\ Len(a) \in Nat /\ Len(b) \in Nat
      /\ \A k \in 1 .. Len(a) : t[k] = a[k]
      /\ \A k \in 1 .. Len(b) : t[Len(a) + k] = b[k]
  BY <1>1, TwoParts
<1>3. /\ s \in Seq(S) /\ Len(s) = Len(t) + Len(c)
      /\ \A k \in 1 .. Len(t) : s[k] = t[k]
      /\ \A k \in 1 .. Len(c) : s[Len(t) + k] = c[k]
  BY <1>1, <1>2, TwoParts
<1>4. \A k \in 1 .. Len(a) : s[k] = a[k] BY <1>2, <1>3
<1>5. ASSUME NEW k \in 1 .. Len(b) PROVE s[Len(a) + k] = b[k]
  <2>1. Len(a) + k \in 1 .. Len(t) BY <1>2
  <2> QED BY <1>2, <1>3, <2>1
<1> QED BY <1>2, <1>3, <1>4, <1>5

\* The old way.
LEMMA OldWayIs ==
    /\ OldWay \in Seq(Op) /\ Len(OldWay) = Len(Before) + Len(Old) + Len(After)
    /\ \A k \in 1 .. Len(Before) : OldWay[k] = Before[k]
    /\ \A k \in 1 .. Len(Old) : OldWay[Len(Before) + k] = Old[k]
    /\ \A k \in 1 .. Len(After) : OldWay[Len(Before) + Len(Old) + k] = After[k]
BY CodeTyped, ThreeParts DEF OldWay

\* The new way.
LEMMA NewWayIs ==
    /\ NewWay \in Seq(Op) /\ Len(NewWay) = Len(Before) + Len(New) + Len(After)
    /\ \A k \in 1 .. Len(Before) : NewWay[k] = Before[k]
    /\ \A k \in 1 .. Len(New) : NewWay[Len(Before) + k] = New[k]
    /\ \A k \in 1 .. Len(After) : NewWay[Len(Before) + Len(New) + k] = After[k]
BY CodeTyped, ThreeParts DEF NewWay

\* Four parts, the second of them one operation.
LEMMA FourParts ==
    ASSUME NEW S, NEW x \in S, NEW a \in Seq(S), NEW b \in Seq(S), NEW c \in Seq(S),
           NEW s, s = a \o <<x>> \o b \o c
    PROVE  /\ Len(s) = Len(a) + 1 + Len(b) + Len(c)
           /\ s[Len(a) + 1] = x
           /\ \A k \in 1 .. Len(a) : s[k] = a[k]
           /\ \A k \in 1 .. Len(b) : s[Len(a) + 1 + k] = b[k]
           /\ \A k \in 1 .. Len(c) : s[Len(a) + 1 + Len(b) + k] = c[k]
<1>1. PICK y : y = <<x>> OBVIOUS
<1>2. y \in Seq(S) /\ Len(y) = 1 /\ y[1] = x /\ 1 \in 1 .. Len(y) BY <1>1
<1>3. y \in Seq(S) BY <1>2
<1>4. PICK t : t = a \o y OBVIOUS
<1>5. /\ t \in Seq(S) /\ Len(t) = Len(a) + 1 /\ Len(a) \in Nat
      /\ \A k \in 1 .. Len(a) : t[k] = a[k]
      /\ t[Len(a) + 1] = x
  <2>1. /\ t \in Seq(S) /\ Len(t) = Len(a) + Len(y) /\ Len(a) \in Nat
        /\ \A k \in 1 .. Len(a) : t[k] = a[k]
        /\ \A k \in 1 .. Len(y) : t[Len(a) + k] = y[k]
    BY <1>3, <1>4, TwoParts
  <2>2. t[Len(a) + 1] = y[1] BY <1>2, <2>1
  <2> QED BY <1>2, <2>1, <2>2
<1>6. /\ Len(s) = Len(t) + Len(b) + Len(c)
      /\ \A k \in 1 .. Len(t) : s[k] = t[k]
      /\ \A k \in 1 .. Len(b) : s[Len(t) + k] = b[k]
      /\ \A k \in 1 .. Len(c) : s[Len(t) + Len(b) + k] = c[k]
  BY <1>1, <1>4, <1>5, ThreeParts
<1>7. s[Len(a) + 1] = x /\ \A k \in 1 .. Len(a) : s[k] = a[k] BY <1>5, <1>6
<1> QED BY <1>5, <1>6, <1>7

\* The new way with a marker.
LEMMA MarkedWayIs ==
    /\ Len(MarkedWay) = Split + Len(New) + Len(After) /\ MarkedWay[Split] = Marker
    /\ \A k \in 1 .. Len(Before) : MarkedWay[k] = Before[k]
    /\ \A k \in 1 .. Len(New) : MarkedWay[Split + k] = New[k]
    /\ \A k \in 1 .. Len(After) : MarkedWay[Split + Len(New) + k] = After[k]
<1> DEFINE S == Op \cup {Marker}
<1>1. Before \in Seq(S) /\ New \in Seq(S) /\ After \in Seq(S) /\ Marker \in S
  <2>1. Op \subseteq S OBVIOUS
  <2> HIDE DEF S
  <2>2. ASSUME NEW s \in Seq(Op) PROVE s \in Seq(S) BY <2>1
  <2>3. Marker \in S BY DEF S
  <2> QED BY <2>2, <2>3, CodeTyped
<1> HIDE DEF S
<1> QED BY <1>1, FourParts DEF MarkedWay, Split

\* The patched code, and the code that deprecates the patch.
LEMMA CodesAre ==
    /\ Code[1] = OldWay /\ Code[4] = NewWay
    /\ Len(Code[2]) = Split + Len(After) /\ Code[2][Split].op = "patch"
    /\ \A k \in 1 .. Len(Before) : Code[2][k] = Before[k]
    /\ \A k \in 1 .. Len(After) : Code[2][Split + k] = After[k]
    /\ Len(Code[3]) = Split + Len(New) + Len(After) /\ Code[3][Split].op = "deprecate"
    /\ \A k \in 1 .. Len(Before) : Code[3][k] = Before[k]
    /\ \A k \in 1 .. Len(New) : Code[3][Split + k] = New[k]
    /\ \A k \in 1 .. Len(After) : Code[3][Split + Len(New) + k] = After[k]
<1>1. /\ Code[1] = Before \o Old \o After
      /\ Code[2] = Before \o <<[op |-> "patch"]>> \o After
      /\ Code[3] = Before \o <<[op |-> "deprecate"]>> \o New \o After
      /\ Code[4] = Before \o New \o After
  BY DEF Code
<1>2. PICK x : x = [op |-> "patch"] OBVIOUS
<1>3. PICK z : z = [op |-> "deprecate"] OBVIOUS
<1>4. x \in Op /\ x.op = "patch" /\ z \in Op /\ z.op = "deprecate" BY <1>2, <1>3 DEF Op
<1>5. PICK y : y = <<x>> OBVIOUS
<1>6. y \in Seq(Op) /\ Len(y) = 1 /\ y[1] = x /\ 1 \in 1 .. Len(y) BY <1>4, <1>5
<1>7. y \in Seq(Op) BY <1>6
<1>8. PICK c2 : c2 = Code[2] OBVIOUS
<1>9. c2 = Before \o y \o After BY <1>1, <1>2, <1>5, <1>8
<1>10. /\ Len(c2) = Len(Before) + 1 + Len(After) /\ c2[Len(Before) + 1] = x
       /\ \A k \in 1 .. Len(Before) : c2[k] = Before[k]
       /\ \A k \in 1 .. Len(After) : c2[Len(Before) + 1 + k] = After[k]
  <2>1. Before \in Seq(Op) /\ After \in Seq(Op) BY CodeTyped
  <2>2. /\ Len(c2) = Len(Before) + Len(y) + Len(After)
        /\ \A k \in 1 .. Len(Before) : c2[k] = Before[k]
        /\ \A k \in 1 .. Len(y) : c2[Len(Before) + k] = y[k]
        /\ \A k \in 1 .. Len(After) : c2[Len(Before) + Len(y) + k] = After[k]
    BY <1>9, <1>7, <2>1, ThreeParts
  <2>3. c2[Len(Before) + 1] = y[1] BY <1>6, <2>2
  <2> QED BY <1>6, <2>2, <2>3
<1>11. PICK c3 : c3 = Code[3] OBVIOUS
<1>12. c3 = Before \o <<z>> \o New \o After BY <1>1, <1>3, <1>11
<1>13. /\ Len(c3) = Len(Before) + 1 + Len(New) + Len(After) /\ c3[Len(Before) + 1] = z
       /\ \A k \in 1 .. Len(Before) : c3[k] = Before[k]
       /\ \A k \in 1 .. Len(New) : c3[Len(Before) + 1 + k] = New[k]
       /\ \A k \in 1 .. Len(After) : c3[Len(Before) + 1 + Len(New) + k] = After[k]
  <2>1. Before \in Seq(Op) /\ New \in Seq(Op) /\ After \in Seq(Op) BY CodeTyped
  <2> HIDE DEF Op
  <2> QED BY <1>4, <1>12, <2>1, FourParts
<1> QED BY <1>1, <1>4, <1>8, <1>10, <1>11, <1>13 DEF Split, OldWay, NewWay
-----------------------------------------------------------------------------
(* The branches that executions take.                                      *)

SameName(e, o) == e.fn = o.op /\ (e.fn = "step" => e.branch = o.branch)
Matched(j, n, t) == \A k \in 1 .. n : SameName(j[k], t[k])

\* What is left of t after n steps.
Remains(rest, t, n) ==
    Len(rest) + n = Len(t) /\ \A i \in 1 .. Len(rest) : rest[i] = t[n + i]

\* An execution that has taken the branch of t; one before the branch.
Walks(j, rest, n, t) == Remains(rest, t, n) /\ Matched(j, n, t)
Ahead(j, rest, n, code) == n < Split /\ Remains(rest, code, n) /\ Matched(j, n, Before)

Marked(j) == Len(j) >= Split /\ j[Split].fn = "patch"

\* An execution of version v.
Executes(j, rest, n, v) ==
    \/ v = 1 /\ Walks(j, rest, n, OldWay)
    \/ v = 2 /\ Ahead(j, rest, n, Code[2])
    \/ v = 2 /\ Walks(j, rest, n, OldWay) /\ n + 1 >= Split /\ Len(j) >= Split /\ ~Marked(j)
    \/ v = 2 /\ Walks(j, rest, n, MarkedWay) /\ n >= Split
    \/ v = 3 /\ Ahead(j, rest, n, Code[3])
    \/ v = 3 /\ Walks(j, rest, n, MarkedWay) /\ n >= Split
    \/ v = 3 /\ Walks(j, rest, n, NewWay) /\ n + 1 >= Split /\ ~Marked(j)
    \/ v = 4 /\ Walks(j, rest, n, NewWay)

\* The ways of workflows that began under first, by the time that v is deployed.
MayWalk(t, first, v) ==
    \/ t = OldWay /\ first = 1
    \/ t = MarkedWay /\ ((first = 1 /\ v >= 2) \/ first = 2)
    \/ t = NewWay /\ ((first = 2 /\ v >= 3) \/ first >= 3)

Ways == {OldWay, MarkedWay, NewWay}
Fits(j, t) ==
    Len(j) <= Len(t) /\ \A k \in 1 .. Len(j) : j[k].fn = t[k].op /\ j[k].branch = t[k].branch
Allowed(j, first, v) == \E t \in Ways : MayWalk(t, first, v) /\ Fits(j, t)

\* A fork of a workflow that began before, which may not fit.
Left(r, d) == r.from # Nil /\ d > 2 /\ r.begun < d - 1
RowFits(r, v, d) == Left(r, d) \/ Allowed(r.journal, r.begun, v)

\* The old branch, or the new.
Unmixed(j) ==
    \A k \in 1 .. Len(j) : j[k].branch = "old" =>
       /\ Split <= k /\ Old # <<>>
       /\ j[Split].fn = Head(Old).op /\ j[Split].branch = "old"
       /\ \A i \in 1 .. Len(j) : j[i].branch # "new"

\* An execution runs what is deployed, or the version before with which it
\* began.
Running(r, e, d) ==
    \E v \in 1 .. d :
       /\ r.begun <= v /\ (v < d => r.begun = v /\ d = v + 1)
       /\ Executes(r.journal, e.rest, e.fid, v) /\ RowFits(r, v, d)

Branches(r, e, d) ==
    /\ r.status = "ABSENT" => r.journal = <<>> /\ r.from = Nil
    /\ r.status # "ABSENT" =>
          /\ r.begun \in 1 .. d
          /\ r.status = "ACTIVE" => r.from # Nil \/ r.begun >= d - 1
          /\ r.status = "ERROR" => Left(r, d)
          /\ RowFits(r, d, d) /\ Unmixed(r.journal)
          /\ e.on => Running(r, e, d)

ForkBranches ==
    fork # Nil =>
       /\ fork.row.begun = wf[fork.from].begun
       /\ RowFits(fork.row, deployed, deployed) /\ Unmixed(fork.row.journal)

BInv == (\A w \in Workflow : Branches(wf[w], exec[w], deployed)) /\ ForkBranches
-----------------------------------------------------------------------------
(* What the ways consist of, and how executions go along them.             *)

\* All ways begin with Before.
LEMMA WaysAre ==
    ASSUME NEW t \in Ways
    PROVE  /\ Len(t) \in Nat /\ Len(Before) \in Nat /\ Len(Before) <= Len(t)
           /\ \A k \in 1 .. Len(Before) : t[k] = Before[k]
BY PartsAre, OldWayIs, NewWayIs, MarkedWayIs DEF Ways, Split

LEMMA OldWayOps ==
    \A k \in 1 .. Len(OldWay) :
       /\ OldWay[k].op \in PlainOps /\ OldWay[k].branch \in {"any", "old"}
       /\ OldWay[k].branch = "old" =>
             Split <= k /\ Old # <<>> /\ OldWay[Split] = Head(Old)
<1> SUFFICES ASSUME NEW k \in 1 .. Len(OldWay)
             PROVE  /\ OldWay[k].op \in PlainOps /\ OldWay[k].branch \in {"any", "old"}
                    /\ OldWay[k].branch = "old" =>
                          Split <= k /\ Old # <<>> /\ OldWay[Split] = Head(Old)
  OBVIOUS
<1>1. k \in 1 .. Len(Before) + Len(Old) + Len(After) BY OldWayIs
<1>2. CASE k <= Len(Before)
  <2>1. k \in 1 .. Len(Before) BY <1>1, <1>2, PartsAre
  <2> QED BY <2>1, PartsAre, OldWayIs
<1>3. CASE k > Len(Before) /\ k <= Len(Before) + Len(Old)
  <2>1. PICK i : i = k - Len(Before) OBVIOUS
  <2>2. i \in 1 .. Len(Old) /\ k = Len(Before) + i BY <1>1, <1>3, <2>1, PartsAre
  <2>3. 1 \in 1 .. Len(Old) /\ Split <= k BY <2>2, PartsAre DEF Split
  <2>4. OldWay[k] = Old[i] /\ OldWay[Split] = Old[1] BY <2>2, <2>3, OldWayIs DEF Split
  <2>5. Old # <<>> /\ Head(Old) = Old[1] BY <2>3, CodeTyped, EmptySeq
  <2> QED BY <2>2, <2>3, <2>4, <2>5, PartsAre
<1>4. CASE k > Len(Before) + Len(Old)
  <2>1. PICK i : i = k - Len(Before) - Len(Old) OBVIOUS
  <2>2. i \in 1 .. Len(After) /\ k = Len(Before) + Len(Old) + i
    BY <1>1, <1>4, <2>1, PartsAre
  <2>3. OldWay[k] = After[i] BY <2>2, OldWayIs
  <2> QED BY <2>2, <2>3, PartsAre
<1> QED BY <1>1, <1>2, <1>3, <1>4, PartsAre

LEMMA NewWayOps ==
    \A k \in 1 .. Len(NewWay) :
       /\ NewWay[k].op \in PlainOps /\ NewWay[k].branch \in {"any", "new"}
       /\ NewWay[k].branch = "new" =>
             Split <= k /\ New # <<>> /\ NewWay[Split] = Head(New)
<1> SUFFICES ASSUME NEW k \in 1 .. Len(NewWay)
             PROVE  /\ NewWay[k].op \in PlainOps /\ NewWay[k].branch \in {"any", "new"}
                    /\ NewWay[k].branch = "new" =>
                          Split <= k /\ New # <<>> /\ NewWay[Split] = Head(New)
  OBVIOUS
<1>1. k \in 1 .. Len(Before) + Len(New) + Len(After) BY NewWayIs
<1>2. CASE k <= Len(Before)
  <2>1. k \in 1 .. Len(Before) BY <1>1, <1>2, PartsAre
  <2> QED BY <2>1, PartsAre, NewWayIs
<1>3. CASE k > Len(Before) /\ k <= Len(Before) + Len(New)
  <2>1. PICK i : i = k - Len(Before) OBVIOUS
  <2>2. i \in 1 .. Len(New) /\ k = Len(Before) + i BY <1>1, <1>3, <2>1, PartsAre
  <2>3. 1 \in 1 .. Len(New) /\ Split <= k BY <2>2, PartsAre DEF Split
  <2>4. NewWay[k] = New[i] /\ NewWay[Split] = New[1] BY <2>2, <2>3, NewWayIs DEF Split
  <2>5. New # <<>> /\ Head(New) = New[1] BY <2>3, CodeTyped, EmptySeq
  <2> QED BY <2>2, <2>3, <2>4, <2>5, PartsAre
<1>4. CASE k > Len(Before) + Len(New)
  <2>1. PICK i : i = k - Len(Before) - Len(New) OBVIOUS
  <2>2. i \in 1 .. Len(After) /\ k = Len(Before) + Len(New) + i
    BY <1>1, <1>4, <2>1, PartsAre
  <2>3. NewWay[k] = After[i] BY <2>2, NewWayIs
  <2> QED BY <2>2, <2>3, PartsAre
<1> QED BY <1>1, <1>2, <1>3, <1>4, PartsAre

LEMMA MarkedWayOps ==
    /\ MarkedWay[Split].op = "patch" /\ MarkedWay[Split].branch = "new"
    /\ \A k \in 1 .. Len(MarkedWay) :
          /\ k # Split => MarkedWay[k].op \in PlainOps
          /\ MarkedWay[k].branch \in {"any", "new"}
<1>1. MarkedWay[Split].op = "patch" /\ MarkedWay[Split].branch = "new"
  BY MarkedWayIs DEF Marker
<1> SUFFICES ASSUME NEW k \in 1 .. Len(MarkedWay), k # Split
             PROVE  MarkedWay[k].op \in PlainOps /\ MarkedWay[k].branch \in {"any", "new"}
  BY <1>1
<1>2. k \in 1 .. Split + Len(New) + Len(After) /\ Split \in Nat
  BY PartsAre, MarkedWayIs DEF Split
<1>3. CASE k <= Len(Before)
  <2>1. k \in 1 .. Len(Before) BY <1>2, <1>3, PartsAre
  <2> QED BY <2>1, PartsAre, MarkedWayIs
<1>4. CASE k > Split /\ k <= Split + Len(New)
  <2>1. PICK i : i = k - Split OBVIOUS
  <2>2. i \in 1 .. Len(New) /\ k = Split + i BY <1>2, <1>4, <2>1, PartsAre
  <2>3. MarkedWay[k] = New[i] BY <2>2, MarkedWayIs
  <2> QED BY <2>2, <2>3, PartsAre
<1>5. CASE k > Split + Len(New)
  <2>1. PICK i : i = k - Split - Len(New) OBVIOUS
  <2>2. i \in 1 .. Len(After) /\ k = Split + Len(New) + i BY <1>2, <1>5, <2>1, PartsAre
  <2>3. MarkedWay[k] = After[i] BY <2>2, MarkedWayIs
  <2> QED BY <2>2, <2>3, PartsAre
<1>6. k <= Len(Before) \/ k > Split BY <1>2, PartsAre DEF Split
<1> QED BY <1>2, <1>3, <1>4, <1>5, <1>6, PartsAre

\* The next operation, and what is left after it.
LEMMA RemainsOn ==
    ASSUME NEW rest \in Seq(Op), rest # <<>>, NEW n \in Nat, NEW t, Remains(rest, t, n)
    PROVE  /\ Head(rest) = t[n + 1] /\ n + 1 \in 1 .. Len(t) /\ Len(t) \in Nat
           /\ Tail(rest) \in Seq(Op) /\ Remains(Tail(rest), t, n + 1)
<1>1. Len(rest) \in Nat /\ Len(rest) >= 1 BY EmptySeq
<1>2. /\ Tail(rest) \in Seq(Op) /\ Head(rest) = rest[1] /\ Len(Tail(rest)) = Len(rest) - 1
      /\ \A i \in 1 .. Len(Tail(rest)) : Tail(rest)[i] = rest[i + 1]
  BY HeadTailProperties
<1>3. Len(rest) + n = Len(t) /\ \A i \in 1 .. Len(rest) : rest[i] = t[n + i] BY DEF Remains
<1>4. rest[1] = t[n + 1] BY <1>1, <1>3
<1>5. ASSUME NEW i \in 1 .. Len(Tail(rest)) PROVE Tail(rest)[i] = t[n + 1 + i]
  <2>1. i + 1 \in 1 .. Len(rest) /\ n + (i + 1) = n + 1 + i BY <1>1, <1>2
  <2> QED BY <1>2, <1>3, <2>1
<1>6. Len(Tail(rest)) + (n + 1) = Len(t) /\ n + 1 \in 1 .. Len(t) /\ Len(t) \in Nat
  BY <1>1, <1>2, <1>3
<1> QED BY <1>2, <1>4, <1>5, <1>6 DEF Remains

\* Journals that match.
LEMMA MatchedOn ==
    ASSUME NEW n \in Nat, NEW j, NEW q, NEW t, Matched(j, n, t),
           \A k \in 1 .. n : q[k] = j[k], SameName(q[n + 1], t[n + 1])
    PROVE  Matched(q, n + 1, t)
<1>1. \A k \in 1 .. n + 1 : k \in 1 .. n \/ k = n + 1 OBVIOUS
<1> QED BY <1>1 DEF Matched

\* A plain operation, replayed or recorded, of an execution before the branch...
LEMMA AheadOn ==
    ASSUME NEW rest \in Seq(Op), rest # <<>>, Head(rest).op \in PlainOps, NEW n \in Nat,
           NEW code, NEW j, NEW q, Ahead(j, rest, n, code), code[Split].op \notin PlainOps,
           \A k \in 1 .. Len(Before) : code[k] = Before[k],
           \A k \in 1 .. n : q[k] = j[k], SameName(q[n + 1], Head(rest))
    PROVE  Ahead(q, Tail(rest), n + 1, code) /\ n + 1 <= Len(Before) /\ Head(rest) = Before[n + 1]
<1>1. n < Split /\ Remains(rest, code, n) /\ Matched(j, n, Before) BY DEF Ahead
<1>2. Head(rest) = code[n + 1] /\ Remains(Tail(rest), code, n + 1) BY <1>1, RemainsOn
<1>3. n + 1 # Split BY <1>2
<1>4. n + 1 \in 1 .. Len(Before) /\ n + 1 < Split BY <1>1, <1>3, PartsAre DEF Split
<1>5. Head(rest) = Before[n + 1] BY <1>2, <1>4
<1>6. Matched(q, n + 1, Before) BY <1>1, <1>5, MatchedOn
<1> QED BY <1>2, <1>4, <1>5, <1>6 DEF Ahead

\* ... and of one on its way.
LEMMA WalksOn ==
    ASSUME NEW rest \in Seq(Op), rest # <<>>, NEW n \in Nat, NEW t, NEW j, NEW q,
           Walks(j, rest, n, t), \A k \in 1 .. n : q[k] = j[k], SameName(q[n + 1], Head(rest))
    PROVE  Walks(q, Tail(rest), n + 1, t)
<1>1. Remains(rest, t, n) /\ Matched(j, n, t) BY DEF Walks
<1>2. Head(rest) = t[n + 1] /\ Remains(Tail(rest), t, n + 1) BY <1>1, RemainsOn
<1> QED BY <1>1, <1>2, MatchedOn DEF Walks

\* It goes on as it did.
LEMMA ExecutesOn ==
    ASSUME NEW rest \in Seq(Op), rest # <<>>, Head(rest).op \in PlainOps, NEW n \in Nat,
           NEW j, NEW q, NEW v, Executes(j, rest, n, v),
           Len(j) \in Nat, Len(q) \in Nat, n <= Len(j), Len(j) <= Len(q),
           \A k \in 1 .. Len(j) : q[k] = j[k], Marked(q) => Marked(j),
           SameName(q[n + 1], Head(rest))
    PROVE  Executes(q, Tail(rest), n + 1, v)
<1>1. \A k \in 1 .. n : q[k] = j[k] OBVIOUS
<1>2. \A t : Walks(j, rest, n, t) => Walks(q, Tail(rest), n + 1, t) BY <1>1, WalksOn
<1>3. /\ Ahead(j, rest, n, Code[2]) => Ahead(q, Tail(rest), n + 1, Code[2])
      /\ Ahead(j, rest, n, Code[3]) => Ahead(q, Tail(rest), n + 1, Code[3])
  <2>1. ASSUME NEW code, code[Split].op \notin PlainOps,
               \A k \in 1 .. Len(Before) : code[k] = Before[k], Ahead(j, rest, n, code)
        PROVE  Ahead(q, Tail(rest), n + 1, code)
    BY <1>1, <2>1, AheadOn
  <2>2. /\ Code[2][Split].op \notin PlainOps /\ Code[3][Split].op \notin PlainOps
        /\ \A k \in 1 .. Len(Before) : Code[2][k] = Before[k] /\ Code[3][k] = Before[k]
    BY CodesAre DEF PlainOps
  <2> QED BY <2>1, <2>2
<1>4. Split \in Nat /\ (Len(j) >= Split => Len(q) >= Split) /\ (n >= Split => n + 1 >= Split)
      /\ (n + 1 >= Split => n + 1 + 1 >= Split)
  BY PartsAre DEF Split
<1> QED BY <1>2, <1>3, <1>4 DEF Executes
\* Only the patched code is ever at a patch, and only before the branch...
LEMMA AtPatch ==
    ASSUME NEW rest \in Seq(Op), rest # <<>>, Head(rest).op = "patch", NEW n \in Nat,
           NEW j, NEW v, Executes(j, rest, n, v)
    PROVE  /\ v = 2 /\ n = Len(Before) /\ n + 1 = Split /\ Matched(j, n, Before)
           /\ Remains(Tail(rest), Code[2], Split)
<1>1. \A t : Remains(rest, t, n) =>
         Head(rest) = t[n + 1] /\ n + 1 \in 1 .. Len(t) /\ Remains(Tail(rest), t, n + 1)
  BY RemainsOn
<1>2. ~Remains(rest, OldWay, n) /\ ~Remains(rest, NewWay, n)
  BY <1>1, OldWayOps, NewWayOps DEF PlainOps
<1>3. ~(n >= Split /\ Remains(rest, MarkedWay, n))
  <2>1. n >= Split => n + 1 # Split BY PartsAre DEF Split
  <2> QED BY <1>1, <2>1, MarkedWayOps DEF PlainOps
<1>4. ASSUME NEW code, Ahead(j, rest, n, code), \A k \in 1 .. Len(Before) : code[k] = Before[k]
      PROVE  n + 1 = Split /\ Remains(Tail(rest), code, Split) /\ code[Split].op = "patch"
  <2>1. n < Split /\ Remains(rest, code, n) BY <1>4 DEF Ahead
  <2>2. Head(rest) = code[n + 1] /\ Remains(Tail(rest), code, n + 1) BY <1>1, <2>1
  <2>3. n + 1 \in 1 .. Len(Before) \/ n + 1 = Split BY <2>1, PartsAre DEF Split
  <2>4. n + 1 \notin 1 .. Len(Before) BY <1>4, <2>2, PartsAre DEF PlainOps
  <2> QED BY <2>2, <2>3, <2>4
<1>5. ~Ahead(j, rest, n, Code[3])
  <2>1. /\ \A k \in 1 .. Len(Before) : Code[3][k] = Before[k]
        /\ Code[3][Split].op = "deprecate"
    BY CodesAre
  <2> QED BY <1>4, <2>1
<1>6. v = 2 /\ Ahead(j, rest, n, Code[2]) BY <1>2, <1>3, <1>5 DEF Executes, Walks
<1>7. \A k \in 1 .. Len(Before) : Code[2][k] = Before[k] BY CodesAre
<1>8. n + 1 = Split /\ Remains(Tail(rest), Code[2], Split) BY <1>4, <1>6, <1>7
<1>9. n = Len(Before) BY <1>8, PartsAre DEF Split
<1> QED BY <1>6, <1>8, <1>9 DEF Ahead

\* ... and only the code that deprecates it at a deprecate_patch.
LEMMA AtDeprecation ==
    ASSUME NEW rest \in Seq(Op), rest # <<>>, Head(rest).op = "deprecate", NEW n \in Nat,
           NEW j, NEW v, Executes(j, rest, n, v)
    PROVE  /\ v = 3 /\ n = Len(Before) /\ n + 1 = Split /\ Matched(j, n, Before)
           /\ Remains(Tail(rest), Code[3], Split)
<1>1. \A t : Remains(rest, t, n) =>
         Head(rest) = t[n + 1] /\ n + 1 \in 1 .. Len(t) /\ Remains(Tail(rest), t, n + 1)
  BY RemainsOn
<1>2. ~Remains(rest, OldWay, n) /\ ~Remains(rest, NewWay, n)
  BY <1>1, OldWayOps, NewWayOps DEF PlainOps
<1>3. ~Remains(rest, MarkedWay, n) BY <1>1, MarkedWayOps DEF PlainOps
<1>4. ASSUME NEW code, Ahead(j, rest, n, code), \A k \in 1 .. Len(Before) : code[k] = Before[k]
      PROVE  n + 1 = Split /\ Remains(Tail(rest), code, Split) /\ code[Split].op = "deprecate"
  <2>1. n < Split /\ Remains(rest, code, n) BY <1>4 DEF Ahead
  <2>2. Head(rest) = code[n + 1] /\ Remains(Tail(rest), code, n + 1) BY <1>1, <2>1
  <2>3. n + 1 \in 1 .. Len(Before) \/ n + 1 = Split BY <2>1, PartsAre DEF Split
  <2>4. n + 1 \notin 1 .. Len(Before) BY <1>4, <2>2, PartsAre DEF PlainOps
  <2> QED BY <2>2, <2>3, <2>4
<1>5. ~Ahead(j, rest, n, Code[2])
  <2>1. /\ \A k \in 1 .. Len(Before) : Code[2][k] = Before[k]
        /\ Code[2][Split].op = "patch"
    BY CodesAre
  <2> QED BY <1>4, <2>1
<1>6. v = 3 /\ Ahead(j, rest, n, Code[3]) BY <1>2, <1>3, <1>5 DEF Executes, Walks
<1>7. \A k \in 1 .. Len(Before) : Code[3][k] = Before[k] BY CodesAre
<1>8. n + 1 = Split /\ Remains(Tail(rest), Code[3], Split) BY <1>4, <1>6, <1>7
<1>9. n = Len(Before) BY <1>8, PartsAre DEF Split
<1> QED BY <1>6, <1>8, <1>9 DEF Ahead

\* Where a branch leads.
LEMMA OpParts ==
    \A p, r \in Seq(Op) :
       /\ p \o r \in Seq(Op) /\ Len(p \o r) = Len(p) + Len(r)
       /\ Len(p) \in Nat /\ Len(r) \in Nat
       /\ \A k \in 1 .. Len(p) : (p \o r)[k] = p[k]
       /\ \A k \in 1 .. Len(r) : (p \o r)[Len(p) + k] = r[k]
BY TwoParts

LEMMA Joined ==
    ASSUME NEW part \in Seq(Op), NEW rest \in Seq(Op), NEW t, NEW n \in Nat,
           Len(t) = n + Len(part) + Len(After), Len(rest) = Len(After),
           \A k \in 1 .. Len(part) : t[n + k] = part[k],
           \A k \in 1 .. Len(After) : t[n + Len(part) + k] = After[k] /\ rest[k] = After[k]
    PROVE  part \o rest \in Seq(Op) /\ Remains(part \o rest, t, n)
<1>1. PICK s : s = part \o rest OBVIOUS
<1>2. /\ s \in Seq(Op) /\ Len(s) = Len(part) + Len(rest)
      /\ Len(part) \in Nat /\ Len(rest) \in Nat
      /\ \A k \in 1 .. Len(part) : s[k] = part[k]
      /\ \A k \in 1 .. Len(rest) : s[Len(part) + k] = rest[k]
  BY <1>1, OpParts
<1>3. ASSUME NEW i \in 1 .. Len(s) PROVE s[i] = t[n + i]
  <2>1. CASE i <= Len(part)
    <3>1. i \in 1 .. Len(part) BY <1>2, <2>1
    <3> QED BY <1>2, <3>1
  <2>2. CASE i > Len(part)
    <3>1. PICK k : k = i - Len(part) OBVIOUS
    <3>2. /\ k \in 1 .. Len(After) /\ k \in 1 .. Len(rest) /\ i = Len(part) + k
          /\ n + i = n + Len(part) + k
      BY <1>2, <2>2, <3>1
    <3> QED BY <1>2, <3>2
  <2> QED BY <1>2, <2>1, <2>2
<1>4. Len(s) + n = Len(t) BY <1>2
<1> QED BY <1>1, <1>2, <1>3, <1>4 DEF Remains

LEMMA TakesNew ==
    ASSUME NEW rest \in Seq(Op), Remains(rest, Code[2], Split)
    PROVE  New \o rest \in Seq(Op) /\ Remains(New \o rest, MarkedWay, Split)
<1>1. PICK c : c = Code[2] OBVIOUS
<1>2. /\ Len(rest) + Split = Split + Len(After) /\ \A k \in 1 .. Len(rest) : rest[k] = c[Split + k]
      /\ \A k \in 1 .. Len(After) : c[Split + k] = After[k]
  BY <1>1, CodesAre DEF Remains
<1>3. Len(rest) = Len(After) /\ Split \in Nat BY <1>2, PartsAre DEF Split
<1>4. \A k \in 1 .. Len(After) : rest[k] = After[k] BY <1>2, <1>3
<1> QED BY <1>3, <1>4, CodeTyped, MarkedWayIs, Joined

LEMMA TakesOld ==
    ASSUME NEW rest \in Seq(Op), Remains(rest, Code[2], Split)
    PROVE  Old \o rest \in Seq(Op) /\ Remains(Old \o rest, OldWay, Len(Before))
<1>1. PICK c : c = Code[2] OBVIOUS
<1>2. /\ Len(rest) + Split = Split + Len(After) /\ \A k \in 1 .. Len(rest) : rest[k] = c[Split + k]
      /\ \A k \in 1 .. Len(After) : c[Split + k] = After[k]
  BY <1>1, CodesAre DEF Remains
<1>3. Len(rest) = Len(After) /\ Len(Before) \in Nat BY <1>2, PartsAre DEF Split
<1>4. \A k \in 1 .. Len(After) : rest[k] = After[k] BY <1>2, <1>3
<1> QED BY <1>3, <1>4, CodeTyped, OldWayIs, Joined

LEMMA Deprecated ==
    ASSUME NEW rest \in Seq(Op), Remains(rest, Code[3], Split)
    PROVE  Remains(rest, MarkedWay, Split) /\ Remains(rest, NewWay, Len(Before))
<1>1. PICK c : c = Code[3] OBVIOUS
<1>2. /\ Len(rest) + Split = Split + Len(New) + Len(After)
      /\ \A k \in 1 .. Len(rest) : rest[k] = c[Split + k]
      /\ \A k \in 1 .. Len(New) : c[Split + k] = New[k]
      /\ \A k \in 1 .. Len(After) : c[Split + Len(New) + k] = After[k]
  BY <1>1, CodesAre DEF Remains
<1>3. Len(rest) = Len(New) + Len(After) /\ Split \in Nat /\ Len(Before) \in Nat
      /\ Len(New) \in Nat /\ Len(After) \in Nat
  BY <1>2, PartsAre DEF Split
<1>4. ASSUME NEW i \in 1 .. Len(rest)
      PROVE  rest[i] = MarkedWay[Split + i] /\ rest[i] = NewWay[Len(Before) + i]
  <2>1. CASE i <= Len(New)
    <3>1. i \in 1 .. Len(New) BY <1>3, <2>1
    <3> QED BY <1>2, <3>1, MarkedWayIs, NewWayIs
  <2>2. CASE i > Len(New)
    <3>1. PICK k : k = i - Len(New) OBVIOUS
    <3>2. /\ k \in 1 .. Len(After) /\ Split + i = Split + Len(New) + k
          /\ Len(Before) + i = Len(Before) + Len(New) + k
      BY <1>3, <2>2, <3>1
    <3>3. rest[i] = After[k] BY <1>2, <3>2
    <3> QED BY <3>2, <3>3, MarkedWayIs, NewWayIs
  <2> QED BY <1>3, <2>1, <2>2
<1> QED BY <1>3, <1>4, MarkedWayIs, NewWayIs DEF Remains
-----------------------------------------------------------------------------
(* Journals that fit the ways, and those of forks that may not.            *)

\* What may be, may be under later versions.
LEMMA MayWalkOn ==
    ASSUME NEW t, NEW first \in Nat, NEW u \in Nat, NEW v \in Nat, u <= v, MayWalk(t, first, u)
    PROVE  MayWalk(t, first, v)
BY DEF MayWalk

LEMMA AllowedOn ==
    ASSUME NEW j, NEW first \in Nat, NEW u \in Nat, NEW v \in Nat, u <= v, Allowed(j, first, u)
    PROVE  Allowed(j, first, v)
BY MayWalkOn DEF Allowed

\* There is a way for every workflow, and the empty journal fits it.
LEMMA EmptyAllowed ==
    ASSUME NEW first \in Nat, NEW v \in Nat, 1 <= first, first <= v
    PROVE  Allowed(<<>>, first, v)
<1>1. ASSUME NEW t \in Ways PROVE Fits(<<>>, t) BY WaysAre DEF Fits
<1>2. \E t \in Ways : MayWalk(t, first, v)
  <2>1. CASE first = 1 BY <2>1 DEF Ways, MayWalk
  <2>2. CASE first = 2 BY <2>2 DEF Ways, MayWalk
  <2>3. CASE first >= 3 BY <2>3 DEF Ways, MayWalk
  <2> QED BY <2>1, <2>2, <2>3
<1> QED BY <1>1, <1>2 DEF Allowed

\* The first steps of a journal that fits; of one that is not mixed.
LEMMA AllowedPrefix ==
    ASSUME NEW j, NEW q, NEW first, NEW v, Len(j) \in Nat, Len(q) \in Nat, Len(q) <= Len(j),
           \A k \in 1 .. Len(q) : q[k] = j[k], Allowed(j, first, v)
    PROVE  Allowed(q, first, v)
<1>1. PICK t \in Ways : MayWalk(t, first, v) /\ Fits(j, t) BY DEF Allowed
<1>2. Len(t) \in Nat BY WaysAre
<1>3. Fits(q, t) BY <1>1, <1>2 DEF Fits
<1> QED BY <1>1, <1>3 DEF Allowed

LEMMA UnmixedPrefix ==
    ASSUME NEW j, NEW q, Len(j) \in Nat, Len(q) \in Nat, Len(q) <= Len(j),
           \A k \in 1 .. Len(q) : q[k] = j[k], Unmixed(j)
    PROVE  Unmixed(q)
<1>1. Split \in Nat /\ Split >= 1 BY PartsAre DEF Split
<1> SUFFICES ASSUME NEW k \in 1 .. Len(q), q[k].branch = "old"
             PROVE  /\ Split <= k /\ Old # <<>>
                    /\ q[Split].fn = Head(Old).op /\ q[Split].branch = "old"
                    /\ \A i \in 1 .. Len(q) : q[i].branch # "new"
  BY DEF Unmixed
<1>2. k \in 1 .. Len(j) /\ j[k].branch = "old" OBVIOUS
<1>3. /\ Split <= k /\ Old # <<>>
      /\ j[Split].fn = Head(Old).op /\ j[Split].branch = "old"
      /\ \A i \in 1 .. Len(j) : j[i].branch # "new"
  BY <1>2 DEF Unmixed
<1>4. Split \in 1 .. Len(q) BY <1>1, <1>3
<1>5. \A i \in 1 .. Len(q) : q[i].branch # "new" BY <1>3
<1> QED BY <1>3, <1>4, <1>5

\* A journal that fits is not mixed.
LEMMA FitsUnmixed ==
    ASSUME NEW j, NEW t \in Ways, Len(j) \in Nat, Fits(j, t)
    PROVE  Unmixed(j)
<1>1. /\ Len(t) \in Nat /\ Len(j) <= Len(t)
      /\ \A k \in 1 .. Len(j) : j[k].fn = t[k].op /\ j[k].branch = t[k].branch
  BY WaysAre DEF Fits
<1>2. \A k \in 1 .. Len(j) : k \in 1 .. Len(t) BY <1>1
<1>3. CASE t = OldWay
  <2>1. Split \in Nat /\ Split >= 1 BY PartsAre DEF Split
  <2>2. \A k \in 1 .. Len(j) : j[k].branch # "new" BY <1>1, <1>2, <1>3, OldWayOps
  <2>3. ASSUME NEW k \in 1 .. Len(j), j[k].branch = "old"
        PROVE  /\ Split <= k /\ Old # <<>>
               /\ j[Split].fn = Head(Old).op /\ j[Split].branch = "old"
    <3>1. Split <= k /\ Old # <<>> /\ t[Split] = Head(Old)
      BY <1>1, <1>2, <1>3, <2>3, OldWayOps
    <3>2. Split \in 1 .. Len(j) BY <1>1, <2>1, <3>1
    <3>3. Head(Old).branch = "old"
      <4>1. Len(Old) >= 1 /\ Head(Old) = Old[1] BY <3>1, CodeTyped, PartsAre, EmptySeq
      <4>2. 1 \in 1 .. Len(Old) BY <4>1, PartsAre
      <4> QED BY <4>1, <4>2, PartsAre
    <3> QED BY <1>1, <3>1, <3>2, <3>3
  <2> QED BY <2>2, <2>3 DEF Unmixed
<1>4. CASE t = NewWay
  <2>1. \A k \in 1 .. Len(j) : j[k].branch # "old" BY <1>1, <1>2, <1>4, NewWayOps
  <2> QED BY <2>1 DEF Unmixed
<1>5. CASE t = MarkedWay
  <2>1. \A k \in 1 .. Len(j) : j[k].branch # "old" BY <1>1, <1>2, <1>5, MarkedWayOps
  <2> QED BY <2>1 DEF Unmixed
<1> QED BY <1>3, <1>4, <1>5 DEF Ways

\* A journal at which the branch was recorded.
LEMMA FitsAtSplit ==
    ASSUME NEW j, Len(j) \in Nat, Len(j) >= Split
    PROVE  /\ Fits(j, OldWay) => ~Marked(j)
           /\ Fits(j, NewWay) => ~Marked(j)
           /\ Fits(j, MarkedWay) => Marked(j)
<1>1. Split \in 1 .. Len(j) BY PartsAre DEF Split
<1>2. /\ Len(OldWay) \in Nat /\ Len(NewWay) \in Nat
      /\ \A t \in {OldWay, NewWay} : t \in Ways
  BY WaysAre DEF Ways
<1>3. ASSUME NEW t, Fits(j, t), Len(t) \in Nat
      PROVE  Split \in 1 .. Len(t) /\ j[Split].fn = t[Split].op
  BY <1>1, <1>3 DEF Fits
<1>4. ASSUME Fits(j, OldWay) PROVE ~Marked(j)
  BY <1>2, <1>3, <1>4, OldWayOps DEF Marked, PlainOps
<1>5. ASSUME Fits(j, NewWay) PROVE ~Marked(j)
  BY <1>2, <1>3, <1>5, NewWayOps DEF Marked, PlainOps
<1>6. ASSUME Fits(j, MarkedWay) PROVE Marked(j)
  BY <1>1, <1>6, MarkedWayOps DEF Marked, Fits
<1> QED BY <1>4, <1>5, <1>6

\* Before the branch all journals look alike.
LEMMA FitsBefore ==
    ASSUME NEW j, Len(j) \in Nat, Len(j) < Split, NEW t \in Ways, NEW s \in Ways, Fits(j, t)
    PROVE  Fits(j, s)
<1>1. Len(j) <= Len(Before) BY PartsAre DEF Split
<1>2. \A k \in 1 .. Len(j) : k \in 1 .. Len(Before) BY <1>1, PartsAre
<1>3. \A k \in 1 .. Len(j) : t[k] = Before[k] /\ s[k] = Before[k] BY <1>2, WaysAre
<1>4. Len(j) <= Len(s) BY <1>1, WaysAre
<1> QED BY <1>3, <1>4 DEF Fits

\* What an execution that need not fail does next is what its journal may have
\* next.
LEMMA Follows ==
    ASSUME NEW rest \in Seq(Op), rest # <<>>, Head(rest).op \in PlainOps, NEW n \in Nat,
           NEW j, Len(j) \in Nat, n <= Len(j), NEW v \in 1 .. 4, NEW first \in Nat,
           1 <= first, v - 1 <= first, first <= v,
           Executes(j, rest, n, v), Allowed(j, first, v)
    PROVE  \E t \in Ways : /\ MayWalk(t, first, v) /\ Fits(j, t)
                           /\ n + 1 \in 1 .. Len(t) /\ t[n + 1] = Head(rest)
<1>1. PICK t \in Ways : MayWalk(t, first, v) /\ Fits(j, t) BY DEF Allowed
<1>2. ASSUME NEW s \in Ways, Walks(j, rest, n, s), MayWalk(s, first, v), Fits(j, s)
      PROVE  /\ MayWalk(s, first, v) /\ Fits(j, s)
             /\ n + 1 \in 1 .. Len(s) /\ s[n + 1] = Head(rest)
  BY <1>2, RemainsOn DEF Walks
<1>3. ASSUME NEW code, Ahead(j, rest, n, code), code[Split].op \notin PlainOps,
             \A k \in 1 .. Len(Before) : code[k] = Before[k]
      PROVE  n + 1 \in 1 .. Len(t) /\ t[n + 1] = Head(rest)
  <2>1. n < Split /\ Remains(rest, code, n) BY <1>3 DEF Ahead
  <2>2. Head(rest) = code[n + 1] BY <2>1, RemainsOn
  <2>3. n + 1 # Split BY <1>3, <2>2
  <2>4. n + 1 \in 1 .. Len(Before) BY <2>1, <2>3, PartsAre DEF Split
  <2>5. t[n + 1] = Before[n + 1] /\ n + 1 \in 1 .. Len(t) BY <2>4, WaysAre
  <2> QED BY <1>3, <2>2, <2>4, <2>5
<1>4. /\ Code[2][Split].op \notin PlainOps /\ Code[3][Split].op \notin PlainOps
      /\ \A k \in 1 .. Len(Before) : Code[2][k] = Before[k] /\ Code[3][k] = Before[k]
  BY CodesAre DEF PlainOps
<1>5. ASSUME Ahead(j, rest, n, Code[2]) \/ Ahead(j, rest, n, Code[3])
      PROVE  n + 1 \in 1 .. Len(t) /\ t[n + 1] = Head(rest)
  BY <1>3, <1>4, <1>5
<1>6. OldWay \in Ways /\ MarkedWay \in Ways /\ NewWay \in Ways
      /\ (t = OldWay \/ t = MarkedWay \/ t = NewWay)
  BY DEF Ways
<1>7. Split \in Nat BY PartsAre DEF Split
<1>8. ASSUME Walks(j, rest, n, MarkedWay), n >= Split PROVE Len(j) >= Split /\ Marked(j)
  <2>1. Split \in 1 .. n BY <1>8, PartsAre DEF Split
  <2>2. j[Split].fn = MarkedWay[Split].op BY <1>8, <2>1 DEF Walks, Matched, SameName
  <2> QED BY <1>7, <1>8, <2>2, MarkedWayOps DEF Marked
<1>9. CASE v = 1
  <2>1. Walks(j, rest, n, OldWay) BY <1>9 DEF Executes
  <2>2. t = OldWay BY <1>1, <1>9 DEF MayWalk
  <2> QED BY <1>1, <1>2, <2>1, <2>2
<1>10. CASE v = 2
  <2>1. t # NewWay \/ t = OldWay \/ t = MarkedWay BY <1>1, <1>10 DEF MayWalk
  <2>2. \/ Ahead(j, rest, n, Code[2])
        \/ Walks(j, rest, n, OldWay) /\ Len(j) >= Split /\ ~Marked(j)
        \/ Walks(j, rest, n, MarkedWay) /\ n >= Split
    BY <1>10 DEF Executes
  <2>3. CASE Ahead(j, rest, n, Code[2]) BY <1>1, <1>5, <2>3
  <2>4. CASE Walks(j, rest, n, OldWay) /\ Len(j) >= Split /\ ~Marked(j)
    <3>1. t = OldWay BY <1>1, <1>6, <2>1, <2>4, FitsAtSplit
    <3> QED BY <1>1, <1>2, <2>4, <3>1
  <2>5. CASE Walks(j, rest, n, MarkedWay) /\ n >= Split
    <3>1. t = MarkedWay BY <1>1, <1>6, <1>8, <2>1, <2>5, FitsAtSplit
    <3> QED BY <1>1, <1>2, <2>5, <3>1
  <2> QED BY <2>2, <2>3, <2>4, <2>5
<1>11. CASE v = 3
  <2>1. first = 2 \/ first = 3 BY <1>11
  <2>2. t = NewWay \/ t = MarkedWay BY <1>1, <1>11, <2>1 DEF MayWalk
  <2>3. MayWalk(NewWay, first, v) BY <1>11, <2>1 DEF MayWalk
  <2>4. \/ Ahead(j, rest, n, Code[3])
        \/ Walks(j, rest, n, MarkedWay) /\ n >= Split
        \/ Walks(j, rest, n, NewWay) /\ ~Marked(j)
    BY <1>11 DEF Executes
  <2>5. CASE Ahead(j, rest, n, Code[3]) BY <1>1, <1>5, <2>5
  <2>6. CASE Walks(j, rest, n, MarkedWay) /\ n >= Split
    <3>1. t = MarkedWay BY <1>1, <1>8, <2>2, <2>6, FitsAtSplit
    <3> QED BY <1>1, <1>2, <2>6, <3>1
  <2>7. CASE Walks(j, rest, n, NewWay) /\ ~Marked(j)
    <3>1. Fits(j, NewWay)
      <4>1. CASE Len(j) >= Split BY <1>1, <2>2, <2>7, <4>1, FitsAtSplit
      <4>2. CASE Len(j) < Split BY <1>1, <1>6, <4>2, FitsBefore
      <4> QED BY <1>7, <4>1, <4>2
    <3> QED BY <1>2, <1>6, <2>3, <2>7, <3>1
  <2> QED BY <2>4, <2>5, <2>6, <2>7
<1>12. CASE v = 4
  <2>1. Walks(j, rest, n, NewWay) BY <1>12 DEF Executes
  <2>2. first = 3 \/ first = 4 BY <1>12
  <2>3. t = NewWay BY <1>1, <1>12, <2>2 DEF MayWalk
  <2> QED BY <1>1, <1>2, <2>1, <2>3
<1> QED BY <1>9, <1>10, <1>11, <1>12
\* A step that is recorded.
LEMMA Appends ==
    ASSUME NEW j \in Seq(Noted), NEW e \in Noted, NEW q, q = Append(j, e)
    PROVE  /\ q \in Seq(Noted) /\ Len(j) \in Nat /\ Len(q) = Len(j) + 1
           /\ \A k \in 1 .. Len(j) : q[k] = j[k]
           /\ q[Len(j) + 1] = e
           /\ \A k \in 1 .. Len(q) : k \in 1 .. Len(j) \/ k = Len(j) + 1
<1> HIDE DEF Noted
<1>1. /\ q \in Seq(Noted) /\ Len(j) \in Nat /\ Len(q) = Len(j) + 1
      /\ \A k \in 1 .. Len(j) : q[k] = j[k]
      /\ q[Len(j) + 1] = e
  BY AppendProperties
<1> QED BY <1>1

LEMMA FitsOn ==
    ASSUME NEW j \in Seq(Noted), NEW e \in Noted, NEW q, q = Append(j, e), NEW t,
           Fits(j, t), Len(j) + 1 \in 1 .. Len(t),
           e.fn = t[Len(j) + 1].op, e.branch = t[Len(j) + 1].branch
    PROVE  Fits(q, t)
<1>1. /\ Len(j) \in Nat /\ Len(q) = Len(j) + 1
      /\ \A k \in 1 .. Len(j) : q[k] = j[k]
      /\ q[Len(j) + 1] = e
      /\ \A k \in 1 .. Len(q) : k \in 1 .. Len(j) \/ k = Len(j) + 1
  BY Appends
<1>2. /\ Len(q) <= Len(t)
      /\ \A k \in 1 .. Len(j) : j[k].fn = t[k].op /\ j[k].branch = t[k].branch
  BY <1>1 DEF Fits
<1>3. ASSUME NEW k \in 1 .. Len(q) PROVE q[k].fn = t[k].op /\ q[k].branch = t[k].branch
  BY <1>1, <1>2
<1> QED BY <1>2, <1>3 DEF Fits

\* A step of the new branch does not come after one of the old: a fork of an
\* unpatched workflow, under code without its branch, fails before.
LEMMA NewStep ==
    ASSUME NEW rest \in Seq(Op), rest # <<>>, Head(rest).op \in PlainOps, NEW n \in Nat,
           NEW j, Len(j) \in Nat, n = Len(j), NEW v, v \in {3, 4},
           Executes(j, rest, n, v), Unmixed(j)
    PROVE  /\ Head(rest).branch # "old"
           /\ Head(rest).branch = "new" => \A k \in 1 .. Len(j) : j[k].branch # "old"
<1>1. Split \in Nat /\ Split >= 1 BY PartsAre DEF Split
<1>2. \/ Ahead(j, rest, n, Code[3])
      \/ Walks(j, rest, n, MarkedWay) /\ n >= Split
      \/ Walks(j, rest, n, NewWay)
  BY DEF Executes
<1>3. CASE Ahead(j, rest, n, Code[3])
  <2>1. n < Split /\ Remains(rest, Code[3], n) BY <1>3 DEF Ahead
  <2>2. Head(rest) = Code[3][n + 1] BY <2>1, RemainsOn
  <2>3. n + 1 # Split BY <2>2, CodesAre DEF PlainOps
  <2>4. n + 1 \in 1 .. Len(Before) BY <2>1, <2>3, PartsAre DEF Split
  <2>5. Head(rest) = Before[n + 1] BY <2>2, <2>4, CodesAre
  <2> QED BY <2>4, <2>5, PartsAre
<1>4. CASE Walks(j, rest, n, MarkedWay) /\ n >= Split
  <2>1. Head(rest).branch \in {"any", "new"} BY <1>4, RemainsOn, MarkedWayOps DEF Walks
  <2>2. Split \in 1 .. n BY <1>1, <1>4
  <2>3. j[Split].fn = "patch" BY <1>4, <2>2, MarkedWayOps DEF Walks, Matched, SameName
  <2>4. Old # <<>> => Head(Old).op # "patch"
    <3>1. Old # <<>> => Head(Old) = Old[1] /\ 1 \in 1 .. Len(Old)
      BY CodeTyped, PartsAre, EmptySeq
    <3> QED BY <3>1, PartsAre DEF PlainOps
  <2> QED BY <2>1, <2>3, <2>4 DEF Unmixed
<1>5. CASE Walks(j, rest, n, NewWay)
  <2>1. n + 1 \in 1 .. Len(NewWay) /\ Head(rest) = NewWay[n + 1] BY <1>5, RemainsOn DEF Walks
  <2>2. Head(rest).branch \in {"any", "new"} BY <2>1, NewWayOps
  <2>3. ASSUME Head(rest).branch = "new", NEW k \in 1 .. Len(j), j[k].branch = "old"
        PROVE  FALSE
    <3>1. New # <<>> /\ NewWay[Split] = Head(New) BY <2>1, <2>3, NewWayOps
    <3>2. Split <= k /\ Old # <<>> /\ j[Split].fn = Head(Old).op /\ j[Split].branch = "old"
      BY <2>3 DEF Unmixed
    <3>3. Split \in 1 .. n BY <1>1, <3>2
    <3>4. /\ j[Split].fn = Head(New).op
          /\ j[Split].fn = "step" => j[Split].branch = Head(New).branch
      BY <1>5, <3>1, <3>3 DEF Walks, Matched, SameName
    <3>5. j[Split].fn = "step" BY <3>1, <3>2, <3>4, BranchAssumption
    <3>6. Head(New).branch = "new"
      <4>1. Head(New) = New[1] /\ 1 \in 1 .. Len(New) BY <3>1, CodeTyped, PartsAre, EmptySeq
      <4> QED BY <4>1, PartsAre
    <3> QED BY <3>2, <3>4, <3>5, <3>6
  <2> QED BY <2>2, <2>3
<1> QED BY <1>2, <1>3, <1>4, <1>5

LEMMA UnmixedOn ==
    ASSUME NEW j \in Seq(Noted), NEW e \in Noted, NEW q, q = Append(j, e), Unmixed(j),
           e.branch # "old", e.branch = "new" => \A k \in 1 .. Len(j) : j[k].branch # "old"
    PROVE  Unmixed(q)
<1>1. /\ Len(j) \in Nat /\ Len(q) = Len(j) + 1
      /\ \A k \in 1 .. Len(j) : q[k] = j[k]
      /\ q[Len(j) + 1] = e
      /\ \A k \in 1 .. Len(q) : k \in 1 .. Len(j) \/ k = Len(j) + 1
  BY Appends
<1>2. Split \in Nat /\ Split >= 1 BY PartsAre DEF Split
<1> SUFFICES ASSUME NEW k \in 1 .. Len(q), q[k].branch = "old"
             PROVE  /\ Split <= k /\ Old # <<>>
                    /\ q[Split].fn = Head(Old).op /\ q[Split].branch = "old"
                    /\ \A i \in 1 .. Len(q) : q[i].branch # "new"
  BY DEF Unmixed
<1>3. k \in 1 .. Len(j) /\ j[k].branch = "old" BY <1>1
<1>4. /\ Split <= k /\ Old # <<>>
      /\ j[Split].fn = Head(Old).op /\ j[Split].branch = "old"
      /\ \A i \in 1 .. Len(j) : j[i].branch # "new"
  BY <1>3 DEF Unmixed
<1>5. Split \in 1 .. Len(j) BY <1>1, <1>2, <1>3, <1>4
<1>6. e.branch # "new" BY <1>3
<1>7. \A i \in 1 .. Len(q) : q[i].branch # "new" BY <1>1, <1>4, <1>6
<1> QED BY <1>1, <1>4, <1>5, <1>7
-----------------------------------------------------------------------------
(* The steps of executions keep to the branches.                           *)

\* Where an execution stands.
LEMMA Standing ==
    ASSUME IInv, EInv, BInv, NEW w \in Workflow, exec[w].on
    PROVE  /\ wf[w].status = "ACTIVE" /\ deployed \in 1 .. 4
           /\ wf[w].begun \in 1 .. deployed /\ Unmixed(wf[w].journal)
           /\ wf[w].journal \in Seq(Noted) /\ Len(wf[w].journal) \in Nat
           /\ exec[w].fid \in Nat /\ exec[w].fid <= Len(wf[w].journal)
           /\ exec[w].rest \in Seq(Op)
           /\ wf[w].from # Nil \/ wf[w].begun >= deployed - 1
           /\ Running(wf[w], exec[w], deployed)
<1>1. wf[w].status = "ACTIVE" /\ exec[w].fid <= Len(wf[w].journal)
  BY DEF EInv, Executing
<1>2. Branches(wf[w], exec[w], deployed) BY DEF BInv
<1>3. deployed \in 1 .. 4 BY CodeTyped DEF IInv, TypeInv
<1>4. wf[w].journal \in Seq(Noted) /\ exec[w].fid \in Nat /\ exec[w].rest \in Seq(Op)
  BY AtFacts
<1>5. Len(wf[w].journal) \in Nat BY <1>4
<1> QED BY <1>1, <1>2, <1>3, <1>4, <1>5 DEF Branches

\* Its version, and whether it must fit.
LEMMA RunsAs ==
    ASSUME NEW r, NEW e, NEW d, d \in 1 .. 4, r.begun \in 1 .. d,
           r.from # Nil \/ r.begun >= d - 1, Running(r, e, d)
    PROVE  \E v \in 1 .. d :
              /\ r.begun <= v /\ (v < d => r.begun = v /\ d = v + 1)
              /\ Executes(r.journal, e.rest, e.fid, v)
              /\ \/ Left(r, d) /\ v = d /\ v \in {3, 4}
                 \/ ~Left(r, d) /\ v - 1 <= r.begun /\ Allowed(r.journal, r.begun, v)
<1>1. PICK v \in 1 .. d : /\ r.begun <= v /\ (v < d => r.begun = v /\ d = v + 1)
                          /\ Executes(r.journal, e.rest, e.fid, v) /\ RowFits(r, v, d)
  BY DEF Running
<1>2. CASE Left(r, d)
  <2>1. v = d /\ v \in {3, 4} BY <1>1, <1>2 DEF Left
  <2> QED BY <1>1, <1>2, <2>1
<1>3. CASE ~Left(r, d)
  <2>1. v - 1 <= r.begun BY <1>1, <1>3 DEF Left
  <2>2. Allowed(r.journal, r.begun, v) BY <1>1, <1>3 DEF RowFits
  <2> QED BY <1>1, <1>3, <2>1, <2>2
<1> QED BY <1>2, <1>3

\* One workflow moves.
LEMMA BranchesLocal ==
    ASSUME IInv, BInv, NEW w \in Workflow, Local(w),
           fork # Nil /\ fork.from = w => wf'[w].begun = wf[w].begun,
           Branches(wf'[w], exec'[w], deployed)
    PROVE  BInv'
<1>1. /\ \A u \in Workflow : u # w => wf'[u] = wf[u] /\ exec'[u] = exec[u]
      /\ deployed' = deployed /\ fork' = fork
  BY DEF Local
<1>2. ASSUME NEW u \in Workflow PROVE Branches(wf'[u], exec'[u], deployed)
  <2>1. CASE u = w BY <2>1
  <2>2. CASE u # w BY <1>1, <2>2 DEF BInv
  <2> QED BY <2>1, <2>2
<1>3. ASSUME fork # Nil
      PROVE  /\ fork.row.begun = wf'[fork.from].begun
             /\ RowFits(fork.row, deployed, deployed) /\ Unmixed(fork.row.journal)
  <2>1. fork.from \in Workflow BY <1>3 DEF IInv, TypeInv, ForkOK
  <2>2. wf'[fork.from].begun = wf[fork.from].begun BY <1>1, <1>3, <2>1
  <2> QED BY <1>3, <2>2 DEF BInv, ForkBranches
<1>4. ForkBranches' BY <1>1, <1>3 DEF ForkBranches
<1> QED BY <1>1, <1>2, <1>4 DEF BInv

\* Its journal is as it was.
LEMMA BranchesRest ==
    ASSUME IInv, BInv, NEW w \in Workflow, Local(w), wf[w].status # "ABSENT",
           SameOrigin(wf'[w], wf[w]), wf'[w].journal = wf[w].journal,
           wf'[w].status # "ABSENT",
           wf'[w].status = "ACTIVE" => wf[w].status = "ACTIVE",
           wf'[w].status = "ERROR" => wf[w].status = "ERROR" \/ Left(wf[w], deployed),
           exec'[w].on => Running(wf[w], exec'[w], deployed)
    PROVE  BInv'
<1>1. Branches(wf[w], exec[w], deployed) BY DEF BInv
<1>2. PICK r : r = wf[w] OBVIOUS
<1>3. PICK q : q = wf'[w] OBVIOUS
<1>4. q.begun = r.begun /\ q.from = r.from /\ q.journal = r.journal
  BY <1>2, <1>3 DEF SameOrigin
<1>5. /\ Left(q, deployed) = Left(r, deployed)
      /\ RowFits(q, deployed, deployed) = RowFits(r, deployed, deployed)
      /\ Unmixed(q.journal) = Unmixed(r.journal)
      /\ Running(q, exec'[w], deployed) = Running(r, exec'[w], deployed)
  BY <1>4 DEF Left, RowFits, Running
<1>6. Branches(q, exec'[w], deployed) BY <1>1, <1>2, <1>3, <1>4, <1>5 DEF Branches
<1> QED BY <1>2, <1>3, <1>4, <1>6, BranchesLocal

\* An execution that begins.
LEMMA BeginsRight ==
    ASSUME NEW v \in 1 .. 4, NEW j
    PROVE  Executes(j, Code[v], 0, v)
<1>1. \A t : Code[v] = t => Remains(Code[v], t, 0)
  <2>1. Code[v] \in Seq(Op) /\ Len(Code[v]) \in Nat BY CodeTyped
  <2> QED BY <2>1 DEF Remains
<1>2. \A t : Matched(j, 0, t) BY DEF Matched
<1>3. 0 < Split BY PartsAre DEF Split
<1>4. v = 1 => Code[v] = OldWay BY CodesAre
<1>5. v = 4 => Code[v] = NewWay BY CodesAre
<1> QED BY <1>1, <1>2, <1>3, <1>4, <1>5 DEF Executes, Walks, Ahead
LEMMA StartBranches == ASSUME IInv, EInv, BInv, NEW w \in Workflow, Start(w) PROVE BInv'
<1>1. /\ Local(w) /\ Begun(w) /\ wf[w].status = "ABSENT" /\ wf'[w].status = "ACTIVE"
      /\ wf'[w].begun = deployed /\ wf'[w].journal = wf[w].journal
      /\ wf'[w].from = wf[w].from
  BY StartDoes
<1>2. deployed \in 1 .. 4 BY CodeTyped DEF IInv, TypeInv
<1>3. wf[w].journal = <<>> /\ wf[w].from = Nil BY <1>1 DEF BInv, Branches
<1>4. ~(fork # Nil /\ fork.from = w) BY <1>1 DEF IInv, Forking
<1>5. Executes(<<>>, Code[deployed], 0, deployed) BY <1>2, BeginsRight
<1>6. Allowed(<<>>, deployed, deployed) BY <1>2, EmptyAllowed
<1>7. Unmixed(<<>>) BY DEF Unmixed
<1>8. PICK q : q = wf'[w] OBVIOUS
<1>9. PICK e : e = exec'[w] OBVIOUS
<1>10. /\ q.status = "ACTIVE" /\ q.begun = deployed /\ q.journal = <<>>
       /\ e.rest = Code[deployed] /\ e.fid = 0
  BY <1>1, <1>3, <1>8, <1>9 DEF Begun
<1>11. RowFits(q, deployed, deployed) BY <1>6, <1>10 DEF RowFits
<1>12. Running(q, e, deployed) BY <1>2, <1>5, <1>10, <1>11 DEF Running
<1>13. Branches(q, e, deployed) BY <1>2, <1>7, <1>10, <1>11, <1>12 DEF Branches
<1> QED BY <1>1, <1>4, <1>8, <1>9, <1>13, BranchesLocal

LEMMA ResumeBranches == ASSUME IInv, EInv, BInv, NEW w \in Workflow, Resume(w) PROVE BInv'
<1>1. Local(w) /\ Begun(w) /\ wf[w].status = "ACTIVE" /\ wf' = wf BY ResumeDoes
<1>2. deployed \in 1 .. 4 BY CodeTyped DEF IInv, TypeInv
<1>3. wf[w].begun \in 1 .. deployed /\ RowFits(wf[w], deployed, deployed)
  BY <1>1 DEF BInv, Branches
<1>4. Executes(wf[w].journal, Code[deployed], 0, deployed) BY <1>2, BeginsRight
<1>5. PICK e : e = exec'[w] OBVIOUS
<1>6. e.rest = Code[deployed] /\ e.fid = 0 BY <1>1, <1>5 DEF Begun
<1>7. Running(wf[w], e, deployed) BY <1>2, <1>3, <1>4, <1>6 DEF Running
<1>8. SameOrigin(wf'[w], wf[w]) BY <1>1 DEF SameOrigin
<1> QED BY <1>1, <1>5, <1>7, <1>8, BranchesRest

\* An execution that goes on, over what is recorded.
LEMMA MovesBranches ==
    ASSUME IInv, EInv, BInv, NEW w \in Workflow, exec[w].on, NEW after, NEW steps,
           Advance(w, after, steps), UNCHANGED <<backend, deployed, wf, fork>>,
           NEW v \in 1 .. deployed,
           wf[w].begun <= v, v < deployed => wf[w].begun = v /\ deployed = v + 1,
           RowFits(wf[w], v, deployed), Executes(wf[w].journal, after, exec[w].fid + steps, v)
    PROVE  BInv'
<1>1. /\ exec'[w].rest = after /\ exec'[w].fid = exec[w].fid + steps
      /\ \A u \in Workflow : u # w => exec'[u] = exec[u]
  BY AdvanceDoes
<1>2. Local(w) BY <1>1 DEF Local
<1>3. wf[w].status = "ACTIVE" BY Standing
<1>4. Running(wf[w], exec'[w], deployed) BY <1>1 DEF Running
<1>5. SameOrigin(wf'[w], wf[w]) BY DEF SameOrigin
<1> QED BY <1>2, <1>3, <1>4, <1>5, BranchesRest

LEMMA ReplaysOn ==
    ASSUME NEW rest \in Seq(Op), rest # <<>>, Head(rest).op \in PlainOps, NEW n \in Nat,
           NEW j, NEW v, Executes(j, rest, n, v), Len(j) \in Nat, n <= Len(j),
           SameName(j[n + 1], Head(rest))
    PROVE  Executes(j, Tail(rest), n + 1, v)
<1>1. PICK q : q = j OBVIOUS
<1>2. /\ Len(q) \in Nat /\ Len(j) <= Len(q) /\ \A k \in 1 .. Len(j) : q[k] = j[k]
      /\ (Marked(q) => Marked(j)) /\ SameName(q[n + 1], Head(rest))
  BY <1>1
<1>3. Executes(q, Tail(rest), n + 1, v) BY <1>2, ExecutesOn
<1> QED BY <1>1, <1>3

LEMMA ReplayBranches == ASSUME IInv, EInv, BInv, NEW w \in Workflow, Replay(w) PROVE BInv'
<1>1. PICK rest : rest = exec[w].rest OBVIOUS
<1>2. PICK n : n = exec[w].fid OBVIOUS
<1>3. PICK j : j = wf[w].journal OBVIOUS
<1>4. /\ exec[w].on /\ rest # <<>> /\ Head(rest).op \in PlainOps
      /\ Len(j) > n /\ SameName(j[n + 1], Head(rest))
      /\ Advance(w, Tail(rest), 1) /\ UNCHANGED <<backend, deployed, wf, fork>>
  BY <1>1, <1>2, <1>3 DEF Replay, At, Recorded, Entry, Skip, PlainOps, SameName
<1>5. /\ Running(wf[w], exec[w], deployed)
      /\ rest \in Seq(Op) /\ n \in Nat /\ n <= Len(j) /\ Len(j) \in Nat
  BY <1>1, <1>2, <1>3, <1>4, Standing
<1>6. PICK v \in 1 .. deployed :
         /\ wf[w].begun <= v /\ (v < deployed => wf[w].begun = v /\ deployed = v + 1)
         /\ Executes(j, rest, n, v) /\ RowFits(wf[w], v, deployed)
  BY <1>1, <1>2, <1>3, <1>5 DEF Running
<1>7. Executes(j, Tail(rest), n + 1, v) BY <1>4, <1>5, <1>6, ReplaysOn
<1> QED BY <1>2, <1>3, <1>4, <1>6, <1>7, MovesBranches

\* Only what was left behind fails.
LEMMA MismatchBranches == ASSUME IInv, EInv, BInv, NEW w \in Workflow, Mismatch(w) PROVE BInv'
<1>1. PICK rest : rest = exec[w].rest OBVIOUS
<1>2. PICK n : n = exec[w].fid OBVIOUS
<1>3. PICK r : r = wf[w] OBVIOUS
<1>4. PICK j : j = r.journal OBVIOUS
<1>5. /\ exec[w].on /\ rest # <<>> /\ Head(rest).op \in PlainOps
      /\ Len(j) > n /\ ~SameName(j[n + 1], Head(rest))
      /\ wf' = [wf EXCEPT ![w].status = "ERROR"] /\ exec' = [exec EXCEPT ![w] = NoExec]
      /\ UNCHANGED <<backend, deployed, fork>>
  BY <1>1, <1>2, <1>3, <1>4 DEF Mismatch, At, Recorded, Entry, PlainOps, SameName
<1>6. /\ Local(w) /\ wf'[w].status = "ERROR" /\ wf'[w].journal = wf[w].journal
      /\ SameOrigin(wf'[w], wf[w]) /\ ~exec'[w].on
  BY <1>5, EndsDoes
<1>7. /\ Running(r, exec[w], deployed) /\ r.status = "ACTIVE" /\ deployed \in 1 .. 4
      /\ r.begun \in 1 .. deployed
      /\ r.from # Nil \/ r.begun >= deployed - 1
      /\ rest \in Seq(Op) /\ n \in Nat /\ n <= Len(j) /\ Len(j) \in Nat
  BY <1>1, <1>2, <1>3, <1>4, <1>5, Standing
<1>8. ASSUME ~Left(r, deployed) PROVE FALSE
  <2>1. PICK v \in 1 .. deployed :
           /\ r.begun <= v /\ v - 1 <= r.begun
           /\ Executes(j, rest, n, v) /\ Allowed(j, r.begun, v)
    BY <1>1, <1>2, <1>4, <1>7, <1>8, RunsAs
  <2>2. PICK first : first = r.begun OBVIOUS
  <2>3. /\ v \in 1 .. 4 /\ first \in Nat /\ 1 <= first /\ v - 1 <= first /\ first <= v
        /\ Allowed(j, first, v)
    BY <1>7, <2>1, <2>2
  <2>4. PICK t \in Ways : /\ Fits(j, t) /\ n + 1 \in 1 .. Len(t)
                          /\ t[n + 1] = Head(rest)
    BY <1>5, <1>7, <2>1, <2>3, Follows
  <2>5. n + 1 \in 1 .. Len(j) BY <1>5, <1>7
  <2>6. SameName(j[n + 1], t[n + 1]) BY <2>4, <2>5 DEF Fits, SameName
  <2> QED BY <1>5, <2>4, <2>6
<1> QED BY <1>3, <1>6, <1>7, <1>8, BranchesRest

LEMMA FinishBranches == ASSUME IInv, EInv, BInv, NEW w \in Workflow, Finish(w) PROVE BInv'
<1>1. /\ exec[w].on /\ wf' = [wf EXCEPT ![w].status = "SUCCESS"]
      /\ exec' = [exec EXCEPT ![w] = NoExec] /\ UNCHANGED <<backend, deployed, fork>>
  BY DEF Finish
<1>2. /\ Local(w) /\ wf'[w].status = "SUCCESS" /\ wf'[w].journal = wf[w].journal
      /\ SameOrigin(wf'[w], wf[w]) /\ ~exec'[w].on
  BY <1>1, EndsDoes
<1>3. wf[w].status = "ACTIVE" BY <1>1, Standing
<1> QED BY <1>2, <1>3, BranchesRest

LEMMA CrashBranches == ASSUME IInv, EInv, BInv, NEW w \in Workflow, Crash(w) PROVE BInv'
<1>1. /\ Local(w) /\ wf'[w].status = wf[w].status /\ wf'[w].journal = wf[w].journal
      /\ SameOrigin(wf'[w], wf[w]) /\ exec[w].on /\ ~exec'[w].on
  BY CrashDoes
<1>2. wf[w].status = "ACTIVE" BY <1>1, Standing
<1> QED BY <1>1, <1>2, BranchesRest

LEMMA TakeEffectBranches ==
    ASSUME IInv, EInv, BInv, NEW w \in Workflow, TakeEffect(w)
    PROVE  BInv'
<1>1. /\ Local(w) /\ wf'[w].status = wf[w].status /\ wf'[w].journal = wf[w].journal
      /\ SameOrigin(wf'[w], wf[w])
      /\ exec'[w].rest = exec[w].rest /\ exec'[w].fid = exec[w].fid
  BY TakeEffectDoes
<1>2. exec[w].on BY DEF TakeEffect, At
<1>3. wf[w].status = "ACTIVE" /\ Running(wf[w], exec[w], deployed) BY <1>2, Standing
<1>4. Running(wf[w], exec'[w], deployed) BY <1>1, <1>3 DEF Running
<1> QED BY <1>1, <1>3, <1>4, BranchesRest

\* A row with one more step.
LEMMA BranchesRecord ==
    ASSUME IInv, EInv, BInv, NEW w \in Workflow, exec[w].on, Local(w),
           SameOrigin(wf'[w], wf[w]), wf'[w].status = wf[w].status,
           Unmixed(wf'[w].journal), NEW v \in 1 .. deployed,
           wf[w].begun <= v, v < deployed => wf[w].begun = v /\ deployed = v + 1,
           Left(wf[w], deployed) \/ Allowed(wf'[w].journal, wf[w].begun, v),
           Executes(wf'[w].journal, exec'[w].rest, exec'[w].fid, v)
    PROVE  BInv'
<1>1. /\ wf[w].status = "ACTIVE" /\ deployed \in 1 .. 4 /\ wf[w].begun \in 1 .. deployed
      /\ wf[w].from # Nil \/ wf[w].begun >= deployed - 1
  BY Standing
<1>2. PICK r : r = wf[w] OBVIOUS
<1>3. PICK q : q = wf'[w] OBVIOUS
<1>4. q.begun = r.begun /\ q.from = r.from /\ q.status = "ACTIVE"
  BY <1>1, <1>2, <1>3 DEF SameOrigin
<1>5. Left(q, deployed) = Left(r, deployed) BY <1>4 DEF Left
<1>6. RowFits(q, v, deployed) BY <1>2, <1>3, <1>4, <1>5 DEF RowFits
<1>7. RowFits(q, deployed, deployed)
  <2>1. r.begun \in Nat /\ v \in Nat /\ deployed \in Nat /\ v <= deployed BY <1>1, <1>2
  <2> QED BY <1>2, <1>3, <1>4, <1>5, <2>1, AllowedOn DEF RowFits
<1>8. Running(q, exec'[w], deployed) BY <1>2, <1>3, <1>4, <1>6 DEF Running
<1>9. Branches(q, exec'[w], deployed) BY <1>1, <1>2, <1>3, <1>4, <1>7, <1>8 DEF Branches
<1>10. wf'[w].begun = wf[w].begun BY <1>2, <1>3, <1>4
<1> QED BY <1>3, <1>9, <1>10, BranchesLocal

\* A plain operation is no marker.
LEMMA NotMarked ==
    ASSUME NEW j \in Seq(Noted), NEW e \in Noted, NEW q, q = Append(j, e), e.fn # "patch",
           Marked(q)
    PROVE  Marked(j)
<1>1. /\ Len(j) \in Nat /\ Len(q) = Len(j) + 1
      /\ \A k \in 1 .. Len(j) : q[k] = j[k]
      /\ q[Len(j) + 1] = e
  BY Appends
<1>2. Split \in Nat /\ Split >= 1 /\ Len(q) >= Split /\ q[Split].fn = "patch"
  BY PartsAre DEF Split, Marked
<1>3. Split # Len(j) + 1 BY <1>1, <1>2
<1>4. Split \in 1 .. Len(j) BY <1>1, <1>2, <1>3
<1> QED BY <1>1, <1>2, <1>4 DEF Marked

\* record_step_output, of an execution at the end of its journal.
LEMMA PlainRecords ==
    ASSUME NEW rest \in Seq(Op), rest # <<>>, Head(rest).op \in PlainOps,
           NEW j \in Seq(Noted), NEW e \in Noted, NEW q, q = Append(j, e),
           e.fn = Head(rest).op, e.branch = Head(rest).branch,
           NEW v \in 1 .. 4, NEW n, n = Len(j), Executes(j, rest, n, v)
    PROVE  /\ Executes(q, Tail(rest), n + 1, v)
           /\ Unmixed(j) /\ v \in {3, 4} => Unmixed(q)
           /\ \A first \in Nat :
                 1 <= first /\ v - 1 <= first /\ first <= v /\ Allowed(j, first, v)
                    => Allowed(q, first, v) /\ Unmixed(q)
<1>1. /\ Len(j) \in Nat /\ Len(q) = Len(j) + 1 /\ n \in Nat
      /\ \A k \in 1 .. Len(j) : q[k] = j[k]
      /\ q[Len(j) + 1] = e
  BY Appends
<1>2. e.fn # "patch" BY DEF PlainOps
<1>3. Executes(q, Tail(rest), n + 1, v)
  <2>1. SameName(q[n + 1], Head(rest)) BY <1>1 DEF SameName
  <2>2. Marked(q) => Marked(j) BY <1>2, NotMarked
  <2>3. Len(q) \in Nat /\ n <= Len(j) /\ Len(j) <= Len(q) BY <1>1
  <2> QED BY <1>1, <2>1, <2>2, <2>3, ExecutesOn
<1>4. ASSUME Unmixed(j), v \in {3, 4} PROVE Unmixed(q)
  <2>1. /\ Head(rest).branch # "old"
        /\ Head(rest).branch = "new" => \A k \in 1 .. Len(j) : j[k].branch # "old"
    BY <1>1, <1>4, NewStep
  <2> QED BY <1>4, <2>1, UnmixedOn
<1>5. ASSUME NEW first \in Nat, 1 <= first, v - 1 <= first, first <= v, Allowed(j, first, v)
      PROVE  Allowed(q, first, v) /\ Unmixed(q)
  <2>1. PICK t \in Ways : /\ MayWalk(t, first, v) /\ Fits(j, t)
                          /\ n + 1 \in 1 .. Len(t) /\ t[n + 1] = Head(rest)
    <3>1. n <= Len(j) BY <1>1
    <3> QED BY <1>1, <1>5, <3>1, Follows
  <2>2. Len(j) + 1 \in 1 .. Len(t) /\ e.fn = t[Len(j) + 1].op /\ e.branch = t[Len(j) + 1].branch
    BY <2>1
  <2>3. Fits(q, t) BY <2>1, <2>2, FitsOn
  <2>4. Len(q) \in Nat BY <1>1
  <2> QED BY <2>1, <2>3, <2>4, FitsUnmixed DEF Allowed
<1> QED BY <1>3, <1>4, <1>5

LEMMA CheckpointBranches ==
    ASSUME IInv, EInv, BInv, NEW w \in Workflow, Checkpoint(w)
    PROVE  BInv'
<1>1. PICK rest : rest = exec[w].rest OBVIOUS
<1>2. PICK n : n = exec[w].fid OBVIOUS
<1>3. PICK r : r = wf[w] OBVIOUS
<1>4. PICK j : j = r.journal OBVIOUS
<1>5. PICK e : e = Note(w, Head(rest).op, Head(rest).branch) OBVIOUS
<1>6. PICK q : q = Append(j, e) OBVIOUS
<1>7. /\ exec[w].on /\ rest # <<>> /\ Head(rest).op \in PlainOps /\ ~Recorded(w)
      /\ wf' = [wf EXCEPT ![w].journal = Append(wf[w].journal, e)]
      /\ Advance(w, Tail(exec[w].rest), 1) /\ UNCHANGED <<backend, deployed, fork>>
  BY <1>1, <1>5 DEF Checkpoint, At, Skip, PlainOps
<1>8. /\ Running(r, exec[w], deployed) /\ deployed \in 1 .. 4
      /\ r.begun \in 1 .. deployed /\ Unmixed(j) /\ j \in Seq(Noted)
      /\ r.from # Nil \/ r.begun >= deployed - 1
      /\ rest \in Seq(Op)
  BY <1>1, <1>3, <1>4, <1>7, Standing
<1>9. n = Len(j) BY <1>2, <1>3, <1>4, <1>7, AtEnd
<1>10. e \in Noted /\ e.fn = Head(rest).op /\ e.branch = Head(rest).branch
  <2>1. Head(rest) \in AnyPlain BY <1>1, <1>7, AtFacts DEF PlainOps
  <2> QED BY <1>5, <2>1 DEF AnyPlain, Plain, Noted, Note
<1>11. PICK after : after = Tail(rest) OBVIOUS
<1>12. PICK steps : steps = 1 OBVIOUS
<1>13. /\ Local(w) /\ wf'[w].status = wf[w].status /\ wf'[w].journal = q
       /\ SameOrigin(wf'[w], wf[w])
       /\ exec'[w].rest = after /\ exec'[w].fid = exec[w].fid + steps
  <2>1. Advance(w, after, steps) BY <1>1, <1>7, <1>11, <1>12
  <2>2. /\ wf' = [wf EXCEPT ![w].journal = Append(wf[w].journal, e)]
        /\ UNCHANGED <<backend, deployed, fork>>
    BY <1>7
  <2>3. /\ Local(w) /\ wf'[w].status = wf[w].status
        /\ wf'[w].journal = Append(wf[w].journal, e) /\ SameOrigin(wf'[w], wf[w])
    BY <2>1, <2>2, RecordsDoes
  <2>4. exec'[w].rest = after /\ exec'[w].fid = exec[w].fid + steps BY <2>1, AdvanceDoes, ZenonT(30)
  <2> QED BY <1>3, <1>4, <1>6, <2>3, <2>4
<1>14. PICK v \in 1 .. deployed :
          /\ r.begun <= v /\ (v < deployed => r.begun = v /\ deployed = v + 1)
          /\ Executes(j, rest, n, v)
          /\ \/ Left(r, deployed) /\ v \in {3, 4}
             \/ v - 1 <= r.begun /\ Allowed(j, r.begun, v)
  BY <1>1, <1>2, <1>4, <1>8, RunsAs
<1>15. PICK first : first = r.begun OBVIOUS
<1>16. v \in 1 .. 4 /\ first \in Nat /\ 1 <= first /\ first <= v BY <1>8, <1>14, <1>15
<1>17. Executes(q, after, n + 1, v)
  BY <1>6, <1>7, <1>8, <1>9, <1>10, <1>11, <1>14, <1>16, PlainRecords
<1>18. Unmixed(q) /\ (Left(r, deployed) \/ Allowed(q, first, v))
  <2>1. CASE Left(r, deployed) /\ v \in {3, 4}
    BY <1>6, <1>7, <1>8, <1>9, <1>10, <1>14, <1>16, <2>1, PlainRecords
  <2>2. CASE v - 1 <= first /\ Allowed(j, first, v)
    BY <1>6, <1>7, <1>8, <1>9, <1>10, <1>14, <1>16, <2>2, PlainRecords
  <2> QED BY <1>14, <1>15, <2>1, <2>2
<1> QED
  <2>1. Executes(wf'[w].journal, exec'[w].rest, exec'[w].fid, v)
    BY <1>2, <1>12, <1>13, <1>17
  <2> QED BY <1>3, <1>7, <1>13, <1>14, <1>15, <1>18, <2>1, BranchesRecord

\* The patched code takes the branch that is recorded, or records the new one.
LEMMA PatchTakes ==
    ASSUME NEW rest \in Seq(Op), rest # <<>>, Head(rest).op = "patch", NEW n \in Nat,
           NEW j \in Seq(Noted), n <= Len(j), NEW v, Executes(j, rest, n, v)
    PROVE  /\ v = 2
           /\ Len(j) > n /\ j[n + 1].fn = "patch"
                 => Executes(j, New \o Tail(rest), n + 1, v)
           /\ Len(j) > n /\ j[n + 1].fn # "patch" => Executes(j, Old \o Tail(rest), n, v)
           /\ ~(Len(j) > n) =>
                 \A e \in Noted : e.fn = "patch" /\ e.branch = "new" =>
                    /\ Executes(Append(j, e), New \o Tail(rest), n + 1, v)
                    /\ \A first \in {1, 2} : Allowed(j, first, 2) =>
                          Allowed(Append(j, e), first, 2) /\ Unmixed(Append(j, e))
<1>1. /\ v = 2 /\ n = Len(Before) /\ n + 1 = Split /\ Matched(j, n, Before)
      /\ Remains(Tail(rest), Code[2], Split)
  BY AtPatch
<1>2. Tail(rest) \in Seq(Op) BY HeadTailProperties
<1>3. /\ Remains(New \o Tail(rest), MarkedWay, Split)
      /\ Remains(Old \o Tail(rest), OldWay, n)
  BY <1>1, <1>2, TakesNew, TakesOld
<1>4. Split \in Nat /\ Len(j) \in Nat BY PartsAre DEF Split
<1>5. OldWay \in Ways /\ MarkedWay \in Ways BY DEF Ways
<1>6. Matched(j, n, OldWay) /\ Matched(j, n, MarkedWay)
  BY <1>1, OldWayIs, MarkedWayIs DEF Matched
<1>7. ASSUME NEW e, e.fn = "patch" PROVE SameName(e, MarkedWay[n + 1])
  BY <1>1, <1>7, MarkedWayOps DEF SameName
<1>8. ASSUME Len(j) > n, j[n + 1].fn = "patch"
      PROVE  Executes(j, New \o Tail(rest), n + 1, v)
  <2>1. PICK q : q = j OBVIOUS
  <2>2. Matched(q, n + 1, MarkedWay) BY <1>6, <1>7, <1>8, <2>1, MatchedOn
  <2> QED BY <1>1, <1>3, <1>4, <2>1, <2>2 DEF Executes, Walks
<1>9. ASSUME Len(j) > n, j[n + 1].fn # "patch"
      PROVE  Executes(j, Old \o Tail(rest), n, v)
  <2>1. Len(j) >= Split /\ ~Marked(j) BY <1>1, <1>4, <1>9 DEF Marked
  <2> QED BY <1>1, <1>3, <1>4, <1>6, <2>1 DEF Executes, Walks
<1>10. ASSUME ~(Len(j) > n), NEW e \in Noted, e.fn = "patch", e.branch = "new"
       PROVE  /\ Executes(Append(j, e), New \o Tail(rest), n + 1, v)
              /\ \A first \in {1, 2} : Allowed(j, first, 2) =>
                    Allowed(Append(j, e), first, 2) /\ Unmixed(Append(j, e))
  <2>1. PICK q : q = Append(j, e) OBVIOUS
  <2>2. n = Len(j) BY <1>4, <1>10
  <2>3. /\ Len(q) = Len(j) + 1 /\ \A k \in 1 .. Len(j) : q[k] = j[k]
        /\ q[Len(j) + 1] = e
    BY <2>1, Appends
  <2>4. Matched(q, n + 1, MarkedWay) BY <1>6, <1>7, <1>10, <2>2, <2>3, MatchedOn
  <2>5. Executes(q, New \o Tail(rest), n + 1, v)
    BY <1>1, <1>3, <1>4, <2>4 DEF Executes, Walks
  <2>6. ASSUME NEW first \in {1, 2}, Allowed(j, first, 2) PROVE Allowed(q, first, 2) /\ Unmixed(q)
    <3>1. PICK t \in Ways : Fits(j, t) BY <2>6 DEF Allowed
    <3>2. Len(j) < Split BY <1>1, <1>4, <2>2
    <3>3. Fits(j, MarkedWay) BY <1>4, <1>5, <3>1, <3>2, FitsBefore
    <3>4. /\ Len(j) + 1 \in 1 .. Len(MarkedWay)
          /\ e.fn = MarkedWay[Len(j) + 1].op /\ e.branch = MarkedWay[Len(j) + 1].branch
      BY <1>1, <1>4, <1>10, <2>2, PartsAre, MarkedWayIs, MarkedWayOps
    <3>5. Fits(q, MarkedWay) BY <2>1, <3>3, <3>4, FitsOn
    <3>6. MayWalk(MarkedWay, first, 2) BY <2>6 DEF MayWalk
    <3>7. Len(q) \in Nat BY <1>4, <2>3
    <3> QED BY <1>5, <3>5, <3>6, <3>7, FitsUnmixed DEF Allowed
  <2> QED BY <2>1, <2>5, <2>6
<1> QED BY <1>1, <1>8, <1>9, <1>10

LEMMA PatchBranches == ASSUME IInv, EInv, BInv, NEW w \in Workflow, Patch(w) PROVE BInv'
<1>1. PICK rest : rest = exec[w].rest OBVIOUS
<1>2. PICK n : n = exec[w].fid OBVIOUS
<1>3. PICK r : r = wf[w] OBVIOUS
<1>4. PICK j : j = r.journal OBVIOUS
<1>5. /\ exec[w].on /\ rest # <<>> /\ Head(rest).op = "patch"
      /\ UNCHANGED <<backend, deployed, fork>>
  BY <1>1 DEF Patch, At
<1>6. /\ Running(r, exec[w], deployed) /\ deployed \in 1 .. 4
      /\ r.begun \in 1 .. deployed /\ j \in Seq(Noted)
      /\ r.from # Nil \/ r.begun >= deployed - 1
      /\ rest \in Seq(Op) /\ n \in Nat /\ n <= Len(j)
  BY <1>1, <1>2, <1>3, <1>4, <1>5, Standing
<1>7. PICK v \in 1 .. deployed :
         /\ r.begun <= v /\ (v < deployed => r.begun = v /\ deployed = v + 1)
         /\ Executes(j, rest, n, v)
         /\ \/ Left(r, deployed) /\ v \in {3, 4}
            \/ v - 1 <= r.begun /\ Allowed(j, r.begun, v)
  BY <1>1, <1>2, <1>4, <1>6, RunsAs
<1>8. v = 2 BY <1>5, <1>6, <1>7, PatchTakes
<1>9. r.begun \in {1, 2} /\ Allowed(j, r.begun, 2) BY <1>6, <1>7, <1>8
<1>10. PICK steps : steps = 1 OBVIOUS
<1>11. PICK none : none = 0 OBVIOUS
<1>12. Recorded(w) <=> Len(j) > n BY <1>2, <1>3, <1>4 DEF Recorded
<1>13. Entry(w) = j[n + 1] BY <1>2, <1>3, <1>4 DEF Entry
<1>14. CASE Len(j) > n /\ j[n + 1].fn = "patch"
  <2>1. PICK after : after = New \o Tail(rest) OBVIOUS
  <2>2. Advance(w, after, steps) /\ wf' = wf
    BY <1>1, <1>10, <1>12, <1>13, <1>14, <2>1 DEF Patch, PatchOver
  <2>3. Executes(j, after, n + steps, v) BY <1>5, <1>6, <1>7, <1>10, <1>14, <2>1, PatchTakes
  <2>4. RowFits(wf[w], v, deployed) BY <1>3, <1>4, <1>8, <1>9 DEF RowFits
  <2> QED BY <1>2, <1>3, <1>4, <1>5, <1>7, <2>2, <2>3, <2>4, MovesBranches
<1>15. CASE Len(j) > n /\ j[n + 1].fn # "patch"
  <2>1. PICK after : after = Old \o Tail(rest) OBVIOUS
  <2>2. Advance(w, after, none) /\ wf' = wf
    BY <1>1, <1>11, <1>12, <1>13, <1>15, <2>1 DEF Patch, PatchOver
  <2>3. Executes(j, after, n + none, v) BY <1>5, <1>6, <1>7, <1>11, <1>15, <2>1, PatchTakes
  <2>4. RowFits(wf[w], v, deployed) BY <1>3, <1>4, <1>8, <1>9 DEF RowFits
  <2> QED BY <1>2, <1>3, <1>4, <1>5, <1>7, <2>2, <2>3, <2>4, MovesBranches
<1>16. CASE ~(Len(j) > n)
  <2>1. PICK after : after = New \o Tail(rest) OBVIOUS
  <2>2. PICK e : e = Note(w, "patch", "new") OBVIOUS
  <2>3. e \in Noted /\ e.fn = "patch" /\ e.branch = "new" BY <2>2 DEF Note, Noted
  <2>4. Advance(w, after, steps)
    BY <1>1, <1>10, <1>12, <1>16, <2>1 DEF Patch
  <2>5. wf' = [wf EXCEPT ![w].journal = Append(wf[w].journal, e)]
    BY <1>12, <1>16, <2>2 DEF Patch
  <2>6. /\ Local(w) /\ wf'[w].status = wf[w].status
        /\ wf'[w].journal = Append(wf[w].journal, e) /\ SameOrigin(wf'[w], wf[w])
    BY <1>5, <2>4, <2>5, RecordsDoes
  <2>7. exec'[w].rest = after /\ exec'[w].fid = exec[w].fid + steps BY <2>4, AdvanceDoes
  <2>8. /\ Executes(Append(j, e), after, n + 1, v)
        /\ Allowed(Append(j, e), r.begun, 2) /\ Unmixed(Append(j, e))
    BY <1>5, <1>6, <1>7, <1>9, <1>16, <2>1, <2>3, PatchTakes
  <2>9. Executes(wf'[w].journal, exec'[w].rest, exec'[w].fid, v)
    BY <1>2, <1>3, <1>4, <1>10, <2>6, <2>7, <2>8
  <2> QED BY <1>3, <1>4, <1>5, <1>7, <1>8, <2>6, <2>8, <2>9, BranchesRecord
<1> QED BY <1>14, <1>15, <1>16

\* The code that deprecates it uses up the marker, if there is one.
LEMMA DeprecationTakes ==
    ASSUME NEW rest \in Seq(Op), rest # <<>>, Head(rest).op = "deprecate", NEW n \in Nat,
           NEW j, Len(j) \in Nat, NEW v, Executes(j, rest, n, v)
    PROVE  Executes(j, Tail(rest),
                    n + (IF Len(j) > n /\ j[n + 1].fn = "patch" THEN 1 ELSE 0), v)
<1>1. /\ v = 3 /\ n = Len(Before) /\ n + 1 = Split /\ Matched(j, n, Before)
      /\ Remains(Tail(rest), Code[3], Split)
  BY AtDeprecation
<1>2. Tail(rest) \in Seq(Op) BY HeadTailProperties
<1>3. Remains(Tail(rest), MarkedWay, Split) /\ Remains(Tail(rest), NewWay, n)
  BY <1>1, <1>2, Deprecated
<1>4. Matched(j, n, NewWay) /\ Matched(j, n, MarkedWay)
  BY <1>1, NewWayIs, MarkedWayIs DEF Matched
<1>5. CASE Len(j) > n /\ j[n + 1].fn = "patch"
  <2>1. SameName(j[n + 1], MarkedWay[n + 1]) BY <1>1, <1>5, MarkedWayOps DEF SameName
  <2>2. PICK q : q = j OBVIOUS
  <2>3. Matched(q, n + 1, MarkedWay) BY <1>4, <2>1, <2>2, MatchedOn
  <2>4. Executes(j, Tail(rest), n + 1, v) BY <1>1, <1>3, <2>2, <2>3 DEF Executes, Walks
  <2> QED BY <1>5, <2>4
<1>6. CASE ~(Len(j) > n /\ j[n + 1].fn = "patch")
  <2>1. ~Marked(j) BY <1>1, <1>6 DEF Marked
  <2>2. Executes(j, Tail(rest), n, v) BY <1>1, <1>3, <1>4, <2>1 DEF Executes, Walks
  <2>3. n + 0 = n OBVIOUS
  <2> QED BY <1>6, <2>2, <2>3
<1> QED BY <1>5, <1>6

LEMMA DeprecatePatchBranches ==
    ASSUME IInv, EInv, BInv, NEW w \in Workflow, DeprecatePatch(w)
    PROVE  BInv'
<1>1. PICK rest : rest = exec[w].rest OBVIOUS
<1>2. PICK n : n = exec[w].fid OBVIOUS
<1>3. PICK j : j = wf[w].journal OBVIOUS
<1>4. PICK steps : steps = IF Len(j) > n /\ j[n + 1].fn = "patch" THEN 1 ELSE 0 OBVIOUS
<1>5. /\ exec[w].on /\ rest # <<>> /\ Head(rest).op = "deprecate"
      /\ Advance(w, Tail(rest), steps) /\ UNCHANGED <<backend, deployed, wf, fork>>
  BY <1>1, <1>2, <1>3, <1>4 DEF DeprecatePatch, At, Recorded, Entry
<1>6. /\ Running(wf[w], exec[w], deployed)
      /\ rest \in Seq(Op) /\ n \in Nat /\ Len(j) \in Nat
  BY <1>1, <1>2, <1>3, <1>5, Standing
<1>7. PICK v \in 1 .. deployed :
         /\ wf[w].begun <= v /\ (v < deployed => wf[w].begun = v /\ deployed = v + 1)
         /\ Executes(j, rest, n, v) /\ RowFits(wf[w], v, deployed)
  BY <1>1, <1>2, <1>3, <1>6 DEF Running
<1>8. Executes(j, Tail(rest), n + steps, v) BY <1>4, <1>5, <1>6, <1>7, DeprecationTakes
<1> QED BY <1>2, <1>3, <1>5, <1>7, <1>8, MovesBranches

-----------------------------------------------------------------------------
(* Deployments and forks keep to the branches.                             *)

\* With a later version deployed, a journal fits if it did.
LEMMA RowFitsOn ==
    ASSUME NEW r, NEW d \in Nat, r.begun \in Nat, NEW v \in Nat, NEW u \in Nat, v <= u,
           RowFits(r, v, d)
    PROVE  RowFits(r, u, d + 1)
<1>1. CASE Left(r, d) BY <1>1 DEF Left, RowFits
<1>2. CASE Allowed(r.journal, r.begun, v)
  <2>1. PICK first \in Nat : first = r.begun OBVIOUS
  <2>2. Allowed(r.journal, first, v) BY <1>2, <2>1
  <2>3. Allowed(r.journal, first, u) BY <2>2, AllowedOn
  <2> QED BY <2>1, <2>3 DEF RowFits
<1> QED BY <1>1, <1>2 DEF RowFits

LEMMA DeployBranches == ASSUME IInv, EInv, BInv, Deploy PROVE BInv'
<1>1. /\ deployed' = deployed + 1 /\ UNCHANGED <<wf, exec, fork>>
      /\ \A w \in Workflow : wf[w].status = "ACTIVE" => wf[w].begun >= deployed
  BY DEF Deploy
<1>2. PICK d : d = deployed OBVIOUS
<1>3. d \in 1 .. 4 BY <1>2, CodeTyped DEF IInv, TypeInv
<1>4. ASSUME NEW w \in Workflow PROVE Branches(wf[w], exec[w], d + 1)
  <2>1. PICK r : r = wf[w] OBVIOUS
  <2>2. PICK e : e = exec[w] OBVIOUS
  <2>3. Branches(r, e, d) BY <1>2, <2>1, <2>2 DEF BInv
  <2> SUFFICES Branches(r, e, d + 1) BY <2>1, <2>2
  <2>4. CASE r.status = "ABSENT" BY <2>3, <2>4 DEF Branches
  <2>5. CASE r.status # "ABSENT"
    <3>1. /\ r.begun \in 1 .. d /\ RowFits(r, d, d) /\ Unmixed(r.journal)
          /\ r.status = "ERROR" => Left(r, d)
          /\ e.on => Running(r, e, d)
      BY <2>3, <2>5 DEF Branches
    <3>2. RowFits(r, d + 1, d + 1)
      <4>1. r.begun \in Nat /\ d \in Nat /\ d + 1 \in Nat /\ d <= d + 1 BY <1>3, <3>1
      <4> QED BY <3>1, <4>1, RowFitsOn
    <3>3. r.status = "ERROR" => Left(r, d + 1) BY <1>3, <3>1 DEF Left
    <3>4. r.status = "ACTIVE" => r.begun = d BY <1>1, <1>2, <1>3, <2>1, <3>1
    <3>5. e.on => Running(r, e, d + 1)
      <4> SUFFICES ASSUME e.on PROVE Running(r, e, d + 1) OBVIOUS
      <4>1. r.begun = d BY <2>1, <2>2, <3>4 DEF EInv, Executing
      <4>2. PICK v \in 1 .. d : /\ r.begun <= v /\ Executes(r.journal, e.rest, e.fid, v)
                                /\ RowFits(r, v, d)
        BY <3>1 DEF Running
      <4>3. v = d BY <1>3, <4>1, <4>2
      <4>4. RowFits(r, d, d + 1)
        <5>1. r.begun \in Nat /\ d \in Nat /\ d <= d BY <1>3, <4>1
        <5> QED BY <3>1, <5>1, RowFitsOn
      <4>5. d \in 1 .. d + 1 /\ (d < d + 1 => r.begun = d /\ d + 1 = d + 1) BY <1>3, <4>1
      <4> QED BY <4>1, <4>2, <4>3, <4>4, <4>5 DEF Running
    <3> QED BY <1>3, <2>5, <3>1, <3>2, <3>3, <3>4, <3>5 DEF Branches
  <2> QED BY <2>4, <2>5
<1>5. ASSUME fork # Nil
      PROVE  /\ fork.row.begun = wf[fork.from].begun
             /\ RowFits(fork.row, d + 1, d + 1) /\ Unmixed(fork.row.journal)
  <2>1. PICK r : r = fork.row OBVIOUS
  <2>2. r.begun = wf[fork.from].begun /\ RowFits(r, d, d) /\ Unmixed(r.journal)
    BY <1>2, <1>5, <2>1 DEF BInv, ForkBranches
  <2>3. fork.from \in Workflow /\ wf[fork.from].status # "ABSENT"
    BY <1>5 DEF IInv, TypeInv, ForkOK, Forking
  <2>4. wf[fork.from].begun \in 1 .. d BY <1>2, <2>3 DEF BInv, Branches
  <2>5. r.begun \in Nat /\ d \in Nat /\ d + 1 \in Nat /\ d <= d + 1 BY <1>3, <2>2, <2>4
  <2>6. RowFits(r, d + 1, d + 1) BY <2>2, <2>5, RowFitsOn
  <2> QED BY <2>1, <2>2, <2>6
<1>6. deployed' = d + 1 BY <1>1, <1>2
<1>7. ForkBranches' BY <1>1, <1>5, <1>6 DEF ForkBranches
<1> QED BY <1>1, <1>4, <1>6, <1>7 DEF BInv

\* What is copied to a fork fits as the original does.
LEMMA CopyFits ==
    ASSUME IInv, BInv, NEW o \in Workflow, wf[o].status # "ABSENT", NEW s \in Nat,
           NEW r, r.from = o, r.begun = wf[o].begun,
           r.journal = <<>> \/ r.journal = CopyJournal(o, s)
    PROVE  /\ r.begun \in 1 .. deployed /\ r.from # Nil
           /\ RowFits(r, deployed, deployed) /\ Unmixed(r.journal)
<1>1. PICK d : d = deployed OBVIOUS
<1>2. d \in 1 .. 4 BY <1>1, CodeTyped DEF IInv, TypeInv
<1>3. PICK j : j = wf[o].journal OBVIOUS
<1>4. /\ wf[o].begun \in 1 .. d /\ RowFits(wf[o], d, d) /\ Unmixed(j)
  BY <1>1, <1>3 DEF BInv, Branches
<1>5. r.from # Nil /\ (Left(wf[o], d) => Left(r, d)) BY CodeAssumption DEF Left
<1>6. PICK q : q = r.journal OBVIOUS
<1>7. /\ Len(j) \in Nat /\ Len(q) \in Nat /\ Len(q) <= Len(j)
      /\ \A k \in 1 .. Len(q) : q[k] = j[k]
  <2>1. j \in Seq(Noted) /\ Len(j) \in Nat /\ DOMAIN j = 1 .. Len(j)
    BY <1>3 DEF IInv, TypeInv, RowOK
  <2>2. CASE q = <<>> BY <2>1, <2>2
  <2>3. CASE q = CopyJournal(o, s)
    <3>1. TypeInv BY DEF IInv
    <3>2. /\ q \in Seq(Noted)
          /\ \A k \in DOMAIN q : k \in DOMAIN j /\ q[k] = j[k]
      BY <1>3, <2>3, <3>1, JournalCopied
    <3>3. Len(q) \in Nat /\ DOMAIN q = 1 .. Len(q) BY <3>2
    <3>4. Len(q) = 0 \/ Len(q) \in DOMAIN q BY <3>3
    <3>5. Len(q) <= Len(j) BY <2>1, <3>2, <3>3, <3>4
    <3> QED BY <2>1, <3>2, <3>3, <3>5
  <2> QED BY <1>6, <2>2, <2>3
<1>8. Unmixed(q) BY <1>4, <1>7, UnmixedPrefix
<1>9. RowFits(r, d, d)
  <2>1. CASE Left(wf[o], d) BY <1>5, <2>1 DEF RowFits
  <2>2. CASE Allowed(j, r.begun, d)
    <3>1. PICK first : first = r.begun OBVIOUS
    <3>2. Allowed(j, first, d) BY <2>2, <3>1
    <3>3. Allowed(q, first, d) BY <1>7, <3>2, AllowedPrefix
    <3> QED BY <1>6, <3>1, <3>3 DEF RowFits
  <2> QED BY <1>3, <1>4, <2>1, <2>2 DEF RowFits
<1> QED BY <1>1, <1>4, <1>5, <1>6, <1>8, <1>9

\* The row of a fork.
LEMMA CommitBranches ==
    ASSUME IInv, BInv, NEW f \in Workflow, wf[f].status = "ABSENT", NEW q,
           wf' = [wf EXCEPT ![f] = q], UNCHANGED <<deployed, exec>>, fork' = Nil,
           q.status = "ACTIVE", q.from # Nil, q.begun \in 1 .. deployed,
           RowFits(q, deployed, deployed), Unmixed(q.journal)
    PROVE  BInv'
<1>1. wf'[f] = q /\ \A u \in Workflow : u # f => wf'[u] = wf[u] BY DEF IInv, TypeInv
<1>2. ~exec[f].on BY DEF IInv
<1>3. Branches(q, exec[f], deployed) BY <1>2 DEF Branches
<1>4. ASSUME NEW u \in Workflow PROVE Branches(wf'[u], exec[u], deployed)
  <2>1. CASE u = f BY <1>1, <1>3, <2>1
  <2>2. CASE u # f BY <1>1, <2>2 DEF BInv
  <2> QED BY <2>1, <2>2
<1>5. ForkBranches' BY DEF ForkBranches
<1> QED BY <1>4, <1>5 DEF BInv

LEMMA ForkAtOnceBranches ==
    ASSUME IInv, EInv, BInv, NEW o \in Workflow, NEW f \in Workflow, NEW s \in Starts,
           ForkAtOnce(o, f, s)
    PROVE  BInv'
<1>1. s \in Nat /\ TypeInv BY CodeAssumption DEF IInv
<1>2. PICK r : r = ForkRow(o, s) OBVIOUS
<1>3. PICK j : j = CopyJournal(o, s) OBVIOUS
<1>4. PICK h : h = CopyHistory(o, s) OBVIOUS
<1>5. PICK e : e = CopyEvent(o, s) OBVIOUS
<1>6. PICK t : t = CopyStream(o, s) OBVIOUS
<1>7. PICK q : q = [r EXCEPT !.journal = j, !.history = h, !.event = e, !.stream = t]
  OBVIOUS
<1>8. /\ wf' = [wf EXCEPT ![f] = q] /\ UNCHANGED <<deployed, exec>> /\ fork' = fork
      /\ backend = "sqlite" /\ wf[o].status # "ABSENT" /\ wf[f].status = "ABSENT"
  BY <1>2, <1>3, <1>4, <1>5, <1>6, <1>7, Zenon DEF ForkAtOnce, MayFork
<1>9. fork' = Nil BY <1>8 DEF IInv, Forking
<1>10. DOMAIN r = Fields /\ r.begun = wf[o].begun /\ r.from = o /\ r.status = "ACTIVE"
  BY <1>1, <1>2, ForkRowDoes, ForkRowOK
<1>11. q.journal = j /\ q.begun = r.begun /\ q.from = r.from /\ q.status = r.status
  BY <1>7, <1>10 DEF Fields
<1>12. /\ q.begun \in 1 .. deployed /\ q.from # Nil
       /\ RowFits(q, deployed, deployed) /\ Unmixed(q.journal)
  BY <1>1, <1>3, <1>8, <1>10, <1>11, CopyFits
<1> QED BY <1>8, <1>9, <1>10, <1>11, <1>12, CommitBranches

\* The rows stay, a fork goes on.
LEMMA ForkOnBranches ==
    ASSUME BInv, UNCHANGED <<deployed, wf, exec>>, ForkBranches'
    PROVE  BInv'
BY DEF BInv

LEMMA BeginForkBranches ==
    ASSUME IInv, EInv, BInv, NEW o \in Workflow, NEW f \in Workflow, NEW s \in Starts,
           BeginFork(o, f, s)
    PROVE  BInv'
<1>1. PICK r : r = ForkRow(o, s) OBVIOUS
<1>2. PICK q : q = [r EXCEPT !.journal = <<>>] OBVIOUS
<1>3. /\ fork' = [from |-> o, to |-> f, next |-> "journal", row |-> q]
      /\ wf[o].status # "ABSENT" /\ UNCHANGED <<deployed, wf, exec>>
  BY <1>1, <1>2, Zenon DEF BeginFork, MayFork
<1>4. DOMAIN r = Fields /\ r.begun = wf[o].begun /\ r.from = o BY <1>1, ForkRowDoes
<1>5. q.begun = wf[o].begun /\ q.from = o /\ q.journal = <<>> BY <1>2, <1>4 DEF Fields
<1>6. s \in Nat BY CodeAssumption
<1>7. RowFits(q, deployed, deployed) /\ Unmixed(q.journal)
  BY <1>3, <1>5, <1>6, CopyFits
<1>8. fork'.from = o /\ fork'.row = q BY <1>3
<1>9. ForkBranches' BY <1>3, <1>5, <1>7, <1>8 DEF ForkBranches
<1> QED BY <1>3, <1>9, ForkOnBranches

LEMMA CopyNextBranches == ASSUME IInv, EInv, BInv, CopyNext PROVE BInv'
<1>1. fork # Nil /\ fork.next # "commit" /\ UNCHANGED <<deployed, wf, exec>> BY DEF CopyNext
<1>2. PICK o, f, n, r : fork = [from |-> o, to |-> f, next |-> n, row |-> r]
  BY <1>1 DEF IInv, TypeInv, ForkOK
<1>3. fork.from = o /\ fork.next = n /\ fork.row = r BY <1>2
<1>4. RowOK(r) /\ n \in Stage /\ o \in Workflow /\ wf[o].status # "ABSENT" /\ r.from = o
  BY <1>1, <1>3 DEF IInv, TypeInv, ForkOK, Forking
<1>5. r.begun = wf[o].begun /\ RowFits(r, deployed, deployed) /\ Unmixed(r.journal)
  BY <1>1, <1>3 DEF BInv, ForkBranches
<1>6. PICK s : s = r.start OBVIOUS
<1>7. s \in Nat BY <1>4, <1>6 DEF RowOK
<1>8. ASSUME NEW m, NEW q, fork' = [from |-> o, to |-> f, next |-> m, row |-> q],
             q.begun = r.begun, RowFits(q, deployed, deployed), Unmixed(q.journal)
      PROVE  BInv'
  <2>1. fork'.from = o /\ fork'.row = q BY <1>8
  <2>2. ForkBranches' BY <1>1, <1>5, <1>8, <2>1 DEF ForkBranches
  <2> QED BY <1>1, <2>2, ForkOnBranches
<1>9. CASE n = "journal"
  <2>1. PICK x : x = CopyJournal(o, s) OBVIOUS
  <2>2. PICK q : q = [r EXCEPT !.journal = x] OBVIOUS
  <2>3. fork' = [from |-> o, to |-> f, next |-> "history", row |-> q]
    BY <1>2, <1>6, <1>9, <2>1, <2>2, Zenon DEF CopyNext
  <2>4. q.journal = x /\ q.begun = r.begun /\ q.from = r.from BY <1>4, <2>2, AllFields
  <2>5. RowFits(q, deployed, deployed) /\ Unmixed(q.journal)
    BY <1>4, <1>5, <1>7, <2>1, <2>4, CopyFits
  <2> QED BY <1>8, <2>3, <2>4, <2>5
<1>10. ASSUME NEW m, NEW q, fork' = [from |-> o, to |-> f, next |-> m, row |-> q],
              q.begun = r.begun, q.from = r.from, q.journal = r.journal
       PROVE  BInv'
  <2>1. RowFits(q, deployed, deployed) /\ Unmixed(q.journal)
    BY <1>5, <1>10 DEF RowFits, Left
  <2> QED BY <1>8, <1>10, <2>1
<1>11. CASE n = "history"
  <2>1. PICK x : x = CopyHistory(o, s) OBVIOUS
  <2>2. PICK q : q = [r EXCEPT !.history = x] OBVIOUS
  <2>3. fork' = [from |-> o, to |-> f, next |-> "event", row |-> q]
    BY <1>2, <1>6, <1>11, <2>1, <2>2, Zenon DEF CopyNext
  <2>4. q.begun = r.begun /\ q.from = r.from /\ q.journal = r.journal
    BY <1>4, <2>2, AllFields
  <2> QED BY <1>10, <2>3, <2>4
<1>12. CASE n = "event"
  <2>1. PICK x : x = CopyEvent(o, s) OBVIOUS
  <2>2. PICK q : q = [r EXCEPT !.event = x] OBVIOUS
  <2>3. fork' = [from |-> o, to |-> f, next |-> "stream", row |-> q]
    BY <1>2, <1>6, <1>12, <2>1, <2>2, Zenon DEF CopyNext
  <2>4. q.begun = r.begun /\ q.from = r.from /\ q.journal = r.journal
    BY <1>4, <2>2, AllFields
  <2> QED BY <1>10, <2>3, <2>4
<1>13. CASE n = "stream"
  <2>1. PICK x : x = CopyStream(o, s) OBVIOUS
  <2>2. PICK q : q = [r EXCEPT !.stream = x] OBVIOUS
  <2>3. fork' = [from |-> o, to |-> f, next |-> "commit", row |-> q]
    BY <1>2, <1>6, <1>13, <2>1, <2>2, Zenon DEF CopyNext
  <2>4. q.begun = r.begun /\ q.from = r.from /\ q.journal = r.journal
    BY <1>4, <2>2, AllFields
  <2> QED BY <1>10, <2>3, <2>4
<1> QED BY <1>1, <1>3, <1>4, <1>9, <1>11, <1>12, <1>13 DEF Stage

LEMMA CommitForkBranches == ASSUME IInv, EInv, BInv, CommitFork PROVE BInv'
<1>1. /\ fork # Nil /\ fork' = Nil /\ UNCHANGED <<deployed, exec>>
      /\ wf' = [wf EXCEPT ![fork.to] =
                   [fork.row EXCEPT !.torn = fork.row.torn \/ wf[fork.from].torn]]
  BY DEF CommitFork
<1>2. PICK r : r = fork.row OBVIOUS
<1>3. PICK o \in Workflow : o = fork.from BY <1>1 DEF IInv, TypeInv, ForkOK
<1>4. PICK f \in Workflow : f = fork.to BY <1>1 DEF IInv, TypeInv, ForkOK
<1>5. PICK x : x = (r.torn \/ wf[o].torn) OBVIOUS
<1>6. PICK q : q = [r EXCEPT !.torn = x] OBVIOUS
<1>7. wf' = [wf EXCEPT ![f] = q] BY <1>1, <1>2, <1>3, <1>4, <1>5, <1>6, Zenon
<1>8. /\ RowOK(r) /\ wf[f].status = "ABSENT" /\ wf[o].status # "ABSENT"
      /\ r.status = "ACTIVE" /\ r.from = o
  BY <1>1, <1>2, <1>3, <1>4 DEF IInv, TypeInv, ForkOK, Forking
<1>9. q.journal = r.journal /\ q.begun = r.begun /\ q.from = r.from /\ q.status = r.status
  BY <1>6, <1>8, AllFields
<1>10. r.begun = wf[o].begun /\ RowFits(r, deployed, deployed) /\ Unmixed(r.journal)
  BY <1>1, <1>2, <1>3 DEF BInv, ForkBranches
<1>11. RowFits(q, deployed, deployed) /\ Unmixed(q.journal)
  BY <1>9, <1>10 DEF RowFits, Left
<1>12. q.begun \in 1 .. deployed /\ q.from # Nil
  BY <1>8, <1>9, <1>10, CodeAssumption DEF BInv, Branches
<1> QED BY <1>1, <1>7, <1>8, <1>9, <1>11, <1>12, CommitBranches

LEMMA InitBranches == Init => BInv
<1> SUFFICES ASSUME Init PROVE BInv OBVIOUS
<1>1. wf = [w \in Workflow |-> NoWorkflow] /\ fork = Nil BY DEF Init
<1>2. NoWorkflow.status = "ABSENT" /\ NoWorkflow.journal = <<>> /\ NoWorkflow.from = Nil
  BY DEF NoWorkflow
<1>3. \A w \in Workflow : Branches(wf[w], exec[w], deployed) BY <1>1, <1>2 DEF Branches
<1> QED BY <1>1, <1>3 DEF BInv, ForkBranches

LEMMA NextBranches == IInv /\ EInv /\ BInv /\ [Next]_vars => BInv'
<1> SUFFICES ASSUME IInv, EInv, BInv, [Next]_vars PROVE BInv' OBVIOUS
<1>1. CASE UNCHANGED vars
  <2>1. UNCHANGED <<deployed, wf, exec, fork>> BY <1>1 DEF vars
  <2>2. ForkBranches' BY <2>1 DEF BInv, ForkBranches
  <2> QED BY <2>1, <2>2, ForkOnBranches
<1>2. ASSUME NEW w \in Workflow,
             \/ Start(w) \/ Resume(w) \/ Replay(w) \/ Mismatch(w) \/ TakeEffect(w)
             \/ Checkpoint(w) \/ Patch(w) \/ DeprecatePatch(w) \/ Finish(w) \/ Crash(w)
      PROVE  BInv'
  BY <1>2, StartBranches, ResumeBranches, ReplayBranches, MismatchBranches,
     TakeEffectBranches, CheckpointBranches, PatchBranches, DeprecatePatchBranches,
     FinishBranches, CrashBranches
<1>3. ASSUME NEW o \in Workflow, NEW f \in Workflow, NEW s \in Starts,
             ForkAtOnce(o, f, s) \/ BeginFork(o, f, s)
      PROVE  BInv'
  BY <1>3, ForkAtOnceBranches, BeginForkBranches
<1> QED BY <1>1, <1>2, <1>3, DeployBranches, CopyNextBranches, CommitForkBranches DEF Next

\* A workflow, or a fork with what it took over, keeps to one branch of the
\* patch through all crashes, recoveries and deployments (patch,
\* deprecate_patch, fork_workflow).
THEOREM BranchesAreKept == Spec => []OneBranch
<1>1. BInv /\ IInv => OneBranch
  <2> SUFFICES ASSUME BInv, IInv, NEW w \in Workflow, NEW i \in DOMAIN wf[w].journal,
                      NEW k \in DOMAIN wf[w].journal,
                      {wf[w].journal[i].branch, wf[w].journal[k].branch} = {"old", "new"}
               PROVE  FALSE
    BY DEF OneBranch
  <2>1. PICK j : j = wf[w].journal OBVIOUS
  <2>2. j \in Seq(Noted) BY <2>1 DEF IInv, TypeInv, RowOK
  <2>3. i \in 1 .. Len(j) /\ k \in 1 .. Len(j) BY <2>1, <2>2
  <2>4. wf[w].status # "ABSENT" BY <2>1, <2>3 DEF BInv, Branches
  <2>5. Unmixed(j) BY <2>1, <2>4 DEF BInv, Branches
  <2>6. \/ j[i].branch = "old" /\ j[k].branch = "new"
        \/ j[i].branch = "new" /\ j[k].branch = "old"
    BY <2>1
  <2> QED BY <2>3, <2>5, <2>6 DEF Unmixed
<1> QED
  BY <1>1, InitHolds, NextHolds, InitShows, NextShows, InitBranches, NextBranches, PTL
     DEF Spec

\* While the patched code is deployed no workflow fails to replay; later only
\* forks of workflows that began before may (validate_recorded_step).
THEOREM PatchedReplaysFit == Spec => []ReplaysFit
<1>1. BInv => ReplaysFit BY DEF BInv, Branches, Left, ReplaysFit
<1> QED
  BY <1>1, InitHolds, NextHolds, InitShows, NextShows, InitBranches, NextBranches, PTL
     DEF Spec
=============================================================================
