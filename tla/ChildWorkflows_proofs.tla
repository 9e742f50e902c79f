------------------------- MODULE ChildWorkflows_proofs -------------------------
(***************************************************************************)
(* Proofs about child workflows: whose child is whose (ChildOfItsStep),    *)
(* how many are left over (OrphansBounded) and what a parent's success     *)
(* says of its children (SuccessNeedsChildren), for any bodies, processes, *)
(* recoveries, cancellations, deletions and crashes.                       *)
(*                                                                         *)
(* Each execution is at an operation of its body, with as many steps in    *)
(* the journal as there are calls before it; and what it may still leave   *)
(* over is counted before it does.                                         *)
(***************************************************************************)
EXTENDS ChildWorkflows, SequenceTheorems, FiniteSetTheorems, TLAPS

Status == Terminal \cup {"PENDING", "DELETED"}
Row == [status : Status, name : Name, exe : Process, parent : Nat \cup {Nil},
        kids : Seq(Nat), runs : Nat]
Frame == [id : Nat, pc : Nat, steps : Nat,
          at : {"body", "checkpoint", "calling", "failed"}, child : Nat \cup {Nil}]
Task == [stack : Seq(Frame), todo : SUBSET Nat]

TypeInv ==
    /\ rows \in Seq(Row)
    /\ state \in [Process -> {"off", "launching", "up"}]
    /\ task \in [Process -> [Slot -> Task]]
    /\ doomed \in [ids : SUBSET Nat, queue : SUBSET Nat]
    /\ faults \in Nat
    /\ good \subseteq Id

\* All calls of a body.
Calls(n) == CallsBefore(n, Len(Body[n]) + 1)

\* The i-th child a journal names.
ChildOK(w, i) ==
    LET c == rows[w].kids[i] IN
    /\ c \in Id /\ rows[c].parent = w
    /\ \E k \in DOMAIN Body[rows[w].name] :
          /\ Body[rows[w].name][k] = [op |-> "call", name |-> rows[c].name]
          /\ CallsBefore(rows[w].name, k) = i - 1
    /\ \A j \in DOMAIN rows[w].kids : rows[w].kids[j] = c => i = j

\* A row that says SUCCESS has called all it calls.
SuccessOK(w) ==
    rows[w].status = "SUCCESS" =>
       /\ w \in good /\ Len(rows[w].kids) = Calls(rows[w].name)
       /\ Awaiting(rows[w].name) => Range(rows[w].kids) \subseteq good

\* A row and its journal.
RowOK(w) ==
    /\ rows[w].parent # Nil => rows[w].parent \in 1 .. w - 1
    /\ Deleted(w) => rows[w].kids = <<>>
    /\ \A i \in DOMAIN rows[w].kids : ChildOK(w, i)
    /\ SuccessOK(w)

\* The child called last, which is to be awaited next.
Awaited(f, i) ==
    /\ i = f.steps /\ rows[f.id].kids[i] = f.child
    /\ f.at = "body" /\ f.pc > 1 /\ Body[rows[f.id].name][f.pc - 1].op = "call"

\* The children an execution has behind it.
Behind(f) ==
    /\ f.steps <= Len(rows[f.id].kids)
    /\ f.at = "calling" =>
          f.steps < Len(rows[f.id].kids) /\ rows[f.id].kids[f.steps + 1] = f.child
    /\ Awaiting(rows[f.id].name) /\ f.at # "failed" =>
          \A i \in 1 .. f.steps : rows[f.id].kids[i] \in good \/ Awaited(f, i)

\* The child it is about to name or to execute is that of its operation.
InCall(f) ==
    /\ f.pc <= Len(Body[rows[f.id].name])
    /\ f.child \in Id /\ rows[f.child].parent = f.id
    /\ Body[rows[f.id].name][f.pc] = [op |-> "call", name |-> rows[f.child].name]

\* An execution.
FrameOK(f) ==
    /\ f.id \in Id
    /\ f.pc \in 1 .. Len(Body[rows[f.id].name]) + 1
    /\ f.steps = CallsBefore(rows[f.id].name, f.pc)
    /\ f.child \in Id \cup {Nil}
    /\ f.at \in {"checkpoint", "calling"} => InCall(f)
    /\ ~Deleted(f.id) => Behind(f)

\* A stack: each execution but the last one is in the call of the next.
StackOK(st) ==
    /\ \A k \in 1 .. Len(st) : FrameOK(st[k])
    /\ \A k \in 1 .. Len(st) - 1 : st[k].at = "calling" /\ st[k].child = st[k + 1].id
    /\ st # <<>> => st[Len(st)].at # "calling"

\* A task is between the row of a child and the checkpoint.
Between(p, s) == Busy(p, s) /\ Top(p, s).at = "checkpoint"

\* The child is nobody else's, and named nowhere.
Fresh(p, s) ==
    /\ Top(p, s).child \notin Range(rows[Top(p, s).id].kids)
    /\ \A q \in Process, r \in Slot :
          Between(q, r) /\ Top(q, r).child = Top(p, s).child => q = p /\ r = s

\* The orphans of w, and its executions that may still end well or leave one.
Orphans(w) == {c \in Id : Orphan(c) /\ rows[c].parent = w}
Place == Process \X Slot \X Nat
Lives(f, w) == f.id = w /\ f.at \in {"body", "calling"}
Live(w) ==
    {x \in Place : /\ x[3] \in 1 .. Len(task[x[1]][x[2]].stack)
                   /\ Lives(task[x[1]][x[2]].stack[x[3]], w)}

\* What an execution may still leave over is counted already.
Counts(w) ==
    ~Deleted(w) =>
       Cardinality(Orphans(w)) + (IF w \in good THEN 1 ELSE 0) + Cardinality(Live(w))
          <= rows[w].runs

RowsInv == \A w \in Id : RowOK(w)
TaskInv ==
    \A p \in Process, s \in Slot :
       /\ StackOK(task[p][s].stack)
       /\ task[p][s].todo \subseteq Id
       /\ Between(p, s) => Fresh(p, s)
CountInv == \A w \in Id : IsFiniteSet(Live(w)) /\ Counts(w)

IInv == TypeInv /\ RowsInv /\ TaskInv /\ CountInv
-----------------------------------------------------------------------------
(* Calls of a body.                                                        *)

LEMMA CallsType ==
    ASSUME NEW n \in Name, NEW k \in Nat
    PROVE  /\ CallsBefore(n, k) \in Nat
           /\ IsFiniteSet({j \in 1 .. k - 1 : Body[n][j].op = "call"})
<1>1. IsFiniteSet(1 .. k - 1) BY FS_Interval
<1>2. IsFiniteSet({j \in 1 .. k - 1 : Body[n][j].op = "call"}) BY <1>1, FS_Subset
<1> QED BY <1>2, FS_CardinalityType DEF CallsBefore

LEMMA CallsStart == ASSUME NEW n \in Name PROVE CallsBefore(n, 1) = 0
<1>1. {j \in 1 .. 1 - 1 : Body[n][j].op = "call"} = {} OBVIOUS
<1> QED BY <1>1, FS_EmptySet DEF CallsBefore

LEMMA CallsStep ==
    ASSUME NEW n \in Name, NEW k \in Nat \ {0}
    PROVE  CallsBefore(n, k + 1) =
              IF Body[n][k].op = "call" THEN CallsBefore(n, k) + 1 ELSE CallsBefore(n, k)
<1> DEFINE S(i) == {j \in 1 .. i - 1 : Body[n][j].op = "call"}
<1>1. IsFiniteSet(S(k)) BY CallsType
<1>2. k \notin S(k) OBVIOUS
<1>3. CASE Body[n][k].op = "call"
  <2>1. S(k + 1) = S(k) \cup {k} BY <1>3
  <2>2. Cardinality(S(k) \cup {k}) = Cardinality(S(k)) + 1 BY <1>1, <1>2, FS_AddElement
  <2> QED BY <2>1, <2>2, <1>3 DEF CallsBefore
<1>4. CASE Body[n][k].op # "call"
  <2>1. S(k + 1) = S(k) BY <1>4
  <2> QED BY <2>1, <1>4 DEF CallsBefore
<1> QED BY <1>3, <1>4

LEMMA CallsMonotone ==
    ASSUME NEW n \in Name, NEW j \in Nat, NEW k \in Nat, j <= k
    PROVE  CallsBefore(n, j) <= CallsBefore(n, k)
<1> DEFINE S(i) == {h \in 1 .. i - 1 : Body[n][h].op = "call"}
<1>1. IsFiniteSet(S(k)) BY CallsType
<1>2. S(j) \subseteq S(k) OBVIOUS
<1>3. Cardinality(S(j)) <= Cardinality(S(k)) BY <1>1, <1>2, FS_Subset
<1> QED BY <1>3 DEF CallsBefore

\* An operation, and what a call looks like.
LEMMA OpFacts ==
    ASSUME NEW n \in Name, NEW k \in Nat, k >= 1, k <= Len(Body[n])
    PROVE  /\ Body[n] \in Seq(Ops) /\ Body[n][k] \in Ops
           /\ Body[n][k].op = "call" =>
                 /\ Body[n][k].name \in Name
                 /\ Body[n][k] = [op |-> "call", name |-> Body[n][k].name]
<1>1. Body[n] \in Seq(Ops) BY ChildAssumption
<1>2. k \in DOMAIN Body[n] BY <1>1
<1>3. Body[n][k] \in Ops BY <1>1, <1>2
<1> QED BY <1>1, <1>3 DEF Ops

LEMMA LenBody == ASSUME NEW n \in Name PROVE Len(Body[n]) \in Nat /\ Body[n] \in Seq(Ops)
<1>1. Body[n] \in Seq(Ops) BY ChildAssumption
<1> QED BY <1>1
-----------------------------------------------------------------------------
(* Stacks.                                                                 *)

\* It returns.
LEMMA PopTop ==
    ASSUME NEW st \in Seq(Frame), st # <<>>, NEW q, q = Front(st)
    PROVE  /\ q \in Seq(Frame) /\ Len(q) = Len(st) - 1
           /\ \A k \in 1 .. Len(st) - 1 : q[k] = st[k]
<1>1. Len(st) \in Nat /\ Len(st) >= 1 BY EmptySeq
<1>2. \A i \in 1 .. Len(st) - 1 : st[i] \in Frame BY <1>1, ElementOfSeq
<1>3. Len(st) - 1 \in Int BY <1>1
<1>4. q = SubSeq(st, 1, Len(st) - 1) BY DEF Front
<1>5. q \in Seq(Frame)
  <2>1. SubSeq(st, 1, Len(st) - 1) \in Seq(Frame) BY <1>2, <1>3, SubSeqProperties
  <2> QED BY <2>1, <1>4
<1>6. /\ Len(q) = IF 1 <= Len(st) - 1 THEN Len(st) - 1 - 1 + 1 ELSE 0
      /\ \A k \in 1 .. Len(st) - 1 - 1 + 1 : q[k] = st[1 + k - 1]
  BY <1>2, <1>3, <1>4, SubSeqProperties
<1>7. Len(q) = Len(st) - 1
  <2>1. PICK l \in Nat : l = Len(st) /\ l >= 1 BY <1>1
  <2>2. Len(q) = IF 1 <= l - 1 THEN l - 1 - 1 + 1 ELSE 0 BY <1>6, <2>1
  <2>3. (IF 1 <= l - 1 THEN l - 1 - 1 + 1 ELSE 0) = l - 1 BY <2>1
  <2> QED BY <2>1, <2>2, <2>3
<1>8. ASSUME NEW k \in 1 .. Len(st) - 1 PROVE q[k] = st[k]
  <2>1. k \in 1 .. Len(st) - 1 - 1 + 1 /\ 1 + k - 1 = k BY <1>1
  <2>2. q[k] = st[1 + k - 1] BY <2>1, <1>6
  <2> QED BY <2>1, <2>2
<1> QED BY <1>5, <1>7, <1>8

\* The top execution goes on.
LEMMA ReplaceTop ==
    ASSUME NEW st \in Seq(Frame), st # <<>>, NEW g \in Frame,
           NEW q, q = Append(Front(st), g)
    PROVE  /\ q \in Seq(Frame) /\ Len(q) = Len(st) /\ q # <<>>
           /\ \A k \in 1 .. Len(st) - 1 : q[k] = st[k]
           /\ q[Len(st)] = g
<1>1. Len(st) \in Nat /\ Len(st) >= 1 BY EmptySeq
<1>3. PICK t : t = Front(st) OBVIOUS
<1>5. t \in Seq(Frame) /\ Len(t) = Len(st) - 1 /\ \A k \in 1 .. Len(st) - 1 : t[k] = st[k]
  BY <1>3, PopTop
<1>6. /\ q \in Seq(Frame) /\ Len(q) = Len(t) + 1
      /\ \A k \in 1 .. Len(t) : q[k] = t[k]
      /\ q[Len(t) + 1] = g
  BY <1>3, <1>5, AppendProperties
<1>7. Len(t) = Len(st) - 1 /\ Len(t) + 1 = Len(st) BY <1>1, <1>5
<1>8. q # <<>> BY <1>1, <1>6, <1>7, EmptySeq
<1> QED BY <1>5, <1>6, <1>7, <1>8

\* It calls.
LEMMA PushTop ==
    ASSUME NEW st \in Seq(Frame), st # <<>>, NEW g \in Frame, NEW h \in Frame,
           NEW q, q = Append(Append(Front(st), g), h)
    PROVE  /\ q \in Seq(Frame) /\ Len(q) = Len(st) + 1 /\ q # <<>>
           /\ \A k \in 1 .. Len(st) - 1 : q[k] = st[k]
           /\ q[Len(st)] = g /\ q[Len(st) + 1] = h
<1>1. Len(st) \in Nat /\ Len(st) >= 1 BY EmptySeq
<1>0. PICK u : u = Front(st) OBVIOUS
<1>2. PICK t : t = Append(u, g) OBVIOUS
<1>6. u \in Seq(Frame) /\ Len(u) = Len(st) - 1 /\ \A k \in 1 .. Len(st) - 1 : u[k] = st[k]
  BY <1>0, PopTop
<1>7. /\ t \in Seq(Frame) /\ Len(t) = Len(u) + 1
      /\ \A k \in 1 .. Len(u) : t[k] = u[k]
      /\ t[Len(u) + 1] = g
  BY <1>2, <1>6, AppendProperties
<1>3. /\ t \in Seq(Frame) /\ Len(t) = Len(st)
      /\ \A k \in 1 .. Len(st) - 1 : t[k] = st[k]
      /\ t[Len(st)] = g
  BY <1>1, <1>6, <1>7
<1>4. /\ q \in Seq(Frame) /\ Len(q) = Len(t) + 1
      /\ \A k \in 1 .. Len(t) : q[k] = t[k]
      /\ q[Len(t) + 1] = h
  BY <1>0, <1>2, <1>3, AppendProperties, SMTT(30)
<1>5. q # <<>> BY <1>1, <1>3, <1>4, EmptySeq
<1> QED BY <1>1, <1>3, <1>4, <1>5

\* The only execution of its task.
LEMMA OneFrame ==
    ASSUME NEW g \in Frame, NEW q, q = <<g>>
    PROVE  q \in Seq(Frame) /\ Len(q) = 1 /\ q # <<>> /\ q[1] = g
OBVIOUS
-----------------------------------------------------------------------------
(* Rows only grow, unless they are deleted; what is said of an execution   *)
(* stays true.                                                             *)

Grown ==
    /\ Len(rows) <= Len(rows')
    /\ good \subseteq good'
    /\ \A w \in Id :
          /\ rows'[w].name = rows[w].name /\ rows'[w].parent = rows[w].parent
          /\ rows'[w].status # "DELETED" =>
                /\ rows[w].status # "DELETED"
                /\ Len(rows[w].kids) <= Len(rows'[w].kids)
                /\ \A i \in 1 .. Len(rows[w].kids) : rows'[w].kids[i] = rows[w].kids[i]

LEMMA RowType ==
    ASSUME TypeInv, NEW w \in Id
    PROVE  /\ rows[w] \in Row /\ w \in Nat /\ Len(rows) \in Nat
           /\ Len(rows[w].kids) \in Nat /\ DOMAIN rows[w].kids = 1 .. Len(rows[w].kids)
           /\ rows[w].kids \in Seq(Nat)
<1>1. rows \in Seq(Row) BY DEF TypeInv
<1>2. rows[w] \in Row /\ w \in Nat /\ Len(rows) \in Nat BY <1>1, ElementOfSeq, LenProperties DEF Id
<1>3. rows[w].kids \in Seq(Nat) BY <1>2 DEF Row
<1> QED BY <1>2, <1>3, LenProperties

LEMMA IdGrown ==
    ASSUME TypeInv, TypeInv', Grown
    PROVE  /\ Id \subseteq Id'
<1>1. Len(rows) \in Nat BY LenProperties DEF TypeInv
<1>2. Len(rows') \in Nat BY LenProperties DEF TypeInv
<1> QED BY <1>1, <1>2 DEF Grown, Id

LEMMA FrameGrown ==
    ASSUME TypeInv, TypeInv', Grown, NEW f \in Frame, FrameOK(f)
    PROVE  FrameOK(f)'
<1>1. f.id \in Id /\ f.id \in Id' BY IdGrown DEF FrameOK
<1>2. rows'[f.id].name = rows[f.id].name BY <1>1 DEF Grown
<1>3. PICK n : n = rows[f.id].name OBVIOUS
<1>4. f.pc \in 1 .. Len(Body[n]) + 1 /\ f.steps = CallsBefore(n, f.pc)
  BY <1>3 DEF FrameOK
<1>5. f.child \in Id' \cup {Nil} BY IdGrown DEF FrameOK
<1>6. ASSUME f.at \in {"checkpoint", "calling"} PROVE InCall(f)'
  <2>1. InCall(f) BY <1>6 DEF FrameOK
  <2>2. f.child \in Id /\ f.child \in Id' BY <2>1, IdGrown DEF InCall
  <2>3. rows'[f.child].name = rows[f.child].name /\ rows'[f.child].parent = rows[f.child].parent
    BY <2>2 DEF Grown
  <2> QED BY <2>1, <2>2, <2>3, <1>2 DEF InCall
<1>7. ASSUME ~Deleted(f.id)' PROVE Behind(f)'
  <2>1. rows'[f.id].status # "DELETED" BY <1>7 DEF Deleted
  <2>2. /\ ~Deleted(f.id)
        /\ Len(rows[f.id].kids) <= Len(rows'[f.id].kids)
        /\ \A i \in 1 .. Len(rows[f.id].kids) : rows'[f.id].kids[i] = rows[f.id].kids[i]
    BY <1>1, <2>1 DEF Grown, Deleted
  <2>3. Behind(f) BY <2>2 DEF FrameOK
  <2>4. f.steps \in Nat BY DEF Frame
  <2>5. Len(rows[f.id].kids) \in Nat /\ Len(rows'[f.id].kids) \in Nat
    <3>1. Len(rows[f.id].kids) \in Nat BY <1>1, RowType
    <3>2. rows' \in Seq(Row) BY DEF TypeInv
    <3>3. rows'[f.id] \in Row BY <1>1, <3>2, ElementOfSeq DEF Id
    <3> QED BY <3>1, <3>3, LenProperties DEF Row
  <2>6. f.steps <= Len(rows'[f.id].kids) BY <2>2, <2>3, <2>4, <2>5, SMTT(60) DEF Behind
  <2>7. ASSUME f.at = "calling"
        PROVE  f.steps < Len(rows'[f.id].kids) /\ rows'[f.id].kids[f.steps + 1] = f.child
    <3>1. f.steps < Len(rows[f.id].kids) /\ rows[f.id].kids[f.steps + 1] = f.child
      BY <2>3, <2>7 DEF Behind
    <3>2. f.steps + 1 \in 1 .. Len(rows[f.id].kids) BY <3>1, <2>4, <2>5
    <3> QED BY <3>1, <3>2, <2>2, <2>4, <2>5, SMTT(60)
  <2>8. ASSUME Awaiting(rows'[f.id].name), f.at # "failed", NEW i \in 1 .. f.steps
        PROVE  rows'[f.id].kids[i] \in good' \/ Awaited(f, i)'
    <3>1. rows[f.id].kids[i] \in good \/ Awaited(f, i) BY <2>3, <2>8, <1>2 DEF Behind
    <3>2. f.steps <= Len(rows[f.id].kids) BY <2>3 DEF Behind
    <3>3. i \in 1 .. Len(rows[f.id].kids) BY <3>2, <2>4, <2>5
    <3>4. rows'[f.id].kids[i] = rows[f.id].kids[i] BY <3>3, <2>2
    <3> QED BY <3>1, <3>4, <1>2 DEF Awaited, Grown
  <2> QED BY <2>6, <2>7, <2>8 DEF Behind
<1> QED BY <1>1, <1>2, <1>3, <1>4, <1>5, <1>6, <1>7 DEF FrameOK

LEMMA StackGrown ==
    ASSUME TypeInv, TypeInv', Grown, NEW st \in Seq(Frame), StackOK(st)
    PROVE  StackOK(st)'
<1>1. ASSUME NEW k \in 1 .. Len(st) PROVE FrameOK(st[k])'
  <2>1. st[k] \in Frame BY ElementOfSeq
  <2>2. FrameOK(st[k]) BY DEF StackOK
  <2> QED BY <2>1, <2>2, FrameGrown
<1> QED BY <1>1 DEF StackOK

LEMMA NoStack == StackOK(<<>>) /\ StackOK(<<>>)'
BY DEF StackOK

\* One execution goes on, and those it has called return.
LEMMA StackCut ==
    ASSUME NEW st \in Seq(Frame), StackOK(st)', NEW m \in 1 .. Len(st),
           NEW g \in Frame, FrameOK(g)', g.at # "calling", g.id = st[m].id,
           NEW q \in Seq(Frame), Len(q) = m, \A k \in 1 .. m - 1 : q[k] = st[k], q[m] = g
    PROVE  StackOK(q)'
<1>1. PICK l \in Nat : l = Len(st) BY LenProperties
<1>2. m \in Nat /\ m >= 1 /\ m <= l BY <1>1
<1>3. ASSUME NEW k \in 1 .. m PROVE FrameOK(q[k])'
  <2>1. CASE k = m BY <2>1
  <2>2. CASE k # m
    <3>1. k \in 1 .. m - 1 /\ k \in 1 .. l BY <2>2, <1>2
    <3>2. q[k] = st[k] BY <3>1
    <3>3. FrameOK(st[k])' BY <3>1, <1>1 DEF StackOK
    <3> QED BY <3>2, <3>3
  <2> QED BY <2>1, <2>2
<1>4. ASSUME NEW k \in 1 .. m - 1 PROVE q[k].at = "calling" /\ q[k].child = q[k + 1].id
  <2>1. q[k] = st[k] OBVIOUS
  <2>2. k \in 1 .. l - 1 BY <1>2
  <2>3. st[k].at = "calling" /\ st[k].child = st[k + 1].id BY <2>2, <1>1 DEF StackOK
  <2>4. q[k + 1].id = st[k + 1].id
    <3>1. CASE k + 1 = m BY <3>1
    <3>2. CASE k + 1 # m
      <4>1. k + 1 \in 1 .. m - 1 BY <3>2, <1>2
      <4> QED BY <4>1
    <3> QED BY <3>1, <3>2
  <2> QED BY <2>1, <2>3, <2>4
<1> QED BY <1>2, <1>3, <1>4 DEF StackOK

\* The top of a stack calls.
LEMMA StackPushed ==
    ASSUME NEW st \in Seq(Frame), st # <<>>, StackOK(st)',
           NEW g \in Frame, FrameOK(g)', g.at = "calling", g.id = st[Len(st)].id,
           NEW h \in Frame, FrameOK(h)', h.at # "calling", g.child = h.id,
           NEW q, q = Append(Append(Front(st), g), h)
    PROVE  StackOK(q)'
<1>1. /\ q \in Seq(Frame) /\ Len(q) = Len(st) + 1
      /\ \A k \in 1 .. Len(st) - 1 : q[k] = st[k]
      /\ q[Len(st)] = g /\ q[Len(st) + 1] = h
  <2>1. q \in Seq(Frame) BY PushTop
  <2>2. Len(q) = Len(st) + 1 BY PushTop, SMTT(60)
  <2>3. q[Len(st)] = g BY PushTop, SMTT(60)
  <2>4. q[Len(st) + 1] = h BY PushTop, SMTT(60)
  <2>5. \A k \in 1 .. Len(st) - 1 : q[k] = st[k] BY PushTop, SMTT(60)
  <2> QED BY <2>1, <2>2, <2>3, <2>4, <2>5
<1>2. PICK l \in Nat : l = Len(st) /\ l >= 1 BY EmptySeq
<1>3. ASSUME NEW k \in 1 .. l + 1 PROVE FrameOK(q[k])'
  <2>1. CASE k = l BY <2>1, <1>1, <1>2
  <2>2. CASE k = l + 1 BY <2>2, <1>1, <1>2
  <2>3. CASE k # l /\ k # l + 1
    <3>1. k \in 1 .. l - 1 BY <2>3, <1>2
    <3>2. q[k] = st[k] BY <3>1, <1>1, <1>2
    <3>3. FrameOK(st[k])' BY <3>1, <1>2 DEF StackOK
    <3> QED BY <3>2, <3>3
  <2> QED BY <2>1, <2>2, <2>3
<1>4. ASSUME NEW k \in 1 .. l PROVE q[k].at = "calling" /\ q[k].child = q[k + 1].id
  <2>1. CASE k = l BY <2>1, <1>1, <1>2
  <2>2. CASE k # l
    <3>1. k \in 1 .. l - 1 BY <2>2, <1>2
    <3>2. q[k] = st[k] BY <3>1, <1>1, <1>2
    <3>3. st[k].at = "calling" /\ st[k].child = st[k + 1].id BY <3>1, <1>2 DEF StackOK
    <3>4. q[k + 1].id = st[k + 1].id
      <4>1. CASE k + 1 = l BY <4>1, <1>1, <1>2
      <4>2. CASE k + 1 # l
        <5>1. k + 1 \in 1 .. l - 1 BY <3>1, <4>2, <1>2
        <5> QED BY <5>1, <1>1, <1>2
      <4> QED BY <4>1, <4>2
    <3> QED BY <3>2, <3>3, <3>4
  <2> QED BY <2>1, <2>2
<1>5. Len(q) - 1 = l /\ q[Len(q)] = h BY <1>1, <1>2
<1> QED BY <1>1, <1>2, <1>3, <1>4, <1>5 DEF StackOK
-----------------------------------------------------------------------------
(* Tasks.                                                                  *)

\* A stack is a sequence of executions, the top of which is at work.
LEMMA StackType ==
    ASSUME TypeInv, NEW p \in Process, NEW s \in Slot
    PROVE  /\ task[p][s] \in Task /\ task[p][s].stack \in Seq(Frame)
           /\ task[p][s].todo \subseteq Nat /\ Len(task[p][s].stack) \in Nat
<1>1. task[p][s] \in Task BY DEF TypeInv
<1> QED BY <1>1, LenProperties DEF Task

LEMMA TopFacts ==
    ASSUME TypeInv, TaskInv, NEW p \in Process, NEW s \in Slot, Busy(p, s)
    PROVE  /\ Top(p, s) = task[p][s].stack[Len(task[p][s].stack)]
           /\ Len(task[p][s].stack) \in Nat \ {0}
           /\ Top(p, s) \in Frame /\ FrameOK(Top(p, s)) /\ Top(p, s).at # "calling"
<1>1. task[p][s].stack \in Seq(Frame) /\ task[p][s].stack # <<>>
  BY StackType DEF Busy
<1>2. Len(task[p][s].stack) \in Nat \ {0} BY <1>1, EmptySeq
<1>3. Top(p, s) = task[p][s].stack[Len(task[p][s].stack)] BY DEF Top, Last
<1>4. Len(task[p][s].stack) \in 1 .. Len(task[p][s].stack) BY <1>2
<1>5. Top(p, s) \in Frame BY <1>1, <1>3, <1>4, ElementOfSeq
<1>6. StackOK(task[p][s].stack) BY DEF TaskInv
<1>7. FrameOK(Top(p, s)) /\ Top(p, s).at # "calling" BY <1>1, <1>3, <1>4, <1>6 DEF StackOK
<1> QED BY <1>2, <1>3, <1>5, <1>7

LEMMA EmptyRange == Range(<<>>) = {}
<1>1. <<>> \in Seq(Nat) /\ Len(<<>>) = 0 BY EmptySeq
<1>2. PICK q \in Seq(Nat) : q = <<>> /\ Len(q) = 0 BY <1>1
<1>3. Range(q) = {q[i] : i \in 1 .. Len(q)} BY RangeEquality
<1> QED BY <1>2, <1>3

\* Stacks stay or end, journals stay or are deleted.
LEMMA TaskKept ==
    ASSUME TypeInv, TypeInv', Grown, TaskInv,
           \A q \in Process, r \in Slot :
              /\ task'[q][r].stack = task[q][r].stack \/ task'[q][r].stack = <<>>
              /\ task'[q][r].todo \subseteq Id',
           \A w \in Id : rows'[w].kids = rows[w].kids \/ rows'[w].kids = <<>>
    PROVE  TaskInv'
<1> SUFFICES ASSUME NEW p \in Process, NEW s \in Slot
             PROVE  StackOK(task[p][s].stack)' /\ (Between(p, s) => Fresh(p, s))'
  BY DEF TaskInv
<1>1. StackOK(task[p][s].stack)'
  <2>1. PICK st : st = task'[p][s].stack OBVIOUS
  <2>2. StackOK(st)'
    <3>1. CASE st = <<>> BY <3>1, NoStack
    <3>2. CASE st = task[p][s].stack
      <4>1. st \in Seq(Frame) BY <3>2, StackType
      <4>2. StackOK(st) BY <3>2 DEF TaskInv
      <4> QED BY <4>1, <4>2, StackGrown
    <3> QED BY <2>1, <3>1, <3>2
  <2> QED BY <2>1, <2>2 DEF StackOK
<1>2. ASSUME NEW q \in Process, NEW r \in Slot, Between(q, r)'
      PROVE  Between(q, r) /\ Top(q, r)' = Top(q, r)
  <2>1. task'[q][r].stack = task[q][r].stack BY <1>2 DEF Between, Busy
  <2> QED BY <1>2, <2>1 DEF Between, Busy, Top
<1>3. ASSUME Between(p, s)' PROVE Fresh(p, s)'
  <2>1. Between(p, s) /\ Top(p, s)' = Top(p, s) BY <1>2, <1>3
  <2>2. Fresh(p, s) BY <2>1 DEF TaskInv
  <2>3. Top(p, s).id \in Id BY <2>1, TopFacts DEF Between, FrameOK
  <2>4. PICK i, c : i = Top(p, s).id /\ c = Top(p, s).child /\ i \in Id BY <2>3
  <2>5. c \notin Range(rows'[i].kids)
    <3>1. c \notin Range(rows[i].kids) BY <2>2, <2>4 DEF Fresh
    <3>2. rows'[i].kids = rows[i].kids \/ rows'[i].kids = <<>> BY <2>4
    <3> QED BY <3>1, <3>2, EmptyRange
  <2>6. ASSUME NEW q \in Process, NEW r \in Slot, Between(q, r)', Top(q, r)'.child = c
        PROVE  q = p /\ r = s
    <3>1. Between(q, r) /\ Top(q, r)' = Top(q, r) BY <1>2, <2>6
    <3> QED BY <2>2, <2>4, <2>6, <3>1 DEF Fresh
  <2> QED BY <2>1, <2>4, <2>5, <2>6 DEF Fresh
<1> QED BY <1>1, <1>3

\* The other stacks stay, and so do the children they have not named.
OthersStay(p, s) ==
    \A q \in Process, r \in Slot :
       q # p \/ r # s =>
          /\ task'[q][r].stack = task[q][r].stack
          /\ Between(q, r) => Top(q, r).child \notin Range(rows'[Top(q, r).id].kids)

\* The top of the new stack has a child of its own.
TopFresh(p, s, st) ==
    st # <<>> /\ st[Len(st)].at = "checkpoint" =>
       /\ st[Len(st)].child \notin Range(rows'[st[Len(st)].id].kids)
       /\ \A q \in Process, r \in Slot :
             Between(q, r) /\ (q # p \/ r # s) => Top(q, r).child # st[Len(st)].child

ListsOK == \A q \in Process, r \in Slot : task'[q][r].todo \subseteq Id'

\* One stack changes.
LEMMA TaskOne ==
    ASSUME TypeInv, TypeInv', Grown, TaskInv, NEW p \in Process, NEW s \in Slot,
           NEW st \in Seq(Frame), StackOK(st)',
           TopFresh(p, s, st), task'[p][s].stack = st, OthersStay(p, s), ListsOK
    PROVE  TaskInv'
<1> USE DEF OthersStay, ListsOK
<1>1. ASSUME NEW q \in Process, NEW r \in Slot PROVE StackOK(task[q][r].stack)'
  <2>1. PICK u : u = task'[q][r].stack OBVIOUS
  <2>2. StackOK(u)'
    <3>1. CASE q = p /\ r = s BY <2>1, <3>1
    <3>2. CASE q # p \/ r # s
      <4>1. u = task[q][r].stack BY <2>1, <3>2
      <4>2. u \in Seq(Frame) BY <4>1, StackType
      <4>3. StackOK(u) BY <4>1 DEF TaskInv
      <4> QED BY <4>2, <4>3, StackGrown
    <3> QED BY <3>1, <3>2
  <2> QED BY <2>1, <2>2 DEF StackOK
<1>2. ASSUME NEW q \in Process, NEW r \in Slot, Between(q, r)', q # p \/ r # s
      PROVE  Between(q, r) /\ Top(q, r)' = Top(q, r)
  <2>1. task'[q][r].stack = task[q][r].stack BY <1>2
  <2> QED BY <1>2, <2>1 DEF Between, Busy, Top
<1>4. ASSUME Between(p, s)'
      PROVE  /\ Top(p, s)' = st[Len(st)] /\ st # <<>>
             /\ st[Len(st)].at = "checkpoint"
  <2>1. st # <<>> /\ Top(p, s)' = st[Len(st)] BY <1>4 DEF Between, Busy, Top, Last
  <2> QED BY <1>4, <2>1 DEF Between
<1>3. ASSUME NEW q \in Process, NEW r \in Slot, Between(q, r)' PROVE Fresh(q, r)'
  <2>1. CASE q = p /\ r = s
    <3>1. PICK t : t = st[Len(st)] OBVIOUS
    <3>2. Top(p, s)' = t BY <1>3, <1>4, <2>1, <3>1
    <3>3. t.child \notin Range(rows'[t.id].kids)
      BY <1>3, <1>4, <2>1, <3>1 DEF TopFresh
    <3>4. ASSUME NEW o \in Process, NEW u \in Slot, Between(o, u)', Top(o, u)'.child = t.child
          PROVE  o = p /\ u = s
      <4> SUFFICES ASSUME o # p \/ u # s PROVE FALSE OBVIOUS
      <4>1. Between(o, u) /\ Top(o, u)' = Top(o, u) BY <1>2, <3>4
      <4> QED BY <1>3, <1>4, <2>1, <3>1, <3>4, <4>1 DEF TopFresh
    <3> QED BY <2>1, <3>2, <3>3, <3>4 DEF Fresh
  <2>2. CASE q # p \/ r # s
    <3>1. Between(q, r) /\ Top(q, r)' = Top(q, r) BY <1>2, <1>3, <2>2
    <3>2. Fresh(q, r) BY <3>1 DEF TaskInv
    <3>3. PICK i, c : i = Top(q, r).id /\ c = Top(q, r).child OBVIOUS
    <3>4. c \notin Range(rows'[i].kids) BY <2>2, <3>1, <3>3
    <3>5. ASSUME NEW o \in Process, NEW u \in Slot, Between(o, u)', Top(o, u)'.child = c
          PROVE  o = q /\ u = r
      <4>1. CASE o = p /\ u = s
        <5>1. Top(o, u)' = st[Len(st)] /\ st # <<>> /\ st[Len(st)].at = "checkpoint"
          BY <1>4, <3>5, <4>1
        <5> QED BY <2>2, <3>1, <3>3, <3>5, <5>1 DEF TopFresh
      <4>2. CASE o # p \/ u # s
        <5>1. Between(o, u) /\ Top(o, u)' = Top(o, u) BY <1>2, <3>5, <4>2
        <5> QED BY <3>2, <3>3, <3>5, <5>1 DEF Fresh
      <4> QED BY <4>1, <4>2
    <3> QED BY <3>1, <3>3, <3>4, <3>5 DEF Fresh
  <2> QED BY <2>1, <2>2
<1> QED BY <1>1, <1>3 DEF TaskInv
-----------------------------------------------------------------------------
(* Rows and their journals.                                                *)

\* A child once named stays what it is.
LEMMA ChildGrown ==
    ASSUME TypeInv, TypeInv', Grown, NEW w \in Id, NEW i \in DOMAIN rows[w].kids,
           ChildOK(w, i), rows'[w].kids = rows[w].kids
    PROVE  ChildOK(w, i)'
<1>1. PICK c : c = rows[w].kids[i] OBVIOUS
<1>2. c \in Id /\ c \in Id' /\ rows[c].parent = w BY <1>1, IdGrown DEF ChildOK
<1>3. rows'[c].parent = w /\ rows'[c].name = rows[c].name BY <1>2 DEF Grown
<1>4. rows'[w].name = rows[w].name BY DEF Grown
<1>5. PICK n : n = rows[w].name OBVIOUS
<1>6. \E k \in DOMAIN Body[n] :
         /\ Body[n][k] = [op |-> "call", name |-> rows[c].name]
         /\ CallsBefore(n, k) = i - 1
  BY <1>1, <1>5 DEF ChildOK
<1>7. \A j \in DOMAIN rows[w].kids : rows[w].kids[j] = c => i = j BY <1>1 DEF ChildOK
<1> QED BY <1>1, <1>2, <1>3, <1>4, <1>5, <1>6, <1>7 DEF ChildOK

\* A row whose journal stays, and whose status does not become SUCCESS.
LEMMA RowSame ==
    ASSUME TypeInv, TypeInv', Grown, NEW w \in Id, RowOK(w),
           rows'[w].kids = rows[w].kids,
           rows'[w].status \in {"DELETED", "SUCCESS"} => rows[w].status = rows'[w].status
    PROVE  RowOK(w)'
<1>1. rows'[w].name = rows[w].name /\ rows'[w].parent = rows[w].parent BY DEF Grown
<1>2. \A i \in DOMAIN rows'[w].kids : ChildOK(w, i)' BY ChildGrown DEF RowOK
<1>3. SuccessOK(w)' BY <1>1 DEF RowOK, SuccessOK, Grown
<1> QED BY <1>1, <1>2, <1>3 DEF RowOK, Deleted

LEMMA RowGone ==
    ASSUME TypeInv, TypeInv', Grown, NEW w \in Id, RowOK(w),
           rows'[w].status = "DELETED", rows'[w].kids = <<>>
    PROVE  RowOK(w)'
<1>1. rows'[w].name = rows[w].name /\ rows'[w].parent = rows[w].parent BY DEF Grown
<1>2. DOMAIN <<>> = {} OBVIOUS
<1>3. SuccessOK(w)' BY DEF SuccessOK
<1> QED BY <1>1, <1>2, <1>3 DEF RowOK, Deleted

\* A row that has just been inserted.
LEMMA RowNew ==
    ASSUME TypeInv, TypeInv', NEW w \in Id',
           rows'[w].parent # Nil => rows'[w].parent \in 1 .. w - 1,
           rows'[w].status = "PENDING", rows'[w].kids = <<>>
    PROVE  RowOK(w)'
<1>1. DOMAIN <<>> = {} OBVIOUS
<1>2. SuccessOK(w)' BY DEF SuccessOK
<1> QED BY <1>1, <1>2 DEF RowOK, Deleted
-----------------------------------------------------------------------------
(* Counting.                                                               *)

LEMMA OrphansFinite ==
    ASSUME TypeInv, NEW w
    PROVE  IsFiniteSet(Orphans(w)) /\ Cardinality(Orphans(w)) \in Nat
<1>1. Len(rows) \in Nat BY LenProperties DEF TypeInv
<1>2. IsFiniteSet(1 .. Len(rows)) BY <1>1, FS_Interval
<1>3. Orphans(w) \subseteq 1 .. Len(rows) BY DEF Orphans, Id
<1>4. IsFiniteSet(Orphans(w)) BY <1>2, <1>3, FS_Subset
<1> QED BY <1>4, FS_CardinalityType

\* Nothing new is an orphan of w unless it is a new row.
LEMMA OrphansFewer ==
    ASSUME TypeInv, TypeInv', Grown, Len(rows') = Len(rows), NEW w \in Id,
           rows'[w].status # "DELETED"
    PROVE  Orphans(w)' \subseteq Orphans(w)
<1> SUFFICES ASSUME NEW c \in Orphans(w)' PROVE c \in Orphans(w) OBVIOUS
<1>1. c \in Id' /\ Orphan(c)' /\ rows'[c].parent = w BY DEF Orphans
<1>2. c \in Id BY <1>1 DEF Id
<1>3. rows[c].parent = w BY <1>1, <1>2 DEF Grown
<1>4. w # Nil /\ c \notin Range(rows'[w].kids) BY <1>1 DEF Orphan
<1>5. c \notin Range(rows[w].kids)
  <2>1. rows[w].kids \in Seq(Nat) BY RowType
  <2>2. rows'[w].kids \in Seq(Nat)
    <3>1. rows' \in Seq(Row) BY DEF TypeInv
    <3>2. rows'[w] \in Row BY <3>1, ElementOfSeq DEF Id
    <3> QED BY <3>2 DEF Row
  <2>3. /\ Len(rows[w].kids) <= Len(rows'[w].kids)
        /\ \A i \in 1 .. Len(rows[w].kids) : rows'[w].kids[i] = rows[w].kids[i]
    BY DEF Grown
  <2>4. Range(rows[w].kids) = {rows[w].kids[i] : i \in 1 .. Len(rows[w].kids)}
    BY <2>1, RangeEquality
  <2>5. Range(rows'[w].kids) = {rows'[w].kids[i] : i \in 1 .. Len(rows'[w].kids)}
    BY <2>2, RangeEquality
  <2>6. Len(rows[w].kids) \in Nat /\ Len(rows'[w].kids) \in Nat BY <2>1, <2>2, LenProperties
  <2>7. ASSUME NEW i \in 1 .. Len(rows[w].kids) PROVE rows[w].kids[i] \in Range(rows'[w].kids)
    <3>1. i \in 1 .. Len(rows'[w].kids) BY <2>3, <2>6
    <3> QED BY <3>1, <2>3, <2>5
  <2> QED BY <1>4, <2>4, <2>7
<1> QED BY <1>2, <1>3, <1>4, <1>5 DEF Orphans, Orphan

\* A place on a stack.
LEMMA LiveAt ==
    ASSUME NEW w, NEW q \in Process, NEW r \in Slot, NEW k \in Nat
    PROVE  /\ <<q, r, k>> \in Live(w) <=>
                 k \in 1 .. Len(task[q][r].stack) /\ Lives(task[q][r].stack[k], w)
           /\ <<q, r, k>> \in Live(w)' <=>
                 k \in 1 .. Len(task'[q][r].stack) /\ Lives(task'[q][r].stack[k], w)
<1>1. <<q, r, k>> \in Place BY DEF Place
<1> QED BY <1>1 DEF Live, Lives

LEMMA LivePlace ==
    ASSUME NEW w
    PROVE  /\ \A x \in Live(w) : \E q \in Process, r \in Slot, k \in Nat : x = <<q, r, k>>
           /\ \A x \in Live(w)' : \E q \in Process, r \in Slot, k \in Nat : x = <<q, r, k>>
BY DEF Live, Place

\* Stacks stay or end.
LEMMA LiveKept ==
    ASSUME TypeInv, NEW w,
           \A q \in Process, r \in Slot :
              task'[q][r].stack = task[q][r].stack \/ task'[q][r].stack = <<>>
    PROVE  Live(w)' \subseteq Live(w)
<1> SUFFICES ASSUME NEW x \in Live(w)' PROVE x \in Live(w) OBVIOUS
<1>1. PICK q \in Process, r \in Slot, k \in Nat : x = <<q, r, k>> BY LivePlace
<1>2. k \in 1 .. Len(task'[q][r].stack) /\ Lives(task'[q][r].stack[k], w) BY <1>1, LiveAt
<1>3. task'[q][r].stack = task[q][r].stack BY <1>2
<1> QED BY <1>1, <1>2, <1>3, LiveAt

\* One stack changes.
LEMMA LiveOne ==
    ASSUME NEW w, NEW p \in Process, NEW s \in Slot, NEW st, task'[p][s].stack = st,
           \A q \in Process, r \in Slot :
              q # p \/ r # s => task'[q][r].stack = task[q][r].stack,
           NEW More \in SUBSET Place,
           \A k \in 1 .. Len(st) :
              Lives(st[k], w) => <<p, s, k>> \in Live(w) \/ <<p, s, k>> \in More
    PROVE  Live(w)' \subseteq Live(w) \cup More
<1> SUFFICES ASSUME NEW x \in Live(w)' PROVE x \in Live(w) \cup More OBVIOUS
<1>1. PICK q \in Process, r \in Slot, k \in Nat : x = <<q, r, k>> BY LivePlace
<1>2. k \in 1 .. Len(task'[q][r].stack) /\ Lives(task'[q][r].stack[k], w) BY <1>1, LiveAt
<1>3. CASE q = p /\ r = s BY <1>1, <1>2, <1>3
<1>4. CASE q # p \/ r # s
  <2>1. task'[q][r].stack = task[q][r].stack BY <1>4
  <2> QED BY <1>1, <1>2, <2>1, LiveAt
<1> QED BY <1>3, <1>4

\* A row that gains nothing.
LEMMA CountsKept ==
    ASSUME TypeInv, TypeInv', Grown, Len(rows') = Len(rows), NEW w \in Id,
           IsFiniteSet(Live(w)), Counts(w), Live(w)' \subseteq Live(w),
           w \in good' => w \in good, rows'[w].runs = rows[w].runs
    PROVE  IsFiniteSet(Live(w)') /\ Counts(w)'
<1>1. /\ IsFiniteSet(Live(w)') /\ Cardinality(Live(w)') <= Cardinality(Live(w))
      /\ Cardinality(Live(w)) \in Nat /\ Cardinality(Live(w)') \in Nat
  BY FS_Subset, FS_CardinalityType
<1>2. ASSUME ~Deleted(w)' PROVE Counts(w)'
  <2>1. rows'[w].status # "DELETED" BY <1>2 DEF Deleted
  <2>2. ~Deleted(w) BY <2>1 DEF Deleted, Grown
  <2>3. Orphans(w)' \subseteq Orphans(w) BY <2>1, OrphansFewer
  <2>4. IsFiniteSet(Orphans(w)) /\ Cardinality(Orphans(w)) \in Nat BY OrphansFinite
  <2>5. Cardinality(Orphans(w)') <= Cardinality(Orphans(w)) /\ Cardinality(Orphans(w)') \in Nat
    BY <2>3, <2>4, FS_Subset, FS_CardinalityType
  <2>6. Cardinality(Orphans(w)) + (IF w \in good THEN 1 ELSE 0) + Cardinality(Live(w))
           <= rows[w].runs
    BY <2>2 DEF Counts
  <2>7. rows[w].runs \in Nat BY RowType DEF Row
  <2> QED BY <1>1, <2>4, <2>5, <2>6, <2>7 DEF Counts
<1> QED BY <1>1, <1>2 DEF Counts
-----------------------------------------------------------------------------
(* Steps that neither insert rows nor write journals.                      *)

\* The rows as far as children are concerned.
RowsStay ==
    /\ Len(rows') = Len(rows)
    /\ \A w \in Id :
          /\ rows'[w].name = rows[w].name /\ rows'[w].parent = rows[w].parent
          /\ rows'[w].kids = rows[w].kids
          /\ rows[w].status = "DELETED" => rows'[w].status = "DELETED"

LEMMA StayGrown ==
    ASSUME TypeInv, RowsStay, good \subseteq good'
    PROVE  Grown /\ Id' = Id
<1>1. Len(rows) \in Nat BY LenProperties DEF TypeInv
<1>2. ASSUME NEW w \in Id PROVE Len(rows[w].kids) <= Len(rows'[w].kids)
  <2>1. Len(rows[w].kids) \in Nat /\ rows'[w].kids = rows[w].kids BY RowType DEF RowsStay
  <2> QED BY <2>1
<1> QED BY <1>1, <1>2 DEF RowsStay, Grown, Id

\* Nobody executes anything.
LEMMA Quiet ==
    ASSUME IInv, TypeInv', RowsStay, good' = good,
           \A w \in Id :
              /\ rows'[w].runs = rows[w].runs
              /\ rows'[w].status \in {"DELETED", "SUCCESS"} => rows[w].status = rows'[w].status,
           \A q \in Process, r \in Slot :
              /\ task'[q][r].stack = task[q][r].stack \/ task'[q][r].stack = <<>>
              /\ task'[q][r].todo \subseteq Id
    PROVE  IInv'
<1> USE DEF IInv
<1>1. Grown /\ Id' = Id BY StayGrown
<1>2. RowsInv'
  <2> SUFFICES ASSUME NEW w \in Id PROVE RowOK(w)' BY <1>1 DEF RowsInv
  <2>1. RowOK(w) BY DEF RowsInv
  <2>2. rows'[w].kids = rows[w].kids BY DEF RowsStay
  <2> QED BY <1>1, <2>1, <2>2, RowSame
<1>3. TaskInv' BY <1>1, TaskKept DEF RowsStay
<1>4. CountInv'
  <2> SUFFICES ASSUME NEW w \in Id PROVE IsFiniteSet(Live(w)') /\ Counts(w)'
    BY <1>1 DEF CountInv
  <2>1. IsFiniteSet(Live(w)) /\ Counts(w) BY DEF CountInv
  <2>2. Live(w)' \subseteq Live(w) BY LiveKept
  <2>3. Len(rows') = Len(rows) BY DEF RowsStay
  <2> QED BY <1>1, <2>1, <2>2, <2>3, CountsKept
<1> QED BY <1>2, <1>3, <1>4

\* A stack is replaced.
LEMMA StackSet ==
    ASSUME TypeInv, NEW p \in Process, NEW s \in Slot, NEW st \in Seq(Frame),
           task' = [task EXCEPT ![p][s].stack = st]
    PROVE  /\ task' \in [Process -> [Slot -> Task]]
           /\ task'[p][s].stack = st
           /\ \A q \in Process, r \in Slot :
                 /\ q # p \/ r # s => task'[q][r] = task[q][r]
                 /\ task'[q][r].todo = task[q][r].todo
<1>1. task \in [Process -> [Slot -> Task]] BY DEF TypeInv
<1>2. [task[p][s] EXCEPT !.stack = st] \in Task
  <2>1. task[p][s] \in Task BY <1>1
  <2> QED BY <2>1 DEF Task
<1>3. task[p][s] \in Task BY <1>1
<1> QED BY <1>1, <1>2, <1>3 DEF Task

\* The top execution of a task goes on, or fails.
LEMMA TopMoves ==
    ASSUME IInv, NEW p \in Process, NEW s \in Slot, Busy(p, s),
           UNCHANGED <<rows, state, doomed, faults, good>>,
           NEW g \in Frame, FrameOK(g), SetTop(p, s, g), g.id = Top(p, s).id,
           g.at \in {"body", "failed"}, g.at = "body" => Top(p, s).at = "body"
    PROVE  IInv'
<1> USE DEF IInv
<1> PICK old : old = task[p][s].stack OBVIOUS
<1> PICK st : st = Append(Front(old), g) OBVIOUS
<1>1. old \in Seq(Frame) /\ old # <<>> BY StackType DEF Busy
<1>2. st \in Seq(Frame) /\ Len(st) = Len(old) /\ st # <<>>
  <2>1. st \in Seq(Frame) BY <1>1, ReplaceTop
  <2>2. Len(st) = Len(old) BY <1>1, ReplaceTop
  <2>3. st # <<>> BY <1>1, ReplaceTop
  <2> QED BY <2>1, <2>2, <2>3
<1>3. \A k \in 1 .. Len(old) - 1 : st[k] = old[k] BY <1>1, ReplaceTop
<1>4. st[Len(old)] = g BY <1>1, ReplaceTop
<1>5. task' = [task EXCEPT ![p][s].stack = st] BY DEF SetTop
<1>6. /\ task' \in [Process -> [Slot -> Task]]
      /\ task'[p][s].stack = st
      /\ \A q \in Process, r \in Slot :
            /\ q # p \/ r # s => task'[q][r] = task[q][r]
            /\ task'[q][r].todo = task[q][r].todo
  BY <1>2, <1>5, StackSet, ZenonT(60)
<1>7. TypeInv' BY <1>6 DEF TypeInv, Id
<1>8. RowsStay BY DEF RowsStay
<1>9. Grown /\ Id' = Id BY <1>8, StayGrown
<1>10. Top(p, s) = old[Len(old)] /\ Len(old) \in Nat \ {0} BY TopFacts
<1>11. StackOK(st)'
  <2>1. StackOK(old)' BY <1>1, <1>7, <1>9, StackGrown DEF TaskInv
  <2>2. FrameOK(g)' BY <1>7, <1>9, FrameGrown
  <2>3. Len(old) \in 1 .. Len(old) BY <1>10
  <2> QED BY <2>1, <2>2, <2>3, <1>1, <1>2, <1>3, <1>4, <1>10, StackCut, ZenonT(60)
<1>12. TaskInv'
  <2>1. TopFresh(p, s, st) BY <1>2, <1>4 DEF TopFresh
  <2>2. OthersStay(p, s) BY <1>6 DEF TaskInv, Fresh, OthersStay
  <2>3. ListsOK BY <1>6, <1>9 DEF TaskInv, ListsOK
  <2>4. task'[p][s].stack = st BY <1>6
  <2>5. TypeInv /\ TaskInv OBVIOUS
  <2> HIDE DEF IInv
  <2> QED BY <1>2, <1>7, <1>9, <1>11, <2>1, <2>2, <2>3, <2>4, <2>5, TaskOne
<1>13. RowsInv'
  <2> SUFFICES ASSUME NEW w \in Id PROVE RowOK(w)' BY <1>9 DEF RowsInv
  <2>1. RowOK(w) BY DEF RowsInv
  <2> QED BY <1>7, <1>9, <2>1, RowSame
<1>14. CountInv'
  <2> SUFFICES ASSUME NEW w \in Id PROVE IsFiniteSet(Live(w)') /\ Counts(w)'
    BY <1>9 DEF CountInv
  <2>1. IsFiniteSet(Live(w)) /\ Counts(w) BY DEF CountInv
  <2>2. ASSUME NEW k \in 1 .. Len(st), Lives(st[k], w) PROVE <<p, s, k>> \in Live(w)
    <3>1. k \in 1 .. Len(old) /\ k \in Nat BY <1>2, <1>10
    <3>2. Lives(old[k], w)
      <4>1. CASE k = Len(old) BY <4>1, <1>4, <1>10, <2>2 DEF Lives
      <4>2. CASE k # Len(old)
        <5>1. k \in 1 .. Len(old) - 1 BY <4>2, <3>1, <1>10
        <5> QED BY <5>1, <1>3, <2>2
      <4> QED BY <4>1, <4>2
    <3> QED BY <3>1, <3>2, LiveAt
  <2>3. Live(w)' \subseteq Live(w) \cup {}
    <3>1. {} \in SUBSET Place OBVIOUS
    <3>2. \A q \in Process, r \in Slot :
             q # p \/ r # s => task'[q][r].stack = task[q][r].stack
      BY <1>6
    <3> QED BY <1>6, <2>2, <3>1, <3>2, LiveOne
  <2>4. Live(w)' \subseteq Live(w) BY <2>3
  <2> QED BY <1>7, <1>9, <2>1, <2>4, CountsKept
<1> QED BY <1>7, <1>12, <1>13, <1>14
-----------------------------------------------------------------------------
(* An execution goes on.                                                   *)

\* What an execution is at.
LEMMA FrameType ==
    ASSUME TypeInv, NEW f \in Frame, FrameOK(f)
    PROVE  /\ f.id \in Id /\ rows[f.id].name \in Name
           /\ f.pc \in Nat /\ f.pc >= 1 /\ f.steps \in Nat
           /\ Len(Body[rows[f.id].name]) \in Nat
           /\ rows[f.id].kids \in Seq(Nat) /\ Len(rows[f.id].kids) \in Nat
<1>1. f.id \in Id BY DEF FrameOK
<1>2. rows[f.id].name \in Name BY <1>1, RowType DEF Row
<1>3. Len(Body[rows[f.id].name]) \in Nat BY <1>2, LenBody
<1>4. f.pc \in Nat /\ f.pc >= 1 /\ f.steps \in Nat BY <1>3 DEF FrameOK, Frame
<1>5. rows[f.id].kids \in Seq(Nat) /\ Len(rows[f.id].kids) \in Nat BY <1>1, RowType
<1> QED BY <1>1, <1>2, <1>3, <1>4, <1>5

\* Between a get_result and a call nobody is awaited.
LEMMA NoneAwaited ==
    ASSUME TypeInv, NEW f \in Frame, FrameOK(f), ~Deleted(f.id), f.at # "failed",
           Awaiting(rows[f.id].name), f.pc <= Len(Body[rows[f.id].name]),
           Body[rows[f.id].name][f.pc].op = "call", NEW i \in 1 .. f.steps
    PROVE  rows[f.id].kids[i] \in good
<1>1. rows[f.id].kids[i] \in good \/ Awaited(f, i) BY DEF FrameOK, Behind
<1>2. SUFFICES ASSUME Awaited(f, i) PROVE FALSE BY <1>1
<1>3. PICK n, l : n = rows[f.id].name /\ l = Len(Body[n]) OBVIOUS
<1>4. f.pc > 1 /\ Body[n][f.pc - 1].op = "call" BY <1>2, <1>3 DEF Awaited
<1>5. f.pc \in Nat /\ l \in Nat /\ f.pc <= l BY <1>3, FrameType
<1>6. f.pc - 1 \in DOMAIN Body[n] /\ f.pc - 1 + 1 = f.pc
  <2>1. Body[n] \in Seq(Ops) BY <1>3, FrameType, LenBody
  <2>2. DOMAIN Body[n] = 1 .. l BY <2>1, <1>3, LenProperties
  <2> QED BY <2>2, <1>4, <1>5, SMTT(60)
<1>7. Body[n][f.pc].op = "await" BY <1>3, <1>4, <1>6 DEF Awaiting
<1> QED BY <1>3, <1>7

\* A call returns a handle.
LEMMA CalledOK ==
    ASSUME TypeInv, NEW f \in Frame, FrameOK(f), f.at # "failed",
           f.pc <= Len(Body[rows[f.id].name]), Body[rows[f.id].name][f.pc].op = "call",
           NEW c \in Id,
           ~Deleted(f.id) =>
              f.steps < Len(rows[f.id].kids) /\ rows[f.id].kids[f.steps + 1] = c,
           NEW g, g = Called(f, c)
    PROVE  g \in Frame /\ FrameOK(g) /\ g.id = f.id /\ g.at = "body"
<1>1. PICK n, l, z : n = rows[f.id].name /\ l = Len(Body[n]) /\ z = Len(rows[f.id].kids)
  OBVIOUS
<1>2. /\ f.id \in Id /\ n \in Name /\ f.pc \in Nat /\ f.pc >= 1 /\ f.steps \in Nat
      /\ l \in Nat /\ z \in Nat
  BY <1>1, FrameType
<1>3. /\ g.id = f.id /\ g.pc = f.pc + 1 /\ g.steps = f.steps + 1 /\ g.at = "body"
      /\ g.child = c
  BY DEF Called, Frame
<1>4. g \in Frame
  <2>1. c \in Nat BY RowType
  <2>2. f.pc + 1 \in Nat /\ f.steps + 1 \in Nat BY <1>2
  <2>3. g = [id |-> f.id, pc |-> f.pc + 1, steps |-> f.steps + 1, at |-> "body", child |-> c]
    BY DEF Called, Frame
  <2>4. f.id \in Nat BY DEF Frame
  <2> QED BY <2>1, <2>2, <2>3, <2>4 DEF Frame
<1>5. g.pc \in 1 .. l + 1 BY <1>1, <1>2, <1>3
<1>6. g.steps = CallsBefore(n, g.pc)
  <2>1. f.steps = CallsBefore(n, f.pc) BY <1>1 DEF FrameOK
  <2>2. CallsBefore(n, f.pc + 1) = CallsBefore(n, f.pc) + 1
    <3>1. f.pc \in Nat \ {0} /\ n \in Name BY <1>2
    <3>2. Body[n][f.pc].op = "call" BY <1>1
    <3> QED BY <3>1, <3>2, CallsStep
  <2> QED BY <2>1, <2>2, <1>3
<1>7. ASSUME ~Deleted(f.id) PROVE Behind(g)
  <2>1. f.steps < z /\ rows[f.id].kids[f.steps + 1] = c BY <1>1, <1>7
  <2>2. g.steps <= z BY <2>1, <1>2, <1>3
  <2>3. ASSUME Awaiting(n), NEW i \in 1 .. g.steps
        PROVE  rows[f.id].kids[i] \in good \/ Awaited(g, i)
    <3>1. CASE i = g.steps
      <4>1. rows[f.id].kids[i] = g.child BY <3>1, <2>1, <1>3
      <4>2. g.pc > 1 /\ g.pc - 1 = f.pc BY <1>2, <1>3
      <4> QED BY <3>1, <4>1, <4>2, <1>3 DEF Awaited
    <3>2. CASE i # g.steps
      <4>1. i \in 1 .. f.steps BY <3>2, <1>2, <1>3
      <4> QED BY <4>1, <2>3, <1>1, <1>7, NoneAwaited
    <3> QED BY <3>1, <3>2
  <2> QED BY <2>2, <2>3, <1>1, <1>3 DEF Behind
<1> QED BY <1>1, <1>2, <1>3, <1>4, <1>5, <1>6, <1>7 DEF FrameOK

\* An execution fails.
LEMMA FailedOK ==
    ASSUME TypeInv, NEW f \in Frame, FrameOK(f), NEW g, g = [f EXCEPT !.at = "failed"]
    PROVE  g \in Frame /\ FrameOK(g) /\ g.id = f.id /\ g.at = "failed"
<1>1. /\ g.id = f.id /\ g.pc = f.pc /\ g.steps = f.steps /\ g.at = "failed"
      /\ g.child = f.child
  BY DEF Frame
<1>2. g \in Frame BY DEF Frame
<1>3. ASSUME ~Deleted(f.id) PROVE Behind(g) BY <1>1, <1>3 DEF FrameOK, Behind
<1> QED BY <1>1, <1>2, <1>3 DEF FrameOK

\* A get_result that is given a success.
LEMMA AwaitedOK ==
    ASSUME TypeInv, RowsInv, NEW f \in Frame, FrameOK(f), f.at = "body",
           f.pc <= Len(Body[rows[f.id].name]), Body[rows[f.id].name][f.pc].op = "await",
           EndedWell(f.child), NEW g, g = [f EXCEPT !.pc = @ + 1]
    PROVE  g \in Frame /\ FrameOK(g) /\ g.id = f.id /\ g.at = "body"
<1>1. PICK n, l, z : n = rows[f.id].name /\ l = Len(Body[n]) /\ z = Len(rows[f.id].kids)
  OBVIOUS
<1>2. /\ f.id \in Id /\ n \in Name /\ f.pc \in Nat /\ f.pc >= 1 /\ f.steps \in Nat
      /\ l \in Nat /\ z \in Nat
  BY <1>1, FrameType
<1>3. /\ g.id = f.id /\ g.pc = f.pc + 1 /\ g.steps = f.steps /\ g.at = "body"
      /\ g.child = f.child
  BY DEF Frame
<1>4. g \in Frame BY <1>2 DEF Frame
<1>5. g.pc \in 1 .. l + 1 BY <1>1, <1>2, <1>3
<1>6. g.steps = CallsBefore(n, g.pc)
  <2>1. f.steps = CallsBefore(n, f.pc) BY <1>1 DEF FrameOK
  <2>2. CallsBefore(n, f.pc + 1) = CallsBefore(n, f.pc) BY <1>1, <1>2, CallsStep
  <2> QED BY <2>1, <2>2, <1>3
<1>7. ASSUME ~Deleted(f.id) PROVE Behind(g)
  <2>1. Behind(f) BY <1>7 DEF FrameOK
  <2>2. ASSUME Awaiting(n), NEW i \in 1 .. f.steps PROVE rows[f.id].kids[i] \in good
    <3>1. rows[f.id].kids[i] \in good \/ Awaited(f, i) BY <2>1, <2>2, <1>1 DEF Behind
    <3>2. CASE Awaited(f, i)
      <4>1. rows[f.id].kids[i] = f.child BY <3>2 DEF Awaited
      <4>2. i \in DOMAIN rows[f.id].kids
        <5>1. f.steps <= z BY <2>1, <1>1 DEF Behind
        <5>2. DOMAIN rows[f.id].kids = 1 .. z BY <1>1, <1>2, RowType
        <5> QED BY <5>1, <5>2, <1>2
      <4>3. ChildOK(f.id, i) BY <4>2, <1>2 DEF RowsInv, RowOK
      <4>4. f.child \in Id BY <4>1, <4>3 DEF ChildOK
      <4>5. SuccessOK(f.child) BY <4>4 DEF RowsInv, RowOK
      <4> QED BY <4>1, <4>5 DEF SuccessOK, EndedWell
    <3> QED BY <3>1, <3>2
  <2> QED BY <2>1, <2>2, <1>1, <1>3 DEF Behind
<1> QED BY <1>1, <1>2, <1>3, <1>4, <1>5, <1>6, <1>7 DEF FrameOK

\* What a body is at.
LEMMA AtFacts ==
    ASSUME IInv, NEW p \in Process, NEW s \in Slot, NEW op, At(p, s, op), NEW f, f = Top(p, s)
    PROVE  /\ Busy(p, s) /\ f \in Frame /\ FrameOK(f) /\ f.at = "body"
           /\ f.pc <= Len(Body[rows[f.id].name]) /\ Body[rows[f.id].name][f.pc].op = op
<1>1. Busy(p, s) /\ f.at = "body" /\ ~BodyDone(f) /\ Op(f).op = op BY DEF At
<1>2. f \in Frame /\ FrameOK(f) BY <1>1, TopFacts DEF IInv
<1>3. PICK l : l = Len(Body[rows[f.id].name]) OBVIOUS
<1>4. f.pc \in Nat /\ l \in Nat BY <1>2, <1>3, FrameType DEF IInv
<1>5. ~(f.pc > l) BY <1>1, <1>3 DEF BodyDone
<1>6. f.pc <= l BY <1>4, <1>5
<1> QED BY <1>1, <1>2, <1>3, <1>6 DEF Op

LEMMA ReplayCallHolds ==
    ASSUME IInv, NEW p \in Process, NEW s \in Slot, ReplayCall(p, s) PROVE IInv'
<1> PICK f : f = Top(p, s) OBVIOUS
<1>1. At(p, s, "call") BY DEF ReplayCall
<1>2. /\ Busy(p, s) /\ f \in Frame /\ FrameOK(f) /\ f.at = "body"
      /\ f.pc <= Len(Body[rows[f.id].name]) /\ Body[rows[f.id].name][f.pc].op = "call"
  BY <1>1, AtFacts
<1>3. PICK c \in RecordedChild(f) : SetTop(p, s, Called(f, c)) BY DEF ReplayCall
<1>4. PICK g : g = Called(f, c) OBVIOUS
<1>5. f.steps + 1 \in DOMAIN rows[f.id].kids /\ rows[f.id].kids[f.steps + 1] = c
  BY <1>3 DEF RecordedChild
<1>6. f.id \in Id BY <1>2 DEF FrameOK
<1>7. c \in Id
  <2>1. ChildOK(f.id, f.steps + 1) BY <1>5, <1>6 DEF IInv, RowsInv, RowOK
  <2> QED BY <2>1, <1>5 DEF ChildOK
<1>8. f.steps < Len(rows[f.id].kids)
  <2>1. PICK z : z = Len(rows[f.id].kids) OBVIOUS
  <2>2. z \in Nat /\ f.steps \in Nat /\ f.steps + 1 \in 1 .. z
    BY <1>2, <1>5, <1>6, <2>1, FrameType, RowType DEF IInv
  <2> QED BY <2>1, <2>2
<1>9. g \in Frame /\ FrameOK(g) /\ g.id = f.id /\ g.at = "body"
  BY <1>2, <1>4, <1>5, <1>7, <1>8, CalledOK DEF IInv
<1>10. UNCHANGED <<rows, state, doomed, faults, good>> BY DEF ReplayCall
<1>11. SetTop(p, s, g) BY <1>3, <1>4
<1> QED BY <1>2, <1>9, <1>10, <1>11, TopMoves

LEMMA GetResultHolds ==
    ASSUME IInv, NEW p \in Process, NEW s \in Slot, GetResult(p, s) PROVE IInv'
<1> PICK f : f = Top(p, s) OBVIOUS
<1>1. At(p, s, "await") BY DEF GetResult
<1>2. /\ Busy(p, s) /\ f \in Frame /\ FrameOK(f) /\ f.at = "body"
      /\ f.pc <= Len(Body[rows[f.id].name]) /\ Body[rows[f.id].name][f.pc].op = "await"
  BY <1>1, AtFacts
<1>3. UNCHANGED <<rows, state, doomed, faults, good>> BY DEF GetResult
<1>4. CASE EndedWell(f.child)
  <2>1. PICK g : g = [f EXCEPT !.pc = @ + 1] OBVIOUS
  <2>2. SetTop(p, s, g) BY <1>4, <2>1 DEF GetResult
  <2>3. g \in Frame /\ FrameOK(g) /\ g.id = f.id /\ g.at = "body"
    BY <1>2, <1>4, <2>1, AwaitedOK DEF IInv
  <2> QED BY <1>2, <1>3, <2>2, <2>3, TopMoves
<1>5. CASE ~EndedWell(f.child)
  <2>1. PICK g : g = [f EXCEPT !.at = "failed"] OBVIOUS
  <2>2. SetTop(p, s, g) BY <1>5, <2>1 DEF GetResult
  <2>3. g \in Frame /\ FrameOK(g) /\ g.id = f.id /\ g.at = "failed"
    BY <1>2, <2>1, FailedOK DEF IInv
  <2> QED BY <1>2, <1>3, <2>2, <2>3, TopMoves
<1> QED BY <1>4, <1>5
-----------------------------------------------------------------------------
(* Recovery, cancellation, deletion and crashes.                           *)

\* A row changes in what is no concern of the type.
LEMMA RowSet ==
    ASSUME NEW rs \in Seq(Row), NEW w \in 1 .. Len(rs), NEW r \in Row,
           NEW q, q = [rs EXCEPT ![w] = r]
    PROVE  /\ q \in Seq(Row) /\ Len(q) = Len(rs) /\ q[w] = r
           /\ \A v \in 1 .. Len(rs) : v # w => q[v] = rs[v]
<1>1. rs \in [1 .. Len(rs) -> Row] /\ Len(rs) \in Nat BY LenProperties
<1>2. q \in Seq(Row) /\ Len(q) = Len(rs) BY ExceptSeq
<1>3. q[w] = r BY <1>1
<1>4. \A v \in 1 .. Len(rs) : v # w => q[v] = rs[v] BY <1>1
<1> QED BY <1>2, <1>3, <1>4

LEMMA RowCounted ==
    ASSUME NEW rs \in Seq(Row), NEW w \in 1 .. Len(rs), NEW q, q = Counted(rs, w)
    PROVE  /\ q \in Seq(Row) /\ Len(q) = Len(rs)
           /\ q[w].name = rs[w].name /\ q[w].parent = rs[w].parent
           /\ q[w].kids = rs[w].kids /\ q[w].status = rs[w].status
           /\ q[w].runs = rs[w].runs + 1
           /\ \A v \in 1 .. Len(rs) : v # w => q[v] = rs[v]
<1>1. rs[w] \in Row BY ElementOfSeq
<1>2. PICK r : r = [rs[w] EXCEPT !.runs = @ + 1] OBVIOUS
<1>3. /\ r.name = rs[w].name /\ r.parent = rs[w].parent /\ r.kids = rs[w].kids
      /\ r.status = rs[w].status /\ r.runs = rs[w].runs + 1
  BY <1>1, <1>2 DEF Row
<1>4. r \in Row
  <2>1. rs[w].runs + 1 \in Nat BY <1>1 DEF Row
  <2> QED BY <1>1, <1>2, <2>1 DEF Row
<1>5. q = [rs EXCEPT ![w] = r]
  <2>1. q = [rs EXCEPT ![w].runs = @ + 1] BY DEF Counted
  <2> QED BY <1>2, <2>1
<1>6. q \in Seq(Row) BY <1>4, <1>5, RowSet
<1>7. Len(q) = Len(rs) /\ q[w] = r BY <1>4, <1>5, RowSet
<1>8. \A v \in 1 .. Len(rs) : v # w => q[v] = rs[v] BY <1>4, <1>5, RowSet
<1> QED BY <1>3, <1>6, <1>7, <1>8

LEMMA SameHolds == IInv /\ UNCHANGED vars => IInv'
<1> SUFFICES ASSUME IInv, UNCHANGED vars PROVE IInv' OBVIOUS
<1>1. UNCHANGED <<rows, state, task, doomed, faults, good>> BY DEF vars
<1>2. TypeInv' BY <1>1 DEF IInv, TypeInv, Id
<1>3. RowsStay BY <1>1 DEF RowsStay
<1>4. \A q \in Process, r \in Slot : task'[q][r].todo \subseteq Id
  BY <1>1 DEF IInv, TaskInv
<1> QED BY <1>1, <1>2, <1>3, <1>4, Quiet

LEMMA RecoverableIds == ASSUME TypeInv, NEW e PROVE Recoverable(e) \subseteq Id /\ Id \subseteq Nat
BY LenProperties DEF Recoverable, Id, TypeInv

\* A list to work through.
LEMMA ListSet ==
    ASSUME IInv, NEW p \in Process, NEW s \in Slot, NEW e,
           task' = [task EXCEPT ![p][s].todo = Recoverable(e)],
           UNCHANGED <<rows, doomed, good>>, faults' \in Nat,
           state' \in [Process -> {"off", "launching", "up"}]
    PROVE  IInv'
<1> PICK l : l = Recoverable(e) OBVIOUS
<1>1. l \subseteq Id /\ l \subseteq Nat BY RecoverableIds DEF IInv
<1>2. task \in [Process -> [Slot -> Task]] /\ task[p][s] \in Task BY StackType DEF IInv, TypeInv
<1>3. [task[p][s] EXCEPT !.todo = l] \in Task BY <1>1, <1>2 DEF Task
<1>4. task' = [task EXCEPT ![p][s].todo = l] OBVIOUS
<1>5. task' \in [Process -> [Slot -> Task]] BY <1>2, <1>3, <1>4
<1>6. \A q \in Process, r \in Slot :
         /\ task'[q][r].stack = task[q][r].stack
         /\ task'[q][r].todo = task[q][r].todo \/ task'[q][r].todo = l
  BY <1>2, <1>4 DEF Task
<1>7. TypeInv' BY <1>5 DEF IInv, TypeInv, Id
<1>8. RowsStay BY DEF RowsStay
<1>9. \A q \in Process, r \in Slot : task'[q][r].todo \subseteq Id
  BY <1>1, <1>6 DEF IInv, TaskInv
<1> QED BY <1>6, <1>7, <1>8, <1>9, Quiet

LEMMA LaunchHolds == ASSUME IInv, NEW p \in Process, Launch(p) PROVE IInv'
<1>1. "launch" \in Slot BY DEF Slot
<1>2. state' \in [Process -> {"off", "launching", "up"}] BY DEF Launch, IInv, TypeInv
<1>3. faults' \in Nat BY DEF Launch, IInv, TypeInv
<1> QED BY <1>1, <1>2, <1>3, ListSet DEF Launch

LEMMA RecoverWorkflowsHolds ==
    ASSUME IInv, NEW p \in Process, NEW e \in Process, RecoverWorkflows(p, e) PROVE IInv'
<1>1. "admin" \in Slot BY DEF Slot
<1>2. state' \in [Process -> {"off", "launching", "up"}]
  BY DEF RecoverWorkflows, IInv, TypeInv
<1>3. faults' \in Nat BY DEF RecoverWorkflows, Fault, IInv, TypeInv
<1> QED BY <1>1, <1>2, <1>3, ListSet DEF RecoverWorkflows

LEMMA LaunchedHolds == ASSUME IInv, NEW p \in Process, Launched(p) PROVE IInv'
<1>1. UNCHANGED <<rows, task, doomed, faults, good>> BY DEF Launched
<1>2. state' \in [Process -> {"off", "launching", "up"}] BY DEF Launched, IInv, TypeInv
<1>3. TypeInv' BY <1>1, <1>2 DEF IInv, TypeInv, Id
<1>4. RowsStay BY <1>1 DEF RowsStay
<1>5. \A q \in Process, r \in Slot : task'[q][r].todo \subseteq Id
  BY <1>1 DEF IInv, TaskInv
<1> QED BY <1>1, <1>3, <1>4, <1>5, Quiet

LEMMA NoTaskType == NoTask \in Task /\ NoTask.stack = <<>> /\ NoTask.todo = {}
<1>1. <<>> \in Seq(Frame) BY EmptySeq
<1> QED BY <1>1 DEF NoTask, Task

LEMMA CrashHolds == ASSUME IInv, NEW p \in Process, Crash(p) PROVE IInv'
<1>1. UNCHANGED <<rows, doomed, good>> BY DEF Crash
<1>2. state' \in [Process -> {"off", "launching", "up"}] BY DEF Crash, IInv, TypeInv
<1>3. faults' \in Nat BY DEF Crash, Fault, IInv, TypeInv
<1>4. PICK none : none = NoTask OBVIOUS
<1>5. task' = [task EXCEPT ![p] = [r \in Slot |-> none]] BY <1>4 DEF Crash
<1>6. none \in Task /\ none.stack = <<>> /\ none.todo = {} BY <1>4, NoTaskType
<1>7. task \in [Process -> [Slot -> Task]] BY DEF IInv, TypeInv
<1>8. task' \in [Process -> [Slot -> Task]] BY <1>5, <1>6, <1>7
<1>9. \A q \in Process, r \in Slot : task'[q][r] = task[q][r] \/ task'[q][r] = none
  BY <1>5, <1>7
<1>10. TypeInv' BY <1>1, <1>2, <1>3, <1>8 DEF IInv, TypeInv, Id
<1>11. RowsStay BY <1>1 DEF RowsStay
<1>12. \A q \in Process, r \in Slot : task'[q][r].todo \subseteq Id
  BY <1>6, <1>9 DEF IInv, TaskInv
<1>13. \A q \in Process, r \in Slot :
          task'[q][r].stack = task[q][r].stack \/ task'[q][r].stack = <<>>
  BY <1>6, <1>9
<1> QED BY <1>1, <1>10, <1>11, <1>12, <1>13, Quiet

LEMMA CancelHolds == ASSUME IInv, NEW w \in Id, Cancel(w) PROVE IInv'
<1>1. UNCHANGED <<state, task, doomed, good>> BY DEF Cancel
<1>2. faults' \in Nat BY DEF Cancel, Fault, IInv, TypeInv
<1>3. rows[w] \in Row /\ rows \in Seq(Row) BY RowType DEF IInv, TypeInv
<1>4. PICK r : r = [rows[w] EXCEPT !.status = "CANCELLED"] OBVIOUS
<1>5. rows' = [rows EXCEPT ![w] = r] BY <1>4 DEF Cancel
<1>6. r \in Row BY <1>3, <1>4 DEF Row, Status, Terminal
<1>7. /\ r.name = rows[w].name /\ r.parent = rows[w].parent /\ r.kids = rows[w].kids
      /\ r.runs = rows[w].runs /\ r.status = "CANCELLED"
  BY <1>3, <1>4 DEF Row
<1>8. rows' \in Seq(Row) /\ Len(rows') = Len(rows)
  BY <1>3, <1>5, <1>6, RowSet DEF Id
<1>9. rows'[w] = r BY <1>3, <1>5, <1>6, RowSet DEF Id
<1>10. \A v \in Id : v # w => rows'[v] = rows[v] BY <1>3, <1>5, <1>6, RowSet DEF Id
<1>11. TypeInv' BY <1>1, <1>2, <1>8 DEF IInv, TypeInv, Id
<1>12. rows[w].status = "PENDING" BY DEF Cancel
<1>13. RowsStay BY <1>7, <1>8, <1>9, <1>10, <1>12 DEF RowsStay
<1>14. \A v \in Id :
          /\ rows'[v].runs = rows[v].runs
          /\ rows'[v].status \in {"DELETED", "SUCCESS"} => rows[v].status = rows'[v].status
  BY <1>7, <1>9, <1>10
<1>15. \A q \in Process, r2 \in Slot : task'[q][r2].todo \subseteq Id
  BY <1>1 DEF IInv, TaskInv
<1> QED BY <1>1, <1>11, <1>13, <1>14, <1>15, Quiet

LEMMA DoomedHolds ==
    ASSUME IInv, UNCHANGED <<rows, state, task, good>>, faults' \in Nat,
           doomed' \in [ids : SUBSET Nat, queue : SUBSET Nat]
    PROVE  IInv'
<1>1. TypeInv' BY DEF IInv, TypeInv, Id
<1>2. RowsStay BY DEF RowsStay
<1>3. \A q \in Process, r \in Slot : task'[q][r].todo \subseteq Id BY DEF IInv, TaskInv
<1> QED BY <1>1, <1>2, <1>3, Quiet

LEMMA DeleteWorkflowHolds ==
    ASSUME IInv, NEW w \in Id, NEW deep \in BOOLEAN, DeleteWorkflow(w, deep) PROVE IInv'
<1>1. w \in Nat BY RowType DEF IInv
<1>2. doomed' \in [ids : SUBSET Nat, queue : SUBSET Nat] BY <1>1 DEF DeleteWorkflow
<1>3. faults' \in Nat BY DEF DeleteWorkflow, Fault, IInv, TypeInv
<1> QED BY <1>2, <1>3, DoomedHolds DEF DeleteWorkflow

LEMMA GatherChildrenHolds == ASSUME IInv, NEW w \in Id, GatherChildren(w) PROVE IInv'
<1>1. Children(w) \subseteq Nat BY RecoverableIds DEF IInv, Children
<1>2. doomed \in [ids : SUBSET Nat, queue : SUBSET Nat] BY DEF IInv, TypeInv
<1>3. doomed' \in [ids : SUBSET Nat, queue : SUBSET Nat] BY <1>1, <1>2 DEF GatherChildren
<1>4. faults' \in Nat BY DEF GatherChildren, IInv, TypeInv
<1> QED BY <1>3, <1>4, DoomedHolds DEF GatherChildren

LEMMA DeleteRowsHolds == ASSUME IInv, DeleteRows PROVE IInv'
<1> USE DEF IInv
<1>1. UNCHANGED <<state, task, faults, good>> BY DEF DeleteRows
<1>2. doomed' \in [ids : SUBSET Nat, queue : SUBSET Nat] BY DEF DeleteRows, NoDeletion
<1>3. rows \in Seq(Row) /\ Len(rows) \in Nat BY LenProperties DEF TypeInv
<1>4. PICK gone : gone = doomed.ids OBVIOUS
<1>5. rows' = [w \in 1 .. Len(rows) |-> IF w \in gone
                  THEN [rows[w] EXCEPT !.status = "DELETED", !.kids = <<>>] ELSE rows[w]]
  BY <1>4 DEF DeleteRows, Id
<1>6. ASSUME NEW w \in Id
      PROVE  /\ rows'[w] \in Row
             /\ rows'[w].name = rows[w].name /\ rows'[w].parent = rows[w].parent
             /\ rows'[w].runs = rows[w].runs
             /\ \/ rows'[w].kids = <<>> /\ rows'[w].status = "DELETED"
                \/ rows'[w].kids = rows[w].kids /\ rows'[w].status = rows[w].status
  <2>1. rows[w] \in Row BY RowType
  <2>2. CASE w \in gone
    <3>1. rows'[w] = [rows[w] EXCEPT !.status = "DELETED", !.kids = <<>>]
      BY <1>5, <2>2 DEF Id
    <3>2. <<>> \in Seq(Nat) BY EmptySeq
    <3> QED BY <2>1, <3>1, <3>2 DEF Row, Status
  <2>3. CASE w \notin gone
    <3>1. rows'[w] = rows[w] BY <1>5, <2>3 DEF Id
    <3> QED BY <2>1, <3>1
  <2> QED BY <2>2, <2>3
<1>7. rows' \in Seq(Row) /\ Len(rows') = Len(rows)
  <2>1. rows' \in [1 .. Len(rows) -> Row] BY <1>5, <1>6 DEF Id
  <2> QED BY <2>1, <1>3
<1>8. TypeInv' BY <1>1, <1>2, <1>7 DEF TypeInv, Id
<1>9. Grown /\ Id' = Id
  <2>1. \A w \in Id : Len(rows[w].kids) \in Nat BY RowType
  <2> QED BY <1>1, <1>3, <1>6, <1>7, <2>1 DEF Grown, Id
<1>10. RowsInv'
  <2> SUFFICES ASSUME NEW w \in Id PROVE RowOK(w)' BY <1>9 DEF RowsInv
  <2>1. RowOK(w) BY DEF RowsInv
  <2> QED BY <1>6, <1>8, <1>9, <2>1, RowSame, RowGone
<1>11. TaskInv'
  <2>1. \A w \in Id : rows'[w].kids = rows[w].kids \/ rows'[w].kids = <<>> BY <1>6
  <2>2. \A q \in Process, r \in Slot : task'[q][r].todo \subseteq Id'
    BY <1>1, <1>9 DEF TaskInv
  <2> QED BY <1>1, <1>8, <1>9, <2>1, <2>2, TaskKept
<1>12. CountInv'
  <2> SUFFICES ASSUME NEW w \in Id PROVE IsFiniteSet(Live(w)') /\ Counts(w)'
    BY <1>9 DEF CountInv
  <2>1. IsFiniteSet(Live(w)) /\ Counts(w) BY DEF CountInv
  <2>2. Live(w)' \subseteq Live(w) BY <1>1, LiveKept
  <2> QED BY <1>1, <1>6, <1>7, <1>8, <1>9, <2>1, <2>2, CountsKept
<1> QED BY <1>8, <1>10, <1>11, <1>12
-----------------------------------------------------------------------------
(* Executions begin.                                                       *)

LEMMA Fewer ==
    ASSUME NEW B, IsFiniteSet(B), NEW A, A \subseteq B
    PROVE  /\ IsFiniteSet(A) /\ Cardinality(A) \in Nat /\ Cardinality(B) \in Nat
           /\ Cardinality(A) <= Cardinality(B)
BY FS_Subset, FS_CardinalityType

LEMMA OneFewer ==
    ASSUME NEW B, IsFiniteSet(B), NEW x \in B, NEW A, A \subseteq B, x \notin A
    PROVE  /\ IsFiniteSet(A) /\ Cardinality(A) \in Nat /\ Cardinality(B) \in Nat
           /\ Cardinality(A) + 1 <= Cardinality(B)
<1>1. IsFiniteSet(B \ {x}) /\ Cardinality(B \ {x}) = Cardinality(B) - 1
  BY FS_RemoveElement
<1>2. A \subseteq B \ {x} OBVIOUS
<1>3. IsFiniteSet(A) /\ Cardinality(A) \in Nat /\ Cardinality(A) <= Cardinality(B \ {x})
  BY <1>1, <1>2, Fewer
<1>4. Cardinality(B) \in Nat BY FS_CardinalityType
<1> QED BY <1>1, <1>3, <1>4

LEMMA OneMore ==
    ASSUME NEW B, IsFiniteSet(B), NEW x, NEW A, A \subseteq B \cup {x}
    PROVE  /\ IsFiniteSet(A) /\ Cardinality(A) \in Nat /\ Cardinality(B) \in Nat
           /\ Cardinality(A) <= Cardinality(B) + 1
<1>1. IsFiniteSet(B \cup {x}) BY FS_AddElement
<1>2. Cardinality(B \cup {x}) = IF x \in B THEN Cardinality(B) ELSE Cardinality(B) + 1
  BY FS_AddElement
<1>3. IsFiniteSet(A) /\ Cardinality(A) \in Nat /\ Cardinality(A) <= Cardinality(B \cup {x})
  BY <1>1, Fewer
<1>4. Cardinality(B) \in Nat BY FS_CardinalityType
<1> QED BY <1>2, <1>3, <1>4

LEMMA BeginOK ==
    ASSUME TypeInv, NEW w \in Id, NEW g, g = Begin(w)
    PROVE  /\ g \in Frame /\ FrameOK(g) /\ g.id = w /\ g.at = "body" /\ g.child = Nil
<1>1. /\ g.id = w /\ g.pc = 1 /\ g.steps = 0 /\ g.at = "body" /\ g.child = Nil
  BY DEF Begin
<1>2. w \in Nat /\ rows[w].name \in Name /\ Len(rows[w].kids) \in Nat BY RowType DEF Row
<1>3. g \in Frame BY <1>2 DEF Begin, Frame
<1>4. Len(Body[rows[w].name]) \in Nat BY <1>2, LenBody
<1>5. g.steps = CallsBefore(rows[w].name, g.pc) BY <1>1, <1>2, CallsStart
<1>6. g.pc \in 1 .. Len(Body[rows[w].name]) + 1 BY <1>1, <1>4
<1>7. Behind(g) BY <1>1, <1>2 DEF Behind
<1> QED BY <1>1, <1>3, <1>5, <1>6, <1>7 DEF FrameOK

LEMMA BeginNew ==
    ASSUME TypeInv', NEW w \in Id', NEW g, g = Begin(w)
    PROVE  /\ g \in Frame /\ FrameOK(g)' /\ g.id = w /\ g.at = "body"
<1>1. /\ g.id = w /\ g.pc = 1 /\ g.steps = 0 /\ g.at = "body" /\ g.child = Nil
  BY DEF Begin
<1>2. rows' \in Seq(Row) /\ w \in 1 .. Len(rows') BY DEF TypeInv, Id
<1>3. rows'[w] \in Row /\ w \in Nat BY <1>2, ElementOfSeq, LenProperties
<1>4. rows'[w].name \in Name /\ Len(rows'[w].kids) \in Nat BY <1>3, LenProperties DEF Row
<1>5. g \in Frame BY <1>3 DEF Begin, Frame
<1>6. Len(Body[rows'[w].name]) \in Nat BY <1>4, LenBody
<1>7. g.steps = CallsBefore(rows'[w].name, g.pc) BY <1>1, <1>4, CallsStart
<1>8. g.pc \in 1 .. Len(Body[rows'[w].name]) + 1 BY <1>1, <1>6
<1>9. Behind(g)' BY <1>1, <1>4 DEF Behind
<1> QED BY <1>1, <1>5, <1>7, <1>8, <1>9 DEF FrameOK

\* A list's next workflow is executed.
LEMMA RecoverNextHolds ==
    ASSUME IInv, NEW p \in Process, NEW s \in Slot, RecoverNext(p, s) PROVE IInv'
<1> USE DEF IInv
<1>1. PICK w \in task[p][s].todo :
         /\ task' = [task EXCEPT ![p][s] = [stack |-> <<Begin(w)>>, todo |-> @.todo \ {w}]]
         /\ rows' = Counted(rows, w)
  BY DEF RecoverNext
<1>2. UNCHANGED <<state, doomed, faults, good>> /\ task[p][s].stack = <<>>
  BY DEF RecoverNext, Busy
<1>3. w \in Id BY <1>1 DEF TaskInv
<1>4. PICK g : g = Begin(w) OBVIOUS
<1>5. g \in Frame /\ FrameOK(g) /\ g.id = w /\ g.at = "body" BY <1>3, <1>4, BeginOK
<1>6. PICK st : st = <<g>> OBVIOUS
<1>7. st \in Seq(Frame) /\ Len(st) = 1 /\ st # <<>> /\ st[1] = g BY <1>5, <1>6, OneFrame
<1>8. PICK t : t = [stack |-> st, todo |-> task[p][s].todo \ {w}] OBVIOUS
<1>9. task' = [task EXCEPT ![p][s] = t] BY <1>1, <1>4, <1>6, <1>8
<1>10. task \in [Process -> [Slot -> Task]] BY DEF TypeInv
<1>11. t \in Task /\ t.stack = st /\ t.todo \subseteq Id
  BY <1>7, <1>8, StackType DEF Task, TaskInv
<1>12. task' \in [Process -> [Slot -> Task]] BY <1>9, <1>10, <1>11
<1>13. /\ task'[p][s] = t
       /\ \A q \in Process, r \in Slot : q # p \/ r # s => task'[q][r] = task[q][r]
  BY <1>9, <1>10
<1>14. rows \in Seq(Row) /\ w \in 1 .. Len(rows) BY <1>3 DEF TypeInv, Id
<1>15. /\ rows' \in Seq(Row) /\ Len(rows') = Len(rows)
       /\ rows'[w].name = rows[w].name /\ rows'[w].parent = rows[w].parent
       /\ rows'[w].kids = rows[w].kids /\ rows'[w].status = rows[w].status
       /\ rows'[w].runs = rows[w].runs + 1
       /\ \A v \in Id : v # w => rows'[v] = rows[v]
  BY <1>1, <1>14, RowCounted DEF Id
<1>16. TypeInv' BY <1>2, <1>12, <1>15 DEF TypeInv, Id
<1>17. RowsStay BY <1>15 DEF RowsStay
<1>18. Grown /\ Id' = Id BY <1>2, <1>17, StayGrown
<1>19. RowsInv'
  <2> SUFFICES ASSUME NEW v \in Id PROVE RowOK(v)' BY <1>18 DEF RowsInv
  <2>1. RowOK(v) BY DEF RowsInv
  <2>2. rows'[v].kids = rows[v].kids /\ rows'[v].status = rows[v].status BY <1>15
  <2> QED BY <1>16, <1>18, <2>1, <2>2, RowSame
<1>20. TaskInv'
  <2>1. FrameOK(g)' BY <1>5, <1>16, <1>18, FrameGrown
  <2>2. StackOK(st)' BY <1>5, <1>7, <2>1 DEF StackOK
  <2>3. TopFresh(p, s, st) BY <1>5, <1>7 DEF TopFresh
  <2>4. OthersStay(p, s)
    <3> SUFFICES ASSUME NEW q \in Process, NEW r \in Slot, q # p \/ r # s, Between(q, r)
                 PROVE  Top(q, r).child \notin Range(rows'[Top(q, r).id].kids)
      BY <1>13 DEF OthersStay
    <3>1. Top(q, r).id \in Id BY TopFacts DEF Between, FrameOK
    <3>2. rows'[Top(q, r).id].kids = rows[Top(q, r).id].kids BY <3>1, <1>17 DEF RowsStay
    <3> QED BY <3>2 DEF TaskInv, Fresh
  <2>5. ListsOK
    <3> SUFFICES ASSUME NEW q \in Process, NEW r \in Slot PROVE task'[q][r].todo \subseteq Id
      BY <1>18 DEF ListsOK
    <3> QED BY <1>11, <1>13 DEF TaskInv
  <2>6. task'[p][s].stack = st BY <1>11, <1>13
  <2> QED BY <1>7, <1>16, <1>18, <2>2, <2>3, <2>4, <2>5, <2>6, TaskOne
<1>21. CountInv'
  <2> SUFFICES ASSUME NEW v \in Id PROVE IsFiniteSet(Live(v)') /\ Counts(v)'
    BY <1>18 DEF CountInv
  <2>1. IsFiniteSet(Live(v)) /\ Counts(v) BY DEF CountInv
  <2>2. PICK x : x = <<p, s, 1>> OBVIOUS
  <2>3. \A q \in Process, r \in Slot :
           q # p \/ r # s => task'[q][r].stack = task[q][r].stack
    BY <1>13
  <2>4. task'[p][s].stack = st BY <1>11, <1>13
  <2>5. CASE v # w
    <3>1. {} \in SUBSET Place OBVIOUS
    <3>2. \A k \in 1 .. Len(st) : ~Lives(st[k], v) BY <1>5, <1>7, <2>5 DEF Lives
    <3>3. Live(v)' \subseteq Live(v) \cup {} BY <2>3, <2>4, <3>1, <3>2, LiveOne, SMTT(60)
    <3>4. Live(v)' \subseteq Live(v) BY <3>3
    <3>5. v \in good' => v \in good BY <1>2
    <3>6. rows'[v].runs = rows[v].runs BY <1>15, <2>5
    <3>7. Len(rows') = Len(rows) BY <1>15
    <3> QED BY <1>16, <1>18, <2>1, <3>4, <3>5, <3>6, <3>7, CountsKept
  <2>6. CASE v = w
    <3>1. {x} \in SUBSET Place BY <2>2 DEF Place
    <3>2. \A k \in 1 .. Len(st) : <<p, s, k>> \in {x}
      BY <1>7, <2>2
    <3>3. Live(v)' \subseteq Live(v) \cup {x} BY <2>3, <2>4, <3>1, <3>2, LiveOne
    <3>4. /\ IsFiniteSet(Live(v)') /\ Cardinality(Live(v)') \in Nat
          /\ Cardinality(Live(v)) \in Nat
          /\ Cardinality(Live(v)') <= Cardinality(Live(v)) + 1
      BY <2>1, <3>3, OneMore
    <3>5. ASSUME ~Deleted(v)' PROVE Counts(v)'
      <4>1. rows'[v].status # "DELETED" /\ ~Deleted(v) BY <3>5, <2>6, <1>15 DEF Deleted
      <4>2. Orphans(v)' \subseteq Orphans(v) BY <4>1, <1>15, <1>16, <1>18, OrphansFewer
      <4>3. IsFiniteSet(Orphans(v)) BY OrphansFinite
      <4>4. /\ Cardinality(Orphans(v)') <= Cardinality(Orphans(v))
            /\ Cardinality(Orphans(v)') \in Nat /\ Cardinality(Orphans(v)) \in Nat
        BY <4>2, <4>3, Fewer
      <4>5. Cardinality(Orphans(v)) + (IF v \in good THEN 1 ELSE 0) + Cardinality(Live(v))
               <= rows[v].runs
        BY <2>1, <4>1 DEF Counts
      <4>6. rows'[v].runs = rows[v].runs + 1 /\ rows[v].runs \in Nat /\ good' = good
        BY <1>2, <1>15, <2>6, RowType DEF Row
      <4> QED BY <3>4, <4>4, <4>5, <4>6 DEF Counts
    <3> QED BY <3>4, <3>5 DEF Counts
  <2> QED BY <2>5, <2>6
<1> QED BY <1>16, <1>19, <1>20, <1>21
-----------------------------------------------------------------------------
(* Rows are inserted.                                                      *)

\* One row more, with a parent or none.
Inserted(parent) ==
    /\ Len(rows') = Len(rows) + 1
    /\ \A v \in Id :
          /\ rows'[v].name = rows[v].name /\ rows'[v].parent = rows[v].parent
          /\ rows'[v].kids = rows[v].kids /\ rows'[v].status = rows[v].status
          /\ rows'[v].runs = rows[v].runs
    /\ rows'[Len(rows) + 1].parent = parent
    /\ rows'[Len(rows) + 1].kids = <<>>
    /\ rows'[Len(rows) + 1].status = "PENDING"

LEMMA InsertType ==
    ASSUME TypeInv, NEW n \in Name, NEW p \in Process, NEW parent \in Id \cup {Nil},
           NEW q, q = Insert(n, p, parent)
    PROVE  /\ q \in Seq(Row) /\ Len(q) = Len(rows) + 1
           /\ \A v \in Id : q[v] = rows[v]
           /\ q[Len(rows) + 1].parent = parent /\ q[Len(rows) + 1].kids = <<>>
           /\ q[Len(rows) + 1].status = "PENDING" /\ q[Len(rows) + 1].runs = 0
           /\ q[Len(rows) + 1].name = n
<1>1. PICK r : r = [status |-> "PENDING", name |-> n, exe |-> p,
                    parent |-> parent, kids |-> <<>>, runs |-> 0]
  OBVIOUS
<1>2. <<>> \in Seq(Nat) BY EmptySeq
<1>3. parent \in Nat \cup {Nil} BY RowType
<1>4. r \in Row BY <1>1, <1>2, <1>3 DEF Row, Status
<1>5. rows \in Seq(Row) /\ q = Append(rows, r) BY <1>1 DEF TypeInv, Insert
<1>6. q \in Seq(Row) BY <1>4, <1>5, AppendProperties
<1>7. Len(q) = Len(rows) + 1 BY <1>4, <1>5, AppendProperties
<1>8. \A v \in Id : q[v] = rows[v] BY <1>4, <1>5, AppendProperties DEF Id
<1>9. q[Len(rows) + 1] = r BY <1>4, <1>5, AppendProperties
<1>10. /\ r.parent = parent /\ r.kids = <<>> /\ r.status = "PENDING" /\ r.runs = 0
       /\ r.name = n
  BY <1>1
<1> QED BY <1>6, <1>7, <1>8, <1>9, <1>10

LEMMA InsertedHolds ==
    ASSUME TypeInv, TypeInv', RowsInv, NEW parent \in Id \cup {Nil}, Inserted(parent),
           good' = good
    PROVE  /\ Grown /\ RowsInv'
           /\ Len(rows) + 1 \in Nat /\ Len(rows) + 1 \notin Id /\ Len(rows) + 1 # Nil
           /\ Id' = Id \cup {Len(rows) + 1}
<1> PICK l : l = Len(rows) OBVIOUS
<1>1. l \in Nat /\ Id = 1 .. l BY LenProperties DEF TypeInv, Id
<1>2. l + 1 \in Nat /\ l + 1 \notin Id /\ l + 1 # Nil BY <1>1, ChildAssumption
<1>3. Id' = Id \cup {l + 1} BY <1>1 DEF Id, Inserted
<1>4. Grown
  <2>1. \A w \in Id : Len(rows[w].kids) \in Nat BY RowType
  <2>2. l <= Len(rows') BY <1>1 DEF Inserted
  <2> QED BY <2>1, <2>2 DEF Grown, Inserted
<1>5. ASSUME NEW w \in Id' PROVE RowOK(w)'
  <2>1. CASE w \in Id
    <3>1. RowOK(w) BY <2>1 DEF RowsInv
    <3>2. rows'[w].kids = rows[w].kids /\ rows'[w].status = rows[w].status
      BY <2>1 DEF Inserted
    <3> QED BY <1>4, <2>1, <3>1, <3>2, RowSame
  <2>2. CASE w = l + 1
    <3>1. rows'[w].parent # Nil => rows'[w].parent \in 1 .. w - 1
      BY <1>1, <2>2 DEF Inserted
    <3>2. rows'[w].status = "PENDING" /\ rows'[w].kids = <<>> BY <2>2 DEF Inserted
    <3> QED BY <3>1, <3>2, RowNew
  <2> QED BY <1>3, <2>1, <2>2
<1> QED BY <1>2, <1>3, <1>4, <1>5 DEF RowsInv

\* The new row may be an orphan of its parent's.
LEMMA OrphansInserted ==
    ASSUME TypeInv, TypeInv', RowsInv, NEW parent \in Id \cup {Nil}, Inserted(parent),
           good' = good, NEW w \in Id'
    PROVE  /\ w \in Id => Orphans(w)' \subseteq Orphans(w) \cup {Len(rows) + 1}
           /\ w \in Id /\ w # parent => Orphans(w)' \subseteq Orphans(w)
           /\ w \notin Id => Orphans(w)' = {}
<1> PICK l : l = Len(rows) OBVIOUS
<1>1. /\ Grown /\ RowsInv' /\ l + 1 \in Nat /\ l + 1 \notin Id /\ l + 1 # Nil
      /\ Id' = Id \cup {l + 1}
  BY InsertedHolds
<1>2. ASSUME w \in Id, NEW c \in Orphans(w)'
      PROVE  c \in Orphans(w) \/ (c = l + 1 /\ w = parent)
  <2>1. c \in Id' /\ rows'[c].parent = w /\ Orphan(c)' BY <1>2 DEF Orphans
  <2>2. w # Nil /\ c \notin Range(rows'[w].kids) BY <2>1 DEF Orphan
  <2>3. CASE c \in Id
    <3>1. rows[c].parent = w /\ rows'[w].kids = rows[w].kids BY <1>2, <2>1, <2>3 DEF Inserted
    <3> QED BY <2>2, <2>3, <3>1 DEF Orphans, Orphan
  <2>4. CASE c = l + 1 BY <2>1, <2>4 DEF Inserted
  <2> QED BY <1>1, <2>1, <2>3, <2>4
<1>3. ASSUME w \notin Id, NEW c \in Orphans(w)' PROVE FALSE
  <2>1. c \in Id' /\ rows'[c].parent = w BY <1>3 DEF Orphans
  <2>2. w = l + 1 BY <1>1, <1>3
  <2>3. RowOK(c)' BY <1>1, <2>1 DEF RowsInv
  <2>4. w \in 1 .. c - 1 BY <1>1, <2>1, <2>2, <2>3 DEF RowOK
  <2>5. l \in Nat /\ c \in 1 .. l + 1 BY <1>1, <2>1, LenProperties DEF TypeInv, Id, Inserted
  <2> QED BY <2>2, <2>4, <2>5
<1> QED BY <1>2, <1>3

\* Nobody executes a row that does not exist.
LEMMA NoneLive ==
    ASSUME TypeInv, TaskInv, NEW w, w \notin Id PROVE Live(w) = {}
<1> SUFFICES ASSUME NEW x \in Live(w) PROVE FALSE OBVIOUS
<1>1. PICK q \in Process, r \in Slot, k \in Nat : x = <<q, r, k>> BY LivePlace
<1>2. k \in 1 .. Len(task[q][r].stack) /\ Lives(task[q][r].stack[k], w) BY <1>1, LiveAt
<1>3. FrameOK(task[q][r].stack[k]) BY <1>2 DEF TaskInv, StackOK
<1> QED BY <1>2, <1>3 DEF FrameOK, Lives

LEMMA RootHolds ==
    ASSUME IInv, NEW p \in Process, NEW s \in Slot, NEW n \in Root,
           rows' = Counted(Insert(n, p, Nil), Len(rows) + 1),
           task' = [task EXCEPT ![p][s].stack = <<Begin(Len(rows) + 1)>>],
           UNCHANGED <<state, doomed, faults, good>>
    PROVE  IInv'
<1> USE DEF IInv
<1> PICK w : w = Len(rows) + 1 OBVIOUS
<1>1. n \in Name BY ChildAssumption
<1>2. UNCHANGED <<state, doomed, faults, good>> OBVIOUS
<1>3. PICK rs : rs = Insert(n, p, Nil) OBVIOUS
<1>4. /\ rs \in Seq(Row) /\ Len(rs) = w
      /\ \A v \in Id : rs[v] = rows[v]
      /\ rs[w].parent = Nil /\ rs[w].kids = <<>>
      /\ rs[w].status = "PENDING" /\ rs[w].runs = 0
  BY <1>1, <1>3, InsertType
<1>5. Len(rows) \in Nat /\ w \in 1 .. Len(rs) /\ Id \subseteq 1 .. Len(rs) /\ w \notin Id
  BY <1>4, LenProperties DEF TypeInv, Id
<1>6. rows' = Counted(rs, w) BY <1>3
<1>7. /\ rows' \in Seq(Row) /\ Len(rows') = Len(rs)
      /\ rows'[w].parent = rs[w].parent /\ rows'[w].kids = rs[w].kids
      /\ rows'[w].status = rs[w].status /\ rows'[w].runs = rs[w].runs + 1
      /\ \A v \in 1 .. Len(rs) : v # w => rows'[v] = rs[v]
  <2>1. rs \in Seq(Row) /\ w \in 1 .. Len(rs) BY <1>4, <1>5
  <2>2. PICK q : q = rows' OBVIOUS
  <2>3. q = Counted(rs, w) BY <1>6, <2>2
  <2>4. q \in Seq(Row) BY <2>1, <2>3, RowCounted
  <2>5. Len(q) = Len(rs) BY <2>1, <2>3, RowCounted
  <2>6. q[w].parent = rs[w].parent /\ q[w].kids = rs[w].kids BY <2>1, <2>3, RowCounted
  <2>7. q[w].status = rs[w].status /\ q[w].runs = rs[w].runs + 1
    BY <2>1, <2>3, RowCounted
  <2>8. \A v \in 1 .. Len(rs) : v # w => q[v] = rs[v] BY <2>1, <2>3, RowCounted, SMTT(30)
  <2> QED BY <2>2, <2>4, <2>5, <2>6, <2>7, <2>8
<1>8. \A v \in Id : rows'[v] = rows[v] BY <1>4, <1>5, <1>7
<1>9. Inserted(Nil) BY <1>4, <1>7, <1>8 DEF Inserted
<1>10. w \in Id' BY <1>5, <1>7 DEF Id
<1>11. PICK g : g = Begin(w) OBVIOUS
<1>12. PICK st : st = <<g>> OBVIOUS
<1>13. task' = [task EXCEPT ![p][s].stack = st] BY <1>11, <1>12
<1>14. g.id = w /\ g.at = "body" /\ g \in Frame BY <1>5, <1>11 DEF Begin, Frame
<1>15. st \in Seq(Frame) /\ Len(st) = 1 /\ st # <<>> /\ st[1] = g BY <1>12, <1>14, OneFrame
<1>16. /\ task' \in [Process -> [Slot -> Task]]
       /\ task'[p][s].stack = st
       /\ \A q \in Process, r \in Slot :
             /\ q # p \/ r # s => task'[q][r] = task[q][r]
             /\ task'[q][r].todo = task[q][r].todo
  <2>0. TypeInv /\ st \in Seq(Frame) BY <1>15
  <2>1. task' \in [Process -> [Slot -> Task]] BY <2>0, <1>13, StackSet
  <2>2. task'[p][s].stack = st
    <3>1. task \in [Process -> [Slot -> Task]] /\ task[p][s] \in Task BY StackType DEF TypeInv
    <3> QED BY <3>1, <1>13 DEF Task
  <2>3. ASSUME NEW q \in Process, NEW r \in Slot
        PROVE  /\ q # p \/ r # s => task'[q][r] = task[q][r]
               /\ task'[q][r].todo = task[q][r].todo
    BY <2>0, <1>13, StackSet
  <2> QED BY <2>1, <2>2, <2>3
<1>17. TypeInv' BY <1>2, <1>5, <1>7, <1>16, <1>4 DEF TypeInv, Id
<1>18. Grown /\ RowsInv' /\ Id' = Id \cup {w} BY <1>2, <1>9, <1>17, InsertedHolds
<1>19. TaskInv'
  <2>1. FrameOK(g)' BY <1>10, <1>11, <1>17, BeginNew
  <2>2. StackOK(st)' BY <1>14, <1>15, <2>1 DEF StackOK
  <2>3. TopFresh(p, s, st) BY <1>14, <1>15 DEF TopFresh
  <2>4. OthersStay(p, s)
    <3> SUFFICES ASSUME NEW q \in Process, NEW r \in Slot, q # p \/ r # s, Between(q, r)
                 PROVE  Top(q, r).child \notin Range(rows'[Top(q, r).id].kids)
      BY <1>16 DEF OthersStay
    <3>1. Top(q, r).id \in Id BY TopFacts DEF Between, FrameOK
    <3>2. rows'[Top(q, r).id].kids = rows[Top(q, r).id].kids BY <3>1, <1>8
    <3> QED BY <3>2 DEF TaskInv, Fresh
  <2>5. ListsOK BY <1>16, <1>18 DEF ListsOK, TaskInv
  <2> QED BY <1>1, <1>15, <1>16, <1>17, <1>18, <2>2, <2>3, <2>4, <2>5, TaskOne
<1>20. CountInv'
  <2> SUFFICES ASSUME NEW v \in Id' PROVE IsFiniteSet(Live(v)') /\ Counts(v)'
    BY DEF CountInv
  <2>1. PICK x : x = <<p, s, 1>> OBVIOUS
  <2>2. \A q \in Process, r \in Slot :
           q # p \/ r # s => task'[q][r].stack = task[q][r].stack
    BY <1>16
  <2>3. CASE v \in Id
    <3>1. IsFiniteSet(Live(v)) /\ Counts(v) /\ v # w BY <2>3, <1>5 DEF CountInv
    <3>2. {} \in SUBSET Place OBVIOUS
    <3>3. \A k \in 1 .. Len(st) : ~Lives(st[k], v) BY <1>14, <1>15, <3>1 DEF Lives
    <3>4. Live(v)' \subseteq Live(v) \cup {}
      <4>1. task'[p][s].stack = st BY <1>16
      <4>2. \A k \in 1 .. Len(st) :
               Lives(st[k], v) => <<p, s, k>> \in Live(v) \/ <<p, s, k>> \in {}
        BY <3>3
      <4> HIDE DEF IInv
      <4> QED BY <4>1, <4>2, <2>2, <3>2, LiveOne
    <3>5. /\ IsFiniteSet(Live(v)') /\ Cardinality(Live(v)') \in Nat
          /\ Cardinality(Live(v)) \in Nat /\ Cardinality(Live(v)') <= Cardinality(Live(v))
      BY <3>1, <3>4, Fewer
    <3>6. v # Nil BY <2>3, <1>5, ChildAssumption, RowType
    <3>7. Orphans(v)' \subseteq Orphans(v)
      BY <1>2, <1>9, <1>17, <2>3, <3>6, OrphansInserted
    <3>8. IsFiniteSet(Orphans(v)) BY OrphansFinite
    <3>9. /\ Cardinality(Orphans(v)') <= Cardinality(Orphans(v))
          /\ Cardinality(Orphans(v)') \in Nat /\ Cardinality(Orphans(v)) \in Nat
      BY <3>7, <3>8, Fewer
    <3>10. rows'[v] = rows[v] /\ good' = good /\ rows[v].runs \in Nat
      BY <1>2, <1>8, <2>3, RowType DEF Row
    <3> QED BY <3>1, <3>5, <3>9, <3>10 DEF Counts, Deleted
  <2>4. CASE v = w
    <3>1. {x} \in SUBSET Place BY <2>1, <1>1 DEF Place
    <3>2. \A k \in 1 .. Len(st) : <<p, s, k>> \in {x} BY <1>15, <2>1
    <3>3. Live(v)' \subseteq Live(v) \cup {x} BY <1>1, <1>16, <2>2, <3>1, <3>2, LiveOne
    <3>4. Live(v) = {} BY <1>5, <2>4, NoneLive
    <3>5. Live(v)' \subseteq {x} BY <3>3, <3>4
    <3>6. IsFiniteSet({x}) /\ Cardinality({x}) = 1 BY FS_Singleton
    <3>7. /\ IsFiniteSet(Live(v)') /\ Cardinality(Live(v)') \in Nat
          /\ Cardinality(Live(v)') <= 1
      BY <3>5, <3>6, Fewer
    <3>8. Orphans(v)' = {} BY <1>2, <1>5, <1>9, <1>17, <2>4, OrphansInserted
    <3>9. Cardinality(Orphans(v)') = 0 BY <3>8, FS_EmptySet
    <3>10. v \notin good' BY <1>2, <1>5, <2>4 DEF TypeInv
    <3>11. rows'[v].runs = 1 BY <1>4, <1>7, <2>4
    <3> QED BY <3>7, <3>9, <3>10, <3>11 DEF Counts
  <2> QED BY <1>18, <2>3, <2>4
<1> QED BY <1>17, <1>18, <1>19, <1>20

LEMMA RunRootHolds ==
    ASSUME IInv, NEW p \in Process, NEW n \in Root, RunRoot(p, n) PROVE IInv'
<1>1. "run" \in Slot BY DEF Slot
<1> QED BY <1>1, RootHolds DEF RunRoot

\* What a journal names exists.
LEMMA KidsExist ==
    ASSUME TypeInv, RowsInv, NEW w \in Id PROVE Range(rows[w].kids) \subseteq Id
<1>1. rows[w].kids \in Seq(Nat) /\ DOMAIN rows[w].kids = 1 .. Len(rows[w].kids) BY RowType
<1>2. Range(rows[w].kids) = {rows[w].kids[i] : i \in 1 .. Len(rows[w].kids)}
  BY <1>1, RangeEquality
<1>3. ASSUME NEW i \in 1 .. Len(rows[w].kids) PROVE rows[w].kids[i] \in Id
  <2>1. ChildOK(w, i) BY <1>1 DEF RowsInv, RowOK
  <2> QED BY <2>1 DEF ChildOK
<1> QED BY <1>2, <1>3

\* The execution once its child has a row.
LEMMA InsertingOK ==
    ASSUME TypeInv, TypeInv', RowsInv, NEW f \in Frame, FrameOK(f), f.at = "body",
           f.pc <= Len(Body[rows[f.id].name]), Body[rows[f.id].name][f.pc].op = "call",
           NEW c, c = Len(rows) + 1, Inserted(f.id), good' = good,
           rows'[c].name = Body[rows[f.id].name][f.pc].name,
           NEW g, g = [f EXCEPT !.at = "checkpoint", !.child = c]
    PROVE  g \in Frame /\ FrameOK(g)' /\ g.id = f.id /\ g.at = "checkpoint" /\ g.child = c
<1>1. PICK n : n = rows[f.id].name OBVIOUS
<1>2. /\ f.id \in Id /\ n \in Name /\ f.pc \in Nat /\ f.pc >= 1 /\ f.steps \in Nat
      /\ Len(Body[n]) \in Nat
  BY <1>1, FrameType
<1>3. /\ c \in Nat /\ Id' = Id \cup {c}
  BY <1>2, InsertedHolds
<1>4. /\ g.id = f.id /\ g.pc = f.pc /\ g.steps = f.steps /\ g.at = "checkpoint"
      /\ g.child = c
  BY DEF Frame
<1>5. g \in Frame BY <1>3 DEF Frame
<1>6. /\ rows'[f.id].name = n /\ rows'[f.id].kids = rows[f.id].kids
      /\ rows'[f.id].status = rows[f.id].status
      /\ rows'[c].parent = f.id
  BY <1>1, <1>2 DEF Inserted
<1>7. InCall(g)'
  <2>1. Body[n][f.pc] = [op |-> "call", name |-> Body[n][f.pc].name] BY <1>1, <1>2, OpFacts
  <2> QED BY <2>1, <1>1, <1>3, <1>4, <1>6 DEF InCall
<1>8. ASSUME ~Deleted(f.id)' PROVE Behind(g)'
  <2>1. ~Deleted(f.id) BY <1>6, <1>8 DEF Deleted
  <2>2. f.steps <= Len(rows[f.id].kids) BY <2>1 DEF FrameOK, Behind
  <2>3. ASSUME Awaiting(n), NEW i \in 1 .. f.steps PROVE rows[f.id].kids[i] \in good
    BY <2>1, <2>3, <1>1, NoneAwaited
  <2> QED BY <2>2, <2>3, <1>4, <1>6 DEF Behind
<1>9. f.pc \in 1 .. Len(Body[n]) + 1 /\ f.steps = CallsBefore(n, f.pc) BY <1>1 DEF FrameOK
<1> QED BY <1>2, <1>3, <1>4, <1>5, <1>6, <1>7, <1>8, <1>9 DEF FrameOK

LEMMA InsertChildHolds ==
    ASSUME IInv, NEW p \in Process, NEW s \in Slot, InsertChild(p, s) PROVE IInv'
<1> USE DEF IInv
<1> PICK f : f = Top(p, s) OBVIOUS
<1> PICK old : old = task[p][s].stack OBVIOUS
<1> PICK c : c = Len(rows) + 1 OBVIOUS
<1>1. At(p, s, "call") BY DEF InsertChild
<1>2. /\ Busy(p, s) /\ f \in Frame /\ FrameOK(f) /\ f.at = "body"
      /\ f.pc <= Len(Body[rows[f.id].name]) /\ Body[rows[f.id].name][f.pc].op = "call"
  BY <1>1, AtFacts
<1>3. UNCHANGED <<state, doomed, faults, good>> BY DEF InsertChild
<1>4. PICK n : n = Body[rows[f.id].name][f.pc].name OBVIOUS
<1>5. f.id \in Id /\ n \in Name
  <2>1. /\ f.id \in Id /\ rows[f.id].name \in Name /\ f.pc \in Nat /\ f.pc >= 1
    BY <1>2, FrameType
  <2> QED BY <2>1, <1>2, <1>4, OpFacts
<1>6. rows' = Insert(n, p, f.id) BY <1>4 DEF InsertChild, Op
<1>7. /\ rows' \in Seq(Row) /\ Len(rows') = c
      /\ \A v \in Id : rows'[v] = rows[v]
      /\ rows'[c].parent = f.id /\ rows'[c].kids = <<>>
      /\ rows'[c].status = "PENDING" /\ rows'[c].runs = 0 /\ rows'[c].name = n
  <2>1. PICK q : q = rows' OBVIOUS
  <2>2. q = Insert(n, p, f.id) /\ f.id \in Id \cup {Nil} BY <1>5, <1>6, <2>1
  <2>3. q \in Seq(Row) /\ Len(q) = c BY <1>5, <2>2, InsertType
  <2>4. \A v \in Id : q[v] = rows[v] BY <1>5, <2>2, InsertType
  <2>5. q[c].parent = f.id /\ q[c].kids = <<>> BY <1>5, <2>2, InsertType
  <2>6. q[c].status = "PENDING" /\ q[c].runs = 0 /\ q[c].name = n BY <1>5, <2>2, InsertType
  <2> QED BY <2>1, <2>3, <2>4, <2>5, <2>6
<1>8. Inserted(f.id) BY <1>7 DEF Inserted
<1>9. PICK g : g = [f EXCEPT !.at = "checkpoint", !.child = c] OBVIOUS
<1>10. SetTop(p, s, g) BY <1>9 DEF InsertChild
<1>11. PICK st : st = Append(Front(old), g) OBVIOUS
<1>12. task' = [task EXCEPT ![p][s].stack = st] BY <1>10, <1>11 DEF SetTop
<1>13. old \in Seq(Frame) /\ old # <<>> BY <1>2, StackType DEF Busy
<1>14. c \in Nat BY <1>7, LenProperties
<1>15. g \in Frame BY <1>2, <1>9, <1>14 DEF Frame
<1>16. st \in Seq(Frame) BY <1>11, <1>13, <1>15, ReplaceTop
<1>17. Len(st) = Len(old) /\ st # <<>>
  <2>1. Len(st) = Len(old) BY <1>11, <1>13, <1>15, ReplaceTop
  <2>2. st # <<>> BY <1>11, <1>13, <1>15, ReplaceTop
  <2> QED BY <2>1, <2>2
<1>18. \A k \in 1 .. Len(old) - 1 : st[k] = old[k] BY <1>11, <1>13, <1>15, ReplaceTop
<1>19. st[Len(old)] = g BY <1>11, <1>13, <1>15, ReplaceTop
<1>20. f = old[Len(old)] /\ Len(old) \in Nat \ {0} BY <1>2, TopFacts
<1>21. /\ task' \in [Process -> [Slot -> Task]]
       /\ task'[p][s].stack = st
       /\ \A q \in Process, r \in Slot :
             /\ q # p \/ r # s => task'[q][r] = task[q][r]
             /\ task'[q][r].todo = task[q][r].todo
  BY <1>12, <1>16, StackSet, ZenonT(30)
<1>22. Id' = 1 .. c /\ Id \subseteq 1 .. c
  BY <1>7, LenProperties DEF Id, TypeInv
<1>23. TypeInv' BY <1>3, <1>7, <1>21, <1>22 DEF TypeInv
<1>24. Grown /\ RowsInv' /\ c \notin Id /\ c # Nil /\ Id' = Id \cup {c}
  BY <1>3, <1>5, <1>8, <1>23, InsertedHolds
<1>25. FrameOK(g)' /\ g.id = f.id /\ g.at = "checkpoint" /\ g.child = c
  <2>1. TypeInv /\ RowsInv /\ TypeInv' BY <1>23
  <2>2. rows'[c].name = Body[rows[f.id].name][f.pc].name BY <1>4, <1>7
  <2>3. good' = good BY <1>3
  <2>4. FrameOK(g)' BY <1>2, <1>8, <1>9, <2>1, <2>2, <2>3, InsertingOK
  <2> HIDE DEF IInv
  <2>5. g.id = f.id /\ g.at = "checkpoint" /\ g.child = c BY <1>2, <1>9 DEF Frame
  <2> QED BY <2>4, <2>5
<1>26. TaskInv'
  <2>1. StackOK(old)' BY <1>13, <1>23, <1>24, StackGrown DEF TaskInv
  <2>2. Len(old) \in 1 .. Len(old) BY <1>20
  <2>3. StackOK(st)'
    BY <2>1, <2>2, <1>13, <1>15, <1>16, <1>17, <1>18, <1>19, <1>20, <1>25, StackCut
  <2>4. ASSUME NEW q \in Process, NEW r \in Slot, Between(q, r)
        PROVE  Top(q, r).id \in Id /\ Top(q, r).child # c
    <3>1. Top(q, r).id \in Id /\ Top(q, r).child \in Id \cup {Nil}
      BY <2>4, TopFacts DEF Between, FrameOK
    <3> QED BY <3>1, <1>24
  <2>5. TopFresh(p, s, st)
    <3>1. Range(rows[f.id].kids) \subseteq Id BY <1>5, KidsExist
    <3>2. c \notin Range(rows'[f.id].kids) BY <3>1, <1>5, <1>7, <1>24
    <3> QED BY <2>4, <3>2, <1>17, <1>19, <1>25 DEF TopFresh
  <2>6. OthersStay(p, s)
    <3> SUFFICES ASSUME NEW q \in Process, NEW r \in Slot, q # p \/ r # s, Between(q, r)
                 PROVE  Top(q, r).child \notin Range(rows'[Top(q, r).id].kids)
      BY <1>21 DEF OthersStay
    <3>1. rows'[Top(q, r).id].kids = rows[Top(q, r).id].kids BY <2>4, <1>7
    <3> QED BY <3>1 DEF TaskInv, Fresh
  <2>7. ListsOK BY <1>21, <1>24 DEF ListsOK, TaskInv
  <2>8. task'[p][s].stack = st BY <1>21
  <2> QED BY <1>16, <1>23, <1>24, <2>3, <2>5, <2>6, <2>7, <2>8, TaskOne
<1>27. CountInv'
  <2> SUFFICES ASSUME NEW v \in Id' PROVE IsFiniteSet(Live(v)') /\ Counts(v)'
    BY DEF CountInv
  <2>1. PICK x : x = <<p, s, Len(old)>> OBVIOUS
  <2>2. \A q \in Process, r \in Slot :
           q # p \/ r # s => task'[q][r].stack = task[q][r].stack
    BY <1>21
  <2>3. ASSUME NEW k \in 1 .. Len(st), Lives(st[k], v) PROVE <<p, s, k>> \in Live(v)
    <3>1. k \in 1 .. Len(old) /\ k \in Nat BY <1>17, <1>20
    <3>2. k # Len(old) BY <2>3, <1>19, <1>25 DEF Lives
    <3>3. st[k] = old[k] BY <3>1, <3>2, <1>18, <1>20
    <3> QED BY <3>1, <3>3, <2>3, LiveAt
  <2>4. Live(v)' \subseteq Live(v) \cup {}
    <3>1. {} \in SUBSET Place OBVIOUS
    <3>2. task'[p][s].stack = st BY <1>21
    <3> QED BY <2>2, <2>3, <3>1, <3>2, LiveOne
  <2>5. CASE v \in Id
    <3>1. IsFiniteSet(Live(v)) /\ Counts(v) BY <2>5 DEF CountInv
    <3>2. /\ rows'[v].runs = rows[v].runs /\ rows[v].runs \in Nat /\ good' = good
          /\ rows'[v].status = rows[v].status
      BY <1>3, <1>7, <2>5, RowType DEF Row
    <3>3. IsFiniteSet(Orphans(v)) BY OrphansFinite
    <3>4. CASE v # f.id
      <4>1. Orphans(v)' \subseteq Orphans(v)
        BY <1>3, <1>5, <1>8, <1>23, <2>5, <3>4, OrphansInserted
      <4>2. /\ Cardinality(Orphans(v)') <= Cardinality(Orphans(v))
            /\ Cardinality(Orphans(v)') \in Nat /\ Cardinality(Orphans(v)) \in Nat
        BY <3>3, <4>1, Fewer
      <4>3. /\ IsFiniteSet(Live(v)') /\ Cardinality(Live(v)') \in Nat
            /\ Cardinality(Live(v)) \in Nat /\ Cardinality(Live(v)') <= Cardinality(Live(v))
        BY <2>4, <3>1, Fewer
      <4> QED BY <3>1, <3>2, <4>2, <4>3 DEF Counts, Deleted
    <3>5. CASE v = f.id
      <4>1. Orphans(v)' \subseteq Orphans(v) \cup {c}
        BY <1>3, <1>5, <1>8, <1>23, <2>5, OrphansInserted
      <4>2. /\ Cardinality(Orphans(v)') <= Cardinality(Orphans(v)) + 1
            /\ Cardinality(Orphans(v)') \in Nat /\ Cardinality(Orphans(v)) \in Nat
        BY <3>3, <4>1, OneMore
      <4>3. x \in Live(v)
        <5>1. Len(old) \in 1 .. Len(old) BY <1>20
        <5>2. old[Len(old)].id = v /\ old[Len(old)].at = "body" BY <1>2, <1>20, <3>5
        <5>3. Lives(old[Len(old)], v) BY <5>2 DEF Lives
        <5> QED BY <5>1, <5>3, <1>20, <2>1, LiveAt
      <4>4. x \notin Live(v)'
        <5>1. ~Lives(task'[p][s].stack[Len(old)], v) BY <1>19, <1>21, <1>25 DEF Lives
        <5> QED BY <5>1, <1>20, <2>1, LiveAt
      <4>5. /\ IsFiniteSet(Live(v)') /\ Cardinality(Live(v)') \in Nat
            /\ Cardinality(Live(v)) \in Nat
            /\ Cardinality(Live(v)') + 1 <= Cardinality(Live(v))
        BY <2>4, <3>1, <4>3, <4>4, OneFewer
      <4> QED BY <3>1, <3>2, <4>2, <4>5 DEF Counts, Deleted
    <3> QED BY <3>4, <3>5
  <2>6. CASE v = c
    <3>1. Live(v) = {} BY <1>24, <2>6, NoneLive
    <3>2. Live(v)' = {} BY <2>4, <3>1
    <3>3. Orphans(v)' = {} BY <1>3, <1>5, <1>8, <1>23, <1>24, <2>6, OrphansInserted
    <3>4. v \notin good' BY <1>3, <1>24, <2>6 DEF TypeInv
    <3>5. rows'[v].runs = 0 BY <1>7, <2>6
    <3>6. IsFiniteSet({}) /\ Cardinality({}) = 0 BY FS_EmptySet
    <3> QED BY <3>2, <3>3, <3>4, <3>5, <3>6 DEF Counts
  <2> QED BY <1>24, <2>5, <2>6
<1> QED BY <1>23, <1>24, <1>26, <1>27
-----------------------------------------------------------------------------
(* The journal names a child, which is executed.                           *)

Naming(w, c) ==
    /\ Len(rows') = Len(rows)
    /\ \A v \in Id :
          /\ rows'[v].name = rows[v].name /\ rows'[v].parent = rows[v].parent
          /\ rows'[v].status = rows[v].status
          /\ v # w => rows'[v].kids = rows[v].kids
          /\ v # c => rows'[v].runs = rows[v].runs
    /\ rows'[w].kids = Append(rows[w].kids, c)
    /\ rows'[c].runs = rows[c].runs + 1
    /\ good' = good

LEMMA NamingType ==
    ASSUME TypeInv, NEW w \in Id, NEW c \in Id, c # w, good' = good,
           rows' = Counted([rows EXCEPT ![w].kids = Append(@, c)], c)
    PROVE  rows' \in Seq(Row) /\ Naming(w, c)
<1>1. rows \in Seq(Row) /\ Id = 1 .. Len(rows) BY DEF TypeInv, Id
<1>2. rows[w] \in Row /\ rows[w].kids \in Seq(Nat) /\ c \in Nat BY RowType
<1>3. PICK t : t = Append(rows[w].kids, c) OBVIOUS
<1>4. t \in Seq(Nat) BY <1>2, <1>3, AppendProperties
<1>5. PICK r : r = [rows[w] EXCEPT !.kids = t] OBVIOUS
<1>6. r \in Row BY <1>2, <1>4, <1>5 DEF Row
<1>7. /\ r.name = rows[w].name /\ r.parent = rows[w].parent /\ r.kids = t
      /\ r.status = rows[w].status /\ r.runs = rows[w].runs
  BY <1>2, <1>5 DEF Row
<1>8. PICK mid : mid = [rows EXCEPT ![w].kids = Append(@, c)] OBVIOUS
<1>9. mid = [rows EXCEPT ![w] = r] BY <1>3, <1>5, <1>8
<1>10. mid \in Seq(Row) BY <1>1, <1>6, <1>9, RowSet
<1>11. Len(mid) = Len(rows) /\ mid[w] = r BY <1>1, <1>6, <1>9, RowSet
<1>12. \A v \in Id : v # w => mid[v] = rows[v] BY <1>1, <1>6, <1>9, RowSet
<1>13. PICK q : q = rows' OBVIOUS
<1>14. q = Counted(mid, c) BY <1>8, <1>13
<1>15. c \in 1 .. Len(mid) /\ Id = 1 .. Len(mid) BY <1>1, <1>11
<1>16. q \in Seq(Row) /\ Len(q) = Len(mid)
  <2>1. q \in Seq(Row) BY <1>10, <1>14, <1>15, RowCounted
  <2>2. Len(q) = Len(mid) BY <1>10, <1>14, <1>15, RowCounted
  <2> QED BY <2>1, <2>2
<1>17. q[c].name = mid[c].name /\ q[c].parent = mid[c].parent
  BY <1>10, <1>14, <1>15, RowCounted
<1>18. q[c].kids = mid[c].kids /\ q[c].status = mid[c].status
  BY <1>10, <1>14, <1>15, RowCounted
<1>19. q[c].runs = mid[c].runs + 1 BY <1>10, <1>14, <1>15, RowCounted
<1>20. \A v \in Id : v # c => q[v] = mid[v]
  <2>1. \A v \in 1 .. Len(mid) : v # c => q[v] = mid[v]
    BY <1>10, <1>14, <1>15, RowCounted, ZenonT(30)
  <2> QED BY <2>1, <1>15
<1>21. mid[c] = rows[c] /\ q[w] = r BY <1>11, <1>12, <1>20
<1>22. ASSUME NEW v \in Id
       PROVE  /\ q[v].name = rows[v].name /\ q[v].parent = rows[v].parent
              /\ q[v].status = rows[v].status
              /\ v # w => q[v].kids = rows[v].kids
              /\ v # c => q[v].runs = rows[v].runs
  <2>1. CASE v = w BY <2>1, <1>7, <1>21
  <2>2. CASE v = c BY <2>2, <1>17, <1>18, <1>21
  <2>3. CASE v # w /\ v # c BY <2>3, <1>12, <1>20
  <2> QED BY <2>1, <2>2, <2>3
<1>23. q[w].kids = Append(rows[w].kids, c) BY <1>3, <1>7, <1>21
<1>24. q[c].runs = rows[c].runs + 1 BY <1>19, <1>21
<1> QED BY <1>11, <1>13, <1>16, <1>22, <1>23, <1>24 DEF Naming

LEMMA NamingGrown ==
    ASSUME TypeInv, NEW w \in Id, NEW c \in Id, Naming(w, c)
    PROVE  /\ Grown /\ Id' = Id
           /\ rows'[w].kids \in Seq(Nat)
           /\ Len(rows'[w].kids) = Len(rows[w].kids) + 1
           /\ \A i \in 1 .. Len(rows[w].kids) : rows'[w].kids[i] = rows[w].kids[i]
           /\ rows'[w].kids[Len(rows[w].kids) + 1] = c
           /\ Range(rows'[w].kids) = Range(rows[w].kids) \cup {c}
<1> PICK k : k = rows[w].kids OBVIOUS
<1> PICK t : t = rows'[w].kids OBVIOUS
<1>1. k \in Seq(Nat) /\ c \in Nat BY RowType
<1>2. t = Append(k, c) BY DEF Naming
<1>3. t \in Seq(Nat) BY <1>1, <1>2, AppendProperties
<1>4. Len(t) = Len(k) + 1 /\ Len(k) \in Nat BY <1>1, <1>2, AppendProperties, LenProperties
<1>5. \A i \in 1 .. Len(k) : t[i] = k[i] BY <1>1, <1>2, AppendProperties
<1>6. t[Len(k) + 1] = c BY <1>1, <1>2, AppendProperties
<1>7. Range(t) = Range(k) \cup {c}
  <2>1. Range(k) = {k[i] : i \in 1 .. Len(k)} BY <1>1, RangeEquality, SMTT(60)
  <2>2. Range(t) = {t[i] : i \in 1 .. Len(t)} BY <1>3, RangeEquality
  <2>3. ASSUME NEW x \in Range(t) PROVE x \in Range(k) \cup {c}
    <3>1. PICK i \in 1 .. Len(t) : x = t[i] BY <2>2
    <3>2. i \in 1 .. Len(k) \/ i = Len(k) + 1 BY <1>4
    <3> QED BY <3>1, <3>2, <2>1, <1>5, <1>6
  <2>4. ASSUME NEW x \in Range(k) PROVE x \in Range(t)
    <3>1. PICK i \in 1 .. Len(k) : x = k[i] BY <2>1
    <3>2. i \in 1 .. Len(t) /\ t[i] = x BY <3>1, <1>4, <1>5
    <3> QED BY <3>2, <2>2
  <2>5. c \in Range(t)
    <3>1. Len(k) + 1 \in 1 .. Len(t) BY <1>4
    <3> QED BY <3>1, <2>2, <1>6
  <2> QED BY <2>3, <2>4, <2>5
<1>8. Len(rows) \in Nat BY LenProperties DEF TypeInv
<1>9. ASSUME NEW v \in Id
      PROVE  /\ Len(rows[v].kids) <= Len(rows'[v].kids)
             /\ \A i \in 1 .. Len(rows[v].kids) : rows'[v].kids[i] = rows[v].kids[i]
  <2>1. Len(rows[v].kids) \in Nat BY RowType
  <2>2. CASE v = w BY <2>1, <2>2, <1>4, <1>5
  <2>3. CASE v # w BY <2>1, <2>3 DEF Naming
  <2> QED BY <2>2, <2>3
<1>10. Grown BY <1>8, <1>9 DEF Grown, Naming
<1>11. Id' = Id BY DEF Id, Naming
<1> QED BY <1>3, <1>4, <1>5, <1>6, <1>7, <1>10, <1>11

\* The child that is named is that of the next call, and no other step's.
LEMMA NamingRows ==
    ASSUME TypeInv, TypeInv', RowsInv, NEW f \in Frame, FrameOK(f), InCall(f),
           ~Deleted(f.id), Len(rows[f.id].kids) = f.steps,
           f.child \notin Range(rows[f.id].kids), Naming(f.id, f.child)
    PROVE  RowsInv'
<1> PICK w : w = f.id OBVIOUS
<1> PICK c : c = f.child OBVIOUS
<1> PICK n : n = rows[w].name OBVIOUS
<1> PICK l : l = f.steps OBVIOUS
<1> PICK t : t = rows'[w].kids OBVIOUS
<1>1. w \in Id /\ n \in Name /\ f.pc \in Nat /\ f.pc >= 1 /\ l \in Nat /\ Len(Body[n]) \in Nat
  BY FrameType
<1>2. /\ c \in Id /\ rows[c].parent = w /\ f.pc <= Len(Body[n])
      /\ Body[n][f.pc] = [op |-> "call", name |-> rows[c].name]
  BY DEF InCall
<1>3. Naming(w, c) OBVIOUS
<1>4. Grown /\ Id' = Id BY <1>1, <1>2, <1>3, NamingGrown
<1>5. t \in Seq(Nat) /\ Len(t) = l + 1
  BY <1>1, <1>2, <1>3, NamingGrown
<1>6. \A i \in 1 .. l : t[i] = rows[w].kids[i] BY <1>1, <1>2, <1>3, NamingGrown, SMTT(60)
<1>7. t[l + 1] = c BY <1>1, <1>2, <1>3, NamingGrown, SMTT(60)
<1>8. DOMAIN t = 1 .. l + 1 BY <1>5, LenProperties
<1>9. /\ rows'[w].name = n /\ rows'[w].parent = rows[w].parent
      /\ rows'[w].status = rows[w].status
      /\ rows'[c].name = rows[c].name /\ rows'[c].parent = w
  BY <1>1, <1>2, <1>3 DEF Naming
<1>10. DOMAIN rows[w].kids = 1 .. l /\ rows[w].kids \in Seq(Nat) BY <1>1, RowType
<1>11. \A i \in 1 .. l : rows[w].kids[i] # c
  <2>1. Range(rows[w].kids) = {rows[w].kids[i] : i \in 1 .. Len(rows[w].kids)}
    BY <1>10, RangeEquality
  <2> QED BY <2>1
<1>12. CallsBefore(n, f.pc) = l BY DEF FrameOK
<1>13. ASSUME NEW i \in 1 .. l + 1 PROVE ChildOK(w, i)'
  <2>1. CASE i \in 1 .. l
    <3>1. ChildOK(w, i) BY <1>1, <1>10, <2>1 DEF RowsInv, RowOK
    <3>2. PICK d : d = rows[w].kids[i] OBVIOUS
    <3>3. d \in Id /\ rows[d].parent = w BY <3>1, <3>2 DEF ChildOK
    <3>4. PICK k \in DOMAIN Body[n] :
             /\ Body[n][k] = [op |-> "call", name |-> rows[d].name]
             /\ CallsBefore(n, k) = i - 1
      BY <3>1, <3>2 DEF ChildOK
    <3>5. rows'[d].name = rows[d].name /\ rows'[d].parent = w BY <3>3, <1>3 DEF Naming
    <3>6. ASSUME NEW j \in 1 .. l + 1, t[j] = d PROVE i = j
      <4>1. CASE j \in 1 .. l
        <5>1. rows[w].kids[j] = d BY <3>6, <4>1, <1>6
        <5> QED BY <5>1, <4>1, <3>1, <3>2, <1>10 DEF ChildOK
      <4>2. CASE j = l + 1 BY <4>2, <3>2, <3>6, <2>1, <1>7, <1>11
      <4> QED BY <4>1, <4>2, <1>1
    <3>7. t[i] = d BY <2>1, <3>2, <1>6
    <3>8. \E m \in DOMAIN Body[n] :
             /\ Body[n][m] = [op |-> "call", name |-> rows'[d].name]
             /\ CallsBefore(n, m) = i - 1
      BY <3>4, <3>5
    <3> QED BY <3>3, <3>5, <3>6, <3>7, <3>8, <1>4, <1>8, <1>9 DEF ChildOK
  <2>2. CASE i = l + 1
    <3>1. f.pc \in DOMAIN Body[n]
      <4>1. Body[n] \in Seq(Ops) BY <1>1, LenBody
      <4> QED BY <4>1, <1>1, <1>2, LenProperties
    <3>2. \E m \in DOMAIN Body[n] :
             /\ Body[n][m] = [op |-> "call", name |-> rows'[c].name]
             /\ CallsBefore(n, m) = i - 1
      <4>1. CallsBefore(n, f.pc) = i - 1 BY <2>2, <1>1, <1>12
      <4> QED BY <3>1, <4>1, <1>2, <1>9
    <3>3. ASSUME NEW j \in 1 .. l + 1, t[j] = c PROVE i = j
      <4>1. CASE j \in 1 .. l BY <4>1, <3>3, <1>6, <1>11
      <4> QED BY <4>1, <2>2, <1>1
    <3>4. t[i] = c BY <2>2, <1>7
    <3> QED BY <3>2, <3>3, <3>4, <1>2, <1>4, <1>8, <1>9 DEF ChildOK
  <2> QED BY <2>1, <2>2, <1>1
<1>14. rows[w].status # "SUCCESS"
  <2>1. SUFFICES ASSUME rows[w].status = "SUCCESS" PROVE FALSE OBVIOUS
  <2>2. SuccessOK(w) BY <1>1 DEF RowsInv, RowOK
  <2>3. l = Calls(n) BY <2>1, <2>2 DEF SuccessOK
  <2>4. CallsBefore(n, f.pc + 1) = l + 1
    <3>1. f.pc \in Nat \ {0} /\ Body[n][f.pc].op = "call" BY <1>1, <1>2
    <3>2. CallsBefore(n, f.pc + 1) = CallsBefore(n, f.pc) + 1 BY <3>1, <1>1, CallsStep
    <3> QED BY <3>2, <1>12
  <2>5. CallsBefore(n, f.pc + 1) <= CallsBefore(n, Len(Body[n]) + 1)
    <3>1. f.pc + 1 \in Nat /\ Len(Body[n]) + 1 \in Nat /\ f.pc + 1 <= Len(Body[n]) + 1
      BY <1>1, <1>2, SMTT(60)
    <3> QED BY <3>1, <1>1, CallsMonotone
  <2> QED BY <2>3, <2>4, <2>5, <1>1 DEF Calls
<1>15. RowOK(w)'
  <2>1. RowOK(w) BY <1>1 DEF RowsInv
  <2>2. SuccessOK(w)' BY <1>9, <1>14 DEF SuccessOK
  <2>3. ~Deleted(w)' BY <1>9 DEF Deleted
  <2> QED BY <2>1, <2>2, <2>3, <1>8, <1>9, <1>13 DEF RowOK
<1>16. ASSUME NEW v \in Id, v # w PROVE RowOK(v)'
  <2>1. RowOK(v) BY DEF RowsInv
  <2>2. rows'[v].kids = rows[v].kids /\ rows'[v].status = rows[v].status
    BY <1>3, <1>16 DEF Naming
  <2> QED BY <1>4, <2>1, <2>2, RowSame
<1> QED BY <1>4, <1>15, <1>16 DEF RowsInv

\* The caller once its journal names the child.
LEMMA NamedOK ==
    ASSUME TypeInv, TypeInv', NEW f \in Frame, FrameOK(f), f.at = "checkpoint", InCall(f),
           ~Deleted(f.id), Len(rows[f.id].kids) = f.steps, Naming(f.id, f.child),
           NEW g, g = [f EXCEPT !.at = "calling"]
    PROVE  g \in Frame /\ FrameOK(g)'
<1>1. /\ g.id = f.id /\ g.pc = f.pc /\ g.steps = f.steps /\ g.at = "calling"
      /\ g.child = f.child
  BY DEF Frame
<1>2. g \in Frame BY DEF Frame
<1>3. f.id \in Id /\ f.child \in Id /\ f.steps \in Nat BY FrameType DEF InCall
<1>4. Grown BY <1>3, NamingGrown
<1>5. Len(rows'[f.id].kids) = f.steps + 1 BY <1>3, NamingGrown
<1>6. rows'[f.id].kids[f.steps + 1] = f.child BY <1>3, NamingGrown, SMTT(60)
<1>7. FrameOK(f)' BY <1>4, FrameGrown
<1>8. InCall(g)' BY <1>1, <1>7 DEF FrameOK, InCall
<1>9. ASSUME ~Deleted(f.id)' PROVE Behind(g)'
  <2>1. Behind(f)' BY <1>7, <1>9 DEF FrameOK
  <2>2. f.steps < Len(rows'[f.id].kids) BY <1>3, <1>5
  <2> QED BY <2>1, <2>2, <1>1, <1>6 DEF Behind, Awaited
<1> QED BY <1>1, <1>2, <1>7, <1>8, <1>9 DEF FrameOK

\* The child was an orphan until its parent's journal names it.
LEMMA OrphansNamed ==
    ASSUME TypeInv, TypeInv', NEW w \in Id, NEW c \in Id, Naming(w, c), ~Deleted(w),
           rows[c].parent = w, c \notin Range(rows[w].kids), w # Nil
    PROVE  /\ IsFiniteSet(Orphans(w)') /\ Cardinality(Orphans(w)') \in Nat
           /\ Cardinality(Orphans(w)) \in Nat
           /\ Cardinality(Orphans(w)') + 1 <= Cardinality(Orphans(w))
<1>1. Grown /\ Range(rows'[w].kids) = Range(rows[w].kids) \cup {c} BY NamingGrown
<1>2. Len(rows') = Len(rows) /\ rows'[w].status = rows[w].status /\ rows'[c].parent = w
  BY DEF Naming
<1>3. Orphans(w)' \subseteq Orphans(w) BY <1>1, <1>2, OrphansFewer DEF Deleted
<1>4. c \in Orphans(w) BY DEF Orphans, Orphan
<1>5. c \notin Orphans(w)' BY <1>1, <1>2 DEF Orphans, Orphan
<1>6. IsFiniteSet(Orphans(w)) BY OrphansFinite
<1> QED BY <1>3, <1>4, <1>5, <1>6, OneFewer

\* The caller is in its call, the child begins.
PushedOn(old, g, h, st) ==
    /\ st \in Seq(Frame) /\ Len(st) = Len(old) + 1
    /\ \A k \in 1 .. Len(old) - 1 : st[k] = old[k]
    /\ st[Len(old)] = g /\ st[Len(old) + 1] = h

LEMMA Pushed ==
    ASSUME NEW old, old \in Seq(Frame) /\ old # <<>>, NEW g, NEW h, g \in Frame /\ h \in Frame,
           NEW st, st = Append(Append(Front(old), g), h)
    PROVE  PushedOn(old, g, h, st)
<1>1. st \in Seq(Frame) BY PushTop
<1>2. Len(st) = Len(old) + 1 BY PushTop, SMTT(60)
<1>3. st[Len(old)] = g BY PushTop, SMTT(60)
<1>4. st[Len(old) + 1] = h BY PushTop, SMTT(60)
<1>5. \A k \in 1 .. Len(old) - 1 : st[k] = old[k] BY PushTop, SMTT(60)
<1> QED BY <1>1, <1>2, <1>3, <1>4, <1>5 DEF PushedOn

LEMMA NameChildHolds ==
    ASSUME IInv, NEW p \in Process, NEW s \in Slot, CheckpointChild(p, s),
           NEW f, f = Top(p, s), ~Taken(f), ~Deleted(f.id)
    PROVE  IInv'
<1>0. /\ Between(p, s) /\ Execute(p, s, f)
      /\ rows' = Counted([rows EXCEPT ![f.id].kids = Append(@, f.child)], f.child)
      /\ UNCHANGED <<state, doomed, faults, good>>
  BY DEF CheckpointChild, Between
<1> USE DEF IInv
<1> PICK old : old = task[p][s].stack OBVIOUS
<1> PICK w : w = f.id OBVIOUS
<1> PICK c : c = f.child OBVIOUS
<1>1. Busy(p, s) /\ f.at = "checkpoint" /\ Fresh(p, s) BY <1>0 DEF Between, TaskInv
<1>2. f \in Frame /\ FrameOK(f) BY <1>1, TopFacts
<1>3. InCall(f) BY <1>1, <1>2 DEF FrameOK
<1>4. w \in Id /\ c \in Id /\ rows[c].parent = w BY <1>2, <1>3 DEF FrameOK, InCall
<1>5. w # Nil /\ c # w
  <2>1. w \in Nat /\ c \in Nat BY <1>4, RowType
  <2>2. w # Nil BY <2>1, ChildAssumption
  <2>3. RowOK(c) BY <1>4 DEF RowsInv
  <2>4. w \in 1 .. c - 1 BY <2>2, <2>3, <1>4 DEF RowOK
  <2> QED BY <2>1, <2>2, <2>4
<1>6. Len(rows[w].kids) = f.steps
  <2>1. f.steps \in Nat /\ Len(rows[w].kids) \in Nat BY <1>2, FrameType
  <2>2. f.steps <= Len(rows[w].kids) BY <1>2 DEF FrameOK, Behind
  <2>3. ~(Len(rows[w].kids) > f.steps) BY DEF Taken
  <2> QED BY <2>1, <2>2, <2>3
<1>7. c \notin Range(rows[w].kids) BY <1>1 DEF Fresh
<1>8. good' = good /\ UNCHANGED <<state, doomed, faults, good>> BY <1>0
<1>9. rows' = Counted([rows EXCEPT ![w].kids = Append(@, c)], c) BY <1>0
<1>10. rows' \in Seq(Row) /\ Naming(w, c)
  <2>1. TypeInv OBVIOUS
  <2> HIDE DEF IInv
  <2> QED BY <2>1, <1>4, <1>5, <1>8, <1>9, NamingType
<1>11. PICK g : g = [f EXCEPT !.at = "calling"] OBVIOUS
<1>12. PICK h : h = Begin(c) OBVIOUS
<1>13. PICK st : st = Append(Append(Front(old), g), h) OBVIOUS
<1>14. task' = [task EXCEPT ![p][s].stack = st]
  BY <1>0, <1>11, <1>12, <1>13 DEF Execute
<1>15. old \in Seq(Frame) /\ old # <<>> BY <1>1, StackType DEF Busy
<1>16. g \in Frame /\ g.id = w /\ g.at = "calling" /\ g.child = c
  BY <1>2, <1>11 DEF Frame
<1>17. h \in Frame /\ h.id = c /\ h.at = "body" /\ FrameOK(h) BY <1>4, <1>12, BeginOK
<1>18. PushedOn(old, g, h, st)
  <2>1. g \in Frame /\ h \in Frame BY <1>16, <1>17
  <2> HIDE DEF IInv
  <2> QED BY <2>1, <1>13, <1>15, Pushed
<1>19. st \in Seq(Frame) /\ Len(st) = Len(old) + 1 BY <1>18 DEF PushedOn
<1>20. \A k \in 1 .. Len(old) - 1 : st[k] = old[k] BY <1>18 DEF PushedOn
<1>21. st[Len(old)] = g BY <1>18 DEF PushedOn
<1>22. st[Len(old) + 1] = h BY <1>18 DEF PushedOn
<1>23. f = old[Len(old)] /\ Len(old) \in Nat \ {0} BY <1>1, TopFacts
<1>24. /\ task' \in [Process -> [Slot -> Task]]
       /\ task'[p][s].stack = st
       /\ \A q \in Process, r \in Slot :
             /\ q # p \/ r # s => task'[q][r] = task[q][r]
             /\ task'[q][r].todo = task[q][r].todo
  BY <1>14, <1>19, StackSet, ZenonT(30)
<1>25. Len(rows') = Len(rows) /\ Id' = Id BY <1>10 DEF Naming, Id
<1>26. TypeInv' BY <1>8, <1>10, <1>24, <1>25 DEF TypeInv
<1>27. Grown BY <1>4, <1>10, NamingGrown
<1>28. RowsInv'
  <2>1. TypeInv /\ RowsInv /\ Len(rows[f.id].kids) = f.steps /\ Naming(f.id, f.child)
        /\ f.child \notin Range(rows[f.id].kids)
    BY <1>6, <1>7, <1>10
  <2> HIDE DEF IInv
  <2> QED BY <2>1, <1>2, <1>3, <1>26, NamingRows
<1>29. FrameOK(g)'
  <2>1. TypeInv /\ Len(rows[f.id].kids) = f.steps /\ Naming(f.id, f.child) BY <1>6, <1>10
  <2> HIDE DEF IInv
  <2> QED BY <2>1, <1>1, <1>2, <1>3, <1>11, <1>26, NamedOK
<1>30. TaskInv'
  <2>1. StackOK(old)' BY <1>15, <1>26, <1>27, StackGrown DEF TaskInv
  <2>2. FrameOK(h)' BY <1>17, <1>26, <1>27, FrameGrown
  <2>3. g.id = old[Len(old)].id /\ h.at # "calling" /\ g.child = h.id
    BY <1>16, <1>17, <1>23
  <2>4. StackOK(st)'
    BY <2>1, <2>2, <2>3, <1>13, <1>15, <1>16, <1>17, <1>29, StackPushed
  <2>5. st # <<>>
    <3>1. Len(st) # 0 BY <1>19, <1>23
    <3> QED BY <3>1, EmptySeq
  <2>6. TopFresh(p, s, st) BY <1>17, <1>19, <1>22 DEF TopFresh
  <2>7. OthersStay(p, s)
    <3> SUFFICES ASSUME NEW q \in Process, NEW r \in Slot, q # p \/ r # s, Between(q, r)
                 PROVE  Top(q, r).child \notin Range(rows'[Top(q, r).id].kids)
      BY <1>24 DEF OthersStay
    <3>1. Top(q, r).id \in Id BY TopFacts DEF Between, FrameOK
    <3>2. Top(q, r).child \notin Range(rows[Top(q, r).id].kids) BY DEF TaskInv, Fresh
    <3>3. CASE Top(q, r).id = w
      <4>1. Range(rows'[w].kids) = Range(rows[w].kids) \cup {c} BY <1>4, <1>10, NamingGrown
      <4>2. Top(q, r).child # c BY <1>1 DEF Fresh
      <4> QED BY <3>2, <3>3, <4>1, <4>2
    <3>4. CASE Top(q, r).id # w
      <4>1. rows'[Top(q, r).id].kids = rows[Top(q, r).id].kids
        BY <3>1, <3>4, <1>10 DEF Naming
      <4> QED BY <3>2, <4>1
    <3> QED BY <3>3, <3>4
  <2>8. ListsOK BY <1>24, <1>25 DEF ListsOK, TaskInv
  <2>9. TypeInv /\ TaskInv /\ task'[p][s].stack = st BY <1>24
  <2> HIDE DEF IInv
  <2> QED BY <1>19, <1>26, <1>27, <2>4, <2>6, <2>7, <2>8, <2>9, TaskOne
<1>31. CountInv'
  <2> SUFFICES ASSUME NEW v \in Id PROVE IsFiniteSet(Live(v)') /\ Counts(v)'
    BY <1>25 DEF CountInv
  <2>1. IsFiniteSet(Live(v)) /\ Counts(v) BY DEF CountInv
  <2>2. PICK x : x = <<p, s, Len(old)>> OBVIOUS
  <2>3. PICK y : y = <<p, s, Len(old) + 1>> OBVIOUS
  <2>4. \A q \in Process, r \in Slot :
           q # p \/ r # s => task'[q][r].stack = task[q][r].stack
    BY <1>24
  <2>5. ASSUME NEW k \in 1 .. Len(st), Lives(st[k], v)
        PROVE  <<p, s, k>> \in Live(v) \/ (k = Len(old) /\ v = w) \/ (k = Len(old) + 1 /\ v = c)
    <3>1. CASE k = Len(old) BY <3>1, <2>5, <1>16, <1>21 DEF Lives
    <3>2. CASE k = Len(old) + 1 BY <3>2, <2>5, <1>17, <1>22 DEF Lives
    <3>3. CASE k # Len(old) /\ k # Len(old) + 1
      <4>0. PICK m : m = Len(old) OBVIOUS
      <4>1. k \in 1 .. m - 1 /\ k \in 1 .. m /\ k \in Nat
        <5>1. m \in Nat /\ k \in 1 .. m + 1 BY <4>0, <1>19, <1>23
        <5> QED BY <5>1, <4>0, <3>3
      <4>2. Lives(old[k], v) BY <4>0, <4>1, <2>5, <1>20
      <4> QED BY <4>0, <4>1, <4>2, LiveAt
    <3> QED BY <3>1, <3>2, <3>3
  <2>6. task'[p][s].stack = st BY <1>24
  <2>7. {} \in SUBSET Place /\ {x} \in SUBSET Place /\ {y} \in SUBSET Place
    BY <1>23, <2>2, <2>3 DEF Place
  <2>8. CASE v = w
    <3>1. \A k \in 1 .. Len(st) : Lives(st[k], v) => <<p, s, k>> \in Live(v) \/ <<p, s, k>> \in {x}
      BY <2>2, <2>5, <2>8, <1>5
    <3>2. Live(v)' \subseteq Live(v) \cup {x} BY <2>4, <2>6, <2>7, <3>1, LiveOne
    <3>3. /\ IsFiniteSet(Live(v)') /\ Cardinality(Live(v)') \in Nat
          /\ Cardinality(Live(v)) \in Nat
          /\ Cardinality(Live(v)') <= Cardinality(Live(v)) + 1
      BY <2>1, <3>2, OneMore
    <3>4. ~Deleted(w) OBVIOUS
    <3>5. /\ Cardinality(Orphans(v)') \in Nat /\ Cardinality(Orphans(v)) \in Nat
          /\ Cardinality(Orphans(v)') + 1 <= Cardinality(Orphans(v))
      BY <3>4, <2>8, <1>4, <1>5, <1>7, <1>10, <1>26, OrphansNamed
    <3>6. rows'[v].runs = rows[v].runs /\ rows[v].runs \in Nat
      BY <2>8, <1>4, <1>5, <1>10, RowType DEF Naming, Row
    <3>7. Cardinality(Orphans(v)) + (IF v \in good THEN 1 ELSE 0) + Cardinality(Live(v))
             <= rows[v].runs
      BY <2>1, <2>8, <3>4 DEF Counts
    <3> QED BY <1>8, <3>3, <3>5, <3>6, <3>7 DEF Counts
  <2>9. CASE v # w
    <3>1. PICK More : More = IF v = c THEN {y} ELSE {} OBVIOUS
    <3>2. \A k \in 1 .. Len(st) : Lives(st[k], v) => <<p, s, k>> \in Live(v) \/ <<p, s, k>> \in More
      BY <2>3, <2>5, <2>9, <3>1
    <3>3. More \in SUBSET Place BY <2>7, <3>1
    <3>4. Live(v)' \subseteq Live(v) \cup More BY <2>4, <2>6, <3>2, <3>3, LiveOne
    <3>5. CASE v # c
      <4>1. Live(v)' \subseteq Live(v) BY <3>1, <3>4, <3>5
      <4>2. rows'[v].runs = rows[v].runs BY <3>5, <1>10 DEF Naming
      <4> QED BY <4>1, <4>2, <2>1, <1>8, <1>25, <1>26, <1>27, CountsKept
    <3>6. CASE v = c
      <4>1. Live(v)' \subseteq Live(v) \cup {y} BY <3>1, <3>4, <3>6
      <4>2. /\ IsFiniteSet(Live(v)') /\ Cardinality(Live(v)') \in Nat
            /\ Cardinality(Live(v)) \in Nat
            /\ Cardinality(Live(v)') <= Cardinality(Live(v)) + 1
        BY <2>1, <4>1, OneMore
      <4>3. ASSUME ~Deleted(v)' PROVE Counts(v)'
        <5>1. rows'[v].status # "DELETED" /\ ~Deleted(v)
          BY <4>3, <1>10 DEF Deleted, Naming
        <5>2. Orphans(v)' \subseteq Orphans(v) BY <5>1, <1>25, <1>26, <1>27, OrphansFewer
        <5>3. IsFiniteSet(Orphans(v)) BY OrphansFinite
        <5>4. /\ Cardinality(Orphans(v)') <= Cardinality(Orphans(v))
              /\ Cardinality(Orphans(v)') \in Nat /\ Cardinality(Orphans(v)) \in Nat
          BY <5>2, <5>3, Fewer
        <5>5. Cardinality(Orphans(v)) + (IF v \in good THEN 1 ELSE 0) + Cardinality(Live(v))
                 <= rows[v].runs
          BY <2>1, <5>1 DEF Counts
        <5>6. rows'[v].runs = rows[v].runs + 1 /\ rows[v].runs \in Nat
          BY <3>6, <1>10, RowType DEF Naming, Row
        <5> QED BY <1>8, <4>2, <5>4, <5>5, <5>6 DEF Counts
      <4> QED BY <4>2, <4>3 DEF Counts
    <3> QED BY <3>5, <3>6
  <2> QED BY <2>8, <2>9
<1> QED BY <1>26, <1>28, <1>30, <1>31

LEMMA CheckpointChildHolds ==
    ASSUME IInv, NEW p \in Process, NEW s \in Slot, CheckpointChild(p, s) PROVE IInv'
<1> PICK f : f = Top(p, s) OBVIOUS
<1>1. Between(p, s) /\ Busy(p, s) BY DEF CheckpointChild, Between
<1>2. UNCHANGED <<state, doomed, faults, good>> BY DEF CheckpointChild
<1>3. CASE Taken(f) \/ Deleted(f.id)
  <2>1. PICK g : g = [f EXCEPT !.at = "failed"] OBVIOUS
  <2>2. SetTop(p, s, g) /\ rows' = rows BY <1>3, <2>1 DEF CheckpointChild, LoseStep
  <2>3. f \in Frame /\ FrameOK(f) BY <1>1, TopFacts DEF IInv
  <2>4. g \in Frame /\ FrameOK(g) /\ g.id = f.id /\ g.at = "failed"
    BY <2>1, <2>3, FailedOK DEF IInv
  <2>5. UNCHANGED <<rows, state, doomed, faults, good>> BY <1>2, <2>2
  <2> QED BY <1>1, <2>2, <2>4, <2>5, TopMoves
<1>4. CASE ~Taken(f) /\ ~Deleted(f.id) BY <1>4, NameChildHolds
<1> QED BY <1>3, <1>4
-----------------------------------------------------------------------------
(* An execution ends.                                                      *)

\* A body that is done has called all it calls; if it awaits what it calls,
\* all of it has ended well.
LEMMA Complete ==
    ASSUME TypeInv, RowsInv, NEW f \in Frame, FrameOK(f), f.at = "body", BodyDone(f),
           ~Deleted(f.id)
    PROVE  /\ Len(rows[f.id].kids) = Calls(rows[f.id].name)
           /\ Awaiting(rows[f.id].name) => Range(rows[f.id].kids) \subseteq good
<1> PICK n : n = rows[f.id].name OBVIOUS
<1> PICK l : l = Len(Body[n]) OBVIOUS
<1> PICK k : k = rows[f.id].kids OBVIOUS
<1>1. /\ f.id \in Id /\ n \in Name /\ f.pc \in Nat /\ f.pc >= 1 /\ f.steps \in Nat /\ l \in Nat
      /\ k \in Seq(Nat) /\ Len(k) \in Nat
  BY FrameType
<1>2. f.pc = l + 1
  <2>1. f.pc \in 1 .. l + 1 BY DEF FrameOK
  <2>2. f.pc > l BY DEF BodyDone
  <2> QED BY <2>1, <2>2, <1>1
<1>3. f.steps = Calls(n) BY <1>2 DEF FrameOK, Calls
<1>4. f.steps <= Len(k) BY DEF FrameOK, Behind
<1>5. Len(k) <= Calls(n)
  <2>0. CASE Len(k) = 0 BY <2>0, <1>1, <1>3
  <2>1. CASE Len(k) # 0
    <3>1. Len(k) \in DOMAIN k BY <2>1, <1>1, LenProperties
    <3>2. ChildOK(f.id, Len(k)) BY <3>1, <1>1 DEF RowsInv, RowOK
    <3>3. PICK d : d = rows[k[Len(k)]].name OBVIOUS
    <3>4. PICK j \in DOMAIN Body[n] :
             Body[n][j] = [op |-> "call", name |-> d] /\ CallsBefore(n, j) = Len(k) - 1
      BY <3>2, <3>3 DEF ChildOK
    <3>5. Body[n][j].op = "call" BY <3>4
    <3>6. j \in Nat \ {0} /\ j <= l
      <4>1. Body[n] \in Seq(Ops) BY <1>1, LenBody
      <4>2. DOMAIN Body[n] = 1 .. l BY <4>1, LenProperties
      <4> QED BY <4>2, <1>1
    <3>7. CallsBefore(n, j + 1) = CallsBefore(n, j) + 1 BY <3>6, <3>5, <1>1, CallsStep
    <3>8. CallsBefore(n, j + 1) <= CallsBefore(n, l + 1)
      <4>1. j + 1 \in Nat /\ l + 1 \in Nat /\ j + 1 <= l + 1 BY <3>6, <1>1
      <4> QED BY <4>1, <1>1, CallsMonotone
    <3>9. CallsBefore(n, j) = Len(k) - 1 BY <3>4
    <3> QED BY <3>7, <3>8, <3>9, <1>1 DEF Calls
  <2> QED BY <2>0, <2>1
<1>6. Len(k) = Calls(n) BY <1>1, <1>3, <1>4, <1>5
<1>7. ASSUME Awaiting(n), NEW c \in Range(k) PROVE c \in good
  <2>1. Range(k) = {k[i] : i \in 1 .. Len(k)} BY <1>1, RangeEquality, SMTT(60)
  <2>2. PICK i \in 1 .. Len(k) : c = k[i] BY <2>1
  <2>3. i \in 1 .. f.steps BY <1>3, <1>6
  <2>4. k[i] \in good \/ Awaited(f, i) BY <2>3, <1>7 DEF FrameOK, Behind
  <2>5. ASSUME Awaited(f, i) PROVE FALSE
    <3>1. f.pc > 1 /\ Body[n][f.pc - 1].op = "call" BY <2>5 DEF Awaited
    <3>2. f.pc - 1 = l /\ l >= 1 BY <3>1, <1>1, <1>2
    <3>3. l \in DOMAIN Body[n]
      <4>1. Body[n] \in Seq(Ops) BY <1>1, LenBody
      <4> QED BY <4>1, <3>2, <1>1, LenProperties
    <3>4. l < l BY <3>1, <3>2, <3>3, <1>7 DEF Awaiting
    <3> QED BY <3>4, <1>1
  <2> QED BY <2>2, <2>4, <2>5
<1> QED BY <1>6, <1>7

\* What the end of an execution does to its row.
Recorded(w, ok) ==
    /\ RowsStay
    /\ \A v \in Id :
          /\ rows'[v].runs = rows[v].runs
          /\ rows'[v].status = "DELETED" => rows[v].status = "DELETED"
          /\ v # w => rows'[v].status = rows[v].status /\ (v \in good' => v \in good)
    /\ rows'[w].status = "SUCCESS" => ok /\ ~Deleted(w) /\ w \in good'
    /\ w \in good' => w \in good \/ (ok /\ ~Deleted(w))
    /\ good \subseteq good' /\ good' \subseteq Id

LEMMA EndType ==
    ASSUME TypeInv, RowsInv, NEW w \in Id, NEW ok \in BOOLEAN,
           rows' = IF rows[w].status = "CANCELLED" \/ Deleted(w) THEN rows
                   ELSE [rows EXCEPT ![w].status = IF ok THEN "SUCCESS" ELSE "ERROR"],
           good' = {v \in DOMAIN rows' : v \in good \/ rows'[v].status = "SUCCESS"}
    PROVE  rows' \in Seq(Row) /\ Recorded(w, ok)
<1>1. rows \in Seq(Row) /\ Id = 1 .. Len(rows) /\ good \subseteq Id BY DEF TypeInv, Id
<1>2. rows[w] \in Row BY RowType
<1>3. /\ rows' \in Seq(Row) /\ Len(rows') = Len(rows)
      /\ \A v \in Id :
            /\ rows'[v].name = rows[v].name /\ rows'[v].parent = rows[v].parent
            /\ rows'[v].kids = rows[v].kids /\ rows'[v].runs = rows[v].runs
            /\ v # w => rows'[v].status = rows[v].status
      /\ \/ rows[w].status \in {"CANCELLED", "DELETED"} /\ rows'[w].status = rows[w].status
         \/ ok /\ ~Deleted(w) /\ rows'[w].status = "SUCCESS"
         \/ ~Deleted(w) /\ rows'[w].status = "ERROR"
  <2>1. CASE rows[w].status = "CANCELLED" \/ Deleted(w)
    <3>1. rows' = rows BY <2>1
    <3>2. rows[w].status \in {"CANCELLED", "DELETED"} BY <2>1 DEF Deleted
    <3> QED BY <3>1, <3>2, <1>1
  <2>2. CASE ~(rows[w].status = "CANCELLED" \/ Deleted(w))
    <3>1. PICK r : r = [rows[w] EXCEPT !.status = IF ok THEN "SUCCESS" ELSE "ERROR"] OBVIOUS
    <3>2. PICK q : q = rows' OBVIOUS
    <3>3. q = [rows EXCEPT ![w] = r] BY <2>2, <3>1, <3>2
    <3>4. r \in Row BY <1>2, <3>1 DEF Row, Status, Terminal
    <3>5. /\ r.name = rows[w].name /\ r.parent = rows[w].parent
          /\ r.kids = rows[w].kids /\ r.runs = rows[w].runs
          /\ r.status = IF ok THEN "SUCCESS" ELSE "ERROR"
      BY <1>2, <3>1 DEF Row
    <3>6. PICK rs : rs = rows OBVIOUS
    <3>7. rs \in Seq(Row) /\ w \in 1 .. Len(rs) BY <1>1, <3>6
    <3>8. q = [rs EXCEPT ![w] = r] BY <3>3, <3>6
    <3>9. q \in Seq(Row) BY <3>4, <3>7, <3>8, RowSet
    <3>10. Len(q) = Len(rows) BY <3>4, <3>6, <3>7, <3>8, RowSet
    <3>11. q[w] = r BY <3>4, <3>7, <3>8, RowSet
    <3>12. \A v \in 1 .. Len(rows) : v # w => q[v] = rows[v]
      <4>1. \A v \in 1 .. Len(rs) : v # w => q[v] = rs[v]
        BY <3>4, <3>7, <3>8, RowSet
      <4> QED BY <3>6, <4>1
    <3>13. \/ ok /\ q[w].status = "SUCCESS"
           \/ q[w].status = "ERROR"
      BY <3>5, <3>11
    <3> QED BY <3>2, <3>5, <3>9, <3>10, <3>11, <3>12, <3>13, <2>2, <1>1
  <2> QED BY <2>1, <2>2
<1>4. DOMAIN rows' = Id BY <1>1, <1>3, LenProperties
<1>5. ASSUME NEW v \in Id, rows[v].status = "SUCCESS" PROVE v \in good
  BY <1>5 DEF RowsInv, RowOK, SuccessOK
<1>6. RowsStay BY <1>3 DEF RowsStay, Deleted
<1>7. \A v \in Id : v \in good' <=> v \in good \/ rows'[v].status = "SUCCESS" BY <1>4
<1>8. good \subseteq good' /\ good' \subseteq Id BY <1>1, <1>4
<1> QED BY <1>3, <1>5, <1>6, <1>7, <1>8 DEF Recorded, Deleted

\* The rows once it has ended.
LEMMA EndRows ==
    ASSUME TypeInv, TypeInv', RowsInv, NEW f \in Frame, FrameOK(f), NEW ok \in BOOLEAN,
           ok => f.at = "body" /\ BodyDone(f), Recorded(f.id, ok)
    PROVE  Grown /\ Id' = Id /\ RowsInv'
<1>1. RowsStay /\ good \subseteq good' BY DEF Recorded
<1>2. Grown /\ Id' = Id BY <1>1, StayGrown
<1>3. f.id \in Id BY DEF FrameOK
<1>4. ASSUME NEW v \in Id PROVE RowOK(v)'
  <2>1. RowOK(v) /\ rows'[v].kids = rows[v].kids /\ rows'[v].name = rows[v].name
        /\ rows'[v].parent = rows[v].parent
    BY <1>1 DEF RowsInv, RowsStay
  <2>2. rows'[v].status = "DELETED" => rows[v].status = "DELETED" BY DEF Recorded
  <2>3. CASE v # f.id \/ rows'[v].status # "SUCCESS"
    <3>1. rows'[v].status = "SUCCESS" => rows[v].status = "SUCCESS" BY <2>3 DEF Recorded
    <3> QED BY <1>2, <2>1, <2>2, <3>1, RowSame
  <2>4. CASE v = f.id /\ rows'[v].status = "SUCCESS"
    <3>1. ok /\ ~Deleted(f.id) /\ v \in good' BY <2>4 DEF Recorded
    <3>2. Len(rows[v].kids) = Calls(rows[v].name) BY <2>4, <3>1, Complete
    <3>3. Awaiting(rows[v].name) => Range(rows[v].kids) \subseteq good
      BY <2>4, <3>1, Complete
    <3>4. SuccessOK(v)' BY <1>1, <2>1, <3>1, <3>2, <3>3 DEF SuccessOK
    <3>5. \A i \in DOMAIN rows'[v].kids : ChildOK(v, i)'
      BY <1>2, <2>1, ChildGrown DEF RowOK
    <3>6. ~Deleted(v)' BY <2>4 DEF Deleted
    <3> QED BY <2>1, <3>4, <3>5, <3>6 DEF RowOK
  <2> QED BY <2>3, <2>4
<1> QED BY <1>2, <1>4 DEF RowsInv

\* The caller goes on: its stack is one shorter.
Resumed(p, s, st) ==
    /\ st \in Seq(Frame) /\ Len(st) \in Nat \ {0}
    /\ Len(task[p][s].stack) = Len(st) + 1
    /\ \A k \in 1 .. Len(st) - 1 : st[k] = task[p][s].stack[k]
    /\ FrameOK(st[Len(st)]) /\ st[Len(st)].at \in {"body", "failed"}
    /\ st[Len(st)].id = task[p][s].stack[Len(st)].id
    /\ task[p][s].stack[Len(st)].at = "calling"
    /\ task'[p][s].stack = st
    /\ \A q \in Process, r \in Slot :
          /\ q # p \/ r # s => task'[q][r] = task[q][r]
          /\ task'[q][r].todo = task[q][r].todo

\* Nobody had called it: the stack is empty.
Emptied(p, s) ==
    /\ task'[p][s].stack = <<>>
    /\ \A q \in Process, r \in Slot :
          /\ task'[q][r].stack = task[q][r].stack \/ task'[q][r].stack = <<>>
          /\ task'[q][r].todo \subseteq task[q][r].todo

LEMMA CallerResumes ==
    ASSUME IInv, NEW p \in Process, NEW s \in Slot, Busy(p, s), NEW ok \in BOOLEAN,
           Return(p, s, ok), Front(task[p][s].stack) # <<>>
    PROVE  /\ task' \in [Process -> [Slot -> Task]] /\ state' = state
           /\ \E st : Resumed(p, s, st)
<1> USE DEF IInv
<1> PICK old : old = task[p][s].stack OBVIOUS
<1> PICK rest : rest = Front(old) OBVIOUS
<1> PICK m : m = Len(rest) OBVIOUS
<1> PICK e : e = Last(rest) OBVIOUS
<1> PICK w : w = Top(p, s).id OBVIOUS
<1> PICK g : g = IF ok THEN Called(e, w) ELSE [e EXCEPT !.at = "failed"] OBVIOUS
<1> PICK st : st = Append(Front(rest), g) OBVIOUS
<1>1. old \in Seq(Frame) /\ old # <<>> BY StackType DEF Busy
<1>2. rest \in Seq(Frame) /\ rest # <<>> BY <1>1, PopTop
<1>3. Len(rest) = Len(old) - 1 BY <1>1, PopTop
<1>4. \A k \in 1 .. Len(old) - 1 : rest[k] = old[k] BY <1>1, PopTop
<1>5. m \in Nat \ {0} /\ Len(old) = m + 1
  <2>1. Len(old) \in Nat BY <1>1, LenProperties
  <2>2. m \in Nat /\ m # 0 BY <1>2, LenProperties, EmptySeq
  <2> QED BY <2>1, <2>2, <1>3
<1>6. e = old[m]
  <2>1. e = rest[m] BY DEF Last
  <2>2. m \in 1 .. Len(old) - 1 BY <1>5
  <2> QED BY <2>1, <2>2, <1>4
<1>7. StackOK(old) BY DEF TaskInv
<1>8. e \in Frame /\ FrameOK(e) /\ e.at = "calling" /\ e.child = w
  <2>1. m \in 1 .. Len(old) /\ m \in 1 .. Len(old) - 1 BY <1>5
  <2>2. old[m] \in Frame BY <1>1, <2>1, ElementOfSeq
  <2>3. FrameOK(old[m]) BY <1>7, <2>1 DEF StackOK
  <2>4. old[m].at = "calling" /\ old[m].child = old[m + 1].id
    BY <1>7, <2>1 DEF StackOK
  <2>5. Top(p, s) = old[m + 1] BY <1>5, TopFacts
  <2> QED BY <2>2, <2>3, <2>4, <2>5, <1>6
<1>9. g \in Frame /\ FrameOK(g) /\ g.id = e.id /\ g.at \in {"body", "failed"}
  <2>1. CASE ok
    <3>1. g = Called(e, w) BY <2>1
    <3>2. InCall(e) BY <1>8 DEF FrameOK
    <3>3. e.pc <= Len(Body[rows[e.id].name]) /\ w \in Id BY <1>8, <3>2 DEF InCall
    <3>4. Body[rows[e.id].name][e.pc].op = "call"
      <4>1. PICK o, n : o = Body[rows[e.id].name][e.pc] /\ n = rows[e.child].name OBVIOUS
      <4>2. o = [op |-> "call", name |-> n] BY <3>2, <4>1 DEF InCall
      <4>3. o.op = "call" BY <4>2
      <4> QED BY <4>1, <4>3
    <3>5. ASSUME ~Deleted(e.id)
          PROVE  e.steps < Len(rows[e.id].kids) /\ rows[e.id].kids[e.steps + 1] = w
      BY <1>8, <3>5 DEF FrameOK, Behind
    <3>6. TypeInv /\ e.at # "failed" BY <1>8
    <3> HIDE DEF IInv
    <3> QED BY <1>8, <3>1, <3>3, <3>4, <3>5, <3>6, CalledOK
  <2>2. CASE ~ok
    <3>1. g = [e EXCEPT !.at = "failed"] BY <2>2
    <3> QED BY <1>8, <3>1, FailedOK
  <2> QED BY <2>1, <2>2
<1>10. st \in Seq(Frame) BY <1>2, <1>9, ReplaceTop
<1>11. Len(st) = m BY <1>2, <1>9, ReplaceTop
<1>12. \A k \in 1 .. m - 1 : st[k] = rest[k] BY <1>2, <1>9, ReplaceTop
<1>13. st[m] = g BY <1>2, <1>9, ReplaceTop
<1>14. \A k \in 1 .. m - 1 : st[k] = old[k]
  <2> SUFFICES ASSUME NEW k \in 1 .. m - 1 PROVE st[k] = old[k] OBVIOUS
  <2>1. k \in 1 .. Len(old) - 1 BY <1>5
  <2> QED BY <2>1, <1>4, <1>12
<1>15. task' = [task EXCEPT ![p][s].stack = st] /\ state' = state BY DEF Return
<1>16. /\ task' \in [Process -> [Slot -> Task]]
       /\ task'[p][s].stack = st
       /\ \A q \in Process, r \in Slot :
             /\ q # p \/ r # s => task'[q][r] = task[q][r]
             /\ task'[q][r].todo = task[q][r].todo
  <2>1. task' = [task EXCEPT ![p][s].stack = st] BY <1>15
  <2>2. TypeInv OBVIOUS
  <2> HIDE DEF IInv
  <2>3. task' \in [Process -> [Slot -> Task]] BY <2>1, <2>2, <1>10, StackSet
  <2>4. task \in [Process -> [Slot -> Task]] /\ task[p][s] \in Task
    BY <2>2, StackType DEF TypeInv
  <2>5. task'[p][s].stack = st BY <2>1, <2>4 DEF Task
  <2>6. ASSUME NEW q \in Process, NEW r \in Slot
        PROVE  /\ q # p \/ r # s => task'[q][r] = task[q][r]
               /\ task'[q][r].todo = task[q][r].todo
    BY <2>1, <2>4 DEF Task
  <2> QED BY <2>3, <2>5, <2>6
<1>17. Resumed(p, s, st)
  BY <1>5, <1>6, <1>8, <1>9, <1>10, <1>11, <1>13, <1>14, <1>16 DEF Resumed
<1> QED BY <1>15, <1>16, <1>17

LEMMA TaskEmpties ==
    ASSUME IInv, NEW p \in Process, NEW s \in Slot, NEW ok \in BOOLEAN,
           Return(p, s, ok), Front(task[p][s].stack) = <<>>
    PROVE  /\ task' \in [Process -> [Slot -> Task]]
           /\ state' \in [Process -> {"off", "launching", "up"}]
           /\ Emptied(p, s)
<1> USE DEF IInv
<1> PICK none : none = NoTask OBVIOUS
<1>1. none \in Task /\ none.stack = <<>> /\ none.todo = {} BY NoTaskType
<1>2. task \in [Process -> [Slot -> Task]] /\ state \in [Process -> {"off", "launching", "up"}]
  BY DEF TypeInv
<1>3. CASE s = "launch" /\ ~ok
  <2>1. /\ task' = [task EXCEPT ![p] = [r \in Slot |-> none]]
        /\ state' = [state EXCEPT ![p] = "off"]
    BY <1>3 DEF Return
  <2>2. task' \in [Process -> [Slot -> Task]] BY <2>1, <1>1, <1>2
  <2>3. state' \in [Process -> {"off", "launching", "up"}] BY <2>1, <1>2
  <2>4. task'[p][s] = none BY <2>1, <1>2
  <2>5. \A q \in Process, r \in Slot : task'[q][r] = task[q][r] \/ task'[q][r] = none
    BY <2>1, <1>2
  <2> QED BY <2>2, <2>3, <2>4, <2>5, <1>1 DEF Emptied
<1>4. CASE ~(s = "launch" /\ ~ok)
  <2>1. PICK t : t = IF ok THEN [none EXCEPT !.todo = task[p][s].todo] ELSE none OBVIOUS
  <2>2. task' = [task EXCEPT ![p][s] = t] /\ state' = state BY <1>4, <2>1 DEF Return
  <2>3. t \in Task /\ t.stack = <<>> /\ t.todo \subseteq task[p][s].todo
    <3>1. task[p][s].todo \subseteq Nat BY StackType
    <3>2. CASE ok
      <4>1. t = [none EXCEPT !.todo = task[p][s].todo] BY <2>1, <3>2
      <4> QED BY <4>1, <3>1, <1>1 DEF Task
    <3>3. CASE ~ok BY <2>1, <3>3, <1>1
    <3> QED BY <3>2, <3>3
  <2>4. task' \in [Process -> [Slot -> Task]] BY <2>2, <2>3, <1>2
  <2>5. task'[p][s] = t BY <2>2, <1>2
  <2>6. \A q \in Process, r \in Slot : q # p \/ r # s => task'[q][r] = task[q][r]
    BY <2>2, <1>2
  <2> QED BY <2>2, <2>3, <2>4, <2>5, <2>6, <1>2 DEF Emptied
<1> QED BY <1>3, <1>4

\* Nobody executes what it did not execute before, and one execution less.
OneDone(p, s) ==
    \A v \in Id :
       Live(v)' \subseteq Live(v) /\ <<p, s, Len(task[p][s].stack)>> \notin Live(v)'

LEMMA EmptiedHolds ==
    ASSUME IInv, TypeInv', Grown, Id' = Id, RowsStay,
           NEW p \in Process, NEW s \in Slot, Emptied(p, s)
    PROVE  TaskInv' /\ OneDone(p, s)
<1> USE DEF IInv
<1>1. TaskInv'
  <2>1. \A w \in Id : rows'[w].kids = rows[w].kids \/ rows'[w].kids = <<>>
    BY DEF RowsStay
  <2>2. \A q \in Process, r \in Slot :
           /\ task'[q][r].stack = task[q][r].stack \/ task'[q][r].stack = <<>>
           /\ task'[q][r].todo \subseteq Id'
    BY DEF Emptied, TaskInv
  <2>3. TypeInv /\ TaskInv OBVIOUS
  <2> HIDE DEF IInv
  <2> QED BY <2>1, <2>2, <2>3, TaskKept
<1>2. ASSUME NEW v \in Id
      PROVE  Live(v)' \subseteq Live(v) /\ <<p, s, Len(task[p][s].stack)>> \notin Live(v)'
  <2>1. Live(v)' \subseteq Live(v) BY LiveKept DEF Emptied
  <2>2. PICK k : k = Len(task[p][s].stack) OBVIOUS
  <2>3. k \in Nat BY <2>2, StackType
  <2>4. Len(task'[p][s].stack) = 0 BY DEF Emptied
  <2>5. k \notin 1 .. Len(task'[p][s].stack) BY <2>3, <2>4
  <2> QED BY <2>1, <2>2, <2>3, <2>5, LiveAt
<1> QED BY <1>1, <1>2 DEF OneDone

LEMMA ResumedHolds ==
    ASSUME IInv, TypeInv', Grown, Id' = Id, RowsStay,
           NEW p \in Process, NEW s \in Slot, NEW st, Resumed(p, s, st)
    PROVE  TaskInv' /\ OneDone(p, s)
<1> USE DEF IInv
<1> PICK old : old = task[p][s].stack OBVIOUS
<1> PICK m : m = Len(st) OBVIOUS
<1> PICK g : g = st[m] OBVIOUS
<1>1. /\ st \in Seq(Frame) /\ m \in Nat \ {0} /\ Len(old) = m + 1
      /\ \A k \in 1 .. m - 1 : st[k] = old[k]
      /\ FrameOK(g) /\ g.at \in {"body", "failed"} /\ g.id = old[m].id
      /\ old[m].at = "calling"
  BY DEF Resumed
<1>2. task'[p][s].stack = st BY DEF Resumed
<1>3. \A q \in Process, r \in Slot :
         /\ q # p \/ r # s => task'[q][r] = task[q][r]
         /\ task'[q][r].todo = task[q][r].todo
  BY DEF Resumed
<1>4. old \in Seq(Frame) BY StackType
<1>5. g \in Frame
  <2>1. m \in 1 .. Len(st) BY <1>1
  <2> QED BY <2>1, <1>1, ElementOfSeq
<1>6. TaskInv'
  <2>1. StackOK(old)' BY <1>4, StackGrown DEF TaskInv
  <2>2. FrameOK(g)' BY <1>1, <1>5, FrameGrown
  <2>3. StackOK(st)'
    <3>1. m \in 1 .. Len(old) BY <1>1
    <3>2. g.at # "calling" BY <1>1
    <3> QED BY <2>1, <2>2, <3>1, <3>2, <1>1, <1>4, <1>5, StackCut
  <2>4. TopFresh(p, s, st) BY <1>1 DEF TopFresh
  <2>5. OthersStay(p, s)
    <3> SUFFICES ASSUME NEW q \in Process, NEW r \in Slot, q # p \/ r # s, Between(q, r)
                 PROVE  Top(q, r).child \notin Range(rows'[Top(q, r).id].kids)
      BY <1>3 DEF OthersStay
    <3>1. Top(q, r).id \in Id BY TopFacts DEF Between, FrameOK
    <3>2. rows'[Top(q, r).id].kids = rows[Top(q, r).id].kids BY <3>1 DEF RowsStay
    <3> QED BY <3>2 DEF TaskInv, Fresh
  <2>6. ListsOK BY <1>3 DEF ListsOK, TaskInv
  <2>7. TypeInv /\ TaskInv OBVIOUS
  <2> HIDE DEF IInv
  <2> QED BY <1>1, <1>2, <2>3, <2>4, <2>5, <2>6, <2>7, TaskOne
<1>7. ASSUME NEW v \in Id
      PROVE  Live(v)' \subseteq Live(v) /\ <<p, s, Len(task[p][s].stack)>> \notin Live(v)'
  <2>1. ASSUME NEW k \in 1 .. Len(st), Lives(st[k], v) PROVE <<p, s, k>> \in Live(v)
    <3>1. k \in 1 .. Len(old) /\ k \in Nat /\ k \in 1 .. m BY <1>1
    <3>2. Lives(old[k], v)
      <4>1. CASE k = m
        <5>1. old[m].id = v BY <4>1, <2>1, <1>1 DEF Lives
        <5> QED BY <5>1, <4>1, <1>1 DEF Lives
      <4>2. CASE k # m
        <5>1. k \in 1 .. m - 1 BY <4>2, <3>1, <1>1
        <5> QED BY <5>1, <2>1, <1>1
      <4> QED BY <4>1, <4>2
    <3> QED BY <3>1, <3>2, LiveAt
  <2>2. \A q \in Process, r \in Slot :
           q # p \/ r # s => task'[q][r].stack = task[q][r].stack
    BY <1>3
  <2>3. {} \in SUBSET Place OBVIOUS
  <2>4. Live(v)' \subseteq Live(v) \cup {} BY <1>2, <2>1, <2>2, <2>3, LiveOne
  <2>5. <<p, s, m + 1>> \notin Live(v)'
    <3>1. m + 1 \in Nat /\ m + 1 \notin 1 .. Len(st) BY <1>1
    <3> QED BY <3>1, <1>2, LiveAt
  <2> QED BY <1>1, <2>4, <2>5
<1> QED BY <1>6, <1>7 DEF OneDone

LEMMA EndBodyHolds ==
    ASSUME IInv, NEW p \in Process, NEW s \in Slot, EndBody(p, s) PROVE IInv'
<1> USE DEF IInv
<1> PICK f : f = Top(p, s) OBVIOUS
<1> PICK w : w = f.id OBVIOUS
<1> PICK ok \in BOOLEAN : ok = (f.at = "body" /\ rows[w].name \notin Fails) OBVIOUS
<1>1. /\ Busy(p, s)
      /\ f.at = "failed" \/ (f.at = "body" /\ BodyDone(f))
      /\ UNCHANGED <<doomed, faults>>
  BY DEF EndBody
<1>2. f \in Frame /\ FrameOK(f) /\ w \in Id BY <1>1, TopFacts DEF EndBody, FrameOK
<1>3. ok => f.at = "body" /\ BodyDone(f) BY <1>1
<1>4. Busy(p, s) /\ Return(p, s, ok) BY DEF EndBody
<1>5. rows' = IF rows[w].status = "CANCELLED" \/ Deleted(w) THEN rows
              ELSE [rows EXCEPT ![w].status = IF ok THEN "SUCCESS" ELSE "ERROR"]
  BY DEF EndBody
<1>6. good' = {v \in DOMAIN rows' : v \in good \/ rows'[v].status = "SUCCESS"}
  BY DEF EndBody
<1>7. rows' \in Seq(Row) /\ Recorded(w, ok)
  <2>1. TypeInv /\ RowsInv OBVIOUS
  <2> HIDE DEF IInv
  <2> QED BY <2>1, <1>2, <1>5, <1>6, EndType
<1>8. RowsStay /\ good \subseteq good' /\ good' \subseteq Id BY <1>7 DEF Recorded
<1>9. Grown /\ Id' = Id BY <1>8, StayGrown
<1>10. /\ task' \in [Process -> [Slot -> Task]]
       /\ state' \in [Process -> {"off", "launching", "up"}]
       /\ Emptied(p, s) \/ \E st : Resumed(p, s, st)
  <2>1. CASE Front(task[p][s].stack) # <<>>
    <3>1. state \in [Process -> {"off", "launching", "up"}] BY DEF TypeInv
    <3> QED BY <2>1, <3>1, <1>4, CallerResumes
  <2>2. CASE Front(task[p][s].stack) = <<>> BY <2>2, <1>4, TaskEmpties
  <2> QED BY <2>1, <2>2
<1>11. TypeInv' BY <1>1, <1>7, <1>8, <1>9, <1>10 DEF TypeInv
<1>12. RowsInv'
  <2>1. TypeInv /\ RowsInv /\ Recorded(f.id, ok) BY <1>7
  <2> HIDE DEF IInv
  <2> QED BY <2>1, <1>2, <1>3, <1>11, EndRows
<1>13. TaskInv' /\ OneDone(p, s)
  <2> HIDE DEF IInv
  <2>1. CASE Emptied(p, s) BY <2>1, <1>8, <1>9, <1>11, EmptiedHolds
  <2>2. CASE \E st : Resumed(p, s, st) BY <2>2, <1>8, <1>9, <1>11, ResumedHolds
  <2> QED BY <1>10, <2>1, <2>2
<1>14. CountInv'
  <2> SUFFICES ASSUME NEW v \in Id PROVE IsFiniteSet(Live(v)') /\ Counts(v)'
    BY <1>9 DEF CountInv
  <2>1. IsFiniteSet(Live(v)) /\ Counts(v) BY DEF CountInv
  <2>2. Live(v)' \subseteq Live(v) BY <1>13 DEF OneDone
  <2>3. rows'[v].runs = rows[v].runs /\ rows[v].runs \in Nat
    BY <1>7, RowType DEF Recorded, Row
  <2>4. Len(rows') = Len(rows) BY <1>8 DEF RowsStay
  <2>5. CASE v \in good' => v \in good
    <3>1. TypeInv OBVIOUS
    <3> HIDE DEF IInv
    <3> QED BY <3>1, <2>1, <2>2, <2>3, <2>4, <2>5, <1>9, <1>11, CountsKept
  <2>6. CASE ~(v \in good' => v \in good)
    <3>1. v = w /\ ok /\ ~Deleted(w) BY <2>6, <1>7 DEF Recorded
    <3>2. PICK x : x = <<p, s, Len(task[p][s].stack)>> OBVIOUS
    <3>3. x \in Live(v)
      <4>1. PICK old, k : old = task[p][s].stack /\ k = Len(old) OBVIOUS
      <4>2. f = old[k] BY <1>4, <4>1, TopFacts
      <4>3. k \in Nat \ {0} BY <1>4, <4>1, TopFacts
      <4>4. Lives(f, v) BY <3>1, <1>3 DEF Lives
      <4>5. k \in 1 .. k BY <4>3
      <4>6. k \in 1 .. Len(old) /\ k \in Nat BY <4>1, <4>3, <4>5, Zenon
      <4> QED BY <3>2, <4>1, <4>2, <4>4, <4>6, LiveAt
    <3>4. x \notin Live(v)' BY <3>2, <1>13 DEF OneDone
    <3>5. /\ IsFiniteSet(Live(v)') /\ Cardinality(Live(v)') \in Nat
          /\ Cardinality(Live(v)) \in Nat
          /\ Cardinality(Live(v)') + 1 <= Cardinality(Live(v))
      BY <2>1, <2>2, <3>3, <3>4, OneFewer
    <3>6. ASSUME ~Deleted(v)' PROVE Counts(v)'
      <4>1. Orphans(v)' \subseteq Orphans(v)
        <5>1. rows'[v].status # "DELETED" BY <3>6 DEF Deleted
        <5> QED BY <5>1, <2>4, <1>9, <1>11, OrphansFewer
      <4>2. IsFiniteSet(Orphans(v)) BY OrphansFinite
      <4>3. /\ Cardinality(Orphans(v)') <= Cardinality(Orphans(v))
            /\ Cardinality(Orphans(v)') \in Nat /\ Cardinality(Orphans(v)) \in Nat
        BY <4>1, <4>2, Fewer
      <4>4. Cardinality(Orphans(v)) + 0 + Cardinality(Live(v)) <= rows[v].runs
        BY <2>1, <2>6, <3>1 DEF Counts
      <4> QED BY <2>3, <3>5, <4>3, <4>4 DEF Counts
    <3> QED BY <3>5, <3>6 DEF Counts
  <2> QED BY <2>5, <2>6
<1> QED BY <1>11, <1>12, <1>13, <1>14
-----------------------------------------------------------------------------
(* The theorems.                                                           *)

LEMMA InitHolds == Init => IInv
<1> SUFFICES ASSUME Init PROVE IInv OBVIOUS
<1>1. rows = <<>> /\ good = {} /\ faults = 0 /\ doomed = NoDeletion BY DEF Init
<1>2. Id = {} /\ rows \in Seq(Row)
  <2>1. <<>> \in Seq(Row) /\ Len(<<>>) = 0 BY EmptySeq
  <2> QED BY <1>1, <2>1 DEF Id
<1>3. PICK none : none = NoTask OBVIOUS
<1>4. none \in Task /\ none.stack = <<>> /\ none.todo = {} BY <1>3, NoTaskType
<1>5. task = [p \in Process |-> [s \in Slot |-> none]] BY <1>3 DEF Init
<1>6. task \in [Process -> [Slot -> Task]] BY <1>4, <1>5
<1>7. \A p \in Process, s \in Slot : task[p][s] = none BY <1>5
<1>8. state \in [Process -> {"off", "launching", "up"}] BY DEF Init
<1>9. doomed \in [ids : SUBSET Nat, queue : SUBSET Nat] BY <1>1 DEF NoDeletion
<1>10. TypeInv BY <1>1, <1>2, <1>6, <1>8, <1>9 DEF TypeInv
<1>11. RowsInv BY <1>2 DEF RowsInv
<1>12. TaskInv BY <1>4, <1>7, NoStack DEF TaskInv, Between, Busy
<1>13. CountInv BY <1>2 DEF CountInv
<1> QED BY <1>10, <1>11, <1>12, <1>13 DEF IInv

LEMMA NextHolds == IInv /\ [Next]_vars => IInv'
<1> SUFFICES ASSUME IInv, [Next]_vars PROVE IInv' OBVIOUS
<1>1. CASE UNCHANGED vars BY <1>1, SameHolds
<1>2. ASSUME NEW p \in Process, NEW n \in Root, RunRoot(p, n) PROVE IInv'
  BY <1>2, RunRootHolds
<1>3. ASSUME NEW p \in Process, NEW s \in Slot, TaskStep(p, s) PROVE IInv'
  <2>1. CASE ReplayCall(p, s) BY <2>1, ReplayCallHolds
  <2>2. CASE InsertChild(p, s) BY <2>2, InsertChildHolds
  <2>3. CASE CheckpointChild(p, s) BY <2>3, CheckpointChildHolds
  <2>4. CASE GetResult(p, s) BY <2>4, GetResultHolds
  <2>5. CASE EndBody(p, s) BY <2>5, EndBodyHolds
  <2>6. CASE RecoverNext(p, s) BY <2>6, RecoverNextHolds
  <2> QED BY <1>3, <2>1, <2>2, <2>3, <2>4, <2>5, <2>6 DEF TaskStep
<1>4. ASSUME NEW p \in Process, Launch(p) \/ Launched(p) \/ Crash(p) PROVE IInv'
  BY <1>4, LaunchHolds, LaunchedHolds, CrashHolds
<1>5. ASSUME NEW p \in Process, NEW e \in Process, RecoverWorkflows(p, e) PROVE IInv'
  BY <1>5, RecoverWorkflowsHolds
<1>6. ASSUME NEW w \in Id, Cancel(w) \/ GatherChildren(w) PROVE IInv'
  BY <1>6, CancelHolds, GatherChildrenHolds
<1>7. ASSUME NEW w \in Id, NEW deep \in BOOLEAN, DeleteWorkflow(w, deep) PROVE IInv'
  BY <1>7, DeleteWorkflowHolds
<1>8. CASE DeleteRows BY <1>8, DeleteRowsHolds
<1> QED BY <1>1, <1>2, <1>3, <1>4, <1>5, <1>6, <1>7, <1>8 DEF Next

\* The invariant the properties follow from.
THEOREM Invariant == Spec => []IInv
<1>1. Init => IInv BY InitHolds
<1>2. IInv /\ [Next]_vars => IInv' BY NextHolds
<1> QED BY <1>1, <1>2, PTL DEF Spec

\* What a journal names is a row that exists, that this parent started at
\* this step under the name its body calls, and that no other step names
\* (init_workflow, then the checkpoint of run_workflow).
THEOREM ChildrenOfTheirSteps == Spec => []ChildOfItsStep
<1>1. IInv => ChildOfItsStep
  BY DEF IInv, RowsInv, RowOK, ChildOK, ChildOfItsStep
<1> QED BY <1>1, Invariant, PTL

\* Each execution of a workflow leaves at most one child that its journal
\* does not name; an execution that succeeds leaves none.
THEOREM OrphansAreBounded == Spec => []OrphansBounded
<1>1. ASSUME IInv, NEW w \in Id, ~Deleted(w)
      PROVE  Cardinality(Orphans(w)) + (IF w \in good THEN 1 ELSE 0) <= rows[w].runs
  <2>1. /\ IsFiniteSet(Live(w))
        /\ Cardinality(Orphans(w)) + (IF w \in good THEN 1 ELSE 0) + Cardinality(Live(w))
              <= rows[w].runs
    BY <1>1 DEF IInv, CountInv, Counts
  <2>2. Cardinality(Live(w)) \in Nat BY <2>1, FS_CardinalityType
  <2>3. Cardinality(Orphans(w)) \in Nat BY <1>1, OrphansFinite DEF IInv
  <2>4. rows[w].runs \in Nat BY <1>1, RowType DEF IInv, Row
  <2> QED BY <2>1, <2>2, <2>3, <2>4
<1>2. IInv => OrphansBounded BY <1>1 DEF OrphansBounded, Orphans
<1> QED BY <1>2, Invariant, PTL

\* A workflow whose body awaits what it calls is recorded as a success only
\* when every child its journal names has been, whichever of its executions
\* is replayed or fails.
THEOREM SuccessNeedsItsChildren == Spec => []SuccessNeedsChildren
<1>1. IInv => SuccessNeedsChildren
  BY DEF IInv, RowsInv, RowOK, SuccessOK, SuccessNeedsChildren
<1> QED BY <1>1, Invariant, PTL
=============================================================================
