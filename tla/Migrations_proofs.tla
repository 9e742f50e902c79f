--------------------------- MODULE Migrations_proofs ---------------------------
(***************************************************************************)
(* Proof that the version row vouches for the tables and columns of every  *)
(* script up to it (VersionTells), for any lists of scripts as described   *)
(* by ScriptAssumption and any number of launches that overlap and die.    *)
(*                                                                         *)
(* What a script owns never goes away again, so that what a launch has     *)
(* once seen stays true.  There is one version because only one launch can *)
(* create the first table.                                                 *)
(*                                                                         *)
(* The second part: while launches come one after the other, a process     *)
(* that is up has exactly the schema of the whole list (CompleteWhenAlone), *)
(* because what a launch may find half done is only ever in the next       *)
(* script, and each statement ends alike whichever half it found.          *)
(***************************************************************************)
EXTENDS Migrations, FiniteSetTheorems, TLAPS

Launch == [pc : {"off", "running", "cleaning", "building", "applied", "up"},
           seen : 0 .. Len(List), line : Nat, invalid : SUBSET Object]

TypeInv ==
    /\ backend \in Backend
    /\ versions \in SUBSET (1 .. Len(List))
    /\ schema \in [Object -> {"absent", "there", "building", "invalid"}]
    /\ at \in [Process -> Launch]

Owned == UNION {Own(n) : n \in DOMAIN List}
FirstTable == List[1].does[1].obj

\* Nothing of what the scripts own is an index built CONCURRENTLY.
OwnedSound ==
    \A o \in Owned :
        /\ schema[o] \in {"absent", "there"}
        /\ \A p \in Process : o \notin at[p].invalid

\* What the scripts up to n own is there.
Vouched(n) == \A k \in DOMAIN List : k <= n => \A o \in Own(k) : schema[o] = "there"

OneVersion ==
    \/ versions = {}
    \/ \E v \in 1 .. Len(List) : versions = {v} /\ Vouched(v)

\* Where a launch may be in the list, and what it has done of the script it is at.
Placed(p) ==
    /\ at[p].pc \in {"cleaning", "building"} =>
          backend = "postgres" /\ at[p].seen < Len(List) /\ List[Following(p)].online
    /\ at[p].pc = "applied" =>
          /\ at[p].seen < Len(List)
          /\ \A o \in Own(Following(p)) : schema[o] = "there"
    /\ at[p].line > 0 =>
          /\ backend = "sqlite" /\ at[p].seen < Len(List)
          /\ \A i \in DOMAIN List[Following(p)].does :
                i <= at[p].line /\ List[Following(p)].does[i].obj \in Own(Following(p))
                   => schema[List[Following(p)].does[i].obj] = "there"
    /\ Pending(p) => at[p].line < Len(List[Following(p)].does)

\* The launch that has created the first table and not yet written a version.
Creator(p) == at[p].seen = 0 /\ (at[p].line > 0 \/ at[p].pc = "applied")

OneCreator(p) ==
    Creator(p) =>
        /\ backend = "sqlite" /\ versions = {} /\ schema[FirstTable] = "there"
        /\ \A q \in Process : Creator(q) => q = p

LaunchInv(p) == Vouched(at[p].seen) /\ Placed(p) /\ OneCreator(p)

IInv == TypeInv /\ OwnedSound /\ OneVersion /\ \A p \in Process : LaunchInv(p)
-----------------------------------------------------------------------------
(* Facts about the lists of scripts.                                       *)

\* The list, and that its first script starts with the first table.
LEMMA ListFacts ==
    ASSUME backend \in Backend
    PROVE  /\ List \in Seq(Script) /\ Len(List) \in Nat /\ Len(List) > 0
           /\ DOMAIN List = 1 .. Len(List)
           /\ List[1].does[1].op = "add"
           /\ \A n \in DOMAIN List : \A i \in DOMAIN List[n].does :
                 List[n].does[i].obj = FirstTable => n = 1
<1>1. List \in Seq(Script) BY ScriptAssumption DEF List
<1>2. Len(List) \in Nat /\ DOMAIN List = 1 .. Len(List) BY <1>1
<1> QED BY <1>1, <1>2, ScriptAssumption DEF List, FirstTable

\* A script of the list.
LEMMA ScriptFacts ==
    ASSUME backend \in Backend, NEW n \in DOMAIN List
    PROVE  /\ List[n].does \in Seq(Statement) /\ List[n].online \in BOOLEAN
           /\ Len(List[n].does) \in Nat /\ Len(List[n].does) > 0
           /\ DOMAIN List[n].does = 1 .. Len(List[n].does)
           /\ \A i \in DOMAIN List[n].does : List[n].does[i] \in Statement
           /\ List[n].online => /\ backend = "postgres" /\ Len(List[n].does) = 1
                                /\ List[n].does[1].op # "add"
           /\ \A i, j \in DOMAIN List[n].does :
                 List[n].does[i].obj = List[n].does[j].obj => i = j
<1>1. List[n] \in Script BY ListFacts
<1>2. List[n].does \in Seq(Statement) /\ List[n].online \in BOOLEAN BY <1>1 DEF Script
<1>3. List[n].does # <<>> BY ScriptAssumption DEF List
<1>4. Len(List[n].does) \in Nat /\ DOMAIN List[n].does = 1 .. Len(List[n].does) BY <1>2
<1>5. Len(List[n].does) > 0 BY <1>2, <1>3, <1>4
<1>6. \A i \in DOMAIN List[n].does : List[n].does[i] \in Statement BY <1>2
<1>7. List[n].online => /\ backend = "postgres" /\ Len(List[n].does) = 1
                        /\ List[n].does[1].op # "add"
  BY ScriptAssumption DEF List
<1>8. \A i, j \in DOMAIN List[n].does :
         List[n].does[i].obj = List[n].does[j].obj => i = j
  BY ScriptAssumption DEF List
<1> QED BY <1>2, <1>4, <1>5, <1>6, <1>7, <1>8

\* The statement that names what a script owns is the one that adds it.
LEMMA OwnIsAdded ==
    ASSUME backend \in Backend, NEW n \in DOMAIN List, NEW k \in DOMAIN List,
           NEW o \in Own(k), NEW s \in Does(n), s.obj = o
    PROVE  n = k /\ s.op = "add"
<1>1. n = k BY DEF Own, Names
<1>2. PICK t \in Does(n) : t.op = "add" /\ t.obj = o BY <1>1 DEF Own
<1>3. PICK i \in DOMAIN List[n].does : s = List[n].does[i] BY DEF Does
<1>4. PICK j \in DOMAIN List[n].does : t = List[n].does[j] BY DEF Does
<1>5. i = j BY <1>2, <1>3, <1>4, ScriptFacts
<1> QED BY <1>1, <1>2, <1>3, <1>4, <1>5

\* An online script owns nothing and names nothing that is owned.
LEMMA OnlineOwnsNothing ==
    ASSUME backend \in Backend, NEW n \in DOMAIN List, List[n].online
    PROVE  /\ Own(n) = {} /\ n # 1
           /\ \A s \in Does(n) : s.obj \in Object /\ s.obj \notin Owned /\ s.op # "add"
           /\ List[n].does[1] \in Does(n)
<1>1. 1 \in DOMAIN List[n].does /\ \A i \in DOMAIN List[n].does : i = 1 BY ScriptFacts
<1>2. \A s \in Does(n) : s = List[n].does[1] BY <1>1 DEF Does
<1>3. List[n].does[1] \in Does(n) BY <1>1 DEF Does
<1>4. List[n].does[1].op # "add" /\ List[n].does[1] \in Statement BY <1>1, ScriptFacts
<1>5. List[n].does[1].obj \in Object BY <1>4 DEF Statement
<1>6. List[n].does[1].obj \notin Owned BY <1>3, <1>4, OwnIsAdded DEF Owned
<1>7. Own(n) = {} BY <1>2, <1>4 DEF Own
<1>8. n # 1 BY <1>4, ListFacts
<1> QED BY <1>2, <1>3, <1>4, <1>5, <1>6, <1>7, <1>8

\* The first script owns the first table.
LEMMA FirstTableIsOwn ==
    ASSUME backend \in Backend
    PROVE  /\ 1 \in DOMAIN List /\ 1 \in DOMAIN List[1].does
           /\ FirstTable \in Own(1) /\ FirstTable \in Owned
<1>1. 1 \in DOMAIN List BY ListFacts
<1>2. 1 \in DOMAIN List[1].does /\ List[1].does[1] \in Statement BY <1>1, ScriptFacts
<1>3. FirstTable \in Object BY <1>2 DEF FirstTable, Statement
<1>4. List[1].does[1] \in Does(1) /\ List[1].does[1].op = "add"
  BY <1>2, ListFacts DEF Does
<1>5. ASSUME NEW k \in DOMAIN List, Names(k, FirstTable) PROVE k = 1
  BY <1>5, ListFacts DEF Names, Does
<1>6. FirstTable \in Own(1) BY <1>3, <1>4, <1>5 DEF Own, FirstTable
<1> QED BY <1>1, <1>2, <1>6 DEF Owned

\* A database stays what it is, and its list with it.
LEMMA SameList ==
    ASSUME backend' = backend
    PROVE  /\ List' = List /\ Owned' = Owned /\ FirstTable' = FirstTable
           /\ \A n \in DOMAIN List : Own(n)' = Own(n)
BY DEF List, Owned, FirstTable, Own, Does, Names
-----------------------------------------------------------------------------
(* What every step leaves alone.                                           *)

\* Nothing owned goes away or turns into an index under construction.
Stays == /\ schema' \in [Object -> {"absent", "there", "building", "invalid"}]
         /\ \A o \in Owned : /\ schema[o] = "there" => schema'[o] = "there"
                             /\ schema'[o] \in {"absent", "there"}

\* The schema as it was stays.
LEMMA SameSchema == IInv /\ UNCHANGED schema => Stays
BY DEF IInv, TypeInv, OwnedSound, Stays

\* So does one in which something changes that nobody owns.
LEMMA OthersChange ==
    ASSUME IInv, NEW o \in Object, o \notin Owned,
           NEW x \in {"absent", "there", "building", "invalid"},
           schema' = [schema EXCEPT ![o] = x]
    PROVE  Stays
BY DEF IInv, TypeInv, OwnedSound, Stays

\* What was vouched for still is.
LEMMA VouchedStays ==
    ASSUME backend' = backend, Stays, NEW n, Vouched(n)
    PROVE  Vouched(n)'
<1>1. \A k \in DOMAIN List : \A o \in Own(k) : o \in Owned BY DEF Owned
<1> QED BY <1>1, SameList DEF Vouched, Stays

\* The version row is that of before.
LEMMA SameVersions ==
    ASSUME IInv, backend' = backend, Stays, UNCHANGED versions
    PROVE  OneVersion' /\ versions' \in SUBSET (1 .. Len(List))
<1>1. versions' \in SUBSET (1 .. Len(List)) BY DEF IInv, TypeInv
<1>2. OneVersion'
  <2>1. CASE versions = {} BY <2>1 DEF OneVersion
  <2>2. CASE versions # {}
    <3>1. PICK v \in 1 .. Len(List) : versions = {v} /\ Vouched(v)
      BY <2>2 DEF IInv, OneVersion
    <3>2. Vouched(v)' BY <3>1, VouchedStays
    <3> QED BY <3>1, <3>2, SameList DEF OneVersion
  <2> QED BY <2>1, <2>2
<1> QED BY <1>1, <1>2

\* A step of one launch.
LEMMA OneMoves ==
    ASSUME IInv, backend' = backend, Stays,
           NEW p \in Process, NEW l \in Launch, at' = [at EXCEPT ![p] = l],
           \A o \in Owned : o \notin l.invalid,
           OneVersion', versions' \in SUBSET (1 .. Len(List)),
           \A q \in Process : q # p /\ Creator(q) => versions' = {},
           Vouched(l.seen)', Placed(p)',
           Creator(p)' => /\ backend = "sqlite" /\ versions' = {}
                          /\ schema'[FirstTable] = "there"
                          /\ \A q \in Process : q # p => ~Creator(q)
    PROVE  IInv'
<1>1. /\ List' = List /\ Owned' = Owned /\ FirstTable' = FirstTable
      /\ \A n \in DOMAIN List : Own(n)' = Own(n)
  BY SameList
<1>2. backend \in Backend /\ TypeInv BY DEF IInv, TypeInv
<1>3. at'[p] = l /\ \A q \in Process : q # p => at'[q] = at[q] BY <1>2 DEF TypeInv
<1>4. Launch' = Launch BY <1>1 DEF Launch
<1>5. TypeInv' BY <1>1, <1>2, <1>4 DEF TypeInv, Stays
<1>6. OwnedSound' BY <1>1, <1>3 DEF OwnedSound, Stays, IInv
<1>7. ASSUME NEW q \in Process PROVE LaunchInv(q)'
  <2>1. LaunchInv(q) BY DEF IInv
  <2>2. CASE q = p
    <3>1. OneCreator(p)'
      <4> SUFFICES ASSUME Creator(p)', NEW r \in Process, r # p
                   PROVE  ~Creator(r)'
        BY <1>1 DEF OneCreator
      <4> QED BY <1>3 DEF Creator
    <3>2. Vouched(at[p].seen)' BY <1>3 DEF Vouched
    <3> QED BY <2>2, <3>1, <3>2 DEF LaunchInv
  <2>3. CASE q # p
    <3>1. at'[q] = at[q] BY <1>3, <2>3
    <3>2. at[q] \in Launch /\ Len(List) \in Nat BY <1>2, ListFacts DEF TypeInv
    <3>3. Vouched(at[q].seen)' BY <1>1, <2>1, <3>1 DEF LaunchInv, Vouched, Stays, Owned
    <3>4. Following(q)' = Following(q) /\ Pending(q)' = Pending(q)
      BY <1>1, <3>1 DEF Following, Pending
    <3>5. at[q].seen < Len(List) => Following(q) \in DOMAIN List
      BY <1>2, <3>2, ListFacts DEF Following, Launch
    <3>6. ASSUME at[q].seen < Len(List), NEW o \in Own(Following(q)), schema[o] = "there"
          PROVE  schema'[o] = "there"
      BY <3>5, <3>6 DEF Stays, Owned
    <3>7. Placed(q)'
      <4>1. Placed(q) BY <2>1 DEF LaunchInv
      <4> USE <1>1, <3>1, <3>4
      <4>2. at[q].pc = "applied" =>
               /\ at[q].seen < Len(List)
               /\ \A o \in Own(Following(q))' : schema'[o] = "there"
        BY <3>5, <3>6, <4>1 DEF Placed
      <4>3. at[q].line > 0 =>
              /\ backend = "sqlite" /\ at[q].seen < Len(List)
              /\ \A i \in DOMAIN List[Following(q)].does :
                    i <= at[q].line /\ List[Following(q)].does[i].obj \in Own(Following(q))'
                       => schema'[List[Following(q)].does[i].obj] = "there"
        BY <3>5, <3>6, <4>1 DEF Placed
      <4> QED BY <4>1, <4>2, <4>3 DEF Placed
    <3>8. OneCreator(q)'
      <4> SUFFICES ASSUME Creator(q)'
                   PROVE  /\ backend = "sqlite" /\ versions' = {}
                          /\ schema'[FirstTable] = "there"
                          /\ \A r \in Process : Creator(r)' => r = q
        BY <1>1 DEF OneCreator
      <4>1. Creator(q) BY <3>1 DEF Creator
      <4>2. backend = "sqlite" /\ schema[FirstTable] = "there"
            /\ \A r \in Process : Creator(r) => r = q
        BY <2>1, <4>1 DEF LaunchInv, OneCreator
      <4>3. schema'[FirstTable] = "there" BY <1>2, <4>2, FirstTableIsOwn DEF Stays
      <4>4. ~Creator(p)' BY <2>3, <4>1
      <4>5. ASSUME NEW r \in Process, Creator(r)' PROVE r = q
        <5>1. r # p BY <4>4, <4>5
        <5>2. Creator(r) BY <1>3, <4>5, <5>1 DEF Creator
        <5> QED BY <4>2, <5>2
      <4> QED BY <2>3, <4>1, <4>2, <4>3, <4>5
    <3> QED BY <3>3, <3>7, <3>8 DEF LaunchInv
  <2> QED BY <2>2, <2>3
<1> QED BY <1>5, <1>6, <1>7 DEF IInv
-----------------------------------------------------------------------------
(* The steps.                                                              *)

\* Where a launch stands in the list.
LEMMA LaunchFacts ==
    ASSUME IInv, NEW p \in Process
    PROVE  /\ backend \in Backend /\ TypeInv /\ LaunchInv(p) /\ at[p] \in Launch
           /\ at[p].seen \in Nat /\ at[p].line \in Nat /\ Len(List) \in Nat
           /\ Following(p) = at[p].seen + 1
           /\ at[p].seen < Len(List) => Following(p) \in DOMAIN List
           /\ backend = "postgres" => at[p].line = 0 /\ ~Creator(p)
           /\ \A o \in Owned : o \notin at[p].invalid
<1>1. backend \in Backend /\ TypeInv /\ LaunchInv(p) /\ at[p] \in Launch
  BY DEF IInv, TypeInv
<1>2. Len(List) \in Nat /\ DOMAIN List = 1 .. Len(List) BY <1>1, ListFacts
<1>3. at[p].seen \in Nat /\ at[p].line \in Nat BY <1>1, <1>2 DEF Launch
<1>4. Following(p) = at[p].seen + 1 BY DEF Following
<1>5. at[p].seen < Len(List) => Following(p) \in DOMAIN List BY <1>2, <1>3, <1>4
<1>6. backend = "postgres" => at[p].line = 0 /\ ~Creator(p)
  BY <1>1, <1>3 DEF LaunchInv, Placed, OneCreator
<1>7. \A o \in Owned : o \notin at[p].invalid BY DEF IInv, OwnedSound
<1> QED BY <1>1, <1>2, <1>3, <1>4, <1>5, <1>6, <1>7

\* A launch that fails or dies.
LEMMA LaunchEnds ==
    ASSUME IInv, backend' = backend, Stays, UNCHANGED versions,
           NEW p \in Process, at' = [at EXCEPT ![p] = Off]
    PROVE  IInv'
<1>1. Off \in Launch /\ Off.pc = "off" /\ Off.seen = 0 /\ Off.line = 0 /\ Off.invalid = {}
  <2>1. 0 \in 0 .. Len(List) BY LaunchFacts
  <2> QED BY <2>1 DEF Off, Launch
<1>2. at'[p] = Off BY DEF IInv, TypeInv
<1>3. Vouched(0) BY LaunchFacts, ListFacts DEF Vouched
<1>4. Vouched(Off.seen)' BY <1>1, <1>3, VouchedStays
<1>5. Placed(p)' BY <1>1, <1>2 DEF Placed, Pending
<1>6. ~Creator(p)' BY <1>1, <1>2 DEF Creator
<1>7. \A q \in Process : Creator(q) => versions' = {} BY DEF IInv, LaunchInv, OneCreator
<1> HIDE DEF Off
<1> QED BY <1>1, <1>4, <1>5, <1>6, <1>7, SameVersions, OneMoves

\* Nothing is vouched for by version 0, and a new list is where its earlier
\* scripts have left it.
LEMMA InitHolds == Init => IInv
<1> SUFFICES ASSUME Init PROVE IInv OBVIOUS
<1>1. backend \in Backend BY DEF Init
<1>2. Len(List) \in Nat /\ DOMAIN List = 1 .. Len(List) BY <1>1, ListFacts
<1>3. PICK n \in 0 .. Len(List) : /\ versions = IF n = 0 THEN {} ELSE {n}
                                  /\ schema = [o \in Object |-> After(n, o)]
  BY DEF Init
<1>4. \A o \in Object : schema[o] \in {"there", "absent"} BY <1>3 DEF After
<1>5. \A p \in Process : at[p] = Off BY DEF Init
<1>6. Off \in Launch /\ Off.pc = "off" /\ Off.seen = 0 /\ Off.line = 0 /\ Off.invalid = {}
  BY <1>2 DEF Off, Launch
<1>7. TypeInv
  <2>1. versions \in SUBSET (1 .. Len(List)) BY <1>2, <1>3
  <2>2. schema \in [Object -> {"absent", "there", "building", "invalid"}]
    BY <1>3, <1>4
  <2>3. at \in [Process -> Launch] BY <1>6 DEF Init
  <2> QED BY <1>1, <2>1, <2>2, <2>3 DEF TypeInv
<1>8. OwnedSound BY <1>4, <1>5, <1>6 DEF OwnedSound, Owned, Own
<1>9. ASSUME NEW k \in DOMAIN List, k <= n, NEW o \in Own(k) PROVE schema[o] = "there"
  <2> DEFINE named == {j \in 1 .. n : Names(j, o)}
  <2>1. o \in Object /\ Names(k, o) /\ \A j \in DOMAIN List : Names(j, o) => j = k
    BY <1>9 DEF Own, Names
  <2>2. k \in 1 .. n /\ \A j \in 1 .. n : j \in DOMAIN List BY <1>2, <1>9
  <2>3. named = {k} BY <2>1, <2>2
  <2>4. Max({k}) = k
    <3>1. k \in Nat BY <1>2
    <3>2. \E x \in {k} : \A y \in {k} : x >= y BY <3>1
    <3> QED BY <3>2 DEF Max
  <2>5. Keeps(k, o) BY <1>9 DEF Own, Keeps
  <2>6. After(n, o) = "there" BY <2>3, <2>4, <2>5 DEF After
  <2> QED BY <1>3, <2>1, <2>6
<1>10. OneVersion
  <2>1. CASE n = 0 BY <1>3, <2>1 DEF OneVersion
  <2>2. CASE n # 0
    <3>1. n \in 1 .. Len(List) /\ versions = {n} BY <1>2, <1>3, <2>2
    <3> QED BY <1>9, <3>1 DEF OneVersion, Vouched
  <2> QED BY <2>1, <2>2
<1>11. ASSUME NEW p \in Process PROVE LaunchInv(p)
  <2>1. Vouched(0) BY <1>2 DEF Vouched
  <2>2. Placed(p) BY <1>5, <1>6 DEF Placed, Pending
  <2>3. OneCreator(p) BY <1>5, <1>6 DEF OneCreator, Creator
  <2> QED BY <1>5, <1>6, <2>1, <2>2, <2>3 DEF LaunchInv
<1> QED BY <1>7, <1>8, <1>10, <1>11 DEF IInv

\* A launch reads the version.
LEMMA BeginHolds == ASSUME IInv, NEW p \in Process, Begin(p) PROVE IInv'
<1>1. PICK v \in Current : at' = [at EXCEPT ![p] = [Off EXCEPT !.pc = "running", !.seen = v]]
  BY DEF Begin
<1> DEFINE l == [Off EXCEPT !.pc = "running", !.seen = v]
<1>2. backend' = backend /\ UNCHANGED <<versions, schema>> BY DEF Begin
<1>3. Len(List) \in Nat /\ DOMAIN List = 1 .. Len(List) /\ backend \in Backend
  BY LaunchFacts, ListFacts
<1>4. v \in 0 .. Len(List) /\ Vouched(v)
  BY <1>3 DEF Current, IInv, OneVersion, Vouched
<1>5. /\ l \in Launch /\ l.pc = "running" /\ l.seen = v /\ l.line = 0 /\ l.invalid = {}
  BY <1>4 DEF Off, Launch
<1> HIDE DEF l
<1>6. at' = [at EXCEPT ![p] = l] BY <1>1 DEF l
<1>7. at'[p] = l BY <1>6 DEF IInv, TypeInv
<1>8. Stays BY <1>2, SameSchema
<1>9. Vouched(l.seen)' BY <1>2, <1>4, <1>5, <1>8, VouchedStays
<1>10. Placed(p)'
  <2>1. v < Len(List) => Len(List[v + 1].does) > 0
    <3> SUFFICES ASSUME v < Len(List) PROVE Len(List[v + 1].does) > 0 OBVIOUS
    <3>1. v + 1 \in DOMAIN List BY <1>3, <1>4
    <3> QED BY <1>3, <3>1, ScriptFacts
  <2> QED BY <1>2, <1>5, <1>7, <2>1, SameList DEF Placed, Pending, Following
<1>11. ~Creator(p)' BY <1>5, <1>7 DEF Creator
<1>12. \A q \in Process : Creator(q) => versions' = {}
  BY <1>2 DEF IInv, LaunchInv, OneCreator
<1> QED BY <1>2, <1>5, <1>6, <1>8, <1>9, <1>10, <1>11, <1>12, SameVersions, OneMoves

\* A script that is there is written to the version row.
LEMMA VersionIsWritten ==
    ASSUME IInv, backend' = backend, Stays, NEW p \in Process, at[p].seen < Len(List),
           NEW n, n = Following(p), \A o \in Own(n) : schema'[o] = "there",
           at[p].seen = 0 => versions = {}, Store(n, at[p].seen)
    PROVE  /\ OneVersion' /\ versions' \in SUBSET (1 .. Len(List)) /\ Vouched(n)'
           /\ at[p].seen # 0 /\ versions = {} => versions' = {}
<1>1. /\ backend \in Backend /\ n = at[p].seen + 1 /\ n \in DOMAIN List
      /\ DOMAIN List = 1 .. Len(List) /\ at[p].seen \in Nat /\ Len(List) \in Nat
  BY LaunchFacts, ListFacts
<1>2. Vouched(at[p].seen) BY LaunchFacts DEF LaunchInv
<1>3. \A k \in DOMAIN List : k <= n => k <= at[p].seen \/ k = n BY <1>1
<1>4. Vouched(n)'
  <2> SUFFICES ASSUME NEW k \in DOMAIN List, k <= n, NEW o \in Own(k)
               PROVE  schema'[o] = "there"
    BY SameList DEF Vouched
  <2>1. CASE k <= at[p].seen BY <1>2, <2>1 DEF Vouched, Stays, Owned
  <2>2. CASE k = n BY <2>2
  <2> QED BY <1>3, <2>1, <2>2
<1>5. versions' = {} \/ versions' = {n}
  <2>1. CASE at[p].seen = 0 BY <2>1 DEF Store
  <2>2. CASE at[p].seen # 0
    <3>1. versions' = {n : v \in versions} BY <2>2 DEF Store
    <3> QED BY <3>1
  <2> QED BY <2>1, <2>2
<1>6. at[p].seen # 0 /\ versions = {} => versions' = {} BY DEF Store
<1>7. OneVersion' BY <1>1, <1>4, <1>5, SameList DEF OneVersion
<1> QED BY <1>1, <1>4, <1>5, <1>6, <1>7

\* As long as the first table is not there, neither is a version.
LEMMA NoTableNoVersion ==
    ASSUME IInv, schema[FirstTable] # "there"
    PROVE  versions = {}
<1>1. backend \in Backend /\ DOMAIN List = 1 .. Len(List)
  BY ListFacts DEF IInv, TypeInv
<1>2. 1 \in DOMAIN List /\ FirstTable \in Own(1) BY <1>1, FirstTableIsOwn
<1> QED BY <1>1, <1>2 DEF IInv, OneVersion, Vouched

\* A script that is one transaction.
LEMMA ApplyOfflineHolds == ASSUME IInv, NEW p \in Process, ApplyOffline(p) PROVE IInv'
<1> SUFFICES ASSUME NEW n, n = at[p].seen + 1 PROVE IInv' OBVIOUS
<1>1. /\ backend \in Backend /\ backend = "postgres" /\ at[p].seen < Len(List)
      /\ Following(p) = n /\ n \in DOMAIN List /\ at[p] \in Launch /\ LaunchInv(p)
      /\ at[p].pc = "running" /\ at[p].line = 0 /\ at[p].seen \in Nat /\ Len(List) \in Nat
      /\ DOMAIN List = 1 .. Len(List)
  BY LaunchFacts, ListFacts DEF ApplyOffline, Pending
<1>2. CASE GiveUp(p) BY <1>2, LaunchEnds, SameSchema DEF GiveUp
<1>3. CASE /\ \A s \in Does(n) : ~Fails(s)
           /\ CanStore(n, at[p].seen) /\ Apply(n) /\ Store(n, at[p].seen)
           /\ at' = [at EXCEPT ![p].seen = n] /\ UNCHANGED <<backend, faults, overlapped>>
  <2>1. \A s \in Statement : Result(s) \in {"absent", "there", "building", "invalid"}
    BY DEF Result, Statement, IInv, TypeInv
  <2>2. \A s \in Does(n) : s \in Statement BY <1>1, ScriptFacts DEF Does
  <2>3. ASSUME NEW o \in Object, Names(n, o)
        PROVE  \E s \in Does(n) : s.obj = o /\ schema'[o] = Result(s)
    <3> DEFINE s == CHOOSE s \in Does(n) : s.obj = o
    <3>1. s \in Does(n) /\ s.obj = o BY <2>3 DEF Names
    <3>2. schema'[o] = Result(s) BY <1>3, <2>3 DEF Apply
    <3> QED BY <3>1, <3>2
  <2>4. \A o \in Object : ~Names(n, o) => schema'[o] = schema[o] BY <1>3 DEF Apply
  <2>5. schema' \in [Object -> {"absent", "there", "building", "invalid"}]
    <3>1. \A o \in Object : schema'[o] \in {"absent", "there", "building", "invalid"}
      BY <2>1, <2>2, <2>3, <2>4 DEF IInv, TypeInv
    <3> QED BY <1>3, <3>1 DEF Apply
  <2>6. ASSUME NEW k \in DOMAIN List, NEW o \in Own(k), Names(n, o)
        PROVE  schema'[o] = "there"
    <3>1. o \in Object BY DEF Own
    <3>2. PICK s \in Does(n) : s.obj = o /\ schema'[o] = Result(s) BY <2>3, <2>6, <3>1
    <3>3. s.op = "add" BY <1>1, <3>2, OwnIsAdded
    <3> QED BY <3>2, <3>3 DEF Result
  <2>7. Stays
    <3> SUFFICES ASSUME NEW k \in DOMAIN List, NEW o \in Own(k)
                 PROVE  /\ schema[o] = "there" => schema'[o] = "there"
                        /\ schema'[o] \in {"absent", "there"}
      BY <2>5 DEF Stays, Owned
    <3>1. o \in Object /\ o \in Owned BY DEF Own, Owned
    <3>2. CASE Names(n, o) BY <2>6, <3>2
    <3>3. CASE ~Names(n, o) BY <2>4, <3>1, <3>3 DEF IInv, OwnedSound
    <3> QED BY <3>2, <3>3
  <2>8. \A o \in Own(n) : schema'[o] = "there" BY <1>1, <2>6 DEF Own, Names
  <2>9. at[p].seen = 0 => versions = {}
    <3> SUFFICES ASSUME at[p].seen = 0 PROVE versions = {} OBVIOUS
    <3>1. n = 1 BY <1>1
    <3>2. 1 \in DOMAIN List[1].does /\ List[1].does[1].op = "add"
      BY <1>1, FirstTableIsOwn, ListFacts
    <3>3. List[1].does[1] \in Does(n) BY <3>1, <3>2 DEF Does
    <3>4. ~Fails(List[1].does[1]) BY <1>3, <3>3
    <3>5. schema[FirstTable] = "absent" BY <3>2, <3>4 DEF Fails, FirstTable
    <3> QED BY <3>5, NoTableNoVersion
  <2>10. /\ OneVersion' /\ versions' \in SUBSET (1 .. Len(List)) /\ Vouched(n)'
    BY <1>1, <1>3, <2>7, <2>8, <2>9, VersionIsWritten
  <2> SUFFICES ASSUME NEW l, l = [at[p] EXCEPT !.seen = n] PROVE IInv' OBVIOUS
  <2>11. /\ l \in Launch /\ l.seen = n /\ l.pc = "running" /\ l.line = 0
         /\ l.invalid = at[p].invalid
    BY <1>1 DEF Launch
  <2>12. at' = [at EXCEPT ![p] = l] BY <1>3
  <2>13. at'[p] = l BY <2>12 DEF IInv, TypeInv
  <2>14. Placed(p)'
    <3>1. n < Len(List) => Len(List[n + 1].does) > 0
      <4> SUFFICES ASSUME n < Len(List) PROVE Len(List[n + 1].does) > 0 OBVIOUS
      <4>1. n + 1 \in DOMAIN List BY <1>1
      <4> QED BY <1>1, <4>1, ScriptFacts
    <3>2. at'[p].pc = "running" /\ at'[p].seen = n /\ at'[p].line = 0 BY <2>11, <2>13
    <3>3. Following(p)' = n + 1 BY <3>2 DEF Following
    <3>4. List' = List /\ n \in Nat BY <1>1, <1>3, SameList
    <3> QED BY <3>1, <3>2, <3>3, <3>4 DEF Placed, Pending
  <2>15. ~Creator(p)' BY <1>1, <2>11, <2>13 DEF Creator
  <2>16. \A q \in Process : ~Creator(q) BY <1>1, LaunchFacts
  <2>17. \A o \in Owned : o \notin l.invalid BY <2>11, LaunchFacts
  <2> QED BY <1>3, <2>7, <2>10, <2>11, <2>12, <2>14, <2>15, <2>16, <2>17, OneMoves
<1> QED BY <1>1, <1>2, <1>3 DEF ApplyOffline

\* A launch looks for invalid indexes: none of those is owned.
LEMMA LookForInvalidHolds == ASSUME IInv, NEW p \in Process, LookForInvalid(p) PROVE IInv'
<1> SUFFICES ASSUME NEW found,
                    found = {o \in Object : schema[o] \in {"building", "invalid"}},
                    NEW l, l = [at[p] EXCEPT !.pc = "cleaning", !.invalid = found]
             PROVE  IInv'
  OBVIOUS
<1>1. /\ backend = "postgres" /\ Pending(p) /\ at[p].pc = "running" /\ List[Following(p)].online
      /\ at[p].seen < Len(List) /\ at[p] \in Launch /\ LaunchInv(p) /\ at[p].line = 0
  BY LaunchFacts DEF LookForInvalid, Pending
<1>2. /\ l \in Launch /\ l.pc = "cleaning" /\ l.seen = at[p].seen /\ l.line = 0
      /\ l.invalid = found
  <2>1. found \in SUBSET Object OBVIOUS
  <2>2. at[p] \in Launch /\ at[p].line = 0 BY <1>1
  <2> QED BY <2>1, <2>2, Zenon DEF Launch
<1>3. at' = [at EXCEPT ![p] = l] /\ backend' = backend /\ UNCHANGED <<versions, schema>>
  BY DEF LookForInvalid
<1>4. at'[p] = l BY <1>3 DEF IInv, TypeInv
<1>5. Stays BY <1>3, SameSchema
<1>6. \A o \in Owned : o \notin l.invalid BY <1>2 DEF IInv, OwnedSound
<1>7. Vouched(l.seen)' BY <1>1, <1>2, <1>3, <1>5, VouchedStays DEF LaunchInv
<1>8. Placed(p)'
  <2>1. at'[p].pc = "cleaning" /\ at'[p].seen = at[p].seen /\ at'[p].line = 0
    BY <1>2, <1>4
  <2>2. Following(p)' = Following(p) BY <2>1 DEF Following
  <2>3. List' = List /\ backend' = backend BY <1>3, SameList
  <2> QED BY <1>1, <2>1, <2>2, <2>3 DEF Placed, Pending
<1>9. ~Creator(p)' BY <1>2, <1>4 DEF Creator
<1>10. \A q \in Process : ~Creator(q) BY <1>1, LaunchFacts
<1> QED BY <1>2, <1>3, <1>5, <1>6, <1>7, <1>8, <1>9, <1>10, SameVersions, OneMoves

\* It drops one of them.
LEMMA DropInvalidHolds == ASSUME IInv, NEW p \in Process, DropInvalid(p) PROVE IInv'
<1>1. PICK o \in at[p].invalid :
        /\ schema' = [schema EXCEPT ![o] = "absent"]
        /\ at' = [at EXCEPT ![p].invalid = at[p].invalid \ {o}]
  BY DEF DropInvalid
<1> SUFFICES ASSUME NEW l, l = [at[p] EXCEPT !.invalid = at[p].invalid \ {o}] PROVE IInv'
  OBVIOUS
<1>2. /\ at[p].pc = "cleaning" /\ backend = "postgres" /\ List[Following(p)].online
      /\ at[p].seen < Len(List) /\ at[p] \in Launch /\ LaunchInv(p) /\ at[p].line = 0
  BY LaunchFacts DEF DropInvalid, LaunchInv, Placed
<1>3. /\ l \in Launch /\ l.pc = "cleaning" /\ l.seen = at[p].seen /\ l.line = 0
      /\ l.invalid \subseteq at[p].invalid
  BY <1>2 DEF Launch
<1>4. at' = [at EXCEPT ![p] = l] /\ backend' = backend /\ UNCHANGED versions
  BY <1>1 DEF DropInvalid
<1>5. at'[p] = l BY <1>4 DEF IInv, TypeInv
<1>6. o \in Object /\ o \notin Owned BY <1>2, LaunchFacts DEF Launch
<1>7. Stays BY <1>1, <1>6, OthersChange
<1>8. \A u \in Owned : u \notin l.invalid BY <1>3, LaunchFacts
<1>9. Vouched(l.seen)' BY <1>2, <1>3, <1>4, <1>7, VouchedStays DEF LaunchInv
<1>10. Placed(p)' BY <1>2, <1>3, <1>4, <1>5, SameList DEF Placed, Pending, Following
<1>11. ~Creator(p)' BY <1>3, <1>5 DEF Creator
<1>12. \A q \in Process : ~Creator(q) BY <1>2, LaunchFacts
<1> QED BY <1>3, <1>4, <1>7, <1>8, <1>9, <1>10, <1>11, <1>12, SameVersions, OneMoves

\* An online script builds or drops an index, which nobody owns.
LEMMA OnlineMoves ==
    ASSUME IInv, NEW p \in Process, at[p].pc \in {"cleaning", "building"},
           NEW pc \in {"building", "applied"}, at' = [at EXCEPT ![p].pc = pc],
           NEW x \in {"absent", "there", "building", "invalid"},
           schema' = [schema EXCEPT ![List[Following(p)].does[1].obj] = x],
           UNCHANGED <<backend, versions>>
    PROVE  IInv'
<1> SUFFICES ASSUME NEW l, l = [at[p] EXCEPT !.pc = pc] PROVE IInv' OBVIOUS
<1>1. /\ backend = "postgres" /\ List[Following(p)].online /\ backend \in Backend
      /\ at[p].seen < Len(List) /\ at[p] \in Launch /\ LaunchInv(p) /\ at[p].line = 0
      /\ Following(p) \in DOMAIN List /\ Following(p) = at[p].seen + 1 /\ at[p].seen \in Nat
  BY LaunchFacts DEF LaunchInv, Placed
<1>2. /\ l \in Launch /\ l.pc = pc /\ l.seen = at[p].seen /\ l.line = 0
      /\ l.invalid = at[p].invalid
  BY <1>1 DEF Launch
<1>3. at' = [at EXCEPT ![p] = l] /\ backend' = backend /\ versions' = versions OBVIOUS
<1>4. at'[p] = l BY <1>3 DEF IInv, TypeInv
<1>5. /\ Own(Following(p)) = {} /\ Following(p) # 1
      /\ List[Following(p)].does[1].obj \in Object
      /\ List[Following(p)].does[1].obj \notin Owned
  BY <1>1, OnlineOwnsNothing
<1>6. Stays BY <1>5, OthersChange
<1>7. \A u \in Owned : u \notin l.invalid BY <1>2, LaunchFacts
<1>8. Vouched(l.seen)' BY <1>1, <1>2, <1>3, <1>6, VouchedStays DEF LaunchInv
<1>9. Following(p)' = Following(p) BY <1>2, <1>4 DEF Following
<1>10. Own(Following(p))' = {} BY <1>1, <1>3, <1>5, <1>9, SameList
<1>11. Placed(p)'
  BY <1>1, <1>2, <1>3, <1>4, <1>9, <1>10, SameList DEF Placed, Pending
<1>12. ~Creator(p)' BY <1>1, <1>2, <1>4, <1>5 DEF Creator
<1>13. \A q \in Process : ~Creator(q) BY <1>1, LaunchFacts
<1> QED BY <1>2, <1>3, <1>6, <1>7, <1>8, <1>11, <1>12, <1>13, SameVersions, OneMoves

\* The statement of an online script.
LEMMA RunOnlineHolds == ASSUME IInv, NEW p \in Process, RunOnline(p) PROVE IInv'
<1> DEFINE s == List[Following(p)].does[1]
           builds == s.op = "ensure" /\ schema[s.obj] = "absent"
<1> SUFFICES ASSUME NEW x, x = IF builds THEN "building" ELSE Result(s),
                    NEW pc, pc = IF builds THEN "building" ELSE "applied"
             PROVE  IInv'
  OBVIOUS
<1>1. /\ at[p].pc = "cleaning" /\ schema' = [schema EXCEPT ![s.obj] = x]
      /\ at' = [at EXCEPT ![p].pc = pc] /\ UNCHANGED <<backend, versions>>
  BY DEF RunOnline
<1>2. s.obj \in Object
  <2>1. backend \in Backend /\ Following(p) \in DOMAIN List /\ List[Following(p)].online
    BY <1>1, LaunchFacts DEF LaunchInv, Placed
  <2> QED BY <2>1, OnlineOwnsNothing
<1>3. x \in {"absent", "there", "building", "invalid"}
  BY <1>2 DEF Result, IInv, TypeInv
<1>4. pc \in {"building", "applied"} OBVIOUS
<1> HIDE DEF builds
<1> QED BY <1>1, <1>3, <1>4, OnlineMoves

\* The index is built.
LEMMA FinishBuildHolds == ASSUME IInv, NEW p \in Process, FinishBuild(p) PROVE IInv'
BY OnlineMoves DEF FinishBuild

\* SQLite: one statement.
LEMMA ApplyStatementHolds == ASSUME IInv, NEW p \in Process, ApplyStatement(p) PROVE IInv'
<1> SUFFICES ASSUME NEW n, n = Following(p), NEW i, i = at[p].line + 1,
                    NEW s, s = List[n].does[i]
             PROVE  IInv'
  OBVIOUS
<1>1. /\ backend = "sqlite" /\ backend \in Backend /\ at[p].pc = "running"
      /\ at[p].seen < Len(List) /\ at[p] \in Launch /\ LaunchInv(p)
      /\ at[p].line \in Nat /\ at[p].seen \in Nat /\ n = at[p].seen + 1 /\ n \in DOMAIN List
      /\ at[p].line < Len(List[n].does)
  BY LaunchFacts DEF ApplyStatement, Pending, LaunchInv, Placed
<1>2. /\ i \in DOMAIN List[n].does /\ i \in Nat /\ s \in Statement /\ s \in Does(n)
      /\ DOMAIN List[n].does = 1 .. Len(List[n].does) /\ Len(List[n].does) \in Nat
  <2>1. DOMAIN List[n].does = 1 .. Len(List[n].does) /\ Len(List[n].does) \in Nat
    BY <1>1, ScriptFacts
  <2>2. i \in DOMAIN List[n].does /\ i \in Nat BY <1>1, <2>1
  <2>3. s \in Statement BY <1>1, <2>2, ScriptFacts
  <2> QED BY <2>1, <2>2, <2>3 DEF Does
<1>3. CASE GiveUp(p) BY <1>3, LaunchEnds, SameSchema DEF GiveUp
<1>4. CASE ~Fails(s) /\ ~GiveUp(p)
  <2> SUFFICES ASSUME NEW pc, pc = IF i = Len(List[n].does) THEN "applied" ELSE "running",
                      NEW l, l = [at[p] EXCEPT !.line = i, !.pc = pc],
                      NEW x, x = Result(s)
               PROVE  IInv'
    OBVIOUS
  <2>1. /\ schema' = [schema EXCEPT ![s.obj] = x] /\ at' = [at EXCEPT ![p] = l]
        /\ backend' = backend /\ versions' = versions
    BY <1>4 DEF ApplyStatement
  <2>2. /\ l \in Launch /\ l.pc = pc /\ l.seen = at[p].seen /\ l.line = i
        /\ l.invalid = at[p].invalid
    BY <1>1, <1>2 DEF Launch
  <2>3. at'[p] = l BY <2>1 DEF IInv, TypeInv
  <2>4. s.obj \in Object /\ x \in {"absent", "there", "building", "invalid"}
    <3>1. s.obj \in Object BY <1>2 DEF Statement
    <3> QED BY <3>1 DEF Result, IInv, TypeInv
  <2>5. s.op = "add" => schema[s.obj] = "absent" /\ schema'[s.obj] = "there"
    BY <1>4, <2>1, <2>4 DEF Fails, Result, IInv, TypeInv
  <2>6. \A o \in Object : o # s.obj => schema'[o] = schema[o]
    BY <2>1 DEF IInv, TypeInv
  <2>7. Stays
    <3>1. schema' \in [Object -> {"absent", "there", "building", "invalid"}]
      BY <2>1, <2>4 DEF IInv, TypeInv
    <3> SUFFICES ASSUME NEW k \in DOMAIN List, NEW o \in Own(k)
                 PROVE  /\ schema[o] = "there" => schema'[o] = "there"
                        /\ schema'[o] \in {"absent", "there"}
      BY <3>1 DEF Stays, Owned
    <3>2. o \in Object /\ o \in Owned BY DEF Own, Owned
    <3>3. CASE o = s.obj
      <4>1. s.op = "add" BY <1>1, <1>2, <3>3, OwnIsAdded
      <4> QED BY <2>5, <3>3, <4>1
    <3>4. CASE o # s.obj BY <2>6, <3>2, <3>4 DEF IInv, OwnedSound
    <3> QED BY <3>3, <3>4
  <2>8. /\ List' = List /\ Following(p)' = n /\ Own(n)' = Own(n)
        /\ (FirstTable)' = FirstTable
    BY <1>1, <2>1, <2>2, <2>3, SameList DEF Following
  <2>9. ASSUME NEW j \in DOMAIN List[n].does, j <= i, List[n].does[j].obj \in Own(n)
        PROVE  schema'[List[n].does[j].obj] = "there"
    <3>1. CASE j = i
      <4>1. s.op = "add" BY <1>1, <1>2, <2>9, <3>1, OwnIsAdded
      <4> QED BY <2>5, <3>1, <4>1
    <3>2. CASE j # i
      <4>1. j <= at[p].line /\ at[p].line > 0 BY <1>1, <1>2, <2>9, <3>2
      <4>2. schema[List[n].does[j].obj] = "there"
        BY <1>1, <2>9, <4>1 DEF LaunchInv, Placed
      <4> QED BY <1>1, <2>7, <2>9, <4>2 DEF Stays, Owned
    <3> QED BY <3>1, <3>2
  <2>10. i = Len(List[n].does) => \A o \in Own(n) : schema'[o] = "there"
    <3> SUFFICES ASSUME i = Len(List[n].does), NEW o \in Own(n) PROVE schema'[o] = "there"
      OBVIOUS
    <3>1. PICK t \in Does(n) : t.obj = o BY DEF Own
    <3>2. PICK j \in DOMAIN List[n].does : t = List[n].does[j] BY DEF Does
    <3>3. j <= i BY <1>2
    <3> QED BY <2>9, <3>1, <3>2, <3>3
  <2>11. Placed(p)'
    <3>1. /\ at'[p].pc = pc /\ at'[p].line = i /\ at'[p].seen = at[p].seen
          /\ pc \in {"applied", "running"}
      BY <2>2, <2>3
    <3>2. Pending(p)' => i < Len(List[n].does) BY <1>2, <2>8, <3>1 DEF Pending
    <3> QED BY <1>1, <2>1, <2>8, <2>9, <2>10, <3>1, <3>2 DEF Placed
  <2>12. Creator(p)' => /\ versions = {} /\ schema'[FirstTable] = "there"
                        /\ \A q \in Process : q # p => ~Creator(q)
    <3> SUFFICES ASSUME Creator(p)'
                 PROVE  /\ versions = {} /\ schema'[FirstTable] = "there"
                        /\ \A q \in Process : q # p => ~Creator(q)
      OBVIOUS
    <3>1. at[p].seen = 0 /\ n = 1 BY <1>1, <2>2, <2>3 DEF Creator
    <3>2. CASE at[p].line = 0
      <4>1. s = List[1].does[1] /\ s.op = "add" /\ s.obj = FirstTable
        BY <1>1, <3>1, <3>2, ListFacts DEF FirstTable
      <4>2. schema[FirstTable] # "there" /\ schema'[FirstTable] = "there" BY <2>5, <4>1
      <4> QED BY <4>2, NoTableNoVersion DEF IInv, LaunchInv, OneCreator
    <3>3. CASE at[p].line # 0
      <4>1. Creator(p) BY <1>1, <3>1, <3>3 DEF Creator
      <4>2. /\ versions = {} /\ schema[FirstTable] = "there"
            /\ \A q \in Process : Creator(q) => q = p
        BY <1>1, <4>1 DEF LaunchInv, OneCreator
      <4>3. schema'[FirstTable] = "there" BY <1>1, <2>7, <4>2, FirstTableIsOwn DEF Stays
      <4> QED BY <4>2, <4>3
    <3> QED BY <3>2, <3>3
  <2>13. \A u \in Owned : u \notin l.invalid BY <2>2, LaunchFacts
  <2>14. Vouched(l.seen)' BY <1>1, <2>1, <2>2, <2>7, VouchedStays DEF LaunchInv
  <2>15. \A q \in Process : Creator(q) => versions = {} BY DEF IInv, LaunchInv, OneCreator
  <2> QED BY <1>1, <2>1, <2>2, <2>7, <2>11, <2>12, <2>13, <2>14, <2>15,
             SameVersions, OneMoves
<1> QED BY <1>3, <1>4 DEF ApplyStatement

\* The version of a script that is applied is written.
LEMMA WriteVersionHolds == ASSUME IInv, NEW p \in Process, WriteVersion(p) PROVE IInv'
<1> SUFFICES ASSUME NEW n, n = Following(p) PROVE IInv' OBVIOUS
<1>1. /\ backend \in Backend /\ at[p].pc = "applied" /\ at[p].seen < Len(List)
      /\ at[p] \in Launch /\ LaunchInv(p) /\ at[p].seen \in Nat /\ n = at[p].seen + 1
      /\ n \in DOMAIN List /\ Len(List) \in Nat /\ DOMAIN List = 1 .. Len(List)
      /\ \A o \in Own(n) : schema[o] = "there"
  BY LaunchFacts, ListFacts DEF WriteVersion, LaunchInv, Placed
<1>2. CASE GiveUp(p) BY <1>2, LaunchEnds, SameSchema DEF GiveUp
<1>3. CASE ~GiveUp(p)
  <2> DEFINE l == [Off EXCEPT !.pc = "running", !.seen = n]
  <2>1. /\ Store(n, at[p].seen) /\ at' = [at EXCEPT ![p] = l]
        /\ backend' = backend /\ schema' = schema
    BY <1>3 DEF WriteVersion
  <2>2. /\ l \in Launch /\ l.pc = "running" /\ l.seen = n /\ l.line = 0 /\ l.invalid = {}
    <3>1. n \in 0 .. Len(List) BY <1>1
    <3> QED BY <3>1 DEF Off, Launch
  <2> HIDE DEF l
  <2>3. at'[p] = l BY <2>1 DEF IInv, TypeInv
  <2>4. Stays BY <2>1, SameSchema
  <2>5. at[p].seen = 0 => /\ versions = {}
                          /\ \A q \in Process : Creator(q) => q = p
    BY <1>1 DEF Creator, LaunchInv, OneCreator
  <2>6. /\ OneVersion' /\ versions' \in SUBSET (1 .. Len(List)) /\ Vouched(n)'
        /\ at[p].seen # 0 /\ versions = {} => versions' = {}
    BY <1>1, <2>1, <2>4, <2>5, VersionIsWritten
  <2>7. \A q \in Process : q # p /\ Creator(q) => versions' = {}
    BY <2>5, <2>6 DEF IInv, LaunchInv, OneCreator
  <2>8. Placed(p)'
    <3>1. n < Len(List) => Len(List[n + 1].does) > 0
      <4> SUFFICES ASSUME n < Len(List) PROVE Len(List[n + 1].does) > 0 OBVIOUS
      <4>1. n + 1 \in DOMAIN List BY <1>1
      <4> QED BY <1>1, <4>1, ScriptFacts
    <3>2. at'[p].pc = "running" /\ at'[p].seen = n /\ at'[p].line = 0 BY <2>2, <2>3
    <3>3. Following(p)' = n + 1 BY <3>2 DEF Following
    <3>4. List' = List /\ n \in Nat BY <1>1, <2>1, SameList
    <3> QED BY <3>1, <3>2, <3>3, <3>4 DEF Placed, Pending
  <2>9. ~Creator(p)' BY <1>1, <2>2, <2>3 DEF Creator
  <2> QED BY <2>1, <2>2, <2>4, <2>6, <2>7, <2>8, <2>9, OneMoves
<1> QED BY <1>2, <1>3

\* The launch is through.
LEMMA FinishHolds == ASSUME IInv, NEW p \in Process, Finish(p) PROVE IInv'
<1> SUFFICES ASSUME NEW l, l = [at[p] EXCEPT !.pc = "up"] PROVE IInv' OBVIOUS
<1>1. /\ at[p].pc = "running" /\ at[p].seen >= Len(List) /\ at[p] \in Launch /\ LaunchInv(p)
      /\ at[p].seen \in Nat /\ at[p].line \in Nat /\ Len(List) \in Nat
  BY LaunchFacts DEF Finish
<1>2. at[p].line = 0 BY <1>1 DEF LaunchInv, Placed
<1>3. /\ l \in Launch /\ l.pc = "up" /\ l.seen = at[p].seen /\ l.line = 0
      /\ l.invalid = at[p].invalid
  BY <1>1, <1>2 DEF Launch
<1>4. at' = [at EXCEPT ![p] = l] /\ backend' = backend /\ UNCHANGED <<versions, schema>>
  BY DEF Finish
<1>5. at'[p] = l BY <1>4 DEF IInv, TypeInv
<1>6. Stays BY <1>4, SameSchema
<1>7. \A o \in Owned : o \notin l.invalid BY <1>3, LaunchFacts
<1>8. Vouched(l.seen)' BY <1>1, <1>3, <1>4, <1>6, VouchedStays DEF LaunchInv
<1>9. Placed(p)' BY <1>3, <1>5 DEF Placed, Pending
<1>10. ~Creator(p)' BY <1>3, <1>5 DEF Creator
<1>11. \A q \in Process : Creator(q) => versions = {} BY DEF IInv, LaunchInv, OneCreator
<1> QED BY <1>3, <1>4, <1>6, <1>7, <1>8, <1>9, <1>10, <1>11, SameVersions, OneMoves

\* A launch dies: what it leaves invalid is an index that nobody owns.
LEMMA FailHolds == ASSUME IInv, NEW p \in Process, Fail(p) PROVE IInv'
<1>1. at' = [at EXCEPT ![p] = Off] /\ backend' = backend /\ UNCHANGED versions BY DEF Fail
<1>2. ASSUME at[p].pc \in {"building", "cleaning"}
      PROVE  Following(p) \in DOMAIN List /\ List[Following(p)].online /\ backend \in Backend
  BY <1>2, LaunchFacts DEF LaunchInv, Placed
<1>3. Stays
  <2>1. CASE UNCHANGED schema BY <2>1, SameSchema
  <2>2. CASE /\ at[p].pc = "building"
             /\ schema' = [schema EXCEPT ![List[Following(p)].does[1].obj] = "invalid"]
    <3> DEFINE o == List[Following(p)].does[1].obj
    <3>1. o \in Object /\ o \notin Owned BY <1>2, <2>2, OnlineOwnsNothing
    <3> QED BY <2>2, <3>1, OthersChange
  <2>3. ASSUME NEW o \in Dropping(p), schema' = [schema EXCEPT ![o] = "invalid"]
        PROVE  Stays
    <3>1. at[p].pc = "cleaning" BY DEF Dropping
    <3>2. CASE o \in at[p].invalid
      <4>1. o \in Object /\ o \notin Owned BY <3>2, LaunchFacts DEF Launch
      <4> QED BY <2>3, <4>1, OthersChange
    <3>3. CASE \E s \in Does(Following(p)) : o = s.obj
      <4>1. o \in Object /\ o \notin Owned BY <1>2, <3>1, <3>3, OnlineOwnsNothing
      <4> QED BY <2>3, <4>1, OthersChange
    <3> QED BY <3>1, <3>2, <3>3 DEF Dropping
  <2> QED BY <2>1, <2>2, <2>3 DEF Fail
<1> QED BY <1>1, <1>3, LaunchEnds
-----------------------------------------------------------------------------
\* Every step keeps the invariant.
LEMMA NextHolds == IInv /\ [Next]_vars => IInv'
<1> SUFFICES ASSUME IInv, [Next]_vars PROVE IInv' OBVIOUS
<1>1. CASE UNCHANGED vars
  <2>1. UNCHANGED <<backend, versions, schema, at>> BY <1>1 DEF vars
  <2>2. List' = List /\ Owned' = Owned /\ FirstTable' = FirstTable BY <2>1, SameList
  <2>3. Stays BY <2>1, SameSchema
  <2>4. TypeInv' BY <2>1, <2>2 DEF IInv, TypeInv, Launch
  <2>5. OwnedSound' BY <2>1, <2>2 DEF IInv, OwnedSound
  <2>6. OneVersion' BY <2>1, <2>3, SameVersions
  <2>7. ASSUME NEW p \in Process PROVE LaunchInv(p)'
    <3>1. LaunchInv(p) /\ at'[p] = at[p] BY <2>1 DEF IInv
    <3>2. Following(p)' = Following(p) /\ Pending(p)' = Pending(p)
      BY <2>1, <2>2 DEF Following, Pending
    <3>3. \A n : Own(n)' = Own(n) BY <2>2 DEF Own, Does, Names
    <3>4. Vouched(at[p].seen)' BY <2>1, <2>2, <3>1, <3>3 DEF LaunchInv, Vouched
    <3>5. Placed(p)' BY <2>1, <2>2, <3>1, <3>2, <3>3 DEF LaunchInv, Placed
    <3>6. OneCreator(p)' BY <2>1, <2>2, <3>1 DEF LaunchInv, OneCreator, Creator
    <3> QED BY <3>4, <3>5, <3>6 DEF LaunchInv
  <2> QED BY <2>4, <2>5, <2>6, <2>7 DEF IInv
<1>2. ASSUME NEW p \in Process, Step(p) PROVE IInv'
  BY <1>2, BeginHolds, ApplyOfflineHolds, LookForInvalidHolds, DropInvalidHolds,
     RunOnlineHolds, FinishBuildHolds, ApplyStatementHolds, WriteVersionHolds, FinishHolds
  DEF Step
<1>3. ASSUME NEW p \in Process, Fail(p) PROVE IInv' BY <1>3, FailHolds
<1> QED BY <1>1, <1>2, <1>3 DEF Next

\* However many launches migrate at once and wherever they die, there is one
\* version, and it and what a launch has come to vouch for the tables and
\* columns of all scripts up to it (run_migrations).
THEOREM VersionIsTrue == Spec => []VersionTells
<1>1. IInv => VersionTells
  <2> SUFFICES ASSUME IInv PROVE VersionTells OBVIOUS
  <2>1. Cardinality(versions) <= 1
    <3>1. CASE versions = {} BY <3>1, FS_EmptySet
    <3>2. ASSUME NEW v \in 1 .. Len(List), versions = {v} PROVE Cardinality(versions) <= 1
      <4>1. Cardinality({v}) = 1 BY FS_Singleton
      <4> QED BY <3>2, <4>1
    <3> QED BY <3>1, <3>2 DEF IInv, OneVersion
  <2>2. ASSUME NEW n \in DOMAIN List, NEW v \in versions, n <= v, NEW o \in Own(n)
        PROVE  schema[o] = "there"
    BY <2>2 DEF IInv, OneVersion, Vouched
  <2>3. ASSUME NEW n \in DOMAIN List, NEW p \in Process, n <= at[p].seen, NEW o \in Own(n)
        PROVE  schema[o] = "there"
    BY <2>3 DEF IInv, LaunchInv, Vouched
  <2> QED BY <2>1, <2>2, <2>3 DEF VersionTells
<1> QED BY <1>1, InitHolds, NextHolds, PTL DEF Spec
-----------------------------------------------------------------------------
\* An object is where the first v scripts have left it, unless the next script
\* names it, which some launch may have begun; only an online script leaves
\* indexes that are not ready.
Fits(v, o) ==
    /\ v = Len(List) \/ ~Names(v + 1, o) => schema[o] = After(v, o)
    /\ schema[o] \in {"building", "invalid"} => v < Len(List) /\ List[v + 1].online
    /\ schema[o] = "building" => \E p \in Process : at[p].pc = "building"

\* What a launch has done of script v + 1.
Done(p, v) ==
    /\ at[p].pc = "applied" =>
          \A o \in Object : Names(v + 1, o) => schema[o] = After(v + 1, o)
    /\ at[p].pc = "running" /\ v < Len(List) =>
          \A j \in DOMAIN List[v + 1].does :
             j <= at[p].line =>
                schema[List[v + 1].does[j].obj] = After(v + 1, List[v + 1].does[j].obj)
    /\ at[p].pc = "cleaning" => at[p].invalid = {o \in Object : schema[o] = "invalid"}
    /\ at[p].pc = "building" => List[v + 1].does[1].op = "ensure"

\* The database is at version v, and at most one launch works on the next.
Alone(v) ==
    /\ versions = IF v = 0 THEN {} ELSE {v}
    /\ \A p \in Process : /\ at[p].pc # "off" => at[p].seen = v
                          /\ at[p].pc = "up" => v = Len(List)
                          /\ Done(p, v)
    /\ \A p, q \in Process : Migrating(p) /\ Migrating(q) => p = q
    /\ \A o \in Object : Fits(v, o)

AInv == ~overlapped => \E v \in 0 .. Len(List) : Alone(v)
-----------------------------------------------------------------------------
\* What one more script makes of an object.
LEMMA AfterNext ==
    ASSUME NEW v \in Nat, NEW o
    PROVE  /\ After(v, o) \in {"there", "absent"}
           /\ Names(v + 1, o) =>
                 After(v + 1, o) = IF Keeps(v + 1, o) THEN "there" ELSE "absent"
           /\ ~Names(v + 1, o) => After(v + 1, o) = After(v, o)
<1>1. After(v, o) \in {"there", "absent"} BY DEF After
<1>2. ASSUME Names(v + 1, o)
      PROVE  After(v + 1, o) = IF Keeps(v + 1, o) THEN "there" ELSE "absent"
  <2> DEFINE named == {k \in 1 .. (v + 1) : Names(k, o)}
  <2>1. v + 1 \in named /\ \A k \in named : k \in Nat /\ k <= v + 1 BY <1>2
  <2> HIDE DEF named
  <2>2. Max(named) = v + 1 BY <2>1 DEF Max
  <2> QED BY <2>1, <2>2 DEF After, named
<1>3. ASSUME ~Names(v + 1, o) PROVE After(v + 1, o) = After(v, o)
  <2>1. {k \in 1 .. (v + 1) : Names(k, o)} = {k \in 1 .. v : Names(k, o)}
    <3>1. ASSUME NEW k \in 1 .. (v + 1), Names(k, o) PROVE k \in 1 .. v
      <4>1. k # v + 1 BY <1>3, <3>1
      <4> QED BY <4>1
    <3> QED BY <3>1
  <2> QED BY <2>1 DEF After
<1> QED BY <1>1, <1>2, <1>3

\* What the statement of a script that names an object makes of it.
LEMMA AfterStatement ==
    ASSUME backend \in Backend, NEW v \in Nat, v + 1 \in DOMAIN List,
           NEW i \in DOMAIN List[v + 1].does, NEW s, s = List[v + 1].does[i]
    PROVE  /\ Names(v + 1, s.obj) /\ s.obj \in Object /\ s \in Does(v + 1)
           /\ s.op \in {"add", "ensure", "drop"}
           /\ After(v + 1, s.obj) = IF s.op = "drop" THEN "absent" ELSE "there"
<1>1. s \in Does(v + 1) BY DEF Does
<1>2. Names(v + 1, s.obj) BY <1>1 DEF Names
<1>3. s \in Statement BY ScriptFacts
<1>4. Keeps(v + 1, s.obj) <=> s.op # "drop"
  <2>1. ASSUME NEW t \in Does(v + 1), t.obj = s.obj PROVE t = s
    <3>1. PICK j \in DOMAIN List[v + 1].does : t = List[v + 1].does[j] BY DEF Does
    <3>2. i = j BY <2>1, <3>1, ScriptFacts
    <3> QED BY <3>1, <3>2
  <2> QED BY <1>1, <2>1 DEF Keeps
<1> QED BY <1>1, <1>2, <1>3, <1>4, AfterNext DEF Statement

\* An online script names one object.
LEMMA OnlineNames ==
    ASSUME backend \in Backend, NEW n \in DOMAIN List, List[n].online,
           NEW o, Names(n, o)
    PROVE  /\ o = List[n].does[1].obj /\ List[n].does[1] \in Does(n)
           /\ \A s \in Does(n) : s = List[n].does[1]
           /\ 1 \in DOMAIN List[n].does /\ List[n].does[1].op # "add"
<1>1. /\ 1 \in DOMAIN List[n].does /\ \A i \in DOMAIN List[n].does : i = 1
      /\ List[n].does[1].op # "add"
  BY ScriptFacts
<1> QED BY <1>1 DEF Does, Names

\* A database stays what it is, and what its scripts make of it does too.
LEMMA SameAfter ==
    ASSUME backend' = backend
    PROVE  \A n, o : After(n, o)' = After(n, o) /\ Names(n, o)' = Names(n, o)
BY DEF After, Names, Keeps, Does, List

\* A schema that is what w scripts make of it fits.
LEMMA WholeFits ==
    ASSUME NEW w \in Nat, NEW o, schema'[o] = After(w, o), backend' = backend
    PROVE  Fits(w, o)'
<1>1. After(w, o) \in {"there", "absent"} BY AfterNext
<1>2. schema'[o] = After(w, o)' BY SameAfter
<1> QED BY <1>1, <1>2 DEF Fits

\* A launch that is alone: the others are up, at the end of the list, or off.
LEMMA OthersRest ==
    ASSUME IInv, NEW v \in 0 .. Len(List), Alone(v), NEW p \in Process,
           \A q \in Process : Migrating(q) => q = p
    PROVE  /\ \A q \in Process : q # p => at[q].pc \in {"off", "up"}
           /\ at[p].pc # "building" => \A o \in Object : schema[o] # "building"
<1>1. \A q \in Process : q # p => at[q].pc \in {"off", "up"} BY DEF Migrating
<1> QED BY <1>1 DEF Alone, Fits

\* A step of the launch that is alone.
LEMMA AloneMoves ==
    ASSUME IInv, NEW v \in 0 .. Len(List), Alone(v), NEW w \in 0 .. Len(List),
           w = v \/ v < Len(List), backend' = backend,
           NEW p \in Process, \A q \in Process : Migrating(q) => q = p,
           NEW l, at' = [at EXCEPT ![p] = l],
           l.pc # "off" => l.seen = w, l.pc = "up" => w = Len(List),
           versions' = IF w = 0 THEN {} ELSE {w},
           Done(p, w)', \A o \in Object : Fits(w, o)'
    PROVE  Alone(w)'
<1>1. at'[p] = l /\ \A q \in Process : q # p => at'[q] = at[q] BY DEF IInv, TypeInv
<1>2. List' = List BY DEF List
<1>3. \A q \in Process : q # p => at[q].pc \in {"off", "up"} BY OthersRest
<1>4. ASSUME NEW q \in Process
      PROVE  /\ at'[q].pc # "off" => at'[q].seen = w
             /\ at'[q].pc = "up" => w = Len(List)
             /\ Done(q, w)'
  <2>1. CASE q = p BY <1>1, <2>1
  <2>2. CASE q # p
    <3>1. at'[q].pc \in {"off", "up"} /\ at'[q] = at[q] BY <1>1, <1>3, <2>2
    <3>2. Done(q, w)' BY <3>1 DEF Done
    <3>3. at[q].pc = "up" => v = Len(List) /\ at[q].seen = v BY DEF Alone
    <3>4. Len(List) \in Nat BY LaunchFacts
    <3>5. v < Len(List) => v # Len(List) BY <3>4
    <3> QED BY <3>1, <3>2, <3>3, <3>5
  <2> QED BY <2>1, <2>2
<1>5. ASSUME NEW q \in Process, NEW r \in Process, Migrating(q)', Migrating(r)'
      PROVE  q = r
  <2>1. q = p BY <1>1, <1>3, <1>5 DEF Migrating
  <2>2. r = p BY <1>1, <1>3, <1>5 DEF Migrating
  <2> QED BY <2>1, <2>2
<1> QED BY <1>2, <1>4, <1>5 DEF Alone

\* What holds of a launch that migrates, when no other does.
LEMMA AloneFacts ==
    ASSUME IInv, NEW v \in 0 .. Len(List), Alone(v), NEW p \in Process, Migrating(p)
    PROVE  /\ \A q \in Process : Migrating(q) => q = p
           /\ at[p].seen = v /\ Following(p) = v + 1 /\ v \in Nat /\ Len(List) \in Nat
           /\ backend \in Backend /\ at[p] \in Launch /\ LaunchInv(p)
           /\ v < Len(List) => v + 1 \in DOMAIN List /\ v + 1 \in 0 .. Len(List)
           /\ versions = IF v = 0 THEN {} ELSE {v}
           /\ Done(p, v) /\ \A o \in Object : Fits(v, o)
<1>1. /\ at[p].seen = v /\ versions = IF v = 0 THEN {} ELSE {v}
      /\ Done(p, v) /\ \A o \in Object : Fits(v, o)
      /\ \A q \in Process : Migrating(q) => q = p
  BY DEF Alone, Migrating
<1>2. v < Len(List) => v + 1 \in DOMAIN List /\ v + 1 \in 0 .. Len(List)
  BY LaunchFacts, ListFacts
<1>3. v \in Nat BY LaunchFacts
<1> QED BY <1>1, <1>2, <1>3, LaunchFacts DEF Following
\* The schema stays as it is, and no index is under construction.
LEMMA SameFits ==
    ASSUME NEW v, NEW o, Fits(v, o), schema[o] # "building",
           schema' = schema, backend' = backend
    PROVE  Fits(v, o)'
<1>1. List' = List BY DEF List
<1> QED BY <1>1, SameAfter DEF Fits

\* It fails.
LEMMA GiveUpAlone ==
    ASSUME IInv, NEW v \in 0 .. Len(List), Alone(v), NEW p \in Process, Migrating(p),
           at[p].pc # "building", GiveUp(p)
    PROVE  Alone(v)'
<1>1. at' = [at EXCEPT ![p] = Off] /\ UNCHANGED <<backend, versions, schema>> BY DEF GiveUp
<1>2. Off.pc = "off" BY DEF Off
<1>3. \A q \in Process : Migrating(q) => q = p BY AloneFacts
<1>4. \A o \in Object : Fits(v, o)'
  BY <1>1, <1>3, AloneFacts, OthersRest, SameFits
<1>5. at'[p] = Off BY <1>1 DEF IInv, TypeInv
<1>6. Done(p, v)' BY <1>2, <1>5 DEF Done
<1>7. versions' = IF v = 0 THEN {} ELSE {v} BY <1>1 DEF Alone
<1> HIDE DEF Off
<1> QED BY <1>1, <1>2, <1>3, <1>4, <1>6, <1>7, AloneMoves

\* It begins, when no launch migrates.
LEMMA BeginAlone ==
    ASSUME IInv, NEW v \in 0 .. Len(List), Alone(v), NEW p \in Process, Begin(p),
           \A q \in Process : ~Migrating(q)
    PROVE  Alone(v)'
<1> SUFFICES ASSUME NEW l, l = [Off EXCEPT !.pc = "running", !.seen = v]
             PROVE  Alone(v)'
  OBVIOUS
<1>1. l.pc = "running" /\ l.seen = v /\ l.line = 0 BY DEF Off
<1>2. UNCHANGED <<backend, versions, schema>> BY DEF Begin
<1>3. at' = [at EXCEPT ![p] = l] BY DEF Begin, Current, Alone
<1>4. \A o \in Object : Fits(v, o)'
  <2>1. at[p].pc # "building" BY DEF Begin
  <2>2. \A o \in Object : schema[o] # "building" BY <2>1, OthersRest
  <2> QED BY <1>2, <2>2, SameFits DEF Alone
<1>5. at'[p] = l BY <1>3 DEF IInv, TypeInv
<1>6. Done(p, v)'
  <2> SUFFICES ASSUME v < Len(List), NEW j \in DOMAIN List[v + 1].does, j <= 0
               PROVE  FALSE
    BY <1>1, <1>2, <1>5 DEF Done, List
  <2>1. v + 1 \in DOMAIN List BY LaunchFacts, ListFacts
  <2> QED BY <2>1, LaunchFacts, ScriptFacts
<1>7. versions' = IF v = 0 THEN {} ELSE {v} BY <1>2 DEF Alone
<1> QED BY <1>1, <1>2, <1>3, <1>4, <1>6, <1>7, AloneMoves

\* The version that is written when the script has been applied.
LEMMA StoreAlone ==
    ASSUME IInv, NEW v \in 0 .. Len(List), Alone(v), v < Len(List), NEW p \in Process,
           Migrating(p), Store(v + 1, v), backend' = backend,
           \A o \in Object : schema'[o] = After(v + 1, o),
           NEW l, at' = [at EXCEPT ![p] = l], l.pc = "running", l.seen = v + 1, l.line = 0
    PROVE  \E w \in 0 .. Len(List) : Alone(w)'
<1>1. /\ v \in Nat /\ v + 1 \in 0 .. Len(List) /\ versions = IF v = 0 THEN {} ELSE {v}
      /\ Len(List) \in Nat /\ DOMAIN List = 1 .. Len(List) /\ backend \in Backend
      /\ \A q \in Process : Migrating(q) => q = p
  BY AloneFacts, ListFacts
<1>2. versions' = {v + 1}
  <2>1. CASE v = 0 BY <1>1, <2>1 DEF Store
  <2>2. CASE v # 0
    <3>1. versions' = {v + 1 : u \in {v}} BY <1>1, <2>2 DEF Store
    <3> QED BY <3>1
  <2> QED BY <2>1, <2>2
<1>3. \A o \in Object : Fits(v + 1, o)' BY <1>1, WholeFits
<1>4. at'[p] = l BY DEF IInv, TypeInv
<1>5. Done(p, v + 1)'
  <2> SUFFICES ASSUME v + 1 < Len(List), NEW j \in DOMAIN List[v + 1 + 1].does, j <= 0
               PROVE  FALSE
    BY <1>4 DEF Done, List
  <2>1. v + 1 + 1 \in DOMAIN List BY <1>1
  <2> QED BY <1>1, <2>1, ScriptFacts
<1>6. versions' = IF v + 1 = 0 THEN {} ELSE {v + 1} BY <1>1, <1>2
<1>7. Alone(v + 1)' BY <1>1, <1>3, <1>5, <1>6, AloneMoves
<1> QED BY <1>1, <1>7

\* A script in one transaction.
LEMMA ApplyOfflineAlone ==
    ASSUME IInv, NEW v \in 0 .. Len(List), Alone(v), NEW p \in Process, Migrating(p),
           ApplyOffline(p)
    PROVE  \E w \in 0 .. Len(List) : Alone(w)'
<1>1. /\ at[p].pc = "running" /\ v < Len(List) /\ Following(p) = v + 1 /\ at[p].seen = v
      /\ ~List[v + 1].online /\ v \in Nat /\ v + 1 \in DOMAIN List /\ backend \in Backend
      /\ at[p] \in Launch /\ backend = "postgres" /\ at[p].line = 0
      /\ \A o \in Object : Fits(v, o)
  BY AloneFacts, LaunchFacts DEF ApplyOffline, Pending
<1>2. CASE GiveUp(p) BY <1>1, <1>2, GiveUpAlone
<1>3. CASE ~GiveUp(p)
  <2>1. /\ \A s \in Does(v + 1) : ~Fails(s)
        /\ Apply(v + 1) /\ Store(v + 1, v) /\ backend' = backend
        /\ at' = [at EXCEPT ![p].seen = v + 1]
    BY <1>1, <1>3 DEF ApplyOffline
  <2>2. ASSUME NEW o \in Object PROVE schema'[o] = After(v + 1, o)
    <3>1. CASE ~Names(v + 1, o)
      <4>1. schema'[o] = schema[o] BY <2>1, <3>1 DEF Apply
      <4> QED BY <1>1, <3>1, <4>1, AfterNext DEF Fits
    <3>2. CASE Names(v + 1, o)
      <4> DEFINE s == CHOOSE s \in Does(v + 1) : s.obj = o
      <4>1. s \in Does(v + 1) /\ s.obj = o BY <3>2 DEF Names
      <4>2. schema'[o] = Result(s) BY <2>1, <3>2 DEF Apply
      <4> HIDE DEF s
      <4>3. PICK i \in DOMAIN List[v + 1].does : s = List[v + 1].does[i] BY <4>1 DEF Does
      <4>4. /\ After(v + 1, o) = IF s.op = "drop" THEN "absent" ELSE "there"
            /\ s.op \in {"add", "ensure", "drop"}
        BY <1>1, <4>1, <4>3, AfterStatement
      <4>5. schema[o] \in {"absent", "there"} BY <1>1 DEF Fits, IInv, TypeInv
      <4>6. s.op = "add" => schema[o] = "absent" BY <2>1, <4>1 DEF Fails
      <4> QED BY <4>1, <4>2, <4>4, <4>5, <4>6 DEF Result
    <3> QED BY <3>1, <3>2
  <2> SUFFICES ASSUME NEW l, l = [at[p] EXCEPT !.seen = v + 1]
               PROVE  \E w \in 0 .. Len(List) : Alone(w)'
    OBVIOUS
  <2>3. l.pc = "running" /\ l.seen = v + 1 /\ l.line = 0 BY <1>1 DEF Launch
  <2>4. at' = [at EXCEPT ![p] = l] BY <2>1
  <2>5. v < Len(List) /\ Store(v + 1, v) /\ backend' = backend BY <1>1, <2>1
  <2> QED BY <2>2, <2>3, <2>4, <2>5, StoreAlone
<1> QED BY <1>2, <1>3

\* The version of a script that is applied.
LEMMA WriteVersionAlone ==
    ASSUME IInv, NEW v \in 0 .. Len(List), Alone(v), NEW p \in Process, Migrating(p),
           WriteVersion(p)
    PROVE  \E w \in 0 .. Len(List) : Alone(w)'
<1>1. /\ at[p].pc = "applied" /\ v < Len(List) /\ Following(p) = v + 1 /\ at[p].seen = v
      /\ v \in Nat /\ \A o \in Object : Fits(v, o)
      /\ \A o \in Object : Names(v + 1, o) => schema[o] = After(v + 1, o)
  BY AloneFacts DEF WriteVersion, LaunchInv, Placed, Done
<1>2. CASE GiveUp(p) BY <1>1, <1>2, GiveUpAlone
<1>3. CASE ~GiveUp(p)
  <2> SUFFICES ASSUME NEW l, l = [Off EXCEPT !.pc = "running", !.seen = v + 1]
               PROVE  \E w \in 0 .. Len(List) : Alone(w)'
    OBVIOUS
  <2>1. /\ Store(v + 1, v) /\ backend' = backend /\ schema' = schema
        /\ at' = [at EXCEPT ![p] = l]
    BY <1>1, <1>3 DEF WriteVersion
  <2>2. l.pc = "running" /\ l.seen = v + 1 /\ l.line = 0 BY DEF Off
  <2>3. \A o \in Object : schema'[o] = After(v + 1, o) BY <1>1, <2>1, AfterNext DEF Fits
  <2> QED BY <1>1, <2>1, <2>2, <2>3, StoreAlone
<1> QED BY <1>2, <1>3

\* The invalid indexes are the ones it finds.
LEMMA LookForInvalidAlone ==
    ASSUME IInv, NEW v \in 0 .. Len(List), Alone(v), NEW p \in Process, Migrating(p),
           LookForInvalid(p)
    PROVE  Alone(v)'
<1> SUFFICES ASSUME NEW found,
                    found = {o \in Object : schema[o] \in {"building", "invalid"}},
                    NEW l, l = [at[p] EXCEPT !.pc = "cleaning", !.invalid = found]
             PROVE  Alone(v)'
  OBVIOUS
<1>1. /\ at[p].pc = "running" /\ at[p].seen = v /\ at[p] \in Launch
      /\ \A o \in Object : Fits(v, o)
      /\ versions = IF v = 0 THEN {} ELSE {v}
      /\ \A q \in Process : Migrating(q) => q = p
  BY AloneFacts DEF LookForInvalid, Pending
<1>2. \A o \in Object : schema[o] # "building" BY <1>1, OthersRest
<1>3. l.pc = "cleaning" /\ l.seen = v /\ l.invalid = {o \in Object : schema[o] = "invalid"}
  <2>1. found = {o \in Object : schema[o] = "invalid"} BY <1>2
  <2>2. l.pc = "cleaning" /\ l.seen = v /\ l.invalid = found BY <1>1, Zenon DEF Launch
  <2> QED BY <2>1, <2>2
<1>4. at' = [at EXCEPT ![p] = l] /\ UNCHANGED <<backend, versions, schema>>
  BY DEF LookForInvalid
<1>5. \A o \in Object : Fits(v, o)' BY <1>1, <1>2, <1>4, SameFits
<1>6. at'[p] = l BY <1>4 DEF IInv, TypeInv
<1>7. Done(p, v)' BY <1>3, <1>4, <1>6 DEF Done
<1> QED BY <1>1, <1>3, <1>4, <1>5, <1>7, AloneMoves

\* It drops one of them.
LEMMA DropInvalidAlone ==
    ASSUME IInv, NEW v \in 0 .. Len(List), Alone(v), NEW p \in Process, Migrating(p),
           DropInvalid(p)
    PROVE  Alone(v)'
<1>1. PICK o \in at[p].invalid :
        /\ schema' = [schema EXCEPT ![o] = "absent"]
        /\ at' = [at EXCEPT ![p].invalid = at[p].invalid \ {o}]
  BY DEF DropInvalid
<1> SUFFICES ASSUME NEW l, l = [at[p] EXCEPT !.invalid = at[p].invalid \ {o}]
             PROVE  Alone(v)'
  OBVIOUS
<1>2. /\ at[p].pc = "cleaning" /\ at[p].seen = v /\ at[p] \in Launch
      /\ at[p].invalid = {u \in Object : schema[u] = "invalid"}
      /\ \A u \in Object : Fits(v, u)
      /\ versions = IF v = 0 THEN {} ELSE {v}
      /\ \A q \in Process : Migrating(q) => q = p
  BY AloneFacts DEF DropInvalid, Done
<1>3. o \in Object /\ schema[o] = "invalid" BY <1>2
<1>4. \A u \in Object : schema[u] # "building" BY <1>2, OthersRest
<1>5. /\ schema'[o] = "absent" /\ \A u \in Object : u # o => schema'[u] = schema[u]
  BY <1>1, <1>3 DEF IInv, TypeInv
<1>6. l.pc = "cleaning" /\ l.seen = v /\ l.invalid = {u \in Object : schema'[u] = "invalid"}
  <2>1. l.pc = "cleaning" /\ l.seen = v /\ l.invalid = at[p].invalid \ {o}
    BY <1>2 DEF Launch
  <2> QED BY <1>2, <1>5, <2>1
<1>7. at' = [at EXCEPT ![p] = l] /\ UNCHANGED <<backend, versions>>
  BY <1>1 DEF DropInvalid
<1>8. ASSUME NEW u \in Object PROVE Fits(v, u)'
  <2>1. Fits(v, u) /\ Fits(v, o) /\ List' = List BY <1>2, <1>3, <1>7 DEF List
  <2>2. After(v, u)' = After(v, u) /\ Names(v + 1, u)' = Names(v + 1, u)
    BY <1>7, SameAfter
  <2>3. CASE u = o
    <3>1. v # Len(List) /\ Names(v + 1, o)
      <4>1. v \in Nat BY LaunchFacts
      <4>2. After(v, o) # "invalid" BY <4>1, AfterNext
      <4> QED BY <1>3, <2>1, <4>2 DEF Fits
    <3> QED BY <1>5, <2>1, <2>2, <2>3, <3>1 DEF Fits
  <2>4. CASE u # o BY <1>4, <1>5, <2>1, <2>2, <2>4 DEF Fits
  <2> QED BY <2>3, <2>4
<1>9. at'[p] = l BY <1>7 DEF IInv, TypeInv
<1>10. Done(p, v)' BY <1>6, <1>9 DEF Done
<1> QED BY <1>2, <1>6, <1>7, <1>8, <1>10, AloneMoves

\* An object that the next script names changes.
LEMMA NamedChanges ==
    ASSUME backend' = backend, NEW v, NEW o \in Object, Names(v + 1, o), v # Len(List),
           NEW u \in Object, Fits(v, u), schema[u] # "building" \/ u = o,
           u # o => schema'[u] = schema[u],
           schema'[o] = "building" => \E p \in Process : at'[p].pc = "building",
           schema'[o] \in {"building", "invalid"} => v < Len(List) /\ List[v + 1].online
    PROVE  Fits(v, u)'
<1>1. List' = List BY DEF List
<1>2. After(v, u)' = After(v, u) /\ Names(v + 1, u)' = Names(v + 1, u) BY SameAfter
<1>3. CASE u = o BY <1>1, <1>2, <1>3 DEF Fits
<1>4. CASE u # o BY <1>1, <1>2, <1>4 DEF Fits
<1> QED BY <1>3, <1>4

\* An online script: what it names, and that no other object is being built.
LEMMA OnlineFacts ==
    ASSUME IInv, NEW v \in 0 .. Len(List), Alone(v), NEW p \in Process,
           at[p].pc \in {"cleaning", "building"}
    PROVE  LET o == List[v + 1].does[1].obj
               op == List[v + 1].does[1].op
           IN  /\ v < Len(List) /\ v # Len(List) /\ List[v + 1].online
               /\ Names(v + 1, o) /\ o \in Object /\ op \in {"ensure", "drop"}
               /\ List[v + 1].does[1] \in Does(v + 1)
               /\ \A s \in Does(v + 1) : s = List[v + 1].does[1]
               /\ After(v + 1, o) = IF op = "drop" THEN "absent" ELSE "there"
               /\ \A u \in Object : Names(v + 1, u) => u = o
               /\ \A u \in Object : u # o => schema[u] \in {"absent", "there"}
<1>1. /\ Migrating(p) /\ at[p].pc # "off" BY DEF Migrating
<1>2. /\ v < Len(List) /\ List[v + 1].online /\ v \in Nat /\ v + 1 \in DOMAIN List
      /\ backend \in Backend /\ \A u \in Object : Fits(v, u) /\ Len(List) \in Nat
  BY <1>1, AloneFacts DEF LaunchInv, Placed
<1> SUFFICES ASSUME NEW s, s = List[v + 1].does[1]
             PROVE  /\ v < Len(List) /\ v # Len(List) /\ List[v + 1].online
                    /\ Names(v + 1, s.obj) /\ s.obj \in Object /\ s.op \in {"ensure", "drop"}
                    /\ s \in Does(v + 1)
                    /\ \A t \in Does(v + 1) : t = s
                    /\ After(v + 1, s.obj) = IF s.op = "drop" THEN "absent" ELSE "there"
                    /\ \A u \in Object : Names(v + 1, u) => u = s.obj
                    /\ \A u \in Object : u # s.obj => schema[u] \in {"absent", "there"}
  OBVIOUS
<1>3. 1 \in DOMAIN List[v + 1].does /\ s.op # "add" BY <1>2, ScriptFacts
<1>4. /\ Names(v + 1, s.obj) /\ s.obj \in Object /\ s \in Does(v + 1)
      /\ s.op \in {"add", "ensure", "drop"}
      /\ After(v + 1, s.obj) = IF s.op = "drop" THEN "absent" ELSE "there"
  BY <1>2, <1>3, AfterStatement
<1>5. /\ \A u \in Object : Names(v + 1, u) => u = s.obj
      /\ \A t \in Does(v + 1) : t = s
  BY <1>2, <1>4, OnlineNames
<1>6. ASSUME NEW u \in Object, u # s.obj PROVE schema[u] \in {"absent", "there"}
  <2>1. schema[u] = After(v, u) BY <1>2, <1>5, <1>6 DEF Fits
  <2> QED BY <1>2, <2>1, AfterNext
<1> QED BY <1>2, <1>3, <1>4, <1>5, <1>6

\* The statement of an online script.
LEMMA RunOnlineAlone ==
    ASSUME IInv, NEW v \in 0 .. Len(List), Alone(v), NEW p \in Process, Migrating(p),
           RunOnline(p)
    PROVE  Alone(v)'
<1> SUFFICES ASSUME NEW s, s = List[v + 1].does[1],
                    NEW builds \in BOOLEAN,
                    builds <=> s.op = "ensure" /\ schema[s.obj] = "absent",
                    NEW x, x = IF builds THEN "building" ELSE Result(s),
                    NEW l, l = [at[p] EXCEPT !.pc = IF builds THEN "building" ELSE "applied"]
             PROVE  Alone(v)'
  <2> DEFINE s == List[v + 1].does[1]
  <2>1. (s.op = "ensure" /\ schema[s.obj] = "absent") \in BOOLEAN OBVIOUS
  <2> QED BY <2>1
<1>1. /\ at[p].pc = "cleaning" /\ at[p].invalid = {} /\ Following(p) = v + 1
      /\ at[p].seen = v /\ at[p] \in Launch /\ \A o \in Object : Fits(v, o)
      /\ versions = IF v = 0 THEN {} ELSE {v}
      /\ \A q \in Process : Migrating(q) => q = p
      /\ {o \in Object : schema[o] = "invalid"} = {}
  BY AloneFacts DEF RunOnline, Done
<1>2. /\ v < Len(List) /\ v # Len(List) /\ List[v + 1].online
      /\ Names(v + 1, s.obj) /\ s.obj \in Object /\ s.op \in {"ensure", "drop"}
      /\ After(v + 1, s.obj) = IF s.op = "drop" THEN "absent" ELSE "there"
      /\ \A u \in Object : Names(v + 1, u) => u = s.obj
  BY <1>1, OnlineFacts
<1>3. \A o \in Object : schema[o] \in {"absent", "there"}
  <2>1. \A o \in Object : schema[o] # "building" BY <1>1, OthersRest
  <2> QED BY <1>1, <2>1 DEF IInv, TypeInv
<1>4. /\ schema' = [schema EXCEPT ![s.obj] = x] /\ UNCHANGED <<backend, versions>>
      /\ at' = [at EXCEPT ![p].pc = IF builds THEN "building" ELSE "applied"]
  BY <1>1 DEF RunOnline
<1>5. at' = [at EXCEPT ![p] = l] BY <1>4
<1>6. /\ l.pc = (IF builds THEN "building" ELSE "applied") /\ l.seen = v
      /\ builds => s.op = "ensure"
  BY <1>1 DEF Launch
<1>7. at'[p] = l BY <1>5 DEF IInv, TypeInv
<1>8. schema'[s.obj] = x /\ \A o \in Object : o # s.obj => schema'[o] = schema[o]
  BY <1>2, <1>4 DEF IInv, TypeInv
<1>9. ~builds => x = After(v + 1, s.obj) BY <1>2, <1>3 DEF Result
<1>10. ~builds => x \in {"absent", "there"} BY <1>2, <1>9
<1>11. ASSUME NEW u \in Object PROVE Fits(v, u)'
  <2>1. Fits(v, u) /\ schema[u] # "building" BY <1>1, <1>3
  <2>2. u # s.obj => schema'[u] = schema[u] BY <1>8
  <2>3. schema'[s.obj] = "building" => \E q \in Process : at'[q].pc = "building"
    BY <1>6, <1>7, <1>8, <1>10
  <2> QED BY <1>2, <1>4, <2>1, <2>2, <2>3, NamedChanges
<1>12. Done(p, v)'
  <2>1. List' = List /\ \A n, o : After(n, o)' = After(n, o) /\ Names(n, o)' = Names(n, o)
    BY <1>4, SameAfter DEF List
  <2>2. ~builds => \A o \in Object : Names(v + 1, o) => schema'[o] = After(v + 1, o)
    BY <1>2, <1>8, <1>9
  <2> QED BY <1>6, <1>7, <2>1, <2>2 DEF Done
<1>13. l.pc # "up" /\ l.seen = v BY <1>6
<1>14. backend' = backend /\ versions' = IF v = 0 THEN {} ELSE {v} BY <1>1, <1>4
<1>15. \A q \in Process : Migrating(q) => q = p BY <1>1
<1> QED BY <1>5, <1>11, <1>12, <1>13, <1>14, <1>15, AloneMoves

\* The index is built.
LEMMA FinishBuildAlone ==
    ASSUME IInv, NEW v \in 0 .. Len(List), Alone(v), NEW p \in Process, Migrating(p),
           FinishBuild(p)
    PROVE  Alone(v)'
<1> SUFFICES ASSUME NEW s, s = List[v + 1].does[1],
                    NEW l, l = [at[p] EXCEPT !.pc = "applied"]
             PROVE  Alone(v)'
  OBVIOUS
<1>1. /\ at[p].pc = "building" /\ Following(p) = v + 1 /\ s.op = "ensure"
      /\ at[p].seen = v /\ at[p] \in Launch /\ \A o \in Object : Fits(v, o)
      /\ versions = IF v = 0 THEN {} ELSE {v}
      /\ \A q \in Process : Migrating(q) => q = p
  BY AloneFacts DEF FinishBuild, Done
<1>2. /\ v < Len(List) /\ v # Len(List) /\ List[v + 1].online
      /\ Names(v + 1, s.obj) /\ s.obj \in Object
      /\ After(v + 1, s.obj) = "there"
      /\ \A u \in Object : Names(v + 1, u) => u = s.obj
      /\ \A u \in Object : u # s.obj => schema[u] \in {"absent", "there"}
  BY <1>1, OnlineFacts
<1>3. /\ schema' = [schema EXCEPT ![s.obj] = "there"] /\ UNCHANGED <<backend, versions>>
      /\ at' = [at EXCEPT ![p] = l]
  BY <1>1 DEF FinishBuild
<1>4. schema'[s.obj] = "there" /\ \A o \in Object : o # s.obj => schema'[o] = schema[o]
  BY <1>2, <1>3 DEF IInv, TypeInv
<1>5. l.pc = "applied" /\ l.seen = v BY <1>1 DEF Launch
<1>6. at'[p] = l BY <1>3 DEF IInv, TypeInv
<1>7. ASSUME NEW u \in Object PROVE Fits(v, u)'
  BY <1>1, <1>2, <1>3, <1>4, NamedChanges
<1>8. Done(p, v)'
  <2>1. List' = List /\ \A n, o : After(n, o)' = After(n, o) /\ Names(n, o)' = Names(n, o)
    BY <1>3, SameAfter DEF List
  <2>2. \A o \in Object : Names(v + 1, o) => schema'[o] = After(v + 1, o)
    BY <1>2, <1>4
  <2> QED BY <1>5, <1>6, <2>1, <2>2 DEF Done
<1> QED BY <1>1, <1>3, <1>5, <1>7, <1>8, AloneMoves

\* SQLite: one statement.
LEMMA ApplyStatementAlone ==
    ASSUME IInv, NEW v \in 0 .. Len(List), Alone(v), NEW p \in Process, Migrating(p),
           ApplyStatement(p)
    PROVE  Alone(v)'
<1> SUFFICES ASSUME NEW i, i = at[p].line + 1, NEW s, s = List[v + 1].does[i]
             PROVE  Alone(v)'
  OBVIOUS
<1>1. /\ backend = "sqlite" /\ at[p].pc = "running" /\ v < Len(List) /\ v \in Nat
      /\ Following(p) = v + 1 /\ v + 1 \in DOMAIN List /\ backend \in Backend
      /\ at[p].seen = v /\ at[p] \in Launch /\ \A o \in Object : Fits(v, o)
      /\ versions = IF v = 0 THEN {} ELSE {v}
      /\ Len(List) \in Nat
      /\ \A q \in Process : Migrating(q) => q = p
      /\ at[p].line < Len(List[v + 1].does) /\ at[p].line \in Nat
      /\ \A j \in DOMAIN List[v + 1].does :
            j <= at[p].line =>
               schema[List[v + 1].does[j].obj] = After(v + 1, List[v + 1].does[j].obj)
  BY AloneFacts, LaunchFacts DEF ApplyStatement, Pending, LaunchInv, Placed, Done
<1>2. ~List[v + 1].online BY <1>1, ScriptFacts
<1>3. CASE GiveUp(p) BY <1>1, <1>3, GiveUpAlone
<1>4. CASE ~GiveUp(p)
  <2> SUFFICES ASSUME NEW pc, pc = IF i = Len(List[v + 1].does) THEN "applied" ELSE "running",
                      NEW l, l = [at[p] EXCEPT !.line = i, !.pc = pc],
                      NEW x, x = Result(s)
               PROVE  Alone(v)'
    OBVIOUS
  <2>1. /\ schema' = [schema EXCEPT ![s.obj] = x] /\ at' = [at EXCEPT ![p] = l]
        /\ UNCHANGED <<backend, versions>> /\ ~Fails(s)
    BY <1>1, <1>4 DEF ApplyStatement
  <2>2. /\ i \in DOMAIN List[v + 1].does
        /\ DOMAIN List[v + 1].does = 1 .. Len(List[v + 1].does)
        /\ Len(List[v + 1].does) \in Nat
    BY <1>1, ScriptFacts
  <2>3. /\ Names(v + 1, s.obj) /\ s.obj \in Object /\ s.op \in {"add", "ensure", "drop"}
        /\ After(v + 1, s.obj) = IF s.op = "drop" THEN "absent" ELSE "there"
    BY <1>1, <2>2, AfterStatement
  <2>4. /\ schema'[s.obj] = x /\ \A o \in Object : o # s.obj => schema'[o] = schema[o]
    BY <2>1, <2>3 DEF IInv, TypeInv
  <2>5. \A o \in Object : schema[o] \in {"absent", "there"}
    BY <1>1, <1>2 DEF Fits, IInv, TypeInv
  <2>6. x = After(v + 1, s.obj) /\ x \in {"absent", "there"}
    BY <2>1, <2>3, <2>5 DEF Result, Fails
  <2>7. ASSUME NEW u \in Object PROVE Fits(v, u)'
    <3>1. v # Len(List) BY <1>1
    <3>2. Fits(v, u) /\ schema[u] # "building" BY <1>1, <2>5
    <3> QED BY <2>1, <2>3, <2>4, <2>6, <3>1, <3>2, NamedChanges
  <2>8. /\ l.pc = pc /\ l.line = i /\ l.seen = v BY <1>1, <2>2 DEF Launch
  <2>9. at'[p] = l BY <2>1 DEF IInv, TypeInv
  <2>10. ASSUME NEW j \in DOMAIN List[v + 1].does, j <= i
         PROVE  schema'[List[v + 1].does[j].obj] = After(v + 1, List[v + 1].does[j].obj)
    <3>1. CASE List[v + 1].does[j].obj = s.obj BY <2>4, <2>6, <3>1
    <3>2. CASE List[v + 1].does[j].obj # s.obj
      <4>1. j <= at[p].line BY <1>1, <2>2, <2>10, <3>2
      <4>2. List[v + 1].does[j].obj \in Object BY <1>1, AfterStatement
      <4> QED BY <1>1, <2>4, <3>2, <4>1, <4>2
    <3> QED BY <3>1, <3>2
  <2>11. ASSUME i = Len(List[v + 1].does), NEW o \in Object, Names(v + 1, o)
         PROVE  schema'[o] = After(v + 1, o)
    <3>1. PICK j \in DOMAIN List[v + 1].does : List[v + 1].does[j].obj = o
      BY <2>11 DEF Names, Does
    <3>2. j <= i BY <2>2, <2>11
    <3> QED BY <2>10, <3>1, <3>2
  <2>12. Done(p, v)'
    <3>1. List' = List /\ \A n, o : After(n, o)' = After(n, o) /\ Names(n, o)' = Names(n, o)
      BY <2>1, SameAfter DEF List
    <3>2. pc = "applied" => \A o \in Object : Names(v + 1, o) => schema'[o] = After(v + 1, o)
      BY <2>11
    <3>3. pc \in {"applied", "running"} OBVIOUS
    <3> QED BY <2>8, <2>9, <2>10, <3>1, <3>2, <3>3 DEF Done
  <2>13. l.pc # "up" BY <2>8
  <2>14. versions' = IF v = 0 THEN {} ELSE {v} BY <1>1, <2>1
  <2>15. backend' = backend /\ at' = [at EXCEPT ![p] = l] BY <2>1
  <2>16. \A q \in Process : Migrating(q) => q = p BY <1>1
  <2> QED BY <2>7, <2>8, <2>12, <2>13, <2>14, <2>15, <2>16, AloneMoves
<1> QED BY <1>3, <1>4

\* The launch is through.
LEMMA FinishAlone ==
    ASSUME IInv, NEW v \in 0 .. Len(List), Alone(v), NEW p \in Process, Migrating(p),
           Finish(p)
    PROVE  Alone(v)'
<1> SUFFICES ASSUME NEW l, l = [at[p] EXCEPT !.pc = "up"] PROVE Alone(v)' OBVIOUS
<1>1. /\ at[p].pc = "running" /\ at[p].seen = v /\ at[p] \in Launch
      /\ \A o \in Object : Fits(v, o)
      /\ versions = IF v = 0 THEN {} ELSE {v}
      /\ \A q \in Process : Migrating(q) => q = p
      /\ v = Len(List)
  BY AloneFacts DEF Finish
<1>2. l.pc = "up" /\ l.seen = v BY <1>1 DEF Launch
<1>3. at' = [at EXCEPT ![p] = l] /\ UNCHANGED <<backend, versions, schema>> BY DEF Finish
<1>4. \A o \in Object : Fits(v, o)'
  <2>1. \A o \in Object : schema[o] # "building" BY <1>1, OthersRest
  <2> QED BY <1>1, <1>3, <2>1, SameFits
<1>5. at'[p] = l BY <1>3 DEF IInv, TypeInv
<1>6. Done(p, v)' BY <1>2, <1>5 DEF Done
<1> QED BY <1>1, <1>2, <1>3, <1>4, <1>6, AloneMoves

\* It dies, and leaves an index of its script invalid.
LEMMA FailAlone ==
    ASSUME IInv, NEW v \in 0 .. Len(List), Alone(v), NEW p \in Process, Fail(p)
    PROVE  Alone(v)'
<1>0. Migrating(p) BY DEF Fail
<1>1. /\ at[p].seen = v /\ Following(p) = v + 1 /\ \A o \in Object : Fits(v, o)
      /\ versions = IF v = 0 THEN {} ELSE {v}
      /\ \A q \in Process : Migrating(q) => q = p
      /\ v \in Nat /\ Done(p, v)
  BY <1>0, AloneFacts
<1>2. at' = [at EXCEPT ![p] = Off] /\ UNCHANGED <<backend, versions>> BY DEF Fail
<1>3. Off.pc = "off" BY DEF Off
<1>4. ASSUME NEW o \in Object, v < Len(List), v # Len(List), List[v + 1].online, Names(v + 1, o),
             schema' = [schema EXCEPT ![o] = "invalid"],
             \A u \in Object : u # o => schema[u] # "building"
      PROVE  \A u \in Object : Fits(v, u)'
  <2>1. /\ schema'[o] = "invalid" /\ \A u \in Object : u # o => schema'[u] = schema[u]
    BY <1>4 DEF IInv, TypeInv
  <2> QED BY <1>1, <1>2, <1>4, <2>1, NamedChanges
<1>5. \A o \in Object : Fits(v, o)'
  <2>1. CASE at[p].pc # "building" /\ UNCHANGED schema
    <3>1. \A o \in Object : schema[o] # "building" BY <1>1, <2>1, OthersRest
    <3> QED BY <1>1, <1>2, <2>1, <3>1, SameFits
  <2>2. CASE /\ at[p].pc = "building"
             /\ schema' = [schema EXCEPT ![List[Following(p)].does[1].obj] = "invalid"]
    <3> SUFFICES ASSUME NEW o, o = List[v + 1].does[1].obj PROVE \A u \in Object : Fits(v, u)'
      OBVIOUS
    <3>1. /\ v < Len(List) /\ v # Len(List) /\ List[v + 1].online /\ Names(v + 1, o)
          /\ o \in Object /\ \A u \in Object : u # o => schema[u] \in {"absent", "there"}
      BY <2>2, OnlineFacts
    <3> QED BY <1>1, <1>4, <2>2, <3>1
  <2>3. ASSUME NEW o \in Dropping(p), schema' = [schema EXCEPT ![o] = "invalid"]
        PROVE  \A u \in Object : Fits(v, u)'
    <3>1. at[p].pc = "cleaning" BY DEF Dropping
    <3>2. \A u \in Object : schema[u] # "building" BY <1>1, <3>1, OthersRest
    <3>3. o \in Object /\ Names(v + 1, o)
      <4>1. CASE o \in at[p].invalid
        <5>1. o \in Object /\ schema[o] = "invalid" BY <1>0, <1>1, <3>1, <4>1 DEF Done
        <5>2. After(v, o) # "invalid" BY <1>1, AfterNext
        <5> QED BY <1>1, <5>1, <5>2 DEF Fits
      <4>2. CASE \E s \in Does(v + 1) : s.obj = o
        <5>1. \A s \in Does(v + 1) : s = List[v + 1].does[1] BY <3>1, OnlineFacts
        <5>2. List[v + 1].does[1].obj \in Object BY <3>1, OnlineFacts
        <5> QED BY <4>2, <5>1, <5>2 DEF Names
      <4> QED BY <1>1, <3>1, <4>1, <4>2 DEF Dropping
    <3>4. v < Len(List) /\ v # Len(List) /\ List[v + 1].online BY <3>1, OnlineFacts
    <3> QED BY <1>4, <2>3, <3>2, <3>3, <3>4
  <2> QED BY <2>1, <2>2, <2>3 DEF Fail
<1>6. at'[p] = Off BY <1>2 DEF IInv, TypeInv
<1>7. Done(p, v)' BY <1>3, <1>6 DEF Done
<1> HIDE DEF Off
<1> QED BY <1>1, <1>2, <1>3, <1>5, <1>7, AloneMoves

\* The database stays what it is, and what overlapped once has overlapped.
LEMMA SameDatabase == [Next]_vars => backend' = backend /\ (overlapped => overlapped')
<1> SUFFICES ASSUME [Next]_vars PROVE backend' = backend /\ (overlapped => overlapped')
  OBVIOUS
<1>1. ASSUME NEW p \in Process, Step(p) PROVE backend' = backend /\ (overlapped => overlapped')
  <2>1. CASE Begin(p) BY <2>1 DEF Begin
  <2>2. CASE ApplyOffline(p) BY <2>2 DEF ApplyOffline, GiveUp
  <2>3. CASE LookForInvalid(p) \/ DropInvalid(p) \/ RunOnline(p) \/ FinishBuild(p) \/ Finish(p)
    BY <2>3 DEF LookForInvalid, DropInvalid, RunOnline, FinishBuild, Finish
  <2>4. CASE ApplyStatement(p) BY <2>4 DEF ApplyStatement, GiveUp
  <2>5. CASE WriteVersion(p) BY <2>5 DEF WriteVersion, GiveUp
  <2> QED BY <1>1, <2>1, <2>2, <2>3, <2>4, <2>5 DEF Step
<1>2. ASSUME NEW p \in Process, Fail(p) PROVE backend' = backend /\ (overlapped => overlapped')
  BY <1>2 DEF Fail
<1> QED BY <1>1, <1>2 DEF Next, vars

\* Launches that come one after the other find and leave the schema of a version.
LEMMA AloneHolds == IInv /\ AInv /\ [Next]_vars => AInv'
<1> SUFFICES ASSUME IInv, AInv, [Next]_vars, ~overlapped'
             PROVE  \E v \in 0 .. Len(List') : Alone(v)'
  BY DEF AInv
<1>0. List' = List BY SameDatabase DEF List
<1>1. ~overlapped BY SameDatabase
<1>2. PICK v \in 0 .. Len(List) : Alone(v) BY <1>1 DEF AInv
<1>3. CASE UNCHANGED vars
  <2>1. UNCHANGED <<backend, versions, schema, at>> BY <1>3 DEF vars
  <2>2. List' = List /\ \A n, o : After(n, o)' = After(n, o) /\ Names(n, o)' = Names(n, o)
    BY <2>1, SameAfter DEF List
  <2>3. \A o \in Object : Fits(v, o)' BY <1>2, <2>1, <2>2 DEF Alone, Fits
  <2>4. \A p \in Process : Done(p, v)' BY <1>2, <2>1, <2>2 DEF Alone, Done
  <2>5. Alone(v)' BY <1>2, <2>1, <2>2, <2>3, <2>4 DEF Alone, Migrating
  <2> QED BY <1>0, <2>5
<1>4. ASSUME NEW p \in Process, Step(p) PROVE \E w \in 0 .. Len(List) : Alone(w)'
  <2>1. CASE Begin(p)
    <3>1. \A q \in Process : ~Migrating(q) BY <2>1 DEF Begin
    <3> QED BY <1>2, <2>1, <3>1, BeginAlone
  <2>2. CASE ~Begin(p)
    <3>1. Migrating(p)
      <4>1. at[p].pc \in {"running", "cleaning", "building", "applied"}
        BY <1>4, <2>2 DEF Step, Pending, ApplyOffline, LookForInvalid, DropInvalid, RunOnline,
             FinishBuild, ApplyStatement, WriteVersion, Finish
      <4> QED BY <4>1 DEF Migrating
    <3> QED BY <1>2, <1>4, <2>2, <3>1, ApplyOfflineAlone, LookForInvalidAlone,
               DropInvalidAlone, RunOnlineAlone, FinishBuildAlone, ApplyStatementAlone,
               WriteVersionAlone, FinishAlone
         DEF Step
  <2> QED BY <2>1, <2>2
<1>5. ASSUME NEW p \in Process, Fail(p) PROVE Alone(v)' BY <1>2, <1>5, FailAlone
<1> QED BY <1>0, <1>2, <1>3, <1>4, <1>5 DEF Next

\* As long as no two launches migrate at the same time, a process that is up
\* has exactly the schema of the whole list, wherever earlier launches died
\* (run_migrations, cleanup_invalid_indexes).
THEOREM SchemaIsComplete == Spec => []CompleteWhenAlone
<1>1. Init => AInv
  <2> SUFFICES ASSUME Init PROVE AInv OBVIOUS
  <2>1. PICK n \in 0 .. Len(List) : /\ versions = IF n = 0 THEN {} ELSE {n}
                                    /\ schema = [o \in Object |-> After(n, o)]
    BY DEF Init
  <2>2. \A p \in Process : at[p].pc = "off" BY DEF Init, Off
  <2>3. n \in Nat BY <2>1, InitHolds, ListFacts DEF IInv, TypeInv
  <2>4. ASSUME NEW o \in Object PROVE Fits(n, o)
    <3>1. schema[o] = After(n, o) /\ After(n, o) \in {"there", "absent"}
      BY <2>1, <2>3, AfterNext
    <3> QED BY <3>1 DEF Fits
  <2>5. \A p \in Process : Done(p, n) BY <2>2 DEF Done
  <2>6. Alone(n) BY <2>1, <2>2, <2>4, <2>5 DEF Alone, Migrating
  <2> QED BY <2>6 DEF AInv
<1>2. AInv => CompleteWhenAlone
  BY DEF AInv, Alone, Fits, CompleteWhenAlone
<1> QED BY <1>1, <1>2, InitHolds, NextHolds, AloneHolds, PTL DEF Spec
=============================================================================
