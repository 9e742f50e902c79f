------------------------------- MODULE Migrations -------------------------------
(***************************************************************************)
(* run_migrations of both system databases, which every launch and every   *)
(* client executes first.                                                  *)
(*                                                                         *)
(* A launch reads the version row once and then applies the scripts that   *)
(* come after it, one by one.  Nothing keeps two launches apart.  On       *)
(* Postgres a script and its version are one transaction, except for the   *)
(* online scripts, which build or drop one index CONCURRENTLY and then     *)
(* write the version; a build that dies leaves an invalid index.  On       *)
(* SQLite every statement of a script is committed by itself, and the      *)
(* version after the last of them.                                         *)
(*                                                                         *)
(* Scripts are numbered by their place in MIGRATIONS.  A statement adds a  *)
(* table, a column or an index and fails if it is there ("add"), adds it   *)
(* unless it is there ("ensure"), or drops it if it is ("drop").           *)
(***************************************************************************)
EXTENDS Naturals, Sequences, FiniteSets, FiniteSetsExt

CONSTANTS
    Process,    \* processes that launch against the database
    Object,     \* tables, columns and indexes
    Scripts,    \* MIGRATIONS of each database
    MaxFaults   \* bound: launches that die or lose their connection

Backend == DOMAIN Scripts

Statement == [op : {"add", "ensure", "drop"}, obj : Object]
Script == [online : BOOLEAN, does : Seq(Statement)]

\* Only Postgres has online scripts, and each of them is one statement that
\* may be executed again.  No script changes one object twice.  The first
\* statement of all creates a table that no other statement names.
ASSUME ScriptAssumption ==
    /\ Backend \subseteq {"postgres", "sqlite"}
    /\ \A b \in Backend :
          /\ Scripts[b] \in Seq(Script)
          /\ \A n \in DOMAIN Scripts[b] : Scripts[b][n].does # <<>>
          /\ \A n \in DOMAIN Scripts[b] : Scripts[b][n].online =>
                /\ b = "postgres" /\ Len(Scripts[b][n].does) = 1
                /\ Scripts[b][n].does[1].op # "add"
          /\ \A n \in DOMAIN Scripts[b] : \A i, j \in DOMAIN Scripts[b][n].does :
                Scripts[b][n].does[i].obj = Scripts[b][n].does[j].obj => i = j
          /\ Len(Scripts[b]) > 0
          /\ Scripts[b][1].does[1].op = "add"
          /\ \A n \in DOMAIN Scripts[b] : \A i \in DOMAIN Scripts[b][n].does :
                Scripts[b][n].does[i].obj = Scripts[b][1].does[1].obj => n = 1
    /\ MaxFaults \in Nat

VARIABLES
    backend,   \* the database
    versions,  \* rows of the version table
    schema,    \* each object: "absent", "there", "building" or "invalid"
    at,        \* each launch
    faults,    \* launches that died
    overlapped \* history: two launches have migrated at the same time

vars == <<backend, versions, schema, at, faults, overlapped>>

List == Scripts[backend]

\* The statements of script n, and whether one of them is this.
Does(n) == {List[n].does[i] : i \in DOMAIN List[n].does}
Names(n, o) == \E s \in Does(n) : s.obj = o
Keeps(n, o) == \E s \in Does(n) : s.obj = o /\ s.op # "drop"

\* What the first n scripts make of an object: the last that names it decides.
After(n, o) ==
    LET named == {k \in 1 .. n : Names(k, o)} IN
    IF named # {} /\ Keeps(Max(named), o) THEN "there" ELSE "absent"

Off == [pc |-> "off", seen |-> 0, line |-> 0, invalid |-> {}]

\* The database is new, or an earlier release has migrated it.
Init ==
    /\ backend \in Backend
    /\ \E n \in 0 .. Len(List) :
          /\ versions = IF n = 0 THEN {} ELSE {n}
          /\ schema = [o \in Object |-> After(n, o)]
    /\ at = [p \in Process |-> Off]
    /\ faults = 0
    /\ overlapped = FALSE
-----------------------------------------------------------------------------
Migrating(p) == at[p].pc \notin {"off", "up"}

\* The launch fails with an error; the application may launch again.
GiveUp(p) ==
    /\ at' = [at EXCEPT ![p] = Off]
    /\ UNCHANGED <<backend, versions, schema, faults, overlapped>>

\* The version table is made if need be and its row is read, if there is one.
Current == IF versions = {} THEN {0} ELSE versions

Begin(p) ==
    /\ at[p].pc = "off"
    /\ \E v \in Current : at' = [at EXCEPT ![p] = [Off EXCEPT !.pc = "running", !.seen = v]]
    /\ overlapped' = (overlapped \/ \E q \in Process : Migrating(q))
    /\ UNCHANGED <<backend, versions, schema, faults>>

\* The loop is at a script that is not yet applied.
Following(p) == at[p].seen + 1
Pending(p) == at[p].pc = "running" /\ at[p].seen < Len(List)

\* Writing the version: an INSERT after version 0, else an UPDATE of all rows.
CanStore(n, seen) == IF seen = 0 THEN n \notin versions ELSE Cardinality(versions) <= 1

\* Mutant: the latest version is written, not that of the script.
StoreLatest(n, seen) ==
    versions' = IF seen = 0 THEN versions \cup {Len(List)} ELSE {Len(List) : v \in versions}

Store(n, seen) ==
    versions' = IF seen = 0 THEN versions \cup {n} ELSE {n : v \in versions}

\* Building or dropping an index CONCURRENTLY holds a lock on its table that
\* every other change of the schema waits for.
Locked == \E o \in Object : schema[o] = "building"

Fails(s) == s.op = "add" /\ schema[s.obj] # "absent"
Result(s) ==
    CASE s.op = "drop" -> "absent"
      [] s.op = "ensure" /\ schema[s.obj] # "absent" -> schema[s.obj]
      [] OTHER -> "there"
-----------------------------------------------------------------------------
(* Postgres.                                                               *)

\* All of a script.  No script of the list changes one object twice.
Apply(n) ==
    schema' = [o \in Object |->
       IF Names(n, o) THEN Result(CHOOSE s \in Does(n) : s.obj = o) ELSE schema[o]]

\* Mutant: the version is written after the transaction of the script.
ApplyThenStore(p) ==
    /\ backend = "postgres" /\ Pending(p) /\ ~List[Following(p)].online /\ ~Locked
    /\ IF \E s \in Does(Following(p)) : Fails(s)
       THEN GiveUp(p)
       ELSE /\ Apply(Following(p))
            /\ at' = [at EXCEPT ![p].pc = "applied"]
            /\ UNCHANGED <<backend, versions, faults, overlapped>>

\* A transaction: the script and its version.
ApplyOffline(p) ==
    LET n == Following(p) IN
    /\ backend = "postgres" /\ Pending(p) /\ ~List[n].online /\ ~Locked
    /\ IF (\E s \in Does(n) : Fails(s)) \/ ~CanStore(n, at[p].seen)
       THEN GiveUp(p)
       ELSE /\ Apply(n)
            /\ Store(n, at[p].seen)
            /\ at' = [at EXCEPT ![p].seen = n]
            /\ UNCHANGED <<backend, faults, overlapped>>

\* Mutant: invalid indexes are not looked for.
TrustIndexes(p) ==
    /\ backend = "postgres" /\ Pending(p) /\ List[Following(p)].online
    /\ at' = [at EXCEPT ![p].pc = "cleaning"]
    /\ UNCHANGED <<backend, versions, schema, faults, overlapped>>

\* cleanup_invalid_indexes: which there are, including one that another
\* launch is building; then each is dropped.
LookForInvalid(p) ==
    /\ backend = "postgres" /\ Pending(p) /\ List[Following(p)].online
    /\ at' = [at EXCEPT ![p].pc = "cleaning",
                        ![p].invalid = {o \in Object : schema[o] \in {"building", "invalid"}}]
    /\ UNCHANGED <<backend, versions, schema, faults, overlapped>>

DropInvalid(p) ==
    /\ at[p].pc = "cleaning" /\ ~Locked
    /\ \E o \in at[p].invalid :
          /\ schema' = [schema EXCEPT ![o] = "absent"]
          /\ at' = [at EXCEPT ![p].invalid = @ \ {o}]
    /\ UNCHANGED <<backend, versions, faults, overlapped>>

\* The statement itself.  IF NOT EXISTS is content with an invalid index.
RunOnline(p) ==
    LET s == List[Following(p)].does[1]
        builds == s.op = "ensure" /\ schema[s.obj] = "absent"
    IN
    /\ at[p].pc = "cleaning" /\ at[p].invalid = {} /\ ~Locked
    /\ schema' = [schema EXCEPT ![s.obj] = IF builds THEN "building" ELSE Result(s)]
    /\ at' = [at EXCEPT ![p].pc = IF builds THEN "building" ELSE "applied"]
    /\ UNCHANGED <<backend, versions, faults, overlapped>>

FinishBuild(p) ==
    /\ at[p].pc = "building"
    /\ schema' = [schema EXCEPT ![List[Following(p)].does[1].obj] = "there"]
    /\ at' = [at EXCEPT ![p].pc = "applied"]
    /\ UNCHANGED <<backend, versions, faults, overlapped>>
-----------------------------------------------------------------------------
(* SQLite, and what both have in common.                                   *)

ApplyStatement(p) ==
    LET n == Following(p)
        s == List[n].does[at[p].line + 1]
    IN
    /\ backend = "sqlite" /\ Pending(p)
    /\ IF Fails(s)
       THEN GiveUp(p)
       ELSE /\ schema' = [schema EXCEPT ![s.obj] = Result(s)]
            /\ at' = [at EXCEPT ![p].line = @ + 1,
                                ![p].pc = IF at[p].line + 1 = Len(List[n].does)
                                          THEN "applied" ELSE "running"]
            /\ UNCHANGED <<backend, versions, faults, overlapped>>

WriteVersion(p) ==
    LET n == Following(p) IN
    /\ at[p].pc = "applied"
    /\ IF ~CanStore(n, at[p].seen)
       THEN GiveUp(p)
       ELSE /\ Store(n, at[p].seen)
            /\ at' = [at EXCEPT ![p] = [Off EXCEPT !.pc = "running", !.seen = n]]
            /\ UNCHANGED <<backend, schema, faults, overlapped>>

Finish(p) ==
    /\ at[p].pc = "running" /\ at[p].seen >= Len(List)
    /\ at' = [at EXCEPT ![p].pc = "up"]
    /\ UNCHANGED <<backend, versions, schema, faults, overlapped>>

\* The indexes that p may be dropping CONCURRENTLY at this moment.
Dropping(p) ==
    IF at[p].pc # "cleaning" \/ Locked THEN {}
    ELSE IF at[p].invalid # {} THEN at[p].invalid
    ELSE {s.obj : s \in {t \in Does(Following(p)) : t.op = "drop"}}

\* A launch dies, loses its connection or is the victim of a deadlock.  What
\* it was building or dropping stays behind, invalid.
Fail(p) ==
    /\ Migrating(p) /\ faults < MaxFaults
    /\ faults' = faults + 1
    /\ at' = [at EXCEPT ![p] = Off]
    /\ \/ at[p].pc # "building" /\ UNCHANGED schema
       \/ /\ at[p].pc = "building"
          /\ schema' = [schema EXCEPT ![List[Following(p)].does[1].obj] = "invalid"]
       \/ \E o \in Dropping(p) :
             schema[o] # "absent" /\ schema' = [schema EXCEPT ![o] = "invalid"]
    /\ UNCHANGED <<backend, versions, overlapped>>
-----------------------------------------------------------------------------
Step(p) ==
    \/ Begin(p) \/ ApplyOffline(p) \/ LookForInvalid(p) \/ DropInvalid(p)
    \/ RunOnline(p) \/ FinishBuild(p) \/ ApplyStatement(p) \/ WriteVersion(p)
    \/ Finish(p)

Next == \E p \in Process : Step(p) \/ Fail(p)

Spec == Init /\ [][Next]_vars

\* A launch goes on, and an application that failed to launch tries again.
FairSpec == Spec /\ \A p \in Process : WF_vars(Step(p))
-----------------------------------------------------------------------------
\* The objects that script n adds and no other script of the list names: its
\* tables and columns.
Own(n) ==
    {o \in Object :
       /\ \E s \in Does(n) : s.op = "add" /\ s.obj = o
       /\ \A k \in DOMAIN List : Names(k, o) => k = n}

\* However many launches migrate at once and wherever they die: there is one
\* version, it vouches for the tables and columns of all scripts up to it,
\* and so does what a launch has come to, so that every process that is up
\* has the tables and columns its queries name.
VersionTells ==
    /\ Cardinality(versions) <= 1
    /\ \A n \in DOMAIN List :
          (\/ \E v \in versions : n <= v
           \/ \E p \in Process : at[p].pc # "off" /\ n <= at[p].seen)
             => \A o \in Own(n) : schema[o] = "there"

\* As long as no two launches migrate at the same time, a process that is up
\* has exactly the schema of the whole list, indexes included, wherever
\* earlier launches died.
CompleteWhenAlone ==
    ~overlapped =>
       \A p \in Process : at[p].pc = "up" =>
          \A o \in Object : schema[o] = After(Len(List), o)

\* A script that a launch which lags behind can apply to the schema of the
\* whole list, so that the version falls back to it, and after which there is
\* one that then fails: it adds what is there.  The script itself does nothing
\* the second time, or adds an index that a later one drops.
Rewinds(n) ==
    /\ Own(n) = {}
    /\ \E k \in DOMAIN List : k > n /\ \E s \in Does(k) : s.op = "add"

\* An application that retries its launch comes up in the end.  The exceptions:
\* a launch that died in a script of SQLite, and launches that overlapped
\* either there or when a script that rewinds was still to be applied.
RetryLaunches ==
    \/ <>(\A p \in Process : at[p].pc = "up")
    \/ backend = "sqlite" /\ <>(faults > 0)
    \/ /\ backend = "sqlite" \/ \E n \in DOMAIN List :
             Rewinds(n) /\ \A v \in versions : v < n
       /\ <>overlapped
=============================================================================
