----------------------------- MODULE OutcomeOnce -----------------------------
(***************************************************************************)
(* What the journal promises, with nothing of how it is kept: the outcome  *)
(* of each call of each workflow is decided at most once, calls are        *)
(* decided in the order the body makes them, and whoever is told an        *)
(* outcome, now or at a later replay, is told the one decided.             *)
(***************************************************************************)
EXTENDS Naturals

VARIABLES
    decided,   \* outcomes, records with the fields wf and fid among others
    observed   \* outcomes that some execution has been told

vars == <<decided, observed>>

Undecided(o) == \A d \in decided : ~(d.wf = o.wf /\ d.fid = o.fid)

InOrder(o) == \/ o.fid = 1
              \/ \E d \in decided : d.wf = o.wf /\ d.fid + 1 = o.fid

Init == decided = {} /\ observed = {}

\* A call's outcome becomes definite; the caller may learn of it at once.
Decide ==
    \E o \in decided' :
       /\ Undecided(o)
       /\ InOrder(o)
       /\ decided' = decided \cup {o}
       /\ observed' \in {observed, observed \cup {o}}

\* An execution is told a decided outcome.
Observe ==
    \E o \in decided :
       /\ observed' = observed \cup {o}
       /\ UNCHANGED decided

Next == Decide \/ Observe

Spec == Init /\ [][Next]_vars
=============================================================================
