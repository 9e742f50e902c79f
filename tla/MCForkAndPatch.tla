--------------------------- MODULE MCForkAndPatch ---------------------------
(* Instances of ForkAndPatch for TLC.                                      *)
EXTENDS ForkAndPatch, TLC

CONSTANTS a, b

Do(op, branch) == [op |-> op, branch |-> branch]

\* The branches have different numbers of steps and of effects.
Opening == <<Do("stream", "any")>>
OldBranch == <<Do("step", "old")>>
NewBranch == <<Do("event", "new"), Do("step", "new")>>
Closing == <<Do("event", "any")>>

Symmetric == Permutations(Workflow)
=============================================================================
