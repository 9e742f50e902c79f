----------------------------- MODULE MCDebouncer -----------------------------
(* Two calls, one of them by a workflow that may make it again.            *)
EXTENDS Debouncer

CONSTANTS c1, c2, t1, t2

Callers == {c1, c2}
\* Each call has a target of its own, or both name the same.
Own == [c \in Callers |-> IF c = c1 THEN t1 ELSE t2]
Shared == [c \in Callers |-> t1]
BothNamings == {Own, Shared}
OneDurable == {c1}
AllModes == {"inline", "queue", "dedup"}
=============================================================================
