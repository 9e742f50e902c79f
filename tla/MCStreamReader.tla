----------------------------- MODULE MCStreamReader -----------------------------
(* Two readers, one of them in the process of the two executions.          *)
EXTENDS StreamReader

CONSTANTS r1, r2, x1, x2

Readers == {r1, r2}
OneLocal == {r1}
Writers == {x1, x2}
Offsets == {0, 1}
Both == {"postgres", "sqlite"}
=============================================================================
