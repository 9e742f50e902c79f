--------------------------- MODULE MCQueueDequeue ---------------------------
(* Instances of QueueDequeue for TLC.                                      *)
EXTENDS QueueDequeue, TLC

CONSTANTS a, b, x1, x2, q1, q2, k1, d1

Opt(prio, part, dedup, delay) ==
    [prio |-> prio, part |-> part, dedup |-> dedup, delay |-> delay]

\* With the key of a partition, later; and, of better priority and at once,
\* with a deduplication id and without a key.
SomeOptions == {Opt(1, k1, Nil, 1), Opt(0, Nil, d1, 0)}

PartedQueue == q1 :> [conc |-> 1, rate |-> 1, period |-> 1, parted |-> TRUE]
=============================================================================
