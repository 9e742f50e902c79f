----------------------------- MODULE MCScheduler -----------------------------
(* Two processes and two schedules: "a", whose queue refuses its workflows *)
(* while it is not paused, and then "b", with automatic_backfill and two    *)
(* slots or without it and with one.                                       *)
EXTENDS Scheduler, TLC

CONSTANTS p1, p2, a, b

Processes == {p1, p2}
Names == <<a, b>>
With(slots, backfill, accepts) ==
    [slots |-> slots, backfill |-> backfill, accepts |-> accepts]
Choices ==
    a :> {With({2}, TRUE, FALSE)} @@
    b :> {With({1, 2}, TRUE, TRUE), With({2}, FALSE, TRUE)}
LastSpan == {<<1, 2>>}
==============================================================================
