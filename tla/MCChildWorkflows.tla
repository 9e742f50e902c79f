-------------------------- MODULE MCChildWorkflows --------------------------
(* Instances of ChildWorkflows for TLC.                                    *)
EXTENDS ChildWorkflows, TLC

CONSTANTS top, mid, leaf, bad, risky, p1, p2

Call(n) == [op |-> "call", name |-> n]
Await == [op |-> "await"]

\* top calls and awaits mid, which calls leaf and does not await it, and then
\* leaf; risky calls and awaits one that fails.
Bodies == top :> <<Call(mid), Await, Call(leaf), Await>> @@ mid :> <<Call(leaf)>> @@ leaf :> <<>>
          @@ risky :> <<Call(bad), Await>> @@ bad :> <<>>
=============================================================================
