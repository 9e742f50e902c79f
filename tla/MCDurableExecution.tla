------------------------- MODULE MCDurableExecution -------------------------
(***************************************************************************)
(* Bodies for the model-checking runs of DurableExecution.                 *)
(***************************************************************************)
EXTENDS DurableExecution, TLC

CONSTANTS a, b, v1, v2, k1

\* Slots are interchangeable: no body and no definition names one.
SlotSymmetry == Permutations(Slot)

Call(kind, dest, key, val, catches) ==
    [kind |-> kind, dest |-> dest, key |-> key, val |-> val,
     catches |-> catches]

Timeout == {"TimeoutError"}

\* a steps, sends and streams; b receives and sets an event twice.
TwoBodies ==
    "V1" :> (a :> << Call("step", a, k1, v1, {}),
                     Call("send", b, k1, v1, {}),
                     Call("writeStream", a, k1, v1, {}),
                     Call("closeStream", a, k1, v1, {}) >> @@
             b :> << Call("recv", b, k1, v1, Timeout),
                     Call("setEvent", b, k1, v1, {}),
                     Call("setEvent", b, k1, v2, {}) >>)

\* For executions that overlap: two calls that receive from one topic, the
\* second of which the second version has dropped.
Upgrade ==
    LET A == << Call("step", a, k1, v1, {}),
                Call("send", b, k1, v1, {}) >>
    IN "V1" :> (a :> A @@
                b :> << Call("recv", b, k1, v1, Timeout),
                        Call("recv", b, k1, v1, Timeout),
                        Call("setEvent", b, k1, v1, {}) >>) @@
       "V2" :> (a :> A @@
                b :> << Call("recv", b, k1, v1, Timeout),
                        Call("setEvent", b, k1, v1, {}) >>)

\* Waiting calls of every kind.
Waits ==
    "V1" :> (a :> << Call("send", b, k1, v1, {}),
                     Call("getEvent", b, k1, v1, {}) >> @@
             b :> << Call("recv", b, k1, v1, {}),
                     Call("sleep", b, k1, v1, {}),
                     Call("setEvent", b, k1, v1, {}) >>)
=============================================================================
