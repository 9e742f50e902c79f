------------------------ MODULE MCWorkflowLifecycle ------------------------
(* Instances of WorkflowLifecycle for TLC.                                 *)
EXTENDS WorkflowLifecycle, TLC

CONSTANTS a, b, p1, p2, x1, x2, client, q1, q2

\* Each process runs under an executor id of its own.
OwnIds == [p \in Process |-> IF p = p1 THEN x1 ELSE x2]

AllRegistered == [p \in Process |-> Workflow]
\* p2 has not registered b's function.
PartlyRegistered == [p \in Process |-> IF p = p1 THEN Workflow ELSE Workflow \ {b}]

AllQueues == [p \in Process |-> Queue]

\* Who enqueues: p1 under its own id, so that its launch executes what waits;
\* or a client, whose rows only recover_workflows would execute so.
Enqueuers == {x1, client}
Clients == {client}

Everything == Disturbance \ {"delay", "delete", "deactivate"}
Postponements == {"delay", "delete", "deactivate", "cancel", "resume", "crash"}
NoneAtAll == {}
=============================================================================
