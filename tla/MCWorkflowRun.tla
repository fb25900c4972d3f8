--------------------------- MODULE MCWorkflowRun ---------------------------
(* Small instances of WorkflowRun.                                         *)
EXTENDS WorkflowRun, TLC

CONSTANTS d1, d2

Symmetric == Permutations(Drivers)

=============================================================================
