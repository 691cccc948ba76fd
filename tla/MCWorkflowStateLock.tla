------------------------ MODULE MCWorkflowStateLock ------------------------
(***************************************************************************)
(* Instances of WorkflowStateLock for TLC.                                 *)
(***************************************************************************)
EXTENDS WorkflowStateLock, TLC

CONSTANTS w1, w2, w3

ThreeWriters == {w1, w2, w3}

WriterSymmetry == Permutations(Writer)
=============================================================================
