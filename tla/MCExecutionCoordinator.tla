---------------------- MODULE MCExecutionCoordinator ----------------------
(***************************************************************************)
(* Instances of ExecutionCoordinator for TLC.                              *)
(***************************************************************************)
EXTENDS ExecutionCoordinator, TLC

CONSTANTS p1, p2, i1, i2

TwoProcs == {p1, p2}
OneProc == {p1}
OneInstance == {i1}
TwoInstances == {i1, i2}
SameOwner == [p \in Proc |-> i1]
OwnOwners == [p \in Proc |-> IF p = p1 THEN i1 ELSE i2]

\* Runs of one instance are interchangeable.
ProcSymmetry == Permutations(Proc)
=============================================================================
