---------------------------- MODULE MCCodeReview ----------------------------
(***************************************************************************)
(* An instance of CodeReview for TLC.                                      *)
(***************************************************************************)
EXTENDS CodeReview

CONSTANTS p1, p2, i1, i2

TwoProcs == {p1, p2}
TwoInstances == {i1, i2}
OwnOwners == [p \in Proc |-> IF p = p1 THEN i1 ELSE i2]
=============================================================================
