------------------------- MODULE MCDecisionLoop -------------------------
(***************************************************************************)
(* Instances of DecisionLoop for TLC.                                      *)
(***************************************************************************)
EXTENDS DecisionLoop

CONSTANTS p1, p2, i1, i2

OneProc == {p1}
TwoProcs == {p1, p2}
OneInstance == {i1}
TwoInstances == {i1, i2}
OwnOwners == [p \in Proc |-> IF p = p1 THEN i1 ELSE i2]
=============================================================================
