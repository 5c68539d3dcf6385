------------------------- MODULE MCSubnetReconciler -------------------------
(***************************************************************************)
(* A VPC cut into four /27 blocks in a three-zone region: the cluster's   *)
(* public subnet (block 0) and private subnet (block 1) are in zone a,     *)
(* zone b is available and uncovered, zone c is impaired.                  *)
(***************************************************************************)
EXTENDS SubnetReconciler, TLC

CONSTANTS p1, p2, a, b, c

MCAZs == {a, b, c}
MCAvailable == {a, b}
MCInitSubnets == {[cidr |-> {0}, az |-> a], [cidr |-> {1}, az |-> a]}
MCInitPrivate == {[cidr |-> {1}, az |-> a]}
MCOneProc == {p1}
MCTwoProcs == {p1, p2}
MCAllAvailable == {a, b, c}
Symmetry == Permutations(MCTwoProcs)

=============================================================================
