---------------------------- MODULE MCLeaseAnchor ----------------------------
(***************************************************************************)
(* Instances of LeaseAnchor for TLC.                                       *)
(***************************************************************************)
EXTENDS LeaseAnchor, TLC

CONSTANTS w1, w2

Symmetry == Permutations(Writers)
=============================================================================
