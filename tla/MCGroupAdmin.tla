---------------------------- MODULE MCGroupAdmin ----------------------------
(* The instance of GroupAdmin for TLC. *)
EXTENDS GroupAdmin, TLC

MCFees == {[fixed |-> 0, rate |-> 0], [fixed |-> 1, rate |-> 1]}
Symmetry == Permutations(Groups)
=============================================================================
