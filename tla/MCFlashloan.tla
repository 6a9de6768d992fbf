---------------------------- MODULE MCFlashloan ----------------------------
(* The instance of Flashloan for TLC. *)
EXTENDS Flashloan, TLC

Symmetry == Permutations(Accounts)

\* States in which every account allows a transfer of its authority are checked
\* but not explored: the flag of one account is not read for another.
OneNotTransferable == \E a \in Accounts : "TRANSFER_AUTHORITY_ALLOWED" \notin flags[a]
=============================================================================
