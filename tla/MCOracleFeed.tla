---------------------------- MODULE MCOracleFeed ----------------------------
(* The instance of OracleFeed for TLC. *)
EXTENDS OracleFeed

MCExponents == {-3, -1, 1}
=============================================================================
