---------------------------- MODULE MCTransferFee ----------------------------
(* The instance of TransferFee for TLC. *)
EXTENDS TransferFee

MCFeeConfigs == [bps: {0, 1, 3, 9, 10}, max: {0, 1, 2, 5}]

\* States beyond these are checked but not explored.
Bounded == liquidity - credited <= 4
=============================================================================
