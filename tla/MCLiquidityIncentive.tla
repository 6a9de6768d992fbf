------------------------ MODULE MCLiquidityIncentive ------------------------
(* The instance of LiquidityIncentive for TLC. *)
EXTENDS LiquidityIncentive, TLC

FlatRates ==
  [optimal_utilization_rate |-> 1, plateau_interest_rate |-> 1, max_interest_rate |-> 2,
   insurance_fee_fixed_apr |-> 0, insurance_ir_fee |-> 0, protocol_fixed_fee_apr |-> 0,
   protocol_ir_fee |-> 0, protocol_origination_fee |-> 0]
MCBankConfig == {[operational_state |-> "Operational", deposit_limit |-> U64_MAX,
                  borrow_limit |-> U64_MAX, interest_rate_config |-> FlatRates]}

Symmetry == Permutations(DepositKeys)

\* States beyond these are checked but not explored.
Bounded == liquidity <= 8 /\ bank.collected_insurance_fees_outstanding <= ONE
=============================================================================
