---------------------------- MODULE MCBankLedger ----------------------------
(* Instances of BankLedger for TLC, one group of constants per run. *)
EXTENDS BankLedger

CONSTANTS MaxShares,  \* bound on the totals of the bank, in units
          MaxFees     \* bound on the outstanding fees, in units

\* Rates and fees in quarters of 1.0: the base rate grows to half of the
\* maximum at 50% utilisation.
Quarters(n) == (n * ONE) \div 4

IRConfig(max, insurance, protocol, origination) ==
  [optimal_utilization_rate |-> Quarters(2), plateau_interest_rate |-> Quarters(max) \div 2,
   max_interest_rate |-> Quarters(max),
   insurance_fee_fixed_apr |-> Quarters(insurance), insurance_ir_fee |-> 0,
   protocol_fixed_fee_apr |-> 0, protocol_ir_fee |-> Quarters(protocol),
   protocol_origination_fee |-> Quarters(origination)]

BankConfig(state, deposit_limit, borrow_limit, ir) ==
  [operational_state |-> state, deposit_limit |-> deposit_limit, borrow_limit |-> borrow_limit,
   interest_rate_config |-> ir]

GroupConfig(on, fixed, rate) ==
  [program_fees |-> on, program_fee_fixed |-> Quarters(fixed), program_fee_rate |-> Quarters(rate)]

\* Accounts: an origination fee and all three fees on interest.
FeeConfigs == {BankConfig("Operational", 4, U64_MAX, IRConfig(3, 1, 1, 1))}
FeeGroups == {GroupConfig(TRUE, 0, 2)}

\* Administration: every operational state, both limits, an origination fee
\* and two fee configurations of the group.
AdminConfigs == {BankConfig("Operational", 2, 2, IRConfig(2, 0, 1, 1)),
                 BankConfig("ReduceOnly", 2, U64_MAX, IRConfig(2, 0, 1, 0)),
                 BankConfig("Paused", U64_MAX, 2, IRConfig(2, 0, 1, 0))}
AdminGroups == {GroupConfig(TRUE, 0, 2), GroupConfig(FALSE, 0, 0)}

\* Roundings add up over arbitrarily many instructions, so the totals have no
\* bound of their own: states beyond these are checked but not explored.
Bounded == /\ bank.total_asset_shares <= MaxShares
           /\ bank.total_liability_shares <= MaxShares
           /\ bank.collected_insurance_fees_outstanding
                + bank.collected_group_fees_outstanding
                + bank.collected_program_fees_outstanding <= MaxFees
=============================================================================
