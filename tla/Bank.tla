-------------------------------- MODULE Bank --------------------------------
(***************************************************************************)
(* The Bank account of state/marginfi_group.rs: share accounting, interest *)
(* accrual, limits, operational modes and loss socialisation, as operators *)
(* from a bank record to a bank record.  Amounts and shares are in units   *)
(* of FixedPoint; limits and vaults are in whole tokens.                   *)
(***************************************************************************)
EXTENDS FixedPoint

CONSTANTS SECONDS_PER_YEAR,      \* clock ticks in a year
          U64_MAX                \* a limit of this value is no limit

ASSUME BankAssumption == /\ SECONDS_PER_YEAR \in Nat \ {0}
                         /\ U64_MAX \in Nat

OperationalStates == {"Paused", "Operational", "ReduceOnly"}
EmissionFlags == {"BORROW_ACTIVE", "LENDING_ACTIVE"}
BankFlags == EmissionFlags \cup {"PERMISSIONLESS_BAD_DEBT_SETTLEMENT"}

\* An InterestRateConfig that InterestRateConfig::validate accepts.  The fees
\* are not validated by the code; negative ones trip the assertions of
\* calc_interest_rate and are not considered.
InterestRateConfigs ==
  {ir \in [optimal_utilization_rate: Nat, plateau_interest_rate: Nat, max_interest_rate: Nat,
           insurance_fee_fixed_apr: Nat, insurance_ir_fee: Nat,
           protocol_fixed_fee_apr: Nat, protocol_ir_fee: Nat, protocol_origination_fee: Nat] :
     /\ 0 < ir.optimal_utilization_rate /\ ir.optimal_utilization_rate < ONE
     /\ 0 < ir.plateau_interest_rate /\ ir.plateau_interest_rate < ir.max_interest_rate}

BankConfigs == [operational_state: OperationalStates, deposit_limit: Nat, borrow_limit: Nat,
                interest_rate_config: InterestRateConfigs]

\* What a bank reads of its group: whether program fees are on, and the
\* cached copy of the global fee state.
MarginfiGroups == {g \in [program_fees: BOOLEAN, program_fee_fixed: Nat, program_fee_rate: Nat] :
             g.program_fee_rate <= ONE}

BankRecords ==
  [asset_share_value: Nat \ {0}, liability_share_value: Nat \ {0},
   total_asset_shares: Nat, total_liability_shares: Nat,
   collected_insurance_fees_outstanding: Nat, collected_group_fees_outstanding: Nat,
   collected_program_fees_outstanding: Nat,
   last_update: Nat, config: BankConfigs, flags: SUBSET BankFlags,
   emissions_mint_set: BOOLEAN, emissions_rate: Nat, emissions_remaining: Nat]

BankNew(config, current_timestamp) ==
  [asset_share_value |-> ONE, liability_share_value |-> ONE,
   total_asset_shares |-> 0, total_liability_shares |-> 0,
   collected_insurance_fees_outstanding |-> 0, collected_group_fees_outstanding |-> 0,
   collected_program_fees_outstanding |-> 0,
   last_update |-> current_timestamp, config |-> config, flags |-> {},
   emissions_mint_set |-> FALSE, emissions_rate |-> 0, emissions_remaining |-> 0]

-----------------------------------------------------------------------------
(* Shares and amounts.                                                     *)

GetLiabilityAmount(b, shares) == Mul(shares, b.liability_share_value)
GetAssetAmount(b, shares) == Mul(shares, b.asset_share_value)
GetLiabilityShares(b, value) == Div(value, b.liability_share_value)
GetAssetShares(b, value) == Div(value, b.asset_share_value)

TotalAssets(b) == GetAssetAmount(b, b.total_asset_shares)
TotalLiabilities(b) == GetLiabilityAmount(b, b.total_liability_shares)

ChangeAssetShares(b, shares) == [b EXCEPT !.total_asset_shares = @ + shares]
ChangeLiabilityShares(b, shares) == [b EXCEPT !.total_liability_shares = @ + shares]

\* Mutant: the limit is checked against the totals before the change.
DepositLimitRespected_Before(b, shares, bypass_deposit_limit) ==
  (shares > 0 /\ b.config.deposit_limit # U64_MAX /\ ~bypass_deposit_limit)
    => TotalAssets(ChangeAssetShares(b, -shares)) < b.config.deposit_limit * ONE

\* The limit checks read the totals after the change: b is the changed bank.
DepositLimitRespected(b, shares, bypass_deposit_limit) ==
  (shares > 0 /\ b.config.deposit_limit # U64_MAX /\ ~bypass_deposit_limit)
    => TotalAssets(b) < b.config.deposit_limit * ONE

BorrowLimitRespected(b, shares, bypass_borrow_limit) ==
  (~bypass_borrow_limit /\ shares > 0 /\ b.config.borrow_limit # U64_MAX)
    => TotalLiabilities(b) < b.config.borrow_limit * ONE

CheckUtilizationRatio(b) == TotalAssets(b) >= TotalLiabilities(b)

\* Mutant: a reduce-only bank accepts increases.
AssertOperationalMode_Lax(b, is_amount_increasing) ==
  b.config.operational_state # "Paused"

AssertOperationalMode(b, is_amount_increasing) ==
  CASE b.config.operational_state = "Operational" -> TRUE
    [] b.config.operational_state = "ReduceOnly"  -> ~is_amount_increasing
    [] OTHER                                      -> FALSE

-----------------------------------------------------------------------------
(* Interest.                                                               *)

InterestRateCurve(ir, ur) ==
  IF ur <= ir.optimal_utilization_rate
  THEN Mul(Div(ur, ir.optimal_utilization_rate), ir.plateau_interest_rate)
  ELSE Mul(Div(ur - ir.optimal_utilization_rate, ONE - ir.optimal_utilization_rate),
           ir.max_interest_rate - ir.plateau_interest_rate)
         + ir.plateau_interest_rate

ProgramFeeRate(g) == IF g.program_fees THEN g.program_fee_rate ELSE 0
ProgramFeeFixed(g) == IF g.program_fees THEN g.program_fee_fixed ELSE 0

LendingRateApr(ir, ur) == Mul(InterestRateCurve(ir, ur), ur)

BorrowingRateApr(ir, g, ur) ==
  Mul(InterestRateCurve(ir, ur),
      ONE + ir.insurance_ir_fee + ir.protocol_ir_fee + ProgramFeeRate(g))
    + ir.insurance_fee_fixed_apr + ir.protocol_fixed_fee_apr + ProgramFeeFixed(g)

CalcFeeRate(base_rate, rate_fees, fixed_fees) == Mul(base_rate, rate_fees) + fixed_fees

\* Mutant: the principal is lost, only the interest remains.
AccruedPrincipal_InterestOnly(apr, time_delta, value) ==
  Mul(value, (apr * time_delta) \div SECONDS_PER_YEAR)

\* The principal after a period, and the interest paid over it.
AccruedPrincipal(apr, time_delta, value) ==
  Mul(value, ONE + ((apr * time_delta) \div SECONDS_PER_YEAR))
InterestPayment(apr, time_delta, value) ==
  (Mul(value, apr) * time_delta) \div SECONDS_PER_YEAR

\* The bank with the interest of the time since last_update.
AccrualStateChanges(b, g, current_timestamp) ==
  LET time_delta == current_timestamp - b.last_update
      liabs == TotalLiabilities(b)
      ir    == b.config.interest_rate_config
      ur    == Div(liabs, TotalAssets(b))
      base  == InterestRateCurve(ir, ur)
      Fee(rate, fixed) == InterestPayment(CalcFeeRate(base, rate, fixed), time_delta, liabs)
  IN  [b EXCEPT
         !.last_update = current_timestamp,
         !.asset_share_value = AccruedPrincipal(LendingRateApr(ir, ur), time_delta, @),
         !.liability_share_value = AccruedPrincipal(BorrowingRateApr(ir, g, ur), time_delta, @),
         !.collected_group_fees_outstanding =
            @ + Fee(ir.protocol_ir_fee, ir.protocol_fixed_fee_apr),
         !.collected_insurance_fees_outstanding =
            @ + Fee(ir.insurance_ir_fee, ir.insurance_fee_fixed_apr),
         !.collected_program_fees_outstanding =
            @ + Fee(ProgramFeeRate(g), ProgramFeeFixed(g))]

\* Bank::accrue_interest.  Nothing happens within one tick; an idle bank only
\* moves its clock.
AccrueInterest(b, g, current_timestamp) ==
  IF current_timestamp = b.last_update THEN b
  ELSE IF TotalAssets(b) = 0 \/ TotalLiabilities(b) = 0
       THEN [b EXCEPT !.last_update = current_timestamp]
       ELSE AccrualStateChanges(b, g, current_timestamp)

-----------------------------------------------------------------------------
\* The share value after a loss is spread over the depositors.  The code
\* divides by total_asset_shares.
SocializeLoss(b, loss_amount) ==
  [b EXCEPT !.asset_share_value = Div(TotalAssets(b) - loss_amount, b.total_asset_shares)]

\* InterestRateConfig::update has no line for protocol_origination_fee, so that
\* field keeps its value whatever the new configuration says.
UpdateRates(ir, new) == [new EXCEPT !.protocol_origination_fee = ir.protocol_origination_fee]

\* set_if_some for every field of BankConfigOpt, update_flag for the bad-debt
\* flag.
Configure(b, config, permissionless) ==
  [b EXCEPT
     !.config = [config EXCEPT !.interest_rate_config =
                   UpdateRates(b.config.interest_rate_config, @)],
     !.flags = IF permissionless THEN @ \cup {"PERMISSIONLESS_BAD_DEBT_SETTLEMENT"}
                                 ELSE @ \ {"PERMISSIONLESS_BAD_DEBT_SETTLEMENT"}]
=============================================================================
