----------------------------- MODULE RiskEngine -----------------------------
(***************************************************************************)
(* RiskEngine of state/marginfi_account.rs: the health of an account over  *)
(* all of its balances.  A position is BankAccountWithPriceFeed: one       *)
(* balance with its bank, the risk parameters of the bank and its oracle   *)
(* feed, [bank, balance, risk, feed].  An account is a function ps from    *)
(* banks to positions; an inactive balance has no side and counts nothing. *)
(***************************************************************************)
EXTENDS Balance, OraclePrice, FiniteSets, Functions

CONSTANTS BANKRUPT_THRESHOLD,          \* 0.1 (USD) in the build, in units
          LIQUIDATION_LIQUIDATOR_FEE,  \* 0.025
          LIQUIDATION_INSURANCE_FEE    \* 0.025

ASSUME RiskAssumption ==
  /\ BANKRUPT_THRESHOLD \in Nat
  /\ LIQUIDATION_LIQUIDATOR_FEE \in Nat /\ LIQUIDATION_INSURANCE_FEE \in Nat
  /\ LIQUIDATION_LIQUIDATOR_FEE + LIQUIDATION_INSURANCE_FEE < ONE

RequirementTypes == {"Initial", "Maintenance", "Equity"}

\* The risk parameters of BankConfig that BankConfig::validate accepts.  A
\* total_asset_value_init_limit of zero is inactive.
RiskConfigs ==
  {r \in [asset_weight_init: Nat, asset_weight_maint: Nat, liability_weight_init: Nat,
          liability_weight_maint: Nat, risk_tier: {"Collateral", "Isolated"},
          total_asset_value_init_limit: Nat, oracle_setup: OracleSetups, oracle_max_age: Nat] :
     /\ r.asset_weight_init <= ONE /\ r.asset_weight_init <= r.asset_weight_maint
     /\ ONE <= r.liability_weight_maint /\ r.liability_weight_maint <= r.liability_weight_init
     /\ r.risk_tier = "Isolated" => r.asset_weight_init = 0 /\ r.asset_weight_maint = 0}

-----------------------------------------------------------------------------
(* The value of one position.                                              *)

CalcValue(amount, price, weight) == Mul(Mul(amount, weight), price) \div EXP10
CalcAmount(value, price) == Div(value * EXP10, price)

\* Initial and equity requirements use the time weighted price, maintenance
\* the real time price.
GetOraclePriceType(requirement_type) ==
  IF requirement_type = "Maintenance" THEN "RealTime" ELSE "TimeWeighted"

PriceFeedLoads(p, now) == Loads(p.risk.oracle_setup, p.risk.oracle_max_age, p.feed, now)
Price(p, price_type, bias) == GetPriceOfType(p.risk.oracle_setup, p.feed, price_type, bias)

\* maybe_get_asset_weight_init_discount, one when there is none.
AssetWeightInitDiscount(p, price) ==
  LET total == Mul(TotalAssets(p.bank), price) \div EXP10
      limit == p.risk.total_asset_value_init_limit * ONE
  IN  IF limit # 0 /\ total > limit THEN Div(limit, total) ELSE ONE

AssetWeight(p, requirement_type, price) ==
  CASE requirement_type = "Initial" ->
         Mul(p.risk.asset_weight_init, AssetWeightInitDiscount(p, price))
    [] requirement_type = "Maintenance" -> p.risk.asset_weight_maint
    [] OTHER -> ONE

LiabilityWeight(p, requirement_type) ==
  CASE requirement_type = "Initial"     -> p.risk.liability_weight_init
    [] requirement_type = "Maintenance" -> p.risk.liability_weight_maint
    [] OTHER                            -> ONE

\* Deposits in an isolated bank count nothing, and neither do deposits whose
\* oracle does not load when the initial requirement is computed.
Uncounted(p, requirement_type, now) ==
  \/ p.risk.risk_tier = "Isolated"
  \/ requirement_type = "Initial" /\ ~PriceFeedLoads(p, now)

CalcWeightedAssets(p, requirement_type, now) ==
  LET price == Price(p, GetOraclePriceType(requirement_type), "Low")
  IN  IF GetSide(p.balance) # "Assets" \/ Uncounted(p, requirement_type, now) THEN 0
      ELSE CalcValue(AssetAmount(p), price, AssetWeight(p, requirement_type, price))

CalcWeightedLiabs(p, requirement_type) ==
  IF GetSide(p.balance) # "Liabilities" THEN 0
  ELSE CalcValue(LiabilityAmount(p), Price(p, GetOraclePriceType(requirement_type), "High"),
                 LiabilityWeight(p, requirement_type))

\* Every other oracle failure aborts the instruction.
Priced(p, requirement_type, now) ==
  /\ SideAsserted(p.balance)
  /\ \/ GetSide(p.balance) = "None"
     \/ GetSide(p.balance) = "Assets" /\ Uncounted(p, requirement_type, now)
     \/ PriceFeedLoads(p, now) /\ HasResult(p.risk.oracle_setup, p.feed)

-----------------------------------------------------------------------------
(* The health of an account.                                               *)

AllPriced(ps, requirement_type, now) ==
  \A b \in DOMAIN ps : Priced(ps[b], requirement_type, now)
WeightedAssets(ps, requirement_type, now) ==
  SumFunction([b \in DOMAIN ps |-> CalcWeightedAssets(ps[b], requirement_type, now)])
WeightedLiabs(ps, requirement_type) ==
  SumFunction([b \in DOMAIN ps |-> CalcWeightedLiabs(ps[b], requirement_type)])
GetAccountHealth(ps, requirement_type, now) ==
  WeightedAssets(ps, requirement_type, now) - WeightedLiabs(ps, requirement_type)

BanksWithLiabilities(ps) ==
  {b \in DOMAIN ps : ps[b].balance.liability_shares >= EMPTY_BALANCE_THRESHOLD}

CheckAccountRiskTiers(ps) ==
  (\E b \in BanksWithLiabilities(ps) : ps[b].risk.risk_tier = "Isolated")
    => Cardinality(BanksWithLiabilities(ps)) = 1

\* Mutant: the risk tiers are not checked.
CheckAccountInitHealth_NoTiers(ps, now) ==
  /\ AllPriced(ps, "Initial", now)
  /\ GetAccountHealth(ps, "Initial", now) >= 0

CheckAccountInitHealth(ps, now) ==
  /\ AllPriced(ps, "Initial", now)
  /\ GetAccountHealth(ps, "Initial", now) >= 0
  /\ CheckAccountRiskTiers(ps)

\* The balance in the liability bank: debt, and nothing but debt.
OwesOnly(balance) == /\ balance.liability_shares >= EMPTY_BALANCE_THRESHOLD
                     /\ balance.asset_shares < EMPTY_BALANCE_THRESHOLD

CheckPreLiquidationCondition(ps, liab_bank, now) ==
  /\ ps[liab_bank].balance.active /\ OwesOnly(ps[liab_bank].balance)
  /\ AllPriced(ps, "Maintenance", now)
  /\ GetAccountHealth(ps, "Maintenance", now) <= 0

CheckPostLiquidationCondition(ps, liab_bank, pre_liquidation_health, now) ==
  /\ OwesOnly(ps[liab_bank].balance)
  /\ AllPriced(ps, "Maintenance", now)
  /\ GetAccountHealth(ps, "Maintenance", now) <= 0
  /\ GetAccountHealth(ps, "Maintenance", now) > pre_liquidation_health

\* Mutant: an account with few assets is bankrupt whatever it owes.
CheckAccountBankrupt_ThresholdOnly(ps, now) ==
  /\ AllPriced(ps, "Equity", now)
  /\ WeightedAssets(ps, "Equity", now) < BANKRUPT_THRESHOLD
  /\ WeightedLiabs(ps, "Equity") > ZERO_AMOUNT_THRESHOLD

CheckAccountBankrupt(ps, now) ==
  LET total_assets      == WeightedAssets(ps, "Equity", now)
      total_liabilities == WeightedLiabs(ps, "Equity")
  IN  /\ AllPriced(ps, "Equity", now)
      /\ total_assets < total_liabilities
      /\ total_assets < BANKRUPT_THRESHOLD
      /\ total_liabilities > ZERO_AMOUNT_THRESHOLD
=============================================================================
