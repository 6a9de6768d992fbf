------------------------------ MODULE MCLending ------------------------------
(* Instances of Lending for TLC. *)
EXTENDS LendingLedgers

CONSTANTS MaxShares,  \* bound on the totals of each bank, in units
          MaxFees,    \* bound on its outstanding insurance fees, in units
          MaxInsured  \* bound on the tokens in its insurance vault

Sixteenths(n) == (n * ONE) \div 16

\* The smallest rates that validate: no interest over the bounded time.
FlatRates ==
  [optimal_utilization_rate |-> 1, plateau_interest_rate |-> 1, max_interest_rate |-> 2,
   insurance_fee_fixed_apr |-> 0, insurance_ir_fee |-> 0, protocol_fixed_fee_apr |-> 0,
   protocol_ir_fee |-> 0, protocol_origination_fee |-> 0]
FlatConfigs == {[operational_state |-> "Operational", deposit_limit |-> U64_MAX,
                 borrow_limit |-> U64_MAX, interest_rate_config |-> FlatRates]}
\* Debt doubles in a period of full use.
SteepConfigs == {[operational_state |-> "Operational", deposit_limit |-> U64_MAX,
                  borrow_limit |-> U64_MAX,
                  interest_rate_config |-> [FlatRates EXCEPT !.plateau_interest_rate = ONE \div 4,
                    !.optimal_utilization_rate = ONE \div 2, !.max_interest_rate = ONE]]}
NoFees == [program_fees |-> FALSE, program_fee_fixed |-> 0, program_fee_rate |-> 0]

Risk(tier, asset_init, asset_maint, liability_maint, liability_init, limit) ==
  [asset_weight_init |-> Sixteenths(asset_init), asset_weight_maint |-> Sixteenths(asset_maint),
   liability_weight_init |-> Sixteenths(liability_init),
   liability_weight_maint |-> Sixteenths(liability_maint),
   risk_tier |-> tier, total_asset_value_init_limit |-> limit,
   oracle_setup |-> "PythPushOracle", oracle_max_age |-> 0]

Feed(price, ema_price, conf) ==
  [valid |-> TRUE, enough |-> TRUE, publish_time |-> 0, exponent |-> 0,
   price |-> price, conf |-> conf, ema_price |-> ema_price, ema_conf |-> conf]

\* A tenth of a dollar.
Crash == [Feed(1, 1, 0) EXCEPT !.exponent = -1]

\* Collateral in the first bank, which loses half of its value; an isolated
\* bank and a collateral bank to borrow from.
CollateralRisk == Risk("Collateral", 12, 14, 17, 18, 0)
IsolatedRisk == Risk("Isolated", 0, 0, 17, 18, 0)
LiquidationRisk == << {CollateralRisk}, {IsolatedRisk}, {CollateralRisk} >>
LiquidationSupply == <<32, 32, 64>>
LiquidationFeeds == << {Feed(2, 2, 0), Feed(1, 1, 0)}, {Feed(1, 1, 0)}, {Feed(1, 1, 0)} >>

\* Bankruptcy: the collateral loses nearly all of its value.
BankruptcyRisk == << {CollateralRisk}, {CollateralRisk} >>
BankruptcySupply == <<1, 2>>
BankruptcyFeeds == << {Feed(2, 2, 0), Crash}, {Feed(1, 1, 0)} >>

\* States beyond these totals are checked but not explored.
Bounded == \A b \in Banks : /\ banks[b].total_asset_shares <= MaxShares
                            /\ banks[b].total_liability_shares <= MaxShares
                            /\ banks[b].collected_insurance_fees_outstanding <= MaxFees
                            /\ vaults[b]["insurance"] <= MaxInsured

\* Balances that hold parts of a share are checked but not explored.
WholeShares == \A b \in Banks : /\ banks[b].total_asset_shares % ONE = 0
                                /\ banks[b].total_liability_shares % ONE = 0
=============================================================================
