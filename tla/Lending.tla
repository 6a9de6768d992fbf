------------------------------- MODULE Lending -------------------------------
(***************************************************************************)
(* A marginfi group: several banks, accounts with a balance in each, the   *)
(* oracles of the banks and the risk engine that ties them together.  An   *)
(* action is one instruction; IN_FLASHLOAN_FLAG is the subject of module   *)
(* Flashloan and is never set here.  Seen from any one bank the module     *)
(* implements BankLedger, where fees, emissions and administration are.    *)
(***************************************************************************)
EXTENDS RiskEngine

CONSTANTS NumAccounts, NumBanks,
          MAX_LENDING_ACCOUNT_BALANCES,  \* 16: active balances of an account
          Supply,                        \* per bank, the tokens of its mint
          Configs, Group,                \* bank configurations, the group's fees
          RiskChoices,                   \* per bank, the risk parameters it may have
          FeedChoices,                   \* per bank, what its oracle may publish
          Amounts,                       \* token amounts in instructions
          SeizedAmounts,                 \* token amounts in liquidations
          MaxTime                        \* bound on the clock

Accounts == 1 .. NumAccounts
Banks == 1 .. NumBanks

ASSUME LendingAssumption ==
  /\ NumAccounts \in Nat /\ NumBanks \in Nat /\ MAX_LENDING_ACCOUNT_BALANCES \in Nat
  /\ Supply \in [Banks -> Nat] /\ MaxTime \in Nat /\ Amounts \subseteq Nat /\ SeizedAmounts \subseteq Nat
  /\ Configs \subseteq BankConfigs /\ Group \in MarginfiGroups
  /\ \A b \in Banks :
       /\ RiskChoices[b] \subseteq RiskConfigs /\ FeedChoices[b] \subseteq FeedRecords
       \* The scale of a SwitchboardDecimal is a u32.
       /\ \A r \in RiskChoices[b], f \in FeedChoices[b] :
            r.oracle_setup = "SwitchboardV2" => f.exponent <= 0

VARIABLES banks,     \* the Bank accounts
          lending,   \* lending[a][b]: the Balance of account a in bank b
          vaults,    \* vaults[b]: the token accounts of bank b
          disabled,  \* accounts with DISABLED_FLAG
          risk,      \* the risk parameters of each bank's BankConfig
          oracle,    \* the oracle account of each bank
          now        \* Clock::get()?.unix_timestamp

vars == <<banks, lending, vaults, disabled, risk, oracle, now>>

Vaults == {"liquidity", "insurance", "fee", "outside", "emissions", "emissions_outside"}

TypeOK ==
  /\ banks \in [Banks -> BankRecords]
  /\ lending \in [Accounts -> [Banks -> BalanceRecords]]
  /\ vaults \in [Banks -> [Vaults -> Nat]]
  /\ disabled \in SUBSET Accounts
  /\ risk \in [Banks -> RiskConfigs]
  /\ oracle \in [Banks -> FeedRecords]
  /\ now \in Nat

\* A choice for every bank.
OneOfEach(choices) == {f \in [Banks -> UNION {choices[b] : b \in Banks}] :
                         \A b \in Banks : f[b] \in choices[b]}

Init ==
  /\ \E config \in Configs : banks = [b \in Banks |-> BankNew(config, 0)]
  /\ lending = [a \in Accounts |-> [b \in Banks |-> EmptyDeactivated]]
  /\ vaults = [b \in Banks |-> [v \in Vaults |-> IF v = "outside" THEN Supply[b] ELSE 0]]
  /\ disabled = {}
  /\ risk \in OneOfEach(RiskChoices) /\ oracle \in OneOfEach(FeedChoices)
  /\ now = 0

-----------------------------------------------------------------------------
(* Helpers of the actions.                                                 *)

\* Mutant: the bank does not accrue interest.
Accrued_Not(b) == banks[b]

Accrued(b) == AccrueInterest(banks[b], Group, now)
Found(a, b) == [bank |-> Accrued(b), balance |-> lending[a][b]]
FoundOrCreated(a, b) == FindOrCreate(Accrued(b), lending[a][b], now)

\* find_or_create fails with LendingAccountBalanceSlotsFull when it has to
\* create a balance and no slot is free.
SlotFor(a, bs) ==
  Cardinality({b \in Banks : lending[a][b].active} \cup bs) <= MAX_LENDING_ACCOUNT_BALANCES

Store(a, b, w) == /\ banks' = [banks EXCEPT ![b] = w.bank]
                  /\ lending' = [lending EXCEPT ![a][b] = w.balance]

\* Mutant: the token program does not check funds.
Transfer_NoFunds(b, from, to, amount) ==
  vaults' = [vaults EXCEPT ![b][from] = @ - amount, ![b][to] = @ + amount]

Transfer(b, from, to, amount) ==
  /\ vaults[b][from] >= amount
  /\ vaults' = [vaults EXCEPT ![b][from] = @ - amount, ![b][to] = @ + amount]

\* BankAccountWithPriceFeed::load for account a, with banks bs.
PositionsWith(bs, a) ==
  [b \in Banks |-> [bank |-> bs[b], balance |-> lending[a][b],
                    risk |-> risk[b], feed |-> oracle[b]]]
Positions(a) == PositionsWith(banks, a)

\* RiskEngine::check_account_init_health, on the state an instruction leaves.
InitHealthy(a) == CheckAccountInitHealth(Positions(a), now)

-----------------------------------------------------------------------------
(* Instructions of an account holder.                                      *)

LendingAccountDeposit(a, b, amount) ==
  /\ a \notin disabled
  /\ SlotFor(a, {b})
  /\ IncreaseAllowed(FoundOrCreated(a, b), amount * ONE, "Any")
  /\ Store(a, b, IncreaseBalance(FoundOrCreated(a, b), amount * ONE, now))
  /\ Transfer(b, "outside", "liquidity", amount)
  /\ UNCHANGED <<disabled, risk, oracle, now>>

LendingAccountRepay(a, b, amount) ==
  /\ a \notin disabled /\ lending[a][b].active
  /\ IncreaseAllowed(Found(a, b), amount * ONE, "RepayOnly")
  /\ Store(a, b, IncreaseBalance(Found(a, b), amount * ONE, now))
  /\ Transfer(b, "outside", "liquidity", amount)
  /\ UNCHANGED <<disabled, risk, oracle, now>>

LendingAccountRepayAll(a, b) ==
  /\ a \notin disabled /\ lending[a][b].active
  /\ RepayAllAllowed(Found(a, b), now)
  /\ Store(a, b, RepayAll(Found(a, b), now))
  /\ Transfer(b, "outside", "liquidity", RepayAllTokens(Found(a, b)))
  /\ UNCHANGED <<disabled, risk, oracle, now>>

\* Only the instructions that take tokens out check the health they leave.
LendingAccountWithdraw(a, b, amount) ==
  /\ a \notin disabled /\ lending[a][b].active
  /\ DecreaseAllowed(Found(a, b), amount * ONE, "WithdrawOnly", now)
  /\ Store(a, b, DecreaseBalance(Found(a, b), amount * ONE, now))
  /\ Transfer(b, "liquidity", "outside", amount)
  /\ UNCHANGED <<disabled, risk, oracle, now>>
  /\ InitHealthy(a)'

\* Mutant: withdrawing everything needs no health check.
LendingAccountWithdrawAll_Unchecked(a, b) ==
  /\ a \notin disabled /\ lending[a][b].active
  /\ WithdrawAllAllowed(Found(a, b), now)
  /\ Store(a, b, WithdrawAll(Found(a, b), now))
  /\ Transfer(b, "liquidity", "outside", WithdrawAllTokens(Found(a, b)))
  /\ UNCHANGED <<disabled, risk, oracle, now>>

LendingAccountWithdrawAll(a, b) ==
  /\ a \notin disabled /\ lending[a][b].active
  /\ WithdrawAllAllowed(Found(a, b), now)
  /\ Store(a, b, WithdrawAll(Found(a, b), now))
  /\ Transfer(b, "liquidity", "outside", WithdrawAllTokens(Found(a, b)))
  /\ UNCHANGED <<disabled, risk, oracle, now>>
  /\ InitHealthy(a)'

OriginationFee(b, amount) ==
  Mul(amount * ONE, banks[b].config.interest_rate_config.protocol_origination_fee)
ProgramShare(fee) == Mul(fee, Group.program_fee_rate)

LendingAccountBorrow(a, b, amount) ==
  LET fee == OriginationFee(b, amount)
      w   == DecreaseBalance(FoundOrCreated(a, b), amount * ONE + fee, now)
  IN  /\ a \notin disabled
      /\ SlotFor(a, {b})
      /\ DecreaseAllowed(FoundOrCreated(a, b), amount * ONE + fee, "Any", now)
      /\ Store(a, b, [w EXCEPT !.bank.collected_program_fees_outstanding = @ + ProgramShare(fee),
                               !.bank.collected_group_fees_outstanding = @ + fee - ProgramShare(fee)])
      /\ Transfer(b, "liquidity", "outside", amount)
      /\ UNCHANGED <<disabled, risk, oracle, now>>
      /\ InitHealthy(a)'

\* Mutant: a balance with deposits or debt can be closed.
LendingAccountCloseBalance_Any(a, b) ==
  /\ a \notin disabled /\ lending[a][b].active
  /\ Store(a, b, CloseBalance(Found(a, b), now))
  /\ UNCHANGED <<vaults, disabled, risk, oracle, now>>

LendingAccountCloseBalance(a, b) ==
  /\ a \notin disabled /\ lending[a][b].active
  /\ CloseBalanceAllowed(Found(a, b), now)
  /\ Store(a, b, CloseBalance(Found(a, b), now))
  /\ UNCHANGED <<vaults, disabled, risk, oracle, now>>

\* Every balance is asked for its side only.
CanBeClosed(a) ==
  /\ a \notin disabled
  /\ \A b \in Banks : SideAsserted(lending[a][b]) /\ GetSide(lending[a][b]) = "None"

MarginfiAccountClose(a) ==
  /\ CanBeClosed(a)
  /\ lending' = [lending EXCEPT ![a] = [b \in Banks |-> EmptyDeactivated]]
  /\ UNCHANGED <<banks, vaults, disabled, risk, oracle, now>>

-----------------------------------------------------------------------------
(* Liquidation and bankruptcy.                                             *)

\* Mutant: the liquidator pays what the liquidatee receives.
LiabilityFor_BothFees(amount, asset_price, liab_price, fees) ==
  CalcAmount(CalcValue(amount * ONE, asset_price,
                       ONE - LIQUIDATION_INSURANCE_FEE - LIQUIDATION_LIQUIDATOR_FEE), liab_price)

\* The debt, in the liability bank, that amount tokens of collateral pay for
\* when they are discounted by fees.
LiabilityFor(amount, asset_price, liab_price, fees) ==
  CalcAmount(CalcValue(amount * ONE, asset_price, ONE - fees), liab_price)

\* try_from_bank_config and get_price_of_type succeed.
Quotes(b) == /\ Loads(risk[b].oracle_setup, risk[b].oracle_max_age, oracle[b], now)
             /\ HasResult(risk[b].oracle_setup, oracle[b])
RealTimePrice(b, bias) == GetPriceOfType(risk[b].oracle_setup, oracle[b], "RealTime", bias)

\* The liquidator takes amount tokens of collateral in asset_bank and pays
\* for them in liab_bank: first the liquidator's side of the debt, then the
\* collateral out of the one account and into the other, then the
\* liquidatee's side of the debt.  Neither account's DISABLED_FLAG is read.
LendingAccountLiquidate(liquidator, liquidatee, asset_bank, liab_bank, amount) ==
  LET accrued == [banks EXCEPT ![asset_bank] = Accrued(asset_bank),
                               ![liab_bank] = Accrued(liab_bank)]
      before  == PositionsWith(accrued, liquidatee)
      asset_price == RealTimePrice(asset_bank, "Low")
      liab_price  == RealTimePrice(liab_bank, "High")
      liab_amount_liquidator ==
        LiabilityFor(amount, asset_price, liab_price, LIQUIDATION_LIQUIDATOR_FEE)
      liab_amount_final ==
        LiabilityFor(amount, asset_price, liab_price,
                     LIQUIDATION_INSURANCE_FEE + LIQUIDATION_LIQUIDATOR_FEE)
      insurance_fund_fee == liab_amount_liquidator - liab_amount_final
      paid     == DecreaseBalance(FoundOrCreated(liquidator, liab_bank),
                                  liab_amount_liquidator, now)
      seized   == DecreaseBalance(Found(liquidatee, asset_bank), amount * ONE, now)
      credited == FindOrCreate(seized.bank, lending[liquidator][asset_bank], now)
      bought   == IncreaseBalance(credited, amount * ONE, now)
      indebted == [bank |-> paid.bank, balance |-> lending[liquidatee][liab_bank]]
      relieved == IncreaseBalance(indebted, liab_amount_final, now)
  IN  /\ amount > 0 /\ asset_bank # liab_bank /\ liquidator # liquidatee
      /\ CheckPreLiquidationCondition(before, liab_bank, now)
      /\ Quotes(asset_bank) /\ Quotes(liab_bank) /\ liab_price > 0
      /\ SlotFor(liquidator, {asset_bank, liab_bank})
      /\ DecreaseAllowed(FoundOrCreated(liquidator, liab_bank), liab_amount_liquidator,
                         "BypassBorrowLimit", now)
      /\ lending[liquidatee][asset_bank].active
      /\ DecreaseAllowed(Found(liquidatee, asset_bank), amount * ONE, "WithdrawOnly", now)
      /\ IncreaseAllowed(credited, amount * ONE, "BypassDepositLimit")
      /\ IncreaseAllowed(indebted, liab_amount_final, "Any")
      /\ banks' = [banks EXCEPT ![asset_bank] = bought.bank,
                     ![liab_bank] = [relieved.bank EXCEPT
                       !.collected_insurance_fees_outstanding = @ + (insurance_fund_fee % ONE)]]
      /\ lending' = [lending EXCEPT ![liquidator][asset_bank] = bought.balance,
                                    ![liquidator][liab_bank]  = paid.balance,
                                    ![liquidatee][asset_bank] = seized.balance,
                                    ![liquidatee][liab_bank]  = relieved.balance]
      /\ Transfer(liab_bank, "liquidity", "insurance", FloorTokens(insurance_fund_fee))
      /\ UNCHANGED <<disabled, risk, oracle, now>>
      /\ CheckPostLiquidationCondition(Positions(liquidatee)', liab_bank,
           GetAccountHealth(before, "Maintenance", now), now)
      /\ InitHealthy(liquidator)'

\* check_account_bankrupt reads the banks before this one accrues interest.
LendingPoolHandleBankruptcy(a, b) ==
  LET bad_debt == LiabilityAmount(Found(a, b))
      covered_by_insurance == Least(bad_debt, vaults[b]["insurance"] * ONE)
      socialized_loss == bad_debt - covered_by_insurance
      w == [Found(a, b) EXCEPT !.bank = SocializeLoss(Accrued(b), socialized_loss)]
  IN  /\ CheckAccountBankrupt(Positions(a), now)
      /\ lending[a][b].active
      /\ bad_debt > ZERO_AMOUNT_THRESHOLD
      /\ Accrued(b).total_asset_shares > 0
      /\ socialized_loss <= TotalAssets(Accrued(b))
      /\ IncreaseAllowed(w, bad_debt, "RepayOnly")
      /\ Store(a, b, IncreaseBalance(w, bad_debt, now))
      /\ Transfer(b, "insurance", "liquidity", CeilTokens(covered_by_insurance))
      /\ disabled' = disabled \cup {a}
      /\ UNCHANGED <<risk, oracle, now>>

-----------------------------------------------------------------------------
(* Everyone else.                                                          *)

LendingPoolAccrueBankInterest(b) ==
  /\ banks' = [banks EXCEPT ![b] = Accrued(b)]
  /\ UNCHANGED <<lending, vaults, disabled, risk, oracle, now>>

\* configure_bank with a configuration and risk parameters that validate.
LendingPoolConfigureBank(b, config, r) ==
  /\ banks' = [banks EXCEPT ![b] = Configure(@, config, FALSE)]
  /\ risk' = [risk EXCEPT ![b] = r]
  /\ UNCHANGED <<lending, vaults, disabled, oracle, now>>

\* The oracle of a bank publishes.
Publish(b, feed) ==
  /\ oracle' = [oracle EXCEPT ![b] = [feed EXCEPT !.publish_time = now]]
  /\ UNCHANGED <<banks, lending, vaults, disabled, risk, now>>

Tick ==
  /\ now < MaxTime
  /\ now' = now + 1
  /\ UNCHANGED <<banks, lending, vaults, disabled, risk, oracle>>

-----------------------------------------------------------------------------
AccountStep(a) ==
  \/ \E b \in Banks :
       \/ \E amount \in Amounts : \/ LendingAccountDeposit(a, b, amount)
                                   \/ LendingAccountRepay(a, b, amount)
                                   \/ LendingAccountWithdraw(a, b, amount)
                                   \/ LendingAccountBorrow(a, b, amount)
       \/ LendingAccountRepayAll(a, b)
       \/ LendingAccountWithdrawAll(a, b)
       \/ LendingAccountCloseBalance(a, b)
       \/ LendingPoolHandleBankruptcy(a, b)
  \/ MarginfiAccountClose(a)

BankStep(b) ==
  \/ LendingPoolAccrueBankInterest(b)
  \/ \E config \in Configs, r \in RiskChoices[b] : LendingPoolConfigureBank(b, config, r)
  \/ \E feed \in FeedChoices[b] : Publish(b, feed)

Next ==
  \/ \E a \in Accounts : AccountStep(a)
  \/ \E liquidator, liquidatee \in Accounts, asset_bank, liab_bank \in Banks,
        amount \in SeizedAmounts :
       LendingAccountLiquidate(liquidator, liquidatee, asset_bank, liab_bank, amount)
  \/ \E b \in Banks : BankStep(b)
  \/ Tick

Spec == Init /\ [][Next]_vars

-----------------------------------------------------------------------------
(* Properties.                                                             *)

MaintenanceHealth(a) == GetAccountHealth(Positions(a), "Maintenance", now)

\* An account that meets the maintenance requirement keeps meeting it through
\* every deposit, borrow, withdrawal, repayment, close, liquidation and
\* bankruptcy, its own and the others': only a new price, new risk parameters
\* or a change of share values (interest, a socialised loss) makes it
\* liquidatable.  It supposes that the two prices of each oracle agree, since
\* the initial requirement reads the time weighted one, and that no loss has
\* left deposit shares worth less than ZERO_AMOUNT_THRESHOLD, which
\* close_balance and repay_all drop without a health check.
HealthyUntilMarketMoves ==
  [][\A a \in Accounts :
       MaintenanceHealth(a) >= 0 /\ MaintenanceHealth(a)' < 0 =>
         \/ oracle' # oracle \/ risk' # risk
         \/ \E b \in Banks :
              \/ banks'[b].asset_share_value < banks[b].asset_share_value
              \/ banks'[b].liability_share_value > banks[b].liability_share_value
              \/ banks[b].asset_share_value < ZERO_AMOUNT_THRESHOLD
              \/ oracle[b].price # oracle[b].ema_price \/ oracle[b].conf # oracle[b].ema_conf]_vars

\* Debt in an isolated bank is the only debt of its account, in whatever order
\* it borrows, repays, closes and goes bankrupt in the banks of the group:
\* check_account_risk_tiers runs on borrows and withdrawals only.
IsolatedDebtAlone == \A a \in Accounts : CheckAccountRiskTiers(Positions(a))

\* An account declared bankrupt could have been liquidated: the depositors of
\* one bank do not pay for an account that meets its maintenance requirement
\* with what it has in the others.  As above the two prices of each oracle
\* agree, and the maintenance weights of assets, which BankConfig::validate
\* does not bound, are at most one.
BankruptOnlyIfLiquidatable ==
  [][(\A b \in Banks : /\ oracle[b].price = oracle[b].ema_price /\ oracle[b].conf = oracle[b].ema_conf
                       /\ risk[b].asset_weight_maint <= ONE)
     => \A a \in disabled' \ disabled : MaintenanceHealth(a) < 0]_vars

\* What an account's deposits and debts in a bank are worth at its price.
Worth(a, b) == CalcValue(AssetAmount(Positions(a)[b]), RealTimePrice(b, "Low"), ONE)
                 - CalcValue(LiabilityAmount(Positions(a)[b]), RealTimePrice(b, "High"), ONE)
NetWorth(a) == SumFunction([b \in Banks |-> Worth(a, b)])

\* The roundings of a liquidation: a few units of an amount at the price of
\* each of its two banks.
LiquidationDust(bs) == SumFunction([b \in bs |-> 3 * (CeilTokens(RealTimePrice(b, "High")) + 1)])

\* A liquidation is a fair trade up to its fees, whatever balances the two
\* accounts had on either side of the two banks: neither account loses more
\* than both fees on what it gives away, nor gains more than the liquidator's
\* fee on what it gets.  It supposes oracles that report no deviation, for
\* otherwise one bank is priced low and the other high.
LiquidationPriced ==
  [][\A a, c \in Accounts :
       /\ a # c /\ lending'[a] # lending[a] /\ lending'[c] # lending[c]
       /\ \A b \in Banks : RealTimePrice(b, "Low") = RealTimePrice(b, "High")
       => LET change == [b \in Banks |-> Worth(a, b)' - Worth(a, b)]
              given  == SumFunction([b \in Banks |-> Greatest(-change[b], 0)])
              gotten == SumFunction([b \in Banks |-> Greatest(change[b], 0)])
              dust   == LiquidationDust({b \in Banks : lending'[a][b] # lending[a][b]})
          IN  /\ NetWorth(a)' >= NetWorth(a) - dust
                   - Mul(given, LIQUIDATION_LIQUIDATOR_FEE + LIQUIDATION_INSURANCE_FEE)
              /\ NetWorth(a)' <= NetWorth(a) + dust
                   + Mul(gotten, LIQUIDATION_LIQUIDATOR_FEE)]_vars

\* The risk parameters and the oracle of a bank are ones it may have.
ChoicesOK ==
  \A b \in Banks :
    /\ risk[b] \in RiskChoices[b]
    /\ \E f \in FeedChoices[b] : oracle[b] = [f EXCEPT !.publish_time = oracle[b].publish_time]
=============================================================================
