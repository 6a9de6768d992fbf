----------------------------- MODULE BankLedger -----------------------------
(***************************************************************************)
(* One bank with everything that can change it: the balances that accounts *)
(* hold in it, its token vaults, its group's fee configuration and time.   *)
(*                                                                         *)
(* An action is one instruction of the program.  Instructions are atomic:  *)
(* one that fails a check changes nothing, so its checks are the guards.   *)
(* The account's other banks are not part of this module, so the health    *)
(* checks of the risk engine, which depend on them, are not guards here:   *)
(* what holds of this module holds whatever the risk engine decides.       *)
(***************************************************************************)
EXTENDS Balance, FiniteSets, Functions

CONSTANTS NumAccounts,       \* accounts are 1 .. NumAccounts
          Supply,            \* tokens of the bank's mint
          EmissionsSupply,   \* tokens of the emissions mint
          Configs,           \* configurations an admin may install
          BadDebtFlags,      \* values an admin may give the bad-debt flag
          GroupConfigs,      \* fee configurations of the group
          Amounts,           \* token amounts in instructions
          Donations,         \* token amounts sent to a vault directly
          Quantities,        \* fixed-point amounts computed by a liquidation
          EmissionRates,
          MultiBankAccounts, \* accounts that may go bankrupt in another bank
          MaxTime            \* bound on the clock

Accounts == 1 .. NumAccounts

ASSUME LedgerAssumption ==
  /\ NumAccounts \in Nat /\ Supply \in Nat /\ EmissionsSupply \in Nat /\ MaxTime \in Nat
  /\ Configs \subseteq BankConfigs /\ GroupConfigs \subseteq MarginfiGroups
  /\ Amounts \subseteq Nat /\ Quantities \subseteq Nat /\ EmissionRates \subseteq Nat
  /\ Donations \subseteq Nat /\ BadDebtFlags \subseteq BOOLEAN

VARIABLES bank,      \* the Bank account
          balances,  \* each account's Balance in this bank
          vault,     \* tokens per token account
          disabled,  \* accounts with DISABLED_FLAG
          group,     \* what the bank reads of its MarginfiGroup
          now        \* Clock::get()?.unix_timestamp

vars == <<bank, balances, vault, disabled, group, now>>

\* The bank's token accounts; the outside stands for every token account that
\* does not belong to the bank.
Vaults == {"liquidity", "insurance", "fee", "outside", "emissions", "emissions_outside"}

TypeOK ==
  /\ bank \in BankRecords
  /\ balances \in [Accounts -> BalanceRecords]
  /\ vault \in [Vaults -> Nat]
  /\ disabled \in SUBSET Accounts
  /\ group \in MarginfiGroups
  /\ now \in Nat

Init ==
  /\ bank \in {BankNew(config, 0) : config \in Configs}
  /\ balances = [a \in Accounts |-> EmptyDeactivated]
  /\ vault = [v \in Vaults |-> CASE v = "outside" -> Supply
                                 [] v = "emissions_outside" -> EmissionsSupply
                                 [] OTHER -> 0]
  /\ disabled = {}
  /\ group \in GroupConfigs
  /\ now = 0

-----------------------------------------------------------------------------
(* Helpers of the actions.                                                 *)

\* Every handler that touches balances accrues interest first.
Accrued == AccrueInterest(bank, group, now)
Found(a) == [bank |-> Accrued, balance |-> balances[a]]
FoundOrCreated(a) == FindOrCreate(Accrued, balances[a], now)

Store(a, w) == bank' = w.bank /\ balances' = [balances EXCEPT ![a] = w.balance]

\* An SPL token transfer, which fails on insufficient funds.
Transfer(from, to, amount) ==
  /\ vault[from] >= amount
  /\ vault' = [vault EXCEPT ![from] = @ - amount, ![to] = @ + amount]

-----------------------------------------------------------------------------
(* Instructions of an account holder.                                      *)

LendingAccountDeposit(a, amount) ==
  /\ a \notin disabled
  /\ IncreaseAllowed(FoundOrCreated(a), amount * ONE, "Any")
  /\ Store(a, IncreaseBalance(FoundOrCreated(a), amount * ONE, now))
  /\ Transfer("outside", "liquidity", amount)
  /\ UNCHANGED <<disabled, group, now>>

LendingAccountRepay(a, amount) ==
  /\ a \notin disabled /\ balances[a].active
  /\ IncreaseAllowed(Found(a), amount * ONE, "RepayOnly")
  /\ Store(a, IncreaseBalance(Found(a), amount * ONE, now))
  /\ Transfer("outside", "liquidity", amount)
  /\ UNCHANGED <<disabled, group, now>>

LendingAccountRepayAll(a) ==
  /\ a \notin disabled /\ balances[a].active
  /\ RepayAllAllowed(Found(a), now)
  /\ Store(a, RepayAll(Found(a), now))
  /\ Transfer("outside", "liquidity", RepayAllTokens(Found(a)))
  /\ UNCHANGED <<disabled, group, now>>

LendingAccountWithdraw(a, amount) ==
  /\ a \notin disabled /\ balances[a].active
  /\ DecreaseAllowed(Found(a), amount * ONE, "WithdrawOnly", now)
  /\ Store(a, DecreaseBalance(Found(a), amount * ONE, now))
  /\ Transfer("liquidity", "outside", amount)
  /\ UNCHANGED <<disabled, group, now>>

LendingAccountWithdrawAll(a) ==
  /\ a \notin disabled /\ balances[a].active
  /\ WithdrawAllAllowed(Found(a), now)
  /\ Store(a, WithdrawAll(Found(a), now))
  /\ Transfer("liquidity", "outside", WithdrawAllTokens(Found(a)))
  /\ UNCHANGED <<disabled, group, now>>

\* The borrower owes the amount and the origination fee, and receives the
\* amount.  The fee is shared by the program and the group.
OriginationFee(amount) ==
  Mul(amount * ONE, bank.config.interest_rate_config.protocol_origination_fee)
ProgramShare(fee) == Mul(fee, group.program_fee_rate)
BookOriginationFee(b, fee) ==
  [b EXCEPT !.collected_program_fees_outstanding = @ + ProgramShare(fee),
            !.collected_group_fees_outstanding = @ + fee - ProgramShare(fee)]

LendingAccountBorrow(a, amount) ==
  LET fee == OriginationFee(amount)
      w   == DecreaseBalance(FoundOrCreated(a), amount * ONE + fee, now)
  IN  /\ a \notin disabled
      /\ DecreaseAllowed(FoundOrCreated(a), amount * ONE + fee, "Any", now)
      /\ Store(a, [w EXCEPT !.bank = BookOriginationFee(w.bank, fee)])
      /\ Transfer("liquidity", "outside", amount)
      /\ UNCHANGED <<disabled, group, now>>

LendingAccountCloseBalance(a) ==
  /\ a \notin disabled /\ balances[a].active
  /\ CloseBalanceAllowed(Found(a), now)
  /\ Store(a, CloseBalance(Found(a), now))
  /\ UNCHANGED <<vault, disabled, group, now>>

\* close_account: can_be_closed asks every balance for its side only.
MarginfiAccountClose(a) ==
  /\ a \notin disabled
  /\ SideAsserted(balances[a]) /\ GetSide(balances[a]) = "None"
  /\ balances' = [balances EXCEPT ![a] = EmptyDeactivated]
  /\ UNCHANGED <<bank, vault, disabled, group, now>>

LendingAccountWithdrawEmissions(a) ==
  LET w == [bank |-> bank, balance |-> balances[a]]
  IN  /\ a \notin disabled /\ balances[a].active
      /\ SideAsserted(balances[a])
      /\ Store(a, SettleEmissions(w, now))
      /\ Transfer("emissions", "emissions_outside", SettledTokens(w, now))
      /\ UNCHANGED <<disabled, group, now>>

LendingAccountSettleEmissions(a) ==
  /\ balances[a].active
  /\ SideAsserted(balances[a])
  /\ Store(a, ClaimEmissions([bank |-> bank, balance |-> balances[a]], now))
  /\ UNCHANGED <<vault, disabled, group, now>>

-----------------------------------------------------------------------------
(* Liquidation, seen from the bank of the collateral and from the bank of  *)
(* the debt.  lending_account_liquidate takes both steps in one            *)
(* transaction, on two different banks.                                    *)

\* The liquidatee's collateral goes to the liquidator.
LiquidateAsset(liquidator, liquidatee, amount) ==
  LET seized == DecreaseBalance(Found(liquidatee), amount * ONE, now)
      bought == FindOrCreate(seized.bank, balances[liquidator], now)
      w      == IncreaseBalance(bought, amount * ONE, now)
  IN  /\ liquidator # liquidatee /\ amount > 0
      /\ balances[liquidatee].active
      /\ DecreaseAllowed(Found(liquidatee), amount * ONE, "WithdrawOnly", now)
      /\ IncreaseAllowed(bought, amount * ONE, "BypassDepositLimit")
      /\ bank' = w.bank
      /\ balances' = [balances EXCEPT ![liquidatee] = seized.balance, ![liquidator] = w.balance]
      /\ UNCHANGED <<vault, disabled, group, now>>

\* The risk engine's checks of the liability balance, before and after.
OwesOnly(balance) == /\ balance.liability_shares >= EMPTY_BALANCE_THRESHOLD
                     /\ balance.asset_shares < EMPTY_BALANCE_THRESHOLD

\* Mutant: the whole fee is booked again.
InsuranceFeeDust_Whole(insurance_fund_fee) == insurance_fund_fee
InsuranceFeeDust(insurance_fund_fee) == insurance_fund_fee % ONE

\* The liquidator pays liab_amount_liquidator, the liquidatee is credited
\* liab_amount_final, and the difference goes to the insurance fund: whole
\* tokens at once, the rest as an outstanding fee.
LiquidateLiability(liquidator, liquidatee, liab_amount_liquidator, liab_amount_final) ==
  LET insurance_fund_fee == liab_amount_liquidator - liab_amount_final
      paid     == DecreaseBalance(FoundOrCreated(liquidator), liab_amount_liquidator, now)
      indebted == [bank |-> paid.bank, balance |-> balances[liquidatee]]
      w        == IncreaseBalance(indebted, liab_amount_final, now)
  IN  /\ liquidator # liquidatee
      /\ liab_amount_liquidator >= liab_amount_final
      /\ balances[liquidatee].active /\ OwesOnly(balances[liquidatee])
      /\ DecreaseAllowed(FoundOrCreated(liquidator), liab_amount_liquidator,
                         "BypassBorrowLimit", now)
      /\ IncreaseAllowed(indebted, liab_amount_final, "Any")
      /\ OwesOnly(w.balance)
      /\ bank' = [w.bank EXCEPT !.collected_insurance_fees_outstanding =
                                  @ + InsuranceFeeDust(insurance_fund_fee)]
      /\ balances' = [balances EXCEPT ![liquidator] = paid.balance, ![liquidatee] = w.balance]
      /\ Transfer("liquidity", "insurance", FloorTokens(insurance_fund_fee))
      /\ UNCHANGED <<disabled, group, now>>

-----------------------------------------------------------------------------
(* Bankruptcy: the insurance fund covers what it can, the depositors bear  *)
(* the rest, the debt is written off and the account is disabled.          *)

BadDebt(a) == LiabilityAmount(Found(a))
\* Mutant: the insurance fund is not used.
CoveredByInsurance_None(a) == 0
CoveredByInsurance(a) == Least(BadDebt(a), vault["insurance"] * ONE)
SocializedLoss(a) == BadDebt(a) - CoveredByInsurance(a)

\* socialize_loss divides by the number of shares.  A loss larger than all
\* deposits would make the share value negative: the bound
\* SocializedLoss(a) <= TotalAssets(Accrued) leaves that case out.
LendingPoolHandleBankruptcy(a) ==
  LET w == [Found(a) EXCEPT !.bank = SocializeLoss(Accrued, SocializedLoss(a))]
  IN  /\ balances[a].active
      /\ BadDebt(a) > ZERO_AMOUNT_THRESHOLD
      /\ Accrued.total_asset_shares > 0
      /\ SocializedLoss(a) <= TotalAssets(Accrued)
      /\ IncreaseAllowed(w, BadDebt(a), "RepayOnly")
      /\ Store(a, IncreaseBalance(w, BadDebt(a), now))
      /\ Transfer("insurance", "liquidity", CeilTokens(CoveredByInsurance(a)))
      /\ disabled' = disabled \cup {a}
      /\ UNCHANGED <<group, now>>

\* The account goes bankrupt in another bank of the group.
DisabledElsewhere(a) ==
  /\ a \in MultiBankAccounts
  /\ disabled' = disabled \cup {a}
  /\ UNCHANGED <<bank, balances, vault, group, now>>

-----------------------------------------------------------------------------
(* Instructions of anyone, of the group admin and of the program admin.    *)

LendingPoolAccrueBankInterest ==
  /\ bank' = Accrued
  /\ UNCHANGED <<balances, vault, disabled, group, now>>

\* Whole tokens of the outstanding fees leave the liquidity vault, as far as
\* it reaches: insurance first, then the group, then the program.
Collectable(outstanding, available) == FloorTokens(Least(outstanding, available * ONE))

LendingPoolCollectBankFees ==
  LET insurance == Collectable(bank.collected_insurance_fees_outstanding, vault["liquidity"])
      fee       == Collectable(bank.collected_group_fees_outstanding,
                               vault["liquidity"] - insurance)
      program   == Collectable(bank.collected_program_fees_outstanding,
                               vault["liquidity"] - insurance - fee)
  IN  /\ bank' = [bank EXCEPT !.collected_insurance_fees_outstanding = @ - insurance * ONE,
                              !.collected_group_fees_outstanding = @ - fee * ONE,
                              !.collected_program_fees_outstanding = @ - program * ONE]
      /\ vault' = [vault EXCEPT !["liquidity"] = @ - insurance - fee - program,
                                !["insurance"] = @ + insurance,
                                !["fee"] = @ + fee,
                                !["outside"] = @ + program]
      /\ UNCHANGED <<balances, disabled, group, now>>

LendingPoolWithdrawFees(amount) ==
  /\ Transfer("fee", "outside", amount)
  /\ UNCHANGED <<bank, balances, disabled, group, now>>

LendingPoolWithdrawInsurance(amount) ==
  /\ Transfer("insurance", "outside", amount)
  /\ UNCHANGED <<bank, balances, disabled, group, now>>

\* configure_bank does not accrue: the new rates apply from last_update on.
LendingPoolConfigureBank(config, permissionless) ==
  /\ bank' = Configure(bank, config, permissionless)
  /\ UNCHANGED <<balances, vault, disabled, group, now>>

\* The flags are assigned, not merged: the bad-debt flag is overwritten too.
LendingPoolSetupEmissions(flags, rate, total_emissions) ==
  /\ ~bank.emissions_mint_set
  /\ bank' = [bank EXCEPT !.emissions_mint_set = TRUE, !.flags = flags,
                          !.emissions_rate = rate,
                          !.emissions_remaining = total_emissions * ONE]
  /\ Transfer("emissions_outside", "emissions", total_emissions)
  /\ UNCHANGED <<balances, disabled, group, now>>

LendingPoolUpdateEmissionsParameters(flags, rate, additional_emissions) ==
  /\ bank.emissions_mint_set
  /\ bank' = [bank EXCEPT !.flags = flags, !.emissions_rate = rate,
                          !.emissions_remaining = @ + additional_emissions * ONE]
  /\ Transfer("emissions_outside", "emissions", additional_emissions)
  /\ UNCHANGED <<balances, disabled, group, now>>

\* propagate_fee or config_group_fee.
ChangeGroupFees(g) ==
  /\ group' = g
  /\ UNCHANGED <<bank, balances, vault, disabled, now>>

Tick ==
  /\ now < MaxTime
  /\ now' = now + 1
  /\ UNCHANGED <<bank, balances, vault, disabled, group>>

\* Anyone may send tokens to a token account of the bank.
Donate(v, amount) ==
  /\ Transfer("outside", v, amount)
  /\ UNCHANGED <<bank, balances, disabled, group, now>>

-----------------------------------------------------------------------------
AccountStep(a) ==
  \/ \E amount \in Amounts : \/ LendingAccountDeposit(a, amount)
                              \/ LendingAccountRepay(a, amount)
                              \/ LendingAccountWithdraw(a, amount)
                              \/ LendingAccountBorrow(a, amount)
  \/ LendingAccountRepayAll(a)
  \/ LendingAccountWithdrawAll(a)
  \/ LendingAccountCloseBalance(a)
  \/ MarginfiAccountClose(a)
  \/ LendingAccountWithdrawEmissions(a)
  \/ LendingAccountSettleEmissions(a)
  \/ LendingPoolHandleBankruptcy(a)
  \/ DisabledElsewhere(a)

LiquidationStep(liquidator, liquidatee) ==
  \/ \E amount \in Amounts : LiquidateAsset(liquidator, liquidatee, amount)
  \/ \E q_ll, q_lf \in Quantities : LiquidateLiability(liquidator, liquidatee, q_ll, q_lf)

PoolStep ==
  \/ LendingPoolAccrueBankInterest
  \/ LendingPoolCollectBankFees
  \/ \E amount \in Amounts : \/ LendingPoolWithdrawFees(amount)
                              \/ LendingPoolWithdrawInsurance(amount)
  \/ \E v \in {"liquidity", "insurance", "fee"}, amount \in Donations : Donate(v, amount)
  \/ \E config \in Configs, permissionless \in BadDebtFlags :
       LendingPoolConfigureBank(config, permissionless)
  \/ \E rate \in EmissionRates, amount \in Amounts :
       \/ \E flags \in SUBSET EmissionFlags : LendingPoolSetupEmissions(flags, rate, amount)
       \/ \E flags \in SUBSET BankFlags :
            LendingPoolUpdateEmissionsParameters(flags, rate, amount)
  \/ \E g \in GroupConfigs : ChangeGroupFees(g)

Next ==
  \/ \E a \in Accounts : AccountStep(a)
  \/ \E a, b \in Accounts : LiquidationStep(a, b)
  \/ PoolStep
  \/ Tick

Spec == Init /\ [][Next]_vars

-----------------------------------------------------------------------------
(* Properties.                                                             *)

AssetShares == [a \in Accounts |-> balances[a].asset_shares]
LiabilityShares == [a \in Accounts |-> balances[a].liability_shares]

\* The totals of the bank are never less than what the accounts hold: every
\* share credited to a Balance is also counted in total_asset_shares or
\* total_liability_shares, through every deposit, borrow, close, liquidation
\* and bankruptcy.  (They may be more: closing drops residues.)
SharesBacked ==
  /\ SumFunction(AssetShares) <= bank.total_asset_shares
  /\ SumFunction(LiabilityShares) <= bank.total_liability_shares

\* The assertion in Balance::get_side never fires: no sequence of roundings
\* leaves a balance with a whole share on both sides.
OneSided == \A a \in Accounts : SideAsserted(balances[a])

\* Emissions are funded: the emissions token account covers what the bank
\* still has to distribute and what every balance has earned, whatever
\* claims, withdrawals, top-ups and closed balances came before.
EmissionsFunded ==
  SumFunction([a \in Accounts |-> balances[a].emissions_outstanding]) + bank.emissions_remaining
    <= vault["emissions"] * ONE

\* No clock of the bank or of a balance is ahead of Clock::get(): the periods
\* of accrue_interest and claim_emissions are never negative.
TimesPast ==
  /\ bank.last_update <= now
  /\ \A a \in Accounts : balances[a].last_update <= now

\* The inductive invariant of the proofs.
LedgerInv == TypeOK /\ SharesBacked /\ OneSided /\ EmissionsFunded /\ TimesPast

\* Depositors bear a loss only where the insurance vault is emptied first, and
\* only for a debt that is written off whole (up to the one unit of a share that
\* rounding leaves) from an account that is disabled by it.  (socialize_loss
\* rounds the share value down by up to one unit, or by one per share held
\* when there is less than a whole share.)
InsuranceFirst ==
  [][bank'.asset_share_value + 1 + (ONE \div Greatest(bank.total_asset_shares, 1))
       < bank.asset_share_value
     => /\ vault'["insurance"] = 0
        /\ \E a \in disabled' :
             /\ GetLiabilityAmount(bank', balances[a].liability_shares) > ZERO_AMOUNT_THRESHOLD
             /\ balances'[a].liability_shares <= 1]_vars

\* A bank's limits and modes bind every instruction of one account, whatever
\* interest, fees and configurations came before: growing a side of a balance
\* leaves the accrued total below its limit.  (Only a liquidation, which
\* is a step of two accounts, may exceed a limit.)
LimitsHold ==
  [][\A a \in Accounts :
       /\ balances'[a].asset_shares > balances[a].asset_shares /\ AccountStep(a) =>
            DepositLimitRespected(bank', 1, FALSE)
       /\ balances'[a].liability_shares > balances[a].liability_shares /\ AccountStep(a) =>
            BorrowLimitRespected(bank', 1, FALSE)]_vars

\* In a paused bank balances only lose the residues that closing drops; in a
\* reduce-only bank a balance grows by no more than the tolerance of the
\* comparison, on either side and also in liquidations and bankruptcies.
ModesRespected ==
  [][\A a \in Accounts :
       LET assets == balances'[a].asset_shares - balances[a].asset_shares
           liabs  == balances'[a].liability_shares - balances[a].liability_shares
       IN  /\ bank.config.operational_state = "Paused" =>
                /\ Residue(-assets, GetAssetAmount(bank', -assets))
                /\ Residue(-liabs, GetLiabilityAmount(bank', -liabs))
           /\ bank.config.operational_state = "ReduceOnly" =>
                /\ GetAssetAmount(bank', assets) <= ZERO_AMOUNT_THRESHOLD
                /\ GetLiabilityAmount(bank', liabs) <= ZERO_AMOUNT_THRESHOLD]_vars

\* Emissions are earned once: a balance earns only for time that has passed
\* since it was last touched, and earning closes that period, however many
\* instructions claim for it.
EarnsOncePerPeriod ==
  [][\A a \in Accounts :
       balances'[a].emissions_outstanding > balances[a].emissions_outstanding =>
         balances[a].last_update < now /\ balances'[a].last_update = now]_vars

\* Debt per liability share never falls: no instruction forgives debt by
\* changing the share value.
DebtNeverShrinks == [][bank'.liability_share_value >= bank.liability_share_value]_vars

\* Shares in the totals of the bank that no balance holds.
OrphanAssets == bank.total_asset_shares - SumFunction(AssetShares)
OrphanLiabilities == bank.total_liability_shares - SumFunction(LiabilityShares)

\* withdraw_all, repay_all, close_balance and close_account forget at most
\* the residue of one balance.
DropsOnlyDust ==
  [][LET assets == OrphanAssets' - OrphanAssets
         liabilities == OrphanLiabilities' - OrphanLiabilities
     IN  /\ Residue(assets, GetAssetAmount(bank', assets))
         /\ Residue(liabilities, GetLiabilityAmount(bank', liabilities))]_vars

\* What the bank owns beyond what it owes to depositors and fee collectors.
Equity ==
  vault["liquidity"] * ONE + TotalLiabilities(bank) - TotalAssets(bank)
    - bank.collected_insurance_fees_outstanding - bank.collected_group_fees_outstanding
    - bank.collected_program_fees_outstanding

\* What the roundings of one instruction may cost the bank: one unit of a
\* share on each side, and for an accrual one unit of the share value and of
\* the rates on everything lent.
ShareDust == (bank'.asset_share_value \div ONE) + (bank'.liability_share_value \div ONE) + 3
AccrualDust ==
  LET time_delta == now - bank.last_update
  IN  IF time_delta = 0 THEN 0
      ELSE ((TotalLiabilities(bank) * (time_delta + SECONDS_PER_YEAR))
                  \div (ONE * SECONDS_PER_YEAR))
             + (bank.total_liability_shares \div ONE)
             + (bank'.asset_share_value \div bank.asset_share_value) + 3

\* No instruction creates claims on the bank that are not backed by tokens or
\* debt: deposits, borrows, interest, the three fees, liquidations and
\* bankruptcies balance up to the roundings of fixed-point arithmetic.
NoValueLeak == [][Equity' >= Equity - ShareDust - AccrualDust]_vars
=============================================================================
