------------------------------- MODULE Balance -------------------------------
(***************************************************************************)
(* BankAccountWrapper of state/marginfi_account.rs: the operations on one  *)
(* balance of one account together with its bank.  A wrapper is a record   *)
(* [bank, balance].  Each operation is two operators: XAllowed, that every *)
(* check! and assert! of the function passes, and X, the wrapper it        *)
(* leaves.  A failing check aborts the transaction, so X is only used      *)
(* where XAllowed holds.                                                   *)
(***************************************************************************)
EXTENDS Bank

CONSTANTS EXP10,                    \* 10 ^ mint_decimals
          MIN_EMISSIONS_START_TIME  \* balances last touched earlier earn from now on

ASSUME BalanceAssumption == EXP10 \in Nat \ {0} /\ MIN_EMISSIONS_START_TIME \in Nat

BalanceRecords == [active: BOOLEAN, asset_shares: Nat, liability_shares: Nat,
                   emissions_outstanding: Nat, last_update: Nat]

EmptyDeactivated == [active |-> FALSE, asset_shares |-> 0, liability_shares |-> 0,
                     emissions_outstanding |-> 0, last_update |-> 0]

\* BankAccountWrapper::find_or_create: an inactive balance becomes an empty
\* active one.  (BankAccountWrapper::find is the guard balance.active.)
FindOrCreate(bank, balance, now) ==
  [bank |-> bank,
   balance |-> IF balance.active THEN balance
               ELSE [EmptyDeactivated EXCEPT !.active = TRUE, !.last_update = now]]

\* The assertion of Balance::get_side, and the side it returns.
SideAsserted(balance) == \/ balance.asset_shares < EMPTY_BALANCE_THRESHOLD
                         \/ balance.liability_shares < EMPTY_BALANCE_THRESHOLD

GetSide(balance) ==
  CASE balance.liability_shares >= EMPTY_BALANCE_THRESHOLD -> "Liabilities"
    [] balance.liability_shares < EMPTY_BALANCE_THRESHOLD
         /\ balance.asset_shares >= EMPTY_BALANCE_THRESHOLD -> "Assets"
    [] OTHER -> "None"

AssetAmount(w) == GetAssetAmount(w.bank, w.balance.asset_shares)
LiabilityAmount(w) == GetLiabilityAmount(w.bank, w.balance.liability_shares)

-----------------------------------------------------------------------------
(* Emissions.                                                              *)

CalcEmissions(period, balance_amount, emissions_rate) ==
  ((period * (balance_amount \div EXP10)) \div SECONDS_PER_YEAR) * emissions_rate

\* The amount that earns emissions: the side the bank's flags reward.
EarningAmount(w) ==
  CASE GetSide(w.balance) = "Assets" /\ "LENDING_ACTIVE" \in w.bank.flags -> AssetAmount(w)
    [] GetSide(w.balance) = "Liabilities" /\ "BORROW_ACTIVE" \in w.bank.flags -> LiabilityAmount(w)
    [] OTHER -> 0

EarningPeriod(balance, now) ==
  now - (IF balance.last_update < MIN_EMISSIONS_START_TIME THEN now ELSE balance.last_update)

\* claim_emissions: what was earned since the last touch, capped by what the
\* bank has left, moves from the bank's pool to the balance.
EmissionsReal(w, now) ==
  Least(CalcEmissions(EarningPeriod(w.balance, now), EarningAmount(w), w.bank.emissions_rate),
        w.bank.emissions_remaining)

\* Mutant: the period is not closed.
ClaimEmissions_NoTimestamp(w, now) ==
  [bank    |-> [w.bank EXCEPT !.emissions_remaining = @ - EmissionsReal(w, now)],
   balance |-> [w.balance EXCEPT !.emissions_outstanding = @ + EmissionsReal(w, now)]]

ClaimEmissions(w, now) ==
  [bank    |-> [w.bank EXCEPT !.emissions_remaining = @ - EmissionsReal(w, now)],
   balance |-> [w.balance EXCEPT !.emissions_outstanding = @ + EmissionsReal(w, now),
                                 !.last_update = now]]

\* settle_emissions_and_get_transfer_amount: the whole tokens are paid out.
SettledTokens(w, now) == FloorTokens(ClaimEmissions(w, now).balance.emissions_outstanding)
\* Mutant: what is paid out stays claimable.
SettleEmissions_Kept(w, now) == ClaimEmissions(w, now)

SettleEmissions(w, now) ==
  [ClaimEmissions(w, now) EXCEPT !.balance.emissions_outstanding = @ % ONE]

-----------------------------------------------------------------------------
(* increase_balance_internal and decrease_balance_internal.                *)

\* What a delta does to the two sides: it first uses up the opposite side.
\* Mutants: the whole delta goes to one side.
AssetIncrease_Whole(w, delta) == delta
AssetDecrease_Whole(w, delta) == delta

LiabilityDecrease(w, delta) == Least(LiabilityAmount(w), delta)
AssetIncrease(w, delta) == Greatest(delta - LiabilityAmount(w), 0)
AssetDecrease(w, delta) == Least(AssetAmount(w), delta)
LiabilityIncrease(w, delta) == Greatest(delta - AssetAmount(w), 0)

\* Mutant: the bank's total_liability_shares is not updated.
ChangeShares_NoTotal(w, asset_shares, liability_shares) ==
  [bank    |-> ChangeAssetShares(w.bank, asset_shares),
   balance |-> [w.balance EXCEPT !.asset_shares = @ + asset_shares,
                                 !.liability_shares = @ + liability_shares]]

\* The wrapper after adding asset and liability shares to both the balance
\* and the totals of the bank.
ChangeShares(w, asset_shares, liability_shares) ==
  [bank    |-> ChangeLiabilityShares(ChangeAssetShares(w.bank, asset_shares), liability_shares),
   balance |-> [w.balance EXCEPT !.asset_shares = @ + asset_shares,
                                 !.liability_shares = @ + liability_shares]]

IncreaseBalance(w, delta, now) ==
  ChangeShares(ClaimEmissions(w, now),
               GetAssetShares(w.bank, AssetIncrease(w, delta)),
               -GetLiabilityShares(w.bank, LiabilityDecrease(w, delta)))

IncreaseAllowed(w, delta, operation_type) ==
  LET asset_shares == GetAssetShares(w.bank, AssetIncrease(w, delta))
  IN  /\ SideAsserted(w.balance)
      /\ w.bank.asset_share_value > 0    \* checked_div fails on zero
      /\ operation_type = "RepayOnly" => IsZeroWithTolerance(AssetIncrease(w, delta))
      /\ AssertOperationalMode(w.bank, IsPositiveWithTolerance(AssetIncrease(w, delta)))
      /\ DepositLimitRespected(ChangeAssetShares(w.bank, asset_shares), asset_shares,
                               operation_type = "BypassDepositLimit")

DecreaseBalance(w, delta, now) ==
  ChangeShares(ClaimEmissions(w, now),
               -GetAssetShares(w.bank, AssetDecrease(w, delta)),
               GetLiabilityShares(w.bank, LiabilityIncrease(w, delta)))

DecreaseAllowed(w, delta, operation_type, now) ==
  LET bank == DecreaseBalance(w, delta, now).bank
  IN  /\ SideAsserted(w.balance)
      /\ w.bank.asset_share_value > 0
      /\ operation_type = "WithdrawOnly" => IsZeroWithTolerance(LiabilityIncrease(w, delta))
      /\ AssertOperationalMode(w.bank, IsPositiveWithTolerance(LiabilityIncrease(w, delta)))
      /\ BorrowLimitRespected(bank, GetLiabilityShares(w.bank, LiabilityIncrease(w, delta)),
                              operation_type = "BypassBorrowLimit")
      /\ CheckUtilizationRatio(bank)

-----------------------------------------------------------------------------
(* withdraw_all, repay_all and close_balance end with Balance::close, which *)
(* drops whatever shares the balance still holds: only the shares of the    *)
(* side being closed leave the totals of the bank.                          *)

CloseAllowed(w, now) ==
  /\ SideAsserted(w.balance)
  /\ ClaimEmissions(w, now).balance.emissions_outstanding < ONE

\* The fraction of a token that withdraw_all keeps back and that repay_all
\* collects on top becomes an insurance fee.
WithdrawAllTokens(w) == FloorTokens(AssetAmount(w))
WithdrawAll(w, now) ==
  [bank    |-> [ChangeAssetShares(ClaimEmissions(w, now).bank, -w.balance.asset_shares)
                  EXCEPT !.collected_insurance_fees_outstanding =
                           @ + AssetAmount(w) - WithdrawAllTokens(w) * ONE],
   balance |-> EmptyDeactivated]

WithdrawAllAllowed(w, now) ==
  /\ CloseAllowed(w, now)
  /\ AssertOperationalMode(w.bank, FALSE)
  /\ IsPositiveWithTolerance(AssetAmount(w))
  /\ IsZeroWithTolerance(LiabilityAmount(w))
  /\ CheckUtilizationRatio(ChangeAssetShares(w.bank, -w.balance.asset_shares))

RepayAllTokens(w) == CeilTokens(LiabilityAmount(w))
RepayAll(w, now) ==
  [bank    |-> [ChangeLiabilityShares(ClaimEmissions(w, now).bank, -w.balance.liability_shares)
                  EXCEPT !.collected_insurance_fees_outstanding =
                           @ + RepayAllTokens(w) * ONE - LiabilityAmount(w)],
   balance |-> EmptyDeactivated]

RepayAllAllowed(w, now) ==
  /\ CloseAllowed(w, now)
  /\ AssertOperationalMode(w.bank, FALSE)
  /\ IsPositiveWithTolerance(LiabilityAmount(w))
  /\ IsZeroWithTolerance(AssetAmount(w))

CloseBalance(w, now) ==
  [bank |-> ClaimEmissions(w, now).bank, balance |-> EmptyDeactivated]

\* Mutant: the amounts are not checked.
CloseBalanceAllowed_Any(w, now) == CloseAllowed(w, now)

CloseBalanceAllowed(w, now) ==
  /\ CloseAllowed(w, now)
  /\ IsZeroWithTolerance(LiabilityAmount(w))
  /\ IsZeroWithTolerance(AssetAmount(w))

\* What closing may drop: less than EMPTY_BALANCE_THRESHOLD shares, or shares
\* worth less than ZERO_AMOUNT_THRESHOLD.
Residue(shares, amount) == /\ shares >= 0
                           /\ \/ shares < EMPTY_BALANCE_THRESHOLD
                              \/ amount < ZERO_AMOUNT_THRESHOLD
=============================================================================
