----------------------------- MODULE TransferFee -----------------------------
(***************************************************************************)
(* Mints of Token-2022 that charge a fee on every transfer.  The program   *)
(* converts between the amount that leaves an account and the amount that  *)
(* arrives (utils.rs), so that what it credits is what the vault gets.     *)
(* One bank with its liquidity and insurance vaults in whole tokens; the   *)
(* mint changes its fee at epoch boundaries.                               *)
(***************************************************************************)
EXTENDS Integers

CONSTANTS ONE_IN_BASIS_POINTS,  \* 10000
          FeeConfigs,           \* [bps, max]: transfer_fee_basis_points, maximum_fee
          Amounts,              \* amounts in instructions
          MaxVault              \* bound on the tokens in a vault

ASSUME TransferFeeAssumption ==
  /\ ONE_IN_BASIS_POINTS \in Nat \ {0} /\ MaxVault \in Nat /\ Amounts \subseteq Nat
  /\ FeeConfigs \subseteq [bps: 0 .. ONE_IN_BASIS_POINTS, max: Nat]

VARIABLES fee,        \* the fee of this epoch
          liquidity,  \* tokens in the liquidity vault
          insurance,  \* tokens in the insurance vault
          credited,   \* what depositors are owed, net of what borrowers owe
          bad_debt    \* debt of bankrupt accounts

fee_vars == <<fee, liquidity, insurance, credited, bad_debt>>

Smaller(x, y) == IF x <= y THEN x ELSE y
CeilDiv(numerator, denominator) == (numerator + denominator - 1) \div denominator

\* TransferFee::calculate_fee of the token program.
CalculateFee(f, amount) ==
  Smaller(CeilDiv(amount * f.bps, ONE_IN_BASIS_POINTS), f.max)

CalculatePostFeeSplDepositAmount(f, amount) == amount - CalculateFee(f, amount)

\* Mutant: the maximum fee is forgotten.
CalculatePreFeeAmount_NoMax(f, post_fee_amount) ==
  IF f.bps \in {0, ONE_IN_BASIS_POINTS} THEN post_fee_amount
  ELSE CeilDiv(post_fee_amount * ONE_IN_BASIS_POINTS, ONE_IN_BASIS_POINTS - f.bps)

CalculatePreFeeAmount(f, post_fee_amount) ==
  LET raw == CeilDiv(post_fee_amount * ONE_IN_BASIS_POINTS, ONE_IN_BASIS_POINTS - f.bps)
  IN  CASE f.bps = 0 \/ post_fee_amount = 0 -> post_fee_amount
        [] f.bps = ONE_IN_BASIS_POINTS /\ post_fee_amount # 0 -> post_fee_amount + f.max
        [] OTHER -> IF raw - post_fee_amount >= f.max THEN post_fee_amount + f.max ELSE raw

PreFee(amount) == CalculatePreFeeAmount(fee, amount)
PostFee(amount) == CalculatePostFeeSplDepositAmount(fee, amount)

-----------------------------------------------------------------------------
FeeTypeOK == /\ fee \in FeeConfigs
             /\ liquidity \in Nat /\ insurance \in Nat /\ credited \in Int /\ bad_debt \in Nat

FeeInit == /\ fee \in FeeConfigs
           /\ liquidity = 0 /\ insurance = 0 /\ credited = 0 /\ bad_debt = 0

\* Mutant: the user sends what is credited.
Deposit_NoPreFee(amount) ==
  /\ liquidity + PostFee(amount) <= MaxVault
  /\ liquidity' = liquidity + PostFee(amount)
  /\ credited' = credited + amount
  /\ UNCHANGED <<fee, insurance, bad_debt>>

\* lending_account_deposit and lending_account_repay: amount is credited, the
\* user sends enough for it to arrive.
Deposit(amount) ==
  /\ liquidity + PostFee(PreFee(amount)) <= MaxVault
  /\ liquidity' = liquidity + PostFee(PreFee(amount))
  /\ credited' = credited + amount
  /\ UNCHANGED <<fee, insurance, bad_debt>>

\* lending_account_withdraw and lending_account_borrow: amount arrives, what
\* leaves the vault is taken from the balance.
Withdraw(amount) ==
  /\ PreFee(amount) <= credited /\ PreFee(amount) <= liquidity
  /\ liquidity' = liquidity - PreFee(amount)
  /\ credited' = credited - PreFee(amount)
  /\ UNCHANGED <<fee, insurance, bad_debt>>

\* withdraw_all: what leaves the vault is the whole balance, fee or not.
WithdrawAll ==
  /\ credited > 0 /\ credited <= liquidity
  /\ liquidity' = liquidity - credited
  /\ credited' = 0
  /\ UNCHANGED <<fee, insurance, bad_debt>>

\* A loss: an account owes amount and has nothing.
LoseDebt(amount) ==
  /\ bad_debt = 0 /\ amount <= MaxVault
  /\ bad_debt' = amount
  /\ UNCHANGED <<fee, liquidity, insurance, credited>>

\* Mutant: the coverage is taken from all the vault has.
CoveredByInsurance_NoFee == Smaller(bad_debt, insurance)

\* What lending_pool_handle_bankruptcy takes from the insurance vault.
CoveredByInsurance == Smaller(bad_debt, PostFee(insurance))
InsuranceCoverageDepositPreFee == PreFee(CoveredByInsurance)

\* The depositors are credited what the insurance vault pays for, the rest is
\* their loss.
LendingPoolHandleBankruptcy ==
  /\ bad_debt > 0
  /\ InsuranceCoverageDepositPreFee <= insurance
  /\ liquidity + PostFee(InsuranceCoverageDepositPreFee) <= MaxVault
  /\ insurance' = insurance - InsuranceCoverageDepositPreFee
  /\ liquidity' = liquidity + PostFee(InsuranceCoverageDepositPreFee)
  /\ credited' = credited + CoveredByInsurance
  /\ bad_debt' = 0
  /\ UNCHANGED fee

\* Anyone sends tokens to the insurance vault.
FundInsurance(amount) ==
  /\ insurance + PostFee(amount) <= MaxVault
  /\ insurance' = insurance + PostFee(amount)
  /\ UNCHANGED <<fee, liquidity, credited, bad_debt>>

NewEpoch(f) == /\ fee' = f
               /\ UNCHANGED <<liquidity, insurance, credited, bad_debt>>

FeeNext ==
  \/ \E amount \in Amounts : \/ Deposit(amount) \/ Withdraw(amount)
                              \/ LoseDebt(amount) \/ FundInsurance(amount)
  \/ WithdrawAll \/ LendingPoolHandleBankruptcy
  \/ \E f \in FeeConfigs : NewEpoch(f)

FeeSpec == FeeInit /\ [][FeeNext]_fee_vars

-----------------------------------------------------------------------------
\* What the program credits is in the vault, whatever fees the mint charged
\* when tokens came in, when they went out and when insurance covered a debt.
VaultCoversCredits == liquidity >= credited

\* The insurance vault can always pay the coverage computed from what would
\* arrive: the two conversions round so that there and back is never more than
\* the vault has, so handle_bankruptcy is not blocked by a fee.
InsuranceCanPay == InsuranceCoverageDepositPreFee <= insurance

\* calculate_pre_fee_amount against its definition: the amount it returns is
\* one from which at least post_fee_amount arrives, and no smaller amount is,
\* for every fee including that of everything.
PreFeeIsLeast ==
  \A amount \in 0 .. MaxVault :
    /\ PostFee(PreFee(amount)) >= amount
    /\ \A less \in 0 .. PreFee(amount) - 1 : PostFee(less) < amount
=============================================================================
