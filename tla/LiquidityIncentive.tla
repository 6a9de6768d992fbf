------------------------- MODULE LiquidityIncentive -------------------------
(***************************************************************************)
(* The liquidity incentive program: a campaign locks deposits in a bank of *)
(* marginfi and tops their yield up to a guaranteed reward, out of a vault *)
(* that its creator funds once.  Each deposit has a marginfi account of    *)
(* its own, owned by the program, with one balance.  The bank is the real  *)
(* one (Bank, Balance) seen from outside: interest, losses and the other   *)
(* users move its share value and the tokens it has at hand.               *)
(***************************************************************************)
EXTENDS Balance, FiniteSets, Functions

CONSTANTS DepositKeys,    \* keys of Deposit accounts
          MaxDeposits, MaxRewards, LockupPeriods,  \* arguments of create_campaign
          Amounts,        \* arguments of create_deposit
          TransferFees,   \* fees the mint may charge, in tokens per transfer
          ShareValues,    \* asset share values of the bank
          Liquidities,    \* tokens in the bank's liquidity vault
          EmissionRates,  \* rates of lending emissions
          BankConfigOf,   \* configurations of the bank
          MaxTime         \* bound on the clock

ASSUME IncentiveAssumption ==
  /\ IsFiniteSet(DepositKeys)
  /\ MaxDeposits \subseteq Nat /\ MaxRewards \subseteq Nat /\ LockupPeriods \subseteq Nat
  /\ Amounts \subseteq Nat /\ TransferFees \subseteq Nat /\ ShareValues \subseteq Nat \ {0}
  /\ Liquidities \subseteq Nat /\ EmissionRates \subseteq Nat
  /\ BankConfigOf \subseteq BankConfigs /\ MaxTime \in Nat

VARIABLES campaign,      \* the Campaign account
          reward_vault,  \* tokens in its campaign_reward_vault
          deposits,      \* the Deposit accounts and their marginfi balances
          bank,          \* the marginfi bank
          liquidity,     \* tokens in its liquidity vault
          transfer_fee,  \* what the mint charges now
          now

vars == <<campaign, reward_vault, deposits, bank, liquidity, transfer_fee, now>>

NoCampaign == [active |-> FALSE, lockup_period |-> 0, max_deposits |-> 0,
               remaining_capacity |-> 0, max_rewards |-> 0]

\* A Deposit account goes from "new" to "open" to "ended" and is created once:
\* its marginfi account is derived from its key and stays when it ends.
NewDeposit == [status |-> "new", amount |-> 0, start_time |-> 0, balance |-> EmptyDeactivated]

Init ==
  /\ campaign = NoCampaign /\ reward_vault = 0
  /\ deposits = [d \in DepositKeys |-> NewDeposit]
  /\ \E config \in BankConfigOf : bank = BankNew(config, 0)
  /\ liquidity \in Liquidities
  /\ transfer_fee \in TransferFees
  /\ now = 0

-----------------------------------------------------------------------------
\* What arrives when the token program transfers amount.
Arrives(amount) == Greatest(amount - transfer_fee, 0)

CreateCampaign(lockup_period, max_deposits, max_rewards) ==
  /\ campaign = NoCampaign
  /\ max_deposits > 0
  /\ reward_vault' = Arrives(max_rewards)
  /\ campaign' = [active |-> TRUE, lockup_period |-> lockup_period,
                  max_deposits |-> max_deposits, remaining_capacity |-> max_deposits,
                  max_rewards |-> reward_vault']
  /\ UNCHANGED <<deposits, bank, liquidity, transfer_fee, now>>

\* Mutant: the capacity is not used up.
CapacityAfter_Kept(amount) == campaign.remaining_capacity

CapacityFor(amount) == campaign.remaining_capacity >= amount
CapacityAfter(amount) == campaign.remaining_capacity - amount

\* Initializes a marginfi account and deposits into it.
CreateDeposit(d, amount) ==
  LET w == FindOrCreate(bank, EmptyDeactivated, now)
      x == IncreaseBalance(w, amount * ONE, now)
  IN  /\ deposits[d].status = "new"
      /\ campaign.active /\ CapacityFor(amount) /\ amount > 0
      /\ transfer_fee = 0
      /\ IncreaseAllowed(w, amount * ONE, "Any")
      /\ bank' = x.bank /\ liquidity' = liquidity + amount
      /\ deposits' = [deposits EXCEPT ![d] = [status |-> "open", amount |-> amount,
                                              start_time |-> now, balance |-> x.balance]]
      /\ campaign' = [campaign EXCEPT !.remaining_capacity = CapacityAfter(amount)]
      /\ UNCHANGED <<reward_vault, transfer_fee, now>>

\* Mutant: the whole campaign's reward, not the share of the deposit.
MaxRewardForDeposit_Whole(amount) == campaign.max_rewards

MaxRewardForDeposit(amount) ==
  FloorTokens(Mul(Div(amount * ONE, campaign.max_deposits * ONE), campaign.max_rewards * ONE))

\* Mutant: the yield of the bank is paid on top of the reward.
AdditionalReward_OnTop(amount, end_deposit) == MaxRewardForDeposit(amount)

\* The guaranteed reward less what the bank paid, both subtractions saturating.
AdditionalReward(amount, end_deposit) ==
  Greatest(MaxRewardForDeposit(amount) - Greatest(end_deposit - amount, 0), 0)

Matured(d) == now >= deposits[d].start_time + campaign.lockup_period
Position(d) == [bank |-> bank, balance |-> deposits[d].balance]
Withdrawn(d) == WithdrawAllTokens(Position(d))
Reward(d) == AdditionalReward(deposits[d].amount, Arrives(Withdrawn(d)))

\* The token program refuses to close an account that withheld transfer fees.
Closable(tokens) == Arrives(tokens) = tokens

\* Withdraws everything from marginfi into a temporary token account, adds the
\* reward, pays the owner and closes the temporary account.
EndDeposit(d) ==
  /\ deposits[d].status = "open"
  /\ Matured(d)
  /\ WithdrawAllAllowed(Position(d), now) /\ liquidity >= Withdrawn(d)
  /\ reward_vault >= Reward(d)
  /\ Closable(Withdrawn(d)) /\ Closable(Reward(d))
  /\ bank' = WithdrawAll(Position(d), now).bank
  /\ liquidity' = liquidity - Withdrawn(d)
  /\ reward_vault' = reward_vault - Reward(d)
  /\ deposits' = [deposits EXCEPT ![d].status = "ended", ![d].balance = EmptyDeactivated]
  /\ UNCHANGED <<campaign, transfer_fee, now>>

-----------------------------------------------------------------------------
(* The world outside.                                                      *)

\* Interest, losses, and the deposits and borrows of others.
BankMoves(share_value, tokens) ==
  /\ bank' = [bank EXCEPT !.asset_share_value = share_value]
  /\ liquidity' = tokens
  /\ UNCHANGED <<campaign, reward_vault, deposits, transfer_fee, now>>

\* lending_pool_setup_emissions for lenders.
SetupEmissions(rate) ==
  /\ ~bank.emissions_mint_set
  /\ bank' = [bank EXCEPT !.emissions_mint_set = TRUE, !.flags = {"LENDING_ACTIVE"},
                          !.emissions_rate = rate, !.emissions_remaining = 2 * ONE]
  /\ UNCHANGED <<campaign, reward_vault, deposits, liquidity, transfer_fee, now>>

\* The mint's authority changes the fee.
SetTransferFee(fee) ==
  /\ transfer_fee' = fee
  /\ UNCHANGED <<campaign, reward_vault, deposits, bank, liquidity, now>>

Tick ==
  /\ now < MaxTime
  /\ now' = now + 1
  /\ UNCHANGED <<campaign, reward_vault, deposits, bank, liquidity, transfer_fee>>

Next ==
  \/ \E lockup \in LockupPeriods, deps \in MaxDeposits, rewards \in MaxRewards :
       CreateCampaign(lockup, deps, rewards)
  \/ \E d \in DepositKeys : EndDeposit(d) \/ \E amount \in Amounts : CreateDeposit(d, amount)
  \/ \E share_value \in ShareValues, tokens \in Liquidities : BankMoves(share_value, tokens)
  \/ \E rate \in EmissionRates : SetupEmissions(rate)
  \/ \E fee \in TransferFees : SetTransferFee(fee)
  \/ Tick

Spec == Init /\ [][Next]_vars

-----------------------------------------------------------------------------
(* Properties.                                                             *)

Open == {d \in DepositKeys : deposits[d].status = "open"}

GuaranteedRewards == [d \in Open |-> MaxRewardForDeposit(deposits[d].amount)]

\* The reward vault covers the guaranteed reward of every open deposit at once,
\* and what may still be deposited: nobody's reward is used up by the ones who
\* leave earlier, in whatever order deposits come and go, and rounding
\* never makes the rewards of parts exceed the reward of the whole.
RewardsFunded ==
  campaign.active =>
    reward_vault >= SumFunction(GuaranteedRewards) + MaxRewardForDeposit(campaign.remaining_capacity)

\* The bank can pay a deposit back, and the mint takes no part of it.
BankPays(d) == /\ AssertOperationalMode(bank, FALSE)
               /\ IsPositiveWithTolerance(AssetAmount(Position(d)))
               /\ liquidity >= Withdrawn(d)
               /\ transfer_fee = 0

\* Once the lockup is over a deposit can be ended whenever the bank can pay it,
\* whatever happened to other deposits, to the share value and to the mint's
\* transfer fee in between, as long as its marginfi balance has not earned a token of emissions.
MaturedCanEnd ==
  \A d \in Open : /\ Matured(d) /\ BankPays(d)
                  /\ ClaimEmissions(Position(d), now).balance.emissions_outstanding < ONE
                  => ENABLED EndDeposit(d)

\* A depositor who ends a deposit gets the guaranteed reward on top of what was
\* deposited, or on top of what a loss left of it, and never less than the bank
\* paid; the campaign pays only what the bank did not.
GuaranteedYield ==
  [][\A d \in Open : deposits'[d].status = "ended" =>
       LET redeemed == liquidity - liquidity'
           reward   == reward_vault - reward_vault'
           amount   == deposits[d].amount
       IN  /\ redeemed + reward >= Least(redeemed, amount) + MaxRewardForDeposit(amount)
           /\ reward > 0 => redeemed + reward <= amount + MaxRewardForDeposit(amount)]_vars
=============================================================================
