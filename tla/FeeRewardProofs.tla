-------------------------- MODULE FeeRewardProofs --------------------------
(***************************************************************************)
(* Who gets paid.  First the liquidity incentive program, for any          *)
(* deposits, amounts, lockups, fees of the mint and share values of the    *)
(* bank: the reward vault covers the guaranteed rewards of all open        *)
(* deposits at once, and who ends a deposit gets the guaranteed reward.    *)
(* Then the fee state and the groups, for any keys, groups, fees and       *)
(* bounds: the copy in a group is a fee state that was in force, and every *)
(* wallet gets the flat fees that are due to it.                           *)
(***************************************************************************)
EXTENDS LiquidityIncentive, GroupAdmin, BalanceProofs

-----------------------------------------------------------------------------
(* The guaranteed reward of a deposit under a campaign c.                  *)

RewardOf(c, amount) ==
  FloorTokens(Mul(Div(amount * ONE, c.max_deposits * ONE), c.max_rewards * ONE))

CampaignRecords ==
  [active: {TRUE}, lockup_period: Nat, max_deposits: Nat \ {0}, remaining_capacity: Nat,
   max_rewards: Nat]

\* The share of a deposit in the campaign, and what a share is worth.
Part(c, amount) == Div(amount * ONE, c.max_deposits * ONE)
Worth(c, x) == FloorTokens(Mul(x, c.max_rewards * ONE))

\* A reward is a natural number.
LEMMA PartsNat ==
  ASSUME NEW c \in CampaignRecords, NEW a \in Nat, NEW x \in Nat
  PROVE  /\ Part(c, a) \in Nat /\ Worth(c, x) \in Nat
         /\ RewardOf(c, a) = Worth(c, Part(c, a)) /\ RewardOf(c, a) \in Nat
<1>1. ONE \in Nat \ {0} /\ c.max_deposits \in Nat \ {0} /\ c.max_rewards \in Nat
  BY OneAssumption DEF CampaignRecords
<1>2. a * ONE \in Nat /\ c.max_deposits * ONE \in Nat \ {0} /\ c.max_rewards * ONE \in Nat
  BY <1>1, NatProduct
<1>3. \A y \in Nat : Worth(c, y) \in Nat
  <2>1. \A y \in Nat : Mul(y, c.max_rewards * ONE) \in Nat  BY Zenon, <1>2, MulNat
  <2> QED BY <1>1, <2>1, DivBounds DEF Worth, FloorTokens
<1>4. Part(c, a) \in Nat  BY <1>2, DivNat DEF Part
<1> QED BY <1>3, <1>4 DEF RewardOf, Part, Worth

\* A larger share is worth no less, and two shares are together worth no
\* more than their sum.
LEMMA WorthParts ==
  ASSUME NEW c \in CampaignRecords, NEW x \in Nat, NEW y \in Nat
  PROVE  /\ x <= y => Worth(c, x) <= Worth(c, y)
         /\ Worth(c, x) + Worth(c, y) <= Worth(c, x + y)
<1> DEFINE r == c.max_rewards * ONE
           M(z) == (z * r) \div ONE
<1>1. ONE \in Nat \ {0} /\ r \in Nat  BY OneAssumption, NatProduct DEF CampaignRecords
<1> HIDE DEF r
<1>2. x * r \in Nat /\ y * r \in Nat /\ (x + y) * r = x * r + y * r  BY <1>1
<1>3. M(x) \in Nat /\ M(y) \in Nat /\ M(x + y) \in Nat
  BY <1>1, <1>2, DivBounds
<1>4. M(x) + M(y) <= M(x + y)  BY <1>1, <1>2, QuotientParts
<1>5. Worth(c, x) = M(x) \div ONE /\ Worth(c, y) = M(y) \div ONE /\ Worth(c, x + y) = M(x + y) \div ONE
  BY DEF Worth, FloorTokens, Mul, r
<1>6. x <= y => M(x) <= M(y)
  <2>1. SUFFICES ASSUME x <= y PROVE M(x) <= M(y)  OBVIOUS
  <2>2. PICK z \in Nat : y = x + z
    <3>1. y - x \in Nat /\ y = x + (y - x)  BY <2>1
    <3> QED BY <3>1
  <2>3. y * r = x * r + z * r /\ z * r \in Nat  BY <1>1, <2>2
  <2>4. x * r <= y * r  BY <1>2, <2>3
  <2> QED BY <1>1, <1>2, <2>4, QuotientOrder
<1> HIDE DEF M
<1>7. (M(x) \div ONE) + (M(y) \div ONE) <= (M(x) + M(y)) \div ONE
  BY <1>1, <1>3, QuotientParts
<1>8. (M(x) + M(y)) \div ONE <= M(x + y) \div ONE  BY <1>1, <1>3, <1>4, QuotientOrder
<1>9. /\ M(x) \div ONE \in Nat /\ M(y) \div ONE \in Nat /\ M(x + y) \div ONE \in Nat
      /\ (M(x) + M(y)) \div ONE \in Nat
  BY <1>1, <1>3, DivBounds
<1>10. x <= y => M(x) \div ONE <= M(y) \div ONE  BY <1>1, <1>3, <1>6, QuotientOrder
<1> QED BY <1>5, <1>7, <1>8, <1>9, <1>10

\* Rounding never makes the rewards of parts exceed the reward of the whole.
LEMMA RewardParts ==
  ASSUME NEW c \in CampaignRecords, NEW a \in Nat, NEW b \in Nat
  PROVE  RewardOf(c, a) + RewardOf(c, b) <= RewardOf(c, a + b)
<1> DEFINE m == c.max_deposits * ONE
           u == a * ONE * ONE
           v == b * ONE * ONE
<1>1. ONE \in Nat \ {0} /\ m \in Nat \ {0}  BY OneAssumption, NatProduct DEF CampaignRecords
<1>2. u \in Nat /\ v \in Nat /\ (a + b) * ONE * ONE = u + v
  <2>1. a * ONE \in Nat /\ b * ONE \in Nat /\ (a + b) * ONE = a * ONE + b * ONE  BY <1>1
  <2> QED BY <1>1, <2>1
<1>3. Part(c, a) = u \div m /\ Part(c, b) = v \div m /\ Part(c, a + b) = (u + v) \div m
  BY <1>2 DEF Part, Div
<1> HIDE DEF m, u, v
<1>4. Part(c, a) + Part(c, b) <= Part(c, a + b)  BY Zenon, <1>1, <1>2, <1>3, QuotientParts
<1>5. Part(c, a) \in Nat /\ Part(c, b) \in Nat /\ Part(c, a + b) \in Nat  BY PartsNat
<1>6. Worth(c, Part(c, a)) + Worth(c, Part(c, b)) <= Worth(c, Part(c, a) + Part(c, b))
  BY <1>5, WorthParts
<1>7. Worth(c, Part(c, a) + Part(c, b)) <= Worth(c, Part(c, a + b))  BY <1>4, <1>5, WorthParts
<1>8. /\ Worth(c, Part(c, a)) \in Nat /\ Worth(c, Part(c, b)) \in Nat
      /\ Worth(c, Part(c, a) + Part(c, b)) \in Nat /\ Worth(c, Part(c, a + b)) \in Nat
  BY <1>5, PartsNat
<1>9. /\ RewardOf(c, a) = Worth(c, Part(c, a)) /\ RewardOf(c, b) = Worth(c, Part(c, b))
      /\ RewardOf(c, a + b) = Worth(c, Part(c, a + b))
  BY DEF RewardOf, Worth, Part
<1> QED BY <1>6, <1>7, <1>8, <1>9

\* The whole capacity is worth at most what the campaign was funded with.
LEMMA WholeReward ==
  ASSUME NEW c \in CampaignRecords
  PROVE  RewardOf(c, c.max_deposits) <= c.max_rewards
<1> DEFINE m == c.max_deposits * ONE
           r == c.max_rewards * ONE
<1>1. ONE \in Nat \ {0} /\ m \in Nat \ {0} /\ r \in Nat /\ c.max_deposits \in Nat /\ c.max_rewards \in Nat
  BY OneAssumption, NatProduct DEF CampaignRecords
<1>2. Part(c, c.max_deposits) = (m * ONE) \div m  BY DEF Part, Div
<1>3. r = ONE * c.max_rewards  BY <1>1
<1>4. Worth(c, ONE) = ((ONE * r) \div ONE) \div ONE  BY DEF Worth, FloorTokens, Mul
<1> HIDE DEF m, r
<1>5. m * ONE \in Nat /\ ONE * r \in Nat  BY <1>1, NatProduct
<1>6. Part(c, c.max_deposits) <= ONE  BY <1>1, <1>2, <1>5, DivLeast
<1>7. (ONE * r) \div ONE <= r /\ (ONE * r) \div ONE \in Nat  BY <1>1, <1>5, DivLeast, DivBounds
<1>8. Worth(c, ONE) <= c.max_rewards
  <2>1. (ONE * r) \div ONE <= ONE * c.max_rewards  BY <1>3, <1>7
  <2> QED BY <1>1, <1>4, <1>7, <2>1, DivLeast
<1>9. /\ Part(c, c.max_deposits) \in Nat /\ Worth(c, ONE) \in Nat
      /\ RewardOf(c, c.max_deposits) = Worth(c, Part(c, c.max_deposits))
      /\ RewardOf(c, c.max_deposits) \in Nat
  BY <1>1, PartsNat
<1>10. Worth(c, Part(c, c.max_deposits)) <= Worth(c, ONE)  BY <1>1, <1>6, <1>9, WorthParts
<1> QED BY <1>1, <1>8, <1>9, <1>10
-----------------------------------------------------------------------------
(* The inductive invariant.                                                *)

DepositRecords == [status: {"new", "open", "ended"}, amount: Nat, start_time: Nat,
                   balance: BalanceRecords]

BalancesOf(ds) == [d \in DepositKeys |-> ds[d].balance]

\* The balances of the deposits are balances of the bank.
BankInv == \E e \in Nat : LedgerOK(DepositKeys, bank, BalancesOf(deposits), e, now)

CampaignInv ==
  /\ campaign = NoCampaign \/ campaign \in CampaignRecords
  /\ deposits \in [DepositKeys -> DepositRecords]
  /\ \A d \in DepositKeys : deposits[d].status = "new" => deposits[d].balance = EmptyDeactivated
  /\ campaign = NoCampaign => Open = {}
  /\ reward_vault \in Nat /\ liquidity \in Nat /\ transfer_fee \in Nat /\ now \in Nat

IncentiveInv == BankInv /\ CampaignInv /\ RewardsFunded

\* MaxRewardForDeposit reads the campaign; its terms never change.
LEMMA RewardsOfCampaign ==
  /\ \A a : MaxRewardForDeposit(a) = RewardOf(campaign, a)
  /\ \A a : MaxRewardForDeposit(a)' = RewardOf(campaign', a)
BY DEF MaxRewardForDeposit, RewardOf

\* An active campaign is a proper one.
LEMMA ActiveCampaign ==
  ASSUME CampaignInv
  PROVE  /\ campaign.active => campaign \in CampaignRecords
         /\ ~campaign.active => campaign = NoCampaign
         /\ Open # {} => campaign \in CampaignRecords
<1>1. campaign \in CampaignRecords => campaign.active = TRUE  BY Zenon DEF CampaignRecords
<1>2. campaign = NoCampaign => campaign.active = FALSE  BY DEF NoCampaign
<1> QED BY <1>1, <1>2 DEF CampaignInv

\* The open deposits are finitely many, and their rewards natural numbers.
LEMMA RewardsNat ==
  ASSUME CampaignInv
  PROVE  /\ IsFiniteSet(Open) /\ Open \subseteq DepositKeys
         /\ GuaranteedRewards \in [Open -> Nat]
         /\ \A d \in Open : GuaranteedRewards[d] = RewardOf(campaign, deposits[d].amount)
         /\ SumFunction(GuaranteedRewards) \in Nat
<1>1. Open \subseteq DepositKeys  BY DEF Open
<1>2. IsFiniteSet(Open)  BY <1>1, FS_Subset, IncentiveAssumption
<1>3. \A d \in Open : GuaranteedRewards[d] = RewardOf(campaign, deposits[d].amount)
  BY RewardsOfCampaign DEF GuaranteedRewards
<1>4. \A d \in Open : deposits[d].amount \in Nat /\ campaign \in CampaignRecords
  BY <1>1, ActiveCampaign DEF CampaignInv, DepositRecords
<1>5. \A d \in Open : RewardOf(campaign, deposits[d].amount) \in Nat  BY <1>4, PartsNat
<1>6. GuaranteedRewards \in [Open -> Nat]  BY <1>3, <1>5 DEF GuaranteedRewards
<1>7. SumFunction(GuaranteedRewards) \in Nat  BY <1>2, <1>6, SumNat
<1> QED BY <1>1, <1>2, <1>3, <1>6, <1>7

\* The balance of a deposit and its bank are a well-formed wrapper.
LEMMA PositionOK ==
  ASSUME BankInv, NEW d \in DepositKeys
  PROVE  WrapperOK(Position(d), now)
<1>1. PICK e \in Nat : LedgerOK(DepositKeys, bank, BalancesOf(deposits), e, now)  BY DEF BankInv
<1>2. IsFiniteSet(DepositKeys)  BY IncentiveAssumption
<1>3. WrapperOK([bank |-> bank, balance |-> BalancesOf(deposits)[d]], now)
  BY <1>1, <1>2, WrapOK
<1>4. BalancesOf(deposits)[d] = deposits[d].balance  BY DEF BalancesOf
<1> QED BY <1>3, <1>4 DEF Position

\* What a deposit pays out and what the campaign adds.
LEMMA PayoutNat ==
  ASSUME BankInv, CampaignInv, NEW d \in Open
  PROVE  LET max == RewardOf(campaign, deposits[d].amount)
         IN  /\ Withdrawn(d) \in Nat /\ max \in Nat /\ deposits[d].amount \in Nat
             /\ Reward(d) \in Nat /\ Reward(d) <= max
<1> DEFINE amount == deposits[d].amount
           max == RewardOf(campaign, amount)
<1>1. d \in DepositKeys /\ campaign \in CampaignRecords  BY ActiveCampaign DEF Open
<1>2. WrapperOK(Position(d), now) /\ now \in Nat /\ transfer_fee \in Nat
  BY <1>1, PositionOK DEF CampaignInv
<1>3. AssetAmount(Position(d)) \in Nat  BY <1>2, AmountsNat
<1>4. Withdrawn(d) \in Nat
  BY <1>3, DivBounds, OneAssumption DEF Withdrawn, WithdrawAllTokens, FloorTokens
<1>5. amount \in Nat  BY <1>1 DEF CampaignInv, DepositRecords
<1>6. max \in Nat  BY <1>1, <1>5, PartsNat
<1>7. Arrives(Withdrawn(d)) \in Nat  BY <1>2, <1>4 DEF Arrives, Greatest
<1>8. Reward(d) = Greatest(max - Greatest(Arrives(Withdrawn(d)) - amount, 0), 0)
  BY RewardsOfCampaign DEF Reward, AdditionalReward
<1> HIDE DEF amount, max
<1>9. Reward(d) \in Nat /\ Reward(d) <= max
  <2> DEFINE yield == Greatest(Arrives(Withdrawn(d)) - amount, 0)
  <2>1. yield \in Nat  BY <1>5, <1>7 DEF Greatest
  <2> HIDE DEF yield
  <2>2. Greatest(max - yield, 0) \in Nat /\ Greatest(max - yield, 0) <= max
    BY <1>6, <2>1 DEF Greatest
  <2> QED BY <1>8, <2>2 DEF yield
<1> QED BY <1>4, <1>5, <1>6, <1>9 DEF amount, max
-----------------------------------------------------------------------------
(* One lemma per action.                                                   *)

\* create_campaign: no deposit exists, and the vault holds max_rewards.
LEMMA CreateCampaignStep ==
  ASSUME IncentiveInv, NEW lockup \in LockupPeriods, NEW deps \in MaxDeposits,
         NEW rewards \in MaxRewards, CreateCampaign(lockup, deps, rewards)
  PROVE  IncentiveInv'
<1>1. /\ campaign = NoCampaign /\ UNCHANGED <<deposits, bank, liquidity, transfer_fee, now>>
      /\ reward_vault' = Arrives(rewards) /\ deps > 0
      /\ campaign' = [active |-> TRUE, lockup_period |-> lockup, max_deposits |-> deps,
                      remaining_capacity |-> deps, max_rewards |-> reward_vault']
  BY DEF CreateCampaign
<1>2. lockup \in Nat /\ deps \in Nat \ {0} /\ rewards \in Nat  BY <1>1, IncentiveAssumption
<1>3. reward_vault' \in Nat  BY <1>1, <1>2 DEF Arrives, Greatest, IncentiveInv, CampaignInv
<1>4. campaign' \in CampaignRecords /\ campaign'.max_rewards = reward_vault'
      /\ campaign'.remaining_capacity = campaign'.max_deposits
  BY <1>1, <1>2, <1>3 DEF CampaignRecords
<1>5. Open' = {} /\ Open = {}  BY <1>1 DEF IncentiveInv, CampaignInv, Open
<1>6. BankInv'  BY <1>1 DEF IncentiveInv, BankInv
<1>7. CampaignInv'
  BY <1>1, <1>3, <1>4, <1>5 DEF IncentiveInv, CampaignInv
<1>8. GuaranteedRewards' \in [{} -> Int]  BY <1>5 DEF GuaranteedRewards
<1>9. SumFunction(GuaranteedRewards') = 0  BY Zenon, <1>8, SumEmpty
<1>10. RewardOf(campaign', campaign'.max_deposits) <= campaign'.max_rewards
      /\ RewardOf(campaign', campaign'.max_deposits) \in Nat
  BY Zenon, <1>4, WholeReward, PartsNat DEF CampaignRecords
<1>11. MaxRewardForDeposit(campaign.remaining_capacity)' <= reward_vault'
       /\ MaxRewardForDeposit(campaign.remaining_capacity)' \in Nat
  BY <1>4, <1>10 DEF MaxRewardForDeposit, RewardOf
<1>12. RewardsFunded'  BY <1>3, <1>9, <1>11 DEF RewardsFunded
<1> QED BY <1>6, <1>7, <1>12 DEF IncentiveInv

\* Storing a wrapper of the bank and one deposit.
LEMMA StoreDeposit ==
  ASSUME BankInv, now \in Nat, now' = now, NEW d \in DepositKeys, NEW v, WrapperOK(v, now),
         Conserves(Position(d), v), bank' = v.bank,
         BalancesOf(deposits') = [BalancesOf(deposits) EXCEPT ![d] = v.balance]
  PROVE  BankInv'
<1>1. PICK e \in Nat : LedgerOK(DepositKeys, bank, BalancesOf(deposits), e, now)  BY DEF BankInv
<1>2. Position(d) = [bank |-> bank, balance |-> BalancesOf(deposits)[d]]  BY DEF Position, BalancesOf
<1>3. IsFiniteSet(DepositKeys)  BY IncentiveAssumption
<1>4. LedgerOK(DepositKeys, v.bank, [BalancesOf(deposits) EXCEPT ![d] = v.balance], e, now)
  <2>1. Conserves([bank |-> bank, balance |-> BalancesOf(deposits)[d]], v)  BY <1>2
  <2> QED BY Zenon, <1>1, <1>3, <2>1, StoreSame
<1>5. LedgerOK(DepositKeys, bank', BalancesOf(deposits'), e, now')  BY <1>4
<1>6. BalancesOf(deposits)' = BalancesOf(deposits')  BY DEF BalancesOf
<1> QED BY <1>1, <1>5, <1>6 DEF BankInv

\* create_deposit: the capacity it uses up is worth its guaranteed reward.
LEMMA CreateDepositStep ==
  ASSUME IncentiveInv, NEW d \in DepositKeys, NEW amount \in Amounts, CreateDeposit(d, amount)
  PROVE  IncentiveInv'
<1> DEFINE w == FindOrCreate(bank, EmptyDeactivated, now)
           x == IncreaseBalance(w, amount * ONE, now)
           dep == [status |-> "open", amount |-> amount, start_time |-> now, balance |-> x.balance]
<1>1. /\ deposits[d].status = "new" /\ campaign.active /\ campaign.remaining_capacity >= amount
      /\ bank' = x.bank /\ liquidity' = liquidity + amount
      /\ deposits' = [deposits EXCEPT ![d] = dep]
      /\ campaign' = [campaign EXCEPT !.remaining_capacity = campaign.remaining_capacity - amount]
      /\ UNCHANGED <<reward_vault, transfer_fee, now>>
  BY DEF CreateDeposit, CapacityFor, CapacityAfter
<1>2. amount \in Nat /\ amount * ONE \in Nat  BY IncentiveAssumption, NatProduct, OneAssumption
<1>3. /\ BankInv /\ CampaignInv /\ now \in Nat /\ deposits \in [DepositKeys -> DepositRecords]
      /\ deposits[d].balance = EmptyDeactivated /\ campaign \in CampaignRecords
  BY <1>1, ActiveCampaign DEF IncentiveInv, CampaignInv
<1>4. WrapperOK(Position(d), now) /\ w = FindOrCreate(Position(d).bank, Position(d).balance, now)
  BY <1>3, PositionOK DEF Position
<1>5. WrapperOK(w, now) /\ Conserves(Position(d), w)  BY <1>3, <1>4, FindOrCreateOK
<1>6. WrapperOK(x, now) /\ Conserves(w, x)  BY <1>2, <1>3, <1>5, IncreaseBalanceOK
<1>7. Conserves(Position(d), x)  BY <1>3, <1>4, <1>5, <1>6, ConservesTrans
<1> HIDE DEF w, x
<1>8. dep \in DepositRecords /\ dep.status = "open" /\ dep.amount = amount /\ dep.balance = x.balance
  BY <1>2, <1>3, <1>6 DEF DepositRecords, WrapperOK
<1> HIDE DEF dep
<1>9. /\ deposits' \in [DepositKeys -> DepositRecords] /\ deposits'[d] = dep
      /\ \A c \in DepositKeys : c # d => deposits'[c] = deposits[c]
  BY <1>1, <1>3, <1>8
<1>10. BalancesOf(deposits') = [BalancesOf(deposits) EXCEPT ![d] = x.balance]
  BY Zenon, <1>8, <1>9 DEF BalancesOf
<1>11. BankInv'  BY Zenon, <1>1, <1>3, <1>6, <1>7, <1>10, StoreDeposit
<1> DEFINE rest == campaign.remaining_capacity - amount
<1>12. /\ rest \in Nat /\ campaign.remaining_capacity = amount + rest
       /\ campaign' \in CampaignRecords /\ campaign'.remaining_capacity = rest
       /\ campaign'.max_deposits = campaign.max_deposits /\ campaign'.max_rewards = campaign.max_rewards
  <2>1. campaign.remaining_capacity \in Nat  BY <1>3 DEF CampaignRecords
  <2>2. rest \in Nat /\ campaign.remaining_capacity = amount + rest  BY <1>1, <1>2, <2>1
  <2>3. campaign' = [campaign EXCEPT !.remaining_capacity = rest]  BY <1>1
  <2> HIDE DEF rest
  <2> QED BY Zenon, <1>3, <2>2, <2>3 DEF CampaignRecords
<1>13. campaign' # NoCampaign
  <2>1. campaign'.active = TRUE  BY Zenon, <1>12 DEF CampaignRecords
  <2> QED BY <2>1 DEF NoCampaign
<1>14. CampaignInv'
  <2>1. \A c \in DepositKeys : deposits'[c].status = "new" => deposits'[c].balance = EmptyDeactivated
    BY <1>3, <1>8, <1>9 DEF CampaignInv
  <2>2. liquidity' \in Nat  BY <1>1, <1>2, <1>3 DEF CampaignInv
  <2> QED BY <1>1, <1>3, <1>9, <1>12, <1>13, <2>1, <2>2 DEF CampaignInv
<1>15. \A a : RewardOf(campaign', a) = RewardOf(campaign, a)  BY <1>12 DEF RewardOf
<1> DEFINE f == GuaranteedRewards
           g == GuaranteedRewards'
           m == RewardOf(campaign, amount)
           n == RewardOf(campaign, rest)
<1> HIDE DEF rest
<1>16. Open' = Open \cup {d} /\ d \notin Open
  BY <1>1, <1>8, <1>9 DEF Open
<1>17. g = [c \in Open \cup {d} |-> RewardOf(campaign, deposits'[c].amount)]
  BY <1>15, <1>16, RewardsOfCampaign DEF GuaranteedRewards
<1>18. IsFiniteSet(Open) /\ f \in [Open -> Nat] /\ SumFunction(f) \in Nat
       /\ \A c \in Open : f[c] = RewardOf(campaign, deposits[c].amount)
  BY <1>3, RewardsNat
<1>19. g[d] = m /\ m \in Nat /\ n \in Nat /\ m + n <= RewardOf(campaign, campaign.remaining_capacity)
       /\ RewardOf(campaign, campaign.remaining_capacity) \in Nat
  <2>1. g[d] = m  BY <1>8, <1>9, <1>17
  <2>2. m \in Nat /\ n \in Nat /\ RewardOf(campaign, campaign.remaining_capacity) \in Nat
    BY Zenon, <1>2, <1>3, <1>12, PartsNat DEF CampaignRecords
  <2>3. m + n <= RewardOf(campaign, amount + rest)  BY <1>2, <1>3, <1>12, RewardParts
  <2> QED BY <1>12, <2>1, <2>2, <2>3
<1>20. \A c \in Open : g[c] = f[c]
  <2>1. Open \subseteq DepositKeys  BY DEF Open
  <2> QED BY <1>9, <1>16, <1>17, <1>18, <2>1
<1> HIDE DEF f, g, m, n
<1>21. g \in [Open \cup {d} -> Int]  BY <1>17, <1>18, <1>19, <1>20
<1>22. Restrict(g, Open) = f  BY <1>18, <1>20, <1>21 DEF Restrict
<1>23. SumFunction(g) = g[d] + SumFunction(Restrict(g, Open))
  BY Zenon, <1>16, <1>18, <1>21, SumAdd
<1>24. SumFunction(g) = m + SumFunction(f)  BY <1>19, <1>22, <1>23
<1>25. reward_vault >= SumFunction(f) + RewardOf(campaign, campaign.remaining_capacity)
       /\ reward_vault \in Nat
  BY <1>1, <1>3, RewardsOfCampaign DEF IncentiveInv, RewardsFunded, CampaignInv, f
<1>26. reward_vault >= SumFunction(g) + n  BY <1>18, <1>19, <1>24, <1>25
<1>27. n = MaxRewardForDeposit(campaign.remaining_capacity)'
  <2>1. MaxRewardForDeposit(campaign.remaining_capacity)' = RewardOf(campaign', campaign'.remaining_capacity)
    BY DEF MaxRewardForDeposit, RewardOf
  <2> QED BY <1>12, <1>15, <2>1 DEF n
<1>28. RewardsFunded'  BY <1>1, <1>26, <1>27 DEF RewardsFunded, g
<1> QED BY <1>11, <1>14, <1>28 DEF IncentiveInv
\* end_deposit: its guaranteed reward covers what the campaign adds.
LEMMA EndDepositStep ==
  ASSUME IncentiveInv, NEW d \in DepositKeys, EndDeposit(d)
  PROVE  IncentiveInv'
<1> DEFINE v == WithdrawAll(Position(d), now)
<1>1. /\ deposits[d].status = "open" /\ liquidity >= Withdrawn(d) /\ reward_vault >= Reward(d)
      /\ bank' = v.bank /\ liquidity' = liquidity - Withdrawn(d)
      /\ reward_vault' = reward_vault - Reward(d)
      /\ deposits' = [deposits EXCEPT ![d].status = "ended", ![d].balance = EmptyDeactivated]
      /\ UNCHANGED <<campaign, transfer_fee, now>>
  BY DEF EndDeposit
<1>2. d \in Open /\ BankInv /\ CampaignInv /\ now \in Nat /\ campaign \in CampaignRecords
  BY <1>1, ActiveCampaign DEF Open, IncentiveInv, CampaignInv
<1>3. deposits \in [DepositKeys -> DepositRecords]  BY <1>2 DEF CampaignInv
<1>4. /\ deposits' \in [DepositKeys -> DepositRecords]
      /\ deposits'[d].status = "ended" /\ deposits'[d].balance = EmptyDeactivated
      /\ \A c \in DepositKeys : c # d => deposits'[c] = deposits[c]
  <2> DEFINE dep == [deposits[d] EXCEPT !.status = "ended", !.balance = EmptyDeactivated]
  <2>1. deposits' = [deposits EXCEPT ![d] = dep]  BY Zenon, <1>1, <1>3
  <2>2. EmptyDeactivated \in BalanceRecords  BY DEF EmptyDeactivated, BalanceRecords
  <2>3. dep \in DepositRecords /\ dep.status = "ended" /\ dep.balance = EmptyDeactivated
    BY Zenon, <1>3, <2>2 DEF DepositRecords
  <2> HIDE DEF dep
  <2> QED BY <1>3, <2>1, <2>3
<1>5. WrapperOK(v, now) /\ Conserves(Position(d), v)
  BY <1>2, PositionOK, WithdrawAllOK
<1>6. v.balance = EmptyDeactivated  BY DEF WithdrawAll
<1> HIDE DEF v
<1>7. BalancesOf(deposits') = [BalancesOf(deposits) EXCEPT ![d] = v.balance]
  BY Zenon, <1>4, <1>6 DEF BalancesOf
<1>8. BankInv'  BY Zenon, <1>1, <1>2, <1>5, <1>7, StoreDeposit
<1> DEFINE max == RewardOf(campaign, deposits[d].amount)
<1>9. Withdrawn(d) \in Nat /\ max \in Nat /\ Reward(d) \in Nat /\ Reward(d) <= max
  BY <1>2, PayoutNat
<1>10. reward_vault \in Nat /\ liquidity \in Nat  BY <1>2 DEF CampaignInv
<1>11. reward_vault' \in Nat /\ liquidity' \in Nat  BY <1>1, <1>9, <1>10
<1>12. Open' = Open \ {d}  BY <1>4 DEF Open
<1>13. CampaignInv'
  <2>1. \A c \in DepositKeys : deposits'[c].status = "new" => deposits'[c].balance = EmptyDeactivated
    BY <1>2, <1>4 DEF CampaignInv
  <2>2. campaign' = NoCampaign => Open' = {}  BY <1>1, <1>2, <1>12 DEF CampaignInv
  <2> QED BY <1>1, <1>2, <1>4, <1>11, <2>1, <2>2 DEF CampaignInv
<1> DEFINE f == GuaranteedRewards
           g == GuaranteedRewards'
           n == RewardOf(campaign, campaign.remaining_capacity)
<1>14. IsFiniteSet(Open) /\ f \in [Open -> Nat] /\ SumFunction(f) \in Nat
       /\ \A c \in Open : f[c] = RewardOf(campaign, deposits[c].amount)
  BY <1>2, RewardsNat
<1>15. g = [c \in Open \ {d} |-> RewardOf(campaign, deposits'[c].amount)]
  BY <1>1, <1>12, RewardsOfCampaign DEF GuaranteedRewards
<1>16. \A c \in Open \ {d} : g[c] = f[c]
  <2>1. Open \subseteq DepositKeys  BY DEF Open
  <2> QED BY <1>4, <1>14, <1>15, <2>1
<1>17. f[d] = max  BY <1>2, <1>14
<1>18. SumFunction(g) \in Nat
  <2>1. IsFiniteSet(Open \ {d})  BY <1>14, FS_Subset
  <2>2. g \in [Open \ {d} -> Nat]  BY <1>14, <1>15, <1>16
  <2> HIDE DEF g
  <2> QED BY <2>1, <2>2, SumNat
<1>19. n \in Nat  BY Zenon, <1>2, PartsNat DEF CampaignRecords
<1>20. reward_vault >= SumFunction(f) + n
  BY Zenon, <1>2, RewardsOfCampaign, ActiveCampaign DEF IncentiveInv, RewardsFunded, CampaignRecords
<1> HIDE DEF f, g, max, n
<1>21. Restrict(f, Open \ {d}) = g
  BY <1>14, <1>15, <1>16 DEF Restrict
<1>22. SumFunction(f) = f[d] + SumFunction(Restrict(f, Open \ {d}))
  BY <1>2, <1>14, SumRemove
<1>23. SumFunction(f) = max + SumFunction(g)  BY <1>17, <1>21, <1>22
<1>24. reward_vault' >= SumFunction(g) + n
  BY <1>1, <1>9, <1>10, <1>18, <1>19, <1>20, <1>23
<1>25. n = MaxRewardForDeposit(campaign.remaining_capacity)'
  BY <1>1 DEF MaxRewardForDeposit, RewardOf, n
<1>26. RewardsFunded'  BY <1>24, <1>25 DEF RewardsFunded, g
<1> QED BY <1>8, <1>13, <1>26 DEF IncentiveInv

\* Steps that leave the campaign and its deposits alone.
LEMMA OutsideStep ==
  ASSUME IncentiveInv, UNCHANGED <<campaign, reward_vault, deposits>>,
         liquidity' \in Nat, transfer_fee' \in Nat, now' \in Nat, now <= now',
         bank' \in BankRecords, bank'.total_asset_shares = bank.total_asset_shares,
         bank'.total_liability_shares = bank.total_liability_shares,
         bank'.last_update = bank.last_update
  PROVE  IncentiveInv'
<1>1. PICK e \in Nat : LedgerOK(DepositKeys, bank, BalancesOf(deposits), e, now)
  BY DEF IncentiveInv, BankInv
<1>2. IsFiniteSet(DepositKeys) /\ now \in Nat  BY IncentiveAssumption DEF IncentiveInv, CampaignInv
<1>3. bank \in BankRecords /\ bank.last_update <= now  BY <1>1 DEF LedgerOK
<1>4. bank'.emissions_remaining \in Nat /\ bank.emissions_remaining \in Nat /\ bank.last_update \in Nat
  BY <1>3 DEF BankRecords
<1> DEFINE f == e + bank'.emissions_remaining
<1>5. f \in Nat /\ bank'.emissions_remaining + e <= bank.emissions_remaining + f
      /\ bank'.last_update <= now'
  BY <1>2, <1>3, <1>4
<1> HIDE DEF f
<1>6. LedgerOK(DepositKeys, bank', BalancesOf(deposits), f, now')
  BY <1>1, <1>2, <1>5, ChangeBankOK
<1>7. BalancesOf(deposits)' = BalancesOf(deposits)  BY DEF BalancesOf
<1>8. BankInv'  BY <1>5, <1>6, <1>7 DEF BankInv
<1>9. CampaignInv'  BY DEF IncentiveInv, CampaignInv, Open
<1>10. RewardsFunded'
  BY DEF IncentiveInv, RewardsFunded, GuaranteedRewards, Open, MaxRewardForDeposit
<1> QED BY <1>8, <1>9, <1>10 DEF IncentiveInv

\* Every step keeps the invariant.
LEMMA IncentiveStep == IncentiveInv /\ [Next]_vars => IncentiveInv'
<1> SUFFICES ASSUME IncentiveInv, [Next]_vars PROVE IncentiveInv'  OBVIOUS
<1>1. /\ bank \in BankRecords /\ now \in Nat /\ liquidity \in Nat /\ transfer_fee \in Nat
  BY DEF IncentiveInv, BankInv, CampaignInv, LedgerOK
<1>2. ASSUME NEW lockup \in LockupPeriods, NEW deps \in MaxDeposits, NEW rewards \in MaxRewards,
             CreateCampaign(lockup, deps, rewards)
      PROVE  IncentiveInv'
  BY <1>2, CreateCampaignStep
<1>3. ASSUME NEW d \in DepositKeys, EndDeposit(d) PROVE IncentiveInv'
  BY <1>3, EndDepositStep
<1>4. ASSUME NEW d \in DepositKeys, NEW amount \in Amounts, CreateDeposit(d, amount)
      PROVE  IncentiveInv'
  BY <1>4, CreateDepositStep
<1>5. ASSUME NEW share_value \in ShareValues, NEW tokens \in Liquidities, BankMoves(share_value, tokens)
      PROVE  IncentiveInv'
  <2>1. share_value \in Nat \ {0} /\ tokens \in Nat  BY IncentiveAssumption
  <2>2. /\ bank' \in BankRecords /\ bank'.total_asset_shares = bank.total_asset_shares
        /\ bank'.total_liability_shares = bank.total_liability_shares
        /\ bank'.last_update = bank.last_update
    BY <1>1, <1>5, <2>1 DEF BankMoves, BankRecords
  <2>3. /\ UNCHANGED <<campaign, reward_vault, deposits>>
        /\ liquidity' \in Nat /\ transfer_fee' \in Nat /\ now' \in Nat /\ now <= now'
    BY <1>1, <1>5, <2>1 DEF BankMoves
  <2> QED BY <2>2, <2>3, OutsideStep
<1>6. ASSUME NEW rate \in EmissionRates, SetupEmissions(rate) PROVE IncentiveInv'
  <2>1. rate \in Nat /\ 2 * ONE \in Nat /\ {"LENDING_ACTIVE"} \in SUBSET BankFlags
    BY IncentiveAssumption, OneAssumption DEF BankFlags, EmissionFlags
  <2> DEFINE total == 2 * ONE
  <2>2. bank' = [bank EXCEPT !.emissions_mint_set = TRUE, !.flags = {"LENDING_ACTIVE"},
                             !.emissions_rate = rate, !.emissions_remaining = total]
    BY <1>6 DEF SetupEmissions
  <2>3. total \in Nat  BY <2>1
  <2> HIDE DEF total
  <2>4. /\ bank' \in BankRecords /\ bank'.total_asset_shares = bank.total_asset_shares
        /\ bank'.total_liability_shares = bank.total_liability_shares
        /\ bank'.last_update = bank.last_update
    BY Zenon, <1>1, <2>1, <2>2, <2>3 DEF BankRecords
  <2>5. /\ UNCHANGED <<campaign, reward_vault, deposits>>
        /\ liquidity' \in Nat /\ transfer_fee' \in Nat /\ now' \in Nat /\ now <= now'
    BY <1>1, <1>6 DEF SetupEmissions
  <2> QED BY <2>4, <2>5, OutsideStep
<1>7. ASSUME NEW fee \in TransferFees, SetTransferFee(fee) PROVE IncentiveInv'
  <2>1. /\ UNCHANGED <<campaign, reward_vault, deposits, bank>>
        /\ liquidity' \in Nat /\ transfer_fee' \in Nat /\ now' \in Nat /\ now <= now'
    BY <1>1, <1>7, IncentiveAssumption DEF SetTransferFee
  <2> QED BY <1>1, <2>1, OutsideStep
<1>8. CASE Tick
  <2>1. /\ UNCHANGED <<campaign, reward_vault, deposits, bank>>
        /\ liquidity' \in Nat /\ transfer_fee' \in Nat /\ now' \in Nat /\ now <= now'
    BY <1>1, <1>8 DEF Tick
  <2> QED BY <1>1, <2>1, OutsideStep
<1>9. CASE UNCHANGED vars
  <2>1. /\ UNCHANGED <<campaign, reward_vault, deposits, bank>>
        /\ liquidity' \in Nat /\ transfer_fee' \in Nat /\ now' \in Nat /\ now <= now'
    BY <1>1, <1>9 DEF vars
  <2> QED BY <1>1, <2>1, OutsideStep
<1> QED BY <1>2, <1>3, <1>4, <1>5, <1>6, <1>7, <1>8, <1>9 DEF Next

\* No campaign, no deposits, a bank without shares.
LEMMA IncentiveStart == Init => IncentiveInv
<1> SUFFICES ASSUME Init PROVE IncentiveInv  OBVIOUS
<1>1. PICK config \in BankConfigOf : bank = BankNew(config, 0)  BY DEF Init
<1>2. bank \in BankRecords /\ bank.total_asset_shares = 0 /\ bank.total_liability_shares = 0
      /\ bank.emissions_remaining = 0 /\ bank.last_update = 0
  BY <1>1, IncentiveAssumption, OneAssumption DEF BankNew, BankRecords
<1>3. EmptyDeactivated \in BalanceRecords /\ SideAsserted(EmptyDeactivated)
      /\ EmptyDeactivated.last_update = 0 /\ EmptyDeactivated.asset_shares = 0
      /\ EmptyDeactivated.liability_shares = 0 /\ EmptyDeactivated.emissions_outstanding = 0
  BY OneAssumption DEF EmptyDeactivated, BalanceRecords, SideAsserted, EMPTY_BALANCE_THRESHOLD
<1>4. deposits \in [DepositKeys -> DepositRecords]
      /\ \A d \in DepositKeys : deposits[d].status = "new" /\ deposits[d].balance = EmptyDeactivated
  BY <1>3 DEF Init, NewDeposit, DepositRecords
<1> DEFINE bs == BalancesOf(deposits)
<1>5. bs \in [DepositKeys -> BalanceRecords] /\ \A d \in DepositKeys : bs[d] = EmptyDeactivated
  BY <1>3, <1>4 DEF BalancesOf
<1> HIDE DEF bs
<1>6. IsFiniteSet(DepositKeys) /\ now = 0  BY IncentiveAssumption DEF Init
<1>7. SumFunction(AssetsOf(bs)) = 0 /\ SumFunction(LiabilitiesOf(bs)) = 0
      /\ SumFunction(EmissionsOf(bs)) = 0
  <2>1. \A d \in DepositKeys : AssetsOf(bs)[d] = 0 /\ LiabilitiesOf(bs)[d] = 0 /\ EmissionsOf(bs)[d] = 0
    BY <1>3, <1>5 DEF AssetsOf, LiabilitiesOf, EmissionsOf
  <2> QED BY <1>5, <1>6, <2>1, SummandsNat, SumZero
<1>8. LedgerOK(DepositKeys, bank, bs, 0, now)
  BY <1>2, <1>3, <1>5, <1>6, <1>7 DEF LedgerOK
<1>9. BankInv  BY <1>8 DEF BankInv, bs
<1>10. CampaignInv
  BY <1>4, IncentiveAssumption DEF Init, CampaignInv, Open
<1>11. RewardsFunded  BY DEF Init, RewardsFunded, NoCampaign
<1> QED BY <1>9, <1>10, <1>11 DEF IncentiveInv

\* end_deposit pays the owner the reward, or more if the bank alone did.
LEMMA EndDepositYield ==
  ASSUME BankInv, CampaignInv, NEW d \in Open, EndDeposit(d)
  PROVE  LET redeemed == liquidity - liquidity'
             reward   == reward_vault - reward_vault'
             amount   == deposits[d].amount
         IN  /\ redeemed + reward >= Least(redeemed, amount) + MaxRewardForDeposit(amount)
             /\ reward > 0 => redeemed + reward <= amount + MaxRewardForDeposit(amount)
<1> DEFINE redeemed == Withdrawn(d)
           amount == deposits[d].amount
           max == RewardOf(campaign, amount)
           reward == Reward(d)
<1>1. /\ redeemed \in Nat /\ max \in Nat /\ amount \in Nat /\ reward \in Nat
  BY PayoutNat
<1>2. max = MaxRewardForDeposit(amount)  BY RewardsOfCampaign
<1>3. reward = Greatest(max - Greatest(redeemed - amount, 0), 0)
  BY <1>2 DEF EndDeposit, Closable, Reward, AdditionalReward
<1>4. liquidity \in Nat /\ reward_vault \in Nat  BY DEF CampaignInv
<1>5. liquidity' = liquidity - redeemed /\ reward_vault' = reward_vault - reward
  BY DEF EndDeposit
<1> HIDE DEF redeemed, amount, max, reward
<1>6. liquidity - liquidity' = redeemed /\ reward_vault - reward_vault' = reward
  BY <1>1, <1>4, <1>5
<1>7. /\ redeemed + reward >= Least(redeemed, amount) + max
      /\ reward > 0 => redeemed + reward <= amount + max
  BY <1>1, <1>3 DEF Greatest, Least
<1> QED BY <1>2, <1>6, <1>7 DEF amount

-----------------------------------------------------------------------------
(* Theorems.                                                               *)

\* The accounts of campaign, deposits and bank keep their types, the balances
\* of the deposits are covered by the bank's totals, and the rewards are funded.
THEOREM IncentiveInvariant == Spec => []IncentiveInv
<1> QED BY IncentiveStart, IncentiveStep, PTL DEF Spec

\* The vault that create_campaign funds once covers the guaranteed rewards of
\* all open deposits and of those that may still come, in whatever order
\* create_deposit and end_deposit are called: rounding takes nobody's reward.
THEOREM RewardsAlwaysFunded == Spec => []RewardsFunded
<1>1. IncentiveInv => RewardsFunded  BY DEF IncentiveInv
<1> QED BY <1>1, IncentiveInvariant, PTL

\* A depositor who ends a deposit gets the guaranteed reward on top of what was
\* deposited, or of what a loss left of it, and the campaign never pays what the
\* bank already did: for every lockup, share value and transfer fee in between.
THEOREM YieldAlwaysGuaranteed == Spec => GuaranteedYield
<1> DEFINE Yield(d) ==
      LET redeemed == liquidity - liquidity'
          reward   == reward_vault - reward_vault'
          amount   == deposits[d].amount
      IN  /\ redeemed + reward >= Least(redeemed, amount) + MaxRewardForDeposit(amount)
          /\ reward > 0 => redeemed + reward <= amount + MaxRewardForDeposit(amount)
<1>1. IncentiveInv /\ [Next]_vars => [\A d \in Open : deposits'[d].status = "ended" => Yield(d)]_vars
  <2> SUFFICES ASSUME IncentiveInv, Next, NEW d \in Open, deposits'[d].status = "ended"
               PROVE  Yield(d)
    OBVIOUS
  <2>1. BankInv /\ CampaignInv  BY DEF IncentiveInv
  <2>2. d \in DepositKeys /\ deposits[d].status = "open"  BY DEF Open
  <2>3. deposits \in [DepositKeys -> DepositRecords]  BY <2>1 DEF CampaignInv
  <2>4. ASSUME NEW c \in DepositKeys, NEW amount \in Amounts, CreateDeposit(c, amount) PROVE FALSE
    <3>1. deposits[c].status = "new"  BY <2>4 DEF CreateDeposit
    <3>2. deposits'[d] = deposits[d]  BY <2>2, <2>3, <2>4, <3>1 DEF CreateDeposit
    <3> QED BY <2>2, <3>2
  <2>5. ASSUME deposits' = deposits PROVE FALSE  BY <2>2, <2>5
  <2>6. ASSUME NEW c \in DepositKeys, EndDeposit(c) PROVE c = d
    BY <2>2, <2>3, <2>6 DEF EndDeposit
  <2>7. PICK c \in DepositKeys : EndDeposit(c)
    BY Zenon, <2>4, <2>5 DEF Next, CreateCampaign, BankMoves, SetupEmissions, SetTransferFee, Tick
  <2>8. EndDeposit(d)  BY <2>6, <2>7
  <2> QED BY <2>1, <2>8, EndDepositYield
<1> QED BY <1>1, IncentiveInvariant, PTL DEF Spec, GuaranteedYield

-----------------------------------------------------------------------------
(* Fee state and groups.                                                   *)

\* The history ends with the fee state, and begins with its account.
HistoryInv ==
  /\ fee_state.exists => history # << >> /\ fee_state = history[Len(history)]
  /\ ~fee_state.exists => history = << >>

\* Every bank was created under one of the fee states.
BanksInv == IsFiniteSet(banks) /\ \A b \in banks : b.created \in 1 .. Len(history)

AdminInv ==
  /\ AdminTypeOK /\ HistoryInv /\ CacheWasInForce
  /\ BanksInv /\ WalletsReceiveTheirFees

-----------------------------------------------------------------------------
\* A fee state that exists is a proper one, and so is a group.
LEMMA ExistsIsRecord ==
  ASSUME AdminTypeOK
  PROVE  /\ fee_state.exists \in BOOLEAN
         /\ fee_state.exists => fee_state \in FeeStates
         /\ ~fee_state.exists => fee_state = NoFeeState
         /\ \A g \in Groups : groups[g].exists => groups[g] \in GroupRecords
<1>1. fee_state \in FeeStates => fee_state.exists = TRUE
  BY Zenon DEF FeeStates
<1>2. fee_state = NoFeeState => fee_state.exists = FALSE
  BY DEF NoFeeState
<1>3. \A g \in Groups : groups[g] \in GroupRecords \/ groups[g].exists = FALSE
  BY DEF AdminTypeOK, NoGroup
<1>. QED
  BY Zenon, <1>1, <1>2, <1>3 DEF AdminTypeOK

\* What init_fee_state and edit_fee_state write is added to the history; no
\* copy in a group changes.
LEMMA FeeStateStep ==
  ASSUME AdminInv, NEW signer \in Keys, NEW wallet \in Keys, NEW flat \in FlatFees, NEW fees \in Fees,
         \/ InitializeFeeState(signer, wallet, flat, fees)
         \/ EditFeeState(signer, wallet, flat, fees)
  PROVE  AdminInv'
<1>1. UNCHANGED <<groups, banks, lamports>>
  BY DEF InitializeFeeState, EditFeeState
<1>2. fee_state' \in FeeStates /\ fee_state'.exists
  <2>1. CASE InitializeFeeState(signer, wallet, flat, fees)
    BY <2>1 DEF InitializeFeeState, FeeStates
  <2>2. CASE EditFeeState(signer, wallet, flat, fees)
    BY Zenon, <2>2, ExistsIsRecord DEF EditFeeState, AdminInv, FeeStates
  <2>. QED
    BY <2>1, <2>2
<1>3. history \in Seq(FeeStates) /\ history' = Append(history, fee_state')
  <2>1. CASE InitializeFeeState(signer, wallet, flat, fees)
    <3>1. ~fee_state.exists /\ history' = << fee_state' >>
      BY <2>1 DEF InitializeFeeState, NoFeeState
    <3>2. history = << >>
      BY <3>1 DEF AdminInv, HistoryInv
    <3>. QED
      BY <3>1, <3>2 DEF AdminInv, AdminTypeOK
  <2>2. CASE EditFeeState(signer, wallet, flat, fees)
    BY <2>2 DEF EditFeeState, AdminInv, AdminTypeOK
  <2>. QED
    BY <2>1, <2>2
<1>4. /\ history' \in Seq(FeeStates) /\ history' # << >> /\ fee_state' = history'[Len(history')]
      /\ Len(history) \in Nat /\ Len(history') = Len(history) + 1
      /\ \A i \in 1 .. Len(history) : history'[i] = history[i]
  BY <1>2, <1>3
<1>5. AdminTypeOK'
  BY <1>1, <1>2, <1>4 DEF AdminInv, AdminTypeOK
<1>6. HistoryInv'
  BY <1>2, <1>4 DEF HistoryInv
<1>7. CacheWasInForce'
  <2>1. SUFFICES ASSUME NEW g \in Groups, groups[g].exists
                 PROVE  \E i \in 1 .. Len(history') : groups[g].cache = CacheOf(history'[i])
    BY Zenon, <1>1 DEF CacheWasInForce, CacheOf
  <2>2. PICK i \in 1 .. Len(history) : groups[g].cache = CacheOf(history[i])
    BY <2>1 DEF AdminInv, CacheWasInForce
  <2>3. i \in 1 .. Len(history') /\ history'[i] = history[i]
    BY <1>4
  <2>. QED
    BY Zenon, <2>2, <2>3
<1>8. BanksInv'
  BY <1>1, <1>4 DEF AdminInv, BanksInv
<1>9. WalletsReceiveTheirFees'
  <2>1. \A b \in banks : history'[b.created] = history[b.created]
    BY <1>4 DEF AdminInv, BanksInv
  <2>2. \A k \in Keys : FlatFeesPaidTo(k)' = FlatFeesPaidTo(k)
    BY <1>1, <2>1 DEF FlatFeesPaidTo, PaidTo
  <2>. QED
    BY <1>1, <2>2 DEF AdminInv, WalletsReceiveTheirFees
<1>. QED
  BY <1>5, <1>6, <1>7, <1>8, <1>9 DEF AdminInv

\* The instructions that write a group either leave its copy alone or replace
\* it as a whole by the fee state in force.
LEMMA GroupStep ==
  ASSUME AdminInv, UNCHANGED <<fee_state, banks, lamports, history>>,
         NEW g \in Groups, NEW new \in GroupRecords, groups' = [groups EXCEPT ![g] = new],
         \/ groups[g].exists /\ new.cache = groups[g].cache
         \/ fee_state.exists /\ new.cache = CacheOf(fee_state)
  PROVE  AdminInv'
<1>1. groups' \in [Groups -> GroupRecords \cup {NoGroup}] /\ groups'[g] = new
  BY DEF AdminInv, AdminTypeOK
<1>2. AdminTypeOK' /\ HistoryInv'
  BY <1>1 DEF AdminInv, AdminTypeOK, HistoryInv
<1>3. \E i \in 1 .. Len(history) : new.cache = CacheOf(history[i])
  <2>1. CASE groups[g].exists /\ new.cache = groups[g].cache
    BY <2>1 DEF AdminInv, CacheWasInForce
  <2>2. CASE fee_state.exists /\ new.cache = CacheOf(fee_state)
    <3>1. Len(history) \in 1 .. Len(history) /\ fee_state = history[Len(history)]
      BY <2>2 DEF AdminInv, HistoryInv, AdminTypeOK
    <3>. QED
      BY <2>2, <3>1
  <2>. QED
    BY <2>1, <2>2
<1>4. CacheWasInForce'
  <2>1. SUFFICES ASSUME NEW h \in Groups, groups'[h].exists
                 PROVE  \E i \in 1 .. Len(history) : groups'[h].cache = CacheOf(history[i])
    BY DEF CacheWasInForce, CacheOf
  <2>2. CASE h = g
    BY <1>1, <1>3, <2>2
  <2>3. CASE h # g
    <3>1. groups'[h] = groups[h]
      BY <2>3 DEF AdminInv, AdminTypeOK
    <3>. QED
      BY <2>1, <3>1 DEF AdminInv, CacheWasInForce
  <2>. QED
    BY <2>2, <2>3
<1>5. BanksInv' /\ WalletsReceiveTheirFees'
  BY Zenon DEF AdminInv, BanksInv, WalletsReceiveTheirFees, FlatFeesPaidTo, PaidTo
<1>. QED
  BY <1>2, <1>4, <1>5 DEF AdminInv

\* The flat fees paid to a wallet are natural numbers.
LEMMA FlatFeesNat ==
  ASSUME AdminInv, NEW k \in Keys
  PROVE  /\ IsFiniteSet(PaidTo(k))
         /\ FlatFeesPaidTo(k) \in [PaidTo(k) -> Int]
<1>1. PaidTo(k) \subseteq banks /\ IsFiniteSet(banks)
  BY DEF PaidTo, AdminInv, BanksInv
<1>2. \A b \in banks : history[b.created] \in FeeStates
  BY DEF AdminInv, BanksInv, AdminTypeOK
<1>3. \A fs \in FeeStates : fs.bank_init_flat_sol_fee \in Nat
  BY Zenon, AdminAssumption DEF FeeStates
<1>. QED
  BY <1>1, <1>2, <1>3, FS_Subset DEF FlatFeesPaidTo

\* A new bank pays its flat fee and changes no fee state and no copy.
LEMMA AddBankStep ==
  ASSUME AdminInv, NEW g \in Groups, NEW signer \in Keys,
         NEW key \in BankKeys \cup (Groups \X Mints \X Seeds), AddBankAt(g, signer, key)
  PROVE  AdminInv'
<1>1. UNCHANGED <<fee_state, groups, history>>
  BY DEF AddBankAt
<1>2. fee_state \in FeeStates
  BY ExistsIsRecord DEF AddBankAt, AdminInv
<1>3. /\ fee_state.bank_init_flat_sol_fee \in Nat
      /\ lamports[Payers] >= fee_state.bank_init_flat_sol_fee
      /\ lamports' = [lamports EXCEPT ![Payers] = @ - fee_state.bank_init_flat_sol_fee,
                        ![fee_state.global_fee_wallet] = @ + fee_state.bank_init_flat_sol_fee]
  BY Zenon, <1>2, AdminAssumption DEF AddBankAt, PayFlatFee, FeeStates
<1>4. lamports' \in [Keys \cup {Payers} -> Nat]
  <2> DEFINE wallet == fee_state.global_fee_wallet
             flat == fee_state.bank_init_flat_sol_fee
  <2>1. lamports \in [Keys \cup {Payers} -> Nat] /\ wallet \in Keys
    BY <1>2 DEF AdminInv, AdminTypeOK, FeeStates
  <2>2. lamports[Payers] - flat \in Nat
    BY <1>3, <2>1
  <2>3. lamports[wallet] + flat \in Nat /\ wallet # Payers
    BY <1>3, <2>1, AdminAssumption
  <2>. QED
    BY <1>3, <2>1, <2>2, <2>3
<1> DEFINE nb == [key |-> key, group |-> g, created |-> Len(history)]
<1>5. banks' \in SUBSET BankAccounts
  <2>1. banks \in SUBSET BankAccounts /\ Len(history) \in Nat
    BY DEF AdminInv, AdminTypeOK
  <2>2. nb \in BankAccounts
    BY <2>1 DEF BankAccounts
  <2>3. banks' = banks \cup {nb}
    BY DEF AddBankAt
  <2> HIDE DEF nb
  <2>. QED
    BY <2>1, <2>2, <2>3
<1>6. AdminTypeOK'
  BY <1>1, <1>4, <1>5 DEF AdminInv, AdminTypeOK
<1>7. HistoryInv' /\ CacheWasInForce'
  BY Zenon, <1>1 DEF AdminInv, HistoryInv, CacheWasInForce, CacheOf
<1> DEFINE wallet == fee_state.global_fee_wallet
           flat == fee_state.bank_init_flat_sol_fee
<1>8. /\ banks' = banks \cup {nb} /\ nb \notin banks /\ nb.created = Len(history)
      /\ Len(history) \in 1 .. Len(history) /\ history[nb.created] = fee_state
  <2>1. banks' = banks \cup {nb} /\ \A b \in banks : b.key # key
    BY DEF AddBankAt
  <2>2. nb.created = Len(history) /\ nb.key = key
    OBVIOUS
  <2>3. fee_state.exists
    BY DEF AddBankAt
  <2>4. history # << >> /\ fee_state = history[Len(history)] /\ history \in Seq(FeeStates)
    BY <2>3 DEF AdminInv, HistoryInv, AdminTypeOK
  <2>5. Len(history) \in 1 .. Len(history)
    BY <2>4
  <2> HIDE DEF nb
  <2>. QED
    BY <2>1, <2>2, <2>4, <2>5
<1>9. BanksInv'
  BY Zenon, <1>1, <1>8, FS_AddElement DEF AdminInv, BanksInv
<1>10. /\ wallet \in Keys /\ lamports'[wallet] = lamports[wallet] + flat /\ flat \in Nat
       /\ \A k \in Keys : k # wallet => lamports'[k] = lamports[k]
  <2>1. lamports \in [Keys \cup {Payers} -> Nat] /\ wallet \in Keys /\ wallet # Payers
    BY <1>2, AdminAssumption DEF AdminInv, AdminTypeOK, FeeStates
  <2>. QED
    BY <1>3, <2>1, AdminAssumption
<1> HIDE DEF nb, wallet, flat
<1>11. WalletsReceiveTheirFees'
  <2>1. SUFFICES ASSUME NEW k \in Keys PROVE lamports'[k] = SumFunction(FlatFeesPaidTo(k)')
    BY DEF WalletsReceiveTheirFees
  <2>2. lamports[k] = SumFunction(FlatFeesPaidTo(k)) /\ lamports[k] \in Nat
    BY DEF AdminInv, WalletsReceiveTheirFees, AdminTypeOK
  <2>3. CASE k # wallet
    <3>1. PaidTo(k)' = PaidTo(k)
      BY <1>1, <1>8, <2>3 DEF PaidTo, wallet
    <3>2. FlatFeesPaidTo(k)' = FlatFeesPaidTo(k)
      BY <1>1, <3>1 DEF FlatFeesPaidTo
    <3>. QED
      BY <1>10, <2>2, <2>3, <3>2
  <2>4. CASE k = wallet
    <3> DEFINE S == PaidTo(k)
               f == FlatFeesPaidTo(k)
               h == FlatFeesPaidTo(k)'
    <3>1. PaidTo(k)' = S \cup {nb} /\ nb \notin S
      BY <1>1, <1>8, <2>4 DEF PaidTo, wallet
    <3>2. h = [b \in S \cup {nb} |-> history[b.created].bank_init_flat_sol_fee]
      BY <1>1, <3>1 DEF FlatFeesPaidTo
    <3>3. IsFiniteSet(S) /\ f \in [S -> Int] /\ f = [b \in S |-> history[b.created].bank_init_flat_sol_fee]
      BY FlatFeesNat DEF FlatFeesPaidTo
    <3>4. h[nb] = flat
      BY <1>8, <3>2 DEF flat
    <3>5. \A b \in S : h[b] = f[b]
      BY <3>2, <3>3
    <3>6. h \in [S \cup {nb} -> Int]
      BY <1>10, <3>2, <3>3, <3>4, <3>5
    <3>7. Restrict(h, S) = f
      <4> HIDE DEF S, f, h
      <4> QED BY <3>3, <3>5, <3>6 DEF Restrict
    <3> HIDE DEF S, f, h
    <3>8. SumFunction(h) = h[nb] + SumFunction(Restrict(h, S))
      BY Zenon, <3>1, <3>3, <3>6, SumAdd
    <3>9. SumFunction(h) = flat + SumFunction(f)
      BY <3>4, <3>7, <3>8
    <3>. QED
      BY <1>10, <2>2, <2>4, <3>9 DEF f, h
  <2>. QED
    BY <2>3, <2>4
<1>. QED
  BY <1>6, <1>7, <1>9, <1>11 DEF AdminInv

-----------------------------------------------------------------------------
\* Every instruction on fee states, groups and banks keeps the invariant.
LEMMA AdminStep == AdminInv /\ [AdminNext]_admin_vars => AdminInv'
<1> SUFFICES ASSUME AdminInv, [AdminNext]_admin_vars PROVE AdminInv'
  OBVIOUS
<1>1. CASE \E signer, wallet \in Keys, flat \in FlatFees, fees \in Fees :
             InitializeFeeState(signer, wallet, flat, fees) \/ EditFeeState(signer, wallet, flat, fees)
  BY <1>1, FeeStateStep
<1>2. ASSUME NEW g \in Groups, NEW admin \in Keys, InitializeGroup(g, admin)
      PROVE  AdminInv'
  <2> DEFINE new == [exists |-> TRUE, admin |-> admin,
                     group_flags |-> {"PROGRAM_FEES_ENABLED"}, cache |-> CacheOf(fee_state)]
  <2>1. fee_state.exists /\ fee_state \in FeeStates
    BY <1>2, ExistsIsRecord DEF InitializeGroup, AdminInv
  <2>2. new \in GroupRecords
    BY <2>1 DEF GroupRecords, FeeStates, CacheOf, FLAGS
  <2>. QED
    BY Zenon, <1>2, <2>1, <2>2, GroupStep DEF InitializeGroup
<1>3. ASSUME NEW g \in Groups, NEW signer \in Keys, NEW new_admin \in Keys,
             ConfigureGroup(g, signer, new_admin)
      PROVE  AdminInv'
  <2> DEFINE new == [groups[g] EXCEPT !.admin = new_admin]
  <2>1. groups[g].exists /\ groups[g] \in GroupRecords
    BY <1>3, ExistsIsRecord DEF ConfigureGroup, AdminInv
  <2>2. new \in GroupRecords /\ new.cache = groups[g].cache
    BY Zenon, <2>1 DEF GroupRecords
  <2>3. groups' = [groups EXCEPT ![g] = new]
    BY <1>3 DEF ConfigureGroup
  <2> HIDE DEF new
  <2>. QED
    BY Zenon, <1>3, <2>1, <2>2, <2>3, GroupStep DEF ConfigureGroup
<1>4. ASSUME NEW g \in Groups, NEW signer \in Keys, NEW new_flags \in SUBSET FLAGS,
             ConfigGroupFee(g, signer, new_flags)
      PROVE  AdminInv'
  <2> DEFINE new == [groups[g] EXCEPT !.group_flags = new_flags]
  <2>1. groups[g].exists /\ groups[g] \in GroupRecords
    BY <1>4, ExistsIsRecord DEF ConfigGroupFee, AdminInv
  <2>2. new \in GroupRecords /\ new.cache = groups[g].cache
    BY Zenon, <2>1 DEF GroupRecords
  <2>3. groups' = [groups EXCEPT ![g] = new]
    BY <1>4 DEF ConfigGroupFee
  <2> HIDE DEF new
  <2>. QED
    BY Zenon, <1>4, <2>1, <2>2, <2>3, GroupStep DEF ConfigGroupFee
<1>5. ASSUME NEW g \in Groups, PropagateFee(g)
      PROVE  AdminInv'
  <2> DEFINE new == [groups[g] EXCEPT !.cache = CacheOf(fee_state)]
  <2>1. groups[g] \in GroupRecords /\ fee_state.exists /\ fee_state \in FeeStates
    BY <1>5, ExistsIsRecord DEF PropagateFee, AdminInv
  <2>2. new \in GroupRecords /\ new.cache = CacheOf(fee_state)
    BY Zenon, <2>1 DEF GroupRecords, FeeStates, CacheOf
  <2>3. groups' = [groups EXCEPT ![g] = new]
    BY <1>5 DEF PropagateFee
  <2> HIDE DEF new
  <2>. QED
    BY Zenon, <1>5, <2>1, <2>2, <2>3, GroupStep DEF PropagateFee
<1>6. ASSUME NEW g \in Groups, NEW signer \in Keys,
             NEW key \in BankKeys \cup (Groups \X Mints \X Seeds), AddBankAt(g, signer, key)
      PROVE  AdminInv'
  BY <1>6, AddBankStep
<1>7. CASE UNCHANGED admin_vars
  BY Zenon, <1>7 DEF admin_vars, AdminInv, AdminTypeOK, HistoryInv, CacheWasInForce, CacheOf, BanksInv,
              WalletsReceiveTheirFees, FlatFeesPaidTo, PaidTo
<1>. QED
  BY Zenon, <1>1, <1>2, <1>3, <1>4, <1>5, <1>6, <1>7
     DEF AdminNext, LendingPoolAddBank, LendingPoolAddBankWithSeed

\* The accounts keep their types, the history ends with the fee state in force,
\* and every group's copy is in it.
THEOREM AdminInvariant == AdminSpec => []AdminInv
<1>1. AdminInit => AdminInv
  <2> SUFFICES ASSUME AdminInit PROVE AdminInv
    OBVIOUS
  <2>1. AdminTypeOK /\ HistoryInv /\ CacheWasInForce
    BY AdminAssumption DEF AdminInit, AdminTypeOK, HistoryInv, CacheWasInForce, NoFeeState, NoGroup
  <2>2. BanksInv
    BY FS_EmptySet DEF AdminInit, BanksInv
  <2>3. WalletsReceiveTheirFees
    <3>1. SUFFICES ASSUME NEW k \in Keys PROVE lamports[k] = SumFunction(FlatFeesPaidTo(k))
      BY DEF WalletsReceiveTheirFees
    <3>2. FlatFeesPaidTo(k) \in [{} -> Int] /\ lamports[k] = 0
      BY AdminAssumption DEF AdminInit, FlatFeesPaidTo, PaidTo
    <3>. QED
      BY Zenon, <3>2, SumEmpty
  <2>. QED
    BY <2>1, <2>2, <2>3 DEF AdminInv
<1>. QED
  BY <1>1, AdminStep, PTL DEF AdminSpec

\* fee_state_cache of a group is one fee state that was in force, wallet and
\* fees together, however edits and propagate_fee_state interleave.
THEOREM CacheAlwaysWasInForce == AdminSpec => []CacheWasInForce
<1>1. AdminInv => CacheWasInForce
  BY DEF AdminInv
<1>. QED
  BY <1>1, AdminInvariant, PTL

\* Each wallet holds exactly the flat fees of the banks that add_bank created
\* while it was the wallet of the fee state, whatever the groups' copies say.
THEOREM WalletsAlwaysReceiveTheirFees == AdminSpec => []WalletsReceiveTheirFees
<1>1. AdminInv => WalletsReceiveTheirFees
  BY DEF AdminInv
<1>. QED
  BY <1>1, AdminInvariant, PTL

=============================================================================
