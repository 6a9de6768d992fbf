----------------------------- MODULE HealthProofs -----------------------------
(***************************************************************************)
(* Proofs about the health of accounts in a group of any number of banks   *)
(* and accounts.  An account declared bankrupt could have been liquidated, *)
(* and only the market makes a healthy account liquidatable.               *)
(***************************************************************************)
EXTENDS LendingProofs

-----------------------------------------------------------------------------
(* Bankruptcy and liquidation agree.                                       *)

\* The oracle of a bank reports one price, real-time and time weighted.
OnePrice(b) == oracle[b].price = oracle[b].ema_price /\ oracle[b].conf = oracle[b].ema_conf

\* Then both kinds of price are the same natural number.
LEMMA SamePrices ==
  ASSUME RestOK, NEW a \in Accounts, NEW b \in Banks, OnePrice(b), NEW bias \in Biases
  PROVE  /\ Price(Positions(a)[b], "RealTime", bias) \in Nat
         /\ Price(Positions(a)[b], "TimeWeighted", bias) = Price(Positions(a)[b], "RealTime", bias)
<1> DEFINE s == risk[b].oracle_setup
           f == oracle[b]
<1>1. Positions(a)[b].risk = risk[b] /\ Positions(a)[b].feed = f  BY Zenon DEF Positions, PositionsWith
<1>2. FeedFor(s, f)  BY OraclesFit
<1>3. Adapter(s, f, "TimeWeighted") = Adapter(s, f, "RealTime")
  BY DEF OnePrice, Adapter, PythLegacyPriceFeed, PythPushOraclePriceFeed
<1>4. GetPriceOfType(s, f, "TimeWeighted", bias) = GetPriceOfType(s, f, "RealTime", bias)
  BY Zenon, <1>3 DEF GetPriceOfType, GetConfidenceInterval, GetPrice
<1>5. GetPriceOfType(s, f, "RealTime", bias) \in Nat  BY Zenon, <1>2, BandOK DEF Biases
<1> QED BY <1>1, <1>4, <1>5 DEF Price

\* Position by position, the equity requirement counts at least the assets and
\* at most the debts that the maintenance requirement counts.
LEMMA EquityOrder ==
  ASSUME LendingInv, NEW a \in Accounts, NEW b \in Banks, OnePrice(b),
         risk[b].asset_weight_maint <= ONE
  PROVE  LET p == Positions(a)[b]
         IN  /\ CalcWeightedAssets(p, "Maintenance", now) \in Nat
             /\ CalcWeightedAssets(p, "Equity", now) \in Nat
             /\ CalcWeightedAssets(p, "Maintenance", now) <= CalcWeightedAssets(p, "Equity", now)
             /\ CalcWeightedLiabs(p, "Equity") \in Nat
             /\ CalcWeightedLiabs(p, "Maintenance") \in Nat
             /\ CalcWeightedLiabs(p, "Equity") <= CalcWeightedLiabs(p, "Maintenance")
<1> DEFINE p == Positions(a)[b]
           low == Price(p, "RealTime", "Low")
           high == Price(p, "RealTime", "High")
           w == risk[b].asset_weight_maint
           v == risk[b].liability_weight_maint
<1>1. RecordsOK /\ RestOK  BY DEF LendingInv
<1>2. p.bank = banks[b] /\ p.balance = lending[a][b] /\ p.risk = risk[b]
  BY Zenon DEF Positions, PositionsWith
<1>3. /\ low \in Nat /\ Price(p, "TimeWeighted", "Low") = low
      /\ high \in Nat /\ Price(p, "TimeWeighted", "High") = high
  BY Zenon, <1>1, SamePrices DEF Biases
<1>4. AssetAmount(p) \in Nat /\ LiabilityAmount(p) \in Nat
  <2>1. /\ banks[b].asset_share_value \in Nat /\ banks[b].liability_share_value \in Nat
        /\ lending[a][b].asset_shares \in Nat /\ lending[a][b].liability_shares \in Nat
    BY <1>1 DEF RecordsOK, BankRecords, BalanceRecords
  <2> QED BY Zenon, <1>2, <2>1, MulNat DEF AssetAmount, LiabilityAmount, GetAssetAmount,
             GetLiabilityAmount
<1>5. w \in Nat /\ v \in Nat /\ w <= ONE /\ ONE <= v /\ ONE \in Nat
  BY <1>1, OneAssumption DEF RestOK, RiskConfigs
<1> HIDE DEF p, low, high, w, v
<1>6. /\ CalcValue(AssetAmount(p), low, w) \in Nat /\ CalcValue(AssetAmount(p), low, ONE) \in Nat
      /\ CalcValue(AssetAmount(p), low, w) <= CalcValue(AssetAmount(p), low, ONE)
  <2>1. AssetAmount(p) <= AssetAmount(p) /\ low <= low  BY <1>3, <1>4
  <2> QED BY Zenon, <1>3, <1>4, <1>5, <2>1, ValueOrder
<1>7. /\ CalcValue(LiabilityAmount(p), high, ONE) \in Nat
      /\ CalcValue(LiabilityAmount(p), high, v) \in Nat
      /\ CalcValue(LiabilityAmount(p), high, ONE) <= CalcValue(LiabilityAmount(p), high, v)
  <2>1. LiabilityAmount(p) <= LiabilityAmount(p) /\ high <= high  BY <1>3, <1>4
  <2> QED BY Zenon, <1>3, <1>4, <1>5, <2>1, ValueOrder
<1> DEFINE none == GetSide(p.balance) # "Assets" \/ p.risk.risk_tier = "Isolated"
<1>8. /\ CalcWeightedAssets(p, "Maintenance", now)
           = IF none THEN 0 ELSE CalcValue(AssetAmount(p), low, w)
      /\ CalcWeightedAssets(p, "Equity", now)
           = IF none THEN 0 ELSE CalcValue(AssetAmount(p), low, ONE)
  BY <1>2, <1>3 DEF CalcWeightedAssets, Uncounted, GetOraclePriceType, AssetWeight, low, w
<1>9. /\ CalcWeightedLiabs(p, "Maintenance")
           = IF GetSide(p.balance) # "Liabilities" THEN 0 ELSE CalcValue(LiabilityAmount(p), high, v)
      /\ CalcWeightedLiabs(p, "Equity")
           = IF GetSide(p.balance) # "Liabilities" THEN 0 ELSE CalcValue(LiabilityAmount(p), high, ONE)
  BY <1>2, <1>3 DEF CalcWeightedLiabs, GetOraclePriceType, LiabilityWeight, high, v
<1> HIDE DEF none
<1>10. /\ CalcWeightedAssets(p, "Maintenance", now) \in Nat /\ CalcWeightedAssets(p, "Equity", now) \in Nat
       /\ CalcWeightedAssets(p, "Maintenance", now) <= CalcWeightedAssets(p, "Equity", now)
  <2>1. CASE none  BY <1>8, <2>1
  <2>2. CASE ~none  BY <1>6, <1>8, <2>2
  <2> QED BY <2>1, <2>2
<1>11. /\ CalcWeightedLiabs(p, "Equity") \in Nat /\ CalcWeightedLiabs(p, "Maintenance") \in Nat
       /\ CalcWeightedLiabs(p, "Equity") <= CalcWeightedLiabs(p, "Maintenance")
  <2>1. CASE GetSide(p.balance) # "Liabilities"  BY <1>9, <2>1
  <2>2. CASE GetSide(p.balance) = "Liabilities"  BY <1>7, <1>9, <2>2
  <2> QED BY <2>1, <2>2
<1> QED BY Zenon, <1>10, <1>11 DEF p

\* There are finitely many banks.
LEMMA BanksFinite == IsFiniteSet(Banks)
<1>1. NumBanks \in Int /\ 1 \in Int  BY LendingAssumption
<1> QED BY Zenon, <1>1, FS_Interval DEF Banks

\* An account whose equity is negative does not meet its maintenance
\* requirement.
LEMMA BankruptUnhealthy ==
  ASSUME LendingInv, NEW a \in Accounts, CheckAccountBankrupt(Positions(a), now),
         \A b \in Banks : OnePrice(b) /\ risk[b].asset_weight_maint <= ONE
  PROVE  MaintenanceHealth(a) < 0
<1> DEFINE ps == Positions(a)
           assets(t) == [b \in Banks |-> CalcWeightedAssets(ps[b], t, now)]
           liabs(t) == [b \in Banks |-> CalcWeightedLiabs(ps[b], t)]
<1>1. DOMAIN ps = Banks  BY DEF Positions, PositionsWith
<1>2. SumFunction(assets("Equity")) < SumFunction(liabs("Equity"))
  BY Zenon, <1>1 DEF CheckAccountBankrupt, WeightedAssets, WeightedLiabs
<1>3. MaintenanceHealth(a) = SumFunction(assets("Maintenance")) - SumFunction(liabs("Maintenance"))
  BY Zenon, <1>1 DEF MaintenanceHealth, GetAccountHealth, WeightedAssets, WeightedLiabs
<1>4. /\ assets("Maintenance") \in [Banks -> Int] /\ assets("Equity") \in [Banks -> Int]
      /\ \A b \in Banks : assets("Maintenance")[b] <= assets("Equity")[b]
  BY EquityOrder
<1>5. /\ liabs("Maintenance") \in [Banks -> Int] /\ liabs("Equity") \in [Banks -> Int]
      /\ \A b \in Banks : liabs("Equity")[b] <= liabs("Maintenance")[b]
  BY EquityOrder
<1> HIDE DEF ps, assets, liabs
<1>6. SumFunction(assets("Maintenance")) <= SumFunction(assets("Equity"))
  BY Zenon, <1>4, SumMonotone, BanksFinite
<1>7. SumFunction(liabs("Equity")) <= SumFunction(liabs("Maintenance"))
  BY Zenon, <1>5, SumMonotone, BanksFinite
<1>8. /\ SumFunction(assets("Maintenance")) \in Int /\ SumFunction(assets("Equity")) \in Int
      /\ SumFunction(liabs("Maintenance")) \in Int /\ SumFunction(liabs("Equity")) \in Int
  BY Zenon, <1>4, <1>5, SumInt, BanksFinite
<1> QED BY <1>2, <1>3, <1>6, <1>7, <1>8

\* Only lending_pool_handle_bankruptcy disables an account.
LEMMA OnlyBankruptcyDisables ==
  ASSUME [Next]_vars, NEW a \in Accounts, a \in disabled' \ disabled
  PROVE  \E b \in Banks : LendingPoolHandleBankruptcy(a, b)
<1>1. ASSUME NEW c \in Accounts, AccountStep(c)
      PROVE  disabled' = disabled \/ \E b \in Banks : LendingPoolHandleBankruptcy(a, b)
  <2>1. ASSUME NEW b \in Banks, LendingPoolHandleBankruptcy(c, b)
        PROVE  \E d \in Banks : LendingPoolHandleBankruptcy(a, d)
    <3>1. disabled' = disabled \cup {c}  BY Zenon, <2>1 DEF LendingPoolHandleBankruptcy
    <3>2. a = c  BY <3>1
    <3> QED BY <2>1, <3>2
  <2>2. (\A b \in Banks : ~LendingPoolHandleBankruptcy(c, b)) => disabled' = disabled
    BY Zenon, <1>1 DEF AccountStep, LendingAccountDeposit, LendingAccountRepay, LendingAccountWithdraw,
                LendingAccountBorrow, LendingAccountRepayAll, LendingAccountWithdrawAll,
                LendingAccountCloseBalance, MarginfiAccountClose
  <2> QED BY <2>1, <2>2
<1>2. ASSUME NEW liquidator \in Accounts, NEW liquidatee \in Accounts, NEW asset_bank \in Banks,
             NEW liab_bank \in Banks, NEW amount \in SeizedAmounts,
             LendingAccountLiquidate(liquidator, liquidatee, asset_bank, liab_bank, amount)
      PROVE  disabled' = disabled
  BY Zenon, <1>2 DEF LendingAccountLiquidate
<1>3. ASSUME NEW b \in Banks, BankStep(b) PROVE disabled' = disabled
  BY Zenon, <1>3 DEF BankStep, LendingPoolAccrueBankInterest, LendingPoolConfigureBank, Publish
<1>4. CASE Tick \/ UNCHANGED vars  BY <1>4 DEF Tick, vars
<1> QED BY <1>1, <1>2, <1>3, <1>4 DEF Next

\* An account that lending_pool_handle_bankruptcy writes off could have been
\* liquidated: it does not meet its maintenance requirement.
THEOREM BankruptAreLiquidatable == Spec => BankruptOnlyIfLiquidatable
<1>1. LendingInv /\ LendingInv' /\ [Next]_vars
        => [(\A b \in Banks : /\ oracle[b].price = oracle[b].ema_price /\ oracle[b].conf = oracle[b].ema_conf
                              /\ risk[b].asset_weight_maint <= ONE)
            => \A a \in disabled' \ disabled : MaintenanceHealth(a) < 0]_vars
  <2> SUFFICES ASSUME LendingInv, LendingInv', [Next]_vars,
                      \A b \in Banks : OnePrice(b) /\ risk[b].asset_weight_maint <= ONE,
                      NEW a \in disabled' \ disabled
               PROVE  MaintenanceHealth(a) < 0
    BY Zenon DEF OnePrice
  <2>1. a \in Accounts  BY DEF LendingInv, RestOK
  <2>2. PICK b \in Banks : LendingPoolHandleBankruptcy(a, b)  BY <2>1, OnlyBankruptcyDisables
  <2>3. CheckAccountBankrupt(Positions(a), now)  BY Zenon, <2>2 DEF LendingPoolHandleBankruptcy
  <2> QED BY <2>1, <2>3, BankruptUnhealthy
<1> QED BY <1>1, GroupInvariant, PTL DEF Spec, BankruptOnlyIfLiquidatable

-----------------------------------------------------------------------------
(* Healthy until the market moves.                                         *)

\* A position whose numbers are natural and whose oracle has a price.
PositionOK(p) ==
  /\ p.bank \in BankRecords /\ p.balance \in BalanceRecords /\ p.risk \in RiskConfigs
  /\ \A bias \in Biases : Price(p, "RealTime", bias) \in Nat

\* From balance x to balance y: no debt is added and no deposit that counts is
\* taken.
Relief(x, y) ==
  /\ y.liability_shares <= x.liability_shares
  /\ y.asset_shares >= x.asset_shares \/ x.asset_shares < EMPTY_BALANCE_THRESHOLD

\* The maintenance requirement of one position does not rise with relief, a
\* higher deposit share value or a lower debt share value.
LEMMA MaintenanceOrder ==
  ASSUME NEW p, NEW q, NEW t, NEW u, PositionOK(p), PositionOK(q), q.risk = p.risk, q.feed = p.feed,
         p.bank.asset_share_value <= q.bank.asset_share_value,
         q.bank.liability_share_value <= p.bank.liability_share_value,
         Relief(p.balance, q.balance)
  PROVE  /\ CalcWeightedAssets(p, "Maintenance", t) \in Nat
         /\ CalcWeightedAssets(q, "Maintenance", u) \in Nat
         /\ CalcWeightedAssets(p, "Maintenance", t) <= CalcWeightedAssets(q, "Maintenance", u)
         /\ CalcWeightedLiabs(p, "Maintenance") \in Nat /\ CalcWeightedLiabs(q, "Maintenance") \in Nat
         /\ CalcWeightedLiabs(q, "Maintenance") <= CalcWeightedLiabs(p, "Maintenance")
<1> DEFINE low == Price(p, "RealTime", "Low")
           high == Price(p, "RealTime", "High")
           w == p.risk.asset_weight_maint
           v == p.risk.liability_weight_maint
           assets(x) == CalcValue(AssetAmount(x), low, w)
           liabs(x) == CalcValue(LiabilityAmount(x), high, v)
<1>1. low \in Nat /\ high \in Nat /\ w \in Nat /\ v \in Nat
  BY DEF PositionOK, Biases, RiskConfigs
<1>2. \A bias : Price(q, "RealTime", bias) = Price(p, "RealTime", bias)  BY DEF Price
<1>3. /\ CalcWeightedAssets(p, "Maintenance", t)
           = IF GetSide(p.balance) # "Assets" \/ p.risk.risk_tier = "Isolated" THEN 0 ELSE assets(p)
      /\ CalcWeightedAssets(q, "Maintenance", u)
           = IF GetSide(q.balance) # "Assets" \/ p.risk.risk_tier = "Isolated" THEN 0 ELSE assets(q)
  BY <1>2 DEF CalcWeightedAssets, Uncounted, GetOraclePriceType, AssetWeight
<1>4. /\ CalcWeightedLiabs(p, "Maintenance")
           = IF GetSide(p.balance) # "Liabilities" THEN 0 ELSE liabs(p)
      /\ CalcWeightedLiabs(q, "Maintenance")
           = IF GetSide(q.balance) # "Liabilities" THEN 0 ELSE liabs(q)
  BY <1>2 DEF CalcWeightedLiabs, GetOraclePriceType, LiabilityWeight
<1> HIDE DEF low, high, w, v
<1>5. /\ p.balance.asset_shares \in Nat /\ q.balance.asset_shares \in Nat
      /\ p.balance.liability_shares \in Nat /\ q.balance.liability_shares \in Nat
      /\ p.bank.asset_share_value \in Nat /\ q.bank.asset_share_value \in Nat
      /\ p.bank.liability_share_value \in Nat /\ q.bank.liability_share_value \in Nat
  BY DEF PositionOK, BankRecords, BalanceRecords
<1>6. /\ AssetAmount(p) \in Nat /\ AssetAmount(q) \in Nat
      /\ LiabilityAmount(p) \in Nat /\ LiabilityAmount(q) \in Nat
  BY <1>5, MulNat DEF AssetAmount, LiabilityAmount, GetAssetAmount, GetLiabilityAmount
<1>7. LiabilityAmount(q) <= LiabilityAmount(p)
  BY <1>5, MulOrder DEF Relief, LiabilityAmount, GetLiabilityAmount
<1>8. q.balance.asset_shares >= p.balance.asset_shares => AssetAmount(p) <= AssetAmount(q)
  BY <1>5, MulOrder DEF AssetAmount, GetAssetAmount
<1>9. /\ liabs(q) \in Nat /\ liabs(p) \in Nat /\ liabs(q) <= liabs(p)
  <2>1. high <= high /\ v <= v  BY <1>1
  <2> QED BY Zenon, <1>1, <1>6, <1>7, <2>1, ValueOrder
<1>10. /\ assets(q) \in Nat /\ assets(p) \in Nat
       /\ q.balance.asset_shares >= p.balance.asset_shares => assets(p) <= assets(q)
  <2>1. low <= low /\ w <= w /\ AssetAmount(p) <= AssetAmount(p) /\ AssetAmount(q) <= AssetAmount(q)
    BY <1>1, <1>6
  <2> QED BY Zenon, <1>1, <1>6, <1>8, <2>1, ValueOrder
<1> HIDE DEF assets, liabs
<1>11. GetSide(p.balance) # "Liabilities" => GetSide(q.balance) # "Liabilities"
  BY <1>5, OneAssumption DEF GetSide, Relief, EMPTY_BALANCE_THRESHOLD
<1>12. GetSide(p.balance) = "Assets" =>
         GetSide(q.balance) = "Assets" /\ q.balance.asset_shares >= p.balance.asset_shares
  BY <1>5, OneAssumption DEF GetSide, Relief, EMPTY_BALANCE_THRESHOLD
<1> QED BY <1>3, <1>4, <1>9, <1>10, <1>11, <1>12

\* With one price the initial requirement is the stricter one: its weights are,
\* the discount of a large bank lowers them, and deposits that have no price
\* count nothing.
LEMMA InitialOrder ==
  ASSUME NEW p, NEW t, PositionOK(p),
         \A bias \in Biases : Price(p, "TimeWeighted", bias) = Price(p, "RealTime", bias)
  PROVE  /\ CalcWeightedAssets(p, "Initial", t) \in Nat
         /\ CalcWeightedAssets(p, "Maintenance", t) \in Nat
         /\ CalcWeightedAssets(p, "Initial", t) <= CalcWeightedAssets(p, "Maintenance", t)
         /\ CalcWeightedLiabs(p, "Initial") \in Nat /\ CalcWeightedLiabs(p, "Maintenance") \in Nat
         /\ CalcWeightedLiabs(p, "Maintenance") <= CalcWeightedLiabs(p, "Initial")
<1> DEFINE low == Price(p, "RealTime", "Low")
           high == Price(p, "RealTime", "High")
           d == AssetWeightInitDiscount(p, low)
           w0 == Mul(p.risk.asset_weight_init, d)
           w1 == p.risk.asset_weight_maint
           v0 == p.risk.liability_weight_init
           v1 == p.risk.liability_weight_maint
           x == AssetAmount(p)
           y == LiabilityAmount(p)
<1>1. /\ low \in Nat /\ high \in Nat
      /\ Price(p, "TimeWeighted", "Low") = low /\ Price(p, "TimeWeighted", "High") = high
  BY DEF PositionOK, Biases
<1>2. /\ p.risk.asset_weight_init \in Nat /\ w1 \in Nat /\ p.risk.asset_weight_init <= w1
      /\ v0 \in Nat /\ v1 \in Nat /\ v1 <= v0 /\ p.risk.total_asset_value_init_limit \in Nat
  BY DEF PositionOK, RiskConfigs
<1>3. /\ p.balance.asset_shares \in Nat /\ p.balance.liability_shares \in Nat
      /\ p.bank.asset_share_value \in Nat /\ p.bank.liability_share_value \in Nat
      /\ p.bank.total_asset_shares \in Nat
  BY DEF PositionOK, BankRecords, BalanceRecords
<1>4. x \in Nat /\ y \in Nat
  BY <1>3, MulNat DEF AssetAmount, LiabilityAmount, GetAssetAmount, GetLiabilityAmount
<1>5. d \in Nat /\ d <= ONE
  <2> DEFINE total == Mul(TotalAssets(p.bank), low) \div EXP10
             limit == p.risk.total_asset_value_init_limit * ONE
  <2>1. TotalAssets(p.bank) \in Nat  BY <1>3, MulNat DEF TotalAssets, GetAssetAmount
  <2>2. total \in Nat  BY <1>1, <2>1, MulNat, DivBounds, BalanceAssumption
  <2>3. limit \in Nat /\ ONE \in Nat \ {0}  BY <1>2, NatProduct, OneAssumption
  <2>4. d = IF limit # 0 /\ total > limit THEN Div(limit, total) ELSE ONE
    BY DEF AssetWeightInitDiscount
  <2> HIDE DEF total, limit, d
  <2>5. CASE limit # 0 /\ total > limit
    <3>1. total \in Nat \ {0} /\ limit <= total  BY <2>2, <2>3, <2>5
    <3>2. Div(limit, total) \in Nat /\ Div(limit, total) <= Div(total, total) /\ Div(total, total) \in Nat
      BY <2>3, <3>1, DivNat, DivMonotone
    <3>3. Div(total, total) = ONE
      <4>1. (ONE * total) \div total = ONE /\ total * ONE = ONE * total
        <5>1. total * ONE \in Nat /\ total * ONE = ONE * total  BY <2>3, <3>1, NatProduct
        <5>2. ONE * total <= ONE * total /\ total * ONE < total * (ONE + 1)  BY <2>3, <3>1, <5>1
        <5> QED BY <2>3, <3>1, <5>1
      <4> QED BY <4>1 DEF Div
    <3> QED BY <2>3, <2>4, <2>5, <3>2, <3>3
  <2> QED BY <2>3, <2>4, <2>5
<1>6. w0 \in Nat /\ w0 <= w1
  <2>1. w0 \in Nat /\ w0 <= p.risk.asset_weight_init  BY <1>2, <1>5, ShareOfFee
  <2> QED BY <1>2, <2>1
<1>7. /\ CalcWeightedAssets(p, "Initial", t)
           = IF GetSide(p.balance) # "Assets" \/ Uncounted(p, "Initial", t) THEN 0
             ELSE CalcValue(x, low, w0)
      /\ CalcWeightedAssets(p, "Maintenance", t)
           = IF GetSide(p.balance) # "Assets" \/ Uncounted(p, "Maintenance", t) THEN 0
             ELSE CalcValue(x, low, w1)
  BY <1>1 DEF CalcWeightedAssets, GetOraclePriceType, AssetWeight
<1>8. Uncounted(p, "Maintenance", t) => Uncounted(p, "Initial", t)  BY DEF Uncounted
<1>9. /\ CalcWeightedLiabs(p, "Initial")
           = IF GetSide(p.balance) # "Liabilities" THEN 0 ELSE CalcValue(y, high, v0)
      /\ CalcWeightedLiabs(p, "Maintenance")
           = IF GetSide(p.balance) # "Liabilities" THEN 0 ELSE CalcValue(y, high, v1)
  BY <1>1 DEF CalcWeightedLiabs, GetOraclePriceType, LiabilityWeight
<1> HIDE DEF low, high, d, w0, w1, v0, v1, x, y
<1>10. x <= x /\ y <= y /\ low <= low /\ high <= high  BY <1>1, <1>4
<1>11. /\ CalcValue(x, low, w0) \in Nat /\ CalcValue(x, low, w1) \in Nat
       /\ CalcValue(x, low, w0) <= CalcValue(x, low, w1)
  BY Zenon, <1>1, <1>2, <1>4, <1>6, <1>10, ValueOrder DEF w1
<1>12. /\ CalcValue(y, high, v1) \in Nat /\ CalcValue(y, high, v0) \in Nat
       /\ CalcValue(y, high, v1) <= CalcValue(y, high, v0)
  BY Zenon, <1>1, <1>2, <1>4, <1>10, ValueOrder
<1> QED BY <1>7, <1>8, <1>9, <1>11, <1>12

\* Then so is the maintenance health of the whole account.
LEMMA HealthOrder ==
  ASSUME NEW ps, NEW qs, DOMAIN ps = Banks, DOMAIN qs = Banks, NEW t, NEW u,
         \A b \in Banks :
           /\ PositionOK(ps[b]) /\ PositionOK(qs[b])
           /\ qs[b].risk = ps[b].risk /\ qs[b].feed = ps[b].feed
           /\ ps[b].bank.asset_share_value <= qs[b].bank.asset_share_value
           /\ qs[b].bank.liability_share_value <= ps[b].bank.liability_share_value
           /\ Relief(ps[b].balance, qs[b].balance)
  PROVE  /\ GetAccountHealth(ps, "Maintenance", t) \in Int
         /\ GetAccountHealth(qs, "Maintenance", u) \in Int
         /\ GetAccountHealth(ps, "Maintenance", t) <= GetAccountHealth(qs, "Maintenance", u)
<1> DEFINE assets(rs, s) == [b \in Banks |-> CalcWeightedAssets(rs[b], "Maintenance", s)]
           liabs(rs) == [b \in Banks |-> CalcWeightedLiabs(rs[b], "Maintenance")]
<1>1. /\ GetAccountHealth(ps, "Maintenance", t) = SumFunction(assets(ps, t)) - SumFunction(liabs(ps))
      /\ GetAccountHealth(qs, "Maintenance", u) = SumFunction(assets(qs, u)) - SumFunction(liabs(qs))
  BY DEF GetAccountHealth, WeightedAssets, WeightedLiabs
<1>2. ASSUME NEW b \in Banks
      PROVE  /\ CalcWeightedAssets(ps[b], "Maintenance", t) \in Int
             /\ CalcWeightedAssets(qs[b], "Maintenance", u) \in Int
             /\ CalcWeightedAssets(ps[b], "Maintenance", t) <= CalcWeightedAssets(qs[b], "Maintenance", u)
             /\ CalcWeightedLiabs(ps[b], "Maintenance") \in Int
             /\ CalcWeightedLiabs(qs[b], "Maintenance") \in Int
             /\ CalcWeightedLiabs(qs[b], "Maintenance") <= CalcWeightedLiabs(ps[b], "Maintenance")
  BY MaintenanceOrder
<1>3. /\ assets(ps, t) \in [Banks -> Int] /\ assets(qs, u) \in [Banks -> Int]
      /\ \A b \in Banks : assets(ps, t)[b] <= assets(qs, u)[b]
  BY <1>2
<1>4. /\ liabs(ps) \in [Banks -> Int] /\ liabs(qs) \in [Banks -> Int]
      /\ \A b \in Banks : liabs(qs)[b] <= liabs(ps)[b]
  BY <1>2
<1> HIDE DEF assets, liabs
<1>5. SumFunction(assets(ps, t)) <= SumFunction(assets(qs, u))
  BY Zenon, <1>3, SumMonotone, BanksFinite
<1>6. SumFunction(liabs(qs)) <= SumFunction(liabs(ps))
  BY Zenon, <1>4, SumMonotone, BanksFinite
<1>7. /\ SumFunction(assets(ps, t)) \in Int /\ SumFunction(assets(qs, u)) \in Int
      /\ SumFunction(liabs(ps)) \in Int /\ SumFunction(liabs(qs)) \in Int
  BY Zenon, <1>3, <1>4, SumInt, BanksFinite
<1> QED BY <1>1, <1>5, <1>6, <1>7

\* An account that check_account_init_health accepts meets its maintenance
\* requirement.
LEMMA InitialHealthy ==
  ASSUME NEW ps, DOMAIN ps = Banks, NEW t, CheckAccountInitHealth(ps, t),
         \A b \in Banks : /\ PositionOK(ps[b])
                          /\ \A bias \in Biases : Price(ps[b], "TimeWeighted", bias)
                                                    = Price(ps[b], "RealTime", bias)
  PROVE  GetAccountHealth(ps, "Maintenance", t) \in Nat
<1> DEFINE assets(r) == [b \in Banks |-> CalcWeightedAssets(ps[b], r, t)]
           liabs(r) == [b \in Banks |-> CalcWeightedLiabs(ps[b], r)]
<1>1. /\ GetAccountHealth(ps, "Maintenance", t)
           = SumFunction(assets("Maintenance")) - SumFunction(liabs("Maintenance"))
      /\ SumFunction(assets("Initial")) - SumFunction(liabs("Initial")) >= 0
  BY DEF CheckAccountInitHealth, GetAccountHealth, WeightedAssets, WeightedLiabs
<1>2. ASSUME NEW b \in Banks
      PROVE  /\ CalcWeightedAssets(ps[b], "Initial", t) \in Int
             /\ CalcWeightedAssets(ps[b], "Maintenance", t) \in Int
             /\ CalcWeightedAssets(ps[b], "Initial", t) <= CalcWeightedAssets(ps[b], "Maintenance", t)
             /\ CalcWeightedLiabs(ps[b], "Initial") \in Int
             /\ CalcWeightedLiabs(ps[b], "Maintenance") \in Int
             /\ CalcWeightedLiabs(ps[b], "Maintenance") <= CalcWeightedLiabs(ps[b], "Initial")
  BY InitialOrder
<1>3. /\ assets("Initial") \in [Banks -> Int] /\ assets("Maintenance") \in [Banks -> Int]
      /\ \A b \in Banks : assets("Initial")[b] <= assets("Maintenance")[b]
  BY <1>2
<1>4. /\ liabs("Initial") \in [Banks -> Int] /\ liabs("Maintenance") \in [Banks -> Int]
      /\ \A b \in Banks : liabs("Maintenance")[b] <= liabs("Initial")[b]
  BY <1>2
<1> HIDE DEF assets, liabs
<1>5. SumFunction(assets("Initial")) <= SumFunction(assets("Maintenance"))
  BY Zenon, <1>3, SumMonotone, BanksFinite
<1>6. SumFunction(liabs("Maintenance")) <= SumFunction(liabs("Initial"))
  BY Zenon, <1>4, SumMonotone, BanksFinite
<1>7. /\ SumFunction(assets("Initial")) \in Int /\ SumFunction(assets("Maintenance")) \in Int
      /\ SumFunction(liabs("Initial")) \in Int /\ SumFunction(liabs("Maintenance")) \in Int
  BY Zenon, <1>3, <1>4, SumInt, BanksFinite
<1> QED BY <1>1, <1>5, <1>6, <1>7

-----------------------------------------------------------------------------
(* What each instruction does to the balances of every account.            *)

\* A balance that was closed, or never opened, holds no shares.
IdleEmpty == \A a \in Accounts, b \in Banks :
  lending[a][b].active \/ (lending[a][b].asset_shares = 0 /\ lending[a][b].liability_shares = 0)

\* increase_balance_internal and decrease_balance_internal leave a balance
\* active or inactive as it was.
LEMMA ActiveStays ==
  ASSUME NEW w, w.balance \in BalanceRecords, NEW delta, NEW t
  PROVE  /\ IncreaseBalance(w, delta, t).balance.active = w.balance.active
         /\ DecreaseBalance(w, delta, t).balance.active = w.balance.active
BY DEF IncreaseBalance, DecreaseBalance, ChangeShares, ClaimEmissions, BalanceRecords

\* find_or_create gives an active balance, of the same shares if an inactive
\* one has none.
LEMMA CreatedShares ==
  ASSUME NEW b, NEW x \in BalanceRecords, NEW t \in Nat,
         x.active \/ (x.asset_shares = 0 /\ x.liability_shares = 0)
  PROVE  LET y == FindOrCreate(b, x, t).balance
         IN  /\ y \in BalanceRecords /\ y.active
             /\ y.asset_shares = x.asset_shares /\ y.liability_shares = x.liability_shares
BY DEF FindOrCreate, EmptyDeactivated, BalanceRecords

\* A closed balance is empty.
LEMMA EmptyIs ==
  /\ EmptyDeactivated.asset_shares = 0 /\ EmptyDeactivated.liability_shares = 0
  /\ ~EmptyDeactivated.active
BY DEF EmptyDeactivated

\* increase_balance_internal only ever relieves.
LEMMA IncreaseRelief ==
  ASSUME NEW t \in Nat, NEW w, WrapperOK(w, t), NEW delta \in Nat
  PROVE  Relief(w.balance, IncreaseBalance(w, delta, t).balance)
<1> DEFINE x == GetAssetShares(w.bank, AssetIncrease(w, delta))
           y == GetLiabilityShares(w.bank, LiabilityDecrease(w, delta))
           v == IncreaseBalance(w, delta, t)
<1>1. x \in Nat /\ y \in Nat /\ Moved(w, v, x, -y, t)  BY MovedSharesNat, BalanceMoves
<1>2. w.balance.asset_shares \in Nat /\ w.balance.liability_shares \in Nat
  BY DEF WrapperOK, BalanceRecords
<1> HIDE DEF x, y, v
<1>3. Relief(w.balance, v.balance)  BY <1>1, <1>2 DEF Moved, Relief
<1> QED BY <1>3 DEF v

\* Shares whose amount is treated as zero do not count, unless a share is
\* worth less than ZERO_AMOUNT_THRESHOLD.
LEMMA DropRelief ==
  ASSUME NEW t \in Nat, NEW w, WrapperOK(w, t), IsZeroWithTolerance(AssetAmount(w)),
         w.bank.asset_share_value >= ZERO_AMOUNT_THRESHOLD
  PROVE  Relief(w.balance, EmptyDeactivated)
<1> DEFINE s == w.balance.asset_shares
           v == w.bank.asset_share_value
<1>1. s \in Nat /\ w.balance.liability_shares \in Nat /\ v \in Nat
  BY DEF WrapperOK, BankRecords, BalanceRecords
<1>2. ONE \in Nat \ {0} /\ ZERO_AMOUNT_THRESHOLD \in Nat  BY OneAssumption, ThresholdAssumption
<1>3. Mul(s, v) < ZERO_AMOUNT_THRESHOLD /\ Mul(s, v) \in Nat
  BY <1>1, MulNat DEF IsZeroWithTolerance, AssetAmount, GetAssetAmount
<1> HIDE DEF s, v
<1>4. s < ONE
  <2>1. SUFFICES ASSUME ONE <= s PROVE FALSE  BY <1>1, <1>2
  <2>2. Mul(ONE, v) <= Mul(s, v) /\ Mul(ONE, v) \in Nat
    <3>1. v <= v  BY <1>1
    <3> QED BY <1>1, <1>2, <2>1, <3>1, MulOrder, MulNat
  <2>3. Mul(ONE, v) = v
    <3>1. ONE * v = v * ONE /\ (v * ONE) \div ONE = v  BY <1>1, <1>2
    <3> QED BY <3>1 DEF Mul
  <2> QED BY <1>1, <1>2, <1>3, <2>2, <2>3 DEF v
<1> QED BY <1>1, <1>4, EmptyIs DEF Relief, EMPTY_BALANCE_THRESHOLD, s

\* The market does not move in a step, and no deposit share is dust: what
\* HealthyUntilMarketMoves supposes.
Steady ==
  /\ risk' = risk /\ oracle' = oracle
  /\ \A b \in Banks : /\ banks'[b].asset_share_value >= banks[b].asset_share_value
                      /\ banks'[b].liability_share_value <= banks[b].liability_share_value
                      /\ banks[b].asset_share_value >= ZERO_AMOUNT_THRESHOLD
                      /\ OnePrice(b)

\* A step leaves account c with an initial health check passed, or relieved in
\* every bank, or finds it below its maintenance requirement.
Spared(c) == \/ InitHealthy(c)'
             \/ \A b \in Banks : Relief(lending[c][b], lending'[c][b])
             \/ ~ MaintenanceHealth(c) >= 0

\* What every instruction is shown to do.
Spares == IdleEmpty' /\ (Steady => \A c \in Accounts : Spared(c))

\* A balance that stays as it is.
LEMMA NoRelief == ASSUME NEW x \in BalanceRecords PROVE Relief(x, x)
BY DEF Relief, BalanceRecords

\* Storing one balance.
LEMMA StoredBalance ==
  ASSUME RecordsOK, NEW a \in Accounts, NEW b \in Banks, NEW w, Store(a, b, w)
  PROVE  /\ lending'[a][b] = w.balance /\ banks'[b] = w.bank
         /\ \A c \in Accounts, d \in Banks : (c # a \/ d # b) => lending'[c][d] = lending[c][d]
<1>1. banks' = [banks EXCEPT ![b] = w.bank] /\ lending' = [lending EXCEPT ![a][b] = w.balance]
  BY DEF Store
<1> QED BY <1>1 DEF RecordsOK

\* An instruction that stores one balance spares every account if it spares
\* the one it is for.
LEMMA StoreSpares ==
  ASSUME LendingInv, IdleEmpty, NEW a \in Accounts, NEW b \in Banks, NEW w, Store(a, b, w),
         w.balance.active \/ w.balance = EmptyDeactivated,
         Steady => InitHealthy(a)' \/ Relief(lending[a][b], w.balance)
  PROVE  Spares
<1>1. RecordsOK  BY DEF LendingInv
<1>2. /\ lending'[a][b] = w.balance
      /\ \A c \in Accounts, d \in Banks : (c # a \/ d # b) => lending'[c][d] = lending[c][d]
  BY <1>1, StoredBalance
<1>3. IdleEmpty'
  <2>1. ASSUME NEW c \in Accounts, NEW d \in Banks
        PROVE  \/ lending'[c][d].active
               \/ lending'[c][d].asset_shares = 0 /\ lending'[c][d].liability_shares = 0
    <3>1. CASE c = a /\ d = b  BY <1>2, <3>1, EmptyIs
    <3>2. CASE c # a \/ d # b  BY <1>2, <3>2 DEF IdleEmpty
    <3> QED BY <3>1, <3>2
  <2> QED BY <2>1 DEF IdleEmpty
<1>4. ASSUME Steady, NEW c \in Accounts PROVE Spared(c)
  <2>1. \A d \in Banks : lending[c][d] \in BalanceRecords  BY <1>1 DEF RecordsOK
  <2>2. CASE c = a /\ InitHealthy(a)'  BY <2>2 DEF Spared
  <2>3. CASE c # a \/ Relief(lending[a][b], w.balance)
    <3>1. ASSUME NEW d \in Banks PROVE Relief(lending[c][d], lending'[c][d])
      <4>1. CASE c = a /\ d = b  BY <1>2, <2>3, <4>1
      <4>2. CASE c # a \/ d # b
        <5>1. lending'[c][d] = lending[c][d]  BY <1>2, <4>2
        <5> QED BY <2>1, <5>1, NoRelief
      <4> QED BY <4>1, <4>2
    <3> QED BY <3>1 DEF Spared
  <2> QED BY <1>4, <2>2, <2>3
<1> QED BY <1>3, <1>4 DEF Spares

\* The balance that find or find_or_create gives an instruction.
LEMMA FoundShares ==
  ASSUME LendingInv, IdleEmpty, NEW a \in Accounts, NEW b \in Banks
  PROVE  /\ now \in Nat /\ WrapperOK(Found(a, b), now) /\ WrapperOK(FoundOrCreated(a, b), now)
         /\ Found(a, b).balance = lending[a][b] /\ FoundOrCreated(a, b).balance.active
         /\ \A y : Relief(FoundOrCreated(a, b).balance, y) => Relief(lending[a][b], y)
<1>1. lending[a][b] \in BalanceRecords /\ now \in Nat  BY DEF LendingInv, RecordsOK, RestOK
<1>2. /\ FoundOrCreated(a, b).balance.active
      /\ FoundOrCreated(a, b).balance.asset_shares = lending[a][b].asset_shares
      /\ FoundOrCreated(a, b).balance.liability_shares = lending[a][b].liability_shares
  BY <1>1, CreatedShares DEF IdleEmpty, FoundOrCreated
<1> QED BY <1>1, <1>2, FoundOK DEF Relief, Found

\* lending_account_deposit and lending_account_repay.
LEMMA PaymentSpares ==
  ASSUME LendingInv, IdleEmpty, NEW a \in Accounts, NEW b \in Banks, NEW amount \in Nat,
         LendingAccountDeposit(a, b, amount) \/ LendingAccountRepay(a, b, amount)
  PROVE  Spares
<1> DEFINE n == amount * ONE
<1>1. n \in Nat  BY NatProduct, OneAssumption
<1>2. /\ now \in Nat /\ WrapperOK(Found(a, b), now) /\ WrapperOK(FoundOrCreated(a, b), now)
      /\ Found(a, b).balance = lending[a][b] /\ FoundOrCreated(a, b).balance.active
      /\ \A y : Relief(FoundOrCreated(a, b).balance, y) => Relief(lending[a][b], y)
  BY FoundShares
<1>3. CASE LendingAccountDeposit(a, b, amount)
  <2> DEFINE w == IncreaseBalance(FoundOrCreated(a, b), n, now)
  <2>1. Store(a, b, w)  BY <1>3 DEF LendingAccountDeposit
  <2>2. Relief(lending[a][b], w.balance)  BY <1>1, <1>2, IncreaseRelief
  <2>3. w.balance.active  BY <1>2, ActiveStays DEF WrapperOK
  <2> HIDE DEF w
  <2> QED BY <2>1, <2>2, <2>3, StoreSpares
<1>4. CASE LendingAccountRepay(a, b, amount)
  <2> DEFINE w == IncreaseBalance(Found(a, b), n, now)
  <2>1. Store(a, b, w) /\ lending[a][b].active  BY <1>4 DEF LendingAccountRepay
  <2>2. Relief(lending[a][b], w.balance)  BY <1>1, <1>2, IncreaseRelief
  <2>3. w.balance.active  BY <1>2, <2>1, ActiveStays DEF WrapperOK
  <2> HIDE DEF w
  <2> QED BY <2>1, <2>2, <2>3, StoreSpares
<1> QED BY <1>3, <1>4

\* lending_account_withdraw, with and without withdraw_all, and
\* lending_account_borrow check the health they leave.
LEMMA CheckedSpares ==
  ASSUME LendingInv, IdleEmpty, NEW a \in Accounts, NEW b \in Banks,
         \/ LendingAccountWithdrawAll(a, b)
         \/ \E amount \in Nat : LendingAccountWithdraw(a, b, amount) \/ LendingAccountBorrow(a, b, amount)
  PROVE  Spares
<1>1. /\ now \in Nat /\ WrapperOK(Found(a, b), now) /\ WrapperOK(FoundOrCreated(a, b), now)
      /\ Found(a, b).balance = lending[a][b] /\ FoundOrCreated(a, b).balance.active
  BY FoundShares
<1>2. CASE LendingAccountWithdrawAll(a, b)
  <2> DEFINE w == WithdrawAll(Found(a, b), now)
  <2>1. Store(a, b, w) /\ InitHealthy(a)'  BY <1>2 DEF LendingAccountWithdrawAll
  <2>2. w.balance = EmptyDeactivated  BY DEF WithdrawAll
  <2> HIDE DEF w
  <2> QED BY <2>1, <2>2, StoreSpares
<1>3. ASSUME NEW amount \in Nat, LendingAccountWithdraw(a, b, amount) PROVE Spares
  <2> DEFINE w == DecreaseBalance(Found(a, b), amount * ONE, now)
  <2>1. Store(a, b, w) /\ InitHealthy(a)' /\ lending[a][b].active  BY <1>3 DEF LendingAccountWithdraw
  <2>2. w.balance.active  BY <1>1, <2>1, ActiveStays DEF WrapperOK
  <2> HIDE DEF w
  <2> QED BY <2>1, <2>2, StoreSpares
<1>4. ASSUME NEW amount \in Nat, LendingAccountBorrow(a, b, amount) PROVE Spares
  <2> DEFINE w == Borrowed(a, b, amount)
  <2>1. Store(a, b, w) /\ InitHealthy(a)'  BY <1>4 DEF LendingAccountBorrow, Borrowed
  <2>2. w.balance = Indebted(a, b, amount).balance  BY Zenon, BorrowedIs
  <2>3. Indebted(a, b, amount).balance.active  BY <1>1, ActiveStays DEF Indebted, WrapperOK
  <2> HIDE DEF w
  <2> QED BY <2>1, <2>2, <2>3, StoreSpares
<1> QED BY <1>2, <1>3, <1>4

\* lending_account_repay with repay_all, and lending_account_close_balance.
LEMMA ClosingSpares ==
  ASSUME LendingInv, IdleEmpty, NEW a \in Accounts, NEW b \in Banks,
         LendingAccountRepayAll(a, b) \/ LendingAccountCloseBalance(a, b)
  PROVE  Spares
<1>1. now \in Nat /\ WrapperOK(Found(a, b), now) /\ Found(a, b).balance = lending[a][b]
  BY FoundShares
<1>2. IsZeroWithTolerance(AssetAmount(Found(a, b)))
  BY Zenon DEF LendingAccountRepayAll, LendingAccountCloseBalance, RepayAllAllowed, CloseBalanceAllowed
<1>3. ASSUME Steady PROVE Relief(lending[a][b], EmptyDeactivated)
  <2>1. /\ Accrued(b).asset_share_value >= banks[b].asset_share_value
        /\ banks[b].asset_share_value >= ZERO_AMOUNT_THRESHOLD
    BY <1>3, AccruedOK DEF Steady, AccrualOK
  <2>2. banks[b].asset_share_value \in Nat  BY DEF LendingInv, RecordsOK, BankRecords
  <2>3. Found(a, b).bank = Accrued(b)  BY DEF Found
  <2>4. Accrued(b).asset_share_value \in Nat  BY <1>1, <2>3 DEF WrapperOK, BankRecords
  <2>5. Found(a, b).bank.asset_share_value >= ZERO_AMOUNT_THRESHOLD
    BY <2>1, <2>2, <2>3, <2>4, ThresholdAssumption
  <2>6. Relief(Found(a, b).balance, EmptyDeactivated)  BY <1>1, <1>2, <2>5, DropRelief
  <2> QED BY <1>1, <2>6
<1>4. CASE LendingAccountRepayAll(a, b)
  <2> DEFINE w == RepayAll(Found(a, b), now)
  <2>1. Store(a, b, w)  BY <1>4 DEF LendingAccountRepayAll
  <2>2. w.balance = EmptyDeactivated  BY DEF RepayAll
  <2> HIDE DEF w
  <2> QED BY <1>3, <2>1, <2>2, StoreSpares
<1>5. CASE LendingAccountCloseBalance(a, b)
  <2> DEFINE w == CloseBalance(Found(a, b), now)
  <2>1. Store(a, b, w)  BY <1>5 DEF LendingAccountCloseBalance
  <2>2. w.balance = EmptyDeactivated  BY DEF CloseBalance
  <2> HIDE DEF w
  <2> QED BY <1>3, <2>1, <2>2, StoreSpares
<1> QED BY <1>4, <1>5

\* lending_pool_handle_bankruptcy.
LEMMA BankruptcySpares ==
  ASSUME LendingInv, IdleEmpty, NEW a \in Accounts, NEW b \in Banks, LendingPoolHandleBankruptcy(a, b)
  PROVE  Spares
<1> DEFINE w == IncreaseBalance(Socialized(a, b), BadDebt(a, b), now)
<1>1. now \in Nat /\ lending[a][b].active  BY DEF LendingInv, RestOK, LendingPoolHandleBankruptcy
<1>2. WrapperOK(Socialized(a, b), now) /\ BadDebt(a, b) \in Nat /\ Store(a, b, w)
  BY Zenon, SocializedOK
<1>3. Socialized(a, b).balance = lending[a][b]  BY DEF Socialized, Held
<1>4. Relief(lending[a][b], w.balance)
  <2>1. Relief(Socialized(a, b).balance, w.balance)  BY Zenon, <1>1, <1>2, IncreaseRelief
  <2> QED BY <1>3, <2>1
<1>5. w.balance.active
  <2>1. w.balance.active = Socialized(a, b).balance.active
    BY Zenon, <1>2, ActiveStays DEF WrapperOK
  <2> QED BY <1>1, <1>3, <2>1
<1> HIDE DEF w
<1> QED BY Zenon, <1>2, <1>4, <1>5, StoreSpares

\* marginfi_account_close.
LEMMA AccountCloseSpares ==
  ASSUME LendingInv, IdleEmpty, NEW a \in Accounts, MarginfiAccountClose(a)
  PROVE  Spares
<1>1. lending \in [Accounts -> [Banks -> BalanceRecords]]  BY DEF LendingInv, RecordsOK
<1>2. /\ lending' = [lending EXCEPT ![a] = [b \in Banks |-> EmptyDeactivated]]
      /\ \A b \in Banks : SideAsserted(lending[a][b]) /\ GetSide(lending[a][b]) = "None"
  BY DEF MarginfiAccountClose, CanBeClosed
<1>3. /\ \A b \in Banks : lending'[a][b] = EmptyDeactivated
      /\ \A c \in Accounts, b \in Banks : c # a => lending'[c][b] = lending[c][b]
  BY <1>1, <1>2
<1>4. IdleEmpty'
  <2>1. ASSUME NEW c \in Accounts, NEW d \in Banks
        PROVE  \/ lending'[c][d].active
               \/ lending'[c][d].asset_shares = 0 /\ lending'[c][d].liability_shares = 0
    <3>1. CASE c = a  BY <1>3, <3>1, EmptyIs
    <3>2. CASE c # a  BY <1>3, <3>2 DEF IdleEmpty
    <3> QED BY <3>1, <3>2
  <2> QED BY <2>1 DEF IdleEmpty
<1>5. ASSUME NEW c \in Accounts, NEW b \in Banks PROVE Relief(lending[c][b], lending'[c][b])
  <2>1. lending[c][b] \in BalanceRecords  BY <1>1
  <2>2. CASE c = a
    <3>1. lending[a][b].asset_shares < EMPTY_BALANCE_THRESHOLD
      BY <1>2, <2>1, <2>2, OneAssumption DEF GetSide, BalanceRecords, EMPTY_BALANCE_THRESHOLD
    <3>2. lending[a][b].liability_shares \in Nat  BY <2>1, <2>2 DEF BalanceRecords
    <3> QED BY <1>3, <2>2, <3>1, <3>2, EmptyIs DEF Relief
  <2>3. CASE c # a  BY <1>3, <2>1, <2>3, NoRelief
  <2> QED BY <2>2, <2>3
<1> QED BY <1>4, <1>5 DEF Spares, Spared

\* The instructions that store no balance.
LEMMA OtherSpares ==
  ASSUME LendingInv, IdleEmpty, lending' = lending
  PROVE  Spares
<1>1. \A c \in Accounts, b \in Banks : lending[c][b] \in BalanceRecords  BY DEF LendingInv, RecordsOK
<1>2. \A c \in Accounts, b \in Banks : Relief(lending[c][b], lending'[c][b])  BY <1>1, NoRelief
<1>3. IdleEmpty'  BY DEF IdleEmpty
<1> QED BY <1>2, <1>3 DEF Spares, Spared

\* The balances that a liquidation stores are active: two in the bank of the
\* collateral,
LEMMA SeizedActive ==
  ASSUME NEW t \in Nat, NEW b, NEW bs \in [Accounts -> BalanceRecords], NEW x \in Accounts, NEW y \in Accounts,
         NEW n, bs[x].active, bs[y].active \/ (bs[y].asset_shares = 0 /\ bs[y].liability_shares = 0)
  PROVE  Seized(b, bs, x, n, t).balance.active /\ Bought(b, bs, x, y, n, t).balance.active
<1>1. Seized(b, bs, x, n, t).balance.active
  <2> DEFINE w == [bank |-> b, balance |-> bs[x]]
  <2>1. w.balance = bs[x] /\ bs[x] \in BalanceRecords  OBVIOUS
  <2>2. Seized(b, bs, x, n, t) = DecreaseBalance(w, n, t)  BY DEF Seized
  <2> HIDE DEF w
  <2> QED BY <2>1, <2>2, ActiveStays
<1>2. Bought(b, bs, x, y, n, t).balance.active
  <2> DEFINE w == FindOrCreate(Seized(b, bs, x, n, t).bank, bs[y], t)
  <2>1. bs[y] \in BalanceRecords  OBVIOUS
  <2>2. w.balance \in BalanceRecords /\ w.balance.active  BY <2>1, CreatedShares
  <2>3. Bought(b, bs, x, y, n, t) = IncreaseBalance(w, n, t)  BY DEF Bought
  <2> HIDE DEF w
  <2> QED BY <2>2, <2>3, ActiveStays
<1> QED BY <1>1, <1>2

\* and two in the bank of the debt.
LEMMA RelievedActive ==
  ASSUME NEW t \in Nat, NEW b, NEW bs \in [Accounts -> BalanceRecords], NEW x \in Accounts, NEW y \in Accounts,
         NEW q, NEW r, bs[x].active, bs[y].active \/ (bs[y].asset_shares = 0 /\ bs[y].liability_shares = 0)
  PROVE  Relieved(b, bs, x, y, q, r, t).balance.active /\ Paid(b, bs, y, q, t).balance.active
<1>1. Relieved(b, bs, x, y, q, r, t).balance.active
  <2> DEFINE w == [bank |-> Paid(b, bs, y, q, t).bank, balance |-> bs[x]]
  <2>1. w.balance = bs[x] /\ bs[x] \in BalanceRecords  OBVIOUS
  <2>2. Relieved(b, bs, x, y, q, r, t) = IncreaseBalance(w, r, t)  BY DEF Relieved
  <2> HIDE DEF w
  <2> QED BY <2>1, <2>2, ActiveStays
<1>2. Paid(b, bs, y, q, t).balance.active
  <2> DEFINE w == FindOrCreate(b, bs[y], t)
  <2>1. bs[y] \in BalanceRecords  OBVIOUS
  <2>2. w.balance \in BalanceRecords /\ w.balance.active  BY <2>1, CreatedShares
  <2>3. Paid(b, bs, y, q, t) = DecreaseBalance(w, q, t)  BY DEF Paid
  <2> HIDE DEF w
  <2> QED BY <2>2, <2>3, ActiveStays
<1> QED BY <1>1, <1>2

\* The position of account a in bank b, the banks being bs.
PositionIn(p, bs, a, b) ==
  /\ PositionOK(p) /\ p.bank = bs[b] /\ p.balance = lending[a][b]
  /\ p.risk = risk[b] /\ p.feed = oracle[b]

\* The numbers of a position in a state of the group, its banks as they are
\* or accrued.
LEMMA PositionsOK ==
  ASSUME LendingInv, NEW a \in Accounts, NEW bs, \A b \in Banks : bs[b] \in BankRecords, NEW b \in Banks
  PROVE  PositionIn(PositionsWith(bs, a)[b], bs, a, b)
<1> DEFINE p == PositionsWith(bs, a)[b]
<1>1. p.bank = bs[b] /\ p.balance = lending[a][b] /\ p.risk = risk[b] /\ p.feed = oracle[b]
  BY DEF PositionsWith
<1> HIDE DEF p
<1>2. lending[a][b] \in BalanceRecords /\ risk[b] \in RiskConfigs /\ RestOK
  BY DEF LendingInv, RecordsOK, RestOK
<1>3. FeedFor(risk[b].oracle_setup, oracle[b])  BY <1>2, OraclesFit
<1>4. \A bias \in Biases : Price(p, "RealTime", bias) \in Nat  BY <1>1, <1>3, BandOK DEF Biases, Price
<1>5. PositionIn(p, bs, a, b)  BY <1>1, <1>2, <1>4 DEF PositionOK, PositionIn
<1> QED BY Zenon, <1>5 DEF p

\* Under a steady market an account that lending_account_liquidate accepts did
\* not meet its maintenance requirement: with the interest it accrues the
\* health is no lower than before, the instruction must raise it, and must not
\* raise it above zero.
LEMMA LiquidateeUnhealthy ==
  ASSUME LendingInv, Steady, NEW a \in Accounts, NEW bs, NEW h, NEW y \in Banks,
         DOMAIN bs = Banks,
         \A b \in Banks : /\ bs[b] \in BankRecords
                          /\ bs[b].asset_share_value >= banks[b].asset_share_value
                          /\ bs[b].liability_share_value = banks'[b].liability_share_value,
         CheckPreLiquidationCondition(PositionsWith(bs, a), y, now),
         CheckPostLiquidationCondition(h, y, GetAccountHealth(PositionsWith(bs, a), "Maintenance", now), now),
         GetAccountHealth(h, "Maintenance", now) \in Int
  PROVE  ~ MaintenanceHealth(a) >= 0
<1> DEFINE ps == Positions(a)
           qs == PositionsWith(bs, a)
<1>1. DOMAIN ps = Banks /\ DOMAIN qs = Banks  BY DEF Positions, PositionsWith
<1>2. \A b \in Banks : banks[b] \in BankRecords  BY DEF LendingInv, RecordsOK
<1>3. ASSUME NEW b \in Banks
      PROVE  /\ PositionOK(ps[b]) /\ PositionOK(qs[b])
             /\ qs[b].risk = ps[b].risk /\ qs[b].feed = ps[b].feed
             /\ ps[b].bank.asset_share_value <= qs[b].bank.asset_share_value
             /\ qs[b].bank.liability_share_value <= ps[b].bank.liability_share_value
             /\ Relief(ps[b].balance, qs[b].balance)
  <2>1. /\ PositionOK(ps[b]) /\ ps[b].bank = banks[b] /\ ps[b].balance = lending[a][b]
        /\ ps[b].risk = risk[b] /\ ps[b].feed = oracle[b]
    <3>1. PositionIn(PositionsWith(banks, a)[b], banks, a, b)  BY Zenon, <1>2, PositionsOK
    <3> QED BY Zenon, <3>1 DEF Positions, PositionIn
  <2>2. /\ PositionOK(qs[b]) /\ qs[b].bank = bs[b] /\ qs[b].balance = lending[a][b]
        /\ qs[b].risk = risk[b] /\ qs[b].feed = oracle[b]
    <3>1. PositionIn(PositionsWith(bs, a)[b], bs, a, b)  BY Zenon, PositionsOK
    <3> QED BY Zenon, <3>1 DEF PositionIn
  <2> HIDE DEF ps, qs
  <2>3. lending[a][b] \in BalanceRecords  BY DEF LendingInv, RecordsOK
  <2>4. banks[b].asset_share_value \in Nat /\ bs[b].asset_share_value \in Nat
    BY <1>2 DEF BankRecords
  <2>5. banks[b].asset_share_value <= bs[b].asset_share_value  BY <2>4
  <2>6. bs[b].liability_share_value <= banks[b].liability_share_value  BY DEF Steady
  <2> QED BY <2>1, <2>2, <2>3, <2>5, <2>6, NoRelief
<1> HIDE DEF ps, qs
<1>4. /\ GetAccountHealth(ps, "Maintenance", now) \in Int
      /\ GetAccountHealth(qs, "Maintenance", now) \in Int
      /\ GetAccountHealth(ps, "Maintenance", now) <= GetAccountHealth(qs, "Maintenance", now)
  BY Zenon, <1>1, <1>3, HealthOrder
<1>5. /\ GetAccountHealth(qs, "Maintenance", now) <= 0 /\ GetAccountHealth(h, "Maintenance", now) <= 0
      /\ GetAccountHealth(h, "Maintenance", now) > GetAccountHealth(qs, "Maintenance", now)
  BY DEF CheckPreLiquidationCondition, CheckPostLiquidationCondition, qs
<1> QED BY <1>4, <1>5 DEF MaintenanceHealth, ps

\* The same after a step that moves neither prices nor risk parameters.
LEMMA PositionsAfter ==
  ASSUME LendingInv, LendingInv', risk' = risk, oracle' = oracle, NEW a \in Accounts
  PROVE  /\ DOMAIN Positions(a)' = Banks /\ GetAccountHealth(Positions(a)', "Maintenance", now') \in Int
         /\ \A b \in Banks :
              /\ PositionOK(Positions(a)'[b]) /\ Positions(a)'[b].bank = banks'[b]
              /\ Positions(a)'[b].balance = lending'[a][b]
              /\ Positions(a)'[b].risk = risk[b] /\ Positions(a)'[b].feed = oracle[b]
<1> DEFINE ps == Positions(a)'
<1>1. DOMAIN ps = Banks  BY DEF Positions, PositionsWith
<1>2. ASSUME NEW b \in Banks
      PROVE  /\ PositionOK(ps[b]) /\ ps[b].bank = banks'[b] /\ ps[b].balance = lending'[a][b]
             /\ ps[b].risk = risk[b] /\ ps[b].feed = oracle[b]
  <2> DEFINE p == ps[b]
  <2>1. p.bank = banks'[b] /\ p.balance = lending'[a][b] /\ p.risk = risk[b] /\ p.feed = oracle[b]
    BY DEF Positions, PositionsWith
  <2> HIDE DEF p
  <2>2. banks'[b] \in BankRecords /\ lending'[a][b] \in BalanceRecords  BY DEF LendingInv, RecordsOK
  <2>3. risk[b] \in RiskConfigs /\ RestOK  BY DEF LendingInv, RestOK
  <2>4. FeedFor(risk[b].oracle_setup, oracle[b])  BY <2>3, OraclesFit
  <2>5. \A bias \in Biases : Price(p, "RealTime", bias) \in Nat  BY <2>1, <2>4, BandOK DEF Biases, Price
  <2> QED BY <2>1, <2>2, <2>3, <2>5 DEF PositionOK, p
<1> HIDE DEF ps
<1>3. ASSUME NEW b \in Banks
      PROVE  /\ ps[b].bank.asset_share_value <= ps[b].bank.asset_share_value
             /\ ps[b].bank.liability_share_value <= ps[b].bank.liability_share_value
             /\ Relief(ps[b].balance, ps[b].balance)
  <2>1. ps[b].bank \in BankRecords /\ ps[b].balance \in BalanceRecords  BY <1>2 DEF PositionOK
  <2> QED BY <2>1, NoRelief DEF BankRecords
<1>4. GetAccountHealth(ps, "Maintenance", now') \in Int  BY Zenon, <1>1, <1>2, <1>3, HealthOrder
<1> QED BY <1>1, <1>2, <1>4 DEF ps

\* lending_account_liquidate.
LEMMA LiquidateSpares ==
  ASSUME LendingInv, LendingInv', IdleEmpty, NEW liquidator \in Accounts, NEW liquidatee \in Accounts,
         NEW asset_bank \in Banks, NEW liab_bank \in Banks, NEW amount \in Nat,
         LendingAccountLiquidate(liquidator, liquidatee, asset_bank, liab_bank, amount)
  PROVE  Spares
<1> DEFINE n == amount * ONE
           q == LiabilityFor(amount, RealTimePrice(asset_bank, "Low"),
                             RealTimePrice(liab_bank, "High"), LIQUIDATION_LIQUIDATOR_FEE)
           r == LiabilityFor(amount, RealTimePrice(asset_bank, "Low"),
                             RealTimePrice(liab_bank, "High"),
                             LIQUIDATION_INSURANCE_FEE + LIQUIDATION_LIQUIDATOR_FEE)
           d == q - r
           accrued == [banks EXCEPT ![asset_bank] = Accrued(asset_bank),
                                    ![liab_bank] = Accrued(liab_bank)]
           X == Held(asset_bank)
           Y == Held(liab_bank)
<1>1. RecordsOK /\ RestOK /\ now \in Nat /\ ONE \in Nat \ {0}
  BY OneAssumption DEF LendingInv, RestOK
<1>2. /\ asset_bank # liab_bank /\ liquidator # liquidatee /\ RealTimePrice(liab_bank, "High") > 0
      /\ UNCHANGED <<risk, oracle, now>>
  BY <1>1, Liquidated
<1>3. /\ banks'[asset_bank] = Bought(Accrued(asset_bank), X, liquidatee, liquidator, n, now).bank
      /\ X' = SeizedBalances(Accrued(asset_bank), X, liquidatee, liquidator, n, now)
  BY <1>1, Liquidated
<1>4. /\ banks'[liab_bank]
           = RelievedBank(Accrued(liab_bank), Y, liquidatee, liquidator, q, r, d % ONE, now)
      /\ Y' = RelievedBalances(Accrued(liab_bank), Y, liquidatee, liquidator, q, r, now)
  BY <1>1, Liquidated
<1>5. \A c \in Banks : c # asset_bank /\ c # liab_bank => banks'[c] = banks[c] /\ Held(c)' = Held(c)
  BY <1>1, Liquidated
<1>6. /\ CheckPreLiquidationCondition(PositionsWith(accrued, liquidatee), liab_bank, now)
      /\ CheckPostLiquidationCondition(Positions(liquidatee)', liab_bank,
           GetAccountHealth(PositionsWith(accrued, liquidatee), "Maintenance", now), now)
      /\ InitHealthy(liquidator)' /\ lending[liquidatee][asset_bank].active
  BY Zenon DEF LendingAccountLiquidate
<1>7. lending[liquidatee][liab_bank].active
  BY <1>6 DEF CheckPreLiquidationCondition, PositionsWith
<1>8. n \in Nat /\ q \in Nat /\ r \in Nat /\ r <= q
  BY <1>1, <1>2, NatProduct, OneAssumption, LiquidationAmounts
<1>9. /\ X \in [Accounts -> BalanceRecords] /\ Y \in [Accounts -> BalanceRecords]
      /\ X[liquidatee].active /\ Y[liquidatee].active
      /\ X[liquidator].active \/ (X[liquidator].asset_shares = 0 /\ X[liquidator].liability_shares = 0)
      /\ Y[liquidator].active \/ (Y[liquidator].asset_shares = 0 /\ Y[liquidator].liability_shares = 0)
  BY <1>1, <1>6, <1>7 DEF Held, RecordsOK, IdleEmpty
<1>10. \A a \in Accounts, c \in Banks : lending[a][c] = Held(c)[a] /\ lending'[a][c] = Held(c)'[a]
  BY DEF Held
<1>11. d \in Nat /\ d % ONE \in Nat
  <2> HIDE DEF n, q, r
  <2>1. d \in Nat  BY <1>8
  <2> HIDE DEF d
  <2> QED BY <1>1, <2>1
<1> HIDE DEF n, q, r, d
<1>12. /\ X'[liquidatee].active /\ X'[liquidator].active
       /\ \A a \in Accounts : a # liquidator /\ a # liquidatee => X'[a] = X[a]
  <2> DEFINE x == Seized(Accrued(asset_bank), X, liquidatee, n, now).balance
             y == Bought(Accrued(asset_bank), X, liquidatee, liquidator, n, now).balance
  <2>1. x.active /\ y.active  BY Zenon, <1>1, <1>9, SeizedActive
  <2>2. X' = [X EXCEPT ![liquidatee] = x, ![liquidator] = y]  BY <1>3 DEF SeizedBalances
  <2> HIDE DEF X, x, y
  <2> QED BY <1>2, <1>9, <2>1, <2>2
<1>13. /\ Y'[liquidatee].active /\ Y'[liquidator].active
       /\ \A a \in Accounts : a # liquidator /\ a # liquidatee => Y'[a] = Y[a]
  <2> DEFINE x == Relieved(Accrued(liab_bank), Y, liquidatee, liquidator, q, r, now).balance
             y == Paid(Accrued(liab_bank), Y, liquidator, q, now).balance
  <2>1. x.active /\ y.active  BY Zenon, <1>1, <1>9, RelievedActive
  <2>2. Y' = [Y EXCEPT ![liquidator] = y, ![liquidatee] = x]  BY <1>4 DEF RelievedBalances
  <2> HIDE DEF Y, x, y
  <2> QED BY <1>2, <1>9, <2>1, <2>2
<1>14. \A a \in Accounts, c \in Banks :
         \/ lending'[a][c] = lending[a][c]
         \/ (a = liquidator \/ a = liquidatee) /\ lending'[a][c].active
  BY <1>5, <1>10, <1>12, <1>13
<1>15. IdleEmpty'
  <2>1. ASSUME NEW a \in Accounts, NEW c \in Banks
        PROVE  \/ lending'[a][c].active
               \/ lending'[a][c].asset_shares = 0 /\ lending'[a][c].liability_shares = 0
    BY <1>14 DEF IdleEmpty
  <2> QED BY <2>1 DEF IdleEmpty
<1>16. ASSUME NEW c \in Banks
       PROVE  /\ accrued[c] \in BankRecords
              /\ accrued[c].asset_share_value >= banks[c].asset_share_value
              /\ accrued[c].liability_share_value = banks'[c].liability_share_value
  <2>1. AccrualOK(banks[c], Accrued(c), now) /\ banks[c] \in BankRecords
    BY <1>1, AccruedOK DEF RecordsOK
  <2>2. LedgerOK(Accounts, Accrued(c), Held(c), vaults[c]["emissions"] * ONE, now)  BY AccruedOK
  <2>3. vaults[c]["emissions"] * ONE \in Nat  BY <1>1, EmissionsUnits
  <2>4. CASE c = asset_bank
    <3>1. banks'[c].liability_share_value = Accrued(c).liability_share_value
      <4> DEFINE e == vaults[asset_bank]["emissions"] * ONE
      <4>1. LedgerOK(Accounts, Accrued(asset_bank), X, e, now) /\ e \in Nat  BY <2>2, <2>3, <2>4
      <4> HIDE DEF e, X
      <4>2. Bought(Accrued(asset_bank), X, liquidatee, liquidator, n, now).bank.liability_share_value
              = Accrued(asset_bank).liability_share_value
        BY <1>1, <1>2, <1>8, <4>1, SeizedLedger, AccountsFinite
      <4> QED BY <1>3, <2>4, <4>2
    <3>2. accrued[c] = Accrued(c)  BY <1>1, <1>2, <2>4 DEF RecordsOK
    <3> QED BY <2>1, <3>1, <3>2 DEF AccrualOK
  <2>5. CASE c = liab_bank
    <3>1. banks'[c].liability_share_value = Accrued(c).liability_share_value
      <4> DEFINE e == vaults[liab_bank]["emissions"] * ONE
      <4>1. LedgerOK(Accounts, Accrued(liab_bank), Y, e, now) /\ e \in Nat  BY <2>2, <2>3, <2>5
      <4> DEFINE dust == d % ONE
      <4> HIDE DEF e, Y, dust
      <4>2. RelievedBank(Accrued(liab_bank), Y, liquidatee, liquidator, q, r, dust, now).liability_share_value
              = Accrued(liab_bank).liability_share_value
        <5>1. now \in Nat /\ q \in Nat /\ r \in Nat /\ dust \in Nat /\ liquidatee # liquidator
          BY <1>1, <1>2, <1>8, <1>11 DEF dust
        <5>2. /\ LedgerOK(Accounts, RelievedBank(Accrued(liab_bank), Y, liquidatee, liquidator, q, r, dust, now),
                           RelievedBalances(Accrued(liab_bank), Y, liquidatee, liquidator, q, r, now), e, now)
              /\ RelievedBank(Accrued(liab_bank), Y, liquidatee, liquidator, q, r, dust, now).liability_share_value
                   = Accrued(liab_bank).liability_share_value
          BY <4>1, <5>1, RelievedLedger, AccountsFinite
        <5> QED BY <5>2
      <4> QED BY <1>4, <2>5, <4>2 DEF dust
    <3>2. accrued[c] = Accrued(c)  BY <1>1, <1>2, <2>5 DEF RecordsOK
    <3> QED BY <2>1, <3>1, <3>2 DEF AccrualOK
  <2>6. CASE c # asset_bank /\ c # liab_bank
    <3>1. accrued[c] = banks[c] /\ banks'[c] = banks[c]  BY <1>1, <1>5, <2>6 DEF RecordsOK
    <3>2. banks[c].asset_share_value >= banks[c].asset_share_value  BY <2>1 DEF BankRecords
    <3> QED BY <2>1, <3>1, <3>2
  <2> QED BY <2>4, <2>5, <2>6
<1>17. ASSUME Steady PROVE ~ MaintenanceHealth(liquidatee) >= 0
  <2>1. DOMAIN accrued = Banks  BY <1>1 DEF RecordsOK
  <2>2. GetAccountHealth(Positions(liquidatee)', "Maintenance", now) \in Int
    BY <1>2, PositionsAfter
  <2> DEFINE h == Positions(liquidatee)'
  <2> HIDE DEF accrued, h
  <2> QED BY Zenon, <1>6, <1>16, <1>17, <2>1, <2>2, LiquidateeUnhealthy DEF h
<1>18. ASSUME Steady, NEW c \in Accounts PROVE Spared(c)
  <2>1. CASE c = liquidator  BY <1>6, <2>1 DEF Spared
  <2>2. CASE c = liquidatee  BY <1>17, <1>18, <2>2 DEF Spared
  <2>3. CASE c # liquidator /\ c # liquidatee
    <3>1. ASSUME NEW b \in Banks PROVE Relief(lending[c][b], lending'[c][b])
      <4>1. lending'[c][b] = lending[c][b] /\ lending[c][b] \in BalanceRecords
        BY <1>1, <1>14, <2>3 DEF RecordsOK
      <4> QED BY <4>1, NoRelief
    <3> QED BY <3>1 DEF Spared
  <2> QED BY <2>1, <2>2, <2>3
<1> QED BY <1>15, <1>18 DEF Spares

\* Every instruction spares the accounts.
LEMMA NextSpares ==
  ASSUME LendingInv, LendingInv', IdleEmpty, [Next]_vars
  PROVE  Spares
<1>0. Amounts \subseteq Nat /\ SeizedAmounts \subseteq Nat  BY LendingAssumption
<1>1. ASSUME NEW a \in Accounts, AccountStep(a) PROVE Spares
  <2>1. ASSUME NEW b \in Banks, NEW amount \in Nat,
               LendingAccountDeposit(a, b, amount) \/ LendingAccountRepay(a, b, amount)
        PROVE  Spares
    BY <2>1, PaymentSpares
  <2>2. ASSUME NEW b \in Banks,
               \/ LendingAccountWithdrawAll(a, b)
               \/ \E amount \in Nat : \/ LendingAccountWithdraw(a, b, amount)
                                       \/ LendingAccountBorrow(a, b, amount)
        PROVE  Spares
    BY <2>2, CheckedSpares
  <2>3. ASSUME NEW b \in Banks, LendingAccountRepayAll(a, b) \/ LendingAccountCloseBalance(a, b)
        PROVE  Spares
    BY <2>3, ClosingSpares
  <2>4. ASSUME NEW b \in Banks, LendingPoolHandleBankruptcy(a, b) PROVE Spares
    BY <2>4, BankruptcySpares
  <2>5. CASE MarginfiAccountClose(a)  BY <2>5, AccountCloseSpares
  <2> QED BY <1>0, <1>1, <2>1, <2>2, <2>3, <2>4, <2>5 DEF AccountStep
<1>2. ASSUME NEW liquidator \in Accounts, NEW liquidatee \in Accounts, NEW asset_bank \in Banks,
             NEW liab_bank \in Banks, NEW amount \in SeizedAmounts,
             LendingAccountLiquidate(liquidator, liquidatee, asset_bank, liab_bank, amount)
      PROVE  Spares
  BY <1>0, <1>2, LiquidateSpares
<1>3. ASSUME NEW b \in Banks, BankStep(b) PROVE lending' = lending
  BY <1>3 DEF BankStep, LendingPoolAccrueBankInterest, LendingPoolConfigureBank, Publish
<1>4. Tick \/ UNCHANGED vars => lending' = lending  BY DEF Tick, vars
<1> QED BY <1>1, <1>2, <1>3, <1>4, OtherSpares DEF Next

\* A group starts with no balance at all.
LEMMA InitIdle == Init => IdleEmpty
BY EmptyIs DEF Init, IdleEmpty

\* An account that a step spares in a steady market meets its maintenance
\* requirement after the step if it did before.
LEMMA SparedHealthy ==
  ASSUME LendingInv, LendingInv', Steady, NEW a \in Accounts, Spared(a), MaintenanceHealth(a) >= 0
  PROVE  ~ MaintenanceHealth(a)' < 0
<1> DEFINE ps == Positions(a)
           qs == Positions(a)'
<1>1. risk' = risk /\ oracle' = oracle  BY DEF Steady
<1>2. /\ DOMAIN qs = Banks
      /\ \A b \in Banks :
           /\ PositionOK(qs[b]) /\ qs[b].bank = banks'[b] /\ qs[b].balance = lending'[a][b]
           /\ qs[b].risk = risk[b] /\ qs[b].feed = oracle[b]
  BY <1>1, PositionsAfter
<1>3. MaintenanceHealth(a)' = GetAccountHealth(qs, "Maintenance", now')  BY DEF MaintenanceHealth
<1>4. CASE InitHealthy(a)'
  <2>1. CheckAccountInitHealth(qs, now')  BY <1>4 DEF InitHealthy
  <2>2. ASSUME NEW b \in Banks, NEW bias \in Biases
        PROVE  Price(qs[b], "TimeWeighted", bias) = Price(qs[b], "RealTime", bias)
    <3>1. RestOK /\ OnePrice(b)  BY DEF LendingInv, Steady
    <3>2. Price(ps[b], "TimeWeighted", bias) = Price(ps[b], "RealTime", bias)  BY <3>1, SamePrices
    <3>3. ps[b].risk = risk[b] /\ ps[b].feed = oracle[b]  BY DEF Positions, PositionsWith
    <3> HIDE DEF ps, qs
    <3> QED BY <1>2, <3>2, <3>3 DEF Price
  <2> HIDE DEF qs
  <2>3. GetAccountHealth(qs, "Maintenance", now') \in Nat
    BY Zenon, <1>2, <2>1, <2>2, InitialHealthy
  <2> QED BY <1>3, <2>3
<1>5. CASE \A b \in Banks : Relief(lending[a][b], lending'[a][b])
  <2>1. \A b \in Banks : banks[b] \in BankRecords  BY DEF LendingInv, RecordsOK
  <2>2. DOMAIN ps = Banks  BY DEF Positions, PositionsWith
  <2>3. ASSUME NEW b \in Banks
        PROVE  /\ PositionOK(ps[b]) /\ PositionOK(qs[b])
               /\ qs[b].risk = ps[b].risk /\ qs[b].feed = ps[b].feed
               /\ ps[b].bank.asset_share_value <= qs[b].bank.asset_share_value
               /\ qs[b].bank.liability_share_value <= ps[b].bank.liability_share_value
               /\ Relief(ps[b].balance, qs[b].balance)
    <3>1. /\ PositionOK(ps[b]) /\ ps[b].bank = banks[b] /\ ps[b].balance = lending[a][b]
          /\ ps[b].risk = risk[b] /\ ps[b].feed = oracle[b]
      <4>1. PositionIn(PositionsWith(banks, a)[b], banks, a, b)  BY Zenon, <2>1, PositionsOK
      <4> QED BY Zenon, <4>1 DEF Positions, PositionIn
    <3> HIDE DEF ps, qs
    <3>2. ps[b].bank \in BankRecords /\ qs[b].bank \in BankRecords  BY <1>2, <3>1 DEF PositionOK
    <3>3. banks[b].asset_share_value \in Nat /\ banks'[b].asset_share_value \in Nat
      BY <1>2, <3>1, <3>2 DEF BankRecords
    <3>4. /\ banks[b].asset_share_value <= banks'[b].asset_share_value
          /\ banks'[b].liability_share_value <= banks[b].liability_share_value
      BY <3>3 DEF Steady
    <3> QED BY <1>2, <1>5, <3>1, <3>4
  <2> HIDE DEF ps, qs
  <2>4. /\ GetAccountHealth(ps, "Maintenance", now) \in Int
        /\ GetAccountHealth(qs, "Maintenance", now') \in Int
        /\ GetAccountHealth(ps, "Maintenance", now) <= GetAccountHealth(qs, "Maintenance", now')
    BY Zenon, <1>2, <2>2, <2>3, HealthOrder
  <2>5. GetAccountHealth(ps, "Maintenance", now) >= 0  BY DEF MaintenanceHealth, ps
  <2> QED BY <1>3, <2>4, <2>5
<1> QED BY <1>4, <1>5 DEF Spared

\* In a group of any number of banks and accounts only the market makes a
\* healthy account liquidatable: no deposit, borrow, withdrawal, repayment,
\* close, liquidation or bankruptcy of anyone does, where the two prices of each
\* oracle agree and no deposit share is worth less than ZERO_AMOUNT_THRESHOLD.
THEOREM OnlyTheMarketHarms == Spec => HealthyUntilMarketMoves
<1>1. LendingInv /\ LendingInv' /\ IdleEmpty /\ [Next]_vars => IdleEmpty'  BY NextSpares DEF Spares
<1>2. ASSUME LendingInv, LendingInv', IdleEmpty, [Next]_vars, NEW a \in Accounts,
             MaintenanceHealth(a) >= 0, MaintenanceHealth(a)' < 0
      PROVE  \/ oracle' # oracle \/ risk' # risk
             \/ \E b \in Banks :
                  \/ banks'[b].asset_share_value < banks[b].asset_share_value
                  \/ banks'[b].liability_share_value > banks[b].liability_share_value
                  \/ banks[b].asset_share_value < ZERO_AMOUNT_THRESHOLD
                  \/ oracle[b].price # oracle[b].ema_price \/ oracle[b].conf # oracle[b].ema_conf
  <2>1. ~ Steady
    <3>1. SUFFICES ASSUME Steady PROVE FALSE  OBVIOUS
    <3>2. Spared(a)  BY <1>2, <3>1, NextSpares DEF Spares
    <3> QED BY <1>2, <3>1, <3>2, SparedHealthy
  <2>2. ASSUME NEW b \in Banks
        PROVE  /\ banks[b].asset_share_value \in Int /\ banks[b].liability_share_value \in Int
               /\ banks'[b].asset_share_value \in Int /\ banks'[b].liability_share_value \in Int
    <3>1. banks[b] \in BankRecords /\ banks'[b] \in BankRecords  BY <1>2 DEF LendingInv, RecordsOK
    <3> QED BY <3>1 DEF BankRecords
  <2>3. ZERO_AMOUNT_THRESHOLD \in Int  BY ThresholdAssumption
  <2> QED BY <2>1, <2>2, <2>3 DEF Steady, OnePrice
<1>3. LendingInv /\ LendingInv' /\ IdleEmpty /\ [Next]_vars =>
        [\A a \in Accounts :
           MaintenanceHealth(a) >= 0 /\ MaintenanceHealth(a)' < 0 =>
             \/ oracle' # oracle \/ risk' # risk
             \/ \E b \in Banks :
                  \/ banks'[b].asset_share_value < banks[b].asset_share_value
                  \/ banks'[b].liability_share_value > banks[b].liability_share_value
                  \/ banks[b].asset_share_value < ZERO_AMOUNT_THRESHOLD
                  \/ oracle[b].price # oracle[b].ema_price \/ oracle[b].conf # oracle[b].ema_conf]_vars
  BY <1>2
<1> QED BY <1>1, <1>3, InitIdle, GroupInvariant, PTL DEF Spec, HealthyUntilMarketMoves

=============================================================================
