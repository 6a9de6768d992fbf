------------------------ MODULE BankLedgerStepProofs ------------------------
(***************************************************************************)
(* The action properties of BankLedger.tla: what every instruction does to *)
(* all balances of the bank, from what its operations do to one.           *)
(***************************************************************************)
EXTENDS BankLedgerProofs

-----------------------------------------------------------------------------
(* What one operation may do to the balance and the totals of the bank:   *)
(* the dust it leaves behind, the emissions it credits, the operational    *)
(* state and the limits it respects.                                       *)

\* The shares that the totals count and no balance holds any more.
AssetDust(w, v) == (v.bank.total_asset_shares - v.balance.asset_shares)
                     - (w.bank.total_asset_shares - w.balance.asset_shares)
LiabilityDust(w, v) == (v.bank.total_liability_shares - v.balance.liability_shares)
                         - (w.bank.total_liability_shares - w.balance.liability_shares)

\* A balance changes by these shares, in a bank that was in this state.
ModeKept(state, b, assets, liabs) ==
  /\ state = "Paused" => /\ Residue(-assets, GetAssetAmount(b, -assets))
                         /\ Residue(-liabs, GetLiabilityAmount(b, -liabs))
  /\ state = "ReduceOnly" => /\ GetAssetAmount(b, assets) <= ZERO_AMOUNT_THRESHOLD
                             /\ GetLiabilityAmount(b, liabs) <= ZERO_AMOUNT_THRESHOLD

OperationOK(w, v, t) ==
  /\ Residue(AssetDust(w, v), GetAssetAmount(v.bank, AssetDust(w, v)))
  /\ Residue(LiabilityDust(w, v), GetLiabilityAmount(v.bank, LiabilityDust(w, v)))
  /\ v.balance.emissions_outstanding > w.balance.emissions_outstanding =>
       w.balance.last_update < t /\ v.balance.last_update = t
  /\ ModeKept(w.bank.config.operational_state, v.bank,
              v.balance.asset_shares - w.balance.asset_shares,
              v.balance.liability_shares - w.balance.liability_shares)
  /\ v.balance.active \/ v.balance = EmptyDeactivated

LimitsKept(w, v) ==
  /\ v.balance.asset_shares > w.balance.asset_shares => DepositLimitRespected(v.bank, 1, FALSE)
  /\ v.balance.liability_shares > w.balance.liability_shares => BorrowLimitRespected(v.bank, 1, FALSE)

\* Nothing dropped is dust, whatever the share values.
LEMMA NoDust == \A amount : Residue(0, amount)
BY OneAssumption DEF Residue, EMPTY_BALANCE_THRESHOLD

\* The shares bought for an amount are worth no more than it.
LEMMA BoughtShares ==
  ASSUME NEW x \in Nat, NEW v \in Nat \ {0}
  PROVE  Mul(Div(x, v), v) <= x
<1> DEFINE d == (x * ONE) \div v
<1>1. ONE \in Nat \ {0} /\ x * ONE \in Nat  BY OneAssumption, NatProduct
<1>2. d \in Nat /\ v * d <= x * ONE  BY <1>1, DivBounds
<1> HIDE DEF d
<1>3. d * v \in Nat /\ d * v = v * d /\ x * ONE = ONE * x  BY <1>1, <1>2
<1>4. (d * v) \div ONE <= x  BY <1>1, <1>2, <1>3, DivLeast
<1> QED BY <1>4 DEF Mul, Div, d

\* Shares that are taken away are worth nothing positive.
LEMMA TakenShares ==
  ASSUME NEW x \in Nat, NEW v \in Nat
  PROVE  Mul(-x, v) <= 0
<1>1. ONE \in Nat \ {0} /\ x * v \in Nat  BY OneAssumption, NatProduct
<1>2. (-x) * v = -(x * v)  OBVIOUS
<1> DEFINE p == x * v
           q == (-p) \div ONE
<1>3. p \in Nat  BY <1>1
<1> HIDE DEF p
<1>4. q \in Int /\ ONE * q <= -p  BY <1>1, <1>3
<1>5. q <= 0
  <2> HIDE DEF q
  <2>1. SUFFICES ASSUME q > 0 PROVE FALSE  BY <1>4
  <2>2. ONE * q > 0  BY <1>1, <1>4, <2>1
  <2> QED BY <1>1, <1>3, <1>4, <2>2
<1> QED BY <1>2, <1>5 DEF Mul, p, q

\* Nor more than the tolerance.
LEMMA TakenAmount ==
  ASSUME NEW x \in Nat, NEW v \in Nat
  PROVE  Mul(-x, v) <= ZERO_AMOUNT_THRESHOLD
<1>1. Mul(-x, v) \in Int
  <2>1. (-x) * v \in Int  OBVIOUS
  <2> QED BY <2>1, OneAssumption DEF Mul
<1>2. Mul(-x, v) <= 0  BY TakenShares
<1> QED BY <1>1, <1>2, ThresholdAssumption

\* A balance that keeps its shares respects every mode.
LEMMA NothingMoved ==
  ASSUME NEW b \in BankRecords, NEW state
  PROVE  ModeKept(state, b, 0, 0)
<1>1. b.asset_share_value \in Nat /\ b.liability_share_value \in Nat  BY DEF BankRecords
<1>2. ASSUME NEW v \in Nat PROVE Mul(0, v) <= ZERO_AMOUNT_THRESHOLD
  <2>1. 0 * v = 0 /\ 0 \div ONE = 0  BY OneAssumption
  <2> QED BY <2>1, ThresholdAssumption DEF Mul
<1>3. ASSUME NEW x \in Int, x >= 0, x <= 0 PROVE ModeKept(state, b, x, x)
  <2>1. -x = 0 /\ x = 0  BY <1>3
  <2> QED BY <1>1, <1>2, <2>1, NoDust DEF ModeKept, GetAssetAmount, GetLiabilityAmount
<1> QED BY <1>3

\* Moving shares leaves no dust.
LEMMA MovedOK ==
  ASSUME NEW t \in Nat, NEW w, WrapperOK(w, t), NEW v, NEW x \in Int, NEW y \in Int,
         Moved(w, v, x, y, t), w.balance.active,
         ModeKept(w.bank.config.operational_state, v.bank, x, y)
  PROVE  OperationOK(w, v, t)
<1>1. /\ w.bank.total_asset_shares \in Nat /\ w.bank.total_liability_shares \in Nat
      /\ w.balance.asset_shares \in Nat /\ w.balance.liability_shares \in Nat
  BY DEF WrapperOK, BankRecords, BalanceRecords
<1>2. AssetDust(w, v) = 0 /\ LiabilityDust(w, v) = 0  BY <1>1 DEF Moved, AssetDust, LiabilityDust
<1>3. /\ v.balance.asset_shares - w.balance.asset_shares = x
      /\ v.balance.liability_shares - w.balance.liability_shares = y
  BY <1>1 DEF Moved
<1> QED BY <1>2, <1>3, NoDust DEF OperationOK, Moved

\* increase_balance_internal, whose checks passed.
LEMMA IncreaseOperation ==
  ASSUME NEW t \in Nat, NEW w, WrapperOK(w, t), NEW delta \in Nat, NEW op, w.balance.active,
         IncreaseAllowed(w, delta, op)
  PROVE  LET v == IncreaseBalance(w, delta, t)
         IN  OperationOK(w, v, t) /\ (op # "BypassDepositLimit" => LimitsKept(w, v))
<1> DEFINE v == IncreaseBalance(w, delta, t)
           b == w.bank
           x == GetAssetShares(b, AssetIncrease(w, delta))
           y == GetLiabilityShares(b, LiabilityDecrease(w, delta))
           amount == AssetIncrease(w, delta)
<1>1. x \in Nat /\ y \in Nat /\ amount \in Nat /\ Moved(w, v, x, -y, t)
  BY MovedSharesNat, BalanceMoves
<1>2. /\ b.asset_share_value \in Nat \ {0} /\ b.liability_share_value \in Nat \ {0}
      /\ w.balance.asset_shares \in Nat /\ w.balance.liability_shares \in Nat
      /\ b \in BankRecords
  BY DEF WrapperOK, BankRecords, BalanceRecords
<1>3. /\ AssertOperationalMode(b, IsPositiveWithTolerance(amount))
      /\ DepositLimitRespected(ChangeAssetShares(b, x), x, op = "BypassDepositLimit")
  BY DEF IncreaseAllowed
<1>4. x = Div(amount, b.asset_share_value)  BY DEF GetAssetShares
<1> HIDE DEF v, x, y, amount
<1>5. v.bank.asset_share_value = b.asset_share_value /\ v.bank.liability_share_value = b.liability_share_value
  BY <1>1 DEF Moved
<1>6. ModeKept(b.config.operational_state, v.bank, x, -y)
  <2>1. b.config.operational_state # "Paused"  BY <1>3 DEF AssertOperationalMode
  <2>2. ASSUME b.config.operational_state = "ReduceOnly"
        PROVE  Mul(x, b.asset_share_value) <= ZERO_AMOUNT_THRESHOLD
    <3>1. amount <= ZERO_AMOUNT_THRESHOLD
      BY <1>1, <1>3, <2>2, ThresholdAssumption DEF AssertOperationalMode, IsPositiveWithTolerance
    <3>2. Mul(x, b.asset_share_value) <= amount  BY <1>1, <1>2, <1>4, BoughtShares
    <3>3. Mul(x, b.asset_share_value) \in Nat  BY Zenon, <1>1, <1>2, MulNat
    <3> QED BY <1>1, <3>1, <3>2, <3>3, ThresholdAssumption
  <2>3. Mul(-y, b.liability_share_value) <= ZERO_AMOUNT_THRESHOLD  BY <1>1, <1>2, TakenAmount
  <2> QED BY <1>5, <2>1, <2>2, <2>3 DEF ModeKept, GetAssetAmount, GetLiabilityAmount
<1>7. x \in Int /\ -y \in Int  BY <1>1
<1>8. OperationOK(w, v, t)  BY <1>1, <1>6, <1>7, MovedOK
<1>9. ASSUME op # "BypassDepositLimit" PROVE LimitsKept(w, v)
  <2>1. ~(v.balance.liability_shares > w.balance.liability_shares)  BY <1>1, <1>2 DEF Moved
  <2>2. ASSUME v.balance.asset_shares > w.balance.asset_shares
        PROVE  DepositLimitRespected(v.bank, 1, FALSE)
    <3>1. x > 0  BY <1>1, <1>2, <2>2 DEF Moved
    <3>2. /\ ChangeAssetShares(b, x).total_asset_shares = v.bank.total_asset_shares
          /\ ChangeAssetShares(b, x).asset_share_value = v.bank.asset_share_value
          /\ ChangeAssetShares(b, x).config = v.bank.config
      BY <1>1, <1>2 DEF ChangeAssetShares, BankRecords, Moved
    <3> QED BY <1>3, <1>9, <3>1, <3>2 DEF DepositLimitRespected, TotalAssets, GetAssetAmount
  <2> QED BY Zenon, <2>1, <2>2 DEF LimitsKept
<1> QED BY <1>8, <1>9 DEF v

\* decrease_balance_internal, whose checks passed.
LEMMA DecreaseOperation ==
  ASSUME NEW t \in Nat, NEW w, WrapperOK(w, t), NEW delta \in Nat, NEW op, w.balance.active,
         DecreaseAllowed(w, delta, op, t)
  PROVE  LET v == DecreaseBalance(w, delta, t)
         IN  OperationOK(w, v, t) /\ (op # "BypassBorrowLimit" => LimitsKept(w, v))
<1> DEFINE v == DecreaseBalance(w, delta, t)
           b == w.bank
           x == GetAssetShares(b, AssetDecrease(w, delta))
           y == GetLiabilityShares(b, LiabilityIncrease(w, delta))
           amount == LiabilityIncrease(w, delta)
<1>1. x \in Nat /\ y \in Nat /\ amount \in Nat /\ Moved(w, v, -x, y, t)
  BY MovedSharesNat, BalanceMoves
<1>2. /\ b.asset_share_value \in Nat \ {0} /\ b.liability_share_value \in Nat \ {0}
      /\ w.balance.asset_shares \in Nat /\ w.balance.liability_shares \in Nat
      /\ b \in BankRecords
  BY DEF WrapperOK, BankRecords, BalanceRecords
<1>3. /\ AssertOperationalMode(b, IsPositiveWithTolerance(amount))
      /\ BorrowLimitRespected(v.bank, y, op = "BypassBorrowLimit")
  BY DEF DecreaseAllowed
<1>4. y = Div(amount, b.liability_share_value)  BY DEF GetLiabilityShares
<1> HIDE DEF v, x, y, amount
<1>5. v.bank.asset_share_value = b.asset_share_value /\ v.bank.liability_share_value = b.liability_share_value
  BY <1>1 DEF Moved
<1>6. ModeKept(b.config.operational_state, v.bank, -x, y)
  <2>1. b.config.operational_state # "Paused"  BY <1>3 DEF AssertOperationalMode
  <2>2. ASSUME b.config.operational_state = "ReduceOnly"
        PROVE  Mul(y, b.liability_share_value) <= ZERO_AMOUNT_THRESHOLD
    <3>1. amount <= ZERO_AMOUNT_THRESHOLD
      BY <1>1, <1>3, <2>2, ThresholdAssumption DEF AssertOperationalMode, IsPositiveWithTolerance
    <3>2. Mul(y, b.liability_share_value) <= amount  BY <1>1, <1>2, <1>4, BoughtShares
    <3>3. Mul(y, b.liability_share_value) \in Nat  BY Zenon, <1>1, <1>2, MulNat
    <3> QED BY <1>1, <3>1, <3>2, <3>3, ThresholdAssumption
  <2>3. Mul(-x, b.asset_share_value) <= ZERO_AMOUNT_THRESHOLD  BY <1>1, <1>2, TakenAmount
  <2> QED BY <1>5, <2>1, <2>2, <2>3 DEF ModeKept, GetAssetAmount, GetLiabilityAmount
<1>7. -x \in Int /\ y \in Int  BY <1>1
<1>8. OperationOK(w, v, t)  BY <1>1, <1>6, <1>7, MovedOK
<1>9. ASSUME op # "BypassBorrowLimit" PROVE LimitsKept(w, v)
  <2>1. ~(v.balance.asset_shares > w.balance.asset_shares)  BY <1>1, <1>2 DEF Moved
  <2>2. ASSUME v.balance.liability_shares > w.balance.liability_shares
        PROVE  BorrowLimitRespected(v.bank, 1, FALSE)
    <3>1. y > 0  BY <1>1, <1>2, <2>2 DEF Moved
    <3> QED BY <1>3, <1>9, <3>1 DEF BorrowLimitRespected
  <2> QED BY Zenon, <2>1, <2>2 DEF LimitsKept
<1> QED BY <1>8, <1>9 DEF v

\* lending_account_settle_emissions and lending_account_withdraw_emissions
\* move no shares.
LEMMA EmissionsOperation ==
  ASSUME NEW t \in Nat, NEW w, WrapperOK(w, t), w.balance.active
  PROVE  /\ OperationOK(w, ClaimEmissions(w, t), t) /\ LimitsKept(w, ClaimEmissions(w, t))
         /\ OperationOK(w, SettleEmissions(w, t), t) /\ LimitsKept(w, SettleEmissions(w, t))
<1> DEFINE u == ClaimEmissions(w, t)
           v == SettleEmissions(w, t)
<1>1. Moved(w, u, 0, 0, t) /\ WrapperOK(u, t)  BY ClaimEmissionsMoves, ClaimEmissionsOK
<1>2. v = [u EXCEPT !.balance.emissions_outstanding = @ % ONE]  BY DEF SettleEmissions
<1> HIDE DEF u, v
<1>3. /\ u = [bank |-> u.bank, balance |-> u.balance] /\ u.balance \in BalanceRecords
      /\ u.bank \in BankRecords
  BY <1>1 DEF WrapperOK
<1> DEFINE e == u.balance.emissions_outstanding
<1>4. e \in Nat /\ e % ONE \in Nat /\ e % ONE <= e
  <2>1. e \in Nat /\ ONE \in Nat \ {0}  BY <1>3, OneAssumption DEF BalanceRecords
  <2> HIDE DEF e
  <2>2. e % ONE \in 0 .. (ONE - 1) /\ e = ONE * (e \div ONE) + (e % ONE) /\ e \div ONE \in Nat
    BY <2>1, DivBounds
  <2>3. ONE * (e \div ONE) \in Nat  BY <2>1, <2>2, NatProduct
  <2> QED BY <2>1, <2>2, <2>3
<1>5. /\ v.bank = u.bank /\ v.balance.asset_shares = u.balance.asset_shares
      /\ v.balance.liability_shares = u.balance.liability_shares
      /\ v.balance.active = u.balance.active /\ v.balance.last_update = u.balance.last_update
      /\ v.balance.emissions_outstanding = e % ONE
  BY <1>2, <1>3 DEF BalanceRecords
<1>6. w.balance.emissions_outstanding \in Nat  BY DEF WrapperOK, BalanceRecords
<1>7. Moved(w, v, 0, 0, t)  BY <1>1, <1>4, <1>5, <1>6 DEF Moved
<1>8. /\ ModeKept(w.bank.config.operational_state, u.bank, 0, 0)
      /\ ModeKept(w.bank.config.operational_state, v.bank, 0, 0)
  BY <1>3, <1>5, NothingMoved
<1>9. OperationOK(w, u, t) /\ OperationOK(w, v, t)  BY <1>1, <1>7, <1>8, MovedOK
<1>10. w.balance.asset_shares \in Nat /\ w.balance.liability_shares \in Nat
  BY DEF WrapperOK, BalanceRecords
<1>11. /\ u.balance.asset_shares = w.balance.asset_shares
       /\ u.balance.liability_shares = w.balance.liability_shares
       /\ v.balance.asset_shares = w.balance.asset_shares
       /\ v.balance.liability_shares = w.balance.liability_shares
  BY <1>1, <1>7, <1>10 DEF Moved
<1>12. ~(w.balance.asset_shares > w.balance.asset_shares)
       /\ ~(w.balance.liability_shares > w.balance.liability_shares)
  BY <1>10
<1>13. LimitsKept(w, u) /\ LimitsKept(w, v)  BY Zenon, <1>11, <1>12 DEF LimitsKept
<1> QED BY <1>9, <1>13 DEF u, v

\* Balance::close drops what the totals still count: dust.
LEMMA ClosedOK ==
  ASSUME NEW t \in Nat, NEW w, WrapperOK(w, t), NEW v, v.balance = EmptyDeactivated,
         v.bank.asset_share_value = w.bank.asset_share_value,
         v.bank.liability_share_value = w.bank.liability_share_value,
         \/ v.bank.total_asset_shares = w.bank.total_asset_shares - w.balance.asset_shares
         \/ /\ v.bank.total_asset_shares = w.bank.total_asset_shares
            /\ Residue(w.balance.asset_shares, AssetAmount(w)),
         \/ v.bank.total_liability_shares = w.bank.total_liability_shares - w.balance.liability_shares
         \/ /\ v.bank.total_liability_shares = w.bank.total_liability_shares
            /\ Residue(w.balance.liability_shares, LiabilityAmount(w)),
         w.bank.config.operational_state = "Paused" =>
           /\ Residue(w.balance.asset_shares, AssetAmount(w))
           /\ Residue(w.balance.liability_shares, LiabilityAmount(w))
  PROVE  OperationOK(w, v, t) /\ LimitsKept(w, v)
<1> DEFINE xa == w.balance.asset_shares
           xl == w.balance.liability_shares
           asv == w.bank.asset_share_value
           lsv == w.bank.liability_share_value
<1>1. /\ v.balance.asset_shares = 0 /\ v.balance.liability_shares = 0
      /\ v.balance.emissions_outstanding = 0
  BY DEF EmptyDeactivated
<1>2. /\ xa \in Nat /\ xl \in Nat /\ asv \in Nat /\ lsv \in Nat
      /\ w.bank.total_asset_shares \in Nat /\ w.bank.total_liability_shares \in Nat
      /\ w.balance.emissions_outstanding \in Nat
  BY DEF WrapperOK, BankRecords, BalanceRecords
<1>3. /\ AssetDust(w, v) = 0 \/ (AssetDust(w, v) = xa /\ Residue(xa, AssetAmount(w)))
      /\ LiabilityDust(w, v) = 0 \/ (LiabilityDust(w, v) = xl /\ Residue(xl, LiabilityAmount(w)))
  BY <1>1, <1>2 DEF AssetDust, LiabilityDust
<1>4. /\ AssetAmount(w) = GetAssetAmount(v.bank, xa)
      /\ LiabilityAmount(w) = GetLiabilityAmount(v.bank, xl)
  BY DEF AssetAmount, LiabilityAmount, GetAssetAmount, GetLiabilityAmount
<1>5. /\ v.balance.asset_shares - xa = -xa /\ v.balance.liability_shares - xl = -xl
      /\ -(-xa) = xa /\ -(-xl) = xl
  BY <1>1, <1>2
<1>6. ModeKept(w.bank.config.operational_state, v.bank, -xa, -xl)
  <2>1. Mul(-xa, asv) <= ZERO_AMOUNT_THRESHOLD /\ Mul(-xl, lsv) <= ZERO_AMOUNT_THRESHOLD
    BY <1>2, TakenAmount
  <2> QED BY <1>4, <1>5, <2>1 DEF ModeKept, GetAssetAmount, GetLiabilityAmount
<1>7. OperationOK(w, v, t)  BY <1>1, <1>2, <1>3, <1>4, <1>5, <1>6, NoDust DEF OperationOK
<1>8. ~(v.balance.asset_shares > xa) /\ ~(v.balance.liability_shares > xl)  BY <1>1, <1>2
<1>9. LimitsKept(w, v)  BY Zenon, <1>8 DEF LimitsKept
<1> QED BY <1>7, <1>9

\* withdraw_all, repay_all and close_balance, whose checks passed.
LEMMA CloseOperation ==
  ASSUME NEW t \in Nat, NEW w, WrapperOK(w, t)
  PROVE  /\ WithdrawAllAllowed(w, t) =>
              OperationOK(w, WithdrawAll(w, t), t) /\ LimitsKept(w, WithdrawAll(w, t))
         /\ RepayAllAllowed(w, t) =>
              OperationOK(w, RepayAll(w, t), t) /\ LimitsKept(w, RepayAll(w, t))
         /\ CloseBalanceAllowed(w, t) =>
              OperationOK(w, CloseBalance(w, t), t) /\ LimitsKept(w, CloseBalance(w, t))
<1> DEFINE u == ClaimEmissions(w, t)
           b == u.bank
<1>1. Moved(w, u, 0, 0, t) /\ WrapperOK(u, t)  BY ClaimEmissionsMoves, ClaimEmissionsOK
<1>2. /\ w.balance.asset_shares \in Nat /\ w.balance.liability_shares \in Nat
      /\ w.bank.total_asset_shares \in Nat /\ w.bank.total_liability_shares \in Nat
  BY DEF WrapperOK, BankRecords, BalanceRecords
<1>3. /\ b \in BankRecords /\ b.total_asset_shares = w.bank.total_asset_shares
      /\ b.total_liability_shares = w.bank.total_liability_shares
      /\ b.asset_share_value = w.bank.asset_share_value
      /\ b.liability_share_value = w.bank.liability_share_value
  BY <1>1, <1>2 DEF Moved, WrapperOK
<1>4. /\ IsZeroWithTolerance(AssetAmount(w)) => Residue(w.balance.asset_shares, AssetAmount(w))
      /\ IsZeroWithTolerance(LiabilityAmount(w)) =>
           Residue(w.balance.liability_shares, LiabilityAmount(w))
  BY <1>2 DEF IsZeroWithTolerance, Residue
<1>5. ~(AssertOperationalMode(w.bank, FALSE) /\ w.bank.config.operational_state = "Paused")
  BY DEF AssertOperationalMode
<1>6. ASSUME WithdrawAllAllowed(w, t)
      PROVE  OperationOK(w, WithdrawAll(w, t), t) /\ LimitsKept(w, WithdrawAll(w, t))
  <2> DEFINE v == WithdrawAll(w, t)
             fees == b.collected_insurance_fees_outstanding + AssetAmount(w) - WithdrawAllTokens(w) * ONE
  <2>1. v = [bank |-> [b EXCEPT !.total_asset_shares = @ + (-w.balance.asset_shares),
                                !.collected_insurance_fees_outstanding = fees],
             balance |-> EmptyDeactivated]
    BY <1>3 DEF WithdrawAll, ChangeAssetShares, BankRecords
  <2> HIDE DEF v, fees, u
  <2>2. /\ v.balance = EmptyDeactivated
        /\ v.bank.total_asset_shares = w.bank.total_asset_shares - w.balance.asset_shares
        /\ v.bank.total_liability_shares = w.bank.total_liability_shares
        /\ v.bank.asset_share_value = w.bank.asset_share_value
        /\ v.bank.liability_share_value = w.bank.liability_share_value
    BY Zenon, <1>2, <1>3, <2>1 DEF BankRecords
  <2>3. Residue(w.balance.liability_shares, LiabilityAmount(w))
        /\ w.bank.config.operational_state # "Paused"
    BY Zenon, <1>4, <1>5, <1>6 DEF WithdrawAllAllowed
  <2>4. OperationOK(w, v, t) /\ LimitsKept(w, v)  BY <2>2, <2>3, ClosedOK
  <2> QED BY <2>4 DEF v
<1>7. ASSUME RepayAllAllowed(w, t)
      PROVE  OperationOK(w, RepayAll(w, t), t) /\ LimitsKept(w, RepayAll(w, t))
  <2> DEFINE v == RepayAll(w, t)
             fees == b.collected_insurance_fees_outstanding + RepayAllTokens(w) * ONE - LiabilityAmount(w)
  <2>1. v = [bank |-> [b EXCEPT !.total_liability_shares = @ + (-w.balance.liability_shares),
                                !.collected_insurance_fees_outstanding = fees],
             balance |-> EmptyDeactivated]
    BY <1>3 DEF RepayAll, ChangeLiabilityShares, BankRecords
  <2> HIDE DEF v, fees, u
  <2>2. /\ v.balance = EmptyDeactivated
        /\ v.bank.total_asset_shares = w.bank.total_asset_shares
        /\ v.bank.total_liability_shares = w.bank.total_liability_shares - w.balance.liability_shares
        /\ v.bank.asset_share_value = w.bank.asset_share_value
        /\ v.bank.liability_share_value = w.bank.liability_share_value
    BY Zenon, <1>2, <1>3, <2>1 DEF BankRecords
  <2>3. Residue(w.balance.asset_shares, AssetAmount(w))
        /\ w.bank.config.operational_state # "Paused"
    BY Zenon, <1>4, <1>5, <1>7 DEF RepayAllAllowed
  <2>4. OperationOK(w, v, t) /\ LimitsKept(w, v)  BY <2>2, <2>3, ClosedOK
  <2> QED BY <2>4 DEF v
<1>8. ASSUME CloseBalanceAllowed(w, t)
      PROVE  OperationOK(w, CloseBalance(w, t), t) /\ LimitsKept(w, CloseBalance(w, t))
  <2> DEFINE v == CloseBalance(w, t)
  <2>1. v.bank = b /\ v.balance = EmptyDeactivated  BY DEF CloseBalance
  <2> HIDE DEF v, u
  <2>2. /\ Residue(w.balance.asset_shares, AssetAmount(w))
        /\ Residue(w.balance.liability_shares, LiabilityAmount(w))
    BY <1>4, <1>8 DEF CloseBalanceAllowed
  <2>3. OperationOK(w, v, t) /\ LimitsKept(w, v)  BY <1>3, <2>1, <2>2, ClosedOK
  <2> QED BY <2>3 DEF v
<1> QED BY <1>6, <1>7, <1>8

\* A balance that find_or_create makes is as empty as the inactive one it
\* replaces.
LEMMA CreatedOperation ==
  ASSUME NEW t \in Nat, NEW w, WrapperOK(w, t), w.balance.active \/ w.balance = EmptyDeactivated
  PROVE  LET f == FindOrCreate(w.bank, w.balance, t)
         IN  /\ f.balance.active /\ f.bank = w.bank
             /\ \A v : /\ OperationOK(f, v, t) => OperationOK(w, v, t)
                       /\ LimitsKept(f, v) => LimitsKept(w, v)
                       /\ AssetDust(f, v) = AssetDust(w, v) /\ LiabilityDust(f, v) = LiabilityDust(w, v)
<1> DEFINE f == FindOrCreate(w.bank, w.balance, t)
<1>1. f.bank = w.bank  BY DEF FindOrCreate
<1>2. /\ f.balance.active
      /\ f.balance.asset_shares = w.balance.asset_shares
      /\ f.balance.liability_shares = w.balance.liability_shares
      /\ f.balance.emissions_outstanding = w.balance.emissions_outstanding
      /\ f.balance.last_update = t \/ f.balance.last_update = w.balance.last_update
  <2>1. CASE w.balance.active  BY <2>1 DEF FindOrCreate
  <2>2. CASE ~w.balance.active
    <3>1. f.balance = [active |-> TRUE, asset_shares |-> 0, liability_shares |-> 0,
                       emissions_outstanding |-> 0, last_update |-> t]
      BY Zenon, <2>2 DEF FindOrCreate, EmptyDeactivated
    <3>2. w.balance = EmptyDeactivated  BY <2>2
    <3> QED BY <3>1, <3>2 DEF EmptyDeactivated
  <2> QED BY <2>1, <2>2
<1> HIDE DEF f
<1>3. ~(t < t)  OBVIOUS
<1>4. ASSUME NEW v
      PROVE  AssetDust(f, v) = AssetDust(w, v) /\ LiabilityDust(f, v) = LiabilityDust(w, v)
  BY <1>1, <1>2 DEF AssetDust, LiabilityDust
<1>5. ASSUME NEW v, OperationOK(f, v, t) PROVE OperationOK(w, v, t)
  BY <1>1, <1>2, <1>3, <1>4, <1>5 DEF OperationOK
<1>6. ASSUME NEW v, LimitsKept(f, v) PROVE LimitsKept(w, v)
  BY Zenon, <1>2, <1>6 DEF LimitsKept
<1> QED BY Zenon, <1>1, <1>2, <1>4, <1>5, <1>6 DEF f

-----------------------------------------------------------------------------
(* Rounding, when a debt is written off and its loss spread.               *)

\* Spreading no loss lowers the share value by rounding only.
LEMMA RoundedValue ==
  ASSUME NEW n \in Nat \ {0}, NEW v \in Nat
  PROVE  v <= Div(Mul(n, v), n) + 1 + (ONE \div n)
<1> DEFINE p == (n * v) \div ONE
           q == (p * ONE) \div n
           r == ONE \div n
<1>0. ONE \in Nat \ {0} /\ n * v \in Nat  BY OneAssumption, NatProduct
<1>1. p \in Nat /\ n * v < ONE * p + ONE  BY <1>0, DivBounds
<1>2. p * ONE \in Nat /\ p * ONE = ONE * p
  <2> HIDE DEF p
  <2> QED BY <1>0, <1>1, NatProduct
<1>3. q \in Nat /\ p * ONE < n * q + n  BY Zenon, <1>2, DivBounds
<1>4. r \in Nat /\ ONE < n * r + n  BY <1>0, DivBounds
<1> HIDE DEF p, q, r
<1>5. SUFFICES ASSUME v > q + 1 + r PROVE FALSE
  <2>1. Div(Mul(n, v), n) = q  BY DEF Mul, Div, p, q
  <2> QED BY <1>3, <1>4, <1>5, <2>1 DEF r
<1>6. PICK k \in Nat : v = q + r + 2 + k
  <2>1. v - q - r - 2 \in Nat /\ v = q + r + 2 + (v - q - r - 2)  BY <1>3, <1>4, <1>5
  <2> QED BY <2>1
<1>7. n * v = n * q + n * r + n * 2 + n * k
  <2>1. n * v = n * (q + r + 2 + k)  BY <1>6
  <2> QED BY <1>3, <1>4, <2>1
<1>8. /\ n * k \in Nat /\ n * q \in Nat /\ n * r \in Nat /\ ONE * p \in Nat /\ n * 2 = n + n
  BY <1>0, <1>1, <1>3, <1>4, NatProduct
<1> QED BY <1>0, <1>1, <1>2, <1>3, <1>4, <1>7, <1>8

\* Repaying the whole debt leaves at most one unit of a share.
LEMMA WrittenOff ==
  ASSUME NEW s \in Nat, NEW v \in Nat, v >= ONE
  PROVE  s - Div(Mul(s, v), v) <= 1
<1> DEFINE p == (s * v) \div ONE
           q == (p * ONE) \div v
<1>0. ONE \in Nat \ {0} /\ v \in Nat \ {0} /\ s * v \in Nat  BY OneAssumption, NatProduct
<1>1. p \in Nat /\ s * v < ONE * p + ONE  BY <1>0, DivBounds
<1>2. p * ONE \in Nat /\ p * ONE = ONE * p
  <2> HIDE DEF p
  <2> QED BY <1>0, <1>1, NatProduct
<1>3. q \in Nat /\ p * ONE < v * q + v  BY <1>0, <1>2, DivBounds
<1> HIDE DEF p, q
<1>4. SUFFICES ASSUME s > q + 1 PROVE FALSE
  <2>1. Div(Mul(s, v), v) = q  BY DEF Mul, Div, p, q
  <2> QED BY <1>3, <1>4, <2>1
<1>5. PICK k \in Nat : s = q + 2 + k
  <2>1. s - q - 2 \in Nat /\ s = q + 2 + (s - q - 2)  BY <1>3, <1>4
  <2> QED BY <2>1
<1>6. s * v = v * q + v + v + v * k
  <2>1. s * v = (q + 2 + k) * v  BY <1>5
  <2> QED BY <1>3, <2>1
<1>7. v * k \in Nat /\ v * q \in Nat /\ ONE * p \in Nat  BY <1>0, <1>1, <1>3, NatProduct
<1> QED BY <1>0, <1>1, <1>2, <1>3, <1>6, <1>7

\* Whole tokens round up to themselves.
LEMMA CeilWhole ==
  ASSUME NEW n \in Nat
  PROVE  CeilTokens(n * ONE) = n
<1> DEFINE x == n * ONE + ONE - 1
           q == x \div ONE
<1>0. ONE \in Nat \ {0} /\ n * ONE \in Nat /\ n * ONE = ONE * n  BY OneAssumption, NatProduct
<1>1. x \in Nat  BY <1>0
<1>2. q \in Nat /\ ONE * q <= x /\ x < ONE * q + ONE  BY <1>0, <1>1, DivBounds
<1>3. n <= q
  <2>1. ONE * n <= x  BY <1>0
  <2> QED BY <1>0, <1>1, <2>1, DivGreatest
<1> HIDE DEF q
<1>4. q <= n
  <2>1. SUFFICES ASSUME q > n PROVE FALSE  BY <1>2
  <2>2. PICK k \in Nat : q = n + 1 + k
    <3>1. q - n - 1 \in Nat /\ q = n + 1 + (q - n - 1)  BY <1>2, <2>1
    <3> QED BY Zenon, <3>1
  <2>3. ONE * q = ONE * n + ONE + ONE * k
    <3>1. ONE * q = ONE * (n + 1 + k)  BY <2>2
    <3> QED BY <1>0, <3>1
  <2>4. ONE * k \in Nat  BY <1>0, NatProduct
  <2> QED BY <1>0, <1>2, <2>3, <2>4
<1> QED BY <1>2, <1>3, <1>4 DEF CeilTokens, q

-----------------------------------------------------------------------------
(* What one instruction may do to all balances.                            *)

\* An inactive balance is empty: Balance::close resets every field of it.
InactiveEmpty == \A a \in Accounts : balances[a].active \/ balances[a] = EmptyDeactivated

DustStep ==
  LET assets == OrphanAssets' - OrphanAssets
      liabilities == OrphanLiabilities' - OrphanLiabilities
  IN  /\ Residue(assets, GetAssetAmount(bank', assets))
      /\ Residue(liabilities, GetLiabilityAmount(bank', liabilities))

BalanceStep(a) ==
  /\ balances'[a].emissions_outstanding > balances[a].emissions_outstanding =>
       balances[a].last_update < now /\ balances'[a].last_update = now
  /\ ModeKept(bank.config.operational_state, bank',
              balances'[a].asset_shares - balances[a].asset_shares,
              balances'[a].liability_shares - balances[a].liability_shares)
  /\ balances'[a].active \/ balances'[a] = EmptyDeactivated

Effects == DustStep /\ \A a \in Accounts : BalanceStep(a)

LimitsStep(a) ==
  /\ balances'[a].asset_shares > balances[a].asset_shares => DepositLimitRespected(bank', 1, FALSE)
  /\ balances'[a].liability_shares > balances[a].liability_shares =>
       BorrowLimitRespected(bank', 1, FALSE)

\* What the limits, the modes and the dust depend on.
SameValues(b, c) ==
  /\ c.total_asset_shares = b.total_asset_shares
  /\ c.total_liability_shares = b.total_liability_shares
  /\ c.asset_share_value = b.asset_share_value
  /\ c.liability_share_value = b.liability_share_value
  /\ c.config = b.config

\* The wrapper an instruction starts from: the bank may have new share values.
Prepared(w, a) ==
  /\ WrapperOK(w, now) /\ w.balance = balances[a]
  /\ w.bank.total_asset_shares = bank.total_asset_shares
  /\ w.bank.total_liability_shares = bank.total_liability_shares
  /\ w.bank.config = bank.config

\* Shares, totals and their sums are numbers.
LEMMA LedgerNumbers ==
  ASSUME LedgerInv
  PROVE  /\ bank \in BankRecords /\ balances \in [Accounts -> BalanceRecords] /\ now \in Nat
         /\ bank.total_asset_shares \in Nat /\ bank.total_liability_shares \in Nat
         /\ AssetShares = AssetsOf(balances) /\ LiabilityShares = LiabilitiesOf(balances)
         /\ SumFunction(AssetShares) \in Nat /\ SumFunction(LiabilityShares) \in Nat
         /\ \A a \in Accounts :
              /\ balances[a] \in BalanceRecords /\ balances[a].emissions_outstanding \in Nat
              /\ balances[a].asset_shares \in Nat /\ balances[a].liability_shares \in Nat
<1>1. bank \in BankRecords /\ balances \in [Accounts -> BalanceRecords] /\ now \in Nat
  BY DEF LedgerInv, TypeOK
<1>2. AssetShares = AssetsOf(balances) /\ LiabilityShares = LiabilitiesOf(balances)
  BY <1>1 DEF AssetShares, LiabilityShares, AssetsOf, LiabilitiesOf
<1>3. SumFunction(AssetShares) \in Nat /\ SumFunction(LiabilityShares) \in Nat
  BY <1>1, <1>2, SumsNat, AccountsFinite
<1> QED BY <1>1, <1>2, <1>3 DEF BankRecords, BalanceRecords

\* The same of the next state.
LEMMA LedgerNumbers1 ==
  ASSUME LedgerInv'
  PROVE  /\ bank' \in BankRecords /\ balances' \in [Accounts -> BalanceRecords]
         /\ bank'.total_asset_shares \in Nat /\ bank'.total_liability_shares \in Nat
         /\ AssetShares' = AssetsOf(balances') /\ LiabilityShares' = LiabilitiesOf(balances')
<1>1. bank' \in BankRecords /\ balances' \in [Accounts -> BalanceRecords]
  BY DEF LedgerInv, TypeOK
<1>2. AssetShares' = AssetsOf(balances') /\ LiabilityShares' = LiabilitiesOf(balances')
  BY <1>1 DEF AssetShares, LiabilityShares, AssetsOf, LiabilitiesOf
<1> QED BY <1>1, <1>2 DEF BankRecords

\* A balance that stays as it is.
LEMMA SameBalance ==
  ASSUME LedgerInv, LedgerInv', InactiveEmpty, NEW a \in Accounts, balances'[a] = balances[a]
  PROVE  BalanceStep(a) /\ LimitsStep(a)
<1> DEFINE d == balances[a]
<1>1. /\ bank' \in BankRecords /\ d.asset_shares \in Nat /\ d.liability_shares \in Nat
      /\ d.emissions_outstanding \in Nat
  BY LedgerNumbers, LedgerNumbers1
<1>2. d.active \/ d = EmptyDeactivated  BY DEF InactiveEmpty
<1>3. balances'[a] = d  OBVIOUS
<1> HIDE DEF d
<1>4. d.asset_shares - d.asset_shares = 0 /\ d.liability_shares - d.liability_shares = 0
      /\ ~(d.emissions_outstanding > d.emissions_outstanding)
      /\ ~(d.asset_shares > d.asset_shares) /\ ~(d.liability_shares > d.liability_shares)
  BY <1>1
<1>5. ModeKept(bank.config.operational_state, bank', 0, 0)  BY <1>1, NothingMoved
<1>6. balances[a] = d  BY DEF d
<1> QED BY Zenon, <1>2, <1>3, <1>4, <1>5, <1>6 DEF BalanceStep, LimitsStep

\* The balance that an operation was applied to.
LEMMA OperatedBalance ==
  ASSUME NEW a \in Accounts, NEW w, NEW v, w.balance = balances[a],
         w.bank.config = bank.config, OperationOK(w, v, now), balances'[a] = v.balance,
         bank'.asset_share_value = v.bank.asset_share_value,
         bank'.liability_share_value = v.bank.liability_share_value
  PROVE  BalanceStep(a)
<1>1. /\ \A x : GetAssetAmount(bank', x) = GetAssetAmount(v.bank, x)
      /\ \A x : GetLiabilityAmount(bank', x) = GetLiabilityAmount(v.bank, x)
  BY DEF GetAssetAmount, GetLiabilityAmount
<1>2. \A assets, liabs : ModeKept(bank.config.operational_state, v.bank, assets, liabs)
                           => ModeKept(bank.config.operational_state, bank', assets, liabs)
  BY <1>1 DEF ModeKept
<1> QED BY <1>2 DEF OperationOK, BalanceStep

\* The limits of the bank that the operation leaves are those of the bank.
LEMMA OperatedLimits ==
  ASSUME NEW a \in Accounts, NEW w, NEW v, w.balance = balances[a], LimitsKept(w, v),
         balances'[a] = v.balance, SameValues(v.bank, bank')
  PROVE  LimitsStep(a)
<1>1. /\ DepositLimitRespected(v.bank, 1, FALSE) => DepositLimitRespected(bank', 1, FALSE)
      /\ BorrowLimitRespected(v.bank, 1, FALSE) => BorrowLimitRespected(bank', 1, FALSE)
  BY DEF SameValues, DepositLimitRespected, BorrowLimitRespected, TotalAssets, TotalLiabilities,
         GetAssetAmount, GetLiabilityAmount
<1> QED BY Zenon, <1>1 DEF LimitsKept, LimitsStep

\* An instruction that applies one operation to one balance.
LEMMA OneBalance ==
  ASSUME LedgerInv, LedgerInv', InactiveEmpty, NEW a \in Accounts, NEW w, Prepared(w, a),
         NEW v, OperationOK(w, v, now), SameValues(v.bank, bank'),
         balances'[a] = v.balance, \A x \in Accounts : x # a => balances'[x] = balances[x]
  PROVE  Effects /\ (LimitsKept(w, v) => LimitsStep(a))
<1> DEFINE xa == balances[a].asset_shares
           xl == balances[a].liability_shares
           sa == SumFunction(AssetShares)
           sl == SumFunction(LiabilityShares)
           ta == bank.total_asset_shares
           tl == bank.total_liability_shares
           da == AssetDust(w, v)
           dl == LiabilityDust(w, v)
<1>1. /\ balances \in [Accounts -> BalanceRecords] /\ xa \in Nat /\ xl \in Nat
      /\ ta \in Nat /\ tl \in Nat /\ sa \in Nat /\ sl \in Nat
      /\ AssetShares = AssetsOf(balances) /\ LiabilityShares = LiabilitiesOf(balances)
  BY LedgerNumbers
<1>2. /\ bank' \in BankRecords /\ balances' \in [Accounts -> BalanceRecords]
      /\ bank'.total_asset_shares \in Nat /\ bank'.total_liability_shares \in Nat
      /\ AssetShares' = AssetsOf(balances') /\ LiabilityShares' = LiabilitiesOf(balances')
  BY LedgerNumbers1
<1>3. balances'[a] = v.balance /\ \A x \in Accounts : x # a => balances'[x] = balances[x]  OBVIOUS
<1>4. v.balance.asset_shares \in Nat /\ v.balance.liability_shares \in Nat
  BY <1>2, <1>3 DEF BalanceRecords
<1>5. /\ SumFunction(AssetShares') = sa + v.balance.asset_shares - xa
      /\ SumFunction(LiabilityShares') = sl + v.balance.liability_shares - xl
  <2>1. SumsMove(balances, balances', a, v.balance)
    BY Zenon, <1>1, <1>2, <1>3, SumsChange, AccountsFinite
  <2> QED BY Zenon, <1>1, <1>2, <2>1 DEF SumsMove
<1>6. /\ w.balance.asset_shares = xa /\ w.balance.liability_shares = xl
      /\ w.bank.total_asset_shares = ta /\ w.bank.total_liability_shares = tl
      /\ v.bank.total_asset_shares = bank'.total_asset_shares
      /\ v.bank.total_liability_shares = bank'.total_liability_shares
  BY DEF Prepared, SameValues
<1>7. /\ OrphanAssets' - OrphanAssets = da
      /\ OrphanLiabilities' - OrphanLiabilities = dl
  <2>1. PICK n \in Nat, k \in Nat : n = bank'.total_asset_shares /\ k = v.balance.asset_shares
    BY <1>2, <1>4
  <2>2. OrphanAssets' = n - (sa + k - xa) /\ OrphanAssets = ta - sa /\ da = (n - k) - (ta - xa)
    BY <1>5, <1>6, <2>1 DEF OrphanAssets, AssetDust
  <2>3. PICK m \in Nat, l \in Nat :
          m = bank'.total_liability_shares /\ l = v.balance.liability_shares
    BY <1>2, <1>4
  <2>4. /\ OrphanLiabilities' = m - (sl + l - xl) /\ OrphanLiabilities = tl - sl
        /\ dl = (m - l) - (tl - xl)
    BY <1>5, <1>6, <2>3 DEF OrphanLiabilities, LiabilityDust
  <2>5. xa \in Nat /\ ta \in Nat /\ sa \in Nat /\ xl \in Nat /\ tl \in Nat /\ sl \in Nat
    BY <1>1
  <2> HIDE DEF xa, xl, sa, sl, ta, tl, da, dl
  <2>6. OrphanAssets' - OrphanAssets = da  BY <2>2, <2>5
  <2>7. OrphanLiabilities' - OrphanLiabilities = dl  BY <2>4, <2>5
  <2> QED BY <2>6, <2>7
<1>8. /\ GetAssetAmount(bank', da) = GetAssetAmount(v.bank, da)
      /\ GetLiabilityAmount(bank', dl) = GetLiabilityAmount(v.bank, dl)
  BY DEF SameValues, GetAssetAmount, GetLiabilityAmount
<1>9. DustStep  BY <1>7, <1>8 DEF DustStep, OperationOK
<1>10. w.balance = balances[a] /\ w.bank.config = bank.config  BY DEF Prepared
<1>11. BalanceStep(a) /\ (LimitsKept(w, v) => LimitsStep(a))
  BY <1>3, <1>10, OperatedBalance, OperatedLimits DEF SameValues
<1>12. ASSUME NEW x \in Accounts, x # a PROVE BalanceStep(x)  BY <1>3, <1>12, SameBalance
<1> QED BY <1>9, <1>11, <1>12 DEF Effects

\* An instruction that leaves all balances and the shares of the bank alone.
LEMMA NoBalance ==
  ASSUME LedgerInv, LedgerInv', InactiveEmpty, balances' = balances,
         bank'.total_asset_shares = bank.total_asset_shares,
         bank'.total_liability_shares = bank.total_liability_shares
  PROVE  Effects /\ \A a \in Accounts : LimitsStep(a)
<1>1. /\ bank.total_asset_shares \in Nat /\ bank.total_liability_shares \in Nat
      /\ SumFunction(AssetShares) \in Nat /\ SumFunction(LiabilityShares) \in Nat
  BY LedgerNumbers
<1>2. AssetShares' = AssetShares /\ LiabilityShares' = LiabilityShares
  BY DEF AssetShares, LiabilityShares
<1>3. OrphanAssets' - OrphanAssets = 0 /\ OrphanLiabilities' - OrphanLiabilities = 0
  BY <1>1, <1>2 DEF OrphanAssets, OrphanLiabilities
<1>4. DustStep  BY <1>3, NoDust DEF DustStep
<1>5. \A a \in Accounts : BalanceStep(a) /\ LimitsStep(a)  BY SameBalance
<1> QED BY <1>4, <1>5 DEF Effects

\* Increasing or decreasing a balance leaves no dust.
LEMMA MovesLeaveNoDust ==
  ASSUME NEW t \in Nat, NEW w, WrapperOK(w, t), NEW delta \in Nat,
         NEW v, v = IncreaseBalance(w, delta, t) \/ v = DecreaseBalance(w, delta, t)
  PROVE  /\ AssetDust(w, v) = 0 /\ LiabilityDust(w, v) = 0
         /\ v.bank.config = w.bank.config
<1>1. PICK x \in Int, y \in Int : Moved(w, v, x, y, t)
  <2> DEFINE p == GetAssetShares(w.bank, AssetIncrease(w, delta))
             q == GetLiabilityShares(w.bank, LiabilityDecrease(w, delta))
             r == GetAssetShares(w.bank, AssetDecrease(w, delta))
             s == GetLiabilityShares(w.bank, LiabilityIncrease(w, delta))
  <2>1. p \in Nat /\ q \in Nat /\ r \in Nat /\ s \in Nat  BY MovedSharesNat
  <2>2. /\ Moved(w, IncreaseBalance(w, delta, t), p, -q, t)
        /\ Moved(w, DecreaseBalance(w, delta, t), -r, s, t)
    BY BalanceMoves
  <2> HIDE DEF p, q, r, s
  <2>3. p \in Int /\ -q \in Int /\ -r \in Int /\ s \in Int  BY <2>1
  <2> QED BY <2>2, <2>3
<1>2. /\ w.bank.total_asset_shares \in Nat /\ w.bank.total_liability_shares \in Nat
      /\ w.balance.asset_shares \in Nat /\ w.balance.liability_shares \in Nat
  BY DEF WrapperOK, BankRecords, BalanceRecords
<1>3. AssetDust(w, v) = 0 /\ LiabilityDust(w, v) = 0
  BY <1>1, <1>2 DEF Moved, AssetDust, LiabilityDust
<1> QED BY <1>1, <1>3 DEF Moved

\* An instruction that moves shares of two balances.
LEMMA TwoBalances ==
  ASSUME LedgerInv, LedgerInv', InactiveEmpty, NEW x \in Accounts, NEW y \in Accounts, x # y,
         NEW w, Prepared(w, x), NEW u, WrapperOK(u, now), OperationOK(w, u, now),
         AssetDust(w, u) = 0, LiabilityDust(w, u) = 0, u.bank.config = bank.config,
         NEW z, z.bank = u.bank, z.balance = balances[y], NEW v, OperationOK(z, v, now),
         AssetDust(z, v) = 0, LiabilityDust(z, v) = 0,
         v.bank.asset_share_value = u.bank.asset_share_value,
         v.bank.liability_share_value = u.bank.liability_share_value,
         SameValues(v.bank, bank'), balances'[x] = u.balance, balances'[y] = v.balance,
         \A a \in Accounts : a # x /\ a # y => balances'[a] = balances[a]
  PROVE  Effects
<1> DEFINE cs == [a \in Accounts |-> IF a = x THEN u.balance ELSE balances[a]]
<1>1. /\ balances \in [Accounts -> BalanceRecords]
      /\ bank.total_asset_shares \in Nat /\ bank.total_liability_shares \in Nat
      /\ AssetShares = AssetsOf(balances) /\ LiabilityShares = LiabilitiesOf(balances)
      /\ SumFunction(AssetShares) \in Nat /\ SumFunction(LiabilityShares) \in Nat
  BY LedgerNumbers
<1>2. /\ balances' \in [Accounts -> BalanceRecords]
      /\ bank'.total_asset_shares \in Nat /\ bank'.total_liability_shares \in Nat
      /\ AssetShares' = AssetsOf(balances') /\ LiabilityShares' = LiabilitiesOf(balances')
  BY LedgerNumbers1
<1>3. u.balance \in BalanceRecords /\ v.balance \in BalanceRecords
      /\ balances[x] \in BalanceRecords /\ balances[y] \in BalanceRecords
      /\ u.bank.total_asset_shares \in Nat /\ u.bank.total_liability_shares \in Nat
  BY <1>1, <1>2 DEF WrapperOK, BankRecords
<1>4. /\ cs \in [Accounts -> BalanceRecords] /\ cs[x] = u.balance /\ cs[y] = balances[y]
      /\ \A a \in Accounts : a # x => cs[a] = balances[a]
      /\ \A a \in Accounts : a # y => balances'[a] = cs[a]
  BY <1>1, <1>3
<1> HIDE DEF cs
<1>5. /\ SumFunction(AssetsOf(cs))
           = SumFunction(AssetShares) + u.balance.asset_shares - balances[x].asset_shares
      /\ SumFunction(LiabilitiesOf(cs))
           = SumFunction(LiabilityShares) + u.balance.liability_shares - balances[x].liability_shares
  <2>1. SumsMove(balances, cs, x, u.balance)
    BY Zenon, <1>1, <1>4, SumsChange, AccountsFinite
  <2> QED BY Zenon, <1>1, <2>1 DEF SumsMove
<1>6. /\ SumFunction(AssetShares')
           = SumFunction(AssetsOf(cs)) + v.balance.asset_shares - balances[y].asset_shares
      /\ SumFunction(LiabilityShares')
           = SumFunction(LiabilitiesOf(cs)) + v.balance.liability_shares - balances[y].liability_shares
  <2>1. SumsMove(cs, balances', y, v.balance)
    <3>1. v.balance = balances'[y]  OBVIOUS
    <3> QED BY Zenon, <1>2, <1>4, <3>1, SumsChange, AccountsFinite
  <2> QED BY Zenon, <1>2, <1>4, <2>1 DEF SumsMove
<1>7. /\ w.balance = balances[x] /\ w.bank.total_asset_shares = bank.total_asset_shares
      /\ w.bank.total_liability_shares = bank.total_liability_shares /\ w.bank.config = bank.config
      /\ v.bank.total_asset_shares = bank'.total_asset_shares
      /\ v.bank.total_liability_shares = bank'.total_liability_shares
      /\ v.bank.asset_share_value = bank'.asset_share_value
      /\ v.bank.liability_share_value = bank'.liability_share_value
  BY DEF Prepared, SameValues
<1>8. OrphanAssets' - OrphanAssets = 0
  <2>1. PICK n \in Nat, t \in Nat, m \in Nat, s \in Nat :
          /\ n = bank'.total_asset_shares /\ t = bank.total_asset_shares
          /\ m = u.bank.total_asset_shares /\ s = SumFunction(AssetShares)
    BY <1>1, <1>2, <1>3
  <2>2. PICK i \in Nat, j \in Nat, k \in Nat, l \in Nat :
          /\ i = balances[x].asset_shares /\ j = u.balance.asset_shares
          /\ k = balances[y].asset_shares /\ l = v.balance.asset_shares
    BY <1>3 DEF BalanceRecords
  <2>3. (m - j) - (t - i) = 0 /\ (n - l) - (m - k) = 0
    BY <1>7, <2>1, <2>2 DEF AssetDust
  <2>4. OrphanAssets' = n - (s + j - i + l - k) /\ OrphanAssets = t - s
    BY <1>5, <1>6, <2>1, <2>2 DEF OrphanAssets
  <2> QED BY <2>3, <2>4
<1>9. OrphanLiabilities' - OrphanLiabilities = 0
  <2>1. PICK n \in Nat, t \in Nat, m \in Nat, s \in Nat :
          /\ n = bank'.total_liability_shares /\ t = bank.total_liability_shares
          /\ m = u.bank.total_liability_shares /\ s = SumFunction(LiabilityShares)
    BY <1>1, <1>2, <1>3
  <2>2. PICK i \in Nat, j \in Nat, k \in Nat, l \in Nat :
          /\ i = balances[x].liability_shares /\ j = u.balance.liability_shares
          /\ k = balances[y].liability_shares /\ l = v.balance.liability_shares
    BY <1>3 DEF BalanceRecords
  <2>3. (m - j) - (t - i) = 0 /\ (n - l) - (m - k) = 0
    BY <1>7, <2>1, <2>2 DEF LiabilityDust
  <2>4. OrphanLiabilities' = n - (s + j - i + l - k) /\ OrphanLiabilities = t - s
    BY <1>5, <1>6, <2>1, <2>2 DEF OrphanLiabilities
  <2> QED BY <2>3, <2>4
<1>10. DustStep  BY <1>8, <1>9, NoDust DEF DustStep
<1>11. BalanceStep(x)  BY Zenon, <1>7, OperatedBalance
<1>12. BalanceStep(y)  BY <1>7, OperatedBalance
<1>13. ASSUME NEW a \in Accounts, a # x, a # y PROVE BalanceStep(a)  BY <1>13, SameBalance
<1> QED BY <1>10, <1>11, <1>12, <1>13 DEF Effects

-----------------------------------------------------------------------------
(* One lemma per instruction again: its effects on the balances.           *)

ValueKept == bank'.asset_share_value >= bank.asset_share_value

\* Every handler starts from the accrued bank.
LEMMA FoundPrepared ==
  ASSUME LedgerInv, NEW a \in Accounts
  PROVE  /\ Prepared(Found(a), a) /\ Found(a).bank = Accrued /\ Found(a).balance = balances[a]
         /\ Accrued.asset_share_value >= bank.asset_share_value
         /\ Accrued.liability_share_value >= bank.liability_share_value
<1>1. Found(a).bank = Accrued /\ Found(a).balance = balances[a]  BY DEF Found
<1> QED BY <1>1, FoundOK, AccruedOK DEF Prepared, AccrualOK

\* An instruction that stores one wrapper.
LEMMA StoredEffects ==
  ASSUME LedgerInv, LedgerInv', InactiveEmpty, NEW a \in Accounts, NEW v,
         OperationOK(Found(a), v, now), LimitsKept(Found(a), v), Conserves(Found(a), v),
         SameValues(v.bank, bank'), balances' = [balances EXCEPT ![a] = v.balance]
  PROVE  Effects /\ LimitsStep(a) /\ ValueKept
<1>1. balances'[a] = v.balance /\ \A x \in Accounts : x # a => balances'[x] = balances[x]
  BY LedgerNumbers
<1>2. Effects /\ LimitsStep(a)  BY <1>1, FoundPrepared, OneBalance
<1>3. ValueKept  BY FoundPrepared DEF Conserves, SameValues, ValueKept
<1> QED BY <1>2, <1>3

\* A bank has the values it has.
LEMMA SameValuesRefl == \A b : SameValues(b, b)
BY DEF SameValues

\* The balance that find_or_create gives is as good as the one found.
LEMMA FoundOrCreatedEffects ==
  ASSUME LedgerInv, InactiveEmpty, NEW a \in Accounts
  PROVE  /\ FoundOrCreated(a).balance.active
         /\ \A v : /\ OperationOK(FoundOrCreated(a), v, now) => OperationOK(Found(a), v, now)
                   /\ LimitsKept(FoundOrCreated(a), v) => LimitsKept(Found(a), v)
                   /\ AssetDust(FoundOrCreated(a), v) = AssetDust(Found(a), v)
                   /\ LiabilityDust(FoundOrCreated(a), v) = LiabilityDust(Found(a), v)
<1>1. now \in Nat /\ WrapperOK(Found(a), now)  BY BankNats, FoundOK
<1>2. Found(a).balance.active \/ Found(a).balance = EmptyDeactivated
  BY FoundPrepared DEF InactiveEmpty
<1>3. FoundOrCreated(a) = FindOrCreate(Found(a).bank, Found(a).balance, now)
  BY FoundPrepared DEF FoundOrCreated
<1> QED BY <1>1, <1>2, <1>3, CreatedOperation

\* lending_account_deposit and lending_account_repay.
LEMMA DepositEffects ==
  ASSUME LedgerInv, LedgerInv', InactiveEmpty, NEW a \in Accounts, NEW amount \in Nat,
         LendingAccountDeposit(a, amount) \/ LendingAccountRepay(a, amount)
  PROVE  Effects /\ LimitsStep(a) /\ ValueKept
<1>0. now \in Nat /\ amount * ONE \in Nat  BY BankNats, NatProduct, OneAssumption
<1>1. "Any" # "BypassDepositLimit" /\ "RepayOnly" # "BypassDepositLimit"  OBVIOUS
<1>2. CASE LendingAccountDeposit(a, amount)
  <2> DEFINE f == FoundOrCreated(a)
             v == IncreaseBalance(f, amount * ONE, now)
  <2>1. IncreaseAllowed(f, amount * ONE, "Any") /\ Store(a, v)
    BY <1>2 DEF LendingAccountDeposit
  <2>2. WrapperOK(f, now) /\ Conserves(Found(a), f) /\ WrapperOK(Found(a), now) /\ f.balance.active
    BY FoundOrCreatedOK, FoundOK, FoundOrCreatedEffects
  <2> HIDE DEF f
  <2>3. WrapperOK(v, now) /\ Conserves(f, v)  BY <1>0, <2>2, IncreaseBalanceOK
  <2>4. OperationOK(f, v, now) /\ LimitsKept(f, v)
    BY <1>0, <1>1, <2>1, <2>2, IncreaseOperation
  <2> HIDE DEF v
  <2>5. Conserves(Found(a), v)  BY <1>0, <2>2, <2>3, ConservesTrans
  <2>6. OperationOK(Found(a), v, now) /\ LimitsKept(Found(a), v)
    BY <2>4, FoundOrCreatedEffects DEF f
  <2>7. bank' = v.bank /\ balances' = [balances EXCEPT ![a] = v.balance]  BY <2>1 DEF Store
  <2> QED BY Zenon, <2>5, <2>6, <2>7, SameValuesRefl, StoredEffects
<1>3. CASE LendingAccountRepay(a, amount)
  <2> DEFINE v == IncreaseBalance(Found(a), amount * ONE, now)
  <2>1. /\ IncreaseAllowed(Found(a), amount * ONE, "RepayOnly") /\ Store(a, v)
        /\ balances[a].active
    BY <1>3 DEF LendingAccountRepay
  <2>2. WrapperOK(Found(a), now) /\ Found(a).balance.active  BY <2>1, FoundOK, FoundPrepared
  <2>3. Conserves(Found(a), v)  BY <1>0, <2>2, IncreaseBalanceOK
  <2>4. OperationOK(Found(a), v, now) /\ LimitsKept(Found(a), v)
    BY <1>0, <1>1, <2>1, <2>2, IncreaseOperation
  <2> HIDE DEF v
  <2>5. bank' = v.bank /\ balances' = [balances EXCEPT ![a] = v.balance]  BY <2>1 DEF Store
  <2> QED BY Zenon, <2>3, <2>4, <2>5, SameValuesRefl, StoredEffects
<1> QED BY <1>2, <1>3

\* lending_account_withdraw.
LEMMA WithdrawEffects ==
  ASSUME LedgerInv, LedgerInv', InactiveEmpty, NEW a \in Accounts, NEW amount \in Nat,
         LendingAccountWithdraw(a, amount)
  PROVE  Effects /\ LimitsStep(a) /\ ValueKept
<1> DEFINE v == DecreaseBalance(Found(a), amount * ONE, now)
<1>0. now \in Nat /\ amount * ONE \in Nat  BY BankNats, NatProduct, OneAssumption
<1>1. /\ DecreaseAllowed(Found(a), amount * ONE, "WithdrawOnly", now) /\ Store(a, v)
      /\ balances[a].active
  BY DEF LendingAccountWithdraw
<1>2. WrapperOK(Found(a), now) /\ Found(a).balance.active  BY <1>1, FoundOK, FoundPrepared
<1>3. Conserves(Found(a), v)  BY <1>0, <1>2, DecreaseBalanceOK
<1>4. "WithdrawOnly" # "BypassBorrowLimit"  OBVIOUS
<1>5. OperationOK(Found(a), v, now) /\ LimitsKept(Found(a), v)
  BY <1>0, <1>1, <1>2, <1>4, DecreaseOperation
<1> HIDE DEF v
<1>6. bank' = v.bank /\ balances' = [balances EXCEPT ![a] = v.balance]  BY <1>1 DEF Store
<1> QED BY Zenon, <1>3, <1>5, <1>6, SameValuesRefl, StoredEffects

\* lending_account_borrow; the origination fee changes no share.
LEMMA BorrowEffects ==
  ASSUME LedgerInv, LedgerInv', InactiveEmpty, NEW a \in Accounts, NEW amount \in Nat,
         LendingAccountBorrow(a, amount)
  PROVE  Effects /\ LimitsStep(a) /\ ValueKept
<1> DEFINE fee == OriginationFee(amount)
           f == FoundOrCreated(a)
           v == DecreaseBalance(f, amount * ONE + fee, now)
<1>0. now \in Nat /\ amount * ONE \in Nat /\ bank \in BankRecords
  BY BankNats, NatProduct, OneAssumption
<1>1. fee \in Nat
  <2>1. bank.config.interest_rate_config.protocol_origination_fee \in Nat
    BY <1>0 DEF BankRecords, BankConfigs, InterestRateConfigs
  <2> QED BY Zenon, <1>0, <2>1, MulNat DEF OriginationFee
<1>2. /\ DecreaseAllowed(f, amount * ONE + fee, "Any", now)
      /\ Store(a, [v EXCEPT !.bank = BookOriginationFee(v.bank, fee)])
  BY DEF LendingAccountBorrow
<1> HIDE DEF fee
<1>3. amount * ONE + fee \in Nat  BY <1>0, <1>1
<1>4. WrapperOK(f, now) /\ Conserves(Found(a), f) /\ WrapperOK(Found(a), now) /\ f.balance.active
  BY FoundOrCreatedOK, FoundOK, FoundOrCreatedEffects
<1> HIDE DEF f
<1>5. WrapperOK(v, now) /\ Conserves(f, v)  BY <1>0, <1>3, <1>4, DecreaseBalanceOK
<1>6. "Any" # "BypassBorrowLimit"  OBVIOUS
<1>7. OperationOK(f, v, now) /\ LimitsKept(f, v)
  BY <1>0, <1>2, <1>3, <1>4, <1>6, DecreaseOperation
<1> HIDE DEF v
<1>8. Conserves(Found(a), v)  BY <1>0, <1>4, <1>5, ConservesTrans
<1>9. OperationOK(Found(a), v, now) /\ LimitsKept(Found(a), v)
  BY <1>7, FoundOrCreatedEffects DEF f
<1>10. v = [bank |-> v.bank, balance |-> v.balance] /\ v.bank \in BankRecords  BY <1>5 DEF WrapperOK
<1>11. bank' = BookOriginationFee(v.bank, fee) /\ balances' = [balances EXCEPT ![a] = v.balance]
  BY <1>2, <1>10 DEF Store
<1>12. SameValues(v.bank, bank')  BY <1>10, <1>11 DEF SameValues, BookOriginationFee, BankRecords
<1> QED BY Zenon, <1>8, <1>9, <1>11, <1>12, StoredEffects

\* lending_account_withdraw with withdraw_all, lending_account_repay with
\* repay_all and lending_account_close_balance.
LEMMA CloseEffects ==
  ASSUME LedgerInv, LedgerInv', InactiveEmpty, NEW a \in Accounts,
         \/ LendingAccountWithdrawAll(a) \/ LendingAccountRepayAll(a)
         \/ LendingAccountCloseBalance(a)
  PROVE  Effects /\ LimitsStep(a) /\ ValueKept
<1>0. now \in Nat /\ WrapperOK(Found(a), now)  BY BankNats, FoundOK
<1>1. PICK v : /\ OperationOK(Found(a), v, now) /\ LimitsKept(Found(a), v)
               /\ Conserves(Found(a), v) /\ Store(a, v)
  <2>1. CASE LendingAccountWithdrawAll(a)
    BY <1>0, <2>1, CloseOperation, WithdrawAllOK DEF LendingAccountWithdrawAll
  <2>2. CASE LendingAccountRepayAll(a)
    BY <1>0, <2>2, CloseOperation, RepayAllOK DEF LendingAccountRepayAll
  <2>3. CASE LendingAccountCloseBalance(a)
    BY <1>0, <2>3, CloseOperation, CloseBalanceOK DEF LendingAccountCloseBalance
  <2> QED BY <2>1, <2>2, <2>3
<1>2. bank' = v.bank /\ balances' = [balances EXCEPT ![a] = v.balance]  BY <1>1 DEF Store
<1> QED BY Zenon, <1>1, <1>2, SameValuesRefl, StoredEffects

\* The wrapper of an instruction that does not accrue interest.
LEMMA Unaccrued ==
  ASSUME LedgerInv, NEW a \in Accounts
  PROVE  Prepared([bank |-> bank, balance |-> balances[a]], a)
<1> DEFINE w == [bank |-> bank, balance |-> balances[a]]
<1>1. WrapperOK(w, now)  BY InvParts, WrapOK, AccountsFinite
<1>2. w.bank = bank /\ w.balance = balances[a]  OBVIOUS
<1> QED BY <1>1, <1>2 DEF Prepared

\* lending_account_settle_emissions and lending_account_withdraw_emissions.
LEMMA EmissionsEffects ==
  ASSUME LedgerInv, LedgerInv', InactiveEmpty, NEW a \in Accounts,
         LendingAccountWithdrawEmissions(a) \/ LendingAccountSettleEmissions(a)
  PROVE  Effects /\ LimitsStep(a) /\ ValueKept
<1> DEFINE w == [bank |-> bank, balance |-> balances[a]]
<1>1. now \in Nat /\ bank \in BankRecords  BY BankNats
<1>2. Prepared(w, a) /\ w.bank = bank /\ w.balance = balances[a]  BY Unaccrued
<1>3. w.balance.active  BY <1>2 DEF LendingAccountWithdrawEmissions, LendingAccountSettleEmissions
<1>4. \/ Store(a, SettleEmissions(w, now)) \/ Store(a, ClaimEmissions(w, now))
  BY DEF LendingAccountWithdrawEmissions, LendingAccountSettleEmissions
<1> HIDE DEF w
<1>5. WrapperOK(w, now)  BY <1>2 DEF Prepared
<1>6. PICK v : /\ OperationOK(w, v, now) /\ LimitsKept(w, v) /\ Conserves(w, v) /\ Store(a, v)
  BY Zenon, <1>1, <1>3, <1>4, <1>5, EmissionsOperation, ClaimEmissionsOK, SettleEmissionsOK
<1>7. bank' = v.bank /\ balances' = [balances EXCEPT ![a] = v.balance]  BY <1>6 DEF Store
<1>8. balances'[a] = v.balance /\ \A x \in Accounts : x # a => balances'[x] = balances[x]
  BY <1>7, LedgerNumbers
<1>9. Effects /\ LimitsStep(a)  BY <1>2, <1>6, <1>7, <1>8, SameValuesRefl, OneBalance
<1>10. bank'.asset_share_value = bank.asset_share_value /\ bank.asset_share_value \in Nat
  BY <1>1, <1>2, <1>6, <1>7 DEF Conserves, BankRecords
<1>11. ValueKept  BY <1>10 DEF ValueKept
<1> QED BY <1>9, <1>11

\* close_account drops less than a whole share of either side.
LEMMA AccountCloseEffects ==
  ASSUME LedgerInv, LedgerInv', InactiveEmpty, NEW a \in Accounts, MarginfiAccountClose(a)
  PROVE  Effects /\ LimitsStep(a) /\ ValueKept
<1> DEFINE w == [bank |-> bank, balance |-> balances[a]]
           v == [bank |-> bank, balance |-> EmptyDeactivated]
<1>1. now \in Nat /\ bank \in BankRecords  BY BankNats
<1>2. Prepared(w, a) /\ w.bank = bank /\ w.balance = balances[a]  BY Unaccrued
<1>3. v.bank = bank /\ v.balance = EmptyDeactivated  OBVIOUS
<1>4. /\ GetSide(balances[a]) = "None" /\ bank' = bank
      /\ balances' = [balances EXCEPT ![a] = EmptyDeactivated]
  BY DEF MarginfiAccountClose
<1>5. balances[a].asset_shares \in Nat /\ balances[a].liability_shares \in Nat  BY LedgerNumbers
<1> HIDE DEF w, v
<1>6. /\ balances[a].asset_shares < EMPTY_BALANCE_THRESHOLD
      /\ balances[a].liability_shares < EMPTY_BALANCE_THRESHOLD
  BY <1>4, <1>5, OneAssumption DEF GetSide, EMPTY_BALANCE_THRESHOLD
<1>7. /\ Residue(w.balance.asset_shares, AssetAmount(w))
      /\ Residue(w.balance.liability_shares, LiabilityAmount(w))
  BY <1>2, <1>5, <1>6 DEF Residue
<1>8. WrapperOK(w, now)  BY <1>2 DEF Prepared
<1>9. OperationOK(w, v, now) /\ LimitsKept(w, v)  BY Zenon, <1>1, <1>2, <1>3, <1>7, <1>8, ClosedOK
<1>10. balances'[a] = v.balance /\ \A x \in Accounts : x # a => balances'[x] = balances[x]
  BY <1>3, <1>4, LedgerNumbers
<1>11. Effects /\ LimitsStep(a)
  BY Zenon, <1>2, <1>3, <1>4, <1>9, <1>10, SameValuesRefl, OneBalance
<1>12. ValueKept  BY <1>1, <1>4 DEF ValueKept, BankRecords
<1> QED BY <1>11, <1>12

\* A second balance of the bank, once the first is wrapped and changed.
LEMMA SecondFound ==
  ASSUME NEW e \in Nat, now \in Nat, LedgerOK(Accounts, Accrued, balances, e, now),
         NEW x \in Accounts, NEW y \in Accounts, x # y, NEW w, NEW u, NEW z,
         w = [bank |-> Accrued, balance |-> balances[x]], z = [bank |-> u.bank, balance |-> balances[y]],
         WrapperOK(u, now), Conserves(w, u)
  PROVE  WrapperOK(z, now)
BY SecondWrapper, AccountsFinite

\* lending_account_liquidate, in the bank of the collateral.
LEMMA LiquidateAssetEffects ==
  ASSUME LedgerInv, LedgerInv', InactiveEmpty,
         NEW liquidator \in Accounts, NEW liquidatee \in Accounts, NEW amount \in Nat,
         LiquidateAsset(liquidator, liquidatee, amount)
  PROVE  Effects /\ ValueKept
<1> DEFINE e == vault["emissions"] * ONE
           w == Found(liquidatee)
           seized == DecreaseBalance(w, amount * ONE, now)
           second == [bank |-> seized.bank, balance |-> balances[liquidator]]
           bought == FindOrCreate(seized.bank, balances[liquidator], now)
           v == IncreaseBalance(bought, amount * ONE, now)
<1>1. now \in Nat /\ e \in Nat /\ amount * ONE \in Nat
  BY BankNats, NatProduct, OneAssumption
<1>2. /\ liquidator # liquidatee /\ balances[liquidatee].active
      /\ DecreaseAllowed(w, amount * ONE, "WithdrawOnly", now)
      /\ IncreaseAllowed(bought, amount * ONE, "BypassDepositLimit")
      /\ bank' = v.bank
      /\ balances' = [balances EXCEPT ![liquidatee] = seized.balance, ![liquidator] = v.balance]
  BY Zenon DEF LiquidateAsset
<1>3. /\ LedgerOK(Accounts, Accrued, balances, e, now) /\ WrapperOK(w, now)
      /\ Prepared(w, liquidatee) /\ w.balance.active /\ w.bank.config = bank.config
      /\ w = [bank |-> Accrued, balance |-> balances[liquidatee]]
      /\ w.bank.asset_share_value >= bank.asset_share_value
  BY Zenon, <1>2, AccruedOK, FoundOK, FoundPrepared DEF Prepared, Found
<1> HIDE DEF e, w
<1>4. WrapperOK(seized, now) /\ Conserves(w, seized)  BY Zenon, <1>1, <1>3, DecreaseBalanceOK
<1>5. OperationOK(w, seized, now)  BY Zenon, <1>1, <1>2, <1>3, DecreaseOperation
<1>6. /\ AssetDust(w, seized) = 0 /\ LiabilityDust(w, seized) = 0
      /\ seized.bank.config = bank.config
  BY Zenon, <1>1, <1>3, MovesLeaveNoDust
<1> HIDE DEF seized
<1>7. WrapperOK(second, now)
  <2>1. second = [bank |-> seized.bank, balance |-> balances[liquidator]]  OBVIOUS
  <2> HIDE DEF second
  <2> QED BY Zenon, <1>1, <1>2, <1>3, <1>4, <2>1, SecondFound
<1>8. second.bank = seized.bank /\ second.balance = balances[liquidator]  OBVIOUS
<1>9. bought = FindOrCreate(second.bank, second.balance, now)  BY <1>8
<1> HIDE DEF second, bought
<1>10. WrapperOK(bought, now) /\ Conserves(second, bought)  BY <1>1, <1>7, <1>9, FindOrCreateOK
<1>11. second.balance.active \/ second.balance = EmptyDeactivated  BY <1>8 DEF InactiveEmpty
<1>12. /\ bought.balance.active
       /\ OperationOK(bought, v, now) => OperationOK(second, v, now)
       /\ AssetDust(bought, v) = AssetDust(second, v)
       /\ LiabilityDust(bought, v) = LiabilityDust(second, v)
  BY <1>1, <1>7, <1>9, <1>11, CreatedOperation
<1>13. OperationOK(bought, v, now)  BY Zenon, <1>1, <1>2, <1>10, <1>12, IncreaseOperation
<1>14. AssetDust(bought, v) = 0 /\ LiabilityDust(bought, v) = 0
  BY <1>1, <1>10, MovesLeaveNoDust
<1>15. Conserves(bought, v)  BY <1>1, <1>10, IncreaseBalanceOK
<1> HIDE DEF v
<1>16. /\ v.bank.asset_share_value = seized.bank.asset_share_value
       /\ v.bank.liability_share_value = seized.bank.liability_share_value
       /\ v.bank.asset_share_value = w.bank.asset_share_value
  BY Zenon, <1>4, <1>8, <1>10, <1>15 DEF Conserves
<1>17. /\ balances'[liquidatee] = seized.balance /\ balances'[liquidator] = v.balance
       /\ \A a \in Accounts : a # liquidatee /\ a # liquidator => balances'[a] = balances[a]
  BY Zenon, <1>2, LedgerNumbers
<1>18. SameValues(v.bank, bank') /\ OperationOK(second, v, now)
       /\ AssetDust(second, v) = 0 /\ LiabilityDust(second, v) = 0
  BY Zenon, <1>2, <1>12, <1>13, <1>14, SameValuesRefl
<1>19. Effects
  BY <1>2, <1>3, <1>4, <1>5, <1>6, <1>8, <1>16, <1>17, <1>18, TwoBalances, Zenon
<1>20. ValueKept  BY Zenon, <1>2, <1>3, <1>16 DEF ValueKept
<1> QED BY <1>19, <1>20

\* lending_account_liquidate, in the bank of the debt.
LEMMA LiquidateLiabilityEffects ==
  ASSUME LedgerInv, LedgerInv', InactiveEmpty,
         NEW liquidator \in Accounts, NEW liquidatee \in Accounts, NEW q_l \in Nat, NEW q_f \in Nat,
         LiquidateLiability(liquidator, liquidatee, q_l, q_f)
  PROVE  Effects /\ ValueKept
<1> DEFINE e == vault["emissions"] * ONE
           w == Found(liquidator)
           f == FoundOrCreated(liquidator)
           paid == DecreaseBalance(f, q_l, now)
           indebted == [bank |-> paid.bank, balance |-> balances[liquidatee]]
           v == IncreaseBalance(indebted, q_f, now)
           dust == InsuranceFeeDust(q_l - q_f)
<1>1. now \in Nat /\ e \in Nat  BY BankNats
<1>2. /\ liquidator # liquidatee /\ balances[liquidatee].active
      /\ DecreaseAllowed(f, q_l, "BypassBorrowLimit", now)
      /\ IncreaseAllowed(indebted, q_f, "Any")
      /\ bank' = [v.bank EXCEPT !.collected_insurance_fees_outstanding = @ + dust]
      /\ balances' = [balances EXCEPT ![liquidator] = paid.balance, ![liquidatee] = v.balance]
  BY DEF LiquidateLiability
<1>3. /\ LedgerOK(Accounts, Accrued, balances, e, now) /\ WrapperOK(w, now)
      /\ Prepared(w, liquidator) /\ w.bank = Accrued /\ w.bank.config = bank.config
      /\ w = [bank |-> Accrued, balance |-> balances[liquidator]]
      /\ w.bank.asset_share_value >= bank.asset_share_value
  BY Zenon, AccruedOK, FoundOK, FoundPrepared DEF Prepared, Found
<1>4. /\ WrapperOK(f, now) /\ Conserves(w, f) /\ f.balance.active /\ f.bank = Accrued
      /\ \A x : /\ OperationOK(f, x, now) => OperationOK(w, x, now)
                /\ AssetDust(f, x) = AssetDust(w, x)
                /\ LiabilityDust(f, x) = LiabilityDust(w, x)
  BY FoundOrCreatedOK, FoundOrCreatedEffects DEF FoundOrCreated, FindOrCreate
<1> HIDE DEF e, w, f, dust
<1>5. WrapperOK(paid, now) /\ Conserves(f, paid)  BY <1>1, <1>4, DecreaseBalanceOK
<1>6. OperationOK(f, paid, now)  BY <1>1, <1>2, <1>4, DecreaseOperation
<1>7. AssetDust(f, paid) = 0 /\ LiabilityDust(f, paid) = 0 /\ paid.bank.config = f.bank.config
  BY <1>1, <1>4, MovesLeaveNoDust
<1> HIDE DEF paid
<1>8. Conserves(w, paid)  BY Zenon, <1>1, <1>3, <1>4, <1>5, ConservesTrans
<1>9. WrapperOK(indebted, now)
  <2>1. indebted = [bank |-> paid.bank, balance |-> balances[liquidatee]]  OBVIOUS
  <2> HIDE DEF indebted
  <2> QED BY Zenon, <1>1, <1>2, <1>3, <1>5, <1>8, <2>1, SecondFound
<1>10. indebted.bank = paid.bank /\ indebted.balance = balances[liquidatee]  OBVIOUS
<1> HIDE DEF indebted
<1>11. WrapperOK(v, now) /\ Conserves(indebted, v)  BY <1>1, <1>9, IncreaseBalanceOK
<1>12. OperationOK(indebted, v, now)  BY <1>1, <1>2, <1>9, <1>10, IncreaseOperation
<1>13. AssetDust(indebted, v) = 0 /\ LiabilityDust(indebted, v) = 0
  BY <1>1, <1>9, MovesLeaveNoDust
<1> HIDE DEF v
<1>14. /\ v.bank.asset_share_value = paid.bank.asset_share_value
       /\ v.bank.liability_share_value = paid.bank.liability_share_value
       /\ v.bank.asset_share_value = w.bank.asset_share_value
  BY <1>8, <1>10, <1>11 DEF Conserves
<1>15. v.bank \in BankRecords  BY <1>11 DEF WrapperOK
<1>16. SameValues(v.bank, bank')  BY <1>2, <1>15 DEF SameValues, BankRecords
<1>17. /\ balances'[liquidator] = paid.balance /\ balances'[liquidatee] = v.balance
       /\ \A a \in Accounts : a # liquidator /\ a # liquidatee => balances'[a] = balances[a]
  BY <1>2, LedgerNumbers
<1>18. /\ OperationOK(w, paid, now) /\ AssetDust(w, paid) = 0 /\ LiabilityDust(w, paid) = 0
       /\ paid.bank.config = bank.config
  BY Zenon, <1>3, <1>4, <1>6, <1>7
<1>19. Effects
  BY <1>2, <1>3, <1>5, <1>10, <1>12, <1>13, <1>14, <1>16, <1>17, <1>18, TwoBalances, Zenon
<1>20. ValueKept  BY Zenon, <1>3, <1>14, <1>16 DEF ValueKept, SameValues
<1> QED BY <1>19, <1>20

\* Everything that anyone may do to a bank without a balance in it, and the
\* clock.
LEMMA PoolEffects ==
  ASSUME LedgerInv, LedgerInv', InactiveEmpty,
         PoolStep \/ Tick \/ \E a \in Accounts : DisabledElsewhere(a)
  PROVE  Effects /\ ValueKept /\ \A a \in Accounts : LimitsStep(a)
<1>1. bank \in BankRecords /\ bank.asset_share_value \in Nat  BY BankNats DEF BankRecords
<1>2. /\ balances' = balances /\ bank'.total_asset_shares = bank.total_asset_shares
      /\ bank'.total_liability_shares = bank.total_liability_shares
      /\ ValueKept
  <2>1. CASE LendingPoolAccrueBankInterest
    BY <2>1, AccruedOK DEF LendingPoolAccrueBankInterest, AccrualOK, ValueKept
  <2>2. CASE LendingPoolCollectBankFees
    BY <1>1, <2>2 DEF LendingPoolCollectBankFees, ValueKept, BankRecords
  <2>3. CASE bank' = bank /\ balances' = balances  BY <1>1, <2>3 DEF ValueKept
  <2>4. CASE \E config \in Configs, permissionless \in BadDebtFlags :
               LendingPoolConfigureBank(config, permissionless)
    BY <1>1, <2>4 DEF LendingPoolConfigureBank, Configure, ValueKept, BankRecords
  <2>5. CASE \E rate, flags, amount : \/ LendingPoolSetupEmissions(flags, rate, amount)
                                       \/ LendingPoolUpdateEmissionsParameters(flags, rate, amount)
    <3>1. PICK set, flags, rate, remaining :
            /\ bank' = [bank EXCEPT !.emissions_mint_set = set, !.flags = flags,
                                    !.emissions_rate = rate, !.emissions_remaining = remaining]
            /\ balances' = balances
      <4>1. PICK rate, flags, amount :
              \/ LendingPoolSetupEmissions(flags, rate, amount)
              \/ LendingPoolUpdateEmissionsParameters(flags, rate, amount)
        BY <2>5
      <4>2. CASE LendingPoolSetupEmissions(flags, rate, amount)
        BY <4>2, Zenon DEF LendingPoolSetupEmissions
      <4>3. CASE LendingPoolUpdateEmissionsParameters(flags, rate, amount)
        <5> DEFINE remaining == bank.emissions_remaining + amount * ONE
        <5>1. bank' = [bank EXCEPT !.emissions_mint_set = @, !.flags = flags,
                                   !.emissions_rate = rate, !.emissions_remaining = remaining]
          <6>1. bank' = [bank EXCEPT !.flags = flags, !.emissions_rate = rate,
                                     !.emissions_remaining = remaining]
            BY <4>3 DEF LendingPoolUpdateEmissionsParameters
          <6> HIDE DEF remaining
          <6> QED BY <1>1, <6>1, Zenon DEF BankRecords
        <5>2. balances' = balances  BY <4>3 DEF LendingPoolUpdateEmissionsParameters
        <5> QED BY <5>1, <5>2, Zenon
      <4> QED BY <4>1, <4>2, <4>3, Zenon
    <3>2. /\ bank'.total_asset_shares = bank.total_asset_shares
          /\ bank'.total_liability_shares = bank.total_liability_shares
          /\ bank'.asset_share_value = bank.asset_share_value
      BY <1>1, <3>1 DEF BankRecords
    <3> QED BY <1>1, <3>1, <3>2 DEF ValueKept
  <2>6. CASE Tick \/ \E a \in Accounts : DisabledElsewhere(a)
    BY <2>3, <2>6 DEF Tick, DisabledElsewhere
  <2>7. CASE PoolStep
    BY Zenon, <2>1, <2>2, <2>3, <2>4, <2>5, <2>7
       DEF PoolStep, LendingPoolWithdrawFees, LendingPoolWithdrawInsurance, Donate, ChangeGroupFees
  <2> QED BY <2>6, <2>7
<1> QED BY <1>2, NoBalance

-----------------------------------------------------------------------------
(* Bankruptcy.                                                             *)

InsuranceStep ==
  bank'.asset_share_value + 1 + (ONE \div Greatest(bank.total_asset_shares, 1))
    < bank.asset_share_value
  => /\ vault'["insurance"] = 0
     /\ \E a \in disabled' :
          /\ GetLiabilityAmount(bank', balances[a].liability_shares) > ZERO_AMOUNT_THRESHOLD
          /\ balances'[a].liability_shares <= 1

\* The rounding that the statement allows for.
LEMMA AllowedRounding ==
  ASSUME LedgerInv, LedgerInv'
  PROVE  /\ bank.asset_share_value \in Nat /\ bank'.asset_share_value \in Nat
         /\ Greatest(bank.total_asset_shares, 1) \in Nat \ {0}
         /\ ONE \div Greatest(bank.total_asset_shares, 1) \in Nat
<1>1. /\ bank.asset_share_value \in Nat /\ bank'.asset_share_value \in Nat
      /\ bank.total_asset_shares \in Nat
  BY LedgerNumbers, LedgerNumbers1 DEF BankRecords
<1>2. Greatest(bank.total_asset_shares, 1) \in Nat \ {0}  BY <1>1 DEF Greatest
<1> QED BY <1>1, <1>2, DivBounds, OneAssumption

\* Where the share value does not fall, depositors bear nothing.
LEMMA NoLoss ==
  ASSUME LedgerInv, LedgerInv', ValueKept
  PROVE  InsuranceStep
<1> DEFINE r == ONE \div Greatest(bank.total_asset_shares, 1)
<1>1. bank.asset_share_value \in Nat /\ bank'.asset_share_value \in Nat /\ r \in Nat
  BY AllowedRounding
<1> HIDE DEF r
<1>2. ~(bank'.asset_share_value + 1 + r < bank.asset_share_value)  BY <1>1 DEF ValueKept
<1> QED BY <1>2 DEF InsuranceStep, r

\* lending_pool_handle_bankruptcy.
LEMMA BankruptcyEffects ==
  ASSUME LedgerInv, LedgerInv', InactiveEmpty, bank.liability_share_value >= ONE,
         NEW a \in Accounts, LendingPoolHandleBankruptcy(a)
  PROVE  Effects /\ LimitsStep(a) /\ InsuranceStep
<1> DEFINE w == Socialized(a)
           d == BadDebt(a)
           v == IncreaseBalance(w, d, now)
           n == bank.total_asset_shares
           asv == Accrued.asset_share_value
           lsv == Accrued.liability_share_value
           s == balances[a].liability_shares
           loss == SocializedLoss(a)
<1>1. now \in Nat /\ bank \in BankRecords  BY BankNats
<1>2. AccrualOK(bank, Accrued, now)  BY AccruedOK
<1>3. /\ WrapperOK(w, now) /\ w.balance = balances[a]
      /\ w.bank.total_asset_shares = n
      /\ w.bank.total_liability_shares = bank.total_liability_shares
      /\ w.bank.liability_share_value = lsv /\ w.bank.config = bank.config
      /\ w.bank.asset_share_value = Div(TotalAssets(Accrued) - loss, n)
      /\ d \in Nat /\ CoveredByInsurance(a) \in Nat /\ loss \in Nat
      /\ IncreaseAllowed(w, d, "RepayOnly") /\ Store(a, v)
  BY Zenon, <1>2, SocializedOK DEF AccrualOK
<1>4. /\ balances[a].active /\ d > ZERO_AMOUNT_THRESHOLD /\ Accrued.total_asset_shares > 0
      /\ Transfer("insurance", "liquidity", CeilTokens(CoveredByInsurance(a)))
      /\ disabled' = disabled \cup {a}
  BY DEF LendingPoolHandleBankruptcy
<1>5. /\ n \in Nat \ {0} /\ asv \in Nat /\ lsv \in Nat /\ lsv >= ONE /\ asv >= bank.asset_share_value
      /\ s \in Nat
  <2>1. /\ Accrued \in BankRecords /\ asv >= bank.asset_share_value
        /\ lsv >= bank.liability_share_value /\ n = Accrued.total_asset_shares
    BY <1>2 DEF AccrualOK
  <2>2. asv \in Nat /\ lsv \in Nat /\ Accrued.total_asset_shares \in Nat  BY <2>1 DEF BankRecords
  <2>3. bank.liability_share_value \in Nat /\ ONE \in Nat  BY <1>1, OneAssumption DEF BankRecords
  <2>4. s \in Nat  BY Zenon, LedgerNumbers
  <2> HIDE DEF n, asv, lsv, s
  <2> QED BY <1>4, <2>1, <2>2, <2>3, <2>4
<1>6. TotalAssets(Accrued) = Mul(n, asv) /\ d = Mul(s, lsv)
  BY Zenon, <1>2, FoundPrepared DEF TotalAssets, GetAssetAmount, BadDebt, LiabilityAmount,
                            GetLiabilityAmount, AccrualOK
<1> HIDE DEF w, d, loss, n, asv, lsv, s
<1>7. WrapperOK(v, now) /\ Conserves(w, v)  BY Zenon, <1>1, <1>3, IncreaseBalanceOK
<1>8. OperationOK(w, v, now) /\ LimitsKept(w, v)
  <2>1. "RepayOnly" # "BypassDepositLimit"  OBVIOUS
  <2> QED BY Zenon, <1>1, <1>3, <1>4, <2>1, IncreaseOperation
<1>9. v.balance.liability_shares = s + (-GetLiabilityShares(w.bank, LiabilityDecrease(w, d)))
  <2> DEFINE x == GetAssetShares(w.bank, AssetIncrease(w, d))
             y == -GetLiabilityShares(w.bank, LiabilityDecrease(w, d))
  <2>1. Moved(w, v, x, y, now)  BY Zenon, <1>1, <1>3, BalanceMoves
  <2> HIDE DEF v, x, y
  <2>2. v.balance.liability_shares = w.balance.liability_shares + y  BY <2>1 DEF Moved
  <2> QED BY Zenon, <1>3, <2>2 DEF s, y
<1> HIDE DEF v
<1>10. bank' = v.bank /\ balances' = [balances EXCEPT ![a] = v.balance]  BY <1>3 DEF Store
<1>11. balances'[a] = v.balance /\ \A x \in Accounts : x # a => balances'[x] = balances[x]
  BY <1>10, LedgerNumbers
<1>12. Prepared(w, a)  BY Zenon, <1>3 DEF Prepared, n
<1>13. Effects /\ LimitsStep(a)  BY <1>8, <1>10, <1>11, <1>12, SameValuesRefl, OneBalance
<1>14. /\ bank'.asset_share_value = w.bank.asset_share_value
       /\ bank'.liability_share_value = lsv
  BY Zenon, <1>3, <1>7, <1>10 DEF Conserves
<1>15. CASE loss = 0
  <2>1. bank'.asset_share_value = Div(Mul(n, asv), n)
    <3>1. Mul(n, asv) \in Nat  BY Zenon, <1>5, MulNat
    <3>2. Mul(n, asv) - loss = Mul(n, asv)  BY <1>15, <3>1
    <3> QED BY Zenon, <1>3, <1>6, <1>14, <3>2
  <2> DEFINE r == ONE \div Greatest(n, 1)
  <2>2. Greatest(n, 1) = n  BY <1>5 DEF Greatest
  <2>3. asv <= bank'.asset_share_value + 1 + r  BY <1>5, <2>1, <2>2, RoundedValue
  <2>4. bank.asset_share_value \in Nat /\ bank'.asset_share_value \in Nat /\ r \in Nat
    BY AllowedRounding DEF n
  <2> HIDE DEF r
  <2>5. ~(bank'.asset_share_value + 1 + r < bank.asset_share_value)  BY <1>5, <2>3, <2>4
  <2> QED BY Zenon, <1>13, <2>5 DEF InsuranceStep, r, n
<1>16. CASE loss # 0
  <2>1. vault \in [Vaults -> Nat] /\ vault["insurance"] \in Nat
    <3>1. RestOK  BY BankNats
    <3> QED BY <3>1 DEF RestOK, Vaults
  <2>2. CoveredByInsurance(a) = vault["insurance"] * ONE
    <3>1. loss = d - CoveredByInsurance(a)  BY DEF loss, SocializedLoss, d
    <3>2. CoveredByInsurance(a) # d  BY <1>3, <1>16, <3>1
    <3> QED BY <3>2 DEF CoveredByInsurance, Least, d
  <2>3. vault'["insurance"] = 0
    <3>1. CeilTokens(CoveredByInsurance(a)) = vault["insurance"]  BY <2>1, <2>2, CeilWhole
    <3>2. "insurance" \in Vaults /\ "liquidity" \in Vaults  BY DEF Vaults
    <3>3. vault'["insurance"] = vault["insurance"] - vault["insurance"]
      BY <1>4, <2>1, <3>1, <3>2, TransferOK
    <3> QED BY <2>1, <3>3
  <2>4. GetLiabilityAmount(bank', balances[a].liability_shares) > ZERO_AMOUNT_THRESHOLD
    BY Zenon, <1>4, <1>6, <1>14 DEF GetLiabilityAmount, s
  <2>5. balances'[a].liability_shares <= 1
    <3>1. LiabilityAmount(w) = d
      BY Zenon, <1>3, <1>6 DEF LiabilityAmount, GetLiabilityAmount, s
    <3>2. LiabilityDecrease(w, d) = d  BY <3>1 DEF LiabilityDecrease, Least
    <3>3. GetLiabilityShares(w.bank, LiabilityDecrease(w, d)) = Div(Mul(s, lsv), lsv)
      BY Zenon, <1>3, <1>6, <3>2 DEF GetLiabilityShares
    <3> DEFINE q == Div(Mul(s, lsv), lsv)
    <3>4. q \in Nat
      <4>1. Mul(s, lsv) \in Nat  BY Zenon, <1>5, MulNat
      <4>2. lsv \in Nat \ {0}  BY <1>5, OneAssumption
      <4> QED BY <4>1, <4>2, DivNat
    <3>5. s - q <= 1  BY <1>5, WrittenOff
    <3> HIDE DEF q
    <3>6. s + (-q) <= 1  BY <1>5, <3>4, <3>5
    <3> QED BY Zenon, <1>9, <1>11, <3>3, <3>6 DEF q
  <2>6. a \in disabled'  BY <1>4
  <2> QED BY Zenon, <1>13, <2>3, <2>4, <2>5, <2>6 DEF InsuranceStep
<1> QED BY <1>15, <1>16

-----------------------------------------------------------------------------
(* What an instruction may never do.                                       *)

\* The invariant of the action properties.  An inactive balance is empty, so
\* what find_or_create makes of it is as empty; and a unit of debt is worth
\* at least a unit, so writing off an amount writes off its shares.
StrongInv == LedgerInv /\ InactiveEmpty /\ bank.liability_share_value >= ONE

\* Every instruction of one account.
LEMMA AccountEffects ==
  ASSUME StrongInv, LedgerInv', NEW a \in Accounts, AccountStep(a)
  PROVE  Effects /\ LimitsStep(a) /\ InsuranceStep
<1>0. LedgerInv /\ InactiveEmpty /\ bank.liability_share_value >= ONE /\ Amounts \subseteq Nat
  BY LedgerAssumption DEF StrongInv
<1>1. CASE \E amount \in Amounts : \/ LendingAccountDeposit(a, amount)
                                    \/ LendingAccountRepay(a, amount)
                                    \/ LendingAccountWithdraw(a, amount)
                                    \/ LendingAccountBorrow(a, amount)
  BY <1>0, <1>1, DepositEffects, WithdrawEffects, BorrowEffects, NoLoss
<1>2. CASE LendingAccountRepayAll(a) \/ LendingAccountWithdrawAll(a) \/ LendingAccountCloseBalance(a)
  BY <1>0, <1>2, CloseEffects, NoLoss
<1>3. CASE MarginfiAccountClose(a)  BY <1>0, <1>3, AccountCloseEffects, NoLoss
<1>4. CASE LendingAccountWithdrawEmissions(a) \/ LendingAccountSettleEmissions(a)
  BY <1>0, <1>4, EmissionsEffects, NoLoss
<1>5. CASE LendingPoolHandleBankruptcy(a)  BY <1>0, <1>5, BankruptcyEffects
<1>6. CASE DisabledElsewhere(a)  BY <1>0, <1>6, PoolEffects, NoLoss
<1> QED BY Zenon, <1>1, <1>2, <1>3, <1>4, <1>5, <1>6 DEF AccountStep

\* Every instruction.
LEMMA NextEffects ==
  ASSUME StrongInv, Next
  PROVE  StrongInv' /\ Effects /\ InsuranceStep
<1>0. /\ LedgerInv /\ InactiveEmpty /\ bank.liability_share_value >= ONE
      /\ Amounts \subseteq Nat /\ Quantities \subseteq Nat
  BY LedgerAssumption DEF StrongInv
<1>1. LedgerInv' /\ bank'.liability_share_value >= bank.liability_share_value
  BY <1>0, NextOK DEF StepOK
<1>2. ASSUME NEW a \in Accounts, AccountStep(a) PROVE Effects /\ InsuranceStep
  BY <1>1, <1>2, AccountEffects
<1>3. ASSUME NEW a \in Accounts, NEW b \in Accounts, LiquidationStep(a, b)
      PROVE  Effects /\ InsuranceStep
  BY <1>0, <1>1, <1>3, LiquidateAssetEffects, LiquidateLiabilityEffects, NoLoss DEF LiquidationStep
<1>4. ASSUME PoolStep \/ Tick PROVE Effects /\ InsuranceStep
  BY <1>0, <1>1, <1>4, PoolEffects, NoLoss
<1>5. Effects /\ InsuranceStep  BY <1>2, <1>3, <1>4 DEF Next
<1>6. InactiveEmpty'  BY <1>5 DEF Effects, BalanceStep, InactiveEmpty
<1>7. bank'.liability_share_value >= ONE
  BY <1>0, <1>1, LedgerNumbers, LedgerNumbers1, OneAssumption DEF BankRecords
<1> QED BY <1>1, <1>5, <1>6, <1>7 DEF StrongInv

\* It is inductive.
LEMMA StrongInvariant == Spec => []StrongInv
<1>1. Init => StrongInv
  <2>1. SUFFICES ASSUME Init PROVE StrongInv  OBVIOUS
  <2>2. LedgerInv  BY <2>1, InitOK
  <2>3. InactiveEmpty  BY <2>1 DEF Init, InactiveEmpty
  <2>4. bank.liability_share_value >= ONE  BY <2>1, OneAssumption DEF Init, BankNew
  <2> QED BY <2>2, <2>3, <2>4 DEF StrongInv
<1>2. StrongInv /\ UNCHANGED vars => StrongInv'
  <2>1. SUFFICES ASSUME StrongInv, UNCHANGED vars PROVE StrongInv'  OBVIOUS
  <2>2. LedgerInv'  BY <2>1, StutterOK DEF StrongInv
  <2> QED BY <2>1, <2>2 DEF StrongInv, InactiveEmpty, vars
<1>3. StrongInv /\ [Next]_vars => StrongInv'  BY <1>2, NextEffects
<1> QED BY <1>1, <1>3, PTL DEF Spec

\* withdraw_all, repay_all, close_balance and close_account forget at most the
\* residue of one balance, and no other instruction forgets any share, at any
\* share values.
THEOREM OnlyDustDropped == Spec => DropsOnlyDust
<1>1. StrongInv /\ [Next]_vars =>
        [LET assets == OrphanAssets' - OrphanAssets
             liabilities == OrphanLiabilities' - OrphanLiabilities
         IN  /\ Residue(assets, GetAssetAmount(bank', assets))
             /\ Residue(liabilities, GetLiabilityAmount(bank', liabilities))]_vars
  BY NextEffects DEF Effects, DustStep
<1> QED BY <1>1, StrongInvariant, PTL DEF Spec, DropsOnlyDust

\* A balance earns emissions only for time since it was last touched, and
\* earning closes that period.
THEOREM PeriodsEarnedOnce == Spec => EarnsOncePerPeriod
<1>1. StrongInv /\ [Next]_vars =>
        [\A a \in Accounts :
           balances'[a].emissions_outstanding > balances[a].emissions_outstanding =>
             balances[a].last_update < now /\ balances'[a].last_update = now]_vars
  BY NextEffects DEF Effects, BalanceStep
<1> QED BY <1>1, StrongInvariant, PTL DEF Spec, EarnsOncePerPeriod

\* Paused and reduce-only banks bind every instruction, liquidations and
\* bankruptcies included.
THEOREM ModesAlwaysRespected == Spec => ModesRespected
<1>1. StrongInv /\ [Next]_vars =>
        [\A a \in Accounts :
           LET assets == balances'[a].asset_shares - balances[a].asset_shares
               liabs  == balances'[a].liability_shares - balances[a].liability_shares
           IN  /\ bank.config.operational_state = "Paused" =>
                    /\ Residue(-assets, GetAssetAmount(bank', -assets))
                    /\ Residue(-liabs, GetLiabilityAmount(bank', -liabs))
               /\ bank.config.operational_state = "ReduceOnly" =>
                    /\ GetAssetAmount(bank', assets) <= ZERO_AMOUNT_THRESHOLD
                    /\ GetLiabilityAmount(bank', liabs) <= ZERO_AMOUNT_THRESHOLD]_vars
  BY NextEffects DEF Effects, BalanceStep, ModeKept
<1> QED BY <1>1, StrongInvariant, PTL DEF Spec, ModesRespected

\* No instruction of one account takes a bank over its deposit or borrow limit.
THEOREM LimitsAlwaysHold == Spec => LimitsHold
<1>1. ASSUME StrongInv, Next, NEW a \in Accounts, AccountStep(a) PROVE LimitsStep(a)
  BY <1>1, NextEffects, AccountEffects DEF StrongInv
<1>2. StrongInv /\ [Next]_vars =>
        [\A a \in Accounts :
           /\ balances'[a].asset_shares > balances[a].asset_shares /\ AccountStep(a) =>
                DepositLimitRespected(bank', 1, FALSE)
           /\ balances'[a].liability_shares > balances[a].liability_shares /\ AccountStep(a) =>
                BorrowLimitRespected(bank', 1, FALSE)]_vars
  BY Zenon, <1>1 DEF LimitsStep
<1> QED BY <1>2, StrongInvariant, PTL DEF Spec, LimitsHold

\* Depositors bear a loss only after the insurance vault is empty, and only
\* for a debt that is written off.
THEOREM InsuranceAlwaysFirst == Spec => InsuranceFirst
<1>1. StrongInv /\ [Next]_vars =>
        [bank'.asset_share_value + 1 + (ONE \div Greatest(bank.total_asset_shares, 1))
           < bank.asset_share_value
         => /\ vault'["insurance"] = 0
            /\ \E a \in disabled' :
                 /\ GetLiabilityAmount(bank', balances[a].liability_shares) > ZERO_AMOUNT_THRESHOLD
                 /\ balances'[a].liability_shares <= 1]_vars
  BY NextEffects DEF InsuranceStep
<1> QED BY <1>1, StrongInvariant, PTL DEF Spec, InsuranceFirst

=============================================================================
