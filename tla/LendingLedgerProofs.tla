-------------------------- MODULE LendingLedgerProofs --------------------------
(***************************************************************************)
(* Proofs that every bank of a group is a BankLedger: the invariants of    *)
(* the ledger hold of it, and every step of the group is a step of it or   *)
(* leaves it alone.                                                        *)
(***************************************************************************)
EXTENDS LendingLedgers, LendingProofs

-----------------------------------------------------------------------------
(* The ledger's invariant.                                                 *)

\* The sums and records of a bank's ledger are those of the group.
LEMMA SameRecords ==
  ASSUME NEW b \in Banks
  PROVE  /\ \A f : Ledger(b)!SumFunction(f) = SumFunction(f)
         /\ Ledger(b)!BankRecords = BankRecords /\ Ledger(b)!BalanceRecords = BalanceRecords
         /\ Ledger(b)!MarginfiGroups = MarginfiGroups /\ Ledger(b)!Vaults = Vaults /\ Ledger(b)!Accounts = Accounts
         /\ \A x : Ledger(b)!SideAsserted(x) <=> SideAsserted(x)
<1>1. \A f : Ledger(b)!SumFunction(f) = SumFunction(f)
  BY DEF SumFunction, Ledger!SumFunction, SumFunctionOnSet, Ledger!SumFunctionOnSet,
         FoldFunctionOnSet, Ledger!FoldFunctionOnSet, MapThenFoldSet, Ledger!MapThenFoldSet
<1>2. Ledger(b)!BankRecords = BankRecords /\ Ledger(b)!BalanceRecords = BalanceRecords
  BY DEF BankRecords, Ledger!BankRecords, BankConfigs, Ledger!BankConfigs, InterestRateConfigs,
         Ledger!InterestRateConfigs, OperationalStates, Ledger!OperationalStates, BankFlags,
         Ledger!BankFlags, EmissionFlags, Ledger!EmissionFlags, BalanceRecords, Ledger!BalanceRecords
<1>3. Ledger(b)!MarginfiGroups = MarginfiGroups /\ Ledger(b)!Vaults = Vaults /\ Ledger(b)!Accounts = Accounts
  BY DEF MarginfiGroups, Ledger!MarginfiGroups, Vaults, Ledger!Vaults, Accounts, Ledger!Accounts
<1>4. \A x : Ledger(b)!SideAsserted(x) <=> SideAsserted(x)
  BY DEF SideAsserted, Ledger!SideAsserted, EMPTY_BALANCE_THRESHOLD, Ledger!EMPTY_BALANCE_THRESHOLD
<1> QED BY <1>1, <1>2, <1>3, <1>4

\* The invariant of a group is the ledger's invariant of each bank.
LEMMA LedgerOfBank ==
  ASSUME LendingInv, NEW b \in Banks
  PROVE  Ledger(b)!LedgerInv
<1> DEFINE bs == Held(b)
<1>1. /\ banks[b] \in BankRecords /\ bs \in [Accounts -> BalanceRecords]
      /\ vaults[b] \in [Vaults -> Nat] /\ disabled \in SUBSET Accounts
      /\ Group \in MarginfiGroups /\ now \in Nat
  BY LendingAssumption DEF LendingInv, RecordsOK, RestOK, Held
<1>2. /\ Ledger(b)!AssetShares = AssetsOf(bs) /\ Ledger(b)!LiabilityShares = LiabilitiesOf(bs)
      /\ [a \in Accounts |-> bs[a].emissions_outstanding] = EmissionsOf(bs)
  BY SameRecords DEF Ledger!AssetShares, Ledger!LiabilityShares, AssetsOf, LiabilitiesOf,
     EmissionsOf, Held
<1>3. Ledger(b)!TypeOK  BY <1>1, SameRecords DEF Ledger!TypeOK, Held
<1>4. Ledger(b)!SharesBacked <=> /\ SumFunction(AssetsOf(bs)) <= banks[b].total_asset_shares
                                 /\ SumFunction(LiabilitiesOf(bs)) <= banks[b].total_liability_shares
  BY <1>2, SameRecords DEF Ledger!SharesBacked
<1>5. Ledger(b)!OneSided <=> \A a \in Accounts : SideAsserted(bs[a])
  BY Zenon, SameRecords DEF Ledger!OneSided, Held
<1>6. Ledger(b)!EmissionsFunded
        <=> SumFunction(EmissionsOf(bs)) + banks[b].emissions_remaining <= vaults[b]["emissions"] * ONE
  BY Zenon, <1>2, SameRecords DEF Ledger!EmissionsFunded, Held
<1>7. Ledger(b)!TimesPast <=> /\ banks[b].last_update <= now
                              /\ \A a \in Accounts : bs[a].last_update <= now
  BY Zenon, SameRecords DEF Ledger!TimesPast, Held
<1> HIDE DEF bs
<1>8. BookOK(b)  BY DEF LendingInv
<1> QED BY <1>1, <1>8, <1>3, <1>4, <1>5, <1>6, <1>7 DEF Ledger!LedgerInv, BookOK, LedgerOK, bs

\* Whatever instructions run, across whatever banks, every bank of a group
\* keeps the shares of its accounts backed, each balance on one side, the
\* emissions of its accounts funded and its times in the past.
THEOREM EveryBankKeepsItsLedger == Spec => []\A b \in Banks : Ledger(b)!LedgerInv
<1>1. LendingInv => \A b \in Banks : Ledger(b)!LedgerInv  BY LedgerOfBank
<1> QED BY <1>1, GroupInvariant, PTL

-----------------------------------------------------------------------------
(* The refinement.                                                         *)

\* The operations of a bank's ledger are those of the group.
LEMMA SameOperations ==
  ASSUME NEW b \in Banks
  PROVE  /\ \A x : Ledger(b)!SideAsserted(x) <=> SideAsserted(x)
         /\ \A x : Ledger(b)!GetSide(x) = GetSide(x)
         /\ Ledger(b)!EmptyDeactivated = EmptyDeactivated
         /\ \A x, y : Ledger(b)!BankNew(x, y) = BankNew(x, y)
         /\ \A x, y, z : Ledger(b)!AccrueInterest(x, y, z) = AccrueInterest(x, y, z)
         /\ \A x, y, z : Ledger(b)!FindOrCreate(x, y, z) = FindOrCreate(x, y, z)
         /\ \A x, y, z : Ledger(b)!IncreaseBalance(x, y, z) = IncreaseBalance(x, y, z)
         /\ \A x, y, z : Ledger(b)!IncreaseAllowed(x, y, z) <=> IncreaseAllowed(x, y, z)
         /\ \A x, y, z : Ledger(b)!DecreaseBalance(x, y, z) = DecreaseBalance(x, y, z)
         /\ \A x, y, z, u : Ledger(b)!DecreaseAllowed(x, y, z, u) <=> DecreaseAllowed(x, y, z, u)
         /\ \A x, y : Ledger(b)!RepayAll(x, y) = RepayAll(x, y)
         /\ \A x, y : Ledger(b)!RepayAllAllowed(x, y) <=> RepayAllAllowed(x, y)
         /\ \A x : Ledger(b)!RepayAllTokens(x) = RepayAllTokens(x)
         /\ \A x, y : Ledger(b)!WithdrawAll(x, y) = WithdrawAll(x, y)
         /\ \A x, y : Ledger(b)!WithdrawAllAllowed(x, y) <=> WithdrawAllAllowed(x, y)
         /\ \A x : Ledger(b)!WithdrawAllTokens(x) = WithdrawAllTokens(x)
         /\ \A x, y : Ledger(b)!CloseBalance(x, y) = CloseBalance(x, y)
         /\ \A x, y : Ledger(b)!CloseBalanceAllowed(x, y) <=> CloseBalanceAllowed(x, y)
         /\ \A x : Ledger(b)!LiabilityAmount(x) = LiabilityAmount(x)
         /\ \A x, y : Ledger(b)!SocializeLoss(x, y) = SocializeLoss(x, y)
         /\ \A x : Ledger(b)!TotalAssets(x) = TotalAssets(x)
         /\ \A x, y, z : Ledger(b)!Configure(x, y, z) = Configure(x, y, z)
         /\ \A x : Ledger(b)!CeilTokens(x) = CeilTokens(x)
         /\ \A x : Ledger(b)!FloorTokens(x) = FloorTokens(x)
         /\ \A x, y : Ledger(b)!Mul(x, y) = Mul(x, y)
         /\ \A x, y : Ledger(b)!Least(x, y) = Least(x, y)
<1>1. Ledger(b)!EMPTY_BALANCE_THRESHOLD = EMPTY_BALANCE_THRESHOLD
  BY DEF EMPTY_BALANCE_THRESHOLD, Ledger!EMPTY_BALANCE_THRESHOLD
<1>2. \A x : Ledger(b)!SideAsserted(x) <=> SideAsserted(x)
  BY <1>1 DEF SideAsserted, Ledger!SideAsserted
<1>3. \A x : Ledger(b)!GetSide(x) = GetSide(x)
  BY <1>1 DEF GetSide, Ledger!GetSide
<1>4. Ledger(b)!EmptyDeactivated = EmptyDeactivated
  BY DEF EmptyDeactivated, Ledger!EmptyDeactivated
<1>5. \A x, y : Ledger(b)!BankNew(x, y) = BankNew(x, y)
  BY DEF BankNew, Ledger!BankNew
<1>6. \A x, y : Ledger(b)!Mul(x, y) = Mul(x, y)
  BY DEF Mul, Ledger!Mul
<1>7. \A x, y : Ledger(b)!GetAssetAmount(x, y) = GetAssetAmount(x, y)
  BY <1>6 DEF GetAssetAmount, Ledger!GetAssetAmount
<1>8. \A x : Ledger(b)!TotalAssets(x) = TotalAssets(x)
  BY <1>7 DEF TotalAssets, Ledger!TotalAssets
<1>9. \A x, y : Ledger(b)!GetLiabilityAmount(x, y) = GetLiabilityAmount(x, y)
  BY <1>6 DEF GetLiabilityAmount, Ledger!GetLiabilityAmount
<1>10. \A x : Ledger(b)!TotalLiabilities(x) = TotalLiabilities(x)
  BY <1>9 DEF TotalLiabilities, Ledger!TotalLiabilities
<1>11. \A x, y : Ledger(b)!Div(x, y) = Div(x, y)
  BY DEF Div, Ledger!Div
<1>12. \A x, y : Ledger(b)!InterestRateCurve(x, y) = InterestRateCurve(x, y)
  BY <1>6, <1>11 DEF InterestRateCurve, Ledger!InterestRateCurve
<1>13. \A x, y, z : Ledger(b)!InterestPayment(x, y, z) = InterestPayment(x, y, z)
  BY <1>6 DEF InterestPayment, Ledger!InterestPayment
<1>14. \A x, y, z : Ledger(b)!CalcFeeRate(x, y, z) = CalcFeeRate(x, y, z)
  BY <1>6 DEF CalcFeeRate, Ledger!CalcFeeRate
<1>15. \A x, y, z : Ledger(b)!AccruedPrincipal(x, y, z) = AccruedPrincipal(x, y, z)
  BY <1>6 DEF AccruedPrincipal, Ledger!AccruedPrincipal
<1>16. \A x, y : Ledger(b)!LendingRateApr(x, y) = LendingRateApr(x, y)
  BY <1>6, <1>12 DEF LendingRateApr, Ledger!LendingRateApr
<1>17. \A x : Ledger(b)!ProgramFeeRate(x) = ProgramFeeRate(x)
  BY DEF ProgramFeeRate, Ledger!ProgramFeeRate
<1>18. \A x : Ledger(b)!ProgramFeeFixed(x) = ProgramFeeFixed(x)
  BY DEF ProgramFeeFixed, Ledger!ProgramFeeFixed
<1>19. \A x, y, z : Ledger(b)!BorrowingRateApr(x, y, z) = BorrowingRateApr(x, y, z)
  BY <1>6, <1>12, <1>17, <1>18 DEF BorrowingRateApr, Ledger!BorrowingRateApr
<1>20. \A x, y, z : Ledger(b)!AccrualStateChanges(x, y, z) = AccrualStateChanges(x, y, z)
  BY DEF AccrualStateChanges, Ledger!AccrualStateChanges, TotalLiabilities,
    Ledger!TotalLiabilities, GetLiabilityAmount, Ledger!GetLiabilityAmount, Mul, Ledger!Mul,
    Div, Ledger!Div, TotalAssets, Ledger!TotalAssets, GetAssetAmount, Ledger!GetAssetAmount,
    InterestRateCurve, Ledger!InterestRateCurve, InterestPayment, Ledger!InterestPayment,
    CalcFeeRate, Ledger!CalcFeeRate, AccruedPrincipal, Ledger!AccruedPrincipal,
    LendingRateApr, Ledger!LendingRateApr, BorrowingRateApr, Ledger!BorrowingRateApr,
    ProgramFeeRate, Ledger!ProgramFeeRate, ProgramFeeFixed, Ledger!ProgramFeeFixed
<1>21. \A x, y, z : Ledger(b)!AccrueInterest(x, y, z) = AccrueInterest(x, y, z)
  BY <1>8, <1>10, <1>20 DEF AccrueInterest, Ledger!AccrueInterest
<1>22. \A x, y, z : Ledger(b)!FindOrCreate(x, y, z) = FindOrCreate(x, y, z)
  BY <1>4 DEF FindOrCreate, Ledger!FindOrCreate
<1>23. \A x, y : Ledger(b)!ChangeLiabilityShares(x, y) = ChangeLiabilityShares(x, y)
  BY DEF ChangeLiabilityShares, Ledger!ChangeLiabilityShares
<1>24. \A x, y : Ledger(b)!ChangeAssetShares(x, y) = ChangeAssetShares(x, y)
  BY DEF ChangeAssetShares, Ledger!ChangeAssetShares
<1>25. \A x, y, z : Ledger(b)!ChangeShares(x, y, z) = ChangeShares(x, y, z)
  BY <1>23, <1>24 DEF ChangeShares, Ledger!ChangeShares
<1>26. \A x, y : Ledger(b)!Least(x, y) = Least(x, y)
  BY DEF Least, Ledger!Least
<1>27. \A x, y, z : Ledger(b)!CalcEmissions(x, y, z) = CalcEmissions(x, y, z)
  BY DEF CalcEmissions, Ledger!CalcEmissions
<1>28. \A x, y : Ledger(b)!EarningPeriod(x, y) = EarningPeriod(x, y)
  BY DEF EarningPeriod, Ledger!EarningPeriod
<1>29. \A x : Ledger(b)!AssetAmount(x) = AssetAmount(x)
  BY <1>7 DEF AssetAmount, Ledger!AssetAmount
<1>30. \A x : Ledger(b)!LiabilityAmount(x) = LiabilityAmount(x)
  BY <1>9 DEF LiabilityAmount, Ledger!LiabilityAmount
<1>31. \A x : Ledger(b)!EarningAmount(x) = EarningAmount(x)
  BY <1>3, <1>29, <1>30 DEF EarningAmount, Ledger!EarningAmount
<1>32. \A x, y : Ledger(b)!EmissionsReal(x, y) = EmissionsReal(x, y)
  BY <1>26, <1>27, <1>28, <1>31 DEF EmissionsReal, Ledger!EmissionsReal
<1>33. \A x, y : Ledger(b)!ClaimEmissions(x, y) = ClaimEmissions(x, y)
  BY Zenon, <1>32 DEF ClaimEmissions, Ledger!ClaimEmissions
<1>34. \A x, y : Ledger(b)!GetAssetShares(x, y) = GetAssetShares(x, y)
  BY <1>11 DEF GetAssetShares, Ledger!GetAssetShares
<1>35. \A x, y : Ledger(b)!Greatest(x, y) = Greatest(x, y)
  BY DEF Greatest, Ledger!Greatest
<1>36. \A x, y : Ledger(b)!AssetIncrease(x, y) = AssetIncrease(x, y)
  BY <1>35, <1>30 DEF AssetIncrease, Ledger!AssetIncrease
<1>37. \A x, y : Ledger(b)!GetLiabilityShares(x, y) = GetLiabilityShares(x, y)
  BY <1>11 DEF GetLiabilityShares, Ledger!GetLiabilityShares
<1>38. \A x, y : Ledger(b)!LiabilityDecrease(x, y) = LiabilityDecrease(x, y)
  BY <1>26, <1>30 DEF LiabilityDecrease, Ledger!LiabilityDecrease
<1>39. \A x, y, z : Ledger(b)!IncreaseBalance(x, y, z) = IncreaseBalance(x, y, z)
  BY <1>25, <1>33, <1>34, <1>36, <1>37, <1>38 DEF IncreaseBalance, Ledger!IncreaseBalance
<1>40. \A x : Ledger(b)!IsZeroWithTolerance(x) <=> IsZeroWithTolerance(x)
  BY DEF IsZeroWithTolerance, Ledger!IsZeroWithTolerance
<1>41. \A x, y : Ledger(b)!AssertOperationalMode(x, y) <=> AssertOperationalMode(x, y)
  BY DEF AssertOperationalMode, Ledger!AssertOperationalMode
<1>42. \A x : Ledger(b)!IsPositiveWithTolerance(x) <=> IsPositiveWithTolerance(x)
  BY DEF IsPositiveWithTolerance, Ledger!IsPositiveWithTolerance
<1>43. \A x, y, z : Ledger(b)!DepositLimitRespected(x, y, z) <=> DepositLimitRespected(x, y, z)
  BY <1>8 DEF DepositLimitRespected, Ledger!DepositLimitRespected
<1>44. \A x, y, z : Ledger(b)!IncreaseAllowed(x, y, z) <=> IncreaseAllowed(x, y, z)
  BY <1>34, <1>36, <1>2, <1>24, <1>8 DEF IncreaseAllowed, Ledger!IncreaseAllowed,
    IsZeroWithTolerance, Ledger!IsZeroWithTolerance, AssertOperationalMode,
    Ledger!AssertOperationalMode, IsPositiveWithTolerance, Ledger!IsPositiveWithTolerance,
    DepositLimitRespected, Ledger!DepositLimitRespected
<1>45. \A x, y : Ledger(b)!AssetDecrease(x, y) = AssetDecrease(x, y)
  BY <1>26, <1>29 DEF AssetDecrease, Ledger!AssetDecrease
<1>46. \A x, y : Ledger(b)!LiabilityIncrease(x, y) = LiabilityIncrease(x, y)
  BY <1>35, <1>29 DEF LiabilityIncrease, Ledger!LiabilityIncrease
<1>47. \A x, y, z : Ledger(b)!DecreaseBalance(x, y, z) = DecreaseBalance(x, y, z)
  BY <1>25, <1>33, <1>34, <1>45, <1>37, <1>46 DEF DecreaseBalance, Ledger!DecreaseBalance
<1>48. \A x, y, z : Ledger(b)!BorrowLimitRespected(x, y, z) <=> BorrowLimitRespected(x, y, z)
  BY <1>10 DEF BorrowLimitRespected, Ledger!BorrowLimitRespected
<1>49. \A x : Ledger(b)!CheckUtilizationRatio(x) <=> CheckUtilizationRatio(x)
  BY <1>8, <1>10 DEF CheckUtilizationRatio, Ledger!CheckUtilizationRatio
<1>50. \A x, y, z, u : Ledger(b)!DecreaseAllowed(x, y, z, u) <=> DecreaseAllowed(x, y, z, u)
  BY <1>47, <1>2, <1>46, <1>37, <1>49, <1>10 DEF DecreaseAllowed, Ledger!DecreaseAllowed,
    IsZeroWithTolerance, Ledger!IsZeroWithTolerance, AssertOperationalMode,
    Ledger!AssertOperationalMode, IsPositiveWithTolerance, Ledger!IsPositiveWithTolerance,
    BorrowLimitRespected, Ledger!BorrowLimitRespected
<1>51. \A x : Ledger(b)!CeilTokens(x) = CeilTokens(x)
  BY DEF CeilTokens, Ledger!CeilTokens
<1>52. \A x : Ledger(b)!RepayAllTokens(x) = RepayAllTokens(x)
  BY <1>51, <1>30 DEF RepayAllTokens, Ledger!RepayAllTokens
<1>53. \A x, y : Ledger(b)!RepayAll(x, y) = RepayAll(x, y)
  BY <1>23, <1>33, <1>52, <1>30, <1>4 DEF RepayAll, Ledger!RepayAll
<1>54. \A x, y : Ledger(b)!CloseAllowed(x, y) <=> CloseAllowed(x, y)
  BY <1>2, <1>33 DEF CloseAllowed, Ledger!CloseAllowed
<1>55. \A x, y : Ledger(b)!RepayAllAllowed(x, y) <=> RepayAllAllowed(x, y)
  BY Zenon, <1>54, <1>41, <1>42, <1>30, <1>40, <1>29 DEF RepayAllAllowed, Ledger!RepayAllAllowed
<1>56. \A x : Ledger(b)!FloorTokens(x) = FloorTokens(x)
  BY DEF FloorTokens, Ledger!FloorTokens
<1>57. \A x : Ledger(b)!WithdrawAllTokens(x) = WithdrawAllTokens(x)
  BY <1>56, <1>29 DEF WithdrawAllTokens, Ledger!WithdrawAllTokens
<1>58. \A x, y : Ledger(b)!WithdrawAll(x, y) = WithdrawAll(x, y)
  BY <1>24, <1>33, <1>29, <1>57, <1>4 DEF WithdrawAll, Ledger!WithdrawAll
<1>59. \A x, y : Ledger(b)!WithdrawAllAllowed(x, y) <=> WithdrawAllAllowed(x, y)
  BY Zenon, <1>54, <1>41, <1>42, <1>29, <1>40, <1>30, <1>49, <1>24 DEF WithdrawAllAllowed,
    Ledger!WithdrawAllAllowed
<1>60. \A x, y : Ledger(b)!CloseBalance(x, y) = CloseBalance(x, y)
  BY <1>33, <1>4 DEF CloseBalance, Ledger!CloseBalance
<1>61. \A x, y : Ledger(b)!CloseBalanceAllowed(x, y) <=> CloseBalanceAllowed(x, y)
  BY <1>54, <1>40, <1>30, <1>29 DEF CloseBalanceAllowed, Ledger!CloseBalanceAllowed
<1>62. \A x, y : Ledger(b)!SocializeLoss(x, y) = SocializeLoss(x, y)
  BY <1>11, <1>8 DEF SocializeLoss, Ledger!SocializeLoss
<1>63. \A x, y : Ledger(b)!UpdateRates(x, y) = UpdateRates(x, y)
  BY DEF UpdateRates, Ledger!UpdateRates
<1>64. \A x, y, z : Ledger(b)!Configure(x, y, z) = Configure(x, y, z)
  BY Zenon, <1>63 DEF Configure, Ledger!Configure
<1> QED BY <1>2, <1>3, <1>4, <1>5, <1>21, <1>22, <1>39, <1>44, <1>47, <1>50, <1>53, <1>55, <1>52,
           <1>58, <1>59, <1>57, <1>60, <1>61, <1>30, <1>62, <1>8, <1>64, <1>51, <1>56, <1>6, <1>26

\* A bank and its balances as the ledger finds them.
LEMMA SameState ==
  ASSUME NEW b \in Banks
  PROVE  /\ Ledger(b)!Accrued = Accrued(b)
         /\ \A a \in Accounts : /\ Ledger(b)!Found(a) = Found(a, b)
                                /\ Ledger(b)!FoundOrCreated(a) = FoundOrCreated(a, b)
<1>1. Ledger(b)!Accrued = Accrued(b)  BY SameOperations DEF Ledger!Accrued, Accrued
<1>2. ASSUME NEW a \in Accounts
      PROVE  /\ Ledger(b)!Found(a) = Found(a, b)
             /\ Ledger(b)!FoundOrCreated(a) = FoundOrCreated(a, b)
  <2>1. \A x, y, z : Ledger(b)!FindOrCreate(x, y, z) = FindOrCreate(x, y, z)  BY SameOperations
  <2> QED BY <1>1, <2>1 DEF Ledger!Found, Found, Ledger!FoundOrCreated, FoundOrCreated
<1> QED BY <1>1, <1>2

\* A change of a balance is the same in the ledger.
LEMMA SameChange ==
  ASSUME NEW b \in Banks, NEW w, NEW n, NEW mode
  PROVE  /\ Ledger(b)!IncreaseAllowed(w, n, mode) <=> IncreaseAllowed(w, n, mode)
         /\ Ledger(b)!IncreaseBalance(w, n, now) = IncreaseBalance(w, n, now)
         /\ Ledger(b)!DecreaseAllowed(w, n, mode, now) <=> DecreaseAllowed(w, n, mode, now)
         /\ Ledger(b)!DecreaseBalance(w, n, now) = DecreaseBalance(w, n, now)
BY Zenon, SameOperations

\* A balance replaced among those of a bank, and tokens moved between its
\* accounts.
Replaced(bs, a, e) == [bs EXCEPT ![a] = e]
TokensSent(v, from, to, n) == [v EXCEPT ![from] = @ - n, ![to] = @ + n]

\* Storing a wrapper is storing it in its bank's ledger.
LEMMA StoreMaps ==
  ASSUME LendingInv, NEW a \in Accounts, NEW b \in Banks, NEW w, Store(a, b, w)
  PROVE  /\ banks'[b] = w.bank /\ Held(b)' = Replaced(Held(b), a, w.balance)
         /\ \A c \in Banks : c # b => banks'[c] = banks[c] /\ Held(c)' = Held(c)
<1>1. RecordsOK  BY DEF LendingInv
<1>2. banks' = [banks EXCEPT ![b] = w.bank] /\ lending' = [lending EXCEPT ![a][b] = w.balance]
  BY DEF Store
<1> QED BY Zenon, <1>1, <1>2 DEF RecordsOK, Held, Replaced

\* The token accounts that the instructions of an account holder use.
LEMMA TokenAccounts == "outside" \in Vaults /\ "liquidity" \in Vaults /\ "insurance" \in Vaults
BY DEF Vaults

\* An SPL transfer is one of its bank's ledger.
LEMMA TransferMaps ==
  ASSUME LendingInv, NEW b \in Banks, NEW from \in Vaults, NEW to \in Vaults, NEW n,
         Transfer(b, from, to, n)
  PROVE  /\ vaults[b][from] >= n /\ vaults'[b] = TokensSent(vaults[b], from, to, n)
         /\ \A c \in Banks : c # b => vaults'[c] = vaults[c]
<1>1. vaults \in [Banks -> [Vaults -> Nat]]  BY DEF LendingInv, RestOK
<1>2. /\ vaults[b][from] >= n
      /\ vaults' = [vaults EXCEPT ![b][from] = @ - n, ![b][to] = @ + n]
  BY DEF Transfer
<1> QED BY <1>1, <1>2 DEF TokensSent

\* What the group's steps look like from one of its banks.
LedgerStep(b) == Ledger(b)!vars' # Ledger(b)!vars => Ledger(b)!Next

\* A step that leaves a bank alone is a stuttering step of its ledger.
LEMMA Elsewhere ==
  ASSUME NEW b \in Banks, banks'[b] = banks[b], Held(b)' = Held(b), vaults'[b] = vaults[b],
         UNCHANGED <<disabled, now>>
  PROVE  LedgerStep(b)
BY DEF LedgerStep, Ledger!vars, Held

\* An instruction of one account in one bank is a step of that bank's ledger
\* and of no other.
LEMMA InstructionMaps ==
  ASSUME LendingInv, NEW a \in Accounts, NEW b \in Banks, NEW w, Store(a, b, w),
         vaults' = vaults \/ \E from, to \in Vaults : \E n : Transfer(b, from, to, n),
         UNCHANGED <<disabled, now>>, Ledger(b)!AccountStep(a)
  PROVE  \A c \in Banks : LedgerStep(c)
<1>1. \A c \in Banks : c # b => banks'[c] = banks[c] /\ Held(c)' = Held(c)  BY Zenon, StoreMaps
<1>2. \A c \in Banks : c # b => vaults'[c] = vaults[c]
  <2>1. CASE vaults' = vaults  BY <2>1
  <2>2. ASSUME NEW from \in Vaults, NEW to \in Vaults, NEW n, Transfer(b, from, to, n)
        PROVE  \A c \in Banks : c # b => vaults'[c] = vaults[c]
    BY Zenon, <2>2, TransferMaps
  <2> QED BY <2>1, <2>2
<1>3. Ledger(b)!Next  BY SameRecords DEF Ledger!Next
<1>4. LedgerStep(b)  BY <1>3 DEF LedgerStep
<1> QED BY <1>1, <1>2, <1>4, Elsewhere

\* lending_account_deposit is the ledger's.
LEMMA DepositMaps ==
  ASSUME LendingInv, NEW a \in Accounts, NEW b \in Banks, NEW amount \in Amounts,
         LendingAccountDeposit(a, b, amount)
  PROVE  \A c \in Banks : LedgerStep(c)
<1> DEFINE w == FoundOrCreated(a, b)
           v == IncreaseBalance(w, amount * ONE, now)
<1>1. /\ a \notin disabled
      /\ IncreaseAllowed(w, amount * ONE, "Any") /\ Store(a, b, v)
      /\ Transfer(b, "outside", "liquidity", amount) /\ UNCHANGED <<disabled, now>>
  BY DEF LendingAccountDeposit
<1>2. /\ Ledger(b)!FoundOrCreated(a) = w /\ Ledger(b)!IncreaseAllowed(w, amount * ONE, "Any")
      /\ Ledger(b)!IncreaseBalance(w, amount * ONE, now) = v
  BY <1>1, SameState, SameOperations
<1> HIDE DEF w, v
<1>3. banks'[b] = v.bank /\ Held(b)' = Replaced(Held(b), a, v.balance)
  BY Zenon, <1>1, StoreMaps
<1>4. /\ vaults[b]["outside"] >= amount
      /\ vaults'[b] = TokensSent(vaults[b], "outside", "liquidity", amount)
  BY Zenon, <1>1, TransferMaps, TokenAccounts
<1>5. Ledger(b)!LendingAccountDeposit(a, amount)
  BY Zenon, <1>1, <1>2, <1>3, <1>4
     DEF Ledger!LendingAccountDeposit, Ledger!Store, Ledger!Transfer, Held, Replaced, TokensSent
<1>6. Ledger(b)!AccountStep(a)  BY <1>5 DEF Ledger!AccountStep
<1> QED BY Zenon, <1>1, <1>6, InstructionMaps, TokenAccounts

\* lending_account_repay is the ledger's.
LEMMA RepayMaps ==
  ASSUME LendingInv, NEW a \in Accounts, NEW b \in Banks, NEW amount \in Amounts,
         LendingAccountRepay(a, b, amount)
  PROVE  \A c \in Banks : LedgerStep(c)
<1> DEFINE w == Found(a, b)
           v == IncreaseBalance(w, amount * ONE, now)
<1>1. /\ a \notin disabled /\ lending[a][b].active
      /\ IncreaseAllowed(w, amount * ONE, "RepayOnly") /\ Store(a, b, v)
      /\ Transfer(b, "outside", "liquidity", amount) /\ UNCHANGED <<disabled, now>>
  BY DEF LendingAccountRepay
<1>2. /\ Ledger(b)!Found(a) = w /\ Ledger(b)!IncreaseAllowed(w, amount * ONE, "RepayOnly")
      /\ Ledger(b)!IncreaseBalance(w, amount * ONE, now) = v
  BY <1>1, SameState, SameOperations
<1> HIDE DEF w, v
<1>3. banks'[b] = v.bank /\ Held(b)' = Replaced(Held(b), a, v.balance)
  BY Zenon, <1>1, StoreMaps
<1>4. /\ vaults[b]["outside"] >= amount
      /\ vaults'[b] = TokensSent(vaults[b], "outside", "liquidity", amount)
  BY Zenon, <1>1, TransferMaps, TokenAccounts
<1>5. Ledger(b)!LendingAccountRepay(a, amount)
  BY Zenon, <1>1, <1>2, <1>3, <1>4
     DEF Ledger!LendingAccountRepay, Ledger!Store, Ledger!Transfer, Held, Replaced, TokensSent
<1>6. Ledger(b)!AccountStep(a)  BY <1>5 DEF Ledger!AccountStep
<1> QED BY Zenon, <1>1, <1>6, InstructionMaps, TokenAccounts

\* lending_account_repay with repay_all is the ledger's.
LEMMA RepayAllMaps ==
  ASSUME LendingInv, NEW a \in Accounts, NEW b \in Banks,
         LendingAccountRepayAll(a, b)
  PROVE  \A c \in Banks : LedgerStep(c)
<1> DEFINE w == Found(a, b)
           v == RepayAll(w, now)
           n == RepayAllTokens(w)
<1>1. /\ a \notin disabled /\ lending[a][b].active
      /\ RepayAllAllowed(w, now) /\ Store(a, b, v)
      /\ Transfer(b, "outside", "liquidity", n) /\ UNCHANGED <<disabled, now>>
  BY DEF LendingAccountRepayAll
<1>2. /\ Ledger(b)!Found(a) = w /\ Ledger(b)!RepayAllAllowed(w, now)
      /\ Ledger(b)!RepayAll(w, now) = v /\ Ledger(b)!RepayAllTokens(w) = n
  BY <1>1, SameState, SameOperations
<1> HIDE DEF w, v, n
<1>3. banks'[b] = v.bank /\ Held(b)' = Replaced(Held(b), a, v.balance)
  BY Zenon, <1>1, StoreMaps
<1>4. /\ vaults[b]["outside"] >= n
      /\ vaults'[b] = TokensSent(vaults[b], "outside", "liquidity", n)
  BY Zenon, <1>1, TransferMaps, TokenAccounts
<1>5. Ledger(b)!LendingAccountRepayAll(a)
  BY Zenon, <1>1, <1>2, <1>3, <1>4
     DEF Ledger!LendingAccountRepayAll, Ledger!Store, Ledger!Transfer, Held, Replaced, TokensSent
<1>6. Ledger(b)!AccountStep(a)  BY <1>5 DEF Ledger!AccountStep
<1> QED BY Zenon, <1>1, <1>6, InstructionMaps, TokenAccounts

\* lending_account_withdraw is the ledger's.
LEMMA WithdrawMaps ==
  ASSUME LendingInv, NEW a \in Accounts, NEW b \in Banks, NEW amount \in Amounts,
         LendingAccountWithdraw(a, b, amount)
  PROVE  \A c \in Banks : LedgerStep(c)
<1> DEFINE w == Found(a, b)
           v == DecreaseBalance(w, amount * ONE, now)
<1>1. /\ a \notin disabled /\ lending[a][b].active
      /\ DecreaseAllowed(w, amount * ONE, "WithdrawOnly", now) /\ Store(a, b, v)
      /\ Transfer(b, "liquidity", "outside", amount) /\ UNCHANGED <<disabled, now>>
  BY DEF LendingAccountWithdraw
<1>2. /\ Ledger(b)!Found(a) = w /\ Ledger(b)!DecreaseAllowed(w, amount * ONE, "WithdrawOnly", now)
      /\ Ledger(b)!DecreaseBalance(w, amount * ONE, now) = v
  BY <1>1, SameState, SameOperations
<1> HIDE DEF w, v
<1>3. banks'[b] = v.bank /\ Held(b)' = Replaced(Held(b), a, v.balance)
  BY Zenon, <1>1, StoreMaps
<1>4. /\ vaults[b]["liquidity"] >= amount
      /\ vaults'[b] = TokensSent(vaults[b], "liquidity", "outside", amount)
  BY Zenon, <1>1, TransferMaps, TokenAccounts
<1>5. Ledger(b)!LendingAccountWithdraw(a, amount)
  BY Zenon, <1>1, <1>2, <1>3, <1>4
     DEF Ledger!LendingAccountWithdraw, Ledger!Store, Ledger!Transfer, Held, Replaced, TokensSent
<1>6. Ledger(b)!AccountStep(a)  BY <1>5 DEF Ledger!AccountStep
<1> QED BY Zenon, <1>1, <1>6, InstructionMaps, TokenAccounts

\* lending_account_withdraw with withdraw_all is the ledger's.
LEMMA WithdrawAllMaps ==
  ASSUME LendingInv, NEW a \in Accounts, NEW b \in Banks,
         LendingAccountWithdrawAll(a, b)
  PROVE  \A c \in Banks : LedgerStep(c)
<1> DEFINE w == Found(a, b)
           v == WithdrawAll(w, now)
           n == WithdrawAllTokens(w)
<1>1. /\ a \notin disabled /\ lending[a][b].active
      /\ WithdrawAllAllowed(w, now) /\ Store(a, b, v)
      /\ Transfer(b, "liquidity", "outside", n) /\ UNCHANGED <<disabled, now>>
  BY DEF LendingAccountWithdrawAll
<1>2. /\ Ledger(b)!Found(a) = w /\ Ledger(b)!WithdrawAllAllowed(w, now)
      /\ Ledger(b)!WithdrawAll(w, now) = v /\ Ledger(b)!WithdrawAllTokens(w) = n
  BY <1>1, SameState, SameOperations
<1> HIDE DEF w, v, n
<1>3. banks'[b] = v.bank /\ Held(b)' = Replaced(Held(b), a, v.balance)
  BY Zenon, <1>1, StoreMaps
<1>4. /\ vaults[b]["liquidity"] >= n
      /\ vaults'[b] = TokensSent(vaults[b], "liquidity", "outside", n)
  BY Zenon, <1>1, TransferMaps, TokenAccounts
<1>5. Ledger(b)!LendingAccountWithdrawAll(a)
  BY Zenon, <1>1, <1>2, <1>3, <1>4
     DEF Ledger!LendingAccountWithdrawAll, Ledger!Store, Ledger!Transfer, Held, Replaced, TokensSent
<1>6. Ledger(b)!AccountStep(a)  BY <1>5 DEF Ledger!AccountStep
<1> QED BY Zenon, <1>1, <1>6, InstructionMaps, TokenAccounts

\* lending_account_close_balance is the ledger's.
LEMMA CloseBalanceMaps ==
  ASSUME LendingInv, NEW a \in Accounts, NEW b \in Banks,
         LendingAccountCloseBalance(a, b)
  PROVE  \A c \in Banks : LedgerStep(c)
<1> DEFINE w == Found(a, b)
           v == CloseBalance(w, now)
<1>1. /\ a \notin disabled /\ lending[a][b].active
      /\ CloseBalanceAllowed(w, now) /\ Store(a, b, v)
      /\ vaults' = vaults /\ UNCHANGED <<disabled, now>>
  BY DEF LendingAccountCloseBalance
<1>2. /\ Ledger(b)!Found(a) = w /\ Ledger(b)!CloseBalanceAllowed(w, now)
      /\ Ledger(b)!CloseBalance(w, now) = v
  BY <1>1, SameState, SameOperations
<1> HIDE DEF w, v
<1>3. banks'[b] = v.bank /\ Held(b)' = Replaced(Held(b), a, v.balance)
  BY Zenon, <1>1, StoreMaps
<1>5. Ledger(b)!LendingAccountCloseBalance(a)
  BY Zenon, <1>1, <1>2, <1>3 DEF Ledger!LendingAccountCloseBalance, Ledger!Store, Held, Replaced
<1>6. Ledger(b)!AccountStep(a)  BY <1>5 DEF Ledger!AccountStep
<1> QED BY <1>1, <1>6, InstructionMaps

\* lending_pool_accrue_bank_interest and lending_pool_configure_bank are the
\* ledger's.
LEMMA PoolMaps ==
  ASSUME LendingInv, NEW b \in Banks,
         \/ LendingPoolAccrueBankInterest(b)
         \/ \E config \in Configs, r \in RiskChoices[b] : LendingPoolConfigureBank(b, config, r)
  PROVE  \A c \in Banks : LedgerStep(c)
<1>1. /\ banks' = [banks EXCEPT ![b] = banks'[b]] /\ lending' = lending /\ vaults' = vaults
      /\ UNCHANGED <<disabled, now>>
  BY Zenon DEF LendingInv, RecordsOK, LendingPoolAccrueBankInterest, LendingPoolConfigureBank
<1>2. \A c \in Banks : Held(c)' = Held(c)  BY <1>1 DEF Held
<1>3. ASSUME NEW c \in Banks, c # b PROVE LedgerStep(c)
  <2>1. banks'[c] = banks[c]  BY <1>1, <1>3 DEF LendingInv, RecordsOK
  <2> QED BY <1>1, <1>2, <2>1, Elsewhere
<1>4. CASE LendingPoolAccrueBankInterest(b)
  <2>1. banks'[b] = Accrued(b)  BY Zenon, <1>4 DEF LendingPoolAccrueBankInterest, LendingInv, RecordsOK
  <2>2. Ledger(b)!LendingPoolAccrueBankInterest
    BY Zenon, <1>1, <1>2, <2>1, SameState DEF Ledger!LendingPoolAccrueBankInterest, Held
  <2> QED BY Zenon, <1>3, <2>2 DEF LedgerStep, Ledger!Next, Ledger!PoolStep
<1>5. CASE \E config \in Configs, r \in RiskChoices[b] : LendingPoolConfigureBank(b, config, r)
  <2>1. PICK config \in Configs : banks'[b] = Configure(banks[b], config, FALSE)
    BY Zenon, <1>5 DEF LendingPoolConfigureBank, LendingInv, RecordsOK
  <2>2. Ledger(b)!Configure(banks[b], config, FALSE) = Configure(banks[b], config, FALSE)
    BY Zenon, SameOperations
  <2>3. Ledger(b)!LendingPoolConfigureBank(config, FALSE)
    BY Zenon, <1>1, <1>2, <2>1, <2>2 DEF Ledger!LendingPoolConfigureBank, Held
  <2> QED BY Zenon, <1>3, <2>3 DEF LedgerStep, Ledger!Next, Ledger!PoolStep
<1> QED BY <1>4, <1>5

\* An oracle's update is no step of a bank, the passing of time one of each.
LEMMA MarketMaps ==
  ASSUME LendingInv, Tick \/ \E b \in Banks : \E content \in FeedChoices[b] : Publish(b, content)
  PROVE  \A c \in Banks : LedgerStep(c)
<1>1. banks' = banks /\ lending' = lending /\ vaults' = vaults /\ disabled' = disabled
  BY DEF Tick, Publish
<1>2. \A c \in Banks : Held(c)' = Held(c)  BY <1>1 DEF Held
<1>3. CASE now' = now  BY <1>1, <1>2, <1>3, Elsewhere
<1>4. CASE Tick
  <2> SUFFICES ASSUME NEW c \in Banks PROVE LedgerStep(c)  OBVIOUS
  <2>1. Ledger(c)!Tick  BY <1>1, <1>2, <1>4 DEF Tick, Ledger!Tick, Held
  <2> QED BY <2>1 DEF LedgerStep, Ledger!Next
<1> QED BY <1>3, <1>4 DEF Publish

\* marginfi_account_close is a step of every bank.
LEMMA AccountCloseMaps ==
  ASSUME LendingInv, NEW a \in Accounts, MarginfiAccountClose(a)
  PROVE  \A c \in Banks : LedgerStep(c)
<1> SUFFICES ASSUME NEW c \in Banks PROVE LedgerStep(c)  OBVIOUS
<1>1. /\ a \notin disabled /\ SideAsserted(lending[a][c]) /\ GetSide(lending[a][c]) = "None"
      /\ UNCHANGED <<banks, vaults, disabled, now>>
  BY DEF MarginfiAccountClose, CanBeClosed
<1>2. Held(c)' = [Held(c) EXCEPT ![a] = EmptyDeactivated]
  BY Zenon DEF MarginfiAccountClose, Held, LendingInv, RecordsOK
<1>3. /\ Ledger(c)!EmptyDeactivated = EmptyDeactivated
      /\ Ledger(c)!SideAsserted(lending[a][c]) /\ Ledger(c)!GetSide(lending[a][c]) = "None"
  BY <1>1, SameOperations
<1>4. Ledger(c)!MarginfiAccountClose(a)
  BY Zenon, <1>1, <1>2, <1>3 DEF Ledger!MarginfiAccountClose, Held
<1> QED BY <1>4, SameRecords DEF LedgerStep, Ledger!Next, Ledger!AccountStep

\* lending_account_borrow is the ledger's, the origination fee included.
LEMMA BorrowMaps ==
  ASSUME LendingInv, NEW a \in Accounts, NEW b \in Banks, NEW amount \in Amounts,
         LendingAccountBorrow(a, b, amount)
  PROVE  \A c \in Banks : LedgerStep(c)
<1> DEFINE w == FoundOrCreated(a, b)
           fee == OriginationFee(b, amount)
           u == Indebted(a, b, amount)
           v == Borrowed(a, b, amount)
<1>1. /\ a \notin disabled
      /\ DecreaseAllowed(w, amount * ONE + fee, "Any", now) /\ Store(a, b, v)
      /\ Transfer(b, "liquidity", "outside", amount) /\ UNCHANGED <<disabled, now>>
  BY DEF LendingAccountBorrow, Borrowed
<1>2. Ledger(b)!OriginationFee(amount) = fee
  <2>1. \A x, y : Ledger(b)!Mul(x, y) = Mul(x, y)  BY SameOperations
  <2> QED BY <2>1 DEF Ledger!OriginationFee, OriginationFee
<1>3. /\ Ledger(b)!FoundOrCreated(a) = w
      /\ Ledger(b)!DecreaseAllowed(w, amount * ONE + fee, "Any", now)
      /\ Ledger(b)!DecreaseBalance(w, amount * ONE + fee, now) = u
  BY <1>1, SameState, SameOperations DEF Indebted
<1>4. v.bank = Ledger(b)!BookOriginationFee(u.bank, fee) /\ v.balance = u.balance
  <2>1. \A x, y : Ledger(b)!Mul(x, y) = Mul(x, y)  BY SameOperations
  <2>2. Ledger(b)!BookOriginationFee(u.bank, fee) = FeeBooked(u.bank, fee)
    BY Zenon, <2>1 DEF Ledger!BookOriginationFee, Ledger!ProgramShare, FeeBooked, ProgramShare
  <2> QED BY Zenon, <2>2, BorrowedIs, LendingAssumption
<1>5. u = [bank |-> u.bank, balance |-> u.balance]
  BY Zenon, BorrowedIs, LendingAssumption DEF WrapperOK
<1> HIDE DEF w, fee, u, v
<1>6. banks'[b] = v.bank /\ Held(b)' = Replaced(Held(b), a, v.balance)
  BY Zenon, <1>1, StoreMaps
<1>7. /\ vaults[b]["liquidity"] >= amount
      /\ vaults'[b] = TokensSent(vaults[b], "liquidity", "outside", amount)
  BY Zenon, <1>1, TransferMaps, TokenAccounts
<1>8. Ledger(b)!LendingAccountBorrow(a, amount)
  BY Zenon, <1>1, <1>2, <1>3, <1>4, <1>5, <1>6, <1>7
     DEF Ledger!LendingAccountBorrow, Ledger!Store, Ledger!Transfer, Held, Replaced, TokensSent
<1>9. Ledger(b)!AccountStep(a)  BY <1>8 DEF Ledger!AccountStep
<1> QED BY Zenon, <1>1, <1>9, InstructionMaps, TokenAccounts

\* lending_pool_handle_bankruptcy is the ledger's in the bank of the debt; the
\* other banks see an account disabled elsewhere.
LEMMA BankruptcyMaps ==
  ASSUME LendingInv, NEW a \in Accounts, NEW b \in Banks, LendingPoolHandleBankruptcy(a, b)
  PROVE  \A c \in Banks : LedgerStep(c)
<1> DEFINE debt == BadDebt(a, b)
           loss == SocializedLoss(a, b)
           paid == CeilTokens(CoveredByInsurance(a, b))
           w == Socialized(a, b)
           v == IncreaseBalance(w, debt, now)
<1>1. [Found(a, b) EXCEPT !.bank = SocializeLoss(Accrued(b), loss)] = w
  BY DEF Found, Socialized, Held
<1>2. /\ lending[a][b].active /\ debt > ZERO_AMOUNT_THRESHOLD
      /\ Accrued(b).total_asset_shares > 0 /\ loss <= TotalAssets(Accrued(b))
      /\ IncreaseAllowed(w, debt, "RepayOnly") /\ Store(a, b, v)
      /\ Transfer(b, "insurance", "liquidity", paid)
      /\ disabled' = disabled \cup {a} /\ now' = now
  BY <1>1 DEF LendingPoolHandleBankruptcy, BadDebt, CoveredByInsurance, SocializedLoss
<1>3. Ledger(b)!Accrued = Accrued(b) /\ Ledger(b)!Found(a) = Found(a, b)  BY SameState
<1>4. Ledger(b)!BadDebt(a) = debt /\ Ledger(b)!SocializedLoss(a) = loss
  <2>1. /\ \A x : Ledger(b)!LiabilityAmount(x) = LiabilityAmount(x)
        /\ \A x, y : Ledger(b)!Least(x, y) = Least(x, y)
    BY SameOperations
  <2> QED BY <1>3, <2>1 DEF Ledger!BadDebt, Ledger!SocializedLoss, Ledger!CoveredByInsurance,
                            BadDebt, SocializedLoss, CoveredByInsurance
<1>5. Ledger(b)!CeilTokens(Ledger(b)!CoveredByInsurance(a)) = paid
  <2>1. /\ \A x : Ledger(b)!CeilTokens(x) = CeilTokens(x)
        /\ \A x, y : Ledger(b)!Least(x, y) = Least(x, y)
    BY SameOperations
  <2> QED BY <1>4, <2>1 DEF Ledger!CoveredByInsurance, CoveredByInsurance
<1>6. /\ Ledger(b)!SocializeLoss(Accrued(b), loss) = SocializeLoss(Accrued(b), loss)
      /\ Ledger(b)!TotalAssets(Accrued(b)) = TotalAssets(Accrued(b))
      /\ Ledger(b)!IncreaseAllowed(w, debt, "RepayOnly")
      /\ Ledger(b)!IncreaseBalance(w, debt, now) = v
  BY <1>2, SameOperations
<1> HIDE DEF debt, loss, paid, w, v
<1>7. /\ banks'[b] = v.bank /\ Held(b)' = Replaced(Held(b), a, v.balance)
      /\ \A c \in Banks : c # b => banks'[c] = banks[c] /\ Held(c)' = Held(c)
  BY Zenon, <1>2, StoreMaps
<1>8. /\ vaults[b]["insurance"] >= paid
      /\ vaults'[b] = TokensSent(vaults[b], "insurance", "liquidity", paid)
      /\ \A c \in Banks : c # b => vaults'[c] = vaults[c]
  BY Zenon, <1>2, TransferMaps, TokenAccounts
<1>9. Ledger(b)!LendingPoolHandleBankruptcy(a)
  BY Zenon, <1>1, <1>2, <1>3, <1>4, <1>5, <1>6, <1>7, <1>8
     DEF Ledger!LendingPoolHandleBankruptcy, Ledger!Store, Ledger!Transfer, Held, Replaced, TokensSent
<1>10. LedgerStep(b)  BY <1>9, SameRecords DEF LedgerStep, Ledger!Next, Ledger!AccountStep
<1>11. ASSUME NEW c \in Banks, c # b PROVE LedgerStep(c)
  <2>1. Ledger(c)!DisabledElsewhere(a)
    BY Zenon, <1>2, <1>7, <1>8, <1>11 DEF Ledger!DisabledElsewhere, Held
  <2> QED BY <2>1, SameRecords DEF LedgerStep, Ledger!Next, Ledger!AccountStep
<1> QED BY <1>10, <1>11

\* The real-time price of a bank is one of a feed its oracle may publish.
LEMMA PriceChoice ==
  ASSUME RestOK, NEW b \in Banks, NEW bias
  PROVE  /\ risk[b] \in RiskChoices[b]
         /\ \E f \in FeedChoices[b] :
              RealTimePrice(b, bias) = GetPriceOfType(risk[b].oracle_setup, f, "RealTime", bias)
<1>1. /\ risk[b] \in RiskChoices[b]
      /\ \E f \in FeedChoices[b] : oracle[b] = [f EXCEPT !.publish_time = oracle[b].publish_time]
  BY DEF RestOK, ChoicesOK
<1>2. PICK f \in FeedChoices[b] : oracle[b] = [f EXCEPT !.publish_time = oracle[b].publish_time]
  BY <1>1
<1>3. f \in FeedRecords  BY LendingAssumption
<1>4. /\ oracle[b].price = f.price /\ oracle[b].conf = f.conf /\ oracle[b].exponent = f.exponent
      /\ oracle[b].ema_price = f.ema_price /\ oracle[b].ema_conf = f.ema_conf
  BY <1>2, <1>3 DEF FeedRecords
<1>5. \A s : Adapter(s, oracle[b], "RealTime") = Adapter(s, f, "RealTime")
  BY <1>4 DEF Adapter, PythLegacyPriceFeed, PythPushOraclePriceFeed, SwitchboardV2PriceFeed,
              SwitchboardPullPriceFeed
<1>6. RealTimePrice(b, bias) = GetPriceOfType(risk[b].oracle_setup, f, "RealTime", bias)
  BY Zenon, <1>5 DEF RealTimePrice, GetPriceOfType, GetConfidenceInterval, GetPrice
<1> QED BY <1>1, <1>6

\* The debt that a liquidation computes is among the ledger's quantities.
LEMMA QuantityChoice ==
  ASSUME RestOK, NEW x \in Banks, NEW y \in Banks, RealTimePrice(y, "High") # 0,
         NEW amount \in SeizedAmounts,
         NEW fees \in {LIQUIDATION_LIQUIDATOR_FEE,
                       LIQUIDATION_LIQUIDATOR_FEE + LIQUIDATION_INSURANCE_FEE}
  PROVE  LiabilityFor(amount, RealTimePrice(x, "Low"), RealTimePrice(y, "High"), fees)
           \in LiquidationQuantities
<1> DEFINE Prices(bias) == UNION {{GetPriceOfType(r.oracle_setup, f, "RealTime", bias) :
                                     r \in RiskChoices[b], f \in FeedChoices[b]} : b \in Banks}
<1>1. \A b \in Banks : RealTimePrice(b, "Low") \in Prices("Low")  BY PriceChoice
<1>2. \A b \in Banks : RealTimePrice(b, "High") \in Prices("High")  BY PriceChoice
<1>3. LiquidationQuantities
        = {LiabilityFor(a, p, q, g) :
             a \in SeizedAmounts, p \in Prices("Low"), q \in Prices("High") \ {0},
             g \in {LIQUIDATION_LIQUIDATOR_FEE,
                    LIQUIDATION_LIQUIDATOR_FEE + LIQUIDATION_INSURANCE_FEE}}
  BY DEF LiquidationQuantities
<1> HIDE DEF Prices
<1> QED BY <1>1, <1>2, <1>3

\* lending_account_liquidate, in the bank of the collateral.
LEMMA CollateralMaps ==
  ASSUME LendingInv, NEW liquidator \in Accounts, NEW liquidatee \in Accounts,
         NEW x \in Banks, NEW y \in Banks, NEW amount \in SeizedAmounts,
         LendingAccountLiquidate(liquidator, liquidatee, x, y, amount)
  PROVE  LedgerStep(x)
<1> DEFINE n == amount * ONE
           w == Found(liquidatee, x)
           seized == Seized(Accrued(x), Held(x), liquidatee, n, now)
           credited == FindOrCreate(seized.bank, lending[liquidator][x], now)
           bought == Bought(Accrued(x), Held(x), liquidatee, liquidator, n, now)
<1>1. RecordsOK /\ RestOK /\ amount \in Nat  BY LendingAssumption DEF LendingInv
<1>2. Held(x)[liquidator] = lending[liquidator][x] /\ Held(x)[liquidatee] = lending[liquidatee][x]
  BY DEF Held
<1>3. DecreaseBalance(w, n, now) = seized  BY <1>2 DEF Seized, Found
<1>4. IncreaseBalance(credited, n, now) = bought  BY Zenon, <1>2 DEF Bought
<1>5. /\ liquidator # liquidatee /\ amount > 0 /\ lending[liquidatee][x].active
      /\ DecreaseAllowed(w, n, "WithdrawOnly", now)
      /\ IncreaseAllowed(credited, n, "BypassDepositLimit")
  BY Zenon, <1>3 DEF LendingAccountLiquidate
<1>6. /\ x # y /\ banks'[x] = bought.bank
      /\ Held(x)' = [Held(x) EXCEPT ![liquidatee] = seized.balance, ![liquidator] = bought.balance]
      /\ UNCHANGED <<disabled, now>>
  BY <1>1, Liquidated DEF SeizedBalances
<1>7. vaults'[x] = vaults[x]
  <2>1. PICK k : Transfer(y, "liquidity", "insurance", k)  BY Zenon DEF LendingAccountLiquidate
  <2>2. x # y /\ vaults \in [Banks -> [Vaults -> Nat]]  BY Zenon, <1>1, <1>6 DEF RestOK
  <2> QED BY <2>1, <2>2 DEF Transfer
<1>8. /\ Ledger(x)!Found(liquidatee) = w /\ Ledger(x)!DecreaseBalance(w, n, now) = seized
      /\ Ledger(x)!DecreaseAllowed(w, n, "WithdrawOnly", now)
      /\ Ledger(x)!FindOrCreate(seized.bank, lending[liquidator][x], now) = credited
      /\ Ledger(x)!IncreaseAllowed(credited, n, "BypassDepositLimit")
      /\ Ledger(x)!IncreaseBalance(credited, n, now) = bought
  <2>1. \A u, d, t : Ledger(x)!FindOrCreate(u, d, t) = FindOrCreate(u, d, t)  BY Zenon, SameOperations
  <2> QED BY Zenon, <1>3, <1>4, <1>5, <2>1, SameState, SameChange
<1> HIDE DEF w, seized, credited, bought
<1>9. Ledger(x)!LiquidateAsset(liquidator, liquidatee, amount)
  BY Zenon, <1>5, <1>6, <1>7, <1>8 DEF Ledger!LiquidateAsset, Held
<1> QED BY <1>9, SameRecords DEF LedgerStep, Ledger!Next, Ledger!LiquidationStep

\* lending_account_liquidate, in the bank of the debt.
LEMMA DebtMaps ==
  ASSUME LendingInv, NEW liquidator \in Accounts, NEW liquidatee \in Accounts,
         NEW x \in Banks, NEW y \in Banks, NEW amount \in SeizedAmounts,
         LendingAccountLiquidate(liquidator, liquidatee, x, y, amount)
  PROVE  LedgerStep(y)
<1> DEFINE q == LiabilityFor(amount, RealTimePrice(x, "Low"), RealTimePrice(y, "High"),
                             LIQUIDATION_LIQUIDATOR_FEE)
           r == LiabilityFor(amount, RealTimePrice(x, "Low"), RealTimePrice(y, "High"),
                             LIQUIDATION_INSURANCE_FEE + LIQUIDATION_LIQUIDATOR_FEE)
           w == FoundOrCreated(liquidator, y)
           paid == Paid(Accrued(y), Held(y), liquidator, q, now)
           indebted == [bank |-> paid.bank, balance |-> lending[liquidatee][y]]
           relieved == Relieved(Accrued(y), Held(y), liquidatee, liquidator, q, r, now)
           fee == q - r
           tokens == FloorTokens(fee)
<1>1. RecordsOK /\ RestOK /\ amount \in Nat  BY LendingAssumption DEF LendingInv
<1>2. Held(y)[liquidator] = lending[liquidator][y] /\ Held(y)[liquidatee] = lending[liquidatee][y]
  BY DEF Held
<1>3. DecreaseBalance(w, q, now) = paid  BY Zenon, <1>2 DEF Paid, FoundOrCreated
<1>4. IncreaseBalance(indebted, r, now) = relieved  BY Zenon, <1>2 DEF Relieved
<1>5. /\ liquidator # liquidatee /\ RealTimePrice(y, "High") > 0
      /\ DecreaseAllowed(w, q, "BypassBorrowLimit", now)
      /\ IncreaseAllowed(indebted, r, "Any")
      /\ Transfer(y, "liquidity", "insurance", tokens)
  BY Zenon, <1>3 DEF LendingAccountLiquidate
<1>6. /\ banks'[y] = RelievedBank(Accrued(y), Held(y), liquidatee, liquidator, q, r, fee % ONE, now)
      /\ Held(y)' = RelievedBalances(Accrued(y), Held(y), liquidatee, liquidator, q, r, now)
      /\ UNCHANGED <<disabled, now>>
  BY <1>1, Liquidated
<1>7. /\ banks'[y] = [relieved.bank EXCEPT !.collected_insurance_fees_outstanding = @ + (fee % ONE)]
      /\ Held(y)' = [Held(y) EXCEPT ![liquidator] = paid.balance, ![liquidatee] = relieved.balance]
  BY <1>6 DEF RelievedBank, RelievedBalances
<1>8. lending[liquidatee][y].active /\ OwesOnly(lending[liquidatee][y])
  BY Zenon DEF LendingAccountLiquidate, CheckPreLiquidationCondition, PositionsWith
<1>9. OwesOnly(relieved.balance)
  <2>1. OwesOnly(lending'[liquidatee][y])
    BY Zenon DEF LendingAccountLiquidate, CheckPostLiquidationCondition, Positions, PositionsWith
  <2>2. Held(y)'[liquidatee] = lending'[liquidatee][y]  BY DEF Held
  <2>3. Held(y) \in [Accounts -> BalanceRecords]  BY <1>1 DEF RecordsOK, Held
  <2> HIDE DEF relieved, paid
  <2> QED BY <1>7, <2>1, <2>2, <2>3
<1>10. q \in LiquidationQuantities /\ r \in LiquidationQuantities /\ q >= r
  <2>1. LIQUIDATION_INSURANCE_FEE + LIQUIDATION_LIQUIDATOR_FEE
          = LIQUIDATION_LIQUIDATOR_FEE + LIQUIDATION_INSURANCE_FEE
    BY RiskAssumption
  <2>2. RealTimePrice(y, "High") # 0  BY <1>5
  <2>3. q \in LiquidationQuantities /\ r \in LiquidationQuantities
    BY <1>1, <2>1, <2>2, QuantityChoice
  <2>4. q \in Nat /\ r \in Nat /\ r <= q  BY Zenon, <1>1, <1>5, LiquidationAmounts
  <2> HIDE DEF q, r
  <2> QED BY <2>3, <2>4
<1> HIDE DEF q, r, fee, tokens
<1>11. /\ vaults[y]["liquidity"] >= tokens
       /\ vaults'[y] = TokensSent(vaults[y], "liquidity", "insurance", tokens)
  <2>1. Transfer(y, "liquidity", "insurance", tokens)  BY Zenon, <1>5
  <2> QED BY Zenon, <2>1, TransferMaps, TokenAccounts
<1>12. \A e : Ledger(y)!OwesOnly(e) <=> OwesOnly(e)
  BY DEF Ledger!OwesOnly, OwesOnly, Ledger!EMPTY_BALANCE_THRESHOLD, EMPTY_BALANCE_THRESHOLD
<1>13. Ledger(y)!InsuranceFeeDust(fee) = fee % ONE  BY DEF Ledger!InsuranceFeeDust
<1>14. /\ Ledger(y)!FoundOrCreated(liquidator) = w /\ Ledger(y)!DecreaseBalance(w, q, now) = paid
       /\ Ledger(y)!DecreaseAllowed(w, q, "BypassBorrowLimit", now)
       /\ Ledger(y)!IncreaseAllowed(indebted, r, "Any")
       /\ Ledger(y)!IncreaseBalance(indebted, r, now) = relieved
       /\ Ledger(y)!FloorTokens(fee) = tokens
  <2>1. Ledger(y)!FloorTokens(fee) = tokens  BY Zenon, SameOperations DEF tokens
  <2> QED BY Zenon, <1>3, <1>4, <1>5, <2>1, SameState, SameChange
<1>15. indebted = [bank |-> paid.bank, balance |-> lending[liquidatee][y]]  OBVIOUS
<1> HIDE DEF w, paid, indebted, relieved
<1>16. PICK k, m \in LiquidationQuantities : k = q /\ m = r  BY <1>10
<1>17. Ledger(y)!LiquidateLiability(liquidator, liquidatee, k, m)
  BY Zenon, <1>5, <1>6, <1>7, <1>8, <1>9, <1>10, <1>11, <1>12, <1>13, <1>14, <1>15, <1>16
     DEF Ledger!LiquidateLiability, Ledger!Transfer, Held, TokensSent, fee
<1> QED BY <1>17, SameRecords DEF LedgerStep, Ledger!Next, Ledger!LiquidationStep

\* lending_account_liquidate is one step of the bank of the collateral, one of
\* the bank of the debt, and no step of the others.
LEMMA LiquidateMaps ==
  ASSUME LendingInv, NEW liquidator \in Accounts, NEW liquidatee \in Accounts,
         NEW x \in Banks, NEW y \in Banks, NEW amount \in SeizedAmounts,
         LendingAccountLiquidate(liquidator, liquidatee, x, y, amount)
  PROVE  \A c \in Banks : LedgerStep(c)
<1>1. LedgerStep(x) /\ LedgerStep(y)  BY CollateralMaps, DebtMaps
<1>2. RecordsOK /\ RestOK /\ amount \in Nat  BY LendingAssumption DEF LendingInv
<1>3. /\ \A c \in Banks : c # x /\ c # y => banks'[c] = banks[c] /\ Held(c)' = Held(c)
      /\ UNCHANGED <<disabled, now>>
  BY <1>2, Liquidated
<1>4. PICK k : Transfer(y, "liquidity", "insurance", k)  BY Zenon DEF LendingAccountLiquidate
<1>5. \A c \in Banks : c # y => vaults'[c] = vaults[c]  BY <1>2, <1>4 DEF Transfer, RestOK
<1> QED BY Zenon, <1>1, <1>3, <1>5, Elsewhere

\* A new bank has a new ledger.
LEMMA InitMaps ==
  ASSUME Init, NEW b \in Banks
  PROVE  Ledger(b)!Init
<1>1. PICK config \in Configs : banks = [c \in Banks |-> BankNew(config, 0)]  BY DEF Init
<1>2. /\ Ledger(b)!BankNew(config, 0) = BankNew(config, 0)
      /\ Ledger(b)!EmptyDeactivated = EmptyDeactivated
      /\ Ledger(b)!Accounts = Accounts /\ Ledger(b)!Vaults = Vaults
  BY Zenon, SameOperations, SameRecords
<1>3. /\ lending = [a \in Accounts |-> [c \in Banks |-> EmptyDeactivated]]
      /\ vaults = [c \in Banks |-> [v \in Vaults |-> IF v = "outside" THEN Supply[c] ELSE 0]]
      /\ disabled = {} /\ now = 0
  BY DEF Init
<1>4. banks[b] = BankNew(config, 0) /\ Held(b) = [a \in Accounts |-> EmptyDeactivated]
  BY <1>1, <1>3 DEF Held
<1>5. vaults[b] = [v \in Vaults |-> CASE v = "outside" -> Supply[b]
                                      [] v = "emissions_outside" -> 0
                                      [] OTHER -> 0]
  BY <1>3 DEF Vaults
<1> QED BY <1>2, <1>3, <1>4, <1>5 DEF Ledger!Init, Held

\* Every step of the group is a step of each bank's ledger or leaves it alone.
LEMMA NextMaps ==
  ASSUME LendingInv, [Next]_vars
  PROVE  \A c \in Banks : LedgerStep(c)
<1>1. ASSUME NEW a \in Accounts, AccountStep(a) PROVE \A c \in Banks : LedgerStep(c)
  BY <1>1, DepositMaps, RepayMaps, WithdrawMaps, BorrowMaps, RepayAllMaps, WithdrawAllMaps,
     CloseBalanceMaps, BankruptcyMaps, AccountCloseMaps DEF AccountStep
<1>2. ASSUME NEW b \in Banks, BankStep(b) PROVE \A c \in Banks : LedgerStep(c)
  BY Zenon, <1>2, PoolMaps, MarketMaps DEF BankStep
<1>3. CASE UNCHANGED vars
  <2>1. \A c \in Banks : /\ banks'[c] = banks[c] /\ Held(c)' = Held(c) /\ vaults'[c] = vaults[c]
                         /\ UNCHANGED <<disabled, now>>
    BY <1>3 DEF vars, Held
  <2> QED BY <2>1, Elsewhere
<1> QED BY <1>1, <1>2, <1>3, LiquidateMaps, MarketMaps DEF Next

\* Lending implements BankLedger, bank by bank: whatever the accounts do across
\* banks and whatever the risk engine decides, each bank of a group starts as a
\* new ledger and goes through steps of BankLedger only.
THEOREM GroupRefinesLedgers == Spec => BanksAreLedgers
<1>1. Init => \A b \in Banks : Ledger(b)!Init  BY InitMaps
<1>2. LendingInv /\ [Next]_vars
        => [\A b \in Banks : Ledger(b)!vars' # Ledger(b)!vars => Ledger(b)!Next]_vars
  BY NextMaps DEF LedgerStep
<1> QED BY <1>1, <1>2, GroupInvariant, PTL DEF Spec, BanksAreLedgers
=============================================================================
