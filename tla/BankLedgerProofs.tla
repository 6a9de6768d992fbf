-------------------------- MODULE BankLedgerProofs --------------------------
(***************************************************************************)
(* Proofs about BankLedger, for any number of accounts, any supply, any    *)
(* configurations and any precision ONE: its inductive invariant.          *)
(***************************************************************************)
EXTENDS BankLedger, BalanceProofs

\* settle_emissions_and_get_transfer_amount: what is paid leaves the balance.
LEMMA SettleEmissionsOK ==
  ASSUME NEW t \in Nat, NEW w, WrapperOK(w, t)
  PROVE  LET v == SettleEmissions(w, t)
         IN  /\ WrapperOK(v, t) /\ Conserves(w, v)
             /\ SettledTokens(w, t) \in Nat
             /\ v.bank.emissions_remaining + v.balance.emissions_outstanding
                  + SettledTokens(w, t) * ONE
                    <= w.bank.emissions_remaining + w.balance.emissions_outstanding
<1> DEFINE u == ClaimEmissions(w, t)
           e == u.balance.emissions_outstanding
           r == e % ONE
           d == [u.balance EXCEPT !.emissions_outstanding = r]
           v == [bank |-> u.bank, balance |-> d]
<1>1. WrapperOK(u, t) /\ Conserves(w, u)  BY ClaimEmissionsOK
<1> HIDE DEF u
<1>2. u = [bank |-> u.bank, balance |-> u.balance] /\ u.bank \in BankRecords
      /\ u.balance \in BalanceRecords  BY <1>1 DEF WrapperOK
<1>3. SettleEmissions(w, t) = v  BY <1>2 DEF SettleEmissions, u, BalanceRecords
<1>4. e \in Nat /\ ONE \in Nat \ {0}  BY <1>2, OneAssumption DEF BalanceRecords
<1> DEFINE q == FloorTokens(e)
<1>5. q \in Nat /\ r \in Nat /\ q * ONE + r = e /\ q * ONE \in Nat
  <2> HIDE DEF e
  <2>1. q \in Nat  BY <1>4, RoundingNat
  <2>2. r \in 0 .. (ONE - 1) /\ e = ONE * (e \div ONE) + r  BY <1>4
  <2>3. e = ONE * q + r  BY <2>2 DEF FloorTokens
  <2> HIDE DEF q, r
  <2>4. ONE * q = q * ONE /\ q * ONE \in Nat  BY <1>4, <2>1, NatProduct
  <2> QED BY <1>4, <2>1, <2>2, <2>3, <2>4
<1>6. SettledTokens(w, t) = q  BY DEF SettledTokens, u
<1> HIDE DEF q, r, e
<1>7. d \in BalanceRecords  BY <1>2, <1>5 DEF BalanceRecords
<1>8. /\ d.asset_shares = u.balance.asset_shares /\ d.liability_shares = u.balance.liability_shares
      /\ d.last_update = u.balance.last_update /\ d.emissions_outstanding = r
  BY <1>2 DEF BalanceRecords
<1> HIDE DEF d
<1>9. v.bank = u.bank /\ v.balance = d /\ v = [bank |-> v.bank, balance |-> v.balance]  OBVIOUS
<1> HIDE DEF v
<1>10. WrapperOK(v, t)  BY <1>1, <1>7, <1>8, <1>9 DEF WrapperOK, SideAsserted
<1>11. u.bank.emissions_remaining + e <= w.bank.emissions_remaining + w.balance.emissions_outstanding
  BY <1>1 DEF Conserves, e
<1>12. /\ u.bank.emissions_remaining \in Nat /\ w.bank.emissions_remaining \in Nat
       /\ w.balance.emissions_outstanding \in Nat
  BY <1>2 DEF WrapperOK, BankRecords, BalanceRecords
<1>13. v.bank.emissions_remaining + v.balance.emissions_outstanding + q * ONE
         <= w.bank.emissions_remaining + w.balance.emissions_outstanding
  BY <1>4, <1>5, <1>8, <1>9, <1>11, <1>12
<1>14. v.bank.emissions_remaining + v.balance.emissions_outstanding
         <= w.bank.emissions_remaining + w.balance.emissions_outstanding
  BY <1>4, <1>5, <1>8, <1>9, <1>12, <1>13
<1>15. Conserves(w, v)  BY <1>1, <1>8, <1>9, <1>14 DEF Conserves
<1> QED BY <1>3, <1>5, <1>6, <1>10, <1>13, <1>15

\* The accounts are finitely many.
LEMMA AccountsFinite == IsFiniteSet(Accounts)
<1>1. NumAccounts \in Int /\ 1 \in Int  BY LedgerAssumption
<1> QED BY Zenon, <1>1, FS_Interval DEF Accounts

\* SPL transfers keep every token account non-negative.
LEMMA TransferOK ==
  ASSUME NEW from \in Vaults, NEW to \in Vaults, from # to, NEW amount \in Nat,
         vault \in [Vaults -> Nat], Transfer(from, to, amount)
  PROVE  /\ vault' \in [Vaults -> Nat]
         /\ vault'[from] = vault[from] - amount
         /\ vault'[to] = vault[to] + amount
         /\ \A v \in Vaults : v # from /\ v # to => vault'[v] = vault[v]
<1> DEFINE x == vault[from] - amount
           y == vault[to] + amount
<1>1. x \in Nat /\ y \in Nat /\ vault' = [vault EXCEPT ![from] = x, ![to] = y]
  <2>1. vault[from] \in Nat /\ vault[to] \in Nat  OBVIOUS
  <2>2. vault[from] >= amount /\ vault' = [vault EXCEPT ![from] = x, ![to] = y]
    BY DEF Transfer
  <2> HIDE DEF Vaults
  <2> QED BY <2>1, <2>2
<1> HIDE DEF x, y
<1>2. vault' \in [Vaults -> Nat]  BY <1>1
<1>3. vault'[from] = x /\ vault'[to] = y
      /\ \A v \in Vaults : v # from /\ v # to => vault'[v] = vault[v]
  BY <1>1
<1> QED BY <1>2, <1>3 DEF x, y

-----------------------------------------------------------------------------
(* One lemma per instruction: it keeps LedgerInv and lowers no debt.       *)

RestOK == /\ vault \in [Vaults -> Nat] /\ disabled \in SUBSET Accounts
          /\ group \in MarginfiGroups /\ now \in Nat

StepOK == LedgerInv' /\ bank'.liability_share_value >= bank.liability_share_value

\* The invariant as one condition on bank, balances, emissions vault and
\* clock, and one on the rest of the state.
LEMMA InvParts ==
  LedgerInv <=> RestOK /\ LedgerOK(Accounts, bank, balances, vault["emissions"] * ONE, now)
BY DEF LedgerInv, TypeOK, SharesBacked, OneSided, EmissionsFunded, TimesPast, RestOK, LedgerOK,
       AssetShares, LiabilityShares, AssetsOf, LiabilitiesOf, EmissionsOf

\* The same of the next state.
LEMMA InvParts1 ==
  LedgerInv' <=> RestOK' /\ LedgerOK(Accounts, bank', balances', vault'["emissions"] * ONE, now')
BY DEF LedgerInv, TypeOK, SharesBacked, OneSided, EmissionsFunded, TimesPast, RestOK, LedgerOK,
       AssetShares, LiabilityShares, AssetsOf, LiabilitiesOf, EmissionsOf

\* The emissions vault in units.
LEMMA EmissionsUnits ==
  ASSUME RestOK
  PROVE  vault["emissions"] \in Nat /\ vault["emissions"] * ONE \in Nat
<1>1. vault["emissions"] \in Nat  BY DEF RestOK, Vaults
<1> QED BY <1>1, NatProduct, OneAssumption

\* After the accrual every handler starts with.
LEMMA AccruedOK ==
  ASSUME LedgerInv
  PROVE  /\ LedgerOK(Accounts, Accrued, balances, vault["emissions"] * ONE, now)
         /\ AccrualOK(bank, Accrued, now)
<1>1. RestOK /\ LedgerOK(Accounts, bank, balances, vault["emissions"] * ONE, now)  BY InvParts
<1>2. group \in MarginfiGroups /\ now \in Nat /\ vault["emissions"] * ONE \in Nat
  BY <1>1, EmissionsUnits DEF RestOK
<1> QED BY Zenon, <1>1, <1>2, AccruedLedger, AccountsFinite DEF Accrued

\* BankAccountWrapper::find on an accrued bank gives a well-formed wrapper.
LEMMA FoundOK ==
  ASSUME LedgerInv, NEW a \in Accounts
  PROVE  WrapperOK(Found(a), now)
BY AccruedOK, WrapOK, AccountsFinite DEF Found

\* An instruction that stores one wrapper and leaves the emissions vault alone.
LEMMA StoredOK ==
  ASSUME LedgerInv, NEW a \in Accounts, NEW v, WrapperOK(v, now), Conserves(Found(a), v),
         Store(a, v), RestOK', vault'["emissions"] = vault["emissions"], now' = now
  PROVE  StepOK
<1>1. RestOK  BY InvParts
<1>2. vault["emissions"] * ONE \in Nat /\ now \in Nat  BY <1>1, EmissionsUnits DEF RestOK
<1>3. LedgerOK(Accounts, Accrued, balances, vault["emissions"] * ONE, now) /\ AccrualOK(bank, Accrued, now)
  BY AccruedOK
<1>4. Conserves([bank |-> Accrued, balance |-> balances[a]], v)  BY DEF Found
<1>5. LedgerOK(Accounts, v.bank, [balances EXCEPT ![a] = v.balance], vault["emissions"] * ONE, now)
  BY <1>2, <1>3, <1>4, StoreSame, AccountsFinite
<1>6. LedgerOK(Accounts, bank', balances', vault'["emissions"] * ONE, now')
  BY <1>5 DEF Store
<1>7. v.bank.liability_share_value = Accrued.liability_share_value
  <2>1. Found(a).bank = Accrued  BY DEF Found
  <2> QED BY <2>1 DEF Conserves
<1>8. bank'.liability_share_value >= bank.liability_share_value
  BY <1>3, <1>7 DEF Store, AccrualOK
<1> QED BY <1>6, <1>8, InvParts1 DEF StepOK

\* The wrapper found or created for an account.
LEMMA FoundOrCreatedOK ==
  ASSUME LedgerInv, NEW a \in Accounts
  PROVE  WrapperOK(FoundOrCreated(a), now) /\ Conserves(Found(a), FoundOrCreated(a))
<1>1. WrapperOK(Found(a), now) /\ now \in Nat  BY FoundOK, InvParts DEF RestOK
<1>2. Found(a).bank = Accrued /\ Found(a).balance = balances[a]  BY DEF Found
<1>3. FoundOrCreated(a) = FindOrCreate(Found(a).bank, Found(a).balance, now)
  BY <1>2 DEF FoundOrCreated
<1> QED BY <1>1, <1>3, FindOrCreateOK

\* A transfer between vaults other than the emissions vault.
LEMMA TokensMoved ==
  ASSUME RestOK, NEW from \in {"liquidity", "insurance", "fee", "outside"},
         NEW to \in {"liquidity", "insurance", "fee", "outside"}, from # to,
         NEW amount \in Nat, Transfer(from, to, amount),
         disabled' \in SUBSET Accounts, group' = group, now' = now
  PROVE  RestOK' /\ vault'["emissions"] = vault["emissions"]
<1>1. /\ from \in Vaults /\ to \in Vaults /\ "emissions" \in Vaults
      /\ from # "emissions" /\ to # "emissions"
  BY DEF Vaults
<1>2. vault \in [Vaults -> Nat]  BY DEF RestOK
<1>3. vault' \in [Vaults -> Nat] /\ vault'["emissions"] = vault["emissions"]
  BY <1>1, <1>2, TransferOK
<1> QED BY <1>3 DEF RestOK

\* lending_account_deposit keeps the invariant.
LEMMA LendingAccountDepositStep ==
  ASSUME LedgerInv, NEW a \in Accounts, NEW amount \in Nat, LendingAccountDeposit(a, amount)
  PROVE  StepOK
<1> DEFINE v == IncreaseBalance(FoundOrCreated(a), amount * ONE, now)
<1>0. RestOK /\ now \in Nat /\ amount * ONE \in Nat
  BY InvParts, NatProduct, OneAssumption DEF RestOK
<1>1. WrapperOK(FoundOrCreated(a), now) /\ Conserves(Found(a), FoundOrCreated(a)) /\ WrapperOK(Found(a), now)
  BY <1>0, FoundOK, FoundOrCreatedOK, ConservesRefl
<1>2. WrapperOK(v, now) /\ Conserves(FoundOrCreated(a), v)  BY <1>0, <1>1, IncreaseBalanceOK
<1> HIDE DEF v
<1>3. Conserves(Found(a), v)  BY <1>0, <1>1, <1>2, ConservesTrans
<1>4. Store(a, v) /\ Transfer("outside", "liquidity", amount) /\ UNCHANGED <<disabled, group, now>>
  BY DEF LendingAccountDeposit, v
<1>5. disabled' \in SUBSET Accounts /\ group' = group /\ now' = now  BY <1>0, <1>4 DEF RestOK
<1>6. RestOK' /\ vault'["emissions"] = vault["emissions"]  BY <1>0, <1>4, <1>5, TokensMoved
<1> QED BY <1>2, <1>3, <1>4, <1>5, <1>6, StoredOK

\* lending_account_repay keeps the invariant.
LEMMA LendingAccountRepayStep ==
  ASSUME LedgerInv, NEW a \in Accounts, NEW amount \in Nat, LendingAccountRepay(a, amount)
  PROVE  StepOK
<1> DEFINE v == IncreaseBalance(Found(a), amount * ONE, now)
<1>0. RestOK /\ now \in Nat /\ amount * ONE \in Nat
  BY InvParts, NatProduct, OneAssumption DEF RestOK
<1>1. WrapperOK(Found(a), now) /\ Conserves(Found(a), Found(a)) /\ WrapperOK(Found(a), now)
  BY <1>0, FoundOK, FoundOrCreatedOK, ConservesRefl
<1>2. WrapperOK(v, now) /\ Conserves(Found(a), v)  BY <1>0, <1>1, IncreaseBalanceOK
<1> HIDE DEF v
<1>3. Conserves(Found(a), v)  BY <1>0, <1>1, <1>2, ConservesTrans
<1>4. Store(a, v) /\ Transfer("outside", "liquidity", amount) /\ UNCHANGED <<disabled, group, now>>
  BY DEF LendingAccountRepay, v
<1>5. disabled' \in SUBSET Accounts /\ group' = group /\ now' = now  BY <1>0, <1>4 DEF RestOK
<1>6. RestOK' /\ vault'["emissions"] = vault["emissions"]  BY <1>0, <1>4, <1>5, TokensMoved
<1> QED BY <1>2, <1>3, <1>4, <1>5, <1>6, StoredOK

\* lending_account_withdraw keeps the invariant.
LEMMA LendingAccountWithdrawStep ==
  ASSUME LedgerInv, NEW a \in Accounts, NEW amount \in Nat, LendingAccountWithdraw(a, amount)
  PROVE  StepOK
<1> DEFINE v == DecreaseBalance(Found(a), amount * ONE, now)
<1>0. RestOK /\ now \in Nat /\ amount * ONE \in Nat
  BY InvParts, NatProduct, OneAssumption DEF RestOK
<1>1. WrapperOK(Found(a), now) /\ Conserves(Found(a), Found(a)) /\ WrapperOK(Found(a), now)
  BY <1>0, FoundOK, FoundOrCreatedOK, ConservesRefl
<1>2. WrapperOK(v, now) /\ Conserves(Found(a), v)  BY <1>0, <1>1, DecreaseBalanceOK
<1> HIDE DEF v
<1>3. Conserves(Found(a), v)  BY <1>0, <1>1, <1>2, ConservesTrans
<1>4. Store(a, v) /\ Transfer("liquidity", "outside", amount) /\ UNCHANGED <<disabled, group, now>>
  BY DEF LendingAccountWithdraw, v
<1>5. disabled' \in SUBSET Accounts /\ group' = group /\ now' = now  BY <1>0, <1>4 DEF RestOK
<1>6. RestOK' /\ vault'["emissions"] = vault["emissions"]  BY <1>0, <1>4, <1>5, TokensMoved
<1> QED BY <1>2, <1>3, <1>4, <1>5, <1>6, StoredOK

\* lending_account_repay with repay_all keeps the invariant.
LEMMA LendingAccountRepayAllStep ==
  ASSUME LedgerInv, NEW a \in Accounts, LendingAccountRepayAll(a)
  PROVE  StepOK
<1> DEFINE v == RepayAll(Found(a), now)
           amount == RepayAllTokens(Found(a))
<1>0. RestOK /\ now \in Nat  BY InvParts DEF RestOK
<1>1. WrapperOK(Found(a), now)  BY FoundOK
<1>2. WrapperOK(v, now) /\ Conserves(Found(a), v)  BY <1>0, <1>1, RepayAllOK
<1>3. amount \in Nat  BY <1>0, <1>1, AmountsNat, RoundingNat DEF RepayAllTokens
<1> HIDE DEF v, amount
<1>4. Store(a, v) /\ Transfer("outside", "liquidity", amount) /\ UNCHANGED <<disabled, group, now>>
  BY DEF LendingAccountRepayAll, v, amount
<1>5. disabled' \in SUBSET Accounts /\ group' = group /\ now' = now  BY <1>0, <1>4 DEF RestOK
<1>6. RestOK' /\ vault'["emissions"] = vault["emissions"]
  BY <1>0, <1>3, <1>4, <1>5, TokensMoved
<1> QED BY <1>2, <1>4, <1>5, <1>6, StoredOK

\* lending_account_withdraw with withdraw_all keeps the invariant.
LEMMA LendingAccountWithdrawAllStep ==
  ASSUME LedgerInv, NEW a \in Accounts, LendingAccountWithdrawAll(a)
  PROVE  StepOK
<1> DEFINE v == WithdrawAll(Found(a), now)
           amount == WithdrawAllTokens(Found(a))
<1>0. RestOK /\ now \in Nat  BY InvParts DEF RestOK
<1>1. WrapperOK(Found(a), now)  BY FoundOK
<1>2. WrapperOK(v, now) /\ Conserves(Found(a), v)  BY <1>0, <1>1, WithdrawAllOK
<1>3. amount \in Nat  BY <1>0, <1>1, AmountsNat, RoundingNat DEF WithdrawAllTokens
<1> HIDE DEF v, amount
<1>4. Store(a, v) /\ Transfer("liquidity", "outside", amount) /\ UNCHANGED <<disabled, group, now>>
  BY DEF LendingAccountWithdrawAll, v, amount
<1>5. disabled' \in SUBSET Accounts /\ group' = group /\ now' = now  BY <1>0, <1>4 DEF RestOK
<1>6. RestOK' /\ vault'["emissions"] = vault["emissions"]
  BY <1>0, <1>3, <1>4, <1>5, TokensMoved
<1> QED BY <1>2, <1>4, <1>5, <1>6, StoredOK

\* lending_account_close_balance keeps the invariant.
LEMMA LendingAccountCloseBalanceStep ==
  ASSUME LedgerInv, NEW a \in Accounts, LendingAccountCloseBalance(a)
  PROVE  StepOK
<1> DEFINE v == CloseBalance(Found(a), now)
<1>0. RestOK /\ now \in Nat  BY InvParts DEF RestOK
<1>1. WrapperOK(Found(a), now)  BY FoundOK
<1>2. WrapperOK(v, now) /\ Conserves(Found(a), v)  BY <1>0, <1>1, CloseBalanceOK
<1> HIDE DEF v
<1>3. Store(a, v) /\ UNCHANGED <<vault, disabled, group, now>>
  BY DEF LendingAccountCloseBalance, v
<1>4. RestOK' /\ vault'["emissions"] = vault["emissions"] /\ now' = now
  BY <1>0, <1>3 DEF RestOK
<1> QED BY <1>2, <1>3, <1>4, StoredOK

\* lending_account_borrow, with its origination fee, keeps the invariant.
LEMMA LendingAccountBorrowStep ==
  ASSUME LedgerInv, NEW a \in Accounts, NEW amount \in Nat, LendingAccountBorrow(a, amount)
  PROVE  StepOK
<1> DEFINE fee == OriginationFee(amount)
           share == ProgramShare(fee)
           w == DecreaseBalance(FoundOrCreated(a), amount * ONE + fee, now)
           b == w.bank
           p1 == b.collected_program_fees_outstanding + share
           g1 == b.collected_group_fees_outstanding + fee - share
           c == [b EXCEPT !.collected_program_fees_outstanding = p1,
                          !.collected_group_fees_outstanding = g1]
           v == [bank |-> c, balance |-> w.balance]
<1>0. RestOK /\ now \in Nat /\ amount * ONE \in Nat /\ bank \in BankRecords /\ group \in MarginfiGroups
  BY InvParts, NatProduct, OneAssumption DEF RestOK, LedgerOK
<1>1. fee \in Nat
  <2>1. bank.config.interest_rate_config.protocol_origination_fee \in Nat
    BY <1>0 DEF BankRecords, BankConfigs, InterestRateConfigs
  <2> QED BY Zenon, <1>0, <2>1, MulNat DEF OriginationFee
<1> HIDE DEF fee
<1>2. share \in Nat /\ share <= fee
  <2>1. group.program_fee_rate \in Nat /\ group.program_fee_rate <= ONE  BY <1>0 DEF MarginfiGroups
  <2> QED BY <1>1, <2>1, ShareOfFee DEF ProgramShare
<1>3. amount * ONE + fee \in Nat  BY <1>0, <1>1
<1>4. /\ WrapperOK(FoundOrCreated(a), now) /\ Conserves(Found(a), FoundOrCreated(a))
      /\ WrapperOK(Found(a), now)
  BY FoundOK, FoundOrCreatedOK
<1>5. WrapperOK(w, now) /\ Conserves(FoundOrCreated(a), w)  BY <1>0, <1>3, <1>4, DecreaseBalanceOK
<1>6. /\ Store(a, [w EXCEPT !.bank = BookOriginationFee(w.bank, fee)])
      /\ Transfer("liquidity", "outside", amount) /\ UNCHANGED <<disabled, group, now>>
  BY DEF LendingAccountBorrow, fee
<1> HIDE DEF share, w
<1>7. w = [bank |-> b, balance |-> w.balance] /\ b \in BankRecords  BY <1>5 DEF WrapperOK
<1>8. Store(a, v)
  <2>1. BookOriginationFee(b, fee) = c  BY <1>7 DEF BookOriginationFee, BankRecords, share
  <2> HIDE DEF c
  <2>2. [w EXCEPT !.bank = c] = v  BY <1>7
  <2> QED BY <1>6, <2>1, <2>2
<1>9. p1 \in Nat /\ g1 \in Nat
  <2>1. b.collected_program_fees_outstanding \in Nat /\ b.collected_group_fees_outstanding \in Nat
    BY <1>7 DEF BankRecords
  <2> QED BY <1>1, <1>2, <2>1
<1> HIDE DEF p1, g1
<1>10. c \in BankRecords /\ SameShares(b, c)  BY Zenon, <1>7, <1>9 DEF BankRecords, SameShares
<1> HIDE DEF c
<1>11. WrapperOK(v, now) /\ Conserves(w, v)  BY <1>0, <1>5, <1>10, FeesOK
<1> HIDE DEF v
<1>12. Conserves(FoundOrCreated(a), v)  BY <1>0, <1>4, <1>5, <1>11, ConservesTrans
<1>13. Conserves(Found(a), v)  BY <1>0, <1>4, <1>11, <1>12, ConservesTrans
<1>14. disabled' \in SUBSET Accounts /\ group' = group /\ now' = now  BY <1>0, <1>6 DEF RestOK
<1>15. RestOK' /\ vault'["emissions"] = vault["emissions"]  BY <1>0, <1>6, <1>14, TokensMoved
<1> QED BY <1>8, <1>11, <1>13, <1>14, <1>15, StoredOK

\* close_account, which drops balances without taking them out of the totals,
\* keeps the invariant.
LEMMA MarginfiAccountCloseStep ==
  ASSUME LedgerInv, NEW a \in Accounts, MarginfiAccountClose(a)
  PROVE  StepOK
<1> DEFINE e == vault["emissions"] * ONE
<1>1. RestOK /\ LedgerOK(Accounts, bank, balances, e, now) /\ now \in Nat /\ e \in Nat
  BY InvParts, EmissionsUnits DEF RestOK
<1>2. UNCHANGED <<bank, vault, disabled, group, now>>
      /\ balances' = [balances EXCEPT ![a] = EmptyDeactivated]
  BY DEF MarginfiAccountClose
<1> HIDE DEF e
<1>3. LedgerOK(Accounts, bank, [balances EXCEPT ![a] = EmptyDeactivated], e, now)
  BY <1>1, DroppedLedger, AccountsFinite
<1>4. LedgerOK(Accounts, bank', balances', vault'["emissions"] * ONE, now') /\ RestOK'
  BY <1>1, <1>2, <1>3 DEF RestOK, e
<1>5. bank.liability_share_value \in Nat  BY <1>1 DEF LedgerOK, BankRecords
<1> QED BY <1>2, <1>4, <1>5, InvParts1 DEF StepOK

\* lending_account_settle_emissions keeps the invariant.
LEMMA LendingAccountSettleEmissionsStep ==
  ASSUME LedgerInv, NEW a \in Accounts, LendingAccountSettleEmissions(a)
  PROVE  StepOK
<1> DEFINE w == [bank |-> bank, balance |-> balances[a]]
           v == ClaimEmissions(w, now)
           e == vault["emissions"] * ONE
<1>0. RestOK /\ LedgerOK(Accounts, bank, balances, e, now) /\ now \in Nat /\ e \in Nat
  BY InvParts, EmissionsUnits DEF RestOK
<1>1. WrapperOK(w, now) /\ w.bank = bank  BY <1>0, WrapOK, AccountsFinite
<1>2. Store(a, v) /\ UNCHANGED <<vault, disabled, group, now>>  BY DEF LendingAccountSettleEmissions
<1> HIDE DEF w, e
<1>3. WrapperOK(v, now) /\ Conserves(w, v)  BY <1>0, <1>1, ClaimEmissionsOK
<1> HIDE DEF v
<1>4. LedgerOK(Accounts, v.bank, [balances EXCEPT ![a] = v.balance], e, now)
  BY <1>0, <1>3, StoreSame, AccountsFinite DEF w
<1>5. LedgerOK(Accounts, bank', balances', vault'["emissions"] * ONE, now') /\ RestOK'
  BY <1>0, <1>2, <1>4 DEF RestOK, Store, e
<1>6. bank.liability_share_value \in Nat /\ bank'.liability_share_value = bank.liability_share_value
  BY <1>0, <1>1, <1>2, <1>3 DEF LedgerOK, BankRecords, Store, Conserves
<1> QED BY <1>5, <1>6, InvParts1 DEF StepOK

\* The tokens paid out were owed, so the vault still covers the rest.
LEMMA LendingAccountWithdrawEmissionsStep ==
  ASSUME LedgerInv, NEW a \in Accounts, LendingAccountWithdrawEmissions(a)
  PROVE  StepOK
<1> DEFINE w == [bank |-> bank, balance |-> balances[a]]
           v == SettleEmissions(w, now)
           n == SettledTokens(w, now)
           e == vault["emissions"] * ONE
           f == vault'["emissions"] * ONE
<1>0. RestOK /\ LedgerOK(Accounts, bank, balances, e, now) /\ now \in Nat /\ e \in Nat
      /\ vault["emissions"] \in Nat
  BY InvParts, EmissionsUnits DEF RestOK
<1>1. WrapperOK(w, now) /\ w.bank = bank /\ w.balance = balances[a]  BY <1>0, WrapOK, AccountsFinite
<1>2. Store(a, v) /\ Transfer("emissions", "emissions_outside", n)
      /\ UNCHANGED <<disabled, group, now>>
  BY DEF LendingAccountWithdrawEmissions
<1> HIDE DEF w
<1>3. /\ WrapperOK(v, now) /\ Conserves(w, v) /\ n \in Nat
      /\ v.bank.emissions_remaining + v.balance.emissions_outstanding + n * ONE
           <= w.bank.emissions_remaining + w.balance.emissions_outstanding
  BY <1>0, <1>1, SettleEmissionsOK
<1> HIDE DEF v, n
<1>4. vault' \in [Vaults -> Nat] /\ vault'["emissions"] = vault["emissions"] - n
  <2>1. "emissions" \in Vaults /\ "emissions_outside" \in Vaults  BY DEF Vaults
  <2>2. vault \in [Vaults -> Nat]  BY <1>0 DEF RestOK
  <2> QED BY <1>2, <1>3, <2>1, <2>2, TransferOK
<1>5. vault'["emissions"] \in Nat  BY <1>4 DEF Vaults
<1>6. f \in Nat /\ e = f + n * ONE /\ n * ONE \in Nat
  <2> DEFINE x == vault["emissions"]
             y == vault'["emissions"]
  <2>1. x \in Nat /\ y \in Nat /\ x = y + n /\ ONE \in Nat
    BY <1>0, <1>3, <1>4, <1>5, OneAssumption
  <2> HIDE DEF x, y
  <2>2. x * ONE = y * ONE + n * ONE /\ y * ONE \in Nat /\ n * ONE \in Nat
    BY <2>1, <1>3, NatProduct
  <2> QED BY <2>2 DEF x, y
<1> HIDE DEF e, f
<1>7. /\ v.bank.emissions_remaining \in Nat /\ v.balance.emissions_outstanding \in Nat
      /\ w.bank.emissions_remaining \in Nat /\ w.balance.emissions_outstanding \in Nat
  BY <1>1, <1>3 DEF WrapperOK, BankRecords, BalanceRecords
<1>8. v.bank.emissions_remaining + v.balance.emissions_outstanding + e
        <= bank.emissions_remaining + balances[a].emissions_outstanding + f
  BY <1>1, <1>3, <1>6, <1>7
<1>9. LedgerOK(Accounts, v.bank, [balances EXCEPT ![a] = v.balance], f, now)
  BY <1>0, <1>3, <1>6, <1>8, StoreOK, AccountsFinite DEF w
<1>10. LedgerOK(Accounts, bank', balances', vault'["emissions"] * ONE, now') /\ RestOK'
  BY <1>0, <1>2, <1>4, <1>9 DEF RestOK, Store, f
<1>11. bank.liability_share_value \in Nat /\ bank'.liability_share_value = bank.liability_share_value
  BY <1>0, <1>1, <1>2, <1>3 DEF LedgerOK, BankRecords, Store, Conserves
<1> QED BY <1>10, <1>11, InvParts1 DEF StepOK

\* An instruction that changes only the bank, and no share and no debt.
LEMMA BankOnlyStep ==
  ASSUME LedgerInv, RestOK', balances' = balances, now <= now', bank' \in BankRecords,
         bank'.total_asset_shares = bank.total_asset_shares,
         bank'.total_liability_shares = bank.total_liability_shares,
         bank'.liability_share_value >= bank.liability_share_value,
         bank'.emissions_remaining + vault["emissions"] * ONE
           <= bank.emissions_remaining + vault'["emissions"] * ONE,
         bank'.last_update <= now'
  PROVE  StepOK
<1>1. RestOK /\ LedgerOK(Accounts, bank, balances, vault["emissions"] * ONE, now)  BY InvParts
<1>2. vault["emissions"] * ONE \in Nat /\ now \in Nat  BY <1>1, EmissionsUnits DEF RestOK
<1>3. vault'["emissions"] * ONE \in Nat /\ now' \in Nat
  <2>1. vault'["emissions"] \in Nat /\ now' \in Nat  BY DEF RestOK, Vaults
  <2> QED BY <2>1, NatProduct, OneAssumption
<1>4. LedgerOK(Accounts, bank', balances, vault'["emissions"] * ONE, now')
  BY <1>1, <1>2, <1>3, ChangeBankOK, AccountsFinite
<1> QED BY <1>4, InvParts1 DEF StepOK

\* The bank as it is.
LEMMA BankNats ==
  ASSUME LedgerInv
  PROVE  /\ RestOK /\ bank \in BankRecords /\ now \in Nat
         /\ bank.emissions_remaining \in Nat /\ bank.liability_share_value \in Nat
         /\ bank.last_update \in Nat /\ bank.last_update <= now
         /\ vault["emissions"] \in Nat /\ vault["emissions"] * ONE \in Nat
<1>1. RestOK /\ LedgerOK(Accounts, bank, balances, vault["emissions"] * ONE, now)  BY InvParts
<1> QED BY <1>1, EmissionsUnits DEF RestOK, LedgerOK, BankRecords

\* An instruction that leaves the bank and the emissions vault alone.
LEMMA SameBankStep ==
  ASSUME LedgerInv, RestOK', UNCHANGED <<bank, balances>>, now <= now',
         vault'["emissions"] = vault["emissions"]
  PROVE  StepOK
<1>1. RestOK /\ bank \in BankRecords /\ now \in Nat
      /\ bank.emissions_remaining \in Nat /\ bank.liability_share_value \in Nat
      /\ bank.last_update \in Nat /\ bank.last_update <= now /\ vault["emissions"] * ONE \in Nat
  BY BankNats
<1>2. now' \in Nat  BY DEF RestOK
<1>3. bank.last_update <= now'  BY <1>1, <1>2
<1>4. bank.emissions_remaining + vault["emissions"] * ONE
        <= bank.emissions_remaining + vault["emissions"] * ONE
  BY <1>1
<1>5. bank.liability_share_value >= bank.liability_share_value  BY <1>1
<1>6. /\ bank' \in BankRecords /\ bank'.total_asset_shares = bank.total_asset_shares
      /\ bank'.total_liability_shares = bank.total_liability_shares /\ balances' = balances
      /\ bank'.liability_share_value >= bank.liability_share_value
      /\ bank'.emissions_remaining + vault["emissions"] * ONE
           <= bank.emissions_remaining + vault'["emissions"] * ONE
      /\ bank'.last_update <= now'
  BY <1>1, <1>3, <1>4, <1>5
<1> QED BY <1>6, BankOnlyStep

\* lending_pool_accrue_bank_interest keeps the invariant.
LEMMA AccrueStep ==
  ASSUME LedgerInv, LendingPoolAccrueBankInterest
  PROVE  StepOK
<1>1. /\ RestOK /\ now \in Nat /\ bank.emissions_remaining \in Nat /\ vault["emissions"] * ONE \in Nat
  BY BankNats
<1>2. AccrualOK(bank, Accrued, now)  BY AccruedOK
<1>3. bank' = Accrued /\ UNCHANGED <<balances, vault, disabled, group, now>>
  BY DEF LendingPoolAccrueBankInterest
<1>4. RestOK' /\ now <= now' /\ balances' = balances  BY <1>1, <1>3 DEF RestOK
<1>5. bank'.emissions_remaining + vault["emissions"] * ONE
        <= bank.emissions_remaining + vault'["emissions"] * ONE
  <2>1. bank'.emissions_remaining = bank.emissions_remaining /\ vault' = vault
    BY <1>2, <1>3 DEF AccrualOK
  <2> QED BY <1>1, <2>1
<1>6. /\ bank' \in BankRecords /\ bank'.total_asset_shares = bank.total_asset_shares
      /\ bank'.total_liability_shares = bank.total_liability_shares
      /\ bank'.liability_share_value >= bank.liability_share_value
      /\ bank'.last_update <= now'
  BY <1>1, <1>2, <1>3 DEF AccrualOK
<1> QED BY <1>4, <1>5, <1>6, BankOnlyStep

\* Withdrawals from the fee vaults, donations, and everything else that moves
\* only tokens.
LEMMA TokensOnlyStep ==
  ASSUME LedgerInv, NEW from \in {"liquidity", "insurance", "fee", "outside"},
         NEW to \in {"liquidity", "insurance", "fee", "outside"}, from # to,
         NEW amount \in Nat, Transfer(from, to, amount),
         UNCHANGED <<bank, balances, disabled, group, now>>
  PROVE  StepOK
<1>1. RestOK /\ now \in Nat  BY BankNats
<1>2. disabled' \in SUBSET Accounts /\ group' = group /\ now' = now /\ now <= now'
  BY <1>1 DEF RestOK
<1>3. RestOK' /\ vault'["emissions"] = vault["emissions"]  BY <1>1, <1>2, TokensMoved
<1> QED BY <1>2, <1>3, SameBankStep

\* Steps that touch neither the bank nor a balance keep the invariant: a
\* bankruptcy in another bank, propagate_fee, the clock.
LEMMA RestOnlyStep ==
  ASSUME LedgerInv, \/ \E a \in Accounts : DisabledElsewhere(a)
                    \/ \E g \in GroupConfigs : ChangeGroupFees(g)
                    \/ Tick
  PROVE  StepOK
<1>1. RestOK /\ now \in Nat  BY BankNats
<1>2. RestOK' /\ now <= now' /\ UNCHANGED <<bank, balances, vault>>
  <2>1. CASE \E a \in Accounts : DisabledElsewhere(a)
    BY <1>1, <2>1 DEF DisabledElsewhere, RestOK
  <2>2. CASE \E g \in GroupConfigs : ChangeGroupFees(g)
    BY <1>1, <2>2, LedgerAssumption DEF ChangeGroupFees, RestOK
  <2>3. CASE Tick  BY <1>1, <2>3 DEF Tick, RestOK
  <2> QED BY <2>1, <2>2, <2>3
<1>3. vault'["emissions"] = vault["emissions"]  BY <1>2
<1> QED BY <1>2, <1>3, SameBankStep

\* lending_pool_configure_bank keeps the invariant.
LEMMA ConfigureStep ==
  ASSUME LedgerInv, NEW config \in BankConfigs, NEW permissionless \in BOOLEAN,
         LendingPoolConfigureBank(config, permissionless)
  PROVE  StepOK
<1>1. /\ RestOK /\ bank \in BankRecords /\ now \in Nat /\ bank.emissions_remaining \in Nat
      /\ bank.liability_share_value \in Nat /\ bank.last_update <= now
      /\ vault["emissions"] * ONE \in Nat
  BY BankNats
<1>2. bank' = Configure(bank, config, permissionless)
      /\ UNCHANGED <<balances, vault, disabled, group, now>>
  BY DEF LendingPoolConfigureBank
<1>3. bank' \in BankRecords /\ SameShares(bank, bank')  BY <1>1, <1>2, ConfigureOK
<1>4. RestOK' /\ now <= now' /\ balances' = balances /\ vault' = vault /\ now' = now
  BY <1>1, <1>2 DEF RestOK
<1>5. /\ bank'.emissions_remaining + vault["emissions"] * ONE
            <= bank.emissions_remaining + vault'["emissions"] * ONE
      /\ bank'.liability_share_value >= bank.liability_share_value
      /\ bank'.last_update <= now'
  BY <1>1, <1>3, <1>4 DEF SameShares
<1> QED BY <1>3, <1>4, <1>5, BankOnlyStep DEF SameShares

\* What is promised is transferred to the emissions vault first.
LEMMA FundEmissionsStep ==
  ASSUME LedgerInv, NEW flags \in SUBSET BankFlags, NEW rate \in Nat, NEW total \in Nat,
         \/ LendingPoolSetupEmissions(flags, rate, total)
         \/ LendingPoolUpdateEmissionsParameters(flags, rate, total)
  PROVE  StepOK
<1>1. /\ RestOK /\ bank \in BankRecords /\ now \in Nat /\ bank.emissions_remaining \in Nat
      /\ bank.liability_share_value \in Nat /\ bank.last_update <= now
      /\ vault["emissions"] \in Nat /\ vault["emissions"] * ONE \in Nat
  BY BankNats
<1>2. /\ Transfer("emissions_outside", "emissions", total)
      /\ UNCHANGED <<balances, disabled, group, now>>
  BY DEF LendingPoolSetupEmissions, LendingPoolUpdateEmissionsParameters
<1>3. vault' \in [Vaults -> Nat] /\ vault'["emissions"] = vault["emissions"] + total
  <2>1. "emissions" \in Vaults /\ "emissions_outside" \in Vaults  BY DEF Vaults
  <2>2. vault \in [Vaults -> Nat]  BY <1>1 DEF RestOK
  <2> QED BY <1>2, <2>1, <2>2, TransferOK
<1>4. vault'["emissions"] * ONE = vault["emissions"] * ONE + total * ONE /\ total * ONE \in Nat
  <2> DEFINE x == vault["emissions"]
  <2>1. x \in Nat /\ ONE \in Nat /\ vault'["emissions"] = x + total  BY <1>1, <1>3, OneAssumption
  <2> HIDE DEF x
  <2>2. (x + total) * ONE = x * ONE + total * ONE /\ total * ONE \in Nat  BY <2>1, NatProduct
  <2> QED BY <2>1, <2>2 DEF x
<1> DEFINE m == total * ONE
           r == bank.emissions_remaining + m
           c == [bank EXCEPT !.emissions_mint_set = TRUE, !.flags = flags,
                             !.emissions_rate = rate, !.emissions_remaining = m]
           d == [bank EXCEPT !.flags = flags, !.emissions_rate = rate, !.emissions_remaining = r]
<1>5. bank' = c \/ bank' = d
  BY DEF LendingPoolSetupEmissions, LendingPoolUpdateEmissionsParameters
<1>6. m \in Nat /\ r \in Nat /\ m <= r  BY <1>1, <1>4
<1>7. RestOK' /\ now <= now' /\ balances' = balances /\ now' = now
  BY <1>1, <1>2, <1>3 DEF RestOK
<1> HIDE DEF m, r
<1>8. /\ bank' \in BankRecords /\ bank'.emissions_remaining \in {m, r}
      /\ bank'.total_asset_shares = bank.total_asset_shares
      /\ bank'.total_liability_shares = bank.total_liability_shares
      /\ bank'.liability_share_value = bank.liability_share_value
      /\ bank'.last_update = bank.last_update
  <2>1. CASE bank' = c  BY Zenon, <1>1, <1>6, <2>1 DEF BankRecords
  <2>2. CASE bank' = d  BY Zenon, <1>1, <1>6, <2>2 DEF BankRecords
  <2> QED BY <1>5, <2>1, <2>2
<1> HIDE DEF c, d
<1>9. bank'.emissions_remaining + vault["emissions"] * ONE
        <= bank.emissions_remaining + vault'["emissions"] * ONE
  <2>1. vault'["emissions"] * ONE = vault["emissions"] * ONE + m /\ r = bank.emissions_remaining + m
    BY <1>4 DEF m, r
  <2>2. bank'.emissions_remaining <= r  BY <1>6, <1>8
  <2> QED BY <1>1, <1>6, <1>8, <2>1, <2>2
<1>10. bank'.liability_share_value >= bank.liability_share_value /\ bank'.last_update <= now'
  BY <1>1, <1>7, <1>8
<1> QED BY <1>7, <1>8, <1>9, <1>10, BankOnlyStep

\* What is collected was outstanding and is in the vault.
LEMMA CollectableOK ==
  ASSUME NEW outstanding \in Nat, NEW available \in Nat
  PROVE  LET n == Collectable(outstanding, available)
         IN  n \in Nat /\ n <= available /\ outstanding - n * ONE \in Nat
<1> DEFINE x == Least(outstanding, available * ONE)
           n == x \div ONE
<1>0. ONE \in Nat \ {0}  BY OneAssumption
<1>1. available * ONE \in Nat  BY <1>0, NatProduct
<1>2. x \in Nat /\ x <= outstanding /\ x <= available * ONE  BY <1>1 DEF Least
<1> HIDE DEF x
<1>3. n \in Nat /\ ONE * n <= x  BY <1>0, <1>2, DivBounds
<1> HIDE DEF n
<1>4. n * ONE = ONE * n /\ n * ONE \in Nat  BY <1>0, <1>3, NatProduct
<1>5. outstanding - n * ONE \in Nat  BY <1>2, <1>3, <1>4
<1>6. n <= available
  <2>1. SUFFICES ASSUME n > available PROVE FALSE  BY <1>3
  <2>2. PICK k \in Nat : n = available + 1 + k
    <3>1. n - available - 1 \in Nat /\ n = available + 1 + (n - available - 1)  BY <1>3, <2>1
    <3> QED BY <3>1
  <2>3. n * ONE = available * ONE + ONE + k * ONE
    <3>1. n * ONE = (available + 1 + k) * ONE  BY <2>2
    <3> QED BY <1>0, <3>1
  <2>4. k * ONE \in Nat  BY <1>0, NatProduct
  <2> QED BY <1>0, <1>1, <1>2, <1>3, <1>4, <2>3, <2>4
<1> QED BY <1>3, <1>5, <1>6 DEF Collectable, FloorTokens, x, n

\* lending_pool_collect_bank_fees keeps the invariant.
LEMMA CollectFeesStep ==
  ASSUME LedgerInv, LendingPoolCollectBankFees
  PROVE  StepOK
<1>1. /\ RestOK /\ bank \in BankRecords /\ now \in Nat /\ bank.emissions_remaining \in Nat
      /\ bank.liability_share_value \in Nat /\ bank.last_update <= now
      /\ vault["emissions"] * ONE \in Nat
  BY BankNats
<1> DEFINE L == vault["liquidity"]
           ins == Collectable(bank.collected_insurance_fees_outstanding, L)
           fee == Collectable(bank.collected_group_fees_outstanding, L - ins)
           prog == Collectable(bank.collected_program_fees_outstanding, L - ins - fee)
           i1 == bank.collected_insurance_fees_outstanding - ins * ONE
           g1 == bank.collected_group_fees_outstanding - fee * ONE
           p1 == bank.collected_program_fees_outstanding - prog * ONE
           l1 == L - ins - fee - prog
           vi == vault["insurance"] + ins
           vf == vault["fee"] + fee
           vo == vault["outside"] + prog
<1>2. /\ bank' = [bank EXCEPT !.collected_insurance_fees_outstanding = i1,
                              !.collected_group_fees_outstanding = g1,
                              !.collected_program_fees_outstanding = p1]
      /\ vault' = [vault EXCEPT !["liquidity"] = l1, !["insurance"] = vi,
                                !["fee"] = vf, !["outside"] = vo]
      /\ UNCHANGED <<balances, disabled, group, now>>
  BY DEF LendingPoolCollectBankFees
<1>3. /\ L \in Nat /\ vault["insurance"] \in Nat /\ vault["fee"] \in Nat /\ vault["outside"] \in Nat
      /\ bank.collected_insurance_fees_outstanding \in Nat
      /\ bank.collected_group_fees_outstanding \in Nat
      /\ bank.collected_program_fees_outstanding \in Nat
  BY <1>1 DEF RestOK, Vaults, BankRecords
<1> HIDE DEF L
<1>4. ins \in Nat /\ ins <= L /\ i1 \in Nat  BY Zenon, <1>3, CollectableOK
<1> HIDE DEF ins, i1
<1>5. L - ins \in Nat  BY <1>3, <1>4
<1>6. fee \in Nat /\ fee <= L - ins /\ g1 \in Nat  BY Zenon, <1>3, <1>5, CollectableOK
<1> HIDE DEF fee, g1
<1>7. L - ins - fee \in Nat  BY <1>3, <1>4, <1>6
<1>8. prog \in Nat /\ prog <= L - ins - fee /\ p1 \in Nat  BY Zenon, <1>3, <1>7, CollectableOK
<1> HIDE DEF prog, p1
<1>9. l1 \in Nat /\ vi \in Nat /\ vf \in Nat /\ vo \in Nat  BY <1>3, <1>4, <1>6, <1>8
<1> HIDE DEF l1, vi, vf, vo
<1>10. vault' \in [Vaults -> Nat] /\ vault'["emissions"] = vault["emissions"]
  BY <1>1, <1>2, <1>9 DEF RestOK, Vaults
<1>11. bank' \in BankRecords /\ SameShares(bank, bank')
  BY Zenon, <1>1, <1>2, <1>4, <1>6, <1>8 DEF BankRecords, SameShares
<1>12. RestOK' /\ now <= now' /\ balances' = balances /\ now' = now
  BY <1>1, <1>2, <1>10 DEF RestOK
<1>13. /\ bank'.emissions_remaining + vault["emissions"] * ONE
            <= bank.emissions_remaining + vault'["emissions"] * ONE
       /\ bank'.liability_share_value >= bank.liability_share_value
       /\ bank'.last_update <= now'
  BY <1>1, <1>10, <1>11, <1>12 DEF SameShares
<1> QED BY <1>11, <1>12, <1>13, BankOnlyStep DEF SameShares

\* The wrapper from which a bankruptcy repays the debt: the loss is already
\* spread over the depositors.
Socialized(a) == [bank |-> SocializeLoss(Accrued, SocializedLoss(a)), balance |-> balances[a]]

\* The loss is not negative and leaves a well-formed bank.
LEMMA SocializedOK ==
  ASSUME LedgerInv, NEW a \in Accounts, LendingPoolHandleBankruptcy(a)
  PROVE  /\ WrapperOK(Socialized(a), now) /\ Socialized(a).balance = balances[a]
         /\ LedgerOK(Accounts, Socialized(a).bank, balances, vault["emissions"] * ONE, now)
         /\ Socialized(a).bank.total_asset_shares = Accrued.total_asset_shares
         /\ Socialized(a).bank.total_liability_shares = Accrued.total_liability_shares
         /\ Socialized(a).bank.liability_share_value = Accrued.liability_share_value
         /\ Socialized(a).bank.config = Accrued.config
         /\ Socialized(a).bank.asset_share_value
              = Div(TotalAssets(Accrued) - SocializedLoss(a), Accrued.total_asset_shares)
         /\ BadDebt(a) \in Nat /\ CoveredByInsurance(a) \in Nat /\ SocializedLoss(a) \in Nat
         /\ IncreaseAllowed(Socialized(a), BadDebt(a), "RepayOnly")
         /\ Store(a, IncreaseBalance(Socialized(a), BadDebt(a), now))
<1> DEFINE e == vault["emissions"] * ONE
           loss == SocializedLoss(a)
           c == SocializeLoss(Accrued, loss)
           w == Socialized(a)
<1>1. /\ RestOK /\ now \in Nat /\ e \in Nat /\ vault["insurance"] \in Nat
  <2>1. RestOK /\ now \in Nat /\ e \in Nat  BY BankNats
  <2> QED BY <2>1 DEF RestOK, Vaults
<1>2. /\ LedgerOK(Accounts, Accrued, balances, e, now) /\ WrapperOK(Found(a), now)
  BY AccruedOK, FoundOK
<1> HIDE DEF e
<1>4. BadDebt(a) \in Nat  BY <1>1, <1>2, AmountsNat DEF BadDebt
<1>5. CoveredByInsurance(a) \in Nat /\ CoveredByInsurance(a) <= BadDebt(a)
  <2>1. vault["insurance"] * ONE \in Nat  BY <1>1, NatProduct, OneAssumption
  <2> QED BY <1>4, <2>1 DEF CoveredByInsurance, Least
<1>6. loss \in Nat  BY <1>4, <1>5 DEF SocializedLoss
<1>7. [Found(a) EXCEPT !.bank = c] = w  BY DEF Found, Socialized
<1>8. /\ Accrued.total_asset_shares > 0 /\ loss <= TotalAssets(Accrued)
      /\ IncreaseAllowed(w, BadDebt(a), "RepayOnly")
      /\ Store(a, IncreaseBalance(w, BadDebt(a), now))
  BY <1>7 DEF LendingPoolHandleBankruptcy
<1>9. w.bank = c /\ w.balance = balances[a]  BY DEF Socialized
<1>10. c.asset_share_value > 0
  <2> HIDE DEF w, c
  <2> QED BY <1>8, <1>9 DEF IncreaseAllowed
<1> HIDE DEF loss
<1>11. /\ LedgerOK(Accounts, c, balances, e, now)
       /\ c.total_asset_shares = Accrued.total_asset_shares
       /\ c.total_liability_shares = Accrued.total_liability_shares
       /\ c.liability_share_value = Accrued.liability_share_value
       /\ c.config = Accrued.config
       /\ c.asset_share_value = Div(TotalAssets(Accrued) - loss, Accrued.total_asset_shares)
  <2>1. Accrued.total_asset_shares > 0 /\ loss <= TotalAssets(Accrued)  BY <1>8
  <2>2. /\ LedgerOK(Accounts, Accrued, balances, e, now) /\ now \in Nat /\ e \in Nat
    BY <1>1, <1>2
  <2> QED BY <1>6, <1>10, <2>1, <2>2, SocializedLedger, AccountsFinite
<1> HIDE DEF c
<1>12. WrapperOK(w, now)  BY <1>11, WrapOK, AccountsFinite DEF Socialized, c, loss
<1> HIDE DEF w
<1> QED BY Zenon, <1>4, <1>5, <1>6, <1>8, <1>9, <1>11, <1>12 DEF w, loss, e

\* lending_pool_handle_bankruptcy keeps the invariant.
LEMMA HandleBankruptcyStep ==
  ASSUME LedgerInv, NEW a \in Accounts, LendingPoolHandleBankruptcy(a)
  PROVE  StepOK
<1> DEFINE e == vault["emissions"] * ONE
           w == Socialized(a)
           c == w.bank
           v == IncreaseBalance(w, BadDebt(a), now)
           paid == CeilTokens(CoveredByInsurance(a))
<1>1. RestOK /\ now \in Nat /\ e \in Nat  BY BankNats
<1>2. /\ WrapperOK(w, now) /\ LedgerOK(Accounts, c, balances, e, now)
      /\ w = [bank |-> c, balance |-> balances[a]]
      /\ c.liability_share_value = Accrued.liability_share_value
      /\ BadDebt(a) \in Nat /\ CoveredByInsurance(a) \in Nat /\ Store(a, v)
  BY SocializedOK DEF WrapperOK
<1>3. AccrualOK(bank, Accrued, now)  BY AccruedOK
<1>4. paid \in Nat  BY <1>2, RoundingNat
<1>5. /\ Transfer("insurance", "liquidity", paid)
      /\ disabled' = disabled \cup {a} /\ UNCHANGED <<group, now>>
  BY DEF LendingPoolHandleBankruptcy
<1> HIDE DEF e, w, paid
<1>6. WrapperOK(v, now) /\ Conserves(w, v)  BY <1>1, <1>2, IncreaseBalanceOK
<1> HIDE DEF v
<1>7. LedgerOK(Accounts, v.bank, [balances EXCEPT ![a] = v.balance], e, now)
  BY <1>1, <1>2, <1>6, StoreSame, AccountsFinite
<1>8. disabled' \in SUBSET Accounts /\ group' = group /\ now' = now  BY <1>1, <1>5 DEF RestOK
<1>9. RestOK' /\ vault'["emissions"] = vault["emissions"]  BY <1>1, <1>4, <1>5, <1>8, TokensMoved
<1>10. LedgerOK(Accounts, bank', balances', vault'["emissions"] * ONE, now')
  BY <1>2, <1>7, <1>8, <1>9 DEF Store, e
<1>11. bank'.liability_share_value = Accrued.liability_share_value
  BY <1>2, <1>6 DEF Conserves, Store
<1>12. bank'.liability_share_value >= bank.liability_share_value  BY <1>3, <1>11 DEF AccrualOK
<1> QED BY <1>9, <1>10, <1>12, InvParts1 DEF StepOK

\* lending_account_liquidate, seen from the bank of the collateral, keeps the
\* invariant.
LEMMA LiquidateAssetStep ==
  ASSUME LedgerInv, NEW liquidator \in Accounts, NEW liquidatee \in Accounts, NEW amount \in Nat,
         LiquidateAsset(liquidator, liquidatee, amount)
  PROVE  StepOK
<1> DEFINE e == vault["emissions"] * ONE
           n == amount * ONE
<1>1. RestOK /\ now \in Nat /\ e \in Nat /\ n \in Nat
  BY BankNats, NatProduct, OneAssumption
<1>2. LedgerOK(Accounts, Accrued, balances, e, now) /\ AccrualOK(bank, Accrued, now)  BY AccruedOK
<1>3. /\ bank' = Bought(Accrued, balances, liquidatee, liquidator, n, now).bank
      /\ balances' = SeizedBalances(Accrued, balances, liquidatee, liquidator, n, now)
  BY DEF LiquidateAsset, SeizedBalances, Seized, Bought, Found
<1>4. liquidator # liquidatee /\ UNCHANGED <<vault, disabled, group, now>>  BY DEF LiquidateAsset
<1> HIDE DEF e, n
<1>5. /\ LedgerOK(Accounts, bank', balances', e, now)
      /\ bank'.liability_share_value = Accrued.liability_share_value
  BY <1>1, <1>2, <1>3, <1>4, SeizedLedger, AccountsFinite
<1>6. LedgerOK(Accounts, bank', balances', vault'["emissions"] * ONE, now') /\ RestOK'
  BY <1>1, <1>4, <1>5 DEF RestOK, e
<1>7. bank'.liability_share_value >= bank.liability_share_value
  BY <1>2, <1>5 DEF AccrualOK
<1> QED BY <1>6, <1>7, InvParts1 DEF StepOK

\* lending_account_liquidate, seen from the bank of the debt, keeps the
\* invariant.
LEMMA LiquidateLiabilityStep ==
  ASSUME LedgerInv, NEW liquidator \in Accounts, NEW liquidatee \in Accounts,
         NEW q_l \in Nat, NEW q_f \in Nat,
         LiquidateLiability(liquidator, liquidatee, q_l, q_f)
  PROVE  StepOK
<1> DEFINE e == vault["emissions"] * ONE
           ifee == q_l - q_f
           dust == ifee % ONE
           tokens == FloorTokens(ifee)
<1>1. RestOK /\ now \in Nat /\ e \in Nat  BY BankNats
<1>2. LedgerOK(Accounts, Accrued, balances, e, now) /\ AccrualOK(bank, Accrued, now)  BY AccruedOK
<1>3. /\ bank' = RelievedBank(Accrued, balances, liquidatee, liquidator, q_l, q_f, dust, now)
      /\ balances' = RelievedBalances(Accrued, balances, liquidatee, liquidator, q_l, q_f, now)
  BY DEF LiquidateLiability, InsuranceFeeDust, RelievedBank, RelievedBalances, Paid, Relieved,
     FoundOrCreated
<1>4. /\ liquidator # liquidatee /\ q_l >= q_f
      /\ Transfer("liquidity", "insurance", tokens) /\ UNCHANGED <<disabled, group, now>>
  BY DEF LiquidateLiability
<1> HIDE DEF e
<1>5. dust \in Nat /\ tokens \in Nat
  <2>1. ifee \in Nat /\ ONE \in Nat \ {0}  BY <1>4, OneAssumption
  <2> HIDE DEF ifee
  <2> QED BY <2>1, RoundingNat
<1> HIDE DEF dust, tokens
<1>6. /\ LedgerOK(Accounts, bank', balances', e, now)
      /\ bank'.liability_share_value = Accrued.liability_share_value
  BY <1>1, <1>2, <1>3, <1>4, <1>5, RelievedLedger, AccountsFinite
<1>7. disabled' \in SUBSET Accounts /\ group' = group /\ now' = now  BY <1>1, <1>4 DEF RestOK
<1>8. RestOK' /\ vault'["emissions"] = vault["emissions"]  BY <1>1, <1>4, <1>5, <1>7, TokensMoved
<1>9. LedgerOK(Accounts, bank', balances', vault'["emissions"] * ONE, now')
  BY <1>6, <1>7, <1>8 DEF e
<1>10. bank'.liability_share_value >= bank.liability_share_value  BY <1>2, <1>6 DEF AccrualOK
<1> QED BY <1>8, <1>9, <1>10, InvParts1 DEF StepOK

-----------------------------------------------------------------------------
(* The theorems.                                                           *)

\* A bank that lending_pool_add_bank just created satisfies the invariant.
LEMMA InitOK == Init => LedgerInv
<1> SUFFICES ASSUME Init PROVE LedgerInv  OBVIOUS
<1>0. ONE \in Nat \ {0} /\ NumAccounts \in Nat /\ Supply \in Nat /\ EmissionsSupply \in Nat
      /\ Configs \subseteq BankConfigs /\ GroupConfigs \subseteq MarginfiGroups
  BY OneAssumption, LedgerAssumption
<1>1. RestOK
  <2>1. vault \in [Vaults -> Nat]  BY <1>0 DEF Init, Vaults
  <2> QED BY <1>0, <2>1 DEF Init, RestOK
<1>2. PICK config \in Configs : bank = BankNew(config, 0)  BY DEF Init
<1>3. config \in BankConfigs /\ vault["emissions"] * ONE \in Nat  BY <1>0, <1>1, EmissionsUnits
<1>4. balances = [a \in Accounts |-> EmptyDeactivated] /\ now = 0  BY DEF Init
<1>5. LedgerOK(Accounts, bank, balances, vault["emissions"] * ONE, now)
  BY <1>2, <1>3, <1>4, EmptyLedger, AccountsFinite
<1> QED BY <1>1, <1>5, InvParts

\* Every instruction keeps the invariant and the value of debt.
LEMMA NextOK ==
  ASSUME LedgerInv, Next
  PROVE  StepOK
<1>0. /\ Amounts \subseteq Nat /\ Quantities \subseteq Nat /\ EmissionRates \subseteq Nat
      /\ Donations \subseteq Nat /\ Configs \subseteq BankConfigs /\ BadDebtFlags \subseteq BOOLEAN
  BY LedgerAssumption
<1>1. ASSUME NEW a \in Accounts, AccountStep(a) PROVE StepOK
  <2>1. CASE \E amount \in Amounts : \/ LendingAccountDeposit(a, amount)
                                      \/ LendingAccountRepay(a, amount)
                                      \/ LendingAccountWithdraw(a, amount)
                                      \/ LendingAccountBorrow(a, amount)
    BY <1>0, <2>1, LendingAccountDepositStep, LendingAccountRepayStep, LendingAccountWithdrawStep,
       LendingAccountBorrowStep
  <2>2. CASE LendingAccountRepayAll(a)  BY <2>2, LendingAccountRepayAllStep
  <2>3. CASE LendingAccountWithdrawAll(a)  BY <2>3, LendingAccountWithdrawAllStep
  <2>4. CASE LendingAccountCloseBalance(a)  BY <2>4, LendingAccountCloseBalanceStep
  <2>5. CASE MarginfiAccountClose(a)  BY <2>5, MarginfiAccountCloseStep
  <2>6. CASE LendingAccountWithdrawEmissions(a)  BY <2>6, LendingAccountWithdrawEmissionsStep
  <2>7. CASE LendingAccountSettleEmissions(a)  BY <2>7, LendingAccountSettleEmissionsStep
  <2>8. CASE LendingPoolHandleBankruptcy(a)  BY <2>8, HandleBankruptcyStep
  <2>9. CASE DisabledElsewhere(a)  BY <2>9, RestOnlyStep
  <2> QED BY <1>1, <2>1, <2>2, <2>3, <2>4, <2>5, <2>6, <2>7, <2>8, <2>9 DEF AccountStep
<1>2. ASSUME NEW a \in Accounts, NEW b \in Accounts, LiquidationStep(a, b) PROVE StepOK
  BY <1>0, <1>2, LiquidateAssetStep, LiquidateLiabilityStep DEF LiquidationStep
<1>3. CASE PoolStep
  <2>1. CASE LendingPoolAccrueBankInterest  BY <2>1, AccrueStep
  <2>2. CASE LendingPoolCollectBankFees  BY <2>2, CollectFeesStep
  <2>3. CASE \E amount \in Amounts : \/ LendingPoolWithdrawFees(amount)
                                      \/ LendingPoolWithdrawInsurance(amount)
    BY <1>0, <2>3, TokensOnlyStep DEF LendingPoolWithdrawFees, LendingPoolWithdrawInsurance
  <2>4. CASE \E v \in {"liquidity", "insurance", "fee"}, amount \in Donations : Donate(v, amount)
    BY <1>0, <2>4, TokensOnlyStep DEF Donate
  <2>5. CASE \E config \in Configs, permissionless \in BadDebtFlags :
               LendingPoolConfigureBank(config, permissionless)
    BY <1>0, <2>5, ConfigureStep
  <2>6. CASE \E rate \in EmissionRates, amount \in Amounts :
               \/ \E flags \in SUBSET EmissionFlags : LendingPoolSetupEmissions(flags, rate, amount)
               \/ \E flags \in SUBSET BankFlags :
                    LendingPoolUpdateEmissionsParameters(flags, rate, amount)
    <3>1. EmissionFlags \subseteq BankFlags  BY DEF BankFlags
    <3> QED BY <1>0, <2>6, <3>1, FundEmissionsStep
  <2>7. CASE \E g \in GroupConfigs : ChangeGroupFees(g)  BY <2>7, RestOnlyStep
  <2> QED BY <1>3, <2>1, <2>2, <2>3, <2>4, <2>5, <2>6, <2>7 DEF PoolStep
<1>4. CASE Tick  BY <1>4, RestOnlyStep
<1> QED BY <1>1, <1>2, <1>3, <1>4 DEF Next

\* So does a step that changes nothing.
LEMMA StutterOK ==
  ASSUME LedgerInv, UNCHANGED vars
  PROVE  LedgerInv'
BY DEF LedgerInv, vars, TypeOK, SharesBacked, OneSided, EmissionsFunded, TimesPast, AssetShares,
       LiabilityShares

\* The invariant of the ledger: types, shares, emissions and clocks.
THEOREM LedgerInvariant == Spec => []LedgerInv
<1>1. LedgerInv /\ [Next]_vars => LedgerInv'  BY NextOK, StutterOK DEF StepOK
<1> QED BY <1>1, InitOK, PTL DEF Spec

\* Type correctness: no share total, fee counter, share value, emission pool
\* or token account ever becomes negative, whatever the instructions round.
THEOREM TypeCorrect == Spec => []TypeOK
<1>1. LedgerInv => TypeOK  BY DEF LedgerInv
<1> QED BY <1>1, LedgerInvariant, PTL

\* The totals of the bank cover the shares of all balances.
THEOREM SharesAlwaysBacked == Spec => []SharesBacked
<1>1. LedgerInv => SharesBacked  BY DEF LedgerInv
<1> QED BY <1>1, LedgerInvariant, PTL

\* The assertion of Balance::get_side never fires: no history of roundings
\* gives a balance a whole share on both sides, at any share values.
THEOREM SidesAlwaysOne == Spec => []OneSided
<1>1. LedgerInv => OneSided  BY DEF LedgerInv
<1> QED BY <1>1, LedgerInvariant, PTL

\* The emissions vault covers everything promised and earned.
THEOREM EmissionsAlwaysFunded == Spec => []EmissionsFunded
<1>1. LedgerInv => EmissionsFunded  BY DEF LedgerInv
<1> QED BY <1>1, LedgerInvariant, PTL

\* No instruction lowers the value of a liability share.
THEOREM DebtNeverForgiven == Spec => DebtNeverShrinks
<1>1. LedgerInv /\ [Next]_vars => [bank'.liability_share_value >= bank.liability_share_value]_vars
  BY NextOK DEF StepOK
<1> QED BY <1>1, LedgerInvariant, PTL DEF Spec, DebtNeverShrinks

=============================================================================
