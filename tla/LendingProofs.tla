----------------------------- MODULE LendingProofs -----------------------------
(***************************************************************************)
(* Proofs about a group of any number of banks and accounts, and about its *)
(* oracles.  Every bank of a group keeps a sound ledger under every        *)
(* instruction.  A price stays in its band and is rounded down.            *)
(***************************************************************************)
EXTENDS Lending, OracleFeed, BalanceProofs

-----------------------------------------------------------------------------
(* Powers of ten.                                                          *)

\* The powers up to n.
IsPowers(n, g) == /\ g \in [0 .. n -> Nat \ {0}] /\ g[0] = 1
                  /\ \A i \in 1 .. n : g[i] = 10 * g[i - 1]

\* There is such a table for every n.
LEMMA PowersUpTo == \A n \in Nat : \E g : IsPowers(n, g)
<1> DEFINE Bad == {n \in Nat : ~\E g : IsPowers(n, g)}
<1> SUFFICES ASSUME Bad # {} PROVE FALSE  OBVIOUS
<1>1. PICK n \in Bad : \A m \in Bad : ~(m < n)
  <2>1. Bad \subseteq Nat  OBVIOUS
  <2> HIDE DEF Bad
  <2> QED BY Zenon, <2>1, LeastNatural
<1>2. n # 0
  <2>1. IsPowers(0, [i \in 0 .. 0 |-> 1])  BY DEF IsPowers
  <2> QED BY <1>1, <2>1
<1>3. PICK g : IsPowers(n - 1, g)
  <2>1. n - 1 \in Nat /\ n - 1 < n  BY <1>1, <1>2
  <2> QED BY <1>1, <2>1
<1> DEFINE h == [i \in 0 .. n |-> IF i = n THEN 10 * g[n - 1] ELSE g[i]]
<1>4. g[n - 1] \in Nat \ {0} /\ n \in Nat  BY <1>1, <1>2, <1>3 DEF IsPowers
<1>5. 10 * g[n - 1] \in Nat \ {0}  BY <1>4
<1>6. \A i \in 0 .. n - 1 : h[i] = g[i] /\ g[i] \in Nat \ {0}  BY <1>3, <1>4 DEF IsPowers
<1>7. h[n] = 10 * g[n - 1]  BY <1>4
<1>8. h \in [0 .. n -> Nat \ {0}]
  <2>1. \A i \in 0 .. n : i = n \/ i \in 0 .. n - 1  BY <1>4
  <2>2. \A i \in 0 .. n : h[i] \in Nat \ {0}
    <3> HIDE DEF h
    <3> QED BY <1>5, <1>6, <1>7, <2>1
  <2> QED BY <2>2
<1>9. h[0] = 1  BY <1>2, <1>3, <1>4, <1>6 DEF IsPowers
<1>10. \A i \in 1 .. n : h[i] = 10 * h[i - 1]
  <2> TAKE i \in 1 .. n
  <2> HIDE DEF h
  <2>1. CASE i = n  BY <1>2, <1>4, <1>6, <1>7, <2>1
  <2>2. CASE i # n
    <3>1. i \in 1 .. n - 1 /\ i \in 0 .. n - 1 /\ i - 1 \in 0 .. n - 1  BY <1>4, <2>2
    <3>2. g[i] = 10 * g[i - 1]  BY <1>3, <3>1 DEF IsPowers
    <3>3. h[i] = g[i] /\ h[i - 1] = g[i - 1]  BY Zenon, <1>6, <3>1
    <3> QED BY <3>2, <3>3
  <2> QED BY <2>1, <2>2
<1>11. IsPowers(n, h)
  <2> HIDE DEF h
  <2> QED BY <1>8, <1>9, <1>10 DEF IsPowers
<1> QED BY <1>1, <1>11

\* Two tables agree as far as both go.
LEMMA PowersAgree ==
  ASSUME NEW n \in Nat, NEW g, IsPowers(n, g), NEW m \in Nat, NEW h, IsPowers(m, h)
  PROVE  \A i \in Nat : i <= n /\ i <= m => g[i] = h[i]
<1> DEFINE Bad == {i \in Nat : i <= n /\ i <= m /\ g[i] # h[i]}
<1> SUFFICES ASSUME Bad # {} PROVE FALSE  OBVIOUS
<1>1. PICK i \in Bad : \A j \in Bad : ~(j < i)
  <2>1. Bad \subseteq Nat  OBVIOUS
  <2> HIDE DEF Bad
  <2> QED BY Zenon, <2>1, LeastNatural
<1>2. i # 0  BY <1>1 DEF IsPowers
<1>3. i - 1 \in Nat /\ i - 1 < i /\ i - 1 <= n /\ i - 1 <= m /\ i \in 1 .. n /\ i \in 1 .. m
  BY <1>1, <1>2
<1>4. g[i - 1] = h[i - 1]  BY <1>1, <1>3
<1> QED BY <1>1, <1>3, <1>4 DEF IsPowers

\* The recursive function of the powers of ten.
IsPowerTable(h) == h = [n \in Nat |-> IF n = 0 THEN 1 ELSE 10 * h[n - 1]]

\* It exists and its values are positive.
LEMMA PowerTable ==
  ASSUME NEW table, table = CHOOSE h : IsPowerTable(h)
  PROVE  /\ table \in [Nat -> Nat \ {0}]
         /\ table[0] = 1
         /\ \A n \in Nat \ {0} : table[n] = 10 * table[n - 1]
<1> DEFINE G(n) == CHOOSE g : IsPowers(n, g)
           f == [n \in Nat |-> G(n)[n]]
<1>1. \A n \in Nat : IsPowers(n, G(n))  BY PowersUpTo
<1> HIDE DEF G
<1>2. \A n \in Nat : f[n] \in Nat \ {0}  BY <1>1 DEF IsPowers
<1>3. f[0] = 1  BY <1>1 DEF IsPowers
<1>4. \A n \in Nat \ {0} : f[n] = 10 * f[n - 1]
  <2> TAKE n \in Nat \ {0}
  <2>1. n - 1 \in Nat /\ n \in 1 .. n /\ n - 1 <= n /\ n - 1 <= n - 1  OBVIOUS
  <2>2. G(n)[n] = 10 * G(n)[n - 1]  BY <1>1, <2>1 DEF IsPowers
  <2>3. G(n)[n - 1] = G(n - 1)[n - 1]
    <3>1. IsPowers(n, G(n)) /\ IsPowers(n - 1, G(n - 1))  BY <1>1, <2>1
    <3> QED BY <2>1, <3>1, PowersAgree
  <2> QED BY <2>1, <2>2, <2>3
<1>5. IsPowerTable(f)
  <2>1. \A n \in Nat : f[n] = IF n = 0 THEN 1 ELSE 10 * f[n - 1]  BY <1>3, <1>4
  <2>2. f = [n \in Nat |-> f[n]]  OBVIOUS
  <2> HIDE DEF f
  <2> QED BY Zenon, <2>1, <2>2 DEF IsPowerTable
<1> HIDE DEF f
<1>6. IsPowerTable(table)  BY <1>5
<1>7. /\ DOMAIN table = Nat /\ table = [n \in Nat |-> table[n]] /\ table[0] = 1
      /\ \A n \in Nat \ {0} : table[n] = 10 * table[n - 1]
  BY <1>6 DEF IsPowerTable
<1> DEFINE Bad == {n \in Nat : table[n] \notin Nat \ {0}}
<1>8. Bad = {}
  <2> SUFFICES ASSUME Bad # {} PROVE FALSE  BY Zenon
  <2>1. PICK n \in Bad : \A m \in Bad : ~(m < n)
    <3>1. Bad \subseteq Nat  OBVIOUS
    <3> HIDE DEF Bad
    <3> QED BY Zenon, <3>1, LeastNatural
  <2>2. n # 0  BY <1>7, <2>1
  <2>3. n - 1 \in Nat /\ n - 1 < n  BY <2>1, <2>2
  <2>4. table[n - 1] \in Nat \ {0}  BY <2>1, <2>3
  <2>5. table[n] = 10 * table[n - 1]  BY <1>7, <2>1, <2>2
  <2> QED BY <2>1, <2>4, <2>5
<1> QED BY Zenon, <1>7, <1>8

-----------------------------------------------------------------------------
(* Oracle prices.                                                          *)

\* The tables EXP_10 and EXP_10_I80F48 hold the powers of ten.
LEMMA PowerTables ==
  /\ EXP_10 \in [Nat -> Nat \ {0}] /\ EXP_10[0] = 1
  /\ \A n \in Nat \ {0} : EXP_10[n] = 10 * EXP_10[n - 1]
<1>1. EXP_10 = CHOOSE h : IsPowerTable(h)  BY DEF EXP_10, IsPowerTable
<1> QED BY <1>1, PowerTable

\* They are positive.
LEMMA PowersOfTen == EXP_10[0] = 1 /\ \A n \in Nat : EXP_10[n] \in Nat \ {0}
BY PowerTables

\* What a publisher can write for a setup: a SwitchboardDecimal has no
\* negative scale.
FeedFor(setup, f) == f \in FeedRecords /\ (setup = "SwitchboardV2" => f.exponent <= 0)

\* pyth_price_components_to_i80f48 gives no negative number.
LEMMA PythConversionNat ==
  ASSUME NEW mantissa \in Nat, NEW exponent \in Int
  PROVE  PythPriceComponentsToI80F48(mantissa, exponent) \in Nat
<1>1. mantissa * ONE \in Nat  BY NatProduct, OneAssumption
<1>2. CASE exponent < 0
  <2>1. -exponent \in Nat  BY <1>2
  <2>2. EXP_10[-exponent] \in Nat \ {0}  BY <2>1, PowersOfTen
  <2> QED BY <1>1, <1>2, <2>2, DivBounds DEF PythPriceComponentsToI80F48
<1>3. CASE ~(exponent < 0)
  <2>1. EXP_10[exponent] \in Nat  BY <1>3, PowersOfTen
  <2> QED BY <1>1, <1>3, <2>1, NatProduct DEF PythPriceComponentsToI80F48
<1> QED BY <1>2, <1>3

\* swithcboard_decimal_to_i80f48 gives no negative number.
LEMMA SwitchboardConversionNat ==
  ASSUME NEW mantissa \in Nat, NEW scale \in Nat
  PROVE  SwitchboardDecimalToI80F48(mantissa, scale) \in Nat
<1> DEFINE kept == IF scale <= MAX_SCALE THEN scale ELSE MAX_SCALE
<1>1. kept \in Nat /\ scale - kept \in Nat  BY OracleAssumption
<1>2. SwitchboardDecimalToI80F48(mantissa, scale)
        = ((mantissa \div EXP_10[scale - kept]) * ONE) \div EXP_10[kept]
  BY DEF SwitchboardDecimalToI80F48
<1> HIDE DEF kept
<1>3. EXP_10[scale - kept] \in Nat \ {0} /\ EXP_10[kept] \in Nat \ {0}  BY <1>1, PowersOfTen
<1>4. mantissa \div EXP_10[scale - kept] \in Nat  BY <1>3, DivBounds
<1>5. (mantissa \div EXP_10[scale - kept]) * ONE \in Nat  BY <1>4, NatProduct, OneAssumption
<1> QED BY <1>2, <1>3, <1>5, DivBounds

\* No adapter reports a negative price or width.
LEMMA AdapterNat ==
  ASSUME NEW setup, NEW f, FeedFor(setup, f), NEW price_type
  PROVE  /\ GetPrice(setup, f, price_type) \in Nat
         /\ Adapter(setup, f, price_type).width \in Nat
<1>1. /\ f.price \in Nat /\ f.conf \in Nat /\ f.ema_price \in Nat /\ f.ema_conf \in Nat
      /\ f.exponent \in Int
  BY DEF FeedFor, FeedRecords
<1>2. CONF_INTERVAL_MULTIPLE \in Nat /\ STD_DEV_MULTIPLE \in Nat /\ PRECISION \in Nat
  BY OracleAssumption
<1>3. /\ PythLegacyPriceFeed(f, price_type).price \in Nat
      /\ PythLegacyPriceFeed(f, price_type).width \in Nat
  <2> DEFINE mantissa == IF price_type = "TimeWeighted" THEN f.ema_price ELSE f.price
             conf == IF price_type = "TimeWeighted" THEN f.ema_conf ELSE f.conf
  <2>1. mantissa \in Nat /\ conf \in Nat  BY <1>1
  <2>2. /\ PythLegacyPriceFeed(f, price_type).price
             = PythPriceComponentsToI80F48(mantissa, f.exponent)
        /\ PythLegacyPriceFeed(f, price_type).width
             = Mul(PythPriceComponentsToI80F48(conf, f.exponent), CONF_INTERVAL_MULTIPLE)
    BY DEF PythLegacyPriceFeed
  <2> HIDE DEF mantissa, conf
  <2>3. /\ PythPriceComponentsToI80F48(mantissa, f.exponent) \in Nat
        /\ PythPriceComponentsToI80F48(conf, f.exponent) \in Nat
    BY Zenon, <1>1, <2>1, PythConversionNat
  <2> QED BY <1>2, <2>2, <2>3, MulNat
<1>4. CASE setup = "SwitchboardV2"
  <2>1. -f.exponent \in Nat  BY <1>1, <1>4 DEF FeedFor
  <2>2. /\ SwitchboardV2PriceFeed(f).price \in Nat
        /\ SwitchboardV2PriceFeed(f).width \in Nat
    BY Zenon, <1>1, <1>2, <2>1, SwitchboardConversionNat, MulNat DEF SwitchboardV2PriceFeed
  <2> QED BY <1>4, <2>2 DEF GetPrice, Adapter
<1>5. CASE setup \notin PythSetups \cup {"SwitchboardV2"}
  <2>1. EXP_10[PRECISION] \in Nat \ {0} /\ f.price * ONE \in Nat /\ f.conf * ONE \in Nat
    BY <1>1, <1>2, PowersOfTen, NatProduct, OneAssumption
  <2>2. (f.price * ONE) \div EXP_10[PRECISION] \in Nat /\ Mul(f.conf * ONE, STD_DEV_MULTIPLE) \in Nat
    BY Zenon, <1>2, <2>1, DivBounds, MulNat
  <2> QED BY <1>5, <2>2 DEF GetPrice, Adapter, SwitchboardPullPriceFeed, PythSetups
<1>6. CASE setup \in PythSetups
  BY <1>3, <1>6 DEF GetPrice, Adapter, PythPushOraclePriceFeed, PythSetups
<1> QED BY <1>4, <1>5, <1>6

\* The prices the risk engine works with bracket the reported one.
LEMMA BandOK ==
  ASSUME NEW setup, NEW f, FeedFor(setup, f), NEW price_type
  PROVE  LET price == GetPrice(setup, f, price_type)
             low   == GetPriceOfType(setup, f, price_type, "Low")
             high  == GetPriceOfType(setup, f, price_type, "High")
         IN  /\ price \in Nat /\ low \in Nat /\ high \in Nat
             /\ low <= price /\ price <= high
             /\ high - low <= 2 * Mul(price, MAX_CONF_INTERVAL)
<1> DEFINE price == GetPrice(setup, f, price_type)
           width == Adapter(setup, f, price_type).width
           most  == Mul(price, MAX_CONF_INTERVAL)
           conf  == GetConfidenceInterval(setup, f, price_type)
<1>1. price \in Nat /\ width \in Nat  BY AdapterNat
<1>2. most \in Nat /\ most <= price
  <2> HIDE DEF price
  <2> QED BY <1>1, ShareOfFee, OracleAssumption
<1>3. conf = Least(width, most)  BY DEF GetConfidenceInterval
<1>4. /\ GetPriceOfType(setup, f, price_type, "Low") = price - conf
      /\ GetPriceOfType(setup, f, price_type, "High") = price + conf
  BY DEF GetPriceOfType
<1> HIDE DEF price, width, most, conf
<1>5. conf \in Nat /\ conf <= most  BY <1>1, <1>2, <1>3 DEF Least
<1>6. /\ price \in Nat /\ price - conf \in Nat /\ price + conf \in Nat
      /\ price - conf <= price /\ price <= price + conf
      /\ (price + conf) - (price - conf) <= 2 * most
  BY <1>1, <1>2, <1>5
<1> QED BY <1>4, <1>6 DEF price, most

-----------------------------------------------------------------------------
(* The invariant of a group.                                               *)

\* The balances of all accounts in one bank.
Held(b) == [a \in Accounts |-> lending[a][b]]

\* The ledger of one bank, as a condition on its own state.
BookOK(b) == LedgerOK(Accounts, banks[b], Held(b), vaults[b]["emissions"] * ONE, now)

RestOK == /\ vaults \in [Banks -> [Vaults -> Nat]] /\ disabled \in SUBSET Accounts
          /\ risk \in [Banks -> RiskConfigs] /\ oracle \in [Banks -> FeedRecords]
          /\ ChoicesOK /\ now \in Nat

RecordsOK == /\ banks \in [Banks -> BankRecords]
             /\ lending \in [Accounts -> [Banks -> BalanceRecords]]

\* The inductive invariant of a group.
LendingInv == RecordsOK /\ RestOK /\ \A b \in Banks : BookOK(b)

\* There are finitely many accounts.
LEMMA AccountsFinite == IsFiniteSet(Accounts)
<1>1. NumAccounts \in Int /\ 1 \in Int  BY LendingAssumption
<1> QED BY Zenon, <1>1, FS_Interval DEF Accounts

\* Storing a bank and a balance changes nothing of the other banks.
LEMMA StoreHeld ==
  ASSUME RecordsOK, NEW a \in Accounts, NEW b \in Banks, NEW w,
         w.bank \in BankRecords, w.balance \in BalanceRecords, Store(a, b, w)
  PROVE  /\ RecordsOK' /\ banks'[b] = w.bank /\ Held(b)' = [Held(b) EXCEPT ![a] = w.balance]
         /\ \A c \in Banks : c # b => banks'[c] = banks[c] /\ Held(c)' = Held(c)
<1>1. banks' = [banks EXCEPT ![b] = w.bank] /\ lending' = [lending EXCEPT ![a][b] = w.balance]
  BY DEF Store
<1> QED BY Zenon, <1>1 DEF RecordsOK, Held

\* An SPL transfer between two vaults of a bank.
LEMMA TransferOK ==
  ASSUME vaults \in [Banks -> [Vaults -> Nat]], NEW b \in Banks, NEW from \in Vaults,
         NEW to \in Vaults, from # to, NEW amount \in Nat, Transfer(b, from, to, amount)
  PROVE  /\ vaults' \in [Banks -> [Vaults -> Nat]] /\ vaults[b][from] >= amount
         /\ vaults'[b] = [vaults[b] EXCEPT ![from] = @ - amount, ![to] = @ + amount]
         /\ \A c \in Banks : c # b => vaults'[c] = vaults[c]
<1> DEFINE x == vaults[b][from] - amount
           y == vaults[b][to] + amount
<1>1. /\ vaults[b][from] >= amount
      /\ vaults' = [vaults EXCEPT ![b][from] = @ - amount, ![b][to] = @ + amount]
  BY DEF Transfer
<1>2. vaults' = [vaults EXCEPT ![b] = [vaults[b] EXCEPT ![from] = x, ![to] = y]]
  BY Zenon, <1>1
<1>3. vaults[b] \in [Vaults -> Nat] /\ x \in Nat /\ y \in Nat  BY <1>1
<1>4. [vaults[b] EXCEPT ![from] = @ - amount, ![to] = @ + amount]
        = [vaults[b] EXCEPT ![from] = x, ![to] = y]
  BY <1>3
<1> HIDE DEF x, y
<1> QED BY <1>1, <1>2, <1>3, <1>4

\* The emissions vault of a bank in units.
LEMMA EmissionsUnits ==
  ASSUME RestOK, NEW b \in Banks
  PROVE  now \in Nat /\ vaults[b]["emissions"] * ONE \in Nat
<1>1. vaults[b]["emissions"] \in Nat /\ now \in Nat  BY DEF RestOK, Vaults
<1> QED BY <1>1, NatProduct, OneAssumption

\* Every bank after the accrual that its handlers start with.
LEMMA AccruedOK ==
  ASSUME LendingInv, NEW b \in Banks
  PROVE  /\ LedgerOK(Accounts, Accrued(b), Held(b), vaults[b]["emissions"] * ONE, now)
         /\ AccrualOK(banks[b], Accrued(b), now)
<1>1. RestOK /\ BookOK(b)  BY DEF LendingInv
<1>2. vaults[b]["emissions"] * ONE \in Nat /\ now \in Nat /\ Group \in MarginfiGroups
  BY <1>1, EmissionsUnits, LendingAssumption
<1> QED BY Zenon, <1>1, <1>2, AccruedLedger, AccountsFinite DEF BookOK, Accrued

\* The wrappers of find and find_or_create on an accrued bank.
LEMMA FoundOK ==
  ASSUME LendingInv, NEW a \in Accounts, NEW b \in Banks
  PROVE  /\ WrapperOK(Found(a, b), now) /\ Conserves(Found(a, b), Found(a, b))
         /\ WrapperOK(FoundOrCreated(a, b), now) /\ Conserves(Found(a, b), FoundOrCreated(a, b))
<1>1. now \in Nat  BY DEF LendingInv, RestOK
<1>2. Found(a, b) = [bank |-> Accrued(b), balance |-> Held(b)[a]]  BY DEF Found, Held
<1>3. WrapperOK(Found(a, b), now)  BY <1>2, AccruedOK, WrapOK, AccountsFinite
<1>4. FoundOrCreated(a, b) = FindOrCreate(Found(a, b).bank, Found(a, b).balance, now)
  BY DEF FoundOrCreated, Found
<1> QED BY <1>1, <1>3, <1>4, ConservesRefl, FindOrCreateOK

\* A bank that an instruction does not touch.
LEMMA UntouchedOK ==
  ASSUME NEW b \in Banks, BookOK(b), banks'[b] = banks[b], Held(b)' = Held(b),
         vaults'[b]["emissions"] = vaults[b]["emissions"], now' = now
  PROVE  BookOK(b)'
BY DEF BookOK

\* An instruction that stores one wrapper and leaves the emissions vaults alone.
LEMMA StoredOK ==
  ASSUME LendingInv, NEW a \in Accounts, NEW b \in Banks, NEW v, WrapperOK(v, now),
         Conserves(Found(a, b), v), Store(a, b, v), RestOK', now' = now,
         \A c \in Banks : vaults'[c]["emissions"] = vaults[c]["emissions"]
  PROVE  LendingInv'
<1>1. RecordsOK /\ RestOK /\ \A c \in Banks : BookOK(c)  BY DEF LendingInv
<1> DEFINE e == vaults[b]["emissions"] * ONE
<1>2. e \in Nat /\ now \in Nat  BY <1>1, EmissionsUnits
<1>3. LedgerOK(Accounts, Accrued(b), Held(b), e, now)  BY AccruedOK
<1>4. Found(a, b) = [bank |-> Accrued(b), balance |-> Held(b)[a]]  BY DEF Found, Held
<1>5. v.bank \in BankRecords /\ v.balance \in BalanceRecords  BY DEF WrapperOK
<1>6. LedgerOK(Accounts, v.bank, [Held(b) EXCEPT ![a] = v.balance], e, now)
  BY <1>2, <1>3, <1>4, StoreSame, AccountsFinite
<1>7. /\ RecordsOK' /\ banks'[b] = v.bank /\ Held(b)' = [Held(b) EXCEPT ![a] = v.balance]
      /\ \A c \in Banks : c # b => banks'[c] = banks[c] /\ Held(c)' = Held(c)
  BY <1>1, <1>5, StoreHeld
<1>8. BookOK(b)'  BY <1>6, <1>7 DEF BookOK
<1>9. \A c \in Banks : c # b => BookOK(c)'  BY <1>1, <1>7, UntouchedOK
<1> QED BY <1>7, <1>8, <1>9 DEF LendingInv

\* A transfer between vaults other than the emissions vault.
LEMMA TokensMoved ==
  ASSUME RestOK, NEW b \in Banks, NEW from \in {"liquidity", "insurance", "outside"},
         NEW to \in {"liquidity", "insurance", "outside"}, from # to,
         NEW amount \in Nat, Transfer(b, from, to, amount),
         disabled' \in SUBSET Accounts, UNCHANGED <<risk, oracle, now>>
  PROVE  RestOK' /\ now' = now /\ \A c \in Banks : vaults'[c]["emissions"] = vaults[c]["emissions"]
<1>1. /\ from \in Vaults /\ to \in Vaults /\ "emissions" \in Vaults
      /\ from # "emissions" /\ to # "emissions"
  BY DEF Vaults
<1>2. vaults \in [Banks -> [Vaults -> Nat]]  BY DEF RestOK
<1>3. /\ vaults' \in [Banks -> [Vaults -> Nat]]
      /\ vaults'[b] = [vaults[b] EXCEPT ![from] = @ - amount, ![to] = @ + amount]
      /\ \A c \in Banks : c # b => vaults'[c] = vaults[c]
  BY <1>1, <1>2, TransferOK
<1>4. vaults'[b]["emissions"] = vaults[b]["emissions"]  BY <1>1, <1>2, <1>3
<1>5. ChoicesOK'  BY DEF RestOK, ChoicesOK
<1> QED BY Zenon, <1>3, <1>4, <1>5 DEF RestOK

\* An instruction that stores one wrapper and moves tokens of its bank.
LEMMA InstructionOK ==
  ASSUME LendingInv, NEW a \in Accounts, NEW b \in Banks, NEW v, WrapperOK(v, now),
         Conserves(Found(a, b), v), Store(a, b, v),
         NEW from \in {"liquidity", "insurance", "outside"},
         NEW to \in {"liquidity", "insurance", "outside"}, from # to,
         NEW amount \in Nat, Transfer(b, from, to, amount),
         disabled' \in SUBSET Accounts, UNCHANGED <<risk, oracle, now>>
  PROVE  LendingInv'
<1>1. RestOK  BY DEF LendingInv
<1>2. RestOK' /\ now' = now /\ \A c \in Banks : vaults'[c]["emissions"] = vaults[c]["emissions"]
  BY <1>1, TokensMoved
<1> QED BY <1>2, StoredOK

\* lending_account_deposit keeps the invariant.
LEMMA LendingAccountDepositStep ==
  ASSUME LendingInv, NEW a \in Accounts, NEW b \in Banks, NEW amount \in Nat,
         LendingAccountDeposit(a, b, amount)
  PROVE  LendingInv'
<1> DEFINE v == IncreaseBalance(FoundOrCreated(a, b), amount * ONE, now)
<1>0. RestOK /\ now \in Nat /\ amount * ONE \in Nat
  BY NatProduct, OneAssumption DEF LendingInv, RestOK
<1>1. /\ WrapperOK(FoundOrCreated(a, b), now) /\ Conserves(Found(a, b), FoundOrCreated(a, b))
      /\ WrapperOK(Found(a, b), now)
  BY FoundOK
<1>2. WrapperOK(v, now) /\ Conserves(FoundOrCreated(a, b), v)  BY <1>0, <1>1, IncreaseBalanceOK
<1> HIDE DEF v
<1>3. Conserves(Found(a, b), v)  BY <1>0, <1>1, <1>2, ConservesTrans
<1>4. /\ Store(a, b, v) /\ Transfer(b, "outside", "liquidity", amount)
      /\ UNCHANGED <<disabled, risk, oracle, now>>
  BY DEF LendingAccountDeposit, v
<1>5. disabled' \in SUBSET Accounts /\ UNCHANGED <<risk, oracle, now>>  BY <1>0, <1>4 DEF RestOK
<1> QED BY <1>2, <1>3, <1>4, <1>5, InstructionOK

\* lending_account_repay keeps the invariant.
LEMMA LendingAccountRepayStep ==
  ASSUME LendingInv, NEW a \in Accounts, NEW b \in Banks, NEW amount \in Nat,
         LendingAccountRepay(a, b, amount)
  PROVE  LendingInv'
<1> DEFINE v == IncreaseBalance(Found(a, b), amount * ONE, now)
<1>0. RestOK /\ now \in Nat /\ amount * ONE \in Nat
  BY NatProduct, OneAssumption DEF LendingInv, RestOK
<1>1. WrapperOK(v, now) /\ Conserves(Found(a, b), v)  BY <1>0, FoundOK, IncreaseBalanceOK
<1> HIDE DEF v
<1>2. /\ Store(a, b, v) /\ Transfer(b, "outside", "liquidity", amount)
      /\ UNCHANGED <<disabled, risk, oracle, now>>
  BY DEF LendingAccountRepay, v
<1>3. disabled' \in SUBSET Accounts /\ UNCHANGED <<risk, oracle, now>>  BY <1>0, <1>2 DEF RestOK
<1> QED BY <1>1, <1>2, <1>3, InstructionOK

\* lending_account_repay with repay_all keeps the invariant.
LEMMA LendingAccountRepayAllStep ==
  ASSUME LendingInv, NEW a \in Accounts, NEW b \in Banks, LendingAccountRepayAll(a, b)
  PROVE  LendingInv'
<1> DEFINE v == RepayAll(Found(a, b), now)
           amount == RepayAllTokens(Found(a, b))
<1>0. RestOK /\ now \in Nat /\ WrapperOK(Found(a, b), now)  BY FoundOK DEF LendingInv, RestOK
<1>1. WrapperOK(v, now) /\ Conserves(Found(a, b), v)  BY <1>0, RepayAllOK
<1>2. amount \in Nat  BY <1>0, AmountsNat, RoundingNat DEF RepayAllTokens
<1> HIDE DEF v, amount
<1>3. /\ Store(a, b, v) /\ Transfer(b, "outside", "liquidity", amount)
      /\ UNCHANGED <<disabled, risk, oracle, now>>
  BY DEF LendingAccountRepayAll, v, amount
<1>4. disabled' \in SUBSET Accounts /\ UNCHANGED <<risk, oracle, now>>  BY <1>0, <1>3 DEF RestOK
<1> QED BY <1>1, <1>2, <1>3, <1>4, InstructionOK

\* lending_account_withdraw keeps the invariant.
LEMMA LendingAccountWithdrawStep ==
  ASSUME LendingInv, NEW a \in Accounts, NEW b \in Banks, NEW amount \in Nat,
         LendingAccountWithdraw(a, b, amount)
  PROVE  LendingInv'
<1> DEFINE v == DecreaseBalance(Found(a, b), amount * ONE, now)
<1>0. RestOK /\ now \in Nat /\ amount * ONE \in Nat
  BY NatProduct, OneAssumption DEF LendingInv, RestOK
<1>1. WrapperOK(v, now) /\ Conserves(Found(a, b), v)  BY <1>0, FoundOK, DecreaseBalanceOK
<1> HIDE DEF v
<1>2. /\ Store(a, b, v) /\ Transfer(b, "liquidity", "outside", amount)
      /\ UNCHANGED <<disabled, risk, oracle, now>>
  BY DEF LendingAccountWithdraw, v
<1>3. disabled' \in SUBSET Accounts /\ UNCHANGED <<risk, oracle, now>>  BY <1>0, <1>2 DEF RestOK
<1> QED BY <1>1, <1>2, <1>3, InstructionOK

\* lending_account_withdraw with withdraw_all keeps the invariant.
LEMMA LendingAccountWithdrawAllStep ==
  ASSUME LendingInv, NEW a \in Accounts, NEW b \in Banks, LendingAccountWithdrawAll(a, b)
  PROVE  LendingInv'
<1> DEFINE v == WithdrawAll(Found(a, b), now)
           amount == WithdrawAllTokens(Found(a, b))
<1>0. RestOK /\ now \in Nat /\ WrapperOK(Found(a, b), now)  BY FoundOK DEF LendingInv, RestOK
<1>1. WrapperOK(v, now) /\ Conserves(Found(a, b), v)  BY <1>0, WithdrawAllOK
<1>2. amount \in Nat  BY <1>0, AmountsNat, RoundingNat DEF WithdrawAllTokens
<1> HIDE DEF v, amount
<1>3. /\ Store(a, b, v) /\ Transfer(b, "liquidity", "outside", amount)
      /\ UNCHANGED <<disabled, risk, oracle, now>>
  BY DEF LendingAccountWithdrawAll, v, amount
<1>4. disabled' \in SUBSET Accounts /\ UNCHANGED <<risk, oracle, now>>  BY <1>0, <1>3 DEF RestOK
<1> QED BY <1>1, <1>2, <1>3, <1>4, InstructionOK

\* lending_account_close_balance keeps the invariant.
LEMMA LendingAccountCloseBalanceStep ==
  ASSUME LendingInv, NEW a \in Accounts, NEW b \in Banks, LendingAccountCloseBalance(a, b)
  PROVE  LendingInv'
<1> DEFINE v == CloseBalance(Found(a, b), now)
<1>0. RestOK /\ now \in Nat  BY DEF LendingInv, RestOK
<1>1. WrapperOK(v, now) /\ Conserves(Found(a, b), v)  BY <1>0, FoundOK, CloseBalanceOK
<1> HIDE DEF v
<1>2. Store(a, b, v) /\ UNCHANGED <<vaults, disabled, risk, oracle, now>>
  BY DEF LendingAccountCloseBalance, v
<1>3. /\ RestOK' /\ now' = now
      /\ \A c \in Banks : vaults'[c]["emissions"] = vaults[c]["emissions"]
  BY <1>0, <1>2 DEF RestOK, ChoicesOK
<1> QED BY <1>1, <1>2, <1>3, StoredOK

\* The wrapper a borrow stores: the origination fee is booked to the program
\* and to the group.
Borrowed(a, b, amount) ==
  LET fee == OriginationFee(b, amount)
      w   == DecreaseBalance(FoundOrCreated(a, b), amount * ONE + fee, now)
  IN  [w EXCEPT !.bank.collected_program_fees_outstanding = @ + ProgramShare(fee),
                !.bank.collected_group_fees_outstanding = @ + fee - ProgramShare(fee)]

\* The borrower owes the amount and the fee.
Indebted(a, b, amount) ==
  DecreaseBalance(FoundOrCreated(a, b), amount * ONE + OriginationFee(b, amount), now)

\* The bank after the origination fee is booked.
FeeBooked(d, fee) ==
  [d EXCEPT !.collected_program_fees_outstanding = @ + ProgramShare(fee),
            !.collected_group_fees_outstanding = @ + fee - ProgramShare(fee)]

\* The fee is a Nat, the program's share a part of it, and both are booked in
\* the bank that the borrow leaves.
LEMMA BorrowedIs ==
  ASSUME LendingInv, NEW a \in Accounts, NEW b \in Banks, NEW amount \in Nat
  PROVE  /\ OriginationFee(b, amount) \in Nat /\ ProgramShare(OriginationFee(b, amount)) \in Nat
         /\ ProgramShare(OriginationFee(b, amount)) <= OriginationFee(b, amount)
         /\ WrapperOK(Indebted(a, b, amount), now)
         /\ Conserves(FoundOrCreated(a, b), Indebted(a, b, amount))
         /\ Borrowed(a, b, amount).balance = Indebted(a, b, amount).balance
         /\ Borrowed(a, b, amount).bank = FeeBooked(Indebted(a, b, amount).bank, OriginationFee(b, amount))
         /\ Borrowed(a, b, amount) = [bank |-> Borrowed(a, b, amount).bank,
                                      balance |-> Borrowed(a, b, amount).balance]
<1> DEFINE fee == OriginationFee(b, amount)
           share == ProgramShare(fee)
           w == Indebted(a, b, amount)
           d == w.bank
<1>1. now \in Nat /\ amount * ONE \in Nat /\ banks[b] \in BankRecords /\ Group \in MarginfiGroups
  BY NatProduct, OneAssumption, LendingAssumption DEF LendingInv, RestOK, RecordsOK
<1>2. fee \in Nat
  <2>1. banks[b].config.interest_rate_config.protocol_origination_fee \in Nat
    BY <1>1 DEF BankRecords, BankConfigs, InterestRateConfigs
  <2> QED BY Zenon, <1>1, <2>1, MulNat DEF OriginationFee
<1>3. Borrowed(a, b, amount) = [w EXCEPT !.bank.collected_program_fees_outstanding = @ + share,
                                         !.bank.collected_group_fees_outstanding = @ + fee - share]
  BY DEF Borrowed, Indebted
<1>4. share \in Nat /\ share <= fee
  <2>1. Group.program_fee_rate \in Nat /\ Group.program_fee_rate <= ONE  BY <1>1 DEF MarginfiGroups
  <2> QED BY <1>2, <2>1, ShareOfFee DEF ProgramShare
<1>5. amount * ONE + fee \in Nat  BY <1>1, <1>2
<1>6. WrapperOK(FoundOrCreated(a, b), now)  BY FoundOK
<1>7. WrapperOK(w, now) /\ Conserves(FoundOrCreated(a, b), w)
  BY <1>1, <1>5, <1>6, DecreaseBalanceOK DEF Indebted
<1> HIDE DEF fee, share, w
<1>8. w = [bank |-> d, balance |-> w.balance] /\ d \in BankRecords  BY <1>7 DEF WrapperOK
<1>9. Borrowed(a, b, amount) = [bank |-> [d EXCEPT !.collected_program_fees_outstanding = @ + share,
                                                   !.collected_group_fees_outstanding = @ + fee - share],
                                balance |-> w.balance]
  <2>1. d.collected_group_fees_outstanding \in Nat  BY <1>8 DEF BankRecords
  <2> QED BY Zenon, <1>3, <1>8, <2>1 DEF BankRecords
<1> QED BY <1>2, <1>4, <1>7, <1>9 DEF fee, share, w, FeeBooked

\* The fee is booked without touching a share.
LEMMA BorrowedOK ==
  ASSUME LendingInv, NEW a \in Accounts, NEW b \in Banks, NEW amount \in Nat
  PROVE  /\ WrapperOK(Borrowed(a, b, amount), now)
         /\ Conserves(Found(a, b), Borrowed(a, b, amount))
<1> DEFINE fee == OriginationFee(b, amount)
           share == ProgramShare(fee)
           w == Indebted(a, b, amount)
           d == w.bank
           p1 == d.collected_program_fees_outstanding + share
           g1 == d.collected_group_fees_outstanding + fee - share
           c == FeeBooked(d, fee)
           v == [bank |-> c, balance |-> w.balance]
<1>1. now \in Nat  BY DEF LendingInv, RestOK
<1>2. /\ fee \in Nat /\ share \in Nat /\ share <= fee
      /\ WrapperOK(w, now) /\ Conserves(FoundOrCreated(a, b), w)
      /\ Borrowed(a, b, amount) = v
  BY Zenon, BorrowedIs
<1>3. /\ Conserves(Found(a, b), FoundOrCreated(a, b))
      /\ WrapperOK(FoundOrCreated(a, b), now) /\ WrapperOK(Found(a, b), now)
  BY FoundOK
<1> HIDE DEF fee, share, w
<1>4. d \in BankRecords  BY <1>2 DEF WrapperOK
<1>5. p1 \in Nat /\ g1 \in Nat
  <2>1. d.collected_program_fees_outstanding \in Nat /\ d.collected_group_fees_outstanding \in Nat
    BY <1>4 DEF BankRecords
  <2> QED BY <1>2, <2>1
<1>6. c \in BankRecords /\ SameShares(d, c)
  <2>1. c = [d EXCEPT !.collected_program_fees_outstanding = p1,
                      !.collected_group_fees_outstanding = g1]
    BY DEF FeeBooked, share
  <2> HIDE DEF p1, g1, c
  <2> QED BY Zenon, <1>4, <1>5, <2>1 DEF BankRecords, SameShares
<1> HIDE DEF c
<1>7. WrapperOK(v, now) /\ Conserves(w, v)  BY <1>1, <1>2, <1>6, FeesOK
<1> HIDE DEF v
<1>8. Conserves(FoundOrCreated(a, b), v)  BY <1>1, <1>2, <1>3, <1>7, ConservesTrans
<1>9. Conserves(Found(a, b), v)  BY <1>1, <1>3, <1>7, <1>8, ConservesTrans
<1> QED BY <1>2, <1>7, <1>9

\* lending_account_borrow, with its origination fee, keeps the invariant.
LEMMA LendingAccountBorrowStep ==
  ASSUME LendingInv, NEW a \in Accounts, NEW b \in Banks, NEW amount \in Nat,
         LendingAccountBorrow(a, b, amount)
  PROVE  LendingInv'
<1> DEFINE v == Borrowed(a, b, amount)
<1>0. RestOK  BY DEF LendingInv
<1>1. WrapperOK(v, now) /\ Conserves(Found(a, b), v)  BY BorrowedOK
<1>2. /\ Store(a, b, v) /\ Transfer(b, "liquidity", "outside", amount)
      /\ UNCHANGED <<disabled, risk, oracle, now>>
  BY DEF LendingAccountBorrow, Borrowed
<1> HIDE DEF v
<1>3. disabled' \in SUBSET Accounts /\ UNCHANGED <<risk, oracle, now>>  BY <1>0, <1>2 DEF RestOK
<1> QED BY <1>1, <1>2, <1>3, InstructionOK

\* close_account, which drops the balance in every bank without taking it out
\* of the totals, keeps the invariant.
LEMMA MarginfiAccountCloseStep ==
  ASSUME LendingInv, NEW a \in Accounts, MarginfiAccountClose(a)
  PROVE  LendingInv'
<1>1. RecordsOK /\ RestOK /\ \A b \in Banks : BookOK(b)  BY DEF LendingInv
<1>2. /\ lending' = [lending EXCEPT ![a] = [b \in Banks |-> EmptyDeactivated]]
      /\ UNCHANGED <<banks, vaults, disabled, risk, oracle, now>>
  BY DEF MarginfiAccountClose
<1>3. RestOK'  BY <1>1, <1>2 DEF RestOK, ChoicesOK
<1>4. \A b \in Banks : Held(b)' = [Held(b) EXCEPT ![a] = EmptyDeactivated]
  BY Zenon, <1>1, <1>2 DEF Held, RecordsOK
<1>5. ASSUME NEW b \in Banks PROVE BookOK(b)'
  <2> DEFINE e == vaults[b]["emissions"] * ONE
  <2>1. e \in Nat /\ now \in Nat /\ LedgerOK(Accounts, banks[b], Held(b), e, now)
    BY <1>1, EmissionsUnits DEF BookOK
  <2>2. LedgerOK(Accounts, banks[b], [Held(b) EXCEPT ![a] = EmptyDeactivated], e, now)
    BY <2>1, DroppedLedger, AccountsFinite
  <2> QED BY <1>2, <1>4, <2>2 DEF BookOK
<1>6. RecordsOK'
  <2>1. \A b \in Banks : Held(b)' \in [Accounts -> BalanceRecords]  BY <1>5 DEF BookOK, LedgerOK
  <2>2. lending' \in [Accounts -> [Banks -> BalanceRecords]]
    <3>1. ASSUME NEW x \in Accounts, NEW b \in Banks PROVE lending'[x][b] \in BalanceRecords
      BY <2>1 DEF Held
    <3>2. \A x \in Accounts : lending'[x] = [b \in Banks |-> lending'[x][b]]
      BY <1>1, <1>2 DEF RecordsOK
    <3>3. lending' = [x \in Accounts |-> lending'[x]]  BY Zenon, <1>1, <1>2 DEF RecordsOK
    <3> QED BY <3>1, <3>2, <3>3
  <2> QED BY <1>1, <1>2, <2>2 DEF RecordsOK
<1> QED BY <1>3, <1>5, <1>6 DEF LendingInv

\* A step that changes at most the bank records, and no share of them.
LEMMA BanksOnlyOK ==
  ASSUME LendingInv, RestOK', UNCHANGED <<lending, vaults>>, now <= now',
         banks' \in [Banks -> BankRecords],
         \A b \in Banks : /\ banks'[b].total_asset_shares = banks[b].total_asset_shares
                          /\ banks'[b].total_liability_shares = banks[b].total_liability_shares
                          /\ banks'[b].emissions_remaining = banks[b].emissions_remaining
                          /\ banks'[b].last_update <= now'
  PROVE  LendingInv'
<1>1. RecordsOK /\ RestOK /\ \A b \in Banks : BookOK(b)  BY DEF LendingInv
<1>2. ASSUME NEW b \in Banks PROVE BookOK(b)'
  <2> DEFINE e == vaults[b]["emissions"] * ONE
  <2>1. e \in Nat /\ now \in Nat /\ LedgerOK(Accounts, banks[b], Held(b), e, now) /\ now' \in Nat
    BY <1>1, EmissionsUnits DEF BookOK, RestOK
  <2>2. banks[b].emissions_remaining \in Nat  BY <1>1 DEF RecordsOK, BankRecords
  <2> HIDE DEF e
  <2>3. banks'[b].emissions_remaining + e <= banks[b].emissions_remaining + e  BY <2>1, <2>2
  <2>4. banks'[b] \in BankRecords  OBVIOUS
  <2>5. LedgerOK(Accounts, banks'[b], Held(b), e, now')
    BY <2>1, <2>3, <2>4, ChangeBankOK, AccountsFinite
  <2> QED BY <2>5 DEF BookOK, Held, e
<1>3. RecordsOK'  BY <1>1 DEF RecordsOK
<1> QED BY <1>2, <1>3 DEF LendingInv

\* The banks before a step.
LEMMA BanksBefore ==
  ASSUME LendingInv
  PROVE  /\ banks \in [Banks -> BankRecords] /\ RestOK /\ now \in Nat
         /\ \A b \in Banks : banks[b].last_update \in Nat /\ banks[b].last_update <= now
<1>1. RecordsOK /\ RestOK /\ \A b \in Banks : BookOK(b)  BY DEF LendingInv
<1>2. \A b \in Banks : banks[b].last_update <= now  BY <1>1 DEF BookOK, LedgerOK
<1> QED BY <1>1, <1>2 DEF RecordsOK, RestOK, BankRecords

\* accrue_bank_interest and configure_bank keep the invariant.
LEMMA OneBankStep ==
  ASSUME LendingInv, NEW b \in Banks,
         \/ LendingPoolAccrueBankInterest(b)
         \/ \E config \in Configs, r \in RiskChoices[b] : LendingPoolConfigureBank(b, config, r)
  PROVE  LendingInv'
<1>1. /\ banks \in [Banks -> BankRecords] /\ RestOK /\ now \in Nat
      /\ \A c \in Banks : banks[c].last_update \in Nat /\ banks[c].last_update <= now
  BY BanksBefore
<1>2. PICK d \in BankRecords :
        /\ banks' = [banks EXCEPT ![b] = d]
        /\ d.total_asset_shares = banks[b].total_asset_shares
        /\ d.total_liability_shares = banks[b].total_liability_shares
        /\ d.emissions_remaining = banks[b].emissions_remaining /\ d.last_update <= now
  <2>1. CASE LendingPoolAccrueBankInterest(b)
    <3>1. banks' = [banks EXCEPT ![b] = Accrued(b)]  BY <2>1 DEF LendingPoolAccrueBankInterest
    <3>2. AccrualOK(banks[b], Accrued(b), now)  BY AccruedOK
    <3>3. /\ Accrued(b) \in BankRecords /\ Accrued(b).last_update <= now
          /\ Accrued(b).total_asset_shares = banks[b].total_asset_shares
          /\ Accrued(b).total_liability_shares = banks[b].total_liability_shares
          /\ Accrued(b).emissions_remaining = banks[b].emissions_remaining
      BY <1>1, <3>2 DEF AccrualOK
    <3> QED BY Zenon, <3>1, <3>3
  <2>2. CASE \E config \in Configs, r \in RiskChoices[b] : LendingPoolConfigureBank(b, config, r)
    <3>1. PICK config \in Configs, r \in RiskChoices[b] : LendingPoolConfigureBank(b, config, r)
      BY <2>2
    <3>2. banks' = [banks EXCEPT ![b] = Configure(banks[b], config, FALSE)]
      BY <3>1 DEF LendingPoolConfigureBank
    <3>3. config \in BankConfigs /\ banks[b] \in BankRecords  BY <1>1, LendingAssumption
    <3>4. /\ Configure(banks[b], config, FALSE) \in BankRecords
          /\ SameShares(banks[b], Configure(banks[b], config, FALSE))
      BY Zenon, <3>3, ConfigureOK
    <3> QED BY Zenon, <1>1, <3>2, <3>4 DEF SameShares
  <2> QED BY <2>1, <2>2
<1>3. UNCHANGED <<lending, vaults, disabled, oracle, now>> /\ risk' \in [Banks -> RiskConfigs]
      /\ \A c \in Banks : risk'[c] \in RiskChoices[c]
  <2>1. risk \in [Banks -> RiskConfigs] /\ \A c \in Banks : risk[c] \in RiskChoices[c]
    BY <1>1 DEF RestOK, ChoicesOK
  <2>2. RiskChoices[b] \subseteq RiskConfigs  BY LendingAssumption
  <2> QED BY Zenon, <2>1, <2>2 DEF LendingPoolAccrueBankInterest, LendingPoolConfigureBank
<1>4. RestOK' /\ now <= now'  BY <1>1, <1>3 DEF RestOK, ChoicesOK
<1>5. /\ banks' \in [Banks -> BankRecords]
      /\ \A c \in Banks : banks'[c] = IF c = b THEN d ELSE banks[c]
  BY <1>1, <1>2
<1>6. \A c \in Banks : /\ banks'[c].total_asset_shares = banks[c].total_asset_shares
                       /\ banks'[c].total_liability_shares = banks[c].total_liability_shares
                       /\ banks'[c].emissions_remaining = banks[c].emissions_remaining
                       /\ banks'[c].last_update <= now'
  BY <1>1, <1>2, <1>3, <1>5
<1> QED BY <1>3, <1>4, <1>5, <1>6, BanksOnlyOK

\* The oracle and the clock keep the invariant.
LEMMA MarketStep ==
  ASSUME LendingInv, Tick \/ \E b \in Banks : \E content \in FeedChoices[b] : Publish(b, content)
  PROVE  LendingInv'
<1>1. /\ banks \in [Banks -> BankRecords] /\ RestOK /\ now \in Nat
      /\ \A c \in Banks : banks[c].last_update \in Nat /\ banks[c].last_update <= now
  BY BanksBefore
<1>2. UNCHANGED <<banks, lending, vaults, disabled, risk>> /\ now' \in Nat /\ now <= now'
  BY <1>1 DEF Tick, Publish
<1>3. oracle' \in [Banks -> FeedRecords] /\ ChoicesOK'
  <2>1. CASE Tick  BY <1>1, <2>1 DEF Tick, RestOK, ChoicesOK
  <2>2. CASE \E b \in Banks : \E content \in FeedChoices[b] : Publish(b, content)
    <3>0. PICK b \in Banks : \E content \in FeedChoices[b] : Publish(b, content)  BY <2>2
    <3>1. PICK content \in FeedChoices[b] : Publish(b, content)  BY <3>0
    <3>2. content \in FeedRecords  BY LendingAssumption
    <3> DEFINE f == [content EXCEPT !.publish_time = now]
    <3>3. f \in FeedRecords /\ f.publish_time = now  BY <1>1, <3>2 DEF FeedRecords
    <3>4. oracle' = [oracle EXCEPT ![b] = f] /\ risk' = risk  BY <3>1 DEF Publish
    <3>5. f = [content EXCEPT !.publish_time = f.publish_time]  BY <3>3
    <3> HIDE DEF f
    <3> QED BY Zenon, <1>1, <3>3, <3>4, <3>5 DEF RestOK, ChoicesOK
  <2> QED BY <2>1, <2>2
<1>4. RestOK'  BY <1>1, <1>2, <1>3 DEF RestOK
<1>5. \A c \in Banks : /\ banks'[c].total_asset_shares = banks[c].total_asset_shares
                       /\ banks'[c].total_liability_shares = banks[c].total_liability_shares
                       /\ banks'[c].emissions_remaining = banks[c].emissions_remaining
                       /\ banks'[c].last_update <= now'
  BY <1>1, <1>2
<1>6. banks' \in [Banks -> BankRecords]  BY <1>1, <1>2
<1> QED BY <1>2, <1>4, <1>5, <1>6, BanksOnlyOK

-----------------------------------------------------------------------------
(* Values and amounts.                                                     *)

\* checked_mul keeps order in both factors.
LEMMA MulOrder ==
  ASSUME NEW x \in Nat, NEW y \in Nat, NEW v \in Nat, NEW w \in Nat, x <= y, v <= w
  PROVE  Mul(x, v) <= Mul(y, w)
<1>1. x * v \in Nat /\ y * v \in Nat /\ y * w \in Nat /\ ONE \in Nat \ {0}
  BY NatProduct, OneAssumption
<1>2. x * v <= y * v  BY ProductOrder
<1>3. v * y <= w * y  BY ProductOrder
<1>4. v * y = y * v /\ w * y = y * w  OBVIOUS
<1>5. x * v <= y * w  BY <1>1, <1>2, <1>3, <1>4
<1> QED BY <1>1, <1>5, QuotientOrder DEF Mul

\* calc_value keeps order in the amount, the price and the weight.
LEMMA ValueOrder ==
  ASSUME NEW x \in Nat, NEW p \in Nat, NEW w \in Nat, NEW y \in Nat, NEW q \in Nat, NEW v \in Nat,
         x <= y, p <= q, w <= v
  PROVE  /\ CalcValue(x, p, w) \in Nat /\ CalcValue(y, q, v) \in Nat
         /\ CalcValue(x, p, w) <= CalcValue(y, q, v)
<1>1. Mul(x, w) \in Nat /\ Mul(y, v) \in Nat /\ Mul(x, w) <= Mul(y, v)  BY MulNat, MulOrder
<1>2. /\ Mul(Mul(x, w), p) \in Nat /\ Mul(Mul(y, v), q) \in Nat
      /\ Mul(Mul(x, w), p) <= Mul(Mul(y, v), q)
  BY Zenon, <1>1, MulNat, MulOrder
<1>3. EXP10 \in Nat \ {0}  BY BalanceAssumption
<1> QED BY <1>2, <1>3, DivBounds, QuotientOrder DEF CalcValue

\* calc_amount keeps order in the value.
LEMMA AmountOrder ==
  ASSUME NEW x \in Nat, NEW y \in Nat, NEW p \in Nat \ {0}, x <= y
  PROVE  CalcAmount(x, p) \in Nat /\ CalcAmount(y, p) \in Nat /\ CalcAmount(x, p) <= CalcAmount(y, p)
<1>1. EXP10 \in Nat  BY BalanceAssumption
<1>2. x * EXP10 \in Nat /\ y * EXP10 \in Nat /\ x * EXP10 <= y * EXP10
  BY <1>1, NatProduct, ProductOrder
<1> QED BY <1>2, DivNat, DivMonotone DEF CalcAmount

\* The larger the fees, the less debt the collateral pays for.
LEMMA LiabilityForOrder ==
  ASSUME NEW amount \in Nat, NEW p \in Nat, NEW q \in Nat \ {0}, NEW f \in Nat, NEW g \in Nat,
         f <= g, g <= ONE
  PROVE  /\ LiabilityFor(amount, p, q, f) \in Nat /\ LiabilityFor(amount, p, q, g) \in Nat
         /\ LiabilityFor(amount, p, q, g) <= LiabilityFor(amount, p, q, f)
<1> DEFINE n == amount * ONE
           v == CalcValue(n, p, ONE - f)
           w == CalcValue(n, p, ONE - g)
<1>1. n \in Nat /\ ONE - f \in Nat /\ ONE - g \in Nat /\ ONE - g <= ONE - f
  BY NatProduct, OneAssumption
<1> HIDE DEF n
<1>2. n <= n /\ p <= p  BY <1>1
<1>3. v \in Nat /\ w \in Nat /\ w <= v  BY Zenon, <1>1, <1>2, ValueOrder
<1> HIDE DEF v, w
<1>4. CalcAmount(v, q) \in Nat /\ CalcAmount(w, q) \in Nat /\ CalcAmount(w, q) <= CalcAmount(v, q)
  BY <1>3, AmountOrder
<1> QED BY <1>4 DEF LiabilityFor, v, w, n

\* The feed of a bank is one its oracle setup can read.
LEMMA OraclesFit ==
  ASSUME RestOK, NEW b \in Banks
  PROVE  FeedFor(risk[b].oracle_setup, oracle[b])
<1>1. oracle[b] \in FeedRecords /\ risk[b] \in RiskChoices[b]  BY DEF RestOK, ChoicesOK
<1>2. PICK f \in FeedChoices[b] : oracle[b] = [f EXCEPT !.publish_time = oracle[b].publish_time]
  BY DEF RestOK, ChoicesOK
<1>3. f \in FeedRecords  BY LendingAssumption
<1>4. oracle[b].exponent = f.exponent  BY <1>2, <1>3 DEF FeedRecords
<1>5. risk[b].oracle_setup = "SwitchboardV2" => f.exponent <= 0  BY <1>1, LendingAssumption
<1> QED BY <1>1, <1>4, <1>5 DEF FeedFor

\* The amounts that a liquidation computes.
LEMMA LiquidationAmounts ==
  ASSUME RestOK, NEW x \in Banks, NEW y \in Banks, NEW amount \in Nat, RealTimePrice(y, "High") > 0
  PROVE  LET p == RealTimePrice(x, "Low")
             q == RealTimePrice(y, "High")
             fees == LIQUIDATION_INSURANCE_FEE + LIQUIDATION_LIQUIDATOR_FEE
         IN  /\ LiabilityFor(amount, p, q, LIQUIDATION_LIQUIDATOR_FEE) \in Nat
             /\ LiabilityFor(amount, p, q, fees) \in Nat
             /\ LiabilityFor(amount, p, q, fees)
                  <= LiabilityFor(amount, p, q, LIQUIDATION_LIQUIDATOR_FEE)
<1> DEFINE p == RealTimePrice(x, "Low")
           q == RealTimePrice(y, "High")
           f == LIQUIDATION_LIQUIDATOR_FEE
           g == LIQUIDATION_INSURANCE_FEE + LIQUIDATION_LIQUIDATOR_FEE
<1>1. p \in Nat /\ q \in Nat  BY OraclesFit, BandOK DEF RealTimePrice
<1>2. q \in Nat \ {0}  BY <1>1
<1>3. f \in Nat /\ g \in Nat /\ f <= g /\ g <= ONE  BY RiskAssumption, OneAssumption
<1> HIDE DEF p, q, f, g
<1>4. /\ LiabilityFor(amount, p, q, f) \in Nat /\ LiabilityFor(amount, p, q, g) \in Nat
      /\ LiabilityFor(amount, p, q, g) <= LiabilityFor(amount, p, q, f)
  BY <1>1, <1>2, <1>3, LiabilityForOrder
<1> QED BY <1>4 DEF p, q, f, g

-----------------------------------------------------------------------------
(* Bankruptcy and liquidation.                                             *)

BadDebt(a, b) == LiabilityAmount(Found(a, b))
CoveredByInsurance(a, b) == Least(BadDebt(a, b), vaults[b]["insurance"] * ONE)
SocializedLoss(a, b) == BadDebt(a, b) - CoveredByInsurance(a, b)

\* The wrapper from which a bankruptcy repays the debt: the loss is already
\* spread over the depositors.
Socialized(a, b) == [bank |-> SocializeLoss(Accrued(b), SocializedLoss(a, b)), balance |-> Held(b)[a]]

\* The loss is not negative and leaves a well-formed bank.
LEMMA SocializedOK ==
  ASSUME LendingInv, NEW a \in Accounts, NEW b \in Banks, LendingPoolHandleBankruptcy(a, b)
  PROVE  /\ WrapperOK(Socialized(a, b), now)
         /\ LedgerOK(Accounts, Socialized(a, b).bank, Held(b), vaults[b]["emissions"] * ONE, now)
         /\ BadDebt(a, b) \in Nat /\ CoveredByInsurance(a, b) \in Nat
         /\ Store(a, b, IncreaseBalance(Socialized(a, b), BadDebt(a, b), now))
<1> DEFINE e == vaults[b]["emissions"] * ONE
           loss == SocializedLoss(a, b)
           c == SocializeLoss(Accrued(b), loss)
           w == Socialized(a, b)
<1>1. RestOK  BY DEF LendingInv
<1>2. now \in Nat /\ e \in Nat /\ vaults[b]["insurance"] \in Nat
  BY <1>1, EmissionsUnits DEF RestOK, Vaults
<1>3. LedgerOK(Accounts, Accrued(b), Held(b), e, now) /\ WrapperOK(Found(a, b), now)
  BY Zenon, AccruedOK, FoundOK
<1> HIDE DEF e
<1>4. BadDebt(a, b) \in Nat  BY <1>2, <1>3, AmountsNat DEF BadDebt
<1>5. CoveredByInsurance(a, b) \in Nat /\ CoveredByInsurance(a, b) <= BadDebt(a, b)
  <2>1. vaults[b]["insurance"] * ONE \in Nat  BY <1>2, NatProduct, OneAssumption
  <2> QED BY <1>4, <2>1 DEF CoveredByInsurance, Least
<1>6. loss \in Nat  BY <1>4, <1>5 DEF SocializedLoss
<1>7. [Found(a, b) EXCEPT !.bank = c] = w  BY DEF Found, Socialized, Held
<1>8. /\ Accrued(b).total_asset_shares > 0 /\ loss <= TotalAssets(Accrued(b))
      /\ IncreaseAllowed(w, BadDebt(a, b), "RepayOnly")
      /\ Store(a, b, IncreaseBalance(w, BadDebt(a, b), now))
  BY <1>7 DEF LendingPoolHandleBankruptcy, BadDebt, CoveredByInsurance, SocializedLoss
<1>9. w.bank = c  BY DEF Socialized
<1>10. c.asset_share_value > 0
  <2> HIDE DEF w, c
  <2> QED BY Zenon, <1>8, <1>9 DEF IncreaseAllowed
<1> HIDE DEF loss
<1>11. LedgerOK(Accounts, c, Held(b), e, now)
  <2>1. Accrued(b).total_asset_shares > 0 /\ loss <= TotalAssets(Accrued(b))  BY <1>8
  <2> QED BY Zenon, <1>2, <1>3, <1>6, <1>10, <2>1, SocializedLedger, AccountsFinite
<1> HIDE DEF c
<1>12. WrapperOK(w, now)  BY <1>11, WrapOK, AccountsFinite DEF Socialized, c, loss
<1> HIDE DEF w
<1> QED BY Zenon, <1>4, <1>5, <1>8, <1>9, <1>11, <1>12 DEF w, e

\* lending_pool_handle_bankruptcy keeps the invariant.
LEMMA HandleBankruptcyStep ==
  ASSUME LendingInv, NEW a \in Accounts, NEW b \in Banks, LendingPoolHandleBankruptcy(a, b)
  PROVE  LendingInv'
<1> DEFINE e == vaults[b]["emissions"] * ONE
           w == Socialized(a, b)
           c == w.bank
           v == IncreaseBalance(w, BadDebt(a, b), now)
           paid == CeilTokens(CoveredByInsurance(a, b))
<1>1. RecordsOK /\ RestOK /\ \A d \in Banks : BookOK(d)  BY DEF LendingInv
<1>2. now \in Nat /\ e \in Nat  BY <1>1, EmissionsUnits
<1>3. /\ WrapperOK(w, now) /\ LedgerOK(Accounts, c, Held(b), e, now)
      /\ BadDebt(a, b) \in Nat /\ CoveredByInsurance(a, b) \in Nat /\ Store(a, b, v)
  BY Zenon, SocializedOK
<1>4. w = [bank |-> c, balance |-> Held(b)[a]]  BY DEF Socialized
<1>5. paid \in Nat  BY Zenon, <1>3, RoundingNat
<1>6. /\ Transfer(b, "insurance", "liquidity", paid)
      /\ disabled' = disabled \cup {a} /\ UNCHANGED <<risk, oracle, now>>
  BY DEF LendingPoolHandleBankruptcy, BadDebt, CoveredByInsurance
<1> HIDE DEF e, w, paid
<1>7. WrapperOK(v, now) /\ Conserves(w, v)  BY <1>2, <1>3, IncreaseBalanceOK
<1> HIDE DEF v
<1>8. LedgerOK(Accounts, v.bank, [Held(b) EXCEPT ![a] = v.balance], e, now)
  BY <1>2, <1>3, <1>4, <1>7, StoreSame, AccountsFinite
<1>9. disabled' \in SUBSET Accounts /\ UNCHANGED <<risk, oracle, now>>  BY <1>1, <1>6 DEF RestOK
<1>10. /\ RestOK' /\ now' = now
       /\ \A d \in Banks : vaults'[d]["emissions"] = vaults[d]["emissions"]
  BY <1>1, <1>5, <1>6, <1>9, TokensMoved
<1>11. v.bank \in BankRecords /\ v.balance \in BalanceRecords  BY <1>7 DEF WrapperOK
<1>12. /\ RecordsOK' /\ banks'[b] = v.bank /\ Held(b)' = [Held(b) EXCEPT ![a] = v.balance]
       /\ \A d \in Banks : d # b => banks'[d] = banks[d] /\ Held(d)' = Held(d)
  BY Zenon, <1>1, <1>3, <1>11, StoreHeld
<1>13. BookOK(b)'  BY <1>8, <1>10, <1>12 DEF BookOK, e
<1>14. \A d \in Banks : d # b => BookOK(d)'  BY <1>1, <1>10, <1>12, UntouchedOK
<1> QED BY <1>10, <1>12, <1>13, <1>14 DEF LendingInv

\* The four balances that a liquidation stores, bank by bank.
LEMMA FourStored ==
  ASSUME RecordsOK, NEW p \in Accounts, NEW q \in Accounts, p # q,
         NEW x \in Banks, NEW y \in Banks, x # y, NEW px, NEW py, NEW qx, NEW qy
  PROVE  lending' = [lending EXCEPT ![p][x] = px, ![p][y] = py, ![q][x] = qx, ![q][y] = qy]
           => /\ Held(x)' = [Held(x) EXCEPT ![q] = qx, ![p] = px]
              /\ Held(y)' = [Held(y) EXCEPT ![p] = py, ![q] = qy]
              /\ \A c \in Banks : c # x /\ c # y => Held(c)' = Held(c)
              /\ lending' = [a \in Accounts |-> [c \in Banks |-> Held(c)'[a]]]
<1>0. SUFFICES ASSUME lending' = [lending EXCEPT ![p][x] = px, ![p][y] = py, ![q][x] = qx, ![q][y] = qy]
               PROVE  /\ Held(x)' = [Held(x) EXCEPT ![q] = qx, ![p] = px]
                      /\ Held(y)' = [Held(y) EXCEPT ![p] = py, ![q] = qy]
                      /\ \A c \in Banks : c # x /\ c # y => Held(c)' = Held(c)
                      /\ lending' = [a \in Accounts |-> [c \in Banks |-> Held(c)'[a]]]
  OBVIOUS
<1>1. lending \in [Accounts -> [Banks -> BalanceRecords]]  BY DEF RecordsOK
<1>2. /\ lending' = [a \in Accounts |-> lending'[a]]
      /\ \A a \in Accounts : lending'[a] = [c \in Banks |-> lending'[a][c]]
  BY Zenon, <1>0, <1>1
<1>3. \A a \in Accounts, c \in Banks :
        lending'[a][c] = IF a = p /\ c = x THEN px
                         ELSE IF a = p /\ c = y THEN py
                         ELSE IF a = q /\ c = x THEN qx
                         ELSE IF a = q /\ c = y THEN qy
                         ELSE lending[a][c]
  BY <1>0, <1>1
<1>4. Held(x)' = [Held(x) EXCEPT ![q] = qx, ![p] = px]  BY Zenon, <1>3 DEF Held
<1>5. Held(y)' = [Held(y) EXCEPT ![p] = py, ![q] = qy]  BY Zenon, <1>3 DEF Held
<1>6. \A c \in Banks : c # x /\ c # y => Held(c)' = Held(c)  BY <1>3 DEF Held
<1>7. \A a \in Accounts, c \in Banks : Held(c)'[a] = lending'[a][c]  BY DEF Held
<1>8. lending' = [a \in Accounts |-> [c \in Banks |-> Held(c)'[a]]]  BY <1>2, <1>7
<1> QED BY <1>4, <1>5, <1>6, <1>8

\* What a liquidation does, with the operations of the two banks named.
LEMMA Liquidated ==
  ASSUME RecordsOK, NEW liquidator \in Accounts, NEW liquidatee \in Accounts,
         NEW asset_bank \in Banks, NEW liab_bank \in Banks, NEW amount \in Nat,
         LendingAccountLiquidate(liquidator, liquidatee, asset_bank, liab_bank, amount),
         NEW n, n = amount * ONE,
         NEW q, q = LiabilityFor(amount, RealTimePrice(asset_bank, "Low"),
                                 RealTimePrice(liab_bank, "High"), LIQUIDATION_LIQUIDATOR_FEE),
         NEW r, r = LiabilityFor(amount, RealTimePrice(asset_bank, "Low"),
                                 RealTimePrice(liab_bank, "High"),
                                 LIQUIDATION_INSURANCE_FEE + LIQUIDATION_LIQUIDATOR_FEE)
  PROVE  /\ asset_bank # liab_bank /\ liquidator # liquidatee /\ RealTimePrice(liab_bank, "High") > 0
         /\ banks'[asset_bank] = Bought(Accrued(asset_bank), Held(asset_bank), liquidatee,
                                        liquidator, n, now).bank
         /\ Held(asset_bank)' = SeizedBalances(Accrued(asset_bank), Held(asset_bank), liquidatee,
                                               liquidator, n, now)
         /\ banks'[liab_bank] = RelievedBank(Accrued(liab_bank), Held(liab_bank), liquidatee,
                                             liquidator, q, r, (q - r) % ONE, now)
         /\ Held(liab_bank)' = RelievedBalances(Accrued(liab_bank), Held(liab_bank), liquidatee,
                                                liquidator, q, r, now)
         /\ \A c \in Banks : c # asset_bank /\ c # liab_bank =>
                               banks'[c] = banks[c] /\ Held(c)' = Held(c)
         /\ banks' = [c \in Banks |-> banks'[c]]
         /\ lending' = [a \in Accounts |-> [c \in Banks |-> Held(c)'[a]]]
         /\ Transfer(liab_bank, "liquidity", "insurance", FloorTokens(q - r))
         /\ UNCHANGED <<disabled, risk, oracle, now>>
<1> DEFINE seized == Seized(Accrued(asset_bank), Held(asset_bank), liquidatee, n, now)
           bought == Bought(Accrued(asset_bank), Held(asset_bank), liquidatee, liquidator, n, now)
           paid == Paid(Accrued(liab_bank), Held(liab_bank), liquidator, q, now)
           relieved == Relieved(Accrued(liab_bank), Held(liab_bank), liquidatee, liquidator, q, r, now)
           after == RelievedBank(Accrued(liab_bank), Held(liab_bank), liquidatee, liquidator, q, r,
                                 (q - r) % ONE, now)
<1>1. /\ asset_bank # liab_bank /\ liquidator # liquidatee /\ RealTimePrice(liab_bank, "High") > 0
      /\ Transfer(liab_bank, "liquidity", "insurance", FloorTokens(q - r))
      /\ UNCHANGED <<disabled, risk, oracle, now>>
  BY Zenon DEF LendingAccountLiquidate
<1>2. \A a \in Accounts, c \in Banks : lending[a][c] = Held(c)[a]  BY DEF Held
<1>3. banks' = [banks EXCEPT ![asset_bank] = bought.bank, ![liab_bank] = after]
  BY Zenon, <1>2 DEF LendingAccountLiquidate, Bought, Seized, RelievedBank, Relieved, Paid, Found,
     FoundOrCreated
<1>4. lending' = [lending EXCEPT ![liquidator][asset_bank] = bought.balance,
                                 ![liquidator][liab_bank]  = paid.balance,
                                 ![liquidatee][asset_bank] = seized.balance,
                                 ![liquidatee][liab_bank]  = relieved.balance]
  BY Zenon, <1>2 DEF LendingAccountLiquidate, Bought, Seized, Relieved, Paid, Found, FoundOrCreated
<1> HIDE DEF seized, bought, paid, relieved, after
<1>5. /\ banks' = [c \in Banks |-> banks'[c]]
      /\ banks'[asset_bank] = bought.bank /\ banks'[liab_bank] = after
      /\ \A c \in Banks : c # asset_bank /\ c # liab_bank => banks'[c] = banks[c]
  BY Zenon, <1>1, <1>3 DEF RecordsOK
<1>6. /\ Held(asset_bank)' = [Held(asset_bank) EXCEPT ![liquidatee] = seized.balance,
                                                      ![liquidator] = bought.balance]
      /\ Held(liab_bank)' = [Held(liab_bank) EXCEPT ![liquidator] = paid.balance,
                                                    ![liquidatee] = relieved.balance]
      /\ \A c \in Banks : c # asset_bank /\ c # liab_bank => Held(c)' = Held(c)
      /\ lending' = [a \in Accounts |-> [c \in Banks |-> Held(c)'[a]]]
  BY Zenon, <1>1, <1>4, FourStored
<1> QED BY Zenon, <1>1, <1>5, <1>6 DEF seized, bought, paid, relieved, after, SeizedBalances,
           RelievedBalances

\* lending_account_liquidate keeps the invariant of both banks.
LEMMA LiquidateStep ==
  ASSUME LendingInv, NEW liquidator \in Accounts, NEW liquidatee \in Accounts,
         NEW asset_bank \in Banks, NEW liab_bank \in Banks, NEW amount \in Nat,
         LendingAccountLiquidate(liquidator, liquidatee, asset_bank, liab_bank, amount)
  PROVE  LendingInv'
<1> DEFINE n == amount * ONE
           q == LiabilityFor(amount, RealTimePrice(asset_bank, "Low"),
                             RealTimePrice(liab_bank, "High"), LIQUIDATION_LIQUIDATOR_FEE)
           r == LiabilityFor(amount, RealTimePrice(asset_bank, "Low"),
                             RealTimePrice(liab_bank, "High"),
                             LIQUIDATION_INSURANCE_FEE + LIQUIDATION_LIQUIDATOR_FEE)
           d == q - r
<1>1. RecordsOK /\ RestOK /\ \A c \in Banks : BookOK(c)  BY DEF LendingInv
<1>2. /\ asset_bank # liab_bank /\ liquidator # liquidatee /\ RealTimePrice(liab_bank, "High") > 0
      /\ Transfer(liab_bank, "liquidity", "insurance", FloorTokens(d))
      /\ UNCHANGED <<disabled, risk, oracle, now>>
  BY <1>1, Liquidated
<1>3. /\ banks'[asset_bank] = Bought(Accrued(asset_bank), Held(asset_bank), liquidatee, liquidator, n, now).bank
      /\ Held(asset_bank)'
           = SeizedBalances(Accrued(asset_bank), Held(asset_bank), liquidatee, liquidator, n, now)
  BY <1>1, Liquidated
<1>4. /\ banks'[liab_bank] = RelievedBank(Accrued(liab_bank), Held(liab_bank), liquidatee, liquidator,
                                          q, r, d % ONE, now)
      /\ Held(liab_bank)'
           = RelievedBalances(Accrued(liab_bank), Held(liab_bank), liquidatee, liquidator, q, r, now)
  BY <1>1, Liquidated
<1>5. /\ \A c \in Banks : c # asset_bank /\ c # liab_bank => banks'[c] = banks[c] /\ Held(c)' = Held(c)
      /\ banks' = [c \in Banks |-> banks'[c]]
      /\ lending' = [a \in Accounts |-> [c \in Banks |-> Held(c)'[a]]]
  BY <1>1, Liquidated
<1>6. n \in Nat /\ q \in Nat /\ r \in Nat /\ r <= q
  BY <1>1, <1>2, NatProduct, OneAssumption, LiquidationAmounts
<1> HIDE DEF n, q, r
<1>7. d \in Nat  BY <1>6
<1> HIDE DEF d
<1>8. FloorTokens(d) \in Nat /\ d % ONE \in Nat  BY <1>7, RoundingNat, OneAssumption
<1>9. disabled' \in SUBSET Accounts /\ UNCHANGED <<risk, oracle, now>>  BY <1>1, <1>2 DEF RestOK
<1>10. /\ RestOK' /\ now' = now
       /\ \A c \in Banks : vaults'[c]["emissions"] = vaults[c]["emissions"]
  BY Zenon, <1>1, <1>2, <1>8, <1>9, TokensMoved
<1>11. \A c \in Banks : now \in Nat /\ vaults[c]["emissions"] * ONE \in Nat
  BY Zenon, <1>1, EmissionsUnits
<1>12. BookOK(asset_bank)'
  <2> DEFINE e == vaults[asset_bank]["emissions"] * ONE
  <2>1. LedgerOK(Accounts, Accrued(asset_bank), Held(asset_bank), e, now) /\ e \in Nat /\ now \in Nat
    BY <1>11, AccruedOK
  <2> HIDE DEF e
  <2>2. liquidator # liquidatee  BY <1>2
  <2>3. LedgerOK(Accounts, banks'[asset_bank], Held(asset_bank)', e, now)
    BY Zenon, <1>3, <1>6, <2>1, <2>2, SeizedLedger, AccountsFinite
  <2> QED BY <1>10, <2>3 DEF BookOK, e
<1>13. BookOK(liab_bank)'
  <2> DEFINE e == vaults[liab_bank]["emissions"] * ONE
  <2>1. LedgerOK(Accounts, Accrued(liab_bank), Held(liab_bank), e, now) /\ e \in Nat /\ now \in Nat
    BY <1>11, AccruedOK
  <2> HIDE DEF e
  <2>2. liquidator # liquidatee  BY <1>2
  <2>3. LedgerOK(Accounts, banks'[liab_bank], Held(liab_bank)', e, now)
    BY <1>4, <1>6, <1>8, <2>1, <2>2, RelievedLedger, AccountsFinite
  <2> QED BY Zenon, <1>10, <2>3 DEF BookOK, e
<1>14. \A c \in Banks : c # asset_bank /\ c # liab_bank => BookOK(c)'  BY <1>1, <1>5, <1>10, UntouchedOK
<1>15. \A c \in Banks : BookOK(c)'  BY <1>12, <1>13, <1>14
<1>16. RecordsOK'
  <2>1. \A c \in Banks : banks'[c] \in BankRecords /\ Held(c)' \in [Accounts -> BalanceRecords]
    BY <1>15 DEF BookOK, LedgerOK
  <2>2. banks' \in [Banks -> BankRecords]  BY <1>5, <2>1
  <2>3. lending' \in [Accounts -> [Banks -> BalanceRecords]]  BY <1>5, <2>1
  <2> QED BY <2>2, <2>3 DEF RecordsOK
<1> QED BY <1>10, <1>15, <1>16 DEF LendingInv

-----------------------------------------------------------------------------
(* The theorem: every bank of a group keeps its ledger invariant.          *)

\* A group of banks that were just created.
LEMMA InitOK == Init => LendingInv
<1> SUFFICES ASSUME Init PROVE LendingInv  OBVIOUS
<1>1. RestOK
  <2>1. vaults \in [Banks -> [Vaults -> Nat]]
    <3>1. \A b \in Banks : Supply[b] \in Nat  BY LendingAssumption
    <3> QED BY <3>1 DEF Init
  <2>2. /\ risk \in [Banks -> RiskConfigs] /\ oracle \in [Banks -> FeedRecords]
        /\ \A b \in Banks : risk[b] \in RiskChoices[b] /\ oracle[b] \in FeedChoices[b]
    BY LendingAssumption DEF Init, OneOfEach
  <2>3. ChoicesOK
    <3>1. \A f \in FeedRecords : f = [f EXCEPT !.publish_time = f.publish_time]  BY DEF FeedRecords
    <3>2. \A b \in Banks : oracle[b] = [oracle[b] EXCEPT !.publish_time = oracle[b].publish_time]
      BY <2>2, <3>1
    <3> QED BY <2>2, <3>2 DEF ChoicesOK
  <2> QED BY <2>1, <2>2, <2>3 DEF Init, RestOK
<1>2. PICK config \in Configs : banks = [b \in Banks |-> BankNew(config, 0)]  BY DEF Init
<1>3. config \in BankConfigs  BY LendingAssumption
<1>4. lending = [a \in Accounts |-> [b \in Banks |-> EmptyDeactivated]] /\ now = 0  BY DEF Init
<1>5. ASSUME NEW b \in Banks PROVE BookOK(b)
  <2>1. vaults[b]["emissions"] * ONE \in Nat  BY <1>1, EmissionsUnits
  <2>2. Held(b) = [a \in Accounts |-> EmptyDeactivated] /\ banks[b] = BankNew(config, 0)
    BY <1>2, <1>4 DEF Held
  <2> QED BY <1>3, <1>4, <2>1, <2>2, EmptyLedger, AccountsFinite DEF BookOK
<1>6. RecordsOK
  <2>1. \A b \in Banks : banks[b] \in BankRecords /\ Held(b) \in [Accounts -> BalanceRecords]
    BY <1>5 DEF BookOK, LedgerOK
  <2>2. banks \in [Banks -> BankRecords]  BY <1>2, <2>1
  <2>3. \A a \in Accounts, b \in Banks : EmptyDeactivated \in BalanceRecords
    BY <1>4, <2>1 DEF Held
  <2> QED BY <1>4, <2>2, <2>3 DEF RecordsOK
<1> QED BY <1>1, <1>5, <1>6 DEF LendingInv

\* Every instruction keeps the invariant.
LEMMA NextOK ==
  ASSUME LendingInv, Next
  PROVE  LendingInv'
<1>0. Amounts \subseteq Nat /\ SeizedAmounts \subseteq Nat  BY LendingAssumption
<1>1. ASSUME NEW a \in Accounts, AccountStep(a) PROVE LendingInv'
  <2>1. ASSUME NEW b \in Banks,
               \E amount \in Amounts : \/ LendingAccountDeposit(a, b, amount)
                                        \/ LendingAccountRepay(a, b, amount)
                                        \/ LendingAccountWithdraw(a, b, amount)
                                        \/ LendingAccountBorrow(a, b, amount)
        PROVE  LendingInv'
    BY <1>0, <2>1, LendingAccountDepositStep, LendingAccountRepayStep, LendingAccountWithdrawStep,
       LendingAccountBorrowStep
  <2>2. ASSUME NEW b \in Banks, LendingAccountRepayAll(a, b) \/ LendingAccountWithdrawAll(a, b)
        PROVE  LendingInv'
    BY <2>2, LendingAccountRepayAllStep, LendingAccountWithdrawAllStep
  <2>3. ASSUME NEW b \in Banks, LendingAccountCloseBalance(a, b) \/ LendingPoolHandleBankruptcy(a, b)
        PROVE  LendingInv'
    BY <2>3, LendingAccountCloseBalanceStep, HandleBankruptcyStep
  <2>4. CASE MarginfiAccountClose(a)  BY <2>4, MarginfiAccountCloseStep
  <2> QED BY <1>1, <2>1, <2>2, <2>3, <2>4 DEF AccountStep
<1>2. ASSUME NEW liquidator \in Accounts, NEW liquidatee \in Accounts, NEW asset_bank \in Banks,
             NEW liab_bank \in Banks, NEW amount \in SeizedAmounts,
             LendingAccountLiquidate(liquidator, liquidatee, asset_bank, liab_bank, amount)
      PROVE  LendingInv'
  BY <1>0, <1>2, LiquidateStep
<1>3. ASSUME NEW b \in Banks, BankStep(b) PROVE LendingInv'
  BY <1>3, OneBankStep, MarketStep DEF BankStep
<1>4. CASE Tick  BY <1>4, MarketStep
<1> QED BY <1>1, <1>2, <1>3, <1>4 DEF Next

\* So does a step that changes nothing.
LEMMA StutterOK ==
  ASSUME LendingInv, UNCHANGED vars
  PROVE  LendingInv'
<1>1. RecordsOK /\ RestOK /\ \A b \in Banks : BookOK(b)  BY DEF LendingInv
<1>2. RecordsOK' /\ RestOK'  BY <1>1 DEF vars, RecordsOK, RestOK, ChoicesOK
<1>3. \A b \in Banks : BookOK(b)'  BY <1>1 DEF vars, BookOK, Held
<1> QED BY <1>2, <1>3 DEF LendingInv

\* In a group of any number of banks and accounts, with any oracles and risk
\* parameters that validate, every bank keeps the invariant of its ledger:
\* its totals cover the shares of all accounts, no balance has two sides, and
\* no counter or token account of any bank becomes negative.
THEOREM GroupInvariant == Spec => []LendingInv
<1>1. LendingInv /\ [Next]_vars => LendingInv'  BY NextOK, StutterOK
<1> QED BY <1>1, InitOK, PTL DEF Spec

\* Every account of a group, whatever the instructions did to it, has the type
\* that the Rust structures give it.
THEOREM GroupTypeCorrect == Spec => []TypeOK
<1>1. LendingInv => TypeOK  BY DEF LendingInv, RecordsOK, RestOK, TypeOK
<1> QED BY <1>1, GroupInvariant, PTL

-----------------------------------------------------------------------------
(* Prices are rounded down.                                                *)

\* A number divided by d, scaled, and divided by k: the result is the scaled
\* number divided by both, rounded down, up to what the first division lost.
LEMMA DividedTwice ==
  ASSUME NEW m \in Nat, NEW scale \in Nat, NEW d \in Nat \ {0}, NEW k \in Nat \ {0}, NEW p,
         p = ((m \div d) * scale) \div k
  PROVE  /\ p \in Nat
         /\ 0 <= m * scale - p * (d * k)
         /\ m * scale - p * (d * k) < d * k + d * scale
         /\ d = 1 => m * scale - p * (d * k) < d * k
<1> DEFINE q == m \div d
<1>1. q \in Nat /\ d * q \in Nat /\ d * q <= m /\ m < d * q + d  BY DivBounds, NatProduct
<1> HIDE DEF q
<1>2. q * scale \in Nat  BY <1>1, NatProduct
<1>3. p \in Nat /\ k * p <= q * scale /\ q * scale < k * p + k  BY <1>2, DivBounds DEF q
<1>4. k * p \in Nat  BY <1>3, NatProduct
<1>5. PICK r \in Nat : m = d * q + r /\ r < d
  <2>1. m - d * q \in Nat /\ m = d * q + (m - d * q) /\ m - d * q < d  BY <1>1
  <2> QED BY <2>1
<1>6. PICK t \in Nat : q * scale = k * p + t /\ t + 1 <= k
  <2>1. /\ q * scale - k * p \in Nat /\ q * scale = k * p + (q * scale - k * p)
        /\ q * scale - k * p + 1 <= k
    BY <1>2, <1>3, <1>4
  <2> QED BY <2>1
<1>7. m * scale = d * (q * scale) + r * scale
  <2>1. m * scale = (d * q + r) * scale  BY <1>5
  <2> QED BY <1>1, <2>1
<1>8. d * (q * scale) = p * (d * k) + t * d
  <2>1. d * (q * scale) = d * (k * p + t)  BY <1>6
  <2>2. \A x, y, z, u \in Nat : x * (y * z + u) = z * (x * y) + u * x  OBVIOUS
  <2>3. d * (k * p + t) = p * (d * k) + t * d  BY <1>3, <2>2
  <2> QED BY <2>1, <2>3
<1>9. t * d \in Nat /\ r * scale \in Nat /\ d * k \in Nat /\ d * scale \in Nat
      /\ p * (d * k) \in Nat
  BY <1>3, NatProduct
<1>10. t * d + d <= d * k
  <2>1. (t + 1) * d <= k * d  BY <1>6, ProductOrder
  <2>2. (t + 1) * d = t * d + d /\ k * d = d * k  OBVIOUS
  <2> QED BY <2>1, <2>2
<1>11. r * scale <= d * scale  BY <1>5, ProductOrder
<1>12. d = 1 => r * scale = 0
  <2>1. d = 1 => r = 0  BY <1>5
  <2> QED BY <2>1
<1> DEFINE x == m * scale
           y == p * (d * k)
           z == d * k
           u == t * d
           v == r * scale
           w == d * scale
<1>13. /\ x = y + u + v /\ u + d <= z /\ v <= w /\ (d = 1 => v = 0)
       /\ u \in Nat /\ v \in Nat /\ z \in Nat /\ w \in Nat /\ y \in Nat
  BY <1>7, <1>8, <1>9, <1>10, <1>11, <1>12
<1> HIDE DEF x, y, z, u, v, w
<1>14. 0 <= x - y /\ x - y < z + w /\ (d = 1 => x - y < z)  BY <1>13
<1> QED BY <1>3, <1>14 DEF x, y, z, w

\* Powers multiply by adding their exponents.
LEMMA PowersMultiply ==
  ASSUME NEW p \in [Nat -> Nat \ {0}], p[0] = 1, \A n \in Nat \ {0} : p[n] = 10 * p[n - 1]
  PROVE  \A m, n \in Nat : p[m + n] = p[m] * p[n]
<1> SUFFICES ASSUME NEW m \in Nat PROVE \A n \in Nat : p[m + n] = p[m] * p[n]
  OBVIOUS
<1> DEFINE Bad == {n \in Nat : p[m + n] # p[m] * p[n]}
<1>1. SUFFICES ASSUME Bad # {} PROVE FALSE  OBVIOUS
<1>2. PICK n \in Bad : \A k \in Bad : ~(k < n)  BY Zenon, <1>1, LeastNatural
<1>3. n \in Nat /\ p[m + n] # p[m] * p[n]  BY <1>2
<1>4. p[m] \in Nat /\ p[m + 0] = p[m] * p[0]
  <2>1. p[m] \in Nat /\ m + 0 = m  OBVIOUS
  <2> QED BY <2>1
<1>5. n # 0  BY <1>3, <1>4
<1>6. n - 1 \in Nat /\ n - 1 < n  BY <1>3, <1>5
<1>7. p[m + (n - 1)] = p[m] * p[n - 1]  BY <1>2, <1>6
<1>8. p[n] = 10 * p[n - 1] /\ p[n - 1] \in Nat  BY <1>3, <1>5, <1>6
<1>9. p[m + n] = 10 * p[m + (n - 1)]
  <2>1. m + n \in Nat \ {0} /\ (m + n) - 1 = m + (n - 1)  BY <1>3, <1>5
  <2>2. p[m + n] = 10 * p[(m + n) - 1]  BY <2>1
  <2> QED BY <2>1, <2>2
<1>10. \A x, y \in Nat : 10 * (x * y) = x * (10 * y)  OBVIOUS
<1> QED BY <1>3, <1>4, <1>7, <1>8, <1>9, <1>10

\* One division by a power of ten.
LEMMA DividedOnce ==
  ASSUME NEW mantissa \in Nat, NEW p \in Nat \ {0}
  PROVE  LET q == (mantissa * ONE) \div p
         IN  0 <= mantissa * ONE - q * p /\ mantissa * ONE - q * p < p
<1> DEFINE x == mantissa * ONE
           q == x \div p
<1>1. x \in Nat  BY NatProduct, OneAssumption
<1> HIDE DEF x
<1>2. q \in Nat /\ p * q <= x /\ x < p * q + p  BY <1>1, DivBounds
<1> HIDE DEF q
<1>3. p * q = q * p /\ q * p \in Nat  BY <1>2, NatProduct
<1>4. 0 <= x - q * p /\ x - q * p < p  BY <1>1, <1>2, <1>3
<1> QED BY <1>4 DEF q, x

\* What a Pyth account reports, for both kinds of exponent.
LEMMA PythRoundsDown ==
  ASSUME NEW setup \in PythSetups, NEW f, FeedFor(setup, f), NEW price_type \in PriceTypes
  PROVE  RoundedDown(setup, f, price_type)
<1> DEFINE mantissa == IF price_type = "TimeWeighted" THEN f.ema_price ELSE f.price
           e == f.exponent
           price == PythPriceComponentsToI80F48(mantissa, e)
<1>1. mantissa \in Nat /\ e \in Int  BY DEF FeedFor, FeedRecords
<1>2. GetPrice(setup, f, price_type) = price
  BY DEF GetPrice, Adapter, PythPushOraclePriceFeed, PythLegacyPriceFeed, PythSetups
<1>3. Whole(setup, f, price_type) = mantissa * EXP_10[Greatest(e, 0)] /\ Decimals(f) = Greatest(-e, 0)
  BY DEF Whole, Decimals
<1>4. DroppedDecimals(setup, f) = 0  BY DEF DroppedDecimals, PythSetups
<1> HIDE DEF mantissa, price, e
<1>5. SUFFICES LET error == (mantissa * EXP_10[Greatest(e, 0)]) * ONE - price * EXP_10[Greatest(-e, 0)]
               IN  0 <= error /\ error < EXP_10[Greatest(-e, 0)] + 0
  BY <1>2, <1>3, <1>4 DEF RoundedDown
<1>6. CASE e < 0
  <2>1. Greatest(e, 0) = 0 /\ Greatest(-e, 0) = -e /\ -e \in Nat  BY <1>1, <1>6 DEF Greatest
  <2>2. EXP_10[-e] \in Nat \ {0} /\ EXP_10[0] = 1  BY <2>1, PowersOfTen
  <2>3. price = (mantissa * ONE) \div EXP_10[-e]  BY <1>6 DEF PythPriceComponentsToI80F48, price
  <2> DEFINE p == EXP_10[-e]
             error == mantissa * ONE - price * p
  <2>4. 0 <= error /\ error < p  BY <1>1, <2>2, <2>3, DividedOnce
  <2>5. (mantissa * 1) * ONE = mantissa * ONE /\ p + 0 = p  BY <1>1, <2>2
  <2> QED BY <2>1, <2>2, <2>4, <2>5
<1>7. CASE ~(e < 0)
  <2>1. Greatest(e, 0) = e /\ Greatest(-e, 0) = 0 /\ e \in Nat  BY <1>1, <1>7 DEF Greatest
  <2> DEFINE p == EXP_10[e]
  <2>2. p \in Nat /\ EXP_10[0] = 1  BY <2>1, PowersOfTen
  <2>3. price = (mantissa * ONE) * p  BY <1>7 DEF PythPriceComponentsToI80F48, price
  <2> HIDE DEF p
  <2>4. (mantissa * p) * ONE = (mantissa * ONE) * p /\ (mantissa * ONE) * p \in Nat
    <3>1. \A x, y, z \in Nat : (x * y) * z = (x * z) * y /\ (x * z) * y \in Nat  OBVIOUS
    <3> QED BY <1>1, <2>2, <3>1, OneAssumption
  <2>5. price \in Nat /\ (mantissa * p) * ONE = price  BY <2>3, <2>4
  <2> HIDE DEF price
  <2>6. (mantissa * p) * ONE - price * 1 = 0  BY <2>5
  <2> QED BY <2>1, <2>2, <2>6 DEF p
<1> QED BY <1>6, <1>7

\* What a Switchboard V2 aggregator reports, with and without decimals beyond
\* MAX_SCALE.
LEMMA SwitchboardRoundsDown ==
  ASSUME NEW f, FeedFor("SwitchboardV2", f), NEW price_type \in PriceTypes
  PROVE  RoundedDown("SwitchboardV2", f, price_type)
<1> DEFINE n == -f.exponent
           kept == IF n <= MAX_SCALE THEN n ELSE MAX_SCALE
           d == EXP_10[n - kept]
           k == EXP_10[kept]
           price == GetPrice("SwitchboardV2", f, price_type)
<1>1. f.price \in Nat /\ f.exponent \in Int /\ n \in Nat  BY DEF FeedFor, FeedRecords
<1>2. MAX_SCALE \in Nat /\ kept \in Nat /\ n - kept \in Nat /\ n = (n - kept) + kept
  BY <1>1, OracleAssumption
<1>3. price = ((f.price \div d) * ONE) \div k
  BY DEF GetPrice, Adapter, SwitchboardV2PriceFeed, SwitchboardDecimalToI80F48
<1>4. Decimals(f) = n /\ DroppedDecimals("SwitchboardV2", f) = n - kept
  <2>1. Decimals(f) = n  BY <1>1 DEF Decimals, Greatest
  <2>2. DroppedDecimals("SwitchboardV2", f) = Greatest(n - MAX_SCALE, 0)
    BY <2>1 DEF DroppedDecimals
  <2>3. Greatest(n - MAX_SCALE, 0) = n - kept
    <3> HIDE DEF n
    <3> QED BY <1>1, <1>2 DEF Greatest
  <2> QED BY <2>1, <2>2, <2>3
<1>5. Greatest(f.exponent, 0) = 0  BY <1>1 DEF Greatest
<1>6. Whole("SwitchboardV2", f, price_type) = f.price
  <2>1. Whole("SwitchboardV2", f, price_type) = f.price * EXP_10[0]
    BY <1>5 DEF Whole, PythSetups
  <2> QED BY <1>1, <2>1, PowersOfTen
<1> HIDE DEF n, kept
<1>7. d \in Nat \ {0} /\ k \in Nat \ {0} /\ (n - kept = 0 => d = 1)  BY <1>2, PowersOfTen
<1>8. EXP_10[n] = d * k
  <2>1. EXP_10[(n - kept) + kept] = d * k  BY Zenon, <1>2, PowerTables, PowersMultiply
  <2> QED BY <1>2, <2>1
<1> HIDE DEF d, k, price
<1>9. /\ 0 <= f.price * ONE - price * (d * k)
      /\ f.price * ONE - price * (d * k) < d * k + d * ONE
      /\ d = 1 => f.price * ONE - price * (d * k) < d * k
  BY Zenon, <1>1, <1>3, <1>7, OneAssumption, DividedTwice
<1> DEFINE error == f.price * ONE - price * (d * k)
           z == d * k
           lost == IF n - kept > 0 THEN d * ONE ELSE 0
<1>10. 0 <= error /\ error < z + lost
  <2>1. error < d * k + d * ONE /\ (d = 1 => error < d * k) /\ 0 <= error  BY <1>9
  <2>2. z \in Nat /\ d * ONE \in Nat  BY <1>7, NatProduct, OneAssumption
  <2> HIDE DEF error
  <2>3. CASE n - kept > 0  BY <2>1, <2>3
  <2>4. CASE ~(n - kept > 0)
    <3>1. n - kept = 0  BY <1>2, <2>4
    <3>2. error < z  BY <1>7, <2>1, <3>1
    <3>3. lost = 0  BY <2>4
    <3> HIDE DEF z, lost
    <3>4. z + lost = z  BY <2>2, <3>3
    <3> QED BY <2>1, <3>2, <3>4
  <2> QED BY <2>3, <2>4
<1> QED BY <1>4, <1>6, <1>8, <1>10 DEF RoundedDown, d, price

\* What a Switchboard pull feed reports.
LEMMA PullRoundsDown ==
  ASSUME NEW f \in FeedRecords, f.exponent = -PRECISION, NEW price_type \in PriceTypes
  PROVE  RoundedDown("SwitchboardPull", f, price_type)
<1> DEFINE price == GetPrice("SwitchboardPull", f, price_type)
           p == EXP_10[PRECISION]
<1>1. f.price \in Nat /\ PRECISION \in Nat  BY OracleAssumption DEF FeedRecords
<1>2. price = (f.price * ONE) \div p
  BY DEF GetPrice, Adapter, SwitchboardPullPriceFeed
<1>3. /\ Greatest(f.exponent, 0) = 0 /\ Decimals(f) = PRECISION
      /\ DroppedDecimals("SwitchboardPull", f) = 0
  BY <1>1 DEF Greatest, Decimals, DroppedDecimals
<1>4. p \in Nat \ {0} /\ EXP_10[0] = 1  BY <1>1, PowersOfTen
<1>5. Whole("SwitchboardPull", f, price_type) = f.price
  <2>1. Whole("SwitchboardPull", f, price_type) = f.price * EXP_10[0]
    BY <1>3 DEF Whole, PythSetups
  <2> QED BY <1>1, <1>4, <2>1
<1>6. 0 <= f.price * ONE - price * p /\ f.price * ONE - price * p < p
  BY <1>1, <1>2, <1>4, DividedOnce
<1>7. p + 0 = p  BY <1>4
<1> HIDE DEF p, price
<1> QED BY <1>3, <1>5, <1>6, <1>7 DEF RoundedDown, p, price

-----------------------------------------------------------------------------
(* An oracle over time.                                                    *)

\* What the account of a bank's oracle holds, whatever its publisher and the
\* admin did.
FeedInv == /\ oracle_setup \in OracleSetups \ {"None"}
           /\ clock \in Nat /\ feed \in FeedRecords
           /\ feed.exponent \in ExponentsOf(oracle_setup)

\* The contents a publisher can write are well-formed.
LEMMA ContentsOK ==
  ASSUME NEW setup \in OracleSetups, NEW t \in Nat, NEW f \in Contents(setup, t)
  PROVE  f \in FeedRecords /\ f.exponent \in ExponentsOf(setup) /\ f.publish_time = t
<1>1. ExponentsOf(setup) \subseteq Int
  BY FeedAssumption, OracleAssumption DEF ExponentsOf, OracleSetups
<1>2. Mantissas \subseteq Nat /\ Deviations \subseteq Nat  BY FeedAssumption
<1> QED BY Zenon, <1>1, <1>2 DEF Contents, FeedRecords

\* Every step of the oracle, its publisher and the clock keeps FeedInv.
LEMMA FeedInvariant == FeedSpec => []FeedInv
<1>1. FeedInit => FeedInv  BY ContentsOK DEF FeedInit, FeedInv
<1>2. FeedInv /\ [FeedNext]_feed_vars => FeedInv'
  <2> SUFFICES ASSUME FeedInv, [FeedNext]_feed_vars PROVE FeedInv'  OBVIOUS
  <2> USE DEF FeedInv
  <2>1. CASE PublishFeed  BY <2>1, ContentsOK DEF PublishFeed
  <2>2. ASSUME NEW setup \in OracleSetups \ {"None"}, NEW max_age \in MaxAges,
               ConfigureOracle(setup, max_age)
        PROVE  FeedInv'
    <3>1. feed.publish_time \in Nat  BY DEF FeedRecords
    <3> QED BY <2>2, <3>1, ContentsOK DEF ConfigureOracle
  <2>3. CASE ClockTick  BY <2>3 DEF ClockTick
  <2>4. CASE UNCHANGED feed_vars  BY <2>4 DEF feed_vars
  <2> QED BY <2>1, <2>2, <2>3, <2>4 DEF FeedNext
<1> QED BY <1>1, <1>2, PTL DEF FeedSpec

\* A feed of the invariant is one its adapter expects.
LEMMA FeedExpected ==
  ASSUME FeedInv
  PROVE  /\ FeedFor(oracle_setup, feed)
         /\ oracle_setup = "SwitchboardPull" => feed.exponent = -PRECISION
BY DEF FeedInv, FeedFor, ExponentsOf, PythSetups

\* For every setup, publisher and confidence: get_price_of_type stays within
\* MAX_CONF_INTERVAL of the reported price and on the cautious side of it.
THEOREM PricesStayInBand == FeedSpec => []BandBracketsPrice
<1>1. FeedInv => BandBracketsPrice
  <2> SUFFICES ASSUME FeedInv, NEW price_type \in PriceTypes
               PROVE  LET price == GetPrice(oracle_setup, feed, price_type)
                          low   == GetPriceOfType(oracle_setup, feed, price_type, "Low")
                          high  == GetPriceOfType(oracle_setup, feed, price_type, "High")
                      IN  /\ 0 <= low /\ low <= price /\ price <= high
                          /\ high - low <= 2 * Mul(price, MAX_CONF_INTERVAL)
    BY DEF BandBracketsPrice
  <2>1. FeedFor(oracle_setup, feed)  BY FeedExpected
  <2> QED BY <2>1, BandOK
<1> QED BY <1>1, FeedInvariant, PTL

\* For every exponent and setup: the conversion of a price to I80F48 rounds
\* down, by less than a unit and the decimals beyond MAX_SCALE.
THEOREM PricesRoundDown == FeedSpec => []ConversionRoundsDown
<1>1. FeedInv => ConversionRoundsDown
  <2> SUFFICES ASSUME FeedInv, NEW price_type \in PriceTypes
               PROVE  RoundedDown(oracle_setup, feed, price_type)
    BY DEF ConversionRoundsDown
  <2>1. FeedFor(oracle_setup, feed) /\ (oracle_setup = "SwitchboardPull" => feed.exponent = -PRECISION)
    BY FeedExpected
  <2>2. oracle_setup \in PythSetups \cup {"SwitchboardV2", "SwitchboardPull"} /\ feed \in FeedRecords
    BY DEF FeedInv, OracleSetups
  <2> QED BY <2>1, <2>2, PythRoundsDown, SwitchboardRoundsDown, PullRoundsDown
<1> QED BY <1>1, FeedInvariant, PTL

=============================================================================
