---------------------------- MODULE ProgramProofs ----------------------------
(***************************************************************************)
(* The program around the banks.  First flash loans, for any accounts and  *)
(* any length of a transaction: every flash loan ends with the transaction *)
(* it began in, nobody is worse off and a disabled account stays disabled. *)
(* Then the transfer fees of Token-2022 mints, for every fee and amount:   *)
(* calculate_pre_fee_amount is the exact inverse of the fee, so the vault  *)
(* gets what is credited and the insurance vault can pay what              *)
(* handle_bankruptcy takes from it.  Last the indexer, for any accounts,   *)
(* buffer and order of messages: only confirmed updates leave its queue,   *)
(* once, and none is dropped early.                                        *)
(***************************************************************************)
EXTENDS Flashloan, TransferFee, GeyserIndexer, FiniteSetTheorems, WellFoundedInduction, TLAPS

\* The part of the invariant each instruction has to keep for every account.
SafeAccount(a) ==
  /\ HasFlag(a, "IN_FLASHLOAN") => pc > 0 /\ \E i \in Positions : i >= pc /\ end_at[i] = a
  /\ HasFlag(a, "IN_FLASHLOAN") \/ baseline[a] <= 1 \/ level[a] >= baseline[a]
  /\ flags[a] # {} => a \in open

Inv == FlashloanInv /\ DisabledStays

\* The initial state satisfies the invariant.
LEMMA InitInv == Init => Inv
BY FlashloanAssumption DEF Init, Inv, FlashloanInv, DisabledStays, TypeOK, NoEnds, Levels, HasFlag,
   Positions, AccountFlags, CONFIGURABLE_FLAGS

\* The sysvar's promise is kept: an instruction that is not an end_flashloan
\* stands at a position that was not read as one, so every end_flashloan still
\* to come stays to come.
LEMMA StillToCome ==
  ASSUME Inv, Step, UNCHANGED end_at, NEW a \in Accounts, HasFlag(a, "IN_FLASHLOAN")
  PROVE  pc' > 0 /\ \E i \in Positions : i >= pc' /\ end_at'[i] = a
<1>1. PICK i \in Positions : i >= pc /\ end_at[i] = a
  BY DEF Inv, FlashloanInv
<1>2. i # pc  BY <1>1, FlashloanAssumption DEF Step
<1>3. i >= pc' /\ pc' > 0 BY <1>1, <1>2, FlashloanAssumption DEF Step, Positions
<1> QED BY <1>1, <1>3

\* A step inside a transaction that keeps the types, the saved state and the
\* promises, and every account safe, keeps the invariant.
LEMMA StepInv ==
  ASSUME Inv, TypeOK', pc > 0, pc' > 0, saved' = saved,
         \A a \in Accounts : SafeAccount(a)',
         \A a \in Accounts : a \in open /\ HasFlag(a, "DISABLED") => a \in open' /\ HasFlag(a, "DISABLED")'
  PROVE  Inv'
BY FlashloanAssumption DEF Inv, FlashloanInv, DisabledStays, SafeAccount, HasFlag, TypeOK

\* What the invariant says of every account.
LEMMA InvSafe ==
  ASSUME Inv, NEW a \in Accounts
  PROVE  SafeAccount(a)
BY DEF Inv, FlashloanInv, SafeAccount

\* Opening, committing and rolling back a transaction keeps the invariant.
LEMMA TransactionInv ==
  ASSUME Inv, Begin \/ Commit \/ Abort
  PROVE  Inv'
<1>1. CASE Begin
  <2>1. \A a \in Accounts : ~HasFlag(a, "IN_FLASHLOAN")
    BY <1>1 DEF Begin, Inv, FlashloanInv
  <2>2. TypeOK'
    BY <1>1, FlashloanAssumption DEF Begin, Inv, FlashloanInv, TypeOK
  <2>3. /\ saved'.flags = flags /\ saved'.open = open /\ pc' = 1 /\ flags' = flags
        /\ open' = open /\ level' = level /\ baseline' = level
    BY <1>1 DEF Begin
  <2>4. \A a \in Accounts : level[a] \in Levels
    BY DEF Inv, FlashloanInv, TypeOK
  <2> QED BY <2>1, <2>2, <2>3, <2>4 DEF Inv, FlashloanInv, DisabledStays, HasFlag, Levels
<1>2. CASE Commit
  <2>1. \A a \in Accounts : ~HasFlag(a, "IN_FLASHLOAN")
    BY <1>2, FlashloanAssumption DEF Commit, Inv, FlashloanInv
  <2>2. TypeOK'
    BY <1>2, FlashloanAssumption DEF Commit, Inv, FlashloanInv, TypeOK, NoEnds
  <2> QED BY <1>2, <2>1, <2>2 DEF Commit, Inv, FlashloanInv, DisabledStays, HasFlag
<1>3. CASE Abort
  <2>1. TypeOK'
    BY <1>3, FlashloanAssumption DEF Abort, Inv, FlashloanInv, TypeOK, NoEnds
  <2>2. \A a \in Accounts : saved.level[a] \in Levels
    BY DEF Inv, FlashloanInv, TypeOK
  <2> QED BY <1>3, <2>1, <2>2 DEF Abort, Inv, FlashloanInv, DisabledStays, HasFlag, Levels
<1> QED BY <1>1, <1>2, <1>3

\* A new account has no flags and meets every requirement.
LEMMA InitializeAccountInv ==
  ASSUME Inv, NEW a \in Accounts, NEW owner \in Authorities, InitializeAccount(a, owner)
  PROVE  Inv'
<1> USE DEF InitializeAccount
<1>1. TypeOK'  BY FlashloanAssumption DEF Inv, FlashloanInv, TypeOK, Step, Positions, Levels
<1>2. \A c \in Accounts : SafeAccount(c)'
  <2> TAKE c \in Accounts
  <2>1. baseline[a] \in Levels /\ flags \in [Accounts -> SUBSET AccountFlags] /\ level \in [Accounts -> Levels]
    BY DEF Inv, FlashloanInv, TypeOK
  <2>2. HasFlag(c, "IN_FLASHLOAN")' => HasFlag(c, "IN_FLASHLOAN")  BY <2>1 DEF HasFlag
  <2> QED BY <2>1, <2>2, StillToCome, InvSafe DEF SafeAccount, HasFlag, Step, Levels
<1>3. pc > 0 /\ pc' > 0 /\ saved' = saved  BY DEF Step, Positions
<1>4. \A c \in Accounts : c \in open /\ HasFlag(c, "DISABLED") => c \in open' /\ HasFlag(c, "DISABLED")'
  BY DEF Inv, FlashloanInv, TypeOK, HasFlag
<1> QED BY <1>1, <1>2, <1>3, <1>4, StepInv

\* Closing clears the flags of an account that can be closed, even in a flash loan.
LEMMA CloseAccountInv ==
  ASSUME Inv, NEW a \in Accounts, CloseAccount(a)
  PROVE  Inv'
<1> USE DEF CloseAccount
<1>1. TypeOK'  BY FlashloanAssumption DEF Inv, FlashloanInv, TypeOK, Step, Positions, Levels,
                  AccountFlags, CONFIGURABLE_FLAGS
<1>2. \A c \in Accounts : SafeAccount(c)'
  <2> TAKE c \in Accounts
  <2>1. /\ baseline \in [Accounts -> Levels] /\ level \in [Accounts -> Levels]
        /\ flags \in [Accounts -> SUBSET AccountFlags]
    BY DEF Inv, FlashloanInv, TypeOK
  <2>2. HasFlag(c, "IN_FLASHLOAN")' => HasFlag(c, "IN_FLASHLOAN")
    BY <2>1 DEF HasFlag, CONFIGURABLE_FLAGS
  <2> QED BY <2>1, <2>2, StillToCome, InvSafe DEF SafeAccount, HasFlag, Step, Levels
<1>3. pc > 0 /\ pc' > 0 /\ saved' = saved  BY DEF Step, Positions
<1>4. \A c \in Accounts : c \in open /\ HasFlag(c, "DISABLED") => c \in open' /\ HasFlag(c, "DISABLED")'
  BY DEF Inv, FlashloanInv, TypeOK, HasFlag, CONFIGURABLE_FLAGS
<1> QED BY <1>1, <1>2, <1>3, <1>4, StepInv

\* Outside a flash loan the account meets the initial requirement afterwards.
LEMMA TakeOutInv ==
  ASSUME Inv, NEW a \in Accounts, NEW new_level \in Levels, TakeOut(a, new_level)
  PROVE  Inv'
<1> USE DEF TakeOut
<1>1. TypeOK'  BY FlashloanAssumption DEF Inv, FlashloanInv, TypeOK, Step, Positions, Levels,
                  AccountFlags, CONFIGURABLE_FLAGS
<1>2. \A c \in Accounts : SafeAccount(c)'
  <2> TAKE c \in Accounts
  <2>1. /\ baseline \in [Accounts -> Levels] /\ level \in [Accounts -> Levels]
        /\ flags \in [Accounts -> SUBSET AccountFlags]
    BY DEF Inv, FlashloanInv, TypeOK
  <2>2. HasFlag(c, "IN_FLASHLOAN")' <=> HasFlag(c, "IN_FLASHLOAN")
    BY <2>1 DEF HasFlag, CONFIGURABLE_FLAGS
  <2> QED BY <2>1, <2>2, StillToCome, InvSafe DEF SafeAccount, HasFlag, Step, Levels, InitHealthy
<1>3. pc > 0 /\ pc' > 0 /\ saved' = saved  BY DEF Step, Positions
<1>4. \A c \in Accounts : c \in open /\ HasFlag(c, "DISABLED") => c \in open' /\ HasFlag(c, "DISABLED")'
  BY DEF Inv, FlashloanInv, TypeOK, HasFlag, CONFIGURABLE_FLAGS
<1> QED BY <1>1, <1>2, <1>3, <1>4, StepInv

\* Deposits and repayments worsen nobody.
LEMMA PutInInv ==
  ASSUME Inv, NEW a \in Accounts, NEW new_level \in Levels, PutIn(a, new_level)
  PROVE  Inv'
<1> USE DEF PutIn
<1>1. TypeOK'  BY FlashloanAssumption DEF Inv, FlashloanInv, TypeOK, Step, Positions, Levels,
                  AccountFlags, CONFIGURABLE_FLAGS
<1>2. \A c \in Accounts : SafeAccount(c)'
  <2> TAKE c \in Accounts
  <2>1. /\ baseline \in [Accounts -> Levels] /\ level \in [Accounts -> Levels]
        /\ flags \in [Accounts -> SUBSET AccountFlags]
    BY DEF Inv, FlashloanInv, TypeOK
  <2>2. HasFlag(c, "IN_FLASHLOAN")' <=> HasFlag(c, "IN_FLASHLOAN")
    BY <2>1 DEF HasFlag, CONFIGURABLE_FLAGS
  <2> QED BY <2>1, <2>2, StillToCome, InvSafe DEF SafeAccount, HasFlag, Step, Levels
<1>3. pc > 0 /\ pc' > 0 /\ saved' = saved  BY DEF Step, Positions
<1>4. \A c \in Accounts : c \in open /\ HasFlag(c, "DISABLED") => c \in open' /\ HasFlag(c, "DISABLED")'
  BY DEF Inv, FlashloanInv, TypeOK, HasFlag, CONFIGURABLE_FLAGS
<1> QED BY <1>1, <1>2, <1>3, <1>4, StepInv

\* A liquidatee is outside a flash loan and was liquidatable; a liquidator is checked.
LEMMA LiquidateInv ==
  ASSUME Inv, NEW a \in Accounts, NEW d \in Accounts, NEW new_level \in Levels, NEW left \in Levels,
         Liquidate(a, d, new_level, left)
  PROVE  Inv'
<1> USE DEF Liquidate
<1>1. TypeOK'
  <2>1. level' \in [Accounts -> Levels]
    BY DEF Inv, FlashloanInv, TypeOK
  <2> QED BY <2>1, FlashloanAssumption DEF Inv, FlashloanInv, TypeOK, Step, Positions
<1>2. \A c \in Accounts : SafeAccount(c)'
  <2> TAKE c \in Accounts
  <2>1. /\ baseline \in [Accounts -> Levels] /\ level \in [Accounts -> Levels]
        /\ flags \in [Accounts -> SUBSET AccountFlags]
    BY DEF Inv, FlashloanInv, TypeOK
  <2>2. HasFlag(c, "IN_FLASHLOAN")' <=> HasFlag(c, "IN_FLASHLOAN")
    BY <2>1 DEF HasFlag, CONFIGURABLE_FLAGS
  <2> QED BY <2>1, <2>2, StillToCome, InvSafe DEF SafeAccount, HasFlag, Step, Levels, InitHealthy
<1>3. pc > 0 /\ pc' > 0 /\ saved' = saved  BY DEF Step, Positions
<1>4. \A c \in Accounts : c \in open /\ HasFlag(c, "DISABLED") => c \in open' /\ HasFlag(c, "DISABLED")'
  BY DEF Inv, FlashloanInv, TypeOK, HasFlag, CONFIGURABLE_FLAGS
<1> QED BY <1>1, <1>2, <1>3, <1>4, StepInv

\* A bankrupt account met no requirement when the transaction reached it.
LEMMA HandleBankruptcyInv ==
  ASSUME Inv, NEW a \in Accounts, NEW new_level \in Levels, HandleBankruptcy(a, new_level)
  PROVE  Inv'
<1> USE DEF HandleBankruptcy, SetFlags
<1>1. TypeOK'  BY FlashloanAssumption DEF Inv, FlashloanInv, TypeOK, Step, Positions, Levels,
                  AccountFlags, CONFIGURABLE_FLAGS
<1>2. \A c \in Accounts : SafeAccount(c)'
  <2> TAKE c \in Accounts
  <2>1. /\ baseline \in [Accounts -> Levels] /\ level \in [Accounts -> Levels]
        /\ flags \in [Accounts -> SUBSET AccountFlags]
    BY DEF Inv, FlashloanInv, TypeOK
  <2>2. HasFlag(c, "IN_FLASHLOAN")' <=> HasFlag(c, "IN_FLASHLOAN")
    BY <2>1 DEF HasFlag, CONFIGURABLE_FLAGS
  <2> QED BY <2>1, <2>2, StillToCome, InvSafe DEF SafeAccount, HasFlag, Step, Levels
<1>3. pc > 0 /\ pc' > 0 /\ saved' = saved  BY DEF Step, Positions
<1>4. \A c \in Accounts : c \in open /\ HasFlag(c, "DISABLED") => c \in open' /\ HasFlag(c, "DISABLED")'
  BY DEF Inv, FlashloanInv, TypeOK, HasFlag, CONFIGURABLE_FLAGS
<1> QED BY <1>1, <1>2, <1>3, <1>4, StepInv

\* The admin cannot set IN_FLASHLOAN_FLAG.
LEMMA SetAccountFlagInv ==
  ASSUME Inv, NEW a \in Accounts, NEW fs \in SUBSET AccountFlags, SetAccountFlag(a, fs)
  PROVE  Inv'
<1> USE DEF SetAccountFlag, SetFlags
<1>1. TypeOK'
  <2>1. flags' \in [Accounts -> SUBSET AccountFlags]
    BY DEF Inv, FlashloanInv, TypeOK
  <2> QED BY <2>1, FlashloanAssumption DEF Inv, FlashloanInv, TypeOK, Step, Positions
<1>2. \A c \in Accounts : SafeAccount(c)'
  <2> TAKE c \in Accounts
  <2>1. /\ baseline \in [Accounts -> Levels] /\ level \in [Accounts -> Levels]
        /\ flags \in [Accounts -> SUBSET AccountFlags]
    BY DEF Inv, FlashloanInv, TypeOK
  <2>2. HasFlag(c, "IN_FLASHLOAN")' <=> HasFlag(c, "IN_FLASHLOAN")
    BY <2>1 DEF HasFlag, CONFIGURABLE_FLAGS
  <2> QED BY <2>1, <2>2, StillToCome, InvSafe DEF SafeAccount, HasFlag, Step, Levels
<1>3. pc > 0 /\ pc' > 0 /\ saved' = saved  BY DEF Step, Positions
<1>4. \A c \in Accounts : c \in open /\ HasFlag(c, "DISABLED") => c \in open' /\ HasFlag(c, "DISABLED")'
  BY DEF Inv, FlashloanInv, TypeOK, HasFlag, CONFIGURABLE_FLAGS
<1> QED BY <1>1, <1>2, <1>3, <1>4, StepInv

\* The admin cannot unset DISABLED_FLAG.
LEMMA UnsetAccountFlagInv ==
  ASSUME Inv, NEW a \in Accounts, NEW fs \in SUBSET AccountFlags, UnsetAccountFlag(a, fs)
  PROVE  Inv'
<1> USE DEF UnsetAccountFlag, UnsetFlags
<1>1. TypeOK'  BY FlashloanAssumption DEF Inv, FlashloanInv, TypeOK, Step, Positions, Levels,
                  AccountFlags, CONFIGURABLE_FLAGS
<1>2. \A c \in Accounts : SafeAccount(c)'
  <2> TAKE c \in Accounts
  <2>1. /\ baseline \in [Accounts -> Levels] /\ level \in [Accounts -> Levels]
        /\ flags \in [Accounts -> SUBSET AccountFlags]
    BY DEF Inv, FlashloanInv, TypeOK
  <2>2. HasFlag(c, "IN_FLASHLOAN")' <=> HasFlag(c, "IN_FLASHLOAN")
    BY <2>1 DEF HasFlag, CONFIGURABLE_FLAGS
  <2> QED BY <2>1, <2>2, StillToCome, InvSafe DEF SafeAccount, HasFlag, Step, Levels
<1>3. pc > 0 /\ pc' > 0 /\ saved' = saved  BY DEF Step, Positions
<1>4. \A c \in Accounts : c \in open /\ HasFlag(c, "DISABLED") => c \in open' /\ HasFlag(c, "DISABLED")'
  BY DEF Inv, FlashloanInv, TypeOK, HasFlag, CONFIGURABLE_FLAGS
<1> QED BY <1>1, <1>2, <1>3, <1>4, StepInv

\* A transfer of authority changes no other flag than its permission.
LEMMA SetAccountAuthorityInv ==
  ASSUME Inv, NEW a \in Accounts, NEW owner \in Authorities, SetAccountAuthority(a, owner)
  PROVE  Inv'
<1> USE DEF SetAccountAuthority, UnsetFlags
<1>1. TypeOK'  BY FlashloanAssumption DEF Inv, FlashloanInv, TypeOK, Step, Positions, Levels,
                  AccountFlags, CONFIGURABLE_FLAGS
<1>2. \A c \in Accounts : SafeAccount(c)'
  <2> TAKE c \in Accounts
  <2>1. /\ baseline \in [Accounts -> Levels] /\ level \in [Accounts -> Levels]
        /\ flags \in [Accounts -> SUBSET AccountFlags]
    BY DEF Inv, FlashloanInv, TypeOK
  <2>2. HasFlag(c, "IN_FLASHLOAN")' <=> HasFlag(c, "IN_FLASHLOAN")
    BY <2>1 DEF HasFlag, CONFIGURABLE_FLAGS
  <2> QED BY <2>1, <2>2, StillToCome, InvSafe DEF SafeAccount, HasFlag, Step, Levels
<1>3. pc > 0 /\ pc' > 0 /\ saved' = saved  BY DEF Step, Positions
<1>4. \A c \in Accounts : c \in open /\ HasFlag(c, "DISABLED") => c \in open' /\ HasFlag(c, "DISABLED")'
  BY DEF Inv, FlashloanInv, TypeOK, HasFlag, CONFIGURABLE_FLAGS
<1> QED BY <1>1, <1>2, <1>3, <1>4, StepInv

\* start_flashloan gives the account the end_flashloan it has read, later in
\* the same transaction; no other account's end_flashloan is replaced.
LEMMA StartFlashloanInv ==
  ASSUME Inv, NEW a \in Accounts, NEW end_index \in Positions, NEW cpi \in BOOLEAN,
         StartFlashloan(a, end_index, cpi)
  PROVE  Inv'
<1> USE DEF StartFlashloan, SetFlags
<1>1. TypeOK'
  <2>1. flags' \in [Accounts -> SUBSET AccountFlags]
    BY DEF Inv, FlashloanInv, TypeOK, AccountFlags
  <2>2. end_at' \in [Positions -> Accounts \cup {NoAccount}]
    BY DEF Inv, FlashloanInv, TypeOK
  <2> QED BY <2>1, <2>2, FlashloanAssumption DEF Inv, FlashloanInv, TypeOK, Step, Positions
<1>2. \A c \in Accounts : SafeAccount(c)'
  <2> TAKE c \in Accounts
  <2>1. /\ baseline \in [Accounts -> Levels] /\ level \in [Accounts -> Levels]
        /\ flags \in [Accounts -> SUBSET AccountFlags]
        /\ end_at \in [Positions -> Accounts \cup {NoAccount}]
        /\ pc \in Positions /\ pc' = pc + 1 /\ end_at[pc] = NoAccount
    BY DEF Inv, FlashloanInv, TypeOK, Step
  <2>2. CASE c = a
    <3>1. end_index \in Positions /\ end_index >= pc' /\ end_at'[end_index] = a /\ pc' > 0
      BY <2>1, FlashloanAssumption DEF Positions
    <3>2. HasFlag(a, "IN_FLASHLOAN")' /\ a \in open'
      BY <2>1 DEF HasFlag
    <3> QED BY <2>2, <3>1, <3>2 DEF SafeAccount
  <2>3. CASE c # a
    <3>1. flags'[c] = flags[c] /\ level' = level /\ baseline' = baseline /\ open' = open
      BY <2>1, <2>3 DEF Step
    <3>2. ASSUME HasFlag(c, "IN_FLASHLOAN")
          PROVE  pc' > 0 /\ \E i \in Positions : i >= pc' /\ end_at'[i] = c
      <4>1. PICK i \in Positions : i >= pc /\ end_at[i] = c
        BY <3>2 DEF Inv, FlashloanInv
      <4>2. i # pc /\ i # end_index
        BY <2>1, <2>3, <4>1, FlashloanAssumption
      <4>3. i >= pc' /\ pc' > 0 /\ end_at'[i] = c
        BY <2>1, <4>1, <4>2 DEF Positions
      <4> QED BY <4>3
    <3> QED BY <3>1, <3>2, InvSafe DEF SafeAccount, HasFlag
  <2> QED BY <2>2, <2>3
<1>3. pc > 0 /\ pc' > 0 /\ saved' = saved  BY DEF Step, Positions
<1>4. \A c \in Accounts : c \in open /\ HasFlag(c, "DISABLED") => c \in open' /\ HasFlag(c, "DISABLED")'
  BY DEF Inv, FlashloanInv, TypeOK, HasFlag
<1> QED BY <1>1, <1>2, <1>3, <1>4, StepInv

\* end_flashloan clears the flag of the account the position belongs to, which
\* then meets the initial requirement.
LEMMA EndFlashloanInv ==
  ASSUME Inv, NEW a \in Accounts, NEW cpi \in BOOLEAN, EndFlashloan(a, cpi)
  PROVE  Inv'
<1> USE DEF EndFlashloan, UnsetFlags
<1>1. TypeOK'
  <2>1. flags' \in [Accounts -> SUBSET AccountFlags]
    BY DEF Inv, FlashloanInv, TypeOK
  <2> QED BY <2>1, FlashloanAssumption DEF Inv, FlashloanInv, TypeOK, Positions
<1>2. \A c \in Accounts : SafeAccount(c)'
  <2> TAKE c \in Accounts
  <2>1. /\ baseline \in [Accounts -> Levels] /\ level \in [Accounts -> Levels]
        /\ flags \in [Accounts -> SUBSET AccountFlags] /\ pc \in Positions
    BY DEF Inv, FlashloanInv, TypeOK
  <2>2. CASE c = a
    BY <2>1, <2>2 DEF SafeAccount, HasFlag, Levels
  <2>3. CASE c # a
    <3>1. flags'[c] = flags[c]  BY <2>1, <2>3
    <3>2. ASSUME HasFlag(c, "IN_FLASHLOAN")
          PROVE  pc' > 0 /\ \E i \in Positions : i >= pc' /\ end_at'[i] = c
      <4>1. PICK i \in Positions : i >= pc /\ end_at[i] = c
        BY <3>2 DEF Inv, FlashloanInv
      <4>2. i # pc  BY <2>3, <4>1, FlashloanAssumption
      <4> QED BY <2>1, <4>1, <4>2 DEF Positions
    <3> QED BY <3>1, <3>2, InvSafe DEF SafeAccount, HasFlag
  <2> QED BY <2>2, <2>3
<1>3. pc > 0 /\ pc' > 0 /\ saved' = saved  BY DEF Positions
<1>4. \A c \in Accounts : c \in open /\ HasFlag(c, "DISABLED") => c \in open' /\ HasFlag(c, "DISABLED")'
  BY DEF Inv, FlashloanInv, TypeOK, HasFlag
<1> QED BY <1>1, <1>2, <1>3, <1>4, StepInv

\* The market moves every level and the level to compare with alike.
LEMMA MarketMovesInv ==
  ASSUME Inv, NEW new_levels \in [Accounts -> Levels], MarketMoves(new_levels)
  PROVE  Inv'
<1> USE DEF MarketMoves
<1>1. TypeOK'  BY FlashloanAssumption DEF Inv, FlashloanInv, TypeOK, Positions
<1>2. \A a \in Accounts : new_levels[a] \in Int  BY DEF Levels
<1>3. CASE pc = 0
  <2>1. end_at = NoEnds /\ \A a \in Accounts : ~HasFlag(a, "IN_FLASHLOAN")
    <3>1. end_at = NoEnds /\ \A a \in Accounts : HasFlag(a, "IN_FLASHLOAN") => pc > 0
      BY Zenon, <1>3 DEF Inv, FlashloanInv
    <3> QED BY <1>3, <3>1
  <2>2. \A a \in Accounts : level'[a] >= baseline'[a]  BY <1>2
  <2> QED BY Zenon, <1>1, <2>1, <2>2 DEF Inv, FlashloanInv, DisabledStays, HasFlag
<1>4. CASE pc \in Positions /\ end_at[pc] = NoAccount
  <2>1. pc > 0 /\ pc' = pc + 1 /\ pc' > 0 /\ pc \in Int  BY <1>4 DEF Positions
  <2>2. \A a \in Accounts : SafeAccount(a)'
    <3> TAKE a \in Accounts
    <3>1. ASSUME HasFlag(a, "IN_FLASHLOAN")
          PROVE  \E i \in Positions : i >= pc' /\ end_at'[i] = a
      <4>1. PICK i \in Positions : i >= pc /\ end_at[i] = a
        BY <3>1 DEF Inv, FlashloanInv
      <4>2. i # pc  BY <1>4, <4>1, FlashloanAssumption
      <4> QED BY <2>1, <4>1, <4>2 DEF Positions
    <3> QED BY <1>2, <2>1, <3>1, InvSafe DEF SafeAccount, HasFlag
  <2> QED BY <1>1, <2>1, <2>2, StepInv DEF HasFlag
<1> QED BY <1>3, <1>4

\* Every step keeps the invariant.
LEMMA NextInv == Inv /\ [Next]_vars => Inv'
<1> SUFFICES ASSUME Inv, [Next]_vars PROVE Inv'  OBVIOUS
<1>1. CASE Begin \/ Commit \/ Abort  BY <1>1, TransactionInv
<1>2. ASSUME NEW a \in Accounts, AccountStep(a) PROVE Inv'
  BY <1>2, InitializeAccountInv, SetAccountAuthorityInv, CloseAccountInv, StartFlashloanInv,
     EndFlashloanInv, TakeOutInv, PutInInv, HandleBankruptcyInv, SetAccountFlagInv,
     UnsetAccountFlagInv DEF AccountStep
<1>3. ASSUME NEW a \in Accounts, NEW c \in Accounts, NEW new_level \in Levels, NEW left \in Levels,
             Liquidate(a, c, new_level, left)
      PROVE  Inv'
  BY <1>3, LiquidateInv
<1>4. ASSUME NEW new_levels \in [Accounts -> Levels], MarketMoves(new_levels) PROVE Inv'
  BY <1>4, MarketMovesInv
<1>5. CASE UNCHANGED vars
  BY <1>5 DEF vars, Inv, FlashloanInv, DisabledStays, TypeOK, HasFlag
<1> QED BY <1>1, <1>2, <1>3, <1>4, <1>5 DEF Next

\* The inductive invariant: an account in a flash loan always has its
\* end_flashloan ahead of it in the transaction.
THEOREM FlashloanInvariant == Spec => []FlashloanInv
<1>1. Inv => FlashloanInv  BY DEF Inv
<1> QED BY InitInv, NextInv, <1>1, PTL DEF Spec

\* IN_FLASHLOAN_FLAG never survives the transaction that set it.
THEOREM FlashloansEnd == Spec => []NoFlashloanOutlivesTransaction
<1>1. FlashloanInv => NoFlashloanOutlivesTransaction
  <2>1. FlashloanInv => \A a \in Accounts : HasFlag(a, "IN_FLASHLOAN") => pc > 0
    BY Zenon DEF FlashloanInv
  <2> QED BY <2>1 DEF NoFlashloanOutlivesTransaction
<1> QED BY FlashloanInvariant, <1>1, PTL

\* No transaction, with any number of flash loans, liquidations and
\* bankruptcies in it, leaves a healthy account less healthy.
THEOREM TransactionsWorsenNobody == Spec => []NoTransactionWorsensAccount
<1>1. FlashloanInv => NoTransactionWorsensAccount
  BY DEF FlashloanInv, NoTransactionWorsensAccount, TypeOK, Levels
<1> QED BY FlashloanInvariant, <1>1, PTL

\* A disabled account stays open and disabled.
THEOREM DisabledForever == Spec => []DisabledStays
<1>1. Inv => DisabledStays  BY DEF Inv
<1> QED BY InitInv, NextInv, <1>1, PTL DEF Spec

-----------------------------------------------------------------------------
(* Transfer fees.                                                          *)


\* A product of natural numbers is one.
LEMMA ProductNat ==
  ASSUME NEW x \in Nat, NEW y \in Nat
  PROVE  x * y \in Nat
OBVIOUS

\* Multiplying by a positive number keeps the order, and the gap.
LEMMA ProductGap ==
  ASSUME NEW x \in Nat, NEW y \in Nat, NEW d \in Nat \ {0}, x < y
  PROVE  d * x + d <= d * y
<1>1. PICK r \in Nat : y = x + 1 + r
  <2>1. y - x - 1 \in Nat /\ y = x + 1 + (y - x - 1)  OBVIOUS
  <2> QED BY <2>1
<1>2. d * y = d * x + d + d * r  BY <1>1
<1>3. d * r \in Nat /\ d * x \in Nat  BY ProductNat
<1> QED BY <1>2, <1>3

\* The defining bounds of ceil_div.
LEMMA CeilDivBounds ==
  ASSUME NEW n \in Nat, NEW d \in Nat \ {0}
  PROVE  /\ CeilDiv(n, d) \in Nat
         /\ n <= d * CeilDiv(n, d)
         /\ d * CeilDiv(n, d) < n + d
<1> DEFINE m == n + d - 1
           q == m \div d
<1>1. m \in Nat  OBVIOUS
<1>2. q \in Nat /\ d * q <= m /\ m < d * q + d
  <2> HIDE DEF m
  <2> QED BY <1>1
<1>3. CeilDiv(n, d) = q  BY DEF CeilDiv
<1>4. d * q \in Nat
  <2> HIDE DEF q
  <2> QED BY <1>2, ProductNat
<1>5. n <= d * q /\ d * q < n + d
  <2> HIDE DEF q
  <2> QED BY <1>2, <1>4
<1> QED BY <1>2, <1>3, <1>5

\* ceil_div is the least number whose d-fold reaches n.
LEMMA CeilDivLeast ==
  ASSUME NEW n \in Nat, NEW d \in Nat \ {0}, NEW k \in Nat, n <= d * k
  PROVE  CeilDiv(n, d) <= k
<1> DEFINE q == CeilDiv(n, d)
<1>1. q \in Nat /\ d * q < n + d  BY CeilDivBounds
<1> HIDE DEF q
<1>2. d * q \in Nat /\ d * k \in Nat  BY <1>1, ProductNat
<1>3. SUFFICES ASSUME k < q PROVE FALSE  BY <1>1 DEF q
<1>4. d * k + d <= d * q  BY <1>1, <1>3, ProductGap
<1> QED BY <1>1, <1>2, <1>4

\* A fee configuration: basis points up to one, and a maximum.
LEMMA FeeFacts ==
  ASSUME NEW f \in FeeConfigs
  PROVE  /\ ONE_IN_BASIS_POINTS \in Nat \ {0}
         /\ f.bps \in Nat /\ f.max \in Nat /\ f.bps <= ONE_IN_BASIS_POINTS
BY TransferFeeAssumption

\* The fee of the token program is the rounded share or the maximum, and never
\* more than the amount.
LEMMA FeeBounds ==
  ASSUME NEW f \in FeeConfigs, NEW p \in Nat
  PROVE  /\ CalculateFee(f, p) \in Nat /\ CalculateFee(f, p) <= p
         /\ CalculateFee(f, p) <= f.max
         /\ CalculateFee(f, p) <= CeilDiv(p * f.bps, ONE_IN_BASIS_POINTS)
         /\ CalculateFee(f, p) = f.max \/ CalculateFee(f, p) = CeilDiv(p * f.bps, ONE_IN_BASIS_POINTS)
<1> DEFINE B == ONE_IN_BASIS_POINTS
           n == p * f.bps
           q == CeilDiv(n, B)
<1>1. B \in Nat \ {0} /\ f.bps \in Nat /\ f.max \in Nat /\ f.bps <= B  BY FeeFacts
<1>2. n \in Nat  BY <1>1, ProductNat
<1>3. n <= B * p
  <2>1. PICK r \in Nat : B = f.bps + r
    <3>1. B - f.bps \in Nat /\ B = f.bps + (B - f.bps)  BY <1>1
    <3> QED BY <3>1
  <2>2. B * p = n + r * p  BY <2>1, <1>1
  <2>3. r * p \in Nat  BY ProductNat
  <2> QED BY <2>2, <2>3, <1>2
<1>4. q \in Nat /\ q <= p
  <2> HIDE DEF n, B
  <2> QED BY Zenon, <1>1, <1>2, <1>3, CeilDivBounds, CeilDivLeast
<1>5. CalculateFee(f, p) = Smaller(q, f.max)  BY DEF CalculateFee
<1> HIDE DEF q, B
<1>6. /\ CalculateFee(f, p) \in Nat /\ CalculateFee(f, p) <= p
      /\ CalculateFee(f, p) <= f.max /\ CalculateFee(f, p) <= q
      /\ CalculateFee(f, p) = f.max \/ CalculateFee(f, p) = q
  BY <1>1, <1>4, <1>5 DEF Smaller
<1> QED BY <1>6 DEF q, B

\* The three branches of calculate_pre_fee_amount.
LEMMA PreFeeBranches ==
  ASSUME NEW f \in FeeConfigs, NEW x \in Nat,
         NEW raw, raw = CeilDiv(x * ONE_IN_BASIS_POINTS, ONE_IN_BASIS_POINTS - f.bps)
  PROVE  \/ (f.bps = 0 \/ x = 0) /\ CalculatePreFeeAmount(f, x) = x
         \/ x # 0 /\ f.bps = ONE_IN_BASIS_POINTS /\ CalculatePreFeeAmount(f, x) = x + f.max
         \/ /\ x # 0 /\ f.bps # 0 /\ f.bps # ONE_IN_BASIS_POINTS /\ raw - x >= f.max
            /\ CalculatePreFeeAmount(f, x) = x + f.max
         \/ /\ x # 0 /\ f.bps # 0 /\ f.bps # ONE_IN_BASIS_POINTS /\ ~(raw - x >= f.max)
            /\ CalculatePreFeeAmount(f, x) = raw
<1>1. ONE_IN_BASIS_POINTS \in Nat \ {0} /\ f.bps \in Nat  BY FeeFacts
<1>2. CASE f.bps = 0 \/ x = 0
  <2>1. f.bps = 0 \/ x = 0 => ~(x # 0 /\ f.bps = ONE_IN_BASIS_POINTS)  BY <1>1
  <2> QED BY <1>2, <2>1 DEF CalculatePreFeeAmount
<1>3. CASE x # 0 /\ f.bps # 0 /\ f.bps = ONE_IN_BASIS_POINTS
  BY <1>3 DEF CalculatePreFeeAmount
<1>4. CASE x # 0 /\ f.bps # 0 /\ f.bps # ONE_IN_BASIS_POINTS
  BY <1>4 DEF CalculatePreFeeAmount
<1> QED BY <1>2, <1>3, <1>4

\* What the division of calculate_pre_fee_amount gives: the least amount whose
\* share without the fee reaches x.
LEMMA RawBounds ==
  ASSUME NEW f \in FeeConfigs, NEW x \in Nat, f.bps # ONE_IN_BASIS_POINTS,
         NEW raw, raw = CeilDiv(x * ONE_IN_BASIS_POINTS, ONE_IN_BASIS_POINTS - f.bps)
  PROVE  /\ raw \in Nat /\ x <= raw
         /\ x * ONE_IN_BASIS_POINTS <= (ONE_IN_BASIS_POINTS - f.bps) * raw
         /\ \A i \in Nat : x * ONE_IN_BASIS_POINTS <= (ONE_IN_BASIS_POINTS - f.bps) * i => raw <= i
<1> DEFINE B == ONE_IN_BASIS_POINTS
           d == B - f.bps
           n == x * B
<1>1. B \in Nat \ {0} /\ f.bps \in Nat /\ d \in Nat \ {0} /\ d <= B  BY FeeFacts
<1>2. n \in Nat  BY <1>1, ProductNat
<1> HIDE DEF d, n
<1>3. raw = CeilDiv(n, d)  BY DEF d, n
<1>4. raw \in Nat /\ n <= d * raw  BY <1>1, <1>2, <1>3, CeilDivBounds
<1>5. \A i \in Nat : n <= d * i => raw <= i  BY <1>1, <1>2, <1>3, CeilDivLeast
<1>6. x <= raw
  <2>1. SUFFICES ASSUME raw < x PROVE FALSE  BY <1>4
  <2>2. PICK r \in Nat : B = d + r
    <3>1. B - d \in Nat /\ B = d + (B - d)  BY <1>1
    <3> QED BY <3>1
  <2>3. n = d * x + r * x  BY <2>2, <1>1 DEF n
  <2>4. r * x \in Nat /\ d * x \in Nat /\ d * raw \in Nat  BY <1>1, <1>4, ProductNat
  <2>5. d * raw + d <= d * x  BY <1>1, <1>4, <2>1, ProductGap
  <2> QED BY <2>3, <2>4, <2>5, <1>1, <1>4
<1> QED BY <1>4, <1>5, <1>6 DEF d, n

\* At least the amount asked for arrives.
LEMMA ArrivesEnough ==
  ASSUME NEW f \in FeeConfigs, NEW x \in Nat
  PROVE  /\ CalculatePreFeeAmount(f, x) \in Nat
         /\ CalculatePostFeeSplDepositAmount(f, CalculatePreFeeAmount(f, x)) \in Nat
         /\ x <= CalculatePostFeeSplDepositAmount(f, CalculatePreFeeAmount(f, x))
<1> DEFINE B == ONE_IN_BASIS_POINTS
           raw == CeilDiv(x * B, B - f.bps)
           pre == CalculatePreFeeAmount(f, x)
           charged == CalculateFee(f, pre)
<1>1. B \in Nat \ {0} /\ f.bps \in Nat /\ f.max \in Nat /\ f.bps <= B  BY FeeFacts
<1>2. pre \in Nat
  <2>1. f.bps # B => raw \in Nat  BY RawBounds
  <2> HIDE DEF raw, B
  <2> QED BY <1>1, <2>1, PreFeeBranches DEF raw, B
<1>3. charged \in Nat /\ charged <= pre /\ charged <= f.max
  <2> HIDE DEF pre
  <2> QED BY <1>2, FeeBounds
<1>4. charged <= CeilDiv(pre * f.bps, B)
  <2> HIDE DEF pre
  <2> QED BY <1>2, FeeBounds
<1>5. x <= pre - charged
  <2>1. CASE (f.bps = 0 \/ x = 0) /\ pre = x
    <3>1. pre * f.bps = 0  BY <2>1, <1>1
    <3>2. CeilDiv(0, B) <= 0  BY <1>1, CeilDivLeast
    <3>3. charged <= CeilDiv(0, B)  BY <3>1, <1>4
    <3>4. CeilDiv(0, B) \in Nat  BY <1>1, CeilDivBounds
    <3> HIDE DEF pre, charged, B
    <3> QED BY <2>1, <3>2, <3>3, <3>4, <1>2, <1>3
  <2>2. CASE pre = x + f.max
    <3> HIDE DEF pre, charged
    <3> QED BY <2>2, <1>1, <1>3
  <2>3. CASE f.bps # B /\ pre = raw
    <3>1. raw \in Nat /\ x <= raw /\ x * B <= (B - f.bps) * raw  BY <2>3, RawBounds
    <3> HIDE DEF raw, charged, B
    <3>2. raw * f.bps <= B * (raw - x)
      <4>1. (B - f.bps) * raw = B * raw - raw * f.bps  BY <1>1, <3>1
      <4>2. B * (raw - x) = B * raw - x * B  BY <1>1, <3>1
      <4>3. B * raw \in Nat /\ raw * f.bps \in Nat /\ x * B \in Nat  BY <1>1, <3>1, ProductNat
      <4> QED BY <3>1, <4>1, <4>2, <4>3
    <3>3. raw * f.bps \in Nat /\ raw - x \in Nat  BY <1>1, <3>1, ProductNat
    <3>4. CeilDiv(raw * f.bps, B) <= raw - x  BY <1>1, <3>2, <3>3, CeilDivLeast
    <3>5. CeilDiv(raw * f.bps, B) \in Nat  BY Zenon, <1>1, <3>3, CeilDivBounds
    <3>6. pre = raw /\ charged <= CeilDiv(raw * f.bps, B)  BY <2>3, <1>4
    <3> HIDE DEF pre
    <3> QED BY <3>1, <3>4, <3>5, <3>6, <1>3
  <2> HIDE DEF raw, pre, charged
  <2> QED BY <2>1, <2>2, <2>3, PreFeeBranches DEF raw, pre
<1>6. CalculatePostFeeSplDepositAmount(f, pre) = pre - charged
  BY DEF CalculatePostFeeSplDepositAmount
<1> HIDE DEF pre, charged
<1>7. pre - charged \in Nat  BY <1>2, <1>3
<1> QED BY <1>2, <1>5, <1>6, <1>7 DEF pre

\* An amount that arrives from i needs no more than i to be sent again.
LEMMA NoMoreThanSent ==
  ASSUME NEW f \in FeeConfigs, NEW i \in Nat, NEW c \in Nat,
         c <= CalculatePostFeeSplDepositAmount(f, i)
  PROVE  CalculatePreFeeAmount(f, c) <= i
<1> DEFINE B == ONE_IN_BASIS_POINTS
           raw == CeilDiv(c * B, B - f.bps)
           pre == CalculatePreFeeAmount(f, c)
           charged == CalculateFee(f, i)
           share == CeilDiv(i * f.bps, B)
<1> SUFFICES pre <= i
  OBVIOUS
<1>1. B \in Nat \ {0} /\ f.bps \in Nat /\ f.max \in Nat /\ f.bps <= B  BY FeeFacts
<1>2. charged \in Nat /\ charged <= i /\ (charged = f.max \/ charged = share)  BY FeeBounds
<1>3. c <= i - charged  BY DEF CalculatePostFeeSplDepositAmount
<1>4. i * f.bps \in Nat  BY <1>1, ProductNat
<1>5. share \in Nat /\ i * f.bps <= B * share  BY Zenon, <1>1, <1>4, CeilDivBounds
<1>6. f.bps # B => raw \in Nat  BY RawBounds
<1>7. CASE pre = c
  <2> HIDE DEF pre, charged
  <2> QED BY <1>2, <1>3, <1>7
<1>8. CASE charged = f.max
  <2>1. pre = c \/ pre = c + f.max \/ (f.bps # B /\ raw \in Nat /\ pre = raw /\ ~(raw - c >= f.max))
    <3> HIDE DEF raw, pre
    <3> QED BY <1>6, PreFeeBranches DEF raw, pre
  <2> HIDE DEF pre, charged, raw
  <2> QED BY <2>1, <1>1, <1>2, <1>3, <1>8
<1>9. CASE charged = share /\ f.bps = B /\ c # 0
  <2>1. B * i <= B * share  BY <1>5, <1>9, <1>1
  <2>2. i <= share
    <3>1. SUFFICES ASSUME share < i PROVE FALSE  BY <1>5
    <3> HIDE DEF share, B
    <3>2. B * share + B <= B * i  BY <3>1, <1>1, <1>5, ProductGap
    <3>3. B * share \in Nat /\ B * i \in Nat  BY <1>1, <1>5, ProductNat
    <3> QED BY <2>1, <3>2, <3>3, <1>1
  <2> HIDE DEF share, charged
  <2> QED BY <2>2, <1>2, <1>3, <1>5, <1>9
<1>10. CASE charged = share /\ f.bps # B
  <2>1. c * B <= (B - f.bps) * i
    <3> HIDE DEF share, charged, B
    <3>1. PICK r \in Nat : i = c + share + r
      <4>1. i - (c + share) \in Nat /\ i = c + share + (i - (c + share))  BY <1>2, <1>3, <1>5, <1>10
      <4> QED BY <4>1
    <3>2. B * i = c * B + B * share + B * r  BY <3>1, <1>1, <1>5
    <3>3. (B - f.bps) * i = B * i - i * f.bps  BY <1>1
    <3>4. /\ B * r \in Nat /\ B * share \in Nat /\ c * B \in Nat /\ B * i \in Nat
      BY <1>1, <1>5, ProductNat
    <3> QED BY <3>2, <3>3, <3>4, <1>4, <1>5
  <2>2. raw \in Nat /\ raw <= i  BY <2>1, <1>10, RawBounds
  <2>3. pre = c \/ (pre = c + f.max /\ raw - c >= f.max) \/ pre = raw
    <3> HIDE DEF raw, pre
    <3> QED BY <1>10, PreFeeBranches DEF raw, pre, B
  <2> HIDE DEF pre, raw, charged
  <2> QED BY <2>2, <2>3, <1>1, <1>2, <1>3
<1>11. c = 0 => pre = c
  <2> HIDE DEF raw, pre
  <2> QED BY PreFeeBranches DEF raw, pre
<1> HIDE DEF pre, charged, share
<1> QED BY <1>2, <1>7, <1>8, <1>9, <1>10, <1>11

-----------------------------------------------------------------------------
\* The bank's invariant: types, and the vault holds what is credited.
FeeInv == FeeTypeOK /\ VaultCoversCredits

\* Every instruction, under whatever fee is in force, keeps the types and
\* leaves the liquidity vault with at least what it credited.
THEOREM VaultAlwaysCovers == FeeSpec => [](FeeTypeOK /\ VaultCoversCredits)
<1>1. FeeInit => FeeInv  BY DEF FeeInit, FeeInv, FeeTypeOK, VaultCoversCredits
<1>2. FeeInv /\ [FeeNext]_fee_vars => FeeInv'
  <2> SUFFICES ASSUME FeeInv, [FeeNext]_fee_vars PROVE FeeInv'
    OBVIOUS
  <2>1. /\ fee \in FeeConfigs /\ liquidity \in Nat /\ insurance \in Nat
        /\ credited \in Int /\ bad_debt \in Nat /\ liquidity >= credited
    BY DEF FeeInv, FeeTypeOK, VaultCoversCredits
  <2>2. \A amount \in Nat : /\ PreFee(amount) \in Nat /\ PostFee(PreFee(amount)) \in Nat
                            /\ amount <= PostFee(PreFee(amount))
    BY <2>1, ArrivesEnough DEF PreFee, PostFee
  <2>3. \A amount \in Nat : PostFee(amount) \in Nat
    <3>1. \A amount \in Nat : /\ CalculateFee(fee, amount) \in Nat
                              /\ CalculateFee(fee, amount) <= amount
      BY <2>1, FeeBounds
    <3> QED BY <3>1 DEF PostFee, CalculatePostFeeSplDepositAmount
  <2>4. ASSUME NEW amount \in Amounts, Deposit(amount) PROVE FeeInv'
    <3>1. amount \in Nat  BY TransferFeeAssumption
    <3> QED BY <2>1, <2>2, <2>4, <3>1 DEF Deposit, FeeInv, FeeTypeOK, VaultCoversCredits
  <2>5. ASSUME NEW amount \in Amounts, Withdraw(amount) PROVE FeeInv'
    <3>1. amount \in Nat  BY TransferFeeAssumption
    <3> QED BY <2>1, <2>2, <2>5, <3>1 DEF Withdraw, FeeInv, FeeTypeOK, VaultCoversCredits
  <2>6. ASSUME NEW amount \in Amounts, LoseDebt(amount) PROVE FeeInv'
    <3>1. amount \in Nat  BY TransferFeeAssumption
    <3> QED BY <2>1, <2>6, <3>1 DEF LoseDebt, FeeInv, FeeTypeOK, VaultCoversCredits
  <2>7. ASSUME NEW amount \in Amounts, FundInsurance(amount) PROVE FeeInv'
    <3>1. amount \in Nat  BY TransferFeeAssumption
    <3> QED BY <2>1, <2>3, <2>7, <3>1 DEF FundInsurance, FeeInv, FeeTypeOK, VaultCoversCredits
  <2>8. CASE WithdrawAll
    BY <2>1, <2>8 DEF WithdrawAll, FeeInv, FeeTypeOK, VaultCoversCredits
  <2>9. CASE LendingPoolHandleBankruptcy
    <3> DEFINE c == CoveredByInsurance
    <3>1. c \in Nat  BY <2>1, <2>3 DEF CoveredByInsurance, Smaller
    <3>2. /\ PreFee(c) \in Nat /\ PostFee(PreFee(c)) \in Nat /\ c <= PostFee(PreFee(c))
      <4> HIDE DEF c
      <4> QED BY <2>2, <3>1
    <3>3. /\ PreFee(c) <= insurance /\ insurance' = insurance - PreFee(c)
          /\ liquidity' = liquidity + PostFee(PreFee(c)) /\ credited' = credited + c
          /\ bad_debt' = 0 /\ fee' = fee
      BY <2>9 DEF LendingPoolHandleBankruptcy, InsuranceCoverageDepositPreFee
    <3> HIDE DEF c
    <3> QED BY <2>1, <3>1, <3>2, <3>3 DEF FeeInv, FeeTypeOK, VaultCoversCredits
  <2>10. ASSUME NEW f \in FeeConfigs, NewEpoch(f) PROVE FeeInv'
    BY <2>1, <2>10 DEF NewEpoch, FeeInv, FeeTypeOK, VaultCoversCredits
  <2>11. CASE UNCHANGED fee_vars
    BY <2>1, <2>11 DEF fee_vars, FeeInv, FeeTypeOK, VaultCoversCredits
  <2> QED BY <2>4, <2>5, <2>6, <2>7, <2>8, <2>9, <2>10, <2>11 DEF FeeNext
<1> QED BY <1>1, <1>2, PTL DEF FeeSpec, FeeInv

\* handle_bankruptcy is never blocked by a fee: the insurance vault has what
\* the coverage costs, for every fee, debt and balance of the vault.
THEOREM InsuranceAlwaysPays == FeeSpec => []InsuranceCanPay
<1>1. FeeTypeOK => InsuranceCanPay
  <2> SUFFICES ASSUME FeeTypeOK PROVE InsuranceCanPay
    OBVIOUS
  <2> DEFINE c == CoveredByInsurance
  <2>1. fee \in FeeConfigs /\ insurance \in Nat /\ bad_debt \in Nat  BY DEF FeeTypeOK
  <2>2. PostFee(insurance) \in Nat
    <3>1. CalculateFee(fee, insurance) \in Nat /\ CalculateFee(fee, insurance) <= insurance
      BY <2>1, FeeBounds
    <3> QED BY <2>1, <3>1 DEF PostFee, CalculatePostFeeSplDepositAmount
  <2>3. c \in Nat /\ c <= PostFee(insurance)
    BY <2>1, <2>2 DEF CoveredByInsurance, Smaller
  <2> HIDE DEF c
  <2>4. PreFee(c) <= insurance  BY <2>1, <2>3, NoMoreThanSent DEF PreFee, PostFee
  <2> QED BY <2>4 DEF InsuranceCanPay, InsuranceCoverageDepositPreFee, c
<1> QED BY <1>1, VaultAlwaysCovers, PTL

\* calculate_pre_fee_amount returns the least amount from which enough
\* arrives, for every fee.
THEOREM PreFeeAlwaysLeast == FeeSpec => []PreFeeIsLeast
<1>1. FeeTypeOK => PreFeeIsLeast
  <2> SUFFICES ASSUME FeeTypeOK, NEW amount \in 0 .. MaxVault
               PROVE  /\ PostFee(PreFee(amount)) >= amount
                      /\ \A less \in 0 .. PreFee(amount) - 1 : PostFee(less) < amount
    BY DEF PreFeeIsLeast
  <2>1. fee \in FeeConfigs /\ amount \in Nat  BY TransferFeeAssumption DEF FeeTypeOK
  <2>2. PreFee(amount) \in Nat /\ PostFee(PreFee(amount)) \in Nat
        /\ amount <= PostFee(PreFee(amount))
    BY <2>1, ArrivesEnough DEF PreFee, PostFee
  <2>3. ASSUME NEW less \in 0 .. PreFee(amount) - 1 PROVE PostFee(less) < amount
    <3>1. less \in Nat /\ ~(PreFee(amount) <= less)  BY <2>2
    <3>2. PostFee(less) \in Int
      <4>1. CalculateFee(fee, less) \in Nat  BY <2>1, <3>1, FeeBounds
      <4> QED BY <3>1, <4>1 DEF PostFee, CalculatePostFeeSplDepositAmount
    <3>3. ~(amount <= PostFee(less))  BY <2>1, <3>1, NoMoreThanSent DEF PreFee, PostFee
    <3> QED BY <2>1, <3>2, <3>3
  <2> QED BY <2>1, <2>2, <2>3
<1> QED BY <1>1, VaultAlwaysCovers, PTL

-----------------------------------------------------------------------------
(* Least and greatest elements.                                            *)

\* A set of natural numbers has the minimum that the buffer evicts.
LEMMA MinIsLeast ==
  ASSUME NEW S, S \subseteq Nat, S # {}
  PROVE  Min(S) \in S /\ \A y \in S : Min(S) <= y
<1>1. PICK x \in S : \A y \in S : ~(<<y, x>> \in OpToRel(<, Nat))
  BY Zenon, NatLessThanWellFounded, WFMin
<1>2. \A y \in S : ~(y < x)
  BY Zenon, <1>1 DEF OpToRel
<1>3. \A y \in S : x <= y
  BY <1>2
<1>. QED
  BY Zenon, <1>3 DEF Min

\* A bounded set of natural numbers has the maximum by which the last write to
\* an account is found.
LEMMA MaxIsGreatest ==
  ASSUME NEW n \in Nat, NEW S, S \subseteq 0 .. n, S # {}
  PROVE  Max(S) \in S /\ \A y \in S : Max(S) >= y
<1> DEFINE T == {n - x : x \in S}
<1>0. \A x \in S : n - x \in Nat
  OBVIOUS
<1>1. T \subseteq Nat /\ T # {}
  BY Zenon, <1>0
<1>2. PICK m \in T : \A y \in T : ~(<<y, m>> \in OpToRel(<, Nat))
  BY Zenon, <1>1, NatLessThanWellFounded, WFMin
<1>3. PICK x \in S : m = n - x
  OBVIOUS
<1>4. \A y \in S : ~(n - y < n - x)
  BY Zenon, <1>1, <1>2, <1>3 DEF OpToRel
<1>5. \A y \in S : x >= y
  BY <1>4
<1>. QED
  BY Zenon, <1>5 DEF Max

-----------------------------------------------------------------------------
(* The inductive invariant.                                                *)

ClusterInv ==
  /\ tip \in Nat
  /\ writes \in Seq([account : AllAccounts, slot : Nat])
  /\ confirmed \subseteq Nat /\ finalized \subseteq confirmed /\ heard \subseteq confirmed

\* The buffer holds the newest of the slots heard, and all of them until it is
\* full.
BufferInv ==
  /\ IsFiniteSet(heard) /\ latest \subseteq heard
  /\ \A s \in heard \ latest, t \in latest : s < t
  /\ heard # latest => Cardinality(latest) >= slots_buffer_size

\* The queue holds known writes under their slots, and none that was taken.
QueueInv ==
  \A s \in DOMAIN queue : \A w \in queue[s] :
    /\ w \in DOMAIN writes /\ writes[w].slot = s
    /\ w \notin batch \cup published \cup unsent

\* What was taken was confirmed, and goes one way.
TakenInv ==
  /\ \A w \in batch \cup published \cup unsent : w \in DOMAIN writes /\ writes[w].slot \in confirmed
  /\ batch \cap (published \cup unsent) = {} /\ published \cap unsent = {}

EntryInv ==
  /\ entries \in [Entries -> Int]
  /\ \A e \in Entries : entries[e] > 0 =>
       entries[e] \in DOMAIN writes /\ writes[entries[e]].slot \in confirmed

IndexerInv == ClusterInv /\ BufferInv /\ QueueInv /\ TakenInv /\ EntryInv

-----------------------------------------------------------------------------
(* The slot buffer.                                                        *)

\* The buffer keeps the newest slots, whatever slot is reported: the pair of
\* the slots heard and the slots kept is maintained by InsertSlot.
LEMMA InsertKeepsNewest ==
  ASSUME BufferInv, heard \subseteq Nat, NEW s \in Nat,
         heard' = heard \cup {s}, latest' = InsertSlot(latest, s)
  PROVE  BufferInv'
<1> DEFINE inserted == latest \cup {s}
<1>1. IsFiniteSet(heard') /\ IsFiniteSet(latest)
  BY Zenon, FS_AddElement, FS_Subset DEF BufferInv
<1>2. /\ IsFiniteSet(inserted)
      /\ Cardinality(inserted) = IF s \in latest THEN Cardinality(latest) ELSE Cardinality(latest) + 1
      /\ Cardinality(latest) \in Nat /\ Cardinality(inserted) \in Nat
  BY <1>1, FS_AddElement, FS_CardinalityType
<1>3. inserted \subseteq Nat /\ inserted # {} /\ slots_buffer_size \in Nat
  BY BufferAssumption DEF BufferInv
<1>4. CASE s \in latest
  <2>1. latest' = latest /\ heard' = heard
    BY <1>4 DEF InsertSlot, BufferInv
  <2>. QED
    BY <2>1 DEF BufferInv
<1>5. CASE s \notin latest /\ ~(Cardinality(inserted) > slots_buffer_size)
  <2>1. latest' = inserted
    BY <1>5 DEF InsertSlot
  <2>2. ~(Cardinality(latest) >= slots_buffer_size)
    BY <1>2, <1>3, <1>5
  <2>3. heard = latest
    BY <2>2 DEF BufferInv
  <2>. QED
    BY <1>1, <2>1, <2>3 DEF BufferInv
<1>6. CASE s \notin latest /\ Cardinality(inserted) > slots_buffer_size
  <2> DEFINE m == Min(inserted)
  <2>1. m \in inserted /\ \A y \in inserted : m <= y
    BY <1>3, MinIsLeast
  <2>2. latest' = inserted \ {m}
    BY <1>6 DEF InsertSlot
  <2>3. Cardinality(latest') = Cardinality(inserted) - 1
    BY Zenon, <1>2, <2>1, <2>2, FS_RemoveElement
  <2>4. Cardinality(latest') >= slots_buffer_size
    BY <1>2, <1>3, <1>6, <2>3
  <2> HIDE DEF m
  <2>5. ASSUME NEW a \in heard' \ latest', NEW t \in latest'
        PROVE  a < t
    <3>1. a \in Nat /\ t \in Nat /\ m \in Nat /\ t \in inserted /\ t # m
      BY <1>3, <2>1, <2>2 DEF BufferInv
    <3>2. CASE a = m
      BY <2>1, <3>1, <3>2
    <3>3. CASE a # m
      <4>1. a \in heard \ latest /\ a # s
        BY <2>2, <3>3
      <4>2. CASE t \in latest
        BY <4>1, <4>2 DEF BufferInv
      <4>3. CASE t = s
        <5>1. m \in latest
          BY <2>1, <3>1, <4>3
        <5>. QED
          BY <2>1, <3>1, <4>1, <5>1 DEF BufferInv
      <4>. QED
        BY <3>1, <4>2, <4>3
    <3>. QED
      BY <3>2, <3>3
  <2>6. latest' \subseteq heard'
    BY Zenon, <2>2 DEF BufferInv
  <2>. QED
    BY <1>1, <2>4, <2>5, <2>6 DEF BufferInv
<1>. QED
  BY <1>4, <1>5, <1>6

\* A slot that was reported and is not kept in the queue is older than
\* slots_buffer_size others.
LEMMA DroppedIsOld ==
  ASSUME ClusterInv, BufferInv, NEW s \in heard, s \in DOMAIN queue,
         s \notin Retained(queue, latest)
  PROVE  Cardinality({t \in heard : t > s}) >= slots_buffer_size
<1> DEFINE newer == {t \in heard : t > s}
<1>1. latest # {} /\ latest \subseteq Nat /\ s \in Nat /\ ~(s >= Min(latest))
  BY Zenon DEF Retained, ClusterInv, BufferInv
<1>2. Min(latest) \in latest /\ \A y \in latest : Min(latest) <= y
  BY Zenon, <1>1, MinIsLeast
<1>3. ASSUME NEW y \in latest
      PROVE  y > s
  <2>1. y \in Nat /\ Min(latest) \in Nat /\ Min(latest) <= y
    BY Zenon, <1>1, <1>2
  <2>. QED
    BY <1>1, <2>1
<1>4. latest \subseteq newer /\ heard # latest
  BY <1>1, <1>3 DEF BufferInv
<1>5. IsFiniteSet(newer) /\ IsFiniteSet(latest)
  BY FS_Subset DEF BufferInv
<1>6. Cardinality(latest) <= Cardinality(newer)
  BY <1>4, <1>5, FS_Subset
<1>7. Cardinality(latest) \in Nat /\ Cardinality(newer) \in Nat /\ slots_buffer_size \in Nat
  BY <1>5, FS_CardinalityType, BufferAssumption
<1>. QED
  BY <1>4, <1>6, <1>7 DEF BufferInv

-----------------------------------------------------------------------------
(* Steps that leave a part of the state alone.                             *)

\* What was written and what was confirmed stays.
History ==
  /\ DOMAIN writes \subseteq DOMAIN writes' /\ \A w \in DOMAIN writes : writes'[w] = writes[w]
  /\ confirmed \subseteq confirmed'

\* A step that hears of no slot leaves the buffer as it was.
LEMMA KeepBuffer ==
  ASSUME BufferInv, UNCHANGED <<heard, latest>>
  PROVE  BufferInv'
BY DEF BufferInv

\* A queue that nobody touches stays consistent as the chain grows.
LEMMA KeepQueue ==
  ASSUME QueueInv, History, UNCHANGED <<queue, batch, published, unsent>>
  PROVE  QueueInv'
BY DEF QueueInv, History

\* The same for what was taken from it.
LEMMA KeepTaken ==
  ASSUME TakenInv, History, UNCHANGED <<batch, published, unsent>>
  PROVE  TakenInv'
BY DEF TakenInv, History

\* The same for the snapshot.
LEMMA KeepEntries ==
  ASSUME EntryInv, History, UNCHANGED entries
  PROVE  EntryInv'
BY DEF EntryInv, History

\* A step off the chain that moves neither the queue nor what was taken.
LEMMA KeepAll ==
  ASSUME IndexerInv,
         UNCHANGED <<cluster, queue, latest, heard, batch, outputs, entries>>
  PROVE  IndexerInv'
BY Zenon DEF IndexerInv, ClusterInv, BufferInv, QueueInv, TakenInv, EntryInv, cluster, outputs

-----------------------------------------------------------------------------
(* The cluster.                                                            *)

\* A message about a slot changes the buffer, and nothing else that matters.
LEMMA SlotStep ==
  ASSUME IndexerInv, NEW s \in Nat, SlotReported(s), writes' = writes, tip' = tip,
         confirmed \subseteq confirmed', confirmed' \subseteq Nat, s \in confirmed',
         finalized' \subseteq confirmed'
  PROVE  IndexerInv'
<1>1. UNCHANGED <<queue, batch, published, unsent, entries>>
  BY Zenon DEF SlotReported, Receive, NotReceived, ListenTransactions, ListenAccounts, ListenSnapshot,
         ProcessTransactions, ProcessAccounts, ProcessSnapshot, ReceiveSlot, outputs, snapshot
<1>2. \/ UNCHANGED <<heard, latest>>
      \/ heard' = heard \cup {s} /\ latest' = InsertSlot(latest, s)
  BY Zenon DEF SlotReported, Receive, NotReceived, ListenTransactions, ListenAccounts, ListenSnapshot,
         ProcessTransactions, ProcessAccounts, ProcessSnapshot, ReceiveSlot
<1>3. heard \subseteq Nat /\ heard' \subseteq confirmed'
  BY Zenon, <1>2 DEF IndexerInv, ClusterInv
<1>4. ClusterInv'
  BY <1>3 DEF IndexerInv, ClusterInv
<1>5. BufferInv'
  BY <1>2, <1>3, KeepBuffer, InsertKeepsNewest DEF IndexerInv
<1>6. History
  BY DEF History
<1>. QED
  BY <1>1, <1>4, <1>5, <1>6, KeepQueue, KeepTaken, KeepEntries DEF IndexerInv

\* A slot is confirmed, and the listener may hear of it.
LEMMA ConfirmStep ==
  ASSUME IndexerInv, NEW s \in Nat, Confirm(s)
  PROVE  IndexerInv'
<1>1. /\ writes' = writes /\ tip' = tip /\ finalized' = finalized
      /\ confirmed' = confirmed \cup {s} /\ SlotReported(s)
  BY DEF Confirm
<1>2. confirmed' \subseteq Nat /\ finalized' \subseteq confirmed'
  BY <1>1 DEF IndexerInv, ClusterInv
<1>. QED
  BY <1>1, <1>2, SlotStep

\* A confirmed slot is finalized, and the listener may hear of it.
LEMMA FinalizeStep ==
  ASSUME IndexerInv, NEW s \in Nat, Finalize(s)
  PROVE  IndexerInv'
<1>1. /\ writes' = writes /\ tip' = tip /\ confirmed' = confirmed /\ s \in confirmed
      /\ finalized' = finalized \cup {s} /\ SlotReported(s)
  BY DEF Finalize
<1>2. confirmed' \subseteq Nat /\ finalized' \subseteq confirmed'
  BY <1>1 DEF IndexerInv, ClusterInv
<1>. QED
  BY <1>1, <1>2, SlotStep

\* A write is queued under its slot as a new update, or goes unnoticed.
LEMMA WriteStep ==
  ASSUME IndexerInv, NEW a \in AllAccounts, Write(a)
  PROVE  IndexerInv'
<1> DEFINE w == Len(writes) + 1
           m == [kind |-> "update", slot |-> tip, account |-> a, write |-> w]
<1>1. /\ writes \in Seq([account : AllAccounts, slot : Nat]) /\ tip \in Nat
      /\ writes' = Append(writes, [account |-> a, slot |-> tip])
      /\ UNCHANGED <<tip, confirmed, finalized>>
      /\ Receive(m) \/ NotReceived
  BY DEF Write, IndexerInv, ClusterInv
<1>2. /\ writes' \in Seq([account : AllAccounts, slot : Nat])
      /\ DOMAIN writes' = DOMAIN writes \cup {w} /\ w \notin DOMAIN writes
      /\ \A v \in DOMAIN writes : writes'[v] = writes[v]
      /\ writes'[w].account = a /\ writes'[w].slot = tip
  <2> DEFINE r == [account |-> a, slot |-> tip]
             R == [account : AllAccounts, slot : Nat]
  <2>1. r \in R /\ r.account = a /\ r.slot = tip  BY <1>1
  <2>2. writes \in Seq(R) /\ writes' = Append(writes, r)  BY <1>1
  <2> HIDE DEF r, R
  <2>3. /\ writes' \in Seq(R)
        /\ DOMAIN writes' = DOMAIN writes \cup {w} /\ w \notin DOMAIN writes
        /\ \A v \in DOMAIN writes : writes'[v] = writes[v]
        /\ writes'[w] = r
    <3>1. /\ Append(writes, r) \in Seq(R)
          /\ DOMAIN Append(writes, r) = DOMAIN writes \cup {Len(writes) + 1}
          /\ Len(writes) + 1 \notin DOMAIN writes
          /\ \A v \in DOMAIN writes : Append(writes, r)[v] = writes[v]
          /\ Append(writes, r)[Len(writes) + 1] = r
      BY <2>1, <2>2
    <3> QED BY Zenon, <2>2, <3>1 DEF w
  <2> QED BY Zenon, <2>1, <2>3 DEF R
<1>3. UNCHANGED <<batch, published, unsent, entries, heard, latest>>
  BY Zenon, <1>1 DEF Receive, NotReceived, ListenTransactions, ListenAccounts, ListenSnapshot,
              ProcessTransactions, ProcessAccounts, ProcessSnapshot, outputs, snapshot
<1>4. \/ queue' = queue
      \/ \E updates \in SUBSET (Queued(queue, tip) \cup {w}) : queue' = WithSlot(queue, tip, updates)
  <2>1. CASE NotReceived
    BY <2>1 DEF NotReceived
  <2>2. CASE Receive(m)
    <3>1. ProcessTransactions(m) \/ ProcessAccounts(m)
      BY <2>2 DEF Receive, ListenTransactions, ListenAccounts, ListenSnapshot, ProcessSnapshot
    <3>2. CASE ProcessTransactions(m)
      BY Zenon, <3>2 DEF ProcessTransactions
    <3>3. CASE ProcessAccounts(m)
      BY Zenon, <3>3 DEF ProcessAccounts
    <3>. QED
      BY <3>1, <3>2, <3>3
  <2>. QED
    BY Zenon, <1>1, <2>1, <2>2
<1> HIDE DEF w, m
<1>5. History
  BY Zenon, <1>1, <1>2 DEF History
<1>6. ClusterInv'
  BY Zenon, <1>1, <1>2, <1>3 DEF IndexerInv, ClusterInv
<1>7. QueueInv'
  <2>1. CASE queue' = queue
    BY <1>3, <1>5, <2>1, KeepQueue DEF IndexerInv
  <2>2. ASSUME NEW updates \in SUBSET (Queued(queue, tip) \cup {w}),
               queue' = WithSlot(queue, tip, updates)
        PROVE  QueueInv'
    <3>1. SUFFICES ASSUME NEW s \in DOMAIN queue', NEW v \in queue'[s]
                   PROVE  /\ v \in DOMAIN writes' /\ writes'[v].slot = s
                          /\ v \notin batch \cup published \cup unsent
      BY Zenon, <1>3 DEF QueueInv
    <3>2. (v = w /\ s = tip) \/ (s \in DOMAIN queue /\ v \in queue[s])
      BY Zenon, <2>2 DEF WithSlot, Queued
    <3>3. CASE v = w /\ s = tip
      <4>1. v \notin DOMAIN writes /\ v \in DOMAIN writes' /\ writes'[v].slot = s
        BY Zenon, <1>2, <3>3
      <4>. QED
        BY Zenon, <4>1 DEF IndexerInv, TakenInv
    <3>4. CASE s \in DOMAIN queue /\ v \in queue[s]
      BY Zenon, <1>2, <3>4 DEF IndexerInv, QueueInv
    <3>. QED
      BY Zenon, <3>2, <3>3, <3>4
  <2>. QED
    BY <1>4, <2>1, <2>2
<1>. QED
  BY <1>3, <1>5, <1>6, <1>7, KeepBuffer, KeepTaken, KeepEntries DEF IndexerInv

-----------------------------------------------------------------------------
(* The tasks that empty the queue.                                         *)

\* The slots handed over were reported confirmed.
LEMMA TakeStep ==
  ASSUME IndexerInv, TakeConfirmed
  PROVE  IndexerInv'
<1>1. /\ queue' = Pending(queue, latest)
      /\ batch' = UNION {queue[s] : s \in ConfirmedSlots(queue, latest)}
      /\ UNCHANGED <<writes, tip, confirmed, finalized, latest, heard, published, unsent, entries>>
  BY Zenon DEF TakeConfirmed, cluster, outputs, snapshot
<1>2. ASSUME NEW w \in batch'
      PROVE  \E s \in DOMAIN queue : s \in latest /\ w \in queue[s]
  BY Zenon, <1>1, <1>2 DEF ConfirmedSlots, Retained
<1>3. ASSUME NEW s \in DOMAIN queue', NEW w \in queue'[s]
      PROVE  s \in DOMAIN queue /\ s \notin latest /\ w \in queue[s]
  BY Zenon, <1>1, <1>3 DEF Pending, ConfirmedSlots, Retained
<1>4. QueueInv'
  <2>1. SUFFICES ASSUME NEW s \in DOMAIN queue', NEW w \in queue'[s]
                 PROVE  /\ w \in DOMAIN writes /\ writes[w].slot = s
                        /\ w \notin batch' \cup published \cup unsent
    BY Zenon, <1>1 DEF QueueInv
  <2>2. /\ s \notin latest /\ w \in DOMAIN writes /\ writes[w].slot = s
        /\ w \notin published \cup unsent
    BY Zenon, <1>3 DEF IndexerInv, QueueInv
  <2>3. w \notin batch'
    <3> SUFFICES ASSUME w \in batch' PROVE FALSE  BY Zenon
    <3>1. PICK r \in DOMAIN queue : r \in latest /\ w \in queue[r]  BY Zenon, <1>2
    <3>2. writes[w].slot = r  BY Zenon, <3>1 DEF IndexerInv, QueueInv
    <3> QED BY Zenon, <2>2, <3>1, <3>2
  <2>. QED
    BY Zenon, <2>2, <2>3
<1>5. TakenInv'
  <2>1. ASSUME NEW w \in batch'
        PROVE  /\ w \in DOMAIN writes /\ writes[w].slot \in confirmed
               /\ w \notin published \cup unsent
    <3>1. PICK s \in DOMAIN queue : s \in latest /\ w \in queue[s]
      BY <1>2
    <3>2. w \in DOMAIN writes /\ writes[w].slot = s /\ w \notin published \cup unsent
      BY <3>1 DEF IndexerInv, QueueInv
    <3>3. s \in confirmed
      BY <3>1 DEF IndexerInv, ClusterInv, BufferInv
    <3>. QED
      BY <3>2, <3>3
  <2>. QED
    BY Zenon, <1>1, <2>1 DEF IndexerInv, TakenInv
<1>6. ClusterInv' /\ BufferInv' /\ EntryInv'
  BY <1>1 DEF IndexerInv, ClusterInv, BufferInv, EntryInv
<1>. QED
  BY <1>4, <1>5, <1>6 DEF IndexerInv

\* Publishing moves the batch to the two outputs.
LEMMA PublishStep ==
  ASSUME IndexerInv, NEW refused, Publish(refused)
  PROVE  IndexerInv'
<1>1. /\ refused \subseteq batch /\ batch' = {}
      /\ published' = published \cup (batch \ refused) /\ unsent' = unsent \cup refused
      /\ UNCHANGED <<writes, tip, confirmed, finalized, queue, latest, heard, entries>>
  BY DEF Publish, cluster, snapshot
<1>2. QueueInv'
  BY Zenon, <1>1 DEF IndexerInv, QueueInv
<1>3. TakenInv'
  BY <1>1 DEF IndexerInv, TakenInv
<1>4. ClusterInv' /\ BufferInv' /\ EntryInv'
  BY <1>1 DEF IndexerInv, ClusterInv, BufferInv, EntryInv
<1>. QED
  BY <1>2, <1>3, <1>4 DEF IndexerInv

\* The last write to an account in given slots, if any, was made in one of them.
LEMMA LastWriteIn ==
  ASSUME ClusterInv, NEW a, NEW slots
  PROVE  /\ LastWrite(a, slots) \in Int
         /\ LastWrite(a, slots) > 0 =>
              LastWrite(a, slots) \in DOMAIN writes /\ writes[LastWrite(a, slots)].slot \in slots
<1> DEFINE S == WritesTo(a, slots) \cup {0}
<1>1. Len(writes) \in Nat /\ DOMAIN writes = 1 .. Len(writes)
  BY DEF ClusterInv
<1>2. S \subseteq 0 .. Len(writes) /\ S # {}
  BY <1>1 DEF WritesTo
<1>3. Max(S) \in S
  BY <1>1, <1>2, MaxIsGreatest
<1>. QED
  BY <1>1, <1>3 DEF LastWrite, WritesTo

\* What the updater takes from the batch and the RPC adds was confirmed.
LEMMA EntryStep ==
  ASSUME IndexerInv, NEW w \in batch, NEW a, UNCHANGED <<writes, confirmed>>,
         \/ entries' = EntriesWith(a, w)
         \/ \E e : entries' = [entries EXCEPT ![e] = w]
  PROVE  EntryInv'
<1>1. w \in DOMAIN writes /\ writes[w].slot \in confirmed
  BY Zenon DEF IndexerInv, TakenInv
<1>2. w \in Int
  BY <1>1 DEF IndexerInv, ClusterInv
<1>3. CASE entries' = EntriesWith(a, w)
  <2>1. SUFFICES ASSUME NEW e \in Entries
                 PROVE  /\ EntriesWith(a, w)[e] \in Int
                        /\ EntriesWith(a, w)[e] > 0 =>
                             /\ EntriesWith(a, w)[e] \in DOMAIN writes
                             /\ writes[EntriesWith(a, w)[e]].slot \in confirmed
    BY <1>3 DEF EntryInv, EntriesWith
  <2>2. EntriesWith(a, w)[e] \in {w, entries[e], Fetched(a, e, entries[e])}
    BY DEF EntriesWith
  <2>3. \/ Fetched(a, e, entries[e]) = entries[e]
        \/ \E b : Fetched(a, e, entries[e]) = LastWrite(b, finalized)
    BY Zenon DEF Fetched
  <2>4. \A b : /\ LastWrite(b, finalized) \in Int
               /\ LastWrite(b, finalized) > 0 =>
                    /\ LastWrite(b, finalized) \in DOMAIN writes
                    /\ writes[LastWrite(b, finalized)].slot \in confirmed
    BY Zenon, LastWriteIn DEF IndexerInv, ClusterInv
  <2>5. /\ entries[e] \in Int
        /\ entries[e] > 0 => entries[e] \in DOMAIN writes /\ writes[entries[e]].slot \in confirmed
    BY DEF IndexerInv, EntryInv
  <2>. QED
    BY Zenon, <1>1, <1>2, <2>2, <2>3, <2>4, <2>5
<1>4. CASE \E e : entries' = [entries EXCEPT ![e] = w]
  BY Zenon, <1>1, <1>2, <1>4 DEF IndexerInv, EntryInv
<1>. QED
  BY <1>3, <1>4

\* An update leaves the batch for the snapshot, or is lost with the task.
LEMMA ApplyStep ==
  ASSUME IndexerInv, NEW w \in batch, udpate_entry(w) \/ create_entry(w) \/ CreateEntryPanics(w)
  PROVE  IndexerInv'
<1>1. /\ batch' \subseteq batch
      /\ UNCHANGED <<writes, tip, confirmed, finalized, queue, latest, heard, published, unsent>>
  BY Zenon DEF udpate_entry, create_entry, CreateEntryPanics, Apply, cluster, outputs
<1>2. \/ entries' = EntriesWith(writes[w].account, w)
      \/ \E e : entries' = [entries EXCEPT ![e] = w]
  BY Zenon DEF udpate_entry, create_entry, CreateEntryPanics
<1>3. EntryInv'
  BY <1>1, <1>2, EntryStep
<1>4. ClusterInv' /\ BufferInv'
  BY <1>1 DEF IndexerInv, ClusterInv, BufferInv
<1>5. QueueInv'
  BY Zenon, <1>1 DEF IndexerInv, QueueInv
<1>6. TakenInv'
  BY <1>1 DEF IndexerInv, TakenInv
<1>. QED
  BY <1>3, <1>4, <1>5, <1>6 DEF IndexerInv

\* The prices of crossbar are no writes.
LEMMA OverwriteStep ==
  ASSUME IndexerInv, NEW ok, OverwritePrices(ok)
  PROVE  IndexerInv'
<1>1. UNCHANGED <<writes, tip, confirmed, finalized, queue, latest, heard, batch, published, unsent>>
  BY Zenon DEF OverwritePrices, cluster, outputs
<1>2. entries' = [e \in Entries |->
        IF \E a \in Tracked : EntryOf[a] = e
        THEN IF \E a \in simulated' : EntryOf[a] = e THEN Simulated ELSE ZeroPrice
        ELSE entries[e]]
  BY Zenon DEF OverwritePrices
<1>3. EntryInv'
  BY <1>1, <1>2 DEF IndexerInv, EntryInv, Simulated, ZeroPrice
<1>4. ClusterInv' /\ BufferInv' /\ QueueInv' /\ TakenInv'
  BY <1>1 DEF IndexerInv, ClusterInv, BufferInv, QueueInv, TakenInv
<1>. QED
  BY <1>3, <1>4 DEF IndexerInv

-----------------------------------------------------------------------------
(* The theorems.                                                           *)

\* The invariant holds when the process starts, in each of its commands.
LEMMA InvInit == IndexerInit => IndexerInv
<1> SUFFICES ASSUME IndexerInit PROVE IndexerInv
  OBVIOUS
<1>1. ClusterInv
  BY DEF IndexerInit, ClusterInv
<1>2. BufferInv
  BY Zenon, FS_EmptySet DEF IndexerInit, BufferInv
<1>3. QueueInv
  BY DEF IndexerInit, QueueInv
<1>4. TakenInv
  BY DEF IndexerInit, TakenInv
<1>5. EntryInv
  BY DEF IndexerInit, EntryInv, InitialEntries, NoData
<1>. QED
  BY <1>1, <1>2, <1>3, <1>4, <1>5 DEF IndexerInv

\* Every step of the cluster and of the tasks keeps the invariant.
LEMMA InvNext == IndexerInv /\ [IndexerNext]_indexer_vars => IndexerInv'
<1> SUFFICES ASSUME IndexerInv, [IndexerNext]_indexer_vars PROVE IndexerInv'
  OBVIOUS
<1>1. CASE \E a \in AllAccounts : Write(a)
  BY <1>1, WriteStep
<1>2. CASE NextSlot
  <2>1. /\ tip' = tip + 1
        /\ UNCHANGED <<writes, confirmed, finalized, queue, latest, heard, batch, published,
                       unsent, entries>>
    BY <1>2 DEF NextSlot, NotReceived, outputs, snapshot
  <2>2. tip' \in Nat
    BY <2>1 DEF IndexerInv, ClusterInv
  <2>. QED
    BY Zenon, <2>1, <2>2 DEF IndexerInv, ClusterInv, BufferInv, QueueInv, TakenInv, EntryInv
<1>3. CASE \E s \in 1 .. MaxSlot[command] : Confirm(s) \/ Finalize(s)
  <2>1. PICK s \in 1 .. MaxSlot[command] : Confirm(s) \/ Finalize(s)
    BY <1>3
  <2>2. s \in Nat
    BY <2>1 DEF IndexerInv, ClusterInv
  <2>. QED
    BY <2>1, <2>2, ConfirmStep, FinalizeStep
<1>4. CASE Listener
  <2>1. UNCHANGED <<cluster, queue, latest, heard, batch, outputs, entries>>
    BY Zenon, <1>4 DEF Listener, ConnectTransactions, ConnectAccounts, ConnectSnapshot, Subscribe, Ping,
                Disconnect, Receive, ListenTransactions, ListenAccounts, ListenSnapshot,
                ProcessTransactions, ProcessAccounts, ProcessSnapshot, snapshot
  <2>. QED
    BY <2>1, KeepAll
<1>5. CASE TakeConfirmed
  BY <1>5, TakeStep
<1>6. CASE \E refused \in SUBSET batch : Publish(refused)
  BY <1>6, PublishStep
<1>7. CASE \E w \in batch : udpate_entry(w) \/ create_entry(w) \/ CreateEntryPanics(w)
  BY <1>7, ApplyStep
<1>8. CASE LockSnapshot \/ UpdateSubscription \/ UnlockSnapshot \/ EndOfSleep
  <2>1. UNCHANGED <<cluster, queue, latest, heard, batch, outputs, entries>>
    BY <1>8 DEF LockSnapshot, UpdateSubscription, UnlockSnapshot, EndOfSleep, snapshot
  <2>. QED
    BY <2>1, KeepAll
<1>9. CASE \E ok \in SUBSET Tracked : OverwritePrices(ok)
  BY <1>9, OverwriteStep
<1>10. CASE UNCHANGED indexer_vars
  BY <1>10, KeepAll DEF indexer_vars, snapshot
<1>. QED
  BY <1>1, <1>2, <1>3, <1>4, <1>5, <1>6, <1>7, <1>8, <1>9, <1>10
     DEF IndexerNext, Cluster, Updater, CollectTransactions, CollectAccounts, CollectSnapshot,
         PublishTransactions, PublishAccounts, AllAccounts

\* The buffer holds the newest slots heard, the queue what was not taken, and
\* what was taken was confirmed, in every state of every command.
THEOREM IndexerInvariant == IndexerSpec => []IndexerInv
BY InvInit, InvNext, PTL DEF IndexerSpec

\* Nothing of an abandoned fork leaves the queue, and nothing leaves it twice,
\* for any accounts, any buffer and any order of messages and lost streams.
THEOREM OnlyConfirmedAlways == IndexerSpec => []OnlyConfirmedOnce
<1>1. IndexerInv => OnlyConfirmedOnce
  BY Zenon DEF IndexerInv, TakenInv, EntryInv, OnlyConfirmedOnce, SlotOf
<1>. QED
  BY <1>1, IndexerInvariant, PTL

\* A slot reported confirmed leaves the queue of index_transactions,
\* index_accounts and snapshot_accounts to be handed over, or because a whole
\* buffer of newer slots was reported before the queue was looked at.
THEOREM ConfirmedAlwaysKept == IndexerSpec => ConfirmedKept
<1> DEFINE Kept == \A s \in DOMAIN queue \cap heard :
      s \notin DOMAIN queue' =>
        \/ queue[s] \subseteq batch'
        \/ Cardinality({t \in heard : t > s}) >= slots_buffer_size
<1>1. IndexerInv /\ [IndexerNext]_indexer_vars => [Kept]_indexer_vars
  <2>1. SUFFICES ASSUME IndexerInv, IndexerNext PROVE Kept
    BY Zenon
  <2>2. CASE TakeConfirmed
    <3>1. SUFFICES ASSUME NEW s \in DOMAIN queue \cap heard, s \notin DOMAIN queue'
                   PROVE  \/ queue[s] \subseteq batch'
                          \/ Cardinality({t \in heard : t > s}) >= slots_buffer_size
      OBVIOUS
    <3>2. CASE s \in Retained(queue, latest)
      <4>1. s \in ConfirmedSlots(queue, latest)
        BY <2>2, <3>1, <3>2 DEF TakeConfirmed, Pending
      <4>. QED
        BY <2>2, <4>1 DEF TakeConfirmed
    <3>3. CASE s \notin Retained(queue, latest)
      BY <2>1, <3>1, <3>3, DroppedIsOld DEF IndexerInv
    <3>. QED
      BY <3>2, <3>3
  <2>3. CASE DOMAIN queue \subseteq DOMAIN queue'
    BY <2>3
  <2>4. TakeConfirmed \/ DOMAIN queue \subseteq DOMAIN queue'
    <3>1. CASE Cluster
      BY Zenon, <3>1 DEF Cluster, Write, NextSlot, Confirm, Finalize, SlotReported, Receive, NotReceived,
                  ListenTransactions, ListenAccounts, ListenSnapshot, ProcessTransactions,
                  ProcessAccounts, ProcessSnapshot, ReceiveSlot, WithSlot
    <3>2. CASE Listener
      BY Zenon, <3>2 DEF Listener, ConnectTransactions, ConnectAccounts, ConnectSnapshot, Subscribe,
         Ping,
                  Disconnect, Receive, ListenTransactions, ListenAccounts, ListenSnapshot,
                  ProcessTransactions, ProcessAccounts, ProcessSnapshot
    <3>3. CASE Updater
      BY Zenon, <3>3 DEF Updater, LockSnapshot, udpate_entry, create_entry, Apply, CreateEntryPanics,
                  UpdateSubscription, UnlockSnapshot
    <3>4. CASE \E refused \in SUBSET batch : PublishTransactions(refused) \/ PublishAccounts(refused)
      BY <3>4 DEF PublishTransactions, PublishAccounts, Publish
    <3>5. CASE (\E ok \in SUBSET Tracked : OverwritePrices(ok)) \/ EndOfSleep
      BY <3>5 DEF OverwritePrices, EndOfSleep
    <3>. QED
      BY <2>1, <3>1, <3>2, <3>3, <3>4, <3>5
         DEF IndexerNext, CollectTransactions, CollectAccounts, CollectSnapshot
  <2>. QED
    BY Zenon, <2>2, <2>3, <2>4
<1>. QED
  BY <1>1, IndexerInvariant, PTL DEF IndexerSpec, ConfirmedKept

=============================================================================
