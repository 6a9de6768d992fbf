----------------------------- MODULE GroupAdmin -----------------------------
(***************************************************************************)
(* The global fee state, the groups and their banks.  A group works with a *)
(* copy of the fee state (fee_state_cache) that anyone may refresh; the    *)
(* fees charged by accrual and borrowing come from the copy, the fees      *)
(* collected go to the wallet of the fee state itself.                     *)
(***************************************************************************)
EXTENDS Integers, Sequences, FiniteSets, Functions

CONSTANTS Groups, Keys, BankKeys, Mints, Seeds,
          Fees,       \* [fixed, rate]: program_fee_fixed, program_fee_rate
          FlatFees,   \* bank_init_flat_sol_fee, in lamports
          MaxEdits,   \* bound on edits of the fee state
          MaxBanks,   \* bound on the number of banks
          Lamports    \* what the fee payers have

\* Those who pay for new banks, together; none of them is a fee wallet.
Payers == "payers"

ASSUME AdminAssumption == /\ FlatFees \subseteq Nat /\ MaxEdits \in Nat /\ MaxBanks \in Nat /\ Lamports \in Nat
                          /\ Fees \subseteq [fixed: Nat, rate: Nat] /\ Payers \notin Keys

VARIABLES fee_state,  \* the FeeState account
          groups,     \* the MarginfiGroup accounts
          banks,      \* the Bank accounts
          lamports,   \* of the fee payers and of the fee wallets
          history     \* the fee states so far, for the properties

admin_vars == <<fee_state, groups, banks, lamports, history>>

NoFeeState == [exists |-> FALSE]
NoGroup == [exists |-> FALSE]
FLAGS == {"PROGRAM_FEES_ENABLED", "RESERVED"}
ALLOWED_FLAGS == {"PROGRAM_FEES_ENABLED"}

FeeStates == [exists: {TRUE}, global_fee_admin: Keys, global_fee_wallet: Keys,
              bank_init_flat_sol_fee: FlatFees, fees: Fees]
GroupRecords == [exists: {TRUE}, admin: Keys, group_flags: SUBSET FLAGS,
                 cache: [global_fee_wallet: Keys, fees: Fees]]
BankAccounts == [key: BankKeys \cup (Groups \X Mints \X Seeds), group: Groups,
                 created: Nat]  \* which fee state was in force, for the properties

AdminTypeOK ==
  /\ fee_state \in FeeStates \cup {NoFeeState}
  /\ groups \in [Groups -> GroupRecords \cup {NoGroup}]
  /\ banks \in SUBSET BankAccounts
  /\ lamports \in [Keys \cup {Payers} -> Nat]
  /\ history \in Seq(FeeStates)

AdminInit ==
  /\ fee_state = NoFeeState
  /\ groups = [g \in Groups |-> NoGroup]
  /\ banks = {}
  /\ lamports = [k \in Keys \cup {Payers} |-> IF k = Payers THEN Lamports ELSE 0]
  /\ history = << >>

-----------------------------------------------------------------------------
InitializeFeeState(admin, wallet, flat, fees) ==
  /\ fee_state = NoFeeState
  /\ fee_state' = [exists |-> TRUE, global_fee_admin |-> admin, global_fee_wallet |-> wallet,
                   bank_init_flat_sol_fee |-> flat, fees |-> fees]
  /\ history' = << fee_state' >>
  /\ UNCHANGED <<groups, banks, lamports>>

\* The admin of the fee state stays.
EditFeeState(signer, wallet, flat, fees) ==
  /\ fee_state.exists /\ signer = fee_state.global_fee_admin
  /\ Len(history) <= MaxEdits
  /\ fee_state' = [fee_state EXCEPT !.global_fee_wallet = wallet,
                                    !.bank_init_flat_sol_fee = flat, !.fees = fees]
  /\ history' = Append(history, fee_state')
  /\ UNCHANGED <<groups, banks, lamports>>

CacheOf(fs) == [global_fee_wallet |-> fs.global_fee_wallet, fees |-> fs.fees]

InitializeGroup(g, admin) ==
  /\ fee_state.exists
  /\ ~groups[g].exists
  /\ groups' = [groups EXCEPT ![g] = [exists |-> TRUE, admin |-> admin,
                  group_flags |-> {"PROGRAM_FEES_ENABLED"}, cache |-> CacheOf(fee_state)]]
  /\ UNCHANGED <<fee_state, banks, lamports, history>>

ConfigureGroup(g, signer, new_admin) ==
  /\ groups[g].exists /\ signer = groups[g].admin
  /\ groups' = [groups EXCEPT ![g].admin = new_admin]
  /\ UNCHANGED <<fee_state, banks, lamports, history>>

\* The global fee admin, not the group's, switches program fees.
ConfigGroupFee(g, signer, flags) ==
  /\ groups[g].exists /\ fee_state.exists /\ signer = fee_state.global_fee_admin
  /\ flags \subseteq ALLOWED_FLAGS
  /\ groups' = [groups EXCEPT ![g].group_flags = flags]
  /\ UNCHANGED <<fee_state, banks, lamports, history>>

\* Mutant: the wallet is not copied.
PropagateFee_NoWallet(g) ==
  /\ groups[g].exists /\ fee_state.exists
  /\ groups' = [groups EXCEPT ![g].cache.fees = fee_state.fees]
  /\ UNCHANGED <<fee_state, banks, lamports, history>>

PropagateFee(g) ==
  /\ groups[g].exists /\ fee_state.exists
  /\ groups' = [groups EXCEPT ![g].cache = CacheOf(fee_state)]
  /\ UNCHANGED <<fee_state, banks, lamports, history>>

\* Mutant: the fee goes to the wallet in the group's cache.
PayFlatFee_Cached(g) ==
  /\ lamports[Payers] >= fee_state.bank_init_flat_sol_fee
  /\ lamports' = [lamports EXCEPT ![Payers] = @ - fee_state.bank_init_flat_sol_fee,
                    ![groups[g].cache.global_fee_wallet] = @ + fee_state.bank_init_flat_sol_fee]

PayFlatFee(g) ==
  /\ lamports[Payers] >= fee_state.bank_init_flat_sol_fee
  /\ lamports' = [lamports EXCEPT ![Payers] = @ - fee_state.bank_init_flat_sol_fee,
                    ![fee_state.global_fee_wallet] = @ + fee_state.bank_init_flat_sol_fee]

\* The two instructions differ in the key of the new bank account: a fresh one,
\* or one derived from the group, the mint and a seed.
AddBankAt(g, signer, key) ==
  /\ groups[g].exists /\ fee_state.exists /\ signer = groups[g].admin
  /\ Cardinality(banks) < MaxBanks
  /\ \A b \in banks : b.key # key
  /\ PayFlatFee(g)
  /\ banks' = banks \cup {[key |-> key, group |-> g, created |-> Len(history)]}
  /\ UNCHANGED <<fee_state, groups, history>>

LendingPoolAddBank(g, signer, key) == AddBankAt(g, signer, key)
LendingPoolAddBankWithSeed(g, signer, mint, seed) == AddBankAt(g, signer, <<g, mint, seed>>)

AdminNext ==
  \/ \E signer, wallet \in Keys, flat \in FlatFees, fees \in Fees :
       InitializeFeeState(signer, wallet, flat, fees) \/ EditFeeState(signer, wallet, flat, fees)
  \/ \E g \in Groups, signer \in Keys :
       \/ InitializeGroup(g, signer)
       \/ \E new_admin \in Keys : ConfigureGroup(g, signer, new_admin)
       \/ \E flags \in SUBSET FLAGS : ConfigGroupFee(g, signer, flags)
       \/ \E key \in BankKeys : LendingPoolAddBank(g, signer, key)
       \/ \E mint \in Mints, seed \in Seeds : LendingPoolAddBankWithSeed(g, signer, mint, seed)
  \/ \E g \in Groups : PropagateFee(g)

AdminSpec == AdminInit /\ [][AdminNext]_admin_vars

-----------------------------------------------------------------------------
(* Properties.                                                             *)

\* The copy a group works with is one fee state that was in force, wallet and
\* fees together: it may be old, but it never mixes two edits, however edits
\* and refreshes of several groups interleave.
CacheWasInForce ==
  \A g \in Groups : groups[g].exists =>
    \E i \in 1 .. Len(history) : groups[g].cache = CacheOf(history[i])

\* The flat fees of the banks created while wallet was that of the fee state.
PaidTo(wallet) == {b \in banks : history[b.created].global_fee_wallet = wallet}
FlatFeesPaidTo(wallet) == [b \in PaidTo(wallet) |-> history[b.created].bank_init_flat_sol_fee]

\* Every wallet has received exactly the flat fees of the banks created while
\* it was the wallet of the fee state, each at the fee of that time, whatever
\* the copies in the groups said.
WalletsReceiveTheirFees ==
  \A wallet \in Keys : lamports[wallet] = SumFunction(FlatFeesPaidTo(wallet))
=============================================================================
