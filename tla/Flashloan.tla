------------------------------ MODULE Flashloan ------------------------------
(***************************************************************************)
(* Flash loans and account flags.  A transaction is a sequence of          *)
(* instructions that takes effect as a whole or not at all; between        *)
(* lending_account_start_flashloan and lending_account_end_flashloan the   *)
(* risk engine does not look at the account.  start_flashloan reads, in    *)
(* the instructions sysvar, the later instruction at end_index.            *)
(*                                                                         *)
(* The balances of an account are abstracted to the highest requirement it *)
(* meets (RiskEngine, Lending): 0 bankrupt, 1 liquidatable, 2 meets the    *)
(* maintenance requirement, 3 meets the initial requirement.               *)
(***************************************************************************)
EXTENDS Integers, FiniteSets

CONSTANTS Accounts, Authorities,
          NoAccount,       \* not an account
          MaxInstructions  \* bound on the length of a transaction

ASSUME FlashloanAssumption == /\ NoAccount \notin Accounts
                              /\ MaxInstructions \in Nat \ {0}

Levels == 0 .. 3
Positions == 1 .. MaxInstructions
CONFIGURABLE_FLAGS == {"FLASHLOAN_ENABLED", "TRANSFER_AUTHORITY_ALLOWED"}
AccountFlags == {"DISABLED", "IN_FLASHLOAN"} \cup CONFIGURABLE_FLAGS

VARIABLES open,       \* accounts that exist
          flags,      \* account_flags of each account
          authority,  \* authority of each account
          level,      \* the highest requirement each account meets
          pc,         \* position of the next instruction, 0 between transactions
          end_at,     \* end_at[i]: the account whose end_flashloan was read at i
          baseline,   \* level when the transaction began or the market last moved
          saved       \* the accounts before the transaction

accounts == <<open, flags, authority, level>>
vars == <<open, flags, authority, level, pc, end_at, baseline, saved>>

TypeOK ==
  /\ open \in SUBSET Accounts
  /\ flags \in [Accounts -> SUBSET AccountFlags]
  /\ authority \in [Accounts -> Authorities]
  /\ level \in [Accounts -> Levels] /\ baseline \in [Accounts -> Levels]
  /\ pc \in 0 .. MaxInstructions + 1
  /\ end_at \in [Positions -> Accounts \cup {NoAccount}]
  /\ saved \in [open: SUBSET Accounts, flags: [Accounts -> SUBSET AccountFlags],
                authority: [Accounts -> Authorities], level: [Accounts -> Levels]]

NoEnds == [i \in Positions |-> NoAccount]

Init ==
  /\ open = {} /\ flags = [a \in Accounts |-> {}]
  /\ authority \in [Accounts -> Authorities]
  /\ level = [a \in Accounts |-> 3] /\ baseline = level
  /\ pc = 0 /\ end_at = NoEnds
  /\ saved = [open |-> open, flags |-> flags, authority |-> authority, level |-> level]

-----------------------------------------------------------------------------
(* Transactions.                                                           *)

Begin ==
  /\ pc = 0
  /\ pc' = 1
  /\ baseline' = level
  /\ saved' = [open |-> open, flags |-> flags, authority |-> authority, level |-> level]
  /\ UNCHANGED <<open, flags, authority, level, end_at>>

\* A transaction ends after its last instruction; an instruction that was read
\* in the sysvar is one of it.
Commit ==
  /\ pc > 1
  /\ \A i \in Positions : i >= pc => end_at[i] = NoAccount
  /\ pc' = 0 /\ end_at' = NoEnds
  /\ UNCHANGED <<open, flags, authority, level, baseline, saved>>

\* An instruction fails, or the transaction runs out of compute units.
Abort ==
  /\ pc > 0
  /\ pc' = 0 /\ end_at' = NoEnds
  /\ open' = saved.open /\ flags' = saved.flags
  /\ authority' = saved.authority /\ level' = saved.level
  /\ baseline' = saved.level
  /\ UNCHANGED saved

\* The instruction at pc was not read as an end_flashloan, so it can be any.
Step == /\ pc \in Positions
        /\ end_at[pc] = NoAccount
        /\ pc' = pc + 1
        /\ UNCHANGED <<baseline, saved>>

HasFlag(a, flag) == flag \in flags[a]
SetFlags(a, fs) == flags' = [flags EXCEPT ![a] = @ \cup fs]
UnsetFlags(a, fs) == flags' = [flags EXCEPT ![a] = @ \ fs]

-----------------------------------------------------------------------------
(* Instructions.                                                           *)

InitializeAccount(a, owner) ==
  /\ Step
  /\ a \notin open
  /\ open' = open \cup {a}
  /\ flags' = [flags EXCEPT ![a] = {}]
  /\ authority' = [authority EXCEPT ![a] = owner]
  /\ level' = [level EXCEPT ![a] = 3]
  /\ UNCHANGED end_at

\* can_be_closed does not look at IN_FLASHLOAN_FLAG.  An empty account meets
\* every requirement.
CloseAccount(a) ==
  /\ Step
  /\ a \in open /\ ~HasFlag(a, "DISABLED") /\ level[a] = 3
  /\ open' = open \ {a}
  /\ flags' = [flags EXCEPT ![a] = {}]
  /\ UNCHANGED <<authority, level, end_at>>

\* Mutant: the end_flashloan at end_index may be for another account.
StartFlashloan_AnyEnd(a, end_index, cpi) ==
  /\ Step
  /\ a \in open /\ ~HasFlag(a, "DISABLED") /\ ~HasFlag(a, "IN_FLASHLOAN") /\ ~cpi
  /\ end_index \in Positions /\ pc < end_index
  /\ \E c \in Accounts : /\ end_at[end_index] \in {NoAccount, c}
                         /\ end_at' = [end_at EXCEPT ![end_index] = c]
  /\ SetFlags(a, {"IN_FLASHLOAN"})
  /\ UNCHANGED <<open, authority, level>>

\* Mutant: the end_flashloan need not come after the start.
StartFlashloan_AnyIndex(a, end_index, cpi) ==
  /\ Step
  /\ a \in open /\ ~HasFlag(a, "DISABLED") /\ ~HasFlag(a, "IN_FLASHLOAN") /\ ~cpi
  /\ end_index \in Positions
  /\ end_at[end_index] \in {NoAccount, a}
  /\ end_at' = [end_at EXCEPT ![end_index] = a]
  /\ SetFlags(a, {"IN_FLASHLOAN"})
  /\ UNCHANGED <<open, authority, level>>

\* cpi: the instruction is called by another program.
StartFlashloan(a, end_index, cpi) ==
  /\ Step
  /\ a \in open /\ ~HasFlag(a, "DISABLED") /\ ~HasFlag(a, "IN_FLASHLOAN") /\ ~cpi
  /\ end_index \in Positions /\ pc < end_index
  /\ end_at[end_index] \in {NoAccount, a}
  /\ end_at' = [end_at EXCEPT ![end_index] = a]
  /\ SetFlags(a, {"IN_FLASHLOAN"})
  /\ UNCHANGED <<open, authority, level>>

\* Mutant: the health is not checked.
EndFlashloan_Unchecked(a, cpi) ==
  /\ pc \in Positions /\ end_at[pc] \in {NoAccount, a} /\ pc' = pc + 1
  /\ a \in open /\ ~cpi
  /\ UnsetFlags(a, {"IN_FLASHLOAN"})
  /\ UNCHANGED <<open, authority, level, end_at, baseline, saved>>

EndFlashloan(a, cpi) ==
  /\ pc \in Positions /\ end_at[pc] \in {NoAccount, a} /\ pc' = pc + 1
  /\ a \in open /\ ~cpi
  /\ UnsetFlags(a, {"IN_FLASHLOAN"})
  /\ level[a] = 3
  /\ UNCHANGED <<open, authority, level, end_at, baseline, saved>>

\* check_account_init_health: skipped during a flash loan.
InitHealthy(a) == HasFlag(a, "IN_FLASHLOAN") \/ level[a] = 3

\* lending_account_borrow, lending_account_withdraw.
TakeOut(a, new_level) ==
  /\ Step
  /\ a \in open /\ ~HasFlag(a, "DISABLED")
  /\ level' = [level EXCEPT ![a] = new_level]
  /\ UNCHANGED <<open, flags, authority, end_at>>
  /\ InitHealthy(a)'

\* lending_account_deposit, lending_account_repay: never checked.
PutIn(a, new_level) ==
  /\ Step
  /\ a \in open /\ ~HasFlag(a, "DISABLED")
  /\ new_level >= level[a]
  /\ level' = [level EXCEPT ![a] = new_level]
  /\ UNCHANGED <<open, flags, authority, end_at>>

\* The liquidatee may not be in a flash loan; the liquidator may.  Losing
\* collateral may leave the liquidatee bankrupt.
Liquidate(liquidator, liquidatee, new_level, left) ==
  /\ Step
  /\ liquidator # liquidatee /\ {liquidator, liquidatee} \subseteq open
  /\ ~HasFlag(liquidatee, "IN_FLASHLOAN")
  /\ level[liquidatee] <= 1 /\ left <= 1
  /\ level' = [level EXCEPT ![liquidator] = new_level, ![liquidatee] = left]
  /\ UNCHANGED <<open, flags, authority, end_at>>
  /\ InitHealthy(liquidator)'

HandleBankruptcy(a, new_level) ==
  /\ Step
  /\ a \in open /\ ~HasFlag(a, "IN_FLASHLOAN")
  /\ level[a] = 0
  /\ level' = [level EXCEPT ![a] = new_level]
  /\ SetFlags(a, {"DISABLED"})
  /\ UNCHANGED <<open, authority, end_at>>

\* Instructions of the group admin: only configurable flags.
SetAccountFlag(a, fs) ==
  /\ Step
  /\ a \in open /\ fs \subseteq CONFIGURABLE_FLAGS
  /\ SetFlags(a, fs)
  /\ UNCHANGED <<open, authority, level, end_at>>

\* Mutant: any flag can be unset.
UnsetAccountFlag_Any(a, fs) ==
  /\ Step
  /\ a \in open
  /\ UnsetFlags(a, fs)
  /\ UNCHANGED <<open, authority, level, end_at>>

UnsetAccountFlag(a, fs) ==
  /\ Step
  /\ a \in open /\ fs \subseteq CONFIGURABLE_FLAGS
  /\ UnsetFlags(a, fs)
  /\ UNCHANGED <<open, authority, level, end_at>>

\* set_new_account_authority_checked uses the permission up.
SetAccountAuthority(a, new_authority) ==
  /\ Step
  /\ a \in open /\ HasFlag(a, "TRANSFER_AUTHORITY_ALLOWED") /\ ~HasFlag(a, "DISABLED")
  /\ authority' = [authority EXCEPT ![a] = new_authority]
  /\ UnsetFlags(a, {"TRANSFER_AUTHORITY_ALLOWED"})
  /\ UNCHANGED <<open, level, end_at>>

\* Prices, interest, losses and the totals of the banks move, also by other
\* instructions in the middle of a transaction.
MarketMoves(new_levels) ==
  /\ pc = 0 \/ (pc \in Positions /\ end_at[pc] = NoAccount)
  /\ pc' = IF pc = 0 THEN 0 ELSE pc + 1
  /\ level' = new_levels /\ baseline' = new_levels
  /\ UNCHANGED <<open, flags, authority, end_at, saved>>

-----------------------------------------------------------------------------
AccountStep(a) ==
  \/ \E owner \in Authorities : InitializeAccount(a, owner) \/ SetAccountAuthority(a, owner)
  \/ CloseAccount(a)
  \/ \E end_index \in Positions, cpi \in BOOLEAN : StartFlashloan(a, end_index, cpi)
  \/ \E cpi \in BOOLEAN : EndFlashloan(a, cpi)
  \/ \E new_level \in Levels : \/ TakeOut(a, new_level)
                                \/ PutIn(a, new_level)
                                \/ HandleBankruptcy(a, new_level)
  \/ \E fs \in SUBSET AccountFlags : SetAccountFlag(a, fs) \/ UnsetAccountFlag(a, fs)

Next ==
  \/ Begin \/ Commit \/ Abort
  \/ \E a \in Accounts : AccountStep(a)
  \/ \E a, c \in Accounts, new_level, left \in Levels : Liquidate(a, c, new_level, left)
  \/ \E new_levels \in [Accounts -> Levels] : MarketMoves(new_levels)

Spec == Init /\ [][Next]_vars

-----------------------------------------------------------------------------
(* Properties.                                                             *)

\* No account is left in a flash loan: whatever instructions a transaction
\* has, in whatever order, with the account closed and created again or the
\* admin setting flags in between, IN_FLASHLOAN_FLAG is clear between
\* transactions.
NoFlashloanOutlivesTransaction ==
  pc = 0 => \A a \in Accounts : ~HasFlag(a, "IN_FLASHLOAN")

\* A committed transaction, with flash loans or not, never leaves an account
\* that met its maintenance requirement meeting a lower one than before by
\* what the transaction did to it: not by taking out more than its collateral
\* covers, not by a liquidation or a bankruptcy in the middle of a flash loan.
NoTransactionWorsensAccount ==
  pc = 0 => \A a \in open : baseline[a] >= 2 => level[a] >= baseline[a]

\* An account that went through a bankruptcy stays disabled, and stays: no
\* sequence of instructions closes it, creates it again or clears the flag,
\* the admin's flag instructions included.
DisabledStays ==
  \A a \in Accounts : "DISABLED" \in saved.flags[a] => a \in open /\ HasFlag(a, "DISABLED")

\* The inductive invariant of the proofs: an account in a flash loan has its
\* end_flashloan still to come, and the other accounts are no worse than when
\* the transaction began.
FlashloanInv ==
  /\ TypeOK
  /\ pc = 0 => end_at = NoEnds
  /\ \A a \in Accounts : HasFlag(a, "IN_FLASHLOAN") =>
       pc > 0 /\ \E i \in Positions : i >= pc /\ end_at[i] = a
  /\ \A a \in Accounts : "IN_FLASHLOAN" \notin saved.flags[a]
  /\ \A a \in Accounts :
       HasFlag(a, "IN_FLASHLOAN") \/ baseline[a] <= 1 \/ level[a] >= baseline[a]
  /\ \A a \in Accounts : flags[a] # {} => a \in open
  /\ \A a \in Accounts : saved.flags[a] # {} => a \in saved.open
=============================================================================
