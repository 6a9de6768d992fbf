------------------------------ MODULE Alerting ------------------------------
(***************************************************************************)
(* The alerter: a process started again and again that checks the oracles  *)
(* of all banks of the configured groups and then some balances, one       *)
(* request after the other, and opens or resolves an incident for each.    *)
(* Any error ends the pass and opens an incident of its own.               *)
(*                                                                         *)
(* The age of an oracle account is the time since its last update, counted *)
(* up to the first value that is too old; Absent is an account that does   *)
(* not exist.                                                              *)
(***************************************************************************)
EXTENDS Integers, Sequences, FiniteSets, SequencesExt, FiniteSetsExt

CONSTANTS marginfi_groups,    \* a sequence of groups
          max_age_secs,       \* per group
          BanksOf,            \* per group, the banks in the order of the RPC
          Setup,              \* oracle_setup of each bank
          Oracles,            \* per bank, its oracle account; for a Pyth push feed the
                              \* one sponsored by marginfi, then the one by Pyth
          balance_alert,      \* a sequence of addresses
          min_balance_lamports,
          MaxBalance

Groups == Range(marginfi_groups)
Banks == UNION {Range(BanksOf[g]) : g \in Groups}
Addresses == Range(balance_alert)
OracleAccounts == UNION {Range(Oracles[b]) : b \in Banks}
Checked == {b \in Banks : Setup[b] \in {"SwitchboardV2", "PythPushOracle", "SwitchboardPull"}}
Subjects == Checked \cup Addresses
GroupOf(b) == CHOOSE g \in Groups : b \in Range(BanksOf[g])

Absent == -1
TooOld == Max({max_age_secs[g] : g \in Groups}) + 1

ASSUME AlertingAssumption ==
  /\ max_age_secs \in [Groups -> Nat] /\ min_balance_lamports \in [Addresses -> Nat]
  /\ Banks \cap Addresses = {} /\ Groups \cap Subjects = {} /\ MaxBalance \in Nat
  /\ \A b \in Banks : Len(Oracles[b]) = (IF Setup[b] = "PythPushOracle" THEN 2 ELSE 1)

VARIABLES age, balance,   \* the state of the chain
          pass,           \* "idle", "checking", "failed"
          todo,           \* the groups, banks and addresses still to be checked
          incidents,      \* the open incidents, by dedup_key; "error" is the alerter's own
          steady          \* history: what has been good, or bad, since the pass began

chain == <<age, balance>>
vars == <<chain, pass, todo, incidents, steady>>

Init ==
  /\ age \in [OracleAccounts -> {Absent, 0}]
  /\ balance \in [Addresses -> 0 .. MaxBalance]
  /\ pass = "idle" /\ todo = <<>> /\ incidents = {} /\ steady = {}

-----------------------------------------------------------------------------
(* What a check would find.                                                *)

\* The accounts of bank b that exist; the first one counts.
FoundOracles(b) == SelectSeq(Oracles[b], LAMBDA a : age[a] # Absent)

\* The check of x can be made, if the RPC answers, and what it reports.
Readable(x) == x \in Addresses \/ FoundOracles(x) # <<>>
Bad(x) == IF x \in Addresses THEN balance[x] < min_balance_lamports[x]
          ELSE age[Head(FoundOracles(x))] > max_age_secs[GroupOf(x)]

\* The subjects that a step of the chain leaves as they were.
Unmoved == {x \in steady : Readable(x) /\ Readable(x)' /\ Bad(x)' = Bad(x)}

-----------------------------------------------------------------------------
(* The chain (external).                                                   *)

Tick ==
  /\ age' = [a \in OracleAccounts |-> IF age[a] \in {Absent, TooOld} THEN age[a] ELSE age[a] + 1]
  /\ UNCHANGED <<balance, pass, todo, incidents>> /\ steady' = Unmoved

PublishPrice(a) ==
  /\ age' = [age EXCEPT ![a] = 0]
  /\ UNCHANGED <<balance, pass, todo, incidents>> /\ steady' = Unmoved

MoveBalance(w, amount) ==
  /\ balance' = [balance EXCEPT ![w] = amount]
  /\ UNCHANGED <<age, pass, todo, incidents>> /\ steady' = Unmoved

-----------------------------------------------------------------------------
(* check_all                                                               *)

StartPass ==
  /\ pass = "idle" /\ pass' = "checking"
  /\ todo' = marginfi_groups \o balance_alert
  /\ steady' = {x \in Subjects : Readable(x)}
  /\ UNCHANGED <<chain, incidents>>

\* The banks of a group by setup: Switchboard V2, Pyth push, Switchboard pull;
\* Pyth legacy is deprecated and not checked.
CheckMarginfiGroup ==
  /\ pass = "checking" /\ todo # <<>> /\ Head(todo) \in Groups
  /\ LET banks(setup) == SelectSeq(BanksOf[Head(todo)], LAMBDA b : Setup[b] = setup)
     IN  todo' = banks("SwitchboardV2") \o banks("PythPushOracle") \o banks("SwitchboardPull")
                 \o Tail(todo)
  /\ UNCHANGED <<chain, pass, incidents, steady>>

SendStaleOracleAlert(b) == incidents' = incidents \cup {b}
ClearStaleOracleAlert(b) == incidents' = incidents \ {b}

SendBalanceAlert(w) == incidents' = incidents \cup {w}
ClearBalanceAlert(w) == incidents' = incidents \ {w}

ReportAge(b, oracle) ==
  IF age[oracle] > max_age_secs[GroupOf(b)] THEN SendStaleOracleAlert(b) ELSE ClearStaleOracleAlert(b)

CheckSwitchboardV2Oracle(b) ==
  /\ Setup[b] = "SwitchboardV2"
  /\ age[Oracles[b][1]] # Absent /\ ReportAge(b, Oracles[b][1])

\* Of the two accounts the one sponsored by marginfi comes first.
CheckPythPushOracle(b) ==
  /\ Setup[b] = "PythPushOracle"
  /\ \/ age[Oracles[b][1]] # Absent /\ ReportAge(b, Oracles[b][1])
     \/ age[Oracles[b][1]] = Absent /\ age[Oracles[b][2]] # Absent /\ ReportAge(b, Oracles[b][2])

CheckSwitchboardPullOracle(b) ==
  /\ Setup[b] = "SwitchboardPull"
  /\ age[Oracles[b][1]] # Absent /\ ReportAge(b, Oracles[b][1])

CheckBalance(w) ==
  w \in Addresses /\ (IF balance[w] < min_balance_lamports[w] THEN SendBalanceAlert(w) ELSE ClearBalanceAlert(w))

\* One check succeeds and the next one follows.
Check ==
  /\ pass = "checking" /\ todo # <<>> /\ todo' = Tail(todo)
  /\ LET x == Head(todo)
     IN  \/ x \in Checked /\ (\/ CheckSwitchboardV2Oracle(x)
                              \/ CheckPythPushOracle(x)
                              \/ CheckSwitchboardPullOracle(x))
         \/ CheckBalance(x)
  /\ UNCHANGED <<chain, pass, steady>>

\* Mutant: an error of one check is logged and the pass goes on.
CheckFails_Continue ==
  /\ pass = "checking" /\ todo # <<>> /\ todo' = Tail(todo)
  /\ UNCHANGED <<chain, pass, incidents, steady>>

\* The RPC or the pager fails, or an oracle account is absent: all further
\* checks are skipped.
CheckFails ==
  /\ pass = "checking" /\ todo # <<>>
  /\ pass' = "failed" /\ todo' = <<>>
  /\ UNCHANGED <<chain, incidents, steady>>

-----------------------------------------------------------------------------
(* main                                                                    *)

ClearErrorAlert ==
  /\ pass = "checking" /\ todo = <<>>
  /\ pass' = "idle" /\ incidents' = incidents \ {"error"}
  /\ UNCHANGED <<chain, todo, steady>>

\* Mutant: a failed pass only exits with an error code.
SendErrorAlert_Not ==
  /\ pass = "failed" /\ pass' = "idle"
  /\ UNCHANGED <<chain, todo, incidents, steady>>

SendErrorAlert ==
  /\ pass = "failed" /\ pass' = "idle" /\ incidents' = incidents \cup {"error"}
  /\ UNCHANGED <<chain, todo, steady>>

\* The pager fails at the end of a pass: the unwrap panics.
PagerFails ==
  /\ pass \in {"checking", "failed"} /\ todo = <<>>
  /\ pass' = "idle"
  /\ UNCHANGED <<chain, todo, incidents, steady>>

Chain ==
  \/ Tick
  \/ \E a \in OracleAccounts : PublishPrice(a)
  \/ \E w \in Addresses, amount \in 0 .. MaxBalance : MoveBalance(w, amount)

Pass ==
  \/ StartPass \/ CheckMarginfiGroup \/ Check \/ CheckFails
  \/ ClearErrorAlert \/ SendErrorAlert \/ PagerFails

Next == Chain \/ Pass

\* The scheduler starts a pass after the other, a pass ends, and the pager
\* takes an event again and again.
Fairness == WF_vars(Pass) /\ SF_vars(ClearErrorAlert) /\ SF_vars(SendErrorAlert)

Spec == Init /\ [][Next]_vars /\ Fairness

-----------------------------------------------------------------------------
(* Properties.                                                             *)

\* After a pass without error the incidents are right about everything that
\* did not change while it ran: open for a stale oracle or a low balance,
\* resolved otherwise, and none for the alerter itself.  A failed pass says
\* so.  An abort in the middle of the list is what could leave an old verdict
\* behind a pass that looks complete.
PassTellsTheTruth ==
  [][/\ ClearErrorAlert => /\ \A x \in steady : x \in incidents' <=> Bad(x)
                           /\ "error" \notin incidents'
     /\ pass = "failed" /\ incidents' # incidents => "error" \in incidents']_vars

\* An oracle that stays stale, or a balance that stays low, is on the pager
\* again and again, under its own name or, when a check before it never
\* succeeds, under the alerter's.
TroubleIsReported ==
  \A x \in Subjects :
    <>[](Readable(x) /\ Bad(x)) => []<>(x \in incidents \/ "error" \in incidents)

=============================================================================
