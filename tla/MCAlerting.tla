----------------------------- MODULE MCAlerting -----------------------------
(* Two groups with different ages, a bank of each kind of oracle and a      *)
(* balance; the Pyth push feed may have any of its two accounts.            *)
EXTENDS Alerting

MCGroups == <<"main", "other">>
MCMaxAge == [g \in {"main", "other"} |-> IF g = "main" THEN 1 ELSE 0]
MCBanksOf == [g \in {"main", "other"} |-> IF g = "main" THEN <<"push", "v2", "legacy">> ELSE <<"pull">>]
MCSetup == [b \in {"push", "v2", "legacy", "pull"} |->
  CASE b = "push" -> "PythPushOracle" [] b = "v2" -> "SwitchboardV2"
    [] b = "pull" -> "SwitchboardPull" [] OTHER -> "PythLegacy"]
MCOracles == [b \in {"push", "v2", "legacy", "pull"} |->
  CASE b = "push" -> <<"mfi", "pyth">> [] b = "legacy" -> <<"pyth">> [] OTHER -> <<"feed">>]
MCBalanceAlert == <<"wallet">>
MCMinBalance == [w \in {"wallet"} |-> 1]
=============================================================================
