---------------------------- MODULE LendingLedgers ----------------------------
(***************************************************************************)
(* Every bank of a group, seen alone, is a BankLedger: the multi-bank      *)
(* specification Lending implements the single-bank one.                   *)
(***************************************************************************)
EXTENDS Lending

\* The amounts of debt that liquidations can compute.
LiquidationQuantities ==
  LET Prices(bias) == UNION {{GetPriceOfType(r.oracle_setup, f, "RealTime", bias) :
                                r \in RiskChoices[b], f \in FeedChoices[b]} : b \in Banks}
  IN  {LiabilityFor(amount, p, q, fees) :
         amount \in SeizedAmounts, p \in Prices("Low"), q \in Prices("High") \ {0},
         fees \in {LIQUIDATION_LIQUIDATOR_FEE,
                   LIQUIDATION_LIQUIDATOR_FEE + LIQUIDATION_INSURANCE_FEE}}

Ledger(b) == INSTANCE BankLedger WITH
               bank <- banks[b], balances <- [a \in Accounts |-> lending[a][b]],
               vault <- vaults[b], Supply <- Supply[b],
               group <- Group, GroupConfigs <- {Group},
               Amounts <- Amounts \cup SeizedAmounts, Quantities <- LiquidationQuantities,
               MultiBankAccounts <- Accounts, BadDebtFlags <- {FALSE},
               EmissionsSupply <- 0, EmissionRates <- {}, Donations <- {}

\* Whatever the accounts do across banks and whatever the risk engine decides,
\* each bank sees a sequence of BankLedger steps: the ledger's theorems hold of
\* every bank of a group, and a liquidation is one step of the bank of the
\* collateral and one of the bank of the debt.
BanksAreLedgers ==
  /\ \A b \in Banks : Ledger(b)!Init
  /\ [][\A b \in Banks : Ledger(b)!vars' # Ledger(b)!vars => Ledger(b)!Next]_vars
=============================================================================
