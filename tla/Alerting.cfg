SPECIFICATION Spec
CONSTANTS
  marginfi_groups <- MCGroups
  max_age_secs <- MCMaxAge
  BanksOf <- MCBanksOf
  Setup <- MCSetup
  Oracles <- MCOracles
  balance_alert <- MCBalanceAlert
  min_balance_lamports <- MCMinBalance
  MaxBalance = 1
PROPERTIES PassTellsTheTruth TroubleIsReported
