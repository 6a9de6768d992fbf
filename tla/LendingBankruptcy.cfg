SPECIFICATION Spec
CONSTANTS
  ONE = 16
  ZERO_AMOUNT_THRESHOLD = 1
  SECONDS_PER_YEAR = 1
  U64_MAX = 99
  EXP10 = 1
  MIN_EMISSIONS_START_TIME = 1
  CONF_INTERVAL_MULTIPLE = 32
  STD_DEV_MULTIPLE = 32
  MAX_CONF_INTERVAL = 1
  MAX_PYTH_ORACLE_AGE = 0
  MAX_SWB_ORACLE_AGE = 0
  PRECISION = 0
  MAX_SCALE = 2
  BANKRUPT_THRESHOLD = 40
  LIQUIDATION_LIQUIDATOR_FEE = 1
  LIQUIDATION_INSURANCE_FEE = 1
  NumAccounts = 2
  NumBanks = 2
  MAX_LENDING_ACCOUNT_BALANCES = 16
  Supply <- BankruptcySupply
  Configs <- SteepConfigs
  Group <- NoFees
  RiskChoices <- BankruptcyRisk
  FeedChoices <- BankruptcyFeeds
  Amounts = {1}
  SeizedAmounts = {}
  MaxTime = 1
  MaxShares = 32
  MaxFees = 0
  MaxInsured = 2
PROPERTIES BanksAreLedgers BankruptOnlyIfLiquidatable
CONSTRAINTS Bounded WholeShares
