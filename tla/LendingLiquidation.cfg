SPECIFICATION Spec
CONSTANTS
  ONE = 16
  ZERO_AMOUNT_THRESHOLD = 1
  SECONDS_PER_YEAR = 100
  U64_MAX = 999
  EXP10 = 1
  MIN_EMISSIONS_START_TIME = 1
  CONF_INTERVAL_MULTIPLE = 32
  STD_DEV_MULTIPLE = 32
  MAX_CONF_INTERVAL = 1
  MAX_PYTH_ORACLE_AGE = 0
  MAX_SWB_ORACLE_AGE = 0
  PRECISION = 0
  MAX_SCALE = 2
  BANKRUPT_THRESHOLD = 16
  LIQUIDATION_LIQUIDATOR_FEE = 1
  LIQUIDATION_INSURANCE_FEE = 1
  NumAccounts = 2
  NumBanks = 3
  MAX_LENDING_ACCOUNT_BALANCES = 16
  Supply <- LiquidationSupply
  Configs <- FlatConfigs
  Group <- NoFees
  RiskChoices <- LiquidationRisk
  FeedChoices <- LiquidationFeeds
  Amounts = {32}
  SeizedAmounts = {16}
  MaxTime = 0
  MaxShares = 1024
  MaxFees = 4
  MaxInsured = 1
INVARIANTS  IsolatedDebtAlone
PROPERTIES HealthyUntilMarketMoves LiquidationPriced BanksAreLedgers
CONSTRAINT Bounded
