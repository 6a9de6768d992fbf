SPECIFICATION Spec
CONSTANTS
  ONE = 8
  ZERO_AMOUNT_THRESHOLD = 2
  SECONDS_PER_YEAR = 1
  U64_MAX = 99
  EXP10 = 1
  MIN_EMISSIONS_START_TIME = 1
  NumAccounts = 2
  Supply = 2
  EmissionsSupply = 0
  Configs <- FeeConfigs
  BadDebtFlags = {FALSE}
  GroupConfigs <- FeeGroups
  Amounts = {1}
  Donations = {}
  MultiBankAccounts = {}
  Quantities = {2, 10}
  EmissionRates = {}
  MaxTime = 1
  MaxShares = 20
  MaxFees = 8
INVARIANTS  SharesBacked OneSided
PROPERTIES DebtNeverShrinks DropsOnlyDust NoValueLeak
CONSTRAINT Bounded
