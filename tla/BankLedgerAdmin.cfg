SPECIFICATION Spec
CONSTANTS
  ONE = 4
  ZERO_AMOUNT_THRESHOLD = 1
  SECONDS_PER_YEAR = 1
  U64_MAX = 99
  EXP10 = 1
  MIN_EMISSIONS_START_TIME = 0
  NumAccounts = 2
  Supply = 1
  EmissionsSupply = 1
  Configs <- AdminConfigs
  BadDebtFlags = {FALSE}
  GroupConfigs <- AdminGroups
  Amounts = {1}
  Donations = {1}
  MultiBankAccounts = {2}
  Quantities = {}
  EmissionRates = {3}
  MaxTime = 1
  MaxShares = 6
  MaxFees = 1
INVARIANTS EmissionsFunded
PROPERTIES EarnsOncePerPeriod InsuranceFirst LimitsHold ModesRespected
CONSTRAINT Bounded
