SPECIFICATION Spec
CONSTANTS
  ONE = 8
  ZERO_AMOUNT_THRESHOLD = 1
  SECONDS_PER_YEAR = 1
  U64_MAX = 99
  EXP10 = 1
  MIN_EMISSIONS_START_TIME = 0
  DepositKeys = {d1, d2, d3}
  MaxDeposits = {3}
  MaxRewards = {2, 3}
  LockupPeriods = {1}
  Amounts = {1, 2}
  TransferFees = {0, 1}
  ShareValues = {6, 8, 15}
  Liquidities = {1, 4}
  EmissionRates = {1}
  BankConfigOf <- MCBankConfig
  MaxTime = 2
SYMMETRY Symmetry
INVARIANTS RewardsFunded 
PROPERTIES GuaranteedYield
CONSTRAINT Bounded
