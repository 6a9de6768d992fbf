SPECIFICATION FeedSpec
CONSTANTS
  ONE = 16
  ZERO_AMOUNT_THRESHOLD = 1
  CONF_INTERVAL_MULTIPLE = 34
  STD_DEV_MULTIPLE = 31
  MAX_CONF_INTERVAL = 2
  MAX_PYTH_ORACLE_AGE = 1
  MAX_SWB_ORACLE_AGE = 2
  PRECISION = 2
  MAX_SCALE = 2
  Mantissas = {0, 17, 905}
  Deviations = {3, 90}
  Exponents <- MCExponents
  MaxAges = {0, 1}
  MaxFeedTime = 2
INVARIANTS BandBracketsPrice ConversionRoundsDown
