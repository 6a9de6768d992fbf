SPECIFICATION FeeSpec
CONSTANTS
  ONE_IN_BASIS_POINTS = 10
  FeeConfigs <- MCFeeConfigs
  Amounts = {1, 2, 5, 11}
  MaxVault = 14
INVARIANTS VaultCoversCredits InsuranceCanPay PreFeeIsLeast
CONSTRAINT Bounded
