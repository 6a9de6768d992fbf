SPECIFICATION AdminSpec
CONSTANTS
  Groups = {g1, g2}
  Keys = {k1, k2}
  BankKeys = {b1}
  Mints = {m1}
  Seeds = {0}
  Fees <- MCFees
  FlatFees = {0, 2}
  MaxEdits = 1
  MaxBanks = 2
  Lamports = 3
SYMMETRY Symmetry
INVARIANTS CacheWasInForce WalletsReceiveTheirFees
