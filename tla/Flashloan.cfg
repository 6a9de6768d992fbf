SPECIFICATION Spec
CONSTANTS
  Accounts = {a1, a2}
  Authorities = {o1}
  NoAccount = NoAccount
  MaxInstructions = 4
SYMMETRY Symmetry
INVARIANTS NoFlashloanOutlivesTransaction  DisabledStays 
CONSTRAINT OneNotTransferable
