SPECIFICATION Spec
CONSTANTS
  Targets <- MCTargets
  Before <- MCBefore
  Until <- MCUntil
  Failed <- MCFailed
  SlotOf <- MCSlotOf
  signature_fetch_limit = 1
  max_pending_signatures = 2
  TRANSACTION_QUEUE_CAPACITY = 2
INVARIANT NothingLostOrRepeated
PROPERTY EverySignatureSettled
CHECK_DEADLOCK FALSE
