SPECIFICATION IndexerSpec
CONSTANTS
  ProgramAccounts = {"bank", "new"}
  Banks = {"bank", "new"}
  OtherAccounts = {"pull", "vault"}
  Dependents <- MCDependents
  EntryOf <- MCEntryOf
  PullFeeds = {"pull"}
  Existing = {"bank", "pull"}
  additional_accounts = {}
  slots_buffer_size = 2
  MaxSlot <- MCMaxSlot
  MaxWrites = 2
  MaxDisconnections = 1
INVARIANTS OnlyConfirmedOnce SnapshotCurrent
PROPERTIES ConfirmedKept SubscriptionCatchesUp
