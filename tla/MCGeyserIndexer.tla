--------------------------- MODULE MCGeyserIndexer ---------------------------
(* An existing bank with a feed that crossbar simulates, and a bank created  *)
(* later that shares the feed and has a vault of its own.  The commands      *)
(* without a snapshot run long enough for the buffer to overflow.            *)
EXTENDS GeyserIndexer

MCDependents == [b \in {"bank", "new"} |-> IF b = "bank" THEN <<"pull">> ELSE <<"vault", "pull">>]
MCEntryOf == [a \in {"bank", "new", "pull", "vault"} |-> a]
MCMaxSlot == [c \in Commands |-> IF c = "snapshot_accounts" THEN 3 ELSE 4]
=============================================================================
