---------------------------- MODULE GeyserIndexer ----------------------------
(***************************************************************************)
(* The three commands of the indexer that follow the cluster through a     *)
(* geyser stream: index_transactions and index_accounts publish what they  *)
(* receive, snapshot_accounts keeps a copy of all accounts that matter to  *)
(* the program and changes its subscription as banks are created.  A       *)
(* process runs one of them, chosen by the constant command line.          *)
(*                                                                         *)
(* The cluster is external.  An update is the number of a write: the w-th  *)
(* change of an account on chain (for index_transactions, the transaction  *)
(* that made it) is known by its account and its slot.  Slots are reported *)
(* processed at once, confirmed or abandoned later, finalized last.        *)
(***************************************************************************)
EXTENDS SlotBuffer, Sequences

CONSTANTS ProgramAccounts,      \* accounts owned by the program: banks and others
          Banks,
          OtherAccounts,        \* vaults and oracles
          Dependents,           \* per bank, its vaults and oracles, in the order they are fetched
          EntryOf,              \* where an account is kept: both accounts of a Pyth push feed share one
          PullFeeds,            \* the oracles that crossbar simulates
          Existing,             \* accounts that exist when the process starts
          additional_accounts,  \* of the command line
          MaxSlot, MaxWrites, MaxDisconnections  \* bounds of the model, the first per command

AllAccounts == ProgramAccounts \cup OtherAccounts
Entries == {EntryOf[a] : a \in AllAccounts}
Commands == {"index_transactions", "index_accounts", "snapshot_accounts"}

ASSUME IndexerAssumption ==
  /\ Banks \subseteq ProgramAccounts /\ ProgramAccounts \cap OtherAccounts = {}
  /\ Dependents \in [Banks -> Seq(OtherAccounts)] /\ DOMAIN EntryOf = AllAccounts
  /\ PullFeeds \subseteq OtherAccounts /\ additional_accounts \subseteq OtherAccounts
  /\ Existing \subseteq AllAccounts
  /\ MaxSlot \in [Commands -> Nat] /\ MaxWrites \in Nat /\ MaxDisconnections \in Nat

\* Values of an entry that are not the number of a write (0: as at the start).
NoData == -1
ZeroPrice == -2   \* of a simulation that never succeeded
Simulated == -3

VARIABLES
  writes, tip, confirmed, finalized,  \* the cluster
  command,
  stream, disconnections,             \* the connection, and how often it was lost
  subscribed,                         \* the accounts named in the filter at the server
  sub_config,                         \* geyser_subscription_config: changed?, accounts
  queue, latest,                      \* account_updates_queue, latest_slots_with_commitment
  sink, batch,                        \* the task that empties the queue, and what it took
  published, unsent,
  lock,                               \* who holds account_snapshot
  routing, entries,                   \* routing_lookup and the contents of the snapshot
  simulated,                          \* the feeds tracked by the crossbar cache
  heard, missed, thrown               \* history: slots reported, accounts with lost
                                      \* updates, updates removed from the queue

cluster == <<writes, tip, confirmed, finalized>>
connection == <<stream, disconnections, subscribed>>
outputs == <<published, unsent>>
snapshot == <<routing, entries, simulated>>
indexer_vars == <<cluster, command, connection, sub_config, queue, latest, sink, batch,
                  outputs, lock, snapshot, heard, missed, thrown>>

-----------------------------------------------------------------------------
(* The cluster.                                                            *)

SlotOf(w) == writes[w].slot
WritesTo(a, slots) == {w \in DOMAIN writes : writes[w].account = a /\ writes[w].slot \in slots}
LastWrite(a, slots) == Max(WritesTo(a, slots) \cup {0})

\* The account exists for an RPC at commitment finalized.
Exists(a) == a \in Existing \/ WritesTo(a, finalized) # {}

-----------------------------------------------------------------------------
(* snapshot.rs                                                             *)

\* All accounts that are routed because of bank b.
RoutedBy(b) == {b} \cup Range(Dependents[b])

\* What get_multiple_accounts brings into entry e for bank b: the accounts that
\* exist are stored one after the other.
Fetched(b, e, old) ==
  LET found == SelectSeq(Dependents[b], LAMBDA a : EntryOf[a] = e /\ Exists(a))
  IN  IF found # <<>> THEN LastWrite(found[Len(found)], finalized) ELSE old

\* The routing lookup and the entries after create_entry of account a; an
\* account that the program does not own is ignored.
RoutingWith(a) ==
  routing \cup (CASE a \in Banks -> RoutedBy(a)
                  [] a \in ProgramAccounts \ Banks -> {a}
                  [] OTHER -> {})
EntriesWith(a, w) ==
  [e \in Entries |->
    CASE a \in ProgramAccounts /\ e = EntryOf[a] -> w
      [] a \in Banks /\ e # EntryOf[a] -> Fetched(a, e, entries[e])
      [] OTHER -> entries[e]]

\* init: create_entry for every account of the program.
InitialRouting == (ProgramAccounts \cap Existing) \cup UNION {RoutedBy(b) : b \in Banks \cap Existing}
InitialEntries ==
  [e \in Entries |-> IF \E a \in InitialRouting \cap Existing : EntryOf[a] = e THEN 0 ELSE NoData]

\* Mutant: the accounts that the program owns are kept, not left out.
GeyserConfig_Owned(routed) == additional_accounts \cup (routed \cap ProgramAccounts)

\* compute_geyser_config, from the routed accounts that the program does not own.
GeyserConfig(routed) == additional_accounts \cup (routed \ ProgramAccounts)

-----------------------------------------------------------------------------
IndexerInit ==
  /\ writes = <<>> /\ tip = 1 /\ confirmed = {} /\ finalized = {}
  /\ command \in Commands
  /\ stream = "disconnected" /\ disconnections = 0 /\ subscribed = {}
  /\ queue = <<>> /\ latest = {} /\ sink = "idle" /\ batch = {}
  /\ published = {} /\ unsent = {} /\ lock = "free"
  /\ routing = (IF command = "snapshot_accounts" THEN InitialRouting ELSE {})
  /\ entries = (IF command = "snapshot_accounts" THEN InitialEntries ELSE [e \in Entries |-> NoData])
  /\ simulated \in (IF command = "snapshot_accounts" THEN SUBSET (PullFeeds \cap InitialRouting) ELSE {{}})
  /\ sub_config = [changed |-> FALSE, accounts |-> GeyserConfig(routing)]
  /\ heard = {} /\ missed = {} /\ thrown = {}

-----------------------------------------------------------------------------
(* listen_to_updates: the connection.                                      *)

ConnectTransactions ==
  /\ command = "index_transactions" /\ stream = "disconnected"
  /\ stream' = "listening" /\ subscribed' = ProgramAccounts
  /\ UNCHANGED <<cluster, command, disconnections, sub_config, queue, latest, sink, batch,
                 outputs, lock, snapshot, heard, missed, thrown>>

ConnectAccounts ==
  /\ command = "index_accounts" /\ stream = "disconnected"
  /\ stream' = "listening" /\ subscribed' = ProgramAccounts
  /\ UNCHANGED <<cluster, command, disconnections, sub_config, queue, latest, sink, batch,
                 outputs, lock, snapshot, heard, missed, thrown>>

\* snapshot_accounts holds the lock of geyser_subscription_config while it
\* waits for the answer of the server.
ConnectSnapshot ==
  /\ command = "snapshot_accounts" /\ stream = "disconnected"
  /\ stream' = "subscribing"
  /\ UNCHANGED <<cluster, command, disconnections, subscribed, sub_config, queue, latest, sink,
                 batch, outputs, lock, snapshot, heard, missed, thrown>>

Subscribe(ok) ==
  /\ stream = "subscribing"
  /\ stream' = (IF ok THEN "listening" ELSE "disconnected")
  /\ subscribed' = (IF ok THEN ProgramAccounts \cup sub_config.accounts ELSE {})
  /\ UNCHANGED <<cluster, command, disconnections, sub_config, queue, latest, sink, batch,
                 outputs, lock, snapshot, heard, missed, thrown>>

LoseStream ==
  /\ disconnections < MaxDisconnections
  /\ stream' = "disconnected" /\ subscribed' = {} /\ disconnections' = disconnections + 1

ConfigSent == sub_config' = [sub_config EXCEPT !.changed = FALSE]

\* The stream ends, or yields an error; snapshot_accounts sends a changed
\* configuration before it looks at the error, in vain.
Disconnect ==
  /\ stream = "listening" /\ LoseStream
  /\ UNCHANGED sub_config \/ ConfigSent
  /\ UNCHANGED <<cluster, command, queue, latest, sink, batch, outputs, lock, snapshot,
                 heard, missed, thrown>>

-----------------------------------------------------------------------------
(* process_update, on a message with a kind, a slot and, if it is an       *)
(* update, a write and its account.                                        *)

ReceiveSlot(m) ==
  latest' = InsertSlot(latest, m.slot) /\ heard' = heard \cup {m.slot} /\ UNCHANGED queue

\* A transaction without metadata leaves an empty entry behind.
ProcessTransactions(m) ==
  \/ m.kind = "slot" /\ ReceiveSlot(m)
  \/ /\ m.kind = "update"
     /\ \E complete \in SUBSET {m.write} :
          queue' = WithSlot(queue, m.slot, Queued(queue, m.slot) \cup complete)
     /\ UNCHANGED <<latest, heard>>
  \/ m.kind = "ping" /\ UNCHANGED <<queue, latest, heard>>

\* Of several writes to an account in a slot the last one received stays.
ProcessAccounts(m) ==
  \/ m.kind = "slot" /\ ReceiveSlot(m)
  \/ /\ m.kind = "update"
     /\ LET others == {w \in Queued(queue, m.slot) : writes[w].account # m.account}
        IN  queue' = WithSlot(queue, m.slot, others \cup {m.write})
     /\ UNCHANGED <<latest, heard>>
  \/ m.kind = "ping" /\ UNCHANGED <<queue, latest, heard>>

\* The same for the snapshot; block metadata only stamps its reports.
ProcessSnapshot(m) == ProcessAccounts(m)

\* snapshot_accounts first sends a changed configuration; that fails only on a
\* stream that is over.
SendConfig ==
  \/ ~sub_config.changed /\ UNCHANGED <<sub_config, connection>>
  \/ /\ sub_config.changed /\ ConfigSent
     /\ subscribed' = ProgramAccounts \cup sub_config.accounts
     /\ UNCHANGED <<stream, disconnections>>
  \/ sub_config.changed /\ ConfigSent /\ LoseStream

ListenTransactions(m) ==
  command = "index_transactions" /\ ProcessTransactions(m) /\ UNCHANGED <<sub_config, connection>>

ListenAccounts(m) ==
  command = "index_accounts" /\ ProcessAccounts(m) /\ UNCHANGED <<sub_config, connection>>

ListenSnapshot(m) == command = "snapshot_accounts" /\ SendConfig /\ ProcessSnapshot(m)

Receive(m) ==
  /\ stream = "listening"
  /\ ListenTransactions(m) \/ ListenAccounts(m) \/ ListenSnapshot(m)
  /\ UNCHANGED <<command, sink, batch, outputs, lock, snapshot, thrown>>

\* What happens on chain reaches the listener in order or, while there is no
\* stream or no subscription, not at all.
NotReceived ==
  UNCHANGED <<command, connection, sub_config, queue, latest, sink, batch, outputs, lock,
              snapshot, heard, thrown>>

Write(a) ==
  /\ Len(writes) < MaxWrites
  /\ writes' = Append(writes, [account |-> a, slot |-> tip])
  /\ \/ /\ stream = "listening" /\ a \in subscribed
        /\ Receive([kind |-> "update", slot |-> tip, account |-> a, write |-> Len(writes) + 1])
        /\ UNCHANGED missed
     \/ /\ stream # "listening" \/ a \notin subscribed
        /\ NotReceived /\ missed' = missed \cup {a}
  /\ UNCHANGED <<tip, confirmed, finalized>>

NextSlot ==
  /\ tip < MaxSlot[command] /\ tip' = tip + 1
  /\ UNCHANGED <<writes, confirmed, finalized, missed>> /\ NotReceived

SlotReported(s) ==
  \/ stream = "listening" /\ Receive([kind |-> "slot", slot |-> s])
  \/ stream # "listening" /\ NotReceived

\* Slots are confirmed in order; one that is passed over is abandoned.
Confirm(s) ==
  /\ s < tip /\ \A t \in confirmed : t < s
  /\ confirmed' = confirmed \cup {s} /\ SlotReported(s)
  /\ UNCHANGED <<writes, tip, finalized, missed>>

Finalize(s) ==
  /\ s \in confirmed /\ \A t \in finalized : t < s
  /\ finalized' = finalized \cup {s} /\ SlotReported(s)
  /\ UNCHANGED <<writes, tip, confirmed, missed>>

Ping == Receive([kind |-> "ping", slot |-> 0]) /\ UNCHANGED <<cluster, missed>>

-----------------------------------------------------------------------------
(* push_transactions_to_pubsub and update_account_map: what is taken.      *)

TakeConfirmed ==
  /\ sink = "idle"
  /\ queue' = Pending(queue, latest) /\ queue' # queue
  /\ batch' = UNION {queue[s] : s \in ConfirmedSlots(queue, latest)}
  /\ sink' = (IF batch' = {} THEN "idle" ELSE "taken")
  /\ thrown' = thrown \cup UNION {queue[s] : s \in DOMAIN queue \ Retained(queue, latest)}
  /\ UNCHANGED <<cluster, command, connection, sub_config, latest, outputs, lock, snapshot,
                 heard, missed>>

CollectTransactions == command = "index_transactions" /\ TakeConfirmed

CollectAccounts == command = "index_accounts" /\ TakeConfirmed

CollectSnapshot == command = "snapshot_accounts" /\ TakeConfirmed

\* Messages that the topic refuses are logged and forgotten.
Publish(refused) ==
  /\ sink = "taken" /\ refused \subseteq batch
  /\ published' = published \cup (batch \ refused) /\ unsent' = unsent \cup refused
  /\ batch' = {} /\ sink' = "idle"
  /\ UNCHANGED <<cluster, command, connection, sub_config, queue, latest, lock, snapshot,
                 heard, missed, thrown>>

PublishTransactions(refused) == command = "index_transactions" /\ Publish(refused)

PublishAccounts(refused) == command = "index_accounts" /\ Publish(refused)

-----------------------------------------------------------------------------
(* update_account_map: what becomes of it in the snapshot, slot by slot.   *)

LockSnapshot ==
  /\ command = "snapshot_accounts" /\ sink = "taken" /\ lock = "free"
  /\ lock' = "updater" /\ sink' = "apply"
  /\ UNCHANGED <<cluster, command, connection, sub_config, queue, latest, batch, outputs,
                 snapshot, heard, missed, thrown>>

\* Mutant: the updates of a batch are applied in no order.
IsNext_Any(w) == w \in batch

\* w is applied next: no update of an older slot is left, and the updates of
\* one slot come in any order.
IsNext(w) == w \in batch /\ \A v \in batch : SlotOf(w) <= SlotOf(v)

Apply(w) ==
  /\ sink = "apply" /\ IsNext(w) /\ batch' = batch \ {w}
  /\ UNCHANGED <<cluster, command, connection, sub_config, queue, latest, outputs, simulated,
                 heard, missed, thrown>>

udpate_entry(w) ==
  /\ Apply(w) /\ writes[w].account \in routing
  /\ entries' = [entries EXCEPT ![EntryOf[writes[w].account]] = w]
  /\ UNCHANGED <<sink, lock, routing>>

create_entry(w) ==
  /\ Apply(w) /\ writes[w].account \notin routing
  /\ routing' = RoutingWith(writes[w].account)
  /\ entries' = EntriesWith(writes[w].account, w)
  /\ sink' = "configure" /\ UNCHANGED lock

\* The fetch of a bank's accounts is unwrapped: the task dies after the bank
\* was routed, and its other updates with it.
CreateEntryPanics(w) ==
  /\ sink = "apply" /\ IsNext(w)
  /\ writes[w].account \in Banks \ routing
  /\ routing' = RoutingWith(writes[w].account)
  /\ entries' = [entries EXCEPT ![EntryOf[writes[w].account]] = w]
  /\ sink' = "dead" /\ lock' = "free" /\ batch' = {}
  /\ UNCHANGED <<cluster, command, connection, sub_config, queue, latest, outputs, simulated,
                 heard, missed, thrown>>

\* Waits for the lock of geyser_subscription_config, with the snapshot locked.
UpdateSubscription ==
  /\ sink = "configure" /\ stream # "subscribing"
  /\ sub_config' = [changed |-> TRUE, accounts |-> GeyserConfig(routing)]
  /\ sink' = "apply"
  /\ UNCHANGED <<cluster, command, connection, queue, latest, batch, outputs, lock, snapshot,
                 heard, missed, thrown>>

UnlockSnapshot ==
  /\ sink = "apply" /\ batch = {}
  /\ lock' = "free" /\ sink' = "idle"
  /\ UNCHANGED <<cluster, command, connection, sub_config, queue, latest, batch, outputs,
                 snapshot, heard, missed, thrown>>

-----------------------------------------------------------------------------
(* The crossbar task: refreshes the simulated prices of the feeds in ok,    *)
(* overwrites the feeds it tracks and keeps the snapshot locked for 20 s.   *)

Tracked == PullFeeds \cap InitialRouting \cap Existing

OverwritePrices(ok) ==
  /\ command = "snapshot_accounts" /\ lock = "free"
  /\ ok \subseteq Tracked /\ simulated' = simulated \cup ok
  /\ entries' = [e \in Entries |->
       IF \E a \in Tracked : EntryOf[a] = e
       THEN IF \E a \in simulated' : EntryOf[a] = e THEN Simulated ELSE ZeroPrice
       ELSE entries[e]]
  /\ lock' = "crossbar"
  /\ UNCHANGED <<cluster, command, connection, sub_config, queue, latest, sink, batch, outputs,
                 routing, heard, missed, thrown>>

EndOfSleep ==
  /\ lock = "crossbar" /\ lock' = "free"
  /\ UNCHANGED <<cluster, command, connection, sub_config, queue, latest, sink, batch, outputs,
                 snapshot, heard, missed, thrown>>

-----------------------------------------------------------------------------
Cluster ==
  \/ \E a \in ProgramAccounts : Write(a)
  \/ \E a \in OtherAccounts : command = "snapshot_accounts" /\ Write(a)
  \/ NextSlot
  \/ \E s \in 1 .. MaxSlot[command] : Confirm(s) \/ Finalize(s)

Listener ==
  \/ ConnectTransactions \/ ConnectAccounts \/ ConnectSnapshot
  \/ \E ok \in BOOLEAN : Subscribe(ok)
  \/ Ping \/ Disconnect

Updater ==
  \/ LockSnapshot
  \/ \E w \in batch : udpate_entry(w) \/ create_entry(w) \/ CreateEntryPanics(w)
  \/ UpdateSubscription \/ UnlockSnapshot

IndexerNext ==
  \/ Cluster \/ Listener
  \/ CollectTransactions \/ CollectAccounts \/ CollectSnapshot
  \/ \E refused \in SUBSET batch : PublishTransactions(refused) \/ PublishAccounts(refused)
  \/ Updater
  \/ \E ok \in SUBSET Tracked : OverwritePrices(ok)
  \/ EndOfSleep

\* The tasks keep running; a connection attempt succeeds sooner or later; the
\* server pings a client; tokio's mutexes are handed out in the order of the
\* requests, so no task waits for one forever while others come and go.
Fairness ==
  /\ WF_indexer_vars(ConnectSnapshot) /\ SF_indexer_vars(Subscribe(TRUE))
  /\ WF_indexer_vars(\E ok \in BOOLEAN : Subscribe(ok))
  /\ WF_indexer_vars(Ping) /\ WF_indexer_vars(TakeConfirmed)
  /\ SF_indexer_vars(LockSnapshot) /\ SF_indexer_vars(UpdateSubscription)
  /\ WF_indexer_vars(\E w \in batch : udpate_entry(w) \/ create_entry(w))
  /\ WF_indexer_vars(UnlockSnapshot)
  /\ WF_indexer_vars(EndOfSleep)

IndexerSpec == IndexerInit /\ [][IndexerNext]_indexer_vars /\ Fairness

-----------------------------------------------------------------------------
(* Properties.                                                             *)

\* What the process shows to others, or is about to, was written in a slot
\* that the cluster confirmed, and is published at most once: nothing of an
\* abandoned fork leaves the queue, whatever is lost, late or reconnected.
OnlyConfirmedOnce ==
  /\ \A w \in batch \cup published \cup unsent \cup {entries[e] : e \in Entries} :
       w > 0 => SlotOf(w) \in confirmed
  /\ batch \cap (published \cup unsent) = {} /\ published \cap unsent = {}

\* The updates of a slot that was reported confirmed leave the queue only to be
\* handed over, unless slots_buffer_size newer slots have been reported too:
\* "Remove all transactions received in a slot that has not been confirmed in
\* allotted time" removes confirmed ones only from a process that lags behind
\* by the whole buffer.
ConfirmedKept ==
  [][\A s \in DOMAIN queue \cap heard :
       s \notin DOMAIN queue' =>
         \/ queue[s] \subseteq batch'
         \/ Cardinality({t \in heard : t > s}) >= slots_buffer_size]_indexer_vars

\* As long as the stream has not been lost and the process has not lagged
\* behind, the snapshot shows every account as of the newest slot reported,
\* whenever the updater is idle and has nothing to collect.  The accounts
\* of a bank created meanwhile are fetched at another commitment and
\* subscribed to later: they are left out, like the prices of crossbar.
SnapshotCurrent ==
  LET uncertain == missed \cup PullFeeds \cup UNION {Range(Dependents[b]) : b \in Banks \ Existing}
      newest(e) == Max({0} \cup {LastWrite(a, heard) : a \in {a \in AllAccounts : EntryOf[a] = e}})
  IN  /\ command = "snapshot_accounts" /\ disconnections = 0 /\ thrown = {}
      /\ sink = "idle" /\ Pending(queue, latest) = queue
      => \A e \in Entries :
           (\A a \in AllAccounts : EntryOf[a] = e => a \in routing \ uncertain) =>
             \/ entries[e] = newest(e)
             \/ /\ entries[e] > 0 /\ SlotOf(entries[e]) = SlotOf(newest(e))
                /\ entries[e] = LastWrite(writes[entries[e]].account, heard)

\* Every account that the snapshot needs is subscribed to in the end, through
\* lost streams, failed subscriptions and the locks that the updater, the
\* listener and the crossbar task take from each other, unless the updater
\* died.
SubscriptionCatchesUp ==
  \A a \in OtherAccounts :
    a \in routing ~> (stream = "listening" /\ a \in subscribed) \/ sink = "dead"

=============================================================================
