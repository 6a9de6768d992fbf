------------------------- MODULE TransactionsCrawler -------------------------
(***************************************************************************)
(* The backfill command of the indexer: one task crawls the signatures of  *)
(* each target address from new to old, one fetches the transactions, one  *)
(* publishes them.  The tasks share two queues; every RPC and every        *)
(* publication may fail, and a task that panics takes no other with it.    *)
(*                                                                         *)
(* A signature is a pair <<t, n>>: the n-th transaction of target t, older *)
(* ones having smaller numbers.                                            *)
(***************************************************************************)
EXTENDS Naturals, Sequences, FiniteSets, SequencesExt, FiniteSetsExt

CONSTANTS Targets,        \* the indexed addresses
          Before, Until,  \* per target, the bounds of the crawl (both excluded)
          Failed,         \* signatures of transactions that failed on chain
          SlotOf,         \* the slot of each signature
          signature_fetch_limit, max_pending_signatures,
          TRANSACTION_QUEUE_CAPACITY  \* 1000 in the code

Signatures == UNION {{t} \X ((Until[t] + 1) .. (Before[t] - 1)) : t \in Targets}
Wanted == Signatures \ Failed

\* A batch that does not fit into an empty queue would never be pushed.
ASSUME CrawlerAssumption ==
  /\ Before \in [Targets -> Nat] /\ Until \in [Targets -> Nat]
  /\ \A t \in Targets : Until[t] < Before[t]
  /\ Failed \subseteq Signatures /\ SlotOf \in [Signatures -> Nat]
  /\ \A s, u \in Signatures : s[1] = u[1] /\ s[2] < u[2] => SlotOf[s] <= SlotOf[u]
  /\ signature_fetch_limit \in Nat \ {0} /\ TRANSACTION_QUEUE_CAPACITY \in Nat \ {0}
  /\ max_pending_signatures >= signature_fetch_limit * Cardinality(Targets)

VARIABLES task,                \* what each task is doing; "dead" after a panic
          last_fetched,        \* last_fetched_signature_per_address
          responses,           \* the signatures that the last requests returned
          signature_queue,
          fetching, retrying,  \* signatures out of the queue, and those whose fetch failed
          transaction_queue,
          poisoned,            \* a task died with the lock of transaction_queue
          publishing,          \* transactions out of the queue
          published, unsent    \* how often each was sent, or refused by the topic

vars == <<task, last_fetched, responses, signature_queue, fetching, retrying,
          transaction_queue, poisoned, publishing, published, unsent>>
crawlVars == <<last_fetched, responses>>
fetchVars == <<fetching, retrying>>
publishVars == <<publishing, published, unsent>>

Init ==
  /\ task = [crawl |-> "request", fetch |-> "idle", publish |-> "idle"]
  /\ last_fetched = Before
  /\ responses = <<>>
  /\ signature_queue = <<>> /\ fetching = <<>> /\ retrying = <<>>
  /\ transaction_queue = <<>> /\ poisoned = FALSE /\ publishing = <<>>
  /\ published = [s \in Signatures |-> 0] /\ unsent = [s \in Signatures |-> 0]

Becomes(name, from, to) == task[name] = from /\ task' = [task EXCEPT ![name] = to]

-----------------------------------------------------------------------------
(* crawl_signatures_for_address                                            *)

\* What get_signatures_for_address returns: the newest signatures below the
\* last one fetched, at most signature_fetch_limit of them.
SignaturesForAddress(t) ==
  LET newest == last_fetched[t] - 1
      length == Min({signature_fetch_limit, newest - Until[t]})
  IN  [i \in 1 .. length |-> <<t, newest + 1 - i>>]

\* The requests of the targets in ok succeed; the others are asked again from
\* the same signature in the next iteration.
CrawlSignatures(ok) ==
  /\ Becomes("crawl", "request", "push")
  /\ responses' = [t \in ok |-> SignaturesForAddress(t)]
  /\ UNCHANGED <<last_fetched, signature_queue, fetchVars, transaction_queue, poisoned, publishVars>>

\* The result of minimum_ledger_slot is unwrapped.
CrawlPanics ==
  /\ Becomes("crawl", "request", "dead")
  /\ UNCHANGED <<crawlVars, signature_queue, fetchVars, transaction_queue, poisoned, publishVars>>

\* Newer slots first; signatures of one address keep their order.
NewerFirst(s, u) == \/ SlotOf[s] > SlotOf[u]
                    \/ SlotOf[s] = SlotOf[u] /\ s[1] = u[1] /\ s[2] > u[2]

\* The successful transactions of all responses.
SignaturesToPush ==
  LET received == UNION {Range(responses[t]) : t \in DOMAIN responses} \ Failed
  IN  SetToSortSeq(received, NewerFirst)

\* Each address that got an answer goes on below its last signature.
AdvanceCursors ==
  last_fetched' = [t \in Targets |->
    IF t \in DOMAIN responses /\ responses[t] # <<>> THEN Last(responses[t])[2] ELSE last_fetched[t]]

\* Mutant: a batch that fits exactly does not fit.
HasRoom_Strict == Len(signature_queue) + Len(SignaturesToPush) < max_pending_signatures

HasRoom == Len(signature_queue) + Len(SignaturesToPush) <= max_pending_signatures

\* Mutant: a batch that does not fit is forgotten.
PushSignatures_Forget ==
  /\ Becomes("crawl", "push", "request")
  /\ AdvanceCursors
  /\ signature_queue' = IF HasRoom THEN signature_queue \o SignaturesToPush ELSE signature_queue
  /\ responses' = <<>>
  /\ UNCHANGED <<fetchVars, transaction_queue, poisoned, publishVars>>

\* All or nothing: without room for the batch the cursors stay and the same
\* signatures are requested again.
PushSignatures ==
  /\ Becomes("crawl", "push", "request")
  /\ \/ SignaturesToPush = <<>> /\ AdvanceCursors /\ UNCHANGED signature_queue
     \/ SignaturesToPush # <<>> /\ ~HasRoom /\ UNCHANGED <<last_fetched, signature_queue>>
     \/ /\ SignaturesToPush # <<>> /\ HasRoom /\ AdvanceCursors
        /\ signature_queue' = signature_queue \o SignaturesToPush
  /\ responses' = <<>>
  /\ UNCHANGED <<fetchVars, transaction_queue, poisoned, publishVars>>

-----------------------------------------------------------------------------
(* fetch_transactions                                                      *)

TakeSignatures ==
  /\ Becomes("fetch", "idle", "fetch")
  /\ signature_queue # <<>>
  /\ fetching' = signature_queue /\ signature_queue' = <<>>
  /\ UNCHANGED <<crawlVars, retrying, transaction_queue, poisoned, publishVars>>

\* The answers come in the order of the requests.  A full transaction queue
\* makes the push fail, and its unwrap panic with the queue locked.
FetchTransaction ==
  /\ task.fetch = "fetch" /\ fetching # <<>>
  /\ \/ /\ Len(transaction_queue) < TRANSACTION_QUEUE_CAPACITY
        /\ transaction_queue' = Append(transaction_queue, Head(fetching))
        /\ UNCHANGED <<task, poisoned>>
     \/ /\ Len(transaction_queue) = TRANSACTION_QUEUE_CAPACITY
        /\ Becomes("fetch", "fetch", "dead") /\ poisoned' = TRUE
        /\ UNCHANGED transaction_queue
  /\ fetching' = Tail(fetching)
  /\ UNCHANGED <<crawlVars, signature_queue, retrying, publishVars>>

FetchFails ==
  /\ task.fetch = "fetch" /\ fetching # <<>>
  /\ retrying' = Append(retrying, Head(fetching)) /\ fetching' = Tail(fetching)
  /\ UNCHANGED <<task, crawlVars, signature_queue, transaction_queue, poisoned, publishVars>>

\* The limit on the signature queue is not checked here.
RequeueFailed ==
  /\ Becomes("fetch", "fetch", "idle") /\ fetching = <<>>
  /\ signature_queue' = signature_queue \o retrying /\ retrying' = <<>>
  /\ UNCHANGED <<crawlVars, fetching, transaction_queue, poisoned, publishVars>>

-----------------------------------------------------------------------------
(* push_transactions_to_pubsub                                             *)

TakeTransactions ==
  /\ Becomes("publish", "idle", "publish")
  /\ ~poisoned /\ transaction_queue # <<>>
  /\ publishing' = transaction_queue /\ transaction_queue' = <<>>
  /\ UNCHANGED <<crawlVars, signature_queue, fetchVars, poisoned, published, unsent>>

\* lock().unwrap() on a poisoned mutex.
PublishPanics ==
  /\ Becomes("publish", "idle", "dead") /\ poisoned
  /\ UNCHANGED <<crawlVars, signature_queue, fetchVars, transaction_queue, poisoned, publishVars>>

Counted(count, set) == [s \in Signatures |-> count[s] + (IF s \in set THEN 1 ELSE 0)]

\* Messages that the topic refuses are logged and forgotten.
PublishBulk(refused) ==
  /\ Becomes("publish", "publish", "idle")
  /\ refused \subseteq Range(publishing)
  /\ published' = Counted(published, Range(publishing) \ refused)
  /\ unsent' = Counted(unsent, refused)
  /\ publishing' = <<>>
  /\ UNCHANGED <<crawlVars, signature_queue, fetchVars, transaction_queue, poisoned>>

-----------------------------------------------------------------------------
\* run_async: the tasks run until they panic, and each on its own.
Next ==
  \/ \E ok \in SUBSET Targets : CrawlSignatures(ok)
  \/ CrawlPanics \/ PushSignatures
  \/ TakeSignatures \/ FetchTransaction \/ FetchFails \/ RequeueFailed
  \/ TakeTransactions \/ PublishPanics
  \/ \E refused \in SUBSET Range(publishing) : PublishBulk(refused)

\* The tasks keep running, and the RPC answers each kind of request again and
\* again: the retries of the code rely on no more.
Fairness ==
  /\ \A t \in Targets : SF_vars(\E ok \in SUBSET Targets : t \in ok /\ CrawlSignatures(ok))
  /\ WF_vars(PushSignatures)
  /\ WF_vars(TakeSignatures) /\ SF_vars(FetchTransaction)
  /\ WF_vars(FetchFails \/ FetchTransaction) /\ WF_vars(RequeueFailed)
  /\ WF_vars(TakeTransactions)
  /\ WF_vars(\E refused \in SUBSET Range(publishing) : PublishBulk(refused))

Spec == Init /\ [][Next]_vars /\ Fairness

-----------------------------------------------------------------------------
(* Properties.                                                             *)

In(q, s) == Cardinality({i \in DOMAIN q : q[i] = s})

\* All the places where the transaction of signature s can be.
Occurrences(s) == In(signature_queue, s) + In(fetching, s) + In(retrying, s)
                  + In(transaction_queue, s) + In(publishing, s) + published[s] + unsent[s]

\* The crawl has gone past s.
Passed(s) == s \in Wanted /\ s[2] >= last_fetched[s[1]]

\* Through failed requests, batches that find no room, retries and refused
\* messages, every successful transaction that a cursor has passed is in
\* exactly one place, and no other transaction is anywhere: nothing is skipped
\* and nothing published twice.  Only the panic of the fetching task, which
\* takes its local list along, may lose transactions; it never repeats one.
NothingLostOrRepeated ==
  \A s \in Signatures :
    /\ Occurrences(s) <= (IF Passed(s) THEN 1 ELSE 0)
    /\ task.fetch # "dead" => Occurrences(s) = (IF Passed(s) THEN 1 ELSE 0)

\* Every successful transaction between the bounds of the crawl reaches the
\* topic (which may refuse it), or some task has panicked: the bail on a full
\* queue, the retries and the failing requests delay the backfill, they never
\* block it.
EverySignatureSettled ==
  \A s \in Wanted : <>(published[s] + unsent[s] > 0 \/ \E name \in DOMAIN task : task[name] = "dead")

=============================================================================
