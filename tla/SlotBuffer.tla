----------------------------- MODULE SlotBuffer -----------------------------
(***************************************************************************)
(* What index_transactions, index_accounts and snapshot_accounts share: a  *)
(* queue of updates per slot (a function from slots to sets of updates),   *)
(* filled as the updates are processed by the cluster, and a bounded       *)
(* buffer of the slots known to be confirmed or finalized, which decides   *)
(* what leaves the queue.                                                  *)
(***************************************************************************)
EXTENDS Integers, FiniteSets, FiniteSetsExt

CONSTANT slots_buffer_size

ASSUME BufferAssumption == slots_buffer_size \in Nat \ {0}

\* The updates of a slot that are queued.
Queued(queue, slot) == IF slot \in DOMAIN queue THEN queue[slot] ELSE {}

\* queue with the updates of one slot replaced, its entry created if need be.
WithSlot(queue, slot, updates) ==
  [s \in DOMAIN queue \cup {slot} |-> IF s = slot THEN updates ELSE queue[s]]

\* A slot reported confirmed or finalized pushes the oldest one out of a full
\* buffer, itself if it is the oldest.
InsertSlot(latest, slot) ==
  LET inserted == latest \cup {slot}
  IN  IF slot \notin latest /\ Cardinality(inserted) > slots_buffer_size
      THEN inserted \ {Min(inserted)} ELSE inserted

\* Mutant: the oldest slot of the buffer is taken for too old.
Retained_Strict(queue, latest) ==
  {s \in DOMAIN queue : latest # {} => s > Min(latest)}

\* The queued slots that are not older than every slot of the buffer.
Retained(queue, latest) ==
  {s \in DOMAIN queue : latest # {} => s >= Min(latest)}

\* Mutant: everything up to the newest confirmed slot counts as confirmed.
ConfirmedSlots_UpToNewest(queue, latest) ==
  {s \in Retained(queue, latest) : latest # {} /\ s <= Max(latest)}

\* The queued slots whose updates are handed over.
ConfirmedSlots(queue, latest) == Retained(queue, latest) \cap latest

\* What stays in the queue after that.
Pending(queue, latest) ==
  [s \in Retained(queue, latest) \ ConfirmedSlots(queue, latest) |-> queue[s]]

=============================================================================
