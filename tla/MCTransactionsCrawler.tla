------------------------ MODULE MCTransactionsCrawler ------------------------
(* Two targets with five transactions, one of them failed, a queue that     *)
(* takes one full batch of each, and a transaction queue that can overflow. *)
EXTENDS TransactionsCrawler

MCTargets == {"a", "b"}
MCBefore == [t \in MCTargets |-> IF t = "a" THEN 5 ELSE 3]
MCUntil == [t \in MCTargets |-> IF t = "a" THEN 1 ELSE 0]
MCFailed == {<<"a", 3>>}
MCSlotOf == [s \in UNION {{t} \X ((MCUntil[t] + 1) .. (MCBefore[t] - 1)) : t \in MCTargets} |-> s[2]]
=============================================================================
