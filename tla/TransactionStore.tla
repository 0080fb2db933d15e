-------------------------- MODULE TransactionStore --------------------------
(***************************************************************************)
(* What the callers of DatabaseWorkerPool rely on: an operation handed to  *)
(* the pool takes effect as a whole and at most once, or not at all.       *)
(* Nothing is promised of an operation that the loss of its connection has *)
(* struck.                                                                 *)
(***************************************************************************)
CONSTANT Ops

VARIABLE fate               \* "new", "issued", "applied", "lost" or "struck"

Init == fate = [op \in Ops |-> "new"]

Issue(op) == fate[op] = "new" /\ fate' = [fate EXCEPT ![op] = "issued"]
Apply(op) == fate[op] = "issued" /\ fate' = [fate EXCEPT ![op] = "applied"]
Lose(op) == fate[op] = "issued" /\ fate' = [fate EXCEPT ![op] = "lost"]

Strike(op) == fate[op] = "issued" /\ fate' = [fate EXCEPT ![op] = "struck"]

(* Closing the pool loses everything that is still queued. *)
LoseSome(ops) ==
  /\ ops # {}
  /\ \A op \in ops : fate[op] = "issued"
  /\ fate' = [op \in Ops |-> IF op \in ops THEN "lost" ELSE fate[op]]

Next ==
  \/ \E op \in Ops : Issue(op) \/ Apply(op) \/ Lose(op) \/ Strike(op)
  \/ \E ops \in SUBSET Ops : LoseSome(ops)

Spec == Init /\ [][Next]_fate

=============================================================================
