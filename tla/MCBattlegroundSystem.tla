------------------------ MODULE MCBattlegroundSystem ------------------------
(***************************************************************************)
(* Small instances of BattlegroundSystem for TLC.                          *)
(***************************************************************************)
EXTENDS BattlegroundSystem, TLC

CONSTANTS p1, p2, p3, b1, b2, q1, q2

\* Cross-faction queues assign sides freely, so that one faction is enough to
\* reach both; it keeps all players interchangeable.
AllAlliance == [p \in Players |-> "alliance"]
FirstIsHorde == [p \in Players |-> IF p = p1 THEN "horde" ELSE "alliance"]

OneQueue  == [b \in Bgs |-> q1]
TwoQueues == [b \in Bgs |-> IF b = b1 THEN q1 ELSE q2]

Addresses == Permutations(Groups) \cup Permutations(Stamps)
Symmetry  == Permutations(Players) \cup Addresses

\* The first player differs from the others.
SymmetryButFirst == Permutations(Players \ {p1}) \cup Addresses

\* With TwoQueues, the queues may be exchanged together with their instances.
Exchange == (b1 :> b2) @@ (b2 :> b1) @@ (q1 :> q2) @@ (q2 :> q1)
SymmetryOfTwo == Symmetry \cup {Exchange}
=============================================================================
