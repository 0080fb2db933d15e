------------------------- MODULE MCBattlegroundMap -------------------------
(***************************************************************************)
(* Two players of one team and one of the other, two nodes, two towers.    *)
(***************************************************************************)
EXTENDS BattlegroundMap

CONSTANTS a1, a2, h1

MCPlayers == {a1, a2, h1}
MCTeam == [p \in MCPlayers |-> IF p = h1 THEN "horde" ELSE "alliance"]
MCTicks == [n \in 1..2 |-> n]
MCTickPoints == [n \in 1..2 |-> 1]
MCFlagPoints == [n \in 1..2 |-> 1]
=============================================================================
