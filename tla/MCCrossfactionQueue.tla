------------------------ MODULE MCCrossfactionQueue ------------------------
(* Initial states within reach of TLC: a long queue for a new instance     *)
(* where OTeam does not interfere, a short one otherwise.                  *)
EXTENDS CrossfactionQueue

CONSTANT FewGroups  \* bound: groups in the queue of any other call

MCInit ==
  /\ size \in UNION {[1..n -> Sizes] : n \in 0..MaxGroups}
  /\ bg \in {i \in Instances : i.status # "none" => Cardinality(Queue) <= FewGroups}
  /\ oteam \in IF OTeamMatches /\ Cardinality(Queue) <= FewGroups
               THEN SUBSET Queue ELSE {{}}
  /\ team \in [Queue -> Teams]
  /\ SelectionInit

MCSpec == MCInit /\ [][SelectionNext]_selectionVars

=============================================================================
