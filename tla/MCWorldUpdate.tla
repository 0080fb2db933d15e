---------------------------- MODULE MCWorldUpdate ----------------------------
EXTENDS WorldUpdate

CONSTANTS inst

(* Every instance belongs to the one instanceable map. *)
MCParent == [i \in Instances |-> inst]

=============================================================================
