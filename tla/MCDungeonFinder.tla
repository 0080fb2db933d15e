--------------------------- MODULE MCDungeonFinder ---------------------------
(***************************************************************************)
(* A party of two and two players on their own, of whom groups of three    *)
(* are made; two of them do not want to meet.                              *)
(***************************************************************************)
EXTENDS DungeonFinder

CONSTANTS p1, p2, p3, p4

MCParty == <<p1, p2>>

MCNeeded == [tank |-> 1, healer |-> 1, dps |-> 1]

MCRolesOf == p1 :> {"tank"} @@ p2 :> {"tank", "healer"}
          @@ p3 :> {"healer", "dps"} @@ p4 :> {"dps"}

MCIgnoring == {{p2, p4}}
=============================================================================
