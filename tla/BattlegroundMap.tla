-------------------------- MODULE BattlegroundMap --------------------------
(***************************************************************************)
(* The match that CreateNewBattleground starts is one of the classes that  *)
(* derive from Battleground: the map decides what the players do and when  *)
(* a team has won, over the state that every battleground has.             *)
(***************************************************************************)
EXTENDS Integers, FiniteSets

CONSTANTS
  Players, Team, Nobody,
  CapturesToWin,
  Nodes, NoBanner, Ticks,
  Points, FelReaver, Away, Low, High, Full, Capturers, TickPoints, FlagPoints,
  Resources

VARIABLES
  map,                      \* the class of the battleground
  status, score, inside,
  flagState, keeper, spawned, dropped, carrying, bothKept, debuff, assaulted,
  node, before, capturing, pending, banners, guides,
  at, near, bar, owner, count, flag, flagKeeper, flagCarrying, flagSpawned, lying, shown

WS == INSTANCE WarsongGulch
AB == INSTANCE ArathiBasin
EY == INSTANCE EyeOfTheStorm
        WITH keeper <- flagKeeper, carrying <- flagCarrying, spawned <- flagSpawned

wsVars == <<flagState, keeper, spawned, dropped, carrying, bothKept, debuff, assaulted>>
abVars == <<node, before, capturing, pending, banners, guides>>
eyVars == <<at, near, bar, owner, count, flag, flagKeeper, flagCarrying, flagSpawned, lying, shown>>
mapVars == <<map, status, score, inside, wsVars, abVars, eyVars>>

(* A tower is never drawn from one team to the other by one check. *)
ASSUME MapAssumption ==
  /\ IsFiniteSet(Players) /\ IsFiniteSet(Points)
  /\ {Low, High, Full, Capturers} \subseteq Nat
  /\ High \in Low + 1..Full /\ Full \div 2 \in Low + 1..High - 1
  /\ High - Low > Capturers
  /\ High - Low > Cardinality({p \in Players : Team[p] = "horde"})
  /\ FelReaver \in Points /\ Away \notin Points
  /\ Nobody \notin Players /\ NoBanner \notin AB!Banners
  /\ \A p \in Players : Team[p] \in {"alliance", "horde"}

MapInit ==
  /\ map \in {"WarsongGulch", "ArathiBasin", "EyeOfTheStorm"}
  /\ WS!Init /\ AB!Init /\ EY!Init

MapNext ==
  /\ UNCHANGED map
  /\ \/ map = "WarsongGulch" /\ WS!Next /\ UNCHANGED <<abVars, eyVars>>
     \/ map = "ArathiBasin" /\ AB!Next /\ UNCHANGED <<inside, wsVars, eyVars>>
     \/ map = "EyeOfTheStorm" /\ EY!Next /\ UNCHANGED <<wsVars, abVars>>

MapSpec == MapInit /\ [][MapNext]_mapVars

---------------------------------------------------------------------------
(***************************************************************************)
(* WarsongGulch: no flag is lost and no flag is carried twice.             *)
(***************************************************************************)
NoFlagLost == WS!NoFlagLost

(***************************************************************************)
(* WarsongGulch: only the carriers of flags have an assault debuff.        *)
(***************************************************************************)
AssaultOnCarriersOnly == WS!AssaultOnCarriersOnly

(***************************************************************************)
(* ArathiBasin: the banner, the guide and the timer of a node agree.       *)
(***************************************************************************)
NodesAgree == AB!NodesAgree

(***************************************************************************)
(* EyeOfTheStorm: the owners of the towers follow the bars.                *)
(***************************************************************************)
OwnersFollowBars == EY!OwnersFollowBars

(***************************************************************************)
(* EyeOfTheStorm: there is one flag.                                       *)
(***************************************************************************)
OneFlag == EY!OneFlag
=============================================================================
