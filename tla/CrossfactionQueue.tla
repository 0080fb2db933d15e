-------------------------- MODULE CrossfactionQueue --------------------------
(***************************************************************************)
(* How BattlegroundQueue::FillXPlayersToBG (Cfbg.cpp) chooses groups for   *)
(* one instance, and a side for each of them, one group per step.  It is   *)
(* called for an instance that is about to be created (from                *)
(* CheckCrossFactionMatch) and for a running one with free slots.          *)
(*                                                                         *)
(* Groups already invited are skipped by every loop of the function and    *)
(* are left out.  A group is its place in the queue, which is kept in the  *)
(* order of arrival.  The testing mode of BattlegroundMgr is off.          *)
(***************************************************************************)
EXTENDS Integers, FiniteSets, FiniteSetsExt, Functions

CONSTANTS
  MaxGroups,          \* bound: groups in the queue
  Sizes,              \* how many players a group can have
  Calls,              \* statuses of the instances to fill; "none": one about to be created
  MinPlayersPerTeam,
  MaxPlayersPerTeam,
  NoBalance,
  OTeamMatches,       \* may the uninitialised GroupQueueInfo::OTeam read as ALLIANCE?
  PeopleRange,        \* queuedPeople is a uint8: 256
  Bg, NoBg, NoGroup   \* the instance, no instance, no group

Teams  == {"alliance", "horde"}
Places == 1..MaxGroups

ASSUME CrossfactionAssumption ==
  /\ MaxGroups \in Nat
  /\ Sizes \subseteq Nat \ {0}
  /\ Calls \subseteq {"none", "wait_join", "in_progress"}
  /\ MinPlayersPerTeam \in Nat
  /\ MaxPlayersPerTeam \in Nat
  /\ NoBalance \in BOOLEAN
  /\ OTeamMatches \in BOOLEAN
  /\ PeopleRange \in Nat \ {0}
  /\ Bg # NoBg
  /\ NoGroup \notin [id: Places, team: Teams, bg: {NoBg}, stamp: {"never"}]

VARIABLES
  size,        \* [Queue -> Sizes]        GroupQueueInfo::Players.size() of the waiting groups
  bg,          \* the instance: its status, invited counts and players inside
  oteam,       \* SUBSET Queue            the groups whose OTeam reads as ALLIANCE
  team,        \* [Queue -> Teams]        GroupQueueInfo::Team
  pc,          \* the part of the function that runs
  todo,        \* SUBSET Queue            groups its loop has not reached
  left,        \* [Teams -> Nat]          LeftToAdd of the two calls of PreAddPlayers
  pool,        \* [Teams -> SUBSET Queue] SelectedGroups of the two selection pools
  playerCount, \* [Teams -> Nat]          PlayerCount of the two selection pools
  room         \* [Teams -> Int]          valiFree, vhordeFree

selectionVars == <<size, bg, oteam, team, pc, todo, left, pool, playerCount, room>>

Queue     == DOMAIN size
People(S) == SumFunctionOnSet(size, S)
Start     == bg.status = "none"

(***************************************************************************)
(* The queue and the instance as BattlegroundQueue sees them: a group of   *)
(* size n is made of the players <<g, 1>> to <<g, n>>.                     *)
(***************************************************************************)
Characters == Places \X UNION {1..n : n \in Sizes}

System == INSTANCE BattlegroundQueue WITH
  Groups          <- Places,
  Players         <- Characters,
  Bgs             <- {Bg},
  Queues          <- {"queue"},
  QueueOf         <- [b \in {Bg} |-> "queue"],
  Stamps          <- {"stamp"},
  NoStamp         <- "never",
  status          <- [b \in {Bg} |-> bg.status],
  invitedCount    <- [b \in {Bg} |-> bg.invited],
  playersCount    <- [b \in {Bg} |-> bg.inside],
  members         <- [b \in {Bg} |-> [p \in Characters |-> "none"]],
  offlineQueue    <- [b \in {Bg} |-> <<>>],
  inFreeSlotQueue <- [b \in {Bg} |-> ~Start],
  removeEvents    <- [q \in {"queue"} |-> {}],
  scheduled       <- {},
  group           <- [q \in {"queue"} |-> [p \in Characters |->
                        IF p[1] \in Queue /\ p[2] <= size[p[1]]
                        THEN [id |-> p[1], team |-> team[p[1]], bg |-> NoBg, stamp |-> "never"]
                        ELSE NoGroup]]

-----------------------------------------------------------------------------
\* An instance has places taken, some of them by players already inside; one
\* that is about to be created has none.
NoPlayers == [t \in Teams |-> 0]
Tallies   == [Teams -> 0..MaxPlayersPerTeam]
Instances ==
  [status: Calls \cap {"none"}, invited: {NoPlayers}, inside: {NoPlayers}] \cup
  {i \in [status: Calls \ {"none"}, invited: Tallies, inside: Tallies] :
     \A t \in Teams : i.inside[t] <= i.invited[t]}

SelectionInit ==
  /\ size \in UNION {[1..n -> Sizes] : n \in 0..MaxGroups}
  /\ bg \in Instances
  /\ oteam \in (IF OTeamMatches THEN SUBSET Queue ELSE {{}})
  /\ team \in [Queue -> Teams]
  /\ pc = "begin"
  /\ todo = {}
  /\ left = [t \in Teams |-> 0]
  /\ pool = [t \in Teams |-> {}]
  /\ playerCount = [t \in Teams |-> 0]
  /\ room = [t \in Teams |-> 0]

\* aliFree and hordeFree.
FreeSlots(t) == IF Start THEN MaxPlayersPerTeam ELSE System!GetFreeSlotsForTeam(Bg, t)

\* Slip: strictly more people than needed.
MorePeople == People(Queue) % PeopleRange > 2 * MinPlayersPerTeam

\* An instance is not created for fewer people than it needs.
EnoughPeople == People(Queue) % PeopleRange >= 2 * MinPlayersPerTeam

\* The groups that PreAddPlayers takes to belong to side t.
OSide(t) == IF t = "alliance" THEN oteam ELSE Queue \ oteam

SmallestOfTeams == Min({FreeSlots(t) : t \in Teams} \cup {People(OSide(t)) : t \in Teams})

Begin ==
  /\ pc = "begin"
  /\ IF Start /\ ~EnoughPeople
     THEN pc' = "refused" /\ UNCHANGED <<todo, left, room>>
     ELSE /\ pc' = IF Start THEN "preadd" ELSE "fill"
          /\ todo' = Queue
          /\ left' = [t \in Teams |-> IF Start THEN SmallestOfTeams ELSE 0]
          /\ room' = [t \in Teams |-> FreeSlots(t)]
  /\ UNCHANGED <<size, bg, oteam, team, pool, playerCount>>

\* QueuedGroupMap is walked backwards: larger groups first, and of two groups
\* of the same size the one that arrived later.
IsNext(g) ==
  g \in todo /\ \A h \in todo : size[h] < size[g] \/ (size[h] = size[g] /\ h <= g)

\* Slip: room for one player is room for the group.
FitsPartly(g, t) == playerCount[t] < FreeSlots(t)

\* SelectionPool::AddGroup: whether the group is added, and what it returns.
Fits(g, t)     == playerCount[t] + size[g] <= FreeSlots(t)
Accepted(g, t) == Fits(g, t) \/ playerCount[t] < FreeSlots(t)

AddGroup(g, t) ==
  IF Fits(g, t) THEN /\ pool' = [pool EXCEPT ![t] = @ \cup {g}]
                     /\ playerCount' = [playerCount EXCEPT ![t] = @ + size[g]]
                ELSE UNCHANGED <<pool, playerCount>>

\* One round of PreAddPlayers.  The two sides do not share anything.
PreAdd(g, t) ==
  /\ pc = "preadd"
  /\ IsNext(g)
  /\ g \in OSide(t)
  /\ todo' = todo \ {g}
  /\ IF size[g] <= left[t]
     THEN /\ AddGroup(g, t)
          /\ left' = IF Accepted(g, t) THEN [left EXCEPT ![t] = @ - size[g]] ELSE left
     ELSE UNCHANGED <<pool, playerCount, left>>
  /\ UNCHANGED <<size, bg, oteam, team, pc, room>>

\* PreAddPlayers returns what is left to add, and that is taken off the room.
PreAdded ==
  /\ pc = "preadd"
  /\ todo = {}
  /\ pc' = "fill"
  /\ todo' = Queue
  /\ room' = [t \in Teams |-> room[t] - left[t]]
  /\ UNCHANGED <<size, bg, oteam, team, left, pool, playerCount>>

Skipped(g) ==
  \/ \E t \in Teams : g \in pool[t]
  \/ \A t \in Teams : playerCount[t] >= MinPlayersPerTeam

\* Slip: the side with less room.
FullerSide(g) ==
  IF room["alliance"] = room["horde"] THEN team[g]
  ELSE IF room["alliance"] < room["horde"] THEN "alliance" ELSE "horde"

\* The side with more room; the group's own side when there is no difference.
SideFor(g) ==
  IF room["alliance"] = room["horde"] THEN team[g]
  ELSE IF room["alliance"] < room["horde"] THEN "horde" ELSE "alliance"

Fill(g) ==
  /\ pc = "fill"
  /\ IsNext(g)
  /\ todo' = todo \ {g}
  /\ IF Skipped(g) THEN UNCHANGED <<team, pool, playerCount, room>>
     ELSE LET t == SideFor(g)
          IN  /\ team' = [team EXCEPT ![g] = t]
              /\ AddGroup(g, t)
              /\ room' = IF Accepted(g, t) THEN [room EXCEPT ![t] = @ - size[g]] ELSE room
  /\ UNCHANGED <<size, bg, oteam, pc, left>>

Filled ==
  /\ pc = "fill"
  /\ todo = {}
  /\ pc' = "filled"
  /\ UNCHANGED <<size, bg, oteam, team, todo, left, pool, playerCount, room>>

SelectionNext ==
  \/ Begin \/ PreAdded \/ Filled
  \/ \E g \in todo : Fill(g) \/ \E t \in Teams : PreAdd(g, t)

SelectionSpec == SelectionInit /\ [][SelectionNext]_selectionVars

-----------------------------------------------------------------------------
\* What CheckCrossFactionMatch returns for an instance about to be created.
Match == pc = "filled" /\ \A t \in Teams : playerCount[t] >= MinPlayersPerTeam

\* The selection that the caller invites.
Invites(g)  == \E t \in Teams : g \in pool[t]
To          == [g \in Queue |-> IF Invites(g) THEN Bg ELSE NoBg]
StrayGroups == {g \in Queue : \E t \in Teams : g \in pool[t] /\ team[g] # t}

(***************************************************************************)
(* Every variable has its type.                                            *)
(***************************************************************************)
TypeOK ==
  /\ size \in UNION {[1..n -> Sizes] : n \in 0..MaxGroups}
  /\ bg \in Instances
  /\ oteam \subseteq Queue
  /\ team \in [Queue -> Teams]
  /\ pc \in {"begin", "preadd", "fill", "filled", "refused"}
  /\ todo \subseteq Queue
  /\ left \in [Teams -> Nat]
  /\ pool \in [Teams -> SUBSET Queue]
  /\ playerCount \in [Teams -> Nat]
  /\ room \in [Teams -> Int]

(***************************************************************************)
(* The bookkeeping with valiFree and vhordeFree may go wrong, but no       *)
(* selection pool ever holds more players than the instance has free slots *)
(* on that side (SelectionPool::AddGroup).                                 *)
(***************************************************************************)
PoolsFit == \A t \in Teams : playerCount[t] <= FreeSlots(t)

(***************************************************************************)
(* What the caller invites is one of the selections that Matching admits   *)
(* in BattlegroundQueue: the abstraction used by BattlegroundSystem leaves *)
(* no result of FillXPlayersToBG out.                                      *)
(***************************************************************************)
SelectionMatches ==
  pc = "filled" /\ (Start => Match) =>
    /\ StrayGroups \in {S \cap Queue : S \in System!Strays("queue")}
    /\ System!Matching("queue", To, team, StrayGroups, IF Start THEN Bg ELSE NoBg)

(***************************************************************************)
(* The sides of a new instance differ by no more than the largest group in *)
(* the queue, when OTeam does not interfere.                               *)
(***************************************************************************)
SidesDifferByOneGroup ==
  pc = "filled" /\ Start /\ oteam = {} /\ Queue # {} =>
    \A t, u \in Teams : playerCount[t] - playerCount[u] <= Max({size[g] : g \in Queue})

(***************************************************************************)
(* When everybody waits alone, an instance starts as soon as there are     *)
(* players for two minimal sides, and takes exactly these.                 *)
(***************************************************************************)
SolosStart ==
  /\ pc \in {"filled", "refused"} /\ Start /\ oteam = {}
  /\ \A g \in Queue : size[g] = 1
  /\ Cardinality(Queue) >= 2 * MinPlayersPerTeam
  /\ MinPlayersPerTeam <= MaxPlayersPerTeam
  => Match /\ \A t \in Teams : playerCount[t] = MinPlayersPerTeam
=============================================================================
