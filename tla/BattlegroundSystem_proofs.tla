---------------------- MODULE BattlegroundSystem_proofs ----------------------
(***************************************************************************)
(* Proofs about BattlegroundSystem for all values of the constants.        *)
(*                                                                         *)
(* First the types, and that player objects, queues and instances agree    *)
(* with each other.  Then the counters of invited players and the places   *)
(* that players hold, the free-slot list, the capacity of an instance,     *)
(* what a single step may never do, and that the system implements         *)
(* SeatReservation.                                                        *)
(***************************************************************************)
EXTENDS BattlegroundSystem, FiniteSetTheorems, TLAPS

\* Sets of players are finite, and so have a size.
LEMMA PlayersFinite ==
  ASSUME NEW S, S \subseteq Players
  PROVE  IsFiniteSet(S) /\ Cardinality(S) \in Nat
BY FS_Subset, FS_CardinalityType, BattlegroundAssumption DEF BattlegroundAssumption

\* A flag that is raised, or left as it is, stays a flag.
LEMMA FlagRaised ==
  ASSUME NEW S, NEW f \in [S -> BOOLEAN], NEW x \in S, NEW P
  PROVE  [f EXCEPT ![x] = @ \/ P] \in [S -> BOOLEAN]
<1> DEFINE v == f[x] \/ P
<1>1. v \in BOOLEAN
  BY Zenon
<1> HIDE DEF v
<1>2. [f EXCEPT ![x] = v] \in [S -> BOOLEAN]
  BY <1>1, SMT
<1> QED BY <1>2 DEF v

-----------------------------------------------------------------------------
(***************************************************************************)
(* Types of the building blocks.                                           *)
(***************************************************************************)

LEMMA InvitedAfterLeaveType ==
  ASSUME NEW c \in [Bgs -> [Teams -> Int]], NEW b \in Bgs, NEW S
  PROVE  InvitedAfterLeave(c, S, b) \in [Bgs -> [Teams -> Int]]
<1>1. \A t \in Teams : Cardinality(S \cap Side(b, t)) \in Nat
  BY PlayersFinite DEF Side
<1> QED BY <1>1 DEF InvitedAfterLeave

LEMMA RemovePlayersAtLeaveType ==
  ASSUME BgTypeOK, NEW b \in Bgs, NEW S, RemovePlayersAtLeave(S, b)
  PROVE  /\ members' \in [Bgs -> [Players -> Teams \cup {NoTeam}]]
         /\ playersCount' \in [Bgs -> [Teams -> Int]]
         /\ inFreeSlotQueue' \in [Bgs -> BOOLEAN]
<1>2. members' \in [Bgs -> [Players -> Teams \cup {NoTeam}]]
  BY DEF RemovePlayersAtLeave, BgTypeOK
<1>3. playersCount' \in [Bgs -> [Teams -> Int]]
  <2>1. playersCount' = InvitedAfterLeave(playersCount, S, b)
    BY DEF RemovePlayersAtLeave, InvitedAfterLeave
  <2> QED BY <2>1, InvitedAfterLeaveType DEF BgTypeOK
<1>4. inFreeSlotQueue' \in [Bgs -> BOOLEAN]
  BY FlagRaised, Zenon DEF RemovePlayersAtLeave, BgTypeOK
<1> QED BY <1>2, <1>3, <1>4

LEMMA AddPlayerType ==
  ASSUME BgTypeOK, NEW p \in Players, NEW b \in Bgs, NEW t \in Teams, AddPlayer(p, b, t)
  PROVE  /\ members' \in [Bgs -> [Players -> Teams \cup {NoTeam}]]
         /\ playersCount' \in [Bgs -> [Teams -> Int]]
BY DEF AddPlayer, BgTypeOK

LEMMA InvitedAfterRemoveType ==
  ASSUME NEW c \in [Bgs -> [Teams -> Int]], NEW p, NEW Q
  PROVE  InvitedAfterRemove(c, p, Q) \in [Bgs -> [Teams -> Int]]
BY DEF InvitedAfterRemove, GivenBack

LEMMA RemovePlayerType ==
  ASSUME QueueTypeOK, NEW p \in Players, NEW Q, RemovePlayer(p, Q)
  PROVE  group' \in [Queues -> [Players -> GroupInfo \cup {NoGroup}]]
BY DEF RemovePlayer, QueueTypeOK

LEMMA SlotsAfterLeaveType ==
  ASSUME PlayerTypeOK, NEW b \in Bgs, NEW S
  PROVE  SlotsAfterLeave(S, b) \in [Players -> [Queues -> Bgs \cup {NoBg, NoSlot}]]
BY DEF SlotsAfterLeave, PlayerTypeOK

LEMMA ScheduledAfterLeaveType ==
  ASSUME QueueTypeOK, NEW b \in Bgs, NEW S
  PROVE  ScheduledAfterLeave(S, b) \in SUBSET Queues
BY QueueAssumption DEF ScheduledAfterLeave, QueueTypeOK, QueueAssumption

LEMMA OutOfBattlegroundType ==
  ASSUME PlayerTypeOK, NEW S, OutOfBattleground(S)
  PROVE  /\ bgId' \in [Players -> Bgs \cup {NoBg}]
         /\ bgTeam' \in [Players -> Teams \cup {NoTeam}]
BY DEF OutOfBattleground, PlayerTypeOK

-----------------------------------------------------------------------------
(***************************************************************************)
(* Every action keeps the types.                                           *)
(***************************************************************************)

LEMMA InitTypeOK == Init => TypeOK
BY DEF Init, TypeOK, BgInit, QueueInit, BgTypeOK, QueueTypeOK, PlayerTypeOK, Statuses, Teams

LEMMA LoginType ==
  ASSUME TypeOK, NEW p \in Players, Login(p)
  PROVE  TypeOK'
BY DEF TypeOK, BgTypeOK, QueueTypeOK, PlayerTypeOK, Login, bgVars, queueVars

LEMMA DeserterExpiresType ==
  ASSUME TypeOK, NEW p \in Players, DeserterExpires(p)
  PROVE  TypeOK'
BY DEF TypeOK, BgTypeOK, QueueTypeOK, PlayerTypeOK, DeserterExpires, bgVars, queueVars

LEMMA JoinQueueType ==
  ASSUME TypeOK, NEW S \in SUBSET Players, NEW leader \in S, NEW q \in Queues, NEW g \in Groups,
         JoinQueue(leader, S, q, g)
  PROVE  TypeOK'
<1>1. GetTeam(leader) \in Teams
  BY SystemAssumption DEF TypeOK, PlayerTypeOK, GetTeam, SystemAssumption
<1>2. [id |-> g, team |-> GetTeam(leader), bg |-> NoBg, stamp |-> NoStamp] \in GroupInfo
  BY <1>1 DEF GroupInfo
<1>3. group' \in [Queues -> [Players -> GroupInfo \cup {NoGroup}]]
  BY <1>2 DEF JoinQueue, AddGroup, TypeOK, QueueTypeOK
<1>4. queueSlot' \in [Players -> [Queues -> Bgs \cup {NoBg, NoSlot}]]
  BY DEF JoinQueue, TypeOK, PlayerTypeOK
<1> QED BY <1>3, <1>4 DEF JoinQueue, TypeOK, BgTypeOK, QueueTypeOK, PlayerTypeOK, bgVars

LEMMA JoinRefusedType ==
  ASSUME TypeOK, NEW S, NEW leader, NEW q \in Queues, JoinRefused(leader, S, q)
  PROVE  TypeOK'
BY DEF TypeOK, BgTypeOK, QueueTypeOK, PlayerTypeOK, JoinRefused, bgVars, playerVars

LEMMA LeaveQueueType ==
  ASSUME TypeOK, NEW p \in Players, NEW q \in Queues, LeaveQueue(p, q)
  PROVE  TypeOK'
<1>1. group' \in [Queues -> [Players -> GroupInfo \cup {NoGroup}]]
  BY RemovePlayerType DEF LeaveQueue, TypeOK
<1>2. invitedCount' \in [Bgs -> [Teams -> Int]]
  BY InvitedAfterRemoveType DEF LeaveQueue, TypeOK, BgTypeOK
<1> QED BY <1>1, <1>2 DEF LeaveQueue, TypeOK, BgTypeOK, QueueTypeOK, PlayerTypeOK

LEMMA RemoveEventType ==
  ASSUME TypeOK, NEW q \in Queues, NEW e \in removeEvents[q], RemoveEvent(q, e)
  PROVE  TypeOK'
<1>0. e.player \in Players
  BY DEF TypeOK, QueueTypeOK, RemoveEvents
<1>1. group' \in [Queues -> [Players -> GroupInfo \cup {NoGroup}]]
  BY <1>0, RemovePlayerType DEF RemoveEvent, TypeOK, QueueTypeOK
<1>2. invitedCount' \in [Bgs -> [Teams -> Int]]
  <2>1. InvitedAfterRemove(invitedCount, e.player, {q}) \in [Bgs -> [Teams -> Int]]
    BY InvitedAfterRemoveType DEF TypeOK, BgTypeOK
  <2> QED BY <2>1 DEF RemoveEvent, TypeOK, BgTypeOK
<1>3. queueSlot' \in [Players -> [Queues -> Bgs \cup {NoBg, NoSlot}]]
  <2>1. [queueSlot EXCEPT ![e.player][q] = NoSlot]
          \in [Players -> [Queues -> Bgs \cup {NoBg, NoSlot}]]
    BY <1>0 DEF TypeOK, PlayerTypeOK
  <2> QED BY <2>1, Zenon DEF RemoveEvent, TypeOK, PlayerTypeOK
<1>4. scheduled' \in SUBSET Queues
  BY DEF RemoveEvent, TypeOK, QueueTypeOK
<1>5. removeEvents' \in [Queues -> SUBSET RemoveEvents]
  BY DEF RemoveEvent, TypeOK, QueueTypeOK
<1> QED BY <1>1, <1>2, <1>3, <1>4, <1>5 DEF RemoveEvent, TypeOK, BgTypeOK, QueueTypeOK, PlayerTypeOK

LEMMA PortType ==
  ASSUME TypeOK, NEW p \in Players, NEW q \in Queues, Port(p, q)
  PROVE  TypeOK'
<1>1. group[q][p] \in GroupInfo
  BY DEF Port, MayEnter, Invited, Queued, TypeOK, QueueTypeOK
<1>2. group' \in [Queues -> [Players -> GroupInfo \cup {NoGroup}]]
  BY RemovePlayerType DEF Port, TypeOK
<1>3. /\ bgId' \in [Players -> Bgs \cup {NoBg}]
      /\ bgTeam' \in [Players -> Teams \cup {NoTeam}]
  BY <1>1 DEF Port, TypeOK, PlayerTypeOK, GroupInfo
<1>4. porting' \in [Players -> BOOLEAN]
  BY DEF Port, Teleport, TypeOK, PlayerTypeOK
<1> QED BY <1>2, <1>3, <1>4 DEF Port, TypeOK, BgTypeOK, QueueTypeOK, PlayerTypeOK, bgVars

LEMMA JumpType ==
  ASSUME TypeOK, NEW p \in Players, NEW q \in Queues, Jump(p, q)
  PROVE  TypeOK'
<1> DEFINE old == bgId[p]
<1>0. old \in Bgs
  BY DEF Jump, InBattleground, TypeOK, PlayerTypeOK
<1>1. group[q][p] \in GroupInfo
  BY DEF Jump, MayEnter, Invited, Queued, TypeOK, QueueTypeOK
<1>2. group' \in [Queues -> [Players -> GroupInfo \cup {NoGroup}]]
  BY RemovePlayerType DEF Jump, TypeOK
<1>3. RemovePlayersAtLeave({p}, old)
  BY DEF Jump
<1>4. /\ members' \in [Bgs -> [Players -> Teams \cup {NoTeam}]]
      /\ playersCount' \in [Bgs -> [Teams -> Int]]
      /\ inFreeSlotQueue' \in [Bgs -> BOOLEAN]
  BY <1>0, <1>3, RemovePlayersAtLeaveType DEF TypeOK
<1>5. invitedCount' \in [Bgs -> [Teams -> Int]]
  BY <1>0, InvitedAfterLeaveType DEF Jump, TypeOK, BgTypeOK
<1>6. queueSlot' \in [Players -> [Queues -> Bgs \cup {NoBg, NoSlot}]]
  BY <1>0, SlotsAfterLeaveType DEF Jump, TypeOK
<1>7. scheduled' \in SUBSET Queues
  BY <1>0, ScheduledAfterLeaveType DEF Jump, TypeOK
<1>8. /\ bgId' \in [Players -> Bgs \cup {NoBg}]
      /\ bgTeam' \in [Players -> Teams \cup {NoTeam}]
  BY <1>1 DEF Jump, TypeOK, PlayerTypeOK, GroupInfo
<1>9. porting' \in [Players -> BOOLEAN]
  BY DEF Jump, Teleport, TypeOK, PlayerTypeOK
<1> QED BY <1>2, <1>4, <1>5, <1>6, <1>7, <1>8, <1>9
        DEF Jump, TypeOK, BgTypeOK, QueueTypeOK, PlayerTypeOK

LEMMA WorldportAckType ==
  ASSUME TypeOK, NEW p \in Players, WorldportAck(p)
  PROVE  TypeOK'
<1>1. /\ members' \in [Bgs -> [Players -> Teams \cup {NoTeam}]]
      /\ playersCount' \in [Bgs -> [Teams -> Int]]
  <2>1. GetTeam(p) \in Teams
    BY SystemAssumption DEF TypeOK, PlayerTypeOK, GetTeam, SystemAssumption
  <2>2. CASE InBattleground(p) /\ IsInvitedForInstance(p, bgId[p])
    <3>1. bgId[p] \in Bgs
      BY <2>2 DEF InBattleground, TypeOK, PlayerTypeOK
    <3>2. AddPlayer(p, bgId[p], GetTeam(p))
      BY <2>2 DEF WorldportAck
    <3> QED BY <2>1, <3>1, <3>2, AddPlayerType DEF TypeOK
  <2>3. CASE ~(InBattleground(p) /\ IsInvitedForInstance(p, bgId[p]))
    BY <2>3 DEF WorldportAck, TypeOK, BgTypeOK
  <2> QED BY <2>2, <2>3
<1> QED BY <1>1 DEF WorldportAck, TypeOK, BgTypeOK, QueueTypeOK, PlayerTypeOK, queueVars

LEMMA LeaveBattlegroundType ==
  ASSUME TypeOK, NEW p \in Players, LeaveBattleground(p)
  PROVE  TypeOK'
<1> DEFINE b == bgId[p]
<1>0. b \in Bgs
  BY DEF LeaveBattleground, InBattleground, TypeOK, PlayerTypeOK
<1>1. RemovePlayersAtLeave({p}, b) /\ OutOfBattleground({p})
  BY DEF LeaveBattleground
<1>2. /\ members' \in [Bgs -> [Players -> Teams \cup {NoTeam}]]
      /\ playersCount' \in [Bgs -> [Teams -> Int]]
      /\ inFreeSlotQueue' \in [Bgs -> BOOLEAN]
  BY <1>0, <1>1, RemovePlayersAtLeaveType DEF TypeOK
<1>3. invitedCount' \in [Bgs -> [Teams -> Int]]
  BY <1>0, InvitedAfterLeaveType DEF LeaveBattleground, TypeOK, BgTypeOK
<1>4. queueSlot' \in [Players -> [Queues -> Bgs \cup {NoBg, NoSlot}]]
  BY <1>0, SlotsAfterLeaveType DEF LeaveBattleground, TypeOK
<1>5. scheduled' \in SUBSET Queues
  BY <1>0, ScheduledAfterLeaveType DEF LeaveBattleground, TypeOK
<1>6. /\ bgId' \in [Players -> Bgs \cup {NoBg}]
      /\ bgTeam' \in [Players -> Teams \cup {NoTeam}]
  BY <1>1, OutOfBattlegroundType DEF TypeOK
<1>7. deserter' \in [Players -> BOOLEAN]
  BY FlagRaised, Zenon DEF LeaveBattleground, TypeOK, PlayerTypeOK
<1> QED BY <1>2, <1>3, <1>4, <1>5, <1>6, <1>7
        DEF LeaveBattleground, TypeOK, BgTypeOK, QueueTypeOK, PlayerTypeOK

LEMMA LogoutInsideType ==
  ASSUME TypeOK, NEW p \in Players, LogoutInside(p)
  PROVE  TypeOK'
<1> DEFINE b == bgId[p]
<1> DEFINE Q == QueuesOf(p) \ {QueueOf[b]}
<1>0. b \in Bgs
  BY DEF LogoutInside, InBattleground, TypeOK, PlayerTypeOK
<1>1. RemovePlayersAtLeave({p}, b) /\ OutOfBattleground({p}) /\ RemovePlayer(p, Q)
  BY DEF LogoutInside
<1>2. /\ members' \in [Bgs -> [Players -> Teams \cup {NoTeam}]]
      /\ playersCount' \in [Bgs -> [Teams -> Int]]
      /\ inFreeSlotQueue' \in [Bgs -> BOOLEAN]
  BY <1>0, <1>1, RemovePlayersAtLeaveType DEF TypeOK
<1>3. invitedCount' \in [Bgs -> [Teams -> Int]]
  <2>1. InvitedAfterLeave(invitedCount, {p}, b) \in [Bgs -> [Teams -> Int]]
    BY <1>0, InvitedAfterLeaveType DEF TypeOK, BgTypeOK
  <2> QED BY <2>1, InvitedAfterRemoveType DEF LogoutInside
<1>4. group' \in [Queues -> [Players -> GroupInfo \cup {NoGroup}]]
  BY <1>1, RemovePlayerType DEF TypeOK
<1>5. scheduled' \in SUBSET Queues
  BY <1>0, ScheduledAfterLeaveType DEF LogoutInside, TypeOK
<1>6. /\ bgId' \in [Players -> Bgs \cup {NoBg}]
      /\ bgTeam' \in [Players -> Teams \cup {NoTeam}]
  BY <1>1, OutOfBattlegroundType DEF TypeOK
<1>7. deserter' \in [Players -> BOOLEAN]
  BY FlagRaised, Zenon DEF LogoutInside, TypeOK, PlayerTypeOK
<1>8. offlineQueue' \in [Bgs -> Seq(Players)]
  BY <1>0 DEF LogoutInside, TypeOK, BgTypeOK
<1>9. queueSlot' \in [Players -> [Queues -> Bgs \cup {NoBg, NoSlot}]]
  BY DEF LogoutInside, TypeOK, PlayerTypeOK
<1> QED BY <1>2, <1>3, <1>4, <1>5, <1>6, <1>7, <1>8, <1>9
        DEF LogoutInside, TypeOK, BgTypeOK, QueueTypeOK, PlayerTypeOK

LEMMA LogoutOutsideType ==
  ASSUME TypeOK, NEW p \in Players, LogoutOutside(p)
  PROVE  TypeOK'
<1>1. group' \in [Queues -> [Players -> GroupInfo \cup {NoGroup}]]
  BY RemovePlayerType DEF LogoutOutside, TypeOK
<1>2. invitedCount' \in [Bgs -> [Teams -> Int]]
  BY InvitedAfterRemoveType DEF LogoutOutside, TypeOK, BgTypeOK
<1>3. queueSlot' \in [Players -> [Queues -> Bgs \cup {NoBg, NoSlot}]]
  BY DEF LogoutOutside, TypeOK, PlayerTypeOK
<1> QED BY <1>1, <1>2, <1>3 DEF LogoutOutside, TypeOK, BgTypeOK, QueueTypeOK, PlayerTypeOK

LEMMA InstanceType ==
  ASSUME TypeOK, NEW b \in Bgs,
         StartBattleground(b) \/ EndBattleground(b) \/ DeleteBattleground(b)
  PROVE  TypeOK'
<1>1. CASE StartBattleground(b)
  BY <1>1 DEF StartBattleground, Start, queueVars, playerVars, Statuses,
              TypeOK, BgTypeOK, QueueTypeOK, PlayerTypeOK
<1>2. CASE EndBattleground(b)
  BY <1>2 DEF EndBattleground, End, queueVars, playerVars, Statuses,
              TypeOK, BgTypeOK, QueueTypeOK, PlayerTypeOK
<1>3. CASE DeleteBattleground(b)
  BY <1>3 DEF DeleteBattleground, Delete, queueVars, playerVars, Statuses,
              TypeOK, BgTypeOK, QueueTypeOK, PlayerTypeOK
<1> QED BY <1>1, <1>2, <1>3

LEMMA ExpelType ==
  ASSUME TypeOK, NEW b \in Bgs, NEW S, Expel(S, b),
         offlineQueue' \in [Bgs -> Seq(Players)]
  PROVE  TypeOK'
<1>1. RemovePlayersAtLeave(S, b) /\ OutOfBattleground(S)
  BY DEF Expel
<1>2. /\ members' \in [Bgs -> [Players -> Teams \cup {NoTeam}]]
      /\ playersCount' \in [Bgs -> [Teams -> Int]]
      /\ inFreeSlotQueue' \in [Bgs -> BOOLEAN]
  BY <1>1, RemovePlayersAtLeaveType DEF TypeOK
<1>3. invitedCount' \in [Bgs -> [Teams -> Int]]
  BY InvitedAfterLeaveType DEF Expel, TypeOK, BgTypeOK
<1>4. queueSlot' \in [Players -> [Queues -> Bgs \cup {NoBg, NoSlot}]]
  BY SlotsAfterLeaveType DEF Expel, TypeOK
<1>5. scheduled' \in SUBSET Queues
  BY ScheduledAfterLeaveType DEF Expel, TypeOK
<1>6. /\ bgId' \in [Players -> Bgs \cup {NoBg}]
      /\ bgTeam' \in [Players -> Teams \cup {NoTeam}]
  BY <1>1, OutOfBattlegroundType DEF TypeOK
<1> QED BY <1>2, <1>3, <1>4, <1>5, <1>6
        DEF Expel, TypeOK, BgTypeOK, QueueTypeOK, PlayerTypeOK

LEMMA ProcessLeaveType ==
  ASSUME TypeOK, NEW b \in Bgs, ProcessLeave(b)
  PROVE  TypeOK'
BY ExpelType DEF ProcessLeave, TypeOK, BgTypeOK

LEMMA ProcessOfflineQueueType ==
  ASSUME TypeOK, NEW b \in Bgs, ProcessOfflineQueue(b)
  PROVE  TypeOK'
<1>1. offlineQueue' \in [Bgs -> Seq(Players)]
  BY DEF ProcessOfflineQueue, TypeOK, BgTypeOK
<1> QED BY <1>1, ExpelType DEF ProcessOfflineQueue

LEMMA QueueUpdateType ==
  ASSUME TypeOK, NEW q \in Queues, NEW nb \in Bgs \cup {NoBg}, NEW s \in Stamps, NEW stray,
         NEW side \in [WaitingGroups(q) -> Teams],
         NEW to \in [WaitingGroups(q) -> {NoBg, nb} \cup ToppedUp(q)],
         QueueUpdate(q, to, side, stray, nb, s)
  PROVE  TypeOK'
<1>1. \A p \in Players : Waiting(p, q) =>
        /\ group[q][p] \in GroupInfo
        /\ group[q][p].id \in WaitingGroups(q)
  BY DEF Waiting, Queued, WaitingGroups, TypeOK, QueueTypeOK
<1>2. \A g \in WaitingGroups(q) : to[g] \in Bgs \cup {NoBg} /\ side[g] \in Teams
  BY DEF ToppedUp
<1>3. group' \in [Queues -> [Players -> GroupInfo \cup {NoGroup}]]
  <2>1. InviteSelected(q, to, side, s)
    BY DEF QueueUpdate
  <2>2. \A p \in Players :
          group'[q][p] \in GroupInfo \cup {NoGroup}
    <3> SUFFICES ASSUME NEW p \in Players
                 PROVE  group'[q][p] \in GroupInfo \cup {NoGroup}
      OBVIOUS
    <3>1. CASE Waiting(p, q)
      <4> DEFINE g == group[q][p].id
      <4>1. to[g] \in Bgs \cup {NoBg} /\ side[g] \in Teams /\ group[q][p] \in GroupInfo
        BY <1>1, <1>2, <3>1
      <4>2. group'[q][p] = IF to[g] = NoBg THEN [group[q][p] EXCEPT !.team = side[g]]
                           ELSE [group[q][p] EXCEPT !.team = side[g], !.bg = to[g], !.stamp = s]
        BY <2>1, <3>1 DEF InviteSelected, TypeOK, QueueTypeOK
      <4> QED BY <4>1, <4>2 DEF GroupInfo
    <3>2. CASE ~Waiting(p, q)
      BY <2>1, <3>2 DEF InviteSelected, TypeOK, QueueTypeOK
    <3> QED BY <3>1, <3>2
  <2> QED BY <2>1, <2>2 DEF InviteSelected, TypeOK, QueueTypeOK
<1>4. invitedCount' \in [Bgs -> [Teams -> Int]]
  <2>1. \A b \in Bgs, t \in Teams :
          Cardinality(Selected(q, to, side, b, t) \cap Reached(q, to, online)) \in Nat
    BY PlayersFinite DEF Selected
  <2>2. invitedCount' = [b \in Bgs |-> [t \in Teams |-> invitedCount[b][t] +
                           Cardinality(Selected(q, to, side, b, t) \cap Reached(q, to, online))]]
    BY DEF QueueUpdate
  <2>3. \A b \in Bgs, t \in Teams : invitedCount[b][t] \in Int
    BY DEF TypeOK, BgTypeOK
  <2>4. \A b \in Bgs, t \in Teams : invitedCount[b][t] +
          Cardinality(Selected(q, to, side, b, t) \cap Reached(q, to, online)) \in Int
    BY <2>1, <2>3
  <2> QED BY <2>2, <2>4
<1>5. queueSlot' \in [Players -> [Queues -> Bgs \cup {NoBg, NoSlot}]]
  BY <1>1, <1>2 DEF QueueUpdate, Reached, TypeOK, PlayerTypeOK
<1>6. removeEvents' \in [Queues -> SUBSET RemoveEvents]
  <2>1. \A p \in Reached(q, to, online) : p \in Players /\ to[group[q][p].id] \in Bgs
    BY <1>1, <1>2 DEF Reached
  <2> QED BY <2>1 DEF QueueUpdate, RemoveEvents, TypeOK, QueueTypeOK
<1>7. status' \in [Bgs -> Statuses] /\ scheduled' \in SUBSET Queues
  BY DEF QueueUpdate, Statuses, TypeOK, BgTypeOK, QueueTypeOK
<1>8. inFreeSlotQueue' \in [Bgs -> BOOLEAN]
  <2>1. \A b \in Bgs : HasFreeSlots(b) \in BOOLEAN
    BY DEF HasFreeSlots
  <2> QED BY <2>1, Zenon DEF QueueUpdate, TypeOK, BgTypeOK
<1> QED BY <1>3, <1>4, <1>5, <1>6, <1>7, <1>8
        DEF QueueUpdate, TypeOK, BgTypeOK, QueueTypeOK, PlayerTypeOK

LEMMA StutterType ==
  ASSUME TypeOK, UNCHANGED vars
  PROVE  TypeOK'
BY DEF vars, TypeOK, BgTypeOK, QueueTypeOK, PlayerTypeOK

(***************************************************************************)
(* The types of all variables are kept by every handler and timer of the   *)
(* battleground system, whatever the numbers of players, queues and        *)
(* instances.                                                              *)
(***************************************************************************)
THEOREM TypeCorrect == Spec => []TypeOK
<1>1. Init => TypeOK
  BY InitTypeOK
<1>2. ASSUME TypeOK, [Next]_vars
      PROVE  TypeOK'
  <2>1. ASSUME NEW p \in Players,
               \/ Login(p) \/ WorldportAck(p) \/ LeaveBattleground(p) \/ DeserterExpires(p)
               \/ LogoutInside(p) \/ LogoutOutside(p)
               \/ \E q \in Queues : Port(p, q) \/ Jump(p, q) \/ LeaveQueue(p, q)
        PROVE  TypeOK'
    BY <1>2, <2>1, LoginType, WorldportAckType, LeaveBattlegroundType, DeserterExpiresType,
       LogoutInsideType, LogoutOutsideType, PortType, JumpType, LeaveQueueType
  <2>2. ASSUME NEW q \in Queues, Join(q)
        PROVE  TypeOK'
    BY <1>2, <2>2, JoinQueueType, JoinRefusedType DEF Join
  <2>3. ASSUME NEW q \in Queues, UpdateQueue(q)
        PROVE  TypeOK'
    BY <1>2, <2>3, QueueUpdateType DEF UpdateQueue
  <2>4. ASSUME NEW q \in Queues, NEW e \in removeEvents[q], RemoveEvent(q, e)
        PROVE  TypeOK'
    BY <1>2, <2>4, RemoveEventType
  <2>5. ASSUME NEW b \in Bgs,
               \/ StartBattleground(b) \/ EndBattleground(b) \/ DeleteBattleground(b)
               \/ ProcessLeave(b) \/ ProcessOfflineQueue(b)
        PROVE  TypeOK'
    BY <1>2, <2>5, InstanceType, ProcessLeaveType, ProcessOfflineQueueType
  <2> QED BY <1>2, <2>1, <2>2, <2>3, <2>4, <2>5, StutterType DEF Next
<1> QED BY <1>1, <1>2, PTL DEF Spec

-----------------------------------------------------------------------------
(***************************************************************************)
(* Player objects, queues and instances agree with each other.             *)
(***************************************************************************)
\* A queue holds connected players, and the slot of the Player object names
\* the instance that the queue has invited him to.
QueuesAgree ==
  \A p \in Players, q \in Queues : Queued(p, q) =>
    /\ online[p]
    /\ queueSlot[p][q] = group[q][p].bg
    /\ group[q][p].bg # NoBg => QueueOf[group[q][p].bg] = q

\* Nobody is inside an instance that has been deleted.
InsideExists == \A p \in Players, b \in Bgs : p \in Inside(b) => Exists(b)

\* A player on the way knows where to and for which side.
OnTheWay ==
  \A p \in Players : porting[p] => online[p] /\ bgId[p] \in Bgs /\ bgTeam[p] \in Teams

Bound(p) == porting[p] \/ \E b \in Bgs : p \in Inside(b)

\* The slot in the queue of his instance names the instance.
HoldsSlot(p) == queueSlot[p][QueueOf[bgId[p]]] = bgId[p]

\* A player on the way or inside has left the queue of his instance, and keeps
\* the slot, which stops him from joining that queue again.
BoundHasLeftQueue ==
  \A p \in Players : Bound(p) =>
    HoldsSlot(p) /\ ~Queued(p, QueueOf[bgId[p]])

\* The inductive invariant.
Agreement ==
  /\ QueuesAgree
  /\ InsideExists
  /\ OnTheWay
  /\ BoundHasLeftQueue
  /\ InsideWhereInvited
  /\ InvitationHasItsTimer

\* The instance of a player on the way or inside has a queue.
LEMMA BoundToInstance ==
  ASSUME TypeOK, Agreement, NEW p \in Players, Bound(p)
  PROVE  bgId[p] \in Bgs /\ QueueOf[bgId[p]] \in Queues
BY QueueAssumption DEF Agreement, OnTheWay, InsideWhereInvited, Bound, QueueAssumption

\* A slot that is used is not the empty one.
LEMMA QueuedHasSlot ==
  ASSUME TypeOK, Agreement, NEW p \in Players, NEW q \in Queues, Queued(p, q)
  PROVE  HasSlot(p, q)
<1>1. group[q][p].bg \in Bgs \cup {NoBg}
  BY DEF Queued, GroupInfo, TypeOK, QueueTypeOK
<1> QED BY <1>1, SystemAssumption DEF Agreement, QueuesAgree, HasSlot, SystemAssumption

-----------------------------------------------------------------------------
(***************************************************************************)
(* Leaving a queue.                                                        *)
(***************************************************************************)

\* A player leaves one queue.  An event of the queue may go with him, or be
\* one that is no longer about an invitation.
LEMMA DropOne ==
  ASSUME TypeOK, Agreement, NEW p \in Players, NEW q \in Queues, Queued(p, q),
         RemovePlayer(p, {q}), queueSlot' = [queueSlot EXCEPT ![p][q] = NoSlot],
         \A r \in Queues : \A e \in removeEvents[r] :
           e \in removeEvents'[r] \/ (e.player = p /\ r = q),
         UNCHANGED <<status, members, online, bgId, bgTeam, porting>>
  PROVE  Agreement'
<1>1. \A m \in Players, r \in Queues :
        /\ m = p /\ r = q => ~Queued(m, r)'
        /\ ~(m = p /\ r = q) => /\ group'[r][m] = group[r][m]
                                /\ queueSlot'[m][r] = queueSlot[m][r]
  BY DEF RemovePlayer, Queued, TypeOK, QueueTypeOK, PlayerTypeOK
<1>2. \A m \in Players, r \in Queues :
        Queued(m, r)' => /\ ~(m = p /\ r = q)
                         /\ Queued(m, r)
                         /\ group'[r][m] = group[r][m]
                         /\ queueSlot'[m][r] = queueSlot[m][r]
  BY <1>1 DEF Queued
<1>3. QueuesAgree'
  BY <1>2 DEF Agreement, QueuesAgree
<1>4. InsideExists' /\ OnTheWay' /\ InsideWhereInvited'
  BY DEF Agreement, InsideExists, OnTheWay, InsideWhereInvited, Inside, Exists
<1>5. BoundHasLeftQueue'
  <2> SUFFICES ASSUME NEW m \in Players, Bound(m)'
               PROVE  HoldsSlot(m)' /\ ~Queued(m, QueueOf[bgId[m]])'
    BY DEF BoundHasLeftQueue
  <2>1. Bound(m)
    BY DEF Bound, Inside
  <2>2. QueueOf[bgId[m]] \in Queues
    BY <2>1, BoundToInstance
  <2>3. HoldsSlot(m) /\ ~Queued(m, QueueOf[bgId[m]])
    BY <2>1 DEF Agreement, BoundHasLeftQueue
  <2> QED BY <1>1, <1>2, <2>2, <2>3 DEF HoldsSlot
<1>6. InvitationHasItsTimer'
  <2> SUFFICES ASSUME NEW m \in Players, NEW r \in Queues, Invited(m, r)'
               PROVE  [player |-> m, bg |-> group'[r][m].bg, stamp |-> group'[r][m].stamp]
                        \in removeEvents'[r]
    BY DEF InvitationHasItsTimer
  <2>1. Invited(m, r) /\ group'[r][m] = group[r][m] /\ ~(m = p /\ r = q)
    BY <1>2 DEF Invited
  <2>2. [player |-> m, bg |-> group[r][m].bg, stamp |-> group[r][m].stamp] \in removeEvents[r]
    BY <2>1 DEF Agreement, InvitationHasItsTimer
  <2> QED BY <2>1, <2>2
<1> QED BY <1>3, <1>4, <1>5, <1>6 DEF Agreement

LEMMA AgreementLeaveQueue ==
  ASSUME TypeOK, Agreement, NEW p \in Players, NEW q \in Queues, LeaveQueue(p, q)
  PROVE  Agreement'
BY DropOne DEF LeaveQueue

\* An event that does not find its invitation is of no other invitation.
LEMMA AgreementRemoveEvent ==
  ASSUME TypeOK, Agreement, NEW q \in Queues, NEW e \in removeEvents[q], RemoveEvent(q, e)
  PROVE  Agreement'
<1> DEFINE p == e.player
<1> DEFINE fires == online[p] /\ HasSlot(p, q) /\ IsPlayerInvited(p, q, e.bg, e.stamp)
<1>1. p \in Players /\ e.bg \in Bgs
  BY DEF TypeOK, QueueTypeOK, RemoveEvents
<1>2. \A r \in Queues : \A f \in removeEvents[r] : f \in removeEvents'[r] \/ (f = e /\ r = q)
  BY DEF RemoveEvent, TypeOK, QueueTypeOK
<1>3. CASE fires
  <2>1. /\ Queued(p, q)
        /\ RemovePlayer(p, {q})
        /\ queueSlot' = [queueSlot EXCEPT ![p][q] = NoSlot]
        /\ UNCHANGED <<status, members, online, bgId, bgTeam, porting>>
    BY <1>3 DEF RemoveEvent, IsPlayerInvited
  <2> QED BY <1>1, <1>2, <2>1, DropOne
<1>4. CASE ~fires
  <2>1. UNCHANGED <<status, members, online, bgId, bgTeam, porting, queueSlot, group>>
    BY <1>4 DEF RemoveEvent
  <2>2. /\ QueuesAgree' /\ InsideExists' /\ OnTheWay'
        /\ BoundHasLeftQueue' /\ InsideWhereInvited'
    BY <2>1 DEF Agreement, QueuesAgree, InsideExists, OnTheWay, BoundHasLeftQueue, Bound,
                InsideWhereInvited, Inside, Exists, Queued, HoldsSlot
  <2>3. InvitationHasItsTimer'
    <3> SUFFICES ASSUME NEW m \in Players, NEW r \in Queues, Invited(m, r)
                 PROVE  [player |-> m, bg |-> group[r][m].bg, stamp |-> group[r][m].stamp]
                          \in removeEvents'[r]
      BY <2>1 DEF InvitationHasItsTimer, Invited, Queued
    <3> DEFINE f == [player |-> m, bg |-> group[r][m].bg, stamp |-> group[r][m].stamp]
    <3>1. f \in removeEvents[r]
      BY DEF Agreement, InvitationHasItsTimer
    <3>2. ASSUME f = e, r = q PROVE FALSE
      <4>1. m = p /\ IsPlayerInvited(p, q, e.bg, e.stamp)
        BY <3>2 DEF IsPlayerInvited, Invited
      <4>2. online[p] /\ HasSlot(p, q)
        BY <3>2, <4>1, QueuedHasSlot DEF Invited, Agreement, QueuesAgree
      <4> QED BY <1>4, <4>1, <4>2
    <3> QED BY <1>2, <3>1, <3>2
  <2> QED BY <2>2, <2>3 DEF Agreement
<1> QED BY <1>3, <1>4
-----------------------------------------------------------------------------
(***************************************************************************)
(* Steps that leave slots, destinations and members alone.                 *)
(***************************************************************************)

LEMMA AgreementFrame ==
  ASSUME TypeOK, Agreement,
         UNCHANGED <<members, group, removeEvents, queueSlot, bgId, bgTeam, porting>>,
         \A p \in Players : online[p] => online'[p],
         \A b \in Bgs : Exists(b) /\ Inside(b) # {} => Exists(b)'
  PROVE  Agreement'
<1>1. QueuesAgree' /\ OnTheWay' /\ BoundHasLeftQueue' /\ InsideWhereInvited' /\ InvitationHasItsTimer'
  BY DEF Agreement, QueuesAgree, OnTheWay, BoundHasLeftQueue, Bound, InsideWhereInvited,
         InvitationHasItsTimer, Inside, Queued, Invited, HoldsSlot
<1>2. InsideExists'
  BY DEF Agreement, InsideExists, Inside
<1> QED BY <1>1, <1>2 DEF Agreement

LEMMA AgreementLogin ==
  ASSUME TypeOK, Agreement, NEW p \in Players, Login(p) \/ DeserterExpires(p)
  PROVE  Agreement'
<1>1. /\ UNCHANGED <<members, group, removeEvents, queueSlot, bgId, bgTeam, porting, status>>
      /\ \A m \in Players : online[m] => online'[m]
  BY DEF Login, DeserterExpires, bgVars, queueVars, TypeOK, PlayerTypeOK
<1> QED BY <1>1, AgreementFrame DEF Exists

LEMMA AgreementInstance ==
  ASSUME TypeOK, Agreement, NEW b \in Bgs,
         StartBattleground(b) \/ EndBattleground(b) \/ DeleteBattleground(b)
  PROVE  Agreement'
<1>1. UNCHANGED <<members, group, removeEvents, queueSlot, bgId, bgTeam, porting, online>>
  BY DEF StartBattleground, Start, EndBattleground, End, DeleteBattleground, Delete,
         queueVars, playerVars
<1>2. \A d \in Bgs : Exists(d) /\ Inside(d) # {} => Exists(d)'
  BY DEF StartBattleground, Start, EndBattleground, End, DeleteBattleground, Delete,
         Exists, TypeOK, BgTypeOK
<1> QED BY <1>1, <1>2, AgreementFrame

-----------------------------------------------------------------------------
(***************************************************************************)
(* Joining a queue and being invited.                                      *)
(***************************************************************************)

LEMMA AgreementJoinQueue ==
  ASSUME TypeOK, Agreement, NEW S \in SUBSET Players, NEW leader \in S, NEW q \in Queues,
         NEW g \in Groups, JoinQueue(leader, S, q, g)
  PROVE  Agreement'
<1>1. /\ UNCHANGED <<status, members, removeEvents, online, bgId, bgTeam, porting>>
      /\ \A m \in S : online[m] /\ ~HasSlot(m, q)
  BY DEF JoinQueue, CanJoin, InWorld, bgVars
<1>2. \A m \in Players, r \in Queues :
        /\ m \in S /\ r = q => group'[r][m].bg = NoBg /\ queueSlot'[m][r] = NoBg
        /\ ~(m \in S /\ r = q) => /\ group'[r][m] = group[r][m]
                                  /\ queueSlot'[m][r] = queueSlot[m][r]
  BY DEF JoinQueue, AddGroup, TypeOK, QueueTypeOK, PlayerTypeOK
<1>3. QueuesAgree'
  BY <1>1, <1>2 DEF Agreement, QueuesAgree, Queued
<1>4. InsideExists' /\ OnTheWay' /\ InsideWhereInvited'
  BY <1>1 DEF Agreement, InsideExists, OnTheWay, InsideWhereInvited, Inside, Exists
<1>5. BoundHasLeftQueue'
  <2> SUFFICES ASSUME NEW m \in Players, Bound(m)'
               PROVE  HoldsSlot(m)' /\ ~Queued(m, QueueOf[bgId[m]])'
    BY DEF BoundHasLeftQueue
  <2>1. Bound(m)
    BY <1>1 DEF Bound, Inside
  <2>2. bgId[m] \in Bgs /\ QueueOf[bgId[m]] \in Queues
    BY <2>1, BoundToInstance
  <2>3. HoldsSlot(m) /\ ~Queued(m, QueueOf[bgId[m]])
    BY <2>1 DEF Agreement, BoundHasLeftQueue
  <2>4. ~(m \in S /\ QueueOf[bgId[m]] = q)
    BY <1>1, <2>2, <2>3, SystemAssumption DEF HasSlot, HoldsSlot, SystemAssumption
  <2> QED BY <1>1, <1>2, <2>2, <2>3, <2>4 DEF HoldsSlot, Queued
<1>6. InvitationHasItsTimer'
  BY <1>1, <1>2 DEF Agreement, InvitationHasItsTimer, Invited, Queued
<1> QED BY <1>3, <1>4, <1>5, <1>6 DEF Agreement

\* What a queue update does to one entry.
LEMMA InvitedEntry ==
  ASSUME TypeOK, Agreement, NEW q \in Queues, NEW nb \in Bgs \cup {NoBg}, NEW s, NEW stray,
         NEW side, NEW to, QueueUpdate(q, to, side, stray, nb, s),
         NEW m \in Players, NEW r \in Queues
  PROVE  \/ group'[r][m] = group[r][m] /\ queueSlot'[m][r] = queueSlot[m][r]
         \/ /\ r = q /\ Waiting(m, q)
            /\ group'[q][m].bg = NoBg
            /\ queueSlot'[m][q] = queueSlot[m][q]
         \/ /\ r = q /\ Waiting(m, q)
            /\ group'[q][m].bg \in Bgs /\ QueueOf[group'[q][m].bg] = q
            /\ group'[q][m].stamp = s
            /\ queueSlot'[m][q] = group'[q][m].bg
            /\ m \in Reached(q, to, online) /\ group'[q][m].bg = to[group[q][m].id]
<1>1. CASE r # q \/ ~Waiting(m, q)
  BY <1>1 DEF QueueUpdate, InviteSelected, Reached, TypeOK, QueueTypeOK, PlayerTypeOK
<1>2. CASE r = q /\ Waiting(m, q)
  <2> DEFINE g == group[q][m].id
  <2>0. group[q][m] \in GroupInfo /\ g \in WaitingGroups(q) /\ group[q][m].bg = NoBg
    BY <1>2 DEF Waiting, Queued, WaitingGroups, TypeOK, QueueTypeOK
  <2>1. \/ to[g] = NoBg
        \/ to[g] \in Bgs /\ QueueOf[to[g]] = q
    BY <2>0 DEF QueueUpdate, Matching, ToppedUp
  <2>2. online[m]
    BY <1>2 DEF Agreement, QueuesAgree, Waiting
  <2>3. group'[q][m] = IF to[g] = NoBg THEN [group[q][m] EXCEPT !.team = side[g]]
                       ELSE [group[q][m] EXCEPT !.team = side[g], !.bg = to[g], !.stamp = s]
    BY <1>2 DEF QueueUpdate, InviteSelected, TypeOK, QueueTypeOK
  <2>5. CASE to[g] = NoBg
    <3>1. m \notin Reached(q, to, online)
      BY <2>5 DEF Reached
    <3>2. queueSlot'[m][q] = queueSlot[m][q]
      BY <3>1 DEF QueueUpdate, TypeOK, PlayerTypeOK
    <3>3. group'[q][m].bg = NoBg
      BY <2>0, <2>3, <2>5 DEF GroupInfo
    <3> QED BY <1>2, <3>2, <3>3
  <2>6. CASE to[g] # NoBg
    <3>1. m \in Reached(q, to, online)
      BY <1>2, <2>2, <2>6 DEF Reached
    <3>2. queueSlot'[m][q] = to[g]
      BY <3>1 DEF QueueUpdate, TypeOK, PlayerTypeOK
    <3>3. group'[q][m].bg = to[g] /\ group'[q][m].stamp = s
      BY <2>0, <2>3, <2>6 DEF GroupInfo
    <3> QED BY <1>2, <2>1, <2>6, <3>1, <3>2, <3>3
  <2> QED BY <2>5, <2>6
<1> QED BY <1>1, <1>2
LEMMA AgreementUpdate ==
  ASSUME TypeOK, Agreement, NEW q \in Queues, NEW nb \in Bgs \cup {NoBg}, NEW s, NEW stray,
         NEW side, NEW to, QueueUpdate(q, to, side, stray, nb, s)
  PROVE  Agreement'
<1> DEFINE same(m, r) == group'[r][m] = group[r][m] /\ queueSlot'[m][r] = queueSlot[m][r]
<1> DEFINE passed(m, r) == /\ r = q /\ Waiting(m, q) /\ group'[q][m].bg = NoBg
                           /\ queueSlot'[m][q] = queueSlot[m][q]
<1> DEFINE called(m, r) == /\ r = q /\ Waiting(m, q)
                           /\ group'[q][m].bg \in Bgs /\ QueueOf[group'[q][m].bg] = q
                           /\ group'[q][m].stamp = s
                           /\ queueSlot'[m][q] = group'[q][m].bg
                           /\ m \in Reached(q, to, online)
                           /\ group'[q][m].bg = to[group[q][m].id]
<1>1. UNCHANGED <<members, online, bgId, bgTeam, porting>>
  BY DEF QueueUpdate
<1>2. \A m \in Players, r \in Queues : same(m, r) \/ passed(m, r) \/ called(m, r)
  BY InvitedEntry
<1>3. QueuesAgree'
  <2> SUFFICES ASSUME NEW m \in Players, NEW r \in Queues, Queued(m, r)'
               PROVE  /\ online'[m]
                      /\ queueSlot'[m][r] = group'[r][m].bg
                      /\ group'[r][m].bg # NoBg => QueueOf[group'[r][m].bg] = r
    BY DEF QueuesAgree
  <2>1. CASE same(m, r)
    BY <1>1, <2>1 DEF Agreement, QueuesAgree, Queued
  <2>2. CASE passed(m, r) \/ called(m, r)
    BY <1>1, <2>2 DEF Agreement, QueuesAgree, Waiting
  <2> QED BY <1>2, <2>1, <2>2
<1>4. OnTheWay' /\ InsideWhereInvited'
  BY <1>1 DEF Agreement, OnTheWay, InsideWhereInvited, Inside
<1>5. InsideExists'
  <2>1. \A b \in Bgs : Exists(b) => Exists(b)'
    BY DEF QueueUpdate, Exists
  <2> QED BY <1>1, <2>1 DEF Agreement, InsideExists, Inside
<1>6. BoundHasLeftQueue'
  <2> SUFFICES ASSUME NEW m \in Players, Bound(m)'
               PROVE  HoldsSlot(m)' /\ ~Queued(m, QueueOf[bgId[m]])'
    BY DEF BoundHasLeftQueue
  <2>1. Bound(m)
    BY <1>1 DEF Bound, Inside
  <2>2. QueueOf[bgId[m]] \in Queues
    BY <2>1, BoundToInstance
  <2>3. HoldsSlot(m) /\ ~Queued(m, QueueOf[bgId[m]])
    BY <2>1 DEF Agreement, BoundHasLeftQueue
  <2>4. same(m, QueueOf[bgId[m]])
    BY <1>2, <2>2, <2>3 DEF Waiting
  <2> QED BY <1>1, <2>3, <2>4 DEF HoldsSlot, Queued
<1>7. InvitationHasItsTimer'
  <2> SUFFICES ASSUME NEW m \in Players, NEW r \in Queues, Invited(m, r)'
               PROVE  [player |-> m, bg |-> group'[r][m].bg, stamp |-> group'[r][m].stamp]
                        \in removeEvents'[r]
    BY DEF InvitationHasItsTimer
  <2>1. removeEvents' = [removeEvents EXCEPT ![q] = @ \cup
                           {[player |-> p, bg |-> to[group[q][p].id], stamp |-> s] :
                              p \in Reached(q, to, online)}]
    BY DEF QueueUpdate
  <2>2. CASE same(m, r)
    <3>1. [player |-> m, bg |-> group[r][m].bg, stamp |-> group[r][m].stamp] \in removeEvents[r]
      BY <2>2 DEF Agreement, InvitationHasItsTimer, Invited, Queued
    <3> QED BY <2>1, <2>2, <3>1 DEF TypeOK, QueueTypeOK
  <2>3. CASE passed(m, r)
    BY <2>3 DEF Invited
  <2>4. CASE called(m, r)
    BY <2>1, <2>4 DEF TypeOK, QueueTypeOK
  <2> QED BY <1>2, <2>2, <2>3, <2>4
<1> QED BY <1>3, <1>4, <1>5, <1>6, <1>7 DEF Agreement

-----------------------------------------------------------------------------
(***************************************************************************)
(* Entering an instance.                                                   *)
(***************************************************************************)

\* A player who is not inside anything answers an invitation: he leaves the
\* queue, keeps the slot and is sent to the instance, or not.
LEMMA AgreementPort ==
  ASSUME TypeOK, Agreement, NEW p \in Players, NEW q \in Queues, Port(p, q)
  PROVE  Agreement'
<1> DEFINE b == group[q][p].bg
<1>1. /\ Invited(p, q) /\ online[p] /\ ~porting[p]
      /\ queueSlot[p][q] = b
      /\ \A d \in Bgs : p \notin Inside(d)
  <2>1. Invited(p, q) /\ online[p] /\ ~porting[p] /\ ~InBattleground(p)
    BY DEF Port, MayEnter, InWorld
  <2>2. ASSUME NEW d \in Bgs, p \in Inside(d) PROVE FALSE
    <3>1. bgId[p] = d /\ Exists(d)
      BY <2>2 DEF Agreement, InsideExists, InsideWhereInvited
    <3> QED BY <2>1, <3>1, BattlegroundAssumption DEF InBattleground, BattlegroundAssumption
  <2>3. queueSlot[p][q] = b
    BY <2>1 DEF Invited, Agreement, QueuesAgree
  <2> QED BY <2>1, <2>2, <2>3
<1>2. b \in Bgs /\ group[q][p].team \in Teams /\ QueueOf[b] = q
  BY <1>1 DEF Invited, Queued, Agreement, QueuesAgree, GroupInfo, TypeOK, QueueTypeOK
<1>3. UNCHANGED <<status, members, removeEvents, online, queueSlot>>
  BY DEF Port, bgVars
<1>4. \A m \in Players, r \in Queues :
        Queued(m, r)' => ~(m = p /\ r = q) /\ Queued(m, r) /\ group'[r][m] = group[r][m]
  BY DEF Port, RemovePlayer, Queued, TypeOK, QueueTypeOK
<1>5. /\ bgId'[p] = b /\ bgTeam'[p] \in Teams
      /\ \A m \in Players : m # p => /\ bgId'[m] = bgId[m] /\ bgTeam'[m] = bgTeam[m]
                                     /\ porting'[m] = porting[m]
  BY <1>2 DEF Port, Teleport, TypeOK, PlayerTypeOK
<1>6. QueuesAgree'
  BY <1>3, <1>4 DEF Agreement, QueuesAgree
<1>7. InsideExists' /\ InsideWhereInvited'
  BY <1>1, <1>3, <1>5 DEF Agreement, InsideExists, InsideWhereInvited, Inside, Exists
<1>8. OnTheWay'
  BY <1>1, <1>2, <1>3, <1>5 DEF Agreement, OnTheWay
<1>9. BoundHasLeftQueue'
  <2> SUFFICES ASSUME NEW m \in Players, Bound(m)'
               PROVE  HoldsSlot(m)' /\ ~Queued(m, QueueOf[bgId[m]])'
    BY DEF BoundHasLeftQueue
  <2>1. CASE m = p
    BY <1>1, <1>2, <1>3, <1>4, <1>5, <2>1 DEF HoldsSlot
  <2>2. CASE m # p
    <3>1. Bound(m)
      BY <1>3, <1>5, <2>2 DEF Bound, Inside
    <3>2. QueueOf[bgId[m]] \in Queues /\ HoldsSlot(m) /\ ~Queued(m, QueueOf[bgId[m]])
      BY <3>1, BoundToInstance DEF Agreement, BoundHasLeftQueue
    <3> QED BY <1>3, <1>4, <1>5, <2>2, <3>2 DEF HoldsSlot
  <2> QED BY <2>1, <2>2
<1>10. InvitationHasItsTimer'
  <2>1. \A m \in Players, r \in Queues :
          Invited(m, r)' => Invited(m, r) /\ group'[r][m] = group[r][m]
    BY <1>4 DEF Invited
  <2> QED BY <1>3, <2>1 DEF Agreement, InvitationHasItsTimer
<1> QED BY <1>6, <1>7, <1>8, <1>9, <1>10 DEF Agreement

\* The map has been loaded.
LEMMA AgreementWorldportAck ==
  ASSUME TypeOK, Agreement, NEW p \in Players, WorldportAck(p)
  PROVE  Agreement'
<1> DEFINE b == bgId[p]
<1>1. /\ porting[p] /\ online[p] /\ b \in Bgs /\ bgTeam[p] \in Teams
      /\ HoldsSlot(p) /\ ~Queued(p, QueueOf[b])
      /\ \A d \in Bgs : p \notin Inside(d)
  BY DEF WorldportAck, Agreement, OnTheWay, BoundHasLeftQueue, Bound, InsideWhereInvited
<1>2. UNCHANGED <<status, group, removeEvents, queueSlot, online, bgId, bgTeam>>
  BY DEF WorldportAck, queueVars
<1>3. ~porting'[p] /\ \A m \in Players : m # p => porting'[m] = porting[m]
  BY DEF WorldportAck, TypeOK, PlayerTypeOK
<1>4. \A m \in Players, d \in Bgs :
        \/ members'[d][m] = members[d][m]
        \/ m = p /\ d = b /\ Exists(b) /\ members'[d][m] = bgTeam[p]
  <2>1. CASE InBattleground(p) /\ IsInvitedForInstance(p, b)
    <3>1. GetTeam(p) = bgTeam[p] /\ Exists(b)
      BY <1>1, <2>1 DEF GetTeam, InBattleground, Teams, NoTeam
    <3>2. AddPlayer(p, b, GetTeam(p))
      BY <2>1 DEF WorldportAck
    <3>3. members' = [members EXCEPT ![b][p] = bgTeam[p]]
      BY <3>1, <3>2 DEF AddPlayer
    <3> QED BY <1>1, <3>1, <3>3 DEF TypeOK, BgTypeOK
  <2>2. CASE ~(InBattleground(p) /\ IsInvitedForInstance(p, b))
    BY <2>2 DEF WorldportAck
  <2> QED BY <2>1, <2>2
<1>5. \A m \in Players, d \in Bgs :
        m \in Inside(d)' => \/ m \in Inside(d) /\ members'[d][m] = members[d][m]
                            \/ m = p /\ d = b /\ Exists(b) /\ members'[d][m] = bgTeam[p]
  BY <1>4 DEF Inside
<1>6. QueuesAgree' /\ InvitationHasItsTimer'
  BY <1>2 DEF Agreement, QueuesAgree, InvitationHasItsTimer, Invited, Queued
<1>7. InsideExists'
  BY <1>2, <1>5 DEF Agreement, InsideExists, Exists
<1>8. OnTheWay'
  BY <1>2, <1>3 DEF Agreement, OnTheWay
<1>9. InsideWhereInvited'
  <2> SUFFICES ASSUME NEW m \in Players, NEW d \in Bgs, m \in Inside(d)'
               PROVE  online'[m] /\ ~porting'[m] /\ bgId'[m] = d /\ bgTeam'[m] = members'[d][m]
    BY DEF InsideWhereInvited
  <2>1. CASE m \in Inside(d) /\ members'[d][m] = members[d][m]
    <3>1. m # p
      BY <1>1, <2>1
    <3> QED BY <1>2, <1>3, <2>1, <3>1 DEF Agreement, InsideWhereInvited
  <2>2. CASE m = p /\ d = b /\ members'[d][m] = bgTeam[p]
    BY <1>1, <1>2, <1>3, <2>2
  <2> QED BY <1>5, <2>1, <2>2
<1>10. BoundHasLeftQueue'
  <2>1. \A m \in Players : Bound(m)' => Bound(m)
    BY <1>1, <1>3, <1>5 DEF Bound
  <2> QED BY <1>2, <2>1 DEF Agreement, BoundHasLeftQueue, HoldsSlot, Queued
<1> QED BY <1>6, <1>7, <1>8, <1>9, <1>10 DEF Agreement
-----------------------------------------------------------------------------
(***************************************************************************)
(* Leaving an instance.                                                    *)
(***************************************************************************)

\* Who is inside after RemovePlayerAtLeave.
LEMMA InsideAfterLeave ==
  ASSUME TypeOK, NEW b \in Bgs, NEW S, RemovePlayersAtLeave(S, b)
  PROVE  \A m \in Players, d \in Bgs :
           m \in Inside(d)' => /\ m \in Inside(d) /\ members'[d][m] = members[d][m]
                               /\ ~(d = b /\ m \in S)
<1>1. \A m \in Players, d \in Bgs :
        /\ d = b /\ m \in S => members'[d][m] = NoTeam
        /\ ~(d = b /\ m \in S) => members'[d][m] = members[d][m]
  BY DEF RemovePlayersAtLeave, TypeOK, BgTypeOK
<1> QED BY <1>1 DEF Inside

\* Players who go by their own choice or are sent home.
LEMMA AgreementLeave ==
  ASSUME TypeOK, Agreement, NEW b \in Bgs, NEW S \in SUBSET Players,
         \A m \in S : bgId[m] = b /\ ~porting[m],
         RemovePlayersAtLeave(S, b), OutOfBattleground(S), queueSlot' = SlotsAfterLeave(S, b),
         UNCHANGED <<status, group, removeEvents, online, porting>>
  PROVE  Agreement'
<1>1. \A m \in Players, d \in Bgs :
        m \in Inside(d)' => m \in Inside(d) /\ members'[d][m] = members[d][m] /\ m \notin S
  BY InsideAfterLeave DEF Agreement, InsideWhereInvited
<1>2. \A m \in Players : m \notin S => bgId'[m] = bgId[m] /\ bgTeam'[m] = bgTeam[m]
  BY DEF OutOfBattleground
<1>3. \A m \in Players, r \in Queues :
        \/ queueSlot'[m][r] = queueSlot[m][r]
        \/ m \in S /\ m \in Inside(b) /\ r = QueueOf[b]
  BY DEF SlotsAfterLeave, TypeOK, PlayerTypeOK
<1>4. \A m \in Players, r \in Queues : Queued(m, r) => queueSlot'[m][r] = queueSlot[m][r]
  <2>1. \A m \in S : m \in Inside(b) => ~Queued(m, QueueOf[b])
    BY DEF Agreement, BoundHasLeftQueue, Bound
  <2> QED BY <1>3, <2>1
<1>5. QueuesAgree' /\ InvitationHasItsTimer'
  BY <1>4 DEF Agreement, QueuesAgree, InvitationHasItsTimer, Invited, Queued
<1>6. InsideExists' /\ InsideWhereInvited'
  BY <1>1, <1>2 DEF Agreement, InsideExists, InsideWhereInvited, Exists
<1>7. OnTheWay'
  BY <1>2 DEF Agreement, OnTheWay
<1>8. BoundHasLeftQueue'
  <2> SUFFICES ASSUME NEW m \in Players, Bound(m)'
               PROVE  HoldsSlot(m)' /\ ~Queued(m, QueueOf[bgId[m]])'
    BY DEF BoundHasLeftQueue
  <2>1. Bound(m) /\ m \notin S
    BY <1>1 DEF Bound
  <2>2. QueueOf[bgId[m]] \in Queues /\ HoldsSlot(m) /\ ~Queued(m, QueueOf[bgId[m]])
    BY <2>1, BoundToInstance DEF Agreement, BoundHasLeftQueue
  <2> QED BY <1>2, <1>3, <2>1, <2>2 DEF HoldsSlot, Queued
<1> QED BY <1>5, <1>6, <1>7, <1>8 DEF Agreement

LEMMA AgreementLeaveBattleground ==
  ASSUME TypeOK, Agreement, NEW p \in Players, LeaveBattleground(p)
  PROVE  Agreement'
<1>1. bgId[p] \in Bgs /\ ~porting[p]
  BY DEF LeaveBattleground, InBattleground, InWorld, TypeOK, PlayerTypeOK
<1>2. /\ RemovePlayersAtLeave({p}, bgId[p]) /\ OutOfBattleground({p})
      /\ queueSlot' = SlotsAfterLeave({p}, bgId[p])
      /\ UNCHANGED <<status, group, removeEvents, online, porting>>
  BY DEF LeaveBattleground
<1>3. {p} \in SUBSET Players /\ \A m \in {p} : bgId[m] = bgId[p] /\ ~porting[m]
  BY <1>1
<1> QED BY <1>1, <1>2, <1>3, AgreementLeave

LEMMA AgreementExpel ==
  ASSUME TypeOK, Agreement, NEW b \in Bgs, ProcessLeave(b) \/ ProcessOfflineQueue(b)
  PROVE  Agreement'
<1>1. PICK S : S \subseteq Inside(b) /\ Expel(S, b)
  BY DEF ProcessLeave, ProcessOfflineQueue
<1>2. S \in SUBSET Players /\ \A m \in S : bgId[m] = b /\ ~porting[m]
  BY <1>1 DEF Inside, Agreement, InsideWhereInvited
<1>3. /\ RemovePlayersAtLeave(S, b) /\ OutOfBattleground(S)
      /\ queueSlot' = SlotsAfterLeave(S, b)
      /\ UNCHANGED <<status, group, removeEvents, online, porting>>
  BY <1>1 DEF Expel
<1> QED BY <1>2, <1>3, AgreementLeave

\* From one instance to another: the slot of the old one is freed, the slot of
\* the new one kept.
LEMMA AgreementJump ==
  ASSUME TypeOK, Agreement, NEW p \in Players, NEW q \in Queues, Jump(p, q)
  PROVE  Agreement'
<1> DEFINE b == group[q][p].bg
<1> DEFINE old == bgId[p]
<1>1. /\ Invited(p, q) /\ Queued(p, q) /\ online[p] /\ ~porting[p]
      /\ queueSlot[p][q] = b /\ old \in Bgs
  <2>1. Invited(p, q) /\ Queued(p, q) /\ online[p] /\ ~porting[p] /\ old \in Bgs
    BY DEF Jump, MayEnter, InWorld, Invited, InBattleground, TypeOK, PlayerTypeOK
  <2> QED BY <2>1 DEF Agreement, QueuesAgree
<1>2. b \in Bgs /\ group[q][p].team \in Teams /\ QueueOf[b] = q
  BY <1>1 DEF Invited, Queued, Agreement, QueuesAgree, GroupInfo, TypeOK, QueueTypeOK
<1>3. UNCHANGED <<status, removeEvents, online>>
  BY DEF Jump
<1>4. \A m \in Players, r \in Queues :
        Queued(m, r)' => ~(m = p /\ r = q) /\ Queued(m, r) /\ group'[r][m] = group[r][m]
  BY DEF Jump, RemovePlayer, Queued, TypeOK, QueueTypeOK
<1>5. /\ bgId'[p] = b /\ bgTeam'[p] \in Teams
      /\ \A m \in Players : m # p => /\ bgId'[m] = bgId[m] /\ bgTeam'[m] = bgTeam[m]
                                     /\ porting'[m] = porting[m]
  BY <1>2 DEF Jump, Teleport, TypeOK, PlayerTypeOK
<1>6. \A m \in Players, d \in Bgs :
        m \in Inside(d)' => m \in Inside(d) /\ members'[d][m] = members[d][m] /\ m # p
  <2>1. RemovePlayersAtLeave({p}, old)
    BY DEF Jump
  <2> QED BY <1>1, <2>1, InsideAfterLeave DEF Agreement, InsideWhereInvited
<1>7. \A m \in Players, r \in Queues :
        \/ queueSlot'[m][r] = queueSlot[m][r]
        \/ m = p /\ p \in Inside(old) /\ r = QueueOf[old]
  BY DEF Jump, SlotsAfterLeave, TypeOK, PlayerTypeOK
<1>8. \A m \in Players, r \in Queues : Queued(m, r) => queueSlot'[m][r] = queueSlot[m][r]
  <2>1. p \in Inside(old) => ~Queued(p, QueueOf[old])
    BY <1>1 DEF Agreement, BoundHasLeftQueue, Bound
  <2> QED BY <1>7, <2>1
<1>9. QueuesAgree'
  BY <1>3, <1>4, <1>8 DEF Agreement, QueuesAgree
<1>10. InsideExists' /\ InsideWhereInvited'
  BY <1>3, <1>5, <1>6 DEF Agreement, InsideExists, InsideWhereInvited, Exists
<1>11. OnTheWay'
  BY <1>1, <1>2, <1>3, <1>5 DEF Agreement, OnTheWay
<1>12. BoundHasLeftQueue'
  <2> SUFFICES ASSUME NEW m \in Players, Bound(m)'
               PROVE  HoldsSlot(m)' /\ ~Queued(m, QueueOf[bgId[m]])'
    BY DEF BoundHasLeftQueue
  <2>1. CASE m = p
    BY <1>1, <1>2, <1>4, <1>5, <1>8, <2>1 DEF HoldsSlot
  <2>2. CASE m # p
    <3>1. Bound(m)
      BY <1>5, <1>6, <2>2 DEF Bound
    <3>2. QueueOf[bgId[m]] \in Queues /\ HoldsSlot(m) /\ ~Queued(m, QueueOf[bgId[m]])
      BY <3>1, BoundToInstance DEF Agreement, BoundHasLeftQueue
    <3> QED BY <1>4, <1>5, <1>7, <2>2, <3>2 DEF HoldsSlot
  <2> QED BY <2>1, <2>2
<1>13. InvitationHasItsTimer'
  <2>1. \A m \in Players, r \in Queues :
          Invited(m, r)' => Invited(m, r) /\ group'[r][m] = group[r][m]
    BY <1>4 DEF Invited
  <2> QED BY <1>3, <2>1 DEF Agreement, InvitationHasItsTimer
<1> QED BY <1>9, <1>10, <1>11, <1>12, <1>13 DEF Agreement

\* Nothing of a player who logs out is left, except where he was going.
LEMMA AgreementLogout ==
  ASSUME TypeOK, Agreement, NEW p \in Players, ~porting[p],
         \A m \in Players, d \in Bgs :
           m \in Inside(d)' => m \in Inside(d) /\ members'[d][m] = members[d][m] /\ m # p,
         \A m \in Players, r \in Queues :
           Queued(m, r)' => m # p /\ Queued(m, r) /\ group'[r][m] = group[r][m],
         \A m \in Players : m # p => /\ queueSlot'[m] = queueSlot[m] /\ online'[m] = online[m]
                                     /\ bgId'[m] = bgId[m] /\ bgTeam'[m] = bgTeam[m],
         UNCHANGED <<status, removeEvents, porting>>
  PROVE  Agreement'
<1>1. QueuesAgree'
  BY DEF Agreement, QueuesAgree
<1>2. InsideExists' /\ InsideWhereInvited'
  BY DEF Agreement, InsideExists, InsideWhereInvited, Exists
<1>3. OnTheWay'
  BY DEF Agreement, OnTheWay
<1>4. BoundHasLeftQueue'
  <2> SUFFICES ASSUME NEW m \in Players, Bound(m)'
               PROVE  HoldsSlot(m)' /\ ~Queued(m, QueueOf[bgId[m]])'
    BY DEF BoundHasLeftQueue
  <2>1. Bound(m) /\ m # p
    BY DEF Bound
  <2>2. QueueOf[bgId[m]] \in Queues /\ HoldsSlot(m) /\ ~Queued(m, QueueOf[bgId[m]])
    BY <2>1, BoundToInstance DEF Agreement, BoundHasLeftQueue
  <2> QED BY <2>1, <2>2 DEF HoldsSlot
<1>5. InvitationHasItsTimer'
  <2>1. \A m \in Players, r \in Queues :
          Invited(m, r)' => Invited(m, r) /\ group'[r][m] = group[r][m]
    BY DEF Invited
  <2> QED BY <2>1 DEF Agreement, InvitationHasItsTimer
<1> QED BY <1>1, <1>2, <1>3, <1>4, <1>5 DEF Agreement

LEMMA AgreementLogoutInside ==
  ASSUME TypeOK, Agreement, NEW p \in Players, LogoutInside(p)
  PROVE  Agreement'
<1> DEFINE b == bgId[p]
<1> DEFINE Q == QueuesOf(p) \ {QueueOf[b]}
<1>1. b \in Bgs /\ p \in Inside(b) /\ ~porting[p]
  BY DEF LogoutInside, InBattleground, InWorld, TypeOK, PlayerTypeOK
<1>2. \A m \in Players, d \in Bgs :
        m \in Inside(d)' => m \in Inside(d) /\ members'[d][m] = members[d][m] /\ m # p
  <2>1. RemovePlayersAtLeave({p}, b)
    BY DEF LogoutInside
  <2> QED BY <1>1, <2>1, InsideAfterLeave DEF Agreement, InsideWhereInvited
<1>3. \A r \in Queues : Queued(p, r) => r \in Q
  <2>1. ~Queued(p, QueueOf[b])
    BY <1>1 DEF Agreement, BoundHasLeftQueue, Bound
  <2> QED BY <2>1, QueuedHasSlot DEF QueuesOf
<1>4. RemovePlayer(p, Q)
  BY DEF LogoutInside
<1> HIDE DEF Q
<1>5. \A m \in Players, r \in Queues :
        Queued(m, r)' => m # p /\ Queued(m, r) /\ group'[r][m] = group[r][m]
  BY <1>3, <1>4 DEF RemovePlayer, Queued, TypeOK, QueueTypeOK
<1>6. \A m \in Players : m # p => /\ queueSlot'[m] = queueSlot[m] /\ online'[m] = online[m]
                                  /\ bgId'[m] = bgId[m] /\ bgTeam'[m] = bgTeam[m]
  BY DEF LogoutInside, OutOfBattleground, TypeOK, PlayerTypeOK
<1>7. UNCHANGED <<status, removeEvents, porting>>
  BY DEF LogoutInside
<1> QED BY <1>1, <1>2, <1>5, <1>6, <1>7, AgreementLogout

LEMMA AgreementLogoutOutside ==
  ASSUME TypeOK, Agreement, NEW p \in Players, LogoutOutside(p)
  PROVE  Agreement'
<1> DEFINE Q == QueuesOf(p)
<1>1. ~porting[p] /\ UNCHANGED <<status, removeEvents, porting, members>> /\ RemovePlayer(p, Q)
  BY DEF LogoutOutside, InWorld
<1>2. \A d \in Bgs : p \notin Inside(d)
  <2> SUFFICES ASSUME NEW d \in Bgs, p \in Inside(d) PROVE FALSE
    OBVIOUS
  <2>1. bgId[p] = d /\ Exists(d)
    BY DEF Agreement, InsideExists, InsideWhereInvited
  <2> QED BY <2>1, BattlegroundAssumption DEF LogoutOutside, InBattleground, BattlegroundAssumption
<1>3. \A m \in Players, d \in Bgs :
        m \in Inside(d)' => m \in Inside(d) /\ members'[d][m] = members[d][m] /\ m # p
  BY <1>1, <1>2 DEF Inside
<1>4. \A r \in Queues : Queued(p, r) => r \in Q
  BY QueuedHasSlot DEF QueuesOf
<1> HIDE DEF Q
<1>5. \A m \in Players, r \in Queues :
        Queued(m, r)' => m # p /\ Queued(m, r) /\ group'[r][m] = group[r][m]
  BY <1>1, <1>4 DEF RemovePlayer, Queued, TypeOK, QueueTypeOK
<1>6. \A m \in Players : m # p => /\ queueSlot'[m] = queueSlot[m] /\ online'[m] = online[m]
                                  /\ bgId'[m] = bgId[m] /\ bgTeam'[m] = bgTeam[m]
  BY DEF LogoutOutside, TypeOK, PlayerTypeOK
<1> QED BY <1>1, <1>3, <1>5, <1>6, AgreementLogout
-----------------------------------------------------------------------------
(***************************************************************************)
(* The invariant.                                                          *)
(***************************************************************************)

LEMMA AgreementInit == Init => Agreement
<1> SUFFICES ASSUME Init PROVE Agreement
  OBVIOUS
<1>1. \A p \in Players, q \in Queues : ~Queued(p, q)
  BY DEF Init, QueueInit, Queued
<1>2. \A p \in Players, b \in Bgs : p \notin Inside(b)
  BY DEF Init, BgInit, Inside
<1>3. \A p \in Players : ~porting[p]
  BY DEF Init
<1> QED BY <1>1, <1>2, <1>3
        DEF Agreement, QueuesAgree, InsideExists, OnTheWay, BoundHasLeftQueue, Bound,
            InsideWhereInvited, InvitationHasItsTimer, Invited

LEMMA AgreementNext ==
  ASSUME TypeOK, Agreement, [Next]_vars
  PROVE  Agreement'
<1>1. ASSUME NEW p \in Players,
             \/ Login(p) \/ WorldportAck(p) \/ LeaveBattleground(p) \/ DeserterExpires(p)
             \/ LogoutInside(p) \/ LogoutOutside(p)
             \/ \E q \in Queues : Port(p, q) \/ Jump(p, q) \/ LeaveQueue(p, q)
      PROVE  Agreement'
  BY <1>1, AgreementLogin, AgreementWorldportAck, AgreementLeaveBattleground,
     AgreementLogoutInside, AgreementLogoutOutside, AgreementPort, AgreementJump,
     AgreementLeaveQueue
<1>2. ASSUME NEW q \in Queues, Join(q)
      PROVE  Agreement'
  <2>1. CASE \E S \in SUBSET Players : \E leader \in S : \E g \in Groups : JoinQueue(leader, S, q, g)
    BY <2>1, AgreementJoinQueue
  <2>2. CASE \E S \in SUBSET Players : \E leader \in S : JoinRefused(leader, S, q)
    <3>1. /\ UNCHANGED <<members, group, removeEvents, queueSlot, bgId, bgTeam, porting>>
          /\ online' = online /\ status' = status
      BY <2>2 DEF JoinRefused, bgVars, playerVars
    <3> QED BY <3>1, AgreementFrame DEF Exists
  <2> QED BY <1>2, <2>1, <2>2 DEF Join
<1>3. ASSUME NEW q \in Queues, UpdateQueue(q)
      PROVE  Agreement'
  BY <1>3, AgreementUpdate DEF UpdateQueue
<1>4. ASSUME NEW q \in Queues, NEW e \in removeEvents[q], RemoveEvent(q, e)
      PROVE  Agreement'
  BY <1>4, AgreementRemoveEvent
<1>5. ASSUME NEW b \in Bgs,
             \/ StartBattleground(b) \/ EndBattleground(b) \/ DeleteBattleground(b)
             \/ ProcessLeave(b) \/ ProcessOfflineQueue(b)
      PROVE  Agreement'
  BY <1>5, AgreementInstance, AgreementExpel
<1>6. CASE UNCHANGED vars
  BY <1>6, AgreementFrame DEF vars, Exists
<1> QED BY <1>1, <1>2, <1>3, <1>4, <1>5, <1>6 DEF Next

(***************************************************************************)
(* What the queues, the Player objects and the instances record about a    *)
(* player agrees in every state, although the handlers of                  *)
(* BattleGroundHandler.cpp, AddPlayer, RemovePlayerAtLeave and the events  *)
(* each write only a part of it.                                           *)
(***************************************************************************)
THEOREM AgreementInvariant == Spec => []Agreement
BY AgreementInit, AgreementNext, TypeCorrect, PTL DEF Spec

(***************************************************************************)
(* A player inside an instance is connected, has arrived, and is in the    *)
(* one instance and on the side that his Player object names.              *)
(***************************************************************************)
THEOREM InsideIsWhereInvited == Spec => []InsideWhereInvited
<1>1. Agreement => InsideWhereInvited
  BY DEF Agreement
<1> QED BY <1>1, AgreementInvariant, PTL

(***************************************************************************)
(* Every unanswered invitation has its own event pending, the one          *)
(* InviteGroupToBG added for it.                                           *)
(***************************************************************************)
THEOREM InvitationAlwaysHasTimer == Spec => []InvitationHasItsTimer
<1>1. Agreement => InvitationHasItsTimer
  BY DEF Agreement
<1> QED BY <1>1, AgreementInvariant, PTL

-----------------------------------------------------------------------------
(***************************************************************************)
(* The number of players inside.                                           *)
(***************************************************************************)

LEMMA CountFrame ==
  ASSUME PlayersCounted, members' = members, playersCount' = playersCount
  PROVE  PlayersCounted'
BY DEF PlayersCounted, Side

\* RemovePlayerAtLeave takes off the count whom it takes off the list.
LEMMA CountAfterLeave ==
  ASSUME TypeOK, PlayersCounted, NEW b \in Bgs, NEW S, RemovePlayersAtLeave(S, b)
  PROVE  PlayersCounted'
<1> SUFFICES ASSUME NEW d \in Bgs, NEW t \in Teams
             PROVE  playersCount'[d][t] = Cardinality(Side(d, t)')
  BY DEF PlayersCounted
<1>1. CASE d # b
  <2>1. members'[d] = members[d] /\ playersCount'[d] = playersCount[d]
    BY <1>1 DEF RemovePlayersAtLeave, TypeOK, BgTypeOK
  <2> QED BY <2>1 DEF PlayersCounted, Side
<1>2. CASE d = b
  <2>1. Side(b, t)' = Side(b, t) \ S
    BY DEF RemovePlayersAtLeave, Side, Teams, NoTeam, TypeOK, BgTypeOK
  <2>2. playersCount'[b][t] = playersCount[b][t] - Cardinality(S \cap Side(b, t))
    BY DEF RemovePlayersAtLeave, TypeOK, BgTypeOK
  <2>3. Cardinality(Side(b, t) \ S) = Cardinality(Side(b, t)) - Cardinality(Side(b, t) \cap S)
    <3>1. IsFiniteSet(Side(b, t))
      BY PlayersFinite DEF Side
    <3> QED BY <3>1, FS_Difference
  <2>4. Side(b, t) \cap S = S \cap Side(b, t)
    OBVIOUS
  <2> QED BY <1>2, <2>1, <2>2, <2>3, <2>4 DEF PlayersCounted
<1> QED BY <1>1, <1>2

\* AddPlayer counts a player who was not inside.
LEMMA CountAfterArrival ==
  ASSUME TypeOK, Agreement, PlayersCounted, NEW p \in Players, WorldportAck(p)
  PROVE  PlayersCounted'
<1> DEFINE b == bgId[p]
<1> DEFINE s == GetTeam(p)
<1>1. CASE InBattleground(p) /\ IsInvitedForInstance(p, b)
  <2>1. b \in Bgs /\ s \in Teams
    BY <1>1, SystemAssumption
       DEF InBattleground, GetTeam, SystemAssumption, TypeOK, PlayerTypeOK
  <2>2. AddPlayer(p, b, s)
    BY <1>1 DEF WorldportAck
  <2>3. members[b][p] = NoTeam
    BY <2>1 DEF WorldportAck, Agreement, InsideWhereInvited, Inside
  <2> HIDE DEF b, s
  <2> SUFFICES ASSUME NEW d \in Bgs, NEW t \in Teams
               PROVE  playersCount'[d][t] = Cardinality(Side(d, t)')
    BY DEF PlayersCounted
  <2>4. CASE d = b /\ t = s
    <3>1. Side(d, t)' = Side(d, t) \cup {p}
      BY <2>1, <2>2, <2>4 DEF AddPlayer, Side, TypeOK, BgTypeOK
    <3>2. p \notin Side(d, t) /\ IsFiniteSet(Side(d, t))
      BY <2>3, <2>4, PlayersFinite DEF Side, Teams, NoTeam
    <3>3. Cardinality(Side(d, t) \cup {p}) = Cardinality(Side(d, t)) + 1
      BY <3>2, FS_AddElement
    <3>4. playersCount'[d][t] = playersCount[d][t] + 1
      BY <2>1, <2>2, <2>4 DEF AddPlayer, TypeOK, BgTypeOK
    <3> QED BY <3>1, <3>3, <3>4 DEF PlayersCounted
  <2>5. CASE ~(d = b /\ t = s)
    <3>1. Side(d, t)' = Side(d, t)
      BY <2>1, <2>2, <2>3, <2>5 DEF AddPlayer, Side, Teams, NoTeam, TypeOK, BgTypeOK
    <3>2. playersCount'[d][t] = playersCount[d][t]
      BY <2>1, <2>2, <2>5 DEF AddPlayer, TypeOK, BgTypeOK
    <3> QED BY <3>1, <3>2 DEF PlayersCounted
  <2> QED BY <2>4, <2>5
<1>2. CASE ~(InBattleground(p) /\ IsInvitedForInstance(p, b))
  BY <1>2, CountFrame DEF WorldportAck
<1> QED BY <1>1, <1>2

\* An instance is deleted with nobody inside.
LEMMA CountAfterDelete ==
  ASSUME TypeOK, PlayersCounted, NEW b \in Bgs, DeleteBattleground(b)
  PROVE  PlayersCounted'
<1> SUFFICES ASSUME NEW d \in Bgs, NEW t \in Teams
             PROVE  playersCount'[d][t] = Cardinality(Side(d, t))
  BY DEF PlayersCounted, DeleteBattleground, Delete, Side
<1>1. CASE d = b
  <2>1. Side(d, t) = {}
    BY <1>1 DEF DeleteBattleground, Delete, Inside, Side, Teams, NoTeam
  <2>2. playersCount'[d][t] = 0
    BY <1>1 DEF DeleteBattleground, Delete, TypeOK, BgTypeOK
  <2> QED BY <2>1, <2>2, FS_EmptySet
<1>2. CASE d # b
  BY <1>2 DEF DeleteBattleground, Delete, PlayersCounted, TypeOK, BgTypeOK
<1> QED BY <1>1, <1>2

(***************************************************************************)
(* The player counts of an instance are the numbers of players inside:     *)
(* AddPlayer and RemovePlayerAtLeave change m_Players and m_PlayersCount   *)
(* together.                                                               *)
(***************************************************************************)
THEOREM PlayersAlwaysCounted == Spec => []PlayersCounted
<1>1. Init => PlayersCounted
  <2> SUFFICES ASSUME Init, NEW b \in Bgs, NEW t \in Teams
               PROVE  playersCount[b][t] = Cardinality(Side(b, t))
    BY DEF PlayersCounted
  <2>1. Side(b, t) = {} /\ playersCount[b][t] = 0
    BY DEF Init, BgInit, Side, Teams, NoTeam
  <2> QED BY <2>1, FS_EmptySet
<1>2. ASSUME TypeOK, Agreement, PlayersCounted, [Next]_vars
      PROVE  PlayersCounted'
  <2>1. ASSUME NEW p \in Players, \/ Login(p) \/ DeserterExpires(p) \/ LogoutOutside(p)
                                  \/ \E q \in Queues : Port(p, q) \/ LeaveQueue(p, q)
        PROVE  PlayersCounted'
    <3>1. members' = members /\ playersCount' = playersCount
      BY <2>1 DEF Login, DeserterExpires, LogoutOutside, Port, LeaveQueue, bgVars
    <3> QED BY <1>2, <3>1, CountFrame
  <2>2. ASSUME NEW p \in Players, LeaveBattleground(p) \/ LogoutInside(p)
                                  \/ \E q \in Queues : Jump(p, q)
        PROVE  PlayersCounted'
    <3>1. bgId[p] \in Bgs
      BY <1>2, <2>2 DEF LeaveBattleground, LogoutInside, Jump, InBattleground, TypeOK, PlayerTypeOK
    <3>2. RemovePlayersAtLeave({p}, bgId[p])
      BY <2>2 DEF LeaveBattleground, LogoutInside, Jump
    <3> QED BY <1>2, <3>1, <3>2, CountAfterLeave
  <2>3. ASSUME NEW p \in Players, WorldportAck(p)
        PROVE  PlayersCounted'
    BY <1>2, <2>3, CountAfterArrival
  <2>4. ASSUME NEW q \in Queues, \/ Join(q) \/ UpdateQueue(q)
                                 \/ \E e \in removeEvents[q] : RemoveEvent(q, e)
        PROVE  PlayersCounted'
    <3>1. members' = members /\ playersCount' = playersCount
      BY <2>4 DEF Join, JoinQueue, JoinRefused, UpdateQueue, QueueUpdate, RemoveEvent, bgVars
    <3> QED BY <1>2, <3>1, CountFrame
  <2>5. ASSUME NEW b \in Bgs, StartBattleground(b) \/ EndBattleground(b)
        PROVE  PlayersCounted'
    <3>1. members' = members /\ playersCount' = playersCount
      BY <2>5 DEF StartBattleground, Start, EndBattleground, End
    <3> QED BY <1>2, <3>1, CountFrame
  <2>6. ASSUME NEW b \in Bgs, DeleteBattleground(b)
        PROVE  PlayersCounted'
    BY <1>2, <2>6, CountAfterDelete
  <2>7. ASSUME NEW b \in Bgs, ProcessLeave(b) \/ ProcessOfflineQueue(b)
        PROVE  PlayersCounted'
    <3>1. PICK S : RemovePlayersAtLeave(S, b)
      BY <2>7 DEF ProcessLeave, ProcessOfflineQueue, Expel
    <3> QED BY <1>2, <3>1, CountAfterLeave
  <2>8. CASE UNCHANGED vars
    BY <1>2, <2>8, CountFrame DEF vars
  <2> QED BY <1>2, <2>1, <2>2, <2>3, <2>4, <2>5, <2>6, <2>7, <2>8 DEF Next
<1> QED BY <1>1, <1>2, TypeCorrect, AgreementInvariant, PTL DEF Spec


-----------------------------------------------------------------------------
(***************************************************************************)
(* The slack of a side is its counter less the places held.  No step ever  *)
(* makes it smaller, and without refused teleports no step changes it:     *)
(* each handler takes a player off the counter exactly when he gives his   *)
(* place back.  From this follow NoPlaceForgotten and PlacesCounted, and   *)
(* with them that an instance is deleted only when nobody holds a place.   *)
(***************************************************************************)
One(P) == IF P THEN 1 ELSE 0

\* Whoever has a destination has a side.
SideKnown == \A p \in Players : bgId[p] # NoBg => bgTeam[p] \in Teams

\* Only a refused teleport leaves a player with a destination he neither is in
\* nor goes to.
Arrived == \A p \in Players : p \notin TeleportFails /\ bgId[p] # NoBg => Bound(p)

\* What the steps need to know about the places.
Footing ==
  /\ NoDanglingInstance
  /\ SideKnown
  /\ Arrived
  /\ SlotsAgree

\* The slack of no side falls, and stays the same when no teleport is refused.
SlackKept ==
  \A b \in Bgs, t \in Teams :
    /\ invitedCount'[b][t] - Places(b, t)' >= invitedCount[b][t] - Places(b, t)
    /\ TeleportFails = {} =>
         invitedCount'[b][t] - Places(b, t)' = invitedCount[b][t] - Places(b, t)

LEMMA PlacesAreNatural ==
  ASSUME NEW b \in Bgs, NEW t \in Teams
  PROVE  /\ Cardinality(Going(b, t)) \in Nat /\ Cardinality(InvitedTo(b, t)) \in Nat
         /\ Places(b, t) \in Nat
<1>1. Cardinality(Going(b, t)) \in Nat /\ Cardinality(InvitedTo(b, t)) \in Nat
  BY PlayersFinite DEF Going, InvitedTo
<1> QED BY <1>1 DEF Places

\* Two sets of players that differ in one player at most.
LEMMA OneMoves ==
  ASSUME NEW A, A \subseteq Players, NEW B, B \subseteq Players, NEW p \in Players,
         \A m \in Players : m # p => (m \in A <=> m \in B)
  PROVE  /\ Cardinality(B) = Cardinality(A) + One(p \in B) - One(p \in A)
         /\ Cardinality(A) \in Nat /\ Cardinality(B) \in Nat
<1>1. /\ IsFiniteSet(A) /\ Cardinality(A) \in Nat
      /\ IsFiniteSet(B) /\ Cardinality(B) \in Nat
  BY PlayersFinite
<1>2. CASE p \in A /\ p \in B
  <2>1. A = B
    BY <1>2
  <2> QED BY <1>1, <1>2, <2>1 DEF One
<1>3. CASE p \in A /\ p \notin B
  <2>1. B = A \ {p}
    BY <1>3
  <2>2. Cardinality(A \ {p}) = Cardinality(A) - 1
    BY <1>1, <1>3, FS_RemoveElement
  <2> QED BY <1>1, <1>3, <2>1, <2>2 DEF One
<1>4. CASE p \notin A /\ p \in B
  <2>1. B = A \cup {p}
    BY <1>4
  <2>2. Cardinality(A \cup {p}) = Cardinality(A) + 1
    BY <1>1, <1>4, FS_AddElement
  <2> QED BY <1>1, <1>4, <2>1, <2>2 DEF One
<1>5. CASE p \notin A /\ p \notin B
  <2>1. A = B
    BY <1>5
  <2> QED BY <1>1, <1>5, <2>1 DEF One
<1> QED BY <1>2, <1>3, <1>4, <1>5, <1>1

\* A step that concerns one player changes the places by what he holds.
LEMMA PlacesOfOne ==
  ASSUME NEW p \in Players, NEW b \in Bgs, NEW t \in Teams,
         \A m \in Players : m # p => /\ bgId'[m] = bgId[m] /\ bgTeam'[m] = bgTeam[m]
                                     /\ \A r \in Queues : group'[r][m] = group[r][m]
  PROVE  /\ Places(b, t)' = Places(b, t) + One(p \in Going(b, t)') - One(p \in Going(b, t))
                                         + One(p \in InvitedTo(b, t)') - One(p \in InvitedTo(b, t))
         /\ Places(b, t)' \in Nat
<1>1. QueueOf[b] \in Queues
  BY QueueAssumption DEF QueueAssumption
<1>2. /\ Going(b, t) \subseteq Players /\ Going(b, t)' \subseteq Players
      /\ \A m \in Players : m # p => (m \in Going(b, t) <=> m \in Going(b, t)')
  BY DEF Going
<1>3. /\ InvitedTo(b, t) \subseteq Players /\ InvitedTo(b, t)' \subseteq Players
      /\ \A m \in Players : m # p => (m \in InvitedTo(b, t) <=> m \in InvitedTo(b, t)')
  BY <1>1 DEF InvitedTo, Queued
<1>4. /\ Cardinality(Going(b, t)') = Cardinality(Going(b, t)) + One(p \in Going(b, t)') - One(p \in Going(b, t))
      /\ Cardinality(Going(b, t)) \in Nat /\ Cardinality(Going(b, t)') \in Nat
  BY <1>2, OneMoves
<1>5. /\ Cardinality(InvitedTo(b, t)') =
           Cardinality(InvitedTo(b, t)) + One(p \in InvitedTo(b, t)') - One(p \in InvitedTo(b, t))
      /\ Cardinality(InvitedTo(b, t)) \in Nat /\ Cardinality(InvitedTo(b, t)') \in Nat
  BY <1>3, OneMoves
<1> QED BY <1>4, <1>5 DEF Places, One

\* RemovePlayer gives back the place that the queue entry holds.
LEMMA GivenBackIsPlace ==
  ASSUME TypeOK, NoDanglingInstance, NEW p \in Players, NEW Q, NEW b \in Bgs, NEW t \in Teams
  PROVE  GivenBack(p, Q, b, t) = One(p \in InvitedTo(b, t) /\ QueueOf[b] \in Q)
<1>1. QueueOf[b] \in Queues /\ b # NoBg
  BY QueueAssumption, BattlegroundAssumption DEF QueueAssumption, BattlegroundAssumption
<1>2. p \in InvitedTo(b, t) => Exists(b)
  BY <1>1 DEF InvitedTo, NoDanglingInstance, Invited
<1>3. p \in InvitedTo(b, t) <=> /\ Queued(p, QueueOf[b])
                                /\ group[QueueOf[b]][p].bg = b
                                /\ group[QueueOf[b]][p].team = t
  BY DEF InvitedTo
<1> QED BY <1>2, <1>3 DEF GivenBack, One

-----------------------------------------------------------------------------
(***************************************************************************)
(* The slack, step by step.                                                *)
(***************************************************************************)

LEMMA SlackFrame ==
  ASSUME TypeOK, invitedCount' = invitedCount,
         \A b \in Bgs, t \in Teams : Going(b, t)' = Going(b, t) /\ InvitedTo(b, t)' = InvitedTo(b, t)
  PROVE  SlackKept
<1>1. \A b \in Bgs, t \in Teams : Places(b, t)' = Places(b, t) /\ invitedCount'[b][t] = invitedCount[b][t]
  BY DEF Places
<1>2. \A b \in Bgs, t \in Teams : Places(b, t) \in Nat /\ invitedCount[b][t] \in Int
  BY PlacesAreNatural DEF TypeOK, BgTypeOK
<1> QED BY <1>1, <1>2 DEF SlackKept

\* Leaving queues.
LEMMA SlackAfterRemove ==
  ASSUME TypeOK, NoDanglingInstance, NEW p \in Players, NEW Q, RemovePlayer(p, Q),
         invitedCount' = InvitedAfterRemove(invitedCount, p, Q), bgId' = bgId, bgTeam' = bgTeam
  PROVE  SlackKept
<1> SUFFICES ASSUME NEW b \in Bgs, NEW t \in Teams
             PROVE  invitedCount'[b][t] - Places(b, t)' = invitedCount[b][t] - Places(b, t)
  <2>1. \A b \in Bgs, t \in Teams : invitedCount[b][t] - Places(b, t) \in Int
    BY PlacesAreNatural DEF TypeOK, BgTypeOK
  <2> QED BY <2>1 DEF SlackKept
<1>1. invitedCount'[b][t] = invitedCount[b][t] - One(p \in InvitedTo(b, t) /\ QueueOf[b] \in Q)
  BY GivenBackIsPlace DEF InvitedAfterRemove
<1>2. \A m \in Players, r \in Queues :
        group'[r][m] = IF m = p /\ r \in Q THEN NoGroup ELSE group[r][m]
  BY DEF RemovePlayer, TypeOK, QueueTypeOK
<1>3. Places(b, t)' = Places(b, t) + One(p \in Going(b, t)') - One(p \in Going(b, t))
                                   + One(p \in InvitedTo(b, t)') - One(p \in InvitedTo(b, t))
  BY <1>2, PlacesOfOne
<1>4. p \in Going(b, t)' <=> p \in Going(b, t)
  BY DEF Going
<1>5. p \in InvitedTo(b, t)' <=> p \in InvitedTo(b, t) /\ QueueOf[b] \notin Q
  BY <1>2, QueueAssumption DEF InvitedTo, Queued, QueueAssumption
<1>6. Places(b, t) \in Nat /\ invitedCount[b][t] \in Int
  BY PlacesAreNatural DEF TypeOK, BgTypeOK
<1> QED BY <1>1, <1>3, <1>4, <1>5, <1>6 DEF One

\* Accepting an invitation turns the place of the queue entry into one of a
\* player on the way.
LEMMA SlackAfterPort ==
  ASSUME TypeOK, Agreement, Footing, NEW p \in Players, NEW q \in Queues, Port(p, q)
  PROVE  SlackKept
<1> DEFINE g == group[q][p]
<1>1. /\ Queued(p, q) /\ g \in GroupInfo /\ g.bg \in Bgs /\ QueueOf[g.bg] = q /\ g.team \in Teams
      /\ bgId[p] = NoBg
  BY DEF Port, MayEnter, Invited, Queued, InBattleground, Footing, NoDanglingInstance,
         GroupInfo, TypeOK, QueueTypeOK
<1>2. \A m \in Players, r \in Queues :
        group'[r][m] = IF m = p /\ r = q THEN NoGroup ELSE group[r][m]
  BY DEF Port, RemovePlayer, TypeOK, QueueTypeOK
<1>3. /\ bgId'[p] = g.bg /\ bgTeam'[p] = g.team
      /\ \A m \in Players : m # p => bgId'[m] = bgId[m] /\ bgTeam'[m] = bgTeam[m]
  BY DEF Port, TypeOK, PlayerTypeOK
<1> SUFFICES ASSUME NEW b \in Bgs, NEW t \in Teams
             PROVE  invitedCount'[b][t] - Places(b, t)' = invitedCount[b][t] - Places(b, t)
  <2>1. \A b \in Bgs, t \in Teams : invitedCount[b][t] - Places(b, t) \in Int
    BY PlacesAreNatural DEF TypeOK, BgTypeOK
  <2> QED BY <2>1 DEF SlackKept
<1>4. Places(b, t)' = Places(b, t) + One(p \in Going(b, t)') - One(p \in Going(b, t))
                                   + One(p \in InvitedTo(b, t)') - One(p \in InvitedTo(b, t))
  BY <1>2, <1>3, PlacesOfOne
<1>5. p \notin Going(b, t) /\ (p \in Going(b, t)' <=> b = g.bg /\ t = g.team)
  BY <1>1, <1>3, BattlegroundAssumption DEF Going, BattlegroundAssumption
<1>6. CASE QueueOf[b] = q
  <2>1. p \notin InvitedTo(b, t)' /\ (p \in InvitedTo(b, t) <=> b = g.bg /\ t = g.team)
    BY <1>1, <1>2, <1>6 DEF InvitedTo, Queued
  <2> QED BY <1>4, <1>5, <2>1, PlacesAreNatural DEF One, Port, bgVars
<1>7. CASE QueueOf[b] # q
  <2>1. p \in InvitedTo(b, t)' <=> p \in InvitedTo(b, t)
    BY <1>2, <1>7, QueueAssumption DEF InvitedTo, Queued, QueueAssumption
  <2>2. p \notin Going(b, t)'
    BY <1>1, <1>5, <1>7
  <2> QED BY <1>4, <1>5, <2>1, <2>2, PlacesAreNatural DEF One, Port, bgVars
<1> QED BY <1>6, <1>7

\* What RemovePlayerAtLeave takes off for one player is his place, unless he was
\* refused and holds it for nothing.
LEMMA LeaveGivesBack ==
  ASSUME TypeOK, Agreement, Footing, NEW p \in Players, ~porting[p], bgId[p] \in Bgs,
         NEW c \in [Bgs -> [Teams -> Int]], NEW d \in Bgs, NEW t \in Teams
  PROVE  LET left == InvitedAfterLeave(c, {p}, bgId[p])[d][t]
         IN  /\ left \in Int
             /\ left >= c[d][t] - One(p \in Going(d, t))
             /\ TeleportFails = {} => left = c[d][t] - One(p \in Going(d, t))
<1> DEFINE b == bgId[p]
<1> DEFINE left == InvitedAfterLeave(c, {p}, b)[d][t]
<1>1. left = c[d][t] - One(d = b /\ p \in Side(b, t))
  <2>1. CASE d = b
    <3>1. left = c[d][t] - Cardinality({p} \cap Side(b, t))
      BY <2>1 DEF InvitedAfterLeave
    <3>2. CASE p \in Side(b, t)
      <4>1. {p} \cap Side(b, t) = {p} /\ Cardinality({p}) = 1
        BY <3>2, FS_Singleton
      <4> QED BY <2>1, <3>1, <3>2, <4>1 DEF One
    <3>3. CASE p \notin Side(b, t)
      <4>1. {p} \cap Side(b, t) = {} /\ Cardinality({}) = 0
        BY <3>3, FS_EmptySet
      <4> QED BY <2>1, <3>1, <3>3, <4>1 DEF One
    <3> QED BY <3>2, <3>3
  <2>2. CASE d # b
    BY <2>2 DEF InvitedAfterLeave, One
  <2> QED BY <2>1, <2>2
<1>2. d = b /\ p \in Side(b, t) => p \in Going(d, t)
  BY DEF Side, Going, Inside, Agreement, InsideWhereInvited, Teams, NoTeam
<1>3. TeleportFails = {} /\ p \in Going(d, t) => d = b /\ p \in Side(b, t)
  <2> SUFFICES ASSUME TeleportFails = {}, p \in Going(d, t)
               PROVE  d = b /\ p \in Side(b, t)
    OBVIOUS
  <2>1. d = b /\ bgTeam[p] = t /\ b # NoBg
    BY BattlegroundAssumption DEF Going, BattlegroundAssumption
  <2>2. p \in Inside(b)
    BY <2>1 DEF Footing, Arrived, Bound, Agreement, InsideWhereInvited
  <2> QED BY <2>1, <2>2 DEF Side, Agreement, InsideWhereInvited
<1>4. c[d][t] \in Int
  OBVIOUS
<1> QED BY <1>1, <1>2, <1>3, <1>4 DEF One
\* A step of one player after which the counter is short of what he gave up by
\* no more than that.
LEMMA SlackOfOne ==
  ASSUME TypeOK, NEW p \in Players, NEW b \in Bgs, NEW t \in Teams,
         \A m \in Players : m # p => /\ bgId'[m] = bgId[m] /\ bgTeam'[m] = bgTeam[m]
                                     /\ \A r \in Queues : group'[r][m] = group[r][m],
         NEW n \in Int, invitedCount'[b][t] = invitedCount[b][t] + n,
         NEW k \in Int, k = One(p \in Going(b, t)') - One(p \in Going(b, t))
                              + One(p \in InvitedTo(b, t)') - One(p \in InvitedTo(b, t)),
         n >= k,
         TeleportFails = {} => n = k
  PROVE  /\ invitedCount'[b][t] - Places(b, t)' >= invitedCount[b][t] - Places(b, t)
         /\ TeleportFails = {} =>
              invitedCount'[b][t] - Places(b, t)' = invitedCount[b][t] - Places(b, t)
<1>1. Places(b, t)' = Places(b, t) + One(p \in Going(b, t)') - One(p \in Going(b, t))
                                   + One(p \in InvitedTo(b, t)') - One(p \in InvitedTo(b, t))
  BY PlacesOfOne
<1>2. Places(b, t) \in Nat /\ invitedCount[b][t] \in Int
  BY PlacesAreNatural DEF TypeOK, BgTypeOK
<1>3. Places(b, t)' = Places(b, t) + k
  BY <1>1, <1>2 DEF One
<1> QED BY <1>2, <1>3

LEMMA SlackAfterLeaveBattleground ==
  ASSUME TypeOK, Agreement, Footing, NEW p \in Players, LeaveBattleground(p)
  PROVE  SlackKept
<1> SUFFICES ASSUME NEW d \in Bgs, NEW t \in Teams
             PROVE  /\ invitedCount'[d][t] - Places(d, t)' >= invitedCount[d][t] - Places(d, t)
                    /\ TeleportFails = {} =>
                         invitedCount'[d][t] - Places(d, t)' = invitedCount[d][t] - Places(d, t)
  BY DEF SlackKept
<1> DEFINE n == invitedCount'[d][t] - invitedCount[d][t]
<1>1. bgId[p] \in Bgs /\ ~porting[p] /\ invitedCount \in [Bgs -> [Teams -> Int]]
  BY DEF LeaveBattleground, InBattleground, InWorld, TypeOK, BgTypeOK, PlayerTypeOK
<1>2. invitedCount' = InvitedAfterLeave(invitedCount, {p}, bgId[p]) /\ group' = group
  BY DEF LeaveBattleground
<1>3. /\ bgId'[p] = NoBg
      /\ \A m \in Players : m # p => bgId'[m] = bgId[m] /\ bgTeam'[m] = bgTeam[m]
  BY DEF LeaveBattleground, OutOfBattleground
<1>4. p \notin Going(d, t)' /\ (p \in InvitedTo(d, t)' <=> p \in InvitedTo(d, t))
  BY <1>2, <1>3, BattlegroundAssumption DEF Going, InvitedTo, Queued, BattlegroundAssumption
<1>5. /\ invitedCount'[d][t] \in Int
      /\ invitedCount'[d][t] >= invitedCount[d][t] - One(p \in Going(d, t))
      /\ TeleportFails = {} => invitedCount'[d][t] = invitedCount[d][t] - One(p \in Going(d, t))
  BY <1>1, <1>2, LeaveGivesBack
<1>6. /\ n \in Int /\ invitedCount'[d][t] = invitedCount[d][t] + n
      /\ n >= - One(p \in Going(d, t)) /\ (TeleportFails = {} => n = - One(p \in Going(d, t)))
  BY <1>1, <1>5 DEF One
<1>7. - One(p \in Going(d, t)) = One(p \in Going(d, t)') - One(p \in Going(d, t))
                              + One(p \in InvitedTo(d, t)') - One(p \in InvitedTo(d, t))
  BY <1>4 DEF One
<1>8. - One(p \in Going(d, t)) \in Int
  BY DEF One
<1> HIDE DEF n
<1> QED BY <1>2, <1>3, <1>6, <1>7, <1>8, SlackOfOne

\* From one instance to the other.
LEMMA SlackAfterJump ==
  ASSUME TypeOK, Agreement, Footing, NEW p \in Players, NEW q \in Queues, Jump(p, q)
  PROVE  SlackKept
<1> SUFFICES ASSUME NEW d \in Bgs, NEW t \in Teams
             PROVE  /\ invitedCount'[d][t] - Places(d, t)' >= invitedCount[d][t] - Places(d, t)
                    /\ TeleportFails = {} =>
                         invitedCount'[d][t] - Places(d, t)' = invitedCount[d][t] - Places(d, t)
  BY DEF SlackKept
<1> DEFINE g == group[q][p]
<1> DEFINE n == invitedCount'[d][t] - invitedCount[d][t]
<1>1. bgId[p] \in Bgs /\ ~porting[p] /\ invitedCount \in [Bgs -> [Teams -> Int]]
  BY DEF Jump, MayEnter, InBattleground, InWorld, TypeOK, BgTypeOK, PlayerTypeOK
<1>2. invitedCount' = InvitedAfterLeave(invitedCount, {p}, bgId[p])
  BY DEF Jump
<1>3. /\ bgId'[p] = g.bg /\ bgTeam'[p] = g.team
      /\ \A m \in Players : m # p => bgId'[m] = bgId[m] /\ bgTeam'[m] = bgTeam[m]
  BY DEF Jump, TypeOK, PlayerTypeOK
<1>4. \A m \in Players, r \in Queues :
        group'[r][m] = IF m = p /\ r = q THEN NoGroup ELSE group[r][m]
  BY DEF Jump, RemovePlayer, TypeOK, QueueTypeOK
<1>5. Queued(p, q) /\ QueueOf[g.bg] = q
  BY DEF Jump, MayEnter, Invited, Footing, NoDanglingInstance
<1>6. p \in Going(d, t)' <=> d = g.bg /\ t = g.team
  BY <1>3 DEF Going
<1>7. p \in InvitedTo(d, t)' <=> p \in InvitedTo(d, t) /\ QueueOf[d] # q
  BY <1>4, QueueAssumption DEF InvitedTo, Queued, QueueAssumption
<1>8. QueueOf[d] = q => (p \in InvitedTo(d, t) <=> d = g.bg /\ t = g.team)
  BY <1>5 DEF InvitedTo
<1>9. /\ invitedCount'[d][t] \in Int
      /\ invitedCount'[d][t] >= invitedCount[d][t] - One(p \in Going(d, t))
      /\ TeleportFails = {} => invitedCount'[d][t] = invitedCount[d][t] - One(p \in Going(d, t))
  BY <1>1, <1>2, LeaveGivesBack
<1>10. /\ n \in Int /\ invitedCount'[d][t] = invitedCount[d][t] + n
       /\ n >= - One(p \in Going(d, t)) /\ (TeleportFails = {} => n = - One(p \in Going(d, t)))
  BY <1>1, <1>9 DEF One
<1>11. - One(p \in Going(d, t)) = One(p \in Going(d, t)') - One(p \in Going(d, t))
                               + One(p \in InvitedTo(d, t)') - One(p \in InvitedTo(d, t))
  <2>1. p \in Going(d, t)' => QueueOf[d] = q
    BY <1>5, <1>6
  <2> QED BY <1>6, <1>7, <1>8, <2>1 DEF One
<1>12. - One(p \in Going(d, t)) \in Int
  BY DEF One
<1> HIDE DEF n
<1> QED BY <1>3, <1>4, <1>10, <1>11, <1>12, SlackOfOne

\* Logging out inside gives back the place there and those of other invitations.
LEMMA SlackAfterLogoutInside ==
  ASSUME TypeOK, Agreement, Footing, NEW p \in Players, LogoutInside(p)
  PROVE  SlackKept
<1> SUFFICES ASSUME NEW d \in Bgs, NEW t \in Teams
             PROVE  /\ invitedCount'[d][t] - Places(d, t)' >= invitedCount[d][t] - Places(d, t)
                    /\ TeleportFails = {} =>
                         invitedCount'[d][t] - Places(d, t)' = invitedCount[d][t] - Places(d, t)
  BY DEF SlackKept
<1> DEFINE Q == QueuesOf(p) \ {QueueOf[bgId[p]]}
<1> DEFINE c == InvitedAfterLeave(invitedCount, {p}, bgId[p])
<1> DEFINE n == invitedCount'[d][t] - invitedCount[d][t]
<1> DEFINE k == - One(p \in Going(d, t)) - One(p \in InvitedTo(d, t))
<1>1. /\ bgId[p] \in Bgs /\ ~porting[p] /\ p \in Inside(bgId[p])
      /\ invitedCount \in [Bgs -> [Teams -> Int]]
  BY DEF LogoutInside, InBattleground, InWorld, TypeOK, BgTypeOK, PlayerTypeOK
<1>2. invitedCount' = InvitedAfterRemove(c, p, Q) /\ RemovePlayer(p, Q)
  BY DEF LogoutInside
<1>3. /\ bgId'[p] = NoBg
      /\ \A m \in Players : m # p => bgId'[m] = bgId[m] /\ bgTeam'[m] = bgTeam[m]
  BY DEF LogoutInside, OutOfBattleground
<1>4. \A r \in Queues : Queued(p, r) => r \in Q
  <2>1. ~Queued(p, QueueOf[bgId[p]])
    BY <1>1 DEF Agreement, BoundHasLeftQueue, Bound
  <2> QED BY <2>1, QueuedHasSlot DEF QueuesOf
<1>5. c \in [Bgs -> [Teams -> Int]]
  BY <1>1, InvitedAfterLeaveType
<1>6. /\ c[d][t] >= invitedCount[d][t] - One(p \in Going(d, t))
      /\ TeleportFails = {} => c[d][t] = invitedCount[d][t] - One(p \in Going(d, t))
  BY <1>1, LeaveGivesBack
<1> HIDE DEF Q, c
<1>7. \A m \in Players, r \in Queues :
        group'[r][m] = IF m = p /\ r \in Q THEN NoGroup ELSE group[r][m]
  BY <1>2 DEF RemovePlayer, TypeOK, QueueTypeOK
<1>8. QueueOf[d] \in Queues
  BY QueueAssumption DEF QueueAssumption
<1>9. p \notin Going(d, t)' /\ p \notin InvitedTo(d, t)'
  BY <1>3, <1>4, <1>7, <1>8, BattlegroundAssumption
     DEF Going, InvitedTo, Queued, BattlegroundAssumption
<1>10. p \in InvitedTo(d, t) => QueueOf[d] \in Q
  BY <1>4, <1>8 DEF InvitedTo
<1>11. invitedCount'[d][t] = c[d][t] - One(p \in InvitedTo(d, t))
  <2>1. GivenBack(p, Q, d, t) = One(p \in InvitedTo(d, t) /\ QueueOf[d] \in Q)
    BY GivenBackIsPlace DEF Footing
  <2> QED BY <1>2, <1>10, <2>1 DEF InvitedAfterRemove, One
<1>12. /\ n \in Int /\ k \in Int /\ invitedCount'[d][t] = invitedCount[d][t] + n
       /\ n >= k /\ (TeleportFails = {} => n = k)
  <2>1. c[d][t] \in Int /\ invitedCount[d][t] \in Int
    BY <1>1, <1>5
  <2> QED BY <1>6, <1>11, <2>1 DEF One
<1>13. k = One(p \in Going(d, t)') - One(p \in Going(d, t))
             + One(p \in InvitedTo(d, t)') - One(p \in InvitedTo(d, t))
  BY <1>9 DEF One
<1> HIDE DEF n, k
<1> QED BY <1>3, <1>7, <1>12, <1>13, SlackOfOne

\* Everyone whom the instance sends home is inside.
LEMMA SlackAfterExpel ==
  ASSUME TypeOK, Agreement, Footing, NEW b \in Bgs, NEW S, S \subseteq Inside(b), Expel(S, b)
  PROVE  SlackKept
<1> SUFFICES ASSUME NEW d \in Bgs, NEW t \in Teams
             PROVE  invitedCount'[d][t] - Places(d, t)' = invitedCount[d][t] - Places(d, t)
  <2>1. \A x \in Bgs, t \in Teams : invitedCount[x][t] - Places(x, t) \in Int
    BY PlacesAreNatural DEF TypeOK, BgTypeOK
  <2> QED BY <2>1 DEF SlackKept
<1>1. InvitedTo(d, t)' = InvitedTo(d, t)
  BY DEF Expel, InvitedTo, Queued
<1>2. Going(d, t)' = Going(d, t) \ S
  BY BattlegroundAssumption DEF Expel, OutOfBattleground, Going, BattlegroundAssumption
<1>3. invitedCount'[d][t] = invitedCount[d][t] - Cardinality(Going(d, t) \cap S)
  <2>1. \A m \in S : m \in Players /\ bgId[m] = b /\ bgTeam[m] = members[b][m]
    BY DEF Inside, Agreement, InsideWhereInvited
  <2>2. CASE d = b
    <3>1. S \cap Side(b, t) = Going(d, t) \cap S
      BY <2>1, <2>2 DEF Side, Going
    <3> QED BY <2>2, <3>1 DEF Expel, InvitedAfterLeave, TypeOK, BgTypeOK
  <2>3. CASE d # b
    <3>1. Cardinality(Going(d, t) \cap S) = 0
      <4>1. Going(d, t) \cap S = {}
        BY <2>1, <2>3 DEF Going
      <4> QED BY <4>1, FS_EmptySet
    <3>2. invitedCount'[d][t] = invitedCount[d][t] /\ invitedCount[d][t] \in Int
      BY <2>3 DEF Expel, InvitedAfterLeave, TypeOK, BgTypeOK
    <3> QED BY <3>1, <3>2
  <2> QED BY <2>2, <2>3
<1>4. Cardinality(Going(d, t) \ S) = Cardinality(Going(d, t)) - Cardinality(Going(d, t) \cap S)
  BY PlayersFinite, FS_Difference DEF Going
<1>5. Cardinality(Going(d, t) \cap S) \in Nat
  BY PlayersFinite DEF Going
<1>6. invitedCount[d][t] \in Int
  BY DEF TypeOK, BgTypeOK
<1> QED BY <1>1, <1>2, <1>3, <1>4, <1>5, <1>6, PlacesAreNatural DEF Places

\* An update adds to the counter exactly the players it has invited.
LEMMA SlackAfterUpdate ==
  ASSUME TypeOK, Agreement, NEW q \in Queues, NEW nb \in Bgs \cup {NoBg}, NEW s \in Stamps,
         NEW stray, NEW side \in [WaitingGroups(q) -> Teams], NEW to,
         QueueUpdate(q, to, side, stray, nb, s)
  PROVE  SlackKept
<1> SUFFICES ASSUME NEW b \in Bgs, NEW t \in Teams
             PROVE  invitedCount'[b][t] - Places(b, t)' = invitedCount[b][t] - Places(b, t)
  <2>1. \A b \in Bgs, t \in Teams : invitedCount[b][t] - Places(b, t) \in Int
    BY PlacesAreNatural DEF TypeOK, BgTypeOK
  <2> QED BY <2>1 DEF SlackKept
<1> DEFINE new == Selected(q, to, side, b, t) \cap Reached(q, to, online)
<1> DEFINE old == InvitedTo(b, t)
<1>1. Going(b, t)' = Going(b, t)
  BY DEF QueueUpdate, Going
<1>2. invitedCount'[b][t] = invitedCount[b][t] + Cardinality(new)
  BY DEF QueueUpdate
<1>3. \A m \in Players : m \in InvitedTo(b, t)' <=> m \in old \/ m \in new
  <2> SUFFICES ASSUME NEW m \in Players
               PROVE  m \in InvitedTo(b, t)' <=> m \in old \/ m \in new
    OBVIOUS
  <2> DEFINE g == group[q][m].id
  <2>0. QueueOf[b] \in Queues /\ b # NoBg
    BY QueueAssumption, BattlegroundAssumption DEF QueueAssumption, BattlegroundAssumption
  <2>1. CASE QueueOf[b] # q \/ ~Waiting(m, q)
    <3>1. group'[QueueOf[b]][m] = group[QueueOf[b]][m]
      BY <2>0, <2>1 DEF QueueUpdate, InviteSelected, TypeOK, QueueTypeOK
    <3>2. m \notin new
      <4>1. CASE ~Waiting(m, q)
        BY <4>1 DEF Reached
      <4>2. CASE QueueOf[b] # q /\ Waiting(m, q)
        <5>1. g \in WaitingGroups(q)
          BY <4>2 DEF WaitingGroups
        <5>2. to[g] # b
          BY <2>0, <4>2, <5>1 DEF QueueUpdate, Matching, ToppedUp
        <5> QED BY <5>2 DEF Selected
      <4> QED BY <2>1, <4>1, <4>2
    <3> QED BY <3>1, <3>2 DEF InvitedTo, Queued
  <2>2. CASE QueueOf[b] = q /\ Waiting(m, q)
    <3>1. /\ group[q][m] \in GroupInfo /\ group[q][m].bg = NoBg /\ g \in WaitingGroups(q)
          /\ side[g] \in Teams
      BY <2>2 DEF Waiting, Queued, WaitingGroups, TypeOK, QueueTypeOK
    <3>2. m \notin old
      BY <2>0, <2>2, <3>1 DEF InvitedTo
    <3>3. group'[q][m] = IF to[g] = NoBg THEN [group[q][m] EXCEPT !.team = side[g]]
                         ELSE [group[q][m] EXCEPT !.team = side[g], !.bg = to[g], !.stamp = s]
      BY <2>2 DEF QueueUpdate, InviteSelected, TypeOK, QueueTypeOK
    <3>4. CASE to[g] = NoBg
      <4>1. group'[q][m].bg = NoBg
        BY <3>1, <3>3, <3>4 DEF GroupInfo
      <4>2. m \notin new
        BY <3>4 DEF Reached
      <4> QED BY <2>0, <2>2, <3>2, <4>1, <4>2 DEF InvitedTo
    <3>5. CASE to[g] # NoBg
      <4>1. to[g] \in Bgs
        BY <3>1, <3>5 DEF QueueUpdate, Matching, ToppedUp
      <4>2. /\ group'[q][m] \in GroupInfo
            /\ group'[q][m].bg = to[g] /\ group'[q][m].team = side[g]
        BY <3>1, <3>3, <3>5, <4>1 DEF GroupInfo
      <4>3. Queued(m, q)'
        BY <4>2, GroupAssumption DEF Queued, GroupAssumption
      <4>4. m \in Reached(q, to, online)
        BY <2>2, <3>5 DEF Reached, Agreement, QueuesAgree, Waiting
      <4>5. m \in InvitedTo(b, t)' <=> to[g] = b /\ side[g] = t
        BY <2>2, <4>2, <4>3 DEF InvitedTo
      <4>6. m \in new <=> to[g] = b /\ side[g] = t
        BY <2>2, <4>4 DEF Selected
      <4> QED BY <3>2, <4>5, <4>6
    <3> QED BY <3>4, <3>5
  <2> QED BY <2>1, <2>2
<1>4. old \cap new = {}
  <2> SUFFICES ASSUME NEW m \in old, m \in new PROVE FALSE
    OBVIOUS
  <2>1. Waiting(m, q) /\ to[group[q][m].id] = b /\ m \in Players
    BY DEF Selected
  <2>2. b # NoBg
    BY BattlegroundAssumption DEF BattlegroundAssumption
  <2>3. group[q][m].id \in WaitingGroups(q)
    BY <2>1 DEF WaitingGroups
  <2>4. QueueOf[b] = q
    BY <2>1, <2>2, <2>3 DEF QueueUpdate, Matching, ToppedUp
  <2> QED BY <2>1, <2>2, <2>4 DEF InvitedTo, Waiting
<1>5. InvitedTo(b, t)' = old \cup new
  <2>1. InvitedTo(b, t)' \subseteq Players /\ old \subseteq Players /\ new \subseteq Players
    BY DEF InvitedTo, Selected
  <2> QED BY <1>3, <2>1
<1>6. /\ IsFiniteSet(old) /\ IsFiniteSet(new)
      /\ Cardinality(old) \in Nat /\ Cardinality(new) \in Nat
  BY PlayersFinite DEF InvitedTo, Selected
<1>7. Cardinality(old \cup new) = Cardinality(old) + Cardinality(new)
  <2>1. Cardinality(old \cup new) = Cardinality(old) + Cardinality(new) - Cardinality(old \cap new)
    BY <1>6, FS_Union
  <2>2. Cardinality(old \cap new) = 0
    BY <1>4, FS_EmptySet
  <2> HIDE DEF old, new
  <2> QED BY <1>6, <2>1, <2>2
<1>8. Cardinality(Going(b, t)) \in Nat /\ invitedCount[b][t] \in Int
  BY PlacesAreNatural DEF TypeOK, BgTypeOK
<1>9. /\ Places(b, t)' = Cardinality(Going(b, t)) + (Cardinality(old) + Cardinality(new))
      /\ Places(b, t) = Cardinality(Going(b, t)) + Cardinality(old)
  BY <1>1, <1>5, <1>7 DEF Places
<1> HIDE DEF old, new
<1> QED BY <1>2, <1>6, <1>8, <1>9
-----------------------------------------------------------------------------
(***************************************************************************)
(* The footing, player by player.                                          *)
(***************************************************************************)

FootOf(p) ==
  /\ bgId[p] # NoBg => Exists(bgId[p]) /\ bgTeam[p] \in Teams
  /\ p \notin TeleportFails /\ bgId[p] # NoBg => Bound(p)
  /\ \A q \in Queues : Invited(p, q) => Exists(group[q][p].bg)
  /\ \A q \in Queues : HasSlot(p, q) /\ ~Queued(p, q) /\ p \notin TeleportFails =>
       bgId[p] # NoBg /\ queueSlot[p][q] = bgId[p] /\ QueueOf[bgId[p]] = q

LEMMA FootingByPlayer ==
  ASSUME Agreement
  PROVE  Footing <=> \A p \in Players : FootOf(p)
BY DEF Footing, FootOf, NoDanglingInstance, SideKnown, Arrived, SlotsAgree, Agreement,
       QueuesAgree, Invited

LEMMA FootingAfterwards ==
  ASSUME Agreement', \A p \in Players : FootOf(p)'
  PROVE  Footing'
BY DEF Footing, FootOf, NoDanglingInstance, SideKnown, Arrived, SlotsAgree, Agreement,
       QueuesAgree, Invited

\* A step does not touch a player, and leaves the instances he is bound to.
Untouched(m) ==
  /\ Bound(m) => Bound(m)'
  /\ bgId'[m] = bgId[m] /\ bgTeam'[m] = bgTeam[m]
  /\ \A r \in Queues : group'[r][m] = group[r][m] /\ queueSlot'[m][r] = queueSlot[m][r]

InstancesStay(m) ==
  /\ bgId[m] # NoBg => Exists(bgId[m])'
  /\ \A r \in Queues : Invited(m, r) => Exists(group[r][m].bg)'

LEMMA FootKept ==
  ASSUME NEW m \in Players, FootOf(m), Untouched(m), InstancesStay(m)
  PROVE  FootOf(m)'
<1>1. \A r \in Queues : /\ Invited(m, r)' <=> Invited(m, r)
                        /\ Queued(m, r)' <=> Queued(m, r)
                        /\ HasSlot(m, r)' <=> HasSlot(m, r)
  BY DEF Untouched, Invited, Queued, HasSlot
<1>2. bgId'[m] # NoBg => Exists(bgId[m])' /\ bgTeam'[m] \in Teams
  BY DEF FootOf, Untouched, InstancesStay
<1> QED BY <1>1, <1>2 DEF FootOf, Exists, Untouched, InstancesStay

LEMMA StatusStays ==
  ASSUME NEW m \in Players, FootOf(m), \A b \in Bgs : Exists(b) => Exists(b)',
         Untouched(m), TypeOK
  PROVE  FootOf(m)'
<1>1. InstancesStay(m)
  BY DEF InstancesStay, Untouched, FootOf, Exists, Invited, Queued, GroupInfo,
         TypeOK, QueueTypeOK, PlayerTypeOK
<1> QED BY <1>1, FootKept

\* Steps of one player in which instances stay.
LEMMA FootingOfOne ==
  ASSUME TypeOK, Agreement, Agreement', Footing, NEW p \in Players, status' = status, FootOf(p)',
         \A m \in Players : m # p => Untouched(m)
  PROVE  Footing'
<1>1. \A m \in Players : FootOf(m)
  BY FootingByPlayer
<1>2. \A b \in Bgs : Exists(b) => Exists(b)'
  BY DEF Exists
<1>3. \A m \in Players : m # p => FootOf(m)'
  BY <1>1, <1>2, StatusStays
<1> QED BY <1>3, FootingAfterwards
\* Leaving a queue.
LEMMA FootingAfterDrop ==
  ASSUME TypeOK, Agreement, Agreement', Footing, NEW p \in Players, NEW q \in Queues,
         RemovePlayer(p, {q}), queueSlot' = [queueSlot EXCEPT ![p][q] = NoSlot],
         UNCHANGED <<status, members, bgId, bgTeam, porting>>
  PROVE  Footing'
<1>1. \A m \in Players, r \in Queues :
        /\ m = p /\ r = q => ~Queued(m, r)' /\ ~HasSlot(m, r)'
        /\ ~(m = p /\ r = q) => group'[r][m] = group[r][m] /\ queueSlot'[m][r] = queueSlot[m][r]
  BY DEF RemovePlayer, Queued, HasSlot, TypeOK, QueueTypeOK, PlayerTypeOK
<1>2. \A m \in Players : Bound(m) => Bound(m)'
  BY DEF Bound, Inside
<1>3. \A m \in Players : m # p => Untouched(m)
  BY <1>1, <1>2 DEF Untouched
<1>4. FootOf(p)
  BY FootingByPlayer
<1>5. FootOf(p)'
  <2>1. \A r \in Queues : r # q => /\ Queued(p, r)' <=> Queued(p, r)
                                   /\ Invited(p, r)' <=> Invited(p, r)
                                   /\ HasSlot(p, r)' <=> HasSlot(p, r)
    BY <1>1 DEF Queued, Invited, HasSlot
  <2>2. ~Invited(p, q)'
    BY <1>1 DEF Invited
  <2> QED BY <1>1, <1>2, <1>4, <2>1, <2>2 DEF FootOf, Exists
<1> QED BY <1>3, <1>5, FootingOfOne

\* Accepting an invitation from outside.
LEMMA FootingAfterPort ==
  ASSUME TypeOK, Agreement, Agreement', Footing, NEW p \in Players, NEW q \in Queues, Port(p, q)
  PROVE  Footing'
<1> DEFINE g == group[q][p]
<1>1. /\ Queued(p, q) /\ g.bg \in Bgs /\ Exists(g.bg) /\ g.team \in Teams /\ QueueOf[g.bg] = q
      /\ queueSlot[p][q] = g.bg /\ bgId[p] = NoBg
  BY DEF Port, MayEnter, Invited, Queued, InBattleground, Footing, NoDanglingInstance,
         Agreement, QueuesAgree, GroupInfo, TypeOK, QueueTypeOK
<1>2. \A m \in Players, r \in Queues :
        group'[r][m] = IF m = p /\ r = q THEN NoGroup ELSE group[r][m]
  BY DEF Port, RemovePlayer, TypeOK, QueueTypeOK
<1>3. /\ bgId'[p] = g.bg /\ bgTeam'[p] = g.team /\ (p \notin TeleportFails => porting'[p])
      /\ \A m \in Players : m # p => /\ bgId'[m] = bgId[m] /\ bgTeam'[m] = bgTeam[m]
                                     /\ porting'[m] = porting[m]
  BY DEF Port, Teleport, TypeOK, PlayerTypeOK
<1>4. UNCHANGED <<status, members, queueSlot>>
  BY DEF Port, bgVars
<1>5. \A m \in Players : m # p => Untouched(m)
  BY <1>2, <1>3, <1>4 DEF Untouched, Bound, Inside
<1>6. FootOf(p)'
  <2>1. FootOf(p)
    BY FootingByPlayer
  <2>2. \A r \in Queues : r # q => ~(HasSlot(p, r)' /\ ~Queued(p, r)' /\ p \notin TeleportFails)
    BY <1>1, <1>2, <1>4, <2>1 DEF FootOf, HasSlot, Queued
  <2>3. \A r \in Queues : Invited(p, r)' => Exists(group[r][p].bg)'
    BY <1>2, <1>4, <2>1 DEF FootOf, Invited, Queued, Exists
  <2>4. p \notin TeleportFails => Bound(p)'
    BY <1>3 DEF Bound
  <2>5. bgId'[p] # NoBg /\ Exists(bgId[p])' /\ bgTeam'[p] \in Teams
    BY <1>1, <1>3, <1>4, BattlegroundAssumption DEF Exists, BattlegroundAssumption
  <2>6. queueSlot'[p][q] = bgId'[p] /\ QueueOf[bgId'[p]] = q
    BY <1>1, <1>3, <1>4
  <2> QED BY <2>2, <2>3, <2>4, <2>5, <2>6 DEF FootOf
<1> QED BY <1>4, <1>5, <1>6, FootingOfOne

\* Accepting an invitation from inside another instance.
LEMMA FootingAfterJump ==
  ASSUME TypeOK, Agreement, Agreement', Footing, NEW p \in Players, NEW q \in Queues, Jump(p, q)
  PROVE  Footing'
<1> DEFINE g == group[q][p]
<1> DEFINE old == bgId[p]
<1>1. /\ Queued(p, q) /\ g.bg \in Bgs /\ Exists(g.bg) /\ g.team \in Teams /\ QueueOf[g.bg] = q
      /\ queueSlot[p][q] = g.bg
  BY DEF Jump, MayEnter, Invited, Queued, Footing, NoDanglingInstance,
         Agreement, QueuesAgree, GroupInfo, TypeOK, QueueTypeOK
<1>2. old \in Bgs /\ ~porting[p] /\ status' = status /\ RemovePlayersAtLeave({p}, old)
  BY DEF Jump, MayEnter, InWorld, InBattleground, TypeOK, PlayerTypeOK
<1>3. \A m \in Players, r \in Queues :
        group'[r][m] = IF m = p /\ r = q THEN NoGroup ELSE group[r][m]
  BY DEF Jump, RemovePlayer, TypeOK, QueueTypeOK
<1>4. /\ bgId'[p] = g.bg /\ bgTeam'[p] = g.team /\ (p \notin TeleportFails => porting'[p])
      /\ \A m \in Players : m # p => /\ bgId'[m] = bgId[m] /\ bgTeam'[m] = bgTeam[m]
                                     /\ porting'[m] = porting[m]
  BY DEF Jump, Teleport, TypeOK, PlayerTypeOK
<1>5. \A m \in Players, r \in Queues :
        queueSlot'[m][r] = IF m = p /\ p \in Inside(old) /\ r = QueueOf[old]
                           THEN NoSlot ELSE queueSlot[m][r]
  BY DEF Jump, SlotsAfterLeave, TypeOK, PlayerTypeOK
<1>6. \A m \in Players : m # p => Untouched(m)
  <2>1. \A m \in Players, d \in Bgs : m # p => members'[d][m] = members[d][m]
    BY <1>2 DEF RemovePlayersAtLeave, TypeOK, BgTypeOK
  <2> QED BY <1>3, <1>4, <1>5, <2>1 DEF Untouched, Bound, Inside
<1>7. FootOf(p)'
  <2>1. FootOf(p)
    BY FootingByPlayer
  <2>2. p \notin TeleportFails => p \in Inside(old)
    BY <1>2, <2>1, BattlegroundAssumption
       DEF FootOf, Bound, Agreement, InsideWhereInvited, BattlegroundAssumption
  <2>3. \A r \in Queues : r # q => ~(HasSlot(p, r)' /\ ~Queued(p, r)' /\ p \notin TeleportFails)
    BY <1>3, <1>5, <2>1, <2>2 DEF FootOf, HasSlot, Queued
  <2>4. \A r \in Queues : Invited(p, r)' => Exists(group[r][p].bg)'
    BY <1>2, <1>3, <2>1 DEF FootOf, Invited, Queued, Exists
  <2>5. p \notin TeleportFails => Bound(p)'
    BY <1>4 DEF Bound
  <2>6. bgId'[p] # NoBg /\ Exists(bgId[p])' /\ bgTeam'[p] \in Teams
    BY <1>1, <1>2, <1>4, BattlegroundAssumption DEF Exists, BattlegroundAssumption
  <2>7. p \notin TeleportFails => queueSlot'[p][q] = bgId'[p] /\ QueueOf[bgId'[p]] = q
    <3>1. p \in Inside(old) => QueueOf[old] # q
      BY <1>1, <1>2 DEF Agreement, BoundHasLeftQueue, Bound
    <3> QED BY <1>1, <1>4, <1>5, <3>1
  <2> QED BY <2>3, <2>4, <2>5, <2>6, <2>7 DEF FootOf
<1> QED BY <1>2, <1>6, <1>7, FootingOfOne

\* The map has been loaded: an instance that is still there lets the player in,
\* because he kept his slot.
LEMMA FootingAfterWorldportAck ==
  ASSUME TypeOK, Agreement, Agreement', Footing, NEW p \in Players, WorldportAck(p)
  PROVE  Footing'
<1> DEFINE b == bgId[p]
<1>1. FootOf(p)
  BY FootingByPlayer
<1>2. UNCHANGED <<status, group, queueSlot, bgId, bgTeam>>
  BY DEF WorldportAck, queueVars
<1>3. /\ b \in Bgs /\ Exists(b) /\ QueueOf[b] \in Queues
      /\ IsInvitedForInstance(p, b) /\ InBattleground(p) /\ GetTeam(p) \in Teams
  <2>1. Bound(p)
    BY DEF WorldportAck, Bound
  <2>2. b \in Bgs /\ QueueOf[b] \in Queues /\ HoldsSlot(p)
    BY <2>1, BoundToInstance DEF Agreement, BoundHasLeftQueue
  <2>3. b # NoBg
    BY <2>2, BattlegroundAssumption DEF BattlegroundAssumption
  <2>4. Exists(b) /\ bgTeam[p] \in Teams
    BY <1>1, <2>3 DEF FootOf
  <2> QED BY <2>2, <2>3, <2>4, SystemAssumption
          DEF HoldsSlot, IsInvitedForInstance, InBattleground, GetTeam, SystemAssumption
<1>4. members' = [members EXCEPT ![b][p] = GetTeam(p)]
  BY <1>3 DEF WorldportAck, AddPlayer
<1>5. Bound(p)'
  <2>1. members'[b][p] = GetTeam(p)
    BY <1>3, <1>4 DEF TypeOK, BgTypeOK
  <2> QED BY <1>3, <2>1 DEF Bound, Inside, Teams, NoTeam
<1>6. \A m \in Players : m # p => Untouched(m)
  <2>1. \A m \in Players, d \in Bgs : m # p => members'[d][m] = members[d][m]
    BY <1>4 DEF TypeOK, BgTypeOK
  <2>2. \A m \in Players : m # p => porting'[m] = porting[m]
    BY DEF WorldportAck, TypeOK, PlayerTypeOK
  <2> QED BY <1>2, <2>1, <2>2 DEF Untouched, Bound, Inside
<1>7. FootOf(p)'
  BY <1>1, <1>2, <1>5 DEF FootOf, Exists, Invited, Queued, HasSlot
<1> QED BY <1>2, <1>6, <1>7, FootingOfOne
\* Players who go, or are sent home.
LEMMA FootingAfterLeave ==
  ASSUME TypeOK, Agreement, Agreement', Footing, NEW b \in Bgs, NEW S \in SUBSET Players,
         \A m \in S : bgId[m] = b /\ ~porting[m],
         RemovePlayersAtLeave(S, b), OutOfBattleground(S), queueSlot' = SlotsAfterLeave(S, b),
         UNCHANGED <<status, group, porting>>
  PROVE  Footing'
<1>1. \A m \in Players : FootOf(m)
  BY FootingByPlayer
<1>2. \A m \in Players : /\ m \in S => bgId'[m] = NoBg
                         /\ m \notin S => bgId'[m] = bgId[m] /\ bgTeam'[m] = bgTeam[m]
  BY DEF OutOfBattleground
<1>3. \A m \in Players, r \in Queues :
        queueSlot'[m][r] = IF m \in S /\ m \in Inside(b) /\ r = QueueOf[b]
                           THEN NoSlot ELSE queueSlot[m][r]
  BY DEF SlotsAfterLeave, TypeOK, PlayerTypeOK
<1>4. \A m \in Players, d \in Bgs : m \notin S => members'[d][m] = members[d][m]
  BY DEF RemovePlayersAtLeave, TypeOK, BgTypeOK
<1>5. \A m \in Players : m \notin S => FootOf(m)'
  <2> SUFFICES ASSUME NEW m \in Players, m \notin S PROVE FootOf(m)'
    OBVIOUS
  <2>1. Untouched(m)
    BY <1>2, <1>3, <1>4 DEF Untouched, Bound, Inside
  <2>2. \A d \in Bgs : Exists(d) => Exists(d)'
    BY DEF Exists
  <2> QED BY <1>1, <2>1, <2>2, StatusStays
<1>6. \A m \in Players : m \in S => FootOf(m)'
  <2> SUFFICES ASSUME NEW m \in Players, m \in S PROVE FootOf(m)'
    OBVIOUS
  <2>1. FootOf(m) /\ bgId[m] = b /\ ~porting[m] /\ b # NoBg
    BY <1>1, BattlegroundAssumption DEF BattlegroundAssumption
  <2>2. m \notin TeleportFails => m \in Inside(b)
    BY <2>1 DEF FootOf, Bound, Agreement, InsideWhereInvited
  <2>3. \A r \in Queues : ~(HasSlot(m, r)' /\ ~Queued(m, r)' /\ m \notin TeleportFails)
    BY <1>3, <2>1, <2>2 DEF FootOf, HasSlot, Queued
  <2>4. \A r \in Queues : Invited(m, r)' => Exists(group[r][m].bg)'
    BY <2>1 DEF FootOf, Invited, Queued, Exists
  <2> QED BY <1>2, <2>3, <2>4 DEF FootOf
<1> QED BY <1>5, <1>6, FootingAfterwards

\* Logging out.
LEMMA FootingAfterLogout ==
  ASSUME TypeOK, Agreement, Agreement', Footing, NEW p \in Players,
         LogoutInside(p) \/ LogoutOutside(p)
  PROVE  Footing'
<1> DEFINE b == bgId[p]
<1>1. FootOf(p)
  BY FootingByPlayer
<1>2. /\ ~porting[p] /\ status' = status /\ porting' = porting
      /\ \A r \in Queues : ~HasSlot(p, r)'
      /\ \A m \in Players : m # p => queueSlot'[m] = queueSlot[m]
  BY DEF LogoutInside, LogoutOutside, InWorld, HasSlot, TypeOK, PlayerTypeOK
<1>3. \A r \in Queues : ~Queued(p, r)'
  <2>1. \A r \in Queues : ~(Queued(p, r)' /\ ~HasSlot(p, r)')
    <3>1. \A r \in Queues : Queued(p, r)' =>
            group'[r][p].bg = queueSlot'[p][r] /\ group[r][p] = group'[r][p] /\ Queued(p, r)
      <4>1. \E Q : RemovePlayer(p, Q)
        BY DEF LogoutInside, LogoutOutside
      <4> QED BY <4>1 DEF RemovePlayer, Queued, Agreement, QueuesAgree, TypeOK, QueueTypeOK
    <3>2. \A r \in Queues : Queued(p, r) => group[r][p].bg \in Bgs \cup {NoBg}
      BY DEF Queued, GroupInfo, TypeOK, QueueTypeOK
    <3> QED BY <3>1, <3>2, SystemAssumption DEF HasSlot, SystemAssumption
  <2> QED BY <1>2, <2>1
<1>4. \A m \in Players : m # p => Untouched(m)
  <2>1. PICK Q : RemovePlayer(p, Q)
    BY DEF LogoutInside, LogoutOutside
  <2>2. \A m \in Players, r \in Queues : m # p => group'[r][m] = group[r][m]
    BY <2>1 DEF RemovePlayer, TypeOK, QueueTypeOK
  <2>3. \A m \in Players, d \in Bgs : m # p => members'[d][m] = members[d][m]
    <3>1. members' = members \/ \E d \in Bgs : RemovePlayersAtLeave({p}, d)
      BY DEF LogoutInside, LogoutOutside, InBattleground, TypeOK, PlayerTypeOK
    <3>2. \A d \in Bgs : RemovePlayersAtLeave({p}, d) =>
            \A m \in Players, x \in Bgs : m # p => members'[x][m] = members[x][m]
      BY DEF RemovePlayersAtLeave, TypeOK, BgTypeOK
    <3> QED BY <3>1, <3>2
  <2>4. \A m \in Players : m # p => bgId'[m] = bgId[m] /\ bgTeam'[m] = bgTeam[m]
    BY DEF LogoutInside, LogoutOutside, OutOfBattleground
  <2> QED BY <1>2, <2>2, <2>3, <2>4 DEF Untouched, Bound, Inside
<1>5. /\ bgId'[p] # NoBg => Exists(bgId[p])' /\ bgTeam'[p] \in Teams
      /\ p \notin TeleportFails => bgId'[p] = NoBg
  <2>1. CASE LogoutInside(p)
    BY <2>1 DEF LogoutInside, OutOfBattleground
  <2>2. CASE LogoutOutside(p)
    <3>1. bgId' = bgId /\ bgTeam' = bgTeam
      BY <2>2 DEF LogoutOutside
    <3>2. ~Bound(p)
      <4> SUFFICES ASSUME NEW d \in Bgs, p \in Inside(d) PROVE FALSE
        BY <1>2 DEF Bound
      <4>1. bgId[p] = d /\ Exists(d) /\ d # NoBg
        BY BattlegroundAssumption
           DEF Agreement, InsideExists, InsideWhereInvited, BattlegroundAssumption
      <4> QED BY <2>2, <4>1 DEF LogoutOutside, InBattleground
    <3> QED BY <1>1, <1>2, <3>1, <3>2 DEF FootOf, Exists
  <2> QED BY <2>1, <2>2
<1>6. FootOf(p)'
  BY <1>2, <1>3, <1>5 DEF FootOf, Invited
<1> QED BY <1>2, <1>4, <1>6, FootingOfOne

\* A party joins.
LEMMA FootingAfterJoin ==
  ASSUME TypeOK, Agreement, Agreement', Footing, NEW S \in SUBSET Players, NEW leader \in S,
         NEW q \in Queues, NEW g \in Groups, JoinQueue(leader, S, q, g)
  PROVE  Footing'
<1> DEFINE entry == [id |-> g, team |-> GetTeam(leader), bg |-> NoBg, stamp |-> NoStamp]
<1>1. \A m \in Players : FootOf(m)
  BY FootingByPlayer
<1>2. UNCHANGED <<status, members, bgId, bgTeam, porting>>
  BY DEF JoinQueue, bgVars
<1>3. \A m \in Players, r \in Queues :
        /\ m \in S /\ r = q => group'[r][m] = entry
        /\ ~(m \in S /\ r = q) => group'[r][m] = group[r][m] /\ queueSlot'[m][r] = queueSlot[m][r]
  BY DEF JoinQueue, AddGroup, TypeOK, QueueTypeOK, PlayerTypeOK
<1>4. entry # NoGroup
  <2>1. GetTeam(leader) \in Teams
    BY SystemAssumption DEF TypeOK, PlayerTypeOK, GetTeam, SystemAssumption
  <2>2. entry \in GroupInfo
    BY <2>1 DEF GroupInfo
  <2> QED BY <2>2, GroupAssumption DEF GroupAssumption
<1>5. \A m \in Players, r \in Queues :
        \/ /\ Invited(m, r)' <=> Invited(m, r)
           /\ Queued(m, r)' <=> Queued(m, r)
           /\ HasSlot(m, r)' <=> HasSlot(m, r)
           /\ group'[r][m] = group[r][m] /\ queueSlot'[m][r] = queueSlot[m][r]
        \/ Queued(m, r)' /\ ~Invited(m, r)'
  BY <1>3, <1>4 DEF Invited, Queued, HasSlot
<1>6. ASSUME NEW m \in Players
      PROVE  FootOf(m)'
  <2>1. FootOf(m) /\ (Bound(m)' <=> Bound(m))
    BY <1>1, <1>2 DEF Bound, Inside
  <2>2. \A r \in Queues : Invited(m, r)' => Exists(group[r][m].bg)'
    BY <1>2, <1>5, <2>1 DEF FootOf, Exists
  <2>3. \A r \in Queues : HasSlot(m, r)' /\ ~Queued(m, r)' /\ m \notin TeleportFails =>
          bgId'[m] # NoBg /\ queueSlot'[m][r] = bgId'[m] /\ QueueOf[bgId'[m]] = r
    BY <1>2, <1>5, <2>1 DEF FootOf
  <2> QED BY <1>2, <2>1, <2>2, <2>3 DEF FootOf, Exists
<1> QED BY <1>6, FootingAfterwards

\* A queue update invites to instances that are there or have just been made.
LEMMA FootingAfterUpdate ==
  ASSUME TypeOK, Agreement, Agreement', Footing, NEW q \in Queues, NEW nb \in Bgs \cup {NoBg},
         NEW s \in Stamps, NEW stray, NEW side \in [WaitingGroups(q) -> Teams], NEW to,
         QueueUpdate(q, to, side, stray, nb, s)
  PROVE  Footing'
<1>1. \A m \in Players : FootOf(m)
  BY FootingByPlayer
<1>2. UNCHANGED <<members, bgId, bgTeam, porting>>
  BY DEF QueueUpdate
<1>3. \A b \in Bgs : Exists(b) => Exists(b)'
  BY DEF QueueUpdate, Exists
<1>4. \A m \in Players, r \in Queues :
        \/ /\ group'[r][m] = group[r][m] /\ queueSlot'[m][r] = queueSlot[m][r]
           /\ Invited(m, r)' <=> Invited(m, r)
           /\ Queued(m, r)' <=> Queued(m, r)
           /\ HasSlot(m, r)' <=> HasSlot(m, r)
        \/ Queued(m, r)' /\ (Invited(m, r)' => Exists(group[r][m].bg)')
  <2> SUFFICES ASSUME NEW m \in Players, NEW r \in Queues
               PROVE  \/ /\ group'[r][m] = group[r][m] /\ queueSlot'[m][r] = queueSlot[m][r]
                         /\ Invited(m, r)' <=> Invited(m, r)
                         /\ Queued(m, r)' <=> Queued(m, r)
                         /\ HasSlot(m, r)' <=> HasSlot(m, r)
                      \/ Queued(m, r)' /\ (Invited(m, r)' => Exists(group[r][m].bg)')
    OBVIOUS
  <2> DEFINE g == group[q][m].id
  <2>1. CASE ~(r = q /\ Waiting(m, q))
    <3>1. group'[r][m] = group[r][m]
      BY <2>1 DEF QueueUpdate, InviteSelected, TypeOK, QueueTypeOK
    <3>2. queueSlot'[m][r] = queueSlot[m][r]
      BY <2>1 DEF QueueUpdate, Reached, TypeOK, PlayerTypeOK
    <3> QED BY <3>1, <3>2 DEF Invited, Queued, HasSlot
  <2>2. CASE r = q /\ Waiting(m, q)
    <3>1. /\ group[q][m] \in GroupInfo /\ group[q][m].bg = NoBg /\ g \in WaitingGroups(q)
          /\ side[g] \in Teams
      BY <2>2 DEF Waiting, Queued, WaitingGroups, TypeOK, QueueTypeOK
    <3>2. group'[q][m] = IF to[g] = NoBg THEN [group[q][m] EXCEPT !.team = side[g]]
                         ELSE [group[q][m] EXCEPT !.team = side[g], !.bg = to[g], !.stamp = s]
      BY <2>2 DEF QueueUpdate, InviteSelected, TypeOK, QueueTypeOK
    <3>3. to[g] = NoBg \/ (to[g] \in Bgs /\ (to[g] = nb \/ to[g] \in ToppedUp(q)))
      BY <3>1 DEF QueueUpdate, Matching, ToppedUp
    <3>4. group'[q][m] \in GroupInfo /\ group'[q][m].bg = to[g]
      BY <3>1, <3>2, <3>3 DEF GroupInfo
    <3>5. Queued(m, q)'
      BY <3>4, GroupAssumption DEF Queued, GroupAssumption
    <3>6. to[g] # NoBg => status'[to[g]] # "none"
      BY <3>3 DEF QueueUpdate, ToppedUp, Open
    <3>7. Invited(m, q)' => status'[group'[q][m].bg] # "none"
      BY <3>4, <3>6 DEF Invited
    <3> QED BY <2>2, <3>5, <3>7 DEF Exists
  <2> QED BY <2>1, <2>2
<1>5. ASSUME NEW m \in Players
      PROVE  FootOf(m)'
  <2>1. FootOf(m) /\ (Bound(m)' <=> Bound(m))
    BY <1>1, <1>2 DEF Bound, Inside
  <2>2. bgId'[m] # NoBg => Exists(bgId[m])' /\ bgTeam'[m] \in Teams
    BY <1>2, <1>3, <2>1 DEF FootOf, Exists, TypeOK, PlayerTypeOK
  <2>3. \A r \in Queues : Invited(m, r)' => Exists(group[r][m].bg)'
    <3> SUFFICES ASSUME NEW r \in Queues, Invited(m, r)'
                 PROVE  Exists(group[r][m].bg)'
      OBVIOUS
    <3>1. CASE group'[r][m] = group[r][m] /\ Invited(m, r)
      <4>1. group[r][m].bg \in Bgs /\ Exists(group[r][m].bg)
        BY <2>1, <3>1 DEF FootOf, Invited, Queued, GroupInfo, TypeOK, QueueTypeOK
      <4> QED BY <1>3, <3>1, <4>1 DEF Exists
    <3> QED BY <1>4, <3>1
  <2>4. \A r \in Queues : HasSlot(m, r)' /\ ~Queued(m, r)' /\ m \notin TeleportFails =>
          bgId'[m] # NoBg /\ queueSlot'[m][r] = bgId'[m] /\ QueueOf[bgId'[m]] = r
    BY <1>2, <1>4, <2>1 DEF FootOf
  <2> QED BY <1>2, <2>1, <2>2, <2>3, <2>4 DEF FootOf
<1> QED BY <1>5, FootingAfterwards

\* Steps that only open, end or delete an instance in which nobody has a place.
LEMMA FootingFrame ==
  ASSUME TypeOK, Agreement, Agreement', Footing,
         UNCHANGED <<members, group, queueSlot, bgId, bgTeam, porting>>,
         \A m \in Players : InstancesStay(m)
  PROVE  Footing'
<1>1. \A m \in Players : FootOf(m)
  BY FootingByPlayer
<1>2. \A m \in Players : Untouched(m)
  BY DEF Untouched, Bound, Inside
<1> QED BY <1>1, <1>2, FootKept, FootingAfterwards

\* An instance whose counters are zero has nobody invited or on the way.
LEMMA FootingAfterDelete ==
  ASSUME TypeOK, Agreement, Agreement', Footing, NoPlaceForgotten, NEW b \in Bgs,
         DeleteBattleground(b)
  PROVE  Footing'
<1>1. \A t \in Teams : Going(b, t) = {} /\ InvitedTo(b, t) = {}
  <2> SUFFICES ASSUME NEW t \in Teams
               PROVE  Going(b, t) = {} /\ InvitedTo(b, t) = {}
    OBVIOUS
  <2>1. invitedCount[b][t] = 0 /\ invitedCount[b][t] >= Places(b, t)
    BY DEF DeleteBattleground, Delete, NoPlaceForgotten
  <2>2. Cardinality(Going(b, t)) = 0 /\ Cardinality(InvitedTo(b, t)) = 0
    BY <2>1, PlacesAreNatural DEF Places
  <2>3. IsFiniteSet(Going(b, t)) /\ IsFiniteSet(InvitedTo(b, t))
    BY PlayersFinite DEF Going, InvitedTo
  <2> QED BY <2>2, <2>3, FS_EmptySet
<1>2. /\ UNCHANGED <<members, group, queueSlot, bgId, bgTeam, porting>>
      /\ \A d \in Bgs : d # b => (Exists(d) => Exists(d)')
  BY DEF DeleteBattleground, Delete, queueVars, playerVars, Exists, TypeOK, BgTypeOK
<1>3. ASSUME NEW m \in Players PROVE InstancesStay(m)
  <2>1. FootOf(m)
    BY FootingByPlayer
  <2>2. bgId[m] # NoBg => bgId[m] \in Bgs /\ bgId[m] # b /\ Exists(bgId[m])
    BY <1>1, <2>1 DEF FootOf, Going, TypeOK, PlayerTypeOK
  <2>3. ASSUME NEW r \in Queues, Invited(m, r)
        PROVE  group[r][m].bg \in Bgs /\ group[r][m].bg # b /\ Exists(group[r][m].bg)
    <3>1. group[r][m].bg \in Bgs /\ group[r][m].team \in Teams /\ Queued(m, r)
      BY <2>3 DEF Invited, Queued, GroupInfo, TypeOK, QueueTypeOK
    <3>2. QueueOf[group[r][m].bg] = r /\ Exists(group[r][m].bg)
      BY <2>3 DEF Footing, NoDanglingInstance
    <3> QED BY <1>1, <3>1, <3>2 DEF InvitedTo
  <2>4. bgId[m] # NoBg => Exists(bgId[m])'
    BY <1>2, <2>2 DEF Exists
  <2>5. \A r \in Queues : Invited(m, r) => Exists(group[r][m].bg)'
    BY <1>2, <2>3 DEF Exists
  <2> QED BY <2>4, <2>5 DEF InstancesStay
<1> QED BY <1>2, <1>3, FootingFrame
-----------------------------------------------------------------------------
(***************************************************************************)
(* The invariant of the places, step by step.                              *)
(***************************************************************************)

\* The slack was never negative, and zero without refused teleports.
LEMMA CountsFollow ==
  ASSUME TypeOK, TypeOK', SlackKept
  PROVE  /\ NoPlaceForgotten => NoPlaceForgotten'
         /\ PlacesCounted => PlacesCounted'
<1>1. ASSUME NEW b \in Bgs, NEW t \in Teams
      PROVE  /\ invitedCount[b][t] \in Int /\ invitedCount'[b][t] \in Int
             /\ Places(b, t) \in Nat /\ Places(b, t)' \in Nat
  <2>1. Cardinality(Going(b, t)') \in Nat /\ Cardinality(InvitedTo(b, t)') \in Nat
    BY PlayersFinite DEF Going, InvitedTo
  <2>2. Places(b, t)' \in Nat
    BY <2>1 DEF Places
  <2> QED BY <2>2, PlacesAreNatural DEF TypeOK, BgTypeOK
<1>2. ASSUME NEW b \in Bgs, NEW t \in Teams, invitedCount[b][t] >= Places(b, t)
      PROVE  invitedCount'[b][t] >= Places(b, t)'
  <2>1. invitedCount'[b][t] - Places(b, t)' >= invitedCount[b][t] - Places(b, t)
    BY DEF SlackKept
  <2> QED BY <1>1, <1>2, <2>1
<1>3. ASSUME NEW b \in Bgs, NEW t \in Teams, TeleportFails = {},
             invitedCount[b][t] = Places(b, t)
      PROVE  invitedCount'[b][t] = Places(b, t)'
  <2>1. invitedCount'[b][t] - Places(b, t)' = invitedCount[b][t] - Places(b, t)
    BY <1>3 DEF SlackKept
  <2> QED BY <1>1, <1>3, <2>1
<1> QED BY <1>2, <1>3 DEF NoPlaceForgotten, PlacesCounted

\* A party that joins waits for an invitation, it holds no place yet.
LEMMA SlackAfterJoin ==
  ASSUME TypeOK, Agreement, NEW S \in SUBSET Players, NEW leader \in S,
         NEW q \in Queues, NEW g \in Groups, JoinQueue(leader, S, q, g)
  PROVE  SlackKept
<1>1. \A m \in S : ~Queued(m, q)
  BY QueuedHasSlot DEF JoinQueue, CanJoin
<1>2. \A m \in Players, r \in Queues :
        \/ group'[r][m] = group[r][m]
        \/ r = q /\ ~Queued(m, r) /\ group'[r][m].bg = NoBg
  BY <1>1 DEF JoinQueue, AddGroup, TypeOK, QueueTypeOK
<1>3. \A b \in Bgs : QueueOf[b] \in Queues /\ b # NoBg
  BY QueueAssumption, BattlegroundAssumption DEF QueueAssumption, BattlegroundAssumption
<1>4. invitedCount' = invitedCount /\ bgId' = bgId /\ bgTeam' = bgTeam
  BY DEF JoinQueue, bgVars
<1>5. ASSUME NEW b \in Bgs, NEW t \in Teams
      PROVE  Going(b, t)' = Going(b, t) /\ InvitedTo(b, t)' = InvitedTo(b, t)
  BY <1>2, <1>3, <1>4 DEF Going, InvitedTo, Queued
<1> QED BY <1>4, <1>5, SlackFrame

\* A remove event that finds no invitation changes nothing but itself; one that
\* does takes the player out of the queue.
LEMMA RemoveEventCases ==
  ASSUME TypeOK, Agreement, NEW q \in Queues, NEW e \in removeEvents[q], RemoveEvent(q, e)
  PROVE  /\ UNCHANGED <<status, members, bgId, bgTeam, porting>>
         /\ \/ UNCHANGED <<queueSlot, group, invitedCount>>
            \/ /\ e.player \in Players /\ RemovePlayer(e.player, {q})
               /\ queueSlot' = [queueSlot EXCEPT ![e.player][q] = NoSlot]
               /\ invitedCount' = InvitedAfterRemove(invitedCount, e.player, {q})
BY DEF RemoveEvent, TypeOK, QueueTypeOK, RemoveEvents

\* The steps of one player.
LEMMA SlackAfterPlayer ==
  ASSUME TypeOK, Agreement, Footing, NEW p \in Players,
         \/ Login(p) \/ WorldportAck(p) \/ LeaveBattleground(p) \/ DeserterExpires(p)
         \/ LogoutInside(p) \/ LogoutOutside(p)
         \/ \E q \in Queues : Port(p, q) \/ Jump(p, q) \/ LeaveQueue(p, q)
  PROVE  SlackKept
<1>1. CASE Login(p) \/ WorldportAck(p) \/ DeserterExpires(p)
  <2>1. UNCHANGED <<invitedCount, group, bgId, bgTeam>>
    BY <1>1 DEF Login, WorldportAck, DeserterExpires, bgVars, queueVars
  <2> QED BY <2>1, SlackFrame DEF Going, InvitedTo, Queued
<1>2. CASE LogoutOutside(p)
  <2>1. /\ RemovePlayer(p, QueuesOf(p))
        /\ invitedCount' = InvitedAfterRemove(invitedCount, p, QueuesOf(p))
        /\ bgId' = bgId /\ bgTeam' = bgTeam
    BY <1>2 DEF LogoutOutside
  <2> QED BY <2>1, SlackAfterRemove DEF Footing
<1>3. ASSUME NEW q \in Queues, LeaveQueue(p, q)
      PROVE  SlackKept
  <2>1. /\ RemovePlayer(p, {q}) /\ invitedCount' = InvitedAfterRemove(invitedCount, p, {q})
        /\ bgId' = bgId /\ bgTeam' = bgTeam
    BY <1>3 DEF LeaveQueue
  <2> QED BY <2>1, SlackAfterRemove DEF Footing
<1> QED BY <1>1, <1>2, <1>3, SlackAfterLeaveBattleground, SlackAfterLogoutInside,
           SlackAfterPort, SlackAfterJump

\* The steps of a queue.
LEMMA SlackAfterQueue ==
  ASSUME TypeOK, Agreement, Footing, NEW q \in Queues,
         Join(q) \/ UpdateQueue(q) \/ (\E e \in removeEvents[q] : RemoveEvent(q, e))
  PROVE  SlackKept
<1>1. CASE Join(q)
  <2>1. CASE \E S \in SUBSET Players : \E leader \in S : JoinRefused(leader, S, q)
    <3>1. UNCHANGED <<invitedCount, group, bgId, bgTeam>>
      BY <2>1 DEF JoinRefused, bgVars, playerVars
    <3> QED BY <3>1, SlackFrame DEF Going, InvitedTo, Queued
  <2>2. CASE \E S \in SUBSET Players : \E leader \in S : \E g \in Groups :
               JoinQueue(leader, S, q, g)
    BY <2>2, SlackAfterJoin
  <2> QED BY <1>1, <2>1, <2>2 DEF Join
<1>2. CASE UpdateQueue(q)
  BY <1>2, SlackAfterUpdate DEF UpdateQueue
<1>3. ASSUME NEW e \in removeEvents[q], RemoveEvent(q, e)
      PROVE  SlackKept
  <2>1. CASE UNCHANGED <<queueSlot, group, invitedCount>>
    <3>1. bgId' = bgId /\ bgTeam' = bgTeam
      BY <1>3, RemoveEventCases
    <3> QED BY <2>1, <3>1, SlackFrame DEF Going, InvitedTo, Queued
  <2>2. CASE ~UNCHANGED <<queueSlot, group, invitedCount>>
    <3>1. /\ e.player \in Players /\ RemovePlayer(e.player, {q})
          /\ invitedCount' = InvitedAfterRemove(invitedCount, e.player, {q})
          /\ bgId' = bgId /\ bgTeam' = bgTeam
      BY <1>3, <2>2, RemoveEventCases
    <3> QED BY <3>1, SlackAfterRemove DEF Footing
  <2> QED BY <2>1, <2>2
<1> QED BY <1>1, <1>2, <1>3

\* The steps of an instance.
LEMMA SlackAfterInstance ==
  ASSUME TypeOK, Agreement, Footing, NEW b \in Bgs,
         \/ StartBattleground(b) \/ EndBattleground(b) \/ DeleteBattleground(b)
         \/ ProcessLeave(b) \/ ProcessOfflineQueue(b)
  PROVE  SlackKept
<1>1. CASE StartBattleground(b) \/ EndBattleground(b) \/ DeleteBattleground(b)
  <2>1. UNCHANGED <<invitedCount, group, bgId, bgTeam>>
    BY <1>1 DEF StartBattleground, Start, EndBattleground, End, DeleteBattleground, Delete,
                queueVars, playerVars
  <2> QED BY <2>1, SlackFrame DEF Going, InvitedTo, Queued
<1>2. CASE ProcessLeave(b) \/ ProcessOfflineQueue(b)
  <2>1. PICK S : S \subseteq Inside(b) /\ Expel(S, b)
    BY <1>2 DEF ProcessLeave, ProcessOfflineQueue
  <2> QED BY <2>1, SlackAfterExpel
<1> QED BY <1>1, <1>2

LEMMA SlackAfterStep ==
  ASSUME TypeOK, Agreement, Footing, [Next]_vars
  PROVE  SlackKept
<1>1. CASE Next
  BY <1>1, SlackAfterPlayer, SlackAfterQueue, SlackAfterInstance DEF Next
<1>2. CASE UNCHANGED vars
  BY <1>2, SlackFrame DEF vars, Going, InvitedTo, Queued
<1> QED BY <1>1, <1>2

\* Steps that move no player and delete no instance.
LEMMA FootingStays ==
  ASSUME TypeOK, Agreement, Agreement', Footing,
         UNCHANGED <<members, group, queueSlot, bgId, bgTeam, porting>>,
         \A b \in Bgs : Exists(b) => Exists(b)'
  PROVE  Footing'
<1>1. \A m \in Players : FootOf(m)
  BY FootingByPlayer
<1>2. \A m \in Players : Untouched(m)
  BY DEF Untouched, Bound, Inside
<1> QED BY <1>1, <1>2, StatusStays, FootingAfterwards

LEMMA FootingAfterPlayer ==
  ASSUME TypeOK, Agreement, Agreement', Footing, NEW p \in Players,
         \/ Login(p) \/ WorldportAck(p) \/ LeaveBattleground(p) \/ DeserterExpires(p)
         \/ LogoutInside(p) \/ LogoutOutside(p)
         \/ \E q \in Queues : Port(p, q) \/ Jump(p, q) \/ LeaveQueue(p, q)
  PROVE  Footing'
<1>1. CASE Login(p) \/ DeserterExpires(p)
  <2>1. UNCHANGED <<status, members, group, queueSlot, bgId, bgTeam, porting>>
    BY <1>1 DEF Login, DeserterExpires, bgVars, queueVars
  <2> QED BY <2>1, FootingStays DEF Exists
<1>2. CASE LeaveBattleground(p)
  <2>1. bgId[p] \in Bgs /\ ~porting[p]
    BY <1>2 DEF LeaveBattleground, InBattleground, InWorld, TypeOK, PlayerTypeOK
  <2>2. /\ RemovePlayersAtLeave({p}, bgId[p]) /\ OutOfBattleground({p})
        /\ queueSlot' = SlotsAfterLeave({p}, bgId[p])
        /\ UNCHANGED <<status, group, porting>>
    BY <1>2 DEF LeaveBattleground
  <2>3. {p} \in SUBSET Players /\ \A m \in {p} : bgId[m] = bgId[p] /\ ~porting[m]
    BY <2>1
  <2> QED BY <2>1, <2>2, <2>3, FootingAfterLeave
<1>3. ASSUME NEW q \in Queues, LeaveQueue(p, q)
      PROVE  Footing'
  <2>1. /\ RemovePlayer(p, {q}) /\ queueSlot' = [queueSlot EXCEPT ![p][q] = NoSlot]
        /\ UNCHANGED <<status, members, bgId, bgTeam, porting>>
    BY <1>3 DEF LeaveQueue
  <2> QED BY <2>1, FootingAfterDrop
<1> QED BY <1>1, <1>2, <1>3, FootingAfterWorldportAck, FootingAfterLogout, FootingAfterPort,
           FootingAfterJump

LEMMA FootingAfterQueue ==
  ASSUME TypeOK, Agreement, Agreement', Footing, NEW q \in Queues,
         Join(q) \/ UpdateQueue(q) \/ (\E e \in removeEvents[q] : RemoveEvent(q, e))
  PROVE  Footing'
<1>1. CASE Join(q)
  <2>1. CASE \E S \in SUBSET Players : \E leader \in S : JoinRefused(leader, S, q)
    <3>1. UNCHANGED <<status, members, group, queueSlot, bgId, bgTeam, porting>>
      BY <2>1 DEF JoinRefused, bgVars, playerVars
    <3> QED BY <3>1, FootingStays DEF Exists
  <2>2. CASE \E S \in SUBSET Players : \E leader \in S : \E g \in Groups :
               JoinQueue(leader, S, q, g)
    BY <2>2, FootingAfterJoin
  <2> QED BY <1>1, <2>1, <2>2 DEF Join
<1>2. CASE UpdateQueue(q)
  BY <1>2, FootingAfterUpdate DEF UpdateQueue
<1>3. ASSUME NEW e \in removeEvents[q], RemoveEvent(q, e)
      PROVE  Footing'
  <2>1. UNCHANGED <<status, members, bgId, bgTeam, porting>>
    BY <1>3, RemoveEventCases
  <2>2. CASE UNCHANGED <<queueSlot, group, invitedCount>>
    BY <2>1, <2>2, FootingStays DEF Exists
  <2>3. CASE ~UNCHANGED <<queueSlot, group, invitedCount>>
    <3>1. /\ e.player \in Players /\ RemovePlayer(e.player, {q})
          /\ queueSlot' = [queueSlot EXCEPT ![e.player][q] = NoSlot]
      BY <1>3, <2>3, RemoveEventCases
    <3> QED BY <2>1, <3>1, FootingAfterDrop
  <2> QED BY <2>2, <2>3
<1> QED BY <1>1, <1>2, <1>3

LEMMA FootingAfterInstance ==
  ASSUME TypeOK, Agreement, Agreement', Footing, NoPlaceForgotten, NEW b \in Bgs,
         \/ StartBattleground(b) \/ EndBattleground(b) \/ DeleteBattleground(b)
         \/ ProcessLeave(b) \/ ProcessOfflineQueue(b)
  PROVE  Footing'
<1>1. CASE StartBattleground(b) \/ EndBattleground(b)
  <2>1. UNCHANGED <<members, group, queueSlot, bgId, bgTeam, porting>>
    BY <1>1 DEF StartBattleground, Start, EndBattleground, End, queueVars, playerVars
  <2>2. \A d \in Bgs : Exists(d) => Exists(d)'
    BY <1>1 DEF StartBattleground, Start, EndBattleground, End, Exists, TypeOK, BgTypeOK
  <2> QED BY <2>1, <2>2, FootingStays
<1>2. CASE ProcessLeave(b) \/ ProcessOfflineQueue(b)
  <2>1. PICK S : S \subseteq Inside(b) /\ Expel(S, b)
    BY <1>2 DEF ProcessLeave, ProcessOfflineQueue
  <2>2. S \in SUBSET Players /\ \A m \in S : bgId[m] = b /\ ~porting[m]
    BY <2>1 DEF Inside, Agreement, InsideWhereInvited
  <2>3. /\ RemovePlayersAtLeave(S, b) /\ OutOfBattleground(S)
        /\ queueSlot' = SlotsAfterLeave(S, b)
        /\ UNCHANGED <<status, group, porting>>
    BY <2>1 DEF Expel
  <2> QED BY <2>2, <2>3, FootingAfterLeave
<1> QED BY <1>1, <1>2, FootingAfterDelete

LEMMA FootingAfterStep ==
  ASSUME TypeOK, Agreement, Agreement', Footing, NoPlaceForgotten, [Next]_vars
  PROVE  Footing'
<1>1. CASE Next
  BY <1>1, FootingAfterPlayer, FootingAfterQueue, FootingAfterInstance DEF Next
<1>2. CASE UNCHANGED vars
  BY <1>2, FootingStays DEF vars, Exists
<1> QED BY <1>1, <1>2

-----------------------------------------------------------------------------
(***************************************************************************)
(* The inductive invariant and what follows from it.                       *)
(***************************************************************************)

PlacesInv == Footing /\ NoPlaceForgotten /\ PlacesCounted

LEMMA PlacesInit == Init => PlacesInv
<1> SUFFICES ASSUME Init PROVE PlacesInv
  OBVIOUS
<1>1. \A p \in Players : bgId[p] = NoBg /\ \A q \in Queues : ~Queued(p, q) /\ ~HasSlot(p, q)
  BY DEF Init, QueueInit, Queued, HasSlot
<1>2. Footing
  BY <1>1 DEF Footing, NoDanglingInstance, SideKnown, Arrived, SlotsAgree, Invited
<1>3. ASSUME NEW b \in Bgs, NEW t \in Teams
      PROVE  invitedCount[b][t] = 0 /\ Places(b, t) = 0
  <2>1. QueueOf[b] \in Queues /\ b # NoBg
    BY QueueAssumption, BattlegroundAssumption DEF QueueAssumption, BattlegroundAssumption
  <2>2. Going(b, t) = {} /\ InvitedTo(b, t) = {}
    BY <1>1, <2>1 DEF Going, InvitedTo
  <2>3. Cardinality(Going(b, t)) = 0 /\ Cardinality(InvitedTo(b, t)) = 0
    BY <2>2, FS_EmptySet
  <2>4. invitedCount[b][t] = 0
    BY DEF Init, BgInit
  <2> QED BY <2>3, <2>4 DEF Places
<1>4. NoPlaceForgotten /\ PlacesCounted
  BY <1>3 DEF NoPlaceForgotten, PlacesCounted
<1> QED BY <1>2, <1>4 DEF PlacesInv

(***************************************************************************)
(* The places and the counters fit together in every state: what           *)
(* Battleground::Update relies on when it deletes an instance on the       *)
(* strength of GetInvitedCount alone.                                      *)
(***************************************************************************)
THEOREM PlacesInvariant == Spec => []PlacesInv
<1>1. ASSUME TypeOK, TypeOK', Agreement, Agreement', PlacesInv, [Next]_vars
      PROVE  PlacesInv'
  <2>1. SlackKept
    BY <1>1, SlackAfterStep DEF PlacesInv
  <2>2. NoPlaceForgotten' /\ PlacesCounted'
    BY <1>1, <2>1, CountsFollow DEF PlacesInv
  <2>3. Footing'
    BY <1>1, FootingAfterStep DEF PlacesInv
  <2> QED BY <2>2, <2>3 DEF PlacesInv
<1> QED BY <1>1, PlacesInit, TypeCorrect, AgreementInvariant, PTL DEF Spec

(***************************************************************************)
(* m_InvitedAlliance and m_InvitedHorde count exactly the places held, if  *)
(* TeleportTo refuses nobody: InviteGroupToBG adds, and of RemovePlayer    *)
(* and RemovePlayerAtLeave each way out takes exactly one.                 *)
(***************************************************************************)
THEOREM PlacesAlwaysCounted == Spec => []PlacesCounted
<1>1. PlacesInv => PlacesCounted
  BY DEF PlacesInv
<1> QED BY <1>1, PlacesInvariant, PTL

(***************************************************************************)
(* The counters never fall below the places held, whomever TeleportTo      *)
(* refuses, so that GetFreeSlotsForTeam offers no place twice.             *)
(***************************************************************************)
THEOREM NoPlaceEverForgotten == Spec => []NoPlaceForgotten
<1>1. PlacesInv => NoPlaceForgotten
  BY DEF PlacesInv
<1> QED BY <1>1, PlacesInvariant, PTL

(***************************************************************************)
(* Battleground::Update never deletes an instance that somebody is invited *)
(* to, on the way to or inside.                                            *)
(***************************************************************************)
THEOREM NoInstanceDangles == Spec => []NoDanglingInstance
<1>1. PlacesInv => NoDanglingInstance
  BY DEF PlacesInv, Footing
<1> QED BY <1>1, PlacesInvariant, PTL

(***************************************************************************)
(* The slots of a Player (m_bgBattlegroundQueueID) and the queues agree    *)
(* whatever order invitations, answers, timers and departures come in.     *)
(***************************************************************************)
THEOREM SlotsAlwaysAgree == Spec => []SlotsAgree
<1>1. PlacesInv => SlotsAgree
  BY DEF PlacesInv, Footing
<1> QED BY <1>1, PlacesInvariant, PTL

-----------------------------------------------------------------------------
LEMMA SmallerSet ==
  ASSUME NEW T, T \subseteq Players, NEW S, S \subseteq T
  PROVE  /\ Cardinality(S) <= Cardinality(T)
         /\ Cardinality(S) \in Nat
         /\ Cardinality(T) \in Nat
<1>1. IsFiniteSet(T) /\ Cardinality(T) \in Nat
  BY PlayersFinite
<1>2. S \in SUBSET T /\ S \subseteq Players
  OBVIOUS
<1>3. Cardinality(S) \in Nat
  BY <1>2, PlayersFinite
<1>4. Cardinality(S) <= Cardinality(T)
  BY <1>1, <1>2, FS_Subset
<1> QED BY <1>1, <1>3, <1>4

-----------------------------------------------------------------------------
(***************************************************************************)
(* The free-slot list.                                                     *)
(***************************************************************************)

\* Nothing that the free-slot list is about changes.
LEMMA ListFrame ==
  ASSUME FreeSlotsAreListed, status' = status, members' = members,
         inFreeSlotQueue' = inFreeSlotQueue
  PROVE  FreeSlotsAreListed'
BY DEF FreeSlotsAreListed, HasFreeSlots, Inside

\* A participant who leaves puts the instance on the list again.
LEMMA ListAfterLeave ==
  ASSUME TypeOK, FreeSlotsAreListed, NEW b \in Bgs, NEW S,
         RemovePlayersAtLeave(S, b), status' = status
  PROVE  FreeSlotsAreListed'
<1> SUFFICES ASSUME NEW c \in Bgs
             PROVE  /\ status'[c] \in Open /\ HasFreeSlots(c)' => inFreeSlotQueue'[c]
                    /\ inFreeSlotQueue'[c] => status'[c] \in Open
  BY DEF FreeSlotsAreListed
<1>1. CASE c # b
  <2>1. members'[c] = members[c] /\ inFreeSlotQueue'[c] = inFreeSlotQueue[c]
    BY <1>1 DEF RemovePlayersAtLeave, TypeOK, BgTypeOK
  <2> QED BY <2>1 DEF FreeSlotsAreListed, HasFreeSlots, Inside
<1>2. CASE c = b
  <2> DEFINE reopened == S \cap Inside(b) # {} /\ status[b] \in Open
  <2>1. inFreeSlotQueue'[b] <=> inFreeSlotQueue[b] \/ reopened
    BY Zenon DEF RemovePlayersAtLeave, TypeOK, BgTypeOK
  <2>2. CASE reopened
    BY <1>2, <2>1, <2>2
  <2>3. CASE ~reopened /\ status[b] \in Open
    <3>1. Inside(b)' = Inside(b)
      BY <2>3 DEF RemovePlayersAtLeave, Inside, TypeOK, BgTypeOK
    <3> QED BY <1>2, <2>1, <2>3, <3>1 DEF FreeSlotsAreListed, HasFreeSlots
  <2>4. CASE status[b] \notin Open
    BY <1>2, <2>1, <2>4 DEF FreeSlotsAreListed
  <2> QED BY <2>2, <2>3, <2>4
<1> QED BY <1>1, <1>2

\* A player who arrives takes a slot away, if anything.
LEMMA ListAfterArrival ==
  ASSUME TypeOK, FreeSlotsAreListed, NEW p \in Players, WorldportAck(p)
  PROVE  FreeSlotsAreListed'
<1>1. \A c \in Bgs : Inside(c) \subseteq Inside(c)'
  <2>1. GetTeam(p) \in Teams
    BY SystemAssumption DEF TypeOK, PlayerTypeOK, GetTeam, SystemAssumption
  <2>2. members' = members \/ members' = [members EXCEPT ![bgId[p]][p] = GetTeam(p)]
    BY DEF WorldportAck, AddPlayer
  <2>3. \A c \in Bgs, m \in Players : members'[c][m] = members[c][m] \/ members'[c][m] \in Teams
    <3> DEFINE t == GetTeam(p)
    <3> DEFINE new == [members EXCEPT ![bgId[p]][p] = t]
    <3>1. t \in Teams /\ (members' = members \/ members' = new)
      BY <2>1, <2>2
    <3> HIDE DEF t
    <3>2. \A c \in Bgs, m \in Players : new[c][m] = members[c][m] \/ new[c][m] = t
      BY DEF TypeOK, BgTypeOK
    <3> HIDE DEF new
    <3> QED BY <3>1, <3>2
  <2> QED BY <2>3 DEF Inside, Teams, NoTeam
<1>2. \A c \in Bgs : HasFreeSlots(c)' => HasFreeSlots(c)
  <2> SUFFICES ASSUME NEW c \in Bgs, HasFreeSlots(c)'
               PROVE  HasFreeSlots(c)
    OBVIOUS
  <2>1. Inside(c)' \subseteq Players
    BY DEF Inside
  <2>2. /\ Cardinality(Inside(c)) <= Cardinality(Inside(c)')
        /\ Cardinality(Inside(c)) \in Nat /\ Cardinality(Inside(c)') \in Nat
    BY <1>1, <2>1, SmallerSet
  <2>3. MaxPlayersPerTeam \in Nat
    BY BattlegroundAssumption DEF BattlegroundAssumption
  <2> QED BY <2>2, <2>3 DEF HasFreeSlots
<1>3. status' = status /\ inFreeSlotQueue' = inFreeSlotQueue
  BY DEF WorldportAck
<1> QED BY <1>2, <1>3 DEF FreeSlotsAreListed

\* A queue update lists the instance it makes, and keeps or strikes off the
\* ones it has filled up by their free slots.
LEMMA ListAfterUpdate ==
  ASSUME TypeOK, FreeSlotsAreListed, NEW q \in Queues, NEW nb \in Bgs \cup {NoBg},
         NEW to, NEW side, NEW stray, NEW s, QueueUpdate(q, to, side, stray, nb, s)
  PROVE  FreeSlotsAreListed'
<1> SUFFICES ASSUME NEW c \in Bgs
             PROVE  /\ status'[c] \in Open /\ HasFreeSlots(c)' => inFreeSlotQueue'[c]
                    /\ inFreeSlotQueue'[c] => status'[c] \in Open
  BY DEF FreeSlotsAreListed
<1>1. HasFreeSlots(c)' = HasFreeSlots(c)
  BY DEF QueueUpdate, HasFreeSlots, Inside
<1>2. CASE c = nb
  <2>1. status'[c] = "wait_join" /\ inFreeSlotQueue'[c] = TRUE
    BY <1>2 DEF QueueUpdate
  <2> QED BY <2>1 DEF Open
<1>3. CASE c # nb /\ c \in ToppedUp(q) /\ \E p \in Players : Queued(p, q)
  <2>1. status'[c] = status[c] /\ inFreeSlotQueue'[c] = HasFreeSlots(c)
    BY <1>3 DEF QueueUpdate
  <2> QED BY <1>1, <1>3, <2>1 DEF ToppedUp
<1>4. CASE c # nb /\ ~(c \in ToppedUp(q) /\ \E p \in Players : Queued(p, q))
  <2>1. status'[c] = status[c] /\ inFreeSlotQueue'[c] = inFreeSlotQueue[c]
    BY <1>4 DEF QueueUpdate
  <2> QED BY <1>1, <2>1 DEF FreeSlotsAreListed
<1> QED BY <1>2, <1>3, <1>4

\* An instance starts, ends or is deleted.
LEMMA ListOfInstance ==
  ASSUME TypeOK, FreeSlotsAreListed, NEW b \in Bgs,
         StartBattleground(b) \/ EndBattleground(b) \/ DeleteBattleground(b)
  PROVE  FreeSlotsAreListed'
<1>1. members' = members
  BY DEF StartBattleground, Start, EndBattleground, End, DeleteBattleground, Delete
<1>2. \A c \in Bgs : HasFreeSlots(c)' = HasFreeSlots(c)
  BY <1>1 DEF HasFreeSlots, Inside
<1>3. \A c \in Bgs : \/ status'[c] = status[c] /\ inFreeSlotQueue'[c] = inFreeSlotQueue[c]
                     \/ /\ status[c] \in Open /\ status'[c] \in Open
                        /\ inFreeSlotQueue'[c] = inFreeSlotQueue[c]
                     \/ status'[c] \notin Open /\ inFreeSlotQueue'[c] = FALSE
  BY DEF StartBattleground, Start, EndBattleground, End, DeleteBattleground, Delete, Open,
         TypeOK, BgTypeOK
<1> QED BY <1>2, <1>3 DEF FreeSlotsAreListed

(***************************************************************************)
(* An open instance with free slots is on the free-slot list, and one that *)
(* is over or gone is not, for any number of players and instances.        *)
(***************************************************************************)
THEOREM FreeSlotsAlwaysListed == Spec => []FreeSlotsAreListed
<1>1. Init => FreeSlotsAreListed
  BY DEF Init, BgInit, FreeSlotsAreListed, Open
<1>2. ASSUME TypeOK, FreeSlotsAreListed, [Next]_vars
      PROVE  FreeSlotsAreListed'
  <2>1. ASSUME NEW p \in Players, \/ Login(p) \/ DeserterExpires(p) \/ LogoutOutside(p)
                                  \/ \E q \in Queues : Port(p, q) \/ LeaveQueue(p, q)
        PROVE  FreeSlotsAreListed'
    <3>1. status' = status /\ members' = members /\ inFreeSlotQueue' = inFreeSlotQueue
      BY <2>1 DEF Login, DeserterExpires, LogoutOutside, Port, LeaveQueue, bgVars
    <3> QED BY <1>2, <3>1, ListFrame
  <2>2. ASSUME NEW p \in Players, LeaveBattleground(p) \/ LogoutInside(p)
                                  \/ \E q \in Queues : Jump(p, q)
        PROVE  FreeSlotsAreListed'
    <3>1. bgId[p] \in Bgs
      BY <1>2, <2>2 DEF LeaveBattleground, LogoutInside, Jump, InBattleground, TypeOK, PlayerTypeOK
    <3>2. RemovePlayersAtLeave({p}, bgId[p]) /\ status' = status
      BY <2>2 DEF LeaveBattleground, LogoutInside, Jump
    <3> QED BY <1>2, <3>1, <3>2, ListAfterLeave
  <2>3. ASSUME NEW p \in Players, WorldportAck(p)
        PROVE  FreeSlotsAreListed'
    BY <1>2, <2>3, ListAfterArrival
  <2>4. ASSUME NEW q \in Queues, Join(q) \/ \E e \in removeEvents[q] : RemoveEvent(q, e)
        PROVE  FreeSlotsAreListed'
    <3>1. status' = status /\ members' = members /\ inFreeSlotQueue' = inFreeSlotQueue
      BY <2>4 DEF Join, JoinQueue, JoinRefused, RemoveEvent, bgVars
    <3> QED BY <1>2, <3>1, ListFrame
  <2>5. ASSUME NEW q \in Queues, UpdateQueue(q)
        PROVE  FreeSlotsAreListed'
    BY <1>2, <2>5, ListAfterUpdate DEF UpdateQueue
  <2>6. ASSUME NEW b \in Bgs, StartBattleground(b) \/ EndBattleground(b) \/ DeleteBattleground(b)
        PROVE  FreeSlotsAreListed'
    BY <1>2, <2>6, ListOfInstance
  <2>7. ASSUME NEW b \in Bgs, ProcessLeave(b) \/ ProcessOfflineQueue(b)
        PROVE  FreeSlotsAreListed'
    <3>1. PICK S : RemovePlayersAtLeave(S, b) /\ status' = status
      BY <2>7 DEF ProcessLeave, ProcessOfflineQueue, Expel
    <3> QED BY <1>2, <3>1, ListAfterLeave
  <2>8. CASE UNCHANGED vars
    BY <1>2, <2>8, ListFrame DEF vars
  <2> QED BY <1>2, <2>1, <2>2, <2>3, <2>4, <2>5, <2>6, <2>7, <2>8 DEF Next
<1> QED BY <1>1, <1>2, TypeCorrect, PTL DEF Spec
-----------------------------------------------------------------------------
(***************************************************************************)
(* The capacity of an instance.                                            *)
(***************************************************************************)

\* An instance that is not there has no place taken.
GoneIsEmpty == \A b \in Bgs, t \in Teams : ~Exists(b) => invitedCount[b][t] = 0

\* Inductive: a new instance starts from the counters of a deleted one.
CapacityInv == GoneIsEmpty /\ CapacityRespected

\* Counters only go down, and only in instances that stay.
LEMMA CapacityFrame ==
  ASSUME TypeOK, TypeOK', CapacityInv,
         \A b \in Bgs, t \in Teams : invitedCount'[b][t] <= invitedCount[b][t],
         \A b \in Bgs, t \in Teams : ~Exists(b)' => invitedCount'[b][t] = 0
  PROVE  CapacityInv'
<1>1. \A b \in Bgs, t \in Teams : invitedCount[b][t] \in Int /\ invitedCount'[b][t] \in Int
  BY DEF TypeOK, BgTypeOK
<1>2. MaxPlayersPerTeam \in Nat
  BY BattlegroundAssumption DEF BattlegroundAssumption
<1> QED BY <1>1, <1>2 DEF CapacityInv, GoneIsEmpty, CapacityRespected

\* What RemovePlayerAtLeave takes off the counters.
LEMMA LeaveLowers ==
  ASSUME NEW c \in [Bgs -> [Teams -> Int]], NEW b \in Bgs, NEW S, NEW d \in Bgs, NEW t \in Teams
  PROVE  /\ InvitedAfterLeave(c, S, b)[d][t] <= c[d][t]
         /\ d # b => InvitedAfterLeave(c, S, b)[d][t] = c[d][t]
<1>1. Cardinality(S \cap Side(b, t)) \in Nat
  BY PlayersFinite DEF Side
<1>2. c[d][t] \in Int
  OBVIOUS
<1>3. CASE d = b
  <2>1. InvitedAfterLeave(c, S, b)[d][t] = c[d][t] - Cardinality(S \cap Side(b, t))
    BY <1>3 DEF InvitedAfterLeave
  <2> QED BY <1>1, <1>2, <1>3, <2>1
<1>4. CASE d # b
  BY <1>2, <1>4 DEF InvitedAfterLeave
<1> QED BY <1>3, <1>4

\* What RemovePlayer takes off the counters.
LEMMA RemoveLowers ==
  ASSUME NEW c \in [Bgs -> [Teams -> Int]], NEW p, NEW Q, NEW d \in Bgs, NEW t \in Teams
  PROVE  /\ InvitedAfterRemove(c, p, Q)[d][t] <= c[d][t]
         /\ ~Exists(d) => InvitedAfterRemove(c, p, Q)[d][t] = c[d][t]
BY DEF InvitedAfterRemove, GivenBack

\* GetFreeSlotsForTeam never offers more than what is left of the maximum.
LEMMA FreeSlotsBounded ==
  ASSUME TypeOK, NEW b \in Bgs, NEW t \in Teams, status[b] \in Open,
         invitedCount[b][t] <= MaxPlayersPerTeam
  PROVE  /\ GetFreeSlotsForTeam(b, t) \in Int
         /\ GetFreeSlotsForTeam(b, t) <= MaxPlayersPerTeam - invitedCount[b][t]
<1> DEFINE u == OtherTeam(t)
<1>1. u \in Teams
  BY DEF OtherTeam, Teams
<1>2. /\ invitedCount[b][t] \in Int /\ invitedCount[b][u] \in Int
      /\ playersCount[b][t] \in Int /\ playersCount[b][u] \in Int
  BY <1>1 DEF TypeOK, BgTypeOK
<1>3. MinPlayersPerTeam \in Nat /\ MaxPlayersPerTeam \in Nat
  BY BattlegroundAssumption DEF BattlegroundAssumption
<1>4. RoomLeft(b, t) = MaxPlayersPerTeam - invitedCount[b][t]
  BY <1>2, <1>3 DEF RoomLeft, Surplus
<1>5. \A m, n \in Int : Balance(m, n) \in Int
  BY DEF Balance, Surplus
<1>6. BalanceInside(b, t) \in Int
  <2>1. Balance(playersCount[b][t], playersCount[b][u]) \in Int
    BY <1>2, <1>5
  <2> QED BY <1>2, <1>3, <2>1 DEF BalanceInside
<1>7. Balance(invitedCount[b][t], invitedCount[b][u]) \in Int
  BY <1>2, <1>5
<1>8. \/ GetFreeSlotsForTeam(b, t) = RoomLeft(b, t)
      \/ GetFreeSlotsForTeam(b, t) =
           Least(Least(Balance(invitedCount[b][t], invitedCount[b][u]), RoomLeft(b, t)),
                 BalanceInside(b, t))
  BY DEF GetFreeSlotsForTeam
<1> QED BY <1>2, <1>3, <1>4, <1>6, <1>7, <1>8 DEF Least

\* No side is filled beyond the free slots it reports, and a new instance
\* starts from nothing.
LEMMA CapacityAfterUpdate ==
  ASSUME TypeOK, TypeOK', CapacityInv, NEW q \in Queues, NEW nb \in Bgs \cup {NoBg},
         NEW s \in Stamps, NEW stray \in Strays(q), NEW side, NEW to,
         QueueUpdate(q, to, side, stray, nb, s)
  PROVE  CapacityInv'
<1> DEFINE new(b, t) == Selected(q, to, side, b, t) \cap Reached(q, to, online)
<1> USE BattlegroundAssumption DEF BattlegroundAssumption
<1>1. \A b \in Bgs, t \in Teams :
        /\ invitedCount'[b][t] = invitedCount[b][t] + Cardinality(new(b, t))
        /\ Cardinality(new(b, t)) \in Nat
        /\ Cardinality(new(b, t)) <= Cardinality(Selected(q, to, side, b, t))
        /\ Cardinality(Selected(q, to, side, b, t)) \in Nat
        /\ invitedCount[b][t] \in Int
  <2>1. \A b \in Bgs, t \in Teams : invitedCount'[b][t] = invitedCount[b][t] + Cardinality(new(b, t))
    BY DEF QueueUpdate
  <2>2. \A b \in Bgs, t \in Teams :
          Selected(q, to, side, b, t) \subseteq Players
          /\ new(b, t) \subseteq Selected(q, to, side, b, t)
    BY DEF Selected
  <2>3. \A b \in Bgs, t \in Teams : invitedCount[b][t] \in Int
    BY DEF TypeOK, BgTypeOK
  <2>4. \A b \in Bgs, t \in Teams :
          /\ Cardinality(new(b, t)) \in Nat
          /\ Cardinality(new(b, t)) <= Cardinality(Selected(q, to, side, b, t))
          /\ Cardinality(Selected(q, to, side, b, t)) \in Nat
    BY <2>2, SmallerSet
  <2> QED BY <2>1, <2>3, <2>4
<1>2. Matching(q, to, side, stray, nb)
  BY DEF QueueUpdate
<1>3. \A b \in Bgs : b # nb /\ b \notin ToppedUp(q) =>
        \A t \in Teams : Cardinality(new(b, t)) = 0
  <2> SUFFICES ASSUME NEW b \in Bgs, b # nb, b \notin ToppedUp(q), NEW t \in Teams
               PROVE  new(b, t) = {}
    BY FS_EmptySet
  <2> SUFFICES ASSUME NEW p \in Selected(q, to, side, b, t)
               PROVE  FALSE
    OBVIOUS
  <2>1. group[q][p].id \in WaitingGroups(q) /\ to[group[q][p].id] = b
    BY DEF Selected, WaitingGroups
  <2>2. to[group[q][p].id] \in {NoBg, nb} \cup ToppedUp(q)
    BY <1>2, <2>1 DEF Matching
  <2> QED BY <2>1, <2>2
<1> HIDE DEF new
<1>4. GoneIsEmpty'
  <2> SUFFICES ASSUME NEW b \in Bgs, NEW t \in Teams, ~Exists(b)'
               PROVE  invitedCount'[b][t] = 0
    BY DEF GoneIsEmpty
  <2>1. b # nb /\ ~Exists(b)
    BY DEF QueueUpdate, Exists
  <2>2. b \notin ToppedUp(q)
    BY <2>1 DEF ToppedUp, Exists, Open
  <2>3. Cardinality(new(b, t)) = 0
    BY <1>3, <2>1, <2>2
  <2>4. invitedCount[b][t] = 0
    BY <2>1 DEF CapacityInv, GoneIsEmpty
  <2> QED BY <1>1, <2>3, <2>4
<1>5. CapacityRespected'
  <2> SUFFICES ASSUME ~OTeamMatches, NEW b \in Bgs, NEW t \in Teams
               PROVE  invitedCount'[b][t] <= MaxPlayersPerTeam
    BY DEF CapacityRespected
  <2> DEFINE n == Cardinality(new(b, t))
  <2> DEFINE m == Cardinality(Pool(q, to, side, stray, b, t))
  <2>0. /\ invitedCount'[b][t] = invitedCount[b][t] + n
        /\ n \in Nat /\ n <= m /\ m \in Nat /\ invitedCount[b][t] \in Int
    <3>1. Selected(q, to, side, b, t) = Pool(q, to, side, stray, b, t)
      BY DEF Strays, Selected, Pool
    <3> QED BY <1>1, <3>1
  <2>2. invitedCount[b][t] <= MaxPlayersPerTeam
    BY DEF CapacityInv, CapacityRespected
  <2>3. CASE b = nb
    <3>1. ~Exists(b) /\ m <= MaxPlayersPerTeam
      BY <1>2, <2>3 DEF Matching
    <3>2. invitedCount[b][t] = 0
      BY <3>1 DEF CapacityInv, GoneIsEmpty
    <3> HIDE DEF n, m
    <3> QED BY <2>0, <3>1, <3>2
  <2>4. CASE b \in ToppedUp(q)
    <3> DEFINE free == GetFreeSlotsForTeam(b, t)
    <3>1. m <= free
      BY <1>2, <2>4 DEF Matching
    <3>2. status[b] \in Open
      BY <2>4 DEF ToppedUp
    <3>3. free \in Int /\ free <= MaxPlayersPerTeam - invitedCount[b][t]
      BY <2>2, <3>2, FreeSlotsBounded
    <3> HIDE DEF n, m, free
    <3> QED BY <2>0, <3>1, <3>3
  <2>5. CASE b # nb /\ b \notin ToppedUp(q)
    <3>1. n = 0
      BY <1>3, <2>5
    <3> HIDE DEF n
    <3> QED BY <2>0, <2>2, <3>1
  <2> QED BY <2>3, <2>4, <2>5
<1> QED BY <1>4, <1>5 DEF CapacityInv

\* Leaving an instance: the counters of b may go down, and b is still there.
LEMMA CapacityAfterLeave ==
  ASSUME TypeOK, TypeOK', CapacityInv, NEW b \in Bgs, NEW S, Exists(b), status' = status,
         invitedCount' = InvitedAfterLeave(invitedCount, S, b)
  PROVE  CapacityInv'
<1>1. invitedCount \in [Bgs -> [Teams -> Int]]
  BY DEF TypeOK, BgTypeOK
<1>2. \A d \in Bgs, t \in Teams : invitedCount'[d][t] <= invitedCount[d][t]
  BY <1>1, LeaveLowers
<1>3. \A d \in Bgs, t \in Teams : ~Exists(d)' => invitedCount'[d][t] = 0
  BY <1>1, LeaveLowers DEF CapacityInv, GoneIsEmpty, Exists
<1> QED BY <1>2, <1>3, CapacityFrame

\* Leaving queues.
LEMMA CapacityAfterRemove ==
  ASSUME TypeOK, TypeOK', CapacityInv, NEW p, NEW Q, status' = status,
         invitedCount' = InvitedAfterRemove(invitedCount, p, Q)
  PROVE  CapacityInv'
<1>1. invitedCount \in [Bgs -> [Teams -> Int]]
  BY DEF TypeOK, BgTypeOK
<1>2. \A d \in Bgs, t \in Teams : invitedCount'[d][t] <= invitedCount[d][t]
  BY <1>1, RemoveLowers
<1>3. \A d \in Bgs, t \in Teams : ~Exists(d)' => invitedCount'[d][t] = 0
  BY <1>1, RemoveLowers DEF CapacityInv, GoneIsEmpty, Exists
<1> QED BY <1>2, <1>3, CapacityFrame

\* Logging out inside does both.
LEMMA CapacityAfterLogout ==
  ASSUME TypeOK, TypeOK', CapacityInv, NEW p \in Players, LogoutInside(p)
  PROVE  CapacityInv'
<1> DEFINE b == bgId[p]
<1> DEFINE Q == QueuesOf(p) \ {QueueOf[b]}
<1> DEFINE c == InvitedAfterLeave(invitedCount, {p}, b)
<1>1. b \in Bgs /\ Exists(b) /\ status' = status
  BY DEF LogoutInside, InBattleground, TypeOK, PlayerTypeOK
<1>2. invitedCount' = InvitedAfterRemove(c, p, Q)
  BY DEF LogoutInside
<1>3. invitedCount \in [Bgs -> [Teams -> Int]] /\ c \in [Bgs -> [Teams -> Int]]
  BY <1>1, InvitedAfterLeaveType DEF TypeOK, BgTypeOK
<1>4. \A d \in Bgs, t \in Teams :
        /\ c[d][t] <= invitedCount[d][t]
        /\ d # b => c[d][t] = invitedCount[d][t]
  BY <1>1, <1>3, LeaveLowers
<1> HIDE DEF c, Q
<1>5. \A d \in Bgs, t \in Teams :
        /\ invitedCount'[d][t] <= c[d][t]
        /\ ~Exists(d) => invitedCount'[d][t] = c[d][t]
  BY <1>2, <1>3, RemoveLowers
<1>6. \A d \in Bgs, t \in Teams : invitedCount'[d][t] <= invitedCount[d][t]
  <2>1. \A d \in Bgs, t \in Teams :
          invitedCount[d][t] \in Int /\ c[d][t] \in Int /\ invitedCount'[d][t] \in Int
    BY <1>3 DEF TypeOK, BgTypeOK
  <2> QED BY <1>4, <1>5, <2>1
<1>7. \A d \in Bgs, t \in Teams : ~Exists(d)' => invitedCount'[d][t] = 0
  <2> SUFFICES ASSUME NEW d \in Bgs, NEW t \in Teams, ~Exists(d)'
               PROVE  invitedCount'[d][t] = 0
    OBVIOUS
  <2>1. ~Exists(d) /\ d # b
    BY <1>1 DEF Exists
  <2> QED BY <1>4, <1>5, <2>1 DEF CapacityInv, GoneIsEmpty
<1> QED BY <1>6, <1>7, CapacityFrame

(***************************************************************************)
(* No side of an instance is promised to more players than the maximum,    *)
(* through all rounds of filling up, for any maximum and any number of     *)
(* players (GetFreeSlotsForTeam, FillXPlayersToBG).                        *)
(***************************************************************************)
THEOREM CapacityHolds == Spec => []CapacityRespected
<1>1. Init => CapacityInv
  BY BattlegroundAssumption
     DEF Init, BgInit, CapacityInv, GoneIsEmpty, CapacityRespected, BattlegroundAssumption
<1>2. ASSUME TypeOK, TypeOK', CapacityInv, [Next]_vars
      PROVE  CapacityInv'
  <2>1. ASSUME UNCHANGED <<status, invitedCount>>
        PROVE  CapacityInv'
    BY <1>2, <2>1 DEF CapacityInv, GoneIsEmpty, CapacityRespected, Exists
  <2>2. ASSUME NEW p \in Players, \/ Login(p) \/ DeserterExpires(p) \/ WorldportAck(p)
                                  \/ \E q \in Queues : Port(p, q)
        PROVE  CapacityInv'
    BY <2>1, <2>2 DEF Login, DeserterExpires, WorldportAck, Port, bgVars
  <2>3. ASSUME NEW p \in Players, LogoutOutside(p) \/ \E q \in Queues : LeaveQueue(p, q)
        PROVE  CapacityInv'
    <3>1. PICK Q : invitedCount' = InvitedAfterRemove(invitedCount, p, Q) /\ status' = status
      BY <2>3 DEF LogoutOutside, LeaveQueue
    <3> QED BY <1>2, <3>1, CapacityAfterRemove
  <2>4. ASSUME NEW p \in Players, LeaveBattleground(p) \/ \E q \in Queues : Jump(p, q)
        PROVE  CapacityInv'
    <3>1. bgId[p] \in Bgs /\ Exists(bgId[p])
      BY <1>2, <2>4 DEF LeaveBattleground, Jump, InBattleground, TypeOK, PlayerTypeOK
    <3>2. invitedCount' = InvitedAfterLeave(invitedCount, {p}, bgId[p]) /\ status' = status
      BY <2>4 DEF LeaveBattleground, Jump
    <3> QED BY <1>2, <3>1, <3>2, CapacityAfterLeave
  <2>5. ASSUME NEW p \in Players, LogoutInside(p)
        PROVE  CapacityInv'
    BY <1>2, <2>5, CapacityAfterLogout
  <2>6. ASSUME NEW q \in Queues, Join(q)
        PROVE  CapacityInv'
    BY <2>1, <2>6 DEF Join, JoinQueue, JoinRefused, bgVars
  <2>7. ASSUME NEW q \in Queues, NEW e \in removeEvents[q], RemoveEvent(q, e)
        PROVE  CapacityInv'
    <3>1. status' = status /\ \/ invitedCount' = invitedCount
                              \/ invitedCount' = InvitedAfterRemove(invitedCount, e.player, {q})
      BY <2>7 DEF RemoveEvent
    <3> QED BY <1>2, <2>1, <3>1, CapacityAfterRemove
  <2>8. ASSUME NEW q \in Queues, UpdateQueue(q)
        PROVE  CapacityInv'
    BY <1>2, <2>8, CapacityAfterUpdate DEF UpdateQueue
  <2>9. ASSUME NEW b \in Bgs, StartBattleground(b) \/ EndBattleground(b) \/ DeleteBattleground(b)
        PROVE  CapacityInv'
    <3>1. invitedCount' = invitedCount
      BY <2>9 DEF StartBattleground, Start, EndBattleground, End, DeleteBattleground, Delete
    <3>2. \A d \in Bgs : ~Exists(d)' => ~Exists(d) \/ \A t \in Teams : invitedCount[d][t] = 0
      BY <1>2, <2>9 DEF StartBattleground, Start, EndBattleground, End, DeleteBattleground, Delete,
                        Exists, TypeOK, BgTypeOK
    <3> QED BY <1>2, <3>1, <3>2 DEF CapacityInv, GoneIsEmpty, CapacityRespected
  <2>10. ASSUME NEW b \in Bgs, ProcessLeave(b) \/ ProcessOfflineQueue(b)
         PROVE  CapacityInv'
    <3>1. Exists(b)
      BY <2>10 DEF ProcessLeave, ProcessOfflineQueue, Exists
    <3>2. PICK S : invitedCount' = InvitedAfterLeave(invitedCount, S, b) /\ status' = status
      BY <2>10 DEF ProcessLeave, ProcessOfflineQueue, Expel
    <3> QED BY <1>2, <3>1, <3>2, CapacityAfterLeave
  <2>11. CASE UNCHANGED vars
    BY <2>1, <2>11 DEF vars
  <2> QED BY <1>2, <2>2, <2>3, <2>4, <2>5, <2>6, <2>7, <2>8, <2>9, <2>10, <2>11 DEF Next
<1>3. CapacityInv => CapacityRespected
  BY DEF CapacityInv
<1> QED BY <1>1, <1>2, <1>3, TypeCorrect, PTL DEF Spec

-----------------------------------------------------------------------------
(***************************************************************************)
(* Events and invitations.                                                 *)
(***************************************************************************)

\* An event disappears only by being executed.
LEMMA OnlyExecutionRemoves ==
  ASSUME TypeOK, [Next]_vars, NEW q \in Queues, NEW e \in removeEvents[q],
         e \notin removeEvents'[q]
  PROVE  RemoveEvent(q, e)
<1>1. \A p \in Players :
        ~(\/ Login(p) \/ WorldportAck(p) \/ LeaveBattleground(p) \/ DeserterExpires(p)
          \/ LogoutInside(p) \/ LogoutOutside(p)
          \/ \E r \in Queues : Port(p, r) \/ Jump(p, r) \/ LeaveQueue(p, r))
  BY DEF Login, WorldportAck, LeaveBattleground, DeserterExpires, LogoutInside, LogoutOutside,
         Port, Jump, LeaveQueue, queueVars
<1>2. \A b \in Bgs :
        ~(\/ StartBattleground(b) \/ EndBattleground(b) \/ DeleteBattleground(b)
          \/ ProcessLeave(b) \/ ProcessOfflineQueue(b))
  BY DEF StartBattleground, EndBattleground, DeleteBattleground, ProcessLeave,
         ProcessOfflineQueue, Expel, queueVars
<1>3. \A r \in Queues : ~Join(r) /\ ~UpdateQueue(r)
  <2>1. \A r \in Queues : ~Join(r)
    BY DEF Join, JoinQueue, JoinRefused
  <2>2. \A r \in Queues : \A S : e \in [removeEvents EXCEPT ![r] = @ \cup S][q]
    BY DEF TypeOK, QueueTypeOK
  <2>3. \A r \in Queues : \A to, side, stray, nb, s : ~QueueUpdate(r, to, side, stray, nb, s)
    <3> SUFFICES ASSUME NEW r \in Queues, NEW to, NEW side, NEW stray, NEW nb, NEW s,
                        QueueUpdate(r, to, side, stray, nb, s)
                 PROVE  FALSE
      OBVIOUS
    <3>1. PICK S : removeEvents' = [removeEvents EXCEPT ![r] = @ \cup S]
      BY DEF QueueUpdate
    <3> QED BY <2>2, <3>1
  <2> QED BY <2>1, <2>3 DEF UpdateQueue
<1>4. PICK r \in Queues : \E f \in removeEvents[r] : RemoveEvent(r, f)
  BY <1>1, <1>2, <1>3 DEF Next, vars
<1>5. PICK f \in removeEvents[r] : RemoveEvent(r, f)
  BY <1>4
<1>6. removeEvents' = [removeEvents EXCEPT ![r] = @ \ {f}]
  BY <1>5 DEF RemoveEvent
<1>7. r = q /\ f = e
  BY <1>6 DEF TypeOK, QueueTypeOK
<1> QED BY <1>5, <1>7

(***************************************************************************)
(* While the player neither answers nor logs out, his invitation outlives  *)
(* every BGQueueRemoveEvent but its own, however often he has been invited *)
(* to the same instance before.                                            *)
(***************************************************************************)
THEOREM NoForeignTimerExpires == Spec => OnlyOwnTimerExpires
<1>1. ASSUME TypeOK, [Next]_vars
      PROVE  \A q \in Queues : \A e \in removeEvents[q] \ removeEvents'[q] :
               Invited(e.player, q) /\ ~Queued(e.player, q)' => group[q][e.player].stamp = e.stamp
  <2> SUFFICES ASSUME NEW q \in Queues, NEW e \in removeEvents[q] \ removeEvents'[q],
                      Invited(e.player, q), ~Queued(e.player, q)'
               PROVE  group[q][e.player].stamp = e.stamp
    OBVIOUS
  <2>1. RemoveEvent(q, e)
    BY <1>1, OnlyExecutionRemoves
  <2>2. group' # group
    BY DEF Invited, Queued
  <2>3. IsPlayerInvited(e.player, q, e.bg, e.stamp)
    BY <2>1, <2>2 DEF RemoveEvent
  <2> QED BY <2>3 DEF IsPlayerInvited
<1> QED BY <1>1, TypeCorrect, PTL DEF Spec, OnlyOwnTimerExpires

-----------------------------------------------------------------------------
(***************************************************************************)
(* Places given back.                                                      *)
(***************************************************************************)

\* RemovePlayerAtLeave lowers a counter only if somebody of S is inside.
LEMMA LowerByLeave ==
  ASSUME TypeOK, NEW d \in Bgs, NEW S, NEW b \in Bgs, NEW t \in Teams,
         InvitedAfterLeave(invitedCount, S, d)[b][t] < invitedCount[b][t],
         status[b] \in Open
  PROVE  QueueOf[b] \in ScheduledAfterLeave(S, d)
<1>1. invitedCount[b][t] \in Int
  BY DEF TypeOK, BgTypeOK
<1>2. b = d
  BY <1>1 DEF InvitedAfterLeave, TypeOK, BgTypeOK
<1>3. S \cap Side(b, t) # {}
  <2>1. InvitedAfterLeave(invitedCount, S, d)[b][t] = invitedCount[b][t] - Cardinality(S \cap Side(b, t))
    BY <1>2 DEF InvitedAfterLeave, TypeOK, BgTypeOK
  <2>2. S \cap Side(b, t) = {} => Cardinality(S \cap Side(b, t)) = 0
    BY FS_EmptySet
  <2> QED BY <1>1, <2>1, <2>2
<1>4. S \cap Inside(b) # {}
  BY <1>3 DEF Side, Inside, Teams, NoTeam
<1> QED BY <1>2, <1>4 DEF ScheduledAfterLeave

\* RemovePlayer lowers only the counter of the instance that the entry is
\* invited to.
LEMMA LowerByRemove ==
  ASSUME TypeOK, NEW p, NEW Q, NEW b \in Bgs, NEW t \in Teams,
         InvitedAfterRemove(invitedCount, p, Q)[b][t] < invitedCount[b][t]
  PROVE  QueueOf[b] \in Q /\ group[QueueOf[b]][p].bg = b
<1>1. invitedCount[b][t] \in Int
  BY DEF TypeOK, BgTypeOK
<1>2. InvitedAfterRemove(invitedCount, p, Q)[b][t] = invitedCount[b][t] - GivenBack(p, Q, b, t)
  BY DEF InvitedAfterRemove
<1>3. GivenBack(p, Q, b, t) # 0
  BY <1>1, <1>2
<1> QED BY <1>3 DEF GivenBack

\* A queue update lowers no counter.
LEMMA UpdateLowersNothing ==
  ASSUME TypeOK, NEW q \in Queues, NEW to, NEW side, NEW stray, NEW nb, NEW s,
         QueueUpdate(q, to, side, stray, nb, s), NEW b \in Bgs, NEW t \in Teams
  PROVE  /\ invitedCount[b][t] \in Int /\ invitedCount'[b][t] \in Int
         /\ invitedCount'[b][t] >= invitedCount[b][t]
<1> DEFINE n == Cardinality(Selected(q, to, side, b, t) \cap Reached(q, to, online))
<1>1. n \in Nat
  BY PlayersFinite DEF Selected
<1>2. invitedCount'[b][t] = invitedCount[b][t] + n /\ invitedCount[b][t] \in Int
  BY DEF QueueUpdate, TypeOK, BgTypeOK
<1> HIDE DEF n
<1> QED BY <1>1, <1>2

(***************************************************************************)
(* Whoever gives back a place in an open instance without logging out, in  *)
(* HandleBattleFieldPortOpcode, BGQueueRemoveEvent or RemovePlayerAtLeave, *)
(* leaves a scheduled update of the queue behind.                          *)
(***************************************************************************)
THEOREM FreedPlaceAlwaysOffered == Spec => FreedPlaceIsOffered
<1>1. ASSUME TypeOK, [Next]_vars
      PROVE  \A b \in Bgs, t \in Teams :
               /\ status[b] \in Open /\ status'[b] \in Open
               /\ invitedCount'[b][t] < invitedCount[b][t]
               /\ online' = online
               => QueueOf[b] \in scheduled'
  <2> SUFFICES ASSUME NEW b \in Bgs, NEW t \in Teams,
                      status[b] \in Open, status'[b] \in Open,
                      invitedCount'[b][t] < invitedCount[b][t],
                      online' = online
               PROVE  QueueOf[b] \in scheduled'
    OBVIOUS
  <2>0. invitedCount[b][t] \in Int /\ invitedCount' # invitedCount
    BY <1>1 DEF TypeOK, BgTypeOK
  <2>1. ASSUME NEW p \in Players, LeaveBattleground(p) \/ \E q \in Queues : Jump(p, q)
        PROVE  QueueOf[b] \in scheduled'
    <3>1. /\ bgId[p] \in Bgs
          /\ invitedCount' = InvitedAfterLeave(invitedCount, {p}, bgId[p])
          /\ scheduled' = ScheduledAfterLeave({p}, bgId[p])
      BY <1>1, <2>1 DEF LeaveBattleground, Jump, MayEnter, InBattleground, TypeOK, PlayerTypeOK
    <3> QED BY <1>1, <3>1, LowerByLeave
  <2>2. ASSUME NEW p \in Players, NEW q \in Queues, LeaveQueue(p, q)
        PROVE  QueueOf[b] \in scheduled'
    <3>1. invitedCount' = InvitedAfterRemove(invitedCount, p, {q}) /\ q \in scheduled'
      BY <2>2 DEF LeaveQueue
    <3>2. InvitedAfterRemove(invitedCount, p, {q})[b][t] < invitedCount[b][t]
      BY <3>1
    <3>3. QueueOf[b] \in {q}
      BY <1>1, <3>2, LowerByRemove
    <3> QED BY <3>1, <3>3
  <2>3. ASSUME NEW p \in Players, \/ Login(p) \/ WorldportAck(p) \/ DeserterExpires(p)
                                  \/ \E q \in Queues : Port(p, q)
        PROVE  FALSE
    BY <2>0, <2>3 DEF Login, WorldportAck, DeserterExpires, Port, bgVars
  <2>4. ASSUME NEW p \in Players, LogoutInside(p) \/ LogoutOutside(p)
        PROVE  FALSE
    BY <1>1, <2>4 DEF LogoutInside, LogoutOutside, InWorld, TypeOK, PlayerTypeOK
  <2>5. ASSUME NEW q \in Queues, NEW e \in removeEvents[q], RemoveEvent(q, e)
        PROVE  QueueOf[b] \in scheduled'
    <3>1. /\ invitedCount' = InvitedAfterRemove(invitedCount, e.player, {q})
          /\ IsPlayerInvited(e.player, q, e.bg, e.stamp)
          /\ scheduled' = IF status[e.bg] \in Open THEN scheduled \cup {q} ELSE scheduled
      BY <2>0, <2>5 DEF RemoveEvent
    <3>2. QueueOf[b] = q /\ group[q][e.player].bg = b
      <4>1. InvitedAfterRemove(invitedCount, e.player, {q})[b][t] < invitedCount[b][t]
        BY <3>1
      <4>2. QueueOf[b] \in {q} /\ group[QueueOf[b]][e.player].bg = b
        BY <1>1, <4>1, LowerByRemove
      <4> QED BY <4>2
    <3>3. e.bg = b
      BY <3>1, <3>2 DEF IsPlayerInvited
    <3> QED BY <3>1, <3>2, <3>3
  <2>6. ASSUME NEW q \in Queues, Join(q)
        PROVE  FALSE
    BY <2>0, <2>6 DEF Join, JoinQueue, JoinRefused, bgVars
  <2>7. ASSUME NEW q \in Queues, UpdateQueue(q)
        PROVE  FALSE
    <3>1. PICK nb \in Bgs \cup {NoBg}, s \in Stamps, stray \in Strays(q),
               side \in [WaitingGroups(q) -> Teams] :
            \E to \in [WaitingGroups(q) -> {NoBg, nb} \cup ToppedUp(q)] :
              QueueUpdate(q, to, side, stray, nb, s)
      BY <2>7 DEF UpdateQueue
    <3>2. PICK to \in [WaitingGroups(q) -> {NoBg, nb} \cup ToppedUp(q)] :
            QueueUpdate(q, to, side, stray, nb, s)
      BY <3>1
    <3>3. invitedCount'[b][t] \in Int /\ invitedCount'[b][t] >= invitedCount[b][t]
      BY <1>1, <3>2, UpdateLowersNothing
    <3> QED BY <2>0, <3>3
  <2>8. ASSUME NEW d \in Bgs, StartBattleground(d) \/ EndBattleground(d) \/ DeleteBattleground(d)
        PROVE  FALSE
    BY <2>0, <2>8 DEF StartBattleground, Start, EndBattleground, End, DeleteBattleground, Delete
  <2>9. ASSUME NEW d \in Bgs, ProcessLeave(d) \/ ProcessOfflineQueue(d)
        PROVE  QueueOf[b] \in scheduled'
    <3>1. PICK S : Expel(S, d)
      BY <2>9 DEF ProcessLeave, ProcessOfflineQueue
    <3>2. /\ invitedCount' = InvitedAfterLeave(invitedCount, S, d)
          /\ scheduled' = ScheduledAfterLeave(S, d)
      BY <3>1 DEF Expel
    <3> QED BY <1>1, <3>2, LowerByLeave
  <2>10. ~UNCHANGED vars
    BY <2>0 DEF vars
  <2> QED BY <1>1, <2>1, <2>2, <2>3, <2>4, <2>5, <2>6, <2>7, <2>8, <2>9, <2>10 DEF Next
<1> QED BY <1>1, TypeCorrect, PTL DEF Spec, FreedPlaceIsOffered

-----------------------------------------------------------------------------
(***************************************************************************)
(* Filling up a running instance.                                          *)
(***************************************************************************)

\* In a running instance the lead of the other side bounds the free slots.
LEMMA FreeSlotsBalanced ==
  ASSUME TypeOK, NEW b \in Bgs, NEW t \in Teams, status[b] = "in_progress"
  PROVE  /\ GetFreeSlotsForTeam(b, t) \in Int
         /\ GetFreeSlotsForTeam(b, t) <= Balance(invitedCount[b][t], invitedCount[b][OtherTeam(t)])
         /\ Balance(invitedCount[b][t], invitedCount[b][OtherTeam(t)]) \in Int
<1> DEFINE u == OtherTeam(t)
<1> DEFINE bal == Balance(invitedCount[b][t], invitedCount[b][u])
<1>1. u \in Teams
  BY DEF OtherTeam, Teams
<1>2. /\ invitedCount[b][t] \in Int /\ invitedCount[b][u] \in Int
      /\ playersCount[b][t] \in Int /\ playersCount[b][u] \in Int
  BY <1>1 DEF TypeOK, BgTypeOK
<1>3. MinPlayersPerTeam \in Nat /\ MaxPlayersPerTeam \in Nat
  BY BattlegroundAssumption DEF BattlegroundAssumption
<1>4. bal \in Int /\ RoomLeft(b, t) \in Int /\ BalanceInside(b, t) \in Int
  BY <1>2, <1>3 DEF Balance, Surplus, RoomLeft, BalanceInside
<1>5. GetFreeSlotsForTeam(b, t) = Least(Least(bal, RoomLeft(b, t)), BalanceInside(b, t))
  BY DEF GetFreeSlotsForTeam, Open
<1> HIDE DEF bal
<1>6. /\ Least(Least(bal, RoomLeft(b, t)), BalanceInside(b, t)) \in Int
      /\ Least(Least(bal, RoomLeft(b, t)), BalanceInside(b, t)) <= bal
  BY <1>4 DEF Least
<1> QED BY <1>4, <1>5, <1>6 DEF bal

\* Only a queue update invites.
LEMMA OnlyUpdateRaises ==
  ASSUME TypeOK, [Next]_vars, NEW b \in Bgs, NEW t \in Teams,
         invitedCount'[b][t] > invitedCount[b][t]
  PROVE  \E q \in Queues : UpdateQueue(q)
<1>1. invitedCount \in [Bgs -> [Teams -> Int]] /\ invitedCount[b][t] \in Int
  BY DEF TypeOK, BgTypeOK
<1>2. ASSUME NEW c \in [Bgs -> [Teams -> Int]], NEW d \in Bgs, NEW S
      PROVE  InvitedAfterLeave(c, S, d)[b][t] <= c[b][t]
  BY <1>2, LeaveLowers
<1>3. ASSUME NEW c \in [Bgs -> [Teams -> Int]], NEW p, NEW Q
      PROVE  InvitedAfterRemove(c, p, Q)[b][t] <= c[b][t]
  BY <1>3, RemoveLowers
<1>4. ASSUME NEW p \in Players, LeaveBattleground(p) \/ \E q \in Queues : Jump(p, q)
      PROVE  FALSE
  <2>1. bgId[p] \in Bgs /\ invitedCount' = InvitedAfterLeave(invitedCount, {p}, bgId[p])
    BY <1>4 DEF LeaveBattleground, Jump, MayEnter, InBattleground, TypeOK, PlayerTypeOK
  <2>2. invitedCount'[b][t] <= invitedCount[b][t]
    BY <1>1, <1>2, <2>1
  <2>3. invitedCount'[b][t] \in Int
    BY <1>1, <2>1, InvitedAfterLeaveType
  <2> QED BY <1>1, <2>2, <2>3
<1>5. ASSUME NEW p \in Players, LogoutOutside(p) \/ \E q \in Queues : LeaveQueue(p, q)
      PROVE  FALSE
  <2>1. PICK Q : invitedCount' = InvitedAfterRemove(invitedCount, p, Q)
    BY <1>5 DEF LogoutOutside, LeaveQueue
  <2>2. invitedCount'[b][t] <= invitedCount[b][t]
    BY <1>1, <1>3, <2>1
  <2>3. invitedCount'[b][t] \in Int
    BY <1>1, <2>1 DEF InvitedAfterRemove, GivenBack
  <2> QED BY <1>1, <2>2, <2>3
<1>6. ASSUME NEW p \in Players, LogoutInside(p)
      PROVE  FALSE
  <2>1. PICK Q : /\ bgId[p] \in Bgs
                 /\ invitedCount' = InvitedAfterRemove(InvitedAfterLeave(invitedCount, {p}, bgId[p]), p, Q)
    BY <1>6 DEF LogoutInside, InBattleground, TypeOK, PlayerTypeOK
  <2> DEFINE c == InvitedAfterLeave(invitedCount, {p}, bgId[p])
  <2>2. c \in [Bgs -> [Teams -> Int]] /\ c[b][t] <= invitedCount[b][t]
    BY <1>1, <1>2, <2>1, InvitedAfterLeaveType
  <2>3. invitedCount' = InvitedAfterRemove(c, p, Q)
    BY <2>1
  <2> HIDE DEF c
  <2>4. invitedCount'[b][t] <= c[b][t]
    BY <1>3, <2>2, <2>3
  <2>5. invitedCount'[b][t] \in Int /\ c[b][t] \in Int
    BY <2>2, <2>3 DEF InvitedAfterRemove, GivenBack
  <2> QED BY <1>1, <2>2, <2>4, <2>5
<1>7. ASSUME NEW q \in Queues, NEW e \in removeEvents[q], RemoveEvent(q, e)
      PROVE  FALSE
  <2>1. \/ invitedCount' = invitedCount
        \/ invitedCount' = InvitedAfterRemove(invitedCount, e.player, {q})
    BY <1>7 DEF RemoveEvent
  <2>2. invitedCount'[b][t] <= invitedCount[b][t]
    BY <1>1, <1>3, <2>1
  <2>3. invitedCount'[b][t] \in Int
    BY <1>1, <2>1 DEF InvitedAfterRemove, GivenBack
  <2> QED BY <1>1, <2>2, <2>3
<1>8. ASSUME NEW d \in Bgs, ProcessLeave(d) \/ ProcessOfflineQueue(d)
      PROVE  FALSE
  <2>1. PICK S : invitedCount' = InvitedAfterLeave(invitedCount, S, d)
    BY <1>8 DEF ProcessLeave, ProcessOfflineQueue, Expel
  <2>2. invitedCount'[b][t] <= invitedCount[b][t]
    BY <1>1, <1>2, <2>1
  <2>3. invitedCount'[b][t] \in Int
    BY <1>1, <2>1, InvitedAfterLeaveType
  <2> QED BY <1>1, <2>2, <2>3
<1>9. ASSUME \/ \E p \in Players : \/ Login(p) \/ WorldportAck(p) \/ DeserterExpires(p)
                                   \/ \E q \in Queues : Port(p, q)
             \/ \E q \in Queues : Join(q)
             \/ \E d \in Bgs : StartBattleground(d) \/ EndBattleground(d) \/ DeleteBattleground(d)
             \/ UNCHANGED vars
      PROVE  FALSE
  <2>1. invitedCount' = invitedCount
    BY <1>9 DEF Login, WorldportAck, DeserterExpires, Port, Join, JoinQueue, JoinRefused,
                StartBattleground, Start, EndBattleground, End, DeleteBattleground, Delete,
                bgVars, vars
  <2> QED BY <1>1, <2>1
<1> QED BY <1>4, <1>5, <1>6, <1>7, <1>8, <1>9 DEF Next

(***************************************************************************)
(* FillXPlayersToBG and InviteGroupToBG never leave the side of a running  *)
(* instance they add to two places ahead of the other, whatever OTeam      *)
(* reads as.                                                               *)
(***************************************************************************)
THEOREM InvitesAlwaysKeepBalance == Spec => InvitesKeepBalance
<1>1. ASSUME TypeOK, [Next]_vars
      PROVE  \A b \in Bgs, t \in Teams :
               status[b] = "in_progress" /\ invitedCount'[b][t] > invitedCount[b][t]
                 => invitedCount'[b][t] <= invitedCount'[b][OtherTeam(t)] + 1
  <2> SUFFICES ASSUME NEW b \in Bgs, NEW t \in Teams,
                      status[b] = "in_progress", invitedCount'[b][t] > invitedCount[b][t]
               PROVE  invitedCount'[b][t] <= invitedCount'[b][OtherTeam(t)] + 1
    OBVIOUS
  <2> DEFINE u == OtherTeam(t)
  <2>0. u \in Teams /\ invitedCount[b][t] \in Int /\ invitedCount' # invitedCount
    BY <1>1 DEF OtherTeam, Teams, TypeOK, BgTypeOK
  <2>1. PICK q \in Queues : UpdateQueue(q)
    BY <1>1, <2>0, OnlyUpdateRaises
  <2>2. PICK nb \in Bgs \cup {NoBg}, s \in Stamps, stray \in Strays(q),
             side \in [WaitingGroups(q) -> Teams] :
          \E to \in [WaitingGroups(q) -> {NoBg, nb} \cup ToppedUp(q)] :
            QueueUpdate(q, to, side, stray, nb, s)
    BY <2>1 DEF UpdateQueue
  <2>3. PICK to \in [WaitingGroups(q) -> {NoBg, nb} \cup ToppedUp(q)] :
          QueueUpdate(q, to, side, stray, nb, s)
    BY <2>2
  <2> DEFINE new == Selected(q, to, side, b, t) \cap Reached(q, to, online)
  <2> DEFINE pool == Pool(q, to, side, stray, b, t)
  <2> DEFINE free == GetFreeSlotsForTeam(b, t)
  <2>4. invitedCount'[b][t] = invitedCount[b][t] + Cardinality(new)
    BY <2>3 DEF QueueUpdate
  <2>5. Matching(q, to, side, stray, nb)
    BY <2>3 DEF QueueUpdate
  <2>6. b # nb
    <3>1. nb = b => ~Exists(b)
      BY <2>5, BattlegroundAssumption DEF Matching, BattlegroundAssumption
    <3> QED BY <3>1 DEF Exists
  <2>7. new # {}
    <3>1. Cardinality(new) # 0
      BY <2>0, <2>4
    <3> QED BY <3>1, FS_EmptySet
  <2>8. b \in ToppedUp(q)
    <3>1. PICK p \in Players : Waiting(p, q) /\ to[group[q][p].id] = b
      BY <2>7 DEF Selected
    <3>2. group[q][p].id \in WaitingGroups(q)
      BY <3>1 DEF WaitingGroups
    <3> QED BY <2>6, <3>1, <3>2, BattlegroundAssumption DEF BattlegroundAssumption
  <2>9. new \subseteq pool
    BY <2>5, <2>6 DEF Matching, MayStray, Selected, Pool
  <2>10. Cardinality(new) <= Cardinality(pool) /\ Cardinality(new) \in Nat /\ Cardinality(pool) \in Nat
    <3>1. pool \subseteq Players
      BY DEF Pool
    <3> QED BY <2>9, <3>1, SmallerSet
  <2>11. Cardinality(pool) <= free
    BY <2>5, <2>8 DEF Matching
  <2>12. /\ free \in Int
         /\ free <= Balance(invitedCount[b][t], invitedCount[b][u])
         /\ Balance(invitedCount[b][t], invitedCount[b][u]) \in Int
    BY <1>1, FreeSlotsBalanced
  <2>13. /\ invitedCount[b][u] \in Int /\ invitedCount'[b][u] \in Int
         /\ invitedCount'[b][u] >= invitedCount[b][u]
    BY <1>1, <2>0, <2>3, UpdateLowersNothing
  <2>14. Cardinality(new) > 0
    BY <2>0, <2>4, <2>10
  <2> HIDE DEF new, pool, free, u
  <2>15. /\ Cardinality(new) <= Balance(invitedCount[b][t], invitedCount[b][u])
    BY <2>10, <2>11, <2>12
  <2>16. invitedCount[b][t] + Cardinality(new) <= invitedCount[b][u] + 1
    BY <2>0, <2>10, <2>13, <2>14, <2>15 DEF Balance, Surplus
  <2>17. invitedCount'[b][t] <= invitedCount'[b][u] + 1
    BY <2>0, <2>4, <2>10, <2>13, <2>16
  <2> QED BY <2>17 DEF u
<1> QED BY <1>1, TypeCorrect, PTL DEF Spec, InvitesKeepBalance

-----------------------------------------------------------------------------
(***************************************************************************)
(* The battleground system implements SeatReservation, for all values of   *)
(* the constants under which a place cannot be lost: no teleport is        *)
(* refused and OTeam does not read as a faction.                           *)
(***************************************************************************)
\* The state the invariants allow.
Sound == TypeOK /\ Agreement /\ PlacesInv /\ CapacityRespected

\* A step in which m gives up places at most.
GivesUp(m) ==
  /\ \A r \in Queues : group'[r][m] \in {group[r][m], NoGroup}
  /\ \/ bgId'[m] = bgId[m] /\ bgTeam'[m] = bgTeam[m]
     \/ bgId'[m] = NoBg

SeatGivenUp(b, m) == SeatOf(b, m)' = SeatOf(b, m) \/ SeatOf(b, m)' = NoTeam

\* Whoever has a destination has left the queue of it.
LEMMA DestinationLeftQueue ==
  ASSUME Sound, TeleportFails = {}, NEW m \in Players, bgId[m] # NoBg
  PROVE  ~Queued(m, QueueOf[bgId[m]])
BY DEF Sound, PlacesInv, Footing, Arrived, Agreement, BoundHasLeftQueue

LEMMA SeatAfterGivingUp ==
  ASSUME Sound, TeleportFails = {}, NEW m \in Players, GivesUp(m), NEW b \in Bgs
  PROVE  SeatGivenUp(b, m)
<1>1. QueueOf[b] \in Queues /\ b # NoBg
  BY QueueAssumption, BattlegroundAssumption DEF QueueAssumption, BattlegroundAssumption
<1>2. bgId[m] = b => ~Queued(m, QueueOf[b])
  BY <1>1, DestinationLeftQueue
<1>3. CASE group'[QueueOf[b]][m] = NoGroup
  BY <1>1, <1>3 DEF GivesUp, SeatGivenUp, SeatOf, Queued
<1>4. CASE group'[QueueOf[b]][m] = group[QueueOf[b]][m]
  BY <1>1, <1>2, <1>4 DEF GivesUp, SeatGivenUp, SeatOf, Queued
<1> QED BY <1>1, <1>3, <1>4 DEF GivesUp

-----------------------------------------------------------------------------
(***************************************************************************)
(* The steps of SeatReservation.                                           *)
(***************************************************************************)

LEMMA Releases ==
  ASSUME NEW b \in Bgs, PhaseOf(b)' = PhaseOf(b), \A m \in Players : SeatGivenUp(b, m)
  PROVE  Reservation!Release(b)
BY DEF SeatGivenUp, Reservation!Release

\* Instances keep their status, players only give up.
LEMMA AllRelease ==
  ASSUME Sound, TeleportFails = {}, status' = status, \A m \in Players : GivesUp(m)
  PROVE  Reservation!Next
<1>1. \A b \in Bgs : PhaseOf(b)' = PhaseOf(b)
  BY DEF PhaseOf
<1>2. \A b \in Bgs : Reservation!Release(b)
  BY <1>1, SeatAfterGivingUp, Releases
<1> QED BY <1>2 DEF Reservation!Next

\* The places that seats take are the places that are counted.
LEMMA SeatsCounted ==
  ASSUME Sound', ~OTeamMatches, NEW b \in Bgs, NEW t \in Teams
  PROVE  Cardinality({m \in Players : SeatOf(b, m)' = t}) <= MaxPlayersPerTeam
<1> DEFINE T == {m \in Players : SeatOf(b, m)' = t}
<1> DEFINE G == Going(b, t)'
<1> DEFINE I == InvitedTo(b, t)'
<1>1. T \subseteq G \cup I
  BY DEF SeatOf, Going, InvitedTo, Teams, NoTeam
<1>2. /\ IsFiniteSet(G) /\ IsFiniteSet(I)
      /\ Cardinality(G) \in Nat /\ Cardinality(I) \in Nat /\ Cardinality(G \cap I) \in Nat
  BY PlayersFinite DEF Going, InvitedTo
<1>3. G \cup I \subseteq Players
  BY DEF Going, InvitedTo
<1>4. Cardinality(T) <= Cardinality(G \cup I) /\ Cardinality(T) \in Nat
  BY <1>1, <1>3, SmallerSet
<1>5. Cardinality(G \cup I) = Cardinality(G) + Cardinality(I) - Cardinality(G \cap I)
  BY <1>2, FS_Union
<1>6. Places(b, t)' = Cardinality(G) + Cardinality(I)
  BY DEF Places
<1>7. invitedCount'[b][t] >= Places(b, t)' /\ invitedCount'[b][t] <= MaxPlayersPerTeam
  BY DEF Sound, PlacesInv, NoPlaceForgotten, CapacityRespected
<1>8. invitedCount'[b][t] \in Int /\ MaxPlayersPerTeam \in Nat
  BY BattlegroundAssumption DEF BattlegroundAssumption, Sound, TypeOK, BgTypeOK
<1> HIDE DEF T, G, I
<1>9. Cardinality(T) <= MaxPlayersPerTeam
  BY <1>2, <1>4, <1>5, <1>6, <1>7, <1>8
<1> QED BY <1>9 DEF T

-----------------------------------------------------------------------------
(***************************************************************************)
(* Steps that give places, or move them.                                   *)
(***************************************************************************)

\* A party that joins holds no places.
LEMMA RefinedJoin ==
  ASSUME Sound, TeleportFails = {}, NEW S \in SUBSET Players, NEW leader \in S,
         NEW q \in Queues, NEW g \in Groups, JoinQueue(leader, S, q, g)
  PROVE  Reservation!Next
<1>1. UNCHANGED <<status, bgId, bgTeam>>
  BY DEF JoinQueue, bgVars
<1>2. \A m \in S : ~Queued(m, q)
  BY QueuedHasSlot DEF JoinQueue, CanJoin, Sound
<1>3. \A m \in Players, r \in Queues :
        \/ group'[r][m] = group[r][m]
        \/ r = q /\ ~Queued(m, r) /\ group'[r][m].bg = NoBg
  BY <1>2 DEF JoinQueue, AddGroup, Sound, TypeOK, QueueTypeOK
<1>4. \A b \in Bgs : QueueOf[b] \in Queues /\ b # NoBg
  BY QueueAssumption, BattlegroundAssumption DEF QueueAssumption, BattlegroundAssumption
<1>5. \A b \in Bgs, m \in Players : SeatGivenUp(b, m)
  BY <1>1, <1>3, <1>4 DEF SeatGivenUp, SeatOf, Queued
<1>6. \A b \in Bgs : PhaseOf(b)' = PhaseOf(b)
  BY <1>1 DEF PhaseOf
<1> QED BY <1>5, <1>6, Releases DEF Reservation!Next

\* Accepting an invitation keeps that place, and gives up the one in the
\* instance the player comes from.
LEMMA RefinedPort ==
  ASSUME Sound, TeleportFails = {}, NEW p \in Players, NEW q \in Queues, Port(p, q) \/ Jump(p, q)
  PROVE  Reservation!Next
<1> DEFINE g == group[q][p]
<1>1. /\ Queued(p, q) /\ g.bg \in Bgs /\ QueueOf[g.bg] = q /\ g.team \in Teams
  BY DEF Port, Jump, MayEnter, Invited, Queued, Sound, PlacesInv, Footing, NoDanglingInstance,
         GroupInfo, TypeOK, QueueTypeOK
<1>2. /\ status' = status /\ bgId'[p] = g.bg /\ bgTeam'[p] = g.team
      /\ \A m \in Players : m # p => bgId'[m] = bgId[m] /\ bgTeam'[m] = bgTeam[m]
  BY DEF Port, Jump, bgVars, Sound, TypeOK, PlayerTypeOK
<1>3. \A m \in Players, r \in Queues :
        group'[r][m] = IF m = p /\ r = q THEN NoGroup ELSE group[r][m]
  BY DEF Port, Jump, RemovePlayer, Sound, TypeOK, QueueTypeOK
<1>4. \A b \in Bgs : b # NoBg /\ QueueOf[b] \in Queues
  BY QueueAssumption, BattlegroundAssumption DEF QueueAssumption, BattlegroundAssumption
<1>5. \A b \in Bgs : bgId[p] = b => ~Queued(p, QueueOf[b])
  BY <1>4, DestinationLeftQueue
<1>6. ASSUME NEW b \in Bgs, NEW m \in Players
      PROVE  SeatGivenUp(b, m)
  <2>1. CASE m # p
    BY <1>2, <1>3, <1>4, <2>1 DEF SeatGivenUp, SeatOf, Queued
  <2>2. CASE m = p /\ b = g.bg
    <3>1. SeatOf(b, p) = g.team
      BY <1>1, <1>5, <2>2 DEF SeatOf
    <3>2. SeatOf(b, p)' = g.team
      BY <1>2, <2>2 DEF SeatOf
    <3> QED BY <2>2, <3>1, <3>2 DEF SeatGivenUp
  <2>3. CASE m = p /\ b # g.bg
    BY <1>2, <1>3, <1>4, <1>5, <2>3 DEF SeatGivenUp, SeatOf, Queued
  <2> QED BY <2>1, <2>2, <2>3
<1>7. \A b \in Bgs : PhaseOf(b)' = PhaseOf(b)
  BY <1>2 DEF PhaseOf
<1> QED BY <1>6, <1>7, Releases DEF Reservation!Next

\* A queue update gives places in instances that are open or that it makes.
LEMMA RefinedUpdate ==
  ASSUME Sound, Sound', ~OTeamMatches, NEW q \in Queues, NEW nb \in Bgs \cup {NoBg},
         NEW s \in Stamps, NEW stray, NEW side \in [WaitingGroups(q) -> Teams], NEW to,
         QueueUpdate(q, to, side, stray, nb, s)
  PROVE  Reservation!Next
<1>1. \A b \in Bgs : b # NoBg /\ QueueOf[b] \in Queues
  BY QueueAssumption, BattlegroundAssumption DEF QueueAssumption, BattlegroundAssumption
<1>2. bgId' = bgId /\ bgTeam' = bgTeam
  BY DEF QueueUpdate
<1>3. \A m \in Players, r \in Queues :
        group'[r][m] = group[r][m] \/ (r = q /\ Waiting(m, q))
  BY DEF QueueUpdate, InviteSelected, Sound, TypeOK, QueueTypeOK
<1>4. ASSUME NEW b \in Bgs, NEW m \in Players, SeatOf(b, m) # NoTeam
      PROVE  SeatOf(b, m)' = SeatOf(b, m)
  <2>1. CASE bgId[m] = b
    BY <1>2, <2>1 DEF SeatOf
  <2>2. CASE bgId[m] # b
    <3>1. Queued(m, QueueOf[b]) /\ group[QueueOf[b]][m].bg = b
      BY <1>4, <2>2 DEF SeatOf
    <3>2. ~(QueueOf[b] = q /\ Waiting(m, q))
      BY <1>1, <3>1 DEF Waiting
    <3>3. group'[QueueOf[b]][m] = group[QueueOf[b]][m]
      BY <1>1, <1>3, <3>2
    <3> QED BY <1>2, <3>3 DEF SeatOf, Queued
  <2> QED BY <2>1, <2>2
<1>5. ASSUME NEW b \in Bgs, b # nb, b \notin ToppedUp(q), NEW m \in Players
      PROVE  SeatOf(b, m)' = SeatOf(b, m)
  <2>1. CASE ~(QueueOf[b] = q /\ Waiting(m, q))
    <3>1. group'[QueueOf[b]][m] = group[QueueOf[b]][m]
      BY <1>1, <1>3, <2>1
    <3> QED BY <1>2, <3>1 DEF SeatOf, Queued
  <2>2. CASE QueueOf[b] = q /\ Waiting(m, q)
    <3>1. /\ group[q][m] \in GroupInfo /\ group[q][m].bg = NoBg
          /\ group[q][m].id \in WaitingGroups(q)
      BY <2>2 DEF Waiting, Queued, WaitingGroups, Sound, TypeOK, QueueTypeOK
    <3>2. to[group[q][m].id] # b
      BY <1>1, <1>5, <3>1 DEF QueueUpdate, Matching
    <3>3. group'[q][m] =
            IF to[group[q][m].id] = NoBg THEN [group[q][m] EXCEPT !.team = side[group[q][m].id]]
            ELSE [group[q][m] EXCEPT !.team = side[group[q][m].id],
                                     !.bg = to[group[q][m].id], !.stamp = s]
      BY <2>2 DEF QueueUpdate, InviteSelected, Sound, TypeOK, QueueTypeOK
    <3>4. group'[q][m].bg # b
      BY <1>1, <3>1, <3>2, <3>3 DEF GroupInfo
    <3> QED BY <1>1, <1>2, <2>2, <3>1, <3>4 DEF SeatOf
  <2> QED BY <2>1, <2>2
<1>6. \A b \in Bgs : status'[b] = IF b = nb THEN "wait_join" ELSE status[b]
  BY DEF QueueUpdate
<1>7. \A b \in Bgs : b = nb => status[b] = "none"
  BY <1>1 DEF QueueUpdate, Matching, Exists
<1>8. ASSUME NEW b \in Bgs, status'[b] \in Open
      PROVE  Reservation!Reserve(b)
  <2>1. PhaseOf(b) \in {"none", "open"} /\ PhaseOf(b)' = "open"
    BY <1>6, <1>7, <1>8 DEF PhaseOf, Open
  <2>2. \A t \in Teams : Cardinality({m \in Players : SeatOf(b, m)' = t}) <= MaxPlayersPerTeam
    BY SeatsCounted
  <2> DEFINE seats == [c \in Bgs |-> [m \in Players |-> SeatOf(c, m)]]
  <2>3. \A t \in Teams : Reservation!Taken(seats', b, t) = {m \in Players : SeatOf(b, m)' = t}
    BY DEF Reservation!Taken
  <2>4. \A t \in Teams : Cardinality(Reservation!Taken(seats', b, t)) <= MaxPlayersPerTeam
    BY <2>2, <2>3
  <2>5. \A m \in Players : seats[b][m] # NoTeam => seats'[b][m] = seats[b][m]
    BY <1>4
  <2> DEFINE phases == [c \in Bgs |-> PhaseOf(c)]
  <2>6. phases[b] \in {"none", "open"} /\ phases'[b] = "open"
    BY <2>1
  \* Cardinality inside the instance is a definition of its own.
  <2>7. \A t \in Teams : Reservation!Cardinality(Reservation!Taken(seats', b, t)) <= MaxPlayersPerTeam
    BY <2>4 DEF Reservation!Cardinality, Cardinality
  <2> HIDE DEF phases, seats
  <2> QED BY <2>5, <2>6, <2>7 DEF Reservation!Reserve, phases, seats
<1>9. ASSUME NEW b \in Bgs, status'[b] \notin Open
      PROVE  Reservation!Release(b)
  <2>1. b # nb /\ b \notin ToppedUp(q)
    BY <1>6, <1>9 DEF ToppedUp, Open
  <2>2. PhaseOf(b)' = PhaseOf(b)
    BY <1>6, <2>1 DEF PhaseOf
  <2>3. \A m \in Players : SeatGivenUp(b, m)
    BY <1>5, <2>1 DEF SeatGivenUp
  <2> QED BY <2>2, <2>3, Releases
<1> QED BY <1>8, <1>9 DEF Reservation!Next

\* Steps of players and events that give up places at most.
LEMMA RefinedPlayer ==
  ASSUME Sound, TeleportFails = {}, NEW p \in Players,
         \/ Login(p) \/ WorldportAck(p) \/ LeaveBattleground(p) \/ DeserterExpires(p)
         \/ LogoutInside(p) \/ LogoutOutside(p)
         \/ \E q \in Queues : Port(p, q) \/ Jump(p, q) \/ LeaveQueue(p, q)
  PROVE  Reservation!Next
<1>1. CASE Login(p) \/ WorldportAck(p) \/ DeserterExpires(p)
  <2>1. UNCHANGED <<status, group, bgId, bgTeam>>
    BY <1>1 DEF Login, WorldportAck, DeserterExpires, bgVars, queueVars
  <2> QED BY <2>1, AllRelease DEF GivesUp
<1>2. CASE LeaveBattleground(p)
  <2>1. UNCHANGED <<status, group>> /\ OutOfBattleground({p})
    BY <1>2 DEF LeaveBattleground
  <2> QED BY <2>1, AllRelease DEF GivesUp, OutOfBattleground
<1>3. ASSUME LogoutInside(p) \/ LogoutOutside(p) \/ \E q \in Queues : LeaveQueue(p, q)
      PROVE  Reservation!Next
  <2>1. PICK Q : RemovePlayer(p, Q)
    BY <1>3 DEF LogoutInside, LogoutOutside, LeaveQueue
  <2>2. \A m \in Players, r \in Queues : group'[r][m] \in {group[r][m], NoGroup}
    BY <2>1 DEF RemovePlayer, Sound, TypeOK, QueueTypeOK
  <2>3. /\ status' = status
        /\ OutOfBattleground({p}) \/ (bgId' = bgId /\ bgTeam' = bgTeam)
    BY <1>3 DEF LogoutInside, LogoutOutside, LeaveQueue
  <2> QED BY <2>2, <2>3, AllRelease DEF GivesUp, OutOfBattleground
<1> QED BY <1>1, <1>2, <1>3, RefinedPort

LEMMA RefinedQueue ==
  ASSUME Sound, Sound', ~OTeamMatches, TeleportFails = {}, NEW q \in Queues,
         Join(q) \/ UpdateQueue(q) \/ (\E e \in removeEvents[q] : RemoveEvent(q, e))
  PROVE  Reservation!Next
<1>1. CASE Join(q)
  <2>1. CASE \E S \in SUBSET Players : \E leader \in S : JoinRefused(leader, S, q)
    <3>1. UNCHANGED <<status, group, bgId, bgTeam>>
      BY <2>1 DEF JoinRefused, bgVars, playerVars
    <3> QED BY <3>1, AllRelease DEF GivesUp
  <2>2. CASE \E S \in SUBSET Players : \E leader \in S : \E g \in Groups :
               JoinQueue(leader, S, q, g)
    BY <2>2, RefinedJoin
  <2> QED BY <1>1, <2>1, <2>2 DEF Join
<1>2. CASE UpdateQueue(q)
  BY <1>2, RefinedUpdate DEF UpdateQueue
<1>3. ASSUME NEW e \in removeEvents[q], RemoveEvent(q, e)
      PROVE  Reservation!Next
  <2>1. UNCHANGED <<status, bgId, bgTeam>>
    BY <1>3 DEF RemoveEvent
  <2>2. group' = group \/ RemovePlayer(e.player, {q})
    BY <1>3 DEF RemoveEvent
  <2>3. \A m \in Players, r \in Queues : group'[r][m] \in {group[r][m], NoGroup}
    BY <2>2 DEF RemovePlayer, Sound, TypeOK, QueueTypeOK
  <2> QED BY <2>1, <2>3, AllRelease DEF GivesUp
<1> QED BY <1>1, <1>2, <1>3

LEMMA RefinedInstance ==
  ASSUME Sound, TeleportFails = {}, NEW b \in Bgs,
         \/ StartBattleground(b) \/ EndBattleground(b) \/ DeleteBattleground(b)
         \/ ProcessLeave(b) \/ ProcessOfflineQueue(b)
  PROVE  Reservation!Next
<1>1. CASE ProcessLeave(b) \/ ProcessOfflineQueue(b)
  <2>1. PICK S : Expel(S, b)
    BY <1>1 DEF ProcessLeave, ProcessOfflineQueue
  <2>2. UNCHANGED <<status, group>> /\ OutOfBattleground(S)
    BY <2>1 DEF Expel
  <2> QED BY <2>2, AllRelease DEF GivesUp, OutOfBattleground
<1>2. CASE StartBattleground(b) \/ EndBattleground(b) \/ DeleteBattleground(b)
  <2>1. UNCHANGED <<group, bgId, bgTeam>>
    BY <1>2 DEF StartBattleground, EndBattleground, DeleteBattleground, queueVars, playerVars
  <2>2. \A d \in Bgs, m \in Players : SeatOf(d, m)' = SeatOf(d, m)
    BY <2>1 DEF SeatOf, Queued
  <2>3. \A d \in Bgs : d # b => status'[d] = status[d]
    BY <1>2 DEF StartBattleground, Start, EndBattleground, End, DeleteBattleground, Delete,
                Sound, TypeOK, BgTypeOK
  <2>4. ASSUME NEW d \in Bgs, d # b
        PROVE  Reservation!Release(d)
    <3>1. PhaseOf(d)' = PhaseOf(d)
      BY <2>3, <2>4 DEF PhaseOf
    <3> QED BY <2>2, <3>1, Releases DEF SeatGivenUp
  <2>5. CASE StartBattleground(b)
    <3>1. status[b] = "wait_join" /\ status'[b] = "in_progress"
      BY <2>5 DEF StartBattleground, Start, Sound, TypeOK, BgTypeOK
    <3>2. PhaseOf(b)' = PhaseOf(b)
      BY <3>1 DEF PhaseOf, Open
    <3>3. Reservation!Release(b)
      BY <2>2, <3>2, Releases DEF SeatGivenUp
    <3> QED BY <2>4, <3>3 DEF Reservation!Next
  <2>6. CASE EndBattleground(b)
    <3>1. status[b] \in Open /\ status'[b] = "wait_leave"
      BY <2>6 DEF EndBattleground, End, Sound, TypeOK, BgTypeOK
    <3>2. PhaseOf(b) = "open" /\ PhaseOf(b)' = "over"
      BY <3>1 DEF PhaseOf, Open
    <3>3. Reservation!Finish(b)
      BY <2>2, <3>2 DEF Reservation!Finish
    <3> QED BY <2>4, <3>3 DEF Reservation!Next
  <2>7. CASE DeleteBattleground(b)
    <3>1. status[b] # "none" /\ status'[b] = "none" /\ status[b] \in Statuses
      BY <2>7 DEF DeleteBattleground, Delete, Exists, Sound, TypeOK, BgTypeOK
    <3>2. PhaseOf(b) # "none" /\ PhaseOf(b)' = "none"
      BY <3>1 DEF PhaseOf, Open, Statuses
    <3>3. \A m \in Players : SeatOf(b, m) = NoTeam
      <4> SUFFICES ASSUME NEW m \in Players, SeatOf(b, m) # NoTeam
                   PROVE  FALSE
        OBVIOUS
      <4>1. QueueOf[b] \in Queues /\ b # NoBg
        BY QueueAssumption, BattlegroundAssumption DEF QueueAssumption, BattlegroundAssumption
      <4>2. \E t \in Teams : m \in Going(b, t) \/ m \in InvitedTo(b, t)
        BY <4>1 DEF SeatOf, Going, InvitedTo, Queued, GroupInfo, Sound, PlacesInv, Footing,
                    SideKnown, TypeOK, QueueTypeOK
      <4>3. PICK t \in Teams : m \in Going(b, t) \/ m \in InvitedTo(b, t)
        BY <4>2
      <4>4. Going(b, t) = {} /\ InvitedTo(b, t) = {}
        <5>1. invitedCount[b][t] = 0 /\ invitedCount[b][t] >= Places(b, t)
          BY <2>7 DEF DeleteBattleground, Delete, Sound, PlacesInv, NoPlaceForgotten
        <5>2. Cardinality(Going(b, t)) = 0 /\ Cardinality(InvitedTo(b, t)) = 0
          BY <5>1, PlacesAreNatural DEF Places
        <5>3. IsFiniteSet(Going(b, t)) /\ IsFiniteSet(InvitedTo(b, t))
          BY PlayersFinite DEF Going, InvitedTo
        <5> QED BY <5>2, <5>3, FS_EmptySet
      <4> QED BY <4>3, <4>4
    <3>4. Reservation!Close(b)
      BY <2>2, <3>2, <3>3 DEF Reservation!Close
    <3> QED BY <2>4, <3>4 DEF Reservation!Next
  <2> QED BY <1>2, <2>5, <2>6, <2>7
<1> QED BY <1>1, <1>2

LEMMA RefinedStep ==
  ASSUME Sound, Sound', ~OTeamMatches, TeleportFails = {}, [Next]_vars
  PROVE  [Reservation!Next]_(Reservation!seatVars)
<1>1. CASE Next
  BY <1>1, RefinedPlayer, RefinedQueue, RefinedInstance DEF Next
<1>2. CASE UNCHANGED vars
  <2>1. UNCHANGED <<status, group, bgId, bgTeam>>
    BY <1>2 DEF vars
  <2> QED BY <2>1, AllRelease DEF GivesUp
<1> QED BY <1>1, <1>2

LEMMA RefinedInit == Init => Reservation!Init
<1> SUFFICES ASSUME Init PROVE Reservation!Init
  OBVIOUS
<1>1. \A b \in Bgs, m \in Players : SeatOf(b, m) = NoTeam
  BY QueueAssumption, BattlegroundAssumption
     DEF Init, QueueInit, SeatOf, Queued, QueueAssumption, BattlegroundAssumption
<1>2. \A b \in Bgs : PhaseOf(b) = "none"
  <2>1. \A b \in Bgs : status[b] = "none"
    BY DEF Init, BgInit
  <2> QED BY <2>1 DEF PhaseOf, Open
<1> QED BY <1>1, <1>2 DEF Reservation!Init

(***************************************************************************)
(* However handlers, events and updates are ordered, the battleground      *)
(* system gives, keeps and takes back places as SeatReservation promises,  *)
(* if TeleportTo refuses nobody and OTeam does not read as a faction.      *)
(***************************************************************************)
THEOREM SeatsAreReserved ==
  ASSUME ~OTeamMatches, TeleportFails = {}
  PROVE  Spec => ReservationSpec
<1>1. ASSUME Sound, Sound', [Next]_vars
      PROVE  [Reservation!Next]_(Reservation!seatVars)
  BY <1>1, RefinedStep
<1>2. TypeOK /\ Agreement /\ PlacesInv /\ CapacityRespected => Sound
  BY DEF Sound
<1> QED BY <1>1, <1>2, RefinedInit, TypeCorrect, AgreementInvariant, PlacesInvariant,
           CapacityHolds, PTL DEF Spec, ReservationSpec, Reservation!Spec

=============================================================================
