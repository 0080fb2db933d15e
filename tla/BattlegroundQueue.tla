-------------------------- MODULE BattlegroundQueue --------------------------
(***************************************************************************)
(* The waiting queues of BattlegroundQueue.h and BattlegroundQueue.cpp, as *)
(* they work with cross-faction battlegrounds enabled, the default of      *)
(* World::LoadConfigSettings.  A queue is a queue type in one level        *)
(* bracket.                                                                *)
(*                                                                         *)
(* A queue holds groups (GroupQueueInfo); a solo player is a group of one. *)
(* Every member carries a copy of the group's fields, so a group exists    *)
(* exactly as long as some member is left in it: RemovePlayer deletes a    *)
(* group when its last member is erased.                                   *)
(*                                                                         *)
(* Inviting a group schedules, for each member, an event that takes the    *)
(* member out of the queue if the invitation is still unanswered when it   *)
(* fires.  The event recognises its own invitation by the instance and by  *)
(* RemoveInviteTime.  Times are abstracted to stamps: the world loop keeps *)
(* its ticks WORLD_SLEEP_CONST apart, so two queue updates never give the  *)
(* same time to two invitations whose events are pending together.         *)
(*                                                                         *)
(* The order in which groups wait is left out here, and with it the choice *)
(* of the groups that are invited: Matching admits every selection that    *)
(* respects the places an instance offers.  CrossfactionQueue models the   *)
(* choice itself.                                                          *)
(***************************************************************************)
EXTENDS Battleground

CONSTANTS
  Queues,       \* battleground queue types
  QueueOf,      \* [Bgs -> Queues], the queue type an instance is made for
  Groups,       \* addresses of GroupQueueInfo objects
  NoGroup,      \* a player who waits in no group of the queue
  Stamps,       \* values of RemoveInviteTime; bounds the updates with pending events
  NoStamp,      \* RemoveInviteTime of a group nobody has invited
  OTeamMatches  \* may the uninitialised GroupQueueInfo::OTeam read as ALLIANCE?

ASSUME QueueAssumption ==
  /\ QueueOf \in [Bgs -> Queues]
  /\ NoStamp \notin Stamps
  /\ OTeamMatches \in BOOLEAN

GroupInfo == [id: Groups, team: Teams, bg: Bgs \cup {NoBg}, stamp: Stamps \cup {NoStamp}]

ASSUME GroupAssumption == NoGroup \notin GroupInfo

VARIABLES
  group,         \* [Queues -> [Players -> GroupInfo or NoGroup]]  m_QueuedPlayers, m_QueuedGroups
  removeEvents,  \* [Queues -> SUBSET RemoveEvents]  the BGQueueRemoveEvents of m_events
  scheduled      \* SUBSET Queues                    m_QueueUpdateScheduler

queueVars == <<group, removeEvents, scheduled>>

RemoveEvents == [player: Players, bg: Bgs, stamp: Stamps]

QueueTypeOK ==
  /\ group \in [Queues -> [Players -> GroupInfo \cup {NoGroup}]]
  /\ removeEvents \in [Queues -> SUBSET RemoveEvents]
  /\ scheduled \in SUBSET Queues

QueueInit ==
  /\ group = [q \in Queues |-> [p \in Players |-> NoGroup]]
  /\ removeEvents = [q \in Queues |-> {}]
  /\ scheduled = {}

-----------------------------------------------------------------------------
Queued(p, q)  == group[q][p] # NoGroup
Waiting(p, q) == Queued(p, q) /\ group[q][p].bg = NoBg
Invited(p, q) == Queued(p, q) /\ group[q][p].bg # NoBg

WaitingGroups(q) == {group[q][p].id : p \in {m \in Players : Waiting(m, q)}}

\* No GroupQueueInfo lives at this address.
Unused(g) == \A q \in Queues, p \in Players : Queued(p, q) => group[q][p].id # g

\* Slip: RemoveInviteTime is not compared.
IsPlayerInvitedTo(p, q, b, s) == Queued(p, q) /\ group[q][p].bg = b

\* The player is in the queue and invited to this instance by this invitation.
IsPlayerInvited(p, q, b, s) ==
  Queued(p, q) /\ group[q][p].bg = b /\ group[q][p].stamp = s

\* AddGroup: a new group with these members; nobody has invited it yet.
AddGroup(S, q, g, t) ==
  group' = [group EXCEPT ![q] =
              [p \in Players |->
                 IF p \in S THEN [id |-> g, team |-> t, bg |-> NoBg, stamp |-> NoStamp]
                            ELSE @[p]]]

\* RemovePlayer of p from the queues of Q.
RemovePlayer(p, Q) ==
  group' = [q \in Queues |-> IF q \in Q THEN [group[q] EXCEPT ![p] = NoGroup] ELSE group[q]]

\* What RemovePlayer takes off a counter when it is told to decrease it: the
\* place of p if it is invited to b from a queue of Q, on side t.
GivenBack(p, Q, b, t) ==
  LET q == QueueOf[b]
  IN  IF q \in Q /\ Queued(p, q) /\ group[q][p].bg = b /\ group[q][p].team = t /\ Exists(b)
      THEN 1 ELSE 0

\* Slip: decreaseInvitedCount is passed as false.
InvitedKeptAfterRemove(c, p, Q) == c

InvitedAfterRemove(c, p, Q) ==
  [b \in Bgs |-> [t \in Teams |-> c[b][t] - GivenBack(p, Q, b, t)]]

-----------------------------------------------------------------------------
(***************************************************************************)
(* A queue update selects groups.  A selection sends each waiting group to *)
(* an instance (or nowhere: NoBg) and gives it a side.  The group is taken *)
(* by the selection pool of its side.  Only PreAddPlayers, filling a new   *)
(* instance, goes by OTeam, which no code writes: a stray group sits in    *)
(* the pool of the other side, and its side stays what it was.             *)
(***************************************************************************)

Selected(q, to, side, b, t) ==
  {p \in Players : Waiting(p, q) /\ to[group[q][p].id] = b /\ side[group[q][p].id] = t}

Pool(q, to, side, stray, b, t) ==
  {p \in Players : /\ Waiting(p, q)
                   /\ to[group[q][p].id] = b
                   /\ (side[group[q][p].id] = t) <=> (group[q][p].id \notin stray)}

Strays(q) == IF OTeamMatches THEN SUBSET WaitingGroups(q) ELSE {{}}

MayStray(q, to, side, stray, nb) ==
  \A p \in Players : Waiting(p, q) /\ group[q][p].id \in stray =>
    nb # NoBg /\ to[group[q][p].id] = nb /\ side[group[q][p].id] = group[q][p].team

\* The instances the update tops up: listed with free slots and still open.
ToppedUp(q) == {b \in Bgs : QueueOf[b] = q /\ inFreeSlotQueue[b] /\ status[b] \in Open}

\* Pools stay within the free slots of a running instance; the one new
\* instance nb gets pools between the minimum and the maximum.
Matching(q, to, side, stray, nb) ==
  /\ \A g \in WaitingGroups(q) : to[g] \in {NoBg, nb} \cup ToppedUp(q)
  /\ MayStray(q, to, side, stray, nb)
  /\ \A b \in ToppedUp(q), t \in Teams :
       Cardinality(Pool(q, to, side, stray, b, t)) <= GetFreeSlotsForTeam(b, t)
  /\ nb # NoBg =>
       /\ QueueOf[nb] = q
       /\ ~Exists(nb)
       /\ \A t \in Teams :
            /\ Cardinality(Pool(q, to, side, stray, nb, t)) >= MinPlayersPerTeam
            /\ Cardinality(Pool(q, to, side, stray, nb, t)) <= MaxPlayersPerTeam

\* A stamp no pending event of the queue carries.
Fresh(q, s) == \A e \in removeEvents[q] : e.stamp # s

\* FillXPlayersToBG sets the side of every group it looks at, InviteGroupToBG
\* the instance and the time of those that were selected.
InviteSelected(q, to, side, s) ==
  group' = [group EXCEPT ![q] =
     [p \in Players |->
        LET g == group[q][p].id
        IN  IF ~Waiting(p, q) THEN group[q][p]
            ELSE IF to[g] = NoBg THEN [group[q][p] EXCEPT !.team = side[g]]
            ELSE [group[q][p] EXCEPT !.team = side[g], !.bg = to[g], !.stamp = s]]]

\* The members of selected groups who are connected; the others are skipped.
Reached(q, to, on) == {p \in Players : Waiting(p, q) /\ to[group[q][p].id] # NoBg /\ on[p]}
=============================================================================
