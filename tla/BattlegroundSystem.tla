------------------------- MODULE BattlegroundSystem -------------------------
(***************************************************************************)
(* Characters, queues and battleground instances together: the opcode      *)
(* handlers of BattleGroundHandler.cpp, the end of a far teleport          *)
(* (MovementHandler.cpp), logging out (WorldSession.cpp) and the periodic  *)
(* work of BattlegroundMgr::Update.                                        *)
(*                                                                         *)
(* World::Update runs the sessions' handlers and BattlegroundMgr::Update   *)
(* one after the other in one thread, so a handler is one step; what       *)
(* interleaves is the order of handlers, timers and client answers.        *)
(*                                                                         *)
(* A place in an instance is taken when a player is invited and is held by *)
(* the queue entry, then by a player on the way (a far teleport that the   *)
(* client has not acknowledged), then by a player inside.  Every way out   *)
(* of each of the three must give the place back exactly once.             *)
(***************************************************************************)
EXTENDS BattlegroundQueue

CONSTANTS
  Faction,         \* [Players -> Teams]  m_team
  NoSlot,          \* BATTLEGROUND_QUEUE_NONE
  MaxQueues,       \* PLAYER_MAX_BATTLEGROUND_QUEUES
  MaxPartySize,    \* BattlemasterListEntry::maxGroupSize
  TeleportFails,   \* players TeleportTo may refuse to send (map disabled, 609 check, ...)
  MaxOfflineQueue  \* bound: entries in all offline queues together

ASSUME SystemAssumption ==
  /\ Faction \in [Players -> Teams]
  /\ NoSlot \notin Bgs \cup {NoBg}
  /\ MaxQueues \in Nat
  /\ MaxPartySize \in Nat
  /\ TeleportFails \subseteq Players
  /\ MaxOfflineQueue \in Nat

VARIABLES
  online,     \* [Players -> BOOLEAN]             a connected Player object exists
  queueSlot,  \* [Players -> [Queues -> Bgs, NoBg or NoSlot]] m_bgBattlegroundQueueID: the
              \*                                  instance invited to, NoBg while waiting
  bgId,       \* [Players -> Bgs or NoBg]         m_bgData.bgInstanceID
  bgTeam,     \* [Players -> Teams or NoTeam]     m_bgData.bgTeam
  porting,    \* [Players -> BOOLEAN]             far teleport into bgId not acknowledged yet
  deserter    \* [Players -> BOOLEAN]             aura 26013

playerVars == <<online, queueSlot, bgId, bgTeam, porting, deserter>>
vars == <<status, invitedCount, members, playersCount, offlineQueue, inFreeSlotQueue,
          group, removeEvents, scheduled,
          online, queueSlot, bgId, bgTeam, porting, deserter>>

PlayerTypeOK ==
  /\ online \in [Players -> BOOLEAN]
  /\ queueSlot \in [Players -> [Queues -> Bgs \cup {NoBg, NoSlot}]]
  /\ bgId \in [Players -> Bgs \cup {NoBg}]
  /\ bgTeam \in [Players -> Teams \cup {NoTeam}]
  /\ porting \in [Players -> BOOLEAN]
  /\ deserter \in [Players -> BOOLEAN]

(***************************************************************************)
(* Every variable has its type.                                            *)
(***************************************************************************)
TypeOK == BgTypeOK /\ QueueTypeOK /\ PlayerTypeOK

Init ==
  /\ BgInit
  /\ QueueInit
  /\ online = [p \in Players |-> FALSE]
  /\ queueSlot = [p \in Players |-> [q \in Queues |-> NoSlot]]
  /\ bgId = [p \in Players |-> NoBg]
  /\ bgTeam = [p \in Players |-> NoTeam]
  /\ porting = [p \in Players |-> FALSE]
  /\ deserter = [p \in Players |-> FALSE]

-----------------------------------------------------------------------------
\* In the world: opcodes of a player who is being teleported are dropped.
InWorld(p) == online[p] /\ ~porting[p]

HasSlot(p, q)           == queueSlot[p][q] # NoSlot
QueuesOf(p)             == {q \in Queues : HasSlot(p, q)}
InBattlegroundQueue(p)  == QueuesOf(p) # {}
IsInvitedForInstance(p, b) == \E q \in Queues : queueSlot[p][q] = b

\* GetBattleground() finds an object.
InBattleground(p) == bgId[p] # NoBg /\ Exists(bgId[p])

\* Slip: the faction of the character.
GetOTeam(p) == Faction[p]

GetTeam(p) == IF bgTeam[p] # NoTeam /\ InBattleground(p) THEN bgTeam[p] ELSE Faction[p]

\* Slips: RemoveBattlegroundQueueId or ScheduleQueueUpdate forgotten.
SlotsKeptAfterLeave(S, b) == queueSlot
NotScheduledAfterLeave(S, b) == scheduled

\* RemovePlayerAtLeave for the players of S, as far as the Player objects and
\* the scheduler go: participants lose the queue slot of the instance, and an
\* instance that is not ending asks for a queue update.
SlotsAfterLeave(S, b) ==
  [p \in Players |-> IF p \in S \cap Inside(b)
                     THEN [queueSlot[p] EXCEPT ![QueueOf[b]] = NoSlot] ELSE queueSlot[p]]
ScheduledAfterLeave(S, b) ==
  IF S \cap Inside(b) # {} /\ status[b] \in Open THEN scheduled \cup {QueueOf[b]} ELSE scheduled
OutOfBattleground(S) ==
  /\ bgId' = [p \in Players |-> IF p \in S THEN NoBg ELSE bgId[p]]
  /\ bgTeam' = [p \in Players |-> IF p \in S THEN NoTeam ELSE bgTeam[p]]

-----------------------------------------------------------------------------
(***************************************************************************)
(* Waiting in a queue.                                                     *)
(***************************************************************************)

Login(p) ==
  /\ ~online[p]
  /\ online' = [online EXCEPT ![p] = TRUE]
  /\ UNCHANGED <<bgVars, queueVars, queueSlot, bgId, bgTeam, porting, deserter>>

\* HandleBattlemasterJoinOpcode up to the point where only the leader is checked.
MayAskToJoin(p) == InWorld(p) /\ ~deserter[p] /\ bgId[p] = NoBg /\ ~InBattlegroundQueue(p)

\* Group::CanJoinBattlegroundQueue, for one member.
CanJoin(p, q) ==
  InWorld(p) /\ ~deserter[p] /\ ~HasSlot(p, q) /\ Cardinality(QueuesOf(p)) < MaxQueues

\* HandleBattlemasterJoinOpcode: alone or as the leader of party S.  When the
\* party may not join, the queue update is scheduled all the same.
JoinQueue(leader, S, q, g) ==
  /\ MayAskToJoin(leader)
  /\ leader \in S
  /\ Cardinality(S) <= MaxPartySize
  /\ \A p \in S : CanJoin(p, q)
  /\ Unused(g)
  /\ AddGroup(S, q, g, GetTeam(leader))
  /\ queueSlot' = [p \in Players |-> IF p \in S THEN [queueSlot[p] EXCEPT ![q] = NoBg]
                                                ELSE queueSlot[p]]
  /\ scheduled' = scheduled \cup {q}
  /\ UNCHANGED <<bgVars, removeEvents, online, bgId, bgTeam, porting, deserter>>

JoinRefused(leader, S, q) ==
  /\ MayAskToJoin(leader)
  /\ leader \in S
  /\ \E p \in S : ~CanJoin(p, q)
  /\ scheduled' = scheduled \cup {q}
  /\ UNCHANGED <<bgVars, group, removeEvents, playerVars>>

\* BattlegroundQueueUpdate, for a queue taken from m_QueueUpdateScheduler.
\* Nothing is looked at when the queue is empty.
QueueUpdate(q, to, side, stray, nb, s) ==
  /\ q \in scheduled
  /\ scheduled' = scheduled \ {q}
  /\ Matching(q, to, side, stray, nb)
  /\ Fresh(q, s)
  /\ InviteSelected(q, to, side, s)
  /\ invitedCount' = [b \in Bgs |-> [t \in Teams |-> invitedCount[b][t] +
                        Cardinality(Selected(q, to, side, b, t) \cap Reached(q, to, online))]]
  /\ queueSlot' = [p \in Players |-> IF p \in Reached(q, to, online)
                      THEN [queueSlot[p] EXCEPT ![q] = to[group[q][p].id]] ELSE queueSlot[p]]
  /\ removeEvents' = [removeEvents EXCEPT ![q] = @ \cup
                        {[player |-> p, bg |-> to[group[q][p].id], stamp |-> s] :
                           p \in Reached(q, to, online)}]
  /\ status' = [b \in Bgs |-> IF b = nb THEN "wait_join" ELSE status[b]]
  /\ inFreeSlotQueue' =
       [b \in Bgs |-> IF b = nb THEN TRUE
                      ELSE IF b \in ToppedUp(q) /\ (\E p \in Players : Queued(p, q))
                      THEN HasFreeSlots(b) ELSE inFreeSlotQueue[b]]
  /\ UNCHANGED <<members, playersCount, offlineQueue, online, bgId, bgTeam, porting, deserter>>

\* HandleBattleFieldPortOpcode with action 0: the player leaves the queue.  A
\* deserter who clicks "enter" is treated the same way.
LeaveQueue(p, q) ==
  /\ InWorld(p)
  /\ InBattlegroundQueue(p)
  /\ Queued(p, q)
  /\ queueSlot' = [queueSlot EXCEPT ![p][q] = NoSlot]
  /\ RemovePlayer(p, {q})
  /\ invitedCount' = InvitedAfterRemove(invitedCount, p, {q})
  /\ scheduled' = scheduled \cup {q}
  /\ UNCHANGED <<status, members, playersCount, offlineQueue, inFreeSlotQueue, removeEvents,
                 online, bgId, bgTeam, porting, deserter>>

\* Slip: nothing is removed once the instance is over.
RemoveEventWhileOpen(q, e) ==
  /\ e \in removeEvents[q]
  /\ removeEvents' = [removeEvents EXCEPT ![q] = @ \ {e}]
  /\ IF /\ online[e.player] /\ HasSlot(e.player, q)
        /\ IsPlayerInvited(e.player, q, e.bg, e.stamp) /\ status[e.bg] \in Open
     THEN /\ queueSlot' = [queueSlot EXCEPT ![e.player][q] = NoSlot]
          /\ RemovePlayer(e.player, {q})
          /\ invitedCount' = InvitedAfterRemove(invitedCount, e.player, {q})
          /\ scheduled' = scheduled \cup {q}
     ELSE UNCHANGED <<queueSlot, group, invitedCount, scheduled>>
  /\ UNCHANGED <<status, members, playersCount, offlineQueue, inFreeSlotQueue,
                 online, bgId, bgTeam, porting, deserter>>

\* BGQueueRemoveEvent::Execute.
RemoveEvent(q, e) ==
  /\ e \in removeEvents[q]
  /\ removeEvents' = [removeEvents EXCEPT ![q] = @ \ {e}]
  /\ IF online[e.player] /\ HasSlot(e.player, q) /\ IsPlayerInvited(e.player, q, e.bg, e.stamp)
     THEN /\ queueSlot' = [queueSlot EXCEPT ![e.player][q] = NoSlot]
          /\ RemovePlayer(e.player, {q})
          /\ invitedCount' = InvitedAfterRemove(invitedCount, e.player, {q})
          /\ scheduled' = IF status[e.bg] \in Open THEN scheduled \cup {q} ELSE scheduled
     ELSE UNCHANGED <<queueSlot, group, invitedCount, scheduled>>
  /\ UNCHANGED <<status, members, playersCount, offlineQueue, inFreeSlotQueue,
                 online, bgId, bgTeam, porting, deserter>>

-----------------------------------------------------------------------------
(***************************************************************************)
(* Entering an instance and leaving it.                                    *)
(***************************************************************************)

\* HandleBattleFieldPortOpcode with action 1, up to the removal from the queue.
MayEnter(p, q) ==
  /\ InWorld(p)
  /\ Invited(p, q)
  /\ Exists(group[q][p].bg)
  /\ ~deserter[p]
  /\ queueSlot[p][q] \notin {NoSlot, NoBg}

\* SendToBattleground: TeleportTo may return without sending the player.
Teleport(p) ==
  \E sent \in (IF p \in TeleportFails THEN BOOLEAN ELSE {TRUE}) :
    porting' = [porting EXCEPT ![p] = sent]

\* Slips: RemovePlayer told to decrease the counter; the destination side taken
\* from the character instead of the invitation.
PortDecreasing(p, q) ==
  /\ MayEnter(p, q)
  /\ ~InBattleground(p)
  /\ RemovePlayer(p, {q})
  /\ invitedCount' = InvitedAfterRemove(invitedCount, p, {q})
  /\ bgId' = [bgId EXCEPT ![p] = group[q][p].bg]
  /\ bgTeam' = [bgTeam EXCEPT ![p] = group[q][p].team]
  /\ Teleport(p)
  /\ UNCHANGED <<status, members, playersCount, offlineQueue, inFreeSlotQueue,
                 removeEvents, scheduled, online, queueSlot, deserter>>
PortWithFaction(p, q) ==
  /\ MayEnter(p, q)
  /\ ~InBattleground(p)
  /\ RemovePlayer(p, {q})
  /\ bgId' = [bgId EXCEPT ![p] = group[q][p].bg]
  /\ bgTeam' = [bgTeam EXCEPT ![p] = Faction[p]]
  /\ Teleport(p)
  /\ UNCHANGED <<bgVars, removeEvents, scheduled, online, queueSlot, deserter>>

\* Entering from outside any instance.
Port(p, q) ==
  /\ MayEnter(p, q)
  /\ ~InBattleground(p)
  /\ RemovePlayer(p, {q})
  /\ bgId' = [bgId EXCEPT ![p] = group[q][p].bg]
  /\ bgTeam' = [bgTeam EXCEPT ![p] = group[q][p].team]
  /\ Teleport(p)
  /\ UNCHANGED <<bgVars, removeEvents, scheduled, online, queueSlot, deserter>>

\* Entering from another instance, which the player leaves without a penalty.
Jump(p, q) ==
  LET old == bgId[p]
  IN  /\ MayEnter(p, q)
      /\ InBattleground(p)
      /\ RemovePlayer(p, {q})
      /\ RemovePlayersAtLeave({p}, old)
      /\ invitedCount' = InvitedAfterLeave(invitedCount, {p}, old)
      /\ queueSlot' = SlotsAfterLeave({p}, old)
      /\ scheduled' = ScheduledAfterLeave({p}, old)
      /\ bgId' = [bgId EXCEPT ![p] = group[q][p].bg]
      /\ bgTeam' = [bgTeam EXCEPT ![p] = group[q][p].team]
      /\ Teleport(p)
      /\ UNCHANGED <<status, offlineQueue, removeEvents, online, deserter>>

\* HandleMoveWorldportAckOpcode: the client has loaded the map.
WorldportAck(p) ==
  /\ porting[p]
  /\ porting' = [porting EXCEPT ![p] = FALSE]
  /\ IF InBattleground(p) /\ IsInvitedForInstance(p, bgId[p])
     THEN AddPlayer(p, bgId[p], GetTeam(p))
     ELSE UNCHANGED <<members, playersCount>>
  /\ UNCHANGED <<status, invitedCount, offlineQueue, inFreeSlotQueue, queueVars,
                 online, queueSlot, bgId, bgTeam, deserter>>

\* Player::LeaveBattleground: the leave button, an AFK report, a teleport out.
LeaveBattleground(p) ==
  LET b == bgId[p]
  IN  /\ InWorld(p)
      /\ InBattleground(p)
      /\ RemovePlayersAtLeave({p}, b)
      /\ invitedCount' = InvitedAfterLeave(invitedCount, {p}, b)
      /\ queueSlot' = SlotsAfterLeave({p}, b)
      /\ scheduled' = ScheduledAfterLeave({p}, b)
      /\ OutOfBattleground({p})
      /\ deserter' = [deserter EXCEPT ![p] = @ \/ status[b] \in Open]
      /\ UNCHANGED <<status, offlineQueue, group, removeEvents, online, porting>>

DeserterExpires(p) ==
  /\ deserter[p]
  /\ deserter' = [deserter EXCEPT ![p] = FALSE]
  /\ UNCHANGED <<bgVars, queueVars, online, queueSlot, bgId, bgTeam, porting>>

OfflineEntries == UNION {{b} \X DOMAIN offlineQueue[b] : b \in Bgs}

\* WorldSession::LogoutPlayer.  A pending far teleport is finished first
\* (WorldportAck).  EventPlayerLoggedOut takes a player who is inside out of the
\* instance; then every queue slot is given up.
LogoutInside(p) ==
  LET b == bgId[p]
      Q == QueuesOf(p) \ {QueueOf[b]}
  IN  /\ InWorld(p)
      /\ InBattleground(p) /\ p \in Inside(b)
      /\ Cardinality(OfflineEntries) < MaxOfflineQueue
      /\ offlineQueue' = [offlineQueue EXCEPT ![b] = Append(@, p)]
      /\ RemovePlayersAtLeave({p}, b)
      /\ RemovePlayer(p, Q)
      /\ invitedCount' = InvitedAfterRemove(InvitedAfterLeave(invitedCount, {p}, b), p, Q)
      /\ scheduled' = ScheduledAfterLeave({p}, b)
      /\ OutOfBattleground({p})
      /\ deserter' = [deserter EXCEPT ![p] = @ \/ status[b] \in Open]
      /\ queueSlot' = [queueSlot EXCEPT ![p] = [q \in Queues |-> NoSlot]]
      /\ online' = [online EXCEPT ![p] = FALSE]
      /\ UNCHANGED <<status, removeEvents, porting>>

LogoutOutside(p) ==
  /\ InWorld(p)
  /\ ~(InBattleground(p) /\ p \in Inside(bgId[p]))
  /\ RemovePlayer(p, QueuesOf(p))
  /\ invitedCount' = InvitedAfterRemove(invitedCount, p, QueuesOf(p))
  /\ queueSlot' = [queueSlot EXCEPT ![p] = [q \in Queues |-> NoSlot]]
  /\ online' = [online EXCEPT ![p] = FALSE]
  /\ UNCHANGED <<status, members, playersCount, offlineQueue, inFreeSlotQueue,
                 removeEvents, scheduled, bgId, bgTeam, porting, deserter>>

-----------------------------------------------------------------------------
(***************************************************************************)
(* Battleground::Update.  Start, End and Delete touch nothing but the      *)
(* instance; the other two remove players.                                 *)
(***************************************************************************)

StartBattleground(b)  == Start(b)  /\ UNCHANGED <<queueVars, playerVars>>
EndBattleground(b)    == End(b)    /\ UNCHANGED <<queueVars, playerVars>>
DeleteBattleground(b) == Delete(b) /\ UNCHANGED <<queueVars, playerVars>>

\* RemovePlayerAtLeave called by the instance itself.
Expel(S, b) ==
  /\ RemovePlayersAtLeave(S, b)
  /\ invitedCount' = InvitedAfterLeave(invitedCount, S, b)
  /\ queueSlot' = SlotsAfterLeave(S, b)
  /\ scheduled' = ScheduledAfterLeave(S, b)
  /\ OutOfBattleground(S)
  /\ UNCHANGED <<status, group, removeEvents, online, porting, deserter>>

\* _ProcessLeave, once m_EndTime has run out: everyone inside.
ProcessLeave(b) ==
  /\ status[b] = "wait_leave"
  /\ Inside(b) # {}
  /\ Expel(Inside(b), b)
  /\ UNCHANGED offlineQueue

\* _ProcessOfflineQueue looks at the first entry only, and drops it only if
\* that player is inside.  OfflineRemoveTime of a player who came in through
\* AddPlayer is 0, so it has always passed.
ProcessOfflineQueue(b) ==
  /\ status[b] = "in_progress"
  /\ offlineQueue[b] # <<>>
  /\ Head(offlineQueue[b]) \in Inside(b)
  /\ Expel({Head(offlineQueue[b])}, b)
  /\ offlineQueue' = [offlineQueue EXCEPT ![b] = Tail(@)]

-----------------------------------------------------------------------------
UpdateQueue(q) ==
  \E nb \in Bgs \cup {NoBg}, s \in Stamps, stray \in Strays(q),
     side \in [WaitingGroups(q) -> Teams] :
    \E to \in [WaitingGroups(q) -> {NoBg, nb} \cup ToppedUp(q)] :
       QueueUpdate(q, to, side, stray, nb, s)

Join(q) ==
  \E S \in SUBSET Players : \E leader \in S :
    JoinRefused(leader, S, q) \/ \E g \in Groups : JoinQueue(leader, S, q, g)

Next ==
  \/ \E p \in Players :
       \/ Login(p) \/ WorldportAck(p) \/ LeaveBattleground(p) \/ DeserterExpires(p)
       \/ LogoutInside(p) \/ LogoutOutside(p)
       \/ \E q \in Queues : Port(p, q) \/ Jump(p, q) \/ LeaveQueue(p, q)
  \/ \E q \in Queues :
       \/ Join(q) \/ UpdateQueue(q)
       \/ \E e \in removeEvents[q] : RemoveEvent(q, e)
  \/ \E b \in Bgs :
       \/ StartBattleground(b) \/ EndBattleground(b) \/ DeleteBattleground(b)
       \/ ProcessLeave(b) \/ ProcessOfflineQueue(b)

Spec == Init /\ [][Next]_vars

\* Timers and the world loop go on, and a client that is loading a map either
\* finishes or disconnects, which finishes the teleport for it.
Fairness ==
  /\ \A q \in Queues, e \in RemoveEvents : WF_vars(RemoveEvent(q, e))
  /\ \A p \in Players : WF_vars(WorldportAck(p))
  /\ \A b \in Bgs : WF_vars(ProcessLeave(b)) /\ WF_vars(DeleteBattleground(b))

FairSpec == Spec /\ Fairness

-----------------------------------------------------------------------------
(***************************************************************************)
(* Who holds a place.                                                      *)
(***************************************************************************)

\* On the way to b or inside, on side t.
Going(b, t) == {p \in Players : bgId[p] = b /\ bgTeam[p] = t}

\* Invited to b and not answered yet.
InvitedTo(b, t) ==
  {p \in Players : /\ Queued(p, QueueOf[b])
                   /\ group[QueueOf[b]][p].bg = b
                   /\ group[QueueOf[b]][p].team = t}

Places(b, t) == Cardinality(Going(b, t)) + Cardinality(InvitedTo(b, t))

(***************************************************************************)
(* m_InvitedAlliance and m_InvitedHorde count exactly the players who hold *)
(* a place: IncreaseInvitedCount is called in InviteGroupToBG,             *)
(* DecreaseInvitedCount in BattlegroundQueue::RemovePlayer and in          *)
(* Battleground::RemovePlayerAtLeave, and every player passes exactly one  *)
(* of the two however he leaves.  The exception is a player whose teleport *)
(* was refused.                                                            *)
(***************************************************************************)
PlacesCounted ==
  TeleportFails = {} => \A b \in Bgs, t \in Teams : invitedCount[b][t] = Places(b, t)

(***************************************************************************)
(* Even when TeleportTo refuses players, the counters never fall below the *)
(* places really held, so no place is given to two players.                *)
(***************************************************************************)
NoPlaceForgotten == \A b \in Bgs, t \in Teams : invitedCount[b][t] >= Places(b, t)

(***************************************************************************)
(* m_PlayersCount follows m_Players through AddPlayer and                  *)
(* RemovePlayerAtLeave, side by side.                                      *)
(***************************************************************************)
PlayersCounted == \A b \in Bgs, t \in Teams : playersCount[b][t] = Cardinality(Side(b, t))

(***************************************************************************)
(* No side of an instance is promised to more than MaxPlayersPerTeam       *)
(* players, through all rounds of filling up free slots                    *)
(* (GetFreeSlotsForTeam, FillXPlayersToBG, CheckCrossFactionMatch),        *)
(* unless OTeam reads as a faction.                                        *)
(***************************************************************************)
CapacityRespected ==
  ~OTeamMatches => \A b \in Bgs, t \in Teams : invitedCount[b][t] <= MaxPlayersPerTeam

(***************************************************************************)
(* "difference based on max players per team (don't allow inviting more)"  *)
(* (GetFreeSlotsForTeam), whatever the uninitialised OTeam reads as.       *)
(***************************************************************************)
CapacityRespectedAlways ==
  \A b \in Bgs, t \in Teams : invitedCount[b][t] <= MaxPlayersPerTeam

(***************************************************************************)
(* Nobody is invited to, on the way to or inside an instance that has been *)
(* deleted: Battleground::Update deletes an instance only when the         *)
(* counters say that no place is held.                                     *)
(***************************************************************************)
NoDanglingInstance ==
  \A p \in Players :
    /\ bgId[p] # NoBg => Exists(bgId[p])
    /\ \A q \in Queues : Invited(p, q) =>
         Exists(group[q][p].bg) /\ QueueOf[group[q][p].bg] = q

(***************************************************************************)
(* The queue slots of a Player and the queues agree: a slot is waiting or  *)
(* invited as the group in the queue is, and a slot whose player is no     *)
(* longer in the queue belongs to the instance he is going to or inside.   *)
(* BattlegroundQueue::RemovePlayer leaves the slot to its callers.         *)
(***************************************************************************)
SlotsAgree ==
  \A p \in Players, q \in Queues :
    /\ Queued(p, q) => online[p] /\ queueSlot[p][q] = group[q][p].bg
    /\ HasSlot(p, q) /\ ~Queued(p, q) /\ p \notin TeleportFails =>
         bgId[p] # NoBg /\ queueSlot[p][q] = bgId[p] /\ QueueOf[bgId[p]] = q

(***************************************************************************)
(* A player is inside at most one instance, the one his Player object      *)
(* names, and on the side he was invited to: HandleBattleFieldPortOpcode   *)
(* sets the destination, AddPlayer reads it when the map has been loaded.  *)
(***************************************************************************)
InsideWhereInvited ==
  \A p \in Players, b \in Bgs :
    p \in Inside(b) => online[p] /\ ~porting[p] /\ bgId[p] = b /\ bgTeam[p] = members[b][p]

(***************************************************************************)
(* An open instance with free slots is on the free-slot list, where the    *)
(* next queue update finds it, and an instance that is over or gone is not *)
(* (AddToBGFreeSlotQueue, RemoveFromBGFreeSlotQueue).                      *)
(***************************************************************************)
FreeSlotsAreListed ==
  \A b \in Bgs :
    /\ status[b] \in Open /\ HasFreeSlots(b) => inFreeSlotQueue[b]
    /\ inFreeSlotQueue[b] => status[b] \in Open

(***************************************************************************)
(* An unanswered invitation has its own BGQueueRemoveEvent pending: no     *)
(* player can sit on a place for ever.                                     *)
(***************************************************************************)
InvitationHasItsTimer ==
  \A p \in Players, q \in Queues : Invited(p, q) =>
    [player |-> p, bg |-> group[q][p].bg, stamp |-> group[q][p].stamp] \in removeEvents[q]

(***************************************************************************)
(* "player left queue and he joined again and he has been invited to same  *)
(* battleground again -> we should not remove him from queue yet"          *)
(* (BGQueueRemoveEvent): as long as the player neither answers nor logs    *)
(* out, an invitation outlives every event but its own.                    *)
(***************************************************************************)
OnlyOwnTimerExpires ==
  [][\A q \in Queues : \A e \in removeEvents[q] \ removeEvents'[q] :
       Invited(e.player, q) /\ ~Queued(e.player, q)' => group[q][e.player].stamp = e.stamp]_vars

(***************************************************************************)
(* A place given back in an open instance makes the queue look again, when *)
(* the player who gave it back is still connected: leaving the queue,      *)
(* letting the invitation expire and leaving the instance all schedule an  *)
(* update of the queue.                                                    *)
(***************************************************************************)
FreedPlaceIsOffered ==
  [][\A b \in Bgs, t \in Teams :
       /\ status[b] \in Open /\ status'[b] \in Open
       /\ invitedCount'[b][t] < invitedCount[b][t]
       /\ online' = online
       => QueueOf[b] \in scheduled']_vars

(***************************************************************************)
(* "do not allow, if BG is started to one faction to have 2 more players   *)
(* than another faction" (Battleground.h): filling up a running instance   *)
(* never leaves the side it adds to two places ahead of the other.         *)
(***************************************************************************)
InvitesKeepBalance ==
  [][\A b \in Bgs, t \in Teams :
       status[b] = "in_progress" /\ invitedCount'[b][t] > invitedCount[b][t]
         => invitedCount'[b][t] <= invitedCount'[b][OtherTeam(t)] + 1]_vars

(***************************************************************************)
(* An invitation does not stay unanswered for ever.                        *)
(***************************************************************************)
InvitationsResolve ==
  \A p \in Players, q \in Queues : Invited(p, q) ~> ~Invited(p, q)

(***************************************************************************)
(* An instance that is over is deleted: the players invited to it or on    *)
(* the way come in or fall out, everyone inside is sent home, and the      *)
(* counters reach zero.                                                    *)
(***************************************************************************)
EndedIsDeleted == \A b \in Bgs : status[b] = "wait_leave" ~> ~Exists(b)

-----------------------------------------------------------------------------
(***************************************************************************)
(* The system implements SeatReservation.                                  *)
(***************************************************************************)
SeatOf(b, p) ==
  IF bgId[p] = b THEN bgTeam[p]
  ELSE IF Queued(p, QueueOf[b]) /\ group[QueueOf[b]][p].bg = b THEN group[QueueOf[b]][p].team
  ELSE NoTeam

PhaseOf(b) == CASE status[b] = "none" -> "none"
                [] status[b] \in Open -> "open"
                [] status[b] = "wait_leave" -> "over"

Reservation == INSTANCE SeatReservation WITH
  Instances <- Bgs,
  Sides     <- Teams,
  NoSide    <- NoTeam,
  Capacity  <- MaxPlayersPerTeam,
  phase     <- [b \in Bgs |-> PhaseOf(b)],
  seat      <- [b \in Bgs |-> [p \in Players |-> SeatOf(b, p)]]

(***************************************************************************)
(* Places are given, kept and given back as SeatReservation promises.      *)
(***************************************************************************)
ReservationSpec == Reservation!Spec
=============================================================================
