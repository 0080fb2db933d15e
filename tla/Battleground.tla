---------------------------- MODULE Battleground ----------------------------
(***************************************************************************)
(* One running battleground instance: Battleground.h and Battleground.cpp. *)
(* The module holds the state of the Battleground objects and the effect   *)
(* of their operations.  Whole handlers are put together from these        *)
(* effects in BattlegroundSystem.                                          *)
(*                                                                         *)
(* An instance lives from CreateNewBattleground to the Update that sets    *)
(* m_SetDeleteThis.  Two kinds of counters decide who may still come in:   *)
(* m_InvitedAlliance / m_InvitedHorde count every player who holds a place *)
(* (invited, on the way, or inside) and m_PlayersCount counts the players  *)
(* inside.                                                                 *)
(***************************************************************************)
EXTENDS Integers, FiniteSets, Sequences

CONSTANTS
  Players,            \* characters
  Bgs,                \* instance ids the map manager may hand out
  NoBg,               \* instance id 0
  MinPlayersPerTeam,  \* m_MinPlayersPerTeam
  MaxPlayersPerTeam,  \* m_MaxPlayersPerTeam
  NoBalance           \* Battleground.InvitationType = 0, the default

Teams  == {"alliance", "horde"}
NoTeam == "none"

\* STATUS_NONE stands for "there is no such instance"; STATUS_WAIT_QUEUE is
\* overwritten before CreateNewBattleground returns and is never observed.
Statuses == {"none", "wait_join", "in_progress", "wait_leave"}
Open     == {"wait_join", "in_progress"}

ASSUME BattlegroundAssumption ==
  /\ IsFiniteSet(Players)
  /\ NoBg \notin Bgs
  /\ MinPlayersPerTeam \in Nat
  /\ MaxPlayersPerTeam \in Nat
  /\ NoBalance \in BOOLEAN

VARIABLES
  status,           \* [Bgs -> Statuses]                     m_Status
  invitedCount,     \* [Bgs -> [Teams -> Int]]               m_InvitedAlliance, m_InvitedHorde
  members,          \* [Bgs -> [Players -> Teams or NoTeam]] m_Players, with BattlegroundPlayer::Team
  playersCount,     \* [Bgs -> [Teams -> Int]]               m_PlayersCount
  offlineQueue,     \* [Bgs -> Seq(Players)]                 m_OfflineQueue
  inFreeSlotQueue   \* [Bgs -> BOOLEAN]                      m_InBGFreeSlotQueue

bgVars == <<status, invitedCount, members, playersCount, offlineQueue, inFreeSlotQueue>>

OtherTeam(t) == IF t = "alliance" THEN "horde" ELSE "alliance"

Exists(b) == status[b] # "none"

\* The players inside an instance, and those of one side.
Inside(b)     == {p \in Players : members[b][p] # NoTeam}
Side(b, t)    == {p \in Players : members[b][p] = t}

BgTypeOK ==
  /\ status \in [Bgs -> Statuses]
  /\ invitedCount \in [Bgs -> [Teams -> Int]]
  /\ members \in [Bgs -> [Players -> Teams \cup {NoTeam}]]
  /\ playersCount \in [Bgs -> [Teams -> Int]]
  /\ offlineQueue \in [Bgs -> Seq(Players)]
  /\ inFreeSlotQueue \in [Bgs -> BOOLEAN]

BgInit ==
  /\ status = [b \in Bgs |-> "none"]
  /\ invitedCount = [b \in Bgs |-> [t \in Teams |-> 0]]
  /\ members = [b \in Bgs |-> [p \in Players |-> NoTeam]]
  /\ playersCount = [b \in Bgs |-> [t \in Teams |-> 0]]
  /\ offlineQueue = [b \in Bgs |-> <<>>]
  /\ inFreeSlotQueue = [b \in Bgs |-> FALSE]

-----------------------------------------------------------------------------
(***************************************************************************)
(* What the queue asks an instance.                                        *)
(***************************************************************************)

Least(m, n)   == IF m <= n THEN m ELSE n
Surplus(m, n) == IF m > n THEN m - n ELSE 0

\* Slip: room counted on the players who have arrived.
RoomLeftByArrivals(b, t) == Surplus(MaxPlayersPerTeam, playersCount[b][t])

\* Room below MaxPlayersPerTeam, counted on invitations.
RoomLeft(b, t) == Surplus(MaxPlayersPerTeam, invitedCount[b][t])

\* Slip: one more than the lead of the other side.
BalanceOffByOne(mine, theirs) == IF mine = theirs THEN 1 ELSE Surplus(theirs, mine) + 1

\* How far side t may grow when its own tally is mine and the other's theirs.
Balance(mine, theirs) == IF mine = theirs THEN 1 ELSE Surplus(theirs, mine)

\* The third bound of GetFreeSlotsForTeam: players already inside, except that
\* a side with more players may still be filled up to the minimum.
BalanceInside(b, t) ==
  LET mine   == playersCount[b][t]
      theirs == playersCount[b][OtherTeam(t)]
  IN  IF mine > theirs /\ invitedCount[b][t] <= MinPlayersPerTeam
      THEN MinPlayersPerTeam - invitedCount[b][t] + 1
      ELSE Balance(mine, theirs)

GetFreeSlotsForTeam(b, t) ==
  CASE status[b] = "wait_join" /\ NoBalance -> RoomLeft(b, t)
    [] status[b] \in Open /\ ~(status[b] = "wait_join" /\ NoBalance) ->
         Least(Least(Balance(invitedCount[b][t], invitedCount[b][OtherTeam(t)]),
                     RoomLeft(b, t)),
               BalanceInside(b, t))
    [] OTHER -> 0

\* Counts the players inside, not the invitations.
HasFreeSlots(b) == Cardinality(Inside(b)) < 2 * MaxPlayersPerTeam

-----------------------------------------------------------------------------
(***************************************************************************)
(* Effects of the operations of an instance.                               *)
(***************************************************************************)

\* AddPlayer: m_Players[guid] is set and the count of the side goes up.
AddPlayer(p, b, t) ==
  /\ members' = [members EXCEPT ![b][p] = t]
  /\ playersCount' = [playersCount EXCEPT ![b][t] = @ + 1]

\* RemovePlayerAtLeave for every player of S.  Only participants, who are
\* inside, have an effect here: list and count of their side, the place they
\* held, and the instance is offered to the queue again unless it is ending.
RemovePlayersAtLeave(S, b) ==
  /\ members' = [members EXCEPT ![b] =
                   [p \in Players |-> IF p \in S THEN NoTeam ELSE @[p]]]
  /\ playersCount' = [playersCount EXCEPT ![b] =
                        [t \in Teams |-> @[t] - Cardinality(S \cap Side(b, t))]]
  /\ inFreeSlotQueue' = [inFreeSlotQueue EXCEPT ![b] = @ \/ (S \cap Inside(b) # {} /\ status[b] \in Open)]

\* Slip: DecreaseInvitedCount is forgotten.
InvitedKeptAtLeave(c, S, b) == c

\* DecreaseInvitedCount for every participant of S, on counters c.
InvitedAfterLeave(c, S, b) ==
  [c EXCEPT ![b] = [t \in Teams |-> @[t] - Cardinality(S \cap Side(b, t))]]

\* _ProcessJoin, last event: the doors open.  Update returns before it reaches
\* the switch when nobody is inside.
Start(b) ==
  /\ status[b] = "wait_join"
  /\ Inside(b) # {}
  /\ status' = [status EXCEPT ![b] = "in_progress"]
  /\ UNCHANGED <<invitedCount, members, playersCount, offlineQueue, inFreeSlotQueue>>

\* EndBattleground (a side has won, or the premature-finish timer ran out) and
\* EndNow (set-up failed at the first _ProcessJoin): no more invitations.
End(b) ==
  /\ status[b] \in Open
  /\ Inside(b) # {}
  /\ status' = [status EXCEPT ![b] = "wait_leave"]
  /\ inFreeSlotQueue' = [inFreeSlotQueue EXCEPT ![b] = FALSE]
  /\ UNCHANGED <<invitedCount, members, playersCount, offlineQueue>>

\* Slip: only the players inside are looked at.
DeleteWhenEmpty(b) ==
  /\ Exists(b)
  /\ Inside(b) = {}
  /\ status' = [status EXCEPT ![b] = "none"]
  /\ playersCount' = [playersCount EXCEPT ![b] = [t \in Teams |-> 0]]
  /\ offlineQueue' = [offlineQueue EXCEPT ![b] = <<>>]
  /\ inFreeSlotQueue' = [inFreeSlotQueue EXCEPT ![b] = FALSE]
  /\ UNCHANGED <<invitedCount, members>>

\* Update of an empty instance with no place taken: m_SetDeleteThis, after
\* which BattlegroundMgr::Update deletes the object in the same pass.
Delete(b) ==
  /\ Exists(b)
  /\ Inside(b) = {}
  /\ \A t \in Teams : invitedCount[b][t] = 0
  /\ status' = [status EXCEPT ![b] = "none"]
  /\ playersCount' = [playersCount EXCEPT ![b] = [t \in Teams |-> 0]]
  /\ offlineQueue' = [offlineQueue EXCEPT ![b] = <<>>]
  /\ inFreeSlotQueue' = [inFreeSlotQueue EXCEPT ![b] = FALSE]
  /\ UNCHANGED <<invitedCount, members>>
=============================================================================
