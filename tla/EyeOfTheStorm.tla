---------------------------- MODULE EyeOfTheStorm ---------------------------
(***************************************************************************)
(* A match of Eye of the Storm (BattlegroundEY): towers that the team with *)
(* more players near them draws to its side, and one flag that is brought  *)
(* to a tower of one's team.  The towers are checked every two seconds,    *)
(* with what the players have done in between; a player who goes from one  *)
(* tower to another is first noted as away from both.                      *)
(***************************************************************************)
EXTENDS Integers, FiniteSets

CONSTANTS
  Players,
  Team,                     \* [Players -> Teams]
  Nobody,                   \* the empty guid
  Points,
  FelReaver,                \* the tower whose area trigger clients do not send
  Away,                     \* EY_PLAYERS_OUT_OF_POINTS
  Low, High, Full,          \* of the bar: BG_EY_PROGRESS_BAR_*, from 0 to Full
  Capturers,                \* BG_EY_POINT_MAX_CAPTURERS_COUNT
  TickPoints, FlagPoints,   \* BG_EY_TickPoints, BG_EY_FlagPoints, by towers owned
  Resources                 \* BG_EY_MAX_TEAM_SCORE

VARIABLES
  status,                   \* "in_progress" or "ended"
  score,                    \* m_TeamScores, up to Resources
  inside,                   \* m_Players
  at,                       \* the tower a player can capture where he stands
  near,                     \* m_PlayersNearPoint, as the point of each player
  bar,                      \* m_PointBarStatus
  owner,                    \* m_PointOwnedByTeam; m_PointState says the same
  count,                    \* m_TeamPointsCount
  flag,                     \* m_FlagState: "base", "wait", "player" or "ground"
  keeper,                   \* m_FlagKeeper
  carrying,                 \* who has the aura of the flag
  spawned,                  \* the flag is seen at its base
  lying,                    \* a flag lies on the ground
  shown                     \* the captured flag is shown at a tower

towers == <<at, near, bar, owner, count>>
flags == <<flag, keeper, carrying, spawned, lying, shown>>

Teams == {"alliance", "horde"}
Neutral == "none"

(* Once StartingEventOpenDoors has spawned the flag and the banners. *)
Init ==
  /\ status = "in_progress"
  /\ score = [t \in Teams |-> 0]
  /\ inside = {}
  /\ at = [p \in Players |-> Away]
  /\ near = [p \in Players |-> Away]
  /\ bar = [x \in Points |-> Full \div 2]
  /\ owner = [x \in Points |-> Neutral]
  /\ count = [t \in Teams |-> 0]
  /\ flag = "base"
  /\ keeper = Nobody
  /\ carrying = {}
  /\ spawned = TRUE
  /\ lying = FALSE
  /\ shown = FALSE

Enter(p) ==
  /\ status = "in_progress"
  /\ p \notin inside
  /\ inside' = inside \cup {p}
  /\ UNCHANGED <<status, score, towers, flags>>

(* He walks, dies or hides. *)
Move(p, x) ==
  /\ status = "in_progress"
  /\ p \in inside /\ at[p] # x
  /\ at' = [at EXCEPT ![p] = x]
  /\ UNCHANGED <<status, score, inside, near, bar, owner, count, flags>>

---------------------------------------------------------------------------
(* EventPlayerDroppedFlag: the flag lies on the ground, unless the match   *)
(* is over. *)
Drop(p) ==
  /\ keeper' = Nobody
  /\ carrying' = carrying \ {p}
  /\ IF status = "in_progress" THEN flag' = "ground" /\ lying' = TRUE
                               ELSE UNCHANGED <<flag, lying>>

(* The carrier is killed, or loses the aura. *)
DropFlag(p) ==
  /\ keeper = p
  /\ Drop(p)
  /\ UNCHANGED <<status, score, inside, towers, spawned, shown>>

\* Slip: the flag leaves the match with its carrier.
LeaveWithFlag(p) ==
  /\ p \in inside
  /\ inside' = inside \ {p}
  /\ at' = [at EXCEPT ![p] = Away]
  /\ near' = [near EXCEPT ![p] = Away]
  /\ UNCHANGED <<status, score, bar, owner, count, flags>>

(* RemovePlayer. *)
Leave(p) ==
  /\ p \in inside
  /\ inside' = inside \ {p}
  /\ at' = [at EXCEPT ![p] = Away]
  /\ near' = [near EXCEPT ![p] = Away]
  /\ IF keeper = p THEN Drop(p) ELSE UNCHANGED <<flag, keeper, carrying, lying>>
  /\ UNCHANGED <<status, score, bar, owner, count, spawned, shown>>

(* EventPlayerClickedOnFlag, of a flag that the player sees or that was    *)
(* there until another took it: IsFlagPickedup tells.  GameObject::Use     *)
(* deletes the flag that lay on the ground.                                *)
ClickOnFlag(p) ==
  /\ status = "in_progress" /\ p \in inside
  /\ keeper = Nobody
  /\ spawned \/ lying \/ flag = "player"
  /\ flag' = "player"
  /\ keeper' = p
  /\ carrying' = carrying \cup {p}
  /\ spawned' = FALSE
  /\ lying' = FALSE
  /\ UNCHANGED <<status, score, inside, towers, shown>>

---------------------------------------------------------------------------
Smaller(x, y) == IF x < y THEN x ELSE y

(* AddPoints; EndBattleground is called as soon as a team has enough. *)
Add(gains) == [t \in Teams |-> Smaller(score[t] + gains[t], Resources)]
Over(s) == \E t \in Teams : s[t] = Resources

(* The flag is brought in: the aura goes after the keeper is forgotten, so *)
(* that its removal drops nothing. *)
BringIn(p) ==
  /\ flag' = "wait"
  /\ keeper' = Nobody
  /\ carrying' = carrying \ {p}
  /\ shown' = TRUE

(* HandleAreaTrigger and EventPlayerCapturedFlag. *)
Capture(p) ==
  LET t == Team[p]
  IN /\ status = "in_progress"
     /\ at[p] # Away /\ owner[at[p]] = t
     /\ keeper = p
     /\ BringIn(p)
     /\ score' = Add([s \in Teams |-> IF s = t THEN FlagPoints[count[t]] ELSE 0])
     /\ status' = IF Over(score') THEN "ended" ELSE status
     /\ UNCHANGED <<inside, towers, spawned, lying>>

---------------------------------------------------------------------------
(* CheckSomeoneJoinedPoint, then CheckSomeoneLeftPoint. *)
Checked(p) == IF near[p] = Away THEN at[p]
              ELSE IF at[p] = near[p] THEN near[p] ELSE Away

(* The players of a team near a point, after the check. *)
NearOf(x, t) == {p \in inside : near'[p] = x /\ Team[p] = t}

(* UpdatePointStatuses, of one point. *)
Pull(x) == Smaller(Cardinality(NearOf(x, "alliance")) - Cardinality(NearOf(x, "horde")),
                   Capturers)
Moved(b) == IF b < 0 THEN 0 ELSE Smaller(b, Full)

OwnerOf(b) == IF b <= Low THEN "horde" ELSE IF b >= High THEN "alliance" ELSE Neutral

\* Slip: a point is lost only when its owners are there to see it.
OwnerUnlessDeserted(x) ==
  LET next == OwnerOf(bar'[x])
  IN IF owner[x] = Neutral /\ next # Neutral /\ NearOf(x, next) # {} THEN next
     ELSE IF owner[x] # Neutral /\ owner[x] # next /\ NearOf(x, owner[x]) # {} THEN Neutral
     ELSE owner[x]

(* EventTeamCapturedPoint is for a player of the team that captures a free *)
(* point, EventTeamLostPoint for a player who is not of the team that held *)
(* it: nobody is near, and nothing changes.                                *)
OwnerAfter(x) ==
  LET next == OwnerOf(bar'[x])
  IN IF owner[x] = Neutral /\ next # Neutral /\ NearOf(x, next) # {} THEN next
     ELSE IF owner[x] # Neutral /\ owner[x] # next
             /\ \E p \in inside : near'[p] = x /\ Team[p] # owner[x] THEN Neutral
     ELSE owner[x]

(* One event changes the count of one team by one. *)
CountAfter(t) ==
  count[t] + Cardinality({x \in Points : owner'[x] = t /\ owner[x] # t})
           - Cardinality({x \in Points : owner[x] = t /\ owner'[x] # t})

(* The carrier stands in the flag's place at Fel Reaver and his team owns  *)
(* it when he is visited, be it before another makes the team lose it.     *)
BringsIn(p) ==
  /\ keeper = p /\ near'[p] = FelReaver
  /\ Team[p] \in {owner[FelReaver], OwnerAfter(FelReaver)}

(* The points that brings his team: Fel Reaver is the first of the towers. *)
Gain(p) == FlagPoints[count[Team[p]] + (IF owner[FelReaver] = Team[p] THEN 0 ELSE 1)]

(* PostUpdateImpl.  The two timers of two seconds run together: both teams *)
(* get their points, then the towers are checked; a team that had enough   *)
(* before an event keeps it from being one.  In between a flag that waits  *)
(* or lies on the ground may return.                                       *)
Tick(brought) ==
  LET held == Add([t \in Teams |-> IF count[t] > 0 THEN TickPoints[count[t]] ELSE 0])
  IN /\ near' = [p \in Players |-> IF p \in inside THEN Checked(p) ELSE Away]
     /\ bar' = [x \in Points |-> Moved(bar[x] + Pull(x))]
     /\ brought # {} => ~Over(held)
     /\ \A p \in brought : BringsIn(p)
     /\ score' = [t \in Teams |->
                   IF \E p \in brought : Team[p] = t
                   THEN Smaller(held[t] + Gain(keeper), Resources) ELSE held[t]]
     /\ owner' = [x \in Points |->
                   IF Over(held) \/ (Over(score') /\ x # FelReaver) THEN owner[x]
                   ELSE OwnerAfter(x)]
     /\ count' = [t \in Teams |-> CountAfter(t)]

Update(tick, expire, brought) ==
  /\ status = "in_progress"
  /\ expire => flag \in {"wait", "ground"}
  /\ IF tick THEN Tick(brought)
     ELSE brought = {} /\ UNCHANGED <<score, near, bar, owner, count>>
  /\ status' = IF Over(score') THEN "ended" ELSE status
  /\ IF expire
     THEN flag' = "base" /\ spawned' = TRUE /\ shown' = FALSE
     ELSE UNCHANGED spawned
  /\ lying' = (lying /\ ~(expire /\ flag = "ground"))
  /\ IF brought # {} THEN BringIn(keeper) ELSE UNCHANGED <<keeper, carrying>>
  /\ ~expire /\ brought = {} => UNCHANGED <<flag, shown>>
  /\ UNCHANGED <<inside, at>>

Next ==
  \/ \E p \in Players :
       \/ Enter(p) \/ Leave(p) \/ DropFlag(p) \/ ClickOnFlag(p) \/ Capture(p)
       \/ \E x \in Points \cup {Away} : Move(p, x)
  \/ \E tick, expire \in BOOLEAN, brought \in {{}} \cup {{p} : p \in Players} :
       Update(tick, expire, brought)

---------------------------------------------------------------------------
(***************************************************************************)
(* The owner of a tower, and the number of towers by which a team is paid, *)
(* follow the bars that the players see, though the event that changes     *)
(* them is raised only when a player of the right team is visited.         *)
(***************************************************************************)
OwnersFollowBars ==
  status = "in_progress" =>
    /\ \A x \in Points : owner[x] = OwnerOf(bar[x])
    /\ \A t \in Teams : count[t] = Cardinality({x \in Points : owner[x] = t})

(***************************************************************************)
(* There is one flag: while the match runs it is with one player, who is   *)
(* in the match and has its aura, or lies on the ground, or stands at its  *)
(* base, or is shown at the tower where it was captured.                   *)
(***************************************************************************)
OneFlag ==
  status = "in_progress" =>
    /\ flag = "player" <=> keeper # Nobody
    /\ carrying = {keeper} \ {Nobody}
    /\ carrying \subseteq inside
    /\ lying <=> flag = "ground"
    /\ spawned <=> flag = "base"
    /\ shown <=> flag = "wait"
=============================================================================
