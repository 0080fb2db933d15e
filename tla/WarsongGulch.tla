---------------------------- MODULE WarsongGulch ----------------------------
(***************************************************************************)
(* A match of Warsong Gulch (BattlegroundWS): two flags that the players   *)
(* of the other team take, drop, return and capture, and what the map      *)
(* shows of them: the flag at its base, the flag that lies on the ground,  *)
(* the auras of the players.  Clicks on a flag were sent by clients that   *)
(* still saw it: the flag of a base can be clicked when it is despawned.   *)
(***************************************************************************)
EXTENDS Naturals

CONSTANTS
  Players,
  Team,                     \* [Players -> Teams]
  Nobody,                   \* the empty guid
  CapturesToWin             \* BG_WS_MAX_TEAM_SCORE

VARIABLES
  status,                   \* "in_progress" or "ended"
  score,                    \* m_TeamScores
  inside,                   \* m_Players
  flagState,                \* _flagState: "base", "wait", "player" or "ground"
  keeper,                   \* m_FlagKeepers
  spawned,                  \* the flag is seen at its base
  dropped,                  \* the flag of m_DroppedFlagGUID lies on the ground
  carrying,                 \* who has the aura of each flag
  bothKept,                 \* _bothFlagsKept
  debuff,                   \* _flagDebuffState
  assaulted                 \* who has Focused (1) and Brutal (2) Assault

flags == <<flagState, keeper, spawned, dropped, carrying, bothKept, debuff, assaulted>>
vars == <<status, score, inside, flags>>

Teams == {"alliance", "horde"}
Other(t) == IF t = "alliance" THEN "horde" ELSE "alliance"

(* Once StartingEventOpenDoors has spawned the flags. *)
Init ==
  /\ status = "in_progress"
  /\ score = [t \in Teams |-> 0]
  /\ inside = {}
  /\ flagState = [t \in Teams |-> "base"]
  /\ keeper = [t \in Teams |-> Nobody]
  /\ spawned = [t \in Teams |-> TRUE]
  /\ dropped = [t \in Teams |-> FALSE]
  /\ carrying = [t \in Teams |-> {}]
  /\ bothKept = FALSE
  /\ debuff = 0
  /\ assaulted = [d \in 1..2 |-> {}]

Enter(p) ==
  /\ status = "in_progress"
  /\ p \notin inside
  /\ inside' = inside \cup {p}
  /\ UNCHANGED <<status, score, flags>>

(* The debuff of the moment is taken from, or cast on, a player. *)
Relieved(p) == IF debuff = 0 THEN assaulted ELSE [assaulted EXCEPT ![debuff] = @ \ {p}]
Burdened(p) == IF debuff = 0 THEN assaulted ELSE [assaulted EXCEPT ![debuff] = @ \cup {p}]

---------------------------------------------------------------------------
(* EventPlayerClickedOnFlag.                                               *)

PickUp(p, t) ==
  /\ keeper' = [keeper EXCEPT ![t] = p]
  /\ flagState' = [flagState EXCEPT ![t] = "player"]
  /\ spawned' = [spawned EXCEPT ![t] = FALSE]
  /\ carrying' = [carrying EXCEPT ![t] = @ \cup {p}]

(* The flag of the other team, at its base. *)
TakeFromBase(p) ==
  LET t == Other(Team[p])
  IN /\ status = "in_progress" /\ p \in inside
     /\ flagState[t] = "base"
     /\ PickUp(p, t)
     /\ bothKept' = (bothKept \/ flagState[Team[p]] = "player")
     /\ UNCHANGED <<status, score, inside, dropped, debuff, assaulted>>

(* It lies on the ground: the other team takes it, its own returns it.     *)
(* GameObject::Use deletes what lay there.                                 *)
TakeFromGround(p) ==
  LET t == Other(Team[p])
  IN /\ status = "in_progress" /\ p \in inside
     /\ flagState[t] = "ground" /\ dropped[t]
     /\ PickUp(p, t)
     /\ dropped' = [dropped EXCEPT ![t] = FALSE]
     /\ assaulted' = Burdened(p)
     /\ UNCHANGED <<status, score, inside, bothKept, debuff>>

Return(p) ==
  LET t == Team[p]
  IN /\ status = "in_progress" /\ p \in inside
     /\ flagState[t] = "ground" /\ dropped[t]
     /\ flagState' = [flagState EXCEPT ![t] = "base"]
     /\ spawned' = [spawned EXCEPT ![t] = TRUE]
     /\ dropped' = [dropped EXCEPT ![t] = FALSE]
     /\ bothKept' = FALSE
     /\ UNCHANGED <<status, score, inside, keeper, carrying, debuff, assaulted>>

---------------------------------------------------------------------------
\* Slip: the state of the flag is not set when its carrier drops it.
DropHeld(p, t) ==
  /\ keeper' = [keeper EXCEPT ![t] = Nobody]
  /\ carrying' = [carrying EXCEPT ![t] = @ \ {p}]
  /\ assaulted' = Relieved(p)
  /\ UNCHANGED <<flagState, dropped>>

(* EventPlayerDroppedFlag, of the flag that the player holds: it lies on   *)
(* the ground, unless the match is over. *)
Drop(p, t) ==
  /\ keeper' = [keeper EXCEPT ![t] = Nobody]
  /\ carrying' = [carrying EXCEPT ![t] = @ \ {p}]
  /\ IF status = "in_progress"
     THEN /\ flagState' = [flagState EXCEPT ![t] = "ground"]
          /\ dropped' = [dropped EXCEPT ![t] = TRUE]
          /\ assaulted' = Relieved(p)
     ELSE UNCHANGED <<flagState, dropped, assaulted>>

(* The carrier is killed, or loses the aura. *)
DropFlag(p) ==
  LET t == Other(Team[p])
  IN /\ keeper[t] = p
     /\ Drop(p, t)
     /\ UNCHANGED <<status, score, inside, spawned, bothKept, debuff>>

(* RemovePlayer. *)
Leave(p) ==
  LET t == Other(Team[p])
  IN /\ p \in inside
     /\ inside' = inside \ {p}
     /\ IF keeper[t] = p THEN Drop(p, t)
        ELSE UNCHANGED <<flagState, keeper, dropped, carrying, assaulted>>
     /\ UNCHANGED <<status, score, spawned, bothKept, debuff>>

(* HandleAreaTrigger and EventPlayerCapturedFlag: the carrier comes to its *)
(* own base while its own flag is there.  Both flags are despawned.        *)
Capture(p) ==
  LET own == Team[p]
      t == Other(own)
  IN /\ status = "in_progress"
     /\ flagState[t] # "base" /\ flagState[own] = "base" /\ keeper[t] = p
     /\ keeper' = [keeper EXCEPT ![t] = Nobody]
     /\ flagState' = [flagState EXCEPT ![t] = "wait"]
     /\ carrying' = [carrying EXCEPT ![t] = @ \ {p}]
     /\ assaulted' = Relieved(p)
     /\ spawned' = [f \in Teams |-> FALSE]
     /\ score' = [score EXCEPT ![own] = @ + 1]
     /\ status' = IF score'[own] = CapturesToWin THEN "ended" ELSE status
     /\ UNCHANGED <<inside, dropped, bothKept, debuff>>

---------------------------------------------------------------------------
Keepers == {keeper[t] : t \in Teams} \ {Nobody}

\* Slip: the carriers keep the assault auras when a flag comes back.
KeepAuras(stronger) ==
  IF bothKept' /\ stronger /\ debuff < 2
  THEN /\ debuff' = debuff + 1
       /\ assaulted' = [d \in 1..2 |-> IF d = debuff + 1 THEN assaulted[d] \cup Keepers
                                                         ELSE assaulted[d] \ Keepers]
  ELSE /\ debuff' = IF bothKept' THEN debuff ELSE 0
       /\ UNCHANGED assaulted

(* The debuff of the carriers grows while both flags are held, and ends    *)
(* with that. *)
Debuffs(stronger) ==
  IF bothKept'
  THEN IF stronger /\ debuff < 2
       THEN /\ debuff' = debuff + 1
            /\ assaulted' = [d \in 1..2 |-> IF d = debuff + 1 THEN assaulted[d] \cup Keepers
                                                              ELSE assaulted[d] \ Keepers]
       ELSE UNCHANGED <<debuff, assaulted>>
  ELSE /\ debuff' = 0
       /\ assaulted' = [d \in 1..2 |-> assaulted[d] \ Keepers]

(* A captured flag comes back with the other one, a dropped one alone. *)
Spawn(returned) ==
  [t \in Teams |-> \/ spawned[t] \/ t \in returned
                   \/ \E f \in returned : flagState[f] = "wait"]

(* PostUpdateImpl: the timers of flags that wait or lie on the ground run  *)
(* out, and the time of the match may be up. *)
Update(timesUp, returned, stronger) ==
  /\ status = "in_progress"
  /\ \A t \in returned : flagState[t] \in {"wait", "ground"}
  /\ timesUp => \A t \in returned : flagState[t] = "wait"
  /\ status' = IF timesUp THEN "ended" ELSE status
  /\ flagState' = [t \in Teams |-> IF t \in returned THEN "base" ELSE flagState[t]]
  /\ spawned' = Spawn(returned)
  /\ dropped' = [t \in Teams |-> dropped[t] /\ t \notin returned]
  /\ bothKept' = (bothKept /\ returned = {})
  /\ Debuffs(stronger)
  /\ UNCHANGED <<score, inside, keeper, carrying>>

Next ==
  \/ \E p \in Players :
       \/ Enter(p) \/ Leave(p) \/ TakeFromBase(p) \/ TakeFromGround(p)
       \/ Return(p) \/ DropFlag(p) \/ Capture(p)
  \/ \E timesUp, stronger \in BOOLEAN, returned \in SUBSET Teams :
       Update(timesUp, returned, stronger)

---------------------------------------------------------------------------
(***************************************************************************)
(* No flag is lost, and no flag is carried twice: while the match runs a   *)
(* flag is held by one player of the other team who is in the match and    *)
(* has its aura, or it lies on the ground where it can be used, or it is   *)
(* seen at its base, unless a capture is being celebrated.                 *)
(***************************************************************************)
NoFlagLost ==
  status = "in_progress" =>
    \A t \in Teams :
      /\ flagState[t] = "player" <=> keeper[t] # Nobody
      /\ carrying[t] = {keeper[t]} \ {Nobody}
      /\ keeper[t] # Nobody => keeper[t] \in inside /\ Team[keeper[t]] = Other(t)
      /\ dropped[t] <=> flagState[t] = "ground"
      /\ flagState[t] = "base" => spawned[t] \/ flagState[Other(t)] = "wait"

(***************************************************************************)
(* Only a carrier has an assault debuff while the match runs, whoever      *)
(* drops, returns, takes or captures a flag between two updates.           *)
(***************************************************************************)
AssaultOnCarriersOnly ==
  status = "in_progress" => assaulted[1] \cup assaulted[2] \subseteq Keepers
=============================================================================
