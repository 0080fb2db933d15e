---------------------------- MODULE ArathiBasin ----------------------------
(***************************************************************************)
(* A match of Arathi Basin (BattlegroundAB): nodes that the teams contest  *)
(* and occupy.  A node is contested for a minute before it is occupied;    *)
(* its new banner is spawned two seconds after the old one is gone.        *)
(***************************************************************************)
EXTENDS Naturals, FiniteSets

CONSTANTS
  Nodes,
  NoBanner,
  Resources,                \* BG_AB_MAX_TEAM_SCORE
  Ticks                     \* BG_AB_TickPoints, by the number of nodes

VARIABLES
  status,                   \* "in_progress" or "ended"
  score,                    \* m_TeamScores
  node,                     \* m_Nodes, the banner that a node should show
  before,                   \* m_prevNodes
  capturing,                \* m_NodeTimers, whether they run
  pending,                  \* m_BannerTimers: the banner to be spawned
  banners,                  \* the banners that are spawned at each node
  guides                    \* BgCreatures: the teams with a spirit guide there

Teams == {"alliance", "horde"}
Other(t) == IF t = "alliance" THEN "horde" ELSE "alliance"

(* The three types of banner; the last two belong to a team. *)
Neutral == [type |-> "neutral", team |-> "none"]
Contested(t) == [type |-> "contested", team |-> t]
Occupied(t) == [type |-> "occupied", team |-> t]
Banners == {Neutral} \cup {Contested(t) : t \in Teams} \cup {Occupied(t) : t \in Teams}

(* Once StartingEventOpenDoors has spawned the neutral banners. *)
Init ==
  /\ status = "in_progress"
  /\ score = [t \in Teams |-> 0]
  /\ node = [n \in Nodes |-> Neutral]
  /\ before = [n \in Nodes |-> Neutral]
  /\ capturing = [n \in Nodes |-> FALSE]
  /\ pending = [n \in Nodes |-> NoBanner]
  /\ banners = [n \in Nodes |-> {Neutral}]
  /\ guides = [n \in Nodes |-> {}]

---------------------------------------------------------------------------
(* EventPlayerClickedOnFlag.                                               *)

\* Slip: the banner that is still to come is not taken into account.
ChangeUnlessPending(n, next) ==
  /\ before' = [before EXCEPT ![n] = node[n]]
  /\ node' = [node EXCEPT ![n] = next]
  /\ banners' = [banners EXCEPT ![n] = @ \ {node[n]}]
  /\ pending' = [pending EXCEPT ![n] = IF @ = NoBanner THEN next ELSE @]

(* _DelBanner of the old banner, _CreateBanner of the new one. *)
Change(n, next) ==
  /\ before' = [before EXCEPT ![n] = node[n]]
  /\ node' = [node EXCEPT ![n] = next]
  /\ banners' = [banners EXCEPT ![n] = @ \ {node[n]}]
  /\ pending' = [pending EXCEPT ![n] = next]

(* A player uses the banner of a node that is not of its team. *)
Usable(n, t) == status = "in_progress" /\ node[n].team # t

(* A node that was occupied before it was contested is defended. *)
Defend(n, t) ==
  /\ Usable(n, t)
  /\ node[n].type = "contested" /\ before[n].type = "occupied"
  /\ Change(n, Occupied(t))
  /\ capturing' = [capturing EXCEPT ![n] = FALSE]
  /\ guides' = [guides EXCEPT ![n] = @ \cup {t}]
  /\ UNCHANGED <<status, score>>

(* Any other is assaulted; _NodeDeOccupied takes the spirit guide away. *)
Assault(n, t) ==
  /\ Usable(n, t)
  /\ ~(node[n].type = "contested" /\ before[n].type = "occupied")
  /\ Change(n, Contested(t))
  /\ capturing' = [capturing EXCEPT ![n] = TRUE]
  /\ guides' = [guides EXCEPT ![n] = IF node[n].type = "occupied" THEN {} ELSE @]
  /\ UNCHANGED <<status, score>>

---------------------------------------------------------------------------
Smaller(x, y) == IF x < y THEN x ELSE y

(* The nodes that a team holds. *)
Held(t) == {n \in Nodes : node[n] = Occupied(t)}

(* PostUpdateImpl: banners are spawned, contested nodes are occupied and   *)
(* the teams that hold nodes get resources; of two teams that have enough  *)
(* at once the alliance wins. *)
Update(spawn, occupy, tick) ==
  /\ status = "in_progress"
  /\ \A n \in spawn : pending[n] # NoBanner
  /\ \A n \in occupy : capturing[n]
  /\ before' = [n \in Nodes |-> IF n \in occupy THEN node[n] ELSE before[n]]
  /\ node' = [n \in Nodes |-> IF n \in occupy THEN Occupied(node[n].team) ELSE node[n]]
  /\ banners' = [n \in Nodes |-> (banners[n] \cup {pending[m] : m \in spawn \cap {n}})
                                 \ {node[m] : m \in occupy \cap {n}}]
  /\ pending' = [n \in Nodes |-> IF n \in occupy THEN node'[n]
                                 ELSE IF n \in spawn THEN NoBanner ELSE pending[n]]
  /\ capturing' = [n \in Nodes |-> capturing[n] /\ n \notin occupy]
  /\ guides' = [n \in Nodes |-> guides[n] \cup {node[m].team : m \in occupy \cap {n}}]
  /\ \A t \in tick : Held(t)' # {}
  /\ score' = [t \in Teams |->
                IF t \in tick THEN Smaller(score[t] + Ticks[Cardinality(Held(t)')], Resources)
                ELSE score[t]]
  /\ status' = IF \E t \in Teams : score'[t] = Resources THEN "ended" ELSE status

Next ==
  \/ \E n \in Nodes, t \in Teams : Defend(n, t) \/ Assault(n, t)
  \/ \E spawn, occupy \in SUBSET Nodes, tick \in SUBSET Teams : Update(spawn, occupy, tick)

---------------------------------------------------------------------------
(***************************************************************************)
(* What the players see of a node is what the match counts: at most one    *)
(* banner stands there, the one of the state of the node or none while     *)
(* that one is still to come; the team that occupies it, and no other, has *)
(* its spirit guide there; its timer runs while it is contested, and only  *)
(* the enemy contests a node that was occupied.                            *)
(***************************************************************************)
NodesAgree ==
  \A n \in Nodes :
    /\ IF pending[n] = NoBanner THEN banners[n] = {node[n]}
       ELSE pending[n] = node[n] /\ banners[n] = {}
    /\ guides[n] = {t \in Teams : node[n] = Occupied(t)}
    /\ capturing[n] <=> node[n].type = "contested"
    /\ capturing[n] /\ before[n].type = "occupied" => before[n].team = Other(node[n].team)
=============================================================================
