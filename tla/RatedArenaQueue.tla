-------------------------- MODULE RatedArenaQueue --------------------------
(***************************************************************************)
(* Matchmaking of rated arenas, one arena type and bracket: the groups of  *)
(* arena teams wait in the premade queue of their faction, and an update   *)
(* of the queue looks for two of them inside a window around a rating.     *)
(* Updates are scheduled when a group joins and, second by second, by      *)
(* BattlegroundMgr::DynamicMMR, which widens the window of a group as it   *)
(* waits; a periodic forced update serves the group that came first.       *)
(*                                                                         *)
(* Waiting times are counted in the levels of DynamicMMR, which are of     *)
(* different lengths: a group reaches its next level in some pass of       *)
(* BattlegroundMgr::Update, and never before one that joined earlier.      *)
(***************************************************************************)
EXTENDS Integers, Sequences, FiniteSets, SequencesExt

CONSTANTS
  Groups,                   \* groups of players, each with its arena team
  Rating,                   \* [Groups -> Nat], ArenaMatchmakerRating
  Faction,                  \* [Groups -> Factions], the team of the leader
  MaxDifference,            \* GetMaxRatingDifference
  Step,                     \* the window grows by this at every level, 100
  Levels,                   \* how often it grows, 6
  Discard,                  \* level from which ratings are ignored
  Word                      \* 2^32, the range of arenaMinRating

Factions == {"alliance", "horde"}

ASSUME ArenaAssumption ==
  /\ IsFiniteSet(Groups)
  /\ Rating \in [Groups -> Nat \ {0}]
  /\ Faction \in [Groups -> Factions]
  /\ MaxDifference \in Nat \ {0} /\ Step \in Nat /\ Levels \in Nat
  /\ Discard \in Nat /\ Levels <= Discard
  /\ Word \in Nat /\ \A g \in Groups : Rating[g] + MaxDifference + Step * Levels < Word

VARIABLES
  queue,                    \* m_QueuedGroups, the two premade queues
  joined,                   \* groups in the queue in the order of JoinTime
  age,                      \* how long each has waited, in levels
  index,                    \* DynamicMMRindex
  opponent,                 \* the group that each was matched with, or itself
  scheduled                 \* m_QueueUpdateScheduler, of <<rating, index>>

vars == <<queue, joined, age, index, opponent, scheduled>>

Init ==
  /\ queue = [f \in Factions |-> <<>>]
  /\ joined = <<>>
  /\ age = [g \in Groups |-> 0]
  /\ index = [g \in Groups |-> 0]
  /\ opponent = [g \in Groups |-> g]
  /\ scheduled = <<>>

Queued == ToSet(joined)
Invited(g) == opponent[g] # g
Waiting == {g \in Queued : ~Invited(g)}

(* ScheduleQueueUpdate: an update that is scheduled is not added again. *)
Schedule(updates, u) == IF Contains(updates, u) THEN updates ELSE Append(updates, u)

---------------------------------------------------------------------------
(* Handlers.                                                               *)

(* HandleBattlemasterJoinArena and AddGroup. *)
Join(g) ==
  /\ g \notin Queued
  /\ queue' = [queue EXCEPT ![Faction[g]] = Append(@, g)]
  /\ joined' = Append(joined, g)
  /\ age' = [age EXCEPT ![g] = 0]
  /\ index' = [index EXCEPT ![g] = 0]
  /\ scheduled' = Schedule(scheduled, <<Rating[g], 0>>)
  /\ UNCHANGED opponent

(* RemovePlayer: a group that waits leaves as a whole, when one of its     *)
(* players does; an invited one when the last has entered or refused.      *)
Leave(g) ==
  /\ g \in Queued
  /\ queue' = [f \in Factions |-> RemoveFirst(queue[f], g)]
  /\ joined' = RemoveFirst(joined, g)
  /\ opponent' = [opponent EXCEPT ![g] = g]
  /\ UNCHANGED <<age, index, scheduled>>

(* Time passes for the groups that wait, and keeps their order. *)
Older(groups) == [g \in Groups |-> IF g \in groups THEN age[g] + 1 ELSE age[g]]

Age(groups) ==
  /\ groups # {}
  /\ \A g \in groups : age[g] < Discard
  /\ \A i, j \in DOMAIN joined :
       i < j /\ {joined[i], joined[j]} \subseteq Waiting =>
         Older(groups)[joined[i]] >= Older(groups)[joined[j]]
  /\ age' = Older(groups)
  /\ UNCHANGED <<queue, joined, index, opponent, scheduled>>

---------------------------------------------------------------------------
(* BattlegroundQueueUpdate, its rated part: it takes the queues and the    *)
(* opponents to new ones.                                                  *)

(* The window.  Its lower end is unsigned, and a high one for low ratings. *)
Lowest(rating, level) ==
  ((IF rating <= MaxDifference THEN 0 ELSE rating - MaxDifference) - Step * level) % Word
Highest(rating, level) == rating + MaxDifference + Step * level
Window(rating, level) == Lowest(rating, level)..Highest(rating, level)

\* Slip: the discard timer is not looked at.
MatchesWindow(g, rating, level) == Rating[g] \in Window(rating, level)

\* Slip: the window is widened at every level by what the last one allows.
MatchesWidest(g, rating, level) ==
  Rating[g] \in Window(rating, Levels) \/ age[g] >= Discard

Matches(g, rating, level) == Rating[g] \in Window(rating, level) \/ age[g] >= Discard

(* The groups that the update may match. *)
Free(s, rating, level) == {g \in Groups : s.opponent[g] = g /\ Matches(g, rating, level)}

(* The first of the groups in a queue, if there is one. *)
Foremost(q, groups) ==
  {q[i] : i \in {i \in DOMAIN q : q[i] \in groups /\ \A j \in 1..(i - 1) : q[j] \notin groups}}

(* The first group that matches in each queue; the second of one queue     *)
(* when there is none in the other.  There is one such pair at most.       *)
Pairs(s, free) ==
  LET a == Foremost(s.queue["alliance"], free)
      h == Foremost(s.queue["horde"], free)
  IN IF h = {} THEN a \X Foremost(s.queue["alliance"], free \ a)
     ELSE IF a = {} THEN h \X Foremost(s.queue["horde"], free \ h)
     ELSE a \X h

(* The two are invited, each in the queue of the side it plays on. *)
Meet(s, a, h) ==
  LET playsOn(q, g, other) == RemoveFirst(IF Contains(q, g) THEN q ELSE <<g>> \o q, other)
  IN [queue |-> [alliance |-> playsOn(s.queue["alliance"], a, h),
                 horde |-> playsOn(s.queue["horde"], h, a)],
      opponent |-> [s.opponent EXCEPT ![a] = h, ![h] = a]]

(* A set of one, as here that of free groups, has TLC evaluate it once. *)
QueueUpdate(s, rating, level) ==
  LET pairs == UNION {Pairs(s, free) : free \in {Free(s, rating, level)}}
  IN IF pairs = {} THEN s ELSE CHOOSE next \in {Meet(s, p[1], p[2]) : p \in pairs} : TRUE

(* An update of a rating and an index. *)
After(s, u) ==
  CHOOSE next \in {QueueUpdate(now, on[1], on[2]) : now \in {s}, on \in {u}} : TRUE

---------------------------------------------------------------------------
(* BattlegroundMgr::Update.                                                *)

LevelOf(a) == IF a > Levels THEN Levels ELSE a

\* Slip: a group is updated only when it reaches a level.
ReachesLevel(g) == age[g] > index[g]

(* DynamicMMR schedules an update for every group past the first level,    *)
(* each time that it runs.                                                 *)
Refreshes(g) == age[g] > 0

(* It goes through the two queues, when its timer of a second has passed. *)
Refreshed(g) == g \in Waiting /\ Refreshes(g)

DynamicMMR(updates) ==
  FoldLeft(LAMBDA us, g : IF Refreshed(g) THEN Schedule(us, <<Rating[g], LevelOf(age[g])>>) ELSE us,
           updates, queue["alliance"] \o queue["horde"])

(* The forced update takes the rating of the group that came first.  It is *)
(* an invited one as long as the first of a queue has not entered.         *)
Fronts(s) == {s.queue[f][1] : f \in {f \in Factions : s.queue[f] # <<>>}}
First(s) == CHOOSE g \in Foremost(joined, Fronts(s)) : TRUE
ForcedUpdate(s) == IF Fronts(s) = {} THEN s ELSE After(s, <<Rating[First(s)], 0>>)

Update(refresh, force) ==
  LET updates == IF refresh THEN DynamicMMR(scheduled) ELSE scheduled
      matched == FoldLeft(After,
                          [queue |-> queue, opponent |-> opponent], updates)
  IN /\ \E final \in {IF force THEN ForcedUpdate(matched) ELSE matched} :
          queue' = final.queue /\ opponent' = final.opponent
     /\ index' = [g \in Groups |-> IF refresh /\ Refreshed(g) THEN LevelOf(age[g]) ELSE index[g]]
     /\ scheduled' = <<>>
     /\ UNCHANGED <<joined, age>>

Next ==
  \/ \E refresh, force \in BOOLEAN : Update(refresh, force)
  \/ \E groups \in SUBSET Waiting : Age(groups)
  \/ \E g \in Groups : Join(g) \/ Leave(g)

Spec == Init /\ [][Next]_vars

(***************************************************************************)
(* The timer of forced updates passes again and again, and time passes for *)
(* every group that waits.  Players answer their invitations, or are       *)
(* removed when these expire.                                              *)
(***************************************************************************)
Fairness ==
  /\ WF_vars(\E refresh \in BOOLEAN : Update(refresh, TRUE))
  /\ \A g \in Groups :
       /\ WF_vars(\E groups \in SUBSET Waiting : g \in groups /\ Age(groups))
       /\ WF_vars(Invited(g) /\ Leave(g))

FairSpec == Spec /\ Fairness

---------------------------------------------------------------------------
Difference(g, h) == IF Rating[g] > Rating[h] THEN Rating[g] - Rating[h] ELSE Rating[h] - Rating[g]
Reach(level) == MaxDifference + Step * level

(***************************************************************************)
(* A group that waits among others does not only get its chance when it    *)
(* joins and when its window grows: whenever DynamicMMR runs, and the      *)
(* window of one reaches another that waits, two of those that waited are  *)
(* matched.  Its rating must be so high that the window stays above zero.  *)
(***************************************************************************)
CompatibleMeetSoon ==
  [][\A g, h \in Waiting :
       /\ g # h /\ age[g] > 0 /\ Rating[g] > Reach(Levels)
       /\ Difference(g, h) <= Reach(LevelOf(age[g]))
       /\ \E force \in BOOLEAN : Update(TRUE, force)
       => Waiting' # Waiting]_vars

(***************************************************************************)
(* Two groups that meet are both inside the window of some group, as wide  *)
(* as the level that this group has reached, unless one of them has waited *)
(* so long that ratings are ignored.                                       *)
(***************************************************************************)
OpponentsWithinWindow ==
  [][\A g, h \in Waiting :
       opponent'[g] = h /\ g # h /\ age[g] < Discard /\ age[h] < Discard =>
         \E k \in Groups : \E level \in 0..(IF k \in Waiting THEN LevelOf(age[k]) ELSE 0) :
            {Difference(g, k), Difference(h, k)} \subseteq 0..Reach(level)]_vars

(***************************************************************************)
(* Whatever their ratings, two groups do not wait for ever next to each    *)
(* other: the discard timer and the forced updates bring them together.    *)
(***************************************************************************)
NobodyWaitsForEver ==
  \A g \in Groups : []<>(g \notin Waiting \/ Waiting = {g})
=============================================================================
