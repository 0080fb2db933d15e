---------------------- MODULE BattlegroundMatch_proofs ----------------------
(***************************************************************************)
(* Proofs about how a match comes about and how it is played, in three     *)
(* parts that share no state.                                              *)
(*                                                                         *)
(* CrossfactionQueue, for all queues, sizes and instances.  OTeam disturbs *)
(* the selection through PreAddPlayers alone.  Where it does not (no OTeam *)
(* reads as ALLIANCE, or a running instance), the free slots that          *)
(* FillXPlayersToBG counts down are those the pools really have, until the *)
(* first time that a group is taken although it does not fit; then both    *)
(* pools are full but for less than the largest group.                     *)
(*                                                                         *)
(* RatedArenaQueue, for all groups, ratings and windows.  A pass of        *)
(* BattlegroundMgr::Update is a fold of queue updates over what is         *)
(* scheduled, and what the steps of the fold keep is what the pass keeps:  *)
(* that every group in the queue is in one of its two lists, and that      *)
(* whoever has been matched since the pass began was in the window of one  *)
(* of the updates that were due.                                           *)
(*                                                                         *)
(* BattlegroundMap, for every set of players and nodes and every number of *)
(* captures that wins.                                                     *)
(***************************************************************************)
EXTENDS CrossfactionQueue, RatedArenaQueue, BattlegroundMap, FoldLemmas, SequenceTheorems

\* PreAddPlayers has nothing to add.
Undisturbed == Start => oteam = {}

Fresh == Start /\ oteam = {} /\ Queue # {}

Alone == \A g \in Queue : size[g] = 1

Largest == Max({size[g] : g \in Queue})

\* The counters of the pools are the players of the groups in them.
Counted == \A t \in Teams : playerCount[t] = People(pool[t])

\* No group is taken twice.
Apart ==
  /\ \A t, u \in Teams : t # u => pool[t] \cap pool[u] = {}
  /\ pc \in {"begin", "preadd"} \/ Undisturbed => \A t \in Teams : pool[t] \cap todo = {}

\* Without OTeam a group is in the pool of its side, and none is there before
\* the last loop.
OnTheirSide ==
  /\ pc = "begin" => \A t \in Teams : left[t] = 0 /\ pool[t] = {} /\ playerCount[t] = 0
  /\ Undisturbed => \A t \in Teams : left[t] = 0 /\ \A g \in pool[t] : team[g] = t
  /\ Undisturbed /\ pc = "preadd" => \A t \in Teams : pool[t] = {} /\ playerCount[t] = 0

\* How the function gets where it is.
Course ==
  /\ ~OTeamMatches => oteam = {}
  /\ pc = "preadd" => Start
  /\ pc = "refused" => Start /\ ~EnoughPeople
  /\ pc = "filled" => todo = {}

Exact == \A t \in Teams : room[t] = MaxPlayersPerTeam - playerCount[t]

Even == Exact /\ \A t, u \in Teams : playerCount[t] - playerCount[u] <= Largest

Brimful == \A t \in Teams : MaxPlayersPerTeam - playerCount[t] < Largest

\* A new instance is filled evenly, or to the brim.
Filling == Fresh /\ pc \in {"preadd", "fill", "filled"} => Even \/ Brimful

\* Solo players fill both sides to the minimum.
SolosFill ==
  Fresh /\ Alone /\ MinPlayersPerTeam <= MaxPlayersPerTeam =>
    /\ pc = "preadd" => Exact
    /\ pc \in {"fill", "filled"} =>
         /\ Exact
         /\ \A t \in Teams : playerCount[t] <= MinPlayersPerTeam
         /\ \/ \A t \in Teams : playerCount[t] = MinPlayersPerTeam
            \/ playerCount["alliance"] + playerCount["horde"] = Cardinality(Queue \ todo)

SelectionIInv ==
  /\ TypeOK /\ PoolsFit
  /\ Counted /\ Apart /\ OnTheirSide /\ Course
  /\ Filling /\ SolosFill

-----------------------------------------------------------------------------
(***************************************************************************)
(* The queue and its players.                                              *)
(***************************************************************************)

LEMMA QueueFacts ==
  ASSUME size \in UNION {[1..n -> Sizes] : n \in 0..MaxGroups}
  PROVE  /\ IsFiniteSet(Queue) /\ Queue \subseteq Places /\ Places \subseteq Nat
         /\ Cardinality(Queue) \in Nat /\ Cardinality(Queue) <= MaxGroups
         /\ size \in [Queue -> Sizes] /\ size \in [Queue -> Nat \ {0}]
<1>1. PICK n \in 0..MaxGroups : size \in [1..n -> Sizes]
  OBVIOUS
<1>2. n \in Nat /\ MaxGroups \in Nat /\ n <= MaxGroups /\ Sizes \subseteq Nat \ {0}
  BY CrossfactionAssumption DEF CrossfactionAssumption
<1>3. Queue = 1..n
  BY <1>1 DEF Queue
<1>4. IsFiniteSet(1..n) /\ Cardinality(1..n) = n
  BY <1>2, FS_Interval
<1>5. size \in [Queue -> Sizes] /\ size \in [Queue -> Nat \ {0}]
  BY <1>1, <1>2, <1>3
<1>6. Queue \subseteq Places /\ Places \subseteq Nat
  BY <1>2, <1>3 DEF Places
<1>7. IsFiniteSet(Queue) /\ Cardinality(Queue) \in Nat /\ Cardinality(Queue) <= MaxGroups
  BY <1>2, <1>3, <1>4
<1> QED BY <1>5, <1>6, <1>7

LEMMA PeopleNatural ==
  ASSUME TypeOK, NEW S, S \subseteq Queue
  PROVE  IsFiniteSet(S) /\ People(S) \in Nat
<1>1. IsFiniteSet(Queue) /\ size \in [Queue -> Nat \ {0}]
  BY QueueFacts DEF TypeOK
<1>2. IsFiniteSet(S)
  BY <1>1, FS_Subset
<1>3. \A g \in S : size[g] \in Nat
  BY <1>1
<1> QED BY <1>2, <1>3, SumNat DEF People

\* A group more in a pool.
LEMMA OneGroupMore ==
  ASSUME TypeOK, NEW S, S \subseteq Queue, NEW g \in Queue, g \notin S
  PROVE  People(S \cup {g}) = People(S) + size[g]
<1> DEFINE T == S \cup {g}
<1>1. size \in [Queue -> Nat \ {0}]
  BY QueueFacts DEF TypeOK
<1>2. IsFiniteSet(T) /\ People(S) \in Nat
  BY PeopleNatural
<1>3. \A h \in T : size[h] \in Int
  BY <1>1
<1>4. g \in T /\ T \ {g} = S
  OBVIOUS
<1> HIDE DEF T
<1>5. SumFunctionOnSet(size, T) = size[g] + SumFunctionOnSet(size, S)
  BY <1>2, <1>3, <1>4, SumWithout
<1> QED BY <1>1, <1>2, <1>5 DEF People, T

\* Of solo players there are as many as groups.
LEMMA PeopleAlone ==
  ASSUME TypeOK, Alone, NEW S, S \subseteq Queue
  PROVE  People(S) = Cardinality(S)
<1> SUFFICES ASSUME People(S) # Cardinality(S) PROVE FALSE
  OBVIOUS
<1> DEFINE Bad == {V \in SUBSET S : People(V) # Cardinality(V)}
<1>1. PICK V \in Bad : \A W \in Bad : W \subseteq V => W = V
  <2>1. Bad \subseteq SUBSET S /\ Bad # {} /\ IsFiniteSet(S)
    BY PeopleNatural
  <2> HIDE DEF Bad
  <2> QED BY <2>1, SmallestSet
<1>2. V # {}
  BY SumOfNone, FS_EmptySet DEF People
<1>3. PICK g \in V : TRUE
  BY <1>2
<1>4. g \in Queue /\ V \ {g} \subseteq Queue /\ g \notin V \ {g} /\ V = (V \ {g}) \cup {g}
  OBVIOUS
<1>5. People(V \ {g}) = Cardinality(V \ {g})
  BY <1>1
<1>6. People(V) = People(V \ {g}) + 1
  BY <1>4, OneGroupMore DEF Alone
<1>7. IsFiniteSet(V) /\ Cardinality(V) \in Nat
  BY PeopleNatural, FS_CardinalityType
<1>8. Cardinality(V \ {g}) = Cardinality(V) - 1
  BY <1>7, FS_RemoveElement
<1> QED BY <1>5, <1>6, <1>7, <1>8

\* There is a largest group.
LEMMA LargestGroup ==
  ASSUME TypeOK, Queue # {}
  PROVE  Largest \in Nat /\ \A g \in Queue : size[g] <= Largest
<1>1. IsFiniteSet(Queue) /\ size \in [Queue -> Nat \ {0}]
  BY QueueFacts DEF TypeOK
<1> DEFINE Lacks(V) == \A g \in V : \E h \in V : size[h] > size[g]
           Bad == {V \in SUBSET Queue : V # {} /\ Lacks(V)}
<1>2. ASSUME Lacks(Queue) PROVE FALSE
  <2>1. PICK V \in Bad : \A W \in Bad : W \subseteq V => W = V
    <3>1. Bad \subseteq SUBSET Queue /\ Bad # {}
      BY <1>2
    <3> HIDE DEF Bad
    <3> QED BY <1>1, <3>1, SmallestSet
  <2>2. PICK g \in V : TRUE
    OBVIOUS
  <2>3. PICK h \in V : size[h] > size[g]
    OBVIOUS
  <2>4. V \ {g} \notin Bad /\ h \in V \ {g}
    <3>1. size[g] \in Nat
      BY <1>1
    <3>2. h # g
      BY <2>3, <3>1
    <3>3. V \ {g} # V /\ V \ {g} \subseteq V
      OBVIOUS
    <3> QED BY <2>1, <3>2, <3>3
  <2>5. PICK k \in V \ {g} : \A j \in V \ {g} : ~(size[j] > size[k])
    BY <2>4
  <2>6. \A j \in V : size[j] \in Nat
    BY <1>1
  <2>7. ~(size[g] > size[k])
    BY <2>3, <2>4, <2>5, <2>6
  <2> QED BY <2>5, <2>7
<1>3. PICK g \in Queue : \A h \in Queue : ~(size[h] > size[g])
  BY <1>2
<1> DEFINE S == {size[h] : h \in Queue}
<1>4. size[g] \in S /\ size[g] \in Nat /\ \A y \in S : y \in Nat /\ size[g] >= y
  BY <1>1, <1>3
<1>5. Max(S) \in S /\ \A y \in S : Max(S) >= y
  <2> HIDE DEF S
  <2> QED BY <1>4 DEF Max
<1>6. \A h \in Queue : size[h] \in S
  OBVIOUS
<1>7. Largest = Max(S)
  BY DEF Largest
<1> HIDE DEF S
<1> QED BY <1>4, <1>5, <1>6, <1>7

\* An instance never offers a negative number of free slots.
LEMMA FreeIsNatural ==
  ASSUME bg \in Instances, NEW t \in Teams
  PROVE  FreeSlots(t) \in Nat
<1>1. CASE Start
  BY <1>1, CrossfactionAssumption DEF FreeSlots, CrossfactionAssumption
<1>2. CASE ~Start
  <2>1. /\ bg.status \in {"wait_join", "in_progress"}
        /\ bg.invited \in [Teams -> Int] /\ bg.inside \in [Teams -> Int]
    <3>1. bg \in [status: Calls \ {"none"}, invited: Tallies, inside: Tallies]
      BY <1>2 DEF Start, Instances
    <3>2. \A f \in Tallies : f \in [Teams -> Int]
      BY CrossfactionAssumption DEF Tallies, CrossfactionAssumption
    <3> QED BY <3>1, <3>2, CrossfactionAssumption DEF CrossfactionAssumption
  <2> DEFINE u == System!OtherTeam(t)
  <2>2. u \in Teams /\ t \in Teams
    BY DEF System!OtherTeam, Teams
  <2>3. /\ bg.invited[t] \in Int /\ bg.invited[u] \in Int
        /\ bg.inside[t] \in Int /\ bg.inside[u] \in Int
    BY <2>1, <2>2
  <2>4. MinPlayersPerTeam \in Nat /\ MaxPlayersPerTeam \in Nat
    BY CrossfactionAssumption DEF CrossfactionAssumption
  <2>5. System!RoomLeft(Bg, t) >= 0 /\ System!RoomLeft(Bg, t) \in Int
    BY <2>3, <2>4 DEF System!RoomLeft, System!Surplus
  <2>6. \A m, n \in Int : System!Balance(m, n) \in Int /\ System!Balance(m, n) >= 0
    BY DEF System!Balance, System!Surplus
  <2>7. System!BalanceInside(Bg, t) =
          IF bg.inside[t] > bg.inside[u] /\ bg.invited[t] <= MinPlayersPerTeam
          THEN MinPlayersPerTeam - bg.invited[t] + 1
          ELSE System!Balance(bg.inside[t], bg.inside[u])
    BY DEF System!BalanceInside
  <2>8. System!BalanceInside(Bg, t) \in Int /\ System!BalanceInside(Bg, t) >= 0
    <3>1. System!Balance(bg.inside[t], bg.inside[u]) \in Int
          /\ System!Balance(bg.inside[t], bg.inside[u]) >= 0
      BY <2>3, <2>6
    <3> QED BY <2>3, <2>4, <2>7, <3>1
  <2>9. System!GetFreeSlotsForTeam(Bg, t) \in Nat
    BY <2>1, <2>3, <2>5, <2>6, <2>8
       DEF System!GetFreeSlotsForTeam, System!Least, System!Open
  <2> QED BY <1>2, <2>9 DEF FreeSlots
<1> QED BY <1>1, <1>2

\* Free slots are a matter of the instance alone.
LEMMA FreeUnchanged ==
  ASSUME bg' = bg, NEW t \in Teams
  PROVE  FreeSlots(t)' = FreeSlots(t)
BY DEF FreeSlots, Start, System!GetFreeSlotsForTeam, System!RoomLeft, System!Least,
       System!Surplus, System!Balance, System!BalanceInside,
       System!OtherTeam, System!Open

LEMMA SmallestOfFour ==
  ASSUME NEW a \in Nat, NEW b \in Nat, NEW c \in Nat, NEW d \in Nat
  PROVE  LET m == Min({a, b} \cup {c, d})
         IN  m \in Nat /\ m <= a /\ m <= b /\ m <= c /\ m <= d
<1> DEFINE S == {a, b} \cup {c, d}
<1>1. \E x \in S : \A y \in S : x <= y
  <2>1. PICK x \in {a, b} : x <= a /\ x <= b
    OBVIOUS
  <2>2. PICK y \in {c, d} : y <= c /\ y <= d
    OBVIOUS
  <2> QED BY <2>1, <2>2
<1>2. Min(S) \in S /\ \A y \in S : Min(S) <= y
  <2> HIDE DEF S
  <2> QED BY <1>1 DEF Min
<1> QED BY <1>2

\* The smaller of the two teams, as far as it has room.
LEMMA Smallest ==
  ASSUME TypeOK
  PROVE  /\ SmallestOfTeams \in Nat
         /\ \A t \in Teams : /\ SmallestOfTeams <= People(OSide(t))
                             /\ SmallestOfTeams <= FreeSlots(t)
<1> DEFINE a == FreeSlots("alliance")  b == FreeSlots("horde")
           c == People(OSide("alliance"))  d == People(OSide("horde"))
<1>1. {FreeSlots(t) : t \in Teams} = {a, b} /\ {People(OSide(t)) : t \in Teams} = {c, d}
  BY DEF Teams
<1>2. a \in Nat /\ b \in Nat
  BY FreeIsNatural DEF TypeOK, Teams
<1>3. \A t \in Teams : OSide(t) \subseteq Queue
  BY DEF TypeOK, OSide
<1>4. c \in Nat /\ d \in Nat
  BY <1>3, PeopleNatural DEF Teams
<1>5. SmallestOfTeams = Min({a, b} \cup {c, d})
  BY <1>1 DEF SmallestOfTeams
<1> HIDE DEF a, b, c, d
<1>6. SmallestOfTeams \in Nat /\ SmallestOfTeams <= a /\ SmallestOfTeams <= b
      /\ SmallestOfTeams <= c /\ SmallestOfTeams <= d
  BY <1>2, <1>4, <1>5, SmallestOfFour
<1> QED BY <1>6 DEF a, b, c, d, Teams

-----------------------------------------------------------------------------
(***************************************************************************)
(* The steps.                                                              *)
(***************************************************************************)

\* The queue and the instance stay while the function runs.
LEMMA Frame ==
  ASSUME size' = size, bg' = bg, oteam' = oteam
  PROVE  /\ Queue' = Queue /\ Start' = Start /\ (Undisturbed' <=> Undisturbed)
         /\ (Fresh' <=> Fresh) /\ (Alone' <=> Alone) /\ Largest' = Largest
         /\ (EnoughPeople' <=> EnoughPeople)
         /\ \A t \in Teams : FreeSlots(t)' = FreeSlots(t)
<1>1. Queue' = Queue /\ Start' = Start
  BY DEF Queue, Start
<1>2. \A t \in Teams : FreeSlots(t)' = FreeSlots(t)
  BY FreeUnchanged
<1> QED BY <1>1, <1>2 DEF Undisturbed, Fresh, Alone, Largest, EnoughPeople, People

LEMMA TypesKept ==
  ASSUME TypeOK, size' = size, bg' = bg, oteam' = oteam,
         team' \in [Queue -> Teams],
         pc' \in {"begin", "preadd", "fill", "filled", "refused"},
         todo' \subseteq Queue, left' \in [Teams -> Nat],
         pool' \in [Teams -> SUBSET Queue], playerCount' \in [Teams -> Nat],
         room' \in [Teams -> Int]
  PROVE  TypeOK'
BY Frame DEF TypeOK

\* A pool takes a group that fits in, or is left as it is.
LEMMA AddGroupKeeps ==
  ASSUME TypeOK, PoolsFit, Counted, size' = size, bg' = bg, oteam' = oteam,
         NEW g \in Queue, NEW t \in Teams, g \notin pool[t], AddGroup(g, t)
  PROVE  /\ pool' \in [Teams -> SUBSET Queue] /\ playerCount' \in [Teams -> Nat]
         /\ \A u \in Teams : u # t => pool'[u] = pool[u] /\ playerCount'[u] = playerCount[u]
         /\ IF Fits(g, t) THEN pool'[t] = pool[t] \cup {g} /\ playerCount'[t] = playerCount[t] + size[g]
                          ELSE pool'[t] = pool[t] /\ playerCount'[t] = playerCount[t]
         /\ PoolsFit' /\ Counted'
<1>1. /\ size[g] \in Nat \ {0} /\ pool \in [Teams -> SUBSET Queue]
      /\ playerCount \in [Teams -> Nat]
  BY QueueFacts DEF TypeOK
<1>2. /\ pool' \in [Teams -> SUBSET Queue] /\ playerCount' \in [Teams -> Nat]
      /\ \A u \in Teams : u # t => pool'[u] = pool[u] /\ playerCount'[u] = playerCount[u]
      /\ IF Fits(g, t) THEN pool'[t] = pool[t] \cup {g} /\ playerCount'[t] = playerCount[t] + size[g]
                       ELSE pool'[t] = pool[t] /\ playerCount'[t] = playerCount[t]
  <2>1. CASE Fits(g, t)
    BY <1>1, <2>1 DEF AddGroup
  <2>2. CASE ~Fits(g, t)
    BY <1>1, <2>2 DEF AddGroup
  <2> QED BY <2>1, <2>2
<1>3. PoolsFit'
  BY <1>2, Frame DEF PoolsFit, Fits
<1>4. Counted'
  <2>1. pool[t] \subseteq Queue
    BY <1>1
  <2>2. People(pool[t] \cup {g}) = People(pool[t]) + size[g]
    BY <2>1, OneGroupMore
  <2>3. \A u \in Teams : playerCount'[u] = People(pool'[u])
    BY <1>2, <2>2 DEF Counted
  <2> QED BY <2>3 DEF Counted, People
<1> QED BY <1>2, <1>3, <1>4

LEMMA InitHolds ==
  ASSUME SelectionInit
  PROVE  SelectionIInv
<1>1. TypeOK
  <2>1. 0 \in Nat /\ 0 \in Int /\ {} \subseteq Queue
    OBVIOUS
  <2>2. oteam \subseteq Queue
    BY DEF SelectionInit
  <2> QED BY <2>1, <2>2 DEF SelectionInit, TypeOK
<1>2. \A t \in Teams : pool[t] = {} /\ playerCount[t] = 0 /\ left[t] = 0
  BY DEF SelectionInit
<1>3. PoolsFit
  BY <1>1, <1>2, FreeIsNatural DEF PoolsFit, TypeOK
<1>4. Counted
  BY <1>2, SumOfNone DEF Counted, People
<1>5. Apart /\ OnTheirSide
  BY <1>2 DEF Apart, OnTheirSide
<1>6. Course
  BY DEF SelectionInit, Course
<1>7. Filling /\ SolosFill
  BY DEF SelectionInit, Filling, SolosFill
<1> QED BY <1>1, <1>3, <1>4, <1>5, <1>6, <1>7 DEF SelectionIInv

LEMMA BeginKeeps ==
  ASSUME SelectionIInv, Begin
  PROVE  SelectionIInv'
<1>1. /\ size' = size /\ bg' = bg /\ oteam' = oteam /\ team' = team
      /\ pool' = pool /\ playerCount' = playerCount /\ pc = "begin"
  BY DEF Begin
<1>2. TypeOK /\ \A t \in Teams : left[t] = 0 /\ pool[t] = {} /\ playerCount[t] = 0
  BY <1>1 DEF SelectionIInv, OnTheirSide
<1>3. CASE Start /\ ~EnoughPeople
  <2>1. pc' = "refused" /\ todo' = todo /\ left' = left /\ room' = room
    BY <1>3 DEF Begin
  <2>2. TypeOK'
    BY <1>1, <1>2, <2>1, TypesKept DEF TypeOK
  <2>3. PoolsFit' /\ Counted'
    BY <1>1, Frame DEF SelectionIInv, PoolsFit, Counted, People
  <2>4. Apart' /\ OnTheirSide'
    BY <1>1, <1>2, <2>1 DEF Apart, OnTheirSide
  <2>5. Course' /\ Filling' /\ SolosFill'
    BY <1>1, <1>3, <2>1, Frame DEF SelectionIInv, Course, Filling, SolosFill
  <2> QED BY <2>2, <2>3, <2>4, <2>5 DEF SelectionIInv
<1>4. CASE ~(Start /\ ~EnoughPeople)
  <2>1. /\ pc' = IF Start THEN "preadd" ELSE "fill"
        /\ todo' = Queue
        /\ left' = [t \in Teams |-> IF Start THEN SmallestOfTeams ELSE 0]
        /\ room' = [t \in Teams |-> FreeSlots(t)]
    BY <1>4 DEF Begin
  <2>2. left' \in [Teams -> Nat] /\ room' \in [Teams -> Int]
    <3>1. SmallestOfTeams \in Nat /\ \A t \in Teams : FreeSlots(t) \in Nat
      BY <1>2, Smallest, FreeIsNatural DEF TypeOK
    <3> QED BY <2>1, <3>1
  <2>3. TypeOK'
    BY <1>1, <1>2, <2>1, <2>2, TypesKept DEF TypeOK
  <2>4. PoolsFit' /\ Counted'
    BY <1>1, Frame DEF SelectionIInv, PoolsFit, Counted, People
  <2>5. Apart'
    BY <1>1, <1>2 DEF Apart
  <2>6. Undisturbed => \A t \in Teams : left'[t] = 0
    <3>1. CASE ~Start
      BY <2>1, <3>1
    <3>2. CASE Start /\ oteam = {}
      <4>1. People(OSide("alliance")) = 0
        BY <3>2, SumOfNone DEF OSide, People
      <4>2. SmallestOfTeams = 0
        BY <1>2, <4>1, Smallest DEF Teams
      <4> QED BY <2>1, <4>2
    <3> QED BY <3>1, <3>2 DEF Undisturbed
  <2>7. OnTheirSide'
    BY <1>1, <1>2, <2>1, <2>6, Frame DEF OnTheirSide
  <2>8. Start => \A t \in Teams : room'[t] = MaxPlayersPerTeam - playerCount'[t]
    BY <1>1, <1>2, <2>1, CrossfactionAssumption DEF FreeSlots, CrossfactionAssumption
  <2>9. Course' /\ Filling' /\ SolosFill'
    <3>1. Course'
      BY <1>1, <2>1, Frame DEF SelectionIInv, Course
    <3>2. Start => Exact'
      BY <2>8 DEF Exact
    <3>3. ASSUME Fresh PROVE Even'
      <4>1. Largest \in Nat
        BY <1>2, <3>3, LargestGroup DEF Fresh
      <4> QED BY <1>1, <1>2, <3>2, <3>3, <4>1, Frame DEF Even, Fresh
    <3>4. Filling'
      BY <1>1, <3>3, Frame DEF Filling
    <3>5. SolosFill'
      <4>1. Start => pc' = "preadd"
        BY <2>1
      <4>2. Fresh' => Start
        BY <1>1, Frame DEF Fresh
      <4> QED BY <3>2, <4>1, <4>2 DEF SolosFill
    <3> QED BY <3>1, <3>4, <3>5
  <2> QED BY <2>3, <2>4, <2>5, <2>7, <2>9 DEF SelectionIInv
<1> QED BY <1>3, <1>4

LEMMA PreAddKeeps ==
  ASSUME SelectionIInv, NEW g \in todo, NEW t \in Teams, PreAdd(g, t)
  PROVE  SelectionIInv'
<1>1. /\ size' = size /\ bg' = bg /\ oteam' = oteam /\ team' = team /\ room' = room
      /\ pc = "preadd" /\ pc' = "preadd" /\ todo' = todo \ {g}
  BY DEF PreAdd
<1>2. /\ TypeOK /\ PoolsFit /\ Counted /\ todo \subseteq Queue /\ g \in Queue
      /\ left \in [Teams -> Nat] /\ size[g] \in Nat \ {0}
  BY QueueFacts DEF SelectionIInv, TypeOK
<1>3. g \notin pool[t] /\ \A u \in Teams : pool[u] \cap todo = {}
  BY <1>1 DEF SelectionIInv, Apart
<1>4. CASE size[g] <= left[t]
  <2>1. /\ AddGroup(g, t)
        /\ left' = IF Accepted(g, t) THEN [left EXCEPT ![t] = @ - size[g]] ELSE left
    BY <1>4 DEF PreAdd
  <2>2. /\ pool' \in [Teams -> SUBSET Queue] /\ playerCount' \in [Teams -> Nat]
        /\ \A u \in Teams : u # t => pool'[u] = pool[u]
        /\ pool'[t] \in {pool[t], pool[t] \cup {g}}
        /\ PoolsFit' /\ Counted'
    BY <1>1, <1>2, <1>3, <2>1, AddGroupKeeps
  <2>3. left' \in [Teams -> Nat]
    <3>1. left[t] - size[g] \in Nat
      BY <1>2, <1>4
    <3> QED BY <1>2, <2>1, <3>1
  <2>4. TypeOK'
    BY <1>1, <1>2, <2>2, <2>3, TypesKept DEF TypeOK
  <2>5. Apart'
    <3>1. \A u \in Teams : pool'[u] \cap todo' = {}
      BY <1>1, <1>3, <2>2
    <3>2. \A u, v \in Teams : u # v => pool'[u] \cap pool'[v] = {}
      <4>1. \A u \in Teams : g \notin pool[u]
        BY <1>3
      <4> QED BY <2>2, <4>1 DEF SelectionIInv, Apart
    <3> QED BY <3>1, <3>2 DEF Apart
  <2>6. ~Undisturbed
    BY <1>2, <1>4 DEF SelectionIInv, OnTheirSide
  <2>7. OnTheirSide' /\ ~Fresh'
    BY <1>1, <2>6, Frame DEF OnTheirSide, Fresh, Undisturbed
  <2>8. Course' /\ Filling' /\ SolosFill'
    BY <1>1, <2>7, Frame DEF SelectionIInv, Course, Filling, SolosFill
  <2> QED BY <2>2, <2>4, <2>5, <2>7, <2>8 DEF SelectionIInv
<1>5. CASE ~(size[g] <= left[t])
  <2>1. pool' = pool /\ playerCount' = playerCount /\ left' = left
    BY <1>5 DEF PreAdd
  <2>2. TypeOK'
    BY <1>1, <1>2, <2>1, TypesKept DEF TypeOK
  <2>3. PoolsFit' /\ Counted'
    BY <1>1, <2>1, Frame DEF SelectionIInv, PoolsFit, Counted, People
  <2>4. Apart' /\ OnTheirSide'
    BY <1>1, <2>1, Frame DEF SelectionIInv, Apart, OnTheirSide
  <2>5. Course' /\ Filling' /\ SolosFill'
    BY <1>1, <2>1, Frame
       DEF SelectionIInv, Course, Filling, SolosFill, Exact, Even, Brimful
  <2> QED BY <2>2, <2>3, <2>4, <2>5 DEF SelectionIInv
<1> QED BY <1>4, <1>5

LEMMA PreAddedKeeps ==
  ASSUME SelectionIInv, PreAdded
  PROVE  SelectionIInv'
<1>1. /\ size' = size /\ bg' = bg /\ oteam' = oteam /\ team' = team /\ left' = left
      /\ pool' = pool /\ playerCount' = playerCount /\ pc = "preadd" /\ pc' = "fill"
      /\ todo' = Queue /\ room' = [t \in Teams |-> room[t] - left[t]]
  BY DEF PreAdded
<1>2. TypeOK /\ left \in [Teams -> Nat] /\ room \in [Teams -> Int]
  BY DEF SelectionIInv, TypeOK
<1>3. TypeOK'
  <2>1. room' \in [Teams -> Int]
    BY <1>1, <1>2
  <2> QED BY <1>1, <1>2, <2>1, TypesKept DEF TypeOK
<1>4. PoolsFit' /\ Counted'
  BY <1>1, Frame DEF SelectionIInv, PoolsFit, Counted, People
<1>5. Undisturbed => \A t \in Teams :
        room'[t] = room[t] /\ pool[t] = {} /\ playerCount[t] = 0
  BY <1>1, <1>2 DEF SelectionIInv, OnTheirSide
<1>6. Apart' /\ OnTheirSide'
  BY <1>1, <1>5, Frame DEF SelectionIInv, Apart, OnTheirSide
<1>7. Fresh => Undisturbed /\ (Exact' <=> Exact) /\ (Even' <=> Even) /\ (Brimful' <=> Brimful)
  BY <1>1, <1>5, Frame DEF Fresh, Undisturbed, Exact, Even, Brimful
<1>8. Course' /\ Filling'
  BY <1>1, <1>7, Frame DEF SelectionIInv, Course, Filling
<1>9. SolosFill'
  <2>1. Cardinality(Queue \ todo)' = 0
    BY <1>1, Frame, FS_EmptySet
  <2>2. Teams = {"alliance", "horde"} /\ MinPlayersPerTeam \in Nat
    BY CrossfactionAssumption DEF Teams, CrossfactionAssumption
  <2>3. Undisturbed => /\ \A t \in Teams : playerCount'[t] <= MinPlayersPerTeam
                       /\ playerCount'["alliance"] + playerCount'["horde"] = 0
    BY <1>1, <1>5, <2>2
  <2> QED BY <1>1, <1>7, <2>1, <2>3, Frame DEF SelectionIInv, SolosFill
<1> QED BY <1>3, <1>4, <1>6, <1>8, <1>9 DEF SelectionIInv

LEMMA FilledKeeps ==
  ASSUME SelectionIInv, (pc = "fill" /\ pc' = "filled" /\ todo = {}) \/ pc' = pc,
         UNCHANGED <<size, bg, oteam, team, todo, left, pool, playerCount, room>>
  PROVE  SelectionIInv'
<1>1. TypeOK'
  BY TypesKept DEF SelectionIInv, TypeOK
<1>2. PoolsFit' /\ Counted'
  BY Frame DEF SelectionIInv, PoolsFit, Counted, People
<1>3. Apart' /\ OnTheirSide'
  BY Frame DEF SelectionIInv, Apart, OnTheirSide
<1>4. Course' /\ Filling' /\ SolosFill'
  BY Frame DEF SelectionIInv, Course, Filling, SolosFill, Exact, Even, Brimful
<1> QED BY <1>1, <1>2, <1>3, <1>4 DEF SelectionIInv

\* The side with more room; of two sides there is another one.
LEMMA SideForFacts ==
  ASSUME TypeOK, NEW g \in Queue
  PROVE  /\ SideFor(g) \in Teams
         /\ \A t \in Teams : room[SideFor(g)] >= room[t]
<1>1. team[g] \in Teams /\ room["alliance"] \in Int /\ room["horde"] \in Int
  BY DEF TypeOK, Teams
<1> QED BY <1>1 DEF SideFor, Teams

\* What a new instance has of a group more, while the free slots are counted right.
LEMMA FillsEvenly ==
  ASSUME TypeOK, PoolsFit, Fresh, Even, NEW g \in Queue, NEW t \in Teams,
         \A u \in Teams : room[t] >= room[u],
         size' = size, bg' = bg, oteam' = oteam,
         playerCount' \in [Teams -> Nat], \A u \in Teams : u # t => playerCount'[u] = playerCount[u],
         playerCount'[t] = IF Fits(g, t) THEN playerCount[t] + size[g] ELSE playerCount[t],
         room' = IF Accepted(g, t) THEN [room EXCEPT ![t] = @ - size[g]] ELSE room
  PROVE  Even' \/ Brimful'
<1>1. /\ size[g] \in Nat \ {0} /\ size[g] <= Largest /\ Largest \in Nat
      /\ playerCount \in [Teams -> Nat] /\ room \in [Teams -> Int] /\ MaxPlayersPerTeam \in Nat
  BY QueueFacts, LargestGroup, CrossfactionAssumption
     DEF TypeOK, Fresh, CrossfactionAssumption
<1>2. Largest' = Largest
  BY Frame
<1>3. \A u \in Teams : FreeSlots(u) = MaxPlayersPerTeam /\ playerCount[u] <= MaxPlayersPerTeam
  BY DEF Fresh, FreeSlots, PoolsFit
<1>4. \A u \in Teams : room[u] = MaxPlayersPerTeam - playerCount[u] /\ playerCount[t] <= playerCount[u]
  BY <1>1 DEF Even, Exact
<1>5. CASE Fits(g, t)
  <2>1. /\ playerCount'[t] = playerCount[t] + size[g]
        /\ room'[t] = room[t] - size[g] /\ \A u \in Teams : u # t => room'[u] = room[u]
    BY <1>1, <1>5 DEF Accepted
  <2>2. Exact'
    BY <1>1, <1>4, <2>1 DEF Exact
  <2>3. \A u, v \in Teams : playerCount'[u] - playerCount'[v] <= Largest
    <3> TAKE u, v \in Teams
    <3>1. playerCount[u] \in Nat /\ playerCount[v] \in Nat /\ playerCount[t] \in Nat
          /\ playerCount[t] <= playerCount[v] /\ playerCount[u] - playerCount[v] <= Largest
      BY <1>1, <1>4 DEF Even
    <3>2. playerCount'[u] = (IF u = t THEN playerCount[t] + size[g] ELSE playerCount[u])
          /\ playerCount'[v] = (IF v = t THEN playerCount[t] + size[g] ELSE playerCount[v])
      BY <2>1
    <3> QED BY <1>1, <3>1, <3>2
  <2> QED BY <1>2, <2>2, <2>3 DEF Even
<1>6. CASE ~Fits(g, t)
  <2>1. \A u \in Teams : playerCount'[u] = playerCount[u]
    BY <1>6
  <2>2. CASE playerCount[t] < MaxPlayersPerTeam
    <3>1. MaxPlayersPerTeam < playerCount[t] + size[g]
      BY <1>1, <1>3, <1>6 DEF Fits
    <3>2. \A u \in Teams : MaxPlayersPerTeam - playerCount[u] < Largest
      BY <1>1, <1>4, <3>1
    <3> QED BY <1>2, <2>1, <3>2 DEF Brimful
  <2>3. CASE ~(playerCount[t] < MaxPlayersPerTeam)
    <3>1. room' = room
      BY <1>3, <1>6, <2>3 DEF Accepted
    <3>2. Even'
      BY <1>2, <2>1, <3>1 DEF Even, Exact
    <3> QED BY <3>2
  <2> QED BY <2>2, <2>3
<1> QED BY <1>5, <1>6

\* A full instance stays full.
LEMMA StaysBrimful ==
  ASSUME TypeOK, Fresh, Brimful, NEW g \in Queue, NEW t \in Teams,
         size' = size, bg' = bg, oteam' = oteam,
         \A u \in Teams : u # t => playerCount'[u] = playerCount[u],
         playerCount'[t] = IF Fits(g, t) THEN playerCount[t] + size[g] ELSE playerCount[t]
  PROVE  Brimful'
<1>1. /\ size[g] \in Nat \ {0} /\ Largest \in Nat
      /\ playerCount \in [Teams -> Nat] /\ MaxPlayersPerTeam \in Nat
  BY QueueFacts, LargestGroup, CrossfactionAssumption
     DEF TypeOK, Fresh, CrossfactionAssumption
<1>2. Largest' = Largest
  BY Frame
<1>3. \A u \in Teams : playerCount'[u] >= playerCount[u]
  BY <1>1
<1>4. \A u \in Teams : playerCount'[u] \in Nat
  BY <1>1
<1>5. \A u \in Teams : MaxPlayersPerTeam - playerCount'[u] < Largest
  BY <1>1, <1>3, <1>4 DEF Brimful
<1> QED BY <1>2, <1>5 DEF Brimful

\* A solo player more goes to the side that has fewer.
LEMMA FillsWithSolos ==
  ASSUME SelectionIInv, Fresh, Alone, MinPlayersPerTeam <= MaxPlayersPerTeam, pc = "fill",
         NEW g \in todo, NEW t \in Teams, \A u \in Teams : room[t] >= room[u],
         \E u \in Teams : playerCount[u] < MinPlayersPerTeam,
         size' = size, bg' = bg, oteam' = oteam, todo' = todo \ {g},
         \A u \in Teams : u # t => playerCount'[u] = playerCount[u],
         playerCount' \in [Teams -> Nat],
         playerCount'[t] = IF Fits(g, t) THEN playerCount[t] + size[g] ELSE playerCount[t],
         room' = IF Accepted(g, t) THEN [room EXCEPT ![t] = @ - size[g]] ELSE room
  PROVE  /\ Exact'
         /\ \A u \in Teams : playerCount'[u] <= MinPlayersPerTeam
         /\ playerCount'["alliance"] + playerCount'["horde"] = Cardinality(Queue \ todo)'
<1>1. /\ TypeOK /\ g \in Queue /\ size[g] = 1 /\ todo \subseteq Queue
      /\ playerCount \in [Teams -> Nat] /\ room \in [Teams -> Int]
      /\ MinPlayersPerTeam \in Nat /\ MaxPlayersPerTeam \in Nat
  BY CrossfactionAssumption DEF SelectionIInv, TypeOK, Alone, CrossfactionAssumption
<1>2. /\ \A u \in Teams : /\ room[u] = MaxPlayersPerTeam - playerCount[u]
                          /\ playerCount[u] <= MinPlayersPerTeam
      /\ playerCount["alliance"] + playerCount["horde"] = Cardinality(Queue \ todo)
  <2>1. ~\A u \in Teams : playerCount[u] = MinPlayersPerTeam
    BY <1>1
  <2> QED BY <2>1 DEF SelectionIInv, SolosFill, Exact
<1>3. playerCount[t] < MinPlayersPerTeam
  BY <1>1, <1>2
<1>4. Fits(g, t)
  BY <1>1, <1>3 DEF Fits, FreeSlots, Fresh
<1>5. /\ playerCount'[t] = playerCount[t] + 1
      /\ room'[t] = room[t] - 1 /\ \A u \in Teams : u # t => room'[u] = room[u]
  BY <1>1, <1>4 DEF Accepted
<1>6. Exact' /\ \A u \in Teams : playerCount'[u] <= MinPlayersPerTeam
  BY <1>1, <1>2, <1>3, <1>5 DEF Exact
<1>7. playerCount'["alliance"] + playerCount'["horde"] = playerCount["alliance"] + playerCount["horde"] + 1
  BY <1>1, <1>5 DEF Teams
<1>8. Cardinality(Queue \ todo)' = Cardinality(Queue \ todo) + 1
  <2>1. IsFiniteSet(Queue \ todo) /\ g \notin Queue \ todo
    BY <1>1, PeopleNatural
  <2>2. (Queue \ todo)' = (Queue \ todo) \cup {g}
    BY <1>1, Frame
  <2>3. Cardinality((Queue \ todo) \cup {g}) = Cardinality(Queue \ todo) + 1
    BY <2>1, FS_AddElement
  <2> QED BY <2>2, <2>3
<1> QED BY <1>2, <1>6, <1>7, <1>8

LEMMA FillKeeps ==
  ASSUME SelectionIInv, NEW g \in todo, Fill(g)
  PROVE  SelectionIInv'
<1>1. /\ size' = size /\ bg' = bg /\ oteam' = oteam /\ left' = left
      /\ pc = "fill" /\ pc' = "fill" /\ todo' = todo \ {g}
  BY DEF Fill
<1>2. /\ TypeOK /\ PoolsFit /\ Counted /\ todo \subseteq Queue /\ g \in Queue
      /\ playerCount \in [Teams -> Nat] /\ MinPlayersPerTeam \in Nat
  BY CrossfactionAssumption DEF SelectionIInv, TypeOK, CrossfactionAssumption
<1>3. Course'
  BY <1>1 DEF SelectionIInv, Course
<1>4. CASE Skipped(g)
  <2>1. team' = team /\ pool' = pool /\ playerCount' = playerCount /\ room' = room
    BY <1>4 DEF Fill
  <2>2. TypeOK'
    BY <1>1, <1>2, <2>1, TypesKept DEF TypeOK
  <2>3. PoolsFit' /\ Counted'
    BY <1>1, <2>1, Frame DEF SelectionIInv, PoolsFit, Counted, People
  <2>4. Apart' /\ OnTheirSide'
    BY <1>1, <2>1, Frame DEF SelectionIInv, Apart, OnTheirSide
  <2>5. Filling'
    BY <1>1, <2>1, Frame DEF SelectionIInv, Filling, Exact, Even, Brimful
  <2>6. SolosFill'
    <3> SUFFICES ASSUME Fresh, Alone, MinPlayersPerTeam <= MaxPlayersPerTeam
                 PROVE  /\ Exact' /\ \A t \in Teams : playerCount'[t] <= MinPlayersPerTeam
                        /\ \A t \in Teams : playerCount'[t] = MinPlayersPerTeam
      BY <1>1, Frame DEF SolosFill
    <3>1. Exact /\ \A t \in Teams : playerCount[t] <= MinPlayersPerTeam
      BY <1>1 DEF SelectionIInv, SolosFill
    <3>2. \A t \in Teams : g \notin pool[t]
      BY DEF SelectionIInv, Apart, Undisturbed, Fresh
    <3>3. \A t \in Teams : playerCount[t] >= MinPlayersPerTeam
      BY <1>4, <3>2 DEF Skipped
    <3> QED BY <1>2, <2>1, <3>1, <3>3 DEF Exact
  <2> QED BY <1>3, <2>2, <2>3, <2>4, <2>5, <2>6 DEF SelectionIInv
<1>5. CASE ~Skipped(g)
  <2> DEFINE t == SideFor(g)
  <2>1. /\ team' = [team EXCEPT ![g] = t] /\ AddGroup(g, t)
        /\ room' = IF Accepted(g, t) THEN [room EXCEPT ![t] = @ - size[g]] ELSE room
    BY <1>5 DEF Fill
  <2>2. t \in Teams /\ \A u \in Teams : room[t] >= room[u]
    BY <1>2, SideForFacts
  <2>3. /\ \A u \in Teams : g \notin pool[u]
        /\ \E u \in Teams : playerCount[u] < MinPlayersPerTeam
    BY <1>2, <1>5 DEF Skipped
  <2> HIDE DEF t
  <2>4. /\ pool' \in [Teams -> SUBSET Queue] /\ playerCount' \in [Teams -> Nat]
        /\ \A u \in Teams : u # t => pool'[u] = pool[u] /\ playerCount'[u] = playerCount[u]
        /\ IF Fits(g, t) THEN pool'[t] = pool[t] \cup {g} /\ playerCount'[t] = playerCount[t] + size[g]
                         ELSE pool'[t] = pool[t] /\ playerCount'[t] = playerCount[t]
        /\ PoolsFit' /\ Counted'
    BY <1>1, <1>2, <2>1, <2>2, <2>3, AddGroupKeeps
  <2>5. TypeOK'
    <3>1. size[g] \in Nat /\ room \in [Teams -> Int] /\ team \in [Queue -> Teams]
          /\ left \in [Teams -> Nat]
      BY <1>2, QueueFacts DEF TypeOK
    <3>2. room' \in [Teams -> Int]
      <4>1. room[t] - size[g] \in Int
        BY <2>2, <3>1
      <4>2. [room EXCEPT ![t] = @ - size[g]] \in [Teams -> Int]
        BY <3>1, <4>1
      <4> QED BY <2>1, <3>1, <4>2
    <3>3. team' \in [Queue -> Teams]
      BY <2>1, <2>2, <3>1
    <3> QED BY <1>1, <1>2, <2>4, <3>1, <3>2, <3>3, TypesKept
  <2>6. \A u \in Teams : pool'[u] \subseteq pool[u] \cup {g} /\ (u # t => pool'[u] = pool[u])
    BY <2>4
  <2>7. Apart'
    <3>1. \A u, v \in Teams : u # v => pool'[u] \cap pool'[v] = {}
      BY <2>3, <2>6 DEF SelectionIInv, Apart
    <3>2. Undisturbed => \A u \in Teams : pool'[u] \cap todo' = {}
      BY <1>1, <2>6 DEF SelectionIInv, Apart
    <3> QED BY <1>1, <3>1, <3>2, Frame DEF Apart
  <2>8. OnTheirSide'
    <3> SUFFICES ASSUME Undisturbed
                 PROVE  \A u \in Teams : left'[u] = 0 /\ \A h \in pool'[u] : team'[h] = u
      BY <1>1, Frame DEF OnTheirSide
    <3>1. \A u \in Teams : left'[u] = 0 /\ \A h \in pool[u] : team[h] = u /\ h # g
      BY <1>1, <2>3 DEF SelectionIInv, OnTheirSide
    <3>2. \A u \in Teams : \A h \in pool[u] : team'[h] = u
      BY <2>1, <3>1
    <3>3. team'[g] = t
      BY <1>2, <2>1 DEF TypeOK
    <3> QED BY <2>6, <3>1, <3>2, <3>3
  <2>9. Filling'
    <3> SUFFICES ASSUME Fresh PROVE Even' \/ Brimful'
      BY <1>1, Frame DEF Filling
    <3>1. playerCount'[t] = IF Fits(g, t) THEN playerCount[t] + size[g] ELSE playerCount[t]
      BY <2>4
    <3>2. CASE Even
      BY <1>1, <1>2, <2>1, <2>2, <2>4, <3>1, <3>2, FillsEvenly
    <3>3. CASE Brimful
      BY <1>1, <1>2, <2>2, <2>4, <3>1, <3>3, StaysBrimful
    <3> QED BY <1>1, <3>2, <3>3 DEF SelectionIInv, Filling
  <2>10. SolosFill'
    <3> SUFFICES ASSUME Fresh, Alone, MinPlayersPerTeam <= MaxPlayersPerTeam
                 PROVE  /\ Exact' /\ \A u \in Teams : playerCount'[u] <= MinPlayersPerTeam
                        /\ playerCount'["alliance"] + playerCount'["horde"] = Cardinality(Queue \ todo)'
      BY <1>1, Frame DEF SolosFill
    <3>1. playerCount'[t] = IF Fits(g, t) THEN playerCount[t] + size[g] ELSE playerCount[t]
      BY <2>4
    <3> QED BY <1>1, <2>1, <2>2, <2>3, <2>4, <3>1, FillsWithSolos
  <2> QED BY <1>3, <2>4, <2>5, <2>7, <2>8, <2>9, <2>10 DEF SelectionIInv
<1> QED BY <1>4, <1>5

\* What the proofs below rest on holds in every reachable state.
THEOREM Invariance == SelectionSpec => []SelectionIInv
<1>1. SelectionInit => SelectionIInv
  BY InitHolds
<1>2. ASSUME SelectionIInv, [SelectionNext]_selectionVars
      PROVE  SelectionIInv'
  <2>1. CASE Begin
    BY <1>2, <2>1, BeginKeeps
  <2>2. CASE PreAdded
    BY <1>2, <2>2, PreAddedKeeps
  <2>3. CASE Filled
    BY <1>2, <2>3, FilledKeeps DEF Filled
  <2>4. ASSUME NEW g \in todo, NEW t \in Teams, PreAdd(g, t)
        PROVE  SelectionIInv'
    BY <1>2, <2>4, PreAddKeeps
  <2>5. ASSUME NEW g \in todo, Fill(g)
        PROVE  SelectionIInv'
    BY <1>2, <2>5, FillKeeps
  <2>6. CASE UNCHANGED selectionVars
    BY <1>2, <2>6, FilledKeeps DEF selectionVars
  <2> QED BY <1>2, <2>1, <2>2, <2>3, <2>4, <2>5, <2>6 DEF SelectionNext
<1> QED BY <1>1, <1>2, PTL DEF SelectionSpec

(***************************************************************************)
(* Every variable of FillXPlayersToBG keeps its type.                      *)
(***************************************************************************)
THEOREM SelectionTypes == SelectionSpec => []TypeOK
<1>1. SelectionIInv => TypeOK
  BY DEF SelectionIInv
<1> QED BY <1>1, Invariance, PTL

(***************************************************************************)
(* No selection pool of FillXPlayersToBG outgrows the free slots of its    *)
(* side, for every queue, every instance and every reading of the          *)
(* uninitialised OTeam.                                                    *)
(***************************************************************************)
THEOREM PoolsAlwaysFit == SelectionSpec => []PoolsFit
<1>1. SelectionIInv => PoolsFit
  BY DEF SelectionIInv
<1> QED BY <1>1, Invariance, PTL

(***************************************************************************)
(* The two sides that FillXPlayersToBG selects for a new instance differ   *)
(* by no more than the largest group, although valiFree and vhordeFree are *)
(* counted down for groups that are not added.                             *)
(***************************************************************************)
THEOREM SidesStayClose == SelectionSpec => []SidesDifferByOneGroup
<1>1. ASSUME SelectionIInv, pc = "filled", Start, oteam = {}, Queue # {}, NEW t \in Teams, NEW u \in Teams
      PROVE  playerCount[t] - playerCount[u] <= Largest
  <2>1. /\ Largest \in Nat /\ MaxPlayersPerTeam \in Nat
        /\ playerCount[t] \in Nat /\ playerCount[u] \in Nat
    BY <1>1, LargestGroup, CrossfactionAssumption DEF SelectionIInv, TypeOK, CrossfactionAssumption
  <2>2. playerCount[t] <= MaxPlayersPerTeam
    BY <1>1 DEF SelectionIInv, PoolsFit, FreeSlots
  <2>3. Even \/ Brimful
    BY <1>1 DEF SelectionIInv, Filling, Fresh
  <2> QED BY <2>1, <2>2, <2>3 DEF Even, Brimful
<1>2. SelectionIInv => SidesDifferByOneGroup
  BY <1>1 DEF SidesDifferByOneGroup, Largest
<1> QED BY <1>2, Invariance, PTL

(***************************************************************************)
(* Solo players start an instance as soon as they can, as long as the      *)
(* queue is shorter than the range of queuedPeople, a uint8.               *)
(***************************************************************************)
THEOREM SolosAlwaysStart == MaxGroups < PeopleRange /\ SelectionSpec => []SolosStart
<1> SUFFICES ASSUME MaxGroups < PeopleRange PROVE SelectionSpec => []SolosStart
  OBVIOUS
<1>1. ASSUME SelectionIInv PROVE SolosStart
  <2> SUFFICES ASSUME pc \in {"filled", "refused"}, Start, oteam = {}, Alone,
                      Cardinality(Queue) >= 2 * MinPlayersPerTeam,
                      MinPlayersPerTeam <= MaxPlayersPerTeam
               PROVE  Match /\ \A t \in Teams : playerCount[t] = MinPlayersPerTeam
    BY DEF SolosStart, Alone
  <2>1. /\ TypeOK /\ IsFiniteSet(Queue) /\ Cardinality(Queue) \in Nat
        /\ Cardinality(Queue) <= MaxGroups /\ playerCount \in [Teams -> Nat]
        /\ MaxGroups \in Nat /\ PeopleRange \in Nat \ {0} /\ MinPlayersPerTeam \in Nat
    BY <1>1, QueueFacts, CrossfactionAssumption DEF SelectionIInv, TypeOK, CrossfactionAssumption
  <2>2. People(Queue) = Cardinality(Queue)
    BY <2>1, PeopleAlone
  <2>3. People(Queue) % PeopleRange = Cardinality(Queue)
    BY <1>1, <2>1, <2>2
  <2>4. pc = "filled"
    BY <1>1, <2>1, <2>3 DEF SelectionIInv, Course, EnoughPeople
  <2>5. CASE MinPlayersPerTeam = 0 /\ Queue = {}
    <3>1. People({}) = 0
      BY SumOfNone DEF People
    <3>2. \A t \in Teams : pool[t] = {}
      BY <2>1, <2>5 DEF TypeOK
    <3>3. \A t \in Teams : playerCount[t] = 0
      BY <1>1, <3>1, <3>2 DEF SelectionIInv, Counted
    <3> QED BY <2>4, <2>5, <3>3 DEF Match
  <2>6. CASE Queue # {}
    <3>1. /\ \A t \in Teams : playerCount[t] <= MinPlayersPerTeam
          /\ \/ \A t \in Teams : playerCount[t] = MinPlayersPerTeam
             \/ playerCount["alliance"] + playerCount["horde"] = Cardinality(Queue \ todo)
      BY <1>1, <2>4, <2>6 DEF SelectionIInv, SolosFill, Fresh
    <3>2. Queue \ todo = Queue
      BY <1>1, <2>4 DEF SelectionIInv, Course
    <3>3. /\ playerCount["alliance"] \in Nat /\ playerCount["alliance"] <= MinPlayersPerTeam
          /\ playerCount["horde"] \in Nat /\ playerCount["horde"] <= MinPlayersPerTeam
      BY <2>1, <3>1 DEF Teams
    <3>4. ASSUME playerCount["alliance"] + playerCount["horde"] = Cardinality(Queue)
          PROVE  \A t \in Teams : playerCount[t] = MinPlayersPerTeam
      <4>1. /\ playerCount["alliance"] = MinPlayersPerTeam
            /\ playerCount["horde"] = MinPlayersPerTeam
        BY <2>1, <3>3, <3>4
      <4> QED BY <4>1 DEF Teams
    <3>5. \A t \in Teams : playerCount[t] = MinPlayersPerTeam
      BY <3>1, <3>2, <3>4
    <3> QED BY <2>1, <2>4, <3>5 DEF Match
  <2>7. Queue = {} => MinPlayersPerTeam = 0
    BY <2>1, FS_EmptySet
  <2> QED BY <2>5, <2>6, <2>7
<1> QED BY <1>1, Invariance, PTL

-----------------------------------------------------------------------------
(***************************************************************************)
(* The selection as BattlegroundQueue sees it.                             *)
(***************************************************************************)

\* The players of a set of groups.
Crowd(G) == {p \in Characters : p[1] \in G /\ p[2] <= size[p[1]]}

LEMMA CrowdOfOne ==
  ASSUME TypeOK, NEW g \in Queue
  PROVE  IsFiniteSet(Crowd({g})) /\ Cardinality(Crowd({g})) = size[g]
<1>1. size[g] \in Sizes /\ size[g] \in Nat \ {0} /\ g \in Places
  BY QueueFacts DEF TypeOK
<1>2. Sizes \subseteq Nat
  BY CrossfactionAssumption DEF CrossfactionAssumption
<1> DEFINE f == [i \in 1..size[g] |-> <<g, i>>]
<1>3. \A i \in 1..size[g] : <<g, i>> \in Crowd({g})
  BY <1>1 DEF Crowd, Characters
<1>4. \A p \in Crowd({g}) : \E i \in 1..size[g] : p = <<g, i>>
  <2> TAKE p \in Crowd({g})
  <2>1. PICK n \in Sizes : p[2] \in 1..n
    BY DEF Crowd, Characters
  <2>2. p = <<g, p[2]>> /\ p[2] <= size[g]
    BY DEF Crowd, Characters
  <2>3. p[2] \in 1..size[g]
    BY <1>1, <1>2, <2>1, <2>2
  <2> QED BY <2>2, <2>3
<1>5. f \in Bijection(1..size[g], Crowd({g}))
  <2>1. f \in [1..size[g] -> Crowd({g})]
    BY <1>3
  <2>2. \A i, j \in 1..size[g] : f[i] = f[j] => i = j
    OBVIOUS
  <2>3. \A p \in Crowd({g}) : \E i \in 1..size[g] : f[i] = p
    BY <1>4
  <2> HIDE DEF f
  <2> QED BY <2>1, <2>2, <2>3 DEF Bijection, Injection, Surjection, IsInjective
<1>6. IsFiniteSet(1..size[g]) /\ Cardinality(1..size[g]) = size[g]
  <2>1. PICK n \in Nat : n = size[g] /\ n >= 1
    BY <1>1
  <2>2. IsFiniteSet(1..n) /\ Cardinality(1..n) = IF 1 > n THEN 0 ELSE n - 1 + 1
    BY FS_Interval
  <2> QED BY <2>1, <2>2
<1>7. ExistsBijection(1..size[g], Crowd({g}))
  BY <1>5 DEF ExistsBijection
<1> HIDE DEF f
<1> QED BY <1>6, <1>7, FS_Bijection

LEMMA CrowdSize ==
  ASSUME TypeOK, NEW S, S \subseteq Queue
  PROVE  IsFiniteSet(Crowd(S)) /\ Cardinality(Crowd(S)) = People(S)
<1> DEFINE Right(V) == IsFiniteSet(Crowd(V)) /\ Cardinality(Crowd(V)) = People(V)
           Bad == {V \in SUBSET S : ~Right(V)}
<1> SUFFICES ASSUME ~Right(S) PROVE FALSE
  OBVIOUS
<1>1. PICK V \in Bad : \A W \in Bad : W \subseteq V => W = V
  <2>1. Bad \subseteq SUBSET S /\ Bad # {} /\ IsFiniteSet(S)
    BY PeopleNatural
  <2> HIDE DEF Bad
  <2> QED BY <2>1, SmallestSet
<1>2. V # {}
  <2>1. Crowd({}) = {} /\ People({}) = 0
    BY SumOfNone DEF Crowd, People
  <2>2. Right({})
    BY <2>1, FS_EmptySet
  <2> QED BY <2>2
<1>3. PICK g \in V : TRUE
  BY <1>2
<1> DEFINE R == V \ {g}
<1>4. g \in Queue /\ R \subseteq Queue /\ g \notin R /\ V = R \cup {g}
  OBVIOUS
<1>5. Right(R)
  BY <1>1, <1>4
<1>6. Crowd(V) = Crowd(R) \cup Crowd({g}) /\ Crowd(R) \cap Crowd({g}) = {}
  BY <1>4 DEF Crowd
<1>7. IsFiniteSet(Crowd({g})) /\ Cardinality(Crowd({g})) = size[g]
  BY <1>4, CrowdOfOne
<1>8. Cardinality({}) = 0
  BY FS_EmptySet
<1>9. People(V) = People(R) + size[g] /\ People(R) \in Nat /\ size[g] \in Nat
  BY <1>4, OneGroupMore, PeopleNatural, QueueFacts DEF TypeOK
<1> HIDE DEF R
<1>10. /\ IsFiniteSet(Crowd(R) \cup Crowd({g}))
       /\ Cardinality(Crowd(R) \cup Crowd({g})) =
            Cardinality(Crowd(R)) + Cardinality(Crowd({g})) - Cardinality(Crowd(R) \cap Crowd({g}))
  BY <1>5, <1>7, FS_Union
<1>11. Cardinality(Crowd(V)) = People(R) + size[g] - 0
  BY <1>5, <1>6, <1>7, <1>8, <1>10
<1>12. Right(V)
  BY <1>6, <1>9, <1>10, <1>11
<1> QED BY <1>1, <1>12

\* Who waits, and with which group.
LEMMA WhoWaits ==
  ASSUME TypeOK, NEW p \in Characters
  PROVE  System!Waiting(p, "queue") <=> p \in Crowd(Queue)
<1> DEFINE info == [id |-> p[1], team |-> team[p[1]], bg |-> NoBg, stamp |-> "never"]
<1>1. CASE p \in Crowd(Queue)
  <2>1. p[1] \in Queue /\ p[2] <= size[p[1]]
    BY <1>1 DEF Crowd
  <2>2. p[1] \in Places /\ team[p[1]] \in Teams
    BY <2>1, QueueFacts DEF TypeOK
  <2>3. info # NoGroup
    <3>1. info \in [id: Places, team: Teams, bg: {NoBg}, stamp: {"never"}]
      BY <2>2
    <3> HIDE DEF info
    <3> QED BY <3>1, CrossfactionAssumption DEF CrossfactionAssumption
  <2> QED BY <1>1, <2>1, <2>3 DEF System!Waiting, System!Queued
<1>2. CASE p \notin Crowd(Queue)
  <2>1. ~(p[1] \in Queue /\ p[2] <= size[p[1]])
    BY <1>2 DEF Crowd
  <2> QED BY <1>2, <2>1 DEF System!Waiting, System!Queued
<1> QED BY <1>1, <1>2

\* Every group has a player who waits.
LEMMA GroupsWait ==
  ASSUME TypeOK
  PROVE  System!WaitingGroups("queue") = Queue
<1>1. \A p \in Characters : System!Waiting(p, "queue") <=> p \in Crowd(Queue)
  BY WhoWaits
<1>2. System!WaitingGroups("queue") = {p[1] : p \in Crowd(Queue)}
  <2>1. {m \in Characters : System!Waiting(m, "queue")} = Crowd(Queue)
    BY <1>1 DEF Crowd
  <2>2. \A p \in Crowd(Queue) : p \in Characters /\ p[1] \in Queue /\ p[2] <= size[p[1]]
    BY DEF Crowd
  <2> QED BY <2>1, <2>2 DEF System!WaitingGroups
<1>3. ASSUME NEW g \in Queue PROVE \E p \in Crowd(Queue) : p[1] = g
  <2>1. size[g] \in Sizes /\ size[g] \in Nat \ {0} /\ g \in Places
    BY QueueFacts DEF TypeOK
  <2>2. 1 \in 1..size[g] /\ 1 <= size[g]
    BY <2>1
  <2>3. <<g, 1>> \in Crowd(Queue)
    BY <2>1, <2>2 DEF Crowd, Characters
  <2> QED BY <2>3
<1>4. \A p \in Crowd(Queue) : p[1] \in Queue
  BY DEF Crowd
<1> QED BY <1>2, <1>3, <1>4

\* The groups of a pool are the players whom BattlegroundQueue counts for it.
LEMMA PoolIsCrowd ==
  ASSUME SelectionIInv, NEW t \in Teams
  PROVE  System!Pool("queue", To, team, StrayGroups, Bg, t) = Crowd(pool[t])
<1>1. /\ TypeOK /\ pool \in [Teams -> SUBSET Queue] /\ team \in [Queue -> Teams]
      /\ Bg # NoBg
  BY CrossfactionAssumption DEF SelectionIInv, TypeOK, CrossfactionAssumption
<1>2. \A g \in Queue : (To[g] = Bg) <=> \E u \in Teams : g \in pool[u]
  BY <1>1 DEF To, Invites
<1>3. ASSUME NEW g \in Queue
      PROVE  (To[g] = Bg /\ ((team[g] = t) <=> (g \notin StrayGroups))) <=> g \in pool[t]
  <2>1. CASE \E u \in Teams : g \in pool[u]
    <3>1. PICK u \in Teams : g \in pool[u]
      BY <2>1
    <3>2. \A v \in Teams : g \in pool[v] => v = u
      BY <3>1 DEF SelectionIInv, Apart
    <3>3. (g \in StrayGroups) <=> (team[g] # u)
      BY <3>1, <3>2 DEF StrayGroups
    <3>4. team[g] \in Teams
      BY <1>1
    <3> QED BY <1>2, <3>1, <3>2, <3>3, <3>4 DEF Teams
  <2>2. CASE ~\E u \in Teams : g \in pool[u]
    BY <1>2, <2>2
  <2> QED BY <2>1, <2>2
<1>4. System!Pool("queue", To, team, StrayGroups, Bg, t)
        = {p \in Crowd(Queue) : /\ To[p[1]] = Bg
                                /\ (team[p[1]] = t) <=> (p[1] \notin StrayGroups)}
  <2>1. \A p \in Characters : System!Waiting(p, "queue") <=> p \in Crowd(Queue)
    BY <1>1, WhoWaits
  <2>2. \A p \in Crowd(Queue) : p \in Characters /\ p[1] \in Queue /\ p[2] <= size[p[1]]
    BY DEF Crowd
  <2> QED BY <2>1, <2>2 DEF System!Pool
<1>5. {p \in Crowd(Queue) : p[1] \in pool[t]} = Crowd(pool[t])
  BY <1>1 DEF Crowd
<1>6. \A p \in Crowd(Queue) : p[1] \in Queue
  BY DEF Crowd
<1> QED BY <1>3, <1>4, <1>5, <1>6

(***************************************************************************)
(* Every selection that FillXPlayersToBG ends with, for a new instance or  *)
(* a running one, is one that Matching admits in BattlegroundSystem, so    *)
(* what is proved there of every selection holds for this one.             *)
(***************************************************************************)
THEOREM SelectionsMatch == SelectionSpec => []SelectionMatches
<1>1. ASSUME SelectionIInv, pc = "filled", Start => Match
      PROVE  /\ StrayGroups \in {S \cap Queue : S \in System!Strays("queue")}
             /\ System!Matching("queue", To, team, StrayGroups, IF Start THEN Bg ELSE NoBg)
  <2>1. TypeOK /\ Bg # NoBg /\ StrayGroups \subseteq Queue
    BY <1>1, CrossfactionAssumption DEF SelectionIInv, StrayGroups, CrossfactionAssumption
  <2>2. System!WaitingGroups("queue") = Queue
    BY <2>1, GroupsWait
  <2>3. Undisturbed => StrayGroups = {}
    BY <1>1 DEF SelectionIInv, OnTheirSide, StrayGroups
  <2>4. StrayGroups \in {S \cap Queue : S \in System!Strays("queue")}
    <3>1. CASE OTeamMatches
      BY <2>1, <2>2, <3>1 DEF System!Strays
    <3>2. CASE ~OTeamMatches
      <4>1. StrayGroups = {}
        BY <1>1, <2>3, <3>2 DEF SelectionIInv, Course, Undisturbed
      <4> QED BY <3>2, <4>1 DEF System!Strays
    <3> QED BY <3>1, <3>2
  <2> DEFINE nb == IF Start THEN Bg ELSE NoBg
  <2>5. /\ ~Start => Bg \in System!ToppedUp("queue") /\ nb = NoBg
        /\ System!ToppedUp("queue") \subseteq {Bg}
        /\ Bg \in System!ToppedUp("queue") => ~Start
        /\ Start => nb = Bg
    <3>1. bg.status \in Calls /\ Calls \subseteq {"none", "wait_join", "in_progress"}
      BY <2>1, CrossfactionAssumption DEF TypeOK, Instances, CrossfactionAssumption
    <3> QED BY <3>1 DEF System!ToppedUp, System!Open, Start
  <2>6. System!Teams = Teams
    BY DEF System!Teams, Teams
  <2>7. \A g \in Queue : To[g] \in {NoBg, nb} \cup System!ToppedUp("queue")
    BY <2>5 DEF To
  <2> HIDE DEF nb
  <2>8. System!MayStray("queue", To, team, StrayGroups, nb)
    <3> SUFFICES ASSUME NEW p \in Characters, System!Waiting(p, "queue"), p[1] \in StrayGroups
                 PROVE  nb # NoBg /\ To[p[1]] = nb
      <4>1. \A p \in Characters : System!Waiting(p, "queue") => p[1] \in Queue /\ p[2] <= size[p[1]]
        BY <2>1, WhoWaits DEF Crowd
      <4> QED BY <4>1 DEF System!MayStray
    <3>1. Start /\ nb = Bg
      BY <2>3, <2>5 DEF Undisturbed
    <3>2. p[1] \in Queue /\ Invites(p[1])
      BY DEF StrayGroups, Invites
    <3> QED BY <2>1, <3>1, <3>2 DEF To
  <2>9. \A t \in Teams :
          Cardinality(System!Pool("queue", To, team, StrayGroups, Bg, t)) = playerCount[t]
    <3> TAKE t \in Teams
    <3>1. pool[t] \subseteq Queue
      BY <2>1 DEF TypeOK
    <3> QED BY <1>1, <2>1, <3>1, PoolIsCrowd, CrowdSize DEF SelectionIInv, Counted
  <2>10. \A t \in Teams : ~Start => playerCount[t] <= System!GetFreeSlotsForTeam(Bg, t)
    BY <1>1 DEF SelectionIInv, PoolsFit, FreeSlots
  <2>11. \A t \in Teams :
           Start => playerCount[t] >= MinPlayersPerTeam /\ playerCount[t] <= MaxPlayersPerTeam
    BY <1>1 DEF SelectionIInv, PoolsFit, FreeSlots, Match
  <2>12. Start => ~System!Exists(Bg)
    BY DEF Start, System!Exists
  <2>13. nb # NoBg => Start /\ nb = Bg
    BY <2>5
  <2>14. System!Matching("queue", To, team, StrayGroups, nb)
    <3>1. \A g \in System!WaitingGroups("queue") : To[g] \in {NoBg, nb} \cup System!ToppedUp("queue")
      BY <2>2, <2>7
    <3>2. \A b \in System!ToppedUp("queue"), t \in Teams :
            Cardinality(System!Pool("queue", To, team, StrayGroups, b, t))
              <= System!GetFreeSlotsForTeam(b, t)
      <4>1. \A b \in System!ToppedUp("queue") : b = Bg /\ ~Start
        BY <2>5
      <4> QED BY <2>9, <2>10, <4>1
    <3>3. nb # NoBg =>
            /\ ~System!Exists(nb) /\ nb = Bg
            /\ \A t \in Teams :
                 /\ Cardinality(System!Pool("queue", To, team, StrayGroups, nb, t)) >= MinPlayersPerTeam
                 /\ Cardinality(System!Pool("queue", To, team, StrayGroups, nb, t)) <= MaxPlayersPerTeam
      BY <2>9, <2>11, <2>12, <2>13
    <3>4. nb # NoBg => [b \in {Bg} |-> "queue"][nb] = "queue"
      BY <3>3
    <3> HIDE DEF nb
    <3>5. \A S : System!Cardinality(S) = Cardinality(S)
      BY DEF System!Cardinality, Cardinality
    <3> QED BY <2>6, <2>8, <3>1, <3>2, <3>3, <3>4, <3>5 DEF System!Matching
  <2> QED BY <2>4, <2>14 DEF nb
<1>2. SelectionIInv => SelectionMatches
  BY <1>1 DEF SelectionMatches
<1> QED BY <1>2, Invariance, PTL

-----------------------------------------------------------------------------
\* The two lists hold each of the groups once, in one of them.
Placed(q, groups) ==
  /\ q \in [Factions -> Seq(Groups)]
  /\ \A f \in Factions : IsInjective(q[f])
  /\ ToSet(q["alliance"]) \cap ToSet(q["horde"]) = {}
  /\ ToSet(q["alliance"]) \cup ToSet(q["horde"]) = groups

\* What a handler schedules.
Plain == {<<Rating[k], 0>> : k \in Groups}

IInv ==
  /\ joined \in Seq(Groups) /\ IsInjective(joined)
  /\ Placed(queue, Queued)
  /\ age \in [Groups -> Nat]
  /\ opponent \in [Groups -> Groups]
  /\ scheduled \in Seq(Plain)

-----------------------------------------------------------------------------
(***************************************************************************)
(* Lists of groups.                                                        *)
(***************************************************************************)

LEMMA MinIn ==
  ASSUME NEW T, T \subseteq Nat, T # {}
  PROVE  Min(T) \in T /\ \A k \in T : Min(T) <= k
<1>1. \E m \in T : \A k \in T : m <= k
  BY LeastNumber
<1> QED BY <1>1 DEF Min

LEMMA RemoveFirstIs ==
  ASSUME NEW S, NEW q \in Seq(S), IsInjective(q), NEW e
  PROVE  /\ RemoveFirst(q, e) \in Seq(S)
         /\ IsInjective(RemoveFirst(q, e))
         /\ ToSet(RemoveFirst(q, e)) = ToSet(q) \ {e}
<1>1. CASE ~ \E i \in 1..Len(q) : q[i] = e
  BY <1>1 DEF RemoveFirst, ToSet
<1>2. CASE \E i \in 1..Len(q) : q[i] = e
  <2> DEFINE T == {i \in 1..Len(q) : q[i] = e}
             n == Min(T)
             r == RemoveAt(q, n)
  <2>1. n \in 1..Len(q) /\ q[n] = e
    <3>1. T \subseteq Nat /\ T # {}
      BY <1>2
    <3>2. Min(T) \in T
      <4> HIDE DEF T
      <4> QED BY <3>1, MinIn
    <3> QED BY <3>2
  <2>2. RemoveFirst(q, e) = r
    BY <1>2 DEF RemoveFirst, SelectInSeq
  <2> HIDE DEF n, T
  <2>3. /\ r \in Seq(S) /\ Len(r) = Len(q) - 1
        /\ \A i \in 1..Len(r) : r[i] = IF i < n THEN q[i] ELSE q[i + 1]
    <3> DEFINE a == SubSeq(q, 1, n - 1)
               b == SubSeq(q, n + 1, Len(q))
    <3>1. a \in Seq(S) /\ Len(a) = n - 1 /\ \A i \in 1..(n - 1) : a[i] = q[i]
      BY <2>1
    <3>2. b \in Seq(S) /\ Len(b) = Len(q) - n /\ \A i \in 1..(Len(q) - n) : b[i] = q[n + i]
      BY <2>1
    <3>3. r = a \o b
      BY DEF RemoveAt
    <3> HIDE DEF a, b, r
    <3>3a. /\ r \in Seq(S) /\ Len(r) = Len(a) + Len(b)
          /\ \A i \in 1..(Len(a) + Len(b)) : r[i] = IF i <= Len(a) THEN a[i] ELSE b[i - Len(a)]
      BY <3>1, <3>2, <3>3, ConcatProperties, Zenon
    <3>4. r \in Seq(S) /\ Len(r) = Len(q) - 1
      BY <2>1, <3>1, <3>2, <3>3a
    <3>5. ASSUME NEW i \in 1..Len(r) PROVE r[i] = IF i < n THEN q[i] ELSE q[i + 1]
      <4>1. r[i] = IF i <= Len(a) THEN a[i] ELSE b[i - Len(a)]
        BY <3>4, <3>3a
      <4>2. CASE i < n
        BY <2>1, <3>1, <4>1, <4>2
      <4>3. CASE ~ (i < n)
        <5>1. i - (n - 1) \in 1..(Len(q) - n) /\ n + (i - (n - 1)) = i + 1
          BY <2>1, <3>4, <4>3
        <5> QED BY <2>1, <3>1, <3>2, <4>1, <4>3, <5>1
      <4> QED BY <4>2, <4>3
    <3> QED BY <3>4, <3>5
  <2> HIDE DEF r
  <2>4. \A i \in 1..Len(q) : i # n => q[i] # e
    BY <2>1 DEF IsInjective
  <2>5. n \in Nat /\ Len(q) \in Nat /\ n \in 1..Len(q)
    BY <2>1
  <2>6. IsInjective(r) /\ ToSet(r) \subseteq ToSet(q) \ {e}
    <3> DEFINE pos(k) == IF k < n THEN k ELSE k + 1
    <3>1. ASSUME NEW i \in 1..Len(r) PROVE pos(i) \in 1..Len(q) /\ pos(i) # n /\ r[i] = q[pos(i)]
      <4>1. pos(i) \in 1..Len(q) /\ pos(i) # n
        BY <2>3, <2>5
      <4>2. r[i] = q[pos(i)]
        BY <2>3
      <4> QED BY <4>1, <4>2
    <3>2. ASSUME NEW i \in 1..Len(r), NEW j \in 1..Len(r), r[i] = r[j] PROVE i = j
      <4>1. q[pos(i)] = q[pos(j)] /\ pos(i) \in DOMAIN q /\ pos(j) \in DOMAIN q
        BY <3>1, <3>2
      <4>2. pos(i) = pos(j)
        BY <4>1 DEF IsInjective
      <4> QED BY <2>5, <4>2
    <3>3. IsInjective(r)
      BY <2>3, <3>2 DEF IsInjective
    <3>4. ASSUME NEW i \in 1..Len(r) PROVE r[i] \in ToSet(q) /\ r[i] # e
      <4> HIDE DEF pos
      <4>1. q[pos(i)] \in ToSet(q)
        BY <3>1 DEF ToSet
      <4>2. q[pos(i)] # e
        BY <2>4, <3>1
      <4> QED BY <3>1, <4>1, <4>2
    <3>5. ToSet(r) \subseteq ToSet(q) \ {e}
      BY <2>3, <3>4 DEF ToSet
    <3> QED BY <3>3, <3>5
  <2>7. ToSet(q) \ {e} \subseteq ToSet(r)
    <3> SUFFICES ASSUME NEW i \in 1..Len(q), q[i] # e PROVE q[i] \in ToSet(r)
      BY DEF ToSet
    <3>1. CASE i < n
      <4>1. i \in DOMAIN r /\ r[i] = q[i]
        BY <2>1, <2>3, <3>1
      <4> QED BY <4>1 DEF ToSet
    <3>2. CASE i > n
      <4>1. i - 1 \in DOMAIN r /\ r[i - 1] = q[i]
        BY <2>1, <2>3, <3>2
      <4> QED BY <4>1 DEF ToSet
    <3> QED BY <2>1, <3>1, <3>2
  <2> QED BY <2>2, <2>3, <2>6, <2>7
<1> QED BY <1>1, <1>2

LEMMA AppendIs ==
  ASSUME NEW S, NEW q \in Seq(S), IsInjective(q), NEW e \in S, e \notin ToSet(q)
  PROVE  /\ Append(q, e) \in Seq(S)
         /\ IsInjective(Append(q, e))
         /\ ToSet(Append(q, e)) = ToSet(q) \cup {e}
<1> DEFINE r == Append(q, e)
<1>1. /\ r \in Seq(S) /\ Len(r) = Len(q) + 1
      /\ \A i \in 1..Len(q) : r[i] = q[i]
      /\ r[Len(q) + 1] = e
  OBVIOUS
<1> HIDE DEF r
<1>2. \A i \in 1..Len(q) : q[i] # e
  BY DEF ToSet
<1>3. IsInjective(r)
  BY <1>1, <1>2 DEF IsInjective
<1>4. ToSet(r) = ToSet(q) \cup {e}
  <2>1. \A i \in 1..Len(r) : r[i] \in ToSet(q) \cup {e}
    BY <1>1 DEF ToSet
  <2>2. \A i \in 1..Len(q) : q[i] \in ToSet(r)
    BY <1>1 DEF ToSet
  <2>3. e \in ToSet(r)
    BY <1>1 DEF ToSet
  <2>4. ToSet(r) \subseteq ToSet(q) \cup {e}
    <3> SUFFICES ASSUME NEW x \in ToSet(r) PROVE x \in ToSet(q) \cup {e}
      OBVIOUS
    <3>1. \E i \in 1..Len(r) : x = r[i]
      BY <1>1 DEF ToSet
    <3> QED BY <2>1, <3>1
  <2>5. ToSet(q) \subseteq ToSet(r)
    <3> SUFFICES ASSUME NEW x \in ToSet(q) PROVE x \in ToSet(r)
      OBVIOUS
    <3>1. \E i \in 1..Len(q) : x = q[i]
      BY DEF ToSet
    <3> QED BY <2>2, <3>1
  <2> QED BY <2>3, <2>4, <2>5
<1> QED BY <1>1, <1>3, <1>4 DEF r

LEMMA PushFrontIs ==
  ASSUME NEW S, NEW q \in Seq(S), IsInjective(q), NEW e \in S, e \notin ToSet(q)
  PROVE  /\ <<e>> \o q \in Seq(S)
         /\ IsInjective(<<e>> \o q)
         /\ ToSet(<<e>> \o q) = ToSet(q) \cup {e}
<1> DEFINE r == <<e>> \o q
<1>1. /\ r \in Seq(S) /\ Len(r) = Len(q) + 1
      /\ r[1] = e
      /\ \A i \in 2..Len(r) : r[i] = q[i - 1]
      /\ \A i \in 1..Len(q) : r[i + 1] = q[i]
  <2> DEFINE a == <<e>>
  <2>1. a \in Seq(S) /\ Len(a) = 1 /\ a[1] = e
    OBVIOUS
  <2>2. r = a \o q
    OBVIOUS
  <2> HIDE DEF a, r
  <2>2a. /\ r \in Seq(S) /\ Len(r) = Len(a) + Len(q)
        /\ \A i \in 1..(Len(a) + Len(q)) : r[i] = IF i <= Len(a) THEN a[i] ELSE q[i - Len(a)]
    BY <2>1, <2>2, ConcatProperties, Zenon
  <2>3. r \in Seq(S) /\ Len(r) = Len(q) + 1
    BY <2>1, <2>2a
  <2>4. \A i \in 1..Len(r) : r[i] = IF i <= 1 THEN a[i] ELSE q[i - 1]
    BY <2>1, <2>2a, <2>3
  <2> QED BY <2>1, <2>3, <2>4
<1> HIDE DEF r
<1>2. \A i \in 1..Len(q) : q[i] # e
  BY DEF ToSet
<1>3. IsInjective(r)
  <2> SUFFICES ASSUME NEW i \in 1..Len(r), NEW j \in 1..Len(r), r[i] = r[j] PROVE i = j
    BY <1>1 DEF IsInjective
  <2>1. CASE i = 1 \/ j = 1
    <3>1. \A k \in 2..Len(r) : r[k] # e
      <4> TAKE k \in 2..Len(r)
      <4>1. r[k] = q[k - 1] /\ k - 1 \in 1..Len(q)
        BY <1>1
      <4> QED BY <1>2, <4>1
    <3> QED BY <1>1, <2>1, <3>1
  <2>2. CASE i # 1 /\ j # 1
    <3>1. q[i - 1] = q[j - 1] /\ i - 1 \in DOMAIN q /\ j - 1 \in DOMAIN q
      BY <1>1, <2>2
    <3>2. i - 1 = j - 1
      BY <3>1 DEF IsInjective
    <3> QED BY <3>2
  <2> QED BY <2>1, <2>2
<1>4. ToSet(r) = ToSet(q) \cup {e}
  <2>1. \A i \in 1..Len(r) : r[i] \in ToSet(q) \cup {e}
    <3> TAKE i \in 1..Len(r)
    <3>1. CASE i = 1
      BY <1>1, <3>1
    <3>2. CASE i # 1
      BY <1>1, <3>2 DEF ToSet
    <3> QED BY <3>1, <3>2
  <2>2. \A i \in 1..Len(q) : q[i] \in ToSet(r)
    <3> TAKE i \in 1..Len(q)
    <3>1. i + 1 \in DOMAIN r /\ r[i + 1] = q[i]
      BY <1>1
    <3> QED BY <3>1 DEF ToSet
  <2>3. e \in ToSet(r)
    BY <1>1 DEF ToSet
  <2>4. ToSet(r) \subseteq ToSet(q) \cup {e}
    <3> SUFFICES ASSUME NEW x \in ToSet(r) PROVE x \in ToSet(q) \cup {e}
      OBVIOUS
    <3>1. \E i \in 1..Len(r) : x = r[i]
      BY <1>1 DEF ToSet
    <3> QED BY <2>1, <3>1
  <2>5. ToSet(q) \subseteq ToSet(r)
    <3> SUFFICES ASSUME NEW x \in ToSet(q) PROVE x \in ToSet(r)
      OBVIOUS
    <3>1. \E i \in 1..Len(q) : x = q[i]
      BY DEF ToSet
    <3> QED BY <2>2, <3>1
  <2> QED BY <2>3, <2>4, <2>5
<1> QED BY <1>1, <1>3, <1>4 DEF r

-----------------------------------------------------------------------------
(***************************************************************************)
(* One queue update.                                                       *)
(***************************************************************************)

LEMMA ForemostIs ==
  ASSUME NEW S, NEW q \in Seq(S), NEW groups
  PROVE  /\ Foremost(q, groups) \subseteq ToSet(q) \cap groups
         /\ ToSet(q) \cap groups # {} => Foremost(q, groups) # {}
         /\ \A x, y \in Foremost(q, groups) : x = y
<1> DEFINE Good(i) == i \in 1..Len(q) /\ q[i] \in groups
           Best(i) == Good(i) /\ \A j \in 1..(i - 1) : q[j] \notin groups
<1>0. DOMAIN q = 1..Len(q) /\ Len(q) \in Nat
  OBVIOUS
<1>1. \A x : x \in Foremost(q, groups) <=> \E i : Best(i) /\ x = q[i]
  BY <1>0 DEF Foremost
<1>2. \A x : x \in ToSet(q) <=> \E i \in 1..Len(q) : x = q[i]
  BY <1>0 DEF ToSet
<1>3. Foremost(q, groups) \subseteq ToSet(q) \cap groups
  BY <1>1, <1>2
<1>4. ASSUME ToSet(q) \cap groups # {} PROVE Foremost(q, groups) # {}
  <2> DEFINE T == {i \in 1..Len(q) : q[i] \in groups}
  <2>1. T \subseteq Nat /\ T # {}
    BY <1>2, <1>4
  <2>2. PICK m \in T : \A k \in T : m <= k
    <3> HIDE DEF T
    <3> QED BY <2>1, LeastNumber
  <2>3. \A j \in 1..(m - 1) : q[j] \notin groups
    <3> SUFFICES ASSUME NEW j \in 1..(m - 1), q[j] \in groups PROVE FALSE
      OBVIOUS
    <3>1. j \in T /\ ~ (m <= j)
      BY <1>0
    <3> QED BY <2>2, <3>1
  <2> QED BY <1>1, <2>3
<1>5. ASSUME NEW i, NEW j, Best(i), Best(j) PROVE i = j
  BY <1>0, <1>5
<1> QED BY <1>1, <1>3, <1>4, <1>5

LEMMA FactionsAre == "alliance" \in Factions /\ "horde" \in Factions
BY DEF Factions

LEMMA PairsMeet ==
  ASSUME NEW s, NEW groups, Placed(s.queue, groups), NEW free, NEW p \in Pairs(s, free)
  PROVE  p[1] \in groups \cap free /\ p[2] \in groups \cap free /\ p[1] # p[2]
<1> DEFINE qa == s.queue["alliance"]
           qh == s.queue["horde"]
           a == Foremost(qa, free)
           h == Foremost(qh, free)
           b == Foremost(qa, free \ a)
           k == Foremost(qh, free \ h)
<1>1. qa \in Seq(Groups) /\ qh \in Seq(Groups)
  BY FactionsAre DEF Placed
<1>2. ToSet(qa) \cap ToSet(qh) = {} /\ ToSet(qa) \cup ToSet(qh) = groups
  BY DEF Placed
<1>3. a \subseteq ToSet(qa) \cap free /\ h \subseteq ToSet(qh) \cap free
  BY <1>1, ForemostIs
<1>4. b \subseteq ToSet(qa) \cap (free \ a) /\ k \subseteq ToSet(qh) \cap (free \ h)
  BY <1>1, ForemostIs
<1>5. p \in (a \X b) \cup (h \X k) \cup (a \X h)
  BY DEF Pairs
<1> HIDE DEF a, h, b, k, qa, qh
<1> QED BY <1>2, <1>3, <1>4, <1>5

LEMMA SomePair == ASSUME NEW A, NEW B, A # {}, B # {} PROVE A \X B # {}
<1>1. PICK x \in A : TRUE
  OBVIOUS
<1>2. PICK y \in B : TRUE
  OBVIOUS
<1>3. <<x, y>> \in A \X B
  OBVIOUS
<1> QED BY <1>3

LEMMA TwoMeet ==
  ASSUME NEW s, NEW groups, Placed(s.queue, groups), NEW free,
         NEW x \in groups \cap free, NEW y \in groups \cap free, x # y
  PROVE  Pairs(s, free) # {}
<1> DEFINE qa == s.queue["alliance"]
           qh == s.queue["horde"]
           a == Foremost(qa, free)
           h == Foremost(qh, free)
           b == Foremost(qa, free \ a)
           k == Foremost(qh, free \ h)
<1>1. qa \in Seq(Groups) /\ qh \in Seq(Groups)
  BY FactionsAre DEF Placed
<1>2. ToSet(qa) \cup ToSet(qh) = groups
  BY DEF Placed
<1>3. /\ ToSet(qa) \cap free # {} => a # {}
      /\ ToSet(qh) \cap free # {} => h # {}
      /\ \A u, v \in a : u = v
      /\ \A u, v \in h : u = v
  BY <1>1, ForemostIs
<1>4. /\ ToSet(qa) \cap (free \ a) # {} => b # {}
      /\ ToSet(qh) \cap (free \ h) # {} => k # {}
  <2> HIDE DEF a, h, qa, qh
  <2> QED BY <1>1, ForemostIs
<1>5. Pairs(s, free) = IF h = {} THEN a \X b ELSE IF a = {} THEN h \X k ELSE a \X h
  BY DEF Pairs
<1> HIDE DEF a, h, b, k, qa, qh
<1>6. CASE h = {}
  <2>1. x \in ToSet(qa) /\ y \in ToSet(qa)
    BY <1>2, <1>3, <1>6
  <2>2. a # {} /\ b # {}
    BY <1>3, <1>4, <2>1
  <2> QED BY <1>5, <1>6, <2>2, SomePair
<1>7. CASE h # {} /\ a = {}
  <2>1. x \in ToSet(qh) /\ y \in ToSet(qh)
    BY <1>2, <1>3, <1>7
  <2>2. k # {}
    BY <1>3, <1>4, <2>1
  <2> QED BY <1>5, <1>7, <2>2, SomePair
<1>8. CASE h # {} /\ a # {}
  BY <1>5, <1>8, SomePair
<1> QED BY <1>6, <1>7, <1>8

\* The queue of the side that g plays on, and its opponent does not.
Side(q, g, other) == RemoveFirst(IF Contains(q, g) THEN q ELSE <<g>> \o q, other)

LEMMA SideIs ==
  ASSUME NEW q \in Seq(Groups), IsInjective(q), NEW g \in Groups, NEW other
  PROVE  /\ Side(q, g, other) \in Seq(Groups)
         /\ IsInjective(Side(q, g, other))
         /\ ToSet(Side(q, g, other)) = (ToSet(q) \cup {g}) \ {other}
<1> DEFINE t == IF Contains(q, g) THEN q ELSE <<g>> \o q
<1>1. t \in Seq(Groups) /\ IsInjective(t) /\ ToSet(t) = ToSet(q) \cup {g}
  <2>1. Contains(q, g) <=> g \in ToSet(q)
    BY DEF Contains, ToSet
  <2>2. CASE Contains(q, g)
    BY <2>1, <2>2
  <2>3. CASE ~ Contains(q, g)
    BY <2>1, <2>3, PushFrontIs
  <2> QED BY <2>2, <2>3
<1> HIDE DEF t
<1>2. /\ RemoveFirst(t, other) \in Seq(Groups) /\ IsInjective(RemoveFirst(t, other))
      /\ ToSet(RemoveFirst(t, other)) = ToSet(t) \ {other}
  BY <1>1, RemoveFirstIs
<1> QED BY <1>1, <1>2 DEF t, Side

LEMMA MeetPlaces ==
  ASSUME NEW s, NEW groups, Placed(s.queue, groups),
         NEW a \in groups, NEW h \in groups, a # h, groups \subseteq Groups
  PROVE  Placed(Meet(s, a, h).queue, groups)
<1> DEFINE qa == s.queue["alliance"]
           qh == s.queue["horde"]
           ra == Side(qa, a, h)
           rh == Side(qh, h, a)
           r == Meet(s, a, h).queue
<1>1. qa \in Seq(Groups) /\ qh \in Seq(Groups) /\ IsInjective(qa) /\ IsInjective(qh)
  BY FactionsAre DEF Placed
<1>2. ToSet(qa) \cap ToSet(qh) = {} /\ ToSet(qa) \cup ToSet(qh) = groups
  BY DEF Placed
<1>3. ra \in Seq(Groups) /\ IsInjective(ra) /\ ToSet(ra) = (ToSet(qa) \cup {a}) \ {h}
  <2>1. a \in Groups
    OBVIOUS
  <2> HIDE DEF qa, qh
  <2> QED BY <1>1, <2>1, SideIs
<1>4. rh \in Seq(Groups) /\ IsInjective(rh) /\ ToSet(rh) = (ToSet(qh) \cup {h}) \ {a}
  <2>1. h \in Groups
    OBVIOUS
  <2> HIDE DEF qa, qh
  <2> QED BY <1>1, <2>1, SideIs
<1>5. r = [alliance |-> ra, horde |-> rh]
  BY DEF Meet, Side
<1> HIDE DEF qa, qh, ra, rh, r
<1>6. r \in [Factions -> Seq(Groups)] /\ r["alliance"] = ra /\ r["horde"] = rh
  BY <1>3, <1>4, <1>5 DEF Factions
<1>7. \A f \in Factions : IsInjective(r[f])
  BY <1>3, <1>4, <1>6 DEF Factions
<1>8. ToSet(ra) \cap ToSet(rh) = {} /\ ToSet(ra) \cup ToSet(rh) = groups
  BY <1>2, <1>3, <1>4
<1>9. Placed(r, groups)
  BY <1>6, <1>7, <1>8 DEF Placed
<1> QED BY <1>9 DEF r

\* An update matches nobody or two groups that it may match.
LEMMA UpdateMatches ==
  ASSUME NEW s, NEW u
  PROVE  LET pairs == Pairs(s, Free(s, u[1], u[2]))
         IN IF pairs = {} THEN After(s, u) = s
            ELSE \E p \in pairs : After(s, u) = Meet(s, p[1], p[2])
<1> DEFINE pairs == Pairs(s, Free(s, u[1], u[2]))
<1>1. After(s, u) = QueueUpdate(s, u[1], u[2])
  BY DEF After
<1>2. UNION {Pairs(s, free) : free \in {Free(s, u[1], u[2])}} = pairs
  OBVIOUS
<1>3. QueueUpdate(s, u[1], u[2])
        = IF pairs = {} THEN s ELSE CHOOSE next \in {Meet(s, p[1], p[2]) : p \in pairs} : TRUE
  BY <1>2 DEF QueueUpdate
<1> HIDE DEF pairs
<1>4. ASSUME pairs # {} PROVE \E p \in pairs : QueueUpdate(s, u[1], u[2]) = Meet(s, p[1], p[2])
  <2> DEFINE M == {Meet(s, p[1], p[2]) : p \in pairs}
  <2>1. M # {}
    BY <1>4
  <2>2. (CHOOSE next \in M : TRUE) \in M
    <3> HIDE DEF M
    <3> QED BY <2>1
  <2> QED BY <1>3, <1>4, <2>2
<1> QED BY <1>1, <1>3, <1>4 DEF pairs

-----------------------------------------------------------------------------
(***************************************************************************)
(* The window around a rating.                                             *)
(***************************************************************************)

LEMMA Widening ==
  ASSUME NEW level \in 0..Levels
  PROVE  Step * level \in Nat /\ Step * Levels \in Nat /\ Step * level <= Step * Levels
<1>1. Step \in Nat /\ Levels \in Nat /\ level \in Nat /\ Levels - level \in Nat
  BY ArenaAssumption
<1>2. Step * (Levels - level) \in Nat
  BY <1>1
<1>3. Step * Levels = Step * level + Step * (Levels - level)
  BY <1>1
<1> QED BY <1>1, <1>2, <1>3

LEMMA Modulo ==
  ASSUME NEW a \in Int, -Word <= a, a < Word, Word \in Nat
  PROVE  a % Word = IF a < 0 THEN a + Word ELSE a
<1>1. CASE a >= 0
  BY <1>1
<1>2. CASE a < 0
  BY <1>2
<1> QED BY <1>1, <1>2

LEMMA LowestIs ==
  ASSUME NEW k \in Groups, NEW level \in 0..Levels
  PROVE  LET low == (IF Rating[k] <= MaxDifference THEN 0 ELSE Rating[k] - MaxDifference) - Step * level
         IN low \in Int /\ Lowest(Rating[k], level) = IF low < 0 THEN low + Word ELSE low
<1> DEFINE low == (IF Rating[k] <= MaxDifference THEN 0 ELSE Rating[k] - MaxDifference) - Step * level
<1>1. PICK r \in Nat : r = Rating[k]
  BY ArenaAssumption
<1>2. PICK w \in Nat : w = Step * level
  BY Widening
<1>3. PICK x \in Nat : x = Step * Levels
  BY Widening, ArenaAssumption
<1>4. w <= x /\ r + MaxDifference + x < Word /\ Word \in Nat /\ MaxDifference \in Nat
  BY <1>1, <1>2, <1>3, Widening, ArenaAssumption
<1>5. low = (IF r <= MaxDifference THEN 0 ELSE r - MaxDifference) - w
  BY <1>1, <1>2
<1>6. Lowest(Rating[k], level) = low % Word
  BY DEF Lowest
<1> HIDE DEF low
<1>7. low \in Int /\ -Word <= low /\ low < Word
  BY <1>4, <1>5
<1>8. low % Word = IF low < 0 THEN low + Word ELSE low
  BY <1>4, <1>7, Modulo
<1> QED BY <1>6, <1>7, <1>8 DEF low

\* Whoever is in the window is not further away than it is wide, although its
\* lower end may be a number that is higher than all ratings.
LEMMA WindowReaches ==
  ASSUME NEW g \in Groups, NEW k \in Groups, NEW level \in 0..Levels,
         Rating[g] \in Window(Rating[k], level)
  PROVE  Difference(g, k) \in 0..Reach(level)
<1> DEFINE low == (IF Rating[k] <= MaxDifference THEN 0 ELSE Rating[k] - MaxDifference) - Step * level
<1>1. PICK r \in Nat : r = Rating[k]
  BY ArenaAssumption
<1>2. PICK t \in Nat : t = Rating[g]
  BY ArenaAssumption
<1>3. PICK w \in Nat : w = Step * level
  BY Widening
<1>4. PICK x \in Nat : x = Step * Levels
  BY Widening, ArenaAssumption
<1>5. w <= x /\ t + MaxDifference + x < Word /\ Word \in Nat /\ MaxDifference \in Nat
  BY <1>2, <1>3, <1>4, Widening, ArenaAssumption
<1>6. low \in Int /\ Lowest(Rating[k], level) = IF low < 0 THEN low + Word ELSE low
  BY LowestIs
<1>7. low = (IF r <= MaxDifference THEN 0 ELSE r - MaxDifference) - w
  BY <1>1, <1>3
<1> HIDE DEF low
<1>8. t <= r + MaxDifference + w /\ (IF low < 0 THEN low + Word ELSE low) <= t
  BY <1>1, <1>2, <1>3, <1>6 DEF Window, Highest
<1>9. low >= 0 \/ r <= MaxDifference + w
  BY <1>5, <1>7
<1>10. ~ (low < 0)
  BY <1>5, <1>7, <1>8
<1>11. t <= r + (MaxDifference + w) /\ r <= t + (MaxDifference + w)
  BY <1>5, <1>7, <1>8, <1>10
<1>12. Difference(g, k) = IF t > r THEN t - r ELSE r - t
  BY <1>1, <1>2 DEF Difference
<1>13. Reach(level) = MaxDifference + w
  BY <1>3 DEF Reach
<1> QED BY <1>5, <1>11, <1>12, <1>13

\* Around a high rating the window is as wide as it is meant to be.
LEMMA ReachMatches ==
  ASSUME NEW g \in Groups, NEW k \in Groups, NEW level \in 0..Levels,
         Rating[k] > Reach(Levels), Difference(g, k) <= Reach(level)
  PROVE  Rating[g] \in Window(Rating[k], level)
<1> DEFINE low == (IF Rating[k] <= MaxDifference THEN 0 ELSE Rating[k] - MaxDifference) - Step * level
<1>1. PICK r \in Nat : r = Rating[k]
  BY ArenaAssumption
<1>2. PICK t \in Nat : t = Rating[g]
  BY ArenaAssumption
<1>3. PICK w \in Nat : w = Step * level
  BY Widening
<1>4. PICK x \in Nat : x = Step * Levels
  BY Widening, ArenaAssumption
<1>5. w <= x /\ Word \in Nat /\ MaxDifference \in Nat /\ r > MaxDifference + x
  BY <1>1, <1>3, <1>4, Widening, ArenaAssumption DEF Reach
<1>6. low \in Int /\ Lowest(Rating[k], level) = IF low < 0 THEN low + Word ELSE low
  BY LowestIs
<1>7. low = (IF r <= MaxDifference THEN 0 ELSE r - MaxDifference) - w
  BY <1>1, <1>3
<1> HIDE DEF low
<1>8. low = r - MaxDifference - w /\ low >= 0
  BY <1>5, <1>7
<1>9. Lowest(Rating[k], level) = r - MaxDifference - w
  BY <1>6, <1>8
<1>10. (IF t > r THEN t - r ELSE r - t) <= MaxDifference + w
  BY <1>1, <1>2, <1>3 DEF Difference, Reach
<1>11. t \in (r - MaxDifference - w)..(r + MaxDifference + w)
  BY <1>5, <1>10
<1> QED BY <1>1, <1>2, <1>3, <1>9, <1>11 DEF Window, Highest

-----------------------------------------------------------------------------
(***************************************************************************)
(* A pass of BattlegroundMgr::Update.                                      *)
(***************************************************************************)

\* The level that a group has reached.
Reached(k) == IF k \in Waiting THEN LevelOf(age[k]) ELSE 0

\* The updates that a pass may make.
Due == UNION {{Rating[k]} \X (0..Reached(k)) : k \in Groups}

LEMMA ReachedIs ==
  ASSUME IInv, NEW k \in Groups
  PROVE  Reached(k) \in 0..Levels
BY ArenaAssumption DEF IInv, Reached, LevelOf

LEMMA DueIs ==
  ASSUME NEW k \in Groups, NEW level \in 0..Reached(k)
  PROVE  <<Rating[k], level>> \in Due
<1> DEFINE of(x) == {Rating[x]} \X (0..Reached(x))
<1>1. <<Rating[k], level>> \in of(k)
  OBVIOUS
<1> HIDE DEF of
<1>2. <<Rating[k], level>> \in UNION {of(x) : x \in Groups}
  BY <1>1
<1> QED BY <1>2 DEF Due, of

LEMMA DueOf ==
  ASSUME NEW u \in Due
  PROVE  \E k \in Groups : u[1] = Rating[k] /\ u[2] \in 0..Reached(k)
BY DEF Due

\* What a pass may have made of the lists and the opponents: nobody has lost an
\* opponent, and whoever has got one was matched by an update that was due.
InPass ==
  {s \in [queue : [Factions -> Seq(Groups)], opponent : [Groups -> Groups]] :
     /\ Placed(s.queue, Queued)
     /\ \A g \in Groups : opponent[g] # g => s.opponent[g] # g
     /\ \A g \in Groups : opponent[g] = g /\ s.opponent[g] # g =>
          \E u \in Due : Matches(g, u[1], u[2]) /\ Matches(s.opponent[g], u[1], u[2])}

Moved(s) == \E x \in Waiting : s.opponent[x] # x

Before == [queue |-> queue, opponent |-> opponent]

LEMMA BeforeInPass == IInv => Before \in InPass
BY DEF IInv, InPass, Before, Placed

LEMMA QueuedGroups == IInv => Queued \subseteq Groups
BY DEF IInv, Queued, ToSet

LEMMA UpdateInPass ==
  ASSUME IInv, NEW s \in InPass, NEW u \in Due
  PROVE  After(s, u) \in InPass /\ (Moved(s) => Moved(After(s, u)))
<1> DEFINE free == Free(s, u[1], u[2])
           pairs == Pairs(s, free)
<1>1. CASE pairs = {}
  <2>1. After(s, u) = s
    BY <1>1, UpdateMatches
  <2> QED BY <2>1
<1>2. CASE pairs # {}
  <2>1. PICK p \in pairs : After(s, u) = Meet(s, p[1], p[2])
    BY <1>2, UpdateMatches
  <2>2. s.queue \in [Factions -> Seq(Groups)] /\ s.opponent \in [Groups -> Groups] /\ Placed(s.queue, Queued)
    BY DEF InPass
  <2>3. p[1] \in Queued \cap free /\ p[2] \in Queued \cap free /\ p[1] # p[2]
    BY <2>2, PairsMeet
  <2>4. Placed(Meet(s, p[1], p[2]).queue, Queued)
    BY <2>2, <2>3, QueuedGroups, MeetPlaces
  <2> DEFINE t == Meet(s, p[1], p[2])
  <2>5. t = [queue |-> t.queue, opponent |-> t.opponent]
    BY DEF Meet
  <2>6. t.opponent = [s.opponent EXCEPT ![p[1]] = p[2], ![p[2]] = p[1]]
    BY DEF Meet
  <2>7. t.queue \in [Factions -> Seq(Groups)]
    BY <2>4 DEF Placed
  <2> HIDE DEF t
  <2>8. p[1] \in Groups /\ p[2] \in Groups
    BY <2>3, QueuedGroups
  <2>9. t.opponent \in [Groups -> Groups]
    BY <2>2, <2>6, <2>8
  <2>10. t \in [queue : [Factions -> Seq(Groups)], opponent : [Groups -> Groups]]
    BY <2>5, <2>7, <2>9
  <2>11. t.opponent[p[1]] = p[2] /\ t.opponent[p[2]] = p[1]
    BY <2>2, <2>3, <2>6, <2>8
  <2>12. \A g \in Groups : g # p[1] /\ g # p[2] => t.opponent[g] = s.opponent[g]
    BY <2>2, <2>6
  <2>13. Matches(p[1], u[1], u[2]) /\ Matches(p[2], u[1], u[2])
    BY <2>3 DEF Free
  <2>14. \A g \in Groups : s.opponent[g] # g => t.opponent[g] # g
    BY <2>3, <2>11, <2>12
  <2>15. \A g \in Groups : opponent[g] # g => t.opponent[g] # g
    BY <2>14 DEF InPass
  <2>16. ASSUME NEW g \in Groups, opponent[g] = g, t.opponent[g] # g
         PROVE  \E v \in Due : Matches(g, v[1], v[2]) /\ Matches(t.opponent[g], v[1], v[2])
    <3>1. CASE g = p[1] \/ g = p[2]
      BY <2>11, <2>13, <3>1
    <3>2. CASE g # p[1] /\ g # p[2]
      <4>1. t.opponent[g] = s.opponent[g] /\ s.opponent[g] # g
        BY <2>12, <2>16, <3>2
      <4> QED BY <2>16, <4>1 DEF InPass
    <3> QED BY <3>1, <3>2
  <2>17. t \in InPass
    BY <2>4, <2>10, <2>15, <2>16 DEF InPass, t
  <2>18. Moved(s) => Moved(t)
    BY <2>14, QueuedGroups DEF Moved, Waiting
  <2> QED BY <2>1, <2>17, <2>18 DEF t
<1> QED BY <1>1, <1>2

\* An update for a group that waits, and reaches another, matches somebody.
LEMMA UpdateMoves ==
  ASSUME IInv, NEW s \in InPass, NEW u \in Due, NEW g \in Waiting, NEW h \in Waiting, g # h,
         Matches(g, u[1], u[2]), Matches(h, u[1], u[2])
  PROVE  Moved(After(s, u))
<1>1. CASE Moved(s)
  BY <1>1, UpdateInPass
<1>2. CASE ~ Moved(s)
  <2> DEFINE free == Free(s, u[1], u[2])
             pairs == Pairs(s, free)
  <2>1. g \in Queued \cap Groups /\ h \in Queued \cap Groups
    BY QueuedGroups DEF Waiting
  <2>2. s.opponent[g] = g /\ s.opponent[h] = h
    BY <1>2 DEF Moved
  <2>3. g \in Queued \cap free /\ h \in Queued \cap free
    BY <2>1, <2>2 DEF Free
  <2>4. Placed(s.queue, Queued) /\ s.opponent \in [Groups -> Groups]
    BY DEF InPass
  <2>5. pairs # {}
    <3> HIDE DEF free
    <3> QED BY <2>3, <2>4, TwoMeet
  <2>6. PICK p \in pairs : After(s, u) = Meet(s, p[1], p[2])
    BY <2>5, UpdateMatches
  <2>7. p[1] \in Queued \cap free /\ p[2] \in Queued \cap free /\ p[1] # p[2]
    BY <2>4, PairsMeet
  <2>8. p[1] \in Groups /\ p[2] \in Groups /\ s.opponent[p[1]] = p[1]
    BY <2>7 DEF Free
  <2>9. p[1] \in Waiting
    BY <2>7, <2>8 DEF InPass, Waiting, Invited
  <2>10. Meet(s, p[1], p[2]).opponent = [s.opponent EXCEPT ![p[1]] = p[2], ![p[2]] = p[1]]
    BY DEF Meet
  <2>11. Meet(s, p[1], p[2]).opponent[p[1]] # p[1]
    BY <2>4, <2>7, <2>8, <2>10
  <2> QED BY <2>6, <2>9, <2>11 DEF Moved
<1> QED BY <1>1, <1>2

\* The updates of a pass, one after the other.
LEMMA PassSteps ==
  ASSUME IInv, NEW us \in Seq(Due)
  PROVE  \E h \in [0..Len(us) -> InPass] :
           /\ h[0] = Before
           /\ \A i \in 1..Len(us) : h[i] = After(h[i - 1], us[i])
           /\ FoldLeft(After, Before, us) = h[Len(us)]
<1> DEFINE n == Len(us)
           Order(g) == g = [s \in SUBSET (1..n) |->
                              IF s = {} THEN Before ELSE After(g[s \ {Max(s)}], us[Max(s)])]
           F == [x \in InPass \X (1..n) |-> After(x[1], us[x[2]])]
           k == CHOOSE g : Order(g)
           h == [i \in 0..n |-> k[1..i]]
<1>1. n \in Nat /\ DOMAIN us = 1..n /\ \A i \in 1..n : us[i] \in Due
  OBVIOUS
<1>2. Before \in InPass
  BY BeforeInPass
<1>3. \A i \in 1..n : \A s \in InPass : After(s, us[i]) \in InPass
  BY <1>1, UpdateInPass
<1>4. FoldLeft(After, Before, us) = k[1..n]
  BY <1>1 DEF FoldLeft, MapThenFoldSet
<1>5. F \in [InPass \X (1..n) -> InPass] /\ \A s \in InPass, i \in 1..n : F[<<s, i>>] = After(s, us[i])
  BY <1>3
<1>6. \E g : Order(g)
  <2> HIDE DEF F
  <2>1. PICK g \in [SUBSET (1..n) -> InPass] : IsFoldInOrder(g, F, Before, n)
    <3>1. n \in Nat /\ F \in [InPass \X (1..n) -> InPass]
      BY <1>1, <1>5
    <3> HIDE DEF n, Order
    <3> QED BY <1>2, <3>1, FoldInOrder
  <2>2. ASSUME NEW s \in SUBSET (1..n), s # {}
        PROVE  g[s] = After(g[s \ {Max(s)}], us[Max(s)])
    <3>1. Max(s) \in 1..n
      BY <1>1, <2>2, MaxIn
    <3>2. s \ {Max(s)} \in SUBSET (1..n)
      OBVIOUS
    <3>3. g[s \ {Max(s)}] \in InPass
      BY <3>2
    <3> QED BY <1>5, <2>1, <2>2, <3>1, <3>3 DEF IsFoldInOrder
  <2>3. g = [s \in SUBSET (1..n) |-> IF s = {} THEN Before ELSE After(g[s \ {Max(s)}], us[Max(s)])]
    BY <2>1, <2>2 DEF IsFoldInOrder
  <2> QED BY <2>3
<1>7. Order(k)
  BY <1>6
<1> HIDE DEF F, k
<1>8. \A s \in SUBSET (1..n) : k[s] = IF s = {} THEN Before ELSE After(k[s \ {Max(s)}], us[Max(s)])
  BY <1>7
<1>9. k[1..0] = Before
  <2>1. 1..0 = {} /\ {} \in SUBSET (1..n)
    OBVIOUS
  <2> QED BY <1>8, <2>1
<1>10. ASSUME NEW i \in 1..n PROVE k[1..i] = After(k[1..(i - 1)], us[i])
  <2>1. 1..i \in SUBSET (1..n) /\ 1..i # {} /\ Max(1..i) = i /\ (1..i) \ {i} = 1..(i - 1)
    BY <1>1, MaxOfPrefix
  <2>2. k[1..i] = After(k[(1..i) \ {Max(1..i)}], us[Max(1..i)])
    BY <1>8, <2>1
  <2> QED BY <2>1, <2>2
<1> HIDE DEF n, Order
<1>11. \A i \in 0..n : h[i] = k[1..i]
  OBVIOUS
<1>12. DOMAIN h = 0..n
  OBVIOUS
<1>13. h[0] = Before
  BY <1>1, <1>9, <1>11
<1>14. \A i \in 1..n : h[i] = After(h[i - 1], us[i])
  BY <1>1, <1>10, <1>11
<1>15. h = [i \in 0..n |-> h[i]]
  OBVIOUS
<1>16. FoldLeft(After, Before, us) = h[n]
  BY <1>1, <1>4, <1>11
<1> HIDE DEF h
<1>17. \A i \in 0..n : h[i] \in InPass
  <2> DEFINE I == {i \in 0..n : h[i] \in InPass}
  <2>1. 0 \in I
    BY <1>1, <1>2, <1>13
  <2>2. ASSUME NEW i \in 0..(n - 1), i \in I PROVE i + 1 \in I
    <3>1. i + 1 \in 1..n /\ (i + 1) - 1 = i
      BY <1>1
    <3>2. h[i + 1] = After(h[i], us[i + 1])
      BY <1>14, <3>1
    <3> QED BY <1>1, <1>3, <2>2, <3>1, <3>2
  <2>3. \A i \in 0..n : i \in I
    <3> HIDE DEF I
    <3> QED BY <1>1, <2>1, <2>2, UpTo
  <2> QED BY <2>3
<1>18. h \in [0..n -> InPass]
  BY <1>15, <1>17
<1> QED BY <1>13, <1>14, <1>16, <1>18 DEF n

LEMMA PassIn ==
  ASSUME IInv, NEW us \in Seq(Due)
  PROVE  FoldLeft(After, Before, us) \in InPass
<1>1. PICK h \in [0..Len(us) -> InPass] : FoldLeft(After, Before, us) = h[Len(us)]
  BY PassSteps
<1>2. Len(us) \in 0..Len(us)
  OBVIOUS
<1> QED BY <1>1, <1>2

\* One update that is sure to match somebody has somebody matched by the end.
LEMMA PassMoves ==
  ASSUME IInv, NEW us \in Seq(Due), NEW pos \in 1..Len(us),
         \A s \in InPass : Moved(After(s, us[pos]))
  PROVE  Moved(FoldLeft(After, Before, us))
<1> DEFINE n == Len(us)
<1>1. n \in Nat /\ pos \in 1..n /\ \A i \in 1..n : us[i] \in Due
  OBVIOUS
<1>2. PICK h \in [0..n -> InPass] :
        /\ \A i \in 1..n : h[i] = After(h[i - 1], us[i])
        /\ FoldLeft(After, Before, us) = h[n]
  BY PassSteps
<1> DEFINE I == {i \in 0..n : i >= pos => Moved(h[i])}
<1> HIDE DEF n
<1>3. 0 \in I
  BY <1>1
<1>4. ASSUME NEW i \in 0..(n - 1), i \in I PROVE i + 1 \in I
  <2>1. i + 1 \in 1..n /\ (i + 1) - 1 = i /\ i \in 0..n
    BY <1>1
  <2>2. h[i + 1] = After(h[i], us[i + 1]) /\ h[i] \in InPass /\ us[i + 1] \in Due
    BY <1>1, <1>2, <2>1
  <2>3. CASE i + 1 < pos
    BY <1>1, <2>1, <2>3
  <2>4. CASE i + 1 = pos
    BY <2>1, <2>2, <2>4
  <2>5. CASE i + 1 > pos
    <3>1. Moved(h[i])
      BY <1>1, <1>4, <2>5
    <3> QED BY <2>1, <2>2, <3>1, UpdateInPass
  <2> QED BY <1>1, <2>1, <2>3, <2>4, <2>5
<1>5. \A i \in 0..n : i \in I
  <2> HIDE DEF I
  <2> QED BY <1>1, <1>3, <1>4, UpTo
<1>6. n \in 0..n /\ n >= pos
  BY <1>1
<1> QED BY <1>2, <1>5, <1>6

-----------------------------------------------------------------------------
(***************************************************************************)
(* What a pass updates.                                                    *)
(***************************************************************************)

LEMMA ScheduleIs ==
  ASSUME NEW S, NEW us \in Seq(S), NEW u \in S
  PROVE  /\ Schedule(us, u) \in Seq(S)
         /\ \A x : x \in ToSet(us) \/ x = u => x \in ToSet(Schedule(us, u))
<1>1. CASE Contains(us, u)
  BY <1>1 DEF Schedule, Contains, ToSet
<1>2. CASE ~ Contains(us, u)
  <2> DEFINE r == Append(us, u)
  <2>1. /\ r \in Seq(S) /\ Len(r) = Len(us) + 1
        /\ \A i \in 1..Len(us) : r[i] = us[i]
        /\ r[Len(us) + 1] = u
    OBVIOUS
  <2>2. Schedule(us, u) = r
    BY <1>2 DEF Schedule
  <2> HIDE DEF r
  <2>3. \A i \in 1..Len(us) : us[i] \in ToSet(r)
    BY <2>1 DEF ToSet
  <2>4. u \in ToSet(r)
    BY <2>1 DEF ToSet
  <2>5. \A x \in ToSet(us) : \E i \in 1..Len(us) : x = us[i]
    BY DEF ToSet
  <2> QED BY <2>1, <2>2, <2>3, <2>4, <2>5
<1> QED BY <1>1, <1>2

\* The groups in the order of the two lists.
Line == queue["alliance"] \o queue["horde"]

LEMMA LineIs ==
  ASSUME IInv
  PROVE  Line \in Seq(Groups) /\ \A g \in Queued : \E i \in 1..Len(Line) : Line[i] = g
<1> DEFINE a == queue["alliance"]
           h == queue["horde"]
<1>1. a \in Seq(Groups) /\ h \in Seq(Groups)
  BY FactionsAre DEF IInv, Placed
<1>2. ToSet(a) \cup ToSet(h) = Queued
  BY DEF IInv, Placed
<1>3. Line = a \o h
  BY DEF Line
<1> HIDE DEF a, h
<1>4. /\ Line \in Seq(Groups) /\ Len(Line) = Len(a) + Len(h)
      /\ \A i \in 1..(Len(a) + Len(h)) : Line[i] = IF i <= Len(a) THEN a[i] ELSE h[i - Len(a)]
  BY <1>1, <1>3, ConcatProperties, Zenon
<1>5. Len(a) \in Nat /\ Len(h) \in Nat
  BY <1>1
<1>6. ASSUME NEW i \in 1..Len(a) PROVE i \in 1..Len(Line) /\ Line[i] = a[i]
  BY <1>4, <1>5
<1>7. ASSUME NEW i \in 1..Len(h) PROVE \E j \in 1..Len(Line) : Line[j] = h[i]
  <2>1. Len(a) + i \in 1..Len(Line) /\ ~ (Len(a) + i <= Len(a)) /\ (Len(a) + i) - Len(a) = i
    BY <1>4, <1>5
  <2>2. Line[Len(a) + i] = h[i]
    BY <1>4, <2>1
  <2> QED BY <2>1, <2>2
<1>8. ASSUME NEW g \in Queued PROVE \E i \in 1..Len(Line) : Line[i] = g
  <2>1. CASE g \in ToSet(a)
    <3>1. PICK i \in 1..Len(a) : g = a[i]
      BY <1>1, <2>1 DEF ToSet
    <3> QED BY <1>6, <3>1
  <2>2. CASE g \in ToSet(h)
    <3>1. PICK i \in 1..Len(h) : g = h[i]
      BY <1>1, <2>2 DEF ToSet
    <3> QED BY <1>7, <3>1
  <2> QED BY <1>2, <2>1, <2>2
<1> QED BY <1>4, <1>8

UpdateOf(g) == <<Rating[g], LevelOf(age[g])>>
Noted(us, g) == IF Refreshed(g) THEN Schedule(us, UpdateOf(g)) ELSE us

LEMMA UpdateOfDue ==
  ASSUME IInv, NEW g \in Waiting
  PROVE  UpdateOf(g) \in Due
<1>1. g \in Groups
  BY QueuedGroups DEF Waiting
<1>2. LevelOf(age[g]) \in 0..Reached(g)
  BY <1>1, ArenaAssumption DEF IInv, Reached, LevelOf
<1> QED BY <1>1, <1>2, DueIs DEF UpdateOf

LEMMA NotedIs ==
  ASSUME IInv, NEW us \in Seq(Due), NEW g
  PROVE  /\ Noted(us, g) \in Seq(Due)
         /\ \A x \in ToSet(us) : x \in ToSet(Noted(us, g))
         /\ Refreshed(g) => UpdateOf(g) \in ToSet(Noted(us, g))
<1>1. CASE Refreshed(g)
  <2>1. UpdateOf(g) \in Due
    BY <1>1, UpdateOfDue DEF Refreshed
  <2>2. Noted(us, g) = Schedule(us, UpdateOf(g))
    BY <1>1 DEF Noted
  <2> QED BY <2>1, <2>2, ScheduleIs
<1>2. CASE ~ Refreshed(g)
  BY <1>2 DEF Noted
<1> QED BY <1>1, <1>2

LEMMA RefreshSteps ==
  ASSUME IInv, NEW updates \in Seq(Due)
  PROVE  \E h \in [0..Len(Line) -> Seq(Due)] :
           /\ h[0] = updates
           /\ \A i \in 1..Len(Line) : h[i] = Noted(h[i - 1], Line[i])
           /\ DynamicMMR(updates) = h[Len(Line)]
<1> DEFINE n == Len(Line)
           Order(g) == g = [s \in SUBSET (1..n) |->
                              IF s = {} THEN updates ELSE Noted(g[s \ {Max(s)}], Line[Max(s)])]
           F == [x \in Seq(Due) \X (1..n) |-> Noted(x[1], Line[x[2]])]
           k == CHOOSE g : Order(g)
           h == [i \in 0..n |-> k[1..i]]
<1>1. n \in Nat /\ DOMAIN Line = 1..n
  BY LineIs
<1>2. updates \in Seq(Due)
  OBVIOUS
<1>3. \A i \in 1..n : \A us \in Seq(Due) : Noted(us, Line[i]) \in Seq(Due)
  BY <1>1, NotedIs
<1>4. DynamicMMR(updates) = k[1..n]
  BY <1>1 DEF DynamicMMR, FoldLeft, MapThenFoldSet, Noted, UpdateOf, Line
<1>5. F \in [Seq(Due) \X (1..n) -> Seq(Due)] /\ \A us \in Seq(Due), i \in 1..n : F[<<us, i>>] = Noted(us, Line[i])
  BY <1>3
<1>6. \E g : Order(g)
  <2> HIDE DEF F
  <2>1. PICK g \in [SUBSET (1..n) -> Seq(Due)] : IsFoldInOrder(g, F, updates, n)
    <3>1. n \in Nat /\ F \in [Seq(Due) \X (1..n) -> Seq(Due)]
      BY <1>1, <1>5
    <3> HIDE DEF n, Order
    <3> QED BY <1>2, <3>1, FoldInOrder
  <2>2. ASSUME NEW s \in SUBSET (1..n), s # {}
        PROVE  g[s] = Noted(g[s \ {Max(s)}], Line[Max(s)])
    <3>1. Max(s) \in 1..n
      BY <1>1, <2>2, MaxIn
    <3>2. s \ {Max(s)} \in SUBSET (1..n)
      OBVIOUS
    <3>3. g[s \ {Max(s)}] \in Seq(Due)
      BY <3>2
    <3> QED BY <1>5, <2>1, <2>2, <3>1, <3>3 DEF IsFoldInOrder
  <2>3. g = [s \in SUBSET (1..n) |-> IF s = {} THEN updates ELSE Noted(g[s \ {Max(s)}], Line[Max(s)])]
    BY <2>1, <2>2 DEF IsFoldInOrder
  <2> QED BY <2>3
<1>7. Order(k)
  BY <1>6
<1> HIDE DEF F, k
<1>8. \A s \in SUBSET (1..n) : k[s] = IF s = {} THEN updates ELSE Noted(k[s \ {Max(s)}], Line[Max(s)])
  BY <1>7
<1>9. k[1..0] = updates
  <2>1. 1..0 = {} /\ {} \in SUBSET (1..n)
    OBVIOUS
  <2> QED BY <1>8, <2>1
<1>10. ASSUME NEW i \in 1..n PROVE k[1..i] = Noted(k[1..(i - 1)], Line[i])
  <2>1. 1..i \in SUBSET (1..n) /\ 1..i # {} /\ Max(1..i) = i /\ (1..i) \ {i} = 1..(i - 1)
    BY <1>1, MaxOfPrefix
  <2>2. k[1..i] = Noted(k[(1..i) \ {Max(1..i)}], Line[Max(1..i)])
    BY <1>8, <2>1
  <2> QED BY <2>1, <2>2
<1> HIDE DEF n, Order
<1>11. \A i \in 0..n : h[i] = k[1..i]
  OBVIOUS
<1>12. h[0] = updates
  BY <1>1, <1>9, <1>11
<1>13. \A i \in 1..n : h[i] = Noted(h[i - 1], Line[i])
  BY <1>1, <1>10, <1>11
<1>14. h = [i \in 0..n |-> h[i]]
  OBVIOUS
<1>15. DynamicMMR(updates) = h[n]
  BY <1>1, <1>4, <1>11
<1> HIDE DEF h
<1>16. \A i \in 0..n : h[i] \in Seq(Due)
  <2> DEFINE I == {i \in 0..n : h[i] \in Seq(Due)}
  <2>1. 0 \in I
    BY <1>1, <1>2, <1>12
  <2>2. ASSUME NEW i \in 0..(n - 1), i \in I PROVE i + 1 \in I
    <3>1. i + 1 \in 1..n /\ (i + 1) - 1 = i
      BY <1>1
    <3>2. h[i + 1] = Noted(h[i], Line[i + 1])
      BY <1>13, <3>1
    <3> QED BY <1>1, <1>3, <2>2, <3>1, <3>2
  <2>3. \A i \in 0..n : i \in I
    <3> HIDE DEF I
    <3> QED BY <1>1, <2>1, <2>2, UpTo
  <2> QED BY <2>3
<1>17. h \in [0..n -> Seq(Due)]
  BY <1>14, <1>16
<1> QED BY <1>12, <1>13, <1>15, <1>17 DEF n

LEMMA RefreshIs ==
  ASSUME IInv, NEW updates \in Seq(Due)
  PROVE  /\ DynamicMMR(updates) \in Seq(Due)
         /\ \A g \in Waiting : age[g] > 0 => UpdateOf(g) \in ToSet(DynamicMMR(updates))
<1> DEFINE n == Len(Line)
<1>1. n \in Nat
  BY LineIs
<1>2. PICK h \in [0..n -> Seq(Due)] :
        /\ \A i \in 1..n : h[i] = Noted(h[i - 1], Line[i])
        /\ DynamicMMR(updates) = h[n]
  BY RefreshSteps
<1>3. n \in 0..n
  BY <1>1
<1>4. ASSUME NEW g \in Waiting, age[g] > 0 PROVE UpdateOf(g) \in ToSet(h[n])
  <2>1. PICK pos \in 1..n : Line[pos] = g
    BY LineIs DEF Waiting
  <2>2. Refreshed(g)
    BY <1>4 DEF Refreshed, Refreshes
  <2> DEFINE I == {i \in 0..n : i >= pos => UpdateOf(g) \in ToSet(h[i])}
  <2> HIDE DEF n
  <2>3. 0 \in I
    BY <1>1
  <2>4. ASSUME NEW i \in 0..(n - 1), i \in I PROVE i + 1 \in I
    <3>1. i + 1 \in 1..n /\ (i + 1) - 1 = i /\ i \in 0..n
      BY <1>1
    <3>2. h[i + 1] = Noted(h[i], Line[i + 1]) /\ h[i] \in Seq(Due)
      BY <1>2, <3>1
    <3>3. CASE i + 1 < pos
      BY <1>1, <3>1, <3>3
    <3>4. CASE i + 1 = pos
      <4>1. Line[i + 1] = g
        BY <2>1, <3>4
      <4>2. UpdateOf(g) \in ToSet(Noted(h[i], g))
        BY <2>2, <3>2, NotedIs
      <4> QED BY <3>1, <3>2, <4>1, <4>2
    <3>5. CASE i + 1 > pos
      <4>1. UpdateOf(g) \in ToSet(h[i])
        BY <1>1, <2>4, <3>5
      <4> QED BY <3>1, <3>2, <4>1, NotedIs
    <3> QED BY <1>1, <3>1, <3>3, <3>4, <3>5
  <2>5. \A i \in 0..n : i \in I
    <3> HIDE DEF I
    <3> QED BY <1>1, <2>3, <2>4, UpTo
  <2>6. n >= pos
    BY <1>1
  <2> QED BY <1>3, <2>5, <2>6
<1> QED BY <1>2, <1>3, <1>4

LEMMA FirstIs ==
  ASSUME IInv, NEW s \in InPass, Fronts(s) # {}
  PROVE  First(s) \in Groups
<1>1. PICK f \in Factions : s.queue[f] # <<>> /\ s.queue[f][1] \in Fronts(s)
  BY DEF Fronts
<1>2. s.queue[f] \in Seq(Groups) /\ Placed(s.queue, Queued)
  BY DEF InPass
<1>3. s.queue[f][1] \in ToSet(s.queue[f])
  BY <1>1, <1>2 DEF ToSet
<1>4. s.queue[f][1] \in Queued
  BY <1>2, <1>3 DEF Placed, Factions
<1>5. ToSet(joined) \cap Fronts(s) # {}
  BY <1>1, <1>4 DEF Queued
<1>6. /\ Foremost(joined, Fronts(s)) # {}
      /\ Foremost(joined, Fronts(s)) \subseteq ToSet(joined)
  <2>1. joined \in Seq(Groups)
    BY DEF IInv
  <2> QED BY <1>5, <2>1, ForemostIs
<1>7. First(s) \in ToSet(joined)
  BY <1>6 DEF First
<1> QED BY <1>7, QueuedGroups DEF Queued

LEMMA ForceInPass ==
  ASSUME IInv, NEW s \in InPass
  PROVE  ForcedUpdate(s) \in InPass /\ (Moved(s) => Moved(ForcedUpdate(s)))
<1>1. CASE Fronts(s) = {}
  BY <1>1 DEF ForcedUpdate
<1>2. CASE Fronts(s) # {}
  <2>1. First(s) \in Groups
    BY <1>2, FirstIs
  <2>2. 0 \in 0..Reached(First(s))
    BY <2>1, ReachedIs, ArenaAssumption
  <2>3. <<Rating[First(s)], 0>> \in Due
    BY <2>1, <2>2, DueIs
  <2>4. ForcedUpdate(s) = After(s, <<Rating[First(s)], 0>>)
    BY <1>2 DEF ForcedUpdate
  <2> QED BY <2>3, <2>4, UpdateInPass
<1> QED BY <1>1, <1>2

LEMMA ScheduledDue == ASSUME IInv PROVE scheduled \in Seq(Due)
<1>1. Plain \subseteq Due
  <2> SUFFICES ASSUME NEW k \in Groups PROVE <<Rating[k], 0>> \in Due
    BY DEF Plain
  <2>1. 0 \in 0..Reached(k)
    BY ReachedIs, ArenaAssumption
  <2> QED BY <2>1, DueIs
<1>2. scheduled \in Seq(Plain)
  BY DEF IInv
<1> QED BY <1>1, <1>2

\* The updates of a pass, and what they make of the lists and the opponents.
Updates(refresh) == IF refresh THEN DynamicMMR(scheduled) ELSE scheduled
Final(refresh, force) ==
  LET matched == FoldLeft(After, Before, Updates(refresh))
  IN IF force THEN ForcedUpdate(matched) ELSE matched

LEMMA UpdateIs ==
  ASSUME IInv, NEW refresh \in BOOLEAN, NEW force \in BOOLEAN, Update(refresh, force)
  PROVE  /\ queue' = Final(refresh, force).queue
         /\ opponent' = Final(refresh, force).opponent
         /\ Final(refresh, force) \in InPass
         /\ scheduled' = <<>> /\ joined' = joined /\ age' = age
<1>1. queue' = Final(refresh, force).queue /\ opponent' = Final(refresh, force).opponent
  BY DEF Update, Final, Updates, Before
<1>2. Updates(refresh) \in Seq(Due)
  BY ScheduledDue, RefreshIs DEF Updates
<1>3. Final(refresh, force) \in InPass
  BY <1>2, PassIn, ForceInPass DEF Final
<1> QED BY <1>1, <1>3 DEF Update

-----------------------------------------------------------------------------
(***************************************************************************)
(* The invariant.                                                          *)
(***************************************************************************)

LEMMA InitIInv == Init => IInv
<1> SUFFICES ASSUME Init PROVE IInv
  OBVIOUS
<1>1. ToSet(<<>>) = {} /\ IsInjective(<<>>)
  BY DEF ToSet, IsInjective
<1>2. joined = <<>> /\ scheduled = <<>> /\ \A f \in Factions : queue[f] = <<>>
  BY DEF Init
<1>3. queue \in [Factions -> Seq(Groups)]
  BY DEF Init
<1>4. Queued = {}
  BY <1>1, <1>2 DEF Queued
<1>5. Placed(queue, Queued)
  BY <1>1, <1>2, <1>3, <1>4 DEF Placed, Factions
<1> QED BY <1>1, <1>2, <1>5 DEF Init, IInv

LEMMA JoinIInv ==
  ASSUME IInv, NEW g \in Groups, Join(g)
  PROVE  IInv'
<1>1. joined' \in Seq(Groups) /\ IsInjective(joined') /\ ToSet(joined') = Queued \cup {g}
  BY AppendIs DEF IInv, Join, Queued
<1>2. Placed(queue', Queued')
  <2> DEFINE f == Faction[g]
  <2>1. f \in Factions
    BY ArenaAssumption
  <2>2. queue' = [queue EXCEPT ![f] = Append(@, g)]
    BY DEF Join
  <2>3. \A e \in Factions : queue[e] \in Seq(Groups) /\ IsInjective(queue[e]) /\ g \notin ToSet(queue[e])
    BY DEF IInv, Placed, Join, Factions
  <2>4. /\ Append(queue[f], g) \in Seq(Groups) /\ IsInjective(Append(queue[f], g))
        /\ ToSet(Append(queue[f], g)) = ToSet(queue[f]) \cup {g}
    BY <2>1, <2>3, AppendIs
  <2>5. queue \in [Factions -> Seq(Groups)]
    BY DEF IInv, Placed
  <2> HIDE DEF f
  <2>6. queue'[f] = Append(queue[f], g) /\ \A e \in Factions : e # f => queue'[e] = queue[e]
    BY <2>1, <2>2, <2>5
  <2>7. queue' \in [Factions -> Seq(Groups)]
    BY <2>1, <2>2, <2>4, <2>5
  <2>8. \A e \in Factions : IsInjective(queue'[e])
    BY <2>3, <2>4, <2>6
  <2>9. \A e \in Factions : ToSet(queue'[e]) = ToSet(queue[e]) \cup (IF e = f THEN {g} ELSE {})
    BY <2>4, <2>6
  <2>10. /\ ToSet(queue["alliance"]) \cap ToSet(queue["horde"]) = {}
         /\ ToSet(queue["alliance"]) \cup ToSet(queue["horde"]) = Queued
    BY DEF IInv, Placed
  <2>11. /\ ToSet(queue'["alliance"]) \cap ToSet(queue'["horde"]) = {}
         /\ ToSet(queue'["alliance"]) \cup ToSet(queue'["horde"]) = Queued \cup {g}
    <3>1. CASE f = "alliance"
      BY <2>3, <2>9, <2>10, <3>1 DEF Factions
    <3>2. CASE f = "horde"
      BY <2>3, <2>9, <2>10, <3>2 DEF Factions
    <3> QED BY <2>1, <3>1, <3>2 DEF Factions
  <2>12. Queued' = Queued \cup {g}
    BY <1>1 DEF Queued
  <2> QED BY <2>7, <2>8, <2>11, <2>12 DEF Placed
<1>3. age' \in [Groups -> Nat] /\ opponent' \in [Groups -> Groups]
  BY DEF IInv, Join
<1>4. scheduled' \in Seq(Plain)
  <2>1. <<Rating[g], 0>> \in Plain
    BY DEF Plain
  <2> QED BY <2>1, ScheduleIs DEF IInv, Join
<1> QED BY <1>1, <1>2, <1>3, <1>4 DEF IInv

LEMMA LeaveIInv ==
  ASSUME IInv, NEW g \in Groups, Leave(g)
  PROVE  IInv'
<1>1. joined' \in Seq(Groups) /\ IsInjective(joined') /\ ToSet(joined') = Queued \ {g}
  BY RemoveFirstIs DEF IInv, Leave, Queued
<1>2. Placed(queue', Queued')
  <2>1. \A f \in Factions : queue[f] \in Seq(Groups) /\ IsInjective(queue[f])
    BY DEF IInv, Placed
  <2>2. queue' = [f \in Factions |-> RemoveFirst(queue[f], g)]
    BY DEF Leave
  <2>3. \A f \in Factions : /\ RemoveFirst(queue[f], g) \in Seq(Groups)
                            /\ IsInjective(RemoveFirst(queue[f], g))
                            /\ ToSet(RemoveFirst(queue[f], g)) = ToSet(queue[f]) \ {g}
    BY <2>1, RemoveFirstIs
  <2>4. \A f \in Factions : queue'[f] = RemoveFirst(queue[f], g)
    BY <2>2
  <2>5. queue' \in [Factions -> Seq(Groups)]
    BY <2>2, <2>3
  <2>6. \A f \in Factions : IsInjective(queue'[f]) /\ ToSet(queue'[f]) = ToSet(queue[f]) \ {g}
    BY <2>3, <2>4
  <2>7. /\ ToSet(queue["alliance"]) \cap ToSet(queue["horde"]) = {}
        /\ ToSet(queue["alliance"]) \cup ToSet(queue["horde"]) = Queued
    BY DEF IInv, Placed
  <2>8. /\ ToSet(queue'["alliance"]) \cap ToSet(queue'["horde"]) = {}
        /\ ToSet(queue'["alliance"]) \cup ToSet(queue'["horde"]) = Queued \ {g}
    BY <2>6, <2>7, FactionsAre
  <2>9. Queued' = Queued \ {g}
    BY <1>1 DEF Queued
  <2> QED BY <2>5, <2>6, <2>8, <2>9 DEF Placed
<1>3. age' \in [Groups -> Nat] /\ opponent' \in [Groups -> Groups] /\ scheduled' \in Seq(Plain)
  BY DEF IInv, Leave
<1> QED BY <1>1, <1>2, <1>3 DEF IInv

LEMMA UpdateIInv ==
  ASSUME IInv, NEW refresh \in BOOLEAN, NEW force \in BOOLEAN, Update(refresh, force)
  PROVE  IInv'
<1>1. /\ queue' = Final(refresh, force).queue /\ opponent' = Final(refresh, force).opponent
      /\ Final(refresh, force) \in InPass
      /\ scheduled' = <<>> /\ joined' = joined /\ age' = age
  BY UpdateIs
<1>2. Queued' = Queued
  BY <1>1 DEF Queued
<1>3. Placed(queue', Queued') /\ opponent' \in [Groups -> Groups]
  BY <1>1, <1>2 DEF InPass
<1>4. scheduled' \in Seq(Plain)
  BY <1>1
<1> QED BY <1>1, <1>3, <1>4 DEF IInv

LEMMA NextIInv == IInv /\ [Next]_vars => IInv'
<1> SUFFICES ASSUME IInv, [Next]_vars PROVE IInv'
  OBVIOUS
<1>1. ASSUME NEW refresh \in BOOLEAN, NEW force \in BOOLEAN, Update(refresh, force) PROVE IInv'
  BY <1>1, UpdateIInv
<1>2. ASSUME NEW groups \in SUBSET Waiting, Age(groups) PROVE IInv'
  <2>1. age' \in [Groups -> Nat]
    BY <1>2 DEF IInv, Age, Older
  <2>2. queue' = queue /\ joined' = joined /\ opponent' = opponent /\ scheduled' = scheduled
    BY <1>2 DEF Age
  <2>3. Queued' = Queued
    BY <2>2 DEF Queued
  <2> QED BY <2>1, <2>2, <2>3 DEF IInv
<1>3. ASSUME NEW g \in Groups, Join(g) PROVE IInv'
  BY <1>3, JoinIInv
<1>4. ASSUME NEW g \in Groups, Leave(g) PROVE IInv'
  BY <1>4, LeaveIInv
<1>5. CASE UNCHANGED vars
  <2>1. Queued' = Queued
    BY <1>5 DEF vars, Queued
  <2> QED BY <1>5, <2>1 DEF vars, IInv
<1> QED BY <1>1, <1>2, <1>3, <1>4, <1>5 DEF Next

(***************************************************************************)
(* Whatever is matched, moved to the list of the other side, answered and  *)
(* removed, in whatever order: each group of the queue is in exactly one   *)
(* of its two lists, once, and nobody else is in them.  (AddGroup,         *)
(* RemovePlayer, and the two groups that BattlegroundQueueUpdate moves.)   *)
(***************************************************************************)
THEOREM ArenaInvariant == Spec => []IInv
<1>1. Init => IInv
  BY InitIInv
<1>2. IInv /\ [Next]_vars => IInv'
  BY NextIInv
<1> QED BY <1>1, <1>2, PTL DEF Spec

-----------------------------------------------------------------------------
(***************************************************************************)
(* What the updates match.                                                 *)
(***************************************************************************)

WithinWindow ==
  \A g, h \in Waiting :
    opponent'[g] = h /\ g # h /\ age[g] < Discard /\ age[h] < Discard =>
      \E k \in Groups : \E level \in 0..(IF k \in Waiting THEN LevelOf(age[k]) ELSE 0) :
        {Difference(g, k), Difference(h, k)} \subseteq 0..Reach(level)

LEMMA OnlyUpdatesMatch ==
  ASSUME IInv, [Next]_vars, NEW g \in Waiting, opponent'[g] # g
  PROVE  \E refresh, force \in BOOLEAN : Update(refresh, force)
<1>1. g \in Groups /\ opponent[g] = g /\ opponent \in [Groups -> Groups]
  BY QueuedGroups DEF Waiting, Invited, IInv
<1>2. ASSUME NEW groups \in SUBSET Waiting, Age(groups) PROVE FALSE
  BY <1>1, <1>2 DEF Age
<1>3. ASSUME NEW h \in Groups, Join(h) PROVE FALSE
  BY <1>1, <1>3 DEF Join
<1>4. ASSUME NEW h \in Groups, Leave(h) PROVE FALSE
  BY <1>1, <1>4 DEF Leave
<1>5. CASE UNCHANGED vars
  BY <1>1, <1>5 DEF vars
<1> QED BY <1>2, <1>3, <1>4, <1>5 DEF Next

LEMMA StepWithinWindow ==
  ASSUME IInv, [Next]_vars
  PROVE  WithinWindow
<1> SUFFICES ASSUME NEW g \in Waiting, NEW h \in Waiting,
                    opponent'[g] = h, g # h, age[g] < Discard, age[h] < Discard
             PROVE  \E k \in Groups : \E level \in 0..(IF k \in Waiting THEN LevelOf(age[k]) ELSE 0) :
                      {Difference(g, k), Difference(h, k)} \subseteq 0..Reach(level)
  BY DEF WithinWindow
<1>1. g \in Groups /\ h \in Groups /\ opponent[g] = g /\ age[g] \in Nat /\ age[h] \in Nat
  BY QueuedGroups DEF Waiting, Invited, IInv
<1>2. PICK refresh \in BOOLEAN, force \in BOOLEAN : Update(refresh, force)
  BY OnlyUpdatesMatch
<1>3. opponent' = Final(refresh, force).opponent /\ Final(refresh, force) \in InPass
  BY <1>2, UpdateIs
<1>4. PICK u \in Due : Matches(g, u[1], u[2]) /\ Matches(h, u[1], u[2])
  BY <1>1, <1>3 DEF InPass
<1>5. PICK k \in Groups : u[1] = Rating[k] /\ u[2] \in 0..Reached(k)
  BY DueOf
<1>6. u[2] \in 0..Levels
  BY <1>5, ReachedIs, ArenaAssumption
<1>7. ~ (age[g] >= Discard) /\ ~ (age[h] >= Discard)
  BY <1>1, ArenaAssumption
<1>8. Rating[g] \in Window(Rating[k], u[2]) /\ Rating[h] \in Window(Rating[k], u[2])
  BY <1>4, <1>5, <1>7 DEF Matches
<1>9. Difference(g, k) \in 0..Reach(u[2]) /\ Difference(h, k) \in 0..Reach(u[2])
  BY <1>1, <1>6, <1>8, WindowReaches
<1>10. u[2] \in 0..(IF k \in Waiting THEN LevelOf(age[k]) ELSE 0)
  BY <1>5 DEF Reached
<1> QED BY <1>9, <1>10

(***************************************************************************)
(* However many updates a pass makes, of whatever ratings, and although    *)
(* the lower end of a window may wrap: two groups that meet are inside the *)
(* window of one group, as wide as its waiting allows.                     *)
(* (BattlegroundQueueUpdate, DynamicMMR and the forced update.)            *)
(***************************************************************************)
THEOREM OpponentsAreWithinWindow == Spec => OpponentsWithinWindow
<1>1. IInv /\ [Next]_vars => [WithinWindow]_vars
  BY StepWithinWindow
<1>2. Spec => [][WithinWindow]_vars
  BY <1>1, ArenaInvariant, PTL DEF Spec
<1> QED BY <1>2 DEF OpponentsWithinWindow, WithinWindow

MeetSoon ==
  \A g, h \in Waiting :
    /\ g # h /\ age[g] > 0 /\ Rating[g] > Reach(Levels)
    /\ Difference(g, h) <= Reach(LevelOf(age[g]))
    /\ \E force \in BOOLEAN : Update(TRUE, force)
    => Waiting' # Waiting

LEMMA StepMeetSoon ==
  ASSUME IInv
  PROVE  MeetSoon
<1> SUFFICES ASSUME NEW g \in Waiting, NEW h \in Waiting,
                    g # h, age[g] > 0, Rating[g] > Reach(Levels),
                    Difference(g, h) <= Reach(LevelOf(age[g])),
                    NEW force \in BOOLEAN, Update(TRUE, force)
             PROVE  Waiting' # Waiting
  BY DEF MeetSoon
<1> DEFINE u == UpdateOf(g)
           us == DynamicMMR(scheduled)
<1>1. g \in Groups /\ h \in Groups
  BY QueuedGroups DEF Waiting
<1>2. us \in Seq(Due) /\ u \in ToSet(us) /\ u \in Due
  BY ScheduledDue, RefreshIs, UpdateOfDue
<1>3. LevelOf(age[g]) \in 0..Levels
  BY <1>1, ArenaAssumption DEF IInv, LevelOf
<1>4. u[1] = Rating[g] /\ u[2] = LevelOf(age[g])
  BY DEF UpdateOf
<1>5. Matches(g, u[1], u[2]) /\ Matches(h, u[1], u[2])
  <2>1. Difference(g, g) <= Reach(LevelOf(age[g])) /\ Difference(h, g) <= Reach(LevelOf(age[g]))
    <3>1. PICK r \in Nat : r = Rating[g]
      BY <1>1, ArenaAssumption
    <3>2. PICK t \in Nat : t = Rating[h]
      BY <1>1, ArenaAssumption
    <3>3. Reach(LevelOf(age[g])) \in Nat
      BY <1>3, Widening, ArenaAssumption DEF Reach
    <3> QED BY <3>1, <3>2, <3>3 DEF Difference
  <2>2. Rating[g] \in Window(Rating[g], LevelOf(age[g])) /\ Rating[h] \in Window(Rating[g], LevelOf(age[g]))
    BY <1>1, <1>3, <2>1, ReachMatches
  <2> QED BY <1>4, <2>2 DEF Matches
<1> HIDE DEF u, us
<1>6. PICK pos \in 1..Len(us) : u = us[pos]
  BY <1>2 DEF ToSet
<1>7. \A s \in InPass : Moved(After(s, us[pos]))
  BY <1>2, <1>5, <1>6, UpdateMoves
<1>8. Moved(FoldLeft(After, Before, us))
  BY <1>2, <1>7, PassMoves
<1>9. Moved(Final(TRUE, force))
  BY <1>2, <1>8, PassIn, ForceInPass DEF Final, Updates, us
<1>10. opponent' = Final(TRUE, force).opponent
  BY UpdateIs
<1>11. PICK x \in Waiting : opponent'[x] # x
  BY <1>9, <1>10 DEF Moved
<1>12. x \notin Waiting'
  BY <1>11 DEF Waiting, Invited
<1> QED BY <1>11, <1>12

(***************************************************************************)
(* A pass that refreshes matches somebody whenever two groups wait and one *)
(* of them, of a rating high enough, reaches the other: its update is in   *)
(* the list, whatever else is, and by the time that it comes the two are   *)
(* still there or others have been matched.  (DynamicMMR.)                 *)
(***************************************************************************)
THEOREM CompatiblesMeet == Spec => CompatibleMeetSoon
<1>1. IInv /\ [Next]_vars => [MeetSoon]_vars
  BY StepMeetSoon
<1>2. Spec => [][MeetSoon]_vars
  BY <1>1, ArenaInvariant, PTL DEF Spec
<1> QED BY <1>2 DEF CompatibleMeetSoon, MeetSoon

-----------------------------------------------------------------------------
(***************************************************************************)
(* Warsong Gulch.  The flags are in their first state on the other maps.   *)
(***************************************************************************)
WSTypeOK ==
  /\ inside \subseteq Players
  /\ flagState \in [WS!Teams -> {"base", "wait", "player", "ground"}]
  /\ keeper \in [WS!Teams -> Players \cup {Nobody}]
  /\ spawned \in [WS!Teams -> BOOLEAN]
  /\ dropped \in [WS!Teams -> BOOLEAN]
  /\ carrying \in [WS!Teams -> SUBSET Players]
  /\ debuff \in 0..2
  /\ assaulted \in [1..2 -> SUBSET Players]

WSIdle ==
  map # "WarsongGulch" =>
    /\ \A t \in WS!Teams : flagState[t] = "base" /\ keeper[t] = Nobody /\ spawned[t]
                           /\ ~dropped[t] /\ carrying[t] = {}
    /\ \A d \in 1..2 : assaulted[d] = {}

FlagOK(t) ==
  /\ flagState[t] = "player" <=> keeper[t] # Nobody
  /\ carrying[t] = {keeper[t]} \ {Nobody}
  /\ keeper[t] # Nobody => keeper[t] \in inside /\ Team[keeper[t]] = WS!Other(t)
  /\ dropped[t] <=> flagState[t] = "ground"
  /\ flagState[t] = "base" => spawned[t] \/ flagState[WS!Other(t)] = "wait"

(* Only the debuff of the moment is on anybody. *)
DebuffOK == \A d \in 1..2 : assaulted[d] \subseteq (IF d = debuff THEN WS!Keepers ELSE {})

(* What is true of the flags while a match of Warsong Gulch runs. *)
WSRunning == (\A t \in WS!Teams : FlagOK(t)) /\ DebuffOK

WSInv ==
  /\ WSTypeOK /\ WSIdle
  /\ status = "in_progress" => WSRunning

\* What the steps need to know of the constants.
LEMMA PlayersAndTeams ==
  /\ Nobody \notin Players
  /\ \A p \in Players : Team[p] \in WS!Teams /\ WS!Other(Team[p]) \in WS!Teams
BY MapAssumption DEF MapAssumption, WS!Teams, WS!Other

LEMMA WSDropType ==
  ASSUME WSTypeOK, NEW p \in Players, NEW t \in WS!Teams, WS!Drop(p, t)
  PROVE  /\ flagState' \in [WS!Teams -> {"base", "wait", "player", "ground"}]
         /\ keeper' \in [WS!Teams -> Players \cup {Nobody}]
         /\ dropped' \in [WS!Teams -> BOOLEAN]
         /\ carrying' \in [WS!Teams -> SUBSET Players]
         /\ assaulted' \in [1..2 -> SUBSET Players]
<1>1. WS!Relieved(p) \in [1..2 -> SUBSET Players]
  BY DEF WSTypeOK, WS!Relieved
<1> QED BY <1>1 DEF WSTypeOK, WS!Drop

LEMMA WSInvInit == MapInit => WSInv
BY MapAssumption
   DEF MapAssumption, MapInit, WS!Init, WSInv, WSRunning, WSTypeOK, WSIdle, FlagOK, DebuffOK, WS!Teams, WS!Other, WS!Keepers

LEMMA WSTypePreserved ==
  ASSUME WSTypeOK, WS!Next
  PROVE  WSTypeOK'
<1> USE PlayersAndTeams DEF WSTypeOK, WS!flags
<1>1. CASE \E p \in Players : WS!Enter(p)
  BY <1>1 DEF WS!Enter
<1>2. CASE \E p \in Players : WS!Leave(p)
  BY <1>2, WSDropType DEF WS!Leave
<1>3. CASE \E p \in Players : WS!TakeFromBase(p)
  BY <1>3 DEF WS!TakeFromBase, WS!PickUp
<1>4. CASE \E p \in Players : WS!TakeFromGround(p)
  BY <1>4 DEF WS!TakeFromGround, WS!PickUp, WS!Burdened
<1>5. CASE \E p \in Players : WS!Return(p)
  BY <1>5 DEF WS!Return
<1>6. CASE \E p \in Players : WS!DropFlag(p)
  BY <1>6, WSDropType DEF WS!DropFlag
<1>7. CASE \E p \in Players : WS!Capture(p)
  BY <1>7 DEF WS!Capture, WS!Relieved
<1>8. CASE \E timesUp, stronger \in BOOLEAN, returned \in SUBSET WS!Teams :
             WS!Update(timesUp, returned, stronger)
  BY <1>8 DEF WS!Update, WS!Spawn, WS!Teams, WS!Debuffs, WS!Keepers
<1> QED BY <1>1, <1>2, <1>3, <1>4, <1>5, <1>6, <1>7, <1>8 DEF WS!Next

-----------------------------------------------------------------------------
\* One carrier drops what he holds.
LEMMA WSDropRunning ==
  ASSUME WSTypeOK, status = "in_progress", WSRunning, NEW p \in Players, p \in inside,
         WS!Drop(p, WS!Other(Team[p])), keeper[WS!Other(Team[p])] = p, UNCHANGED <<spawned, debuff>>,
         inside' = inside \/ inside' = inside \ {p}
  PROVE  WSRunning'
<1> DEFINE t == WS!Other(Team[p])
<1> USE PlayersAndTeams
<1>1. \A f \in WS!Teams : FlagOK(f)'
  BY DEF WSRunning, WSTypeOK, FlagOK, WS!Drop, WS!Teams, WS!Other
<1>2. WS!Keepers' = WS!Keepers \ {p}
  BY DEF WSRunning, WSTypeOK, FlagOK, WS!Drop, WS!Keepers, WS!Teams, WS!Other
<1>3. assaulted' = WS!Relieved(p)
  BY DEF WS!Drop
<1>4. DebuffOK'
  BY <1>2, <1>3 DEF WSRunning, WSTypeOK, DebuffOK, WS!Relieved
<1> QED BY <1>1, <1>4 DEF WSRunning

LEMMA WSRunningPreserved ==
  ASSUME WSTypeOK, status = "in_progress", WSRunning, WS!Next, status' = "in_progress"
  PROVE  WSRunning'
<1> USE PlayersAndTeams DEF WSRunning, WSTypeOK, FlagOK, DebuffOK, WS!flags, WS!Keepers
<1>1. CASE \E p \in Players : WS!Enter(p)
  BY <1>1 DEF WS!Enter
<1>2. CASE \E p \in Players : WS!Leave(p)
  <2> PICK p \in Players : WS!Leave(p)
    BY <1>2
  <2> USE DEF WS!Leave
  <2>1. CASE keeper[WS!Other(Team[p])] = p
    BY <2>1, WSDropRunning
  <2>2. CASE keeper[WS!Other(Team[p])] # p
    BY <2>2 DEF WS!Teams, WS!Other
  <2> QED BY <2>1, <2>2
<1>3. CASE \E p \in Players : WS!TakeFromBase(p)
  BY <1>3 DEF WS!TakeFromBase, WS!PickUp, WS!Teams, WS!Other
<1>4. CASE \E p \in Players : WS!TakeFromGround(p)
  BY <1>4 DEF WS!TakeFromGround, WS!PickUp, WS!Burdened, WS!Teams, WS!Other
<1>5. CASE \E p \in Players : WS!Return(p)
  BY <1>5 DEF WS!Return, WS!Teams, WS!Other
<1>6. CASE \E p \in Players : WS!DropFlag(p)
  <2> PICK p \in Players : WS!DropFlag(p)
    BY <1>6
  <2> QED BY WSDropRunning DEF WS!DropFlag, WS!Teams, WS!Other
<1>7. CASE \E p \in Players : WS!Capture(p)
  BY <1>7 DEF WS!Capture, WS!Relieved, WS!Teams, WS!Other
<1>8. CASE \E timesUp, stronger \in BOOLEAN, returned \in SUBSET WS!Teams :
             WS!Update(timesUp, returned, stronger)
  BY <1>8 DEF WS!Update, WS!Spawn, WS!Debuffs, WS!Teams, WS!Other
<1> QED BY <1>1, <1>2, <1>3, <1>4, <1>5, <1>6, <1>7, <1>8 DEF WS!Next

\* A match that is over stays over.
LEMMA WSOver == ASSUME WS!Next, status' = "in_progress" PROVE status = "in_progress"
BY DEF WS!Next, WS!Enter, WS!Leave, WS!TakeFromBase, WS!TakeFromGround, WS!Return,
       WS!DropFlag, WS!Capture, WS!Update

\* On the other maps the flags stay where they are.
LEMMA WSIdlePreserved ==
  ASSUME WSInv, map # "WarsongGulch", UNCHANGED map, UNCHANGED wsVars, inside' \subseteq Players
  PROVE  WSInv'
BY PlayersAndTeams
   DEF WSInv, WSRunning, WSTypeOK, WSIdle, FlagOK, DebuffOK, WS!Teams, WS!Other, WS!Keepers, wsVars

\* Players of Eye of the Storm are players.
LEMMA EYInside == ASSUME inside \subseteq Players, EY!Next PROVE inside' \subseteq Players
BY DEF EY!Next, EY!Enter, EY!Move, EY!Leave, EY!DropFlag, EY!ClickOnFlag, EY!Capture, EY!Update

LEMMA WSInvPreserved == ASSUME WSInv, [MapNext]_mapVars PROVE WSInv'
<1>1. CASE map = "WarsongGulch" /\ UNCHANGED map /\ WS!Next
  <2>1. WSTypeOK'
    BY <1>1, WSTypePreserved DEF WSInv
  <2>2. status' = "in_progress" => WSRunning'
    BY <1>1, WSOver, WSRunningPreserved DEF WSInv
  <2> QED BY <1>1, <2>1, <2>2 DEF WSInv, WSIdle
<1>2. CASE map = "ArathiBasin" /\ UNCHANGED <<map, inside, wsVars>>
  BY <1>2, WSIdlePreserved DEF WSInv, WSTypeOK
<1>3. CASE map = "EyeOfTheStorm" /\ UNCHANGED <<map, wsVars>> /\ EY!Next
  BY <1>3, WSIdlePreserved, EYInside DEF WSInv, WSTypeOK
<1>4. CASE UNCHANGED mapVars
  BY <1>4 DEF mapVars, wsVars, WSInv, WSRunning, WSTypeOK, WSIdle, FlagOK, DebuffOK, WS!Keepers
<1> QED BY <1>1, <1>2, <1>3, <1>4 DEF MapNext

(***************************************************************************)
(* No flag of Warsong Gulch is lost, whoever drops, returns, takes and     *)
(* captures what between two updates (EventPlayerDroppedFlag,              *)
(* EventPlayerClickedOnFlag, EventPlayerCapturedFlag, PostUpdateImpl).     *)
(***************************************************************************)
THEOREM NoFlagIsLost == MapSpec => []NoFlagLost
<1>1. WSInv => NoFlagLost
  BY DEF WSInv, WSRunning, FlagOK, NoFlagLost, WS!NoFlagLost
<1> QED BY <1>1, WSInvInit, WSInvPreserved, PTL DEF MapSpec

(***************************************************************************)
(* Only the carriers have an assault debuff while the match runs.          *)
(***************************************************************************)
THEOREM AssaultIsOnCarriers == MapSpec => []AssaultOnCarriersOnly
<1>1. WSInv => AssaultOnCarriersOnly
  BY DEF WSInv, WSRunning, DebuffOK, AssaultOnCarriersOnly, WS!AssaultOnCarriersOnly
<1> QED BY <1>1, WSInvInit, WSInvPreserved, PTL DEF MapSpec

-----------------------------------------------------------------------------
(***************************************************************************)
(* Eye of the Storm.                                                       *)
(***************************************************************************)
EYRunning ==
  /\ flag = "player" <=> flagKeeper # Nobody
  /\ flagCarrying = {flagKeeper} \ {Nobody}
  /\ flagCarrying \subseteq inside
  /\ lying <=> flag = "ground"
  /\ flagSpawned <=> flag = "base"
  /\ shown <=> flag = "wait"

EYTypeOK ==
  /\ flag \in {"base", "wait", "player", "ground"}
  /\ flagKeeper \in Players \cup {Nobody}
  /\ lying \in BOOLEAN /\ flagSpawned \in BOOLEAN /\ shown \in BOOLEAN

EYInv ==
  /\ EYTypeOK
  /\ map # "EyeOfTheStorm" => flagKeeper = Nobody /\ flagCarrying = {}
  /\ (status = "in_progress" \/ map # "EyeOfTheStorm") => EYRunning

LEMMA EYInvInit == MapInit => EYInv
BY DEF MapInit, EY!Init, EYInv, EYTypeOK, EYRunning

\* A flag is brought to a tower only by its keeper.
LEMMA EYBrought ==
  ASSUME NEW tick, NEW expire, NEW brought, EY!Update(tick, expire, brought)
  PROVE  \A p \in brought : p = flagKeeper
BY DEF EY!Update, EY!Tick, EY!BringsIn

LEMMA EYTypePreserved == ASSUME EYTypeOK, EY!Next PROVE EYTypeOK'
<1> USE DEF EYTypeOK, EY!flags
<1>1. CASE \E p \in Players : EY!Enter(p)
  BY <1>1 DEF EY!Enter
<1>2. CASE \E p \in Players : EY!Leave(p)
  BY <1>2 DEF EY!Leave, EY!Drop
<1>3. CASE \E p \in Players : EY!DropFlag(p)
  BY <1>3 DEF EY!DropFlag, EY!Drop
<1>4. CASE \E p \in Players : EY!ClickOnFlag(p)
  BY <1>4 DEF EY!ClickOnFlag
<1>5. CASE \E p \in Players : EY!Capture(p)
  BY <1>5 DEF EY!Capture, EY!BringIn
<1>6. CASE \E p \in Players, x \in Points \cup {Away} : EY!Move(p, x)
  BY <1>6 DEF EY!Move
<1>7. CASE \E tick, expire \in BOOLEAN, brought \in {{}} \cup {{p} : p \in Players} :
             EY!Update(tick, expire, brought)
  BY <1>7 DEF EY!Update, EY!BringIn
<1> QED BY <1>1, <1>2, <1>3, <1>4, <1>5, <1>6, <1>7 DEF EY!Next

\* The carrier drops the flag.
LEMMA EYDropRunning ==
  ASSUME EYTypeOK, EYRunning, status = "in_progress", NEW p \in Players, flagKeeper = p,
         EY!Drop(p), UNCHANGED <<flagSpawned, shown>>
  PROVE  EYRunning'
<1>1. flagCarrying' = {} /\ flagKeeper' = Nobody /\ flag' = "ground" /\ lying'
  BY PlayersAndTeams DEF EYRunning, EYTypeOK, EY!Drop
<1>2. flag = "player"
  BY PlayersAndTeams DEF EYRunning
<1> QED BY <1>1, <1>2 DEF EYRunning

LEMMA EYRunningPreserved ==
  ASSUME EYTypeOK, EYRunning, status = "in_progress", EY!Next
  PROVE  EYRunning'
<1>0. Nobody \notin Players
  BY PlayersAndTeams
<1>1. CASE \E p \in Players : EY!Enter(p)
  BY <1>1 DEF EY!Enter, EYRunning, EY!flags
<1>2. CASE \E p \in Players : EY!Leave(p)
  <2> PICK p \in Players : EY!Leave(p)
    BY <1>2
  <2>1. CASE flagKeeper = p
    BY <2>1, EYDropRunning DEF EY!Leave
  <2>2. CASE flagKeeper # p
    BY <2>2 DEF EY!Leave, EYRunning
  <2> QED BY <2>1, <2>2
<1>3. CASE \E p \in Players : EY!DropFlag(p)
  BY <1>3, EYDropRunning DEF EY!DropFlag
<1>4. CASE \E p \in Players : EY!ClickOnFlag(p)
  <2> PICK p \in Players : EY!ClickOnFlag(p)
    BY <1>4
  <2>1. flagCarrying' = {p} /\ flagKeeper' = p /\ flag' = "player" /\ p \in inside'
    BY DEF EY!ClickOnFlag, EYRunning
  <2>2. ~flagSpawned' /\ ~lying' /\ ~shown'
    BY DEF EY!ClickOnFlag, EYRunning, EYTypeOK
  <2> QED BY <1>0, <2>1, <2>2 DEF EYRunning
<1>5. CASE \E p \in Players : EY!Capture(p)
  <2> PICK p \in Players : EY!Capture(p)
    BY <1>5
  <2>1. flagCarrying' = {} /\ flagKeeper' = Nobody /\ flag' = "wait" /\ shown'
    BY <1>0 DEF EY!Capture, EY!BringIn, EYRunning
  <2>2. ~flagSpawned' /\ ~lying'
    BY <1>0 DEF EY!Capture, EYRunning, EYTypeOK
  <2> QED BY <2>1, <2>2 DEF EYRunning
<1>6. CASE \E p \in Players, x \in Points \cup {Away} : EY!Move(p, x)
  BY <1>6 DEF EY!Move, EYRunning, EY!flags
<1>7. CASE \E tick, expire \in BOOLEAN, brought \in {{}} \cup {{p} : p \in Players} :
             EY!Update(tick, expire, brought)
  <2> PICK tick \in BOOLEAN, expire \in BOOLEAN, brought \in {{}} \cup {{p} : p \in Players} :
             EY!Update(tick, expire, brought)
    BY <1>7
  <2>1. CASE brought # {}
    <3>1. flagKeeper \in Players /\ ~expire
      BY <2>1, EYBrought DEF EY!Update, EY!BringIn
    <3>2. flagCarrying' = {} /\ flagKeeper' = Nobody /\ flag' = "wait" /\ shown'
      BY <2>1 DEF EY!Update, EY!BringIn, EYRunning
    <3>3. ~flagSpawned' /\ ~lying'
      BY <1>0, <3>1 DEF EY!Update, EYRunning, EYTypeOK
    <3> QED BY <3>2, <3>3 DEF EYRunning
  <2>2. CASE brought = {} /\ expire
    BY <2>2 DEF EY!Update, EYRunning, EYTypeOK
  <2>3. CASE brought = {} /\ ~expire
    BY <2>3 DEF EY!Update, EYRunning, EYTypeOK
  <2> QED BY <2>1, <2>2, <2>3
<1> QED BY <1>1, <1>2, <1>3, <1>4, <1>5, <1>6, <1>7 DEF EY!Next

\* A match that is over stays over.
LEMMA EYOver == ASSUME EY!Next, status' = "in_progress" PROVE status = "in_progress"
BY DEF EY!Next, EY!Enter, EY!Move, EY!Leave, EY!DropFlag, EY!ClickOnFlag, EY!Capture, EY!Update

LEMMA EYStep == ASSUME EYInv, map = "EyeOfTheStorm", UNCHANGED map, EY!Next PROVE EYInv'
BY EYTypePreserved, EYRunningPreserved, EYOver DEF EYInv

LEMMA EYInvPreserved == ASSUME EYInv, [MapNext]_mapVars PROVE EYInv'
<1>1. CASE map = "EyeOfTheStorm" /\ UNCHANGED map /\ EY!Next
  BY <1>1, EYStep
<1>2. CASE map # "EyeOfTheStorm" /\ UNCHANGED <<map, eyVars>>
  BY <1>2 DEF EYInv, EYTypeOK, EYRunning, eyVars
<1>3. CASE UNCHANGED mapVars
  BY <1>3 DEF mapVars, eyVars, EYInv, EYTypeOK, EYRunning
<1> QED BY <1>1, <1>2, <1>3 DEF MapNext

(***************************************************************************)
(* There is one flag in Eye of the Storm, wherever it is.                  *)
(***************************************************************************)
THEOREM ThereIsOneFlag == MapSpec => []OneFlag
<1>1. EYInv => OneFlag
  BY DEF EYInv, EYRunning, OneFlag, EY!OneFlag
<1> QED BY <1>1, EYInvInit, EYInvPreserved, PTL DEF MapSpec

-----------------------------------------------------------------------------
(***************************************************************************)
(* The towers of Eye of the Storm.                                         *)
(***************************************************************************)
TowersTypeOK ==
  /\ bar \in [Points -> 0..Full]
  /\ owner \in [Points -> EY!Teams \cup {EY!Neutral}]
  /\ count \in [EY!Teams -> Int]

Owned(t) == {x \in Points : owner[x] = t}

TowersFollow ==
  /\ \A x \in Points : owner[x] = EY!OwnerOf(bar[x])
  /\ \A t \in EY!Teams : count[t] = Cardinality(Owned(t))

TowersInv ==
  /\ TowersTypeOK
  /\ (status = "in_progress" \/ map # "EyeOfTheStorm") => TowersFollow

\* EyeOfTheStorm has its own copy of FiniteSets.
LEMMA SameCardinality == \A S : EY!Cardinality(S) = Cardinality(S)
BY DEF EY!Cardinality, Cardinality

\* The bars begin in the middle.
LEMMA TowersInit == MapInit => TowersInv
<1> SUFFICES ASSUME MapInit PROVE TowersInv
  OBVIOUS
<1>1. /\ bar = [x \in Points |-> Full \div 2]
      /\ owner = [x \in Points |-> EY!Neutral]
      /\ count = [t \in EY!Teams |-> 0]
  BY DEF MapInit, EY!Init
<1>2. Full \div 2 \in 0..Full /\ EY!OwnerOf(Full \div 2) = EY!Neutral
  BY MapAssumption DEF MapAssumption, EY!OwnerOf
<1>3. \A t \in EY!Teams : Owned(t) = {}
  BY <1>1 DEF Owned, EY!Teams, EY!Neutral
<1> QED BY <1>1, <1>2, <1>3, FS_EmptySet DEF TowersInv, TowersTypeOK, TowersFollow

\* The players of a team near a tower.
LEMMA NearIsCounted ==
  ASSUME NEW x, NEW t, inside \subseteq Players
  PROVE  /\ IsFiniteSet(EY!NearOf(x, t))
         /\ Cardinality(EY!NearOf(x, t)) \in Nat
         /\ Cardinality(EY!NearOf(x, t)) > 0 => EY!NearOf(x, t) # {}
         /\ Cardinality(EY!NearOf(x, t)) <= Cardinality({p \in Players : Team[p] = t})
<1> DEFINE N == EY!NearOf(x, t)
           M == {p \in Players : Team[p] = t}
<1>1. N \subseteq M /\ M \subseteq Players
  BY DEF EY!NearOf
<1>2. IsFiniteSet(M)
  BY <1>1, FS_Subset, MapAssumption DEF MapAssumption
<1>3. IsFiniteSet(N) /\ Cardinality(N) <= Cardinality(M)
  BY <1>1, <1>2, FS_Subset
<1> QED BY <1>3, FS_CardinalityType, FS_EmptySet

\* One check moves a bar by less than what separates the two teams, and only
\* to the side of a team that has somebody near.
LEMMA BarMoves ==
  ASSUME NEW x \in Points, inside \subseteq Players, bar[x] \in 0..Full,
         bar'[x] = EY!Moved(bar[x] + EY!Pull(x))
  PROVE  /\ bar'[x] \in 0..Full
         /\ bar'[x] > bar[x] => EY!NearOf(x, "alliance") # {} /\ bar'[x] < bar[x] + (High - Low)
         /\ bar'[x] < bar[x] => EY!NearOf(x, "horde") # {} /\ bar'[x] > bar[x] - (High - Low)
<1> DEFINE a == Cardinality(EY!NearOf(x, "alliance"))
           h == Cardinality(EY!NearOf(x, "horde"))
<1>1. a \in Nat /\ (a > 0 => EY!NearOf(x, "alliance") # {})
  BY NearIsCounted
<1>2. h \in Nat /\ (h > 0 => EY!NearOf(x, "horde") # {})
  BY NearIsCounted
<1>3. h < High - Low
  <2>1. h <= Cardinality({p \in Players : Team[p] = "horde"})
    BY NearIsCounted
  <2>2. IsFiniteSet({p \in Players : Team[p] = "horde"})
    BY FS_Subset, MapAssumption DEF MapAssumption
  <2>3. Cardinality({p \in Players : Team[p] = "horde"}) \in Nat
    BY <2>2, FS_CardinalityType
  <2> QED BY <1>2, <2>1, <2>3, MapAssumption DEF MapAssumption
<1>4. Low \in Nat /\ High \in Nat /\ Full \in Nat /\ Capturers \in Nat /\ Capturers < High - Low
  BY MapAssumption DEF MapAssumption
<1>5. EY!Pull(x) = IF a - h < Capturers THEN a - h ELSE Capturers
  BY SameCardinality DEF EY!Pull, EY!Smaller
<1>6. bar'[x] = IF bar[x] + EY!Pull(x) < 0 THEN 0
                ELSE IF bar[x] + EY!Pull(x) < Full THEN bar[x] + EY!Pull(x) ELSE Full
  BY DEF EY!Moved, EY!Smaller
<1> HIDE DEF a, h
<1>7. EY!Pull(x) \in Int /\ EY!Pull(x) <= Capturers /\ EY!Pull(x) >= -h
      /\ (EY!Pull(x) > 0 => a > 0) /\ (EY!Pull(x) < 0 => h > 0)
  BY <1>1, <1>2, <1>4, <1>5
<1> QED BY <1>1, <1>2, <1>3, <1>4, <1>6, <1>7

\* Hence the events raised by the players near tell of every change of owner.
LEMMA OwnerFollows ==
  ASSUME NEW x \in Points, inside \subseteq Players, bar[x] \in 0..Full,
         bar'[x] = EY!Moved(bar[x] + EY!Pull(x)), owner[x] = EY!OwnerOf(bar[x])
  PROVE  EY!OwnerAfter(x) = EY!OwnerOf(bar'[x])
<1> DEFINE next == EY!OwnerOf(bar'[x])
<1>0. Low \in Nat /\ High \in Nat /\ Full \in Nat /\ Low < High
  BY MapAssumption DEF MapAssumption
<1>1. bar'[x] \in 0..Full
  BY BarMoves
<1>2. CASE owner[x] = next
  BY <1>2 DEF EY!OwnerAfter, EY!Neutral, EY!OwnerOf
<1>3. CASE owner[x] # next /\ bar'[x] > bar[x]
  <2>1. EY!NearOf(x, "alliance") # {} /\ bar'[x] < bar[x] + (High - Low)
    BY <1>3, BarMoves
  <2>2. \/ owner[x] = "horde" /\ next = EY!Neutral
        \/ owner[x] = EY!Neutral /\ next = "alliance"
    BY <1>0, <1>1, <1>3, <2>1 DEF EY!OwnerOf, EY!Neutral
  <2>3. \E p \in inside : near'[p] = x /\ Team[p] = "alliance"
    BY <2>1 DEF EY!NearOf
  <2> QED BY <2>1, <2>2, <2>3 DEF EY!OwnerAfter, EY!Neutral
<1>4. CASE owner[x] # next /\ bar'[x] < bar[x]
  <2>1. EY!NearOf(x, "horde") # {} /\ bar'[x] > bar[x] - (High - Low)
    BY <1>4, BarMoves
  <2>2. \/ owner[x] = "alliance" /\ next = EY!Neutral
        \/ owner[x] = EY!Neutral /\ next = "horde"
    BY <1>0, <1>1, <1>4, <2>1 DEF EY!OwnerOf, EY!Neutral
  <2>3. \E p \in inside : near'[p] = x /\ Team[p] = "horde"
    BY <2>1 DEF EY!NearOf
  <2> QED BY <2>1, <2>2, <2>3 DEF EY!OwnerAfter, EY!Neutral
<1> QED BY <1>1, <1>2, <1>3, <1>4

\* A team is counted as many towers as it has.
LEMMA CountFollows ==
  ASSUME NEW t \in EY!Teams, count[t] = Cardinality(Owned(t))
  PROVE  EY!CountAfter(t) = Cardinality({x \in Points : owner'[x] = t})
<1> DEFINE old == Owned(t)
           new == {x \in Points : owner'[x] = t}
           won == {x \in Points : owner'[x] = t /\ owner[x] # t}
           lost == {x \in Points : owner[x] = t /\ owner'[x] # t}
<1>1. IsFiniteSet(old) /\ IsFiniteSet(new) /\ IsFiniteSet(won) /\ IsFiniteSet(lost)
  BY FS_Subset, MapAssumption DEF MapAssumption, Owned
<1>2. old \cup won = new \cup lost /\ old \cap won = {} /\ new \cap lost = {}
  BY DEF Owned
<1>3. EY!CountAfter(t) = Cardinality(old) + Cardinality(won) - Cardinality(lost)
  BY SameCardinality DEF EY!CountAfter, Owned
<1> HIDE DEF old, new, won, lost
<1>4. /\ Cardinality(old) \in Nat /\ Cardinality(new) \in Nat
      /\ Cardinality(won) \in Nat /\ Cardinality(lost) \in Nat
  BY <1>1, FS_CardinalityType
<1>5. Cardinality(old \cup won) = Cardinality(old) + Cardinality(won)
  <2>1. Cardinality(old \cup won)
          = Cardinality(old) + Cardinality(won) - Cardinality(old \cap won)
    BY <1>1, FS_Union
  <2>2. Cardinality(old \cap won) = 0
    BY <1>2, FS_EmptySet
  <2> QED BY <1>4, <2>1, <2>2
<1>6. Cardinality(new \cup lost) = Cardinality(new) + Cardinality(lost)
  <2>1. Cardinality(new \cup lost)
          = Cardinality(new) + Cardinality(lost) - Cardinality(new \cap lost)
    BY <1>1, FS_Union
  <2>2. Cardinality(new \cap lost) = 0
    BY <1>2, FS_EmptySet
  <2> QED BY <1>4, <2>1, <2>2
<1>7. Cardinality(old) + Cardinality(won) = Cardinality(new) + Cardinality(lost)
  BY <1>2, <1>5, <1>6
<1>8. Cardinality(new) = Cardinality(old) + Cardinality(won) - Cardinality(lost)
  BY <1>4, <1>7
<1> QED BY <1>3, <1>8 DEF new

\* The check of the towers; a team that has enough ends the match before it.
LEMMA TickFollows ==
  ASSUME TowersTypeOK, TowersFollow, inside \subseteq Players, NEW tick \in BOOLEAN, NEW expire,
         NEW brought, EY!Update(tick, expire, brought), tick
  PROVE  /\ TowersTypeOK'
         /\ status' = "in_progress" => TowersFollow'
<1>1. EY!Tick(brought)
  BY DEF EY!Update
<1>2. /\ bar' = [x \in Points |-> EY!Moved(bar[x] + EY!Pull(x))]
      /\ count' = [t \in EY!Teams |-> EY!CountAfter(t)]
  BY <1>1 DEF EY!Tick
<1>3. \A x \in Points : bar'[x] = EY!Moved(bar[x] + EY!Pull(x)) /\ bar[x] \in 0..Full
  BY <1>2 DEF TowersTypeOK
<1>4. bar' \in [Points -> 0..Full]
  BY <1>2, <1>3, BarMoves
<1>5. \A t \in EY!Teams : count'[t] = Cardinality(Owned(t)')
  BY <1>2, CountFollows DEF TowersFollow, Owned
<1>6. \A t \in EY!Teams : IsFiniteSet(Owned(t)')
  BY FS_Subset, MapAssumption DEF MapAssumption, Owned
<1>7. count' \in [EY!Teams -> Int]
  BY <1>2, <1>5, <1>6, FS_CardinalityType
<1>8. owner' \in [Points -> EY!Teams \cup {EY!Neutral}]
  <2>1. \A x \in Points : EY!OwnerAfter(x) \in EY!Teams \cup {EY!Neutral}
    BY DEF EY!OwnerAfter, EY!OwnerOf, EY!Teams, TowersTypeOK
  <2> QED BY <1>1, <2>1 DEF EY!Tick, TowersTypeOK
<1>9. ASSUME status' = "in_progress" PROVE \A x \in Points : owner'[x] = EY!OwnerOf(bar'[x])
  <2>1. ~EY!Over(score')
    BY <1>9 DEF EY!Update
  <2>2. owner' = [x \in Points |-> EY!OwnerAfter(x)]
    BY <1>1, <2>1 DEF EY!Tick, EY!Over
  <2> QED BY <1>3, <2>2, OwnerFollows DEF TowersFollow
<1> QED BY <1>4, <1>5, <1>7, <1>8, <1>9 DEF TowersTypeOK, TowersFollow

\* Nothing but the check changes towers.
LEMMA TowersStep ==
  ASSUME TowersInv, inside \subseteq Players, map = "EyeOfTheStorm", UNCHANGED map, EY!Next
  PROVE  TowersInv'
<1>1. CASE UNCHANGED <<bar, owner, count>>
  BY <1>1, EYOver DEF TowersInv, TowersTypeOK, TowersFollow, Owned
<1>2. CASE \E tick, expire \in BOOLEAN, brought \in {{}} \cup {{p} : p \in Players} :
             EY!Update(tick, expire, brought) /\ tick
  BY <1>2, TickFollows DEF TowersInv, EY!Update
<1>3. \/ UNCHANGED <<bar, owner, count>>
      \/ \E tick, expire \in BOOLEAN, brought \in {{}} \cup {{p} : p \in Players} :
           EY!Update(tick, expire, brought) /\ tick
  BY DEF EY!Next, EY!Enter, EY!Move, EY!Leave, EY!DropFlag, EY!ClickOnFlag, EY!Capture,
         EY!Update, EY!towers
<1> QED BY <1>1, <1>2, <1>3

LEMMA TowersPreserved == ASSUME TowersInv, inside \subseteq Players, [MapNext]_mapVars PROVE TowersInv'
<1>1. CASE map = "EyeOfTheStorm" /\ UNCHANGED map /\ EY!Next
  BY <1>1, TowersStep
<1>2. CASE map # "EyeOfTheStorm" /\ UNCHANGED <<map, eyVars>>
  BY <1>2 DEF TowersInv, TowersTypeOK, TowersFollow, Owned, eyVars
<1>3. CASE UNCHANGED mapVars
  BY <1>3 DEF mapVars, eyVars, TowersInv, TowersTypeOK, TowersFollow, Owned
<1> QED BY <1>1, <1>2, <1>3 DEF MapNext

(***************************************************************************)
(* In Eye of the Storm the owners of the towers, and the numbers by which  *)
(* the teams are paid, follow the bars that the players see.               *)
(***************************************************************************)
THEOREM OwnersAlwaysFollow == MapSpec => []OwnersFollowBars
<1>1. WSInv => inside \subseteq Players
  BY DEF WSInv, WSTypeOK
<1>2. TowersInv => OwnersFollowBars
  BY SameCardinality DEF TowersInv, TowersFollow, Owned, OwnersFollowBars, EY!OwnersFollowBars
<1> QED BY <1>1, <1>2, WSInvInit, WSInvPreserved, TowersInit, TowersPreserved, PTL DEF MapSpec

-----------------------------------------------------------------------------
(***************************************************************************)
(* Arathi Basin.                                                           *)
(***************************************************************************)
ABTypeOK ==
  /\ node \in [Nodes -> AB!Banners]
  /\ before \in [Nodes -> AB!Banners]
  /\ pending \in [Nodes -> AB!Banners \cup {NoBanner}]
  /\ capturing \in [Nodes -> BOOLEAN]
  /\ banners \in [Nodes -> SUBSET AB!Banners]
  /\ guides \in [Nodes -> SUBSET AB!Teams]

NodeOK(n) ==
  /\ IF pending[n] = NoBanner THEN banners[n] = {node[n]}
     ELSE pending[n] = node[n] /\ banners[n] = {}
  /\ guides[n] = {t \in AB!Teams : node[n] = AB!Occupied(t)}
  /\ capturing[n] <=> node[n].type = "contested"
  /\ capturing[n] /\ before[n].type = "occupied" => before[n].team = AB!Other(node[n].team)

ABInv == ABTypeOK /\ \A n \in Nodes : NodeOK(n)

\* What a banner says.
LEMMA BannerFacts ==
  /\ \A b \in AB!Banners :
       /\ b.type = "contested" => b.team \in AB!Teams /\ b = AB!Contested(b.team)
       /\ b.type = "occupied" => b.team \in AB!Teams /\ b = AB!Occupied(b.team)
       /\ b.type \notin {"contested", "occupied"} => b = AB!Neutral
  /\ \A t \in AB!Teams :
       /\ AB!Contested(t) \in AB!Banners /\ AB!Occupied(t) \in AB!Banners
       /\ AB!Contested(t).type = "contested" /\ AB!Contested(t).team = t
       /\ AB!Occupied(t).type = "occupied" /\ AB!Occupied(t).team = t
  /\ AB!Neutral \in AB!Banners /\ AB!Neutral.type = "neutral"
  /\ NoBanner \notin AB!Banners
<1>1. NoBanner \notin AB!Banners
  BY MapAssumption DEF MapAssumption
<1>2. ASSUME NEW b \in AB!Banners
      PROVE  \/ b = AB!Neutral
             \/ \E t \in AB!Teams : b = AB!Contested(t)
             \/ \E t \in AB!Teams : b = AB!Occupied(t)
  BY DEF AB!Banners
<1>3. /\ \A t \in AB!Teams :
           /\ AB!Contested(t) \in AB!Banners /\ AB!Occupied(t) \in AB!Banners
           /\ AB!Contested(t).type = "contested" /\ AB!Contested(t).team = t
           /\ AB!Occupied(t).type = "occupied" /\ AB!Occupied(t).team = t
      /\ AB!Neutral \in AB!Banners /\ AB!Neutral.type = "neutral"
  <2>1. \A t : /\ AB!Contested(t).type = "contested" /\ AB!Contested(t).team = t
               /\ AB!Occupied(t).type = "occupied" /\ AB!Occupied(t).team = t
    BY DEF AB!Contested, AB!Occupied
  <2>2. AB!Neutral.type = "neutral"
    BY DEF AB!Neutral
  <2> QED BY <2>1, <2>2 DEF AB!Banners
<1> QED BY <1>1, <1>2, <1>3

LEMMA ABInvInit == MapInit => ABInv
<1>1. \A t \in AB!Teams : AB!Neutral # AB!Occupied(t)
  BY BannerFacts
<1> QED BY <1>1, BannerFacts DEF MapInit, AB!Init, ABInv, ABTypeOK, NodeOK

LEMMA ABDefend ==
  ASSUME ABInv, NEW n \in Nodes, NEW t \in AB!Teams, AB!Defend(n, t)
  PROVE  ABInv'
<1>1. ABTypeOK'
  BY BannerFacts DEF ABInv, ABTypeOK, AB!Defend, AB!Change
<1>2. \A m \in Nodes : m # n => NodeOK(m)'
  BY DEF ABInv, ABTypeOK, NodeOK, AB!Defend, AB!Change
<1>3. node'[n] = AB!Occupied(t) /\ ~capturing'[n] /\ pending'[n] = node'[n] /\ banners'[n] = {}
  BY DEF ABInv, ABTypeOK, NodeOK, AB!Defend, AB!Change
<1>4. guides'[n] = {t}
  BY BannerFacts DEF ABInv, ABTypeOK, NodeOK, AB!Defend
<1>5. NodeOK(n)'
  BY <1>3, <1>4, BannerFacts DEF NodeOK
<1> QED BY <1>1, <1>2, <1>5 DEF ABInv

LEMMA ABAssault ==
  ASSUME ABInv, NEW n \in Nodes, NEW t \in AB!Teams, AB!Assault(n, t)
  PROVE  ABInv'
<1>1. ABTypeOK'
  BY BannerFacts DEF ABInv, ABTypeOK, AB!Assault, AB!Change
<1>2. \A m \in Nodes : m # n => NodeOK(m)'
  BY DEF ABInv, ABTypeOK, NodeOK, AB!Assault, AB!Change
<1>3. /\ node'[n] = AB!Contested(t) /\ before'[n] = node[n] /\ capturing'[n]
      /\ pending'[n] = node'[n] /\ banners'[n] = {}
  BY DEF ABInv, ABTypeOK, NodeOK, AB!Assault, AB!Change
<1>4. guides'[n] = {}
  BY BannerFacts DEF ABInv, ABTypeOK, NodeOK, AB!Assault
<1>5. before'[n].type = "occupied" => before'[n].team = AB!Other(t)
  BY <1>3, BannerFacts DEF ABInv, ABTypeOK, AB!Assault, AB!Usable, AB!Teams, AB!Other
<1>6. NodeOK(n)'
  BY <1>3, <1>4, <1>5, BannerFacts DEF NodeOK
<1> QED BY <1>1, <1>2, <1>6 DEF ABInv

LEMMA ABUpdate ==
  ASSUME ABInv, NEW spawn \in SUBSET Nodes, NEW occupy \in SUBSET Nodes, NEW tick,
         AB!Update(spawn, occupy, tick)
  PROVE  ABInv'
<1> SUFFICES ASSUME NEW n \in Nodes
             PROVE  /\ node'[n] \in AB!Banners /\ before'[n] \in AB!Banners
                    /\ pending'[n] \in AB!Banners \cup {NoBanner}
                    /\ capturing'[n] \in BOOLEAN
                    /\ banners'[n] \subseteq AB!Banners /\ guides'[n] \subseteq AB!Teams
                    /\ NodeOK(n)'
  <2>1. /\ node' = [n \in Nodes |-> node'[n]] /\ before' = [n \in Nodes |-> before'[n]]
        /\ pending' = [n \in Nodes |-> pending'[n]] /\ capturing' = [n \in Nodes |-> capturing'[n]]
        /\ banners' = [n \in Nodes |-> banners'[n]] /\ guides' = [n \in Nodes |-> guides'[n]]
    BY DEF AB!Update
  <2> QED BY <2>1 DEF ABInv, ABTypeOK
<1>1. CASE n \in occupy
  <2>1. capturing[n] /\ node[n].type = "contested" /\ node[n] \in AB!Banners
    BY <1>1 DEF AB!Update, ABInv, ABTypeOK, NodeOK
  <2>2. node'[n] = AB!Occupied(node[n].team) /\ node[n].team \in AB!Teams
    BY <1>1, <2>1, BannerFacts DEF AB!Update
  <2>3. before'[n] = node[n] /\ pending'[n] = node'[n] /\ ~capturing'[n]
    BY <1>1 DEF AB!Update
  <2>4. banners'[n] = {}
    <3>1. spawn \cap {n} = {} \/ spawn \cap {n} = {n}
      OBVIOUS
    <3>2. banners'[n] = (banners[n] \cup {pending[m] : m \in spawn \cap {n}}) \ {node[m] : m \in occupy \cap {n}}
      BY DEF AB!Update
    <3>3. banners[n] \subseteq {node[n]} /\ (n \in spawn => pending[n] = node[n])
      BY DEF AB!Update, ABInv, NodeOK
    <3> QED BY <1>1, <3>1, <3>2, <3>3
  <2>5. guides'[n] = {node[n].team}
    <3>1. guides[n] = {}
      BY <2>1, BannerFacts DEF ABInv, NodeOK
    <3> QED BY <1>1, <3>1 DEF AB!Update
  <2> DEFINE u == node[n].team
  <2>6. /\ AB!Occupied(u) \in AB!Banners /\ AB!Occupied(u).type = "occupied"
        /\ \A t \in AB!Teams : AB!Occupied(u) = AB!Occupied(t) <=> t = u
        /\ NoBanner # AB!Occupied(u)
    <3>1. u \in AB!Teams
      BY <2>2
    <3> HIDE DEF u
    <3>2. AB!Occupied(u) \in AB!Banners /\ AB!Occupied(u).type = "occupied"
      BY <3>1, BannerFacts
    <3>3. \A t \in AB!Teams : AB!Occupied(u) = AB!Occupied(t) => t = u
      BY <3>1, BannerFacts
    <3> QED BY <3>2, <3>3, BannerFacts
  <2>7. guides'[n] = {t \in AB!Teams : node'[n] = AB!Occupied(t)}
    BY <2>2, <2>5, <2>6
  <2>8. NodeOK(n)'
    BY <2>2, <2>3, <2>4, <2>6, <2>7 DEF NodeOK
  <2>9. guides'[n] \subseteq AB!Teams /\ banners'[n] \subseteq AB!Banners /\ capturing'[n] \in BOOLEAN
    BY <1>1, <2>2, <2>4, <2>5 DEF AB!Update
  <2> QED BY <2>1, <2>2, <2>3, <2>6, <2>8, <2>9
<1>2. CASE n \notin occupy
  <2>1. /\ node'[n] = node[n] /\ before'[n] = before[n] /\ capturing'[n] = capturing[n]
        /\ guides'[n] = guides[n]
    BY <1>2 DEF AB!Update, ABInv, ABTypeOK
  <2>2. /\ banners'[n] = IF n \in spawn THEN banners[n] \cup {pending[n]} ELSE banners[n]
        /\ pending'[n] = IF n \in spawn THEN NoBanner ELSE pending[n]
    BY <1>2 DEF AB!Update
  <2>3. n \in spawn => pending[n] # NoBanner
    BY DEF AB!Update
  <2>4. NodeOK(n) /\ node[n] \in AB!Banners /\ before[n] \in AB!Banners /\ capturing[n] \in BOOLEAN
        /\ pending[n] \in AB!Banners \cup {NoBanner}
        /\ banners[n] \subseteq AB!Banners /\ guides[n] \subseteq AB!Teams
    BY DEF ABInv, ABTypeOK
  <2>5. CASE n \in spawn
    BY <2>1, <2>2, <2>3, <2>4, <2>5 DEF NodeOK
  <2>6. CASE n \notin spawn
    BY <2>1, <2>2, <2>4, <2>6 DEF NodeOK
  <2> QED BY <2>5, <2>6
<1> QED BY <1>1, <1>2

LEMMA ABInvPreserved == ASSUME ABInv, [MapNext]_mapVars PROVE ABInv'
<1>1. CASE AB!Next
  BY <1>1, ABDefend, ABAssault, ABUpdate DEF AB!Next
<1>2. CASE UNCHANGED abVars
  BY <1>2 DEF abVars, ABInv, ABTypeOK, NodeOK
<1> QED BY <1>1, <1>2 DEF MapNext, mapVars

(***************************************************************************)
(* The banner, the spirit guide and the timer of every node of Arathi      *)
(* Basin agree, though the banner follows two seconds after the change.    *)
(***************************************************************************)
THEOREM NodesAlwaysAgree == MapSpec => []NodesAgree
<1>1. ABInv => NodesAgree
  BY DEF ABInv, NodeOK, NodesAgree, AB!NodesAgree
<1> QED BY <1>1, ABInvInit, ABInvPreserved, PTL DEF MapSpec
=============================================================================
