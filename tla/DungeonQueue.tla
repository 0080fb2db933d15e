---------------------------- MODULE DungeonQueue ----------------------------
(***************************************************************************)
(* The queue of the dungeon finder, DungeonFinding/LFGQueue.cpp: players   *)
(* and parties wait until GroupSize of them make a group.  The operators   *)
(* take and return the state f of the finder, a record whose fields the    *)
(* queue keeps are                                                         *)
(*   data        QueueDataStore: the players of each waiting entry         *)
(*   new         newToQueueStore: entries nobody has looked at yet         *)
(*   current     currentQueueStore: entries that wait for newcomers        *)
(*   compatible  CompatibleMapStore: what is known of a set of entries     *)
(*   proposals   LFGMgr::ProposalsStore, in the order of their numbers     *)
(* and which it reads are state and old, the states of players and groups. *)
(* One team's queue and one dungeon are modelled, and a player always      *)
(* offers the same roles.                                                  *)
(***************************************************************************)
EXTENDS Integers, SequencesExt

CONSTANTS
    Players,
    Groups,      \* the groups that may come to exist, by number
    GroupSize,   \* MAXGROUPSIZE
    Needed,      \* how many of each role a group takes
    RolesOf,     \* the roles each player offers
    Ignoring,    \* the pairs of players of whom one ignores the other
    NoGroup

ASSUME QueueAssumption ==
    /\ IsFiniteSet(Players) /\ IsFiniteSet(Groups)
    /\ Groups = 1..Cardinality(Groups)
    /\ Players \cap Groups = {} /\ NoGroup \notin Groups
    /\ GroupSize \in Nat \ {0, 1}

Entries == Players \cup Groups

\* Players who leave all roles to a group of which none is taken too often.
RolesFit(players) ==
    \E role \in [players -> DOMAIN Needed] :
        /\ \A p \in players : role[p] \in RolesOf[p]
        /\ \A r \in DOMAIN Needed :
              Cardinality({p \in players : role[p] = r}) <= Needed[r]

PlayersOf(f, e) == IF e \in DOMAIN f.data THEN f.data[e] ELSE {}

Listed(f, e) == e \in ToSet(f.new) \cup ToSet(f.current)

AllQueued(f, check) == \A e \in ToSet(check) : f.state[e] = "QUEUED"

\* A group the finder made, or one that goes on with what it made.
IsLfgGroup(f, e) == e \in Groups /\ f.old[e] # "NONE"

-----------------------------------------------------------------------------
\* map[key] = value.
Put(map, key, value) ==
    [k \in DOMAIN map \cup {key} |-> IF k = key THEN value ELSE map[k]]

\* list::remove of some entries.
Without(s, entries) ==
    LET kept[i \in 0..Len(s)] ==
          IF i = 0 THEN <<>>
          ELSE IF s[i] \in entries THEN kept[i - 1] ELSE Append(kept[i - 1], s[i])
    IN  kept[Len(s)]

Unlisted(f, entries) ==
    [f EXCEPT !.new = Without(@, entries), !.current = Without(@, entries)]

RemoveFromQueue(f, entries) ==
    [Unlisted(f, entries) EXCEPT
        !.data = Restrict(@, DOMAIN @ \ entries),
        !.compatible = Restrict(@, {set \in DOMAIN @ : set \cap entries = {}})]

AddQueueData(f, e, players) ==
    [f EXCEPT !.data = Put(@, e, players), !.new = Append(@, e)]

\* Slip: the entries keep their data but are listed nowhere.
DataOnly(f, queue) == f

\* AddToQueue of entries that have waited before, each to the front.
ReAddToQueue(f, queue) ==
    [f EXCEPT !.current = Reverse(Without(queue, Entries \ DOMAIN f.data)) \o @]

SetCompatibles(f, check, result) ==
    [f EXCEPT !.compatible = Put(@, ToSet(check), result)]

GetCompatibles(f, check) ==
    IF ToSet(check) \in DOMAIN f.compatible THEN f.compatible[ToSet(check)] ELSE "PENDING"

-----------------------------------------------------------------------------
\* Everybody is in one entry only, and nobody ignores another.
GetAlong(f, check) ==
    LET together == UNION {f.data[e] : e \in ToSet(check)}
    IN  /\ \A p, q \in together : {p, q} \notin Ignoring
        /\ \A i, j \in 1..Len(check) :
              i # j => f.data[check[i]] \cap f.data[check[j]] = {}

AddProposal(f, check) ==
    LET lfg    == {i \in 1..Len(check) : IsLfgGroup(f, check[i])}
        group  == IF lfg = {} THEN NoGroup ELSE check[Min(lfg)]
        isNew  == lfg = {} \/ f.old[Head(check)] # "DUNGEON"
        entry  == [p \in UNION {f.data[e] : e \in ToSet(check)} |->
                      CHOOSE e \in ToSet(check) : p \in f.data[e]]
    IN  [Unlisted(f, ToSet(check)) EXCEPT !.proposals = Append(@,
            [queues |-> check,
             isNew  |-> isNew,
             group  |-> group,
             entry  |-> entry,
             answer |-> [p \in DOMAIN entry |->
                            IF ~isNew /\ entry[p] = group THEN "AGREE" ELSE "PENDING"],
             announced |-> FALSE])]

\* What is found of a list of entries, and what the queue remembers of it.
Found(f, check, result) ==
    [f  |-> SetCompatibles(IF result = "MATCH" THEN AddProposal(f, check) ELSE f, check, result),
     is |-> result]

\* CheckCompatibility of entries whose tail is compatible; an entry without
\* data is thrown out of the queue.
CompatibilityOf(f, check) ==
    LET size      == [i \in 1..Len(check) |-> Cardinality(PlayersOf(f, check[i]))]
        people(i) == SumFunctionOnSet(size, 1..i)
        lfg(i)    == Cardinality({j \in 1..i : IsLfgGroup(f, check[j])})
        visited   == {i \in 1..Len(check) : lfg(i - 1) < 2 /\ people(i - 1) <= GroupSize}
        missing   == {i \in visited : check[i] \notin DOMAIN f.data}
        last      == Max(visited)
        alone     == Len(check) = 1
    IN  IF missing # {}
        THEN [f |-> RemoveFromQueue(f, {check[Min(missing)]}), is |-> "PENDING"]
        ELSE Found(f, check,
            IF alone /\ people(last) # GroupSize THEN "LESS"
            ELSE IF lfg(last) > 1 THEN "MULTIPLE"
            ELSE IF people(last) > GroupSize THEN "TOO_MUCH"
            ELSE IF ~alone /\ ~GetAlong(f, check) THEN "IGNORES"
            ELSE IF ~alone /\ ~RolesFit(UNION {f.data[e] : e \in ToSet(check)}) THEN "NO_ROLES"
            ELSE IF people(last) # GroupSize THEN "LESS"
            ELSE IF ~AllQueued(f, check) THEN "BAD_STATES"
            ELSE "MATCH")

\* What the entries after the first have been found to be decides for the whole.
Judge(tail, check) ==
    IF tail.is \in {"LESS", "BAD_STATES", "MATCH"} THEN CompatibilityOf(tail.f, check)
    ELSE [f |-> SetCompatibles(tail.f, check, tail.is), is |-> tail.is]

\* CheckCompatibility calls itself for the tail: it judges the last two, the
\* last three ..., and a tail that makes a full group gets a proposal as well.
CheckCompatibility(f, check) ==
    LET n == Len(check)
        tails == IF n = 1 THEN <<check>> ELSE [i \in 1..(n - 1) |-> SubSeq(check, n - i, n)]
    IN  IF n > GroupSize THEN [f |-> f, is |-> "WRONG_SIZE"]
        ELSE FoldLeft(Judge, [f |-> f, is |-> "LESS"], tails)

-----------------------------------------------------------------------------
\* A match that waited for the states of its players is one now, although
\* nobody makes a proposal of it.
NoLongerBad(judged, check) ==
    IF judged.is = "BAD_STATES" /\ AllQueued(judged.f, check)
    THEN [f |-> SetCompatibles(judged.f, check, "MATCH"), is |-> "MATCH"] ELSE judged

Verdict(f, check) ==
    NoLongerBad(IF GetCompatibles(f, check) = "PENDING" THEN CheckCompatibility(f, check)
                ELSE [f |-> f, is |-> GetCompatibles(f, check)], check)

Tried(search, e, found) ==
    [f     |-> found.f,
     is    |-> IF found.is = "MATCH" THEN "MATCH" ELSE "LESS",
     check |-> IF found.is = "LESS" THEN Append(search.check, e) ELSE search.check]

Extend(search, e) ==
    IF search.is # "LESS" THEN search
    ELSE Tried(search, e, Verdict(search.f, Append(search.check, e)))

\* FindNewGroups: the nested calls take the entries they try from one list, so
\* each of those that wait is tried once, with all that were taken before it.
FindNewGroups(f, front) ==
    LET first == Verdict(f, <<front>>)
    IN  FoldLeft(Extend, [f |-> first.f, is |-> first.is, check |-> <<front>>], f.current)

\* Who makes no group joins the ones that wait.
Waiting(found, front) ==
    IF found.is = "MATCH" THEN found.f ELSE [found.f EXCEPT !.current = Append(@, front)]

LookAt(f, front) ==
    IF front \notin ToSet(f.new) THEN f
    ELSE Waiting(FindNewGroups([f EXCEPT !.new = Without(@, {front})], front), front)

\* FindGroups: each newcomer in turn.
FindGroups(f) == FoldLeft(LookAt, f, f.new)
=============================================================================
