------------------------ MODULE DungeonFinder_proofs ------------------------
(***************************************************************************)
(* Proofs about the dungeon finder, for all players, parties and sizes of  *)
(* groups: the steps of Update keep FinderOK, so it is an invariant, and   *)
(* from it follow that nobody waits twice or for nothing; that a dungeon   *)
(* is entered by a proposal and by all of its players at once; and that    *)
(* who agrees keeps his place unless somebody he waits with lets him down. *)
(***************************************************************************)
EXTENDS DungeonFinder_lemmas

-----------------------------------------------------------------------------
(***************************************************************************)
(* Nobody enters a dungeon but by a proposal that succeeds: whatever else  *)
(* sets or restores the states of players.                                 *)
(***************************************************************************)
HasStates(f) == "state" \in DOMAIN f /\ "old" \in DOMAIN f

InDungeon(f, p) == f.state[p] = "DUNGEON" \/ f.old[p] = "DUNGEON"

NoneEnters(f, h) ==
  HasStates(f) => HasStates(h) /\ \A p \in Players : InDungeon(h, p) => InDungeon(f, p)

LEMMA NoneEntersTwice ==
  ASSUME NEW f, NEW k, NEW h, NoneEnters(f, k), NoneEnters(k, h)
  PROVE  NoneEnters(f, h)
BY DEF NoneEnters

SameStatesIn(f, h) ==
  HasStates(f) => HasStates(h) /\ h.state = f.state /\ h.old = f.old

LEMMA SameStates ==
  ASSUME NEW f, NEW h, SameStatesIn(f, h)
  PROVE  NoneEnters(f, h)
BY DEF NoneEnters, HasStates, InDungeon, SameStatesIn

LEMMA SetStateQuiet ==
  ASSUME NEW f, NEW S, NEW new, new # "DUNGEON"
  PROVE  NoneEnters(f, SetState(f, S, new))
<1> SUFFICES ASSUME HasStates(f)
             PROVE  LET h == SetState(f, S, new)
                    IN  HasStates(h) /\ \A p \in Players : InDungeon(h, p) => InDungeon(f, p)
  BY DEF NoneEnters
<1> DEFINE h == SetState(f, S, new)
<1>1. /\ HasStates(h)
      /\ h.state = [e \in Entries |-> IF e \in S THEN new ELSE f.state[e]]
      /\ h.old = [e \in Entries |-> IF e \in S /\ new \in {"NONE", "DUNGEON", "FINISHED"} THEN new
                                    ELSE f.old[e]]
  BY DEF SetState, HasStates
<1> HIDE DEF h
<1>2. \A p \in Players : InDungeon(h, p) => InDungeon(f, p)
  BY <1>1, Kinds DEF InDungeon
<1> QED BY <1>1, <1>2 DEF h

LEMMA RestoreStateQuiet ==
  ASSUME NEW f, NEW S
  PROVE  NoneEnters(f, RestoreState(f, S))
<1> SUFFICES ASSUME HasStates(f)
             PROVE  LET h == RestoreState(f, S)
                    IN  HasStates(h) /\ \A p \in Players : InDungeon(h, p) => InDungeon(f, p)
  BY DEF NoneEnters
<1> DEFINE h == RestoreState(f, S)
<1>1. /\ HasStates(h) /\ h.old = f.old
      /\ h.state = [e \in Entries |-> IF e \in S THEN f.old[e] ELSE f.state[e]]
  BY DEF RestoreState, HasStates
<1> HIDE DEF h
<1>2. \A p \in Players : InDungeon(h, p) => InDungeon(f, p)
  BY <1>1, Kinds DEF InDungeon
<1> QED BY <1>1, <1>2 DEF h

LEMMA RemoveFromQueueQuiet ==
  ASSUME NEW f, NEW S
  PROVE  NoneEnters(f, RemoveFromQueue(f, S))
<1>1. SameStatesIn(f, RemoveFromQueue(f, S))
  BY DEF SameStatesIn, HasStates, RemoveFromQueue, Unlisted
<1> QED BY <1>1, SameStates

LEMMA AddQueueDataQuiet ==
  ASSUME NEW f, NEW e, NEW players
  PROVE  NoneEnters(f, AddQueueData(f, e, players))
<1>1. SameStatesIn(f, AddQueueData(f, e, players))
  BY DEF SameStatesIn, HasStates, AddQueueData
<1> QED BY <1>1, SameStates

LEMMA ReAddToQueueQuiet ==
  ASSUME NEW f, NEW queue
  PROVE  NoneEnters(f, ReAddToQueue(f, queue))
<1>1. SameStatesIn(f, ReAddToQueue(f, queue))
  BY DEF SameStatesIn, HasStates, ReAddToQueue
<1> QED BY <1>1, SameStates

LEMMA CheckEndedQuiet ==
  ASSUME NEW f, NEW groups
  PROVE  NoneEnters(f, CheckEnded(f, groups))
<1>1. SameStatesIn(f, CheckEnded(f, groups))
  BY DEF SameStatesIn, HasStates, CheckEnded
<1> QED BY <1>1, SameStates

LEMMA RoleChecksFailQuiet ==
  ASSUME NEW f, NEW groups
  PROVE  NoneEnters(f, RoleChecksFail(f, groups))
BY CheckEndedQuiet, RestoreStateQuiet, NoneEntersTwice DEF RoleChecksFail

LEMMA RoleCheckPassesQuiet ==
  ASSUME NEW f, NEW g
  PROVE  NoneEnters(f, RoleCheckPasses(f, g))
<1> DEFINE k == CheckEnded(f, {g})
           l == SetState(k, AskedIn(f, {g}), "QUEUED")
<1>1. NoneEnters(f, k)
  BY CheckEndedQuiet
<1>2. NoneEnters(k, l)
  BY SetStateQuiet
<1>3. NoneEnters(l, AddQueueData(l, g, f.check[g].asked))
  BY AddQueueDataQuiet
<1> HIDE DEF k, l
<1>4. NoneEnters(f, AddQueueData(l, g, f.check[g].asked))
  BY <1>1, <1>2, <1>3, NoneEntersTwice
<1> QED BY <1>4 DEF RoleCheckPasses, k, l

LEMMA UpdateRoleCheckQuiet ==
  ASSUME NEW f, NEW g, NEW p, NEW chosen
  PROVE  NoneEnters(f, UpdateRoleCheck(f, g, p, chosen))
<1> DEFINE asked == f.check[g].asked \cup {p}
           answered == f.check[g].answered \cup {p}
           noted == [f EXCEPT !.check[g] = [asked |-> asked, answered |-> answered]]
           h == UpdateRoleCheck(f, g, p, chosen)
<1>1. \/ h = RoleChecksFail(f, {g})
      \/ h = noted
      \/ h = RoleCheckPasses(noted, g)
      \/ h = RoleChecksFail(noted, {g})
  BY DEF UpdateRoleCheck
<1>2. NoneEnters(f, noted)
  <2>1. SameStatesIn(f, noted)
    BY DEF SameStatesIn, HasStates
  <2> QED BY <2>1, SameStates
<1> HIDE DEF noted, h
<1>3. NoneEnters(f, h)
  BY <1>1, <1>2, RoleChecksFailQuiet, RoleCheckPassesQuiet, NoneEntersTwice
<1> QED BY <1>3 DEF h

LEMMA RemoveProposalQuiet ==
  ASSUME NEW f, NEW i, NEW failed
  PROVE  NoneEnters(f, RemoveProposal(f, i, failed))
<1> DEFINE proposal == f.proposals[i]
           out == Out(proposal, failed)
           toRemove == {proposal.entry[p] : p \in out}
           stay == DOMAIN proposal.answer \ out
           S == stay \cup {proposal.entry[p] : p \in stay}
           a == RestoreState(f, out \cup toRemove)
           b == SetState(a, S, "QUEUED")
           c == RemoveFromQueue(b, toRemove)
           d == ReAddToQueue(c, Without(proposal.queues, toRemove))
           h == [d EXCEPT !.proposals = RemoveAt(@, i)]
<1>1. RemoveProposal(f, i, failed) = h
  BY DEF RemoveProposal
<1>2. NoneEnters(f, a)
  BY RestoreStateQuiet
<1>3. NoneEnters(a, b)
  BY SetStateQuiet
<1>4. NoneEnters(b, c)
  BY RemoveFromQueueQuiet
<1>5. NoneEnters(c, d)
  BY ReAddToQueueQuiet
<1> HIDE DEF a, b, c, d
<1>6. NoneEnters(d, h)
  <2>1. SameStatesIn(d, h)
    BY DEF SameStatesIn, HasStates
  <2> QED BY <2>1, SameStates
<1> HIDE DEF h
<1> QED BY <1>1, <1>2, <1>3, <1>4, <1>5, <1>6, NoneEntersTwice

LEMMA DenyQuiet ==
  ASSUME NEW f, NEW i, NEW p
  PROVE  NoneEnters(f, Deny(f, i, p))
<1> DEFINE k == [f EXCEPT !.proposals[i].answer[p] = "DENY"]
<1>1. NoneEnters(f, k)
  <2>1. SameStatesIn(f, k)
    BY DEF SameStatesIn, HasStates
  <2> QED BY <2>1, SameStates
<1>2. \A failed : NoneEnters(k, RemoveProposal(k, i, failed))
  BY RemoveProposalQuiet
<1>3. \A failed : NoneEnters(f, RemoveProposal(k, i, failed))
  BY <1>1, <1>2, NoneEntersTwice
<1> QED BY <1>3, Zenon DEF Deny

LEMMA NothingDone ==
  ASSUME NEW f
  PROVE  NoneEnters(f, f)
BY DEF NoneEnters

LEMMA LeaveLfgQuiet ==
  ASSUME NEW f, NEW e
  PROVE  NoneEnters(f, LeaveLfg(f, e))
<1> DEFINE h == LeaveLfg(f, e)
           g == IF e \in Groups THEN e ELSE GroupOf(f, e)
           p == IF e \in Groups THEN f.party[g][1] ELSE e
           whole == IF g = NoGroup THEN {e} ELSE Members(f, g) \cup {g}
           asking == {i \in 1..Len(f.proposals) : p \in DOMAIN f.proposals[i].answer}
           S == {IF g = NoGroup THEN e ELSE g}
           k == RemoveFromQueue(f, S)
<1>1. \/ h = f
      \/ h = SetState(k, whole, "NONE")
      \/ h = RoleChecksFail(f, {g})
      \/ h = Deny(f, Min(asking), p)
      \/ h = SetState(f, {e}, "NONE")
  <2> HIDE DEF asking, g, p, whole
  <2> USE DEF LeaveLfg
  <2>1. CASE f.state[e] = "QUEUED"
    BY <2>1 DEF g, p, whole, asking
  <2>2. CASE f.state[e] = "ROLECHECK"
    BY <2>2 DEF g, p, whole, asking
  <2>3. CASE f.state[e] = "PROPOSAL"
    BY <2>3 DEF g, p, whole, asking
  <2>4. CASE f.state[e] \in {"DUNGEON", "FINISHED"}
    BY <2>4 DEF g, p, whole, asking
  <2>5. CASE f.state[e] \notin {"QUEUED", "ROLECHECK", "PROPOSAL", "DUNGEON", "FINISHED"}
    BY <2>5 DEF g, p, whole, asking
  <2> QED BY <2>1, <2>2, <2>3, <2>4, <2>5
<1>2. NoneEnters(f, k)
  BY RemoveFromQueueQuiet
<1> HIDE DEF k, g, p, whole, asking, h
<1>3. NoneEnters(k, SetState(k, whole, "NONE")) /\ NoneEnters(f, SetState(f, {e}, "NONE"))
  BY SetStateQuiet
<1>4. NoneEnters(f, SetState(k, whole, "NONE"))
  BY <1>2, <1>3, NoneEntersTwice
<1>5. NoneEnters(f, h)
  BY <1>1, <1>3, <1>4, NothingDone, RoleChecksFailQuiet, DenyQuiet
<1> QED BY <1>5 DEF h

LEMMA DisbandQuiet ==
  ASSUME NEW f, NEW g
  PROVE  NoneEnters(f, Disband(f, g))
<1> DEFINE a == IF f.state[g] = "PROPOSAL" THEN f ELSE SetState(f, Members(f, g), "NONE")
           b == SetState(a, {g}, "NONE")
           h == [b EXCEPT !.party[g] = <<>>, !.lfg = @ \ {g},
                          !.invite = [p \in Players |-> IF @[p] = g THEN NoInvite ELSE @[p]]]
<1>1. Disband(f, g) = h
  BY DEF Disband
<1>2. NoneEnters(f, a)
  BY SetStateQuiet, NothingDone
<1>3. NoneEnters(a, b)
  BY SetStateQuiet
<1> HIDE DEF a, b
<1>4. NoneEnters(b, h)
  <2>1. SameStatesIn(b, h)
    BY DEF SameStatesIn, HasStates
  <2> QED BY <2>1, SameStates
<1> HIDE DEF h
<1> QED BY <1>1, <1>2, <1>3, <1>4, NoneEntersTwice

LEMMA RemoveMemberQuiet ==
  ASSUME NEW f, NEW g, NEW p, NEW default, NEW inside
  PROVE  NoneEnters(f, RemoveMember(f, g, p, default, inside))
<1> DEFINE left == OnRemoveMember(f, g, p, default)
           rest == [left EXCEPT !.party[g] = Without(@, {p})]
           h == RemoveMember(f, g, p, default, inside)
<1>1. left = f \/ left = LeaveLfg(f, p)
  BY DEF OnRemoveMember
<1>2. h = Disband(rest, g) \/ h = rest
  BY DEF RemoveMember
<1> HIDE DEF left
<1>3. NoneEnters(f, left)
  BY <1>1, LeaveLfgQuiet, NothingDone
<1>4. NoneEnters(left, rest)
  <2>1. SameStatesIn(left, rest)
    BY DEF SameStatesIn, HasStates
  <2> QED BY <2>1, SameStates
<1> HIDE DEF rest, h
<1>5. NoneEnters(rest, h)
  BY <1>2, DisbandQuiet, NothingDone
<1>6. NoneEnters(f, h)
  BY <1>3, <1>4, <1>5, NoneEntersTwice
<1> QED BY <1>6 DEF h

LEMMA AddMemberQuiet ==
  ASSUME NEW f, NEW g, NEW p
  PROVE  NoneEnters(f, AddMember(f, g, p))
<1> DEFINE alone == IF f.state[p] = "QUEUED" THEN LeaveLfg(f, p) ELSE f
           on == IF f.state[g] = "QUEUED" THEN LeaveLfg(alone, g) ELSE alone
           added == IF f.party[g] = <<>> THEN f ELSE on
           h == [added EXCEPT !.party[g] = Append(@, p), !.invite[p] = NoInvite]
<1>1. AddMember(f, g, p) = h
  BY DEF AddMember, OnAddMember
<1>2. NoneEnters(f, alone)
  BY LeaveLfgQuiet, NothingDone
<1> HIDE DEF alone
<1>3. NoneEnters(alone, on)
  BY LeaveLfgQuiet, NothingDone
<1> HIDE DEF on
<1>4. NoneEnters(f, added)
  BY <1>2, <1>3, NothingDone, NoneEntersTwice
<1> HIDE DEF added
<1>5. NoneEnters(added, h)
  <2>1. SameStatesIn(added, h)
    BY DEF SameStatesIn, HasStates
  <2> QED BY <2>1, SameStates
<1> HIDE DEF h
<1> QED BY <1>1, <1>4, <1>5, NoneEntersTwice

LEMMA UninviteQuiet ==
  ASSUME NEW f, NEW p
  PROVE  NoneEnters(f, Uninvite(f, p))
<1> DEFINE from == f.invite[p]
           freed == [f EXCEPT !.invite = [q \in Players |-> IF @[q] = from THEN NoInvite ELSE @[q]]]
           lapsed == [f EXCEPT !.invite[p] = NoInvite]
           h == Uninvite(f, p)
<1>1. h = f \/ h = freed \/ h = lapsed \/ h = Disband(lapsed, from)
  BY DEF Uninvite
<1>2. NoneEnters(f, freed)
  <2>1. SameStatesIn(f, freed)
    BY DEF SameStatesIn, HasStates
  <2> QED BY <2>1, SameStates
<1>3. NoneEnters(f, lapsed)
  <2>1. SameStatesIn(f, lapsed)
    BY DEF SameStatesIn, HasStates
  <2> QED BY <2>1, SameStates
<1> HIDE DEF freed, lapsed, h
<1>4. NoneEnters(f, h)
  BY <1>1, <1>2, <1>3, NothingDone, DisbandQuiet, NoneEntersTwice
<1> QED BY <1>4 DEF h
-----------------------------------------------------------------------------
(***************************************************************************)
(* What a proposal that falls leaves of the places of those who have       *)
(* agreed to theirs.                                                       *)
(***************************************************************************)
HasPlace(f, e) == Listed(f, e) \/ Proposed(f, e)

\* All the players of the entry e have agreed.
Says(f, e) ==
  \E i \in 1..Len(f.proposals) :
    /\ e \in ToSet(f.proposals[i].queues)
    /\ \A p \in DOMAIN f.proposals[i].answer :
         f.proposals[i].entry[p] = e => f.proposals[i].answer[p] = "AGREE"

\* Who has agreed keeps his place, but for the entry d.
Persists(f, h, d) == \A e : e # d /\ Says(f, e) => HasPlace(h, e)

Steady(f, h) == \A e : Listed(f, e) \/ Says(f, e) => Listed(h, e) \/ Says(h, e)

QueueFields == {"new", "current", "proposals"}

QueueStays(f, h) ==
  QueueFields \subseteq DOMAIN f =>
    /\ QueueFields \subseteq DOMAIN h
    /\ h.new = f.new /\ h.current = f.current /\ h.proposals = f.proposals

ProposalsStay(f, h) ==
  "proposals" \in DOMAIN f => "proposals" \in DOMAIN h /\ h.proposals = f.proposals

LEMMA SaysProposed ==
  ASSUME NEW f, NEW e, Says(f, e)
  PROVE  Proposed(f, e)
BY DEF Says, Proposed

LEMMA SteadyHolds ==
  ASSUME NEW f, NEW h, Steady(f, h), NEW d
  PROVE  Persists(f, h, d)
BY SaysProposed DEF Steady, Persists, HasPlace

LEMMA SameProposalsHold ==
  ASSUME NEW f, NEW h, h.proposals = f.proposals, NEW d
  PROVE  Persists(f, h, d)
BY SaysProposed DEF Says, Persists, HasPlace, Proposed

LEMMA PersistsOn ==
  ASSUME NEW f, NEW k, NEW h, NEW d, Persists(f, k, d),
         h.new = k.new, h.current = k.current, h.proposals = k.proposals
  PROVE  Persists(f, h, d)
BY DEF Persists, HasPlace, Listed, Proposed

LEMMA ProposalsStayTwice ==
  ASSUME NEW f, NEW k, NEW h, ProposalsStay(f, k), ProposalsStay(k, h)
  PROVE  ProposalsStay(f, h)
BY DEF ProposalsStay

LEMMA QueueStaysTwice ==
  ASSUME NEW f, NEW k, NEW h, QueueStays(f, k), QueueStays(k, h)
  PROVE  QueueStays(f, h)
BY DEF QueueStays

\* Another proposal goes.
LEMMA SaysOn ==
  ASSUME NEW f \in Finders, NEW i \in 1..Len(f.proposals), NEW h,
         h.proposals = RemoveAt(f.proposals, i),
         NEW e, e \notin ToSet(f.proposals[i].queues), Says(f, e)
  PROVE  Says(h, e)
<1>1. PICK l \in 1..Len(f.proposals) :
        /\ e \in ToSet(f.proposals[l].queues)
        /\ \A p \in DOMAIN f.proposals[l].answer :
             f.proposals[l].entry[p] = e => f.proposals[l].answer[p] = "AGREE"
  BY DEF Says
<1>2. l # i
  BY <1>1
<1>3. LeftOf(f, i, h)
  BY ProposalsLeft
<1>4. PICK j \in 1..Len(h.proposals) : h.proposals[j] = f.proposals[l]
  <2>1. PICK k \in [1..Len(h.proposals) -> 1..Len(f.proposals)] :
          /\ \A j \in 1..Len(h.proposals) : h.proposals[j] = f.proposals[k[j]]
          /\ \A m \in 1..Len(f.proposals) : m # i => \E j \in 1..Len(h.proposals) : m = k[j]
    BY <1>3 DEF LeftOf
  <2>2. PICK j \in 1..Len(h.proposals) : l = k[j]
    BY <1>2, <2>1
  <2> QED BY <2>1, <2>2
<1> QED BY <1>1, <1>4 DEF Says

\* Whose proposal falls is queued again if all have agreed.
LEMMA FallSteady ==
  ASSUME NEW f, Core(f), NEW i \in 1..Len(f.proposals), NEW failed, NEW h, h = RemoveProposal(f, i, failed)
  PROVE  Core(h) /\ Steady(f, h)
<1> DEFINE proposal == f.proposals[i]  Q == ToSet(proposal.queues)  gone == Gone(proposal, failed)
<1>1. proposal = f.proposals[i] /\ Q = ToSet(proposal.queues) /\ gone = Gone(proposal, failed)
  OBVIOUS
<1> HIDE DEF proposal, Q, gone
<1>2. ProposalFell(f, i, Q, gone, h)
  BY <1>1, RemoveProposalKeeps
<1>3. f \in Finders /\ ProposalsOK(f)
  BY CoreIs DEF QueueOK
<1>5. ASSUME NEW e, e \notin Q, Says(f, e) PROVE Says(h, e)
  BY <1>1, <1>2, <1>3, <1>5, SaysOn DEF ProposalFell
<1>6. ASSUME NEW e \in Q, Says(f, e) PROVE Listed(h, e)
  <2>1. PICK l \in 1..Len(f.proposals) :
          /\ e \in ToSet(f.proposals[l].queues)
          /\ \A p \in DOMAIN f.proposals[l].answer :
               f.proposals[l].entry[p] = e => f.proposals[l].answer[p] = "AGREE"
    BY <1>6 DEF Says
  <2>2. l = i
    BY <1>1, <1>3, <1>6, <2>1 DEF ProposalsOK
  <2>3. \A p \in DOMAIN proposal.answer : proposal.entry[p] = e => proposal.answer[p] = "AGREE"
    BY <1>1, <2>1, <2>2
  <2>4. e \notin gone
    BY <1>1, <2>3 DEF Gone, Out
  <2> QED BY <1>2, <1>6, <2>4 DEF ProposalFell
<1>7. ASSUME NEW e \in Q PROVE ~ Listed(f, e)
  <2>1. Holds(f, proposal, Q)
    BY <1>1, ProposalHas
  <2> QED BY <2>1 DEF Holds
<1>8. Steady(f, h)
  BY <1>2, <1>5, <1>6, <1>7 DEF Steady, ProposalFell
<1> QED BY <1>2, <1>8 DEF ProposalFell

LEMMA DenyPersists ==
  ASSUME NEW f, Core(f), NEW i \in 1..Len(f.proposals), NEW p \in DOMAIN f.proposals[i].answer,
         NEW d, d = f.proposals[i].entry[p], NEW h, h = Deny(f, i, p)
  PROVE  Persists(f, h, d)
<1> DEFINE a == WithAnswer(f, i, p, "DENY")
           failed == FALSE
<1>1. f \in Finders
  BY CoreIs
<1>2. Answered(f, i, p, "DENY", a)
  BY <1>1, AnswerIs
<1>3. h = RemoveProposal(a, i, failed)
  BY DEF Deny, WithAnswer
<1> HIDE DEF a, failed
<1>4. Core(a)
  BY <1>2, AnswerKeeps
<1>5. i \in 1..Len(a.proposals)
  BY <1>2 DEF Answered
<1>6. Core(h) /\ Steady(a, h)
  BY <1>3, <1>4, <1>5, FallSteady
<1>7. ASSUME NEW e, e # d, Says(f, e) PROVE Says(a, e)
  <2>1. PICK l \in 1..Len(f.proposals) :
          /\ e \in ToSet(f.proposals[l].queues)
          /\ \A q \in DOMAIN f.proposals[l].answer :
               f.proposals[l].entry[q] = e => f.proposals[l].answer[q] = "AGREE"
    BY <1>7 DEF Says
  <2>2. /\ l \in 1..Len(a.proposals) /\ a.proposals[l].queues = f.proposals[l].queues
        /\ a.proposals[l].entry = f.proposals[l].entry
        /\ DOMAIN a.proposals[l].answer = DOMAIN f.proposals[l].answer
        /\ \A q \in DOMAIN f.proposals[l].answer :
             a.proposals[l].answer[q] = IF l = i /\ q = p THEN "DENY" ELSE f.proposals[l].answer[q]
    BY <1>2 DEF Answered
  <2>3. \A q \in DOMAIN a.proposals[l].answer :
          a.proposals[l].entry[q] = e => a.proposals[l].answer[q] = "AGREE"
    BY <1>7, <2>1, <2>2
  <2> QED BY <2>1, <2>2, <2>3 DEF Says
<1>8. Persists(a, h, d)
  BY <1>6, SteadyHolds
<1> QED BY <1>7, <1>8 DEF Persists

LEMMA SteadyTwice ==
  ASSUME NEW f, NEW k, NEW h, Steady(f, k), Steady(k, h)
  PROVE  Steady(f, h)
BY DEF Steady

-----------------------------------------------------------------------------
(***************************************************************************)
(* Update: role checks and proposals run out.                              *)
(***************************************************************************)
X == INSTANCE FoldLemmas WITH Folded <- LAMBDA a, x, e : Expire(x, e)

LEMMA ExpiredFold ==
  ASSUME NEW f, NEW n
  PROVE  Expired(f, n) = X!Fold(0, f, [i \in 1..n |-> i])
BY DEF Expired, FoldLeft, MapThenFoldSet, Max, X!Fold, X!FoldedBy, X!Max

Fell(f, n, h) ==
  /\ Core(h) /\ Calm(f, h) /\ Len(h.proposals) = Len(f.proposals) - n
  /\ NoneEnters(f, h) /\ Steady(f, h)

LEMMA FirstFalls ==
  ASSUME NEW f, Core(f), Len(f.proposals) > 0, NEW failed, NEW h, h = RemoveProposal(f, 1, failed)
  PROVE  Fell(f, 1, h)
<1> DEFINE proposal == f.proposals[1]
           Q == ToSet(proposal.queues)
           gone == Gone(proposal, failed)
<1>1. f \in Finders /\ f.proposals \in Seq(Proposals)
  BY CoreIs, FieldsOf
<1>2. 1 \in 1..Len(f.proposals)
  BY <1>1
<1>3. proposal = f.proposals[1] /\ Q = ToSet(proposal.queues) /\ gone = Gone(proposal, failed)
  OBVIOUS
<1> HIDE DEF proposal, Q, gone
<1>4. ProposalFell(f, 1, Q, gone, h)
  BY <1>2, <1>3, RemoveProposalKeeps
<1>5. Len(h.proposals) = Len(f.proposals) - 1
  <2>1. h.proposals = RemoveAt(f.proposals, 1)
    BY <1>4 DEF ProposalFell
  <2> QED BY <1>1, <1>2, <2>1, RemoveAtIs
<1>6. NoneEnters(f, h)
  <2>1. \A b : NoneEnters(f, RemoveProposal(f, 1, b))
    BY RemoveProposalQuiet
  <2> QED BY <2>1
<1>7. Steady(f, h)
  BY <1>2, FallSteady
<1> QED BY <1>4, <1>5, <1>6, <1>7 DEF ProposalFell, Fell

LEMMA ExpireKeeps ==
  ASSUME NEW f, Core(f), Len(f.proposals) > 0, NEW i
  PROVE  Fell(f, 1, Expire(f, i))
<1>1. \A failed : Fell(f, 1, RemoveProposal(f, 1, failed))
  BY FirstFalls
<1> QED BY <1>1, Zenon DEF Expire

LEMMA CalmSelf ==
  ASSUME NEW f
  PROVE  Calm(f, f)
BY DEF Calm, PartiesKept

LEMMA ExpiredKeeps ==
  ASSUME NEW f, Core(f), NEW n \in 0..Len(f.proposals), NEW h, h = Expired(f, n)
  PROVE  Fell(f, n, h)
<1> DEFINE s == [i \in 1..n |-> i]
           I == {t \in (0..n) \X Finders : Fell(f, t[1], t[2])}
<1>1. n \in Nat /\ DOMAIN s = 1..n /\ f \in Finders /\ Len(f.proposals) \in Nat
  <2>1. f \in Finders /\ f.proposals \in Seq(Proposals)
    BY CoreIs, FieldsOf
  <2> QED BY <2>1
<1>2. Fell(f, 0, f)
  BY <1>1, CalmSelf, NothingDone DEF Fell, Steady
<1>3. <<0, f>> \in I
  BY <1>1, <1>2
<1>4. \A i \in 1..n : \A x : <<i - 1, x>> \in I => <<i, Expire(x, s[i])>> \in I
  <2> SUFFICES ASSUME NEW i \in 1..n, NEW x, <<i - 1, x>> \in I
               PROVE  <<i, Expire(x, s[i])>> \in I
    OBVIOUS
  <2>1. Core(x) /\ Calm(f, x) /\ Len(x.proposals) = Len(f.proposals) - (i - 1)
       /\ NoneEnters(f, x) /\ Steady(f, x)
    BY DEF Fell
  <2>2. Len(x.proposals) > 0
    BY <1>1, <2>1
  <2> DEFINE y == Expire(x, s[i])
  <2>3. Fell(x, 1, y)
    BY <2>1, <2>2, ExpireKeeps
  <2> HIDE DEF y
  <2>4. Core(y) /\ Calm(x, y) /\ Len(y.proposals) = Len(x.proposals) - 1
      /\ NoneEnters(x, y) /\ Steady(x, y)
    BY <2>3 DEF Fell
  <2>5. Calm(f, y)
    BY <2>1, <2>4, CalmTwice
  <2>6. Len(y.proposals) = Len(f.proposals) - i
    BY <1>1, <2>1, <2>4
  <2>7. Fell(f, i, y)
    BY <2>1, <2>4, <2>5, <2>6, NoneEntersTwice, SteadyTwice DEF Fell
  <2>8. y \in Finders /\ i \in 0..n
    BY <1>1, <2>4, CoreIs
  <2>9. <<i, y>> \in I
    BY <2>7, <2>8
  <2> QED BY <2>9 DEF y
<1>5. h = X!Fold(0, f, s)
  BY ExpiredFold
<1> HIDE DEF I, s
<1>6. <<n, X!Fold(0, f, s)>> \in I
  BY <1>1, <1>3, <1>4, X!FoldKeeps
<1>7. <<n, h>> \in I
  BY <1>5, <1>6
<1> QED BY <1>7 DEF I

-----------------------------------------------------------------------------
(***************************************************************************)
(* Update: the queue is searched.                                          *)
(***************************************************************************)
Crowd(f, check) == UNION {f.data[e] : e \in ToSet(check)}

\* Entries that make a group.
Match(f, check) ==
  /\ Cardinality(Crowd(f, check)) = GroupSize
  /\ RolesFit(Crowd(f, check))
  /\ Len(check) = 1 \/ \A p, q \in Crowd(f, check) : {p, q} \notin Ignoring

\* A proposal that nobody has been shown.
Fresh(f, proposal) ==
  /\ Sound(f, proposal) /\ ~ proposal.announced
  /\ \A e \in ToSet(proposal.queues) : Listed(f, e)
  /\ proposal.group \in f.lfg \cup {NoGroup}

Proposing(f, check, x, proposal, h) ==
  /\ h \in Finders /\ h.state = x.state /\ h.old = x.old
  /\ h.data = x.data /\ h.compatible = x.compatible
  /\ h.new = Without(x.new, ToSet(check)) /\ h.current = Without(x.current, ToSet(check))
  /\ PartiesKept(x, h) /\ h.check = x.check
  /\ h.proposals = Append(x.proposals, proposal)
  /\ proposal \in Proposals /\ proposal.queues = check /\ Fresh(f, proposal)

\* The group of a proposal.
LEMMA ContinuedIs ==
  ASSUME NEW f, GroupsOK(f), NEW check \in Seq(Entries), NEW lfg,
         lfg = {i \in 1..Len(check) : IsLfgGroup(f, check[i])},
         NEW group, group = IF lfg = {} THEN NoGroup ELSE check[Min(lfg)]
  PROVE  /\ group \in Groups \cup {NoGroup} /\ group \in f.lfg \cup {NoGroup}
         /\ group # NoGroup => group \in ToSet(check)
<1>1. CASE lfg = {}
  BY <1>1
<1>2. CASE lfg # {}
  <2>1. lfg \subseteq Nat
    OBVIOUS
  <2>2. Min(lfg) \in lfg
    BY <1>2, <2>1, MinIn
  <2>3. group = check[Min(lfg)]
    BY <1>2
  <2> DEFINE m == Min(lfg)
  <2>4. m \in 1..Len(check) /\ IsLfgGroup(f, check[m])
    BY <2>2
  <2>5. group = check[m]
    BY <2>3
  <2> HIDE DEF m
  <2>6. group \in Groups /\ f.old[group] # "NONE"
    BY <2>4, <2>5 DEF IsLfgGroup
  <2>7. group \in f.lfg
    BY <2>6 DEF GroupsOK
  <2>8. group \in ToSet(check)
    <3>1. DOMAIN check = 1..Len(check)
      OBVIOUS
    <3>2. m \in DOMAIN check
      BY <2>4, <3>1
    <3> QED BY <2>5, <3>2, Zenon DEF ToSet
  <2> QED BY <2>6, <2>7, <2>8
<1> QED BY <1>1, <1>2

\* Who came with which entry.
Came(f, check, entry) ==
  /\ DOMAIN entry = Crowd(f, check)
  /\ \A p \in DOMAIN entry : entry[p] \in ToSet(check) /\ p \in f.data[entry[p]]

LEMMA CameIs ==
  ASSUME NEW f, NEW check, NEW entry,
         entry = [p \in UNION {f.data[e] : e \in ToSet(check)} |-> CHOOSE e \in ToSet(check) : p \in f.data[e]]
  PROVE  Came(f, check, entry)
<1>1. DOMAIN entry = Crowd(f, check)
  BY DEF Crowd
<1>2. ASSUME NEW p \in Crowd(f, check) PROVE entry[p] \in ToSet(check) /\ p \in f.data[entry[p]]
  <2>1. \E e \in ToSet(check) : p \in f.data[e]
    BY DEF Crowd
  <2>2. entry[p] = CHOOSE e \in ToSet(check) : p \in f.data[e]
    BY DEF Crowd
  <2> QED BY <2>1, <2>2
<1> QED BY <1>1, <1>2 DEF Came

\* A proposal of entries that are listed and match.
LEMMA FreshIs ==
  ASSUME NEW f, Core(f), GroupsOK(f), NEW check \in Seq(Entries), IsInjective(check),
         \A e \in ToSet(check) : Listed(f, e), Match(f, check),
         NEW proposal, proposal.queues = check, Came(f, check, proposal.entry),
         DOMAIN proposal.answer = DOMAIN proposal.entry, ~ proposal.announced,
         proposal.group \in f.lfg \cup {NoGroup},
         proposal.group # NoGroup => proposal.group \in ToSet(check)
  PROVE  Fresh(f, proposal)
<1>1. DOMAIN proposal.answer = Crowd(f, check) /\ DOMAIN proposal.entry = Crowd(f, check)
  BY DEF Came
<1>2. \A p \in DOMAIN proposal.entry :
        proposal.entry[p] \in ToSet(check) /\ p \in f.data[proposal.entry[p]]
  BY DEF Came
<1>3. ASSUME NEW p \in DOMAIN proposal.answer, NEW q \in DOMAIN proposal.answer, {p, q} \in Ignoring
      PROVE  proposal.entry[p] = proposal.entry[q]
  <2>1. Len(check) = 1
    BY <1>1, <1>3 DEF Match
  <2>2. \A e \in ToSet(check) : e = check[1]
    BY <2>1 DEF ToSet
  <2> QED BY <1>1, <1>2, <2>2
<1>4. Matched(proposal)
  <2>1. Cardinality(DOMAIN proposal.answer) = GroupSize /\ RolesFit(DOMAIN proposal.answer)
    BY <1>1 DEF Match
  <2> QED BY <1>3, <2>1 DEF Matched
<1>5. DOMAIN proposal.entry = UNION {f.data[e] : e \in ToSet(proposal.queues)}
  BY <1>1 DEF Crowd
<1>6. Sound(f, proposal)
  BY <1>1, <1>2, <1>4, <1>5 DEF Sound
<1> QED BY <1>6 DEF Fresh

LEMMA ProposingIs ==
  ASSUME NEW f, Core(f), GroupsOK(f), NEW x \in Finders, x.data = f.data, x.old = f.old,
         NEW check \in Seq(Entries), IsInjective(check),
         \A e \in ToSet(check) : Listed(f, e), Match(f, check),
         NEW h, h = AddProposal(x, check)
  PROVE  \E proposal : Proposing(f, check, x, proposal, h)
<1> DEFINE lfg    == {i \in 1..Len(check) : IsLfgGroup(x, check[i])}
           group  == IF lfg = {} THEN NoGroup ELSE check[Min(lfg)]
           isNew  == lfg = {} \/ x.old[Head(check)] # "DUNGEON"
           entry  == [p \in UNION {x.data[e] : e \in ToSet(check)} |->
                        CHOOSE e \in ToSet(check) : p \in x.data[e]]
           answer == [p \in DOMAIN entry |->
                        IF ~isNew /\ entry[p] = group THEN "AGREE" ELSE "PENDING"]
           proposal == [queues |-> check, isNew |-> isNew, group |-> group, entry |-> entry,
                        answer |-> answer, announced |-> FALSE]
           u == Unlisted(x, ToSet(check))
           r == Append(u.proposals, proposal)
<1>1. h = [u EXCEPT !.proposals = r]
  BY DEF AddProposal
<1>2. /\ group \in Groups \cup {NoGroup} /\ group \in f.lfg \cup {NoGroup}
      /\ group # NoGroup => group \in ToSet(check)
  <2>1. \A e : IsLfgGroup(x, e) <=> IsLfgGroup(f, e)
    BY DEF IsLfgGroup
  <2>2. lfg = {i \in 1..Len(check) : IsLfgGroup(f, check[i])}
    BY <2>1
  <2>3. group = IF lfg = {} THEN NoGroup ELSE check[Min(lfg)]
    OBVIOUS
  <2> HIDE DEF group, lfg
  <2> QED BY <2>2, <2>3, ContinuedIs
<1>3. Came(f, check, entry)
  <2>1. entry = [p \in UNION {f.data[e] : e \in ToSet(check)} |-> CHOOSE e \in ToSet(check) : p \in f.data[e]]
    OBVIOUS
  <2> HIDE DEF entry
  <2> QED BY <2>1, CameIs
<1>4. answer \in [DOMAIN entry -> {"AGREE", "DENY", "PENDING"}]
  OBVIOUS
<1>5. isNew \in BOOLEAN
  OBVIOUS
<1> HIDE DEF isNew, group, entry, answer, lfg
<1>6. Crowd(f, check) \subseteq Players
  <2>1. f \in Finders /\ Where(f)
    BY CoreIs
  <2>2. f.data \in [DOMAIN f.data -> Crowds]
    BY <2>1, FieldsOf, PartialIs
  <2>3. \A e \in ToSet(check) : e \in DOMAIN f.data
    BY <2>1 DEF Where, ToSet
  <2> QED BY <2>2, <2>3 DEF Crowd, Crowds
<1>7. entry \in Partial(Players, Entries)
  <2>1. DOMAIN entry \subseteq Players
    BY <1>3, <1>6 DEF Came
  <2>2. \A p \in DOMAIN entry : entry[p] \in Entries
    BY <1>3 DEF Came, ToSet
  <2>3. entry = [p \in DOMAIN entry |-> entry[p]]
    BY DEF entry
  <2>4. entry \in [DOMAIN entry -> Entries]
    BY <2>2, <2>3
  <2> QED BY <2>1, <2>4, PartialIs
<1>8. answer \in Partial(Players, {"AGREE", "DENY", "PENDING"})
  <2>1. DOMAIN answer = DOMAIN entry /\ DOMAIN entry \subseteq Players
    BY <1>3, <1>4, <1>6 DEF Came
  <2> QED BY <1>4, <2>1, PartialIs
<1>9. proposal \in Proposals
  BY <1>2, <1>5, <1>7, <1>8 DEF Proposals
<1>10. /\ proposal.queues = check /\ proposal.entry = entry /\ proposal.answer = answer
       /\ proposal.group = group /\ ~ proposal.announced
  OBVIOUS
<1> HIDE DEF proposal
<1>11. Fresh(f, proposal)
  BY <1>2, <1>3, <1>4, <1>10, FreshIs
<1>12. /\ u \in Finders /\ u.state = x.state /\ u.old = x.old
       /\ u.data = x.data /\ u.compatible = x.compatible /\ u.proposals = x.proposals
       /\ u.new = Without(x.new, ToSet(check)) /\ u.current = Without(x.current, ToSet(check))
       /\ PartiesKept(x, u) /\ u.check = x.check
  <2>1. LET k == Unlisted(x, ToSet(check))
        IN  /\ k \in Finders /\ k.state = x.state /\ k.old = x.old
            /\ k.data = x.data /\ k.compatible = x.compatible /\ k.proposals = x.proposals
            /\ k.new = Without(x.new, ToSet(check)) /\ k.current = Without(x.current, ToSet(check))
            /\ PartiesKept(x, k) /\ k.check = x.check
    BY UnlistedIs
  <2> QED BY <2>1
<1> HIDE DEF u
<1>13. r \in Seq(Proposals) /\ r = Append(x.proposals, proposal)
  BY <1>9, <1>12, FieldsOf, AppendIs
<1> HIDE DEF r
<1>14. h = WithProposals(u, r)
  BY <1>1 DEF WithProposals
<1>15. LET k == WithProposals(u, r)
       IN  /\ k \in Finders /\ k.state = u.state /\ k.old = u.old
           /\ k.data = u.data /\ k.new = u.new /\ k.current = u.current
           /\ k.compatible = u.compatible /\ k.proposals = r
           /\ PartiesKept(u, k) /\ k.check = u.check
  BY <1>12, <1>13, ProposalsWith
<1>16. /\ h \in Finders /\ h.state = u.state /\ h.old = u.old
       /\ h.data = u.data /\ h.new = u.new /\ h.current = u.current
       /\ h.compatible = u.compatible /\ h.proposals = r
       /\ PartiesKept(u, h) /\ h.check = u.check
  BY <1>14, <1>15
<1>17. PartiesKept(x, h)
  BY <1>12, <1>16 DEF PartiesKept
<1>18. Proposing(f, check, x, proposal, h)
  BY <1>9, <1>10, <1>11, <1>12, <1>13, <1>16, <1>17 DEF Proposing
<1> QED BY <1>18

\* The proposals made since.
NewOnes(f, x) == (Len(f.proposals) + 1)..Len(x.proposals)

Taken(f, x, e) == \E j \in NewOnes(f, x) : e \in ToSet(x.proposals[j].queues)

\* The search that began with f has come to x, with the entries U in its hands.
Searched(f, U, x) ==
  /\ x \in Finders /\ x.state = f.state /\ x.old = f.old /\ x.data = f.data /\ x.check = f.check
  /\ PartiesKept(f, x)
  /\ Len(f.proposals) <= Len(x.proposals)
  /\ \A j \in 1..Len(f.proposals) : x.proposals[j] = f.proposals[j]
  /\ \A j \in NewOnes(f, x) : Fresh(f, x.proposals[j])
  /\ \A e : Listed(x, e) <=> Listed(f, e) /\ e \notin U /\ ~ Taken(f, x, e)
  /\ IsInjective(x.new \o x.current)
  /\ CacheOK(x)

\* It looks for others for the entry front among the entries C, and has come to
\* know something of it with the entries T only.
Trying(f, front, C, T, x) ==
  /\ Searched(f, {front}, x)
  /\ ~ Taken(f, x, front)
  /\ T \subseteq C
  /\ \A e \in C : Listed(f, e) /\ e \notin ToSet(x.new)
  /\ \A set \in DOMAIN x.compatible : front \in set => set \subseteq T

\* The search goes on and has cached something of some entries.
LEMMA SearchedCached ==
  ASSUME NEW f, Core(f), NEW U, NEW x, Searched(f, U, x), NEW check \in Seq(Entries),
         \A e \in ToSet(check) : Listed(f, e) /\ e \notin ToSet(x.new),
         NEW result \in Verdicts, NEW h, h = SetCompatibles(x, check, result)
  PROVE  /\ Searched(f, U, h) /\ h.new = x.new /\ h.proposals = x.proposals
         /\ DOMAIN h.compatible = DOMAIN x.compatible \cup {ToSet(check)}
<1>1. f \in Finders /\ x \in Finders /\ Where(f)
  BY CoreIs DEF Searched
<1>2. /\ h \in Finders /\ h.state = x.state /\ h.old = x.old
      /\ h.data = x.data /\ h.new = x.new /\ h.current = x.current
      /\ DOMAIN h.compatible = DOMAIN x.compatible \cup {ToSet(check)}
      /\ h.proposals = x.proposals
      /\ PartiesKept(x, h) /\ h.check = x.check
  BY <1>1, SetCompatiblesIs
<1>3. \A e : Listed(h, e) <=> Listed(x, e)
  BY <1>2 DEF Listed
<1>4. NewOnes(f, h) = NewOnes(f, x) /\ \A e : Taken(f, h, e) <=> Taken(f, x, e)
  BY <1>2 DEF NewOnes, Taken
<1>5. PartiesKept(f, h)
  BY <1>2 DEF Searched, PartiesKept
<1>6. CacheOK(h)
  <2> SUFFICES ASSUME NEW set \in DOMAIN h.compatible
               PROVE  set \subseteq DOMAIN h.data /\ set \cap ToSet(h.new) = {}
    BY DEF CacheOK
  <2>1. CASE set \in DOMAIN x.compatible
    BY <1>2, <2>1 DEF Searched, CacheOK
  <2>2. CASE set = ToSet(check)
    <3>1. \A e \in set : e \in Entries /\ Listed(f, e) /\ e \notin ToSet(x.new)
      BY <2>2 DEF ToSet
    <3>2. \A e \in set : e \in DOMAIN f.data
      BY <1>1, <3>1 DEF Where
    <3> QED BY <1>2, <3>1, <3>2 DEF Searched
  <2> QED BY <1>2, <2>1, <2>2
<1>7. Searched(f, U, h)
  BY <1>2, <1>3, <1>4, <1>5, <1>6 DEF Searched
<1> QED BY <1>2, <1>7

SameElse(U, V, check) ==
  \A e : (e \in U \/ e \in ToSet(check)) <=> (e \in V \/ e \in ToSet(check))

\* The search goes on and has made a proposal.
LEMMA SearchedProposed ==
  ASSUME NEW f, Core(f), NEW U, NEW x, Searched(f, U, x), NEW check \in Seq(Entries),
         NEW proposal, NEW h, Proposing(f, check, x, proposal, h),
         NEW V, SameElse(U, V, check)
  PROVE  /\ Searched(f, V, h) /\ ToSet(h.new) \subseteq ToSet(x.new) /\ h.compatible = x.compatible
         /\ \A e : Taken(f, h, e) <=> Taken(f, x, e) \/ e \in ToSet(check)
<1>1. f \in Finders /\ x \in Finders /\ f.proposals \in Seq(Proposals) /\ x.proposals \in Seq(Proposals)
  BY CoreIs, FieldsOf DEF Searched
<1>2. /\ h \in Finders /\ h.state = x.state /\ h.old = x.old
      /\ h.data = x.data /\ h.compatible = x.compatible
      /\ h.new = Without(x.new, ToSet(check)) /\ h.current = Without(x.current, ToSet(check))
      /\ PartiesKept(x, h) /\ h.check = x.check
      /\ h.proposals = Append(x.proposals, proposal)
      /\ proposal \in Proposals /\ proposal.queues = check /\ Fresh(f, proposal)
  BY DEF Proposing
<1> DEFINE n == Len(x.proposals)
<1>3. n \in Nat /\ Len(f.proposals) \in Nat /\ Len(f.proposals) <= n /\ Len(h.proposals) = n + 1
  BY <1>1, <1>2 DEF Searched
<1>4. h.proposals[n + 1] = proposal /\ \A j \in 1..n : h.proposals[j] = x.proposals[j]
  BY <1>1, <1>2
<1> HIDE DEF n
<1>5. \A j : j \in NewOnes(f, h) <=> j \in NewOnes(f, x) \/ j = n + 1
  BY <1>3 DEF NewOnes, n
<1>6. \A j \in NewOnes(f, x) : j \in 1..n
  BY <1>3 DEF NewOnes, n
<1>7. \A e : Taken(f, h, e) <=> Taken(f, x, e) \/ e \in ToSet(check)
  <2>1. ASSUME NEW e PROVE Taken(f, h, e) => Taken(f, x, e) \/ e \in ToSet(check)
    <3> SUFFICES ASSUME NEW j \in NewOnes(f, h), e \in ToSet(h.proposals[j].queues)
                 PROVE  Taken(f, x, e) \/ e \in ToSet(check)
      BY DEF Taken
    <3> QED BY <1>2, <1>4, <1>5, <1>6 DEF Taken
  <2>2. ASSUME NEW e, Taken(f, x, e) PROVE Taken(f, h, e)
    <3>1. PICK j \in NewOnes(f, x) : e \in ToSet(x.proposals[j].queues)
      BY <2>2 DEF Taken
    <3>2. j \in NewOnes(f, h) /\ h.proposals[j] = x.proposals[j]
      BY <1>4, <1>5, <1>6
    <3> QED BY <3>1, <3>2 DEF Taken
  <2>3. ASSUME NEW e, e \in ToSet(check) PROVE Taken(f, h, e)
    <3>1. n + 1 \in NewOnes(f, h) /\ e \in ToSet(h.proposals[n + 1].queues)
      BY <1>2, <1>4, <1>5, <2>3
    <3> QED BY <3>1 DEF Taken
  <2> QED BY <2>1, <2>2, <2>3
<1>8. /\ IsInjective(h.new \o h.current)
      /\ ToSet(h.new) = ToSet(x.new) \ ToSet(check)
      /\ \A e : Listed(h, e) <=> Listed(x, e) /\ e \notin ToSet(check)
  <2>1. IsInjective(x.new \o x.current)
    BY DEF Searched
  <2>2. Delisted(x, ToSet(check), h)
    BY <1>1, <1>2, <2>1, DelistedIs
  <2> QED BY <2>2 DEF Delisted
<1>9. \A e : Listed(h, e) <=> Listed(f, e) /\ e \notin V /\ ~ Taken(f, h, e)
  <2>1. \A e : Listed(x, e) <=> Listed(f, e) /\ e \notin U /\ ~ Taken(f, x, e)
    BY DEF Searched
  <2> QED BY <1>7, <1>8, <2>1 DEF SameElse
<1>10. CacheOK(h)
  BY <1>2, <1>8 DEF CacheOK, Searched
<1>11. \A j \in NewOnes(f, h) : Fresh(f, h.proposals[j])
  BY <1>2, <1>4, <1>5, <1>6 DEF Searched
<1>12. \A j \in 1..Len(f.proposals) : h.proposals[j] = f.proposals[j]
  BY <1>3, <1>4 DEF Searched
<1>13. PartiesKept(f, h)
  BY <1>2 DEF Searched, PartiesKept
<1>14. Len(f.proposals) <= Len(h.proposals)
  BY <1>3
<1>15. Searched(f, V, h)
  <2>1. h.state = f.state /\ h.old = f.old /\ h.data = f.data /\ h.check = f.check /\ h \in Finders
    BY <1>2 DEF Searched
  <2> QED BY <1>8, <1>9, <1>10, <1>11, <1>12, <1>13, <1>14, <2>1 DEF Searched
<1> QED BY <1>2, <1>7, <1>8, <1>15

\* Some sets of which no two share an element, and their sizes.
Sized(n, d, size) ==
  /\ \A i \in 1..n : IsFiniteSet(d[i])
  /\ \A i, j \in 1..n : i # j => d[i] \cap d[j] = {}
  /\ \A i \in 1..n : size[i] = Cardinality(d[i])

Counted(n, d, size) == SumFunctionOnSet(size, 1..n) = Cardinality(UNION {d[i] : i \in 1..n})

\* How many are in some entries of which no two share a player.
LEMMA PeopleIs ==
  ASSUME NEW n \in Nat, NEW d, NEW size, Sized(n, d, size)
  PROVE  Counted(n, d, size)
<1>0. /\ \A i \in 1..n : IsFiniteSet(d[i])
      /\ \A i, j \in 1..n : i # j => d[i] \cap d[j] = {}
      /\ \A i \in 1..n : size[i] = Cardinality(d[i])
  BY DEF Sized
<1> DEFINE U(i) == UNION {d[j] : j \in 1..i}
           I == {i \in 0..n : IsFiniteSet(U(i)) /\ SumFunctionOnSet(size, 1..i) = Cardinality(U(i))}
<1>1. 0 \in I
  <2>1. U(0) = {} /\ 1..0 = {}
    OBVIOUS
  <2>2. IsFiniteSet({}) /\ Cardinality({}) = 0
    BY FS_EmptySet
  <2>3. SumFunctionOnSet(size, {}) = 0
    BY SumOfNone
  <2> HIDE DEF U
  <2>4. IsFiniteSet(U(0)) /\ SumFunctionOnSet(size, 1..0) = Cardinality(U(0))
    BY <2>1, <2>2, <2>3
  <2> QED BY <2>4
<1>2. ASSUME NEW i \in 0..(n - 1), i \in I PROVE i + 1 \in I
  <2> DEFINE k == i + 1
  <2>1. k \in 1..n /\ k - 1 = i
    OBVIOUS
  <2> HIDE DEF k
  <2>2. U(k) = U(i) \cup d[k]
    <3>1. \A j : j \in 1..k <=> j \in 1..i \/ j = k
      BY <2>1
    <3> QED BY <3>1
  <2>3. U(i) \cap d[k] = {}
    <3> SUFFICES ASSUME NEW j \in 1..i PROVE d[j] \cap d[k] = {}
      OBVIOUS
    <3>1. j \in 1..n /\ j # k
      BY <2>1
    <3> QED BY <1>0, <2>1, <3>1
  <2>4. IsFiniteSet(U(i)) /\ SumFunctionOnSet(size, 1..i) = Cardinality(U(i))
    BY <1>2
  <2> HIDE DEF U
  <2>5. IsFiniteSet(d[k]) /\ size[k] = Cardinality(d[k])
    BY <1>0, <2>1
  <2>6. IsFiniteSet(U(k)) /\ Cardinality(U(k)) = Cardinality(U(i)) + Cardinality(d[k])
    <3>1. /\ IsFiniteSet(U(i) \cup d[k])
          /\ Cardinality(U(i) \cup d[k]) = Cardinality(U(i)) + Cardinality(d[k]) - Cardinality(U(i) \cap d[k])
      BY <2>4, <2>5, FS_Union
    <3>2. Cardinality({}) = 0
      BY FS_EmptySet
    <3>3. Cardinality(U(i)) \in Nat /\ Cardinality(d[k]) \in Nat
      BY <2>4, <2>5, FS_CardinalityType
    <3> DEFINE u == Cardinality(U(i))  c == Cardinality(d[k])  o == Cardinality(U(i) \cap d[k])
               both == U(i) \cup d[k]
    <3>4. o = 0
      BY <2>3, <3>2
    <3>5. IsFiniteSet(both) /\ Cardinality(both) = u + c - o
      BY <3>1
    <3>6. u \in Nat /\ c \in Nat
      BY <3>3
    <3> HIDE DEF u, c, o
    <3>7. u + c - o = u + c
      BY <3>4, <3>6
    <3>8. U(k) = both
      BY <2>2
    <3> HIDE DEF both
    <3>9. IsFiniteSet(U(k)) /\ Cardinality(U(k)) = u + c
      BY <3>5, <3>7, <3>8
    <3> QED BY <3>9 DEF u, c
  <2>7. SumFunctionOnSet(size, 1..k) = size[k] + SumFunctionOnSet(size, (1..k) \ {k})
    <3>1. IsFiniteSet(1..k)
      BY <2>1, FS_Interval
    <3>2. \A j \in 1..k : size[j] \in Int
      <4> SUFFICES ASSUME NEW j \in 1..k PROVE size[j] \in Int
        OBVIOUS
      <4>1. j \in 1..n
        BY <2>1
      <4>2. Cardinality(d[j]) \in Nat
        BY <1>0, <4>1, FS_CardinalityType
      <4> QED BY <1>0, <4>1, <4>2
    <3>3. k \in 1..k
      BY <2>1
    <3> QED BY <3>1, <3>2, <3>3, SumWithout
  <2>8. (1..k) \ {k} = 1..i
    BY <2>1
  <2>9. Cardinality(U(i)) \in Nat /\ Cardinality(d[k]) \in Nat
    BY <2>4, <2>5, FS_CardinalityType
  <2>10. SumFunctionOnSet(size, 1..k) = Cardinality(U(k))
    <3> DEFINE u == Cardinality(U(i))  c == Cardinality(d[k])
    <3>1. SumFunctionOnSet(size, 1..k) = c + u
      BY <2>4, <2>5, <2>7, <2>8
    <3>2. Cardinality(U(k)) = u + c /\ u \in Nat /\ c \in Nat
      BY <2>6, <2>9
    <3> HIDE DEF u, c
    <3>3. c + u = u + c
      BY <3>2
    <3> QED BY <3>1, <3>2, <3>3
  <2>11. k \in 0..n
    BY <2>1
  <2>12. k \in I
    BY <2>6, <2>10, <2>11
  <2> QED BY <2>12 DEF k
<1> HIDE DEF I
<1>3. \A i \in 0..n : i \in I
  BY <1>1, <1>2, UpTo
<1>4. n \in I
  BY <1>3
<1> QED BY <1>4 DEF I, Counted

\* The first entry and all others are counted when none is too much.
LEMMA AllVisited ==
  ASSUME NEW n \in Nat, n > 0, NEW lfg, NEW people, lfg[0] = 0, people[0] = 0,
         NEW visited, visited = {i \in 1..n : lfg[i - 1] < 2 /\ people[i - 1] <= GroupSize},
         NEW last, last = Max(visited), ~ (lfg[last] > 1), people[last] = GroupSize,
         \A i \in 0..n : lfg[i] \in Nat
  PROVE  last = n
<1>1. GroupSize \in Nat
  BY QueueAssumption
<1>2. 1 \in visited
  <2>1. 1 \in 1..n /\ 1 - 1 = 0
    OBVIOUS
  <2> QED BY <1>1, <2>1
<1>3. last \in visited /\ \A y \in visited : y <= last
  BY <1>2, MaxIn
<1>4. ASSUME last # n PROVE FALSE
  <2> DEFINE k == last + 1
  <2>1. k \in 1..n /\ k - 1 = last /\ last \in 0..n
    BY <1>3, <1>4
  <2>2. k \notin visited
    BY <1>3, <2>1
  <2> HIDE DEF k
  <2>3. lfg[last] < 2 /\ people[last] <= GroupSize
    BY <1>1, <2>1
  <2> QED BY <2>1, <2>2, <2>3
<1> QED BY <1>4

\* Entries that are listed are apart, and how many are in them can be counted.
LEMMA ListedApart ==
  ASSUME NEW f, Core(f), NEW check \in Seq(Entries), IsInjective(check),
         \A e \in ToSet(check) : Listed(f, e)
  PROVE  \A i \in 1..Len(check) :
           /\ check[i] \in Entries /\ check[i] \in ToSet(check) /\ check[i] \in DOMAIN f.data
           /\ f.data[check[i]] = Folk(f, check[i]) /\ f.state[check[i]] = "QUEUED"
           /\ IsFiniteSet(f.data[check[i]])
           /\ \A j \in 1..Len(check) : i # j => f.data[check[i]] \cap f.data[check[j]] = {}
<1>1. f \in Finders /\ PartiesApart(f) /\ Where(f) /\ Known(f)
  BY CoreIs
<1>2. ASSUME NEW i \in 1..Len(check)
      PROVE  /\ check[i] \in Entries /\ check[i] \in ToSet(check) /\ check[i] \in DOMAIN f.data
             /\ f.data[check[i]] = Folk(f, check[i]) /\ f.state[check[i]] = "QUEUED"
             /\ IsEntry(f, check[i])
  <2>1. check[i] \in Entries /\ check[i] \in ToSet(check)
    BY DEF ToSet
  <2>2. IsEntry(f, check[i]) /\ f.state[check[i]] = "QUEUED" /\ check[i] \in DOMAIN f.data
    BY <1>1, <2>1 DEF Where
  <2> QED BY <1>1, <2>1, <2>2 DEF Known
<1>3. ASSUME NEW i \in 1..Len(check) PROVE IsFiniteSet(f.data[check[i]])
  <2>1. f.data[check[i]] \subseteq Players
    BY <1>1, <1>2, FolkIs
  <2> QED BY <2>1, QueueAssumption, FS_Subset
<1>4. ASSUME NEW i \in 1..Len(check), NEW j \in 1..Len(check), i # j
      PROVE  f.data[check[i]] \cap f.data[check[j]] = {}
  <2>1. check[i] # check[j]
    BY <1>4 DEF IsInjective
  <2> QED BY <1>1, <1>2, <2>1, FolkApart
<1> QED BY <1>2, <1>3, <1>4

\* The entries of a list that are counted as one group.
LEMMA Together ==
  ASSUME NEW f, Core(f), NEW check \in Seq(Entries), IsInjective(check),
         \A e \in ToSet(check) : Listed(f, e), NEW size,
         \A i \in 1..Len(check) : size[i] = Cardinality(f.data[check[i]])
  PROVE  SumFunctionOnSet(size, 1..Len(check)) = Cardinality(Crowd(f, check))
<1> DEFINE n == Len(check)
           d == [i \in 1..n |-> f.data[check[i]]]
<1>1. n \in Nat
  OBVIOUS
<1>2. Sized(n, d, size)
  BY ListedApart DEF Sized
<1>3. UNION {d[i] : i \in 1..n} = Crowd(f, check)
  BY DEF Crowd, ToSet
<1> HIDE DEF d
<1>4. Counted(n, d, size)
  BY <1>1, <1>2, PeopleIs
<1> QED BY <1>3, <1>4 DEF Counted

\* What the queue finds of entries that are listed.
Finding(f, check, r) ==
  /\ r \in Verdicts \ {"BAD_STATES"}
  /\ r = "MATCH" => Match(f, check)

LEMMA CompatibilityIs ==
  ASSUME NEW f, Core(f), NEW x, x.data = f.data, x.state = f.state,
         NEW check \in Seq(Entries), check # <<>>, IsInjective(check),
         \A e \in ToSet(check) : Listed(f, e)
  PROVE  \E r : Finding(f, check, r) /\ CompatibilityOf(x, check) = Found(x, check, r)
<1> DEFINE n == Len(check)
           size == [i \in 1..Len(check) |-> Cardinality(PlayersOf(x, check[i]))]
           people(i) == SumFunctionOnSet(size, 1..i)
           lfg(i) == Cardinality({j \in 1..i : IsLfgGroup(x, check[j])})
           visited == {i \in 1..Len(check) : lfg(i - 1) < 2 /\ people(i - 1) <= GroupSize}
           missing == {i \in visited : check[i] \notin DOMAIN x.data}
           last == Max(visited)
           alone == Len(check) = 1
           r == IF alone /\ people(last) # GroupSize THEN "LESS"
                ELSE IF lfg(last) > 1 THEN "MULTIPLE"
                ELSE IF people(last) > GroupSize THEN "TOO_MUCH"
                ELSE IF ~alone /\ ~GetAlong(x, check) THEN "IGNORES"
                ELSE IF ~alone /\ ~RolesFit(UNION {x.data[e] : e \in ToSet(check)}) THEN "NO_ROLES"
                ELSE IF people(last) # GroupSize THEN "LESS"
                ELSE IF ~AllQueued(x, check) THEN "BAD_STATES"
                ELSE "MATCH"
<1>1. f \in Finders /\ Where(f) /\ Known(f)
  BY CoreIs
<1>2. \A i \in 1..Len(check) :
        /\ check[i] \in Entries /\ check[i] \in ToSet(check) /\ check[i] \in DOMAIN f.data
        /\ f.data[check[i]] = Folk(f, check[i]) /\ f.state[check[i]] = "QUEUED"
        /\ IsFiniteSet(f.data[check[i]])
        /\ \A j \in 1..Len(check) : i # j => f.data[check[i]] \cap f.data[check[j]] = {}
  BY ListedApart
<1>3. visited \subseteq 1..n
  OBVIOUS
<1>4. CompatibilityOf(x, check) = IF missing # {}
        THEN [f |-> RemoveFromQueue(x, {check[Min(missing)]}), is |-> "PENDING"]
        ELSE Found(x, check, r)
  BY DEF CompatibilityOf
<1> HIDE DEF visited
<1>5. missing = {}
  BY <1>2, <1>3
<1> HIDE DEF missing
<1>6. CompatibilityOf(x, check) = Found(x, check, r)
  BY <1>4, <1>5
<1>7. AllQueued(x, check)
  BY <1>2 DEF AllQueued, ToSet
<1>8. n \in Nat /\ n > 0
  BY DEF n
<1>9. \A i \in 1..n : size[i] = Cardinality(f.data[check[i]])
  BY <1>2 DEF PlayersOf
<1>10. people(n) = Cardinality(Crowd(f, check))
  <2> HIDE DEF size
  <2> QED BY <1>9, Together
<1> HIDE DEF size
<1>11. \A i \in 0..n : lfg(i) \in Nat
  <2> SUFFICES ASSUME NEW i \in 0..n PROVE lfg(i) \in Nat
    OBVIOUS
  <2>1. IsFiniteSet(1..i)
    BY FS_Interval
  <2>2. IsFiniteSet({j \in 1..i : IsLfgGroup(x, check[j])})
    BY <2>1, FS_Subset
  <2> QED BY <2>2, FS_CardinalityType
<1>12. lfg(0) = 0 /\ people(0) = 0
  <2>1. 1..0 = {}
    OBVIOUS
  <2>2. {j \in 1..0 : IsLfgGroup(x, check[j])} = {}
    BY <2>1
  <2>3. Cardinality({}) = 0
    BY FS_EmptySet
  <2>4. SumFunctionOnSet(size, {}) = 0
    BY SumOfNone
  <2> QED BY <2>1, <2>2, <2>3, <2>4
<1>13. ASSUME ~ (lfg(last) > 1), people(last) = GroupSize
       PROVE  last = n
  <2> DEFINE l == [i \in 0..n |-> lfg(i)]
             k == [i \in 0..n |-> people(i)]
  <2>1. last \in visited /\ last \in 0..n
    <3>1. 1 \in visited
      <4>1. 1 \in 1..n /\ 1 - 1 = 0
        BY <1>8
      <4>2. lfg(0) < 2 /\ people(0) <= GroupSize
        BY <1>12, QueueAssumption
      <4> HIDE DEF lfg, people
      <4> QED BY <4>1, <4>2 DEF visited
    <3>2. visited # {}
      BY <3>1
    <3> HIDE DEF n
    <3>3. Max(visited) \in visited
      BY <1>3, <1>8, <3>2, MaxIn
    <3>4. last \in visited
      BY <3>3
    <3> HIDE DEF last
    <3> QED BY <1>3, <1>8, <3>4
  <2> HIDE DEF last
  <2>2. l[0] = 0 /\ k[0] = 0 /\ \A i \in 0..n : l[i] = lfg(i) /\ k[i] = people(i)
    BY <1>8, <1>12
  <2> HIDE DEF lfg, people, l, k
  <2>3. visited = {i \in 1..n : l[i - 1] < 2 /\ k[i - 1] <= GroupSize}
    <3>1. \A i \in 1..n : i - 1 \in 0..n
      BY <1>8
    <3> QED BY <2>2, <3>1 DEF visited
  <2>4. ~ (l[last] > 1) /\ k[last] = GroupSize /\ \A i \in 0..n : l[i] \in Nat
    BY <1>11, <1>13, <2>1, <2>2
  <2>5. last = Max(visited)
    BY DEF last
  <2> HIDE DEF n
  <2> QED BY <1>8, <2>2, <2>3, <2>4, <2>5, AllVisited
<1> HIDE DEF people, lfg, last
<1>14. r \in Verdicts \ {"BAD_STATES"}
  BY <1>7 DEF Verdicts
<1>15. ASSUME r = "MATCH" PROVE Match(f, check)
  <2>1. /\ ~ (lfg(last) > 1) /\ people(last) = GroupSize
        /\ alone \/ GetAlong(x, check)
        /\ alone \/ RolesFit(UNION {x.data[e] : e \in ToSet(check)})
    BY <1>15
  <2> HIDE DEF r
  <2>2. Cardinality(Crowd(f, check)) = GroupSize
    BY <1>10, <1>13, <2>1
  <2>3. CASE ~ alone
    <3>1. RolesFit(Crowd(f, check))
      BY <2>1, <2>3 DEF Crowd
    <3>2. \A p, q \in Crowd(f, check) : {p, q} \notin Ignoring
      BY <2>1, <2>3 DEF Crowd, GetAlong
    <3> QED BY <2>2, <3>1, <3>2 DEF Match
  <2>4. CASE alone
    <3> DEFINE e == check[1]
    <3>1. Crowd(f, check) = f.data[e]
      BY <2>4 DEF Crowd, ToSet
    <3>2. e \in Entries /\ e \in DOMAIN f.data /\ f.data[e] = Folk(f, e)
      BY <1>2, <1>8
    <3> HIDE DEF e
    <3>3. e \in Groups
      <4> SUFFICES ASSUME e \notin Groups PROVE FALSE
        OBVIOUS
      <4>1. f.data[e] = {e}
        BY <3>2 DEF Folk
      <4>2. Cardinality({e}) = 1
        BY FS_Singleton
      <4> QED BY <2>2, <3>1, <4>1, <4>2, QueueAssumption
    <3>4. RolesFit(f.data[e])
      BY <1>1, <3>2, <3>3 DEF Known
    <3> QED BY <2>2, <2>4, <3>1, <3>4 DEF Match
  <2> QED BY <2>3, <2>4
<1>16. Finding(f, check, r)
  BY <1>14, <1>15 DEF Finding
<1> HIDE DEF r
<1> QED BY <1>6, <1>16

-----------------------------------------------------------------------------
\* The search while it looks for others for front: when it has found a group of
\* which front is one, it is done with front.
Trial(f, front, C, T, check, is, x) ==
  IF is = "MATCH" /\ front \in ToSet(check) THEN Searched(f, {}, x) ELSE Trying(f, front, C, T, x)

Results == [f : Finders, is : Verdicts \ {"BAD_STATES"}]

Judged(f, front, C, T, check, c) ==
  c \in Results /\ Trial(f, front, C, T, check, c.is, c.f)

\* The entries in question.
Candidates(f, front, C, T, check) ==
  /\ check \in Seq(Entries) /\ check # <<>> /\ IsInjective(check)
  /\ ToSet(check) \subseteq C
  /\ front \in ToSet(check) => ToSet(check) \subseteq T

\* A match is proposed.
LEMMA MatchJudged ==
  ASSUME NEW f, Core(f), GroupsOK(f), NEW front, NEW C, NEW T, NEW x, Trying(f, front, C, T, x),
         NEW check, Candidates(f, front, C, T, check), Match(f, check),
         NEW h, h = AddProposal(x, check)
  PROVE  /\ Trial(f, front, C, T, check, "MATCH", h)
         /\ h.compatible = x.compatible /\ ToSet(h.new) \subseteq ToSet(x.new)
<1>1. /\ Searched(f, {front}, x) /\ ~ Taken(f, x, front) /\ T \subseteq C
      /\ \A e \in C : Listed(f, e) /\ e \notin ToSet(x.new)
      /\ \A set \in DOMAIN x.compatible : front \in set => set \subseteq T
  BY DEF Trying
<1>2. /\ check \in Seq(Entries) /\ check # <<>> /\ IsInjective(check)
      /\ ToSet(check) \subseteq C
  BY DEF Candidates
<1>3. \A e \in ToSet(check) : Listed(f, e)
  BY <1>1, <1>2
<1>4. x \in Finders /\ x.data = f.data /\ x.old = f.old
  BY <1>1 DEF Searched
<1>5. PICK proposal : Proposing(f, check, x, proposal, h)
  BY <1>2, <1>3, <1>4, ProposingIs
<1>6. CASE front \in ToSet(check)
  <2> DEFINE U == {front}  V == {}
  <2>1. SameElse(U, V, check)
    BY <1>6 DEF SameElse
  <2>2. Searched(f, U, x)
    BY <1>1
  <2> HIDE DEF U, V
  <2>3. Searched(f, V, h) /\ ToSet(h.new) \subseteq ToSet(x.new) /\ h.compatible = x.compatible
    BY <1>2, <1>5, <2>1, <2>2, SearchedProposed
  <2> QED BY <1>6, <2>3 DEF Trial, V
<1>7. CASE front \notin ToSet(check)
  <2>1. SameElse({front}, {front}, check)
    BY DEF SameElse
  <2>2. /\ Searched(f, {front}, h) /\ ToSet(h.new) \subseteq ToSet(x.new) /\ h.compatible = x.compatible
        /\ \A e : Taken(f, h, e) <=> Taken(f, x, e) \/ e \in ToSet(check)
    BY <1>1, <1>2, <1>5, <2>1, SearchedProposed
  <2>3. Trying(f, front, C, T, h)
    BY <1>1, <1>7, <2>2 DEF Trying
  <2> QED BY <1>7, <2>2, <2>3 DEF Trial
<1> QED BY <1>6, <1>7

\* What is found of some entries is remembered.
LEMMA TrialCached ==
  ASSUME NEW f, Core(f), NEW front, NEW C, NEW T, NEW is, NEW x,
         NEW check, Candidates(f, front, C, T, check), Trial(f, front, C, T, check, is, x),
         \A e \in C : Listed(f, e) /\ e \notin ToSet(x.new),
         NEW result \in Verdicts, NEW h, h = SetCompatibles(x, check, result)
  PROVE  Trial(f, front, C, T, check, is, h)
<1>1. /\ check \in Seq(Entries) /\ ToSet(check) \subseteq C
      /\ front \in ToSet(check) => ToSet(check) \subseteq T
  BY DEF Candidates
<1>2. \A e \in ToSet(check) : Listed(f, e) /\ e \notin ToSet(x.new)
  BY <1>1
<1>3. CASE is = "MATCH" /\ front \in ToSet(check)
  <2>1. Searched(f, {}, x)
    BY <1>3 DEF Trial
  <2>2. Searched(f, {}, h)
    BY <1>1, <1>2, <2>1, SearchedCached
  <2> QED BY <1>3, <2>2 DEF Trial
<1>4. CASE ~ (is = "MATCH" /\ front \in ToSet(check))
  <2>1. Trying(f, front, C, T, x)
    BY <1>4 DEF Trial
  <2>2. /\ Searched(f, {front}, x) /\ ~ Taken(f, x, front) /\ T \subseteq C
        /\ \A set \in DOMAIN x.compatible : front \in set => set \subseteq T
    BY <2>1 DEF Trying
  <2>3. /\ Searched(f, {front}, h) /\ h.new = x.new /\ h.proposals = x.proposals
        /\ DOMAIN h.compatible = DOMAIN x.compatible \cup {ToSet(check)}
    BY <1>1, <1>2, <2>2, SearchedCached
  <2>4. ~ Taken(f, h, front)
    BY <2>2, <2>3 DEF Taken, NewOnes
  <2>5. \A set \in DOMAIN h.compatible : front \in set => set \subseteq T
    BY <1>1, <2>2, <2>3
  <2>6. Trying(f, front, C, T, h)
    BY <2>2, <2>3, <2>4, <2>5 DEF Trying
  <2> QED BY <1>4, <2>6 DEF Trial
<1> QED BY <1>3, <1>4

LEMMA FoundJudged ==
  ASSUME NEW f, Core(f), GroupsOK(f), NEW front, NEW C, NEW T, NEW x, Trying(f, front, C, T, x),
         NEW check, Candidates(f, front, C, T, check), NEW r, Finding(f, check, r),
         NEW c, c = Found(x, check, r)
  PROVE  Judged(f, front, C, T, check, c)
<1> DEFINE y == IF r = "MATCH" THEN AddProposal(x, check) ELSE x
           h == SetCompatibles(y, check, r)
<1>1. c.f = h /\ c.is = r
  BY DEF Found
<1>2. r \in Verdicts /\ r # "BAD_STATES" /\ (r = "MATCH" => Match(f, check))
  BY DEF Finding
<1>3. \A e \in C : Listed(f, e) /\ e \notin ToSet(x.new)
  BY DEF Trying
<1>4. Trial(f, front, C, T, check, r, y) /\ \A e \in C : Listed(f, e) /\ e \notin ToSet(y.new)
  <2>1. CASE r = "MATCH"
    <3> DEFINE z == AddProposal(x, check)
    <3>1. Match(f, check)
      BY <1>2, <2>1
    <3>2. y = z
      BY <2>1
    <3> HIDE DEF y
    <3>3. z = AddProposal(x, check)
      OBVIOUS
    <3> HIDE DEF z
    <3>4. Trial(f, front, C, T, check, "MATCH", z) /\ ToSet(z.new) \subseteq ToSet(x.new)
      BY <3>1, <3>3, MatchJudged
    <3> QED BY <1>3, <2>1, <3>2, <3>4
  <2>2. CASE r # "MATCH"
    <3>1. y = x
      BY <2>2
    <3> HIDE DEF y
    <3> QED BY <1>3, <2>2, <3>1 DEF Trial
  <2> QED BY <2>1, <2>2
<1> HIDE DEF y
<1>5. h = SetCompatibles(y, check, r)
  OBVIOUS
<1> HIDE DEF h
<1>6. Trial(f, front, C, T, check, r, h)
  BY <1>2, <1>4, <1>5, TrialCached
<1>7. c = [f |-> h, is |-> r]
  BY DEF Found, h, y
<1>8. h \in Finders
  BY <1>6 DEF Trial, Trying, Searched
<1> QED BY <1>1, <1>2, <1>6, <1>7, <1>8 DEF Judged, Results

LEMMA JudgeKeeps ==
  ASSUME NEW f, Core(f), GroupsOK(f), NEW front, NEW C, NEW T,
         NEW tail, tail.is \in Verdicts \ {"BAD_STATES"}, Trying(f, front, C, T, tail.f),
         NEW check, Candidates(f, front, C, T, check), NEW c, c = Judge(tail, check)
  PROVE  Judged(f, front, C, T, check, c)
<1> DEFINE x == tail.f
<1>1. /\ Searched(f, {front}, x) /\ T \subseteq C
      /\ \A e \in C : Listed(f, e) /\ e \notin ToSet(x.new)
  BY DEF Trying
<1>2. /\ check \in Seq(Entries) /\ check # <<>> /\ IsInjective(check)
      /\ ToSet(check) \subseteq C
  BY DEF Candidates
<1>3. x.data = f.data /\ x.state = f.state /\ Trying(f, front, C, T, x)
  BY <1>1 DEF Searched
<1>4. \A e \in ToSet(check) : Listed(f, e)
  BY <1>1, <1>2
<1>5. CASE tail.is \in {"LESS", "BAD_STATES", "MATCH"}
  <2>1. c = CompatibilityOf(x, check)
    BY <1>5 DEF Judge
  <2> HIDE DEF x
  <2>2. \E r : Finding(f, check, r) /\ CompatibilityOf(x, check) = Found(x, check, r)
    BY <1>2, <1>3, <1>4, CompatibilityIs
  <2>3. PICK r : Finding(f, check, r) /\ c = Found(x, check, r)
    BY <2>1, <2>2
  <2> QED BY <1>3, <2>3, FoundJudged
<1>6. CASE tail.is \notin {"LESS", "BAD_STATES", "MATCH"}
  <2> DEFINE h == SetCompatibles(x, check, tail.is)
             is == tail.is
  <2>1. c.f = h /\ c.is = is
    BY <1>6 DEF Judge
  <2>2. is \in Verdicts /\ is # "BAD_STATES" /\ is # "MATCH"
    BY <1>6
  <2>3. h = SetCompatibles(x, check, is)
    OBVIOUS
  <2> HIDE DEF h, is, x
  <2>4. Trial(f, front, C, T, check, is, x)
    BY <1>3, <2>2 DEF Trial
  <2>5. Trial(f, front, C, T, check, is, h)
    BY <1>1, <2>2, <2>3, <2>4, TrialCached
  <2>6. c = [f |-> h, is |-> is]
    BY <1>6 DEF Judge, h, is, x
  <2>7. h \in Finders
    BY <2>5 DEF Trial, Trying, Searched
  <2> QED BY <2>1, <2>2, <2>5, <2>6, <2>7 DEF Judged, Results
<1> QED BY <1>5, <1>6
-----------------------------------------------------------------------------
J == INSTANCE FoldLemmas WITH Folded <- LAMBDA a, t, c : Judge(t, c)

LEMMA CheckFold ==
  ASSUME NEW base, NEW s
  PROVE  FoldLeft(Judge, base, s) = J!Fold(0, base, s)
BY DEF FoldLeft, MapThenFoldSet, Max, J!Fold, J!FoldedBy, J!Max

\* The lists that CheckCompatibility judges, one after the other.
TailsOf(f, front, C, T, check, m, tails) ==
  /\ m \in Nat \ {0} /\ DOMAIN tails = 1..m
  /\ \A i \in 1..m : Candidates(f, front, C, T, tails[i])
  /\ \A i \in 1..(m - 1) : front \notin ToSet(tails[i])
  /\ tails[m] = check

LEMMA Single ==
  ASSUME NEW e
  PROVE  DOMAIN <<e>> = 1..1 /\ <<e>>[1] = e
OBVIOUS

LEMMA TailsIs ==
  ASSUME NEW f, NEW front, NEW C, NEW T,
         NEW check, Candidates(f, front, C, T, check), check[1] = front,
         NEW tails, tails = IF Len(check) = 1 THEN <<check>>
                            ELSE [i \in 1..(Len(check) - 1) |-> SubSeq(check, Len(check) - i, Len(check))]
  PROVE  \E m : TailsOf(f, front, C, T, check, m, tails)
<1> DEFINE n == Len(check)
<1>1. /\ check \in Seq(Entries) /\ check # <<>> /\ IsInjective(check)
      /\ ToSet(check) \subseteq C
      /\ front \in ToSet(check) => ToSet(check) \subseteq T
  BY DEF Candidates
<1>2. n \in Nat /\ n > 0 /\ DOMAIN check = 1..n
  BY <1>1
<1>3. front \in ToSet(check)
  BY <1>1, <1>2 DEF ToSet
<1>4. CASE n = 1
  <2>1. tails = <<check>>
    BY <1>4
  <2>2. DOMAIN tails = 1..1 /\ tails[1] = check
    BY <2>1, Single
  <2>3. \A i \in 1..1 : Candidates(f, front, C, T, tails[i])
    <3>1. \A i \in 1..1 : i = 1
      OBVIOUS
    <3> QED BY <2>2, <3>1
  <2>4. \A i \in 1..(1 - 1) : front \notin ToSet(tails[i])
    OBVIOUS
  <2>5. TailsOf(f, front, C, T, check, 1, tails)
    BY <2>2, <2>3, <2>4 DEF TailsOf
  <2> QED BY <2>5
<1>5. CASE n # 1
  <2> DEFINE m == n - 1
  <2>1. tails = [i \in 1..m |-> SubSeq(check, n - i, n)]
    BY <1>5
  <2>2. m \in Nat \ {0} /\ DOMAIN tails = 1..m /\ \A i \in 1..m : tails[i] = SubSeq(check, n - i, n)
    BY <1>2, <1>5, <2>1
  <2>3. ASSUME NEW i \in 1..m
        PROVE  /\ Candidates(f, front, C, T, tails[i])
               /\ i < m => front \notin ToSet(tails[i])
    <3> DEFINE k == SubSeq(check, n - i, n)
    <3>1. n - i \in 1..n /\ n - i <= n /\ (i < m => n - i >= 2)
      BY <1>2, <2>2
    <3>2. k \in Seq(Entries) /\ Len(k) = i + 1 /\ \A j \in 1..(i + 1) : k[j] = check[n - i + j - 1]
      BY <1>1, <1>2, <3>1
    <3> HIDE DEF k
    <3>3. \A j \in 1..(i + 1) : n - i + j - 1 \in 1..n /\ (i < m => n - i + j - 1 # 1)
      BY <1>2, <3>1
    <3>4. k # <<>> /\ DOMAIN k = 1..(i + 1)
      BY <3>2
    <3>5. IsInjective(k)
      <4> SUFFICES ASSUME NEW a \in 1..(i + 1), NEW b \in 1..(i + 1), k[a] = k[b] PROVE a = b
        BY <3>4 DEF IsInjective
      <4>1. n - i + a - 1 = n - i + b - 1
        BY <1>1, <1>2, <3>2, <3>3 DEF IsInjective
      <4> QED BY <1>2, <4>1
    <3>6. \A e \in ToSet(k) : e \in ToSet(check)
      BY <1>2, <3>2, <3>3, <3>4 DEF ToSet
    <3>7. i < m => front \notin ToSet(k)
      <4> SUFFICES ASSUME i < m, NEW j \in 1..(i + 1), k[j] = front PROVE FALSE
        BY <3>4 DEF ToSet
      <4>1. check[n - i + j - 1] = check[1]
        BY <3>2
      <4>2. n - i + j - 1 = 1
        BY <1>1, <1>2, <3>3, <4>1 DEF IsInjective
      <4> QED BY <3>3, <4>2
    <3>8. Candidates(f, front, C, T, k)
      BY <1>1, <1>3, <3>2, <3>4, <3>5, <3>6 DEF Candidates
    <3>9. tails[i] = k
      BY <2>2 DEF k
    <3> QED BY <3>7, <3>8, <3>9
  <2>4. tails[m] = check
    <3>1. tails[m] = SubSeq(check, 1, n)
      BY <1>2, <2>2
    <3>2. SubSeq(check, 1, n) = check
      BY <1>1, <1>2
    <3> QED BY <3>1, <3>2
  <2>5. \A i \in 1..(m - 1) : i \in 1..m /\ i < m
    BY <2>2
  <2> HIDE DEF m
  <2>6. TailsOf(f, front, C, T, check, m, tails)
    BY <2>2, <2>3, <2>4, <2>5 DEF TailsOf
  <2> QED BY <2>6
<1> QED BY <1>4, <1>5

LEMMA TailsJudged ==
  ASSUME NEW f, Core(f), GroupsOK(f), NEW front, NEW C, NEW T, NEW x, Trying(f, front, C, T, x),
         NEW check, NEW m, NEW tails, TailsOf(f, front, C, T, check, m, tails),
         NEW c, c = J!Fold(0, [f |-> x, is |-> "LESS"], tails)
  PROVE  Judged(f, front, C, T, check, c)
<1> DEFINE base == [f |-> x, is |-> "LESS"]
           I == {t \in (0..m) \X Results :
                   IF t[1] = m THEN Judged(f, front, C, T, check, t[2]) ELSE Trying(f, front, C, T, t[2].f)}
<1>1. /\ m \in Nat /\ m # 0 /\ DOMAIN tails = 1..m
      /\ \A i \in 1..m : Candidates(f, front, C, T, tails[i])
      /\ \A i \in 1..(m - 1) : front \notin ToSet(tails[i])
      /\ tails[m] = check
  BY DEF TailsOf
<1>2. <<0, base>> \in I
  <2>1. x \in Finders
    BY DEF Trying, Searched
  <2>2. base \in Results
    BY <2>1 DEF Results, Verdicts
  <2>3. 0 \in 0..m /\ 0 # m
    BY <1>1
  <2>4. Trying(f, front, C, T, base.f)
    OBVIOUS
  <2> HIDE DEF base
  <2> QED BY <2>2, <2>3, <2>4
<1>3. ASSUME NEW i \in 1..m, NEW t, <<i - 1, t>> \in I PROVE <<i, Judge(t, tails[i])>> \in I
  <2> DEFINE c1 == Judge(t, tails[i])
  <2>1. i - 1 # m /\ i \in 0..m
    BY <1>1
  <2>2. t \in Results /\ Trying(f, front, C, T, t.f)
    BY <1>3, <2>1
  <2>3. t.is \in Verdicts \ {"BAD_STATES"}
    BY <2>2 DEF Results
  <2>4. Judged(f, front, C, T, tails[i], c1)
    BY <1>1, <2>2, <2>3, JudgeKeeps
  <2> HIDE DEF c1
  <2>5. c1 \in Results /\ Trial(f, front, C, T, tails[i], c1.is, c1.f)
    BY <2>4 DEF Judged
  <2>6. ASSUME i # m PROVE Trying(f, front, C, T, c1.f)
    <3>1. i \in 1..(m - 1)
      BY <1>1, <2>6
    <3>2. front \notin ToSet(tails[i])
      BY <1>1, <3>1
    <3> QED BY <2>5, <3>2 DEF Trial
  <2>7. ASSUME i = m PROVE Judged(f, front, C, T, check, c1)
    BY <1>1, <2>4, <2>7
  <2>8. <<i, c1>> \in I
    BY <2>1, <2>5, <2>6, <2>7
  <2> QED BY <2>8 DEF c1
<1> HIDE DEF I, base
<1>4. \A i \in 1..m : \A t : <<i - 1, t>> \in I => <<i, Judge(t, tails[i])>> \in I
  BY <1>3
<1>5. <<m, J!Fold(0, base, tails)>> \in I
  BY <1>1, <1>2, <1>4, J!FoldKeeps
<1>6. <<m, c>> \in I
  BY <1>5 DEF base
<1> QED BY <1>6 DEF I

LEMMA CheckIs ==
  ASSUME NEW f, Core(f), GroupsOK(f), NEW front, NEW C, NEW T, NEW x, Trying(f, front, C, T, x),
         NEW check, Candidates(f, front, C, T, check), check[1] = front,
         NEW c, c = CheckCompatibility(x, check)
  PROVE  Judged(f, front, C, T, check, c)
<1> DEFINE n == Len(check)
           tails == IF n = 1 THEN <<check>> ELSE [i \in 1..(n - 1) |-> SubSeq(check, n - i, n)]
           base == [f |-> x, is |-> "LESS"]
<1>1. c = IF n > GroupSize THEN [f |-> x, is |-> "WRONG_SIZE"] ELSE FoldLeft(Judge, base, tails)
  BY DEF CheckCompatibility
<1>2. CASE n > GroupSize
  <2>1. c = [f |-> x, is |-> "WRONG_SIZE"]
    BY <1>1, <1>2
  <2>2. c.is = "WRONG_SIZE" /\ c.f = x
    BY <2>1
  <2>3. x \in Finders
    BY DEF Trying, Searched
  <2>4. Trial(f, front, C, T, check, c.is, c.f)
    BY <2>2 DEF Trial
  <2>5. c \in Results
    BY <2>1, <2>3 DEF Results, Verdicts
  <2> QED BY <2>4, <2>5 DEF Judged
<1>3. CASE ~ (n > GroupSize)
  <2>1. c = FoldLeft(Judge, base, tails)
    BY <1>1, <1>3
  <2> HIDE DEF tails
  <2>2. c = J!Fold(0, base, tails)
    BY <2>1, CheckFold
  <2>3. \E m : TailsOf(f, front, C, T, check, m, tails)
    BY TailsIs DEF tails
  <2>4. PICK m : TailsOf(f, front, C, T, check, m, tails)
    BY <2>3
  <2> QED BY <2>2, <2>4, TailsJudged
<1> QED BY <1>2, <1>3

\* Trying more of the candidates.
LEMMA TryingMore ==
  ASSUME NEW f, NEW front, NEW C, NEW T, NEW x, Trying(f, front, C, T, x),
         NEW U, T \subseteq U, U \subseteq C
  PROVE  Trying(f, front, C, U, x)
BY DEF Trying

\* Nothing is known of entries of which one has not been tried yet.
LEMMA VerdictIs ==
  ASSUME NEW f, Core(f), GroupsOK(f), NEW front, NEW C, NEW T, NEW x, Trying(f, front, C, T, x),
         NEW U, T \subseteq U, U \subseteq C,
         NEW check, Candidates(f, front, C, U, check), check[1] = front, ~ (ToSet(check) \subseteq T),
         NEW c, c = Verdict(x, check)
  PROVE  Judged(f, front, C, U, check, c)
<1> DEFINE k == CheckCompatibility(x, check)
<1>1. Trying(f, front, C, U, x)
  BY TryingMore
<1>2. Judged(f, front, C, U, check, k)
  BY <1>1, CheckIs
<1>3. front \in ToSet(check)
  BY DEF Candidates, ToSet
<1>4. GetCompatibles(x, check) = "PENDING"
  BY <1>3 DEF GetCompatibles, Trying
<1> HIDE DEF k
<1>5. k.is # "BAD_STATES"
  BY <1>2 DEF Judged, Results
<1>6. c = NoLongerBad(k, check)
  BY <1>4 DEF Verdict, k
<1>7. c = k
  BY <1>5, <1>6 DEF NoLongerBad
<1> QED BY <1>2, <1>7
-----------------------------------------------------------------------------
\* The search for others for front, who has been tried with the entries T.
Looking(f, front, C, T, s) ==
  /\ s.f \in Finders /\ s.is \in Verdicts /\ s.check \in Seq(Entries)
  /\ IsInjective(s.check) /\ s.check # <<>> /\ s.check[1] = front
  /\ ToSet(s.check) \subseteq T /\ T \subseteq C
  /\ IF s.is = "MATCH" THEN Searched(f, {}, s.f) ELSE Trying(f, front, C, T, s.f)

Searches == [f : Finders, is : Verdicts, check : Seq(Entries)]

\* Whoever else is tried.
LEMMA ExtendKeeps ==
  ASSUME NEW f, Core(f), GroupsOK(f), NEW front, NEW C, C \subseteq Entries, NEW T,
         NEW s \in Searches, Looking(f, front, C, T, s),
         NEW e \in C, e \notin T, NEW U, U = T \cup {e}, NEW h, h = Extend(s, e)
  PROVE  h \in Searches /\ Looking(f, front, C, U, h)
<1> DEFINE x == s.f
           check == Append(s.check, e)
           c == Verdict(x, check)
<1>1. /\ x \in Finders /\ s.is \in Verdicts /\ s.check \in Seq(Entries)
      /\ IsInjective(s.check) /\ s.check # <<>> /\ s.check[1] = front
      /\ ToSet(s.check) \subseteq T /\ T \subseteq C
      /\ IF s.is = "MATCH" THEN Searched(f, {}, x) ELSE Trying(f, front, C, T, x)
  BY DEF Looking
<1>2. T \subseteq U /\ U \subseteq C
  BY <1>1
<1>3. CASE s.is # "LESS"
  <2>1. h = s
    BY <1>3 DEF Extend
  <2>2. ASSUME s.is # "MATCH" PROVE Trying(f, front, C, U, x)
    BY <1>1, <1>2, <2>2, TryingMore
  <2>3. ToSet(s.check) \subseteq U
    BY <1>1, <1>2
  <2>4. IF s.is = "MATCH" THEN Searched(f, {}, x) ELSE Trying(f, front, C, U, x)
    BY <1>1, <2>2
  <2>5. Looking(f, front, C, U, s)
    BY <1>1, <1>2, <2>3, <2>4 DEF Looking
  <2> QED BY <2>1, <2>5
<1>4. CASE s.is = "LESS"
  <2>1. Trying(f, front, C, T, x)
    BY <1>1, <1>4
  <2>2. h = Tried(s, e, c)
    BY <1>4 DEF Extend
  <2>3. /\ check \in Seq(Entries) /\ Len(check) = Len(s.check) + 1
        /\ ToSet(check) = ToSet(s.check) \cup {e} /\ IsInjective(check)
    BY <1>1, AppendIs
  <2>4. check # <<>> /\ check[1] = front
    BY <1>1
  <2>5. ToSet(check) \subseteq U /\ ~ (ToSet(check) \subseteq T)
    BY <1>1, <2>3
  <2> HIDE DEF check
  <2>6. Candidates(f, front, C, U, check)
    BY <1>2, <2>3, <2>4, <2>5 DEF Candidates
  <2>7. c = Verdict(x, check)
    OBVIOUS
  <2> HIDE DEF c, x
  <2>8. Judged(f, front, C, U, check, c)
    BY <1>2, <2>1, <2>4, <2>5, <2>6, <2>7, VerdictIs
  <2>9. front \in ToSet(check)
    BY <2>3, <2>4 DEF ToSet
  <2>10. c \in Results /\ IF c.is = "MATCH" THEN Searched(f, {}, c.f) ELSE Trying(f, front, C, U, c.f)
    BY <2>8, <2>9 DEF Judged, Trial
  <2>11. c.f \in Finders
    BY <2>10 DEF Results
  <2> DEFINE is == IF c.is = "MATCH" THEN "MATCH" ELSE "LESS"
             order == IF c.is = "LESS" THEN check ELSE s.check
  <2>12. h = [f |-> c.f, is |-> is, check |-> order]
    BY <2>2 DEF Tried, check
  <2>13. /\ order \in Seq(Entries) /\ IsInjective(order) /\ order # <<>> /\ order[1] = front
         /\ ToSet(order) \subseteq U
    BY <1>1, <1>2, <2>3, <2>4, <2>5
  <2>14. is \in Verdicts
    BY DEF Verdicts
  <2>15. IF is = "MATCH" THEN Searched(f, {}, c.f) ELSE Trying(f, front, C, U, c.f)
    BY <2>10
  <2> HIDE DEF is, order
  <2>16. h.f = c.f /\ h.is = is /\ h.check = order /\ h \in Searches
    BY <2>11, <2>12, <2>13, <2>14 DEF Searches
  <2>17. Looking(f, front, C, U, h)
    BY <1>2, <2>11, <2>13, <2>14, <2>15, <2>16 DEF Looking
  <2> QED BY <2>16, <2>17
<1> QED BY <1>3, <1>4

Y == INSTANCE FoldLemmas WITH Folded <- LAMBDA a, s, e : Extend(s, e)

LEMMA ExtendFold ==
  ASSUME NEW base, NEW s
  PROVE  FoldLeft(Extend, base, s) = Y!Fold(0, base, s)
BY DEF FoldLeft, MapThenFoldSet, Max, Y!Fold, Y!FoldedBy, Y!Max

\* All that wait are tried.
LEMMA AllTried ==
  ASSUME NEW f, Core(f), GroupsOK(f), NEW front \in Entries,
         NEW current \in Seq(Entries), IsInjective(current), front \notin ToSet(current),
         NEW C, C = {front} \cup ToSet(current),
         NEW base \in Searches, Looking(f, front, C, {front}, base),
         NEW s, s = Y!Fold(0, base, current)
  PROVE  Looking(f, front, C, C, s)
<1> DEFINE n == Len(current)
           T(i) == {front} \cup {current[j] : j \in 1..i}
           I == {t \in (0..n) \X Searches : Looking(f, front, C, T(t[1]), t[2])}
<1>1. n \in Nat /\ DOMAIN current = 1..n /\ C \subseteq Entries
  BY DEF ToSet
<1>2. T(0) = {front}
  OBVIOUS
<1>3. T(n) = C
  BY <1>1 DEF ToSet
<1>4. ASSUME NEW i \in 1..n
      PROVE  current[i] \in C /\ current[i] \notin T(i - 1) /\ T(i) = T(i - 1) \cup {current[i]}
  <2>1. \A j : j \in 1..i <=> j \in 1..(i - 1) \/ j = i
    BY <1>1
  <2>2. current[i] \in ToSet(current)
    BY <1>1 DEF ToSet
  <2>3. \A j \in 1..(i - 1) : j \in 1..n /\ j # i
    BY <1>1
  <2>4. \A j \in 1..(i - 1) : current[j] # current[i]
    BY <1>1, <2>3 DEF IsInjective
  <2> QED BY <2>1, <2>2, <2>4
<1> HIDE DEF T
<1>5. <<0, base>> \in I
  <2>1. 0 \in 0..n
    BY <1>1
  <2>2. Looking(f, front, C, T(0), base)
    BY <1>2
  <2> QED BY <2>1, <2>2
<1>6. ASSUME NEW i \in 1..n, NEW t, <<i - 1, t>> \in I PROVE <<i, Extend(t, current[i])>> \in I
  <2> DEFINE h == Extend(t, current[i])
  <2>1. t \in Searches /\ Looking(f, front, C, T(i - 1), t)
    BY <1>6
  <2>2. h \in Searches /\ Looking(f, front, C, T(i), h)
    BY <1>1, <1>4, <2>1, ExtendKeeps
  <2> HIDE DEF h
  <2>3. <<i, h>> \in I
    BY <1>1, <2>2
  <2> QED BY <2>3 DEF h
<1> HIDE DEF I
<1>7. \A i \in 1..n : \A t : <<i - 1, t>> \in I => <<i, Extend(t, current[i])>> \in I
  BY <1>6
<1>8. <<n, Y!Fold(0, base, current)>> \in I
  BY <1>1, <1>5, <1>7, Y!FoldKeeps
<1>9. <<n, s>> \in I
  BY <1>8
<1> QED BY <1>3, <1>9 DEF I

Relisted(f, new, current, h) ==
  /\ h \in Finders /\ h.state = f.state /\ h.old = f.old
  /\ h.data = f.data /\ h.new = new /\ h.current = current
  /\ h.compatible = f.compatible /\ h.proposals = f.proposals
  /\ PartiesKept(f, h) /\ h.check = f.check

LEMMA RelistedIs ==
  ASSUME NEW f \in Finders, NEW new \in Seq(Entries), NEW current \in Seq(Entries), NEW h,
         h = WithLists(f, new, current)
  PROVE  Relisted(f, new, current, h)
<1> DEFINE k == WithLists(f, new, current)
<1>1. /\ k \in Finders /\ k.state = f.state /\ k.old = f.old
      /\ k.data = f.data /\ k.new = new /\ k.current = current
      /\ k.compatible = f.compatible /\ k.proposals = f.proposals
      /\ PartiesKept(f, k) /\ k.check = f.check
  BY ListsWith
<1> HIDE DEF k
<1>2. Relisted(f, new, current, k)
  BY <1>1 DEF Relisted
<1> QED BY <1>2 DEF k

\* A newcomer leaves the list of newcomers and is tried.
LEMMA BeginsTrying ==
  ASSUME NEW f, Core(f), NEW x, Searched(f, {}, x), NEW front, front \in ToSet(x.new),
         NEW y, y = [x EXCEPT !.new = Without(@, {front})],
         NEW C, C = {front} \cup ToSet(y.current)
  PROVE  /\ Trying(f, front, C, {}, y) /\ front \in Entries
         /\ y.current \in Seq(Entries) /\ IsInjective(y.current) /\ front \notin ToSet(y.current)
<1>1. /\ x \in Finders /\ x.state = f.state /\ x.old = f.old /\ x.data = f.data /\ x.check = f.check
      /\ PartiesKept(f, x)
      /\ Len(f.proposals) <= Len(x.proposals)
      /\ \A j \in 1..Len(f.proposals) : x.proposals[j] = f.proposals[j]
      /\ \A j \in NewOnes(f, x) : Fresh(f, x.proposals[j])
      /\ \A e : Listed(x, e) <=> Listed(f, e) /\ e \notin {} /\ ~ Taken(f, x, e)
      /\ IsInjective(x.new \o x.current)
      /\ CacheOK(x)
  BY DEF Searched
<1>2. x.new \in Seq(Entries) /\ x.current \in Seq(Entries)
  BY <1>1, FieldsOf
<1>3. IsInjective(x.new) /\ IsInjective(x.current) /\ ToSet(x.new) \cap ToSet(x.current) = {}
  BY <1>1, <1>2, ConcatIs
<1> DEFINE new == Without(x.new, {front})
<1>4. new \in Seq(Entries) /\ ToSet(new) = ToSet(x.new) \ {front} /\ IsInjective(new)
  BY <1>2, <1>3, WithoutIs
<1>5. y = WithLists(x, new, x.current)
  BY <1>1 DEF WithLists, Finders
<1> HIDE DEF new
<1>6. /\ y \in Finders /\ y.state = x.state /\ y.old = x.old
      /\ y.data = x.data /\ y.new = new /\ y.current = x.current
      /\ y.compatible = x.compatible /\ y.proposals = x.proposals
      /\ PartiesKept(x, y) /\ y.check = x.check
  <2>1. Relisted(x, new, x.current, y)
    BY <1>1, <1>2, <1>4, <1>5, RelistedIs
  <2> QED BY <2>1 DEF Relisted
<1>7. front \in Entries
  BY <1>2 DEF ToSet
<1>8. IsInjective(y.new \o y.current)
  <2>1. ToSet(new) \cap ToSet(x.current) = {}
    BY <1>3, <1>4
  <2> QED BY <1>2, <1>3, <1>4, <1>6, <2>1, ConcatIs
<1>9. NewOnes(f, y) = NewOnes(f, x) /\ \A e : Taken(f, y, e) <=> Taken(f, x, e)
  BY <1>6 DEF NewOnes, Taken
<1>10. ~ Taken(f, y, front)
  <2>1. Listed(x, front)
    BY DEF Listed
  <2> QED BY <1>1, <1>9, <2>1
<1>11. \A e : Listed(y, e) <=> Listed(f, e) /\ e \notin {front} /\ ~ Taken(f, y, e)
  <2>1. \A e : Listed(y, e) <=> Listed(x, e) /\ e # front
    BY <1>3, <1>4, <1>6 DEF Listed
  <2> QED BY <1>1, <1>9, <2>1
<1>12. CacheOK(y)
  BY <1>1, <1>4, <1>6 DEF CacheOK
<1>13. PartiesKept(f, y)
  BY <1>1, <1>6 DEF PartiesKept
<1>14. Searched(f, {front}, y)
  <2>1. \A j \in NewOnes(f, y) : Fresh(f, y.proposals[j])
    BY <1>1, <1>6, <1>9
  <2> QED BY <1>1, <1>6, <1>8, <1>11, <1>12, <1>13, <2>1 DEF Searched
<1>15. \A e \in C : Listed(f, e) /\ e \notin ToSet(y.new)
  <2> SUFFICES ASSUME NEW e \in C PROVE Listed(f, e) /\ e \notin ToSet(y.new)
    OBVIOUS
  <2>1. Listed(x, e)
    BY <1>6 DEF Listed
  <2>2. Listed(f, e)
    BY <1>1, <2>1
  <2>3. e \notin ToSet(new)
    BY <1>3, <1>4, <1>6
  <2> QED BY <1>6, <2>2, <2>3
<1>16. \A set \in DOMAIN y.compatible : front \in set => set \subseteq {}
  BY <1>1, <1>6 DEF CacheOK
<1>17. Trying(f, front, C, {}, y)
  BY <1>10, <1>14, <1>15, <1>16 DEF Trying
<1> QED BY <1>2, <1>3, <1>6, <1>7, <1>17

\* Who has been tried in vain waits.
LEMMA WaitsNow ==
  ASSUME NEW f, Core(f), NEW front \in Entries, NEW C, front \in C, NEW T, NEW x, Trying(f, front, C, T, x),
         NEW h, h = [x EXCEPT !.current = Append(@, front)]
  PROVE  Searched(f, {}, h)
<1>0. /\ Searched(f, {front}, x) /\ ~ Taken(f, x, front) /\ Listed(f, front) /\ front \notin ToSet(x.new)
  BY DEF Trying
<1>1. /\ x \in Finders /\ x.state = f.state /\ x.old = f.old /\ x.data = f.data /\ x.check = f.check
      /\ PartiesKept(f, x)
      /\ Len(f.proposals) <= Len(x.proposals)
      /\ \A j \in 1..Len(f.proposals) : x.proposals[j] = f.proposals[j]
      /\ \A j \in NewOnes(f, x) : Fresh(f, x.proposals[j])
      /\ \A e : Listed(x, e) <=> Listed(f, e) /\ e \notin {front} /\ ~ Taken(f, x, e)
      /\ IsInjective(x.new \o x.current)
      /\ CacheOK(x)
  BY <1>0 DEF Searched
<1>2. x.new \in Seq(Entries) /\ x.current \in Seq(Entries)
  BY <1>1, FieldsOf
<1>3. IsInjective(x.new) /\ IsInjective(x.current) /\ ToSet(x.new) \cap ToSet(x.current) = {}
  BY <1>1, <1>2, ConcatIs
<1> DEFINE current == Append(x.current, front)
<1>4. front \notin ToSet(x.current)
  <2>1. ~ Listed(x, front)
    BY <1>1
  <2> QED BY <2>1 DEF Listed
<1>5. current \in Seq(Entries) /\ ToSet(current) = ToSet(x.current) \cup {front} /\ IsInjective(current)
  BY <1>2, <1>3, <1>4, AppendIs
<1>6. h = WithLists(x, x.new, current)
  BY <1>1 DEF WithLists, Finders
<1> HIDE DEF current
<1>7. /\ h \in Finders /\ h.state = x.state /\ h.old = x.old
      /\ h.data = x.data /\ h.new = x.new /\ h.current = current
      /\ h.compatible = x.compatible /\ h.proposals = x.proposals
      /\ PartiesKept(x, h) /\ h.check = x.check
  <2>1. Relisted(x, x.new, current, h)
    BY <1>1, <1>2, <1>5, <1>6, RelistedIs
  <2> QED BY <2>1 DEF Relisted
<1>8. IsInjective(h.new \o h.current)
  <2>1. ToSet(x.new) \cap ToSet(current) = {}
    BY <1>0, <1>3, <1>5
  <2>2. IsInjective(x.new \o current)
    BY <1>2, <1>3, <1>5, <2>1, ConcatIs
  <2> QED BY <1>7, <2>2
<1>9. NewOnes(f, h) = NewOnes(f, x) /\ \A e : Taken(f, h, e) <=> Taken(f, x, e)
  BY <1>7 DEF NewOnes, Taken
<1>10. \A e : Listed(h, e) <=> Listed(f, e) /\ e \notin {} /\ ~ Taken(f, h, e)
  <2>1. \A e : Listed(h, e) <=> Listed(x, e) \/ e = front
    BY <1>5, <1>7 DEF Listed
  <2> QED BY <1>0, <1>1, <1>9, <2>1
<1>11. CacheOK(h)
  BY <1>1, <1>7 DEF CacheOK
<1>12. PartiesKept(f, h)
  BY <1>1, <1>7 DEF PartiesKept
<1>13. \A j \in NewOnes(f, h) : Fresh(f, h.proposals[j])
  BY <1>1, <1>7, <1>9
<1> QED BY <1>1, <1>7, <1>8, <1>10, <1>11, <1>12, <1>13 DEF Searched

\* A newcomer is looked at.
LEMMA FindNewGroupsIs ==
  ASSUME NEW f, Core(f), GroupsOK(f), NEW front \in Entries, NEW y,
         y.current \in Seq(Entries), IsInjective(y.current), front \notin ToSet(y.current),
         NEW C, C = {front} \cup ToSet(y.current), Trying(f, front, C, {}, y),
         NEW s, s = FindNewGroups(y, front)
  PROVE  Looking(f, front, C, C, s)
<1> DEFINE check == <<front>>
           T == {}
           U == {front}
           c == Verdict(y, check)
           base == [f |-> c.f, is |-> c.is, check |-> check]
<1>1. s = FoldLeft(Extend, base, y.current)
  BY DEF FindNewGroups
<1>2. s = Y!Fold(0, base, y.current)
  <2> HIDE DEF base
  <2> QED BY <1>1, ExtendFold
<1>3. check \in Seq(Entries) /\ check # <<>> /\ Len(check) = 1 /\ check[1] = front
  OBVIOUS
<1> HIDE DEF check
<1>4. DOMAIN check = 1..1
  BY <1>3
<1>5. IsInjective(check)
  BY <1>4 DEF IsInjective
<1>6. ToSet(check) = U
  BY <1>3, <1>4 DEF ToSet
<1>7. T \subseteq U /\ U \subseteq C /\ ~ (ToSet(check) \subseteq T)
  BY <1>6
<1>8. Candidates(f, front, C, U, check)
  BY <1>3, <1>5, <1>6, <1>7 DEF Candidates
<1>9. Trying(f, front, C, T, y)
  OBVIOUS
<1>10. c = Verdict(y, check)
  OBVIOUS
<1>11. front \in ToSet(check)
  BY <1>6
<1> HIDE DEF T, U, c
<1>12. Judged(f, front, C, U, check, c)
  BY <1>3, <1>7, <1>8, <1>9, <1>10, VerdictIs
<1>13. c \in Results /\ IF c.is = "MATCH" THEN Searched(f, {}, c.f) ELSE Trying(f, front, C, U, c.f)
  BY <1>11, <1>12 DEF Judged, Trial
<1>14. c.f \in Finders /\ c.is \in Verdicts
  BY <1>13 DEF Results
<1>15. base \in Searches /\ base.f = c.f /\ base.is = c.is /\ base.check = check
  BY <1>3, <1>14 DEF Searches
<1> HIDE DEF base
<1>16. Looking(f, front, C, U, base)
  BY <1>3, <1>5, <1>6, <1>7, <1>13, <1>14, <1>15 DEF Looking
<1>17. Looking(f, front, C, {front}, base)
  BY <1>16 DEF U
<1> QED BY <1>2, <1>15, <1>17, AllTried

LEMMA LookAtKeeps ==
  ASSUME NEW f, Core(f), GroupsOK(f), NEW x, Searched(f, {}, x), NEW front, NEW h, h = LookAt(x, front)
  PROVE  Searched(f, {}, h)
<1>1. CASE front \notin ToSet(x.new)
  BY <1>1 DEF LookAt
<1>2. CASE front \in ToSet(x.new)
  <2> DEFINE y == [x EXCEPT !.new = Without(@, {front})]
             C == {front} \cup ToSet(y.current)
             s == FindNewGroups(y, front)
  <2>1. h = Waiting(s, front)
    BY <1>2 DEF LookAt
  <2>2. y = [x EXCEPT !.new = Without(@, {front})]
    OBVIOUS
  <2> HIDE DEF y
  <2>3. /\ Trying(f, front, C, {}, y) /\ front \in Entries
        /\ y.current \in Seq(Entries) /\ IsInjective(y.current) /\ front \notin ToSet(y.current)
    BY <1>2, <2>2, BeginsTrying
  <2>4. C = {front} \cup ToSet(y.current) /\ front \in C
    OBVIOUS
  <2>5. s = FindNewGroups(y, front)
    OBVIOUS
  <2> HIDE DEF C, s
  <2>6. Looking(f, front, C, C, s)
    BY <2>3, <2>4, <2>5, FindNewGroupsIs
  <2> DEFINE x2 == s.f
  <2>7. IF s.is = "MATCH" THEN Searched(f, {}, x2) ELSE Trying(f, front, C, C, x2)
    BY <2>6 DEF Looking
  <2>8. h = IF s.is = "MATCH" THEN x2 ELSE [x2 EXCEPT !.current = Append(@, front)]
    BY <2>1 DEF Waiting
  <2> HIDE DEF x2
  <2>9. CASE s.is = "MATCH"
    BY <2>7, <2>8, <2>9
  <2>10. CASE s.is # "MATCH"
    <3>1. Trying(f, front, C, C, x2)
      BY <2>7, <2>10
    <3>2. h = [x2 EXCEPT !.current = Append(@, front)]
      BY <2>8, <2>10
    <3> QED BY <2>3, <2>4, <3>1, <3>2, WaitsNow
  <2> QED BY <2>9, <2>10
<1> QED BY <1>1, <1>2

L == INSTANCE FoldLemmas WITH Folded <- LAMBDA a, x, e : LookAt(x, e)

LEMMA LookFold ==
  ASSUME NEW f
  PROVE  FindGroups(f) = L!Fold(0, f, f.new)
BY DEF FindGroups, FoldLeft, MapThenFoldSet, Max, L!Fold, L!FoldedBy, L!Max

LEMMA SearchedSelf ==
  ASSUME NEW f, Core(f)
  PROVE  Searched(f, {}, f)
<1>1. f \in Finders /\ IsInjective(f.new \o f.current) /\ CacheOK(f)
  BY DEF Core
<1>2. f.proposals \in Seq(Proposals)
  BY <1>1, FieldsOf
<1>3. Len(f.proposals) \in Nat /\ \A j : j \notin NewOnes(f, f)
  BY <1>2 DEF NewOnes
<1>4. \A e : ~ Taken(f, f, e)
  BY <1>3 DEF Taken
<1> QED BY <1>1, <1>3, <1>4 DEF Searched, PartiesKept

LEMMA FindGroupsIs ==
  ASSUME NEW f, Core(f), GroupsOK(f), NEW h, h = FindGroups(f)
  PROVE  Searched(f, {}, h)
<1> DEFINE s == f.new
           n == Len(s)
           I == {t \in (0..n) \X Finders : Searched(f, {}, t[2])}
<1>1. f \in Finders /\ s \in Seq(Entries)
  BY CoreIs, FieldsOf
<1>2. n \in Nat /\ DOMAIN s = 1..n
  BY <1>1
<1>3. <<0, f>> \in I
  BY <1>1, <1>2, SearchedSelf
<1>4. ASSUME NEW i \in 1..n, NEW x, <<i - 1, x>> \in I PROVE <<i, LookAt(x, s[i])>> \in I
  <2> DEFINE y == LookAt(x, s[i])
  <2>1. Searched(f, {}, x)
    BY <1>4
  <2>2. Searched(f, {}, y)
    BY <2>1, LookAtKeeps
  <2> HIDE DEF y
  <2>3. y \in Finders
    BY <2>2 DEF Searched
  <2>4. <<i, y>> \in I
    BY <1>2, <2>2, <2>3
  <2> QED BY <2>4 DEF y
<1>5. h = L!Fold(0, f, s)
  BY LookFold
<1> HIDE DEF I, s
<1>6. \A i \in 1..n : \A x : <<i - 1, x>> \in I => <<i, LookAt(x, s[i])>> \in I
  BY <1>4
<1>7. <<n, L!Fold(0, f, s)>> \in I
  BY <1>2, <1>3, <1>6, L!FoldKeeps
<1>8. <<n, h>> \in I
  BY <1>5, <1>7
<1> QED BY <1>8 DEF I
-----------------------------------------------------------------------------
LEMMA ReplacedIs ==
  ASSUME NEW T, NEW q \in Seq(T), NEW i \in 1..Len(q), NEW v \in T, NEW s, s = [q EXCEPT ![i] = v]
  PROVE  s \in Seq(T) /\ Len(s) = Len(q) /\ s[i] = v /\ \A j \in 1..Len(q) : j # i => s[j] = q[j]
OBVIOUS

Reproposed(f, proposals, h) ==
  /\ h \in Finders /\ h.state = f.state /\ h.old = f.old
  /\ h.data = f.data /\ h.new = f.new /\ h.current = f.current
  /\ h.compatible = f.compatible /\ h.proposals = proposals
  /\ PartiesKept(f, h) /\ h.check = f.check

LEMMA ReproposedIs ==
  ASSUME NEW f \in Finders, NEW proposals \in Seq(Proposals), NEW h, h = WithProposals(f, proposals)
  PROVE  Reproposed(f, proposals, h)
<1> DEFINE k == WithProposals(f, proposals)
<1>1. /\ k \in Finders /\ k.state = f.state /\ k.old = f.old
      /\ k.data = f.data /\ k.new = f.new /\ k.current = f.current
      /\ k.compatible = f.compatible /\ k.proposals = proposals
      /\ PartiesKept(f, k) /\ k.check = f.check
  BY ProposalsWith
<1> HIDE DEF k
<1>2. Reproposed(f, proposals, k)
  BY <1>1 DEF Reproposed
<1> QED BY <1>2 DEF k

\* A proposal is shown to its players.
Alerted(f, i, S, h) ==
  /\ h \in Finders /\ h.old = f.old
  /\ \A y \in Entries : h.state[y] = IF y \in S THEN "PROPOSAL" ELSE f.state[y]
  /\ h.data = f.data /\ h.new = f.new /\ h.current = f.current
  /\ h.compatible = f.compatible
  /\ PartiesKept(f, h) /\ h.check = f.check
  /\ h.proposals \in Seq(Proposals) /\ Len(h.proposals) = Len(f.proposals)
  /\ \A j \in 1..Len(f.proposals) :
       /\ h.proposals[j].queues = f.proposals[j].queues
       /\ h.proposals[j].entry = f.proposals[j].entry
       /\ h.proposals[j].group = f.proposals[j].group
       /\ h.proposals[j].answer = f.proposals[j].answer
       /\ h.proposals[j].announced = IF j = i THEN TRUE ELSE f.proposals[j].announced

LEMMA AlertedIs ==
  ASSUME NEW f \in Finders, NEW i \in 1..Len(f.proposals), NEW S,
         NEW h, h = [SetState(f, S, "PROPOSAL") EXCEPT !.proposals[i].announced = TRUE]
  PROVE  Alerted(f, i, S, h)
<1> DEFINE k == SetState(f, S, "PROPOSAL")
           proposals == [f.proposals EXCEPT ![i].announced = TRUE]
<1>1. /\ k \in Finders
      /\ \A e \in Entries : k.state[e] = IF e \in S THEN "PROPOSAL" ELSE f.state[e]
      /\ \A e \in Entries : k.old[e] = IF e \in S /\ "PROPOSAL" \in Idle THEN "PROPOSAL" ELSE f.old[e]
      /\ QueueKept(f, k) /\ PartiesKept(f, k) /\ k.check = f.check
  <2>1. "PROPOSAL" \in States
    BY DEF States
  <2> QED BY <2>1, SetStateIs
<1>2. h = [k EXCEPT !.proposals[i].announced = TRUE]
  OBVIOUS
<1> HIDE DEF k
<1>3. k.old = f.old
  <2>1. "PROPOSAL" \notin Idle
    BY DEF Idle
  <2>2. k.old \in [Entries -> Idle] /\ f.old \in [Entries -> Idle]
    BY <1>1, FieldsOf
  <2>3. \A e \in Entries : k.old[e] = f.old[e]
    BY <1>1, <2>1
  <2> QED BY <2>2, <2>3
<1>4. f.proposals \in Seq(Proposals) /\ k.proposals = f.proposals
  BY <1>1, FieldsOf DEF QueueKept
<1> DEFINE q == f.proposals
<1>5. q \in Seq(Proposals) /\ i \in 1..Len(q)
  BY <1>4
<1>6. [q[i] EXCEPT !.announced = TRUE] \in Proposals
  <2>1. q[i] \in Proposals
    BY <1>5
  <2> QED BY <2>1 DEF Proposals
<1>7. proposals = [q EXCEPT ![i] = [q[i] EXCEPT !.announced = TRUE]]
  OBVIOUS
<1>8. /\ proposals \in Seq(Proposals) /\ Len(proposals) = Len(q)
      /\ proposals[i] = [q[i] EXCEPT !.announced = TRUE]
      /\ \A j \in 1..Len(q) : j # i => proposals[j] = q[j]
  <2> DEFINE v == [q[i] EXCEPT !.announced = TRUE]
  <2>1. v \in Proposals /\ proposals = [q EXCEPT ![i] = v]
    BY <1>6, <1>7
  <2> HIDE DEF v, q, proposals
  <2>2. proposals \in Seq(Proposals) /\ Len(proposals) = Len(q) /\ proposals[i] = v
        /\ \A j \in 1..Len(q) : j # i => proposals[j] = q[j]
    BY <1>5, <2>1, ReplacedIs
  <2> QED BY <2>2 DEF v
<1>9. h = WithProposals(k, proposals)
  BY <1>1, <1>2, <1>4 DEF WithProposals, Finders
<1> HIDE DEF proposals
<1>10. /\ h \in Finders /\ h.state = k.state /\ h.old = k.old
       /\ h.data = k.data /\ h.new = k.new /\ h.current = k.current
       /\ h.compatible = k.compatible /\ h.proposals = proposals
       /\ PartiesKept(k, h) /\ h.check = k.check
  <2>1. Reproposed(k, proposals, h)
    BY <1>1, <1>8, <1>9, ReproposedIs
  <2> QED BY <2>1 DEF Reproposed
<1>11. PartiesKept(f, h)
  BY <1>1, <1>10 DEF PartiesKept
<1>12. ASSUME NEW j \in 1..Len(q)
       PROVE  /\ proposals[j].queues = q[j].queues /\ proposals[j].entry = q[j].entry
              /\ proposals[j].group = q[j].group /\ proposals[j].answer = q[j].answer
              /\ proposals[j].announced = IF j = i THEN TRUE ELSE q[j].announced
  <2>1. q[j] \in Proposals
    BY <1>5
  <2>2. CASE j # i
    BY <1>8, <2>2
  <2>3. CASE j = i
    BY <1>8, <2>1, <2>3 DEF Proposals
  <2> QED BY <2>2, <2>3
<1> QED BY <1>1, <1>3, <1>8, <1>10, <1>11, <1>12 DEF Alerted, QueueKept

\* Sound depends on the players of a proposal and on the data of the queue.
LEMMA SoundSame ==
  ASSUME NEW f, NEW a, Sound(f, a), NEW h, h.data = f.data, NEW b,
         b.queues = a.queues, b.entry = a.entry, b.group = a.group, b.answer = a.answer
  PROVE  Sound(h, b)
<1> DEFINE A(data, queues, entry, group, answer) ==
             /\ IsInjective(queues)
             /\ DOMAIN entry = UNION {data[e] : e \in ToSet(queues)}
             /\ DOMAIN answer = DOMAIN entry
             /\ \A p \in DOMAIN entry : entry[p] \in ToSet(queues) /\ p \in data[entry[p]]
             /\ group # NoGroup => group \in ToSet(queues)
             /\ Cardinality(DOMAIN answer) = GroupSize
             /\ RolesFit(DOMAIN answer)
             /\ \A p, q \in DOMAIN answer : {p, q} \in Ignoring => entry[p] = entry[q]
<1>1. A(f.data, a.queues, a.entry, a.group, a.answer)
  BY DEF Sound, Matched
<1>2. A(h.data, b.queues, b.entry, b.group, b.answer) => Sound(h, b)
  BY DEF Sound, Matched
<1> HIDE DEF A
<1> QED BY <1>1, <1>2

\* The search has found nobody.
LEMMA NobodyFound ==
  ASSUME NEW f, Core(f), NEW x, Searched(f, {}, x), Len(x.proposals) = Len(f.proposals)
  PROVE  Core(x) /\ Calm(f, x)
<1>1. /\ x \in Finders /\ x.state = f.state /\ x.old = f.old /\ x.data = f.data /\ x.check = f.check
      /\ PartiesKept(f, x)
      /\ \A j \in 1..Len(f.proposals) : x.proposals[j] = f.proposals[j]
      /\ \A e : Listed(x, e) <=> Listed(f, e) /\ e \notin {} /\ ~ Taken(f, x, e)
      /\ IsInjective(x.new \o x.current)
      /\ CacheOK(x)
  BY DEF Searched
<1>2. f \in Finders /\ QueueOK(f)
  BY CoreIs
<1>3. f.proposals \in Seq(Proposals) /\ x.proposals \in Seq(Proposals)
  BY <1>1, <1>2, FieldsOf
<1>4. x.proposals = f.proposals
  BY <1>1, <1>3
<1>5. \A e : Listed(x, e) <=> Listed(f, e)
  <2>1. \A j : j \notin NewOnes(f, x)
    BY <1>3, <1>4 DEF NewOnes
  <2>2. \A e : ~ Taken(f, x, e)
    BY <2>1 DEF Taken
  <2> QED BY <1>1, <2>2
<1>6. QueueOK(x)
  <2>1. ProposalsOK(x)
    BY <1>1, <1>2, <1>4, SameProposals DEF QueueOK
  <2> QED BY <1>1, <2>1 DEF QueueOK
<1> DEFINE E == {}
<1>7. \A y \in Entries \ E : Stays(f, x, y)
  BY <1>1, <1>4, <1>5 DEF Stays, Proposed
<1>8. E \in SUBSET Entries /\ (\A e \in E : IsEntry(f, e)) /\ (\A e \in E : Placed(x, e))
  OBVIOUS
<1>9. x.party = f.party
  BY <1>1 DEF PartiesKept
<1>10. \A y \in Entries : y \in E \/ (\E e \in E : y \in Folk(f, e)) \/ x.state[y] = f.state[y]
  BY <1>1
<1> HIDE DEF E
<1>11. Core(x)
  BY <1>1, <1>6, <1>7, <1>8, <1>9, <1>10, EntriesMove
<1>12. Calm(f, x)
  BY <1>1, <1>4 DEF Calm
<1> QED BY <1>11, <1>12

\* The entries and players of what has been found.
Picked(f, P, Q) ==
  /\ Q \subseteq Entries
  /\ \A e \in Q : /\ IsEntry(f, e) /\ f.state[e] = "QUEUED" /\ Listed(f, e)
                  /\ e \in DOMAIN f.data /\ f.data[e] = Folk(f, e)
                  /\ e \notin DOMAIN f.check /\ ~ Proposed(f, e)
  /\ \A p : p \in P <=> \E e \in Q : p \in Folk(f, e)

LEMMA PickedIs ==
  ASSUME NEW f, Core(f), NEW proposal \in Proposals, Fresh(f, proposal),
         NEW Q, Q = ToSet(proposal.queues), NEW P, P = DOMAIN proposal.answer
  PROVE  Picked(f, P, Q)
<1>1. f \in Finders /\ Where(f) /\ Known(f)
  BY CoreIs
<1>2. \A e \in Q : e \in Entries /\ Listed(f, e)
  BY DEF Fresh, Proposals, ToSet
<1>3. \A e \in Q : /\ IsEntry(f, e) /\ f.state[e] = "QUEUED"
                   /\ e \in DOMAIN f.data /\ e \notin DOMAIN f.check /\ ~ Proposed(f, e)
  BY <1>1, <1>2 DEF Where
<1>4. \A e \in Q : f.data[e] = Folk(f, e)
  BY <1>1, <1>3 DEF Known
<1>5. P = UNION {f.data[e] : e \in Q}
  BY DEF Fresh, Sound
<1>6. \A p : p \in P <=> \E e \in Q : p \in Folk(f, e)
  BY <1>4, <1>5
<1> QED BY <1>2, <1>3, <1>4, <1>6 DEF Picked

PeopleOf(f, Q, S) == \A y \in Entries : y \in S <=> y \in Q \/ \E e \in Q : y \in Folk(f, e)

\* Those who are told are the players and the parties among the entries.
LEMMA WhoIsTold ==
  ASSUME NEW f, Core(f), NEW x, x.party = f.party, NEW P, NEW Q, Picked(f, P, Q),
         NEW S, S = P \cup ({GroupOf(x, p) : p \in P} \ {NoGroup})
  PROVE  PeopleOf(f, Q, S)
<1>1. f \in Finders /\ PartiesApart(f)
  BY CoreIs
<1>2. \A p : GroupOf(x, p) = GroupOf(f, p)
  BY DEF GroupOf
<1>3. \A y : y \in S <=> y \in P \/ (y # NoGroup /\ \E p \in P : y = GroupOf(f, p))
  BY <1>2
<1>4. ASSUME NEW p \in P, GroupOf(f, p) # NoGroup PROVE GroupOf(f, p) \in Q
  <2>1. PICK e \in Q : p \in Folk(f, e)
    BY DEF Picked
  <2>2. e \in Entries /\ IsEntry(f, e) /\ Folk(f, e) \subseteq Players
    BY <1>1, FolkIs DEF Picked
  <2>3. p \in Players
    BY <2>1, <2>2
  <2>4. CASE e \in Groups
    <3>1. p \in ToSet(f.party[e])
      BY <2>1, <2>4 DEF Folk
    <3> QED BY <1>1, <2>3, <2>4, <3>1, GroupOfIs
  <2>5. CASE e \notin Groups
    <3>1. p = e
      BY <2>1, <2>5 DEF Folk
    <3>2. GroupOf(f, p) = NoGroup
      BY <1>1, <2>2, <2>3, <3>1, GroupOfIs
    <3> QED BY <1>4, <3>2
  <2> QED BY <2>4, <2>5
<1>5. ASSUME NEW y \in Q PROVE y \in S
  <2>1. y \in Entries /\ IsEntry(f, y)
    BY DEF Picked
  <2>2. PICK p : p \in Folk(f, y)
    BY <1>1, <2>1, FolkIs
  <2>3. p \in P /\ p \in Players
    BY <1>1, <2>1, <2>2, FolkIs DEF Picked
  <2>4. CASE y \in Groups
    <3>1. p \in ToSet(f.party[y])
      BY <2>2, <2>4 DEF Folk
    <3>2. GroupOf(f, p) = y
      BY <1>1, <2>3, <2>4, <3>1, GroupOfIs
    <3>3. y # NoGroup
      BY <2>4, Kinds
    <3> QED BY <1>3, <2>3, <3>2, <3>3
  <2>5. CASE y \notin Groups
    <3>1. p = y
      BY <2>2, <2>5 DEF Folk
    <3> QED BY <1>3, <2>3, <3>1
  <2> QED BY <2>4, <2>5
<1> QED BY <1>3, <1>4, <1>5 DEF Picked, PeopleOf

\* The search has found one group, which is shown to its players.
LEMMA AnnounceKeeps ==
  ASSUME NEW f, Core(f), NEW x, Searched(f, {}, x), NEW i, i = Len(f.proposals) + 1,
         Len(x.proposals) = i, NEW h, h = Announce(x, i)
  PROVE  Core(h) /\ Calm(f, h)
<1> DEFINE proposal == x.proposals[i]
           Q == ToSet(proposal.queues)
           P == DOMAIN proposal.answer
           S == P \cup ({GroupOf(x, p) : p \in P} \ {NoGroup})
<1>1. /\ x \in Finders /\ x.state = f.state /\ x.old = f.old /\ x.data = f.data /\ x.check = f.check
      /\ PartiesKept(f, x)
      /\ \A j \in 1..Len(f.proposals) : x.proposals[j] = f.proposals[j]
      /\ \A j \in NewOnes(f, x) : Fresh(f, x.proposals[j])
      /\ \A e : Listed(x, e) <=> Listed(f, e) /\ e \notin {} /\ ~ Taken(f, x, e)
      /\ IsInjective(x.new \o x.current)
      /\ CacheOK(x)
  BY DEF Searched
<1>2. f \in Finders /\ PartiesApart(f) /\ Synced(f) /\ Where(f) /\ Known(f) /\ QueueOK(f)
  BY CoreIs
<1>3. f.proposals \in Seq(Proposals) /\ x.proposals \in Seq(Proposals)
  BY <1>1, <1>2, FieldsOf
<1>4. /\ i \in Nat /\ i \in 1..Len(x.proposals) /\ i - 1 = Len(f.proposals)
      /\ \A j : j \in NewOnes(f, x) <=> j = i
      /\ \A j \in 1..i : j # i => j \in 1..Len(f.proposals)
      /\ \A j \in 1..Len(f.proposals) : j \in 1..i /\ j # i
  BY <1>3 DEF NewOnes
<1>5. proposal \in Proposals /\ Fresh(f, proposal)
  BY <1>1, <1>3, <1>4
<1>6. h = [SetState(x, S, "PROPOSAL") EXCEPT !.proposals[i].announced = TRUE]
  BY DEF Announce
<1>7. proposal = x.proposals[i] /\ Q = ToSet(proposal.queues) /\ P = DOMAIN proposal.answer
  OBVIOUS
<1>8. S = P \cup ({GroupOf(x, p) : p \in P} \ {NoGroup})
  OBVIOUS
<1> HIDE DEF proposal, Q, P, S
<1>9. Picked(f, P, Q)
  BY <1>5, <1>7, PickedIs
<1>10. x.party = f.party
  BY <1>1 DEF PartiesKept
<1>11. \A y \in Entries : y \in S <=> y \in Q \/ \E e \in Q : y \in Folk(f, e)
  <2>1. PeopleOf(f, Q, S)
    BY <1>8, <1>9, <1>10, WhoIsTold
  <2> QED BY <2>1 DEF PeopleOf
<1>12. Alerted(x, i, S, h)
  BY <1>1, <1>4, <1>6, AlertedIs
<1>13. /\ h \in Finders /\ h.old = f.old
       /\ \A y \in Entries : h.state[y] = IF y \in S THEN "PROPOSAL" ELSE f.state[y]
       /\ h.data = f.data /\ h.new = x.new /\ h.current = x.current
       /\ h.compatible = x.compatible
       /\ PartiesKept(x, h) /\ h.check = f.check
       /\ h.proposals \in Seq(Proposals) /\ Len(h.proposals) = i
  BY <1>1, <1>12 DEF Alerted
<1>14. \A j \in 1..i :
         /\ h.proposals[j].queues = x.proposals[j].queues
         /\ h.proposals[j].entry = x.proposals[j].entry
         /\ h.proposals[j].group = x.proposals[j].group
         /\ h.proposals[j].answer = x.proposals[j].answer
         /\ h.proposals[j].announced = IF j = i THEN TRUE ELSE x.proposals[j].announced
  BY <1>12 DEF Alerted
<1>15. PartiesKept(f, h)
  BY <1>1, <1>13 DEF PartiesKept
<1>16. Q \subseteq Entries /\ \A e \in Q :
         /\ IsEntry(f, e) /\ f.state[e] = "QUEUED" /\ Listed(f, e)
         /\ e \in DOMAIN f.data /\ f.data[e] = Folk(f, e)
         /\ e \notin DOMAIN f.check /\ ~ Proposed(f, e)
  BY <1>9 DEF Picked
<1>17. \A e : Taken(f, x, e) <=> e \in Q
  BY <1>4, <1>7 DEF Taken
<1>18. \A e : Listed(h, e) <=> Listed(f, e) /\ e \notin Q
  <2>1. \A e : Listed(h, e) <=> Listed(x, e)
    BY <1>13 DEF Listed
  <2> QED BY <1>1, <1>17, <2>1
<1>19. \A e : Proposed(h, e) <=> Proposed(f, e) \/ e \in Q
  <2>1. ASSUME NEW e, Proposed(h, e) PROVE Proposed(f, e) \/ e \in Q
    <3>1. PICK j \in 1..i : e \in ToSet(h.proposals[j].queues)
      BY <1>13, <2>1 DEF Proposed
    <3>2. e \in ToSet(x.proposals[j].queues)
      BY <1>14, <3>1
    <3>3. CASE j = i
      BY <1>7, <3>2, <3>3
    <3>4. CASE j # i
      BY <1>1, <1>4, <3>2, <3>4 DEF Proposed
    <3> QED BY <3>3, <3>4
  <2>2. ASSUME NEW e, Proposed(f, e) PROVE Proposed(h, e)
    <3>1. PICK j \in 1..Len(f.proposals) : e \in ToSet(f.proposals[j].queues)
      BY <2>2 DEF Proposed
    <3>2. j \in 1..i /\ e \in ToSet(h.proposals[j].queues)
      BY <1>1, <1>4, <1>14, <3>1
    <3> QED BY <1>13, <3>2 DEF Proposed
  <2>3. ASSUME NEW e \in Q PROVE Proposed(h, e)
    <3>1. i \in 1..i
      BY <1>4
    <3>2. e \in ToSet(h.proposals[i].queues)
      BY <1>7, <1>14, <3>1
    <3> QED BY <1>13, <3>1, <3>2 DEF Proposed
  <2> QED BY <2>1, <2>2, <2>3
<1>20. ProposalsOK(h)
  <2>1. /\ \A j \in 1..Len(f.proposals) : Sound(f, f.proposals[j]) /\ f.proposals[j].announced
        /\ \A j, k \in 1..Len(f.proposals) :
             j # k => ToSet(f.proposals[j].queues) \cap ToSet(f.proposals[k].queues) = {}
    BY <1>2 DEF QueueOK, ProposalsOK
  <2>2. ASSUME NEW j \in 1..i PROVE Sound(h, h.proposals[j]) /\ h.proposals[j].announced
    <3>1. Sound(f, x.proposals[j]) /\ (j # i => x.proposals[j].announced)
      <4>1. CASE j = i
        BY <1>5, <1>7, <4>1 DEF Fresh
      <4>2. CASE j # i
        BY <1>1, <1>4, <2>1, <4>2
      <4> QED BY <4>1, <4>2
    <3> DEFINE a == x.proposals[j]  b == h.proposals[j]
    <3>2. Sound(f, a) /\ b.queues = a.queues /\ b.entry = a.entry /\ b.group = a.group /\ b.answer = a.answer
      BY <1>14, <3>1
    <3>3. b.announced
      BY <1>14, <3>1
    <3> HIDE DEF a, b
    <3>4. Sound(h, b)
      BY <1>13, <3>2, SoundSame
    <3> QED BY <3>3, <3>4 DEF b
  <2>3. ASSUME NEW j \in 1..i, NEW k \in 1..i, j # k
        PROVE  ToSet(h.proposals[j].queues) \cap ToSet(h.proposals[k].queues) = {}
    <3>1. \A l \in 1..i : l # i => l \in 1..Len(f.proposals) /\ h.proposals[l].queues = f.proposals[l].queues
      BY <1>1, <1>4, <1>14
    <3>2. \A l \in 1..i : l = i => ToSet(h.proposals[l].queues) = Q
      BY <1>7, <1>14
    <3>3. \A l \in 1..i : l # i => ToSet(h.proposals[l].queues) \cap Q = {}
      BY <1>16, <3>1 DEF Proposed
    <3>4. CASE j = i
      BY <2>3, <3>2, <3>3, <3>4
    <3>5. CASE k = i
      BY <2>3, <3>2, <3>3, <3>5
    <3>6. CASE j # i /\ k # i
      BY <2>1, <2>3, <3>1, <3>6
    <3> QED BY <3>4, <3>5, <3>6
  <2> QED BY <1>13, <2>2, <2>3 DEF ProposalsOK
<1>21. QueueOK(h)
  <2>1. IsInjective(h.new \o h.current)
    BY <1>1, <1>13
  <2>2. CacheOK(h)
    BY <1>1, <1>13 DEF CacheOK
  <2> QED BY <1>20, <2>1, <2>2 DEF QueueOK
<1>22. \A y \in Entries \ Q : Stays(f, h, y)
  BY <1>13, <1>18, <1>19 DEF Stays
<1>23. \A e \in Entries : Folk(h, e) = Folk(f, e)
  BY <1>15 DEF PartiesKept, Folk
<1>24. ASSUME NEW e \in Q PROVE Placed(h, e)
  <2>1. e \in Entries /\ Folk(f, e) \subseteq Players
    BY <1>2, <1>16, FolkIs
  <2>2. h.state[e] = "PROPOSAL"
    BY <1>11, <1>13, <2>1
  <2>3. \A p \in Folk(h, e) : h.state[p] = "PROPOSAL"
    <3> SUFFICES ASSUME NEW p \in Folk(f, e) PROVE h.state[p] = "PROPOSAL"
      BY <1>23, <2>1
    <3>1. p \in Entries
      BY <2>1, Kinds
    <3> QED BY <1>11, <1>13, <3>1
  <2>4. e \in Groups /\ e \in DOMAIN h.data => RolesFit(h.data[e])
    BY <1>2, <1>13 DEF Known
  <2>5. ~ Listed(h, e) /\ Proposed(h, e) /\ e \notin DOMAIN h.check /\ e \in DOMAIN h.data
    BY <1>13, <1>16, <1>18, <1>19
  <2>6. h.data[e] = Folk(h, e)
    BY <1>13, <1>16, <1>23, <2>1
  <2> QED BY <2>2, <2>3, <2>4, <2>5, <2>6 DEF Placed
<1>25. \A y \in Entries : y \in Q \/ (\E e \in Q : y \in Folk(f, e)) \/ h.state[y] = f.state[y]
  BY <1>11, <1>13
<1>26. h.party = f.party /\ Q \in SUBSET Entries /\ \A e \in Q : IsEntry(f, e)
  BY <1>15, <1>16 DEF PartiesKept
<1>27. Core(h)
  BY <1>13, <1>21, <1>22, <1>24, <1>25, <1>26, EntriesMove
<1>28. Calm(f, h)
  <2>1. ASSUME NEW p \in Players, f.state[p] \in Idle PROVE h.state[p] \in Idle
    <3>1. p \in Entries
      BY Kinds
    <3>2. \A e \in Q : p # e
      BY <1>16, <2>1 DEF Idle
    <3>3. \A e \in Q : p \notin Folk(f, e)
      <4> SUFFICES ASSUME NEW e \in Q, p \in Folk(f, e) PROVE FALSE
        OBVIOUS
      <4>1. f.state[e] = "QUEUED" /\ e \in Entries
        BY <1>16
      <4>2. f.state[e] \notin Idle
        BY <4>1 DEF Idle
      <4> QED BY <1>2, <2>1, <4>1, <4>2, FolkSynced
    <3> QED BY <1>11, <1>13, <2>1, <3>1, <3>2, <3>3
  <2>2. ASSUME \A j \in 1..Len(f.proposals) : f.proposals[j].group \in f.lfg \cup {NoGroup},
               NEW j \in 1..i
        PROVE  h.proposals[j].group \in f.lfg \cup {NoGroup}
    <3>1. CASE j = i
      BY <1>5, <1>7, <1>14, <3>1 DEF Fresh
    <3>2. CASE j # i
      BY <1>1, <1>4, <1>14, <2>2, <3>2
    <3> QED BY <3>1, <3>2
  <2>3. \A g \in Groups : h.old[g] = f.old[g] \/ h.old[g] = "NONE"
    BY <1>13
  <2> QED BY <1>13, <1>15, <2>1, <2>2, <2>3 DEF Calm
<1> QED BY <1>27, <1>28

\* LFGMgr::Update keeps the invariant.
LEMMA UpdateStep ==
  ASSUME FinderOK(finder), NEW checks \in SUBSET DOMAIN finder.check,
         NEW expired \in 0..Len(finder.proposals), Update(checks, expired), Patient
  PROVE  FinderOK(finder')
<1> DEFINE k == RoleChecksFail(finder, checks)
           f == Expired(k, expired)
           x == FindGroups(f)
           i == Len(x.proposals)
<1>1. Core(finder) /\ InvitesOK(finder) /\ GroupsOK(finder)
  BY DEF FinderOK
<1>2. /\ Patient => Len(x.proposals) <= Len(f.proposals) + 1
      /\ finder' = IF Len(x.proposals) = Len(f.proposals) THEN x ELSE Announce(x, i)
  BY DEF Update
<1>3. Core(k) /\ Calm(finder, k) /\ QueueKept(finder, k)
  BY <1>1, RoleChecksFailKeeps
<1>4. expired \in 0..Len(k.proposals)
  BY <1>3 DEF QueueKept
<1> HIDE DEF k
<1>5. Fell(k, expired, f)
  BY <1>3, <1>4, ExpiredKeeps
<1> HIDE DEF f
<1>6. Core(f) /\ Calm(k, f)
  BY <1>5 DEF Fell
<1>7. InvitesOK(k) /\ GroupsOK(k)
  BY <1>1, <1>3, CalmKeeps
<1>8. InvitesOK(f) /\ GroupsOK(f)
  BY <1>6, <1>7, CalmKeeps
<1>9. Searched(f, {}, x)
  BY <1>6, <1>8, FindGroupsIs
<1> HIDE DEF x
<1>10. /\ f.proposals \in Seq(Proposals) /\ x.proposals \in Seq(Proposals)
       /\ Len(f.proposals) <= Len(x.proposals)
  BY <1>6, <1>9, CoreIs, FieldsOf DEF Searched
<1>11. CASE Len(x.proposals) = Len(f.proposals)
  <2>1. Core(x) /\ Calm(f, x)
    BY <1>6, <1>9, <1>11, NobodyFound
  <2>2. InvitesOK(x) /\ GroupsOK(x)
    BY <1>8, <2>1, CalmKeeps
  <2> QED BY <1>2, <1>11, <2>1, <2>2 DEF FinderOK
<1>12. CASE Len(x.proposals) # Len(f.proposals)
  <2> DEFINE h == Announce(x, i)
  <2>1. i = Len(f.proposals) + 1
    BY <1>2, <1>10, <1>12
  <2>2. finder' = h
    BY <1>2, <1>12
  <2>3. h = Announce(x, i) /\ Len(x.proposals) = i
    OBVIOUS
  <2> HIDE DEF h, i
  <2>4. Core(h) /\ Calm(f, h)
    BY <1>6, <1>9, <2>1, <2>3, AnnounceKeeps
  <2>5. InvitesOK(h) /\ GroupsOK(h)
    BY <1>8, <2>4, CalmKeeps
  <2> QED BY <2>2, <2>4, <2>5 DEF FinderOK
<1> QED BY <1>11, <1>12
-----------------------------------------------------------------------------
(***************************************************************************)
(* The invariant.                                                          *)
(***************************************************************************)
LEMMA PartyIsLarge == Party # <<>> => Len(Party) >= 2
<1> DEFINE q == Party
<1>1. q \in Seq(Players) /\ Len(q) # 1
  BY FinderAssumption
<1> HIDE DEF q
<1>2. q # <<>> => Len(q) >= 2
  BY <1>1
<1> QED BY <1>2 DEF q

LEMMA InitCore == Init => FinderOK(finder)
<1> SUFFICES ASSUME Init PROVE FinderOK(finder)
  OBVIOUS
<1> DEFINE party == [g \in Groups |-> IF g = 1 THEN Party ELSE <<>>]
<1>1. /\ finder.state = [e \in Entries |-> "NONE"] /\ finder.old = [e \in Entries |-> "NONE"]
      /\ finder.data = <<>> /\ finder.new = <<>> /\ finder.current = <<>>
      /\ finder.compatible = <<>> /\ finder.proposals = <<>> /\ finder.check = <<>>
      /\ finder.party = party /\ finder.made = IF Party = <<>> THEN 0 ELSE 1
      /\ finder.lfg = {} /\ finder.invites = 0 /\ finder.invite = [p \in Players |-> NoInvite]
  BY DEF Init
<1>2. DOMAIN <<>> = {} /\ ToSet(<<>>) = {} /\ Len(<<>>) = 0 /\ <<>> \o <<>> = <<>>
  BY DEF ToSet
<1>3. /\ Party \in Seq(Players) /\ IsInjective(Party) /\ Len(Party) # 1
      /\ Party # <<>> => Groups # {}
  BY FinderAssumption
<1>4. \A g \in Groups : party[g] = <<>> \/ (g = 1 /\ party[g] = Party)
  OBVIOUS
<1>5. finder \in Finders
  <2>1. \A S, T : <<>> \in Partial(S, T)
    <3> SUFFICES ASSUME NEW S, NEW T PROVE <<>> \in Partial(S, T)
      OBVIOUS
    <3> DEFINE m == <<>>
    <3>1. DOMAIN m \subseteq S /\ m \in [DOMAIN m -> T]
      OBVIOUS
    <3> HIDE DEF m
    <3>2. m \in Partial(S, T)
      BY <3>1, PartialIs
    <3> QED BY <3>2 DEF m
  <2>2. "NONE" \in States /\ "NONE" \in Idle
    BY DEF States, Idle
  <2>3. party \in [Groups -> Seq(Players)]
    BY <1>3
  <2>4. <<>> \in Seq(Entries) /\ <<>> \in Seq(Proposals)
    OBVIOUS
  <2>5. finder = [state |-> finder.state, old |-> finder.old, data |-> finder.data,
                  new |-> finder.new, current |-> finder.current, compatible |-> finder.compatible,
                  proposals |-> finder.proposals, check |-> finder.check, party |-> finder.party,
                  made |-> finder.made, lfg |-> finder.lfg, invites |-> finder.invites,
                  invite |-> finder.invite]
    BY DEF Init
  <2>6. /\ finder.state \in [Entries -> States] /\ finder.old \in [Entries -> Idle]
        /\ finder.made \in Nat /\ finder.lfg \in SUBSET Groups /\ finder.invites \in Nat
        /\ finder.invite \in [Players -> Players \cup Groups \cup {NoInvite}]
    BY <1>1, <2>2
  <2>7. /\ finder.data \in Partial(Entries, Crowds) /\ finder.compatible \in Partial(Sets, Verdicts)
        /\ finder.check \in Partial(Groups, Checks) /\ finder.party \in [Groups -> Seq(Players)]
        /\ finder.new \in Seq(Entries) /\ finder.current \in Seq(Entries)
        /\ finder.proposals \in Seq(Proposals)
    BY <1>1, <2>1, <2>3, <2>4
  <2> QED BY <2>5, <2>6, <2>7 DEF Finders
<1> HIDE DEF party
<1>6. PartiesApart(finder)
  <2>1. IsInjective(<<>>)
    BY <1>2 DEF IsInjective
  <2>2. \A g \in Groups : IsInjective(party[g])
    BY <1>3, <1>4, <2>1
  <2>3. \A g, h \in Groups : g # h => ToSet(party[g]) \cap ToSet(party[h]) = {}
    BY <1>2, <1>4
  <2> QED BY <1>1, <2>2, <2>3 DEF PartiesApart
<1>7. \A e \in Entries : finder.state[e] = "NONE" /\ finder.old[e] = "NONE"
  BY <1>1
<1>8. Synced(finder)
  <2>1. ASSUME NEW g \in Groups, NEW p \in ToSet(party[g]) PROVE p \in Entries
    <3>1. party[g] \in Seq(Players)
      <4>1. <<>> \in Seq(Players)
        OBVIOUS
      <4> QED BY <1>3, <1>4, <4>1
    <3> QED BY <3>1, Kinds DEF ToSet
  <2>2. Groups \subseteq Entries
    BY Kinds
  <2> QED BY <1>1, <1>7, <2>1, <2>2 DEF Synced, Idle
<1>9. \A e : ~ Listed(finder, e) /\ ~ Proposed(finder, e)
  <2>1. \A i : i \notin 1..0
    OBVIOUS
  <2> QED BY <1>1, <1>2, <2>1 DEF Listed, Proposed
<1>10. Where(finder)
  BY <1>1, <1>2, <1>7, <1>9 DEF Where
<1>11. Known(finder)
  BY <1>1, <1>2 DEF Known
<1>12. ProposalsOK(finder)
  <2>1. \A i : i \notin 1..0
    OBVIOUS
  <2> QED BY <1>1, <1>2, <2>1 DEF ProposalsOK
<1>13. IsInjective(finder.new \o finder.current)
  BY <1>1, <1>2 DEF IsInjective
<1>14. CacheOK(finder)
  BY <1>1, <1>2 DEF CacheOK
<1>15. Core(finder)
  BY <1>5, <1>6, <1>8, <1>10, <1>11, <1>12, <1>13, <1>14 DEF Core
<1>16. InvitesOK(finder)
  <2>1. NoInvite \notin Players /\ NoInvite \notin Groups
    BY FinderAssumption DEF Entries
  <2> QED BY <1>1, <2>1 DEF InvitesOK
<1>17. GroupsOK(finder)
  <2>1. \A g \in Groups : finder.old[g] = "NONE"
    BY <1>7, Kinds
  <2>2. ASSUME NEW g \in Groups, party[g] # <<>> PROVE Len(party[g]) >= 2
    <3>1. party[g] = Party
      BY <1>4, <2>2
    <3> QED BY <2>2, <3>1, PartyIsLarge
  <2>3. ASSUME NEW g \in Groups, g > finder.made PROVE party[g] = <<>>
    <3>1. g \in Nat
      BY QueueAssumption, FS_CardinalityType
    <3> QED BY <1>1, <1>4, <2>3, <3>1
  <2>4. \A i : i \notin 1..0
    OBVIOUS
  <2> QED BY <1>1, <1>2, <2>1, <2>2, <2>3, <2>4 DEF GroupsOK
<1> QED BY <1>15, <1>16, <1>17 DEF FinderOK

LEMMA NextKeeps ==
  ASSUME Patient, FinderOK(finder), Next
  PROVE  FinderOK(finder')
<1>1. ASSUME NEW p \in Players, LeaveQueue(p) PROVE FinderOK(finder')
  BY <1>1, LeaveQueueStep
<1>2. ASSUME NEW p \in Players, Accept(p) PROVE FinderOK(finder')
  BY <1>2, AcceptStep
<1>3. ASSUME NEW p \in Players, Decline(p) PROVE FinderOK(finder')
  BY <1>3, DeclineStep
<1>4. ASSUME NEW p \in Players, NEW b \in BOOLEAN, Join(p, b) PROVE FinderOK(finder')
  BY <1>4, JoinStep
<1>5. ASSUME NEW p \in Players, NEW b \in BOOLEAN, ChooseRoles(p, b) PROVE FinderOK(finder')
  BY <1>5, ChooseRolesStep
<1>6. ASSUME NEW p \in Players, NEW b \in BOOLEAN, Answer(p, b) PROVE FinderOK(finder')
  BY <1>6, AnswerStep
<1>7. ASSUME NEW p \in Players, NEW b \in BOOLEAN, LeaveParty(p, b) PROVE FinderOK(finder')
  BY <1>7, LeavePartyStep
<1>8. ASSUME NEW p \in Players, NEW b \in BOOLEAN, Logout(p, b) PROVE FinderOK(finder')
  BY <1>8, LogoutStep
<1>9. ASSUME NEW p \in Players, NEW q \in Players, Invite(p, q) PROVE FinderOK(finder')
  BY <1>9, InviteStep
<1>10. ASSUME NEW g \in Groups, FinishDungeon(g) PROVE FinderOK(finder')
  BY <1>10, FinishDungeonStep
<1>11. ASSUME NEW g \in Groups, LastOneOut(g) PROVE FinderOK(finder')
  BY <1>11, LastOneOutStep
<1>12. ASSUME NEW checks \in SUBSET DOMAIN finder.check, NEW expired \in 0..Len(finder.proposals),
              Update(checks, expired)
       PROVE  FinderOK(finder')
  BY <1>12, UpdateStep
<1> QED BY <1>1, <1>2, <1>3, <1>4, <1>5, <1>6, <1>7, <1>8, <1>9, <1>10, <1>11, <1>12 DEF Next

IInv == FinderOK(finder)

(***************************************************************************)
(* The invariant holds as long as players leave alone what the finder      *)
(* cannot cope with, see Patient.                                          *)
(***************************************************************************)
THEOREM FinderInvariance == Patient /\ Spec => []IInv
<1>1. Init => IInv
  BY InitCore DEF IInv
<1>2. ASSUME Patient PROVE IInv /\ [Next]_vars => IInv'
  <2> SUFFICES ASSUME IInv, [Next]_vars PROVE IInv'
    OBVIOUS
  <2>1. CASE Next
    BY <1>2, <2>1, NextKeeps DEF IInv
  <2>2. CASE UNCHANGED vars
    BY <2>2 DEF vars, IInv
  <2> QED BY <2>1, <2>2
<1>3. Patient => [](Patient)
  OBVIOUS
<1> QED BY <1>1, <1>2, <1>3, PTL DEF Spec

-----------------------------------------------------------------------------
LEMMA DistinctEntries ==
  ASSUME NEW f, Core(f), NEW d \in DOMAIN f.data, NEW e \in DOMAIN f.data, d # e
  PROVE  f.data[d] \cap f.data[e] = {}
<1>1. f \in Finders /\ PartiesApart(f) /\ Where(f) /\ Known(f)
  BY CoreIs
<1>2. d \in Entries /\ e \in Entries
  BY <1>1, FieldsOf, PartialIs
<1>3. IsEntry(f, d) /\ IsEntry(f, e) /\ f.data[d] = Folk(f, d) /\ f.data[e] = Folk(f, e)
  BY <1>1, <1>2 DEF Where, Known
<1> QED BY <1>1, <1>2, <1>3, FolkApart

LEMMA DistinctProposals ==
  ASSUME NEW f, Core(f), NEW i \in 1..Len(f.proposals), NEW j \in 1..Len(f.proposals), i # j
  PROVE  DOMAIN f.proposals[i].answer \cap DOMAIN f.proposals[j].answer = {}
<1> DEFINE a == f.proposals[i]  b == f.proposals[j]
           Q == ToSet(a.queues)  R == ToSet(b.queues)
<1>1. ProposalsOK(f)
  BY CoreIs DEF QueueOK
<1>2. Sound(f, a) /\ Sound(f, b) /\ Q \cap R = {}
  BY <1>1 DEF ProposalsOK
<1>3. \A e \in Q : e \in DOMAIN f.data
  BY ProposedIs DEF Proposed
<1>4. \A e \in R : e \in DOMAIN f.data
  BY ProposedIs DEF Proposed
<1> HIDE DEF a, b
<1>5. /\ DOMAIN a.answer = UNION {f.data[e] : e \in Q}
      /\ DOMAIN b.answer = UNION {f.data[e] : e \in R}
  BY <1>2 DEF Sound
<1>6. \A d \in Q : \A e \in R : f.data[d] \cap f.data[e] = {}
  BY <1>2, <1>3, <1>4, DistinctEntries
<1>7. DOMAIN a.answer \cap DOMAIN b.answer = {}
  BY <1>5, <1>6
<1> QED BY <1>7 DEF a, b

(***************************************************************************)
(* The finder is a record of the fields that Init gives it, with what they *)
(* may hold.                                                               *)
(***************************************************************************)
THEOREM FinderTypes == Patient /\ Spec => []TypeOK
<1>1. IInv => TypeOK
  <2> SUFFICES ASSUME IInv PROVE TypeOK
    OBVIOUS
  <2>1. finder \in Finders
    BY CoreIs DEF IInv, FinderOK
  <2>2. /\ finder.state \in [Entries -> States] /\ finder.old \in [Entries -> Idle]
        /\ finder.data \in Partial(Entries, Crowds) /\ finder.check \in Partial(Groups, Checks)
        /\ finder.invite \in [Players -> Players \cup Groups \cup {NoInvite}]
    BY <2>1, FieldsOf
  <2>3. DOMAIN finder.data \subseteq Entries /\ DOMAIN finder.check \subseteq Groups
    BY <2>2, PartialIs
  <2>4. Idle \subseteq States
    BY DEF Idle, States
  <2>5. finder.old \in [Entries -> States]
    BY <2>2, <2>4
  <2> QED BY <2>2, <2>3, <2>5 DEF TypeOK
<1> QED BY <1>1, FinderInvariance, PTL

(***************************************************************************)
(* Nobody is in two entries of the queue or is shown two proposals, and no *)
(* entry is listed twice, whatever joins, leaves, falls and runs out.      *)
(***************************************************************************)
THEOREM NobodyIsTwice == Patient /\ Spec => []NobodyWaitsTwice
<1>1. IInv => NobodyWaitsTwice
  <2> SUFFICES ASSUME IInv PROVE NobodyWaitsTwice
    OBVIOUS
  <2>1. Core(finder) /\ IsInjective(finder.new \o finder.current)
    BY DEF IInv, FinderOK, Core
  <2>2. \A d, e \in DOMAIN finder.data : d # e => finder.data[d] \cap finder.data[e] = {}
    BY <2>1, DistinctEntries
  <2>3. \A i, j \in 1..Len(finder.proposals) :
          i # j => DOMAIN finder.proposals[i].answer \cap DOMAIN finder.proposals[j].answer = {}
    BY <2>1, DistinctProposals
  <2> QED BY <2>1, <2>2, <2>3 DEF NobodyWaitsTwice, Asked
<1> QED BY <1>1, FinderInvariance, PTL

(***************************************************************************)
(* What a player is told that he waits for is there: the role check of his *)
(* party, his entry in a list of the queue, or a proposal that he is shown *)
(* and can answer.                                                         *)
(***************************************************************************)
THEOREM NobodyWaitsForNothing == Patient /\ Spec => []StatesAreBacked
<1>1. IInv => StatesAreBacked
  <2> SUFFICES ASSUME IInv PROVE StatesAreBacked
    OBVIOUS
  <2> DEFINE f == finder
  <2>1. Core(f)
    BY DEF IInv, FinderOK
  <2> HIDE DEF f
  <2>2. f \in Finders /\ PartiesApart(f) /\ Synced(f) /\ Where(f) /\ Known(f) /\ QueueOK(f)
    BY <2>1, CoreIs
  <2>3. \A i \in 1..Len(f.proposals) : Sound(f, f.proposals[i]) /\ f.proposals[i].announced
    BY <2>2 DEF QueueOK, ProposalsOK
  <2>4. ASSUME NEW p \in Players, NEW e, e = IF GroupOf(f, p) = NoGroup THEN p ELSE GroupOf(f, p)
        PROVE  /\ f.state[p] = "ROLECHECK" => e \in DOMAIN f.check
               /\ f.state[p] = "PROPOSAL" =>
                     \E i \in 1..Len(f.proposals) :
                        f.proposals[i].announced /\ p \in DOMAIN f.proposals[i].answer
               /\ f.state[p] = "QUEUED" => e \in DOMAIN f.data /\ Listed(f, e)
    <3>1. e \in Entries /\ IsEntry(f, e) /\ p \in Folk(f, e)
      BY <2>2, <2>4, EntryOf
    <3>2. f.state[p] = f.state[e] \/ f.state[p] \in Idle
      BY <2>2, <3>1, FolkSynced
    <3>3. f.state[p] = "ROLECHECK" => e \in DOMAIN f.check
      BY <2>2, <3>1, <3>2 DEF Where, Idle
    <3>4. f.state[p] = "QUEUED" => e \in DOMAIN f.data /\ Listed(f, e)
      BY <2>2, <3>1, <3>2 DEF Where, Idle
    <3>5. ASSUME f.state[p] = "PROPOSAL"
          PROVE  \E i \in 1..Len(f.proposals) :
                    f.proposals[i].announced /\ p \in DOMAIN f.proposals[i].answer
      <4>1. Proposed(f, e) /\ e \in DOMAIN f.data
        BY <2>2, <3>1, <3>2, <3>5 DEF Where, Idle
      <4>2. PICK i \in 1..Len(f.proposals) : e \in ToSet(f.proposals[i].queues)
        BY <4>1 DEF Proposed
      <4>3. p \in f.data[e]
        BY <2>2, <3>1, <4>1 DEF Known
      <4>4. DOMAIN f.proposals[i].answer = UNION {f.data[d] : d \in ToSet(f.proposals[i].queues)}
        BY <2>3 DEF Sound
      <4> QED BY <2>3, <4>2, <4>3, <4>4
    <3> QED BY <3>3, <3>4, <3>5
  <2>5. \A e \in Entries : Listed(f, e) => e \in DOMAIN f.data /\ f.state[e] = "QUEUED"
    BY <2>2 DEF Where
  <2> QED BY <2>4, <2>5 DEF StatesAreBacked, f, Shown, Asked
<1> QED BY <1>1, FinderInvariance, PTL
-----------------------------------------------------------------------------
(***************************************************************************)
(* Who has come into a dungeon has come by a proposal that has succeeded.  *)
(***************************************************************************)
LEMMA JoinQuiet ==
  ASSUME NEW p \in Players, NEW refused, Join(p, refused)
  PROVE  NoneEnters(finder, finder')
<1> DEFINE g == GroupOf(finder, p)
           e == IF g = NoGroup THEN p ELSE g
           f == IF finder.state[e] = "QUEUED" THEN RemoveFromQueue(finder, {e}) ELSE finder
           members == Members(f, g)
           before == IF g \in DOMAIN f.check THEN f.check[g] ELSE [asked |-> {}, answered |-> {}]
           put == [f EXCEPT !.check = Put(@, g, [asked |-> before.asked \cup members,
                                                 answered |-> before.answered \ members])]
           asking == SetState(put, members \cup {g}, "ROLECHECK")
           b == AddQueueData(f, p, {p})
           chosen == TRUE
<1>1. \/ finder' = f
      \/ finder' = SetState(b, {p}, "QUEUED")
      \/ finder' = UpdateRoleCheck(asking, g, p, chosen)
  BY DEF Join
<1>2. NoneEnters(finder, f)
  BY RemoveFromQueueQuiet, NothingDone
<1> HIDE DEF f, e, members, before
<1>3. NoneEnters(f, put)
  <2>1. SameStatesIn(f, put)
    BY DEF SameStatesIn, HasStates
  <2> QED BY <2>1, SameStates
<1> HIDE DEF put
<1>4. NoneEnters(put, asking)
  BY SetStateQuiet
<1>5. NoneEnters(f, b)
  BY AddQueueDataQuiet
<1> HIDE DEF b, asking, chosen
<1>6. NoneEnters(b, SetState(b, {p}, "QUEUED"))
  BY SetStateQuiet
<1>7. NoneEnters(asking, UpdateRoleCheck(asking, g, p, chosen))
  BY UpdateRoleCheckQuiet
<1>8. NoneEnters(finder, SetState(b, {p}, "QUEUED"))
  BY <1>2, <1>5, <1>6, NoneEntersTwice
<1>9. NoneEnters(finder, UpdateRoleCheck(asking, g, p, chosen))
  BY <1>2, <1>3, <1>4, <1>7, NoneEntersTwice
<1> QED BY <1>1, <1>2, <1>8, <1>9

LEMMA InviteQuiet ==
  ASSUME NEW p \in Players, NEW q \in Players, Invite(p, q)
  PROVE  NoneEnters(finder, finder')
<1> DEFINE counted == [finder EXCEPT !.invites = @ + 1]
           pending == [counted EXCEPT !.invite[p] = p, !.invite[q] = p]
           asked == [counted EXCEPT !.invite[q] = GroupOf(finder, p)]
<1>1. finder' = LeaveLfg(pending, p) \/ finder' = asked
  BY DEF Invite
<1>2. SameStatesIn(finder, pending) /\ SameStatesIn(finder, asked)
  BY DEF SameStatesIn, HasStates
<1> HIDE DEF pending, asked
<1>3. NoneEnters(pending, LeaveLfg(pending, p))
  BY LeaveLfgQuiet
<1> QED BY <1>1, <1>2, <1>3, SameStates, NoneEntersTwice

LEMMA AcceptQuiet ==
  ASSUME NEW q \in Players, Accept(q)
  PROVE  NoneEnters(finder, finder')
<1> DEFINE from == finder.invite[q]
           f == [finder EXCEPT !.invite[q] = NoInvite]
           g == finder.made + 1
           k == [f EXCEPT !.invite[from] = NoInvite, !.made = g]
           created == AddMember(k, g, from)
<1>1. finder' = f \/ finder' = AddMember(f, from, q) \/ finder' = AddMember(created, g, q)
  BY DEF Accept
<1>2. SameStatesIn(finder, f)
  BY DEF SameStatesIn, HasStates
<1> HIDE DEF f
<1>3. SameStatesIn(f, k)
  BY DEF SameStatesIn, HasStates
<1>4. NoneEnters(k, created)
  <2> HIDE DEF k, from, g
  <2> QED BY AddMemberQuiet
<1> HIDE DEF k, created, from, g
<1>5. NoneEnters(f, AddMember(f, from, q)) /\ NoneEnters(created, AddMember(created, g, q))
  BY AddMemberQuiet
<1>6. NoneEnters(finder, f) /\ NoneEnters(f, k)
  BY <1>2, <1>3, SameStates
<1>7. NoneEnters(finder, AddMember(f, from, q))
  BY <1>5, <1>6, NoneEntersTwice
<1>8. NoneEnters(finder, AddMember(created, g, q))
  BY <1>4, <1>5, <1>6, NoneEntersTwice
<1> QED BY <1>1, <1>6, <1>7, <1>8

LEMMA LogoutQuiet ==
  ASSUME NEW p \in Players, NEW inside, Logout(p, inside)
  PROVE  NoneEnters(finder, finder')
<1> DEFINE f == Uninvite(finder, p)
           g == GroupOf(f, p)
           default == TRUE
           left == IF g = NoGroup THEN f ELSE RemoveMember(f, g, p, default, inside)
<1>1. finder' = LeaveLfg(left, p)
  BY DEF Logout
<1>2. NoneEnters(finder, f)
  BY UninviteQuiet
<1> HIDE DEF f, g, default
<1>3. NoneEnters(f, left)
  BY RemoveMemberQuiet, NothingDone
<1> HIDE DEF left
<1>4. NoneEnters(left, LeaveLfg(left, p))
  BY LeaveLfgQuiet
<1> QED BY <1>1, <1>2, <1>3, <1>4, NoneEntersTwice

LEMMA LeavePartyQuiet ==
  ASSUME NEW p \in Players, NEW inside, LeaveParty(p, inside)
  PROVE  NoneEnters(finder, finder')
<1> DEFINE default == FALSE
<1>1. finder' = RemoveMember(finder, GroupOf(finder, p), p, default, inside)
  BY DEF LeaveParty
<1> HIDE DEF default
<1> QED BY <1>1, RemoveMemberQuiet

LEMMA LastOneOutQuiet ==
  ASSUME NEW g \in Groups, LastOneOut(g)
  PROVE  NoneEnters(finder, finder')
<1> DEFINE left == LeaveLfg(finder, g)
<1>1. finder' = Disband(left, g)
  BY DEF LastOneOut
<1>2. NoneEnters(finder, left)
  BY LeaveLfgQuiet
<1> HIDE DEF left
<1>3. NoneEnters(left, Disband(left, g))
  BY DisbandQuiet
<1> QED BY <1>1, <1>2, <1>3, NoneEntersTwice

LEMMA FinishDungeonQuiet ==
  ASSUME NEW g \in Groups, FinishDungeon(g)
  PROVE  NoneEnters(finder, finder')
<1>1. finder' = SetState(finder, Members(finder, g) \cup {g}, "FINISHED")
  BY DEF FinishDungeon
<1> QED BY <1>1, SetStateQuiet

LEMMA UpdateQuiet ==
  ASSUME FinderOK(finder), NEW checks \in SUBSET DOMAIN finder.check,
         NEW expired \in 0..Len(finder.proposals), Update(checks, expired)
  PROVE  NoneEnters(finder, finder')
<1> DEFINE k == RoleChecksFail(finder, checks)
           f == Expired(k, expired)
           x == FindGroups(f)
           i == Len(x.proposals)
<1>1. Core(finder) /\ InvitesOK(finder) /\ GroupsOK(finder)
  BY DEF FinderOK
<1>2. finder' = IF Len(x.proposals) = Len(f.proposals) THEN x ELSE Announce(x, i)
  BY DEF Update
<1>3. Core(k) /\ Calm(finder, k) /\ QueueKept(finder, k)
  BY <1>1, RoleChecksFailKeeps
<1>4. NoneEnters(finder, k)
  BY RoleChecksFailQuiet
<1>5. expired \in 0..Len(k.proposals)
  BY <1>3 DEF QueueKept
<1> HIDE DEF k
<1>6. Fell(k, expired, f)
  BY <1>3, <1>5, ExpiredKeeps
<1> HIDE DEF f
<1>7. Core(f) /\ Calm(k, f) /\ NoneEnters(k, f)
  BY <1>6 DEF Fell
<1>8. GroupsOK(f)
  BY <1>1, <1>3, <1>7, CalmKeeps
<1>9. Searched(f, {}, x)
  BY <1>7, <1>8, FindGroupsIs
<1> HIDE DEF x
<1>10. NoneEnters(f, x)
  <2>1. HasStates(x)
    <3>1. x \in Finders
      BY <1>9 DEF Searched
    <3> QED BY <3>1 DEF Finders, HasStates
  <2> QED BY <1>9, <2>1 DEF Searched, NoneEnters, InDungeon
<1>11. NoneEnters(x, Announce(x, i))
  <2> DEFINE players == DOMAIN x.proposals[i].answer
             groups == {GroupOf(x, p) : p \in players} \ {NoGroup}
             y == SetState(x, players \cup groups, "PROPOSAL")
             h == [y EXCEPT !.proposals[i].announced = TRUE]
  <2>1. Announce(x, i) = h
    BY DEF Announce
  <2> HIDE DEF players, groups, i
  <2>2. NoneEnters(x, y)
    BY SetStateQuiet
  <2> HIDE DEF y
  <2>3. SameStatesIn(y, h)
    BY DEF SameStatesIn, HasStates
  <2> HIDE DEF h
  <2> QED BY <2>1, <2>2, <2>3, SameStates, NoneEntersTwice
<1>12. NoneEnters(finder, x)
  BY <1>4, <1>7, <1>10, NoneEntersTwice
<1>13. NoneEnters(finder, Announce(x, i))
  BY <1>11, <1>12, NoneEntersTwice
<1> QED BY <1>2, <1>12, <1>13
\* The players of the proposal i, and they alone, go into a dungeon together.
Gathers(f, i, P, h) ==
  /\ P = DOMAIN f.proposals[i].answer /\ P \subseteq Players
  /\ \A x \in P : h.state[x] = "DUNGEON"
  /\ \A x \in Players : x \notin P => h.state[x] \in {f.state[x], "NONE"}
  /\ \E g \in h.lfg : ToSet(h.party[g]) = P

LEMMA AnswerGathers ==
  ASSUME FinderOK(finder), NEW p \in Players, NEW agree, Answer(p, agree)
  PROVE  \/ NoneEnters(finder, finder')
         \/ \E i \in 1..Len(finder.proposals) :
               Gathers(finder, i, DOMAIN finder.proposals[i].answer, finder')
<1>1. Core(finder) /\ finder \in Finders /\ InvitesOK(finder) /\ GroupsOK(finder)
  BY CoreIs DEF FinderOK
<1>2. PICK i \in 1..Len(finder.proposals) :
        LET proposal == finder.proposals[i]
            answered == [finder EXCEPT !.proposals[i].answer[p] = "AGREE"]
        IN  /\ p \in DOMAIN proposal.answer
            /\ IF ~agree THEN finder' = Deny(finder, i, p)
               ELSE IF \E q \in DOMAIN proposal.answer \ {p} : proposal.answer[q] # "AGREE"
               THEN finder' = answered
               ELSE /\ finder.made < Cardinality(Groups)
                    /\ \E leader \in DOMAIN proposal.answer :
                          finder' = ProposalSucceeds(answered, i, leader)
  BY DEF Answer
<1> DEFINE answered == WithAnswer(finder, i, p, "AGREE")
<1>3. /\ p \in DOMAIN finder.proposals[i].answer
      /\ \/ finder' = Deny(finder, i, p)
         \/ finder' = answered
         \/ /\ finder.made < Cardinality(Groups)
            /\ \E leader \in DOMAIN finder.proposals[i].answer :
                  finder' = ProposalSucceeds(answered, i, leader)
  BY <1>2 DEF WithAnswer
<1>4. Answered(finder, i, p, "AGREE", answered)
  BY <1>1, <1>3, AnswerIs
<1>5. NoneEnters(finder, answered)
  <2>1. SameStatesIn(finder, answered)
    BY DEF SameStatesIn, HasStates, WithAnswer
  <2> QED BY <2>1, SameStates
<1> HIDE DEF answered
<1>6. FinderOK(answered)
  <2>1. Core(answered) /\ Calm(finder, answered)
    BY <1>1, <1>4, AnswerKeeps
  <2> QED BY <1>1, <2>1, CalmKeeps DEF FinderOK
<1>7. NoneEnters(finder, Deny(finder, i, p))
  BY DenyQuiet
<1>8. ASSUME finder.made < Cardinality(Groups),
             NEW leader \in DOMAIN finder.proposals[i].answer,
             finder' = ProposalSucceeds(answered, i, leader)
      PROVE  Gathers(finder, i, DOMAIN finder.proposals[i].answer, finder')
  <2> DEFINE P == DOMAIN answered.proposals[i].answer
  <2>1. /\ answered.made < Cardinality(Groups) /\ i \in 1..Len(answered.proposals)
        /\ P = DOMAIN finder.proposals[i].answer /\ answered.state = finder.state
    BY <1>4, <1>8 DEF Answered, PartiesKept
  <2>2. leader \in P /\ P = DOMAIN answered.proposals[i].answer
    BY <1>8, <2>1
  <2> HIDE DEF P
  <2>3. Succeeded(answered, i, P, finder')
    BY <1>6, <1>8, <2>1, <2>2, SucceedsKeeps
  <2>4. Gathers(finder, i, P, finder')
    BY <2>1, <2>3 DEF Succeeded, Gathers
  <2> QED BY <2>1, <2>4
<1> QED BY <1>3, <1>5, <1>7, <1>8

LEMMA NextGathers ==
  ASSUME FinderOK(finder), Next
  PROVE  \/ NoneEnters(finder, finder')
         \/ \E i \in 1..Len(finder.proposals) :
               Gathers(finder, i, DOMAIN finder.proposals[i].answer, finder')
<1>1. ASSUME NEW p \in Players, LeaveQueue(p) PROVE NoneEnters(finder, finder')
  BY <1>1, LeaveLfgQuiet DEF LeaveQueue
<1>2. ASSUME NEW p \in Players, Accept(p) PROVE NoneEnters(finder, finder')
  BY <1>2, AcceptQuiet
<1>3. ASSUME NEW p \in Players, Decline(p) PROVE NoneEnters(finder, finder')
  BY <1>3, UninviteQuiet DEF Decline
<1>4. ASSUME NEW p \in Players, NEW b \in BOOLEAN, Join(p, b) PROVE NoneEnters(finder, finder')
  BY <1>4, JoinQuiet
<1>5. ASSUME NEW p \in Players, NEW b \in BOOLEAN, ChooseRoles(p, b) PROVE NoneEnters(finder, finder')
  BY <1>5, UpdateRoleCheckQuiet DEF ChooseRoles
<1>6. ASSUME NEW p \in Players, NEW b \in BOOLEAN, Answer(p, b)
      PROVE  \/ NoneEnters(finder, finder')
             \/ \E i \in 1..Len(finder.proposals) :
                   Gathers(finder, i, DOMAIN finder.proposals[i].answer, finder')
  BY <1>6, AnswerGathers
<1>7. ASSUME NEW p \in Players, NEW b \in BOOLEAN, LeaveParty(p, b) PROVE NoneEnters(finder, finder')
  BY <1>7, LeavePartyQuiet
<1>8. ASSUME NEW p \in Players, NEW b \in BOOLEAN, Logout(p, b) PROVE NoneEnters(finder, finder')
  BY <1>8, LogoutQuiet
<1>9. ASSUME NEW p \in Players, NEW q \in Players, Invite(p, q) PROVE NoneEnters(finder, finder')
  BY <1>9, InviteQuiet
<1>10. ASSUME NEW g \in Groups, FinishDungeon(g) PROVE NoneEnters(finder, finder')
  BY <1>10, FinishDungeonQuiet
<1>11. ASSUME NEW g \in Groups, LastOneOut(g) PROVE NoneEnters(finder, finder')
  BY <1>11, LastOneOutQuiet
<1>12. ASSUME NEW checks \in SUBSET DOMAIN finder.check, NEW expired \in 0..Len(finder.proposals),
              Update(checks, expired)
       PROVE  NoneEnters(finder, finder')
  BY <1>12, UpdateQuiet
<1> QED BY <1>1, <1>2, <1>3, <1>4, <1>5, <1>6, <1>7, <1>8, <1>9, <1>10, <1>11, <1>12 DEF Next

(***************************************************************************)
(* When a proposal succeeds all whom it was shown to, and only they, are   *)
(* in one full group of the finder and in its dungeon, whatever parties    *)
(* they came with and in whatever order MakeNewGroup takes them out of     *)
(* these.                                                                  *)
(***************************************************************************)
THEOREM ProposalsGather == Patient /\ Spec => TogetherAfterwards
<1> DEFINE Together1(i) ==
      (\E p \in Asked(i) : /\ finder.state[p] = "PROPOSAL" /\ finder.old[p] # "DUNGEON"
                           /\ finder'.state[p] = "DUNGEON") =>
          /\ \E g \in finder'.lfg : ToSet(finder'.party[g]) = Asked(i)
          /\ \A q \in Asked(i) : finder'.state[q] = "DUNGEON"
          /\ Cardinality(Asked(i)) = GroupSize /\ RolesFit(Asked(i))
          /\ \A p, q \in Asked(i) : {p, q} \in Ignoring =>
                finder.proposals[i].entry[p] = finder.proposals[i].entry[q]
<1>1. ASSUME IInv, Next, NEW i \in 1..Len(finder.proposals) PROVE Together1(i)
  <2> SUFFICES ASSUME NEW p \in Asked(i), finder.state[p] = "PROPOSAL", finder.old[p] # "DUNGEON",
                      finder'.state[p] = "DUNGEON"
               PROVE  /\ \E g \in finder'.lfg : ToSet(finder'.party[g]) = Asked(i)
                      /\ \A q \in Asked(i) : finder'.state[q] = "DUNGEON"
                      /\ Cardinality(Asked(i)) = GroupSize /\ RolesFit(Asked(i))
                      /\ \A q, r \in Asked(i) : {q, r} \in Ignoring =>
                            finder.proposals[i].entry[q] = finder.proposals[i].entry[r]
    OBVIOUS
  <2>1. FinderOK(finder) /\ Core(finder) /\ finder \in Finders
    BY <1>1, CoreIs DEF IInv, FinderOK
  <2>2. Matched(finder.proposals[i])
    BY <2>1, CoreIs DEF QueueOK, ProposalsOK, Sound
  <2>3. p \in Players /\ p \in DOMAIN finder.proposals[i].answer
    <3>1. finder.proposals[i] \in Proposals
      BY <2>1, FieldsOf
    <3>2. DOMAIN finder.proposals[i].answer \subseteq Players
      BY <3>1, PartialIs DEF Proposals
    <3> QED BY <3>2 DEF Asked
  <2>4. ~ NoneEnters(finder, finder')
    <3>1. HasStates(finder)
      BY <2>1 DEF Finders, HasStates
    <3> QED BY <2>3, <3>1 DEF NoneEnters, InDungeon
  <2>5. PICK j \in 1..Len(finder.proposals) :
          Gathers(finder, j, DOMAIN finder.proposals[j].answer, finder')
    BY <1>1, <2>1, <2>4, NextGathers
  <2>6. p \in DOMAIN finder.proposals[j].answer
    BY <2>3, <2>5 DEF Gathers
  <2>7. i = j
    BY <2>1, <2>3, <2>6, DistinctProposals
  <2>8. Gathers(finder, i, Asked(i), finder')
    BY <2>5, <2>7 DEF Asked
  <2> QED BY <2>2, <2>8 DEF Gathers, Matched, Asked
<1>2. ASSUME UNCHANGED vars, NEW i \in 1..Len(finder.proposals) PROVE Together1(i)
  BY <1>2 DEF vars
<1>3. IInv /\ [Next]_vars => [\A i \in 1..Len(finder.proposals) : Together1(i)]_vars
  BY <1>1, <1>2
<1> QED BY <1>3, FinderInvariance, PTL DEF Spec, TogetherAfterwards
-----------------------------------------------------------------------------
(***************************************************************************)
(* Who has agreed loses his place only by what he does himself.            *)
(***************************************************************************)
LEMMA SetStateStays ==
  ASSUME NEW f, NEW S, NEW new
  PROVE  QueueStays(f, SetState(f, S, new)) /\ ProposalsStay(f, SetState(f, S, new))
BY DEF QueueStays, ProposalsStay, QueueFields, SetState

LEMMA RestoreStateStays ==
  ASSUME NEW f, NEW S
  PROVE  ProposalsStay(f, RestoreState(f, S))
BY DEF ProposalsStay, RestoreState

LEMMA RemoveFromQueueStays ==
  ASSUME NEW f, NEW S
  PROVE  ProposalsStay(f, RemoveFromQueue(f, S))
BY DEF ProposalsStay, RemoveFromQueue, Unlisted

LEMMA AddQueueDataStays ==
  ASSUME NEW f, NEW e, NEW players
  PROVE  ProposalsStay(f, AddQueueData(f, e, players))
BY DEF ProposalsStay, AddQueueData

LEMMA CheckEndedStays ==
  ASSUME NEW f, NEW groups
  PROVE  ProposalsStay(f, CheckEnded(f, groups))
BY DEF ProposalsStay, CheckEnded

LEMMA RoleChecksFailStays ==
  ASSUME NEW f, NEW groups
  PROVE  ProposalsStay(f, RoleChecksFail(f, groups))
BY CheckEndedStays, RestoreStateStays, ProposalsStayTwice DEF RoleChecksFail

LEMMA RoleCheckPassesStays ==
  ASSUME NEW f, NEW g
  PROVE  ProposalsStay(f, RoleCheckPasses(f, g))
<1> DEFINE k == CheckEnded(f, {g})
           l == SetState(k, AskedIn(f, {g}), "QUEUED")
<1>1. ProposalsStay(f, k)
  BY CheckEndedStays
<1>2. ProposalsStay(k, l)
  BY SetStateStays
<1>3. ProposalsStay(l, AddQueueData(l, g, f.check[g].asked))
  BY AddQueueDataStays
<1> HIDE DEF k, l
<1>4. ProposalsStay(f, AddQueueData(l, g, f.check[g].asked))
  BY <1>1, <1>2, <1>3, ProposalsStayTwice
<1> QED BY <1>4 DEF RoleCheckPasses, k, l

LEMMA UpdateRoleCheckStays ==
  ASSUME NEW f, NEW g, NEW p, NEW chosen
  PROVE  ProposalsStay(f, UpdateRoleCheck(f, g, p, chosen))
<1> DEFINE asked == f.check[g].asked \cup {p}
           answered == f.check[g].answered \cup {p}
           noted == [f EXCEPT !.check[g] = [asked |-> asked, answered |-> answered]]
           h == UpdateRoleCheck(f, g, p, chosen)
           S == {g}
<1>1. h = RoleChecksFail(f, S) \/ h = noted \/ h = RoleCheckPasses(noted, g) \/ h = RoleChecksFail(noted, S)
  BY DEF UpdateRoleCheck
<1>2. ProposalsStay(f, noted)
  BY DEF ProposalsStay
<1> HIDE DEF noted, h, S
<1>3. /\ ProposalsStay(f, RoleChecksFail(f, S)) /\ ProposalsStay(noted, RoleChecksFail(noted, S))
      /\ ProposalsStay(noted, RoleCheckPasses(noted, g))
  BY RoleChecksFailStays, RoleCheckPassesStays
<1>4. ProposalsStay(f, RoleChecksFail(noted, S)) /\ ProposalsStay(f, RoleCheckPasses(noted, g))
  BY <1>2, <1>3, ProposalsStayTwice
<1> QED BY <1>1, <1>2, <1>3, <1>4 DEF h

LEMMA DisbandStays ==
  ASSUME NEW f, NEW g
  PROVE  QueueStays(f, Disband(f, g)) /\ ProposalsStay(f, Disband(f, g))
<1> DEFINE freed == IF f.state[g] = "PROPOSAL" THEN f ELSE SetState(f, Members(f, g), "NONE")
           k == SetState(freed, {g}, "NONE")
           h == [k EXCEPT !.party[g] = <<>>, !.lfg = @ \ {g},
                          !.invite = [p \in Players |-> IF @[p] = g THEN NoInvite ELSE @[p]]]
<1>1. Disband(f, g) = h
  BY DEF Disband
<1>2. QueueStays(f, f) /\ ProposalsStay(f, f)
  BY DEF QueueStays, ProposalsStay
<1>3. QueueStays(f, freed) /\ ProposalsStay(f, freed)
  BY <1>2, SetStateStays
<1> HIDE DEF freed
<1>4. QueueStays(freed, k) /\ ProposalsStay(freed, k)
  BY SetStateStays
<1> HIDE DEF k
<1>5. QueueStays(k, h) /\ ProposalsStay(k, h)
  BY DEF QueueStays, ProposalsStay, QueueFields
<1> HIDE DEF h
<1> QED BY <1>1, <1>3, <1>4, <1>5, QueueStaysTwice, ProposalsStayTwice

\* Whoever leaves the finder without a proposal leaves the proposals alone.
LEMMA LeaveLfgStays ==
  ASSUME NEW f, NEW e, f.state[e] # "PROPOSAL"
  PROVE  /\ ProposalsStay(f, LeaveLfg(f, e))
         /\ f.state[e] \in Idle => QueueStays(f, LeaveLfg(f, e))
<1> DEFINE h == LeaveLfg(f, e)
           g == IF e \in Groups THEN e ELSE GroupOf(f, e)
           whole == IF g = NoGroup THEN {e} ELSE Members(f, g) \cup {g}
           S == {IF g = NoGroup THEN e ELSE g}
           k == RemoveFromQueue(f, S)
<1>1. /\ \/ h = f
         \/ h = SetState(f, {e}, "NONE")
         \/ f.state[e] = "QUEUED" /\ h = SetState(k, whole, "NONE")
         \/ f.state[e] = "ROLECHECK" /\ h = RoleChecksFail(f, {g})
  <2> HIDE DEF g, whole, S, k
  <2> USE DEF LeaveLfg
  <2>1. CASE f.state[e] = "QUEUED"
    BY <2>1 DEF g, whole, S, k
  <2>2. CASE f.state[e] = "ROLECHECK"
    BY <2>2 DEF g
  <2>3. CASE f.state[e] \in {"DUNGEON", "FINISHED"}
    BY <2>3
  <2>4. CASE f.state[e] \notin {"QUEUED", "ROLECHECK", "PROPOSAL", "DUNGEON", "FINISHED"}
    BY <2>4
  <2> QED BY <2>1, <2>2, <2>3, <2>4
<1>2. ProposalsStay(f, k)
  BY RemoveFromQueueStays
<1> HIDE DEF k, h, whole, g
<1>3. ProposalsStay(k, SetState(k, whole, "NONE"))
  BY SetStateStays
<1>4. ProposalsStay(f, SetState(k, whole, "NONE"))
  BY <1>2, <1>3, ProposalsStayTwice
<1>5. ProposalsStay(f, SetState(f, {e}, "NONE")) /\ QueueStays(f, SetState(f, {e}, "NONE"))
  BY SetStateStays
<1>6. ProposalsStay(f, RoleChecksFail(f, {g}))
  BY RoleChecksFailStays
<1>7. ProposalsStay(f, f) /\ QueueStays(f, f)
  BY DEF ProposalsStay, QueueStays
<1>8. f.state[e] \in Idle => f.state[e] # "QUEUED" /\ f.state[e] # "ROLECHECK"
  BY DEF Idle
<1>9. ProposalsStay(f, h) /\ (f.state[e] \in Idle => QueueStays(f, h))
  BY <1>1, <1>4, <1>5, <1>6, <1>7, <1>8
<1> QED BY <1>9 DEF h

LEMMA AddMemberStays ==
  ASSUME NEW f, NEW g \in Entries, NEW p
  PROVE  ProposalsStay(f, AddMember(f, g, p))
<1> DEFINE alone == IF f.state[p] = "QUEUED" THEN LeaveLfg(f, p) ELSE f
           asked == IF f.state[g] = "QUEUED" THEN LeaveLfg(alone, g) ELSE alone
           added == IF f.party[g] = <<>> THEN f ELSE asked
           h == [added EXCEPT !.party[g] = Append(@, p), !.invite[p] = NoInvite]
<1>1. AddMember(f, g, p) = h
  BY DEF AddMember, OnAddMember
<1>2. ProposalsStay(f, f)
  BY DEF ProposalsStay
<1>3. ProposalsStay(f, alone)
  BY <1>2, LeaveLfgStays
<1>4. f.state[g] = "QUEUED" => alone.state[g] # "PROPOSAL"
  <2> SUFFICES ASSUME f.state[g] = "QUEUED", f.state[p] = "QUEUED" PROVE LeaveLfg(f, p).state[g] # "PROPOSAL"
    OBVIOUS
  <2> DEFINE c == IF p \in Groups THEN p ELSE GroupOf(f, p)
             whole == IF c = NoGroup THEN {p} ELSE Members(f, c) \cup {c}
             k == RemoveFromQueue(f, {IF c = NoGroup THEN p ELSE c})
  <2>1. LeaveLfg(f, p) = SetState(k, whole, "NONE")
    BY DEF LeaveLfg
  <2> HIDE DEF k, whole
  <2>2. SetState(k, whole, "NONE").state[g] \in {"NONE", k.state[g]}
    BY DEF SetState
  <2>3. k.state = f.state
    BY DEF k, RemoveFromQueue, Unlisted
  <2> QED BY <2>1, <2>2, <2>3
<1> HIDE DEF alone
<1>5. ProposalsStay(f, asked)
  <2>1. f.state[g] = "QUEUED" => ProposalsStay(alone, LeaveLfg(alone, g))
    BY <1>4, LeaveLfgStays
  <2> QED BY <1>3, <2>1, ProposalsStayTwice
<1> HIDE DEF asked
<1>6. ProposalsStay(f, added)
  BY <1>2, <1>5
<1> HIDE DEF added
<1>7. ProposalsStay(added, h)
  BY DEF ProposalsStay
<1> HIDE DEF h
<1> QED BY <1>1, <1>6, <1>7, ProposalsStayTwice
LEMMA FieldsThere ==
  ASSUME NEW f \in Finders
  PROVE  QueueFields \subseteq DOMAIN f /\ "proposals" \in DOMAIN f
BY DEF Finders, QueueFields

LEMMA ProposalsStayPersists ==
  ASSUME NEW f \in Finders, NEW h, ProposalsStay(f, h), NEW d
  PROVE  Persists(f, h, d)
<1>1. h.proposals = f.proposals
  BY FieldsThere DEF ProposalsStay
<1> QED BY <1>1, SameProposalsHold

LEMMA QueueStaysPersists ==
  ASSUME NEW f, NEW k \in Finders, NEW h, NEW d, Persists(f, k, d), QueueStays(k, h)
  PROVE  Persists(f, h, d)
<1>1. h.new = k.new /\ h.current = k.current /\ h.proposals = k.proposals
  BY FieldsThere DEF QueueStays
<1> QED BY <1>1, PersistsOn

\* Who leaves the finder takes only his own entry along.
LEMMA LeaveLfgPersists ==
  ASSUME NEW f, Core(f), NEW e \in Entries, e \in Groups => f.party[e] # <<>>,
         NEW h, h = LeaveLfg(f, e), NEW d, d = EntryFor(f, e)
  PROVE  Persists(f, h, d)
<1> DEFINE g == IF e \in Groups THEN e ELSE GroupOf(f, e)
           p == IF e \in Groups THEN f.party[g][1] ELSE e
           asking == {i \in 1..Len(f.proposals) : p \in DOMAIN f.proposals[i].answer}
<1>1. f \in Finders
  BY CoreIs
<1>2. d \in Entries /\ IsEntry(f, d) /\ (e = d \/ e \in Folk(f, d))
      /\ (f.state[e] = f.state[d] \/ (f.state[e] \in Idle /\ f.state[d] \in Idle))
  BY EntryForIs
<1> HIDE DEF g, p, asking
<1>3. CASE f.state[e] # "PROPOSAL"
  <2>1. ProposalsStay(f, h)
    BY <1>3, LeaveLfgStays
  <2> QED BY <1>1, <2>1, ProposalsStayPersists
<1>4. CASE f.state[e] = "PROPOSAL"
  <2>1. f.state[d] = "PROPOSAL"
    BY <1>2, <1>4, Waiting3
  <2>2. p \in Folk(f, d)
    <3>1. CASE e \in Groups
      BY <1>1, <3>1, PartyHas, CoreIs DEF EntryFor, Folk, g, p
    <3>2. CASE e \notin Groups
      BY <1>2, <3>2, Kinds DEF EntryFor, Folk, g, p
    <3> QED BY <3>1, <3>2
  <2> DEFINE i == Min(asking)
  <2>3. i = Min({j \in 1..Len(f.proposals) : p \in DOMAIN f.proposals[j].answer})
    BY DEF asking
  <2> HIDE DEF i
  <2>4. /\ \E j \in 1..Len(f.proposals) : p \in DOMAIN f.proposals[j].answer
        /\ i \in 1..Len(f.proposals) /\ p \in DOMAIN f.proposals[i].answer
        /\ f.proposals[i].entry[p] = d
    BY <1>2, <2>1, <2>2, <2>3, AskedSomewhere
  <2>5. asking # {}
    BY <2>4 DEF asking
  <2>6. h = Deny(f, i, p)
    BY <1>4, <2>5 DEF i, g, p, asking, LeaveLfg
  <2> QED BY <2>4, <2>6, DenyPersists
<1> QED BY <1>3, <1>4

\* Of those who have agreed only the entry d may lose its place, if it does not
\* go into a dungeon.
Loses(f, h, d) ==
  \A e : e # d /\ Says(f, e) =>
     HasPlace(h, e) \/ \A p \in PlayersOf(f, e) : h.state[p] = "DUNGEON"

OneLoses(f, h) == \E d : Loses(f, h, d)

LEMMA PersistsLoses ==
  ASSUME NEW f, NEW h, NEW d, Persists(f, h, d)
  PROVE  OneLoses(f, h)
BY DEF Persists, Loses, OneLoses

LEMMA ProposalsStayLoses ==
  ASSUME NEW f \in Finders, NEW h, ProposalsStay(f, h)
  PROVE  OneLoses(f, h)
<1> DEFINE d == NoGroup
<1>1. Persists(f, h, d)
  BY ProposalsStayPersists
<1> QED BY <1>1, PersistsLoses

LEMMA JoinLoses ==
  ASSUME FinderOK(finder), NEW p \in Players, NEW refused, Join(p, refused)
  PROVE  OneLoses(finder, finder')
<1> DEFINE g == GroupOf(finder, p)
           e == IF g = NoGroup THEN p ELSE g
           f == IF finder.state[e] = "QUEUED" THEN RemoveFromQueue(finder, {e}) ELSE finder
           members == Members(f, g)
           before == IF g \in DOMAIN f.check THEN f.check[g] ELSE [asked |-> {}, answered |-> {}]
           put == [f EXCEPT !.check = Put(@, g, [asked |-> before.asked \cup members,
                                                 answered |-> before.answered \ members])]
           asking == SetState(put, members \cup {g}, "ROLECHECK")
           b == AddQueueData(f, p, {p})
           chosen == TRUE
<1>1. \/ finder' = f
      \/ finder' = SetState(b, {p}, "QUEUED")
      \/ finder' = UpdateRoleCheck(asking, g, p, chosen)
  BY DEF Join
<1>2. ProposalsStay(finder, f)
  <2>1. ProposalsStay(finder, finder)
    BY DEF ProposalsStay
  <2> QED BY <2>1, RemoveFromQueueStays
<1> HIDE DEF f, e, members, before
<1>3. ProposalsStay(f, put)
  BY DEF ProposalsStay
<1> HIDE DEF put
<1>4. ProposalsStay(put, asking)
  BY SetStateStays
<1>5. ProposalsStay(f, b)
  BY AddQueueDataStays
<1> HIDE DEF b, asking, chosen
<1>6. ProposalsStay(b, SetState(b, {p}, "QUEUED"))
  BY SetStateStays
<1>7. ProposalsStay(asking, UpdateRoleCheck(asking, g, p, chosen))
  BY UpdateRoleCheckStays
<1>8. ProposalsStay(finder, SetState(b, {p}, "QUEUED"))
  BY <1>2, <1>5, <1>6, ProposalsStayTwice
<1>9. ProposalsStay(finder, UpdateRoleCheck(asking, g, p, chosen))
  BY <1>2, <1>3, <1>4, <1>7, ProposalsStayTwice
<1>10. ProposalsStay(finder, finder')
  BY <1>1, <1>2, <1>8, <1>9
<1> QED BY <1>10, ProposalsStayLoses, CoreIs DEF FinderOK

LEMMA AcceptLoses ==
  ASSUME FinderOK(finder), NEW q \in Players, Accept(q)
  PROVE  OneLoses(finder, finder')
<1> DEFINE from == finder.invite[q]
           f == [finder EXCEPT !.invite[q] = NoInvite]
           g == finder.made + 1
           k == [f EXCEPT !.invite[from] = NoInvite, !.made = g]
           created == AddMember(k, g, from)
<1>1. \/ finder' = f
      \/ from \in Groups /\ finder' = AddMember(f, from, q)
      \/ finder.made < Cardinality(Groups) /\ finder' = AddMember(created, g, q)
  BY DEF Accept
<1>2. finder \in Finders
  BY CoreIs DEF FinderOK
<1>3. finder.made < Cardinality(Groups) => g \in Entries
  <2>1. finder.made \in Nat /\ Cardinality(Groups) \in Nat
    BY <1>2, FieldsOf, QueueAssumption, FS_CardinalityType
  <2> QED BY <2>1, QueueAssumption DEF Entries
<1>4. ProposalsStay(finder, f)
  BY DEF ProposalsStay
<1> HIDE DEF f
<1>5. ProposalsStay(f, k)
  BY DEF ProposalsStay
<1> HIDE DEF k, g, from
<1>6. g \in Entries => ProposalsStay(k, created)
  BY AddMemberStays
<1> HIDE DEF created
<1>7. g \in Entries => ProposalsStay(created, AddMember(created, g, q))
  BY AddMemberStays
<1>8. from \in Groups => ProposalsStay(f, AddMember(f, from, q))
  BY AddMemberStays, Kinds
<1>9. ProposalsStay(finder, finder')
  BY <1>1, <1>3, <1>4, <1>5, <1>6, <1>7, <1>8, ProposalsStayTwice
<1> QED BY <1>2, <1>9, ProposalsStayLoses

LEMMA UninviteStays ==
  ASSUME NEW f, NEW p
  PROVE  QueueStays(f, Uninvite(f, p)) /\ ProposalsStay(f, Uninvite(f, p))
<1> DEFINE from == f.invite[p]
           released == [f EXCEPT !.invite = [q \in Players |-> IF @[q] = from THEN NoInvite ELSE @[q]]]
           lapsed == [f EXCEPT !.invite[p] = NoInvite]
<1>1. Uninvite(f, p) \in {f, released, lapsed, Disband(lapsed, from)}
  BY DEF Uninvite
<1>2. QueueStays(f, f) /\ QueueStays(f, released) /\ QueueStays(f, lapsed)
  BY DEF QueueStays, QueueFields
<1>3. ProposalsStay(f, f) /\ ProposalsStay(f, released) /\ ProposalsStay(f, lapsed)
  BY DEF ProposalsStay
<1> HIDE DEF lapsed, released, from
<1>4. QueueStays(lapsed, Disband(lapsed, from)) /\ ProposalsStay(lapsed, Disband(lapsed, from))
  BY DisbandStays
<1> QED BY <1>1, <1>2, <1>3, <1>4, QueueStaysTwice, ProposalsStayTwice

LEMMA DeclineLoses ==
  ASSUME FinderOK(finder), NEW q \in Players, Decline(q)
  PROVE  OneLoses(finder, finder')
<1>1. ProposalsStay(finder, finder')
  BY UninviteStays DEF Decline
<1> QED BY <1>1, ProposalsStayLoses, CoreIs DEF FinderOK

LEMMA ChooseRolesLoses ==
  ASSUME FinderOK(finder), NEW p \in Players, NEW chosen, ChooseRoles(p, chosen)
  PROVE  OneLoses(finder, finder')
<1>1. ProposalsStay(finder, finder')
  BY UpdateRoleCheckStays DEF ChooseRoles
<1> QED BY <1>1, ProposalsStayLoses, CoreIs DEF FinderOK

LEMMA FinishDungeonLoses ==
  ASSUME FinderOK(finder), NEW g \in Groups, FinishDungeon(g)
  PROVE  OneLoses(finder, finder')
<1>1. ProposalsStay(finder, finder')
  BY SetStateStays DEF FinishDungeon
<1> QED BY <1>1, ProposalsStayLoses, CoreIs DEF FinderOK
LEMMA LeaveQueueLoses ==
  ASSUME FinderOK(finder), NEW p \in Players, LeaveQueue(p)
  PROVE  OneLoses(finder, finder')
<1> DEFINE g == GroupOf(finder, p)
           e == IF g = NoGroup THEN p ELSE g
           d == EntryFor(finder, e)
<1>1. Core(finder) /\ finder \in Finders
  BY CoreIs DEF FinderOK
<1>2. g # NoGroup => g \in Groups /\ p \in ToSet(finder.party[g])
  BY <1>1, CoreIs, GroupOfIs
<1>3. e \in Entries /\ (e \in Groups => finder.party[e] # <<>>)
  BY <1>1, <1>2, Kinds, CoreIs, PartyHas
<1>4. finder' = LeaveLfg(finder, e)
  BY DEF LeaveQueue
<1> HIDE DEF e
<1>5. d = EntryFor(finder, e)
  OBVIOUS
<1> HIDE DEF d
<1>6. Persists(finder, finder', d)
  BY <1>1, <1>3, <1>4, <1>5, LeaveLfgPersists
<1> QED BY <1>6, PersistsLoses

LEMMA InviteLoses ==
  ASSUME FinderOK(finder), NEW p \in Players, NEW q \in Players, Invite(p, q)
  PROVE  OneLoses(finder, finder')
<1> DEFINE g == GroupOf(finder, p)
           invites == finder.invites + 1
           invite == [x \in Players |-> IF x = p \/ x = q THEN p ELSE finder.invite[x]]
           pending == WithParties(finder, finder.party, finder.made, finder.lfg, invites, invite)
           asked == [[finder EXCEPT !.invites = @ + 1] EXCEPT !.invite[q] = g]
           d == EntryFor(pending, p)
<1>1. Core(finder) /\ finder \in Finders
  BY CoreIs DEF FinderOK
<1>2. /\ finder.party \in [Groups -> Seq(Players)] /\ finder.made \in Nat /\ finder.lfg \subseteq Groups
      /\ finder.invites \in Nat /\ invites \in Nat
      /\ finder.invite \in [Players -> Players \cup Groups \cup {NoInvite}]
  BY <1>1, FieldsOf
<1>3. finder' = LeaveLfg(pending, p) \/ finder' = asked
  <2>1. \/ finder' = asked
        \/ finder' = LeaveLfg([[finder EXCEPT !.invites = @ + 1] EXCEPT !.invite[p] = p, !.invite[q] = p], p)
    BY DEF Invite
  <2>2. [[finder EXCEPT !.invites = @ + 1] EXCEPT !.invite[p] = p, !.invite[q] = p] = pending
    <3>1. [[finder.invite EXCEPT ![p] = p] EXCEPT ![q] = p] = invite
      BY <1>2
    <3> HIDE DEF invite, invites
    <3>2. [[finder EXCEPT !.invites = @ + 1] EXCEPT !.invite[p] = p, !.invite[q] = p]
            = [finder EXCEPT !.invites = finder.invites + 1, !.invite = invite]
      BY <1>1, <3>1 DEF Finders
    <3> QED BY <1>1, <3>2 DEF WithParties, Finders, invites
  <2> QED BY <2>1, <2>2
<1>4. invite \in [Players -> Players \cup Groups \cup {NoInvite}]
  BY <1>2
<1> HIDE DEF invite, invites
<1>5. PartiesSet(finder, finder.party, finder.made, finder.lfg, invites, invite, pending)
  BY <1>1, <1>2, <1>4, PartiesWith
<1>6. ProposalsStay(finder, asked)
  BY DEF ProposalsStay
<1> HIDE DEF pending, asked
<1>7. Core(pending) /\ pending.proposals = finder.proposals
  BY <1>1, <1>5, InviteChanges DEF PartiesSet, QueueKept
<1>8. ASSUME finder' = LeaveLfg(pending, p) PROVE OneLoses(finder, finder')
  <2>1. d = EntryFor(pending, p)
    OBVIOUS
  <2> HIDE DEF d
  <2>2. Persists(pending, finder', d)
    BY <1>7, <1>8, <2>1, Kinds, LeaveLfgPersists
  <2>3. Persists(finder, finder', d)
    BY <1>7, <2>2 DEF Persists, Says
  <2> QED BY <2>3, PersistsLoses
<1>9. ASSUME finder' = asked PROVE OneLoses(finder, finder')
  BY <1>1, <1>6, <1>9, ProposalsStayLoses
<1> QED BY <1>3, <1>8, <1>9

LEMMA LastOneOutLoses ==
  ASSUME FinderOK(finder), NEW g \in Groups, LastOneOut(g)
  PROVE  OneLoses(finder, finder')
<1> DEFINE left == LeaveLfg(finder, g)
           d == EntryFor(finder, g)
<1>1. Core(finder) /\ finder \in Finders
  BY CoreIs DEF FinderOK
<1>2. finder' = Disband(left, g) /\ left = LeaveLfg(finder, g)
  BY DEF LastOneOut
<1>3. g \in Entries /\ finder.party[g] # <<>>
  BY <1>1, PartyHas, Kinds DEF LastOneOut
<1>4. d = EntryFor(finder, g)
  OBVIOUS
<1> HIDE DEF left, d
<1>5. Persists(finder, left, d)
  BY <1>1, <1>2, <1>3, <1>4, LeaveLfgPersists
<1>6. left \in Finders
  <2>1. LeftFinder(finder, g, left)
    BY <1>1, <1>2, <1>3, LeaveLfgKeeps
  <2> QED BY <2>1, CoreIs DEF LeftFinder
<1>7. QueueStays(left, finder')
  BY <1>2, DisbandStays
<1>8. Persists(finder, finder', d)
  BY <1>5, <1>6, <1>7, QueueStaysPersists
<1> QED BY <1>8, PersistsLoses

\* A member who leaves takes only the entry of his party along.
LEMMA RemoveMemberPersists ==
  ASSUME NEW f, Core(f), NEW g \in Groups, NEW p \in ToSet(f.party[g]), NEW default, NEW inside,
         OnRemoveMember(f, g, p, default) = LeaveLfg(f, p),
         NEW h, h = RemoveMember(f, g, p, default, inside), NEW d, d = EntryFor(f, p)
  PROVE  Persists(f, h, d)
<1> DEFINE left == LeaveLfg(f, p)
           rest == [left EXCEPT !.party[g] = Without(@, {p})]
<1>1. p \in Entries /\ p \notin Groups
  BY CoreIs, PartyHas, Kinds
<1>2. left = LeaveLfg(f, p) /\ rest = [left EXCEPT !.party[g] = Without(@, {p})]
  OBVIOUS
<1>3. h = Disband(rest, g) \/ h = rest
  BY DEF RemoveMember
<1> HIDE DEF left
<1>4. Persists(f, left, d)
  BY <1>1, <1>2, LeaveLfgPersists
<1>5. left \in Finders
  <2>1. LeftFinder(f, p, left)
    BY <1>1, <1>2, LeaveLfgKeeps
  <2> QED BY <2>1, CoreIs DEF LeftFinder
<1>6. QueueStays(left, rest)
  BY DEF QueueStays, QueueFields
<1> HIDE DEF rest
<1>7. QueueStays(rest, Disband(rest, g))
  BY DisbandStays
<1>8. QueueStays(left, h)
  BY <1>3, <1>6, <1>7, QueueStaysTwice
<1> QED BY <1>4, <1>5, <1>8, QueueStaysPersists

LEMMA LeavePartyLoses ==
  ASSUME FinderOK(finder), NEW p \in Players, NEW inside, LeaveParty(p, inside)
  PROVE  OneLoses(finder, finder')
<1> DEFINE g == GroupOf(finder, p)
           default == FALSE
           d == EntryFor(finder, p)
<1>1. Core(finder) /\ finder \in Finders
  BY CoreIs DEF FinderOK
<1>2. g \in Groups /\ p \in ToSet(finder.party[g])
  BY <1>1, CoreIs, GroupOfIs DEF LeaveParty
<1>3. finder' = RemoveMember(finder, g, p, default, inside)
  BY DEF LeaveParty
<1>4. OnRemoveMember(finder, g, p, default) = LeaveLfg(finder, p)
  BY DEF OnRemoveMember
<1>5. d = EntryFor(finder, p)
  OBVIOUS
<1> HIDE DEF g, default, d
<1>6. Persists(finder, finder', d)
  BY <1>1, <1>2, <1>3, <1>4, <1>5, RemoveMemberPersists
<1> QED BY <1>6, PersistsLoses

\* A member of a party that is asked logs out.
LEMMA LogoutPersists ==
  ASSUME NEW f, FinderOK(f), NEW g \in Groups, NEW p \in ToSet(f.party[g]), f.state[g] = "PROPOSAL",
         NEW default, OnRemoveMember(f, g, p, default) = f, NEW inside,
         NEW h, h = LeaveLfg(RemoveMember(f, g, p, default, inside), p)
  PROVE  Persists(f, h, g)
<1> DEFINE left == RemoveMember(f, g, p, default, inside)
<1>1. Core(f) /\ f \in Finders /\ PartiesApart(f) /\ Synced(f)
  BY CoreIs DEF FinderOK
<1>2. Cut(f, g, p, left)
  <2>1. IsInjective(f.party[g])
    BY <1>1 DEF PartiesApart
  <2> QED BY <1>1, <2>1, CutIs
<1>3. h = LeaveLfg(left, p)
  OBVIOUS
<1> HIDE DEF left
<1>4. p \in Players /\ p \in Entries /\ p \notin Groups /\ p # g /\ g \in Entries
  BY <1>1, PartyHas, Kinds
<1>5. f.state[p] = "PROPOSAL"
  BY <1>1, Waiting3 DEF Synced
<1>6. left.state[p] = "PROPOSAL" /\ left.proposals = f.proposals
  BY <1>2, <1>4, <1>5 DEF Cut, QueueKept
<1> DEFINE i == Min({j \in 1..Len(f.proposals) : p \in DOMAIN f.proposals[j].answer})
<1>7. /\ \E j \in 1..Len(f.proposals) : p \in DOMAIN f.proposals[j].answer
      /\ i \in 1..Len(f.proposals) /\ p \in DOMAIN f.proposals[i].answer
      /\ f.proposals[i].entry[p] = g
  <2>1. IsEntry(f, g) /\ p \in Folk(f, g)
    BY <1>1, PartyHas DEF IsEntry, Folk
  <2> QED BY <1>1, <1>4, <2>1, AskedSomewhere
<1>8. h = Deny(left, i, p)
  BY <1>3, <1>4, <1>6, <1>7 DEF LeaveLfg
<1> HIDE DEF i
<1> DEFINE k == Deny(f, i, p)
<1>9. k = Deny(f, i, p)
  OBVIOUS
<1> HIDE DEF k
<1>10. Core(k) /\ k.state[g] \in Idle /\ k \in Finders
  BY <1>1, <1>7, <1>9, DenyKeeps, CoreIs
<1>11. AsDenied(k, g, left, h)
  BY <1>1, <1>2, <1>7, <1>8, <1>9, <1>10, SameDenied
<1>12. Persists(f, k, g)
  BY <1>1, <1>7, <1>9, DenyPersists
<1>13. h.new = k.new /\ h.current = k.current /\ h.proposals = k.proposals
  BY <1>11 DEF AsDenied, SameQueue
<1> QED BY <1>12, <1>13, PersistsOn

LEMMA LogoutLoses ==
  ASSUME FinderOK(finder), NEW p \in Players, NEW inside, Logout(p, inside)
  PROVE  OneLoses(finder, finder')
<1> DEFINE f == Uninvite(finder, p)
           g == GroupOf(f, p)
           default == TRUE
           left == RemoveMember(f, g, p, default, inside)
           d == EntryFor(f, p)
<1>1. /\ finder' = LeaveLfg(IF g = NoGroup THEN f ELSE left, p)
      /\ left = RemoveMember(f, g, p, default, inside)
  BY DEF Logout
<1>2. Uninvited(finder, f)
  BY UninviteKeeps
<1>3. FinderOK(f) /\ Core(f) /\ f \in Finders /\ PartiesApart(f) /\ f.proposals = finder.proposals
  BY <1>2, CoreIs DEF Uninvited, FinderOK, QueueKept
<1> HIDE DEF f
<1>4. g # NoGroup => g \in Groups /\ p \in ToSet(f.party[g])
  BY <1>3, GroupOfIs
<1>5. p \in Entries /\ p \notin Groups
  BY Kinds
<1>6. OnRemoveMember(f, g, p, default) = IF f.state[g] = "PROPOSAL" THEN f ELSE LeaveLfg(f, p)
  BY DEF OnRemoveMember
<1>7. d = EntryFor(f, p)
  OBVIOUS
<1> HIDE DEF g, d, default, left
<1>8. CASE g = NoGroup
  <2>1. Persists(f, finder', d)
    BY <1>1, <1>3, <1>5, <1>7, <1>8, LeaveLfgPersists
  <2>2. Persists(finder, finder', d)
    BY <1>3, <2>1 DEF Persists, Says
  <2> QED BY <2>2, PersistsLoses
<1>9. CASE g # NoGroup /\ f.state[g] # "PROPOSAL"
  <2>1. MemberLeft(f, g, p, left)
    BY <1>1, <1>3, <1>4, <1>9, RemoveMemberKeeps
  <2>2. left \in Finders /\ left.state[p] \in Idle
    BY <2>1, CoreIs DEF MemberLeft, FinderOK
  <2>3. left.state[p] # "PROPOSAL"
    BY <2>2, Waiting3
  <2>4. QueueStays(left, finder')
    BY <1>1, <1>9, <2>2, <2>3, LeaveLfgStays
  <2>5. Persists(f, left, d)
    BY <1>1, <1>3, <1>4, <1>6, <1>7, <1>9, RemoveMemberPersists
  <2>6. Persists(f, finder', d)
    BY <2>2, <2>4, <2>5, QueueStaysPersists
  <2>7. Persists(finder, finder', d)
    BY <1>3, <2>6 DEF Persists, Says
  <2> QED BY <2>7, PersistsLoses
<1>10. CASE g # NoGroup /\ f.state[g] = "PROPOSAL"
  <2>1. g \in Groups /\ p \in ToSet(f.party[g]) /\ f.state[g] = "PROPOSAL"
        /\ OnRemoveMember(f, g, p, default) = f
    BY <1>4, <1>6, <1>10
  <2>2. finder' = LeaveLfg(RemoveMember(f, g, p, default, inside), p)
    BY <1>1, <1>10
  <2>3. Persists(f, finder', g)
    BY <1>3, <2>1, <2>2, LogoutPersists
  <2>4. Persists(finder, finder', g)
    BY <1>3, <2>3 DEF Persists, Says
  <2> QED BY <2>4, PersistsLoses
<1> QED BY <1>8, <1>9, <1>10
\* A proposal succeeds: its players have a dungeon.
LEMMA SucceedsLoses ==
  ASSUME NEW f, FinderOK(f), NEW i \in 1..Len(f.proposals), f.made < Cardinality(Groups),
         NEW leader \in DOMAIN f.proposals[i].answer,
         NEW h, h = ProposalSucceeds(f, i, leader)
  PROVE  OneLoses(f, h)
<1> DEFINE proposal == f.proposals[i]  Q == ToSet(proposal.queues)  P == DOMAIN proposal.answer
<1>1. proposal = f.proposals[i] /\ Q = ToSet(proposal.queues) /\ P = DOMAIN proposal.answer /\ leader \in P
  OBVIOUS
<1> HIDE DEF proposal, Q, P
<1>2. PICK g \in Groups : Made(f, i, P, Q, g, h) /\ Goes(f, proposal, Q, g)
  BY <1>1, MadeIs
<1>3. Core(f) /\ f \in Finders
  BY CoreIs DEF FinderOK
<1>4. Holds(f, proposal, Q)
  BY <1>1, <1>3, ProposalHas
<1>5. ASSUME NEW e, e \notin Q, Says(f, e) PROVE HasPlace(h, e)
  <2>1. h.proposals = RemoveAt(f.proposals, i)
    BY <1>2 DEF Made
  <2>2. Says(h, e)
    BY <1>1, <1>3, <1>5, <2>1, SaysOn
  <2> QED BY <2>2, SaysProposed DEF HasPlace
<1>6. ASSUME NEW e \in Q, NEW p \in PlayersOf(f, e) PROVE h.state[p] = "DUNGEON"
  <2>1. p \in Folk(f, e)
    BY <1>4, <1>6 DEF Holds, PlayersOf
  <2>2. p \in P
    BY <1>1, <1>4, <2>1 DEF Holds
  <2>3. p \in Entries
    BY <1>1, <1>4, <2>2, Kinds DEF Holds
  <2> QED BY <1>2, <2>2, <2>3 DEF Made
<1> DEFINE d == NoGroup
<1>7. Loses(f, h, d)
  BY <1>5, <1>6 DEF Loses
<1> QED BY <1>7 DEF OneLoses

LEMMA AnswerLoses ==
  ASSUME FinderOK(finder), NEW p \in Players, NEW agree, Answer(p, agree)
  PROVE  OneLoses(finder, finder')
<1>1. Core(finder) /\ finder \in Finders /\ InvitesOK(finder) /\ GroupsOK(finder)
  BY CoreIs DEF FinderOK
<1>2. PICK i \in 1..Len(finder.proposals) :
        LET proposal == finder.proposals[i]
            answered == [finder EXCEPT !.proposals[i].answer[p] = "AGREE"]
        IN  /\ p \in DOMAIN proposal.answer
            /\ IF ~agree THEN finder' = Deny(finder, i, p)
               ELSE IF \E q \in DOMAIN proposal.answer \ {p} : proposal.answer[q] # "AGREE"
               THEN finder' = answered
               ELSE /\ finder.made < Cardinality(Groups)
                    /\ \E leader \in DOMAIN proposal.answer :
                          finder' = ProposalSucceeds(answered, i, leader)
  BY DEF Answer
<1> DEFINE answered == WithAnswer(finder, i, p, "AGREE")
           d == finder.proposals[i].entry[p]
<1>3. /\ p \in DOMAIN finder.proposals[i].answer
      /\ \/ finder' = Deny(finder, i, p)
         \/ finder' = answered
         \/ /\ finder.made < Cardinality(Groups)
            /\ \E leader \in DOMAIN finder.proposals[i].answer :
                  finder' = ProposalSucceeds(answered, i, leader)
  BY <1>2 DEF WithAnswer
<1>4. Answered(finder, i, p, "AGREE", answered)
  BY <1>1, <1>3, AnswerIs
<1>5. d = finder.proposals[i].entry[p]
  OBVIOUS
<1> HIDE DEF answered, d
<1>6. FinderOK(answered)
  <2>1. Core(answered) /\ Calm(finder, answered)
    BY <1>1, <1>4, AnswerKeeps
  <2> QED BY <1>1, <2>1, CalmKeeps DEF FinderOK
<1>7. ASSUME NEW e, Says(finder, e) PROVE Says(answered, e)
  <2>1. PICK l \in 1..Len(finder.proposals) :
          /\ e \in ToSet(finder.proposals[l].queues)
          /\ \A q \in DOMAIN finder.proposals[l].answer :
               finder.proposals[l].entry[q] = e => finder.proposals[l].answer[q] = "AGREE"
    BY <1>7 DEF Says
  <2>2. /\ l \in 1..Len(answered.proposals) /\ answered.proposals[l].queues = finder.proposals[l].queues
        /\ answered.proposals[l].entry = finder.proposals[l].entry
        /\ DOMAIN answered.proposals[l].answer = DOMAIN finder.proposals[l].answer
        /\ \A q \in DOMAIN finder.proposals[l].answer :
             answered.proposals[l].answer[q] = IF l = i /\ q = p THEN "AGREE" ELSE finder.proposals[l].answer[q]
    BY <1>4 DEF Answered
  <2> QED BY <2>1, <2>2 DEF Says
<1>8. ASSUME finder' = Deny(finder, i, p) PROVE OneLoses(finder, finder')
  <2>1. Persists(finder, finder', d)
    BY <1>1, <1>3, <1>5, <1>8, DenyPersists
  <2> QED BY <2>1, PersistsLoses
<1>9. ASSUME finder' = answered PROVE OneLoses(finder, finder')
  <2> DEFINE z == NoGroup
  <2>1. Persists(finder, finder', z)
    BY <1>7, <1>9, SaysProposed DEF Persists, HasPlace
  <2> HIDE DEF z
  <2> QED BY <2>1, PersistsLoses
<1>10. ASSUME finder.made < Cardinality(Groups),
              NEW leader \in DOMAIN finder.proposals[i].answer,
              finder' = ProposalSucceeds(answered, i, leader)
       PROVE  OneLoses(finder, finder')
  <2>1. /\ answered.made < Cardinality(Groups) /\ i \in 1..Len(answered.proposals)
        /\ leader \in DOMAIN answered.proposals[i].answer /\ answered.data = finder.data
    BY <1>4, <1>10 DEF Answered, PartiesKept
  <2>2. OneLoses(answered, finder')
    BY <1>6, <1>10, <2>1, SucceedsLoses
  <2> QED BY <1>7, <2>1, <2>2 DEF OneLoses, Loses, PlayersOf
<1> QED BY <1>3, <1>8, <1>9, <1>10

\* The search takes nobody's place.
LEMMA SearchSteady ==
  ASSUME NEW f, Core(f), NEW x, Searched(f, {}, x), NEW e, Listed(f, e) \/ Says(f, e)
  PROVE  HasPlace(x, e)
<1>1. /\ f.proposals \in Seq(Proposals) /\ x.proposals \in Seq(Proposals)
      /\ Len(f.proposals) <= Len(x.proposals)
  BY CoreIs, FieldsOf DEF Searched
<1>2. CASE Listed(f, e)
  <2>1. Listed(x, e) \/ Taken(f, x, e)
    BY <1>2 DEF Searched
  <2>2. Taken(f, x, e) => Proposed(x, e)
    BY <1>1 DEF Taken, NewOnes, Proposed
  <2> QED BY <2>1, <2>2 DEF HasPlace
<1>3. CASE Says(f, e)
  <2>1. Proposed(f, e)
    BY <1>3, SaysProposed
  <2>2. Proposed(x, e)
    BY <1>1, <2>1 DEF Searched, Proposed
  <2> QED BY <2>2 DEF HasPlace
<1> QED BY <1>2, <1>3

LEMMA UpdateLoses ==
  ASSUME FinderOK(finder), NEW checks \in SUBSET DOMAIN finder.check,
         NEW expired \in 0..Len(finder.proposals), Update(checks, expired)
  PROVE  OneLoses(finder, finder')
<1> DEFINE k == RoleChecksFail(finder, checks)
           f == Expired(k, expired)
           x == FindGroups(f)
           i == Len(x.proposals)
           players == DOMAIN x.proposals[i].answer
           groups == {GroupOf(x, p) : p \in players} \ {NoGroup}
           S == players \cup groups
           d == NoGroup
<1>1. Core(finder) /\ InvitesOK(finder) /\ GroupsOK(finder)
  BY DEF FinderOK
<1>2. \/ finder' = x
      \/ /\ Len(x.proposals) # Len(f.proposals)
         /\ finder' = [SetState(x, S, "PROPOSAL") EXCEPT !.proposals[i].announced = TRUE]
  BY DEF Update, Announce
<1>3. Core(k) /\ Calm(finder, k) /\ QueueKept(finder, k)
  BY <1>1, RoleChecksFailKeeps
<1>4. Steady(finder, k)
  BY <1>3 DEF QueueKept, Steady, Listed, Says
<1>5. expired \in 0..Len(k.proposals)
  BY <1>3 DEF QueueKept
<1> HIDE DEF k
<1>6. Fell(k, expired, f)
  BY <1>3, <1>5, ExpiredKeeps
<1> HIDE DEF f
<1>7. Core(f) /\ Calm(k, f) /\ Steady(k, f)
  BY <1>6 DEF Fell
<1>8. GroupsOK(f)
  BY <1>1, <1>3, <1>7, CalmKeeps
<1>9. Searched(f, {}, x)
  BY <1>7, <1>8, FindGroupsIs
<1> HIDE DEF x
<1>10. ASSUME NEW e, Says(finder, e) PROVE HasPlace(x, e)
  <2>1. Listed(f, e) \/ Says(f, e)
    BY <1>4, <1>7, <1>10 DEF Steady
  <2> QED BY <1>7, <1>9, <2>1, SearchSteady
<1> HIDE DEF d
<1>11. Persists(finder, x, d)
  BY <1>10 DEF Persists
<1>12. ASSUME Len(x.proposals) # Len(f.proposals),
              finder' = [SetState(x, S, "PROPOSAL") EXCEPT !.proposals[i].announced = TRUE]
       PROVE  Persists(finder, finder', d)
  <2>1. x \in Finders /\ i \in 1..Len(x.proposals)
    <3>1. x \in Finders /\ Len(f.proposals) <= Len(x.proposals)
      BY <1>9 DEF Searched
    <3>2. x.proposals \in Seq(Proposals) /\ f.proposals \in Seq(Proposals)
      BY <1>7, <3>1, CoreIs, FieldsOf
    <3> QED BY <1>12, <3>1, <3>2
  <2> HIDE DEF S, i
  <2>2. Alerted(x, i, S, finder')
    BY <1>12, <2>1, AlertedIs
  <2>3. \A e : HasPlace(x, e) => HasPlace(finder', e)
    BY <2>2 DEF Alerted, HasPlace, Listed, Proposed
  <2> QED BY <1>11, <2>3 DEF Persists
<1>13. Persists(finder, finder', d)
  BY <1>2, <1>11, <1>12
<1> QED BY <1>13, PersistsLoses

LEMMA NextLoses ==
  ASSUME FinderOK(finder), Next
  PROVE  OneLoses(finder, finder')
<1>1. ASSUME NEW p \in Players, NEW b \in BOOLEAN,
             \/ LeaveQueue(p) \/ Accept(p) \/ Decline(p)
             \/ Join(p, b) \/ ChooseRoles(p, b) \/ Answer(p, b) \/ LeaveParty(p, b) \/ Logout(p, b)
      PROVE  OneLoses(finder, finder')
  BY <1>1, LeaveQueueLoses, AcceptLoses, DeclineLoses, JoinLoses, ChooseRolesLoses, AnswerLoses,
     LeavePartyLoses, LogoutLoses
<1>2. ASSUME NEW p \in Players, NEW q \in Players, Invite(p, q) PROVE OneLoses(finder, finder')
  BY <1>2, InviteLoses
<1>3. ASSUME NEW g \in Groups, FinishDungeon(g) \/ LastOneOut(g) PROVE OneLoses(finder, finder')
  BY <1>3, FinishDungeonLoses, LastOneOutLoses
<1>4. ASSUME NEW checks \in SUBSET DOMAIN finder.check, NEW expired \in 0..Len(finder.proposals),
             Update(checks, expired)
      PROVE  OneLoses(finder, finder')
  BY <1>4, UpdateLoses
<1> QED BY <1>1, <1>2, <1>3, <1>4 DEF Next

(***************************************************************************)
(* Who agrees keeps his place: whatever a step does to the proposals, at   *)
(* most one entry of whose players all have agreed is in the queue or in a *)
(* proposal no more, if they have not got a dungeon.                       *)
(***************************************************************************)
THEOREM WhoAgreesKeepsHisPlace == Patient /\ Spec => AgreeingKeepTheirPlace
<1> DEFINE lost == {e \in Agreed :
                      /\ ~ Waits(e)'
                      /\ \E p \in PlayersOf(finder, e) : finder'.state[p] # "DUNGEON"}
<1>1. ASSUME IInv, Next PROVE Cardinality(lost) <= 1
  <2>1. FinderOK(finder)
    BY <1>1 DEF IInv
  <2>2. PICK d : Loses(finder, finder', d)
    BY <1>1, <2>1, NextLoses DEF OneLoses
  <2>3. ASSUME NEW e \in Agreed PROVE Says(finder, e)
    BY <2>3 DEF Agreed, Says, Asked
  <2>4. ASSUME NEW e, ~ Waits(e)' PROVE ~ HasPlace(finder', e)
    BY <2>4 DEF Waits, HasPlace, Listed, Proposed
  <2>5. lost \subseteq {d}
    BY <2>2, <2>3, <2>4 DEF Loses
  <2> HIDE DEF lost
  <2>6. IsFiniteSet({d}) /\ Cardinality({d}) = 1
    BY FS_Singleton
  <2>7. IsFiniteSet(lost) /\ Cardinality(lost) <= Cardinality({d})
    BY <2>5, <2>6, FS_Subset
  <2> QED BY <2>6, <2>7
<1>2. ASSUME IInv, UNCHANGED vars PROVE Cardinality(lost) <= 1
  <2>1. ASSUME NEW e \in Agreed PROVE Waits(e)'
    BY <1>2, <2>1 DEF Agreed, Waits, vars, Listed
  <2>2. lost = {}
    BY <2>1
  <2> QED BY <2>2, FS_EmptySet
<1>3. IInv /\ [Next]_vars => [Cardinality(lost) <= 1]_vars
  BY <1>1, <1>2
<1> QED BY <1>3, FinderInvariance, PTL DEF Spec, AgreeingKeepTheirPlace
=============================================================================
