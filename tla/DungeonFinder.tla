---------------------------- MODULE DungeonFinder ----------------------------
(***************************************************************************)
(* The dungeon finder, DungeonFinding/LFGMgr.cpp and LFGScripts.cpp, with  *)
(* the parties it watches, Groups/Group.cpp: players and parties join, a   *)
(* party after a role check; whom the queue puts together are asked in a   *)
(* proposal, and if all agree they become a group in a dungeon.  All of it *)
(* runs in the world thread: an action is a handler or LFGMgr::Update.     *)
(***************************************************************************)
EXTENDS DungeonQueue

CONSTANTS
    Party,       \* the players who are in a party at the start, leader first
    MaxInvites,  \* how many invitations to a party are followed
    NoInvite,
    Patient      \* whether players leave alone what the finder cannot cope with:
                 \* nobody joins while an answer to his invitation is due, enters
                 \* a party while asked something, invites into a group of the
                 \* finder or joins to be refused, a dungeon is not finished by a
                 \* group that looks for more players, and no update finds two
                 \* groups, of which it would show one only

\* A party has two members or more; it is the first group.
ASSUME FinderAssumption ==
    /\ Party \in Seq(Players) /\ IsInjective(Party) /\ Len(Party) # 1
    /\ Party # <<>> => Groups # {}
    /\ NoInvite \notin Entries

VARIABLE finder  \* a record, see Init

vars == <<finder>>

States == {"NONE", "ROLECHECK", "QUEUED", "PROPOSAL", "DUNGEON", "FINISHED"}

\* GetGroup.
GroupOf(f, p) ==
    IF \E g \in Groups : p \in ToSet(f.party[g])
    THEN CHOOSE g \in Groups : p \in ToSet(f.party[g]) ELSE NoGroup

Members(f, g) == IF g = NoGroup THEN {} ELSE ToSet(f.party[g])

Leads(f, p, g) == f.party[g][1] = p

\* SetState: none, dungeon and finished are also what RestoreState returns to.
SetState(f, entries, new) ==
    [f EXCEPT !.state = [e \in Entries |-> IF e \in entries THEN new ELSE @[e]],
              !.old = [e \in Entries |->
                  IF e \in entries /\ new \in {"NONE", "DUNGEON", "FINISHED"} THEN new ELSE @[e]]]

RestoreState(f, entries) ==
    [f EXCEPT !.state = [e \in Entries |-> IF e \in entries THEN f.old[e] ELSE @[e]]]

Init ==
    finder =
        [state |-> [e \in Entries |-> "NONE"],          \* LfgPlayerData, LfgGroupData
         old   |-> [e \in Entries |-> "NONE"],
         data  |-> <<>>, new |-> <<>>, current |-> <<>>, compatible |-> <<>>,
         proposals |-> <<>>,
         check |-> <<>>,                                \* RoleChecksStore
         party |-> [g \in Groups |-> IF g = 1 THEN Party ELSE <<>>],
         made  |-> IF Party = <<>> THEN 0 ELSE 1,       \* groups that have existed
         lfg   |-> {},                                  \* groups made by the finder
         invites |-> 0,
         invite |-> [p \in Players |-> NoInvite]]       \* Player::GetGroupInvite

-----------------------------------------------------------------------------
(* Role checks and proposals.                                              *)

\* Role checks that are over, and those whom they asked.
CheckEnded(f, groups) == [f EXCEPT !.check = Restrict(@, DOMAIN @ \ groups)]

AskedIn(f, groups) == groups \cup UNION {f.check[g].asked : g \in groups}

\* UpdateRoleCheck with the check in a final state, or given up.
RoleChecksFail(f, groups) == RestoreState(CheckEnded(f, groups), AskedIn(f, groups))

RoleCheckPasses(f, g) ==
    AddQueueData(SetState(CheckEnded(f, {g}), AskedIn(f, {g}), "QUEUED"), g, f.check[g].asked)

UpdateRoleCheck(f, g, p, chosen) ==
    LET asked    == f.check[g].asked \cup {p}
        answered == f.check[g].answered \cup {p}
        noted    == [f EXCEPT !.check[g] = [asked |-> asked, answered |-> answered]]
    IN  IF ~chosen THEN RoleChecksFail(f, {g})
        ELSE IF answered # asked THEN noted
        ELSE IF RolesFit(asked) THEN RoleCheckPasses(noted, g)
        ELSE RoleChecksFail(noted, {g})

\* Slip: who came with somebody who denied is forgotten.
Deniers(proposal, failed) ==
    {p \in DOMAIN proposal.answer :
        \/ proposal.answer[p] = "DENY"
        \/ failed /\ proposal.answer[p] = "PENDING"}

\* The players who go with a proposal: those who denied, or, when it runs out,
\* have not answered, and everybody in their entries.
Out(proposal, failed) ==
    {p \in DOMAIN proposal.answer : \E q \in DOMAIN proposal.answer :
        /\ proposal.entry[p] = proposal.entry[q]
        /\ \/ proposal.answer[q] = "DENY"
           \/ failed /\ proposal.answer[q] = "PENDING"}

\* RemoveProposal: entries with a player who denied leave, the others wait again.
RemoveProposal(f, i, failed) ==
    LET proposal == f.proposals[i]
        out      == Out(proposal, failed)
        toRemove == {proposal.entry[p] : p \in out}
        stay     == DOMAIN proposal.answer \ out
        told     == SetState(RestoreState(f, out \cup toRemove),
                             stay \cup {proposal.entry[p] : p \in stay}, "QUEUED")
        readded  == ReAddToQueue(RemoveFromQueue(told, toRemove),
                                 Without(proposal.queues, toRemove))
    IN  [readded EXCEPT !.proposals = RemoveAt(@, i)]

Deny(f, i, p) ==
    RemoveProposal([f EXCEPT !.proposals[i].answer[p] = "DENY"], i, FALSE)

\* LeaveLfg of a player or a group.
LeaveLfg(f, e) ==
    LET g == IF e \in Groups THEN e ELSE GroupOf(f, e)
        p == IF e \in Groups THEN f.party[g][1] ELSE e
        whole == IF g = NoGroup THEN {e} ELSE Members(f, g) \cup {g}
        asking == {i \in 1..Len(f.proposals) : p \in DOMAIN f.proposals[i].answer}
    IN  CASE f.state[e] = "QUEUED" ->
               SetState(RemoveFromQueue(f, {IF g = NoGroup THEN e ELSE g}), whole, "NONE")
          [] f.state[e] = "ROLECHECK" ->
               IF g \in DOMAIN f.check THEN RoleChecksFail(f, {g}) ELSE f
          [] f.state[e] = "PROPOSAL" ->
               IF asking # {} THEN Deny(f, Min(asking), p) ELSE f
          [] f.state[e] \in {"DUNGEON", "FINISHED"} ->
               IF e \in Players THEN SetState(f, {e}, "NONE") ELSE f
          [] OTHER -> f

-----------------------------------------------------------------------------
(* Parties.                                                                *)

\* Group::Disband with RemoveGroupData.
Disband(f, g) ==
    LET freed == IF f.state[g] = "PROPOSAL" THEN f ELSE SetState(f, Members(f, g), "NONE")
    IN  [SetState(freed, {g}, "NONE") EXCEPT
            !.party[g] = <<>>, !.lfg = @ \ {g},
            !.invite = [p \in Players |-> IF @[p] = g THEN NoInvite ELSE @[p]]]

\* Slip: a player who goes over to the new group leaves the finder.
OnRemoveMemberAlways(f, g, p, default) == LeaveLfg(f, p)

\* OnRemoveMember: who goes over to the new group of a proposal goes silently.
OnRemoveMember(f, g, p, default) ==
    IF f.state[g] = "PROPOSAL" /\ default THEN f ELSE LeaveLfg(f, p)

\* Group::RemoveMember; inside tells whether the last one left of a group of
\* the finder is in the dungeon.
RemoveMember(f, g, p, default, inside) ==
    LET left == OnRemoveMember(f, g, p, default)
        rest == [left EXCEPT !.party[g] = Without(@, {p})]
        lfg  == g \in f.lfg
        size == Len(f.party[g])
    IN  IF \/ size <= (IF lfg THEN 1 ELSE 2)
           \/ lfg /\ size = 2 /\ ~(inside /\ left.old[g] # "NONE")
        THEN Disband(rest, g) ELSE rest

\* Slip: a player who queued alone stays in the queue.
OnAddMemberQueued(f, g, p) == IF f.state[g] = "QUEUED" THEN LeaveLfg(f, g) ELSE f

\* OnAddMember of another than the leader.
OnAddMember(f, g, p) ==
    LET alone == IF f.state[p] = "QUEUED" THEN LeaveLfg(f, p) ELSE f
    IN  IF f.state[g] = "QUEUED" THEN LeaveLfg(alone, g) ELSE alone

\* Group::AddMember.
AddMember(f, g, p) ==
    LET added == IF f.party[g] = <<>> THEN f ELSE OnAddMember(f, g, p)
    IN  [added EXCEPT
            !.party[g] = Append(@, p), !.invite[p] = NoInvite]

\* Player::UninviteFromGroup: a pending group, which has no member yet, goes.
Uninvite(f, p) ==
    LET from == f.invite[p]
    IN  IF from = NoInvite THEN f
        ELSE IF from \in Players
        THEN [f EXCEPT !.invite = [q \in Players |-> IF @[q] = from THEN NoInvite ELSE @[q]]]
        ELSE LET lapsed == [f EXCEPT !.invite[p] = NoInvite]
             IN  IF Len(f.party[from]) <= 1 THEN Disband(lapsed, from) ELSE lapsed

\* MakeNewGroup: a player leaves his party and enters the group.
Enter(g, f, p) ==
    LET from == GroupOf(f, p)
        left == IF from = NoGroup THEN f ELSE RemoveMember(f, from, p, TRUE, FALSE)
    IN  IF from = g THEN f ELSE AddMember(left, g, p)

\* The players enter one after the other.
EnterInOrder(g, f, order) == FoldLeft(LAMBDA h, p : Enter(g, h, p), f, order)

\* The leader goes first.
MakeNewGroup(f, proposal, leader) ==
    LET exists == proposal.group # NoGroup /\ f.party[proposal.group] # <<>>
        g      == IF exists THEN proposal.group ELSE f.made + 1
        order  == <<leader>> \o SetToSeq(DOMAIN proposal.answer \ {leader})
        begun  == IF exists THEN f ELSE SetState(f, {g}, "PROPOSAL")
        full   == EnterInOrder(g, begun, order)
    IN  [SetState(full, {g}, "DUNGEON") EXCEPT
            !.lfg = @ \cup {g}, !.made = IF exists THEN @ ELSE g]

\* UpdateProposal when the last answer is yes.
ProposalSucceeds(f, i, leader) ==
    LET proposal == f.proposals[i]
        found == RemoveFromQueue(SetState(f, DOMAIN proposal.answer, "DUNGEON"),
                                 ToSet(proposal.queues))
    IN  [MakeNewGroup(found, proposal, leader) EXCEPT !.proposals = RemoveAt(@, i)]

-----------------------------------------------------------------------------
(* Handlers.                                                               *)

\* Who is asked something answers before his client lets him join again.
Busy(p) == finder.state[p] \in {"ROLECHECK", "PROPOSAL"}

\* HandleLfgJoinOpcode with JoinLfg, which may refuse for much that is not
\* modelled: auras, battlegrounds, levels, and that a group which would go on
\* has no dungeon any more.
Join(p, refused) ==
    LET g  == GroupOf(finder, p)
        e  == IF g = NoGroup THEN p ELSE g
        f  == IF finder.state[e] = "QUEUED" THEN RemoveFromQueue(finder, {e}) ELSE finder
        continues == g \in finder.lfg /\ finder.state[e] # "FINISHED"
        members == Members(f, g)
        before == IF g \in DOMAIN f.check THEN f.check[g] ELSE [asked |-> {}, answered |-> {}]
        asking == SetState([f EXCEPT !.check = Put(@, g,
                      [asked |-> before.asked \cup members,
                       answered |-> before.answered \ members])],
                      members \cup {g}, "ROLECHECK")
    IN  /\ ~Busy(p)
        /\ Cardinality(members) > GroupSize => refused
        /\ continues /\ finder.old[g] = "NONE" => refused
        /\ Patient => finder.invite[p] # p /\ ~refused
        /\ g # NoGroup => \/ Leads(finder, p, g)
                          \/ g \in finder.lfg /\ Len(finder.party[g]) # GroupSize
        /\ finder' = IF refused THEN f
                     ELSE IF g = NoGroup
                     THEN SetState(AddQueueData(f, p, {p}), {p}, "QUEUED")
                     ELSE UpdateRoleCheck(asking, g, p, TRUE)

\* HandleLfgSetRolesOpcode, from those who have been asked.
ChooseRoles(p, chosen) ==
    LET g == GroupOf(finder, p)
    IN  /\ g \in DOMAIN finder.check
        /\ p \in finder.check[g].asked \ finder.check[g].answered
        /\ finder' = UpdateRoleCheck(finder, g, p, chosen)

\* HandleLfgLeaveOpcode.
LeaveQueue(p) ==
    LET g == GroupOf(finder, p)
    IN  /\ g # NoGroup => Leads(finder, p, g)
        /\ finder' = LeaveLfg(finder, IF g = NoGroup THEN p ELSE g)

\* HandleLfgProposalResultOpcode, from those whom the proposal was shown.
Answer(p, agree) ==
    \E i \in 1..Len(finder.proposals) :
        LET proposal == finder.proposals[i]
            answered == [finder EXCEPT !.proposals[i].answer[p] = "AGREE"]
        IN  /\ proposal.announced
            /\ p \in DOMAIN proposal.answer /\ proposal.answer[p] = "PENDING"
            /\ IF ~agree THEN finder' = Deny(finder, i, p)
               ELSE IF \E q \in DOMAIN proposal.answer \ {p} : proposal.answer[q] # "AGREE"
               THEN finder' = answered
               ELSE /\ finder.made < Cardinality(Groups)
                    /\ \E leader \in DOMAIN proposal.answer :
                          finder' = ProposalSucceeds(answered, i, leader)

\* HandleGroupInviteOpcode.  The first invitation by a player without a party
\* makes a pending group of the two, and takes him out of the finder.
Invite(p, q) ==
    LET g == GroupOf(finder, p)
        counted == [finder EXCEPT !.invites = @ + 1]
        pending == [counted EXCEPT !.invite[p] = p, !.invite[q] = p]
    IN  /\ finder.invites < MaxInvites
        /\ p # q /\ GroupOf(finder, q) = NoGroup /\ finder.invite[q] = NoInvite
        /\ IF g = NoGroup
           THEN finder.invite[p] = NoInvite /\ finder' = LeaveLfg(pending, p)
           ELSE /\ Leads(finder, p, g) /\ Len(finder.party[g]) < GroupSize
                /\ Patient => g \notin finder.lfg
                /\ finder' = [counted EXCEPT !.invite[q] = g]

\* HandleGroupAcceptOpcode.  That the inviter has got into another group
\* meanwhile, so that he is now in two, is not followed.
Accept(q) ==
    LET from == finder.invite[q]
        f    == [finder EXCEPT !.invite[q] = NoInvite]
        g    == finder.made + 1
        created == AddMember([f EXCEPT !.invite[from] = NoInvite, !.made = g], g, from)
    IN  /\ from \notin {NoInvite, q} /\ GroupOf(finder, q) = NoGroup
        /\ Patient => ~Busy(q) /\ ~Busy(from)
        /\ IF from \in Groups
           THEN finder' = IF Len(f.party[from]) >= GroupSize THEN f ELSE AddMember(f, from, q)
           ELSE /\ GroupOf(finder, from) = NoGroup
                /\ finder.made < Cardinality(Groups)
                /\ finder' = AddMember(created, g, q)

\* HandleGroupDeclineOpcode.
Decline(q) ==
    /\ finder.invite[q] \notin {NoInvite, q}
    /\ finder' = Uninvite(finder, q)

\* Whether it matters if the one whom p leaves behind is in the dungeon.
LeavesOne(p) ==
    LET g == GroupOf(finder, p) IN g \in finder.lfg /\ Len(finder.party[g]) = 2

\* HandleGroupDisbandOpcode, by which a player leaves his party.
LeaveParty(p, inside) ==
    /\ GroupOf(finder, p) # NoGroup
    /\ inside => LeavesOne(p)
    /\ finder' = RemoveMember(finder, GroupOf(finder, p), p, FALSE, inside)

\* LogoutPlayer of a player whose client says good-bye, with OnLogout.
Logout(p, inside) ==
    LET f    == Uninvite(finder, p)
        g    == GroupOf(f, p)
        left == IF g = NoGroup THEN f ELSE RemoveMember(f, g, p, TRUE, inside)
    IN  /\ inside => LeavesOne(p)
        /\ finder' = LeaveLfg(left, p)

\* LFGPlayerScript::OnMapChanged of the last one of a group.
LastOneOut(g) ==
    /\ Len(finder.party[g]) = 1
    /\ finder' = Disband(LeaveLfg(finder, g), g)

\* FinishDungeon, when the last boss is dead.
FinishDungeon(g) ==
    /\ finder.party[g] # <<>> /\ finder.old[g] # "NONE" /\ finder.state[g] # "FINISHED"
    /\ Patient => finder.state[g] = "DUNGEON"
    /\ finder' = SetState(finder, Members(finder, g) \cup {g}, "FINISHED")

-----------------------------------------------------------------------------
\* LFGMgr::Update: role checks and proposals run out, the queue is searched,
\* and the last of the proposals it makes is shown to its players.
Announce(f, i) ==
    LET players == DOMAIN f.proposals[i].answer
        groups  == {GroupOf(f, p) : p \in players} \ {NoGroup}
    IN  [SetState(f, players \cup groups, "PROPOSAL") EXCEPT !.proposals[i].announced = TRUE]

Expire(f, i) == RemoveProposal(f, 1, TRUE)

\* The oldest proposals run out.
Expired(f, n) == FoldLeft(Expire, f, [i \in 1..n |-> i])

Update(checks, expired) ==
    LET fallen == Expired(RoleChecksFail(finder, checks), expired)
        found  == FindGroups(fallen)
    IN  /\ Patient => Len(found.proposals) <= Len(fallen.proposals) + 1
        /\ finder' = IF Len(found.proposals) = Len(fallen.proposals) THEN found
                     ELSE Announce(found, Len(found.proposals))

Next ==
    \/ \E p \in Players :
          \/ LeaveQueue(p) \/ Accept(p) \/ Decline(p)
          \/ \E b \in BOOLEAN :
                Join(p, b) \/ ChooseRoles(p, b) \/ Answer(p, b) \/ LeaveParty(p, b) \/ Logout(p, b)
          \/ \E q \in Players : Invite(p, q)
    \/ \E g \in Groups : FinishDungeon(g) \/ LastOneOut(g)
    \/ \E checks \in SUBSET DOMAIN finder.check, expired \in 0..Len(finder.proposals) :
          Update(checks, expired)

Spec == Init /\ [][Next]_vars

-----------------------------------------------------------------------------
TypeOK ==
    /\ finder.state \in [Entries -> States] /\ finder.old \in [Entries -> States]
    /\ DOMAIN finder.data \subseteq Entries /\ DOMAIN finder.check \subseteq Groups
    /\ finder.invite \in [Players -> Players \cup Groups \cup {NoInvite}]

Shown(i) == finder.proposals[i].announced

Asked(i) == DOMAIN finder.proposals[i].answer

\* Nobody waits twice: no player is in two entries of the queue, no entry is
\* listed twice, and nobody is shown two proposals.  The queue logs "Player
\* multiple times in queue!" where it finds otherwise.
NobodyWaitsTwice ==
    /\ \A d, e \in DOMAIN finder.data :
          d # e => finder.data[d] \cap finder.data[e] = {}
    /\ IsInjective(finder.new \o finder.current)
    /\ \A i, j \in 1..Len(finder.proposals) :
          i # j /\ Shown(i) /\ Shown(j) => Asked(i) \cap Asked(j) = {}

\* What the finder tells a player he is waiting for is there, so that nobody
\* waits for what cannot come: a role check of his party, a place in the queue
\* or in a proposal that still can be answered.  What is listed is queued.
StatesAreBacked ==
    /\ \A p \in Players :
          LET e == IF GroupOf(finder, p) = NoGroup THEN p ELSE GroupOf(finder, p)
          IN  /\ finder.state[p] = "ROLECHECK" => e \in DOMAIN finder.check
              /\ finder.state[p] = "PROPOSAL" =>
                    \E i \in 1..Len(finder.proposals) : Shown(i) /\ p \in Asked(i)
              /\ finder.state[p] = "QUEUED" =>
                    /\ e \in DOMAIN finder.data
                    /\ \/ Listed(finder, e)
                       \/ \E i \in 1..Len(finder.proposals) : p \in Asked(i)
    /\ \A e \in Entries : Listed(finder, e) =>
          e \in DOMAIN finder.data /\ finder.state[e] = "QUEUED"

\* When a proposal succeeds all whom it was shown to, and only they, are in one
\* group of the finder and in its dungeon, although MakeNewGroup takes one
\* after the other out of the party he came with, and so may dissolve it.  The
\* group is full, its roles can be filled, and nobody in it ignores another
\* unless they came together, whatever the queue had cached.
TogetherAfterwards ==
    [][\A i \in 1..Len(finder.proposals) :
          (\E p \in Asked(i) : /\ finder.state[p] = "PROPOSAL" /\ finder.old[p] # "DUNGEON"
                               /\ finder'.state[p] = "DUNGEON") =>
              /\ \E g \in finder'.lfg : ToSet(finder'.party[g]) = Asked(i)
              /\ \A q \in Asked(i) : finder'.state[q] = "DUNGEON"
              /\ Cardinality(Asked(i)) = GroupSize /\ RolesFit(Asked(i))
              /\ \A p, q \in Asked(i) : {p, q} \in Ignoring =>
                    finder.proposals[i].entry[p] = finder.proposals[i].entry[q]]_vars

\* The entries all of whose players have agreed to what they are shown.
Agreed ==
    UNION {{e \in ToSet(finder.proposals[i].queues) :
               \A p \in Asked(i) : finder.proposals[i].entry[p] = e =>
                   finder.proposals[i].answer[p] = "AGREE"} :
           i \in {j \in 1..Len(finder.proposals) : Shown(j)}}

Waits(e) ==
    \/ Listed(finder, e)
    \/ \E i \in 1..Len(finder.proposals) : e \in ToSet(finder.proposals[i].queues)

\* Who agrees loses his place in the queue only by what he does himself or for
\* a dungeon: a proposal that others let fall, or that runs out, puts his entry
\* back (LFGMgr::RemoveProposal), so a step takes at most one such entry out.
AgreeingKeepTheirPlace ==
    [][Cardinality({e \in Agreed :
          /\ ~Waits(e)'
          /\ \E p \in PlayersOf(finder, e) : finder'.state[p] # "DUNGEON"}) <= 1]_vars
=============================================================================
