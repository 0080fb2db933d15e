------------------------ MODULE DungeonFinder_lemmas ------------------------
(***************************************************************************)
(* What the operators of the dungeon finder do, for all players, parties   *)
(* and sizes of groups: the invariant of the finder, FinderOK, and what    *)
(* each helper, handler and answer to a proposal makes of it.              *)
(*                                                                         *)
(* Core relates what the finder keeps twice: the state that it shows for   *)
(* an entry with the queue, the role checks and the proposals; who waits   *)
(* with the lists of the parties.  An operator is a loop over some set or  *)
(* list, a fold, of which FoldLemmas says that it keeps what its steps     *)
(* keep.                                                                   *)
(***************************************************************************)
EXTENDS DungeonFinder, FoldLemmas, SequenceTheorems

\* What is told of a player who waits for nothing.
Idle == {"NONE", "DUNGEON", "FINISHED"}

Verdicts == {"LESS", "MULTIPLE", "TOO_MUCH", "IGNORES", "NO_ROLES", "BAD_STATES", "MATCH",
             "WRONG_SIZE", "PENDING"}

Crowds == SUBSET Players
Sets == SUBSET Entries
Checks == [asked : Crowds, answered : Crowds]

Partial(S, T) == UNION {[D -> T] : D \in SUBSET S}

Proposals ==
  [queues : Seq(Entries), isNew : BOOLEAN, group : Groups \cup {NoGroup},
   entry : Partial(Players, Entries), answer : Partial(Players, {"AGREE", "DENY", "PENDING"}),
   announced : BOOLEAN]

Finders ==
  [state : [Entries -> States], old : [Entries -> Idle],
   data : Partial(Entries, Crowds), new : Seq(Entries), current : Seq(Entries),
   compatible : Partial(Sets, Verdicts), proposals : Seq(Proposals),
   check : Partial(Groups, Checks),
   party : [Groups -> Seq(Players)], made : Nat, lfg : SUBSET Groups, invites : Nat,
   invite : [Players -> Players \cup Groups \cup {NoInvite}]]

\* The parties that have members and the players without one are the entries.
IsEntry(f, e) ==
  IF e \in Groups THEN f.party[e] # <<>> ELSE \A g \in Groups : e \notin ToSet(f.party[g])

Folk(f, e) == IF e \in Groups THEN ToSet(f.party[e]) ELSE {e}

Proposed(f, e) == \E i \in 1..Len(f.proposals) : e \in ToSet(f.proposals[i].queues)

\* Nobody is in two parties.
PartiesApart(f) ==
  /\ \A g \in Groups : IsInjective(f.party[g])
  /\ \A g, h \in Groups : g # h => ToSet(f.party[g]) \cap ToSet(f.party[h]) = {}

\* The members of a party wait for what the party waits for.
Synced(f) ==
  /\ \A g \in Groups : \A p \in ToSet(f.party[g]) :
       f.state[p] = f.state[g] \/ (f.state[p] \in Idle /\ f.state[g] \in Idle)
  /\ \A g \in Groups : f.party[g] = <<>> => f.state[g] \in Idle

\* The state of an entry says where it is.
Where(f) ==
  \A e \in Entries :
    /\ e \in DOMAIN f.check <=> IsEntry(f, e) /\ f.state[e] = "ROLECHECK"
    /\ Listed(f, e) <=> IsEntry(f, e) /\ f.state[e] = "QUEUED"
    /\ Proposed(f, e) <=> IsEntry(f, e) /\ f.state[e] = "PROPOSAL"
    /\ e \in DOMAIN f.data <=> IsEntry(f, e) /\ f.state[e] \in {"QUEUED", "PROPOSAL"}

\* The queue and the role checks know who is in an entry, and a party that is
\* queued has passed its role check.
Known(f) ==
  /\ \A e \in DOMAIN f.data : f.data[e] = Folk(f, e)
  /\ \A g \in Groups : g \in DOMAIN f.data => RolesFit(f.data[g])
  /\ \A g \in DOMAIN f.check : f.check[g].asked = Folk(f, g)

\* They make a full group, of which no role is taken too often, and who ignores
\* another has come with him.
Matched(proposal) ==
  /\ Cardinality(DOMAIN proposal.answer) = GroupSize
  /\ RolesFit(DOMAIN proposal.answer)
  /\ \A p, q \in DOMAIN proposal.answer :
       {p, q} \in Ignoring => proposal.entry[p] = proposal.entry[q]

\* The players of a proposal are those of its entries.
Sound(f, proposal) ==
  /\ IsInjective(proposal.queues)
  /\ DOMAIN proposal.entry = UNION {f.data[e] : e \in ToSet(proposal.queues)}
  /\ DOMAIN proposal.answer = DOMAIN proposal.entry
  /\ \A p \in DOMAIN proposal.entry :
       proposal.entry[p] \in ToSet(proposal.queues) /\ p \in f.data[proposal.entry[p]]
  /\ proposal.group # NoGroup => proposal.group \in ToSet(proposal.queues)
  /\ Matched(proposal)

ProposalsOK(f) ==
  /\ \A i \in 1..Len(f.proposals) : Sound(f, f.proposals[i]) /\ f.proposals[i].announced
  /\ \A i, j \in 1..Len(f.proposals) :
       i # j => ToSet(f.proposals[i].queues) \cap ToSet(f.proposals[j].queues) = {}

\* What is remembered of a set of entries is about entries that wait and have
\* been looked at.
CacheOK(f) ==
  \A set \in DOMAIN f.compatible : set \subseteq DOMAIN f.data /\ set \cap ToSet(f.new) = {}

Core(f) ==
  /\ f \in Finders
  /\ PartiesApart(f)
  /\ Synced(f)
  /\ Where(f)
  /\ Known(f)
  /\ ProposalsOK(f)
  /\ IsInjective(f.new \o f.current)
  /\ CacheOK(f)

\* Who has invited somebody waits alone; a party that invites is made by hand.
InvitesOK(f) ==
  /\ \A p, q \in Players : f.invite[q] = p =>
       f.invite[p] = p /\ IsEntry(f, p) /\ f.state[p] \in Idle
  /\ \A p, q, r \in Players : f.invite[q] = p /\ f.invite[r] = p /\ q # p /\ r # p => q = r
  /\ \A g \in Groups, q \in Players : f.invite[q] = g => f.party[g] # <<>> /\ g \notin f.lfg

\* A party made by hand has two members or more.
GroupsOK(f) ==
  /\ \A g \in Groups : f.old[g] # "NONE" => g \in f.lfg
  /\ \A g \in Groups : f.party[g] # <<>> /\ g \notin f.lfg => Len(f.party[g]) >= 2
  /\ \A g \in Groups : g > f.made => f.party[g] = <<>>
  /\ \A i \in 1..Len(f.proposals) : f.proposals[i].group \in f.lfg \cup {NoGroup}


-----------------------------------------------------------------------------
(***************************************************************************)
(* Folds over what the finder goes through, one operator after the other.  *)
(***************************************************************************)
W == INSTANCE FoldLemmas WITH Folded <- LAMBDA a, x, e : IF e \in a THEN x ELSE Append(x, e)

(***************************************************************************)
(* Sequences.                                                              *)
(***************************************************************************)
Kept(s, entries, kept) ==
  kept = [i \in 0..Len(s) |-> IF i = 0 THEN <<>>
            ELSE IF s[i] \in entries THEN kept[i - 1] ELSE Append(kept[i - 1], s[i])]

LEMMA SomeKept ==
  ASSUME NEW S, NEW s \in Seq(S), NEW entries
  PROVE  \E kept : Kept(s, entries, kept)
<1>1. Len(s) \in Nat
  OBVIOUS
<1>2. \E k : W!Steps(entries, <<>>, Len(s), s, k)
  BY <1>1, W!StepsExist
<1> QED BY <1>2 DEF Kept, W!Steps

LEMMA WithoutIs ==
  ASSUME NEW S, NEW s \in Seq(S), NEW entries
  PROVE  /\ Without(s, entries) \in Seq(S)
         /\ ToSet(Without(s, entries)) = ToSet(s) \ entries
         /\ IsInjective(s) => IsInjective(Without(s, entries))
         /\ Len(Without(s, entries)) <= Len(s)
         /\ \A e : IsInjective(s) /\ entries = {e} => Len(Without(s, entries)) >= Len(s) - 1
<1> DEFINE k == CHOOSE kept : Kept(s, entries, kept)
           n == Len(s)
<1>1. Without(s, entries) = k[n]
  BY DEF Without, Kept
<1>2. Kept(s, entries, k)
  BY SomeKept
<1> HIDE DEF k
<1>3. \A i \in 0..n : k[i] = IF i = 0 THEN <<>>
        ELSE IF s[i] \in entries THEN k[i - 1] ELSE Append(k[i - 1], s[i])
  BY <1>2 DEF Kept
<1> DEFINE Good(i) ==
      /\ k[i] \in Seq(S) /\ Len(k[i]) <= i
      /\ \A j \in 1..Len(k[i]) : \E m \in 1..i : k[i][j] = s[m] /\ s[m] \notin entries
      /\ \A m \in 1..i : s[m] \notin entries => \E j \in 1..Len(k[i]) : k[i][j] = s[m]
      /\ IsInjective(s) => \A j, l \in 1..Len(k[i]) : k[i][j] = k[i][l] => j = l
      /\ \A e : IsInjective(s) /\ entries = {e} =>
            /\ Len(k[i]) >= i - 1
            /\ (\A m \in 1..i : s[m] # e) => Len(k[i]) = i
           I == {i \in 0..n : Good(i)}
<1>4. n \in Nat /\ \A i \in 1..n : s[i] \in S
  OBVIOUS
<1>5. 0 \in I
  <2>1. k[0] = <<>> /\ 0 \in 0..n
    BY <1>3, <1>4
  <2>2. k[0] \in Seq(S) /\ Len(k[0]) = 0
    BY <2>1
  <2> HIDE DEF n
  <2>3. Good(0)
    BY <2>2
  <2> QED BY <2>1, <2>3
<1>6. ASSUME NEW i \in 0..(n - 1), i \in I PROVE i + 1 \in I
  <2>1. i + 1 \in 0..n /\ i + 1 \in 1..n /\ (i + 1) - 1 = i /\ i + 1 # 0
    BY <1>4
  <2>2. k[i + 1] = IF s[i + 1] \in entries THEN k[i] ELSE Append(k[i], s[i + 1])
    BY <1>3, <2>1
  <2>3. Good(i)
    BY <1>6
  <2>4. CASE s[i + 1] \in entries
    <3>1. k[i + 1] = k[i]
      BY <2>2, <2>4
    <3>2. i \in Nat
      BY <1>4
    <3> HIDE DEF n
    <3>3. Good(i + 1)
      <4>1. k[i + 1] \in Seq(S) /\ Len(k[i + 1]) <= i + 1 /\ Len(k[i + 1]) \in Nat
        BY <2>3, <3>1, <3>2
      <4>2. \A j \in 1..Len(k[i + 1]) : \E m \in 1..(i + 1) : k[i + 1][j] = s[m] /\ s[m] \notin entries
        BY <2>3, <3>1, <3>2
      <4>3. \A m \in 1..(i + 1) : s[m] \notin entries => \E j \in 1..Len(k[i + 1]) : k[i + 1][j] = s[m]
        <5>1. \A m \in 1..(i + 1) : m \in 1..i \/ m = i + 1
          BY <3>2
        <5> QED BY <2>3, <2>4, <3>1, <5>1
      <4>4. IsInjective(s) => \A j, l \in 1..Len(k[i + 1]) : k[i + 1][j] = k[i + 1][l] => j = l
        BY <2>3, <3>1
      <4>5. ASSUME NEW d, IsInjective(s), entries = {d}
            PROVE  /\ Len(k[i + 1]) >= (i + 1) - 1
                   /\ (\A m \in 1..(i + 1) : s[m] # d) => Len(k[i + 1]) = i + 1
        <5>1. s[i + 1] = d /\ i + 1 \in 1..(i + 1)
          BY <2>4, <3>2, <4>5
        <5>2. \A m \in 1..i : s[m] # d
          <6> SUFFICES ASSUME NEW m \in 1..i, s[m] = d PROVE FALSE
            OBVIOUS
          <6>1. m \in DOMAIN s /\ i + 1 \in DOMAIN s /\ m # i + 1
            BY <1>4, <2>1, <3>2 DEF n
          <6> QED BY <4>5, <5>1, <6>1 DEF IsInjective
        <5>3. Len(k[i]) >= i - 1 /\ ((\A m \in 1..i : s[m] # d) => Len(k[i]) = i)
          BY <2>3, <4>5
        <5>4. Len(k[i + 1]) = i
          BY <3>1, <5>2, <5>3
        <5> QED BY <3>2, <5>1, <5>4
      <4> QED BY <4>1, <4>2, <4>3, <4>4, <4>5
    <3> QED BY <2>1, <3>3
  <2>5. CASE s[i + 1] \notin entries
    <3> DEFINE q == k[i]  r == k[i + 1]  e == s[i + 1]
    <3>1. /\ r \in Seq(S) /\ Len(r) = Len(q) + 1 /\ q \in Seq(S) /\ Len(q) \in Nat
          /\ \A j \in 1..Len(q) : r[j] = q[j]
          /\ r[Len(q) + 1] = e
      BY <1>4, <2>1, <2>2, <2>3, <2>5
    <3>2. \A j \in 1..Len(r) : j \in 1..Len(q) \/ j = Len(q) + 1
      BY <3>1
    <3>3. /\ i \in Nat /\ (\A m \in 1..(i + 1) : m \in 1..i \/ m = i + 1)
          /\ (\A m \in 1..i : m \in 1..(i + 1)) /\ i + 1 \in 1..(i + 1)
      BY <1>4
    <3>4. /\ Len(q) <= i
          /\ \A j \in 1..Len(q) : \E m \in 1..i : q[j] = s[m] /\ s[m] \notin entries
          /\ \A m \in 1..i : s[m] \notin entries => \E j \in 1..Len(q) : q[j] = s[m]
          /\ IsInjective(s) => \A j, l \in 1..Len(q) : q[j] = q[l] => j = l
      BY <2>3
    <3>5. ASSUME IsInjective(s), NEW m \in 1..i PROVE s[m] # e
      <4>1. m \in DOMAIN s /\ i + 1 \in DOMAIN s /\ m # i + 1
        BY <1>4, <2>1, <3>3
      <4> QED BY <3>5, <4>1 DEF IsInjective
    <3>6. ASSUME NEW d, IsInjective(s), entries = {d}
          PROVE  /\ Len(q) >= i - 1
                 /\ (\A m \in 1..i : s[m] # d) => Len(q) = i
      BY <2>3, <3>6
    <3>7. e \notin entries /\ e = s[i + 1]
      BY <2>5
    <3> HIDE DEF q, r, e, n
    <3>8. Len(r) <= i + 1
      BY <3>1, <3>3, <3>4
    <3>9. \A j \in 1..Len(r) : \E m \in 1..(i + 1) : r[j] = s[m] /\ s[m] \notin entries
      <4>1. \A j \in 1..Len(q) : \E m \in 1..(i + 1) : r[j] = s[m] /\ s[m] \notin entries
        <5> SUFFICES ASSUME NEW j \in 1..Len(q)
                     PROVE  \E m \in 1..(i + 1) : r[j] = s[m] /\ s[m] \notin entries
          OBVIOUS
        <5>1. PICK m \in 1..i : q[j] = s[m] /\ s[m] \notin entries
          BY <3>4
        <5>2. m \in 1..(i + 1) /\ r[j] = s[m]
          BY <3>1, <3>3, <5>1
        <5> QED BY <5>1, <5>2
      <4> QED BY <3>1, <3>2, <3>3, <3>7, <4>1
    <3>10. \A m \in 1..(i + 1) : s[m] \notin entries => \E j \in 1..Len(r) : r[j] = s[m]
      <4>1. \A j \in 1..Len(q) : j \in 1..Len(r)
        BY <3>1
      <4>2. Len(q) + 1 \in 1..Len(r)
        BY <3>1
      <4> SUFFICES ASSUME NEW m \in 1..(i + 1), s[m] \notin entries
                   PROVE  \E j \in 1..Len(r) : r[j] = s[m]
        OBVIOUS
      <4>3. CASE m \in 1..i
        <5>1. PICK j \in 1..Len(q) : q[j] = s[m]
          BY <3>4, <4>3
        <5> QED BY <3>1, <4>1, <5>1
      <4>4. CASE m = i + 1
        BY <3>1, <3>7, <4>2, <4>4
      <4> QED BY <3>3, <4>3, <4>4
    <3>11. ASSUME IsInjective(s), NEW j \in 1..Len(r), NEW l \in 1..Len(r), r[j] = r[l]
           PROVE  j = l
      <4>1. \A m \in 1..Len(q) : q[m] # e
        BY <3>4, <3>5, <3>11
      <4> QED BY <3>1, <3>2, <3>4, <3>11, <4>1
    <3>12. ASSUME NEW d, IsInjective(s), entries = {d}
           PROVE  /\ Len(r) >= (i + 1) - 1
                  /\ (\A m \in 1..(i + 1) : s[m] # d) => Len(r) = i + 1
      <4>1. Len(q) >= i - 1 /\ ((\A m \in 1..i : s[m] # d) => Len(q) = i)
        BY <3>6, <3>12
      <4>2. (\A m \in 1..(i + 1) : s[m] # d) => \A m \in 1..i : s[m] # d
        BY <3>3
      <4> QED BY <3>1, <3>3, <4>1, <4>2
    <3>13. Good(i + 1)
      BY <3>1, <3>8, <3>9, <3>10, <3>11, <3>12 DEF r
    <3> QED BY <2>1, <3>13
  <2> QED BY <2>4, <2>5
<1>7. Good(n)
  <2>1. n \in I
    <3> HIDE DEF I
    <3>1. \A i \in 0..n : i \in I
      BY <1>4, <1>5, <1>6, UpTo
    <3> QED BY <1>4, <3>1
  <2> QED BY <2>1, Zenon
<1> DEFINE w == Without(s, entries)
<1>8. DOMAIN w = 1..Len(w) /\ DOMAIN s = 1..n /\ w = k[n]
  BY <1>1, <1>7
<1> HIDE DEF w
<1>11. /\ \A j \in DOMAIN w : \E m \in DOMAIN s : w[j] = s[m] /\ s[m] \notin entries
       /\ \A m \in DOMAIN s : s[m] \notin entries => \E j \in DOMAIN w : w[j] = s[m]
  BY <1>7, <1>8
<1>9. ToSet(w) = ToSet(s) \ entries
  <2>1. ToSet(w) \subseteq ToSet(s) \ entries
    BY <1>11 DEF ToSet
  <2>2. ToSet(s) \ entries \subseteq ToSet(w)
    BY <1>11 DEF ToSet
  <2> QED BY <2>1, <2>2
<1>10. IsInjective(s) => IsInjective(w)
  BY <1>7, <1>8 DEF IsInjective
<1> QED BY <1>7, <1>8, <1>9, <1>10 DEF w

LEMMA AppendIs ==
  ASSUME NEW S, NEW q \in Seq(S), NEW e \in S
  PROVE  /\ Append(q, e) \in Seq(S)
         /\ Len(Append(q, e)) = Len(q) + 1
         /\ ToSet(Append(q, e)) = ToSet(q) \cup {e}
         /\ IsInjective(q) /\ e \notin ToSet(q) => IsInjective(Append(q, e))
<1> DEFINE r == Append(q, e)
<1>1. /\ r \in Seq(S) /\ Len(r) = Len(q) + 1 /\ Len(q) \in Nat
      /\ \A i \in 1..Len(q) : r[i] = q[i]
      /\ r[Len(q) + 1] = e
      /\ DOMAIN r = 1..(Len(q) + 1) /\ DOMAIN q = 1..Len(q)
  OBVIOUS
<1> HIDE DEF r
<1>2. \A i \in 1..(Len(q) + 1) : i \in 1..Len(q) \/ i = Len(q) + 1
  BY <1>1
<1>3. IsInjective(q) /\ e \notin ToSet(q) => IsInjective(r)
  BY <1>1, <1>2 DEF IsInjective, ToSet
<1>4. ToSet(r) \subseteq ToSet(q) \cup {e}
  BY <1>1, <1>2 DEF ToSet
<1>5. ToSet(q) \cup {e} \subseteq ToSet(r)
  BY <1>1 DEF ToSet
<1> QED BY <1>1, <1>3, <1>4, <1>5 DEF r

LEMMA ReverseIs ==
  ASSUME NEW S, NEW q \in Seq(S)
  PROVE  /\ Reverse(q) \in Seq(S)
         /\ ToSet(Reverse(q)) = ToSet(q)
         /\ IsInjective(q) => IsInjective(Reverse(q))
<1> DEFINE r == Reverse(q)  n == Len(q)
<1>1. /\ n \in Nat /\ DOMAIN q = 1..n /\ \A i \in 1..n : q[i] \in S
      /\ \A i \in 1..n : (n - i) + 1 \in 1..n
  OBVIOUS
<1>2. DOMAIN r = 1..n /\ \A i \in 1..n : r[i] = q[(n - i) + 1]
  BY DEF Reverse
<1>3. r \in Seq(S)
  <2>1. r \in [1..n -> S]
    BY <1>1 DEF Reverse
  <2> HIDE DEF r
  <2> QED BY <1>1, <2>1
<1> HIDE DEF r
<1>4. \A i \in 1..n : r[(n - i) + 1] = q[i]
  <2> SUFFICES ASSUME NEW i \in 1..n PROVE r[(n - i) + 1] = q[i]
    OBVIOUS
  <2>1. (n - ((n - i) + 1)) + 1 = i
    BY <1>1
  <2> QED BY <1>1, <1>2, <2>1
<1>5. ToSet(r) \subseteq ToSet(q) /\ ToSet(q) \subseteq ToSet(r)
  BY <1>1, <1>2, <1>4 DEF ToSet
<1>6. IsInjective(q) => IsInjective(r)
  BY <1>1, <1>2 DEF IsInjective
<1> QED BY <1>3, <1>5, <1>6 DEF r

LEMMA ConcatIs ==
  ASSUME NEW S, NEW a \in Seq(S), NEW b \in Seq(S)
  PROVE  /\ a \o b \in Seq(S)
         /\ ToSet(a \o b) = ToSet(a) \cup ToSet(b)
         /\ IsInjective(a \o b) <=>
               IsInjective(a) /\ IsInjective(b) /\ ToSet(a) \cap ToSet(b) = {}
<1> DEFINE r == a \o b
<1>1. /\ Len(a) \in Nat /\ Len(b) \in Nat
      /\ DOMAIN a = 1..Len(a) /\ DOMAIN b = 1..Len(b)
  OBVIOUS
<1>2. /\ r \in Seq(S) /\ Len(r) = Len(a) + Len(b)
      /\ \A i \in 1..(Len(a) + Len(b)) : r[i] = IF i <= Len(a) THEN a[i] ELSE b[i - Len(a)]
  BY ConcatProperties, Zenon
<1> HIDE DEF r
<1>3. DOMAIN r = 1..(Len(a) + Len(b))
  BY <1>2
<1>4. /\ \A i \in 1..Len(a) : i \in DOMAIN r /\ r[i] = a[i]
      /\ \A i \in 1..Len(b) : i + Len(a) \in DOMAIN r /\ r[i + Len(a)] = b[i]
  <2>1. \A i \in 1..Len(a) : i \in DOMAIN r /\ r[i] = a[i]
    BY <1>1, <1>2, <1>3
  <2>2. \A i \in 1..Len(b) :
          /\ i + Len(a) \in 1..(Len(a) + Len(b)) /\ ~ (i + Len(a) <= Len(a))
          /\ (i + Len(a)) - Len(a) = i
    BY <1>1
  <2> QED BY <1>1, <1>2, <1>3, <2>1, <2>2
<1>5. \A i \in DOMAIN r : \/ i \in 1..Len(a) /\ r[i] = a[i]
                          \/ i - Len(a) \in 1..Len(b) /\ r[i] = b[i - Len(a)]
  BY <1>1, <1>2, <1>3
<1>6. ToSet(r) = ToSet(a) \cup ToSet(b)
  BY <1>1, <1>4, <1>5 DEF ToSet
<1>7. ASSUME IsInjective(r)
      PROVE  IsInjective(a) /\ IsInjective(b) /\ ToSet(a) \cap ToSet(b) = {}
  <2>1. IsInjective(a)
    BY <1>1, <1>4, <1>7 DEF IsInjective
  <2>2. IsInjective(b)
    <3> SUFFICES ASSUME NEW i \in 1..Len(b), NEW j \in 1..Len(b), b[i] = b[j] PROVE i = j
      BY <1>1 DEF IsInjective
    <3>1. i + Len(a) = j + Len(a)
      BY <1>4, <1>7 DEF IsInjective
    <3> QED BY <1>1, <3>1
  <2>3. \A i \in 1..Len(a), j \in 1..Len(b) : a[i] # b[j]
    <3> SUFFICES ASSUME NEW i \in 1..Len(a), NEW j \in 1..Len(b), a[i] = b[j] PROVE FALSE
      OBVIOUS
    <3>1. i = j + Len(a)
      BY <1>4, <1>7 DEF IsInjective
    <3> QED BY <1>1, <3>1
  <2> QED BY <1>1, <2>1, <2>2, <2>3 DEF ToSet
<1>8. ASSUME IsInjective(a), IsInjective(b), ToSet(a) \cap ToSet(b) = {}
      PROVE  IsInjective(r)
  <2> SUFFICES ASSUME NEW i \in DOMAIN r, NEW j \in DOMAIN r, r[i] = r[j] PROVE i = j
    BY DEF IsInjective
  <2>1. \A k \in 1..Len(a), m \in 1..Len(b) : a[k] # b[m]
    BY <1>1, <1>8 DEF ToSet
  <2>2. i \in Int /\ j \in Int
    BY <1>3
  <2>3. CASE i \in 1..Len(a) /\ r[i] = a[i] /\ j \in 1..Len(a) /\ r[j] = a[j]
    BY <1>1, <1>8, <2>3 DEF IsInjective
  <2>4. CASE i - Len(a) \in 1..Len(b) /\ r[i] = b[i - Len(a)] /\ j - Len(a) \in 1..Len(b) /\ r[j] = b[j - Len(a)]
    <3>1. i - Len(a) = j - Len(a)
      BY <1>1, <1>8, <2>4 DEF IsInjective
    <3> QED BY <1>1, <2>2, <3>1
  <2> QED BY <1>5, <2>1, <2>3, <2>4
<1> QED BY <1>2, <1>6, <1>7, <1>8 DEF r

LEMMA RemoveAtIs ==
  ASSUME NEW S, NEW q \in Seq(S), NEW i \in 1..Len(q)
  PROVE  /\ RemoveAt(q, i) \in Seq(S)
         /\ Len(RemoveAt(q, i)) = Len(q) - 1
         /\ \A j \in 1..(Len(q) - 1) : RemoveAt(q, i)[j] = IF j < i THEN q[j] ELSE q[j + 1]
<1> DEFINE a == SubSeq(q, 1, i - 1)
           b == SubSeq(q, i + 1, Len(q))
<1>1. Len(q) \in Nat /\ \A j \in 1..Len(q) : q[j] \in S
  OBVIOUS
<1>2. a \in Seq(S) /\ Len(a) = i - 1 /\ \A j \in 1..(i - 1) : a[j] = q[j]
  <2>1. \A j \in 1..(i - 1) : q[j] \in S
    BY <1>1
  <2> QED BY <1>1, <2>1, SubSeqProperties
<1>3. b \in Seq(S) /\ Len(b) = Len(q) - i /\ \A j \in 1..(Len(q) - i) : b[j] = q[i + j]
  <2>1. \A j \in (i + 1)..Len(q) : q[j] \in S
    BY <1>1
  <2>2. /\ b \in Seq(S)
        /\ Len(b) = IF i + 1 <= Len(q) THEN Len(q) - (i + 1) + 1 ELSE 0
        /\ \A j \in 1..(Len(q) - (i + 1) + 1) : b[j] = q[(i + 1) + j - 1]
    BY <1>1, <2>1, SubSeqProperties
  <2> QED BY <1>1, <2>2
<1> HIDE DEF a, b
<1>4. /\ a \o b \in Seq(S) /\ Len(a \o b) = Len(a) + Len(b)
      /\ \A j \in 1..(Len(a) + Len(b)) : (a \o b)[j] = IF j <= Len(a) THEN a[j] ELSE b[j - Len(a)]
  BY <1>2, <1>3, ConcatProperties, Zenon
<1>5. RemoveAt(q, i) = a \o b
  BY DEF RemoveAt, a, b
<1>6. \A j \in 1..(Len(q) - 1) : (a \o b)[j] = IF j < i THEN q[j] ELSE q[j + 1]
  <2> SUFFICES ASSUME NEW j \in 1..(Len(q) - 1)
               PROVE  (a \o b)[j] = IF j < i THEN q[j] ELSE q[j + 1]
    OBVIOUS
  <2>1. j \in 1..(Len(a) + Len(b))
    BY <1>1, <1>2, <1>3
  <2>2. CASE j < i
    <3>1. j <= Len(a) /\ j \in 1..(i - 1)
      BY <1>2, <2>2
    <3> QED BY <1>2, <1>4, <2>1, <2>2, <3>1
  <2>3. CASE ~ (j < i)
    <3>1. ~ (j <= Len(a)) /\ j - Len(a) \in 1..(Len(q) - i) /\ i + (j - Len(a)) = j + 1
      BY <1>1, <1>2, <2>3
    <3> QED BY <1>3, <1>4, <2>1, <2>3, <3>1
  <2> QED BY <2>2, <2>3
<1> QED BY <1>1, <1>2, <1>3, <1>4, <1>5, <1>6

LEMMA MinIn ==
  ASSUME NEW T, T \subseteq Nat, T # {}
  PROVE  Min(T) \in T /\ \A k \in T : Min(T) <= k
<1>1. \E m \in T : \A k \in T : m <= k
  BY LeastNumber
<1> QED BY <1>1 DEF Min

-----------------------------------------------------------------------------
(***************************************************************************)
(* What the helpers leave of the fields of the finder.                     *)
(***************************************************************************)
QueueKept(f, h) ==
  /\ h.data = f.data /\ h.new = f.new /\ h.current = f.current
  /\ h.compatible = f.compatible /\ h.proposals = f.proposals

PartiesKept(f, h) ==
  /\ h.party = f.party /\ h.made = f.made /\ h.lfg = f.lfg
  /\ h.invites = f.invites /\ h.invite = f.invite

WithStates(f, state, old) == [f EXCEPT !.state = state, !.old = old]
WithLists(f, new, current) == [f EXCEPT !.new = new, !.current = current]
WithData(f, data, compatible) == [f EXCEPT !.data = data, !.compatible = compatible]
WithCompatible(f, compatible) == [f EXCEPT !.compatible = compatible]
WithQueued(f, data, new) == [f EXCEPT !.data = data, !.new = new]
WithProposals(f, proposals) == [f EXCEPT !.proposals = proposals]
WithCheck(f, check) == [f EXCEPT !.check = check]

LEMMA PartialIs ==
  ASSUME NEW S, NEW T, NEW m
  PROVE  m \in Partial(S, T) <=> DOMAIN m \subseteq S /\ m \in [DOMAIN m -> T]
BY DEF Partial

LEMMA FieldsOf ==
  ASSUME NEW f \in Finders
  PROVE  /\ f.state \in [Entries -> States] /\ f.old \in [Entries -> Idle]
         /\ f.data \in Partial(Entries, Crowds)
         /\ f.new \in Seq(Entries) /\ f.current \in Seq(Entries)
         /\ f.compatible \in Partial(Sets, Verdicts)
         /\ f.proposals \in Seq(Proposals)
         /\ f.check \in Partial(Groups, Checks)
         /\ f.party \in [Groups -> Seq(Players)] /\ f.made \in Nat /\ f.lfg \subseteq Groups
         /\ f.invites \in Nat
         /\ f.invite \in [Players -> Players \cup Groups \cup {NoInvite}]
BY DEF Finders

LEMMA StatesWith ==
  ASSUME NEW f \in Finders, NEW state \in [Entries -> States], NEW old \in [Entries -> Idle]
  PROVE  LET h == WithStates(f, state, old)
         IN  /\ h \in Finders /\ h.state = state /\ h.old = old
             /\ QueueKept(f, h) /\ PartiesKept(f, h) /\ h.check = f.check
BY DEF WithStates, Finders, QueueKept, PartiesKept

LEMMA ListsWith ==
  ASSUME NEW f \in Finders, NEW new \in Seq(Entries), NEW current \in Seq(Entries)
  PROVE  LET h == WithLists(f, new, current)
         IN  /\ h \in Finders /\ h.state = f.state /\ h.old = f.old
             /\ h.data = f.data /\ h.new = new /\ h.current = current
             /\ h.compatible = f.compatible /\ h.proposals = f.proposals
             /\ PartiesKept(f, h) /\ h.check = f.check
BY DEF WithLists, Finders, PartiesKept

LEMMA DataWith ==
  ASSUME NEW f \in Finders, NEW data \in Partial(Entries, Crowds),
         NEW compatible \in Partial(Sets, Verdicts)
  PROVE  LET h == WithData(f, data, compatible)
         IN  /\ h \in Finders /\ h.state = f.state /\ h.old = f.old
             /\ h.data = data /\ h.new = f.new /\ h.current = f.current
             /\ h.compatible = compatible /\ h.proposals = f.proposals
             /\ PartiesKept(f, h) /\ h.check = f.check
BY DEF WithData, Finders, PartiesKept

LEMMA CompatibleWith ==
  ASSUME NEW f \in Finders, NEW compatible \in Partial(Sets, Verdicts)
  PROVE  LET h == WithCompatible(f, compatible)
         IN  /\ h \in Finders /\ h.state = f.state /\ h.old = f.old
             /\ h.data = f.data /\ h.new = f.new /\ h.current = f.current
             /\ h.compatible = compatible /\ h.proposals = f.proposals
             /\ PartiesKept(f, h) /\ h.check = f.check
BY DEF WithCompatible, Finders, PartiesKept

LEMMA QueuedWith ==
  ASSUME NEW f \in Finders, NEW data \in Partial(Entries, Crowds),
         NEW new \in Seq(Entries)
  PROVE  LET h == WithQueued(f, data, new)
         IN  /\ h \in Finders /\ h.state = f.state /\ h.old = f.old
             /\ h.data = data /\ h.new = new /\ h.current = f.current
             /\ h.compatible = f.compatible /\ h.proposals = f.proposals
             /\ PartiesKept(f, h) /\ h.check = f.check
BY DEF WithQueued, Finders, PartiesKept

LEMMA ProposalsWith ==
  ASSUME NEW f \in Finders, NEW proposals \in Seq(Proposals)
  PROVE  LET h == WithProposals(f, proposals)
         IN  /\ h \in Finders /\ h.state = f.state /\ h.old = f.old
             /\ h.data = f.data /\ h.new = f.new /\ h.current = f.current
             /\ h.compatible = f.compatible /\ h.proposals = proposals
             /\ PartiesKept(f, h) /\ h.check = f.check
BY DEF WithProposals, Finders, PartiesKept

LEMMA CheckWith ==
  ASSUME NEW f \in Finders,
         NEW check \in Partial(Groups, Checks)
  PROVE  LET h == WithCheck(f, check)
         IN  /\ h \in Finders /\ h.state = f.state /\ h.old = f.old
             /\ QueueKept(f, h) /\ PartiesKept(f, h) /\ h.check = check
BY DEF WithCheck, Finders, QueueKept, PartiesKept

LEMMA PutIs ==
  ASSUME NEW S, NEW T, NEW m \in Partial(S, T), NEW k \in S, NEW v \in T
  PROVE  Put(m, k, v) \in Partial(S, T)
<1>1. DOMAIN m \subseteq S /\ m \in [DOMAIN m -> T]
  BY PartialIs
<1>2. DOMAIN Put(m, k, v) = DOMAIN m \cup {k} /\ Put(m, k, v) \in [DOMAIN m \cup {k} -> T]
  BY <1>1 DEF Put
<1> QED BY <1>1, <1>2, PartialIs

LEMMA RestrictIs ==
  ASSUME NEW S, NEW T, NEW m \in Partial(S, T), NEW D \in SUBSET DOMAIN m
  PROVE  /\ Restrict(m, D) \in Partial(S, T)
         /\ DOMAIN Restrict(m, D) = D
         /\ \A x \in D : Restrict(m, D)[x] = m[x]
<1>1. DOMAIN m \subseteq S /\ m \in [DOMAIN m -> T]
  BY PartialIs
<1>2. DOMAIN Restrict(m, D) = D /\ Restrict(m, D) \in [D -> T]
  BY <1>1 DEF Restrict
<1>3. Restrict(m, D) \in Partial(S, T)
  BY <1>1, <1>2, PartialIs
<1> QED BY <1>2, <1>3 DEF Restrict

-----------------------------------------------------------------------------
(***************************************************************************)
(* The states of players and groups.                                       *)
(***************************************************************************)
LEMMA SetStateIs ==
  ASSUME NEW f \in Finders, NEW entries, NEW new \in States
  PROVE  LET h == SetState(f, entries, new)
         IN  /\ h \in Finders
             /\ \A e \in Entries : h.state[e] = IF e \in entries THEN new ELSE f.state[e]
             /\ \A e \in Entries : h.old[e] = IF e \in entries /\ new \in Idle THEN new ELSE f.old[e]
             /\ QueueKept(f, h) /\ PartiesKept(f, h) /\ h.check = f.check
<1> DEFINE state == [e \in Entries |-> IF e \in entries THEN new ELSE f.state[e]]
           old == [e \in Entries |-> IF e \in entries /\ new \in Idle THEN new ELSE f.old[e]]
<1>1. f.state \in [Entries -> States] /\ f.old \in [Entries -> Idle]
  BY FieldsOf
<1>2. state \in [Entries -> States] /\ old \in [Entries -> Idle]
  BY <1>1
<1>3. SetState(f, entries, new) = WithStates(f, state, old)
  BY DEF SetState, Idle, WithStates
<1>4. /\ \A e \in Entries : state[e] = IF e \in entries THEN new ELSE f.state[e]
      /\ \A e \in Entries : old[e] = IF e \in entries /\ new \in Idle THEN new ELSE f.old[e]
  OBVIOUS
<1> HIDE DEF state, old
<1> QED BY <1>2, <1>3, <1>4, StatesWith

LEMMA RestoreStateIs ==
  ASSUME NEW f \in Finders, NEW entries
  PROVE  LET h == RestoreState(f, entries)
         IN  /\ h \in Finders
             /\ \A e \in Entries : h.state[e] = IF e \in entries THEN f.old[e] ELSE f.state[e]
             /\ h.old = f.old
             /\ QueueKept(f, h) /\ PartiesKept(f, h) /\ h.check = f.check
<1> DEFINE state == [e \in Entries |-> IF e \in entries THEN f.old[e] ELSE f.state[e]]
<1>1. f.state \in [Entries -> States] /\ f.old \in [Entries -> Idle]
  BY FieldsOf
<1>2. state \in [Entries -> States] /\ \A s \in Idle : s \in States
  BY <1>1 DEF Idle, States
<1>3. RestoreState(f, entries) = WithStates(f, state, f.old)
  BY DEF RestoreState, WithStates, Finders
<1>4. \A e \in Entries : state[e] = IF e \in entries THEN f.old[e] ELSE f.state[e]
  OBVIOUS
<1> HIDE DEF state
<1> QED BY <1>1, <1>2, <1>3, <1>4, StatesWith

-----------------------------------------------------------------------------
(***************************************************************************)
(* The queue's lists and maps.                                             *)
(***************************************************************************)
LEMMA UnlistedIs ==
  ASSUME NEW f \in Finders, NEW entries
  PROVE  LET h == Unlisted(f, entries)
         IN  /\ h \in Finders /\ h.state = f.state /\ h.old = f.old
             /\ h.data = f.data /\ h.compatible = f.compatible /\ h.proposals = f.proposals
             /\ h.new = Without(f.new, entries) /\ h.current = Without(f.current, entries)
             /\ PartiesKept(f, h) /\ h.check = f.check
<1>1. f.new \in Seq(Entries) /\ f.current \in Seq(Entries)
  BY FieldsOf
<1>2. Without(f.new, entries) \in Seq(Entries) /\ Without(f.current, entries) \in Seq(Entries)
  BY <1>1, WithoutIs
<1>3. Unlisted(f, entries) =
        WithLists(f, Without(f.new, entries), Without(f.current, entries))
  BY DEF Unlisted, WithLists
<1> QED BY <1>2, <1>3, ListsWith

LEMMA RemoveFromQueueIs ==
  ASSUME NEW f \in Finders, NEW entries
  PROVE  LET h == RemoveFromQueue(f, entries)
         IN  /\ h \in Finders /\ h.state = f.state /\ h.old = f.old
             /\ DOMAIN h.data = DOMAIN f.data \ entries
             /\ \A e \in DOMAIN h.data : h.data[e] = f.data[e]
             /\ DOMAIN h.compatible = {set \in DOMAIN f.compatible : set \cap entries = {}}
             /\ h.proposals = f.proposals
             /\ h.new = Without(f.new, entries) /\ h.current = Without(f.current, entries)
             /\ PartiesKept(f, h) /\ h.check = f.check
<1> DEFINE u == Unlisted(f, entries)
           D == DOMAIN f.data \ entries
           C == {set \in DOMAIN f.compatible : set \cap entries = {}}
           data == Restrict(u.data, D)
           compatible == Restrict(u.compatible, C)
<1>1. /\ u \in Finders /\ u.state = f.state /\ u.old = f.old
      /\ u.data = f.data /\ u.compatible = f.compatible /\ u.proposals = f.proposals
      /\ u.new = Without(f.new, entries) /\ u.current = Without(f.current, entries)
      /\ PartiesKept(f, u) /\ u.check = f.check
  BY UnlistedIs
<1>2. RemoveFromQueue(f, entries) = WithData(u, data, compatible)
  BY <1>1 DEF RemoveFromQueue, WithData
<1>3. f.data \in Partial(Entries, Crowds) /\ f.compatible \in Partial(Sets, Verdicts)
  BY FieldsOf
<1>4. D \in SUBSET DOMAIN u.data /\ C \in SUBSET DOMAIN u.compatible
  BY <1>1
<1> HIDE DEF u, C
<1>5. /\ data \in Partial(Entries, Crowds) /\ DOMAIN data = D
      /\ \A x \in D : data[x] = f.data[x]
  <2> HIDE DEF D
  <2> QED BY <1>1, <1>3, <1>4, RestrictIs
<1>6. compatible \in Partial(Sets, Verdicts) /\ DOMAIN compatible = C
  BY <1>1, <1>3, <1>4, RestrictIs
<1> HIDE DEF data, compatible, D
<1>7. LET h == WithData(u, data, compatible)
      IN  /\ h \in Finders /\ h.state = u.state /\ h.old = u.old
          /\ h.data = data /\ h.new = u.new /\ h.current = u.current
          /\ h.compatible = compatible /\ h.proposals = u.proposals
          /\ PartiesKept(u, h) /\ h.check = u.check
  BY <1>1, <1>5, <1>6, DataWith
<1> QED BY <1>1, <1>2, <1>5, <1>6, <1>7 DEF PartiesKept, C, D

LEMMA AddQueueDataIs ==
  ASSUME NEW f \in Finders, NEW e \in Entries, NEW players \in Crowds
  PROVE  LET h == AddQueueData(f, e, players)
         IN  /\ h \in Finders /\ h.state = f.state /\ h.old = f.old
             /\ DOMAIN h.data = DOMAIN f.data \cup {e} /\ h.data[e] = players
             /\ \A d \in DOMAIN f.data : d # e => h.data[d] = f.data[d]
             /\ h.compatible = f.compatible /\ h.proposals = f.proposals
             /\ h.new = Append(f.new, e) /\ h.current = f.current
             /\ PartiesKept(f, h) /\ h.check = f.check
<1> DEFINE data == Put(f.data, e, players)
           new == Append(f.new, e)
<1>1. f.data \in Partial(Entries, Crowds) /\ f.new \in Seq(Entries)
  BY FieldsOf
<1>2. new \in Seq(Entries)
  BY <1>1, AppendIs
<1>3. /\ data \in Partial(Entries, Crowds)
      /\ DOMAIN data = DOMAIN f.data \cup {e} /\ data[e] = players
      /\ \A d \in DOMAIN f.data : d # e => data[d] = f.data[d]
  <2>1. data \in Partial(Entries, Crowds)
    BY <1>1, PutIs
  <2>2. /\ DOMAIN data = DOMAIN f.data \cup {e} /\ data[e] = players
        /\ \A d \in DOMAIN f.data : d # e => data[d] = f.data[d]
    BY DEF Put
  <2> HIDE DEF data
  <2> QED BY <2>1, <2>2
<1>4. AddQueueData(f, e, players) = WithQueued(f, data, new)
  BY DEF AddQueueData, WithQueued
<1>5. new = Append(f.new, e)
  OBVIOUS
<1> HIDE DEF data, new
<1>6. LET h == AddQueueData(f, e, players)
      IN  /\ h \in Finders /\ h.state = f.state /\ h.old = f.old /\ h.data = data
          /\ h.compatible = f.compatible /\ h.proposals = f.proposals
          /\ h.new = new /\ h.current = f.current
          /\ PartiesKept(f, h) /\ h.check = f.check
  BY <1>2, <1>3, <1>4, QueuedWith
<1> QED BY <1>3, <1>5, <1>6

LEMMA ReAddToQueueIs ==
  ASSUME NEW f \in Finders, NEW queue \in Seq(Entries)
  PROVE  LET h == ReAddToQueue(f, queue)
         IN  /\ h \in Finders /\ h.state = f.state /\ h.old = f.old
             /\ h.data = f.data /\ h.compatible = f.compatible /\ h.proposals = f.proposals
             /\ h.new = f.new
             /\ h.current = Reverse(Without(queue, Entries \ DOMAIN f.data)) \o f.current
             /\ PartiesKept(f, h) /\ h.check = f.check
<1> DEFINE back == Reverse(Without(queue, Entries \ DOMAIN f.data))
<1>1. f.new \in Seq(Entries) /\ f.current \in Seq(Entries)
  BY FieldsOf
<1>2. back \in Seq(Entries)
  BY WithoutIs, ReverseIs
<1>3. back \o f.current \in Seq(Entries)
  <2> HIDE DEF back
  <2> QED BY <1>1, <1>2, ConcatIs
<1>4. PICK current \in Seq(Entries) : current = back \o f.current
  BY <1>3
<1>5. PICK new \in Seq(Entries) : new = f.new
  BY <1>1
<1>6. ReAddToQueue(f, queue) = WithLists(f, new, current)
  BY <1>4, <1>5 DEF ReAddToQueue, WithLists, Finders
<1> HIDE DEF back
<1>7. LET h == WithLists(f, new, current)
      IN  /\ h \in Finders /\ h.state = f.state /\ h.old = f.old
          /\ h.data = f.data /\ h.new = new /\ h.current = current
          /\ h.compatible = f.compatible /\ h.proposals = f.proposals
          /\ PartiesKept(f, h) /\ h.check = f.check
  BY ListsWith
<1> QED BY <1>4, <1>5, <1>6, <1>7 DEF back

LEMMA SetCompatiblesIs ==
  ASSUME NEW f \in Finders, NEW check \in Seq(Entries), NEW result \in Verdicts
  PROVE  LET h == SetCompatibles(f, check, result)
         IN  /\ h \in Finders /\ h.state = f.state /\ h.old = f.old
             /\ h.data = f.data /\ h.new = f.new /\ h.current = f.current
             /\ DOMAIN h.compatible = DOMAIN f.compatible \cup {ToSet(check)}
             /\ h.proposals = f.proposals
             /\ PartiesKept(f, h) /\ h.check = f.check
<1> DEFINE c == Put(f.compatible, ToSet(check), result)
<1>1. f.compatible \in Partial(Sets, Verdicts)
  BY FieldsOf
<1>2. ToSet(check) \in Sets
  BY DEF ToSet, Sets
<1>3. c \in Partial(Sets, Verdicts) /\ DOMAIN c = DOMAIN f.compatible \cup {ToSet(check)}
  <2>1. c \in Partial(Sets, Verdicts)
    BY <1>1, <1>2, PutIs
  <2>2. DOMAIN c = DOMAIN f.compatible \cup {ToSet(check)}
    BY DEF Put
  <2> QED BY <2>1, <2>2
<1>4. SetCompatibles(f, check, result) = WithCompatible(f, c)
  BY DEF SetCompatibles, WithCompatible
<1> HIDE DEF c
<1> QED BY <1>3, <1>4, CompatibleWith

-----------------------------------------------------------------------------
(***************************************************************************)
(* Parties and entries.                                                    *)
(***************************************************************************)
LEMMA Kinds ==
  /\ Players \subseteq Entries /\ Groups \subseteq Entries /\ NoGroup \notin Groups
  /\ \A e \in Entries : e \in Players <=> e \notin Groups
BY QueueAssumption DEF Entries

LEMMA GroupOfIs ==
  ASSUME NEW f \in Finders, PartiesApart(f), NEW p \in Players
  PROVE  /\ GroupOf(f, p) = NoGroup <=> IsEntry(f, p)
         /\ GroupOf(f, p) # NoGroup =>
               GroupOf(f, p) \in Groups /\ p \in ToSet(f.party[GroupOf(f, p)])
         /\ \A g \in Groups : p \in ToSet(f.party[g]) => GroupOf(f, p) = g
<1>1. p \notin Groups /\ NoGroup \notin Groups
  BY Kinds
<1>2. CASE \E g \in Groups : p \in ToSet(f.party[g])
  <2>1. GroupOf(f, p) \in Groups /\ p \in ToSet(f.party[GroupOf(f, p)])
    BY <1>2 DEF GroupOf
  <2>2. \A g \in Groups : p \in ToSet(f.party[g]) => GroupOf(f, p) = g
    BY <2>1 DEF PartiesApart
  <2> QED BY <1>1, <1>2, <2>1, <2>2 DEF IsEntry
<1>3. CASE ~ \E g \in Groups : p \in ToSet(f.party[g])
  BY <1>1, <1>3 DEF GroupOf, IsEntry
<1> QED BY <1>2, <1>3

LEMMA PartyHas ==
  ASSUME NEW f \in Finders, NEW g \in Groups
  PROVE  /\ f.party[g] \in Seq(Players) /\ ToSet(f.party[g]) \subseteq Players
         /\ Len(f.party[g]) \in Nat
         /\ f.party[g] = <<>> <=> ToSet(f.party[g]) = {}
         /\ f.party[g] = <<>> <=> Len(f.party[g]) = 0
         /\ f.party[g] # <<>> => f.party[g][1] \in ToSet(f.party[g])
<1>1. f.party[g] \in Seq(Players)
  BY FieldsOf
<1> DEFINE q == f.party[g]
<1> HIDE DEF q
<1>2. q \in Seq(Players)
  BY <1>1 DEF q
<1>3. Len(q) \in Nat /\ DOMAIN q = 1..Len(q) /\ \A i \in 1..Len(q) : q[i] \in Players
  BY <1>2
<1>4. q = <<>> <=> Len(q) = 0
  BY <1>2
<1>5. q # <<>> => 1 \in DOMAIN q
  BY <1>3, <1>4
<1>6. ToSet(q) \subseteq Players
  BY <1>3 DEF ToSet
<1>7. q = <<>> => ToSet(q) = {}
  BY <1>3, <1>4 DEF ToSet
<1>8. q # <<>> => q[1] \in ToSet(q)
  BY <1>5 DEF ToSet
<1> QED BY <1>2, <1>3, <1>4, <1>6, <1>7, <1>8 DEF q

LEMMA FolkIs ==
  ASSUME NEW f \in Finders, NEW e \in Entries
  PROVE  /\ Folk(f, e) \subseteq Players
         /\ e \in Groups => Folk(f, e) = ToSet(f.party[e])
         /\ e \in Players => Folk(f, e) = {e}
         /\ IsEntry(f, e) => Folk(f, e) # {}
BY Kinds, PartyHas DEF Folk, IsEntry

\* Nobody is in two entries.
LEMMA FolkApart ==
  ASSUME NEW f \in Finders, PartiesApart(f), NEW d \in Entries, NEW e \in Entries,
         IsEntry(f, d), IsEntry(f, e), d # e
  PROVE  Folk(f, d) \cap Folk(f, e) = {} /\ d \notin Folk(f, e)
<1>1. /\ d \in Players <=> d \notin Groups
      /\ e \in Players <=> e \notin Groups
  BY Kinds
<1>2. CASE d \in Groups /\ e \in Groups
  <2>1. ToSet(f.party[e]) \subseteq Players
    BY <1>2, PartyHas
  <2> QED BY <1>1, <1>2, <2>1 DEF Folk, PartiesApart
<1>3. CASE d \in Groups /\ e \notin Groups
  BY <1>1, <1>3 DEF Folk, IsEntry
<1>4. CASE d \notin Groups /\ e \in Groups
  BY <1>1, <1>4 DEF Folk, IsEntry
<1>5. CASE d \notin Groups /\ e \notin Groups
  BY <1>1, <1>5 DEF Folk, IsEntry
<1> QED BY <1>2, <1>3, <1>4, <1>5

\* The members of an entry wait for what it waits for.
LEMMA FolkSynced ==
  ASSUME NEW f \in Finders, Synced(f), NEW e \in Entries, NEW p \in Folk(f, e)
  PROVE  f.state[p] = f.state[e] \/ (f.state[p] \in Idle /\ f.state[e] \in Idle)
BY DEF Folk, Synced

\* Everybody belongs to an entry.
LEMMA EntryOf ==
  ASSUME NEW f \in Finders, PartiesApart(f), NEW p \in Players
  PROVE  LET e == IF GroupOf(f, p) = NoGroup THEN p ELSE GroupOf(f, p)
         IN  /\ e \in Entries /\ IsEntry(f, e) /\ p \in Folk(f, e)
<1>1. CASE GroupOf(f, p) = NoGroup
  BY <1>1, GroupOfIs, Kinds DEF Folk
<1>2. CASE GroupOf(f, p) # NoGroup
  <2> DEFINE g == GroupOf(f, p)
  <2>1. g \in Groups /\ p \in ToSet(f.party[g])
    BY <1>2, GroupOfIs
  <2> HIDE DEF g
  <2>2. g \in Entries /\ IsEntry(f, g) /\ p \in Folk(f, g)
    BY <2>1, PartyHas, Kinds DEF IsEntry, Folk
  <2> QED BY <1>2, <2>2 DEF g
<1> QED BY <1>1, <1>2

-----------------------------------------------------------------------------
(***************************************************************************)
(* What keeps the invariant: some entries move, the parties stay; or the   *)
(* parties change, and what waits stays.                                   *)
(***************************************************************************)
Placed(f, e) ==
  /\ e \in DOMAIN f.check <=> f.state[e] = "ROLECHECK"
  /\ Listed(f, e) <=> f.state[e] = "QUEUED"
  /\ Proposed(f, e) <=> f.state[e] = "PROPOSAL"
  /\ e \in DOMAIN f.data <=> f.state[e] \in {"QUEUED", "PROPOSAL"}
  /\ e \in DOMAIN f.data => f.data[e] = Folk(f, e)
  /\ e \in Groups /\ e \in DOMAIN f.data => RolesFit(f.data[e])
  /\ e \in DOMAIN f.check => f.check[e].asked = Folk(f, e)
  /\ \A p \in Folk(f, e) :
       f.state[p] = f.state[e] \/ (f.state[p] \in Idle /\ f.state[e] \in Idle)

\* What waits as the entry e is the same.
Stays(f, h, e) ==
  /\ e \in DOMAIN h.check <=> e \in DOMAIN f.check
  /\ e \in DOMAIN f.check => h.check[e].asked = f.check[e].asked
  /\ Listed(h, e) <=> Listed(f, e)
  /\ Proposed(h, e) <=> Proposed(f, e)
  /\ e \in DOMAIN h.data <=> e \in DOMAIN f.data
  /\ e \in DOMAIN f.data => h.data[e] = f.data[e]

QueueOK(f) ==
  /\ ProposalsOK(f)
  /\ IsInjective(f.new \o f.current)
  /\ CacheOK(f)

LEMMA EntriesMove ==
  ASSUME NEW f, Core(f), NEW h \in Finders, h.party = f.party,
         NEW E \in SUBSET Entries, \A e \in E : IsEntry(f, e),
         \A x \in Entries : x \in E \/ (\E e \in E : x \in Folk(f, e)) \/ h.state[x] = f.state[x],
         \A x \in Entries \ E : Stays(f, h, x),
         \A e \in E : Placed(h, e),
         QueueOK(h)
  PROVE  Core(h)
<1> USE DEF Core
<1>1. \A e \in Entries : IsEntry(h, e) = IsEntry(f, e) /\ Folk(h, e) = Folk(f, e)
  BY DEF IsEntry, Folk
<1>2. \A e \in Entries \ E : \A d \in E : IsEntry(f, e) => e \notin Folk(f, d)
  BY FolkApart
<1>3. \A e \in Entries \ E : IsEntry(f, e) => h.state[e] = f.state[e]
  BY <1>2
<1>4. ASSUME NEW e \in Entries \ E, IsEntry(f, e), NEW p \in Folk(f, e)
      PROVE  h.state[p] = f.state[p]
  <2>1. \A d \in E : p \notin Folk(f, d)
    BY <1>4, FolkApart
  <2>2. p \notin E
    <3>1. CASE e \in Groups
      BY <1>4, <3>1, Kinds, FolkIs DEF IsEntry
    <3>2. CASE e \notin Groups
      BY <1>4, <3>2, Kinds, FolkIs
    <3> QED BY <3>1, <3>2
  <2>3. p \in Entries
    BY FolkIs, Kinds
  <2> QED BY <2>1, <2>2, <2>3
<1>5. PartiesApart(h)
  BY DEF PartiesApart
<1>6. Synced(h)
  <2>1. ASSUME NEW g \in Groups, NEW p \in ToSet(h.party[g])
        PROVE  h.state[p] = h.state[g] \/ (h.state[p] \in Idle /\ h.state[g] \in Idle)
    <3>1. g \in Entries /\ p \in Folk(f, g) /\ IsEntry(f, g)
      BY <2>1, Kinds, PartyHas DEF Folk, IsEntry
    <3>2. CASE g \in E
      BY <1>1, <3>1, <3>2 DEF Placed
    <3>3. CASE g \notin E
      <4>1. h.state[p] = f.state[p] /\ h.state[g] = f.state[g]
        BY <1>3, <1>4, <3>1, <3>3
      <4> QED BY <3>1, <4>1, FolkSynced
    <3> QED BY <3>2, <3>3
  <2>2. ASSUME NEW g \in Groups, h.party[g] = <<>> PROVE h.state[g] \in Idle
    <3>1. ~ IsEntry(f, g) /\ g \in Entries
      BY <2>2, Kinds DEF IsEntry
    <3>2. \A e \in E : g \notin Folk(f, e)
      BY Kinds, FolkIs
    <3>3. h.state[g] = f.state[g]
      BY <3>1, <3>2
    <3> QED BY <2>2, <3>3 DEF Synced
  <2> QED BY <2>1, <2>2 DEF Synced
<1>7. Where(h)
  <2> SUFFICES ASSUME NEW e \in Entries
               PROVE  /\ e \in DOMAIN h.check <=> IsEntry(h, e) /\ h.state[e] = "ROLECHECK"
                      /\ Listed(h, e) <=> IsEntry(h, e) /\ h.state[e] = "QUEUED"
                      /\ Proposed(h, e) <=> IsEntry(h, e) /\ h.state[e] = "PROPOSAL"
                      /\ e \in DOMAIN h.data <=> IsEntry(h, e) /\ h.state[e] \in {"QUEUED", "PROPOSAL"}
    BY DEF Where
  <2>1. CASE e \in E
    BY <1>1, <2>1 DEF Placed
  <2>2. CASE e \notin E
    BY <1>1, <1>3, <2>2 DEF Where, Stays
  <2> QED BY <2>1, <2>2
<1>8. Known(h)
  <2>1. ASSUME NEW e \in DOMAIN h.data PROVE h.data[e] = Folk(h, e)
    <3>1. e \in Entries
      BY FieldsOf, PartialIs
    <3>2. CASE e \in E
      BY <1>1, <3>2 DEF Placed
    <3>3. CASE e \notin E
      BY <1>1, <3>1, <3>3 DEF Known, Stays
    <3> QED BY <3>2, <3>3
  <2>2. ASSUME NEW g \in DOMAIN h.check PROVE h.check[g].asked = Folk(h, g)
    <3>1. g \in Entries
      BY FieldsOf, PartialIs, Kinds
    <3>2. CASE g \in E
      BY <1>1, <3>2 DEF Placed
    <3>3. CASE g \notin E
      BY <1>1, <3>1, <3>3 DEF Known, Stays
    <3> QED BY <3>2, <3>3
  <2>3. ASSUME NEW g \in Groups, g \in DOMAIN h.data PROVE RolesFit(h.data[g])
    <3>1. g \in Entries
      BY Kinds
    <3>2. CASE g \in E
      BY <1>1, <2>3, <3>2 DEF Placed
    <3>3. CASE g \notin E
      BY <1>1, <2>3, <3>1, <3>3 DEF Known, Stays
    <3> QED BY <3>2, <3>3
  <2> QED BY <2>1, <2>2, <2>3 DEF Known
<1> QED BY <1>5, <1>6, <1>7, <1>8 DEF QueueOK

\* Sound depends on the data of the queue only.
LEMMA SameProposals ==
  ASSUME NEW f, NEW h, ProposalsOK(f), h.proposals = f.proposals, h.data = f.data
  PROVE  ProposalsOK(h)
<1>1. \A proposal : Sound(h, proposal) <=> Sound(f, proposal)
  BY DEF Sound
<1> QED BY <1>1 DEF ProposalsOK

SameQueue(f, h) ==
  /\ h.data = f.data /\ h.new = f.new /\ h.current = f.current
  /\ DOMAIN h.compatible = DOMAIN f.compatible /\ h.proposals = f.proposals

LEMMA PartiesChange ==
  ASSUME NEW f, Core(f), NEW h \in Finders, SameQueue(f, h), h.check = f.check,
         PartiesApart(h), Synced(h),
         \A e \in Entries : \/ /\ IsEntry(h, e) = IsEntry(f, e) /\ Folk(h, e) = Folk(f, e)
                               /\ \/ h.state[e] = f.state[e]
                                  \/ h.state[e] \in Idle /\ f.state[e] \in Idle
                            \/ h.state[e] \in Idle /\ f.state[e] \in Idle
                            \/ ~ IsEntry(h, e) /\ ~ IsEntry(f, e)
  PROVE  Core(h)
<1> USE DEF Core
<1>1. "ROLECHECK" \notin Idle /\ "QUEUED" \notin Idle /\ "PROPOSAL" \notin Idle
  BY DEF Idle
<1>2. \A e \in Entries : /\ Listed(h, e) <=> Listed(f, e)
                         /\ Proposed(h, e) <=> Proposed(f, e)
  BY DEF Listed, Proposed, SameQueue
<1>3. \A e \in Entries : \A s \in {"ROLECHECK", "QUEUED", "PROPOSAL"} :
        IsEntry(h, e) /\ h.state[e] = s <=> IsEntry(f, e) /\ f.state[e] = s
  BY <1>1
<1>4. Where(h)
  <2> SUFFICES ASSUME NEW e \in Entries
               PROVE  /\ e \in DOMAIN h.check <=> IsEntry(h, e) /\ h.state[e] = "ROLECHECK"
                      /\ Listed(h, e) <=> IsEntry(h, e) /\ h.state[e] = "QUEUED"
                      /\ Proposed(h, e) <=> IsEntry(h, e) /\ h.state[e] = "PROPOSAL"
                      /\ e \in DOMAIN h.data <=> IsEntry(h, e) /\ h.state[e] \in {"QUEUED", "PROPOSAL"}
    BY DEF Where
  <2>1. /\ e \in DOMAIN f.check <=> IsEntry(f, e) /\ f.state[e] = "ROLECHECK"
        /\ Listed(f, e) <=> IsEntry(f, e) /\ f.state[e] = "QUEUED"
        /\ Proposed(f, e) <=> IsEntry(f, e) /\ f.state[e] = "PROPOSAL"
        /\ e \in DOMAIN f.data <=> IsEntry(f, e) /\ f.state[e] \in {"QUEUED", "PROPOSAL"}
    BY DEF Where
  <2>2. /\ IsEntry(h, e) /\ h.state[e] = "ROLECHECK" <=> IsEntry(f, e) /\ f.state[e] = "ROLECHECK"
        /\ IsEntry(h, e) /\ h.state[e] = "QUEUED" <=> IsEntry(f, e) /\ f.state[e] = "QUEUED"
        /\ IsEntry(h, e) /\ h.state[e] = "PROPOSAL" <=> IsEntry(f, e) /\ f.state[e] = "PROPOSAL"
    BY <1>3
  <2> QED BY <1>2, <2>1, <2>2 DEF SameQueue
<1>5. Known(h)
  <2>1. ASSUME NEW e \in Entries, e \in DOMAIN f.data \/ e \in DOMAIN f.check
        PROVE  Folk(h, e) = Folk(f, e)
    <3>1. IsEntry(f, e) /\ f.state[e] \in {"ROLECHECK", "QUEUED", "PROPOSAL"}
      BY <2>1 DEF Where
    <3> QED BY <1>1, <3>1
  <2>2. DOMAIN f.data \subseteq Entries /\ DOMAIN f.check \subseteq Entries
    BY FieldsOf, PartialIs, Kinds
  <2> QED BY <2>1, <2>2 DEF Known, SameQueue
<1>6. ProposalsOK(h) /\ IsInjective(h.new \o h.current) /\ CacheOK(h)
  BY SameProposals DEF SameQueue, CacheOK
<1> QED BY <1>4, <1>5, <1>6

-----------------------------------------------------------------------------
(***************************************************************************)
(* Entries leave the queue, role checks end.                               *)
(***************************************************************************)
LEMMA CoreIs ==
  ASSUME NEW f, Core(f)
  PROVE  f \in Finders /\ PartiesApart(f) /\ Synced(f) /\ Where(f) /\ Known(f) /\ QueueOK(f)
BY DEF Core, QueueOK

LEMMA ListsWithout ==
  ASSUME NEW f \in Finders, IsInjective(f.new \o f.current), NEW entries, NEW h,
         h.new = Without(f.new, entries), h.current = Without(f.current, entries)
  PROVE  /\ IsInjective(h.new \o h.current)
         /\ h.new \in Seq(Entries) /\ h.current \in Seq(Entries)
         /\ ToSet(h.new) = ToSet(f.new) \ entries /\ ToSet(h.current) = ToSet(f.current) \ entries
         /\ \A e : Listed(h, e) <=> Listed(f, e) /\ e \notin entries
<1> DEFINE n == f.new  c == f.current  wn == Without(f.new, entries)  wc == Without(f.current, entries)
<1>1. n \in Seq(Entries) /\ c \in Seq(Entries) /\ IsInjective(n \o c)
  BY FieldsOf
<1>2. /\ wn \in Seq(Entries) /\ ToSet(wn) = ToSet(n) \ entries
      /\ IsInjective(n) => IsInjective(wn)
  BY <1>1, WithoutIs
<1>3. /\ wc \in Seq(Entries) /\ ToSet(wc) = ToSet(c) \ entries
      /\ IsInjective(c) => IsInjective(wc)
  BY <1>1, WithoutIs
<1>4. h.new = wn /\ h.current = wc
  OBVIOUS
<1>5. \A e : Listed(f, e) <=> e \in ToSet(n) \cup ToSet(c)
  BY DEF Listed
<1>6. \A e : Listed(h, e) <=> e \in ToSet(wn) \cup ToSet(wc)
  BY <1>4 DEF Listed
<1>7. ToSet(n) = ToSet(f.new) /\ ToSet(c) = ToSet(f.current)
  OBVIOUS
<1> HIDE DEF n, c, wn, wc
<1>8. IsInjective(n) /\ IsInjective(c) /\ ToSet(n) \cap ToSet(c) = {}
  BY <1>1, ConcatIs
<1>9. IsInjective(wn \o wc)
  BY <1>2, <1>3, <1>8, ConcatIs
<1>10. IsInjective(h.new \o h.current)
  BY <1>4, <1>9
<1> QED BY <1>2, <1>3, <1>4, <1>5, <1>6, <1>7, <1>10

LEMMA CacheWithout ==
  ASSUME NEW f, CacheOK(f), NEW entries, NEW h,
         DOMAIN h.data = DOMAIN f.data \ entries,
         DOMAIN h.compatible = {set \in DOMAIN f.compatible : set \cap entries = {}},
         ToSet(h.new) = ToSet(f.new) \ entries
  PROVE  CacheOK(h)
<1> SUFFICES ASSUME NEW set \in DOMAIN h.compatible
             PROVE  set \subseteq DOMAIN h.data /\ set \cap ToSet(h.new) = {}
  BY DEF CacheOK
<1>1. set \in DOMAIN f.compatible /\ set \cap entries = {}
  OBVIOUS
<1>2. set \subseteq DOMAIN f.data /\ set \cap ToSet(f.new) = {}
  BY <1>1 DEF CacheOK
<1> QED BY <1>1, <1>2

LEMMA ProposedIs ==
  ASSUME NEW f, Core(f), NEW e, Proposed(f, e)
  PROVE  e \in Entries /\ IsEntry(f, e) /\ f.state[e] = "PROPOSAL" /\ e \in DOMAIN f.data
<1>1. PICK i \in 1..Len(f.proposals) : e \in ToSet(f.proposals[i].queues)
  BY DEF Proposed
<1>2. f.proposals \in Seq(Proposals)
  BY FieldsOf DEF Core
<1>3. f.proposals[i] \in Proposals
  BY <1>2
<1>4. f.proposals[i].queues \in Seq(Entries)
  BY <1>3 DEF Proposals
<1>5. e \in Entries
  BY <1>1, <1>4 DEF ToSet
<1> QED BY <1>5 DEF Core, Where

\* The proposals do not depend on entries that are in none of them.
LEMMA ProposalsWithout ==
  ASSUME NEW f, ProposalsOK(f), NEW h, h.proposals = f.proposals,
         \A e : Proposed(f, e) => h.data[e] = f.data[e]
  PROVE  ProposalsOK(h)
<1>1. ASSUME NEW i \in 1..Len(f.proposals) PROVE Sound(h, f.proposals[i])
  <2>1. \A e \in ToSet(f.proposals[i].queues) : h.data[e] = f.data[e]
    BY DEF Proposed
  <2>2. Sound(f, f.proposals[i])
    BY DEF ProposalsOK
  <2>3. UNION {h.data[e] : e \in ToSet(f.proposals[i].queues)} =
          UNION {f.data[e] : e \in ToSet(f.proposals[i].queues)}
    BY <2>1
  <2> QED BY <2>1, <2>2, <2>3 DEF Sound
<1> QED BY <1>1 DEF ProposalsOK

LEMMA RemoveFromQueueKeeps ==
  ASSUME NEW f \in Finders, QueueOK(f), NEW entries, NEW h, h = RemoveFromQueue(f, entries),
         \A e : Proposed(f, e) => e \in DOMAIN f.data /\ e \notin entries
  PROVE  /\ QueueOK(h)
         /\ \A e : Listed(h, e) <=> Listed(f, e) /\ e \notin entries
         /\ \A e : Proposed(h, e) <=> Proposed(f, e)
<1>1. /\ h \in Finders
      /\ DOMAIN h.data = DOMAIN f.data \ entries
      /\ \A e \in DOMAIN h.data : h.data[e] = f.data[e]
      /\ DOMAIN h.compatible = {set \in DOMAIN f.compatible : set \cap entries = {}}
      /\ h.proposals = f.proposals
      /\ h.new = Without(f.new, entries) /\ h.current = Without(f.current, entries)
  BY RemoveFromQueueIs
<1>2. /\ IsInjective(h.new \o h.current)
      /\ ToSet(h.new) = ToSet(f.new) \ entries
      /\ \A e : Listed(h, e) <=> Listed(f, e) /\ e \notin entries
  BY <1>1, ListsWithout DEF QueueOK
<1>3. CacheOK(h)
  BY <1>1, <1>2, CacheWithout DEF QueueOK
<1>4. \A e : Proposed(f, e) => h.data[e] = f.data[e]
  <2> SUFFICES ASSUME NEW e, Proposed(f, e) PROVE h.data[e] = f.data[e]
    OBVIOUS
  <2>1. e \in DOMAIN h.data
    BY <1>1
  <2> QED BY <1>1, <2>1
<1>5. ProposalsOK(h)
  BY <1>1, <1>4, ProposalsWithout DEF QueueOK
<1> QED BY <1>1, <1>2, <1>3, <1>5 DEF QueueOK, Proposed

\* What a step of the finder that changes no party does to the players who
\* invite and to the groups it has made.
Calm(f, h) ==
  /\ PartiesKept(f, h)
  /\ \A p \in Players :
       f.state[p] \in Idle /\ IsEntry(f, p) /\ f.invite[p] = p => h.state[p] \in Idle
  /\ \A g \in Groups : h.old[g] = f.old[g] \/ h.old[g] = "NONE"
  /\ (\A i \in 1..Len(f.proposals) : f.proposals[i].group \in f.lfg \cup {NoGroup}) =>
     \A i \in 1..Len(h.proposals) : h.proposals[i].group \in f.lfg \cup {NoGroup}

LEMMA CalmKeeps ==
  ASSUME NEW f, NEW h, Calm(f, h), InvitesOK(f), GroupsOK(f)
  PROVE  InvitesOK(h) /\ GroupsOK(h)
<1>1. InvitesOK(h)
  <2>1. ASSUME NEW p \in Players, NEW q \in Players, h.invite[q] = p
        PROVE  h.invite[p] = p /\ IsEntry(h, p) /\ h.state[p] \in Idle
    BY <2>1 DEF Calm, PartiesKept, InvitesOK, IsEntry
  <2> QED BY <2>1 DEF Calm, PartiesKept, InvitesOK
<1>2. GroupsOK(h)
  BY DEF GroupsOK, Calm, PartiesKept
<1> QED BY <1>1, <1>2

LEMMA CheckEndedIs ==
  ASSUME NEW f \in Finders, NEW groups
  PROVE  LET h == CheckEnded(f, groups)
         IN  /\ h \in Finders /\ h.state = f.state /\ h.old = f.old
             /\ QueueKept(f, h) /\ PartiesKept(f, h)
             /\ DOMAIN h.check = DOMAIN f.check \ groups
             /\ \A g \in DOMAIN h.check : h.check[g] = f.check[g]
<1> DEFINE D == DOMAIN f.check \ groups
<1>1. f.check \in Partial(Groups, Checks)
  BY FieldsOf
<1>2. D \in SUBSET DOMAIN f.check
  OBVIOUS
<1> HIDE DEF D
<1>3. PICK check \in Partial(Groups, Checks) : check = Restrict(f.check, D)
  BY <1>1, <1>2, RestrictIs
<1>4. CheckEnded(f, groups) = WithCheck(f, check)
  BY <1>3 DEF CheckEnded, WithCheck, D
<1>5. DOMAIN check = D /\ \A g \in D : check[g] = f.check[g]
  BY <1>3 DEF Restrict
<1>6. LET h == WithCheck(f, check)
      IN  /\ h \in Finders /\ h.state = f.state /\ h.old = f.old
          /\ QueueKept(f, h) /\ PartiesKept(f, h) /\ h.check = check
  BY CheckWith
<1> QED BY <1>4, <1>5, <1>6 DEF D

\* The role checks of some parties fail.
LEMMA RoleChecksFailKeeps ==
  ASSUME NEW f, Core(f), NEW groups \in SUBSET DOMAIN f.check, NEW h, h = RoleChecksFail(f, groups)
  PROVE  /\ Core(h) /\ Calm(f, h)
         /\ QueueKept(f, h) /\ h.old = f.old
         /\ \A g \in groups : h.state[g] \in Idle
         /\ \A e \in Entries : f.state[e] \in Idle => h.state[e] \in Idle
<1>1. f \in Finders /\ PartiesApart(f) /\ Where(f) /\ Known(f) /\ QueueOK(f)
  BY CoreIs
<1>2. DOMAIN f.check \subseteq Groups /\ groups \subseteq Entries
  BY <1>1, FieldsOf, PartialIs, Kinds
<1> DEFINE c == CheckEnded(f, groups)
           asked == AskedIn(f, groups)
<1>3. /\ c \in Finders /\ c.state = f.state /\ c.old = f.old
      /\ QueueKept(f, c) /\ PartiesKept(f, c)
      /\ DOMAIN c.check = DOMAIN f.check \ groups
      /\ \A g \in DOMAIN c.check : c.check[g] = f.check[g]
  BY <1>1, CheckEndedIs
<1>4. h = RestoreState(c, asked)
  BY DEF RoleChecksFail
<1> HIDE DEF c
<1>5. /\ h \in Finders
      /\ \A e \in Entries : h.state[e] = IF e \in asked THEN c.old[e] ELSE c.state[e]
      /\ h.old = c.old
      /\ QueueKept(c, h) /\ PartiesKept(c, h) /\ h.check = c.check
  <2> HIDE DEF asked
  <2> QED BY <1>3, <1>4, RestoreStateIs
<1>6. \A g \in groups : IsEntry(f, g) /\ f.state[g] = "ROLECHECK"
  BY <1>1, <1>2 DEF Where
<1>7. \A x : x \in asked <=> x \in groups \/ \E g \in groups : x \in Folk(f, g)
  BY <1>1 DEF AskedIn, Known
<1> HIDE DEF asked
<1>8. h.old = f.old /\ \A e \in Entries : f.old[e] \in Idle
  BY <1>1, <1>3, <1>5, FieldsOf
<1>9. QueueKept(f, h) /\ PartiesKept(f, h)
  BY <1>3, <1>5 DEF QueueKept, PartiesKept
<1>10. \A e \in Entries : h.state[e] = IF e \in asked THEN f.old[e] ELSE f.state[e]
  BY <1>3, <1>5
<1>11. \A e \in Entries : /\ Listed(h, e) <=> Listed(f, e)
                          /\ Proposed(h, e) <=> Proposed(f, e)
                          /\ Folk(h, e) = Folk(f, e)
  BY <1>9 DEF Listed, Proposed, QueueKept, PartiesKept, Folk
<1>12. QueueOK(h)
  BY <1>1, <1>9, SameProposals DEF QueueOK, QueueKept, CacheOK
<1>13. \A x \in Entries \ groups : Stays(f, h, x)
  BY <1>3, <1>5, <1>9, <1>11 DEF Stays, QueueKept
<1>14. ASSUME NEW e \in groups PROVE Placed(h, e)
  <2>1. h.state[e] \in Idle /\ \A p \in Folk(f, e) : h.state[p] \in Idle
    BY <1>1, <1>2, <1>7, <1>8, <1>10, FolkIs, Kinds
  <2>2. e \notin DOMAIN h.check
    BY <1>3, <1>5
  <2>3. ~ Listed(f, e) /\ ~ Proposed(f, e) /\ e \notin DOMAIN f.data
    BY <1>1, <1>2, <1>6 DEF Where
  <2> QED BY <1>2, <1>9, <1>11, <2>1, <2>2, <2>3 DEF Placed, Idle, QueueKept
<1>15. Core(h)
  <2>1. \A x \in Entries : x \in groups \/ (\E e \in groups : x \in Folk(f, e)) \/ h.state[x] = f.state[x]
    BY <1>7, <1>10
  <2>2. h.party = f.party
    BY <1>9 DEF PartiesKept
  <2> QED BY <1>2, <1>5, <1>6, <1>12, <1>13, <1>14, <2>1, <2>2, EntriesMove
<1>16. \A e \in Entries : f.state[e] \in Idle => h.state[e] \in Idle
  BY <1>8, <1>10
<1>17. Calm(f, h)
  BY <1>8, <1>9, <1>16, Kinds DEF Calm, QueueKept
<1>18. \A g \in groups : h.state[g] \in Idle
  BY <1>2, <1>7, <1>8, <1>10
<1> QED BY <1>8, <1>9, <1>15, <1>16, <1>17, <1>18

-----------------------------------------------------------------------------
(***************************************************************************)
(* Proposals fall.                                                         *)
(***************************************************************************)
LEMMA QueueLeftKeeps ==
  ASSUME NEW f, Core(f), NEW e \in Entries, IsEntry(f, e), f.state[e] = "QUEUED",
         NEW h, h = SetState(RemoveFromQueue(f, {e}), Folk(f, e) \cup {e}, "NONE")
  PROVE  /\ Core(h) /\ Calm(f, h) /\ h.state[e] \in Idle
         /\ \A x \in Entries : f.state[x] \in Idle => h.state[x] \in Idle
         /\ h.proposals = f.proposals
<1>1. f \in Finders /\ PartiesApart(f) /\ Where(f) /\ Known(f) /\ QueueOK(f)
  BY CoreIs
<1> DEFINE r == RemoveFromQueue(f, {e})  whole == Folk(f, e) \cup {e}
<1>2. /\ r \in Finders /\ r.state = f.state /\ r.old = f.old
      /\ DOMAIN r.data = DOMAIN f.data \ {e}
      /\ \A d \in DOMAIN r.data : r.data[d] = f.data[d]
      /\ r.proposals = f.proposals
      /\ PartiesKept(f, r) /\ r.check = f.check
  BY <1>1, RemoveFromQueueIs
<1>3. \A d : Proposed(f, d) => d \in DOMAIN f.data /\ d \notin {e}
  BY ProposedIs
<1>4. /\ QueueOK(r)
      /\ \A d : Listed(r, d) <=> Listed(f, d) /\ d \notin {e}
      /\ \A d : Proposed(r, d) <=> Proposed(f, d)
  BY <1>1, <1>3, RemoveFromQueueKeeps
<1>5. h = SetState(r, whole, "NONE") /\ "NONE" \in States /\ "NONE" \in Idle
  BY DEF States, Idle
<1> HIDE DEF r
<1>6. /\ h \in Finders
      /\ \A x \in Entries : h.state[x] = IF x \in whole THEN "NONE" ELSE r.state[x]
      /\ \A x \in Entries : h.old[x] = IF x \in whole /\ "NONE" \in Idle THEN "NONE" ELSE r.old[x]
      /\ QueueKept(r, h) /\ PartiesKept(r, h) /\ h.check = r.check
  <2> HIDE DEF whole
  <2>1. LET t == SetState(r, whole, "NONE")
        IN  /\ t \in Finders
            /\ \A x \in Entries : t.state[x] = IF x \in whole THEN "NONE" ELSE r.state[x]
            /\ \A x \in Entries : t.old[x] = IF x \in whole /\ "NONE" \in Idle THEN "NONE" ELSE r.old[x]
            /\ QueueKept(r, t) /\ PartiesKept(r, t) /\ t.check = r.check
    BY <1>2, <1>5, SetStateIs
  <2> QED BY <1>5, <2>1
<1>7. PartiesKept(f, h)
  BY <1>2, <1>6 DEF PartiesKept
<1>8. QueueOK(h)
  BY <1>4, <1>6, SameProposals DEF QueueOK, QueueKept, CacheOK
<1>9. \A d : /\ Listed(h, d) <=> Listed(f, d) /\ d # e
             /\ Proposed(h, d) <=> Proposed(f, d)
             /\ Folk(h, d) = Folk(f, d)
  BY <1>4, <1>6, <1>7 DEF Listed, Proposed, QueueKept, PartiesKept, Folk
<1>10. \A x \in Entries \ {e} : Stays(f, h, x)
  BY <1>2, <1>6, <1>9 DEF Stays, QueueKept
<1>11. Placed(h, e)
  <2>1. h.state[e] = "NONE" /\ \A p \in Folk(f, e) : h.state[p] = "NONE"
    BY <1>1, <1>6, FolkIs, Kinds
  <2>2. e \notin DOMAIN f.check /\ ~ Proposed(f, e)
    BY <1>1 DEF Where
  <2>3. e \notin DOMAIN h.data /\ e \notin DOMAIN h.check
    BY <1>2, <1>6, <2>2 DEF QueueKept
  <2> QED BY <1>9, <2>1, <2>2, <2>3 DEF Placed, Idle
<1>12. Core(h)
  <2> DEFINE E == {e}
  <2>1. \A x \in Entries : x \in E \/ (\E d \in E : x \in Folk(f, d)) \/ h.state[x] = f.state[x]
    BY <1>2, <1>6
  <2>2. h.party = f.party
    BY <1>7 DEF PartiesKept
  <2>3. E \in SUBSET Entries /\ (\A d \in E : IsEntry(f, d)) /\ (\A d \in E : Placed(h, d))
        /\ \A x \in Entries \ E : Stays(f, h, x)
    BY <1>10, <1>11
  <2> HIDE DEF E
  <2> QED BY <1>6, <1>8, <2>1, <2>2, <2>3, EntriesMove
<1>13. \A x \in Entries : f.state[x] \in Idle => h.state[x] \in Idle
  BY <1>2, <1>5, <1>6
<1>14. Calm(f, h)
  BY <1>2, <1>6, <1>7, <1>13, Kinds DEF Calm, QueueKept
<1> QED BY <1>2, <1>5, <1>6, <1>12, <1>13, <1>14 DEF QueueKept

Gone(proposal, failed) == {proposal.entry[p] : p \in Out(proposal, failed)}

Stay(proposal, failed) == DOMAIN proposal.answer \ Out(proposal, failed)

LeftOf(f, i, h) ==
  /\ h.proposals \in Seq(Proposals) /\ Len(h.proposals) = Len(f.proposals) - 1
  /\ \E k \in [1..Len(h.proposals) -> 1..Len(f.proposals)] :
       /\ \A j \in 1..Len(h.proposals) : k[j] # i /\ h.proposals[j] = f.proposals[k[j]]
       /\ \A j, l \in 1..Len(h.proposals) : j # l => k[j] # k[l]
       /\ \A l \in 1..Len(f.proposals) : l # i => \E j \in 1..Len(h.proposals) : l = k[j]

\* What a list of proposals without one of them holds.
LEMMA ProposalsLeft ==
  ASSUME NEW f \in Finders, NEW i \in 1..Len(f.proposals), NEW h,
         h.proposals = RemoveAt(f.proposals, i)
  PROVE  LeftOf(f, i, h)
<1> DEFINE q == f.proposals  r == h.proposals
<1>1. q \in Seq(Proposals) /\ Len(q) \in Nat /\ i \in 1..Len(q)
  BY FieldsOf
<1>2. /\ r \in Seq(Proposals) /\ Len(r) = Len(q) - 1
      /\ \A j \in 1..(Len(q) - 1) : r[j] = IF j < i THEN q[j] ELSE q[j + 1]
  BY <1>1, RemoveAtIs
<1> DEFINE k == [j \in 1..Len(r) |-> IF j < i THEN j ELSE j + 1]
<1> HIDE DEF q, r
<1>3. k \in [1..Len(r) -> 1..Len(q)]
  BY <1>1, <1>2
<1>4. \A j \in 1..Len(r) : k[j] # i /\ r[j] = q[k[j]]
  BY <1>1, <1>2
<1>5. \A j, l \in 1..Len(r) : j # l => k[j] # k[l]
  BY <1>1, <1>2
<1>6. \A l \in 1..Len(q) : l # i => \E j \in 1..Len(r) : l = k[j]
  <2> SUFFICES ASSUME NEW l \in 1..Len(q), l # i PROVE \E j \in 1..Len(r) : l = k[j]
    OBVIOUS
  <2>1. CASE l < i
    <3>1. l \in 1..Len(r) /\ k[l] = l
      BY <1>1, <1>2, <2>1
    <3> QED BY <3>1
  <2>2. CASE l > i
    <3>1. l - 1 \in 1..Len(r) /\ k[l - 1] = l
      BY <1>1, <1>2, <2>2
    <3> QED BY <3>1
  <2> QED BY <1>1, <2>1, <2>2
<1> HIDE DEF k
<1> QED BY <1>2, <1>3, <1>4, <1>5, <1>6 DEF q, r, LeftOf

Removed(f, i, proposal, failed, gone, h) ==
  /\ h \in Finders
  /\ \A x \in Entries : h.state[x] =
       IF \/ x \in Stay(proposal, failed)
          \/ \E p \in Stay(proposal, failed) : x = proposal.entry[p] THEN "QUEUED"
       ELSE IF x \in Out(proposal, failed) \/ x \in gone THEN f.old[x] ELSE f.state[x]
  /\ \A x \in Entries : h.old[x] = f.old[x]
  /\ DOMAIN h.data = DOMAIN f.data \ gone
  /\ \A e \in DOMAIN h.data : h.data[e] = f.data[e]
  /\ DOMAIN h.compatible = {set \in DOMAIN f.compatible : set \cap gone = {}}
  /\ h.new = Without(f.new, gone)
  /\ h.current = Reverse(Without(Without(proposal.queues, gone), Entries \ DOMAIN h.data))
                   \o Without(f.current, gone)
  /\ h.proposals = RemoveAt(f.proposals, i)
  /\ PartiesKept(f, h) /\ h.check = f.check

LEMMA RemoveProposalIs ==
  ASSUME NEW f \in Finders, NEW i \in 1..Len(f.proposals), NEW failed, NEW proposal,
         proposal = f.proposals[i], NEW gone, gone = Gone(proposal, failed),
         NEW h, h = RemoveProposal(f, i, failed)
  PROVE  Removed(f, i, proposal, failed, gone, h)
<1> DEFINE out == Out(proposal, failed)
           stay == Stay(proposal, failed)
           told0 == RestoreState(f, out \cup gone)
           queued == stay \cup {proposal.entry[p] : p \in stay}
           told == SetState(told0, queued, "QUEUED")
           less == RemoveFromQueue(told, gone)
           queue == Without(proposal.queues, gone)
           back == ReAddToQueue(less, queue)
<1>1. h = [back EXCEPT !.proposals = RemoveAt(@, i)]
  BY DEF RemoveProposal, Gone, Stay
<1>2. f.proposals \in Seq(Proposals) /\ proposal \in Proposals /\ proposal.queues \in Seq(Entries)
  <2>1. f.proposals \in Seq(Proposals)
    BY FieldsOf
  <2>2. proposal \in Proposals
    BY <2>1
  <2> QED BY <2>1, <2>2 DEF Proposals
<1>3. /\ told0 \in Finders
      /\ \A e \in Entries : told0.state[e] = IF e \in out \cup gone THEN f.old[e] ELSE f.state[e]
      /\ told0.old = f.old
      /\ QueueKept(f, told0) /\ PartiesKept(f, told0) /\ told0.check = f.check
  <2> DEFINE S == out \cup gone
  <2> HIDE DEF S
  <2>1. LET t == RestoreState(f, S)
        IN  /\ t \in Finders
            /\ \A e \in Entries : t.state[e] = IF e \in S THEN f.old[e] ELSE f.state[e]
            /\ t.old = f.old
            /\ QueueKept(f, t) /\ PartiesKept(f, t) /\ t.check = f.check
    BY RestoreStateIs
  <2> QED BY <2>1 DEF S
<1>4. "QUEUED" \in States /\ "QUEUED" \notin Idle
  BY DEF States, Idle
<1> HIDE DEF told0
<1>5. /\ told \in Finders
      /\ \A e \in Entries : told.state[e] = IF e \in queued THEN "QUEUED" ELSE told0.state[e]
      /\ \A e \in Entries : told.old[e] = told0.old[e]
      /\ QueueKept(told0, told) /\ PartiesKept(told0, told) /\ told.check = told0.check
  <2> HIDE DEF queued
  <2>1. LET t == SetState(told0, queued, "QUEUED")
        IN  /\ t \in Finders
            /\ \A e \in Entries : t.state[e] = IF e \in queued THEN "QUEUED" ELSE told0.state[e]
            /\ \A e \in Entries : t.old[e] = IF e \in queued /\ "QUEUED" \in Idle THEN "QUEUED" ELSE told0.old[e]
            /\ QueueKept(told0, t) /\ PartiesKept(told0, t) /\ t.check = told0.check
    BY <1>3, <1>4, SetStateIs
  <2> QED BY <1>4, <2>1
<1> HIDE DEF told
<1>6. /\ less \in Finders /\ less.state = told.state /\ less.old = told.old
      /\ DOMAIN less.data = DOMAIN told.data \ gone
      /\ \A e \in DOMAIN less.data : less.data[e] = told.data[e]
      /\ DOMAIN less.compatible = {set \in DOMAIN told.compatible : set \cap gone = {}}
      /\ less.proposals = told.proposals
      /\ less.new = Without(told.new, gone) /\ less.current = Without(told.current, gone)
      /\ PartiesKept(told, less) /\ less.check = told.check
  BY <1>5, RemoveFromQueueIs
<1> HIDE DEF less
<1>7. queue \in Seq(Entries)
  BY <1>2, WithoutIs
<1>8. /\ back \in Finders /\ back.state = less.state /\ back.old = less.old
      /\ back.data = less.data /\ back.compatible = less.compatible /\ back.proposals = less.proposals
      /\ back.new = less.new
      /\ back.current = Reverse(Without(queue, Entries \ DOMAIN less.data)) \o less.current
      /\ PartiesKept(less, back) /\ back.check = less.check
  <2> HIDE DEF queue
  <2> QED BY <1>6, <1>7, ReAddToQueueIs
<1> HIDE DEF back
<1>9. PICK proposals \in Seq(Proposals) : proposals = RemoveAt(f.proposals, i)
  BY <1>2, RemoveAtIs
<1>10. back.proposals = f.proposals
  BY <1>3, <1>5, <1>6, <1>8 DEF QueueKept
<1>11. h = WithProposals(back, proposals)
  BY <1>1, <1>9, <1>10 DEF WithProposals
<1>12. LET t == WithProposals(back, proposals)
       IN  /\ t \in Finders /\ t.state = back.state /\ t.old = back.old
           /\ t.data = back.data /\ t.new = back.new /\ t.current = back.current
           /\ t.compatible = back.compatible /\ t.proposals = proposals
           /\ PartiesKept(back, t) /\ t.check = back.check
  BY <1>8, ProposalsWith
<1>13. PartiesKept(f, h) /\ h.check = f.check
  BY <1>3, <1>5, <1>6, <1>8, <1>11, <1>12 DEF PartiesKept
<1>14. /\ h \in Finders /\ h.new = Without(f.new, gone)
       /\ DOMAIN h.data = DOMAIN f.data \ gone
       /\ \A e \in DOMAIN h.data : h.data[e] = f.data[e]
       /\ DOMAIN h.compatible = {set \in DOMAIN f.compatible : set \cap gone = {}}
       /\ h.proposals = RemoveAt(f.proposals, i)
  BY <1>3, <1>5, <1>6, <1>8, <1>9, <1>11, <1>12 DEF QueueKept
<1>15. h.current = Reverse(Without(queue, Entries \ DOMAIN h.data)) \o Without(f.current, gone)
  <2> HIDE DEF queue
  <2>1. told.current = f.current
    BY <1>3, <1>5 DEF QueueKept
  <2>2. less.current = Without(f.current, gone)
    BY <1>6, <2>1
  <2>3. h.data = less.data /\ h.current = back.current
    BY <1>8, <1>11, <1>12
  <2>4. Entries \ DOMAIN h.data = Entries \ DOMAIN less.data
    BY <2>3
  <2> QED BY <1>8, <2>2, <2>3, <2>4
<1>16. \A x \in Entries : h.old[x] = f.old[x]
  BY <1>3, <1>5, <1>6, <1>8, <1>11, <1>12
<1>17. \A x \in Entries : h.state[x] =
              IF \/ x \in stay
                 \/ \E p \in stay : x = proposal.entry[p] THEN "QUEUED"
              ELSE IF x \in out \/ x \in gone THEN f.old[x] ELSE f.state[x]
  <2>1. \A x : x \in queued <=> x \in stay \/ \E p \in stay : x = proposal.entry[p]
    OBVIOUS
  <2> HIDE DEF queued, stay
  <2> QED BY <1>3, <1>5, <1>6, <1>8, <1>11, <1>12, <2>1
<1> QED BY <1>13, <1>14, <1>15, <1>16, <1>17 DEF Removed

Holds(f, proposal, Q) ==
  /\ proposal \in Proposals /\ Q \subseteq Entries
  /\ IsInjective(proposal.queues) /\ proposal.queues \in Seq(Entries)
  /\ DOMAIN proposal.answer = DOMAIN proposal.entry /\ DOMAIN proposal.answer \subseteq Players
  /\ \A p : p \in DOMAIN proposal.answer <=> \E e \in Q : p \in Folk(f, e)
  /\ \A p \in DOMAIN proposal.answer : proposal.entry[p] \in Q /\ p \in Folk(f, proposal.entry[p])
  /\ \A e \in Q : \A p \in Folk(f, e) : p \in DOMAIN proposal.answer /\ proposal.entry[p] = e
  /\ \A e \in Q : /\ IsEntry(f, e) /\ f.state[e] = "PROPOSAL" /\ Proposed(f, e)
                  /\ e \in DOMAIN f.data /\ f.data[e] = Folk(f, e)
                  /\ e \notin DOMAIN f.check /\ ~ Listed(f, e)

\* Who is in a proposal.
LEMMA ProposalHas ==
  ASSUME NEW f, Core(f), NEW i \in 1..Len(f.proposals), NEW proposal, proposal = f.proposals[i],
         NEW Q, Q = ToSet(proposal.queues)
  PROVE  Holds(f, proposal, Q)
<1>1. f \in Finders /\ PartiesApart(f) /\ Where(f) /\ Known(f) /\ QueueOK(f)
  BY CoreIs
<1>2. f.proposals \in Seq(Proposals)
  BY <1>1, FieldsOf
<1>3. proposal \in Proposals
  BY <1>2
<1>4. proposal.queues \in Seq(Entries) /\ proposal.answer \in Partial(Players, {"AGREE", "DENY", "PENDING"})
  BY <1>3 DEF Proposals
<1>5. Q \subseteq Entries
  BY <1>4 DEF ToSet
<1>6. DOMAIN proposal.answer \subseteq Players
  BY <1>4, PartialIs
<1>7. Sound(f, proposal)
  BY <1>1 DEF QueueOK, ProposalsOK
<1>8. ASSUME NEW e \in Q
      PROVE  /\ IsEntry(f, e) /\ f.state[e] = "PROPOSAL" /\ Proposed(f, e)
             /\ e \in DOMAIN f.data /\ f.data[e] = Folk(f, e)
             /\ e \notin DOMAIN f.check /\ ~ Listed(f, e)
  <2>1. Proposed(f, e)
    BY DEF Proposed
  <2> QED BY <1>1, <1>5, <2>1 DEF Where, Known
<1>9. \A p : p \in DOMAIN proposal.answer <=> \E e \in Q : p \in Folk(f, e)
  BY <1>7, <1>8 DEF Sound
<1>10. \A p \in DOMAIN proposal.answer : proposal.entry[p] \in Q /\ p \in Folk(f, proposal.entry[p])
  BY <1>7, <1>8 DEF Sound
<1>11. ASSUME NEW e \in Q, NEW p \in Folk(f, e)
       PROVE  p \in DOMAIN proposal.answer /\ proposal.entry[p] = e
  <2>1. p \in DOMAIN proposal.answer
    BY <1>9
  <2>2. proposal.entry[p] \in Q /\ p \in Folk(f, proposal.entry[p])
    BY <1>10, <2>1
  <2>3. proposal.entry[p] = e
    BY <1>1, <1>5, <1>8, <2>2, FolkApart
  <2> QED BY <2>1, <2>3
<1> QED BY <1>3, <1>4, <1>5, <1>6, <1>7, <1>8, <1>9, <1>10, <1>11 DEF Sound, Holds

Whole(f, Q, entry, gone, out, stay) ==
  /\ gone \subseteq Q
  /\ \A e \in gone : Folk(f, e) \subseteq out /\ e \notin stay /\ \A p \in stay : e # entry[p]
  /\ \A e \in Q \ gone : Folk(f, e) \subseteq stay /\ \E p \in stay : e = entry[p]

\* An entry goes as a whole.
LEMMA GoneIs ==
  ASSUME NEW f, Core(f), NEW i \in 1..Len(f.proposals), NEW proposal, proposal = f.proposals[i],
         NEW Q, Q = ToSet(proposal.queues), NEW failed, NEW gone, gone = Gone(proposal, failed)
  PROVE  Whole(f, Q, proposal.entry, gone, Out(proposal, failed), Stay(proposal, failed))
<1>0. Holds(f, proposal, Q)
  BY ProposalHas
<1>1. /\ Q \subseteq Entries
      /\ \A p \in DOMAIN proposal.answer : proposal.entry[p] \in Q /\ p \in Folk(f, proposal.entry[p])
      /\ \A e \in Q : \A p \in Folk(f, e) : p \in DOMAIN proposal.answer /\ proposal.entry[p] = e
      /\ \A e \in Q : IsEntry(f, e)
      /\ DOMAIN proposal.answer \subseteq Players
  BY <1>0 DEF Holds
<1>2. \A p, q \in DOMAIN proposal.answer :
        proposal.entry[p] = proposal.entry[q] /\ q \in Out(proposal, failed) => p \in Out(proposal, failed)
  BY DEF Out
<1>3. Out(proposal, failed) \subseteq DOMAIN proposal.answer
  BY DEF Out
<1>4. \A e \in gone : e \in Q /\ \E q \in Out(proposal, failed) : e = proposal.entry[q]
  BY <1>1, <1>3 DEF Gone
<1>5. \A p \in DOMAIN proposal.answer : proposal.entry[p] \in gone => p \in Out(proposal, failed)
  BY <1>2, <1>3, <1>4
<1>6. \A p \in Out(proposal, failed) : proposal.entry[p] \in gone
  BY DEF Gone
<1>7. ASSUME NEW e \in gone
      PROVE  /\ Folk(f, e) \subseteq Out(proposal, failed)
             /\ e \notin Stay(proposal, failed)
             /\ \A p \in Stay(proposal, failed) : e # proposal.entry[p]
  <2>1. Folk(f, e) \subseteq Out(proposal, failed)
    BY <1>1, <1>4, <1>5
  <2>2. \A p \in Stay(proposal, failed) : e # proposal.entry[p]
    BY <1>5 DEF Stay
  <2>3. e \notin Stay(proposal, failed)
    <3> SUFFICES ASSUME e \in Stay(proposal, failed) PROVE FALSE
      OBVIOUS
    <3>1. e \in Players
      BY <1>1 DEF Stay
    <3>2. e \in Folk(f, e)
      BY <3>1, Kinds, FolkIs DEF Folk
    <3> QED BY <2>1, <3>2 DEF Stay
  <2> QED BY <2>1, <2>2, <2>3
<1>8. ASSUME NEW e \in Q \ gone
      PROVE  /\ Folk(f, e) \subseteq Stay(proposal, failed)
             /\ \E p \in Stay(proposal, failed) : e = proposal.entry[p]
  <2>1. \A p \in Folk(f, e) : p \in DOMAIN proposal.answer /\ proposal.entry[p] = e /\ p \notin Out(proposal, failed)
    BY <1>1, <1>6
  <2>2. Folk(f, e) \subseteq Stay(proposal, failed)
    BY <2>1 DEF Stay
  <2>3. PICK p : p \in Folk(f, e)
    BY <1>1, FolkIs, CoreIs
  <2> QED BY <2>1, <2>2, <2>3
<1> QED BY <1>4, <1>7, <1>8 DEF Whole

ProposalFell(f, i, Q, gone, h) ==
  /\ Core(h) /\ Calm(f, h)
  /\ \A e \in gone : h.state[e] \in Idle /\ ~ Listed(h, e)
  /\ \A e \in Q \ gone : Listed(h, e) /\ h.state[e] = "QUEUED"
  /\ \A e : e \notin Q => (Listed(h, e) <=> Listed(f, e))
  /\ \A x \in Entries : f.state[x] \in Idle => h.state[x] \in Idle
  /\ h.proposals = RemoveAt(f.proposals, i)

\* A proposal falls: those who go are as they were before they joined, and the
\* others are queued as they were.
LEMMA RemoveProposalKeeps ==
  ASSUME NEW f, Core(f), NEW i \in 1..Len(f.proposals), NEW proposal, proposal = f.proposals[i],
         NEW Q, Q = ToSet(proposal.queues), NEW failed, NEW gone, gone = Gone(proposal, failed),
         NEW h, h = RemoveProposal(f, i, failed)
  PROVE  ProposalFell(f, i, Q, gone, h)
<1> DEFINE out == Out(proposal, failed)
           stay == Stay(proposal, failed)
<1>1. f \in Finders /\ PartiesApart(f) /\ Where(f) /\ Known(f) /\ QueueOK(f) /\ Synced(f)
  BY CoreIs
<1>0. Holds(f, proposal, Q)
  BY ProposalHas
<1>2. /\ Q \subseteq Entries
      /\ IsInjective(proposal.queues) /\ proposal.queues \in Seq(Entries)
      /\ DOMAIN proposal.answer \subseteq Players
      /\ \A p : p \in DOMAIN proposal.answer <=> \E e \in Q : p \in Folk(f, e)
      /\ \A p \in DOMAIN proposal.answer : proposal.entry[p] \in Q
      /\ \A e \in Q : /\ IsEntry(f, e) /\ f.state[e] = "PROPOSAL" /\ Proposed(f, e)
                      /\ e \in DOMAIN f.data /\ f.data[e] = Folk(f, e)
                      /\ e \notin DOMAIN f.check /\ ~ Listed(f, e)
  BY <1>0 DEF Holds
<1>3. /\ gone \subseteq Q
      /\ \A e \in gone : Folk(f, e) \subseteq out /\ e \notin stay /\ \A p \in stay : e # proposal.entry[p]
      /\ \A e \in Q \ gone : Folk(f, e) \subseteq stay /\ \E p \in stay : e = proposal.entry[p]
      /\ out \subseteq DOMAIN proposal.answer
  <2>1. Whole(f, Q, proposal.entry, gone, out, stay)
    BY GoneIs
  <2>2. out \subseteq DOMAIN proposal.answer
    BY DEF Out
  <2> QED BY <2>1, <2>2 DEF Whole
<1>4. /\ h \in Finders
      /\ \A x \in Entries : h.state[x] =
           IF x \in stay \/ \E p \in stay : x = proposal.entry[p] THEN "QUEUED"
           ELSE IF x \in out \/ x \in gone THEN f.old[x] ELSE f.state[x]
      /\ \A x \in Entries : h.old[x] = f.old[x]
      /\ DOMAIN h.data = DOMAIN f.data \ gone
      /\ \A e \in DOMAIN h.data : h.data[e] = f.data[e]
      /\ DOMAIN h.compatible = {set \in DOMAIN f.compatible : set \cap gone = {}}
      /\ h.new = Without(f.new, gone)
      /\ h.current = Reverse(Without(Without(proposal.queues, gone), Entries \ DOMAIN h.data))
                       \o Without(f.current, gone)
      /\ h.proposals = RemoveAt(f.proposals, i)
      /\ PartiesKept(f, h) /\ h.check = f.check
  <2>1. Removed(f, i, proposal, failed, gone, h)
    BY <1>1, RemoveProposalIs
  <2> QED BY <2>1 DEF Removed
<1>5. \A x \in Entries : f.old[x] \in Idle
  BY <1>1, FieldsOf
<1>6. stay \subseteq DOMAIN proposal.answer
  BY DEF Stay
<1>7. \A p \in DOMAIN proposal.answer : f.state[p] = "PROPOSAL"
  <2> SUFFICES ASSUME NEW e \in Q, NEW p \in Folk(f, e) PROVE f.state[p] = "PROPOSAL"
    BY <1>2
  <2>1. f.state[e] = "PROPOSAL" /\ "PROPOSAL" \notin Idle
    BY <1>2 DEF Idle
  <2> QED BY <1>1, <1>2, <2>1, FolkSynced
<1> HIDE DEF out, stay
\* the lists
<1> DEFINE a == Without(Without(proposal.queues, gone), Entries \ DOMAIN h.data)
           b == Reverse(a)
           c == Without(f.current, gone)
<1>8. b \in Seq(Entries) /\ IsInjective(b) /\ ToSet(b) = Q \ gone
  <2> DEFINE w == Without(proposal.queues, gone)
  <2>1. w \in Seq(Entries) /\ IsInjective(w) /\ ToSet(w) = Q \ gone
    BY <1>2, WithoutIs
  <2> HIDE DEF w
  <2>2. a \in Seq(Entries) /\ IsInjective(a) /\ ToSet(a) = (Q \ gone) \ (Entries \ DOMAIN h.data)
    <3>1. a = Without(w, Entries \ DOMAIN h.data)
      BY DEF w
    <3> HIDE DEF a
    <3> QED BY <2>1, <3>1, WithoutIs
  <2>3. (Q \ gone) \ (Entries \ DOMAIN h.data) = Q \ gone
    BY <1>2, <1>4
  <2> HIDE DEF a
  <2> QED BY <2>2, <2>3, ReverseIs
<1>9. h.new \in Seq(Entries) /\ c \in Seq(Entries) /\ f.new \in Seq(Entries) /\ f.current \in Seq(Entries)
  BY <1>1, <1>4, FieldsOf, WithoutIs
<1>10. /\ IsInjective(h.new \o c)
       /\ ToSet(h.new) = ToSet(f.new) \ gone /\ ToSet(c) = ToSet(f.current) \ gone
  <2> DEFINE r == [new |-> Without(f.new, gone), current |-> c]
  <2>1. r.new = Without(f.new, gone) /\ r.current = Without(f.current, gone)
    OBVIOUS
  <2> HIDE DEF r
  <2>2. /\ IsInjective(r.new \o r.current)
        /\ ToSet(r.new) = ToSet(f.new) \ gone /\ ToSet(r.current) = ToSet(f.current) \ gone
    BY <1>1, <2>1, ListsWithout DEF QueueOK
  <2> QED BY <1>4, <2>1, <2>2
<1>11. h.current = b \o c
  BY <1>4
<1> HIDE DEF a, b, c
<1>12. IsInjective(h.new) /\ IsInjective(c) /\ ToSet(h.new) \cap ToSet(c) = {}
  BY <1>9, <1>10, ConcatIs
<1>13. (Q \ gone) \cap ToSet(f.new) = {} /\ (Q \ gone) \cap ToSet(f.current) = {}
  BY <1>2 DEF Listed
<1>14. /\ h.current \in Seq(Entries) /\ IsInjective(h.current)
       /\ ToSet(h.current) = (Q \ gone) \cup (ToSet(f.current) \ gone)
  <2>1. b \o c \in Seq(Entries) /\ IsInjective(b \o c) /\ ToSet(b \o c) = ToSet(b) \cup ToSet(c)
    BY <1>8, <1>9, <1>10, <1>12, <1>13, ConcatIs
  <2> QED BY <1>8, <1>10, <1>11, <2>1
<1>15. IsInjective(h.new \o h.current)
  BY <1>8, <1>9, <1>10, <1>12, <1>13, <1>14, ConcatIs
<1>16. /\ \A e \in Q : Listed(h, e) <=> e \notin gone
       /\ \A e : e \notin Q => (Listed(h, e) <=> Listed(f, e))
  <2>1. \A e : Listed(h, e) <=> e \in (ToSet(f.new) \ gone) \cup (Q \ gone) \cup (ToSet(f.current) \ gone)
    BY <1>10, <1>14 DEF Listed
  <2>2. \A e \in Q : e \notin ToSet(f.new) /\ e \notin ToSet(f.current)
    BY <1>2 DEF Listed
  <2>3. \A e : Listed(f, e) <=> e \in ToSet(f.new) \cup ToSet(f.current)
    BY DEF Listed
  <2>4. gone \subseteq Q
    BY <1>3
  <2> QED BY <2>1, <2>2, <2>3, <2>4
\* the proposals
<1>17. LeftOf(f, i, h)
  <2>1. h.proposals = RemoveAt(f.proposals, i)
    BY <1>4
  <2> QED BY <1>1, <2>1, ProposalsLeft
<1>18. PICK k \in [1..Len(h.proposals) -> 1..Len(f.proposals)] :
            /\ \A j \in 1..Len(h.proposals) : k[j] # i /\ h.proposals[j] = f.proposals[k[j]]
            /\ \A j, l \in 1..Len(h.proposals) : j # l => k[j] # k[l]
            /\ \A l \in 1..Len(f.proposals) : l # i => \E j \in 1..Len(h.proposals) : l = k[j]
  BY <1>17 DEF LeftOf
<1>19. ASSUME NEW j \in 1..Len(h.proposals) PROVE ToSet(h.proposals[j].queues) \cap Q = {}
  <2>1. k[j] \in 1..Len(f.proposals) /\ k[j] # i /\ h.proposals[j] = f.proposals[k[j]]
    BY <1>18
  <2>2. ProposalsOK(f)
    BY <1>1 DEF QueueOK
  <2> QED BY <2>1, <2>2 DEF ProposalsOK
<1>20. \A e \in Q : ~ Proposed(h, e)
  BY <1>19 DEF Proposed
<1>21. ASSUME NEW e, e \notin Q PROVE Proposed(h, e) <=> Proposed(f, e)
  <2>1. ASSUME Proposed(h, e) PROVE Proposed(f, e)
    <3>1. PICK j \in 1..Len(h.proposals) : e \in ToSet(h.proposals[j].queues)
      BY <2>1 DEF Proposed
    <3>2. k[j] \in 1..Len(f.proposals) /\ h.proposals[j] = f.proposals[k[j]]
      BY <1>18
    <3> QED BY <3>1, <3>2 DEF Proposed
  <2>2. ASSUME Proposed(f, e) PROVE Proposed(h, e)
    <3>1. PICK l \in 1..Len(f.proposals) : e \in ToSet(f.proposals[l].queues)
      BY <2>2 DEF Proposed
    <3>2. l # i
      BY <1>21, <3>1
    <3>3. PICK j \in 1..Len(h.proposals) : l = k[j]
      BY <1>18, <3>2
    <3>4. h.proposals[j] = f.proposals[l]
      BY <1>18, <3>3
    <3> QED BY <3>1, <3>4 DEF Proposed
  <2> QED BY <2>1, <2>2
<1>22. ProposalsOK(h)
  <2>1. ASSUME NEW j \in 1..Len(h.proposals)
        PROVE  Sound(h, h.proposals[j]) /\ h.proposals[j].announced
    <3> DEFINE P == h.proposals[j]
    <3>1. P = f.proposals[k[j]] /\ k[j] \in 1..Len(f.proposals)
      BY <1>18
    <3>2. Sound(f, P) /\ P.announced
      BY <1>1, <3>1 DEF QueueOK, ProposalsOK
    <3>3. \A e \in ToSet(P.queues) : e \in DOMAIN f.data
      BY <3>1, ProposedIs DEF Proposed
    <3>4. \A e \in ToSet(P.queues) : h.data[e] = f.data[e]
      BY <1>3, <1>4, <1>19, <3>3
    <3> HIDE DEF P
    <3>5. UNION {h.data[e] : e \in ToSet(P.queues)} = UNION {f.data[e] : e \in ToSet(P.queues)}
      BY <3>4
    <3>6. Sound(h, P)
      BY <3>2, <3>4, <3>5 DEF Sound
    <3> QED BY <3>2, <3>6 DEF P
  <2>2. \A j, l \in 1..Len(h.proposals) :
          j # l => ToSet(h.proposals[j].queues) \cap ToSet(h.proposals[l].queues) = {}
    <3> SUFFICES ASSUME NEW j \in 1..Len(h.proposals), NEW l \in 1..Len(h.proposals), j # l
                 PROVE  ToSet(h.proposals[j].queues) \cap ToSet(h.proposals[l].queues) = {}
      OBVIOUS
    <3>1. k[j] # k[l] /\ k[j] \in 1..Len(f.proposals) /\ k[l] \in 1..Len(f.proposals)
      BY <1>18
    <3>2. h.proposals[j] = f.proposals[k[j]] /\ h.proposals[l] = f.proposals[k[l]]
      BY <1>18
    <3>3. ToSet(f.proposals[k[j]].queues) \cap ToSet(f.proposals[k[l]].queues) = {}
      BY <1>1, <3>1 DEF QueueOK, ProposalsOK
    <3> QED BY <3>2, <3>3
  <2> QED BY <2>1, <2>2 DEF ProposalsOK
<1>23. CacheOK(h)
  <2>1. CacheOK(f)
    BY <1>1 DEF QueueOK
  <2>2. /\ DOMAIN h.data = DOMAIN f.data \ gone
        /\ DOMAIN h.compatible = {set \in DOMAIN f.compatible : set \cap gone = {}}
    BY <1>4
  <2>3. ToSet(h.new) = ToSet(f.new) \ gone
    BY <1>10
  <2> QED BY <2>1, <2>2, <2>3, CacheWithout
<1>24. QueueOK(h)
  BY <1>15, <1>22, <1>23 DEF QueueOK
\* the entries
<1>25. \A e : Folk(h, e) = Folk(f, e)
  BY <1>4 DEF Folk, PartiesKept
<1>26. ASSUME NEW e \in gone PROVE h.state[e] \in Idle /\ \A p \in Folk(f, e) : h.state[p] \in Idle
  <2>1. h.state[e] \in Idle
    <3>1. e \notin stay /\ (\A p \in stay : e # proposal.entry[p]) /\ e \in Entries
      BY <1>2, <1>3
    <3> QED BY <1>4, <1>5, <3>1
  <2>2. ASSUME NEW p \in Folk(f, e) PROVE h.state[p] \in Idle
    <3>1. p \in out /\ p \in Entries
      BY <1>2, <1>3, FolkIs, Kinds, <1>1
    <3>2. p \notin stay
      BY <3>1 DEF out, stay, Stay
    <3>3. \A q \in stay : p # proposal.entry[q]
      <4> SUFFICES ASSUME NEW q \in stay, p = proposal.entry[q] PROVE FALSE
        OBVIOUS
      <4>1. p \in Q /\ p \in Players
        BY <1>2, <1>3, <1>6, <3>1
      <4>2. p \in Folk(f, p)
        BY <4>1, <1>1, FolkIs, Kinds
      <4>3. p = e
        BY <1>1, <1>2, <1>3, <4>1, <4>2, FolkApart
      <4>4. e # proposal.entry[q]
        BY <1>3
      <4> QED BY <4>3, <4>4
    <3> QED BY <1>4, <1>5, <3>1, <3>2, <3>3
  <2> QED BY <2>1, <2>2
<1>27. ASSUME NEW e \in Q \ gone
       PROVE h.state[e] = "QUEUED" /\ \A p \in Folk(f, e) : h.state[p] = "QUEUED"
  <2>1. \E p \in stay : e = proposal.entry[p]
    BY <1>3
  <2>2. Folk(f, e) \subseteq stay /\ Folk(f, e) \subseteq Entries
    BY <1>1, <1>2, <1>3, FolkIs, Kinds
  <2> QED BY <1>2, <1>4, <2>1, <2>2
<1>28. ASSUME NEW e \in Q PROVE Placed(h, e)
  <2>1. CASE e \in gone
    <3>1. ~ Listed(h, e) /\ ~ Proposed(h, e) /\ e \notin DOMAIN h.data /\ e \notin DOMAIN h.check
      BY <1>2, <1>4, <1>16, <1>20, <2>1
    <3> QED BY <1>25, <1>26, <2>1, <3>1 DEF Placed, Idle
  <2>2. CASE e \notin gone
    <3>1. Listed(h, e) /\ ~ Proposed(h, e)
      BY <1>16, <1>20, <2>2
    <3>2. e \in DOMAIN f.data /\ f.data[e] = Folk(f, e) /\ e \notin DOMAIN f.check
      BY <1>2
    <3>3. e \in DOMAIN h.data /\ h.data[e] = Folk(f, e) /\ e \notin DOMAIN h.check
      BY <1>4, <2>2, <3>2
    <3>4. e \in Groups => RolesFit(h.data[e])
      BY <1>1, <3>2, <3>3 DEF Known
    <3> QED BY <1>25, <1>27, <2>2, <3>1, <3>3, <3>4 DEF Placed, Idle
  <2> QED BY <2>1, <2>2
<1>29. \A x \in Entries : x \in Q \/ (\E e \in Q : x \in Folk(f, e)) \/ h.state[x] = f.state[x]
  <2> SUFFICES ASSUME NEW x \in Entries, x \notin Q, \A e \in Q : x \notin Folk(f, e)
               PROVE  h.state[x] = f.state[x]
    OBVIOUS
  <2>1. x \notin DOMAIN proposal.answer
    BY <1>2
  <2>2. x \notin out /\ x \notin gone /\ x \notin stay
    BY <1>3, <1>6, <2>1
  <2>3. \A p \in stay : x # proposal.entry[p]
    BY <1>2, <1>6
  <2> QED BY <1>4, <2>2, <2>3
<1>30. \A x \in Entries \ Q : Stays(f, h, x)
  BY <1>3, <1>4, <1>16, <1>21 DEF Stays
<1>31. Core(h)
  <2>1. h.party = f.party
    BY <1>4 DEF PartiesKept
  <2>2. Q \in SUBSET Entries /\ \A e \in Q : IsEntry(f, e)
    BY <1>2
  <2>3. h \in Finders
    BY <1>4
  <2> QED BY <1>24, <1>28, <1>29, <1>30, <2>1, <2>2, <2>3, EntriesMove
<1>32. \A x \in Entries : f.state[x] \in Idle => h.state[x] \in Idle
  <2> SUFFICES ASSUME NEW x \in Entries, f.state[x] \in Idle PROVE h.state[x] \in Idle
    OBVIOUS
  <2>1. x \notin Q /\ x \notin DOMAIN proposal.answer
    BY <1>2, <1>7 DEF Idle
  <2> QED BY <1>2, <1>29, <2>1
<1>33. Calm(f, h)
  <2>1. \A j \in 1..Len(h.proposals) : \E l \in 1..Len(f.proposals) : h.proposals[j] = f.proposals[l]
    BY <1>18
  <2> QED BY <1>4, <1>32, <2>1, Kinds DEF Calm
<1>34. h.proposals = RemoveAt(f.proposals, i)
  BY <1>4
<1>35. \A e \in gone : h.state[e] \in Idle /\ ~ Listed(h, e)
  BY <1>3, <1>16, <1>26
<1>36. \A e \in Q \ gone : Listed(h, e) /\ h.state[e] = "QUEUED"
  BY <1>16, <1>27
<1> QED BY <1>16, <1>31, <1>32, <1>33, <1>34, <1>35, <1>36 DEF ProposalFell

-----------------------------------------------------------------------------
(***************************************************************************)
(* Answers, and players who leave the finder.                              *)
(***************************************************************************)
WithAnswer(f, i, p, v) == [f EXCEPT !.proposals[i].answer[p] = v]

Answered(f, i, p, v, h) ==
  /\ h \in Finders /\ h.state = f.state /\ h.old = f.old
  /\ h.data = f.data /\ h.new = f.new /\ h.current = f.current
  /\ h.compatible = f.compatible
  /\ PartiesKept(f, h) /\ h.check = f.check
  /\ h.proposals \in Seq(Proposals) /\ Len(h.proposals) = Len(f.proposals)
  /\ \A j \in 1..Len(f.proposals) :
       /\ h.proposals[j].queues = f.proposals[j].queues
       /\ h.proposals[j].entry = f.proposals[j].entry
       /\ h.proposals[j].group = f.proposals[j].group
       /\ h.proposals[j].announced = f.proposals[j].announced
       /\ h.proposals[j].isNew = f.proposals[j].isNew
       /\ DOMAIN h.proposals[j].answer = DOMAIN f.proposals[j].answer
       /\ j # i => h.proposals[j] = f.proposals[j]
       /\ \A q \in DOMAIN f.proposals[j].answer :
            h.proposals[j].answer[q] = IF j = i /\ q = p THEN v ELSE f.proposals[j].answer[q]

LEMMA AnswerIs ==
  ASSUME NEW f \in Finders, NEW i \in 1..Len(f.proposals), NEW p \in DOMAIN f.proposals[i].answer,
         NEW v \in {"AGREE", "DENY", "PENDING"}
  PROVE  Answered(f, i, p, v, WithAnswer(f, i, p, v))
<1> DEFINE q == f.proposals
           answer == [q[i].answer EXCEPT ![p] = v]
           P == [q[i] EXCEPT !.answer = answer]
           r == [q EXCEPT ![i] = P]
<1>1. q \in Seq(Proposals) /\ Len(q) \in Nat /\ i \in 1..Len(q)
  BY FieldsOf
<1>2. q[i] \in Proposals
  BY <1>1
<1>3. answer \in Partial(Players, {"AGREE", "DENY", "PENDING"}) /\ DOMAIN answer = DOMAIN q[i].answer
      /\ \A x \in DOMAIN answer : answer[x] = IF x = p THEN v ELSE q[i].answer[x]
  <2>1. q[i].answer \in Partial(Players, {"AGREE", "DENY", "PENDING"})
    BY <1>2 DEF Proposals
  <2>2. /\ DOMAIN q[i].answer \subseteq Players
        /\ q[i].answer \in [DOMAIN q[i].answer -> {"AGREE", "DENY", "PENDING"}]
    BY <2>1, PartialIs
  <2>3. DOMAIN answer = DOMAIN q[i].answer /\ answer \in [DOMAIN answer -> {"AGREE", "DENY", "PENDING"}]
    BY <2>2
  <2>4. answer \in Partial(Players, {"AGREE", "DENY", "PENDING"})
    <3> HIDE DEF answer
    <3> QED BY <2>2, <2>3, PartialIs
  <2> QED BY <2>2, <2>3, <2>4
<1> HIDE DEF answer
<1>4. /\ P \in Proposals /\ P.queues = q[i].queues /\ P.entry = q[i].entry /\ P.group = q[i].group
      /\ P.announced = q[i].announced /\ P.isNew = q[i].isNew /\ P.answer = answer
  BY <1>2, <1>3 DEF Proposals
<1> HIDE DEF P
<1>5. r \in Seq(Proposals) /\ Len(r) = Len(q) /\ \A j \in 1..Len(q) : r[j] = IF j = i THEN P ELSE q[j]
  BY <1>1, <1>4
<1>6. WithAnswer(f, i, p, v) = WithProposals(f, r)
  BY <1>1 DEF WithAnswer, WithProposals, P, answer
<1>7. q = f.proposals
  OBVIOUS
<1> HIDE DEF r, q
<1>8. LET h == WithProposals(f, r)
      IN  /\ h \in Finders /\ h.state = f.state /\ h.old = f.old
          /\ h.data = f.data /\ h.new = f.new /\ h.current = f.current
          /\ h.compatible = f.compatible /\ h.proposals = r
          /\ PartiesKept(f, h) /\ h.check = f.check
  BY <1>5, ProposalsWith
<1>9. ASSUME NEW j \in 1..Len(q)
      PROVE  /\ r[j].queues = q[j].queues /\ r[j].entry = q[j].entry /\ r[j].group = q[j].group
             /\ r[j].announced = q[j].announced /\ r[j].isNew = q[j].isNew
             /\ DOMAIN r[j].answer = DOMAIN q[j].answer
             /\ j # i => r[j] = q[j]
             /\ \A x \in DOMAIN q[j].answer :
                  r[j].answer[x] = IF j = i /\ x = p THEN v ELSE q[j].answer[x]
  <2>1. CASE j = i
    <3>1. r[j] = P
      BY <1>5, <2>1
    <3> QED BY <1>3, <1>4, <2>1, <3>1
  <2>2. CASE j # i
    <3>1. r[j] = q[j]
      BY <1>5, <2>2
    <3> QED BY <2>2, <3>1
  <2> QED BY <2>1, <2>2
<1>10. \A h : h = WithProposals(f, r) => Answered(f, i, p, v, h)
  <2> SUFFICES ASSUME NEW h, h = WithProposals(f, r) PROVE Answered(f, i, p, v, h)
    OBVIOUS
  <2>1. h.proposals = r /\ r \in Seq(Proposals) /\ Len(h.proposals) = Len(q)
    BY <1>5, <1>8
  <2> QED BY <1>7, <1>8, <1>9, <2>1 DEF Answered
<1> QED BY <1>6, <1>10

LEMMA AnswerKeeps ==
  ASSUME NEW f, Core(f), NEW i, NEW p, NEW v, NEW h, Answered(f, i, p, v, h)
  PROVE  Core(h) /\ Calm(f, h)
<1>1. f \in Finders /\ QueueOK(f) /\ h \in Finders
  BY CoreIs DEF Answered
<1>2. \A j \in 1..Len(h.proposals) : /\ j \in 1..Len(f.proposals)
        /\ h.proposals[j].queues = f.proposals[j].queues
        /\ h.proposals[j].entry = f.proposals[j].entry
        /\ h.proposals[j].group = f.proposals[j].group
        /\ h.proposals[j].announced = f.proposals[j].announced
        /\ DOMAIN h.proposals[j].answer = DOMAIN f.proposals[j].answer
  BY DEF Answered
<1>3. h.data = f.data /\ h.new = f.new /\ h.current = f.current /\ h.compatible = f.compatible
      /\ Len(h.proposals) = Len(f.proposals) /\ h.check = f.check /\ PartiesKept(f, h)
      /\ h.state = f.state /\ h.old = f.old
  BY DEF Answered
<1>4. ProposalsOK(h)
  <2>1. ASSUME NEW j \in 1..Len(h.proposals)
        PROVE  Sound(h, h.proposals[j]) /\ h.proposals[j].announced
    <3> DEFINE P == f.proposals[j]  R == h.proposals[j]
    <3>1. Sound(f, P) /\ P.announced
      BY <1>1, <1>2 DEF QueueOK, ProposalsOK
    <3>2. /\ R.queues = P.queues /\ R.entry = P.entry /\ R.group = P.group
          /\ R.announced = P.announced /\ DOMAIN R.answer = DOMAIN P.answer
      BY <1>2
    <3> HIDE DEF P, R
    <3>3. Sound(h, R)
      BY <1>3, <3>1, <3>2 DEF Sound, Matched
    <3> QED BY <3>1, <3>2, <3>3 DEF R
  <2>2. ASSUME NEW j \in 1..Len(h.proposals), NEW l \in 1..Len(h.proposals), j # l
        PROVE  ToSet(h.proposals[j].queues) \cap ToSet(h.proposals[l].queues) = {}
    <3>1. ToSet(f.proposals[j].queues) \cap ToSet(f.proposals[l].queues) = {}
      BY <1>1, <1>2, <2>2 DEF QueueOK, ProposalsOK
    <3> QED BY <1>2, <3>1
  <2> QED BY <2>1, <2>2 DEF ProposalsOK
<1>5. QueueOK(h)
  BY <1>1, <1>3, <1>4 DEF QueueOK, CacheOK
<1>6. \A e : Proposed(h, e) <=> Proposed(f, e)
  BY <1>2, <1>3 DEF Proposed
<1>7. \A e \in Entries : Stays(f, h, e)
  BY <1>3, <1>6 DEF Stays, Listed
<1>8. Core(h)
  <2> DEFINE E == {}
  <2>1. E \in SUBSET Entries /\ (\A e \in E : IsEntry(f, e)) /\ (\A e \in E : Placed(h, e))
        /\ \A x \in Entries \ E : Stays(f, h, x)
    BY <1>7
  <2>2. \A x \in Entries : x \in E \/ (\E e \in E : x \in Folk(f, e)) \/ h.state[x] = f.state[x]
    BY <1>3
  <2>3. h.party = f.party
    BY <1>3 DEF PartiesKept
  <2> HIDE DEF E
  <2> QED BY <1>1, <1>5, <2>1, <2>2, <2>3, EntriesMove
<1>9. Calm(f, h)
  BY <1>2, <1>3 DEF Calm
<1> QED BY <1>8, <1>9

\* A player denies a proposal.
LEMMA DenyKeeps ==
  ASSUME NEW f, Core(f), NEW i \in 1..Len(f.proposals), NEW p \in DOMAIN f.proposals[i].answer,
         NEW d, d = f.proposals[i].entry[p], NEW h, h = Deny(f, i, p)
  PROVE  /\ Core(h) /\ Calm(f, h)
         /\ h.state[d] \in Idle
         /\ \A x \in Entries : f.state[x] \in Idle => h.state[x] \in Idle
<1> DEFINE a == WithAnswer(f, i, p, "DENY")
           P == a.proposals[i]
           gone == Gone(P, FALSE)
           Q == ToSet(P.queues)
<1>1. f \in Finders
  BY CoreIs
<1>2. Answered(f, i, p, "DENY", a)
  BY <1>1, AnswerIs
<1>3. h = RemoveProposal(a, i, FALSE)
  BY DEF Deny, WithAnswer
<1> HIDE DEF a
<1>4. Core(a) /\ Calm(f, a)
  BY <1>2, AnswerKeeps
<1>5. i \in 1..Len(a.proposals)
  BY <1>2 DEF Answered
<1>6. ProposalFell(a, i, Q, gone, h)
  <2>1. P = a.proposals[i] /\ Q = ToSet(P.queues) /\ gone = Gone(P, FALSE)
    OBVIOUS
  <2> HIDE DEF P, Q, gone
  <2> QED BY <1>3, <1>4, <1>5, <2>1, RemoveProposalKeeps
<1>7. a.state = f.state /\ P.entry[p] = d /\ p \in DOMAIN P.answer /\ P.answer[p] = "DENY"
  BY <1>2 DEF Answered
<1>8. d \in gone
  BY <1>7 DEF Gone, Out
<1>9. Calm(f, h)
  <2>1. Calm(a, h)
    BY <1>6 DEF ProposalFell
  <2> QED BY <1>2, <1>4, <2>1 DEF Calm, PartiesKept, Answered, IsEntry
<1> HIDE DEF gone, P
<1> QED BY <1>6, <1>7, <1>8, <1>9 DEF ProposalFell

\* The entry that a player or a group is, or belongs to.
EntryFor(f, e) == IF e \in Groups THEN e ELSE IF GroupOf(f, e) = NoGroup THEN e ELSE GroupOf(f, e)

LEMMA EntryForIs ==
  ASSUME NEW f, Core(f), NEW e \in Entries, e \in Groups => f.party[e] # <<>>
  PROVE  LET d == EntryFor(f, e)
         IN  /\ d \in Entries /\ IsEntry(f, d) /\ (e = d \/ e \in Folk(f, d))
             /\ f.state[e] = f.state[d] \/ (f.state[e] \in Idle /\ f.state[d] \in Idle)
             /\ \A h : h.party = f.party => EntryFor(h, e) = d
<1>1. f \in Finders /\ PartiesApart(f) /\ Synced(f)
  BY CoreIs
<1> DEFINE d == EntryFor(f, e)
<1>2. CASE e \in Groups
  <2>1. d = e /\ IsEntry(f, e) /\ \A h : EntryFor(h, e) = d
    BY <1>2 DEF EntryFor, IsEntry
  <2> HIDE DEF d
  <2> QED BY <2>1 DEF d
<1>3. CASE e \notin Groups
  <2>1. e \in Players
    BY <1>3, Kinds
  <2>2. d = IF GroupOf(f, e) = NoGroup THEN e ELSE GroupOf(f, e)
    BY <1>3 DEF EntryFor
  <2>3. d \in Entries /\ IsEntry(f, d) /\ e \in Folk(f, d)
    BY <1>1, <2>1, <2>2, EntryOf
  <2>4. \A h : h.party = f.party => EntryFor(h, e) = d
    BY <1>3 DEF EntryFor, GroupOf
  <2> HIDE DEF d
  <2>5. f.state[e] = f.state[d] \/ (f.state[e] \in Idle /\ f.state[d] \in Idle)
    BY <1>1, <2>3, FolkSynced
  <2> QED BY <2>3, <2>4, <2>5 DEF d
<1> QED BY <1>2, <1>3

LeftFinder(f, e, h) ==
  /\ Core(h) /\ Calm(f, h)
  /\ \A x \in Entries : f.state[x] \in Idle => h.state[x] \in Idle
  /\ h.state[e] \in Idle /\ h.state[EntryFor(f, e)] \in Idle

LEMMA LeftFinderIs ==
  ASSUME NEW f, Core(f), NEW e \in Entries, e \in Groups => f.party[e] # <<>>,
         NEW h, Core(h), Calm(f, h),
         \A x \in Entries : f.state[x] \in Idle => h.state[x] \in Idle,
         h.state[EntryFor(f, e)] \in Idle
  PROVE  LeftFinder(f, e, h)
<1>1. h.party = f.party
  BY DEF Calm, PartiesKept
<1> DEFINE d == EntryFor(f, e)
<1>2. EntryFor(h, e) = d
  BY <1>1, EntryForIs
<1>3. h.state[e] = h.state[d] \/ (h.state[e] \in Idle /\ h.state[d] \in Idle)
  BY <1>1, <1>2, EntryForIs
<1> QED BY <1>3 DEF LeftFinder

IdlesChanged(f, entries, new, h) ==
  /\ Core(h) /\ QueueKept(f, h) /\ PartiesKept(f, h) /\ h.check = f.check
  /\ \A x \in Entries : h.state[x] = IF x \in entries THEN new ELSE f.state[x]
  /\ \A x \in Entries : h.old[x] = IF x \in entries THEN new ELSE f.old[x]
  /\ \A x \in Entries : f.state[x] \in Idle => h.state[x] \in Idle

\* Some are told something else, who wait for nothing.
LEMMA IdlesChange ==
  ASSUME NEW f, Core(f), NEW entries, \A e \in Entries : e \in entries => f.state[e] \in Idle,
         NEW new, new \in Idle, NEW h, h = SetState(f, entries, new)
  PROVE  IdlesChanged(f, entries, new, h)
<1>1. f \in Finders /\ PartiesApart(f) /\ Synced(f)
  BY CoreIs
<1>2. new \in States
  BY DEF Idle, States
<1>3. /\ h \in Finders
      /\ \A x \in Entries : h.state[x] = IF x \in entries THEN new ELSE f.state[x]
      /\ \A x \in Entries : h.old[x] = IF x \in entries /\ new \in Idle THEN new ELSE f.old[x]
      /\ QueueKept(f, h) /\ PartiesKept(f, h) /\ h.check = f.check
  BY <1>1, <1>2, SetStateIs
<1>4. \A x \in Entries : \/ h.state[x] = f.state[x]
                         \/ h.state[x] \in Idle /\ f.state[x] \in Idle
  BY <1>3
<1>5. PartiesApart(h)
  BY <1>1, <1>3 DEF PartiesApart, PartiesKept
<1>6. Synced(h)
  <2>1. ASSUME NEW g \in Groups, NEW p \in ToSet(h.party[g])
        PROVE  h.state[p] = h.state[g] \/ (h.state[p] \in Idle /\ h.state[g] \in Idle)
    <3>1. p \in ToSet(f.party[g])
      BY <1>3, <2>1 DEF PartiesKept
    <3>2. p \in Entries /\ g \in Entries
      BY <1>1, <3>1, PartyHas, Kinds
    <3>3. f.state[p] = f.state[g] \/ (f.state[p] \in Idle /\ f.state[g] \in Idle)
      BY <1>1, <3>1 DEF Synced
    <3> QED BY <1>4, <3>2, <3>3
  <2>2. ASSUME NEW g \in Groups, h.party[g] = <<>> PROVE h.state[g] \in Idle
    BY <1>1, <1>3, <1>4, <2>2, Kinds DEF Synced, PartiesKept
  <2> QED BY <2>1, <2>2 DEF Synced
<1>7. \A e \in Entries : IsEntry(h, e) = IsEntry(f, e) /\ Folk(h, e) = Folk(f, e)
  BY <1>3 DEF IsEntry, Folk, PartiesKept
<1>8. SameQueue(f, h)
  BY <1>3 DEF SameQueue, QueueKept
<1>9. Core(h)
  BY <1>3, <1>4, <1>5, <1>6, <1>7, <1>8, PartiesChange
<1> QED BY <1>3, <1>4, <1>9 DEF IdlesChanged

LEMMA Waiting3 ==
  "ROLECHECK" \notin Idle /\ "QUEUED" \notin Idle /\ "PROPOSAL" \notin Idle
  /\ "NONE" \in Idle /\ "DUNGEON" \in Idle /\ "FINISHED" \in Idle
BY DEF Idle

\* A player is asked in the name of the entry he belongs to.
LEMMA AskedAs ==
  ASSUME NEW f, Core(f), NEW d \in Entries, IsEntry(f, d), NEW p \in Folk(f, d),
         NEW i \in 1..Len(f.proposals), p \in DOMAIN f.proposals[i].answer
  PROVE  f.proposals[i].entry[p] = d
<1> DEFINE c == f.proposals[i].entry[p]
<1>1. f \in Finders /\ PartiesApart(f)
  BY CoreIs
<1>2. Holds(f, f.proposals[i], ToSet(f.proposals[i].queues))
  BY ProposalHas
<1>3. c \in Entries /\ IsEntry(f, c) /\ p \in Folk(f, c)
  BY <1>2 DEF Holds
<1> HIDE DEF c
<1>4. c = d
  BY <1>1, <1>3, FolkApart
<1> QED BY <1>4 DEF c

\* Who is in a proposal can find it.
LEMMA AskedSomewhere ==
  ASSUME NEW f, Core(f), NEW d \in Entries, IsEntry(f, d), f.state[d] = "PROPOSAL", NEW p \in Folk(f, d),
         NEW i, i = Min({j \in 1..Len(f.proposals) : p \in DOMAIN f.proposals[j].answer})
  PROVE  /\ \E j \in 1..Len(f.proposals) : p \in DOMAIN f.proposals[j].answer
         /\ i \in 1..Len(f.proposals) /\ p \in DOMAIN f.proposals[i].answer
         /\ f.proposals[i].entry[p] = d
<1> DEFINE asking == {j \in 1..Len(f.proposals) : p \in DOMAIN f.proposals[j].answer}
<1>1. Proposed(f, d)
  BY DEF Core, Where
<1>2. PICK j \in 1..Len(f.proposals) : d \in ToSet(f.proposals[j].queues)
  BY <1>1 DEF Proposed
<1>3. Holds(f, f.proposals[j], ToSet(f.proposals[j].queues))
  BY ProposalHas
<1>4. j \in asking
  BY <1>2, <1>3 DEF Holds
<1>5. asking \subseteq Nat
  OBVIOUS
<1>6. i = Min(asking)
  OBVIOUS
<1> HIDE DEF asking
<1>7. i \in asking
  BY <1>4, <1>5, <1>6, MinIn
<1>8. i \in 1..Len(f.proposals) /\ p \in DOMAIN f.proposals[i].answer
  BY <1>7 DEF asking
<1> QED BY <1>4, <1>8, AskedAs DEF asking

LEMMA LeaveLfgKeeps ==
  ASSUME NEW f, Core(f), NEW e \in Entries, e \in Groups => f.party[e] # <<>>,
         NEW h, h = LeaveLfg(f, e)
  PROVE  LeftFinder(f, e, h)
<1> DEFINE g == IF e \in Groups THEN e ELSE GroupOf(f, e)
           p == IF e \in Groups THEN f.party[g][1] ELSE e
           whole == IF g = NoGroup THEN {e} ELSE Members(f, g) \cup {g}
           asking == {i \in 1..Len(f.proposals) : p \in DOMAIN f.proposals[i].answer}
           d == EntryFor(f, e)
<1>1. f \in Finders /\ PartiesApart(f) /\ Synced(f) /\ Where(f)
  BY CoreIs
<1>2. /\ d \in Entries /\ IsEntry(f, d) /\ (e = d \/ e \in Folk(f, d))
      /\ f.state[e] = f.state[d] \/ (f.state[e] \in Idle /\ f.state[d] \in Idle)
  BY EntryForIs
<1>3. d = IF g = NoGroup THEN e ELSE g
  BY Kinds DEF EntryFor
<1>4. p \in Folk(f, d)
  <2>1. CASE e \in Groups
    BY <1>1, <2>1, PartyHas DEF EntryFor, Folk
  <2>2. CASE e \notin Groups
    BY <1>2, <2>2, Kinds DEF EntryFor, Folk
  <2> QED BY <2>1, <2>2
<1>5. g # NoGroup => g \in Groups
  BY <1>1, GroupOfIs, Kinds
<1>6. whole = Folk(f, d) \cup {d}
  BY <1>3, <1>5, Kinds DEF Folk, Members
<1>7. h = CASE f.state[e] = "QUEUED" ->
               SetState(RemoveFromQueue(f, {d}), whole, "NONE")
          [] f.state[e] = "ROLECHECK" ->
               IF g \in DOMAIN f.check THEN RoleChecksFail(f, {g}) ELSE f
          [] f.state[e] = "PROPOSAL" ->
               IF asking # {} THEN Deny(f, Min(asking), p) ELSE f
          [] f.state[e] \in {"DUNGEON", "FINISHED"} ->
               IF e \in Players THEN SetState(f, {e}, "NONE") ELSE f
          [] OTHER -> f
  BY <1>3 DEF LeaveLfg
<1> HIDE DEF g, p, whole, asking, d
<1>8. CASE f.state[e] = "QUEUED"
  <2>1. h = SetState(RemoveFromQueue(f, {d}), Folk(f, d) \cup {d}, "NONE")
    BY <1>6, <1>7, <1>8
  <2>2. f.state[d] = "QUEUED"
    BY <1>2, <1>8, Waiting3
  <2>3. Core(h) /\ Calm(f, h) /\ h.state[d] \in Idle
        /\ \A x \in Entries : f.state[x] \in Idle => h.state[x] \in Idle
    BY <1>2, <2>1, <2>2, QueueLeftKeeps
  <2> QED BY <2>3, LeftFinderIs DEF d
<1>9. CASE f.state[e] = "ROLECHECK"
  <2>1. f.state[d] = "ROLECHECK"
    BY <1>2, <1>9, Waiting3
  <2>2. d \in DOMAIN f.check /\ DOMAIN f.check \subseteq Groups
    BY <1>1, <1>2, <2>1, FieldsOf, PartialIs DEF Where
  <2>3. g = d
    BY <1>3, <2>2, Kinds DEF g
  <2>4. h = RoleChecksFail(f, {d})
    BY <1>7, <1>9, <2>2, <2>3
  <2> DEFINE groups == {d}
  <2>5. groups \in SUBSET DOMAIN f.check /\ h = RoleChecksFail(f, groups) /\ d \in groups
    BY <2>2, <2>4
  <2> HIDE DEF groups
  <2>6. Core(h) /\ Calm(f, h) /\ h.state[d] \in Idle
        /\ \A x \in Entries : f.state[x] \in Idle => h.state[x] \in Idle
    BY <2>5, RoleChecksFailKeeps
  <2> QED BY <2>6, LeftFinderIs DEF d
<1>10. CASE f.state[e] = "PROPOSAL"
  <2>1. f.state[d] = "PROPOSAL"
    BY <1>2, <1>10, Waiting3
  <2> DEFINE i == Min(asking)
  <2>2. i = Min({j \in 1..Len(f.proposals) : p \in DOMAIN f.proposals[j].answer})
    BY DEF asking
  <2> HIDE DEF i
  <2>3. /\ \E j \in 1..Len(f.proposals) : p \in DOMAIN f.proposals[j].answer
        /\ i \in 1..Len(f.proposals) /\ p \in DOMAIN f.proposals[i].answer
        /\ f.proposals[i].entry[p] = d
    BY <1>2, <1>4, <2>1, <2>2, AskedSomewhere
  <2>4. asking # {}
    BY <2>3 DEF asking
  <2>5. h = Deny(f, i, p)
    BY <1>7, <1>10, <2>4 DEF i
  <2>6. /\ Core(h) /\ Calm(f, h) /\ h.state[d] \in Idle
        /\ \A x \in Entries : f.state[x] \in Idle => h.state[x] \in Idle
    BY <2>3, <2>5, DenyKeeps
  <2> QED BY <2>6, LeftFinderIs DEF d
<1>11. CASE f.state[e] \in {"DUNGEON", "FINISHED"} /\ e \in Players
  <2> DEFINE one == {e}
  <2>1. h = SetState(f, one, "NONE") /\ f.state[e] \in Idle
    BY <1>7, <1>11, Waiting3
  <2>2. \A x \in Entries : x \in one => f.state[x] \in Idle
    BY <2>1
  <2>3. \A x : x \in one <=> x = e
    OBVIOUS
  <2> HIDE DEF one
  <2>4. "NONE" \in Idle
    BY Waiting3
  <2>5. IdlesChanged(f, one, "NONE", h)
    BY <2>1, <2>2, <2>4, IdlesChange
  <2>6. /\ Core(h) /\ QueueKept(f, h) /\ PartiesKept(f, h) /\ h.check = f.check
        /\ \A x \in Entries : h.old[x] = IF x \in one THEN "NONE" ELSE f.old[x]
        /\ \A x \in Entries : f.state[x] \in Idle => h.state[x] \in Idle
    BY <2>5 DEF IdlesChanged
  <2>7. Calm(f, h)
    BY <2>4, <2>6, Kinds DEF Calm, QueueKept
  <2>8. h.state[d] \in Idle
    BY <1>2, <2>1, <2>6, Waiting3
  <2> QED BY <2>6, <2>7, <2>8, LeftFinderIs DEF d
<1>12. CASE f.state[e] \in Idle /\ ~ (f.state[e] \in {"DUNGEON", "FINISHED"} /\ e \in Players)
  <2>1. h = f
    BY <1>7, <1>12 DEF Idle
  <2>2. f.state[d] \in Idle
    BY <1>2, <1>12
  <2>3. Calm(f, f)
    BY DEF Calm, PartiesKept
  <2> QED BY <2>1, <2>2, <2>3, LeftFinderIs DEF d
<1>13. f.state[e] \in {"ROLECHECK", "QUEUED", "PROPOSAL"} \cup Idle
  <2>1. f.state[e] \in States
    BY <1>1, FieldsOf
  <2> QED BY <2>1 DEF States, Idle
<1> QED BY <1>8, <1>9, <1>10, <1>11, <1>12, <1>13, Waiting3

-----------------------------------------------------------------------------
(***************************************************************************)
(* Parties whose members wait for nothing change.                          *)
(***************************************************************************)
WithParties(f, party, made, lfg, invites, invite) ==
  [f EXCEPT !.party = party, !.made = made, !.lfg = lfg, !.invites = invites, !.invite = invite]

PartiesSet(f, party, made, lfg, invites, invite, h) ==
  /\ h \in Finders /\ h.state = f.state /\ h.old = f.old
  /\ QueueKept(f, h) /\ h.check = f.check
  /\ h.party = party /\ h.made = made /\ h.lfg = lfg /\ h.invites = invites
  /\ h.invite = invite

LEMMA PartiesWith ==
  ASSUME NEW f, f \in Finders, NEW party, party \in [Groups -> Seq(Players)],
         NEW made, made \in Nat, NEW lfg, lfg \subseteq Groups, NEW invites, invites \in Nat,
         NEW invite, invite \in [Players -> Players \cup Groups \cup {NoInvite}]
  PROVE  PartiesSet(f, party, made, lfg, invites, invite,
                    WithParties(f, party, made, lfg, invites, invite))
BY DEF WithParties, Finders, QueueKept, PartiesSet

LEMMA PartyChanges ==
  ASSUME NEW f, Core(f), NEW g \in Groups, NEW h \in Finders, SameQueue(f, h), h.check = f.check,
         \A k \in Groups : k # g => /\ h.party[k] = f.party[k]
                                    /\ ToSet(h.party[g]) \cap ToSet(f.party[k]) = {},
         IsInjective(h.party[g]),
         \A x \in Entries : \/ f.state[x] \in Idle /\ h.state[x] \in Idle
                            \/ /\ h.state[x] = f.state[x] /\ x # g
                               /\ x \notin ToSet(f.party[g]) /\ x \notin ToSet(h.party[g])
  PROVE  Core(h)
<1>1. f \in Finders /\ PartiesApart(f) /\ Synced(f)
  BY CoreIs
<1>2. PartiesApart(h)
  <2>1. \A k \in Groups : IsInjective(h.party[k])
    BY <1>1 DEF PartiesApart
  <2>2. \A k, l \in Groups : k # l => ToSet(h.party[k]) \cap ToSet(h.party[l]) = {}
    BY <1>1 DEF PartiesApart
  <2> QED BY <2>1, <2>2 DEF PartiesApart
<1>3. Synced(h)
  <2>1. ASSUME NEW k \in Groups, NEW p \in ToSet(h.party[k])
        PROVE  h.state[p] = h.state[k] \/ (h.state[p] \in Idle /\ h.state[k] \in Idle)
    <3>1. k \in Entries /\ p \in Entries
      BY Kinds, PartyHas
    <3>2. CASE k = g
      BY <2>1, <3>1, <3>2
    <3>3. CASE k # g
      <4>1. f.state[p] = f.state[k] \/ (f.state[p] \in Idle /\ f.state[k] \in Idle)
        BY <1>1, <3>3 DEF Synced
      <4> QED BY <3>1, <4>1
    <3> QED BY <3>2, <3>3
  <2>2. ASSUME NEW k \in Groups, h.party[k] = <<>> PROVE h.state[k] \in Idle
    BY <1>1, <2>2, Kinds DEF Synced
  <2> QED BY <2>1, <2>2 DEF Synced
<1>4. ASSUME NEW e \in Entries, ~ (f.state[e] \in Idle /\ h.state[e] \in Idle)
      PROVE  IsEntry(h, e) = IsEntry(f, e) /\ Folk(h, e) = Folk(f, e) /\ h.state[e] = f.state[e]
  <2>1. h.state[e] = f.state[e] /\ e # g /\ e \notin ToSet(f.party[g]) /\ e \notin ToSet(h.party[g])
    BY <1>4
  <2>2. CASE e \in Groups
    BY <2>1, <2>2 DEF IsEntry, Folk
  <2>3. CASE e \notin Groups
    BY <2>1, <2>3 DEF IsEntry, Folk
  <2> QED BY <2>1, <2>2, <2>3
<1>5. \A e \in Entries : \/ /\ IsEntry(h, e) = IsEntry(f, e) /\ Folk(h, e) = Folk(f, e)
                            /\ \/ h.state[e] = f.state[e]
                               \/ h.state[e] \in Idle /\ f.state[e] \in Idle
                         \/ h.state[e] \in Idle /\ f.state[e] \in Idle
                         \/ ~ IsEntry(h, e) /\ ~ IsEntry(f, e)
  BY <1>4
<1> QED BY <1>2, <1>3, <1>5, PartiesChange

Disbanded(f, g, h) ==
  /\ h \in Finders
  /\ \A x \in Entries : h.state[x] =
       IF x = g \/ (f.state[g] # "PROPOSAL" /\ x \in ToSet(f.party[g])) THEN "NONE" ELSE f.state[x]
  /\ \A x \in Entries : h.old[x] =
       IF x = g \/ (f.state[g] # "PROPOSAL" /\ x \in ToSet(f.party[g])) THEN "NONE" ELSE f.old[x]
  /\ QueueKept(f, h) /\ h.check = f.check /\ h.made = f.made /\ h.invites = f.invites
  /\ h.party[g] = <<>> /\ \A k \in Groups : k # g => h.party[k] = f.party[k]
  /\ h.lfg = f.lfg \ {g}
  /\ \A q \in Players : h.invite[q] = IF f.invite[q] = g THEN NoInvite ELSE f.invite[q]

LEMMA ToldNone ==
  ASSUME NEW f \in Finders, NEW entries, NEW h, h = SetState(f, entries, "NONE")
  PROVE  /\ h \in Finders
         /\ \A x \in Entries : h.state[x] = IF x \in entries THEN "NONE" ELSE f.state[x]
         /\ \A x \in Entries : h.old[x] = IF x \in entries THEN "NONE" ELSE f.old[x]
         /\ QueueKept(f, h) /\ PartiesKept(f, h) /\ h.check = f.check
<1>1. PICK new \in Idle : new = "NONE"
  BY Waiting3
<1>2. new \in States
  BY DEF Idle, States
<1>3. /\ h \in Finders
      /\ \A x \in Entries : h.state[x] = IF x \in entries THEN new ELSE f.state[x]
      /\ \A x \in Entries : h.old[x] = IF x \in entries /\ new \in Idle THEN new ELSE f.old[x]
      /\ QueueKept(f, h) /\ PartiesKept(f, h) /\ h.check = f.check
  BY <1>1, <1>2, SetStateIs
<1> QED BY <1>1, <1>3

LEMMA DisbandIs ==
  ASSUME NEW f \in Finders, NEW g \in Groups
  PROVE  Disbanded(f, g, Disband(f, g))
<1> DEFINE members == Members(f, g)
           freed == IF f.state[g] = "PROPOSAL" THEN f ELSE SetState(f, members, "NONE")
           one == {g}
           told == SetState(freed, one, "NONE")
           party == [told.party EXCEPT ![g] = <<>>]
           lfg == told.lfg \ {g}
           invite == [p \in Players |-> IF told.invite[p] = g THEN NoInvite ELSE told.invite[p]]
           h == Disband(f, g)
<1>1. members = ToSet(f.party[g]) /\ (\A x : x \in one <=> x = g)
  BY Kinds DEF Members
<1>2. h = [told EXCEPT !.party = party, !.lfg = lfg, !.invite = invite]
  <2>1. told \in Finders
    <3> HIDE DEF one, members
    <3>1. freed \in Finders
      BY ToldNone
    <3> HIDE DEF freed
    <3> QED BY <3>1, ToldNone
  <2>2. h = [told EXCEPT !.party[g] = <<>>, !.lfg = @ \ {g},
                         !.invite = [p \in Players |-> IF @[p] = g THEN NoInvite ELSE @[p]]]
    BY DEF Disband
  <2> HIDE DEF told
  <2> QED BY <2>1, <2>2 DEF Finders
<1> HIDE DEF one, members, h
<1>3. /\ freed \in Finders
      /\ \A x \in Entries : freed.state[x] =
           IF f.state[g] # "PROPOSAL" /\ x \in members THEN "NONE" ELSE f.state[x]
      /\ \A x \in Entries : freed.old[x] =
           IF f.state[g] # "PROPOSAL" /\ x \in members THEN "NONE" ELSE f.old[x]
      /\ QueueKept(f, freed) /\ PartiesKept(f, freed) /\ freed.check = f.check
  <2>1. CASE f.state[g] = "PROPOSAL"
    BY <2>1 DEF QueueKept, PartiesKept
  <2>2. CASE f.state[g] # "PROPOSAL"
    <3>1. freed = SetState(f, members, "NONE")
      BY <2>2
    <3> HIDE DEF freed
    <3>2. /\ freed \in Finders
          /\ \A x \in Entries : freed.state[x] = IF x \in members THEN "NONE" ELSE f.state[x]
          /\ \A x \in Entries : freed.old[x] = IF x \in members THEN "NONE" ELSE f.old[x]
          /\ QueueKept(f, freed) /\ PartiesKept(f, freed) /\ freed.check = f.check
      BY <3>1, ToldNone
    <3> QED BY <2>2, <3>2
  <2> QED BY <2>1, <2>2
<1> HIDE DEF freed
<1>4. /\ told \in Finders
      /\ \A x \in Entries : told.state[x] = IF x \in one THEN "NONE" ELSE freed.state[x]
      /\ \A x \in Entries : told.old[x] = IF x \in one THEN "NONE" ELSE freed.old[x]
      /\ QueueKept(freed, told) /\ PartiesKept(freed, told) /\ told.check = freed.check
  BY <1>3, ToldNone
<1> HIDE DEF told
<1>5. h = WithParties(told, party, told.made, lfg, told.invites, invite)
  BY <1>2, <1>4 DEF WithParties, Finders
<1>6. /\ told.party \in [Groups -> Seq(Players)] /\ told.made \in Nat /\ told.lfg \subseteq Groups
      /\ told.invites \in Nat
      /\ told.invite \in [Players -> Players \cup Groups \cup {NoInvite}]
  BY <1>4, FieldsOf
<1>7. /\ party \in [Groups -> Seq(Players)] /\ party[g] = <<>>
      /\ \A k \in Groups : k # g => party[k] = told.party[k]
  BY <1>6
<1>8. /\ invite \in [Players -> Players \cup Groups \cup {NoInvite}]
      /\ \A q \in Players : invite[q] = IF told.invite[q] = g THEN NoInvite ELSE told.invite[q]
  BY <1>6
<1>9. lfg \subseteq Groups /\ lfg = told.lfg \ {g}
  BY <1>6
<1> HIDE DEF party, lfg, invite
<1>10. /\ h \in Finders /\ h.state = told.state /\ h.old = told.old
       /\ QueueKept(told, h) /\ h.check = told.check
       /\ h.party = party /\ h.made = told.made /\ h.lfg = lfg /\ h.invites = told.invites
       /\ h.invite = invite
  <2>1. PartiesSet(told, party, told.made, lfg, told.invites, invite, h)
    BY <1>4, <1>5, <1>6, <1>7, <1>8, <1>9, PartiesWith
  <2> QED BY <2>1 DEF PartiesSet
<1>11. QueueKept(f, h) /\ h.check = f.check /\ h.made = f.made /\ h.invites = f.invites
  BY <1>3, <1>4, <1>10 DEF QueueKept, PartiesKept
<1>12. \A x \in Entries :
         /\ h.state[x] =
              IF x = g \/ (f.state[g] # "PROPOSAL" /\ x \in ToSet(f.party[g])) THEN "NONE" ELSE f.state[x]
         /\ h.old[x] =
              IF x = g \/ (f.state[g] # "PROPOSAL" /\ x \in ToSet(f.party[g])) THEN "NONE" ELSE f.old[x]
  BY <1>1, <1>3, <1>4, <1>10
<1>13. told.party = f.party /\ told.lfg = f.lfg /\ told.invite = f.invite
  BY <1>3, <1>4 DEF PartiesKept
<1>14. Disbanded(f, g, h)
  BY <1>7, <1>8, <1>9, <1>10, <1>11, <1>12, <1>13 DEF Disbanded
<1> QED BY <1>14 DEF h

LEMMA SameQueueIs ==
  ASSUME NEW f, NEW h, QueueKept(f, h)
  PROVE  SameQueue(f, h)
BY DEF QueueKept, SameQueue

\* A party that waits for nothing is dissolved.
LEMMA DisbandKeeps ==
  ASSUME NEW f, Core(f), NEW g \in Groups, f.state[g] \in Idle, NEW h, h = Disband(f, g)
  PROVE  Core(h) /\ \A x \in Entries : f.state[x] \in Idle => h.state[x] \in Idle
<1>1. f \in Finders /\ PartiesApart(f) /\ Synced(f)
  BY CoreIs
<1>2. Disbanded(f, g, h)
  BY <1>1, DisbandIs
<1>3. \A x \in ToSet(f.party[g]) : f.state[x] \in Idle
  BY <1>1 DEF Synced
<1>4. ToSet(h.party[g]) = {} /\ IsInjective(h.party[g])
  <2>1. h.party[g] = <<>>
    BY <1>2 DEF Disbanded
  <2> QED BY <2>1 DEF ToSet, IsInjective
<1>5. \A x \in Entries : \/ f.state[x] \in Idle /\ h.state[x] \in Idle
                         \/ /\ h.state[x] = f.state[x] /\ x # g
                            /\ x \notin ToSet(f.party[g]) /\ x \notin ToSet(h.party[g])
  BY <1>2, <1>3, <1>4, Waiting3 DEF Disbanded
<1>6. /\ h \in Finders /\ SameQueue(f, h) /\ h.check = f.check
      /\ \A k \in Groups : k # g => h.party[k] = f.party[k]
  BY <1>2, SameQueueIs DEF Disbanded
<1>7. Core(h)
  BY <1>4, <1>5, <1>6, PartyChanges
<1> QED BY <1>5, <1>7

FinderOK(f) == Core(f) /\ InvitesOK(f) /\ GroupsOK(f)

\* A player is taken off the list of a party.
Shrunk(f, g, p, h) ==
  /\ h \in Finders /\ h.state = f.state /\ h.old = f.old /\ QueueKept(f, h) /\ h.check = f.check
  /\ h.made = f.made /\ h.lfg = f.lfg /\ h.invites = f.invites /\ h.invite = f.invite
  /\ \A k \in Groups : k # g => h.party[k] = f.party[k]
  /\ ToSet(h.party[g]) = ToSet(f.party[g]) \ {p}
  /\ IsInjective(f.party[g]) => /\ IsInjective(h.party[g])
                                /\ Len(h.party[g]) >= Len(f.party[g]) - 1

LEMMA ShrunkIs ==
  ASSUME NEW f \in Finders, NEW g \in Groups, NEW p \in Players
  PROVE  Shrunk(f, g, p, [f EXCEPT !.party[g] = Without(@, {p})])
<1> DEFINE q == f.party[g]
           one == {p}
           w == Without(q, one)
           party == [f.party EXCEPT ![g] = w]
           h == [f EXCEPT !.party[g] = Without(@, {p})]
<1>1. /\ f.party \in [Groups -> Seq(Players)] /\ f.made \in Nat /\ f.lfg \subseteq Groups
      /\ f.invites \in Nat /\ f.invite \in [Players -> Players \cup Groups \cup {NoInvite}]
  BY FieldsOf
<1>2. q \in Seq(Players)
  BY <1>1
<1>3. w \in Seq(Players) /\ ToSet(w) = ToSet(q) \ one /\ (IsInjective(q) => IsInjective(w))
      /\ \A e : IsInjective(q) /\ one = {e} => Len(w) >= Len(q) - 1
  <2> HIDE DEF one, q
  <2> QED BY <1>2, WithoutIs
<1>4. h = WithParties(f, party, f.made, f.lfg, f.invites, f.invite)
  BY DEF WithParties, Finders
<1>5. one = {p} /\ q = f.party[g]
  OBVIOUS
<1> HIDE DEF w, one, q
<1>6. /\ party \in [Groups -> Seq(Players)] /\ party[g] = w
      /\ \A k \in Groups : k # g => party[k] = f.party[k]
  BY <1>1, <1>3
<1> HIDE DEF party, h
<1>7. PartiesSet(f, party, f.made, f.lfg, f.invites, f.invite, h)
  BY <1>1, <1>4, <1>6, PartiesWith
<1>8. Shrunk(f, g, p, h)
  BY <1>3, <1>5, <1>6, <1>7 DEF Shrunk, PartiesSet
<1> QED BY <1>8 DEF h

LEMMA ShrunkKeeps ==
  ASSUME NEW f, Core(f), NEW g \in Groups, NEW p \in ToSet(f.party[g]), f.state[g] \in Idle,
         NEW h, Shrunk(f, g, p, h)
  PROVE  Core(h) /\ IsEntry(h, p)
<1>1. f \in Finders /\ PartiesApart(f) /\ Synced(f) /\ h \in Finders
  BY CoreIs DEF Shrunk
<1>2. \A x \in ToSet(f.party[g]) : f.state[x] \in Idle
  BY <1>1 DEF Synced
<1>3. \A x \in Entries : \/ f.state[x] \in Idle /\ h.state[x] \in Idle
                         \/ /\ h.state[x] = f.state[x] /\ x # g
                            /\ x \notin ToSet(f.party[g]) /\ x \notin ToSet(h.party[g])
  BY <1>2 DEF Shrunk
<1>4. \A k \in Groups : k # g => /\ h.party[k] = f.party[k]
                                 /\ ToSet(h.party[g]) \cap ToSet(f.party[k]) = {}
  BY <1>1 DEF Shrunk, PartiesApart
<1>5. IsInjective(h.party[g]) /\ SameQueue(f, h) /\ h.check = f.check
  BY <1>1, SameQueueIs DEF Shrunk, PartiesApart
<1>6. Core(h)
  BY <1>1, <1>3, <1>4, <1>5, PartyChanges
<1>7. p \in Players
  BY <1>1, PartyHas
<1>8. p \notin Groups /\ \A k \in Groups : p \notin ToSet(h.party[k])
  BY <1>1, <1>7, Kinds DEF Shrunk, PartiesApart
<1> QED BY <1>6, <1>8 DEF IsEntry

\* What a party that is dissolved leaves.
Ended(f, g, h) ==
  /\ \A x \in Entries : f.state[x] \in Idle => h.state[x] \in Idle
  /\ \A r \in Players : IsEntry(f, r) => IsEntry(h, r)
  /\ \A q \in Players : h.invite[q] = IF f.invite[q] = g THEN NoInvite ELSE f.invite[q]
  /\ \A k \in Groups : k # g => h.party[k] = f.party[k] /\ h.old[k] \in {f.old[k], "NONE"}
  /\ h.old[g] = "NONE" /\ h.party[g] = <<>>
  /\ h.lfg = f.lfg \ {g} /\ h.made = f.made /\ h.proposals = f.proposals

LEMMA EndedKeeps ==
  ASSUME NEW f, FinderOK(f), NEW g \in Groups, f.state[g] \in Idle, NEW h, Ended(f, g, h)
  PROVE  InvitesOK(h) /\ GroupsOK(h)
<1>1. Core(f) /\ InvitesOK(f) /\ GroupsOK(f)
  BY DEF FinderOK
<1>2. \A q \in Players : h.invite[q] = IF f.invite[q] = g THEN NoInvite ELSE f.invite[q]
  BY DEF Ended
<1>3. InvitesOK(h)
  <2>1. ASSUME NEW r \in Players, NEW q \in Players, h.invite[q] = r
        PROVE  h.invite[r] = r /\ IsEntry(h, r) /\ h.state[r] \in Idle
    <3>1. f.invite[q] = r /\ r \in Entries /\ r # g
      BY <1>2, <2>1, FinderAssumption, Kinds
    <3>2. f.invite[r] = r /\ IsEntry(f, r) /\ f.state[r] \in Idle
      BY <1>1, <3>1 DEF InvitesOK
    <3> QED BY <1>2, <3>1, <3>2 DEF Ended
  <2>2. \A r, q, s \in Players : h.invite[q] = r /\ h.invite[s] = r /\ q # r /\ s # r => q = s
    <3>1. NoInvite \notin Players
      BY FinderAssumption, Kinds
    <3> QED BY <1>1, <1>2, <3>1 DEF InvitesOK
  <2>3. \A k \in Groups, q \in Players : h.invite[q] = k => h.party[k] # <<>> /\ k \notin h.lfg
    <3> SUFFICES ASSUME NEW k \in Groups, NEW q \in Players, h.invite[q] = k
                 PROVE  h.party[k] # <<>> /\ k \notin h.lfg
      OBVIOUS
    <3>1. k # g /\ f.invite[q] = k
      BY <1>2, FinderAssumption, Kinds
    <3>2. f.party[k] # <<>> /\ k \notin f.lfg
      BY <1>1, <3>1 DEF InvitesOK
    <3> QED BY <3>1, <3>2 DEF Ended
  <2> QED BY <2>1, <2>2, <2>3 DEF InvitesOK
<1>4. \A i \in 1..Len(f.proposals) : f.proposals[i].group # g
  <2> SUFFICES ASSUME NEW i \in 1..Len(f.proposals), f.proposals[i].group = g PROVE FALSE
    OBVIOUS
  <2>1. Sound(f, f.proposals[i])
    BY <1>1 DEF Core, ProposalsOK
  <2>2. g \in ToSet(f.proposals[i].queues)
    BY <2>1, Kinds DEF Sound
  <2>3. Proposed(f, g)
    BY <2>2 DEF Proposed
  <2> QED BY <1>1, <2>3, ProposedIs, Waiting3
<1>5. GroupsOK(h)
  BY <1>1, <1>4 DEF GroupsOK, Ended
<1> QED BY <1>3, <1>5

\* What a party leaves that goes on without somebody.
GoesOn(f, g, h) ==
  /\ \A x \in Entries : f.state[x] \in Idle => h.state[x] \in Idle
  /\ \A r \in Players : IsEntry(f, r) => IsEntry(h, r)
  /\ h.invite = f.invite /\ h.lfg = f.lfg /\ h.made = f.made /\ h.proposals = f.proposals
  /\ \A k \in Groups : k # g => h.party[k] = f.party[k]
  /\ \A k \in Groups : h.old[k] = f.old[k]
  /\ f.party[g] # <<>> /\ h.party[g] # <<>> /\ (g \notin f.lfg => Len(h.party[g]) >= 2)

LEMMA GoesOnKeeps ==
  ASSUME NEW f, FinderOK(f), NEW g \in Groups, NEW h, GoesOn(f, g, h)
  PROVE  InvitesOK(h) /\ GroupsOK(h)
<1>1. Core(f) /\ InvitesOK(f) /\ GroupsOK(f)
  BY DEF FinderOK
<1>2. InvitesOK(h)
  <2>1. ASSUME NEW r \in Players, NEW q \in Players, h.invite[q] = r
        PROVE  h.invite[r] = r /\ IsEntry(h, r) /\ h.state[r] \in Idle
    <3>1. f.invite[r] = r /\ IsEntry(f, r) /\ f.state[r] \in Idle
      BY <1>1, <2>1 DEF InvitesOK, GoesOn
    <3> QED BY <3>1, Kinds DEF GoesOn
  <2>2. \A k \in Groups : f.party[k] # <<>> => h.party[k] # <<>>
    BY DEF GoesOn
  <2> QED BY <1>1, <2>1, <2>2 DEF InvitesOK, GoesOn
<1>3. GroupsOK(h)
  BY <1>1 DEF GroupsOK, GoesOn
<1> QED BY <1>2, <1>3

MemberLeft(f, g, p, h) ==
  /\ FinderOK(h) /\ h.state[p] \in Idle /\ IsEntry(h, p) /\ h.made = f.made /\ h.invites = f.invites
  /\ \A x \in Entries : f.state[x] \in Idle => h.state[x] \in Idle

\* A player leaves a party and the finder.
LEMMA RemoveMemberKeeps ==
  ASSUME NEW f, FinderOK(f), NEW g \in Groups, NEW p \in ToSet(f.party[g]), NEW default, NEW inside,
         ~ (f.state[g] = "PROPOSAL" /\ default), NEW h, h = RemoveMember(f, g, p, default, inside)
  PROVE  MemberLeft(f, g, p, h)
<1> DEFINE left == OnRemoveMember(f, g, p, default)
           rest == [left EXCEPT !.party[g] = Without(@, {p})]
           lfg == g \in f.lfg
           size == Len(f.party[g])
           ends == \/ size <= (IF lfg THEN 1 ELSE 2)
                   \/ lfg /\ size = 2 /\ ~(inside /\ left.old[g] # "NONE")
<1>1. Core(f) /\ InvitesOK(f) /\ GroupsOK(f) /\ f \in Finders /\ PartiesApart(f)
  BY CoreIs DEF FinderOK
<1>2. p \in Players /\ p \in Entries /\ g \in Entries /\ p \notin Groups /\ size \in Nat
  BY <1>1, PartyHas, Kinds
<1>3. left = LeaveLfg(f, p)
  BY DEF OnRemoveMember
<1>4. EntryFor(f, p) = g
  BY <1>1, <1>2, GroupOfIs, Kinds DEF EntryFor
<1>5. h = IF ends THEN Disband(rest, g) ELSE rest
  BY DEF RemoveMember
<1> HIDE DEF left
<1>6. LeftFinder(f, p, left)
  BY <1>1, <1>2, <1>3, LeaveLfgKeeps
<1>7. /\ Core(left) /\ Calm(f, left) /\ left.state[p] \in Idle /\ left.state[g] \in Idle
      /\ \A x \in Entries : f.state[x] \in Idle => left.state[x] \in Idle
  BY <1>4, <1>6 DEF LeftFinder
<1>8. InvitesOK(left) /\ GroupsOK(left)
  BY <1>1, <1>7, CalmKeeps
<1>9. left \in Finders /\ left.party = f.party /\ left.lfg = f.lfg /\ left.made = f.made
      /\ left.invites = f.invites
  BY <1>7, CoreIs DEF Calm, PartiesKept
<1>10. Shrunk(left, g, p, rest)
  BY <1>2, <1>9, ShrunkIs
<1> HIDE DEF rest
<1>11. Core(rest) /\ IsEntry(rest, p)
  BY <1>7, <1>9, <1>10, ShrunkKeeps
<1>12. \A r \in Players : IsEntry(left, r) => IsEntry(rest, r)
  BY <1>10, Kinds DEF Shrunk, IsEntry
<1>13. ASSUME ~ ends PROVE InvitesOK(rest) /\ GroupsOK(rest)
  <2>1. Len(rest.party[g]) >= size - 1 /\ Len(rest.party[g]) \in Nat
    BY <1>1, <1>9, <1>10, <1>11, CoreIs, PartyHas DEF Shrunk, PartiesApart
  <2>2. Len(rest.party[g]) >= 1 /\ (g \notin f.lfg => Len(rest.party[g]) >= 2)
    BY <1>2, <1>13, <2>1
  <2>3. rest.party[g] # <<>>
    BY <1>11, <2>2, CoreIs, PartyHas
  <2>4. left.party[g] # <<>>
    BY <1>9 DEF ToSet
  <2>5. GoesOn(left, g, rest)
    BY <1>9, <1>10, <1>12, <2>2, <2>3, <2>4 DEF GoesOn, Shrunk, QueueKept
  <2> QED BY <1>7, <1>8, <2>5, GoesOnKeeps DEF FinderOK
<1>14. ASSUME ends PROVE Core(h) /\ InvitesOK(h) /\ GroupsOK(h) /\ IsEntry(h, p) /\ h.state[p] \in Idle
                         /\ h.made = f.made /\ h.invites = f.invites
                         /\ \A x \in Entries : f.state[x] \in Idle => h.state[x] \in Idle
  <2>1. h = Disband(rest, g) /\ rest.state = left.state
    BY <1>5, <1>10, <1>14 DEF Shrunk
  <2>2. Core(h) /\ \A x \in Entries : rest.state[x] \in Idle => h.state[x] \in Idle
    BY <1>7, <1>11, <2>1, DisbandKeeps
  <2>3. Disbanded(rest, g, h)
    BY <1>11, <2>1, CoreIs, DisbandIs
  <2>4. \A r \in Players : IsEntry(rest, r) => IsEntry(h, r)
    <3>1. h.party[g] = <<>> /\ \A k \in Groups : k # g => h.party[k] = rest.party[k]
      BY <2>3 DEF Disbanded
    <3>2. ToSet(h.party[g]) = {}
      BY <3>1 DEF ToSet
    <3> QED BY <3>1, <3>2, Kinds DEF IsEntry
  <2>5. \A q \in Players : h.invite[q] = IF left.invite[q] = g THEN NoInvite ELSE left.invite[q]
    BY <1>10, <2>3 DEF Shrunk, Disbanded
  <2>6. InvitesOK(h) /\ GroupsOK(h)
    <3>1. /\ \A k \in Groups : k # g => h.party[k] = left.party[k] /\ h.old[k] \in {left.old[k], "NONE"}
          /\ h.old[g] = "NONE" /\ h.party[g] = <<>>
          /\ h.lfg = left.lfg \ {g} /\ h.made = left.made /\ h.proposals = left.proposals
      BY <1>10, <2>3, Kinds DEF Shrunk, Disbanded, QueueKept
    <3>2. \A x \in Entries : left.state[x] \in Idle => h.state[x] \in Idle
      BY <2>1, <2>2
    <3>3. \A r \in Players : IsEntry(left, r) => IsEntry(h, r)
      BY <1>12, <2>4
    <3>4. FinderOK(left)
      BY <1>7, <1>8 DEF FinderOK
    <3>5. Ended(left, g, h)
      BY <2>5, <3>1, <3>2, <3>3 DEF Ended
    <3> QED BY <1>7, <3>4, <3>5, EndedKeeps
  <2>8. h.made = f.made /\ h.invites = f.invites
    BY <1>9, <1>10, <2>3 DEF Shrunk, Disbanded
  <2> QED BY <1>2, <1>7, <1>11, <2>1, <2>2, <2>4, <2>6, <2>8
<1>15. CASE ends
  BY <1>14, <1>15 DEF MemberLeft, FinderOK
<1>16. CASE ~ ends
  <2>1. h = rest
    BY <1>5, <1>16
  <2>2. rest.state = left.state /\ rest.made = f.made /\ rest.invites = f.invites
    BY <1>9, <1>10 DEF Shrunk
  <2> QED BY <1>7, <1>11, <1>13, <1>16, <2>1, <2>2 DEF MemberLeft, FinderOK
<1> QED BY <1>15, <1>16

\* Who waits for nothing goes on to, no group is told more than it was, and the
\* proposals are about the same groups of the finder.
Quiet(f, h) ==
  /\ \A x \in Entries : f.state[x] \in Idle => h.state[x] \in Idle
  /\ \A k \in Groups : h.old[k] = f.old[k] \/ h.old[k] = "NONE"
  /\ (\A i \in 1..Len(f.proposals) : f.proposals[i].group \in f.lfg \cup {NoGroup}) =>
     \A i \in 1..Len(h.proposals) : h.proposals[i].group \in f.lfg \cup {NoGroup}

AddedTo(f, g, p, h) ==
  /\ Core(h) /\ Quiet(f, h) /\ h.state[p] \in Idle /\ h.state[g] \in Idle
  /\ h.made = f.made /\ h.lfg = f.lfg /\ h.invites = f.invites
  /\ h.party[g] = Append(f.party[g], p) /\ h.party[g] # <<>>
  /\ Len(h.party[g]) = Len(f.party[g]) + 1
  /\ \A k \in Groups : k # g => h.party[k] = f.party[k]
  /\ \A q \in Players : h.invite[q] = IF q = p THEN NoInvite ELSE f.invite[q]
  /\ \A r \in Players : r # p /\ IsEntry(f, r) => IsEntry(h, r)
  /\ f.party[g] = <<>> => h.state = f.state

LEMMA QuietIs ==
  ASSUME NEW f, NEW e, NEW h, LeftFinder(f, e, h)
  PROVE  Core(h) /\ Quiet(f, h) /\ PartiesKept(f, h)
BY DEF LeftFinder, Calm, Quiet

LEMMA OnAddMemberKeeps ==
  ASSUME NEW f, Core(f), NEW g \in Groups, NEW p \in Players, IsEntry(f, p),
         f.state[p] \notin {"ROLECHECK", "PROPOSAL"}, f.state[g] \notin {"ROLECHECK", "PROPOSAL"},
         f.party[g] # <<>>, NEW h, h = OnAddMember(f, g, p)
  PROVE  Core(h) /\ Quiet(f, h) /\ PartiesKept(f, h) /\ h.state[p] \in Idle /\ h.state[g] \in Idle
<1> DEFINE alone == IF f.state[p] = "QUEUED" THEN LeaveLfg(f, p) ELSE f
<1>1. f \in Finders /\ p \in Entries /\ g \in Entries /\ p \notin Groups
  BY CoreIs, Kinds
<1>2. f.state[p] \in Idle \cup {"QUEUED"} /\ f.state[g] \in Idle \cup {"QUEUED"}
  <2>1. f.state[p] \in States /\ f.state[g] \in States
    BY <1>1, FieldsOf
  <2> QED BY <2>1 DEF States, Idle
<1>3. h = IF f.state[g] = "QUEUED" THEN LeaveLfg(alone, g) ELSE alone
  BY DEF OnAddMember
<1>4. Core(alone) /\ Quiet(f, alone) /\ PartiesKept(f, alone) /\ alone.state[p] \in Idle
  <2>1. CASE f.state[p] = "QUEUED"
    <3>1. alone = LeaveLfg(f, p)
      BY <2>1
    <3> HIDE DEF alone
    <3>2. LeftFinder(f, p, alone)
      BY <1>1, <3>1, LeaveLfgKeeps
    <3> QED BY <3>2, QuietIs DEF LeftFinder
  <2>2. CASE f.state[p] # "QUEUED"
    BY <1>2, <2>2 DEF Quiet, PartiesKept
  <2> QED BY <2>1, <2>2
<1> HIDE DEF alone
<1>5. CASE f.state[g] = "QUEUED"
  <2>1. h = LeaveLfg(alone, g)
    BY <1>3, <1>5
  <2>2. alone.party[g] # <<>>
    BY <1>4 DEF PartiesKept
  <2>3. LeftFinder(alone, g, h)
    BY <1>1, <1>4, <2>1, <2>2, LeaveLfgKeeps
  <2>4. Core(h) /\ Quiet(alone, h) /\ PartiesKept(alone, h) /\ h.state[g] \in Idle
    BY <2>3, QuietIs DEF LeftFinder
  <2>5. Quiet(f, h) /\ PartiesKept(f, h)
    BY <1>4, <2>4 DEF Quiet, PartiesKept
  <2>6. h.state[p] \in Idle
    BY <1>1, <1>4, <2>4 DEF Quiet
  <2> QED BY <2>4, <2>5, <2>6
<1>6. CASE f.state[g] # "QUEUED"
  BY <1>1, <1>2, <1>3, <1>4, <1>6 DEF Quiet
<1> QED BY <1>5, <1>6

\* A player enters a party, and the finder lets both go.
LEMMA AddMemberKeeps ==
  ASSUME NEW f, Core(f), NEW g \in Groups, NEW p \in Players, IsEntry(f, p),
         f.state[p] \notin {"ROLECHECK", "PROPOSAL"}, f.state[g] \notin {"ROLECHECK", "PROPOSAL"},
         f.party[g] = <<>> => f.state[p] \in Idle,
         NEW h, h = AddMember(f, g, p)
  PROVE  AddedTo(f, g, p, h)
<1> DEFINE added == IF f.party[g] = <<>> THEN f ELSE OnAddMember(f, g, p)
           q == added.party[g]
           party == [added.party EXCEPT ![g] = Append(q, p)]
           invite == [added.invite EXCEPT ![p] = NoInvite]
<1>1. f \in Finders /\ Synced(f) /\ p \in Entries /\ g \in Entries /\ p \notin Groups
  BY CoreIs, Kinds
<1>2. Core(added) /\ Quiet(f, added) /\ PartiesKept(f, added)
      /\ added.state[p] \in Idle /\ added.state[g] \in Idle
  <2>1. CASE f.party[g] = <<>>
    <3>1. f.state[g] \in Idle
      BY <1>1, <2>1 DEF Synced
    <3> QED BY <2>1, <3>1 DEF Quiet, PartiesKept
  <2>2. CASE f.party[g] # <<>>
    <3>1. added = OnAddMember(f, g, p)
      BY <2>2
    <3> HIDE DEF added
    <3> QED BY <2>2, <3>1, OnAddMemberKeeps
  <2> QED BY <2>1, <2>2
<1>3. h = [added EXCEPT !.party[g] = Append(@, p), !.invite[p] = NoInvite]
  BY DEF AddMember
<1> HIDE DEF added
<1>4. added \in Finders /\ PartiesApart(added) /\ Synced(added)
  BY <1>2, CoreIs
<1>5. /\ added.party \in [Groups -> Seq(Players)] /\ added.made \in Nat /\ added.lfg \subseteq Groups
      /\ added.invites \in Nat
      /\ added.invite \in [Players -> Players \cup Groups \cup {NoInvite}]
  BY <1>4, FieldsOf
<1>6. h = WithParties(added, party, added.made, added.lfg, added.invites, invite)
  BY <1>3, <1>4 DEF WithParties, Finders
<1>7. q \in Seq(Players) /\ q = f.party[g] /\ p \notin ToSet(q) /\ IsInjective(q)
  BY <1>1, <1>2, <1>4, <1>5 DEF PartiesKept, IsEntry, PartiesApart
<1> DEFINE r == Append(q, p)
<1> HIDE DEF q
<1>8. /\ r \in Seq(Players) /\ Len(r) = Len(q) + 1 /\ ToSet(r) = ToSet(q) \cup {p} /\ IsInjective(r)
      /\ r # <<>>
  <2>1. /\ r \in Seq(Players) /\ Len(r) = Len(q) + 1 /\ ToSet(r) = ToSet(q) \cup {p}
        /\ IsInjective(r)
    BY <1>7, AppendIs
  <2>2. ToSet(<<>>) = {}
    BY DEF ToSet
  <2> QED BY <2>1, <2>2
<1>9. party = [added.party EXCEPT ![g] = r]
  OBVIOUS
<1>10. r = Append(f.party[g], p)
  BY <1>7
<1> HIDE DEF r, party
<1>11. /\ party \in [Groups -> Seq(Players)] /\ party[g] = r
       /\ \A k \in Groups : k # g => party[k] = f.party[k]
  BY <1>2, <1>5, <1>8, <1>9 DEF PartiesKept
<1>12. /\ invite \in [Players -> Players \cup Groups \cup {NoInvite}]
       /\ \A x \in Players : invite[x] = IF x = p THEN NoInvite ELSE f.invite[x]
  BY <1>2, <1>5 DEF PartiesKept
<1> HIDE DEF invite
<1>13. PartiesSet(added, party, added.made, added.lfg, added.invites, invite, h)
  <2>1. party \in [Groups -> Seq(Players)]
    BY <1>11
  <2>2. invite \in [Players -> Players \cup Groups \cup {NoInvite}]
    BY <1>12
  <2>3. /\ added.made \in Nat /\ added.lfg \subseteq Groups /\ added.invites \in Nat
    BY <1>5
  <2>4. PartiesSet(added, party, added.made, added.lfg, added.invites, invite,
                   WithParties(added, party, added.made, added.lfg, added.invites, invite))
    BY <1>4, <2>1, <2>2, <2>3, PartiesWith
  <2> QED BY <1>6, <2>4
<1>14. Core(h)
  <2>1. h \in Finders /\ SameQueue(added, h) /\ h.check = added.check /\ h.party = party
        /\ h.state = added.state
    BY <1>13, SameQueueIs DEF PartiesSet
  <2>2. \A k \in Groups : k # g => /\ h.party[k] = added.party[k]
                                   /\ ToSet(h.party[g]) \cap ToSet(added.party[k]) = {}
    <3> SUFFICES ASSUME NEW k \in Groups, k # g
                 PROVE  /\ h.party[k] = added.party[k]
                        /\ ToSet(h.party[g]) \cap ToSet(added.party[k]) = {}
      OBVIOUS
    <3>1. h.party[k] = added.party[k] /\ added.party[k] = f.party[k]
      BY <1>2, <1>11, <2>1 DEF PartiesKept
    <3>2. p \notin ToSet(f.party[k])
      BY <1>1 DEF IsEntry
    <3>3. ToSet(added.party[g]) \cap ToSet(added.party[k]) = {}
      BY <1>4 DEF PartiesApart
    <3>4. h.party[g] = r /\ added.party[g] = q
      BY <1>11, <2>1 DEF q
    <3> QED BY <1>8, <3>1, <3>2, <3>3, <3>4
  <2>3. \A x \in ToSet(q) : added.state[x] \in Idle
    BY <1>2, <1>4 DEF Synced, q
  <2>4. \A x \in Entries :
           \/ added.state[x] \in Idle /\ h.state[x] \in Idle
           \/ /\ h.state[x] = added.state[x] /\ x # g
              /\ x \notin ToSet(added.party[g]) /\ x \notin ToSet(h.party[g])
    <3>1. h.party[g] = r /\ added.party[g] = q
      BY <1>11, <2>1 DEF q
    <3> QED BY <1>2, <1>8, <2>1, <2>3, <3>1
  <2>5. IsInjective(h.party[g])
    BY <1>8, <1>11, <2>1
  <2> QED BY <1>2, <2>1, <2>2, <2>4, <2>5, PartyChanges
<1>15. Quiet(f, h)
  BY <1>2, <1>13 DEF Quiet, PartiesSet, QueueKept
<1>16. /\ h.made = f.made /\ h.lfg = f.lfg /\ h.invites = f.invites
       /\ h.state[p] \in Idle /\ h.state[g] \in Idle /\ h.invite = invite /\ h.party = party
  BY <1>2, <1>13 DEF PartiesSet, PartiesKept
<1>17. h.party[g] = Append(f.party[g], p) /\ h.party[g] # <<>> /\ Len(h.party[g]) = Len(f.party[g]) + 1
  BY <1>7, <1>8, <1>10, <1>11, <1>16
<1>18. \A x \in Players : x # p /\ IsEntry(f, x) => IsEntry(h, x)
  <2> SUFFICES ASSUME NEW x \in Players, x # p, IsEntry(f, x), NEW k \in Groups, x \in ToSet(h.party[k])
               PROVE  FALSE
    BY Kinds DEF IsEntry
  <2>1. x \notin ToSet(f.party[k])
    BY Kinds DEF IsEntry
  <2>2. CASE k = g
    <3>1. ToSet(h.party[k]) = ToSet(f.party[g]) \cup {p}
      BY <1>7, <1>8, <1>11, <1>16, <2>2
    <3> QED BY <2>1, <2>2, <3>1
  <2>3. CASE k # g
    BY <1>11, <1>16, <2>1, <2>3
  <2> QED BY <2>2, <2>3
<1>19. \A x \in Players : h.invite[x] = IF x = p THEN NoInvite ELSE f.invite[x]
  BY <1>12, <1>16
<1>20. \A k \in Groups : k # g => h.party[k] = f.party[k]
  BY <1>11, <1>16
<1>21. f.party[g] = <<>> => h.state = f.state
  BY <1>13 DEF PartiesSet, added
<1> QED BY <1>14, <1>15, <1>16, <1>17, <1>18, <1>19, <1>20, <1>21 DEF AddedTo

\* Only the invitations change and the number of the last group.
LEMMA InviteChanges ==
  ASSUME NEW f, Core(f), NEW h, NEW made, NEW invites, NEW invite,
         PartiesSet(f, f.party, made, f.lfg, invites, invite, h)
  PROVE  Core(h) /\ Quiet(f, h)
<1>1. PartiesApart(h) /\ Synced(h) /\ \A e \in Entries : IsEntry(h, e) = IsEntry(f, e) /\ Folk(h, e) = Folk(f, e)
  BY CoreIs DEF PartiesSet, PartiesApart, Synced, IsEntry, Folk
<1>2. SameQueue(f, h) /\ h \in Finders /\ h.check = f.check /\ h.state = f.state
  BY SameQueueIs DEF PartiesSet
<1>3. Core(h)
  BY <1>1, <1>2, PartiesChange
<1> QED BY <1>3 DEF Quiet, PartiesSet, QueueKept

-----------------------------------------------------------------------------
(***************************************************************************)
(* The handlers that change parties.                                       *)
(***************************************************************************)
Uninvited(f, h) ==
  /\ FinderOK(h) /\ QueueKept(f, h) /\ h.state = f.state /\ h.old = f.old /\ h.check = f.check
  /\ h.party = f.party /\ h.lfg = f.lfg /\ h.made = f.made

LEMMA UninvitedIs ==
  ASSUME NEW f, FinderOK(f), NEW invite \in [Players -> Players \cup Groups \cup {NoInvite}],
         NEW h, h = [f EXCEPT !.invite = invite],
         \A q \in Players : invite[q] \in {f.invite[q], NoInvite},
         \A q, r \in Players : f.invite[q] = r /\ invite[q] = r /\ f.invite[r] = r => invite[r] = r
  PROVE  Uninvited(f, h)
<1>1. Core(f) /\ InvitesOK(f) /\ GroupsOK(f) /\ f \in Finders
  BY CoreIs DEF FinderOK
<1>2. /\ f.party \in [Groups -> Seq(Players)] /\ f.made \in Nat /\ f.lfg \subseteq Groups
      /\ f.invites \in Nat
  BY <1>1, FieldsOf
<1>3. h = WithParties(f, f.party, f.made, f.lfg, f.invites, invite)
  BY <1>1 DEF WithParties, Finders
<1>4. PartiesSet(f, f.party, f.made, f.lfg, f.invites, invite, h)
  BY <1>1, <1>2, <1>3, PartiesWith
<1>5. Core(h)
  BY <1>1, <1>4, InviteChanges
<1>6. \A e : IsEntry(h, e) = IsEntry(f, e)
  BY <1>4 DEF IsEntry, PartiesSet
<1>7. NoInvite \notin Players /\ NoInvite \notin Groups
  BY FinderAssumption, Kinds
<1>8. InvitesOK(h)
  BY <1>1, <1>4, <1>6, <1>7 DEF InvitesOK, PartiesSet
<1>9. GroupsOK(h)
  BY <1>1, <1>4 DEF GroupsOK, PartiesSet, QueueKept
<1> QED BY <1>4, <1>5, <1>8, <1>9 DEF Uninvited, FinderOK, PartiesSet

LEMMA UninviteKeeps ==
  ASSUME NEW f, FinderOK(f), NEW p \in Players, NEW h, h = Uninvite(f, p)
  PROVE  Uninvited(f, h)
<1> DEFINE from == f.invite[p]
<1>1. f \in Finders /\ InvitesOK(f) /\ GroupsOK(f)
  BY CoreIs DEF FinderOK
<1>2. f.invite \in [Players -> Players \cup Groups \cup {NoInvite}]
  BY <1>1, FieldsOf
<1>3. NoInvite \notin Players /\ NoInvite \notin Groups
  BY FinderAssumption, Kinds
<1>4. CASE from = NoInvite
  BY <1>4 DEF Uninvite, Uninvited, QueueKept
<1>5. CASE from \in Players
  <2> DEFINE invite == [q \in Players |-> IF f.invite[q] = from THEN NoInvite ELSE f.invite[q]]
  <2>1. h = [f EXCEPT !.invite = invite]
    BY <1>1, <1>3, <1>5 DEF Uninvite, Finders
  <2>2. invite \in [Players -> Players \cup Groups \cup {NoInvite}]
    BY <1>2
  <2>3. \A q \in Players : invite[q] \in {f.invite[q], NoInvite}
    OBVIOUS
  <2>4. \A q, r \in Players : f.invite[q] = r /\ invite[q] = r /\ f.invite[r] = r => invite[r] = r
    BY <1>3
  <2> HIDE DEF invite
  <2> QED BY <2>1, <2>2, <2>3, <2>4, UninvitedIs
<1>6. CASE from \in Groups
  <2> DEFINE invite == [f.invite EXCEPT ![p] = NoInvite]
  <2>1. f.party[from] # <<>> /\ from \notin f.lfg
    BY <1>1, <1>6 DEF InvitesOK
  <2>2. Len(f.party[from]) >= 2
    BY <1>1, <1>6, <2>1 DEF GroupsOK
  <2>3. ~ Len(f.party[from]) <= 1
    BY <1>1, <1>6, <2>2, PartyHas
  <2>4. h = [f EXCEPT !.invite = invite]
    <3>1. h = [f EXCEPT !.invite[p] = NoInvite]
      BY <1>1, <1>3, <1>6, <2>3, Kinds DEF Uninvite
    <3> QED BY <1>1, <3>1 DEF Finders
  <2>5. invite \in [Players -> Players \cup Groups \cup {NoInvite}]
    BY <1>2
  <2>6. \A q \in Players : invite[q] \in {f.invite[q], NoInvite}
    BY <1>2
  <2>7. \A q, r \in Players : f.invite[q] = r /\ invite[q] = r /\ f.invite[r] = r => invite[r] = r
    BY <1>2, <1>6, Kinds
  <2> HIDE DEF invite
  <2> QED BY <2>4, <2>5, <2>6, <2>7, UninvitedIs
<1> QED BY <1>2, <1>4, <1>5, <1>6

LEMMA DeclineStep ==
  ASSUME FinderOK(finder), NEW q \in Players, Decline(q)
  PROVE  FinderOK(finder')
BY UninviteKeeps DEF Decline, Uninvited

LEMMA LeaveQueueStep ==
  ASSUME FinderOK(finder), NEW p \in Players, LeaveQueue(p)
  PROVE  FinderOK(finder')
<1> DEFINE g == GroupOf(finder, p)
           e == IF g = NoGroup THEN p ELSE g
<1>1. Core(finder) /\ InvitesOK(finder) /\ GroupsOK(finder) /\ finder \in Finders /\ PartiesApart(finder)
  BY CoreIs DEF FinderOK
<1>2. finder' = LeaveLfg(finder, e)
  BY DEF LeaveQueue
<1>3. e \in Entries /\ (e \in Groups => finder.party[e] # <<>>)
  <2>1. e \in Entries /\ IsEntry(finder, e)
    BY <1>1, EntryOf
  <2> HIDE DEF e
  <2> QED BY <2>1 DEF IsEntry
<1> HIDE DEF e
<1>4. LeftFinder(finder, e, finder')
  BY <1>1, <1>2, <1>3, LeaveLfgKeeps
<1> QED BY <1>1, <1>4, CalmKeeps DEF LeftFinder, FinderOK

LEMMA LeavePartyStep ==
  ASSUME FinderOK(finder), NEW p \in Players, NEW inside, LeaveParty(p, inside)
  PROVE  FinderOK(finder')
<1> DEFINE g == GroupOf(finder, p)
<1>1. finder \in Finders /\ PartiesApart(finder)
  BY CoreIs DEF FinderOK
<1>2. g \in Groups /\ p \in ToSet(finder.party[g])
  BY <1>1, GroupOfIs DEF LeaveParty
<1>3. finder' = RemoveMember(finder, g, p, FALSE, inside)
  BY DEF LeaveParty
<1> HIDE DEF g
<1>4. MemberLeft(finder, g, p, finder')
  BY <1>2, <1>3, RemoveMemberKeeps
<1> QED BY <1>4 DEF MemberLeft

LEMMA LastOneOutStep ==
  ASSUME FinderOK(finder), NEW g \in Groups, LastOneOut(g)
  PROVE  FinderOK(finder')
<1> DEFINE left == LeaveLfg(finder, g)
<1>1. Core(finder) /\ InvitesOK(finder) /\ GroupsOK(finder) /\ finder \in Finders
  BY CoreIs DEF FinderOK
<1>2. finder' = Disband(left, g) /\ left = LeaveLfg(finder, g)
  BY DEF LastOneOut
<1>3. finder.party[g] # <<>>
  BY <1>1, PartyHas DEF LastOneOut
<1> HIDE DEF left
<1>4. LeftFinder(finder, g, left)
  BY <1>1, <1>2, <1>3, Kinds, LeaveLfgKeeps
<1>5. Core(left) /\ left.state[g] \in Idle /\ Calm(finder, left)
  BY <1>4 DEF LeftFinder
<1>6. FinderOK(left)
  BY <1>1, <1>5, CalmKeeps DEF FinderOK
<1>7. Core(finder') /\ \A x \in Entries : left.state[x] \in Idle => finder'.state[x] \in Idle
  BY <1>2, <1>5, DisbandKeeps
<1>8. Disbanded(left, g, finder')
  BY <1>2, <1>5, CoreIs, DisbandIs
<1>9. Ended(left, g, finder')
  <2>1. finder'.party[g] = <<>> /\ \A k \in Groups : k # g => finder'.party[k] = left.party[k]
    BY <1>8 DEF Disbanded
  <2>2. ToSet(finder'.party[g]) = {}
    BY <2>1 DEF ToSet
  <2>3. \A r \in Players : IsEntry(left, r) => IsEntry(finder', r)
    BY <2>1, <2>2, Kinds DEF IsEntry
  <2>4. \A k \in Groups : k # g => finder'.old[k] \in {left.old[k], "NONE"}
    BY <1>8, Kinds DEF Disbanded
  <2>5. /\ \A q \in Players : finder'.invite[q] = IF left.invite[q] = g THEN NoInvite ELSE left.invite[q]
        /\ finder'.old[g] = "NONE"
        /\ finder'.lfg = left.lfg \ {g} /\ finder'.made = left.made /\ finder'.proposals = left.proposals
    BY <1>8, Kinds DEF Disbanded, QueueKept
  <2> QED BY <1>7, <2>1, <2>3, <2>4, <2>5 DEF Ended
<1> QED BY <1>5, <1>6, <1>7, <1>9, EndedKeeps DEF FinderOK

LEMMA FinishDungeonStep ==
  ASSUME FinderOK(finder), NEW g \in Groups, FinishDungeon(g), Patient
  PROVE  FinderOK(finder')
<1> DEFINE whole == Members(finder, g) \cup {g}
<1>1. Core(finder) /\ InvitesOK(finder) /\ GroupsOK(finder) /\ finder \in Finders /\ Synced(finder)
  BY CoreIs DEF FinderOK
<1>2. finder' = SetState(finder, whole, "FINISHED") /\ finder.state[g] = "DUNGEON" /\ finder.old[g] # "NONE"
  BY DEF FinishDungeon
<1>3. \A e \in Entries : e \in whole => finder.state[e] \in Idle
  BY <1>1, <1>2, Waiting3 DEF Members, Synced
<1>4. \A k \in Groups : k \in whole => k = g
  BY <1>1, PartyHas, Kinds DEF Members
<1> HIDE DEF whole
<1>5. IdlesChanged(finder, whole, "FINISHED", finder')
  BY <1>1, <1>2, <1>3, Waiting3, IdlesChange
<1>6. /\ Core(finder') /\ QueueKept(finder, finder') /\ PartiesKept(finder, finder')
      /\ \A x \in Entries : finder'.old[x] = IF x \in whole THEN "FINISHED" ELSE finder.old[x]
      /\ \A x \in Entries : finder.state[x] \in Idle => finder'.state[x] \in Idle
  BY <1>5 DEF IdlesChanged
<1>7. InvitesOK(finder')
  BY <1>1, <1>6, Kinds DEF InvitesOK, PartiesKept, IsEntry
<1>8. GroupsOK(finder')
  BY <1>1, <1>2, <1>4, <1>6, Kinds DEF GroupsOK, PartiesKept, QueueKept
<1> QED BY <1>6, <1>7, <1>8 DEF FinderOK

LEMMA GroupNumbers == \A k \in Groups : k \in Nat /\ k > 0
<1>1. PICK n : Groups = 1..n
  BY QueueAssumption
<1> QED BY <1>1

LEMMA InviteStep ==
  ASSUME FinderOK(finder), NEW p \in Players, NEW q \in Players, Invite(p, q), Patient
  PROVE  FinderOK(finder')
<1> DEFINE g == GroupOf(finder, p)
           invites == finder.invites + 1
<1>1. Core(finder) /\ InvitesOK(finder) /\ GroupsOK(finder) /\ finder \in Finders /\ PartiesApart(finder)
  BY CoreIs DEF FinderOK
<1>2. p # q /\ GroupOf(finder, q) = NoGroup /\ finder.invite[q] = NoInvite
  BY DEF Invite
<1>3. NoInvite \notin Players /\ NoInvite \notin Groups
  BY FinderAssumption, Kinds
<1>4. /\ finder.party \in [Groups -> Seq(Players)] /\ finder.made \in Nat /\ finder.lfg \subseteq Groups
      /\ finder.invites \in Nat /\ invites \in Nat
      /\ finder.invite \in [Players -> Players \cup Groups \cup {NoInvite}]
  BY <1>1, FieldsOf
<1>5. CASE g = NoGroup
  <2> DEFINE invite == [x \in Players |-> IF x = p \/ x = q THEN p ELSE finder.invite[x]]
             pending == WithParties(finder, finder.party, finder.made, finder.lfg, invites, invite)
  <2>1. finder.invite[p] = NoInvite /\ finder' = LeaveLfg(pending, p)
    <3>1. finder.invite[p] = NoInvite
          /\ finder' = LeaveLfg([[finder EXCEPT !.invites = @ + 1] EXCEPT !.invite[p] = p, !.invite[q] = p], p)
      BY <1>5 DEF Invite
    <3>2. [[finder EXCEPT !.invites = @ + 1] EXCEPT !.invite[p] = p, !.invite[q] = p] = pending
      <4>1. [[finder.invite EXCEPT ![p] = p] EXCEPT ![q] = p] = invite
        BY <1>4
      <4> HIDE DEF invite, invites
      <4>2. [[finder EXCEPT !.invites = @ + 1] EXCEPT !.invite[p] = p, !.invite[q] = p]
              = [finder EXCEPT !.invites = finder.invites + 1, !.invite = invite]
        BY <1>1, <4>1 DEF Finders
      <4> QED BY <1>1, <4>2 DEF WithParties, Finders, invites
    <3> QED BY <3>1, <3>2
  <2>2. /\ invite \in [Players -> Players \cup Groups \cup {NoInvite}]
        /\ \A x \in Players : invite[x] = IF x = p \/ x = q THEN p ELSE finder.invite[x]
    BY <1>4
  <2> HIDE DEF invite, invites
  <2>3. PartiesSet(finder, finder.party, finder.made, finder.lfg, invites, invite, pending)
    BY <1>1, <1>4, <2>2, PartiesWith
  <2> HIDE DEF pending
  <2>4. Core(pending)
    BY <1>1, <2>3, InviteChanges
  <2>5. LeftFinder(pending, p, finder')
    BY <2>1, <2>4, Kinds, LeaveLfgKeeps
  <2>6. /\ Core(finder') /\ PartiesKept(pending, finder') /\ finder'.state[p] \in Idle
        /\ \A x \in Entries : pending.state[x] \in Idle => finder'.state[x] \in Idle
        /\ \A k \in Groups : finder'.old[k] = pending.old[k] \/ finder'.old[k] = "NONE"
        /\ (\A i \in 1..Len(pending.proposals) : pending.proposals[i].group \in pending.lfg \cup {NoGroup}) =>
              \A i \in 1..Len(finder'.proposals) : finder'.proposals[i].group \in pending.lfg \cup {NoGroup}
    BY <2>5 DEF LeftFinder, Calm
  <2>7. /\ finder'.party = finder.party /\ finder'.lfg = finder.lfg /\ finder'.made = finder.made
        /\ finder'.invite = invite /\ pending.state = finder.state /\ pending.old = finder.old
        /\ pending.proposals = finder.proposals /\ pending.lfg = finder.lfg
    BY <2>3, <2>6 DEF PartiesKept, PartiesSet, QueueKept
  <2>8. IsEntry(finder, p) /\ IsEntry(finder, q)
    BY <1>1, <1>2, <1>5, GroupOfIs
  <2>9. \A e : IsEntry(finder', e) = IsEntry(finder, e)
    BY <2>7 DEF IsEntry
  <2>10. \A x \in Players : finder.invite[x] # p /\ finder.invite[x] # q
    BY <1>1, <1>2, <1>3, <2>1 DEF InvitesOK
  <2>11. InvitesOK(finder')
    <3>1. ASSUME NEW r \in Players, NEW x \in Players, finder'.invite[x] = r
          PROVE  finder'.invite[r] = r /\ IsEntry(finder', r) /\ finder'.state[r] \in Idle
      <4>1. CASE x = p \/ x = q
        BY <2>2, <2>6, <2>7, <2>8, <2>9, <3>1, <4>1
      <4>2. CASE ~ (x = p \/ x = q)
        <5>1. finder.invite[x] = r /\ r # p /\ r # q
          BY <2>2, <2>7, <2>10, <3>1, <4>2
        <5>2. finder.invite[r] = r /\ IsEntry(finder, r) /\ finder.state[r] \in Idle
          BY <1>1, <5>1 DEF InvitesOK
        <5> QED BY <2>2, <2>6, <2>7, <2>9, <5>1, <5>2, Kinds
      <4> QED BY <4>1, <4>2
    <3>2. ASSUME NEW r \in Players, NEW x \in Players, NEW y \in Players,
                 finder'.invite[x] = r, finder'.invite[y] = r, x # r, y # r
          PROVE  x = y
      <4>1. CASE r = p
        BY <2>2, <2>7, <2>10, <3>2, <4>1
      <4>2. CASE r # p
        <5>1. finder.invite[x] = r /\ finder.invite[y] = r
          BY <2>2, <2>7, <3>2, <4>2
        <5> QED BY <1>1, <3>2, <5>1 DEF InvitesOK
      <4> QED BY <4>1, <4>2
    <3>3. \A k \in Groups, x \in Players : finder'.invite[x] = k => finder'.party[k] # <<>> /\ k \notin finder'.lfg
      <4>1. p \notin Groups
        BY Kinds
      <4> QED BY <1>1, <2>2, <2>7, <4>1 DEF InvitesOK
    <3> QED BY <3>1, <3>2, <3>3 DEF InvitesOK
  <2>12. GroupsOK(finder')
    BY <1>1, <2>6, <2>7 DEF GroupsOK
  <2> QED BY <2>6, <2>11, <2>12 DEF FinderOK
<1>6. CASE g # NoGroup
  <2> DEFINE invite == [finder.invite EXCEPT ![q] = g]
  <2>1. g \in Groups /\ p \in ToSet(finder.party[g]) /\ g \notin finder.lfg
    BY <1>1, <1>6, GroupOfIs DEF Invite
  <2>2. finder.party[g] # <<>>
    BY <2>1 DEF ToSet
  <2>3. finder' = WithParties(finder, finder.party, finder.made, finder.lfg, invites, invite)
    <3>1. finder' = [[finder EXCEPT !.invites = @ + 1] EXCEPT !.invite[q] = g]
      BY <1>6 DEF Invite
    <3> QED BY <1>1, <3>1 DEF WithParties, Finders
  <2>4. /\ invite \in [Players -> Players \cup Groups \cup {NoInvite}]
        /\ \A x \in Players : invite[x] = IF x = q THEN g ELSE finder.invite[x]
    BY <1>4, <2>1
  <2> HIDE DEF invite, g, invites
  <2>5. PartiesSet(finder, finder.party, finder.made, finder.lfg, invites, invite, finder')
    BY <1>1, <1>4, <2>3, <2>4, PartiesWith
  <2>6. Core(finder')
    BY <1>1, <2>5, InviteChanges
  <2>7. \A e : IsEntry(finder', e) = IsEntry(finder, e)
    BY <2>5 DEF IsEntry, PartiesSet
  <2>8. InvitesOK(finder')
    <3>1. /\ finder'.invite = invite /\ finder'.party = finder.party /\ finder'.lfg = finder.lfg
          /\ finder'.state = finder.state
      BY <2>5 DEF PartiesSet
    <3>2. g \notin Players
      BY <2>1, Kinds
    <3>3. ASSUME NEW r \in Players, NEW x \in Players, finder'.invite[x] = r
          PROVE  finder'.invite[r] = r /\ IsEntry(finder', r) /\ finder'.state[r] \in Idle
      <4>1. finder.invite[x] = r
        BY <2>4, <3>1, <3>2, <3>3
      <4>2. finder.invite[r] = r /\ IsEntry(finder, r) /\ finder.state[r] \in Idle
        BY <1>1, <4>1 DEF InvitesOK
      <4>3. r # q
        BY <1>2, <1>3, <4>2
      <4> QED BY <2>4, <2>7, <3>1, <4>2, <4>3
    <3>4. \A r, x, y \in Players : finder'.invite[x] = r /\ finder'.invite[y] = r /\ x # r /\ y # r => x = y
      BY <1>1, <2>4, <3>1, <3>2 DEF InvitesOK
    <3>5. \A k \in Groups, x \in Players : finder'.invite[x] = k => finder'.party[k] # <<>> /\ k \notin finder'.lfg
      BY <1>1, <2>1, <2>2, <2>4, <3>1 DEF InvitesOK
    <3> QED BY <3>3, <3>4, <3>5 DEF InvitesOK
  <2>9. GroupsOK(finder')
    BY <1>1, <2>5 DEF GroupsOK, PartiesSet, QueueKept
  <2> QED BY <2>6, <2>8, <2>9 DEF FinderOK
<1> QED BY <1>5, <1>6

\* Somebody accepts the invitation of a party.
LEMMA AcceptParty ==
  ASSUME FinderOK(finder), NEW q \in Players, NEW from \in Groups, from = finder.invite[q],
         GroupOf(finder, q) = NoGroup,
         finder.state[q] \notin {"ROLECHECK", "PROPOSAL"}, finder.state[from] \notin {"ROLECHECK", "PROPOSAL"},
         NEW f, f = [finder EXCEPT !.invite[q] = NoInvite],
         NEW h, h = f \/ h = AddMember(f, from, q)
  PROVE  FinderOK(h)
<1> DEFINE invite == [finder.invite EXCEPT ![q] = NoInvite]
<1>1. Core(finder) /\ InvitesOK(finder) /\ GroupsOK(finder) /\ finder \in Finders /\ PartiesApart(finder)
  BY CoreIs DEF FinderOK
<1>2. finder.invite \in [Players -> Players \cup Groups \cup {NoInvite}]
  BY <1>1, FieldsOf
<1>3. NoInvite \notin Players /\ NoInvite \notin Groups
  BY FinderAssumption, Kinds
<1>4. f = [finder EXCEPT !.invite = invite]
  BY <1>1 DEF Finders
<1>5. /\ invite \in [Players -> Players \cup Groups \cup {NoInvite}]
      /\ \A x \in Players : invite[x] = IF x = q THEN NoInvite ELSE finder.invite[x]
  BY <1>2
<1> HIDE DEF invite
<1>6. Uninvited(finder, f)
  <2>1. \A x \in Players : invite[x] \in {finder.invite[x], NoInvite}
    BY <1>5
  <2>2. \A x, r \in Players : finder.invite[x] = r /\ invite[x] = r /\ finder.invite[r] = r => invite[r] = r
    BY <1>5, Kinds
  <2> QED BY <1>4, <1>5, <2>1, <2>2, UninvitedIs
<1>7. Core(f) /\ InvitesOK(f) /\ GroupsOK(f) /\ f.party = finder.party /\ f.state = finder.state
      /\ f.lfg = finder.lfg
  BY <1>6 DEF Uninvited, FinderOK
<1>8. CASE h = f
  BY <1>6, <1>8 DEF Uninvited
<1>9. CASE h = AddMember(f, from, q)
  <2>1. finder.party[from] # <<>> /\ from \notin finder.lfg
    BY <1>1 DEF InvitesOK
  <2>2. IsEntry(f, q)
    <3>1. IsEntry(finder, q)
      BY <1>1, GroupOfIs
    <3> QED BY <1>7, <3>1 DEF IsEntry
  <2>3. AddedTo(f, from, q, h)
    BY <1>7, <1>9, <2>1, <2>2, AddMemberKeeps
  <2>4. Core(h) /\ Quiet(f, h) /\ h.made = f.made /\ h.lfg = f.lfg
        /\ h.party[from] # <<>> /\ Len(h.party[from]) = Len(f.party[from]) + 1
        /\ (\A k \in Groups : k # from => h.party[k] = f.party[k])
        /\ (\A x \in Players : h.invite[x] = IF x = q THEN NoInvite ELSE f.invite[x])
        /\ (\A r \in Players : r # q /\ IsEntry(f, r) => IsEntry(h, r))
    BY <2>3 DEF AddedTo
  <2>5. f.invite[q] = NoInvite
    BY <1>2, <1>4, <1>5, <1>1 DEF Finders
  <2>6. InvitesOK(h)
    <3>1. ASSUME NEW r \in Players, NEW x \in Players, h.invite[x] = r
          PROVE  h.invite[r] = r /\ IsEntry(h, r) /\ h.state[r] \in Idle
      <4>1. f.invite[x] = r
        BY <1>3, <2>4, <3>1
      <4>2. f.invite[r] = r /\ IsEntry(f, r) /\ f.state[r] \in Idle
        BY <1>7, <4>1 DEF InvitesOK
      <4>3. r # q
        BY <1>3, <2>5, <4>2
      <4> QED BY <2>4, <4>2, <4>3, Kinds DEF Quiet
    <3>2. \A r, x, y \in Players : h.invite[x] = r /\ h.invite[y] = r /\ x # r /\ y # r => x = y
      BY <1>3, <1>7, <2>4 DEF InvitesOK
    <3>3. \A k \in Groups, x \in Players : h.invite[x] = k => h.party[k] # <<>> /\ k \notin h.lfg
      BY <1>3, <1>7, <2>1, <2>4 DEF InvitesOK
    <3> QED BY <3>1, <3>2, <3>3 DEF InvitesOK
  <2>7. GroupsOK(h)
    <3>1. Len(f.party[from]) >= 2 /\ Len(f.party[from]) \in Nat
      BY <1>7, <2>1, CoreIs, PartyHas DEF GroupsOK
    <3>2. Len(h.party[from]) >= 2
      BY <2>4, <3>1
    <3> QED BY <1>7, <2>1, <2>4, <3>2 DEF GroupsOK, Quiet
  <2> QED BY <2>4, <2>6, <2>7 DEF FinderOK
<1> QED BY <1>8, <1>9

\* Somebody accepts the invitation of a player, and they become a party.
LEMMA AcceptPlayer ==
  ASSUME FinderOK(finder), NEW q \in Players, NEW from \in Players, from = finder.invite[q],
         from # q, GroupOf(finder, q) = NoGroup,
         finder.state[q] \notin {"ROLECHECK", "PROPOSAL"}, finder.made < Cardinality(Groups),
         NEW g, g = finder.made + 1,
         NEW f, f = [[finder EXCEPT !.invite[q] = NoInvite] EXCEPT !.invite[from] = NoInvite, !.made = g],
         NEW h, h = AddMember(AddMember(f, g, from), g, q)
  PROVE  FinderOK(h)
<1> DEFINE invite == [x \in Players |-> IF x = q \/ x = from THEN NoInvite ELSE finder.invite[x]]
           l == AddMember(f, g, from)
<1>1. Core(finder) /\ InvitesOK(finder) /\ GroupsOK(finder) /\ finder \in Finders /\ PartiesApart(finder)
  BY CoreIs DEF FinderOK
<1>2. /\ finder.party \in [Groups -> Seq(Players)] /\ finder.made \in Nat /\ finder.lfg \subseteq Groups
      /\ finder.invites \in Nat
      /\ finder.invite \in [Players -> Players \cup Groups \cup {NoInvite}]
  BY <1>1, FieldsOf
<1>3. NoInvite \notin Players /\ NoInvite \notin Groups
  BY FinderAssumption, Kinds
<1>4. g \in Groups /\ g \in Nat
  <2>1. Groups = 1..Cardinality(Groups) /\ Cardinality(Groups) \in Nat
    BY QueueAssumption, FS_CardinalityType
  <2> QED BY <1>2, <2>1
<1>5. f = WithParties(finder, finder.party, g, finder.lfg, finder.invites, invite)
  <2>1. [[finder.invite EXCEPT ![q] = NoInvite] EXCEPT ![from] = NoInvite] = invite
    BY <1>2
  <2> HIDE DEF invite
  <2> QED BY <1>1, <2>1 DEF WithParties, Finders
<1>6. /\ invite \in [Players -> Players \cup Groups \cup {NoInvite}]
      /\ \A x \in Players : invite[x] = IF x = q \/ x = from THEN NoInvite ELSE finder.invite[x]
  BY <1>2
<1> HIDE DEF invite
<1>7. PartiesSet(finder, finder.party, g, finder.lfg, finder.invites, invite, f)
  <2>1. invite \in [Players -> Players \cup Groups \cup {NoInvite}]
    BY <1>6
  <2>2. PartiesSet(finder, finder.party, g, finder.lfg, finder.invites, invite,
                   WithParties(finder, finder.party, g, finder.lfg, finder.invites, invite))
    BY <1>1, <1>2, <1>4, <2>1, PartiesWith
  <2> QED BY <1>5, <2>2
<1>8. Core(f) /\ Quiet(finder, f)
  BY <1>1, <1>7, InviteChanges
<1>9. f.party = finder.party /\ f.state = finder.state /\ f.old = finder.old /\ f.lfg = finder.lfg
      /\ f.made = g /\ f.invite = invite /\ f.proposals = finder.proposals
  BY <1>7 DEF PartiesSet, QueueKept
<1>10. f.party[g] = <<>>
  BY <1>1, <1>2, <1>4, <1>9 DEF GroupsOK
<1>11. finder.invite[from] = from /\ IsEntry(finder, from) /\ finder.state[from] \in Idle
  BY <1>1 DEF InvitesOK
<1>12. IsEntry(finder, q)
  BY <1>1, GroupOfIs
<1>13. \A e : IsEntry(f, e) = IsEntry(finder, e)
  BY <1>9 DEF IsEntry
<1>14. f.state[g] \in Idle
  BY <1>4, <1>8, <1>10, CoreIs DEF Synced
<1>15. AddedTo(f, g, from, l)
  <2>1. l = AddMember(f, g, from)
    OBVIOUS
  <2> HIDE DEF l
  <2> QED BY <1>4, <1>8, <1>9, <1>10, <1>11, <1>13, <1>14, <2>1, Waiting3, AddMemberKeeps
<1>16. h = AddMember(l, g, q)
  OBVIOUS
<1> HIDE DEF l
<1>17. /\ Core(l) /\ Quiet(f, l) /\ l.state[from] \in Idle /\ l.state[g] \in Idle
       /\ l.made = f.made /\ l.lfg = f.lfg
       /\ l.party[g] # <<>> /\ Len(l.party[g]) = Len(f.party[g]) + 1
       /\ \A k \in Groups : k # g => l.party[k] = f.party[k]
       /\ \A x \in Players : l.invite[x] = IF x = from THEN NoInvite ELSE f.invite[x]
       /\ \A r \in Players : r # from /\ IsEntry(f, r) => IsEntry(l, r)
       /\ l.state = f.state
  BY <1>10, <1>15 DEF AddedTo
<1>18. AddedTo(l, g, q, h)
  <2>1. IsEntry(l, q)
    BY <1>12, <1>13, <1>17
  <2>2. l.state[q] \notin {"ROLECHECK", "PROPOSAL"} /\ l.state[g] \notin {"ROLECHECK", "PROPOSAL"}
    BY <1>9, <1>17, Waiting3
  <2> QED BY <1>4, <1>16, <1>17, <2>1, <2>2, AddMemberKeeps
<1>19. /\ Core(h) /\ Quiet(l, h) /\ h.made = l.made /\ h.lfg = l.lfg
       /\ Len(h.party[g]) = Len(l.party[g]) + 1
       /\ \A k \in Groups : k # g => h.party[k] = l.party[k]
       /\ \A x \in Players : h.invite[x] = IF x = q THEN NoInvite ELSE l.invite[x]
       /\ \A r \in Players : r # q /\ IsEntry(l, r) => IsEntry(h, r)
  BY <1>18 DEF AddedTo
<1>20. \A x \in Players : h.invite[x] = IF x = q \/ x = from THEN NoInvite ELSE finder.invite[x]
  BY <1>6, <1>9, <1>17, <1>19
<1>21. \A x \in Players : finder.invite[x] # q
  BY <1>1 DEF InvitesOK
<1>22. \A x \in Players : finder.invite[x] = from => x = q \/ x = from
  BY <1>1 DEF InvitesOK
<1>23. InvitesOK(h)
  <2>1. ASSUME NEW r \in Players, NEW x \in Players, h.invite[x] = r
        PROVE  h.invite[r] = r /\ IsEntry(h, r) /\ h.state[r] \in Idle
    <3>1. finder.invite[x] = r /\ x # q /\ x # from
      BY <1>3, <1>20, <2>1
    <3>2. r # q /\ r # from
      BY <1>21, <1>22, <3>1
    <3>3. finder.invite[r] = r /\ IsEntry(finder, r) /\ finder.state[r] \in Idle
      BY <1>1, <3>1 DEF InvitesOK
    <3>4. h.state[r] \in Idle
      BY <1>9, <1>17, <1>19, <3>3, Kinds DEF Quiet
    <3> QED BY <1>13, <1>17, <1>19, <1>20, <3>2, <3>3, <3>4
  <2>2. \A r, x, y \in Players : h.invite[x] = r /\ h.invite[y] = r /\ x # r /\ y # r => x = y
    BY <1>1, <1>3, <1>20 DEF InvitesOK
  <2>3. ASSUME NEW k \in Groups, NEW x \in Players, h.invite[x] = k
        PROVE  h.party[k] # <<>> /\ k \notin h.lfg
    <3>1. finder.invite[x] = k
      BY <1>3, <1>20, <2>3
    <3>2. finder.party[k] # <<>> /\ k \notin finder.lfg
      BY <1>1, <3>1 DEF InvitesOK
    <3>3. k # g
      BY <1>9, <1>10, <3>2
    <3> QED BY <1>9, <1>17, <1>19, <3>2, <3>3
  <2> QED BY <2>1, <2>2, <2>3 DEF InvitesOK
<1>24. GroupsOK(h)
  <2>1. Len(h.party[g]) = 2
    <3>1. Len(f.party[g]) = 0
      BY <1>10
    <3>2. Len(l.party[g]) = 1
      BY <1>17, <3>1
    <3>3. Len(h.party[g]) = Len(l.party[g]) + 1
      BY <1>19
    <3> QED BY <3>2, <3>3
  <2>2. ASSUME NEW k \in Groups PROVE h.old[k] = finder.old[k] \/ h.old[k] = "NONE"
    <3>1. l.old[k] = f.old[k] \/ l.old[k] = "NONE"
      BY <1>17 DEF Quiet
    <3>2. h.old[k] = l.old[k] \/ h.old[k] = "NONE"
      BY <1>19 DEF Quiet
    <3> QED BY <1>9, <3>1, <3>2
  <2>3. \A i \in 1..Len(h.proposals) : h.proposals[i].group \in h.lfg \cup {NoGroup}
    BY <1>1, <1>9, <1>17, <1>19 DEF Quiet, GroupsOK
  <2>4. h.lfg = finder.lfg /\ h.made = g /\ \A k \in Groups : k # g => h.party[k] = finder.party[k]
    BY <1>9, <1>17, <1>19
  <2>5. \A k \in Groups : k > g => k > finder.made /\ k # g
    <3>1. \A k \in Groups : k \in Nat
      BY GroupNumbers
    <3> QED BY <1>2, <3>1
  <2>6. \A k \in Groups : h.old[k] # "NONE" => k \in h.lfg
    BY <1>1, <2>2, <2>4 DEF GroupsOK
  <2>7. \A k \in Groups : h.party[k] # <<>> /\ k \notin h.lfg => Len(h.party[k]) >= 2
    <3> SUFFICES ASSUME NEW k \in Groups, h.party[k] # <<>>, k \notin h.lfg PROVE Len(h.party[k]) >= 2
      OBVIOUS
    <3>1. CASE k = g
      <4>1. Len(h.party[k]) = 2
        BY <2>1, <3>1, Zenon
      <4>2. \A n : n = 2 => n >= 2
        OBVIOUS
      <4> QED BY <4>1, <4>2, Zenon
    <3>2. CASE k # g
      BY <1>1, <2>4, <3>2 DEF GroupsOK
    <3> QED BY <3>1, <3>2
  <2>8. \A k \in Groups : k > h.made => h.party[k] = <<>>
    BY <1>1, <2>4, <2>5 DEF GroupsOK
  <2> QED BY <2>3, <2>6, <2>7, <2>8 DEF GroupsOK
<1> QED BY <1>19, <1>23, <1>24 DEF FinderOK

LEMMA AcceptStep ==
  ASSUME FinderOK(finder), NEW q \in Players, Accept(q), Patient
  PROVE  FinderOK(finder')
<1> DEFINE from == finder.invite[q]
           f == [finder EXCEPT !.invite[q] = NoInvite]
           g == finder.made + 1
           c == [f EXCEPT !.invite[from] = NoInvite, !.made = g]
<1>1. from \notin {NoInvite, q} /\ GroupOf(finder, q) = NoGroup
      /\ finder.state[q] \notin {"ROLECHECK", "PROPOSAL"} /\ finder.state[from] \notin {"ROLECHECK", "PROPOSAL"}
  BY DEF Accept, Busy
<1>2. from \in Players \cup Groups \cup {NoInvite}
  <2>1. finder.invite \in [Players -> Players \cup Groups \cup {NoInvite}]
    BY CoreIs, FieldsOf DEF FinderOK
  <2> QED BY <2>1
<1>3. CASE from \in Groups
  <2>1. finder' = f \/ finder' = AddMember(f, from, q)
    BY <1>3 DEF Accept
  <2> HIDE DEF from
  <2>2. from = finder.invite[q]
    BY DEF from
  <2> QED BY <1>1, <1>3, <2>1, <2>2, AcceptParty
<1>4. CASE from \in Players
  <2>1. finder.made < Cardinality(Groups) /\ finder' = AddMember(AddMember(c, g, from), g, q)
    BY <1>4, Kinds DEF Accept
  <2>2. from = finder.invite[q] /\ g = finder.made + 1 /\ from # q
        /\ c = [[finder EXCEPT !.invite[q] = NoInvite] EXCEPT !.invite[from] = NoInvite, !.made = g]
    BY <1>1
  <2> HIDE DEF from, g, c
  <2> QED BY <1>1, <1>4, <2>1, <2>2, AcceptPlayer
<1> QED BY <1>1, <1>2, <1>3, <1>4
\* A party that is in a proposal loses a player, or is dissolved.
Cut(f, g, p, h) ==
  /\ h \in Finders /\ QueueKept(f, h) /\ h.check = f.check
  /\ \A x \in Entries : x # g => h.state[x] = f.state[x] /\ h.old[x] = f.old[x]
  /\ h.made = f.made /\ h.invites = f.invites
  /\ \A k \in Groups : k # g => h.party[k] = f.party[k]
  /\ ToSet(h.party[g]) \subseteq ToSet(f.party[g]) \ {p} /\ IsInjective(h.party[g])
  /\ \/ /\ h.party[g] = <<>> /\ h.lfg = f.lfg \ {g} /\ h.old[g] = "NONE" /\ h.state[g] = "NONE"
        /\ \A q \in Players : h.invite[q] = IF f.invite[q] = g THEN NoInvite ELSE f.invite[q]
     \/ /\ h.party[g] # <<>> /\ h.lfg = f.lfg /\ h.old[g] = f.old[g] /\ h.state[g] = f.state[g]
        /\ h.invite = f.invite
        /\ g \notin f.lfg => Len(h.party[g]) >= 2

LEMMA CutIs ==
  ASSUME NEW f \in Finders, NEW g \in Groups, IsInjective(f.party[g]), NEW p \in ToSet(f.party[g]),
         f.state[g] = "PROPOSAL",
         NEW default, OnRemoveMember(f, g, p, default) = f, NEW inside, NEW h, h = RemoveMember(f, g, p, default, inside)
  PROVE  Cut(f, g, p, h)
<1> DEFINE rest == [f EXCEPT !.party[g] = Without(@, {p})]
           lfg == g \in f.lfg
           size == Len(f.party[g])
           ends == \/ size <= (IF lfg THEN 1 ELSE 2)
                   \/ lfg /\ size = 2 /\ ~(inside /\ f.old[g] # "NONE")
<1>1. f.party[g] \in Seq(Players)
  BY PartyHas
<1>2. p \in Players /\ size \in Nat
  BY PartyHas
<1>3. h = IF ends THEN Disband(rest, g) ELSE rest
  BY DEF RemoveMember
<1>4. Shrunk(f, g, p, rest)
  BY <1>1, <1>2, ShrunkIs
<1> HIDE DEF rest
<1>5. IsInjective(f.party[g])
  OBVIOUS
<1>6. CASE ends
  <2>1. h = Disband(rest, g)
    BY <1>3, <1>6
  <2>2. rest \in Finders
    BY <1>4 DEF Shrunk
  <2>3. Disbanded(rest, g, h)
    BY <2>1, <2>2, DisbandIs
  <2>4. rest.state[g] = "PROPOSAL"
    BY <1>4 DEF Shrunk
  <2>5. h \in Finders /\ QueueKept(f, h) /\ h.check = f.check /\ h.made = f.made /\ h.invites = f.invites
    BY <1>4, <2>3 DEF Shrunk, Disbanded, QueueKept
  <2>6. \A x \in Entries : x # g => h.state[x] = f.state[x] /\ h.old[x] = f.old[x]
    BY <1>4, <2>3, <2>4 DEF Shrunk, Disbanded
  <2>7. h.party[g] = <<>> /\ \A k \in Groups : k # g => h.party[k] = f.party[k]
    BY <1>4, <2>3 DEF Shrunk, Disbanded
  <2>8. ToSet(h.party[g]) = {} /\ IsInjective(h.party[g])
    <3>1. ToSet(h.party[g]) = {}
      BY <2>7 DEF ToSet
    <3>2. IsInjective(h.party[g])
      BY <2>7 DEF IsInjective
    <3> QED BY <3>1, <3>2
  <2>9. h.lfg = f.lfg \ {g} /\ h.old[g] = "NONE" /\ h.state[g] = "NONE"
        /\ \A q \in Players : h.invite[q] = IF f.invite[q] = g THEN NoInvite ELSE f.invite[q]
    BY <1>4, <2>3, Kinds DEF Shrunk, Disbanded
  <2> QED BY <2>5, <2>6, <2>7, <2>8, <2>9 DEF Cut
<1>7. CASE ~ ends
  <2>1. h = rest
    BY <1>3, <1>7
  <2>2. h \in Finders
    BY <1>4, <2>1 DEF Shrunk
  <2>3. Len(h.party[g]) >= size - 1 /\ Len(h.party[g]) \in Nat
    BY <1>4, <1>5, <2>1, <2>2, PartyHas DEF Shrunk
  <2>4. Len(h.party[g]) >= 1 /\ (g \notin f.lfg => Len(h.party[g]) >= 2)
    <3>1. size >= 2 /\ (g \notin f.lfg => size >= 3)
      BY <1>2, <1>7
    <3> HIDE DEF size
    <3> QED BY <1>2, <2>3, <3>1
  <2>5. h.party[g] # <<>>
    <3>1. Len(h.party[g]) # 0
      BY <2>3, <2>4
    <3> QED BY <2>2, <3>1, PartyHas
  <2>6. ToSet(h.party[g]) \subseteq ToSet(f.party[g]) \ {p} /\ IsInjective(h.party[g])
    BY <1>4, <1>5, <2>1 DEF Shrunk
  <2> QED BY <1>4, <2>1, <2>4, <2>5, <2>6 DEF Cut, Shrunk
<1> QED BY <1>6, <1>7

AsDenied(k, g, left, h) ==
  /\ h \in Finders /\ SameQueue(k, h) /\ h.check = k.check
  /\ \A x \in Entries : x # g => h.state[x] = k.state[x]
  /\ h.state[g] \in Idle
  /\ h.old = left.old
  /\ PartiesKept(left, h)

LEMMA SameDenied ==
  ASSUME NEW f, Core(f), NEW g \in Groups, NEW p \in ToSet(f.party[g]), f.state[g] = "PROPOSAL",
         NEW left, Cut(f, g, p, left), NEW i \in 1..Len(f.proposals),
         p \in DOMAIN f.proposals[i].answer, f.proposals[i].entry[p] = g,
         NEW k, k = Deny(f, i, p), k.state[g] \in Idle, k \in Finders, NEW h, h = Deny(left, i, p)
  PROVE  AsDenied(k, g, left, h) /\ k.old = f.old
<1> DEFINE a == WithAnswer(f, i, p, "DENY")  b == WithAnswer(left, i, p, "DENY")
<1>1. f \in Finders /\ left \in Finders /\ left.proposals = f.proposals
  BY CoreIs DEF Cut, QueueKept
<1>2. Answered(f, i, p, "DENY", a)
  BY <1>1, AnswerIs
<1>3. Answered(left, i, p, "DENY", b)
  BY <1>1, AnswerIs
<1>4. b.proposals = a.proposals
  BY <1>1 DEF WithAnswer, Finders
<1>5. k = RemoveProposal(a, i, FALSE) /\ h = RemoveProposal(b, i, FALSE)
  BY DEF Deny, WithAnswer
<1> HIDE DEF a, b
<1>6. /\ a \in Finders /\ b \in Finders /\ i \in 1..Len(a.proposals) /\ i \in 1..Len(b.proposals)
      /\ QueueKept(a, b)
  BY <1>1, <1>2, <1>3, <1>4 DEF Answered, Cut, QueueKept
<1> DEFINE proposal == a.proposals[i]  gone == Gone(proposal, FALSE)
<1>7. Removed(a, i, proposal, FALSE, gone, k)
  BY <1>5, <1>6, RemoveProposalIs
<1>8. Removed(b, i, proposal, FALSE, gone, h)
  BY <1>4, <1>5, <1>6, RemoveProposalIs
<1> HIDE DEF proposal, gone
<1>9. h \in Finders /\ SameQueue(k, h) /\ h.check = k.check
  <2>1. h \in Finders /\ k \in Finders
    BY <1>7, <1>8 DEF Removed
  <2>2. h.data = k.data
    <3>1. DOMAIN h.data = DOMAIN k.data /\ \A e \in DOMAIN h.data : h.data[e] = k.data[e]
      BY <1>6, <1>7, <1>8 DEF Removed, QueueKept
    <3>2. h.data \in [DOMAIN h.data -> Crowds] /\ k.data \in [DOMAIN k.data -> Crowds]
      BY <2>1, FieldsOf, PartialIs
    <3> QED BY <3>1, <3>2
  <2>3. h.new = k.new /\ h.proposals = k.proposals /\ DOMAIN h.compatible = DOMAIN k.compatible
    BY <1>6, <1>7, <1>8 DEF Removed, QueueKept
  <2>4. h.current = k.current
    BY <1>6, <1>7, <1>8, <2>2 DEF Removed, QueueKept
  <2>5. h.check = k.check
    BY <1>2, <1>3, <1>7, <1>8 DEF Removed, Answered, Cut
  <2> QED BY <2>1, <2>2, <2>3, <2>4, <2>5 DEF SameQueue
<1> DEFINE Q(x) == \/ x \in Stay(proposal, FALSE)
                   \/ \E q \in Stay(proposal, FALSE) : x = proposal.entry[q]
           O(x) == x \in Out(proposal, FALSE) \/ x \in gone
<1>10. \A x \in Entries : k.state[x] = IF Q(x) THEN "QUEUED" ELSE IF O(x) THEN a.old[x] ELSE a.state[x]
  BY <1>7 DEF Removed
<1>11. \A x \in Entries : h.state[x] = IF Q(x) THEN "QUEUED" ELSE IF O(x) THEN b.old[x] ELSE b.state[x]
  BY <1>8 DEF Removed
<1> HIDE DEF Q, O
<1>12. a.old = f.old /\ a.state = f.state /\ b.old = left.old /\ b.state = left.state
       /\ PartiesKept(left, b)
  BY <1>2, <1>3 DEF Answered
<1>13. \A x \in Entries : x # g => h.state[x] = k.state[x]
  BY <1>10, <1>11, <1>12 DEF Cut
<1>14. ~ Q(g) /\ O(g)
  BY <1>10, <1>12, Kinds, Waiting3
<1>15. h.state[g] \in Idle
  BY <1>1, <1>11, <1>12, <1>14, Kinds, FieldsOf
<1>16. h.old = left.old /\ k.old = f.old
  <2>1. \A x \in Entries : h.old[x] = left.old[x] /\ k.old[x] = f.old[x]
    BY <1>7, <1>8, <1>12 DEF Removed
  <2>2. h.old \in [Entries -> Idle] /\ left.old \in [Entries -> Idle]
        /\ k.old \in [Entries -> Idle] /\ f.old \in [Entries -> Idle]
    BY <1>1, <1>9, FieldsOf
  <2> QED BY <2>1, <2>2
<1>17. PartiesKept(left, h)
  BY <1>8, <1>12 DEF Removed, PartiesKept
<1> QED BY <1>9, <1>13, <1>15, <1>16, <1>17 DEF AsDenied

\* Somebody logs out while his party is asked.
LEMMA LogoutAsked ==
  ASSUME NEW f, FinderOK(f), NEW g \in Groups, NEW p \in ToSet(f.party[g]), f.state[g] = "PROPOSAL",
         NEW default, OnRemoveMember(f, g, p, default) = f, NEW inside,
         NEW h, h = LeaveLfg(RemoveMember(f, g, p, default, inside), p)
  PROVE  FinderOK(h)
<1> DEFINE left == RemoveMember(f, g, p, default, inside)
<1>1. Core(f) /\ InvitesOK(f) /\ GroupsOK(f) /\ f \in Finders /\ PartiesApart(f) /\ Synced(f)
  BY CoreIs DEF FinderOK
<1>2. Cut(f, g, p, left)
  <2>1. IsInjective(f.party[g])
    BY <1>1 DEF PartiesApart
  <2> QED BY <1>1, <2>1, CutIs
<1>3. h = LeaveLfg(left, p)
  OBVIOUS
<1> HIDE DEF left
<1>4. p \in Players /\ p \in Entries /\ p \notin Groups /\ p # g /\ g \in Entries
  BY <1>1, PartyHas, Kinds
<1>5. f.state[p] = "PROPOSAL"
  BY <1>1, Waiting3 DEF Synced
<1>6. left.state[p] = "PROPOSAL" /\ left.proposals = f.proposals
  BY <1>2, <1>4, <1>5 DEF Cut, QueueKept
<1> DEFINE i == Min({j \in 1..Len(f.proposals) : p \in DOMAIN f.proposals[j].answer})
<1>7. /\ \E j \in 1..Len(f.proposals) : p \in DOMAIN f.proposals[j].answer
      /\ i \in 1..Len(f.proposals) /\ p \in DOMAIN f.proposals[i].answer
      /\ f.proposals[i].entry[p] = g
  <2>1. IsEntry(f, g) /\ p \in Folk(f, g)
    BY <1>1, PartyHas DEF IsEntry, Folk
  <2> QED BY <1>1, <1>4, <2>1, AskedSomewhere
<1>8. h = Deny(left, i, p)
  BY <1>3, <1>4, <1>6, <1>7 DEF LeaveLfg
<1> HIDE DEF i
<1> DEFINE k == Deny(f, i, p)
<1>9. /\ Core(k) /\ Calm(f, k) /\ k.state[g] \in Idle
      /\ \A x \in Entries : f.state[x] \in Idle => k.state[x] \in Idle
  BY <1>1, <1>7, DenyKeeps
<1>10. k \in Finders /\ Synced(k) /\ PartiesApart(k) /\ FinderOK(k) /\ PartiesKept(f, k)
  BY <1>1, <1>9, CoreIs, CalmKeeps DEF FinderOK, Calm
<1>11. /\ h \in Finders /\ SameQueue(k, h) /\ h.check = k.check
       /\ \A x \in Entries : x # g => h.state[x] = k.state[x]
       /\ h.state[g] \in Idle
       /\ h.old = left.old /\ k.old = f.old
       /\ PartiesKept(left, h)
  <2>1. k = Deny(f, i, p)
    OBVIOUS
  <2> HIDE DEF k
  <2>2. AsDenied(k, g, left, h) /\ k.old = f.old
    BY <1>1, <1>2, <1>7, <1>8, <1>9, <1>10, <2>1, SameDenied
  <2> QED BY <2>2 DEF AsDenied
<1> HIDE DEF k
<1>12. k.party = f.party /\ h.party = left.party /\ k.lfg = f.lfg /\ h.lfg = left.lfg
       /\ k.made = f.made /\ h.made = left.made /\ k.invite = f.invite /\ h.invite = left.invite
  BY <1>10, <1>11 DEF PartiesKept
<1>13. \A x \in Groups : x # g => h.party[x] = k.party[x]
  BY <1>2, <1>12 DEF Cut
<1>14. ToSet(h.party[g]) \subseteq ToSet(k.party[g]) /\ IsInjective(h.party[g])
  BY <1>2, <1>12 DEF Cut
<1>15. \A x \in ToSet(k.party[g]) : k.state[x] \in Idle
  BY <1>9, <1>10 DEF Synced
<1>16. \A x \in Entries : k.state[x] \in Idle => h.state[x] \in Idle
  BY <1>11
<1>17. Core(h)
  <2>1. \A x \in Groups : x # g => /\ h.party[x] = k.party[x]
                                   /\ ToSet(h.party[g]) \cap ToSet(k.party[x]) = {}
    BY <1>10, <1>13, <1>14 DEF PartiesApart
  <2>2. \A x \in Entries : \/ k.state[x] \in Idle /\ h.state[x] \in Idle
                           \/ /\ h.state[x] = k.state[x] /\ x # g
                              /\ x \notin ToSet(k.party[g]) /\ x \notin ToSet(h.party[g])
    BY <1>9, <1>11, <1>14, <1>15
  <2> QED BY <1>9, <1>11, <1>14, <2>1, <2>2, PartyChanges
<1>18. \A r \in Players : IsEntry(k, r) => IsEntry(h, r)
  BY <1>13, <1>14, Kinds DEF IsEntry
<1>19. h.made = k.made /\ h.proposals = k.proposals
  BY <1>2, <1>11, <1>12 DEF Cut, SameQueue
<1>20. \A x \in Groups : x # g => h.old[x] = k.old[x]
  BY <1>2, <1>11, Kinds DEF Cut
<1>21. CASE /\ left.party[g] = <<>> /\ left.lfg = f.lfg \ {g} /\ left.old[g] = "NONE" /\ left.state[g] = "NONE"
            /\ \A q \in Players : left.invite[q] = IF f.invite[q] = g THEN NoInvite ELSE f.invite[q]
  <2>1. Ended(k, g, h)
    BY <1>11, <1>12, <1>13, <1>16, <1>18, <1>19, <1>20, <1>21 DEF Ended
  <2>2. InvitesOK(h) /\ GroupsOK(h)
    BY <1>9, <1>10, <2>1, EndedKeeps
  <2> QED BY <1>17, <2>2 DEF FinderOK
<1>22. CASE /\ left.party[g] # <<>> /\ left.lfg = f.lfg /\ left.old[g] = f.old[g] /\ left.state[g] = f.state[g]
            /\ left.invite = f.invite
            /\ g \notin f.lfg => Len(left.party[g]) >= 2
  <2>1. f.party[g] # <<>>
    BY <1>1, PartyHas
  <2>2. \A x \in Groups : h.old[x] = k.old[x]
    BY <1>11, <1>20, <1>22
  <2>3. GoesOn(k, g, h)
    BY <1>12, <1>13, <1>16, <1>18, <1>19, <1>22, <2>1, <2>2 DEF GoesOn
  <2>4. InvitesOK(h) /\ GroupsOK(h)
    BY <1>10, <2>3, GoesOnKeeps
  <2> QED BY <1>17, <2>4 DEF FinderOK
<1> QED BY <1>2, <1>21, <1>22 DEF Cut

LEMMA LogoutStep ==
  ASSUME FinderOK(finder), NEW p \in Players, NEW inside, Logout(p, inside)
  PROVE  FinderOK(finder')
<1> DEFINE f == Uninvite(finder, p)
           g == GroupOf(f, p)
           left == RemoveMember(f, g, p, TRUE, inside)
<1>1. finder' = LeaveLfg(IF g = NoGroup THEN f ELSE left, p)
  BY DEF Logout
<1>2. Uninvited(finder, f)
  BY UninviteKeeps
<1>3. FinderOK(f) /\ Core(f) /\ f \in Finders /\ PartiesApart(f)
  BY <1>2, CoreIs DEF Uninvited, FinderOK
<1> HIDE DEF f
<1>4. g # NoGroup => g \in Groups /\ p \in ToSet(f.party[g])
  BY <1>3, GroupOfIs
<1>5. p \in Entries /\ p \notin Groups
  BY Kinds
<1> HIDE DEF g
<1>6. ASSUME NEW x, FinderOK(x) PROVE FinderOK(LeaveLfg(x, p))
  <2>1. Core(x) /\ InvitesOK(x) /\ GroupsOK(x)
    BY <1>6 DEF FinderOK
  <2>2. LeftFinder(x, p, LeaveLfg(x, p))
    BY <1>5, <2>1, LeaveLfgKeeps
  <2>3. Core(LeaveLfg(x, p)) /\ Calm(x, LeaveLfg(x, p))
    BY <2>2 DEF LeftFinder
  <2> QED BY <2>1, <2>3, CalmKeeps DEF FinderOK
<1>7. CASE g = NoGroup
  BY <1>1, <1>3, <1>6, <1>7
<1>8. CASE g # NoGroup /\ f.state[g] # "PROPOSAL"
  <2>1. MemberLeft(f, g, p, left)
    BY <1>3, <1>4, <1>8, RemoveMemberKeeps
  <2> HIDE DEF left
  <2> QED BY <1>1, <1>6, <1>8, <2>1 DEF MemberLeft
<1>9. CASE g # NoGroup /\ f.state[g] = "PROPOSAL"
  <2>1. OnRemoveMember(f, g, p, TRUE) = f
    BY <1>9 DEF OnRemoveMember
  <2>2. g \in Groups /\ p \in ToSet(f.party[g]) /\ f.state[g] = "PROPOSAL"
    BY <1>4, <1>9
  <2>3. FinderOK(LeaveLfg(RemoveMember(f, g, p, TRUE, inside), p))
    BY <1>3, <2>1, <2>2, LogoutAsked
  <2> QED BY <1>1, <1>9, <2>3
<1> QED BY <1>7, <1>8, <1>9

-----------------------------------------------------------------------------
(***************************************************************************)
(* Players and parties join.                                               *)
(***************************************************************************)
LEMMA CalmTwice ==
  ASSUME NEW f, NEW k, NEW h, Calm(f, k), Calm(k, h)
  PROVE  Calm(f, h)
<1>1. PartiesKept(f, h) /\ k.party = f.party /\ k.lfg = f.lfg /\ k.invite = f.invite
  BY DEF Calm, PartiesKept
<1>2. \A p \in Players : IsEntry(f, p) => IsEntry(k, p)
  BY <1>1 DEF IsEntry
<1>3. \A p \in Players :
        f.state[p] \in Idle /\ IsEntry(f, p) /\ f.invite[p] = p => h.state[p] \in Idle
  BY <1>1, <1>2 DEF Calm
<1>4. \A g \in Groups : h.old[g] = f.old[g] \/ h.old[g] = "NONE"
  BY DEF Calm
<1>5. (\A i \in 1..Len(f.proposals) : f.proposals[i].group \in f.lfg \cup {NoGroup}) =>
        \A i \in 1..Len(h.proposals) : h.proposals[i].group \in f.lfg \cup {NoGroup}
  BY <1>1 DEF Calm
<1> QED BY <1>1, <1>3, <1>4, <1>5 DEF Calm

\* The entry e is not in the queue any more.
Free(f, e, h) ==
  /\ h \in Finders /\ h.state = f.state /\ h.old = f.old
  /\ PartiesKept(f, h) /\ QueueOK(h) /\ h.check = f.check
  /\ \A x : Listed(h, x) <=> Listed(f, x) /\ x # e
  /\ h.proposals = f.proposals
  /\ \A x : x \in DOMAIN h.data <=> x \in DOMAIN f.data /\ x # e
  /\ \A x \in DOMAIN h.data : h.data[x] = f.data[x]

LEMMA FreeIs ==
  ASSUME NEW f, Core(f), NEW e \in Entries, IsEntry(f, e), f.state[e] # "PROPOSAL",
         NEW h, h = IF f.state[e] = "QUEUED" THEN RemoveFromQueue(f, {e}) ELSE f
  PROVE  Free(f, e, h)
<1>1. f \in Finders /\ Where(f) /\ QueueOK(f)
  BY CoreIs
<1>2. CASE f.state[e] = "QUEUED"
  <2> DEFINE r == RemoveFromQueue(f, {e})
  <2>1. /\ r \in Finders /\ r.state = f.state /\ r.old = f.old
        /\ DOMAIN r.data = DOMAIN f.data \ {e}
        /\ \A d \in DOMAIN r.data : r.data[d] = f.data[d]
        /\ r.proposals = f.proposals
        /\ PartiesKept(f, r) /\ r.check = f.check
    BY <1>1, RemoveFromQueueIs
  <2>2. \A d : Proposed(f, d) => d \in DOMAIN f.data /\ d \notin {e}
    BY ProposedIs
  <2>3. /\ QueueOK(r)
        /\ \A d : Listed(r, d) <=> Listed(f, d) /\ d \notin {e}
    BY <1>1, <2>2, RemoveFromQueueKeeps
  <2>4. h = r
    BY <1>2
  <2> HIDE DEF r
  <2> QED BY <2>1, <2>3, <2>4 DEF Free
<1>3. CASE f.state[e] # "QUEUED"
  <2>1. ~ Listed(f, e) /\ e \notin DOMAIN f.data
    BY <1>1, <1>3 DEF Where
  <2>2. h = f
    BY <1>3
  <2> QED BY <1>1, <2>1, <2>2 DEF Free, PartiesKept
<1> QED BY <1>2, <1>3

\* An entry is queued.
Enqueued(f, e, folk, h) ==
  /\ h \in Finders
  /\ \A x \in Entries : h.state[x] = IF x \in folk \/ x = e THEN "QUEUED" ELSE f.state[x]
  /\ h.old = f.old
  /\ DOMAIN h.data = DOMAIN f.data \cup {e} /\ h.data[e] = folk
  /\ \A x \in DOMAIN f.data : x # e => h.data[x] = f.data[x]
  /\ h.compatible = f.compatible /\ h.proposals = f.proposals
  /\ h.new = Append(f.new, e) /\ h.current = f.current
  /\ PartiesKept(f, h)
  /\ e \notin DOMAIN h.check
  /\ \A x : x # e => (x \in DOMAIN h.check <=> x \in DOMAIN f.check)
  /\ \A x \in DOMAIN h.check : h.check[x] = f.check[x]

LEMMA EnqueuedKeeps ==
  ASSUME NEW f, Core(f), NEW e \in Entries, IsEntry(f, e), f.state[e] # "PROPOSAL",
         e \in Players => f.invite[e] # e, e \in Groups => RolesFit(Folk(f, e)),
         NEW k, Free(f, e, k), NEW h, Enqueued(k, e, Folk(f, e), h)
  PROVE  Core(h) /\ Calm(f, h)
<1> DEFINE folk == Folk(f, e)
<1>1. f \in Finders /\ PartiesApart(f) /\ Where(f) /\ Known(f) /\ QueueOK(f)
  BY CoreIs
<1>2. /\ k \in Finders /\ k.state = f.state /\ k.old = f.old /\ QueueOK(k) /\ k.check = f.check
      /\ k.proposals = f.proposals /\ PartiesKept(f, k)
      /\ \A x : Listed(k, x) <=> Listed(f, x) /\ x # e
      /\ \A x : x \in DOMAIN k.data <=> x \in DOMAIN f.data /\ x # e
      /\ \A x \in DOMAIN k.data : k.data[x] = f.data[x]
  BY DEF Free
<1>3. folk \subseteq Players /\ folk \subseteq Entries
  BY <1>1, FolkIs, Kinds
<1>4. PartiesKept(f, h) /\ h.old = f.old /\ h.proposals = f.proposals
  BY <1>2 DEF Enqueued, PartiesKept
<1>5. ~ Proposed(f, e)
  BY <1>1 DEF Where
<1>6. \A x : Listed(h, x) <=> Listed(k, x) \/ x = e
  <2>1. ToSet(h.new) = ToSet(k.new) \cup {e}
    BY <1>2, FieldsOf, AppendIs DEF Enqueued
  <2>2. h.current = k.current
    BY DEF Enqueued
  <2> QED BY <2>1, <2>2 DEF Listed
<1>7. QueueOK(h)
  <2>1. ProposalsOK(h)
    <3>1. \A x : Proposed(k, x) => h.data[x] = k.data[x]
      <4> SUFFICES ASSUME NEW x, Proposed(k, x) PROVE h.data[x] = k.data[x]
        OBVIOUS
      <4>1. Proposed(f, x)
        BY <1>2 DEF Proposed
      <4>2. x \in DOMAIN k.data /\ x # e
        BY <1>2, <1>5, <4>1, ProposedIs
      <4> QED BY <4>2 DEF Enqueued
    <3>2. ProposalsOK(k) /\ h.proposals = k.proposals
      BY <1>2, <1>4 DEF QueueOK
    <3> QED BY <3>1, <3>2, ProposalsWithout
  <2>2. IsInjective(h.new \o h.current)
    <3>1. k.new \in Seq(Entries) /\ k.current \in Seq(Entries)
      BY <1>2, FieldsOf
    <3>2. IsInjective(k.new) /\ IsInjective(k.current) /\ ToSet(k.new) \cap ToSet(k.current) = {}
      BY <1>2, <3>1, ConcatIs DEF QueueOK
    <3>3. e \notin ToSet(k.new) /\ e \notin ToSet(k.current)
      BY <1>2 DEF Listed
    <3>4. h.new \in Seq(Entries) /\ ToSet(h.new) = ToSet(k.new) \cup {e} /\ IsInjective(h.new)
      BY <3>1, <3>2, <3>3, AppendIs DEF Enqueued
    <3>5. h.current = k.current
      BY DEF Enqueued
    <3> QED BY <3>1, <3>2, <3>3, <3>4, <3>5, ConcatIs
  <2>3. CacheOK(h)
    <3>1. ToSet(h.new) = ToSet(k.new) \cup {e}
      BY <1>2, FieldsOf, AppendIs DEF Enqueued
    <3>2. CacheOK(k) /\ e \notin DOMAIN k.data
      BY <1>2 DEF QueueOK
    <3>3. h.compatible = k.compatible /\ DOMAIN h.data = DOMAIN k.data \cup {e}
      BY DEF Enqueued
    <3> SUFFICES ASSUME NEW set \in DOMAIN h.compatible
                 PROVE  set \subseteq DOMAIN h.data /\ set \cap ToSet(h.new) = {}
      BY DEF CacheOK
    <3>4. set \subseteq DOMAIN k.data /\ set \cap ToSet(k.new) = {}
      BY <3>2, <3>3 DEF CacheOK
    <3> QED BY <3>1, <3>2, <3>3, <3>4
  <2> QED BY <2>1, <2>2, <2>3 DEF QueueOK
<1>8. \A x \in Entries \ {e} : Stays(f, h, x)
  <2> SUFFICES ASSUME NEW x \in Entries \ {e} PROVE Stays(f, h, x)
    OBVIOUS
  <2>1. Listed(h, x) <=> Listed(f, x)
    BY <1>2, <1>6 DEF Listed
  <2>2. Proposed(h, x) <=> Proposed(f, x)
    BY <1>4 DEF Proposed
  <2>3. (x \in DOMAIN h.data <=> x \in DOMAIN f.data) /\ (x \in DOMAIN f.data => h.data[x] = f.data[x])
    BY <1>2 DEF Enqueued
  <2>4. (x \in DOMAIN h.check <=> x \in DOMAIN f.check)
        /\ (x \in DOMAIN f.check => h.check[x].asked = f.check[x].asked)
    BY <1>2 DEF Enqueued
  <2> QED BY <2>1, <2>2, <2>3, <2>4 DEF Stays
<1>9. Folk(h, e) = folk
  BY <1>4 DEF PartiesKept, Folk
<1>10. Placed(h, e)
  <2>1. h.state[e] = "QUEUED" /\ \A p \in folk : h.state[p] = "QUEUED"
    BY <1>3 DEF Enqueued
  <2>2. e \notin DOMAIN h.check /\ Listed(h, e) /\ e \in DOMAIN h.data /\ h.data[e] = folk
    BY <1>6 DEF Enqueued
  <2>3. ~ Proposed(h, e)
    BY <1>4, <1>5 DEF Proposed
  <2>4. e \in Groups => RolesFit(folk)
    OBVIOUS
  <2> HIDE DEF folk
  <2> QED BY <1>9, <2>1, <2>2, <2>3, <2>4 DEF Placed
<1>11. Core(h)
  <2> DEFINE E == {e}
  <2>1. \A x \in Entries : x \in E \/ (\E d \in E : x \in Folk(f, d)) \/ h.state[x] = f.state[x]
    BY <1>2 DEF Enqueued
  <2>2. h.party = f.party /\ h \in Finders
    BY <1>4 DEF PartiesKept, Enqueued
  <2>3. E \in SUBSET Entries /\ (\A d \in E : IsEntry(f, d)) /\ (\A d \in E : Placed(h, d))
        /\ \A x \in Entries \ E : Stays(f, h, x)
    BY <1>8, <1>10
  <2> HIDE DEF E
  <2> QED BY <1>7, <2>1, <2>2, <2>3, EntriesMove
<1>12. \A p \in Players :
         f.state[p] \in Idle /\ IsEntry(f, p) /\ f.invite[p] = p => h.state[p] \in Idle
  <2> SUFFICES ASSUME NEW p \in Players, f.state[p] \in Idle, IsEntry(f, p), f.invite[p] = p
               PROVE  h.state[p] \in Idle
    OBVIOUS
  <2>1. p # e /\ p \in Entries
    BY Kinds
  <2>2. p \notin folk
    BY <1>1, <2>1, FolkApart, FolkIs, Kinds DEF Folk
  <2>3. h.state[p] = f.state[p]
    BY <1>2, <2>1, <2>2 DEF Enqueued
  <2> QED BY <2>3
<1>13. Calm(f, h)
  BY <1>4, <1>12 DEF Calm
<1> QED BY <1>11, <1>13

\* A party is asked for its roles.
AskedRoles(f, g, h) ==
  /\ h \in Finders
  /\ \A x \in Entries : h.state[x] = IF x \in Folk(f, g) \/ x = g THEN "ROLECHECK" ELSE f.state[x]
  /\ h.old = f.old /\ QueueKept(f, h) /\ PartiesKept(f, h)
  /\ DOMAIN h.check = DOMAIN f.check \cup {g} /\ h.check[g].asked = Folk(f, g)
  /\ \A x \in DOMAIN f.check : x # g => h.check[x] = f.check[x]

LEMMA AskedRolesKeeps ==
  ASSUME NEW f, Core(f), NEW g \in Groups, IsEntry(f, g), f.state[g] # "PROPOSAL",
         NEW k, Free(f, g, k), NEW h, AskedRoles(k, g, h)
  PROVE  Core(h) /\ Calm(f, h)
<1> DEFINE folk == Folk(f, g)
<1>1. f \in Finders /\ PartiesApart(f) /\ Where(f) /\ Known(f) /\ QueueOK(f) /\ g \in Entries
  BY CoreIs, Kinds
<1>2. /\ k \in Finders /\ k.state = f.state /\ k.old = f.old /\ QueueOK(k) /\ k.check = f.check
      /\ k.proposals = f.proposals /\ PartiesKept(f, k)
      /\ \A x : Listed(k, x) <=> Listed(f, x) /\ x # g
      /\ \A x : x \in DOMAIN k.data <=> x \in DOMAIN f.data /\ x # g
      /\ \A x \in DOMAIN k.data : k.data[x] = f.data[x]
  BY DEF Free
<1>3. folk \subseteq Players /\ folk \subseteq Entries
  BY <1>1, FolkIs, Kinds
<1>4. PartiesKept(f, h) /\ h.old = f.old /\ h.proposals = f.proposals /\ h.party = f.party
  BY <1>2 DEF AskedRoles, PartiesKept, QueueKept
<1>5. ~ Proposed(f, g)
  BY <1>1 DEF Where
<1>6. \A x : Listed(h, x) <=> Listed(k, x)
  BY DEF AskedRoles, QueueKept, Listed
<1>7. QueueOK(h)
  BY <1>2, SameProposals DEF QueueOK, QueueKept, CacheOK, AskedRoles
<1>8. \A x \in Entries \ {g} : Stays(f, h, x)
  <2> SUFFICES ASSUME NEW x \in Entries \ {g} PROVE Stays(f, h, x)
    OBVIOUS
  <2>1. Listed(h, x) <=> Listed(f, x)
    BY <1>2, <1>6 DEF Listed
  <2>2. Proposed(h, x) <=> Proposed(f, x)
    BY <1>4 DEF Proposed
  <2>3. (x \in DOMAIN h.data <=> x \in DOMAIN f.data) /\ (x \in DOMAIN f.data => h.data[x] = f.data[x])
    BY <1>2 DEF AskedRoles, QueueKept
  <2>4. (x \in DOMAIN h.check <=> x \in DOMAIN f.check)
        /\ (x \in DOMAIN f.check => h.check[x].asked = f.check[x].asked)
    BY <1>2 DEF AskedRoles
  <2> QED BY <2>1, <2>2, <2>3, <2>4 DEF Stays
<1>9. Folk(h, g) = folk /\ Folk(k, g) = folk
  BY <1>2, <1>4 DEF PartiesKept, Folk
<1>10. Placed(h, g)
  <2>1. h.state[g] = "ROLECHECK" /\ \A p \in folk : h.state[p] = "ROLECHECK"
    BY <1>1, <1>3, <1>9 DEF AskedRoles
  <2>2. g \in DOMAIN h.check /\ h.check[g].asked = folk
    BY <1>9 DEF AskedRoles
  <2>3. ~ Proposed(h, g)
    BY <1>4, <1>5 DEF Proposed
  <2>4. ~ Listed(h, g)
    BY <1>2, <1>6
  <2>5. g \notin DOMAIN h.data
    BY <1>2 DEF AskedRoles, QueueKept
  <2> HIDE DEF folk
  <2> QED BY <1>9, <2>1, <2>2, <2>3, <2>4, <2>5 DEF Placed
<1>11. Core(h)
  <2> DEFINE E == {g}
  <2>1. \A x \in Entries : x \in E \/ (\E d \in E : x \in Folk(f, d)) \/ h.state[x] = f.state[x]
    BY <1>2, <1>9 DEF AskedRoles
  <2>2. h \in Finders
    BY DEF AskedRoles
  <2>3. E \in SUBSET Entries /\ (\A d \in E : IsEntry(f, d)) /\ (\A d \in E : Placed(h, d))
        /\ \A x \in Entries \ E : Stays(f, h, x)
    BY <1>1, <1>8, <1>10
  <2> HIDE DEF E
  <2> QED BY <1>4, <1>7, <2>1, <2>2, <2>3, EntriesMove
<1>12. \A p \in Players :
         f.state[p] \in Idle /\ IsEntry(f, p) /\ f.invite[p] = p => h.state[p] \in Idle
  <2> SUFFICES ASSUME NEW p \in Players, f.state[p] \in Idle, IsEntry(f, p)
               PROVE  h.state[p] \in Idle
    OBVIOUS
  <2>1. p # g /\ p \in Entries
    BY Kinds
  <2>2. p \notin Folk(k, g)
    BY <1>9, Kinds DEF Folk, IsEntry
  <2>3. h.state[p] = f.state[p]
    BY <1>2, <2>1, <2>2 DEF AskedRoles
  <2> QED BY <2>3
<1>13. Calm(f, h)
  BY <1>4, <1>12 DEF Calm
<1> QED BY <1>11, <1>13

Told(f, entries, new, h) ==
  /\ h \in Finders
  /\ \A e \in Entries : h.state[e] = IF e \in entries THEN new ELSE f.state[e]
  /\ h.old = f.old /\ QueueKept(f, h) /\ PartiesKept(f, h) /\ h.check = f.check

\* Some are told what they wait for.
LEMMA ToldIs ==
  ASSUME NEW f, f \in Finders, NEW entries, NEW new, new \in States, new \notin Idle,
         NEW h, h = SetState(f, entries, new)
  PROVE  Told(f, entries, new, h)
<1>1. LET t == SetState(f, entries, new)
      IN  /\ t \in Finders
          /\ \A e \in Entries : t.state[e] = IF e \in entries THEN new ELSE f.state[e]
          /\ \A e \in Entries : t.old[e] = IF e \in entries /\ new \in Idle THEN new ELSE f.old[e]
          /\ QueueKept(f, t) /\ PartiesKept(f, t) /\ t.check = f.check
  BY SetStateIs
<1>2. /\ h \in Finders
      /\ \A e \in Entries : h.state[e] = IF e \in entries THEN new ELSE f.state[e]
      /\ QueueKept(f, h) /\ PartiesKept(f, h) /\ h.check = f.check
      /\ \A e \in Entries : h.old[e] = f.old[e]
  BY <1>1
<1>3. h.old \in [Entries -> Idle] /\ f.old \in [Entries -> Idle]
  BY <1>2, FieldsOf
<1> QED BY <1>2, <1>3 DEF Told

\* Somebody has told his roles, or is asked again.
Noted(f, g, h) ==
  /\ h \in Finders /\ h.state = f.state /\ h.old = f.old /\ QueueKept(f, h) /\ PartiesKept(f, h)
  /\ DOMAIN h.check = DOMAIN f.check /\ h.check[g].asked = f.check[g].asked
  /\ \A x \in DOMAIN f.check : x # g => h.check[x] = f.check[x]

LEMMA NotedIs ==
  ASSUME NEW f \in Finders, NEW g \in DOMAIN f.check, NEW asked, asked = f.check[g].asked,
         NEW answered \in Crowds,
         NEW h, h = [f EXCEPT !.check[g] = [asked |-> asked, answered |-> answered]]
  PROVE  Noted(f, g, h)
<1> DEFINE c == [asked |-> asked, answered |-> answered]
           check == [f.check EXCEPT ![g] = c]
<1>1. f.check \in Partial(Groups, Checks)
  BY FieldsOf
<1>2. DOMAIN f.check \subseteq Groups /\ f.check \in [DOMAIN f.check -> Checks]
  BY <1>1, PartialIs
<1>3. c \in Checks /\ c.asked = asked
  BY <1>2 DEF Checks
<1>4. h = WithCheck(f, check)
  BY DEF WithCheck, Finders
<1> HIDE DEF c
<1>5. /\ DOMAIN check = DOMAIN f.check /\ check \in [DOMAIN check -> Checks]
      /\ check[g] = c /\ \A x \in DOMAIN f.check : x # g => check[x] = f.check[x]
  BY <1>2, <1>3
<1> HIDE DEF check
<1>6. check \in Partial(Groups, Checks)
  BY <1>2, <1>5, PartialIs
<1>7. /\ WithCheck(f, check) \in Finders /\ WithCheck(f, check).state = f.state
      /\ WithCheck(f, check).old = f.old
      /\ QueueKept(f, WithCheck(f, check)) /\ PartiesKept(f, WithCheck(f, check))
      /\ WithCheck(f, check).check = check
  BY <1>6, CheckWith
<1> QED BY <1>3, <1>4, <1>5, <1>7 DEF Noted

LEMMA NotedKeeps ==
  ASSUME NEW f, Core(f), NEW g \in DOMAIN f.check, NEW h, Noted(f, g, h)
  PROVE  Core(h) /\ Calm(f, h)
<1>1. QueueKept(f, h) /\ PartiesKept(f, h) /\ h.state = f.state /\ h.old = f.old /\ h \in Finders
  BY DEF Noted
<1>2. QueueOK(h)
  BY <1>1, CoreIs, SameProposals DEF QueueOK, QueueKept, CacheOK
<1>3. \A x \in Entries : Stays(f, h, x)
  <2> SUFFICES ASSUME NEW x \in Entries PROVE Stays(f, h, x)
    OBVIOUS
  <2>1. (Listed(h, x) <=> Listed(f, x)) /\ (Proposed(h, x) <=> Proposed(f, x))
    BY <1>1 DEF Listed, Proposed, QueueKept
  <2>2. h.data = f.data
    BY <1>1 DEF QueueKept
  <2>3. (x \in DOMAIN h.check <=> x \in DOMAIN f.check)
        /\ (x \in DOMAIN f.check => h.check[x].asked = f.check[x].asked)
    BY DEF Noted
  <2> QED BY <2>1, <2>2, <2>3 DEF Stays
<1>4. Core(h)
  <2> DEFINE E == {}
  <2>1. h.party = f.party
    BY <1>1 DEF PartiesKept
  <2>2. \A x \in Entries : x \in E \/ (\E d \in E : x \in Folk(f, d)) \/ h.state[x] = f.state[x]
    BY <1>1
  <2>3. E \in SUBSET Entries /\ (\A d \in E : IsEntry(f, d)) /\ (\A d \in E : Placed(h, d))
        /\ \A x \in Entries \ E : Stays(f, h, x)
    BY <1>3
  <2> HIDE DEF E
  <2> QED BY <1>1, <1>2, <2>1, <2>2, <2>3, EntriesMove
<1>5. Calm(f, h)
  BY <1>1, Kinds DEF Calm, QueueKept
<1> QED BY <1>4, <1>5

\* A role check passes and the party is queued.
LEMMA RoleCheckPassesKeeps ==
  ASSUME NEW f, Core(f), NEW g \in DOMAIN f.check, RolesFit(f.check[g].asked),
         NEW h, h = RoleCheckPasses(f, g)
  PROVE  Core(h) /\ Calm(f, h)
<1> DEFINE folk == Folk(f, g)
           c == CheckEnded(f, {g})
           asked == AskedIn(f, {g})
           s == SetState(c, asked, "QUEUED")
<1>1. f \in Finders /\ Where(f) /\ Known(f) /\ g \in Groups /\ g \in Entries
  BY CoreIs, FieldsOf, PartialIs, Kinds
<1>2. IsEntry(f, g) /\ f.state[g] = "ROLECHECK" /\ f.check[g].asked = folk
  BY <1>1 DEF Where, Known
<1>3. folk \subseteq Players
  BY <1>1, FolkIs
<1>4. /\ c \in Finders /\ c.state = f.state /\ c.old = f.old
      /\ QueueKept(f, c) /\ PartiesKept(f, c)
      /\ DOMAIN c.check = DOMAIN f.check \ {g}
      /\ \A x \in DOMAIN c.check : c.check[x] = f.check[x]
  BY <1>1, CheckEndedIs
<1>5. \A x : x \in asked <=> x \in folk \/ x = g
  BY <1>2 DEF AskedIn
<1>6. "QUEUED" \in States /\ "QUEUED" \notin Idle
  BY DEF States, Idle
<1>7. h = AddQueueData(s, g, folk)
  BY <1>2 DEF RoleCheckPasses
<1> HIDE DEF c, asked, folk
<1>8. /\ s \in Finders
      /\ \A e \in Entries : s.state[e] = IF e \in asked THEN "QUEUED" ELSE c.state[e]
      /\ \A e \in Entries : s.old[e] = IF e \in asked /\ "QUEUED" \in Idle THEN "QUEUED" ELSE c.old[e]
      /\ QueueKept(c, s) /\ PartiesKept(c, s) /\ s.check = c.check
  BY <1>4, <1>6, SetStateIs
<1> HIDE DEF s
<1>9. folk \in Crowds
  BY <1>3 DEF Crowds
<1>10. /\ h \in Finders /\ h.state = s.state /\ h.old = s.old
       /\ DOMAIN h.data = DOMAIN s.data \cup {g} /\ h.data[g] = folk
       /\ \A d \in DOMAIN s.data : d # g => h.data[d] = s.data[d]
       /\ h.compatible = s.compatible /\ h.proposals = s.proposals
       /\ h.new = Append(s.new, g) /\ h.current = s.current
       /\ PartiesKept(s, h) /\ h.check = s.check
  BY <1>1, <1>7, <1>8, <1>9, AddQueueDataIs
<1>11. s.old = f.old
  <2>1. \A e \in Entries : s.old[e] = f.old[e]
    BY <1>4, <1>6, <1>8
  <2> QED BY <1>1, <1>8, <2>1, FieldsOf
<1>12. Enqueued(f, g, folk, h)
  <2>1. \A x \in Entries : h.state[x] = IF x \in folk \/ x = g THEN "QUEUED" ELSE f.state[x]
    BY <1>4, <1>5, <1>8, <1>10
  <2>2. QueueKept(f, s) /\ PartiesKept(f, h)
    BY <1>4, <1>8, <1>10 DEF QueueKept, PartiesKept
  <2>3. h.check = c.check
    BY <1>8, <1>10
  <2> QED BY <1>4, <1>10, <1>11, <2>1, <2>2, <2>3 DEF Enqueued, QueueKept
<1>13. Free(f, g, f)
  <2>1. f.state[g] # "PROPOSAL" /\ f = IF f.state[g] = "QUEUED" THEN RemoveFromQueue(f, {g}) ELSE f
    BY <1>2
  <2> QED BY <1>1, <1>2, <2>1, FreeIs
<1>14. RolesFit(folk)
  BY <1>2
<1> QED BY <1>1, <1>2, <1>12, <1>13, <1>14, Kinds, EnqueuedKeeps DEF folk

LEMMA UpdateRoleCheckKeeps ==
  ASSUME NEW f, Core(f), NEW g \in DOMAIN f.check, NEW p \in f.check[g].asked, NEW chosen,
         NEW h, h = UpdateRoleCheck(f, g, p, chosen)
  PROVE  Core(h) /\ Calm(f, h)
<1> DEFINE asked    == f.check[g].asked \cup {p}
           answered == f.check[g].answered \cup {p}
           noted    == [f EXCEPT !.check[g] = [asked |-> asked, answered |-> answered]]
<1>1. f \in Finders /\ f.check \in [DOMAIN f.check -> Checks]
  BY CoreIs, FieldsOf, PartialIs
<1>2. asked = f.check[g].asked /\ answered \in Crowds
  BY <1>1 DEF Checks, Crowds
<1>3. \/ h = RoleChecksFail(f, {g}) \/ h = noted
      \/ (h = RoleCheckPasses(noted, g) /\ RolesFit(asked)) \/ h = RoleChecksFail(noted, {g})
  BY DEF UpdateRoleCheck
<1> HIDE DEF asked, answered
<1>4. Noted(f, g, noted)
  BY <1>1, <1>2, NotedIs
<1> HIDE DEF noted
<1>5. Core(noted) /\ Calm(f, noted) /\ g \in DOMAIN noted.check
  BY <1>4, NotedKeeps DEF Noted
<1>6. CASE h = RoleChecksFail(f, {g})
  <2>1. {g} \in SUBSET DOMAIN f.check
    OBVIOUS
  <2> QED BY <1>6, <2>1, RoleChecksFailKeeps
<1>7. CASE h = RoleCheckPasses(noted, g) /\ RolesFit(asked)
  <2>1. RolesFit(noted.check[g].asked)
    BY <1>2, <1>4, <1>7 DEF Noted
  <2>2. Core(h) /\ Calm(noted, h)
    BY <1>5, <1>7, <2>1, RoleCheckPassesKeeps
  <2> QED BY <1>5, <2>2, CalmTwice
<1>8. CASE h = RoleChecksFail(noted, {g})
  <2>1. {g} \in SUBSET DOMAIN noted.check
    BY <1>5
  <2>2. Core(h) /\ Calm(noted, h)
    BY <1>5, <1>8, <2>1, RoleChecksFailKeeps
  <2> QED BY <1>5, <2>2, CalmTwice
<1> QED BY <1>3, <1>5, <1>6, <1>7, <1>8

LEMMA ChooseRolesStep ==
  ASSUME FinderOK(finder), NEW p \in Players, NEW chosen, ChooseRoles(p, chosen)
  PROVE  FinderOK(finder')
<1> DEFINE g == GroupOf(finder, p)
<1>1. /\ g \in DOMAIN finder.check /\ p \in finder.check[g].asked
      /\ finder' = UpdateRoleCheck(finder, g, p, chosen)
  BY DEF ChooseRoles
<1> HIDE DEF g
<1>2. Core(finder) /\ InvitesOK(finder) /\ GroupsOK(finder)
  BY DEF FinderOK
<1>3. Core(finder') /\ Calm(finder, finder')
  BY <1>1, <1>2, UpdateRoleCheckKeeps
<1> QED BY <1>2, <1>3, CalmKeeps DEF FinderOK

\* A player without a party joins.
LEMMA JoinAlone ==
  ASSUME NEW f, Core(f), NEW p \in Players, IsEntry(f, p), f.state[p] # "PROPOSAL", f.invite[p] # p,
         f.state[p] # "ROLECHECK",
         NEW k, Free(f, p, k),
         NEW h, h = SetState(AddQueueData(k, p, {p}), {p}, "QUEUED")
  PROVE  Core(h) /\ Calm(f, h)
<1> DEFINE s == AddQueueData(k, p, {p})
<1>1. f \in Finders /\ Where(f) /\ p \in Entries /\ Folk(f, p) = {p} /\ {p} \in Crowds
  BY CoreIs, Kinds, FolkIs DEF Crowds
<1>2. /\ k \in Finders /\ k.state = f.state /\ k.old = f.old /\ k.check = f.check
      /\ PartiesKept(f, k)
  BY DEF Free
<1>3. /\ s \in Finders /\ s.state = k.state /\ s.old = k.old
      /\ DOMAIN s.data = DOMAIN k.data \cup {p} /\ s.data[p] = {p}
      /\ \A d \in DOMAIN k.data : d # p => s.data[d] = k.data[d]
      /\ s.compatible = k.compatible /\ s.proposals = k.proposals
      /\ s.new = Append(k.new, p) /\ s.current = k.current
      /\ PartiesKept(k, s) /\ s.check = k.check
  BY <1>1, <1>2, AddQueueDataIs
<1>4. "QUEUED" \in States /\ "QUEUED" \notin Idle
  BY DEF States, Idle
<1>5. h = SetState(s, {p}, "QUEUED")
  OBVIOUS
<1> HIDE DEF s
<1>6. Told(s, {p}, "QUEUED", h)
  BY <1>3, <1>4, <1>5, ToldIs
<1>7. /\ h \in Finders
      /\ \A e \in Entries : h.state[e] = IF e \in {p} THEN "QUEUED" ELSE s.state[e]
      /\ h.old = k.old /\ QueueKept(s, h) /\ PartiesKept(s, h) /\ h.check = s.check
  BY <1>3, <1>6 DEF Told
<1>8. p \notin DOMAIN k.check
  BY <1>1, <1>2 DEF Where
<1>9. Enqueued(k, p, {p}, h)
  <2>1. \A x \in Entries : h.state[x] = IF x \in {p} \/ x = p THEN "QUEUED" ELSE k.state[x]
    BY <1>3, <1>7
  <2>2. PartiesKept(k, h)
    BY <1>3, <1>7 DEF PartiesKept
  <2>3. h.check = k.check
    BY <1>3, <1>7
  <2> QED BY <1>3, <1>7, <1>8, <2>1, <2>2, <2>3 DEF Enqueued, QueueKept
<1>10. Enqueued(k, p, Folk(f, p), h)
  BY <1>1, <1>9
<1> QED BY <1>1, <1>10, Kinds, EnqueuedKeeps

\* A party joins and its role check starts.
LEMMA JoinTogether ==
  ASSUME NEW f, Core(f), NEW g \in Groups, IsEntry(f, g), f.state[g] # "PROPOSAL",
         f.state[g] # "ROLECHECK",
         NEW k, Free(f, g, k), NEW folk, folk = Folk(f, g), NEW answered \in Crowds,
         NEW h, h = SetState([k EXCEPT !.check = Put(@, g, [asked |-> folk, answered |-> answered])],
                             folk \cup {g}, "ROLECHECK")
  PROVE  AskedRoles(k, g, h)
<1> DEFINE c == [asked |-> folk, answered |-> answered]
           check == Put(k.check, g, c)
           s == WithCheck(k, check)
           whole == folk \cup {g}
<1>1. f \in Finders /\ folk \subseteq Players
  BY CoreIs, Kinds, FolkIs
<1>2. k \in Finders /\ k.state = f.state /\ k.old = f.old /\ k.check = f.check /\ PartiesKept(f, k)
  BY DEF Free
<1>3. c \in Checks /\ c.asked = folk
  BY <1>1 DEF Checks, Crowds
<1>4. h = SetState(s, whole, "ROLECHECK")
  BY DEF WithCheck
<1> HIDE DEF c
<1>5. check \in Partial(Groups, Checks)
  BY <1>2, <1>3, FieldsOf, PutIs
<1>6. DOMAIN check = DOMAIN k.check \cup {g} /\ check[g] = c
      /\ \A x \in DOMAIN k.check : x # g => check[x] = k.check[x]
  BY DEF Put
<1> HIDE DEF check
<1>7. /\ s \in Finders /\ s.state = k.state /\ s.old = k.old
      /\ QueueKept(k, s) /\ PartiesKept(k, s) /\ s.check = check
  BY <1>2, <1>5, CheckWith
<1> HIDE DEF s
<1>8. "ROLECHECK" \in States /\ "ROLECHECK" \notin Idle
  BY DEF States, Idle
<1>9. \A x : x \in whole <=> x \in folk \/ x = g
  OBVIOUS
<1> HIDE DEF whole
<1>10. Told(s, whole, "ROLECHECK", h)
  BY <1>4, <1>7, <1>8, ToldIs
<1>11. /\ h \in Finders
       /\ \A e \in Entries : h.state[e] = IF e \in whole THEN "ROLECHECK" ELSE s.state[e]
       /\ h.old = k.old /\ QueueKept(s, h) /\ PartiesKept(s, h) /\ h.check = s.check
  BY <1>7, <1>10 DEF Told
<1>12. Folk(k, g) = folk
  BY <1>2 DEF Folk, PartiesKept
<1>13. QueueKept(k, h) /\ PartiesKept(k, h) /\ h.check = check
  BY <1>7, <1>11 DEF QueueKept, PartiesKept
<1>14. \A x \in Entries : h.state[x] = IF x \in Folk(k, g) \/ x = g THEN "ROLECHECK" ELSE k.state[x]
  BY <1>7, <1>9, <1>11, <1>12
<1> QED BY <1>3, <1>6, <1>11, <1>12, <1>13, <1>14 DEF AskedRoles

LEMMA JoinStep ==
  ASSUME FinderOK(finder), NEW p \in Players, NEW refused, Join(p, refused), Patient
  PROVE  FinderOK(finder')
<1> DEFINE g  == GroupOf(finder, p)
           e  == IF g = NoGroup THEN p ELSE g
           f  == IF finder.state[e] = "QUEUED" THEN RemoveFromQueue(finder, {e}) ELSE finder
           members == Members(f, g)
           before == IF g \in DOMAIN f.check THEN f.check[g] ELSE [asked |-> {}, answered |-> {}]
           asking == SetState([f EXCEPT !.check = Put(@, g,
                         [asked |-> before.asked \cup members,
                          answered |-> before.answered \ members])],
                         members \cup {g}, "ROLECHECK")
<1>1. /\ finder' = IF g = NoGroup THEN SetState(AddQueueData(f, p, {p}), {p}, "QUEUED")
                   ELSE UpdateRoleCheck(asking, g, p, TRUE)
      /\ finder.invite[p] # p /\ ~ Busy(p)
  BY DEF Join
<1>2. Core(finder) /\ InvitesOK(finder) /\ GroupsOK(finder) /\ finder \in Finders
      /\ PartiesApart(finder) /\ Synced(finder) /\ Where(finder)
  BY CoreIs DEF FinderOK
<1>3. e \in Entries /\ IsEntry(finder, e) /\ p \in Folk(finder, e)
  BY <1>2, EntryOf
<1>4. finder.state[p] \notin {"ROLECHECK", "PROPOSAL"}
  BY <1>1 DEF Busy
<1>5. finder.state[e] = finder.state[p] \/ finder.state[e] \in Idle
  BY <1>2, <1>3, FolkSynced
<1>6. finder.state[e] # "ROLECHECK" /\ finder.state[e] # "PROPOSAL"
  BY <1>4, <1>5, Waiting3
<1>7. Free(finder, e, f)
  <2>1. f = IF finder.state[e] = "QUEUED" THEN RemoveFromQueue(finder, {e}) ELSE finder
    OBVIOUS
  <2> HIDE DEF f, e
  <2> QED BY <1>2, <1>3, <1>6, <2>1, FreeIs
<1> HIDE DEF f
<1>8. Core(finder') /\ Calm(finder, finder')
  <2>1. CASE g = NoGroup
    <3>1. e = p
      BY <2>1
    <3>2. finder' = SetState(AddQueueData(f, p, {p}), {p}, "QUEUED")
      BY <1>1, <2>1
    <3>3. IsEntry(finder, p) /\ finder.state[p] # "PROPOSAL" /\ finder.state[p] # "ROLECHECK"
          /\ finder.invite[p] # p /\ Free(finder, p, f)
      BY <1>1, <1>3, <1>4, <1>7, <3>1
    <3> HIDE DEF e, g
    <3> QED BY <1>2, <3>2, <3>3, JoinAlone
  <2>2. CASE g # NoGroup
    <3>1. e = g /\ g \in Groups
      BY <1>2, <2>2, GroupOfIs
    <3>2. g \notin DOMAIN f.check
      BY <1>2, <1>3, <1>6, <1>7, <3>1 DEF Where, Free
    <3>3. members = Folk(finder, g)
      BY <1>7, <2>2, <3>1 DEF Members, Folk, Free, PartiesKept
    <3>4. before = [asked |-> {}, answered |-> {}]
      BY <3>2
    <3> HIDE DEF members
    <3>5. asking = SetState([f EXCEPT !.check = Put(@, g, [asked |-> members, answered |-> {}])],
                            members \cup {g}, "ROLECHECK")
      <4>1. before.asked \cup members = members /\ before.answered \ members = {}
        BY <3>4
      <4> HIDE DEF before
      <4> QED BY <4>1
    <3>6. finder' = UpdateRoleCheck(asking, g, p, TRUE)
      BY <1>1, <2>2
    <3>7. IsEntry(finder, g) /\ finder.state[g] # "PROPOSAL" /\ finder.state[g] # "ROLECHECK"
          /\ Free(finder, g, f) /\ p \in Folk(finder, g)
      BY <1>3, <1>6, <1>7, <3>1
    <3> HIDE DEF asking, before, e, g
    <3>8. {} \in Crowds
      BY DEF Crowds
    <3>9. AskedRoles(f, g, asking)
      BY <1>2, <3>1, <3>3, <3>5, <3>7, <3>8, JoinTogether
    <3>10. Core(asking) /\ Calm(finder, asking)
      BY <1>2, <3>1, <3>7, <3>9, AskedRolesKeeps
    <3>11. g \in DOMAIN asking.check /\ asking.check[g].asked = Folk(f, g)
      BY <3>9 DEF AskedRoles
    <3>12. p \in asking.check[g].asked
      BY <3>7, <3>11 DEF Free, PartiesKept, Folk
    <3>13. Core(finder') /\ Calm(asking, finder')
      BY <3>6, <3>10, <3>11, <3>12, UpdateRoleCheckKeeps
    <3> QED BY <3>10, <3>13, CalmTwice
  <2> QED BY <2>1, <2>2
<1> QED BY <1>2, <1>8, CalmKeeps DEF FinderOK

-----------------------------------------------------------------------------
(***************************************************************************)
(* A proposal succeeds: MakeNewGroup.                                      *)
(***************************************************************************)
N == INSTANCE FoldLemmas WITH Folded <- Enter

\* The players P of the entries Q are about to enter the group g.
Ready(b, g, P, Q) ==
  /\ b \in Finders /\ PartiesApart(b) /\ g \in Groups /\ P \subseteq Players
  /\ \A p \in P : b.state[p] = "DUNGEON"
  /\ b.state[g] = "PROPOSAL"
  /\ \A k \in Groups : k \in Q => b.state[k] = "PROPOSAL" /\ b.party[k] # <<>>
  /\ \A k \in Groups : k \notin Q => ToSet(b.party[k]) \cap P = {}

\* A party all of whose members have left.
Dissolved(g, Q, h, k) == k \in Groups /\ k \in Q /\ k # g /\ h.party[k] = <<>>

\* Some have entered it.
Gathered(b, g, Q, done, h) ==
  /\ h \in Finders /\ QueueKept(b, h) /\ h.check = b.check /\ h.made = b.made
  /\ \A x \in Entries : h.state[x] = IF Dissolved(g, Q, h, x) THEN "NONE" ELSE b.state[x]
  /\ \A x \in Entries : h.old[x] = IF Dissolved(g, Q, h, x) THEN "NONE" ELSE b.old[x]
  /\ \A k \in Groups : k \notin Q /\ k # g =>
       h.party[k] = b.party[k] /\ (k \in h.lfg <=> k \in b.lfg)
  /\ \A k \in Groups : k \in Q /\ k # g =>
       /\ ToSet(h.party[k]) \subseteq ToSet(b.party[k]) \ done /\ IsInjective(h.party[k])
       /\ k \in h.lfg => h.party[k] # <<>>
  /\ h.lfg \subseteq b.lfg
  /\ ToSet(h.party[g]) = ToSet(b.party[g]) \cup done /\ IsInjective(h.party[g])
  /\ \A q \in Players : h.invite[q] = b.invite[q] \/ h.invite[q] = NoInvite

\* Invitations by others than those who enter stay, and nobody is invited to a
\* party that is no more.
Uninviting(b, g, P, Q, h) ==
  /\ \A q \in Players : q \notin P /\ b.invite[q] \in Players => h.invite[q] = b.invite[q]
  /\ \A q \in Players, k \in Groups : Dissolved(g, Q, h, k) => h.invite[q] # k

LEMMA GatheredApart ==
  ASSUME NEW b, NEW g, NEW P, NEW Q, Ready(b, g, P, Q), NEW done, done \subseteq P,
         NEW h, Gathered(b, g, Q, done, h)
  PROVE  PartiesApart(h)
<1>1. PartiesApart(b) /\ g \in Groups
  BY DEF Ready
<1>2. \A k \in Groups : IsInjective(h.party[k])
  BY <1>1 DEF Gathered, PartiesApart
<1>3. \A k \in Groups : k # g => ToSet(h.party[k]) \subseteq ToSet(b.party[k]) \ (IF k \in Q THEN done ELSE {})
  BY DEF Gathered
<1>4. ToSet(h.party[g]) = ToSet(b.party[g]) \cup done
  BY DEF Gathered
<1>5. \A k \in Groups : k # g => ToSet(h.party[k]) \cap ToSet(h.party[g]) = {}
  <2> SUFFICES ASSUME NEW k \in Groups, k # g PROVE ToSet(h.party[k]) \cap ToSet(h.party[g]) = {}
    OBVIOUS
  <2>1. ToSet(b.party[k]) \cap ToSet(b.party[g]) = {}
    BY <1>1 DEF PartiesApart
  <2>2. ToSet(h.party[k]) \cap done = {}
    <3>1. CASE k \in Q
      BY <1>3, <3>1
    <3>2. CASE k \notin Q
      BY <1>3, <3>2 DEF Ready
    <3> QED BY <3>1, <3>2
  <2> QED BY <1>3, <1>4, <2>1, <2>2
<1>6. \A k, l \in Groups : k # l => ToSet(h.party[k]) \cap ToSet(h.party[l]) = {}
  <2> SUFFICES ASSUME NEW k \in Groups, NEW l \in Groups, k # l
               PROVE  ToSet(h.party[k]) \cap ToSet(h.party[l]) = {}
    OBVIOUS
  <2>1. CASE k = g \/ l = g
    BY <1>5, <2>1
  <2>2. CASE k # g /\ l # g
    <3>1. ToSet(b.party[k]) \cap ToSet(b.party[l]) = {}
      BY <1>1 DEF PartiesApart
    <3> QED BY <1>3, <2>2, <3>1
  <2> QED BY <2>1, <2>2
<1> QED BY <1>2, <1>6 DEF PartiesApart

\* A player of the proposal enters the group after he has left his party.
LEMMA EntersIs ==
  ASSUME NEW f \in Finders, NEW g \in Groups, NEW p \in Players, f.state[p] = "DUNGEON",
         f.state[g] = "PROPOSAL", NEW h, h = AddMember(f, g, p)
  PROVE  PartiesSet(f, [f.party EXCEPT ![g] = Append(f.party[g], p)], f.made, f.lfg, f.invites,
                    [f.invite EXCEPT ![p] = NoInvite], h)
<1> DEFINE q == Append(f.party[g], p)
           party == [f.party EXCEPT ![g] = q]
           invite == [f.invite EXCEPT ![p] = NoInvite]
<1>1. /\ f.party \in [Groups -> Seq(Players)] /\ f.made \in Nat /\ f.lfg \subseteq Groups
      /\ f.invites \in Nat
      /\ f.invite \in [Players -> Players \cup Groups \cup {NoInvite}]
  BY FieldsOf
<1>2. OnAddMember(f, g, p) = f
  BY DEF OnAddMember
<1>3. h = [f EXCEPT !.party[g] = Append(@, p), !.invite[p] = NoInvite]
  BY <1>2 DEF AddMember
<1>4. h = WithParties(f, party, f.made, f.lfg, f.invites, invite)
  BY <1>3 DEF WithParties, Finders
<1>5. q \in Seq(Players)
  BY <1>1, AppendIs
<1> HIDE DEF q
<1>6. party \in [Groups -> Seq(Players)]
  BY <1>1, <1>5
<1>7. invite \in [Players -> Players \cup Groups \cup {NoInvite}]
  BY <1>1
<1> HIDE DEF party, invite
<1>8. PartiesSet(f, party, f.made, f.lfg, f.invites, invite,
                 WithParties(f, party, f.made, f.lfg, f.invites, invite))
  BY <1>1, <1>6, <1>7, PartiesWith
<1>9. PartiesSet(f, party, f.made, f.lfg, f.invites, invite, h)
  BY <1>4, <1>8
<1> QED BY <1>9 DEF party, invite, q

\* One of them, p, has left his party and has not entered yet.
Between(b, g, P, Q, done, p, left) ==
  /\ left \in Finders /\ QueueKept(b, left) /\ left.check = b.check /\ left.made = b.made
  /\ Uninviting(b, g, P, Q, left)
  /\ \A x \in Entries : left.state[x] = IF Dissolved(g, Q, left, x) THEN "NONE" ELSE b.state[x]
  /\ \A x \in Entries : left.old[x] = IF Dissolved(g, Q, left, x) THEN "NONE" ELSE b.old[x]
  /\ \A k \in Groups : k \notin Q /\ k # g =>
       left.party[k] = b.party[k] /\ (k \in left.lfg <=> k \in b.lfg)
  /\ \A k \in Groups : k \in Q /\ k # g =>
       /\ ToSet(left.party[k]) \subseteq ToSet(b.party[k]) \ (done \cup {p})
       /\ IsInjective(left.party[k])
       /\ k \in left.lfg => left.party[k] # <<>>
  /\ left.lfg \subseteq b.lfg
  /\ ToSet(left.party[g]) = ToSet(b.party[g]) \cup done /\ IsInjective(left.party[g])
  /\ p \notin ToSet(left.party[g])
  /\ \A q \in Players : left.invite[q] = b.invite[q] \/ left.invite[q] = NoInvite

\* He enters.
LEMMA OneEnters ==
  ASSUME NEW b, NEW g, NEW P, NEW Q, Ready(b, g, P, Q), NEW done, done \subseteq P, NEW p \in P,
         NEW left, Between(b, g, P, Q, done, p, left),
         NEW h, h = AddMember(left, g, p)
  PROVE  Gathered(b, g, Q, done \cup {p}, h) /\ Uninviting(b, g, P, Q, h)
<1>1. g \in Groups /\ g \in Entries /\ p \in Players /\ p \in Entries /\ p \notin Groups
  BY Kinds DEF Ready
<1>2. left.state[p] = "DUNGEON" /\ left.state[g] = "PROPOSAL" /\ left \in Finders
  BY <1>1 DEF Ready, Dissolved, Between
<1>3. PartiesSet(left, [left.party EXCEPT ![g] = Append(left.party[g], p)], left.made, left.lfg, left.invites,
                 [left.invite EXCEPT ![p] = NoInvite], h)
  BY <1>1, <1>2, EntersIs
<1>4. left.party \in [Groups -> Seq(Players)]
      /\ left.invite \in [Players -> Players \cup Groups \cup {NoInvite}]
  BY <1>2, FieldsOf
<1>5. /\ h \in Finders /\ h.state = left.state /\ h.old = left.old /\ QueueKept(left, h)
      /\ h.check = left.check /\ h.made = left.made /\ h.lfg = left.lfg
      /\ h.party[g] = Append(left.party[g], p)
      /\ \A k \in Groups : k # g => h.party[k] = left.party[k]
      /\ \A q \in Players : h.invite[q] = IF q = p THEN NoInvite ELSE left.invite[q]
  BY <1>1, <1>3, <1>4 DEF PartiesSet
<1>6. ToSet(h.party[g]) = ToSet(left.party[g]) \cup {p} /\ IsInjective(h.party[g])
  BY <1>1, <1>4, <1>5, AppendIs DEF Between
<1>7. \A x : Dissolved(g, Q, h, x) <=> Dissolved(g, Q, left, x)
  BY <1>5 DEF Dissolved
<1>8. QueueKept(b, h)
  BY <1>5 DEF QueueKept, Between
<1>9. Gathered(b, g, Q, done \cup {p}, h)
  <2>1. \A x \in Entries : /\ h.state[x] = IF Dissolved(g, Q, h, x) THEN "NONE" ELSE b.state[x]
                           /\ h.old[x] = IF Dissolved(g, Q, h, x) THEN "NONE" ELSE b.old[x]
    BY <1>5, <1>7 DEF Between
  <2>2. \A q \in Players : h.invite[q] = b.invite[q] \/ h.invite[q] = NoInvite
    BY <1>5 DEF Between
  <2>3. ToSet(h.party[g]) = ToSet(b.party[g]) \cup (done \cup {p})
    BY <1>6 DEF Between
  <2> QED BY <1>5, <1>6, <1>8, <2>1, <2>2, <2>3 DEF Gathered, Between
<1>10. Uninviting(b, g, P, Q, h)
  <2>1. \A q \in Players : q \notin P /\ b.invite[q] \in Players => h.invite[q] = b.invite[q]
    BY <1>5 DEF Uninviting, Between
  <2>2. NoInvite \notin Groups
    BY FinderAssumption, Kinds
  <2>3. \A q \in Players, k \in Groups : Dissolved(g, Q, h, k) => h.invite[q] # k
    BY <1>5, <1>7, <2>2 DEF Uninviting, Between
  <2> QED BY <2>1, <2>3 DEF Uninviting
<1> QED BY <1>9, <1>10

LEMMA EnterKeeps ==
  ASSUME NEW b, NEW g, NEW P, NEW Q, Ready(b, g, P, Q), NEW done, done \subseteq P, NEW p \in P,
         NEW f, Gathered(b, g, Q, done, f), Uninviting(b, g, P, Q, f),
         NEW h, h = Enter(g, f, p)
  PROVE  Gathered(b, g, Q, done \cup {p}, h) /\ Uninviting(b, g, P, Q, h)
<1> DEFINE from == GroupOf(f, p)
           left == IF from = NoGroup THEN f ELSE RemoveMember(f, from, p, TRUE, FALSE)
<1>1. f \in Finders /\ PartiesApart(f) /\ g \in Groups /\ p \in Players /\ b \in Finders
  <2>1. PartiesApart(f)
    BY GatheredApart
  <2> QED BY <2>1 DEF Gathered, Ready
<1>2. h = IF from = g THEN f ELSE AddMember(left, g, p)
  BY DEF Enter
<1>3. /\ from # NoGroup => from \in Groups /\ p \in ToSet(f.party[from])
      /\ \A k \in Groups : p \in ToSet(f.party[k]) => from = k
  BY <1>1, GroupOfIs
<1> HIDE DEF from
<1>4. /\ QueueKept(b, f) /\ f.check = b.check /\ f.made = b.made
      /\ \A x \in Entries : f.state[x] = IF Dissolved(g, Q, f, x) THEN "NONE" ELSE b.state[x]
      /\ \A x \in Entries : f.old[x] = IF Dissolved(g, Q, f, x) THEN "NONE" ELSE b.old[x]
      /\ \A k \in Groups : k \notin Q /\ k # g =>
           f.party[k] = b.party[k] /\ (k \in f.lfg <=> k \in b.lfg)
      /\ \A k \in Groups : k \in Q /\ k # g =>
           /\ ToSet(f.party[k]) \subseteq ToSet(b.party[k]) \ done /\ IsInjective(f.party[k])
           /\ k \in f.lfg => f.party[k] # <<>>
      /\ f.lfg \subseteq b.lfg
      /\ ToSet(f.party[g]) = ToSet(b.party[g]) \cup done /\ IsInjective(f.party[g])
      /\ \A q \in Players : f.invite[q] = b.invite[q] \/ f.invite[q] = NoInvite
  BY DEF Gathered
<1>5. CASE from = g
  <2>1. h = f
    BY <1>2, <1>5
  <2>2. p \in ToSet(f.party[g])
    BY <1>1, <1>3, <1>5, Kinds
  <2>3. ToSet(f.party[g]) = ToSet(b.party[g]) \cup (done \cup {p})
    BY <1>4, <2>2
  <2>4. \A k \in Groups : k \in Q /\ k # g => ToSet(f.party[k]) \subseteq ToSet(b.party[k]) \ (done \cup {p})
    BY <1>3, <1>4, <1>5
  <2>5. Gathered(b, g, Q, done \cup {p}, f)
    BY <1>1, <1>4, <2>3, <2>4 DEF Gathered
  <2> QED BY <2>1, <2>5
<1>6. CASE from = NoGroup
  <2>1. from # g
    BY <1>1, <1>6, Kinds
  <2>2. h = AddMember(f, g, p)
    BY <1>2, <1>6, <2>1
  <2>3. \A k \in Groups : p \notin ToSet(f.party[k])
    BY <1>3, <1>6, Kinds
  <2>4. \A k \in Groups : k \in Q /\ k # g =>
          /\ ToSet(f.party[k]) \subseteq ToSet(b.party[k]) \ (done \cup {p})
          /\ IsInjective(f.party[k])
          /\ k \in f.lfg => f.party[k] # <<>>
    BY <1>4, <2>3
  <2>5. p \notin ToSet(f.party[g])
    BY <1>1, <2>3
  <2>6. Between(b, g, P, Q, done, p, f)
    BY <1>1, <1>4, <2>4, <2>5 DEF Between
  <2> QED BY <2>2, <2>6, OneEnters
<1>7. CASE from # NoGroup /\ from # g
  <2>1. from \in Groups /\ from \in Entries /\ p \in ToSet(f.party[from]) /\ from # g
    BY <1>3, <1>7, Kinds
  <2>2. from \in Q
    BY <1>4, <2>1 DEF Ready
  <2>3. f.party[from] # <<>>
    BY <1>1, <2>1, PartyHas
  <2>4. f.state[from] = "PROPOSAL"
    BY <1>4, <2>1, <2>2, <2>3 DEF Dissolved, Ready
  <2>5. left = RemoveMember(f, from, p, TRUE, FALSE) /\ h = AddMember(left, g, p)
    BY <1>2, <1>7
  <2>6. OnRemoveMember(f, from, p, TRUE) = f
    BY <2>4 DEF OnRemoveMember
  <2>7. IsInjective(f.party[from])
    BY <1>1, <2>1 DEF PartiesApart
  <2>8. Cut(f, from, p, left)
    BY <1>1, <2>1, <2>4, <2>5, <2>6, <2>7, CutIs
  <2> HIDE DEF left
  <2>9. /\ left \in Finders /\ QueueKept(f, left) /\ left.check = f.check /\ left.made = f.made
        /\ \A x \in Entries : x # from => left.state[x] = f.state[x] /\ left.old[x] = f.old[x]
        /\ \A k \in Groups : k # from => left.party[k] = f.party[k]
        /\ ToSet(left.party[from]) \subseteq ToSet(f.party[from]) \ {p} /\ IsInjective(left.party[from])
    BY <2>8 DEF Cut
  <2>10. \/ /\ left.party[from] = <<>> /\ left.lfg = f.lfg \ {from} /\ left.old[from] = "NONE"
            /\ left.state[from] = "NONE"
            /\ \A q \in Players : left.invite[q] = IF f.invite[q] = from THEN NoInvite ELSE f.invite[q]
         \/ /\ left.party[from] # <<>> /\ left.lfg = f.lfg /\ left.old[from] = f.old[from]
            /\ left.state[from] = f.state[from] /\ left.invite = f.invite
    BY <2>8 DEF Cut
  <2>11. QueueKept(b, left) /\ left.check = b.check /\ left.made = b.made
    BY <1>4, <2>9 DEF QueueKept
  <2>12. \A x : x # from => (Dissolved(g, Q, left, x) <=> Dissolved(g, Q, f, x))
    BY <2>9 DEF Dissolved
  <2>13. Dissolved(g, Q, left, from) <=> left.party[from] = <<>>
    BY <2>1, <2>2 DEF Dissolved
  <2>14. ~ Dissolved(g, Q, f, from)
    BY <2>3 DEF Dissolved
  <2>15. \A x \in Entries : left.state[x] = IF Dissolved(g, Q, left, x) THEN "NONE" ELSE b.state[x]
    <3> SUFFICES ASSUME NEW x \in Entries
                 PROVE  left.state[x] = IF Dissolved(g, Q, left, x) THEN "NONE" ELSE b.state[x]
      OBVIOUS
    <3>1. CASE x = from
      BY <1>4, <2>10, <2>13, <2>14, <3>1
    <3>2. CASE x # from
      BY <1>4, <2>9, <2>12, <3>2
    <3> QED BY <3>1, <3>2
  <2>16. \A x \in Entries : left.old[x] = IF Dissolved(g, Q, left, x) THEN "NONE" ELSE b.old[x]
    <3> SUFFICES ASSUME NEW x \in Entries
                 PROVE  left.old[x] = IF Dissolved(g, Q, left, x) THEN "NONE" ELSE b.old[x]
      OBVIOUS
    <3>1. CASE x = from
      BY <1>4, <2>10, <2>13, <2>14, <3>1
    <3>2. CASE x # from
      BY <1>4, <2>9, <2>12, <3>2
    <3> QED BY <3>1, <3>2
  <2>17. \A k \in Groups : k \notin Q /\ k # g =>
           left.party[k] = b.party[k] /\ (k \in left.lfg <=> k \in b.lfg)
    BY <1>4, <2>2, <2>9, <2>10
  <2>18. \A k \in Groups : k \in Q /\ k # g =>
           /\ ToSet(left.party[k]) \subseteq ToSet(b.party[k]) \ (done \cup {p})
           /\ IsInjective(left.party[k])
           /\ k \in left.lfg => left.party[k] # <<>>
    <3> SUFFICES ASSUME NEW k \in Groups, k \in Q, k # g
                 PROVE  /\ ToSet(left.party[k]) \subseteq ToSet(b.party[k]) \ (done \cup {p})
                        /\ IsInjective(left.party[k])
                        /\ k \in left.lfg => left.party[k] # <<>>
      OBVIOUS
    <3>1. CASE k = from
      BY <1>4, <2>9, <2>10, <3>1
    <3>2. CASE k # from
      <4>1. p \notin ToSet(f.party[k])
        BY <1>3, <3>2
      <4>2. k \in left.lfg => k \in f.lfg
        BY <2>10
      <4> QED BY <1>4, <2>9, <3>2, <4>1, <4>2
    <3> QED BY <3>1, <3>2
  <2>19. left.lfg \subseteq b.lfg
    BY <1>4, <2>10
  <2>20. /\ ToSet(left.party[g]) = ToSet(b.party[g]) \cup done /\ IsInjective(left.party[g])
         /\ p \notin ToSet(left.party[g])
    BY <1>1, <1>3, <1>4, <2>1, <2>9
  <2>21. \A q \in Players : left.invite[q] = f.invite[q] \/ left.invite[q] = NoInvite
    BY <2>10
  <2>22. \A q \in Players : left.invite[q] = b.invite[q] \/ left.invite[q] = NoInvite
    BY <1>4, <2>21
  <2>23. Uninviting(b, g, P, Q, left)
    <3>1. \A q \in Players : q \notin P /\ b.invite[q] \in Players => left.invite[q] = b.invite[q]
      <4> SUFFICES ASSUME NEW q \in Players, q \notin P, b.invite[q] \in Players
                   PROVE  left.invite[q] = b.invite[q]
        OBVIOUS
      <4>1. f.invite[q] = b.invite[q] /\ f.invite[q] # from
        BY <2>1, Kinds DEF Uninviting
      <4> QED BY <2>10, <4>1
    <3>2. \A q \in Players, k \in Groups : Dissolved(g, Q, left, k) => left.invite[q] # k
      <4> SUFFICES ASSUME NEW q \in Players, NEW k \in Groups, Dissolved(g, Q, left, k)
                   PROVE  left.invite[q] # k
        OBVIOUS
      <4>1. NoInvite # k
        BY FinderAssumption, Kinds
      <4>2. CASE k = from
        BY <2>10, <2>13, <4>1, <4>2
      <4>3. CASE k # from
        BY <2>12, <2>21, <4>1, <4>3 DEF Uninviting
      <4> QED BY <4>2, <4>3
    <3> QED BY <3>1, <3>2 DEF Uninviting
  <2>24. Between(b, g, P, Q, done, p, left)
    BY <2>9, <2>11, <2>15, <2>16, <2>17, <2>18, <2>19, <2>20, <2>22, <2>23 DEF Between
  <2> QED BY <2>5, <2>24, OneEnters
<1> QED BY <1>5, <1>6, <1>7

LEMMA SetToSeqIs ==
  ASSUME NEW S, IsFiniteSet(S)
  PROVE  /\ SetToSeq(S) \in Seq(S) /\ ToSet(SetToSeq(S)) = S
         /\ Len(SetToSeq(S)) \in Nat
<1> DEFINE n == Cardinality(S)  s == SetToSeq(S)
<1>1. n \in Nat /\ ExistsBijection(1..n, S)
  BY FS_CardinalityType
<1>2. \E x \in [1..n -> S] : IsInjective(x)
  BY <1>1 DEF ExistsBijection, Bijection, Injection
<1>3. s \in [1..n -> S] /\ IsInjective(s)
  BY <1>2 DEF SetToSeq
<1> HIDE DEF s
<1>4. s \in Injection(1..n, S)
  BY <1>3 DEF Injection
<1>5. IsFiniteSet(1..n) /\ Cardinality(1..n) = n
  BY <1>1, FS_Interval
<1>6. s \in Surjection(1..n, S)
  BY <1>4, <1>5, FS_Injection
<1>7. ToSet(s) = S
  BY <1>3, <1>6 DEF Surjection, ToSet
<1>8. s \in Seq(S) /\ Len(s) = n
  BY <1>1, <1>3
<1>9. Len(s) \in Nat
  BY <1>1, <1>8
<1> QED BY <1>7, <1>8, <1>9 DEF s

LEMMA EnterFold ==
  ASSUME NEW g, NEW b, NEW s
  PROVE  EnterInOrder(g, b, s) = N!Fold(g, b, s)
BY DEF EnterInOrder, FoldLeft, MapThenFoldSet, Max, N!Fold, N!FoldedBy, N!Max

\* All have entered.
LEMMA AllEnter ==
  ASSUME NEW b, NEW g, NEW P, NEW Q, Ready(b, g, P, Q),
         NEW s \in Seq(Players), ToSet(s) = P,
         NEW h, h = N!Fold(g, b, s)
  PROVE  Gathered(b, g, Q, P, h) /\ Uninviting(b, g, P, Q, h)
<1> DEFINE n == Len(s)
           done(i) == {s[j] : j \in 1..i}
           I == {t \in (0..n) \X Finders :
                   Gathered(b, g, Q, done(t[1]), t[2]) /\ Uninviting(b, g, P, Q, t[2])}
<1>1. n \in Nat /\ DOMAIN s = 1..n
  OBVIOUS
<1>2. b \in Finders /\ PartiesApart(b)
  BY DEF Ready
<1>3. <<0, b>> \in I
  <2>1. done(0) = {}
    OBVIOUS
  <2>2. \A x : ~ Dissolved(g, Q, b, x)
    BY DEF Ready, Dissolved
  <2>3. QueueKept(b, b)
    BY DEF QueueKept
  <2>4. Gathered(b, g, Q, {}, b)
    BY <1>2, <2>2, <2>3 DEF Gathered, PartiesApart, Ready
  <2>5. Uninviting(b, g, P, Q, b)
    BY <2>2 DEF Uninviting
  <2>6. 0 \in 0..n
    BY <1>1
  <2> HIDE DEF done
  <2>7. Gathered(b, g, Q, done(0), b)
    BY <2>1, <2>4
  <2> QED BY <1>2, <2>5, <2>6, <2>7
<1>4. \A i \in 1..n : \A x : <<i - 1, x>> \in I => <<i, Enter(g, x, s[i])>> \in I
  <2> SUFFICES ASSUME NEW i \in 1..n, NEW x, <<i - 1, x>> \in I
               PROVE  <<i, Enter(g, x, s[i])>> \in I
    OBVIOUS
  <2>1. Gathered(b, g, Q, done(i - 1), x) /\ Uninviting(b, g, P, Q, x)
    OBVIOUS
  <2>2. s[i] \in P /\ done(i - 1) \subseteq P
    BY <1>1 DEF ToSet
  <2>3. done(i) = done(i - 1) \cup {s[i]}
    <3>1. \A j : j \in 1..i <=> j \in 1..(i - 1) \/ j = i
      BY <1>1
    <3> QED BY <3>1
  <2>4. i \in 0..n
    BY <1>1
  <2> HIDE DEF done
  <2>5. Gathered(b, g, Q, done(i), Enter(g, x, s[i])) /\ Uninviting(b, g, P, Q, Enter(g, x, s[i]))
    BY <2>1, <2>2, <2>3, EnterKeeps
  <2>6. Enter(g, x, s[i]) \in Finders
    BY <2>5 DEF Gathered
  <2> QED BY <2>4, <2>5, <2>6
<1> HIDE DEF I
<1>5. <<n, N!Fold(g, b, s)>> \in I
  BY <1>1, <1>3, <1>4, N!FoldKeeps
<1>7. <<n, h>> \in I
  BY <1>5
<1>8. Gathered(b, g, Q, done(n), h) /\ Uninviting(b, g, P, Q, h)
  BY <1>7 DEF I
<1>9. done(n) = P
  BY <1>1 DEF ToSet
<1> QED BY <1>8, <1>9

\* The players of the proposal are told that they have a dungeon, and its
\* entries leave the queue.
FoundOf(f, P, Q, b) ==
  /\ b \in Finders
  /\ \A x \in Entries : b.state[x] = IF x \in P THEN "DUNGEON" ELSE f.state[x]
  /\ \A x \in Entries : b.old[x] = IF x \in P THEN "DUNGEON" ELSE f.old[x]
  /\ \A x : x \in DOMAIN b.data <=> x \in DOMAIN f.data /\ x \notin Q
  /\ \A x \in DOMAIN b.data : b.data[x] = f.data[x]
  /\ DOMAIN b.compatible = {set \in DOMAIN f.compatible : set \cap Q = {}}
  /\ b.new = Without(f.new, Q) /\ b.current = Without(f.current, Q)
  /\ b.proposals = f.proposals /\ b.check = f.check /\ PartiesKept(f, b)

LEMMA FoundIs ==
  ASSUME NEW f \in Finders, NEW P, NEW Q,
         NEW b, b = RemoveFromQueue(SetState(f, P, "DUNGEON"), Q)
  PROVE  FoundOf(f, P, Q, b)
<1> DEFINE s == SetState(f, P, "DUNGEON")
<1>1. "DUNGEON" \in States /\ "DUNGEON" \in Idle
  BY DEF States, Idle
<1>2. LET t == SetState(f, P, "DUNGEON")
      IN  /\ t \in Finders
          /\ \A x \in Entries : t.state[x] = IF x \in P THEN "DUNGEON" ELSE f.state[x]
          /\ \A x \in Entries : t.old[x] = IF x \in P /\ "DUNGEON" \in Idle THEN "DUNGEON" ELSE f.old[x]
          /\ QueueKept(f, t) /\ PartiesKept(f, t) /\ t.check = f.check
  BY <1>1, SetStateIs
<1>3. /\ s \in Finders
      /\ \A x \in Entries : s.state[x] = IF x \in P THEN "DUNGEON" ELSE f.state[x]
      /\ \A x \in Entries : s.old[x] = IF x \in P THEN "DUNGEON" ELSE f.old[x]
      /\ QueueKept(f, s) /\ PartiesKept(f, s) /\ s.check = f.check
  BY <1>1, <1>2
<1>4. b = RemoveFromQueue(s, Q)
  OBVIOUS
<1> HIDE DEF s
<1>5. /\ b \in Finders /\ b.state = s.state /\ b.old = s.old
      /\ DOMAIN b.data = DOMAIN s.data \ Q
      /\ \A e \in DOMAIN b.data : b.data[e] = s.data[e]
      /\ DOMAIN b.compatible = {set \in DOMAIN s.compatible : set \cap Q = {}}
      /\ b.proposals = s.proposals
      /\ b.new = Without(s.new, Q) /\ b.current = Without(s.current, Q)
      /\ PartiesKept(s, b) /\ b.check = s.check
  BY <1>3, <1>4, RemoveFromQueueIs
<1>6. PartiesKept(f, b)
  BY <1>3, <1>5 DEF PartiesKept
<1> QED BY <1>3, <1>5, <1>6 DEF FoundOf, QueueKept

\* The group that the players of a proposal will be in.
Goes(f, proposal, Q, g) ==
  /\ g \in Groups
  /\ \/ g \in Q /\ g \in f.lfg /\ g = proposal.group
     \/ g \notin Q /\ g = f.made + 1 /\ f.party[g] = <<>> /\ proposal.group = NoGroup

LEMMA GoesIs ==
  ASSUME NEW f, FinderOK(f), NEW i \in 1..Len(f.proposals), NEW proposal, proposal = f.proposals[i],
         NEW Q, Q = ToSet(proposal.queues), f.made < Cardinality(Groups),
         NEW b, b.party = f.party, b.made = f.made,
         NEW exists, exists = (proposal.group # NoGroup /\ b.party[proposal.group] # <<>>),
         NEW g, g = IF exists THEN proposal.group ELSE b.made + 1
  PROVE  Goes(f, proposal, Q, g) /\ exists = (proposal.group # NoGroup) /\ (exists <=> g \in Q)
<1>1. Core(f) /\ GroupsOK(f) /\ f \in Finders /\ f.made \in Nat
  BY CoreIs, FieldsOf DEF FinderOK
<1>2. Sound(f, proposal) /\ Holds(f, proposal, Q)
  BY <1>1, ProposalHas DEF Core, ProposalsOK
<1>3. CASE proposal.group # NoGroup
  <2>1. proposal.group \in Q /\ proposal.group \in f.lfg /\ f.lfg \subseteq Groups
    BY <1>1, <1>2, <1>3, FieldsOf DEF Sound, GroupsOK
  <2>2. f.party[proposal.group] # <<>>
    BY <1>2, <2>1 DEF Holds, IsEntry
  <2>3. exists /\ g = proposal.group
    BY <1>3, <2>2
  <2> QED BY <1>3, <2>1, <2>3 DEF Goes
<1>4. CASE proposal.group = NoGroup
  <2>1. ~ exists /\ g = f.made + 1
    BY <1>4
  <2>2. g \in Groups /\ g > f.made
    BY <1>1, <2>1, QueueAssumption, FS_CardinalityType
  <2>3. f.party[g] = <<>>
    BY <1>1, <2>2 DEF GroupsOK
  <2>4. g \notin Q
    BY <1>2, <2>2, <2>3 DEF Holds, IsEntry
  <2> QED BY <1>4, <2>1, <2>2, <2>3, <2>4 DEF Goes
<1> QED BY <1>3, <1>4

LEMMA ReadyIs ==
  ASSUME NEW f, Core(f), NEW proposal, NEW Q, Holds(f, proposal, Q), NEW P, P = DOMAIN proposal.answer,
         NEW g, Goes(f, proposal, Q, g), NEW b \in Finders, PartiesKept(f, b),
         \A x \in Entries : b.state[x] = IF x \in P THEN "DUNGEON" ELSE IF x = g THEN "PROPOSAL" ELSE f.state[x]
  PROVE  Ready(b, g, P, Q)
<1>1. f \in Finders /\ PartiesApart(f) /\ b.party = f.party /\ g \in Groups
  BY CoreIs DEF PartiesKept, Goes
<1>2. P \subseteq Players /\ Q \subseteq Entries
  BY DEF Holds
<1>3. PartiesApart(b)
  BY <1>1 DEF PartiesApart
<1>4. \A p \in P : b.state[p] = "DUNGEON"
  BY <1>2, Kinds
<1>5. b.state[g] = "PROPOSAL"
  BY <1>1, <1>2, Kinds
<1>6. \A k \in Groups : k \in Q => b.state[k] = "PROPOSAL" /\ b.party[k] # <<>>
  <2> SUFFICES ASSUME NEW k \in Groups, k \in Q PROVE b.state[k] = "PROPOSAL" /\ b.party[k] # <<>>
    OBVIOUS
  <2>1. k \in Entries /\ k \notin P
    BY <1>2, Kinds
  <2>2. f.state[k] = "PROPOSAL" /\ IsEntry(f, k)
    BY DEF Holds
  <2> QED BY <1>1, <2>1, <2>2 DEF IsEntry
<1>7. \A k \in Groups : k \notin Q => ToSet(b.party[k]) \cap P = {}
  <2> SUFFICES ASSUME NEW k \in Groups, k \notin Q, NEW p \in P, p \in ToSet(b.party[k]) PROVE FALSE
    OBVIOUS
  <2>1. PICK e \in Q : p \in Folk(f, e) /\ IsEntry(f, e)
    BY DEF Holds
  <2>2. e \in Entries /\ k \in Entries /\ e # k
    BY <1>2, Kinds
  <2>3. Folk(f, k) = ToSet(f.party[k])
    BY DEF Folk
  <2>4. IsEntry(f, k)
    BY <1>1, PartyHas DEF IsEntry
  <2>5. Folk(f, e) \cap Folk(f, k) = {}
    BY <1>1, <2>1, <2>2, <2>4, FolkApart
  <2> QED BY <1>1, <2>1, <2>3, <2>5
<1> QED BY <1>1, <1>2, <1>3, <1>4, <1>5, <1>6, <1>7 DEF Ready

\* What has become of the finder when a proposal has succeeded.
Made(f, i, P, Q, g, h) ==
  /\ h \in Finders
  /\ \A x \in Entries : h.state[x] = IF x \in P \/ x = g THEN "DUNGEON"
                                     ELSE IF x \in Q THEN "NONE" ELSE f.state[x]
  /\ \A x \in Entries : h.old[x] = IF x \in P \/ x = g THEN "DUNGEON"
                                   ELSE IF x \in Q THEN "NONE" ELSE f.old[x]
  /\ \A x : x \in DOMAIN h.data <=> x \in DOMAIN f.data /\ x \notin Q
  /\ \A x \in DOMAIN h.data : h.data[x] = f.data[x]
  /\ DOMAIN h.compatible = {set \in DOMAIN f.compatible : set \cap Q = {}}
  /\ h.new = Without(f.new, Q) /\ h.current = Without(f.current, Q)
  /\ h.proposals = RemoveAt(f.proposals, i) /\ h.check = f.check
  /\ ToSet(h.party[g]) = P /\ IsInjective(h.party[g])
  /\ \A k \in Groups : k # g => h.party[k] = IF k \in Q THEN <<>> ELSE f.party[k]
  /\ \A k \in Groups : k \in h.lfg <=> k = g \/ (k \in f.lfg /\ k \notin Q)
  /\ h.made = f.made \/ (h.made = g /\ g = f.made + 1)
  /\ g <= h.made \/ g \in Q
  /\ \A q \in Players : h.invite[q] = f.invite[q] \/ h.invite[q] = NoInvite
  /\ \A q \in Players : q \notin P /\ f.invite[q] \in Players => h.invite[q] = f.invite[q]
  /\ \A q \in Players, k \in Groups : k \in Q /\ k # g => h.invite[q] # k

\* The last operations, after the players have entered.
Closed(f, i, g, lfg, made, h) ==
  /\ h \in Finders
  /\ \A x \in Entries : h.state[x] = IF x = g THEN "DUNGEON" ELSE f.state[x]
  /\ \A x \in Entries : h.old[x] = IF x = g THEN "DUNGEON" ELSE f.old[x]
  /\ h.data = f.data /\ h.new = f.new /\ h.current = f.current /\ h.compatible = f.compatible
  /\ h.proposals = RemoveAt(f.proposals, i) /\ h.check = f.check /\ h.party = f.party
  /\ h.lfg = lfg /\ h.made = made /\ h.invite = f.invite

LEMMA LastIs ==
  ASSUME NEW f \in Finders, NEW g \in Groups, NEW lfg, lfg = f.lfg \cup {g}, NEW made \in Nat,
         NEW i \in 1..Len(f.proposals),
         NEW h, h = [[SetState(f, {g}, "DUNGEON") EXCEPT !.lfg = lfg, !.made = made]
                       EXCEPT !.proposals = RemoveAt(@, i)]
  PROVE  Closed(f, i, g, lfg, made, h)
<1> DEFINE s == SetState(f, {g}, "DUNGEON")
           m == WithParties(s, s.party, made, lfg, s.invites, s.invite)
           r == RemoveAt(m.proposals, i)
<1>1. "DUNGEON" \in States /\ "DUNGEON" \in Idle
  BY DEF States, Idle
<1>2. LET t == SetState(f, {g}, "DUNGEON")
      IN  /\ t \in Finders
          /\ \A x \in Entries : t.state[x] = IF x \in {g} THEN "DUNGEON" ELSE f.state[x]
          /\ \A x \in Entries : t.old[x] = IF x \in {g} /\ "DUNGEON" \in Idle THEN "DUNGEON" ELSE f.old[x]
          /\ QueueKept(f, t) /\ PartiesKept(f, t) /\ t.check = f.check
  BY <1>1, SetStateIs
<1>3. /\ s \in Finders
      /\ \A x \in Entries : s.state[x] = IF x = g THEN "DUNGEON" ELSE f.state[x]
      /\ \A x \in Entries : s.old[x] = IF x = g THEN "DUNGEON" ELSE f.old[x]
      /\ QueueKept(f, s) /\ PartiesKept(f, s) /\ s.check = f.check
  BY <1>1, <1>2
<1>4. h = [[s EXCEPT !.lfg = lfg, !.made = made] EXCEPT !.proposals = RemoveAt(@, i)]
  OBVIOUS
<1> HIDE DEF s
<1>5. [s EXCEPT !.lfg = lfg, !.made = made] = m
  BY <1>3 DEF WithParties, Finders
<1>6. h = [m EXCEPT !.proposals = RemoveAt(@, i)]
  BY <1>4, <1>5
<1>7. h = WithProposals(m, r)
  BY <1>6 DEF WithProposals
<1>8. lfg \subseteq Groups
  BY FieldsOf
<1>9. PartiesSet(s, s.party, made, lfg, s.invites, s.invite, m)
  BY <1>3, <1>8, FieldsOf, PartiesWith
<1> HIDE DEF m
<1>10. m \in Finders /\ m.proposals = f.proposals /\ i \in 1..Len(m.proposals)
  BY <1>3, <1>9 DEF PartiesSet, QueueKept
<1>11. r \in Seq(Proposals) /\ r = RemoveAt(f.proposals, i)
  BY <1>10, FieldsOf, RemoveAtIs
<1> HIDE DEF r
<1>12. LET t == WithProposals(m, r)
       IN  /\ t \in Finders /\ t.state = m.state /\ t.old = m.old
           /\ t.data = m.data /\ t.new = m.new /\ t.current = m.current
           /\ t.compatible = m.compatible /\ t.proposals = r
           /\ PartiesKept(m, t) /\ t.check = m.check
  BY <1>10, <1>11, ProposalsWith
<1>13. /\ h \in Finders /\ h.state = m.state /\ h.old = m.old
       /\ h.data = m.data /\ h.new = m.new /\ h.current = m.current
       /\ h.compatible = m.compatible /\ h.proposals = r
       /\ PartiesKept(m, h) /\ h.check = m.check
  BY <1>7, <1>12
<1>14. m.state = s.state /\ m.old = s.old /\ QueueKept(s, m) /\ m.check = s.check
       /\ m.party = s.party /\ m.lfg = lfg /\ m.made = made /\ m.invite = s.invite
  BY <1>9 DEF PartiesSet
<1>15. h.party = m.party /\ h.lfg = m.lfg /\ h.made = m.made /\ h.invite = m.invite
  BY <1>13 DEF PartiesKept
<1>16. s.data = f.data /\ s.new = f.new /\ s.current = f.current /\ s.compatible = f.compatible
       /\ m.data = s.data /\ m.new = s.new /\ m.current = s.current /\ m.compatible = s.compatible
  BY <1>3, <1>14 DEF QueueKept
<1>17. s.party = f.party /\ s.invite = f.invite
  BY <1>3 DEF PartiesKept
<1>18. \A x \in Entries : /\ h.state[x] = IF x = g THEN "DUNGEON" ELSE f.state[x]
                          /\ h.old[x] = IF x = g THEN "DUNGEON" ELSE f.old[x]
  BY <1>3, <1>13, <1>14
<1> QED BY <1>3, <1>11, <1>13, <1>14, <1>15, <1>16, <1>17, <1>18 DEF Closed

LEMMA MadeIs ==
  ASSUME NEW f, FinderOK(f), NEW i \in 1..Len(f.proposals), NEW proposal, proposal = f.proposals[i],
         NEW Q, Q = ToSet(proposal.queues), NEW P, P = DOMAIN proposal.answer,
         f.made < Cardinality(Groups), NEW leader \in P,
         NEW h, h = ProposalSucceeds(f, i, leader)
  PROVE  \E g \in Groups : Made(f, i, P, Q, g, h) /\ Goes(f, proposal, Q, g)
<1> DEFINE b == RemoveFromQueue(SetState(f, P, "DUNGEON"), Q)
           exists == proposal.group # NoGroup /\ b.party[proposal.group] # <<>>
           g == IF exists THEN proposal.group ELSE b.made + 1
           order == <<leader>> \o SetToSeq(P \ {leader})
           begun == IF exists THEN b ELSE SetState(b, {g}, "PROPOSAL")
           full == EnterInOrder(g, begun, order)
           lfg == full.lfg \cup {g}
           made == IF exists THEN full.made ELSE g
<1>1. Core(f) /\ f \in Finders /\ PartiesApart(f) /\ f.made \in Nat
  BY CoreIs, FieldsOf DEF FinderOK
<1>2. Holds(f, proposal, Q)
  BY <1>1, ProposalHas
<1>3. P \subseteq Players /\ Q \subseteq Entries
  BY <1>2 DEF Holds
<1>4. h = [[SetState(full, {g}, "DUNGEON") EXCEPT !.lfg = @ \cup {g}, !.made = IF exists THEN @ ELSE g]
             EXCEPT !.proposals = RemoveAt(@, i)]
  BY DEF ProposalSucceeds, MakeNewGroup
<1>5. full = N!Fold(g, begun, order)
  BY EnterFold
<1> HIDE DEF full
<1>6. FoundOf(f, P, Q, b)
  BY <1>1, FoundIs
<1> HIDE DEF b
<1>7. b \in Finders /\ PartiesKept(f, b) /\ b.party = f.party /\ b.made = f.made
  BY <1>6 DEF FoundOf, PartiesKept
<1>8. Goes(f, proposal, Q, g) /\ (exists <=> g \in Q)
  <2>1. \A x : x = exists => x = (proposal.group # NoGroup /\ b.party[proposal.group] # <<>>)
    OBVIOUS
  <2>2. g = IF exists THEN proposal.group ELSE b.made + 1
    OBVIOUS
  <2>3. exists = (proposal.group # NoGroup /\ b.party[proposal.group] # <<>>)
    OBVIOUS
  <2> HIDE DEF g, exists
  <2> QED BY <1>7, <2>2, <2>3, GoesIs
<1> HIDE DEF g, exists
<1>9. g \in Groups /\ g \in Entries /\ g \notin P /\ g \notin Players
  BY <1>3, <1>8, Kinds DEF Goes
<1>10. order \in Seq(Players) /\ ToSet(order) = P
  <2> DEFINE rest == SetToSeq(P \ {leader})
  <2>1. IsFiniteSet(P \ {leader})
    BY <1>3, QueueAssumption, FS_Subset, FS_RemoveElement
  <2>2. rest \in Seq(P \ {leader}) /\ ToSet(rest) = P \ {leader}
    BY <2>1, SetToSeqIs
  <2> HIDE DEF rest
  <2>3. rest \in Seq(Players)
    BY <1>3, <2>2
  <2> DEFINE one == <<leader>>
  <2>4. one \in Seq(Players) /\ ToSet(one) = {leader}
    BY <1>3 DEF ToSet
  <2>5. order = one \o rest
    BY DEF rest
  <2> HIDE DEF order, one
  <2>6. one \o rest \in Seq(Players) /\ ToSet(one \o rest) = ToSet(one) \cup ToSet(rest)
    BY <2>3, <2>4, ConcatIs
  <2> QED BY <2>2, <2>4, <2>5, <2>6
<1> HIDE DEF order
<1>11. /\ begun \in Finders /\ PartiesKept(f, begun) /\ QueueKept(b, begun) /\ begun.check = f.check
       /\ begun.old = b.old
       /\ \A x \in Entries : begun.state[x] = IF x = g THEN "PROPOSAL" ELSE b.state[x]
  <2>1. CASE exists
    <3>1. begun = b
      BY <2>1
    <3>2. f.state[g] = "PROPOSAL"
      BY <1>2, <1>8, <2>1 DEF Holds
    <3>3. b.state[g] = "PROPOSAL"
      BY <1>6, <1>9, <3>2 DEF FoundOf
    <3> QED BY <1>6, <1>7, <3>1, <3>3 DEF FoundOf, QueueKept
  <2>2. CASE ~ exists
    <3>1. begun = SetState(b, {g}, "PROPOSAL")
      BY <2>2
    <3>2. "PROPOSAL" \in States /\ "PROPOSAL" \notin Idle
      BY DEF States, Idle
    <3> HIDE DEF begun
    <3>3. Told(b, {g}, "PROPOSAL", begun)
      BY <1>7, <3>1, <3>2, ToldIs
    <3>4. PartiesKept(f, begun)
      BY <1>7, <3>3 DEF Told, PartiesKept
    <3> QED BY <1>6, <3>3, <3>4 DEF Told, FoundOf
  <2> QED BY <2>1, <2>2
<1> HIDE DEF begun
<1>12. \A x \in Entries : begun.state[x] =
         IF x \in P THEN "DUNGEON" ELSE IF x = g THEN "PROPOSAL" ELSE f.state[x]
  BY <1>6, <1>9, <1>11 DEF FoundOf
<1>13. Ready(begun, g, P, Q)
  BY <1>1, <1>2, <1>8, <1>11, <1>12, ReadyIs
<1>14. Gathered(begun, g, Q, P, full) /\ Uninviting(begun, g, P, Q, full)
  BY <1>5, <1>10, <1>13, AllEnter
<1>15. begun.party = f.party /\ begun.made = f.made /\ begun.lfg = f.lfg /\ begun.invite = f.invite
       /\ begun.proposals = f.proposals /\ begun.data = b.data /\ begun.new = b.new
       /\ begun.current = b.current /\ begun.compatible = b.compatible
  BY <1>6, <1>11 DEF PartiesKept, QueueKept, FoundOf
<1>16. full \in Finders /\ full.made = f.made /\ full.proposals = f.proposals
  BY <1>14, <1>15 DEF Gathered, QueueKept
<1>17. h = [[SetState(full, {g}, "DUNGEON") EXCEPT !.lfg = lfg, !.made = made]
             EXCEPT !.proposals = RemoveAt(@, i)]
  <2> DEFINE t == SetState(full, {g}, "DUNGEON")
  <2>1. t \in Finders /\ t.lfg = full.lfg /\ t.made = full.made
    <3>1. "DUNGEON" \in States
      BY DEF States
    <3>2. LET u == SetState(full, {g}, "DUNGEON")
          IN  u \in Finders /\ PartiesKept(full, u)
      BY <1>16, <3>1, SetStateIs
    <3> QED BY <3>2 DEF PartiesKept
  <2>2. h = [[t EXCEPT !.lfg = @ \cup {g}, !.made = IF exists THEN @ ELSE g]
              EXCEPT !.proposals = RemoveAt(@, i)]
    BY <1>4
  <2> HIDE DEF t
  <2>3. [t EXCEPT !.lfg = @ \cup {g}, !.made = IF exists THEN @ ELSE g] = [t EXCEPT !.lfg = lfg, !.made = made]
    BY <2>1 DEF Finders
  <2>4. h = [[t EXCEPT !.lfg = lfg, !.made = made] EXCEPT !.proposals = RemoveAt(@, i)]
    BY <2>2, <2>3
  <2> QED BY <2>4 DEF t
<1>18. made \in Nat
  BY <1>1, <1>8, <1>16 DEF Goes
<1>19. /\ lfg = full.lfg \cup {g}
       /\ made = IF exists THEN full.made ELSE g
  OBVIOUS
<1> HIDE DEF lfg, made
<1>20. Closed(full, i, g, lfg, made, h)
  <2>1. i \in 1..Len(full.proposals)
    BY <1>16
  <2> QED BY <1>9, <1>16, <1>17, <1>18, <1>19, <2>1, LastIs
<1>21a. /\ h \in Finders
        /\ \A x \in Entries : h.state[x] = IF x = g THEN "DUNGEON" ELSE full.state[x]
        /\ \A x \in Entries : h.old[x] = IF x = g THEN "DUNGEON" ELSE full.old[x]
        /\ h.data = full.data /\ h.new = full.new /\ h.current = full.current
        /\ h.compatible = full.compatible
        /\ h.proposals = RemoveAt(full.proposals, i) /\ h.check = full.check /\ h.party = full.party
        /\ h.lfg = lfg /\ h.made = made /\ h.invite = full.invite
  BY <1>20 DEF Closed
<1>21. \A k \in Groups : k \in Q /\ k # g => full.party[k] = <<>>
  <2> SUFFICES ASSUME NEW k \in Groups, k \in Q, k # g PROVE full.party[k] = <<>>
    OBVIOUS
  <2>1. ToSet(full.party[k]) \subseteq ToSet(f.party[k]) \ P
    BY <1>14, <1>15 DEF Gathered
  <2>2. ToSet(f.party[k]) \subseteq P
    BY <1>2 DEF Holds, Folk
  <2> QED BY <1>16, <2>1, <2>2, PartyHas
<1>22. \A x : Dissolved(g, Q, full, x) <=> x \in Groups /\ x \in Q /\ x # g
  BY <1>21 DEF Dissolved
<1>23. \A x \in Entries : x \in Q => x \in P \/ x \in Groups
  BY <1>2, Kinds DEF Holds, Folk
<1>24. \A x \in Entries : h.state[x] = IF x \in P \/ x = g THEN "DUNGEON"
                                       ELSE IF x \in Q THEN "NONE" ELSE f.state[x]
  <2> SUFFICES ASSUME NEW x \in Entries
               PROVE  h.state[x] = IF x \in P \/ x = g THEN "DUNGEON"
                                   ELSE IF x \in Q THEN "NONE" ELSE f.state[x]
    OBVIOUS
  <2>1. full.state[x] = IF Dissolved(g, Q, full, x) THEN "NONE" ELSE begun.state[x]
    BY <1>14 DEF Gathered
  <2>2. x \in P => x \notin Groups
    BY <1>3, Kinds
  <2> QED BY <1>12, <1>21a, <1>22, <1>23, <2>1, <2>2
<1>25. \A x \in Entries : h.old[x] = IF x \in P \/ x = g THEN "DUNGEON"
                                     ELSE IF x \in Q THEN "NONE" ELSE f.old[x]
  <2> SUFFICES ASSUME NEW x \in Entries
               PROVE  h.old[x] = IF x \in P \/ x = g THEN "DUNGEON"
                                 ELSE IF x \in Q THEN "NONE" ELSE f.old[x]
    OBVIOUS
  <2>1. full.old[x] = IF Dissolved(g, Q, full, x) THEN "NONE" ELSE begun.old[x]
    BY <1>14 DEF Gathered
  <2>2. x \in P => x \notin Groups
    BY <1>3, Kinds
  <2>3. begun.old[x] = IF x \in P THEN "DUNGEON" ELSE f.old[x]
    BY <1>6, <1>11 DEF FoundOf
  <2> QED BY <1>21a, <1>22, <1>23, <2>1, <2>2, <2>3
<1>26. h.data = b.data /\ h.new = b.new /\ h.current = b.current /\ h.compatible = b.compatible
       /\ h.check = f.check /\ h.proposals = RemoveAt(f.proposals, i)
  BY <1>11, <1>14, <1>15, <1>16, <1>21a DEF Gathered, QueueKept
<1>27. ToSet(h.party[g]) = P /\ IsInjective(h.party[g])
  <2>1. ToSet(h.party[g]) = ToSet(f.party[g]) \cup P /\ IsInjective(h.party[g])
    BY <1>14, <1>15, <1>21a DEF Gathered
  <2>2. ToSet(f.party[g]) \subseteq P
    <3>1. CASE g \in Q
      BY <1>2, <1>9, <3>1 DEF Holds, Folk
    <3>2. CASE g \notin Q
      <4>1. f.party[g] = <<>>
        BY <1>8, <3>2 DEF Goes
      <4> QED BY <1>1, <1>9, <4>1, PartyHas
    <3> QED BY <3>1, <3>2
  <2> QED BY <2>1, <2>2
<1>28. \A k \in Groups : k # g => h.party[k] = IF k \in Q THEN <<>> ELSE f.party[k]
  BY <1>14, <1>15, <1>21a, <1>21 DEF Gathered
<1>29. \A k \in Groups : k \in h.lfg <=> k = g \/ (k \in f.lfg /\ k \notin Q)
  <2> SUFFICES ASSUME NEW k \in Groups PROVE k \in h.lfg <=> k = g \/ (k \in f.lfg /\ k \notin Q)
    OBVIOUS
  <2>1. k \in h.lfg <=> k \in full.lfg \/ k = g
    BY <1>19, <1>21a
  <2>2. k \in Q /\ k # g => k \notin full.lfg
    BY <1>14, <1>21 DEF Gathered
  <2>3. k \notin Q /\ k # g => (k \in full.lfg <=> k \in f.lfg)
    BY <1>14, <1>15 DEF Gathered
  <2> QED BY <2>1, <2>2, <2>3
<1>30. (h.made = f.made \/ (h.made = g /\ g = f.made + 1)) /\ (g <= h.made \/ g \in Q)
  <2>1. CASE exists
    BY <1>8, <1>16, <1>19, <1>21a, <2>1
  <2>2. CASE ~ exists
    <3>1. h.made = g /\ g = f.made + 1
      BY <1>8, <1>19, <1>21a, <2>2 DEF Goes
    <3> QED BY <1>1, <3>1
  <2> QED BY <2>1, <2>2
<1>31. \A q \in Players : h.invite[q] = f.invite[q] \/ h.invite[q] = NoInvite
  BY <1>14, <1>15, <1>21a DEF Gathered
<1>32. \A q \in Players : q \notin P /\ f.invite[q] \in Players => h.invite[q] = f.invite[q]
  BY <1>14, <1>15, <1>21a DEF Uninviting
<1>33. \A q \in Players, k \in Groups : k \in Q /\ k # g => h.invite[q] # k
  BY <1>14, <1>21a, <1>22 DEF Uninviting
<1>34. Made(f, i, P, Q, g, h)
  BY <1>6, <1>21a, <1>24, <1>25, <1>26, <1>27, <1>28, <1>29, <1>30, <1>31, <1>32, <1>33 DEF Made, FoundOf
<1> QED BY <1>8, <1>9, <1>34

OthersStay(f, i, Q, h) ==
  /\ ProposalsOK(h)
  /\ \A e \in Q : ~ Proposed(h, e)
  /\ \A e : e \notin Q => (Proposed(h, e) <=> Proposed(f, e))
  /\ \A j \in 1..Len(h.proposals) : \E l \in 1..Len(f.proposals) : l # i /\ h.proposals[j] = f.proposals[l]

\* The other proposals do not depend on one that goes.
LEMMA OthersStayIs ==
  ASSUME NEW f, Core(f), NEW i \in 1..Len(f.proposals), NEW Q, Q = ToSet(f.proposals[i].queues),
         NEW h, h.proposals = RemoveAt(f.proposals, i),
         \A e \in DOMAIN f.data : e \notin Q => h.data[e] = f.data[e]
  PROVE  OthersStay(f, i, Q, h)
<1>1. f \in Finders /\ ProposalsOK(f)
  BY CoreIs DEF QueueOK
<1>2. LeftOf(f, i, h)
  BY <1>1, ProposalsLeft
<1>3. PICK k \in [1..Len(h.proposals) -> 1..Len(f.proposals)] :
            /\ \A j \in 1..Len(h.proposals) : k[j] # i /\ h.proposals[j] = f.proposals[k[j]]
            /\ \A j, l \in 1..Len(h.proposals) : j # l => k[j] # k[l]
            /\ \A l \in 1..Len(f.proposals) : l # i => \E j \in 1..Len(h.proposals) : l = k[j]
  BY <1>2 DEF LeftOf
<1>4. ASSUME NEW j \in 1..Len(h.proposals) PROVE ToSet(h.proposals[j].queues) \cap Q = {}
  <2>1. k[j] \in 1..Len(f.proposals) /\ k[j] # i /\ h.proposals[j] = f.proposals[k[j]]
    BY <1>3
  <2> QED BY <1>1, <2>1 DEF ProposalsOK
<1>5. \A e \in Q : ~ Proposed(h, e)
  BY <1>4 DEF Proposed
<1>6. ASSUME NEW e, e \notin Q PROVE Proposed(h, e) <=> Proposed(f, e)
  <2>1. ASSUME Proposed(h, e) PROVE Proposed(f, e)
    <3>1. PICK j \in 1..Len(h.proposals) : e \in ToSet(h.proposals[j].queues)
      BY <2>1 DEF Proposed
    <3>2. k[j] \in 1..Len(f.proposals) /\ h.proposals[j] = f.proposals[k[j]]
      BY <1>3
    <3> QED BY <3>1, <3>2 DEF Proposed
  <2>2. ASSUME Proposed(f, e) PROVE Proposed(h, e)
    <3>1. PICK l \in 1..Len(f.proposals) : e \in ToSet(f.proposals[l].queues)
      BY <2>2 DEF Proposed
    <3>2. l # i
      BY <1>6, <3>1
    <3>3. PICK j \in 1..Len(h.proposals) : l = k[j]
      BY <1>3, <3>2
    <3>4. h.proposals[j] = f.proposals[l]
      BY <1>3, <3>3
    <3> QED BY <3>1, <3>4 DEF Proposed
  <2> QED BY <2>1, <2>2
<1>7. ASSUME NEW j \in 1..Len(h.proposals)
      PROVE  Sound(h, h.proposals[j]) /\ h.proposals[j].announced
  <2> DEFINE P == h.proposals[j]
  <2>1. P = f.proposals[k[j]] /\ k[j] \in 1..Len(f.proposals)
    BY <1>3
  <2>2. Sound(f, P) /\ P.announced
    BY <1>1, <2>1 DEF ProposalsOK
  <2>3. \A e \in ToSet(P.queues) : e \in DOMAIN f.data
    BY <2>1, ProposedIs DEF Proposed
  <2>4. \A e \in ToSet(P.queues) : h.data[e] = f.data[e]
    BY <1>4, <2>3
  <2> HIDE DEF P
  <2>5. UNION {h.data[e] : e \in ToSet(P.queues)} = UNION {f.data[e] : e \in ToSet(P.queues)}
    BY <2>4
  <2>6. Sound(h, P)
    BY <2>2, <2>4, <2>5 DEF Sound
  <2> QED BY <2>2, <2>6 DEF P
<1>8. \A j, l \in 1..Len(h.proposals) :
        j # l => ToSet(h.proposals[j].queues) \cap ToSet(h.proposals[l].queues) = {}
  <2> SUFFICES ASSUME NEW j \in 1..Len(h.proposals), NEW l \in 1..Len(h.proposals), j # l
               PROVE  ToSet(h.proposals[j].queues) \cap ToSet(h.proposals[l].queues) = {}
    OBVIOUS
  <2>1. k[j] # k[l] /\ k[j] \in 1..Len(f.proposals) /\ k[l] \in 1..Len(f.proposals)
    BY <1>3
  <2>2. h.proposals[j] = f.proposals[k[j]] /\ h.proposals[l] = f.proposals[k[l]]
    BY <1>3
  <2>3. ToSet(f.proposals[k[j]].queues) \cap ToSet(f.proposals[k[l]].queues) = {}
    BY <1>1, <2>1 DEF ProposalsOK
  <2> QED BY <2>2, <2>3
<1>9. ProposalsOK(h)
  BY <1>7, <1>8 DEF ProposalsOK
<1>10. \A j \in 1..Len(h.proposals) : \E l \in 1..Len(f.proposals) : l # i /\ h.proposals[j] = f.proposals[l]
  <2> SUFFICES ASSUME NEW j \in 1..Len(h.proposals)
               PROVE  \E l \in 1..Len(f.proposals) : l # i /\ h.proposals[j] = f.proposals[l]
    OBVIOUS
  <2> WITNESS k[j] \in 1..Len(f.proposals)
  <2> QED BY <1>3
<1> QED BY <1>5, <1>6, <1>9, <1>10 DEF OthersStay

Delisted(f, Q, k) ==
  /\ IsInjective(k.new \o k.current)
  /\ ToSet(k.new) = ToSet(f.new) \ Q
  /\ \A e : Listed(k, e) <=> Listed(f, e) /\ e \notin Q

LEMMA DelistedIs ==
  ASSUME NEW f, f \in Finders, IsInjective(f.new \o f.current), NEW Q, NEW k,
         k.new = Without(f.new, Q), k.current = Without(f.current, Q)
  PROVE  Delisted(f, Q, k)
BY ListsWithout DEF Delisted

\* The entries of a proposal that has succeeded are in the queue no more; the
\* parties are still those of before.
InOldParties(f, P, Q, h, k) ==
  /\ k \in Finders /\ k.party = f.party /\ k.check = f.check /\ SameQueue(h, k)
  /\ \A x \in Entries : k.state[x] = IF x \in P \/ x \in Q THEN "DUNGEON" ELSE f.state[x]

LEMMA MadeCore ==
  ASSUME NEW f, Core(f), NEW i \in 1..Len(f.proposals), NEW proposal, proposal = f.proposals[i],
         NEW Q, NEW P, NEW g, Q = ToSet(proposal.queues), P = DOMAIN proposal.answer,
         Holds(f, proposal, Q),
         NEW h, Made(f, i, P, Q, g, h), NEW k, InOldParties(f, P, Q, h, k)
  PROVE  Core(k)
<1>0. /\ k \in Finders /\ k.party = f.party /\ k.check = f.check /\ SameQueue(h, k)
      /\ \A x \in Entries : k.state[x] = IF x \in P \/ x \in Q THEN "DUNGEON" ELSE f.state[x]
  BY DEF InOldParties
<1>1. f \in Finders /\ IsInjective(f.new \o f.current) /\ CacheOK(f)
  BY CoreIs DEF QueueOK
<1>2. /\ \A x : x \in DOMAIN h.data <=> x \in DOMAIN f.data /\ x \notin Q
      /\ \A x \in DOMAIN h.data : h.data[x] = f.data[x]
      /\ DOMAIN h.compatible = {set \in DOMAIN f.compatible : set \cap Q = {}}
      /\ h.new = Without(f.new, Q) /\ h.current = Without(f.current, Q)
      /\ h.proposals = RemoveAt(f.proposals, i)
  BY DEF Made
<1>3. /\ k.data = h.data /\ k.new = h.new /\ k.current = h.current
      /\ DOMAIN k.compatible = DOMAIN h.compatible /\ k.proposals = h.proposals
  BY <1>0 DEF SameQueue
<1>4. /\ \A e \in Q : e \in Entries /\ IsEntry(f, e) /\ e \notin DOMAIN f.check
      /\ \A p : p \in P <=> \E e \in Q : p \in Folk(f, e)
  BY DEF Holds
<1>5. OthersStay(f, i, Q, k)
  <2>1. \A e \in DOMAIN f.data : e \notin Q => k.data[e] = f.data[e]
    BY <1>2, <1>3
  <2>2. k.proposals = RemoveAt(f.proposals, i)
    BY <1>2, <1>3
  <2> QED BY <2>1, <2>2, OthersStayIs
<1>6. /\ IsInjective(k.new \o k.current)
      /\ ToSet(k.new) = ToSet(f.new) \ Q
      /\ \A e : Listed(k, e) <=> Listed(f, e) /\ e \notin Q
  <2>1. k.new = Without(f.new, Q) /\ k.current = Without(f.current, Q)
    BY <1>2, <1>3
  <2>2. Delisted(f, Q, k)
    BY <1>1, <2>1, DelistedIs
  <2> QED BY <2>2 DEF Delisted
<1>7. CacheOK(k)
  <2>1. DOMAIN k.data = DOMAIN f.data \ Q
    BY <1>2, <1>3
  <2>2. DOMAIN k.compatible = {set \in DOMAIN f.compatible : set \cap Q = {}}
    BY <1>2, <1>3
  <2> QED BY <1>1, <1>6, <2>1, <2>2, CacheWithout
<1>8. QueueOK(k)
  BY <1>5, <1>6, <1>7 DEF QueueOK, OthersStay
<1>9. ASSUME NEW e \in Q PROVE Placed(k, e)
  <2>1. ~ Listed(k, e) /\ ~ Proposed(k, e) /\ e \notin DOMAIN k.data /\ e \notin DOMAIN k.check
    BY <1>0, <1>2, <1>3, <1>4, <1>5, <1>6 DEF OthersStay
  <2>2. k.state[e] = "DUNGEON"
    BY <1>0, <1>4
  <2>3. Folk(k, e) = Folk(f, e)
    BY <1>0 DEF Folk
  <2>4. \A p \in Folk(k, e) : k.state[p] = "DUNGEON"
    BY <1>0, <1>1, <1>4, <2>3, FolkIs, Kinds
  <2> QED BY <2>1, <2>2, <2>4 DEF Placed
<1>10. \A x \in Entries \ Q : Stays(f, k, x)
  BY <1>0, <1>2, <1>3, <1>5, <1>6 DEF Stays, OthersStay
<1>11. \A x \in Entries : x \in Q \/ (\E e \in Q : x \in Folk(f, e)) \/ k.state[x] = f.state[x]
  BY <1>0, <1>4
<1>12. Q \in SUBSET Entries /\ \A e \in Q : IsEntry(f, e)
  BY <1>4
<1> QED BY <1>0, <1>8, <1>9, <1>10, <1>11, <1>12, EntriesMove

\* The parties of a proposal that has succeeded.
PartiesMade(f, P, Q, g, h) ==
  /\ PartiesApart(h) /\ Synced(h)
  /\ f.state[g] = "PROPOSAL" \/ f.state[g] \in Idle
  /\ \A k \in Groups : k \in Q \/ k = g \/ ToSet(f.party[k]) \cap P = {}
  /\ \A k \in Groups : k \in Q \/ k = g => ToSet(f.party[k]) \subseteq P

LEMMA MadeParties ==
  ASSUME NEW f, Core(f), NEW i, NEW Q, NEW P, NEW proposal, P = DOMAIN proposal.answer,
         Holds(f, proposal, Q), NEW g, Goes(f, proposal, Q, g), NEW h, Made(f, i, P, Q, g, h)
  PROVE  PartiesMade(f, P, Q, g, h)
<1>1. f \in Finders /\ PartiesApart(f) /\ Synced(f)
  BY CoreIs
<1>2. P \subseteq Players /\ Q \subseteq Entries /\ g \in Groups
  BY DEF Holds, Goes
<1>3. /\ \A x \in Entries : h.state[x] = IF x \in P \/ x = g THEN "DUNGEON"
                                         ELSE IF x \in Q THEN "NONE" ELSE f.state[x]
      /\ ToSet(h.party[g]) = P /\ IsInjective(h.party[g])
      /\ \A k \in Groups : k # g => h.party[k] = IF k \in Q THEN <<>> ELSE f.party[k]
      /\ h \in Finders
  BY DEF Made
<1>4. ASSUME NEW k \in Groups, k \notin Q PROVE ToSet(f.party[k]) \cap P = {}
  <2> SUFFICES ASSUME NEW p \in ToSet(f.party[k]), p \in P PROVE FALSE
    OBVIOUS
  <2>1. PICK e \in Q : p \in Folk(f, e)
    BY DEF Holds
  <2>2. IsEntry(f, e) /\ e \in Entries
    BY DEF Holds
  <2>3. CASE e \in Groups
    <3>1. p \in ToSet(f.party[e]) /\ e # k
      BY <1>4, <2>1, <2>3 DEF Folk
    <3> QED BY <1>1, <2>3, <3>1 DEF PartiesApart
  <2>4. CASE e \notin Groups
    BY <2>1, <2>2, <2>4 DEF Folk, IsEntry
  <2> QED BY <2>3, <2>4
<1>5. ASSUME NEW k \in Groups, k \in Q PROVE ToSet(f.party[k]) \subseteq P
  BY <1>5 DEF Holds, Folk
<1>6. g \notin Q => f.party[g] = <<>> /\ ToSet(f.party[g]) = {} /\ f.state[g] \in Idle
  <2>1. g \notin Q => f.party[g] = <<>>
    BY DEF Goes
  <2> QED BY <1>1, <1>2, <2>1, PartyHas DEF Synced
<1>7. g \in Q => f.state[g] = "PROPOSAL"
  BY DEF Holds
<1>8. PartiesApart(h)
  <2>1. \A k \in Groups : IsInjective(h.party[k])
    <3> SUFFICES ASSUME NEW k \in Groups PROVE IsInjective(h.party[k])
      OBVIOUS
    <3>1. IsInjective(<<>>)
      BY DEF IsInjective
    <3> QED BY <1>1, <1>3, <3>1 DEF PartiesApart
  <2>2. ASSUME NEW k \in Groups, NEW l \in Groups, k # l, l # g PROVE ToSet(h.party[k]) \cap ToSet(h.party[l]) = {}
    <3>1. ToSet(<<>>) = {}
      BY DEF ToSet
    <3>2. CASE l \in Q
      BY <1>3, <2>2, <3>1, <3>2
    <3>3. CASE l \notin Q
      <4>1. h.party[l] = f.party[l]
        BY <1>3, <2>2, <3>3
      <4>2. CASE k = g
        BY <1>3, <1>4, <3>3, <4>1, <4>2
      <4>3. CASE k # g /\ k \in Q
        BY <1>3, <3>1, <4>3
      <4>4. CASE k # g /\ k \notin Q
        BY <1>1, <1>3, <2>2, <4>1, <4>4 DEF PartiesApart
      <4> QED BY <4>2, <4>3, <4>4
    <3> QED BY <3>2, <3>3
  <2>3. ASSUME NEW k \in Groups, NEW l \in Groups, k # l PROVE ToSet(h.party[k]) \cap ToSet(h.party[l]) = {}
    BY <2>2, <2>3
  <2> QED BY <2>1, <2>3 DEF PartiesApart
<1>9. Synced(h)
  <2>1. ASSUME NEW k \in Groups, NEW p \in ToSet(h.party[k])
        PROVE  h.state[p] = h.state[k] \/ (h.state[p] \in Idle /\ h.state[k] \in Idle)
    <3>1. p \in Entries /\ k \in Entries
      BY <1>3, <2>1, PartyHas, Kinds
    <3>2. CASE k = g
      BY <1>3, <2>1, <3>1, <3>2
    <3>3. CASE k # g /\ k \in Q
      <4>1. ToSet(<<>>) = {}
        BY DEF ToSet
      <4> QED BY <1>3, <2>1, <3>3, <4>1
    <3>4. CASE k # g /\ k \notin Q
      <4>1. p \in ToSet(f.party[k]) /\ p \notin P
        BY <1>3, <1>4, <2>1, <3>4
      <4>2. p \in Players /\ p \notin Groups /\ k \notin P
        BY <1>1, <1>2, <4>1, <3>1, PartyHas, Kinds
      <4>3. p \notin Q
        <5>1. p \in Q => p \in Folk(f, p)
          BY <4>2 DEF Folk
        <5> QED BY <4>1, <5>1 DEF Holds
      <4>4. h.state[p] = f.state[p] /\ h.state[k] = f.state[k]
        BY <1>2, <1>3, <3>1, <3>4, <4>1, <4>2, <4>3
      <4> QED BY <1>1, <4>1, <4>4 DEF Synced
    <3> QED BY <3>2, <3>3, <3>4
  <2>2. ASSUME NEW k \in Groups, h.party[k] = <<>> PROVE h.state[k] \in Idle
    <3>1. k \in Entries /\ k \notin P
      BY <1>2, Kinds
    <3>2. k = g \/ (k \in Q /\ k # g) => h.state[k] \in Idle
      BY <1>3, <3>1 DEF Idle
    <3>3. k # g /\ k \notin Q => h.state[k] = f.state[k] /\ f.party[k] = <<>>
      BY <1>3, <2>2, <3>1
    <3> QED BY <1>1, <3>2, <3>3 DEF Synced
  <2> QED BY <2>1, <2>2 DEF Synced
<1> QED BY <1>4, <1>5, <1>6, <1>7, <1>8, <1>9 DEF PartiesMade

LEMMA MadeKeeps ==
  ASSUME NEW f, Core(f), NEW i \in 1..Len(f.proposals), NEW proposal, proposal = f.proposals[i],
         NEW Q, NEW P, NEW g, Q = ToSet(proposal.queues), P = DOMAIN proposal.answer,
         Goes(f, proposal, Q, g), NEW h, Made(f, i, P, Q, g, h)
  PROVE  Core(h)
<1>1. f \in Finders
  BY CoreIs
<1>2. Holds(f, proposal, Q)
  BY ProposalHas
<1>3. P \subseteq Players /\ Q \subseteq Entries /\ g \in Groups /\ g \in Entries /\ g \notin P
  BY <1>2, Kinds DEF Holds, Goes
<1>4. /\ h \in Finders /\ h.check = f.check
      /\ \A x \in Entries : h.state[x] = IF x \in P \/ x = g THEN "DUNGEON"
                                         ELSE IF x \in Q THEN "NONE" ELSE f.state[x]
      /\ ToSet(h.party[g]) = P
      /\ \A k \in Groups : k # g => h.party[k] = IF k \in Q THEN <<>> ELSE f.party[k]
  BY DEF Made
<1>5. /\ PartiesApart(h) /\ Synced(h)
      /\ f.state[g] = "PROPOSAL" \/ f.state[g] \in Idle
      /\ \A k \in Groups : k \in Q \/ k = g \/ ToSet(f.party[k]) \cap P = {}
      /\ \A k \in Groups : k \in Q \/ k = g => ToSet(f.party[k]) \subseteq P
  <2>1. PartiesMade(f, P, Q, g, h)
    BY <1>2, MadeParties
  <2> QED BY <2>1 DEF PartiesMade
<1> DEFINE states == [x \in Entries |-> IF x \in P \/ x \in Q THEN "DUNGEON" ELSE f.state[x]]
           t == WithStates(h, states, h.old)
           k == WithParties(t, f.party, f.made, f.lfg, f.invites, f.invite)
<1>6. states \in [Entries -> States] /\ h.old \in [Entries -> Idle]
  BY <1>1, <1>4, FieldsOf DEF States
<1>7. /\ t \in Finders /\ t.state = states /\ QueueKept(h, t) /\ t.check = h.check
  <2>1. LET u == WithStates(h, states, h.old)
        IN  /\ u \in Finders /\ u.state = states /\ u.old = h.old
            /\ QueueKept(h, u) /\ PartiesKept(h, u) /\ u.check = h.check
    BY <1>4, <1>6, StatesWith
  <2> QED BY <2>1
<1>8. \A x \in Entries : states[x] = IF x \in P \/ x \in Q THEN "DUNGEON" ELSE f.state[x]
  OBVIOUS
<1> HIDE DEF states, t
<1>9. PartiesSet(t, f.party, f.made, f.lfg, f.invites, f.invite, k)
  BY <1>1, <1>7, FieldsOf, PartiesWith
<1> HIDE DEF k
<1>10. k \in Finders /\ k.party = f.party /\ k.check = f.check /\ k.state = states
  BY <1>4, <1>7, <1>9 DEF PartiesSet
<1>11. SameQueue(h, k) /\ SameQueue(k, h)
  BY <1>7, <1>9 DEF PartiesSet, QueueKept, SameQueue
<1>12. \A x \in Entries : k.state[x] = IF x \in P \/ x \in Q THEN "DUNGEON" ELSE f.state[x]
  BY <1>8, <1>10
<1>13. Core(k)
  <2>1. InOldParties(f, P, Q, h, k)
    BY <1>10, <1>11, <1>12 DEF InOldParties
  <2> QED BY <1>2, <2>1, MadeCore
<1>14. ASSUME NEW e \in Entries, e \in P \/ e \in Q \/ e = g
       PROVE  h.state[e] \in Idle /\ k.state[e] \in Idle
  <2>1. h.state[e] \in Idle
    BY <1>4, <1>14 DEF Idle
  <2>2. e \in P \/ e \in Q => k.state[e] \in Idle
    BY <1>12 DEF Idle
  <2>3. e \notin P /\ e \notin Q => k.state[e] = f.state[e] /\ e = g
    BY <1>12, <1>14
  <2>4. e \notin Q /\ e = g => f.state[e] \in Idle
    <3>1. g \notin Q => f.party[g] = <<>>
      BY DEF Goes
    <3> QED BY <1>3, <3>1, CoreIs DEF Synced
  <2> QED BY <2>1, <2>2, <2>3, <2>4
<1>15. ASSUME NEW e \in Entries, e \notin P, e \notin Q, e # g
       PROVE  IsEntry(h, e) = IsEntry(k, e) /\ Folk(h, e) = Folk(k, e) /\ h.state[e] = k.state[e]
  <2>1. h.state[e] = k.state[e]
    BY <1>4, <1>12, <1>15
  <2>2. CASE e \in Groups
    <3>1. h.party[e] = k.party[e]
      BY <1>4, <1>10, <1>15, <2>2
    <3> QED BY <2>1, <2>2, <3>1 DEF IsEntry, Folk
  <2>3. CASE e \notin Groups
    <3>1. ASSUME NEW l \in Groups PROVE e \in ToSet(h.party[l]) <=> e \in ToSet(k.party[l])
      <4>1. CASE l = g
        BY <1>4, <1>5, <1>10, <1>15, <4>1
      <4>2. CASE l # g /\ l \in Q
        <5>1. ToSet(<<>>) = {} /\ h.party[l] = <<>>
          BY <1>4, <4>2 DEF ToSet
        <5>2. e \notin ToSet(k.party[l])
          BY <1>5, <1>10, <1>15, <4>2
        <5> QED BY <5>1, <5>2
      <4>3. CASE l # g /\ l \notin Q
        BY <1>4, <1>10, <4>3
      <4> QED BY <4>1, <4>2, <4>3
    <3>2. IsEntry(h, e) <=> IsEntry(k, e)
      BY <2>3, <3>1 DEF IsEntry
    <3> QED BY <2>1, <2>3, <3>2 DEF Folk, IsEntry
  <2> QED BY <2>2, <2>3
<1>16. \A e \in Entries : \/ /\ IsEntry(h, e) = IsEntry(k, e) /\ Folk(h, e) = Folk(k, e)
                             /\ \/ h.state[e] = k.state[e]
                                \/ h.state[e] \in Idle /\ k.state[e] \in Idle
                          \/ h.state[e] \in Idle /\ k.state[e] \in Idle
                          \/ ~ IsEntry(h, e) /\ ~ IsEntry(k, e)
  BY <1>14, <1>15
<1>17. h.check = k.check
  BY <1>4, <1>10
<1> QED BY <1>4, <1>5, <1>11, <1>13, <1>16, <1>17, PartiesChange

LEMMA MadeInvites ==
  ASSUME NEW f, FinderOK(f), NEW i \in 1..Len(f.proposals), NEW proposal, proposal = f.proposals[i],
         NEW Q, NEW P, NEW g, Q = ToSet(proposal.queues), P = DOMAIN proposal.answer,
         Goes(f, proposal, Q, g), NEW h, Made(f, i, P, Q, g, h)
  PROVE  InvitesOK(h)
<1>1. Core(f) /\ f \in Finders /\ Synced(f) /\ InvitesOK(f)
  BY CoreIs DEF FinderOK
<1>2. Holds(f, proposal, Q)
  BY <1>1, ProposalHas
<1>3. P \subseteq Players /\ Q \subseteq Entries /\ g \in Groups /\ g \notin Players
  BY <1>2, Kinds DEF Holds, Goes
<1>4. /\ \A x \in Entries : h.state[x] = IF x \in P \/ x = g THEN "DUNGEON"
                                         ELSE IF x \in Q THEN "NONE" ELSE f.state[x]
      /\ ToSet(h.party[g]) = P
      /\ \A k \in Groups : k # g => h.party[k] = IF k \in Q THEN <<>> ELSE f.party[k]
      /\ \A k \in Groups : k \in h.lfg <=> k = g \/ (k \in f.lfg /\ k \notin Q)
      /\ \A q \in Players : h.invite[q] = f.invite[q] \/ h.invite[q] = NoInvite
      /\ \A q \in Players : q \notin P /\ f.invite[q] \in Players => h.invite[q] = f.invite[q]
      /\ \A q \in Players, k \in Groups : k \in Q /\ k # g => h.invite[q] # k
  BY DEF Made
<1>5. \A x \in Entries : x # NoInvite
  BY FinderAssumption
<1>6. ASSUME NEW p \in Players, NEW q \in Players, h.invite[q] = p
      PROVE  f.invite[q] = p /\ f.invite[p] = p /\ IsEntry(f, p) /\ f.state[p] \in Idle
  <2>1. f.invite[q] = p
    BY <1>4, <1>5, <1>6, Kinds
  <2> QED BY <1>1, <2>1 DEF InvitesOK
<1>7. ASSUME NEW p \in Players, NEW q \in Players, h.invite[q] = p
      PROVE  h.invite[p] = p /\ IsEntry(h, p) /\ h.state[p] \in Idle
  <2>1. f.invite[p] = p /\ IsEntry(f, p) /\ f.state[p] \in Idle
    BY <1>6, <1>7
  <2>2. p \notin P
    <3> SUFFICES ASSUME p \in P PROVE FALSE
      OBVIOUS
    <3>1. PICK e \in Q : p \in Folk(f, e)
      BY <1>2 DEF Holds
    <3>2. f.state[e] = "PROPOSAL" /\ e \in Entries
      BY <1>2 DEF Holds
    <3>3. f.state[p] = f.state[e] \/ f.state[e] \in Idle
      BY <1>1, <3>1, <3>2, FolkSynced
    <3> QED BY <2>1, <3>2, <3>3, Waiting3
  <2>3. p \notin Q
    <3>1. p \notin Groups /\ p \in Folk(f, p)
      BY Kinds DEF Folk
    <3> QED BY <1>2, <2>2, <3>1 DEF Holds
  <2>4. h.invite[p] = p
    BY <1>4, <2>1, <2>2
  <2>5. h.state[p] \in Idle
    BY <1>3, <1>4, <2>1, <2>2, <2>3, Kinds
  <2>6. \A k \in Groups : p \notin ToSet(h.party[k])
    <3> SUFFICES ASSUME NEW k \in Groups PROVE p \notin ToSet(h.party[k])
      OBVIOUS
    <3>1. ToSet(<<>>) = {}
      BY DEF ToSet
    <3>2. p \notin ToSet(f.party[k])
      BY <2>1, Kinds DEF IsEntry
    <3> QED BY <1>4, <2>2, <3>1, <3>2
  <2>7. IsEntry(h, p)
    BY <2>6, Kinds DEF IsEntry
  <2> QED BY <2>4, <2>5, <2>7
<1>8. ASSUME NEW p \in Players, NEW q \in Players, NEW r \in Players,
             h.invite[q] = p, h.invite[r] = p, q # p, r # p
      PROVE  q = r
  <2>1. f.invite[q] = p /\ f.invite[r] = p
    BY <1>6, <1>8
  <2> QED BY <1>1, <1>8, <2>1 DEF InvitesOK
<1>9. ASSUME NEW k \in Groups, NEW q \in Players, h.invite[q] = k
      PROVE  h.party[k] # <<>> /\ k \notin h.lfg
  <2>1. f.invite[q] = k
    BY <1>4, <1>5, <1>9, Kinds
  <2>2. f.party[k] # <<>> /\ k \notin f.lfg
    BY <1>1, <2>1 DEF InvitesOK
  <2>3. k # g
    BY <2>2 DEF Goes
  <2>4. k \notin Q
    BY <1>4, <1>9, <2>3
  <2> QED BY <1>4, <2>2, <2>3, <2>4
<1> QED BY <1>7, <1>8, <1>9 DEF InvitesOK

LEMMA MadeGroups ==
  ASSUME NEW f, FinderOK(f), NEW i \in 1..Len(f.proposals), NEW proposal, proposal = f.proposals[i],
         NEW Q, NEW P, NEW g, Q = ToSet(proposal.queues), P = DOMAIN proposal.answer,
         Goes(f, proposal, Q, g), NEW h, Made(f, i, P, Q, g, h)
  PROVE  GroupsOK(h)
<1>1. Core(f) /\ f \in Finders /\ GroupsOK(f) /\ ProposalsOK(f) /\ f.made \in Nat
  BY CoreIs, FieldsOf DEF FinderOK, QueueOK
<1>2. Holds(f, proposal, Q)
  BY <1>1, ProposalHas
<1>3. P \subseteq Players /\ Q \subseteq Entries /\ g \in Groups /\ \A k \in Groups : k \notin P /\ k \in Entries
  BY <1>2, Kinds DEF Holds, Goes
<1>4. /\ \A x \in Entries : h.old[x] = IF x \in P \/ x = g THEN "DUNGEON"
                                       ELSE IF x \in Q THEN "NONE" ELSE f.old[x]
      /\ \A k \in Groups : k # g => h.party[k] = IF k \in Q THEN <<>> ELSE f.party[k]
      /\ \A k \in Groups : k \in h.lfg <=> k = g \/ (k \in f.lfg /\ k \notin Q)
      /\ h.made = f.made \/ (h.made = g /\ g = f.made + 1)
      /\ g <= h.made \/ g \in Q
      /\ h.proposals = RemoveAt(f.proposals, i)
      /\ \A x : x \in DOMAIN h.data <=> x \in DOMAIN f.data /\ x \notin Q
      /\ \A x \in DOMAIN h.data : h.data[x] = f.data[x]
  BY DEF Made
<1>5. ASSUME NEW k \in Groups, h.old[k] # "NONE" PROVE k \in h.lfg
  <2>1. CASE k = g
    BY <1>4, <2>1
  <2>2. CASE k # g
    <3>1. k \notin Q /\ h.old[k] = f.old[k]
      BY <1>3, <1>4, <1>5, <2>2
    <3> QED BY <1>1, <1>4, <1>5, <3>1 DEF GroupsOK
  <2> QED BY <2>1, <2>2
<1>6. ASSUME NEW k \in Groups, h.party[k] # <<>>, k \notin h.lfg PROVE Len(h.party[k]) >= 2
  <2>1. k # g /\ k \notin Q /\ k \notin f.lfg
    BY <1>4, <1>6
  <2> QED BY <1>1, <1>4, <1>6, <2>1 DEF GroupsOK
<1>7. ASSUME NEW k \in Groups, k > h.made PROVE h.party[k] = <<>>
  <2>1. k \in Nat /\ g \in Nat
    BY <1>3, GroupNumbers
  <2>2. h.made \in Nat /\ k > f.made
    BY <1>1, <1>4, <1>7, <2>1
  <2>3. f.party[k] = <<>>
    BY <1>1, <2>2 DEF GroupsOK
  <2>4. k # g
    <3> SUFFICES ASSUME k = g PROVE FALSE
      OBVIOUS
    <3>1. g \in Q
      BY <1>4, <1>7, <2>1, <2>2
    <3>2. f.party[g] # <<>>
      BY <1>2, <1>3, <3>1 DEF Holds, IsEntry
    <3> QED BY <2>3, <3>2
  <2> QED BY <1>4, <2>3, <2>4
<1>8. ASSUME NEW j \in 1..Len(h.proposals) PROVE h.proposals[j].group \in h.lfg \cup {NoGroup}
  <2>1. OthersStay(f, i, Q, h)
    <3>1. \A e \in DOMAIN f.data : e \notin Q => h.data[e] = f.data[e]
      BY <1>4
    <3>2. Q = ToSet(f.proposals[i].queues) /\ h.proposals = RemoveAt(f.proposals, i)
      BY <1>4
    <3> QED BY <1>1, <3>1, <3>2, OthersStayIs
  <2>2. PICK l \in 1..Len(f.proposals) : l # i /\ h.proposals[j] = f.proposals[l]
    BY <2>1 DEF OthersStay
  <2>3. f.proposals[l].group \in f.lfg \cup {NoGroup}
    BY <1>1 DEF GroupsOK
  <2>4. ToSet(f.proposals[l].queues) \cap Q = {}
    BY <1>1, <2>2 DEF ProposalsOK
  <2>5. f.proposals[l].group # NoGroup => f.proposals[l].group \in ToSet(f.proposals[l].queues)
    BY <1>1 DEF ProposalsOK, Sound
  <2>6. f.lfg \subseteq Groups
    BY <1>1, FieldsOf
  <2> QED BY <1>4, <2>2, <2>3, <2>4, <2>5, <2>6
<1> QED BY <1>5, <1>6, <1>7, <1>8 DEF GroupsOK

Succeeded(f, i, P, h) ==
  /\ FinderOK(h)
  /\ P \subseteq Players /\ \A x \in P : h.state[x] = "DUNGEON"
  /\ \A x \in Players : x \notin P => h.state[x] \in {f.state[x], "NONE"}
  /\ \E g \in h.lfg : ToSet(h.party[g]) = P

\* A proposal succeeds: its players are in one group of the finder.
LEMMA SucceedsKeeps ==
  ASSUME NEW f, FinderOK(f), NEW i \in 1..Len(f.proposals), f.made < Cardinality(Groups),
         NEW P, P = DOMAIN f.proposals[i].answer, NEW leader \in P,
         NEW h, h = ProposalSucceeds(f, i, leader)
  PROVE  Succeeded(f, i, P, h)
<1> DEFINE proposal == f.proposals[i]  Q == ToSet(proposal.queues)
<1>1. proposal = f.proposals[i] /\ Q = ToSet(proposal.queues) /\ P = DOMAIN proposal.answer
  OBVIOUS
<1> HIDE DEF proposal, Q
<1>2. PICK g \in Groups : Made(f, i, P, Q, g, h) /\ Goes(f, proposal, Q, g)
  BY <1>1, MadeIs
<1>3. Core(f)
  BY DEF FinderOK
<1>4. Core(h)
  BY <1>1, <1>2, <1>3, MadeKeeps
<1>5. InvitesOK(h)
  BY <1>1, <1>2, MadeInvites
<1>6. GroupsOK(h)
  BY <1>1, <1>2, MadeGroups
<1>7. P \subseteq Players
  <2>1. Holds(f, proposal, Q)
    BY <1>1, <1>3, ProposalHas
  <2> QED BY <1>1, <2>1 DEF Holds
<1>8. /\ \A x \in P : h.state[x] = "DUNGEON"
      /\ g \in h.lfg /\ ToSet(h.party[g]) = P
  BY <1>2, <1>7, Kinds DEF Made
<1>9. \A x \in Players : x \notin P => h.state[x] \in {f.state[x], "NONE"}
  BY <1>2, Kinds DEF Made
<1> QED BY <1>4, <1>5, <1>6, <1>7, <1>8, <1>9 DEF Succeeded, FinderOK

\* Somebody answers.
LEMMA AnswerStep ==
  ASSUME FinderOK(finder), NEW p \in Players, NEW agree, Answer(p, agree)
  PROVE  FinderOK(finder')
<1>1. Core(finder) /\ finder \in Finders /\ InvitesOK(finder) /\ GroupsOK(finder)
  BY CoreIs DEF FinderOK
<1>2. PICK i \in 1..Len(finder.proposals) :
        LET proposal == finder.proposals[i]
            answered == [finder EXCEPT !.proposals[i].answer[p] = "AGREE"]
        IN  /\ p \in DOMAIN proposal.answer
            /\ IF ~agree THEN finder' = Deny(finder, i, p)
               ELSE IF \E q \in DOMAIN proposal.answer \ {p} : proposal.answer[q] # "AGREE"
               THEN finder' = answered
               ELSE /\ finder.made < Cardinality(Groups)
                    /\ \E leader \in DOMAIN proposal.answer :
                          finder' = ProposalSucceeds(answered, i, leader)
  BY DEF Answer
<1> DEFINE answered == WithAnswer(finder, i, p, "AGREE")
<1>3. /\ p \in DOMAIN finder.proposals[i].answer
      /\ \/ finder' = Deny(finder, i, p)
         \/ finder' = answered
         \/ /\ finder.made < Cardinality(Groups)
            /\ \E leader \in DOMAIN finder.proposals[i].answer :
                  finder' = ProposalSucceeds(answered, i, leader)
  BY <1>2 DEF WithAnswer
<1>4. Answered(finder, i, p, "AGREE", answered)
  BY <1>1, <1>3, AnswerIs
<1> HIDE DEF answered
<1>5. FinderOK(answered)
  <2>1. Core(answered) /\ Calm(finder, answered)
    BY <1>1, <1>4, AnswerKeeps
  <2> QED BY <1>1, <2>1, CalmKeeps DEF FinderOK
<1>6. CASE finder' = Deny(finder, i, p)
  <2>1. Core(finder') /\ Calm(finder, finder')
    <3> DEFINE h == finder'  d == finder.proposals[i].entry[p]
    <3>1. h = Deny(finder, i, p)
      BY <1>6
    <3> HIDE DEF h, d
    <3>2. Core(h) /\ Calm(finder, h)
      BY <1>1, <1>3, <3>1, DenyKeeps
    <3> QED BY <3>2 DEF h
  <2> QED BY <1>1, <2>1, CalmKeeps DEF FinderOK
<1>7. CASE finder' = answered
  BY <1>5, <1>7
<1>8. CASE /\ finder.made < Cardinality(Groups)
           /\ \E leader \in DOMAIN finder.proposals[i].answer :
                  finder' = ProposalSucceeds(answered, i, leader)
  <2>1. PICK leader \in DOMAIN finder.proposals[i].answer : finder' = ProposalSucceeds(answered, i, leader)
    BY <1>8
  <2>2. /\ answered.made < Cardinality(Groups) /\ i \in 1..Len(answered.proposals)
        /\ leader \in DOMAIN answered.proposals[i].answer
    BY <1>4, <1>8, <2>1 DEF Answered, PartiesKept
  <2> DEFINE P == DOMAIN answered.proposals[i].answer
  <2>3. leader \in P
    BY <2>2
  <2>4. P = DOMAIN answered.proposals[i].answer
    OBVIOUS
  <2> HIDE DEF P
  <2>5. Succeeded(answered, i, P, finder')
    BY <1>5, <2>1, <2>2, <2>3, <2>4, SucceedsKeeps
  <2> QED BY <2>5 DEF Succeeded
<1> QED BY <1>3, <1>6, <1>7, <1>8

=============================================================================
