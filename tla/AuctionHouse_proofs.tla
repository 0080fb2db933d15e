------------------------ MODULE AuctionHouse_proofs ------------------------
(***************************************************************************)
(* Proofs about the mail and the auction house.                            *)
(***************************************************************************)
EXTENDS AuctionHouse, FoldLemmas

(***************************************************************************)
(* A letter is addressed to a player; the letters players write can be     *)
(* answered and those of the auctioneer ask for no money.                  *)
(***************************************************************************)
Letters ==
  {l \in [to : Players, from : Players \cup {NoPlayer}, kind : {"normal", "auction"},
          checked : {"", "cod", "returned"}, item : Items \cup {Nothing},
          money : Nat, cod : Nat, deleted : BOOLEAN] :
     IF l.kind = "normal" THEN l.from \in Players ELSE l.cod = 0}

Entries ==
  {a \in [item : Items, owner : Players, bidder : Players \cup {NoPlayer}, bid : Nat,
          startbid : Nat, buyout : Nat, deposit : Nat] :
     a.bidder # a.owner /\ (a.bidder = NoPlayer => a.bid = 0)}

IsBox(box) == /\ DOMAIN box \subseteq Letters /\ IsFiniteSet(DOMAIN box)
              /\ box \in [DOMAIN box -> Nat \ {0}]

Purses == /\ gold \in [Players -> Nat] /\ saved \in [Players -> Nat]
          /\ unsaved \in [Players -> Nat] /\ kept \in Int

Goods == bags \in [Players -> SUBSET Items] /\ gone \subseteq Items

House == /\ auctions \in [DOMAIN auctions -> Entries]
         /\ nextId \in Nat \ {0} /\ DOMAIN auctions \subseteq 1 .. nextId - 1

Waiting == pending \in [Players -> Seq(Nat)]

Types == online \subseteq Players /\ Purses /\ Goods /\ IsBox(mail) /\ House /\ Waiting

(***************************************************************************)
(* The inductive invariant.  The deposits charged but not saved are what a *)
(* crash gives back, and what is pending can be looked up.                 *)
(***************************************************************************)
IInv == /\ Types
        /\ CrashGivesBackDeposits
        /\ NotReferencedAnyMore
        /\ ItemInOnePlace
        /\ MoneyBalances

---------------------------------------------------------------------------
(***************************************************************************)
(* What the letters of a mailbox are worth by some measure: the money in   *)
(* them, or how many of them hold a given item.                            *)
(***************************************************************************)
IsMeasure(m) ==
  /\ m \in [Letters -> Nat]
  /\ \A l \in Letters : l.item = Nothing /\ l.money = 0 => m[l] = 0
IsContent(m) ==
  /\ IsMeasure(m)
  /\ \A l, k \in Letters : l.item = k.item /\ l.money = k.money => m[l] = m[k]
Money == [l \in Letters |-> l.money]
Holding(i) == [l \in Letters |-> IF l.item = i THEN 1 ELSE 0]

Weigh(box, m) == [l \in DOMAIN box |-> box[l] * m[l]]
Worth(box, m) == SumFunctionOnSet(Weigh(box, m), DOMAIN box)

LEMMA Measures ==
  /\ IsMeasure(Money) /\ IsContent(Money)
  /\ \A i \in Items : IsMeasure(Holding(i)) /\ IsContent(Holding(i))
BY MailAssumption DEF IsMeasure, IsContent, Money, Holding, Letters

LEMMA OneMore ==
  ASSUME NEW a \in Nat, NEW b \in Nat
  PROVE  a * b \in Nat /\ (a + 1) * b = a * b + b /\ (a - 1) * b = a * b - b
OBVIOUS

LEMMA Weights ==
  ASSUME NEW box, IsBox(box), NEW m, IsMeasure(m)
  PROVE  \A l \in DOMAIN box :
           /\ box[l] \in Nat /\ m[l] \in Nat
           /\ Weigh(box, m)[l] = box[l] * m[l] /\ Weigh(box, m)[l] \in Nat
<1> TAKE l \in DOMAIN box
<1>1. box[l] \in Nat /\ m[l] \in Nat
  BY DEF IsBox, IsMeasure
<1>2. Weigh(box, m)[l] = box[l] * m[l]
  BY DEF Weigh
<1> QED BY <1>1, <1>2, OneMore

LEMMA WorthNat ==
  ASSUME NEW box, IsBox(box), NEW m, IsMeasure(m)
  PROVE  Worth(box, m) \in Nat
BY Weights, SumNat DEF Worth, IsBox

\* A letter more.
LEMMA PutLetter ==
  ASSUME NEW box, IsBox(box), NEW letter \in Letters
  PROVE  /\ IsBox(Put(box, letter))
         /\ \A l \in DOMAIN box \ {letter} :
              l \in DOMAIN Put(box, letter) /\ Put(box, letter)[l] = box[l]
         /\ \A m : IsMeasure(m) => Worth(Put(box, letter), m) = Worth(box, m) + m[letter]
<1> DEFINE new == Put(box, letter)
<1>1. DOMAIN new = DOMAIN box \cup {letter}
  BY DEF Put
<1>2. \A l \in DOMAIN box \ {letter} : new[l] = box[l]
  BY DEF Put, Copies, IsBox
<1>3. new[letter] = (IF letter \in DOMAIN box THEN box[letter] ELSE 0) + 1
  BY DEF Put, Copies
<1>4. \A l \in DOMAIN box : box[l] \in Nat \ {0}
  BY DEF IsBox
<1>5. new = [l \in DOMAIN new |-> new[l]]
  BY DEF Put
<1> HIDE DEF new
<1>6. IsBox(new)
  <2>1. DOMAIN new \subseteq Letters
    BY <1>1 DEF IsBox
  <2>2. IsFiniteSet(DOMAIN new)
    BY <1>1, FS_AddElement DEF IsBox
  <2>3. \A l \in DOMAIN new : new[l] \in Nat \ {0}
    BY <1>1, <1>2, <1>3, <1>4
  <2>4. new \in [DOMAIN new -> Nat \ {0}]
    BY <1>5, <2>3
  <2> QED BY <2>1, <2>2, <2>4 DEF IsBox
<1>7. ASSUME NEW m, IsMeasure(m) PROVE Worth(new, m) = Worth(box, m) + m[letter]
  <2> DEFINE f == Weigh(box, m)
             g == Weigh(new, m)
             S == DOMAIN box
             T == DOMAIN new
  <2>1. \A l \in S : f[l] \in Int /\ f[l] = box[l] * m[l]
    BY <1>7, Weights
  <2>2. \A l \in T : g[l] \in Int /\ g[l] = new[l] * m[l]
    BY <1>6, <1>7, Weights
  <2>3. S \ {letter} = T \ {letter} /\ IsFiniteSet(S) /\ letter \in T
    BY <1>1 DEF IsBox
  <2>4. \A l \in S \ {letter} : g[l] = f[l]
    BY <1>1, <1>2, <2>1, <2>2
  <2>5. m[letter] \in Nat
    BY <1>7 DEF IsMeasure
  <2>6. At(g, T, letter) = At(f, S, letter) + m[letter] /\ At(f, S, letter) \in Int
    <3>1. At(g, T, letter) = new[letter] * m[letter]
      BY <2>2, <2>3 DEF At
    <3>2. CASE letter \in S
      <4>1. At(f, S, letter) = box[letter] * m[letter] /\ box[letter] \in Nat
        BY <1>4, <2>1, <3>2 DEF At
      <4>2. At(g, T, letter) = (box[letter] + 1) * m[letter]
        BY <1>3, <3>1, <3>2
      <4> QED BY <2>5, <4>1, <4>2, OneMore
    <3>3. CASE letter \notin S
      <4>1. At(f, S, letter) = 0
        BY <3>3 DEF At
      <4>2. At(g, T, letter) = m[letter]
        BY <1>3, <2>5, <3>1, <3>3
      <4> QED BY <2>5, <4>1, <4>2
    <3> QED BY <3>2, <3>3
  <2>7. Worth(box, m) = SumFunctionOnSet(f, S) /\ Worth(new, m) = SumFunctionOnSet(g, T)
    BY DEF Worth
  <2> HIDE DEF f, g, S, T
  <2>8. SumFunctionOnSet(f, S) \in Int
    BY <2>1, <2>3, SumInt
  <2>9. SumFunctionOnSet(g, T) = SumFunctionOnSet(f, S) + At(g, T, letter) - At(f, S, letter)
    BY <2>1, <2>2, <2>3, <2>4, SumApart
  <2> QED BY <2>5, <2>6, <2>7, <2>8, <2>9
<1> QED BY <1>1, <1>2, <1>6, <1>7 DEF new

\* A letter less.
LEMMA TakeLetter ==
  ASSUME NEW box, IsBox(box), NEW letter \in DOMAIN box
  PROVE  /\ IsBox(Take(box, letter))
         /\ \A l \in DOMAIN box \ {letter} :
              l \in DOMAIN Take(box, letter) /\ Take(box, letter)[l] = box[l]
         /\ \A m : IsMeasure(m) => Worth(Take(box, letter), m) = Worth(box, m) - m[letter]
<1> DEFINE new == Take(box, letter)
<1>1. box = [l \in DOMAIN box |-> box[l]] /\ \A l \in DOMAIN box : box[l] \in Nat \ {0}
  BY DEF IsBox
<1>2. DOMAIN new = IF box[letter] = 1 THEN DOMAIN box \ {letter} ELSE DOMAIN box
  BY DEF Take, Restrict
<1>3. \A l \in DOMAIN box \ {letter} : l \in DOMAIN new /\ new[l] = box[l]
  BY <1>1 DEF Take, Restrict
<1>4. box[letter] # 1 => new[letter] = box[letter] - 1
  BY <1>1 DEF Take
<1>5. new = [l \in DOMAIN new |-> new[l]]
  <2>1. CASE box[letter] = 1
    BY <2>1 DEF Take, Restrict
  <2>2. CASE box[letter] # 1
    BY <1>1, <2>2 DEF Take
  <2> QED BY <2>1, <2>2
<1> HIDE DEF new
<1>6. IsBox(new)
  <2>1. DOMAIN new \subseteq DOMAIN box
    BY <1>2
  <2>2. IsFiniteSet(DOMAIN new) /\ DOMAIN new \subseteq Letters
    BY <2>1, FS_Subset DEF IsBox
  <2>3. \A l \in DOMAIN new : new[l] \in Nat \ {0}
    BY <1>1, <1>2, <1>3, <1>4
  <2>4. new \in [DOMAIN new -> Nat \ {0}]
    BY <1>5, <2>3
  <2> QED BY <2>2, <2>4 DEF IsBox
<1>7. ASSUME NEW m, IsMeasure(m) PROVE Worth(new, m) = Worth(box, m) - m[letter]
  <2> DEFINE f == Weigh(box, m)
             g == Weigh(new, m)
             S == DOMAIN box
             T == DOMAIN new
  <2>1. \A l \in S : f[l] \in Int /\ f[l] = box[l] * m[l]
    BY <1>7, Weights
  <2>2. \A l \in T : g[l] \in Int /\ g[l] = new[l] * m[l]
    BY <1>6, <1>7, Weights
  <2>3. S \ {letter} = T \ {letter} /\ IsFiniteSet(S) /\ letter \in S
    BY <1>2 DEF IsBox
  <2>4. \A l \in S \ {letter} : g[l] = f[l]
    BY <1>3, <2>1, <2>2
  <2>5. m[letter] \in Nat
    BY <1>7 DEF IsMeasure, IsBox
  <2>6. At(g, T, letter) = At(f, S, letter) - m[letter] /\ At(f, S, letter) \in Int
    <3>1. At(f, S, letter) = box[letter] * m[letter] /\ box[letter] \in Nat
      BY <1>1, <2>1, <2>3 DEF At
    <3>2. CASE box[letter] = 1
      <4>1. At(g, T, letter) = 0
        BY <1>2, <3>2 DEF At
      <4> QED BY <2>5, <3>1, <3>2, <4>1
    <3>3. CASE box[letter] # 1
      <4>1. At(g, T, letter) = (box[letter] - 1) * m[letter]
        BY <1>2, <1>4, <2>2, <3>3 DEF At
      <4> QED BY <2>5, <3>1, <4>1, OneMore
    <3> QED BY <3>2, <3>3
  <2>7. Worth(box, m) = SumFunctionOnSet(f, S) /\ Worth(new, m) = SumFunctionOnSet(g, T)
    BY DEF Worth
  <2> HIDE DEF f, g, S, T
  <2>8. SumFunctionOnSet(f, S) \in Int
    BY <2>1, <2>3, SumInt
  <2>9. SumFunctionOnSet(g, T) = SumFunctionOnSet(f, S) + At(g, T, letter) - At(f, S, letter)
    BY <2>1, <2>2, <2>3, <2>4, SumApart
  <2> QED BY <2>5, <2>6, <2>7, <2>8, <2>9
<1> QED BY <1>3, <1>6, <1>7 DEF new

\* SendMailTo, whether the letter holds something or not.
LEMMA Sending ==
  ASSUME NEW box, IsBox(box), NEW letter \in Letters
  PROVE  /\ IsBox(SendMailTo(box, letter))
         /\ \A l \in DOMAIN box \ {letter} :
              l \in DOMAIN SendMailTo(box, letter) /\ SendMailTo(box, letter)[l] = box[l]
         /\ \A m : IsMeasure(m) => Worth(SendMailTo(box, letter), m) = Worth(box, m) + m[letter]
<1>1. CASE letter.item = Nothing /\ letter.money = 0
  <2>1. SendMailTo(box, letter) = box
    BY <1>1 DEF SendMailTo
  <2>2. \A m : IsMeasure(m) => m[letter] = 0 /\ Worth(box, m) \in Nat
    BY <1>1, WorthNat DEF IsMeasure
  <2> QED BY <2>1, <2>2
<1>2. CASE ~(letter.item = Nothing /\ letter.money = 0)
  <2>1. SendMailTo(box, letter) = Put(box, letter)
    BY <1>2 DEF SendMailTo
  <2> QED BY <2>1, PutLetter
<1> QED BY <1>1, <1>2

\* Letters thrown away leave the box, with what they held.
Part(box, m, letters) == SumFunctionOnSet(Weigh(box, m), letters)

LEMMA Discarding ==
  ASSUME NEW box, IsBox(box), NEW letters, letters \subseteq DOMAIN box
  PROVE  LET rest == Restrict(box, DOMAIN box \ letters)
         IN  /\ IsBox(rest)
             /\ DOMAIN rest = DOMAIN box \ letters
             /\ \A m : IsMeasure(m) =>
                  /\ Part(box, m, letters) \in Nat
                  /\ Worth(rest, m) = Worth(box, m) - Part(box, m, letters)
<1> DEFINE rest == Restrict(box, DOMAIN box \ letters)
           S == DOMAIN box
<1>1. DOMAIN rest = S \ letters /\ \A l \in S \ letters : rest[l] = box[l]
  BY DEF Restrict
<1>2. rest = [l \in DOMAIN rest |-> rest[l]]
  BY DEF Restrict
<1>3. IsFiniteSet(S) /\ IsFiniteSet(S \ letters) /\ IsFiniteSet(letters)
  BY FS_Subset DEF IsBox
<1>4. IsBox(rest)
  <2> HIDE DEF rest
  <2>1. \A l \in DOMAIN rest : rest[l] \in Nat \ {0}
    BY <1>1 DEF IsBox
  <2>2. rest \in [DOMAIN rest -> Nat \ {0}]
    BY <1>2, <2>1
  <2> QED BY <1>1, <1>3, <2>2 DEF IsBox
<1>5. ASSUME NEW m, IsMeasure(m)
      PROVE  /\ Part(box, m, letters) \in Nat
             /\ Worth(rest, m) = Worth(box, m) - Part(box, m, letters)
  <2> DEFINE f == Weigh(box, m)
             g == Weigh(rest, m)
  <2>1. \A l \in S : f[l] \in Nat /\ f[l] \in Int /\ f[l] = box[l] * m[l]
    BY <1>5, Weights
  <2>2. \A l \in S \ letters : g[l] = f[l]
    <3>1. \A l \in DOMAIN rest : g[l] = rest[l] * m[l]
      BY <1>4, <1>5, Weights
    <3> HIDE DEF rest, f, g
    <3> QED BY <1>1, <2>1, <3>1
  <2>3. /\ Worth(box, m) = SumFunctionOnSet(f, S)
        /\ Worth(rest, m) = SumFunctionOnSet(g, S \ letters)
        /\ Part(box, m, letters) = SumFunctionOnSet(f, letters)
    BY <1>1 DEF Worth, Part
  <2> HIDE DEF rest, f, g, S
  <2>4. SumFunctionOnSet(g, S \ letters) = SumFunctionOnSet(f, S \ letters)
    BY <1>3, <2>2, SumSame
  <2>5. /\ SumFunctionOnSet(f, letters) \in Int /\ SumFunctionOnSet(f, S \ letters) \in Int
        /\ SumFunctionOnSet(f, S) = SumFunctionOnSet(f, letters) + SumFunctionOnSet(f, S \ letters)
    BY <1>3, <2>1, SumOfParts DEF S
  <2>6. SumFunctionOnSet(f, letters) \in Nat
    BY <1>3, <2>1, SumNat DEF S
  <2> QED BY <2>3, <2>4, <2>5, <2>6
<1> QED BY <1>1, <1>4, <1>5

(***************************************************************************)
(* What a restart finds: the marks of the letters thrown away are lost.    *)
(***************************************************************************)
Clear(l) == [l EXCEPT !.deleted = FALSE]
Mark(l) == [l EXCEPT !.deleted = TRUE]
Reloaded(box) == [l \in {Clear(k) : k \in DOMAIN box} |->
                    Copies(box, l) + Copies(box, Mark(l))]

LEMMA Marks ==
  ASSUME NEW l \in Letters
  PROVE  /\ Clear(l) \in Letters /\ Mark(l) \in Letters
         /\ Clear(l).deleted = FALSE /\ Mark(l).deleted = TRUE
         /\ Clear(l).item = l.item /\ Clear(l).money = l.money
         /\ l.deleted = FALSE => Clear(l) = l /\ Clear(Mark(l)) = l
         /\ l.deleted = TRUE => Mark(Clear(l)) = l
BY DEF Letters, Clear, Mark

LEMMA Shared ==
  ASSUME NEW a \in Nat, NEW b \in Nat, NEW c \in Nat
  PROVE  a * c \in Nat /\ b * c \in Nat /\ (a + b) * c = a * c + b * c
OBVIOUS

LEMMA Reloading ==
  ASSUME NEW box, IsBox(box)
  PROVE  /\ IsBox(Reloaded(box))
         /\ \A m : IsContent(m) => Worth(Reloaded(box), m) = Worth(box, m)
<1> DEFINE D == DOMAIN box
           B == {l \in D : l.deleted = TRUE}
           K == {Clear(k) : k \in D}
           KB == {Clear(k) : k \in B}
           new == Reloaded(box)
<1>1. /\ D \subseteq Letters /\ IsFiniteSet(D) /\ \A l \in D : box[l] \in Nat \ {0}
      /\ IsFiniteSet(B) /\ IsFiniteSet(D \ B)
  BY FS_Subset DEF IsBox
<1>2. K \subseteq Letters /\ KB \subseteq K /\ \A l \in K : l.deleted = FALSE
  <2>1. \A k \in D : Clear(k) \in Letters /\ Clear(k).deleted = FALSE
    BY <1>1, Marks
  <2> HIDE DEF D
  <2> QED BY <2>1
<1>3. IsFiniteSet(K) /\ IsFiniteSet(KB)
  <2> DEFINE h == [k \in D |-> Clear(k)]
  <2>1. h \in Surjection(D, K)
    BY DEF Surjection
  <2> HIDE DEF h, K, D
  <2>2. IsFiniteSet(K)
    BY <1>1, <2>1, FS_Surjection
  <2> QED BY <1>2, <2>2, FS_Subset
<1>4. DOMAIN new = K /\ \A l \in K : new[l] = Copies(box, l) + Copies(box, Mark(l))
  BY DEF Reloaded
<1>5. \A l : Copies(box, l) \in Nat /\ (l \in D => Copies(box, l) = box[l])
                                    /\ (l \notin D => Copies(box, l) = 0)
  BY <1>1 DEF Copies
<1>6. \A l \in K : new[l] \in Nat \ {0}
  <2> TAKE l \in K
  <2>1. PICK k \in D : l = Clear(k)
    OBVIOUS
  <2>2. k \in Letters /\ k.deleted \in BOOLEAN
    BY <1>1 DEF Letters
  <2>3. k = l \/ k = Mark(l)
    BY <2>1, <2>2, Marks
  <2>4. Copies(box, k) \in Nat \ {0}
    BY <1>1, <1>5
  <2> QED BY <1>4, <1>5, <2>3, <2>4
<1>7. IsBox(new)
  <2>1. new = [l \in K |-> new[l]]
    BY <1>4 DEF Reloaded
  <2> HIDE DEF new, K
  <2> QED BY <1>2, <1>3, <1>4, <1>6, <2>1 DEF IsBox
<1>8. ASSUME NEW m, IsContent(m), IsMeasure(m) PROVE Worth(new, m) = Worth(box, m)
  <2> DEFINE f == Weigh(box, m)
             g == Weigh(new, m)
             live == [l \in K |-> Copies(box, l) * m[l]]
             dead == [l \in K |-> Copies(box, Mark(l)) * m[l]]
  <2>1. \A l \in D : f[l] \in Int /\ f[l] = box[l] * m[l]
    BY <1>8, Weights
  <2>2. \A l \in K : live[l] \in Int /\ dead[l] \in Int /\ g[l] = live[l] + dead[l]
    <3> TAKE l \in K
    <3>1. m[l] \in Nat /\ Copies(box, l) \in Nat /\ Copies(box, Mark(l)) \in Nat
      BY <1>2, <1>5, <1>8 DEF IsMeasure
    <3>2. g[l] = new[l] * m[l]
      BY <1>4, <1>7, <1>8, Weights
    <3>3. g[l] = (Copies(box, l) + Copies(box, Mark(l))) * m[l]
      BY <1>4, <3>2
    <3> QED BY <3>1, <3>3, Shared
  <2>3. D \ B \subseteq K /\ \A l \in D \ B : live[l] = f[l]
    <3> SUFFICES ASSUME NEW l \in D \ B PROVE l \in K /\ live[l] = f[l]
      OBVIOUS
    <3>1. l.deleted = FALSE
      BY <1>1 DEF Letters
    <3>2. Clear(l) \in K /\ Clear(l) = l
      BY <1>1, <3>1, Marks
    <3> QED BY <1>5, <2>1, <3>2
  <2>4. \A l \in K \ (D \ B) : live[l] = 0
    <3> TAKE l \in K \ (D \ B)
    <3>1. l \notin D
      BY <1>2
    <3>2. Copies(box, l) = 0 /\ m[l] \in Nat
      BY <1>2, <1>5, <1>8, <3>1 DEF IsMeasure
    <3> QED BY <3>2
  <2>5. \A l \in K \ KB : dead[l] = 0
    <3> TAKE l \in K \ KB
    <3>1. ASSUME Mark(l) \in B PROVE FALSE
      <4>1. Clear(Mark(l)) = l
        BY <1>2, Marks
      <4>2. Clear(Mark(l)) \in KB
        BY <3>1
      <4> QED BY <4>1, <4>2
    <3>2. Mark(l) \notin D
      BY <1>2, <3>1, Marks
    <3>3. Copies(box, Mark(l)) = 0 /\ m[l] \in Nat
      BY <1>2, <1>5, <1>8, <3>2 DEF IsMeasure
    <3> QED BY <3>3
  <2> DEFINE h == [l \in B |-> Clear(l)]
  <2>6. /\ h \in [B -> KB] /\ \A z \in KB : \E x \in B : h[x] = z
        /\ \A x, y \in B : h[x] = h[y] => x = y
    <3>1. h \in [B -> KB] /\ \A z \in KB : \E x \in B : h[x] = z
      OBVIOUS
    <3>2. ASSUME NEW x \in B, NEW y \in B, h[x] = h[y] PROVE x = y
      <4>1. Mark(Clear(x)) = x /\ Mark(Clear(y)) = y
        BY <1>1, Marks
      <4> QED BY <3>2, <4>1
    <3> QED BY <3>1, <3>2
  <2>7. \A l \in B : f[l] \in Int /\ dead[h[l]] = f[l]
    <3> TAKE l \in B
    <3>1. l \in Letters /\ Clear(l) \in K
      BY <1>1
    <3>2. Mark(Clear(l)) = l
      BY <3>1, Marks
    <3>3. m[Clear(l)] = m[l]
      <4>1. Clear(l) \in Letters /\ Clear(l).item = l.item /\ Clear(l).money = l.money
        BY <3>1, Marks
      <4> QED BY <1>8, <3>1, <4>1 DEF IsContent
    <3>4. dead[Clear(l)] = box[l] * m[l]
      BY <1>5, <3>1, <3>2, <3>3
    <3> QED BY <2>1, <3>4
  <2>8. /\ Worth(box, m) = SumFunctionOnSet(f, D)
        /\ Worth(new, m) = SumFunctionOnSet(g, K)
    BY <1>4 DEF Worth
  <2> HIDE DEF f, g, h, live, dead, D, B, K, KB, new
  <2>9. SumFunctionOnSet(g, K) = SumFunctionOnSet(live, K) + SumFunctionOnSet(dead, K)
    BY <1>3, <2>2, SumOfSums
  <2>10. SumFunctionOnSet(live, K) = SumFunctionOnSet(f, D \ B)
    <3>1. SumFunctionOnSet(live, D \ B) = SumFunctionOnSet(live, K)
      BY <1>3, <2>2, <2>3, <2>4, SumWider
    <3>2. SumFunctionOnSet(live, D \ B) = SumFunctionOnSet(f, D \ B)
      BY <1>1, <2>3, SumSame
    <3> QED BY <3>1, <3>2
  <2>11. SumFunctionOnSet(dead, K) = SumFunctionOnSet(f, B)
    <3>1. SumFunctionOnSet(dead, KB) = SumFunctionOnSet(dead, K)
      BY <1>2, <1>3, <2>2, <2>5, SumWider
    <3>2. SumFunctionOnSet(dead, KB) = SumFunctionOnSet(f, B)
      BY <1>1, <1>3, <2>6, <2>7, SumRenamed
    <3> QED BY <3>1, <3>2
  <2>12. /\ SumFunctionOnSet(f, B) \in Int /\ SumFunctionOnSet(f, D \ B) \in Int
         /\ SumFunctionOnSet(f, D) = SumFunctionOnSet(f, B) + SumFunctionOnSet(f, D \ B)
    <3>1. B \subseteq D
      BY DEF B
    <3>2. IsFiniteSet(D) /\ \A x \in D : f[x] \in Int
      BY <1>1, <2>1
    <3>3. SumFunctionOnSet(f, B) \in Int /\ SumFunctionOnSet(f, D \ B) \in Int
      BY <3>1, <3>2, SumOfParts
    <3>4. SumFunctionOnSet(f, D) = SumFunctionOnSet(f, B) + SumFunctionOnSet(f, D \ B)
      BY <3>1, <3>2, SumOfParts
    <3> QED BY <3>3, <3>4
  <2> QED BY <2>8, <2>9, <2>10, <2>11, <2>12
<1> QED BY <1>7, <1>8 DEF new, IsContent

---------------------------------------------------------------------------
(***************************************************************************)
(* What is counted: the carriers and the offers of an item, the money      *)
(* carried and bid.                                                        *)
(***************************************************************************)
Unit(i, j) == IF i = j THEN 1 ELSE 0
In(i, S) == IF i \in S THEN 1 ELSE 0
IsHouse(house) == IsFiniteSet(DOMAIN house) /\ house \in [DOMAIN house -> Entries]
CarriersOf(i, sacks) == {p \in Players : i \in sacks[p]}
OffersOf(i, house) == {id \in DOMAIN house : house[id].item = i}
BidsIn(house) == SumFunction([id \in DOMAIN house |-> house[id].bid])

LEMMA MoneyCounted ==
  ASSUME NEW box, IsBox(box), NEW letters, letters \subseteq DOMAIN box
  PROVE  SumFunction([l \in letters |-> box[l] * l.money]) = Part(box, Money, letters)
<1> DEFINE f == [l \in letters |-> box[l] * l.money]
           g == Weigh(box, Money)
<1>1. \A l \in letters : f[l] = g[l]
  BY DEF IsBox, Weigh, Money
<1>2. DOMAIN f = letters /\ IsFiniteSet(letters)
  BY FS_Subset DEF IsBox
<1>3. SumFunction(f) = SumFunctionOnSet(f, letters)
  BY <1>2 DEF SumFunction
<1> HIDE DEF f, g
<1>4. SumFunctionOnSet(f, letters) = SumFunctionOnSet(g, letters)
  BY <1>1, <1>2, SumSame
<1> QED BY <1>3, <1>4 DEF f, g, Part

LEMMA ItemCounted ==
  ASSUME NEW box, IsBox(box), NEW i \in Items
  PROVE  SumFunctionOnSet(box, {l \in DOMAIN box : l.item = i}) = Worth(box, Holding(i))
<1> DEFINE D == DOMAIN box
           H == {l \in D : l.item = i}
           f == Weigh(box, Holding(i))
<1>1. \A l \in D : box[l] \in Nat /\ Holding(i)[l] = IF l.item = i THEN 1 ELSE 0
  BY DEF IsBox, Holding
<1>2. \A l \in D : f[l] = (IF l.item = i THEN box[l] ELSE 0) /\ f[l] \in Int
  BY <1>1 DEF Weigh
<1>3. IsFiniteSet(D) /\ IsFiniteSet(H) /\ H \subseteq D
  BY FS_Subset DEF IsBox
<1>4. \A l \in H : box[l] = f[l]
  BY <1>2
<1>5. \A l \in D \ H : f[l] = 0
  BY <1>2
<1>6. Worth(box, Holding(i)) = SumFunctionOnSet(f, D)
  BY DEF Worth
<1> HIDE DEF D, H, f
<1>7. SumFunctionOnSet(box, H) = SumFunctionOnSet(f, H)
  BY <1>3, <1>4, SumSame
<1>8. SumFunctionOnSet(f, H) = SumFunctionOnSet(f, D)
  BY <1>2, <1>3, <1>5, SumWider
<1> QED BY <1>6, <1>7, <1>8 DEF H, D

LEMMA CarriedInt ==
  ASSUME NEW purse, purse \in [Players -> Int]
  PROVE  Carried(purse) \in Int
<1>1. DOMAIN purse = Players /\ IsFiniteSet(Players) /\ \A p \in Players : purse[p] \in Int
  BY MailAssumption
<1> QED BY <1>1, SumInt DEF Carried, SumFunction

LEMMA PurseChanged ==
  ASSUME NEW purse, purse \in [Players -> Int], NEW p \in Players, NEW x \in Int
  PROVE  Carried([purse EXCEPT ![p] = x]) = Carried(purse) - purse[p] + x
<1> DEFINE new == [purse EXCEPT ![p] = x]
<1>1. IsFiniteSet(Players)
  BY MailAssumption
<1>2. /\ \A q \in Players : purse[q] \in Int /\ new[q] \in Int
      /\ \A q \in Players \ {p} : new[q] = purse[q]
      /\ new[p] = x
  OBVIOUS
<1>3. /\ Carried(purse) = SumFunctionOnSet(purse, Players)
      /\ Carried(new) = SumFunctionOnSet(new, Players)
  BY DEF Carried, SumFunction
<1>4. At(new, Players, p) = x /\ At(purse, Players, p) = purse[p]
  BY <1>2 DEF At
<1> HIDE DEF new
<1>5. /\ SumFunctionOnSet(purse, Players) \in Int
      /\ SumFunctionOnSet(new, Players)
           = SumFunctionOnSet(purse, Players) + At(new, Players, p) - At(purse, Players, p)
  BY <1>1, <1>2, SumApart
<1>6. purse[p] \in Int
  OBVIOUS
<1> QED BY <1>3, <1>4, <1>5, <1>6 DEF new

LEMMA CarriersFinite ==
  ASSUME NEW i, NEW sacks
  PROVE  IsFiniteSet(CarriersOf(i, sacks)) /\ Cardinality(CarriersOf(i, sacks)) \in Nat
BY MailAssumption, FS_Subset, FS_CardinalityType DEF CarriersOf

LEMMA ItemLeaves ==
  ASSUME NEW sacks, sacks \in [Players -> SUBSET Items], NEW p \in Players,
         NEW item \in sacks[p], NEW i \in Items
  PROVE  Cardinality(CarriersOf(i, [sacks EXCEPT ![p] = @ \ {item}]))
           = Cardinality(CarriersOf(i, sacks)) - Unit(i, item)
<1> DEFINE new == [sacks EXCEPT ![p] = @ \ {item}]
<1>1. CASE i = item
  <2>1. CarriersOf(i, new) = CarriersOf(i, sacks) \ {p} /\ p \in CarriersOf(i, sacks)
    BY <1>1 DEF CarriersOf
  <2>2. Cardinality(CarriersOf(i, sacks) \ {p}) = Cardinality(CarriersOf(i, sacks)) - 1
    <3>1. IsFiniteSet(CarriersOf(i, sacks))
      BY CarriersFinite
    <3> QED BY <2>1, <3>1, FS_RemoveElement
  <2> QED BY <1>1, <2>1, <2>2 DEF Unit
<1>2. CASE i # item
  <2>1. CarriersOf(i, new) = CarriersOf(i, sacks)
    BY <1>2 DEF CarriersOf
  <2> QED BY <1>2, <2>1, CarriersFinite DEF Unit
<1> QED BY <1>1, <1>2

Filled(sacks, p, item) == [sacks EXCEPT ![p] = @ \cup {item}]

LEMMA ItemArrives ==
  ASSUME NEW sacks, sacks \in [Players -> SUBSET Items], NEW p \in Players,
         NEW item \in Items, item \notin sacks[p], NEW i \in Items
  PROVE  Cardinality(CarriersOf(i, Filled(sacks, p, item)))
           = Cardinality(CarriersOf(i, sacks)) + Unit(i, item)
<1> DEFINE new == Filled(sacks, p, item)
<1>1. CASE i = item
  <2>1. CarriersOf(i, new) = CarriersOf(i, sacks) \cup {p} /\ p \notin CarriersOf(i, sacks)
    BY <1>1 DEF CarriersOf, Filled
  <2> QED BY <1>1, <2>1, CarriersFinite, FS_AddElement DEF Unit
<1>2. CASE i # item
  <2>1. CarriersOf(i, new) = CarriersOf(i, sacks)
    BY <1>2 DEF CarriersOf, Filled
  <2> QED BY <1>2, <2>1, CarriersFinite DEF Unit
<1> QED BY <1>1, <1>2

LEMMA BidsCounted ==
  ASSUME NEW house, IsHouse(house)
  PROVE  BidsIn(house) \in Nat /\ \A i : Cardinality(OffersOf(i, house)) \in Nat
<1> DEFINE f == [id \in DOMAIN house |-> house[id].bid]
<1>1. DOMAIN f = DOMAIN house /\ \A id \in DOMAIN house : f[id] \in Nat
  BY DEF IsHouse, Entries
<1>2. BidsIn(house) = SumFunctionOnSet(f, DOMAIN house)
  BY <1>1 DEF BidsIn, SumFunction
<1> HIDE DEF f
<1>3. BidsIn(house) \in Nat
  BY <1>1, <1>2, SumNat DEF IsHouse
<1>4. \A i : Cardinality(OffersOf(i, house)) \in Nat
  BY FS_Subset, FS_CardinalityType DEF OffersOf, IsHouse
<1> QED BY <1>3, <1>4

\* An auction more, and one less.
Entered(house, id, a) ==
  [k \in DOMAIN house \cup {id} |-> IF k = id THEN a ELSE house[k]]

LEMMA EnterAuction ==
  ASSUME NEW house, IsHouse(house), NEW id, id \notin DOMAIN house, NEW a \in Entries
  PROVE  LET new == Entered(house, id, a)
         IN  /\ IsHouse(new) /\ DOMAIN new = DOMAIN house \cup {id}
             /\ BidsIn(new) = BidsIn(house) + a.bid
             /\ \A i : Cardinality(OffersOf(i, new)) = Cardinality(OffersOf(i, house)) + Unit(i, a.item)
<1> DEFINE new == Entered(house, id, a)
           D == DOMAIN house
           f == [k \in D |-> house[k].bid]
           g == [k \in DOMAIN new |-> new[k].bid]
<1>1. /\ DOMAIN new = D \cup {id} /\ new[id] = a /\ \A k \in D : new[k] = house[k]
      /\ new = [k \in DOMAIN new |-> new[k]]
  BY DEF Entered
<1> HIDE DEF new
<1>2. IsHouse(new)
  <2>1. IsFiniteSet(DOMAIN new)
    BY <1>1, FS_AddElement DEF IsHouse
  <2>2. \A k \in DOMAIN new : new[k] \in Entries
    BY <1>1 DEF IsHouse
  <2> QED BY <1>1, <2>1, <2>2 DEF IsHouse
<1>3. BidsIn(new) = BidsIn(house) + a.bid
  <2>1. /\ BidsIn(house) = SumFunctionOnSet(f, D) /\ BidsIn(new) = SumFunctionOnSet(g, DOMAIN new)
    BY DEF BidsIn, SumFunction
  <2>2. \A k \in D : f[k] \in Int /\ g[k] = f[k]
    BY <1>1 DEF IsHouse, Entries
  <2>3. g[id] = a.bid /\ a.bid \in Int
    BY <1>1 DEF Entries
  <2>4. IsFiniteSet(D) /\ D \ {id} = DOMAIN new \ {id}
    BY <1>1 DEF IsHouse
  <2>5. At(g, DOMAIN new, id) = a.bid /\ At(f, D, id) = 0
    BY <1>1, <2>3 DEF At
  <2>6. \A k \in DOMAIN new : g[k] \in Int
    BY <1>1, <2>2, <2>3
  <2> HIDE DEF f, g, D
  <2>7. SumFunctionOnSet(f, D) \in Int
    BY <2>2, <2>4, SumInt
  <2>8. \A k \in D \ {id} : g[k] = f[k]
    BY <2>2
  <2>9. SumFunctionOnSet(g, DOMAIN new)
          = SumFunctionOnSet(f, D) + At(g, DOMAIN new, id) - At(f, D, id)
    BY <2>2, <2>4, <2>6, <2>8, SumApart
  <2> QED BY <2>1, <2>3, <2>5, <2>7, <2>9
<1>4. ASSUME NEW i
      PROVE  Cardinality(OffersOf(i, new)) = Cardinality(OffersOf(i, house)) + Unit(i, a.item)
  <2>1. IsFiniteSet(OffersOf(i, house)) /\ Cardinality(OffersOf(i, house)) \in Nat
    BY FS_Subset, FS_CardinalityType DEF OffersOf, IsHouse
  <2>2. CASE i = a.item
    <3>1. OffersOf(i, new) = OffersOf(i, house) \cup {id} /\ id \notin OffersOf(i, house)
      BY <1>1, <2>2 DEF OffersOf
    <3> QED BY <2>1, <2>2, <3>1, FS_AddElement DEF Unit
  <2>3. CASE i # a.item
    <3>1. OffersOf(i, new) = OffersOf(i, house)
      BY <1>1, <2>3 DEF OffersOf
    <3> QED BY <2>1, <2>3, <3>1 DEF Unit
  <2> QED BY <2>2, <2>3
<1> QED BY <1>1, <1>2, <1>3, <1>4 DEF new

LEMMA LeaveAuction ==
  ASSUME NEW house, IsHouse(house), NEW id \in DOMAIN house
  PROVE  LET new == Restrict(house, DOMAIN house \ {id})
         IN  /\ IsHouse(new) /\ DOMAIN new = DOMAIN house \ {id}
             /\ BidsIn(new) = BidsIn(house) - house[id].bid
             /\ \A i : Cardinality(OffersOf(i, new))
                         = Cardinality(OffersOf(i, house)) - Unit(i, house[id].item)
<1> DEFINE new == Restrict(house, DOMAIN house \ {id})
           D == DOMAIN house
           f == [k \in D |-> house[k].bid]
           g == [k \in DOMAIN new |-> new[k].bid]
<1>1. /\ DOMAIN new = D \ {id} /\ \A k \in D \ {id} : new[k] = house[k]
      /\ new = [k \in DOMAIN new |-> new[k]]
  BY DEF Restrict
<1> HIDE DEF new
<1>2. IsHouse(new)
  <2>1. IsFiniteSet(DOMAIN new)
    BY <1>1, FS_Subset DEF IsHouse
  <2>2. \A k \in DOMAIN new : new[k] \in Entries
    BY <1>1 DEF IsHouse
  <2> QED BY <1>1, <2>1, <2>2 DEF IsHouse
<1>3. BidsIn(new) = BidsIn(house) - house[id].bid
  <2>1. /\ BidsIn(house) = SumFunctionOnSet(f, D) /\ BidsIn(new) = SumFunctionOnSet(g, DOMAIN new)
    BY DEF BidsIn, SumFunction
  <2>2. \A k \in D : f[k] \in Int /\ f[k] = house[k].bid
    BY DEF IsHouse, Entries
  <2>3. \A k \in DOMAIN new : g[k] = f[k] /\ g[k] \in Int
    BY <1>1, <2>2
  <2>4. IsFiniteSet(D) /\ D \ {id} = DOMAIN new \ {id} /\ D \ {id} = DOMAIN new
    BY <1>1 DEF IsHouse
  <2>5. At(g, DOMAIN new, id) = 0 /\ At(f, D, id) = house[id].bid /\ house[id].bid \in Int
    BY <1>1, <2>2 DEF At
  <2>6. id \in D
    OBVIOUS
  <2> HIDE DEF f, g, D
  <2>7. SumFunctionOnSet(f, D) \in Int
    BY <2>2, <2>4, SumInt
  <2>8. \A k \in D \ {id} : g[k] = f[k]
    BY <2>3, <2>4
  <2>9. SumFunctionOnSet(g, DOMAIN new)
          = SumFunctionOnSet(f, D) + At(g, DOMAIN new, id) - At(f, D, id)
    BY <2>2, <2>3, <2>4, <2>8, SumApart
  <2> QED BY <2>1, <2>5, <2>7, <2>9
<1>4. ASSUME NEW i
      PROVE  Cardinality(OffersOf(i, new))
               = Cardinality(OffersOf(i, house)) - Unit(i, house[id].item)
  <2>1. IsFiniteSet(OffersOf(i, house)) /\ Cardinality(OffersOf(i, house)) \in Nat
    BY FS_Subset, FS_CardinalityType DEF OffersOf, IsHouse
  <2>2. CASE i = house[id].item
    <3>1. OffersOf(i, new) = OffersOf(i, house) \ {id} /\ id \in OffersOf(i, house)
      BY <1>1, <2>2 DEF OffersOf
    <3> QED BY <2>1, <2>2, <3>1, FS_RemoveElement DEF Unit
  <2>3. CASE i # house[id].item
    <3>1. OffersOf(i, new) = OffersOf(i, house)
      BY <1>1, <2>3 DEF OffersOf
    <3> QED BY <2>1, <2>3, <3>1 DEF Unit
  <2> QED BY <2>2, <2>3
<1> QED BY <1>1, <1>2, <1>3, <1>4 DEF new

Changed(house, id, a) == [house EXCEPT ![id] = a]

LEMMA ChangeAuction ==
  ASSUME NEW house, IsHouse(house), NEW id \in DOMAIN house,
         NEW a \in Entries, a.item = house[id].item,
         NEW new, new = Changed(house, id, a)
  PROVE  /\ IsHouse(new) /\ DOMAIN new = DOMAIN house
         /\ BidsIn(new) = BidsIn(house) - house[id].bid + a.bid
         /\ \A i : OffersOf(i, new) = OffersOf(i, house)
<1> DEFINE D == DOMAIN house
           f == [k \in D |-> house[k].bid]
           g == [k \in D |-> new[k].bid]
<1>1. /\ DOMAIN new = D /\ \A k \in D \ {id} : new[k] = house[k]
      /\ new[id] = a /\ new = [k \in DOMAIN new |-> new[k]]
  BY DEF IsHouse, Changed
<1>2. IsHouse(new)
  <2>1. \A k \in DOMAIN new : new[k] \in Entries
    BY <1>1 DEF IsHouse
  <2> QED BY <1>1, <2>1 DEF IsHouse
<1>3. BidsIn(new) = BidsIn(house) - house[id].bid + a.bid
  <2>1. BidsIn(house) = SumFunctionOnSet(f, D) /\ BidsIn(new) = SumFunctionOnSet(g, D)
    BY <1>1 DEF BidsIn, SumFunction
  <2>2. \A k \in D : f[k] \in Int /\ f[k] = house[k].bid
    BY DEF IsHouse, Entries
  <2>3. \A k \in D : g[k] \in Int /\ g[k] = new[k].bid
    BY <1>1, <1>2 DEF IsHouse, Entries
  <2>4. IsFiniteSet(D) /\ id \in D
    BY DEF IsHouse
  <2>5. \A k \in D \ {id} : g[k] = f[k]
    BY <1>1, <2>2, <2>3
  <2>6. /\ At(g, D, id) = a.bid /\ a.bid \in Int
        /\ At(f, D, id) = house[id].bid /\ house[id].bid \in Int
    BY <1>1, <2>2, <2>3, <2>4 DEF At
  <2> HIDE DEF f, g, D
  <2>7. SumFunctionOnSet(f, D) \in Int
    BY <2>2, <2>4, SumInt
  <2>8. SumFunctionOnSet(g, D) = SumFunctionOnSet(f, D) + At(g, D, id) - At(f, D, id)
    BY <2>2, <2>3, <2>4, <2>5, SumApart
  <2> QED BY <2>1, <2>6, <2>7, <2>8
<1>4. \A i : OffersOf(i, new) = OffersOf(i, house)
  BY <1>1 DEF OffersOf
<1> QED BY <1>1, <1>2, <1>3, <1>4

---------------------------------------------------------------------------
(***************************************************************************)
(* The two conservation laws, as tallies of the state's parts.             *)
(***************************************************************************)
Tally(i, sacks, house, box, lost) ==
  Cardinality(CarriersOf(i, sacks)) + Cardinality(OffersOf(i, house))
    + Worth(box, Holding(i)) + In(i, lost)
Funds(purse, box, house, taken) ==
  Carried(purse) + Worth(box, Money) + BidsIn(house) + taken

LEMMA ItemsTallied ==
  IsBox(mail) =>
    (ItemInOnePlace <=> \A i \in Items : Tally(i, bags, auctions, mail, gone) = 1)
<1> SUFFICES ASSUME IsBox(mail)
             PROVE  \A i \in Items : Places(i) = Tally(i, bags, auctions, mail, gone)
  BY DEF ItemInOnePlace
<1> TAKE i \in Items
<1>1. SumFunctionOnSet(mail, {l \in DOMAIN mail : l.item = i}) = Worth(mail, Holding(i))
  BY ItemCounted
<1> QED BY <1>1 DEF Places, Tally, CarriersOf, OffersOf, In

LEMMA MoneyTallied ==
  IsBox(mail) => (MoneyBalances <=> Funds(gold, mail, auctions, kept) = Carried(StartGold))
<1> SUFFICES ASSUME IsBox(mail) PROVE InLetters = Worth(mail, Money)
  BY DEF MoneyBalances, Funds, InBids, BidsIn
<1>1. InLetters = Part(mail, Money, DOMAIN mail)
  BY MoneyCounted DEF InLetters
<1> QED BY <1>1 DEF Part, Worth

LEMMA HouseIsHouse == House => IsHouse(auctions)
<1> SUFFICES ASSUME House PROVE IsHouse(auctions)
  OBVIOUS
<1>1. IsFiniteSet(1 .. nextId - 1)
  BY FS_Interval DEF House
<1>2. IsFiniteSet(DOMAIN auctions)
  BY <1>1, FS_Subset DEF House
<1> QED BY <1>2 DEF House, IsHouse

\* Nothing is in two places.
LEMMA OnlyPlace ==
  ASSUME Types, ItemInOnePlace, NEW i \in Items
  PROVE  /\ Cardinality(CarriersOf(i, bags)) \in Nat /\ Cardinality(OffersOf(i, auctions)) \in Nat
         /\ Worth(mail, Holding(i)) \in Nat /\ In(i, gone) \in {0, 1}
         /\ Cardinality(CarriersOf(i, bags)) + Cardinality(OffersOf(i, auctions))
              + Worth(mail, Holding(i)) + In(i, gone) = 1
<1>1. IsHouse(auctions) /\ IsBox(mail)
  BY HouseIsHouse DEF Types
<1>2. Cardinality(CarriersOf(i, bags)) \in Nat /\ Cardinality(OffersOf(i, auctions)) \in Nat
  BY <1>1, CarriersFinite, BidsCounted
<1>3. Worth(mail, Holding(i)) \in Nat
  BY <1>1, WorthNat, Measures
<1>4. In(i, gone) \in {0, 1}
  BY DEF In
<1>5. Tally(i, bags, auctions, mail, gone) = 1
  BY <1>1, ItemsTallied
<1> QED BY <1>2, <1>3, <1>4, <1>5 DEF Tally

LEMMA LetterOfItem ==
  ASSUME NEW box, IsBox(box), NEW l \in DOMAIN box, NEW i \in Items, l.item = i
  PROVE  Worth(box, Holding(i)) >= 1
<1>1. IsFiniteSet(DOMAIN box) /\ \A k \in DOMAIN box : Weigh(box, Holding(i))[k] \in Nat
  BY Weights, Measures DEF IsBox
<1>2. Weigh(box, Holding(i))[l] \in Nat /\ Weigh(box, Holding(i))[l] >= 1
  <2>1. box[l] \in Nat \ {0} /\ Holding(i)[l] = 1
    BY DEF IsBox, Holding
  <2>2. Weigh(box, Holding(i))[l] = box[l] * 1
    BY <2>1 DEF Weigh
  <2> QED BY <2>1, <2>2
<1>3. Worth(box, Holding(i)) \in Nat /\ Weigh(box, Holding(i))[l] <= Worth(box, Holding(i))
  BY <1>1, SumAtLeast DEF Worth
<1> QED BY <1>2, <1>3

\* The letter of an item is its only place.
LEMMA InTheLetter ==
  ASSUME Types, ItemInOnePlace, NEW l \in DOMAIN mail, l.item \in Items
  PROVE  /\ l.item \notin gone
         /\ \A p \in Players : l.item \notin bags[p]
<1>1. Worth(mail, Holding(l.item)) >= 1
  BY LetterOfItem DEF Types
<1>2. Cardinality(CarriersOf(l.item, bags)) = 0 /\ In(l.item, gone) = 0
  BY <1>1, OnlyPlace
<1>3. CarriersOf(l.item, bags) = {}
  BY <1>2, CarriersFinite, FS_EmptySet
<1> QED BY <1>2, <1>3 DEF In, CarriersOf

\* A letter destroyed with what is in it.
LEMMA Burning ==
  ASSUME Types, ItemInOnePlace, NEW l \in DOMAIN mail
  PROVE  /\ gone \cup Destroyed({l}) \subseteq Items
         /\ \A i \in Items : In(i, gone \cup Destroyed({l})) = In(i, gone) + Unit(i, l.item)
<1>1. l \in Letters /\ l.item \in Items \cup {Nothing} /\ gone \subseteq Items /\ Nothing \notin Items
  BY MailAssumption DEF Types, IsBox, Letters, Goods
<1>2. Destroyed({l}) = {l.item} \ {Nothing}
  BY DEF Destroyed
<1>3. l.item \in Items => l.item \notin gone
  BY InTheLetter
<1> QED BY <1>1, <1>2, <1>3 DEF In, Unit

\* The letters p threw away leave the database, with what is in them.
LEMMA Emptying ==
  ASSUME Types, ItemInOnePlace, NEW p \in Players, NEW box, IsBox(box),
         \A l \in Discarded(p) : l \in DOMAIN box /\ box[l] = mail[l]
  PROVE  /\ IsBox(SaveMail(p, box))
         /\ Lost(Discarded(p)) \in Nat
         /\ Worth(SaveMail(p, box), Money) = Worth(box, Money) - Lost(Discarded(p))
         /\ gone \cup Destroyed(Discarded(p)) \subseteq Items
         /\ \A i \in Items : Worth(SaveMail(p, box), Holding(i)) + In(i, gone \cup Destroyed(Discarded(p)))
                               = Worth(box, Holding(i)) + In(i, gone)
<1> DEFINE X == Discarded(p)
<1>1. IsBox(mail) /\ X \subseteq DOMAIN mail /\ X \subseteq DOMAIN box /\ gone \subseteq Items
  BY DEF Types, Goods, Discarded
<1>2. SaveMail(p, box) = Restrict(box, DOMAIN box \ X)
  BY DEF SaveMail
<1>3. \A m : IsMeasure(m) => Part(box, m, X) = Part(mail, m, X)
  <2> TAKE m
  <2> HAVE IsMeasure(m)
  <2>1. \A l \in X : Weigh(box, m)[l] = Weigh(mail, m)[l]
    BY <1>1 DEF Weigh
  <2>2. IsFiniteSet(X)
    BY <1>1, FS_Subset DEF IsBox
  <2> HIDE DEF X
  <2> QED BY <2>1, <2>2, SumSame DEF Part
<1>4. Lost(X) = Part(mail, Money, X)
  BY <1>1, MoneyCounted DEF Lost
<1> HIDE DEF X
<1>5. /\ IsBox(SaveMail(p, box))
      /\ \A m : IsMeasure(m) =>
           /\ Part(mail, m, X) \in Nat
           /\ Worth(SaveMail(p, box), m) = Worth(box, m) - Part(mail, m, X)
  <2> DEFINE rest == Restrict(box, DOMAIN box \ X)
  <2>1. IsBox(rest)
    BY <1>1, Discarding
  <2>2. ASSUME NEW m, IsMeasure(m)
        PROVE  Part(mail, m, X) \in Nat /\ Worth(rest, m) = Worth(box, m) - Part(mail, m, X)
    <3>1. Part(box, m, X) \in Nat /\ Worth(rest, m) = Worth(box, m) - Part(box, m, X)
      BY <1>1, <2>2, Discarding
    <3>2. Part(box, m, X) = Part(mail, m, X)
      BY <1>3, <2>2
    <3> QED BY <3>1, <3>2
  <2> QED BY <1>2, <2>1, <2>2
<1>6. gone \cup Destroyed(X) \subseteq Items
  <2>1. \A l \in Letters : l.item \in Items \cup {Nothing}
    BY DEF Letters
  <2>2. \A l \in X : l.item \in Items \cup {Nothing}
    BY <1>1, <2>1 DEF IsBox
  <2> QED BY <1>1, <2>2 DEF Destroyed
<1>7. ASSUME NEW i \in Items
      PROVE  In(i, gone \cup Destroyed(X)) = In(i, gone) + Part(mail, Holding(i), X)
  <2>1. IsMeasure(Holding(i)) /\ Part(mail, Holding(i), X) \in Nat
    BY <1>5, Measures
  <2>2. i # Nothing
    BY MailAssumption
  <2>3. IsFiniteSet(X) /\ \A l \in X : Weigh(mail, Holding(i))[l] \in Nat
    BY <1>1, <2>1, Weights, FS_Subset DEF IsBox
  <2>4. CASE \E l \in X : l.item = i
    <3>1. PICK l \in X : l.item = i
      BY <2>4
    <3>2. i \in Destroyed(X) /\ i \notin gone
      BY <1>1, <2>2, <3>1, InTheLetter DEF Destroyed
    <3>3. Part(mail, Holding(i), X) >= 1
      <4>1. mail[l] \in Nat \ {0} /\ Holding(i)[l] = 1
        BY <1>1, <3>1 DEF IsBox, Holding
      <4>2. Weigh(mail, Holding(i))[l] = mail[l] * 1
        BY <1>1, <4>1 DEF Weigh
      <4>3. Weigh(mail, Holding(i))[l] <= Part(mail, Holding(i), X)
        BY <2>3, SumAtLeast DEF Part
      <4> QED BY <2>1, <4>1, <4>2, <4>3
    <3>4. Part(mail, Holding(i), X) <= Worth(mail, Holding(i))
      <4>1. LET rest == Restrict(mail, DOMAIN mail \ X) IN
              IsBox(rest) /\ Worth(rest, Holding(i)) = Worth(mail, Holding(i)) - Part(mail, Holding(i), X)
        BY <1>1, <2>1, Discarding
      <4>2. Worth(Restrict(mail, DOMAIN mail \ X), Holding(i)) \in Nat /\ Worth(mail, Holding(i)) \in Nat
        BY <1>1, <2>1, <4>1, WorthNat
      <4> QED BY <2>1, <4>1, <4>2
    <3>5. Worth(mail, Holding(i)) <= 1 /\ Worth(mail, Holding(i)) \in Nat
      BY OnlyPlace
    <3>6. Part(mail, Holding(i), X) = 1
      BY <2>1, <3>3, <3>4, <3>5
    <3> QED BY <3>2, <3>6 DEF In
  <2>5. CASE \A l \in X : l.item # i
    <3>1. \A l \in X : Weigh(mail, Holding(i))[l] = 0
      <4> TAKE l \in X
      <4>1. mail[l] \in Nat /\ Holding(i)[l] = 0
        BY <1>1, <2>5 DEF IsBox, Holding
      <4> QED BY <1>1, <4>1 DEF Weigh
    <3>2. Part(mail, Holding(i), X) = 0
      BY <2>3, <3>1, SumOfZeros DEF Part
    <3>3. i \notin Destroyed(X)
      BY <2>5 DEF Destroyed
    <3> QED BY <3>2, <3>3 DEF In
  <2> QED BY <2>4, <2>5
<1>8. ASSUME NEW i \in Items
      PROVE  Worth(SaveMail(p, box), Holding(i)) + In(i, gone \cup Destroyed(X))
               = Worth(box, Holding(i)) + In(i, gone)
  <2>1. /\ Worth(SaveMail(p, box), Holding(i)) = Worth(box, Holding(i)) - Part(mail, Holding(i), X)
        /\ Part(mail, Holding(i), X) \in Nat /\ Worth(box, Holding(i)) \in Nat /\ In(i, gone) \in Nat
    BY <1>5, Measures, WorthNat DEF In
  <2>2. In(i, gone \cup Destroyed(X)) = In(i, gone) + Part(mail, Holding(i), X)
    BY <1>7
  <2> QED BY <2>1, <2>2
<1> QED BY <1>4, <1>5, <1>6, <1>8, Measures DEF X

---------------------------------------------------------------------------
(***************************************************************************)
(* The steps of the mail.                                                  *)
(***************************************************************************)
LEMMA Paying ==
  ASSUME Purses, CrashGivesBackDeposits, NEW p \in Players, NEW x \in Nat,
         gold' = [gold EXCEPT ![p] = x], SaveGoldToDB(p)
  PROVE  /\ gold' \in [Players -> Nat] /\ saved' \in [Players -> Nat]
         /\ unsaved' \in [Players -> Nat] /\ CrashGivesBackDeposits'
         /\ Carried(gold) \in Int /\ gold[p] \in Nat
         /\ Carried(gold') = Carried(gold) - gold[p] + x
<1>1. gold' \in [Players -> Nat] /\ gold \in [Players -> Int]
  BY DEF Purses
<1>2. saved' = [saved EXCEPT ![p] = gold'[p]] /\ unsaved' = [unsaved EXCEPT ![p] = 0]
  BY DEF SaveGoldToDB
<1>3. saved' \in [Players -> Nat] /\ unsaved' \in [Players -> Nat]
  BY <1>1, <1>2 DEF Purses
<1>4. CrashGivesBackDeposits'
  <2>1. ASSUME NEW q \in Players PROVE saved'[q] = gold'[q] + unsaved'[q]
    <3>1. CASE q = p
      BY <1>1, <1>2, <3>1 DEF Purses
    <3>2. CASE q # p
      <4>1. saved'[q] = saved[q] /\ gold'[q] = gold[q] /\ unsaved'[q] = unsaved[q]
        BY <1>2, <3>2 DEF Purses
      <4> QED BY <4>1 DEF CrashGivesBackDeposits
    <3> QED BY <3>1, <3>2
  <2> QED BY <2>1 DEF CrashGivesBackDeposits
<1>5. Carried(gold) \in Int /\ Carried(gold') = Carried(gold) - gold[p] + x
  <2>1. Carried([gold EXCEPT ![p] = x]) = Carried(gold) - gold[p] + x
    <3>1. gold \in [Players -> Int] /\ x \in Int
      BY <1>1
    <3> QED BY <3>1, PurseChanged, Zenon
  <2> QED BY <1>1, <2>1, CarriedInt
<1>6. gold[p] \in Nat
  BY DEF Purses
<1> QED BY <1>1, <1>3, <1>4, <1>5, <1>6

LEMMA LetterWorth ==
  ASSUME NEW l \in Letters
  PROVE  Money[l] = l.money /\ l.money \in Nat /\ l.cod \in Nat
         /\ \A i \in Items : Holding(i)[l] = Unit(i, l.item)
BY DEF Money, Holding, Unit, Letters

LEMMA Balanced ==
  ASSUME IInv, Types', CrashGivesBackDeposits', NotReferencedAnyMore',
         \A i \in Items : Tally(i, bags', auctions', mail', gone')
                            = Tally(i, bags, auctions, mail, gone),
         Funds(gold', mail', auctions', kept') = Funds(gold, mail, auctions, kept)
  PROVE  IInv'
<1>1. IsBox(mail) /\ IsBox(mail')
  BY DEF IInv, Types
<1>2. \A i \in Items : Tally(i, bags, auctions, mail, gone) = 1
  BY <1>1, ItemsTallied DEF IInv
<1>3. (IsBox(mail) =>
         (ItemInOnePlace <=> \A i \in Items : Tally(i, bags, auctions, mail, gone) = 1))'
  BY ItemsTallied, PTL
<1>4. ItemInOnePlace'
  BY <1>1, <1>2, <1>3
<1>5. Funds(gold, mail, auctions, kept) = Carried(StartGold)
  BY <1>1, MoneyTallied DEF IInv
<1>6. (IsBox(mail) => (MoneyBalances <=> Funds(gold, mail, auctions, kept) = Carried(StartGold)))'
  BY MoneyTallied, PTL
<1>7. MoneyBalances'
  BY <1>1, <1>5, <1>6
<1> QED BY <1>4, <1>7 DEF IInv

LEMMA ByMail ==
  ASSUME IInv, UNCHANGED auctionVars, online' \subseteq Players, Purses', Goods', IsBox(mail'),
         CrashGivesBackDeposits',
         \A i \in Items :
           Cardinality(CarriersOf(i, bags')) + Worth(mail', Holding(i)) + In(i, gone')
             = Cardinality(CarriersOf(i, bags)) + Worth(mail, Holding(i)) + In(i, gone),
         Carried(gold') + Worth(mail', Money) + kept' = Carried(gold) + Worth(mail, Money) + kept
  PROVE  IInv'
<1>1. /\ auctions' = auctions /\ nextId' = nextId /\ pending' = pending
      /\ Types /\ NotReferencedAnyMore /\ IsBox(mail) /\ IsHouse(auctions)
  BY HouseIsHouse DEF auctionVars, IInv, Types
<1>2. Types'
  BY <1>1 DEF Types, House, Waiting
<1>3. NotReferencedAnyMore'
  BY <1>1 DEF NotReferencedAnyMore
<1>4. ASSUME NEW i \in Items
      PROVE  Tally(i, bags', auctions', mail', gone') = Tally(i, bags, auctions, mail, gone)
  <2>1. /\ Cardinality(CarriersOf(i, bags')) \in Nat /\ Cardinality(CarriersOf(i, bags)) \in Nat
        /\ Cardinality(OffersOf(i, auctions)) \in Nat
    BY <1>1, CarriersFinite, BidsCounted
  <2>2. Worth(mail', Holding(i)) \in Nat /\ Worth(mail, Holding(i)) \in Nat
    BY <1>1, WorthNat, Measures
  <2>3. In(i, gone') \in Nat /\ In(i, gone) \in Nat
    BY DEF In
  <2>4. Cardinality(CarriersOf(i, bags')) + Worth(mail', Holding(i)) + In(i, gone')
             = Cardinality(CarriersOf(i, bags)) + Worth(mail, Holding(i)) + In(i, gone)
    OBVIOUS
  <2> QED BY <1>1, <2>1, <2>2, <2>3, <2>4 DEF Tally
<1>5. Funds(gold', mail', auctions', kept') = Funds(gold, mail, auctions, kept)
  <2>1. Carried(gold) \in Int /\ Carried(gold') \in Int
    <3>1. gold \in [Players -> Int] /\ gold' \in [Players -> Int]
      BY DEF Purses, IInv, Types
    <3> QED BY <3>1, CarriedInt
  <2>2. /\ Worth(mail', Money) \in Nat /\ Worth(mail, Money) \in Nat /\ BidsIn(auctions) \in Nat
        /\ kept \in Int /\ kept' \in Int
    BY <1>1, WorthNat, Measures, BidsCounted DEF Purses, IInv, Types
  <2>3. Carried(gold') + Worth(mail', Money) + kept' = Carried(gold) + Worth(mail, Money) + kept
    OBVIOUS
  <2> QED BY <1>1, <2>1, <2>2, <2>3 DEF Funds
<1> QED BY <1>2, <1>3, <1>4, <1>5, Balanced DEF IInv

LEMMA SendMailStep ==
  ASSUME IInv, UNCHANGED auctionVars, NEW p \in Players, NEW q \in Players,
         NEW item \in Items \cup {Nothing}, NEW money \in Gifts, NEW cod \in CODs,
         SendMail(p, q, item, money, cod)
  PROVE  IInv'
<1> DEFINE price == IF item = Nothing THEN 0 ELSE cod
           letter == Letter(q, p, "normal", "", item, money, price)
           x == gold[p] - Fee - money
<1>1. /\ money \in Nat /\ cod \in Nat /\ Fee \in Nat /\ Nothing \notin Items
      /\ gold \in [Players -> Nat] /\ kept \in Int /\ gold[p] >= Fee + money
      /\ bags \in [Players -> SUBSET Items] /\ item \in bags[p] \cup {Nothing}
  BY MailAssumption DEF SendMail, IInv, Types, Purses, Goods
<1>2. letter \in Letters /\ letter.item = item /\ letter.money = money
  BY <1>1 DEF Letter, Letters
<1>3. x \in Nat /\ gold' = [gold EXCEPT ![p] = x]
  <2>1. gold[p] \in Nat
    BY <1>1
  <2>2. x \in Nat
    BY <1>1, <2>1
  <2>3. gold' = [gold EXCEPT ![p] = x]
    BY DEF SendMail
  <2> QED BY <2>2, <2>3
<1>4. /\ bags' = [bags EXCEPT ![p] = @ \ {item}] /\ mail' = SendMailTo(mail, letter)
      /\ kept' = kept + Fee /\ SaveGoldToDB(p) /\ online' = online /\ gone' = gone
  BY DEF SendMail
<1> HIDE DEF letter, x
<1>5. /\ gold' \in [Players -> Nat] /\ saved' \in [Players -> Nat]
      /\ unsaved' \in [Players -> Nat] /\ CrashGivesBackDeposits'
      /\ Carried(gold) \in Int /\ gold[p] \in Nat
      /\ Carried(gold') = Carried(gold) - gold[p] + x
  BY <1>3, <1>4, Paying DEF IInv, Types
<1>6. /\ IsBox(mail')
      /\ \A m : IsMeasure(m) => Worth(mail', m) = Worth(mail, m) + m[letter]
  BY <1>2, <1>4, Sending DEF IInv, Types
<1>7. ASSUME NEW i \in Items
      PROVE  Cardinality(CarriersOf(i, bags')) = Cardinality(CarriersOf(i, bags)) - Unit(i, item)
  <2>1. CASE item = Nothing
    <3>1. bags' = bags
      BY <1>1, <1>4, <2>1
    <3> QED BY <1>1, <2>1, <3>1, CarriersFinite DEF Unit
  <2>2. CASE item # Nothing
    <3>1. bags \in [Players -> SUBSET Items] /\ item \in bags[p]
      BY <1>1, <2>2
    <3>2. Cardinality(CarriersOf(i, [bags EXCEPT ![p] = @ \ {item}]))
            = Cardinality(CarriersOf(i, bags)) - Unit(i, item)
      BY <3>1, ItemLeaves
    <3> QED BY <1>4, <3>2
  <2> QED BY <2>1, <2>2
<1>8. ASSUME NEW i \in Items
      PROVE  Cardinality(CarriersOf(i, bags')) + Worth(mail', Holding(i)) + In(i, gone')
               = Cardinality(CarriersOf(i, bags)) + Worth(mail, Holding(i)) + In(i, gone)
  <2>1. Worth(mail', Holding(i)) = Worth(mail, Holding(i)) + Unit(i, item)
    BY <1>2, <1>6, Measures, LetterWorth
  <2>2. /\ Worth(mail, Holding(i)) \in Nat /\ Unit(i, item) \in Nat /\ In(i, gone) \in Nat
        /\ Cardinality(CarriersOf(i, bags)) \in Nat
    BY WorthNat, Measures, CarriersFinite DEF IInv, Types, Unit, In
  <2>3. Cardinality(CarriersOf(i, bags')) = Cardinality(CarriersOf(i, bags)) - Unit(i, item)
    BY <1>7
  <2> QED BY <1>4, <2>1, <2>2, <2>3
<1>9. Carried(gold') + Worth(mail', Money) + kept' = Carried(gold) + Worth(mail, Money) + kept
  <2>1. Worth(mail', Money) = Worth(mail, Money) + money /\ Worth(mail, Money) \in Nat
    BY <1>2, <1>6, Measures, LetterWorth, WorthNat DEF IInv, Types
  <2>2. x = gold[p] - Fee - money
    BY DEF x
  <2> QED BY <1>1, <1>4, <1>5, <2>1, <2>2
<1>10. Purses' /\ Goods' /\ online' \subseteq Players
  <2>1. kept' \in Int /\ bags' \in [Players -> SUBSET Items]
    BY <1>1, <1>4
  <2> QED BY <1>4, <1>5, <2>1 DEF Purses, Goods, IInv, Types
<1> QED BY <1>5, <1>6, <1>8, <1>9, <1>10, ByMail

\* What a player does with one of his letters leaves those he threw away.
LEMMA OtherLetters ==
  ASSUME IsBox(mail), NEW p \in Players, NEW l \in GetMail(p)
  PROVE  /\ l \in DOMAIN mail /\ l \in Letters /\ l.to = p /\ l.deleted = FALSE
         /\ Discarded(p) \subseteq DOMAIN mail
         /\ \A k \in Discarded(p) : k # l /\ k.deleted = TRUE
         /\ l \notin Discarded(p)
BY DEF GetMail, Discarded, IsBox, Letters

LEMMA TakeMoneyStep ==
  ASSUME IInv, UNCHANGED auctionVars, NEW p \in Players, NEW l \in DOMAIN mail, TakeMoney(p, l)
  PROVE  IInv'
<1> DEFINE emptied == [l EXCEPT !.money = 0]
           rest == Take(mail, l)
           box == SendMailTo(rest, emptied)
           x == gold[p] + l.money
           X == Discarded(p)
<1>1. /\ IsBox(mail) /\ l \in GetMail(p) /\ gold \in [Players -> Nat] /\ kept \in Int
      /\ Types /\ ItemInOnePlace
  BY DEF TakeMoney, IInv, Types, Purses
<1>2. /\ l \in Letters /\ l.deleted = FALSE /\ X \subseteq DOMAIN mail
      /\ \A k \in X : k # l /\ k.deleted = TRUE
  BY <1>1, OtherLetters
<1>3. emptied \in Letters /\ emptied.item = l.item /\ emptied.money = 0 /\ emptied.deleted = FALSE
  BY <1>2 DEF Letters
<1>4. l.money \in Nat /\ gold[p] \in Nat /\ x \in Nat /\ gold' = [gold EXCEPT ![p] = x]
  <2>1. l.money \in Nat /\ gold[p] \in Nat
    BY <1>1, <1>2, LetterWorth
  <2> QED BY <2>1 DEF TakeMoney
<1>5. /\ mail' = SaveMail(p, box) /\ gone' = gone \cup Destroyed(X) /\ kept' = kept + Lost(X)
      /\ SaveGoldToDB(p) /\ online' = online /\ bags' = bags
  BY DEF TakeMoney
<1> HIDE DEF emptied, x
<1>6. /\ IsBox(rest)
      /\ \A k \in DOMAIN mail \ {l} : k \in DOMAIN rest /\ rest[k] = mail[k]
      /\ \A m : IsMeasure(m) => Worth(rest, m) = Worth(mail, m) - m[l]
  BY <1>1, TakeLetter
<1>7. /\ IsBox(box)
      /\ \A k \in DOMAIN rest \ {emptied} : k \in DOMAIN box /\ box[k] = rest[k]
      /\ \A m : IsMeasure(m) => Worth(box, m) = Worth(rest, m) + m[emptied]
  <2> HIDE DEF rest
  <2> QED BY <1>3, <1>6, Sending
<1> HIDE DEF rest, box
<1>8. \A k \in X : k \in DOMAIN box /\ box[k] = mail[k]
  BY <1>2, <1>3, <1>6, <1>7
<1>9. /\ IsBox(mail') /\ Lost(X) \in Nat /\ gone' \subseteq Items
      /\ Worth(mail', Money) = Worth(box, Money) - Lost(X)
      /\ \A i \in Items : Worth(mail', Holding(i)) + In(i, gone')
                            = Worth(box, Holding(i)) + In(i, gone)
  BY <1>1, <1>5, <1>7, <1>8, Emptying
<1> HIDE DEF X
<1>10. /\ gold' \in [Players -> Nat] /\ saved' \in [Players -> Nat]
       /\ unsaved' \in [Players -> Nat] /\ CrashGivesBackDeposits'
       /\ Carried(gold) \in Int
       /\ Carried(gold') = Carried(gold) - gold[p] + x
  BY <1>4, <1>5, Paying DEF IInv, Types
<1>11. ASSUME NEW i \in Items
       PROVE  Cardinality(CarriersOf(i, bags')) + Worth(mail', Holding(i)) + In(i, gone')
                = Cardinality(CarriersOf(i, bags)) + Worth(mail, Holding(i)) + In(i, gone)
  <2>1. /\ Worth(box, Holding(i)) = Worth(rest, Holding(i)) + Unit(i, l.item)
        /\ Worth(rest, Holding(i)) = Worth(mail, Holding(i)) - Unit(i, l.item)
    BY <1>2, <1>3, <1>6, <1>7, Measures, LetterWorth
  <2>2. /\ Worth(mail, Holding(i)) \in Nat /\ Worth(mail', Holding(i)) \in Nat
        /\ In(i, gone) \in Nat /\ In(i, gone') \in Nat /\ Unit(i, l.item) \in Nat
        /\ Cardinality(CarriersOf(i, bags)) \in Nat
    BY <1>1, <1>9, WorthNat, Measures, CarriersFinite DEF In, Unit
  <2>3. Worth(mail', Holding(i)) + In(i, gone') = Worth(box, Holding(i)) + In(i, gone)
    BY <1>9
  <2> QED BY <1>5, <2>1, <2>2, <2>3
<1>12. Carried(gold') + Worth(mail', Money) + kept' = Carried(gold) + Worth(mail, Money) + kept
  <2>1. Worth(box, Money) = Worth(rest, Money) + 0 /\ Worth(rest, Money) = Worth(mail, Money) - l.money
    BY <1>2, <1>3, <1>6, <1>7, Measures, LetterWorth
  <2>2. Worth(mail, Money) \in Nat
    BY <1>1, WorthNat, Measures
  <2>3. x = gold[p] + l.money
    BY DEF x
  <2> QED BY <1>1, <1>4, <1>5, <1>9, <1>10, <2>1, <2>2, <2>3
<1>13. Purses' /\ Goods' /\ online' \subseteq Players
  <2>1. kept' \in Int
    BY <1>1, <1>5, <1>9
  <2> QED BY <1>1, <1>5, <1>9, <1>10, <2>1 DEF Purses, Goods, Types
<1> QED BY <1>9, <1>10, <1>11, <1>12, <1>13, ByMail

LEMMA TakeItemStep ==
  ASSUME IInv, UNCHANGED auctionVars, NEW p \in Players, NEW l \in DOMAIN mail, TakeItem(p, l)
  PROVE  IInv'
<1> DEFINE emptied == [l EXCEPT !.item = Nothing, !.cod = 0]
           payment == Letter(l.from, p, "normal", "cod", Nothing, l.cod, 0)
           rest == Take(mail, l)
           back == SendMailTo(rest, emptied)
           box == SendMailTo(back, payment)
           x == gold[p] - l.cod
           X == Discarded(p)
<1>1. /\ IsBox(mail) /\ l \in GetMail(p) /\ gold \in [Players -> Nat] /\ kept \in Int
      /\ bags \in [Players -> SUBSET Items] /\ Types /\ ItemInOnePlace
      /\ l.item # Nothing /\ gold[p] >= l.cod
  BY DEF TakeItem, IInv, Types, Purses, Goods
<1>2. /\ l \in Letters /\ l.deleted = FALSE /\ X \subseteq DOMAIN mail
      /\ \A k \in X : k # l /\ k.deleted = TRUE
  BY <1>1, OtherLetters
<1>3. emptied \in Letters /\ emptied.item = Nothing /\ emptied.money = l.money /\ emptied.deleted = FALSE
  BY <1>2 DEF Letters
<1>4. l.cod \in Nat /\ gold[p] \in Nat /\ x \in Nat /\ gold' = [gold EXCEPT ![p] = x]
  <2>1. l.cod \in Nat /\ gold[p] \in Nat
    BY <1>1, <1>2, LetterWorth
  <2>2. x \in Nat
    BY <1>1, <2>1
  <2> QED BY <2>1, <2>2 DEF TakeItem
<1>5. /\ mail' = SaveMail(p, box) /\ gone' = gone \cup Destroyed(X) /\ kept' = kept + Lost(X)
      /\ SaveGoldToDB(p) /\ online' = online /\ bags' = [bags EXCEPT ![p] = @ \cup {l.item}]
  BY DEF TakeItem
<1>6. payment.deleted = FALSE /\ payment.item = Nothing /\ payment.money = l.cod
  BY DEF Letter
<1>7. l.cod # 0 => payment \in Letters
  BY <1>2, MailAssumption DEF Letters, Letter
<1> HIDE DEF emptied, payment, x
<1>8. /\ IsBox(rest)
      /\ \A k \in DOMAIN mail \ {l} : k \in DOMAIN rest /\ rest[k] = mail[k]
      /\ \A m : IsMeasure(m) => Worth(rest, m) = Worth(mail, m) - m[l]
  BY <1>1, TakeLetter
<1>9. /\ IsBox(back)
      /\ \A k \in DOMAIN rest \ {emptied} : k \in DOMAIN back /\ back[k] = rest[k]
      /\ \A m : IsMeasure(m) => Worth(back, m) = Worth(rest, m) + m[emptied]
  <2> HIDE DEF rest
  <2> QED BY <1>3, <1>8, Sending
<1>10. /\ IsBox(box)
       /\ \A k \in DOMAIN back \ {payment} : k \in DOMAIN box /\ box[k] = back[k]
       /\ Worth(box, Money) = Worth(back, Money) + l.cod
       /\ \A i \in Items : Worth(box, Holding(i)) = Worth(back, Holding(i))
  <2> HIDE DEF back
  <2>1. Worth(back, Money) \in Nat /\ \A i \in Items : Worth(back, Holding(i)) \in Nat
    BY <1>9, WorthNat, Measures
  <2>2. CASE l.cod = 0
    <3>1. box = back
      BY <1>6, <2>2 DEF SendMailTo
    <3> QED BY <1>9, <2>1, <2>2, <3>1
  <2>3. CASE l.cod # 0
    <3>1. /\ IsBox(box)
          /\ \A k \in DOMAIN back \ {payment} : k \in DOMAIN box /\ box[k] = back[k]
          /\ \A m : IsMeasure(m) => Worth(box, m) = Worth(back, m) + m[payment]
      BY <1>7, <1>9, <2>3, Sending
    <3>2. Money[payment] = l.cod /\ \A i \in Items : Holding(i)[payment] = 0
      BY <1>6, <1>7, <2>3, LetterWorth, MailAssumption DEF Unit
    <3>3. Worth(box, Money) = Worth(back, Money) + l.cod
      BY <3>1, <3>2, Measures
    <3>4. \A i \in Items : Worth(box, Holding(i)) = Worth(back, Holding(i)) + 0
      BY <3>1, <3>2, Measures
    <3> QED BY <2>1, <3>1, <3>3, <3>4
  <2> QED BY <2>2, <2>3
<1> HIDE DEF rest, back, box
<1>11. \A k \in X : k \in DOMAIN box /\ box[k] = mail[k]
  BY <1>2, <1>3, <1>6, <1>8, <1>9, <1>10
<1>12. /\ IsBox(mail') /\ Lost(X) \in Nat /\ gone' \subseteq Items
       /\ Worth(mail', Money) = Worth(box, Money) - Lost(X)
       /\ \A i \in Items : Worth(mail', Holding(i)) + In(i, gone')
                             = Worth(box, Holding(i)) + In(i, gone)
  BY <1>1, <1>5, <1>10, <1>11, Emptying
<1> HIDE DEF X
<1>13. /\ gold' \in [Players -> Nat] /\ saved' \in [Players -> Nat]
       /\ unsaved' \in [Players -> Nat] /\ CrashGivesBackDeposits'
       /\ Carried(gold) \in Int
       /\ Carried(gold') = Carried(gold) - gold[p] + x
  BY <1>4, <1>5, Paying DEF IInv, Types
<1>14. l.item \in Items /\ l.item \notin bags[p]
  <2>1. l.item \in Items
    BY <1>1, <1>2 DEF Letters
  <2> QED BY <1>1, <2>1, InTheLetter
<1>15. ASSUME NEW i \in Items
       PROVE  Cardinality(CarriersOf(i, bags')) + Worth(mail', Holding(i)) + In(i, gone')
                = Cardinality(CarriersOf(i, bags)) + Worth(mail, Holding(i)) + In(i, gone)
  <2>1. /\ Worth(box, Holding(i)) = Worth(back, Holding(i))
        /\ Worth(back, Holding(i)) = Worth(rest, Holding(i)) + Unit(i, Nothing)
        /\ Worth(rest, Holding(i)) = Worth(mail, Holding(i)) - Unit(i, l.item)
    BY <1>2, <1>3, <1>8, <1>9, <1>10, Measures, LetterWorth
  <2>2. /\ Worth(mail, Holding(i)) \in Nat /\ Worth(mail', Holding(i)) \in Nat
        /\ In(i, gone) \in Nat /\ In(i, gone') \in Nat /\ Unit(i, l.item) \in Nat
        /\ Cardinality(CarriersOf(i, bags)) \in Nat /\ Unit(i, Nothing) = 0
    BY <1>1, <1>12, WorthNat, Measures, CarriersFinite, MailAssumption DEF In, Unit
  <2>3. Worth(mail', Holding(i)) + In(i, gone') = Worth(box, Holding(i)) + In(i, gone)
    BY <1>12
  <2>4. Cardinality(CarriersOf(i, bags')) = Cardinality(CarriersOf(i, bags)) + Unit(i, l.item)
    <3>1. PICK item \in Items : item = l.item
      BY <1>14
    <3>2. bags \in [Players -> SUBSET Items] /\ item \notin bags[p]
      BY <1>1, <1>14, <3>1 DEF Goods, Types
    <3>3. Cardinality(CarriersOf(i, Filled(bags, p, item)))
            = Cardinality(CarriersOf(i, bags)) + Unit(i, item)
      BY <3>2, ItemArrives
    <3>4. bags' = Filled(bags, p, item)
      BY <1>5, <3>1 DEF Filled
    <3> QED BY <3>1, <3>3, <3>4
  <2> QED BY <2>1, <2>2, <2>3, <2>4
<1>16. Carried(gold') + Worth(mail', Money) + kept' = Carried(gold) + Worth(mail, Money) + kept
  <2>1. /\ Worth(back, Money) = Worth(rest, Money) + l.money
        /\ Worth(rest, Money) = Worth(mail, Money) - l.money
        /\ l.money \in Nat
    BY <1>2, <1>3, <1>8, <1>9, Measures, LetterWorth
  <2>2. Worth(mail, Money) \in Nat
    BY <1>1, WorthNat, Measures
  <2>3. x = gold[p] - l.cod
    BY DEF x
  <2> QED BY <1>1, <1>4, <1>5, <1>10, <1>12, <1>13, <2>1, <2>2, <2>3
<1>17. Purses' /\ Goods' /\ online' \subseteq Players
  <2>1. kept' \in Int
    BY <1>1, <1>5, <1>12
  <2>2. bags' \in [Players -> SUBSET Items]
    BY <1>1, <1>5, <1>14
  <2> QED BY <1>1, <1>5, <1>12, <1>13, <2>1, <2>2 DEF Purses, Goods, Types
<1> QED BY <1>12, <1>13, <1>15, <1>16, <1>17, ByMail

\* A letter leaves its box: another takes its place, or it is destroyed.
LEMMA Replaced ==
  ASSUME IInv, UNCHANGED auctionVars, UNCHANGED <<gold, saved, unsaved, bags, online>>,
         gone' = gone, kept' = kept, NEW l \in DOMAIN mail,
         NEW other \in Letters, other.item = l.item, other.money = l.money,
         \/ mail' = SendMailTo(Take(mail, l), other)
         \/ mail' = Put(Take(mail, l), other)
  PROVE  IInv'
<1> DEFINE rest == Take(mail, l)
<1>1. IsBox(mail) /\ Types /\ l \in Letters
  BY DEF IInv, Types, IsBox
<1>2. /\ IsBox(rest)
      /\ \A m : IsMeasure(m) => Worth(rest, m) = Worth(mail, m) - m[l]
  BY <1>1, TakeLetter
<1> HIDE DEF rest
<1>3. /\ IsBox(mail')
      /\ \A m : IsMeasure(m) => Worth(mail', m) = Worth(rest, m) + m[other]
  <2>1. CASE mail' = SendMailTo(rest, other)
    BY <1>2, <2>1, Sending
  <2>2. CASE mail' = Put(rest, other)
    BY <1>2, <2>2, PutLetter
  <2> QED BY <2>1, <2>2 DEF rest
<1>4. \A m : IsContent(m) => Worth(mail', m) = Worth(mail, m)
  <2> TAKE m
  <2> HAVE IsContent(m)
  <2>1. m[other] = m[l] /\ m[l] \in Nat /\ Worth(mail, m) \in Nat
    BY <1>1, WorthNat DEF IsMeasure, IsContent
  <2>2. Worth(rest, m) = Worth(mail, m) - m[l] /\ Worth(mail', m) = Worth(rest, m) + m[other]
    BY <1>2, <1>3 DEF IsContent
  <2> QED BY <2>1, <2>2
<1>5. /\ Worth(mail', Money) = Worth(mail, Money)
      /\ \A i \in Items : Worth(mail', Holding(i)) = Worth(mail, Holding(i))
  BY <1>4, Measures
<1>6. Purses' /\ Goods' /\ online' \subseteq Players /\ CrashGivesBackDeposits'
  BY <1>1 DEF Purses, Goods, Types, CrashGivesBackDeposits, IInv
<1> QED BY <1>3, <1>5, <1>6, ByMail

LEMMA LetterDestroyed ==
  ASSUME IInv, UNCHANGED auctionVars, UNCHANGED <<gold, saved, unsaved, bags, online>>,
         NEW l \in DOMAIN mail, mail' = Take(mail, l),
         gone' = gone \cup Destroyed({l}), kept' = kept + l.money
  PROVE  IInv'
<1>1. IsBox(mail) /\ Types /\ ItemInOnePlace /\ l \in Letters /\ gold \in [Players -> Int] /\ kept \in Int
  BY DEF IInv, Types, IsBox, Purses
<1>2. /\ IsBox(mail')
      /\ \A m : IsMeasure(m) => Worth(mail', m) = Worth(mail, m) - m[l]
  BY <1>1, TakeLetter
<1>3. /\ Worth(mail', Money) = Worth(mail, Money) - l.money /\ l.money \in Nat
      /\ \A i \in Items : Worth(mail', Holding(i)) = Worth(mail, Holding(i)) - Unit(i, l.item)
  BY <1>1, <1>2, Measures, LetterWorth
<1>4. /\ gone' \subseteq Items
      /\ \A i \in Items : In(i, gone') = In(i, gone) + Unit(i, l.item)
  BY <1>1, Burning
<1>5. ASSUME NEW i \in Items
      PROVE  Cardinality(CarriersOf(i, bags')) + Worth(mail', Holding(i)) + In(i, gone')
               = Cardinality(CarriersOf(i, bags)) + Worth(mail, Holding(i)) + In(i, gone)
  <2>1. /\ Worth(mail, Holding(i)) \in Nat /\ In(i, gone) \in Nat /\ Unit(i, l.item) \in Nat
        /\ Cardinality(CarriersOf(i, bags)) \in Nat
    BY <1>1, WorthNat, Measures, CarriersFinite DEF In, Unit
  <2>2. In(i, gone') = In(i, gone) + Unit(i, l.item)
    BY <1>4
  <2>3. Worth(mail', Holding(i)) = Worth(mail, Holding(i)) - Unit(i, l.item)
    BY <1>3
  <2> QED BY <2>1, <2>2, <2>3
<1>6. Carried(gold') + Worth(mail', Money) + kept' = Carried(gold) + Worth(mail, Money) + kept
  <2>1. Carried(gold) \in Int /\ Worth(mail, Money) \in Nat
    BY <1>1, CarriedInt, WorthNat, Measures
  <2> QED BY <1>1, <1>3, <2>1
<1>7. Purses' /\ Goods' /\ online' \subseteq Players /\ CrashGivesBackDeposits'
  <2>1. kept' \in Int
    BY <1>1, <1>3
  <2>2. Purses' /\ Goods' /\ online' \subseteq Players
    BY <1>1, <1>4, <2>1 DEF Purses, Goods, Types
  <2>3. CrashGivesBackDeposits'
    BY DEF CrashGivesBackDeposits, IInv
  <2> QED BY <2>2, <2>3
<1> QED BY <1>2, <1>5, <1>6, <1>7, ByMail

LEMMA ReturnStep ==
  ASSUME IInv, UNCHANGED auctionVars, NEW p \in Players, NEW l \in DOMAIN mail,
         ReturnToSender(p, l)
  PROVE  IInv'
<1>1. l \in Letters
  BY DEF IInv, Types, IsBox
<1>2. UNCHANGED <<gold, saved, unsaved, bags, online>>
  BY DEF ReturnToSender
<1>3. CASE l.kind = "normal"
  <2> DEFINE other == Letter(l.from, p, "normal", "returned", l.item, l.money, 0)
  <2>1. other \in Letters /\ other.item = l.item /\ other.money = l.money
    BY <1>1, <1>3 DEF Letters, Letter
  <2>2. mail' = SendMailTo(Take(mail, l), other) /\ gone' = gone /\ kept' = kept
    BY <1>3 DEF ReturnToSender
  <2> HIDE DEF other
  <2> QED BY <1>2, <2>1, <2>2, Replaced
<1>4. CASE l.kind # "normal"
  <2>1. mail' = Take(mail, l) /\ gone' = gone \cup Destroyed({l}) /\ kept' = kept + l.money
    BY <1>4 DEF ReturnToSender
  <2> QED BY <1>2, <2>1, LetterDestroyed
<1> QED BY <1>3, <1>4

LEMMA DeleteStep ==
  ASSUME IInv, UNCHANGED auctionVars, NEW p \in Players, NEW l \in DOMAIN mail, Delete(p, l)
  PROVE  IInv'
<1> DEFINE other == [l EXCEPT !.deleted = TRUE]
<1>1. l \in Letters
  BY DEF IInv, Types, IsBox
<1>2. other \in Letters /\ other.item = l.item /\ other.money = l.money
  BY <1>1 DEF Letters
<1>3. mail' = Put(Take(mail, l), other) /\ gone' = gone /\ kept' = kept
      /\ UNCHANGED <<gold, saved, unsaved, bags, online>>
  BY DEF Delete
<1> HIDE DEF other
<1> QED BY <1>2, <1>3, Replaced

LEMMA ExpireStep ==
  ASSUME IInv, UNCHANGED auctionVars, NEW l \in DOMAIN mail, Expire(l)
  PROVE  IInv'
<1> DEFINE goesBack == l.item # Nothing /\ l.kind = "normal" /\ l.checked = ""
<1>1. l \in Letters
  BY DEF IInv, Types, IsBox
<1>2. UNCHANGED <<gold, saved, unsaved, bags, online>>
  BY DEF Expire
<1>3. CASE goesBack
  <2> DEFINE other == [l EXCEPT !.to = l.from, !.from = l.to, !.cod = 0, !.checked = "returned"]
  <2>1. other \in Letters /\ other.item = l.item /\ other.money = l.money
    BY <1>1, <1>3 DEF Letters
  <2>2. mail' = Put(Take(mail, l), other) /\ gone' = gone /\ kept' = kept
    BY <1>3 DEF Expire
  <2> HIDE DEF other
  <2> QED BY <1>2, <2>1, <2>2, Replaced
<1>4. CASE ~goesBack
  <2>1. mail' = Take(mail, l) /\ gone' = gone \cup Destroyed({l}) /\ kept' = kept + l.money
    BY <1>4 DEF Expire
  <2> QED BY <1>2, <2>1, LetterDestroyed
<1> QED BY <1>3, <1>4

\* Player::SaveToDB, from the timer or at logout.
LEMMA SavedStep ==
  ASSUME IInv, UNCHANGED auctionVars, NEW p \in Players, Saved(p), online' \subseteq Players
  PROVE  IInv'
<1> DEFINE X == Discarded(p)
<1>1. /\ IsBox(mail) /\ Types /\ ItemInOnePlace
      /\ gold \in [Players -> Nat] /\ gold[p] \in Nat /\ kept \in Int
  BY DEF IInv, Types, Purses
<1>2. /\ gold' = gold /\ SaveGoldToDB(p) /\ mail' = SaveMail(p, mail)
      /\ gone' = gone \cup Destroyed(X) /\ kept' = kept + Lost(X) /\ bags' = bags
  BY DEF Saved
<1>3. gold' = [gold EXCEPT ![p] = gold[p]]
  BY <1>1, <1>2
<1>4. /\ gold' \in [Players -> Nat] /\ saved' \in [Players -> Nat]
      /\ unsaved' \in [Players -> Nat] /\ CrashGivesBackDeposits' /\ Carried(gold) \in Int
  BY <1>1, <1>2, <1>3, Paying DEF IInv, Types
<1>5. \A l \in X : l \in DOMAIN mail /\ mail[l] = mail[l]
  BY DEF Discarded
<1>6. /\ IsBox(mail') /\ Lost(X) \in Nat /\ gone' \subseteq Items
      /\ Worth(mail', Money) = Worth(mail, Money) - Lost(X)
      /\ \A i \in Items : Worth(mail', Holding(i)) + In(i, gone')
                            = Worth(mail, Holding(i)) + In(i, gone)
  BY <1>1, <1>2, <1>5, Emptying
<1> HIDE DEF X
<1>7. ASSUME NEW i \in Items
      PROVE  Cardinality(CarriersOf(i, bags')) + Worth(mail', Holding(i)) + In(i, gone')
               = Cardinality(CarriersOf(i, bags)) + Worth(mail, Holding(i)) + In(i, gone)
  <2>1. /\ Worth(mail, Holding(i)) \in Nat /\ Worth(mail', Holding(i)) \in Nat
        /\ In(i, gone) \in Nat /\ In(i, gone') \in Nat
        /\ Cardinality(CarriersOf(i, bags)) \in Nat
    BY <1>1, <1>6, WorthNat, Measures, CarriersFinite DEF In
  <2>2. Worth(mail', Holding(i)) + In(i, gone') = Worth(mail, Holding(i)) + In(i, gone)
    BY <1>6
  <2> QED BY <1>2, <2>1, <2>2
<1>8. Carried(gold') + Worth(mail', Money) + kept' = Carried(gold) + Worth(mail, Money) + kept
  <2>1. Worth(mail, Money) \in Nat
    BY <1>1, WorthNat, Measures
  <2> QED BY <1>1, <1>2, <1>4, <1>6, <2>1
<1>9. Purses' /\ Goods'
  <2>1. kept' \in Int
    BY <1>1, <1>2, <1>6
  <2> QED BY <1>1, <1>2, <1>4, <1>6, <2>1 DEF Purses, Goods, Types
<1> QED BY <1>4, <1>6, <1>7, <1>8, <1>9, ByMail

LEMMA LoadStep ==
  ASSUME IInv, UNCHANGED auctionVars, NEW p \in Players, LoadFromDB(p)
  PROVE  IInv'
<1>1. /\ UNCHANGED <<gold, bags, saved, mail, gone, kept, unsaved>> /\ Types
      /\ online' \subseteq Players /\ IsBox(mail')
  BY DEF LoadFromDB, IInv, Types
<1>2. Purses' /\ Goods' /\ CrashGivesBackDeposits'
  BY <1>1 DEF Purses, Goods, Types, CrashGivesBackDeposits, IInv
<1> QED BY <1>1, <1>2, ByMail

LEMMA MailStep ==
  ASSUME IInv, UNCHANGED auctionVars, MailNext
  PROVE  IInv'
<1>1. ASSUME NEW p \in Players, SaveToDB(p) PROVE IInv'
  <2>1. Saved(p) /\ online' \subseteq Players
    BY <1>1 DEF SaveToDB, IInv, Types
  <2> QED BY <2>1, SavedStep
<1>2. ASSUME NEW p \in Players, LogoutPlayer(p) PROVE IInv'
  <2>1. Saved(p) /\ online' \subseteq Players
    BY <1>2 DEF LogoutPlayer, IInv, Types
  <2> QED BY <2>1, SavedStep
<1> QED BY <1>1, <1>2, SendMailStep, TakeMoneyStep, TakeItemStep, ReturnStep, DeleteStep,
           ExpireStep, LoadStep DEF MailNext

---------------------------------------------------------------------------
(***************************************************************************)
(* The steps of the auction house.                                         *)
(***************************************************************************)
LEMMA Posted ==
  ASSUME NEW box, IsBox(box), NEW to \in Players, NEW item \in Items \cup {Nothing},
         NEW money \in Nat
  PROVE  LET new == SendMailTo(box, AuctionLetter(to, item, money))
         IN  /\ IsBox(new)
             /\ Worth(new, Money) = Worth(box, Money) + money
             /\ \A i \in Items : Worth(new, Holding(i)) = Worth(box, Holding(i)) + Unit(i, item)
<1> DEFINE letter == AuctionLetter(to, item, money)
<1>1. letter \in Letters /\ letter.item = item /\ letter.money = money
  BY DEF AuctionLetter, Letter, Letters
<1> HIDE DEF letter
<1>2. /\ IsBox(SendMailTo(box, letter))
      /\ \A m : IsMeasure(m) => Worth(SendMailTo(box, letter), m) = Worth(box, m) + m[letter]
  BY <1>1, Sending
<1>3. Money[letter] = money /\ \A i \in Items : Holding(i)[letter] = Unit(i, item)
  BY <1>1, LetterWorth
<1> QED BY <1>2, <1>3, Measures DEF letter

LEMMA CutInBid ==
  ASSUME NEW a, a.bid \in Nat
  PROVE  GetAuctionCut(a) \in Nat /\ GetAuctionCut(a) <= a.bid
<1> DEFINE b == a.bid
           c == CutPercent
<1>1. b \in Nat /\ c \in Nat /\ c <= 100
  BY AuctionAssumption
<1> HIDE DEF b, c
<1>2. b * c \in Nat /\ b * c <= 100 * b
  BY <1>1
<1>3. (b * c) \div 100 \in Nat /\ (b * c) \div 100 <= b
  <2>1. PICK x \in Nat : x = b * c
    BY <1>2
  <2>2. x <= 100 * b
    BY <1>2, <2>1
  <2>3. x \div 100 \in Nat /\ x \div 100 <= b
    BY <1>1, <2>2
  <2> QED BY <2>1, <2>3
<1> QED BY <1>3 DEF GetAuctionCut, b, c

LEMMA SharedEvenly ==
  ASSUME NEW d \in Nat, NEW n \in Nat \ {0}
  PROVE  (d * n) \div n = d /\ d * n - (n - 1) * d = d
<1>1. d * n \in Nat /\ (n - 1) * d = d * n - d
  OBVIOUS
<1>2. (d * n) \div n = d
  OBVIOUS
<1> QED BY <1>1, <1>2

\* Two auctions of the same player are told apart by their identifiers.
LEMMA NotPending ==
  ASSUME Patient, NotReferencedAnyMore, NEW id, MayEnd(id) \/ ~Pending(id),
         pending' = pending, DOMAIN auctions' = DOMAIN auctions \ {id}
  PROVE  NotReferencedAnyMore'
<1>1. \A p \in Players : id \notin Range(pending[p])
  BY DEF MayEnd, Pending
<1> QED BY <1>1 DEF NotReferencedAnyMore

LEMMA RangeOfAppend ==
  ASSUME NEW s \in Seq(Nat), NEW x \in Nat
  PROVE  Range(Append(s, x)) = Range(s) \cup {x}
<1>1. DOMAIN s = 1 .. Len(s) /\ Len(s) \in Nat
  OBVIOUS
<1>2. DOMAIN Append(s, x) = 1 .. Len(s) + 1
  OBVIOUS
<1>3. /\ Append(s, x)[Len(s) + 1] = x
      /\ \A k \in 1 .. Len(s) : Append(s, x)[k] = s[k]
  OBVIOUS
<1> QED BY <1>1, <1>2, <1>3 DEF Range

LEMMA SellItemStep ==
  ASSUME IInv, NEW p \in Players, NEW item \in Items, NEW startbid \in StartBids,
         NEW buyout \in Buyouts, SellItem(p, item, startbid, buyout)
  PROVE  IInv'
<1> DEFINE a == [item |-> item, owner |-> p, bidder |-> NoPlayer, bid |-> 0, startbid |-> startbid,
                 buyout |-> buyout, deposit |-> GetAuctionDeposit(item, 1)]
<1>1. /\ Types /\ IsBox(mail) /\ IsHouse(auctions) /\ gold \in [Players -> Nat] /\ kept \in Int
      /\ bags \in [Players -> SUBSET Items] /\ nextId \in Nat \ {0} /\ nextId \notin DOMAIN auctions
  BY HouseIsHouse DEF IInv, Types, Purses, Goods, House
<1>2. /\ auctions' = Entered(auctions, nextId, a) /\ nextId' = nextId + 1
      /\ pending' = [pending EXCEPT ![p] = Append(@, nextId)]
      /\ bags' = [bags EXCEPT ![p] = @ \ {item}] /\ item \in bags[p]
      /\ gold' = gold /\ SaveGoldToDB(p)
      /\ online' = online /\ mail' = mail /\ gone' = gone /\ kept' = kept
  BY DEF SellItem, Entered
<1>3. a \in Entries /\ a.item = item /\ a.bid = 0
  <2>1. GetAuctionDeposit(item, 1) \in Nat
    BY AuctionAssumption DEF GetAuctionDeposit
  <2> QED BY <2>1, AuctionAssumption, MailAssumption DEF Entries
<1> HIDE DEF a
<1>4. /\ IsHouse(auctions') /\ DOMAIN auctions' = DOMAIN auctions \cup {nextId}
      /\ BidsIn(auctions') = BidsIn(auctions) + 0
      /\ \A i : Cardinality(OffersOf(i, auctions')) = Cardinality(OffersOf(i, auctions)) + Unit(i, item)
  <2> DEFINE new == Entered(auctions, nextId, a)
  <2>1. /\ IsHouse(new) /\ DOMAIN new = DOMAIN auctions \cup {nextId}
        /\ BidsIn(new) = BidsIn(auctions) + a.bid
        /\ \A i : Cardinality(OffersOf(i, new)) = Cardinality(OffersOf(i, auctions)) + Unit(i, a.item)
    <3>1. PICK e \in Entries : e = a
      BY <1>3
    <3>2. IsHouse(auctions) /\ nextId \notin DOMAIN auctions
      BY <1>1
    <3>3. LET house == Entered(auctions, nextId, e)
          IN  /\ IsHouse(house) /\ DOMAIN house = DOMAIN auctions \cup {nextId}
              /\ BidsIn(house) = BidsIn(auctions) + e.bid
              /\ \A i : Cardinality(OffersOf(i, house)) = Cardinality(OffersOf(i, auctions)) + Unit(i, e.item)
      BY <3>2, EnterAuction
    <3> QED BY <3>1, <3>3
  <2> HIDE DEF new
  <2>2. auctions' = new
    BY <1>2 DEF new
  <2> QED BY <1>3, <2>1, <2>2
<1>5. /\ saved' \in [Players -> Nat] /\ unsaved' \in [Players -> Nat] /\ CrashGivesBackDeposits'
  <2>1. gold[p] \in Nat /\ gold' = [gold EXCEPT ![p] = gold[p]]
    BY <1>1, <1>2
  <2> QED BY <1>2, <2>1, Paying DEF IInv, Types
<1>6. House'
  BY <1>1, <1>2, <1>4 DEF House, IsHouse, Types
<1>7. Waiting' /\ NotReferencedAnyMore'
  <2>1. pending \in [Players -> Seq(Nat)] /\ \A q \in Players : Range(pending[q]) \subseteq DOMAIN auctions
    BY <1>1 DEF Types, Waiting, NotReferencedAnyMore, IInv
  <2>2. pending' \in [Players -> Seq(Nat)]
    BY <1>1, <1>2, <2>1
  <2>3. ASSUME NEW q \in Players PROVE Range(pending'[q]) \subseteq DOMAIN auctions'
    <3>1. CASE q # p
      BY <1>2, <1>4, <2>1, <3>1
    <3>2. CASE q = p
      <4>1. PICK s \in Seq(Nat) : s = pending[p]
        BY <2>1
      <4>2. pending'[q] = Append(s, nextId)
        BY <1>2, <2>1, <3>2, <4>1
      <4>3. Range(Append(s, nextId)) = Range(s) \cup {nextId}
        BY <1>1, RangeOfAppend
      <4> QED BY <1>4, <2>1, <4>1, <4>2, <4>3
    <3> QED BY <3>1, <3>2
  <2> QED BY <2>2, <2>3 DEF Waiting, NotReferencedAnyMore
<1>8. Types'
  <2>1. bags' \in [Players -> SUBSET Items]
    BY <1>1, <1>2
  <2> QED BY <1>1, <1>2, <1>5, <1>6, <1>7, <2>1 DEF Types, Purses, Goods
<1>9. ASSUME NEW i \in Items
      PROVE  Tally(i, bags', auctions', mail', gone') = Tally(i, bags, auctions, mail, gone)
  <2>1. Cardinality(CarriersOf(i, bags')) = Cardinality(CarriersOf(i, bags)) - Unit(i, item)
    <3>1. bags \in [Players -> SUBSET Items] /\ item \in bags[p]
      BY <1>1, <1>2
    <3>2. Cardinality(CarriersOf(i, [bags EXCEPT ![p] = @ \ {item}]))
            = Cardinality(CarriersOf(i, bags)) - Unit(i, item)
      BY <3>1, ItemLeaves
    <3> QED BY <1>2, <3>2
  <2>2. Cardinality(OffersOf(i, auctions')) = Cardinality(OffersOf(i, auctions)) + Unit(i, item)
    BY <1>4
  <2>3. /\ Cardinality(CarriersOf(i, bags)) \in Nat /\ Cardinality(OffersOf(i, auctions)) \in Nat
        /\ Unit(i, item) \in Nat /\ Worth(mail, Holding(i)) \in Nat /\ In(i, gone) \in Nat
    BY <1>1, CarriersFinite, BidsCounted, WorthNat, Measures DEF Unit, In
  <2> QED BY <1>2, <2>1, <2>2, <2>3 DEF Tally
<1>10. Funds(gold', mail', auctions', kept') = Funds(gold, mail, auctions, kept)
  <2>1. BidsIn(auctions') = BidsIn(auctions)
    BY <1>1, <1>4, BidsCounted
  <2> QED BY <1>2, <2>1 DEF Funds
<1> QED BY <1>5, <1>7, <1>8, <1>9, <1>10, Balanced

LEMMA AtTheHouse ==
  ASSUME IInv, Types', CrashGivesBackDeposits', NotReferencedAnyMore', bags' = bags, gone' = gone,
         \A i \in Items : Cardinality(OffersOf(i, auctions')) + Worth(mail', Holding(i))
                            = Cardinality(OffersOf(i, auctions)) + Worth(mail, Holding(i)),
         Carried(gold') + Worth(mail', Money) + BidsIn(auctions') + kept'
           = Carried(gold) + Worth(mail, Money) + BidsIn(auctions) + kept
  PROVE  IInv'
<1>1. /\ IsBox(mail) /\ IsBox(mail') /\ IsHouse(auctions)
  BY HouseIsHouse DEF IInv, Types
<1>2. (House => IsHouse(auctions))'
  BY HouseIsHouse, PTL
<1>3. IsHouse(auctions')
  BY <1>2 DEF Types
<1>4. ASSUME NEW i \in Items
      PROVE  Tally(i, bags', auctions', mail', gone') = Tally(i, bags, auctions, mail, gone)
  <2>1. /\ Cardinality(CarriersOf(i, bags)) \in Nat /\ Cardinality(OffersOf(i, auctions)) \in Nat
        /\ Cardinality(OffersOf(i, auctions')) \in Nat /\ In(i, gone) \in Nat
    BY <1>1, <1>3, CarriersFinite, BidsCounted DEF In
  <2>2. Worth(mail', Holding(i)) \in Nat /\ Worth(mail, Holding(i)) \in Nat
    BY <1>1, WorthNat, Measures
  <2>3. Cardinality(OffersOf(i, auctions')) + Worth(mail', Holding(i))
          = Cardinality(OffersOf(i, auctions)) + Worth(mail, Holding(i))
    OBVIOUS
  <2> QED BY <2>1, <2>2, <2>3 DEF Tally
<1>5. Funds(gold', mail', auctions', kept') = Funds(gold, mail, auctions, kept)
  BY DEF Funds
<1> QED BY <1>4, <1>5, Balanced

LEMMA Ended ==
  ASSUME IInv, Patient, NEW id \in DOMAIN auctions, MayEnd(id) \/ ~Pending(id),
         RemoveAuction(id), nextId' = nextId, pending' = pending
  PROVE  /\ House' /\ Waiting' /\ NotReferencedAnyMore'
         /\ BidsIn(auctions) \in Nat /\ BidsIn(auctions') = BidsIn(auctions) - auctions[id].bid
         /\ \A i \in Items : Cardinality(OffersOf(i, auctions)) \in Nat
         /\ \A i \in Items : Cardinality(OffersOf(i, auctions'))
                               = Cardinality(OffersOf(i, auctions)) - Unit(i, auctions[id].item)
<1>1. /\ IsHouse(auctions) /\ NotReferencedAnyMore /\ House /\ Waiting
      /\ auctions' = Restrict(auctions, DOMAIN auctions \ {id})
  BY HouseIsHouse DEF IInv, Types, RemoveAuction
<1>2. /\ IsHouse(auctions') /\ DOMAIN auctions' = DOMAIN auctions \ {id}
      /\ BidsIn(auctions') = BidsIn(auctions) - auctions[id].bid
      /\ \A i : Cardinality(OffersOf(i, auctions'))
                  = Cardinality(OffersOf(i, auctions)) - Unit(i, auctions[id].item)
  BY <1>1, LeaveAuction
<1>3. House'
  BY <1>1, <1>2 DEF House, IsHouse
<1>4. Waiting' /\ NotReferencedAnyMore'
  BY <1>1, <1>2, NotPending DEF Waiting
<1>5. BidsIn(auctions) \in Nat /\ \A i \in Items : Cardinality(OffersOf(i, auctions)) \in Nat
  BY <1>1, BidsCounted
<1> QED BY <1>2, <1>3, <1>4, <1>5

\* The last bidder, if there is another, gets his bid back.
LEMMA BidReturned ==
  ASSUME NEW box, IsBox(box), NEW a \in Entries
  PROVE  /\ a.bid \in Nat /\ (a.bidder = NoPlayer => a.bid = 0)
         /\ a.bidder # NoPlayer =>
              /\ IsBox(MailBack(box, a))
              /\ Worth(MailBack(box, a), Money) = Worth(box, Money) + a.bid
              /\ \A i \in Items : Worth(MailBack(box, a), Holding(i)) = Worth(box, Holding(i))
<1>1. a.bid \in Nat /\ (a.bidder = NoPlayer => a.bid = 0) /\ a.bidder \in Players \cup {NoPlayer}
  BY DEF Entries
<1>2. ASSUME a.bidder # NoPlayer
      PROVE  /\ IsBox(MailBack(box, a))
             /\ Worth(MailBack(box, a), Money) = Worth(box, Money) + a.bid
             /\ \A i \in Items : Worth(MailBack(box, a), Holding(i)) = Worth(box, Holding(i))
  <2>1. /\ IsBox(MailBack(box, a))
        /\ Worth(MailBack(box, a), Money) = Worth(box, Money) + a.bid
        /\ \A i \in Items : Worth(MailBack(box, a), Holding(i))
                              = Worth(box, Holding(i)) + Unit(i, Nothing)
    <3>1. PICK to \in Players, none \in Items \cup {Nothing}, money \in Nat :
            to = a.bidder /\ none = Nothing /\ money = a.bid
      BY <1>1, <1>2
    <3>2. to \in Players /\ none \in Items \cup {Nothing} /\ money \in Nat
      BY <3>1
    <3>3. MailBack(box, a) = SendMailTo(box, AuctionLetter(to, none, money))
      BY <3>1 DEF MailBack
    <3>4. IsBox(SendMailTo(box, AuctionLetter(to, none, money)))
      BY <3>2, Posted
    <3>5. Worth(SendMailTo(box, AuctionLetter(to, none, money)), Money) = Worth(box, Money) + money
      BY <3>2, Posted
    <3>6. \A i \in Items : Worth(SendMailTo(box, AuctionLetter(to, none, money)), Holding(i))
                            = Worth(box, Holding(i)) + Unit(i, none)
      BY <3>2, Posted
    <3> QED BY <3>1, <3>3, <3>4, <3>5, <3>6
  <2>2. \A i \in Items : Unit(i, Nothing) = 0 /\ Worth(box, Holding(i)) \in Nat
    BY MailAssumption, WorthNat, Measures DEF Unit
  <2>3. \A i \in Items : Worth(MailBack(box, a), Holding(i)) = Worth(box, Holding(i))
    BY <2>1, <2>2
  <2> QED BY <2>1, <2>3
<1> QED BY <1>1, <1>2

LEMMA PlaceBidStep ==
  ASSUME IInv, NEW p \in Players, NEW id \in DOMAIN auctions, NEW price \in Prices,
         PlaceBid(p, id, price)
  PROVE  IInv'
<1>1. /\ Types /\ IsBox(mail) /\ IsHouse(auctions) /\ House /\ gold \in [Players -> Nat]
      /\ kept \in Int /\ auctions[id] \in Entries
  BY HouseIsHouse DEF IInv, Types, Purses, House
<1>2. PICK a \in Entries : a = auctions[id]
  BY <1>1
<1> DEFINE paid == IF a.bidder = p THEN price - a.bid ELSE price
           x == gold[p] - paid
<1>3. /\ price \in Nat /\ price > a.bid /\ gold[p] >= price /\ gold[p] \in Nat
  BY <1>1, <1>2, AuctionAssumption DEF PlaceBid, Acceptable
<1>4. PICK b \in Entries : b = [a EXCEPT !.bidder = p, !.bid = price]
  <2>1. a.owner # p
    BY <1>2 DEF PlaceBid, Acceptable
  <2> QED BY <1>3, <2>1, MailAssumption DEF Entries
<1>5. b.item = a.item /\ b.bid = price
  BY <1>4 DEF Entries
<1>6. auctions' = [auctions EXCEPT ![id] = b]
  BY <1>1, <1>2, <1>4 DEF PlaceBid, IsHouse
<1>7. /\ gold' = [gold EXCEPT ![p] = x] /\ SaveGoldToDB(p)
      /\ mail' = IF a.bidder \in {NoPlayer, p} THEN mail ELSE MailBack(mail, a)
      /\ UNCHANGED <<online, bags, gone, kept, nextId, pending>>
  BY <1>2 DEF PlaceBid, Charge
<1>8. a.bid \in Nat /\ paid \in Nat /\ x \in Nat
  <2>1. a.bid \in Nat
    BY DEF Entries
  <2> QED BY <1>3, <2>1
<1>9. /\ IsHouse(auctions') /\ DOMAIN auctions' = DOMAIN auctions
      /\ BidsIn(auctions') = BidsIn(auctions) - a.bid + price
      /\ \A i : OffersOf(i, auctions') = OffersOf(i, auctions)
  <2>1. IsHouse(auctions) /\ b.item = auctions[id].item
    BY <1>1, <1>2, <1>5
  <2>2. /\ IsHouse(auctions') /\ DOMAIN auctions' = DOMAIN auctions
        /\ BidsIn(auctions') = BidsIn(auctions) - auctions[id].bid + b.bid
        /\ \A i : OffersOf(i, auctions') = OffersOf(i, auctions)
    <3>1. auctions' = Changed(auctions, id, b)
      BY <1>6 DEF Changed
    <3> QED BY <2>1, <3>1, ChangeAuction
  <2> QED BY <1>2, <1>5, <2>2
<1> HIDE DEF paid, x
<1>10. /\ gold' \in [Players -> Nat] /\ saved' \in [Players -> Nat]
       /\ unsaved' \in [Players -> Nat] /\ CrashGivesBackDeposits'
       /\ Carried(gold) \in Int
       /\ Carried(gold') = Carried(gold) - gold[p] + x
  BY <1>7, <1>8, Paying DEF IInv, Types
<1>11. /\ IsBox(mail')
       /\ Worth(mail', Money) = Worth(mail, Money) + (IF a.bidder \in {NoPlayer, p} THEN 0 ELSE a.bid)
       /\ \A i \in Items : Worth(mail', Holding(i)) = Worth(mail, Holding(i))
       /\ (a.bidder = NoPlayer => a.bid = 0)
  <2>1. Worth(mail, Money) \in Nat
    BY <1>1, WorthNat, Measures
  <2>2. CASE a.bidder \in {NoPlayer, p}
    <3>1. mail' = mail
      BY <1>7, <2>2
    <3> QED BY <1>1, <2>1, <2>2, <3>1, BidReturned
  <2>3. CASE a.bidder \notin {NoPlayer, p}
    <3>1. mail' = MailBack(mail, a)
      BY <1>7, <2>3
    <3> QED BY <1>1, <2>3, <3>1, BidReturned
  <2> QED BY <2>2, <2>3
<1>12. Types' /\ NotReferencedAnyMore'
  <2>1. House'
    BY <1>1, <1>7, <1>9 DEF House, IsHouse
  <2>2. Waiting' /\ Goods' /\ NotReferencedAnyMore'
    BY <1>1, <1>7, <1>9 DEF Waiting, Goods, NotReferencedAnyMore, Types, IInv
  <2>3. Purses'
    BY <1>1, <1>7, <1>10 DEF Purses
  <2>4. online' \subseteq Players
    BY <1>1, <1>7 DEF Types
  <2> QED BY <1>11, <2>1, <2>2, <2>3, <2>4 DEF Types
<1>13. \A i \in Items : Cardinality(OffersOf(i, auctions')) + Worth(mail', Holding(i))
                          = Cardinality(OffersOf(i, auctions)) + Worth(mail, Holding(i))
  BY <1>9, <1>11
<1>14. Carried(gold') + Worth(mail', Money) + BidsIn(auctions') + kept'
         = Carried(gold) + Worth(mail, Money) + BidsIn(auctions) + kept
  <2>1. Worth(mail, Money) \in Nat /\ BidsIn(auctions) \in Nat
    BY <1>1, WorthNat, Measures, BidsCounted
  <2>2. /\ x = gold[p] - paid /\ paid = IF a.bidder = p THEN price - a.bid ELSE price
    BY DEF x, paid
  <2>3. kept' = kept
    BY <1>7
  <2>4. CASE a.bidder = NoPlayer
    <3>1. a.bidder # p /\ a.bid = 0 /\ Worth(mail', Money) = Worth(mail, Money) + 0
      BY <1>11, <2>4, MailAssumption
    <3> QED BY <1>1, <1>3, <1>8, <1>9, <1>10, <2>1, <2>2, <2>3, <3>1
  <2>5. CASE a.bidder = p
    <3>1. Worth(mail', Money) = Worth(mail, Money) + 0 /\ paid = price - a.bid
      BY <1>11, <2>2, <2>5
    <3> QED BY <1>1, <1>3, <1>8, <1>9, <1>10, <2>1, <2>2, <2>3, <3>1
  <2>6. CASE a.bidder \notin {NoPlayer, p}
    <3>1. Worth(mail', Money) = Worth(mail, Money) + a.bid /\ paid = price
      BY <1>11, <2>2, <2>6
    <3> QED BY <1>1, <1>3, <1>8, <1>9, <1>10, <2>1, <2>2, <2>3, <3>1
  <2> QED BY <2>4, <2>5, <2>6
<1>15. bags' = bags /\ gone' = gone
  BY <1>7
<1> QED BY <1>10, <1>12, <1>13, <1>14, <1>15, AtTheHouse

\* What the seller and the buyer are sent.
LEMMA SoldLetters ==
  ASSUME NEW box, IsBox(box), NEW a \in Entries, a.bidder # NoPlayer
  PROVE  LET new == MailSold(box, a)
         IN  /\ IsBox(new)
             /\ Worth(new, Money) = Worth(box, Money) + Profit(a)
             /\ \A i \in Items : Worth(new, Holding(i)) = Worth(box, Holding(i)) + Unit(i, a.item)
<1>1. /\ a.bid \in Nat /\ a.deposit \in Nat /\ a.owner \in Players /\ a.bidder \in Players
      /\ a.item \in Items
  BY DEF Entries
<1>2. PICK profit \in Nat : profit = Profit(a)
  <2>1. GetAuctionCut(a) \in Nat /\ GetAuctionCut(a) <= a.bid
    BY <1>1, CutInBid
  <2> QED BY <1>1, <2>1 DEF Profit
<1> DEFINE half == SendMailTo(box, AuctionLetter(a.owner, Nothing, profit))
           new == SendMailTo(half, AuctionLetter(a.bidder, a.item, 0))
<1>3. MailSold(box, a) = new
  BY <1>2 DEF MailSold
<1>4. /\ IsBox(half) /\ Worth(half, Money) = Worth(box, Money) + profit
      /\ \A i \in Items : Worth(half, Holding(i)) = Worth(box, Holding(i)) + Unit(i, Nothing)
  <2>1. Nothing \in Items \cup {Nothing} /\ a.owner \in Players
    BY <1>1
  <2> QED BY <2>1, Posted, Zenon
<1> HIDE DEF half
<1>5. /\ IsBox(new) /\ Worth(new, Money) = Worth(half, Money) + 0
      /\ \A i \in Items : Worth(new, Holding(i)) = Worth(half, Holding(i)) + Unit(i, a.item)
  BY <1>1, <1>4, Posted
<1> HIDE DEF new
<1>6. Worth(box, Money) \in Nat /\ \A i \in Items : Worth(box, Holding(i)) \in Nat /\ Unit(i, Nothing) = 0
  BY WorthNat, Measures, MailAssumption DEF Unit
<1>7. Worth(new, Money) = Worth(box, Money) + profit
  BY <1>4, <1>5, <1>6
<1>8. \A i \in Items : Worth(new, Holding(i)) = Worth(box, Holding(i)) + Unit(i, a.item)
  BY <1>4, <1>5, <1>6 DEF Unit
<1> QED BY <1>2, <1>3, <1>5, <1>7, <1>8

LEMMA UnsoldLetter ==
  ASSUME NEW box, IsBox(box), NEW a \in Entries
  PROVE  LET new == MailUnsold(box, a)
         IN  /\ IsBox(new)
             /\ Worth(new, Money) = Worth(box, Money)
             /\ \A i \in Items : Worth(new, Holding(i)) = Worth(box, Holding(i)) + Unit(i, a.item)
<1> DEFINE new == SendMailTo(box, AuctionLetter(a.owner, a.item, 0))
<1>1. a.owner \in Players /\ a.item \in Items
  BY DEF Entries
<1>2. MailUnsold(box, a) = new
  BY DEF MailUnsold
<1>3. /\ IsBox(new) /\ Worth(new, Money) = Worth(box, Money) + 0
      /\ \A i \in Items : Worth(new, Holding(i)) = Worth(box, Holding(i)) + Unit(i, a.item)
  BY <1>1, Posted
<1> HIDE DEF new
<1>4. Worth(box, Money) \in Nat
  BY WorthNat, Measures
<1> QED BY <1>2, <1>3, <1>4

LEMMA BuyoutStep ==
  ASSUME IInv, Patient, NEW p \in Players, NEW id \in DOMAIN auctions, NEW price \in Prices,
         Buyout(p, id, price)
  PROVE  IInv'
<1>1. /\ Types /\ IsBox(mail) /\ gold \in [Players -> Nat] /\ kept \in Int
      /\ auctions[id] \in Entries
  BY DEF IInv, Types, Purses, House
<1>2. PICK a \in Entries : a = auctions[id]
  BY <1>1
<1> DEFINE paid == IF a.bidder = p THEN a.buyout - a.bid ELSE a.buyout
           x == gold[p] - paid
           back == IF a.bidder \in {NoPlayer, p} THEN mail ELSE MailBack(mail, a)
<1>3. PICK sold \in Entries : sold = [a EXCEPT !.bidder = p, !.bid = a.buyout]
  <2>1. a.owner # p
    BY <1>2 DEF Buyout, Acceptable
  <2> QED BY <2>1, MailAssumption DEF Entries
<1>4. /\ sold.item = a.item /\ sold.bid = a.buyout /\ sold.bidder = p /\ sold.bidder # NoPlayer
      /\ sold.deposit = a.deposit /\ a.deposit \in Nat /\ a.buyout \in Nat /\ a.bid \in Nat
  BY <1>3, MailAssumption DEF Entries
<1>5. price \in Nat /\ price >= a.buyout /\ gold[p] >= price /\ gold[p] \in Nat
  BY <1>1, <1>2, AuctionAssumption DEF Buyout, Bought, Acceptable
<1>6. /\ gold' = [gold EXCEPT ![p] = x] /\ SaveGoldToDB(p) /\ mail' = MailSold(back, sold)
      /\ kept' = kept + GetAuctionCut(sold) - sold.deposit
      /\ RemoveAuction(id) /\ MayEnd(id)
      /\ UNCHANGED <<online, bags, gone, nextId, pending>>
  BY <1>2, <1>3 DEF Buyout
<1>7. x \in Nat /\ paid \in Int
  BY <1>4, <1>5
<1> HIDE DEF paid, x
<1>8. /\ gold' \in [Players -> Nat] /\ saved' \in [Players -> Nat]
      /\ unsaved' \in [Players -> Nat] /\ CrashGivesBackDeposits'
      /\ Carried(gold) \in Int
      /\ Carried(gold') = Carried(gold) - gold[p] + x
  BY <1>6, <1>7, Paying DEF IInv, Types
<1>9. /\ House' /\ Waiting' /\ NotReferencedAnyMore'
      /\ BidsIn(auctions) \in Nat /\ BidsIn(auctions') = BidsIn(auctions) - a.bid
      /\ \A i \in Items : Cardinality(OffersOf(i, auctions)) \in Nat
      /\ \A i \in Items : Cardinality(OffersOf(i, auctions'))
                            = Cardinality(OffersOf(i, auctions)) - Unit(i, a.item)
  BY <1>2, <1>6, Ended
<1>10. /\ IsBox(back) /\ \A i \in Items : Worth(back, Holding(i)) = Worth(mail, Holding(i))
       /\ Worth(back, Money) = Worth(mail, Money) + (IF a.bidder \in {NoPlayer, p} THEN 0 ELSE a.bid)
       /\ (a.bidder = NoPlayer => a.bid = 0)
  <2>1. Worth(mail, Money) \in Nat
    BY <1>1, WorthNat, Measures
  <2>2. CASE a.bidder \in {NoPlayer, p}
    BY <1>1, <2>1, <2>2, BidReturned
  <2>3. CASE a.bidder \notin {NoPlayer, p}
    BY <1>1, <2>3, BidReturned
  <2> QED BY <2>2, <2>3
<1> HIDE DEF back
<1>11. /\ IsBox(mail') /\ Worth(mail', Money) = Worth(back, Money) + Profit(sold)
       /\ \A i \in Items : Worth(mail', Holding(i)) = Worth(back, Holding(i)) + Unit(i, a.item)
  BY <1>4, <1>6, <1>10, SoldLetters
<1>12. GetAuctionCut(sold) \in Nat /\ Profit(sold) = a.buyout + a.deposit - GetAuctionCut(sold)
  BY <1>4, CutInBid DEF Profit
<1>13. Types'
  <2>1. kept' \in Int
    BY <1>1, <1>4, <1>6, <1>12
  <2>2. Purses' /\ Goods' /\ online' \subseteq Players
    BY <1>1, <1>6, <1>8, <2>1 DEF Purses, Goods, Types
  <2> QED BY <1>9, <1>11, <2>2 DEF Types
<1>14. ASSUME NEW i \in Items
       PROVE  Cardinality(OffersOf(i, auctions')) + Worth(mail', Holding(i))
                = Cardinality(OffersOf(i, auctions)) + Worth(mail, Holding(i))
  <2>1. Worth(mail, Holding(i)) \in Nat /\ Unit(i, a.item) \in Nat
    BY <1>1, WorthNat, Measures DEF Unit
  <2>2. /\ Worth(mail', Holding(i)) = Worth(mail, Holding(i)) + Unit(i, a.item)
        /\ Cardinality(OffersOf(i, auctions')) = Cardinality(OffersOf(i, auctions)) - Unit(i, a.item)
        /\ Cardinality(OffersOf(i, auctions)) \in Nat
    BY <1>9, <1>10, <1>11
  <2> QED BY <2>1, <2>2
<1>15. Carried(gold') + Worth(mail', Money) + BidsIn(auctions') + kept'
         = Carried(gold) + Worth(mail, Money) + BidsIn(auctions) + kept
  <2>1. Worth(mail, Money) \in Nat /\ BidsIn(auctions) \in Nat
    BY <1>1, <1>9, WorthNat, Measures
  <2>2. /\ x = gold[p] - paid /\ paid = IF a.bidder = p THEN a.buyout - a.bid ELSE a.buyout
    BY DEF x, paid
  <2>3. kept' = kept + GetAuctionCut(sold) - a.deposit
    BY <1>4, <1>6
  <2>4. paid + (IF a.bidder \in {NoPlayer, p} THEN 0 ELSE 0 - a.bid) = a.buyout - a.bid
    BY <1>4, <1>10, <2>2, MailAssumption
  <2>5. PICK cut \in Nat : cut = GetAuctionCut(sold)
    BY <1>12
  <2>6. Worth(mail', Money) = Worth(mail, Money) + (IF a.bidder \in {NoPlayer, p} THEN 0 ELSE a.bid)
                                + (a.buyout + a.deposit - cut)
    BY <1>10, <1>11, <1>12, <2>5
  <2> QED BY <1>1, <1>4, <1>5, <1>7, <1>8, <1>9, <2>1, <2>2, <2>3, <2>4, <2>5, <2>6
<1>16. bags' = bags /\ gone' = gone
  BY <1>6
<1> QED BY <1>8, <1>9, <1>13, <1>14, <1>15, <1>16, AtTheHouse

LEMMA CancelStep ==
  ASSUME IInv, Patient, NEW p \in Players, NEW id \in DOMAIN auctions, CancelAuction(p, id)
  PROVE  IInv'
<1>1. /\ Types /\ IsBox(mail) /\ gold \in [Players -> Nat] /\ kept \in Int
      /\ auctions[id] \in Entries
  BY DEF IInv, Types, Purses, House
<1>2. PICK a \in Entries : a = auctions[id]
  BY <1>1
<1> DEFINE cut == IF a.bidder = NoPlayer THEN 0 ELSE GetAuctionCut(a)
           x == gold[p] - cut
           back == IF a.bidder = NoPlayer THEN mail ELSE MailBack(mail, a)
<1>3. /\ gold' = [gold EXCEPT ![p] = x] /\ SaveGoldToDB(p) /\ mail' = MailUnsold(back, a)
      /\ kept' = kept + cut /\ gold[p] >= cut
      /\ RemoveAuction(id) /\ MayEnd(id)
      /\ UNCHANGED <<online, bags, gone, nextId, pending>>
  BY <1>2 DEF CancelAuction
<1>4. a.bid \in Nat /\ cut \in Nat /\ gold[p] \in Nat
  BY <1>1, CutInBid DEF Entries
<1>5. x \in Nat
  <2> HIDE DEF cut
  <2> QED BY <1>3, <1>4
<1>6. x = gold[p] - cut
  OBVIOUS
<1> HIDE DEF cut, x
<1>7. /\ gold' \in [Players -> Nat] /\ saved' \in [Players -> Nat]
      /\ unsaved' \in [Players -> Nat] /\ CrashGivesBackDeposits'
      /\ Carried(gold) \in Int
      /\ Carried(gold') = Carried(gold) - gold[p] + x
  BY <1>3, <1>5, Paying DEF IInv, Types
<1>8. /\ House' /\ Waiting' /\ NotReferencedAnyMore'
      /\ BidsIn(auctions) \in Nat /\ BidsIn(auctions') = BidsIn(auctions) - a.bid
      /\ \A i \in Items : Cardinality(OffersOf(i, auctions)) \in Nat
      /\ \A i \in Items : Cardinality(OffersOf(i, auctions'))
                            = Cardinality(OffersOf(i, auctions)) - Unit(i, a.item)
  BY <1>2, <1>3, Ended
<1>9. /\ IsBox(back) /\ \A i \in Items : Worth(back, Holding(i)) = Worth(mail, Holding(i))
      /\ Worth(back, Money) = Worth(mail, Money) + a.bid
  <2>1. Worth(mail, Money) \in Nat
    BY <1>1, WorthNat, Measures
  <2>2. CASE a.bidder = NoPlayer
    BY <1>1, <2>1, <2>2, BidReturned
  <2>3. CASE a.bidder # NoPlayer
    BY <1>1, <2>3, BidReturned
  <2> QED BY <2>2, <2>3
<1> HIDE DEF back
<1>10. /\ IsBox(mail') /\ Worth(mail', Money) = Worth(back, Money)
       /\ \A i \in Items : Worth(mail', Holding(i)) = Worth(back, Holding(i)) + Unit(i, a.item)
  BY <1>3, <1>9, UnsoldLetter
<1>11. Types'
  <2>1. kept' \in Int
    BY <1>1, <1>3, <1>4
  <2>2. Purses' /\ Goods' /\ online' \subseteq Players
    BY <1>1, <1>3, <1>7, <2>1 DEF Purses, Goods, Types
  <2> QED BY <1>8, <1>10, <2>2 DEF Types
<1>12. ASSUME NEW i \in Items
       PROVE  Cardinality(OffersOf(i, auctions')) + Worth(mail', Holding(i))
                = Cardinality(OffersOf(i, auctions)) + Worth(mail, Holding(i))
  <2>1. Worth(mail, Holding(i)) \in Nat /\ Unit(i, a.item) \in Nat
    BY <1>1, WorthNat, Measures DEF Unit
  <2>2. /\ Worth(mail', Holding(i)) = Worth(mail, Holding(i)) + Unit(i, a.item)
        /\ Cardinality(OffersOf(i, auctions')) = Cardinality(OffersOf(i, auctions)) - Unit(i, a.item)
        /\ Cardinality(OffersOf(i, auctions)) \in Nat
    BY <1>8, <1>9, <1>10
  <2> QED BY <2>1, <2>2
<1>13. Carried(gold') + Worth(mail', Money) + BidsIn(auctions') + kept'
         = Carried(gold) + Worth(mail, Money) + BidsIn(auctions) + kept
  <2>1. Worth(mail, Money) \in Nat /\ BidsIn(auctions) \in Nat
    BY <1>1, <1>8, WorthNat, Measures
  <2>2. Worth(mail', Money) = Worth(mail, Money) + a.bid
    BY <1>9, <1>10
  <2> QED BY <1>1, <1>3, <1>4, <1>6, <1>7, <1>8, <2>1, <2>2
<1>14. bags' = bags /\ gone' = gone
  BY <1>3
<1> QED BY <1>7, <1>8, <1>11, <1>12, <1>13, <1>14, AtTheHouse

LEMMA ExpireAuctionStep ==
  ASSUME IInv, Patient, NEW id \in DOMAIN auctions, ExpireAuction(id)
  PROVE  IInv'
<1>1. /\ Types /\ IsBox(mail) /\ gold \in [Players -> Nat] /\ gold \in [Players -> Int] /\ kept \in Int
      /\ auctions[id] \in Entries
  BY DEF IInv, Types, Purses, House
<1>2. PICK a \in Entries : a = auctions[id]
  BY <1>1
<1>3. /\ ~Pending(id) /\ RemoveAuction(id)
      /\ UNCHANGED <<online, gold, bags, saved, gone, unsaved, nextId, pending>>
  BY DEF ExpireAuction
<1>4. /\ House' /\ Waiting' /\ NotReferencedAnyMore'
      /\ BidsIn(auctions) \in Nat /\ BidsIn(auctions') = BidsIn(auctions) - a.bid
      /\ \A i \in Items : Cardinality(OffersOf(i, auctions)) \in Nat
      /\ \A i \in Items : Cardinality(OffersOf(i, auctions'))
                            = Cardinality(OffersOf(i, auctions)) - Unit(i, a.item)
  BY <1>2, <1>3, Ended
<1>5. a.bid \in Nat /\ a.deposit \in Nat /\ (a.bidder = NoPlayer => a.bid = 0)
  BY DEF Entries
<1>6. Worth(mail, Money) \in Nat
  BY <1>1, WorthNat, Measures
<1>7. /\ IsBox(mail') /\ kept' \in Int
      /\ Worth(mail', Money) + kept' = Worth(mail, Money) + kept + a.bid
      /\ \A i \in Items : Worth(mail', Holding(i)) = Worth(mail, Holding(i)) + Unit(i, a.item)
  <2>1. CASE a.bidder = NoPlayer
    <3>1. mail' = MailUnsold(mail, a) /\ kept' = kept
      BY <1>2, <2>1 DEF ExpireAuction
    <3>2. /\ IsBox(mail') /\ Worth(mail', Money) = Worth(mail, Money)
          /\ \A i \in Items : Worth(mail', Holding(i)) = Worth(mail, Holding(i)) + Unit(i, a.item)
      BY <1>1, <3>1, UnsoldLetter
    <3> QED BY <1>1, <1>5, <1>6, <2>1, <3>1, <3>2
  <2>2. CASE a.bidder # NoPlayer
    <3>1. mail' = MailSold(mail, a) /\ kept' = kept + GetAuctionCut(a) - a.deposit
      BY <1>2, <2>2 DEF ExpireAuction
    <3>2. /\ IsBox(mail') /\ Worth(mail', Money) = Worth(mail, Money) + Profit(a)
          /\ \A i \in Items : Worth(mail', Holding(i)) = Worth(mail, Holding(i)) + Unit(i, a.item)
      BY <1>1, <2>2, <3>1, SoldLetters
    <3>3. PICK cut \in Nat : cut = GetAuctionCut(a)
      BY <1>5, CutInBid
    <3>4. Profit(a) = a.bid + a.deposit - cut
      BY <3>3 DEF Profit
    <3> QED BY <1>1, <1>5, <1>6, <3>1, <3>2, <3>3, <3>4
  <2> QED BY <2>1, <2>2
<1>8. Types' /\ CrashGivesBackDeposits'
  <2>1. Purses' /\ Goods' /\ online' \subseteq Players
    BY <1>1, <1>3, <1>7 DEF Purses, Goods, Types
  <2>2. CrashGivesBackDeposits'
    BY <1>3 DEF CrashGivesBackDeposits, IInv
  <2> QED BY <1>4, <1>7, <2>1, <2>2 DEF Types
<1>9. ASSUME NEW i \in Items
      PROVE  Cardinality(OffersOf(i, auctions')) + Worth(mail', Holding(i))
               = Cardinality(OffersOf(i, auctions)) + Worth(mail, Holding(i))
  <2>1. Worth(mail, Holding(i)) \in Nat /\ Unit(i, a.item) \in Nat
    BY <1>1, WorthNat, Measures DEF Unit
  <2>2. /\ Worth(mail', Holding(i)) = Worth(mail, Holding(i)) + Unit(i, a.item)
        /\ Cardinality(OffersOf(i, auctions')) = Cardinality(OffersOf(i, auctions)) - Unit(i, a.item)
        /\ Cardinality(OffersOf(i, auctions)) \in Nat
    BY <1>4, <1>7
  <2> QED BY <2>1, <2>2
<1>10. Carried(gold') + Worth(mail', Money) + BidsIn(auctions') + kept'
         = Carried(gold) + Worth(mail, Money) + BidsIn(auctions) + kept
  <2>1. Carried(gold) \in Int /\ gold' = gold
    BY <1>1, <1>3, CarriedInt
  <2>2. Worth(mail', Money) \in Nat
    BY <1>7, WorthNat, Measures
  <2> QED BY <1>1, <1>4, <1>5, <1>6, <1>7, <2>1, <2>2
<1>11. bags' = bags /\ gone' = gone
  BY <1>3
<1> QED BY <1>4, <1>8, <1>9, <1>10, <1>11, AtTheHouse

\* A batch is charged the deposits of its auctions, and each auction gets its own.
LEMMA Batch ==
  ASSUME Types, NotReferencedAnyMore, NEW p \in Players, pending[p] # <<>>
  PROVE  /\ Payment(p) \in Nat /\ Payment(p) <= gold[p]
         /\ \A k : Share(pending[p], k) \in Nat
<1>1. PICK s \in Seq(Nat) : s = pending[p]
  BY DEF Types, Waiting
<1>2. PICK n \in Nat \ {0} : n = Len(s)
  BY <1>1
<1>3. s[1] \in DOMAIN auctions
  <2>1. 1 \in DOMAIN s
    BY <1>2
  <2>2. s[1] \in Range(s)
    BY <2>1 DEF Range
  <2> QED BY <1>1, <2>2 DEF NotReferencedAnyMore
<1>4. PICK d \in Nat : d = Deposit[auctions[s[1]].item]
  <2>1. auctions[s[1]] \in Entries
    BY <1>3 DEF Types, House
  <2>2. auctions[s[1]].item \in Items
    BY <2>1 DEF Entries
  <2> QED BY <2>2, AuctionAssumption
<1>5. PICK total \in Nat : total = d * n
  OBVIOUS
<1>6. Total(s) = total
  BY <1>2, <1>4, <1>5 DEF Total, GetAuctionDeposit
<1>7. Payment(p) \in Nat /\ Payment(p) <= gold[p]
  <2>1. gold[p] \in Nat
    BY DEF Types, Purses
  <2> QED BY <1>1, <1>6, <2>1 DEF Payment
<1>8. \A k : Share(s, k) = d
  <2>1. (d * n) \div n = d /\ d * n - (n - 1) * d = d
    BY SharedEvenly
  <2>2. total \div n = d /\ total - (n - 1) * d = d
    BY <1>5, <2>1
  <2>3. ASSUME NEW k PROVE Share(s, k) = d
    <3>1. Share(s, k) = IF k = n THEN total - (n - 1) * (total \div n) ELSE total \div n
      BY <1>2, <1>6 DEF Share
    <3> QED BY <2>2, <3>1
  <2> QED BY <2>3
<1> QED BY <1>1, <1>7, <1>8

LEMMA PaidTogether ==
  ASSUME NEW purse, purse \in [Players -> Int], NEW new, new \in [Players -> Int],
         NEW paid, paid \in [Players -> Int], \A p \in Players : new[p] = purse[p] - paid[p]
  PROVE  Carried(new) = Carried(purse) - Carried(paid)
<1>1. \A p \in Players : new[p] \in Int /\ paid[p] \in Int /\ purse[p] = new[p] + paid[p]
  OBVIOUS
<1>2. IsFiniteSet(Players)
  BY MailAssumption
<1>3. /\ Carried(purse) = SumFunctionOnSet(purse, Players)
      /\ Carried(new) = SumFunctionOnSet(new, Players)
      /\ Carried(paid) = SumFunctionOnSet(paid, Players)
  BY DEF Carried, SumFunction
<1>4. SumFunctionOnSet(purse, Players)
        = SumFunctionOnSet(new, Players) + SumFunctionOnSet(paid, Players)
  BY <1>1, <1>2, SumOfSums
<1>5. Carried(new) \in Int /\ Carried(paid) \in Int
  BY CarriedInt
<1> QED BY <1>3, <1>4, <1>5

LEMMA SameOffers ==
  ASSUME NEW house, IsHouse(house), NEW new, new \in [DOMAIN house -> Entries],
         \A k \in DOMAIN house : new[k].item = house[k].item /\ new[k].bid = house[k].bid
  PROVE  /\ IsHouse(new) /\ BidsIn(new) = BidsIn(house)
         /\ \A i : OffersOf(i, new) = OffersOf(i, house)
<1>1. DOMAIN new = DOMAIN house
  OBVIOUS
<1>2. IsHouse(new) /\ \A i : OffersOf(i, new) = OffersOf(i, house)
  BY <1>1 DEF IsHouse, OffersOf
<1>3. [k \in DOMAIN new |-> new[k].bid] = [k \in DOMAIN house |-> house[k].bid]
  BY <1>1
<1> QED BY <1>2, <1>3 DEF BidsIn

LEMMA UpdatePendingStep ==
  ASSUME IInv, UpdatePendingAuctions
  PROVE  IInv'
<1>1. /\ Types /\ IsBox(mail) /\ IsHouse(auctions) /\ gold \in [Players -> Nat]
      /\ unsaved \in [Players -> Nat] /\ kept \in Int /\ NotReferencedAnyMore
  BY HouseIsHouse DEF IInv, Types, Purses
<1> DEFINE waiting == {p \in Players : pending[p] # <<>>}
           charged == {p \in waiting \cap online : Len(pending[p]) = counted[p]}
           over == charged \cup (waiting \ online)
           Place(p, id) == CHOOSE k \in DOMAIN pending[p] : pending[p][k] = id
           paid == [p \in Players |-> IF p \in charged THEN Payment(p) ELSE 0]
<1>2. /\ pending' = [p \in Players |-> IF p \in over THEN <<>> ELSE pending[p]]
      /\ gold' = [p \in Players |-> gold[p] - paid[p]]
      /\ kept' = kept + SumFunction(paid)
      /\ unsaved' = [p \in Players |-> unsaved[p] + paid[p]]
      /\ auctions' = [id \in DOMAIN auctions |->
           LET p == auctions[id].owner IN
           IF p \in charged /\ id \in Range(pending[p])
             THEN [auctions[id] EXCEPT !.deposit = Share(pending[p], Place(p, id))]
             ELSE auctions[id]]
      /\ UNCHANGED <<online, bags, saved, mail, gone, nextId>>
  BY DEF UpdatePendingAuctions
<1>3. \A p \in charged : p \in Players /\ pending[p] # <<>>
  OBVIOUS
<1>4. paid \in [Players -> Nat] /\ \A p \in Players : paid[p] <= gold[p]
  <2>1. \A p \in Players : paid[p] \in Nat /\ paid[p] <= gold[p]
    BY <1>1, <1>3, Batch
  <2> QED BY <2>1
<1>5. /\ auctions' \in [DOMAIN auctions -> Entries]
      /\ \A id \in DOMAIN auctions : /\ auctions'[id].item = auctions[id].item
                                     /\ auctions'[id].bid = auctions[id].bid
  <2> HIDE DEF charged, Place
  <2>1. ASSUME NEW id \in DOMAIN auctions
        PROVE  /\ auctions'[id] \in Entries
               /\ auctions'[id].item = auctions[id].item /\ auctions'[id].bid = auctions[id].bid
    <3>1. PICK a \in Entries : a = auctions[id]
      BY <1>1 DEF IsHouse
    <3>2. CASE a.owner \in charged /\ id \in Range(pending[a.owner])
      <4>1. PICK share \in Nat : share = Share(pending[a.owner], Place(a.owner, id))
        BY <1>1, <1>3, <3>2, Batch
      <4>2. auctions'[id] = [a EXCEPT !.deposit = share]
        BY <1>2, <3>1, <3>2, <4>1
      <4> QED BY <3>1, <4>2 DEF Entries
    <3>3. CASE ~(a.owner \in charged /\ id \in Range(pending[a.owner]))
      BY <1>2, <3>1, <3>3
    <3> QED BY <3>2, <3>3
  <2> QED BY <1>2, <2>1
<1>6. /\ IsHouse(auctions') /\ BidsIn(auctions') = BidsIn(auctions)
      /\ \A i : OffersOf(i, auctions') = OffersOf(i, auctions)
  BY <1>1, <1>5, SameOffers
<1>7. DOMAIN auctions' = DOMAIN auctions
  BY <1>2
<1> HIDE DEF charged, waiting, Place, paid
<1>8. /\ gold' \in [Players -> Nat] /\ unsaved' \in [Players -> Nat]
      /\ \A p \in Players : gold'[p] = gold[p] - paid[p]
  BY <1>1, <1>2, <1>4
<1>9. /\ Carried(gold') = Carried(gold) - Carried(paid)
      /\ Carried(gold) \in Int /\ Carried(paid) \in Int
  <2>1. /\ gold \in [Players -> Int] /\ gold' \in [Players -> Int] /\ paid \in [Players -> Int]
    BY <1>1, <1>4, <1>8
  <2>2. Carried(gold') = Carried(gold) - Carried(paid)
    BY <1>8, <2>1, PaidTogether
  <2> QED BY <2>1, <2>2, CarriedInt
<1>10. kept' = kept + Carried(paid)
  BY <1>2 DEF Carried
<1>11. Waiting' /\ NotReferencedAnyMore'
  <2>1. pending \in [Players -> Seq(Nat)] /\ \A p \in Players : Range(pending[p]) \subseteq DOMAIN auctions
    BY <1>1 DEF Types, Waiting, NotReferencedAnyMore
  <2>2. <<>> \in Seq(Nat) /\ Range(<<>>) = {}
    BY DEF Range
  <2>3. \A p \in Players : pending'[p] = <<>> \/ pending'[p] = pending[p]
    BY <1>2
  <2>4. Waiting'
    <3>1. \A p \in Players : pending'[p] \in Seq(Nat)
      BY <2>1, <2>2, <2>3
    <3> QED BY <1>2, <3>1 DEF Waiting
  <2>5. NotReferencedAnyMore'
    BY <1>7, <2>1, <2>2, <2>3 DEF NotReferencedAnyMore
  <2> QED BY <2>4, <2>5
<1>12. Types'
  <2>1. Purses' /\ Goods' /\ online' \subseteq Players
    BY <1>1, <1>2, <1>8, <1>9, <1>10 DEF Purses, Goods, Types
  <2>2. House'
    BY <1>1, <1>2, <1>5, <1>7 DEF House, Types
  <2> QED BY <1>1, <1>2, <1>11, <2>1, <2>2 DEF Types
<1>13. CrashGivesBackDeposits'
  <2> SUFFICES ASSUME NEW p \in Players PROVE saved'[p] = gold'[p] + unsaved'[p]
    BY DEF CrashGivesBackDeposits
  <2>1. saved[p] = gold[p] + unsaved[p] /\ gold[p] \in Nat /\ unsaved[p] \in Nat /\ paid[p] \in Nat
    BY <1>1, <1>4 DEF IInv, CrashGivesBackDeposits
  <2>2. saved'[p] = saved[p] /\ gold'[p] = gold[p] - paid[p] /\ unsaved'[p] = unsaved[p] + paid[p]
    BY <1>2
  <2> QED BY <2>1, <2>2
<1>14. Carried(gold') + Worth(mail', Money) + BidsIn(auctions') + kept'
         = Carried(gold) + Worth(mail, Money) + BidsIn(auctions) + kept
  <2>1. Worth(mail, Money) \in Nat /\ BidsIn(auctions) \in Nat /\ mail' = mail
    BY <1>1, <1>2, WorthNat, Measures, BidsCounted
  <2> QED BY <1>1, <1>6, <1>9, <1>10, <2>1
<1>15. \A i \in Items : Cardinality(OffersOf(i, auctions')) + Worth(mail', Holding(i))
                          = Cardinality(OffersOf(i, auctions)) + Worth(mail, Holding(i))
  BY <1>2, <1>6
<1>16. bags' = bags /\ gone' = gone
  BY <1>2
<1> QED BY <1>11, <1>12, <1>13, <1>14, <1>15, <1>16, AtTheHouse

\* A crash takes back the gold that was not saved and the marks on the letters.
LEMMA RestartStep ==
  ASSUME IInv, Restart
  PROVE  IInv'
<1>1. /\ Types /\ IsBox(mail) /\ IsHouse(auctions) /\ gold \in [Players -> Nat]
      /\ saved \in [Players -> Nat] /\ unsaved \in [Players -> Nat] /\ kept \in Int
      /\ \A p \in Players : saved[p] = gold[p] + unsaved[p]
  BY HouseIsHouse DEF IInv, Types, Purses, CrashGivesBackDeposits
<1>2. /\ online' = {} /\ gold' = saved /\ kept' = kept - Carried(unsaved)
      /\ unsaved' = [p \in Players |-> 0] /\ UNCHANGED <<bags, saved, gone, auctions, nextId>>
      /\ pending' = [p \in Players |-> <<>>]
  BY DEF Restart, Crash, Carried
<1>3. mail' = Reloaded(mail)
  BY DEF Restart, Crash, Reloaded, Clear, Mark
<1>4. /\ IsBox(mail') /\ Worth(mail', Money) = Worth(mail, Money)
      /\ \A i \in Items : Worth(mail', Holding(i)) = Worth(mail, Holding(i))
  BY <1>1, <1>3, Reloading, Measures
<1>5. /\ Carried(gold) = Carried(gold') - Carried(unsaved)
      /\ Carried(gold') \in Int /\ Carried(unsaved) \in Int
  <2>1. /\ gold \in [Players -> Int] /\ saved \in [Players -> Int] /\ unsaved \in [Players -> Int]
        /\ \A p \in Players : gold[p] = saved[p] - unsaved[p]
    BY <1>1
  <2>2. Carried(gold) = Carried(saved) - Carried(unsaved)
    BY <2>1, PaidTogether
  <2> QED BY <1>2, <2>1, <2>2, CarriedInt
<1>6. Waiting' /\ NotReferencedAnyMore'
  <2>1. <<>> \in Seq(Nat) /\ Range(<<>>) = {}
    BY DEF Range
  <2> QED BY <1>2, <2>1 DEF Waiting, NotReferencedAnyMore
<1>7. Types'
  <2>1. Purses' /\ Goods' /\ online' \subseteq Players
    BY <1>1, <1>2, <1>5 DEF Purses, Goods, Types
  <2>2. House'
    BY <1>1, <1>2 DEF House, Types
  <2> QED BY <1>4, <1>6, <2>1, <2>2 DEF Types
<1>8. CrashGivesBackDeposits'
  BY <1>1, <1>2 DEF CrashGivesBackDeposits
<1>9. Carried(gold') + Worth(mail', Money) + BidsIn(auctions') + kept'
        = Carried(gold) + Worth(mail, Money) + BidsIn(auctions) + kept
  <2>1. Worth(mail, Money) \in Nat /\ BidsIn(auctions) \in Nat /\ auctions' = auctions
    BY <1>1, <1>2, WorthNat, Measures, BidsCounted
  <2> QED BY <1>1, <1>2, <1>4, <1>5, <2>1
<1>10. \A i \in Items : Cardinality(OffersOf(i, auctions')) + Worth(mail', Holding(i))
                          = Cardinality(OffersOf(i, auctions)) + Worth(mail, Holding(i))
  BY <1>2, <1>4
<1>11. bags' = bags /\ gone' = gone
  BY <1>2
<1> QED BY <1>6, <1>7, <1>8, <1>9, <1>10, <1>11, AtTheHouse

LEMMA NextStep ==
  ASSUME IInv, Patient, Next
  PROVE  IInv'
<1>1. ASSUME UNCHANGED auctionVars, MailNext PROVE IInv'
  BY <1>1, MailStep
<1>2. ASSUME NEW p \in Players, NEW id \in DOMAIN auctions, NEW price \in Prices,
             PlaceBid(p, id, price) \/ Buyout(p, id, price)
      PROVE  IInv'
  BY <1>2, PlaceBidStep, BuyoutStep
<1> QED BY <1>1, <1>2, SellItemStep, CancelStep, ExpireAuctionStep, UpdatePendingStep,
           RestartStep DEF Next

\* Nothing has been sent, offered or charged.
LEMMA Initially == Init => IInv
<1> SUFFICES ASSUME Init PROVE IInv
  OBVIOUS
<1>1. /\ online = Players /\ gold = StartGold /\ saved = StartGold /\ bags = StartBags
      /\ mail = <<>> /\ gone = {} /\ kept = 0 /\ unsaved = [p \in Players |-> 0]
      /\ auctions = <<>> /\ nextId = 1 /\ pending = [p \in Players |-> <<>>]
  BY DEF Init, MailInit
<1>2. /\ DOMAIN mail = {} /\ DOMAIN auctions = {} /\ IsFiniteSet({})
      /\ mail = [x \in DOMAIN mail |-> mail[x]] /\ auctions = [x \in DOMAIN auctions |-> auctions[x]]
  BY <1>1, FS_EmptySet
<1>3. IsBox(mail)
  BY <1>2 DEF IsBox
<1>4. House
  BY <1>1, <1>2 DEF House
<1>5. Waiting /\ NotReferencedAnyMore
  <2>1. <<>> \in Seq(Nat) /\ Range(<<>>) = {}
    BY DEF Range
  <2> QED BY <1>1, <2>1 DEF Waiting, NotReferencedAnyMore
<1>6. Types /\ CrashGivesBackDeposits
  <2>1. Purses /\ Goods /\ CrashGivesBackDeposits
    BY <1>1, MailAssumption DEF Purses, Goods, CrashGivesBackDeposits
  <2> QED BY <1>1, <1>3, <1>4, <1>5, <2>1 DEF Types
<1>7. \A m : Worth(mail, m) = 0
  BY <1>2, SumOfNone DEF Worth
<1>8. ASSUME NEW i \in Items PROVE Tally(i, bags, auctions, mail, gone) = 1
  <2>1. PICK p \in Players : i \in StartBags[p]
    BY MailAssumption
  <2>2. CarriersOf(i, bags) = {p}
    BY <1>1, <2>1, MailAssumption DEF CarriersOf
  <2>3. OffersOf(i, auctions) = {}
    BY <1>2 DEF OffersOf
  <2>4. Cardinality({p}) = 1 /\ Cardinality({}) = 0
    BY FS_Singleton, FS_EmptySet
  <2>5. In(i, gone) = 0
    BY <1>1 DEF In
  <2> QED BY <1>7, <2>2, <2>3, <2>4, <2>5 DEF Tally
<1>9. Funds(gold, mail, auctions, kept) = Carried(StartGold)
  <2>1. Carried(gold) \in Int
    BY <1>1, CarriedInt, MailAssumption
  <2>2. BidsIn(auctions) = 0
    <3>1. BidsIn(auctions) = SumFunctionOnSet([id \in DOMAIN auctions |-> auctions[id].bid], DOMAIN auctions)
      BY DEF BidsIn, SumFunction
    <3> QED BY <1>2, <3>1, SumOfNone
  <2> QED BY <1>1, <1>7, <2>1, <2>2 DEF Funds
<1> QED BY <1>3, <1>5, <1>6, <1>8, <1>9, ItemsTallied, MoneyTallied DEF IInv

(***************************************************************************)
(* The invariant holds as long as nobody buys or cancels an auction whose  *)
(* deposit is still pending: PendingAuctionProcess reads the entries of    *)
(* its list, and RemoveAuction deletes them.                               *)
(***************************************************************************)
THEOREM Invariance == Patient /\ Spec => []IInv
<1>1. ASSUME Patient PROVE IInv /\ [Next]_vars => IInv'
  <2> SUFFICES ASSUME IInv, [Next]_vars PROVE IInv'
    OBVIOUS
  <2>1. CASE Next
    BY <1>1, <2>1, NextStep
  <2>2. CASE UNCHANGED vars
    BY <2>2 DEF vars, mailVars, auctionVars, IInv, Types, Purses, Goods, House, Waiting, IsBox,
                CrashGivesBackDeposits, NotReferencedAnyMore, ItemInOnePlace, Places,
                MoneyBalances, InLetters, InBids
  <2> QED BY <2>1, <2>2
<1>2. Patient => [](Patient)
  OBVIOUS
<1> QED BY <1>1, <1>2, Initially, PTL DEF Spec

---------------------------------------------------------------------------
(***************************************************************************)
(* The bids of a player, and the money in the letters to him.              *)
(***************************************************************************)
MoneyFor(p) == [l \in Letters |-> IF l.to = p THEN l.money ELSE 0]
Stake(house, id, q) == IF id \in DOMAIN house /\ house[id].bidder = q THEN house[id].bid ELSE 0
Stakes(house, q) == SumFunctionOnSet([id \in DOMAIN house |-> Stake(house, id, q)], DOMAIN house)

LEMMA MoneyForCounted ==
  ASSUME NEW box, IsBox(box), NEW p \in Players
  PROVE  /\ IsMeasure(MoneyFor(p))
         /\ SumFunction([l \in {k \in DOMAIN box : k.to = p} |-> box[l] * l.money])
              = Worth(box, MoneyFor(p))
<1> DEFINE D == DOMAIN box
           H == {k \in D : k.to = p}
           f == Weigh(box, Money)
           g == Weigh(box, MoneyFor(p))
<1>1. IsMeasure(MoneyFor(p))
  BY DEF IsMeasure, MoneyFor, Letters
<1>2. /\ IsFiniteSet(D) /\ IsFiniteSet(H) /\ H \subseteq D /\ D \subseteq Letters
      /\ \A l \in D : box[l] \in Nat
  BY FS_Subset DEF IsBox
<1>3. /\ \A l \in D : f[l] = box[l] * Money[l]
      /\ \A l \in D : g[l] = box[l] * MoneyFor(p)[l] /\ g[l] \in Int
  BY <1>1, Weights, Measures
<1>4. /\ \A l \in H : g[l] = f[l]
      /\ \A l \in D \ H : g[l] = 0
  <2>1. /\ \A l \in H : MoneyFor(p)[l] = Money[l]
        /\ \A l \in D \ H : MoneyFor(p)[l] = 0
    BY <1>2 DEF MoneyFor, Money
  <2>2. \A l \in H : g[l] = f[l]
    BY <1>2, <1>3, <2>1
  <2>3. \A l \in D \ H : g[l] = 0
    BY <1>2, <1>3, <2>1
  <2> QED BY <2>2, <2>3
<1>5. /\ SumFunction([l \in H |-> box[l] * l.money]) = SumFunctionOnSet(f, H)
      /\ Worth(box, MoneyFor(p)) = SumFunctionOnSet(g, D)
  BY <1>2, MoneyCounted DEF Part, Worth
<1> HIDE DEF D, H, f, g
<1>6. SumFunctionOnSet(g, H) = SumFunctionOnSet(g, D)
  BY <1>2, <1>3, <1>4, SumWider
<1>7. SumFunctionOnSet(g, H) = SumFunctionOnSet(f, H)
  BY <1>2, <1>4, SumSame
<1> QED BY <1>1, <1>5, <1>6, <1>7 DEF H, D

LEMMA StakeNat ==
  ASSUME NEW house, IsHouse(house), NEW id, NEW q
  PROVE  Stake(house, id, q) \in Nat
BY DEF Stake, IsHouse, Entries

LEMMA StakesCounted ==
  ASSUME NEW house, IsHouse(house), NEW q
  PROVE  /\ Stakes(house, q) \in Nat
         /\ SumFunction([id \in {k \in DOMAIN house : house[k].bidder = q} |-> house[id].bid])
              = Stakes(house, q)
<1> DEFINE D == DOMAIN house
           H == {k \in D : house[k].bidder = q}
           f == [id \in H |-> house[id].bid]
           g == [id \in D |-> Stake(house, id, q)]
<1>1. IsFiniteSet(D) /\ IsFiniteSet(H) /\ H \subseteq D
  BY FS_Subset DEF IsHouse
<1>2. /\ \A id \in D : g[id] \in Nat /\ g[id] \in Int
      /\ \A id \in H : g[id] = f[id]
      /\ \A id \in D \ H : g[id] = 0
  BY StakeNat DEF Stake
<1>3. SumFunction(f) = SumFunctionOnSet(f, H) /\ Stakes(house, q) = SumFunctionOnSet(g, D)
  BY DEF SumFunction, Stakes
<1> HIDE DEF f, g, D, H
<1>4. SumFunctionOnSet(g, D) \in Nat
  BY <1>1, <1>2, SumNat
<1>5. SumFunctionOnSet(g, H) = SumFunctionOnSet(g, D)
  BY <1>1, <1>2, SumWider
<1>6. SumFunctionOnSet(g, H) = SumFunctionOnSet(f, H)
  BY <1>1, <1>2, SumSame
<1> QED BY <1>3, <1>4, <1>5, <1>6 DEF f, H, D

\* A step touches one auction.
LEMMA StakesChange ==
  ASSUME NEW house, IsHouse(house), NEW new, IsHouse(new), NEW id,
         DOMAIN house \ {id} = DOMAIN new \ {id},
         \A k \in DOMAIN house \ {id} : new[k] = house[k], NEW q
  PROVE  Stakes(new, q) = Stakes(house, q) + Stake(new, id, q) - Stake(house, id, q)
<1> DEFINE S == DOMAIN house
           T == DOMAIN new
           f == [k \in S |-> Stake(house, k, q)]
           g == [k \in T |-> Stake(new, k, q)]
<1>1. /\ \A k \in S : f[k] \in Int
      /\ \A k \in T : g[k] \in Int
  BY StakeNat
<1>2. \A k \in S \ {id} : g[k] = f[k]
  BY DEF Stake
<1>3. At(f, S, id) = Stake(house, id, q) /\ At(g, T, id) = Stake(new, id, q)
  BY DEF At, Stake
<1>4. Stakes(house, q) = SumFunctionOnSet(f, S) /\ Stakes(new, q) = SumFunctionOnSet(g, T)
  BY DEF Stakes
<1>5. IsFiniteSet(S) /\ S \ {id} = T \ {id}
  BY DEF IsHouse
<1> HIDE DEF f, g, S, T
<1>6. SumFunctionOnSet(g, T) = SumFunctionOnSet(f, S) + At(g, T, id) - At(f, S, id)
  BY <1>1, <1>2, <1>5, SumApart
<1> QED BY <1>3, <1>4, <1>6

\* The letter with an offered item is the first to hold it.
LEMMA ItemArrivesByMail ==
  ASSUME Types, ItemInOnePlace, NEW id \in DOMAIN auctions, NEW to \in Players, NEW box,
         mail' = SendMailTo(box, AuctionLetter(to, auctions[id].item, 0))
  PROVE  ItemsTo(to)' \ ItemsTo(to) # {}
<1>1. PICK i \in Items : i = auctions[id].item
  BY DEF Types, House, Entries
<1>2. i # Nothing
  BY MailAssumption
<1> DEFINE letter == AuctionLetter(to, i, 0)
<1>3. letter.to = to /\ letter.item = i
  BY DEF AuctionLetter, Letter
<1>4. letter \in DOMAIN mail'
  <2>1. SendMailTo(box, letter) = Put(box, letter)
    BY <1>2, <1>3 DEF SendMailTo
  <2> HIDE DEF letter
  <2> QED BY <1>1, <2>1 DEF Put, letter
<1> HIDE DEF letter
<1>5. i \in ItemsTo(to)'
  BY <1>2, <1>3, <1>4 DEF ItemsTo, LettersTo
<1>6. i \notin ItemsTo(to)
  <2> SUFFICES ASSUME NEW l \in DOMAIN mail, l.item = i PROVE FALSE
    BY DEF ItemsTo, LettersTo
  <2>1. Worth(mail, Holding(i)) >= 1
    BY LetterOfItem DEF Types
  <2>2. Cardinality(OffersOf(i, auctions)) = 0
    BY <2>1, OnlyPlace
  <2>3. IsFiniteSet(OffersOf(i, auctions))
    BY HouseIsHouse, FS_Subset DEF Types, IsHouse, OffersOf
  <2>4. id \in OffersOf(i, auctions)
    BY <1>1 DEF OffersOf
  <2> QED BY <2>2, <2>3, <2>4, FS_EmptySet
<1> QED BY <1>5, <1>6

LEMMA PostedFor ==
  ASSUME NEW box, IsBox(box), NEW to \in Players, NEW item \in Items \cup {Nothing},
         NEW money \in Nat, NEW q \in Players
  PROVE  LET new == SendMailTo(box, AuctionLetter(to, item, money))
         IN  /\ IsBox(new)
             /\ Worth(new, MoneyFor(q)) = Worth(box, MoneyFor(q)) + (IF to = q THEN money ELSE 0)
<1> DEFINE letter == AuctionLetter(to, item, money)
<1>1. letter \in Letters /\ letter.to = to /\ letter.money = money
  BY DEF AuctionLetter, Letter, Letters
<1> HIDE DEF letter
<1>2. IsMeasure(MoneyFor(q))
  BY MoneyForCounted DEF MoneyFor, IsMeasure, Letters
<1>3. /\ IsBox(SendMailTo(box, letter))
      /\ Worth(SendMailTo(box, letter), MoneyFor(q)) = Worth(box, MoneyFor(q)) + MoneyFor(q)[letter]
  BY <1>1, <1>2, Sending
<1>4. MoneyFor(q)[letter] = IF to = q THEN money ELSE 0
  BY <1>1 DEF MoneyFor
<1> QED BY <1>3, <1>4 DEF letter

LEMMA MailedBack ==
  ASSUME NEW box, IsBox(box), NEW a \in Entries, a.bidder # NoPlayer
  PROVE  /\ IsBox(MailBack(box, a)) /\ a.bidder \in Players
         /\ Worth(MailBack(box, a), MoneyFor(a.bidder)) = Worth(box, MoneyFor(a.bidder)) + a.bid
<1>1. a.bidder \in Players /\ a.bid \in Nat
  BY DEF Entries
<1>2. PICK to \in Players : to = a.bidder
  BY <1>1
<1>3. PICK money \in Nat : money = a.bid
  BY <1>1
<1>4. PICK item \in Items \cup {Nothing} : item = Nothing
  OBVIOUS
<1>5. /\ IsBox(SendMailTo(box, AuctionLetter(to, item, money)))
      /\ Worth(SendMailTo(box, AuctionLetter(to, item, money)), MoneyFor(to))
           = Worth(box, MoneyFor(to)) + money
  BY PostedFor
<1> QED BY <1>1, <1>2, <1>3, <1>4, <1>5 DEF MailBack

\* An auction leaves the house: only its bidder's bids fall.
LEMMA Withdrawal ==
  ASSUME IInv, IInv', NEW id \in DOMAIN auctions, RemoveAuction(id), NEW q \in Players,
         Stakes(auctions', q) < Stakes(auctions, q)
  PROVE  /\ auctions[id].bidder = q
         /\ Stakes(auctions, q) - Stakes(auctions', q) = auctions[id].bid
<1>1. IsHouse(auctions) /\ auctions' = Restrict(auctions, DOMAIN auctions \ {id})
  BY HouseIsHouse DEF IInv, Types, RemoveAuction
<1>2. /\ IsHouse(auctions') /\ DOMAIN auctions' = DOMAIN auctions \ {id}
      /\ \A k \in DOMAIN auctions \ {id} : auctions'[k] = auctions[k]
  BY <1>1, LeaveAuction DEF Restrict
<1>3. Stakes(auctions', q) = Stakes(auctions, q) + Stake(auctions', id, q) - Stake(auctions, id, q)
  BY <1>1, <1>2, StakesChange
<1>4. Stake(auctions', id, q) = 0
  BY <1>2 DEF Stake
<1>5. Stakes(auctions, q) \in Nat /\ Stake(auctions, id, q) \in Nat
  BY <1>1, StakesCounted, StakeNat
<1>6. Stake(auctions, id, q) # 0 /\ Stakes(auctions, q) - Stakes(auctions', q) = Stake(auctions, id, q)
  BY <1>3, <1>4, <1>5
<1> QED BY <1>6 DEF Stake

LEMMA OutbidReturns ==
  ASSUME IInv, IInv', NEW p \in Players, NEW id \in DOMAIN auctions, NEW price \in Prices,
         PlaceBid(p, id, price), NEW q \in Players, Stakes(auctions', q) < Stakes(auctions, q)
  PROVE  Worth(mail', MoneyFor(q)) = Worth(mail, MoneyFor(q))
                                       + (Stakes(auctions, q) - Stakes(auctions', q))
<1>1. IsHouse(auctions) /\ IsBox(mail) /\ auctions[id] \in Entries
  BY HouseIsHouse DEF IInv, Types, House
<1>2. PICK a \in Entries : a = auctions[id]
  BY <1>1
<1>3. /\ price \in Nat /\ price > a.bid /\ a.bid \in Nat
      /\ mail' = IF a.bidder \in {NoPlayer, p} THEN mail ELSE MailBack(mail, a)
      /\ auctions' = [auctions EXCEPT ![id].bidder = p, ![id].bid = price]
  BY <1>2, AuctionAssumption DEF PlaceBid, Acceptable, Charge, Entries
<1>4. /\ DOMAIN auctions' = DOMAIN auctions
      /\ \A k \in DOMAIN auctions \ {id} : auctions'[k] = auctions[k]
      /\ auctions'[id] = [a EXCEPT !.bidder = p, !.bid = price]
  BY <1>2, <1>3 DEF IsHouse
<1>5. auctions'[id].bidder = p /\ auctions'[id].bid = price
  BY <1>4 DEF Entries
<1>6. IsHouse(auctions')
  <2>1. (House => IsHouse(auctions))'
    BY HouseIsHouse, PTL
  <2> QED BY <2>1 DEF IInv, Types
<1>7. Stakes(auctions', q) = Stakes(auctions, q) + Stake(auctions', id, q) - Stake(auctions, id, q)
  BY <1>1, <1>4, <1>6, StakesChange
<1>8. /\ Stake(auctions', id, q) = (IF p = q THEN price ELSE 0)
      /\ Stake(auctions, id, q) = (IF a.bidder = q THEN a.bid ELSE 0)
  BY <1>2, <1>4, <1>5 DEF Stake
<1>9. Stakes(auctions, q) \in Nat
  BY <1>1, StakesCounted
<1>10. p # q /\ a.bidder = q /\ Stakes(auctions, q) - Stakes(auctions', q) = a.bid
  BY <1>3, <1>7, <1>8, <1>9
<1>11. a.bidder # NoPlayer /\ mail' = MailBack(mail, a)
  BY <1>3, <1>10, MailAssumption
<1>12. Worth(mail', MoneyFor(q)) = Worth(mail, MoneyFor(q)) + a.bid
  BY <1>1, <1>10, <1>11, MailedBack
<1> QED BY <1>10, <1>12

LEMMA BuyoutReturns ==
  ASSUME IInv, IInv', NEW p \in Players, NEW id \in DOMAIN auctions, NEW price \in Prices,
         Buyout(p, id, price), NEW q \in Players, Stakes(auctions', q) < Stakes(auctions, q)
  PROVE  \/ ItemsTo(q)' \ ItemsTo(q) # {}
         \/ Worth(mail', MoneyFor(q)) = Worth(mail, MoneyFor(q))
                                          + (Stakes(auctions, q) - Stakes(auctions', q))
<1>1. IsBox(mail) /\ auctions[id] \in Entries /\ Types /\ ItemInOnePlace
  BY DEF IInv, Types, House
<1>2. PICK a \in Entries : a = auctions[id]
  BY <1>1
<1>3. RemoveAuction(id) /\ a.owner # p
  BY <1>2 DEF Buyout, Acceptable
<1>4. a.bidder = q /\ Stakes(auctions, q) - Stakes(auctions', q) = a.bid
  BY <1>2, <1>3, Withdrawal
<1>5. a.bidder # NoPlayer /\ a.owner # q /\ a.owner \in Players /\ a.bid \in Nat /\ a.item \in Items
  BY <1>4, MailAssumption DEF Entries
<1>6. PICK sold \in Entries : sold = [a EXCEPT !.bidder = p, !.bid = a.buyout]
  BY <1>3, MailAssumption DEF Entries
<1>7. /\ sold.item = a.item /\ sold.owner = a.owner /\ sold.bidder = p /\ sold.bid \in Nat
      /\ sold.deposit \in Nat
  BY <1>6 DEF Entries
<1>8. mail' = MailSold(IF a.bidder \in {NoPlayer, p} THEN mail ELSE MailBack(mail, a), sold)
  BY <1>2, <1>6 DEF Buyout
<1>9. CASE p = q
  <2> DEFINE half == SendMailTo(mail, AuctionLetter(sold.owner, Nothing, Profit(sold)))
  <2>1. mail' = SendMailTo(half, AuctionLetter(q, auctions[id].item, 0))
    BY <1>2, <1>4, <1>7, <1>8, <1>9 DEF MailSold
  <2> HIDE DEF half
  <2> QED BY <1>1, <2>1, ItemArrivesByMail
<1>10. CASE p # q
  <2>1. mail' = MailSold(MailBack(mail, a), sold)
    BY <1>4, <1>5, <1>8, <1>10
  <2>2. PICK back : back = MailBack(mail, a)
    OBVIOUS
  <2>3. IsBox(back) /\ Worth(back, MoneyFor(q)) = Worth(mail, MoneyFor(q)) + a.bid
    BY <1>1, <1>4, <1>5, <2>2, MailedBack
  <2>4. PICK profit \in Nat : profit = Profit(sold)
    <3>1. GetAuctionCut(sold) \in Nat /\ GetAuctionCut(sold) <= sold.bid
      BY <1>7, CutInBid
    <3> QED BY <1>7, <3>1 DEF Profit
  <2>5. PICK owner \in Players, none \in Items \cup {Nothing}, item \in Items \cup {Nothing},
             zero \in Nat :
          owner = a.owner /\ none = Nothing /\ item = a.item /\ zero = 0
    BY <1>5
  <2>6. PICK half : half = SendMailTo(back, AuctionLetter(owner, none, profit))
    OBVIOUS
  <2>7. mail' = SendMailTo(half, AuctionLetter(p, item, zero))
    BY <1>7, <2>1, <2>2, <2>4, <2>5, <2>6 DEF MailSold
  <2>8. IsBox(half) /\ Worth(half, MoneyFor(q)) = Worth(back, MoneyFor(q)) + 0
    <3>1. owner # q
      BY <1>5, <2>5
    <3>2. IsBox(back) /\ owner \in Players /\ none \in Items \cup {Nothing} /\ profit \in Nat
      BY <2>3, <2>5
    <3>3. IsBox(SendMailTo(back, AuctionLetter(owner, none, profit)))
      BY <3>2, PostedFor
    <3>4. Worth(SendMailTo(back, AuctionLetter(owner, none, profit)), MoneyFor(q))
            = Worth(back, MoneyFor(q)) + (IF owner = q THEN profit ELSE 0)
      BY <3>2, PostedFor
    <3> QED BY <2>6, <3>1, <3>3, <3>4
  <2>9. Worth(mail', MoneyFor(q)) = Worth(half, MoneyFor(q)) + 0
    BY <1>10, <2>7, <2>8, PostedFor
  <2>10. Worth(mail, MoneyFor(q)) \in Nat
    BY <1>1, MoneyForCounted, WorthNat
  <2> QED BY <1>4, <1>5, <2>3, <2>8, <2>9, <2>10
<1> QED BY <1>9, <1>10

LEMMA CancelReturns ==
  ASSUME IInv, IInv', NEW p \in Players, NEW id \in DOMAIN auctions, CancelAuction(p, id),
         NEW q \in Players, Stakes(auctions', q) < Stakes(auctions, q)
  PROVE  Worth(mail', MoneyFor(q)) = Worth(mail, MoneyFor(q))
                                       + (Stakes(auctions, q) - Stakes(auctions', q))
<1>1. IsBox(mail) /\ auctions[id] \in Entries
  BY DEF IInv, Types, House
<1>2. PICK a \in Entries : a = auctions[id]
  BY <1>1
<1>3. a.bidder = q /\ Stakes(auctions, q) - Stakes(auctions', q) = a.bid
  <2>1. RemoveAuction(id)
    BY DEF CancelAuction
  <2> QED BY <1>2, <2>1, Withdrawal
<1>4. a.bidder # NoPlayer /\ a.owner # q /\ a.owner \in Players /\ a.bid \in Nat /\ a.item \in Items
  BY <1>3, MailAssumption DEF Entries
<1>5. PICK back : back = MailBack(mail, a)
  OBVIOUS
<1>6. PICK owner \in Players, item \in Items \cup {Nothing}, zero \in Nat :
        owner = a.owner /\ item = a.item /\ zero = 0
  BY <1>4
<1>7. mail' = SendMailTo(back, AuctionLetter(owner, item, zero))
  BY <1>2, <1>4, <1>5, <1>6 DEF CancelAuction, MailUnsold
<1>8. IsBox(back) /\ Worth(back, MoneyFor(q)) = Worth(mail, MoneyFor(q)) + a.bid
  BY <1>1, <1>3, <1>4, <1>5, MailedBack
<1>9. Worth(mail', MoneyFor(q)) = Worth(back, MoneyFor(q)) + 0
  <2>1. owner # q
    BY <1>4, <1>6
  <2> QED BY <1>7, <1>8, <2>1, PostedFor
<1>10. Worth(mail, MoneyFor(q)) \in Nat
  BY <1>1, MoneyForCounted, WorthNat
<1> QED BY <1>3, <1>4, <1>8, <1>9, <1>10

LEMMA ExpiryReturns ==
  ASSUME IInv, IInv', NEW id \in DOMAIN auctions, ExpireAuction(id),
         NEW q \in Players, Stakes(auctions', q) < Stakes(auctions, q)
  PROVE  ItemsTo(q)' \ ItemsTo(q) # {}
<1>1. auctions[id].bidder = q
  <2>1. RemoveAuction(id)
    BY DEF ExpireAuction
  <2> QED BY <2>1, Withdrawal
<1>2. mail' = MailSold(mail, auctions[id])
  BY <1>1, MailAssumption DEF ExpireAuction
<1> DEFINE half == SendMailTo(mail, AuctionLetter(auctions[id].owner, Nothing, Profit(auctions[id])))
<1>3. mail' = SendMailTo(half, AuctionLetter(q, auctions[id].item, 0))
  BY <1>1, <1>2 DEF MailSold
<1> HIDE DEF half
<1> QED BY <1>3, ItemArrivesByMail DEF IInv

(***************************************************************************)
(* Only bids, buyouts and the ends of auctions touch a bid.                *)
(***************************************************************************)
LEMMA BidsStand ==
  ASSUME IInv, [Next]_vars,
         \A p \in Players, id \in DOMAIN auctions, price \in Prices :
           ~PlaceBid(p, id, price) /\ ~Buyout(p, id, price),
         \A p \in Players, id \in DOMAIN auctions : ~CancelAuction(p, id),
         \A id \in DOMAIN auctions : ~ExpireAuction(id),
         NEW q \in Players
  PROVE  Stakes(auctions', q) = Stakes(auctions, q)
<1>1. IsHouse(auctions) /\ House
  BY HouseIsHouse DEF IInv, Types
<1>2. CASE auctions' = auctions
  BY <1>2
<1>3. ASSUME NEW p \in Players, NEW item \in Items, NEW startbid \in StartBids,
             NEW buyout \in Buyouts, SellItem(p, item, startbid, buyout)
      PROVE  Stakes(auctions', q) = Stakes(auctions, q)
  <2>1. PICK a : /\ auctions' = [id \in DOMAIN auctions \cup {nextId} |->
                                   IF id = nextId THEN a ELSE auctions[id]]
                 /\ a.bidder = NoPlayer
    <3> DEFINE a == [item |-> item, owner |-> p, bidder |-> NoPlayer, bid |-> 0,
                     startbid |-> startbid, buyout |-> buyout, deposit |-> GetAuctionDeposit(item, 1)]
    <3>1. a.bidder = NoPlayer
      OBVIOUS
    <3>2. auctions' = [id \in DOMAIN auctions \cup {nextId} |-> IF id = nextId THEN a ELSE auctions[id]]
      BY <1>3 DEF SellItem
    <3> HIDE DEF a
    <3> QED BY <3>1, <3>2
  <2>2. nextId \notin DOMAIN auctions
    BY <1>1 DEF House
  <2>3. /\ DOMAIN auctions' = DOMAIN auctions \cup {nextId}
        /\ \A id \in DOMAIN auctions : auctions'[id] = auctions[id]
        /\ auctions'[nextId] = a
    BY <2>1, <2>2
  <2> DEFINE f == [id \in DOMAIN auctions |-> Stake(auctions, id, q)]
             g == [id \in DOMAIN auctions' |-> Stake(auctions', id, q)]
  <2>4. /\ \A id \in DOMAIN auctions : f[id] = g[id]
        /\ \A id \in DOMAIN auctions' \ DOMAIN auctions : g[id] = 0
        /\ \A id \in DOMAIN auctions' : g[id] \in Int
    <3>1. \A id \in DOMAIN auctions : Stake(auctions', id, q) = Stake(auctions, id, q)
      BY <2>3 DEF Stake
    <3>2. \A id \in DOMAIN auctions' \ DOMAIN auctions : Stake(auctions', id, q) = 0
      BY <2>1, <2>3, MailAssumption DEF Stake
    <3>3. \A id \in DOMAIN auctions : Stake(auctions, id, q) \in Nat
      BY <1>1, StakeNat
    <3> QED BY <2>3, <3>1, <3>2, <3>3
  <2>5. /\ Stakes(auctions, q) = SumFunctionOnSet(f, DOMAIN auctions)
        /\ Stakes(auctions', q) = SumFunctionOnSet(g, DOMAIN auctions')
    BY DEF Stakes
  <2>6. /\ IsFiniteSet(DOMAIN auctions) /\ IsFiniteSet(DOMAIN auctions')
        /\ DOMAIN auctions \subseteq DOMAIN auctions'
    BY <1>1, <2>3, FS_AddElement DEF IsHouse
  <2> HIDE DEF f, g
  <2>7. SumFunctionOnSet(f, DOMAIN auctions) = SumFunctionOnSet(g, DOMAIN auctions)
    BY <2>4, <2>6, SumSame
  <2>8. SumFunctionOnSet(g, DOMAIN auctions) = SumFunctionOnSet(g, DOMAIN auctions')
    BY <2>4, <2>6, SumWider
  <2> QED BY <2>5, <2>7, <2>8
<1>4. CASE UpdatePendingAuctions
  <2>1. /\ DOMAIN auctions' = DOMAIN auctions
        /\ \A id \in DOMAIN auctions : /\ auctions'[id].bidder = auctions[id].bidder
                                       /\ auctions'[id].bid = auctions[id].bid
    <3>1. /\ DOMAIN auctions' = DOMAIN auctions
          /\ \A id \in DOMAIN auctions :
               \E share : auctions'[id] \in {auctions[id], [auctions[id] EXCEPT !.deposit = share]}
      BY <1>4 DEF UpdatePendingAuctions
    <3>2. ASSUME NEW id \in DOMAIN auctions
          PROVE  /\ auctions'[id].bidder = auctions[id].bidder
                 /\ auctions'[id].bid = auctions[id].bid
      <4>1. PICK a \in Entries : a = auctions[id]
        BY <1>1 DEF IsHouse
      <4>2. PICK share : auctions'[id] \in {a, [a EXCEPT !.deposit = share]}
        BY <3>1, <4>1
      <4>3. /\ [a EXCEPT !.deposit = share].bidder = a.bidder
            /\ [a EXCEPT !.deposit = share].bid = a.bid
        BY DEF Entries
      <4> QED BY <4>1, <4>2, <4>3
    <3> QED BY <3>1, <3>2
  <2>2. \A id \in DOMAIN auctions : Stake(auctions', id, q) = Stake(auctions, id, q)
    BY <2>1 DEF Stake
  <2>3. [id \in DOMAIN auctions' |-> Stake(auctions', id, q)]
          = [id \in DOMAIN auctions |-> Stake(auctions, id, q)]
    BY <2>1, <2>2
  <2> QED BY <2>1, <2>3 DEF Stakes
<1>5. CASE Restart \/ (MailNext /\ UNCHANGED auctionVars) \/ UNCHANGED vars
  BY <1>2, <1>5 DEF Restart, vars, auctionVars
<1> QED BY <1>3, <1>4, <1>5 DEF Next

LEMMA BidsReturn ==
  ASSUME IInv, IInv', [Next]_vars, NEW q \in Players, Bids(q)' < Bids(q)
  PROVE  \/ ItemsTo(q)' \ ItemsTo(q) # {}
         \/ MoneyTo(q)' - MoneyTo(q) = Bids(q) - Bids(q)'
<1>1. IsHouse(auctions) /\ IsBox(mail) /\ IsBox(mail')
  BY HouseIsHouse DEF IInv, Types
<1>2. IsHouse(auctions')
  <2>1. (House => IsHouse(auctions))'
    BY HouseIsHouse, PTL
  <2> QED BY <2>1 DEF IInv, Types
<1>3. /\ Bids(q) = Stakes(auctions, q) /\ Stakes(auctions, q) \in Nat
      /\ Bids(q)' = Stakes(auctions', q) /\ Stakes(auctions', q) \in Nat
  BY <1>1, <1>2, StakesCounted DEF Bids
<1>4. /\ MoneyTo(q) = Worth(mail, MoneyFor(q)) /\ MoneyTo(q)' = Worth(mail', MoneyFor(q))
      /\ Worth(mail, MoneyFor(q)) \in Nat
  BY <1>1, MoneyForCounted, WorthNat DEF MoneyTo, LettersTo
<1>5. Stakes(auctions', q) < Stakes(auctions, q)
  BY <1>3
<1>6. \/ ItemsTo(q)' \ ItemsTo(q) # {}
      \/ Worth(mail', MoneyFor(q)) = Worth(mail, MoneyFor(q))
                                       + (Stakes(auctions, q) - Stakes(auctions', q))
  <2>1. Stakes(auctions', q) # Stakes(auctions, q)
    BY <1>3, <1>5
  <2> QED BY <1>5, <2>1, BidsStand, OutbidReturns, BuyoutReturns, CancelReturns, ExpiryReturns
<1> QED BY <1>3, <1>4, <1>6

---------------------------------------------------------------------------
(***************************************************************************)
(* Every item is carried, offered, in a letter or destroyed, and in one of *)
(* these places only: what the handlers of the mail and of the auction     *)
(* house, the expiries and the crashes do to it together.                  *)
(***************************************************************************)
THEOREM ItemsAreKept == Patient /\ Spec => []ItemInOnePlace
<1>1. IInv => ItemInOnePlace
  BY DEF IInv
<1> QED BY <1>1, Invariance, PTL

(***************************************************************************)
(* The money carried, in letters and bid, with what the post and the       *)
(* auctioneers have kept, is the money the players began with.             *)
(***************************************************************************)
THEOREM MoneyIsKept == Patient /\ Spec => []MoneyBalances
<1>1. IInv => MoneyBalances
  BY DEF IInv
<1> QED BY <1>1, Invariance, PTL

(***************************************************************************)
(* The gold in the database differs from the gold in memory by the         *)
(* deposits PendingAuctionProcess charged since the last save, and by      *)
(* nothing else: the other handlers save it with what it paid for.         *)
(***************************************************************************)
THEOREM OnlyDepositsComeBack == Patient /\ Spec => []CrashGivesBackDeposits
<1>1. IInv => CrashGivesBackDeposits
  BY DEF IInv
<1> QED BY <1>1, Invariance, PTL

(***************************************************************************)
(* What pendingAuctionMap lists is in the house, when nothing takes an     *)
(* auction out of it while its deposit is pending.                         *)
(***************************************************************************)
THEOREM PendingIsListed == Patient /\ Spec => []NotReferencedAnyMore
<1>1. IInv => NotReferencedAnyMore
  BY DEF IInv
<1> QED BY <1>1, Invariance, PTL

(***************************************************************************)
(* A bidder who is outbid, bought over or whose auction is cancelled is    *)
(* sent his whole bid by the same handler.                                 *)
(***************************************************************************)
THEOREM BidsAreReturned == Patient /\ Spec => BidsComeBack
<1>1. IInv /\ IInv' /\ [Next]_vars =>
        [\A p \in Players : Bids(p)' < Bids(p) =>
           \/ ItemsTo(p)' \ ItemsTo(p) # {}
           \/ MoneyTo(p)' - MoneyTo(p) = Bids(p) - Bids(p)']_vars
  BY BidsReturn
<1> QED BY <1>1, Invariance, PTL DEF Spec, BidsComeBack
=============================================================================
