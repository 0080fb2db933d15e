----------------------------- MODULE FoldLemmas -----------------------------
(***************************************************************************)
(* Folds.  The first part is about sums over finite sets, what the         *)
(* operator SumFunctionOnSet of the module Functions gives, which folds in *)
(* an order of its own choice: balances of money and items (AuctionHouse)  *)
(* and the players of waiting groups (CrossfactionQueue) are such sums.    *)
(* The second is about folds over a sequence from left to right, FoldLeft  *)
(* of SequencesExt: one queue update after the other (RatedArenaQueue).    *)
(*                                                                         *)
(* The recursion is unfolded by taking, of the sets for which an equation  *)
(* fails, one with no smaller such set inside.                             *)
(***************************************************************************)
EXTENDS Integers, FiniteSets, FiniteSetsExt, Functions, FiniteSetTheorems, WellFoundedInduction, TLAPS

CONSTANT Folded(_, _, _)

Chosen(s) == CHOOSE x \in s : TRUE
Added(f, s, g) == IF s = {} THEN 0 ELSE f[Chosen(s)] + g[s \ {Chosen(s)}]
IsSum(g, f, S) == g = [s \in SUBSET S |-> Added(f, s, g)]

LEMMA Unfold == ASSUME NEW f, NEW S PROVE SumFunctionOnSet(f,S) = (CHOOSE k : IsSum(k, f, S))[S]
BY DEF SumFunctionOnSet, FoldFunctionOnSet, MapThenFoldSet, IsSum, Added, Chosen

LEMMA ChosenIn == ASSUME NEW s, s # {} PROVE Chosen(s) \in s
BY DEF Chosen

\* Of any sets of elements of a finite set, one contains no other.
LEMMA SmallestSet ==
  ASSUME NEW S, IsFiniteSet(S), NEW T, T \subseteq SUBSET S, T # {}
  PROVE  \E x \in T : \A y \in T : y \subseteq x => y = x
<1>1. IsWellFoundedOn(StrictSubsetOrdering(S), SUBSET S)
  BY FS_StrictSubsetOrderingWellFounded, FS_FiniteSubsetsOfFinite
<1>2. \E x \in T : \A y \in T : ~ (<<y, x>> \in StrictSubsetOrdering(S))
  BY <1>1, WFMin
<1>3. \A x, y \in SUBSET S : y \subseteq x /\ y # x => <<y, x>> \in StrictSubsetOrdering(S)
  BY DEF StrictSubsetOrdering
<1> QED BY <1>2, <1>3

LEMMA SumsAgree ==
  ASSUME NEW f, NEW A, NEW B, IsFiniteSet(A), NEW g, NEW h, IsSum(g, f, A), IsSum(h, f, B),
         NEW U, U \subseteq A, U \subseteq B
  PROVE  g[U] = h[U]
<1> SUFFICES ASSUME g[U] # h[U] PROVE FALSE
  OBVIOUS
<1> DEFINE Bad == {V \in SUBSET A : V \subseteq B /\ g[V] # h[V]}
<1>1. PICK V \in Bad : \A W \in Bad : W \subseteq V => W = V
  <2>1. Bad \subseteq SUBSET A /\ Bad # {}
    OBVIOUS
  <2> HIDE DEF Bad
  <2> QED BY <2>1, SmallestSet
<1>2. g[V] = Added(f, V, g) /\ h[V] = Added(f, V, h)
  BY DEF IsSum
<1>3. V # {}
  BY <1>2 DEF Added
<1>4. Chosen(V) \in V
  BY <1>3, ChosenIn
<1>5. V \ {Chosen(V)} \notin Bad
  BY <1>1, <1>4
<1>6. g[V \ {Chosen(V)}] = h[V \ {Chosen(V)}]
  BY <1>5
<1> QED BY <1>2, <1>6 DEF Added

LEMMA SumExists ==
  ASSUME NEW f, NEW S, IsFiniteSet(S)
  PROVE  \E g : IsSum(g, f, S)
<1> SUFFICES ASSUME ~\E g : IsSum(g, f, S) PROVE FALSE
  OBVIOUS
<1> DEFINE Bad == {V \in SUBSET S : ~\E g : IsSum(g, f, V)}
<1>1. PICK V \in Bad : \A W \in Bad : W \subseteq V => W = V
  <2>1. Bad \subseteq SUBSET S /\ Bad # {}
    OBVIOUS
  <2> HIDE DEF Bad
  <2> QED BY <2>1, SmallestSet
<1> DEFINE Of(W) == CHOOSE k : IsSum(k, f, W)
           Rest(s) == s \ {Chosen(s)}
           total == [s \in SUBSET V |-> IF s = {} THEN 0 ELSE f[Chosen(s)] + Of(Rest(s))[Rest(s)]]
<1>2. ASSUME NEW W, W \subseteq V, W # V PROVE IsSum(Of(W), f, W) /\ IsFiniteSet(W)
  <2>1. W \notin Bad
    BY <1>1, <1>2
  <2>2. \E g : IsSum(g, f, W)
    BY <1>2, <2>1
  <2>3. IsFiniteSet(W)
    BY <1>2, FS_Subset
  <2> QED BY <2>2, <2>3
<1>3. ASSUME NEW s \in SUBSET V PROVE total[s] = Added(f, s, total)
  <2>1. CASE s = {}
    BY <2>1 DEF Added
  <2>2. CASE s # {}
    <3> DEFINE r == Rest(s)
    <3>1. r \in SUBSET V /\ r # V
      BY <2>2, ChosenIn
    <3>2. total[s] = f[Chosen(s)] + Of(r)[r]
      BY <2>2
    <3>3. total[r] = Of(r)[r]
      <4>1. IsSum(Of(r), f, r) /\ IsFiniteSet(r)
        BY <1>2, <3>1
      <4>2. Of(r)[r] = Added(f, r, Of(r))
        BY <4>1 DEF IsSum
      <4>3. CASE r = {}
        BY <3>1, <4>2, <4>3 DEF Added
      <4>4. CASE r # {}
        <5> DEFINE q == Rest(r)
        <5>1. q \in SUBSET r /\ q \in SUBSET V /\ q # V
          BY <3>1, <4>4, ChosenIn
        <5>2. IsSum(Of(q), f, q)
          BY <1>2, <5>1
        <5>3. Of(r)[q] = Of(q)[q]
          <6>1. IsSum(Of(r), f, r) /\ IsFiniteSet(r) /\ IsSum(Of(q), f, q) /\ q \subseteq r
            BY <4>1, <5>1, <5>2
          <6> HIDE DEF Of, r, q
          <6> QED BY <6>1, SumsAgree
        <5>4. total[r] = f[Chosen(r)] + Of(q)[q]
          BY <3>1, <4>4
        <5> QED BY <4>2, <4>4, <5>3, <5>4 DEF Added
      <4> QED BY <4>3, <4>4
    <3> HIDE DEF total, Of
    <3> QED BY <2>2, <3>2, <3>3 DEF Added
  <2> QED BY <2>1, <2>2
<1>4. IsSum(total, f, V)
  <2>1. total = [s \in SUBSET V |-> total[s]]
    OBVIOUS
  <2> HIDE DEF total
  <2> QED BY <1>3, <2>1 DEF IsSum
<1> QED BY <1>1, <1>4

LEMMA SumIs ==
  ASSUME NEW f, NEW S, IsFiniteSet(S), NEW U \in SUBSET S
  PROVE  SumFunctionOnSet(f, U) = (CHOOSE k : IsSum(k, f, S))[U]
<1>1. IsFiniteSet(U)
  BY FS_Subset
<1> DEFINE g == CHOOSE k : IsSum(k, f, S)
           h == CHOOSE k : IsSum(k, f, U)
<1>2. IsSum(g, f, S) /\ IsSum(h, f, U)
  BY <1>1, SumExists
<1>3. SumFunctionOnSet(f, U) = h[U]
  BY Unfold
<1> HIDE DEF g, h
<1>4. g[U] = h[U]
  BY <1>2, SumsAgree
<1> QED BY <1>3, <1>4 DEF g

LEMMA SumOfNone == ASSUME NEW f PROVE SumFunctionOnSet(f, {}) = 0
<1>1. IsFiniteSet({})
  BY FS_EmptySet
<1>2. IsSum(CHOOSE k : IsSum(k, f, {}), f, {})
  BY <1>1, SumExists
<1> QED BY <1>2, Unfold DEF IsSum, Added

LEMMA SumOfChosen ==
  ASSUME NEW f, NEW S, IsFiniteSet(S), S # {}
  PROVE  SumFunctionOnSet(f, S) = f[Chosen(S)] + SumFunctionOnSet(f, S \ {Chosen(S)})
<1> DEFINE g == CHOOSE k : IsSum(k, f, S)
<1>1. IsSum(g, f, S)
  BY SumExists
<1>2. SumFunctionOnSet(f, S) = g[S] /\ SumFunctionOnSet(f, S \ {Chosen(S)}) = g[S \ {Chosen(S)}]
  BY SumIs
<1> HIDE DEF g
<1> QED BY <1>1, <1>2 DEF IsSum, Added

LEMMA SumInt ==
  ASSUME NEW f, NEW S, IsFiniteSet(S), \A x \in S : f[x] \in Int
  PROVE  SumFunctionOnSet(f, S) \in Int
<1> SUFFICES ASSUME SumFunctionOnSet(f, S) \notin Int PROVE FALSE
  OBVIOUS
<1> DEFINE Bad == {V \in SUBSET S : SumFunctionOnSet(f, V) \notin Int}
<1>1. PICK V \in Bad : \A W \in Bad : W \subseteq V => W = V
  <2>1. Bad \subseteq SUBSET S /\ Bad # {}
    OBVIOUS
  <2> HIDE DEF Bad
  <2> QED BY <2>1, SmallestSet
<1>2. V # {} /\ IsFiniteSet(V)
  <2>1. ASSUME V = {} PROVE FALSE
    <3>1. SumFunctionOnSet(f, {}) = 0
      BY SumOfNone
    <3> QED BY <2>1, <3>1
  <2>2. IsFiniteSet(V)
    BY FS_Subset
  <2> QED BY <2>1, <2>2
<1>3. Chosen(V) \in V /\ f[Chosen(V)] \in Int
  BY <1>2, ChosenIn
<1>4. SumFunctionOnSet(f, V \ {Chosen(V)}) \in Int
  BY <1>1, <1>3
<1> QED BY <1>2, <1>3, <1>4, SumOfChosen

\* The order does not matter.
LEMMA SumWithout ==
  ASSUME NEW f, NEW S, IsFiniteSet(S), \A x \in S : f[x] \in Int, NEW a \in S
  PROVE  SumFunctionOnSet(f, S) = f[a] + SumFunctionOnSet(f, S \ {a})
<1> SUFFICES ASSUME SumFunctionOnSet(f, S) # f[a] + SumFunctionOnSet(f, S \ {a}) PROVE FALSE
  OBVIOUS
<1> DEFINE Bad == {V \in SUBSET S : \E x \in V : SumFunctionOnSet(f, V) # f[x] + SumFunctionOnSet(f, V \ {x})}
<1>1. PICK V \in Bad : \A W \in Bad : W \subseteq V => W = V
  <2>1. Bad \subseteq SUBSET S /\ Bad # {}
    OBVIOUS
  <2> HIDE DEF Bad
  <2> QED BY <2>1, SmallestSet
<1>2. PICK x \in V : SumFunctionOnSet(f, V) # f[x] + SumFunctionOnSet(f, V \ {x})
  OBVIOUS
<1>3. PICK y \in V : y = Chosen(V)
  BY ChosenIn
<1>4. IsFiniteSet(V) /\ f[x] \in Int /\ f[y] \in Int
  BY FS_Subset
<1>5. SumFunctionOnSet(f, V) = f[y] + SumFunctionOnSet(f, V \ {y})
  BY <1>3, <1>4, SumOfChosen
<1>6. x # y
  BY <1>2, <1>5
<1>7. V \ {x} \notin Bad /\ V \ {y} \notin Bad
  BY <1>1
<1>8. /\ SumFunctionOnSet(f, V \ {x}) = f[y] + SumFunctionOnSet(f, (V \ {x}) \ {y})
      /\ SumFunctionOnSet(f, V \ {y}) = f[x] + SumFunctionOnSet(f, (V \ {y}) \ {x})
  BY <1>6, <1>7
<1>9. (V \ {x}) \ {y} = (V \ {y}) \ {x}
  OBVIOUS
<1>10. SumFunctionOnSet(f, (V \ {y}) \ {x}) \in Int
  <2>1. IsFiniteSet((V \ {y}) \ {x})
    BY <1>4, FS_Subset
  <2> QED BY <2>1, SumInt
<1>11. PICK rest \in Int : rest = SumFunctionOnSet(f, (V \ {y}) \ {x})
  BY <1>10
<1>12. SumFunctionOnSet(f, (V \ {x}) \ {y}) = rest
  BY <1>9, <1>11
<1>13. SumFunctionOnSet(f, V) = f[y] + (f[x] + rest) /\ f[x] + SumFunctionOnSet(f, V \ {x}) = f[x] + (f[y] + rest)
  BY <1>5, <1>8, <1>11, <1>12
<1>14. f[y] + (f[x] + rest) = f[x] + (f[y] + rest)
  BY <1>4
<1> QED BY <1>2, <1>13, <1>14

LEMMA SumSame ==
  ASSUME NEW f, NEW g, NEW S, IsFiniteSet(S), \A x \in S : f[x] = g[x]
  PROVE  SumFunctionOnSet(f, S) = SumFunctionOnSet(g, S)
<1> SUFFICES ASSUME SumFunctionOnSet(f, S) # SumFunctionOnSet(g, S) PROVE FALSE
  OBVIOUS
<1> DEFINE Bad == {V \in SUBSET S : SumFunctionOnSet(f, V) # SumFunctionOnSet(g, V)}
<1>1. PICK V \in Bad : \A W \in Bad : W \subseteq V => W = V
  <2>1. Bad \subseteq SUBSET S /\ Bad # {}
    OBVIOUS
  <2> HIDE DEF Bad
  <2> QED BY <2>1, SmallestSet
<1>2. V # {} /\ IsFiniteSet(V)
  <2>1. ASSUME V = {} PROVE FALSE
    <3>1. SumFunctionOnSet(f, {}) = 0 /\ SumFunctionOnSet(g, {}) = 0
      BY SumOfNone
    <3> QED BY <2>1, <3>1
  <2>2. IsFiniteSet(V)
    BY FS_Subset
  <2> QED BY <2>1, <2>2
<1>3. Chosen(V) \in V /\ f[Chosen(V)] = g[Chosen(V)]
  BY <1>2, ChosenIn
<1>4. SumFunctionOnSet(f, V \ {Chosen(V)}) = SumFunctionOnSet(g, V \ {Chosen(V)})
  BY <1>1, <1>3
<1> QED BY <1>2, <1>3, <1>4, SumOfChosen

LEMMA SumOfSums ==
  ASSUME NEW f, NEW g, NEW h, NEW S, IsFiniteSet(S),
         \A x \in S : f[x] \in Int /\ g[x] \in Int /\ h[x] = f[x] + g[x]
  PROVE  SumFunctionOnSet(h, S) = SumFunctionOnSet(f, S) + SumFunctionOnSet(g, S)
<1> SUFFICES ASSUME SumFunctionOnSet(h, S) # SumFunctionOnSet(f, S) + SumFunctionOnSet(g, S) PROVE FALSE
  OBVIOUS
<1> DEFINE Bad == {V \in SUBSET S : SumFunctionOnSet(h, V) # SumFunctionOnSet(f, V) + SumFunctionOnSet(g, V)}
<1>1. PICK V \in Bad : \A W \in Bad : W \subseteq V => W = V
  <2>1. Bad \subseteq SUBSET S /\ Bad # {}
    OBVIOUS
  <2> HIDE DEF Bad
  <2> QED BY <2>1, SmallestSet
<1>2. V # {} /\ IsFiniteSet(V)
  <2>1. ASSUME V = {} PROVE FALSE
    <3>1. SumFunctionOnSet(f, {}) = 0 /\ SumFunctionOnSet(g, {}) = 0 /\ SumFunctionOnSet(h, {}) = 0
      BY SumOfNone
    <3> QED BY <2>1, <3>1
  <2>2. IsFiniteSet(V)
    BY FS_Subset
  <2> QED BY <2>1, <2>2
<1>3. PICK x \in V : x = Chosen(V)
  BY <1>2, ChosenIn
<1>4. SumFunctionOnSet(h, V \ {x}) = SumFunctionOnSet(f, V \ {x}) + SumFunctionOnSet(g, V \ {x})
  BY <1>1, <1>3
<1>5. SumFunctionOnSet(f, V \ {x}) \in Int /\ SumFunctionOnSet(g, V \ {x}) \in Int
  <2>1. IsFiniteSet(V \ {x})
    BY <1>2, FS_Subset
  <2> QED BY <2>1, SumInt
<1>6. /\ SumFunctionOnSet(h, V) = h[x] + SumFunctionOnSet(h, V \ {x})
      /\ SumFunctionOnSet(f, V) = f[x] + SumFunctionOnSet(f, V \ {x})
      /\ SumFunctionOnSet(g, V) = g[x] + SumFunctionOnSet(g, V \ {x})
  BY <1>2, <1>3, SumOfChosen
<1>7. f[x] \in Int /\ g[x] \in Int /\ h[x] = f[x] + g[x]
  OBVIOUS
<1> QED BY <1>4, <1>5, <1>6, <1>7

LEMMA SumWider ==
  ASSUME NEW f, NEW S, IsFiniteSet(S), NEW T, T \subseteq S, \A x \in S : f[x] \in Int,
         \A x \in S \ T : f[x] = 0
  PROVE  SumFunctionOnSet(f, T) = SumFunctionOnSet(f, S)
<1> SUFFICES ASSUME SumFunctionOnSet(f, T) # SumFunctionOnSet(f, S) PROVE FALSE
  OBVIOUS
<1> DEFINE Bad == {V \in SUBSET S : T \subseteq V /\ SumFunctionOnSet(f, V) # SumFunctionOnSet(f, T)}
<1>1. PICK V \in Bad : \A W \in Bad : W \subseteq V => W = V
  <2>1. Bad \subseteq SUBSET S /\ Bad # {}
    OBVIOUS
  <2> HIDE DEF Bad
  <2> QED BY <2>1, SmallestSet
<1>2. PICK x \in V : x \notin T
  OBVIOUS
<1>3. IsFiniteSet(V) /\ IsFiniteSet(V \ {x}) /\ f[x] = 0
  BY <1>2, FS_Subset
<1>4. SumFunctionOnSet(f, V \ {x}) = SumFunctionOnSet(f, T)
  BY <1>1, <1>2
<1>5. SumFunctionOnSet(f, V) = f[x] + SumFunctionOnSet(f, V \ {x}) /\ SumFunctionOnSet(f, V \ {x}) \in Int
  BY <1>3, SumWithout, SumInt
<1> QED BY <1>3, <1>4, <1>5

\* Renaming the summands.
LEMMA SumRenamed ==
  ASSUME NEW f, NEW g, NEW h, NEW S, IsFiniteSet(S), NEW T, IsFiniteSet(T),
         h \in [S -> T], \A x, y \in S : h[x] = h[y] => x = y, \A z \in T : \E x \in S : h[x] = z,
         \A x \in S : f[x] \in Int /\ g[h[x]] = f[x]
  PROVE  SumFunctionOnSet(g, T) = SumFunctionOnSet(f, S)
<1> DEFINE Image(V) == {h[x] : x \in V}
<1>1. Image(S) = T
  OBVIOUS
<1> SUFFICES ASSUME SumFunctionOnSet(g, Image(S)) # SumFunctionOnSet(f, S) PROVE FALSE
  BY <1>1
<1> DEFINE Bad == {V \in SUBSET S : SumFunctionOnSet(g, Image(V)) # SumFunctionOnSet(f, V)}
<1>2. PICK V \in Bad : \A W \in Bad : W \subseteq V => W = V
  <2>1. Bad \subseteq SUBSET S /\ Bad # {}
    OBVIOUS
  <2> HIDE DEF Bad
  <2> QED BY <2>1, SmallestSet
<1>3. V # {}
  <2>1. Image({}) = {}
    OBVIOUS
  <2> QED BY <2>1, SumOfNone
<1>4. PICK x \in V : x = Chosen(V)
  BY <1>3, ChosenIn
<1>5. IsFiniteSet(V) /\ IsFiniteSet(Image(V)) /\ Image(V) \subseteq T
  <2>1. Image(V) \subseteq T
    OBVIOUS
  <2> QED BY <2>1, FS_Subset
<1>6. h[x] \in Image(V) /\ Image(V \ {x}) = Image(V) \ {h[x]}
  OBVIOUS
<1>7. SumFunctionOnSet(g, Image(V \ {x})) = SumFunctionOnSet(f, V \ {x})
  BY <1>2
<1>8. \A z \in Image(V) : g[z] \in Int
  OBVIOUS
<1>9. /\ SumFunctionOnSet(f, V) = f[x] + SumFunctionOnSet(f, V \ {x})
      /\ SumFunctionOnSet(g, Image(V)) = g[h[x]] + SumFunctionOnSet(g, Image(V) \ {h[x]})
  <2>1. SumFunctionOnSet(f, V) = f[x] + SumFunctionOnSet(f, V \ {x})
    BY <1>3, <1>4, <1>5, SumOfChosen
  <2> HIDE DEF Image
  <2>2. SumFunctionOnSet(g, Image(V)) = g[h[x]] + SumFunctionOnSet(g, Image(V) \ {h[x]})
    BY <1>5, <1>6, <1>8, SumWithout
  <2> QED BY <2>1, <2>2
<1>10. g[h[x]] = f[x]
  OBVIOUS
<1> QED BY <1>6, <1>7, <1>9, <1>10

\* Two sums that differ in one summand.
At(f, S, a) == IF a \in S THEN f[a] ELSE 0

LEMMA SumApart ==
  ASSUME NEW f, NEW g, NEW S, IsFiniteSet(S), NEW T, NEW a, S \ {a} = T \ {a},
         \A x \in S : f[x] \in Int, \A x \in T : g[x] \in Int,
         \A x \in S \ {a} : g[x] = f[x]
  PROVE  /\ IsFiniteSet(T)
         /\ SumFunctionOnSet(f, S) \in Int /\ SumFunctionOnSet(g, T) \in Int
         /\ SumFunctionOnSet(g, T) = SumFunctionOnSet(f, S) + At(g, T, a) - At(f, S, a)
<1> DEFINE rest == S \ {a}
<1>1. IsFiniteSet(T)
  <2>1. T \subseteq S \cup {a}
    OBVIOUS
  <2> QED BY <2>1, FS_AddElement, FS_Subset
<1>2. IsFiniteSet(rest)
  BY FS_Subset
<1>3. SumFunctionOnSet(f, rest) \in Int
  BY <1>2, SumInt
<1>4. SumFunctionOnSet(g, rest) = SumFunctionOnSet(f, rest)
  BY <1>2, SumSame
<1>5. SumFunctionOnSet(f, S) = SumFunctionOnSet(f, rest) + At(f, S, a) /\ At(f, S, a) \in Int
  <2>1. CASE a \in S
    BY <2>1, <1>3, SumWithout DEF At
  <2>2. CASE a \notin S
    <3>1. rest = S /\ At(f, S, a) = 0
      BY <2>2 DEF At
    <3> HIDE DEF rest
    <3> QED BY <3>1, <1>3
  <2> QED BY <2>1, <2>2
<1>6. SumFunctionOnSet(g, T) = SumFunctionOnSet(g, rest) + At(g, T, a) /\ At(g, T, a) \in Int
  <2>1. rest = T \ {a}
    OBVIOUS
  <2> HIDE DEF rest
  <2>2. CASE a \in T
    BY <2>1, <2>2, <1>1, <1>3, <1>4, SumWithout DEF At
  <2>3. CASE a \notin T
    <3>1. rest = T
      BY <2>1, <2>3
    <3> QED BY <2>3, <3>1, <1>3, <1>4 DEF At
  <2> QED BY <2>2, <2>3
<1> HIDE DEF rest
<1> QED BY <1>1, <1>3, <1>4, <1>5, <1>6

LEMMA SumNat ==
  ASSUME NEW f, NEW S, IsFiniteSet(S), \A x \in S : f[x] \in Nat
  PROVE  SumFunctionOnSet(f, S) \in Nat
<1> SUFFICES ASSUME SumFunctionOnSet(f, S) \notin Nat PROVE FALSE
  OBVIOUS
<1> DEFINE Bad == {V \in SUBSET S : SumFunctionOnSet(f, V) \notin Nat}
<1>1. PICK V \in Bad : \A W \in Bad : W \subseteq V => W = V
  <2>1. Bad \subseteq SUBSET S /\ Bad # {}
    OBVIOUS
  <2> HIDE DEF Bad
  <2> QED BY <2>1, SmallestSet
<1>2. V # {}
  <2>1. ASSUME V = {} PROVE FALSE
    BY <2>1, SumOfNone
  <2> QED BY <2>1
<1>3. IsFiniteSet(V)
  BY FS_Subset
<1>4. Chosen(V) \in V /\ f[Chosen(V)] \in Nat
  BY <1>2, ChosenIn
<1>5. SumFunctionOnSet(f, V \ {Chosen(V)}) \in Nat
  BY <1>1, <1>4
<1> QED BY <1>2, <1>3, <1>4, <1>5, SumOfChosen

LEMMA SumAtLeast ==
  ASSUME NEW f, NEW S, IsFiniteSet(S), \A x \in S : f[x] \in Nat, NEW a \in S
  PROVE  SumFunctionOnSet(f, S) \in Nat /\ f[a] <= SumFunctionOnSet(f, S)
<1>1. IsFiniteSet(S \ {a})
  BY FS_Subset
<1>2. SumFunctionOnSet(f, S \ {a}) \in Nat
  BY <1>1, SumNat
<1>3. SumFunctionOnSet(f, S) = f[a] + SumFunctionOnSet(f, S \ {a}) /\ f[a] \in Nat
  BY SumWithout
<1> QED BY <1>2, <1>3

LEMMA SumOfZeros ==
  ASSUME NEW f, NEW S, IsFiniteSet(S), \A x \in S : f[x] = 0
  PROVE  SumFunctionOnSet(f, S) = 0
<1>1. SumFunctionOnSet(f, {}) = SumFunctionOnSet(f, S)
  BY SumWider
<1> QED BY <1>1, SumOfNone

\* A sum over two parts of a set.
LEMMA SumOfParts ==
  ASSUME NEW f, NEW S, IsFiniteSet(S), NEW T, T \subseteq S, \A x \in S : f[x] \in Int
  PROVE  /\ SumFunctionOnSet(f, T) \in Int /\ SumFunctionOnSet(f, S \ T) \in Int
         /\ SumFunctionOnSet(f, S) = SumFunctionOnSet(f, T) + SumFunctionOnSet(f, S \ T)
<1> DEFINE in == [x \in S |-> IF x \in T THEN f[x] ELSE 0]
           out == [x \in S |-> IF x \in T THEN 0 ELSE f[x]]
<1>1. /\ \A x \in S : in[x] \in Int /\ out[x] \in Int /\ f[x] = in[x] + out[x]
      /\ \A x \in T : in[x] = f[x]
      /\ \A x \in S \ T : out[x] = f[x] /\ in[x] = 0
      /\ \A x \in S \ (S \ T) : out[x] = 0
  OBVIOUS
<1> HIDE DEF in, out
<1>2. SumFunctionOnSet(f, S) = SumFunctionOnSet(in, S) + SumFunctionOnSet(out, S)
  BY <1>1, SumOfSums
<1>3. IsFiniteSet(T) /\ IsFiniteSet(S \ T)
  BY FS_Subset
<1>4. SumFunctionOnSet(in, T) = SumFunctionOnSet(in, S) /\ SumFunctionOnSet(f, T) = SumFunctionOnSet(in, T)
  BY <1>1, <1>3, SumWider, SumSame
<1>5. SumFunctionOnSet(out, S \ T) = SumFunctionOnSet(out, S)
  <2>1. S \ T \subseteq S
    OBVIOUS
  <2> QED BY <1>1, <2>1, SumWider
<1>6. SumFunctionOnSet(out, S \ T) = SumFunctionOnSet(f, S \ T)
  BY <1>1, <1>3, SumSame
<1>7. SumFunctionOnSet(f, T) \in Int /\ SumFunctionOnSet(f, S \ T) \in Int
  BY <1>3, SumInt
<1> QED BY <1>2, <1>4, <1>5, <1>6, <1>7

-----------------------------------------------------------------------------
(***************************************************************************)
(* Numbers, and folds over the numbers of a sequence.                      *)
(***************************************************************************)

LEMMA LeastNumber ==
  ASSUME NEW T, T \subseteq Nat, T # {}
  PROVE  \E m \in T : \A k \in T : m <= k
<1>1. PICK m \in T : \A k \in T : ~ (<<k, m>> \in OpToRel(<, Nat))
  BY NatLessThanWellFounded, WFMin
<1>2. ASSUME NEW k \in T PROVE m <= k
  <2>1. m \in Nat /\ k \in Nat
    OBVIOUS
  <2>2. ~ (k < m)
    BY <1>1, <2>1 DEF OpToRel
  <2> QED BY <2>1, <2>2
<1> QED BY <1>2

\* Induction up to n, with the numbers of which something holds as a set.
LEMMA UpTo ==
  ASSUME NEW n \in Nat, NEW I, 0 \in I, \A i \in 0..(n - 1) : i \in I => i + 1 \in I
  PROVE  \A i \in 0..n : i \in I
<1> DEFINE Bad == {i \in 0..n : i \notin I}
<1> SUFFICES ASSUME Bad # {} PROVE FALSE
  OBVIOUS
<1>1. PICK m \in Bad : \A k \in Bad : m <= k
  <2>1. Bad \subseteq Nat
    OBVIOUS
  <2> HIDE DEF Bad
  <2> QED BY <2>1, LeastNumber
<1>2. m \in 1..n
  OBVIOUS
<1>3. m - 1 \in 0..(n - 1) /\ m - 1 \notin Bad
  BY <1>1, <1>2
<1>4. m - 1 \in I
  BY <1>3
<1>5. (m - 1) + 1 \in I
  BY <1>3, <1>4
<1> QED BY <1>2, <1>5

LEMMA MaxIn ==
  ASSUME NEW n \in Nat, NEW s, s \subseteq 1..n, s # {}
  PROVE  Max(s) \in s /\ \A y \in s : y <= Max(s)
<1> DEFINE T == {n - i : i \in s}
<1>1. PICK m \in T : \A k \in T : m <= k
  <2>1. \A i \in s : n - i \in Nat
    OBVIOUS
  <2>2. T \subseteq Nat /\ T # {}
    BY <2>1
  <2> HIDE DEF T
  <2> QED BY <2>2, LeastNumber
<1>2. PICK x \in s : m = n - x
  BY <1>1
<1>3. \A y \in s : x >= y
  <2> TAKE y \in s
  <2>1. n - x <= n - y
    BY <1>1, <1>2
  <2> QED BY <2>1
<1>4. Max(s) \in s /\ \A y \in s : Max(s) >= y
  BY <1>3 DEF Max
<1> QED BY <1>4

LEMMA MaxOfPrefix ==
  ASSUME NEW n \in Nat, NEW i \in 1..n
  PROVE  /\ 1..i \in SUBSET (1..n) /\ 1..i # {}
         /\ Max(1..i) = i
         /\ (1..i) \ {i} = 1..(i - 1)
<1>1. 1..i \subseteq 1..n /\ 1..i # {} /\ i \in 1..i
  OBVIOUS
<1>2. Max(1..i) \in 1..i /\ i <= Max(1..i)
  BY <1>1, MaxIn
<1> QED BY <1>1, <1>2

\* What F makes of base, going through a set, where last names the element of a
\* set that comes last.
IsFold(g, F, base, last, S) ==
  g = [s \in SUBSET S |-> IF s = {} THEN base ELSE F[<<g[s \ {last[s]}], last[s]>>]]

\* A fold over a part is part of a fold.
LEMMA FoldsAgree ==
  ASSUME NEW F, NEW base, NEW A, IsFiniteSet(A), NEW B, NEW last,
         \A s \in SUBSET A : s # {} => last[s] \in s,
         NEW g, NEW h, IsFold(g, F, base, last, A), IsFold(h, F, base, last, B),
         NEW U, U \subseteq A, U \subseteq B
  PROVE  g[U] = h[U]
<1> SUFFICES ASSUME g[U] # h[U] PROVE FALSE
  OBVIOUS
<1> DEFINE Bad == {V \in SUBSET A : V \subseteq B /\ g[V] # h[V]}
<1>1. PICK V \in Bad : \A W \in Bad : W \subseteq V => W = V
  <2>1. Bad \subseteq SUBSET A /\ Bad # {}
    OBVIOUS
  <2> HIDE DEF Bad
  <2> QED BY <2>1, SmallestSet
<1>2. /\ g[V] = IF V = {} THEN base ELSE F[<<g[V \ {last[V]}], last[V]>>]
      /\ h[V] = IF V = {} THEN base ELSE F[<<h[V \ {last[V]}], last[V]>>]
  BY DEF IsFold
<1>3. V # {}
  BY <1>2
<1>4. last[V] \in V
  BY <1>3
<1>5. V \ {last[V]} \notin Bad
  BY <1>1, <1>4
<1>6. g[V \ {last[V]}] = h[V \ {last[V]}]
  BY <1>5
<1> QED BY <1>2, <1>3, <1>6

LEMMA FoldExists ==
  ASSUME NEW F, NEW base, NEW S, IsFiniteSet(S), NEW last,
         \A s \in SUBSET S : s # {} => last[s] \in s
  PROVE  \E g : IsFold(g, F, base, last, S)
<1> SUFFICES ASSUME ~\E g : IsFold(g, F, base, last, S) PROVE FALSE
  OBVIOUS
<1> DEFINE Bad == {V \in SUBSET S : ~\E g : IsFold(g, F, base, last, V)}
<1>1. PICK V \in Bad : \A W \in Bad : W \subseteq V => W = V
  <2>1. Bad \subseteq SUBSET S /\ Bad # {}
    OBVIOUS
  <2> HIDE DEF Bad
  <2> QED BY <2>1, SmallestSet
<1> DEFINE Of(W) == CHOOSE k : IsFold(k, F, base, last, W)
           Rest(s) == s \ {last[s]}
           whole == [s \in SUBSET V |-> IF s = {} THEN base ELSE F[<<Of(Rest(s))[Rest(s)], last[s]>>]]
<1>2. ASSUME NEW W, W \subseteq V, W # V PROVE IsFold(Of(W), F, base, last, W) /\ IsFiniteSet(W)
  <2>1. W \notin Bad
    BY <1>1, <1>2
  <2>2. \E g : IsFold(g, F, base, last, W)
    BY <1>2, <2>1
  <2>3. IsFiniteSet(W)
    BY <1>2, FS_Subset
  <2> QED BY <2>2, <2>3
<1>3. ASSUME NEW s \in SUBSET V
      PROVE  whole[s] = IF s = {} THEN base ELSE F[<<whole[Rest(s)], last[s]>>]
  <2>1. CASE s = {}
    BY <2>1
  <2>2. CASE s # {}
    <3> DEFINE r == Rest(s)
    <3>1. r \in SUBSET V /\ r # V
      BY <2>2
    <3>2. whole[s] = F[<<Of(r)[r], last[s]>>]
      BY <2>2
    <3>3. whole[r] = Of(r)[r]
      <4>1. IsFold(Of(r), F, base, last, r) /\ IsFiniteSet(r)
        BY <1>2, <3>1
      <4>2. Of(r)[r] = IF r = {} THEN base ELSE F[<<Of(r)[Rest(r)], last[r]>>]
        <5> HIDE DEF Of, r
        <5> QED BY <4>1 DEF IsFold
      <4>3. CASE r = {}
        BY <3>1, <4>2, <4>3
      <4>4. CASE r # {}
        <5> DEFINE q == Rest(r)
        <5>1. q \in SUBSET r /\ q \in SUBSET V /\ q # V
          BY <3>1, <4>4
        <5>2. IsFold(Of(q), F, base, last, q)
          BY <1>2, <5>1
        <5>3. Of(r)[q] = Of(q)[q]
          <6>1. q \subseteq r
            BY <5>1
          <6>2. \A x \in SUBSET r : x # {} => last[x] \in x
            BY <3>1
          <6> HIDE DEF Of, r, q
          <6> QED BY <4>1, <5>2, <6>1, <6>2, FoldsAgree
        <5>4. whole[r] = F[<<Of(q)[q], last[r]>>]
          BY <3>1, <4>4
        <5> QED BY <4>2, <4>4, <5>3, <5>4
      <4> QED BY <4>3, <4>4
    <3> HIDE DEF whole, Of
    <3> QED BY <2>2, <3>2, <3>3
  <2> QED BY <2>1, <2>2
<1>4. IsFold(whole, F, base, last, V)
  <2>1. whole = [s \in SUBSET V |-> whole[s]]
    BY DEF whole
  <2> HIDE DEF whole
  <2> QED BY <1>3, <2>1 DEF IsFold
<1> QED BY <1>1, <1>4

\* A fold of a function from T and S to T stays in T.
LEMMA FoldIn ==
  ASSUME NEW T, NEW base \in T, NEW S, IsFiniteSet(S), NEW F \in [T \X S -> T], NEW last,
         \A s \in SUBSET S : s # {} => last[s] \in s
  PROVE  \E g \in [SUBSET S -> T] : IsFold(g, F, base, last, S)
<1>1. PICK g : IsFold(g, F, base, last, S)
  BY FoldExists
<1> DEFINE Bad == {V \in SUBSET S : g[V] \notin T}
<1>2. Bad = {}
  <2> SUFFICES ASSUME Bad # {} PROVE FALSE
    OBVIOUS
  <2>1. PICK V \in Bad : \A W \in Bad : W \subseteq V => W = V
    <3>1. Bad \subseteq SUBSET S
      OBVIOUS
    <3> HIDE DEF Bad
    <3> QED BY <3>1, SmallestSet
  <2>2. g[V] = IF V = {} THEN base ELSE F[<<g[V \ {last[V]}], last[V]>>]
    BY <1>1 DEF IsFold
  <2>3. V # {}
    BY <2>2
  <2>4. last[V] \in V
    BY <2>3
  <2>5. V \ {last[V]} \notin Bad
    BY <2>1, <2>4
  <2>6. g[V \ {last[V]}] \in T
    BY <2>5
  <2>7. F[<<g[V \ {last[V]}], last[V]>>] \in T
    BY <2>4, <2>6
  <2> QED BY <2>2, <2>3, <2>7
<1>3. \A s \in SUBSET S : g[s] \in T
  BY <1>2
<1>4. g = [s \in SUBSET S |-> g[s]]
  BY <1>1 DEF IsFold
<1> QED BY <1>1, <1>3, <1>4

\* A fold over the numbers up to n, in their order.
IsFoldInOrder(g, F, base, n) ==
  \A s \in SUBSET (1..n) : g[s] = IF s = {} THEN base ELSE F[<<g[s \ {Max(s)}], Max(s)>>]

LEMMA FoldInOrder ==
  ASSUME NEW T, NEW base \in T, NEW n \in Nat, NEW F \in [T \X (1..n) -> T]
  PROVE  \E g \in [SUBSET (1..n) -> T] : IsFoldInOrder(g, F, base, n)
<1> DEFINE S == 1..n
           last == [s \in SUBSET S |-> Max(s)]
<1>1. IsFiniteSet(S)
  BY FS_Interval
<1>2. \A s \in SUBSET S : s # {} => last[s] \in s
  BY MaxIn
<1>3. F \in [T \X S -> T]
  OBVIOUS
<1>4. \E g \in [SUBSET S -> T] : IsFold(g, F, base, last, S)
  <2> HIDE DEF S, last
  <2> QED BY <1>1, <1>2, <1>3, FoldIn
<1> QED BY <1>4 DEF IsFold, IsFoldInOrder

-----------------------------------------------------------------------------
(***************************************************************************)
(* What a fold of any operator over a sequence keeps.  The operator is a   *)
(* constant, so that the lemma can be had for each operator that is folded *)
(* by an INSTANCE of this module; a is what else the operator depends on.  *)
(***************************************************************************)
FoldedBy(a, base, s, g, S) ==
  g = [T \in SUBSET S |-> IF T = {} THEN base ELSE Folded(a, g[T \ {Max(T)}], s[Max(T)])]

Fold(a, base, s) == (CHOOSE g : FoldedBy(a, base, s, g, DOMAIN s))[DOMAIN s]

LEMMA OrdersAgree ==
  ASSUME NEW a, NEW base, NEW s, NEW A, IsFiniteSet(A), NEW B, NEW g, NEW h,
         \A T \in SUBSET A : T # {} => Max(T) \in T,
         FoldedBy(a, base, s, g, A), FoldedBy(a, base, s, h, B),
         NEW U, U \subseteq A, U \subseteq B
  PROVE  g[U] = h[U]
<1> SUFFICES ASSUME g[U] # h[U] PROVE FALSE
  OBVIOUS
<1> DEFINE Bad == {V \in SUBSET A : V \subseteq B /\ g[V] # h[V]}
<1>1. PICK V \in Bad : \A W \in Bad : W \subseteq V => W = V
  <2>1. Bad \subseteq SUBSET A /\ Bad # {}
    OBVIOUS
  <2> HIDE DEF Bad
  <2> QED BY <2>1, SmallestSet
<1>2. /\ g[V] = IF V = {} THEN base ELSE Folded(a, g[V \ {Max(V)}], s[Max(V)])
      /\ h[V] = IF V = {} THEN base ELSE Folded(a, h[V \ {Max(V)}], s[Max(V)])
  BY DEF FoldedBy
<1>3. V # {}
  BY <1>2
<1>4. Max(V) \in V
  BY <1>3
<1>5. V \ {Max(V)} \notin Bad
  BY <1>1, <1>4
<1>6. g[V \ {Max(V)}] = h[V \ {Max(V)}]
  BY <1>5
<1> QED BY <1>2, <1>3, <1>6

LEMMA OrderExists ==
  ASSUME NEW a, NEW base, NEW s, NEW S, IsFiniteSet(S),
         \A T \in SUBSET S : T # {} => Max(T) \in T
  PROVE  \E g : FoldedBy(a, base, s, g, S)
<1> SUFFICES ASSUME ~\E g : FoldedBy(a, base, s, g, S) PROVE FALSE
  OBVIOUS
<1> DEFINE Bad == {V \in SUBSET S : ~\E g : FoldedBy(a, base, s, g, V)}
<1>1. PICK V \in Bad : \A W \in Bad : W \subseteq V => W = V
  <2>1. Bad \subseteq SUBSET S /\ Bad # {}
    OBVIOUS
  <2> HIDE DEF Bad
  <2> QED BY <2>1, SmallestSet
<1> DEFINE Of(W) == CHOOSE k : FoldedBy(a, base, s, k, W)
           Rest(T) == T \ {Max(T)}
           whole == [T \in SUBSET V |->
                       IF T = {} THEN base ELSE Folded(a, Of(Rest(T))[Rest(T)], s[Max(T)])]
<1>2. ASSUME NEW W, W \subseteq V, W # V PROVE FoldedBy(a, base, s, Of(W), W) /\ W \subseteq S /\ IsFiniteSet(W)
  <2>1. W \notin Bad
    BY <1>1, <1>2
  <2>2. \E g : FoldedBy(a, base, s, g, W)
    BY <1>2, <2>1
  <2>3. IsFiniteSet(W)
    BY <1>2, FS_Subset
  <2> QED BY <1>2, <2>2, <2>3
<1>3. ASSUME NEW T \in SUBSET V, T # {}
      PROVE  Max(T) \in T /\ Rest(T) \in SUBSET V /\ Rest(T) # V
  <2>1. Max(T) \in T
    BY <1>3
  <2> QED BY <2>1
<1>4. ASSUME NEW T \in SUBSET V
      PROVE  whole[T] = IF T = {} THEN base ELSE Folded(a, whole[Rest(T)], s[Max(T)])
  <2>1. CASE T = {}
    BY <2>1
  <2>2. CASE T # {}
    <3> DEFINE r == Rest(T)
    <3>1. r \in SUBSET V /\ r # V
      BY <1>3, <2>2
    <3>2. whole[T] = Folded(a, Of(r)[r], s[Max(T)])
      BY <2>2
    <3>3. whole[r] = Of(r)[r]
      <4>1. FoldedBy(a, base, s, Of(r), r) /\ r \subseteq S /\ IsFiniteSet(r)
        BY <1>2, <3>1
      <4>2. Of(r)[r] = IF r = {} THEN base ELSE Folded(a, Of(r)[Rest(r)], s[Max(r)])
        <5> HIDE DEF Of, r
        <5> QED BY <4>1 DEF FoldedBy
      <4>3. CASE r = {}
        BY <3>1, <4>2, <4>3
      <4>4. CASE r # {}
        <5> DEFINE q == Rest(r)
        <5>1. q \in SUBSET V /\ q # V /\ q \subseteq r
          BY <1>3, <3>1, <4>4
        <5>2. FoldedBy(a, base, s, Of(q), q)
          BY <1>2, <5>1
        <5>3. Of(r)[q] = Of(q)[q]
          <6>1. \A U \in SUBSET r : U # {} => Max(U) \in U
            BY <4>1
          <6> HIDE DEF Of, r, q
          <6> QED BY <4>1, <5>1, <5>2, <6>1, OrdersAgree
        <5>4. whole[r] = Folded(a, Of(q)[q], s[Max(r)])
          BY <3>1, <4>4
        <5> QED BY <4>2, <4>4, <5>3, <5>4
      <4> QED BY <4>3, <4>4
    <3> HIDE DEF whole, Of
    <3> QED BY <2>2, <3>2, <3>3
  <2> QED BY <2>1, <2>2
<1>5. FoldedBy(a, base, s, whole, V)
  <2>1. whole = [T \in SUBSET V |-> whole[T]]
    BY DEF whole
  <2> HIDE DEF whole
  <2> QED BY <1>4, <2>1 DEF FoldedBy
<1> QED BY <1>1, <1>5

LEMMA FoldKeeps ==
  ASSUME NEW a, NEW base, NEW n \in Nat, NEW s, DOMAIN s = 1..n, NEW I, <<0, base>> \in I,
         \A i \in 1..n : \A x : <<i - 1, x>> \in I => <<i, Folded(a, x, s[i])>> \in I
  PROVE  <<n, Fold(a, base, s)>> \in I
<1> DEFINE k == CHOOSE g : FoldedBy(a, base, s, g, 1..n)
           J == {i \in 0..n : <<i, k[1..i]>> \in I}
<1>1. FoldedBy(a, base, s, k, 1..n)
  <2>1. IsFiniteSet(1..n)
    BY FS_Interval
  <2>2. \A T \in SUBSET (1..n) : T # {} => Max(T) \in T
    BY MaxIn
  <2>3. \E g : FoldedBy(a, base, s, g, 1..n)
    <3> DEFINE S == 1..n
    <3>1. IsFiniteSet(S) /\ \A T \in SUBSET S : T # {} => Max(T) \in T
      BY <2>1, <2>2
    <3>2. \E g : FoldedBy(a, base, s, g, S)
      <4> HIDE DEF S
      <4> QED BY <3>1, OrderExists
    <3> QED BY <3>2
  <2> QED BY <2>3
<1> HIDE DEF k
<1>2. \A T \in SUBSET (1..n) : k[T] = IF T = {} THEN base ELSE Folded(a, k[T \ {Max(T)}], s[Max(T)])
  BY <1>1 DEF FoldedBy
<1>3. 0 \in J
  <2>1. 1..0 = {} /\ {} \in SUBSET (1..n)
    OBVIOUS
  <2>2. k[1..0] = base
    BY <1>2, <2>1
  <2>3. 0 \in 0..n
    OBVIOUS
  <2> QED BY <2>2, <2>3
<1>4. ASSUME NEW i \in 0..(n - 1), i \in J PROVE i + 1 \in J
  <2>1. i + 1 \in 1..n /\ (i + 1) - 1 = i
    OBVIOUS
  <2>2. /\ 1..(i + 1) \in SUBSET (1..n) /\ 1..(i + 1) # {}
        /\ Max(1..(i + 1)) = i + 1 /\ (1..(i + 1)) \ {i + 1} = 1..i
    BY <2>1, MaxOfPrefix
  <2>3. k[1..(i + 1)] = Folded(a, k[1..i], s[i + 1])
    BY <1>2, <2>2
  <2>4. <<i + 1, Folded(a, k[1..i], s[i + 1])>> \in I
    BY <1>4, <2>1
  <2> QED BY <2>1, <2>3, <2>4
<1>5. n \in J
  <2>1. \A i \in 0..n : i \in J
    <3> HIDE DEF J
    <3> QED BY <1>3, <1>4, UpTo
  <2> QED BY <2>1
<1>6. Fold(a, base, s) = k[1..n]
  <2>1. Fold(a, base, s) = (CHOOSE g : FoldedBy(a, base, s, g, 1..n))[1..n]
    BY DEF Fold
  <2> QED BY <2>1 DEF k
<1> QED BY <1>5, <1>6

\* The fold of each beginning of the sequence is a function defined by recursion.
Steps(a, base, n, s, k) ==
  k = [i \in 0..n |-> IF i = 0 THEN base ELSE Folded(a, k[i - 1], s[i])]

LEMMA StepsExist ==
  ASSUME NEW a, NEW base, NEW n \in Nat, NEW s
  PROVE  \E k : Steps(a, base, n, s, k)
<1> DEFINE N == 1..n
<1>1. IsFiniteSet(N) /\ \A T \in SUBSET N : T # {} => Max(T) \in T
  <2>1. IsFiniteSet(N)
    BY FS_Interval
  <2>2. \A T \in SUBSET N : T # {} => Max(T) \in T
    BY MaxIn
  <2> QED BY <2>1, <2>2
<1>2. PICK g : FoldedBy(a, base, s, g, N)
  <2> HIDE DEF N
  <2> QED BY <1>1, OrderExists
<1>3. \A T \in SUBSET N : g[T] = IF T = {} THEN base ELSE Folded(a, g[T \ {Max(T)}], s[Max(T)])
  <2> HIDE DEF N
  <2> QED BY <1>2 DEF FoldedBy
<1> DEFINE k == [i \in 0..n |-> g[1..i]]
<1>4. ASSUME NEW i \in 0..n
      PROVE  k[i] = IF i = 0 THEN base ELSE Folded(a, k[i - 1], s[i])
  <2>1. CASE i = 0
    <3>1. 1..0 = {} /\ {} \in SUBSET N
      OBVIOUS
    <3> QED BY <1>3, <2>1, <3>1
  <2>2. CASE i # 0
    <3>1. i \in 1..n /\ i - 1 \in 0..n
      BY <2>2
    <3>2. /\ 1..i \in SUBSET N /\ 1..i # {} /\ Max(1..i) = i
          /\ (1..i) \ {i} = 1..(i - 1)
      BY <3>1, MaxOfPrefix
    <3>3. g[1..i] = Folded(a, g[1..(i - 1)], s[i])
      BY <1>3, <3>2
    <3> QED BY <2>2, <3>1, <3>3
  <2> QED BY <2>1, <2>2
<1>5. k = [i \in 0..n |-> k[i]]
  OBVIOUS
<1>6. Steps(a, base, n, s, k)
  <2> HIDE DEF k
  <2> QED BY <1>4, <1>5 DEF Steps
<1> QED BY <1>6
=============================================================================
