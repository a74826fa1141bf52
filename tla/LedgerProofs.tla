---------------------------- MODULE LedgerProofs ----------------------------
(***************************************************************************)
(* What adds up, for every instance: the units and the money in the        *)
(* accounts, the orders in the printed ladders, and what a trader reads.   *)
(***************************************************************************)
EXTENDS OrderLedger, OrderBookProofs, FiniteSetTheorems

(* Sums.  SumFunctionOnSet adds in an order of its own; the lemmas say that *)
(* the order does not matter.  Each of them looks at a smallest subset for  *)
(* which it would fail, and refutes it.                                     *)

\* Of some subsets of a finite set, one has none of the others in it.
LEMMA SmallestSet ==
  ASSUME NEW S, IsFiniteSet(S), NEW T \in SUBSET SUBSET S, T # {}
  PROVE  \E U \in T : \A V \in T : V \subseteq U => V = U
<1>1. FiniteSubsetsOf(S) = SUBSET S
  BY FS_FiniteSubsetsOfFinite
<1>2. IsWellFoundedOn(StrictSubsetOrdering(S), SUBSET S)
  BY <1>1, FS_StrictSubsetOrderingWellFounded
<1>3. PICK U \in T : \A V \in T : ~ (<<V, U>> \in StrictSubsetOrdering(S))
  BY <1>2, WFMin, Zenon
<1>4. ASSUME NEW V \in T, V \subseteq U, V # U PROVE FALSE
  <2>1. <<V, U>> \in StrictSubsetOrdering(S)
    BY <1>4 DEF StrictSubsetOrdering
  <2> QED
    BY <1>3, <2>1
<1> QED
  BY <1>4
-----------------------------------------------------------------------------
(* The order in which the definition adds *)

First(s) == CHOOSE x \in s : TRUE
Others(s) == s \ {First(s)}

LEMMA FirstOne ==
  ASSUME NEW s, s # {}
  PROVE  First(s) \in s /\ Others(s) \subseteq s /\ Others(s) # s
BY DEF First, Others

\* What the definition takes the sum from.
Adds(g, f, S) ==
  g = [s \in SUBSET S |-> IF s = {} THEN 0 ELSE f[First(s)] + g[Others(s)]]

LEMMA SumIsChosen ==
  ASSUME NEW f, NEW S
  PROVE  SumFunctionOnSet(f, S) = (CHOOSE g : Adds(g, f, S))[S]
BY DEF SumFunctionOnSet, FoldFunctionOnSet, MapThenFoldSet, Adds, First, Others

LEMMA AddsUnique ==
  ASSUME NEW f, NEW S, IsFiniteSet(S), NEW g, NEW h, Adds(g, f, S), Adds(h, f, S)
  PROVE  g = h
<1> DEFINE T == {s \in SUBSET S : g[s] # h[s]}
<1>1. ASSUME T # {} PROVE FALSE
  <2>1. PICK U \in T : \A V \in T : V \subseteq U => V = U
    <3>1. T \in SUBSET SUBSET S
      OBVIOUS
    <3> HIDE DEF T
    <3> QED
      BY <1>1, <3>1, SmallestSet
  <2>2. U # {}
    <3>1. g[{}] = 0 /\ h[{}] = 0
      BY DEF Adds
    <3> QED
      BY <3>1
  <2>3. Others(U) \in SUBSET S /\ Others(U) \notin T
    BY <2>1, <2>2, FirstOne
  <2>4. g[U] = f[First(U)] + g[Others(U)] /\ h[U] = f[First(U)] + h[Others(U)]
    BY <2>1, <2>2 DEF Adds
  <2> QED
    BY <2>1, <2>3, <2>4
<1>2. \A s \in SUBSET S : g[s] = h[s]
  BY <1>1
<1>3. g = [s \in SUBSET S |-> g[s]] /\ h = [s \in SUBSET S |-> h[s]]
  BY DEF Adds
<1> QED
  BY <1>2, <1>3

LEMMA AddsBelow ==
  ASSUME NEW f, NEW S, NEW g, Adds(g, f, S), NEW U \in SUBSET S
  PROVE  Adds([s \in SUBSET U |-> g[s]], f, U)
<1> DEFINE h == [s \in SUBSET U |-> g[s]]
<1>1. ASSUME NEW s \in SUBSET U
      PROVE  h[s] = IF s = {} THEN 0 ELSE f[First(s)] + h[Others(s)]
  <2>1. s \in SUBSET S /\ h[s] = g[s]
    OBVIOUS
  <2>2. CASE s = {}
    BY <2>1, <2>2 DEF Adds
  <2>3. CASE s # {}
    <3>1. Others(s) \in SUBSET U
      BY <2>3, FirstOne
    <3>2. g[s] = f[First(s)] + g[Others(s)]
      BY <2>1, <2>3 DEF Adds
    <3> QED
      BY <2>1, <2>3, <3>1, <3>2
  <2> QED
    BY <2>2, <2>3
<1>2. h = [s \in SUBSET U |-> IF s = {} THEN 0 ELSE f[First(s)] + h[Others(s)]]
  BY <1>1
<1> HIDE DEF h
<1>3. Adds(h, f, U)
  BY <1>2 DEF Adds
<1> QED
  BY <1>3 DEF h

\* If there is something to take the sum of S from, the sums of its subsets
\* can be taken from it too.
LEMMA SumFromAdds ==
  ASSUME NEW f, NEW S, IsFiniteSet(S), NEW g, Adds(g, f, S), NEW U \in SUBSET S
  PROVE  SumFunctionOnSet(f, U) = g[U]
<1> DEFINE h == [s \in SUBSET U |-> g[s]]
           k == CHOOSE e : Adds(e, f, U)
<1>1. Adds(h, f, U) /\ h[U] = g[U]
  BY AddsBelow
<1>2. IsFiniteSet(U)
  BY FS_Subset
<1> HIDE DEF h
<1>3. Adds(k, f, U)
  BY <1>1
<1>4. k = h
  BY <1>1, <1>2, <1>3, AddsUnique
<1> QED
  BY <1>1, <1>4, SumIsChosen

LEMMA AddsExists ==
  ASSUME NEW f, NEW S, IsFiniteSet(S)
  PROVE  \E g : Adds(g, f, S)
<1> DEFINE T == {s \in SUBSET S : ~ \E g : Adds(g, f, s)}
<1>1. ASSUME T # {} PROVE FALSE
  <2>1. PICK U \in T : \A V \in T : V \subseteq U => V = U
    <3>1. T \in SUBSET SUBSET S
      OBVIOUS
    <3> HIDE DEF T
    <3> QED
      BY <1>1, <3>1, SmallestSet
  <2>2. IsFiniteSet(U) /\ U \in SUBSET S
    BY <2>1, FS_Subset
  <2> DEFINE sum(s) == SumFunctionOnSet(f, s)
             g == [s \in SUBSET U |-> IF s = {} THEN 0 ELSE f[First(s)] + sum(Others(s))]
  <2>3. ASSUME NEW V \in SUBSET U, V # U
        PROVE  sum(V) = IF V = {} THEN 0 ELSE f[First(V)] + sum(Others(V))
    <3>1. PICK e : Adds(e, f, V)
      BY <2>1, <2>2, <2>3
    <3>2. IsFiniteSet(V)
      BY <2>2, FS_Subset
    <3>3. sum(V) = e[V] /\ (V # {} => sum(Others(V)) = e[Others(V)])
      BY <3>1, <3>2, FirstOne, SumFromAdds
    <3> HIDE DEF sum
    <3> QED
      BY <3>1, <3>3 DEF Adds
  <2>4. ASSUME NEW s \in SUBSET U, s # {} PROVE g[Others(s)] = sum(Others(s))
    <3>1. Others(s) \in SUBSET U /\ Others(s) # U
      BY <2>4, FirstOne
    <3> HIDE DEF sum
    <3> QED
      BY <2>3, <3>1
  <2> HIDE DEF sum
  <2>5. g = [s \in SUBSET U |-> IF s = {} THEN 0 ELSE f[First(s)] + g[Others(s)]]
    BY <2>4
  <2>6. Adds(g, f, U)
    BY <2>5 DEF Adds
  <2> QED
    BY <2>1, <2>6
<1> QED
  BY <1>1

\* The sum by the definition, one after the other.
LEMMA SumInOrder ==
  ASSUME NEW f, NEW S, IsFiniteSet(S)
  PROVE  SumFunctionOnSet(f, S) =
           IF S = {} THEN 0 ELSE f[First(S)] + SumFunctionOnSet(f, Others(S))
<1>1. PICK g : Adds(g, f, S)
  BY AddsExists
<1>2. SumFunctionOnSet(f, S) = g[S] /\ (S # {} => SumFunctionOnSet(f, Others(S)) = g[Others(S)])
  BY <1>1, FirstOne, SumFromAdds
<1> QED
  BY <1>1, <1>2 DEF Adds
-----------------------------------------------------------------------------
(* What is used of sums *)

LEMMA SumOfNone ==
  ASSUME NEW f
  PROVE  SumFunctionOnSet(f, {}) = 0
BY SumInOrder, FS_EmptySet

LEMMA SumType ==
  ASSUME NEW f, NEW S, IsFiniteSet(S), \A x \in S : f[x] \in Int
  PROVE  SumFunctionOnSet(f, S) \in Int
<1> DEFINE T == {s \in SUBSET S : SumFunctionOnSet(f, s) \notin Int}
<1>1. ASSUME T # {} PROVE FALSE
  <2>1. PICK U \in T : \A V \in T : V \subseteq U => V = U
    <3>1. T \in SUBSET SUBSET S
      OBVIOUS
    <3> HIDE DEF T
    <3> QED
      BY <1>1, <3>1, SmallestSet
  <2>2. IsFiniteSet(U) /\ U \in SUBSET S /\ SumFunctionOnSet(f, U) \notin Int
    BY <2>1, FS_Subset
  <2>3. SumFunctionOnSet(f, U) = IF U = {} THEN 0 ELSE f[First(U)] + SumFunctionOnSet(f, Others(U))
    BY <2>2, SumInOrder
  <2>4. U # {}
    BY <2>2, <2>3
  <2>5. First(U) \in S /\ Others(U) \in SUBSET S /\ Others(U) \notin T
    BY <2>1, <2>2, <2>4, FirstOne
  <2> QED
    BY <2>2, <2>3, <2>4, <2>5
<1> QED
  BY <1>1

\* It does not matter which one is added first.
LEMMA SumTakeOut ==
  ASSUME NEW f, NEW S, IsFiniteSet(S), \A x \in S : f[x] \in Int, NEW x \in S
  PROVE  SumFunctionOnSet(f, S) = f[x] + SumFunctionOnSet(f, S \ {x})
<1> DEFINE sum(s) == SumFunctionOnSet(f, s)
           T == {s \in SUBSET S : \E y \in s : sum(s) # f[y] + sum(s \ {y})}
<1>1. ASSUME NEW s \in SUBSET S PROVE IsFiniteSet(s) /\ sum(s) \in Int
  <2>1. IsFiniteSet(s)
    BY FS_Subset
  <2> QED
    BY <2>1, SumType
<1>2. ASSUME NEW s \in SUBSET S, s # {} PROVE sum(s) = f[First(s)] + sum(Others(s))
  BY <1>1, <1>2, SumInOrder
<1> HIDE DEF sum
<1>3. ASSUME T # {} PROVE FALSE
  <2>1. PICK U \in T : \A V \in T : V \subseteq U => V = U
    <3>1. T \in SUBSET SUBSET S
      OBVIOUS
    <3> HIDE DEF T
    <3> QED
      BY <1>3, <3>1, SmallestSet
  <2>2. PICK y \in U : sum(U) # f[y] + sum(U \ {y})
    BY <2>1
  <2> DEFINE c == First(U)
             V == U \ {c}
             W == U \ {y}
  <2>3. U \in SUBSET S /\ c \in U /\ sum(U) = f[c] + sum(V)
    BY <1>2, <2>1, <2>2, FirstOne DEF Others
  <2>4. c # y
    BY <2>2, <2>3
  <2>5. V \in SUBSET S /\ V \notin T /\ W \in SUBSET S /\ W \notin T
    BY <2>1, <2>2, <2>3
  <2>6. sum(V) = f[y] + sum(V \ {y}) /\ sum(W) = f[c] + sum(W \ {c})
    BY <2>2, <2>3, <2>4, <2>5
  <2>7. V \ {y} = W \ {c}
    OBVIOUS
  <2>8. f[c] \in Int /\ f[y] \in Int /\ sum(V \ {y}) \in Int /\ sum(W) \in Int
    BY <1>1, <2>2, <2>3, <2>5
  <2>9. sum(V \ {y}) = sum(W \ {c})
    BY <2>7, Zenon
  <2> HIDE DEF V, W, c, T
  <2> QED
    BY <2>2, <2>3, <2>6, <2>8, <2>9 DEF W
<1>4. sum(S) = f[x] + sum(S \ {x})
  BY <1>3
<1> QED
  BY <1>4 DEF sum

\* Only the values over the set count.
LEMMA SumSame ==
  ASSUME NEW f, NEW g, NEW S, IsFiniteSet(S), \A x \in S : f[x] = g[x]
  PROVE  SumFunctionOnSet(f, S) = SumFunctionOnSet(g, S)
<1> DEFINE T == {s \in SUBSET S : SumFunctionOnSet(f, s) # SumFunctionOnSet(g, s)}
<1>1. ASSUME T # {} PROVE FALSE
  <2>1. PICK U \in T : \A V \in T : V \subseteq U => V = U
    <3>1. T \in SUBSET SUBSET S
      OBVIOUS
    <3> HIDE DEF T
    <3> QED
      BY <1>1, <3>1, SmallestSet
  <2>2. IsFiniteSet(U) /\ U \in SUBSET S /\ SumFunctionOnSet(f, U) # SumFunctionOnSet(g, U)
    BY <2>1, FS_Subset
  <2>3. /\ SumFunctionOnSet(f, U) = IF U = {} THEN 0 ELSE f[First(U)] + SumFunctionOnSet(f, Others(U))
        /\ SumFunctionOnSet(g, U) = IF U = {} THEN 0 ELSE g[First(U)] + SumFunctionOnSet(g, Others(U))
    BY <2>2, SumInOrder
  <2>4. U # {}
    BY <2>2, <2>3
  <2>5. First(U) \in S /\ Others(U) \in SUBSET S /\ Others(U) \notin T
    BY <2>1, <2>2, <2>4, FirstOne
  <2> QED
    BY <2>2, <2>3, <2>4, <2>5
<1> QED
  BY <1>1

\* If one value changes by d, the sum does.
LEMMA SumOfChanged ==
  ASSUME NEW f, NEW g, NEW S, IsFiniteSet(S), \A x \in S : f[x] \in Int,
         NEW y \in S, NEW d \in Int, g[y] = f[y] + d, \A x \in S \ {y} : g[x] = f[x]
  PROVE  SumFunctionOnSet(g, S) = SumFunctionOnSet(f, S) + d
<1> DEFINE R == S \ {y}
<1>1. IsFiniteSet(R)
  BY FS_Subset
<1>2. \A x \in S : g[x] \in Int
  OBVIOUS
<1>3. /\ SumFunctionOnSet(f, S) = f[y] + SumFunctionOnSet(f, R)
      /\ SumFunctionOnSet(g, S) = g[y] + SumFunctionOnSet(g, R)
  BY <1>2, SumTakeOut
<1>4. SumFunctionOnSet(g, R) = SumFunctionOnSet(f, R)
  BY <1>1, SumSame
<1>5. SumFunctionOnSet(f, R) \in Int
  BY <1>1, SumType
<1> QED
  BY <1>3, <1>4, <1>5

\* One more.
LEMMA SumWith ==
  ASSUME NEW f, NEW S, IsFiniteSet(S), NEW y, y \notin S, \A x \in S \cup {y} : f[x] \in Int
  PROVE  SumFunctionOnSet(f, S \cup {y}) = SumFunctionOnSet(f, S) + f[y]
<1> DEFINE B == S \cup {y}
<1>1. IsFiniteSet(B)
  BY FS_AddElement
<1>2. y \in B /\ B \ {y} = S
  OBVIOUS
<1> HIDE DEF B
<1>3. \A x \in B : f[x] \in Int
  BY DEF B
<1>4. SumFunctionOnSet(f, B) = f[y] + SumFunctionOnSet(f, B \ {y})
  BY <1>1, <1>2, <1>3, SumTakeOut
<1>5. SumFunctionOnSet(f, S) \in Int /\ f[y] \in Int
  BY SumType
<1>6. SumFunctionOnSet(f, B \ {y}) = SumFunctionOnSet(f, S)
  BY <1>2, Zenon
<1>7. SumFunctionOnSet(f, B) = SumFunctionOnSet(f, S) + f[y]
  BY <1>4, <1>5, <1>6
<1> QED
  BY <1>7 DEF B

LEMMA SumOfOne ==
  ASSUME NEW f, NEW x, f[x] \in Int
  PROVE  SumFunctionOnSet(f, {x}) = f[x]
<1>1. IsFiniteSet({}) /\ x \notin {} /\ {} \cup {x} = {x}
  BY FS_EmptySet
<1>2. SumFunctionOnSet(f, {} \cup {x}) = SumFunctionOnSet(f, {}) + f[x]
  BY <1>1, SumWith
<1> QED
  BY <1>1, <1>2, SumOfNone

\* Two sums over sets that are matched one to one.
LEMMA SumMatched ==
  ASSUME NEW f, NEW g, NEW S, IsFiniteSet(S), \A x \in S : f[x] \in Int,
         NEW b, \A x, y \in S : b[x] = b[y] => x = y, \A x \in S : g[b[x]] = f[x]
  PROVE  SumFunctionOnSet(g, {b[x] : x \in S}) = SumFunctionOnSet(f, S)
<1> DEFINE Image(s) == {b[x] : x \in s}
           T == {s \in SUBSET S : SumFunctionOnSet(g, Image(s)) # SumFunctionOnSet(f, s)}
<1>1. ASSUME T # {} PROVE FALSE
  <2>1. PICK U \in T : \A V \in T : V \subseteq U => V = U
    <3>1. T \in SUBSET SUBSET S
      OBVIOUS
    <3> HIDE DEF T
    <3> QED
      BY <1>1, <3>1, SmallestSet
  <2>2. IsFiniteSet(U) /\ U \in SUBSET S /\ SumFunctionOnSet(g, Image(U)) # SumFunctionOnSet(f, U)
    BY <2>1, FS_Subset
  <2>3. U # {}
    <3>1. ASSUME U = {} PROVE Image(U) = {}
      BY <3>1
    <3> QED
      BY <2>2, <3>1, SumOfNone
  <2> DEFINE c == First(U)
             V == Others(U)
  <2>4. c \in U /\ V \in SUBSET S /\ V \notin T /\ V = U \ {c}
    BY <2>1, <2>2, <2>3, FirstOne DEF Others
  <2>5. SumFunctionOnSet(f, U) = f[c] + SumFunctionOnSet(f, V)
    BY <2>2, <2>3, SumInOrder
  <2>6. SumFunctionOnSet(g, Image(V)) = SumFunctionOnSet(f, V)
    BY <2>4
  <2>7. IsFiniteSet(Image(U))
    <3> DEFINE h == [x \in U |-> b[x]]
    <3>1. h \in Surjection(U, Image(U))
      BY DEF Surjection
    <3> HIDE DEF h
    <3> QED
      BY <2>2, <3>1, FS_Surjection DEF ExistsSurjection
  <2>8. b[c] \in Image(U) /\ Image(U) \ {b[c]} = Image(V)
    BY <2>2, <2>4
  <2>9. \A z \in Image(U) : g[z] \in Int
    BY <2>2
  <2>10. SumFunctionOnSet(g, Image(U)) = g[b[c]] + SumFunctionOnSet(g, Image(V))
    <3> HIDE DEF Image, c, V
    <3>1. SumFunctionOnSet(g, Image(U)) = g[b[c]] + SumFunctionOnSet(g, Image(U) \ {b[c]})
      BY <2>7, <2>8, <2>9, SumTakeOut
    <3> QED
      BY <2>8, <3>1
  <2>11. g[b[c]] = f[c]
    BY <2>2, <2>4
  <2> QED
    BY <2>2, <2>5, <2>6, <2>10, <2>11
<1> QED
  BY <1>1

\* Three changes, of the same or of different values.
\* The function g is f with three amounts added.
ThreeAdded(f, g, S, y1, d1, y2, d2, y3, d3) ==
  \A x \in S : g[x] = f[x] + (IF x = y1 THEN d1 ELSE 0) + (IF x = y2 THEN d2 ELSE 0)
                           + (IF x = y3 THEN d3 ELSE 0)

LEMMA SumOfThreeChanges ==
  ASSUME NEW f, NEW g, NEW S, IsFiniteSet(S), \A x \in S : f[x] \in Int,
         NEW y1 \in S, NEW d1 \in Int, NEW y2 \in S, NEW d2 \in Int, NEW y3 \in S, NEW d3 \in Int,
         ThreeAdded(f, g, S, y1, d1, y2, d2, y3, d3)
  PROVE  SumFunctionOnSet(g, S) = SumFunctionOnSet(f, S) + d1 + d2 + d3
<1> DEFINE g1 == [x \in S |-> f[x] + (IF x = y1 THEN d1 ELSE 0)]
           g2 == [x \in S |-> g1[x] + (IF x = y2 THEN d2 ELSE 0)]
           g3 == [x \in S |-> g2[x] + (IF x = y3 THEN d3 ELSE 0)]
<1>1. \A x \in S : g1[x] \in Int /\ g1[x] = f[x] + (IF x = y1 THEN d1 ELSE 0)
  OBVIOUS
<1> HIDE DEF g1
<1>2. \A x \in S : g2[x] \in Int /\ g2[x] = g1[x] + (IF x = y2 THEN d2 ELSE 0)
  BY <1>1
<1> HIDE DEF g2
<1>3. \A x \in S : g3[x] = g2[x] + (IF x = y3 THEN d3 ELSE 0)
  OBVIOUS
<1> HIDE DEF g3
<1>4. SumFunctionOnSet(g1, S) = SumFunctionOnSet(f, S) + d1
  <2>1. g1[y1] = f[y1] + d1 /\ \A x \in S \ {y1} : g1[x] = f[x]
    BY <1>1
  <2> QED
    BY <2>1, SumOfChanged
<1>5. SumFunctionOnSet(g2, S) = SumFunctionOnSet(g1, S) + d2
  <2>1. g2[y2] = g1[y2] + d2 /\ \A x \in S \ {y2} : g2[x] = g1[x]
    BY <1>1, <1>2
  <2> QED
    BY <1>1, <2>1, SumOfChanged
<1>6. SumFunctionOnSet(g3, S) = SumFunctionOnSet(g2, S) + d3
  <2>1. g3[y3] = g2[y3] + d3 /\ \A x \in S \ {y3} : g3[x] = g2[x]
    BY <1>2, <1>3
  <2> QED
    BY <1>2, <2>1, SumOfChanged
<1>7. SumFunctionOnSet(g, S) = SumFunctionOnSet(g3, S)
  <2>1. \A x \in S : g[x] = g3[x]
    BY <1>1, <1>2, <1>3 DEF ThreeAdded
  <2> QED
    BY <2>1, SumSame
<1>8. SumFunctionOnSet(f, S) \in Int
  BY SumType
<1> QED
  BY <1>4, <1>5, <1>6, <1>7, <1>8

\* A sum of nothing but zeros.
LEMMA SumOfZeros ==
  ASSUME NEW f, NEW S, IsFiniteSet(S), \A x \in S : f[x] = 0
  PROVE  SumFunctionOnSet(f, S) = 0
<1> DEFINE T == {s \in SUBSET S : SumFunctionOnSet(f, s) # 0}
<1>1. ASSUME T # {} PROVE FALSE
  <2>1. PICK U \in T : \A V \in T : V \subseteq U => V = U
    <3>1. T \in SUBSET SUBSET S
      OBVIOUS
    <3> HIDE DEF T
    <3> QED
      BY <1>1, <3>1, SmallestSet
  <2>2. U \subseteq S /\ IsFiniteSet(U) /\ SumFunctionOnSet(f, U) # 0
    BY <2>1, FS_Subset
  <2>3. U # {}
    BY <2>2, SumOfNone
  <2>4. First(U) \in U /\ Others(U) \subseteq U /\ Others(U) # U
    BY <2>3, FirstOne
  <2>5. SumFunctionOnSet(f, Others(U)) = 0
    BY <2>1, <2>2, <2>4
  <2>6. SumFunctionOnSet(f, U) = f[First(U)] + SumFunctionOnSet(f, Others(U))
    BY <2>2, <2>3, SumInOrder
  <2> QED
    BY <2>2, <2>4, <2>5, <2>6
<1> QED
  BY <1>1

\* What f has at one place is taken from another: the sum stays.
Transferred(f, g, S, y, z, n) ==
  \A x \in S : g[x] = f[x] + (IF x = y THEN n ELSE 0) - (IF x = z THEN n ELSE 0)

LEMMA SumOfTransfer ==
  ASSUME NEW f, NEW g, NEW S, IsFiniteSet(S), \A x \in S : f[x] \in Int,
         NEW y \in S, NEW z \in S, NEW n \in Int, Transferred(f, g, S, y, z, n)
  PROVE  SumFunctionOnSet(g, S) = SumFunctionOnSet(f, S)
<1> DEFINE h == [x \in S |-> f[x] + (IF x = y THEN n ELSE 0)]
           less == - n
<1>1. \A x \in S : h[x] \in Int /\ h[x] = f[x] + (IF x = y THEN n ELSE 0)
  OBVIOUS
<1> HIDE DEF h
<1>2. SumFunctionOnSet(h, S) = SumFunctionOnSet(f, S) + n
  <2>1. h[y] = f[y] + n /\ \A x \in S \ {y} : h[x] = f[x]
    BY <1>1
  <2> QED
    BY <2>1, SumOfChanged
<1>3. SumFunctionOnSet(g, S) = SumFunctionOnSet(h, S) + less
  <2>1. \A x \in S : g[x] = h[x] - (IF x = z THEN n ELSE 0)
    <3> SUFFICES ASSUME NEW x \in S PROVE g[x] = h[x] - (IF x = z THEN n ELSE 0)
      OBVIOUS
    <3> DEFINE to == IF x = y THEN n ELSE 0
               from == IF x = z THEN n ELSE 0
    <3>1. to \in Int /\ from \in Int /\ f[x] \in Int
      OBVIOUS
    <3>2. g[x] = f[x] + to - from
      BY DEF Transferred
    <3>3. h[x] = f[x] + to
      BY <1>1
    <3> HIDE DEF to, from
    <3>4. g[x] = h[x] - from
      BY <3>1, <3>2, <3>3
    <3> QED
      BY <3>4 DEF from
  <2>2. g[z] = h[z] + less /\ (\A x \in S \ {z} : g[x] = h[x]) /\ less \in Int
    BY <1>1, <2>1
  <2> HIDE DEF less
  <2> QED
    BY <1>1, <2>2, SumOfChanged
<1>4. SumFunctionOnSet(f, S) \in Int
  BY SumType
<1> QED
  BY <1>2, <1>3, <1>4

\* A sum of naturals.
LEMMA SumOfNaturals ==
  ASSUME NEW f, NEW S, IsFiniteSet(S), \A x \in S : f[x] \in Nat
  PROVE  SumFunctionOnSet(f, S) \in Nat
<1> DEFINE T == {s \in SUBSET S : SumFunctionOnSet(f, s) \notin Nat}
<1>1. ASSUME T # {} PROVE FALSE
  <2>1. PICK U \in T : \A V \in T : V \subseteq U => V = U
    <3>1. T \in SUBSET SUBSET S
      OBVIOUS
    <3> HIDE DEF T
    <3> QED
      BY <1>1, <3>1, SmallestSet
  <2>2. U \subseteq S /\ IsFiniteSet(U) /\ SumFunctionOnSet(f, U) \notin Nat
    BY <2>1, FS_Subset
  <2>3. U # {}
    <3>1. 0 \in Nat
      OBVIOUS
    <3> QED
      BY <2>2, <3>1, SumOfNone, Zenon
  <2>4. First(U) \in U /\ Others(U) \subseteq U /\ Others(U) # U
    BY <2>3, FirstOne
  <2>5. SumFunctionOnSet(f, Others(U)) \in Nat /\ f[First(U)] \in Nat
    BY <2>1, <2>2, <2>4
  <2>6. SumFunctionOnSet(f, U) = f[First(U)] + SumFunctionOnSet(f, Others(U))
    BY <2>2, <2>3, SumInOrder
  <2> QED
    BY <2>2, <2>5, <2>6
<1> QED
  BY <1>1
-----------------------------------------------------------------------------
(* The accounts *)

LEMMA TradersAndProducts ==
  /\ IsFiniteSet(Traders) /\ IsFiniteSet(Products) /\ IsFiniteSet(Traders \X Products)
BY OrderBookAssumption, FS_Product

\* What update_inventory adds to one balance it takes from the other, and the
\* fee it takes from the trader of the incoming order is the fee that
\* print_match adds up.
LEMMA SettleCollects ==
  ASSUME pos \in [Traders -> [Products -> [quantity : Int, balance : Int]]], fees \in Int,
         FeesCollected,
         NEW taking \in Order, NEW resting \in Order, NEW n \in Nat, Settle(taking, resting, n)
  PROVE  FeesCollected'
<1> DEFINE A == Traders \X Products
           q == taking.product
           total == TotalPrice(taking, resting, n)
           buyer == IF taking.side = "buy" THEN taking.trader ELSE resting.trader
           seller == IF taking.side = "buy" THEN resting.trader ELSE taking.trader
           F == Fee(total)
           before == [a \in A |-> pos[a[1]][a[2]].balance]
           after == [a \in A |-> pos'[a[1]][a[2]].balance]
<1>1. /\ q \in Products /\ taking.trader \in Traders /\ buyer \in Traders /\ seller \in Traders
  BY OrderFields
<1>2. total \in Int
  <2>1. resting.price * n \in Int
    BY OrderFields
  <2> QED
    BY <2>1, WrapInt DEF TotalPrice
<1> HIDE DEF total
<1>3. F \in Int /\ fees' = fees + F
  BY <1>2, FeeInt DEF Settle, total
<1>4. ASSUME NEW t \in Traders, NEW p \in Products
      PROVE  IF p = q
             THEN pos'[t][p].balance = pos[t][p].balance + When(t = seller, total)
                                         - When(t = buyer, total) - When(t = taking.trader, F)
             ELSE pos'[t][p].balance = pos[t][p].balance
  BY SettledAccount DEF total
<1> HIDE DEF buyer, seller, F, q
<1>5. \A a \in A : before[a] \in Int
  OBVIOUS
<1>6. ASSUME NEW a \in A
      PROVE  after[a] = before[a] + (IF a = <<seller, q>> THEN total ELSE 0)
                                  + (IF a = <<buyer, q>> THEN - total ELSE 0)
                                  + (IF a = <<taking.trader, q>> THEN - F ELSE 0)
  <2>1. PICK t \in Traders, p \in Products : a = <<t, p>>
    OBVIOUS
  <2>2. after[a] = pos'[t][p].balance /\ before[a] = pos[t][p].balance /\ pos[t][p].balance \in Int
    BY <2>1
  <2>3. \A u : a = <<u, q>> <=> t = u /\ p = q
    BY <2>1
  <2> HIDE DEF after, before
  <2>4. CASE p = q
    <3>1. pos'[t][p].balance = pos[t][p].balance + When(t = seller, total)
                                 - When(t = buyer, total) - When(t = taking.trader, F)
      BY <1>4, <2>4
    <3> DEFINE w1 == When(t = seller, total)
               w2 == When(t = buyer, total)
               w3 == When(t = taking.trader, F)
    <3>2. /\ w1 = IF t = seller THEN total ELSE 0
          /\ w2 = IF t = buyer THEN total ELSE 0
          /\ w3 = IF t = taking.trader THEN F ELSE 0
      BY Zenon DEF When
    <3> HIDE DEF w1, w2, w3
    <3>3. w1 \in Int /\ w2 \in Int /\ w3 \in Int
      BY <1>2, <1>3, <3>2
    <3>4. /\ w1 = IF a = <<seller, q>> THEN total ELSE 0
          /\ - w2 = IF a = <<buyer, q>> THEN - total ELSE 0
          /\ - w3 = IF a = <<taking.trader, q>> THEN - F ELSE 0
      <4>1. /\ a = <<seller, q>> <=> t = seller
            /\ a = <<buyer, q>> <=> t = buyer
            /\ a = <<taking.trader, q>> <=> t = taking.trader
        BY <2>3, <2>4, Zenon
      <4> DEFINE b1 == a = <<seller, q>>
                 b2 == a = <<buyer, q>>
                 b3 == a = <<taking.trader, q>>
      <4>2. /\ w1 = IF b1 THEN total ELSE 0
            /\ w2 = IF b2 THEN total ELSE 0
            /\ w3 = IF b3 THEN F ELSE 0
        BY <3>2, <4>1, Zenon
      <4> HIDE DEF b1, b2, b3
      <4>3. /\ w1 = IF b1 THEN total ELSE 0
            /\ - w2 = IF b2 THEN - total ELSE 0
            /\ - w3 = IF b3 THEN - F ELSE 0
        BY <1>2, <1>3, <4>2
      <4> QED
        BY <4>3, Zenon DEF b1, b2, b3
    <3>5. after[a] = before[a] + w1 - w2 - w3 /\ before[a] \in Int
      BY <2>2, <3>1 DEF w1, w2, w3
    <3>6. after[a] = before[a] + w1 + (- w2) + (- w3)
      BY <3>3, <3>5
    <3> QED
      BY <3>4, <3>6
  <2>5. CASE p # q
    BY <1>4, <2>2, <2>3, <2>5
  <2> QED
    BY <2>4, <2>5
<1>7. /\ <<seller, q>> \in A /\ <<buyer, q>> \in A /\ <<taking.trader, q>> \in A /\ IsFiniteSet(A)
  BY <1>1, TradersAndProducts
<1>8. - total \in Int /\ - F \in Int
  BY <1>2, <1>3
<1>9. DOMAIN before = A /\ DOMAIN after = A
  OBVIOUS
<1>10. fees = - SumFunctionOnSet(before, A)
  BY <1>9 DEF FeesCollected, SumFunction
<1>11. FeesCollected' <=> fees' = - SumFunctionOnSet(after, A)
  BY <1>9 DEF FeesCollected, SumFunction
<1> HIDE DEF before, after, A
<1>12. SumFunctionOnSet(after, A) = SumFunctionOnSet(before, A) + total + (- total) + (- F)
  <2> DEFINE mt == - total
             mF == - F
             y1 == <<seller, q>>
             y2 == <<buyer, q>>
             y3 == <<taking.trader, q>>
  <2>1. \A a \in A : after[a] = before[a] + (IF a = y1 THEN total ELSE 0)
                                       + (IF a = y2 THEN mt ELSE 0)
                                       + (IF a = y3 THEN mF ELSE 0)
    BY <1>6
  <2>2. mt \in Int /\ mF \in Int /\ y1 \in A /\ y2 \in A /\ y3 \in A /\ IsFiniteSet(A)
    BY <1>7, <1>8
  <2> HIDE DEF mt, mF, y1, y2, y3
  <2>3. ThreeAdded(before, after, A, y1, total, y2, mt, y3, mF)
    BY <2>1, Zenon DEF ThreeAdded
  <2>4. SumFunctionOnSet(after, A) = SumFunctionOnSet(before, A) + total + mt + mF
    BY <1>2, <1>5, <2>2, <2>3, SumOfThreeChanges
  <2> QED
    BY <2>4 DEF mt, mF
<1>13. SumFunctionOnSet(before, A) \in Int
  BY <1>5, <1>7, SumType
<1> QED
  BY <1>2, <1>3, <1>10, <1>11, <1>12, <1>13

\* Only a pass of the matching loop touches the accounts.
LEMMA AccountsOfMatch == [Next]_vars => Match \/ UNCHANGED accounts
BY DEF Next, ParseMsg, BuySellMsg, AmendMsg, CancelMsg, InvalidMsg, Rest, TraderDied, Completed, vars,
       accounts

LEMMA InitCollects == Init => FeesCollected
<1> DEFINE A == Traders \X Products
           f == [a \in A |-> pos[a[1]][a[2]].balance]
<1> SUFFICES ASSUME Init PROVE fees = - SumFunctionOnSet(f, DOMAIN f)
  BY DEF FeesCollected, SumFunction
<1>1. \A a \in A : f[a] = 0
  BY DEF Init
<1>2. DOMAIN f = A /\ IsFiniteSet(A) /\ fees = 0
  BY TradersAndProducts DEF Init
<1> HIDE DEF f, A
<1>3. SumFunctionOnSet(f, DOMAIN f) = 0
  BY <1>1, <1>2, SumOfZeros
<1>4. \A x, y \in Int : x + y = 0 => x = - y
  OBVIOUS
<1>5. /\ fees \in Int /\ SumFunctionOnSet(f, DOMAIN f) \in Int
      /\ fees + SumFunctionOnSet(f, DOMAIN f) = 0
  BY <1>2, <1>3
<1> QED
  BY <1>4, <1>5, Zenon

\* print_match: what the exchange says it has collected is what the traders
\* have lost, however many units a position or a trade has.
THEOREM FeesAreCollected == Spec => []FeesCollected
<1>1. IInv /\ FeesCollected /\ [Next]_vars => FeesCollected'
  <2> SUFFICES ASSUME IInv, FeesCollected, [Next]_vars PROVE FeesCollected'
    OBVIOUS
  <2>1. CASE Match
    <3>1. PICK i \in FindBest(taker) :
            LET resting == book[taker.product][Opposite(taker.side)][i]
                n == Fewer(taker.quantity, resting.quantity)
            IN  taker \in Order /\ resting \in Order /\ n \in Nat /\ Settle(taker, resting, n)
      BY <2>1, MatchTrades
    <3>2. /\ pos \in [Traders -> [Products -> [quantity : Int, balance : Int]]]
          /\ fees \in Int
      BY InvariantInParts DEF Shapes
    <3> QED
      BY <3>1, <3>2, SettleCollects
  <2>2. CASE UNCHANGED accounts
    BY <2>2 DEF accounts, FeesCollected
  <2> QED
    BY <2>1, <2>2, AccountsOfMatch
<1> QED
  BY <1>1, InitCollects, Invariance, PTL DEF Spec

\* As long as no position wraps around, the units that one trader gets are the
\* units that another gives.
LEMMA SettleConserves ==
  ASSUME pos \in [Traders -> [Products -> [quantity : Int, balance : Int]]], fees \in Int,
         UnitsConserved, PositionsFit,
         NEW taking \in Order, NEW resting \in Order, NEW n \in 0 .. MaxQuantity,
         Settle(taking, resting, n)
  PROVE  UnitsConserved'
<1> DEFINE q == taking.product
           buyer == IF taking.side = "buy" THEN taking.trader ELSE resting.trader
           seller == IF taking.side = "buy" THEN resting.trader ELSE taking.trader
<1>1. /\ q \in Products /\ buyer \in Traders /\ seller \in Traders
      /\ IsFiniteSet(Traders)
  BY OrderFields, TradersAndProducts
<1>2. /\ n \in Nat /\ IntMax \in Nat /\ MaxQuantity \in Nat /\ MaxQuantity <= IntMax
      /\ n <= MaxQuantity
  BY OrderBookAssumption, IntMaxAssumption
<1>3. ASSUME NEW p \in Products, p # q
      PROVE  SumFunction([t \in Traders |-> pos'[t][p].quantity]) = 0
  <2>1. \A t \in Traders : pos'[t][p] = pos[t][p]
    BY <1>2, <1>3, SettledAccount
  <2>2. [t \in Traders |-> pos'[t][p].quantity] = [t \in Traders |-> pos[t][p].quantity]
    BY <2>1
  <2> QED
    BY <2>2 DEF UnitsConserved
<1>4. SumFunction([t \in Traders |-> pos'[t][q].quantity]) = 0
  <2> DEFINE before == [t \in Traders |-> pos[t][q].quantity]
             after == [t \in Traders |-> pos'[t][q].quantity]
  <2>1. ASSUME NEW t \in Traders
        PROVE  pos'[t][q].quantity
                 = Wrap(pos[t][q].quantity + When(t = buyer, n) - When(t = seller, n))
    BY <1>1, <1>2, SettledAccount
  <2>2. before \in [Traders -> Int] /\ DOMAIN before = Traders /\ DOMAIN after = Traders
    BY <1>1
  <2> HIDE DEF buyer, seller
  <2>3. ASSUME NEW t \in Traders
        PROVE  after[t] = before[t] + (IF t = buyer THEN n ELSE 0) - (IF t = seller THEN n ELSE 0)
    <3> DEFINE w1 == When(t = buyer, n)
               w2 == When(t = seller, n)
               x == pos[t][q].quantity + w1 - w2
    <3>1. w1 = (IF t = buyer THEN n ELSE 0) /\ w2 = (IF t = seller THEN n ELSE 0)
      BY Zenon DEF When
    <3> HIDE DEF w1, w2
    <3>2. w1 \in 0 .. n /\ w2 \in 0 .. n
      BY <1>2, <3>1
    <3>3. pos[t][q].quantity \in - (IntMax - MaxQuantity) .. IntMax - MaxQuantity
      BY <1>1 DEF PositionsFit
    <3>4. x \in -(IntMax + 1) .. IntMax
      BY <1>2, <3>2, <3>3
    <3>5. after[t] = x
      <4>1. after[t] = Wrap(x)
        BY <2>1 DEF w1, w2
      <4> HIDE DEF x
      <4> QED
        BY <3>4, <4>1, WrapFits
    <3>6. before[t] = pos[t][q].quantity /\ before[t] \in Int
      BY <1>2, <3>3
    <3> HIDE DEF before, after
    <3>7. after[t] = before[t] + w1 - w2
      BY <3>5, <3>6
    <3> QED
      BY <3>1, <3>7
  <2>4. Transferred(before, after, Traders, buyer, seller, n)
    BY <2>3 DEF Transferred
  <2>5. SumFunctionOnSet(before, Traders) = 0
    BY <1>1, <2>2 DEF UnitsConserved, SumFunction
  <2>6. \A t \in Traders : before[t] \in Int
    BY <2>2
  <2>7. SumFunction(after) = SumFunctionOnSet(after, Traders)
    BY <2>2 DEF SumFunction
  <2> HIDE DEF before, after, q
  <2>8. SumFunctionOnSet(after, Traders) = SumFunctionOnSet(before, Traders)
    BY <1>1, <1>2, <2>4, <2>6, SumOfTransfer
  <2>9. SumFunction(after) = 0
    BY <2>5, <2>7, <2>8
  <2> QED
    BY <2>9 DEF after
<1> QED
  BY <1>3, <1>4 DEF UnitsConserved

\* update_inventory and print_match: as long as every position can take one
\* more trade, no unit and no money appears or vanishes.
THEOREM AccountsBalance == Spec /\ []PositionsFit => []MoneyConserved
<1>1. Init => UnitsConserved
  <2> SUFFICES ASSUME Init, NEW p \in Products
               PROVE  SumFunction([t \in Traders |-> pos[t][p].quantity]) = 0
    BY DEF UnitsConserved
  <2> DEFINE f == [t \in Traders |-> pos[t][p].quantity]
  <2>1. (\A t \in Traders : f[t] = 0) /\ DOMAIN f = Traders /\ IsFiniteSet(Traders)
    BY TradersAndProducts DEF Init
  <2> HIDE DEF f
  <2>2. SumFunction(f) = 0
    BY <2>1, SumOfZeros DEF SumFunction
  <2> QED
    BY <2>2 DEF f
<1>2. IInv /\ PositionsFit /\ UnitsConserved /\ [Next]_vars => UnitsConserved'
  <2> SUFFICES ASSUME IInv, PositionsFit, UnitsConserved, [Next]_vars PROVE UnitsConserved'
    OBVIOUS
  <2>1. CASE Match
    <3>1. PICK i \in FindBest(taker) :
            LET resting == book[taker.product][Opposite(taker.side)][i]
                n == Fewer(taker.quantity, resting.quantity)
            IN  /\ taker \in Order /\ resting \in Order /\ Settle(taker, resting, n)
                /\ n \in Nat /\ n <= MaxQuantity
      BY <2>1, MatchTrades
    <3> DEFINE resting == book[taker.product][Opposite(taker.side)][i]
               n == Fewer(taker.quantity, resting.quantity)
    <3>2. /\ pos \in [Traders -> [Products -> [quantity : Int, balance : Int]]]
          /\ fees \in Int
      BY InvariantInParts DEF Shapes
    <3>3. /\ taker \in Order /\ resting \in Order /\ Settle(taker, resting, n)
          /\ n \in 0 .. MaxQuantity
      BY <3>1, OrderBookAssumption, IntMaxAssumption
    <3> HIDE DEF n, resting
    <3> QED
      BY <3>2, <3>3, SettleConserves
  <2>2. CASE UNCHANGED accounts
    BY <2>2 DEF accounts, UnitsConserved
  <2> QED
    BY <2>1, <2>2, AccountsOfMatch
<1>3. UnitsConserved /\ FeesCollected => MoneyConserved
  BY DEF MoneyConserved
<1> QED
  BY <1>1, <1>2, <1>3, Invariance, FeesAreCollected, PTL DEF Spec
-----------------------------------------------------------------------------
(* The orders of a list, by price *)

At(orders, c) == {i \in DOMAIN orders : orders[i].price = c}
Quantities(orders) == [i \in DOMAIN orders |-> orders[i].quantity]
Numbers(orders) == [c \in Nat |-> Cardinality(At(orders, c))]
Totals(orders) == [c \in Nat |-> SumFunctionOnSet(Quantities(orders), At(orders, c))]

LEMMA ListFacts ==
  ASSUME NEW orders \in Seq(Order), NEW c
  PROVE  /\ DOMAIN orders = 1 .. Len(orders) /\ Len(orders) \in Nat
         /\ IsFiniteSet(At(orders, c)) /\ At(orders, c) \subseteq 1 .. Len(orders)
         /\ \A i \in 1 .. Len(orders) :
              /\ orders[i] \in Order
              /\ orders[i].price \in Nat
              /\ Quantities(orders)[i] = orders[i].quantity
              /\ orders[i].quantity \in Nat \ {0}
<1>1. DOMAIN orders = 1 .. Len(orders) /\ Len(orders) \in Nat
  BY LenProperties
<1>2. At(orders, c) \subseteq 1 .. Len(orders)
  BY <1>1 DEF At
<1>3. IsFiniteSet(1 .. Len(orders))
  BY <1>1, FS_Interval
<1>4. IsFiniteSet(At(orders, c))
  BY <1>2, <1>3, FS_Subset
<1>5. ASSUME NEW i \in 1 .. Len(orders)
      PROVE  /\ orders[i] \in Order
             /\ orders[i].price \in Nat
             /\ Quantities(orders)[i] = orders[i].quantity
             /\ orders[i].quantity \in Nat \ {0}
  <2>1. orders[i] \in Order
    BY ElementOfSeq
  <2>2. Quantities(orders)[i] = orders[i].quantity
    BY <1>1 DEF Quantities
  <2>3. orders[i].quantity \in Nat /\ orders[i].quantity >= 1 /\ orders[i].price \in Nat
    BY <2>1, OrderFields
  <2> QED
    BY <2>1, <2>2, <2>3
<1> QED
  BY <1>1, <1>2, <1>4, <1>5

\* There are units at a price where there is an order.
LEMMA CountedOrders ==
  ASSUME NEW orders \in Seq(Order)
  PROVE  /\ Counted(Numbers(orders), Totals(orders))
         /\ \A c \in Nat : Totals(orders)[c] # 0 <=> At(orders, c) # {}
<1>1. ASSUME NEW c \in Nat
      PROVE  /\ Cardinality(At(orders, c)) \in Nat
             /\ SumFunctionOnSet(Quantities(orders), At(orders, c)) \in Nat
             /\ At(orders, c) = {} => Cardinality(At(orders, c)) = 0
             /\ SumFunctionOnSet(Quantities(orders), At(orders, c)) # 0 <=> At(orders, c) # {}
  <2> DEFINE S == At(orders, c)
             f == Quantities(orders)
  <2>1. /\ IsFiniteSet(S) /\ S \subseteq 1 .. Len(orders)
        /\ \A i \in 1 .. Len(orders) : f[i] \in Nat \ {0}
    BY ListFacts
  <2> HIDE DEF S, f
  <2>2. \A i \in S : f[i] \in Nat /\ f[i] \in Int /\ f[i] # 0
    BY <2>1
  <2>3. Cardinality(S) \in Nat /\ (S = {} => Cardinality(S) = 0)
    BY <2>1, FS_CardinalityType, FS_EmptySet
  <2>4. SumFunctionOnSet(f, S) \in Nat
    BY <2>1, <2>2, SumOfNaturals
  <2>5. S = {} => SumFunctionOnSet(f, S) = 0
    BY SumOfNone
  <2>6. ASSUME NEW i \in S PROVE SumFunctionOnSet(f, S) # 0
    <3>1. SumFunctionOnSet(f, S) = f[i] + SumFunctionOnSet(f, S \ {i})
      <4>1. (\A j \in S : f[j] \in Int) /\ IsFiniteSet(S)
        BY <2>1, <2>2
      <4> QED
        BY <4>1, SumTakeOut
    <3>2. SumFunctionOnSet(f, S \ {i}) \in Nat
      <4>1. IsFiniteSet(S \ {i})
        BY <2>1, FS_RemoveElement
      <4> QED
        BY <2>2, <4>1, SumOfNaturals
    <3>3. f[i] \in Nat /\ f[i] # 0
      BY <2>2
    <3> QED
      BY <3>1, <3>2, <3>3
  <2>7. SumFunctionOnSet(f, S) # 0 <=> S # {}
    BY <2>5, <2>6, Zenon
  <2> QED
    BY <2>3, <2>4, <2>7 DEF S, f
<1> QED
  BY <1>1 DEF Counted, Numbers, Totals

\* An order that leaves the list is one order less at its price.
LEMMA RemoveRaises ==
  ASSUME NEW orders \in Seq(Order), NEW i \in 1 .. Len(orders)
  PROVE  /\ Raised(Numbers(orders), Numbers(RemoveAt(orders, i)), orders[i].price, 1)
         /\ Raised(Totals(orders), Totals(RemoveAt(orders, i)), orders[i].price, orders[i].quantity)
<1> DEFINE rest == RemoveAt(orders, i)
           from == [j \in 1 .. Len(orders) - 1 |-> IF j < i THEN j ELSE j + 1]
           f == Quantities(rest)
           g == Quantities(orders)
<1>1. /\ rest \in Seq(Order) /\ Len(rest) = Len(orders) - 1
      /\ \A j \in 1 .. Len(orders) - 1 : rest[j] = IF j < i THEN orders[j] ELSE orders[j + 1]
  BY RemoveAtFacts
<1>2. Len(orders) \in Nat /\ DOMAIN orders = 1 .. Len(orders)
  BY LenProperties
<1> HIDE DEF rest
<1>3. DOMAIN rest = 1 .. Len(orders) - 1
  BY <1>1, LenProperties
<1>4. /\ \A j \in 1 .. Len(orders) - 1 : from[j] \in (1 .. Len(orders)) \ {i} /\ rest[j] = orders[from[j]]
      /\ \A j, k \in 1 .. Len(orders) - 1 : from[j] = from[k] => j = k
      /\ \A h \in (1 .. Len(orders)) \ {i} : \E j \in 1 .. Len(orders) - 1 : from[j] = h
  <2>1. ASSUME NEW j \in 1 .. Len(orders) - 1
        PROVE  from[j] \in (1 .. Len(orders)) \ {i} /\ rest[j] = orders[from[j]]
    BY <1>1, <1>2
  <2>2. ASSUME NEW j \in 1 .. Len(orders) - 1, NEW k \in 1 .. Len(orders) - 1, from[j] = from[k]
        PROVE  j = k
    BY <1>2, <2>2
  <2>3. ASSUME NEW h \in (1 .. Len(orders)) \ {i}
        PROVE  \E j \in 1 .. Len(orders) - 1 : from[j] = h
    <3> DEFINE j == IF h < i THEN h ELSE h - 1
    <3>1. j \in 1 .. Len(orders) - 1 /\ from[j] = h
      BY <1>2
    <3> QED
      BY <3>1
  <2> QED
    BY <2>1, <2>2, <2>3
<1> HIDE DEF from, f, g
<1>5. ASSUME NEW c \in Nat
      PROVE  /\ Cardinality(At(orders, c) \ {i}) = Cardinality(At(rest, c))
             /\ SumFunctionOnSet(g, At(orders, c) \ {i}) = SumFunctionOnSet(f, At(rest, c))
  <2> DEFINE S == At(rest, c)
             image == At(orders, c) \ {i}
  <2>1. IsFiniteSet(S) /\ S \subseteq 1 .. Len(orders) - 1
    BY <1>1, ListFacts
  <2>2. image = {from[j] : j \in S}
    <3>1. ASSUME NEW h \in image PROVE \E j \in S : from[j] = h
      <4>1. h \in (1 .. Len(orders)) \ {i} /\ orders[h].price = c
        BY <1>2 DEF At
      <4>2. PICK j \in 1 .. Len(orders) - 1 : from[j] = h
        BY <1>4, <4>1
      <4> QED
        BY <1>3, <1>4, <4>1, <4>2 DEF At
    <3>2. ASSUME NEW j \in S PROVE from[j] \in image
      BY <1>2, <1>3, <1>4 DEF At
    <3> QED
      BY <3>1, <3>2
  <2>3. \A j, k \in S : from[j] = from[k] => j = k
    BY <1>4, <2>1
  <2>4. \A j \in S : f[j] \in Int /\ g[from[j]] = f[j]
    <3> SUFFICES ASSUME NEW j \in 1 .. Len(orders) - 1 PROVE f[j] \in Int /\ g[from[j]] = f[j]
      BY <2>1
    <3>1. f[j] = rest[j].quantity /\ f[j] \in Int
      <4>1. j \in 1 .. Len(rest)
        BY <1>1
      <4> QED
        <5>1. rest \in Seq(Order)
          BY <1>1
        <5>2. Quantities(rest)[j] = rest[j].quantity /\ rest[j].quantity \in Nat \ {0}
          BY <4>1, <5>1, ListFacts
        <5> QED
          BY <5>2 DEF f
    <3>2. g[from[j]] = orders[from[j]].quantity
      BY <1>2, <1>4 DEF g, Quantities
    <3> QED
      BY <1>4, <3>1, <3>2
  <2> HIDE DEF S, image
  <2>5. SumFunctionOnSet(g, image) = SumFunctionOnSet(f, S)
    <3>1. /\ IsFiniteSet(S)
          /\ \A j \in S : f[j] \in Int
          /\ \A j \in S : g[from[j]] = f[j]
      BY <2>1, <2>4
    <3>2. SumFunctionOnSet(g, {from[j] : j \in S}) = SumFunctionOnSet(f, S)
      BY <2>3, <3>1, SumMatched
    <3> QED
      BY <2>2, <3>2
  <2>6. Cardinality(image) = Cardinality(S)
    <3> DEFINE b == [j \in S |-> from[j]]
    <3>1. b \in Bijection(S, image)
      BY <2>2, <2>3 DEF Bijection, Injection, Surjection, IsInjective
    <3>2. ExistsBijection(S, image)
      BY <3>1 DEF ExistsBijection
    <3> QED
      BY <2>1, <3>2, FS_Bijection
  <2> QED
    BY <2>5, <2>6 DEF S, image
<1>6. ASSUME NEW c \in Nat
      PROVE  /\ IsFiniteSet(At(orders, c)) /\ \A j \in At(orders, c) : g[j] \in Int
             /\ i \in At(orders, c) <=> orders[i].price = c
  <2>1. IsFiniteSet(At(orders, c)) /\ At(orders, c) \subseteq 1 .. Len(orders)
    BY ListFacts
  <2>2. \A j \in 1 .. Len(orders) : g[j] \in Int
    BY ListFacts DEF g
  <2> QED
    BY <1>2, <2>1, <2>2 DEF At
<1>7. ASSUME NEW c \in Nat, c # orders[i].price
      PROVE  Numbers(orders)[c] = Numbers(rest)[c] /\ Totals(orders)[c] = Totals(rest)[c]
  <2>1. At(orders, c) \ {i} = At(orders, c)
    BY <1>6, <1>7
  <2> QED
    BY <1>5, <2>1 DEF Numbers, Totals, f, g
<1>8. /\ Numbers(orders)[orders[i].price] = Numbers(rest)[orders[i].price] + 1
      /\ Totals(orders)[orders[i].price] = Totals(rest)[orders[i].price] + orders[i].quantity
  <2> DEFINE c == orders[i].price
             S == At(orders, c)
  <2>1. c \in Nat /\ orders[i].quantity \in Int /\ g[i] = orders[i].quantity
    BY ListFacts DEF g
  <2> HIDE DEF c, S
  <2>2. IsFiniteSet(S) /\ i \in S /\ \A j \in S : g[j] \in Int
    BY <1>6, <2>1 DEF c, S
  <2>3. Cardinality(S) = Cardinality(S \ {i}) + 1
    <3>1. Cardinality(S \ {i}) = Cardinality(S) - 1 /\ Cardinality(S) \in Nat
      BY <2>2, FS_RemoveElement, FS_CardinalityType
    <3> QED
      BY <3>1
  <2>4. SumFunctionOnSet(g, S) = SumFunctionOnSet(g, S \ {i}) + orders[i].quantity
    <3>1. SumFunctionOnSet(g, S) = g[i] + SumFunctionOnSet(g, S \ {i})
      <4>1. \A j \in S : g[j] \in Int
        BY <2>2
      <4> DEFINE x == i
      <4>2. IsFiniteSet(S) /\ x \in S
        BY <2>2
      <4> HIDE DEF x
      <4>3. SumFunctionOnSet(g, S) = g[x] + SumFunctionOnSet(g, S \ {x})
        BY <4>1, <4>2, SumTakeOut
      <4> QED
        BY <4>3 DEF x
    <3>2. SumFunctionOnSet(g, S \ {i}) \in Int
      <4>1. IsFiniteSet(S \ {i})
        BY <2>2, FS_RemoveElement
      <4> QED
        BY <2>2, <4>1, SumType
    <3> QED
      BY <2>1, <3>1, <3>2
  <2>5. Numbers(orders)[c] = Cardinality(S) /\ Totals(orders)[c] = SumFunctionOnSet(g, S)
    BY <2>1 DEF Numbers, Totals, S, g
  <2>6. /\ Numbers(rest)[c] = Cardinality(S \ {i})
        /\ Totals(rest)[c] = SumFunctionOnSet(g, S \ {i})
    BY <1>5, <2>1 DEF Numbers, Totals, S, f
  <2>7. /\ Numbers(orders)[c] = Numbers(rest)[c] + 1
        /\ Totals(orders)[c] = Totals(rest)[c] + orders[i].quantity
    BY <2>3, <2>4, <2>5, <2>6
  <2> QED
    BY <2>7 DEF c
<1> QED
  BY <1>7, <1>8 DEF Raised, rest

\* An order at the end of a list is one order more at its price.
LEMMA AppendRaises ==
  ASSUME NEW orders \in Seq(Order), NEW o \in Order
  PROVE  /\ Raised(Numbers(Append(orders, o)), Numbers(orders), o.price, 1)
         /\ Raised(Totals(Append(orders, o)), Totals(orders), o.price, o.quantity)
<1> DEFINE more == Append(orders, o)
           n == Len(orders) + 1
<1>1. /\ more \in Seq(Order) /\ Len(more) = n /\ Len(orders) \in Nat /\ n \in 1 .. n
      /\ \A j \in 1 .. Len(orders) : more[j] = orders[j]
      /\ more[n] = o
  BY AppendProperties, LenProperties
<1>2. RemoveAt(more, n) = orders
  <2> DEFINE rest == RemoveAt(more, n)
  <2>1. /\ rest \in Seq(Order) /\ Len(rest) = Len(more) - 1
        /\ \A j \in 1 .. Len(more) - 1 : rest[j] = IF j < n THEN more[j] ELSE more[j + 1]
    BY <1>1, RemoveAtFacts
  <2>2. Len(rest) = Len(orders) /\ \A j \in 1 .. Len(orders) : rest[j] = orders[j]
    BY <1>1, <2>1
  <2> HIDE DEF rest, more, n
  <2>3. rest = orders
    BY <2>1, <2>2, SeqEqual
  <2> QED
    BY <2>3 DEF rest
<1> HIDE DEF more
<1>3. n \in 1 .. Len(more)
  BY <1>1
<1> HIDE DEF n
<1>4. /\ Raised(Numbers(more), Numbers(RemoveAt(more, n)), more[n].price, 1)
      /\ Raised(Totals(more), Totals(RemoveAt(more, n)), more[n].price, more[n].quantity)
  BY <1>1, <1>3, RemoveRaises
<1>5. more[n] = o
  BY <1>1
<1> QED
  BY <1>2, <1>4, <1>5 DEF more

\* An order that only changes its quantity is a new order in the place of the old.
LEMMA ReplaceRaises ==
  ASSUME NEW orders \in Seq(Order), NEW i \in 1 .. Len(orders), NEW o \in Order
  PROVE  LET changed == [orders EXCEPT ![i] = o]
             rest == RemoveAt(orders, i)
         IN  /\ Raised(Numbers(changed), Numbers(rest), o.price, 1)
             /\ Raised(Totals(changed), Totals(rest), o.price, o.quantity)
<1> DEFINE changed == [orders EXCEPT ![i] = o]
           rest == RemoveAt(orders, i)
<1>1. Len(orders) \in Nat /\ DOMAIN orders = 1 .. Len(orders)
  BY LenProperties
<1>2. /\ changed \in Seq(Order) /\ Len(changed) = Len(orders) /\ changed[i] = o
      /\ \A j \in 1 .. Len(orders) : j # i => changed[j] = orders[j]
  BY <1>1
<1> HIDE DEF changed
<1>3. RemoveAt(changed, i) = rest
  <2> DEFINE other == RemoveAt(changed, i)
  <2>1. /\ rest \in Seq(Order) /\ Len(rest) = Len(orders) - 1
        /\ \A j \in 1 .. Len(orders) - 1 : rest[j] = IF j < i THEN orders[j] ELSE orders[j + 1]
    BY RemoveAtFacts
  <2>2. /\ other \in Seq(Order) /\ Len(other) = Len(changed) - 1
        /\ \A j \in 1 .. Len(changed) - 1 : other[j] = IF j < i THEN changed[j] ELSE changed[j + 1]
    BY <1>2, RemoveAtFacts
  <2> HIDE DEF rest, other
  <2>3. Len(other) = Len(rest) /\ \A j \in 1 .. Len(rest) : other[j] = rest[j]
    <3>1. Len(other) = Len(orders) - 1 /\ Len(rest) = Len(orders) - 1
      BY <1>2, <2>1, <2>2
    <3>2. ASSUME NEW j \in 1 .. Len(orders) - 1 PROVE other[j] = rest[j]
      <4>1. /\ other[j] = IF j < i THEN changed[j] ELSE changed[j + 1]
            /\ rest[j] = IF j < i THEN orders[j] ELSE orders[j + 1]
        BY <1>2, <2>1, <2>2
      <4>2. CASE j < i
        <5>1. changed[j] = orders[j]
          BY <1>1, <1>2, <4>2
        <5> QED
          BY <4>1, <4>2, <5>1
      <4>3. CASE ~ (j < i)
        <5>1. changed[j + 1] = orders[j + 1]
          BY <1>1, <1>2, <4>3
        <5> QED
          BY <4>1, <4>3, <5>1
      <4> QED
        BY <4>2, <4>3
    <3> QED
      BY <3>1, <3>2
  <2>4. other = rest
    BY <2>1, <2>2, <2>3, SeqEqual
  <2> QED
    BY <2>4 DEF other
<1>4. /\ Raised(Numbers(changed), Numbers(RemoveAt(changed, i)), changed[i].price, 1)
      /\ Raised(Totals(changed), Totals(RemoveAt(changed, i)), changed[i].price, changed[i].quantity)
  BY <1>2, RemoveRaises
<1> QED
  BY <1>2, <1>3, <1>4 DEF changed
-----------------------------------------------------------------------------
(* The printed ladders *)

\* The ladder is true to the orders of the list.
MirrorsList(ladder, orders) == Mirrors(ladder.list, Numbers(orders), Totals(orders))

\* The units at each price fit in the int of a level.
LevelsFit ==
  \A p \in Products, s \in Sides : \A c \in Nat : Totals(book[p][s])[c] <= IntMax

AllMirrored == \A p \in Products, s \in Sides : MirrorsList(levels[p][s], book[p][s])

LEMMA AddOrderMirrors ==
  ASSUME NEW ladder \in Ladder, WellKept(ladder),
         NEW orders \in Seq(Order), NEW after \in Seq(Order), NEW o \in Order,
         Raised(Numbers(after), Numbers(orders), o.price, 1),
         Raised(Totals(after), Totals(orders), o.price, o.quantity),
         Totals(after)[o.price] <= IntMax,
         MirrorsList(ladder, orders)
  PROVE  MirrorsList(AddOrderPrints(ladder, o), after)
<1>1. ladder.list \in Seq(Level) /\ Decreasing(ladder.list)
  BY DEF Ladder, WellKept, Decreasing
<1>2. /\ Counted(Numbers(orders), Totals(orders))
      /\ Counted(Numbers(after), Totals(after))
  BY CountedOrders
<1>3. o.quantity \in Nat \ {0} /\ o.price \in Nat
  BY OrderFields
<1>4. Mirrors(AddToPrints(ladder.list, o), Numbers(after), Totals(after))
  BY <1>1, <1>2, <1>3, AddMirrors DEF MirrorsList
<1>5. AddOrderPrints(ladder, o).list = AddToPrints(ladder.list, o)
  BY DEF AddOrderPrints, SetLen
<1> QED
  BY <1>4, <1>5 DEF MirrorsList

LEMMA CancelOrderMirrors ==
  ASSUME NEW ladder \in Ladder, WellKept(ladder),
         NEW orders \in Seq(Order), NEW i \in 1 .. Len(orders),
         Totals(orders)[orders[i].price] <= IntMax,
         MirrorsList(ladder, orders)
  PROVE  MirrorsList(CancelOrderPrints(ladder, orders[i]), RemoveAt(orders, i))
<1> DEFINE o == orders[i]
           after == RemoveAt(orders, i)
<1>1. o \in Order /\ after \in Seq(Order)
  BY RemoveAtFacts, ElementOfSeq
<1>2. /\ Raised(Numbers(orders), Numbers(after), o.price, 1)
      /\ Raised(Totals(orders), Totals(after), o.price, o.quantity)
  BY RemoveRaises
<1> HIDE DEF after
<1>3. /\ Counted(Numbers(orders), Totals(orders))
      /\ Counted(Numbers(after), Totals(after))
  BY <1>1, CountedOrders
<1>4. o.quantity \in Nat \ {0} /\ o.price \in Nat
  BY <1>1, OrderFields
<1>5. Totals(orders)[o.price] <= IntMax
  OBVIOUS
<1> HIDE DEF o
<1>6. Mirrors(DeleteOrderPrints(ladder, o), Numbers(after), Totals(after))
  BY <1>2, <1>3, <1>4, <1>5, DeleteMirrors DEF MirrorsList
<1>7. CancelOrderPrints(ladder, o).list = DeleteOrderPrints(ladder, o)
  BY DEF CancelOrderPrints, SetLen
<1> QED
  BY <1>6, <1>7 DEF MirrorsList, o, after

\* One list of the book changes, and its ladder with it.
LEMMA OneMirrored ==
  ASSUME book \in Lists, levels \in [Products -> [Sides -> Ladder]], AllMirrored,
         NEW p \in Products, NEW s \in Sides, NEW ladder, NEW orders,
         levels' = [levels EXCEPT ![p][s] = ladder], book' = [book EXCEPT ![p][s] = orders],
         MirrorsList(ladder, orders)
  PROVE  AllMirrored'
<1> SUFFICES ASSUME NEW q \in Products, NEW r \in Sides
             PROVE  MirrorsList(levels'[q][r], book'[q][r])
  BY DEF AllMirrored
<1>1. CASE q = p /\ r = s
  <2>1. levels'[q][r] = ladder /\ book'[q][r] = orders
    BY <1>1 DEF Lists
  <2> QED
    BY <2>1
<1>2. CASE ~ (q = p /\ r = s)
  <2>1. levels'[q][r] = levels[q][r] /\ book'[q][r] = book[q][r]
    BY <1>2 DEF Lists
  <2> QED
    BY <2>1 DEF AllMirrored
<1> QED
  BY <1>1, <1>2

LEMMA UnlistMirrors ==
  ASSUME book \in Lists, levels \in [Products -> [Sides -> Ladder]], LevelsWellKept,
         AllMirrored, LevelsFit,
         NEW p \in Products, NEW s \in Sides, NEW i \in DOMAIN book[p][s], Unlist(p, s, i)
  PROVE  AllMirrored'
<1> DEFINE orders == book[p][s]
           ladder == levels[p][s]
           after == CancelOrderPrints(ladder, orders[i])
           rest == RemoveAt(orders, i)
<1>1. /\ orders \in Seq(Order) /\ i \in 1 .. Len(orders) /\ orders[i].price \in Nat
      /\ ladder \in Ladder /\ WellKept(ladder) /\ MirrorsList(ladder, orders)
  <2>1. orders \in Seq(Order) /\ i \in 1 .. Len(orders) /\ orders[i] \in Order
    BY BookOrders
  <2>2. ladder \in Ladder /\ WellKept(ladder) /\ MirrorsList(ladder, orders)
    BY DEF AllMirrored, LevelsWellKept
  <2> QED
    BY <2>1, <2>2, OrderFields
<1>2. Totals(orders)[orders[i].price] <= IntMax
  BY <1>1 DEF LevelsFit
<1>3. levels' = [levels EXCEPT ![p][s] = after] /\ book' = [book EXCEPT ![p][s] = rest]
  BY DEF Unlist
<1> HIDE DEF orders, ladder
<1>4. MirrorsList(after, rest)
  BY <1>1, <1>2, CancelOrderMirrors
<1> HIDE DEF after, rest
<1> QED
  BY <1>3, <1>4, OneMirrored

LEMMA ReduceMirrors ==
  ASSUME book \in Lists, levels \in [Products -> [Sides -> Ladder]], LevelsWellKept,
         AllMirrored, LevelsFit, LevelsFit',
         NEW p \in Products, NEW s \in Sides, NEW i \in DOMAIN book[p][s],
         NEW n \in Nat, n < book[p][s][i].quantity, Reduce(p, s, i, n)
  PROVE  AllMirrored'
<1> DEFINE orders == book[p][s]
           ladder == levels[p][s]
           o == orders[i]
           left == [o EXCEPT !.quantity = @ - n]
           without == CancelOrderPrints(ladder, o)
           with == AddOrderPrints(without, left)
           rest == RemoveAt(orders, i)
           after == [orders EXCEPT ![i] = left]
<1>1. /\ orders \in Seq(Order) /\ i \in 1 .. Len(orders) /\ o \in Order
      /\ ladder \in Ladder /\ WellKept(ladder) /\ MirrorsList(ladder, orders)
  <2>1. orders \in Seq(Order) /\ i \in 1 .. Len(orders) /\ o \in Order
    BY BookOrders
  <2>2. ladder \in Ladder /\ WellKept(ladder) /\ MirrorsList(ladder, orders)
    BY DEF AllMirrored, LevelsWellKept
  <2> QED
    BY <2>1, <2>2
<1>2. o.price \in Nat /\ o.quantity \in Nat /\ Totals(orders)[o.price] <= IntMax
  BY <1>1, OrderFields DEF LevelsFit
<1>3. left \in Order /\ left.price = o.price
  <2>1. o.quantity - n \in 1 .. MaxQuantity
    <3>1. o.quantity <= MaxQuantity /\ MaxQuantity \in Nat
      BY <1>1, OrderFields, OrderBookAssumption, IntMaxAssumption
    <3> QED
      BY <1>2, <3>1
  <2> QED
    BY <1>1, <2>1 DEF Order
<1>4. levels' = [levels EXCEPT ![p][s] = with] /\ book' = [book EXCEPT ![p][s] = after]
  <2>1. book' = [book EXCEPT ![p][s][i] = left] /\ levels' = [levels EXCEPT ![p][s] = with]
    BY DEF Reduce
  <2>2. [book EXCEPT ![p][s][i] = left] = [book EXCEPT ![p][s] = after]
    BY DEF Lists
  <2> QED
    BY <2>1, <2>2
<1>5. Totals(after)[left.price] <= IntMax
  <2>1. book'[p][s] = after
    BY <1>4 DEF Lists
  <2>2. Totals(book'[p][s])[left.price] <= IntMax
    BY <1>2, <1>3 DEF LevelsFit
  <2> QED
    BY <2>1, <2>2
<1>6. MirrorsList(without, rest)
  <2> HIDE DEF orders, ladder
  <2> QED
    BY <1>1, <1>2, CancelOrderMirrors
<1>7. /\ Raised(Numbers(after), Numbers(rest), left.price, 1)
      /\ Raised(Totals(after), Totals(rest), left.price, left.quantity)
  <2> HIDE DEF orders, left
  <2> QED
    BY <1>1, <1>3, ReplaceRaises
<1>8. rest \in Seq(Order) /\ after \in Seq(Order)
  <2> HIDE DEF orders, left
  <2> QED
    BY <1>1, <1>3, RemoveAtFacts
<1>9. without \in Ladder /\ WellKept(without)
  <2>1. o.quantity \in Int
    BY <1>2
  <2> HIDE DEF ladder, o
  <2> QED
    BY <1>1, <1>2, <2>1, LaddersWellKept
<1> HIDE DEF orders, ladder, o, left, rest, after, without
<1>10. MirrorsList(with, after)
  BY <1>3, <1>5, <1>6, <1>7, <1>8, <1>9, AddOrderMirrors
<1> HIDE DEF with
<1> QED
  BY <1>4, <1>10, OneMirrored

LEMMA RestMirrors ==
  ASSUME book \in Lists, levels \in [Products -> [Sides -> Ladder]], LevelsWellKept,
         AllMirrored, LevelsFit', taker \in Order, Rest
  PROVE  AllMirrored'
<1> DEFINE p == taker.product
           s == taker.side
           orders == book[p][s]
           ladder == levels[p][s]
           with == AddOrderPrints(ladder, taker)
           after == Append(orders, taker)
<1>1. p \in Products /\ s \in Sides /\ taker.price \in Nat
  BY OrderFields
<1>2. /\ orders \in Seq(Order) /\ ladder \in Ladder /\ WellKept(ladder)
      /\ MirrorsList(ladder, orders)
  BY <1>1, BookOrders DEF AllMirrored, LevelsWellKept
<1>3. levels' = [levels EXCEPT ![p][s] = with] /\ book' = [book EXCEPT ![p][s] = after]
  BY DEF Rest
<1>4. Totals(after)[taker.price] <= IntMax
  <2>1. book'[p][s] = after
    BY <1>1, <1>3 DEF Lists
  <2>2. Totals(book'[p][s])[taker.price] <= IntMax
    BY <1>1 DEF LevelsFit
  <2> QED
    BY <2>1, <2>2
<1> HIDE DEF p, s, orders, ladder
<1>5. after \in Seq(Order)
  BY <1>2, AppendProperties
<1>6. /\ Raised(Numbers(after), Numbers(orders), taker.price, 1)
      /\ Raised(Totals(after), Totals(orders), taker.price, taker.quantity)
  BY <1>2, AppendRaises
<1> HIDE DEF after
<1>7. MirrorsList(with, after)
  BY <1>2, <1>4, <1>5, <1>6, AddOrderMirrors
<1> HIDE DEF with
<1> QED
  BY <1>1, <1>3, <1>7, OneMirrored

\* A message that changes a list takes one order out of it.
LEMMA MessageMirrors ==
  ASSUME IInv, AllMirrored, LevelsFit, NEW t \in Traders, NEW m \in Commands, ParseMsg(t, m)
  PROVE  AllMirrored'
<1>1. BookInv(nextId)
  BY InvariantInParts
<1>2. book \in Lists /\ levels \in [Products -> [Sides -> Ladder]] /\ LevelsWellKept
  BY <1>1 DEF BookInv
<1>3. CASE AmendMsg(t, m) \/ CancelMsg(t, m)
  <2>1. PICK at \in FindOrder(t, m.id) : Unlist(at[1], at[2], at[3])
    BY <1>3 DEF AmendMsg, CancelMsg
  <2>2. at[1] \in Products /\ at[2] \in Sides /\ at[3] \in DOMAIN book[at[1]][at[2]]
    BY <1>1, FindOrderFinds
  <2> QED
    BY <1>2, <2>1, <2>2, UnlistMirrors
<1>4. CASE BuySellMsg(t, m) \/ InvalidMsg(t, m)
  <2>1. book' = book /\ levels' = levels
    BY <1>4 DEF BuySellMsg, InvalidMsg, books
  <2> QED
    BY <2>1 DEF AllMirrored
<1> QED
  BY <1>3, <1>4 DEF ParseMsg

LEMMA MatchMirrors ==
  ASSUME IInv, AllMirrored, LevelsFit, LevelsFit', Match
  PROVE  AllMirrored'
<1>1. book \in Lists /\ levels \in [Products -> [Sides -> Ladder]] /\ LevelsWellKept
  BY InvariantInParts DEF BookInv
<1> DEFINE p == taker.product
           s == Opposite(taker.side)
           resting(i) == book[p][s][i]
           n(i) == Fewer(taker.quantity, resting(i).quantity)
<1>2. PICK i \in FindBest(taker) :
        /\ p \in Products /\ s \in Sides /\ i \in DOMAIN book[p][s]
        /\ resting(i) \in Order /\ n(i) \in Nat /\ n(i) <= resting(i).quantity
        /\ IF resting(i).quantity = n(i) THEN Unlist(p, s, i) ELSE Reduce(p, s, i, n(i))
  BY MatchTrades
<1>3. CASE resting(i).quantity = n(i)
  BY <1>1, <1>2, <1>3, UnlistMirrors
<1>4. CASE resting(i).quantity # n(i)
  <2>1. resting(i).quantity \in Nat
    BY <1>2, OrderFields
  <2> HIDE DEF n
  <2>2. n(i) < book[p][s][i].quantity /\ Reduce(p, s, i, n(i))
    BY <1>2, <1>4, <2>1
  <2> QED
    BY <1>1, <1>2, <2>2, ReduceMirrors
<1> QED
  BY <1>3, <1>4

LEMMA InitMirrors == Init => AllMirrored
<1> SUFFICES ASSUME Init, NEW p \in Products, NEW s \in Sides
             PROVE  MirrorsList(levels[p][s], book[p][s])
  BY DEF AllMirrored
<1>1. book[p][s] = <<>> /\ levels[p][s].list = <<>>
  BY DEF Init, EmptyLadder
<1>2. Members(<<>>) = {}
  BY DEF Members
<1>3. <<>> \in Seq(Order) /\ \A c : At(<<>>, c) = {}
  BY DEF At
<1>4. \A c \in Nat : ~ (Totals(<<>>)[c] # 0)
  BY <1>3, CountedOrders
<1> QED
  BY <1>1, <1>2, <1>4 DEF MirrorsList, Mirrors

\* What LevelsMirrorBook says of a ladder and a list follows.
LEMMA MirroredLevels ==
  ASSUME NEW ladder \in Ladder, NEW orders \in Seq(Order), MirrorsList(ladder, orders)
  PROVE  /\ {ladder.list[k].price : k \in DOMAIN ladder.list}
              = {orders[i].price : i \in DOMAIN orders}
         /\ \A k \in DOMAIN ladder.list :
              /\ ladder.list[k].numOrders = Cardinality(At(orders, ladder.list[k].price))
              /\ ladder.list[k].quantity
                   = SumFunctionOnSet(Quantities(orders), At(orders, ladder.list[k].price))
<1> DEFINE list == ladder.list
<1>1. list \in Seq(Level)
  BY DEF Ladder
<1>2. DOMAIN list = 1 .. Len(list) /\ \A k \in 1 .. Len(list) : list[k] \in Level
  BY <1>1, LenProperties, ElementOfSeq
<1>3. \A k \in DOMAIN list : list[k].price \in Nat /\ list[k] \in Members(list)
  BY <1>2 DEF Level, Members
<1>4. DOMAIN orders = 1 .. Len(orders) /\ \A i \in DOMAIN orders : orders[i].price \in Nat
  BY ListFacts
<1> HIDE DEF list
<1>5. \A c \in Nat : (\E lv \in Members(list) : lv.price = c) <=> At(orders, c) # {}
  BY CountedOrders DEF MirrorsList, Mirrors, list
<1>6. ASSUME NEW k \in DOMAIN list PROVE \E i \in DOMAIN orders : orders[i].price = list[k].price
  <2>1. At(orders, list[k].price) # {}
    BY <1>3, <1>5
  <2> QED
    BY <2>1 DEF At
<1>7. ASSUME NEW i \in DOMAIN orders PROVE \E k \in DOMAIN list : list[k].price = orders[i].price
  <2>1. i \in At(orders, orders[i].price)
    BY DEF At
  <2>2. PICK lv \in Members(list) : lv.price = orders[i].price
    BY <1>4, <1>5, <2>1
  <2> QED
    BY <1>2, <2>2 DEF Members
<1>8. {list[k].price : k \in DOMAIN list} = {orders[i].price : i \in DOMAIN orders}
  BY <1>6, <1>7
<1>9. ASSUME NEW k \in DOMAIN list
      PROVE  /\ list[k].numOrders = Cardinality(At(orders, list[k].price))
             /\ list[k].quantity
                  = SumFunctionOnSet(Quantities(orders), At(orders, list[k].price))
  <2>1. list[k] \in Members(list) /\ list[k].price \in Nat
    BY <1>3
  <2>2. /\ list[k].quantity = Totals(orders)[list[k].price]
        /\ list[k].numOrders = Numbers(orders)[list[k].price]
    BY <2>1 DEF MirrorsList, Mirrors, list
  <2> QED
    BY <2>1, <2>2 DEF Totals, Numbers
<1> QED
  BY <1>8, <1>9 DEF list

\* add_to_prints, delete_order_prints and their callers: as long as the units at
\* each price fit in the int of a level, each ladder lists the prices of its
\* orders, highest first, with their number and quantity.
THEOREM LaddersMirrorBook == Spec /\ []LevelsFit => []LevelsMirrorBook
<1>1. IInv /\ AllMirrored /\ LevelsFit /\ LevelsFit' /\ [Next]_vars => AllMirrored'
  <2> SUFFICES ASSUME IInv, AllMirrored, LevelsFit, LevelsFit', [Next]_vars PROVE AllMirrored'
    OBVIOUS
  <2>1. book \in Lists /\ levels \in [Products -> [Sides -> Ladder]] /\ LevelsWellKept
    BY InvariantInParts DEF BookInv
  <2>2. CASE Rest
    <3>1. taker \in Order
      BY <2>2, InvariantInParts DEF Rest, Idle, Shapes
    <3> QED
      BY <2>1, <2>2, <3>1, RestMirrors
  <2>3. CASE UNCHANGED <<book, levels>>
    BY <2>3 DEF AllMirrored
  <2>4. \/ \E t \in Traders, m \in Commands : ParseMsg(t, m)
        \/ Match \/ Rest \/ UNCHANGED <<book, levels>>
    BY DEF Next, TraderDied, Completed, vars, books
  <2> QED
    BY <2>2, <2>3, <2>4, MessageMirrors, MatchMirrors
<1>2. IInv /\ AllMirrored => LevelsMirrorBook
  <2> SUFFICES ASSUME IInv, AllMirrored, NEW p \in Products, NEW s \in Sides
               PROVE  /\ WellKept(levels[p][s])
                      /\ {levels[p][s].list[k].price : k \in DOMAIN levels[p][s].list}
                           = {book[p][s][i].price : i \in DOMAIN book[p][s]}
                      /\ \A k \in DOMAIN levels[p][s].list :
                           LET c == levels[p][s].list[k].price
                           IN  /\ levels[p][s].list[k].numOrders = Cardinality(At(book[p][s], c))
                               /\ levels[p][s].list[k].quantity
                                    = SumFunctionOnSet(Quantities(book[p][s]), At(book[p][s], c))
    BY DEF LevelsMirrorBook, At, Quantities
  <2>1. /\ levels[p][s] \in Ladder /\ WellKept(levels[p][s]) /\ book[p][s] \in Seq(Order)
        /\ MirrorsList(levels[p][s], book[p][s])
    BY InvariantInParts, BookOrders DEF BookInv, LevelsWellKept, AllMirrored
  <2> QED
    BY <2>1, MirroredLevels
<1> QED
  BY <1>1, <1>2, InitMirrors, Invariance, PTL DEF Spec
-----------------------------------------------------------------------------
(* How a trader reads its pipe *)

\* What the definition reads the messages from, the last one last.
Latest(s) == CHOOSE x \in s : \A y \in s : x >= y

Notes(g, entry, msgs, asked) ==
  g = [s \in SUBSET DOMAIN msgs |->
         IF s = {} THEN entry ELSE Note(g[s \ {Latest(s)}], msgs[Latest(s)], asked)]

LEMMA NotedIsChosen ==
  ASSUME NEW entry, NEW msgs, NEW asked
  PROVE  Noted(entry, msgs, asked) = (CHOOSE g : Notes(g, entry, msgs, asked))[DOMAIN msgs]
BY DEF Noted, FoldLeft, MapThenFoldSet, Max, Notes, Latest

\* No message, one and two.
LEMMA NotedNone ==
  ASSUME NEW entry, NEW asked
  PROVE  Noted(entry, <<>>, asked) = entry
<1> DEFINE h == [s \in SUBSET {} |-> entry]
           g == CHOOSE g : Notes(g, entry, <<>>, asked)
<1>1. DOMAIN <<>> = {}
  OBVIOUS
<1>2. Notes(h, entry, <<>>, asked)
  BY <1>1 DEF Notes
<1> HIDE DEF h
<1>3. Notes(g, entry, <<>>, asked)
  BY <1>2
<1> HIDE DEF g
<1>4. g[{}] = entry
  BY <1>1, <1>3 DEF Notes
<1> QED
  BY <1>1, <1>4, NotedIsChosen DEF g

LEMMA NotedOne ==
  ASSUME NEW entry, NEW asked, NEW a
  PROVE  Noted(entry, <<a>>, asked) = Note(entry, a, asked)
<1> DEFINE msgs == <<a>>
           h == [s \in SUBSET {1} |-> IF s = {} THEN entry ELSE Note(entry, a, asked)]
           g == CHOOSE g : Notes(g, entry, msgs, asked)
<1>1. DOMAIN msgs = {1} /\ msgs[1] = a
  OBVIOUS
<1> HIDE DEF msgs
<1>2. Latest({1}) = 1 /\ {1} \ {1} = {}
  BY DEF Latest
<1>3. \A s \in SUBSET {1} : s = {} \/ s = {1}
  OBVIOUS
<1>4. Notes(h, entry, msgs, asked)
  <2>1. ASSUME NEW s \in SUBSET {1}
        PROVE  h[s] = IF s = {} THEN entry ELSE Note(h[s \ {Latest(s)}], msgs[Latest(s)], asked)
    <3>1. CASE s = {}
      BY <3>1
    <3>2. CASE s = {1}
      BY <1>1, <1>2, <3>2
    <3> QED
      BY <1>3, <3>1, <3>2
  <2>2. h = [s \in SUBSET {1} |->
               IF s = {} THEN entry ELSE Note(h[s \ {Latest(s)}], msgs[Latest(s)], asked)]
    BY <2>1
  <2> HIDE DEF h
  <2> QED
    BY <1>1, <2>2 DEF Notes
<1> HIDE DEF h
<1>5. Notes(g, entry, msgs, asked)
  BY <1>4
<1> HIDE DEF g
<1>6. g[{}] = entry
  BY <1>1, <1>5 DEF Notes
<1>7. g[{1}] = Note(g[{1} \ {Latest({1})}], msgs[Latest({1})], asked)
  BY <1>1, <1>5 DEF Notes
<1>8. g[{1}] = Note(entry, a, asked)
  BY <1>1, <1>2, <1>6, <1>7
<1> QED
  BY <1>1, <1>8, NotedIsChosen DEF g, msgs

LEMMA NotedTwo ==
  ASSUME NEW entry, NEW asked, NEW a, NEW b
  PROVE  Noted(entry, <<a, b>>, asked) = Note(Note(entry, a, asked), b, asked)
<1> DEFINE msgs == <<a, b>>
           h == [s \in SUBSET {1, 2} |->
                   IF s = {} THEN entry
                   ELSE IF s = {1} THEN Note(entry, a, asked)
                   ELSE IF s = {2} THEN Note(entry, b, asked)
                   ELSE Note(Note(entry, a, asked), b, asked)]
           g == CHOOSE g : Notes(g, entry, msgs, asked)
<1>1. DOMAIN msgs = {1, 2} /\ msgs[1] = a /\ msgs[2] = b
  OBVIOUS
<1> HIDE DEF msgs
<1>2. /\ Latest({1}) = 1 /\ {1} \ {1} = {}
      /\ Latest({2}) = 2 /\ {2} \ {2} = {}
      /\ Latest({1, 2}) = 2 /\ {1, 2} \ {2} = {1}
  BY DEF Latest
<1>3. \A s \in SUBSET {1, 2} : s = {} \/ s = {1} \/ s = {2} \/ s = {1, 2}
  OBVIOUS
<1>4. {1} # {2} /\ {1, 2} # {1} /\ {1, 2} # {2} /\ {1} # {} /\ {2} # {} /\ {1, 2} # {}
  OBVIOUS
<1>5. /\ h[{}] = entry /\ h[{1}] = Note(entry, a, asked) /\ h[{2}] = Note(entry, b, asked)
      /\ h[{1, 2}] = Note(Note(entry, a, asked), b, asked)
  BY <1>4
<1>6. h = [s \in SUBSET {1, 2} |-> h[s]]
  OBVIOUS
<1> HIDE DEF h
<1>7. Notes(h, entry, msgs, asked)
  <2>1. ASSUME NEW s \in SUBSET {1, 2}
        PROVE  h[s] = IF s = {} THEN entry ELSE Note(h[s \ {Latest(s)}], msgs[Latest(s)], asked)
    <3>1. CASE s = {}
      BY <1>5, <3>1
    <3>2. CASE s = {1}
      BY <1>1, <1>2, <1>4, <1>5, <3>2
    <3>3. CASE s = {2}
      BY <1>1, <1>2, <1>4, <1>5, <3>3
    <3>4. CASE s = {1, 2}
      BY <1>1, <1>2, <1>4, <1>5, <3>4
    <3> QED
      BY <1>3, <3>1, <3>2, <3>3, <3>4
  <2>2. h = [s \in SUBSET {1, 2} |->
               IF s = {} THEN entry ELSE Note(h[s \ {Latest(s)}], msgs[Latest(s)], asked)]
    BY <1>6, <2>1
  <2> QED
    BY <1>1, <2>2 DEF Notes
<1>8. Notes(g, entry, msgs, asked)
  BY <1>7
<1> HIDE DEF g
<1>9. g[{}] = entry
  BY <1>1, <1>8 DEF Notes
<1>10. g[{1}] = Note(g[{1} \ {Latest({1})}], msgs[Latest({1})], asked)
  BY <1>1, <1>4, <1>8 DEF Notes
<1>11. g[{1, 2}] = Note(g[{1, 2} \ {Latest({1, 2})}], msgs[Latest({1, 2})], asked)
  BY <1>1, <1>4, <1>8 DEF Notes
<1>12. g[{1, 2}] = Note(Note(entry, a, asked), b, asked)
  BY <1>1, <1>2, <1>9, <1>10, <1>11
<1> QED
  BY <1>1, <1>12, NotedIsChosen DEF g, msgs

-----------------------------------------------------------------------------
(* The orders in the book and the one being matched *)

\* The orders in the lists b and the one being matched, if k is one.
InBook(b) == UNION {Members(b[p][s]) : p \in Products, s \in Sides}
Held(b, k) == InBook(b) \cup {o \in {k} : o # NoOrder}

Has(o, t, id) == o.trader = t /\ o.id = id

\* What the invariant says of the lists and the order being matched.
Apart(b, k) ==
  /\ b \in Lists /\ UniqueIn(b) /\ k \in Order \cup {NoOrder}
  /\ k # NoOrder => AbsentIn(b, k)

LEMMA InvariantApart ==
  /\ IInv => Apart(book, taker)
  /\ IInv' => Apart(book', taker')
BY InvariantInParts DEF BookInv, Shapes, TakerApart, Idle, Apart

LEMMA InBookMeans ==
  ASSUME NEW b \in Lists, NEW o
  PROVE  o \in InBook(b) <=> \E p \in Products, s \in Sides : \E i \in DOMAIN b[p][s] : o = b[p][s][i]
<1>1. \A p \in Products, s \in Sides : DOMAIN b[p][s] = 1 .. Len(b[p][s])
  BY BookOrders
<1>2. o \in InBook(b) <=> \E p \in Products, s \in Sides : o \in Members(b[p][s])
  BY DEF InBook
<1> QED
  BY <1>1, <1>2 DEF Members

\* No two of them are the same order.
Distinct(H) == \A o, e \in H : SameOrder(o, e) => o = e

LEMMA HeldOrders ==
  ASSUME NEW b, NEW k, Apart(b, k)
  PROVE  /\ \A o \in Held(b, k) : o \in Order
         /\ Distinct(Held(b, k))
         /\ k # NoOrder => k \notin InBook(b)
<1>1. b \in Lists /\ UniqueIn(b)
  BY DEF Apart
<1>2. ASSUME NEW o \in InBook(b), NEW e \in InBook(b), SameOrder(o, e) PROVE o = e
  <2>1. PICK p \in Products, s \in Sides : \E i \in DOMAIN b[p][s] : o = b[p][s][i]
    BY <1>1, InBookMeans
  <2>2. PICK q \in Products, r \in Sides : \E i \in DOMAIN b[q][r] : e = b[q][r][i]
    BY <1>1, InBookMeans
  <2> QED
    BY <1>1, <1>2, <2>1, <2>2 DEF UniqueIn
<1>3. ASSUME NEW o \in InBook(b) PROVE o \in Order /\ (k # NoOrder => ~ SameOrder(o, k))
  <2>1. PICK p \in Products, s \in Sides : \E i \in DOMAIN b[p][s] : o = b[p][s][i]
    BY <1>1, InBookMeans
  <2>2. o \in Order
    BY <1>1, <2>1, BookOrders
  <2> QED
    BY <2>1, <2>2 DEF AbsentIn, Apart
<1>4. k # NoOrder => k \in Order
  BY DEF Apart
<1>5. \A o, e : SameOrder(o, e) <=> SameOrder(e, o)
  BY DEF SameOrder
<1>6. \A o : SameOrder(o, o)
  BY DEF SameOrder
<1> QED
  BY <1>2, <1>3, <1>4, <1>5, <1>6 DEF Held, Distinct

\* Order id of trader t is live and wants q units, or is not live and q is 0.
Wants(H, t, id, q) ==
  \/ \E o \in H : Has(o, t, id) /\ o.quantity = q
  \/ q = 0 /\ \A o \in H : ~ Has(o, t, id)

\* What is outstanding, for any lists and any order being matched.
FindIn(b, t, id) ==
  {at \in UNION {{p} \X {s} \X DOMAIN b[p][s] : p \in Products, s \in Sides} :
     LET o == b[at[1]][at[2]][at[3]] IN o.trader = t /\ o.id = id}

OutstandingIn(b, k, t, id) ==
  SumFunction([at \in FindIn(b, t, id) |-> b[at[1]][at[2]][at[3]].quantity])
  + When(k # NoOrder /\ k.trader = t /\ k.id = id, k.quantity)

LEMMA FindInFinds ==
  ASSUME NEW b, NEW k, Apart(b, k), NEW t, NEW id
  PROVE  /\ \A at \in FindIn(b, t, id) :
              /\ at[1] \in Products /\ at[2] \in Sides /\ at[3] \in DOMAIN b[at[1]][at[2]]
              /\ at = <<at[1], at[2], at[3]>>
              /\ Has(b[at[1]][at[2]][at[3]], t, id)
              /\ b[at[1]][at[2]][at[3]] \in InBook(b)
         /\ \A o \in InBook(b) : Has(o, t, id) =>
              \E at \in FindIn(b, t, id) : o = b[at[1]][at[2]][at[3]]
<1> DEFINE F == FindIn(b, t, id)
<1>1. ASSUME NEW at \in F
      PROVE  /\ at[1] \in Products /\ at[2] \in Sides /\ at[3] \in DOMAIN b[at[1]][at[2]]
             /\ at = <<at[1], at[2], at[3]>>
             /\ Has(b[at[1]][at[2]][at[3]], t, id)
             /\ b[at[1]][at[2]][at[3]] \in InBook(b)
  <2>1. PICK p \in Products, s \in Sides : at \in {p} \X {s} \X DOMAIN b[p][s]
    BY DEF FindIn
  <2>2. at[1] = p /\ at[2] = s /\ at[3] \in DOMAIN b[p][s] /\ at = <<at[1], at[2], at[3]>>
    BY <2>1
  <2>3. Has(b[at[1]][at[2]][at[3]], t, id)
    BY DEF FindIn, Has
  <2>4. b[at[1]][at[2]][at[3]] \in InBook(b)
    BY <2>2, InBookMeans DEF Apart
  <2> QED
    BY <2>2, <2>3, <2>4
<1>2. ASSUME NEW o \in InBook(b), Has(o, t, id)
      PROVE  \E at \in F : o = b[at[1]][at[2]][at[3]]
  <2>1. PICK p \in Products, s \in Sides : \E i \in DOMAIN b[p][s] : o = b[p][s][i]
    BY InBookMeans DEF Apart
  <2>2. PICK i \in DOMAIN b[p][s] : o = b[p][s][i]
    BY <2>1
  <2> DEFINE at == <<p, s, i>>
             Places(x, y) == {x} \X {y} \X DOMAIN b[x][y]
             All == UNION {Places(x, y) : x \in Products, y \in Sides}
  <2>3. at[1] = p /\ at[2] = s /\ at[3] = i
    OBVIOUS
  <2>4. at \in Places(p, s)
    OBVIOUS
  <2>5. at \in All
    <3> HIDE DEF at, Places
    <3> QED
      BY <2>4
  <2> HIDE DEF at
  <2>6. F = {x \in All : b[x[1]][x[2]][x[3]].trader = t /\ b[x[1]][x[2]][x[3]].id = id}
    BY DEF FindIn
  <2> HIDE DEF All, F
  <2>7. at \in F
    BY <1>2, <2>2, <2>3, <2>5, <2>6 DEF Has
  <2> QED
    BY <2>2, <2>3, <2>7
<1> QED
  BY <1>1, <1>2

\* What is outstanding is the quantity of the order, if it is live.
LEMMA OutstandingIs ==
  ASSUME NEW b, NEW k, Apart(b, k), NEW t, NEW id, NEW q, Wants(Held(b, k), t, id, q)
  PROVE  OutstandingIn(b, k, t, id) = q
<1> DEFINE F == FindIn(b, t, id)
           f == [at \in F |-> b[at[1]][at[2]][at[3]].quantity]
           w == When(k # NoOrder /\ k.trader = t /\ k.id = id, k.quantity)
<1>1. OutstandingIn(b, k, t, id) = SumFunctionOnSet(f, F) + w
  BY DEF OutstandingIn, SumFunction
<1>2. w = IF k # NoOrder /\ Has(k, t, id) THEN k.quantity ELSE 0
  BY Zenon DEF When, Has
<1>3. \A at \in F : /\ at[1] \in Products /\ at[2] \in Sides /\ at[3] \in DOMAIN b[at[1]][at[2]]
                    /\ at = <<at[1], at[2], at[3]>>
                    /\ Has(b[at[1]][at[2]][at[3]], t, id)
                    /\ b[at[1]][at[2]][at[3]] \in InBook(b)
  BY FindInFinds
<1>4. \A o \in InBook(b) : Has(o, t, id) => \E at \in F : o = b[at[1]][at[2]][at[3]]
  BY FindInFinds
<1>5. \A at \in F : f[at] = b[at[1]][at[2]][at[3]].quantity
  OBVIOUS
<1> HIDE DEF F, f, w
<1>6. \A a, c \in F : a = c
  <2> SUFFICES ASSUME NEW a \in F, NEW c \in F PROVE a = c
    OBVIOUS
  <2>1. SameOrder(b[a[1]][a[2]][a[3]], b[c[1]][c[2]][c[3]])
    BY <1>3 DEF SameOrder, Has
  <2>2. a[1] = c[1] /\ a[2] = c[2] /\ a[3] = c[3]
    BY <1>3, <2>1 DEF UniqueIn, Apart
  <2> QED
    BY <1>3, <2>2
<1>7. ASSUME NEW o \in InBook(b), Has(o, t, id) PROVE OutstandingIn(b, k, t, id) = o.quantity
  <2>1. PICK at \in F : o = b[at[1]][at[2]][at[3]]
    BY <1>4, <1>7
  <2>2. F = {at}
    BY <1>6
  <2>3. o \in Held(b, k)
    BY DEF Held
  <2>4. o \in Order
    BY <2>3, HeldOrders
  <2>5. f[at] = o.quantity /\ o.quantity \in Int
    BY <1>5, <2>1, <2>4, OrderFields
  <2>6. SumFunctionOnSet(f, {at}) = f[at]
    BY <2>5, SumOfOne
  <2>7. ~ (k # NoOrder /\ Has(k, t, id))
    <3> SUFFICES ASSUME k # NoOrder, Has(k, t, id) PROVE FALSE
      OBVIOUS
    <3>1. k \in Held(b, k) /\ SameOrder(o, k)
      BY <1>7 DEF Held, SameOrder, Has
    <3> QED
      BY <2>3, <3>1, HeldOrders DEF Distinct
  <2> QED
    BY <1>1, <1>2, <2>2, <2>5, <2>6, <2>7
<1>8. ASSUME \A o \in InBook(b) : ~ Has(o, t, id) PROVE OutstandingIn(b, k, t, id) = 0 + w
  <2>1. F = {}
    BY <1>3, <1>8
  <2> QED
    BY <1>1, <2>1, SumOfNone
<1>9. CASE \E o \in Held(b, k) : Has(o, t, id) /\ o.quantity = q
  <2>1. PICK o \in Held(b, k) : Has(o, t, id) /\ o.quantity = q
    BY <1>9
  <2>2. CASE o \in InBook(b)
    BY <1>7, <2>1, <2>2
  <2>3. CASE o \notin InBook(b)
    <3>1. k # NoOrder /\ o = k
      BY <2>1, <2>3 DEF Held
    <3>2. \A e \in InBook(b) : ~ Has(e, t, id)
      <4> SUFFICES ASSUME NEW e \in InBook(b), Has(e, t, id) PROVE FALSE
        OBVIOUS
      <4>1. e \in Held(b, k) /\ SameOrder(e, o)
        BY <2>1 DEF Held, SameOrder, Has
      <4>2. e = o
        BY <2>1, <4>1, HeldOrders DEF Distinct
      <4> QED
        BY <2>3, <4>2
    <3>3. k.quantity \in Nat
      BY <2>1, <3>1, HeldOrders, OrderFields
    <3> QED
      BY <1>2, <1>8, <2>1, <3>1, <3>2, <3>3
  <2> QED
    BY <2>2, <2>3
<1>10. CASE q = 0 /\ \A o \in Held(b, k) : ~ Has(o, t, id)
  <2>1. (\A o \in InBook(b) : ~ Has(o, t, id)) /\ ~ (k # NoOrder /\ Has(k, t, id))
    BY <1>10 DEF Held
  <2> QED
    BY <1>2, <1>8, <1>10, <2>1
<1> QED
  BY <1>9, <1>10 DEF Wants

-----------------------------------------------------------------------------
(* How the actions change the orders *)

\* What replacing one of the lists does to the orders in the book.
Elsewhere(b, p, s) ==
  UNION {Members(b[a[1]][a[2]]) : a \in {a \in Products \X Sides : a[1] # p \/ a[2] # s}}

ListNow(c, b, p, s, list) == c = [b EXCEPT ![p][s] = list]

NotElsewhere(b, p, s, gone) == Elsewhere(b, p, s) \cap gone = {}

Swapped(list, old, gone, new) == Members(list) = (Members(old) \ gone) \cup new

BookSwapped(c, b, gone, new) == InBook(c) = (InBook(b) \ gone) \cup new

LEMMA OneListReplaced ==
  ASSUME NEW b \in Lists, NEW p \in Products, NEW s \in Sides, NEW list, NEW gone, NEW new,
         Swapped(list, b[p][s], gone, new), NotElsewhere(b, p, s, gone),
         NEW c, ListNow(c, b, p, s, list)
  PROVE  BookSwapped(c, b, gone, new)
<1>1. \A q \in Products, r \in Sides : c[q][r] = IF q = p /\ r = s THEN list ELSE b[q][r]
  BY DEF Lists, ListNow
<1>2. ASSUME NEW q \in Products, NEW r \in Sides, q # p \/ r # s
      PROVE  Members(b[q][r]) \cap gone = {}
  <2> DEFINE a == <<q, r>>
  <2>1. a \in Products \X Sides /\ a[1] = q /\ a[2] = r
    OBVIOUS
  <2> HIDE DEF a
  <2>2. Members(b[a[1]][a[2]]) \subseteq Elsewhere(b, p, s)
    BY <1>2, <2>1 DEF Elsewhere
  <2> QED
    BY <2>1, <2>2 DEF NotElsewhere
<1>3. \A q \in Products, r \in Sides :
        Members(c[q][r]) = IF q = p /\ r = s THEN Members(list) ELSE Members(b[q][r])
  BY <1>1
<1>4. ASSUME NEW o \in InBook(c) PROVE o \in (InBook(b) \ gone) \cup new
  <2>1. PICK q \in Products, r \in Sides : o \in Members(c[q][r])
    BY DEF InBook
  <2>2. o \in Members(b[q][r]) => o \in InBook(b)
    BY DEF InBook
  <2> QED
    BY <1>2, <1>3, <2>1, <2>2 DEF Swapped
<1>5. ASSUME NEW o \in (InBook(b) \ gone) \cup new PROVE o \in InBook(c)
  <2>1. CASE o \in InBook(b) \ gone
    <3>1. PICK q \in Products, r \in Sides : o \in Members(b[q][r])
      BY <2>1 DEF InBook
    <3>2. o \in Members(c[q][r])
      BY <1>2, <1>3, <2>1, <3>1 DEF Swapped
    <3> QED
      BY <3>2 DEF InBook
  <2>2. CASE o \in new
    <3>1. o \in Members(c[p][s])
      BY <1>3, <2>2 DEF Swapped
    <3> QED
      BY <3>1 DEF InBook
  <2> QED
    BY <2>1, <2>2
<1>6. InBook(c) = (InBook(b) \ gone) \cup new
  BY <1>4, <1>5
<1> QED
  BY <1>6 DEF BookSwapped

\* No order is in two lists, or twice in one.
LEMMA OnePlace ==
  ASSUME NEW b \in Lists, UniqueIn(b), NEW p \in Products, NEW s \in Sides, NEW i \in DOMAIN b[p][s]
  PROVE  /\ i \in 1 .. Len(b[p][s]) /\ b[p][s] \in Seq(Order)
         /\ \A j \in 1 .. Len(b[p][s]) : b[p][s][j] = b[p][s][i] => j = i
         /\ Elsewhere(b, p, s) \cap {b[p][s][i]} = {}
         /\ b[p][s][i] \in InBook(b)
<1>1. \A q \in Products, r \in Sides : DOMAIN b[q][r] = 1 .. Len(b[q][r]) /\ b[q][r] \in Seq(Order)
  BY BookOrders
<1>2. \A q \in Products, r \in Sides : \A j \in DOMAIN b[q][r] :
        b[q][r][j] = b[p][s][i] => q = p /\ r = s /\ j = i
  BY DEF UniqueIn, SameOrder
<1>3. ASSUME NEW q \in Products, NEW r \in Sides, q # p \/ r # s
      PROVE  b[p][s][i] \notin Members(b[q][r])
  BY <1>1, <1>2, <1>3 DEF Members
<1>4. b[p][s][i] \notin Elsewhere(b, p, s)
  BY <1>3 DEF Elsewhere
<1>5. b[p][s][i] \in InBook(b)
  BY InBookMeans
<1> QED
  BY <1>1, <1>2, <1>4, <1>5

TakenOut(c, b, p, s, i) == c = [b EXCEPT ![p][s] = RemoveAt(@, i)]
Updated(c, b, p, s, i, e) == c = [b EXCEPT ![p][s][i] = e]
PutIn(c, b, p, s, e) == c = [b EXCEPT ![p][s] = Append(@, e)]

LEMMA RemovedFromBook ==
  ASSUME NEW b \in Lists, UniqueIn(b), NEW p \in Products, NEW s \in Sides, NEW i \in DOMAIN b[p][s],
         NEW c, TakenOut(c, b, p, s, i)
  PROVE  BookSwapped(c, b, {b[p][s][i]}, {})
<1> DEFINE list == RemoveAt(b[p][s], i)
           gone == {b[p][s][i]}
           new == {}
<1>1. Members(list) = Members(b[p][s]) \ gone
  BY OnePlace, MembersAfterRemove
<1>2. NotElsewhere(b, p, s, gone)
  BY OnePlace DEF NotElsewhere
<1>3. ListNow(c, b, p, s, list)
  BY DEF ListNow, TakenOut
<1> HIDE DEF list, gone
<1>4. Swapped(list, b[p][s], gone, new)
  BY <1>1 DEF Swapped
<1> HIDE DEF new
<1>5. BookSwapped(c, b, gone, new)
  BY <1>2, <1>3, <1>4, OneListReplaced
<1> QED
  BY <1>5 DEF gone, new

LEMMA ReplacedInBook ==
  ASSUME NEW b \in Lists, UniqueIn(b), NEW p \in Products, NEW s \in Sides, NEW i \in DOMAIN b[p][s],
         NEW e, NEW c, Updated(c, b, p, s, i, e)
  PROVE  BookSwapped(c, b, {b[p][s][i]}, {e})
<1> DEFINE old == b[p][s]
           list == [old EXCEPT ![i] = e]
           gone == {old[i]}
           new == {e}
<1>1. NotElsewhere(b, p, s, gone)
  BY OnePlace DEF NotElsewhere
<1>2. old \in Seq(Order) /\ i \in 1 .. Len(old)
  BY OnePlace
<1>3. \A j \in 1 .. Len(old) : old[j] = old[i] => j = i
  BY OnePlace
<1>4. ListNow(c, b, p, s, list)
  BY DEF Lists, ListNow, Updated
<1>5. Members(list) = (Members(old) \ gone) \cup new
  <2> HIDE DEF old
  <2>1. Members([old EXCEPT ![i] = e]) = (Members(old) \ {old[i]}) \cup {e}
    BY <1>2, <1>3, MembersAfterUpdate, ZenonT(30)
  <2> QED
    BY <2>1
<1>6. Swapped(list, b[p][s], gone, new)
  BY <1>5 DEF Swapped
<1> HIDE DEF list, gone, new
<1>7. BookSwapped(c, b, gone, new)
  BY <1>1, <1>4, <1>6, OneListReplaced
<1> QED
  BY <1>7 DEF gone, new

LEMMA AppendedToBook ==
  ASSUME NEW b \in Lists, NEW p \in Products, NEW s \in Sides, NEW e \in Order,
         NEW c, PutIn(c, b, p, s, e)
  PROVE  BookSwapped(c, b, {}, {e})
<1> DEFINE list == Append(b[p][s], e)
           gone == {}
           new == {e}
<1>1. b[p][s] \in Seq(Order) /\ Len(b[p][s]) \in Nat
  BY BookOrders
<1>2. /\ Len(list) = Len(b[p][s]) + 1
      /\ \A j \in 1 .. Len(b[p][s]) : list[j] = b[p][s][j]
      /\ list[Len(b[p][s]) + 1] = e
  BY <1>1, AppendProperties
<1>3. ListNow(c, b, p, s, list)
  BY DEF ListNow, PutIn
<1> HIDE DEF list
<1>4. \A j \in 1 .. Len(b[p][s]) + 1 : j \in 1 .. Len(b[p][s]) \/ j = Len(b[p][s]) + 1
  BY <1>1
<1>5. \A j \in 1 .. Len(b[p][s]) : j \in 1 .. Len(b[p][s]) + 1
  BY <1>1
<1>6. Len(b[p][s]) + 1 \in 1 .. Len(b[p][s]) + 1
  BY <1>1
<1>7. Swapped(list, b[p][s], gone, new)
  BY <1>2, <1>4, <1>5, <1>6 DEF Members, Swapped
<1>8. NotElsewhere(b, p, s, gone)
  BY DEF NotElsewhere
<1> HIDE DEF gone, new, BookSwapped
<1>9. BookSwapped(c, b, gone, new)
  BY <1>3, <1>7, <1>8, OneListReplaced
<1> QED
  BY <1>9 DEF gone, new
-----------------------------------------------------------------------------
(* How what a trader wants follows the orders *)

Unfilled(q, o, t, id, n) == IF Has(o, t, id) THEN q - n ELSE q

\* An order traded n of its units.
Traded(H, o, n) ==
  (H \ {o}) \cup {e \in {[o EXCEPT !.quantity = @ - n]} : o.quantity # n}

LEMMA WantsAfterTrade ==
  ASSUME NEW H, Distinct(H), NEW o \in H, o \in Order, NEW n \in Nat,
         NEW t, NEW id, NEW q, Wants(H, t, id, q)
  PROVE  Wants(Traded(H, o, n), t, id, Unfilled(q, o, t, id, n))
<1> DEFINE H2 == Traded(H, o, n)
           less == [o EXCEPT !.quantity = @ - n]
<1>1. less.trader = o.trader /\ less.id = o.id /\ less.quantity = o.quantity - n
  BY DEF Order
<1>2. o.quantity \in Nat
  BY OrderFields
<1>3. \A e : e \in H2 <=> (e \in H /\ e # o) \/ (e = less /\ o.quantity # n)
  BY DEF Traded
<1> HIDE DEF H2, less
<1>4. Has(less, t, id) <=> Has(o, t, id)
  BY <1>1 DEF Has
<1>5. CASE Has(o, t, id)
  <2>1. \A e \in H : Has(e, t, id) => e = o
    BY <1>5 DEF Distinct, SameOrder, Has
  <2>2. q = o.quantity
    BY <1>5, <2>1 DEF Wants
  <2>3. CASE o.quantity = n
    <3>1. \A e \in H2 : ~ Has(e, t, id)
      BY <1>3, <2>1, <2>3
    <3>2. q - n = 0
      BY <1>2, <2>2, <2>3
    <3>3. Wants(H2, t, id, 0)
      BY <3>1 DEF Wants
    <3> QED
      BY <1>5, <3>2, <3>3 DEF H2, Unfilled
  <2>4. CASE o.quantity # n
    <3>1. less \in H2 /\ Has(less, t, id) /\ less.quantity = q - n
      BY <1>1, <1>3, <1>4, <1>5, <2>2, <2>4
    <3>2. Wants(H2, t, id, q - n)
      BY <3>1 DEF Wants
    <3> QED
      BY <1>5, <3>2 DEF H2, Unfilled
  <2> QED
    BY <2>3, <2>4
<1>6. CASE ~ Has(o, t, id)
  <2>1. Wants(H2, t, id, q)
    BY <1>3, <1>4, <1>6 DEF Wants
  <2> QED
    BY <1>6, <2>1 DEF H2, Unfilled
<1> QED
  BY <1>5, <1>6 DEF Unfilled

LEMMA DistinctAfterTrade ==
  ASSUME NEW H, Distinct(H), NEW o \in H, o \in Order, NEW n \in Nat
  PROVE  Distinct(Traded(H, o, n))
<1> DEFINE H2 == Traded(H, o, n)
           less == [o EXCEPT !.quantity = @ - n]
<1>1. less.trader = o.trader /\ less.id = o.id
  BY DEF Order
<1>2. \A e : e \in H2 => (e \in H /\ e # o) \/ e = less
  BY DEF Traded
<1> HIDE DEF H2, less
<1>3. Distinct(H2)
  BY <1>1, <1>2 DEF Distinct, SameOrder
<1> QED
  BY <1>3 DEF H2

\* An order is replaced by one of the same trader and ID, and no other changes.
LEMMA WantsAfterReplace ==
  ASSUME NEW H, NEW o, NEW e, Has(e, o.trader, o.id),
         NEW t, NEW id, NEW q, ~ Has(o, t, id) => Wants(H, t, id, q)
  PROVE  Wants((H \ {o}) \cup {e}, t, id, IF Has(o, t, id) THEN e.quantity ELSE q)
<1>1. Has(e, t, id) <=> Has(o, t, id)
  BY DEF Has
<1> QED
  BY <1>1 DEF Wants

\* An order is taken out.
LEMMA WantsAfterRemove ==
  ASSUME NEW H, Distinct(H), NEW o \in H,
         NEW t, NEW id, NEW q, ~ Has(o, t, id) => Wants(H, t, id, q)
  PROVE  Wants(H \ {o}, t, id, IF Has(o, t, id) THEN 0 ELSE q)
<1>1. CASE Has(o, t, id)
  <2>1. \A e \in H : Has(e, t, id) => e = o
    BY <1>1 DEF Distinct, SameOrder, Has
  <2> QED
    BY <1>1, <2>1 DEF Wants
<1>2. CASE ~ Has(o, t, id)
  BY <1>2 DEF Wants
<1> QED
  BY <1>1, <1>2

\* An order joins.
LEMMA WantsAfterJoin ==
  ASSUME NEW H, NEW e, NEW t, NEW id, NEW q, ~ Has(e, t, id) => Wants(H, t, id, q)
  PROVE  Wants(H \cup {e}, t, id, IF Has(e, t, id) THEN e.quantity ELSE q)
BY DEF Wants

-----------------------------------------------------------------------------
(* How the messages change what is written down *)

DueType == due \in [Traders -> [0 .. MaxOrderId -> Int]]

\* What each kind of message does to what a trader has written down.
LEMMA NotedAck ==
  ASSUME NEW entry \in [0 .. MaxOrderId -> Int], NEW type \in {"ACCEPTED", "AMENDED"}, NEW i,
         NEW asked \in Int
  PROVE  /\ Note(entry, Ack(type, i), asked) \in [0 .. MaxOrderId -> Int]
         /\ \A id \in 0 .. MaxOrderId :
              Note(entry, Ack(type, i), asked)[id] = IF id = i THEN asked ELSE entry[id]
<1>1. Note(entry, Ack(type, i), asked) = [entry EXCEPT ![i] = asked]
  BY DEF Note, Ack
<1> QED
  BY <1>1

LEMMA NotedCancel ==
  ASSUME NEW entry \in [0 .. MaxOrderId -> Int], NEW i, NEW asked
  PROVE  /\ Note(entry, Ack("CANCELLED", i), asked) \in [0 .. MaxOrderId -> Int]
         /\ \A id \in 0 .. MaxOrderId :
              Note(entry, Ack("CANCELLED", i), asked)[id] = IF id = i THEN 0 ELSE entry[id]
<1> DEFINE none == 0
<1>1. Note(entry, Ack("CANCELLED", i), asked) = [entry EXCEPT ![i] = none]
  BY DEF Note, Ack
<1>2. none \in Int
  OBVIOUS
<1> HIDE DEF none
<1>3. /\ [entry EXCEPT ![i] = none] \in [0 .. MaxOrderId -> Int]
      /\ \A id \in 0 .. MaxOrderId :
           [entry EXCEPT ![i] = none][id] = IF id = i THEN none ELSE entry[id]
  BY <1>2
<1> QED
  BY <1>1, <1>3 DEF none

FillTaken(new, entry, i, n) ==
  /\ new \in [0 .. MaxOrderId -> Int]
  /\ \A id \in 0 .. MaxOrderId : new[id] = IF id = i THEN entry[id] - n ELSE entry[id]

LEMMA NotedFill ==
  ASSUME NEW entry \in [0 .. MaxOrderId -> Int], NEW i, NEW n \in Nat, NEW asked
  PROVE  FillTaken(Note(entry, Fill(i, n), asked), entry, i, n)
<1> DEFINE v == entry[i] - n
<1>1. Note(entry, Fill(i, n), asked) = [entry EXCEPT ![i] = v]
  BY DEF Note, Fill
<1>2. i \in 0 .. MaxOrderId => v \in Int
  OBVIOUS
<1> HIDE DEF v
<1>3. /\ [entry EXCEPT ![i] = v] \in [0 .. MaxOrderId -> Int]
      /\ \A id \in 0 .. MaxOrderId : [entry EXCEPT ![i] = v][id] = IF id = i THEN v ELSE entry[id]
  BY <1>2
<1> QED
  BY <1>1, <1>3 DEF v, FillTaken

LEMMA NotedInvalid ==
  ASSUME NEW entry, NEW asked
  PROVE  Note(entry, Invalid, asked) = entry
BY DEF Note, Invalid

LEMMA NotedMarket ==
  ASSUME NEW entry, NEW asked, NEW s, NEW p, NEW q, NEW c
  PROVE  Note(entry, Market(s, p, q, c), asked) = entry
BY DEF Note, Market

DueReplaced(t, entry) == due' = [u \in Traders |-> IF u = t THEN entry ELSE due[u]]

LEMMA AnnouncedNoted ==
  ASSUME NEW asked, Read(asked), NEW t \in Traders, NEW answer, NEW s, NEW p, NEW q, NEW c,
         Announce(t, answer, Market(s, p, q, c)), DueType
  PROVE  DueReplaced(t, Note(due[t], answer, asked))
<1> DEFINE news == Market(s, p, q, c)
<1>1. out' = [u \in Traders |-> IF u = t THEN <<answer>> ELSE IF alive[u] THEN <<news>> ELSE <<>>]
  BY DEF Announce
<1>2. ASSUME NEW e PROVE Note(e, news, asked) = e
  BY NotedMarket
<1> HIDE DEF news
<1>3. due' = [u \in Traders |-> Noted(due[u], out'[u], asked)]
  BY DEF Read
<1>4. ASSUME NEW u \in Traders
      PROVE  Noted(due[u], out'[u], asked) = IF u = t THEN Note(due[t], answer, asked) ELSE due[u]
  <2>1. CASE u = t
    <3>1. out'[u] = <<answer>>
      BY <1>1, <2>1
    <3> QED
      BY <2>1, <3>1, NotedOne
  <2>2. CASE u # t /\ alive[u]
    <3>1. out'[u] = <<news>>
      BY <1>1, <2>2
    <3> QED
      BY <1>2, <2>2, <3>1, NotedOne
  <2>3. CASE u # t /\ ~ alive[u]
    <3>1. out'[u] = <<>>
      BY <1>1, <2>3
    <3> QED
      BY <2>3, <3>1, NotedNone
  <2> QED
    BY <2>1, <2>2, <2>3
<1>5. due' = [u \in Traders |-> IF u = t THEN Note(due[t], answer, asked) ELSE due[u]]
  BY <1>3, <1>4
<1> QED
  BY <1>5 DEF DueReplaced

\* The traders are told nothing, or that a message was invalid.
LEMMA NothingNoted ==
  ASSUME NEW asked, Read(asked), DueType,
         \A t \in Traders : out'[t] = <<>> \/ out'[t] = <<Invalid>>
  PROVE  due' = due
<1>1. due' = [u \in Traders |-> Noted(due[u], out'[u], asked)]
  BY DEF Read
<1>2. \A u \in Traders : Noted(due[u], out'[u], asked) = due[u]
  <2> SUFFICES ASSUME NEW u \in Traders PROVE Noted(due[u], out'[u], asked) = due[u]
    OBVIOUS
  <2>1. CASE out'[u] = <<>>
    BY <2>1, NotedNone
  <2>2. CASE out'[u] = <<Invalid>>
    BY <2>2, NotedOne, NotedInvalid
  <2> QED
    BY <2>1, <2>2
<1>3. due' = [u \in Traders |-> due[u]]
  BY <1>1, <1>2
<1> QED
  BY <1>3 DEF DueType

LEMMA JoinedSeqs ==
  ASSUME NEW x, NEW y
  PROVE  /\ <<x>> \o <<>> = <<x>> /\ <<>> \o <<y>> = <<y>>
         /\ <<x>> \o <<y>> = <<x, y>>
         /\ <<>> \o <<>> = <<>>
<1> DEFINE S == {x, y}
           a == <<x>>
           b == <<y>>
           c == <<x, y>>
           e == <<>>
<1>1. a \in Seq(S) /\ b \in Seq(S) /\ c \in Seq(S) /\ e \in Seq(S)
  OBVIOUS
<1>2. Len(a) = 1 /\ a[1] = x /\ Len(b) = 1 /\ b[1] = y /\ Len(c) = 2 /\ c[1] = x /\ c[2] = y
  OBVIOUS
<1> HIDE DEF S, a, b, c
<1>3. a \o e = a /\ e \o b = b /\ e \o e = e
  BY <1>1, ConcatEmptySeq
<1>4. a \o b = c
  <2> DEFINE ab == a \o b
  <2>1. /\ ab \in Seq(S)
        /\ Len(ab) = Len(a) + Len(b)
        /\ \A i \in 1 .. Len(a) + Len(b) :
             ab[i] = IF i <= Len(a) THEN a[i] ELSE b[i - Len(a)]
    BY <1>1, ConcatProperties
  <2> HIDE DEF ab
  <2>2. Len(ab) = 2 /\ \A i \in 1 .. 2 : ab[i] = IF i <= 1 THEN a[i] ELSE b[i - 1]
    BY <1>2, <2>1
  <2>3. ab[1] = a[1] /\ ab[2] = b[1]
    BY <2>2
  <2>4. \A i \in 1 .. 2 : i = 1 \/ i = 2
    OBVIOUS
  <2>5. \A i \in 1 .. 2 : ab[i] = c[i]
    BY <1>2, <2>3, <2>4
  <2>6. ab = c
    BY <1>1, <1>2, <2>1, <2>2, <2>5, SeqEqual
  <2> QED
    BY <2>6 DEF ab
<1> QED
  BY <1>3, <1>4 DEF a, b, c

\* A live trader takes its fills off what it has written down.
LEMMA FillsNoted ==
  ASSUME Read(0), DueType, NEW buy, NEW sell, NEW n \in Nat, WriteFill(buy, sell, n)
  PROVE  /\ DueType'
         /\ \A t \in Traders, id \in 0 .. MaxOrderId :
              alive[t] => due'[t][id] = Unfilled(Unfilled(due[t][id], buy, t, id, n), sell, t, id, n)
<1> DEFINE b == Fill(buy.id, n)
           s == Fill(sell.id, n)
<1>1. due' = [t \in Traders |-> Noted(due[t], out'[t], 0)]
  BY DEF Read
<1>2. ASSUME NEW t \in Traders
      PROVE  /\ Noted(due[t], out'[t], 0) \in [0 .. MaxOrderId -> Int]
             /\ \A id \in 0 .. MaxOrderId :
                  alive[t] => Noted(due[t], out'[t], 0)[id]
                                = Unfilled(Unfilled(due[t][id], buy, t, id, n), sell, t, id, n)
  <2> DEFINE first == IF t = buy.trader /\ alive[t] THEN <<b>> ELSE <<>>
             second == IF t = sell.trader /\ alive[t] THEN <<s>> ELSE <<>>
             entry == due[t]
             after == Noted(entry, out'[t], 0)
  <2>1. out'[t] = first \o second
    BY DEF WriteFill
  <2>2. entry \in [0 .. MaxOrderId -> Int]
    BY DEF DueType
  <2> HIDE DEF entry
  <2>3. ASSUME NEW e \in [0 .. MaxOrderId -> Int]
        PROVE  FillTaken(Note(e, b, 0), e, buy.id, n)
    BY NotedFill, Zenon
  <2>4. ASSUME NEW e \in [0 .. MaxOrderId -> Int]
        PROVE  FillTaken(Note(e, s, 0), e, sell.id, n)
    BY NotedFill, Zenon
  <2> HIDE DEF b, s
  <2>5. /\ <<b>> \o <<>> = <<b>> /\ <<>> \o <<s>> = <<s>>
        /\ <<b>> \o <<s>> = <<b, s>>
        /\ <<>> \o <<>> = <<>>
    BY JoinedSeqs
  <2> HIDE DEF first, second
  <2>6. CASE ~ alive[t] \/ (t # buy.trader /\ t # sell.trader)
    <3>1. first = <<>> /\ second = <<>>
      BY <2>6 DEF first, second
    <3>2. out'[t] = <<>>
      BY <2>1, <2>5, <3>1
    <3>3. after = entry
      BY <3>2, NotedNone
    <3> HIDE DEF after
    <3> QED
      BY <2>2, <2>6, <3>3 DEF after, entry, Unfilled, Has
  <2>7. CASE alive[t] /\ t = buy.trader /\ t # sell.trader
    <3>1. first = <<b>> /\ second = <<>>
      BY <2>7 DEF first, second
    <3>2. out'[t] = <<b>>
      BY <2>1, <2>5, <3>1
    <3>3. after = Note(entry, b, 0)
      BY <3>2, NotedOne
    <3> HIDE DEF after
    <3>4. /\ after \in [0 .. MaxOrderId -> Int]
          /\ \A id \in 0 .. MaxOrderId : after[id] = Unfilled(entry[id], buy, t, id, n)
      BY <2>2, <2>3, <2>7, <3>3 DEF Unfilled, Has, FillTaken
    <3>5. \A q, id : Unfilled(q, sell, t, id, n) = q
      BY <2>7 DEF Unfilled, Has, FillTaken
    <3> QED
      BY <3>4, <3>5 DEF after, entry
  <2>8. CASE alive[t] /\ t # buy.trader /\ t = sell.trader
    <3>1. first = <<>> /\ second = <<s>>
      BY <2>8 DEF first, second
    <3>2. out'[t] = <<s>>
      BY <2>1, <2>5, <3>1
    <3>3. after = Note(entry, s, 0)
      BY <3>2, NotedOne
    <3> HIDE DEF after
    <3>4. /\ after \in [0 .. MaxOrderId -> Int]
          /\ \A id \in 0 .. MaxOrderId : after[id] = Unfilled(entry[id], sell, t, id, n)
      BY <2>2, <2>4, <2>8, <3>3 DEF Unfilled, Has, FillTaken
    <3>5. \A q, id : Unfilled(q, buy, t, id, n) = q
      BY <2>8 DEF Unfilled, Has, FillTaken
    <3> QED
      BY <3>4, <3>5 DEF after, entry
  <2>9. CASE alive[t] /\ t = buy.trader /\ t = sell.trader
    <3>1. first = <<b>> /\ second = <<s>>
      BY <2>9 DEF first, second
    <3>2. out'[t] = <<b, s>>
      BY <2>1, <2>5, <3>1
    <3>3. after = Note(Note(entry, b, 0), s, 0)
      BY <3>2, NotedTwo
    <3> HIDE DEF after
    <3> DEFINE mid == Note(entry, b, 0)
    <3>4. /\ mid \in [0 .. MaxOrderId -> Int]
          /\ \A id \in 0 .. MaxOrderId : mid[id] = Unfilled(entry[id], buy, t, id, n)
      BY <2>2, <2>3, <2>9 DEF Unfilled, Has, FillTaken
    <3> HIDE DEF mid
    <3>5. after = Note(mid, s, 0)
      BY <3>3 DEF mid
    <3>6. /\ after \in [0 .. MaxOrderId -> Int]
          /\ \A id \in 0 .. MaxOrderId : after[id] = Unfilled(mid[id], sell, t, id, n)
      BY <2>4, <2>9, <3>4, <3>5 DEF Unfilled, Has, FillTaken
    <3> QED
      BY <3>4, <3>6 DEF after, entry
  <2> QED
    BY <2>6, <2>7, <2>8, <2>9
<1> QED
  BY <1>1, <1>2 DEF DueType

-----------------------------------------------------------------------------
(* What a trader knows of its orders *)

\* Every live trader has written down what it wants.
KnownTo(live, d, H) ==
  \A t \in Traders, id \in 0 .. MaxOrderId : live[t] => Wants(H, t, id, d[t][id])

Knows == DueType /\ KnownTo(alive, due, Held(book, taker))

EntryIs(new, entry, i, v) ==
  /\ new \in [0 .. MaxOrderId -> Int]
  /\ \A id \in 0 .. MaxOrderId : new[id] = IF id = i THEN v ELSE entry[id]

DueAt(t, i, v) ==
  \A u \in Traders, id \in 0 .. MaxOrderId :
    due'[u][id] = IF u = t /\ id = i THEN v ELSE due[u][id]

LEMMA OneNoted ==
  ASSUME DueType, NEW t \in Traders, NEW i, NEW v, NEW entry,
         EntryIs(entry, due[t], i, v), DueReplaced(t, entry)
  PROVE  DueType' /\ DueAt(t, i, v)
BY DEF DueType, EntryIs, DueReplaced, DueAt

LEMMA HeldIdle ==
  ASSUME NEW b, NEW k
  PROVE  /\ k = NoOrder => Held(b, k) = InBook(b)
         /\ k # NoOrder => Held(b, k) = InBook(b) \cup {k}
BY DEF Held

LEMMA NoOrderApart ==
  ASSUME NEW o \in Order
  PROVE  o # NoOrder
BY OrderBookAssumption

LEMMA BuySellKnown ==
  ASSUME IInv, Knows, Idle, NEW t \in Traders, NEW m \in Commands, BuySellMsg(t, m), Read(Asked(m))
  PROVE  Knows'
<1> DEFINE H == InBook(book)
           o == taker'
           entry == Note(due[t], Ack("ACCEPTED", m.id), m.quantity)
<1>1. /\ m.type \in {"BUY", "SELL"} /\ m.quantity \in Int
      /\ o = [trader |-> t, id |-> m.id, product |-> m.product, side |-> OrderSide(m),
              quantity |-> m.quantity, price |-> m.price]
      /\ Announce(t, Ack("ACCEPTED", m.id), Market(OrderSide(m), m.product, m.quantity, m.price))
      /\ UNCHANGED <<book, alive>>
  BY DEF BuySellMsg, ValidNew, ValidTerms, books
<1>2. o.trader = t /\ o.id = m.id /\ o.quantity = m.quantity
  BY <1>1
<1>3. Asked(m) = m.quantity
  BY <1>1 DEF Asked
<1>4. DueType
  BY DEF Knows
<1>5. DueReplaced(t, entry)
  BY <1>1, <1>3, <1>4, AnnouncedNoted
<1>6. due[t] \in [0 .. MaxOrderId -> Int]
  BY <1>4 DEF DueType
<1>7. EntryIs(entry, due[t], m.id, m.quantity)
  BY <1>1, <1>6, NotedAck DEF EntryIs
<1> HIDE DEF entry
<1>8. DueType' /\ DueAt(t, m.id, m.quantity)
  BY <1>4, <1>5, <1>7, OneNoted
<1>9. IInv'
  BY BuySellMsgKeeps
<1>10. o # NoOrder
  <2>1. o \in Order
    <3>1. m.product \in Products /\ m.id \in Nat /\ OrderSide(m) \in Sides
      BY DEF BuySellMsg, ValidNew, OrderSide, Sides
    <3> QED
      BY <1>1, <3>1 DEF BuySellMsg, ValidNew, ValidTerms, Order
  <2> QED
    BY <2>1, NoOrderApart
<1>11. Held(book, taker) = H /\ Held(book', taker') = H \cup {o}
  BY <1>1, <1>10, HeldIdle DEF Idle
<1> HIDE DEF H, o
<1>12. ASSUME NEW u \in Traders, NEW id \in 0 .. MaxOrderId, alive[u]
       PROVE  Wants(H \cup {o}, u, id, due'[u][id])
  <2>1. Wants(H, u, id, due[u][id])
    BY <1>11, <1>12 DEF Knows, KnownTo
  <2>2. Wants(H \cup {o}, u, id, IF Has(o, u, id) THEN o.quantity ELSE due[u][id])
    BY <2>1, WantsAfterJoin
  <2>3. due'[u][id] = IF Has(o, u, id) THEN o.quantity ELSE due[u][id]
    BY <1>2, <1>8 DEF Has, DueAt
  <2> QED
    BY <2>2, <2>3
<1>13. KnownTo(alive, due', H \cup {o})
  BY <1>12 DEF KnownTo
<1> QED
  BY <1>1, <1>8, <1>11, <1>13 DEF Knows

\* find_order finds the order of that trader with that ID.
LEMMA FindOrderHas ==
  ASSUME IInv, NEW t, NEW id, NEW at \in FindOrder(t, id)
  PROVE  /\ at[1] \in Products /\ at[2] \in Sides /\ at[3] \in DOMAIN book[at[1]][at[2]]
         /\ Has(book[at[1]][at[2]][at[3]], t, id)
         /\ book[at[1]][at[2]][at[3]] \in InBook(book)
<1>1. FindOrder(t, id) = FindIn(book, t, id)
  BY DEF FindOrder, FindIn
<1>2. Apart(book, taker)
  BY InvariantApart
<1> QED
  BY <1>1, <1>2, FindInFinds

LEMMA AmendKnown ==
  ASSUME IInv, Knows, Idle, NEW t \in Traders, NEW m \in Commands, AmendMsg(t, m), Read(Asked(m))
  PROVE  Knows'
<1>1. PICK at \in FindOrder(t, m.id) :
        /\ taker' = [book[at[1]][at[2]][at[3]] EXCEPT !.quantity = m.quantity, !.price = m.price]
        /\ Announce(t, Ack("AMENDED", book[at[1]][at[2]][at[3]].id),
                       Market(book[at[1]][at[2]][at[3]].side, book[at[1]][at[2]][at[3]].product,
                              m.quantity, m.price))
        /\ Unlist(at[1], at[2], at[3])
  BY DEF AmendMsg
<1> DEFINE o == book[at[1]][at[2]][at[3]]
           e == taker'
           H == InBook(book)
           entry == Note(due[t], Ack("AMENDED", m.id), m.quantity)
<1>2. Apart(book, taker) /\ DueType
  BY InvariantApart DEF Knows
<1>3. /\ at[1] \in Products /\ at[2] \in Sides /\ at[3] \in DOMAIN book[at[1]][at[2]]
      /\ Has(o, t, m.id) /\ o \in H
  BY FindOrderHas
<1>4. o \in Order
  BY <1>2, <1>3, HeldOrders DEF Held
<1>5. e.trader = o.trader /\ e.id = o.id /\ e.quantity = m.quantity /\ o.id = m.id
  BY <1>1, <1>3, <1>4 DEF Order, Has
<1>6. m.type = "AMEND" /\ m.quantity \in 1 .. MaxQuantity /\ m.price \in 1 .. MaxPrice /\ alive' = alive
  BY DEF AmendMsg, ValidAmend, ValidTerms
<1>7. e \in Order
  BY <1>1, <1>4, <1>6 DEF Order
<1>8. Asked(m) = m.quantity
  BY <1>6 DEF Asked
<1>9. DueReplaced(t, entry)
  <2>1. Announce(t, Ack("AMENDED", m.id), Market(o.side, o.product, m.quantity, m.price))
    BY <1>1, <1>5
  <2> QED
    BY <1>2, <1>8, <2>1, AnnouncedNoted
<1>10. due[t] \in [0 .. MaxOrderId -> Int] /\ m.quantity \in Int
  BY <1>2, <1>6 DEF DueType
<1>11. EntryIs(entry, due[t], m.id, m.quantity)
  BY <1>10, NotedAck DEF EntryIs
<1> HIDE DEF entry
<1>12. DueType' /\ DueAt(t, m.id, m.quantity)
  BY <1>2, <1>9, <1>11, OneNoted
<1>13. InBook(book') = H \ {o}
  <2>1. TakenOut(book', book, at[1], at[2], at[3])
    BY <1>1 DEF Unlist, TakenOut
  <2>2. BookSwapped(book', book, {o}, {})
    BY <1>2, <1>3, <2>1, RemovedFromBook DEF Apart
  <2> QED
    BY <2>2 DEF BookSwapped
<1>14. Held(book, taker) = H /\ Held(book', taker') = (H \ {o}) \cup {e}
  BY <1>7, <1>13, HeldIdle, NoOrderApart DEF Idle
<1> HIDE DEF H, o, e
<1>15. ASSUME NEW u \in Traders, NEW id \in 0 .. MaxOrderId, alive[u]
       PROVE  Wants((H \ {o}) \cup {e}, u, id, due'[u][id])
  <2>1. Wants(H, u, id, due[u][id])
    BY <1>14, <1>15 DEF Knows, KnownTo
  <2>2. Has(e, o.trader, o.id)
    BY <1>5 DEF Has
  <2>3. Wants((H \ {o}) \cup {e}, u, id, IF Has(o, u, id) THEN e.quantity ELSE due[u][id])
    BY <2>1, <2>2, WantsAfterReplace
  <2>4. due'[u][id] = IF Has(o, u, id) THEN e.quantity ELSE due[u][id]
    BY <1>3, <1>5, <1>12 DEF Has, DueAt
  <2> QED
    BY <2>3, <2>4
<1>16. KnownTo(alive, due', (H \ {o}) \cup {e})
  BY <1>15 DEF KnownTo
<1> QED
  BY <1>6, <1>12, <1>14, <1>16 DEF Knows

LEMMA CancelKnown ==
  ASSUME IInv, Knows, Idle, NEW t \in Traders, NEW m \in Commands, CancelMsg(t, m), Read(Asked(m))
  PROVE  Knows'
<1>1. PICK at \in FindOrder(t, m.id) :
        /\ Announce(t, Ack("CANCELLED", m.id),
                       Market(book[at[1]][at[2]][at[3]].side, book[at[1]][at[2]][at[3]].product, 0, 0))
        /\ Unlist(at[1], at[2], at[3])
  BY DEF CancelMsg
<1> DEFINE o == book[at[1]][at[2]][at[3]]
           H == InBook(book)
           entry == Note(due[t], Ack("CANCELLED", m.id), Asked(m))
           none == 0
<1>2. Apart(book, taker) /\ DueType
  BY InvariantApart DEF Knows
<1>3. /\ at[1] \in Products /\ at[2] \in Sides /\ at[3] \in DOMAIN book[at[1]][at[2]]
      /\ Has(o, t, m.id) /\ o \in H
  BY FindOrderHas
<1>4. alive' = alive /\ taker' = taker
  BY DEF CancelMsg
<1>5. DueReplaced(t, entry)
  BY <1>1, <1>2, AnnouncedNoted
<1>6. due[t] \in [0 .. MaxOrderId -> Int]
  BY <1>2 DEF DueType
<1>7. EntryIs(entry, due[t], m.id, none)
  BY <1>6, NotedCancel DEF EntryIs
<1> HIDE DEF entry, none
<1>8. DueType' /\ DueAt(t, m.id, none)
  BY <1>2, <1>5, <1>7, OneNoted
<1>9. InBook(book') = H \ {o}
  <2>1. TakenOut(book', book, at[1], at[2], at[3])
    BY <1>1 DEF Unlist, TakenOut
  <2>2. BookSwapped(book', book, {o}, {})
    BY <1>2, <1>3, <2>1, RemovedFromBook DEF Apart
  <2> QED
    BY <2>2 DEF BookSwapped
<1>10. Held(book, taker) = H /\ Held(book', taker') = H \ {o}
  BY <1>4, <1>9, HeldIdle DEF Idle
<1>11. Distinct(H)
  BY <1>2, <1>10, HeldOrders
<1> HIDE DEF H, o
<1>12. ASSUME NEW u \in Traders, NEW id \in 0 .. MaxOrderId, alive[u]
       PROVE  Wants(H \ {o}, u, id, due'[u][id])
  <2>1. Wants(H, u, id, due[u][id])
    BY <1>10, <1>12 DEF Knows, KnownTo
  <2>2. Wants(H \ {o}, u, id, IF Has(o, u, id) THEN none ELSE due[u][id])
    BY <1>3, <1>11, <2>1, WantsAfterRemove DEF none
  <2>3. due'[u][id] = IF Has(o, u, id) THEN none ELSE due[u][id]
    BY <1>3, <1>8 DEF Has, DueAt
  <2> QED
    BY <2>2, <2>3
<1>13. KnownTo(alive, due', H \ {o})
  BY <1>12 DEF KnownTo
<1> QED
  BY <1>4, <1>8, <1>10, <1>13 DEF Knows

\* Steps that change neither the orders nor what is known of them; a trader
\* may die.
LEMMA QuietKnown ==
  ASSUME Knows, UNCHANGED <<book, taker, due>>, \A t \in Traders : alive'[t] => alive[t]
  PROVE  Knows'
BY DEF Knows, KnownTo, DueType

\* What is left of the taker joins the book.
LEMMA RestKnown ==
  ASSUME IInv, Knows, Rest, Read(0)
  PROVE  Knows'
<1>1. Apart(book, taker) /\ DueType
  BY InvariantApart DEF Knows
<1>2. /\ taker # NoOrder
      /\ book' = [book EXCEPT ![taker.product][taker.side] = Append(@, taker)]
      /\ taker' = NoOrder /\ alive' = alive
      /\ out' = [t \in Traders |-> <<>>]
  BY DEF Rest, Idle
<1>3. due' = due
  BY <1>1, <1>2, NothingNoted
<1>4. taker \in Order /\ taker.product \in Products /\ taker.side \in Sides
  BY <1>1, <1>2, OrderFields DEF Apart
<1>5. InBook(book') = InBook(book) \cup {taker}
  <2>1. PutIn(book', book, taker.product, taker.side, taker)
    BY <1>2 DEF PutIn
  <2>2. BookSwapped(book', book, {}, {taker})
    BY <1>1, <1>4, <2>1, AppendedToBook DEF Apart
  <2> QED
    BY <2>2 DEF BookSwapped
<1>6. Held(book', taker') = Held(book, taker)
  BY <1>2, <1>5, HeldIdle
<1> QED
  BY <1>2, <1>3, <1>6 DEF Knows, KnownTo, DueType

\* Two orders traded n units with each other.
LessOf(o, n) == [o EXCEPT !.quantity = @ - n]

BothTraded(G, H, a, b, n) ==
  \A e : e \in G <=> \/ e \in H /\ e # a /\ e # b
                     \/ e = LessOf(a, n) /\ a.quantity # n
                     \/ e = LessOf(b, n) /\ b.quantity # n

LEMMA WantsAfterBoth ==
  ASSUME NEW H, Distinct(H), NEW a \in H, NEW b \in H, a # b, a \in Order, b \in Order,
         NEW n \in Nat, NEW G, BothTraded(G, H, a, b, n),
         NEW t, NEW id, NEW q, Wants(H, t, id, q)
  PROVE  Wants(G, t, id, Unfilled(Unfilled(q, a, t, id, n), b, t, id, n))
<1> DEFINE M == Traded(H, a, n)
           N == Traded(M, b, n)
<1>1. LessOf(a, n) # b
  <2>1. ~ SameOrder(a, b)
    BY DEF Distinct
  <2>2. LessOf(a, n).trader = a.trader /\ LessOf(a, n).id = a.id
    BY DEF LessOf, Order
  <2> QED
    BY <2>1, <2>2 DEF SameOrder
<1>2. \A e : e \in M <=> (e \in H /\ e # a) \/ (e = LessOf(a, n) /\ a.quantity # n)
  BY DEF Traded, LessOf
<1>3. Distinct(M)
  BY DistinctAfterTrade
<1>4. Wants(M, t, id, Unfilled(q, a, t, id, n))
  BY WantsAfterTrade
<1> HIDE DEF M
<1>5. b \in M
  BY <1>2
<1>6. Wants(N, t, id, Unfilled(Unfilled(q, a, t, id, n), b, t, id, n))
  BY <1>3, <1>4, <1>5, WantsAfterTrade
<1>7. \A e : e \in N <=> (e \in M /\ e # b) \/ (e = LessOf(b, n) /\ b.quantity # n)
  BY DEF Traded, LessOf
<1> HIDE DEF N
<1>8. N = G
  BY <1>1, <1>2, <1>7 DEF BothTraded
<1> QED
  BY <1>6, <1>8

LEMMA MatchKnown ==
  ASSUME IInv, Knows, Match, Read(0)
  PROVE  Knows'
<1> DEFINE p == taker.product
           s == Opposite(taker.side)
<1>1. PICK i \in FindBest(taker) :
        LET resting == book[p][s][i]
            n == Fewer(taker.quantity, resting.quantity)
        IN  /\ IF taker.side = "buy" THEN WriteFill(taker, resting, n)
                                     ELSE WriteFill(resting, taker, n)
            /\ IF resting.quantity = n THEN Unlist(p, s, i) ELSE Reduce(p, s, i, n)
            /\ taker' = IF taker.quantity = n THEN NoOrder
                                              ELSE [taker EXCEPT !.quantity = @ - n]
  BY DEF Match
<1> DEFINE resting == book[p][s][i]
           n == Fewer(taker.quantity, resting.quantity)
           H == Held(book, taker)
           G == Held(book', taker')
<1>2. Apart(book, taker) /\ DueType /\ taker # NoOrder /\ alive' = alive
  BY InvariantApart DEF Knows, Match, Idle
<1>3. taker \in Order /\ p \in Products /\ s \in Sides /\ i \in DOMAIN book[p][s]
  BY <1>2, OrderFields DEF Apart, FindBest
<1>4. resting \in InBook(book)
  BY <1>2, <1>3, OnePlace DEF Apart
<1>5. /\ resting \in H /\ taker \in H /\ resting # taker /\ resting \in Order /\ Distinct(H)
      /\ \A e : e \in H <=> e \in InBook(book) \/ e = taker
      /\ taker \notin InBook(book)
  <2>1. H = InBook(book) \cup {taker}
    BY <1>2, HeldIdle
  <2>2. taker \notin InBook(book) /\ Distinct(H)
    BY <1>2, HeldOrders
  <2>3. \A e \in H : e \in Order
    BY <1>2, HeldOrders
  <2> HIDE DEF H
  <2> QED
    BY <1>4, <2>1, <2>2, <2>3
<1>6. n \in Nat
  BY <1>3, <1>5, OrderFields DEF Fewer
<1>7. /\ IF taker.side = "buy" THEN WriteFill(taker, resting, n) ELSE WriteFill(resting, taker, n)
      /\ IF resting.quantity = n THEN Unlist(p, s, i) ELSE Reduce(p, s, i, n)
      /\ taker' = IF taker.quantity = n THEN NoOrder ELSE LessOf(taker, n)
  BY <1>1 DEF LessOf
<1> HIDE DEF n
<1>8. \A e : e \in InBook(book') <=> \/ e \in InBook(book) /\ e # resting
                                     \/ e = LessOf(resting, n) /\ resting.quantity # n
  <2>1. CASE resting.quantity = n
    <3>1. TakenOut(book', book, p, s, i)
      BY <1>7, <2>1 DEF Unlist, TakenOut
    <3>2. BookSwapped(book', book, {resting}, {})
      BY <1>2, <1>3, <3>1, RemovedFromBook DEF Apart
    <3> QED
      BY <2>1, <3>2 DEF BookSwapped
  <2>2. CASE resting.quantity # n
    <3>1. Updated(book', book, p, s, i, LessOf(resting, n))
      BY <1>7, <2>2 DEF Reduce, Updated, LessOf
    <3>2. BookSwapped(book', book, {resting}, {LessOf(resting, n)})
      BY <1>2, <1>3, <3>1, ReplacedInBook DEF Apart
    <3> QED
      BY <2>2, <3>2 DEF BookSwapped
  <2> QED
    BY <2>1, <2>2
<1>9. taker.quantity # n => LessOf(taker, n) # NoOrder
  <2> SUFFICES ASSUME taker.quantity # n PROVE LessOf(taker, n) \in Order
    BY NoOrderApart
  <2>1. n >= 1 /\ n < taker.quantity
    BY <1>3, <1>5, OrderFields DEF n, Fewer
  <2>2. taker.quantity - n \in 1 .. MaxQuantity
    BY <1>3, <1>6, <2>1, OrderFields, OrderBookAssumption, IntMaxAssumption
  <2> QED
    BY <1>3, <2>2 DEF LessOf, Order
<1>10. \A e : e \in G <=> e \in InBook(book') \/ (e = LessOf(taker, n) /\ taker.quantity # n)
  <2>1. CASE taker.quantity = n
    <3>1. G = InBook(book')
      BY <1>7, <2>1, HeldIdle
    <3> QED
      BY <2>1, <3>1
  <2>2. CASE taker.quantity # n
    <3>1. G = InBook(book') \cup {LessOf(taker, n)}
      BY <1>7, <1>9, <2>2, HeldIdle
    <3> QED
      BY <2>2, <3>1
  <2> QED
    BY <2>1, <2>2
<1> HIDE DEF G, H, resting
<1>11. BothTraded(G, H, taker, resting, n) /\ BothTraded(G, H, resting, taker, n)
  BY <1>5, <1>8, <1>10 DEF BothTraded
<1>12. ASSUME NEW buy \in H, NEW sell \in H, buy # sell, buy \in Order, sell \in Order,
              BothTraded(G, H, buy, sell, n), WriteFill(buy, sell, n)
       PROVE  Knows'
  <2>1. /\ DueType'
        /\ \A t \in Traders, id \in 0 .. MaxOrderId :
             alive[t] => due'[t][id] = Unfilled(Unfilled(due[t][id], buy, t, id, n), sell, t, id, n)
    BY <1>2, <1>6, <1>12, FillsNoted
  <2>2. ASSUME NEW t \in Traders, NEW id \in 0 .. MaxOrderId, alive[t]
        PROVE  Wants(G, t, id, due'[t][id])
    <3>1. Wants(H, t, id, due[t][id])
      BY <2>2 DEF Knows, KnownTo, H
    <3>2. Wants(G, t, id, Unfilled(Unfilled(due[t][id], buy, t, id, n), sell, t, id, n))
      BY <1>5, <1>6, <1>12, <3>1, WantsAfterBoth
    <3> QED
      BY <2>1, <2>2, <3>2
  <2>3. KnownTo(alive, due', G)
    BY <2>2 DEF KnownTo
  <2> QED
    BY <1>2, <2>1, <2>3 DEF Knows, G
<1>13. CASE taker.side = "buy"
  BY <1>3, <1>5, <1>7, <1>11, <1>12, <1>13
<1>14. CASE taker.side # "buy"
  BY <1>3, <1>5, <1>7, <1>11, <1>12, <1>14
<1> QED
  BY <1>13, <1>14

LEMMA KnowsMeans ==
  ASSUME IInv, Knows
  PROVE  LedgerAgrees
<1> SUFFICES ASSUME NEW t \in Traders, NEW id \in 0 .. MaxOrderId, alive[t]
             PROVE  due[t][id] = Outstanding(t, id)
  BY DEF LedgerAgrees
<1>1. Outstanding(t, id) = OutstandingIn(book, taker, t, id)
  BY DEF Outstanding, OutstandingIn, FindOrder, FindIn, Idle
<1>2. Wants(Held(book, taker), t, id, due[t][id])
  BY DEF Knows, KnownTo
<1>3. Apart(book, taker)
  BY InvariantApart
<1> QED
  BY <1>1, <1>2, <1>3, OutstandingIs

LEMMA InitKnown == LedgerInit => Knows
<1> SUFFICES ASSUME LedgerInit PROVE Knows
  OBVIOUS
<1>1. DueType /\ \A t \in Traders, id \in 0 .. MaxOrderId : due[t][id] = 0
  BY DEF LedgerInit, DueType
<1>2. Apart(book, taker) /\ taker = NoOrder
  BY InitInvariant, InvariantApart DEF LedgerInit, Init
<1>3. \A p \in Products, s \in Sides : book[p][s] = <<>>
  BY DEF LedgerInit, Init
<1>4. DOMAIN <<>> = {}
  OBVIOUS
<1>5. \A o : o \notin InBook(book)
  BY <1>2, <1>3, <1>4, InBookMeans DEF Apart
<1>6. \A o : o \notin Held(book, taker)
  BY <1>2, <1>5, HeldIdle
<1> QED
  BY <1>1, <1>6 DEF Knows, KnownTo, Wants

LEMMA LedgerNextKnown ==
  ASSUME IInv, Knows, [LedgerNext]_ledgerVars
  PROVE  Knows'
<1>1. ASSUME NEW t \in Traders, NEW m \in Commands, ParseMsg(t, m), Read(Asked(m)) PROVE Knows'
  <2>1. CASE InvalidMsg(t, m)
    <3>1. /\ UNCHANGED <<book, taker, alive>>
          /\ \A u \in Traders : out'[u] = <<>> \/ out'[u] = <<Invalid>>
      BY <2>1 DEF InvalidMsg, books
    <3>2. due' = due
      BY <1>1, <3>1, NothingNoted DEF Knows
    <3> QED
      BY <3>1, <3>2, QuietKnown
  <2> QED
    BY <1>1, <2>1, BuySellKnown, AmendKnown, CancelKnown DEF ParseMsg
<1>2. ASSUME NEW t \in Traders, TraderDied(t), Read(0) PROVE Knows'
  <2>1. /\ UNCHANGED <<book, taker>>
        /\ \A u \in Traders : alive'[u] => alive[u]
        /\ \A u \in Traders : out'[u] = <<>> \/ out'[u] = <<Invalid>>
    <3>1. alive \in [Traders -> BOOLEAN]
      BY InvariantInParts DEF Shapes
    <3> QED
      BY <1>2, <3>1 DEF TraderDied, books
  <2>2. due' = due
    BY <1>2, <2>1, NothingNoted DEF Knows
  <2> QED
    BY <2>1, <2>2, QuietKnown
<1>3. CASE Completed /\ UNCHANGED due
  BY <1>3, QuietKnown DEF Completed, vars
<1>4. CASE UNCHANGED ledgerVars
  BY <1>4, QuietKnown DEF ledgerVars, vars
<1> QED
  BY <1>1, <1>2, <1>3, <1>4, MatchKnown, RestKnown DEF LedgerNext

LEMMA LedgerIsExchange ==
  /\ LedgerInit => Init
  /\ [LedgerNext]_ledgerVars => [Next]_vars
BY DEF LedgerInit, LedgerNext, ledgerVars, Next

\* Whatever is traded, amended and cancelled, a live trader that has read its
\* pipe can tell from the messages alone what each of its orders still wants:
\* no fill or acknowledgement is missing, doubled or misdirected.
THEOREM LedgerIsRight == LedgerSpec => []LedgerAgrees
<1>1. LedgerInit => IInv /\ Knows
  BY LedgerIsExchange, InitInvariant, InitKnown
<1>2. IInv /\ Knows /\ [LedgerNext]_ledgerVars => (IInv /\ Knows)'
  BY LedgerIsExchange, NextKeeps, LedgerNextKnown
<1>3. IInv /\ Knows => LedgerAgrees
  BY KnowsMeans
<1> QED
  BY <1>1, <1>2, <1>3, PTL DEF LedgerSpec
=============================================================================
