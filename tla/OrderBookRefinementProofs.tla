---------------------- MODULE OrderBookRefinementProofs ----------------------
(***************************************************************************)
(* For every instance, as long as the values of trades and the positions   *)
(* fit in their types: OrderBook implements PriceTimePriority.  One pass of *)
(* the matching loop gives the next resting order its share of the closed  *)
(* form, and leaves the shares of the others as they were; so the state the *)
(* book and the accounts are on their way to does not change.              *)
(***************************************************************************)
EXTENDS LedgerProofs, OrderBookRefinement

(* The two instances of the specification share their operators *)

\* The sums of the specification, whose operators are instances of their own.
LEMMA SameSums ==
  ASSUME NEW f, NEW S
  PROVE  /\ Now!SumFunctionOnSet(f, S) = SumFunctionOnSet(f, S)
         /\ Matched!SumFunctionOnSet(f, S) = SumFunctionOnSet(f, S)
         /\ Now!SumFunction(f) = SumFunctionOnSet(f, DOMAIN f)
         /\ Matched!SumFunction(f) = SumFunctionOnSet(f, DOMAIN f)
<1>1. Now!SumFunctionOnSet(f, S) = SumFunctionOnSet(f, S)
  BY DEF SumFunctionOnSet, FoldFunctionOnSet, MapThenFoldSet,
         Now!SumFunctionOnSet, Now!FoldFunctionOnSet, Now!MapThenFoldSet
<1>2. Matched!SumFunctionOnSet(f, S) = SumFunctionOnSet(f, S)
  BY DEF SumFunctionOnSet, FoldFunctionOnSet, MapThenFoldSet,
         Matched!SumFunctionOnSet, Matched!FoldFunctionOnSet, Matched!MapThenFoldSet
<1>3. Now!SumFunction(f) = SumFunctionOnSet(f, DOMAIN f)
  BY DEF SumFunctionOnSet, FoldFunctionOnSet, MapThenFoldSet,
         Now!SumFunction, Now!SumFunctionOnSet, Now!FoldFunctionOnSet, Now!MapThenFoldSet
<1>4. Matched!SumFunction(f) = SumFunctionOnSet(f, DOMAIN f)
  BY DEF SumFunctionOnSet, FoldFunctionOnSet, MapThenFoldSet,
         Matched!SumFunction, Matched!SumFunctionOnSet, Matched!FoldFunctionOnSet, Matched!MapThenFoldSet
<1> QED
  BY <1>1, <1>2, <1>3, <1>4

\* So are what it takes from the library,
LEMMA SameOthers ==
  ASSUME NEW s, NEW i
  PROVE  /\ Matched!RemoveAt(s, i) = RemoveAt(s, i)
         /\ Now!Cardinality(s) = Cardinality(s)
         /\ Matched!Cardinality(s) = Cardinality(s)
BY DEF RemoveAt, Matched!RemoveAt, Cardinality, Matched!Cardinality, Now!Cardinality

\* what an order takes,
LEMMA SameTaken ==
  ASSUME NEW list, NEW o, NEW i
  PROVE  Matched!Taken(list, o, i) = Now!Taken(list, o, i)
BY SameSums DEF Matched!Taken, Matched!Quantity, Matched!Ahead,
       Matched!Eligible, Matched!Cost, Matched!Accepts,
       Now!Taken, Now!Quantity, Now!Ahead,
       Now!Eligible, Now!Cost, Now!Accepts

\* what it takes from them,
LEMMA SameThinned ==
  ASSUME NEW list, NEW left
  PROVE  Matched!Thinned(list, left) = Now!Thinned(list, left)
BY DEF Matched!Thinned, Now!Thinned, Matched!Cardinality, Now!Cardinality

\* what is left of a list,
LEMMA SameClearing ==
  ASSUME NEW list, NEW o, NEW own
  PROVE  /\ Matched!Remaining(list, o) = Now!Remaining(list, o)
         /\ Matched!Joined(own, list, o) = Now!Joined(own, list, o)
<1> DEFINE m == [i \in DOMAIN list |-> Matched!Taken(list, o, i)]
           n == [i \in DOMAIN list |-> Now!Taken(list, o, i)]
           ml == [i \in DOMAIN list |-> list[i].quantity - Matched!Taken(list, o, i)]
           nl == [i \in DOMAIN list |-> list[i].quantity - Now!Taken(list, o, i)]
<1>1. m = n /\ ml = nl
  BY SameTaken
<1>2. Matched!Thinned(list, ml) = Now!Thinned(list, nl)
  BY <1>1, SameThinned
<1>3. Matched!SumFunction(m) = Now!SumFunction(n)
  BY <1>1, SameSums
<1> QED
  BY <1>2, <1>3 DEF Matched!Remaining, Matched!Joined, Matched!TakenTotal,
                    Now!Remaining, Now!Joined, Now!TakenTotal

\* of the book,
LEMMA SameClear ==
  ASSUME NEW lists, NEW o
  PROVE  Matched!Clear(lists, o) = Now!Clear(lists, o)
BY SameClearing DEF Matched!Clear, Now!Clear, Matched!Other, Now!Other, Matched!Sides, Now!Sides

\* and of the accounts: none depends on the state of the instance.
LEMMA SameTraded ==
  ASSUME NEW lists, NEW o, NEW a
  PROVE  Matched!Traded(lists, o, a) = Now!Traded(lists, o, a)
BY DEF Matched!Traded, Now!Traded, Matched!Other, Now!Other, Matched!Sides, Now!Sides,
       Matched!Nearest, Now!Nearest,
       Matched!SumFunction, Matched!SumFunctionOnSet, Matched!FoldFunctionOnSet, Matched!MapThenFoldSet,
       Now!SumFunction, Now!SumFunctionOnSet, Now!FoldFunctionOnSet, Now!MapThenFoldSet,
       Matched!Taken, Matched!Quantity, Matched!Ahead, Matched!Eligible, Matched!Cost, Matched!Accepts,
       Now!Taken, Now!Quantity, Now!Ahead, Now!Eligible, Now!Cost, Now!Accepts

\* The other side of the market is the opposite one.
LEMMA OtherSide ==
  ASSUME NEW s \in Sides
  PROVE  Now!Other(s) = Opposite(s)
BY DEF Now!Other, Now!Sides, Sides, Opposite

\* The exchange starts as it should.
LEMMA InitRefines == Init => Matched!Init
BY DEF Init, Matched!Init, MatchedBook, MatchedAccounts, Idle, Matched!Sides, Sides
-----------------------------------------------------------------------------
(* The orders that are left *)

\* How many of the indices are no later than i, and the k-th of them.
Rank(K, i) == Cardinality({j \in K : j <= i})
Nth(K, k) == CHOOSE i \in K : Rank(K, i) = k

\* Ranks count the indices from one without a gap.
LEMMA Ranks ==
  ASSUME NEW N \in Nat, NEW K \in SUBSET (1 .. N)
  PROVE  /\ IsFiniteSet(K) /\ Cardinality(K) \in Nat
         /\ \A i \in K : Rank(K, i) \in 1 .. Cardinality(K)
         /\ \A i, j \in K : Rank(K, i) = Rank(K, j) => i = j
         /\ \A k \in 1 .. Cardinality(K) : \E i \in K : Rank(K, i) = k
<1> DEFINE upTo(i) == {j \in K : j <= i}
           rank == [i \in K |-> Rank(K, i)]
<1>1. IsFiniteSet(K) /\ Cardinality(K) \in Nat
  <2>1. IsFiniteSet(1 .. N)
    BY FS_Interval
  <2> QED
    BY <2>1, FS_Subset, FS_CardinalityType
<1>2. ASSUME NEW i \in K
      PROVE  /\ IsFiniteSet(upTo(i)) /\ Cardinality(upTo(i)) \in Nat
             /\ Rank(K, i) \in 1 .. Cardinality(K)
  <2>1. upTo(i) \in SUBSET K /\ i \in upTo(i)
    OBVIOUS
  <2>2. IsFiniteSet(upTo(i)) /\ Cardinality(upTo(i)) <= Cardinality(K)
    BY <1>1, <2>1, FS_Subset
  <2>3. Cardinality(upTo(i)) \in Nat /\ Cardinality(upTo(i)) # 0
    BY <2>1, <2>2, FS_CardinalityType, FS_EmptySet
  <2> HIDE DEF upTo
  <2>4. Cardinality(upTo(i)) \in 1 .. Cardinality(K)
    BY <1>1, <2>2, <2>3
  <2> QED
    BY <2>2, <2>3, <2>4 DEF Rank, upTo
<1>3. ASSUME NEW i \in K, NEW j \in K, i < j
      PROVE  Rank(K, i) # Rank(K, j)
  <2>1. upTo(i) \in SUBSET (upTo(j) \ {j}) /\ j \in upTo(j)
    <3>1. \A l \in K : l \in Int
      OBVIOUS
    <3>2. \A l \in K : l <= i => l <= j /\ l # j
      BY <1>3, <3>1
    <3>3. j <= j
      BY <3>1
    <3> QED
      BY <3>2, <3>3
  <2>2. /\ IsFiniteSet(upTo(j) \ {j})
        /\ Cardinality(upTo(j) \ {j}) = Cardinality(upTo(j)) - 1
    BY <1>2, <2>1, FS_RemoveElement
  <2>3. Cardinality(upTo(i)) <= Cardinality(upTo(j) \ {j})
    BY <2>1, <2>2, FS_Subset
  <2>4. Cardinality(upTo(i)) \in Nat /\ Cardinality(upTo(j)) \in Nat
    BY <1>2
  <2> HIDE DEF upTo
  <2>5. Cardinality(upTo(i)) # Cardinality(upTo(j))
    BY <2>2, <2>3, <2>4
  <2> QED
    BY <2>5 DEF Rank, upTo
<1>4. \A i, j \in K : Rank(K, i) = Rank(K, j) => i = j
  <2>1. \A i, j \in K : i < j \/ j < i \/ i = j
    OBVIOUS
  <2> QED
    BY <1>3, <2>1
<1>5. rank \in Injection(K, 1 .. Cardinality(K))
  BY <1>2, <1>4 DEF Injection, IsInjective
<1>6. Cardinality(1 .. Cardinality(K)) = Cardinality(K) /\ IsFiniteSet(1 .. Cardinality(K))
  BY <1>1, FS_Interval
<1>7. rank \in Surjection(K, 1 .. Cardinality(K))
  BY <1>5, <1>6, FS_Injection
<1>8. \A k \in 1 .. Cardinality(K) : \E i \in K : Rank(K, i) = k
  BY <1>7 DEF Surjection
<1> QED
  BY <1>1, <1>2, <1>4, <1>8

\* The index of a rank is the one that has it.
LEMMA NthIs ==
  ASSUME NEW N \in Nat, NEW K \in SUBSET (1 .. N), NEW i \in K
  PROVE  Nth(K, Rank(K, i)) = i
<1>1. \A j \in K : Rank(K, j) = Rank(K, i) => j = i
  BY Ranks
<1> QED
  BY <1>1 DEF Nth

\* In a full range every index is its own rank.
LEMMA RankInFull ==
  ASSUME NEW N \in Nat, NEW i \in 1 .. N
  PROVE  Rank(1 .. N, i) = i
<1>1. {j \in 1 .. N : j <= i} = 1 .. i
  OBVIOUS
<1>2. Cardinality(1 .. i) = i
  BY FS_Interval
<1> QED
  BY <1>1, <1>2 DEF Rank

\* The orders of which something is left.
Kept(list, left) == {i \in DOMAIN list : left[i] > 0}

\* The thinned list, in terms of ranks.
LEMMA ThinnedIs ==
  ASSUME NEW list, NEW left
  PROVE  Now!Thinned(list, left) =
           [k \in 1 .. Cardinality(Kept(list, left)) |->
              [list[Nth(Kept(list, left), k)] EXCEPT !.quantity = left[Nth(Kept(list, left), k)]]]
BY DEF Now!Thinned, Nth, Rank, Kept, Now!Cardinality, Cardinality

\* If something is left of every order, all stay where they are.
LEMMA AllKept ==
  ASSUME NEW N \in Nat, NEW list, DOMAIN list = 1 .. N, NEW left, \A i \in 1 .. N : left[i] > 0
  PROVE  Now!Thinned(list, left) = [i \in 1 .. N |-> [list[i] EXCEPT !.quantity = left[i]]]
<1>1. Kept(list, left) = 1 .. N
  BY DEF Kept
<1>2. Cardinality(1 .. N) = N
  BY FS_Interval
<1>3. \A i \in 1 .. N : Nth(1 .. N, i) = i
  <2> SUFFICES ASSUME NEW i \in 1 .. N PROVE Nth(1 .. N, i) = i
    OBVIOUS
  <2>1. Rank(1 .. N, i) = i
    BY RankInFull
  <2>2. Nth(1 .. N, Rank(1 .. N, i)) = i
    BY NthIs
  <2> QED
    BY <2>1, <2>2
<1> QED
  BY <1>1, <1>2, <1>3, ThinnedIs

\* Where the order at j of a list without its i-th order came from.
Shift(i, j) == IF j < i THEN j ELSE j + 1

\* Leaving a place out keeps the order of the others.
LEMMA ShiftFacts ==
  ASSUME NEW N \in Nat, NEW i \in 1 .. N
  PROVE  /\ \A j \in 1 .. N - 1 : Shift(i, j) \in (1 .. N) \ {i}
         /\ \A j, l \in 1 .. N - 1 : /\ Shift(i, j) <= Shift(i, l) <=> j <= l
                                     /\ Shift(i, j) < Shift(i, l) <=> j < l
                                     /\ Shift(i, j) = Shift(i, l) => j = l
         /\ \A m \in (1 .. N) \ {i} : \E j \in 1 .. N - 1 : m = Shift(i, j)
<1>1. ASSUME NEW m \in (1 .. N) \ {i} PROVE \E j \in 1 .. N - 1 : m = Shift(i, j)
  <2>1. CASE m < i
    BY <2>1 DEF Shift
  <2>2. CASE m > i
    <3>1. m - 1 \in 1 .. N - 1 /\ ~ (m - 1 < i) /\ (m - 1) + 1 = m
      BY <2>2
    <3> QED
      BY <3>1 DEF Shift
  <2> QED
    BY <2>1, <2>2
<1> QED
  BY <1>1 DEF Shift

\* Where a set of them came from.
Shifted(i, S) == {Shift(i, j) : j \in S}

\* A set of places keeps its size.
LEMMA ShiftedCardinality ==
  ASSUME NEW N \in Nat, NEW i \in 1 .. N, NEW S \in SUBSET (1 .. N - 1)
  PROVE  Cardinality(Shifted(i, S)) = Cardinality(S)
<1> DEFINE f == [j \in S |-> Shift(i, j)]
<1>1. f \in Bijection(S, Shifted(i, S))
  BY ShiftFacts DEF Bijection, Injection, Surjection, IsInjective, Shifted
<1>2. IsFiniteSet(S)
  <2>1. N - 1 \in Int /\ IsFiniteSet(1 .. N - 1)
    BY FS_Interval
  <2> QED
    BY <2>1, FS_Subset
<1>3. ExistsBijection(S, Shifted(i, S))
  BY <1>1 DEF ExistsBijection
<1> QED
  BY <1>2, <1>3, FS_Bijection

\* A function over the places of a list, without the i-th.
Without(rest, list, N, i) == DOMAIN rest = 1 .. N - 1 /\ \A j \in 1 .. N - 1 : rest[j] = list[Shift(i, j)]

\* An order of which nothing is left can be taken out of the list first.
LEMMA ThinnedShift ==
  ASSUME NEW N \in Nat, NEW i \in 1 .. N,
         NEW list, DOMAIN list = 1 .. N, NEW left, ~ (left[i] > 0),
         NEW rest, Without(rest, list, N, i), NEW leftOfRest, Without(leftOfRest, left, N, i)
  PROVE  Now!Thinned(list, left) = Now!Thinned(rest, leftOfRest)
<1> DEFINE K == Kept(list, left)
           R == Kept(rest, leftOfRest)
           n == Cardinality(R)
<1>0. /\ DOMAIN rest = 1 .. N - 1
      /\ \A j \in 1 .. N - 1 : rest[j] = list[Shift(i, j)] /\ leftOfRest[j] = left[Shift(i, j)]
  BY DEF Without
<1>1. K \in SUBSET (1 .. N) /\ R \in SUBSET (1 .. N - 1) /\ N - 1 \in Nat
  BY <1>0 DEF Kept
<1>2. K = Shifted(i, R)
  <2>1. ASSUME NEW m \in K PROVE m \in Shifted(i, R)
    <3>1. m \in (1 .. N) \ {i}
      BY <1>1 DEF Kept
    <3>2. PICK j \in 1 .. N - 1 : m = Shift(i, j)
      <4> HIDE DEF K, R
      <4>1. \A x \in (1 .. N) \ {i} : \E j \in 1 .. N - 1 : x = Shift(i, j)
        BY ShiftFacts
      <4> QED
        BY <3>1, <4>1
    <3>3. j \in R
      BY <1>0, <3>2 DEF Kept
    <3> QED
      BY <3>2, <3>3 DEF Shifted
  <2>2. ASSUME NEW j \in R PROVE Shift(i, j) \in K
    <3>1. j \in 1 .. N - 1 /\ leftOfRest[j] > 0
      BY <1>0 DEF Kept
    <3>2. Shift(i, j) \in 1 .. N
      BY <3>1, ShiftFacts
    <3> QED
      BY <1>0, <3>1, <3>2 DEF Kept
  <2> HIDE DEF K, R
  <2> QED
    BY <2>1, <2>2 DEF Shifted
<1>3. Cardinality(K) = n
  BY <1>1, <1>2, ShiftedCardinality
<1>4. ASSUME NEW j \in R PROVE Rank(K, Shift(i, j)) = Rank(R, j)
  <2>1. {m \in K : m <= Shift(i, j)} = Shifted(i, {l \in R : l <= j})
    <3>1. \A l \in R : Shift(i, l) <= Shift(i, j) <=> l <= j
      BY <1>1, ShiftFacts
    <3> HIDE DEF K, R
    <3> QED
      BY <1>2, <3>1 DEF Shifted
  <2>2. {l \in R : l <= j} \in SUBSET (1 .. N - 1)
    BY <1>1
  <2> HIDE DEF K, R
  <2>3. Cardinality(Shifted(i, {l \in R : l <= j})) = Cardinality({l \in R : l <= j})
    BY <2>2, ShiftedCardinality
  <2> QED
    BY <2>1, <2>3 DEF Rank
<1>5. ASSUME NEW k \in 1 .. n
      PROVE  Nth(R, k) \in R /\ Nth(K, k) = Shift(i, Nth(R, k))
  <2>1. PICK j \in R : Rank(R, j) = k
    <3> HIDE DEF K, R
    <3>1. \A x \in 1 .. Cardinality(R) : \E j \in R : Rank(R, j) = x
      BY <1>1, Ranks
    <3> QED
      BY <3>1
  <2>2. Nth(R, k) = j
    <3> HIDE DEF K, R
    <3> QED
      BY <1>1, <2>1, NthIs
  <2>3. Shift(i, j) \in K
    BY <1>2 DEF Shifted
  <2>4. Nth(K, Rank(K, Shift(i, j))) = Shift(i, j)
    BY <1>1, <2>3, NthIs
  <2> HIDE DEF K, R, n
  <2> QED
    BY <1>4, <2>1, <2>2, <2>4
<1>6. ASSUME NEW k \in 1 .. n
      PROVE  /\ list[Nth(K, k)] = rest[Nth(R, k)]
             /\ left[Nth(K, k)] = leftOfRest[Nth(R, k)]
  BY <1>0, <1>1, <1>5
<1>7. Now!Thinned(list, left) =
        [k \in 1 .. Cardinality(K) |-> [list[Nth(K, k)] EXCEPT !.quantity = left[Nth(K, k)]]]
  BY ThinnedIs
<1>8. Now!Thinned(rest, leftOfRest) =
        [k \in 1 .. n |-> [rest[Nth(R, k)] EXCEPT !.quantity = leftOfRest[Nth(R, k)]]]
  BY ThinnedIs
<1> HIDE DEF K, R, n
<1> QED
  BY <1>3, <1>6, <1>7, <1>8

(* Sums over the places of a list *)

\* What is at the places that are left.
ShiftedFrom(g, f, N, i) == \A j \in 1 .. N - 1 : g[j] \in Int /\ g[j] = f[Shift(i, j)]

\* The terms of g over T are those of f over S, named by b.
MatchedBy(b, f, g, S, T) ==
  /\ \A x \in S : f[x] \in Int
  /\ \A x, y \in S : b[x] = b[y] => x = y
  /\ \A x \in S : g[b[x]] = f[x]
  /\ T = {b[x] : x \in S}

\* A sum does not depend on the names of its terms.
LEMMA SumRenamed ==
  ASSUME NEW f, NEW g, NEW S, IsFiniteSet(S), NEW b, NEW T, MatchedBy(b, f, g, S, T)
  PROVE  SumFunctionOnSet(g, T) = SumFunctionOnSet(f, S)
BY SumMatched DEF MatchedBy

\* A sum over places does not change when they move up.
LEMMA SumShifted ==
  ASSUME NEW N \in Nat, NEW i \in 1 .. N, NEW f, NEW g, ShiftedFrom(g, f, N, i),
         NEW S \in SUBSET (1 .. N - 1)
  PROVE  SumFunctionOnSet(f, Shifted(i, S)) = SumFunctionOnSet(g, S)
<1> DEFINE b == [j \in S |-> Shift(i, j)]
<1>1. IsFiniteSet(S)
  <2>1. N - 1 \in Int /\ IsFiniteSet(1 .. N - 1)
    BY FS_Interval
  <2> QED
    BY <2>1, FS_Subset
<1>2. \A x, y \in S : b[x] = b[y] => x = y
  <2>1. \A j, l \in 1 .. N - 1 : Shift(i, j) = Shift(i, l) => j = l
    BY DEF Shift
  <2> QED
    BY <2>1
<1>3. (\A x \in S : g[x] \in Int) /\ (\A x \in S : f[b[x]] = g[x])
  BY DEF ShiftedFrom
<1>4. Shifted(i, S) = {b[x] : x \in S}
  BY DEF Shifted
<1>5. MatchedBy(b, g, f, S, Shifted(i, S))
  <2> HIDE DEF b
  <2> QED
    BY <1>2, <1>3, <1>4 DEF MatchedBy
<1> HIDE DEF b
<1> QED
  BY <1>1, <1>5, SumRenamed

\* The terms are integers.
IntsOn(f, S) == \A x \in S : f[x] \in Int

\* A sum is one of its terms and the sum of the others.
LEMMA SumLess ==
  ASSUME NEW f, NEW S, IsFiniteSet(S), IntsOn(f, S), NEW x \in S
  PROVE  SumFunctionOnSet(f, S) = f[x] + SumFunctionOnSet(f, S \ {x})
BY SumTakeOut DEF IntsOn

\* What becomes of a set of places when the i-th goes.
Shrunk(R, S, N, i) == S \in SUBSET (1 .. N) /\ R = {j \in 1 .. N - 1 : Shift(i, j) \in S}

\* A sum over places, when the i-th goes.
LEMMA SumOnward ==
  ASSUME NEW N \in Nat, NEW i \in 1 .. N, NEW f, IntsOn(f, 1 .. N), NEW g, ShiftedFrom(g, f, N, i),
         NEW S, NEW R, Shrunk(R, S, N, i)
  PROVE  /\ i \in S => SumFunctionOnSet(f, S) = f[i] + SumFunctionOnSet(g, R)
         /\ i \notin S => SumFunctionOnSet(f, S) = SumFunctionOnSet(g, R)
         /\ SumFunctionOnSet(g, R) \in Int
<1>0. S \in SUBSET (1 .. N) /\ R = {j \in 1 .. N - 1 : Shift(i, j) \in S}
  BY DEF Shrunk
<1>1. S \ {i} = Shifted(i, R)
  <2>1. \A m \in (1 .. N) \ {i} : \E j \in 1 .. N - 1 : m = Shift(i, j)
    BY ShiftFacts
  <2>2. \A j \in 1 .. N - 1 : Shift(i, j) # i
    BY DEF Shift
  <2> QED
    BY <1>0, <2>1, <2>2 DEF Shifted
<1>2. SumFunctionOnSet(f, Shifted(i, R)) = SumFunctionOnSet(g, R)
  BY <1>0, SumShifted
<1>3. IsFiniteSet(S) /\ IsFiniteSet(R)
  <2>1. N - 1 \in Int /\ IsFiniteSet(1 .. N - 1) /\ IsFiniteSet(1 .. N)
    BY FS_Interval
  <2> QED
    BY <1>0, <2>1, FS_Subset
<1>4. SumFunctionOnSet(g, R) \in Int
  <2>1. \A j \in R : g[j] \in Int
    BY <1>0 DEF ShiftedFrom
  <2> QED
    BY <1>3, <2>1, SumType
<1>5. IntsOn(f, S)
  BY <1>0 DEF IntsOn
<1>6. CASE i \in S
  <2>1. SumFunctionOnSet(f, S) = f[i] + SumFunctionOnSet(f, S \ {i})
    BY <1>3, <1>5, <1>6, SumLess
  <2>2. SumFunctionOnSet(f, S \ {i}) = SumFunctionOnSet(g, R)
    BY <1>1, <1>2, Zenon
  <2> QED
    BY <1>4, <1>6, <2>1, <2>2
<1>7. CASE i \notin S
  <2>1. S \ {i} = S
    BY <1>7
  <2>2. SumFunctionOnSet(f, S) = SumFunctionOnSet(g, R)
    BY <1>1, <1>2, <2>1, Zenon
  <2> QED
    BY <1>4, <1>7, <2>2
<1> QED
  BY <1>4, <1>6, <1>7

\* The sum over all places, when the i-th goes.
LEMMA SumAllOnward ==
  ASSUME NEW N \in Nat, NEW i \in 1 .. N, NEW f, IntsOn(f, 1 .. N), NEW g, ShiftedFrom(g, f, N, i)
  PROVE  /\ SumFunctionOnSet(f, 1 .. N) = f[i] + SumFunctionOnSet(g, 1 .. N - 1)
         /\ SumFunctionOnSet(g, 1 .. N - 1) \in Int
<1>1. Shrunk(1 .. N - 1, 1 .. N, N, i)
  BY ShiftFacts DEF Shrunk
<1>2. i \in 1 .. N
  OBVIOUS
<1> QED
  BY <1>1, <1>2, SumOnward

\* Of the terms at these places, only that at i is not zero.
Lone(f, S, N, i) == /\ S \in SUBSET (1 .. N)
                    /\ \A j \in S \ {i} : f[j] = 0
                    /\ i \in S => f[i] \in Int

\* A sum with one term that is not zero is that term.
LEMMA SumAlone ==
  ASSUME NEW N \in Nat, NEW i, NEW f, NEW S, Lone(f, S, N, i)
  PROVE  SumFunctionOnSet(f, S) = IF i \in S THEN f[i] ELSE 0
<1>0. S \in SUBSET (1 .. N) /\ (\A j \in S \ {i} : f[j] = 0) /\ (i \in S => f[i] \in Int)
  BY DEF Lone
<1>1. IsFiniteSet(S)
  <2>1. IsFiniteSet(1 .. N)
    BY FS_Interval
  <2> QED
    BY <1>0, <2>1, FS_Subset
<1>2. CASE i \in S
  <2>1. \A x \in S : f[x] \in Int
    BY <1>0, <1>2
  <2>2. SumFunctionOnSet(f, S) = f[i] + SumFunctionOnSet(f, S \ {i})
    BY <1>1, <1>2, <2>1, SumTakeOut
  <2>3. IsFiniteSet(S \ {i})
    BY <1>1, FS_RemoveElement
  <2>4. SumFunctionOnSet(f, S \ {i}) = 0
    BY <1>0, <2>3, SumOfZeros
  <2> QED
    BY <1>0, <1>2, <2>2, <2>4
<1>3. CASE i \notin S
  <2>1. \A x \in S : f[x] = 0
    BY <1>0, <1>3
  <2> QED
    BY <1>1, <1>3, <2>1, SumOfZeros
<1> QED
  BY <1>2, <1>3
-----------------------------------------------------------------------------
(* What the incoming order takes *)

\* An order on its way: it may want nothing any more.
Wanting == [trader : Traders, id : Nat, product : Products, side : Sides,
            quantity : Nat, price : 1 .. MaxPrice]

\* The order at i is the next to trade.
IsNext(list, o, i) ==
  /\ i \in Now!Eligible(list, o)
  /\ \A j \in DOMAIN list : /\ Now!Cost(list[i]) <= Now!Cost(list[j])
                            /\ j < i => Now!Cost(list[i]) < Now!Cost(list[j])

\* What is known of the orders of a list.
LEMMA ListCosts ==
  ASSUME NEW list \in Seq(Order)
  PROVE  /\ Len(list) \in Nat /\ DOMAIN list = 1 .. Len(list)
         /\ \A j \in 1 .. Len(list) : /\ list[j] \in Order /\ Now!Cost(list[j]) \in Int
                                      /\ list[j].quantity \in Nat \ {0} /\ list[j].price \in Nat
                                      /\ list[j].trader \in Traders
<1>1. Len(list) \in Nat /\ DOMAIN list = 1 .. Len(list)
  BY LenProperties
<1>2. ASSUME NEW j \in 1 .. Len(list)
      PROVE  /\ list[j] \in Order /\ Now!Cost(list[j]) \in Int
             /\ list[j].quantity \in Nat \ {0} /\ list[j].price \in Nat
             /\ list[j].trader \in Traders
  <2>1. list[j] \in Order
    BY ElementOfSeq
  <2>2. /\ list[j].quantity \in Nat /\ list[j].quantity >= 1 /\ list[j].price \in Nat
        /\ list[j].trader \in Traders
    BY <2>1, OrderFields
  <2>3. Now!Cost(list[j]) \in Int
    BY <2>2 DEF Now!Cost
  <2> QED
    BY <2>1, <2>2, <2>3
<1> QED
  BY <1>1, <1>2

\* The quantity of a set of orders, and of the set without one of them.
LEMMA QuantityFacts ==
  ASSUME NEW list \in Seq(Order), NEW S \in SUBSET (1 .. Len(list))
  PROVE  /\ Now!Quantity(list, S) \in Nat
         /\ Now!Quantity(list, {}) = 0
         /\ \A j \in S : /\ Now!Quantity(list, S) = list[j].quantity + Now!Quantity(list, S \ {j})
                         /\ Now!Quantity(list, S \ {j}) \in Nat
         /\ Now!Quantity(list, S) = SumFunctionOnSet(Quantities(list), S)
<1>1. /\ Len(list) \in Nat /\ DOMAIN list = 1 .. Len(list)
      /\ \A j \in 1 .. Len(list) : list[j].quantity \in Nat
  BY ListCosts
<1>2. \A T : Now!Quantity(list, T) = SumFunctionOnSet(Quantities(list), T)
  BY SameSums DEF Now!Quantity, Quantities
<1>3. \A j \in 1 .. Len(list) : Quantities(list)[j] = list[j].quantity
  BY <1>1 DEF Quantities
<1>4. IsFiniteSet(S)
  <2>1. IsFiniteSet(1 .. Len(list))
    BY <1>1, FS_Interval
  <2> QED
    BY <2>1, FS_Subset
<1>5. \A x \in S : Quantities(list)[x] \in Nat
  BY <1>1, <1>3
<1>6. SumFunctionOnSet(Quantities(list), S) \in Nat
  BY <1>4, <1>5, SumOfNaturals
<1>7. ASSUME NEW j \in S
      PROVE  /\ SumFunctionOnSet(Quantities(list), S)
                  = list[j].quantity + SumFunctionOnSet(Quantities(list), S \ {j})
             /\ SumFunctionOnSet(Quantities(list), S \ {j}) \in Nat
  <2>1. IntsOn(Quantities(list), S)
    BY <1>5 DEF IntsOn
  <2>2. SumFunctionOnSet(Quantities(list), S)
          = Quantities(list)[j] + SumFunctionOnSet(Quantities(list), S \ {j})
    BY <1>4, <2>1, SumLess
  <2>3. IsFiniteSet(S \ {j}) /\ \A x \in S \ {j} : Quantities(list)[x] \in Nat
    BY <1>4, <1>5, FS_RemoveElement
  <2>4. SumFunctionOnSet(Quantities(list), S \ {j}) \in Nat
    BY <2>3, SumOfNaturals
  <2> QED
    BY <1>3, <2>2, <2>4
<1> QED
  BY <1>2, <1>6, <1>7, SumOfNone

\* Orders are places in their list.
LEMMA AheadFacts ==
  ASSUME NEW list \in Seq(Order), NEW o, NEW i \in 1 .. Len(list)
  PROVE  /\ Now!Ahead(list, o, i) \in SUBSET (1 .. Len(list))
         /\ Now!Eligible(list, o) \in SUBSET (1 .. Len(list))
BY ListCosts DEF Now!Ahead, Now!Eligible

\* Nobody gives more than it has, nor anything it does not offer.
LEMMA TakenBounds ==
  ASSUME NEW list \in Seq(Order), NEW o \in Wanting, NEW i \in 1 .. Len(list)
  PROVE  /\ Now!Taken(list, o, i) \in Nat
         /\ Now!Taken(list, o, i) <= list[i].quantity
         /\ o.quantity = 0 => Now!Taken(list, o, i) = 0
         /\ i \notin Now!Eligible(list, o) => Now!Taken(list, o, i) = 0
<1>1. Now!Quantity(list, Now!Ahead(list, o, i)) \in Nat
  BY AheadFacts, QuantityFacts
<1>2. list[i].quantity \in Nat /\ o.quantity \in Nat
  BY ListCosts DEF Wanting
<1> QED
  BY <1>1, <1>2 DEF Now!Taken

\* The next order is ahead of all others.
LEMMA AheadOfNext ==
  ASSUME NEW list \in Seq(Order), NEW o, NEW i \in 1 .. Len(list), IsNext(list, o, i)
  PROVE  /\ Now!Ahead(list, o, i) = {}
         /\ \A j \in Now!Eligible(list, o) \ {i} : i \in Now!Ahead(list, o, j)
<1>1. /\ Len(list) \in Nat /\ DOMAIN list = 1 .. Len(list)
      /\ \A j \in 1 .. Len(list) : Now!Cost(list[j]) \in Int
      /\ Now!Eligible(list, o) \in SUBSET (1 .. Len(list))
  BY ListCosts, AheadFacts
<1>2. ASSUME NEW j \in Now!Eligible(list, o) PROVE j \notin Now!Ahead(list, o, i)
  BY <1>1 DEF IsNext, Now!Ahead
<1>3. Now!Ahead(list, o, i) = {}
  BY <1>2 DEF Now!Ahead
<1>4. ASSUME NEW j \in Now!Eligible(list, o) \ {i} PROVE i \in Now!Ahead(list, o, j)
  BY <1>1 DEF IsNext, Now!Ahead
<1> QED
  BY <1>3, <1>4

\* The next order gives all that is wanted, or all it has.
LEMMA TakenNext ==
  ASSUME NEW list \in Seq(Order), NEW o \in Wanting, NEW i \in 1 .. Len(list), IsNext(list, o, i)
  PROVE  /\ Now!Taken(list, o, i) = Fewer(o.quantity, list[i].quantity)
         /\ o.quantity <= list[i].quantity =>
              \A j \in (1 .. Len(list)) \ {i} : Now!Taken(list, o, j) = 0
<1>1. list[i].quantity \in Nat \ {0} /\ o.quantity \in Nat
  BY ListCosts DEF Wanting
<1>2. Now!Quantity(list, Now!Ahead(list, o, i)) = 0 /\ i \in Now!Eligible(list, o)
  BY AheadOfNext, QuantityFacts DEF IsNext
<1>3. Now!Taken(list, o, i) = Fewer(o.quantity, list[i].quantity)
  BY <1>1, <1>2 DEF Now!Taken, Fewer
<1>4. ASSUME o.quantity <= list[i].quantity, NEW j \in (1 .. Len(list)) \ {i}
      PROVE  Now!Taken(list, o, j) = 0
  <2>1. CASE j \notin Now!Eligible(list, o)
    BY <2>1, TakenBounds
  <2>2. CASE j \in Now!Eligible(list, o)
    <3> DEFINE A == Now!Ahead(list, o, j)
    <3>1. i \in A /\ A \in SUBSET (1 .. Len(list))
      BY <2>2, AheadOfNext, AheadFacts
    <3>2. Now!Quantity(list, A) = list[i].quantity + Now!Quantity(list, A \ {i})
          /\ Now!Quantity(list, A \ {i}) \in Nat
      BY <3>1, QuantityFacts
    <3>3. o.quantity - Now!Quantity(list, A) <= 0
      <4> HIDE DEF A
      <4> QED
        BY <1>1, <1>4, <3>2
    <3> QED
      BY <3>3 DEF Now!Taken
  <2> QED
    BY <2>1, <2>2
<1> QED
  BY <1>3, <1>4

\* Once it is used up, the others give what they would have given anyway.
LEMMA TakenOnward ==
  ASSUME NEW list \in Seq(Order), NEW o \in Wanting, NEW i \in 1 .. Len(list), IsNext(list, o, i),
         list[i].quantity <= o.quantity, NEW j \in 1 .. Len(list) - 1
  PROVE  Now!Taken(RemoveAt(list, i), [o EXCEPT !.quantity = @ - list[i].quantity], j)
           = Now!Taken(list, o, Shift(i, j))
<1> DEFINE N == Len(list)
           rest == RemoveAt(list, i)
           less == [o EXCEPT !.quantity = @ - list[i].quantity]
           m == Shift(i, j)
           A == Now!Ahead(list, o, m)
           B == Now!Ahead(rest, less, j)
<1>1. /\ N \in Nat /\ DOMAIN list = 1 .. N
      /\ \A l \in 1 .. N : Now!Cost(list[l]) \in Int /\ list[l].quantity \in Nat \ {0}
      /\ o.quantity \in Nat
  BY ListCosts DEF Wanting
<1>2. /\ rest \in Seq(Order) /\ Len(rest) = N - 1 /\ DOMAIN rest = 1 .. N - 1
      /\ \A l \in 1 .. N - 1 : rest[l] = list[Shift(i, l)]
  <2>1. /\ rest \in Seq(Order) /\ Len(rest) = N - 1
        /\ \A l \in 1 .. N - 1 : rest[l] = IF l < i THEN list[l] ELSE list[l + 1]
    BY RemoveAtFacts
  <2>2. DOMAIN rest = 1 .. N - 1
    BY <2>1, LenProperties
  <2> HIDE DEF rest
  <2> QED
    BY <2>1, <2>2 DEF Shift
<1>3. /\ less.quantity = o.quantity - list[i].quantity
      /\ less.side = o.side /\ less.price = o.price
      /\ less.quantity \in Nat
  BY <1>1 DEF Wanting
<1>4. \A l \in 1 .. N - 1 : l \in Now!Eligible(rest, less) <=> Shift(i, l) \in Now!Eligible(list, o)
  <2>1. Now!Accepts(less) = Now!Accepts(o)
    BY <1>3 DEF Now!Accepts
  <2>2. \A l \in 1 .. N - 1 : Shift(i, l) \in 1 .. N
    BY <1>1, ShiftFacts
  <2> HIDE DEF N, rest, less
  <2> QED
    BY <1>1, <1>2, <2>1, <2>2 DEF Now!Eligible
<1>5. m \in (1 .. N) \ {i} /\ rest[j] = list[m]
  BY <1>1, <1>2, ShiftFacts
<1>6. A \in SUBSET (1 .. N) /\ B \in SUBSET (1 .. N - 1)
  <2>1. j \in 1 .. Len(rest)
    BY <1>2
  <2> QED
    BY <1>2, <1>5, <2>1, AheadFacts
<1>7. ASSUME m \in Now!Eligible(list, o)
      PROVE  A \ {i} = Shifted(i, B) /\ i \in A
  <2>1. i \in A
    BY <1>5, <1>7, AheadOfNext
  <2>2. ASSUME NEW l \in 1 .. N - 1
        PROVE  l \in B <=> Shift(i, l) \in A
    <3>1. Shift(i, l) < m <=> l < j
      BY <1>1, ShiftFacts
    <3>2. /\ l \in B <=> /\ l \in Now!Eligible(rest, less)
                         /\ \/ Now!Cost(rest[l]) < Now!Cost(rest[j])
                            \/ Now!Cost(rest[l]) = Now!Cost(rest[j]) /\ l < j
          /\ Shift(i, l) \in A <=> /\ Shift(i, l) \in Now!Eligible(list, o)
                                   /\ \/ Now!Cost(list[Shift(i, l)]) < Now!Cost(list[m])
                                      \/ Now!Cost(list[Shift(i, l)]) = Now!Cost(list[m]) /\ Shift(i, l) < m
      BY DEF Now!Ahead
    <3> HIDE DEF A, B, m, rest, less, N
    <3> QED
      BY <1>2, <1>4, <1>5, <3>1, <3>2
  <2>3. \A x \in (1 .. N) \ {i} : \E l \in 1 .. N - 1 : x = Shift(i, l)
    BY <1>1, ShiftFacts
  <2>4. \A l \in 1 .. N - 1 : Shift(i, l) # i
    BY <1>1, ShiftFacts
  <2> HIDE DEF A, B, m, rest, less, N
  <2>5. ASSUME NEW x \in A \ {i} PROVE x \in Shifted(i, B)
    BY <1>6, <2>2, <2>3 DEF Shifted
  <2>6. ASSUME NEW l \in B PROVE Shift(i, l) \in A \ {i}
    BY <1>6, <2>2, <2>4
  <2> QED
    BY <2>1, <2>5, <2>6 DEF Shifted
<1>8. ASSUME m \in Now!Eligible(list, o)
      PROVE  /\ Now!Quantity(list, A) = list[i].quantity + Now!Quantity(rest, B)
             /\ Now!Quantity(rest, B) \in Nat
  <2>1. Now!Quantity(list, A) = list[i].quantity + Now!Quantity(list, A \ {i})
    BY <1>6, <1>7, <1>8, QuantityFacts
  <2>2. Now!Quantity(list, A \ {i}) = SumFunctionOnSet(Quantities(list), A \ {i})
    BY <1>6, QuantityFacts
  <2>3. /\ Now!Quantity(rest, B) = SumFunctionOnSet(Quantities(rest), B)
        /\ Now!Quantity(rest, B) \in Nat
    BY <1>2, <1>6, QuantityFacts
  <2>4. ShiftedFrom(Quantities(rest), Quantities(list), N, i)
    <3>1. \A l \in 1 .. N - 1 : Shift(i, l) \in 1 .. N
      BY <1>1, ShiftFacts
    <3>2. /\ \A l \in 1 .. N : Quantities(list)[l] = list[l].quantity
          /\ \A l \in 1 .. N - 1 : Quantities(rest)[l] = rest[l].quantity
      BY <1>1, <1>2 DEF Quantities
    <3>3. ASSUME NEW l \in 1 .. N - 1
          PROVE  Quantities(rest)[l] \in Int /\ Quantities(rest)[l] = Quantities(list)[Shift(i, l)]
      <4>1. Shift(i, l) \in 1 .. N /\ rest[l] = list[Shift(i, l)]
        BY <1>2, <3>1
      <4>2. list[Shift(i, l)].quantity \in Nat
        BY <1>1, <4>1
      <4> HIDE DEF rest, N
      <4> QED
        BY <3>2, <4>1, <4>2
    <3> HIDE DEF rest, N
    <3> QED
      BY <3>3 DEF ShiftedFrom
  <2>5. SumFunctionOnSet(Quantities(list), Shifted(i, B)) = SumFunctionOnSet(Quantities(rest), B)
    <3> HIDE DEF rest, B, N
    <3> QED
      BY <1>1, <1>6, <2>4, SumShifted
  <2> HIDE DEF A, B, rest
  <2> QED
    BY <1>7, <1>8, <2>1, <2>2, <2>3, <2>5
<1>9. CASE m \notin Now!Eligible(list, o)
  <2>1. j \notin Now!Eligible(rest, less)
    BY <1>4, <1>9
  <2> QED
    BY <1>9, <2>1 DEF Now!Taken
<1>10. CASE m \in Now!Eligible(list, o)
  <2>1. j \in Now!Eligible(rest, less)
    BY <1>4, <1>10
  <2>2. less.quantity - Now!Quantity(rest, B) = o.quantity - Now!Quantity(list, A)
    <3> HIDE DEF A, B, rest, less
    <3> QED
      BY <1>1, <1>3, <1>8, <1>10
  <2>3. list[m].quantity = rest[j].quantity
    BY <1>5
  <2>4. /\ Now!Taken(list, o, m) =
             LET wanted == o.quantity - Now!Quantity(list, A)
             IN  IF wanted <= 0 THEN 0 ELSE IF wanted < list[m].quantity THEN wanted ELSE list[m].quantity
        /\ Now!Taken(rest, less, j) =
             LET wanted == less.quantity - Now!Quantity(rest, B)
             IN  IF wanted <= 0 THEN 0 ELSE IF wanted < rest[j].quantity THEN wanted ELSE rest[j].quantity
    BY <1>10, <2>1 DEF Now!Taken
  <2>5. Now!Taken(rest, less, j) = Now!Taken(list, o, m)
    <3> HIDE DEF A, B, rest, less, m
    <3> QED
      BY <2>2, <2>3, <2>4
  <2> QED
    BY <2>5
<1> QED
  BY <1>9, <1>10
-----------------------------------------------------------------------------
(* What remains of the lists *)

\* What the incoming order takes of each order, and what it leaves.
Units(list, o) == [j \in DOMAIN list |-> Now!Taken(list, o, j)]
LeftOf(list, o) == [j \in DOMAIN list |-> list[j].quantity - Now!Taken(list, o, j)]

\* The specification in terms of the two functions above.
LEMMA TotalIs ==
  ASSUME NEW list, NEW o
  PROVE  /\ Now!TakenTotal(list, o) = SumFunctionOnSet(Units(list, o), DOMAIN list)
         /\ Now!Remaining(list, o) = Now!Thinned(list, LeftOf(list, o))
BY SameSums DEF Now!TakenTotal, Now!Remaining, Units, LeftOf

\* If nothing is taken, nothing changes.
LEMMA NothingTaken ==
  ASSUME NEW list \in Seq(Order), NEW o, \A j \in 1 .. Len(list) : Now!Taken(list, o, j) = 0
  PROVE  Now!Remaining(list, o) = list /\ Now!TakenTotal(list, o) = 0
<1>1. /\ Len(list) \in Nat /\ DOMAIN list = 1 .. Len(list)
      /\ \A j \in 1 .. Len(list) : list[j] \in Order /\ list[j].quantity \in Nat \ {0}
  BY ListCosts
<1>2. \A j \in 1 .. Len(list) : /\ LeftOf(list, o)[j] = list[j].quantity
                                /\ LeftOf(list, o)[j] > 0
                                /\ Units(list, o)[j] = 0
  BY <1>1 DEF LeftOf, Units
<1>3. Now!Remaining(list, o) = [j \in 1 .. Len(list) |-> [list[j] EXCEPT !.quantity = LeftOf(list, o)[j]]]
  BY <1>1, <1>2, TotalIs, AllKept
<1>4. \A j \in 1 .. Len(list) : [list[j] EXCEPT !.quantity = LeftOf(list, o)[j]] = list[j]
  BY <1>1, <1>2 DEF Order
<1>5. [j \in 1 .. Len(list) |-> list[j]] = list
  BY <1>1
<1>6. Now!Remaining(list, o) = list
  BY <1>3, <1>4, <1>5
<1>7. IsFiniteSet(1 .. Len(list))
  BY <1>1, FS_Interval
<1>8. SumFunctionOnSet(Units(list, o), 1 .. Len(list)) = 0
  BY <1>2, <1>7, SumOfZeros
<1> QED
  BY <1>1, <1>6, <1>8, TotalIs

\* If less is wanted than the next order has, it alone changes.
LEMMA OneReduced ==
  ASSUME NEW list \in Seq(Order), NEW o \in Wanting, NEW i \in 1 .. Len(list), IsNext(list, o, i),
         o.quantity < list[i].quantity
  PROVE  /\ Now!Remaining(list, o) = [list EXCEPT ![i] = [list[i] EXCEPT !.quantity = @ - o.quantity]]
         /\ Now!TakenTotal(list, o) = o.quantity
<1>1. /\ Len(list) \in Nat /\ DOMAIN list = 1 .. Len(list)
      /\ \A j \in 1 .. Len(list) : list[j] \in Order /\ list[j].quantity \in Nat \ {0}
      /\ o.quantity \in Nat
  BY ListCosts DEF Wanting
<1>2. /\ Now!Taken(list, o, i) = o.quantity
      /\ \A j \in (1 .. Len(list)) \ {i} : Now!Taken(list, o, j) = 0
  BY <1>1, TakenNext DEF Fewer
<1>3. /\ \A j \in 1 .. Len(list) : /\ LeftOf(list, o)[j] = IF j = i THEN list[i].quantity - o.quantity
                                                                 ELSE list[j].quantity
                                   /\ LeftOf(list, o)[j] > 0
      /\ \A j \in (1 .. Len(list)) \ {i} : Units(list, o)[j] = 0
      /\ Units(list, o)[i] = o.quantity
  BY <1>1, <1>2 DEF LeftOf, Units
<1>4. Now!Remaining(list, o) = [j \in 1 .. Len(list) |-> [list[j] EXCEPT !.quantity = LeftOf(list, o)[j]]]
  BY <1>1, <1>3, TotalIs, AllKept
<1>5. \A j \in 1 .. Len(list) : [list[j] EXCEPT !.quantity = LeftOf(list, o)[j]] =
        [list EXCEPT ![i] = [list[i] EXCEPT !.quantity = @ - o.quantity]][j]
  BY <1>1, <1>3 DEF Order
<1>6. SumFunctionOnSet(Units(list, o), 1 .. Len(list)) = o.quantity
  <2>1. Lone(Units(list, o), 1 .. Len(list), Len(list), i)
    BY <1>1, <1>3 DEF Lone
  <2>2. SumFunctionOnSet(Units(list, o), 1 .. Len(list)) =
          IF i \in 1 .. Len(list) THEN Units(list, o)[i] ELSE 0
    BY <1>1, <1>3, <2>1, SumAlone
  <2> QED
    BY <1>3, <2>2
<1> QED
  BY <1>1, <1>4, <1>5, <1>6, TotalIs

\* If not, what remains is what remains of the other orders.
LEMMA OneUsedUp ==
  ASSUME NEW list \in Seq(Order), NEW o \in Wanting, NEW i \in 1 .. Len(list), IsNext(list, o, i),
         list[i].quantity <= o.quantity
  PROVE  LET rest == RemoveAt(list, i)
             less == [o EXCEPT !.quantity = @ - list[i].quantity]
         IN  /\ Now!Remaining(list, o) = Now!Remaining(rest, less)
             /\ Now!TakenTotal(list, o) = list[i].quantity + Now!TakenTotal(rest, less)
             /\ Now!TakenTotal(rest, less) \in Int
             /\ less \in Wanting /\ less.quantity = o.quantity - list[i].quantity
<1> DEFINE N == Len(list)
           rest == RemoveAt(list, i)
           less == [o EXCEPT !.quantity = @ - list[i].quantity]
<1>1. /\ N \in Nat /\ DOMAIN list = 1 .. N
      /\ \A l \in 1 .. N : list[l].quantity \in Nat \ {0}
      /\ o.quantity \in Nat
  BY ListCosts DEF Wanting
<1>2. /\ rest \in Seq(Order) /\ DOMAIN rest = 1 .. N - 1
      /\ \A l \in 1 .. N - 1 : rest[l] = list[Shift(i, l)]
  <2>1. /\ rest \in Seq(Order) /\ Len(rest) = N - 1
        /\ \A l \in 1 .. N - 1 : rest[l] = IF l < i THEN list[l] ELSE list[l + 1]
    BY RemoveAtFacts
  <2>2. DOMAIN rest = 1 .. N - 1
    BY <2>1, LenProperties
  <2> HIDE DEF rest
  <2> QED
    BY <2>1, <2>2 DEF Shift
<1>3. less \in Wanting /\ less.quantity = o.quantity - list[i].quantity
  BY <1>1 DEF Wanting
<1>4. \A j \in 1 .. N - 1 : Now!Taken(rest, less, j) = Now!Taken(list, o, Shift(i, j))
  BY TakenOnward
<1>5. Now!Taken(list, o, i) = list[i].quantity
  BY <1>1, TakenNext DEF Fewer
<1>6. \A j \in 1 .. N - 1 : Shift(i, j) \in 1 .. N
  BY <1>1, ShiftFacts
<1>7. \A j \in 1 .. N : Now!Taken(list, o, j) \in Nat
  BY TakenBounds
<1>8. /\ \A j \in 1 .. N : Units(list, o)[j] = Now!Taken(list, o, j)
      /\ \A j \in 1 .. N : LeftOf(list, o)[j] = list[j].quantity - Now!Taken(list, o, j)
      /\ \A j \in 1 .. N - 1 : Units(rest, less)[j] = Now!Taken(rest, less, j)
      /\ \A j \in 1 .. N - 1 : LeftOf(rest, less)[j] = rest[j].quantity - Now!Taken(rest, less, j)
  BY <1>1, <1>2 DEF Units, LeftOf
<1> HIDE DEF N, rest, less
<1>9. Now!Remaining(list, o) = Now!Remaining(rest, less)
  <2>1. /\ Without(rest, list, N, i)
        /\ Without(LeftOf(rest, less), LeftOf(list, o), N, i)
    <3>1. \A j \in 1 .. N - 1 : LeftOf(rest, less)[j] = LeftOf(list, o)[Shift(i, j)]
      BY <1>2, <1>4, <1>6, <1>8
    <3>2. DOMAIN LeftOf(rest, less) = 1 .. N - 1
      BY <1>2 DEF LeftOf
    <3> QED
      BY <1>2, <3>1, <3>2 DEF Without
  <2>2. ~ (LeftOf(list, o)[i] > 0)
    BY <1>1, <1>5, <1>8 DEF N
  <2>3. Now!Thinned(list, LeftOf(list, o)) = Now!Thinned(rest, LeftOf(rest, less))
    BY <1>1, <1>2, <2>1, <2>2, ThinnedShift DEF N
  <2> QED
    BY <2>3, TotalIs
<1>10. /\ Now!TakenTotal(list, o) = list[i].quantity + Now!TakenTotal(rest, less)
       /\ Now!TakenTotal(rest, less) \in Int
  <2>1. IntsOn(Units(list, o), 1 .. N)
    BY <1>7, <1>8 DEF IntsOn
  <2>2. ShiftedFrom(Units(rest, less), Units(list, o), N, i)
    BY <1>4, <1>6, <1>7, <1>8 DEF ShiftedFrom
  <2>4. i \in 1 .. N
    BY DEF N
  <2>5. /\ SumFunctionOnSet(Units(list, o), 1 .. N)
             = Units(list, o)[i] + SumFunctionOnSet(Units(rest, less), 1 .. N - 1)
        /\ SumFunctionOnSet(Units(rest, less), 1 .. N - 1) \in Int
    BY <1>1, <2>1, <2>2, <2>4, SumAllOnward
  <2> QED
    BY <1>1, <1>2, <1>5, <1>8, <2>4, <2>5, TotalIs
<1> QED
  BY <1>3, <1>9, <1>10 DEF rest, less
-----------------------------------------------------------------------------
(* What remains of the book *)

\* The list that an order trades with.
Met(b, o) == b[o.product][Opposite(o.side)]

\* What is known of an order on its way.
LEMMA WantsFields ==
  ASSUME NEW o \in Wanting
  PROVE  /\ o.trader \in Traders /\ o.product \in Products /\ o.side \in Sides /\ o.quantity \in Nat
         /\ Opposite(o.side) \in Sides /\ Opposite(o.side) # o.side
         /\ [o EXCEPT !.quantity = o.quantity] = o
BY DEF Wanting, Opposite, Sides

\* Every order may be on its way.
LEMMA OrdersWant ==
  ASSUME NEW o \in Order
  PROVE  o \in Wanting
BY OrderFields DEF Order, Wanting

\* The two lists an order has to do with.
LEMMA MetIsSeq ==
  ASSUME NEW b \in Lists, NEW o \in Wanting
  PROVE  Met(b, o) \in Seq(Order) /\ b[o.product][o.side] \in Seq(Order)
BY WantsFields DEF Met, Lists

\* An order clears against the list of its other side and joins that of its own.
Cleared(b, o, own, other) ==
  [b EXCEPT ![o.product] = [b[o.product] EXCEPT ![Opposite(o.side)] = other, ![o.side] = own]]

\* The book with another list in one place.
Replaced(b, p, s, list) == [b EXCEPT ![p][s] = list]

\* What an order does to the book: two lists change.
LEMMA ClearIs ==
  ASSUME NEW b \in Lists, NEW o \in Wanting
  PROVE  Now!Clear(b, o) =
           Cleared(b, o, Now!Joined(b[o.product][o.side], Met(b, o), o), Now!Remaining(Met(b, o), o))
<1>1. Now!Other(o.side) = Opposite(o.side)
  BY WantsFields, OtherSide
<1> QED
  BY <1>1, WantsFields DEF Now!Clear, Cleared, Met, Lists

\* If neither of them changes, the book does not,
LEMMA ClearedNothing ==
  ASSUME NEW b \in Lists, NEW o \in Wanting
  PROVE  Cleared(b, o, b[o.product][o.side], Met(b, o)) = b
BY WantsFields, ZenonT(60) DEF Cleared, Met, Lists

\* nor all but one of its lists, if only that of the other side does,
LEMMA ClearedOther ==
  ASSUME NEW b \in Lists, NEW o \in Wanting, NEW other
  PROVE  Cleared(b, o, b[o.product][o.side], other) = Replaced(b, o.product, Opposite(o.side), other)
BY WantsFields DEF Replaced, Cleared, Met, Lists

\* or that of its own.
LEMMA ClearedOwn ==
  ASSUME NEW b \in Lists, NEW o \in Wanting, NEW own
  PROVE  Cleared(b, o, own, Met(b, o)) = Replaced(b, o.product, o.side, own)
BY WantsFields DEF Replaced, Cleared, Met, Lists

\* The order joins its list with what it did not get.
LEMMA JoinedIs ==
  ASSUME NEW own, NEW list, NEW o
  PROVE  Now!Joined(own, list, o) =
           IF o.quantity - Now!TakenTotal(list, o) = 0 THEN own
           ELSE Append(own, [o EXCEPT !.quantity = o.quantity - Now!TakenTotal(list, o)])
BY DEF Now!Joined

\* An order that wants nothing any more changes nothing.
LEMMA ClearDone ==
  ASSUME NEW b \in Lists, NEW o \in Wanting, o.quantity = 0
  PROVE  Now!Clear(b, o) = b
<1>1. Met(b, o) \in Seq(Order)
  BY MetIsSeq
<1>2. \A j \in 1 .. Len(Met(b, o)) : Now!Taken(Met(b, o), o, j) = 0
  BY <1>1, TakenBounds
<1>3. Now!Remaining(Met(b, o), o) = Met(b, o) /\ Now!TakenTotal(Met(b, o), o) = 0
  BY <1>1, <1>2, NothingTaken
<1>4. Now!Joined(b[o.product][o.side], Met(b, o), o) = b[o.product][o.side]
  <2>1. o.quantity - Now!TakenTotal(Met(b, o), o) = 0
    BY <1>3
  <2> QED
    BY <2>1, JoinedIs
<1> QED
  BY <1>3, <1>4, ClearIs, ClearedNothing

\* An order that meets nobody rests as it is.
LEMMA ClearNothing ==
  ASSUME NEW b \in Lists, NEW o \in Order, Now!Eligible(Met(b, o), o) = {}
  PROVE  Now!Clear(b, o) = Replaced(b, o.product, o.side, Append(b[o.product][o.side], o))
<1>1. o \in Wanting /\ o.quantity \in Nat /\ o.quantity # 0 /\ [o EXCEPT !.quantity = o.quantity] = o
  BY OrdersWant, OrderFields, WantsFields
<1>2. Met(b, o) \in Seq(Order)
  BY <1>1, MetIsSeq
<1>3. \A j \in 1 .. Len(Met(b, o)) : Now!Taken(Met(b, o), o, j) = 0
  BY <1>1, <1>2, TakenBounds
<1>4. Now!Remaining(Met(b, o), o) = Met(b, o) /\ Now!TakenTotal(Met(b, o), o) = 0
  BY <1>2, <1>3, NothingTaken
<1>5. o.quantity - Now!TakenTotal(Met(b, o), o) = o.quantity
  BY <1>1, <1>4
<1>6. Now!Joined(b[o.product][o.side], Met(b, o), o) = Append(b[o.product][o.side], o)
  BY <1>1, <1>5, JoinedIs
<1>7. Now!Clear(b, o) = Cleared(b, o, Append(b[o.product][o.side], o), Met(b, o))
  BY <1>1, <1>4, <1>6, ClearIs
<1> QED
  BY <1>1, <1>7, ClearedOwn

\* An order that wants less than the next one has leaves the rest of it.
LEMMA ClearReduced ==
  ASSUME NEW b \in Lists, NEW o \in Wanting, NEW i \in 1 .. Len(Met(b, o)), IsNext(Met(b, o), o, i),
         o.quantity < Met(b, o)[i].quantity
  PROVE  Now!Clear(b, o) =
           Replaced(b, o.product, Opposite(o.side),
                    [Met(b, o) EXCEPT ![i] = [Met(b, o)[i] EXCEPT !.quantity = @ - o.quantity]])
<1> DEFINE list == Met(b, o)
           reduced == [list EXCEPT ![i] = [list[i] EXCEPT !.quantity = @ - o.quantity]]
<1>1. list \in Seq(Order) /\ o.quantity \in Nat
  BY MetIsSeq, WantsFields
<1>2. Now!Remaining(list, o) = reduced /\ Now!TakenTotal(list, o) = o.quantity
  BY <1>1, OneReduced
<1> HIDE DEF reduced
<1>3. Now!Joined(b[o.product][o.side], list, o) = b[o.product][o.side]
  <2>1. o.quantity - Now!TakenTotal(list, o) = 0
    BY <1>1, <1>2
  <2> QED
    BY <2>1, JoinedIs
<1>4. Now!Clear(b, o) = Cleared(b, o, b[o.product][o.side], reduced)
  BY <1>2, <1>3, ClearIs
<1>5. Now!Clear(b, o) = Replaced(b, o.product, Opposite(o.side), reduced)
  BY <1>4, ClearedOther
<1> QED
  BY <1>5 DEF reduced

\* The next order is used up, and the rest is the business of what is left.
LEMMA ClearOnward ==
  ASSUME NEW b \in Lists, NEW o \in Wanting, NEW i \in 1 .. Len(Met(b, o)), IsNext(Met(b, o), o, i),
         Met(b, o)[i].quantity <= o.quantity
  PROVE  LET less == [o EXCEPT !.quantity = @ - Met(b, o)[i].quantity]
             after == Replaced(b, o.product, Opposite(o.side), RemoveAt(Met(b, o), i))
         IN  /\ after \in Lists /\ less \in Wanting
             /\ Met(after, less) = RemoveAt(Met(b, o), i)
             /\ Now!Clear(after, less) = Now!Clear(b, o)
<1> DEFINE list == Met(b, o)
           rest == RemoveAt(list, i)
           less == [o EXCEPT !.quantity = @ - list[i].quantity]
           after == Replaced(b, o.product, Opposite(o.side), rest)
           own == b[o.product][o.side]
<1>1. list \in Seq(Order) /\ own \in Seq(Order) /\ o.quantity \in Nat /\ i \in 1 .. Len(list)
  BY MetIsSeq, WantsFields
<1>2. rest \in Seq(Order)
  BY <1>1, RemoveAtFacts
<1>3. list[i].quantity \in Nat
  BY <1>1, ListCosts
<1>4. /\ Now!Remaining(list, o) = Now!Remaining(rest, less)
      /\ Now!TakenTotal(list, o) = list[i].quantity + Now!TakenTotal(rest, less)
      /\ Now!TakenTotal(rest, less) \in Int
      /\ less \in Wanting /\ less.quantity = o.quantity - list[i].quantity
  BY <1>1, OneUsedUp
<1>5. after = [b EXCEPT ![o.product][Opposite(o.side)] = rest]
  BY DEF Replaced
<1>6. /\ less.product = o.product /\ less.side = o.side
      /\ \A q : [less EXCEPT !.quantity = q] = [o EXCEPT !.quantity = q]
  BY DEF Wanting
<1> HIDE DEF less, rest, after
<1>7. after \in Lists
  BY <1>2, <1>5, WantsFields DEF Lists
<1>8. after[o.product][Opposite(o.side)] = rest /\ after[o.product][o.side] = own
  BY <1>5, WantsFields DEF Lists
<1>9. Met(after, less) = rest /\ after[less.product][less.side] = own
  BY <1>6, <1>8 DEF Met
<1>10. less.quantity - Now!TakenTotal(rest, less) = o.quantity - Now!TakenTotal(list, o)
  <2> HIDE DEF list
  <2> QED
    BY <1>1, <1>3, <1>4
<1>11. Now!Joined(own, rest, less) = Now!Joined(own, list, o)
  BY <1>6, <1>10, JoinedIs
<1>12. \A x, y : Cleared(after, less, x, y) = Cleared(b, o, x, y)
  <2> SUFFICES ASSUME NEW x, NEW y PROVE Cleared(after, less, x, y) = Cleared(b, o, x, y)
    OBVIOUS
  <2> DEFINE p == o.product
             s == o.side
             r == Opposite(o.side)
             new(f) == [f EXCEPT ![r] = y, ![s] = x]
  <2>1. /\ p \in Products /\ s \in Sides /\ r \in Sides /\ r # s
        /\ less.product = p /\ less.side = s /\ Opposite(less.side) = r
    BY <1>6, WantsFields
  <2>2. b \in [Products -> [Sides -> Seq(Order)]] /\ after = [b EXCEPT ![p][r] = rest]
    BY <1>5 DEF Lists
  <2> HIDE DEF p, s, r, own, list
  <2>3. after[p] = [b[p] EXCEPT ![r] = rest]
    BY <2>1, <2>2
  <2>4. new(after[p]) = new(b[p])
    BY <2>1, <2>2, <2>3
  <2> HIDE DEF new
  <2>5. Cleared(after, less, x, y) = [after EXCEPT ![p] = new(after[p])]
    BY <2>1 DEF Cleared, new
  <2>6. Cleared(b, o, x, y) = [b EXCEPT ![p] = new(b[p])]
    BY <2>1 DEF Cleared, new, p, r, s
  <2>7. \A z : [after EXCEPT ![p] = z] = [b EXCEPT ![p] = z]
    BY <2>1, <2>2
  <2> QED
    BY <2>4, <2>5, <2>6, <2>7
<1>13. Now!Clear(after, less) = Cleared(after, less, Now!Joined(own, rest, less), Now!Remaining(rest, less))
  BY <1>4, <1>7, <1>9, ClearIs
<1>14. Now!Clear(b, o) = Cleared(b, o, Now!Joined(own, list, o), Now!Remaining(list, o))
  BY ClearIs
<1>15. Now!Clear(after, less) = Now!Clear(b, o)
  BY <1>4, <1>11, <1>12, <1>13, <1>14
<1> QED
  BY <1>4, <1>7, <1>9, <1>15 DEF less, rest, after
-----------------------------------------------------------------------------
(* What becomes of the accounts *)

\* round_int is the nearest integer.
LEMMA NearestIsFee ==
  ASSUME NEW v \in Nat
  PROVE  Now!Nearest(v) = Fee(v) /\ Fee(v) \in Nat
<1> DEFINE D == FeeDivisor
           W == 2 * D
           f == (2 * v + D) \div W
           near(n) == 2 * (D * n - v) \in 1 - D .. D
<1>1. D \in Nat /\ D >= 1 /\ W \in Nat /\ W >= 1
  BY OrderBookAssumption
<1> HIDE DEF D
<1>2. f \in Int /\ W * f <= 2 * v + D /\ 2 * v + D < W * f + W
  <2>1. 2 * v + D \in Int
    BY <1>1
  <2> HIDE DEF W
  <2> QED
    BY <1>1, <2>1
<1> HIDE DEF f
<1>3. W * f = 2 * (D * f) /\ D * f \in Int
  BY <1>1, <1>2
<1>4. near(f)
  BY <1>1, <1>2, <1>3
<1>5. f \in 0 .. v
  <2>1. ASSUME f < 0 PROVE FALSE
    <3>1. f + 1 <= 0 /\ f + 1 \in Int
      BY <1>2, <2>1
    <3>2. D * (f + 1) <= 0
      BY <1>1, <3>1
    <3>3. D * (f + 1) = D * f + D
      BY <1>1, <1>2
    <3> QED
      BY <1>1, <1>2, <1>3, <3>2, <3>3
  <2>2. ASSUME f > v PROVE FALSE
    <3>1. f - (v + 1) \in Nat
      BY <1>2, <2>2
    <3>2. D * (f - (v + 1)) \in Nat /\ D * v - v \in Nat
      <4>1. D - 1 \in Nat
        BY <1>1
      <4>2. (D - 1) * v \in Nat /\ (D - 1) * v = D * v - v
        BY <1>1, <4>1
      <4> QED
        BY <1>1, <3>1, <4>2
    <3>3. D * (f - (v + 1)) = D * f - D * v - D /\ D * v \in Nat
      BY <1>1, <1>2
    <3> QED
      BY <1>1, <1>2, <1>3, <3>2, <3>3
  <2> QED
    BY <1>2, <2>1, <2>2
<1>6. ASSUME NEW n \in 0 .. v, near(n) PROVE n = f
  <2>1. D * n \in Int /\ D * f \in Int
    BY <1>1, <1>2
  <2>2. ASSUME NEW x \in Int, NEW y \in Int, near(x), near(y) PROVE ~ (x < y)
    <3>1. D * x \in Int /\ D * y \in Int /\ D * (y - x) = D * y - D * x
      BY <1>1
    <3>2. SUFFICES ASSUME x < y PROVE FALSE
      OBVIOUS
    <3>3. y - (x + 1) \in Nat
      BY <3>2
    <3>4. D * (y - (x + 1)) \in Nat /\ D * (y - (x + 1)) = D * y - D * x - D
      BY <1>1, <3>3
    <3>5. 2 * (D * x - v) >= 1 - D /\ 2 * (D * y - v) <= D
      BY <1>1, <2>2, <3>1
    <3> QED
      BY <1>1, <3>1, <3>4, <3>5
  <2>3. ~ (n < f) /\ ~ (f < n)
    BY <1>2, <1>4, <1>6, <2>2
  <2> QED
    BY <1>2, <2>3
<1>7. Now!Nearest(v) = CHOOSE n \in 0 .. v : near(n)
  BY DEF Now!Nearest, D
<1>8. Now!Nearest(v) = f
  <2> HIDE DEF near
  <2> QED
    BY <1>4, <1>5, <1>6, <1>7
<1>9. Fee(v) = f
  BY DEF Fee, f, D, W
<1> QED
  BY <1>5, <1>8, <1>9

\* A buyer gets units and pays, a seller the reverse.
Sign(o) == IF o.side = "buy" THEN 1 ELSE -1
Values(list, o) == [j \in DOMAIN list |-> Units(list, o)[j] * list[j].price]
Charges(list, o) == [j \in DOMAIN list |-> Now!Nearest(Values(list, o)[j])]
Of(list, t) == {j \in DOMAIN list : list[j].trader = t}

\* The sum over all orders of a list, and over those of one trader.
OfAll(list, f) == SumFunctionOnSet(f, DOMAIN list)
OfOne(list, f, t) == SumFunctionOnSet(f, Of(list, t))

\* What trader t gets and pays when order o clears against the list.
Got(list, o, t) ==
  (IF t = o.trader THEN Sign(o) * OfAll(list, Units(list, o)) ELSE 0)
  - Sign(o) * OfOne(list, Units(list, o), t)
Paid(list, o, t) ==
  (IF t = o.trader THEN Sign(o) * OfAll(list, Values(list, o)) + OfAll(list, Charges(list, o)) ELSE 0)
  - Sign(o) * OfOne(list, Values(list, o), t)
Charged(list, o) == OfAll(list, Charges(list, o))

\* The accounts afterwards.
Booked(a, o, list) ==
  [pos |-> [t \in Traders |-> [a.pos[t] EXCEPT ![o.product] =
             [quantity |-> @.quantity + Got(list, o, t), balance |-> @.balance - Paid(list, o, t)]]],
   fees |-> a.fees + Charged(list, o)]

\* What an order does to the accounts.
LEMMA TradedIs ==
  ASSUME NEW b, NEW o \in Wanting, NEW a
  PROVE  Now!Traded(b, o, a) = Booked(a, o, Met(b, o))
<1>1. Now!Other(o.side) = Opposite(o.side)
  BY WantsFields, OtherSide
<1> DEFINE list == Met(b, o)
           units == [i \in DOMAIN list |-> Now!Taken(list, o, i)]
           value == [i \in DOMAIN list |-> units[i] * list[i].price]
           charge == [i \in DOMAIN list |-> Now!Nearest(value[i])]
           sign == IF o.side = "buy" THEN 1 ELSE -1
           of(t) == {i \in DOMAIN list : list[i].trader = t}
           got(t) == (IF t = o.trader THEN sign * Now!SumFunction(units) ELSE 0)
                     - sign * Now!SumFunctionOnSet(units, of(t))
           paid(t) == (IF t = o.trader THEN sign * Now!SumFunction(value) + Now!SumFunction(charge) ELSE 0)
                      - sign * Now!SumFunctionOnSet(value, of(t))
<1>2. Now!Traded(b, o, a) =
        [pos |-> [t \in Traders |-> [a.pos[t] EXCEPT ![o.product] =
                   [quantity |-> @.quantity + got(t), balance |-> @.balance - paid(t)]]],
         fees |-> a.fees + Now!SumFunction(charge)]
  BY <1>1 DEF Now!Traded, Met
<1>3. units = Units(list, o) /\ value = Values(list, o) /\ charge = Charges(list, o)
  BY DEF Units, Values, Charges
<1>4. DOMAIN units = DOMAIN list /\ DOMAIN value = DOMAIN list /\ DOMAIN charge = DOMAIN list
  OBVIOUS
<1> HIDE DEF units, value, charge
<1>5. /\ Now!SumFunction(units) = OfAll(list, Units(list, o))
      /\ Now!SumFunction(value) = OfAll(list, Values(list, o))
      /\ Now!SumFunction(charge) = OfAll(list, Charges(list, o))
  BY <1>3, <1>4, SameSums DEF OfAll
<1>6. \A t : /\ Now!SumFunctionOnSet(units, of(t)) = OfOne(list, Units(list, o), t)
             /\ Now!SumFunctionOnSet(value, of(t)) = OfOne(list, Values(list, o), t)
  BY <1>3, SameSums DEF OfOne, Of
<1>7. \A t : got(t) = Got(list, o, t) /\ paid(t) = Paid(list, o, t)
  BY <1>5, <1>6 DEF Got, Paid, Sign
<1> HIDE DEF got, paid, list
<1> QED
  BY <1>2, <1>5, <1>7 DEF Booked, Charged, list

\* An order at i trades n units for v and a fee of c, for its own part.
GotIn(o, r, n, t) == Sign(o) * (When(t = o.trader, n) - When(t = r.trader, n))
PaidIn(o, r, v, c, t) == Sign(o) * (When(t = o.trader, v) - When(t = r.trader, v)) + When(t = o.trader, c)

\* Units, values and fees are naturals.
LEMMA TradeTypes ==
  ASSUME NEW list \in Seq(Order), NEW o \in Wanting
  PROVE  \A j \in 1 .. Len(list) :
           /\ Units(list, o)[j] = Now!Taken(list, o, j) /\ Units(list, o)[j] \in Nat
           /\ Values(list, o)[j] = Units(list, o)[j] * list[j].price /\ Values(list, o)[j] \in Nat
           /\ Charges(list, o)[j] = Fee(Values(list, o)[j]) /\ Charges(list, o)[j] \in Nat
<1> SUFFICES ASSUME NEW j \in 1 .. Len(list)
             PROVE  /\ Units(list, o)[j] = Now!Taken(list, o, j) /\ Units(list, o)[j] \in Nat
                    /\ Values(list, o)[j] = Units(list, o)[j] * list[j].price /\ Values(list, o)[j] \in Nat
                    /\ Charges(list, o)[j] = Fee(Values(list, o)[j]) /\ Charges(list, o)[j] \in Nat
  OBVIOUS
<1>1. DOMAIN list = 1 .. Len(list) /\ list[j].price \in Nat
  BY ListCosts
<1>2. Units(list, o)[j] = Now!Taken(list, o, j) /\ Units(list, o)[j] \in Nat
  BY <1>1, TakenBounds DEF Units
<1>3. Values(list, o)[j] = Units(list, o)[j] * list[j].price
  BY <1>1 DEF Values
<1>4. Values(list, o)[j] \in Nat
  BY <1>1, <1>2, <1>3
<1>5. Charges(list, o)[j] = Now!Nearest(Values(list, o)[j])
  BY <1>1 DEF Charges
<1> QED
  BY <1>2, <1>3, <1>4, <1>5, NearestIsFee

\* A fee on nothing is nothing.
LEMMA NoFee == Fee(0) = 0
<1>1. Fee(0) \in Nat /\ Now!Nearest(0) = Fee(0)
  BY NearestIsFee
<1>2. Fee(0) = (0 + FeeDivisor) \div (2 * FeeDivisor)
  BY OrderBookAssumption DEF Fee
<1> DEFINE D == FeeDivisor
           W == 2 * D
           f == (0 + D) \div W
<1>3. D \in Nat /\ D >= 1 /\ W \in Nat /\ W >= 1 /\ D < W
  BY OrderBookAssumption
<1>4. f = 0
  <2> HIDE DEF W, D
  <2> QED
    BY <1>3
<1> QED
  BY <1>2, <1>4

\* The two sums, if one order trades alone,
LEMMA SumsAlone ==
  ASSUME NEW list \in Seq(Order), NEW i \in 1 .. Len(list), NEW f, f[i] \in Int,
         \A j \in (1 .. Len(list)) \ {i} : f[j] = 0, NEW t
  PROVE  OfAll(list, f) = f[i] /\ OfOne(list, f, t) = When(t = list[i].trader, f[i])
<1>1. Len(list) \in Nat /\ DOMAIN list = 1 .. Len(list)
  BY ListCosts
<1>2. SumFunctionOnSet(f, 1 .. Len(list)) = IF i \in 1 .. Len(list) THEN f[i] ELSE 0
  <2>1. Lone(f, 1 .. Len(list), Len(list), i)
    BY DEF Lone
  <2> QED
    BY <1>1, <2>1, SumAlone
<1>3. Of(list, t) \in SUBSET (1 .. Len(list)) /\ (i \in Of(list, t) <=> t = list[i].trader)
  BY <1>1 DEF Of
<1>4. SumFunctionOnSet(f, Of(list, t)) = IF i \in Of(list, t) THEN f[i] ELSE 0
  <2>1. Lone(f, Of(list, t), Len(list), i)
    BY <1>3 DEF Lone
  <2> QED
    BY <1>1, <2>1, SumAlone
<1> QED
  BY <1>1, <1>2, <1>3, <1>4 DEF OfAll, OfOne, When

\* and when the next order is taken out of the list.
LEMMA SumsOnward ==
  ASSUME NEW list \in Seq(Order), NEW i \in 1 .. Len(list),
         NEW f, IntsOn(f, 1 .. Len(list)), NEW g, ShiftedFrom(g, f, Len(list), i), NEW t
  PROVE  /\ OfAll(list, f) = f[i] + OfAll(RemoveAt(list, i), g)
         /\ OfOne(list, f, t) = When(t = list[i].trader, f[i]) + OfOne(RemoveAt(list, i), g, t)
         /\ OfAll(RemoveAt(list, i), g) \in Int /\ OfOne(RemoveAt(list, i), g, t) \in Int
<1> DEFINE N == Len(list)
           rest == RemoveAt(list, i)
<1>1. N \in Nat /\ DOMAIN list = 1 .. N /\ i \in 1 .. N
  BY ListCosts
<1>2. DOMAIN rest = 1 .. N - 1 /\ \A l \in 1 .. N - 1 : rest[l] = list[Shift(i, l)]
  <2>1. /\ rest \in Seq(Order) /\ Len(rest) = N - 1
        /\ \A l \in 1 .. N - 1 : rest[l] = IF l < i THEN list[l] ELSE list[l + 1]
    BY RemoveAtFacts
  <2>2. DOMAIN rest = 1 .. N - 1
    BY <2>1, LenProperties
  <2> HIDE DEF rest
  <2> QED
    BY <2>1, <2>2 DEF Shift
<1> HIDE DEF N, rest
<1>3. f[i] \in Int
  BY <1>1 DEF IntsOn, N
<1>4. OfAll(list, f) = f[i] + OfAll(rest, g) /\ OfAll(rest, g) \in Int
  BY <1>1, <1>2, SumAllOnward DEF OfAll, N
<1>5. Shrunk(Of(rest, t), Of(list, t), N, i)
  <2>1. \A l \in 1 .. N - 1 : Shift(i, l) \in 1 .. N
    BY <1>1, ShiftFacts
  <2> QED
    BY <1>1, <1>2, <2>1 DEF Of, Shrunk
<1>6. /\ i \in Of(list, t) => OfOne(list, f, t) = f[i] + OfOne(rest, g, t)
      /\ i \notin Of(list, t) => OfOne(list, f, t) = OfOne(rest, g, t)
      /\ OfOne(rest, g, t) \in Int
  BY <1>1, <1>5, SumOnward DEF OfOne, N
<1>7. i \in Of(list, t) <=> t = list[i].trader
  BY <1>1 DEF Of
<1>8. OfOne(list, f, t) = When(t = list[i].trader, f[i]) + OfOne(rest, g, t)
  BY <1>3, <1>6, <1>7 DEF When
<1> QED
  BY <1>4, <1>6, <1>8 DEF rest

\* The sums A and B are n, where it counts, and the sums a and b of the others.
SignedSums(o, A, B, n, r, t, a, b) ==
  /\ A = n + a /\ B = When(t = r.trader, n) + b
  /\ n \in Int /\ a \in Int /\ b \in Int

\* What a trader gets of a trade and of those after it,
LEMMA SignedUnits ==
  ASSUME NEW o, NEW A, NEW B, NEW n, NEW r, NEW t, NEW a, NEW b, SignedSums(o, A, B, n, r, t, a, b)
  PROVE  (IF t = o.trader THEN Sign(o) * A ELSE 0) - Sign(o) * B
           = GotIn(o, r, n, t) + ((IF t = o.trader THEN Sign(o) * a ELSE 0) - Sign(o) * b)
<1>1. CASE o.side = "buy"
  BY <1>1 DEF SignedSums, GotIn, Sign, When
<1>2. CASE o.side # "buy"
  BY <1>2 DEF SignedSums, GotIn, Sign, When
<1> QED
  BY <1>1, <1>2

\* and what it pays for them.
LEMMA SignedMoney ==
  ASSUME NEW o, NEW A, NEW B, NEW n, NEW r, NEW t, NEW a, NEW b, SignedSums(o, A, B, n, r, t, a, b),
         NEW C, NEW c \in Int, NEW d \in Int, C = c + d
  PROVE  (IF t = o.trader THEN Sign(o) * A + C ELSE 0) - Sign(o) * B
           = PaidIn(o, r, n, c, t) + ((IF t = o.trader THEN Sign(o) * a + d ELSE 0) - Sign(o) * b)
<1>1. CASE o.side = "buy"
  BY <1>1 DEF SignedSums, PaidIn, Sign, When
<1>2. CASE o.side # "buy"
  BY <1>2 DEF SignedSums, PaidIn, Sign, When
<1> QED
  BY <1>1, <1>2

\* The value of the trade with the next order.
Value(list, i, n) == list[i].price * n

\* If the next order has enough, it is the only trade.
LEMMA TradeAlone ==
  ASSUME NEW list \in Seq(Order), NEW o \in Wanting, NEW i \in 1 .. Len(list), IsNext(list, o, i),
         o.quantity <= list[i].quantity, NEW t
  PROVE  LET v == Value(list, i, o.quantity)
         IN  /\ Got(list, o, t) = GotIn(o, list[i], o.quantity, t)
             /\ Paid(list, o, t) = PaidIn(o, list[i], v, Fee(v), t)
             /\ Charged(list, o) = Fee(v)
<1> DEFINE N == Len(list)
           U == Units(list, o)
           V == Values(list, o)
           C == Charges(list, o)
           v == Value(list, i, o.quantity)
<1>1. /\ \A j \in 1 .. N : /\ U[j] = Now!Taken(list, o, j) /\ U[j] \in Nat
                           /\ V[j] = U[j] * list[j].price /\ V[j] \in Nat
                           /\ C[j] = Fee(V[j]) /\ C[j] \in Nat
      /\ o.quantity \in Nat /\ \A j \in 1 .. N : list[j].price \in Nat
  BY TradeTypes, ListCosts, WantsFields
<1>2. /\ Now!Taken(list, o, i) = o.quantity
      /\ \A j \in (1 .. N) \ {i} : Now!Taken(list, o, j) = 0
  BY <1>1, TakenNext, ListCosts DEF Fewer
<1> HIDE DEF U, V, C
<1>3. U[i] = o.quantity /\ V[i] = v /\ C[i] = Fee(v) /\ v \in Nat /\ Fee(v) \in Nat
  BY <1>1, <1>2 DEF Value
<1>4. \A j \in (1 .. N) \ {i} : U[j] = 0 /\ V[j] = 0 /\ C[j] = 0
  BY <1>1, <1>2, NoFee
<1> HIDE DEF v
<1>5. /\ OfAll(list, U) = o.quantity /\ OfOne(list, U, t) = When(t = list[i].trader, o.quantity)
      /\ OfAll(list, V) = v /\ OfOne(list, V, t) = When(t = list[i].trader, v)
      /\ OfAll(list, C) = Fee(v)
  <2>1. U[i] \in Int /\ V[i] \in Int /\ C[i] \in Int
    BY <1>1
  <2>2. OfAll(list, U) = U[i] /\ OfOne(list, U, t) = When(t = list[i].trader, U[i])
    BY <1>4, <2>1, SumsAlone
  <2>3. OfAll(list, V) = V[i] /\ OfOne(list, V, t) = When(t = list[i].trader, V[i])
    BY <1>4, <2>1, SumsAlone
  <2>4. OfAll(list, C) = C[i]
    BY <1>4, <2>1, SumsAlone, ZenonT(60)
  <2> QED
    BY <1>3, <2>2, <2>3, <2>4
<1>6. SignedSums(o, OfAll(list, U), OfOne(list, U, t), o.quantity, list[i], t, 0, 0)
  BY <1>1, <1>5 DEF SignedSums, When
<1>7. SignedSums(o, OfAll(list, V), OfOne(list, V, t), v, list[i], t, 0, 0)
  BY <1>3, <1>5 DEF SignedSums, When
<1>8. Fee(v) \in Int /\ 0 \in Int /\ OfAll(list, C) = Fee(v) + 0
  BY <1>3, <1>5
<1>9. Got(list, o, t) = GotIn(o, list[i], o.quantity, t)
          + ((IF t = o.trader THEN Sign(o) * 0 ELSE 0) - Sign(o) * 0)
  BY <1>6, SignedUnits DEF Got, U
<1>10. Paid(list, o, t) = PaidIn(o, list[i], v, Fee(v), t)
          + ((IF t = o.trader THEN Sign(o) * 0 + 0 ELSE 0) - Sign(o) * 0)
  BY <1>7, <1>8, SignedMoney DEF Paid, V, C
<1>11. /\ (IF t = o.trader THEN Sign(o) * 0 ELSE 0) - Sign(o) * 0 = 0
       /\ (IF t = o.trader THEN Sign(o) * 0 + 0 ELSE 0) - Sign(o) * 0 = 0
       /\ GotIn(o, list[i], o.quantity, t) \in Int /\ PaidIn(o, list[i], v, Fee(v), t) \in Int
  BY <1>1, <1>3, <1>8 DEF Sign, GotIn, PaidIn, When
<1> QED
  BY <1>5, <1>9, <1>10, <1>11 DEF Charged, v, C

\* If not, the trades are one with it and those of what is left.
LEMMA TradeOnward ==
  ASSUME NEW list \in Seq(Order), NEW o \in Wanting, NEW i \in 1 .. Len(list), IsNext(list, o, i),
         list[i].quantity <= o.quantity, NEW t
  PROVE  LET v == Value(list, i, list[i].quantity)
             rest == RemoveAt(list, i)
             less == [o EXCEPT !.quantity = @ - list[i].quantity]
         IN  /\ Got(list, o, t) = GotIn(o, list[i], list[i].quantity, t) + Got(rest, less, t)
             /\ Paid(list, o, t) = PaidIn(o, list[i], v, Fee(v), t) + Paid(rest, less, t)
             /\ Charged(list, o) = Fee(v) + Charged(rest, less)
             /\ Got(rest, less, t) \in Int /\ Paid(rest, less, t) \in Int /\ Charged(rest, less) \in Int
<1> DEFINE N == Len(list)
           n == list[i].quantity
           v == Value(list, i, n)
           rest == RemoveAt(list, i)
           less == [o EXCEPT !.quantity = @ - n]
           U == Units(list, o)
           V == Values(list, o)
           C == Charges(list, o)
           u == Units(rest, less)
           w == Values(rest, less)
           c == Charges(rest, less)
<1>0. /\ N \in Nat /\ n \in Nat /\ \A j \in 1 .. N : list[j].price \in Nat
      /\ o.quantity \in Nat /\ less \in Wanting
  BY OneUsedUp, ListCosts, WantsFields
<1>1. \A j \in 1 .. N : /\ U[j] = Now!Taken(list, o, j) /\ U[j] \in Nat
                        /\ V[j] = U[j] * list[j].price /\ V[j] \in Nat
                        /\ C[j] = Fee(V[j]) /\ C[j] \in Nat
  BY TradeTypes
<1>2. /\ rest \in Seq(Order) /\ Len(rest) = N - 1
      /\ \A l \in 1 .. N - 1 : rest[l] = list[Shift(i, l)]
  <2>1. /\ rest \in Seq(Order) /\ Len(rest) = N - 1
        /\ \A l \in 1 .. N - 1 : rest[l] = IF l < i THEN list[l] ELSE list[l + 1]
    BY RemoveAtFacts
  <2> HIDE DEF rest
  <2> QED
    BY <2>1 DEF Shift
<1>3. \A j \in 1 .. N - 1 : /\ u[j] = Now!Taken(rest, less, j)
                            /\ w[j] = u[j] * rest[j].price
                            /\ c[j] = Fee(w[j])
  BY <1>0, <1>2, TradeTypes
<1>4. \A j \in 1 .. N - 1 : Now!Taken(rest, less, j) = Now!Taken(list, o, Shift(i, j))
  BY TakenOnward
<1>5. Now!Taken(list, o, i) = n
  BY <1>0, TakenNext DEF Fewer
<1>6. \A j \in 1 .. N - 1 : Shift(i, j) \in 1 .. N
  BY <1>0, ShiftFacts
<1>7. less.trader = o.trader /\ Sign(less) = Sign(o)
  BY DEF Sign, Wanting
<1> HIDE DEF N, rest, less, U, V, C, u, w, c
<1>8. ShiftedFrom(u, U, N, i) /\ ShiftedFrom(w, V, N, i) /\ ShiftedFrom(c, C, N, i)
  <2>1. ASSUME NEW j \in 1 .. N - 1
        PROVE  /\ u[j] \in Int /\ u[j] = U[Shift(i, j)]
               /\ w[j] \in Int /\ w[j] = V[Shift(i, j)]
               /\ c[j] \in Int /\ c[j] = C[Shift(i, j)]
    <3> DEFINE m == Shift(i, j)
    <3>1. m \in 1 .. N /\ rest[j] = list[m]
      BY <1>2, <1>6
    <3>2. /\ u[j] = Now!Taken(list, o, m) /\ w[j] = u[j] * list[m].price /\ c[j] = Fee(w[j])
      BY <1>3, <1>4, <3>1
    <3>3. /\ U[m] = Now!Taken(list, o, m) /\ U[m] \in Nat
          /\ V[m] = U[m] * list[m].price /\ V[m] \in Nat
          /\ C[m] = Fee(V[m]) /\ C[m] \in Nat
      BY <1>1, <3>1
    <3> HIDE DEF m
    <3>4. u[j] = U[m] /\ w[j] = V[m] /\ c[j] = C[m]
      BY <3>2, <3>3
    <3> QED
      BY <3>3, <3>4 DEF m
  <2> QED
    BY <2>1 DEF ShiftedFrom
<1>9. IntsOn(U, 1 .. N) /\ IntsOn(V, 1 .. N) /\ IntsOn(C, 1 .. N)
  BY <1>1 DEF IntsOn
<1>10. U[i] = n /\ V[i] = v /\ C[i] = Fee(v) /\ v \in Nat /\ Fee(v) \in Nat
  <2>1. i \in 1 .. N
    BY DEF N
  <2> QED
    BY <1>0, <1>1, <1>5, <2>1 DEF Value
<1> HIDE DEF v
<1>11. /\ OfAll(list, U) = n + OfAll(rest, u)
       /\ OfOne(list, U, t) = When(t = list[i].trader, n) + OfOne(rest, u, t)
       /\ OfAll(rest, u) \in Int /\ OfOne(rest, u, t) \in Int
  BY <1>8, <1>9, <1>10, SumsOnward DEF N, rest
<1>12. /\ OfAll(list, V) = v + OfAll(rest, w)
       /\ OfOne(list, V, t) = When(t = list[i].trader, v) + OfOne(rest, w, t)
       /\ OfAll(rest, w) \in Int /\ OfOne(rest, w, t) \in Int
  BY <1>8, <1>9, <1>10, SumsOnward DEF N, rest
<1>13. /\ OfAll(list, C) = Fee(v) + OfAll(rest, c)
       /\ OfOne(list, C, t) = When(t = list[i].trader, Fee(v)) + OfOne(rest, c, t)
       /\ OfAll(rest, c) \in Int
  BY <1>8, <1>9, <1>10, SumsOnward DEF N, rest
<1>14. SignedSums(o, OfAll(list, U), OfOne(list, U, t), n, list[i], t, OfAll(rest, u), OfOne(rest, u, t))
  BY <1>0, <1>11 DEF SignedSums
<1>15. SignedSums(o, OfAll(list, V), OfOne(list, V, t), v, list[i], t, OfAll(rest, w), OfOne(rest, w, t))
  BY <1>10, <1>12 DEF SignedSums
<1>16. Got(list, o, t) = GotIn(o, list[i], n, t) + Got(rest, less, t)
  BY <1>7, <1>14, SignedUnits DEF Got, U, u
<1>17. Paid(list, o, t) = PaidIn(o, list[i], v, Fee(v), t) + Paid(rest, less, t)
  <2>1. Fee(v) \in Int
    BY <1>10
  <2> QED
    BY <1>7, <1>13, <1>15, <2>1, SignedMoney DEF Paid, V, C, w, c
<1>18. Got(rest, less, t) \in Int /\ Paid(rest, less, t) \in Int
  BY <1>11, <1>12, <1>13, SMTT(30) DEF Got, Paid, Sign, u, w, c
<1> QED
  BY <1>13, <1>16, <1>17, <1>18 DEF Charged, C, c, v, rest, less
-----------------------------------------------------------------------------
(* The passes of the matching loop *)

\* The list an order meets holds orders of the other side.
LEMMA MetFiled ==
  ASSUME IInv, NEW o \in Order
  PROVE  /\ book \in Lists /\ FiledIn(book, nextId) /\ o \in Wanting
         /\ Met(book, o) \in Seq(Order) /\ DOMAIN Met(book, o) = 1 .. Len(Met(book, o))
         /\ \A j \in 1 .. Len(Met(book, o)) : /\ Met(book, o)[j] \in Order
                                              /\ Met(book, o)[j].side = Opposite(o.side)
                                              /\ Met(book, o)[j].price \in Nat
<1>1. book \in Lists /\ FiledIn(book, nextId)
  BY InvariantInParts DEF BookInv
<1>2. o \in Wanting /\ o.product \in Products /\ Opposite(o.side) \in Sides
  BY OrdersWant, OrderFields
<1>3. Met(book, o) \in Seq(Order)
  BY <1>1, <1>2, MetIsSeq
<1>4. /\ DOMAIN Met(book, o) = 1 .. Len(Met(book, o))
      /\ \A j \in 1 .. Len(Met(book, o)) : /\ Met(book, o)[j] \in Order
                                           /\ Met(book, o)[j].price \in Nat
  BY <1>3, ListCosts
<1>5. \A j \in 1 .. Len(Met(book, o)) : Met(book, o)[j].side = Opposite(o.side)
  BY <1>1, <1>2, <1>4 DEF FiledIn, Met
<1> QED
  BY <1>1, <1>2, <1>3, <1>4, <1>5

\* The code compares prices by side, the specification costs.
LEMMA PricesAreCosts ==
  ASSUME IInv, NEW o \in Order
  PROVE  \A j, l \in 1 .. Len(Met(book, o)) :
           /\ Crosses(o, Met(book, o)[j]) <=> Now!Cost(Met(book, o)[j]) <= Now!Accepts(o)
           /\ BetterPrice(Met(book, o)[j], Met(book, o)[l])
                <=> Now!Cost(Met(book, o)[j]) < Now!Cost(Met(book, o)[l])
           /\ Now!Cost(Met(book, o)[j]) \in Int
<1> SUFFICES ASSUME NEW j \in 1 .. Len(Met(book, o)), NEW l \in 1 .. Len(Met(book, o))
             PROVE  /\ Crosses(o, Met(book, o)[j]) <=> Now!Cost(Met(book, o)[j]) <= Now!Accepts(o)
                    /\ BetterPrice(Met(book, o)[j], Met(book, o)[l])
                         <=> Now!Cost(Met(book, o)[j]) < Now!Cost(Met(book, o)[l])
                    /\ Now!Cost(Met(book, o)[j]) \in Int
  OBVIOUS
<1>1. /\ Met(book, o)[j].side = Opposite(o.side) /\ Met(book, o)[j].price \in Nat
      /\ Met(book, o)[l].side = Opposite(o.side) /\ Met(book, o)[l].price \in Nat
      /\ o.price \in Nat /\ o.side \in {"buy", "sell"}
  BY MetFiled, OrderFields DEF Sides
<1>2. CASE o.side = "buy"
  BY <1>1, <1>2 DEF Crosses, BetterPrice, Now!Cost, Now!Accepts, Opposite
<1>3. CASE o.side = "sell"
  BY <1>1, <1>3, SMTT(30) DEF Crosses, BetterPrice, Now!Cost, Now!Accepts, Opposite
<1> QED
  BY <1>1, <1>2, <1>3

\* find_best_sell and find_best_buy return the next order to trade,
LEMMA BestIsNext ==
  ASSUME IInv, NEW o \in Order, NEW i \in FindBest(o)
  PROVE  i \in 1 .. Len(Met(book, o)) /\ IsNext(Met(book, o), o, i)
<1> DEFINE list == Met(book, o)
<1>1. /\ i \in DOMAIN list /\ Crosses(o, list[i])
      /\ \A j \in DOMAIN list : ~ BetterPrice(list[j], list[i])
      /\ \A j \in 1 .. i - 1 : BetterPrice(list[i], list[j])
  BY DEF FindBest, Met
<1>2. DOMAIN list = 1 .. Len(list) /\ Len(list) \in Nat
  BY MetFiled, ListCosts
<1>3. \A j, l \in 1 .. Len(list) :
           /\ Crosses(o, list[j]) <=> Now!Cost(list[j]) <= Now!Accepts(o)
           /\ BetterPrice(list[j], list[l]) <=> Now!Cost(list[j]) < Now!Cost(list[l])
           /\ Now!Cost(list[j]) \in Int
  BY PricesAreCosts
<1> HIDE DEF list
<1>4. i \in Now!Eligible(list, o)
  BY <1>1, <1>2, <1>3 DEF Now!Eligible
<1>5. ASSUME NEW j \in 1 .. Len(list)
      PROVE  /\ Now!Cost(list[i]) <= Now!Cost(list[j])
             /\ j < i => Now!Cost(list[i]) < Now!Cost(list[j])
  BY <1>1, <1>2, <1>3
<1>6. IsNext(list, o, i)
  BY <1>2, <1>4, <1>5 DEF IsNext
<1> QED
  BY <1>1, <1>2, <1>6 DEF list

\* and nothing only if there is none.
LEMMA NoneEligible ==
  ASSUME IInv, NEW o \in Order, FindBest(o) = {}
  PROVE  Now!Eligible(Met(book, o), o) = {}
<1>1. \A i \in DOMAIN Met(book, o) : ~ Crosses(o, Met(book, o)[i])
  BY MetFiled, FindBestFinds DEF Met
<1> QED
  BY <1>1, MetFiled, PricesAreCosts DEF Now!Eligible

\* The accounts a and b, before and after the trade of n units for v.
Moved(a, b, o, r, n, v) ==
  /\ b.pos = [t \in Traders |-> [a.pos[t] EXCEPT ![o.product] =
                [quantity |-> @.quantity + GotIn(o, r, n, t),
                 balance |-> @.balance - PaidIn(o, r, v, Fee(v), t)]]]
  /\ b.fees = a.fees + Fee(v)

\* The type of the accounts.
Accounted(a) == /\ a.pos \in [Traders -> [Products -> [quantity : Int, balance : Int]]]
            /\ a.fees \in Int

\* The accounts after the last trade,
LEMMA BookedAlone ==
  ASSUME NEW a, NEW b, NEW list \in Seq(Order), NEW o \in Wanting, NEW i \in 1 .. Len(list),
         IsNext(list, o, i),
         o.quantity <= list[i].quantity, Moved(a, b, o, list[i], o.quantity, Value(list, i, o.quantity))
  PROVE  b.pos = Booked(a, o, list).pos /\ b.fees = Booked(a, o, list).fees
<1> DEFINE v == Value(list, i, o.quantity)
<1>1. \A t : /\ Got(list, o, t) = GotIn(o, list[i], o.quantity, t)
             /\ Paid(list, o, t) = PaidIn(o, list[i], v, Fee(v), t)
             /\ Charged(list, o) = Fee(v)
  BY TradeAlone
<1> HIDE DEF v
<1>2. /\ b.pos = [t \in Traders |-> [a.pos[t] EXCEPT ![o.product] =
                [quantity |-> @.quantity + GotIn(o, list[i], o.quantity, t),
                 balance |-> @.balance - PaidIn(o, list[i], v, Fee(v), t)]]]
      /\ b.fees = a.fees + Fee(v)
  BY DEF Moved, v
<1> QED
  BY <1>1, <1>2 DEF Booked

\* and after one with more to come.
LEMMA BookedOnward ==
  ASSUME NEW a, Accounted(a), NEW b, NEW list \in Seq(Order), NEW o \in Wanting, NEW i \in 1 .. Len(list),
         IsNext(list, o, i), list[i].quantity <= o.quantity,
         Moved(a, b, o, list[i], list[i].quantity, Value(list, i, list[i].quantity))
  PROVE  Booked(b, [o EXCEPT !.quantity = @ - list[i].quantity], RemoveAt(list, i)) = Booked(a, o, list)
<1> DEFINE n == list[i].quantity
           v == Value(list, i, n)
           less == [o EXCEPT !.quantity = @ - n]
           rest == RemoveAt(list, i)
           p == o.product
           g(t) == GotIn(o, list[i], n, t)
           m(t) == PaidIn(o, list[i], v, Fee(v), t)
<1>1. \A t : /\ Got(list, o, t) = g(t) + Got(rest, less, t)
             /\ Paid(list, o, t) = m(t) + Paid(rest, less, t)
             /\ Charged(list, o) = Fee(v) + Charged(rest, less)
             /\ Got(rest, less, t) \in Int /\ Paid(rest, less, t) \in Int /\ Charged(rest, less) \in Int
  BY TradeOnward
<1>2. /\ b.pos = [t \in Traders |-> [a.pos[t] EXCEPT ![p] =
                [quantity |-> @.quantity + g(t), balance |-> @.balance - m(t)]]]
      /\ b.fees = a.fees + Fee(v)
  BY DEF Moved
<1>3. less.product = p /\ p \in Products
  BY WantsFields DEF Wanting
<1>4. n \in Nat /\ v \in Nat /\ Fee(v) \in Nat
  <2>1. n \in Nat /\ list[i].price \in Nat
    BY ListCosts
  <2>2. v \in Nat
    BY <2>1 DEF Value
  <2> QED
    BY <2>1, <2>2, NearestIsFee
<1>5. \A t : g(t) \in Int /\ m(t) \in Int
  <2> HIDE DEF n, v
  <2> QED
    BY <1>4 DEF GotIn, PaidIn, Sign, When
<1> HIDE DEF n, v, less, rest, p, g, m
<1>6. ASSUME NEW t \in Traders
      PROVE  [b.pos[t] EXCEPT ![p] = [quantity |-> @.quantity + Got(rest, less, t),
                                      balance |-> @.balance - Paid(rest, less, t)]]
               = [a.pos[t] EXCEPT ![p] = [quantity |-> @.quantity + Got(list, o, t),
                                          balance |-> @.balance - Paid(list, o, t)]]
  <2> DEFINE x == a.pos[t]
             y == b.pos[t]
  <2>1. x \in [Products -> [quantity : Int, balance : Int]]
    BY DEF Accounted
  <2>2. y = [x EXCEPT ![p] = [quantity |-> @.quantity + g(t), balance |-> @.balance - m(t)]]
    BY <1>2
  <2> HIDE DEF x, y
  <2>3. /\ x[p].quantity \in Int /\ x[p].balance \in Int
        /\ y[p].quantity = x[p].quantity + g(t) /\ y[p].balance = x[p].balance - m(t)
    BY <1>3, <2>1, <2>2
  <2>4. /\ y[p].quantity + Got(rest, less, t) = x[p].quantity + Got(list, o, t)
        /\ y[p].balance - Paid(rest, less, t) = x[p].balance - Paid(list, o, t)
    BY <1>1, <1>5, <2>3, SMTT(30)
  <2>5. \A z : [y EXCEPT ![p] = z] = [x EXCEPT ![p] = z]
    BY <1>3, <2>1, <2>2
  <2>6. [y EXCEPT ![p] = [quantity |-> y[p].quantity + Got(rest, less, t),
                          balance |-> y[p].balance - Paid(rest, less, t)]]
          = [x EXCEPT ![p] = [quantity |-> x[p].quantity + Got(list, o, t),
                              balance |-> x[p].balance - Paid(list, o, t)]]
    BY <2>4, <2>5
  <2> QED
    BY <2>6 DEF x, y
<1>7. b.fees + Charged(rest, less) = a.fees + Charged(list, o)
  <2>1. Charged(list, o) = Fee(v) + Charged(rest, less) /\ Charged(rest, less) \in Int
    BY <1>1, Zenon
  <2> QED
    BY <1>2, <1>4, <2>1 DEF Accounted
<1>8. Booked(b, less, rest) = Booked(a, o, list)
  BY <1>3, <1>6, <1>7 DEF Booked, p
<1> QED
  BY <1>8 DEF less, rest, n

\* The accounts as they stand.
Standing == [pos |-> pos, fees |-> fees]

\* update_inventory moves what the specification says, if it fits.
LEMMA TradeMoves ==
  ASSUME IInv, PositionsFit, NEW o \in Order, NEW r \in Order, NEW n \in Nat, n <= MaxQuantity,
         o.side = "sell" => r.price * n <= IntMax, Settle(o, r, n)
  PROVE  Moved(Standing, Standing', o, r, n, r.price * n)
<1> DEFINE v == r.price * n
           p == o.product
           buyer  == IF o.side = "buy" THEN o.trader ELSE r.trader
           seller == IF o.side = "buy" THEN r.trader ELSE o.trader
           x(t) == pos[t][p].quantity + When(t = buyer, n) - When(t = seller, n)
<1>1. /\ pos \in [Traders -> [Products -> [quantity : Int, balance : Int]]] /\ fees \in Int
      /\ p \in Products /\ r.price \in Nat /\ v \in Nat /\ o.side \in {"buy", "sell"}
  <2>1. /\ pos \in [Traders -> [Products -> [quantity : Int, balance : Int]]] /\ fees \in Int
        /\ p \in Products /\ r.price \in Nat /\ o.side \in {"buy", "sell"}
    BY InvariantInParts, OrderFields DEF Shapes, Sides
  <2>2. v \in Nat
    BY <2>1
  <2> QED
    BY <2>1, <2>2
<1>2. TotalPrice(o, r, n) = v
  <2>1. CASE o.side = "buy"
    BY <2>1 DEF TotalPrice
  <2>2. CASE o.side = "sell"
    <3>1. v <= IntMax
      BY <2>2
    <3> HIDE DEF v
    <3>2. Wrap(v) = v
      BY <1>1, <3>1, WrapFits, IntMaxAssumption
    <3> QED
      BY <2>2, <3>2 DEF TotalPrice, v
  <2> QED
    BY <1>1, <2>1, <2>2
<1>3. Fee(v) \in Nat
  <2> HIDE DEF v
  <2> QED
    BY <1>1, NearestIsFee
<1>4. /\ fees' = fees + Fee(v)
      /\ pos' = [t \in Traders |-> [pos[t] EXCEPT ![p] =
                  [quantity |-> Wrap(@.quantity + When(t = buyer, n) - When(t = seller, n)),
                   balance |-> @.balance + When(t = seller, v) - When(t = buyer, v)
                                         - When(t = o.trader, Fee(v))]]]
  BY <1>2 DEF Settle
<1> HIDE DEF v, p
<1>5. ASSUME NEW t \in Traders
      PROVE  /\ Wrap(x(t)) = pos[t][p].quantity + GotIn(o, r, n, t)
             /\ pos[t][p].balance + When(t = seller, v) - When(t = buyer, v) - When(t = o.trader, Fee(v))
                  = pos[t][p].balance - PaidIn(o, r, v, Fee(v), t)
  <2>1. pos[t][p].quantity \in Int /\ pos[t][p].balance \in Int
    BY <1>1
  <2> DEFINE a(z) == When(t = o.trader, z)
             b(z) == When(t = r.trader, z)
  <2>8. \A z \in Int : a(z) \in Int /\ b(z) \in Int
    BY DEF When
  <2>9. \/ /\ Sign(o) = 1
           /\ \A z : When(t = buyer, z) = a(z) /\ When(t = seller, z) = b(z)
        \/ /\ Sign(o) = -1
           /\ \A z : When(t = buyer, z) = b(z) /\ When(t = seller, z) = a(z)
    BY <1>1 DEF Sign
  <2>10. /\ GotIn(o, r, n, t) = Sign(o) * (a(n) - b(n))
         /\ PaidIn(o, r, v, Fee(v), t) = Sign(o) * (a(v) - b(v)) + a(Fee(v))
    BY DEF GotIn, PaidIn
  <2> DEFINE got(z) == When(t = buyer, z)
             gave(z) == When(t = seller, z)
  <2> HIDE DEF a, b, got, gave
  <2>11. \/ Sign(o) = 1 /\ \A z : got(z) = a(z) /\ gave(z) = b(z)
         \/ Sign(o) = -1 /\ \A z : got(z) = b(z) /\ gave(z) = a(z)
    BY <2>9 DEF got, gave
  <2>12. pos[t][p].quantity + got(n) - gave(n) = pos[t][p].quantity + GotIn(o, r, n, t)
    BY <1>1, <2>1, <2>8, <2>10, <2>11
  <2>13. pos[t][p].balance + gave(v) - got(v) - a(Fee(v)) = pos[t][p].balance - PaidIn(o, r, v, Fee(v), t)
    BY <1>1, <1>3, <2>1, <2>8, <2>10, <2>11
  <2>2. x(t) = pos[t][p].quantity + GotIn(o, r, n, t)
    BY <2>12 DEF got, gave
  <2>3. pos[t][p].quantity \in - (IntMax - MaxQuantity) .. IntMax - MaxQuantity
    BY <1>1 DEF PositionsFit
  <2>4. MaxQuantity \in Nat /\ IntMax \in Nat
    BY OrderBookAssumption, IntMaxAssumption
  <2>5. x(t) \in -(IntMax + 1) .. IntMax
    BY <2>1, <2>3, <2>4 DEF When
  <2>6. Wrap(x(t)) = x(t)
    <3> HIDE DEF x
    <3> QED
      BY <2>5, WrapFits
  <2>7. pos[t][p].balance + When(t = seller, v) - When(t = buyer, v) - When(t = o.trader, Fee(v))
                  = pos[t][p].balance - PaidIn(o, r, v, Fee(v), t)
    BY <2>13 DEF got, gave, a
  <2> QED
    BY <2>2, <2>6, <2>7
<1> HIDE DEF buyer, seller
<1>6. pos' = [t \in Traders |-> [pos[t] EXCEPT ![p] =
                [quantity |-> pos[t][p].quantity + GotIn(o, r, n, t),
                 balance |-> pos[t][p].balance - PaidIn(o, r, v, Fee(v), t)]]]
  BY <1>1, <1>4, <1>5
<1>7. pos' = [t \in Traders |-> [pos[t] EXCEPT ![p] =
                [quantity |-> @.quantity + GotIn(o, r, n, t),
                 balance |-> @.balance - PaidIn(o, r, v, Fee(v), t)]]]
  BY <1>1, <1>6
<1>8. /\ Standing.pos = pos /\ Standing.fees = fees
      /\ Standing'.pos = pos' /\ Standing'.fees = fees'
  BY DEF Standing
<1> HIDE DEF p
<1> QED
  BY <1>4, <1>7, <1>8 DEF Moved, p, v

\* The abstract state, before a step and after it.
LEMMA MatchedIs ==
  /\ taker = NoOrder => MatchedBook = book /\ MatchedAccounts = Standing
  /\ taker \in Order => /\ MatchedBook = Now!Clear(book, taker)
                        /\ MatchedAccounts = Booked(Standing, taker, Met(book, taker))
<1>1. taker = NoOrder => MatchedBook = book /\ MatchedAccounts = Standing
  BY DEF MatchedBook, MatchedAccounts, Idle, Standing
<1>2. ASSUME taker \in Order
      PROVE  /\ MatchedBook = Now!Clear(book, taker)
             /\ MatchedAccounts = Booked(Standing, taker, Met(book, taker))
  <2>1. ~ Idle /\ taker \in Wanting
    BY <1>2, NoOrderApart, OrdersWant DEF Idle
  <2>2. Now!Traded(book, taker, Standing) = Booked(Standing, taker, Met(book, taker))
    BY <2>1, TradedIs
  <2> QED
    BY <2>1, <2>2 DEF MatchedBook, MatchedAccounts, Standing
<1> QED
  BY <1>1, <1>2

\* The same of the state after a step.
LEMMA MatchedAfter ==
  /\ taker' = NoOrder => MatchedBook' = book' /\ MatchedAccounts' = Standing'
  /\ taker' \in Order => /\ MatchedBook' = Now!Clear(book', taker')
                         /\ MatchedAccounts' = Booked(Standing', taker', Met(book', taker'))
<1>1. taker' = NoOrder => MatchedBook' = book' /\ MatchedAccounts' = Standing'
  BY DEF MatchedBook, MatchedAccounts, Idle, Standing
<1>2. ASSUME taker' \in Order
      PROVE  /\ MatchedBook' = Now!Clear(book', taker')
             /\ MatchedAccounts' = Booked(Standing', taker', Met(book', taker'))
  <2>1. ~ Idle' /\ taker' \in Wanting
    BY <1>2, NoOrderApart, OrdersWant DEF Idle
  <2>2. Now!Traded(book', taker', Standing') = Booked(Standing', taker', Met(book', taker'))
    BY <2>1, TradedIs
  <2> QED
    BY <2>1, <2>2 DEF MatchedBook, MatchedAccounts, Standing
<1> QED
  BY <1>1, <1>2

\* match_new_buy and match_new_sell: a pass changes the book and what is still to
\* come, and their sum stays.
LEMMA MatchStutters ==
  ASSUME IInv, Match, PositionsFit, TradesFit
  PROVE  MatchedBook' = MatchedBook /\ MatchedAccounts'.pos = MatchedAccounts.pos
         /\ MatchedAccounts'.fees = MatchedAccounts.fees
<1> DEFINE p == taker.product
           s == Opposite(taker.side)
           list == book[p][s]
<1>1. PICK i \in FindBest(taker) :
        LET resting == book[p][s][i]
            n == Fewer(taker.quantity, resting.quantity)
        IN  /\ p \in Products /\ s \in Sides /\ i \in DOMAIN book[p][s]
            /\ taker \in Order /\ resting \in Order
            /\ n \in Nat /\ n >= 1 /\ n <= MaxQuantity
            /\ Settle(taker, resting, n)
            /\ IF resting.quantity = n THEN Unlist(p, s, i) ELSE Reduce(p, s, i, n)
            /\ taker' = IF taker.quantity = n THEN NoOrder
                                              ELSE [taker EXCEPT !.quantity = @ - n]
  BY MatchTrades
<1> DEFINE resting == list[i]
           n == Fewer(taker.quantity, resting.quantity)
           v == Value(list, i, n)
           less == [taker EXCEPT !.quantity = @ - n]
<1>2. /\ taker \in Order /\ taker \in Wanting /\ list = Met(book, taker) /\ list \in Seq(Order)
      /\ book \in Lists /\ i \in 1 .. Len(list) /\ IsNext(list, taker, i)
  <2>1. taker \in Order
    BY <1>1
  <2> QED
    BY <2>1, MetFiled, BestIsNext DEF Met
<1>3. /\ taker.quantity \in Nat /\ taker.quantity >= 1 /\ taker.quantity <= MaxQuantity
      /\ resting.quantity \in Nat /\ resting.quantity >= 1 /\ resting \in Order
      /\ n \in Nat /\ n <= MaxQuantity
  BY <1>1, <1>2, OrderFields
<1>4. Moved(Standing, Standing', taker, resting, n, v)
  <2>1. taker.side = "sell" => resting.price * n <= IntMax
    BY <1>1 DEF TradesFit, Match, Opposite
  <2>2. Settle(taker, resting, n)
    BY <1>1
  <2> HIDE DEF n
  <2>3. Moved(Standing, Standing', taker, resting, n, resting.price * n)
    BY <1>2, <1>3, <2>1, <2>2, TradeMoves
  <2> QED
    BY <2>3 DEF Value
<1> DEFINE reduced == [list EXCEPT ![i] = [resting EXCEPT !.quantity = @ - n]]
<1>5. /\ resting.quantity = n => book' = Replaced(book, p, s, RemoveAt(list, i))
      /\ resting.quantity # n => book' = Replaced(book, p, s, reduced)
      /\ taker.quantity = n => taker' = NoOrder
      /\ taker.quantity # n => taker' = less
  <2>1. /\ resting.quantity = n => Unlist(p, s, i)
        /\ resting.quantity # n => Reduce(p, s, i, n)
        /\ taker.quantity = n => taker' = NoOrder
        /\ taker.quantity # n => taker' = less
    BY <1>1
  <2>2. p \in Products /\ s \in Sides
    BY <1>1
  <2> HIDE DEF n, less
  <2>3. resting.quantity = n => book' = Replaced(book, p, s, RemoveAt(list, i))
    BY <1>2, <2>1, <2>2 DEF Unlist, Replaced, Lists
  <2>4. resting.quantity # n => book' = Replaced(book, p, s, reduced)
    BY <1>2, <2>1, <2>2 DEF Reduce, Replaced, Lists
  <2> QED
    BY <2>1, <2>3, <2>4
<1>6. MatchedBook = Now!Clear(book, taker) /\ MatchedAccounts = Booked(Standing, taker, list)
  BY <1>2, MatchedIs
<1>7. taker.quantity = n => MatchedBook' = book' /\ MatchedAccounts' = Standing'
  BY <1>5, MatchedAfter
<1>8. CASE taker.quantity < resting.quantity
  <2>1. n = taker.quantity /\ resting.quantity # n
    BY <1>3, <1>8 DEF Fewer
  <2>2. Now!Clear(book, taker) =
          Replaced(book, p, s, [list EXCEPT ![i] = [resting EXCEPT !.quantity = @ - taker.quantity]])
    BY <1>2, <1>8, ClearReduced
  <2>3. MatchedBook' = MatchedBook
    BY <1>5, <1>6, <1>7, <2>1, <2>2
  <2>4. /\ Standing'.pos = Booked(Standing, taker, list).pos
        /\ Standing'.fees = Booked(Standing, taker, list).fees
    <3>1. taker.quantity <= list[i].quantity
      BY <1>3, <1>8
    <3>2. Moved(Standing, Standing', taker, list[i], taker.quantity, Value(list, i, taker.quantity))
      BY <1>4, <2>1, Zenon
    <3> HIDE DEF list
    <3> QED
      BY <1>2, <3>1, <3>2, BookedAlone
  <2> QED
    BY <1>6, <1>7, <2>1, <2>3, <2>4
<1>9. CASE resting.quantity <= taker.quantity
  <2>1. n = resting.quantity
    BY <1>3, <1>9 DEF Fewer
  <2> DEFINE after == Replaced(book, p, s, RemoveAt(list, i))
  <2>2. /\ after \in Lists /\ less \in Wanting
        /\ Met(after, less) = RemoveAt(list, i)
        /\ Now!Clear(after, less) = Now!Clear(book, taker)
        /\ less.quantity = taker.quantity - n
    <3>1. less.quantity = taker.quantity - n
      BY <1>2 DEF Wanting
    <3> QED
      BY <1>2, <1>9, <2>1, <3>1, ClearOnward
  <2>3. book' = after
    BY <1>5, <2>1
  <2> HIDE DEF after
  <2>4. CASE taker.quantity = n
    <3>1. less.quantity = 0
      BY <1>3, <2>2, <2>4
    <3>2. Now!Clear(after, less) = after
      BY <2>2, <3>1, ClearDone
    <3>3. MatchedBook' = MatchedBook
      BY <1>6, <1>7, <2>2, <2>3, <2>4, <3>2
    <3>4. /\ Standing'.pos = Booked(Standing, taker, list).pos
          /\ Standing'.fees = Booked(Standing, taker, list).fees
      <4>1. taker.quantity <= list[i].quantity
        BY <1>3, <2>1, <2>4
      <4>2. Moved(Standing, Standing', taker, list[i], taker.quantity, Value(list, i, taker.quantity))
        BY <1>4, <2>4, Zenon
      <4> HIDE DEF list
      <4> QED
        BY <1>2, <4>1, <4>2, BookedAlone
    <3> QED
      BY <1>6, <1>7, <2>4, <3>3, <3>4
  <2>5. CASE taker.quantity # n
    <3>1. taker' = less
      BY <1>5, <2>5
    <3>2. less \in Order
      <4>1. less.quantity \in 1 .. MaxQuantity
        <5>1. MaxQuantity \in Nat
          BY OrderBookAssumption, IntMaxAssumption
        <5> HIDE DEF less, n
        <5> QED
          BY <1>3, <1>9, <2>1, <2>2, <2>5, <5>1
      <4> HIDE DEF n
      <4> QED
        BY <1>2, <2>2, <4>1 DEF Order
    <3>3. /\ MatchedBook' = Now!Clear(after, less)
          /\ MatchedAccounts' = Booked(Standing', less, RemoveAt(list, i))
      BY <2>2, <2>3, <3>1, <3>2, MatchedAfter
    <3>4. Booked(Standing', less, RemoveAt(list, i)) = Booked(Standing, taker, list)
      <4>1. Accounted(Standing)
        BY InvariantInParts DEF Accounted, Standing, Shapes
      <4>2. Moved(Standing, Standing', taker, list[i], list[i].quantity, Value(list, i, list[i].quantity))
        BY <1>4, <2>1
      <4>3. Booked(Standing', [taker EXCEPT !.quantity = @ - list[i].quantity], RemoveAt(list, i))
              = Booked(Standing, taker, list)
        <5> HIDE DEF list
        <5> QED
          BY <1>2, <1>9, <4>1, <4>2, BookedOnward
      <4> QED
        BY <2>1, <4>3
    <3> QED
      BY <1>6, <2>2, <3>3, <3>4
  <2> QED
    BY <2>4, <2>5
<1> QED
  BY <1>3, <1>8, <1>9

\* So does add_order at the end of check_for_match.
LEMMA RestStutters ==
  ASSUME IInv, Rest
  PROVE  MatchedBook' = MatchedBook /\ MatchedAccounts' = MatchedAccounts
<1>1. /\ taker \in Order /\ FindBest(taker) = {} /\ taker' = NoOrder
      /\ book' = [book EXCEPT ![taker.product][taker.side] = Append(@, taker)]
      /\ pos' = pos /\ fees' = fees
  BY InvariantInParts DEF Rest, Idle, Shapes, accounts
<1>2. /\ book \in Lists /\ Met(book, taker) \in Seq(Order) /\ taker \in Wanting
      /\ Now!Eligible(Met(book, taker), taker) = {}
  BY <1>1, MetFiled, NoneEligible
<1>3. Now!Clear(book, taker) =
        Replaced(book, taker.product, taker.side, Append(book[taker.product][taker.side], taker))
  BY <1>1, <1>2, ClearNothing
<1>4. book' = Replaced(book, taker.product, taker.side, Append(book[taker.product][taker.side], taker))
  BY <1>1, <1>2, WantsFields DEF Replaced, Lists
<1>5. MatchedBook' = MatchedBook
  BY <1>1, <1>3, <1>4, MatchedIs, MatchedAfter
<1>6. \A t : /\ Got(Met(book, taker), taker, t) = 0 /\ Paid(Met(book, taker), taker, t) = 0
             /\ Charged(Met(book, taker), taker) = 0
  <2> SUFFICES ASSUME NEW t
               PROVE  /\ Got(Met(book, taker), taker, t) = 0 /\ Paid(Met(book, taker), taker, t) = 0
                      /\ Charged(Met(book, taker), taker) = 0
    OBVIOUS
  <2> DEFINE list == Met(book, taker)
  <2>1. \A j \in 1 .. Len(list) : /\ Units(list, taker)[j] = 0 /\ Values(list, taker)[j] = 0
                                  /\ Charges(list, taker)[j] = 0
    <3> SUFFICES ASSUME NEW j \in 1 .. Len(list)
                 PROVE  /\ Units(list, taker)[j] = 0 /\ Values(list, taker)[j] = 0
                        /\ Charges(list, taker)[j] = 0
      OBVIOUS
    <3>1. Now!Taken(list, taker, j) = 0 /\ list[j].price \in Nat
      BY <1>2, TakenBounds, ListCosts
    <3>2. /\ Units(list, taker)[j] = Now!Taken(list, taker, j)
          /\ Values(list, taker)[j] = Units(list, taker)[j] * list[j].price
          /\ Charges(list, taker)[j] = Fee(Values(list, taker)[j])
      BY <1>2, TradeTypes
    <3> HIDE DEF list
    <3>3. Units(list, taker)[j] = 0 /\ Values(list, taker)[j] = 0
      BY <3>1, <3>2
    <3> QED
      BY <3>2, <3>3, NoFee
  <2>2. /\ DOMAIN list = 1 .. Len(list) /\ IsFiniteSet(1 .. Len(list))
        /\ Of(list, t) \subseteq 1 .. Len(list) /\ IsFiniteSet(Of(list, t))
    <3>1. DOMAIN list = 1 .. Len(list) /\ Len(list) \in Nat
      BY <1>2, ListCosts
    <3>2. IsFiniteSet(1 .. Len(list))
      BY <3>1, FS_Interval
    <3>3. Of(list, t) \subseteq 1 .. Len(list)
      BY <3>1 DEF Of
    <3> QED
      BY <3>1, <3>2, <3>3, FS_Subset
  <2> HIDE DEF list
  <2>3. /\ OfAll(list, Units(list, taker)) = 0 /\ OfAll(list, Values(list, taker)) = 0
        /\ OfAll(list, Charges(list, taker)) = 0
    BY <2>1, <2>2, SumOfZeros DEF OfAll
  <2>4. OfOne(list, Units(list, taker), t) = 0 /\ OfOne(list, Values(list, taker), t) = 0
    <3>1. \A j \in Of(list, t) : Units(list, taker)[j] = 0 /\ Values(list, taker)[j] = 0
      BY <2>1, <2>2
    <3> QED
      BY <2>2, <3>1, SumOfZeros DEF OfOne
  <2> QED
    BY <2>3, <2>4 DEF Got, Paid, Charged, Sign, list
<1>7. Booked(Standing, taker, Met(book, taker)) = Standing
  <2> DEFINE p == taker.product
             list == Met(book, taker)
  <2>1. /\ pos \in [Traders -> [Products -> [quantity : Int, balance : Int]]] /\ fees \in Int
        /\ p \in Products
    BY <1>2, InvariantInParts, WantsFields DEF Shapes
  <2>2. \A t \in Traders : [pos[t] EXCEPT ![p] =
            [quantity |-> @.quantity + Got(list, taker, t),
             balance |-> @.balance - Paid(list, taker, t)]] = pos[t]
    <3> SUFFICES ASSUME NEW t \in Traders
                 PROVE [pos[t] EXCEPT ![p] =
            [quantity |-> @.quantity + Got(list, taker, t),
             balance |-> @.balance - Paid(list, taker, t)]] = pos[t]
      OBVIOUS
    <3>1. Got(list, taker, t) = 0 /\ Paid(list, taker, t) = 0
      BY <1>6
    <3> HIDE DEF p, list
    <3>2. pos[t] \in [Products -> [quantity : Int, balance : Int]]
      BY <2>1
    <3>3. pos[t][p].quantity + 0 = pos[t][p].quantity /\ pos[t][p].balance - 0 = pos[t][p].balance
      BY <2>1, <3>2
    <3>4. [quantity |-> pos[t][p].quantity, balance |-> pos[t][p].balance] = pos[t][p]
      BY <2>1, <3>2
    <3> QED
      BY <2>1, <3>1, <3>2, <3>3, <3>4
  <2>3. Charged(list, taker) = 0
    BY <1>6, Zenon
  <2> HIDE DEF list, p
  <2>4. fees + Charged(list, taker) = fees
    BY <2>1, <2>3
  <2>5. [t \in Traders |-> [pos[t] EXCEPT ![p] =
            [quantity |-> @.quantity + Got(list, taker, t),
             balance |-> @.balance - Paid(list, taker, t)]]] = pos
    BY <2>1, <2>2
  <2> QED
    BY <2>4, <2>5 DEF Booked, Standing, list, p
<1>8. Standing' = Standing
  BY <1>1 DEF Standing
<1> QED
  BY <1>1, <1>5, <1>7, <1>8, MatchedIs, MatchedAfter

\* A step that leaves the book, the taker and the accounts alone is a stutter.
LEMMA QuietRefines ==
  ASSUME UNCHANGED <<book, pos, fees, nextId, alive, taker>>
  PROVE  UNCHANGED Matched!vars
<1>1. MatchedBook' = MatchedBook /\ MatchedAccounts' = MatchedAccounts
  BY DEF MatchedBook, MatchedAccounts, Idle
<1> QED
  BY <1>1 DEF Matched!vars

\* A message that leaves an order to be matched.
LEMMA Entered ==
  ASSUME IInv, Idle, taker' \in Order, UNCHANGED <<pos, fees>>
  PROVE  /\ MatchedBook = book
         /\ MatchedBook' = Matched!Clear(book', taker')
         /\ LET after == Matched!Traded(book', taker',
                           [pos |-> MatchedAccounts.pos, fees |-> MatchedAccounts.fees])
            IN  MatchedAccounts'.pos = after.pos /\ MatchedAccounts'.fees = after.fees
<1>1. taker = NoOrder /\ MatchedBook = book /\ MatchedAccounts = Standing
  BY MatchedIs DEF Idle
<1>2. MatchedBook' = Matched!Clear(book', taker')
  BY MatchedAfter, SameClear
<1>3. Standing' = Standing /\ [pos |-> Standing.pos, fees |-> Standing.fees] = Standing
  BY DEF Standing
<1>4. Matched!Traded(book', taker', Standing) = Booked(Standing, taker', Met(book', taker'))
  <2>1. taker' \in Wanting
    BY OrdersWant
  <2> QED
    BY <2>1, SameTraded, TradedIs
<1>5. MatchedAccounts' = Matched!Traded(book', taker',
                           [pos |-> MatchedAccounts.pos, fees |-> MatchedAccounts.fees])
  BY <1>1, <1>3, <1>4, MatchedAfter
<1> QED
  BY <1>1, <1>2, <1>5

\* The messages are the steps of the specification.
LEMMA BuySellRefines ==
  ASSUME IInv, Idle, NEW t \in Traders, alive[t], NEW m \in Commands, BuySellMsg(t, m)
  PROVE  Matched!Next
<1> DEFINE o == [trader |-> t, id |-> nextId[t], product |-> m.product, side |-> OrderSide(m),
                 quantity |-> m.quantity, price |-> m.price]
<1>1. /\ m.product \in Products /\ m.id = nextId[t] /\ m.id \in 0 .. MaxOrderId
      /\ m.quantity \in 1 .. MaxQuantity /\ m.price \in 1 .. MaxPrice /\ OrderSide(m) \in Sides
      /\ taker' = o /\ nextId' = [nextId EXCEPT ![t] = @ + 1]
      /\ UNCHANGED <<book, pos, fees, alive>>
  BY DEF BuySellMsg, ValidNew, ValidTerms, OrderSide, Sides, books, accounts
<1>2. taker' \in Order
  <2>1. Shapes' /\ IInv'
    BY BuySellMsgKeeps, InvariantInParts
  <2>2. nextId[t] \in Nat
    BY InvariantInParts DEF Shapes
  <2> QED
    BY <1>1, <2>2 DEF Order
<1>3. /\ MatchedBook = book /\ MatchedBook' = Matched!Clear(book, o)
      /\ LET after == Matched!Traded(book, o, [pos |-> MatchedAccounts.pos, fees |-> MatchedAccounts.fees])
         IN  MatchedAccounts'.pos = after.pos /\ MatchedAccounts'.fees = after.fees
  BY <1>1, <1>2, Entered
<1>4. Matched!Enter(MatchedBook, o)
  BY <1>3 DEF Matched!Enter
<1>5. Matched!Place(t, m.product, OrderSide(m), m.quantity, m.price)
  BY <1>1, <1>4 DEF Matched!Place
<1> HIDE DEF o
<1> QED
  BY <1>1, <1>5 DEF Matched!Next, Matched!Sides, Sides

\* An AMEND is a withdrawal and an entry in one.
LEMMA AmendRefines ==
  ASSUME IInv, Idle, NEW t \in Traders, alive[t], NEW m \in Commands, AmendMsg(t, m)
  PROVE  Matched!Next
<1>1. PICK at \in FindOrder(t, m.id) :
        /\ taker' = [book[at[1]][at[2]][at[3]] EXCEPT !.quantity = m.quantity, !.price = m.price]
        /\ Unlist(at[1], at[2], at[3])
  BY DEF AmendMsg
<1> DEFINE p == at[1]
           s == at[2]
           i == at[3]
           o == book[p][s][i]
           e == [o EXCEPT !.quantity = m.quantity, !.price = m.price]
           listed == [book EXCEPT ![p][s] = RemoveAt(@, i)]
<1>2. /\ p \in Products /\ s \in Sides /\ i \in DOMAIN book[p][s] /\ o \in Order /\ o.trader = t
  <2>1. BookInv(nextId)
    BY InvariantInParts
  <2> QED
    BY <2>1, FindOrderFinds, FindOrderHas, SMTT(30) DEF Has
<1>3. /\ m.quantity \in 1 .. MaxQuantity /\ m.price \in 1 .. MaxPrice
      /\ UNCHANGED <<pos, fees, nextId, alive>>
  BY DEF AmendMsg, ValidAmend, ValidTerms, accounts
<1>4. taker' = e /\ book' = listed
  BY <1>1 DEF Unlist
<1>5. e \in Order
  BY <1>2, <1>3 DEF Order
<1>6. /\ MatchedBook = book /\ MatchedBook' = Matched!Clear(listed, e)
      /\ LET after == Matched!Traded(listed, e, [pos |-> MatchedAccounts.pos, fees |-> MatchedAccounts.fees])
         IN  MatchedAccounts'.pos = after.pos /\ MatchedAccounts'.fees = after.fees
  <2> HIDE DEF e, listed
  <2> QED
    BY <1>3, <1>4, <1>5, Entered
<1>7. Matched!Enter(listed, e)
  BY <1>6 DEF Matched!Enter
<1>8. listed = [MatchedBook EXCEPT ![p][s] = Matched!RemoveAt(@, i)]
  BY <1>6, SameOthers
<1>9. Matched!Amend(p, s, i, m.quantity, m.price)
  BY <1>2, <1>3, <1>6, <1>7, <1>8 DEF Matched!Amend
<1> HIDE DEF p, s, i
<1> QED
  BY <1>2, <1>3, <1>6, <1>9 DEF Matched!Next, Matched!Sides, Sides

\* A CANCEL is a withdrawal.
LEMMA CancelRefines ==
  ASSUME IInv, Idle, NEW t \in Traders, alive[t], NEW m \in Commands, CancelMsg(t, m)
  PROVE  Matched!Next
<1>1. PICK at \in FindOrder(t, m.id) : Unlist(at[1], at[2], at[3])
  BY DEF CancelMsg
<1> DEFINE p == at[1]
           s == at[2]
           i == at[3]
           o == book[p][s][i]
<1>2. /\ p \in Products /\ s \in Sides /\ i \in DOMAIN book[p][s] /\ o \in Order /\ o.trader = t
  <2>1. BookInv(nextId)
    BY InvariantInParts
  <2> QED
    BY <2>1, FindOrderFinds, FindOrderHas, SMTT(30) DEF Has
<1>3. /\ book' = [book EXCEPT ![p][s] = RemoveAt(@, i)]
      /\ taker = NoOrder /\ taker' = NoOrder
      /\ UNCHANGED <<pos, fees, nextId, alive>>
  BY <1>1 DEF CancelMsg, Unlist, accounts, Idle
<1>4. /\ MatchedBook = book /\ MatchedBook' = book'
      /\ MatchedAccounts' = MatchedAccounts
  <2>1. Standing' = Standing
    BY <1>3 DEF Standing
  <2> QED
    BY <1>3, <2>1, MatchedIs, MatchedAfter
<1>5. Matched!Withdraw(p, s, i)
  BY <1>2, <1>3, <1>4, SameOthers DEF Matched!Withdraw
<1> HIDE DEF p, s, i
<1> QED
  BY <1>2, <1>4, <1>5 DEF Matched!Next, Matched!Sides, Sides

\* A death leaves the orders where they are.
LEMMA DeathRefines ==
  ASSUME NEW t \in Traders, TraderDied(t)
  PROVE  Matched!Next
<1>1. /\ taker = NoOrder /\ alive' = [alive EXCEPT ![t] = FALSE]
      /\ UNCHANGED <<book, pos, fees, nextId, taker>>
  BY DEF TraderDied, Idle, books, accounts
<1>2. MatchedBook' = MatchedBook /\ MatchedAccounts' = MatchedAccounts
  BY <1>1 DEF MatchedBook, MatchedAccounts, Idle
<1>3. Matched!Leave(t)
  BY <1>1, <1>2 DEF Matched!Leave
<1> QED
  BY <1>3 DEF Matched!Next

\* check_for_match and all it calls: while the values of trades and the positions fit
\* in their types, every accepted message is one step of price-time priority.
THEOREM PromiseKept == Spec /\ []PositionsFit /\ []TradesFit => KeepsPromise
<1>1. IInv /\ PositionsFit /\ TradesFit /\ [Next]_vars => [Matched!Next]_(Matched!vars)
  <2> SUFFICES ASSUME IInv, PositionsFit, TradesFit, [Next]_vars
               PROVE  Matched!Next \/ UNCHANGED Matched!vars
    OBVIOUS
  <2>1. ASSUME NEW t \in Traders, NEW m \in Commands, ParseMsg(t, m)
        PROVE  Matched!Next \/ UNCHANGED Matched!vars
    <3>1. CASE BuySellMsg(t, m)
      BY <2>1, <3>1, BuySellRefines DEF ParseMsg
    <3>2. CASE AmendMsg(t, m)
      BY <2>1, <3>2, AmendRefines DEF ParseMsg
    <3>3. CASE CancelMsg(t, m)
      BY <2>1, <3>3, CancelRefines DEF ParseMsg
    <3>4. CASE InvalidMsg(t, m)
      BY <3>4, QuietRefines DEF InvalidMsg, books, accounts
    <3> QED
      BY <2>1, <3>1, <3>2, <3>3, <3>4 DEF ParseMsg
  <2>2. CASE Match
    <3>1. UNCHANGED <<nextId, alive>>
      BY <2>2 DEF Match
    <3> QED
      BY <2>2, <3>1, MatchStutters DEF Matched!vars
  <2>3. CASE Rest
    <3>1. UNCHANGED <<nextId, alive>>
      BY <2>3 DEF Rest
    <3> QED
      BY <2>3, <3>1, RestStutters DEF Matched!vars
  <2>4. ASSUME NEW t \in Traders, TraderDied(t)
        PROVE  Matched!Next
    BY <2>4, DeathRefines
  <2>5. CASE Completed \/ UNCHANGED vars
    BY <2>5, QuietRefines DEF Completed, vars
  <2> QED
    BY <2>1, <2>2, <2>3, <2>4, <2>5 DEF Next
<1> QED
  BY <1>1, InitRefines, Invariance, PTL DEF Spec, KeepsPromise, Matched!Spec
=============================================================================
