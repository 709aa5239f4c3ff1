-------------------------- MODULE EnumerationProofs --------------------------
(***************************************************************************)
(* What Ascending and Only return, for every finite set of integers and    *)
(* every sequence.                                                         *)
(***************************************************************************)
EXTENDS Enumeration, FiniteSetTheorems, SequenceTheorems, TLAPS

-----------------------------------------------------------------------------
(* Ranks and the ascending order. *)

\* The rank of an element is below the number of elements, and a larger element
\* has a larger rank.
LEMMA RankRises ==
    ASSUME NEW S, S \subseteq Int, IsFiniteSet(S)
    PROVE  /\ Cardinality(S) \in Nat
           /\ \A x : Rank(S, x) \in Nat
           /\ \A x \in S : Rank(S, x) \in 0 .. (Cardinality(S) - 1)
           /\ \A x, y \in S : x < y => Rank(S, x) < Rank(S, y)
<1> DEFINE before(x) == {y \in S : y < x}
<1>1. Cardinality(S) \in Nat
  BY FS_CardinalityType
<1>2. \A x : IsFiniteSet(before(x)) /\ Cardinality(before(x)) \in Nat
  BY FS_Subset, FS_CardinalityType
<1>3. \A x \in S : Cardinality(before(x)) < Cardinality(S)
  <2> SUFFICES ASSUME NEW x \in S PROVE Cardinality(before(x)) < Cardinality(S)
    OBVIOUS
  <2>1. before(x) \subseteq S /\ before(x) # S
    <3>1. x \in Int /\ x \notin before(x)
      OBVIOUS
    <3> QED
      BY <3>1
  <2>2. Cardinality(before(x)) <= Cardinality(S) /\ Cardinality(before(x)) # Cardinality(S)
    BY <2>1, FS_Subset
  <2>3. Cardinality(before(x)) \in Nat
    BY <1>2
  <2> HIDE DEF before
  <2> QED
    BY <1>1, <2>2, <2>3
<1>4. \A x, y \in S : x < y => Cardinality(before(x)) < Cardinality(before(y))
  <2> SUFFICES ASSUME NEW x \in S, NEW y \in S, x < y
               PROVE  Cardinality(before(x)) < Cardinality(before(y))
    OBVIOUS
  <2>1. before(x) \subseteq before(y) /\ x \in before(y) /\ x \notin before(x)
    <3>1. x \in Int /\ y \in Int /\ \A z \in S : z \in Int
      OBVIOUS
    <3>2. ~ (x < x) /\ \A z \in S : z < x => z < y
      BY <3>1
    <3> QED
      BY <3>2, Zenon
  <2>2. Cardinality(before(x)) <= Cardinality(before(y))
        /\ Cardinality(before(x)) # Cardinality(before(y))
    BY <1>2, <2>1, FS_Subset
  <2>3. Cardinality(before(x)) \in Nat /\ Cardinality(before(y)) \in Nat
    BY <1>2
  <2> HIDE DEF before
  <2> QED
    BY <2>2, <2>3
<1>5. \A x : Rank(S, x) = Cardinality(before(x))
  BY DEF Rank
<1> HIDE DEF before
<1> QED
  BY <1>1, <1>2, <1>3, <1>4, <1>5

\* Every rank below the number of elements is the rank of one element.
LEMMA RankIsTaken ==
    ASSUME NEW S, S \subseteq Int, IsFiniteSet(S), NEW k \in 1 .. Cardinality(S)
    PROVE  \E x \in S : Rank(S, x) = k - 1
<1> DEFINE n == Cardinality(S)
           ranks == 0 .. (n - 1)
           rank == [x \in S |-> Rank(S, x)]
<1>1. n \in Nat
  BY RankRises
<1>2. rank \in [S -> ranks]
  BY RankRises
<1>3. IsInjective(rank)
  <2> SUFFICES ASSUME NEW x \in S, NEW y \in S, Rank(S, x) = Rank(S, y) PROVE x = y
    BY DEF IsInjective
  <2>1. x \in Int /\ y \in Int /\ Rank(S, x) \in Nat /\ Rank(S, y) \in Nat
    BY RankRises
  <2>2. (x < y => Rank(S, x) < Rank(S, y)) /\ (y < x => Rank(S, y) < Rank(S, x))
    BY RankRises
  <2> QED
    BY <2>1, <2>2
<1>4. IsFiniteSet(ranks) /\ Cardinality(ranks) = n
  <2> HIDE DEF n
  <2>1. 0 \in Int /\ n - 1 \in Int
    BY <1>1
  <2>2. IsFiniteSet(ranks) /\ Cardinality(ranks) = IF 0 > n - 1 THEN 0 ELSE n - 1 - 0 + 1
    BY <2>1, FS_Interval
  <2> QED
    BY <1>1, <2>2
<1>5. rank \in Injection(S, ranks)
  BY <1>2, <1>3 DEF Injection
<1>6. rank \in Surjection(S, ranks)
  BY <1>4, <1>5, FS_Injection
<1>7. k - 1 \in ranks
  BY <1>1
<1>8. PICK x \in S : rank[x] = k - 1
  BY <1>6, <1>7 DEF Surjection
<1> QED
  BY <1>8

\* The ascending order has one place for each element: the k-th is the element
\* of rank k - 1, each element has its place, and the order rises.
LEMMA AscendingOrder ==
    ASSUME NEW S, S \subseteq Int, IsFiniteSet(S)
    PROVE  /\ Cardinality(S) \in Nat
           /\ Ascending(S) \in [1 .. Cardinality(S) -> S]
           /\ \A k \in 1 .. Cardinality(S) : Rank(S, Ascending(S)[k]) = k - 1
           /\ \A x \in S : /\ Rank(S, x) + 1 \in 1 .. Cardinality(S)
                          /\ Ascending(S)[Rank(S, x) + 1] = x
           /\ \A j, k \in 1 .. Cardinality(S) : j < k => Ascending(S)[j] < Ascending(S)[k]
<1> DEFINE n == Cardinality(S)
           order == Ascending(S)
<1>1. n \in Nat /\ \A x \in S : Rank(S, x) \in 0 .. (n - 1)
  BY RankRises
<1>2. \A x, y \in S : x < y => Rank(S, x) < Rank(S, y)
  BY RankRises
<1>3. \A k \in 1 .. n : order[k] \in S /\ Rank(S, order[k]) = k - 1
  <2> SUFFICES ASSUME NEW k \in 1 .. n PROVE order[k] \in S /\ Rank(S, order[k]) = k - 1
    OBVIOUS
  <2>1. \E x \in S : Rank(S, x) = k - 1
    BY RankIsTaken
  <2>2. order[k] = CHOOSE x \in S : Rank(S, x) = k - 1
    BY DEF Ascending
  <2> HIDE DEF order, n
  <2> QED
    BY <2>1, <2>2
<1>4. order \in [1 .. n -> S]
  <2>1. order = [k \in 1 .. n |-> order[k]]
    BY DEF Ascending
  <2> HIDE DEF order, n
  <2> QED
    BY <2>1, <1>3
<1> HIDE DEF order, n
<1>5. \A x, y \in S : Rank(S, x) = Rank(S, y) => x = y
  <2> SUFFICES ASSUME NEW x \in S, NEW y \in S, Rank(S, x) = Rank(S, y) PROVE x = y
    OBVIOUS
  <2>1. x \in Int /\ y \in Int /\ Rank(S, x) \in Int /\ Rank(S, y) \in Int
    BY <1>1
  <2> QED
    BY <1>2, <2>1
<1>6. \A x \in S : Rank(S, x) + 1 \in 1 .. n /\ order[Rank(S, x) + 1] = x
  <2> SUFFICES ASSUME NEW x \in S
               PROVE  Rank(S, x) + 1 \in 1 .. n /\ order[Rank(S, x) + 1] = x
    OBVIOUS
  <2>1. Rank(S, x) + 1 \in 1 .. n /\ Rank(S, x) + 1 - 1 = Rank(S, x)
    BY <1>1
  <2> DEFINE k == Rank(S, x) + 1
  <2>2. order[k] \in S /\ Rank(S, order[k]) = Rank(S, x)
    <3>1. k \in 1 .. n /\ k - 1 = Rank(S, x)
      BY <1>1, <2>1
    <3> HIDE DEF k
    <3> QED
      BY <1>3, <3>1
  <2>3. order[k] = x
    <3> HIDE DEF k
    <3> QED
      BY <1>5, <2>2
  <2> QED
    BY <2>1, <2>3
<1>7. ASSUME NEW j \in 1 .. n, NEW k \in 1 .. n, j < k PROVE order[j] < order[k]
  <2>1. order[j] \in Int /\ order[k] \in Int /\ order[j] \in S /\ order[k] \in S
    BY <1>3
  <2>2. Rank(S, order[j]) < Rank(S, order[k])
    BY <1>1, <1>3, <1>7
  <2>3. ~ (order[k] < order[j]) /\ order[k] # order[j]
    <3>1. Rank(S, order[j]) \in Int /\ Rank(S, order[k]) \in Int
      BY <1>1, <1>3
    <3> QED
      BY <1>2, <2>1, <2>2, <3>1
  <2> QED
    BY <2>1, <2>3
<1> QED
  BY <1>1, <1>3, <1>4, <1>6, <1>7 DEF n, order

\* There is one way to put a set in order: a rising sequence of length n of the
\* elements of S, with each rank where it belongs, is the ascending order.
LEMMA RanksDetermineOrder ==
    ASSUME NEW S, S \subseteq Int, IsFiniteSet(S), NEW n \in Nat, NEW s \in [1 .. n -> S],
           n = Cardinality(S), \A k \in 1 .. n : Rank(S, s[k]) = k - 1
    PROVE  s = Ascending(S)
<1>1. \A k \in 1 .. n : Ascending(S)[k] = s[k]
  <2> SUFFICES ASSUME NEW k \in 1 .. n PROVE Ascending(S)[k] = s[k]
    OBVIOUS
  <2>1. s[k] \in S /\ Rank(S, s[k]) = k - 1
    OBVIOUS
  <2>2. Ascending(S)[Rank(S, s[k]) + 1] = s[k]
    BY <2>1, AscendingOrder
  <2>3. k - 1 + 1 = k
    OBVIOUS
  <2> QED
    BY <2>1, <2>2, <2>3
<1>2. Ascending(S) \in [1 .. n -> S]
  BY AscendingOrder
<1> QED
  BY <1>1, <1>2

\* An element above all of S comes last.
LEMMA AscendingLast ==
    ASSUME NEW S, S \subseteq Int, IsFiniteSet(S), NEW m \in Int, \A x \in S : x < m
    PROVE  /\ Cardinality(S \cup {m}) = Cardinality(S) + 1
           /\ Ascending(S \cup {m}) = Append(Ascending(S), m)
<1> DEFINE n == Cardinality(S)
           U == S \cup {m}
           order == Ascending(S)
           longer == Append(order, m)
<1>1. n \in Nat /\ order \in [1 .. n -> S] /\ \A k \in 1 .. n : Rank(S, order[k]) = k - 1
  BY AscendingOrder
<1>2. m \notin S
  OBVIOUS
<1>3. IsFiniteSet(U) /\ Cardinality(U) = n + 1 /\ U \subseteq Int
  BY <1>2, FS_AddElement
<1>4. \A x \in S : Rank(U, x) = Rank(S, x)
  <2> SUFFICES ASSUME NEW x \in S PROVE {y \in U : y < x} = {y \in S : y < x}
    BY DEF Rank
  <2>1. ~ (m < x)
    OBVIOUS
  <2> QED
    BY <2>1
<1>5. Rank(U, m) = n
  <2>1. ~ (m < m)
    OBVIOUS
  <2>2. {y \in U : y < m} = S
    BY <2>1
  <2> QED
    BY <2>2 DEF Rank
<1> HIDE DEF n, U, order
<1>6. /\ longer \in [1 .. (n + 1) -> U]
      /\ \A k \in 1 .. n : longer[k] = order[k]
      /\ longer[n + 1] = m
  <2>1. order \in Seq(U) /\ Len(order) = n /\ m \in U
    BY <1>1 DEF U
  <2>2. /\ longer \in Seq(U) /\ Len(longer) = n + 1
        /\ \A k \in 1 .. n : longer[k] = order[k]
        /\ longer[n + 1] = m
    BY <2>1, AppendProperties
  <2> HIDE DEF longer
  <2>3. longer \in [1 .. Len(longer) -> U]
    BY <2>2, LenProperties
  <2> QED
    BY <1>1, <2>2, <2>3
<1>7. \A k \in 1 .. (n + 1) : Rank(U, longer[k]) = k - 1
  <2> SUFFICES ASSUME NEW k \in 1 .. (n + 1) PROVE Rank(U, longer[k]) = k - 1
    OBVIOUS
  <2>1. CASE k = n + 1
    BY <1>1, <1>5, <1>6, <2>1
  <2>2. CASE k # n + 1
    <3>1. k \in 1 .. n
      BY <1>1, <2>2
    <3>2. longer[k] = order[k] /\ order[k] \in S /\ Rank(S, order[k]) = k - 1
      BY <1>1, <1>6, <3>1
    <3> QED
      BY <1>4, <3>2
  <2> QED
    BY <2>1, <2>2
<1>8. n + 1 \in Nat /\ longer \in [1 .. (n + 1) -> U]
  BY <1>1, <1>6 DEF U
<1>9. longer = Ascending(U)
  <2> HIDE DEF longer
  <2> QED
    BY <1>3, <1>7, <1>8, RanksDetermineOrder
<1> QED
  BY <1>3, <1>9 DEF U, order, n

\* The ascending order of an interval is the interval.
LEMMA AscendingInterval ==
    ASSUME NEW a \in Int, NEW b \in Int, a <= b + 1
    PROVE  /\ Cardinality(a .. b) = b - a + 1
           /\ Ascending(a .. b) = [k \in 1 .. (b - a + 1) |-> a + k - 1]
<1> DEFINE n == b - a + 1
           s == [k \in 1 .. n |-> a + k - 1]
<1>1. IsFiniteSet(a .. b) /\ Cardinality(a .. b) = n
  <2>1. IsFiniteSet(a .. b) /\ Cardinality(a .. b) = IF a > b THEN 0 ELSE b - a + 1
    BY FS_Interval
  <2> QED
    BY <2>1
<1>2. n \in Nat /\ s \in [1 .. n -> a .. b]
  OBVIOUS
<1>3. \A k \in 1 .. n : Rank(a .. b, s[k]) = k - 1
  <2> SUFFICES ASSUME NEW k \in 1 .. n PROVE Rank(a .. b, s[k]) = k - 1
    OBVIOUS
  <2>1. {y \in a .. b : y < s[k]} = a .. (a + k - 2)
    OBVIOUS
  <2>2. Cardinality(a .. (a + k - 2)) = IF a > a + k - 2 THEN 0 ELSE a + k - 2 - a + 1
    BY FS_Interval
  <2>3. Rank(a .. b, s[k]) = Cardinality(a .. (a + k - 2))
    BY <2>1 DEF Rank
  <2> QED
    BY <2>2, <2>3
<1>4. s = Ascending(a .. b)
  <2>1. a .. b \subseteq Int
    OBVIOUS
  <2> HIDE DEF s, n
  <2> QED
    BY <1>1, <1>2, <1>3, <2>1, RanksDetermineOrder
<1> QED
  BY <1>1, <1>4

\* f keeps the order of the elements of S.
Rises(f, S) == \A x, y \in S : x < y => f[x] < f[y]

\* f renames the elements of S to those of U and keeps their order.
Renames(f, S, U) ==
    /\ S \subseteq Int /\ IsFiniteSet(S) /\ U \subseteq Int
    /\ f \in Surjection(S, U) /\ Rises(f, S)

\* A rising renaming of the elements keeps each in its place.
LEMMA AscendingRenamed ==
    ASSUME NEW f, NEW S, NEW U, Renames(f, S, U)
    PROVE  /\ IsFiniteSet(U) /\ Cardinality(U) = Cardinality(S)
           /\ Ascending(U) = [k \in 1 .. Cardinality(S) |-> f[Ascending(S)[k]]]
<1> DEFINE n == Cardinality(S)
           order == Ascending(S)
           renamed == [k \in 1 .. n |-> f[order[k]]]
<1>0. /\ S \subseteq Int /\ IsFiniteSet(S) /\ U \subseteq Int
      /\ f \in Surjection(S, U) /\ Rises(f, S)
  BY DEF Renames
<1>1. n \in Nat /\ order \in [1 .. n -> S] /\ \A k \in 1 .. n : Rank(S, order[k]) = k - 1
  BY <1>0, AscendingOrder
<1>2. f \in [S -> U]
  BY <1>0 DEF Surjection
<1>3. \A x, y \in S : f[x] < f[y] <=> x < y
  <2> SUFFICES ASSUME NEW x \in S, NEW y \in S PROVE f[x] < f[y] <=> x < y
    OBVIOUS
  <2>1. x \in Int /\ y \in Int /\ f[x] \in Int /\ f[y] \in Int
    BY <1>0, <1>2
  <2>2. (x < y => f[x] < f[y]) /\ (y < x => f[y] < f[x])
    BY <1>0 DEF Rises
  <2> QED
    BY <2>1, <2>2
<1>4. \A x, y \in S : f[x] = f[y] => x = y
  <2> SUFFICES ASSUME NEW x \in S, NEW y \in S, f[x] = f[y] PROVE x = y
    OBVIOUS
  <2>1. x \in Int /\ y \in Int /\ f[x] \in Int
    BY <1>0, <1>2
  <2>2. ~ (f[x] < f[y]) /\ ~ (f[y] < f[x])
    BY <2>1
  <2> QED
    BY <1>3, <2>1, <2>2
<1>5. \A u \in U : \E x \in S : f[x] = u
  BY <1>0 DEF Surjection
<1>6. IsFiniteSet(U) /\ Cardinality(U) = n
  <2>1. f \in Bijection(S, U)
    BY <1>0, <1>2, <1>4 DEF Bijection, Injection, IsInjective
  <2>2. ExistsBijection(S, U)
    BY <2>1 DEF ExistsBijection
  <2> QED
    BY <1>0, <2>2, FS_Bijection
<1>7. ASSUME NEW x \in S PROVE Rank(U, f[x]) = Rank(S, x)
  <2> DEFINE before == {y \in S : y < x}
             after == {u \in U : u < f[x]}
             g == [y \in before |-> f[y]]
  <2>1. IsFiniteSet(before)
    BY <1>0, FS_Subset
  <2>2. g \in [before -> after]
    BY <1>2, <1>3
  <2>3. \A u \in after : \E y \in before : g[y] = u
    BY <1>3, <1>5
  <2>4. IsInjective(g)
    BY <1>4 DEF IsInjective
  <2>5. g \in Bijection(before, after)
    BY <2>2, <2>3, <2>4 DEF Bijection, Injection, Surjection
  <2>6. ExistsBijection(before, after)
    BY <2>5 DEF ExistsBijection
  <2>7. Cardinality(after) = Cardinality(before)
    BY <2>1, <2>6, FS_Bijection
  <2> QED
    BY <2>7 DEF Rank
<1> HIDE DEF n, order
<1>8. renamed \in [1 .. n -> U] /\ \A k \in 1 .. n : Rank(U, renamed[k]) = k - 1
  BY <1>1, <1>2, <1>7
<1>9. renamed = Ascending(U)
  <2> HIDE DEF renamed
  <2> QED
    BY <1>0, <1>1, <1>6, <1>8, RanksDetermineOrder
<1> QED
  BY <1>6, <1>9 DEF n, order

-----------------------------------------------------------------------------
(* Sequences cut down to some of their positions. *)

\* What is left is elements of the sequence, at most as many, one for each
\* position kept, in the order they had.
LEMMA OnlyProperties ==
    ASSUME NEW T, NEW s \in Seq(T), NEW P, P \subseteq DOMAIN s
    PROVE  LET kept == Only(s, P)
               order == Ascending(P)
           IN  /\ IsFiniteSet(P) /\ P \subseteq Int
               /\ kept \in Seq(T) /\ Len(kept) = Cardinality(P) /\ Len(kept) <= Len(s)
               /\ \A k \in 1 .. Len(kept) : order[k] \in P /\ kept[k] = s[order[k]]
               /\ \A i \in P : \E k \in 1 .. Len(kept) : order[k] = i /\ kept[k] = s[i]
               /\ \A j, k \in 1 .. Len(kept) : j < k => order[j] < order[k]
<1> DEFINE kept == Only(s, P)
           order == Ascending(P)
           n == Cardinality(P)
<1>1. Len(s) \in Nat /\ s \in [1 .. Len(s) -> T] /\ DOMAIN s = 1 .. Len(s)
  BY LenProperties
<1>2. IsFiniteSet(DOMAIN s) /\ Cardinality(DOMAIN s) = Len(s)
  <2>1. /\ IsFiniteSet(1 .. Len(s))
        /\ Cardinality(1 .. Len(s)) = IF 1 > Len(s) THEN 0 ELSE Len(s) - 1 + 1
    BY <1>1, FS_Interval
  <2> QED
    BY <1>1, <2>1
<1>3. IsFiniteSet(P) /\ n <= Len(s) /\ P \subseteq Int
  BY <1>1, <1>2, FS_Subset
<1>4. /\ n \in Nat /\ order \in [1 .. n -> P]
      /\ \A x \in P : Rank(P, x) + 1 \in 1 .. n /\ order[Rank(P, x) + 1] = x
      /\ \A j, k \in 1 .. n : j < k => order[j] < order[k]
  BY <1>3, AscendingOrder
<1>5. kept = [k \in 1 .. n |-> s[order[k]]]
  BY <1>4 DEF Only
<1> HIDE DEF n, order, kept
<1>6. kept \in Seq(T) /\ Len(kept) = n
  BY <1>1, <1>4, <1>5
<1>7. ASSUME NEW i \in P PROVE \E k \in 1 .. n : order[k] = i /\ kept[k] = s[i]
  BY <1>4, <1>5
<1>8. \A k \in 1 .. n : order[k] \in P /\ kept[k] = s[order[k]]
  BY <1>4, <1>5
<1> QED
  BY <1>3, <1>4, <1>6, <1>7, <1>8 DEF n, order, kept

\* f leads, in order, from the positions P of s to the positions Q of t, where t
\* holds the same.
Moves(f, s, P, t, Q) ==
    /\ Renames(f, P, Q)
    /\ \A x \in P : t[f[x]] = s[x]

\* Only what is kept counts, and its order: not the places it is kept at.
LEMMA OnlyMoved ==
    ASSUME NEW f, NEW s, NEW P, NEW t, NEW Q, Moves(f, s, P, t, Q)
    PROVE  Only(t, Q) = Only(s, P)
<1> DEFINE n == Cardinality(P)
<1>1. n \in Nat /\ Ascending(P) \in [1 .. n -> P]
  BY AscendingOrder DEF Moves, Renames
<1>2. Ascending(Q) = [k \in 1 .. n |-> f[Ascending(P)[k]]]
  <2>1. Renames(f, P, Q)
    BY DEF Moves
  <2> QED
    BY <2>1, AscendingRenamed
<1>3. DOMAIN Ascending(Q) = 1 .. n /\ DOMAIN Ascending(P) = 1 .. n
  BY <1>1, <1>2
<1>4. \A k \in 1 .. n : t[Ascending(Q)[k]] = s[Ascending(P)[k]]
  BY <1>1, <1>2 DEF Moves
<1> HIDE DEF n
<1> QED
  BY <1>3, <1>4 DEF Only

\* What is not kept may as well be anything.
LEMMA OnlyAgrees ==
    ASSUME NEW T, NEW s \in Seq(T), NEW P, P \subseteq DOMAIN s, NEW t, \A i \in P : t[i] = s[i]
    PROVE  Only(t, P) = Only(s, P)
<1> DEFINE n == Cardinality(P)
           order == Ascending(P)
<1>1. n \in Nat /\ order \in [1 .. n -> P]
  BY OnlyProperties, AscendingOrder
<1>2. \A k \in 1 .. n : t[order[k]] = s[order[k]]
  BY <1>1
<1>3. DOMAIN order = 1 .. n
  BY <1>1
<1> HIDE DEF n, order
<1>4. [k \in DOMAIN order |-> t[order[k]]] = [k \in DOMAIN order |-> s[order[k]]]
  BY <1>2, <1>3
<1> QED
  BY <1>4 DEF Only, order

\* An element that is appended is dropped, or it is the last one kept.
LEMMA OnlyAppended ==
    ASSUME NEW T, NEW s \in Seq(T), NEW x \in T, NEW P, P \subseteq DOMAIN s
    PROVE  /\ Only(Append(s, x), P) = Only(s, P)
           /\ Only(Append(s, x), P \cup {Len(s) + 1}) = Append(Only(s, P), x)
<1> DEFINE n == Cardinality(P)
           order == Ascending(P)
           longer == Append(s, x)
           l == Len(s) + 1
<1>1. /\ longer \in Seq(T) /\ Len(s) \in Nat /\ DOMAIN s = 1 .. Len(s)
      /\ \A i \in DOMAIN s : longer[i] = s[i]
      /\ longer[l] = x
  BY AppendProperties, LenProperties
<1>2. Only(longer, P) = Only(s, P)
  <2> HIDE DEF longer
  <2>1. \A i \in P : longer[i] = s[i]
    BY <1>1
  <2> QED
    BY <2>1, OnlyAgrees
<1>3. IsFiniteSet(P) /\ P \subseteq Int
  BY OnlyProperties
<1>4. n \in Nat /\ order \in [1 .. n -> P]
  BY <1>3, AscendingOrder
<1>5. Ascending(P \cup {l}) = Append(order, l)
  <2>1. l \in Int /\ \A i \in P : i < l
    BY <1>1
  <2> HIDE DEF l
  <2> QED
    BY <1>3, <2>1, AscendingLast
<1>6. l \in Int
  BY <1>1
<1> HIDE DEF n, order, longer, l
<1>7. order \in Seq(Int) /\ Len(order) = n
  BY <1>3, <1>4
<1>8. /\ DOMAIN Append(order, l) = 1 .. (n + 1)
      /\ \A k \in 1 .. n : Append(order, l)[k] = order[k]
      /\ Append(order, l)[n + 1] = l
  <2>1. /\ Append(order, l) \in Seq(Int) /\ Len(Append(order, l)) = n + 1
        /\ \A k \in 1 .. n : Append(order, l)[k] = order[k]
        /\ Append(order, l)[n + 1] = l
    BY <1>6, <1>7, AppendProperties
  <2>2. DOMAIN Append(order, l) = 1 .. Len(Append(order, l))
    BY <2>1, LenProperties
  <2> QED
    BY <2>1, <2>2
<1>9. Only(s, P) = [k \in 1 .. n |-> s[order[k]]]
  BY <1>4 DEF Only, order
<1>10. Only(longer, P \cup {l}) = [k \in 1 .. (n + 1) |-> longer[Append(order, l)[k]]]
  BY <1>5, <1>8 DEF Only
<1>11. Only(s, P) \in Seq(T) /\ Len(Only(s, P)) = n
  BY OnlyProperties DEF n
<1>12. /\ Append(Only(s, P), x) \in Seq(T) /\ Len(Append(Only(s, P), x)) = n + 1
       /\ \A k \in 1 .. n : Append(Only(s, P), x)[k] = Only(s, P)[k]
       /\ Append(Only(s, P), x)[n + 1] = x
  BY <1>11, AppendProperties
<1>13. \A k \in 1 .. (n + 1) : longer[Append(order, l)[k]] = Append(Only(s, P), x)[k]
  <2> SUFFICES ASSUME NEW k \in 1 .. (n + 1)
               PROVE  longer[Append(order, l)[k]] = Append(Only(s, P), x)[k]
    OBVIOUS
  <2>1. CASE k = n + 1
    BY <1>1, <1>8, <1>12, <2>1
  <2>2. CASE k # n + 1
    <3>1. k \in 1 .. n
      BY <1>4, <2>2
    <3>2. Append(order, l)[k] = order[k] /\ order[k] \in DOMAIN s
      BY <1>4, <1>8, <3>1
    <3>3. longer[Append(order, l)[k]] = s[order[k]]
      BY <1>1, <3>2
    <3>4. Append(Only(s, P), x)[k] = s[order[k]]
      BY <1>9, <1>12, <3>1
    <3> QED
      BY <3>3, <3>4
  <2> QED
    BY <2>1, <2>2
<1>14. Append(Only(s, P), x) = [k \in 1 .. (n + 1) |-> Append(Only(s, P), x)[k]]
  <2>1. Append(Only(s, P), x) \in [1 .. (n + 1) -> T]
    BY <1>12, LenProperties
  <2> QED
    BY <2>1
<1>15. Only(longer, P \cup {l}) = Append(Only(s, P), x)
  BY <1>10, <1>13, <1>14
<1> QED
  BY <1>2, <1>15 DEF longer, l

\* To keep the positions from a on is to cut off what is before.
LEMMA OnlySuffix ==
    ASSUME NEW T, NEW s \in Seq(T), NEW a \in 1 .. (Len(s) + 1)
    PROVE  Only(s, a .. Len(s)) = SubSeq(s, a, Len(s))
<1> DEFINE n == Len(s) - a + 1
<1>1. Len(s) \in Nat
  BY LenProperties
<1>2. n \in Nat /\ a \in Int /\ Len(s) \in Int /\ a <= Len(s) + 1
  BY <1>1
<1>3. Ascending(a .. Len(s)) = [k \in 1 .. n |-> a + k - 1]
  BY <1>2, AscendingInterval
<1>4. Only(s, a .. Len(s)) = [k \in 1 .. n |-> s[a + k - 1]]
  BY <1>3 DEF Only
<1>5. SubSeq(s, a, Len(s)) = [k \in 1 .. n |-> s[a + k - 1]]
  BY <1>2
<1> QED
  BY <1>4, <1>5

\* To keep all positions is to change nothing.
LEMMA OnlyAll ==
    ASSUME NEW T, NEW s \in Seq(T)
    PROVE  Only(s, DOMAIN s) = s
<1>1. Len(s) \in Nat /\ DOMAIN s = 1 .. Len(s)
  BY LenProperties
<1>2. Only(s, 1 .. Len(s)) = SubSeq(s, 1, Len(s))
  BY <1>1, OnlySuffix
<1> QED
  BY <1>1, <1>2, SubSeqFull
=============================================================================
