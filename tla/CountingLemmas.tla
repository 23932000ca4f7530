---------------------------- MODULE CountingLemmas ----------------------------
(***************************************************************************)
(* Lemmas about numbers that the proofs of several components rest on: least   *)
(* members, remainders, sets of positions and the ranks of their members, as    *)
(* widths, wrapped pointers and CountOne of the lanes before a lane use them.   *)
(***************************************************************************)
EXTENDS Integers, FiniteSets, FiniteSetTheorems, WellFoundedInduction, TLAPS

(* A set of naturals that is not empty has a least member.                    *)
LEMMA LeastOf ==
  ASSUME NEW S, S \subseteq Nat, S # {}
  PROVE  \E x \in S : \A y \in S : x <= y
<1>1. \E x \in S : \A y \in S : ~ (<<y, x>> \in OpToRel(<, Nat))
  BY NatLessThanWellFounded, WFMin, Zenon
<1>2. PICK x \in S : \A y \in S : ~ (y < x)
  BY <1>1 DEF OpToRel
<1> QED
  BY <1>2

(***************************************************************************)
(* Remainders.                                                               *)
(***************************************************************************)
LEMMA Remainder ==
  ASSUME NEW m \in Nat \ {0}, NEW a \in Nat
  PROVE  (a % m) \in 0 .. m - 1 /\ (a < m => (a % m) = a)
OBVIOUS

LEMMA RemainderOfSmall ==
  ASSUME NEW m \in Nat \ {0}, NEW a \in 0 .. m - 1
  PROVE  ((a + 0) % m) = a
OBVIOUS

LEMMA Quotient ==
  ASSUME NEW m \in Nat \ {0}, NEW a \in Nat
  PROVE  a = m * (a \div m) + (a % m) /\ (a \div m) \in Nat
OBVIOUS

LEMMA RemainderUnique ==
  ASSUME NEW m \in Nat \ {0}, NEW a \in Nat, NEW q \in Nat, NEW r \in 0 .. m - 1,
         a = m * q + r
  PROVE  (a % m) = r
OBVIOUS

(* A counter may be reduced before or after something is added to it.          *)
LEMMA AddToRemainder ==
  ASSUME NEW m \in Nat \ {0}, NEW a \in Nat, NEW b \in Nat
  PROVE  (((a % m) + b) % m) = ((a + b) % m)
<1>1. PICK q \in Nat, r \in 0 .. m - 1 : a = m * q + r /\ (a % m) = r
  BY Remainder, Quotient
<1>2. PICK t \in Nat : t = r + b
  OBVIOUS
<1>3. PICK p \in Nat, s \in 0 .. m - 1 : t = m * p + s /\ (t % m) = s
  BY Remainder, Quotient
<1>4. PICK u \in Nat : u = a + b
  OBVIOUS
<1>5. PICK v \in Nat : v = p + q
  OBVIOUS
<1>6. u = m * v + s
  BY <1>1, <1>2, <1>3, <1>4, <1>5
<1>7. (u % m) = s
  BY <1>6, RemainderUnique
<1> QED
  BY <1>1, <1>2, <1>3, <1>4, <1>7

(***************************************************************************)
(* Counting positions.                                                       *)
(***************************************************************************)
(* Shifting positions changes no count.                                       *)
LEMMA CountShift ==
  ASSUME NEW d \in Int, NEW S \in SUBSET Int, IsFiniteSet(S)
  PROVE  /\ IsFiniteSet({d + x : x \in S})
         /\ Cardinality({d + x : x \in S}) = Cardinality(S)
<1> DEFINE T == {d + x : x \in S}
           f == [x \in S |-> d + x]
<1>1. f \in Bijection(S, T)
  <2>1. f \in [S -> T]
    OBVIOUS
  <2>2. \A x, y \in S : f[x] = f[y] => x = y
    OBVIOUS
  <2>3. \A t \in T : \E x \in S : f[x] = t
    OBVIOUS
  <2> QED
    BY <2>1, <2>2, <2>3 DEF Bijection, Injection, Surjection, IsInjective
<1>2. ExistsBijection(S, T)
  BY <1>1 DEF ExistsBijection
<1> QED
  BY <1>2, FS_Bijection

Positions(S) == IsFiniteSet(S) /\ S \subseteq Int
Below(S, x) == {y \in S : y < x}
Rank(S, x) == Cardinality(Below(S, x))

(* The rank of a position is what CountOne of the lanes before it computes: it   *)
(* grows with the position, strictly past a member.                            *)
LEMMA SizeType ==
  ASSUME NEW S, Positions(S)
  PROVE  Cardinality(S) \in Nat
BY FS_CardinalityType DEF Positions

LEMMA SubsetPositions ==
  ASSUME NEW S, Positions(S), NEW T, T \subseteq S
  PROVE  Positions(T) /\ Cardinality(T) <= Cardinality(S)
<1>1. T \in SUBSET S /\ IsFiniteSet(S)
  BY DEF Positions
<1>2. IsFiniteSet(T) /\ Cardinality(T) <= Cardinality(S)
  BY <1>1, FS_Subset
<1> QED
  BY <1>2 DEF Positions

LEMMA BelowPositions ==
  ASSUME NEW S, Positions(S), NEW x
  PROVE  Positions(Below(S, x))
BY SubsetPositions DEF Below

LEMMA RankType ==
  ASSUME NEW S, Positions(S), NEW x
  PROVE  Rank(S, x) \in Nat /\ Rank(S, x) <= Cardinality(S)
<1>1. Below(S, x) \subseteq S
  BY DEF Below
<1> QED
  BY <1>1, SubsetPositions, SizeType DEF Rank

LEMMA RankBelow ==
  ASSUME NEW S, Positions(S), NEW x \in S, NEW T, T \subseteq S,
         \A y \in S : y <= x => y \in T
  PROVE  Rank(S, x) < Cardinality(T)
<1> DEFINE B == Below(S, x)
<1>1. x \in Int
  BY DEF Positions
<1>2. x \notin B /\ x \in T /\ B \cup {x} \subseteq T
  <2>1. ~(x < x) /\ x <= x
    BY <1>1
  <2>2. \A y \in S : y < x => y <= x
    BY <1>1 DEF Positions
  <2> QED
    BY <2>1, <2>2 DEF Below
<1>3. Positions(B) /\ Positions(T)
  BY BelowPositions, SubsetPositions
<1>4. IsFiniteSet(B) /\ Cardinality(B) \in Nat /\ Cardinality(T) \in Nat
  BY <1>3, SizeType DEF Positions
<1> HIDE DEF B
<1>5. Cardinality(B \cup {x}) = Cardinality(B) + 1
  BY <1>2, <1>4, FS_AddElement
<1>6. Cardinality(B \cup {x}) <= Cardinality(T)
  BY <1>2, <1>3, SubsetPositions
<1> QED
  BY <1>4, <1>5, <1>6 DEF Rank, B

LEMMA RankStrict ==
  ASSUME NEW S, Positions(S), NEW x \in S, NEW y \in Int, x < y
  PROVE  Rank(S, x) < Rank(S, y)
<1>1. Below(S, y) \subseteq S /\ \A z \in S : z <= x => z \in Below(S, y)
  BY DEF Below, Positions
<1> QED
  BY <1>1, RankBelow DEF Rank

LEMMA RankMonotone ==
  ASSUME NEW S, Positions(S), NEW x \in Int, NEW y \in Int, x <= y
  PROVE  Rank(S, x) <= Rank(S, y)
<1>1. \A z \in S : z < x => z < y
  BY DEF Positions
<1>2. Below(S, x) \subseteq Below(S, y)
  BY <1>1 DEF Below
<1> QED
  BY <1>2, BelowPositions, SubsetPositions DEF Rank

LEMMA RankLess ==
  ASSUME NEW S, Positions(S), NEW x \in S
  PROVE  Rank(S, x) < Cardinality(S)
BY RankBelow

(* Every rank below the size of the set is some member's.                      *)
LEMMA RankOnto ==
  ASSUME NEW S, Positions(S), NEW r \in 0 .. Cardinality(S) - 1
  PROVE  \E x \in S : Rank(S, x) = r
<1> DEFINE R == {Rank(S, x) : x \in S}
           f == [x \in S |-> Rank(S, x)]
           N == 0 .. Cardinality(S) - 1
<1>1. \A x, y \in S : Rank(S, x) = Rank(S, y) => x = y
  <2> SUFFICES ASSUME NEW x \in S, NEW y \in S, Rank(S, x) = Rank(S, y) PROVE x = y
    OBVIOUS
  <2>1. x \in Int /\ y \in Int /\ Rank(S, x) \in Nat /\ Rank(S, y) \in Nat
    BY RankType DEF Positions
  <2>2. \A a \in S, b \in Int : a < b => Rank(S, a) < Rank(S, b)
    BY RankStrict
  <2>3. ~(x < y) /\ ~(y < x)
    BY <2>1, <2>2
  <2> QED
    BY <2>1, <2>3
<1>2. f \in Bijection(S, R)
  <2>1. f \in [S -> R]
    OBVIOUS
  <2>2. \A x, y \in S : f[x] = f[y] => x = y
    BY <1>1
  <2>3. \A t \in R : \E x \in S : f[x] = t
    OBVIOUS
  <2> QED
    BY <2>1, <2>2, <2>3 DEF Bijection, Injection, Surjection, IsInjective
<1>3. IsFiniteSet(R) /\ Cardinality(R) = Cardinality(S)
  BY <1>2, FS_Bijection DEF ExistsBijection, Positions
<1>4. Cardinality(S) \in Nat /\ IsFiniteSet(N) /\ Cardinality(N) = Cardinality(S)
  BY FS_CardinalityType, FS_Interval DEF Positions
<1>5. R \subseteq N
  BY <1>4, RankType, RankLess
<1>6. R = N
  <2> HIDE DEF R, N
  <2> QED
    BY <1>3, <1>4, <1>5, FS_Subset
<1> QED
  BY <1>6

LEMMA DisjointSum ==
  ASSUME NEW S, NEW T, IsFiniteSet(S), IsFiniteSet(T), S \cap T = {}
  PROVE  /\ IsFiniteSet(S \cup T)
         /\ Cardinality(S) \in Nat /\ Cardinality(T) \in Nat
         /\ Cardinality(S \cup T) = Cardinality(S) + Cardinality(T)
BY FS_Union, FS_EmptySet, FS_CardinalityType

Within(S, a, b) == a \in Int /\ b \in Int /\ S \subseteq a .. b

LEMMA IntervalPositions ==
  ASSUME NEW S, NEW a, NEW b, Within(S, a, b)
  PROVE  Positions(S)
<1>1. a \in Int /\ b \in Int /\ S \in SUBSET (a .. b)
  BY DEF Within
<1>2. IsFiniteSet(a .. b)
  BY <1>1, FS_Interval
<1>3. IsFiniteSet(S)
  BY <1>1, <1>2, FS_Subset
<1> QED
  BY <1>1, <1>3 DEF Positions

(* When the first c positions leave and a group enters behind the last one,      *)
(* ranks drop by what left and go on counting in the group.                     *)
Moved(S, G, c, left, n) ==
    {k \in 0 .. left + n - 1 :
        \/ k < left /\ c + k \in S
        \/ k >= left /\ k - left + 1 \in G}

LEMMA RankMoves ==
  ASSUME NEW c \in Nat, NEW left \in Nat, NEW n \in Nat,
         NEW S, Within(S, 0, c + left - 1), NEW G, Within(G, 1, n),
         NEW T, T = Moved(S, G, c, left, n)
  PROVE  /\ \A k \in 0 .. left : Rank(S, c + k) = Rank(S, c) + Rank(T, k)
         /\ \A i \in 1 .. n + 1 :
               Rank(S, c) + Rank(T, left + i - 1) = Cardinality(S) + Rank(G, i)
         /\ Rank(S, c) + Cardinality(T) = Cardinality(S) + Cardinality(G)
<1> USE DEF Within, Moved
<1>1. Positions(S) /\ Positions(G) /\ Positions(T)
  <2>1. Within(S, 0, c + left - 1) /\ Within(G, 1, n) /\ Within(T, 0, left + n - 1)
    OBVIOUS
  <2> HIDE DEF Within, Moved
  <2> QED
    BY <2>1, IntervalPositions
<1>2. ASSUME NEW k \in 0 .. left
      PROVE  Rank(S, c + k) = Rank(S, c) + Rank(T, k)
  <2> DEFINE A == Below(S, c)
             B == Below(T, k)
             D == {c + x : x \in B}
  <2>1. k \in Int /\ c \in Int /\ IsFiniteSet(A) /\ IsFiniteSet(B) /\ B \in SUBSET Int
    <3>1. Positions(A) /\ Positions(B)
      BY <1>1, BelowPositions
    <3> QED
      BY <3>1 DEF Positions
  <2>2. IsFiniteSet(D) /\ Cardinality(D) = Cardinality(B)
    <3> HIDE DEF B
    <3> QED
      BY <2>1, CountShift
  <2>3. A \cap D = {}
    BY <1>1 DEF Below, Positions
  <2>4. Below(S, c + k) = A \cup D
    <3>1. ASSUME NEW y \in Below(S, c + k), ~(y < c)
          PROVE  y \in D
      <4>1. y \in S /\ y \in Int /\ y < c + k
        BY <1>1, <3>1 DEF Below, Positions
      <4>2. PICK x \in Int : x = y - c
        BY <4>1
      <4>3. x \in 0 .. left + n - 1 /\ x < left /\ x < k /\ c + x = y
        BY <3>1, <4>1, <4>2
      <4> QED
        BY <4>1, <4>3 DEF Below
    <3>2. ASSUME NEW x \in B
          PROVE  c + x \in Below(S, c + k)
      <4>1. x \in T /\ x < k /\ x \in 0 .. left + n - 1
        BY <3>2 DEF Below
      <4> QED
        BY <4>1 DEF Below
    <3>3. \A y \in A : y \in Below(S, c + k)
      BY <1>1 DEF Below, Positions
    <3>4. \A y \in D : y \in Below(S, c + k)
      BY <3>2
    <3>5. \A y \in Below(S, c + k) : y \in A \/ y \in D
      <4>1. ASSUME NEW y \in Below(S, c + k), y < c PROVE y \in A
        BY <4>1 DEF Below
      <4> QED
        BY <3>1, <4>1
    <3> HIDE DEF A, B, D
    <3> QED
      BY <3>3, <3>4, <3>5
  <2>5. Rank(S, c + k) = Cardinality(A \cup D)
    BY <2>4 DEF Rank
  <2>6. Rank(S, c) = Cardinality(A) /\ Rank(T, k) = Cardinality(B)
    BY DEF Rank
  <2> HIDE DEF A, B, D
  <2>7. Cardinality(A \cup D) = Cardinality(A) + Cardinality(D)
    BY <2>1, <2>2, <2>3, DisjointSum
  <2> QED
    BY <2>2, <2>5, <2>6, <2>7
<1>3. Rank(S, c) + Rank(T, left) = Cardinality(S)
  <2>1. Below(S, c + left) = S
    <3>1. \A x \in S : x \in 0 .. c + left - 1
      OBVIOUS
    <3>2. \A x \in S : x < c + left
      BY <3>1
    <3> QED
      BY <3>2 DEF Below
  <2> QED
    BY <1>2, <2>1 DEF Rank
<1>4. ASSUME NEW i \in 1 .. n + 1
      PROVE  Rank(T, left + i - 1) = Rank(T, left) + Rank(G, i)
  <2> DEFINE A == Below(T, left)
             B == Below(G, i)
             D == {(left - 1) + x : x \in B}
  <2>1. i \in Int /\ left - 1 \in Int /\ left \in Int
          /\ IsFiniteSet(A) /\ IsFiniteSet(B) /\ B \in SUBSET Int
    <3>1. i \in Int /\ left - 1 \in Int /\ left \in Int
      OBVIOUS
    <3>2. Positions(Below(T, left)) /\ Positions(Below(G, i))
      BY <1>1, BelowPositions
    <3> QED
      BY <3>1, <3>2 DEF Positions
  <2>2. IsFiniteSet(D) /\ Cardinality(D) = Cardinality(B)
    <3> HIDE DEF B
    <3> QED
      BY <2>1, CountShift
  <2>3. A \cap D = {}
    BY DEF Below
  <2>4. Below(T, left + i - 1) = A \cup D
    <3>1. ASSUME NEW y \in Below(T, left + i - 1), ~(y < left)
          PROVE  y \in D
      <4>1. y \in 0 .. left + n - 1 /\ y - left + 1 \in G /\ y < left + i - 1
        BY <3>1 DEF Below
      <4>2. PICK x \in Int : x = y - left + 1
        BY <4>1
      <4>3. x < i /\ (left - 1) + x = y /\ x \in G
        BY <4>1, <4>2
      <4> QED
        BY <4>3 DEF Below
    <3>2. ASSUME NEW x \in B
          PROVE  (left - 1) + x \in Below(T, left + i - 1)
      <4>1. x \in G /\ x < i /\ x \in 1 .. n
        BY <3>2 DEF Below
      <4>2. (left - 1) + x \in 0 .. left + n - 1 /\ (left - 1) + x >= left
              /\ (left - 1) + x - left + 1 = x /\ (left - 1) + x < left + i - 1
        BY <4>1
      <4> QED
        BY <4>1, <4>2 DEF Below
    <3>3. \A y \in A : y \in Below(T, left + i - 1)
      BY DEF Below
    <3> QED
      BY <3>1, <3>2, <3>3 DEF Below
  <2> HIDE DEF A, B, D
  <2> QED
    BY <2>1, <2>2, <2>3, <2>4, DisjointSum DEF Rank, A, B
<1>5. Rank(T, left + (n + 1) - 1) = Cardinality(T) /\ Rank(G, n + 1) = Cardinality(G)
  <2>1. Below(T, left + (n + 1) - 1) = T /\ Below(G, n + 1) = G
    <3>1. \A x \in T : x < left + (n + 1) - 1
      OBVIOUS
    <3>2. \A x \in G : x \in 1 .. n
      OBVIOUS
    <3>3. \A x \in G : x < n + 1
      BY <3>2
    <3> QED
      BY <3>1, <3>3 DEF Below
  <2> QED
    BY <2>1 DEF Rank
<1>6. /\ Rank(S, c) \in Nat /\ Rank(T, left) \in Nat
      /\ \A i \in 1 .. n + 1 : Rank(G, i) \in Nat
      /\ Cardinality(S) \in Nat
  BY <1>1, RankType, SizeType
<1>7. ASSUME NEW i \in 1 .. n + 1
      PROVE  Rank(S, c) + Rank(T, left + i - 1) = Cardinality(S) + Rank(G, i)
  BY <1>3, <1>4, <1>6
<1>8. n + 1 \in 1 .. n + 1
  OBVIOUS
<1> QED
  BY <1>2, <1>5, <1>7, <1>8

LEMMA IntervalSize ==
  ASSUME NEW a \in Int, NEW b \in Int, a <= b
  PROVE  IsFiniteSet(a .. b - 1) /\ Cardinality(a .. b - 1) = b - a
<1>1. PICK c \in Int : c = b - 1
  OBVIOUS
<1>2. IsFiniteSet(a .. c) /\ Cardinality(a .. c) = IF a <= c THEN c - a + 1 ELSE 0
  BY FS_Interval
<1> QED
  BY <1>1, <1>2

(* Distinct values are as many as the positions they stand at.                 *)
LEMMA ImageSize ==
  ASSUME NEW S, IsFiniteSet(S), NEW f, S \subseteq DOMAIN f,
         \A x, y \in S : f[x] = f[y] => x = y
  PROVE  /\ IsFiniteSet({f[x] : x \in S})
         /\ Cardinality({f[x] : x \in S}) = Cardinality(S)
<1> DEFINE T == {f[x] : x \in S}
           g == [x \in S |-> f[x]]
<1>1. g \in Bijection(S, T)
  <2>1. g \in [S -> T]
    OBVIOUS
  <2>2. \A x, y \in S : g[x] = g[y] => x = y
    OBVIOUS
  <2>3. \A t \in T : \E x \in S : g[x] = t
    OBVIOUS
  <2> QED
    BY <2>1, <2>2, <2>3 DEF Bijection, Injection, Surjection, IsInjective
<1> QED
  BY <1>1, FS_Bijection DEF ExistsBijection
=============================================================================
