-------------------------- MODULE PlacementProofs --------------------------
(***************************************************************************)
(* Proofs about the placement of a tile, for every program, memory and     *)
(* number of iterations the assumptions of Placement admit.                *)
(*                                                                         *)
(*   EveryAccessIsLegal: operands accessed together share no memory        *)
(*     element, and each is aligned and inside placeable memory.           *)
(*   AllocationsShareNoWord, ValuesShareNoWord: what lives at the same     *)
(*     time is apart, whichever of the three ways placed it.               *)
(*   NeededValuesStay: no step of the placed program overwrites a value    *)
(*     that is needed at its event.                                        *)
(*   SpareMemoryHolds: descriptors and auxiliary storage stay as loaded.   *)
(*                                                                         *)
(* The way there: arithmetic of alignments, sorting and folds; alias       *)
(* groups; requests and their slots; the arena, release and record; the    *)
(* domains of the search; and, on top of them, the invariants of a run.    *)
(***************************************************************************)
EXTENDS Placement, TLAPS, FiniteSetTheorems, WellFoundedInduction

-----------------------------------------------------------------------------
(* Numbers.                                                                *)

Smaller == {ss \in Nat \X Nat : ss[1] < ss[2]}

\* No infinite descent among the natural numbers.
LEMMA SmallerIsWellFounded == IsWellFoundedOn(Smaller, Nat)
<1>1. OpToRel(<, Nat) = Smaller
  BY Zenon DEF OpToRel, Smaller
<1> QED BY <1>1, NatLessThanWellFounded, Zenon

\* Every set of natural numbers has a least one.
LEMMA LeastOf ==
  ASSUME NEW T, T \subseteq Nat, T # {}
  PROVE  \E x \in T : \A y \in T : x <= y
<1>1. PICK x \in T : \A y \in T : ~ (<<y, x>> \in Smaller)
  BY SmallerIsWellFounded, WFMin
<1>2. \A y \in T : <<y, x>> \in Nat \X Nat
  OBVIOUS
<1>3. \A y \in T : ~ (y < x)
  BY <1>1, <1>2 DEF Smaller
<1> QED BY <1>3

\* A finite set of integers has a least member and a greatest one.
LEMMA Bounded ==
  ASSUME NEW S, IsFiniteSet(S), S \subseteq Int, S # {}
  PROVE  \E x, z \in S : \A y \in S : x <= y /\ y <= z
<1> DEFINE Good(T) == \E x, z \in T : \A y \in T : x <= y /\ y <= z
           Bad == {n \in Nat : \E T \in SUBSET S : Cardinality(T) = n /\ T # {} /\ ~Good(T)}
<1>1. SUFFICES ASSUME Bad # {} PROVE FALSE
  <2>1. Cardinality(S) \in Nat
    BY FS_CardinalityType
  <2> QED BY <2>1
<1>2. PICK n \in Bad : \A m \in Bad : n <= m
  <2>1. Bad \subseteq Nat
    OBVIOUS
  <2> QED BY <2>1, <1>1, LeastOf
<1>3. PICK T \in SUBSET S : Cardinality(T) = n /\ T # {} /\ ~Good(T)
  BY <1>2
<1>4. PICK k \in T : TRUE
  BY <1>3
<1>5. T \ {k} # {}
  BY <1>3, <1>4
<1>6. Cardinality(T \ {k}) = n - 1 /\ n - 1 \in Nat
  <2>1. IsFiniteSet(T) /\ IsFiniteSet(T \ {k})
    BY FS_Subset
  <2>2. Cardinality(T \ {k}) = Cardinality(T) - 1
    BY <2>1, <1>4, FS_RemoveElement
  <2>3. Cardinality(T \ {k}) \in Nat
    BY <2>1, FS_CardinalityType
  <2> QED BY <2>2, <2>3, <1>3
<1>7. Good(T \ {k})
  <2>1. n - 1 \notin Bad
    BY <1>2, <1>6
  <2> QED BY <2>1, <1>5, <1>6
<1>8. PICK x, z \in T \ {k} : \A y \in T \ {k} : x <= y /\ y <= z
  BY <1>7
<1>9. Good(T)
  <2>1. x \in Int /\ z \in Int /\ k \in Int
    BY <1>4
  <2>2. \A y \in T : y = k \/ (x <= y /\ y <= z)
    BY <1>8
  <2>0. x \in T /\ z \in T /\ x <= z /\ \A y \in T : y \in Int
    BY <1>8
  <2>3. CASE k < x
    <3>1. \A y \in T : k <= y /\ y <= z
      BY <2>0, <2>1, <2>2, <2>3
    <3> QED BY <1>4, <2>0, <3>1
  <2>4. CASE z < k
    <3>1. \A y \in T : x <= y /\ y <= k
      BY <2>0, <2>1, <2>2, <2>4
    <3> QED BY <1>4, <2>0, <3>1
  <2>5. CASE x <= k /\ k <= z
    BY <1>4, <1>8, <2>1, <2>2, <2>5
  <2> QED BY <2>1, <2>3, <2>4, <2>5
<1> QED BY <1>3, <1>9

\* A finite set of numbers has a least and a largest.
LEMMA Extremes ==
  ASSUME NEW S, IsFiniteSet(S), S \subseteq Int, S # {}
  PROVE  /\ Min(S) \in S /\ Max(S) \in S
         /\ \A y \in S : Min(S) <= y /\ y <= Max(S)
<1>1. PICK x, z \in S : \A y \in S : x <= y /\ y <= z
  BY Bounded
<1>2. \A y \in S : z >= y
  BY <1>1
<1>3. Min(S) \in S /\ \A y \in S : Min(S) <= y
  BY <1>1, Zenon DEF Min
<1>4. Max(S) \in S /\ \A y \in S : Max(S) >= y
  BY <1>2, Zenon DEF Max
<1>5. \A y \in S : y <= Max(S)
  BY <1>4
<1> QED BY <1>3, <1>4, <1>5

\* The larger and the smaller of two numbers.
LEMMA OfTwo ==
  ASSUME NEW a \in Int, NEW b \in Int
  PROVE  /\ Max({a, b}) = (IF a >= b THEN a ELSE b)
         /\ Min({a, b}) = (IF a <= b THEN a ELSE b)
<1>1. IsFiniteSet({a, b}) /\ {a, b} \subseteq Int /\ {a, b} # {}
  <2>1. IsFiniteSet({a})
    BY FS_Singleton
  <2>2. IsFiniteSet({a} \cup {b})
    BY <2>1, FS_AddElement
  <2>3. {a, b} = {a} \cup {b}
    OBVIOUS
  <2> QED BY <2>2, <2>3
<1>2. /\ Min({a, b}) \in {a, b} /\ Max({a, b}) \in {a, b}
      /\ \A y \in {a, b} : Min({a, b}) <= y /\ y <= Max({a, b})
  BY <1>1, Extremes
<1> DEFINE low == Min({a, b})
           high == Max({a, b})
<1>3. (low = a \/ low = b) /\ (high = a \/ high = b) /\ low <= a /\ low <= b /\ a <= high /\ b <= high
  BY <1>2
<1> HIDE DEF low, high
<1>4. high = (IF a >= b THEN a ELSE b) /\ low = (IF a <= b THEN a ELSE b)
  BY <1>3
<1> QED BY <1>4 DEF low, high

\* Quotient and remainder.
LEMMA DivMod ==
  ASSUME NEW v \in Int, NEW m \in Nat \ {0}
  PROVE  /\ v \div m \in Int /\ v % m \in 0..(m - 1)
         /\ v = m * (v \div m) + (v % m)
  OBVIOUS

\* A multiple divides without rest.
LEMMA MultipleOf ==
  ASSUME NEW k \in Int, NEW m \in Nat \ {0}
  PROVE  (k * m) \in Int /\ (k * m) % m = 0 /\ (k * m) \div m = k
  OBVIOUS

\* align_up() gives the next multiple.
LEMMA RoundedUp ==
  ASSUME NEW v \in Int, NEW m \in Nat \ {0}
  PROVE  /\ AlignUp(v, m) \in Int /\ AlignUp(v, m) % m = 0
         /\ v <= AlignUp(v, m) /\ AlignUp(v, m) < v + m
         /\ v % m = 0 => AlignUp(v, m) = v
<1> DEFINE w == (v + m) - 1
           k == w \div m
<1>1. w \in Int
  OBVIOUS
<1> HIDE DEF w
<1>2. k \in Int /\ w % m \in 0..(m - 1) /\ w = m * k + (w % m)
  BY <1>1, DivMod
<1> HIDE DEF k
<1>3. AlignUp(v, m) = k * m
  BY DEF AlignUp, k, w
<1>4. (k * m) \in Int /\ (k * m) % m = 0 /\ k * m = m * k
  <2>1. (k * m) \in Int /\ (k * m) % m = 0
    BY <1>2, MultipleOf
  <2>2. k * m = m * k
    BY <1>2
  <2> QED BY <2>1, <2>2
<1>5. v <= k * m /\ k * m < v + m
  BY <1>2, <1>4 DEF w
<1>6. ASSUME v % m = 0 PROVE k * m = v
  <2> DEFINE j == v \div m
  <2>1. j \in Int /\ v = m * j
    BY <1>6, DivMod
  <2> HIDE DEF j
  <2>2. m * j <= m * k /\ m * k < m * j + m /\ m * j + m = m * (j + 1)
    BY <1>2, <1>4, <1>5, <2>1
  <2>3. k >= j
    BY <1>2, <2>1, <2>2
  <2>4. k < j + 1
    BY <1>2, <2>1, <2>2
  <2> QED BY <1>2, <1>4, <2>1, <2>3, <2>4
<1> QED BY <1>3, <1>4, <1>5, <1>6

\* align_down() gives the multiple before.
LEMMA RoundedDown ==
  ASSUME NEW v \in Int, NEW m \in Nat \ {0}
  PROVE  /\ AlignDown(v, m) \in Int /\ AlignDown(v, m) % m = 0
         /\ AlignDown(v, m) <= v /\ v < AlignDown(v, m) + m
         /\ v % m = 0 => AlignDown(v, m) = v
<1> DEFINE k == v \div m
<1>1. k \in Int /\ v % m \in 0..(m - 1) /\ v = m * k + (v % m)
  BY DivMod
<1> HIDE DEF k
<1>2. (k * m) \in Int /\ (k * m) % m = 0 /\ k * m = m * k
  <2>1. (k * m) \in Int /\ (k * m) % m = 0
    BY <1>1, MultipleOf
  <2>2. k * m = m * k
    BY <1>1
  <2> QED BY <2>1, <2>2
<1>3. AlignDown(v, m) = k * m
  BY DEF AlignDown, k
<1> QED BY <1>1, <1>2, <1>3

\* Multiples add up to multiples.
LEMMA MultiplesAdd ==
  ASSUME NEW a \in Int, NEW b \in Int, NEW m \in Nat \ {0}, a % m = 0, b % m = 0
  PROVE  (a + b) % m = 0 /\ (a - b) % m = 0
<1> DEFINE x == a \div m
           y == b \div m
<1>1. x \in Int /\ a = m * x /\ y \in Int /\ b = m * y
  BY DivMod
<1> HIDE DEF x, y
<1>3. a + b = (x + y) * m /\ a - b = (x - y) * m /\ x + y \in Int /\ x - y \in Int
  BY <1>1
<1> QED BY <1>3, MultipleOf

\* A multiple of a multiple.
LEMMA MultiplesTransitive ==
  ASSUME NEW a \in Int, NEW m \in Nat \ {0}, NEW n \in Nat \ {0}, a % m = 0, m % n = 0
  PROVE  a % n = 0
<1> DEFINE x == a \div m
           y == m \div n
<1>1. x \in Int /\ a = m * x /\ y \in Int /\ m = n * y
  BY DivMod
<1> HIDE DEF x, y
<1>2. a = (n * y) * x
  BY <1>1
<1>3. (n * y) * x = (y * x) * n /\ y * x \in Int
  BY <1>1
<1> QED BY <1>2, <1>3, MultipleOf

-----------------------------------------------------------------------------
(* Sorting by a key.                                                       *)

Keys == [1..8 -> Int]

\* Before is a strict order of the keys, and total.
LEMMA KeysAreOrdered ==
  ASSUME NEW a \in Keys, NEW b \in Keys
  PROVE  /\ ~Before(a, a)
         /\ Before(a, b) => ~Before(b, a)
         /\ a # b => Before(a, b) \/ Before(b, a)
         /\ \A c \in Keys : Before(a, b) /\ Before(b, c) => Before(a, c)
<1>1. DOMAIN a = 1..8 /\ DOMAIN b = 1..8 /\ \A k \in 1..8 : a[k] \in Int /\ b[k] \in Int
  BY DEF Keys
<1>2. ~Before(a, a)
  BY <1>1 DEF Before
<1>3. ASSUME Before(a, b), Before(b, a) PROVE FALSE
  <2>1. PICK k \in 1..8 : a[k] < b[k] /\ \A i \in 1..(k - 1) : a[i] = b[i]
    BY <1>1, <1>3 DEF Before
  <2>2. PICK l \in 1..8 : b[l] < a[l] /\ \A i \in 1..(l - 1) : b[i] = a[i]
    BY <1>1, <1>3 DEF Before
  <2>3. k < l \/ l < k \/ k = l
    OBVIOUS
  <2>4. CASE k < l
    BY <1>1, <2>1, <2>2, <2>4
  <2>5. CASE l < k
    BY <1>1, <2>1, <2>2, <2>5
  <2>6. CASE k = l
    BY <1>1, <2>1, <2>2, <2>6
  <2> QED BY <2>3, <2>4, <2>5, <2>6
<1>4. ASSUME a # b PROVE Before(a, b) \/ Before(b, a)
  <2> DEFINE D == {k \in 1..8 : a[k] # b[k]}
  <2>1. D \subseteq Nat
    OBVIOUS
  <2>2. D # {}
    BY <1>4 DEF Keys
  <2>3. PICK k \in D : \A i \in D : k <= i
    BY <2>1, <2>2, LeastOf
  <2>4. k \in 1..8 /\ a[k] # b[k] /\ \A i \in 1..(k - 1) : a[i] = b[i]
    BY <2>3
  <2> QED BY <1>1, <2>4 DEF Before
<1>5. ASSUME NEW c \in Keys, Before(a, b), Before(b, c) PROVE Before(a, c)
  <2>0. \A k \in 1..8 : c[k] \in Int
    BY DEF Keys
  <2>1. PICK k \in 1..8 : a[k] < b[k] /\ \A i \in 1..(k - 1) : a[i] = b[i]
    BY <1>1, <1>5 DEF Before
  <2>2. PICK l \in 1..8 : b[l] < c[l] /\ \A i \in 1..(l - 1) : b[i] = c[i]
    BY <1>1, <1>5 DEF Before
  <2>3. k < l \/ l < k \/ k = l
    OBVIOUS
  <2>4. CASE k < l
    <3>1. a[k] < c[k] /\ \A i \in 1..(k - 1) : a[i] = c[i]
      BY <2>1, <2>2, <2>4
    <3> QED BY <1>1, <3>1 DEF Before
  <2>5. CASE l < k
    <3>1. a[l] < c[l] /\ \A i \in 1..(l - 1) : a[i] = c[i]
      BY <2>1, <2>2, <2>5
    <3> QED BY <1>1, <3>1 DEF Before
  <2>6. CASE k = l
    <3>1. a[k] < c[k] /\ \A i \in 1..(k - 1) : a[i] = c[i]
      BY <1>1, <2>0, <2>1, <2>2, <2>6
    <3> QED BY <1>1, <3>1 DEF Before
  <2> QED BY <2>3, <2>4, <2>5, <2>6
<1> QED BY <1>2, <1>3, <1>4, <1>5

\* How many members of S come before x.
Ahead(S, key, x) == {y \in S : Before(key[y], key[x])}

\* Each place of a finite set in order has a member, the i-th with i - 1 before it.
LEMMA EveryPlaceIsTaken ==
  ASSUME NEW S, IsFiniteSet(S), NEW key \in [S -> Keys],
         \A x, y \in S : key[x] = key[y] => x = y
  PROVE  \A i \in 1..Cardinality(S) : \E x \in S : Cardinality(Ahead(S, key, x)) = i - 1
<1> DEFINE Good(T) == \A i \in 1..Cardinality(T) : \E x \in T : Cardinality(Ahead(T, key, x)) = i - 1
           Bad == {n \in Nat : \E T \in SUBSET S : Cardinality(T) = n /\ ~Good(T)}
<1>1. SUFFICES ASSUME Bad # {} PROVE FALSE
  <2>1. Cardinality(S) \in Nat
    BY FS_CardinalityType
  <2> QED BY <2>1
<1>2. PICK n \in Bad : \A m \in Bad : n <= m
  <2>1. Bad \subseteq Nat
    OBVIOUS
  <2> QED BY <2>1, <1>1, LeastOf
<1>3. PICK T \in SUBSET S : Cardinality(T) = n /\ ~Good(T)
  BY <1>2
<1>4. IsFiniteSet(T) /\ n \in Nat
  BY FS_Subset, <1>2
<1>5. n # 0
  BY <1>3
\* The last member has all others before it.
<1>6. PICK z \in T : \A y \in T : ~Before(key[z], key[y])
  <2> DEFINE Poor == {m \in Nat : \E R \in SUBSET T : /\ Cardinality(R) = m /\ R # {}
                        /\ \A z \in R : \E y \in R : Before(key[z], key[y])}
  <2>1. SUFFICES ASSUME Poor # {} PROVE FALSE
    <3>1. T # {} /\ T \in SUBSET T /\ Cardinality(T) \in Nat
      BY <1>3, <1>4, <1>5, FS_EmptySet
    <3> QED BY <3>1
  <2>2. PICK m \in Poor : \A l \in Poor : m <= l
    <3>1. Poor \subseteq Nat
      OBVIOUS
    <3> QED BY <3>1, <2>1, LeastOf
  <2>3. PICK R \in SUBSET T : /\ Cardinality(R) = m /\ R # {}
                              /\ \A x \in R : \E y \in R : Before(key[x], key[y])
    BY <2>2
  <2>4. PICK x \in R : TRUE
    BY <2>3
  <2>5. /\ IsFiniteSet(R \ {x}) /\ Cardinality(R \ {x}) = m - 1 /\ m - 1 \in Nat
    <3>1. IsFiniteSet(R) /\ IsFiniteSet(R \ {x})
      BY <1>4, FS_Subset
    <3>2. Cardinality(R \ {x}) = Cardinality(R) - 1 /\ Cardinality(R \ {x}) \in Nat
      BY <3>1, <2>4, FS_RemoveElement, FS_CardinalityType
    <3> QED BY <3>1, <3>2, <2>3
  <2>6. \A u, v, w \in R : /\ ~Before(key[u], key[u])
                           /\ Before(key[u], key[v]) /\ Before(key[v], key[w])
                                => Before(key[u], key[w])
    <3>1. \A u \in R : key[u] \in Keys
      OBVIOUS
    <3> QED BY <3>1, KeysAreOrdered
  <2>7. PICK y \in R : Before(key[x], key[y])
    BY <2>3, <2>4
  <2>8. y \in R \ {x}
    BY <2>6, <2>7
  <2>9. \A u \in R \ {x} : \E w \in R \ {x} : Before(key[u], key[w])
    <3>1. TAKE u \in R \ {x}
    <3>2. PICK w \in R : Before(key[u], key[w])
      BY <2>3
    <3>3. CASE w = x
      <4>1. Before(key[u], key[y])
        BY <2>4, <2>6, <2>7, <3>2, <3>3
      <4> QED BY <4>1, <2>8
    <3> QED BY <3>2, <3>3
  <2>10. m - 1 \in Poor
    BY <2>5, <2>8, <2>9
  <2> QED BY <2>2, <2>5, <2>10
<1> DEFINE R == T \ {z}
<1>7. IsFiniteSet(R) /\ Cardinality(R) = n - 1 /\ n - 1 \in Nat
  <2>1. IsFiniteSet(R) /\ Cardinality(R) = Cardinality(T) - 1
    BY <1>4, <1>6, FS_RemoveElement
  <2> QED BY <2>1, <1>3, <1>4, FS_CardinalityType
<1>8. Good(R)
  <2>1. n - 1 \notin Bad
    BY <1>2, <1>7
  <2> QED BY <2>1, <1>7
<1>9. \A x \in T : key[x] \in Keys
  OBVIOUS
<1>10. \A x \in R : Ahead(T, key, x) = Ahead(R, key, x)
  BY <1>6 DEF Ahead
<1>11. Ahead(T, key, z) = R
  <2>1. \A y \in R : key[y] # key[z]
    OBVIOUS
  <2>2. \A y \in R : Before(key[y], key[z])
    BY <2>1, <1>6, <1>9, KeysAreOrdered
  <2>3. ~Before(key[z], key[z])
    BY <1>6
  <2> QED BY <2>2, <2>3 DEF Ahead
<1>12. Good(T)
  <2>1. TAKE i \in 1..Cardinality(T)
  <2>2. CASE i = n
    BY <2>2, <1>6, <1>7, <1>11
  <2>3. CASE i # n
    <3>1. i \in 1..Cardinality(R)
      BY <2>3, <1>3, <1>7
    <3>2. PICK x \in R : Cardinality(Ahead(R, key, x)) = i - 1
      BY <3>1, <1>8
    <3> QED BY <3>2, <1>10
  <2> QED BY <2>2, <2>3
<1> QED BY <1>3, <1>12

InOrder(S, key, s) ==
  s = [i \in 1..Cardinality(S) |-> CHOOSE x \in S : Cardinality(Ahead(S, key, x)) = i - 1]

\* A set sorted by a key: every member once, and none behind one with a greater key.
LEMMA SortedByKey ==
  ASSUME NEW S, IsFiniteSet(S), NEW key \in [S -> Keys],
         \A x, y \in S : key[x] = key[y] => x = y,
         NEW s, InOrder(S, key, s)
  PROVE  /\ Cardinality(S) \in Nat
         /\ s \in [1..Cardinality(S) -> S]
         /\ \A i, j \in 1..Cardinality(S) : s[i] = s[j] => i = j
         /\ \A x \in S : \E i \in 1..Cardinality(S) : s[i] = x
         /\ \A i, j \in 1..Cardinality(S) : i < j => ~Before(key[s[j]], key[s[i]])
<1> DEFINE n == Cardinality(S)
<1>1. n \in Nat
  BY FS_CardinalityType
<1>2. \A i \in 1..n : s[i] \in S /\ Cardinality(Ahead(S, key, s[i])) = i - 1
  <2>1. TAKE i \in 1..n
  <2>2. \E x \in S : Cardinality(Ahead(S, key, x)) = i - 1
    BY EveryPlaceIsTaken
  <2>3. s[i] = CHOOSE x \in S : Cardinality(Ahead(S, key, x)) = i - 1
    BY DEF InOrder
  <2> QED BY <2>2, <2>3, Zenon
<1>3. \A i, j \in 1..n : s[i] = s[j] => i = j
  <2>1. TAKE i, j \in 1..n
  <2>2. s[i] = s[j] => i - 1 = j - 1
    BY <1>2, Zenon
  <2> QED BY <2>2
<1>4. \A x, y \in S : Before(key[x], key[y])
        => /\ Cardinality(Ahead(S, key, x)) \in Nat /\ Cardinality(Ahead(S, key, y)) \in Nat
           /\ Cardinality(Ahead(S, key, x)) < Cardinality(Ahead(S, key, y))
  <2>1. SUFFICES ASSUME NEW x \in S, NEW y \in S, Before(key[x], key[y])
                 PROVE  /\ Cardinality(Ahead(S, key, x)) \in Nat /\ Cardinality(Ahead(S, key, y)) \in Nat
                        /\ Cardinality(Ahead(S, key, x)) < Cardinality(Ahead(S, key, y))
    OBVIOUS
  <2>2. \A u \in S : key[u] \in Keys
    OBVIOUS
  <2>3. \A u \in S : Before(key[u], key[x]) => Before(key[u], key[y])
    BY <2>1, <2>2, KeysAreOrdered
  <2>4. Ahead(S, key, x) \subseteq Ahead(S, key, y)
    BY <2>3 DEF Ahead
  <2>5. x \in Ahead(S, key, y) /\ x \notin Ahead(S, key, x)
    BY <2>1, <2>2, KeysAreOrdered DEF Ahead
  <2>6. IsFiniteSet(Ahead(S, key, y))
    BY FS_Subset DEF Ahead
  <2> QED BY <2>4, <2>5, <2>6, FS_Subset, FS_CardinalityType
<1>5. ASSUME NEW x \in S PROVE \E i \in 1..n : s[i] = x
  <2> DEFINE i == Cardinality(Ahead(S, key, x)) + 1
  <2>1. i \in 1..n
    <3>1. IsFiniteSet(Ahead(S, key, x)) /\ Ahead(S, key, x) \subseteq S /\ x \notin Ahead(S, key, x)
      <4>1. key[x] \in Keys
        OBVIOUS
      <4>2. ~Before(key[x], key[x])
        BY <4>1, KeysAreOrdered
      <4> QED BY <4>2, FS_Subset DEF Ahead
    <3>2. Cardinality(Ahead(S, key, x)) \in Nat /\ Cardinality(Ahead(S, key, x)) < n
      BY <3>1, FS_Subset, FS_CardinalityType
    <3> QED BY <3>2, <1>1
  <2>2. s[i] \in S /\ Cardinality(Ahead(S, key, s[i])) = i - 1
    BY <2>1, <1>2
  <2>3. Cardinality(Ahead(S, key, x)) \in Nat
    BY FS_Subset, FS_CardinalityType DEF Ahead
  <2>4. Cardinality(Ahead(S, key, s[i])) = Cardinality(Ahead(S, key, x))
    BY <2>2, <2>3
  <2> HIDE DEF i
  <2>5. ~Before(key[x], key[s[i]]) /\ ~Before(key[s[i]], key[x])
    BY <2>2, <2>4, <1>4
  <2>6. key[x] = key[s[i]]
    BY <2>2, <2>5, KeysAreOrdered
  <2> QED BY <2>1, <2>2, <2>6
<1>6. ASSUME NEW i \in 1..n, NEW j \in 1..n, i < j PROVE ~Before(key[s[j]], key[s[i]])
  <2>1. s[i] \in S /\ s[j] \in S /\ Cardinality(Ahead(S, key, s[i])) = i - 1
        /\ Cardinality(Ahead(S, key, s[j])) = j - 1
    BY <1>2
  <2> QED BY <2>1, <1>4, <1>6
<1>7. s \in [1..n -> S]
  BY <1>2 DEF InOrder
<1> QED BY <1>1, <1>3, <1>5, <1>6, <1>7

-----------------------------------------------------------------------------
(* Sequences of sequences, and folds over a sequence.                      *)

\* What holds of a and is passed on up to n holds from a to n.
LEMMA Upwards ==
  ASSUME NEW a \in Nat, NEW n \in Nat, NEW G, a \in G,
         \A k \in (a + 1)..n : k - 1 \in G => k \in G
  PROVE  \A k \in a..n : k \in G
<1> DEFINE Bad == {k \in a..n : k \notin G}
<1>1. SUFFICES ASSUME Bad # {} PROVE FALSE
  OBVIOUS
<1>2. Bad \subseteq Nat
  OBVIOUS
<1>3. PICK m \in Bad : \A l \in Bad : m <= l
  BY <1>1, <1>2, LeastOf
<1>4. m \in a..n /\ m \notin G
  BY <1>3
<1>5. m \in (a + 1)..n
  BY <1>4
<1>6. m - 1 \in a..n /\ ~(m <= m - 1)
  BY <1>5
<1>7. m - 1 \in G
  BY <1>3, <1>6
<1> QED BY <1>4, <1>5, <1>7

\* The parts of a sequence of sequences can be put together one by one.
LEMMA FlattensExist ==
  ASSUME NEW T, NEW seqs \in Seq(Seq(T))
  PROVE  \E f \in [1..Len(seqs) -> Seq(T)] :
            f = [i \in 1..Len(seqs) |-> IF i = 1 THEN seqs[i] ELSE f[i - 1] \o seqs[i]]
<1> DEFINE Good(m) == \E f \in [1..m -> Seq(T)] :
                         f = [i \in 1..m |-> IF i = 1 THEN seqs[i] ELSE f[i - 1] \o seqs[i]]
           n == Len(seqs)
           G == {m \in 0..n : Good(m)}
<1>1. n \in Nat /\ \A i \in 1..n : seqs[i] \in Seq(T)
  OBVIOUS
<1>2. 0 \in G
  <2> DEFINE f == [i \in 1..0 |-> <<>>]
  <2>1. f \in [1..0 -> Seq(T)] /\ f = [i \in 1..0 |-> IF i = 1 THEN seqs[i] ELSE f[i - 1] \o seqs[i]]
    OBVIOUS
  <2>2. 0 \in 0..n
    BY <1>1
  <2> QED BY <2>1, <2>2
<1> HIDE DEF n
<1>3. SUFFICES ASSUME NEW m \in (0 + 1)..n, m - 1 \in G PROVE m \in G
  <2> HIDE DEF G
  <2>1. \A k \in 0..n : k \in G
    BY <1>1, <1>2, <1>3, Upwards
  <2>2. n \in G
    BY <1>1, <2>1
  <2> QED BY <2>2 DEF G, n
<1>4. m \in 1..n /\ m - 1 \in Nat /\ m \in 0..n
  BY <1>1
<1>6. PICK f \in [1..(m - 1) -> Seq(T)] :
         f = [i \in 1..(m - 1) |-> IF i = 1 THEN seqs[i] ELSE f[i - 1] \o seqs[i]]
  BY <1>3
<1> DEFINE last == IF m = 1 THEN seqs[m] ELSE f[m - 1] \o seqs[m]
           g == [i \in 1..m |-> IF i = m THEN last ELSE f[i]]
<1>7. last \in Seq(T)
  <2>1. m # 1 => m - 1 \in 1..(m - 1)
    BY <1>4
  <2>2. m # 1 => f[m - 1] \in Seq(T)
    BY <2>1, <1>6
  <2> QED BY <2>2, <1>1, <1>4
<1> HIDE DEF last
<1>8. g \in [1..m -> Seq(T)]
  <2>1. \A i \in 1..m : i # m => i \in 1..(m - 1)
    BY <1>4
  <2> QED BY <2>1, <1>6, <1>7
<1>9. ASSUME NEW i \in 1..m PROVE g[i] = IF i = 1 THEN seqs[i] ELSE g[i - 1] \o seqs[i]
  <2>1. CASE i = m
    <3>1. m # 1 => m - 1 \in 1..m /\ m - 1 # m
      BY <1>4
    <3>2. m # 1 => g[m - 1] = f[m - 1]
      BY <3>1
    <3> QED BY <2>1, <3>2 DEF last
  <2>2. CASE i # m
    <3>1. i \in 1..(m - 1) /\ (i # 1 => i - 1 \in 1..m /\ i - 1 # m)
      BY <2>2, <1>4
    <3>2. f[i] = IF i = 1 THEN seqs[i] ELSE f[i - 1] \o seqs[i]
      BY <1>6, <3>1
    <3>3. i # 1 => g[i - 1] = f[i - 1]
      BY <3>1
    <3> QED BY <2>2, <3>2, <3>3
  <2> QED BY <2>1, <2>2
<1>10. g = [i \in 1..m |-> IF i = 1 THEN seqs[i] ELSE g[i - 1] \o seqs[i]]
  <2> HIDE DEF g
  <2>1. DOMAIN g = 1..m /\ g = [i \in 1..m |-> g[i]]
    BY <1>8
  <2> QED BY <2>1, <1>9
<1>11. Good(m)
  <2> HIDE DEF g
  <2> QED BY <1>8, <1>10
<1> QED BY <1>4, <1>11

\* What a flattened sequence holds: every member of every part.
LEMMA FlattenTyped ==
  ASSUME NEW T, NEW seqs \in Seq(Seq(T))
  PROVE  /\ FlattenSeq(seqs) \in Seq(T)
         /\ \A i \in DOMAIN seqs : \A j \in DOMAIN seqs[i] :
              \E k \in DOMAIN FlattenSeq(seqs) : FlattenSeq(seqs)[k] = seqs[i][j]
<1>1. CASE Len(seqs) = 0
  BY <1>1 DEF FlattenSeq
<1>2. CASE Len(seqs) # 0
  <2> DEFINE n == Len(seqs)
             Step(f) == [i \in 1..n |-> IF i = 1 THEN seqs[i] ELSE f[i - 1] \o seqs[i]]
             flat == CHOOSE f : f = Step(f)
  <2>1. PICK h \in [1..n -> Seq(T)] : h = Step(h)
    BY FlattensExist
  <2>2. flat = Step(flat)
    <3> HIDE DEF Step
    <3> QED BY <2>1
  <2>3. FlattenSeq(seqs) = flat[n]
    BY <1>2, Zenon DEF FlattenSeq
  <2> HIDE DEF flat
  <2>4. n \in Nat \ {0} /\ \A i \in 1..n : seqs[i] \in Seq(T)
    BY <1>2
  <2>5. \A i \in 1..n : flat[i] = IF i = 1 THEN seqs[i] ELSE flat[i - 1] \o seqs[i]
    BY <2>2
  <2> DEFINE Good(m) == /\ flat[m] \in Seq(T)
                        /\ \A i \in 1..m : \A j \in DOMAIN seqs[i] :
                             \E k \in DOMAIN flat[m] : flat[m][k] = seqs[i][j]
             G == {m \in 1..n : Good(m)}
  <2>6. Good(1)
    BY <2>4, <2>5
  <2>7. ASSUME NEW m \in 2..n, Good(m - 1) PROVE Good(m)
    <3>0. m \in 1..n /\ m # 1
      BY <2>4
    <3>1. flat[m] = flat[m - 1] \o seqs[m]
      BY <3>0, <2>5
    <3>2. flat[m - 1] \in Seq(T) /\ seqs[m] \in Seq(T)
      BY <3>0, <2>4, <2>7
    <3> DEFINE u == flat[m - 1]
               v == seqs[m]
    <3> HIDE DEF u, v
    <3>3. u \in Seq(T) /\ v \in Seq(T)
      BY <3>2 DEF u, v
    <3>4. /\ u \o v \in Seq(T) /\ DOMAIN (u \o v) = 1..(Len(u) + Len(v))
          /\ \A k \in DOMAIN u : k \in DOMAIN (u \o v) /\ (u \o v)[k] = u[k]
          /\ \A k \in DOMAIN v : Len(u) + k \in DOMAIN (u \o v) /\ (u \o v)[Len(u) + k] = v[k]
      BY <3>3
    <3>5. ASSUME NEW i \in 1..m, NEW j \in DOMAIN seqs[i]
          PROVE  \E k \in DOMAIN flat[m] : flat[m][k] = seqs[i][j]
      <4>1. CASE i = m
        BY <4>1, <3>1, <3>4 DEF u, v
      <4>2. CASE i # m
        <5>1. i \in 1..(m - 1)
          BY <3>0, <2>4, <4>2
        <5>2. PICK k \in DOMAIN flat[m - 1] : flat[m - 1][k] = seqs[i][j]
          BY <5>1, <2>7
        <5> QED BY <5>2, <3>1, <3>4 DEF u, v
      <4> QED BY <4>1, <4>2
    <3> QED BY <3>1, <3>4, <3>5 DEF u, v
  <2>8. \A k \in 1..n : k \in G
    <3>1. 1 \in G
      BY <2>4, <2>6
    <3>2. ASSUME NEW m \in (1 + 1)..n, m - 1 \in G PROVE m \in G
      <4>1. m \in 2..n /\ m \in 1..n
        BY <2>4
      <4> QED BY <4>1, <3>2, <2>7
    <3> HIDE DEF G
    <3> QED BY <3>1, <3>2, <2>4, Upwards
  <2>9. n \in G
    BY <2>4, <2>8
  <2>10. Good(n)
    BY <2>9
  <2>11. DOMAIN seqs = 1..n
    OBVIOUS
  <2> HIDE DEF n
  <2> QED BY <2>3, <2>10, <2>11
<1> QED BY <1>1, <1>2

\* A bounded set of numbers has a largest.
LEMMA MaxAmong ==
  ASSUME NEW n \in Nat, NEW s, s \subseteq 1..n, s # {}
  PROVE  Max(s) \in s /\ \A y \in s : y <= Max(s)
<1>1. IsFiniteSet(1..n)
  BY FS_Interval
<1>2. s \in SUBSET (1..n)
  OBVIOUS
<1>3. IsFiniteSet(s)
  BY <1>1, <1>2, FS_Subset
<1>4. s \subseteq Int
  OBVIOUS
<1> QED BY <1>3, <1>4, Extremes

Folding(n, base, step, g) ==
  [s \in SUBSET (1..n) |-> IF s = {} THEN base ELSE step[g[s \ {Max(s)}]][Max(s)]]

HasFolding(V, n, base, step) == \E g \in [SUBSET (1..n) -> V] : g = Folding(n, base, step, g)

\* A fold over the numbers 1 to n has values for all their sets.
LEMMA FoldsExist ==
  ASSUME NEW V, NEW base \in V, NEW n \in Nat, NEW step \in [V -> [1..n -> V]]
  PROVE  HasFolding(V, n, base, step)
<1> DEFINE Good(m) == \E g \in [SUBSET (1..m) -> V] : g = Folding(m, base, step, g)
           G == {m \in 0..n : Good(m)}
<1>1. Good(0)
  <2> DEFINE g == [s \in SUBSET (1..0) |-> base]
  <2>1. g \in [SUBSET (1..0) -> V]
    OBVIOUS
  <2>2. \A s \in SUBSET (1..0) : s = {}
    OBVIOUS
  <2>3. g = Folding(0, base, step, g)
    BY <2>2 DEF Folding
  <2> QED BY <2>1, <2>3
<1>2. 0 \in G
  <2>1. 0 \in 0..n
    OBVIOUS
  <2> HIDE DEF Good
  <2> QED BY <1>1, <2>1
<1>3. SUFFICES ASSUME NEW m \in (0 + 1)..n, m - 1 \in G PROVE m \in G
  <2> HIDE DEF G
  <2>1. \A k \in 0..n : k \in G
    BY <1>2, <1>3, Upwards
  <2>2. n \in G
    BY <2>1
  <2> QED BY <2>2 DEF G, HasFolding
<1>4. m \in 1..n /\ m - 1 \in Nat /\ m \in 0..n /\ m \in Nat
  OBVIOUS
<1>5. Good(m - 1)
  BY <1>3
<1>6. PICK f \in [SUBSET (1..(m - 1)) -> V] : f = Folding(m - 1, base, step, f)
  BY <1>5
<1> DEFINE g == [s \in SUBSET (1..m) |-> IF m \in s THEN step[f[s \ {m}]][m] ELSE f[s]]
<1>7. \A s \in SUBSET (1..m) : s \ {m} \in SUBSET (1..(m - 1)) /\ (m \notin s => s \in SUBSET (1..(m - 1)))
  <2>1. \A i \in 1..m : i # m => i \in 1..(m - 1)
    BY <1>4
  <2> HIDE DEF g
  <2> QED BY <2>1
<1>8. g \in [SUBSET (1..m) -> V]
  <2>1. ASSUME NEW s \in SUBSET (1..m) PROVE (IF m \in s THEN step[f[s \ {m}]][m] ELSE f[s]) \in V
    <3>1. f[s \ {m}] \in V /\ m \in 1..n
      BY <1>4, <1>6, <1>7
    <3>2. step[f[s \ {m}]] \in [1..n -> V]
      BY <3>1
    <3>3. step[f[s \ {m}]][m] \in V
      BY <3>1, <3>2
    <3>4. m \notin s => f[s] \in V
      BY <1>6, <1>7
    <3> QED BY <3>3, <3>4
  <2> QED BY <2>1
<1>9. ASSUME NEW s \in SUBSET (1..m)
      PROVE  g[s] = IF s = {} THEN base ELSE step[g[s \ {Max(s)}]][Max(s)]
  <2>1. CASE m \in s
    <3>1. Max(s) = m
      <4>1. Max(s) \in s /\ m <= Max(s)
        BY <1>4, <2>1, MaxAmong
      <4>2. Max(s) \in 1..m
        BY <4>1
      <4> QED BY <4>1, <4>2, <1>4
    <3>2. s \ {m} \in SUBSET (1..m) /\ m \notin s \ {m}
      OBVIOUS
    <3>3. g[s \ {m}] = f[s \ {m}]
      BY <3>2
    <3> QED BY <2>1, <3>1, <3>3
  <2>2. CASE m \notin s
    <3>1. s \in SUBSET (1..(m - 1))
      BY <2>2, <1>7
    <3>2. f[s] = IF s = {} THEN base ELSE step[f[s \ {Max(s)}]][Max(s)]
      BY <1>6, <3>1 DEF Folding
    <3>3. s \ {Max(s)} \in SUBSET (1..m) /\ m \notin s \ {Max(s)}
      BY <2>2
    <3>4. g[s] = f[s] /\ g[s \ {Max(s)}] = f[s \ {Max(s)}]
      BY <2>2, <3>3
    <3> QED BY <3>2, <3>4
  <2> QED BY <2>1, <2>2
<1>10. g = Folding(m, base, step, g)
  <2> HIDE DEF g
  <2>1. g = [s \in SUBSET (1..m) |-> g[s]]
    BY <1>8
  <2> QED BY <2>1, <1>9 DEF Folding
<1>11. Good(m)
  <2> HIDE DEF g
  <2> QED BY <1>8, <1>10
<1> HIDE DEF Good
<1> QED BY <1>4, <1>11

-----------------------------------------------------------------------------
(* The alias groups.                                                       *)

SetsOf(p) == [ok : BOOLEAN, root : [Shards(p) -> Shards(p)], offset : [Shards(p) -> Int]]
TiesOf(p) == [left : Shards(p), right : Shards(p), displacement : Int]
Tied(sets, tie) == sets.root[tie.left] = sets.root[tie.right]

\* A union joins two groups, and parts none.
LEMMA UnionKeeps ==
  ASSUME NEW p, NEW sets \in SetsOf(p), NEW tie \in TiesOf(p)
  PROVE  LET next == UnionOffset(sets, tie.left, tie.right, tie.displacement)
         IN  /\ next \in SetsOf(p) /\ Tied(next, tie)
             /\ \A other \in TiesOf(p) : Tied(sets, other) => Tied(next, other)
<1> DEFINE a == sets.root[tie.left]
           b == sets.root[tie.right]
           delta == (sets.offset[tie.right] + tie.displacement) - sets.offset[tie.left]
           next == UnionOffset(sets, tie.left, tie.right, tie.displacement)
<1>1. /\ sets.root \in [Shards(p) -> Shards(p)] /\ sets.offset \in [Shards(p) -> Int]
      /\ sets.ok \in BOOLEAN /\ tie.left \in Shards(p) /\ tie.right \in Shards(p)
      /\ tie.displacement \in Int /\ sets = [ok |-> sets.ok, root |-> sets.root, offset |-> sets.offset]
  BY DEF SetsOf, TiesOf
<1>2. a \in Shards(p) /\ b \in Shards(p) /\ delta \in Int
  BY <1>1
<1>3. CASE a = b
  <2>1. next.root = sets.root /\ next.offset = sets.offset /\ next.ok \in BOOLEAN /\ next \in SetsOf(p)
    BY <1>1, <1>3 DEF UnionOffset, SetsOf
  <2> QED BY <2>1, <1>3 DEF Tied
<1>4. CASE a # b
  <2>1. /\ next.ok = sets.ok
        /\ next.root = [s \in Shards(p) |-> IF sets.root[s] = b THEN a ELSE sets.root[s]]
        /\ next.offset = [s \in Shards(p) |-> IF sets.root[s] = b THEN sets.offset[s] - delta ELSE sets.offset[s]]
        /\ next = [ok |-> next.ok, root |-> next.root, offset |-> next.offset]
    BY <1>1, <1>4 DEF UnionOffset
  <2> HIDE DEF next
  <2>2. next.root \in [Shards(p) -> Shards(p)]
    BY <1>1, <1>2, <2>1
  <2>3. next.offset \in [Shards(p) -> Int]
    <3> HIDE DEF delta
    <3> QED BY <1>1, <1>2, <2>1
  <2>4. next \in SetsOf(p)
    BY <1>1, <2>1, <2>2, <2>3 DEF SetsOf
  <2>5. Tied(next, tie)
    BY <1>1, <1>2, <2>1 DEF Tied
  <2>6. ASSUME NEW other \in TiesOf(p), Tied(sets, other) PROVE Tied(next, other)
    BY <2>1, <2>6 DEF Tied, TiesOf
  <2> QED BY <2>4, <2>5, <2>6 DEF next
<1> QED BY <1>3, <1>4

AliasFold(base, ties) ==
  FoldLeft(LAMBDA sets, tie : UnionOffset(sets, tie.left, tie.right, tie.displacement), base, ties)

\* The fold over the ties makes alias groups in which every tie holds.
LEMMA FoldTies ==
  ASSUME NEW p, NEW base \in SetsOf(p), NEW ties \in Seq(TiesOf(p))
  PROVE  /\ AliasFold(base, ties) \in SetsOf(p)
         /\ \A i \in DOMAIN ties : Tied(AliasFold(base, ties), ties[i])
<1> DEFINE V == SetsOf(p)
           n == Len(ties)
           D == 1..n
           Union(sets, i) == UnionOffset(sets, ties[i].left, ties[i].right, ties[i].displacement)
           Step(I) == [s \in SUBSET DOMAIN ties |-> IF s = {} THEN base ELSE Union(I[s \ {Max(s)}], Max(s))]
           fold == CHOOSE I : I = Step(I)
           step == [v \in V |-> [i \in D |-> Union(v, i)]]
<1>1. n \in Nat /\ DOMAIN ties = D /\ \A i \in D : ties[i] \in TiesOf(p)
  OBVIOUS
<1>2. \A v \in V, i \in D : Union(v, i) \in V /\ Tied(Union(v, i), ties[i])
                            /\ \A t \in TiesOf(p) : Tied(v, t) => Tied(Union(v, i), t)
  BY <1>1, UnionKeeps
<1> HIDE DEF V, Union
<1>3. step \in [V -> [D -> V]]
  BY <1>2
<1>4. \A v \in V, i \in D : step[v][i] = Union(v, i)
  OBVIOUS
<1>0. base \in V
  BY DEF V
<1> HIDE DEF step, n
<1>5. PICK g \in [SUBSET D -> V] : g = Folding(n, base, step, g)
  <2>1. n \in Nat /\ step \in [V -> [1..n -> V]]
    BY <1>1, <1>3
  <2> HIDE DEF D
  <2>2. HasFolding(V, n, base, step)
    BY <1>0, <2>1, FoldsExist
  <2> QED BY <2>2 DEF D, HasFolding
<1>6. \A s \in SUBSET D : s # {} => Max(s) \in D /\ \A y \in s : y <= Max(s)
  <2>1. SUFFICES ASSUME NEW s \in SUBSET (1..n), s # {} PROVE Max(s) \in s /\ \A y \in s : y <= Max(s)
    OBVIOUS
  <2> QED BY <1>1, <2>1, MaxAmong
<1> HIDE DEF D
<1>7. g = Step(g)
  <2>1. \A s \in SUBSET D : g[s] = IF s = {} THEN base ELSE step[g[s \ {Max(s)}]][Max(s)]
    BY <1>5 DEF Folding, D
  <2>2. \A s \in SUBSET D : g[s \ {Max(s)}] \in V
    OBVIOUS
  <2>3. \A s \in SUBSET D : g[s] = IF s = {} THEN base ELSE Union(g[s \ {Max(s)}], Max(s))
    BY <2>1, <2>2, <1>4, <1>6
  <2>4. g = [s \in SUBSET D |-> g[s]]
    OBVIOUS
  <2> QED BY <2>3, <2>4, <1>1
<1>8. fold = Step(fold)
  <2> HIDE DEF Step
  <2> QED BY <1>7
<1>9. AliasFold(base, ties) = fold[D]
  BY <1>1, Zenon DEF AliasFold, FoldLeft, MapThenFoldSet, Union
<1> HIDE DEF fold
<1>10. \A s \in SUBSET D : fold[s] = IF s = {} THEN base ELSE Union(fold[s \ {Max(s)}], Max(s))
  BY <1>1, <1>8
<1> DEFINE Good(k) == fold[1..k] \in V /\ \A i \in 1..k : Tied(fold[1..k], ties[i])
           G == {k \in 0..n : Good(k)}
<1>11. Good(0)
  <2>1. 1..0 = {} /\ 1..0 \in SUBSET D
    OBVIOUS
  <2> QED BY <2>1, <1>0, <1>10
<1>12. ASSUME NEW k \in 1..n, Good(k - 1) PROVE Good(k)
  <2>1. 1..k \in SUBSET D /\ 1..k # {} /\ k \in D
    <3>1. n \in Nat /\ k \in Nat /\ 1 <= k /\ k <= n
      BY <1>1
    <3>2. k \in D /\ \A i \in 1..k : i \in D
      BY <3>1 DEF D
    <3>3. 1 \in 1..k
      BY <3>1
    <3> QED BY <3>2, <3>3
  <2>2. Max(1..k) = k /\ (1..k) \ {k} = 1..(k - 1)
    <3>0. k \in 1..k /\ k \in Nat
      BY <1>1
    <3>1. Max(1..k) \in 1..k /\ \A y \in 1..k : y <= Max(1..k)
      BY <3>0, MaxAmong
    <3>2. k <= Max(1..k)
      BY <3>0, <3>1
    <3> QED BY <3>0, <3>1, <3>2
  <2>3. fold[1..k] = Union(fold[1..(k - 1)], k)
    BY <2>1, <2>2, <1>10
  <2>4. fold[1..(k - 1)] \in V /\ \A i \in 1..(k - 1) : Tied(fold[1..(k - 1)], ties[i]) /\ ties[i] \in TiesOf(p)
    BY <1>12, <1>1 DEF D
  <2>5. \A i \in 1..k : i = k \/ i \in 1..(k - 1)
    BY <1>1
  <2> QED BY <2>1, <2>3, <2>4, <2>5, <1>2
<1>13. 0 \in G
  <2> HIDE DEF Good
  <2>1. 0 \in 0..n
    BY <1>1
  <2> QED BY <1>11, <2>1
<1>14. ASSUME NEW k \in (0 + 1)..n, k - 1 \in G PROVE k \in G
  <2> HIDE DEF Good
  <2>1. k \in 1..n /\ k \in 0..n
    BY <1>1
  <2> QED BY <2>1, <1>12, <1>14
<1>15. n \in G
  <2> HIDE DEF G
  <2>1. \A k \in 0..n : k \in G
    BY <1>1, <1>13, <1>14, Upwards
  <2> QED BY <1>1, <2>1
<1>16. Good(n)
  BY <1>15
<1> QED BY <1>1, <1>9, <1>16 DEF V, D

\* Two sequences in a row: the members of both.
LEMMA Joined ==
  ASSUME NEW T, NEW u \in Seq(T), NEW v \in Seq(T)
  PROVE  /\ u \o v \in Seq(T)
         /\ \A k \in DOMAIN u : \E l \in DOMAIN (u \o v) : (u \o v)[l] = u[k]
         /\ \A k \in DOMAIN v : \E l \in DOMAIN (u \o v) : (u \o v)[l] = v[k]
<1>1. u \o v \in Seq(T) /\ DOMAIN (u \o v) = 1..(Len(u) + Len(v))
  OBVIOUS
<1>2. ASSUME NEW k \in DOMAIN u PROVE k \in DOMAIN (u \o v) /\ (u \o v)[k] = u[k]
  OBVIOUS
<1>3. ASSUME NEW k \in DOMAIN v PROVE Len(u) + k \in DOMAIN (u \o v) /\ (u \o v)[Len(u) + k] = v[k]
  OBVIOUS
<1> QED BY <1>1, <1>2, <1>3

Sequenced(p) == [inputs : Seq(Shards(p)), argument : Shards(p)]
Invariant(p) == [input : Shards(p), argument : Shards(p)]
Carried(p) == [initial : Shards(p), argument : Shards(p), yielded : Shards(p), result : Shards(p)]
CarriedTies(c) == <<Tie(c.initial, c.argument, 0), Tie(c.initial, c.yielded, 0), Tie(c.initial, c.result, 0)>>

\* A Repeat's ties are ties of shards, among them that of each iterated argument.
LEMMA TiesOfRepeat ==
  ASSUME NEW p, NEW repeat \in RepeatsOf(p), \A i \in DOMAIN repeat.iterated : Len(repeat.iterated[i].inputs) >= 1
  PROVE  /\ RepeatTies(repeat) \in Seq(TiesOf(p))
         /\ \A i \in DOMAIN repeat.iterated : \E k \in DOMAIN RepeatTies(repeat) :
              RepeatTies(repeat)[k] = Tie(repeat.iterated[i].inputs[1], repeat.iterated[i].argument, 0)
<1> DEFINE T == TiesOf(p)
           parts == [i \in DOMAIN repeat.carried |-> CarriedTies(repeat.carried[i])]
           u == FlattenSeq(parts)
           v == [i \in DOMAIN repeat.invariants |->
                   Tie(repeat.invariants[i].input, repeat.invariants[i].argument, 0)]
           w == [i \in DOMAIN repeat.iterated |->
                   Tie(repeat.iterated[i].inputs[1], repeat.iterated[i].argument, 0)]
<1>1. /\ repeat.carried \in Seq(Carried(p))
      /\ repeat.invariants \in Seq(Invariant(p))
      /\ repeat.iterated \in Seq(Sequenced(p))
  BY DEF RepeatsOf, Carried, Invariant, Sequenced
<1>2. \A a, b \in Shards(p) : Tie(a, b, 0) \in T
  BY DEF Tie, TiesOf
<1>3. parts \in Seq(Seq(T))
  <2>1. \A c \in Carried(p) : CarriedTies(c) \in Seq(T)
    <3>1. ASSUME NEW c \in Carried(p)
          PROVE  c.initial \in Shards(p) /\ c.argument \in Shards(p) /\ c.yielded \in Shards(p) /\ c.result \in Shards(p)
      BY DEF Carried
    <3>2. \A x, y, z \in T : <<x, y, z>> \in Seq(T)
      OBVIOUS
    <3> HIDE DEF T
    <3> QED BY <3>1, <3>2, <1>2 DEF CarriedTies
  <2> HIDE DEF T
  <2>2. DOMAIN repeat.carried = 1..Len(repeat.carried) /\ Len(repeat.carried) \in Nat
        /\ \A i \in DOMAIN repeat.carried : repeat.carried[i] \in Carried(p)
    BY <1>1
  <2>3. \A i \in DOMAIN repeat.carried : CarriedTies(repeat.carried[i]) \in Seq(T)
    BY <2>1, <2>2
  <2> QED BY <2>2, <2>3
<1>4. u \in Seq(T)
  <2> HIDE DEF parts, T
  <2> QED BY <1>3, FlattenTyped
<1>5. v \in Seq(T)
  <2>0. DOMAIN repeat.invariants = 1..Len(repeat.invariants) /\ Len(repeat.invariants) \in Nat
        /\ \A i \in DOMAIN repeat.invariants : repeat.invariants[i] \in Invariant(p)
    BY <1>1
  <2>1. \A i \in DOMAIN repeat.invariants :
          repeat.invariants[i].input \in Shards(p) /\ repeat.invariants[i].argument \in Shards(p)
    BY <2>0 DEF Invariant
  <2>2. \A i \in DOMAIN repeat.invariants : v[i] \in T
    <3> HIDE DEF T
    <3> QED BY <1>2, <2>1
  <2>3. DOMAIN v = 1..Len(repeat.invariants) /\ v = [i \in DOMAIN repeat.invariants |-> v[i]]
    BY <2>0
  <2> HIDE DEF T, v
  <2> QED BY <2>0, <2>2, <2>3
<1>6. w \in Seq(T)
  <2>1. ASSUME NEW i \in DOMAIN repeat.iterated
        PROVE  repeat.iterated[i].inputs[1] \in Shards(p) /\ repeat.iterated[i].argument \in Shards(p)
    <3>0. repeat.iterated[i] \in Sequenced(p)
      BY <1>1
    <3>1. repeat.iterated[i].inputs \in Seq(Shards(p)) /\ repeat.iterated[i].argument \in Shards(p)
      BY <3>0 DEF Sequenced
    <3>2. Len(repeat.iterated[i].inputs) >= 1 /\ Len(repeat.iterated[i].inputs) \in Nat
      BY <3>1
    <3>3. 1 \in DOMAIN repeat.iterated[i].inputs
      BY <3>1, <3>2
    <3> QED BY <3>1, <3>3
  <2>2. \A i \in DOMAIN repeat.iterated : w[i] \in T
    <3> HIDE DEF T
    <3> QED BY <1>2, <2>1
  <2>3. DOMAIN w = 1..Len(repeat.iterated) /\ w = [i \in DOMAIN repeat.iterated |-> w[i]]
        /\ Len(repeat.iterated) \in Nat /\ DOMAIN repeat.iterated = 1..Len(repeat.iterated)
    BY <1>1
  <2> HIDE DEF T, w
  <2> QED BY <2>2, <2>3
<1>7. RepeatTies(repeat) = (u \o v) \o w
  BY Zenon DEF RepeatTies, CarriedTies
<1>8. \A i \in DOMAIN repeat.iterated : i \in DOMAIN w
                           /\ w[i] = Tie(repeat.iterated[i].inputs[1], repeat.iterated[i].argument, 0)
  OBVIOUS
<1> HIDE DEF T, u, v, w
<1>9. u \o v \in Seq(T)
  BY <1>4, <1>5, Joined
<1> DEFINE x == u \o v
<1>11. x \in Seq(T)
  BY <1>9
<1> HIDE DEF x
<1>10. /\ x \o w \in Seq(T)
       /\ \A k \in DOMAIN w : \E l \in DOMAIN (x \o w) : (x \o w)[l] = w[k]
  BY <1>6, <1>11, Joined
<1> QED BY <1>7, <1>8, <1>10 DEF x, T

ShardOf(p) == [size : Nat, class : {"standard", "interleaved"}, of : 0..Len(p.shards), shift : Int]

\* A shard's fields.
LEMMA ShardTyped ==
  ASSUME NEW p, WellFormed(p), NEW s \in Shards(p)
  PROVE  /\ p.shards[s].size \in Nat /\ p.shards[s].class \in {"standard", "interleaved"}
         /\ p.shards[s].of \in 0..Len(p.shards) /\ p.shards[s].shift \in Int
         /\ Len(p.shards) \in Nat
<1>1. p.shards \in Seq(ShardOf(p))
  BY DEF WellFormed, ShardOf
<1>2. DOMAIN p.shards = 1..Len(p.shards) /\ Len(p.shards) \in Nat
  BY <1>1
<1>3. p.shards[s] \in ShardOf(p)
  BY <1>1, <1>2 DEF Shards
<1> QED BY <1>2, <1>3 DEF ShardOf

\* The alias groups: an iterated argument is in the group of its first input.
LEMMA AliasesTyped ==
  ASSUME NEW p, WellFormed(p)
  PROVE  /\ AliasSets(p) \in SetsOf(p)
         /\ \A g \in Iterated(p) :
              AliasSets(p).root[Group(p, g).inputs[1]] = AliasSets(p).root[Group(p, g).argument]
<1> DEFINE T == TiesOf(p)
           parts == [r \in DOMAIN p.repeats |-> RepeatTies(p.repeats[r])]
           u == AliasTies(p)
           v == FlattenSeq(parts)
<1>1. /\ p.repeats \in Seq(RepeatsOf(p))
      /\ \A g \in Iterated(p) : Len(Group(p, g).inputs) >= Iterations
  BY DEF WellFormed
<1>2. ASSUME NEW r \in DOMAIN p.repeats
      PROVE  /\ p.repeats[r] \in RepeatsOf(p)
             /\ \A i \in DOMAIN p.repeats[r].iterated : Len(p.repeats[r].iterated[i].inputs) >= 1
  <2>1. p.repeats[r] \in RepeatsOf(p)
    BY <1>1
  <2>2. ASSUME NEW i \in DOMAIN p.repeats[r].iterated PROVE Len(p.repeats[r].iterated[i].inputs) >= 1
    <3>1. <<r, i>> \in Iterated(p)
      BY DEF Iterated
    <3>2. Group(p, <<r, i>>) = p.repeats[r].iterated[i]
      BY DEF Group
    <3>3. Len(p.repeats[r].iterated[i].inputs) >= Iterations
      BY <1>1, <3>1, <3>2
    <3>4. p.repeats[r].iterated \in Seq([inputs : Seq(Shards(p)), argument : Shards(p)])
      BY <2>1 DEF RepeatsOf
    <3>5. Len(p.repeats[r].iterated[i].inputs) \in Nat
      BY <3>4
    <3> QED BY <3>3, <3>5, MemoryAssumption
  <2> QED BY <2>1, <2>2
<1>3. parts \in Seq(Seq(T))
  <2>1. \A r \in DOMAIN p.repeats : RepeatTies(p.repeats[r]) \in Seq(T)
    BY <1>2, TiesOfRepeat
  <2> HIDE DEF T
  <2> QED BY <1>1, <2>1
<1>4. u \in Seq(T)
  <2>1. Len(p.shards) \in Nat
    <3>1. p.shards \in Seq(ShardOf(p))
      BY DEF WellFormed, ShardOf
    <3> QED BY <3>1
  <2>2. ASSUME NEW s \in Shards(p)
        PROVE  u[s] \in T
    <3>1. p.shards[s].of \in 0..Len(p.shards) /\ p.shards[s].shift \in Int
      BY ShardTyped
    <3>2. p.shards[s].of # 0 => p.shards[s].of \in Shards(p)
      BY <2>1, <3>1 DEF Shards
    <3>3. Tie(s, s, 0) \in T /\ (p.shards[s].of # 0 => Tie(s, p.shards[s].of, p.shards[s].shift) \in T)
      BY <3>1, <3>2 DEF Tie, TiesOf
    <3> HIDE DEF T
    <3> QED BY <3>3 DEF AliasTies
  <2>3. u = [s \in Shards(p) |-> u[s]]
    BY DEF AliasTies
  <2> HIDE DEF T, u
  <2> QED BY <2>1, <2>2, <2>3 DEF Shards
<1>5. v \in Seq(T) /\ \A i \in DOMAIN parts : \A j \in DOMAIN parts[i] :
              \E k \in DOMAIN v : v[k] = parts[i][j]
  <2> HIDE DEF parts, T
  <2> QED BY <1>3, FlattenTyped
<1>6. Singletons(p) \in SetsOf(p)
  BY DEF Singletons, SetsOf
<1>7. AliasSets(p) = AliasFold(Singletons(p), u \o v)
  BY Zenon DEF AliasSets, AliasFold
<1> HIDE DEF u, v
<1>8. u \o v \in Seq(T) /\ \A k \in DOMAIN v : \E l \in DOMAIN (u \o v) : (u \o v)[l] = v[k]
  <2> HIDE DEF T
  <2> QED BY <1>4, <1>5, Joined
<1> DEFINE w == u \o v
<1> HIDE DEF w
<1>9. AliasSets(p) \in SetsOf(p) /\ \A i \in DOMAIN w : Tied(AliasSets(p), w[i])
  BY <1>6, <1>7, <1>8, FoldTies DEF w
<1>10. ASSUME NEW g \in Iterated(p)
       PROVE  AliasSets(p).root[Group(p, g).inputs[1]] = AliasSets(p).root[Group(p, g).argument]
  <2>1. PICK r \in DOMAIN p.repeats : \E i \in DOMAIN p.repeats[r].iterated : g = <<r, i>>
    BY DEF Iterated
  <2>2. PICK i \in DOMAIN p.repeats[r].iterated : g = <<r, i>>
    BY <2>1
  <2>3. Group(p, g) = p.repeats[r].iterated[i]
    BY <2>2 DEF Group
  <2> DEFINE tie == Tie(p.repeats[r].iterated[i].inputs[1], p.repeats[r].iterated[i].argument, 0)
  <2>4. PICK k \in DOMAIN RepeatTies(p.repeats[r]) : RepeatTies(p.repeats[r])[k] = tie
    BY <1>2, TiesOfRepeat
  <2>5. r \in DOMAIN parts /\ parts[r] = RepeatTies(p.repeats[r])
    OBVIOUS
  <2> HIDE DEF parts
  <2>6. PICK l \in DOMAIN w : w[l] = tie
    BY <1>5, <1>8, <2>4, <2>5 DEF w
  <2>7. Tied(AliasSets(p), tie)
    BY <1>9, <2>6
  <2> QED BY <2>3, <2>7 DEF Tied, Tie
<1> QED BY <1>9, <1>10

-----------------------------------------------------------------------------
(* Ranges of addresses, merged and left over.                              *)

\* The ranges below a limit.
Bounds(limit) == {q \in Nat \X Nat : q[1] <= q[2] /\ q[2] <= limit}

\* A set of numbers has a least member, and a largest when it is bounded.
LEMMA MinOf ==
  ASSUME NEW T, T \subseteq Nat, T # {}
  PROVE  Min(T) \in T /\ \A y \in T : Min(T) <= y
<1>1. PICK x \in T : \A y \in T : x <= y
  BY LeastOf
<1> QED BY <1>1, Zenon DEF Min

\* What is bounded has a largest.
LEMMA LargestOf ==
  ASSUME NEW T, T \subseteq Nat, T # {}, NEW limit \in Nat, \A y \in T : y <= limit
  PROVE  \E x \in T : \A y \in T : y <= x
<1>1. T \in SUBSET Nat
  OBVIOUS
<1>2. IsFiniteSet(T)
  BY <1>1, FS_BoundedSetOfNaturals
<1>3. T \subseteq Int
  OBVIOUS
<1>4. PICK x, z \in T : \A y \in T : x <= y /\ y <= z
  BY <1>2, <1>3, Bounded
<1> QED BY <1>4

StartsOf(S) == {r[1] : r \in {r \in S : \A q \in S : ~(q[1] < r[1] /\ r[1] <= q[2])}}
EndsOf(S) == {r[2] : r \in {r \in S : \A q \in S : ~(q[1] <= r[2] /\ r[2] < q[2])}}

\* The largest end of some ranges is an end, unless a range outside them reaches beyond it.
LEMMA EndOf ==
  ASSUME NEW limit \in Nat, NEW S \in SUBSET Bounds(limit), NEW T \in SUBSET S, T # {},
         \A s \in S, t \in T : s[1] <= t[2] /\ t[2] < s[2] => s \in T
  PROVE  \E t \in T : t[2] \in EndsOf(S) /\ \A u \in T : u[2] <= t[2]
<1> DEFINE E == {t[2] : t \in T}
<1>1. \A q \in S : q[1] \in Nat /\ q[2] \in Nat /\ q[1] <= q[2] /\ q[2] <= limit
  BY DEF Bounds
<1>2. E \subseteq Nat /\ E # {} /\ \A y \in E : y <= limit
  BY <1>1
<1>3. PICK e \in E : \A y \in E : y <= e
  BY <1>2, LargestOf
<1>4. PICK t \in T : t[2] = e
  BY <1>3
<1>5. \A u \in T : u[2] <= t[2]
  BY <1>3, <1>4
<1>6. ASSUME NEW q \in S, q[1] <= t[2], t[2] < q[2] PROVE FALSE
  <2>1. q \in T
    BY <1>6
  <2>2. q[2] <= t[2] /\ q[2] \in Nat /\ t[2] \in Nat
    BY <1>1, <1>5, <2>1
  <2> QED BY <1>6, <2>2
<1>7. t[2] \in EndsOf(S)
  BY <1>6 DEF EndsOf
<1> QED BY <1>5, <1>7

\* A merged range goes from a start to the first end after it.
LEMMA MergeShape ==
  ASSUME NEW limit \in Nat, NEW S \in SUBSET Bounds(limit)
  PROVE  /\ \A m \in MergeRanges(S) :
              /\ m = <<m[1], m[2]>> /\ m[1] \in StartsOf(S) /\ m[2] \in EndsOf(S)
              /\ m[1] <= m[2] /\ \A e \in EndsOf(S) : m[1] <= e => m[2] <= e
         /\ \A start \in StartsOf(S) : \E m \in MergeRanges(S) : m[1] = start
         /\ StartsOf(S) \subseteq Nat /\ EndsOf(S) \subseteq Nat
<1> DEFINE After(start) == {e \in EndsOf(S) : start <= e}
           Merged(start) == <<start, Min(After(start))>>
<1>1. \A q \in S : q[1] \in Nat /\ q[2] \in Nat /\ q[1] <= q[2] /\ q[2] <= limit
  BY DEF Bounds
<1>2. StartsOf(S) \subseteq Nat /\ EndsOf(S) \subseteq Nat
  BY <1>1 DEF StartsOf, EndsOf
<1>3. MergeRanges(S) = {Merged(start) : start \in StartsOf(S)}
  BY Zenon DEF MergeRanges, StartsOf, EndsOf
<1>4. ASSUME NEW start \in StartsOf(S)
      PROVE  Min(After(start)) \in After(start) /\ \A e \in After(start) : Min(After(start)) <= e
  <2>1. PICK r \in S : r[1] = start
    BY DEF StartsOf
  <2>2. PICK t \in S : t[2] \in EndsOf(S) /\ \A u \in S : u[2] <= t[2]
    <3>1. S \in SUBSET S /\ S # {}
      BY <2>1
    <3> QED BY <3>1, EndOf
  <2>3. r[2] <= t[2] /\ r[1] <= r[2] /\ r[1] \in Nat /\ r[2] \in Nat /\ t[2] \in Nat
    BY <1>1, <2>1, <2>2
  <2>4. t[2] \in After(start)
    BY <2>1, <2>2, <2>3
  <2>5. After(start) \subseteq Nat /\ After(start) # {}
    BY <1>2, <2>4
  <2> HIDE DEF After
  <2> QED BY <2>5, MinOf
<1>5. ASSUME NEW m \in MergeRanges(S)
      PROVE  /\ m = <<m[1], m[2]>> /\ m[1] \in StartsOf(S) /\ m[2] \in EndsOf(S)
             /\ m[1] <= m[2] /\ \A e \in EndsOf(S) : m[1] <= e => m[2] <= e
  <2>1. PICK start \in StartsOf(S) : m = Merged(start)
    BY <1>3
  <2>2. m = <<m[1], m[2]>> /\ m[1] = start /\ m[2] = Min(After(start))
    <3> HIDE DEF After
    <3> QED BY <2>1
  <2>3. m[2] \in After(start) /\ \A e \in After(start) : m[2] <= e
    <3> HIDE DEF After
    <3> QED BY <1>4, <2>2
  <2> QED BY <2>2, <2>3
<1>6. ASSUME NEW start \in StartsOf(S) PROVE \E m \in MergeRanges(S) : m[1] = start
  <2>1. Merged(start) \in MergeRanges(S) /\ Merged(start)[1] = start
    <3> HIDE DEF After
    <3> QED BY <1>3
  <2> QED BY <2>1
<1> QED BY <1>2, <1>5, <1>6

\* Every range lies in a merged one.
LEMMA MergeCovers ==
  ASSUME NEW limit \in Nat, NEW S \in SUBSET Bounds(limit), NEW q \in S
  PROVE  \E m \in MergeRanges(S) : m[1] <= q[1] /\ q[2] <= m[2]
<1>1. \A r \in S : r[1] \in Nat /\ r[2] \in Nat /\ r[1] <= r[2] /\ r[2] <= limit
  BY DEF Bounds
<1>2. StartsOf(S) \subseteq Nat /\ EndsOf(S) \subseteq Nat
  BY MergeShape
\* The ranges that begin after some point: the first of them begins at a start, unless
\* one that begins before reaches it.
<1>3. ASSUME NEW T \in SUBSET S, T # {}, \A s \in S \ T, t \in T : s[2] < t[1]
      PROVE  \E t \in T : t[1] \in StartsOf(S) /\ \A u \in T : t[1] <= u[1]
  <2> DEFINE F == {t[1] : t \in T}
  <2>1. F \subseteq Nat /\ F # {}
    BY <1>1, <1>3
  <2>2. PICK b \in F : \A y \in F : b <= y
    BY <2>1, LeastOf
  <2>3. PICK t \in T : t[1] = b
    BY <2>2
  <2>4. \A u \in T : t[1] <= u[1]
    BY <2>2, <2>3
  <2>5. ASSUME NEW s \in S, s[1] < t[1], t[1] <= s[2] PROVE FALSE
    <3>1. CASE s \in T
      <4>1. t[1] <= s[1] /\ t[1] \in Nat /\ s[1] \in Nat
        BY <1>1, <2>4, <3>1
      <4> QED BY <4>1, <2>5
    <3>2. CASE s \notin T
      <4>1. s[2] < t[1] /\ t[1] \in Nat /\ s[2] \in Nat
        BY <1>1, <1>3, <3>2
      <4> QED BY <4>1, <2>5
    <3> QED BY <3>1, <3>2
  <2>6. t[1] \in StartsOf(S)
    BY <2>5 DEF StartsOf
  <2> QED BY <2>4, <2>6
<1> DEFINE B == {x \in StartsOf(S) : x <= q[1]}
<1>4. B # {}
  <2>1. S \in SUBSET S /\ S # {} /\ \A s \in S \ S, t \in S : s[2] < t[1]
    OBVIOUS
  <2>2. PICK t \in S : t[1] \in StartsOf(S) /\ \A u \in S : t[1] <= u[1]
    BY <2>1, <1>3
  <2> QED BY <2>2
<1>5. PICK b \in B : \A y \in B : y <= b
  <2>1. B \subseteq Nat /\ \A y \in B : y <= q[1]
    BY <1>2
  <2>2. q[1] \in Nat
    BY <1>1
  <2> HIDE DEF B
  <2> QED BY <1>4, <2>1, <2>2, LargestOf
<1>6. PICK m \in MergeRanges(S) : m[1] = b
  BY <1>5, MergeShape
<1>7. m[2] \in EndsOf(S) /\ m[1] <= m[2] /\ m[1] \in Nat /\ m[2] \in Nat
  BY <1>2, <1>6, MergeShape
<1>8. m[1] <= q[1]
  BY <1>5, <1>6
<1>9. ASSUME m[2] < q[2] PROVE FALSE
  <2>1. PICK z \in S : z[2] = m[2] /\ \A s \in S : ~(s[1] <= z[2] /\ z[2] < s[2])
    BY <1>7 DEF EndsOf
  <2>2. ~(q[1] <= m[2])
    BY <1>9, <2>1
  <2> DEFINE T == {s \in S : m[2] < s[1]}
  <2>3. q \in T
    BY <2>2, <1>1, <1>7
  <2>4. ASSUME NEW s \in S \ T, NEW t \in T PROVE s[2] < t[1]
    <3>1. s[1] \in Nat /\ s[2] \in Nat /\ t[1] \in Nat /\ ~(m[2] < s[1]) /\ m[2] < t[1]
      BY <1>1
    <3>2. s[1] <= m[2]
      BY <3>1, <1>7
    <3>3. ~(m[2] < s[2])
      BY <2>1, <3>2
    <3> QED BY <3>1, <3>3, <1>7
  <2>5. PICK t \in T : t[1] \in StartsOf(S) /\ \A u \in T : t[1] <= u[1]
    <3>1. T \in SUBSET S /\ T # {}
      BY <2>3
    <3> HIDE DEF T
    <3> QED BY <2>4, <3>1, <1>3
  <2>6. t[1] <= q[1] /\ m[2] < t[1] /\ t[1] \in Nat
    BY <1>1, <2>3, <2>5
  <2>7. t[1] \in B
    BY <2>5, <2>6
  <2>8. t[1] <= m[1]
    BY <1>5, <1>6, <2>7
  <2> QED BY <2>6, <2>8, <1>7
<1>10. q[2] \in Nat
  BY <1>1
<1>11. q[2] <= m[2]
  BY <1>7, <1>9, <1>10
<1> QED BY <1>6, <1>8, <1>11

\* A merged range holds no address but those of the ranges.
LEMMA MergeAddsNothing ==
  ASSUME NEW limit \in Nat, NEW S \in SUBSET Bounds(limit), NEW m \in MergeRanges(S),
         NEW x \in Int, m[1] <= x, x < m[2]
  PROVE  \E q \in S : q[1] <= x /\ x < q[2]
<1>1. SUFFICES ASSUME \A q \in S : ~(q[1] <= x /\ x < q[2]) PROVE FALSE
  OBVIOUS
<1>2. \A r \in S : r[1] \in Nat /\ r[2] \in Nat /\ r[1] <= r[2] /\ r[2] <= limit
  BY DEF Bounds
<1>3. /\ m[1] \in StartsOf(S) /\ \A e \in EndsOf(S) : m[1] <= e => m[2] <= e
      /\ m[1] \in Nat /\ m[2] \in Nat
  BY MergeShape
<1>4. PICK r \in S : r[1] = m[1]
  BY <1>3 DEF StartsOf
<1> DEFINE T == {s \in S : s[1] <= x}
<1>5. r \in T
  BY <1>4
<1>6. \A t \in T : t[2] <= x
  BY <1>1, <1>2
<1>7. ASSUME NEW s \in S, NEW t \in T, s[1] <= t[2], t[2] < s[2] PROVE s \in T
  BY <1>2, <1>6, <1>7
<1>8. PICK t \in T : t[2] \in EndsOf(S) /\ \A u \in T : u[2] <= t[2]
  <2>1. T \in SUBSET S /\ T # {}
    BY <1>5
  <2> HIDE DEF T
  <2> QED BY <1>7, <2>1, EndOf
<1>9. r[2] <= t[2] /\ t[2] <= x /\ r[1] <= r[2] /\ r[2] \in Nat /\ t[2] \in Nat
  BY <1>2, <1>5, <1>6, <1>8
<1>10. m[1] <= t[2]
  BY <1>3, <1>4, <1>9
<1>11. m[2] <= t[2]
  BY <1>3, <1>8, <1>10
<1> QED BY <1>3, <1>9, <1>11

\* Two merged ranges do not meet.
LEMMA MergedApart ==
  ASSUME NEW limit \in Nat, NEW S \in SUBSET Bounds(limit),
         NEW l \in MergeRanges(S), NEW m \in MergeRanges(S), l # m
  PROVE  l[2] < m[1] \/ m[2] < l[1]
<1>1. \A r \in S : r[1] \in Nat /\ r[2] \in Nat /\ r[1] <= r[2] /\ r[2] <= limit
  BY DEF Bounds
<1>2. ASSUME NEW a \in MergeRanges(S), NEW b \in MergeRanges(S), a[1] < b[1]
      PROVE  a[2] < b[1]
  <2>1. /\ a[1] \in StartsOf(S) /\ \A e \in EndsOf(S) : a[1] <= e => a[2] <= e
        /\ a[1] \in Nat /\ a[2] \in Nat /\ b[1] \in Nat /\ b[1] \in StartsOf(S)
    BY MergeShape
  <2>2. PICK r \in S : r[1] = a[1]
    BY <2>1 DEF StartsOf
  <2>3. \A s \in S : ~(s[1] < b[1] /\ b[1] <= s[2])
    BY <2>1 DEF StartsOf
  <2> DEFINE T == {s \in S : s[1] < b[1]}
  <2>4. r \in T
    BY <1>2, <2>2
  <2>5. \A t \in T : t[2] < b[1]
    BY <1>1, <2>1, <2>3
  <2>6. ASSUME NEW s \in S, NEW t \in T, s[1] <= t[2], t[2] < s[2] PROVE s \in T
    BY <1>1, <2>1, <2>5, <2>6
  <2>7. PICK t \in T : t[2] \in EndsOf(S) /\ \A u \in T : u[2] <= t[2]
    <3>1. T \in SUBSET S /\ T # {}
      BY <2>4
    <3> HIDE DEF T
    <3> QED BY <2>6, <3>1, EndOf
  <2>8. r[2] <= t[2] /\ t[2] < b[1] /\ r[1] <= r[2] /\ r[2] \in Nat /\ t[2] \in Nat
    BY <1>1, <2>4, <2>5, <2>7
  <2>9. a[1] <= t[2]
    BY <2>1, <2>2, <2>8
  <2>10. a[2] <= t[2]
    BY <2>1, <2>7, <2>9
  <2> QED BY <2>1, <2>8, <2>10
<1>3. /\ l = <<l[1], l[2]>> /\ m = <<m[1], m[2]>> /\ l[1] \in Nat /\ m[1] \in Nat
      /\ l[2] \in EndsOf(S) /\ m[2] \in EndsOf(S) /\ l[1] <= l[2] /\ m[1] <= m[2]
      /\ l[2] \in Nat /\ m[2] \in Nat
      /\ \A e \in EndsOf(S) : (l[1] <= e => l[2] <= e) /\ (m[1] <= e => m[2] <= e)
  BY MergeShape
<1>4. CASE l[1] = m[1]
  <2>1. l[2] <= m[2] /\ m[2] <= l[2]
    BY <1>3, <1>4
  <2>2. l[2] = m[2]
    BY <1>3, <2>1
  <2> QED BY <1>3, <1>4, <2>2
<1>5. CASE l[1] < m[1]
  BY <1>2, <1>5
<1>6. CASE m[1] < l[1]
  BY <1>2, <1>6
<1> QED BY <1>3, <1>4, <1>5, <1>6

\* Where the ranges lie in ranges that do not touch, each merged one lies in one of them.
LEMMA MergedInside ==
  ASSUME NEW limit \in Nat, NEW S \in SUBSET Bounds(limit),
         NEW R \in SUBSET (Nat \X Nat), \A r, s \in R : r # s => r[2] < s[1] \/ s[2] < r[1],
         \A q \in S : \E r \in R : r[1] <= q[1] /\ q[2] <= r[2],
         NEW m \in MergeRanges(S)
  PROVE  \E r \in R : r[1] <= m[1] /\ m[2] <= r[2]
<1>1. \A q \in S : q[1] \in Nat /\ q[2] \in Nat /\ q[1] <= q[2] /\ q[2] <= limit
  BY DEF Bounds
<1>2. \A r \in R : r[1] \in Nat /\ r[2] \in Nat
  OBVIOUS
<1>3. /\ m[1] \in StartsOf(S) /\ \A e \in EndsOf(S) : m[1] <= e => m[2] <= e
      /\ m[1] \in Nat /\ m[2] \in Nat
  BY MergeShape
<1>4. PICK q \in S : q[1] = m[1]
  BY <1>3 DEF StartsOf
<1>5. PICK r \in R : r[1] <= q[1] /\ q[2] <= r[2]
  OBVIOUS
<1> DEFINE T == {s \in S : r[1] <= s[1] /\ s[2] <= r[2]}
<1>6. q \in T
  BY <1>5
<1>7. ASSUME NEW s \in S, NEW t \in T, s[1] <= t[2], t[2] < s[2] PROVE s \in T
  <2>1. PICK v \in R : v[1] <= s[1] /\ s[2] <= v[2]
    OBVIOUS
  <2>2. /\ s[1] \in Nat /\ s[2] \in Nat /\ t[1] \in Nat /\ t[2] \in Nat /\ t[1] <= t[2]
        /\ r[1] <= t[1] /\ t[2] <= r[2]
        /\ v[1] \in Nat /\ v[2] \in Nat /\ r[1] \in Nat /\ r[2] \in Nat
    BY <1>1, <1>2
  <2>3. ~(r[2] < v[1])
    BY <1>7, <2>1, <2>2
  <2>4. ~(v[2] < r[1])
    BY <1>7, <2>1, <2>2
  <2>5. v = r
    BY <2>3, <2>4
  <2> QED BY <2>1, <2>5
<1>8. PICK t \in T : t[2] \in EndsOf(S) /\ \A u \in T : u[2] <= t[2]
  <2>1. T \in SUBSET S /\ T # {}
    BY <1>6
  <2> HIDE DEF T
  <2> QED BY <1>7, <2>1, EndOf
<1>9. /\ q[2] <= t[2] /\ t[2] <= r[2] /\ q[1] <= q[2]
      /\ q[1] \in Nat /\ q[2] \in Nat /\ t[2] \in Nat /\ r[2] \in Nat
  BY <1>1, <1>2, <1>6, <1>8
<1>10. m[1] <= t[2]
  BY <1>4, <1>9
<1>11. m[2] <= t[2]
  BY <1>3, <1>8, <1>10
<1> QED BY <1>3, <1>4, <1>5, <1>9, <1>11

\* What is left of start..end lies in it and meets no merged range.
LEMMA Leftovers ==
  ASSUME NEW start \in Nat, NEW end \in Nat, NEW merged \in SUBSET (Nat \X Nat),
         NEW r \in Uncovered(start, end, merged)
  PROVE  /\ r = <<r[1], r[2]>> /\ r[1] \in Nat /\ r[2] \in Nat
         /\ start <= r[1] /\ r[1] < r[2] /\ r[2] <= end
         /\ \A q \in merged : q[2] <= r[1] \/ r[2] <= q[1]
<1> DEFINE from == {start} \cup {q[2] : q \in {q \in merged : start <= q[2] /\ q[2] <= end}}
           to == {end} \cup {q[1] : q \in {q \in merged : start <= q[1] /\ q[1] <= end}}
<1>1. \A x \in from : x \in Nat /\ start <= x
  OBVIOUS
<1>2. \A x \in to : x \in Nat /\ x <= end
  OBVIOUS
<1>3. Uncovered(start, end, merged) =
        {q \in from \X to : q[1] < q[2] /\ \A m \in merged : m[2] <= q[1] \/ q[2] <= m[1]}
  BY Zenon DEF Uncovered
<1> HIDE DEF from, to
<1>4. r \in from \X to /\ r[1] < r[2] /\ \A m \in merged : m[2] <= r[1] \/ r[2] <= m[1]
  BY <1>3
<1>5. r = <<r[1], r[2]>> /\ r[1] \in from /\ r[2] \in to
  BY <1>4
<1> QED BY <1>1, <1>2, <1>4, <1>5

-----------------------------------------------------------------------------
(* Multiples.                                                              *)

\* Between two multiples in a row there is none.
LEMMA NextMultiple ==
  ASSUME NEW a \in Int, NEW k \in Int, NEW m \in Nat \ {0}, a % m = 0
  PROVE  /\ a > k * m => a >= (k * m) + m
         /\ a < (k * m) + m => a <= k * m
<1> DEFINE j == a \div m
<1>1. j \in Int /\ a = m * j
  BY DivMod
<1> HIDE DEF j
<1>2. a = j * m /\ k * m \in Int
  BY <1>1
<1>3. ASSUME j >= k + 1 PROVE j * m >= (k * m) + m
  <2>1. PICK i \in Nat : j = (k + 1) + i
    <3>1. j - (k + 1) \in Nat /\ j = (k + 1) + (j - (k + 1))
      BY <1>1, <1>3
    <3> QED BY <3>1
  <2>2. j * m = ((k * m) + m) + (i * m) /\ i * m \in Nat
    BY <2>1
  <2> QED BY <2>2, <1>2
<1>4. ASSUME j <= k PROVE j * m <= k * m
  <2>1. PICK i \in Nat : k = j + i
    <3>1. k - j \in Nat /\ k = j + (k - j)
      BY <1>1, <1>4
    <3> QED BY <3>1
  <2>2. k * m = (j * m) + (i * m) /\ i * m \in Nat /\ j * m \in Int
    BY <1>1, <2>1
  <2> QED BY <2>2
<1>5. j >= k + 1 \/ j <= k
  BY <1>1
<1> QED BY <1>2, <1>3, <1>4, <1>5

\* Of two positive numbers one of which divides the other the smaller divides the larger.
LEMMA LargerIsMultiple ==
  ASSUME NEW a \in Nat \ {0}, NEW b \in Nat \ {0}, a % b = 0 \/ b % a = 0, b <= a
  PROVE  a % b = 0
<1>1. CASE a % b = 0
  BY <1>1
<1>2. CASE b % a = 0
  <2>1. b >= (0 * a) + a
    <3>1. b > 0 * a
      OBVIOUS
    <3> QED BY <3>1, <1>2, NextMultiple
  <2>2. a = b
    BY <2>1
  <2> QED BY <2>2, <1>2
<1> QED BY <1>1, <1>2

\* Of two alignments the larger is a multiple of the smaller.
LEMMA AlignmentsTyped ==
  ASSUME NEW p, WellFormed(p)
  PROVE  /\ Alignments(p) \subseteq Nat \ {0}
         /\ 1 \in Alignments(p) /\ Element \in Alignments(p) /\ InterleavedElement \in Alignments(p)
         /\ \A a, b \in Alignments(p) : b <= a => a % b = 0
<1>1. Needs(p) \subseteq NeedsOf(p)
  <2>1. \A e \in DOMAIN p.work : p.work[e] \in WorkOf(p)
    BY DEF WellFormed
  <2>2. \A w \in WorkOf(p) : w.needs \subseteq NeedsOf(p)
    BY DEF WorkOf
  <2> QED BY <2>1, <2>2 DEF Needs
<1>2. \A n \in NeedsOf(p) : n.alignment \in Nat \ {0}
  BY DEF NeedsOf
<1>3. \A i \in DOMAIN p.auxiliary : p.auxiliary[i].alignment \in Nat \ {0}
  <2> DEFINE A == [bytes : Nat, alignment : Nat \ {0}, first : Nat, last : Nat]
  <2>1. p.auxiliary \in Seq(A)
    BY DEF WellFormed
  <2>2. \A x \in A : x.alignment \in Nat \ {0}
    OBVIOUS
  <2> HIDE DEF A
  <2> QED BY <2>1, <2>2
<1>4. 1 \in Nat \ {0} /\ Element \in Nat \ {0} /\ InterleavedElement \in Nat \ {0}
  BY MemoryAssumption
<1>5. Alignments(p) \subseteq Nat \ {0}
  BY <1>1, <1>2, <1>3, <1>4 DEF Alignments
<1>6. 1 \in Alignments(p) /\ Element \in Alignments(p) /\ InterleavedElement \in Alignments(p)
  BY DEF Alignments
<1>7. \A a, b \in Alignments(p) : a % b = 0 \/ b % a = 0
  BY DEF WellFormed
<1>8. ASSUME NEW a \in Alignments(p), NEW b \in Alignments(p), b <= a PROVE a % b = 0
  BY <1>5, <1>7, <1>8, LargerIsMultiple
<1> QED BY <1>5, <1>6, <1>8

\* What is aligned to the larger of two is aligned to both.
LEMMA LargerAlignment ==
  ASSUME NEW p, WellFormed(p), NEW a \in Alignments(p), NEW b \in Alignments(p)
  PROVE  /\ Max({a, b}) \in Alignments(p)
         /\ Max({a, b}) % a = 0 /\ Max({a, b}) % b = 0
<1>1. a \in Nat \ {0} /\ b \in Nat \ {0} /\ \A x, y \in Alignments(p) : y <= x => x % y = 0
  BY AlignmentsTyped
<1>2. Max({a, b}) = (IF a >= b THEN a ELSE b)
  BY <1>1, OfTwo
<1>3. CASE a >= b
  <2>1. b <= a /\ a <= a
    BY <1>1, <1>3
  <2> QED BY <1>1, <1>2, <1>3, <2>1
<1>4. CASE ~(a >= b)
  <2>1. a <= b /\ b <= b
    BY <1>1, <1>4
  <2> QED BY <1>1, <1>2, <1>4, <2>1
<1> QED BY <1>3, <1>4

-----------------------------------------------------------------------------
(* Where a request may begin.                                              *)

RequestTyped(p, q) ==
  /\ q.class \in {"standard", "interleaved"}
  /\ q.bytes \in Nat /\ q.region1Stride \in Nat /\ Len(q.assignments) \in Nat
  /\ q.alignment \in Alignments(p)
  /\ q.lifetime.first \in Int /\ q.lifetime.last \in Int
  /\ q.region1Stride # 0 => q.bytes > 0

BytesAt(q, start) ==
  IF start >= InterleavedBase /\ q.region1Stride # 0
    THEN q.region1Stride * Len(q.assignments) ELSE q.bytes

OneRegion(start, end) == start >= InterleavedBase \/ end <= InterleavedBase

\* From start to end is a place for the request within a range: in one region, aligned,
\* interleaved storage in region 1 and behind its offset, and nothing in the aperture
\* that lives when the host's packets pass.
Fits(p, q, range, start, end) ==
  /\ start \in Nat /\ end \in Nat /\ end = start + BytesAt(q, start)
  /\ range[1] <= start /\ end <= range[2] /\ OneRegion(start, end)
  /\ start % q.alignment = 0
  /\ q.region1Stride # 0
       => start % (IF start >= InterleavedBase THEN InterleavedElement ELSE Element) = 0
  /\ q.class = "interleaved" => start >= InterleavedBase + InterleavedOffset
  /\ InHostScratch(range) => q.lifetime.first # 0 /\ q.lifetime.last # Forever(p)

Aligned(d, start) == start \in d.first..d.last /\ start % d.alignment = 0

\* A domain of the request: aligned at both ends, and every aligned start in it fits.
GoodDomain(p, q, ranges, d) ==
  /\ d.first \in Nat /\ d.last \in Nat /\ d.bytes \in Nat /\ d.alignment \in Nat \ {0}
  /\ d.first <= d.last /\ d.first % d.alignment = 0 /\ d.last % d.alignment = 0
  /\ \A start \in Nat : Aligned(d, start) => \E r \in ranges : Fits(p, q, r, start, start + d.bytes)

\* AllocationRequest::domains() gives good domains only.
LEMMA DomainIsGood ==
  ASSUME NEW p, WellFormed(p), NEW q, RequestTyped(p, q), NEW range \in Nat \X Nat,
         NEW region1 \in BOOLEAN, NEW d, d = Domain(p, q, range, region1), d.first <= d.last
  PROVE  GoodDomain(p, q, {range}, d)
<1> DEFINE base == IF region1
                     THEN Max({range[1], InterleavedBase
                                         + IF q.class = "interleaved" THEN InterleavedOffset ELSE 0})
                     ELSE range[1]
           limit == IF region1 THEN range[2] ELSE Min({range[2], InterleavedBase})
           need == IF q.region1Stride = 0 THEN 1
                   ELSE IF region1 THEN InterleavedElement ELSE Element
           alignment == Max({q.alignment, need})
           bytes == IF region1 /\ q.region1Stride # 0
                      THEN q.region1Stride * Len(q.assignments) ELSE q.bytes
           excluded == \/ InHostScratch(range) /\ (q.lifetime.first = 0 \/ q.lifetime.last = Forever(p))
                       \/ ~region1 /\ q.class = "interleaved"
                       \/ limit < bytes
<1>1. /\ range[1] \in Nat /\ range[2] \in Nat
      /\ InterleavedBase \in Nat /\ InterleavedOffset \in Nat
  BY MemoryAssumption
<1>2. /\ q.alignment \in Alignments(p) /\ need \in Alignments(p)
      /\ q.bytes \in Nat /\ q.region1Stride \in Nat /\ Len(q.assignments) \in Nat
      /\ q.region1Stride # 0 => q.bytes > 0
  BY AlignmentsTyped DEF RequestTyped
<1>3. alignment \in Nat \ {0} /\ alignment % q.alignment = 0 /\ alignment % need = 0
      /\ q.alignment \in Nat \ {0} /\ need \in Nat \ {0}
  <2> HIDE DEF need
  <2> QED BY <1>2, LargerAlignment, AlignmentsTyped
<1>4. base \in Nat /\ range[1] <= base
      /\ (region1 => base >= InterleavedBase /\ (q.class = "interleaved" => base >= InterleavedBase + InterleavedOffset))
  <2> DEFINE floor == InterleavedBase + IF q.class = "interleaved" THEN InterleavedOffset ELSE 0
  <2>1. floor \in Nat /\ floor >= InterleavedBase
        /\ (q.class = "interleaved" => floor = InterleavedBase + InterleavedOffset)
    BY <1>1
  <2> HIDE DEF floor
  <2>2. Max({range[1], floor}) = (IF range[1] >= floor THEN range[1] ELSE floor)
    BY <1>1, <2>1, OfTwo
  <2> QED BY <1>1, <2>1, <2>2 DEF floor
<1>5. limit \in Nat /\ limit <= range[2] /\ (~region1 => limit <= InterleavedBase)
  <2>1. Min({range[2], InterleavedBase}) = (IF range[2] <= InterleavedBase THEN range[2] ELSE InterleavedBase)
    BY <1>1, OfTwo
  <2> QED BY <1>1, <2>1
<1>6. bytes \in Nat
  BY <1>2
<1>7. d = [first |-> AlignUp(base, alignment),
           last |-> IF excluded THEN -1 ELSE AlignDown(limit - bytes, alignment),
           alignment |-> alignment, bytes |-> bytes]
  BY DEF Domain
<1> HIDE DEF base, limit, need, alignment, bytes
<1>8. d.first = AlignUp(base, alignment) /\ d.alignment = alignment /\ d.bytes = bytes
      /\ (excluded => d.last = -1) /\ (~excluded => d.last = AlignDown(limit - bytes, alignment))
  <2> HIDE DEF excluded
  <2> QED BY <1>7
<1>9. d.first \in Int /\ d.first % alignment = 0 /\ base <= d.first
  <2>1. base \in Int
    BY <1>4
  <2> QED BY <1>3, <1>8, <2>1, RoundedUp
<1>10. d.first \in Nat
  BY <1>4, <1>9
<1>11. ~excluded
  BY <1>8, <1>10
<1>12. d.last \in Int /\ d.last % alignment = 0 /\ d.last <= limit - bytes
  <2>1. limit - bytes \in Int
    BY <1>5, <1>6
  <2> QED BY <1>3, <1>8, <1>11, <2>1, RoundedDown
<1>13. d.last \in Nat
  BY <1>10, <1>12
<1>14. ASSUME NEW start \in Nat, Aligned(d, start)
       PROVE  Fits(p, q, range, start, start + d.bytes)
  <2>1. start \in d.first..d.last /\ start % alignment = 0
    BY <1>8, <1>14 DEF Aligned
  <2>2. base <= start /\ start + bytes <= limit /\ start + bytes \in Nat
    BY <1>4, <1>5, <1>6, <1>9, <1>10, <1>12, <1>13, <2>1
  <2>3. start % q.alignment = 0 /\ start % need = 0
    <3>1. start \in Int
      OBVIOUS
    <3>2. start % q.alignment = 0
      BY <1>3, <2>1, <3>1, MultiplesTransitive
    <3>3. start % need = 0
      BY <1>3, <2>1, <3>1, MultiplesTransitive
    <3> QED BY <3>2, <3>3
  <2>4. q.region1Stride # 0 => (region1 <=> start >= InterleavedBase)
    <3>1. ASSUME q.region1Stride # 0, ~region1 PROVE ~(start >= InterleavedBase)
      <4>1. bytes = q.bytes /\ q.bytes > 0
        BY <1>2, <3>1 DEF bytes
      <4>2. start + bytes <= InterleavedBase
        BY <1>1, <1>5, <1>6, <2>2, <3>1
      <4> QED BY <1>1, <1>2, <4>1, <4>2
    <3>2. region1 => start >= InterleavedBase
      BY <1>1, <1>4, <2>2
    <3> QED BY <3>1, <3>2
  <2>5. bytes = BytesAt(q, start)
    <3>1. CASE q.region1Stride = 0
      BY <3>1 DEF bytes, BytesAt
    <3>2. CASE q.region1Stride # 0
      BY <3>2, <2>4 DEF bytes, BytesAt
    <3> QED BY <3>1, <3>2
  <2>6. range[1] <= start /\ start + bytes <= range[2]
    BY <1>1, <1>4, <1>5, <2>2
  <2>7. OneRegion(start, start + bytes)
    <3>1. region1 => start >= InterleavedBase
      BY <1>1, <1>4, <2>2
    <3>2. ~region1 => start + bytes <= InterleavedBase
      BY <1>1, <1>5, <2>2
    <3> QED BY <3>1, <3>2 DEF OneRegion
  <2>8. q.region1Stride # 0
          => start % (IF start >= InterleavedBase THEN InterleavedElement ELSE Element) = 0
    <3>1. SUFFICES ASSUME q.region1Stride # 0
                   PROVE start % (IF start >= InterleavedBase THEN InterleavedElement ELSE Element) = 0
      OBVIOUS
    <3>2. need = IF start >= InterleavedBase THEN InterleavedElement ELSE Element
      BY <2>4, <3>1 DEF need
    <3> QED BY <2>3, <3>2
  <2>9. q.class = "interleaved" => start >= InterleavedBase + InterleavedOffset
    <3>1. q.class = "interleaved" => region1
      BY <1>11
    <3> QED BY <1>1, <1>4, <2>2, <3>1
  <2>10. InHostScratch(range) => q.lifetime.first # 0 /\ q.lifetime.last # Forever(p)
    BY <1>11
  <2> QED BY <1>8, <2>2, <2>3, <2>5, <2>6, <2>7, <2>8, <2>9, <2>10 DEF Fits
<1>15. /\ d.bytes \in Nat /\ d.alignment \in Nat \ {0} /\ d.first % d.alignment = 0 /\ d.last % d.alignment = 0
  BY <1>3, <1>6, <1>8, <1>9, <1>12
<1> QED BY <1>10, <1>13, <1>14, <1>15 DEF GoodDomain

\* What fits in a part of a range fits in the range.
LEMMA FitsInLarger ==
  ASSUME NEW p, NEW q, NEW small \in Nat \X Nat, NEW range \in Nat \X Nat,
         range[1] <= small[1], small[2] <= range[2], HostScratch \in Nat \X Nat,
         NEW start, NEW end, Fits(p, q, small, start, end)
  PROVE  Fits(p, q, range, start, end)
<1>1. /\ small[1] \in Nat /\ small[2] \in Nat /\ range[1] \in Nat /\ range[2] \in Nat
      /\ HostScratch[1] \in Nat /\ HostScratch[2] \in Nat
  OBVIOUS
<1>2. start \in Nat /\ end \in Nat /\ small[1] <= start /\ end <= small[2]
  BY DEF Fits
<1>3. range[1] <= start /\ end <= range[2]
  BY <1>1, <1>2
<1>4. InHostScratch(range) => InHostScratch(small)
  BY <1>1 DEF InHostScratch
<1> QED BY <1>3, <1>4 DEF Fits

-----------------------------------------------------------------------------
(* Elements.                                                               *)

ElementAt(x) ==
  IF x < InterleavedBase THEN <<0, x \div Element>> ELSE <<1, x \div InterleavedElement>>

WordsApart(a, b) == \A x \in Int : ~(a[1] <= x /\ x < a[2] /\ b[1] <= x /\ x < b[2])

ElementsApart(a, b) ==
  \A x, y \in Int : a[1] <= x /\ x < a[2] /\ b[1] <= y /\ y < b[2] => ElementAt(x) # ElementAt(y)

\* Words of one element lie between the element's bounds.
LEMMA SameBlock ==
  ASSUME NEW x \in Int, NEW y \in Int, NEW m \in Nat \ {0}, x \div m = y \div m,
         NEW s \in Int, NEW e \in Int, s <= x, x < e
  PROVE  AlignDown(s, m) <= y /\ y < AlignUp(e, m)
<1> DEFINE k == x \div m
           low == AlignDown(s, m)
           high == AlignUp(e, m)
<1>1. /\ k \in Int /\ x = (m * k) + (x % m) /\ x % m \in 0..(m - 1)
      /\ y = (m * k) + (y % m) /\ y % m \in 0..(m - 1)
  BY DivMod
<1>2. low \in Int /\ low % m = 0 /\ low <= s /\ high \in Int /\ high % m = 0 /\ e <= high
  BY RoundedUp, RoundedDown
<1> HIDE DEF k, low, high
<1>3. m * k = k * m /\ k * m \in Int
  BY <1>1
<1>4. k * m <= x /\ x < (k * m) + m /\ k * m <= y /\ y < (k * m) + m
  BY <1>1, <1>3
<1>5. low < (k * m) + m /\ high > k * m
  BY <1>2, <1>3, <1>4
<1>6. low <= k * m /\ high >= (k * m) + m
  BY <1>1, <1>2, <1>5, NextMultiple
<1> QED BY <1>2, <1>3, <1>4, <1>6 DEF low, high

\* Clear of the elements a span touches: no element in common with it.
LEMMA ClearOfElements ==
  ASSUME NEW s \in Nat, NEW e \in Nat, OneRegion(s, e), NEW st \in Int, NEW en \in Int,
         \A f \in ElementSpans(s, e) : st >= f[2] \/ f[1] >= en
  PROVE  ElementsApart(<<s, e>>, <<st, en>>)
<1>1. SUFFICES ASSUME NEW x \in Int, NEW y \in Int, s <= x, x < e, st <= y, y < en,
                      ElementAt(x) = ElementAt(y)
               PROVE  FALSE
  BY DEF ElementsApart
<1>2. InterleavedBase \in Nat /\ Element \in Nat \ {0} /\ InterleavedElement \in Nat \ {0}
  BY MemoryAssumption
<1> DEFINE region0 == <<s, Min({e, InterleavedBase})>>
           region1 == <<Max({s, InterleavedBase}), e>>
<1>0. s \in Int /\ e \in Int /\ InterleavedBase \in Int
  BY <1>2
<1>3. Min({e, InterleavedBase}) = (IF e <= InterleavedBase THEN e ELSE InterleavedBase)
      /\ Max({s, InterleavedBase}) = (IF s >= InterleavedBase THEN s ELSE InterleavedBase)
  BY <1>0, OfTwo
<1>4. CASE x < InterleavedBase
  <2>1. y < InterleavedBase /\ x \div Element = y \div Element
    BY <1>1, <1>4 DEF ElementAt
  <2>2. e <= InterleavedBase /\ s < e
    BY <1>1, <1>2, <1>4 DEF OneRegion
  <2>3. region0 = <<s, e>>
    BY <1>3, <2>2
  <2>4. <<AlignDown(s, Element), AlignUp(e, Element)>> \in ElementSpans(s, e)
    <3>1. region0[1] = s /\ region0[2] = e /\ region0[1] < region0[2]
      BY <2>2, <2>3
    <3> HIDE DEF region0
    <3>2. region0 \in {q \in {region0} : q[1] < q[2]}
      BY <3>1
    <3> QED BY <3>1, <3>2 DEF ElementSpans, region0
  <2>5. AlignDown(s, Element) <= y /\ y < AlignUp(e, Element)
    BY <1>0, <1>1, <1>2, <2>1, SameBlock
  <2>6. AlignDown(s, Element) \in Int /\ AlignUp(e, Element) \in Int
    BY <1>0, <1>2, RoundedUp, RoundedDown
  <2>7. st >= AlignUp(e, Element) \/ AlignDown(s, Element) >= en
    BY <2>4
  <2> QED BY <1>1, <2>5, <2>6, <2>7
<1>5. CASE ~(x < InterleavedBase)
  <2>1. ~(y < InterleavedBase) /\ x \div InterleavedElement = y \div InterleavedElement
    BY <1>1, <1>5 DEF ElementAt
  <2>2. s >= InterleavedBase /\ s < e
    BY <1>1, <1>2, <1>5 DEF OneRegion
  <2>3. region1 = <<s, e>>
    BY <1>3, <2>2
  <2>4. <<AlignDown(s, InterleavedElement), AlignUp(e, InterleavedElement)>> \in ElementSpans(s, e)
    <3>1. region1[1] = s /\ region1[2] = e /\ region1[1] < region1[2]
      BY <2>2, <2>3
    <3> HIDE DEF region1
    <3>2. region1 \in {q \in {region1} : q[1] < q[2]}
      BY <3>1
    <3> QED BY <3>1, <3>2 DEF ElementSpans, region1
  <2>5. AlignDown(s, InterleavedElement) <= y /\ y < AlignUp(e, InterleavedElement)
    BY <1>0, <1>1, <1>2, <2>1, SameBlock
  <2>6. AlignDown(s, InterleavedElement) \in Int /\ AlignUp(e, InterleavedElement) \in Int
    BY <1>0, <1>2, RoundedUp, RoundedDown
  <2>7. st >= AlignUp(e, InterleavedElement) \/ AlignDown(s, InterleavedElement) >= en
    BY <2>4
  <2> QED BY <1>1, <2>5, <2>6, <2>7
<1> QED BY <1>4, <1>5

\* The element spans of a range are ranges of natural numbers, not far above it.
LEMMA ElementSpansTyped ==
  ASSUME NEW limit \in Nat, NEW s \in Nat, NEW e \in Nat, e <= limit
  PROVE  ElementSpans(s, e) \in SUBSET Bounds((limit + Element) + InterleavedElement)
<1>1. InterleavedBase \in Nat /\ Element \in Nat \ {0} /\ InterleavedElement \in Nat \ {0}
  BY MemoryAssumption
<1> DEFINE top == (limit + Element) + InterleavedElement
<1>2. \A m \in {Element, InterleavedElement}, a, b \in Nat : a < b /\ b <= limit =>
        <<AlignDown(a, m), AlignUp(b, m)>> \in Bounds(top)
  <2>1. TAKE m \in {Element, InterleavedElement}, a \in Nat, b \in Nat
  <2>2. HAVE a < b /\ b <= limit
  <2>3. m \in Nat \ {0} /\ m <= Element + InterleavedElement /\ a \in Int /\ b \in Int
    BY <1>1
  <2>4. /\ AlignDown(a, m) \in Int /\ AlignDown(a, m) <= a /\ AlignUp(b, m) \in Int
        /\ b <= AlignUp(b, m) /\ AlignUp(b, m) < b + m
    BY <2>3, RoundedUp, RoundedDown
  <2>5. AlignDown(a, m) >= 0
    <3>1. AlignDown(a, m) % m = 0 /\ a < AlignDown(a, m) + m
      BY <2>3, RoundedDown
    <3>2. AlignDown(a, m) < ((-1) * m) + m => AlignDown(a, m) <= (-1) * m
      BY <2>3, <2>4, <3>1, NextMultiple
    <3>3. (-1) * m = -m
      BY <2>3
    <3> DEFINE v == AlignDown(a, m)
               w == (-1) * m
    <3>4. v \in Int /\ a < v + m /\ (v < w + m => v <= w) /\ w = -m /\ m \in Nat \ {0}
      BY <2>3, <2>4, <3>1, <3>2, <3>3
    <3> HIDE DEF v, w
    <3>5. v >= 0
      BY <3>4
    <3> QED BY <3>5 DEF v
  <2> QED BY <1>1, <2>2, <2>3, <2>4, <2>5 DEF Bounds
<1> DEFINE low0 == Min({e, InterleavedBase})
           high1 == Max({s, InterleavedBase})
<1>3. low0 \in Nat /\ low0 <= e /\ high1 \in Nat
  <2>1. e \in Int /\ s \in Int /\ InterleavedBase \in Int
    BY <1>1
  <2>2. /\ low0 = (IF e <= InterleavedBase THEN e ELSE InterleavedBase)
        /\ high1 = (IF s >= InterleavedBase THEN s ELSE InterleavedBase)
    BY <2>1, OfTwo
  <2> HIDE DEF low0, high1
  <2> QED BY <1>1, <2>2
<1>4. low0 <= limit
  BY <1>3
<1> HIDE DEF low0, high1, top
<1>5. ElementSpans(s, e) \subseteq
        {<<AlignDown(r[1], Element), AlignUp(r[2], Element)>> : r \in {q \in {<<s, low0>>} : q[1] < q[2]}}
        \cup {<<AlignDown(r[1], InterleavedElement), AlignUp(r[2], InterleavedElement)>> :
             r \in {q \in {<<high1, e>>} : q[1] < q[2]}}
  BY DEF ElementSpans, low0, high1
<1>6. ASSUME NEW f \in ElementSpans(s, e) PROVE f \in Bounds(top)
  <2>1. \/ f = <<AlignDown(s, Element), AlignUp(low0, Element)>> /\ s < low0
        \/ f = <<AlignDown(high1, InterleavedElement), AlignUp(e, InterleavedElement)>> /\ high1 < e
    BY <1>5
  <2> QED BY <1>2, <1>3, <1>4, <2>1
<1> QED BY <1>6 DEF top

-----------------------------------------------------------------------------
(* Finite sets.                                                            *)

ImageOf(S, f) == {f[x] : x \in S}

\* The image of a finite set is finite.
LEMMA ImageFinite ==
  ASSUME NEW S, IsFiniteSet(S), NEW T, NEW f \in [S -> T]
  PROVE  IsFiniteSet(ImageOf(S, f))
<1> DEFINE U == {f[x] : x \in S}
<1>1. f \in Surjection(S, U)
  BY DEF Surjection
<1> HIDE DEF U
<1>2. IsFiniteSet(U)
  BY <1>1, FS_Surjection
<1> QED BY <1>2 DEF U, ImageOf

\* So is a finite union of finite sets.
LEMMA UnionFinite ==
  ASSUME NEW S, IsFiniteSet(S), NEW T, NEW f \in [S -> T], \A x \in S : IsFiniteSet(f[x])
  PROVE  IsFiniteSet(UNION ImageOf(S, f))
<1> DEFINE U == ImageOf(S, f)
<1>1. IsFiniteSet(U)
  BY ImageFinite
<1>2. \A V \in U : IsFiniteSet(V)
  BY DEF ImageOf
<1> HIDE DEF U
<1>3. IsFiniteSet(UNION U)
  BY <1>1, <1>2, FS_UNION
<1> QED BY <1>3 DEF U

\* And the domain of a sequence.
LEMMA DomainFinite ==
  ASSUME NEW T, NEW s \in Seq(T)
  PROVE  IsFiniteSet(DOMAIN s) /\ DOMAIN s = 1..Len(s) /\ Len(s) \in Nat
<1>1. DOMAIN s = 1..Len(s) /\ Len(s) \in Nat
  OBVIOUS
<1>2. IsFiniteSet(1..Len(s))
  <2>1. 1 \in Int /\ Len(s) \in Int
    BY <1>1
  <2> QED BY <2>1, FS_Interval
<1> QED BY <1>1, <1>2

\* A program has finitely many shards, needs, sequences and auxiliary storages.
LEMMA ProgramFinite ==
  ASSUME NEW p, WellFormed(p)
  PROVE  /\ IsFiniteSet(Shards(p)) /\ IsFiniteSet(Needs(p)) /\ Needs(p) \subseteq NeedsOf(p)
         /\ IsFiniteSet(Iterated(p)) /\ IsFiniteSet(DOMAIN p.auxiliary)
<1>1. IsFiniteSet(Shards(p))
  <2>1. p.shards \in Seq(ShardOf(p))
    BY DEF WellFormed, ShardOf
  <2> HIDE DEF ShardOf
  <2>2. IsFiniteSet(1..Len(p.shards))
    BY <2>1, DomainFinite
  <2> QED BY <2>2 DEF Shards
<1>2. IsFiniteSet(DOMAIN p.work)
  <2>1. p.work \in Seq(WorkOf(p))
    BY DEF WellFormed
  <2> QED BY <2>1, DomainFinite
<1>3. Needs(p) \subseteq NeedsOf(p)
  <2>1. \A e \in DOMAIN p.work : p.work[e] \in WorkOf(p)
    BY DEF WellFormed
  <2>2. \A w \in WorkOf(p) : w.needs \subseteq NeedsOf(p)
    BY DEF WorkOf
  <2> QED BY <2>1, <2>2 DEF Needs
<1>4. IsFiniteSet(Needs(p))
  <2> DEFINE f == [e \in DOMAIN p.work |-> p.work[e].needs]
  <2>1. f \in [DOMAIN p.work -> {p.work[e].needs : e \in DOMAIN p.work}]
    OBVIOUS
  <2>2. \A e \in DOMAIN p.work : IsFiniteSet(f[e])
    BY DEF WellFormed
  <2>3. Needs(p) = UNION ImageOf(DOMAIN p.work, f)
    BY DEF Needs, ImageOf
  <2> HIDE DEF f
  <2>4. IsFiniteSet(UNION ImageOf(DOMAIN p.work, f))
    BY <1>2, <2>1, <2>2, UnionFinite
  <2> QED BY <2>3, <2>4
<1>5. IsFiniteSet(Iterated(p))
  <2> DEFINE part(r) == {<<r, i>> : i \in DOMAIN p.repeats[r].iterated}
             f == [r \in DOMAIN p.repeats |-> part(r)]
  <2>1. p.repeats \in Seq(RepeatsOf(p))
    BY DEF WellFormed
  <2>2. IsFiniteSet(DOMAIN p.repeats) /\ \A r \in DOMAIN p.repeats : p.repeats[r] \in RepeatsOf(p)
    <3>1. \A r \in DOMAIN p.repeats : p.repeats[r] \in RepeatsOf(p)
      BY <2>1
    <3> QED BY <2>1, <3>1, DomainFinite
  <2>3. f \in [DOMAIN p.repeats -> {part(r) : r \in DOMAIN p.repeats}]
    OBVIOUS
  <2>4. ASSUME NEW r \in DOMAIN p.repeats PROVE IsFiniteSet(f[r])
    <3>1. p.repeats[r].iterated \in Seq(Sequenced(p))
      BY <2>2 DEF RepeatsOf, Sequenced
    <3> DEFINE D == DOMAIN p.repeats[r].iterated
               g == [i \in D |-> <<r, i>>]
    <3>2. IsFiniteSet(D)
      BY <3>1, DomainFinite
    <3>3. g \in [D -> {<<r, i>> : i \in D}] /\ f[r] = ImageOf(D, g)
      BY DEF ImageOf
    <3> HIDE DEF D, g
    <3>4. IsFiniteSet(ImageOf(D, g))
      BY <3>2, <3>3, ImageFinite
    <3> QED BY <3>3, <3>4
  <2>5. Iterated(p) = UNION ImageOf(DOMAIN p.repeats, f)
    BY DEF Iterated, ImageOf
  <2> HIDE DEF f
  <2>6. IsFiniteSet(UNION ImageOf(DOMAIN p.repeats, f))
    BY <2>2, <2>3, <2>4, UnionFinite
  <2> QED BY <2>5, <2>6
<1>6. IsFiniteSet(DOMAIN p.auxiliary)
  <2>1. p.auxiliary \in Seq([bytes : Nat, alignment : Nat \ {0}, first : Nat, last : Nat])
    BY DEF WellFormed
  <2> QED BY <2>1, DomainFinite
<1> QED BY <1>1, <1>3, <1>4, <1>5, <1>6

-----------------------------------------------------------------------------
(* Roots: where a member stands, how much they need together.              *)

\* A sequence's inputs and argument are shards, its argument a member of its first root.
LEMMA GroupTyped ==
  ASSUME NEW p, WellFormed(p), NEW g \in Iterated(p)
  PROVE  /\ Group(p, g).inputs \in Seq(Shards(p)) /\ Group(p, g).argument \in Shards(p)
         /\ DOMAIN Group(p, g).inputs = 1..Len(Group(p, g).inputs)
         /\ Len(Group(p, g).inputs) \in Nat /\ Iterations <= Len(Group(p, g).inputs)
         /\ 1 \in DOMAIN Group(p, g).inputs
         /\ \A i \in DOMAIN Group(p, g).inputs : Group(p, g).inputs[i] \in Shards(p)
         /\ g \in Nat \X Nat
<1>1. PICK r \in DOMAIN p.repeats : \E i \in DOMAIN p.repeats[r].iterated : g = <<r, i>>
  BY DEF Iterated
<1>2. PICK i \in DOMAIN p.repeats[r].iterated : g = <<r, i>>
  BY <1>1
<1>3. p.repeats \in Seq(RepeatsOf(p))
  BY DEF WellFormed
<1>4. p.repeats[r] \in RepeatsOf(p) /\ r \in Nat
  BY <1>3
<1>5. p.repeats[r].iterated \in Seq(Sequenced(p))
  BY <1>4 DEF RepeatsOf, Sequenced
<1>6. p.repeats[r].iterated[i] \in Sequenced(p) /\ i \in Nat
  BY <1>5
<1>7. Group(p, g) = p.repeats[r].iterated[i]
  BY <1>2 DEF Group
<1>8. Group(p, g).inputs \in Seq(Shards(p)) /\ Group(p, g).argument \in Shards(p)
  BY <1>6, <1>7 DEF Sequenced
<1>9. Iterations <= Len(Group(p, g).inputs) /\ Iterations \in Nat \ {0}
  <2>1. Len(Group(p, g).inputs) >= Iterations /\ Len(Group(p, g).inputs) \in Nat
    BY <1>8 DEF WellFormed
  <2> QED BY <2>1, MemoryAssumption
<1> DEFINE n == Len(Group(p, g).inputs)
<1>10. n \in Nat /\ DOMAIN Group(p, g).inputs = 1..n
       /\ \A k \in 1..n : Group(p, g).inputs[k] \in Shards(p)
  BY <1>8
<1>11. 1 \in 1..n
  BY <1>9, <1>10
<1> QED BY <1>2, <1>4, <1>6, <1>8, <1>9, <1>10, <1>11

\* What the types of alias sets say of their roots and members.
LEMMA SetsTyped ==
  ASSUME NEW p, NEW sets \in SetsOf(p)
  PROVE  /\ sets.root \in [Shards(p) -> Shards(p)] /\ sets.offset \in [Shards(p) -> Int]
         /\ Roots(sets) = {sets.root[s] : s \in Shards(p)} /\ Roots(sets) \subseteq Shards(p)
         /\ \A root : Members(sets, root) = {s \in Shards(p) : sets.root[s] = root}
  BY DEF SetsOf, Roots, Range, Members

\* A member's offset counts from the lowest member.
LEMMA MemberOffsets ==
  ASSUME NEW p, WellFormed(p), NEW sets \in SetsOf(p), NEW s \in Shards(p)
  PROVE  MemberOffset(sets, s) \in Nat
<1> DEFINE M == Members(sets, sets.root[s])
           f == [x \in M |-> sets.offset[x]]
           O == ImageOf(M, f)
<1>1. M \in SUBSET Shards(p) /\ s \in M /\ sets.offset \in [Shards(p) -> Int]
  BY SetsTyped
<1>2. IsFiniteSet(M)
  BY <1>1, ProgramFinite, FS_Subset
<1>3. f \in [M -> Int] /\ {sets.offset[x] : x \in M} = O
  BY <1>1 DEF ImageOf
<1> HIDE DEF M, f
<1>4. IsFiniteSet(O)
  BY <1>2, <1>3, ImageFinite
<1>5. O \subseteq Int /\ sets.offset[s] \in O
  BY <1>1, <1>3 DEF ImageOf
<1> HIDE DEF O
<1>6. Min(O) \in O /\ Min(O) <= sets.offset[s]
  BY <1>4, <1>5, Extremes
<1>7. MemberOffset(sets, s) = sets.offset[s] - Min(O)
  <2>1. MemberOffset(sets, s) = sets.offset[s] - Min({sets.offset[x] : x \in M})
    BY Zenon DEF MemberOffset, M
  <2>2. {sets.offset[x] : x \in M} = O
    BY <1>3
  <2> DEFINE C == {sets.offset[x] : x \in M}
  <2>3. C = O /\ MemberOffset(sets, s) = sets.offset[s] - Min(C)
    BY <2>1, <2>2
  <2> HIDE DEF C
  <2>4. Min(C) = Min(O)
    BY <2>3
  <2> QED BY <2>3, <2>4
<1>8. Min(O) \in Int /\ sets.offset[s] \in Int
  BY <1>5, <1>6
<1> QED BY <1>6, <1>7, <1>8

\* The tail and the alignment of a root serve each need of its members.
LEMMA RootNeeds ==
  ASSUME NEW p, WellFormed(p), NEW sets \in SetsOf(p), NEW root
  PROVE  /\ RootTail(p, sets, root) \in Nat /\ RootAlignment(p, sets, root) \in Alignments(p)
         /\ \A n \in Needs(p) : sets.root[n.shard] = root =>
              n.tail <= RootTail(p, sets, root) /\ RootAlignment(p, sets, root) % n.alignment = 0
<1> DEFINE N == {n \in Needs(p) : sets.root[n.shard] = root}
           f == [n \in N |-> n.alignment]
           h == [n \in N |-> n.tail]
           A == ImageOf(N, f)
           T == ImageOf(N, h)
<1>1. N \in SUBSET Needs(p) /\ IsFiniteSet(Needs(p)) /\ Needs(p) \subseteq NeedsOf(p)
  BY ProgramFinite
<1>2. IsFiniteSet(N)
  BY <1>1, FS_Subset
<1>3. \A n \in N : n.alignment \in Nat \ {0} /\ n.tail \in Nat /\ n.alignment \in Alignments(p)
  BY <1>1 DEF NeedsOf, Alignments
<1>4. f \in [N -> Int] /\ h \in [N -> Int]
  BY <1>3
<1>5. {n.alignment : n \in N} = A /\ {n.tail : n \in N} = T
  BY DEF ImageOf
<1>6. \A n \in N : f[n] = n.alignment /\ h[n] = n.tail
  OBVIOUS
<1> HIDE DEF f, h
<1>7. IsFiniteSet(A) /\ IsFiniteSet(T)
  <2> HIDE DEF N
  <2> QED BY <1>2, <1>4, ImageFinite
<1>8. IsFiniteSet(A \cup {1})
  BY <1>7, FS_AddElement
<1>9. A \cup {1} \subseteq Int /\ A \cup {1} # {} /\ T \subseteq Int
  BY <1>4 DEF ImageOf
<1>10. A \cup {1} \subseteq Alignments(p) /\ T \subseteq Nat
  BY <1>3, <1>6, AlignmentsTyped DEF ImageOf
<1>11. /\ Max(A \cup {1}) \in A \cup {1}
       /\ \A y \in A \cup {1} : y <= Max(A \cup {1})
  <2> HIDE DEF A
  <2> QED BY <1>8, <1>9, Extremes
<1>12. RootAlignment(p, sets, root) = Max(A \cup {1})
  BY <1>5, <1>9 DEF RootAlignment, Most
<1>13. RootTail(p, sets, root) \in Nat /\ \A y \in T : y <= RootTail(p, sets, root)
  <2>1. RootTail(p, sets, root) = IF T = {} THEN 0 ELSE Max(T)
    BY <1>5 DEF RootTail, Most
  <2> HIDE DEF T
  <2>2. CASE T = {}
    BY <2>1, <2>2
  <2>3. CASE T # {}
    <3>1. Max(T) \in T /\ \A y \in T : y <= Max(T)
      BY <1>7, <1>9, <2>3, Extremes
    <3> QED BY <1>10, <2>1, <2>3, <3>1
  <2> QED BY <2>2, <2>3
<1>14. ASSUME NEW n \in Needs(p), sets.root[n.shard] = root
       PROVE  n.tail <= RootTail(p, sets, root) /\ RootAlignment(p, sets, root) % n.alignment = 0
  <2>1. n \in N
    BY <1>14
  <2>2. n.alignment \in A /\ n.tail \in T
    BY <1>6, <2>1 DEF ImageOf
  <2>3. n.alignment <= Max(A \cup {1}) /\ n.alignment \in Alignments(p) /\ Max(A \cup {1}) \in Alignments(p)
    BY <1>10, <1>11, <2>2
  <2> QED BY <1>12, <1>13, <2>2, <2>3, AlignmentsTyped
<1> QED BY <1>10, <1>11, <1>12, <1>13, <1>14

\* A root's allocation holds every member with the tail.
LEMMA RootHolds ==
  ASSUME NEW p, WellFormed(p), NEW sets \in SetsOf(p), NEW root \in Roots(sets)
  PROVE  /\ AllocationBytes(p, sets, root) \in Nat
         /\ \A s \in Shards(p) : sets.root[s] = root =>
              (MemberOffset(sets, s) + p.shards[s].size) + RootTail(p, sets, root)
                <= AllocationBytes(p, sets, root)
<1> DEFINE M == Members(sets, root)
           f == [s \in M |-> MemberOffset(sets, s) + p.shards[s].size]
           B == ImageOf(M, f)
<1>1. M \in SUBSET Shards(p) /\ M # {} /\ \A s \in Shards(p) : sets.root[s] = root => s \in M
  <2>1. M = {s \in Shards(p) : sets.root[s] = root} /\ root \in {sets.root[s] : s \in Shards(p)}
    BY SetsTyped
  <2> HIDE DEF M
  <2> QED BY <2>1
<1>2. IsFiniteSet(M)
  BY <1>1, ProgramFinite, FS_Subset
<1>3. \A s \in M : MemberOffset(sets, s) + p.shards[s].size \in Nat
  <2>1. TAKE s \in M
  <2>2. s \in Shards(p)
    BY <1>1
  <2>3. MemberOffset(sets, s) \in Nat /\ p.shards[s].size \in Nat
    BY <2>2, MemberOffsets, ShardTyped
  <2> QED BY <2>3
<1>4. f \in [M -> Nat] /\ {MemberOffset(sets, s) + p.shards[s].size : s \in M} = B
  BY <1>3 DEF ImageOf
<1>5. \A s \in M : f[s] = MemberOffset(sets, s) + p.shards[s].size
  OBVIOUS
<1> HIDE DEF f
<1>6. B \subseteq Int /\ B \subseteq Nat /\ B # {}
  BY <1>1, <1>4 DEF ImageOf
<1>7. IsFiniteSet(B)
  <2> HIDE DEF M
  <2> QED BY <1>2, <1>4, ImageFinite
<1>8. \A s \in M : f[s] \in B
  BY DEF ImageOf
<1>9. AllocationBytes(p, sets, root) = Max(B) + RootTail(p, sets, root)
  BY <1>4 DEF AllocationBytes
<1> HIDE DEF B, M
<1>10. Max(B) \in B /\ \A y \in B : y <= Max(B)
  BY <1>6, <1>7, Extremes
<1>11. RootTail(p, sets, root) \in Nat
  BY RootNeeds
<1>12. Max(B) \in Nat
  BY <1>6, <1>10
<1>13. ASSUME NEW s \in Shards(p), sets.root[s] = root
       PROVE  (MemberOffset(sets, s) + p.shards[s].size) + RootTail(p, sets, root)
                <= AllocationBytes(p, sets, root)
  <2>1. s \in M
    BY <1>1, <1>13
  <2>2. MemberOffset(sets, s) + p.shards[s].size <= Max(B)
    BY <1>5, <1>8, <1>10, <2>1
  <2>3. MemberOffset(sets, s) + p.shards[s].size \in Nat
    BY <1>3, <2>1
  <2> DEFINE v == MemberOffset(sets, s) + p.shards[s].size
  <2> HIDE DEF v
  <2>4. v + RootTail(p, sets, root) <= Max(B) + RootTail(p, sets, root)
    BY <1>11, <1>12, <2>2, <2>3 DEF v
  <2> QED BY <1>9, <2>4 DEF v
<1> QED BY <1>9, <1>11, <1>12, <1>13

-----------------------------------------------------------------------------
(* The requests.                                                           *)

\* Where the i-th root of a request begins when the request begins at start, and its bytes.
Offset(q, start, i) ==
  IF start >= InterleavedBase /\ q.region1Stride # 0
    THEN q.region1Stride * (i - 1) ELSE q.assignments[i].offset

\* What the m-th root needs, where the i-th stands.
Room(p, sets, q, start, i, m) ==
  <<start + Offset(q, start, i),
    (start + Offset(q, start, i)) + AllocationBytes(p, sets, q.assignments[m].root)>>

Inside(p, sets, q, start, end, i, m) ==
  /\ Room(p, sets, q, start, i, m)[1] \in Nat /\ Room(p, sets, q, start, i, m)[2] \in Nat
  /\ start <= Room(p, sets, q, start, i, m)[1] /\ Room(p, sets, q, start, i, m)[2] <= end
  /\ Room(p, sets, q, start, i, m)[1] % RootAlignment(p, sets, q.assignments[m].root) = 0

RoomsApart(p, sets, q, start, i, m, j, n) ==
  /\ WordsApart(Room(p, sets, q, start, i, m), Room(p, sets, q, start, j, n))
  /\ SeparateMembers(p, sets, RootsOf(q))
       => ElementsApart(Room(p, sets, q, start, i, m), Room(p, sets, q, start, j, n))

\* What a request says of its roots: wherever it fits, each has a slot of its own in it,
\* with room for what any other of them needs, as an iterated argument does in turn;
\* and slots of members that are operands at the same time share no element.
Slotted(p, sets, q) ==
  \A range, start, end : Fits(p, q, range, start, end) =>
    /\ \A i, m \in DOMAIN q.assignments : Inside(p, sets, q, start, end, i, m)
    /\ \A i, m, j, n \in DOMAIN q.assignments : i # j => RoomsApart(p, sets, q, start, i, m, j, n)

ConflictsOf(p, sets, q) ==
  /\ \A root \in RootsOf(q) : \A other \in Conflicts(p, sets, root) \ RootsOf(q) : other \in q.conflicts
  /\ \A other \in q.conflicts : \E root \in RootsOf(q) : other \in Conflicts(p, sets, root)

\* A request is for roots or for auxiliary storage.
Identified(q) ==
  \/ q.auxiliary = 0 /\ RootsOf(q) # {}
  \/ /\ q.auxiliary # 0 /\ RootsOf(q) = {} /\ q.region1Stride = 0
     /\ q.place = <<2, q.auxiliary, 0>>

RequestSound(p, sets, q) ==
  /\ RequestTyped(p, q) /\ Slotted(p, sets, q) /\ ConflictsOf(p, sets, q)
  /\ DOMAIN q.assignments = 1..Len(q.assignments)
  /\ \A i \in DOMAIN q.assignments : q.assignments[i].root \in Roots(sets)
  /\ \A i, j \in DOMAIN q.assignments : q.assignments[i].root = q.assignments[j].root => i = j
  /\ q.place \in [1..3 -> Int] /\ Identified(q)

\* Apart is symmetric.
LEMMA WordsApartBothWays ==
  ASSUME NEW a, NEW b, WordsApart(a, b)
  PROVE  WordsApart(b, a)
  BY DEF WordsApart

\* In elements as well.
LEMMA ElementsApartBothWays ==
  ASSUME NEW a, NEW b, ElementsApart(a, b)
  PROVE  ElementsApart(b, a)
  BY DEF ElementsApart

\* Steps of equal length.
LEMMA Steps ==
  ASSUME NEW step \in Nat, NEW i \in Nat, NEW j \in Nat, i < j
  PROVE  /\ step * i \in Nat /\ step * j \in Nat /\ (step * i) + step <= step * j
<1>1. PICK k \in Nat : j = (i + 1) + k
  <2>1. j - (i + 1) \in Nat /\ j = (i + 1) + (j - (i + 1))
    OBVIOUS
  <2> QED BY <2>1
<1>2. step * j = ((step * i) + step) + (step * k) /\ step * k \in Nat /\ step * i \in Nat
  BY <1>1
<1> QED BY <1>2

\* An element boundary between two words puts them into different elements.
LEMMA AcrossBoundary ==
  ASSUME NEW x \in Int, NEW y \in Int, NEW m \in Nat \ {0}, NEW b \in Int, b % m = 0, x < b, b <= y
  PROVE  x \div m # y \div m
<1> DEFINE k == x \div m
<1>1. k \in Int /\ x = (m * k) + (x % m) /\ x % m \in 0..(m - 1) /\ m * k = k * m
  BY DivMod
<1>2. ASSUME y \div m = k PROVE y < (k * m) + m
  <2>1. y = (m * k) + (y % m) /\ y % m \in 0..(m - 1)
    BY <1>2, DivMod
  <2> HIDE DEF k
  <2> QED BY <1>1, <2>1
<1>3. b > k * m => b >= (k * m) + m
  BY <1>1, NextMultiple
<1> HIDE DEF k
<1>4. b > k * m /\ k * m \in Int
  BY <1>1
<1>5. ASSUME y \div m = k PROVE FALSE
  BY <1>2, <1>3, <1>4, <1>5
<1> QED BY <1>5 DEF k

Row(start, step, k, bytes) == <<start + (step * k), (start + (step * k)) + bytes>>
ElementFor(start) == IF start >= InterleavedBase THEN InterleavedElement ELSE Element

\* Two slots of a row, from step to step, do not meet, nor their elements where the steps
\* are whole elements.
LEMMA RowApart ==
  ASSUME NEW start \in Nat, NEW step \in Nat, NEW i \in Nat, NEW j \in Nat, i < j,
         NEW a \in Nat, NEW b \in Nat, a <= step
  PROVE  /\ WordsApart(Row(start, step, i, a), Row(start, step, j, b))
         /\ start % ElementFor(start) = 0 /\ step % ElementFor(start) = 0
              /\ OneRegion(start, Row(start, step, j, b)[2])
              => ElementsApart(Row(start, step, i, a), Row(start, step, j, b))
<1> DEFINE m == ElementFor(start)
           s == Row(start, step, i, a)
           t == Row(start, step, j, b)
<1>0. m \in Nat \ {0} /\ m = ElementFor(start)
  BY MemoryAssumption DEF ElementFor
<1> HIDE DEF m
<1> DEFINE u == start + (step * i)
           v == start + (step * j)
<1>1. step * i \in Nat /\ step * j \in Nat /\ (step * i) + step <= step * j
  BY Steps
<1>2. u \in Nat /\ v \in Nat /\ u + a <= v /\ start <= u
  BY <1>1
<1>3. s[1] = u /\ s[2] = u + a /\ t[1] = v /\ t[2] = v + b
  BY DEF Row
<1> HIDE DEF s, t
<1>4. WordsApart(s, t)
  <2> HIDE DEF u, v
  <2> QED BY <1>2, <1>3 DEF WordsApart
<1>5. ASSUME start % m = 0, step % m = 0, OneRegion(start, t[2])
      PROVE  ElementsApart(s, t)
  <2>1. v % m = 0
    <3>1. step * j = j * step /\ j * step \in Int /\ step \in Int /\ start \in Int
      BY <1>1
    <3>2. (j * step) % m = 0
      <4>1. step = m * (step \div m) /\ step \div m \in Int
        <5>1. step \in Int
          OBVIOUS
        <5>2. step % m = 0
          BY <1>5, Zenon
        <5>3. step = (m * (step \div m)) + (step % m) /\ step \div m \in Int
          BY <1>0, <5>1, DivMod
        <5> DEFINE k == step \div m
                   r == step % m
        <5>4. step = (m * k) + r /\ k \in Int /\ r = 0
          BY <5>2, <5>3
        <5> HIDE DEF k, r
        <5>5. step = m * k
          BY <1>0, <5>4
        <5> QED BY <5>4, <5>5 DEF k
      <4> DEFINE k == step \div m
      <4> HIDE DEF k
      <4>2. step = m * k /\ k \in Int
        BY <4>1 DEF k
      <4>3. j * step = (j * k) * m /\ j * k \in Int
        BY <1>0, <4>2
      <4> DEFINE l == j * k
      <4>4. l \in Int /\ j * step = l * m
        BY <4>3
      <4> HIDE DEF l
      <4> QED BY <1>0, <4>4, MultipleOf
    <3>3. (step * j) % m = 0 /\ step * j \in Int
      BY <3>1, <3>2
    <3> QED BY <1>0, <1>5, <3>1, <3>3, MultiplesAdd
  <2>2. ASSUME NEW x \in Int, NEW y \in Int, u <= x, x < u + a, v <= y, y < v + b
        PROVE  ElementAt(x) # ElementAt(y)
    <3> HIDE DEF u, v
    <3>1. x < v /\ v \in Int
      BY <1>2, <2>2
    <3>2. x \div m # y \div m
      BY <1>0, <2>1, <2>2, <3>1, AcrossBoundary
    <3>3. InterleavedBase \in Nat
      BY MemoryAssumption
    <3>4. CASE start >= InterleavedBase
      <4>1. ~(x < InterleavedBase) /\ ~(y < InterleavedBase)
        BY <1>2, <2>2, <3>3, <3>4
      <4> QED BY <1>0, <3>2, <3>4, <4>1 DEF ElementAt, ElementFor
    <3>5. CASE ~(start >= InterleavedBase)
      <4>1. x < InterleavedBase /\ y < InterleavedBase
        BY <1>2, <1>3, <1>5, <2>2, <3>3, <3>5 DEF OneRegion
      <4> QED BY <1>0, <3>2, <3>5, <4>1 DEF ElementAt, ElementFor
    <3> QED BY <3>4, <3>5
  <2> HIDE DEF u, v
  <2> QED BY <1>3, <2>2 DEF ElementsApart
<1> QED BY <1>0, <1>4, <1>5 DEF s, t

\* Lifetimes lie between the start and forever.
LEMMA LifetimeTyped ==
  ASSUME NEW p, WellFormed(p), NEW sets \in SetsOf(p), NEW roots \in SUBSET Roots(sets), roots # {}
  PROVE  /\ Lifetime(p, sets, roots).first \in 0..Forever(p)
         /\ Lifetime(p, sets, roots).last \in 0..Forever(p)
         /\ Lifetime(p, sets, roots).first <= Lifetime(p, sets, roots).last
<1> DEFINE S == UNION {Members(sets, root) : root \in roots}
           E == UNION {Events(p, s) : s \in S}
<1>1. DOMAIN p.work = 1..Len(p.work) /\ Len(p.work) \in Nat
  <2>1. p.work \in Seq(WorkOf(p))
    BY DEF WellFormed
  <2> QED BY <2>1
<1>2. Forever(p) \in Nat /\ DOMAIN p.work \subseteq 0..Forever(p) /\ 0 \in 0..Forever(p) /\ Forever(p) \in 0..Forever(p)
  BY <1>1 DEF Forever
<1>3. \A s : Events(p, s) # {} /\ Events(p, s) \subseteq 0..Forever(p)
  BY <1>2 DEF Events
<1>4. S # {}
  <2>1. PICK root \in roots : root \in Roots(sets)
    OBVIOUS
  <2>2. root \in {sets.root[s] : s \in Shards(p)}
         /\ Members(sets, root) = {s \in Shards(p) : sets.root[s] = root}
    BY <2>1, SetsTyped
  <2>3. Members(sets, root) # {}
    BY <2>2
  <2> QED BY <2>1, <2>3
<1>5. E \subseteq 0..Forever(p) /\ E # {}
  <2> HIDE DEF S
  <2> QED BY <1>3, <1>4
<1>6. IsFiniteSet(E)
  <2>1. IsFiniteSet(0..Forever(p))
    <3>1. 0 \in Int /\ Forever(p) \in Int
      BY <1>2
    <3> QED BY <3>1, FS_Interval
  <2>2. E \in SUBSET (0..Forever(p))
    BY <1>5
  <2> HIDE DEF E
  <2> QED BY <2>1, <2>2, FS_Subset
<1>7. Lifetime(p, sets, roots) = [first |-> Min(E), last |-> Max(E)]
  BY Zenon DEF Lifetime
<1> HIDE DEF E
<1>8. E \subseteq Int
  BY <1>2, <1>5
<1>9. Min(E) \in E /\ Max(E) \in E /\ \A y \in E : Min(E) <= y
  BY <1>5, <1>6, <1>8, Extremes
<1>10. Min(E) <= Max(E)
  BY <1>9, Zenon
<1>11. Lifetime(p, sets, roots).first = Min(E) /\ Lifetime(p, sets, roots).last = Max(E)
  BY <1>7
<1>12. Min(E) \in 0..Forever(p) /\ Max(E) \in 0..Forever(p)
  BY <1>5, <1>9
<1> QED BY <1>10, <1>11, <1>12

SeqRoots(p, sets, g) ==
  [i \in DOMAIN Group(p, g).inputs |-> sets.root[Group(p, g).inputs[i]]]
SeqSeparate(p, sets, g) == SeparateMembers(p, sets, ToSet(SeqRoots(p, sets, g)))
SlotAlignment(p, sets, separate, root) ==
  IF separate
    THEN Max({RootAlignment(p, sets, root), ElementOf(p.shards[root].class)})
    ELSE RootAlignment(p, sets, root)
SeqAlignment(p, sets, g) ==
  Max({SlotAlignment(p, sets, SeqSeparate(p, sets, g), root) : root \in ToSet(SeqRoots(p, sets, g))})
SeqBytes(p, sets, g) ==
  Max({AllocationBytes(p, sets, root) : root \in ToSet(SeqRoots(p, sets, g))})
SeqStride(p, sets, g) == AlignUp(SeqBytes(p, sets, g), SeqAlignment(p, sets, g))

\* The roots of a sequence, and the length of a step from one to the next.
LEMMA SequenceSteps ==
  ASSUME NEW p, WellFormed(p), NEW sets \in SetsOf(p), NEW g \in Iterated(p)
  PROVE  /\ ToSet(SeqRoots(p, sets, g)) \subseteq Roots(sets)
         /\ \A i \in DOMAIN Group(p, g).inputs : SeqRoots(p, sets, g)[i] \in ToSet(SeqRoots(p, sets, g))
         /\ SeqAlignment(p, sets, g) \in Alignments(p)
         /\ SeqStride(p, sets, g) \in Nat /\ SeqStride(p, sets, g) % SeqAlignment(p, sets, g) = 0
         /\ \A root \in ToSet(SeqRoots(p, sets, g)) :
              /\ AllocationBytes(p, sets, root) \in Nat
              /\ AllocationBytes(p, sets, root) <= SeqStride(p, sets, g)
              /\ SeqAlignment(p, sets, g) % RootAlignment(p, sets, root) = 0
              /\ SeqSeparate(p, sets, g)
                   => SeqAlignment(p, sets, g) % ElementOf(p.shards[root].class) = 0
<1> DEFINE inputs == Group(p, g).inputs
           roots == ToSet(SeqRoots(p, sets, g))
           separate == SeqSeparate(p, sets, g)
           f == [root \in roots |-> SlotAlignment(p, sets, separate, root)]
           h == [root \in roots |-> AllocationBytes(p, sets, root)]
<1>1. /\ DOMAIN inputs = 1..Len(inputs) /\ Len(inputs) \in Nat /\ 1 \in DOMAIN inputs
      /\ \A i \in DOMAIN inputs : inputs[i] \in Shards(p)
  BY GroupTyped
<1>2. roots \subseteq Roots(sets) /\ \A i \in DOMAIN inputs : SeqRoots(p, sets, g)[i] \in roots
  <2>1. /\ DOMAIN SeqRoots(p, sets, g) = DOMAIN inputs
        /\ \A i \in DOMAIN inputs : SeqRoots(p, sets, g)[i] = sets.root[inputs[i]]
    BY DEF SeqRoots
  <2>2. roots = {SeqRoots(p, sets, g)[i] : i \in DOMAIN SeqRoots(p, sets, g)}
    BY DEF ToSet
  <2>3. \A i \in DOMAIN inputs : sets.root[inputs[i]] \in Roots(sets)
    BY <1>1, SetsTyped
  <2> HIDE DEF roots, inputs
  <2> QED BY <2>1, <2>2, <2>3
<1>3. roots # {} /\ IsFiniteSet(roots)
  <2>1. roots # {}
    BY <1>1, <1>2
  <2>2. roots \in SUBSET Shards(p)
    BY <1>2, SetsTyped
  <2> HIDE DEF roots
  <2> QED BY <2>1, <2>2, ProgramFinite, FS_Subset
<1> HIDE DEF roots, separate, inputs
<1>4. ASSUME NEW root \in roots
      PROVE  /\ f[root] \in Alignments(p) /\ f[root] % RootAlignment(p, sets, root) = 0
             /\ separate => f[root] % ElementOf(p.shards[root].class) = 0
  <2>1. f[root] = SlotAlignment(p, sets, separate, root)
    OBVIOUS
  <2>2. RootAlignment(p, sets, root) \in Alignments(p)
    BY RootNeeds
  <2>3. ElementOf(p.shards[root].class) \in Alignments(p)
    BY AlignmentsTyped DEF ElementOf
  <2> DEFINE a == RootAlignment(p, sets, root)
             e == ElementOf(p.shards[root].class)
  <2>4. f[root] = IF separate THEN Max({a, e}) ELSE a
    BY <2>1 DEF SlotAlignment
  <2> HIDE DEF a, e
  <2>5. Max({a, e}) \in Alignments(p) /\ Max({a, e}) % a = 0 /\ Max({a, e}) % e = 0
    BY <2>2, <2>3, LargerAlignment DEF a, e
  <2>6. a \in Nat \ {0} /\ a % a = 0
    <3>1. a \in Nat \ {0} /\ a <= a
      BY <2>2, AlignmentsTyped DEF a
    <3> QED BY <2>2, <3>1, AlignmentsTyped DEF a
  <2> QED BY <2>2, <2>4, <2>5, <2>6 DEF a, e
<1> DEFINE A == ImageOf(roots, f)
           B == ImageOf(roots, h)
<1>5. f \in [roots -> Alignments(p)]
  BY <1>4
<1>6. \A root \in roots : AllocationBytes(p, sets, root) \in Nat
  BY <1>2, RootHolds
<1>7. h \in [roots -> Nat] /\ \A root \in roots : h[root] = AllocationBytes(p, sets, root)
  BY <1>6
<1>8. SeqAlignment(p, sets, g) = Max(A) /\ SeqBytes(p, sets, g) = Max(B)
  <2>1. A = {SlotAlignment(p, sets, separate, root) : root \in roots}
    BY DEF ImageOf
  <2>2. B = {AllocationBytes(p, sets, root) : root \in roots}
    BY DEF ImageOf
  <2> QED BY <2>1, <2>2 DEF SeqAlignment, SeqBytes, roots, separate
<1> HIDE DEF f, h
<1>9. IsFiniteSet(A) /\ IsFiniteSet(B)
  BY <1>3, <1>5, <1>7, ImageFinite
<1>10. /\ A # {} /\ B # {} /\ A \subseteq Alignments(p) /\ B \subseteq Nat
       /\ \A root \in roots : f[root] \in A /\ h[root] \in B
  BY <1>3, <1>5, <1>7 DEF ImageOf
<1>11. A \subseteq Int /\ B \subseteq Int
  BY <1>10, AlignmentsTyped
<1> HIDE DEF A, B
<1>12. Max(A) \in A /\ \A y \in A : y <= Max(A)
  BY <1>9, <1>10, <1>11, Extremes
<1>13. Max(B) \in B /\ \A y \in B : y <= Max(B)
  BY <1>9, <1>10, <1>11, Extremes
<1>14. SeqAlignment(p, sets, g) \in Alignments(p) /\ SeqAlignment(p, sets, g) \in Nat \ {0}
  BY <1>8, <1>10, <1>12, AlignmentsTyped
<1>15. SeqBytes(p, sets, g) \in Nat
  BY <1>8, <1>10, <1>13
<1>16. /\ SeqStride(p, sets, g) \in Int /\ SeqStride(p, sets, g) % SeqAlignment(p, sets, g) = 0
       /\ SeqBytes(p, sets, g) <= SeqStride(p, sets, g)
  <2>1. SeqBytes(p, sets, g) \in Int
    BY <1>15
  <2> QED BY <1>14, <2>1, RoundedUp DEF SeqStride
<1>17. SeqStride(p, sets, g) \in Nat
  BY <1>15, <1>16
<1>18. ASSUME NEW root \in roots
       PROVE  /\ AllocationBytes(p, sets, root) \in Nat
              /\ AllocationBytes(p, sets, root) <= SeqStride(p, sets, g)
              /\ SeqAlignment(p, sets, g) % RootAlignment(p, sets, root) = 0
              /\ separate => SeqAlignment(p, sets, g) % ElementOf(p.shards[root].class) = 0
  <2>1. AllocationBytes(p, sets, root) <= SeqBytes(p, sets, g)
    BY <1>7, <1>8, <1>10, <1>13
  <2>2. AllocationBytes(p, sets, root) <= SeqStride(p, sets, g)
    BY <1>6, <1>15, <1>16, <2>1
  <2>3. f[root] <= SeqAlignment(p, sets, g) /\ f[root] \in Alignments(p)
    BY <1>5, <1>8, <1>10, <1>12
  <2>4. SeqAlignment(p, sets, g) % f[root] = 0 /\ f[root] \in Nat \ {0}
    BY <1>14, <2>3, AlignmentsTyped
  <2>5. RootAlignment(p, sets, root) \in Nat \ {0}
    BY RootNeeds, AlignmentsTyped
  <2>6. ElementOf(p.shards[root].class) \in Nat \ {0}
    BY MemoryAssumption DEF ElementOf
  <2>7. SeqAlignment(p, sets, g) \in Int
    BY <1>14
  <2>8. SeqAlignment(p, sets, g) % RootAlignment(p, sets, root) = 0
    BY <1>4, <2>4, <2>5, <2>7, MultiplesTransitive
  <2>9. separate => SeqAlignment(p, sets, g) % ElementOf(p.shards[root].class) = 0
    BY <1>4, <2>4, <2>6, <2>7, MultiplesTransitive
  <2> QED BY <1>6, <2>2, <2>8, <2>9
<1> QED BY <1>2, <1>14, <1>16, <1>17, <1>18 DEF roots, separate, inputs

ConflictsWith(p, sets, roots) == (UNION {Conflicts(p, sets, root) : root \in roots}) \ roots

OfSequence(p, sets, g, q) ==
  /\ q.place = <<0, g[1], g[2]>> /\ q.auxiliary = 0
  /\ q.class = p.shards[Group(p, g).inputs[1]].class
  /\ q.region1Stride = (IF SeqSeparate(p, sets, g)
                          THEN AlignUp(SeqStride(p, sets, g), InterleavedElement) ELSE 0)
  /\ q.conflicts = ConflictsWith(p, sets, ToSet(SeqRoots(p, sets, g)))
  /\ q.lifetime = Lifetime(p, sets, ToSet(SeqRoots(p, sets, g)))
  /\ q.bytes = SeqStride(p, sets, g) * Len(Group(p, g).inputs)
  /\ q.alignment = SeqAlignment(p, sets, g)
  /\ Len(q.assignments) = Len(Group(p, g).inputs)
  /\ DOMAIN q.assignments = 1..Len(q.assignments)
  /\ \A i \in DOMAIN q.assignments :
       /\ q.assignments[i].root = sets.root[Group(p, g).inputs[i]]
       /\ q.assignments[i].root = SeqRoots(p, sets, g)[i]
       /\ q.assignments[i].offset = SeqStride(p, sets, g) * (i - 1)
  /\ RootsOf(q) = ToSet(SeqRoots(p, sets, g))

\* The request of a sequence.
LEMMA SequenceFields ==
  ASSUME NEW p, WellFormed(p), NEW sets \in SetsOf(p), NEW g \in Iterated(p),
         NEW q, q = SequenceRequest(p, sets, g)
  PROVE  OfSequence(p, sets, g, q)
<1> DEFINE inputs == Group(p, g).inputs
<1>1. /\ DOMAIN inputs = 1..Len(inputs) /\ Len(inputs) \in Nat
  BY GroupTyped
<1>2. DOMAIN SeqRoots(p, sets, g) = 1..Len(inputs) /\ Len(SeqRoots(p, sets, g)) = Len(inputs)
  <2>1. DOMAIN SeqRoots(p, sets, g) = 1..Len(inputs)
    BY <1>1 DEF SeqRoots
  <2> QED BY <1>1, <2>1
<1>3. q = [place |-> <<0, g[1], g[2]>>, auxiliary |-> 0, class |-> p.shards[inputs[1]].class,
           region1Stride |-> Region1Stride(SeqSeparate(p, sets, g), SeqStride(p, sets, g)),
           conflicts |-> ConflictsWith(p, sets, ToSet(SeqRoots(p, sets, g))),
           lifetime |-> Lifetime(p, sets, ToSet(SeqRoots(p, sets, g))),
           bytes |-> SeqStride(p, sets, g) * Len(SeqRoots(p, sets, g)),
           alignment |-> SeqAlignment(p, sets, g),
           assignments |-> [i \in DOMAIN SeqRoots(p, sets, g) |->
                               [root |-> SeqRoots(p, sets, g)[i], offset |-> SeqStride(p, sets, g) * (i - 1)]]]
  BY Zenon DEF SequenceRequest, SeqRoots, SeqSeparate, SeqAlignment, SlotAlignment, SeqBytes, SeqStride,
    ConflictsWith
<1>4. /\ q.assignments = [i \in DOMAIN SeqRoots(p, sets, g) |->
                               [root |-> SeqRoots(p, sets, g)[i], offset |-> SeqStride(p, sets, g) * (i - 1)]]
      /\ q.bytes = SeqStride(p, sets, g) * Len(SeqRoots(p, sets, g))
  BY <1>3
<1>5. DOMAIN q.assignments = 1..Len(inputs) /\ Len(q.assignments) = Len(inputs)
  <2>1. DOMAIN q.assignments = 1..Len(inputs)
    BY <1>2, <1>4
  <2> QED BY <1>1, <2>1
<1>6. \A i \in 1..Len(inputs) :
              /\ q.assignments[i].root = SeqRoots(p, sets, g)[i]
              /\ q.assignments[i].offset = SeqStride(p, sets, g) * (i - 1)
              /\ q.assignments[i].root = sets.root[inputs[i]]
  BY <1>1, <1>2, <1>4 DEF SeqRoots
<1>7. RootsOf(q) = ToSet(SeqRoots(p, sets, g))
  <2>1. ToSet(SeqRoots(p, sets, g)) = {SeqRoots(p, sets, g)[i] : i \in 1..Len(inputs)}
    BY <1>2 DEF ToSet
  <2>2. ToSet(q.assignments) = {q.assignments[i] : i \in 1..Len(inputs)}
    BY <1>5 DEF ToSet
  <2>3. RootsOf(q) = {q.assignments[i].root : i \in 1..Len(inputs)}
    BY <2>2 DEF RootsOf
  <2> QED BY <1>6, <2>1, <2>3
<1>8. /\ q.place = <<0, g[1], g[2]>> /\ q.auxiliary = 0 /\ q.class = p.shards[inputs[1]].class
      /\ q.region1Stride = Region1Stride(SeqSeparate(p, sets, g), SeqStride(p, sets, g))
      /\ q.conflicts = ConflictsWith(p, sets, ToSet(SeqRoots(p, sets, g)))
      /\ q.lifetime = Lifetime(p, sets, ToSet(SeqRoots(p, sets, g)))
      /\ q.alignment = SeqAlignment(p, sets, g)
  BY <1>3
<1> HIDE DEF inputs
<1> QED BY <1>2, <1>4, <1>5, <1>6, <1>7, <1>8 DEF inputs, Region1Stride, OfSequence

\* A positive multiple stays one when it is rounded up to an element.
LEMMA RoundedStride ==
  ASSUME NEW p, WellFormed(p), NEW a \in Alignments(p), NEW stride \in Nat, stride % a = 0
  PROVE  /\ AlignUp(stride, InterleavedElement) \in Nat
         /\ stride <= AlignUp(stride, InterleavedElement)
         /\ AlignUp(stride, InterleavedElement) % a = 0
         /\ AlignUp(stride, InterleavedElement) % InterleavedElement = 0
         /\ AlignUp(stride, InterleavedElement) # 0 => stride # 0
<1> DEFINE v == AlignUp(stride, InterleavedElement)
<1>1. InterleavedElement \in Nat \ {0} /\ a \in Nat \ {0} /\ stride \in Int /\ InterleavedElement \in Alignments(p)
  BY AlignmentsTyped
<1>2. /\ v \in Int /\ v % InterleavedElement = 0 /\ stride <= v
      /\ (stride % InterleavedElement = 0 => v = stride)
  BY <1>1, RoundedUp
<1> HIDE DEF v
<1>3. v \in Nat
  BY <1>2
<1>4. v % a = 0
  <2>1. CASE a <= InterleavedElement
    <3>1. InterleavedElement % a = 0
      BY <1>1, <2>1, AlignmentsTyped
    <3> QED BY <1>1, <1>2, <3>1, MultiplesTransitive
  <2>2. CASE ~(a <= InterleavedElement)
    <3>1. InterleavedElement <= a
      BY <1>1, <2>2
    <3>2. a % InterleavedElement = 0
      BY <1>1, <3>1, AlignmentsTyped
    <3>3. stride % InterleavedElement = 0
      BY <1>1, <3>2, MultiplesTransitive
    <3> QED BY <1>2, <3>3
  <2> QED BY <2>1, <2>2
<1>5. stride = 0 => v = 0
  <2>1. stride = 0 => stride % InterleavedElement = 0
    BY <1>1
  <2> QED BY <1>2, <2>1
<1> QED BY <1>2, <1>3, <1>4, <1>5 DEF v

\* The slots of a sequence.
LEMMA SequenceSlots ==
  ASSUME NEW p, WellFormed(p), NEW sets \in SetsOf(p), Placeable(p, sets), NEW g \in Iterated(p),
         NEW q, q = SequenceRequest(p, sets, g)
  PROVE  RequestTyped(p, q) /\ Slotted(p, sets, q)
<1> DEFINE inputs == Group(p, g).inputs
           n == Len(inputs)
           stride == SeqStride(p, sets, g)
           alignment == SeqAlignment(p, sets, g)
           separate == SeqSeparate(p, sets, g)
           bytes(i) == AllocationBytes(p, sets, q.assignments[i].root)
<1>1. /\ q.class = p.shards[inputs[1]].class
      /\ q.region1Stride = (IF separate THEN AlignUp(stride, InterleavedElement) ELSE 0)
      /\ q.lifetime = Lifetime(p, sets, ToSet(SeqRoots(p, sets, g)))
      /\ q.bytes = stride * n /\ q.alignment = alignment
      /\ Len(q.assignments) = n /\ DOMAIN q.assignments = 1..n
      /\ \A i \in 1..n : /\ q.assignments[i].root = sets.root[inputs[i]]
                         /\ q.assignments[i].root = SeqRoots(p, sets, g)[i]
                         /\ q.assignments[i].offset = stride * (i - 1)
      /\ RootsOf(q) = ToSet(SeqRoots(p, sets, g))
  <2>0. OfSequence(p, sets, g, q)
    BY SequenceFields
  <2>1. /\ q.class = p.shards[inputs[1]].class
        /\ q.region1Stride = (IF separate THEN AlignUp(stride, InterleavedElement) ELSE 0)
        /\ q.lifetime = Lifetime(p, sets, ToSet(SeqRoots(p, sets, g)))
        /\ q.bytes = stride * n /\ q.alignment = alignment
        /\ Len(q.assignments) = n /\ DOMAIN q.assignments = 1..n
        /\ RootsOf(q) = ToSet(SeqRoots(p, sets, g))
    BY <2>0 DEF OfSequence
  <2>2. \A i \in DOMAIN q.assignments :
              /\ q.assignments[i].root = sets.root[Group(p, g).inputs[i]]
              /\ q.assignments[i].root = SeqRoots(p, sets, g)[i]
              /\ q.assignments[i].offset = SeqStride(p, sets, g) * (i - 1)
    BY <2>0 DEF OfSequence
  <2> QED BY <2>1, <2>2
<1>2. n \in Nat /\ 1 \in 1..n /\ \A i \in 1..n : inputs[i] \in Shards(p)
  BY GroupTyped
<1>3. /\ alignment \in Alignments(p) /\ stride \in Nat /\ stride % alignment = 0
      /\ ToSet(SeqRoots(p, sets, g)) \subseteq Roots(sets)
      /\ \A i \in 1..n : q.assignments[i].root \in ToSet(SeqRoots(p, sets, g))
  BY <1>1, <1>2, SequenceSteps, GroupTyped
<1>4. \A i \in 1..n :
        /\ bytes(i) \in Nat /\ bytes(i) <= stride
        /\ alignment % RootAlignment(p, sets, q.assignments[i].root) = 0
        /\ separate => alignment % ElementOf(p.shards[q.assignments[i].root].class) = 0
  BY <1>3, SequenceSteps
<1> HIDE DEF stride, alignment, separate, bytes, n, inputs
<1>5. separate => /\ q.region1Stride \in Nat /\ stride <= q.region1Stride
                  /\ q.region1Stride % alignment = 0 /\ q.region1Stride % InterleavedElement = 0
                  /\ (q.region1Stride # 0 => stride # 0)
  <2>1. SUFFICES ASSUME separate PROVE
                  /\ q.region1Stride \in Nat /\ stride <= q.region1Stride
                  /\ q.region1Stride % alignment = 0 /\ q.region1Stride % InterleavedElement = 0
                  /\ (q.region1Stride # 0 => stride # 0)
    OBVIOUS
  <2>2. q.region1Stride = AlignUp(stride, InterleavedElement)
    BY <1>1, <2>1
  <2> DEFINE v == AlignUp(stride, InterleavedElement)
  <2>3. v \in Nat /\ stride <= v /\ v % alignment = 0 /\ v % InterleavedElement = 0 /\ (v # 0 => stride # 0)
    BY <1>3, RoundedStride
  <2> HIDE DEF v
  <2> QED BY <2>2, <2>3 DEF v
<1>6. RequestTyped(p, q)
  <2>1. q.class \in {"standard", "interleaved"}
    BY <1>1, <1>2, ShardTyped
  <2>2. /\ q.lifetime.first \in Int /\ q.lifetime.last \in Int
    <3>1. ToSet(SeqRoots(p, sets, g)) \in SUBSET Roots(sets) /\ ToSet(SeqRoots(p, sets, g)) # {}
      BY <1>2, <1>3
    <3>2. q.lifetime.first \in 0..Forever(p) /\ q.lifetime.last \in 0..Forever(p)
      BY <1>1, <3>1, LifetimeTyped
    <3> QED BY <3>2
  <2>3. q.region1Stride \in Nat
    BY <1>1, <1>5
  <2>4. stride * n \in Nat /\ (stride # 0 => stride * n > 0)
    <3>1. n \in Nat \ {0}
      BY <1>2
    <3> QED BY <1>3, <3>1
  <2>5. q.region1Stride # 0 => stride # 0
    BY <1>1, <1>5
  <2> QED BY <1>1, <1>2, <1>3, <2>1, <2>2, <2>3, <2>4, <2>5 DEF RequestTyped
<1>7. ASSUME NEW range, NEW start, NEW end, Fits(p, q, range, start, end)
      PROVE  /\ \A i, m \in 1..n : Inside(p, sets, q, start, end, i, m)
             /\ \A i, m, j, l \in 1..n : i # j => RoomsApart(p, sets, q, start, i, m, j, l)
  <2> DEFINE wide == start >= InterleavedBase /\ q.region1Stride # 0
             step == IF wide THEN q.region1Stride ELSE stride
  <2>1. start \in Nat /\ end \in Nat /\ start % alignment = 0
    BY <1>1, <1>7 DEF Fits
  <2>2. step \in Nat /\ stride <= step /\ step % alignment = 0
    BY <1>1, <1>3, <1>5
  <2>3. \A i \in 1..n : Offset(q, start, i) = step * (i - 1)
    BY <1>1 DEF Offset
  <2>4. end = start + (step * n)
    BY <1>1, <1>7 DEF Fits, BytesAt
  <2>5. \A i, m \in 1..n : Room(p, sets, q, start, i, m)
                        = <<start + (step * (i - 1)), (start + (step * (i - 1))) + bytes(m)>>
    BY <2>3 DEF Room, bytes
  <2>6. \A i \in 1..n : bytes(i) \in Nat /\ bytes(i) <= step
    BY <1>3, <1>4, <2>2
  <2>7. alignment \in Nat \ {0}
    BY <1>3, AlignmentsTyped
  <2> HIDE DEF step, wide
  <2>8. ASSUME NEW i \in 1..n, NEW x \in 1..n PROVE Inside(p, sets, q, start, end, i, x)
    <3> DEFINE u == start + (step * (i - 1))
    <3>1. i - 1 \in Nat /\ i - 1 < n
      BY <1>2
    <3>2. step * (i - 1) \in Nat /\ step * n \in Nat /\ (step * (i - 1)) + step <= step * n
      BY <1>2, <2>2, <3>1, Steps
    <3>3. u \in Nat /\ u + bytes(x) \in Nat /\ start <= u /\ u + bytes(x) <= end
      <4> DEFINE w == step * (i - 1)
                 z == step * n
      <4>1. w \in Nat /\ z \in Nat /\ w + step <= z /\ end = start + z /\ u = start + w
        BY <2>4, <3>2
      <4> HIDE DEF w, z, u
      <4>2. bytes(x) \in Nat /\ bytes(x) <= step /\ step \in Nat
        BY <2>2, <2>6
      <4> QED BY <2>1, <4>1, <4>2
    <3>4. (step * (i - 1)) % alignment = 0
      <4> DEFINE k == step \div alignment
                 m == i - 1
      <4>1. step = (alignment * k) + (step % alignment) /\ k \in Int
        <5>1. step \in Int
          BY <2>2
        <5> QED BY <2>7, <5>1, DivMod
      <4>2. step % alignment = 0 /\ m \in Int /\ alignment \in Int
        BY <2>2, <2>7, <3>1
      <4> HIDE DEF k, m
      <4>3. step = alignment * k
        BY <4>1, <4>2
      <4>4. step * m = (m * k) * alignment /\ m * k \in Int
        BY <4>1, <4>2, <4>3
      <4> DEFINE l == m * k
      <4>5. l \in Int /\ step * m = l * alignment
        BY <4>4
      <4> HIDE DEF l
      <4>6. (step * m) % alignment = 0
        BY <2>7, <4>5, MultipleOf
      <4> QED BY <4>6 DEF m
    <3>5. u % alignment = 0
      <4>1. start \in Int /\ step * (i - 1) \in Int
        BY <2>1, <3>2
      <4> QED BY <2>1, <2>7, <3>4, <4>1, MultiplesAdd
    <3>6. RootAlignment(p, sets, q.assignments[x].root) \in Nat \ {0}
      BY RootNeeds, AlignmentsTyped
    <3>7. u % RootAlignment(p, sets, q.assignments[x].root) = 0
      <4>1. u \in Int
        BY <3>3
      <4> HIDE DEF u
      <4> QED BY <1>4, <2>7, <3>5, <3>6, <4>1, MultiplesTransitive
    <3>8. Room(p, sets, q, start, i, x)[1] = u /\ Room(p, sets, q, start, i, x)[2] = u + bytes(x)
      BY <2>5
    <3> HIDE DEF u
    <3> QED BY <3>3, <3>7, <3>8 DEF Inside
  <2>9. ASSUME NEW i \in 1..n, NEW j \in 1..n, NEW x \in 1..n, NEW y \in 1..n, i < j
        PROVE  RoomsApart(p, sets, q, start, i, x, j, y)
    <3> DEFINE m == ElementFor(start)
               k == i - 1
               l == j - 1
               s == Room(p, sets, q, start, i, x)
               t == Room(p, sets, q, start, j, y)
    <3>1. k \in Nat /\ l \in Nat /\ k < l
      BY <2>9
    <3>2. m \in Nat \ {0}
      BY MemoryAssumption DEF ElementFor
    <3>3. s = Row(start, step, k, bytes(x)) /\ t = Row(start, step, l, bytes(y))
      BY <2>5 DEF Row
    <3>4. bytes(x) \in Nat /\ bytes(y) \in Nat /\ bytes(x) <= step
      BY <2>6
    <3>5. t[2] <= end /\ t[2] \in Nat
      BY <2>8 DEF Inside
    <3>6. OneRegion(start, t[2])
      <4>1. OneRegion(start, end) /\ InterleavedBase \in Nat
        BY <1>7, MemoryAssumption DEF Fits
      <4> HIDE DEF t
      <4> QED BY <2>1, <3>5, <4>1 DEF OneRegion
    <3> HIDE DEF m, k, l, s, t
    <3>7. /\ WordsApart(s, t)
          /\ start % m = 0 /\ step % m = 0 /\ OneRegion(start, t[2]) => ElementsApart(s, t)
      <4>1. m = ElementFor(start)
          BY DEF m
      <4> QED BY <2>1, <2>2, <3>1, <3>2, <3>3, <3>4, <4>1, RowApart
    <3>8. ASSUME separate PROVE ElementsApart(s, t)
      <4>1. CASE q.region1Stride = 0
        <5>1. stride = 0
          BY <1>3, <1>5, <3>8, <4>1
        <5>2. bytes(x) = 0
          BY <1>4, <5>1
        <5>3. s[1] \in Int /\ s[2] = s[1]
          <6>1. s[1] \in Nat
            BY <2>8 DEF Inside, s
          <6> QED BY <3>3, <5>2, <6>1 DEF Row
        <5> QED BY <5>3 DEF ElementsApart
      <4>2. CASE q.region1Stride # 0
        <5>1. start % m = 0
          BY <1>7, <4>2 DEF Fits, m, ElementFor
        <5>2. step % m = 0
          <6>1. CASE start >= InterleavedBase
            BY <1>5, <3>8, <4>2, <6>1 DEF step, wide, m, ElementFor
          <6>2. CASE ~(start >= InterleavedBase)
            <7>1. q.class # "interleaved"
              <8>1. start >= InterleavedBase + InterleavedOffset => start >= InterleavedBase
                BY <2>1, MemoryAssumption
              <8> QED BY <1>7, <6>2, <8>1 DEF Fits
            <7>2. p.shards[q.assignments[1].root].class = q.class
              BY <1>1, <1>2 DEF Placeable
            <7>3. ElementOf(p.shards[q.assignments[1].root].class) = Element
              BY <7>1, <7>2 DEF ElementOf
            <7>4. alignment % Element = 0
              BY <1>2, <1>4, <3>8, <7>3
            <7>5. stride % Element = 0
              <8>1. stride \in Int /\ Element \in Nat \ {0}
                BY <1>3, MemoryAssumption
              <8> QED BY <1>3, <2>7, <7>4, <8>1, MultiplesTransitive
            <7> QED BY <6>2, <7>5 DEF step, wide, m, ElementFor
          <6> QED BY <6>1, <6>2
        <5> QED BY <3>6, <3>7, <5>1, <5>2 DEF m
      <4> QED BY <4>1, <4>2
    <3>9. SeparateMembers(p, sets, RootsOf(q)) <=> separate
      BY <1>1 DEF separate, SeqSeparate
    <3> QED BY <3>7, <3>8, <3>9 DEF RoomsApart, s, t
  <2>10. ASSUME NEW i \in 1..n, NEW j \in 1..n, NEW x \in 1..n, NEW y \in 1..n, i # j
         PROVE  RoomsApart(p, sets, q, start, i, x, j, y)
    <3>1. CASE i < j
      BY <2>9, <3>1
    <3>2. CASE j < i
      <4>1. RoomsApart(p, sets, q, start, j, y, i, x)
        BY <2>9, <3>2
      <4> QED BY <4>1, WordsApartBothWays, ElementsApartBothWays DEF RoomsApart
    <3>3. i < j \/ j < i
      BY <1>2, <2>10
    <3> QED BY <3>1, <3>2, <3>3
  <2> QED BY <2>8, <2>10
<1> QED BY <1>1, <1>6, <1>7 DEF Slotted

\* Conflicts are mutual.
LEMMA ConflictsMutual ==
  ASSUME NEW p, NEW sets, NEW root, NEW other
  PROVE  other \in Conflicts(p, sets, root) <=> root \in Conflicts(p, sets, other)
<1>1. \A a, b : b \in Conflicts(p, sets, a) <=>
        \E pair \in Pairs(p) : \/ sets.root[pair[1]] = a /\ b = sets.root[pair[2]]
                               \/ sets.root[pair[2]] = a /\ b = sets.root[pair[1]]
  BY DEF Conflicts
<1> QED BY <1>1

\* A sequence's request is sound, and so are a root's and that of auxiliary storage.
LEMMA SequenceSound ==
  ASSUME NEW p, WellFormed(p), NEW sets \in SetsOf(p), Placeable(p, sets), NEW g \in Iterated(p),
         NEW q, q = SequenceRequest(p, sets, g)
  PROVE  RequestSound(p, sets, q)
<1>1. OfSequence(p, sets, g, q)
  BY SequenceFields
<1>2. RequestTyped(p, q) /\ Slotted(p, sets, q)
  BY SequenceSlots
<1>3. ConflictsOf(p, sets, q)
  <2> DEFINE R == ToSet(SeqRoots(p, sets, g))
  <2> HIDE DEF R
  <2> DEFINE U == UNION {Conflicts(p, sets, root) : root \in R}
  <2>1. q.conflicts = U \ R /\ RootsOf(q) = R
    <3>1. q.conflicts = ConflictsWith(p, sets, R) /\ RootsOf(q) = R
      BY <1>1 DEF OfSequence, R
    <3>2. ConflictsWith(p, sets, R) = U \ R
      BY DEF ConflictsWith
    <3> HIDE DEF U
    <3> QED BY <3>1, <3>2
  <2>2. \A other : other \in q.conflicts <=>
          other \notin R /\ \E root \in R : other \in Conflicts(p, sets, root)
    <3>1. \A other : other \in U <=> \E root \in R : other \in Conflicts(p, sets, root)
      OBVIOUS
    <3> HIDE DEF U
    <3> QED BY <2>1, <3>1
  <2> QED BY <2>1, <2>2 DEF ConflictsOf
<1>4. /\ DOMAIN q.assignments = 1..Len(q.assignments)
      /\ Len(q.assignments) = Len(Group(p, g).inputs)
      /\ \A i \in DOMAIN q.assignments : q.assignments[i].root = sets.root[Group(p, g).inputs[i]]
  BY <1>1 DEF OfSequence
<1>5. /\ DOMAIN Group(p, g).inputs = 1..Len(Group(p, g).inputs)
      /\ \A i \in DOMAIN Group(p, g).inputs : Group(p, g).inputs[i] \in Shards(p)
      /\ g \in Nat \X Nat
  BY GroupTyped
<1>6. \A i \in DOMAIN q.assignments : q.assignments[i].root \in Roots(sets)
  BY <1>4, <1>5, SetsTyped
<1>7. \A i, j \in DOMAIN q.assignments : q.assignments[i].root = q.assignments[j].root => i = j
  <2>1. \A i, j \in DOMAIN Group(p, g).inputs :
          sets.root[Group(p, g).inputs[i]] = sets.root[Group(p, g).inputs[j]] => i = j
    BY DEF Placeable
  <2> QED BY <1>4, <1>5, <2>1
<1>8. q.place \in [1..3 -> Int]
  <2>1. q.place = <<0, g[1], g[2]>> /\ g[1] \in Int /\ g[2] \in Int
    BY <1>1, <1>5 DEF OfSequence
  <2> QED BY <2>1
<1>9. Identified(q)
  <2>1. q.auxiliary = 0 /\ RootsOf(q) = ToSet(SeqRoots(p, sets, g))
    BY <1>1 DEF OfSequence
  <2>2. SeqRoots(p, sets, g)[1] \in ToSet(SeqRoots(p, sets, g))
    BY GroupTyped, SequenceSteps
  <2> QED BY <2>1, <2>2 DEF Identified
<1> QED BY <1>2, <1>3, <1>4, <1>6, <1>7, <1>8, <1>9 DEF RequestSound

\* The request of a root is sound.
LEMMA RootSound ==
  ASSUME NEW p, WellFormed(p), NEW sets \in SetsOf(p), NEW root \in Roots(sets),
         NEW q, q = RootRequest(p, sets, root)
  PROVE  RequestSound(p, sets, q) /\ RootsOf(q) = {root} /\ q.place = <<1, root, 0>>
<1> DEFINE bytes == AllocationBytes(p, sets, root)
           alignment == RootAlignment(p, sets, root)
<1>1. bytes \in Nat /\ alignment \in Alignments(p) /\ root \in Shards(p)
  BY RootHolds, RootNeeds, SetsTyped
<1>2. /\ q.place = <<1, root, 0>> /\ q.class = p.shards[root].class /\ q.region1Stride = 0
      /\ q.conflicts = Conflicts(p, sets, root) /\ q.lifetime = Lifetime(p, sets, {root})
      /\ q.bytes = bytes /\ q.alignment = alignment
      /\ q.assignments = <<[root |-> root, offset |-> 0]>> /\ q.auxiliary = 0
  BY DEF RootRequest
<1>3. /\ DOMAIN q.assignments = 1..1 /\ Len(q.assignments) = 1
      /\ q.assignments[1] = [root |-> root, offset |-> 0]
  BY <1>2
<1>4. q.assignments[1].root = root /\ q.assignments[1].offset = 0 /\ RootsOf(q) = {root}
  <2>1. ToSet(q.assignments) = {[root |-> root, offset |-> 0]}
    BY <1>3 DEF ToSet
  <2> QED BY <1>3, <2>1 DEF RootsOf
<1> HIDE DEF bytes, alignment
<1>5. RequestTyped(p, q)
  <2>1. q.class \in {"standard", "interleaved"}
    BY <1>1, <1>2, ShardTyped
  <2>2. q.lifetime.first \in 0..Forever(p) /\ q.lifetime.last \in 0..Forever(p)
    <3>1. {root} \in SUBSET Roots(sets) /\ {root} # {}
      OBVIOUS
    <3> QED BY <1>2, <3>1, LifetimeTyped
  <2> QED BY <1>1, <1>2, <1>3, <2>1, <2>2 DEF RequestTyped
<1>6. ASSUME NEW range, NEW start, NEW end, Fits(p, q, range, start, end)
      PROVE  Inside(p, sets, q, start, end, 1, 1)
  <2>1. start \in Nat /\ end = start + bytes /\ start % alignment = 0
    BY <1>2, <1>6 DEF Fits, BytesAt
  <2>2. Offset(q, start, 1) = 0
    BY <1>2, <1>4 DEF Offset
  <2>3. Room(p, sets, q, start, 1, 1)[1] = start /\ Room(p, sets, q, start, 1, 1)[2] = start + bytes
    BY <1>4, <2>1, <2>2 DEF Room, bytes
  <2> QED BY <1>1, <1>4, <2>1, <2>3 DEF Inside, alignment
<1>7. Slotted(p, sets, q)
  <2>1. \A i \in DOMAIN q.assignments : i = 1
    BY <1>3
  <2> QED BY <1>6, <2>1 DEF Slotted
<1>8. ConflictsOf(p, sets, q)
  BY <1>2, <1>4 DEF ConflictsOf
<1>9. q.place \in [1..3 -> Int]
  <2>1. root \in Int
    BY <1>1 DEF Shards
  <2> QED BY <1>2, <2>1
<1> QED BY <1>2, <1>3, <1>4, <1>5, <1>7, <1>8, <1>9 DEF RequestSound, Identified

AuxiliaryOf == [bytes : Nat, alignment : Nat \ {0}, first : Nat, last : Nat]

\* The request of auxiliary storage is sound.
LEMMA AuxiliarySound ==
  ASSUME NEW p, WellFormed(p), NEW sets, NEW index \in DOMAIN p.auxiliary,
         NEW q, q = AuxiliaryRequest(p, index)
  PROVE  /\ RequestSound(p, sets, q) /\ RootsOf(q) = {} /\ q.place = <<2, index, 0>>
         /\ q.auxiliary = index
<1>1. p.auxiliary \in Seq(AuxiliaryOf)
  BY DEF WellFormed, AuxiliaryOf
<1>2. p.auxiliary[index] \in AuxiliaryOf /\ index \in Int /\ index # 0
  BY <1>1
<1>3. /\ p.auxiliary[index].bytes \in Nat /\ p.auxiliary[index].first \in Int
      /\ p.auxiliary[index].last \in Int
  BY <1>2 DEF AuxiliaryOf
<1>4. /\ q.place = <<2, index, 0>> /\ q.auxiliary = index /\ q.class = "standard" /\ q.region1Stride = 0
      /\ q.conflicts = {} /\ q.bytes = p.auxiliary[index].bytes
      /\ q.lifetime = [first |-> p.auxiliary[index].first, last |-> p.auxiliary[index].last]
      /\ q.alignment = p.auxiliary[index].alignment /\ q.assignments = <<>>
  BY DEF AuxiliaryRequest
<1>5. q.alignment \in Alignments(p)
  BY <1>4 DEF Alignments
<1>6. DOMAIN q.assignments = {} /\ Len(q.assignments) = 0 /\ DOMAIN q.assignments = 1..0
  BY <1>4
<1>7. RequestTyped(p, q)
  BY <1>3, <1>4, <1>5, <1>6 DEF RequestTyped
<1>8. RootsOf(q) = {}
  BY <1>6 DEF RootsOf, ToSet
<1>9. q.place \in [1..3 -> Int]
  BY <1>2, <1>4
<1>10. Slotted(p, sets, q) /\ ConflictsOf(p, sets, q)
  BY <1>4, <1>6, <1>8 DEF Slotted, ConflictsOf
<1>11. Identified(q)
  BY <1>2, <1>4, <1>8 DEF Identified
<1> QED BY <1>4, <1>6, <1>7, <1>8, <1>9, <1>10, <1>11 DEF RequestSound

\* What the allocation requests are together: sound, told apart by their place, finitely
\* many, and each root is in exactly one of them.
RequestsSound(p, sets, S) ==
  /\ IsFiniteSet(S) /\ \A q \in S : RequestSound(p, sets, q)
  /\ \A q, r \in S : q.place = r.place => q = r
  /\ \A root \in Roots(sets) : \E q \in S : root \in RootsOf(q)
  /\ \A q, r \in S : RootsOf(q) \cap RootsOf(r) # {} => q = r
  /\ \A g \in Iterated(p) : \E q \in S : OfSequence(p, sets, g, q)

\* All requests of a program are sound, and each root is in one of them.
LEMMA AllRequestsSound ==
  ASSUME NEW p, WellFormed(p), NEW sets \in SetsOf(p), Placeable(p, sets)
  PROVE  RequestsSound(p, sets, AllocationRequests(p, sets))
<1> DEFINE f == [g \in Iterated(p) |-> SequenceRequest(p, sets, g)]
           A == ImageOf(Iterated(p), f)
           grouped == UNION {RootsOf(q) : q \in A}
           R == Roots(sets) \ grouped
           h == [root \in R |-> RootRequest(p, sets, root)]
           B == ImageOf(R, h)
           k == [i \in DOMAIN p.auxiliary |-> AuxiliaryRequest(p, i)]
           C == ImageOf(DOMAIN p.auxiliary, k)
           S == AllocationRequests(p, sets)
<1>1. S = (A \cup B) \cup C
  BY Zenon DEF AllocationRequests, ImageOf
<1>2. /\ \A q \in A : \E g \in Iterated(p) : q = SequenceRequest(p, sets, g)
      /\ \A g \in Iterated(p) : SequenceRequest(p, sets, g) \in A
  BY DEF ImageOf
<1>3. /\ \A q \in B : \E root \in R : q = RootRequest(p, sets, root)
      /\ \A root \in R : RootRequest(p, sets, root) \in B
  BY DEF ImageOf
<1>4. \A q \in C : \E i \in DOMAIN p.auxiliary : q = AuxiliaryRequest(p, i)
  BY DEF ImageOf
<1>5. IsFiniteSet(A) /\ IsFiniteSet(B) /\ IsFiniteSet(C)
  <2>1. IsFiniteSet(R)
    <3>1. R \in SUBSET Shards(p)
      BY SetsTyped
    <3> HIDE DEF R
    <3> QED BY <3>1, ProgramFinite, FS_Subset
  <2>2. /\ f \in [Iterated(p) -> {SequenceRequest(p, sets, g) : g \in Iterated(p)}]
        /\ h \in [R -> {RootRequest(p, sets, root) : root \in R}]
        /\ k \in [DOMAIN p.auxiliary -> {AuxiliaryRequest(p, i) : i \in DOMAIN p.auxiliary}]
    OBVIOUS
  <2> HIDE DEF f, h, k, R
  <2>3. IsFiniteSet(A)
    BY <2>2, ProgramFinite, ImageFinite
  <2>4. IsFiniteSet(B)
    BY <2>1, <2>2, ImageFinite
  <2>5. IsFiniteSet(C)
    BY <2>2, ProgramFinite, ImageFinite
  <2> QED BY <2>3, <2>4, <2>5
<1>6. R \subseteq Roots(sets) /\ \A root \in R, q \in A : root \notin RootsOf(q)
  OBVIOUS
<1>7. \A root \in Roots(sets) \ R : \E q \in A : root \in RootsOf(q)
  OBVIOUS
<1> HIDE DEF f, A, grouped, R, h, B, k, C, S
<1>8. IsFiniteSet(S)
  <2>1. IsFiniteSet(A \cup B)
    BY <1>5, FS_Union
  <2> QED BY <1>1, <1>5, <2>1, FS_Union
<1>9. ASSUME NEW q \in A
      PROVE  \E g \in Iterated(p) : RequestSound(p, sets, q) /\ OfSequence(p, sets, g, q)
                                    /\ q = SequenceRequest(p, sets, g)
  <2>1. PICK g \in Iterated(p) : q = SequenceRequest(p, sets, g)
    BY <1>2
  <2> QED BY <2>1, SequenceSound, SequenceFields
<1>10. ASSUME NEW q \in B
       PROVE  \E root \in R : /\ RequestSound(p, sets, q) /\ RootsOf(q) = {root}
                              /\ q.place = <<1, root, 0>> /\ q = RootRequest(p, sets, root)
  <2>1. PICK root \in R : q = RootRequest(p, sets, root)
    BY <1>3
  <2>2. root \in Roots(sets)
    BY <1>6
  <2> QED BY <2>1, <2>2, RootSound
<1>11. ASSUME NEW q \in C
       PROVE  \E i \in DOMAIN p.auxiliary : /\ RequestSound(p, sets, q) /\ RootsOf(q) = {}
                              /\ q.place = <<2, i, 0>> /\ q = AuxiliaryRequest(p, i)
  <2>1. PICK i \in DOMAIN p.auxiliary : q = AuxiliaryRequest(p, i)
    BY <1>4
  <2> QED BY <2>1, AuxiliarySound
<1>12. \A q \in S : RequestSound(p, sets, q)
  BY <1>1, <1>9, <1>10, <1>11
<1>13. /\ \A q \in A : q.place[1] = 0
       /\ \A q \in B : q.place[1] = 1
       /\ \A q \in C : q.place[1] = 2
  <2>1. \A q \in A : q.place[1] = 0
    BY <1>9 DEF OfSequence
  <2>2. \A q \in B : q.place[1] = 1
    BY <1>10
  <2>3. \A q \in C : q.place[1] = 2
    BY <1>11
  <2> QED BY <2>1, <2>2, <2>3
<1>14. ASSUME NEW q \in S, NEW r \in S, q.place = r.place PROVE q = r
  <2>1. CASE q \in A /\ r \in A
    <3>1. PICK g \in Iterated(p) : OfSequence(p, sets, g, q) /\ q = SequenceRequest(p, sets, g)
      BY <1>9, <2>1
    <3>2. PICK j \in Iterated(p) : OfSequence(p, sets, j, r) /\ r = SequenceRequest(p, sets, j)
      BY <1>9, <2>1
    <3>3. g \in Nat \X Nat /\ j \in Nat \X Nat
      BY GroupTyped
    <3>4. q.place = <<0, g[1], g[2]>> /\ r.place = <<0, j[1], j[2]>>
      BY <3>1, <3>2 DEF OfSequence
    <3>5. g[1] = j[1] /\ g[2] = j[2]
      <4>1. q.place[2] = g[1] /\ q.place[3] = g[2] /\ r.place[2] = j[1] /\ r.place[3] = j[2]
        BY <3>4
      <4> QED BY <1>14, <4>1
    <3>6. g = j
      BY <3>3, <3>5
    <3> QED BY <3>1, <3>2, <3>6
  <2>2. CASE q \in B /\ r \in B
    <3>1. PICK x \in R : q.place = <<1, x, 0>> /\ q = RootRequest(p, sets, x)
      BY <1>10, <2>2
    <3>2. PICK y \in R : r.place = <<1, y, 0>> /\ r = RootRequest(p, sets, y)
      BY <1>10, <2>2
    <3>3. x = y
      <4>1. q.place[2] = x /\ r.place[2] = y
        BY <3>1, <3>2
      <4> QED BY <1>14, <4>1
    <3> QED BY <3>1, <3>2, <3>3
  <2>3. CASE q \in C /\ r \in C
    <3>1. PICK x \in DOMAIN p.auxiliary : q.place = <<2, x, 0>> /\ q = AuxiliaryRequest(p, x)
      BY <1>11, <2>3
    <3>2. PICK y \in DOMAIN p.auxiliary : r.place = <<2, y, 0>> /\ r = AuxiliaryRequest(p, y)
      BY <1>11, <2>3
    <3>3. x = y
      <4>1. q.place[2] = x /\ r.place[2] = y
        BY <3>1, <3>2
      <4> QED BY <1>14, <4>1
    <3> QED BY <3>1, <3>2, <3>3
  <2>4. q.place[1] = r.place[1]
    BY <1>14
  <2> QED BY <1>1, <1>13, <2>1, <2>2, <2>3, <2>4
<1>15. ASSUME NEW root \in Roots(sets) PROVE \E q \in S : root \in RootsOf(q)
  <2>1. CASE root \in R
    <3>1. RootRequest(p, sets, root) \in B /\ RootsOf(RootRequest(p, sets, root)) = {root}
      BY <1>3, <2>1, RootSound
    <3> QED BY <1>1, <3>1
  <2>2. CASE root \notin R
    BY <1>1, <1>7, <2>2
  <2> QED BY <2>1, <2>2
<1>16. ASSUME NEW q \in S, NEW r \in S, NEW root \in RootsOf(q), root \in RootsOf(r) PROVE q = r
  <2>1. CASE q \in A /\ r \in A
    <3>1. PICK g \in Iterated(p) : OfSequence(p, sets, g, q) /\ q = SequenceRequest(p, sets, g)
      BY <1>9, <2>1
    <3>2. PICK j \in Iterated(p) : OfSequence(p, sets, j, r) /\ r = SequenceRequest(p, sets, j)
      BY <1>9, <2>1
    <3>3. PICK a \in DOMAIN Group(p, g).inputs : root = sets.root[Group(p, g).inputs[a]]
      <4>1. root \in ToSet(SeqRoots(p, sets, g))
        BY <1>16, <3>1 DEF OfSequence
      <4> QED BY <4>1 DEF ToSet, SeqRoots
    <3>4. PICK b \in DOMAIN Group(p, j).inputs : root = sets.root[Group(p, j).inputs[b]]
      <4>1. root \in ToSet(SeqRoots(p, sets, j))
        BY <1>16, <3>2 DEF OfSequence
      <4> QED BY <4>1 DEF ToSet, SeqRoots
    <3>5. g = j
      <4>1. \A u, v \in Iterated(p) : \A i \in DOMAIN Group(p, u).inputs, l \in DOMAIN Group(p, v).inputs :
              sets.root[Group(p, u).inputs[i]] = sets.root[Group(p, v).inputs[l]] => u = v /\ i = l
        BY Zenon DEF Placeable
      <4> QED BY <3>3, <3>4, <4>1
    <3> QED BY <3>1, <3>2, <3>5
  <2>2. CASE q \in B /\ r \in B
    BY <1>10, <1>16, <2>2
  <2>3. CASE q \in C \/ r \in C
    BY <1>11, <1>16, <2>3
  <2>4. CASE (q \in A /\ r \in B) \/ (q \in B /\ r \in A)
    BY <1>6, <1>10, <1>16, <2>4
  <2> QED BY <1>1, <2>1, <2>2, <2>3, <2>4
<1>17. \A g \in Iterated(p) : \E q \in S : OfSequence(p, sets, g, q)
  BY <1>1, <1>2, SequenceFields
<1> QED BY <1>8, <1>12, <1>14, <1>15, <1>16, <1>17 DEF RequestsSound, S

-----------------------------------------------------------------------------
(* The requests in order.                                                  *)

\* How requests stand in a sequence: each of them once.
Serves(qs, S) ==
  /\ qs \in Seq(S) /\ \A i, j \in DOMAIN qs : qs[i] = qs[j] => i = j
  /\ \A q \in S : \E i \in DOMAIN qs : qs[i] = q

\* The keys of requests can be compared.
LEMMA KeysTyped ==
  ASSUME NEW p, WellFormed(p), NEW sets, NEW q, RequestSound(p, sets, q)
  PROVE  OnlineKey(q) \in Keys /\ OfflineKey(q) \in Keys
<1>1. /\ q.lifetime.first \in Int /\ q.lifetime.last \in Int /\ q.bytes \in Int
      /\ q.alignment \in Int /\ ClassRank(q) \in Int
      /\ q.place[1] \in Int /\ q.place[2] \in Int /\ q.place[3] \in Int
  BY AlignmentsTyped DEF RequestSound, RequestTyped, ClassRank
<1>2. /\ -q.alignment \in Int /\ -q.bytes \in Int /\ q.lifetime.first - q.lifetime.last \in Int
  BY <1>1
<1> QED BY <1>1, <1>2 DEF OnlineKey, OfflineKey, Keys

\* Requests with one key are one request.
LEMMA SameKeySamePlace ==
  ASSUME NEW p, NEW sets, NEW q, NEW r, RequestSound(p, sets, q), RequestSound(p, sets, r),
         OnlineKey(q) = OnlineKey(r) \/ OfflineKey(q) = OfflineKey(r)
  PROVE  q.place = r.place
<1>1. q.place[1] = r.place[1] /\ q.place[2] = r.place[2] /\ q.place[3] = r.place[3]
  <2>1. CASE OnlineKey(q) = OnlineKey(r)
    BY <2>1 DEF OnlineKey
  <2>2. CASE OfflineKey(q) = OfflineKey(r)
    BY <2>2 DEF OfflineKey
  <2> QED BY <2>1, <2>2
<1>2. q.place \in [1..3 -> Int] /\ r.place \in [1..3 -> Int]
  BY DEF RequestSound
<1>3. \A i \in 1..3 : q.place[i] = r.place[i]
  BY <1>1
<1> QED BY <1>2, <1>3

\* Sorting serves every request once; in lifetime order none begins before an earlier one.
LEMMA OnlineSorted ==
  ASSUME NEW p, WellFormed(p), NEW sets, NEW S, RequestsSound(p, sets, S)
  PROVE  /\ Serves(SortedBy(S, OnlineKey), S)
         /\ \A i, j \in DOMAIN SortedBy(S, OnlineKey) : i < j =>
              SortedBy(S, OnlineKey)[i].lifetime.first <= SortedBy(S, OnlineKey)[j].lifetime.first
<1> DEFINE key == [q \in S |-> OnlineKey(q)]
           n == Cardinality(S)
           s == SortedBy(S, OnlineKey)
<1>1. IsFiniteSet(S) /\ \A q \in S : RequestSound(p, sets, q)
  BY DEF RequestsSound
<1>2. \A q \in S : OnlineKey(q) \in Keys
  BY <1>1, KeysTyped
<1>3. key \in [S -> Keys] /\ \A q \in S : key[q] = OnlineKey(q)
  BY <1>2
<1>4. \A q, r \in S : key[q] = key[r] => q = r
  BY <1>1, <1>3, SameKeySamePlace DEF RequestsSound
<1>5. \A q \in S : {r \in S : Before(OnlineKey(r), OnlineKey(q))} = Ahead(S, key, q)
  BY <1>3 DEF Ahead
<1>6. InOrder(S, key, s)
  <2> DEFINE f(i) == CHOOSE q \in S : Cardinality({r \in S : Before(OnlineKey(r), OnlineKey(q))}) = i - 1
             h(i) == CHOOSE q \in S : Cardinality(Ahead(S, key, q)) = i - 1
  <2>1. s = [i \in 1..n |-> f(i)]
    BY Zenon DEF SortedBy
  <2>2. \A i \in 1..n : f(i) = h(i)
    BY <1>5
  <2> HIDE DEF f, h, s
  <2>3. s = [i \in 1..n |-> h(i)]
    BY <2>1, <2>2
  <2> QED BY <2>3, Zenon DEF InOrder, h
<1> HIDE DEF key, s
<1>7. /\ n \in Nat /\ s \in [1..n -> S]
      /\ \A i, j \in 1..n : s[i] = s[j] => i = j
      /\ \A x \in S : \E i \in 1..n : s[i] = x
      /\ \A i, j \in 1..n : i < j => ~Before(key[s[j]], key[s[i]])
  BY <1>1, <1>3, <1>4, <1>6, SortedByKey
<1> HIDE DEF n
<1>8. s \in Seq(S) /\ DOMAIN s = 1..n
  BY <1>7
<1>9. Serves(s, S)
  BY <1>7, <1>8 DEF Serves
<1>10. ASSUME NEW i \in 1..n, NEW j \in 1..n, i < j PROVE s[i].lifetime.first <= s[j].lifetime.first
  <2>1. ~Before(OnlineKey(s[j]), OnlineKey(s[i])) /\ s[i] \in S /\ s[j] \in S
    BY <1>3, <1>7, <1>10
  <2>2. s[i].lifetime.first \in Int /\ s[j].lifetime.first \in Int
    BY <1>1, <2>1 DEF RequestSound, RequestTyped
  <2>3. /\ OnlineKey(s[i])[1] = s[i].lifetime.first /\ OnlineKey(s[j])[1] = s[j].lifetime.first
        /\ 1 \in DOMAIN OnlineKey(s[j])
    BY DEF OnlineKey
  <2>4. ~(s[j].lifetime.first < s[i].lifetime.first)
    <3>1. \A m \in 1..(1 - 1) : OnlineKey(s[j])[m] = OnlineKey(s[i])[m]
      OBVIOUS
    <3> QED BY <2>1, <2>3, <3>1 DEF Before
  <2> QED BY <2>2, <2>4
<1> QED BY <1>8, <1>9, <1>10 DEF s

\* Sorting by size serves each request once.
LEMMA OfflineSorted ==
  ASSUME NEW p, WellFormed(p), NEW sets, NEW S, RequestsSound(p, sets, S)
  PROVE  Serves(SortedBy(S, OfflineKey), S)
<1> DEFINE key == [q \in S |-> OfflineKey(q)]
           n == Cardinality(S)
           s == SortedBy(S, OfflineKey)
<1>1. IsFiniteSet(S) /\ \A q \in S : RequestSound(p, sets, q)
  BY DEF RequestsSound
<1>2. \A q \in S : OfflineKey(q) \in Keys
  BY <1>1, KeysTyped
<1>3. key \in [S -> Keys] /\ \A q \in S : key[q] = OfflineKey(q)
  BY <1>2
<1>4. \A q, r \in S : key[q] = key[r] => q = r
  BY <1>1, <1>3, SameKeySamePlace DEF RequestsSound
<1>5. \A q \in S : {r \in S : Before(OfflineKey(r), OfflineKey(q))} = Ahead(S, key, q)
  BY <1>3 DEF Ahead
<1>6. InOrder(S, key, s)
  <2> DEFINE f(i) == CHOOSE q \in S : Cardinality({r \in S : Before(OfflineKey(r), OfflineKey(q))}) = i - 1
             h(i) == CHOOSE q \in S : Cardinality(Ahead(S, key, q)) = i - 1
  <2>1. s = [i \in 1..n |-> f(i)]
    BY Zenon DEF SortedBy
  <2>2. \A i \in 1..n : f(i) = h(i)
    BY <1>5
  <2> HIDE DEF f, h, s
  <2>3. s = [i \in 1..n |-> h(i)]
    BY <2>1, <2>2
  <2> QED BY <2>3, Zenon DEF InOrder, h
<1> HIDE DEF key, s
<1>7. /\ n \in Nat /\ s \in [1..n -> S]
      /\ \A i, j \in 1..n : s[i] = s[j] => i = j
      /\ \A x \in S : \E i \in 1..n : s[i] = x
  BY <1>1, <1>3, <1>4, <1>6, SortedByKey
<1> HIDE DEF n
<1>8. s \in Seq(S) /\ DOMAIN s = 1..n
  BY <1>7
<1>9. Serves(s, S)
  BY <1>7, <1>8 DEF Serves
<1> QED BY <1>9 DEF s

-----------------------------------------------------------------------------
(* The arena.                                                              *)

\* A range that lies in one of the ranges the placement may use.
InSome(p, f) ==
  /\ f \in Nat \X Nat /\ f[1] <= f[2]
  /\ \E r \in RangesOf(p) : r[1] <= f[1] /\ f[2] <= r[2]

IsArena(a) ==
  \E offline, history, spans, auxiliary, free, active, occupied :
    a = [offline |-> offline, history |-> history, spans |-> spans, auxiliary |-> auxiliary,
         free |-> free, active |-> active, occupied |-> occupied]

\* What is free, active and recorded lies in the ranges of the placement.
ArenaSound(p, a) ==
  /\ IsArena(a)
  /\ \A f \in a.free : InSome(p, f)
  /\ \A x \in a.active : InSome(p, <<x.start, x.end>>)
  /\ \A h \in a.history : InSome(p, <<h.start, h.end>>)

\* The ranges of a tile are apart and end somewhere.
LEMMA RangesTyped ==
  ASSUME NEW p, WellFormed(p)
  PROVE  /\ RangesOf(p) \in SUBSET (Nat \X Nat) /\ \A r \in RangesOf(p) : r[1] < r[2]
         /\ \A r, s \in RangesOf(p) : r # s => r[2] < s[1] \/ s[2] < r[1]
         /\ \E limit \in Nat : \A r \in RangesOf(p) : r[2] <= limit
<1>1. /\ p.ranges \subseteq Nat \X Nat /\ IsFiniteSet(p.ranges) /\ RangesOf(p) \subseteq p.ranges
      /\ \A r \in p.ranges : r[1] < r[2]
      /\ \A r, s \in p.ranges : r # s => r[2] < s[1] \/ s[2] < r[1]
  BY DEF WellFormed, RangesOf
<1> DEFINE f == [r \in p.ranges |-> r[2]]
           E == ImageOf(p.ranges, f)
<1>2. \A r \in p.ranges : r[2] \in Nat /\ f[r] = r[2]
  BY <1>1
<1>3. f \in [p.ranges -> Nat]
  BY <1>2
<1>4. IsFiniteSet(E)
  <2> HIDE DEF f
  <2> QED BY <1>1, <1>3, ImageFinite
<1>5. E \subseteq Nat /\ \A r \in p.ranges : r[2] \in E
  BY <1>2 DEF ImageOf
<1> HIDE DEF E, f
<1>6. \E limit \in Nat : \A r \in p.ranges : r[2] <= limit
  <2>1. CASE E = {}
    <3>1. \A r \in p.ranges : r[2] <= 0
      BY <1>5, <2>1
    <3> QED BY <3>1
  <2>2. CASE E # {}
    <3>1. E \subseteq Int
      BY <1>5
    <3>2. PICK x, z \in E : \A y \in E : x <= y /\ y <= z
      BY <1>4, <2>2, <3>1, Bounded
    <3> QED BY <1>5, <3>2
  <2> QED BY <2>1, <2>2
<1> QED BY <1>1, <1>6

\* Ranges of the placement, merged, are such ranges again, and two of them do not meet.
LEMMA MergeSound ==
  ASSUME NEW p, WellFormed(p), NEW S, \A f \in S : InSome(p, f)
  PROVE  /\ \A m \in MergeRanges(S) : InSome(p, m)
         /\ \A f \in S : \E m \in MergeRanges(S) : m[1] <= f[1] /\ f[2] <= m[2]
         /\ \A l, m \in MergeRanges(S) : l # m => l[2] < m[1] \/ m[2] < l[1]
         /\ \A m \in MergeRanges(S), x \in Int : m[1] <= x /\ x < m[2] =>
              \E f \in S : f[1] <= x /\ x < f[2]
<1>1. PICK limit \in Nat : \A r \in RangesOf(p) : r[2] <= limit
  BY RangesTyped
<1>2. /\ RangesOf(p) \in SUBSET (Nat \X Nat)
      /\ \A r, s \in RangesOf(p) : r # s => r[2] < s[1] \/ s[2] < r[1]
  BY RangesTyped
<1>3. S \in SUBSET Bounds(limit)
  <2>1. SUFFICES ASSUME NEW f \in S PROVE f \in Bounds(limit)
    OBVIOUS
  <2>2. f \in Nat \X Nat /\ f[1] <= f[2] /\ \E r \in RangesOf(p) : r[1] <= f[1] /\ f[2] <= r[2]
    BY <2>1 DEF InSome
  <2>3. PICK r \in RangesOf(p) : r[1] <= f[1] /\ f[2] <= r[2]
    BY <2>2
  <2>4. r[2] \in Nat /\ r[2] <= limit /\ f[2] \in Nat
    BY <1>1, <1>2, <2>2
  <2> QED BY <2>2, <2>3, <2>4 DEF Bounds
<1>4. ASSUME NEW m \in MergeRanges(S) PROVE InSome(p, m)
  <2>1. /\ m = <<m[1], m[2]>> /\ m[1] \in Nat /\ m[2] \in Nat /\ m[1] <= m[2]
    BY <1>3, MergeShape
  <2>2. \A q \in S : \E r \in RangesOf(p) : r[1] <= q[1] /\ q[2] <= r[2]
    BY DEF InSome
  <2>3. \E r \in RangesOf(p) : r[1] <= m[1] /\ m[2] <= r[2]
    BY <1>2, <1>3, <2>2, MergedInside
  <2> QED BY <2>1, <2>3 DEF InSome
<1>5. \A f \in S : \E m \in MergeRanges(S) : m[1] <= f[1] /\ f[2] <= m[2]
  BY <1>3, MergeCovers
<1>6. \A l, m \in MergeRanges(S) : l # m => l[2] < m[1] \/ m[2] < l[1]
  BY <1>3, MergedApart
<1>7. ASSUME NEW m \in MergeRanges(S), NEW x \in Int, m[1] <= x, x < m[2]
      PROVE  \E f \in S : f[1] <= x /\ x < f[2]
  BY <1>3, <1>7, MergeAddsNothing
<1> QED BY <1>4, <1>5, <1>6, <1>7

ActiveSpans(A) == {<<x.start, x.end>> : x \in A}
Meeting(a, q) ==
  {<<h.start, h.end>> :
     h \in {h \in a.history : /\ h.lifetime.first <= q.lifetime.last
                              /\ q.lifetime.first <= h.lifetime.last}}
LeftOver(p, merged) == UNION {Uncovered(r[1], r[2], merged) : r \in RangesOf(p)}

Released(p, a, q, b) ==
  /\ IsArena(b) /\ b.offline = a.offline /\ b.spans = a.spans /\ b.auxiliary = a.auxiliary
  /\ b.history = a.history /\ b.occupied = a.occupied
  /\ a.offline => b.active = {} /\ b.free = LeftOver(p, MergeRanges(Meeting(a, q)))
  /\ ~a.offline => \/ Dead(a, q) = {} /\ b.active = a.active /\ b.free = a.free
                   \/ /\ b.active = a.active \ Dead(a, q)
                      /\ b.free = MergeRanges(a.free \cup ActiveSpans(Dead(a, q)))

\* What Release does.
LEMMA ReleaseShape ==
  ASSUME NEW p, NEW a, IsArena(a), NEW q, NEW b, b = Release(p, a, q)
  PROVE  Released(p, a, q, b)
<1> DEFINE left == LeftOver(p, MergeRanges(Meeting(a, q)))
           merged == MergeRanges(a.free \cup ActiveSpans(Dead(a, q)))
           dead == Dead(a, q)
<1>1. b = IF a.offline THEN [a EXCEPT !.active = {}, !.free = left]
          ELSE IF dead = {} THEN a
          ELSE [a EXCEPT !.active = @ \ dead, !.free = merged]
  BY Zenon DEF Release, LeftOver, Meeting, ActiveSpans
<1> HIDE DEF left, merged, dead
<1>2. PICK offline, history, spans, auxiliary, free, active, occupied :
        a = [offline |-> offline, history |-> history, spans |-> spans, auxiliary |-> auxiliary,
             free |-> free, active |-> active, occupied |-> occupied]
  BY DEF IsArena
<1>3. CASE a.offline
  <2>1. b = [offline |-> offline, history |-> history, spans |-> spans, auxiliary |-> auxiliary,
             free |-> left, active |-> {}, occupied |-> occupied]
    BY <1>1, <1>2, <1>3
  <2>2. IsArena(b)
    BY <2>1, Zenon DEF IsArena
  <2>3. /\ b.offline = a.offline /\ b.spans = a.spans /\ b.auxiliary = a.auxiliary
        /\ b.history = a.history /\ b.occupied = a.occupied /\ b.active = {} /\ b.free = left
    BY <1>2, <2>1
  <2> QED BY <1>3, <2>2, <2>3 DEF left, Released
<1>4. CASE ~a.offline /\ dead = {}
  <2>1. b = a
    BY <1>1, <1>4
  <2> QED BY <1>4, <2>1 DEF dead, Released
<1>5. CASE ~a.offline /\ dead # {}
  <2>1. b = [offline |-> offline, history |-> history, spans |-> spans, auxiliary |-> auxiliary,
             free |-> merged, active |-> active \ dead, occupied |-> occupied]
    BY <1>1, <1>2, <1>5
  <2>2. IsArena(b)
    BY <2>1, Zenon DEF IsArena
  <2>3. /\ b.offline = a.offline /\ b.spans = a.spans /\ b.auxiliary = a.auxiliary
        /\ b.history = a.history /\ b.occupied = a.occupied /\ b.active = a.active \ dead
        /\ b.free = merged
    BY <1>2, <2>1
  <2> QED BY <1>5, <2>2, <2>3 DEF merged, dead, Released
<1> QED BY <1>3, <1>4, <1>5

\* What is released lies in the ranges of the tile.
LEMMA ReleaseSound ==
  ASSUME NEW p, WellFormed(p), NEW a, ArenaSound(p, a), NEW q, NEW b, b = Release(p, a, q)
  PROVE  ArenaSound(p, b)
<1>1. IsArena(a)
  BY DEF ArenaSound
<1>2. Released(p, a, q, b)
  BY <1>1, ReleaseShape
<1>3. CASE a.offline
  <2> DEFINE merged == MergeRanges(Meeting(a, q))
  <2>1. \A f \in Meeting(a, q) : InSome(p, f)
    BY DEF ArenaSound, Meeting
  <2>2. merged \in SUBSET (Nat \X Nat)
    <3>1. \A m \in merged : InSome(p, m)
      BY <2>1, MergeSound
    <3> QED BY <3>1 DEF InSome
  <2> HIDE DEF merged
  <2>3. ASSUME NEW f \in LeftOver(p, merged) PROVE InSome(p, f)
    <3>1. PICK r \in RangesOf(p) : f \in Uncovered(r[1], r[2], merged)
      BY <2>3 DEF LeftOver
    <3>2. r[1] \in Nat /\ r[2] \in Nat
      BY RangesTyped
    <3>3. f = <<f[1], f[2]>> /\ f[1] \in Nat /\ f[2] \in Nat /\ r[1] <= f[1] /\ f[1] < f[2] /\ f[2] <= r[2]
      BY <2>2, <3>1, <3>2, Leftovers
    <3>4. f \in Nat \X Nat /\ f[1] <= f[2]
      BY <3>3
    <3> QED BY <3>3, <3>4 DEF InSome
  <2>4. b.free = LeftOver(p, merged) /\ b.active = {} /\ IsArena(b) /\ b.history = a.history
    BY <1>2, <1>3 DEF Released, merged
  <2> QED BY <2>3, <2>4 DEF ArenaSound
<1>4. CASE ~a.offline
  <2>1. \A f \in a.free \cup ActiveSpans(Dead(a, q)) : InSome(p, f)
    BY DEF ArenaSound, ActiveSpans, Dead
  <2>2. \A m \in MergeRanges(a.free \cup ActiveSpans(Dead(a, q))) : InSome(p, m)
    BY <2>1, MergeSound
  <2> DEFINE merged == MergeRanges(a.free \cup ActiveSpans(Dead(a, q)))
  <2>3. IsArena(b) /\ b.history = a.history /\ b.active \subseteq a.active
    BY <1>2, <1>4 DEF Released
  <2>4. b.free = a.free \/ b.free = merged
    BY <1>2, <1>4 DEF Released
  <2> HIDE DEF merged
  <2> QED BY <2>2, <2>3, <2>4 DEF ArenaSound, merged
<1> QED BY <1>3, <1>4

\* What Take and Record do.
LEMMA TakeSound ==
  ASSUME NEW p, WellFormed(p), NEW a, ArenaSound(p, a), NEW c, c.range \in a.free,
         c.start \in Nat, c.bytes \in Nat, c.range[1] <= c.start, c.start + c.bytes <= c.range[2],
         NEW b, b = Take(a, c)
  PROVE  /\ ArenaSound(p, b) /\ b.offline = a.offline /\ b.spans = a.spans
         /\ b.auxiliary = a.auxiliary /\ b.history = a.history /\ b.active = a.active
         /\ b.occupied = a.occupied
         /\ b.free = (a.free \ {c.range})
              \cup {r \in {<<c.range[1], c.start>>, <<c.start + c.bytes, c.range[2]>>} : r[1] < r[2]}
<1> DEFINE rest == {r \in {<<c.range[1], c.start>>, <<c.start + c.bytes, c.range[2]>>} : r[1] < r[2]}
           left == (a.free \ {c.range}) \cup rest
<1>1. PICK offline, history, spans, auxiliary, free, active, occupied :
        a = [offline |-> offline, history |-> history, spans |-> spans, auxiliary |-> auxiliary,
             free |-> free, active |-> active, occupied |-> occupied]
  BY DEF ArenaSound, IsArena
<1>2. b = [a EXCEPT !.free = left]
  <2>1. b = [a EXCEPT !.free = (@ \ {c.range}) \cup rest]
    BY Zenon DEF Take
  <2> HIDE DEF rest
  <2> QED BY <1>1, <2>1
<1>3. \A f \in rest : InSome(p, f)
  <2>1. SUFFICES ASSUME NEW f \in rest PROVE InSome(p, f)
    OBVIOUS
  <2> DEFINE e == c.start + c.bytes
  <2>2. InSome(p, c.range)
    BY DEF ArenaSound
  <2>3. c.range[1] \in Nat /\ c.range[2] \in Nat /\ e \in Nat /\ c.start <= e /\ e <= c.range[2]
    BY <2>2 DEF InSome
  <2>4. PICK r \in RangesOf(p) : r[1] <= c.range[1] /\ c.range[2] <= r[2]
    BY <2>2 DEF InSome
  <2>0. r[1] \in Nat /\ r[2] \in Nat
    BY RangesTyped
  <2> HIDE DEF e
  <2>5. CASE f = <<c.range[1], c.start>>
    <3>1. f \in Nat \X Nat /\ f[1] = c.range[1] /\ f[2] = c.start /\ f[1] <= f[2]
      BY <2>3, <2>5
    <3>2. r[1] <= f[1] /\ f[2] <= r[2]
      BY <2>0, <2>3, <2>4, <3>1
    <3> QED BY <3>1, <3>2 DEF InSome
  <2>6. CASE f = <<e, c.range[2]>>
    <3>1. f \in Nat \X Nat /\ f[1] = e /\ f[2] = c.range[2] /\ f[1] <= f[2]
      BY <2>3, <2>6
    <3>2. r[1] <= f[1] /\ f[2] <= r[2]
      BY <2>0, <2>3, <2>4, <3>1
    <3> QED BY <3>1, <3>2 DEF InSome
  <2> QED BY <2>1, <2>5, <2>6 DEF e
<1> HIDE DEF rest
<1>4. /\ b = [offline |-> offline, history |-> history, spans |-> spans, auxiliary |-> auxiliary,
              free |-> left, active |-> active, occupied |-> occupied]
  BY <1>1, <1>2
<1>5. \A f \in left : InSome(p, f)
  BY <1>3 DEF ArenaSound
<1> HIDE DEF left
<1>6. IsArena(b)
  BY <1>4 DEF IsArena
<1>7. /\ b.offline = a.offline /\ b.spans = a.spans /\ b.auxiliary = a.auxiliary
      /\ b.history = a.history /\ b.active = a.active /\ b.free = left
      /\ b.occupied = a.occupied
  BY <1>1, <1>4
<1>8. ArenaSound(p, b)
  BY <1>5, <1>6, <1>7 DEF ArenaSound
<1> QED BY <1>7, <1>8 DEF left, rest

\* A candidate lies in a free range, is a place for the request and meets no element of
\* the roots the request is kept apart from.
LEMMA CandidateFits ==
  ASSUME NEW p, WellFormed(p), NEW q, RequestTyped(p, q), NEW a, ArenaSound(p, a),
         NEW c \in Candidates(p, a, q)
  PROVE  /\ c.range \in a.free /\ c.start \in Nat /\ c.bytes \in Nat
         /\ Fits(p, q, c.range, c.start, c.start + c.bytes)
         /\ \A f \in Forbidden(a, q) : c.start >= f[2] \/ f[1] >= c.start + c.bytes
<1> DEFINE F == Forbidden(a, q)
<1>1. PICK d \in Domains(p, q, a.free) :
        /\ StartsClear(d.domain, F) # {}
        /\ c = [range |-> d.range, start |-> Min(StartsClear(d.domain, F)), bytes |-> d.domain.bytes]
  BY Zenon DEF Candidates
<1>2. PICK r \in a.free, region1 \in BOOLEAN :
        d = [range |-> r, domain |-> Domain(p, q, r, region1)]
  <2>1. d \in {[range |-> r, domain |-> Domain(p, q, r, region1)] : r \in a.free, region1 \in BOOLEAN}
    BY DEF Domains
  <2> QED BY <2>1
<1>3. d.domain.first <= d.domain.last
  BY DEF Domains
<1> DEFINE D == Domain(p, q, r, region1)
<1>4. d.range = r /\ d.domain = D
  BY <1>2
<1> HIDE DEF F, D
<1>5. D.first <= D.last
  BY <1>3, <1>4
<1>6. r \in Nat \X Nat
  BY DEF ArenaSound, InSome
<1>7. GoodDomain(p, q, {r}, D)
  BY <1>5, <1>6, DomainIsGood DEF D
<1>8. /\ D.first \in Nat /\ D.last \in Nat /\ D.bytes \in Nat /\ D.alignment \in Nat \ {0}
      /\ D.first % D.alignment = 0
      /\ \A start \in Nat : Aligned(D, start) => Fits(p, q, r, start, start + D.bytes)
  BY <1>7 DEF GoodDomain
<1> DEFINE S == StartsClear(D, F)
<1>9. \A x \in S : /\ x \in D.first..D.last /\ (x - D.first) % D.alignment = 0
                   /\ \A f \in F : x >= f[2] \/ f[1] >= x + D.bytes
  BY DEF StartsClear
<1> HIDE DEF S
<1>10. S \subseteq Nat /\ S # {}
  BY <1>1, <1>4, <1>8, <1>9 DEF S
<1> DEFINE x == Min(S)
<1>11. x \in S
  BY <1>10, MinOf
<1>12. c.range = r /\ c.start = x /\ c.bytes = D.bytes
  BY <1>1, <1>4 DEF S
<1> HIDE DEF x
<1>13. x \in Nat /\ x \in D.first..D.last
  BY <1>9, <1>10, <1>11
<1>14. x % D.alignment = 0
  <2>1. x - D.first \in Int /\ D.first \in Int /\ (x - D.first) + D.first = x
    BY <1>8, <1>13
  <2>2. (x - D.first) % D.alignment = 0
    BY <1>9, <1>11
  <2>3. ((x - D.first) + D.first) % D.alignment = 0
    BY <1>8, <2>1, <2>2, MultiplesAdd
  <2> QED BY <2>1, <2>3
<1>15. Fits(p, q, r, x, x + D.bytes)
  BY <1>8, <1>13, <1>14 DEF Aligned
<1> QED BY <1>8, <1>9, <1>11, <1>12, <1>13, <1>15 DEF F

Overlaid(f, g, h) ==
  /\ DOMAIN h = DOMAIN f \cup DOMAIN g
  /\ \A x \in DOMAIN f : h[x] = f[x]
  /\ \A x \in DOMAIN g : x \notin DOMAIN f => h[x] = g[x]

\* One function over another.
LEMMA OverShape ==
  ASSUME NEW f, NEW g
  PROVE  Overlaid(f, g, Over(f, g))
<1> DEFINE h == Over(f, g)
<1>1. h = [x \in DOMAIN f \cup DOMAIN g |-> IF x \in DOMAIN f THEN f[x] ELSE g[x]]
  BY Zenon DEF Over
<1> HIDE DEF h
<1>2. Overlaid(f, g, h)
  BY <1>1 DEF Overlaid
<1> QED BY <1>2 DEF h

\* Where a request of auxiliary storage, or of roots, stands in the arena.
SpotOf(a, q) ==
  IF q.auxiliary # 0
    THEN <<a.auxiliary[q.auxiliary], a.auxiliary[q.auxiliary] + q.bytes>>
    ELSE a.spans[CHOOSE root \in RootsOf(q) : TRUE]

RecordedAs(a, q, start, end, b) ==
  /\ IsArena(b) /\ b.offline = a.offline /\ b.free = a.free
  /\ b.auxiliary = (IF q.auxiliary = 0 THEN a.auxiliary
                    ELSE Over([i \in {q.auxiliary} |-> start], a.auxiliary))
  /\ b.spans = Over([root \in RootsOf(q) |-> <<start, end>>], a.spans)
  /\ b.active = a.active \cup {[last |-> q.lifetime.last, start |-> start, end |-> end]}
  /\ b.occupied = a.occupied \cup {<<start, end>>}
  /\ b.history = (IF a.offline
                  THEN a.history \cup {[lifetime |-> q.lifetime, start |-> start, end |-> end]}
                  ELSE a.history)

\* Arena::record(), field by field.
LEMMA RecordShape ==
  ASSUME NEW a, IsArena(a), NEW q, NEW start, NEW end, NEW b, b = Record(a, q, start, end)
  PROVE  RecordedAs(a, q, start, end, b)
<1> DEFINE x == IF q.auxiliary = 0 THEN a.auxiliary
                ELSE Over([i \in {q.auxiliary} |-> start], a.auxiliary)
           s == Over([root \in RootsOf(q) |-> <<start, end>>], a.spans)
           c == a.active \cup {[last |-> q.lifetime.last, start |-> start, end |-> end]}
           o == a.occupied \cup {<<start, end>>}
           h == IF a.offline
                  THEN a.history \cup {[lifetime |-> q.lifetime, start |-> start, end |-> end]}
                  ELSE a.history
<1>1. PICK offline, history, spans, auxiliary, free, active, occupied :
        a = [offline |-> offline, history |-> history, spans |-> spans, auxiliary |-> auxiliary,
             free |-> free, active |-> active, occupied |-> occupied]
  BY DEF IsArena
<1>2. /\ a.offline = offline /\ a.history = history /\ a.spans = spans /\ a.auxiliary = auxiliary
      /\ a.free = free /\ a.active = active /\ a.occupied = occupied
  BY <1>1
<1>3. b = [a EXCEPT !.auxiliary = IF q.auxiliary = 0 THEN @ ELSE Over([i \in {q.auxiliary} |-> start], @),
                    !.spans = Over([root \in RootsOf(q) |-> <<start, end>>], @),
                    !.active = @ \cup {[last |-> q.lifetime.last, start |-> start, end |-> end]},
                    !.occupied = @ \cup {<<start, end>>},
                    !.history = IF a.offline
                      THEN @ \cup {[lifetime |-> q.lifetime, start |-> start, end |-> end]} ELSE @]
  BY Zenon DEF Record
<1>4. b = [offline |-> offline, history |-> h, spans |-> s, auxiliary |-> x, free |-> free,
           active |-> c, occupied |-> o]
  BY <1>1, <1>3
<1> HIDE DEF x, s, c, o, h
<1>5. IsArena(b)
  BY <1>4, Zenon DEF IsArena
<1>6. /\ b.offline = a.offline /\ b.free = a.free /\ b.auxiliary = x /\ b.spans = s
      /\ b.active = c /\ b.history = h /\ b.occupied = o
  BY <1>2, <1>4
<1> QED BY <1>5, <1>6, Zenon DEF RecordedAs, x, s, c, o, h

\* Recording keeps what was recorded of other requests.
LEMMA RecordSound ==
  ASSUME NEW p, NEW a, ArenaSound(p, a), NEW q, NEW start, NEW end, InSome(p, <<start, end>>),
         NEW b, b = Record(a, q, start, end)
  PROVE  /\ ArenaSound(p, b) /\ b.offline = a.offline /\ b.free = a.free
         /\ \A root : root \in DOMAIN b.spans <=> root \in DOMAIN a.spans \/ root \in RootsOf(q)
         /\ \A root \in RootsOf(q) : b.spans[root] = <<start, end>>
         /\ \A root \in DOMAIN a.spans : root \notin RootsOf(q) => b.spans[root] = a.spans[root]
         /\ q.auxiliary # 0 => b.auxiliary[q.auxiliary] = start
         /\ \A i : i # q.auxiliary /\ i \in DOMAIN a.auxiliary =>
              i \in DOMAIN b.auxiliary /\ b.auxiliary[i] = a.auxiliary[i]
         /\ q.auxiliary # 0 => q.auxiliary \in DOMAIN b.auxiliary
<1>1. RecordedAs(a, q, start, end, b)
  <2>1. IsArena(a)
    BY DEF ArenaSound
  <2> QED BY <2>1, RecordShape
<1> DEFINE f == [root \in RootsOf(q) |-> <<start, end>>]
           h == [i \in {q.auxiliary} |-> start]
<1>3. DOMAIN f = RootsOf(q) /\ \A root \in RootsOf(q) : f[root] = <<start, end>>
  OBVIOUS
<1>4. DOMAIN h = {q.auxiliary} /\ h[q.auxiliary] = start
  OBVIOUS
<1> HIDE DEF f, h
<1>5. b.spans = Over(f, a.spans) /\ b.offline = a.offline /\ b.free = a.free
  BY <1>1 DEF RecordedAs, f
<1>6. /\ q.auxiliary = 0 => b.auxiliary = a.auxiliary
      /\ q.auxiliary # 0 => b.auxiliary = Over(h, a.auxiliary)
  BY <1>1 DEF RecordedAs, h
<1>7. ArenaSound(p, b)
  <2>1. /\ b.active = a.active \cup {[last |-> q.lifetime.last, start |-> start, end |-> end]}
        /\ b.history = (IF a.offline
              THEN a.history \cup {[lifetime |-> q.lifetime, start |-> start, end |-> end]}
              ELSE a.history)
        /\ IsArena(b) /\ b.free = a.free
    BY <1>1 DEF RecordedAs
  <2>2. ASSUME NEW x \in b.active PROVE InSome(p, <<x.start, x.end>>)
    <3>1. CASE x \in a.active
      BY <3>1 DEF ArenaSound
    <3>2. CASE x = [last |-> q.lifetime.last, start |-> start, end |-> end]
      <4>1. x.start = start /\ x.end = end
        BY <3>2
      <4> QED BY <4>1
    <3> QED BY <2>1, <3>1, <3>2
  <2>3. ASSUME NEW x \in b.history PROVE InSome(p, <<x.start, x.end>>)
    <3>1. CASE x \in a.history
      BY <3>1 DEF ArenaSound
    <3>2. CASE x = [lifetime |-> q.lifetime, start |-> start, end |-> end]
      <4>1. x.start = start /\ x.end = end
        BY <3>2
      <4> QED BY <4>1
    <3> QED BY <2>1, <3>1, <3>2
  <2> QED BY <2>1, <2>2, <2>3 DEF ArenaSound
<1>8. /\ \A root : root \in DOMAIN b.spans <=> root \in DOMAIN a.spans \/ root \in RootsOf(q)
      /\ \A root \in RootsOf(q) : b.spans[root] = <<start, end>>
      /\ \A root \in DOMAIN a.spans : root \notin RootsOf(q) => b.spans[root] = a.spans[root]
  <2>1. Overlaid(f, a.spans, b.spans)
    BY <1>5, OverShape
  <2> QED BY <1>3, <2>1 DEF Overlaid
<1>9. /\ q.auxiliary # 0 => b.auxiliary[q.auxiliary] = start /\ q.auxiliary \in DOMAIN b.auxiliary
      /\ \A i : i # q.auxiliary /\ i \in DOMAIN a.auxiliary =>
           i \in DOMAIN b.auxiliary /\ b.auxiliary[i] = a.auxiliary[i]
  <2>1. CASE q.auxiliary = 0
    BY <1>6, <2>1
  <2>2. CASE q.auxiliary # 0
    <3>1. Overlaid(h, a.auxiliary, b.auxiliary)
      BY <1>6, <2>2, OverShape
    <3> QED BY <1>4, <2>2, <3>1 DEF Overlaid
  <2> QED BY <2>1, <2>2
<1> QED BY <1>5, <1>7, <1>8, <1>9

\* The address a placed request gives to a member of its i-th root.
LEMMA AssignedAt ==
  ASSUME NEW p, WellFormed(p), NEW q, RequestSound(p, AliasSets(p), q), NEW base
  PROVE  /\ \A s \in Shards(p), i \in DOMAIN q.assignments :
              AliasSets(p).root[s] = q.assignments[i].root =>
                /\ s \in DOMAIN Assigned(p, q, base)
                /\ Assigned(p, q, base)[s] = (base + Offset(q, base, i)) + MemberOffset(AliasSets(p), s)
         /\ \A s \in DOMAIN Assigned(p, q, base) :
              s \in Shards(p) /\ AliasSets(p).root[s] \in RootsOf(q)
<1> DEFINE sets == AliasSets(p)
           off(i) == IF base >= InterleavedBase /\ q.region1Stride # 0
                       THEN q.region1Stride * (i - 1) ELSE q.assignments[i].offset
           at(s) == CHOOSE i \in DOMAIN q.assignments : q.assignments[i].root = sets.root[s]
           D == UNION {Members(sets, root) : root \in RootsOf(q)}
           A == [s \in D |-> base + off(at(s)) + MemberOffset(sets, s)]
<1>1. Assigned(p, q, base) = A
  BY Zenon DEF Assigned
<1>2. sets \in SetsOf(p)
  BY AliasesTyped
<1> HIDE DEF sets
<1>3. \A root : Members(sets, root) = {s \in Shards(p) : sets.root[s] = root}
  BY <1>2, SetsTyped
<1>4. RootsOf(q) = {q.assignments[i].root : i \in DOMAIN q.assignments}
  <2>1. DOMAIN q.assignments = 1..Len(q.assignments)
    BY DEF RequestSound, sets
  <2>2. ToSet(q.assignments) = {q.assignments[i] : i \in DOMAIN q.assignments}
    BY Zenon DEF ToSet
  <2> QED BY <2>2 DEF RootsOf
<1>5. \A s : s \in D <=> s \in Shards(p) /\ sets.root[s] \in RootsOf(q)
  BY <1>3
<1>6. ASSUME NEW s \in Shards(p), NEW i \in DOMAIN q.assignments, sets.root[s] = q.assignments[i].root
      PROVE  s \in D /\ A[s] = (base + Offset(q, base, i)) + MemberOffset(sets, s)
  <2>1. sets.root[s] \in RootsOf(q)
    BY <1>4, <1>6
  <2>2. s \in D
    BY <1>5, <2>1
  <2>3. \A j \in DOMAIN q.assignments : q.assignments[j].root = sets.root[s] => j = i
    BY <1>6 DEF RequestSound, sets
  <2>4. at(s) = i
    BY <1>6, <2>3, Zenon
  <2> HIDE DEF D, at
  <2>5. A[s] = base + off(at(s)) + MemberOffset(sets, s)
    BY <2>2
  <2>6. off(i) = Offset(q, base, i)
    BY DEF Offset
  <2> QED BY <2>2, <2>4, <2>5, <2>6
<1> HIDE DEF A
<1>7. DOMAIN A = D
  BY DEF A
<1> QED BY <1>1, <1>5, <1>6, <1>7 DEF sets

\* The requests as they are served: sound, no root in two of them, every root in one.
QueueSound(p, qs) ==
  /\ DOMAIN qs = 1..Len(qs) /\ Len(qs) \in Nat
  /\ \A i \in DOMAIN qs : RequestSound(p, AliasSets(p), qs[i])
  /\ \A i, j \in DOMAIN qs : RootsOf(qs[i]) \cap RootsOf(qs[j]) # {} => i = j
  /\ \A i, j \in DOMAIN qs : qs[i].auxiliary # 0 /\ qs[i].auxiliary = qs[j].auxiliary => i = j
  /\ \A root \in Roots(AliasSets(p)) : \E i \in DOMAIN qs : root \in RootsOf(qs[i])
  /\ \A g \in Iterated(p) : \E i \in DOMAIN qs : OfSequence(p, AliasSets(p), g, qs[i])

\* A queue of all requests is sound.
LEMMA ServedIsSound ==
  ASSUME NEW p, WellFormed(p), Placeable(p, AliasSets(p)),
         NEW qs, Serves(qs, AllocationRequests(p, AliasSets(p)))
  PROVE  QueueSound(p, qs)
<1> DEFINE sets == AliasSets(p)
           S == AllocationRequests(p, sets)
<1>1. RequestsSound(p, sets, S)
  BY AliasesTyped, AllRequestsSound
<1> HIDE DEF sets, S
<1>2. /\ qs \in Seq(S) /\ \A i, j \in DOMAIN qs : qs[i] = qs[j] => i = j
      /\ \A q \in S : \E i \in DOMAIN qs : qs[i] = q
  BY DEF Serves, S, sets
<1>3. DOMAIN qs = 1..Len(qs) /\ Len(qs) \in Nat /\ \A i \in DOMAIN qs : qs[i] \in S
  BY <1>2
<1>4. \A i \in DOMAIN qs : RequestSound(p, sets, qs[i])
  BY <1>1, <1>3 DEF RequestsSound
<1>5. \A i, j \in DOMAIN qs : RootsOf(qs[i]) \cap RootsOf(qs[j]) # {} => i = j
  BY <1>1, <1>2, <1>3 DEF RequestsSound
<1>6. ASSUME NEW i \in DOMAIN qs, NEW j \in DOMAIN qs, qs[i].auxiliary # 0,
             qs[i].auxiliary = qs[j].auxiliary
      PROVE  i = j
  <2>1. qs[i].place = <<2, qs[i].auxiliary, 0>> /\ qs[j].place = <<2, qs[j].auxiliary, 0>>
    BY <1>4, <1>6 DEF RequestSound, Identified
  <2>2. qs[i].place = qs[j].place
    BY <1>6, <2>1
  <2> QED BY <1>1, <1>2, <1>3, <2>2 DEF RequestsSound
<1>7. \A root \in Roots(sets) : \E i \in DOMAIN qs : root \in RootsOf(qs[i])
  BY <1>1, <1>2 DEF RequestsSound
<1>8. \A g \in Iterated(p) : \E i \in DOMAIN qs : OfSequence(p, sets, g, qs[i])
  BY <1>1, <1>2 DEF RequestsSound
<1> QED BY <1>3, <1>4, <1>5, <1>6, <1>7, <1>8 DEF QueueSound, sets

\* A request kept apart from another conflicts with one of its roots.
LEMMA KeptMeans ==
  ASSUME NEW p, NEW qs, QueueSound(p, qs), NEW i \in DOMAIN qs, NEW j \in DOMAIN qs, i # j,
         KeptApart(qs[i], qs[j])
  PROVE  \E root \in RootsOf(qs[i]) : root \in qs[j].conflicts
<1>1. CASE RootsOf(qs[i]) \cap qs[j].conflicts # {}
  BY <1>1
<1>2. CASE RootsOf(qs[j]) \cap qs[i].conflicts # {}
  <2>1. PICK root \in RootsOf(qs[j]) : root \in qs[i].conflicts
    BY <1>2
  <2>2. PICK other \in RootsOf(qs[i]) : root \in Conflicts(p, AliasSets(p), other)
    BY <2>1 DEF QueueSound, RequestSound, ConflictsOf
  <2>3. other \in Conflicts(p, AliasSets(p), root)
    BY <2>2, ConflictsMutual
  <2>4. other \notin RootsOf(qs[j])
    BY DEF QueueSound
  <2>5. other \in qs[j].conflicts
    BY <2>1, <2>3, <2>4 DEF QueueSound, RequestSound, ConflictsOf
  <2> QED BY <2>5
<1> QED BY <1>1, <1>2 DEF KeptApart

-----------------------------------------------------------------------------
(* What has been placed.                                                   *)

\* The i-th request fits where it stands.
Standing(p, qs, a, i) ==
  \E r \in RangesOf(p) : Fits(p, qs[i], r, SpotOf(a, qs[i])[1], SpotOf(a, qs[i])[2])

\* Of n requests placed each fits, and operands of one access share no element.
Clear(p, qs, n, a) ==
  /\ \A i \in 1..n : Standing(p, qs, a, i)
  /\ \A i, j \in 1..n : i # j /\ KeptApart(qs[i], qs[j])
       => ElementsApart(SpotOf(a, qs[i]), SpotOf(a, qs[j]))

\* The arena knows where they are,
Known(qs, n, a) ==
  /\ \A root : root \in DOMAIN a.spans <=> \E i \in 1..n : root \in RootsOf(qs[i])
  /\ \A i \in 1..n : \A root \in RootsOf(qs[i]) : a.spans[root] = SpotOf(a, qs[i])
  /\ \A i \in 1..n : qs[i].auxiliary # 0 => qs[i].auxiliary \in DOMAIN a.auxiliary

\* and the members have their addresses in them.
AddressedBy(p, q, base, addressed) ==
  \A s \in Shards(p), k \in DOMAIN q.assignments :
    AliasSets(p).root[s] = q.assignments[k].root =>
      /\ s \in DOMAIN addressed
      /\ addressed[s] = (base + Offset(q, base, k)) + MemberOffset(AliasSets(p), s)

Legal(p, qs, n, a, addressed) ==
  /\ ArenaSound(p, a) /\ Clear(p, qs, n, a) /\ Known(qs, n, a)
  /\ \A i \in 1..n : AddressedBy(p, qs[i], SpotOf(a, qs[i])[1], addressed)

\* Recording one more leaves the others where they are.
LEMMA SpotsKept ==
  ASSUME NEW p, WellFormed(p), NEW qs, QueueSound(p, qs), NEW n \in Nat, n + 1 \in DOMAIN qs,
         NEW a, Known(qs, n, a), NEW c, ArenaSound(p, c), c.spans = a.spans, c.auxiliary = a.auxiliary,
         NEW start, NEW end, InSome(p, <<start, end>>),
         qs[n + 1].auxiliary # 0 => end = start + qs[n + 1].bytes,
         NEW b, b = Record(c, qs[n + 1], start, end)
  PROVE  /\ SpotOf(b, qs[n + 1]) = <<start, end>>
         /\ \A i \in 1..n : SpotOf(b, qs[i]) = SpotOf(a, qs[i])
         /\ Known(qs, n + 1, b)
<1> DEFINE m == n + 1
           q == qs[m]
<1>0. m \in DOMAIN qs /\ 1..n \subseteq DOMAIN qs /\ m \notin 1..n /\ 1..m = (1..n) \cup {m}
  BY DEF QueueSound
<1>1. /\ \A root : root \in DOMAIN b.spans <=> root \in DOMAIN a.spans \/ root \in RootsOf(q)
      /\ \A root \in RootsOf(q) : b.spans[root] = <<start, end>>
      /\ \A root \in DOMAIN a.spans : root \notin RootsOf(q) => b.spans[root] = a.spans[root]
      /\ q.auxiliary # 0 => b.auxiliary[q.auxiliary] = start /\ q.auxiliary \in DOMAIN b.auxiliary
      /\ \A i : i # q.auxiliary /\ i \in DOMAIN a.auxiliary =>
           i \in DOMAIN b.auxiliary /\ b.auxiliary[i] = a.auxiliary[i]
  BY RecordSound
<1> HIDE DEF m
<1>2. \A i \in DOMAIN qs : Identified(qs[i])
  BY DEF QueueSound, RequestSound
<1>3. SpotOf(b, q) = <<start, end>>
  <2>1. CASE q.auxiliary # 0
    BY <1>1, <2>1 DEF SpotOf, m
  <2>2. CASE q.auxiliary = 0
    <3>1. (CHOOSE root \in RootsOf(q) : TRUE) \in RootsOf(q)
      BY <1>0, <1>2, <2>2 DEF Identified
    <3> QED BY <1>1, <2>2, <3>1 DEF SpotOf
  <2> QED BY <2>1, <2>2
<1>4. ASSUME NEW i \in 1..n
      PROVE  /\ SpotOf(b, qs[i]) = SpotOf(a, qs[i])
             /\ \A root \in RootsOf(qs[i]) : b.spans[root] = a.spans[root]
             /\ qs[i].auxiliary # 0 => qs[i].auxiliary \in DOMAIN b.auxiliary
  <2>1. i \in DOMAIN qs /\ i # m
    BY <1>0
  <2>2. \A root \in RootsOf(qs[i]) : root \in DOMAIN a.spans /\ root \notin RootsOf(q)
    <3>1. RootsOf(qs[i]) \cap RootsOf(q) = {}
      BY <1>0, <2>1 DEF QueueSound
    <3> QED BY <3>1 DEF Known
  <2>3. \A root \in RootsOf(qs[i]) : b.spans[root] = a.spans[root]
    BY <1>1, <2>2
  <2>4. CASE qs[i].auxiliary # 0
    <3>1. qs[i].auxiliary \in DOMAIN a.auxiliary
      BY <2>4 DEF Known
    <3>2. qs[i].auxiliary # q.auxiliary
      BY <1>0, <2>1, <2>4 DEF QueueSound
    <3>3. b.auxiliary[qs[i].auxiliary] = a.auxiliary[qs[i].auxiliary]
          /\ qs[i].auxiliary \in DOMAIN b.auxiliary
      BY <1>1, <3>1, <3>2
    <3> QED BY <2>3, <2>4, <3>3 DEF SpotOf
  <2>5. CASE qs[i].auxiliary = 0
    <3>1. (CHOOSE root \in RootsOf(qs[i]) : TRUE) \in RootsOf(qs[i])
      BY <1>2, <2>1, <2>5 DEF Identified
    <3> QED BY <2>3, <2>5, <3>1 DEF SpotOf
  <2> QED BY <2>4, <2>5
<1>5. Known(qs, m, b)
  <2>1. \A root : root \in DOMAIN b.spans <=> \E i \in 1..m : root \in RootsOf(qs[i])
    BY <1>0, <1>1 DEF Known
  <2>2. \A i \in 1..m : \A root \in RootsOf(qs[i]) : b.spans[root] = SpotOf(b, qs[i])
    BY <1>0, <1>1, <1>3, <1>4 DEF Known
  <2>3. \A i \in 1..m : qs[i].auxiliary # 0 => qs[i].auxiliary \in DOMAIN b.auxiliary
    BY <1>0, <1>1, <1>4
  <2> QED BY <2>1, <2>2, <2>3 DEF Known
<1> QED BY <1>3, <1>4, <1>5 DEF m

\* One more request that is put where it fits, apart from the elements of those it must be
\* kept apart from, leaves everything legal.
LEMMA PlaceNext ==
  ASSUME NEW p, WellFormed(p), NEW qs, QueueSound(p, qs), NEW n \in Nat, n + 1 \in DOMAIN qs,
         NEW a, NEW addressed, Legal(p, qs, n, a, addressed),
         NEW c, ArenaSound(p, c), c.spans = a.spans, c.auxiliary = a.auxiliary,
         NEW start, NEW end, NEW r \in RangesOf(p), Fits(p, qs[n + 1], r, start, end),
         \A i \in 1..n : KeptApart(qs[n + 1], qs[i]) =>
           ElementsApart(SpotOf(a, qs[i]), <<start, end>>),
         NEW b, b = Record(c, qs[n + 1], start, end),
         NEW more, more = Over(Assigned(p, qs[n + 1], start), addressed)
  PROVE  Legal(p, qs, n + 1, b, more)
<1> DEFINE m == n + 1
           q == qs[m]
<1>1. m \in DOMAIN qs /\ 1..n \subseteq DOMAIN qs /\ m \notin 1..n /\ 1..m = (1..n) \cup {m}
  BY DEF QueueSound
<1>2. RequestSound(p, AliasSets(p), q)
  BY <1>1 DEF QueueSound
<1>3. start \in Nat /\ end \in Nat /\ start <= end /\ r[1] <= start /\ end <= r[2]
  <2>1. /\ start \in Nat /\ end \in Nat /\ end = start + BytesAt(q, start)
        /\ r[1] <= start /\ end <= r[2]
    BY DEF Fits
  <2>2. BytesAt(q, start) \in Nat
    <3>1. q.bytes \in Nat /\ q.region1Stride \in Nat /\ Len(q.assignments) \in Nat
      BY <1>2 DEF RequestSound, RequestTyped
    <3>2. q.region1Stride * Len(q.assignments) \in Nat
      BY <3>1
    <3> QED BY <3>1, <3>2 DEF BytesAt
  <2> QED BY <2>1, <2>2
<1>4. InSome(p, <<start, end>>)
  BY <1>3 DEF InSome
<1>5. q.auxiliary # 0 => end = start + q.bytes
  BY <1>2 DEF RequestSound, Identified, Fits, BytesAt
<1>6. Known(qs, n, a) /\ Clear(p, qs, n, a)
      /\ \A i \in 1..n : AddressedBy(p, qs[i], SpotOf(a, qs[i])[1], addressed)
  BY DEF Legal
<1>7. /\ SpotOf(b, q) = <<start, end>>
      /\ \A i \in 1..n : SpotOf(b, qs[i]) = SpotOf(a, qs[i])
      /\ Known(qs, m, b)
  BY <1>4, <1>5, <1>6, SpotsKept
<1>8. ArenaSound(p, b)
  BY <1>4, RecordSound
<1> HIDE DEF m
<1>9. Clear(p, qs, m, b)
  <2>1. ASSUME NEW i \in 1..m PROVE Standing(p, qs, b, i)
    <3>1. CASE i \in 1..n
      <4>1. Standing(p, qs, a, i)
        BY <1>6, <3>1 DEF Clear
      <4> QED BY <1>7, <3>1, <4>1 DEF Standing
    <3>2. CASE i = m
      <4>1. SpotOf(b, q)[1] = start /\ SpotOf(b, q)[2] = end
        BY <1>7
      <4>2. Fits(p, q, r, start, end)
        BY DEF m
      <4> QED BY <3>2, <4>1, <4>2 DEF Standing
    <3> QED BY <1>1, <3>1, <3>2
  <2>2. ASSUME NEW i \in 1..m, NEW j \in 1..m, i # j, KeptApart(qs[i], qs[j])
        PROVE  ElementsApart(SpotOf(b, qs[i]), SpotOf(b, qs[j]))
    <3>1. CASE i \in 1..n /\ j \in 1..n
      BY <1>6, <1>7, <2>2, <3>1 DEF Clear
    <3>2. CASE i \in 1..n /\ j = m
      <4>1. KeptApart(q, qs[i])
        BY <2>2, <3>2 DEF KeptApart
      <4>2. ElementsApart(SpotOf(a, qs[i]), <<start, end>>)
        BY <3>2, <4>1 DEF m
      <4> QED BY <1>7, <3>2, <4>2
    <3>3. CASE i = m /\ j \in 1..n
      <4>1. ElementsApart(SpotOf(a, qs[j]), <<start, end>>)
        BY <2>2, <3>3 DEF m
      <4>2. ElementsApart(<<start, end>>, SpotOf(a, qs[j]))
        BY <4>1, ElementsApartBothWays
      <4> QED BY <1>7, <3>3, <4>2
    <3> QED BY <1>1, <2>2, <3>1, <3>2, <3>3
  <2> QED BY <2>1, <2>2 DEF Clear
<1>10. Overlaid(Assigned(p, q, start), addressed, more)
  BY OverShape DEF m
<1> DEFINE fresh == Assigned(p, q, start)
<1>11. /\ \A s \in Shards(p), k \in DOMAIN q.assignments :
            AliasSets(p).root[s] = q.assignments[k].root =>
              /\ s \in DOMAIN fresh
              /\ fresh[s] = (start + Offset(q, start, k)) + MemberOffset(AliasSets(p), s)
       /\ \A s \in DOMAIN fresh : AliasSets(p).root[s] \in RootsOf(q)
  BY <1>2, AssignedAt
<1> HIDE DEF fresh
<1>12. ASSUME NEW i \in 1..m PROVE AddressedBy(p, qs[i], SpotOf(b, qs[i])[1], more)
  <2>1. CASE i \in 1..n
    <3>1. AddressedBy(p, qs[i], SpotOf(a, qs[i])[1], addressed)
      BY <1>6, <2>1
    <3>2. SpotOf(b, qs[i]) = SpotOf(a, qs[i])
      BY <1>7, <2>1
    <3> DEFINE base == SpotOf(a, qs[i])[1]
    <3> HIDE DEF base
    <3>3. ASSUME NEW s \in Shards(p), NEW k \in DOMAIN qs[i].assignments,
                 AliasSets(p).root[s] = qs[i].assignments[k].root
          PROVE  s \in DOMAIN addressed /\ s \notin DOMAIN fresh
      <4>1. s \in DOMAIN addressed
        BY <3>1, <3>3 DEF AddressedBy
      <4>2. qs[i].assignments[k].root \in RootsOf(qs[i])
        <5>1. DOMAIN qs[i].assignments = 1..Len(qs[i].assignments)
          BY <1>1, <2>1 DEF QueueSound, RequestSound
        <5>2. ToSet(qs[i].assignments) = {qs[i].assignments[x] : x \in DOMAIN qs[i].assignments}
          BY Zenon DEF ToSet
        <5> QED BY <5>2 DEF RootsOf
      <4>3. RootsOf(qs[i]) \cap RootsOf(q) = {}
        BY <1>1, <2>1 DEF QueueSound
      <4> QED BY <1>11, <3>3, <4>1, <4>2, <4>3
    <3>4. \A s \in DOMAIN addressed : s \notin DOMAIN fresh => s \in DOMAIN more /\ more[s] = addressed[s]
      BY <1>10 DEF Overlaid, fresh
    <3>5. AddressedBy(p, qs[i], base, more)
      BY <3>1, <3>3, <3>4 DEF AddressedBy, base
    <3> QED BY <3>2, <3>5 DEF base
  <2>2. CASE i = m
    <3>1. SpotOf(b, q)[1] = start
      BY <1>7
    <3>2. \A s \in DOMAIN fresh : s \in DOMAIN more /\ more[s] = fresh[s]
      BY <1>10 DEF Overlaid, fresh
    <3>3. AddressedBy(p, q, start, more)
      BY <1>11, <3>2 DEF AddressedBy
    <3> QED BY <2>2, <3>1, <3>3
  <2> QED BY <1>1, <2>1, <2>2
<1>13. Legal(p, qs, m, b, more)
  BY <1>7, <1>8, <1>9, <1>12 DEF Legal
<1> QED BY <1>13 DEF m

\* A place that meets no forbidden range shares no element with a root it conflicts with.
LEMMA ForbiddenApart ==
  ASSUME NEW p, WellFormed(p), NEW qs, QueueSound(p, qs), NEW n \in Nat, n + 1 \in DOMAIN qs,
         NEW a, Clear(p, qs, n, a), Known(qs, n, a),
         NEW start \in Nat, NEW end \in Nat,
         \A f \in Forbidden(a, qs[n + 1]) : start >= f[2] \/ f[1] >= end,
         NEW i \in 1..n, KeptApart(qs[n + 1], qs[i])
  PROVE  ElementsApart(SpotOf(a, qs[i]), <<start, end>>)
<1> DEFINE q == qs[n + 1]
           roots == q.conflicts \cap DOMAIN a.spans
           S == UNION {ElementSpans(a.spans[root][1], a.spans[root][2]) : root \in roots}
<1>1. n + 1 \in DOMAIN qs /\ i \in DOMAIN qs /\ i # n + 1
  BY DEF QueueSound
<1>2. KeptApart(qs[i], qs[n + 1])
  BY DEF KeptApart
<1>3. PICK root \in RootsOf(qs[i]) : root \in q.conflicts
  BY <1>1, <1>2, KeptMeans
<1>4. root \in roots /\ a.spans[root] = SpotOf(a, qs[i])
  BY <1>3 DEF Known
<1>5. PICK limit \in Nat : \A r \in RangesOf(p) : r[2] <= limit
  BY RangesTyped
<1>6. ASSUME NEW j \in 1..n
      PROVE  /\ SpotOf(a, qs[j])[1] \in Nat /\ SpotOf(a, qs[j])[2] \in Nat
             /\ SpotOf(a, qs[j])[2] <= limit
             /\ OneRegion(SpotOf(a, qs[j])[1], SpotOf(a, qs[j])[2])
  <2>1. PICK r \in RangesOf(p) : Fits(p, qs[j], r, SpotOf(a, qs[j])[1], SpotOf(a, qs[j])[2])
    BY DEF Clear, Standing
  <2>2. r[2] \in Nat /\ r[2] <= limit
    BY <1>5, RangesTyped
  <2> QED BY <2>1, <2>2 DEF Fits
<1> DEFINE bound == (limit + Element) + InterleavedElement
<1>7. bound \in Nat
  BY MemoryAssumption
<1>8. S \in SUBSET Bounds(bound)
  <2>1. ASSUME NEW x \in roots
        PROVE  ElementSpans(a.spans[x][1], a.spans[x][2]) \in SUBSET Bounds(bound)
    <3>1. PICK j \in 1..n : x \in RootsOf(qs[j])
      BY DEF Known
    <3>2. a.spans[x] = SpotOf(a, qs[j])
      BY <3>1 DEF Known
    <3> DEFINE s == a.spans[x][1]
               e == a.spans[x][2]
    <3>3. s \in Nat /\ e \in Nat /\ e <= limit
      BY <1>6, <3>2
    <3> HIDE DEF s, e
    <3>4. ElementSpans(s, e) \in SUBSET Bounds(bound)
      BY <3>3, ElementSpansTyped
    <3> QED BY <3>4 DEF s, e
  <2> HIDE DEF bound, roots
  <2> QED BY <2>1
<1>9. Forbidden(a, q) = MergeRanges(S)
  BY Zenon DEF Forbidden
<1> DEFINE s == SpotOf(a, qs[i])[1]
           e == SpotOf(a, qs[i])[2]
<1>10. ElementSpans(s, e) \subseteq S
  <2> HIDE DEF roots
  <2> QED BY <1>4
<1>11. s \in Nat /\ e \in Nat /\ OneRegion(s, e)
  BY <1>6
<1> HIDE DEF bound, S, s, e
<1>12. ASSUME NEW f \in ElementSpans(s, e) PROVE start >= f[2] \/ f[1] >= end
  <2>1. f \in S
    BY <1>10
  <2>2. PICK m \in MergeRanges(S) : m[1] <= f[1] /\ f[2] <= m[2]
    BY <1>7, <1>8, <2>1, MergeCovers
  <2>3. start >= m[2] \/ m[1] >= end
    BY <1>9, <2>2
  <2>4. f[1] \in Nat /\ f[2] \in Nat
    BY <1>8, <2>1 DEF Bounds
  <2>5. m[1] \in Nat /\ m[2] \in Nat
    BY <1>7, <1>8, <2>2, MergeShape
  <2> QED BY <2>2, <2>3, <2>4, <2>5
<1>13. ElementsApart(<<s, e>>, <<start, end>>)
  BY <1>11, <1>12, ClearOfElements
<1>14. SpotOf(a, qs[i])[1] = <<s, e>>[1] /\ SpotOf(a, qs[i])[2] = <<s, e>>[2]
  BY DEF s, e
<1> QED BY <1>13, <1>14 DEF ElementsApart

-----------------------------------------------------------------------------
(* The address search.                                                     *)

\* What two spots owe each other: no element in common when an operation accesses both
\* at once, no word when both hold a value at some time.
ApartAsDue(q, r, one, other) ==
  /\ KeptApart(q, r) => ElementsApart(one, other)
  /\ LiveTogether(q, r) => WordsApart(one, other)

\* Requests are as far apart one way as the other.
LEMMA ApartBothWays ==
  ASSUME NEW q, NEW r, NEW one, NEW other, ApartAsDue(q, r, one, other)
  PROVE  ApartAsDue(r, q, other, one)
<1>1. KeptApart(q, r) <=> KeptApart(r, q)
  BY DEF KeptApart
<1>2. LiveTogether(q, r) <=> LiveTogether(r, q)
  BY DEF LiveTogether
<1>3. ElementsApart(one, other) => ElementsApart(other, one)
  BY ElementsApartBothWays
<1>4. WordsApart(one, other) => WordsApart(other, one)
  BY WordsApartBothWays
<1> QED BY <1>1, <1>2, <1>3, <1>4 DEF ApartAsDue

\* No element in common: no word.
LEMMA ElementsThenWords ==
  ASSUME NEW one, NEW other, ElementsApart(one, other)
  PROVE  WordsApart(one, other)
  BY DEF ElementsApart, WordsApart

\* A domain that is left to a request.
SearchDomain(p, q, d) ==
  /\ d \in [first : Nat, last : Nat, alignment : Nat \ {0}, bytes : Nat]
  /\ GoodDomain(p, q, RangesOf(p), d)

\* The domains the search begins with.
LEMMA FirstDomains ==
  ASSUME NEW p, WellFormed(p), NEW q, RequestTyped(p, q), NEW d, d \in Domains(p, q, RangesOf(p))
  PROVE  SearchDomain(p, q, d.domain)
<1>1. PICK r \in RangesOf(p), region1 \in BOOLEAN :
        d = [range |-> r, domain |-> Domain(p, q, r, region1)]
  <2>1. d \in {[range |-> r, domain |-> Domain(p, q, r, region1)] : r \in RangesOf(p), region1 \in BOOLEAN}
    BY DEF Domains
  <2> QED BY <2>1
<1>2. d.domain.first <= d.domain.last
  BY DEF Domains
<1> DEFINE D == Domain(p, q, r, region1)
<1>3. d.domain = D
  BY <1>1
<1>4. \E first, last, alignment, bytes :
        D = [first |-> first, last |-> last, alignment |-> alignment, bytes |-> bytes]
  BY Zenon DEF Domain
<1>5. r \in Nat \X Nat
  BY RangesTyped
<1> HIDE DEF D
<1>6. D.first <= D.last
  BY <1>2, <1>3
<1>7. GoodDomain(p, q, {r}, D)
  BY <1>5, <1>6, DomainIsGood DEF D
<1>8. GoodDomain(p, q, RangesOf(p), D)
  BY <1>7 DEF GoodDomain
<1>9. D \in [first : Nat, last : Nat, alignment : Nat \ {0}, bytes : Nat]
  BY <1>4, <1>7 DEF GoodDomain
<1> QED BY <1>3, <1>8, <1>9 DEF SearchDomain

\* A start that is tried is an aligned start of its domain.
LEMMA StartsAligned ==
  ASSUME NEW p, NEW q, NEW d, SearchDomain(p, q, d), NEW start \in Starts(d)
  PROVE  start \in Nat /\ Aligned(d, start)
<1>1. /\ d.first \in Nat /\ d.last \in Nat /\ d.bytes \in Nat /\ d.alignment \in Nat \ {0}
      /\ d.first % d.alignment = 0 /\ d.last % d.alignment = 0
  BY DEF SearchDomain, GoodDomain
<1> DEFINE element == IF d.first >= InterleavedBase THEN InterleavedElement ELSE Element
           low == AlignUp(d.first, element) \div element
           high == (d.last + d.bytes) \div element
           boundaries == {k * element : k \in low..high}
<1>2. element \in Nat \ {0}
  BY MemoryAssumption
<1> HIDE DEF element
<1>3. low \in Int /\ high \in Int
  <2>1. d.first \in Int
    BY <1>1
  <2>2. AlignUp(d.first, element) \in Int
    BY <1>2, <2>1, RoundedUp
  <2> QED BY <1>1, <1>2, <2>2
<1> HIDE DEF low, high
<1>4. boundaries \subseteq Int
  BY <1>2, <1>3
<1>5. /\ start \in {d.first, d.last} \cup {AlignUp(b, d.alignment) : b \in boundaries}
                  \cup {AlignDown(b - d.bytes, d.alignment) : b \in {c \in boundaries : c >= d.bytes}}
      /\ d.first <= start /\ start <= d.last
  BY DEF Starts, element, low, high
<1> HIDE DEF boundaries
<1>6. CASE start \in {d.first, d.last}
  BY <1>1, <1>5, <1>6 DEF Aligned
<1>7. CASE start \in {AlignUp(b, d.alignment) : b \in boundaries}
  <2>1. PICK b \in boundaries : start = AlignUp(b, d.alignment)
    BY <1>7
  <2>2. start \in Int /\ start % d.alignment = 0
    BY <1>1, <1>4, <2>1, RoundedUp
  <2> QED BY <1>1, <1>5, <2>2 DEF Aligned
<1>8. CASE start \in {AlignDown(b - d.bytes, d.alignment) : b \in {c \in boundaries : c >= d.bytes}}
  <2>1. PICK b \in boundaries : start = AlignDown(b - d.bytes, d.alignment)
    BY <1>8
  <2>2. b - d.bytes \in Int
    BY <1>1, <1>4
  <2>3. start \in Int /\ start % d.alignment = 0
    BY <1>1, <2>1, <2>2, RoundedDown
  <2> QED BY <1>1, <1>5, <2>3 DEF Aligned
<1> QED BY <1>5, <1>6, <1>7, <1>8

\* Domain::without(): every start that is left was one, and misses the span.
LEMMA WithoutMisses ==
  ASSUME NEW p, NEW q, NEW d, SearchDomain(p, q, d), NEW low \in Nat, NEW high \in Nat,
         NEW x \in Without(d, low, high)
  PROVE  /\ SearchDomain(p, q, x)
         /\ \A start \in Nat : Aligned(x, start) =>
              Aligned(d, start) /\ x.bytes = d.bytes
              /\ (start >= high \/ low >= start + x.bytes)
<1>1. /\ d.first \in Nat /\ d.last \in Nat /\ d.bytes \in Nat /\ d.alignment \in Nat \ {0}
      /\ d.first % d.alignment = 0 /\ d.last % d.alignment = 0
      /\ d = [first |-> d.first, last |-> d.last, alignment |-> d.alignment, bytes |-> d.bytes]
  BY DEF SearchDomain, GoodDomain
<1>2. \A start \in Nat : Aligned(d, start) =>
        \E r \in RangesOf(p) : Fits(p, q, r, start, start + d.bytes)
  BY DEF SearchDomain, GoodDomain
<1> DEFINE down == AlignDown(low - d.bytes, d.alignment)
           up == AlignUp(high, d.alignment)
           last == Min({d.last, down})
           first == Max({d.first, up})
<1>3. /\ down \in Int /\ down % d.alignment = 0 /\ down <= low - d.bytes
      /\ up \in Int /\ up % d.alignment = 0 /\ high <= up
  <2>1. low - d.bytes \in Int /\ high \in Int
    BY <1>1
  <2> QED BY <1>1, <2>1, RoundedUp, RoundedDown
<1> HIDE DEF down, up
<1>4. /\ last = (IF d.last <= down THEN d.last ELSE down)
      /\ first = (IF d.first >= up THEN d.first ELSE up)
  <2>1. d.last \in Int /\ d.first \in Int /\ down \in Int /\ up \in Int
    BY <1>1, <1>3
  <2>2. last = (IF d.last <= down THEN d.last ELSE down)
    BY <2>1, OfTwo
  <2>3. first = (IF d.first >= up THEN d.first ELSE up)
    BY <2>1, OfTwo
  <2> QED BY <2>2, <2>3
<1>5. x \in {[d EXCEPT !.last = last], [d EXCEPT !.first = first]} /\ x.first <= x.last /\ 0 <= x.last
  BY Zenon DEF Without, down, up
<1> HIDE DEF last, first
<1>6. CASE x = [d EXCEPT !.last = last]
  <2>1. x = [first |-> d.first, last |-> last, alignment |-> d.alignment, bytes |-> d.bytes]
    BY <1>1, <1>6
  <2>2. /\ x.first = d.first /\ x.last = last /\ x.alignment = d.alignment /\ x.bytes = d.bytes
    BY <2>1
  <2>3. 0 <= last
    BY <1>5, <2>2
  <2>4. last \in Nat /\ last % d.alignment = 0 /\ last <= d.last /\ last <= low - d.bytes
    <3>1. CASE d.last <= down
      BY <1>1, <1>3, <1>4, <2>3, <3>1
    <3>2. CASE ~(d.last <= down)
      BY <1>1, <1>3, <1>4, <2>3, <3>2
    <3> QED BY <3>1, <3>2
  <2>5. \A start \in Nat : Aligned(x, start) => Aligned(d, start) /\ low >= start + x.bytes
    BY <1>1, <2>2, <2>4 DEF Aligned
  <2>6. GoodDomain(p, q, RangesOf(p), x)
    BY <1>1, <1>2, <1>5, <2>2, <2>4, <2>5 DEF GoodDomain
  <2>7. x \in [first : Nat, last : Nat, alignment : Nat \ {0}, bytes : Nat]
    BY <1>1, <2>1, <2>4
  <2> QED BY <2>2, <2>5, <2>6, <2>7 DEF SearchDomain
<1>7. CASE x = [d EXCEPT !.first = first]
  <2>1. x = [first |-> first, last |-> d.last, alignment |-> d.alignment, bytes |-> d.bytes]
    BY <1>1, <1>7
  <2>2. /\ x.first = first /\ x.last = d.last /\ x.alignment = d.alignment /\ x.bytes = d.bytes
    BY <2>1
  <2>3. first \in Nat /\ first % d.alignment = 0 /\ d.first <= first /\ high <= first
    BY <1>1, <1>3, <1>4
  <2>4. \A start \in Nat : Aligned(x, start) => Aligned(d, start) /\ start >= high
    BY <1>1, <2>2, <2>3 DEF Aligned
  <2>5. GoodDomain(p, q, RangesOf(p), x)
    BY <1>1, <1>2, <1>5, <2>2, <2>3, <2>4 DEF GoodDomain
  <2>6. x \in [first : Nat, last : Nat, alignment : Nat \ {0}, bytes : Nat]
    BY <1>1, <2>1, <2>3
  <2> QED BY <2>2, <2>4, <2>5, <2>6 DEF SearchDomain
<1> QED BY <1>5, <1>6, <1>7

\* A span in one region has one span of elements, unless it is empty.
LEMMA OneSpan ==
  ASSUME NEW s \in Nat, NEW e \in Nat, OneRegion(s, e)
  PROVE  \A f, g \in ElementSpans(s, e) : f = g
<1>1. InterleavedBase \in Nat
  BY MemoryAssumption
<1> DEFINE one == Min({e, InterleavedBase})
           two == Max({s, InterleavedBase})
<1>2. /\ one = (IF e <= InterleavedBase THEN e ELSE InterleavedBase)
      /\ two = (IF s >= InterleavedBase THEN s ELSE InterleavedBase)
  BY <1>1, OfTwo
<1> DEFINE A == {<<AlignDown(r[1], Element), AlignUp(r[2], Element)>> :
                   r \in {q \in {<<s, one>>} : q[1] < q[2]}}
           B == {<<AlignDown(r[1], InterleavedElement), AlignUp(r[2], InterleavedElement)>> :
                   r \in {q \in {<<two, e>>} : q[1] < q[2]}}
<1>3. ElementSpans(s, e) = A \cup B
  BY Zenon DEF ElementSpans
<1> HIDE DEF one, two
<1>4. s < one \/ A = {}
  BY DEF A
<1>5. two < e \/ B = {}
  BY DEF B
<1>6. A = {} \/ B = {}
  <2> HIDE DEF A, B
  <2> QED BY <1>1, <1>2, <1>4, <1>5 DEF OneRegion
<1>7. \A f, g \in A : f = g
  OBVIOUS
<1>8. \A f, g \in B : f = g
  OBVIOUS
<1> HIDE DEF A, B
<1> QED BY <1>3, <1>6, <1>7, <1>8

\* Where a start of this domain stands apart from a spot as is due.
ClearOf(q, r, spot, d) ==
  \A start \in Nat : Aligned(d, start) => ApartAsDue(q, r, spot, <<start, start + d.bytes>>)

\* x is what is left of the domain d.
PartOf(x, d) ==
  x.bytes = d.bytes /\ \A start \in Nat : Aligned(x, start) => Aligned(d, start)

\* What placing request i leaves to request j is apart from it as is due.
LEMMA PropagatedApart ==
  ASSUME NEW p, NEW qs, NEW left, NEW i, NEW j,
         NEW s \in Nat, NEW e \in Nat, OneRegion(s, e),
         \A d \in left[j] : SearchDomain(p, qs[j], d),
         NEW x \in Propagated(qs, left, i, s, e, j)
  PROVE  /\ SearchDomain(p, qs[j], x) /\ ClearOf(qs[i], qs[j], <<s, e>>, x)
         /\ \E d \in left[j] : PartOf(x, d)
<1> DEFINE excluded == IF KeptApart(qs[i], qs[j]) THEN ElementSpans(s, e)
                       ELSE IF LiveTogether(qs[i], qs[j]) THEN {<<s, e>>} ELSE {}
<1>1. x \in (IF excluded = {} THEN left[j]
             ELSE UNION {Without(d, f[1], f[2]) : d \in left[j], f \in excluded})
  BY DEF Propagated
<1>2. \A f \in excluded : f[1] \in Nat /\ f[2] \in Nat
  <2>1. ElementSpans(s, e) \in SUBSET Bounds((e + Element) + InterleavedElement)
    BY ElementSpansTyped
  <2> QED BY <2>1 DEF Bounds
<1>3. \A f, g \in excluded : f = g
  BY OneSpan
<1>4. KeptApart(qs[i], qs[j]) => excluded = ElementSpans(s, e)
  OBVIOUS
<1>5. ~KeptApart(qs[i], qs[j]) /\ LiveTogether(qs[i], qs[j]) => excluded = {<<s, e>>}
  OBVIOUS
<1> HIDE DEF excluded
<1>6. x.bytes \in Nat \/ x \in left[j] \/ excluded # {}
  BY <1>1
<1>7. \E d \in left[j] :
        /\ SearchDomain(p, qs[j], x) /\ PartOf(x, d)
        /\ \A start \in Nat, f \in excluded : Aligned(x, start) =>
             start >= f[2] \/ f[1] >= start + x.bytes
  <2>1. CASE excluded = {}
    BY <1>1, <2>1 DEF PartOf
  <2>2. CASE excluded # {}
    <3>1. PICK d \in left[j], f \in excluded : x \in Without(d, f[1], f[2])
      BY <1>1, <2>2
    <3>2. SearchDomain(p, qs[j], d)
      OBVIOUS
    <3>3. /\ SearchDomain(p, qs[j], x)
          /\ \A start \in Nat : Aligned(x, start) =>
               Aligned(d, start) /\ x.bytes = d.bytes /\ (start >= f[2] \/ f[1] >= start + x.bytes)
      BY <1>2, <3>1, <3>2, WithoutMisses
    <3>4. x.bytes = d.bytes
      <4>1. Aligned(x, x.first) /\ x.first \in Nat
        BY <3>3 DEF SearchDomain, GoodDomain, Aligned
      <4> QED BY <3>3, <4>1
    <3>5. \A g \in excluded : g = f
      BY <1>3, <3>1
    <3> QED BY <3>1, <3>3, <3>4, <3>5 DEF PartOf
  <2> QED BY <2>1, <2>2
<1>8. x.bytes \in Nat
  BY <1>7 DEF SearchDomain, GoodDomain
<1>9. ASSUME NEW start \in Nat, Aligned(x, start)
      PROVE  ApartAsDue(qs[i], qs[j], <<s, e>>, <<start, start + x.bytes>>)
  <2> DEFINE end == start + x.bytes
  <2>1. end \in Nat
    BY <1>8
  <2>2. \A f \in excluded : start >= f[2] \/ f[1] >= end
    BY <1>7, <1>9
  <2> HIDE DEF end
  <2>3. CASE KeptApart(qs[i], qs[j])
    <3>1. ElementsApart(<<s, e>>, <<start, end>>)
      BY <1>4, <2>1, <2>2, <2>3, ClearOfElements
    <3> QED BY <3>1, ElementsThenWords DEF ApartAsDue, end
  <2>4. CASE ~KeptApart(qs[i], qs[j]) /\ LiveTogether(qs[i], qs[j])
    <3>0. <<s, e>> \in excluded /\ <<s, e>>[1] = s /\ <<s, e>>[2] = e
      BY <1>5, <2>4
    <3>1. start >= e \/ s >= end
      BY <2>2, <3>0
    <3>2. WordsApart(<<s, e>>, <<start, end>>)
      BY <2>1, <3>1 DEF WordsApart
    <3> QED BY <2>4, <3>2 DEF ApartAsDue, end
  <2>5. CASE ~KeptApart(qs[i], qs[j]) /\ ~LiveTogether(qs[i], qs[j])
    BY <2>5 DEF ApartAsDue
  <2> QED BY <2>3, <2>4, <2>5
<1> QED BY <1>7, <1>9 DEF ClearOf

Spotted(p, q, spot) ==
  spot = <<spot[1], spot[2]>> /\ \E r \in RangesOf(p) : Fits(p, q, r, spot[1], spot[2])

\* The search: what is placed fits and is apart as is due, and every start that is left
\* to a waiting request fits and is apart from what is placed.
SearchSound(p, qs, search) ==
  /\ DOMAIN search.at = DOMAIN qs
  /\ \A i \in DOMAIN qs : search.at[i] # <<>> => Spotted(p, qs[i], search.at[i])
  /\ \A i, j \in DOMAIN qs : i # j /\ search.at[i] # <<>> /\ search.at[j] # <<>>
       => ApartAsDue(qs[i], qs[j], search.at[i], search.at[j])
  /\ \A j \in DOMAIN qs : search.at[j] = <<>> => \A d \in search.left[j] :
       /\ SearchDomain(p, qs[j], d)
       /\ \A i \in DOMAIN qs : search.at[i] # <<>> => ClearOf(qs[i], qs[j], search.at[i], d)

\* A search that has placed nothing is sound.
LEMMA SearchBegins ==
  ASSUME NEW p, WellFormed(p), NEW qs, QueueSound(p, qs),
         NEW search, search = [left |-> SearchDomains(p, qs), at |-> [i \in DOMAIN qs |-> <<>>]]
  PROVE  SearchSound(p, qs, search)
<1>1. search.left = SearchDomains(p, qs) /\ search.at = [i \in DOMAIN qs |-> <<>>]
  OBVIOUS
<1>2. ASSUME NEW j \in DOMAIN qs, NEW d \in search.left[j] PROVE SearchDomain(p, qs[j], d)
  <2>1. RequestTyped(p, qs[j])
    BY DEF QueueSound, RequestSound
  <2>2. PICK x \in Domains(p, qs[j], RangesOf(p)) : d = x.domain
    BY <1>1, <1>2 DEF SearchDomains
  <2> QED BY <2>1, <2>2, FirstDomains
<1> QED BY <1>1, <1>2 DEF SearchSound

\* One request more is placed.
Visited(qs, search, i, s, e, next) ==
  /\ next.at = [search.at EXCEPT ![i] = <<s, e>>]
  /\ \A j \in DOMAIN qs : j # i /\ search.at[j] = <<>>
       => next.left[j] = Propagated(qs, search.left, i, s, e, j)

\* A step of the search is sound.
LEMMA VisitSound ==
  ASSUME NEW p, WellFormed(p), NEW qs, QueueSound(p, qs), NEW search, SearchSound(p, qs, search),
         NEW i \in DOMAIN qs, search.at[i] = <<>>, NEW d \in search.left[i], NEW s \in Starts(d),
         NEW e, e = s + d.bytes, NEW next, Visited(qs, search, i, s, e, next)
  PROVE  SearchSound(p, qs, next)
<1>1. SearchDomain(p, qs[i], d)
  BY DEF SearchSound
<1>2. s \in Nat /\ Aligned(d, s)
  BY <1>1, StartsAligned
<1>3. PICK r \in RangesOf(p) : Fits(p, qs[i], r, s, e)
  BY <1>1, <1>2 DEF SearchDomain, GoodDomain
<1>4. e \in Nat /\ OneRegion(s, e)
  BY <1>3 DEF Fits
<1>5. /\ DOMAIN search.at = DOMAIN qs /\ DOMAIN next.at = DOMAIN qs
      /\ next.at[i] = <<s, e>> /\ \A j \in DOMAIN qs : j # i => next.at[j] = search.at[j]
  BY DEF SearchSound, Visited
<1>6. Spotted(p, qs[i], <<s, e>>) /\ <<s, e>> # <<>>
  BY <1>3 DEF Spotted
<1>7. \A j \in DOMAIN qs : next.at[j] # <<>> => Spotted(p, qs[j], next.at[j])
  BY <1>5, <1>6 DEF SearchSound
<1>8. \A j \in DOMAIN qs : search.at[j] # <<>> => ApartAsDue(qs[j], qs[i], search.at[j], <<s, e>>)
  BY <1>2 DEF SearchSound, ClearOf
<1>9. \A j \in DOMAIN qs : search.at[j] # <<>> => ApartAsDue(qs[i], qs[j], <<s, e>>, search.at[j])
  BY <1>8, ApartBothWays
<1>10. ASSUME NEW j \in DOMAIN qs, NEW k \in DOMAIN qs, j # k, next.at[j] # <<>>, next.at[k] # <<>>
       PROVE  ApartAsDue(qs[j], qs[k], next.at[j], next.at[k])
  <2>1. CASE j = i
    BY <1>5, <1>9, <1>10, <2>1
  <2>2. CASE k = i
    BY <1>5, <1>8, <1>10, <2>2
  <2>3. CASE j # i /\ k # i
    BY <1>5, <1>10, <2>3 DEF SearchSound
  <2> QED BY <2>1, <2>2, <2>3
<1>11. ASSUME NEW j \in DOMAIN qs, next.at[j] = <<>>, NEW x \in next.left[j]
       PROVE  /\ SearchDomain(p, qs[j], x)
              /\ \A k \in DOMAIN qs : next.at[k] # <<>> => ClearOf(qs[k], qs[j], next.at[k], x)
  <2>1. j # i /\ search.at[j] = <<>>
    BY <1>5, <1>6, <1>11
  <2>2. x \in Propagated(qs, search.left, i, s, e, j)
    BY <1>11, <2>1 DEF Visited
  <2>3. \A y \in search.left[j] : SearchDomain(p, qs[j], y)
    BY <2>1 DEF SearchSound
  <2>4. /\ SearchDomain(p, qs[j], x) /\ ClearOf(qs[i], qs[j], <<s, e>>, x)
        /\ \E y \in search.left[j] : PartOf(x, y)
    BY <1>2, <1>4, <2>2, <2>3, PropagatedApart
  <2>5. PICK y \in search.left[j] : PartOf(x, y)
    BY <2>4
  <2>6. ASSUME NEW k \in DOMAIN qs, next.at[k] # <<>> PROVE ClearOf(qs[k], qs[j], next.at[k], x)
    <3>1. CASE k = i
      BY <1>5, <2>4, <3>1
    <3>2. CASE k # i
      <4>1. ClearOf(qs[k], qs[j], search.at[k], y) /\ next.at[k] = search.at[k]
        BY <1>5, <2>1, <2>6, <3>2 DEF SearchSound
      <4> QED BY <2>5, <4>1 DEF ClearOf, PartOf
    <3> QED BY <3>1, <3>2
  <2> QED BY <2>4, <2>6
<1> QED BY <1>5, <1>7, <1>10, <1>11 DEF SearchSound

-----------------------------------------------------------------------------
(* The placed program: where its operands are.                             *)

\* What Bind establishes: each input of a sequence a stride after the one before.
StridesSound(p, addressed, stride) ==
  /\ \A g \in Iterated(p) :
       /\ Group(p, g).argument \in DOMAIN stride
       /\ \A i \in DOMAIN Group(p, g).inputs :
            addressed[Group(p, g).inputs[i]]
              = addressed[Group(p, g).argument] + stride[Group(p, g).argument] * (i - 1)
  /\ \A s \in DOMAIN stride : \E g \in Iterated(p) : Group(p, g).argument = s

AddressIn(addressed, stride, s, iteration) ==
  addressed[s] + (IF s \in DOMAIN stride THEN stride[s] * iteration ELSE 0)

\* The argument of a sequence is no other's.
LEMMA ArgumentsDiffer ==
  ASSUME NEW p, WellFormed(p), Placeable(p, AliasSets(p)), NEW g \in Iterated(p),
         NEW h \in Iterated(p), Group(p, g).argument = Group(p, h).argument
  PROVE  g = h
<1>1. /\ AliasSets(p).root[Group(p, g).inputs[1]] = AliasSets(p).root[Group(p, g).argument]
      /\ AliasSets(p).root[Group(p, h).inputs[1]] = AliasSets(p).root[Group(p, h).argument]
  BY AliasesTyped
<1>2. 1 \in DOMAIN Group(p, g).inputs /\ 1 \in DOMAIN Group(p, h).inputs
  BY GroupTyped
<1> QED BY <1>1, <1>2 DEF Placeable

\* What an iterated argument names, and any other shard.
LEMMA NamedTyped ==
  ASSUME NEW p, WellFormed(p), Placeable(p, AliasSets(p)), NEW s, NEW k
  PROVE  /\ \A g \in Iterated(p) : Group(p, g).argument = s => NamedIn(p, s, k) = Group(p, g).inputs[k + 1]
         /\ (\A g \in Iterated(p) : Group(p, g).argument # s) => NamedIn(p, s, k) = s
<1> DEFINE groups == {g \in Iterated(p) : Group(p, g).argument = s}
<1>1. NamedIn(p, s, k) = IF groups = {} THEN s ELSE Group(p, CHOOSE g \in groups : TRUE).inputs[k + 1]
  BY Zenon DEF NamedIn
<1>2. ASSUME NEW g \in Iterated(p), Group(p, g).argument = s
      PROVE  NamedIn(p, s, k) = Group(p, g).inputs[k + 1]
  <2>1. g \in groups
    BY <1>2
  <2>2. (CHOOSE h \in groups : TRUE) \in groups
    BY <2>1
  <2>3. (CHOOSE h \in groups : TRUE) = g
    BY <1>2, <2>2, ArgumentsDiffer
  <2> HIDE DEF groups
  <2> QED BY <1>1, <2>1, <2>3
<1>3. ASSUME \A g \in Iterated(p) : Group(p, g).argument # s
      PROVE  NamedIn(p, s, k) = s
  BY <1>1, <1>3
<1> QED BY <1>2, <1>3

\* The whole tile is placed.
AllPlaced(p, qs, a, addressed, stride) ==
  /\ WellFormed(p) /\ Placeable(p, AliasSets(p)) /\ Uniform(p, AliasSets(p))
  /\ QueueSound(p, qs) /\ Legal(p, qs, Len(qs), a, addressed)
  /\ StridesSound(p, addressed, stride)

BaseOf(a, q) == SpotOf(a, q)[1]

\* The bytes from an address on lie in the x-th slot of the i-th request, within what its
\* m-th root needs.
StandsIn(p, qs, a, i, x, m, address, bytes) ==
  /\ Room(p, AliasSets(p), qs[i], BaseOf(a, qs[i]), x, m)[1] <= address
  /\ address + bytes <= Room(p, AliasSets(p), qs[i], BaseOf(a, qs[i]), x, m)[2]

\* The slot of a shard in an iteration is that of the root it names.
SlotOf(p, qs, s, k, i, x) ==
  /\ i \in DOMAIN qs /\ x \in DOMAIN qs[i].assignments
  /\ AliasSets(p).root[s] \in RootsOf(qs[i])
  /\ qs[i].assignments[x].root = AliasSets(p).root[NamedIn(p, s, k)]

\* The roots of a request are those of its assignments.
LEMMA RootsListed ==
  ASSUME NEW p, NEW sets, NEW q, RequestSound(p, sets, q)
  PROVE  RootsOf(q) = {q.assignments[i].root : i \in DOMAIN q.assignments}
<1>1. DOMAIN q.assignments = 1..Len(q.assignments)
  BY DEF RequestSound
<1>2. ToSet(q.assignments) = {q.assignments[i] : i \in DOMAIN q.assignments}
  BY Zenon DEF ToSet
<1> QED BY <1>2 DEF RootsOf

\* Each request of a placed tile fits where it is.
LEMMA SpotsFit ==
  ASSUME NEW p, NEW qs, NEW a, NEW addressed, NEW stride, AllPlaced(p, qs, a, addressed, stride),
         NEW i \in DOMAIN qs
  PROVE  /\ RequestSound(p, AliasSets(p), qs[i]) /\ i \in 1..Len(qs)
         /\ \E r \in RangesOf(p) : Fits(p, qs[i], r, SpotOf(a, qs[i])[1], SpotOf(a, qs[i])[2])
         /\ \A x, m \in DOMAIN qs[i].assignments :
              Inside(p, AliasSets(p), qs[i], BaseOf(a, qs[i]), SpotOf(a, qs[i])[2], x, m)
         /\ AddressedBy(p, qs[i], BaseOf(a, qs[i]), addressed)
<1>1. RequestSound(p, AliasSets(p), qs[i]) /\ i \in 1..Len(qs)
  BY DEF AllPlaced, QueueSound
<1>2. Standing(p, qs, a, i) /\ AddressedBy(p, qs[i], BaseOf(a, qs[i]), addressed)
  BY <1>1 DEF AllPlaced, Legal, Clear, BaseOf
<1>3. PICK r \in RangesOf(p) : Fits(p, qs[i], r, SpotOf(a, qs[i])[1], SpotOf(a, qs[i])[2])
  BY <1>2 DEF Standing
<1>4. Slotted(p, AliasSets(p), qs[i])
  BY <1>1 DEF RequestSound
<1>5. \A x, m \in DOMAIN qs[i].assignments :
        Inside(p, AliasSets(p), qs[i], BaseOf(a, qs[i]), SpotOf(a, qs[i])[2], x, m)
  BY <1>3, <1>4 DEF Slotted, BaseOf
<1> QED BY <1>1, <1>2, <1>3, <1>5

TailsOf(p, s) == {0} \cup {n.tail : n \in {n \in Needs(p) : n.shard = s}}

\* Sizes are numbers.
LEMMA SizeTyped ==
  ASSUME NEW p, WellFormed(p), NEW s \in Shards(p)
  PROVE  p.shards[s].size \in Nat
<1> DEFINE T == [size : Nat, class : {"standard", "interleaved"}, of : 0..Len(p.shards), shift : Int]
<1>1. p.shards \in Seq(T)
  BY DEF WellFormed
<1> HIDE DEF T
<1>2. s \in 1..Len(p.shards)
  BY DEF Shards
<1>3. p.shards[s] \in T
  BY <1>1, <1>2
<1> QED BY <1>3 DEF T

\* A shard that is no argument of a sequence stands in its root's slot.
LEMMA PlainStands ==
  ASSUME NEW p, NEW qs, NEW a, NEW addressed, NEW stride, AllPlaced(p, qs, a, addressed, stride),
         NEW s \in Shards(p), NEW k, NEW address, address = AddressIn(addressed, stride, s, k),
         \A g \in Iterated(p) : Group(p, g).argument # s
  PROVE  /\ \E i, x : SlotOf(p, qs, s, k, i, x) /\ \A tail \in TailsOf(p, s) :
                StandsIn(p, qs, a, i, x, x, address, p.shards[s].size + tail)
         /\ address \in Nat
         /\ \A n \in Needs(p) : n.shard = s => address % n.alignment = 0
<1> DEFINE sets == AliasSets(p)
           size == p.shards[s].size
<1>1. WellFormed(p) /\ Placeable(p, sets) /\ QueueSound(p, qs) /\ StridesSound(p, addressed, stride)
  BY DEF AllPlaced
<1>2. sets \in SetsOf(p)
  BY <1>1, AliasesTyped
<1>3. sets.root[s] \in Roots(sets) /\ MemberOffset(sets, s) \in Nat /\ size \in Nat
  <2>1. sets.root[s] \in Roots(sets)
    BY <1>2, SetsTyped
  <2>2. MemberOffset(sets, s) \in Nat
    BY <1>1, <1>2, MemberOffsets
  <2>3. size \in Nat
    BY <1>1, SizeTyped
  <2> QED BY <2>1, <2>2, <2>3
<1>4. s \notin DOMAIN stride /\ NamedIn(p, s, k) = s
  BY <1>1, NamedTyped DEF StridesSound
<1> HIDE DEF sets, size
<1>5. PICK i \in DOMAIN qs : sets.root[s] \in RootsOf(qs[i])
  BY <1>1, <1>3 DEF QueueSound, sets
<1>6. /\ RequestSound(p, sets, qs[i]) /\ AddressedBy(p, qs[i], BaseOf(a, qs[i]), addressed)
      /\ \A x, m \in DOMAIN qs[i].assignments :
           Inside(p, sets, qs[i], BaseOf(a, qs[i]), SpotOf(a, qs[i])[2], x, m)
  BY SpotsFit DEF sets
<1>7. PICK x \in DOMAIN qs[i].assignments : qs[i].assignments[x].root = sets.root[s]
  BY <1>5, <1>6, RootsListed
<1> DEFINE from == BaseOf(a, qs[i]) + Offset(qs[i], BaseOf(a, qs[i]), x)
           bytes == AllocationBytes(p, sets, sets.root[s])
           offset == MemberOffset(sets, s)
<1>8. addressed[s] = from + offset
  BY <1>6, <1>7 DEF AddressedBy, sets
<1>9. Room(p, sets, qs[i], BaseOf(a, qs[i]), x, x) = <<from, from + bytes>>
  BY <1>7 DEF Room
<1> HIDE DEF from, bytes, offset
<1>10. from \in Nat /\ from % RootAlignment(p, sets, sets.root[s]) = 0
  BY <1>6, <1>7, <1>9 DEF Inside
<1>11. address = from + offset
  <2>1. from + offset \in Int
    BY <1>3, <1>10 DEF offset
  <2> QED BY <1>4, <1>8, <2>1 DEF AddressIn
<1>12. /\ bytes \in Nat /\ (offset + size) + RootTail(p, sets, sets.root[s]) <= bytes
       /\ RootTail(p, sets, sets.root[s]) \in Nat
       /\ RootAlignment(p, sets, sets.root[s]) \in Nat \ {0}
       /\ \A n \in Needs(p) : n.shard = s =>
            n.tail <= RootTail(p, sets, sets.root[s])
            /\ RootAlignment(p, sets, sets.root[s]) % n.alignment = 0
  <2>1. bytes \in Nat /\ (offset + size) + RootTail(p, sets, sets.root[s]) <= bytes
    BY <1>1, <1>2, <1>3, RootHolds DEF bytes, offset, size
  <2>2. RootAlignment(p, sets, sets.root[s]) \in Alignments(p)
    BY <1>1, <1>2, RootNeeds
  <2>3. RootAlignment(p, sets, sets.root[s]) \in Nat \ {0}
    BY <1>1, <2>2, AlignmentsTyped
  <2> QED BY <1>1, <1>2, <2>1, <2>3, RootNeeds
<1>13. \A n \in Needs(p) : n.tail \in Nat /\ n.alignment \in Nat \ {0}
  BY <1>1, ProgramFinite DEF NeedsOf
<1>14. ASSUME NEW tail \in TailsOf(p, s)
       PROVE  StandsIn(p, qs, a, i, x, x, address, size + tail)
  <2>1. tail \in Nat /\ tail <= RootTail(p, sets, sets.root[s])
    BY <1>12, <1>13 DEF TailsOf
  <2>2. from <= address /\ address + (size + tail) <= from + bytes
    BY <1>3, <1>10, <1>11, <1>12, <2>1 DEF offset
  <2>3. <<from, from + bytes>>[1] = from /\ <<from, from + bytes>>[2] = from + bytes
    OBVIOUS
  <2> QED BY <1>9, <2>2, <2>3 DEF StandsIn, sets
<1>15. ASSUME NEW n \in Needs(p), n.shard = s PROVE address % n.alignment = 0
  <2>1. from % n.alignment = 0
    BY <1>10, <1>12, <1>13, <1>15, MultiplesTransitive
  <2>2. offset % n.alignment = 0
    BY <1>1, <1>15 DEF Placeable, offset
  <2>3. from \in Int /\ offset \in Int /\ n.alignment \in Nat \ {0}
    BY <1>3, <1>10, <1>13 DEF offset
  <2> QED BY <1>11, <2>1, <2>2, <2>3, MultiplesAdd
<1>16. SlotOf(p, qs, s, k, i, x)
  BY <1>4, <1>5, <1>7 DEF SlotOf, sets
<1>17. address \in Nat
  BY <1>3, <1>10, <1>11 DEF offset
<1> QED BY <1>14, <1>15, <1>16, <1>17 DEF size

\* The argument of a sequence stands in the slot of the input it names, within what some
\* input needs.
LEMMA ArgumentStands ==
  ASSUME NEW p, NEW qs, NEW a, NEW addressed, NEW stride, AllPlaced(p, qs, a, addressed, stride),
         NEW g \in Iterated(p), NEW k \in 0..(Iterations - 1),
         NEW s, s = Group(p, g).argument,
         NEW address, address = AddressIn(addressed, stride, s, k)
  PROVE  /\ \E i, x : SlotOf(p, qs, s, k, i, x) /\ \A tail \in TailsOf(p, s) :
                \E m \in DOMAIN qs[i].assignments :
                  StandsIn(p, qs, a, i, x, m, address, p.shards[s].size + tail)
         /\ address \in Nat
         /\ \A n \in Needs(p) : n.shard = s => address % n.alignment = 0
<1> DEFINE sets == AliasSets(p)
           inputs == Group(p, g).inputs
           x == k + 1
           size == p.shards[s].size
<1>1. WellFormed(p) /\ Placeable(p, sets) /\ QueueSound(p, qs) /\ StridesSound(p, addressed, stride)
      /\ ArgumentFits(p, sets, Group(p, g))
  BY DEF AllPlaced, Uniform
<1>2. sets \in SetsOf(p) /\ sets.root[inputs[1]] = sets.root[s]
  BY <1>1, AliasesTyped
<1>3. /\ DOMAIN inputs = 1..Len(inputs) /\ Len(inputs) \in Nat /\ Iterations <= Len(inputs)
      /\ \A i \in DOMAIN inputs : inputs[i] \in Shards(p)
      /\ s \in Shards(p) /\ 1 \in DOMAIN inputs
  BY <1>1, GroupTyped
<1>4. x \in DOMAIN inputs /\ x \in Nat /\ x - 1 = k /\ k \in Nat
  BY <1>3, MemoryAssumption
<1>5. NamedIn(p, s, k) = inputs[x]
  BY <1>1, NamedTyped
<1>6. s \in DOMAIN stride /\ addressed[inputs[x]] = addressed[s] + stride[s] * (x - 1)
  BY <1>1, <1>4 DEF StridesSound
<1>7. size \in Nat /\ MemberOffset(sets, inputs[x]) \in Nat
  BY <1>1, <1>2, <1>3, <1>4, SizeTyped, MemberOffsets
<1> HIDE DEF sets, inputs, x, size
<1>8. address = addressed[inputs[x]]
  BY <1>4, <1>6 DEF AddressIn
<1>9. PICK i \in DOMAIN qs : OfSequence(p, sets, g, qs[i])
  BY <1>1 DEF QueueSound, sets
<1>10. /\ RequestSound(p, sets, qs[i]) /\ AddressedBy(p, qs[i], BaseOf(a, qs[i]), addressed)
       /\ \A y, m \in DOMAIN qs[i].assignments :
            Inside(p, sets, qs[i], BaseOf(a, qs[i]), SpotOf(a, qs[i])[2], y, m)
  BY SpotsFit DEF sets
<1>11. /\ DOMAIN qs[i].assignments = DOMAIN inputs
       /\ \A y \in DOMAIN inputs : qs[i].assignments[y].root = sets.root[inputs[y]]
  BY <1>3, <1>9 DEF OfSequence, inputs
<1> DEFINE from == BaseOf(a, qs[i]) + Offset(qs[i], BaseOf(a, qs[i]), x)
           bytes(m) == AllocationBytes(p, sets, sets.root[inputs[m]])
           offset == MemberOffset(sets, inputs[x])
<1>12. addressed[inputs[x]] = from + offset
  BY <1>3, <1>4, <1>10, <1>11 DEF AddressedBy, sets
<1>13. \A m \in DOMAIN inputs :
         Room(p, sets, qs[i], BaseOf(a, qs[i]), x, m) = <<from, from + bytes(m)>>
  BY <1>11 DEF Room
<1> HIDE DEF from, bytes, offset
<1>14. from \in Nat /\ \A m \in DOMAIN inputs : from + bytes(m) \in Nat
                       /\ from % RootAlignment(p, sets, sets.root[inputs[m]]) = 0
  <2>1. ASSUME NEW m \in DOMAIN inputs
        PROVE  from \in Nat /\ from + bytes(m) \in Nat
               /\ from % RootAlignment(p, sets, sets.root[inputs[m]]) = 0
    <3>1. Inside(p, sets, qs[i], BaseOf(a, qs[i]), SpotOf(a, qs[i])[2], x, m)
      BY <1>4, <1>10, <1>11
    <3>2. <<from, from + bytes(m)>>[1] = from /\ <<from, from + bytes(m)>>[2] = from + bytes(m)
      OBVIOUS
    <3> QED BY <1>11, <1>13, <3>1, <3>2 DEF Inside
  <2> QED BY <1>3, <2>1
<1>15. address = from + offset
  BY <1>8, <1>12
<1>16. \A n \in Needs(p) : n.tail \in Nat /\ n.alignment \in Nat \ {0}
  BY <1>1, ProgramFinite DEF NeedsOf
<1>17. /\ \A n \in Needs(p) : n.shard = s => offset % n.alignment = 0
       /\ \A tail \in TailsOf(p, s) : \E m \in DOMAIN inputs : (offset + size) + tail <= bytes(m)
  BY <1>1, <1>4 DEF ArgumentFits, TailsOf, inputs, offset, bytes, size
<1>18. \A m \in DOMAIN inputs : bytes(m) \in Nat
  <2>1. ASSUME NEW m \in DOMAIN inputs PROVE bytes(m) \in Nat
    <3>1. sets.root[inputs[m]] \in Roots(sets)
      BY <1>2, <1>3, SetsTyped
    <3> QED BY <1>1, <1>2, <3>1, RootHolds DEF bytes
  <2> QED BY <2>1
<1>19. ASSUME NEW tail \in TailsOf(p, s)
       PROVE  \E m \in DOMAIN qs[i].assignments : StandsIn(p, qs, a, i, x, m, address, size + tail)
  <2>1. PICK m \in DOMAIN inputs : (offset + size) + tail <= bytes(m)
    BY <1>17
  <2>2. tail \in Nat
    BY <1>16 DEF TailsOf
  <2>3. from <= address /\ address + (size + tail) <= from + bytes(m)
    BY <1>7, <1>14, <1>15, <1>18, <2>1, <2>2 DEF offset
  <2>4. <<from, from + bytes(m)>>[1] = from /\ <<from, from + bytes(m)>>[2] = from + bytes(m)
    OBVIOUS
  <2>5. StandsIn(p, qs, a, i, x, m, address, size + tail)
    BY <1>13, <2>3, <2>4 DEF StandsIn, sets
  <2> QED BY <1>11, <2>5
<1>20. ASSUME NEW n \in Needs(p), n.shard = s PROVE address % n.alignment = 0
  <2>1. RootAlignment(p, sets, sets.root[s]) % n.alignment = 0
    BY <1>1, <1>2, <1>20, RootNeeds
  <2>2. RootAlignment(p, sets, sets.root[s]) \in Alignments(p)
    BY <1>1, <1>2, RootNeeds
  <2>3. RootAlignment(p, sets, sets.root[s]) \in Nat \ {0}
    BY <1>1, <2>2, AlignmentsTyped
  <2>4. from % RootAlignment(p, sets, sets.root[s]) = 0
    BY <1>2, <1>3, <1>14
  <2>5. from % n.alignment = 0
    BY <1>14, <1>16, <2>1, <2>3, <2>4, MultiplesTransitive
  <2>6. offset % n.alignment = 0
    BY <1>17, <1>20
  <2>7. from \in Int /\ offset \in Int /\ n.alignment \in Nat \ {0}
    BY <1>7, <1>14, <1>16 DEF offset
  <2> QED BY <1>15, <2>5, <2>6, <2>7, MultiplesAdd
<1>21. SlotOf(p, qs, s, k, i, x)
  <2>1. qs[i].assignments[1].root = sets.root[s]
    BY <1>2, <1>3, <1>11
  <2>2. sets.root[s] \in RootsOf(qs[i])
    BY <1>3, <1>10, <1>11, <2>1, RootsListed
  <2> QED BY <1>4, <1>5, <1>11, <2>2 DEF SlotOf, sets
<1>22. address \in Nat
  BY <1>7, <1>14, <1>15 DEF offset
<1> QED BY <1>19, <1>20, <1>21, <1>22 DEF size

\* Every shard, in every iteration.
LEMMA ShardStands ==
  ASSUME NEW p, NEW qs, NEW a, NEW addressed, NEW stride, AllPlaced(p, qs, a, addressed, stride),
         NEW s \in Shards(p), NEW k \in 0..(Iterations - 1),
         NEW address, address = AddressIn(addressed, stride, s, k)
  PROVE  /\ \E i, x : SlotOf(p, qs, s, k, i, x) /\ \A tail \in TailsOf(p, s) :
                \E m \in DOMAIN qs[i].assignments :
                  StandsIn(p, qs, a, i, x, m, address, p.shards[s].size + tail)
         /\ address \in Nat
         /\ \A n \in Needs(p) : n.shard = s => address % n.alignment = 0
<1>1. CASE \A g \in Iterated(p) : Group(p, g).argument # s
  <2>1. /\ \E i, x : SlotOf(p, qs, s, k, i, x) /\ \A tail \in TailsOf(p, s) :
              StandsIn(p, qs, a, i, x, x, address, p.shards[s].size + tail)
        /\ address \in Nat /\ \A n \in Needs(p) : n.shard = s => address % n.alignment = 0
    BY <1>1, PlainStands
  <2> QED BY <2>1 DEF SlotOf
<1>2. CASE \E g \in Iterated(p) : s = Group(p, g).argument
  <2>1. PICK g \in Iterated(p) : s = Group(p, g).argument
    BY <1>2
  <2> QED BY <2>1, ArgumentStands
<1> QED BY <1>1, <1>2

\* The room of a slot lies in one of the ranges.
LEMMA RoomInRange ==
  ASSUME NEW p, NEW qs, NEW a, NEW addressed, NEW stride, AllPlaced(p, qs, a, addressed, stride),
         NEW i \in DOMAIN qs, NEW x \in DOMAIN qs[i].assignments, NEW m \in DOMAIN qs[i].assignments,
         NEW address \in Nat, NEW bytes \in Nat, StandsIn(p, qs, a, i, x, m, address, bytes)
  PROVE  /\ SpotOf(a, qs[i])[1] <= address /\ address + bytes <= SpotOf(a, qs[i])[2]
         /\ \E r \in RangesOf(p) : r[1] <= address /\ address + bytes <= r[2]
<1> DEFINE room == Room(p, AliasSets(p), qs[i], BaseOf(a, qs[i]), x, m)
           start == SpotOf(a, qs[i])[1]
           end == SpotOf(a, qs[i])[2]
<1>1. room[1] \in Nat /\ room[2] \in Nat /\ start <= room[1] /\ room[2] <= end
  BY SpotsFit DEF Inside, BaseOf
<1>2. room[1] <= address /\ address + bytes <= room[2]
  BY DEF StandsIn
<1>3. PICK r \in RangesOf(p) : start \in Nat /\ end \in Nat /\ r[1] <= start /\ end <= r[2]
  BY SpotsFit DEF Fits
<1>4. r[1] \in Nat /\ r[2] \in Nat
  BY RangesTyped DEF AllPlaced
<1> HIDE DEF room, start, end
<1>5. start <= address /\ address + bytes <= end
  BY <1>1, <1>2, <1>3
<1>6. r[1] <= address /\ address + bytes <= r[2]
  BY <1>3, <1>4, <1>5
<1> QED BY <1>5, <1>6 DEF start, end

\* Operands that are kept apart share no element, in any iteration.
LEMMA PairApart ==
  ASSUME NEW p, NEW qs, NEW a, NEW addressed, NEW stride, AllPlaced(p, qs, a, addressed, stride),
         NEW s \in Shards(p), NEW t \in Shards(p), <<s, t>> \in Pairs(p),
         NEW k \in 0..(Iterations - 1),
         NEW one, one = AddressIn(addressed, stride, s, k),
         NEW two, two = AddressIn(addressed, stride, t, k)
  PROVE  ElementsApart(<<one, one + p.shards[s].size>>, <<two, two + p.shards[t].size>>)
<1> DEFINE sets == AliasSets(p)
           sizeS == p.shards[s].size
           sizeT == p.shards[t].size
<1>1. WellFormed(p) /\ Placeable(p, sets) /\ Uniform(p, sets) /\ QueueSound(p, qs)
      /\ Clear(p, qs, Len(qs), a)
  BY DEF AllPlaced, Legal
<1>2. sizeS \in Nat /\ sizeT \in Nat
  BY <1>1, SizeTyped
<1>3. 0 \in TailsOf(p, s) /\ 0 \in TailsOf(p, t) /\ sizeS + 0 = sizeS /\ sizeT + 0 = sizeT
  BY <1>2 DEF TailsOf
<1>4. one \in Nat /\ two \in Nat
  BY ShardStands
<1>5. \E i, x : SlotOf(p, qs, s, k, i, x) /\ \E m \in DOMAIN qs[i].assignments :
        StandsIn(p, qs, a, i, x, m, one, sizeS)
  <2>1. \E i, x : SlotOf(p, qs, s, k, i, x) /\ \A tail \in TailsOf(p, s) :
          \E m \in DOMAIN qs[i].assignments : StandsIn(p, qs, a, i, x, m, one, sizeS + tail)
    BY ShardStands
  <2> HIDE DEF sizeS
  <2> QED BY <1>3, <2>1
<1>6. \E j, y : SlotOf(p, qs, t, k, j, y) /\ \E n \in DOMAIN qs[j].assignments :
        StandsIn(p, qs, a, j, y, n, two, sizeT)
  <2>1. \E j, y : SlotOf(p, qs, t, k, j, y) /\ \A tail \in TailsOf(p, t) :
          \E n \in DOMAIN qs[j].assignments : StandsIn(p, qs, a, j, y, n, two, sizeT + tail)
    BY ShardStands
  <2> HIDE DEF sizeT
  <2> QED BY <1>3, <2>1
<1>7. PICK i, x, m : SlotOf(p, qs, s, k, i, x) /\ m \in DOMAIN qs[i].assignments
                     /\ StandsIn(p, qs, a, i, x, m, one, sizeS)
  BY <1>5
<1>8. PICK j, y, n : SlotOf(p, qs, t, k, j, y) /\ n \in DOMAIN qs[j].assignments
                     /\ StandsIn(p, qs, a, j, y, n, two, sizeT)
  BY <1>6
<1> HIDE DEF sets, sizeS, sizeT
<1>9. /\ i \in DOMAIN qs /\ x \in DOMAIN qs[i].assignments /\ sets.root[s] \in RootsOf(qs[i])
      /\ qs[i].assignments[x].root = sets.root[NamedIn(p, s, k)]
      /\ j \in DOMAIN qs /\ y \in DOMAIN qs[j].assignments /\ sets.root[t] \in RootsOf(qs[j])
      /\ qs[j].assignments[y].root = sets.root[NamedIn(p, t, k)]
  BY <1>7, <1>8 DEF SlotOf, sets
<1>10. sets.root[NamedIn(p, s, k)] # sets.root[NamedIn(p, t, k)]
  <2>1. \A pair \in Pairs(p) : sets.root[NamedIn(p, pair[1], k)] # sets.root[NamedIn(p, pair[2], k)]
    BY <1>1 DEF Uniform
  <2>2. <<s, t>>[1] = s /\ <<s, t>>[2] = t
    OBVIOUS
  <2> QED BY <2>1, <2>2
<1>11. sets.root[t] \in Conflicts(p, sets, sets.root[s])
  <2>1. <<s, t>> \in {q \in Pairs(p) : sets.root[q[1]] = sets.root[s]}
    OBVIOUS
  <2> QED BY <2>1 DEF Conflicts
<1> DEFINE spotS == SpotOf(a, qs[i])
           spotT == SpotOf(a, qs[j])
<1>12. spotS[1] <= one /\ one + sizeS <= spotS[2]
  BY <1>2, <1>4, <1>7, <1>9, RoomInRange
<1>13. spotT[1] <= two /\ two + sizeT <= spotT[2]
  BY <1>2, <1>4, <1>8, <1>9, RoomInRange
<1>14. spotS[1] \in Nat /\ spotS[2] \in Nat /\ spotT[1] \in Nat /\ spotT[2] \in Nat
  <2>1. \A f \in DOMAIN qs : SpotOf(a, qs[f])[1] \in Nat /\ SpotOf(a, qs[f])[2] \in Nat
    BY SpotsFit DEF Fits
  <2> QED BY <1>9, <2>1
<1>15. CASE i # j
  <2>1. RequestSound(p, sets, qs[i])
    BY <1>9, SpotsFit DEF sets
  <2>2. sets.root[t] \notin RootsOf(qs[i])
    BY <1>1, <1>9, <1>15 DEF QueueSound
  <2>3. sets.root[t] \in qs[i].conflicts
    BY <1>9, <1>11, <2>1, <2>2 DEF RequestSound, ConflictsOf
  <2>4. KeptApart(qs[i], qs[j])
    BY <1>9, <2>3 DEF KeptApart
  <2>5. ElementsApart(spotS, spotT)
    <3>1. i \in 1..Len(qs) /\ j \in 1..Len(qs)
      BY <1>1, <1>9 DEF QueueSound
    <3> QED BY <1>1, <1>15, <2>4, <3>1 DEF Clear
  <2> HIDE DEF spotS, spotT
  <2>6. ASSUME NEW u \in Int, NEW v \in Int, one <= u, u < one + sizeS, two <= v, v < two + sizeT
        PROVE  ElementAt(u) # ElementAt(v)
    <3>1. spotS[1] <= u /\ u < spotS[2] /\ spotT[1] <= v /\ v < spotT[2]
      BY <1>2, <1>4, <1>12, <1>13, <1>14, <2>6
    <3> QED BY <2>5, <3>1 DEF ElementsApart
  <2>7. ElementsApart(<<one, one + sizeS>>, <<two, two + sizeT>>)
    BY <2>6 DEF ElementsApart
  <2> QED BY <2>7 DEF sizeS, sizeT
<1>16. CASE i = j
  <2>1. x # y
    BY <1>9, <1>10, <1>16
  <2>2. SeparateMembers(p, sets, RootsOf(qs[i]))
    BY <1>9, <1>11, <1>16 DEF SeparateMembers
  <2>3. PICK r \in RangesOf(p) : Fits(p, qs[i], r, spotS[1], spotS[2])
    BY <1>9, SpotsFit
  <2>4. Slotted(p, sets, qs[i])
    BY <1>9, SpotsFit DEF RequestSound, sets
  <2> DEFINE roomS == Room(p, sets, qs[i], BaseOf(a, qs[i]), x, m)
             roomT == Room(p, sets, qs[i], BaseOf(a, qs[i]), y, n)
  <2>5. RoomsApart(p, sets, qs[i], BaseOf(a, qs[i]), x, m, y, n)
    BY <1>7, <1>8, <1>9, <1>16, <2>1, <2>3, <2>4 DEF Slotted, BaseOf
  <2>6. ElementsApart(roomS, roomT)
    BY <2>2, <2>5 DEF RoomsApart
  <2>7. roomS[1] <= one /\ one + sizeS <= roomS[2] /\ roomT[1] <= two /\ two + sizeT <= roomT[2]
    BY <1>7, <1>8, <1>16 DEF StandsIn, sets
  <2>8. roomS[1] \in Nat /\ roomS[2] \in Nat /\ roomT[1] \in Nat /\ roomT[2] \in Nat
    <3>1. \A f, h \in DOMAIN qs[i].assignments :
            Inside(p, sets, qs[i], BaseOf(a, qs[i]), SpotOf(a, qs[i])[2], f, h)
      BY <1>9, SpotsFit DEF sets
    <3>2. Inside(p, sets, qs[i], BaseOf(a, qs[i]), SpotOf(a, qs[i])[2], x, m)
          /\ Inside(p, sets, qs[i], BaseOf(a, qs[i]), SpotOf(a, qs[i])[2], y, n)
      BY <1>7, <1>8, <1>9, <1>16, <3>1
    <3> QED BY <3>2 DEF Inside
  <2> HIDE DEF roomS, roomT
  <2>9. ASSUME NEW u \in Int, NEW v \in Int, one <= u, u < one + sizeS, two <= v, v < two + sizeT
        PROVE  ElementAt(u) # ElementAt(v)
    <3>1. roomS[1] <= u /\ u < roomS[2] /\ roomT[1] <= v /\ v < roomT[2]
      BY <1>2, <1>4, <2>7, <2>8, <2>9
    <3> QED BY <2>6, <3>1 DEF ElementsApart
  <2>10. ElementsApart(<<one, one + sizeS>>, <<two, two + sizeT>>)
    BY <2>9 DEF ElementsApart
  <2> QED BY <2>10 DEF sizeS, sizeT
<1> QED BY <1>15, <1>16

-----------------------------------------------------------------------------
(* The specification and its invariant.                                    *)

PlacementSpec == PlacementInit /\ [][PlacementNext]_placementVars

Placing == {"online", "offline", "search"}
Bound == {"placed", "loaded", "running", "done"}

RequestsInv ==
  placing \in Placing \cup Bound =>
    /\ Placeable(prog, AliasSets(prog))
    /\ Serves(requests, AllocationRequests(prog, AliasSets(prog)))
    /\ served \in 0..Len(requests) /\ Legal(prog, requests, served, arena, addresses)

SearchInv ==
  placing = "search" =>
    /\ SearchSound(prog, requests, domains)
    /\ \A i \in 1..served : domains.at[i] # <<>> /\ SpotOf(arena, requests[i]) = domains.at[i]

BoundInv ==
  /\ placing \in Bound => served = Len(requests) /\ StridesSound(prog, addresses, strides)
  /\ placing = "running" => pc \in 1..Forever(prog)

\* What is placed is legal, step by step; what the search keeps leads there only; and the
\* sequences have become a first address and a stride.
PlacementInv ==
  /\ prog \in Programs /\ round \in [run : Nat, iteration : 0..(Iterations - 1)]
  /\ placing = "analyze" => served = 0 /\ addresses = <<>> /\ arena = NewArena(prog, FALSE)
  /\ RequestsInv /\ SearchInv /\ BoundInv

\* Of nothing everything is legal.
LEMMA NothingPlaced ==
  ASSUME NEW p, WellFormed(p), NEW qs, NEW offline, NEW a, a = NewArena(p, offline),
         NEW addressed
  PROVE  Legal(p, qs, 0, a, addressed)
<1>1. a = [offline |-> offline, history |-> {}, spans |-> <<>>, auxiliary |-> <<>>,
           free |-> RangesOf(p), active |-> {}, occupied |-> {}]
  BY DEF NewArena
<1>2. IsArena(a)
  BY <1>1, Zenon DEF IsArena
<1>3. a.free = RangesOf(p) /\ a.active = {} /\ a.history = {} /\ a.spans = <<>>
  BY <1>1
<1>4. \A f \in a.free : InSome(p, f)
  <2>1. SUFFICES ASSUME NEW f \in RangesOf(p) PROVE InSome(p, f)
    BY <1>3
  <2>2. f \in Nat \X Nat /\ f[1] < f[2]
    BY RangesTyped
  <2>3. f[1] \in Nat /\ f[2] \in Nat /\ f[1] <= f[2] /\ f[1] <= f[1] /\ f[2] <= f[2]
    BY <2>2
  <2> QED BY <2>2, <2>3 DEF InSome
<1>5. ArenaSound(p, a)
  BY <1>2, <1>3, <1>4 DEF ArenaSound
<1>6. 1..0 = {}
  OBVIOUS
<1>7. DOMAIN a.spans = {}
  BY <1>3
<1> QED BY <1>5, <1>6, <1>7 DEF Legal, Clear, Known

\* A queue that serves a set holds that set.
LEMMA ServesRange ==
  ASSUME NEW S, NEW qs, Serves(qs, S)
  PROVE  Range(qs) = S
<1>1. qs \in Seq(S) /\ \A q \in S : \E i \in DOMAIN qs : qs[i] = q
  BY DEF Serves
<1>2. \A i \in DOMAIN qs : qs[i] \in S
  BY <1>1
<1>3. Range(qs) = {qs[i] : i \in DOMAIN qs}
  BY Zenon DEF Range
<1> QED BY <1>1, <1>2, <1>3

\* What is assumed of the programs.
LEMMA ProgramsAre ==
  ASSUME NEW p, p \in Programs
  PROVE  WellFormed(p) /\ (Placeable(p, AliasSets(p)) => Uniform(p, AliasSets(p)))
  BY ProgramsAssumption, SequencesAssumption

\* The invariant holds at first,
LEMMA PlacementStarts == PlacementInit => PlacementInv
<1> SUFFICES ASSUME PlacementInit PROVE PlacementInv
  OBVIOUS
<1>1. round \in [run : Nat, iteration : 0..(Iterations - 1)]
  BY MemoryAssumption DEF PlacementInit
<1> QED BY <1>1 DEF PlacementInit, PlacementInv, RequestsInv, SearchInv, BoundInv, Placing, Bound

\* The queue of a placement.
LEMMA QueueIsSound ==
  ASSUME PlacementInv, placing \in Placing \cup Bound
  PROVE  /\ WellFormed(prog) /\ Placeable(prog, AliasSets(prog))
         /\ Serves(requests, AllocationRequests(prog, AliasSets(prog)))
         /\ QueueSound(prog, requests) /\ RequestsSound(prog, AliasSets(prog), Range(requests))
         /\ served \in Nat /\ served \in 0..Len(requests) /\ Len(requests) \in Nat
         /\ Legal(prog, requests, served, arena, addresses)
<1>1. /\ WellFormed(prog) /\ Placeable(prog, AliasSets(prog))
      /\ Serves(requests, AllocationRequests(prog, AliasSets(prog)))
      /\ served \in 0..Len(requests) /\ Legal(prog, requests, served, arena, addresses)
  BY ProgramsAre DEF PlacementInv, RequestsInv
<1>2. QueueSound(prog, requests)
  BY <1>1, ServedIsSound
<1>3. RequestsSound(prog, AliasSets(prog), AllocationRequests(prog, AliasSets(prog)))
  BY <1>1, AliasesTyped, AllRequestsSound
<1>4. Range(requests) = AllocationRequests(prog, AliasSets(prog))
  BY <1>1, ServesRange
<1>5. Len(requests) \in Nat
  BY <1>2 DEF QueueSound
<1> QED BY <1>1, <1>2, <1>3, <1>4, <1>5

\* when the requests are made,
LEMMA AnalyzeKeeps == PlacementInv /\ Analyze => PlacementInv'
<1> SUFFICES ASSUME PlacementInv, Analyze PROVE PlacementInv'
  OBVIOUS
<1> DEFINE sets == AliasSets(prog)
           S == AllocationRequests(prog, sets)
<1>1. /\ prog' = prog /\ served' = served /\ arena' = arena /\ addresses' = addresses
      /\ round' = round /\ served = 0 /\ arena = NewArena(prog, FALSE) /\ addresses = <<>>
      /\ placing = "analyze"
  BY DEF Analyze, Unplaced, PlacementInv
<1>2. WellFormed(prog)
  BY ProgramsAre DEF PlacementInv
<1>3. CASE Placeable(prog, sets)
  <2>1. placing' = "online" /\ requests' = SortedBy(S, OnlineKey)
    BY <1>3 DEF Analyze
  <2>2. RequestsSound(prog, sets, S)
    BY <1>2, <1>3, AliasesTyped, AllRequestsSound
  <2> HIDE DEF S, sets
  <2>3. Serves(SortedBy(S, OnlineKey), S)
    BY <1>2, <2>2, OnlineSorted
  <2>4. Serves(requests', S)
    BY <2>1, <2>3
  <2>5. Len(requests') \in Nat
    BY <2>4 DEF Serves
  <2>6. Legal(prog, requests', 0, arena, addresses)
    BY <1>1, <1>2, NothingPlaced
  <2>7. served' = 0 /\ served' \in 0..Len(requests')
    BY <1>1, <2>5
  <2>8. Legal(prog', requests', served', arena', addresses')
    BY <1>1, <2>6, <2>7
  <2>9. Placeable(prog', AliasSets(prog')) /\ Serves(requests', AllocationRequests(prog', AliasSets(prog')))
    BY <1>1, <1>3, <2>4 DEF S, sets
  <2>10. RequestsInv'
    BY <2>7, <2>8, <2>9 DEF RequestsInv
  <2> QED BY <1>1, <2>1, <2>10 DEF PlacementInv, SearchInv, BoundInv, Bound
<1>4. CASE ~Placeable(prog, sets)
  <2>1. placing' = "refused"
    BY <1>4 DEF Analyze
  <2> QED BY <1>1, <2>1 DEF PlacementInv, RequestsInv, SearchInv, BoundInv, Bound, Placing
<1> QED BY <1>3, <1>4

\* One more request served.
ServedOneMore ==
  /\ prog' = prog /\ placing' = placing /\ requests' = requests /\ domains' = domains
  /\ strides' = strides /\ pc' = pc /\ round' = round /\ served' = served + 1
  /\ served < Len(requests)

\* What serving a request does: it takes start..end, within a range that is free when
\* what ended before is released.
AllocatesAt(q, b, c, start, end) ==
  /\ c.range \in b.free /\ c.range[1] \in Nat /\ c.range[2] \in Nat
  /\ start = c.start /\ end = c.start + c.bytes /\ start \in Nat /\ end \in Nat
  /\ c.range[1] <= start /\ start <= end /\ end <= c.range[2] /\ c.bytes \in Nat
  /\ InSome(prog, <<start, end>>) /\ ArenaSound(prog, b)
  /\ arena' = Record(Take(b, c), q, start, end)
  /\ SpotOf(arena', q) = <<start, end>>
  /\ \A i \in 1..served : SpotOf(arena', requests[i]) = SpotOf(arena, requests[i])
  /\ Legal(prog, requests, served + 1, arena', addresses')

\* A request that is served gets a place that fits, apart from what must be apart from it.
LEMMA Allocates ==
  ASSUME PlacementInv, Allocate,
         NEW q, q = requests[served + 1], NEW b, b = Release(prog, arena, q)
  PROVE  \E c, start, end : AllocatesAt(q, b, c, start, end)
<1>1. ServedOneMore /\ placing \in {"online", "offline"}
  BY DEF Allocate, Unplaced, ServedOneMore
<1>2. placing \in Placing \cup Bound
  BY <1>1 DEF Placing
<1>3. /\ WellFormed(prog) /\ QueueSound(prog, requests) /\ served \in Nat
      /\ Len(requests) \in Nat /\ Legal(prog, requests, served, arena, addresses)
      /\ Placeable(prog, AliasSets(prog))
      /\ Serves(requests, AllocationRequests(prog, AliasSets(prog)))
  BY <1>2, QueueIsSound
<1>4. PICK c \in Candidates(prog, b, q) :
        /\ arena' = Record(Take(b, c), q, c.start, c.start + c.bytes)
        /\ addresses' = Over(Assigned(prog, q, c.start), addresses)
  BY DEF Allocate
<1>5. served + 1 \in DOMAIN requests
  BY <1>1, <1>3 DEF ServedOneMore, QueueSound
<1>6. RequestTyped(prog, q)
  BY <1>3, <1>5 DEF QueueSound, RequestSound
<1>7. ArenaSound(prog, arena) /\ Clear(prog, requests, served, arena) /\ Known(requests, served, arena)
  BY <1>3 DEF Legal
<1>8. ArenaSound(prog, b)
  BY <1>3, <1>7, ReleaseSound
<1>9. b.spans = arena.spans /\ b.auxiliary = arena.auxiliary
  <2>1. IsArena(arena)
    BY <1>7 DEF ArenaSound
  <2>2. Released(prog, arena, q, b)
    BY <2>1, ReleaseShape
  <2> QED BY <2>2 DEF Released
<1>10. /\ c.range \in b.free /\ c.start \in Nat /\ c.bytes \in Nat
       /\ Fits(prog, q, c.range, c.start, c.start + c.bytes)
       /\ \A f \in Forbidden(b, q) : c.start >= f[2] \/ f[1] >= c.start + c.bytes
  BY <1>3, <1>6, <1>8, CandidateFits
<1> DEFINE start == c.start
           end == c.start + c.bytes
           d == Take(b, c)
<1>11. start \in Nat /\ end \in Nat /\ c.range[1] <= start /\ end <= c.range[2]
  BY <1>10 DEF Fits
<1>12. ArenaSound(prog, d) /\ d.spans = arena.spans /\ d.auxiliary = arena.auxiliary
  BY <1>3, <1>8, <1>9, <1>10, <1>11, TakeSound
<1>13. PICK r \in RangesOf(prog) : Fits(prog, q, r, start, end)
  <2>1. InSome(prog, c.range)
    BY <1>8, <1>10 DEF ArenaSound
  <2>2. PICK r \in RangesOf(prog) : r[1] <= c.range[1] /\ c.range[2] <= r[2]
    BY <2>1 DEF InSome
  <2>3. c.range \in Nat \X Nat /\ r \in Nat \X Nat
    BY <1>3, <2>1, RangesTyped DEF InSome
  <2>4. HostScratch \in Nat \X Nat
    BY MemoryAssumption
  <2>5. Fits(prog, q, r, start, end)
    BY <1>10, <2>2, <2>3, <2>4, FitsInLarger
  <2> QED BY <2>5
<1>14. Forbidden(arena, q) = Forbidden(b, q)
  BY <1>9 DEF Forbidden
<1> HIDE DEF start, end, d
<1>15. \A f \in Forbidden(arena, q) : start >= f[2] \/ f[1] >= end
  BY <1>10, <1>14 DEF start, end
<1>16. \A i \in 1..served : KeptApart(q, requests[i]) =>
         ElementsApart(SpotOf(arena, requests[i]), <<start, end>>)
  BY <1>3, <1>5, <1>7, <1>11, <1>15, ForbiddenApart
<1>17. arena' = Record(d, q, start, end) /\ addresses' = Over(Assigned(prog, q, start), addresses)
  BY <1>4 DEF start, end, d
<1>18. Legal(prog, requests, served + 1, arena', addresses')
  BY <1>3, <1>5, <1>12, <1>13, <1>16, <1>17, PlaceNext
<1>19. start <= end
  BY <1>10, <1>11 DEF start, end
<1>20. InSome(prog, <<start, end>>)
  <2>1. r[1] <= start /\ end <= r[2]
    BY <1>13 DEF Fits
  <2> QED BY <1>11, <1>19, <2>1 DEF InSome
<1>21. q.auxiliary # 0 => end = start + q.bytes
  <2>1. RequestSound(prog, AliasSets(prog), q)
    BY <1>3, <1>5 DEF QueueSound
  <2> QED BY <1>13, <2>1 DEF RequestSound, Identified, Fits, BytesAt
<1>22. /\ SpotOf(arena', q) = <<start, end>>
       /\ \A i \in 1..served : SpotOf(arena', requests[i]) = SpotOf(arena, requests[i])
  BY <1>3, <1>5, <1>7, <1>12, <1>17, <1>20, <1>21, SpotsKept
<1>23. c.range[1] \in Nat /\ c.range[2] \in Nat
  BY <1>8, <1>10 DEF ArenaSound, InSome
<1>24. AllocatesAt(q, b, c, start, end)
  BY <1>8, <1>10, <1>11, <1>17, <1>18, <1>19, <1>20, <1>22, <1>23 DEF AllocatesAt, start, end, d
<1> QED BY <1>24

\* when one is served,
LEMMA AllocateKeeps == PlacementInv /\ Allocate => PlacementInv'
<1> SUFFICES ASSUME PlacementInv, Allocate PROVE PlacementInv'
  OBVIOUS
<1>1. ServedOneMore /\ placing \in {"online", "offline"}
  BY DEF Allocate, Unplaced, ServedOneMore
<1>2. placing \in Placing \cup Bound
  BY <1>1 DEF Placing
<1>3. /\ served \in Nat /\ Len(requests) \in Nat /\ Placeable(prog, AliasSets(prog))
      /\ Serves(requests, AllocationRequests(prog, AliasSets(prog)))
  BY <1>2, QueueIsSound
<1>4. Legal(prog, requests, served + 1, arena', addresses')
  BY Allocates DEF AllocatesAt
<1>5. RequestsInv'
  BY <1>1, <1>3, <1>4 DEF RequestsInv, ServedOneMore
<1> QED BY <1>1, <1>5 DEF PlacementInv, ServedOneMore, SearchInv, BoundInv, Bound

\* when the lifetime order has failed,
LEMMA GoOfflineKeeps == PlacementInv /\ GoOffline => PlacementInv'
<1> SUFFICES ASSUME PlacementInv, GoOffline PROVE PlacementInv'
  OBVIOUS
<1> DEFINE S == AllocationRequests(prog, AliasSets(prog))
<1>1. /\ prog' = prog /\ placing' = "offline" /\ served' = 0 /\ round' = round
      /\ arena' = NewArena(prog, TRUE) /\ requests' = SortedBy(Range(requests), OfflineKey)
      /\ placing = "online"
  BY DEF GoOffline, Unplaced
<1>2. /\ WellFormed(prog) /\ Placeable(prog, AliasSets(prog)) /\ Serves(requests, S)
      /\ RequestsSound(prog, AliasSets(prog), Range(requests))
  BY <1>1, QueueIsSound DEF Placing
<1> HIDE DEF S
<1>3. Serves(SortedBy(Range(requests), OfflineKey), Range(requests))
  BY <1>2, OfflineSorted
<1>4. Serves(requests', S)
  BY <1>1, <1>2, <1>3, ServesRange
<1>5. served' \in 0..Len(requests')
  BY <1>1, <1>4 DEF Serves
<1>6. Legal(prog', requests', served', arena', addresses')
  BY <1>1, <1>2, NothingPlaced
<1>7. RequestsInv'
  BY <1>1, <1>2, <1>4, <1>5, <1>6 DEF RequestsInv, S
<1> QED BY <1>1, <1>7 DEF PlacementInv, SearchInv, BoundInv, Bound

\* when the size order has failed,
LEMMA BeginSearchKeeps == PlacementInv /\ BeginSearch => PlacementInv'
<1> SUFFICES ASSUME PlacementInv, BeginSearch PROVE PlacementInv'
  OBVIOUS
<1>1. /\ prog' = prog /\ requests' = requests /\ round' = round /\ placing = "offline"
      /\ placing' \in {"overfull", "search"}
  BY DEF BeginSearch, Unplaced
<1>2. /\ WellFormed(prog) /\ Placeable(prog, AliasSets(prog)) /\ QueueSound(prog, requests)
      /\ Serves(requests, AllocationRequests(prog, AliasSets(prog))) /\ Len(requests) \in Nat
  BY <1>1, QueueIsSound DEF Placing
<1>3. CASE placing' = "overfull"
  BY <1>1, <1>3 DEF PlacementInv, RequestsInv, SearchInv, BoundInv, Bound, Placing
<1>4. CASE placing' = "search"
  <2>1. /\ served' = 0 /\ arena' = NewArena(prog, TRUE)
        /\ domains' = [left |-> SearchDomains(prog, requests), at |-> [i \in DOMAIN requests |-> <<>>]]
    BY <1>4 DEF BeginSearch
  <2>2. Legal(prog', requests', served', arena', addresses')
    BY <1>1, <1>2, <2>1, NothingPlaced
  <2>3. SearchSound(prog', requests', domains')
    BY <1>1, <1>2, <2>1, SearchBegins
  <2>4. RequestsInv'
    <3>1. served' \in 0..Len(requests')
      BY <1>1, <1>2, <2>1
    <3> QED BY <1>1, <1>2, <2>2, <3>1 DEF RequestsInv
  <2>5. SearchInv'
    BY <2>1, <2>3 DEF SearchInv
  <2> QED BY <1>1, <1>4, <2>4, <2>5 DEF PlacementInv, BoundInv, Bound
<1> QED BY <1>1, <1>3, <1>4

\* when the search goes on,
LEMMA VisitKeeps == PlacementInv /\ Visit => PlacementInv'
<1> SUFFICES ASSUME PlacementInv, Visit PROVE PlacementInv'
  OBVIOUS
<1>1. /\ prog' = prog /\ requests' = requests /\ round' = round /\ placing = "search"
      /\ placing' = placing /\ served' = served /\ arena' = arena /\ addresses' = addresses
  BY DEF Visit, Unplaced
<1>2. /\ WellFormed(prog) /\ QueueSound(prog, requests) /\ Len(requests) \in Nat
      /\ served \in 0..Len(requests) /\ DOMAIN requests = 1..Len(requests)
  <2>1. placing \in Placing \cup Bound
    BY <1>1 DEF Placing
  <2> QED BY <2>1, QueueIsSound DEF QueueSound
<1> DEFINE next(i, d, start) ==
             [left |-> [j \in DOMAIN requests |->
                          IF j \in Waiting \ {i}
                          THEN Propagated(requests, domains.left, i, start, start + d.bytes, j)
                          ELSE domains.left[j]],
              at |-> [domains.at EXCEPT ![i] = <<start, start + d.bytes>>]]
<1>31. PICK i \in Waiting : \E d \in domains.left[i] : \E start \in Starts(d) :
        domains' = next(i, d, start)
  BY DEF Visit
<1>32. PICK d \in domains.left[i] : \E start \in Starts(d) : domains' = next(i, d, start)
  BY <1>31
<1>3. PICK start \in Starts(d) : domains' = next(i, d, start)
  BY <1>32
<1> DEFINE end == start + d.bytes
<1>4. i \in DOMAIN requests /\ domains.at[i] = <<>>
  BY DEF Waiting
<1>5. Visited(requests, domains, i, start, end, domains')
  <2>1. /\ domains'.at = [domains.at EXCEPT ![i] = <<start, end>>]
        /\ \A j \in DOMAIN requests : domains'.left[j] =
             (IF j \in Waiting \ {i}
              THEN Propagated(requests, domains.left, i, start, end, j) ELSE domains.left[j])
    BY <1>3
  <2> HIDE DEF end
  <2> QED BY <2>1 DEF Visited, Waiting
<1> HIDE DEF end
<1>6. SearchSound(prog, requests, domains)
      /\ \A j \in 1..served : domains.at[j] # <<>> /\ SpotOf(arena, requests[j]) = domains.at[j]
  BY <1>1 DEF PlacementInv, SearchInv
<1>7. SearchSound(prog, requests, domains')
  BY <1>2, <1>4, <1>5, <1>6, VisitSound DEF end
<1>8. \A j \in 1..served : domains'.at[j] # <<>> /\ SpotOf(arena, requests[j]) = domains'.at[j]
  <2>1. SUFFICES ASSUME NEW j \in 1..served PROVE domains'.at[j] = domains.at[j]
    BY <1>6
  <2>2. j # i
    BY <1>4, <1>6
  <2> QED BY <1>5, <1>6, <2>2 DEF Visited
<1>9. SearchInv'
  BY <1>1, <1>7, <1>8 DEF SearchInv
<1>10. RequestsInv'
  BY <1>1 DEF PlacementInv, RequestsInv
<1> QED BY <1>1, <1>9, <1>10 DEF PlacementInv, BoundInv, Bound

\* when what it found is recorded,
LEMMA RecordFoundKeeps == PlacementInv /\ RecordFound => PlacementInv'
<1> SUFFICES ASSUME PlacementInv, RecordFound PROVE PlacementInv'
  OBVIOUS
<1> DEFINE n == served
           q == requests[n + 1]
           at == domains.at[n + 1]
<1>1. ServedOneMore /\ placing = "search" /\ Waiting = {}
      /\ arena' = Record(arena, q, at[1], at[2])
      /\ addresses' = Over(Assigned(prog, q, at[1]), addresses)
  BY DEF RecordFound, Unplaced, ServedOneMore
<1>2. /\ WellFormed(prog) /\ QueueSound(prog, requests) /\ n \in Nat
      /\ Len(requests) \in Nat /\ Legal(prog, requests, n, arena, addresses)
      /\ Placeable(prog, AliasSets(prog))
      /\ Serves(requests, AllocationRequests(prog, AliasSets(prog)))
  BY <1>1, QueueIsSound DEF Placing
<1>3. SearchSound(prog, requests, domains)
      /\ \A i \in 1..n : domains.at[i] # <<>> /\ SpotOf(arena, requests[i]) = domains.at[i]
  BY <1>1 DEF PlacementInv, SearchInv
<1>4. n + 1 \in DOMAIN requests /\ 1..n \subseteq DOMAIN requests
  BY <1>1, <1>2 DEF ServedOneMore, QueueSound
<1>5. \A i \in DOMAIN requests : domains.at[i] # <<>>
  BY <1>1 DEF Waiting
<1> HIDE DEF n, q, at
<1>6. Spotted(prog, q, at)
  BY <1>3, <1>4, <1>5 DEF SearchSound, q, at
<1>7. PICK r \in RangesOf(prog) : Fits(prog, q, r, at[1], at[2])
  BY <1>6 DEF Spotted
<1>8. at = <<at[1], at[2]>> /\ at[1] \in Nat /\ at[2] \in Nat
  BY <1>6, <1>7 DEF Spotted, Fits
<1>9. ASSUME NEW i \in 1..n PROVE ApartAsDue(requests[i], q, SpotOf(arena, requests[i]), <<at[1], at[2]>>)
  <2>1. i # n + 1 /\ i \in DOMAIN requests
    BY <1>2, <1>4
  <2>2. ApartAsDue(requests[i], q, domains.at[i], at)
    BY <1>3, <1>4, <1>5, <2>1 DEF SearchSound, q, at
  <2> QED BY <1>3, <1>8, <2>2
<1>10. \A i \in 1..n : KeptApart(q, requests[i]) =>
         ElementsApart(SpotOf(arena, requests[i]), <<at[1], at[2]>>)
  BY <1>9 DEF ApartAsDue, KeptApart
<1>11. ArenaSound(prog, arena)
  BY <1>2 DEF Legal
<1>12. Legal(prog, requests, n + 1, arena', addresses')
  BY <1>1, <1>2, <1>4, <1>7, <1>8, <1>10, <1>11, PlaceNext DEF q
<1>13. Known(requests, n, arena) /\ InSome(prog, <<at[1], at[2]>>)
  <2>1. Known(requests, n, arena)
    BY <1>2 DEF Legal
  <2>2. at[1] <= at[2] /\ r[1] <= at[1] /\ at[2] <= r[2]
    <3>1. at[2] = at[1] + BytesAt(q, at[1]) /\ r[1] <= at[1] /\ at[2] <= r[2]
      BY <1>7 DEF Fits
    <3>2. q.bytes \in Nat /\ q.region1Stride \in Nat /\ Len(q.assignments) \in Nat
      BY <1>2, <1>4 DEF QueueSound, RequestSound, RequestTyped, q
    <3>3. q.region1Stride * Len(q.assignments) \in Nat
      BY <3>2
    <3>4. BytesAt(q, at[1]) \in Nat
      BY <3>2, <3>3 DEF BytesAt
    <3> QED BY <1>8, <3>1, <3>4
  <2> QED BY <1>8, <2>1, <2>2 DEF InSome
<1>14. q.auxiliary # 0 => at[2] = at[1] + q.bytes
  <2>1. RequestSound(prog, AliasSets(prog), q)
    BY <1>2, <1>4 DEF QueueSound, q
  <2> QED BY <1>7, <2>1 DEF RequestSound, Identified, Fits, BytesAt
<1>15. /\ SpotOf(arena', q) = <<at[1], at[2]>>
       /\ \A i \in 1..n : SpotOf(arena', requests[i]) = SpotOf(arena, requests[i])
  BY <1>1, <1>2, <1>4, <1>11, <1>13, <1>14, SpotsKept DEF q
<1>16. \A i \in 1..(n + 1) : domains.at[i] # <<>> /\ SpotOf(arena', requests[i]) = domains.at[i]
  <2>1. SUFFICES ASSUME NEW i \in 1..(n + 1)
                 PROVE  domains.at[i] # <<>> /\ SpotOf(arena', requests[i]) = domains.at[i]
    OBVIOUS
  <2>2. CASE i \in 1..n
    BY <1>3, <1>15, <2>2
  <2>3. CASE i = n + 1
    BY <1>4, <1>5, <1>8, <1>15, <2>3 DEF q, at
  <2> QED BY <1>2, <2>2, <2>3
<1>17. RequestsInv'
  BY <1>1, <1>2, <1>12 DEF RequestsInv, ServedOneMore, n
<1>18. SearchInv'
  BY <1>1, <1>3, <1>16 DEF SearchInv, ServedOneMore, n
<1> QED BY <1>1, <1>17, <1>18 DEF PlacementInv, ServedOneMore, BoundInv, Bound

\* when the sequences get their strides,
LEMMA BindKeeps == PlacementInv /\ Bind => PlacementInv'
<1> SUFFICES ASSUME PlacementInv, Bind PROVE PlacementInv'
  OBVIOUS
<1> DEFINE groups == {Group(prog, g) : g \in Iterated(prog)}
           regular(g) == \A i \in DOMAIN g.inputs :
                           addresses[g.inputs[i]] = addresses[g.argument] + StrideOf(g) * (i - 1)
<1>1. /\ prog' = prog /\ requests' = requests /\ served' = served /\ arena' = arena
      /\ addresses' = addresses /\ round' = round /\ placing \in Placing /\ served = Len(requests)
      /\ placing' \in {"placed", "irregular"}
  BY DEF Bind, Placing
<1>2. WellFormed(prog) /\ Placeable(prog, AliasSets(prog))
  BY <1>1, QueueIsSound
<1>3. CASE placing' = "irregular"
  BY <1>1, <1>3 DEF PlacementInv, RequestsInv, SearchInv, BoundInv, Bound, Placing
<1>4. CASE placing' = "placed"
  <2>1. /\ \A g \in groups : regular(g)
        /\ strides' = [s \in {g.argument : g \in groups} |-> StrideOf(CHOOSE g \in groups : g.argument = s)]
    BY <1>4 DEF Bind
  <2>2. ASSUME NEW g \in Iterated(prog)
        PROVE  /\ Group(prog, g).argument \in DOMAIN strides'
               /\ strides'[Group(prog, g).argument] = StrideOf(Group(prog, g))
    <3> DEFINE s == Group(prog, g).argument
               x == CHOOSE h \in groups : h.argument = s
    <3>1. Group(prog, g) \in groups /\ s \in {h.argument : h \in groups}
      OBVIOUS
    <3>2. x \in groups /\ x.argument = s
      BY <3>1
    <3>3. PICK h \in Iterated(prog) : x = Group(prog, h)
      BY <3>2
    <3>4. h = g
      BY <1>2, <3>2, <3>3, ArgumentsDiffer
    <3> HIDE DEF groups
    <3>5. strides'[s] = StrideOf(x) /\ s \in DOMAIN strides'
      BY <2>1, <3>1
    <3> QED BY <3>3, <3>4, <3>5
  <2>3. \A g \in Iterated(prog) : regular(Group(prog, g))
    BY <2>1
  <2>4. \A s \in DOMAIN strides' : \E g \in Iterated(prog) : Group(prog, g).argument = s
    BY <2>1
  <2>5. StridesSound(prog, addresses, strides')
    BY <2>2, <2>3, <2>4 DEF StridesSound
  <2>6. RequestsInv'
    BY <1>1, <1>4 DEF PlacementInv, RequestsInv
  <2> QED BY <1>1, <1>4, <2>5, <2>6 DEF PlacementInv, SearchInv, BoundInv
<1> QED BY <1>1, <1>3, <1>4

\* The steps of the placed program change no address.
StaysPlaced ==
  /\ prog' = prog /\ requests' = requests /\ served' = served /\ arena' = arena
  /\ addresses' = addresses /\ strides' = strides /\ placing \in Bound /\ placing' \in Bound

\* and when the program runs.
LEMMA RunKeeps ==
  ASSUME PlacementInv, StaysPlaced, round' \in [run : Nat, iteration : 0..(Iterations - 1)],
         placing' = "running" => pc' \in 1..Forever(prog)
  PROVE  PlacementInv'
<1>1. RequestsInv'
  BY DEF PlacementInv, RequestsInv, StaysPlaced
<1>2. SearchInv'
  BY DEF SearchInv, StaysPlaced, Bound
<1>3. BoundInv'
  BY DEF PlacementInv, BoundInv, StaysPlaced
<1> QED BY <1>1, <1>2, <1>3 DEF PlacementInv, StaysPlaced, Bound

\* The events of a program are numbered from 1, and forever comes after them.
LEMMA WorkTyped ==
  ASSUME NEW p, WellFormed(p)
  PROVE  /\ Len(p.work) \in Nat /\ DOMAIN p.work = 1..Len(p.work) /\ Forever(p) \in Nat \ {0}
         /\ Forever(p) = Len(p.work) + 1
<1>1. p.work \in Seq(WorkOf(p))
  BY DEF WellFormed
<1> QED BY <1>1 DEF Forever

\* Loading, the invocations and the Repeats.
LEMMA RunningKeeps ==
  PlacementInv /\ (LoadProgram \/ Upload \/ Execute \/ Repeat \/ Download) => PlacementInv'
<1> SUFFICES ASSUME PlacementInv, LoadProgram \/ Upload \/ Execute \/ Repeat \/ Download
             PROVE  PlacementInv'
  OBVIOUS
<1> DEFINE rounds == [run : Nat, iteration : 0..(Iterations - 1)]
<1>1. round \in rounds /\ WellFormed(prog) /\ (placing = "running" => pc \in 1..Forever(prog))
  BY ProgramsAre DEF PlacementInv, BoundInv
<1>2. /\ Len(prog.work) \in Nat /\ DOMAIN prog.work = 1..Len(prog.work)
      /\ Forever(prog) \in Nat \ {0} /\ Forever(prog) = Len(prog.work) + 1
  BY <1>1, WorkTyped
<1>3. 0 \in 0..(Iterations - 1)
  BY MemoryAssumption
<1>4. StaysPlaced
  BY DEF LoadProgram, Upload, Execute, Repeat, Download, Running, StaysPlaced, Bound
<1>5. CASE LoadProgram
  <2>1. round' \in rounds /\ placing' = "loaded"
    BY <1>3, <1>5 DEF LoadProgram
  <2> QED BY <1>4, <2>1, RunKeeps
<1>6. CASE Upload
  <2>1. round' \in rounds
    BY <1>1, <1>6 DEF Upload
  <2>2. pc' \in 1..Forever(prog)
    BY <1>2, <1>6 DEF Upload
  <2> QED BY <1>4, <2>1, <2>2, RunKeeps
<1>7. CASE Execute
  <2>1. round' \in rounds
    BY <1>1, <1>7 DEF Execute
  <2>2. pc' \in 1..Forever(prog)
    BY <1>1, <1>2, <1>7 DEF Execute, Running
  <2> QED BY <1>4, <2>1, <2>2, RunKeeps
<1>8. CASE Repeat
  <2> DEFINE again == prog.work[pc].op = "end" /\ round.iteration + 1 < Iterations
             begin == CHOOSE e \in DOMAIN prog.work :
                        prog.work[e].op = "begin" /\ prog.work[e].repeat = prog.work[pc].repeat
  <2>1. /\ round' = [round EXCEPT !.iteration = IF again THEN @ + 1 ELSE 0]
        /\ pc' = (IF again THEN begin + 1 ELSE pc + 1)
        /\ placing = "running" /\ pc < Forever(prog)
    BY <1>8 DEF Repeat, Running
  <2>2. pc \in DOMAIN prog.work
    BY <1>1, <1>2, <2>1
  <2>3. again => begin \in DOMAIN prog.work
    <3>1. SUFFICES ASSUME again PROVE begin \in DOMAIN prog.work
      OBVIOUS
    <3>2. \E e \in DOMAIN prog.work :
            prog.work[e].op = "begin" /\ prog.work[e].repeat = prog.work[pc].repeat
      BY <1>1, <2>2, <3>1 DEF WellFormed
    <3> QED BY <3>2
  <2>4. round' \in rounds
    <3>1. again => round.iteration + 1 \in 0..(Iterations - 1)
      BY <1>1, MemoryAssumption
    <3> HIDE DEF again
    <3> QED BY <1>1, <1>3, <2>1, <3>1
  <2> HIDE DEF again, begin
  <2>5. pc' \in 1..Forever(prog)
    BY <1>1, <1>2, <2>1, <2>3
  <2> QED BY <1>4, <2>4, <2>5, RunKeeps
<1>9. CASE Download
  <2>1. round' \in rounds /\ placing' = "done"
    BY <1>1, <1>9 DEF Download
  <2> QED BY <1>4, <2>1, RunKeeps
<1> QED BY <1>5, <1>6, <1>7, <1>8, <1>9

\* Each step keeps the invariant.
LEMMA PlacementKept == PlacementInv /\ [PlacementNext]_placementVars => PlacementInv'
<1> SUFFICES ASSUME PlacementInv, [PlacementNext]_placementVars PROVE PlacementInv'
  OBVIOUS
<1>1. CASE GiveUp
  <2>1. /\ prog' = prog /\ round' = round /\ placing' = "outOfMemory"
    BY <1>1 DEF GiveUp, Unplaced
  <2> QED BY <2>1 DEF PlacementInv, RequestsInv, SearchInv, BoundInv, Bound, Placing
<1>2. CASE UNCHANGED placementVars
  BY <1>2 DEF placementVars, PlacementInv, RequestsInv, SearchInv, BoundInv
<1> QED BY <1>1, <1>2, AnalyzeKeeps, AllocateKeeps, GoOfflineKeeps, BeginSearchKeeps, VisitKeeps,
           RecordFoundKeeps, BindKeeps, RunningKeeps DEF PlacementNext

\* In a state of the invariant every access is legal.
LEMMA LegalAccesses == PlacementInv => AccessesAreLegal
<1> SUFFICES ASSUME PlacementInv, Running, prog.work[pc].op = "work" PROVE AccessesAreLegal
  BY DEF AccessesAreLegal
<1>1. placing \in Placing \cup Bound /\ placing \in Bound
  BY DEF Running, Bound
<1>2. AllPlaced(prog, requests, arena, addresses, strides)
  <2>1. served = Len(requests) /\ StridesSound(prog, addresses, strides)
    BY <1>1 DEF PlacementInv, BoundInv
  <2>2. prog \in Programs
    BY DEF PlacementInv
  <2> QED BY <1>1, <2>1, <2>2, ProgramsAre, QueueIsSound DEF AllPlaced
<1>3. round.iteration \in 0..(Iterations - 1) /\ WellFormed(prog)
  BY <1>2 DEF PlacementInv, AllPlaced
<1>4. pc \in DOMAIN prog.work
  <2>1. pc \in 1..Forever(prog) /\ pc < Forever(prog)
    BY DEF PlacementInv, BoundInv, Running
  <2> QED BY <1>3, <2>1, WorkTyped
<1>5. prog.work[pc].apart \subseteq Pairs(prog) /\ prog.work[pc].needs \subseteq Needs(prog)
  BY <1>4 DEF Pairs, Needs
<1>6. prog.work[pc].apart \subseteq Shards(prog) \X Shards(prog)
  <2>1. prog.work \in Seq(WorkOf(prog))
    BY <1>3 DEF WellFormed
  <2>2. prog.work[pc] \in WorkOf(prog)
    BY <1>4, <2>1
  <2> QED BY <2>2 DEF WorkOf
<1> DEFINE at(s) == AddressIn(addresses, strides, s, round.iteration)
<1>7. \A s : addresses[s] + Advance(s) = at(s)
  BY DEF Advance, AddressIn
<1>8. ASSUME NEW pair \in prog.work[pc].apart
      PROVE  Elements(pair[1]) \cap Elements(pair[2]) = {}
  <2> DEFINE s == pair[1]
             t == pair[2]
             one == at(s)
             two == at(t)
  <2>1. s \in Shards(prog) /\ t \in Shards(prog) /\ pair = <<s, t>>
    BY <1>6, <1>8
  <2>2. <<s, t>> \in Pairs(prog)
    BY <1>5, <2>1
  <2>3. prog.shards[s].size \in Nat /\ prog.shards[t].size \in Nat
    BY <1>3, <2>1, SizeTyped
  <2>4. one \in Nat /\ two \in Nat
    BY <1>2, <1>3, <2>1, ShardStands
  <2> HIDE DEF s, t
  <2>5. ElementsApart(<<one, one + prog.shards[s].size>>, <<two, two + prog.shards[t].size>>)
    BY <1>2, <1>3, <2>1, <2>2, PairApart
  <2>6. Elements(s) = {ElementAt(x) : x \in one..(one + prog.shards[s].size - 1)}
    BY <1>7 DEF Elements, Span, ElementAt
  <2>7. Elements(t) = {ElementAt(x) : x \in two..(two + prog.shards[t].size - 1)}
    BY <1>7 DEF Elements, Span, ElementAt
  <2> HIDE DEF one, two
  <2>8. \A x \in one..(one + prog.shards[s].size - 1), y \in two..(two + prog.shards[t].size - 1) :
          ElementAt(x) # ElementAt(y)
    BY <2>3, <2>4, <2>5 DEF ElementsApart
  <2> QED BY <2>6, <2>7, <2>8 DEF s, t
<1>9. ASSUME NEW n \in prog.work[pc].needs, NEW address, address = addresses[n.shard] + Advance(n.shard)
      PROVE  /\ address % n.alignment = 0
             /\ \E r \in RangesOf(prog) :
                  r[1] <= address /\ address + prog.shards[n.shard].size + n.tail <= r[2]
  <2> DEFINE s == n.shard
             size == prog.shards[s].size
  <2>1. n \in Needs(prog) /\ n \in NeedsOf(prog)
    BY <1>3, <1>5, ProgramFinite
  <2>2. s \in Shards(prog) /\ n.tail \in Nat
    BY <2>1 DEF NeedsOf
  <2>3. address = at(s)
    BY <1>7, <1>9
  <2>4. n.tail \in TailsOf(prog, s)
    BY <2>1 DEF TailsOf
  <2>5. size \in Nat
    BY <1>3, <2>2, SizeTyped
  <2>6. /\ \E i, x : SlotOf(prog, requests, s, round.iteration, i, x) /\ \A tail \in TailsOf(prog, s) :
              \E m \in DOMAIN requests[i].assignments :
                StandsIn(prog, requests, arena, i, x, m, address, size + tail)
        /\ address \in Nat
        /\ \A need \in Needs(prog) : need.shard = s => address % need.alignment = 0
    BY <1>2, <1>3, <2>2, <2>3, ShardStands
  <2>7. PICK i, x, m : SlotOf(prog, requests, s, round.iteration, i, x)
          /\ m \in DOMAIN requests[i].assignments
          /\ StandsIn(prog, requests, arena, i, x, m, address, size + n.tail)
    BY <2>4, <2>6
  <2>8. size + n.tail \in Nat /\ i \in DOMAIN requests /\ x \in DOMAIN requests[i].assignments
    BY <2>2, <2>5, <2>7 DEF SlotOf
  <2>9. \E r \in RangesOf(prog) : r[1] <= address /\ address + (size + n.tail) <= r[2]
    BY <1>2, <2>6, <2>7, <2>8, RoomInRange
  <2>10. address + size + n.tail = address + (size + n.tail)
    BY <2>2, <2>5, <2>6
  <2> QED BY <2>1, <2>6, <2>9, <2>10
<1> QED BY <1>8, <1>9 DEF AccessesAreLegal

\* Operands that an operation accesses at the same time never meet in a memory element,
\* and every operand is aligned and inside memory the placement may use, tail included,
\* in each iteration, whichever of the three ways placed it.
THEOREM EveryAccessIsLegal == PlacementSpec => []AccessesAreLegal
<1>1. PlacementSpec => []PlacementInv
  BY PlacementStarts, PlacementKept, PTL DEF PlacementSpec
<1> QED BY <1>1, LegalAccesses, PTL

-----------------------------------------------------------------------------
(* What lives together.                                                    *)

SpanOf(x) == <<x.start, x.end>>

\* In lifetime order: what is free and what is active are apart.
FreeApart(free, active) ==
  /\ \A f, g \in free : f # g => WordsApart(f, g)
  /\ \A f \in free, x \in active : WordsApart(f, SpanOf(x))
  /\ \A x, y \in active : x # y => WordsApart(SpanOf(x), SpanOf(y))

\* What is released is apart from what stays active, which all else outlived.
LEMMA ReleaseKeepsApart ==
  ASSUME NEW p, WellFormed(p), NEW a, ArenaSound(p, a), ~a.offline, FreeApart(a.free, a.active),
         NEW q, NEW b, b = Release(p, a, q)
  PROVE  /\ FreeApart(b.free, b.active)
         /\ \A x \in a.active : x \in b.active \/ x.last < q.lifetime.first
<1>1. Released(p, a, q, b)
  <2>1. IsArena(a)
    BY DEF ArenaSound
  <2> QED BY <2>1, ReleaseShape
<1> DEFINE dead == Dead(a, q)
           S == a.free \cup ActiveSpans(dead)
<1>2. CASE dead = {} /\ b.active = a.active /\ b.free = a.free
  BY <1>2
<1>3. CASE b.active = a.active \ dead /\ b.free = MergeRanges(S)
  <2>1. \A x \in a.active : x \in b.active \/ x.last < q.lifetime.first
    BY <1>3 DEF Dead
  <2>2. \A f \in S : InSome(p, f)
    BY DEF ArenaSound, ActiveSpans, Dead
  <2> HIDE DEF S
  <2>3. /\ \A m \in MergeRanges(S) : InSome(p, m)
        /\ \A l, m \in MergeRanges(S) : l # m => l[2] < m[1] \/ m[2] < l[1]
        /\ \A m \in MergeRanges(S), x \in Int : m[1] <= x /\ x < m[2] =>
             \E f \in S : f[1] <= x /\ x < f[2]
    BY <2>2, MergeSound
  <2>4. ASSUME NEW l \in b.free, NEW m \in b.free, l # m PROVE WordsApart(l, m)
    <3>1. l[2] < m[1] \/ m[2] < l[1]
      BY <1>3, <2>3, <2>4
    <3>2. l[1] \in Nat /\ l[2] \in Nat /\ m[1] \in Nat /\ m[2] \in Nat
      BY <1>3, <2>3 DEF InSome
    <3> QED BY <3>1, <3>2 DEF WordsApart
  <2>5. ASSUME NEW m \in b.free, NEW x \in b.active PROVE WordsApart(m, SpanOf(x))
    <3>1. x \in a.active /\ x \notin dead
      BY <1>3
    <3>2. SUFFICES ASSUME NEW w \in Int, m[1] <= w, w < m[2], SpanOf(x)[1] <= w, w < SpanOf(x)[2]
                   PROVE  FALSE
      BY DEF WordsApart
    <3>3. PICK f \in S : f[1] <= w /\ w < f[2]
      BY <1>3, <2>3, <3>2
    <3>4. CASE f \in a.free
      <4>1. WordsApart(f, SpanOf(x))
        BY <3>1, <3>4 DEF FreeApart
      <4> QED BY <3>2, <3>3, <4>1 DEF WordsApart
    <3>5. CASE f \in ActiveSpans(dead)
      <4>1. PICK y \in dead : f = SpanOf(y)
        BY <3>5 DEF ActiveSpans, SpanOf
      <4>2. y \in a.active /\ y # x
        BY <3>1, <4>1 DEF Dead
      <4>3. WordsApart(SpanOf(y), SpanOf(x))
        BY <3>1, <4>2 DEF FreeApart
      <4> QED BY <3>2, <3>3, <4>1, <4>3 DEF WordsApart
    <3> QED BY <3>3, <3>4, <3>5 DEF S
  <2>6. \A x, y \in b.active : x # y => WordsApart(SpanOf(x), SpanOf(y))
    BY <1>3 DEF FreeApart
  <2> QED BY <2>1, <2>4, <2>5, <2>6 DEF FreeApart
<1> QED BY <1>1, <1>2, <1>3 DEF Released

\* A part of a range is apart from what the range is apart from.
LEMMA PartApart ==
  ASSUME NEW f, NEW start \in Nat, NEW end \in Nat, f[1] \in Nat, f[2] \in Nat,
         f[1] <= start, end <= f[2], NEW other, WordsApart(f, other)
  PROVE  WordsApart(<<start, end>>, other) /\ WordsApart(other, <<start, end>>)
  BY DEF WordsApart

\* What is taken from a free range leaves the rest of it free, and apart.
LEMMA RecordKeepsApart ==
  ASSUME NEW free, NEW active, FreeApart(free, active), NEW f \in free,
         f[1] \in Nat, f[2] \in Nat, NEW start \in Nat, NEW end \in Nat, f[1] <= start,
         start <= end, end <= f[2], NEW x, SpanOf(x) = <<start, end>>
  PROVE  FreeApart((free \ {f}) \cup {r \in {<<f[1], start>>, <<end, f[2]>>} : r[1] < r[2]},
                   active \cup {x})
<1> DEFINE rest == {r \in {<<f[1], start>>, <<end, f[2]>>} : r[1] < r[2]}
           now == (free \ {f}) \cup rest
<1>1. ASSUME NEW r \in rest
      PROVE  /\ r[1] \in Nat /\ r[2] \in Nat /\ f[1] <= r[1] /\ r[2] <= f[2]
             /\ r = <<r[1], r[2]>>
             /\ WordsApart(r, SpanOf(x))
             /\ \A other : WordsApart(f, other) => WordsApart(r, other) /\ WordsApart(other, r)
  <2>1. CASE r = <<f[1], start>>
    <3>1. r[1] = f[1] /\ r[2] = start
      BY <2>1
    <3>2. WordsApart(r, <<start, end>>)
      BY <3>1 DEF WordsApart
    <3>3. f[1] <= f[1] /\ start <= f[2]
      OBVIOUS
    <3> QED BY <2>1, <3>1, <3>2, <3>3, PartApart
  <2>2. CASE r = <<end, f[2]>>
    <3>1. r[1] = end /\ r[2] = f[2]
      BY <2>2
    <3>2. WordsApart(r, <<start, end>>)
      BY <3>1 DEF WordsApart
    <3>3. f[2] <= f[2] /\ f[1] <= end
      OBVIOUS
    <3> QED BY <2>2, <3>1, <3>2, <3>3, PartApart
  <2> QED BY <2>1, <2>2
<1>2. \A r, s \in rest : r # s => WordsApart(r, s)
  <2>1. WordsApart(<<f[1], start>>, <<end, f[2]>>) /\ WordsApart(<<end, f[2]>>, <<f[1], start>>)
    BY DEF WordsApart
  <2> QED BY <2>1
<1>3. \A r : WordsApart(f, r) => WordsApart(SpanOf(x), r) /\ WordsApart(r, SpanOf(x))
  BY PartApart
<1> HIDE DEF rest
<1>4. ASSUME NEW r \in now, NEW s \in now, r # s PROVE WordsApart(r, s)
  <2>1. CASE r \in free /\ s \in free
    BY <1>4, <2>1 DEF FreeApart
  <2>2. CASE r \in free /\ r # f /\ s \in rest
    BY <1>1, <2>2 DEF FreeApart
  <2>3. CASE r \in rest /\ s \in free /\ s # f
    BY <1>1, <2>3 DEF FreeApart
  <2>4. CASE r \in rest /\ s \in rest
    BY <1>2, <1>4, <2>4
  <2> QED BY <1>4, <2>1, <2>2, <2>3, <2>4
<1>5. ASSUME NEW r \in now, NEW y \in active \cup {x} PROVE WordsApart(r, SpanOf(y))
  <2>1. CASE r \in free /\ r # f /\ y \in active
    BY <2>1 DEF FreeApart
  <2>2. CASE r \in free /\ r # f /\ y = x
    BY <1>3, <2>2 DEF FreeApart
  <2>3. CASE r \in rest /\ y \in active
    BY <1>1, <2>3 DEF FreeApart
  <2>4. CASE r \in rest /\ y = x
    BY <1>1, <2>4
  <2> QED BY <1>5, <2>1, <2>2, <2>3, <2>4
<1>6. ASSUME NEW y \in active \cup {x}, NEW z \in active \cup {x}, y # z
      PROVE  WordsApart(SpanOf(y), SpanOf(z))
  BY <1>3, <1>6 DEF FreeApart
<1> HIDE DEF now
<1>7. FreeApart(now, active \cup {x})
  BY <1>4, <1>5, <1>6 DEF FreeApart
<1> QED BY <1>7 DEF now, rest

\* Of n requests placed those that live together share no word.
LivingApart(qs, n, a) ==
  \A i, j \in 1..n : i # j /\ LiveTogether(qs[i], qs[j])
    => WordsApart(SpotOf(a, qs[i]), SpotOf(a, qs[j]))

\* In lifetime order each of them is active or ended before the last of them began,
KnownActive(qs, n, a) ==
  \A i \in 1..n : \/ \E x \in a.active : x.last = qs[i].lifetime.last /\ SpanOf(x) = SpotOf(a, qs[i])
                  \/ qs[i].lifetime.last < qs[n].lifetime.first

\* and otherwise each is recorded with its lifetime.
KnownHistory(qs, n, a) ==
  \A i \in 1..n : \E h \in a.history : h.lifetime = qs[i].lifetime /\ SpanOf(h) = SpotOf(a, qs[i])

\* All that is placed is occupied.
KnownOccupied(p, qs, n, a) ==
  /\ \A i \in 1..n : SpotOf(a, qs[i]) \in a.occupied
  /\ \A o \in a.occupied : InSome(p, o)

Ordered(qs) ==
  \A i, j \in DOMAIN qs : i < j => qs[i].lifetime.first <= qs[j].lifetime.first

LivingInv ==
  /\ placing = "online" =>
       /\ ~arena.offline /\ FreeApart(arena.free, arena.active)
       /\ KnownActive(requests, served, arena) /\ Ordered(requests)
  /\ placing = "offline" => arena.offline /\ KnownHistory(requests, served, arena)
  /\ placing \in Placing \cup Bound =>
       LivingApart(requests, served, arena) /\ KnownOccupied(prog, requests, served, arena)

\* With nothing placed all is apart.
LEMMA NothingLives ==
  ASSUME NEW p, WellFormed(p), NEW qs, NEW offline, NEW a, a = NewArena(p, offline)
  PROVE  /\ FreeApart(a.free, a.active) /\ KnownActive(qs, 0, a) /\ KnownHistory(qs, 0, a)
         /\ LivingApart(qs, 0, a) /\ KnownOccupied(p, qs, 0, a) /\ a.offline = offline
<1>1. a = [offline |-> offline, history |-> {}, spans |-> <<>>, auxiliary |-> <<>>,
           free |-> RangesOf(p), active |-> {}, occupied |-> {}]
  BY DEF NewArena
<1>2. a.free = RangesOf(p) /\ a.active = {} /\ a.offline = offline /\ a.occupied = {}
  BY <1>1
<1>3. ASSUME NEW f \in RangesOf(p), NEW g \in RangesOf(p), f # g PROVE WordsApart(f, g)
  <2>1. /\ f[1] \in Nat /\ f[2] \in Nat /\ g[1] \in Nat /\ g[2] \in Nat
        /\ (f[2] < g[1] \/ g[2] < f[1])
    BY <1>3, RangesTyped
  <2> QED BY <2>1 DEF WordsApart
<1>4. 1..0 = {}
  OBVIOUS
<1> QED BY <1>2, <1>3, <1>4
      DEF FreeApart, KnownActive, KnownHistory, LivingApart, KnownOccupied

\* One more that is apart from what it lives with.
LEMMA LivingNext ==
  ASSUME NEW p, NEW qs, NEW n \in Nat, NEW a, LivingApart(qs, n, a), KnownOccupied(p, qs, n, a),
         NEW spot, InSome(p, spot), NEW b, SpotOf(b, qs[n + 1]) = spot,
         b.occupied = a.occupied \cup {spot},
         \A i \in 1..n : SpotOf(b, qs[i]) = SpotOf(a, qs[i]),
         \A i \in 1..n : LiveTogether(qs[i], qs[n + 1]) => WordsApart(SpotOf(a, qs[i]), spot)
  PROVE  LivingApart(qs, n + 1, b) /\ KnownOccupied(p, qs, n + 1, b)
<1> DEFINE m == n + 1
           q == qs[m]
<1>1. 1..m = (1..n) \cup {m} /\ m \notin 1..n
  OBVIOUS
<1> HIDE DEF m
<1>2. /\ SpotOf(b, q) = spot
      /\ \A i \in 1..n : LiveTogether(qs[i], q) => WordsApart(SpotOf(a, qs[i]), spot)
  BY DEF m
<1>3. ASSUME NEW i \in 1..m, NEW j \in 1..m, i # j, LiveTogether(qs[i], qs[j])
      PROVE  WordsApart(SpotOf(b, qs[i]), SpotOf(b, qs[j]))
  <2>1. CASE i \in 1..n /\ j \in 1..n
    BY <1>3, <2>1 DEF LivingApart
  <2>2. CASE i \in 1..n /\ j = m
    BY <1>2, <1>3, <2>2
  <2>3. CASE i = m /\ j \in 1..n
    <3>1. LiveTogether(qs[j], q)
      BY <1>3, <2>3 DEF LiveTogether
    <3>2. WordsApart(SpotOf(a, qs[j]), spot)
      BY <1>2, <2>3, <3>1
    <3>3. WordsApart(spot, SpotOf(a, qs[j]))
      BY <3>2, WordsApartBothWays
    <3> QED BY <1>2, <2>3, <3>3
  <2> QED BY <1>1, <1>3, <2>1, <2>2, <2>3
<1>4. \A i \in 1..m : SpotOf(b, qs[i]) \in b.occupied
  BY <1>1, <1>2 DEF KnownOccupied
<1>5. \A o \in b.occupied : InSome(p, o)
  BY DEF KnownOccupied
<1>6. LivingApart(qs, m, b) /\ KnownOccupied(p, qs, m, b)
  BY <1>3, <1>4, <1>5 DEF LivingApart, KnownOccupied
<1> QED BY <1>6 DEF m

\* In lifetime order a request is put where nothing is active.
LEMMA OnlineServes ==
  ASSUME PlacementInv, LivingInv, placing = "online",
         NEW q, q = requests[served + 1], served + 1 \in DOMAIN requests, served \in Nat,
         QueueSound(prog, requests), WellFormed(prog), ArenaSound(prog, arena),
         NEW b, b = Release(prog, arena, q), NEW c, NEW start, NEW end,
         AllocatesAt(q, b, c, start, end)
  PROVE  /\ FreeApart(arena'.free, arena'.active) /\ KnownActive(requests, served + 1, arena')
         /\ \A i \in 1..served : LiveTogether(requests[i], q) =>
              WordsApart(SpotOf(arena, requests[i]), <<start, end>>)
<1> DEFINE d == Take(b, c)
           x == [last |-> q.lifetime.last, start |-> start, end |-> end]
<1>1. /\ ~arena.offline /\ FreeApart(arena.free, arena.active)
      /\ KnownActive(requests, served, arena) /\ Ordered(requests)
  BY DEF LivingInv
<1>2. /\ FreeApart(b.free, b.active)
      /\ \A y \in arena.active : y \in b.active \/ y.last < q.lifetime.first
  BY <1>1, ReleaseKeepsApart
<1>3. /\ c.range \in b.free /\ c.range[1] \in Nat /\ c.range[2] \in Nat
      /\ start = c.start /\ end = c.start + c.bytes /\ start \in Nat /\ end \in Nat
      /\ c.range[1] <= start /\ start <= end /\ end <= c.range[2] /\ c.bytes \in Nat
      /\ ArenaSound(prog, b) /\ arena' = Record(d, q, start, end)
      /\ SpotOf(arena', q) = <<start, end>>
      /\ \A i \in 1..served : SpotOf(arena', requests[i]) = SpotOf(arena, requests[i])
  BY DEF AllocatesAt
<1>4. /\ ArenaSound(prog, d) /\ d.active = b.active
      /\ d.free = (b.free \ {c.range})
           \cup {r \in {<<c.range[1], start>>, <<end, c.range[2]>>} : r[1] < r[2]}
  BY <1>3, TakeSound
<1> HIDE DEF d
<1>5. RecordedAs(d, q, start, end, arena')
  <2>1. IsArena(d)
    BY <1>4 DEF ArenaSound
  <2> QED BY <1>3, <2>1, RecordShape
<1>6. arena'.free = d.free /\ arena'.active = b.active \cup {x}
  BY <1>4, <1>5 DEF RecordedAs
<1>7. x.last = q.lifetime.last /\ SpanOf(x) = <<start, end>>
  BY DEF SpanOf
<1> HIDE DEF x
<1>8. FreeApart(arena'.free, arena'.active)
  BY <1>2, <1>3, <1>4, <1>6, <1>7, RecordKeepsApart
<1>9. \A i \in 1..served : requests[i].lifetime.last \in Int /\ requests[i].lifetime.first \in Int
                           /\ requests[i].lifetime.first <= q.lifetime.first
  <2>1. \A i \in 1..served : i \in DOMAIN requests /\ i < served + 1
    BY DEF QueueSound
  <2> QED BY <1>1, <2>1 DEF QueueSound, RequestSound, RequestTyped, Ordered
<1>10. q.lifetime.first \in Int /\ q.lifetime.last \in Int
  BY DEF QueueSound, RequestSound, RequestTyped
<1>11. ASSUME NEW i \in 1..served
       PROVE  \/ \E y \in b.active : y.last = requests[i].lifetime.last
                                     /\ SpanOf(y) = SpotOf(arena, requests[i])
              \/ requests[i].lifetime.last < q.lifetime.first
  <2>1. CASE \E y \in arena.active : y.last = requests[i].lifetime.last
                                     /\ SpanOf(y) = SpotOf(arena, requests[i])
    BY <1>2, <2>1
  <2>2. CASE requests[i].lifetime.last < requests[served].lifetime.first
    <3>1. served \in 1..served
      OBVIOUS
    <3> QED BY <1>9, <1>10, <2>2, <3>1
  <2> QED BY <1>1, <2>1, <2>2 DEF KnownActive
<1>12. KnownActive(requests, served + 1, arena')
  <2>1. SUFFICES ASSUME NEW i \in 1..(served + 1)
        PROVE  \/ \E y \in arena'.active : y.last = requests[i].lifetime.last
                                           /\ SpanOf(y) = SpotOf(arena', requests[i])
               \/ requests[i].lifetime.last < q.lifetime.first
    BY DEF KnownActive
  <2>2. CASE i \in 1..served
    BY <1>3, <1>6, <1>11, <2>2
  <2>3. CASE i = served + 1
    BY <1>3, <1>6, <1>7, <2>3
  <2> QED BY <2>2, <2>3
<1>13. ASSUME NEW i \in 1..served, LiveTogether(requests[i], q)
       PROVE  WordsApart(SpotOf(arena, requests[i]), <<start, end>>)
  <2>1. ~(requests[i].lifetime.last < q.lifetime.first)
    BY <1>9, <1>10, <1>13 DEF LiveTogether
  <2>2. PICK y \in b.active : SpanOf(y) = SpotOf(arena, requests[i])
    BY <1>11, <2>1
  <2>3. WordsApart(c.range, SpanOf(y))
    BY <1>2, <1>3 DEF FreeApart
  <2> QED BY <1>3, <2>2, <2>3, PartApart
<1> QED BY <1>8, <1>12, <1>13

\* In order of size it is put where nothing that is recorded and lives with it stands.
LEMMA OfflineServes ==
  ASSUME PlacementInv, LivingInv, placing = "offline",
         NEW q, q = requests[served + 1], served \in Nat, WellFormed(prog), ArenaSound(prog, arena),
         NEW b, b = Release(prog, arena, q), NEW c, NEW start, NEW end,
         AllocatesAt(q, b, c, start, end)
  PROVE  /\ arena'.offline /\ KnownHistory(requests, served + 1, arena')
         /\ \A i \in 1..served : LiveTogether(requests[i], q) =>
              WordsApart(SpotOf(arena, requests[i]), <<start, end>>)
<1> DEFINE d == Take(b, c)
           x == [lifetime |-> q.lifetime, start |-> start, end |-> end]
           merged == MergeRanges(Meeting(arena, q))
<1>1. arena.offline /\ KnownHistory(requests, served, arena)
  BY DEF LivingInv
<1>2. Released(prog, arena, q, b)
  <2>1. IsArena(arena)
    BY DEF ArenaSound
  <2> QED BY <2>1, ReleaseShape
<1>3. /\ c.range \in b.free /\ c.range[1] \in Nat /\ c.range[2] \in Nat
      /\ start = c.start /\ end = c.start + c.bytes /\ start \in Nat /\ end \in Nat
      /\ c.range[1] <= start /\ start <= end /\ end <= c.range[2] /\ c.bytes \in Nat
      /\ ArenaSound(prog, b) /\ arena' = Record(d, q, start, end)
      /\ SpotOf(arena', q) = <<start, end>>
      /\ \A i \in 1..served : SpotOf(arena', requests[i]) = SpotOf(arena, requests[i])
  BY DEF AllocatesAt
<1>4. ArenaSound(prog, d) /\ d.offline = b.offline /\ d.history = b.history
  BY <1>3, TakeSound
<1> HIDE DEF d
<1>5. RecordedAs(d, q, start, end, arena')
  <2>1. IsArena(d)
    BY <1>4 DEF ArenaSound
  <2> QED BY <1>3, <2>1, RecordShape
<1>6. /\ b.offline /\ b.history = arena.history /\ b.free = LeftOver(prog, merged)
  BY <1>1, <1>2 DEF Released
<1>7. arena'.offline /\ arena'.history = arena.history \cup {x}
  BY <1>4, <1>5, <1>6 DEF RecordedAs
<1>8. x.lifetime = q.lifetime /\ SpanOf(x) = <<start, end>>
  BY DEF SpanOf
<1> HIDE DEF x
<1>9. KnownHistory(requests, served + 1, arena')
  <2>1. SUFFICES ASSUME NEW i \in 1..(served + 1)
        PROVE  \E h \in arena'.history : h.lifetime = requests[i].lifetime
                                         /\ SpanOf(h) = SpotOf(arena', requests[i])
    BY DEF KnownHistory
  <2>2. CASE i \in 1..served
    BY <1>1, <1>3, <1>7, <2>2 DEF KnownHistory
  <2>3. CASE i = served + 1
    BY <1>3, <1>7, <1>8, <2>3
  <2> QED BY <2>2, <2>3
<1>10. \A f \in Meeting(arena, q) : InSome(prog, f)
  BY DEF ArenaSound, Meeting
<1>11. /\ \A m \in merged : InSome(prog, m)
       /\ \A f \in Meeting(arena, q) : \E m \in merged : m[1] <= f[1] /\ f[2] <= m[2]
  BY <1>10, MergeSound
<1>12. merged \in SUBSET (Nat \X Nat)
  BY <1>11 DEF InSome
<1> HIDE DEF merged
<1>13. \A m \in merged : m[2] <= c.range[1] \/ c.range[2] <= m[1]
  <2>1. PICK r \in RangesOf(prog) : c.range \in Uncovered(r[1], r[2], merged)
    BY <1>3, <1>6 DEF LeftOver
  <2>2. r[1] \in Nat /\ r[2] \in Nat
    BY RangesTyped
  <2> QED BY <1>12, <2>1, <2>2, Leftovers
<1>14. ASSUME NEW i \in 1..served, LiveTogether(requests[i], q)
       PROVE  WordsApart(SpotOf(arena, requests[i]), <<start, end>>)
  <2>1. PICK h \in arena.history : h.lifetime = requests[i].lifetime
                                   /\ SpanOf(h) = SpotOf(arena, requests[i])
    BY <1>1 DEF KnownHistory
  <2>2. SpanOf(h) \in Meeting(arena, q)
    BY <1>14, <2>1 DEF LiveTogether, Meeting, SpanOf
  <2>3. PICK m \in merged : m[1] <= SpanOf(h)[1] /\ SpanOf(h)[2] <= m[2]
    BY <1>11, <2>2
  <2>4. m[1] \in Nat /\ m[2] \in Nat /\ SpanOf(h)[1] \in Nat /\ SpanOf(h)[2] \in Nat
    BY <1>10, <1>11, <2>2 DEF InSome
  <2>5. m[2] <= c.range[1] \/ c.range[2] <= m[1]
    BY <1>13
  <2>6. WordsApart(c.range, SpanOf(h))
    BY <1>3, <2>3, <2>4, <2>5 DEF WordsApart
  <2> QED BY <1>3, <2>1, <2>6, PartApart
<1> QED BY <1>7, <1>9, <1>14

\* The queue that is analyzed is in lifetime order, and nothing is placed yet.
LEMMA AnalyzeLives == PlacementInv /\ Analyze => LivingInv'
<1> SUFFICES ASSUME PlacementInv, Analyze PROVE LivingInv'
  OBVIOUS
<1> DEFINE sets == AliasSets(prog)
           S == AllocationRequests(prog, sets)
<1>1. /\ prog' = prog /\ served' = 0 /\ arena' = NewArena(prog, FALSE)
      /\ placing' = "online" \/ placing' = "refused"
  BY DEF Analyze, Unplaced, PlacementInv
<1>2. WellFormed(prog)
  BY ProgramsAre DEF PlacementInv
<1>3. CASE placing' = "online"
  <2>1. Placeable(prog, sets) /\ requests' = SortedBy(S, OnlineKey)
    BY <1>3 DEF Analyze
  <2>2. RequestsSound(prog, sets, S)
    BY <1>2, <2>1, AliasesTyped, AllRequestsSound
  <2> HIDE DEF S, sets
  <2>3. \A i, j \in DOMAIN SortedBy(S, OnlineKey) : i < j =>
          SortedBy(S, OnlineKey)[i].lifetime.first <= SortedBy(S, OnlineKey)[j].lifetime.first
    BY <1>2, <2>2, OnlineSorted
  <2>4. Ordered(requests')
    BY <2>1, <2>3 DEF Ordered
  <2>5. /\ FreeApart(arena'.free, arena'.active) /\ KnownActive(requests', served', arena')
        /\ LivingApart(requests', served', arena') /\ KnownOccupied(prog', requests', served', arena')
        /\ arena'.offline = FALSE
    BY <1>1, <1>2, NothingLives
  <2> QED BY <1>3, <2>4, <2>5 DEF LivingInv
<1>4. CASE placing' = "refused"
  BY <1>4 DEF LivingInv, Placing, Bound
<1> QED BY <1>1, <1>3, <1>4

\* The other two ways begin with nothing placed.
LEMMA BeginsAgain ==
  ASSUME PlacementInv, prog' = prog, served' = 0, arena' = NewArena(prog, TRUE),
         placing' \in {"offline", "search"}
  PROVE  LivingInv'
<1>1. WellFormed(prog)
  BY ProgramsAre DEF PlacementInv
<1>2. /\ KnownHistory(requests', served', arena') /\ LivingApart(requests', served', arena')
      /\ KnownOccupied(prog', requests', served', arena') /\ arena'.offline = TRUE
  BY <1>1, NothingLives
<1>3. placing' # "online"
  OBVIOUS
<1> QED BY <1>2, <1>3 DEF LivingInv

\* Serving a request keeps apart what lives together, in either order,
LEMMA AllocateLives == PlacementInv /\ LivingInv /\ Allocate => LivingInv'
<1> SUFFICES ASSUME PlacementInv, LivingInv, Allocate PROVE LivingInv'
  OBVIOUS
<1> DEFINE q == requests[served + 1]
           b == Release(prog, arena, q)
<1>1. ServedOneMore /\ placing \in {"online", "offline"}
  BY DEF Allocate, Unplaced, ServedOneMore
<1>2. placing \in Placing \cup Bound
  BY <1>1 DEF Placing
<1>3. /\ WellFormed(prog) /\ QueueSound(prog, requests) /\ served \in Nat /\ Len(requests) \in Nat
      /\ ArenaSound(prog, arena)
  BY <1>2, QueueIsSound DEF Legal
<1>4. served + 1 \in DOMAIN requests
  BY <1>1, <1>3 DEF ServedOneMore, QueueSound
<1>5. \E c, start, end : AllocatesAt(q, b, c, start, end)
  BY Allocates
<1> HIDE DEF q, b
<1>6. PICK c, start, end : AllocatesAt(q, b, c, start, end)
  BY <1>5
<1>7. \A i \in 1..served : LiveTogether(requests[i], q) =>
        WordsApart(SpotOf(arena, requests[i]), <<start, end>>)
  BY <1>1, <1>3, <1>4, <1>6, OnlineServes, OfflineServes DEF q, b
<1>8. placing = "online" =>
        FreeApart(arena'.free, arena'.active) /\ KnownActive(requests, served + 1, arena')
  BY <1>3, <1>4, <1>6, OnlineServes DEF q, b
<1>9. placing = "offline" => arena'.offline /\ KnownHistory(requests, served + 1, arena')
  BY <1>3, <1>4, <1>6, OfflineServes DEF q, b
<1>10. /\ arena'.occupied = arena.occupied \cup {<<start, end>>} /\ arena'.offline = arena.offline
  <2>1. Released(prog, arena, q, b)
    <3>1. IsArena(arena)
      BY <1>3 DEF ArenaSound
    <3> QED BY <3>1, ReleaseShape DEF b
  <2>2. /\ c.range \in b.free /\ c.start \in Nat /\ c.bytes \in Nat /\ c.range[1] <= c.start
        /\ c.start + c.bytes <= c.range[2] /\ ArenaSound(prog, b)
        /\ arena' = Record(Take(b, c), q, start, end)
    BY <1>6 DEF AllocatesAt
  <2>3. /\ ArenaSound(prog, Take(b, c)) /\ Take(b, c).occupied = b.occupied
        /\ Take(b, c).offline = b.offline
    BY <1>3, <2>2, TakeSound
  <2>4. IsArena(Take(b, c))
    BY <2>3 DEF ArenaSound
  <2>5. RecordedAs(Take(b, c), q, start, end, arena')
    BY <2>2, <2>4, RecordShape
  <2> QED BY <2>1, <2>3, <2>5 DEF Released, RecordedAs
<1>11. /\ InSome(prog, <<start, end>>) /\ SpotOf(arena', q) = <<start, end>>
       /\ \A i \in 1..served : SpotOf(arena', requests[i]) = SpotOf(arena, requests[i])
  BY <1>6 DEF AllocatesAt
<1>12. LivingApart(requests, served, arena) /\ KnownOccupied(prog, requests, served, arena)
  BY <1>2 DEF LivingInv
<1>13. LivingApart(requests, served + 1, arena') /\ KnownOccupied(prog, requests, served + 1, arena')
  BY <1>3, <1>7, <1>10, <1>11, <1>12, LivingNext DEF q
<1>14. placing = "online" => ~arena'.offline /\ Ordered(requests)
  BY <1>10 DEF LivingInv
<1> QED BY <1>1, <1>8, <1>9, <1>13, <1>14 DEF LivingInv, ServedOneMore

\* and so does recording what the search found.
LEMMA RecordFoundLives == PlacementInv /\ LivingInv /\ RecordFound => LivingInv'
<1> SUFFICES ASSUME PlacementInv, LivingInv, RecordFound PROVE LivingInv'
  OBVIOUS
<1> DEFINE n == served
           q == requests[n + 1]
           at == domains.at[n + 1]
<1>1. ServedOneMore /\ placing = "search" /\ Waiting = {} /\ arena' = Record(arena, q, at[1], at[2])
  BY DEF RecordFound, Unplaced, ServedOneMore
<1>2. placing \in Placing \cup Bound
  BY <1>1 DEF Placing
<1>3. /\ WellFormed(prog) /\ QueueSound(prog, requests) /\ n \in Nat /\ Len(requests) \in Nat
      /\ ArenaSound(prog, arena) /\ Known(requests, n, arena)
  BY <1>2, QueueIsSound DEF Legal
<1>4. n + 1 \in DOMAIN requests /\ 1..n \subseteq DOMAIN requests
  BY <1>1, <1>3 DEF ServedOneMore, QueueSound
<1>5. SearchSound(prog, requests, domains)
      /\ \A i \in 1..n : SpotOf(arena, requests[i]) = domains.at[i]
  BY <1>1 DEF PlacementInv, SearchInv
<1>6. \A i \in DOMAIN requests : domains.at[i] # <<>>
  BY <1>1 DEF Waiting
<1>7. LivingApart(requests, n, arena) /\ KnownOccupied(prog, requests, n, arena)
  BY <1>2 DEF LivingInv
<1> HIDE DEF n, q, at
<1>8. Spotted(prog, q, at)
  BY <1>4, <1>5, <1>6 DEF SearchSound, q, at
<1>9. PICK r \in RangesOf(prog) : Fits(prog, q, r, at[1], at[2])
  BY <1>8 DEF Spotted
<1>10. at = <<at[1], at[2]>> /\ at[1] \in Nat /\ at[2] \in Nat /\ r[1] <= at[1] /\ at[2] <= r[2]
  BY <1>8, <1>9 DEF Spotted, Fits
<1>11. RequestSound(prog, AliasSets(prog), q)
  BY <1>3, <1>4 DEF QueueSound, q
<1>12. InSome(prog, <<at[1], at[2]>>)
  <2>1. at[2] = at[1] + BytesAt(q, at[1])
    BY <1>9 DEF Fits
  <2>2. q.bytes \in Nat /\ q.region1Stride \in Nat /\ Len(q.assignments) \in Nat
    BY <1>11 DEF RequestSound, RequestTyped
  <2>3. q.region1Stride * Len(q.assignments) \in Nat
    BY <2>2
  <2>4. BytesAt(q, at[1]) \in Nat
    BY <2>2, <2>3 DEF BytesAt
  <2>5. at[1] <= at[2]
    BY <1>10, <2>1, <2>4
  <2> QED BY <1>10, <2>5 DEF InSome
<1>13. q.auxiliary # 0 => at[2] = at[1] + q.bytes
  BY <1>9, <1>11 DEF RequestSound, Identified, Fits, BytesAt
<1>14. /\ SpotOf(arena', q) = <<at[1], at[2]>>
       /\ \A i \in 1..n : SpotOf(arena', requests[i]) = SpotOf(arena, requests[i])
  BY <1>1, <1>3, <1>4, <1>12, <1>13, SpotsKept DEF q
<1>15. arena'.occupied = arena.occupied \cup {<<at[1], at[2]>>}
  <2>1. IsArena(arena)
    BY <1>3 DEF ArenaSound
  <2>2. RecordedAs(arena, q, at[1], at[2], arena')
    BY <1>1, <2>1, RecordShape
  <2> QED BY <2>2 DEF RecordedAs
<1>16. ASSUME NEW i \in 1..n, LiveTogether(requests[i], q)
       PROVE  WordsApart(SpotOf(arena, requests[i]), <<at[1], at[2]>>)
  <2>1. i # n + 1 /\ i \in DOMAIN requests
    BY <1>3, <1>4
  <2>2. ApartAsDue(requests[i], q, domains.at[i], at)
    BY <1>4, <1>5, <1>6, <2>1 DEF SearchSound, q, at
  <2>3. WordsApart(domains.at[i], at)
    BY <1>16, <2>2 DEF ApartAsDue
  <2> QED BY <1>5, <1>10, <2>3
<1>17. LivingApart(requests, n + 1, arena') /\ KnownOccupied(prog, requests, n + 1, arena')
  BY <1>3, <1>7, <1>12, <1>14, <1>15, <1>16, LivingNext DEF q
<1> QED BY <1>1, <1>17 DEF LivingInv, ServedOneMore, n

\* What nothing places or takes away stays as it is.
LEMMA StaysLiving ==
  ASSUME LivingInv, prog' = prog, requests' = requests, served' = served, arena' = arena,
         placing \in Placing \cup Bound, placing' \in Bound \/ placing' = placing
  PROVE  LivingInv'
<1>1. CASE placing' = placing
  BY <1>1 DEF LivingInv
<1>2. CASE placing' \in Bound
  <2>1. placing' # "online" /\ placing' # "offline"
    BY <1>2 DEF Bound
  <2>2. LivingApart(requests, served, arena) /\ KnownOccupied(prog, requests, served, arena)
    BY DEF LivingInv
  <2> QED BY <1>2, <2>1, <2>2 DEF LivingInv
<1> QED BY <1>1, <1>2

\* Each step keeps apart what lives together.
LEMMA LivingKept == PlacementInv /\ LivingInv /\ [PlacementNext]_placementVars => LivingInv'
<1> SUFFICES ASSUME PlacementInv, LivingInv, [PlacementNext]_placementVars PROVE LivingInv'
  OBVIOUS
<1>1. CASE GoOffline
  BY <1>1, BeginsAgain DEF GoOffline, Unplaced
<1>2. CASE BeginSearch
  <2>1. CASE placing' = "search"
    BY <1>2, <2>1, BeginsAgain DEF BeginSearch, Unplaced
  <2>2. CASE placing' = "overfull"
    BY <2>2 DEF LivingInv, Placing, Bound
  <2> QED BY <1>2, <2>1, <2>2 DEF BeginSearch
<1>3. CASE Visit
  BY <1>3, StaysLiving DEF Visit, Unplaced, Placing
<1>4. CASE GiveUp
  <2>1. placing' = "outOfMemory"
    BY <1>4 DEF GiveUp
  <2> QED BY <2>1 DEF LivingInv, Placing, Bound
<1>5. CASE Bind
  <2>1. /\ prog' = prog /\ requests' = requests /\ served' = served /\ arena' = arena
        /\ placing \in Placing /\ (placing' = "placed" \/ placing' = "irregular")
    BY <1>5 DEF Bind, Placing
  <2>2. CASE placing' = "placed"
    BY <2>1, <2>2, StaysLiving DEF Bound
  <2>3. CASE placing' = "irregular"
    BY <2>3 DEF LivingInv, Placing, Bound
  <2> QED BY <2>1, <2>2, <2>3
<1>6. CASE LoadProgram \/ Upload \/ Execute \/ Repeat \/ Download
  <2>1. StaysPlaced
    BY <1>6 DEF LoadProgram, Upload, Execute, Repeat, Download, Running, StaysPlaced, Bound
  <2> QED BY <2>1, StaysLiving DEF StaysPlaced
<1>7. CASE UNCHANGED placementVars
  BY <1>7 DEF placementVars, LivingInv
<1> QED BY <1>1, <1>2, <1>3, <1>4, <1>5, <1>6, <1>7, AnalyzeLives, AllocateLives, RecordFoundLives
     DEF PlacementNext

\* Of the allocations of a placed tile those that live at the same time share no word.
AllocationsApart ==
  placing \in Bound => LivingApart(requests, Len(requests), arena)

\* Whichever way a tile was placed, and whatever was released and taken again on the way,
\* no two allocations that live at the same time share a word.
THEOREM AllocationsShareNoWord == PlacementSpec => []AllocationsApart
<1>1. PlacementInit => LivingInv
  BY DEF PlacementInit, LivingInv, Placing, Bound
<1>2. PlacementInv /\ LivingInv => AllocationsApart
  BY DEF PlacementInv, BoundInv, LivingInv, AllocationsApart
<1> QED BY <1>1, <1>2, PlacementStarts, PlacementKept, LivingKept, PTL DEF PlacementSpec

-----------------------------------------------------------------------------
(* Values that are needed at the same time.                                *)

\* A lifetime reaches over every event of its roots, and from one event to another.
LEMMA LifetimeSpans ==
  ASSUME NEW p, WellFormed(p), NEW sets \in SetsOf(p), NEW roots \in SUBSET Roots(sets), roots # {}
  PROVE  /\ \A root \in roots : \A s \in Members(sets, root) : \A e \in Events(p, s) :
              Lifetime(p, sets, roots).first <= e /\ e <= Lifetime(p, sets, roots).last
         /\ \E root \in roots : \E s \in Members(sets, root) :
              Lifetime(p, sets, roots).first \in Events(p, s)
         /\ \E root \in roots : \E s \in Members(sets, root) :
              Lifetime(p, sets, roots).last \in Events(p, s)
<1> DEFINE S == UNION {Members(sets, root) : root \in roots}
           E == UNION {Events(p, s) : s \in S}
<1>1. DOMAIN p.work = 1..Len(p.work) /\ Forever(p) \in Nat /\ Forever(p) = Len(p.work) + 1
  BY WorkTyped
<1>2. /\ DOMAIN p.work \subseteq 0..Forever(p) /\ 0 \in 0..Forever(p)
      /\ Forever(p) \in 0..Forever(p) /\ Forever(p) \in Int
  BY <1>1
<1>3. \A s : Events(p, s) # {} /\ Events(p, s) \subseteq 0..Forever(p)
  BY <1>2 DEF Events
<1>4. S # {}
  <2>1. PICK root \in roots : root \in Roots(sets)
    OBVIOUS
  <2>2. root \in {sets.root[s] : s \in Shards(p)}
         /\ Members(sets, root) = {s \in Shards(p) : sets.root[s] = root}
    BY <2>1, SetsTyped
  <2>3. Members(sets, root) # {}
    BY <2>2
  <2> QED BY <2>1, <2>3
<1>5. \A e : e \in E <=> \E root \in roots : \E s \in Members(sets, root) : e \in Events(p, s)
  OBVIOUS
<1>6. E \subseteq 0..Forever(p) /\ E # {}
  <2> HIDE DEF S
  <2> QED BY <1>3, <1>4
<1>7. Lifetime(p, sets, roots) = [first |-> Min(E), last |-> Max(E)]
  BY Zenon DEF Lifetime
<1> HIDE DEF E
<1>8. IsFiniteSet(E) /\ E \subseteq Int
  <2>1. IsFiniteSet(0..Forever(p))
    <3>1. 0 \in Int /\ Forever(p) \in Int
      BY <1>2
    <3> QED BY <3>1, FS_Interval
  <2>2. E \in SUBSET (0..Forever(p)) /\ E \subseteq Int
    BY <1>2, <1>6
  <2> QED BY <2>1, <2>2, FS_Subset
<1>9. Min(E) \in E /\ Max(E) \in E /\ \A y \in E : Min(E) <= y /\ y <= Max(E)
  BY <1>6, <1>8, Extremes
<1>10. Lifetime(p, sets, roots).first = Min(E) /\ Lifetime(p, sets, roots).last = Max(E)
  BY <1>7
<1> QED BY <1>5, <1>9, <1>10

\* Of two sets of roots the larger lives at least as long.
LEMMA LifetimeGrows ==
  ASSUME NEW p, WellFormed(p), NEW sets \in SetsOf(p), NEW roots \in SUBSET Roots(sets),
         NEW root \in roots
  PROVE  /\ Lifetime(p, sets, roots).first <= Lifetime(p, sets, {root}).first
         /\ Lifetime(p, sets, {root}).last <= Lifetime(p, sets, roots).last
<1>1. {root} \in SUBSET Roots(sets) /\ {root} # {} /\ roots # {}
  OBVIOUS
<1> DEFINE first == Lifetime(p, sets, {root}).first
           last == Lifetime(p, sets, {root}).last
<1>2. /\ \E r \in {root} : \E s \in Members(sets, r) : first \in Events(p, s)
      /\ \E r \in {root} : \E s \in Members(sets, r) : last \in Events(p, s)
  BY <1>1, LifetimeSpans
<1>3. \A r \in roots : \A s \in Members(sets, r) : \A e \in Events(p, s) :
        Lifetime(p, sets, roots).first <= e /\ e <= Lifetime(p, sets, roots).last
  BY <1>1, LifetimeSpans
<1> HIDE DEF first, last
<1>4. Lifetime(p, sets, roots).first <= first /\ last <= Lifetime(p, sets, roots).last
  BY <1>2, <1>3
<1> QED BY <1>4 DEF first, last

\* The events of a root as part of a request's.
Covers(p, sets, q) ==
  /\ q.lifetime.first \in 0..Forever(p) /\ q.lifetime.last \in 0..Forever(p)
  /\ \A root \in RootsOf(q) :
       /\ q.lifetime.first <= Lifetime(p, sets, {root}).first
       /\ Lifetime(p, sets, {root}).last <= q.lifetime.last

\* A request lives as long as each root it is for.
LEMMA RequestsCover ==
  ASSUME NEW p, WellFormed(p), NEW sets \in SetsOf(p), Placeable(p, sets),
         NEW q \in AllocationRequests(p, sets)
  PROVE  Covers(p, sets, q)
<1>1. ASSUME NEW roots \in SUBSET Roots(sets), roots # {}, q.lifetime = Lifetime(p, sets, roots),
             RootsOf(q) = roots
      PROVE  Covers(p, sets, q)
  <2>1. q.lifetime.first \in 0..Forever(p) /\ q.lifetime.last \in 0..Forever(p)
    BY <1>1, LifetimeTyped
  <2>2. \A root \in roots : /\ Lifetime(p, sets, roots).first <= Lifetime(p, sets, {root}).first
                            /\ Lifetime(p, sets, {root}).last <= Lifetime(p, sets, roots).last
    BY <1>1, LifetimeGrows
  <2> QED BY <1>1, <2>1, <2>2 DEF Covers
<1>2. ASSUME NEW g \in Iterated(p), q = SequenceRequest(p, sets, g) PROVE Covers(p, sets, q)
  <2>1. OfSequence(p, sets, g, q)
    BY <1>2, SequenceFields
  <2>2. /\ RootsOf(q) = ToSet(SeqRoots(p, sets, g))
        /\ q.lifetime = Lifetime(p, sets, ToSet(SeqRoots(p, sets, g)))
    BY <2>1 DEF OfSequence
  <2>3. RequestSound(p, sets, q)
    BY <1>2, SequenceSound
  <2>4. RootsOf(q) = {q.assignments[i].root : i \in DOMAIN q.assignments}
    BY <2>3, RootsListed
  <2>5. RootsOf(q) \in SUBSET Roots(sets)
    BY <2>3, <2>4 DEF RequestSound
  <2>6. RootsOf(q) # {}
    BY <2>1, <2>3 DEF RequestSound, Identified, OfSequence
  <2> QED BY <1>1, <2>2, <2>5, <2>6
<1>3. ASSUME NEW root \in Roots(sets), q = RootRequest(p, sets, root) PROVE Covers(p, sets, q)
  <2>1. RootsOf(q) = {root}
    BY <1>3, RootSound
  <2>2. q.lifetime = Lifetime(p, sets, {root})
    BY <1>3 DEF RootRequest
  <2> QED BY <1>1, <2>1, <2>2
<1>4. ASSUME NEW i \in DOMAIN p.auxiliary, q = AuxiliaryRequest(p, i) PROVE Covers(p, sets, q)
  <2>1. RootsOf(q) = {}
    BY <1>4, AuxiliarySound
  <2>2. q.lifetime.first = 0 /\ q.lifetime.last = Forever(p)
    BY <1>4 DEF AuxiliaryRequest, WellFormed
  <2>3. Forever(p) \in Nat
    BY WorkTyped
  <2> QED BY <2>1, <2>2, <2>3 DEF Covers
<1>5. \/ \E g \in Iterated(p) : q = SequenceRequest(p, sets, g)
      \/ \E root \in Roots(sets) : q = RootRequest(p, sets, root)
      \/ \E i \in DOMAIN p.auxiliary : q = AuxiliaryRequest(p, i)
  BY Zenon DEF AllocationRequests
<1> QED BY <1>2, <1>3, <1>4, <1>5

\* A shard lies in the slot of what it names, in any iteration.
LEMMA ShardInSlot ==
  ASSUME NEW p, NEW qs, NEW a, NEW addressed, NEW stride, AllPlaced(p, qs, a, addressed, stride),
         NEW s \in Shards(p), NEW k \in 0..(Iterations - 1),
         NEW address, address = AddressIn(addressed, stride, s, k)
  PROVE  \E i, x, m : /\ SlotOf(p, qs, s, k, i, x) /\ m \in DOMAIN qs[i].assignments
                      /\ StandsIn(p, qs, a, i, x, m, address, p.shards[s].size)
<1> DEFINE size == p.shards[s].size
<1>1. size \in Nat
  BY SizeTyped DEF AllPlaced
<1>2. 0 \in TailsOf(p, s) /\ size + 0 = size
  BY <1>1 DEF TailsOf
<1>3. \E i, x : SlotOf(p, qs, s, k, i, x) /\ \A tail \in TailsOf(p, s) :
        \E m \in DOMAIN qs[i].assignments : StandsIn(p, qs, a, i, x, m, address, size + tail)
  BY ShardStands
<1> HIDE DEF size
<1>4. \E i, x, m : /\ SlotOf(p, qs, s, k, i, x) /\ m \in DOMAIN qs[i].assignments
                   /\ StandsIn(p, qs, a, i, x, m, address, size)
  BY <1>2, <1>3
<1> QED BY <1>4 DEF size

\* Two roots that are needed at the same time.
Overlap(p, sets, root, other) ==
  /\ Lifetime(p, sets, {root}).first <= Lifetime(p, sets, {other}).last
  /\ Lifetime(p, sets, {other}).first <= Lifetime(p, sets, {root}).last

RootIn(p, s, k) == AliasSets(p).root[NamedIn(p, s, k)]

\* What a shard names is a root of its slot's request.
LEMMA SlotCovers ==
  ASSUME NEW p, NEW qs, NEW a, NEW addressed, NEW stride, AllPlaced(p, qs, a, addressed, stride),
         Serves(qs, AllocationRequests(p, AliasSets(p))), NEW s, NEW k, NEW i, NEW x,
         SlotOf(p, qs, s, k, i, x)
  PROVE  /\ i \in DOMAIN qs /\ x \in DOMAIN qs[i].assignments
         /\ qs[i].assignments[x].root = RootIn(p, s, k)
         /\ RootIn(p, s, k) \in RootsOf(qs[i]) /\ RootIn(p, s, k) \in Roots(AliasSets(p))
         /\ Covers(p, AliasSets(p), qs[i])
<1>1. /\ i \in DOMAIN qs /\ x \in DOMAIN qs[i].assignments
      /\ qs[i].assignments[x].root = RootIn(p, s, k)
  BY DEF SlotOf, RootIn
<1>2. RequestSound(p, AliasSets(p), qs[i]) /\ WellFormed(p) /\ Placeable(p, AliasSets(p))
  BY <1>1 DEF AllPlaced, QueueSound
<1>3. RootsOf(qs[i]) = {qs[i].assignments[n].root : n \in DOMAIN qs[i].assignments}
  BY <1>2, RootsListed
<1>4. RootIn(p, s, k) \in RootsOf(qs[i])
  BY <1>1, <1>3
<1>5. RootIn(p, s, k) \in Roots(AliasSets(p))
  BY <1>1, <1>2 DEF RequestSound
<1>6. qs[i] \in AllocationRequests(p, AliasSets(p))
  <2> DEFINE S == AllocationRequests(p, AliasSets(p))
  <2>1. qs \in Seq(S)
    BY DEF Serves
  <2> HIDE DEF S
  <2>2. qs[i] \in S
    BY <1>1, <2>1
  <2> QED BY <2>2 DEF S
<1>7. AliasSets(p) \in SetsOf(p)
  BY <1>2, AliasesTyped
<1>8. Covers(p, AliasSets(p), qs[i])
  BY <1>2, <1>6, <1>7, RequestsCover
<1> QED BY <1>1, <1>4, <1>5, <1>8

\* Requests live together when a root of the one and a root of the other are needed together.
LEMMA OverlapLiveTogether ==
  ASSUME NEW p, WellFormed(p), NEW sets \in SetsOf(p), NEW q, Covers(p, sets, q), NEW r, Covers(p, sets, r),
         NEW root \in RootsOf(q), NEW other \in RootsOf(r), root \in Roots(sets), other \in Roots(sets),
         Overlap(p, sets, root, other)
  PROVE  LiveTogether(q, r)
<1> DEFINE one == Lifetime(p, sets, {root})
           two == Lifetime(p, sets, {other})
<1>1. /\ q.lifetime.first <= one.first /\ one.last <= q.lifetime.last
      /\ r.lifetime.first <= two.first /\ two.last <= r.lifetime.last
      /\ q.lifetime.first \in 0..Forever(p) /\ q.lifetime.last \in 0..Forever(p)
      /\ r.lifetime.first \in 0..Forever(p) /\ r.lifetime.last \in 0..Forever(p)
  BY DEF Covers
<1>2. {root} \in SUBSET Roots(sets) /\ {other} \in SUBSET Roots(sets) /\ {root} # {} /\ {other} # {}
  OBVIOUS
<1>3. one.first \in 0..Forever(p) /\ one.last \in 0..Forever(p)
  BY <1>2, LifetimeTyped
<1>4. two.first \in 0..Forever(p) /\ two.last \in 0..Forever(p)
  BY <1>2, LifetimeTyped
<1>5. one.first <= two.last /\ two.first <= one.last
  BY DEF Overlap
<1> HIDE DEF one, two
<1>6. q.lifetime.first <= r.lifetime.last /\ r.lifetime.first <= q.lifetime.last
  BY <1>1, <1>3, <1>4, <1>5, WorkTyped
<1> QED BY <1>6 DEF LiveTogether

\* Parts of what is apart are apart.
LEMMA PartsApart ==
  ASSUME NEW f, NEW g, WordsApart(f, g), f[1] \in Nat, f[2] \in Nat, g[1] \in Nat, g[2] \in Nat,
         NEW one \in Nat, NEW sizeOne \in Nat, NEW two \in Nat, NEW sizeTwo \in Nat,
         f[1] <= one, one + sizeOne <= f[2], g[1] <= two, two + sizeTwo <= g[2]
  PROVE  WordsApart(<<one, one + sizeOne>>, <<two, two + sizeTwo>>)
<1>1. ASSUME NEW x \in Int, one <= x, x < one + sizeOne, two <= x, x < two + sizeTwo
      PROVE  FALSE
  <2>1. f[1] <= x /\ x < f[2] /\ g[1] <= x /\ x < g[2]
    BY <1>1
  <2> QED BY <2>1 DEF WordsApart
<1> QED BY <1>1 DEF WordsApart

\* Slots of different roots share no word while their requests live together.
LEMMA SlotsApart ==
  ASSUME NEW p, NEW qs, NEW a, NEW addressed, NEW stride, AllPlaced(p, qs, a, addressed, stride),
         LivingApart(qs, Len(qs), a), NEW sets, sets = AliasSets(p),
         NEW i \in DOMAIN qs, NEW x \in DOMAIN qs[i].assignments, NEW m \in DOMAIN qs[i].assignments,
         NEW one \in Nat, NEW sizeS \in Nat, StandsIn(p, qs, a, i, x, m, one, sizeS),
         NEW j \in DOMAIN qs, NEW y \in DOMAIN qs[j].assignments, NEW n \in DOMAIN qs[j].assignments,
         NEW two \in Nat, NEW sizeT \in Nat, StandsIn(p, qs, a, j, y, n, two, sizeT),
         qs[i].assignments[x].root # qs[j].assignments[y].root, LiveTogether(qs[i], qs[j])
  PROVE  WordsApart(<<one, one + sizeS>>, <<two, two + sizeT>>)
<1>1. WellFormed(p) /\ QueueSound(p, qs)
  BY DEF AllPlaced
<1> DEFINE spotS == SpotOf(a, qs[i])
           spotT == SpotOf(a, qs[j])
<1>2. spotS[1] <= one /\ one + sizeS <= spotS[2]
  BY RoomInRange
<1>3. spotT[1] <= two /\ two + sizeT <= spotT[2]
  BY RoomInRange
<1>4. spotS[1] \in Nat /\ spotS[2] \in Nat /\ spotT[1] \in Nat /\ spotT[2] \in Nat
  <2>1. \A f \in DOMAIN qs : SpotOf(a, qs[f])[1] \in Nat /\ SpotOf(a, qs[f])[2] \in Nat
    BY SpotsFit DEF Fits
  <2> QED BY <2>1
<1>5. CASE i # j
  <2>1. WordsApart(spotS, spotT)
    <3>1. i \in 1..Len(qs) /\ j \in 1..Len(qs)
      BY <1>1 DEF QueueSound
    <3> QED BY <1>5, <3>1 DEF LivingApart
  <2> HIDE DEF spotS, spotT
  <2>2. WordsApart(<<one, one + sizeS>>, <<two, two + sizeT>>)
    BY <1>2, <1>3, <1>4, <2>1, PartsApart
  <2> QED BY <2>2
<1>6. CASE i = j
  <2>1. x # y
    BY <1>6
  <2>2. PICK r \in RangesOf(p) : Fits(p, qs[i], r, spotS[1], spotS[2])
    BY SpotsFit
  <2>3. Slotted(p, sets, qs[i])
    BY SpotsFit DEF RequestSound
  <2> DEFINE roomS == Room(p, sets, qs[i], BaseOf(a, qs[i]), x, m)
             roomT == Room(p, sets, qs[i], BaseOf(a, qs[i]), y, n)
  <2>4. RoomsApart(p, sets, qs[i], BaseOf(a, qs[i]), x, m, y, n)
    BY <1>6, <2>1, <2>2, <2>3 DEF Slotted, BaseOf
  <2>5. WordsApart(roomS, roomT)
    BY <2>4 DEF RoomsApart
  <2>6. roomS[1] <= one /\ one + sizeS <= roomS[2] /\ roomT[1] <= two /\ two + sizeT <= roomT[2]
    BY <1>6 DEF StandsIn
  <2>7. roomS[1] \in Nat /\ roomS[2] \in Nat /\ roomT[1] \in Nat /\ roomT[2] \in Nat
    <3>1. \A f, h \in DOMAIN qs[i].assignments :
            Inside(p, sets, qs[i], BaseOf(a, qs[i]), SpotOf(a, qs[i])[2], f, h)
      BY SpotsFit
    <3>2. Inside(p, sets, qs[i], BaseOf(a, qs[i]), SpotOf(a, qs[i])[2], x, m)
          /\ Inside(p, sets, qs[i], BaseOf(a, qs[i]), SpotOf(a, qs[i])[2], y, n)
      BY <1>6, <3>1
    <3> QED BY <3>2 DEF Inside
  <2> HIDE DEF roomS, roomT
  <2>8. WordsApart(<<one, one + sizeS>>, <<two, two + sizeT>>)
    BY <2>5, <2>6, <2>7, PartsApart
  <2> QED BY <2>8
<1> QED BY <1>5, <1>6

\* Shards that name different values which are needed together share no word.
LEMMA ValueApart ==
  ASSUME NEW p, NEW qs, NEW a, NEW addressed, NEW stride, AllPlaced(p, qs, a, addressed, stride),
         Serves(qs, AllocationRequests(p, AliasSets(p))), LivingApart(qs, Len(qs), a),
         NEW s \in Shards(p), NEW t \in Shards(p),
         NEW k \in 0..(Iterations - 1), NEW l \in 0..(Iterations - 1),
         NEW one, one = AddressIn(addressed, stride, s, k),
         NEW two, two = AddressIn(addressed, stride, t, l),
         RootIn(p, s, k) # RootIn(p, t, l),
         Overlap(p, AliasSets(p), RootIn(p, s, k), RootIn(p, t, l))
  PROVE  WordsApart(<<one, one + p.shards[s].size>>, <<two, two + p.shards[t].size>>)
<1> DEFINE sets == AliasSets(p)
           sizeS == p.shards[s].size
           sizeT == p.shards[t].size
<1>1. WellFormed(p) /\ QueueSound(p, qs) /\ sets \in SetsOf(p)
  BY AliasesTyped DEF AllPlaced
<1>2. sizeS \in Nat /\ sizeT \in Nat
  BY <1>1, SizeTyped
<1>3. one \in Nat /\ two \in Nat
  BY ShardStands
<1>4. PICK i, x, m : SlotOf(p, qs, s, k, i, x) /\ m \in DOMAIN qs[i].assignments
                     /\ StandsIn(p, qs, a, i, x, m, one, sizeS)
  BY ShardInSlot
<1>5. PICK j, y, n : SlotOf(p, qs, t, l, j, y) /\ n \in DOMAIN qs[j].assignments
                     /\ StandsIn(p, qs, a, j, y, n, two, sizeT)
  BY ShardInSlot
<1>6. /\ i \in DOMAIN qs /\ x \in DOMAIN qs[i].assignments
      /\ qs[i].assignments[x].root = RootIn(p, s, k) /\ RootIn(p, s, k) \in RootsOf(qs[i])
      /\ RootIn(p, s, k) \in Roots(sets) /\ Covers(p, sets, qs[i])
  BY <1>4, SlotCovers
<1>7. /\ j \in DOMAIN qs /\ y \in DOMAIN qs[j].assignments
      /\ qs[j].assignments[y].root = RootIn(p, t, l) /\ RootIn(p, t, l) \in RootsOf(qs[j])
      /\ RootIn(p, t, l) \in Roots(sets) /\ Covers(p, sets, qs[j])
  BY <1>5, SlotCovers
<1> HIDE DEF sets, sizeS, sizeT
<1>8. LiveTogether(qs[i], qs[j])
  BY <1>1, <1>6, <1>7, OverlapLiveTogether DEF sets
<1>9. qs[i].assignments[x].root # qs[j].assignments[y].root
  BY <1>6, <1>7
<1>10. WordsApart(<<one, one + sizeS>>, <<two, two + sizeT>>)
  BY <1>2, <1>3, <1>4, <1>5, <1>6, <1>7, <1>8, <1>9, SlotsApart DEF sets
<1> QED BY <1>10 DEF sizeS, sizeT

\* The words of a shard in an iteration.
WordsOf(s, k) ==
  <<AddressIn(addresses, strides, s, k), AddressIn(addresses, strides, s, k) + prog.shards[s].size>>

\* Of a placed tile the values that are needed at the same event share no word.
ValuesApart ==
  placing \in Bound =>
    \A s, t \in Shards(prog), k, l \in 0..(Iterations - 1) :
      LET one == RootIn(prog, s, k)
          two == RootIn(prog, t, l)
      IN one # two /\ Overlap(prog, AliasSets(prog), one, two) => WordsApart(WordsOf(s, k), WordsOf(t, l))

\* All is placed when the sequences are bound, and lives apart.
LEMMA BoundPlaced ==
  ASSUME PlacementInv, LivingInv, placing \in Bound
  PROVE  /\ AllPlaced(prog, requests, arena, addresses, strides) /\ WellFormed(prog)
         /\ Serves(requests, AllocationRequests(prog, AliasSets(prog)))
         /\ LivingApart(requests, Len(requests), arena)
         /\ KnownOccupied(prog, requests, Len(requests), arena)
<1>1. placing \in Placing \cup Bound /\ prog \in Programs
  BY DEF PlacementInv
<1>2. served = Len(requests) /\ StridesSound(prog, addresses, strides)
  BY DEF PlacementInv, BoundInv
<1> QED BY <1>1, <1>2, ProgramsAre, QueueIsSound DEF AllPlaced, LivingInv

\* Whichever way a tile was placed: two shards that name different values, in whatever
\* iterations of the Repeats, share no word while both values are needed.
THEOREM ValuesShareNoWord == PlacementSpec => []ValuesApart
<1>1. PlacementInit => LivingInv
  BY DEF PlacementInit, LivingInv, Placing, Bound
<1>2. PlacementInv /\ LivingInv => ValuesApart
  <2>1. SUFFICES ASSUME PlacementInv, LivingInv, placing \in Bound,
                        NEW s \in Shards(prog), NEW t \in Shards(prog),
                        NEW k \in 0..(Iterations - 1), NEW l \in 0..(Iterations - 1),
                        RootIn(prog, s, k) # RootIn(prog, t, l),
                        Overlap(prog, AliasSets(prog), RootIn(prog, s, k), RootIn(prog, t, l))
                 PROVE  WordsApart(WordsOf(s, k), WordsOf(t, l))
    BY DEF ValuesApart
  <2>2. /\ AllPlaced(prog, requests, arena, addresses, strides)
        /\ Serves(requests, AllocationRequests(prog, AliasSets(prog)))
        /\ LivingApart(requests, Len(requests), arena)
    BY <2>1, BoundPlaced
  <2> QED BY <2>1, <2>2, ValueApart DEF WordsOf
<1> QED BY <1>1, <1>2, PlacementStarts, PlacementKept, LivingKept, PTL DEF PlacementSpec

-----------------------------------------------------------------------------
(* What the program leaves alone.                                          *)

\* Auxiliary storage is served like everything else.
LEMMA AuxiliaryServed ==
  ASSUME NEW p, WellFormed(p), NEW qs, NEW sets, Serves(qs, AllocationRequests(p, sets)),
         NEW i \in DOMAIN p.auxiliary
  PROVE  \E j \in DOMAIN qs : qs[j] = AuxiliaryRequest(p, i)
<1>1. AuxiliaryRequest(p, i) \in {AuxiliaryRequest(p, n) : n \in DOMAIN p.auxiliary}
  OBVIOUS
<1>2. AuxiliaryRequest(p, i) \in AllocationRequests(p, sets)
  BY <1>1, Zenon DEF AllocationRequests
<1> DEFINE S == AllocationRequests(p, sets)
<1>3. \A q \in S : \E j \in DOMAIN qs : qs[j] = q
  BY DEF Serves
<1> HIDE DEF S
<1>4. AuxiliaryRequest(p, i) \in S => \E j \in DOMAIN qs : qs[j] = AuxiliaryRequest(p, i)
  BY <1>3
<1> QED BY <1>2, <1>4 DEF S

\* The span of auxiliary storage is the spot of a request that lives all the time.
AuxiliarySlot(p, qs, a, i, j) ==
  /\ j \in DOMAIN qs /\ qs[j].auxiliary = i
  /\ qs[j].lifetime.first = 0 /\ qs[j].lifetime.last = Forever(p)
  /\ SpotOf(a, qs[j])[1] = a.auxiliary[i]
  /\ SpotOf(a, qs[j])[2] = a.auxiliary[i] + p.auxiliary[i].bytes

\* Every auxiliary storage has its slot.
LEMMA AuxiliarySlots ==
  ASSUME NEW p, WellFormed(p), NEW qs, NEW sets, Serves(qs, AllocationRequests(p, sets)), NEW a,
         NEW i \in DOMAIN p.auxiliary
  PROVE  \E j : AuxiliarySlot(p, qs, a, i, j)
<1>1. PICK j \in DOMAIN qs : qs[j] = AuxiliaryRequest(p, i)
  BY AuxiliaryServed
<1>2. /\ qs[j].auxiliary = i /\ qs[j].bytes = p.auxiliary[i].bytes
      /\ qs[j].lifetime.first = p.auxiliary[i].first /\ qs[j].lifetime.last = p.auxiliary[i].last
  BY <1>1 DEF AuxiliaryRequest
<1>3. p.auxiliary[i].first = 0 /\ p.auxiliary[i].last = Forever(p) /\ i # 0
  BY DEF WellFormed
<1>4. SpotOf(a, qs[j]) = <<a.auxiliary[i], a.auxiliary[i] + p.auxiliary[i].bytes>>
  BY <1>2, <1>3 DEF SpotOf
<1>5. /\ SpotOf(a, qs[j])[1] = a.auxiliary[i]
      /\ SpotOf(a, qs[j])[2] = a.auxiliary[i] + p.auxiliary[i].bytes
  BY <1>4
<1> QED BY <1>1, <1>2, <1>3, <1>5 DEF AuxiliarySlot

\* Whatever lives, auxiliary storage lives with it.
LEMMA AuxiliaryLives ==
  ASSUME NEW p, WellFormed(p), NEW qs, NEW a, NEW i, NEW j, AuxiliarySlot(p, qs, a, i, j),
         NEW q, q.lifetime.first \in 0..Forever(p), q.lifetime.last \in 0..Forever(p)
  PROVE  LiveTogether(q, qs[j]) /\ LiveTogether(qs[j], q)
<1>1. Forever(p) \in Nat
  BY WorkTyped
<1> QED BY <1>1 DEF AuxiliarySlot, LiveTogether

\* Nothing that is occupied, nor the aperture, is spare.
LEMMA SpareIsFree ==
  ASSUME NEW p, WellFormed(p), NEW a, \A o \in a.occupied : InSome(p, o),
         NEW f \in UnusedRanges(p, a), NEW x \in Int, f[1] <= x, x < f[2]
  PROVE  /\ \A o \in a.occupied : ~(o[1] <= x /\ x < o[2])
         /\ ~(HostScratch[1] <= x /\ x < HostScratch[2])
         /\ \E r \in RangesOf(p) : r[1] <= x /\ x < r[2]
<1> DEFINE merged == MergeRanges(a.occupied)
<1>1. PICK r \in RangesOf(p) \ {HostScratch} : f \in Uncovered(r[1], r[2], merged)
  BY Zenon DEF UnusedRanges
<1>2. /\ \A m \in merged : InSome(p, m)
      /\ \A o \in a.occupied : \E m \in merged : m[1] <= o[1] /\ o[2] <= m[2]
  BY MergeSound
<1>3. merged \in SUBSET (Nat \X Nat)
  BY <1>2 DEF InSome
<1>4. r[1] \in Nat /\ r[2] \in Nat /\ r \in p.ranges
  BY <1>1, RangesTyped DEF RangesOf
<1> HIDE DEF merged
<1>5. /\ f[1] \in Nat /\ f[2] \in Nat /\ r[1] <= f[1] /\ f[2] <= r[2]
      /\ \A m \in merged : m[2] <= f[1] \/ f[2] <= m[1]
  BY <1>1, <1>3, <1>4, Leftovers
<1>6. ASSUME NEW o \in a.occupied PROVE ~(o[1] <= x /\ x < o[2])
  <2>1. PICK m \in merged : m[1] <= o[1] /\ o[2] <= m[2]
    BY <1>2
  <2>2. m[1] \in Nat /\ m[2] \in Nat /\ o[1] \in Nat /\ o[2] \in Nat
    BY <1>2 DEF InSome
  <2> QED BY <1>5, <2>1, <2>2
<1>7. ~(HostScratch[1] <= x /\ x < HostScratch[2])
  <2>1. r[2] <= HostScratch[1] \/ HostScratch[2] <= r[1]
    BY <1>1, <1>4 DEF WellFormed
  <2>2. HostScratch[1] \in Nat /\ HostScratch[2] \in Nat
    BY MemoryAssumption
  <2> QED BY <1>4, <1>5, <2>1, <2>2
<1>8. r[1] <= x /\ x < r[2]
  BY <1>4, <1>5
<1> QED BY <1>1, <1>6, <1>7, <1>8

\* Words of a range are in the address space.
LEMMA RangeInSpace ==
  ASSUME WellFormed(prog), NEW r \in RangesOf(prog), NEW x \in Int, r[1] <= x, x < r[2]
  PROVE  x \in AddressSpace
<1> DEFINE f == [s \in prog.ranges |-> s[2]]
           E == {s[2] : s \in prog.ranges}
<1>1. /\ IsFiniteSet(prog.ranges) /\ prog.ranges \subseteq Nat \X Nat /\ r \in prog.ranges
  BY DEF WellFormed, RangesOf
<1>2. E = ImageOf(prog.ranges, f)
  BY DEF ImageOf
<1>3. f \in [prog.ranges -> Nat]
  BY <1>1
<1>4. r[2] \in E /\ E \subseteq Int /\ E # {} /\ r[1] \in Nat /\ r[2] \in Nat
  BY <1>1
<1>5. AddressSpace = 0..(Max(E) - 1)
  BY DEF AddressSpace
<1> HIDE DEF f, E
<1>6. IsFiniteSet(E)
  BY <1>1, <1>2, <1>3, ImageFinite
<1>7. Max(E) \in Int /\ r[2] <= Max(E)
  BY <1>4, <1>6, Extremes
<1> QED BY <1>4, <1>5, <1>7

\* A shard lies within the spot of a request that has roots.
LEMMA ShardInSpot ==
  ASSUME NEW p, NEW qs, NEW a, NEW addressed, NEW stride, AllPlaced(p, qs, a, addressed, stride),
         NEW s \in Shards(p), NEW k \in 0..(Iterations - 1),
         NEW address, address = AddressIn(addressed, stride, s, k)
  PROVE  /\ address \in Nat /\ p.shards[s].size \in Nat
         /\ \E i \in DOMAIN qs : /\ RootsOf(qs[i]) # {} /\ SpotOf(a, qs[i])[1] <= address
                                 /\ address + p.shards[s].size <= SpotOf(a, qs[i])[2]
<1>1. address \in Nat
  BY ShardStands
<1>2. p.shards[s].size \in Nat
  BY SizeTyped DEF AllPlaced
<1>3. PICK i, x, m : /\ SlotOf(p, qs, s, k, i, x) /\ m \in DOMAIN qs[i].assignments
                     /\ StandsIn(p, qs, a, i, x, m, address, p.shards[s].size)
  BY ShardInSlot
<1>4. i \in DOMAIN qs /\ x \in DOMAIN qs[i].assignments /\ RootsOf(qs[i]) # {}
  BY <1>3 DEF SlotOf
<1> QED BY <1>1, <1>2, <1>3, <1>4, RoomInRange

\* The words of auxiliary storage are those of its spot.
LEMMA AuxiliaryWords ==
  ASSUME WellFormed(prog), NEW i \in DOMAIN prog.auxiliary, NEW j,
         AuxiliarySlot(prog, requests, arena, i, j), NEW low \in Nat, NEW high \in Nat,
         SpotOf(arena, requests[j])[1] = low, SpotOf(arena, requests[j])[2] = high
  PROVE  \A x : x \in AuxiliarySpan(i) <=> x \in Int /\ low <= x /\ x < high
<1> DEFINE bytes == prog.auxiliary[i].bytes
<1>1. arena.auxiliary[i] = low /\ high = low + bytes
  BY DEF AuxiliarySlot
<1>2. bytes \in Nat
  <2>1. prog.auxiliary \in Seq(AuxiliaryOf)
    BY DEF WellFormed, AuxiliaryOf
  <2>2. prog.auxiliary[i] \in AuxiliaryOf
    BY <2>1
  <2> QED BY <2>2 DEF AuxiliaryOf
<1>3. AuxiliarySpan(i) = low..(low + bytes - 1)
  BY <1>1 DEF AuxiliarySpan
<1> HIDE DEF bytes
<1> QED BY <1>1, <1>2, <1>3

\* A word no shard touches, in any iteration, nor a packet of the host.
Safe(x) ==
  /\ x \in AddressSpace /\ ~(HostScratch[1] <= x /\ x < HostScratch[2])
  /\ \A s \in Shards(prog), k \in 0..(Iterations - 1) :
       ~(AddressIn(addresses, strides, s, k) <= x
         /\ x < AddressIn(addresses, strides, s, k) + prog.shards[s].size)

\* Spare memory is safe, and no auxiliary storage is in it.
LEMMA SpareSafe ==
  ASSUME PlacementInv, LivingInv, placing \in Bound, NEW x \in Spare
  PROVE  Safe(x) /\ \A i \in DOMAIN prog.auxiliary : x \notin AuxiliarySpan(i)
<1>1. /\ AllPlaced(prog, requests, arena, addresses, strides) /\ WellFormed(prog)
      /\ Serves(requests, AllocationRequests(prog, AliasSets(prog)))
      /\ KnownOccupied(prog, requests, Len(requests), arena)
  BY BoundPlaced
<1>2. DOMAIN requests = 1..Len(requests)
  BY <1>1 DEF AllPlaced, QueueSound
<1>3. PICK f \in UnusedRanges(prog, arena) : x \in f[1]..(f[2] - 1)
  BY DEF Spare
<1>4. f[1] \in Nat /\ f[2] \in Nat
  <2>1. PICK r \in RangesOf(prog) : f \in Uncovered(r[1], r[2], MergeRanges(arena.occupied))
    BY Zenon DEF UnusedRanges
  <2>2. r[1] \in Nat /\ r[2] \in Nat
    BY <1>1, RangesTyped
  <2>3. \A o \in arena.occupied : InSome(prog, o)
    BY <1>1 DEF KnownOccupied
  <2>4. \A m \in MergeRanges(arena.occupied) : InSome(prog, m)
    BY <1>1, <2>3, MergeSound
  <2>5. MergeRanges(arena.occupied) \in SUBSET (Nat \X Nat)
    BY <2>4 DEF InSome
  <2> QED BY <2>1, <2>2, <2>5, Leftovers
<1>5. x \in Int /\ f[1] <= x /\ x < f[2]
  BY <1>3, <1>4
<1>6. /\ \A o \in arena.occupied : ~(o[1] <= x /\ x < o[2])
      /\ ~(HostScratch[1] <= x /\ x < HostScratch[2])
      /\ \E r \in RangesOf(prog) : r[1] <= x /\ x < r[2]
  BY <1>1, <1>5, SpareIsFree DEF KnownOccupied
<1>7. \A i \in DOMAIN requests :
        ~(SpotOf(arena, requests[i])[1] <= x /\ x < SpotOf(arena, requests[i])[2])
  BY <1>1, <1>2, <1>6 DEF KnownOccupied
<1>8. x \in AddressSpace
  BY <1>1, <1>5, <1>6, RangeInSpace
<1>9. ASSUME NEW s \in Shards(prog), NEW k \in 0..(Iterations - 1), NEW address,
             address = AddressIn(addresses, strides, s, k)
      PROVE  ~(address <= x /\ x < address + prog.shards[s].size)
  <2>1. address \in Nat /\ prog.shards[s].size \in Nat
    BY <1>1, <1>9, ShardInSpot
  <2>2. PICK i \in DOMAIN requests : /\ SpotOf(arena, requests[i])[1] <= address
                                     /\ address + prog.shards[s].size <= SpotOf(arena, requests[i])[2]
    BY <1>1, <1>9, ShardInSpot
  <2>3. SpotOf(arena, requests[i])[1] \in Nat /\ SpotOf(arena, requests[i])[2] \in Nat
    BY <1>1, SpotsFit DEF Fits
  <2>4. ~(SpotOf(arena, requests[i])[1] <= x /\ x < SpotOf(arena, requests[i])[2])
    BY <1>7
  <2> QED BY <1>5, <2>1, <2>2, <2>3, <2>4
<1>10. ASSUME NEW i \in DOMAIN prog.auxiliary PROVE x \notin AuxiliarySpan(i)
  <2>1. PICK j : AuxiliarySlot(prog, requests, arena, i, j)
    BY <1>1, AuxiliarySlots
  <2>2. j \in DOMAIN requests
    BY <2>1 DEF AuxiliarySlot
  <2>3. SpotOf(arena, requests[j])[1] \in Nat /\ SpotOf(arena, requests[j])[2] \in Nat
    BY <1>1, <2>2, SpotsFit DEF Fits
  <2> QED BY <1>1, <1>7, <2>1, <2>2, <2>3, AuxiliaryWords
<1> QED BY <1>6, <1>8, <1>9, <1>10 DEF Safe

\* Auxiliary storage is safe, and each of it is by itself.
LEMMA AuxiliarySafe ==
  ASSUME PlacementInv, LivingInv, placing \in Bound, NEW i \in DOMAIN prog.auxiliary,
         NEW x \in AuxiliarySpan(i)
  PROVE  Safe(x) /\ \A n \in DOMAIN prog.auxiliary : x \in AuxiliarySpan(n) => n = i
<1>1. /\ AllPlaced(prog, requests, arena, addresses, strides) /\ WellFormed(prog)
      /\ Serves(requests, AllocationRequests(prog, AliasSets(prog)))
      /\ LivingApart(requests, Len(requests), arena)
  BY BoundPlaced
<1>2. /\ DOMAIN requests = 1..Len(requests) /\ Placeable(prog, AliasSets(prog))
      /\ AliasSets(prog) \in SetsOf(prog)
      /\ \A q \in DOMAIN requests : RequestSound(prog, AliasSets(prog), requests[q])
  BY <1>1, AliasesTyped DEF AllPlaced, QueueSound
<1>3. PICK j : AuxiliarySlot(prog, requests, arena, i, j)
  BY <1>1, AuxiliarySlots
<1> DEFINE spot(n) == SpotOf(arena, requests[n])
<1>4. \A n \in DOMAIN requests : spot(n)[1] \in Nat /\ spot(n)[2] \in Nat
  BY <1>1, SpotsFit DEF Fits
<1>5. j \in DOMAIN requests /\ i # 0 /\ requests[j].auxiliary = i
  BY <1>1, <1>3 DEF AuxiliarySlot, WellFormed
<1>6. x \in Int /\ spot(j)[1] <= x /\ x < spot(j)[2]
  <2>1. spot(j)[1] \in Nat /\ spot(j)[2] \in Nat
    BY <1>4, <1>5
  <2> QED BY <1>1, <1>3, <2>1, AuxiliaryWords
<1>7. ASSUME NEW n \in DOMAIN requests, n # j PROVE ~(spot(n)[1] <= x /\ x < spot(n)[2])
  <2>1. requests[n] \in AllocationRequests(prog, AliasSets(prog))
    <3> DEFINE S == AllocationRequests(prog, AliasSets(prog))
    <3>1. requests \in Seq(S)
      BY <1>1 DEF Serves
    <3> HIDE DEF S
    <3>2. requests[n] \in S
      BY <3>1
    <3> QED BY <3>2 DEF S
  <2>2. Covers(prog, AliasSets(prog), requests[n])
    BY <1>1, <1>2, <2>1, RequestsCover
  <2>3. LiveTogether(requests[n], requests[j])
    BY <1>1, <1>3, <2>2, AuxiliaryLives DEF Covers
  <2>4. WordsApart(spot(n), spot(j))
    BY <1>1, <1>2, <1>5, <1>7, <2>3 DEF LivingApart
  <2> QED BY <1>6, <2>4 DEF WordsApart
<1>8. PICK r \in RangesOf(prog) : Fits(prog, requests[j], r, spot(j)[1], spot(j)[2])
  BY <1>1, <1>5, SpotsFit
<1>9. r[1] \in Nat /\ r[2] \in Nat /\ r \in prog.ranges
  BY <1>1, RangesTyped DEF RangesOf
<1> HIDE DEF spot
<1>10. r[1] <= x /\ x < r[2] /\ ~InHostScratch(r)
  <2>1. r[1] <= spot(j)[1] /\ spot(j)[2] <= r[2]
    BY <1>8 DEF Fits
  <2>2. ~InHostScratch(r)
    BY <1>3, <1>8 DEF Fits, AuxiliarySlot
  <2> QED BY <1>4, <1>5, <1>6, <1>9, <2>1, <2>2
<1>11. x \in AddressSpace
  BY <1>1, <1>6, <1>10, RangeInSpace
<1>12. ~(HostScratch[1] <= x /\ x < HostScratch[2])
  <2>1. HostScratch[1] \in Nat /\ HostScratch[2] \in Nat
    BY MemoryAssumption
  <2>2. r # HostScratch
    BY <1>10, <2>1 DEF InHostScratch
  <2>3. r[2] <= HostScratch[1] \/ HostScratch[2] <= r[1]
    BY <1>1, <1>9, <2>2 DEF WellFormed
  <2> QED BY <1>6, <1>9, <1>10, <2>1, <2>3
<1>13. ASSUME NEW s \in Shards(prog), NEW k \in 0..(Iterations - 1), NEW address,
              address = AddressIn(addresses, strides, s, k)
       PROVE  ~(address <= x /\ x < address + prog.shards[s].size)
  <2>1. address \in Nat /\ prog.shards[s].size \in Nat
    BY <1>1, <1>13, ShardInSpot
  <2>2. PICK n \in DOMAIN requests : /\ RootsOf(requests[n]) # {} /\ spot(n)[1] <= address
                                     /\ address + prog.shards[s].size <= spot(n)[2]
    BY <1>1, <1>13, ShardInSpot DEF spot
  <2>3. n # j
    BY <1>2, <1>5, <2>2 DEF RequestSound, Identified
  <2> QED BY <1>4, <1>6, <1>7, <2>1, <2>2, <2>3
<1>14. ASSUME NEW n \in DOMAIN prog.auxiliary, x \in AuxiliarySpan(n) PROVE n = i
  <2>1. PICK m : AuxiliarySlot(prog, requests, arena, n, m)
    BY <1>1, AuxiliarySlots
  <2>2. m \in DOMAIN requests /\ requests[m].auxiliary = n
    BY <2>1 DEF AuxiliarySlot
  <2>3. spot(m)[1] \in Nat /\ spot(m)[2] \in Nat
    BY <1>4, <2>2
  <2>4. spot(m)[1] <= x /\ x < spot(m)[2]
    BY <1>1, <1>14, <2>1, <2>3, AuxiliaryWords DEF spot
  <2>5. m = j
    BY <1>7, <2>2, <2>4
  <2> QED BY <1>5, <2>2, <2>5
<1> QED BY <1>11, <1>12, <1>13, <1>14 DEF Safe

\* What is written to shards is not written to a safe word.
LEMMA WrittenElsewhere ==
  ASSUME PlacementInv, LivingInv, placing \in Bound, NEW m, NEW shards \in SUBSET Shards(prog),
         NEW x \in DOMAIN m, Safe(x)
  PROVE  DOMAIN Written(m, shards) = DOMAIN m /\ Written(m, shards)[x] = m[x]
<1>1. AllPlaced(prog, requests, arena, addresses, strides)
  BY BoundPlaced
<1>2. round.iteration \in 0..(Iterations - 1)
  BY DEF PlacementInv
<1>3. ASSUME NEW s \in shards PROVE x \notin Span(s)
  <2> DEFINE address == AddressIn(addresses, strides, s, round.iteration)
             size == prog.shards[s].size
  <2>1. address \in Nat /\ size \in Nat
    BY <1>1, <1>2, ShardInSpot
  <2>2. ~(address <= x /\ x < address + size)
    BY <1>2 DEF Safe
  <2>3. Span(s) = address..(address + size - 1)
    BY DEF Span, Advance, AddressIn
  <2> HIDE DEF address, size
  <2> QED BY <2>1, <2>2, <2>3
<1>4. Written(m, shards) = [y \in DOMAIN m |->
        IF \E s \in shards : y \in Span(s) THEN Named(CHOOSE s \in shards : y \in Span(s)) ELSE m[y]]
  BY Zenon DEF Written
<1> QED BY <1>3, <1>4

\* The tags the run is loaded with.
Tagged(m) ==
  /\ DOMAIN m = AddressSpace
  /\ \A x \in Spare : m[x] = Descriptors
  /\ \A i \in DOMAIN prog.auxiliary : \A x \in AuxiliarySpan(i) : m[x] = AuxiliaryTag(i)

SpareInv == placing \in {"loaded", "running", "done"} => Tagged(memory)

\* Memory that differs in no safe word keeps its tags.
LEMMA TagsStay ==
  ASSUME PlacementInv, LivingInv, placing \in Bound, NEW m, Tagged(m), NEW n, DOMAIN n = DOMAIN m,
         \A x \in DOMAIN m : Safe(x) => n[x] = m[x]
  PROVE  Tagged(n)
<1>1. \A x \in Spare : Safe(x) /\ x \in DOMAIN m
  BY SpareSafe DEF Tagged, Safe
<1>2. \A i \in DOMAIN prog.auxiliary : \A x \in AuxiliarySpan(i) : Safe(x) /\ x \in DOMAIN m
  BY AuxiliarySafe DEF Tagged, Safe
<1> QED BY <1>1, <1>2 DEF Tagged

\* Loading tags spare memory and auxiliary storage,
LEMMA LoadTags == PlacementInv /\ LivingInv /\ LoadProgram => Tagged(memory')
<1> SUFFICES ASSUME PlacementInv, LivingInv, LoadProgram PROVE Tagged(memory')
  OBVIOUS
<1> DEFINE mine(x) == {i \in DOMAIN prog.auxiliary : x \in AuxiliarySpan(i)}
           tag(x) == IF x \in Spare THEN Descriptors
                     ELSE IF mine(x) = {} THEN Nowhere ELSE AuxiliaryTag(CHOOSE i \in mine(x) : TRUE)
<1>1. placing \in Bound /\ memory' = [x \in AddressSpace |-> tag(x)]
  BY Zenon DEF LoadProgram, Bound
<1>2. ASSUME NEW x \in Spare PROVE x \in AddressSpace /\ tag(x) = Descriptors
  BY <1>1, <1>2, SpareSafe DEF Safe
<1>3. ASSUME NEW i \in DOMAIN prog.auxiliary, NEW x \in AuxiliarySpan(i)
      PROVE  x \in AddressSpace /\ tag(x) = AuxiliaryTag(i)
  <2>1. Safe(x) /\ \A n \in DOMAIN prog.auxiliary : x \in AuxiliarySpan(n) => n = i
    BY <1>1, <1>3, AuxiliarySafe
  <2>2. mine(x) = {i}
    BY <1>3, <2>1
  <2>3. x \notin Spare
    BY <1>1, <1>3, SpareSafe
  <2>4. (CHOOSE n \in mine(x) : TRUE) = i
    BY <2>2
  <2> QED BY <2>1, <2>2, <2>3, <2>4 DEF Safe
<1> HIDE DEF tag
<1> QED BY <1>1, <1>2, <1>3 DEF Tagged

\* the run leaves the tags,
LEMMA RunTags ==
  PlacementInv /\ LivingInv /\ SpareInv /\ (Upload \/ Execute \/ Repeat \/ Download) => Tagged(memory')
<1> SUFFICES ASSUME PlacementInv, LivingInv, SpareInv, Upload \/ Execute \/ Repeat \/ Download
             PROVE  Tagged(memory')
  OBVIOUS
<1> DEFINE aperture == [x \in AddressSpace |->
                          IF HostScratch[1] <= x /\ x < HostScratch[2] THEN Host ELSE memory[x]]
<1>1. placing \in Bound /\ Tagged(memory) /\ WellFormed(prog)
  BY ProgramsAre DEF SpareInv, Upload, Execute, Repeat, Download, Running, Bound, PlacementInv
<1>2. DOMAIN memory = AddressSpace
  BY <1>1 DEF Tagged
<1>3. \A x \in AddressSpace : Safe(x) => aperture[x] = memory[x]
  BY DEF Safe
<1>4. DOMAIN aperture = AddressSpace
  OBVIOUS
<1> HIDE DEF aperture
<1>5. Tagged(aperture)
  BY <1>1, <1>2, <1>3, <1>4, TagsStay
<1>6. ASSUME NEW m, Tagged(m), NEW shards \in SUBSET Shards(prog) PROVE Tagged(Written(m, shards))
  <2>1. DOMAIN m = AddressSpace
    BY <1>6 DEF Tagged
  <2>2. DOMAIN Written(m, shards) = DOMAIN m
    BY Zenon DEF Written
  <2>3. \A x \in DOMAIN m : Safe(x) => Written(m, shards)[x] = m[x]
    BY <1>1, WrittenElsewhere
  <2> QED BY <1>1, <1>6, <2>2, <2>3, TagsStay
<1>7. CASE Upload
  <2> DEFINE inputs == {i.shard : i \in {i \in prog.inputs : i.parameter => round.run = 0}}
  <2>1. memory' = Written(aperture, inputs)
    BY <1>7 DEF Upload, aperture
  <2>2. inputs \in SUBSET Shards(prog)
    BY <1>1 DEF WellFormed
  <2> HIDE DEF inputs
  <2> QED BY <1>5, <1>6, <2>1, <2>2
<1>8. CASE Execute
  <2>1. memory' = Written(memory, prog.work[pc].writes) /\ prog.work[pc].op = "work"
        /\ placing = "running" /\ pc < Forever(prog)
    BY <1>8 DEF Execute, Running
  <2>2. prog.work[pc].writes \in SUBSET Shards(prog)
    <3>1. pc \in DOMAIN prog.work
      BY <1>1, <2>1, WorkTyped DEF PlacementInv, BoundInv
    <3>2. prog.work[pc] \in WorkOf(prog)
      <4>1. prog.work \in Seq(WorkOf(prog))
        BY <1>1 DEF WellFormed
      <4> QED BY <3>1, <4>1
    <3> QED BY <2>1, <3>2 DEF WorkOf
  <2> QED BY <1>1, <1>6, <2>1, <2>2
<1>9. CASE Repeat
  BY <1>1, <1>9 DEF Repeat
<1>10. CASE Download
  BY <1>5, <1>10 DEF Download, aperture
<1> QED BY <1>7, <1>8, <1>9, <1>10

\* and so does every step.
LEMMA SpareKept ==
  PlacementInv /\ LivingInv /\ SpareInv /\ [PlacementNext]_placementVars => SpareInv'
<1> SUFFICES ASSUME PlacementInv, LivingInv, SpareInv, [PlacementNext]_placementVars PROVE SpareInv'
  OBVIOUS
<1>1. CASE LoadProgram \/ Upload \/ Execute \/ Repeat \/ Download
  <2>1. Tagged(memory')
    BY <1>1, LoadTags, RunTags
  <2>2. prog' = prog /\ arena' = arena
    BY <1>1 DEF LoadProgram, Upload, Execute, Repeat, Download
  <2> QED BY <2>1, <2>2 DEF SpareInv, Tagged, AddressSpace, Spare, AuxiliarySpan, AuxiliaryTag
<1>2. CASE UNCHANGED placementVars
  BY <1>2 DEF placementVars, SpareInv, Tagged, AddressSpace, Spare, AuxiliarySpan, AuxiliaryTag
<1>3. CASE Analyze \/ Allocate \/ GoOffline \/ BeginSearch \/ Visit \/ GiveUp \/ RecordFound \/ Bind
  <2>1. placing' \notin {"loaded", "running", "done"}
    BY <1>3 DEF Analyze, Allocate, GoOffline, BeginSearch, Visit, GiveUp, RecordFound, Bind
  <2> QED BY <2>1 DEF SpareInv
<1> QED BY <1>1, <1>2, <1>3 DEF PlacementNext

\* Nothing the program or the host writes reaches spare memory or auxiliary storage: the
\* descriptors and the profiler's samples are there in every invocation as they were loaded.
THEOREM SpareMemoryHolds == PlacementSpec => []SpareHolds
<1>1. PlacementInit => LivingInv /\ SpareInv
  BY DEF PlacementInit, LivingInv, SpareInv, Placing, Bound
<1>2. SpareInv => SpareHolds
  BY DEF SpareInv, Tagged, SpareHolds
<1> QED BY <1>1, <1>2, PlacementStarts, PlacementKept, LivingKept, SpareKept, PTL DEF PlacementSpec

-----------------------------------------------------------------------------
(* What an operation writes is in nobody's way.                            *)

\* What shard t names in iteration k is needed at an event.
Needed(t, k, event) ==
  /\ Lifetime(prog, AliasSets(prog), {RootIn(prog, t, k)}).first <= event
  /\ event <= Lifetime(prog, AliasSets(prog), {RootIn(prog, t, k)}).last

\* A request lives at the events of a shard that has a slot in it.
LEMMA EventCovered ==
  ASSUME NEW p, NEW qs, NEW a, NEW addressed, NEW stride, AllPlaced(p, qs, a, addressed, stride),
         Serves(qs, AllocationRequests(p, AliasSets(p))), NEW s \in Shards(p), NEW k, NEW i, NEW x,
         SlotOf(p, qs, s, k, i, x), NEW event \in Events(p, s)
  PROVE  event \in Int /\ qs[i].lifetime.first <= event /\ event <= qs[i].lifetime.last
<1> DEFINE sets == AliasSets(p)
           root == sets.root[s]
           life == Lifetime(p, sets, {root})
<1>1. WellFormed(p) /\ sets \in SetsOf(p)
  BY AliasesTyped DEF AllPlaced
<1>2. root \in Roots(sets) /\ s \in Members(sets, root)
  BY <1>1, SetsTyped
<1>3. {root} \in SUBSET Roots(sets) /\ {root} # {}
  BY <1>2
<1>4. life.first \in 0..Forever(p) /\ life.last \in 0..Forever(p)
  BY <1>1, <1>3, LifetimeTyped
<1>5. \A r \in {root} : \A u \in Members(sets, r) : \A e \in Events(p, u) :
        life.first <= e /\ e <= life.last
  BY <1>1, <1>3, LifetimeSpans
<1>6. event \in Int /\ Forever(p) \in Int
  BY <1>1, WorkTyped DEF Events
<1>7. /\ qs[i].lifetime.first \in 0..Forever(p) /\ qs[i].lifetime.last \in 0..Forever(p)
      /\ qs[i].lifetime.first <= life.first /\ life.last <= qs[i].lifetime.last
  <2>1. Covers(p, sets, qs[i])
    BY SlotCovers
  <2>2. root \in RootsOf(qs[i])
    BY DEF SlotOf
  <2> QED BY <2>1, <2>2 DEF Covers
<1>8. life.first <= event /\ event <= life.last
  BY <1>2, <1>5
<1> HIDE DEF life
<1> QED BY <1>4, <1>6, <1>7, <1>8

\* A shard that is touched at an event is apart from all else that is needed then.
LEMMA TouchedApart ==
  ASSUME PlacementInv, LivingInv, placing \in Bound, NEW s \in Shards(prog),
         NEW event \in Events(prog, s),
         NEW t \in Shards(prog), NEW k \in 0..(Iterations - 1), Needed(t, k, event),
         RootIn(prog, t, k) # Named(s),
         NEW x \in Int, WordsOf(t, k)[1] <= x, x < WordsOf(t, k)[2]
  PROVE  x \notin Span(s)
<1> DEFINE it == round.iteration
           one == AddressIn(addresses, strides, s, it)
           two == AddressIn(addresses, strides, t, k)
           sizeS == prog.shards[s].size
           sizeT == prog.shards[t].size
<1>1. /\ AllPlaced(prog, requests, arena, addresses, strides) /\ WellFormed(prog)
      /\ Serves(requests, AllocationRequests(prog, AliasSets(prog)))
      /\ LivingApart(requests, Len(requests), arena)
  BY BoundPlaced
<1>2. it \in 0..(Iterations - 1)
  BY DEF PlacementInv
<1>3. PICK i, y, m : SlotOf(prog, requests, s, it, i, y) /\ m \in DOMAIN requests[i].assignments
                     /\ StandsIn(prog, requests, arena, i, y, m, one, sizeS)
  BY <1>1, <1>2, ShardInSlot
<1>4. PICK j, z, n : SlotOf(prog, requests, t, k, j, z) /\ n \in DOMAIN requests[j].assignments
                     /\ StandsIn(prog, requests, arena, j, z, n, two, sizeT)
  BY <1>1, ShardInSlot
<1>5. one \in Nat /\ two \in Nat /\ sizeS \in Nat /\ sizeT \in Nat
  BY <1>1, <1>2, ShardInSpot
<1>6. /\ i \in DOMAIN requests /\ y \in DOMAIN requests[i].assignments
      /\ requests[i].assignments[y].root = RootIn(prog, s, it)
      /\ Covers(prog, AliasSets(prog), requests[i])
  BY <1>1, <1>3, SlotCovers
<1>7. /\ j \in DOMAIN requests /\ z \in DOMAIN requests[j].assignments
      /\ requests[j].assignments[z].root = RootIn(prog, t, k)
      /\ RootIn(prog, t, k) \in RootsOf(requests[j])
      /\ RootIn(prog, t, k) \in Roots(AliasSets(prog))
      /\ Covers(prog, AliasSets(prog), requests[j])
  BY <1>1, <1>4, SlotCovers
<1>8. Named(s) = RootIn(prog, s, it)
  BY DEF Named, RootIn
<1> HIDE DEF it, one, two, sizeS, sizeT
<1>9. event \in Int /\ requests[i].lifetime.first <= event /\ event <= requests[i].lifetime.last
  BY <1>1, <1>3, EventCovered
<1>10. requests[j].lifetime.first <= event /\ event <= requests[j].lifetime.last
  <2> DEFINE life == Lifetime(prog, AliasSets(prog), {RootIn(prog, t, k)})
  <2>1. /\ requests[j].lifetime.first \in 0..Forever(prog)
        /\ requests[j].lifetime.last \in 0..Forever(prog)
        /\ requests[j].lifetime.first <= life.first /\ life.last <= requests[j].lifetime.last
    BY <1>7 DEF Covers
  <2>2. life.first <= event /\ event <= life.last
    BY DEF Needed
  <2>3. life.first \in 0..Forever(prog) /\ life.last \in 0..Forever(prog)
    <3>1. {RootIn(prog, t, k)} \in SUBSET Roots(AliasSets(prog)) /\ {RootIn(prog, t, k)} # {}
      BY <1>7
    <3>2. AliasSets(prog) \in SetsOf(prog)
      BY <1>1, AliasesTyped
    <3> QED BY <1>1, <3>1, <3>2, LifetimeTyped
  <2>4. Forever(prog) \in Int
    BY <1>1, WorkTyped
  <2> HIDE DEF life
  <2> QED BY <1>9, <2>1, <2>2, <2>3, <2>4
<1>11. LiveTogether(requests[i], requests[j])
  <2>1. /\ requests[i].lifetime.first \in Int /\ requests[i].lifetime.last \in Int
        /\ requests[j].lifetime.first \in Int /\ requests[j].lifetime.last \in Int
    BY <1>1, <1>6, <1>7, WorkTyped DEF Covers
  <2> QED BY <1>9, <1>10, <2>1 DEF LiveTogether
<1>12. requests[i].assignments[y].root # requests[j].assignments[z].root
  BY <1>6, <1>7, <1>8
<1>13. WordsApart(<<one, one + sizeS>>, <<two, two + sizeT>>)
  BY <1>1, <1>3, <1>4, <1>5, <1>6, <1>7, <1>11, <1>12, SlotsApart
<1>14. two <= x /\ x < two + sizeT
  BY DEF WordsOf, two, sizeT
<1>15. Span(s) = one..(one + sizeS - 1)
  BY DEF Span, Advance, AddressIn, one, sizeS, it
<1>16. <<one, one + sizeS>>[1] = one /\ <<one, one + sizeS>>[2] = one + sizeS
       /\ <<two, two + sizeT>>[1] = two /\ <<two, two + sizeT>>[2] = two + sizeT
  OBVIOUS
<1>17. ~(one <= x /\ x < one + sizeS)
  BY <1>13, <1>14, <1>16 DEF WordsApart
<1> QED BY <1>5, <1>15, <1>17

\* What is needed at the start or at readback is not in the aperture.
LEMMA NeededApart ==
  ASSUME PlacementInv, LivingInv, placing \in Bound,
         NEW t \in Shards(prog), NEW k \in 0..(Iterations - 1),
         NEW x \in Int, WordsOf(t, k)[1] <= x, x < WordsOf(t, k)[2]
  PROVE  /\ x \in AddressSpace
         /\ Needed(t, k, 0) \/ Needed(t, k, Forever(prog))
              => ~(HostScratch[1] <= x /\ x < HostScratch[2])
<1> DEFINE two == AddressIn(addresses, strides, t, k)
           sizeT == prog.shards[t].size
<1>1. /\ AllPlaced(prog, requests, arena, addresses, strides) /\ WellFormed(prog)
      /\ Serves(requests, AllocationRequests(prog, AliasSets(prog)))
  BY BoundPlaced
<1>2. PICK j, z, n : SlotOf(prog, requests, t, k, j, z) /\ n \in DOMAIN requests[j].assignments
                     /\ StandsIn(prog, requests, arena, j, z, n, two, sizeT)
  BY <1>1, ShardInSlot
<1>3. two \in Nat /\ sizeT \in Nat
  BY <1>1, ShardInSpot
<1>4. /\ j \in DOMAIN requests /\ z \in DOMAIN requests[j].assignments
      /\ RootIn(prog, t, k) \in RootsOf(requests[j])
      /\ RootIn(prog, t, k) \in Roots(AliasSets(prog))
      /\ Covers(prog, AliasSets(prog), requests[j])
  BY <1>1, <1>2, SlotCovers
<1>5. two <= x /\ x < two + sizeT
  BY DEF WordsOf
<1> HIDE DEF two, sizeT
<1> DEFINE start == SpotOf(arena, requests[j])[1]
           end == SpotOf(arena, requests[j])[2]
<1>6. start <= two /\ two + sizeT <= end
  BY <1>1, <1>2, <1>3, <1>4, RoomInRange
<1>7. PICK r \in RangesOf(prog) : Fits(prog, requests[j], r, start, end)
  BY <1>1, <1>4, SpotsFit
<1>8. r[1] \in Nat /\ r[2] \in Nat /\ r \in prog.ranges
  BY <1>1, RangesTyped DEF RangesOf
<1>9. start \in Nat /\ end \in Nat /\ r[1] <= start /\ end <= r[2]
  BY <1>7 DEF Fits
<1> HIDE DEF start, end
<1>10. r[1] <= x /\ x < r[2]
  BY <1>3, <1>5, <1>6, <1>8, <1>9
<1>11. x \in AddressSpace
  BY <1>1, <1>10, RangeInSpace
<1>12. ASSUME Needed(t, k, 0) \/ Needed(t, k, Forever(prog)),
              HostScratch[1] <= x, x < HostScratch[2]
       PROVE  FALSE
  <2> DEFINE life == Lifetime(prog, AliasSets(prog), {RootIn(prog, t, k)})
  <2>1. /\ requests[j].lifetime.first \in 0..Forever(prog)
        /\ requests[j].lifetime.last \in 0..Forever(prog)
        /\ requests[j].lifetime.first <= life.first /\ life.last <= requests[j].lifetime.last
    BY <1>4 DEF Covers
  <2>2. life.first <= 0 \/ Forever(prog) <= life.last
    BY <1>12 DEF Needed
  <2>3. life.first \in 0..Forever(prog) /\ life.last \in 0..Forever(prog)
    <3>1. {RootIn(prog, t, k)} \in SUBSET Roots(AliasSets(prog)) /\ {RootIn(prog, t, k)} # {}
      BY <1>4
    <3>2. AliasSets(prog) \in SetsOf(prog)
      BY <1>1, AliasesTyped
    <3> QED BY <1>1, <3>1, <3>2, LifetimeTyped
  <2>4. Forever(prog) \in Int
    BY <1>1, WorkTyped
  <2> HIDE DEF life
  <2>5. requests[j].lifetime.first = 0 \/ requests[j].lifetime.last = Forever(prog)
    BY <2>1, <2>2, <2>3, <2>4
  <2>6. ~InHostScratch(r)
    BY <1>7, <2>5 DEF Fits
  <2>7. HostScratch[1] \in Nat /\ HostScratch[2] \in Nat
    BY MemoryAssumption
  <2>8. r # HostScratch
    BY <2>6, <2>7 DEF InHostScratch
  <2>9. r[2] <= HostScratch[1] \/ HostScratch[2] <= r[1]
    BY <1>1, <1>8, <2>8 DEF WellFormed
  <2> QED BY <1>8, <1>10, <1>12, <2>7, <2>9
<1> QED BY <1>11, <1>12

\* What a word holds after shards are written: what it held, or what one of them names.
LEMMA WrittenHolds ==
  ASSUME NEW m, NEW shards, NEW x \in DOMAIN m
  PROVE  \/ Written(m, shards)[x] = m[x]
         \/ \E s \in shards : x \in Span(s) /\ Written(m, shards)[x] = Named(s)
<1>1. Written(m, shards) = [y \in DOMAIN m |->
        IF \E s \in shards : y \in Span(s) THEN Named(CHOOSE s \in shards : y \in Span(s)) ELSE m[y]]
  BY Zenon DEF Written
<1>2. CASE \E s \in shards : x \in Span(s)
  <2> DEFINE u == CHOOSE s \in shards : x \in Span(s)
  <2>1. u \in shards /\ x \in Span(u)
    BY <1>2
  <2> HIDE DEF u
  <2>2. Written(m, shards)[x] = Named(u)
    BY <1>1, <1>2 DEF u
  <2> QED BY <2>1, <2>2
<1>3. CASE ~\E s \in shards : x \in Span(s)
  BY <1>1, <1>3
<1> QED BY <1>2, <1>3

\* The event of a step of the placed program.
Meets(t, k) ==
  \/ Upload /\ Needed(t, k, 0)
  \/ Execute /\ Needed(t, k, pc)
  \/ Repeat
  \/ Download /\ Needed(t, k, Forever(prog))

\* A step leaves the words of what is needed at its event alone, or writes its value.
NeededStays ==
  \A t \in Shards(prog), k \in 0..(Iterations - 1), x \in Int :
    Meets(t, k) /\ WordsOf(t, k)[1] <= x /\ x < WordsOf(t, k)[2]
      => memory'[x] \in {memory[x], RootIn(prog, t, k)}

\* In a state of the invariants a step spares what is needed.
LEMMA StepsSpareTheNeeded == PlacementInv /\ LivingInv /\ SpareInv => NeededStays
<1> SUFFICES ASSUME PlacementInv, LivingInv, SpareInv,
                    NEW t \in Shards(prog), NEW k \in 0..(Iterations - 1), NEW x \in Int,
                    Meets(t, k), WordsOf(t, k)[1] <= x, x < WordsOf(t, k)[2]
             PROVE  memory'[x] \in {memory[x], RootIn(prog, t, k)}
  BY DEF NeededStays
<1>1. placing \in Bound /\ WellFormed(prog)
  BY ProgramsAre DEF Meets, Upload, Execute, Repeat, Download, Running, Bound, PlacementInv
<1>2. /\ x \in AddressSpace
      /\ Needed(t, k, 0) \/ Needed(t, k, Forever(prog))
           => ~(HostScratch[1] <= x /\ x < HostScratch[2])
  BY <1>1, NeededApart
<1>3. ASSUME NEW m, x \in DOMAIN m, m[x] = memory[x], NEW shards \in SUBSET Shards(prog), NEW event,
             Needed(t, k, event), \A s \in shards : event \in Events(prog, s)
      PROVE  Written(m, shards)[x] \in {memory[x], RootIn(prog, t, k)}
  <2>1. CASE Written(m, shards)[x] = m[x]
    BY <1>3, <2>1
  <2>2. CASE \E s \in shards : x \in Span(s) /\ Written(m, shards)[x] = Named(s)
    <3>1. PICK s \in shards : x \in Span(s) /\ Written(m, shards)[x] = Named(s)
      BY <2>2
    <3>2. Named(s) = RootIn(prog, t, k)
      BY <1>1, <1>3, <3>1, TouchedApart
    <3> QED BY <3>1, <3>2
  <2> QED BY <1>3, <2>1, <2>2, WrittenHolds
<1> DEFINE aperture == [y \in AddressSpace |->
                          IF HostScratch[1] <= y /\ y < HostScratch[2] THEN Host ELSE memory[y]]
<1>4. /\ x \in DOMAIN aperture
      /\ Needed(t, k, 0) \/ Needed(t, k, Forever(prog)) => aperture[x] = memory[x]
  BY <1>2
<1> HIDE DEF aperture
<1>5. CASE Upload /\ Needed(t, k, 0)
  <2> DEFINE inputs == {i.shard : i \in {i \in prog.inputs : i.parameter => round.run = 0}}
  <2>1. memory' = Written(aperture, inputs)
    BY <1>5 DEF Upload, aperture
  <2>2. inputs \in SUBSET Shards(prog)
    BY <1>1 DEF WellFormed
  <2>3. \A s \in inputs : 0 \in Events(prog, s)
    BY DEF Events
  <2> HIDE DEF inputs
  <2> QED BY <1>3, <1>4, <1>5, <2>1, <2>2, <2>3
<1>6. CASE Execute /\ Needed(t, k, pc)
  <2>1. memory' = Written(memory, prog.work[pc].writes) /\ prog.work[pc].op = "work"
        /\ placing = "running" /\ pc < Forever(prog)
    BY <1>6 DEF Execute, Running
  <2>2. pc \in DOMAIN prog.work
    BY <1>1, <2>1, WorkTyped DEF PlacementInv, BoundInv
  <2>3. prog.work[pc].writes \in SUBSET Shards(prog)
    <3>1. prog.work[pc] \in WorkOf(prog)
      <4>1. prog.work \in Seq(WorkOf(prog))
        BY <1>1 DEF WellFormed
      <4> QED BY <2>2, <4>1
    <3> QED BY <2>1, <3>1 DEF WorkOf
  <2>4. \A s \in prog.work[pc].writes : pc \in Events(prog, s)
    BY <2>1, <2>2 DEF Events, Touched
  <2>5. x \in DOMAIN memory
    BY <1>2, <2>1 DEF SpareInv, Tagged
  <2> QED BY <1>3, <1>6, <2>1, <2>3, <2>4, <2>5
<1>7. CASE Repeat
  BY <1>7 DEF Repeat
<1>8. CASE Download /\ Needed(t, k, Forever(prog))
  <2>1. memory' = aperture
    BY <1>8 DEF Download, aperture
  <2> QED BY <1>4, <1>8, <2>1
<1> QED BY <1>5, <1>6, <1>7, <1>8 DEF Meets

\* Whichever way a tile was placed, no upload, operation or readback overwrites a value
\* whose lifetime includes its event, in whatever iteration it is needed.
THEOREM NeededValuesStay == PlacementSpec => [][NeededStays]_placementVars
<1>1. PlacementInit => LivingInv /\ SpareInv
  BY DEF PlacementInit, LivingInv, SpareInv, Placing, Bound
<1> QED BY <1>1, PlacementStarts, PlacementKept, LivingKept, SpareKept, StepsSpareTheNeeded, PTL
     DEF PlacementSpec
=============================================================================
