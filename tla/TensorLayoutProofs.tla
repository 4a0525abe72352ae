------------------------- MODULE TensorLayoutProofs -------------------------
(***************************************************************************)
(* Theorems about TensorLayout, for every layout, shape and question: an   *)
(* element is held by as many tiles as there are replicas, and the shards  *)
(* of a tile fill what it allocates.                                       *)
(*                                                                         *)
(* The bounds of an axis ascend, so that a place lies in one part of it    *)
(* (PartitionsCutTheAxis).  The coordinates of a tile are digits of its    *)
(* number: numbers with given digits are those of one remainder, and the   *)
(* tiles with it are as many as the replicas (ElementsAreHeld).  A flat    *)
(* tile's interval of elements is cut into rows in the same way.  The      *)
(* folds of the model are products: a family of the products of all parts  *)
(* of a finite set exists, and a fold takes the value the family has.      *)
(***************************************************************************)
EXTENDS TensorLayout, TLAPS, WellFoundedInduction, FunctionTheorems, FiniteSetTheorems

-----------------------------------------------------------------------------
(* Numbers *)

Smaller == {ss \in Nat \X Nat : ss[1] < ss[2]}

\* No infinite descent among the natural numbers.
LEMMA SmallerIsWellFounded == IsWellFoundedOn(Smaller, Nat)
<1>1. OpToRel(<, Nat) = Smaller
  BY Zenon DEF OpToRel, Smaller
<1> QED BY <1>1, NatLessThanWellFounded, Zenon

\* Every set of natural numbers has a least one.
LEMMA LeastOf ==
  ASSUME NEW T, T \subseteq Nat, T # {}
  PROVE  \E x \in T : \A y \in T : x <= y
<1>1. PICK x \in T : \A y \in T : ~ (<<y, x>> \in Smaller)
  BY SmallerIsWellFounded, WFMin
<1>2. \A y \in T : <<y, x>> \in Nat \X Nat
  OBVIOUS
<1>3. \A y \in T : ~ (y < x)
  BY <1>1, <1>2 DEF Smaller
<1> QED BY <1>3

\* Quotient and remainder.
LEMMA DivMod ==
  ASSUME NEW d \in Nat \ {0}, NEW n \in Nat
  PROVE  /\ n \div d \in Nat /\ n % d \in 0..(d - 1)
         /\ n = d * (n \div d) + (n % d)
         /\ n = (n \div d) * d + (n % d)
<1>1. /\ n \div d \in Int /\ n % d \in 0..(d - 1)
      /\ n = d * (n \div d) + (n % d)
  OBVIOUS
<1>2. n \div d >= 0
  <2> DEFINE q == n \div d
  <2>1. SUFFICES ASSUME q < 0 PROVE FALSE
    BY <1>1
  <2>2. q \in Int /\ q + 1 <= 0
    BY <1>1, <2>1
  <2> HIDE DEF q
  <2>3. d * (q + 1) <= 0
    BY <2>2
  <2>4. d * (q + 1) = d * q + d
    BY <2>2
  <2> QED BY <1>1, <2>3, <2>4, <2>2 DEF q
<1>3. d * (n \div d) = (n \div d) * d
  BY <1>1
<1> QED BY <1>1, <1>2, <1>3

\* A number between two multiples of d has its quotient.
LEMMA QuotientIs ==
  ASSUME NEW d \in Nat \ {0}, NEW q \in Nat, NEW r \in 0..(d - 1)
  PROVE  (q * d + r) \div d = q /\ (q * d + r) % d = r
<1> DEFINE n == q * d + r
           k == n \div d
           s == n % d
<1>1. n \in Nat
  <2>1. q * d \in Nat
    OBVIOUS
  <2> QED BY <2>1
<1>2. k \in Nat /\ s \in 0..(d - 1) /\ n = k * d + s
  BY <1>1, DivMod
<1> HIDE DEF k, s
<1>3. (q - k) * d = s - r
  <2>1. (q - k) * d = q * d - k * d
    BY <1>2
  <2> QED BY <2>1, <1>2
<1>4. ~ (q > k)
  <2>1. SUFFICES ASSUME q - k >= 1 PROVE FALSE
    BY <1>2
  <2>2. (q - k) * d >= d
    BY <1>2, <2>1
  <2> QED BY <1>2, <1>3, <2>2
<1>5. ~ (q < k)
  <2>1. SUFFICES ASSUME k - q >= 1 PROVE FALSE
    BY <1>2
  <2>2. (k - q) * d >= d
    BY <1>2, <2>1
  <2>3. (k - q) * d = - ((q - k) * d)
    BY <1>2
  <2> QED BY <1>2, <1>3, <2>2, <2>3
<1>6. q = k
  BY <1>2, <1>4, <1>5
<1>7. s = r
  BY <1>2, <1>3, <1>6
<1> QED BY <1>6, <1>7 DEF k, s

\* Order passes through products.
LEMMA ProductsGrow ==
  ASSUME NEW c \in Nat, NEW x \in Nat, NEW y \in Nat, x <= y
  PROVE  x * c \in Nat /\ y * c \in Nat /\ x * c <= y * c
<1>1. (y - x) \in Nat
  OBVIOUS
<1>2. (y - x) * c \in Nat
  BY <1>1
<1>3. y * c = x * c + (y - x) * c
  OBVIOUS
<1>4. x * c \in Nat /\ y * c \in Nat
  OBVIOUS
<1> QED BY <1>2, <1>3, <1>4

\* Whole blocks that hold n: a multiple of d, not below n and less than d above.
LEMMA RoundingUp ==
  ASSUME NEW d \in Nat \ {0}, NEW n \in Nat
  PROVE  /\ CeilDiv(n, d) \in Nat
         /\ RoundUp(n, d) \in Nat
         /\ n <= RoundUp(n, d) /\ RoundUp(n, d) < n + d
         /\ RoundUp(n, d) = CeilDiv(n, d) * d
<1> DEFINE m == n + d - 1
           q == m \div d
           r == m % d
<1>1. m \in Nat
  OBVIOUS
<1>2. q \in Nat /\ r \in 0..(d - 1) /\ m = q * d + r
  BY <1>1, DivMod
<1>3. q * d \in Nat
  BY <1>2
<1>4. CeilDiv(n, d) = q /\ RoundUp(n, d) = q * d
  BY DEF CeilDiv, RoundUp
<1> HIDE DEF q, r
<1>5. n <= q * d /\ q * d < n + d
  BY <1>2, <1>3
<1> QED BY <1>2, <1>3, <1>4, <1>5

\* What d divides is a multiple of d.
LEMMA Multiples ==
  ASSUME NEW d \in Nat \ {0}, NEW n \in Nat, Divides(d, n)
  PROVE  n \div d \in Nat /\ n = (n \div d) * d
BY DivMod DEF Divides

-----------------------------------------------------------------------------
(* Cuts: a list of bounds from 0 that never goes back. *)

Ascends(f, P) == f[0] = 0 /\ \A p \in 0..(P - 1) : f[p] <= f[p + 1]

\* Bounds are in order, neighbours or not.
LEMMA BoundsInOrder ==
  ASSUME NEW P \in Nat, NEW f \in [0..P -> Nat], Ascends(f, P),
         NEW p \in 0..P, NEW q \in 0..P, p <= q
  PROVE  f[p] <= f[q]
<1> DEFINE Bad == {k \in p..P : f[k] < f[p]}
<1>1. SUFFICES ASSUME Bad # {} PROVE FALSE
  <2>1. q \in p..P /\ f[q] \in Nat /\ f[p] \in Nat
    OBVIOUS
  <2>2. q \notin Bad => ~ (f[q] < f[p])
    BY <2>1
  <2> QED BY <2>1, <2>2
<1>2. Bad \subseteq Nat
  OBVIOUS
<1>3. PICK k \in Bad : \A j \in Bad : k <= j
  BY <1>1, <1>2, LeastOf
<1>4. k \in p..P /\ f[k] < f[p] /\ k # p /\ f[k] \in Nat /\ f[p] \in Nat
  BY <1>3
<1>5. k - 1 \in p..P /\ k - 1 \in 0..(P - 1) /\ (k - 1) + 1 = k
  BY <1>4
<1>6. f[k - 1] <= f[k] /\ f[k - 1] \in Nat
  BY <1>5 DEF Ascends
<1>7. k - 1 \in Bad
  BY <1>4, <1>5, <1>6
<1> QED BY <1>3, <1>4, <1>7

\* What lies below the last bound lies between exactly one pair of neighbours.
LEMMA OnePart ==
  ASSUME NEW P \in Nat, NEW f \in [0..P -> Nat], Ascends(f, P), NEW y \in Nat, y < f[P]
  PROVE  \E p \in 0..(P - 1) :
            /\ f[p] <= y /\ y < f[p + 1]
            /\ \A q \in 0..(P - 1) : f[q] <= y /\ y < f[q + 1] => q = p
<1> DEFINE Above == {k \in 0..P : y < f[k]}
<1>1. Above \subseteq Nat /\ Above # {}
  OBVIOUS
<1>2. PICK k \in Above : \A j \in Above : k <= j
  BY <1>1, LeastOf
<1>3. k # 0 /\ k \in 1..P
  BY <1>2 DEF Ascends
<1>4. k - 1 \in 0..(P - 1) /\ (k - 1) + 1 = k /\ k - 1 \in 0..P
  BY <1>3
<1>5. f[k - 1] <= y /\ y < f[k]
  <2>1. k - 1 \notin Above
    BY <1>2, <1>3
  <2>2. f[k - 1] \in Nat
    BY <1>4
  <2> QED BY <2>1, <2>2, <1>2, <1>4
<1>6. ASSUME NEW q \in 0..(P - 1), f[q] <= y, y < f[q + 1] PROVE q = k - 1
  <2>1. q \in 0..P /\ q + 1 \in 0..P /\ f[q] \in Nat /\ f[q + 1] \in Nat /\ f[k] \in Nat
        /\ f[k - 1] \in Nat
    BY <1>3, <1>4
  <2>2. q + 1 \in Above
    BY <2>1, <1>6
  <2>3. k <= q + 1
    BY <1>2, <2>2
  <2>4. ~ (k <= q)
    <3>1. k <= q => f[k] <= f[q]
      BY <2>1, <1>3, BoundsInOrder
    <3> QED BY <3>1, <1>5, <1>6, <2>1
  <2> QED BY <2>3, <2>4, <1>3
<1> QED BY <1>4, <1>5, <1>6

-----------------------------------------------------------------------------
(* The blocks of a group, handed to its partitions. *)

\* The partitions take all blocks, in order, none more than its fair share.
LEMMA BlocksAreShared ==
  ASSUME NEW blocks \in Nat, NEW P \in Nat \ {0}
  PROVE  /\ \A p \in 0..P : BlocksBefore(blocks, P, p) \in Nat
         /\ BlocksBefore(blocks, P, 0) = 0
         /\ BlocksBefore(blocks, P, P) = blocks
         /\ \A p \in 0..(P - 1) :
               /\ BlocksBefore(blocks, P, p) <= BlocksBefore(blocks, P, p + 1)
               /\ BlocksBefore(blocks, P, p + 1)
                     <= BlocksBefore(blocks, P, p) + CeilDiv(blocks, P)
<1> DEFINE q == blocks \div P
           r == blocks % P
<1>1. q \in Nat /\ r \in 0..(P - 1) /\ blocks = P * q + r
  BY DivMod
<1>2. \A p \in 0..P : BlocksBefore(blocks, P, p) = p * q + (IF p < r THEN p ELSE r)
  BY DEF BlocksBefore, Least
<1>3. CeilDiv(blocks, P) >= q + (IF r > 0 THEN 1 ELSE 0) /\ CeilDiv(blocks, P) \in Nat
  <2> DEFINE c == CeilDiv(blocks, P)
  <2>1. c \in Nat /\ blocks <= c * P
    BY RoundingUp
  <2> HIDE DEF q, r, c
  <2>2. ~ (c < q)
    <3>1. SUFFICES ASSUME q - c >= 1 PROVE FALSE
      BY <1>1, <2>1
    <3>2. (q - c) * P >= P
      BY <1>1, <2>1, <3>1
    <3>3. (q - c) * P = P * q - c * P
      BY <1>1, <2>1
    <3> QED BY <1>1, <2>1, <3>2, <3>3
  <2>3. r > 0 => c # q
    <3>1. P * q = q * P
      BY <1>1
    <3> QED BY <1>1, <2>1, <3>1
  <2> QED BY <1>1, <2>1, <2>2, <2>3 DEF c
<1> HIDE DEF q, r
<1>4. \A p \in 0..P : p * q \in Nat /\ (p + 1) * q = p * q + q
  BY <1>1
<1>5. 0 * q = 0
  BY <1>1
<1>6. 0 \in 0..P /\ P \in 0..P /\ \A p \in 0..(P - 1) : p \in 0..P /\ p + 1 \in 0..P
  OBVIOUS
<1>7. \A p \in 0..P : BlocksBefore(blocks, P, p) \in Nat
  BY <1>1, <1>2, <1>4
<1>8. BlocksBefore(blocks, P, 0) = 0
  BY <1>1, <1>2, <1>5, <1>6
<1>9. BlocksBefore(blocks, P, P) = blocks
  BY <1>1, <1>2, <1>6
<1>10. ASSUME NEW p \in 0..(P - 1)
       PROVE  /\ BlocksBefore(blocks, P, p) <= BlocksBefore(blocks, P, p + 1)
              /\ BlocksBefore(blocks, P, p + 1)
                    <= BlocksBefore(blocks, P, p) + CeilDiv(blocks, P)
  <2>1. BlocksBefore(blocks, P, p) = p * q + (IF p < r THEN p ELSE r)
    BY <1>2, <1>6
  <2>2. BlocksBefore(blocks, P, p + 1) = (p * q + q) + (IF p + 1 < r THEN p + 1 ELSE r)
    BY <1>2, <1>6, <1>4
  <2>3. p * q \in Nat
    BY <1>4, <1>6
  <2> DEFINE pq == p * q
             c == CeilDiv(blocks, P)
  <2> HIDE DEF pq, c
  <2>4. /\ pq + (IF p < r THEN p ELSE r) <= (pq + q) + (IF p + 1 < r THEN p + 1 ELSE r)
        /\ (pq + q) + (IF p + 1 < r THEN p + 1 ELSE r) <= pq + (IF p < r THEN p ELSE r) + c
    BY <1>1, <1>3, <2>3 DEF pq, c
  <2> QED BY <2>1, <2>2, <2>4 DEF pq, c
<1> QED BY <1>7, <1>8, <1>9, <1>10
-----------------------------------------------------------------------------
(* An axis *)

PerGroup(a) == a.partitions \div a.groups
GroupWidth(a, extent) == extent \div a.groups
GroupBlocks(a, extent) == RoundUp(GroupWidth(a, extent), a.padTo) \div a.block

\* Where a partition of a group starts in the group.
Bound(a, extent, p) == BlocksBefore(GroupBlocks(a, extent), PerGroup(a), p) * a.block

\* Groups are equal, and whole blocks pad each of them.
LEMMA GroupsOfAnAxis ==
  ASSUME NEW a \in AxisTilings, NEW extent \in Nat \ {0}, AxisAccepts(a, extent)
  PROVE  /\ PerGroup(a) \in Nat /\ a.partitions = a.groups * PerGroup(a)
         /\ GroupWidth(a, extent) \in Nat \ {0} /\ extent = a.groups * GroupWidth(a, extent)
         /\ GroupBlocks(a, extent) \in Nat
         /\ GroupWidth(a, extent) <= GroupBlocks(a, extent) * a.block
         /\ PaddedExtent(a, extent) \div a.groups = GroupBlocks(a, extent) * a.block
         /\ (PaddedExtent(a, extent) \div a.groups) \div a.block = GroupBlocks(a, extent)
<1> DEFINE W == GroupWidth(a, extent)
           V == RoundUp(W, a.padTo)
           B == GroupBlocks(a, extent)
<1>1. /\ a.partitions \in Nat \ {0} /\ a.groups \in Nat \ {0} /\ a.block \in Nat \ {0}
      /\ a.padTo \in Nat \ {0}
  BY DEF AxisTilings, AxisAccepts
<1>2. /\ PerGroup(a) \in Nat /\ a.partitions = PerGroup(a) * a.groups
      /\ W \in Nat /\ extent = W * a.groups
  <2>1. Divides(a.groups, a.partitions) /\ Divides(a.groups, extent)
    BY DEF AxisAccepts
  <2> QED BY <1>1, <2>1, Multiples DEF PerGroup, GroupWidth
<1>3. W # 0
  BY <1>1, <1>2
<1>4. V \in Nat /\ W <= V
  BY <1>1, <1>2, RoundingUp
<1>5. B \in Nat /\ V = B * a.block
  <2>1. Divides(a.block, V)
    BY DEF AxisAccepts, GroupWidth
  <2> HIDE DEF V
  <2>2. V \div a.block \in Nat /\ V = (V \div a.block) * a.block
    BY <1>1, <1>4, <2>1, Multiples
  <2> QED BY <2>2 DEF GroupBlocks, V
<1>6. PaddedExtent(a, extent) \div a.groups = V
  <2>1. PaddedExtent(a, extent) = a.groups * V
    BY DEF PaddedExtent, GroupWidth
  <2> HIDE DEF V
  <2>2. a.groups * V = V * a.groups + 0 /\ 0 \in 0..(a.groups - 1)
    BY <1>1, <1>4
  <2> QED BY <2>1, <2>2, <1>1, <1>4, QuotientIs
<1>7. V \div a.block = B
  BY DEF GroupBlocks
<1>8. PerGroup(a) * a.groups = a.groups * PerGroup(a) /\ W * a.groups = a.groups * W
  BY <1>1, <1>2
<1> HIDE DEF W, V, B
<1>9. QED BY <1>2, <1>3, <1>4, <1>5, <1>6, <1>7, <1>8 DEF W, B

\* An axis has a partition, so a group has.
LEMMA GroupsArePartitioned ==
  ASSUME NEW a \in AxisTilings, NEW extent \in Nat \ {0}, AxisAccepts(a, extent)
  PROVE  PerGroup(a) \in Nat \ {0}
<1>1. a.partitions # 0 /\ a.groups \in Nat
  BY DEF AxisTilings, AxisAccepts
<1>2. PerGroup(a) \in Nat /\ a.partitions = a.groups * PerGroup(a)
  BY GroupsOfAnAxis
<1>3. PerGroup(a) # 0
  BY <1>1, <1>2
<1> QED BY <1>2, <1>3

\* The bounds of a group's partitions ascend from 0 to the padded width.
LEMMA BoundsOfAGroup ==
  ASSUME NEW a \in AxisTilings, NEW extent \in Nat \ {0}, AxisAccepts(a, extent)
  PROVE  LET P == PerGroup(a)
             f == [p \in 0..P |-> Bound(a, extent, p)]
         IN  /\ f \in [0..P -> Nat] /\ Ascends(f, P)
             /\ f[P] = GroupBlocks(a, extent) * a.block
<1> DEFINE P == PerGroup(a)
           B == GroupBlocks(a, extent)
           f == [p \in 0..P |-> Bound(a, extent, p)]
<1>1. P \in Nat \ {0} /\ B \in Nat /\ a.block \in Nat
  BY GroupsArePartitioned, GroupsOfAnAxis DEF AxisTilings
<1>2. /\ \A p \in 0..P : BlocksBefore(B, P, p) \in Nat
      /\ BlocksBefore(B, P, 0) = 0 /\ BlocksBefore(B, P, P) = B
      /\ \A p \in 0..(P - 1) : BlocksBefore(B, P, p) <= BlocksBefore(B, P, p + 1)
  <2> HIDE DEF P, B
  <2> QED BY <1>1, BlocksAreShared
<1>3. \A p \in 0..P : f[p] = BlocksBefore(B, P, p) * a.block
  BY DEF Bound
<1>4. 0 \in 0..P /\ P \in 0..P /\ \A p \in 0..(P - 1) : p \in 0..P /\ p + 1 \in 0..P
  BY <1>1
<1>5. f \in [0..P -> Nat]
  <2>1. \A p \in 0..P : Bound(a, extent, p) \in Nat
    <3>1. \A n \in Nat : n * a.block \in Nat
      BY <1>1
    <3>2. \A p \in 0..P : Bound(a, extent, p) = BlocksBefore(B, P, p) * a.block
      BY DEF Bound
    <3> HIDE DEF P, B
    <3> QED BY <1>2, <3>1, <3>2
  <2> QED BY <2>1
<1> HIDE DEF P, B, f
<1>6. f[0] = 0
  BY <1>1, <1>2, <1>3, <1>4
<1>7. f[P] = B * a.block
  BY <1>2, <1>3, <1>4
<1>8. ASSUME NEW p \in 0..(P - 1) PROVE f[p] <= f[p + 1]
  <2>1. /\ BlocksBefore(B, P, p) \in Nat /\ BlocksBefore(B, P, p + 1) \in Nat
        /\ BlocksBefore(B, P, p) <= BlocksBefore(B, P, p + 1)
    BY <1>2, <1>4
  <2>2. f[p] = BlocksBefore(B, P, p) * a.block /\ f[p + 1] = BlocksBefore(B, P, p + 1) * a.block
    BY <1>3, <1>4
  <2> QED BY <2>1, <2>2, <1>1, ProductsGrow
<1> QED BY <1>5, <1>6, <1>7, <1>8 DEF Ascends, P, B, f

\* A coordinate is a group and a partition of it.
LEMMA GroupAndPartition ==
  ASSUME NEW a \in AxisTilings, NEW extent \in Nat \ {0}, AxisAccepts(a, extent),
         NEW c \in 0..(a.partitions - 1)
  PROVE  /\ c \div PerGroup(a) \in 0..(a.groups - 1)
         /\ c % PerGroup(a) \in 0..(PerGroup(a) - 1)
         /\ c = (c \div PerGroup(a)) * PerGroup(a) + (c % PerGroup(a))
<1> DEFINE P == PerGroup(a)
           g == c \div P
           p == c % P
<1>1. P \in Nat \ {0} /\ a.partitions = a.groups * P /\ a.groups \in Nat
  BY GroupsArePartitioned, GroupsOfAnAxis DEF AxisTilings
<1>2. c \in Nat /\ c < a.groups * P
  BY <1>1
<1>3. g \in Nat /\ p \in 0..(P - 1) /\ c = g * P + p
  <2> HIDE DEF P
  <2> QED BY <1>1, <1>2, DivMod
<1>4. g < a.groups
  <2> HIDE DEF P, g, p
  <2>1. SUFFICES ASSUME a.groups <= g PROVE FALSE
    BY <1>1, <1>3
  <2>2. a.groups * P <= g * P /\ g * P \in Nat /\ a.groups * P \in Nat
    BY <1>1, <1>3, <2>1, ProductsGrow
  <2> QED BY <1>2, <1>3, <2>2
<1>5. g \in 0..(a.groups - 1)
  <2> HIDE DEF g
  <2> QED BY <1>1, <1>3, <1>4
<1> QED BY <1>3, <1>5

\* What ShardBounds makes of the group and the partition.
LEMMA ShardOfACoordinate ==
  ASSUME NEW a \in AxisTilings, NEW extent \in Nat \ {0}, AxisAccepts(a, extent),
         NEW c \in 0..(a.partitions - 1)
  PROVE  LET g == c \div PerGroup(a)
             p == c % PerGroup(a)
             W == GroupWidth(a, extent)
             left == Bound(a, extent, p)
             right == Bound(a, extent, p + 1)
         IN  ShardBounds(a, PaddedExtent(a, extent), extent, c) =
               Extent(g * W + left, g * W + Most(Least(left + (right - left), W), left),
                      g * W + left + RoundUp(right - left, a.shardPad))
<1>1. (PaddedExtent(a, extent) \div a.groups) \div a.block = GroupBlocks(a, extent)
  BY GroupsOfAnAxis
<1> QED BY <1>1, Zenon DEF ShardBounds, Bound, PerGroup, GroupWidth

\* The shard of a coordinate, by its group and its partition: where it lies, and
\* that padding only ever follows what it holds of the tensor.
LEMMA ShardBetweenBounds ==
  ASSUME NEW a \in AxisTilings, NEW extent \in Nat \ {0}, AxisAccepts(a, extent),
         NEW c \in 0..(a.partitions - 1)
  PROVE  LET shard == ShardBounds(a, PaddedExtent(a, extent), extent, c)
             g == c \div PerGroup(a)
             p == c % PerGroup(a)
             W == GroupWidth(a, extent)
             left == Bound(a, extent, p)
             right == Bound(a, extent, p + 1)
         IN  /\ left \in Nat /\ right \in Nat /\ left <= right
             /\ shard.start \in Nat /\ shard.logical \in Nat /\ shard.physical \in Nat
             /\ shard.start <= shard.logical /\ shard.logical <= shard.physical
             /\ shard.start = g * W + left
             /\ shard.logical = g * W + (IF left > W THEN left ELSE IF right < W THEN right ELSE W)
<1> DEFINE shard == ShardBounds(a, PaddedExtent(a, extent), extent, c)
           P == PerGroup(a)
           g == c \div P
           p == c % P
           W == GroupWidth(a, extent)
           left == Bound(a, extent, p)
           right == Bound(a, extent, p + 1)
           f == [i \in 0..P |-> Bound(a, extent, i)]
<1>1. P \in Nat \ {0} /\ W \in Nat \ {0} /\ a.shardPad \in Nat \ {0}
  BY GroupsArePartitioned, GroupsOfAnAxis DEF AxisTilings, AxisAccepts
<1>2. /\ g \in 0..(a.groups - 1) /\ p \in 0..(P - 1)
      /\ shard = Extent(g * W + left, g * W + Most(Least(left + (right - left), W), left),
                        g * W + left + RoundUp(right - left, a.shardPad))
  BY ShardOfACoordinate, GroupAndPartition
<1>3. f \in [0..P -> Nat] /\ Ascends(f, P)
  BY BoundsOfAGroup
<1>4. left \in Nat /\ right \in Nat /\ left <= right
  <2>1. p \in 0..P /\ p + 1 \in 0..P
    BY <1>1, <1>2
  <2>2. f[p] = left /\ f[p + 1] = right
    BY <2>1
  <2>3. f[p] \in Nat /\ f[p + 1] \in Nat /\ f[p] <= f[p + 1]
    <3> HIDE DEF f, P, p
    <3> QED BY <1>2, <1>3, <2>1 DEF Ascends
  <2> QED BY <2>2, <2>3
<1>5. a.groups \in Nat
  BY DEF AxisTilings
<1>6. g \in Nat
  BY <1>2, <1>5
<1> HIDE DEF P, g, p, W, left, right
<1>7. g * W \in Nat
  BY <1>1, <1>6
<1>8. RoundUp(right - left, a.shardPad) \in Nat /\ right - left <= RoundUp(right - left, a.shardPad)
  <2>1. right - left \in Nat
    BY <1>4
  <2> QED BY <1>1, <2>1, RoundingUp
<1> DEFINE top == IF left > W THEN left ELSE IF right < W THEN right ELSE W
<1>9. Most(Least(left + (right - left), W), left) = top
  <2>1. left + (right - left) = right
    BY <1>4
  <2>2. Most(Least(right, W), left) = top
    BY <1>1, <1>4 DEF Most, Least
  <2> QED BY <2>1, <2>2
<1>10. top \in Nat /\ left <= top /\ top <= left + RoundUp(right - left, a.shardPad)
  BY <1>1, <1>4, <1>8
<1> HIDE DEF shard, top
<1>11. /\ shard.start = g * W + left
       /\ shard.logical = g * W + top
       /\ shard.physical = g * W + left + RoundUp(right - left, a.shardPad)
  BY <1>2, <1>9 DEF Extent
<1>12. /\ shard.start \in Nat /\ shard.logical \in Nat /\ shard.physical \in Nat
       /\ shard.start <= shard.logical /\ shard.logical <= shard.physical
  BY <1>4, <1>7, <1>8, <1>10, <1>11
<1> QED BY <1>4, <1>11, <1>12 DEF shard, top, P, g, p, W, left, right

\* An index of an axis lies in one partition's shard, whatever the widths of
\* groups, blocks and paddings are (AxisTiling::shard_bounds).
THEOREM PartitionsCutTheAxis ==
  ASSUME NEW a \in AxisTilings, NEW extent \in Nat \ {0}, AxisAccepts(a, extent)
  PROVE  LET shard(c) == ShardBounds(a, PaddedExtent(a, extent), extent, c)
             in(x, c) == shard(c).start <= x /\ x < shard(c).logical
         IN  /\ \A c \in 0..(a.partitions - 1) :
                   /\ shard(c).start \in Nat /\ shard(c).logical \in Nat /\ shard(c).physical \in Nat
                   /\ shard(c).start <= shard(c).logical
                   /\ shard(c).logical <= shard(c).physical
             /\ \A x \in 0..(extent - 1) :
                   \E c \in 0..(a.partitions - 1) :
                      in(x, c) /\ \A d \in 0..(a.partitions - 1) : in(x, d) => d = c
<1> DEFINE shard(c) == ShardBounds(a, PaddedExtent(a, extent), extent, c)
           in(x, c) == shard(c).start <= x /\ x < shard(c).logical
           P == PerGroup(a)
           W == GroupWidth(a, extent)
           f == [i \in 0..P |-> Bound(a, extent, i)]
           B == GroupBlocks(a, extent) * a.block
           Top(left, right) == IF left > W THEN left ELSE IF right < W THEN right ELSE W
<1>1. \A c \in 0..(a.partitions - 1) :
         /\ shard(c).start \in Nat /\ shard(c).logical \in Nat /\ shard(c).physical \in Nat
         /\ shard(c).start <= shard(c).logical
         /\ shard(c).logical <= shard(c).physical
  BY ShardBetweenBounds
<1>2. /\ P \in Nat \ {0} /\ a.groups \in Nat /\ a.partitions = a.groups * P
      /\ W \in Nat \ {0} /\ extent = a.groups * W /\ W <= B /\ B \in Nat
  <2>1. a.groups \in Nat /\ a.block \in Nat
    BY DEF AxisTilings
  <2> QED BY <2>1, GroupsArePartitioned, GroupsOfAnAxis
<1>3. f \in [0..P -> Nat] /\ Ascends(f, P) /\ f[P] = B
  BY BoundsOfAGroup
<1>4. \A c \in 0..(a.partitions - 1) :
         /\ c \div P \in 0..(a.groups - 1) /\ c % P \in 0..(P - 1) /\ c = (c \div P) * P + (c % P)
         /\ shard(c).start = (c \div P) * W + f[c % P]
         /\ shard(c).logical = (c \div P) * W + Top(f[c % P], f[(c % P) + 1])
         /\ f[c % P] \in Nat /\ f[(c % P) + 1] \in Nat /\ f[c % P] <= f[(c % P) + 1]
  <2> SUFFICES ASSUME NEW c \in 0..(a.partitions - 1)
               PROVE  /\ c \div P \in 0..(a.groups - 1) /\ c % P \in 0..(P - 1)
                      /\ c = (c \div P) * P + (c % P)
                      /\ shard(c).start = (c \div P) * W + f[c % P]
                      /\ shard(c).logical = (c \div P) * W + Top(f[c % P], f[(c % P) + 1])
                      /\ f[c % P] \in Nat /\ f[(c % P) + 1] \in Nat /\ f[c % P] <= f[(c % P) + 1]
    OBVIOUS
  <2>1. /\ c \div P \in 0..(a.groups - 1) /\ c % P \in 0..(P - 1)
        /\ c = (c \div P) * P + (c % P)
    BY GroupAndPartition
  <2>2. c % P \in 0..P /\ (c % P) + 1 \in 0..P
    BY <1>2, <2>1
  <2>3. f[c % P] = Bound(a, extent, c % P) /\ f[(c % P) + 1] = Bound(a, extent, (c % P) + 1)
    BY <2>2
  <2>4. /\ Bound(a, extent, c % P) \in Nat /\ Bound(a, extent, (c % P) + 1) \in Nat
        /\ Bound(a, extent, c % P) <= Bound(a, extent, (c % P) + 1)
        /\ shard(c).start = (c \div P) * W + Bound(a, extent, c % P)
        /\ shard(c).logical = (c \div P) * W + Top(Bound(a, extent, c % P), Bound(a, extent, (c % P) + 1))
    BY ShardBetweenBounds
  <2> QED BY <2>1, <2>3, <2>4
<1>5. ASSUME NEW x \in 0..(extent - 1)
      PROVE  \E c \in 0..(a.partitions - 1) :
                in(x, c) /\ \A d \in 0..(a.partitions - 1) : in(x, d) => d = c
  <2> HIDE DEF shard, P, W, f, B
  <2>1. x \in Nat /\ x < a.groups * W
    BY <1>2
  <2>2. PICK g \in Nat, y \in 0..(W - 1) : x = g * W + y
    <3>1. x \div W \in Nat /\ x % W \in 0..(W - 1) /\ x = (x \div W) * W + (x % W)
      BY <1>2, <2>1, DivMod
    <3> QED BY <3>1
  <2>3. g < a.groups
    <3>1. SUFFICES ASSUME a.groups <= g PROVE FALSE
      BY <1>2
    <3>2. a.groups * W <= g * W /\ g * W \in Nat /\ a.groups * W \in Nat
      BY <1>2, <3>1, ProductsGrow
    <3> QED BY <2>1, <2>2, <3>2
  <2>4. y \in Nat /\ y < f[P] /\ y < W
    BY <1>2, <1>3, <2>2
  <2>5. PICK p \in 0..(P - 1) :
          /\ f[p] <= y /\ y < f[p + 1]
          /\ \A q \in 0..(P - 1) : f[q] <= y /\ y < f[q + 1] => q = p
    BY <1>2, <1>3, <2>4, OnePart
  <2> DEFINE c == g * P + p
  <2>6. c \in 0..(a.partitions - 1) /\ c \div P = g /\ c % P = p
    <3>1. c \div P = g /\ c % P = p
      BY <1>2, QuotientIs
    <3>2. (g + 1) * P <= a.groups * P /\ g * P \in Nat /\ (g + 1) * P = g * P + P
      <4>1. g + 1 \in Nat /\ g + 1 <= a.groups
        BY <1>2, <2>3
      <4>2. (g + 1) * P <= a.groups * P
        BY <1>2, <4>1, ProductsGrow
      <4> QED BY <4>2, <1>2
    <3>3. c \in Nat /\ c < a.groups * P
      BY <1>2, <3>2
    <3> QED BY <1>2, <3>1, <3>3
  <2>7. ASSUME NEW d \in 0..(a.partitions - 1)
        PROVE  in(x, d) <=> (d \div P = g /\ f[d % P] <= y /\ y < f[(d % P) + 1])
    <3> DEFINE h == d \div P
               l == f[d % P]
               r == f[(d % P) + 1]
    <3>1. /\ h \in Nat /\ l \in Nat /\ r \in Nat /\ l <= r
          /\ shard(d).start = h * W + l /\ shard(d).logical = h * W + Top(l, r)
      <4>1. /\ h \in 0..(a.groups - 1) /\ l \in Nat /\ r \in Nat /\ l <= r
            /\ shard(d).start = h * W + l /\ shard(d).logical = h * W + Top(l, r)
        BY <1>4, Zenon
      <4> QED BY <1>2, <4>1
    <3> HIDE DEF h, l, r
    <3>2. h * W \in Nat /\ g * W \in Nat
      BY <1>2, <3>1
    <3>3. in(x, d) <=> (h * W + l <= g * W + y /\ g * W + y < h * W + Top(l, r))
      BY <2>2, <3>1
    <3>4. h < g => h * W + W <= g * W
      <4>1. h < g => (h + 1) * W <= g * W
        BY <1>2, <3>1, ProductsGrow
      <4> QED BY <4>1, <1>2, <3>1
    <3>5. g < h => g * W + W <= h * W
      <4>1. g < h => (g + 1) * W <= h * W
        BY <1>2, <3>1, ProductsGrow
      <4> QED BY <4>1, <1>2, <3>1
    <3>6. h * W + l <= g * W + y /\ g * W + y < h * W + Top(l, r) => Top(l, r) <= W
      BY <1>2, <2>2, <3>1, <3>2
    <3>7. h * W + l <= g * W + y /\ g * W + y < h * W + Top(l, r) => h = g
      BY <1>2, <2>2, <3>1, <3>2, <3>4, <3>5, <3>6
    <3>8. h = g => h * W = g * W
      OBVIOUS
    <3>9. in(x, d) <=> (h = g /\ l <= y /\ y < r)
      BY <1>2, <2>2, <3>1, <3>2, <3>3, <3>7, <3>8
    <3> QED BY <3>9 DEF h, l, r
  <2>8. in(x, c)
    BY <2>5, <2>6, <2>7
  <2>9. ASSUME NEW d \in 0..(a.partitions - 1), in(x, d) PROVE d = c
    <3>1. d \div P = g /\ f[d % P] <= y /\ y < f[(d % P) + 1]
      BY <2>7, <2>9
    <3>2. d % P \in 0..(P - 1) /\ d = (d \div P) * P + (d % P)
      BY <1>4, Zenon
    <3>3. d % P = p
      BY <2>5, <3>1, <3>2, Zenon
    <3> QED BY <3>1, <3>2, <3>3
  <2> QED BY <2>6, <2>8, <2>9
<1> QED BY <1>1, <1>5

-----------------------------------------------------------------------------
(* Products over finite sets: the folds of the model, whatever order they take. *)

Products(base, f, D) ==
  {F \in [SUBSET D -> Nat] :
     F[{}] = base /\ \A s \in SUBSET D : \A x \in s : F[s] = F[s \ {x}] * f[x]}

\* A part of a finite set, and what is left without one of its members.
LEMMA SmallerSets ==
  ASSUME NEW D, IsFiniteSet(D), NEW s \in SUBSET D
  PROVE  /\ IsFiniteSet(s) /\ Cardinality(s) \in Nat
         /\ Cardinality(s) = 0 <=> s = {}
         /\ \A x \in s : s \ {x} \in SUBSET D /\ Cardinality(s \ {x}) = Cardinality(s) - 1
<1>1. IsFiniteSet(s)
  BY FS_Subset
<1>2. Cardinality(s) \in Nat
  BY <1>1, FS_CardinalityType
<1>3. Cardinality(s) = 0 <=> s = {}
  BY <1>1, FS_EmptySet
<1>4. ASSUME NEW x \in s PROVE s \ {x} \in SUBSET D /\ Cardinality(s \ {x}) = Cardinality(s) - 1
  BY <1>1, FS_RemoveElement
<1> QED BY <1>1, <1>2, <1>3, <1>4

\* Every finite family of numbers has its products.
LEMMA ProductsExist ==
  ASSUME NEW base \in Nat, NEW D, IsFiniteSet(D), NEW f \in [D -> Nat]
  PROVE  Products(base, f, D) # {}
<1> DEFINE Bad == {n \in Nat : \E S \in SUBSET D : Cardinality(S) = n /\ Products(base, f, S) = {}}
<1>1. SUFFICES ASSUME Bad # {} PROVE FALSE
  <2>1. Cardinality(D) \in Nat /\ D \in SUBSET D
    BY SmallerSets
  <2> QED BY <2>1
<1>2. PICK n \in Bad : \A m \in Bad : n <= m
  <2>1. Bad \subseteq Nat
    OBVIOUS
  <2> QED BY <2>1, <1>1, LeastOf
<1>3. PICK S \in SUBSET D : Cardinality(S) = n /\ Products(base, f, S) = {}
  BY <1>2
<1>4. S # {}
  <2> DEFINE F == [s \in SUBSET {} |-> base]
  <2>1. F \in Products(base, f, {})
    BY DEF Products
  <2> QED BY <2>1, <1>3
<1>5. PICK k \in S : TRUE
  BY <1>4
<1> DEFINE R == S \ {k}
<1>6. PICK F : F \in Products(base, f, R)
  <2>1. R \in SUBSET D /\ Cardinality(R) = n - 1 /\ n \in Nat /\ n - 1 \in Nat
    <3>1. Cardinality(S) \in Nat /\ Cardinality(S) # 0 /\ Cardinality(R) = Cardinality(S) - 1
      BY <1>4, <1>5, SmallerSets
    <3> QED BY <3>1, <1>3
  <2>2. n - 1 \notin Bad
    <3>1. ~ (n <= n - 1)
      BY <2>1
    <3> QED BY <3>1, <1>2
  <2> HIDE DEF R
  <2> QED BY <2>1, <2>2
<1>7. /\ F \in [SUBSET R -> Nat] /\ F[{}] = base
      /\ \A s \in SUBSET R : \A x \in s : F[s] = F[s \ {x}] * f[x]
  BY <1>6 DEF Products
<1> DEFINE G == [s \in SUBSET S |-> IF k \in s THEN F[s \ {k}] * f[k] ELSE F[s]]
<1>8. \A s \in SUBSET S : s \ {k} \in SUBSET R /\ (k \notin s => s \in SUBSET R)
  OBVIOUS
<1>9. \A x \in S : f[x] \in Nat
  OBVIOUS
<1>10. \A s \in SUBSET S : F[s \ {k}] \in Nat /\ G[s] = IF k \in s THEN F[s \ {k}] * f[k] ELSE F[s]
  BY <1>7, <1>8
<1>11. G \in [SUBSET S -> Nat]
  <2>1. ASSUME NEW s \in SUBSET S
        PROVE  (IF k \in s THEN F[s \ {k}] * f[k] ELSE F[s]) \in Nat
    <3>1. CASE k \in s
      <4>0. F[s \ {k}] \in Nat /\ f[k] \in Nat
        BY <1>5, <1>7, <1>8, <1>9
      <4>1. F[s \ {k}] * f[k] \in Nat
        BY <4>0
      <4> QED BY <4>1, <3>1
    <3>2. CASE k \notin s
      BY <3>2, <1>7, <1>8
    <3> QED BY <3>1, <3>2
  <2> QED BY <2>1
<1>12. G[{}] = base
  BY <1>7
<1>13. ASSUME NEW s \in SUBSET S, NEW x \in s PROVE G[s] = G[s \ {x}] * f[x]
  <2> HIDE DEF G, R
  <2>0. s \ {x} \in SUBSET S
    OBVIOUS
  <2>1. CASE x = k
    <3>1. G[s] = F[s \ {k}] * f[k]
      BY <2>1, <1>10
    <3>2. G[s \ {x}] = F[s \ {x}]
      BY <2>0, <2>1, <1>10
    <3> QED BY <3>1, <3>2, <2>1
  <2>2. CASE x # k /\ k \in s
    <3>1. G[s] = F[s \ {k}] * f[k]
      BY <2>2, <1>10
    <3>2. G[s \ {x}] = F[(s \ {x}) \ {k}] * f[k]
      BY <2>0, <2>2, <1>10
    <3>3. (s \ {x}) \ {k} = (s \ {k}) \ {x}
      OBVIOUS
    <3>4. s \ {k} \in SUBSET R /\ x \in s \ {k}
      BY <2>2, <1>8
    <3>5. F[s \ {k}] = F[(s \ {k}) \ {x}] * f[x]
      BY <3>4, <1>7
    <3>6. F[(s \ {x}) \ {k}] \in Nat /\ f[x] \in Nat /\ f[k] \in Nat
      BY <2>0, <1>9, <1>10
    <3> DEFINE z == F[(s \ {x}) \ {k}]
    <3>7. G[s] = (z * f[x]) * f[k]
      BY <3>1, <3>3, <3>5
    <3>8. (z * f[x]) * f[k] = (z * f[k]) * f[x]
      <4> HIDE DEF z
      <4>1. \A u, v, w \in Nat : (u * v) * w = (u * w) * v
        OBVIOUS
      <4> QED BY <4>1, <3>6 DEF z
    <3> QED BY <3>2, <3>7, <3>8
  <2>3. CASE k \notin s
    <3>1. G[s] = F[s] /\ G[s \ {x}] = F[s \ {x}]
      BY <2>0, <2>3, <1>10
    <3>2. s \in SUBSET R
      BY <2>3, <1>8
    <3> QED BY <3>1, <3>2, <1>7
  <2> QED BY <2>1, <2>2, <2>3
<1>14. G \in Products(base, f, S)
  <2> HIDE DEF G
  <2> QED BY <1>11, <1>12, <1>13 DEF Products
<1> QED BY <1>3, <1>14

\* A fold over the parts of T that takes out the member ch names.
FoldsBy(fold, ch, base, f, T) ==
  /\ \A s \in SUBSET T : s # {} => ch[s] \in s
  /\ \A s \in SUBSET T : fold[s] = IF s = {} THEN base ELSE fold[s \ {ch[s]}] * f[ch[s]]

\* A fold that takes the members out in some order computes the product.
LEMMA FoldIsProduct ==
  ASSUME NEW base \in Nat, NEW D, IsFiniteSet(D), NEW f \in [D -> Nat],
         NEW F \in Products(base, f, D), NEW T \in SUBSET D, NEW ch,
         NEW fold, FoldsBy(fold, ch, base, f, T)
  PROVE  fold[T] = F[T]
<1> DEFINE Bad == {n \in Nat : \E s \in SUBSET T : Cardinality(s) = n /\ fold[s] # F[s]}
<1>1. SUFFICES ASSUME Bad # {} PROVE FALSE
  <2>1. Cardinality(T) \in Nat
    BY SmallerSets
  <2> QED BY <2>1
<1>2. PICK n \in Bad : \A m \in Bad : n <= m
  <2>1. Bad \subseteq Nat
    OBVIOUS
  <2> QED BY <2>1, <1>1, LeastOf
<1>3. PICK s \in SUBSET T : Cardinality(s) = n /\ fold[s] # F[s]
  BY <1>2
<1>0. s \in SUBSET D
  OBVIOUS
<1>4. F[{}] = base /\ \A x \in s : F[s] = F[s \ {x}] * f[x]
  BY <1>0 DEF Products
<1>5. s # {}
  <2>1. fold[{}] = base
    BY DEF FoldsBy
  <2> QED BY <2>1, <1>3, <1>4
<1> DEFINE x == ch[s]
<1>6. x \in s /\ fold[s] = fold[s \ {x}] * f[x]
  BY <1>5 DEF FoldsBy
<1> HIDE DEF x
<1>7. s \ {x} \in SUBSET T /\ Cardinality(s \ {x}) = n - 1 /\ n \in Nat /\ n # 0
  BY <1>0, <1>3, <1>5, <1>6, SmallerSets
<1>8. n - 1 \notin Bad
  <2>1. ~ (n <= n - 1)
    BY <1>7
  <2> QED BY <2>1, <1>2
<1>9. fold[s \ {x}] = F[s \ {x}]
  <2>1. n - 1 \in Nat
    BY <1>7
  <2> QED BY <2>1, <1>7, <1>8
<1> QED BY <1>3, <1>4, <1>6, <1>9

\* A bounded set of numbers has a largest.
LEMMA MaxAmong ==
  ASSUME NEW k \in Nat, NEW s, s \subseteq 1..k, s # {}
  PROVE  Max(s) \in s /\ \A y \in s : Max(s) >= y
<1> DEFINE T == {m \in Nat : \A y \in s : y <= m}
<1>1. T \subseteq Nat /\ k \in T
  OBVIOUS
<1>2. PICK m \in T : \A j \in T : m <= j
  BY <1>1, LeastOf
<1>3. m \in s
  <2>1. SUFFICES ASSUME m \notin s PROVE FALSE
    OBVIOUS
  <2>0. m \in Nat /\ \A y \in s : y <= m
    BY <1>2
  <2>2. \A y \in s : y \in Nat /\ y >= 1 /\ y <= m - 1
    BY <2>0, <2>1
  <2>3. m - 1 \in Nat
    <3>1. PICK y \in s : TRUE
      OBVIOUS
    <3> QED BY <2>0, <2>2, <3>1
  <2>4. m - 1 \in T
    BY <2>2, <2>3
  <2>5. m <= m - 1
    BY <2>4, <1>2
  <2> QED BY <2>0, <2>5
<1>4. \A y \in s : m >= y
  BY <1>2
<1> QED BY <1>3, <1>4, Zenon DEF Max

PartsProduct(base, axes) == FoldLeft(LAMBDA p, a : p * a.partitions, base, axes)

\* FoldLeft over the members of a sequence takes their product.
LEMMA FoldLeftOfParts ==
  ASSUME NEW n \in Nat, NEW axes, DOMAIN axes = 1..n, NEW base \in Nat,
         NEW f \in [1..n -> Nat], \A i \in 1..n : f[i] = axes[i].partitions,
         NEW F \in Products(base, f, 1..n)
  PROVE  PartsProduct(base, axes) = F[1..n]
<1> DEFINE D == 1..n
           Step(I) == [s \in SUBSET D |->
                         IF s = {} THEN base ELSE I[s \ {Max(s)}] * axes[Max(s)].partitions]
           fold == CHOOSE I : I = Step(I)
           ch == [s \in SUBSET D |-> Max(s)]
<1>1. IsFiniteSet(D)
  BY FS_Interval
<1>2. \A s \in SUBSET D : s # {} => Max(s) \in s
  BY MaxAmong
<1>3. F \in [SUBSET D -> Nat] /\ F[{}] = base
      /\ \A s \in SUBSET D : \A x \in s : F[s] = F[s \ {x}] * f[x]
  BY DEF Products
<1>4. F = Step(F)
  <2>1. ASSUME NEW s \in SUBSET D, s # {}
        PROVE  F[s] = F[s \ {Max(s)}] * axes[Max(s)].partitions
    <3>1. Max(s) \in s /\ Max(s) \in 1..n
      BY <2>1, <1>2
    <3>2. F[s] = F[s \ {Max(s)}] * f[Max(s)] /\ f[Max(s)] = axes[Max(s)].partitions
      BY <3>1, <1>3
    <3> QED BY <3>2
  <2> HIDE DEF D
  <2> QED BY <2>1, <1>3
<1>5. fold = Step(fold)
  <2> HIDE DEF Step
  <2> QED BY <1>4
<1>6. PartsProduct(base, axes) = fold[D]
  BY Zenon DEF PartsProduct, FoldLeft, MapThenFoldSet
<1> HIDE DEF fold
<1>7. \A s \in SUBSET D : fold[s] = IF s = {} THEN base ELSE fold[s \ {ch[s]}] * f[ch[s]]
  <2>1. \A s \in SUBSET D : fold[s] = IF s = {} THEN base
                                      ELSE fold[s \ {Max(s)}] * axes[Max(s)].partitions
    BY <1>5
  <2>2. \A s \in SUBSET D : ch[s] = Max(s)
    OBVIOUS
  <2> HIDE DEF ch
  <2>3. \A s \in SUBSET D : s # {} => f[Max(s)] = axes[Max(s)].partitions
    BY <1>2
  <2> QED BY <2>1, <2>2, <2>3
<1>8. \A s \in SUBSET D : s # {} => ch[s] \in s
  BY <1>2
<1>9. D \in SUBSET D
  OBVIOUS
<1> HIDE DEF ch, D
<1>10. FoldsBy(fold, ch, base, f, D)
  BY <1>7, <1>8 DEF FoldsBy
<1>11. f \in [D -> Nat] /\ F \in Products(base, f, D)
  BY DEF D
<1>12. fold[D] = F[D]
  BY <1>1, <1>9, <1>10, <1>11, FoldIsProduct
<1> QED BY <1>6, <1>12 DEF D

\* So does MulSeq.
LEMMA MulSeqIsProduct ==
  ASSUME NEW n \in Nat, NEW f \in [1..n -> Nat], NEW F \in Products(1, f, 1..n)
  PROVE  MulSeq(f) = F[1..n]
<1> DEFINE D == 1..n
           Step(I) == [s \in SUBSET D |-> IF s = {} THEN 1 ELSE I[s \ {Max(s)}] * f[Max(s)]]
           fold == CHOOSE I : I = Step(I)
           ch == [s \in SUBSET D |-> Max(s)]
<1>1. IsFiniteSet(D)
  BY FS_Interval
<1>2. \A s \in SUBSET D : s # {} => Max(s) \in s
  BY MaxAmong
<1>3. F \in [SUBSET D -> Nat] /\ F[{}] = 1
      /\ \A s \in SUBSET D : \A x \in s : F[s] = F[s \ {x}] * f[x]
  BY DEF Products
<1>4. F = Step(F)
  <2>1. \A s \in SUBSET D : s # {} => F[s] = F[s \ {Max(s)}] * f[Max(s)]
    BY <1>2, <1>3
  <2> HIDE DEF D
  <2> QED BY <2>1, <1>3
<1>5. fold = Step(fold)
  <2> HIDE DEF Step
  <2> QED BY <1>4
<1>6. MulSeq(f) = fold[D]
  <2>1. DOMAIN f = D
    OBVIOUS
  <2> HIDE DEF D
  <2> QED BY <2>1, Zenon DEF MulSeq, FoldLeft, MapThenFoldSet
<1> HIDE DEF fold
<1>7. \A s \in SUBSET D : fold[s] = IF s = {} THEN 1 ELSE fold[s \ {ch[s]}] * f[ch[s]]
  <2>1. \A s \in SUBSET D : fold[s] = IF s = {} THEN 1 ELSE fold[s \ {Max(s)}] * f[Max(s)]
    BY <1>5
  <2>2. \A s \in SUBSET D : ch[s] = Max(s)
    OBVIOUS
  <2> HIDE DEF ch
  <2> QED BY <2>1, <2>2
<1>8. \A s \in SUBSET D : s # {} => ch[s] \in s
  BY <1>2
<1>9. D \in SUBSET D /\ 1 \in Nat
  OBVIOUS
<1> HIDE DEF ch, D
<1>10. FoldsBy(fold, ch, 1, f, D)
  BY <1>7, <1>8 DEF FoldsBy
<1>11. f \in [D -> Nat] /\ F \in Products(1, f, D)
  BY DEF D
<1>12. fold[D] = F[D]
  BY <1>1, <1>9, <1>10, <1>11, FoldIsProduct
<1> QED BY <1>6, <1>12 DEF D

-----------------------------------------------------------------------------
(* Numbers of mixed radix *)

\* Dividing twice is dividing once; a remainder consists of two digits.
LEMMA DigitSplit ==
  ASSUME NEW q \in Nat \ {0}, NEW f \in Nat \ {0}, NEW u \in Nat
  PROVE  /\ q * f \in Nat \ {0}
         /\ u \div (q * f) = (u \div q) \div f
         /\ u % (q * f) = (u % q) + q * ((u \div q) % f)
<1> DEFINE a == u \div q
           r == u % q
           b == a \div f
           c == a % f
<1>1. a \in Nat /\ r \in 0..(q - 1) /\ u = a * q + r
  BY DivMod
<1>2. b \in Nat /\ c \in 0..(f - 1) /\ a = b * f + c
  <2> HIDE DEF a
  <2> QED BY <1>1, DivMod
<1> HIDE DEF a, r, b, c
<1>3. q * f \in Nat \ {0}
  <2>1. (q - 1) * (f - 1) \in Nat
    OBVIOUS
  <2>2. q * f = (q - 1) * (f - 1) + (q - 1) + (f - 1) + 1
    OBVIOUS
  <2> QED BY <2>1, <2>2
<1>4. c * q + r \in 0..(q * f - 1)
  <2>1. c * q \in Nat /\ (c + 1) * q = c * q + q
    BY <1>2
  <2>2. c + 1 \in Nat /\ c + 1 <= f /\ f \in Nat
    BY <1>2
  <2>3. (c + 1) * q <= f * q
    BY <2>2, ProductsGrow
  <2>4. f * q = q * f
    OBVIOUS
  <2> QED BY <1>1, <1>3, <2>1, <2>3, <2>4
<1>5. u = b * (q * f) + (c * q + r)
  <2>1. (b * f + c) * q = b * (q * f) + c * q
    BY <1>2
  <2> QED BY <1>1, <1>2, <1>3, <1>4, <2>1
<1>6. u \div (q * f) = b /\ u % (q * f) = c * q + r
  <2> DEFINE m == q * f
             z == c * q + r
  <2> HIDE DEF m, z
  <2>1. m \in Nat \ {0} /\ z \in 0..(m - 1) /\ u = b * m + z
    BY <1>3, <1>4, <1>5 DEF m, z
  <2>2. u \div m = b /\ u % m = z
    BY <2>1, <1>2, QuotientIs
  <2> QED BY <2>2 DEF m, z
<1>7. c * q + r = r + q * c
  BY <1>1, <1>2
<1> QED BY <1>3, <1>6, <1>7 DEF a, r, b, c

\* An order in which every member knows those before it.
Ordered(D, before) ==
  /\ before \in [D -> SUBSET D]
  /\ \A d \in D : d \notin before[d] /\ \A e \in before[d] : before[e] \subseteq before[d]
  /\ \A d, e \in D : d # e => e \in before[d] \/ d \in before[e]

Closed(s, before) == \A d \in s : before[d] \subseteq s

\* A beginning of the order has a last member.
LEMMA LastMember ==
  ASSUME NEW D, IsFiniteSet(D), NEW before, Ordered(D, before),
         NEW s \in SUBSET D, s # {}, Closed(s, before)
  PROVE  \E d \in s : s \ {d} = before[d]
<1> DEFINE Left(d) == s \ before[d]
           Sizes == {Cardinality(Left(d)) : d \in s}
<1>1. \A d \in s : Left(d) \in SUBSET D /\ Cardinality(Left(d)) \in Nat
  <2>1. \A d \in s : Left(d) \in SUBSET D
    OBVIOUS
  <2> HIDE DEF Left
  <2> QED BY <2>1, SmallerSets
<1>2. PICK d \in s : \A e \in s : Cardinality(Left(d)) <= Cardinality(Left(e))
  <2>1. Sizes \subseteq Nat /\ Sizes # {}
    BY <1>1
  <2>2. PICK m \in Sizes : \A k \in Sizes : m <= k
    BY <2>1, LeastOf
  <2>3. PICK d \in s : m = Cardinality(Left(d))
    BY <2>2
  <2> HIDE DEF Left
  <2>4. \A e \in s : Cardinality(Left(e)) \in Sizes
    OBVIOUS
  <2> HIDE DEF Sizes
  <2>5. \A e \in s : Cardinality(Left(d)) <= Cardinality(Left(e))
    BY <2>2, <2>3, <2>4
  <2> QED BY <2>5
<1>3. ASSUME NEW e \in s, e # d PROVE e \in before[d]
  <2>1. SUFFICES ASSUME d \in before[e] PROVE FALSE
    BY <1>3 DEF Ordered
  <2>2. before[d] \subseteq before[e] /\ d \notin before[d]
    BY <2>1 DEF Ordered
  <2>3. Left(e) \in SUBSET (Left(d) \ {d}) /\ d \in Left(d)
    BY <2>1, <2>2
  <2> HIDE DEF Left
  <2>4. IsFiniteSet(Left(d)) /\ Cardinality(Left(d)) \in Nat /\ Cardinality(Left(e)) \in Nat
    BY <1>1, SmallerSets
  <2>5. Cardinality(Left(d) \ {d}) = Cardinality(Left(d)) - 1 /\ IsFiniteSet(Left(d) \ {d})
    BY <2>3, <2>4, FS_RemoveElement
  <2>6. Cardinality(Left(e)) <= Cardinality(Left(d) \ {d})
    BY <2>3, <2>5, FS_Subset
  <2>7. Cardinality(Left(d)) <= Cardinality(Left(e))
    BY <1>2
  <2> QED BY <2>4, <2>5, <2>6, <2>7
<1>4. before[d] \subseteq s /\ d \notin before[d]
  BY DEF Closed, Ordered
<1> QED BY <1>3, <1>4

\* Products of positive numbers are positive.
LEMMA ProductsArePositive ==
  ASSUME NEW base \in Nat \ {0}, NEW D, IsFiniteSet(D), NEW f \in [D -> Nat \ {0}],
         NEW F \in Products(base, f, D), NEW T \in SUBSET D
  PROVE  F[T] \in Nat \ {0}
<1> DEFINE Bad == {n \in Nat : \E s \in SUBSET D : Cardinality(s) = n /\ F[s] = 0}
<1>0. \A s \in SUBSET D : F[s] \in Nat
  BY DEF Products
<1>1. SUFFICES ASSUME Bad # {} PROVE FALSE
  <2>1. Cardinality(T) \in Nat
    BY SmallerSets
  <2> QED BY <2>1, <1>0
<1>2. PICK n \in Bad : \A m \in Bad : n <= m
  <2>1. Bad \subseteq Nat
    OBVIOUS
  <2> QED BY <2>1, <1>1, LeastOf
<1>3. PICK s \in SUBSET D : Cardinality(s) = n /\ F[s] = 0
  BY <1>2
<1>4. s # {}
  BY <1>3 DEF Products
<1>5. PICK x \in s : TRUE
  BY <1>4
<1>6. F[s] = F[s \ {x}] * f[x] /\ f[x] \in Nat \ {0}
  BY DEF Products
<1>7. s \ {x} \in SUBSET D /\ Cardinality(s \ {x}) = n - 1 /\ n \in Nat /\ n # 0
  BY <1>3, <1>4, SmallerSets
<1>8. n - 1 \notin Bad
  <2>1. ~ (n <= n - 1)
    BY <1>7
  <2> QED BY <2>1, <1>2
<1>9. F[s \ {x}] # 0 /\ F[s \ {x}] \in Nat
  <2>1. n - 1 \in Nat
    BY <1>7
  <2> QED BY <2>1, <1>0, <1>7, <1>8
<1>10. F[s \ {x}] * f[x] # 0
  <2> DEFINE p == F[s \ {x}]
             q == f[x]
  <2>1. p \in Nat \ {0} /\ q \in Nat \ {0}
    BY <1>6, <1>9
  <2> HIDE DEF p, q
  <2>2. p * q # 0
    BY <2>1, DigitSplit
  <2> QED BY <2>2 DEF p, q
<1> QED BY <1>3, <1>6, <1>10

\* The numbers with the digits v, each taken at the product of the radices before
\* it, are those of one remainder by the product of all.
LEMMA DigitsAreARemainder ==
  ASSUME NEW D, IsFiniteSet(D), NEW before, Ordered(D, before), NEW f \in [D -> Nat \ {0}],
         NEW F \in Products(1, f, D), NEW v \in [D -> Nat], \A d \in D : v[d] < f[d]
  PROVE  \E V \in 0..(F[D] - 1) :
            \A u \in Nat : (\A d \in D : (u \div F[before[d]]) % f[d] = v[d]) <=> u % F[D] = V
<1> DEFINE Told(s, V) == \A u \in Nat :
             (\A d \in s : (u \div F[before[d]]) % f[d] = v[d]) <=> u % F[s] = V
           Bad == {n \in Nat : \E s \in SUBSET D :
                     Cardinality(s) = n /\ Closed(s, before) /\ ~ \E V \in 0..(F[s] - 1) : Told(s, V)}
<1>0. \A s \in SUBSET D : F[s] \in Nat \ {0}
  <2>1. 1 \in Nat \ {0}
    OBVIOUS
  <2> QED BY <2>1, ProductsArePositive
<1>1. SUFFICES ASSUME Bad # {} PROVE FALSE
  <2>1. Cardinality(D) \in Nat /\ D \in SUBSET D
    BY SmallerSets
  <2>2. Closed(D, before)
    BY DEF Closed, Ordered
  <2>3. Cardinality(D) \notin Bad
    BY <1>1
  <2>4. \E V \in 0..(F[D] - 1) : Told(D, V)
    <3> HIDE DEF Told
    <3> QED BY <2>1, <2>2, <2>3
  <2> QED BY <2>4
<1>2. PICK n \in Bad : \A m \in Bad : n <= m
  <2>1. Bad \subseteq Nat
    OBVIOUS
  <2> HIDE DEF Bad
  <2> QED BY <2>1, <1>1, LeastOf
<1>3. PICK s \in SUBSET D : Cardinality(s) = n /\ Closed(s, before)
                            /\ ~ \E V \in 0..(F[s] - 1) : Told(s, V)
  <2> HIDE DEF Told
  <2> QED BY <1>2
<1>4. s # {}
  <2>1. SUFFICES ASSUME s = {} PROVE FALSE
    OBVIOUS
  <2>2. F[s] = 1
    BY <2>1 DEF Products
  <2>3. \A u \in Nat : u % 1 = 0
    <3>1. \A u \in Nat : u % 1 \in 0..(1 - 1)
      BY DivMod
    <3> QED BY <3>1
  <2>4. Told(s, 0)
    BY <2>1, <2>2, <2>3
  <2>5. 0 \in 0..(F[s] - 1)
    BY <2>2
  <2> HIDE DEF Told
  <2> QED BY <1>3, <2>4, <2>5
<1>5. PICK d \in s : s \ {d} = before[d]
  BY <1>3, <1>4, LastMember
<1> DEFINE r == before[d]
<1>6. r \in SUBSET D /\ Closed(r, before) /\ d \in D
  BY DEF Ordered, Closed
<1>7. n \in Nat /\ n # 0 /\ Cardinality(r) = n - 1
  BY <1>3, <1>4, <1>5, SmallerSets
<1>8. PICK V \in 0..(F[r] - 1) : Told(r, V)
  <2>1. n - 1 \notin Bad /\ n - 1 \in Nat
    <3>1. ~ (n <= n - 1) /\ n - 1 \in Nat
      BY <1>7
    <3> HIDE DEF Bad
    <3> QED BY <3>1, <1>2
  <2> HIDE DEF Told, r
  <2> QED BY <2>1, <1>6, <1>7
<1> DEFINE q == F[r]
           g == f[d]
           w == v[d]
<1>9. q \in Nat \ {0} /\ g \in Nat \ {0} /\ w \in Nat /\ w < g /\ F[s] = q * g
  <2>1. F[s] = F[s \ {d}] * f[d]
    BY DEF Products
  <2> QED BY <2>1, <1>0, <1>5, <1>6
<1>10. \A u \in Nat : (\A e \in s : (u \div F[before[e]]) % f[e] = v[e])
                        <=> u % q = V /\ (u \div q) % g = w
  <2>1. s = r \cup {d}
    BY <1>5
  <2>2. \A u \in Nat : (\A e \in s : (u \div F[before[e]]) % f[e] = v[e])
                        <=> (\A e \in r : (u \div F[before[e]]) % f[e] = v[e])
                              /\ (u \div F[before[d]]) % f[d] = v[d]
    BY <2>1
  <2> QED BY <2>2, <1>8
<1> HIDE DEF q, g, w
<1>11. \A u \in Nat : u % q = V /\ (u \div q) % g = w <=> u % F[s] = V + q * w
  <2> SUFFICES ASSUME NEW u \in Nat
               PROVE  u % q = V /\ (u \div q) % g = w <=> u % F[s] = V + q * w
    OBVIOUS
  <2>1. u % F[s] = (u % q) + q * ((u \div q) % g)
    <3>1. u % (q * g) = (u % q) + q * ((u \div q) % g)
      BY <1>9, DigitSplit
    <3>2. F[s] = q * g
      BY <1>9
    <3> QED BY <3>1, <3>2
  <2> DEFINE a == u % q
             c == (u \div q) % g
  <2>2. a \in 0..(q - 1) /\ c \in Nat
    <3>1. u \div q \in Nat /\ u % q \in 0..(q - 1)
      BY <1>9, DivMod
    <3>2. (u \div q) % g \in 0..(g - 1)
      BY <3>1, <1>9, DivMod
    <3> QED BY <3>1, <3>2
  <2>3. V \in 0..(q - 1)
    BY <1>8 DEF q
  <2> HIDE DEF a, c
  <2>4. ASSUME a + q * c = V + q * w PROVE a = V /\ c = w
    <3>1. q * c = c * q /\ q * w = w * q /\ c * q \in Nat /\ w * q \in Nat
      BY <1>9, <2>2
    <3>2. c * q + a = w * q + V
      BY <2>4, <3>1, <2>2, <2>3
    <3>3. (c * q + a) \div q = c /\ (c * q + a) % q = a
      BY <1>9, <2>2, QuotientIs
    <3>4. (w * q + V) \div q = w /\ (w * q + V) % q = V
      BY <1>9, <2>3, QuotientIs
    <3> QED BY <3>2, <3>3, <3>4
  <2>5. (a = V /\ c = w) <=> a + q * c = V + q * w
    BY <2>4
  <2> QED BY <2>1, <2>5 DEF a, c
<1>12. V + q * w \in 0..(F[s] - 1)
  <2>1. V \in 0..(q - 1)
    BY <1>8 DEF q
  <2>2. (w + 1) * q <= g * q /\ w * q \in Nat
    <3>1. w + 1 \in Nat /\ w + 1 <= g /\ q \in Nat /\ g \in Nat
      BY <1>9
    <3>2. (w + 1) * q <= g * q
      BY <3>1, ProductsGrow
    <3> QED BY <3>2, <1>9
  <2>3. (w + 1) * q = w * q + q /\ g * q = q * g /\ q * w = w * q
    BY <1>9
  <2> QED BY <1>9, <2>1, <2>2, <2>3
<1>13. Told(s, V + q * w)
  BY <1>10, <1>11
<1> HIDE DEF Told
<1> QED BY <1>3, <1>12, <1>13

-----------------------------------------------------------------------------
(* Layouts of shapes *)

PartsOf(layout) == [i \in 1..Len(layout.axes) |-> layout.axes[i].partitions]

\* The axes of a layout, and the numbers of their partitions.
LEMMA AxesOfALayout ==
  ASSUME NEW layout, IsLayout(layout)
  PROVE  /\ Len(layout.axes) \in Nat /\ DOMAIN layout.axes = 1..Len(layout.axes)
         /\ \A i \in DOMAIN layout.axes : layout.axes[i] \in AxisTilings
         /\ PartsOf(layout) \in [1..Len(layout.axes) -> Nat]
<1>1. /\ Len(layout.axes) \in Nat /\ DOMAIN layout.axes = 1..Len(layout.axes)
      /\ \A i \in DOMAIN layout.axes : layout.axes[i] \in AxisTilings
  BY DEF IsLayout
<1>2. \A i \in 1..Len(layout.axes) : layout.axes[i].partitions \in Nat
  BY <1>1 DEF AxisTilings
<1> QED BY <1>1, <1>2 DEF PartsOf

\* A packed axis is laid after the replicas and the axes before it; either way
\* its stride is a number.
LEMMA StridesOfALayout ==
  ASSUME NEW layout, IsLayout(layout), NEW i \in DOMAIN layout.axes
  PROVE  AxisStride(layout, i) \in Nat
<1> DEFINE n == i - 1
           g == [j \in 1..n |-> layout.axes[j].partitions]
           axes == SubSeq(layout.axes, 1, i - 1)
<1>1. i \in 1..Len(layout.axes) /\ Len(layout.axes) \in Nat /\ n \in Nat
  BY AxesOfALayout
<1>2. DOMAIN axes = 1..n /\ \A j \in 1..n : axes[j] = layout.axes[j] /\ j \in DOMAIN layout.axes
  BY <1>1 DEF IsLayout
<1>3. g \in [1..n -> Nat] /\ \A j \in 1..n : g[j] = axes[j].partitions
  <2>1. \A j \in 1..n : layout.axes[j].partitions \in Nat
    BY <1>2, AxesOfALayout DEF AxisTilings
  <2> QED BY <2>1, <1>2
<1>4. layout.replicas \in Nat
  BY DEF IsLayout
<1> HIDE DEF g, axes
<1>5. IsFiniteSet(1..n)
  BY <1>1, FS_Interval
<1> HIDE DEF n
<1>6. PICK F : F \in Products(layout.replicas, g, 1..n)
  BY <1>3, <1>4, <1>5, ProductsExist
<1>7. PartsProduct(layout.replicas, axes) = F[1..n]
  <2>1. /\ n \in Nat /\ DOMAIN axes = 1..n /\ layout.replicas \in Nat /\ g \in [1..n -> Nat]
        /\ \A j \in 1..n : g[j] = axes[j].partitions
    BY <1>1, <1>2, <1>3, <1>4
  <2> QED BY <2>1, <1>6, FoldLeftOfParts
<1>8. F[1..n] \in Nat
  BY <1>6 DEF Products
<1>9. layout.axes[i].stride # Packed => layout.axes[i].stride \in Nat
  BY AxesOfALayout DEF AxisTilings
<1> QED BY <1>7, <1>8, <1>9, Zenon DEF AxisStride, PartsProduct, axes

\* No two axes of a layout tile the same axis of the shape.
LEMMA AxisIsTiledOnce ==
  ASSUME NEW layout, NEW shape, Tiled(layout, shape), NEW axis, NEW i \in AxisOf(layout, shape, axis)
  PROVE  /\ AxisOf(layout, shape, axis) = {i} /\ i \in DOMAIN layout.axes
         /\ AxisAccepts(layout.axes[i], shape[axis])
         /\ AxisStride(layout, i) # 0
<1> DEFINE at == [j \in DOMAIN layout.axes |-> ResolveAxis(layout.axes[j].axis, Len(shape))]
<1>1. /\ \A j \in DOMAIN at : at[j] # 0 /\ AxisAccepts(layout.axes[j], shape[at[j]])
      /\ \A j, k \in DOMAIN at : j # k => at[j] # at[k]
      /\ \A j \in DOMAIN at : AxisStride(layout, j) # 0
  BY DEF Tiled
<1>2. DOMAIN at = DOMAIN layout.axes
  OBVIOUS
<1>3. \A j \in AxisOf(layout, shape, axis) : j \in DOMAIN layout.axes /\ at[j] = axis
  BY DEF AxisOf
<1> HIDE DEF at
<1>4. i \in DOMAIN layout.axes /\ at[i] = axis
  BY <1>3
<1>5. \A j \in AxisOf(layout, shape, axis) : j = i
  BY <1>1, <1>2, <1>3, <1>4
<1> QED BY <1>1, <1>2, <1>4, <1>5

\* What a resolved axis consists of: the partitions of its tiling, or one part.
PartsCut(parts, width) ==
  /\ \A k \in 1..Len(parts) :
        /\ parts[k].start \in Nat /\ parts[k].logical \in Nat /\ parts[k].physical \in Nat
        /\ parts[k].start <= parts[k].logical /\ parts[k].logical <= parts[k].physical
  /\ \A x \in 0..(width - 1) :
        \E k \in 1..Len(parts) :
           /\ parts[k].start <= x /\ x < parts[k].logical
           /\ \A m \in 1..Len(parts) : parts[m].start <= x /\ x < parts[m].logical => m = k

\* The parts of an axis cut it, whether the layout tiles it or leaves it whole.
LEMMA PartsOfAnAxis ==
  ASSUME NEW layout, NEW shape, IsLayout(layout), IsShape(shape), Tiled(layout, shape),
         NEW axis \in DOMAIN shape
  PROVE  LET resolved == ResolvedAxis(layout, shape, axis)
         IN  /\ Len(resolved.parts) \in Nat \ {0} /\ resolved.stride \in Nat \ {0}
             /\ DOMAIN resolved.parts = 1..Len(resolved.parts)
             /\ PartsCut(resolved.parts, shape[axis])
             /\ \A i \in AxisOf(layout, shape, axis) :
                   /\ Len(resolved.parts) = layout.axes[i].partitions
                   /\ resolved.stride = AxisStride(layout, i)
             /\ AxisOf(layout, shape, axis) = {} => Len(resolved.parts) = 1
<1> DEFINE resolved == ResolvedAxis(layout, shape, axis)
           width == shape[axis]
<1>1. width \in Nat \ {0}
  BY DEF IsShape
<1>2. CASE AxisOf(layout, shape, axis) = {}
  <2>1. resolved = [parts |-> <<Extent(0, width, width)>>, stride |-> 1]
    BY <1>2 DEF ResolvedAxis
  <2> HIDE DEF resolved
  <2>2. /\ Len(resolved.parts) = 1 /\ resolved.stride = 1 /\ DOMAIN resolved.parts = 1..1
        /\ resolved.parts[1] = Extent(0, width, width)
    BY <2>1
  <2>3. /\ resolved.parts[1].start = 0 /\ resolved.parts[1].logical = width
        /\ resolved.parts[1].physical = width
    BY <2>2 DEF Extent
  <2> HIDE DEF width
  <2>4. PartsCut(resolved.parts, width)
    BY <1>1, <2>2, <2>3 DEF PartsCut
  <2> QED BY <1>2, <2>2, <2>4 DEF resolved, width
<1>3. CASE AxisOf(layout, shape, axis) # {}
  <2> DEFINE i == CHOOSE j \in AxisOf(layout, shape, axis) : TRUE
             a == layout.axes[i]
             shard(c) == ShardBounds(a, PaddedExtent(a, width), width, c)
  <2>1. i \in AxisOf(layout, shape, axis)
    BY <1>3
  <2>2. resolved = [parts |-> [c \in 1..a.partitions |-> shard(c - 1)],
                    stride |-> AxisStride(layout, i)]
    BY <1>3 DEF ResolvedAxis
  <2> HIDE DEF i, resolved
  <2>3. AxisOf(layout, shape, axis) = {i} /\ i \in DOMAIN layout.axes
        /\ AxisAccepts(a, width) /\ AxisStride(layout, i) # 0
    BY <2>1, AxisIsTiledOnce
  <2>4. a \in AxisTilings /\ AxisStride(layout, i) \in Nat \ {0}
    BY <2>3, AxesOfALayout, StridesOfALayout
  <2>5. a.partitions \in Nat \ {0}
    BY <2>3, <2>4 DEF AxisTilings, AxisAccepts
  <2> HIDE DEF a, width
  <2>6. /\ \A c \in 0..(a.partitions - 1) :
              /\ shard(c).start \in Nat /\ shard(c).logical \in Nat /\ shard(c).physical \in Nat
              /\ shard(c).start <= shard(c).logical
              /\ shard(c).logical <= shard(c).physical
        /\ \A x \in 0..(width - 1) :
              \E c \in 0..(a.partitions - 1) :
                 /\ shard(c).start <= x /\ x < shard(c).logical
                 /\ \A d \in 0..(a.partitions - 1) :
                       shard(d).start <= x /\ x < shard(d).logical => d = c
    BY <1>1, <2>3, <2>4, PartitionsCutTheAxis
  <2> HIDE DEF shard
  <2> DEFINE n == a.partitions
             parts == [c \in 1..n |-> shard(c - 1)]
  <2>7. resolved.parts = parts /\ resolved.stride = AxisStride(layout, i)
    BY <2>2
  <2>8. Len(parts) = n /\ DOMAIN parts = 1..n /\ \A k \in 1..n : parts[k] = shard(k - 1)
    BY <2>5
  <2> HIDE DEF parts
  <2>9. PartsCut(parts, width)
    <3>1. \A k \in 1..n : k - 1 \in 0..(n - 1)
      BY <2>5
    <3>2. \A k \in 1..n :
            /\ parts[k].start \in Nat /\ parts[k].logical \in Nat /\ parts[k].physical \in Nat
            /\ parts[k].start <= parts[k].logical /\ parts[k].logical <= parts[k].physical
      BY <2>6, <2>8, <3>1
    <3>3. ASSUME NEW x \in 0..(width - 1)
          PROVE  \E k \in 1..n :
                   /\ parts[k].start <= x /\ x < parts[k].logical
                   /\ \A m \in 1..n : parts[m].start <= x /\ x < parts[m].logical => m = k
      <4>1. PICK c \in 0..(n - 1) :
              /\ shard(c).start <= x /\ x < shard(c).logical
              /\ \A d \in 0..(n - 1) : shard(d).start <= x /\ x < shard(d).logical => d = c
        BY <2>6
      <4>2. c + 1 \in 1..n /\ (c + 1) - 1 = c
        BY <2>5
      <4>3. parts[c + 1].start <= x /\ x < parts[c + 1].logical
        BY <2>8, <4>1, <4>2
      <4>4. ASSUME NEW m \in 1..n, parts[m].start <= x, x < parts[m].logical PROVE m = c + 1
        <5>1. m - 1 = c
          BY <4>1, <4>4, <3>1, <2>8
        <5> QED BY <5>1, <2>5
      <4> QED BY <4>2, <4>3, <4>4
    <3> QED BY <2>8, <3>2, <3>3 DEF PartsCut
  <2>10. /\ Len(resolved.parts) = n /\ DOMAIN resolved.parts = 1..n
         /\ resolved.stride \in Nat \ {0} /\ PartsCut(resolved.parts, width)
    BY <2>4, <2>7, <2>8, <2>9
  <2>11. \A j \in AxisOf(layout, shape, axis) : j = i
    BY <2>3
  <2>12. layout.axes[i].partitions = n
    BY DEF a
  <2> HIDE DEF n
  <2> QED BY <1>3, <2>5, <2>7, <2>10, <2>11, <2>12 DEF resolved, width, n
<1> QED BY <1>2, <1>3

-----------------------------------------------------------------------------
(* The tiles that hold an element of a tensor *)

\* The shard of a tile (the only one of ResolvedLayout::shard_extents where axes
\* are tiled), and the elements of a tensor.
ShardAt(layout, shape, t) == [axis \in DOMAIN shape |-> ExtentOn(ResolvedAxis(layout, shape, axis), t)]
Elements(shape) == {c \in [DOMAIN shape -> Nat] : \A axis \in DOMAIN shape : c[axis] < shape[axis]}

IsCoordinate(layout, v) ==
  /\ v \in [DOMAIN layout.axes -> Nat]
  /\ \A i \in DOMAIN layout.axes : v[i] < layout.axes[i].partitions

\* Of the parts that cut an axis, a tile has the one with an index in it exactly
\* when its coordinate on the axis is that part's number.
LEMMA PartOfATile ==
  ASSUME NEW resolved, Len(resolved.parts) \in Nat \ {0}, resolved.stride \in Nat \ {0},
         NEW width, PartsCut(resolved.parts, width), NEW x \in 0..(width - 1)
  PROVE  \E k \in 1..Len(resolved.parts) : \A t \in Nat :
            /\ (t \div resolved.stride) % Len(resolved.parts) \in Nat
            /\ (ExtentOn(resolved, t).start <= x /\ x < ExtentOn(resolved, t).logical)
                 <=> (t \div resolved.stride) % Len(resolved.parts) = k - 1
<1> DEFINE n == Len(resolved.parts)
           at(t) == (t \div resolved.stride) % n
<1>1. PICK k \in 1..n :
         /\ resolved.parts[k].start <= x /\ x < resolved.parts[k].logical
         /\ \A m \in 1..n :
               resolved.parts[m].start <= x /\ x < resolved.parts[m].logical => m = k
  BY DEF PartsCut
<1>2. \A t \in Nat : at(t) \in 0..(n - 1)
  <2> SUFFICES ASSUME NEW t \in Nat PROVE at(t) \in 0..(n - 1)
    OBVIOUS
  <2>1. t \div resolved.stride \in Nat
    BY DivMod
  <2> HIDE DEF n
  <2>2. n \in Nat \ {0}
    BY DEF n
  <2> QED BY <2>1, <2>2, DivMod
<1> SUFFICES ASSUME NEW t \in Nat
             PROVE  /\ at(t) \in Nat
                    /\ (ExtentOn(resolved, t).start <= x /\ x < ExtentOn(resolved, t).logical)
                          <=> at(t) = k - 1
  OBVIOUS
<1>3. ExtentOn(resolved, t) = resolved.parts[1 + at(t)]
  BY DEF ExtentOn
<1>4. at(t) \in 0..(n - 1) /\ n \in Nat
  BY <1>2
<1> HIDE DEF at, n
<1>5. 1 + at(t) \in 1..n
  BY <1>4
<1>6. 1 + at(t) = k <=> at(t) = k - 1
  BY <1>1, <1>4
<1> QED BY <1>1, <1>3, <1>4, <1>5, <1>6

\* Every axis of a layout that tiles a shape is an axis of the shape.
LEMMA TiledAxes ==
  ASSUME NEW layout, NEW shape, IsLayout(layout), IsShape(shape), Tiled(layout, shape),
         NEW i \in DOMAIN layout.axes
  PROVE  \E axis \in DOMAIN shape :
            axis = ResolveAxis(layout.axes[i].axis, Len(shape)) /\ i \in AxisOf(layout, shape, axis)
<1> DEFINE at == [j \in DOMAIN layout.axes |-> ResolveAxis(layout.axes[j].axis, Len(shape))]
           p == ResolveAxis(layout.axes[i].axis, Len(shape))
<1>1. \A j \in DOMAIN at : at[j] # 0
  BY DEF Tiled
<1>2. p # 0
  BY <1>1
<1>3. layout.axes[i].axis \in {"start", "end", "linear"} \X Nat
  BY AxesOfALayout DEF AxisTilings
<1>4. layout.axes[i].axis[2] \in Nat
  BY <1>3
<1>5. Len(shape) \in Nat /\ DOMAIN shape = 1..Len(shape)
  BY DEF IsShape
<1>6. p \in 1..Len(shape)
  <2> DEFINE n == layout.axes[i].axis[2]
  <2>1. \/ p = 0
        \/ p = n + 1 /\ n < Len(shape)
        \/ p = (Len(shape) - n) + 1 /\ n \in 1..Len(shape)
    BY <1>4, <1>5 DEF ResolveAxis
  <2>2. n \in Nat
    BY <1>4
  <2> HIDE DEF n, p
  <2> QED BY <1>2, <1>5, <2>1, <2>2
<1>7. i \in AxisOf(layout, shape, p)
  BY DEF AxisOf
<1> QED BY <1>5, <1>6, <1>7

\* The tiles that hold an element are those at one coordinate.
LEMMA ElementIsAtACoordinate ==
  ASSUME NEW layout, NEW shape, IsLayout(layout), IsShape(shape), Tiled(layout, shape),
         NEW c \in Elements(shape)
  PROVE  \E v : /\ IsCoordinate(layout, v)
                /\ \A t \in Nat : Holds(ShardAt(layout, shape, t), c) <=> TileCoordinate(layout, t) = v
<1> DEFINE res(axis) == ResolvedAxis(layout, shape, axis)
           n(axis) == Len(res(axis).parts)
           In(axis, t) == /\ ExtentOn(res(axis), t).start <= c[axis]
                          /\ c[axis] < ExtentOn(res(axis), t).logical
           at(axis, t) == (t \div res(axis).stride) % n(axis)
           Fits(axis, k) == \A t \in Nat : at(axis, t) \in Nat /\ (In(axis, t) <=> at(axis, t) = k - 1)
           K == [axis \in DOMAIN shape |-> CHOOSE k \in 1..n(axis) : Fits(axis, k)]
           pos == [i \in DOMAIN layout.axes |-> ResolveAxis(layout.axes[i].axis, Len(shape))]
           v == [i \in DOMAIN layout.axes |-> K[pos[i]] - 1]
<1>1. \A axis \in DOMAIN shape : c[axis] \in 0..(shape[axis] - 1)
  BY DEF Elements, IsShape
<1>2. \A axis \in DOMAIN shape :
         /\ n(axis) \in Nat \ {0} /\ res(axis).stride \in Nat \ {0}
         /\ PartsCut(res(axis).parts, shape[axis])
         /\ \A i \in AxisOf(layout, shape, axis) :
               n(axis) = layout.axes[i].partitions /\ res(axis).stride = AxisStride(layout, i)
         /\ AxisOf(layout, shape, axis) = {} => n(axis) = 1
  BY PartsOfAnAxis
<1>3. \A axis \in DOMAIN shape : \E k \in 1..n(axis) : Fits(axis, k)
  <2> SUFFICES ASSUME NEW axis \in DOMAIN shape PROVE \E k \in 1..n(axis) : Fits(axis, k)
    OBVIOUS
  <2> DEFINE r == res(axis)
             x == c[axis]
             w == shape[axis]
  <2>1. /\ Len(r.parts) \in Nat \ {0} /\ r.stride \in Nat \ {0} /\ PartsCut(r.parts, w)
        /\ x \in 0..(w - 1)
    BY <1>1, <1>2
  <2> HIDE DEF r, x, w
  <2>2. \E k \in 1..Len(r.parts) : \A t \in Nat :
            /\ (t \div r.stride) % Len(r.parts) \in Nat
            /\ (ExtentOn(r, t).start <= x /\ x < ExtentOn(r, t).logical)
                 <=> (t \div r.stride) % Len(r.parts) = k - 1
    BY <2>1, PartOfATile
  <2> QED BY <2>2 DEF r, x
<1> HIDE DEF Fits
<1>4. \A axis \in DOMAIN shape : K[axis] \in 1..n(axis) /\ Fits(axis, K[axis])
  BY <1>3
<1> HIDE DEF K
<1>5. \A i \in DOMAIN layout.axes :
         pos[i] \in DOMAIN shape /\ i \in AxisOf(layout, shape, pos[i])
  BY TiledAxes
<1> HIDE DEF pos
<1>6. \A i \in DOMAIN layout.axes :
         /\ n(pos[i]) = layout.axes[i].partitions
         /\ \A t : at(pos[i], t) = TileCoordinate(layout, t)[i]
  <2> SUFFICES ASSUME NEW i \in DOMAIN layout.axes, NEW t
               PROVE  n(pos[i]) = layout.axes[i].partitions /\ at(pos[i], t) = TileCoordinate(layout, t)[i]
    OBVIOUS
  <2>1. n(pos[i]) = layout.axes[i].partitions /\ res(pos[i]).stride = AxisStride(layout, i)
    BY <1>2, <1>5
  <2>2. TileCoordinate(layout, t)[i] = (t \div AxisStride(layout, i)) % layout.axes[i].partitions
    BY DEF TileCoordinate
  <2> HIDE DEF res, n
  <2> QED BY <2>1, <2>2
<1> HIDE DEF n, at
<1>7. IsCoordinate(layout, v)
  <2>1. \A i \in DOMAIN layout.axes : v[i] \in Nat /\ v[i] < layout.axes[i].partitions
    <3> SUFFICES ASSUME NEW i \in DOMAIN layout.axes
                 PROVE  K[pos[i]] - 1 \in Nat /\ K[pos[i]] - 1 < layout.axes[i].partitions
      OBVIOUS
    <3>1. K[pos[i]] \in 1..n(pos[i]) /\ n(pos[i]) = layout.axes[i].partitions
      BY <1>4, <1>5, <1>6
    <3>2. n(pos[i]) \in Nat
      BY <1>2, <1>5
    <3> QED BY <3>1, <3>2
  <2> QED BY <2>1 DEF IsCoordinate
<1>8. ASSUME NEW t \in Nat PROVE Holds(ShardAt(layout, shape, t), c) <=> TileCoordinate(layout, t) = v
  <2>1. Holds(ShardAt(layout, shape, t), c) <=> \A axis \in DOMAIN shape : In(axis, t)
    BY DEF Holds, ShardAt
  <2>2. \A axis \in DOMAIN shape : In(axis, t) <=> at(axis, t) = K[axis] - 1
    BY <1>4 DEF Fits
  <2>3. TileCoordinate(layout, t) = v <=> \A i \in DOMAIN layout.axes : TileCoordinate(layout, t)[i] = v[i]
    <3>1. TileCoordinate(layout, t) = [i \in DOMAIN layout.axes |->
             (t \div AxisStride(layout, i)) % layout.axes[i].partitions]
      BY DEF TileCoordinate
    <3> QED BY <3>1
  <2>4. \A i \in DOMAIN layout.axes : TileCoordinate(layout, t)[i] = v[i]
                                        <=> at(pos[i], t) = K[pos[i]] - 1
    BY <1>6
  <2>5. ASSUME NEW axis \in DOMAIN shape, \A i \in DOMAIN layout.axes : axis # pos[i]
        PROVE  at(axis, t) = K[axis] - 1
    <3>1. AxisOf(layout, shape, axis) = {}
      BY <2>5 DEF AxisOf, pos
    <3>2. n(axis) = 1 /\ K[axis] \in 1..n(axis) /\ res(axis).stride \in Nat \ {0}
      BY <1>2, <1>4, <3>1
    <3>3. t \div res(axis).stride \in Nat
      BY <3>2, DivMod
    <3>4. at(axis, t) \in 0..(1 - 1)
      BY <3>2, <3>3, DivMod DEF at
    <3> QED BY <3>2, <3>4
  <2> QED BY <1>5, <2>1, <2>2, <2>3, <2>4, <2>5
<1> HIDE DEF v
<1> QED BY <1>7, <1>8

-----------------------------------------------------------------------------
(* Counting tiles *)

\* A number r made into the number whose quotient by b has the remainder V by Q.
Spread(b, Q, V, r) == ((r \div b) * Q + V) * b + (r % b)

IsSpread(b, Q, V, r, t) ==
  /\ t \in Nat /\ t % b = r % b
  /\ (t \div b) % Q = V /\ (t \div b) \div Q = r \div b
  /\ t < ((r \div b) + 1) * (b * Q)

\* What such a number is divided by b, and by Q after.
LEMMA SpreadIs ==
  ASSUME NEW b \in Nat \ {0}, NEW Q \in Nat \ {0}, NEW V \in 0..(Q - 1), NEW r \in Nat
  PROVE  IsSpread(b, Q, V, r, Spread(b, Q, V, r))
<1> DEFINE a == r \div b
           e == r % b
           u == a * Q + V
           t == Spread(b, Q, V, r)
<1>1. a \in Nat /\ e \in 0..(b - 1)
  BY DivMod
<1>2. t = u * b + e
  BY DEF Spread
<1> HIDE DEF a, e, t
<1>3. u \in Nat /\ u \div Q = a /\ u % Q = V
  BY <1>1, QuotientIs
<1>4. u + 1 <= (a + 1) * Q
  BY <1>1
<1> DEFINE w == (a + 1) * Q
<1>5. w \in Nat
  BY <1>1
<1>6. w * b = (a + 1) * (b * Q)
  BY <1>1
<1> HIDE DEF u, w
<1>7. t \in Nat /\ t \div b = u /\ t % b = e
  BY <1>1, <1>2, <1>3, QuotientIs
<1>8. (u + 1) * b <= w * b
  <2>1. u + 1 \in Nat /\ u + 1 <= w /\ b \in Nat
    BY <1>3, <1>4 DEF w
  <2> QED BY <2>1, <1>5, ProductsGrow
<1>9. t < (u + 1) * b
  <2>1. (u + 1) * b = u * b + b /\ u * b \in Nat
    BY <1>3
  <2> QED BY <2>1, <1>1, <1>2
<1>10. (u + 1) * b \in Nat /\ w * b \in Nat
  BY <1>3, <1>5
<1>11. t < (a + 1) * (b * Q)
  BY <1>6, <1>7, <1>8, <1>9, <1>10
<1> QED BY <1>3, <1>7, <1>11 DEF a, e, t, u, IsSpread

\* Of the first m * b * Q numbers, m * b have a quotient by b with the remainder V.
LEMMA CountOfARemainder ==
  ASSUME NEW b \in Nat \ {0}, NEW Q \in Nat \ {0}, NEW V \in 0..(Q - 1), NEW m \in Nat \ {0}
  PROVE  Cardinality({t \in 0..((m * b) * Q - 1) : (t \div b) % Q = V}) = m * b
<1> DEFINE top == (m * b) * Q
           R == 0..(m * b - 1)
           S == {t \in 0..(top - 1) : (t \div b) % Q = V}
           h == [r \in R |-> Spread(b, Q, V, r)]
<1>1. m * b \in Nat \ {0} /\ top \in Nat \ {0} /\ top = m * (b * Q) /\ b * Q \in Nat
  <2>1. m * b \in Nat \ {0} /\ b * Q \in Nat
    BY DigitSplit
  <2>2. top \in Nat \ {0}
    <3> DEFINE mb == m * b
    <3>1. mb \in Nat \ {0}
      BY <2>1
    <3> HIDE DEF mb
    <3>2. mb * Q \in Nat \ {0}
      BY <3>1, DigitSplit
    <3> QED BY <3>2 DEF mb
  <2> QED BY <2>1, <2>2
<1>2. \A r \in R : r \in Nat /\ r \div b \in Nat /\ (r \div b) + 1 <= m
  <2> SUFFICES ASSUME NEW r \in R PROVE r \in Nat /\ r \div b \in Nat /\ (r \div b) + 1 <= m
    OBVIOUS
  <2> DEFINE a == r \div b
             e == r % b
  <2>0. r \in Nat
    BY <1>1
  <2>1. r \in Nat /\ a \in Nat /\ e \in 0..(b - 1) /\ r = a * b + e
    BY <2>0, DivMod
  <2>2. r < m * b
    BY <1>1
  <2> HIDE DEF a, e
  <2>3. SUFFICES ASSUME m <= a PROVE FALSE
    BY <2>1 DEF a
  <2>4. m * b <= a * b
    <3>1. m \in Nat /\ b \in Nat
      OBVIOUS
    <3> QED BY <2>1, <2>3, <3>1, ProductsGrow
  <2>5. a * b \in Nat
    BY <2>1
  <2> QED BY <2>1, <2>2, <2>4, <2>5, <1>1
<1>3. h \in [R -> S]
  <2>1. ASSUME NEW r \in R PROVE Spread(b, Q, V, r) \in S
    <3> DEFINE t == Spread(b, Q, V, r)
               a == r \div b
    <3>0. r \in Nat
      BY <1>2
    <3>1. t \in Nat /\ (t \div b) % Q = V /\ t < (a + 1) * (b * Q)
      <4>1. IsSpread(b, Q, V, r, t)
        BY <3>0, SpreadIs
      <4> HIDE DEF t
      <4> QED BY <4>1 DEF IsSpread
    <3>2. a \in Nat /\ a + 1 <= m
      BY <1>2
    <3> HIDE DEF t, a
    <3>3. (a + 1) * (b * Q) <= m * (b * Q)
      <4> DEFINE bq == b * Q
      <4>1. bq \in Nat /\ a + 1 \in Nat /\ m \in Nat
        BY <1>1, <3>2
      <4> HIDE DEF bq
      <4>2. (a + 1) * bq <= m * bq
        BY <4>1, <3>2, ProductsGrow
      <4> QED BY <4>2 DEF bq
    <3>4. (a + 1) * (b * Q) \in Int
      BY <3>2
    <3>5. t < top
      <4> HIDE DEF top
      <4> QED BY <1>1, <3>1, <3>3, <3>4
    <3> HIDE DEF top
    <3>6. t \in 0..(top - 1)
      BY <1>1, <3>1, <3>5
    <3> QED BY <3>1, <3>6 DEF t
  <2> QED BY <2>1
<1>4. ASSUME NEW r \in R, NEW s \in R, h[r] = h[s] PROVE r = s
  <2>1. r \in Nat /\ s \in Nat /\ h[r] = Spread(b, Q, V, r) /\ h[s] = Spread(b, Q, V, s)
    BY <1>2
  <2>2. /\ h[r] % b = r % b /\ (h[r] \div b) \div Q = r \div b
        /\ h[s] % b = s % b /\ (h[s] \div b) \div Q = s \div b
    <3> HIDE DEF R, h
    <3>1. IsSpread(b, Q, V, r, h[r]) /\ IsSpread(b, Q, V, s, h[s])
      BY <2>1, SpreadIs
    <3> QED BY <3>1 DEF IsSpread
  <2>3. r = (r \div b) * b + (r % b) /\ s = (s \div b) * b + (s % b)
    BY <2>1, DivMod
  <2> QED BY <1>4, <2>2, <2>3
<1>5. ASSUME NEW t \in S PROVE \E r \in R : h[r] = t
  <2> DEFINE u == t \div b
             e == t % b
             a == u \div Q
  <2>1. t \in Nat /\ t < top /\ u % Q = V
    BY <1>1
  <2>2. u \in Nat /\ e \in 0..(b - 1) /\ t = u * b + e
    BY <2>1, DivMod
  <2> HIDE DEF u, e, S, top
  <2>3. a \in Nat /\ u = a * Q + V
    BY <2>1, <2>2, DivMod
  <2> HIDE DEF a
  <2>4. a + 1 <= m
    <3>1. SUFFICES ASSUME m <= a PROVE FALSE
      BY <2>3
    <3>2. m * Q <= a * Q /\ m * Q \in Nat /\ a * Q \in Nat
      <4>1. m \in Nat /\ Q \in Nat
        OBVIOUS
      <4> QED BY <4>1, <2>3, <3>1, ProductsGrow
    <3>3. m * Q <= u
      BY <2>3, <3>2
    <3>4. (m * Q) * b <= u * b /\ u * b \in Nat
      <4> DEFINE mq == m * Q
      <4>1. mq \in Nat /\ b \in Nat
        BY <3>2
      <4> HIDE DEF mq
      <4>2. mq <= u
        BY <3>3 DEF mq
      <4>3. mq * b <= u * b
        BY <4>1, <4>2, <2>2, ProductsGrow
      <4> QED BY <4>3, <2>2 DEF mq
    <3>5. (m * Q) * b = top
      BY DEF top
    <3> QED BY <3>4, <3>5, <2>1, <2>2, <1>1
  <2> DEFINE r == a * b + e
  <2>5. r \in Nat /\ r \div b = a /\ r % b = e
    BY <2>2, <2>3, QuotientIs
  <2>6. r \in R
    <3>1. (a + 1) * b <= m * b
      <4>1. a + 1 \in Nat /\ m \in Nat /\ b \in Nat
        BY <2>3
      <4> QED BY <4>1, <2>4, ProductsGrow
    <3>2. (a + 1) * b = a * b + b /\ a * b \in Nat
      BY <2>3
    <3>3. r < m * b
      BY <1>1, <2>2, <3>1, <3>2
    <3> HIDE DEF r
    <3> QED BY <1>1, <2>5, <3>3
  <2>7. Spread(b, Q, V, r) = t
    <3> HIDE DEF r
    <3> QED BY <2>2, <2>3, <2>5 DEF Spread
  <2> QED BY <2>6, <2>7
<1>6. h \in Bijection(R, S)
  <2> HIDE DEF h, R, S
  <2> QED BY <1>3, <1>4, <1>5, Fun_IsBij
<1>7. IsFiniteSet(R) /\ Cardinality(R) = m * b
  <2> DEFINE mb == m * b
  <2>1. mb \in Nat \ {0}
    BY <1>1
  <2> HIDE DEF mb
  <2>2. IsFiniteSet(0..(mb - 1)) /\ Cardinality(0..(mb - 1)) = mb
    <3>1. 0 \in Int /\ mb - 1 \in Int /\ ~ (0 > mb - 1) /\ (mb - 1) - 0 + 1 = mb
      BY <2>1
    <3> QED BY <3>1, FS_Interval
  <2> QED BY <2>2 DEF mb
<1> HIDE DEF h, R, S
<1>8. Cardinality(S) = Cardinality(R)
  <2>1. ExistsBijection(R, S)
    BY <1>6 DEF ExistsBijection
  <2> QED BY <2>1, <1>7, FS_Bijection
<1> QED BY <1>7, <1>8 DEF S

-----------------------------------------------------------------------------
(* Regular mappings: strides are the places of the digits of a tile number *)

DigitsOf(layout) ==
  {<<AxisStride(layout, i), i>> : i \in {j \in DOMAIN layout.axes : layout.axes[j].partitions > 1}}

DigitsBefore(layout, d) ==
  {e \in DigitsOf(layout) :
     \/ e[1] < d[1]
     \/ e[1] = d[1] /\ layout.axes[e[2]].partitions < layout.axes[d[2]].partitions
     \/ e[1] = d[1] /\ layout.axes[e[2]].partitions = layout.axes[d[2]].partitions /\ e[2] < d[2]}

DigitProduct(layout, base, s) == FoldSet(LAMBDA e, p : p * layout.axes[e[2]].partitions, base, s)

Radices(layout) == [d \in DigitsOf(layout) |-> layout.axes[d[2]].partitions]

IsDivided(layout) ==
  \A i \in DOMAIN layout.axes : layout.axes[i].partitions # 0 /\ AxisStride(layout, i) # 0

\* What RegularMapping asks, in these words.
LEMMA RegularMappingAsks ==
  ASSUME NEW layout, RegularMapping(layout), DigitsOf(layout) # {}
  PROVE  LET base == Min({d[1] : d \in DigitsOf(layout)})
         IN  /\ Divides(base, layout.replicas)
             /\ \A d \in DigitsOf(layout) :
                   d[1] = DigitProduct(layout, base, DigitsBefore(layout, d))
BY Zenon DEF RegularMapping, DigitsOf, DigitsBefore, DigitProduct

\* The digits of a layout: its axes of several partitions, with their strides.
LEMMA DigitsOfALayout ==
  ASSUME NEW layout, IsLayout(layout), IsDivided(layout)
  PROVE  /\ IsFiniteSet(DigitsOf(layout))
         /\ \A d \in DigitsOf(layout) :
               /\ d = <<d[1], d[2]>> /\ d[1] = AxisStride(layout, d[2])
               /\ d[1] \in Nat \ {0} /\ d[2] \in DOMAIN layout.axes /\ d[2] \in Nat
               /\ layout.axes[d[2]].partitions \in Nat \ {0}
               /\ layout.axes[d[2]].partitions > 1
         /\ Radices(layout) \in [DigitsOf(layout) -> Nat \ {0}]
<1> DEFINE J == {j \in DOMAIN layout.axes : layout.axes[j].partitions > 1}
           D == DigitsOf(layout)
           f == [i \in J |-> <<AxisStride(layout, i), i>>]
<1>1. IsFiniteSet(J)
  <2>1. IsFiniteSet(DOMAIN layout.axes)
    <3>1. DOMAIN layout.axes = 1..Len(layout.axes) /\ Len(layout.axes) \in Int /\ 1 \in Int
      BY AxesOfALayout
    <3>2. IsFiniteSet(1..Len(layout.axes))
      BY <3>1, FS_Interval
    <3> QED BY <3>1, <3>2
  <2>2. J \in SUBSET (DOMAIN layout.axes)
    OBVIOUS
  <2> QED BY <2>1, <2>2, FS_Subset
<1>2. f \in Surjection(J, D)
  BY DEF Surjection, DigitsOf
<1>3. IsFiniteSet(D)
  <2> HIDE DEF f, J, D
  <2> QED BY <1>1, <1>2, FS_Surjection
<1>4. ASSUME NEW d \in D
      PROVE  /\ d = <<d[1], d[2]>> /\ d[1] = AxisStride(layout, d[2])
             /\ d[1] \in Nat \ {0} /\ d[2] \in DOMAIN layout.axes /\ d[2] \in Nat
             /\ layout.axes[d[2]].partitions \in Nat \ {0}
             /\ layout.axes[d[2]].partitions > 1
  <2>1. PICK i \in DOMAIN layout.axes :
           d = <<AxisStride(layout, i), i>> /\ layout.axes[i].partitions > 1
    BY DEF DigitsOf
  <2>2. AxisStride(layout, i) \in Nat /\ i \in Nat /\ layout.axes[i].partitions \in Nat
    <3>1. layout.axes[i] \in AxisTilings /\ i \in Nat
      BY AxesOfALayout
    <3>2. AxisStride(layout, i) \in Nat
      BY StridesOfALayout
    <3> QED BY <3>1, <3>2 DEF AxisTilings
  <2>3. AxisStride(layout, i) # 0 /\ layout.axes[i].partitions # 0
    BY DEF IsDivided
  <2> QED BY <2>1, <2>2, <2>3
<1>5. Radices(layout) \in [DigitsOf(layout) -> Nat \ {0}]
  BY <1>4 DEF Radices
<1> HIDE DEF D
<1> QED BY <1>3, <1>4, <1>5 DEF D

\* Digits are ordered by their strides, their radices and their axes.
LEMMA DigitsAreOrdered ==
  ASSUME NEW layout, IsLayout(layout), IsDivided(layout)
  PROVE  Ordered(DigitsOf(layout), [d \in DigitsOf(layout) |-> DigitsBefore(layout, d)])
<1> DEFINE D == DigitsOf(layout)
           r == Radices(layout)
           before == [d \in D |-> DigitsBefore(layout, d)]
           Less(e, d) == \/ e[1] < d[1]
                         \/ e[1] = d[1] /\ r[e] < r[d]
                         \/ e[1] = d[1] /\ r[e] = r[d] /\ e[2] < d[2]
<1>1. \A d \in D : d = <<d[1], d[2]>> /\ d[1] \in Nat /\ d[2] \in Nat /\ r[d] \in Nat
                   /\ r[d] = layout.axes[d[2]].partitions
  <2>1. \A d \in D : d = <<d[1], d[2]>> /\ d[1] \in Nat /\ d[2] \in Nat
    BY DigitsOfALayout
  <2>2. \A d \in D : r[d] \in Nat
    BY DigitsOfALayout
  <2>3. \A d \in D : r[d] = layout.axes[d[2]].partitions
    BY DEF Radices
  <2> QED BY <2>1, <2>2, <2>3
<1>2. \A d \in D : before[d] = {e \in D : Less(e, d)}
  <2> SUFFICES ASSUME NEW d \in D PROVE DigitsBefore(layout, d) = {e \in D : Less(e, d)}
    OBVIOUS
  <2>1. \A e \in D : r[e] = layout.axes[e[2]].partitions /\ r[d] = layout.axes[d[2]].partitions
    BY <1>1
  <2> HIDE DEF r
  <2> QED BY <2>1 DEF DigitsBefore
<1>3. before \in [D -> SUBSET D]
  BY DEF DigitsBefore
<1> HIDE DEF D, before, r
<1>4. \A d \in D : ~ Less(d, d)
  BY <1>1
<1>5. \A c, d, e \in D : Less(c, d) /\ Less(d, e) => Less(c, e)
  BY <1>1
<1>6. \A d, e \in D : d # e => Less(e, d) \/ Less(d, e)
  <2> SUFFICES ASSUME NEW d \in D, NEW e \in D, ~ Less(e, d), ~ Less(d, e) PROVE d = e
    OBVIOUS
  <2>1. d[1] \in Nat /\ e[1] \in Nat /\ r[d] \in Nat /\ r[e] \in Nat /\ d[2] \in Nat /\ e[2] \in Nat
    BY <1>1
  <2>2. d[1] = e[1] /\ d[2] = e[2]
    BY <2>1
  <2> QED BY <1>1, <2>2
<1> HIDE DEF Less
<1>7. Ordered(D, before)
  BY <1>2, <1>3, <1>4, <1>5, <1>6 DEF Ordered
<1> QED BY <1>7 DEF D, before

\* A fold over digits takes the product of their radices.
LEMMA DigitProductIs ==
  ASSUME NEW layout, IsLayout(layout), IsDivided(layout), NEW base \in Nat,
         NEW F \in Products(base, Radices(layout), DigitsOf(layout)),
         NEW T \in SUBSET DigitsOf(layout)
  PROVE  DigitProduct(layout, base, T) = F[T]
<1> DEFINE D == DigitsOf(layout)
           r == Radices(layout)
           Chosen(s) == CHOOSE x \in s : TRUE
           Step(I) == [s \in SUBSET T |->
                         IF s = {} THEN base
                         ELSE I[s \ {Chosen(s)}] * layout.axes[Chosen(s)[2]].partitions]
           fold == CHOOSE I : I = Step(I)
           ch == [s \in SUBSET T |-> Chosen(s)]
<1>1. IsFiniteSet(D) /\ r \in [D -> Nat]
  <2>1. Radices(layout) \in [DigitsOf(layout) -> Nat \ {0}]
    BY DigitsOfALayout
  <2>2. Radices(layout) \in [DigitsOf(layout) -> Nat]
    BY <2>1
  <2> QED BY <2>2, DigitsOfALayout
<1>2. \A s \in SUBSET T : s # {} => Chosen(s) \in s /\ r[Chosen(s)] = layout.axes[Chosen(s)[2]].partitions
  <2>1. \A d \in T : r[d] = layout.axes[d[2]].partitions
    BY DEF Radices
  <2>2. \A s \in SUBSET T : s # {} => Chosen(s) \in s
    OBVIOUS
  <2> HIDE DEF Chosen, r
  <2> QED BY <2>1, <2>2
<1>3. F \in [SUBSET D -> Nat] /\ F[{}] = base
      /\ \A s \in SUBSET D : \A x \in s : F[s] = F[s \ {x}] * r[x]
  BY DEF Products
<1> HIDE DEF D, r, Chosen
<1> DEFINE H == [s \in SUBSET T |-> F[s]]
<1>4. H = Step(H)
  <2>0. T \in SUBSET D
    BY DEF D
  <2>1. ASSUME NEW s \in SUBSET T, s # {}
        PROVE  F[s] = F[s \ {Chosen(s)}] * layout.axes[Chosen(s)[2]].partitions
    <3>1. s \in SUBSET D /\ Chosen(s) \in s /\ r[Chosen(s)] = layout.axes[Chosen(s)[2]].partitions
      BY <2>0, <2>1, <1>2
    <3>2. F[s] = F[s \ {Chosen(s)}] * r[Chosen(s)]
      BY <3>1, <1>3
    <3> QED BY <3>1, <3>2
  <2>2. \A s \in SUBSET T : s \ {Chosen(s)} \in SUBSET T
    OBVIOUS
  <2> QED BY <2>1, <2>2, <1>3
<1>5. fold = Step(fold)
  <2> HIDE DEF Step, H
  <2> QED BY <1>4
<1>6. DigitProduct(layout, base, T) = fold[T]
  BY Zenon DEF DigitProduct, FoldSet, MapThenFoldSet, Chosen
<1> HIDE DEF fold
<1>7. \A s \in SUBSET T : fold[s] = IF s = {} THEN base ELSE fold[s \ {ch[s]}] * r[ch[s]]
  <2>1. \A s \in SUBSET T : fold[s] = IF s = {} THEN base
                                      ELSE fold[s \ {Chosen(s)}] * layout.axes[Chosen(s)[2]].partitions
    BY <1>5
  <2>2. \A s \in SUBSET T : ch[s] = Chosen(s)
    OBVIOUS
  <2> HIDE DEF ch
  <2> QED BY <2>1, <2>2, <1>2
<1>8. \A s \in SUBSET T : s # {} => ch[s] \in s
  BY <1>2
<1> HIDE DEF ch
<1>9. FoldsBy(fold, ch, base, r, T)
  BY <1>7, <1>8 DEF FoldsBy
<1>10. F \in Products(base, r, D) /\ T \in SUBSET D
  BY DEF r, D
<1>11. fold[T] = F[T]
  BY <1>1, <1>9, <1>10, FoldIsProduct
<1> QED BY <1>6, <1>11

\* A factor common to all products.
LEMMA ScaledProducts ==
  ASSUME NEW b \in Nat, NEW D, NEW f \in [D -> Nat], NEW G \in Products(1, f, D)
  PROVE  [s \in SUBSET D |-> b * G[s]] \in Products(b, f, D)
<1> DEFINE H == [s \in SUBSET D |-> b * G[s]]
<1>1. G \in [SUBSET D -> Nat] /\ G[{}] = 1
      /\ \A s \in SUBSET D : \A x \in s : G[s] = G[s \ {x}] * f[x]
  BY DEF Products
<1>2. \A s \in SUBSET D : G[s] \in Nat /\ H[s] = b * G[s]
  BY <1>1
<1>3. \A m, n \in Nat : m * n \in Nat /\ \A k \in Nat : b * (m * n) = (b * m) * n
  OBVIOUS
<1>4. H \in [SUBSET D -> Nat]
  <2>1. \A s \in SUBSET D : b * G[s] \in Nat
    BY <1>2, <1>3
  <2> QED BY <2>1
<1>5. H[{}] = b
  BY <1>1, <1>2
<1>6. ASSUME NEW s \in SUBSET D, NEW x \in s PROVE H[s] = H[s \ {x}] * f[x]
  <2> HIDE DEF H
  <2>1. s \ {x} \in SUBSET D /\ f[x] \in Nat
    OBVIOUS
  <2>2. G[s \ {x}] \in Nat /\ H[s \ {x}] = b * G[s \ {x}] /\ H[s] = b * (G[s \ {x}] * f[x])
    BY <1>1, <1>2, <2>1
  <2>3. b * (G[s \ {x}] * f[x]) = (b * G[s \ {x}]) * f[x]
    BY <1>3, <2>1, <2>2
  <2> QED BY <2>2, <2>3
<1> HIDE DEF H
<1>7. H \in Products(b, f, D)
  BY <1>4, <1>5, <1>6 DEF Products
<1> QED BY <1>7 DEF H

\* The tiles of a layout: its replicas times the product of its digits' radices.
LEMMA TilesAreDigits ==
  ASSUME NEW layout, IsLayout(layout), IsDivided(layout),
         NEW G \in Products(1, Radices(layout), DigitsOf(layout))
  PROVE  PartsProduct(layout.replicas, layout.axes) = layout.replicas * G[DigitsOf(layout)]
<1> DEFINE D == DigitsOf(layout)
           r == Radices(layout)
           R == layout.replicas
           n == Len(layout.axes)
           f == PartsOf(layout)
           dig(i) == <<AxisStride(layout, i), i>>
           Of(s) == {dig(i) : i \in {j \in s : f[j] > 1}}
           F == [s \in SUBSET (1..n) |-> R * G[Of(s)]]
<1>1. /\ n \in Nat /\ DOMAIN layout.axes = 1..n /\ f \in [1..n -> Nat]
      /\ \A i \in 1..n : f[i] = layout.axes[i].partitions /\ f[i] # 0
      /\ R \in Nat
  BY AxesOfALayout DEF IsLayout, PartsOf, IsDivided
<1>2. /\ G \in [SUBSET D -> Nat] /\ G[{}] = 1
      /\ \A s \in SUBSET D : \A x \in s : G[s] = G[s \ {x}] * r[x]
  BY DEF Products
<1>3. D = Of(1..n)
  BY <1>1 DEF DigitsOf
<1>4. \A i \in 1..n : f[i] > 1 => dig(i) \in D /\ r[dig(i)] = f[i]
  <2> SUFFICES ASSUME NEW i \in 1..n, f[i] > 1 PROVE dig(i) \in D /\ r[dig(i)] = f[i]
    OBVIOUS
  <2>1. dig(i) \in D
    BY <1>3
  <2>2. dig(i)[2] = i
    OBVIOUS
  <2> QED BY <2>1, <2>2, <1>1 DEF Radices
<1>5. \A i, j \in 1..n : dig(i) = dig(j) => i = j
  OBVIOUS
<1> HIDE DEF D, r, R, n, f, dig
<1>6. \A s \in SUBSET (1..n) : Of(s) \in SUBSET D
  BY <1>4
<1>7. \A s \in SUBSET (1..n) : G[Of(s)] \in Nat /\ F[s] = R * G[Of(s)]
  <2> HIDE DEF Of
  <2> QED BY <1>2, <1>6
<1>8. ASSUME NEW s \in SUBSET (1..n), NEW x \in s PROVE F[s] = F[s \ {x}] * f[x]
  <2>0. /\ s \ {x} \in SUBSET (1..n) /\ x \in 1..n /\ f[x] \in Nat /\ f[x] # 0
        /\ F[s] = R * G[Of(s)] /\ F[s \ {x}] = R * G[Of(s \ {x})]
        /\ G[Of(s)] \in Nat /\ G[Of(s \ {x})] \in Nat
    BY <1>1, <1>7
  <2> HIDE DEF F
  <2>1. CASE f[x] > 1
    <3>1. Of(s) \ {dig(x)} = Of(s \ {x})
      BY <1>5, <2>0
    <3>2. dig(x) \in Of(s)
      BY <2>1
    <3> HIDE DEF Of
    <3>3. G[Of(s)] = G[Of(s) \ {dig(x)}] * r[dig(x)]
      BY <1>2, <1>6, <3>2
    <3>4. G[Of(s)] = G[Of(s \ {x})] * f[x]
      BY <1>4, <2>0, <2>1, <3>1, <3>3
    <3> DEFINE g == G[Of(s \ {x})]
    <3>5. R * (g * f[x]) = (R * g) * f[x]
      <4>1. R \in Nat /\ g \in Nat /\ f[x] \in Nat
        BY <1>1, <2>0
      <4> HIDE DEF g
      <4> QED BY <4>1
    <3> QED BY <2>0, <3>4, <3>5
  <2>2. CASE ~ (f[x] > 1)
    <3>1. f[x] = 1
      BY <2>0, <2>2
    <3>2. Of(s \ {x}) = Of(s)
      BY <2>2
    <3>3. \A m \in Nat : m * 1 = m
      OBVIOUS
    <3>4. R * G[Of(s)] \in Nat
      BY <2>0, <1>1
    <3> QED BY <2>0, <3>1, <3>2, <3>3, <3>4
  <2> QED BY <2>1, <2>2
<1>9. F \in [SUBSET (1..n) -> Nat]
  <2> HIDE DEF Of
  <2>1. ASSUME NEW s \in SUBSET (1..n) PROVE R * G[Of(s)] \in Nat
    <3> DEFINE g == G[Of(s)]
    <3>1. g \in Nat /\ R \in Nat
      BY <1>1, <1>7
    <3> HIDE DEF g
    <3>2. R * g \in Nat
      BY <3>1
    <3> QED BY <3>2 DEF g
  <2> QED BY <2>1
<1>10. F[{}] = R
  <2>1. Of({}) = {}
    OBVIOUS
  <2>2. F[{}] = R * G[Of({})]
    BY <1>7
  <2>3. R * 1 = R
    BY <1>1
  <2> HIDE DEF F, Of
  <2>4. F[{}] = R * G[{}]
    BY <2>1, <2>2
  <2> QED BY <1>2, <2>3, <2>4
<1> HIDE DEF F
<1>11. F \in Products(R, f, 1..n)
  BY <1>8, <1>9, <1>10 DEF Products
<1>12. PartsProduct(R, layout.axes) = F[1..n]
  BY <1>1, <1>11, FoldLeftOfParts
<1>13. F[1..n] = R * G[D]
  BY <1>3, <1>7
<1> QED BY <1>12, <1>13 DEF R, D

\* The strides of a regular mapping are the places of its digits.
LEMMA PlacesOfTheDigits ==
  ASSUME NEW layout, IsLayout(layout), IsDivided(layout), RegularMapping(layout),
         layout.replicas # 0,
         NEW G \in Products(1, Radices(layout), DigitsOf(layout))
  PROVE  \E b, m \in Nat \ {0} :
            /\ layout.replicas = m * b
            /\ \A d \in DigitsOf(layout) : d[1] = b * G[DigitsBefore(layout, d)]
<1> DEFINE D == DigitsOf(layout)
           r == Radices(layout)
           R == layout.replicas
           strides == {d[1] : d \in D}
           b == Min(strides)
<1>1. R \in Nat \ {0}
  BY DEF IsLayout
<1>2. CASE D = {}
  <2>1. 1 \in Nat \ {0} /\ R = R * 1
    BY <1>1
  <2> QED BY <1>1, <1>2, <2>1
<1>3. CASE D # {}
  <2>1. /\ Divides(b, R)
        /\ \A d \in D : d[1] = DigitProduct(layout, b, DigitsBefore(layout, d))
    BY <1>3, RegularMappingAsks
  <2>2. b \in Nat \ {0}
    <3>1. strides \subseteq Nat /\ strides # {} /\ 0 \notin strides
      BY <1>3, DigitsOfALayout
    <3>2. \E x \in strides : \A y \in strides : x <= y
      BY <3>1, LeastOf
    <3> HIDE DEF strides
    <3>3. b \in strides
      BY <3>2 DEF Min
    <3> QED BY <3>1, <3>3
  <2> HIDE DEF b
  <2> DEFINE F == [s \in SUBSET D |-> b * G[s]]
  <2>3. F \in Products(b, r, D)
    <3>1. r \in [D -> Nat]
      BY DigitsOfALayout
    <3> HIDE DEF r, D
    <3>2. G \in Products(1, r, D) /\ b \in Nat
      BY <2>2 DEF r, D
    <3> QED BY <3>1, <3>2, ScaledProducts
  <2>4. \A d \in D : d[1] = b * G[DigitsBefore(layout, d)]
    <3> SUFFICES ASSUME NEW d \in D PROVE d[1] = b * G[DigitsBefore(layout, d)]
      OBVIOUS
    <3>1. DigitsBefore(layout, d) \in SUBSET D
      BY DEF DigitsBefore
    <3>2. b \in Nat
      BY <2>2
    <3> HIDE DEF F
    <3>3. DigitProduct(layout, b, DigitsBefore(layout, d)) = F[DigitsBefore(layout, d)]
      BY <2>3, <3>1, <3>2, DigitProductIs
    <3> QED BY <2>1, <3>1, <3>3 DEF F
  <2> DEFINE m == R \div b
  <2>5. m \in Nat /\ R = m * b
    BY <1>1, <2>1, <2>2, Multiples
  <2>6. m # 0
    <3> HIDE DEF m
    <3>1. 0 * b = 0
      BY <2>2
    <3> QED BY <1>1, <2>5, <3>1
  <2> HIDE DEF m
  <2>7. m \in Nat \ {0}
    BY <2>5, <2>6
  <2> QED BY <2>2, <2>4, <2>5, <2>7
<1> QED BY <1>2, <1>3

Tiles(layout) == 0..(layout.tiles - 1)
TilesAt(layout, v) == {t \in Tiles(layout) : TileCoordinate(layout, t) = v}

\* What a tiled layout gives: positive counts, and its tiles are all of its parts.
LEMMA TiledLayout ==
  ASSUME NEW layout, NEW shape, IsLayout(layout), IsShape(shape), Tiled(layout, shape)
  PROVE  /\ IsDivided(layout)
         /\ layout.tiles = PartsProduct(layout.replicas, layout.axes)
         /\ RegularMapping(layout) \/ EveryCoordinateHeld(layout)
<1>1. \A i \in DOMAIN layout.axes : layout.axes[i].partitions # 0 /\ AxisStride(layout, i) # 0
  <2> SUFFICES ASSUME NEW i \in DOMAIN layout.axes
               PROVE  layout.axes[i].partitions # 0 /\ AxisStride(layout, i) # 0
    OBVIOUS
  <2>1. PICK axis \in DOMAIN shape : i \in AxisOf(layout, shape, axis)
    BY TiledAxes
  <2> QED BY <2>1, AxisIsTiledOnce DEF AxisAccepts
<1>2. /\ layout.tiles = PartsProduct(layout.replicas, layout.axes)
      /\ RegularMapping(layout) \/ EveryCoordinateHeld(layout)
  BY Zenon DEF Tiled, PartsProduct
<1> QED BY <1>1, <1>2 DEF IsDivided

\* A regular mapping puts as many tiles at each coordinate as there are replicas.
LEMMA RegularTilesAt ==
  ASSUME NEW layout, IsLayout(layout), IsDivided(layout), RegularMapping(layout),
         layout.replicas # 0, layout.tiles = PartsProduct(layout.replicas, layout.axes),
         NEW v, IsCoordinate(layout, v)
  PROVE  Cardinality(TilesAt(layout, v)) = layout.replicas
<1> DEFINE D == DigitsOf(layout)
           r == Radices(layout)
           before == [d \in D |-> DigitsBefore(layout, d)]
           w == [d \in D |-> v[d[2]]]
<1>1. IsFiniteSet(D) /\ Ordered(D, before) /\ r \in [D -> Nat \ {0}] /\ r \in [D -> Nat]
  <2>1. r \in [D -> Nat \ {0}] /\ IsFiniteSet(D)
    BY DigitsOfALayout
  <2>2. r \in [D -> Nat]
    BY <2>1
  <2> QED BY <2>1, <2>2, DigitsAreOrdered
<1>2. w \in [D -> Nat] /\ \A d \in D : w[d] < r[d]
  <2>1. \A d \in D : v[d[2]] \in Nat /\ v[d[2]] < layout.axes[d[2]].partitions
    BY DigitsOfALayout DEF IsCoordinate
  <2> QED BY <2>1 DEF Radices
<1>3. PICK G : G \in Products(1, r, D)
  <2>1. 1 \in Nat
    OBVIOUS
  <2> HIDE DEF r, D
  <2> QED BY <1>1, <2>1, ProductsExist
<1>4. PICK b \in Nat \ {0}, m \in Nat \ {0} :
         /\ layout.replicas = m * b
         /\ \A d \in D : d[1] = b * G[DigitsBefore(layout, d)]
  BY <1>3, PlacesOfTheDigits
<1> DEFINE Q == G[D]
<1>5. \A s \in SUBSET D : G[s] \in Nat \ {0}
  <2>1. 1 \in Nat \ {0}
    OBVIOUS
  <2> HIDE DEF r, D
  <2> QED BY <1>1, <1>3, <2>1, ProductsArePositive
<1>6. Q \in Nat \ {0}
  BY <1>5
<1>7. PICK V \in 0..(Q - 1) :
         \A u \in Nat : (\A d \in D : (u \div G[before[d]]) % r[d] = w[d]) <=> u % Q = V
  <2> HIDE DEF r, D, before, w
  <2> QED BY <1>1, <1>2, <1>3, DigitsAreARemainder
<1>8. ASSUME NEW t \in Nat
      PROVE  TileCoordinate(layout, t) = v <=> (t \div b) % Q = V
  <2>1. TileCoordinate(layout, t) = v <=> \A i \in DOMAIN layout.axes :
             (t \div AxisStride(layout, i)) % layout.axes[i].partitions = v[i]
    BY DEF TileCoordinate, IsCoordinate
  <2>2. ASSUME NEW i \in DOMAIN layout.axes, ~ (layout.axes[i].partitions > 1)
        PROVE  (t \div AxisStride(layout, i)) % layout.axes[i].partitions = v[i]
    <3>1. layout.axes[i].partitions = 1 /\ v[i] = 0
      <4>1. layout.axes[i].partitions \in Nat
        BY AxesOfALayout DEF AxisTilings
      <4>2. layout.axes[i].partitions = 1
        BY <4>1, <2>2 DEF IsDivided
      <4> QED BY <4>2 DEF IsCoordinate
    <3>2. t \div AxisStride(layout, i) \in Nat
      <4>1. AxisStride(layout, i) \in Nat \ {0}
        BY StridesOfALayout DEF IsDivided
      <4> QED BY <4>1, DivMod
    <3>3. (t \div AxisStride(layout, i)) % 1 \in 0..(1 - 1)
      BY <3>2, DivMod
    <3> QED BY <3>1, <3>3
  <2>3. (\A i \in DOMAIN layout.axes :
             (t \div AxisStride(layout, i)) % layout.axes[i].partitions = v[i])
          <=> \A d \in D : (t \div d[1]) % r[d] = w[d]
    <3>1. \A d \in D : /\ d[2] \in DOMAIN layout.axes /\ d[1] = AxisStride(layout, d[2])
                       /\ r[d] = layout.axes[d[2]].partitions /\ w[d] = v[d[2]]
      BY DigitsOfALayout DEF Radices
    <3>2. \A i \in DOMAIN layout.axes : layout.axes[i].partitions > 1 =>
             \E d \in D : d[2] = i
      <4> SUFFICES ASSUME NEW i \in DOMAIN layout.axes, layout.axes[i].partitions > 1
                   PROVE  \E d \in D : d[2] = i
        OBVIOUS
      <4>1. <<AxisStride(layout, i), i>> \in D
        BY DEF DigitsOf
      <4> QED BY <4>1
    <3> HIDE DEF D, r, w
    <3> QED BY <2>2, <3>1, <3>2
  <2>4. \A d \in D : (t \div d[1]) % r[d] = ((t \div b) \div G[before[d]]) % r[d]
    <3> SUFFICES ASSUME NEW d \in D PROVE t \div d[1] = (t \div b) \div G[before[d]]
      OBVIOUS
    <3> DEFINE g == G[before[d]]
    <3>1. before[d] = DigitsBefore(layout, d) /\ before[d] \in SUBSET D
      BY DEF DigitsBefore
    <3>2. g \in Nat \ {0} /\ d[1] = b * g
      BY <1>4, <1>5, <3>1
    <3> HIDE DEF g
    <3>3. t \div (b * g) = (t \div b) \div g
      BY <3>2, DigitSplit
    <3> QED BY <3>2, <3>3 DEF g
  <2>5. t \div b \in Nat
    BY DivMod
  <2> HIDE DEF D, r, w, before
  <2>6. (\A d \in D : ((t \div b) \div G[before[d]]) % r[d] = w[d]) <=> (t \div b) % Q = V
    BY <1>7, <2>5
  <2> QED BY <2>1, <2>3, <2>4, <2>6
<1>9. layout.tiles = (m * b) * Q
  BY <1>3, <1>4, TilesAreDigits
<1>10. (m * b) * Q \in Nat
  BY <1>6
<1> HIDE DEF Q
<1>11. TilesAt(layout, v) = {t \in 0..((m * b) * Q - 1) : (t \div b) % Q = V}
  <2>1. \A t \in 0..((m * b) * Q - 1) : t \in Nat
    BY <1>10
  <2>2. \A t \in 0..((m * b) * Q - 1) : TileCoordinate(layout, t) = v <=> (t \div b) % Q = V
    BY <2>1, <1>8
  <2> QED BY <1>9, <2>2 DEF TilesAt, Tiles
<1>12. Cardinality({t \in 0..((m * b) * Q - 1) : (t \div b) % Q = V}) = m * b
  BY <1>6, CountOfARemainder
<1> QED BY <1>4, <1>11, <1>12

CoordinatesOf(layout) == {v \in [DOMAIN layout.axes -> Nat] : IsCoordinate(layout, v)}

\* There are no more coordinates than the product of the partitions.
LEMMA CoordinatesAreBounded ==
  ASSUME NEW layout, IsLayout(layout), IsDivided(layout),
         NEW F \in Products(1, PartsOf(layout), 1..Len(layout.axes))
  PROVE  /\ F[1..Len(layout.axes)] \in Nat \ {0}
         /\ IsFiniteSet(CoordinatesOf(layout))
         /\ Cardinality(CoordinatesOf(layout)) <= F[1..Len(layout.axes)]
<1> DEFINE n == Len(layout.axes)
           D == 1..n
           f == PartsOf(layout)
           before == [i \in D |-> 1..(i - 1)]
           Q == F[D]
           Box == CoordinatesOf(layout)
           digit(u, i) == (u \div F[before[i]]) % f[i]
           h == [u \in 0..(Q - 1) |-> [i \in D |-> digit(u, i)]]
<1>1. /\ n \in Nat /\ DOMAIN layout.axes = D /\ f \in [D -> Nat]
      /\ \A i \in D : f[i] = layout.axes[i].partitions
  BY AxesOfALayout DEF PartsOf
<1>2. f \in [D -> Nat \ {0}]
  <2>1. \A i \in D : f[i] \in Nat \ {0}
    BY <1>1 DEF IsDivided
  <2> QED BY <2>1, <1>1
<1>3. IsFiniteSet(D)
  BY <1>1, FS_Interval
<1>4. Ordered(D, before)
  <2>1. \A i \in D : before[i] = 1..(i - 1) /\ i \in Nat
    BY <1>1
  <2>2. before \in [D -> SUBSET D]
    BY <1>1
  <2>3. ASSUME NEW d \in D, NEW e \in before[d] PROVE before[e] \subseteq before[d]
    <3>1. d \in Nat /\ e \in 1..(d - 1) /\ before[d] = 1..(d - 1)
      BY <2>1
    <3>2. before[e] = 1..(e - 1)
      BY <2>1, <3>1
    <3> QED BY <3>1, <3>2
  <2>4. ASSUME NEW d \in D, NEW e \in D, d # e PROVE e \in before[d] \/ d \in before[e]
    <3>1. d \in Nat /\ e \in Nat /\ d >= 1 /\ e >= 1 /\ before[d] = 1..(d - 1) /\ before[e] = 1..(e - 1)
      BY <2>1
    <3> QED BY <3>1, <2>4
  <2>5. \A d \in D : d \notin before[d]
    BY <2>1
  <2> HIDE DEF D, before
  <2> QED BY <2>2, <2>3, <2>4, <2>5 DEF Ordered
<1> HIDE DEF n, f, before
<1>5. \A s \in SUBSET D : F[s] \in Nat \ {0}
  <2>1. 1 \in Nat \ {0} /\ F \in Products(1, f, D)
    BY DEF n, f
  <2> HIDE DEF D
  <2> QED BY <1>2, <1>3, <2>1, ProductsArePositive
<1>6. Q \in Nat \ {0}
  BY <1>5
<1>7. \A u \in Nat, i \in D : digit(u, i) \in Nat /\ digit(u, i) < f[i]
  <2> SUFFICES ASSUME NEW u \in Nat, NEW i \in D PROVE digit(u, i) \in Nat /\ digit(u, i) < f[i]
    OBVIOUS
  <2> DEFINE p == F[before[i]]
             k == f[i]
  <2>1. p \in Nat \ {0} /\ k \in Nat \ {0}
    BY <1>2, <1>4, <1>5 DEF Ordered
  <2> HIDE DEF p, k
  <2>2. u \div p \in Nat
    BY <2>1, DivMod
  <2>3. (u \div p) % k \in 0..(k - 1)
    BY <2>1, <2>2, DivMod
  <2> QED BY <2>1, <2>3 DEF p, k
<1> HIDE DEF digit, D, Q
<1>8. h \in [0..(Q - 1) -> Box]
  <2> SUFFICES ASSUME NEW u \in 0..(Q - 1) PROVE [i \in D |-> digit(u, i)] \in Box
    OBVIOUS
  <2>1. u \in Nat
    BY <1>6
  <2>2. \A i \in D : digit(u, i) \in Nat /\ digit(u, i) < f[i]
    BY <1>7, <2>1
  <2> QED BY <1>1, <2>2 DEF CoordinatesOf, IsCoordinate
<1>9. ASSUME NEW v \in Box PROVE \E u \in 0..(Q - 1) : h[u] = v
  <2>1. v \in [D -> Nat] /\ \A i \in D : v[i] < f[i]
    BY <1>1 DEF CoordinatesOf, IsCoordinate
  <2>2. F \in Products(1, f, D)
    BY DEF D, n, f
  <2>3. PICK V \in 0..(Q - 1) :
          \A u \in Nat : (\A i \in D : (u \div F[before[i]]) % f[i] = v[i]) <=> u % Q = V
    BY <1>2, <1>3, <1>4, <2>1, <2>2, DigitsAreARemainder DEF Q
  <2>4. V \in Nat /\ V % Q = V
    <3>1. 0 \in Nat /\ V \in 0..(Q - 1) /\ 0 * Q + V = V
      BY <1>6
    <3>2. (0 * Q + V) % Q = V
      BY <3>1, <1>6, QuotientIs
    <3> QED BY <3>1, <3>2, <1>6
  <2>5. \A i \in D : digit(V, i) = v[i]
    BY <2>3, <2>4 DEF digit
  <2>6. h[V] = [i \in D |-> digit(V, i)]
    OBVIOUS
  <2> HIDE DEF h
  <2>7. h[V] = v
    BY <2>1, <2>5, <2>6
  <2> QED BY <2>7
<1>10. h \in Surjection(0..(Q - 1), Box)
  <2> HIDE DEF h, Box
  <2> QED BY <1>8, <1>9 DEF Surjection
<1>11. IsFiniteSet(0..(Q - 1)) /\ Cardinality(0..(Q - 1)) = Q
  <2>1. 0 \in Int /\ Q - 1 \in Int /\ ~ (0 > Q - 1) /\ (Q - 1) - 0 + 1 = Q
    BY <1>6
  <2> QED BY <2>1, FS_Interval
<1> HIDE DEF h, Box
<1>12. IsFiniteSet(Box) /\ Cardinality(Box) <= Cardinality(0..(Q - 1))
  BY <1>10, <1>11, FS_Surjection
<1> QED BY <1>6, <1>11, <1>12 DEF Q, D, n, Box

\* Where strides overlap the count is checked: a coordinate that no tile had
\* would leave one too few.
LEMMA CheckedTilesAt ==
  ASSUME NEW layout, IsLayout(layout), IsDivided(layout), EveryCoordinateHeld(layout),
         layout.replicas # 0, layout.tiles = PartsProduct(layout.replicas, layout.axes),
         NEW v, IsCoordinate(layout, v)
  PROVE  Cardinality(TilesAt(layout, v)) = layout.replicas
<1> DEFINE n == Len(layout.axes)
           f == PartsOf(layout)
           R == layout.replicas
           Box == CoordinatesOf(layout)
           held == {TileCoordinate(layout, t) : t \in Tiles(layout)}
<1>1. /\ n \in Nat /\ DOMAIN layout.axes = 1..n /\ f \in [1..n -> Nat] /\ R \in Nat \ {0}
      /\ \A i \in 1..n : f[i] = layout.axes[i].partitions
  BY AxesOfALayout DEF PartsOf, IsLayout
<1>2. IsFiniteSet(1..n)
  BY <1>1, FS_Interval
<1>3. PICK F : F \in Products(1, f, 1..n)
  <2>1. 1 \in Nat
    OBVIOUS
  <2> HIDE DEF n, f
  <2> QED BY <1>1, <1>2, <2>1, ProductsExist
<1>4. /\ F[1..n] \in Nat \ {0} /\ IsFiniteSet(Box) /\ Cardinality(Box) <= F[1..n]
  BY <1>3, CoordinatesAreBounded
<1>5. layout.tiles = R * F[1..n]
  <2> DEFINE H == [s \in SUBSET (1..n) |-> R * F[s]]
  <2>1. H \in Products(R, f, 1..n)
    <3> HIDE DEF n, f, R
    <3>1. R \in Nat
      BY <1>1
    <3> QED BY <1>1, <1>3, <3>1, ScaledProducts
  <2>2. H[1..n] = R * F[1..n]
    OBVIOUS
  <2> HIDE DEF H, n, f, R
  <2>3. PartsProduct(R, layout.axes) = H[1..n]
    <3>1. R \in Nat
      BY <1>1
    <3> QED BY <1>1, <2>1, <3>1, FoldLeftOfParts
  <2> QED BY <2>2, <2>3 DEF R
<1>6. layout.tiles \div R = F[1..n]
  <2> DEFINE q == F[1..n]
  <2>1. q \in Nat /\ R \in Nat \ {0} /\ 0 \in 0..(R - 1)
    BY <1>1, <1>4
  <2> HIDE DEF q, R
  <2>2. (q * R + 0) \div R = q
    BY <2>1, QuotientIs
  <2>3. q * R + 0 = R * q
    BY <2>1
  <2> QED BY <1>5, <2>2, <2>3 DEF q
<1>7. /\ Cardinality(held) = layout.tiles \div R
      /\ \A c \in held : Cardinality(TilesAt(layout, c)) = R
  BY Zenon DEF EveryCoordinateHeld, Tiles, TilesAt
<1>8. held \subseteq Box
  <2> SUFFICES ASSUME NEW t \in Tiles(layout) PROVE TileCoordinate(layout, t) \in Box
    OBVIOUS
  <2>1. t \in Nat
    BY <1>4, <1>5 DEF Tiles
  <2>2. ASSUME NEW i \in DOMAIN layout.axes
        PROVE  /\ (t \div AxisStride(layout, i)) % layout.axes[i].partitions \in Nat
               /\ (t \div AxisStride(layout, i)) % layout.axes[i].partitions < layout.axes[i].partitions
    <3> DEFINE s == AxisStride(layout, i)
               p == layout.axes[i].partitions
    <3>1. s \in Nat \ {0} /\ p \in Nat \ {0}
      <4>1. p \in Nat
        BY AxesOfALayout DEF AxisTilings
      <4> QED BY <4>1, StridesOfALayout DEF IsDivided
    <3> HIDE DEF s, p
    <3>2. t \div s \in Nat
      BY <2>1, <3>1, DivMod
    <3>3. (t \div s) % p \in 0..(p - 1)
      BY <3>1, <3>2, DivMod
    <3> QED BY <3>1, <3>3 DEF s, p
  <2> QED BY <2>2 DEF CoordinatesOf, IsCoordinate, TileCoordinate
<1> HIDE DEF held, Box, R
<1>9. held = Box
  <2>1. Cardinality(held) <= Cardinality(Box) /\ (Cardinality(Box) = Cardinality(held) => Box = held)
    BY <1>4, <1>8, FS_Subset
  <2>2. Cardinality(Box) \in Nat
    BY <1>4, FS_CardinalityType
  <2> QED BY <1>4, <1>6, <1>7, <2>1, <2>2
<1>10. v \in Box
  BY DEF Box, CoordinatesOf, IsCoordinate
<1> QED BY <1>7, <1>9, <1>10 DEF R

\* Every element of a tensor is held by as many tiles as its layout has replicas,
\* whatever tiling of its axes is accepted (TensorTiling::axis_strides,
\* has_regular_tile_mapping, Layout::padded_shape, ResolvedLayout::shard_extents).
THEOREM ElementsAreHeld ==
  ASSUME NEW layout, NEW shape, IsLayout(layout), IsShape(shape), layout.replicas # 0,
         Tiled(layout, shape), NEW c \in Elements(shape)
  PROVE  Cardinality({t \in Tiles(layout) : Holds(ShardAt(layout, shape, t), c)}) = layout.replicas
<1>1. /\ IsDivided(layout)
      /\ layout.tiles = PartsProduct(layout.replicas, layout.axes)
      /\ RegularMapping(layout) \/ EveryCoordinateHeld(layout)
  BY TiledLayout
<1>2. PICK v :
         /\ IsCoordinate(layout, v)
         /\ \A t \in Nat : Holds(ShardAt(layout, shape, t), c) <=> TileCoordinate(layout, t) = v
  BY ElementIsAtACoordinate
<1>3. Cardinality(TilesAt(layout, v)) = layout.replicas
  BY <1>1, <1>2, RegularTilesAt, CheckedTilesAt
<1>4. {t \in Tiles(layout) : Holds(ShardAt(layout, shape, t), c)} = TilesAt(layout, v)
  <2>1. \A t \in Tiles(layout) : t \in Nat
    BY DEF Tiles, IsLayout
  <2> QED BY <1>2, <2>1 DEF TilesAt
<1> QED BY <1>3, <1>4

-----------------------------------------------------------------------------
(* Sizes of shards *)

\* Products grow with their factors.
LEMMA LargerProducts ==
  ASSUME NEW n \in Nat, NEW f \in [1..n -> Nat], NEW g \in [1..n -> Nat],
         \A i \in 1..n : f[i] <= g[i]
  PROVE  MulSeq(f) \in Nat /\ MulSeq(g) \in Nat /\ MulSeq(f) <= MulSeq(g)
<1> DEFINE D == 1..n
<1>1. IsFiniteSet(D) /\ 1 \in Nat
  BY FS_Interval
<1>2. PICK F : F \in Products(1, f, D)
  BY <1>1, ProductsExist
<1>3. PICK G : G \in Products(1, g, D)
  BY <1>1, ProductsExist
<1>4. MulSeq(f) = F[D] /\ MulSeq(g) = G[D]
  BY <1>2, <1>3, MulSeqIsProduct
<1>5. /\ F \in [SUBSET D -> Nat] /\ F[{}] = 1
      /\ \A s \in SUBSET D : \A x \in s : F[s] = F[s \ {x}] * f[x]
  BY <1>2 DEF Products
<1>6. /\ G \in [SUBSET D -> Nat] /\ G[{}] = 1
      /\ \A s \in SUBSET D : \A x \in s : G[s] = G[s \ {x}] * g[x]
  BY <1>3 DEF Products
<1>0. \A i \in D : f[i] \in Nat /\ g[i] \in Nat /\ f[i] <= g[i]
  OBVIOUS
<1> HIDE DEF D
<1> DEFINE Bad == {k \in Nat : \E s \in SUBSET D : Cardinality(s) = k /\ F[s] > G[s]}
<1>7. Bad = {}
  <2>1. SUFFICES ASSUME Bad # {} PROVE FALSE
    OBVIOUS
  <2>2. PICK k \in Bad : \A m \in Bad : k <= m
    <3>1. Bad \subseteq Nat
      OBVIOUS
    <3> QED BY <2>1, <3>1, LeastOf
  <2>3. PICK s \in SUBSET D : Cardinality(s) = k /\ F[s] > G[s]
    BY <2>2
  <2>4. s # {}
    <3>1. s = {} => F[s] = 1 /\ G[s] = 1
      BY <1>5, <1>6
    <3>2. F[s] = 1 /\ G[s] = 1 => ~ (F[s] > G[s])
      OBVIOUS
    <3> QED BY <2>3, <3>1, <3>2
  <2>5. PICK x \in s : TRUE
    BY <2>4
  <2>6. s \ {x} \in SUBSET D /\ Cardinality(s \ {x}) = k - 1 /\ k \in Nat /\ k # 0
    <3> HIDE DEF Bad
    <3>1. /\ Cardinality(s) \in Nat /\ Cardinality(s) # 0
          /\ s \ {x} \in SUBSET D /\ Cardinality(s \ {x}) = Cardinality(s) - 1
      BY <1>1, <2>4, <2>5, SmallerSets
    <3> QED BY <2>3, <3>1
  <2>7. ~ (F[s \ {x}] > G[s \ {x}])
    <3>1. k - 1 \in Nat /\ ~ (k <= k - 1)
      BY <2>6
    <3> QED BY <2>2, <2>6, <3>1
  <2> DEFINE a == F[s \ {x}]
             b == G[s \ {x}]
             u == f[x]
             w == g[x]
  <2>8. a \in Nat /\ b \in Nat /\ u \in Nat /\ w \in Nat /\ a <= b /\ u <= w
    BY <1>0, <1>5, <1>6, <2>6, <2>7
  <2>9. F[s] = a * u /\ G[s] = b * w
    BY <1>5, <1>6
  <2> HIDE DEF a, b, u, w
  <2>10. a * u <= b * u /\ u * b <= w * b
    BY <2>8, ProductsGrow
  <2>11. u * b = b * u /\ w * b = b * w /\ a * u \in Nat /\ b * u \in Nat /\ b * w \in Nat
    BY <2>8
  <2> QED BY <2>3, <2>9, <2>10, <2>11
<1>8. Cardinality(D) \in Nat /\ D \in SUBSET D
  BY <1>1, FS_CardinalityType
<1>9. ~ (F[D] > G[D])
  BY <1>7, <1>8
<1>10. F[D] \in Nat /\ G[D] \in Nat
  BY <1>5, <1>6
<1> QED BY <1>4, <1>9, <1>10

\* A non-empty sequence of numbers has a largest one.
LEMMA LargestOf ==
  ASSUME NEW n \in Nat \ {0}, NEW f \in [1..n -> Nat]
  PROVE  LET values == {f[k] : k \in 1..n}
         IN  Max(values) \in Nat /\ \A k \in 1..n : f[k] <= Max(values)
<1> DEFINE values == {f[k] : k \in 1..n}
<1>1. \E k \in 1..n : \A i \in 1..n : f[i] <= f[k]
  <2> DEFINE Good(j) == \E k \in 1..j : \A i \in 1..j : f[i] <= f[k]
             Fails == {j \in 1..n : ~ Good(j)}
  <2>1. SUFFICES ASSUME Fails # {} PROVE FALSE
    <3>1. n \in 1..n
      OBVIOUS
    <3>2. Fails = {} => Good(n)
      BY <3>1
    <3> QED BY <3>2
  <2>2. Fails \subseteq Nat
    OBVIOUS
  <2>3. PICK j \in Fails : \A m \in Fails : j <= m
    <3> HIDE DEF Fails
    <3> QED BY <2>1, <2>2, LeastOf
  <2>4. j # 1
    BY <2>3
  <2>5. j - 1 \in 1..n /\ j \in 1..n /\ ~ (j <= j - 1)
    BY <2>3, <2>4
  <2>6. Good(j - 1)
    BY <2>3, <2>5
  <2>7. PICK k \in 1..(j - 1) : \A i \in 1..(j - 1) : f[i] <= f[k]
    BY <2>6
  <2>8. k \in 1..j /\ j \in 1..j /\ f[k] \in Nat /\ f[j] \in Nat
    BY <2>5
  <2>9. \A i \in 1..j : i = j \/ i \in 1..(j - 1)
    BY <2>5
  <2>10. \A i \in 1..j : f[i] \in Nat
    BY <2>5
  <2>11. CASE f[j] <= f[k]
    <3>1. \A i \in 1..j : f[i] <= f[k]
      BY <2>7, <2>9, <2>11
    <3> QED BY <3>1, <2>3, <2>8
  <2>12. CASE ~ (f[j] <= f[k])
    <3>1. \A i \in 1..j : f[i] <= f[j]
      BY <2>7, <2>8, <2>9, <2>10, <2>12
    <3> QED BY <3>1, <2>3, <2>8
  <2> QED BY <2>11, <2>12
<1>2. PICK k \in 1..n : \A i \in 1..n : f[i] <= f[k]
  BY <1>1
<1>3. f[k] \in values /\ \A y \in values : f[k] >= y /\ y \in Nat
  <2>1. \A i \in 1..n : f[i] \in Nat
    OBVIOUS
  <2> QED BY <1>2, <2>1
<1> HIDE DEF values
<1>4. Max(values) \in values /\ \A y \in values : Max(values) >= y
  BY <1>3, Zenon DEF Max
<1>5. \A i \in 1..n : f[i] \in values
  BY DEF values
<1> QED BY <1>3, <1>4, <1>5 DEF values

LargestPart(resolved) ==
  Max({Width(resolved.parts[k]) : k \in DOMAIN resolved.parts})

Fits(extent, width) ==
  /\ extent.start \in Nat /\ extent.logical \in Nat /\ extent.physical \in Nat
  /\ extent.start <= extent.logical /\ extent.logical <= extent.physical
  /\ Width(extent) \in Nat /\ width \in Nat /\ Width(extent) <= width

\* The part of an axis that a tile has, and the largest part of the axis.
LEMMA WidthsOfAnAxis ==
  ASSUME NEW layout, NEW shape, IsLayout(layout), IsShape(shape), Tiled(layout, shape),
         NEW axis \in DOMAIN shape, NEW t \in Nat
  PROVE  Fits(ExtentOn(ResolvedAxis(layout, shape, axis), t),
              LargestPart(ResolvedAxis(layout, shape, axis)))
<1> DEFINE resolved == ResolvedAxis(layout, shape, axis)
           parts == resolved.parts
           n == Len(parts)
           at == (t \div resolved.stride) % n
           extent == ExtentOn(resolved, t)
           f == [k \in 1..n |-> Width(parts[k])]
<1>1. /\ n \in Nat \ {0} /\ resolved.stride \in Nat \ {0} /\ DOMAIN parts = 1..n
      /\ PartsCut(parts, shape[axis])
  BY PartsOfAnAxis
<1>2. \A k \in 1..n :
        /\ parts[k].start \in Nat /\ parts[k].logical \in Nat /\ parts[k].physical \in Nat
        /\ parts[k].start <= parts[k].logical /\ parts[k].logical <= parts[k].physical
  BY <1>1 DEF PartsCut
<1>3. at \in 0..(n - 1)
  <2>1. t \div resolved.stride \in Nat
    BY <1>1, DivMod
  <2> HIDE DEF n, resolved
  <2> QED BY <1>1, <2>1, DivMod
<1>4. extent = parts[1 + at]
  BY DEF ExtentOn
<1> HIDE DEF parts, n, at, extent, resolved
<1>5. 1 + at \in 1..n
  BY <1>1, <1>3
<1>6. \A k \in 1..n : f[k] = Width(parts[k]) /\ f[k] \in Nat
  BY <1>2 DEF Width
<1>7. f \in [1..n -> Nat]
  BY <1>6
<1>8. {f[k] : k \in 1..n} = {Width(parts[k]) : k \in DOMAIN parts}
  BY <1>1
<1> HIDE DEF f
<1>9. LET values == {f[k] : k \in 1..n}
      IN  Max(values) \in Nat /\ \A k \in 1..n : f[k] <= Max(values)
  BY <1>1, <1>7, LargestOf
<1>10. /\ Max({Width(parts[k]) : k \in DOMAIN parts}) \in Nat
       /\ Width(extent) <= Max({Width(parts[k]) : k \in DOMAIN parts})
  BY <1>4, <1>5, <1>6, <1>8, <1>9
<1>11. /\ extent.start \in Nat /\ extent.logical \in Nat /\ extent.physical \in Nat
       /\ extent.start <= extent.logical /\ extent.logical <= extent.physical
       /\ Width(extent) \in Nat
  BY <1>2, <1>4, <1>5, <1>6
<1> QED BY <1>10, <1>11 DEF parts, extent, resolved, LargestPart, Fits

\* The shard of a tile fills what tile_elements allocates, which maximum_tile_elements
\* bounds.
LEMMA SizesOfTiledShards ==
  ASSUME NEW layout, NEW shape, IsLayout(layout), IsShape(shape), Tiled(layout, shape),
         LinearGrain(layout) = -1, NEW t \in Tiles(layout)
  PROVE  /\ Sane(ShardAt(layout, shape, t))
         /\ ShardVolume(ShardAt(layout, shape, t)) = TileElements(layout, shape, t)
         /\ TileElements(layout, shape, t) \in Nat
         /\ TileElements(layout, shape, t) <= MaximumTileElements(layout, shape)
<1> DEFINE n == Len(shape)
           shard == ShardAt(layout, shape, t)
           f == [axis \in DOMAIN shape |-> Width(ExtentOn(ResolvedAxis(layout, shape, axis), t))]
           g == [axis \in DOMAIN shape |-> LargestPart(ResolvedAxis(layout, shape, axis))]
<1>1. n \in Nat /\ DOMAIN shape = 1..n
  BY DEF IsShape
<1>2. t \in Nat /\ layout.tiles \in Nat /\ ~ (t >= layout.tiles)
  BY DEF Tiles, IsLayout
<1>3. DOMAIN shard = DOMAIN shape
      /\ \A axis \in DOMAIN shape : shard[axis] = ExtentOn(ResolvedAxis(layout, shape, axis), t)
  BY DEF ShardAt
<1>4. \A axis \in DOMAIN shape :
        /\ shard[axis].start <= shard[axis].logical /\ shard[axis].logical <= shard[axis].physical
        /\ f[axis] \in Nat /\ g[axis] \in Nat /\ f[axis] <= g[axis]
  <2> SUFFICES ASSUME NEW axis \in DOMAIN shape
               PROVE  /\ shard[axis].start <= shard[axis].logical
                      /\ shard[axis].logical <= shard[axis].physical
                      /\ f[axis] \in Nat /\ g[axis] \in Nat /\ f[axis] <= g[axis]
    OBVIOUS
  <2> DEFINE extent == ExtentOn(ResolvedAxis(layout, shape, axis), t)
             largest == LargestPart(ResolvedAxis(layout, shape, axis))
  <2>1. f[axis] = Width(extent) /\ g[axis] = largest
    OBVIOUS
  <2>2. /\ extent.start <= extent.logical /\ extent.logical <= extent.physical
        /\ Width(extent) \in Nat /\ largest \in Nat /\ Width(extent) <= largest
    BY <1>2, WidthsOfAnAxis DEF Fits
  <2> HIDE DEF shard, f, g, largest
  <2> QED BY <1>3, <2>1, <2>2
<1>5. TileElements(layout, shape, t) = MulSeq(f)
  BY <1>2, Zenon DEF TileElements
<1>6. MaximumTileElements(layout, shape) = MulSeq(g)
  BY Zenon DEF MaximumTileElements, LargestPart
<1>7. ShardVolume(shard) = MulSeq(f)
  <2>1. [a \in DOMAIN shard |-> Width(shard[a])] = f
    BY <1>3
  <2> HIDE DEF shard, f
  <2> QED BY <2>1 DEF ShardVolume
<1>8. Sane(shard)
  BY <1>3, <1>4 DEF Sane
<1>9. f \in [1..n -> Nat] /\ g \in [1..n -> Nat]
  BY <1>1, <1>4
<1> HIDE DEF f, g, shard, n
<1>10. MulSeq(f) \in Nat /\ MulSeq(g) \in Nat /\ MulSeq(f) <= MulSeq(g)
  BY <1>1, <1>4, <1>9, LargerProducts
<1> QED BY <1>5, <1>6, <1>7, <1>8, <1>10 DEF shard

\* Sums over the beginnings of a sequence, taken out from the end.
SumsFromTheEnd(f, n) ==
  {G \in [SUBSET (1..n) -> Nat] :
     \A s \in SUBSET (1..n) : G[s] = IF s = {} THEN 0 ELSE G[s \ {Max(s)}] + f[Max(s)]}

\* Such sums exist.
LEMMA SumsExist ==
  ASSUME NEW n \in Nat, NEW f \in [1..n -> Nat]
  PROVE  SumsFromTheEnd(f, n) # {}
<1> DEFINE Bad == {k \in 0..n : SumsFromTheEnd(f, k) = {}}
<1>1. SUFFICES ASSUME Bad # {} PROVE FALSE
  BY SMT
<1>2. Bad \subseteq Nat
  OBVIOUS
<1>3. PICK k \in Bad : \A m \in Bad : k <= m
  <2> HIDE DEF Bad
  <2> QED BY <1>1, <1>2, LeastOf
<1>4. k # 0
  <2>1. SUFFICES ASSUME k = 0 PROVE FALSE
    OBVIOUS
  <2> DEFINE G == [s \in SUBSET (1..0) |-> 0]
  <2>2. SUBSET (1..0) = {{}}
    OBVIOUS
  <2>3. G \in SumsFromTheEnd(f, 0)
    BY <2>2 DEF SumsFromTheEnd
  <2> QED BY <1>3, <2>1, <2>3
<1>5. k - 1 \in 0..n /\ k \in 1..n /\ ~ (k <= k - 1) /\ k \in Nat
  BY <1>3, <1>4
<1>6. PICK G : G \in SumsFromTheEnd(f, k - 1)
  BY <1>3, <1>5
<1>7. /\ G \in [SUBSET (1..(k - 1)) -> Nat]
      /\ \A s \in SUBSET (1..(k - 1)) : G[s] = IF s = {} THEN 0 ELSE G[s \ {Max(s)}] + f[Max(s)]
  BY <1>6 DEF SumsFromTheEnd
<1> DEFINE D == 1..k
           E == 1..(k - 1)
           H == [s \in SUBSET D |-> IF k \in s THEN G[s \ {k}] + f[k] ELSE G[s]]
<1>8. \A s \in SUBSET D : s \ {k} \in SUBSET E /\ (k \notin s => s \in SUBSET E)
  <2>1. \A x \in D : x = k \/ x \in E
    BY <1>5
  <2> HIDE DEF D, E
  <2> QED BY <2>1
<1>9. f[k] \in Nat /\ \A s \in SUBSET E : G[s] \in Nat
  BY <1>5, <1>7
<1>10. \A s \in SUBSET D : s # {} => Max(s) \in s /\ (k \in s => Max(s) = k)
  <2> SUFFICES ASSUME NEW s \in SUBSET D, s # {} PROVE Max(s) \in s /\ (k \in s => Max(s) = k)
    OBVIOUS
  <2>1. Max(s) \in s /\ \A y \in s : Max(s) >= y
    BY <1>5, MaxAmong
  <2>2. Max(s) \in 1..k
    BY <2>1
  <2> HIDE DEF D
  <2> QED BY <1>5, <2>1, <2>2
<1>11. H \in [SUBSET D -> Nat]
  <2> SUFFICES ASSUME NEW s \in SUBSET D
               PROVE  (IF k \in s THEN G[s \ {k}] + f[k] ELSE G[s]) \in Nat
    OBVIOUS
  <2> HIDE DEF D, E
  <2> QED BY <1>8, <1>9
<1>12. ASSUME NEW s \in SUBSET D
       PROVE  H[s] = IF s = {} THEN 0 ELSE H[s \ {Max(s)}] + f[Max(s)]
  <2>1. CASE s = {}
    <3>1. H[s] = G[s] /\ s \in SUBSET E
      BY <2>1
    <3> QED BY <2>1, <3>1, <1>7
  <2>2. CASE k \in s
    <3>1. Max(s) = k /\ s \ {k} \in SUBSET D /\ k \notin s \ {k}
      BY <1>10, <2>2
    <3>2. H[s] = G[s \ {k}] + f[k] /\ H[s \ {k}] = G[s \ {k}]
      BY <2>2, <3>1
    <3> HIDE DEF H, D
    <3> QED BY <2>2, <3>1, <3>2
  <2>3. CASE k \notin s /\ s # {}
    <3>1. s \in SUBSET E /\ s \ {Max(s)} \in SUBSET D /\ k \notin s \ {Max(s)}
      BY <1>8, <2>3
    <3>2. H[s] = G[s] /\ H[s \ {Max(s)}] = G[s \ {Max(s)}]
      BY <2>3, <3>1
    <3> HIDE DEF H, D
    <3> QED BY <2>3, <3>1, <3>2, <1>7
  <2> QED BY <2>1, <2>2, <2>3
<1> HIDE DEF H
<1>13. H \in SumsFromTheEnd(f, k)
  BY <1>11, <1>12 DEF SumsFromTheEnd
<1> QED BY <1>3, <1>13

\* An interval without its end.
LEMMA IntervalWithoutItsEnd ==
  ASSUME NEW k \in Nat, k # 0
  PROVE  (1..k) \ {k} = 1..(k - 1)
OBVIOUS

Volumes(shards) == FoldLeft(LAMBDA sum, s : sum + ShardVolume(s), 0, shards)

\* The volumes of shards add up.
LEMMA VolumesAddUp ==
  ASSUME NEW n \in Nat, NEW shards, DOMAIN shards = 1..n, NEW P \in [0..n -> Nat], P[0] = 0,
         \A k \in 1..n : ShardVolume(shards[k]) \in Nat /\ P[k] = P[k - 1] + ShardVolume(shards[k])
  PROVE  Volumes(shards) = P[n]
<1> DEFINE D == 1..n
           f == [k \in D |-> ShardVolume(shards[k])]
           Step(I) == [s \in SUBSET D |->
                         IF s = {} THEN 0 ELSE I[s \ {Max(s)}] + ShardVolume(shards[Max(s)])]
           fold == CHOOSE I : I = Step(I)
<1>1. f \in [1..n -> Nat]
  OBVIOUS
<1>2. PICK G : G \in SumsFromTheEnd(f, n)
  <2> HIDE DEF f
  <2> QED BY <1>1, SumsExist
<1>3. /\ G \in [SUBSET D -> Nat]
      /\ \A s \in SUBSET D : G[s] = IF s = {} THEN 0 ELSE G[s \ {Max(s)}] + f[Max(s)]
  BY <1>2 DEF SumsFromTheEnd
<1>4. \A s \in SUBSET D : s # {} => Max(s) \in s
  BY MaxAmong
<1>5. G = Step(G)
  <2>1. \A s \in SUBSET D : s # {} => f[Max(s)] = ShardVolume(shards[Max(s)])
    BY <1>4
  <2> HIDE DEF f, D
  <2> QED BY <1>3, <2>1
<1>6. fold = Step(fold)
  <2> HIDE DEF Step
  <2> QED BY <1>5
<1>7. Volumes(shards) = fold[D]
  BY Zenon DEF Volumes, FoldLeft, MapThenFoldSet
<1> HIDE DEF fold
<1>8. \A s \in SUBSET D : fold[s] = IF s = {} THEN 0 ELSE fold[s \ {Max(s)}] + ShardVolume(shards[Max(s)])
  BY <1>6
<1> DEFINE Bad == {k \in 0..n : fold[1..k] # P[k]}
<1>9. Bad = {}
  <2>1. SUFFICES ASSUME Bad # {} PROVE FALSE
    OBVIOUS
  <2>2. Bad \subseteq Nat
    OBVIOUS
  <2>3. PICK k \in Bad : \A m \in Bad : k <= m
    <3> HIDE DEF Bad
    <3> QED BY <2>1, <2>2, LeastOf
  <2>4. k # 0
    <3>1. 1..0 = {} /\ {} \in SUBSET D
      OBVIOUS
    <3>2. fold[1..0] = 0
      BY <1>8, <3>1
    <3> QED BY <2>3, <3>2
  <2>5. k - 1 \in 0..n /\ k \in 1..n /\ ~ (k <= k - 1) /\ k \in Nat
    BY <2>3, <2>4
  <2>6. fold[1..(k - 1)] = P[k - 1]
    BY <2>3, <2>5
  <2> HIDE DEF Bad
  <2>7. Max(1..k) = k
    <3>0. k \in 1..k
      BY <2>5
    <3>1. 1..k # {} /\ k \in 1..k
      BY <3>0
    <3>2. Max(1..k) \in 1..k /\ \A y \in 1..k : Max(1..k) >= y
      BY <2>5, <3>1, MaxAmong
    <3> QED BY <3>1, <3>2, <2>5
  <2>8. (1..k) \ {k} = 1..(k - 1) /\ 1..k \in SUBSET D /\ 1..k # {}
    <3>1. k \in 1..k
      BY <2>5
    <3>2. (1..k) \ {k} = 1..(k - 1)
      BY <2>5, IntervalWithoutItsEnd
    <3>3. 1..k \in SUBSET D
      BY <2>5
    <3> QED BY <3>1, <3>2, <3>3
  <2>9. fold[1..k] = fold[1..(k - 1)] + ShardVolume(shards[k])
    <3>1. fold[1..k] = fold[(1..k) \ {Max(1..k)}] + ShardVolume(shards[Max(1..k)])
      BY <1>8, <2>8
    <3> QED BY <3>1, <2>7, <2>8
  <2>10. fold[1..k] = P[k]
    BY <2>5, <2>6, <2>9
  <2> QED BY <2>3, <2>10 DEF Bad
<1>10. fold[1..n] = P[n]
  <2>1. n \in 0..n
    OBVIOUS
  <2> QED BY <1>9, <2>1
<1> QED BY <1>7, <1>10

-----------------------------------------------------------------------------
(* Rows of a tensor *)

Neighbours(shape, i, j) == [k \in 1..((j - i) + 1) |-> shape[k + i - 1]]

\* The product of some neighbouring widths of a shape.
LEMMA MulSubSeq ==
  ASSUME NEW n \in Nat, NEW shape \in [1..n -> Nat], NEW F \in Products(1, shape, 1..n),
         NEW i \in Nat, NEW j \in Nat, 1 <= i, j <= n, i <= j + 1
  PROVE  MulSeq(Neighbours(shape, i, j)) = F[i..j]
<1> DEFINE g == Neighbours(shape, i, j)
           m == (j - i) + 1
           off(k) == k + i - 1
           Shift(s) == {off(k) : k \in s}
           H == [s \in SUBSET (1..m) |-> F[Shift(s)]]
<1>1. m \in Nat /\ \A k \in 1..m : k + i - 1 \in 1..n /\ k + i - 1 \in i..j
  OBVIOUS
<1>2. g \in [1..m -> Nat] /\ \A k \in 1..m : g[k] = shape[k + i - 1]
  BY <1>1 DEF Neighbours
<1> HIDE DEF g
<1>3. F \in [SUBSET (1..n) -> Nat] /\ F[{}] = 1
      /\ \A s \in SUBSET (1..n) : \A x \in s : F[s] = F[s \ {x}] * shape[x]
  BY DEF Products
<1>4. Shift(1..m) = i..j
  <2>1. ASSUME NEW y \in i..j PROVE y - i + 1 \in 1..m /\ (y - i + 1) + i - 1 = y
    OBVIOUS
  <2>2. i..j \subseteq Shift(1..m)
    BY <2>1
  <2> QED BY <1>1, <2>2
<1>5. \A s \in SUBSET (1..m) : Shift(s) \in SUBSET (1..n)
  BY <1>1
<1>12. \A x, y \in 1..m : off(x) = off(y) => x = y
  OBVIOUS
<1>6. ASSUME NEW s \in SUBSET (1..m), NEW x \in s PROVE H[s] = H[s \ {x}] * g[x]
  <2>1. Shift(s) \ {off(x)} = Shift(s \ {x})
    <3> HIDE DEF off, m
    <3> QED BY <1>12
  <2>2. off(x) \in Shift(s) /\ s \ {x} \in SUBSET (1..m) /\ x \in 1..m
    OBVIOUS
  <2>3. g[x] = shape[off(x)]
    BY <1>2, <2>2
  <2>4. Shift(s) \in SUBSET (1..n)
    BY <1>5
  <2> HIDE DEF Shift, off
  <2>5. F[Shift(s)] = F[Shift(s) \ {off(x)}] * shape[off(x)]
    BY <1>3, <2>2, <2>4
  <2> QED BY <2>1, <2>2, <2>3, <2>5
<1>7. H \in [SUBSET (1..m) -> Nat]
  <2> HIDE DEF Shift
  <2> QED BY <1>3, <1>5
<1>8. H[{}] = 1
  <2>1. Shift({}) = {}
    OBVIOUS
  <2> HIDE DEF Shift
  <2> QED BY <1>3, <2>1
<1> HIDE DEF H, Shift
<1>9. H \in Products(1, g, 1..m)
  BY <1>6, <1>7, <1>8 DEF Products
<1> HIDE DEF m
<1>10. MulSeq(g) = H[1..m]
  BY <1>1, <1>2, <1>9, MulSeqIsProduct
<1> QED BY <1>4, <1>10 DEF H, m, g

Rows(shape) == MulSeq(SubSeq(shape, 1, Len(shape) - 1))

\* The elements of a tensor are its rows times their width.
LEMMA ElementsAreRows ==
  ASSUME NEW shape, IsShape(shape), shape # <<>>
  PROVE  /\ Len(shape) \in Nat \ {0} /\ Last(shape) = shape[Len(shape)]
         /\ Last(shape) \in Nat \ {0}
         /\ Rows(shape) \in Nat \ {0} /\ MulSeq(shape) = Rows(shape) * Last(shape)
<1> DEFINE n == Len(shape)
<1>1. n \in Nat \ {0} /\ shape \in [1..n -> Nat \ {0}] /\ shape \in [1..n -> Nat] /\ 1 \in Nat
  BY DEF IsShape
<1>2. IsFiniteSet(1..n)
  BY <1>1, FS_Interval
<1>3. PICK F : F \in Products(1, shape, 1..n)
  <2> HIDE DEF n
  <2> QED BY <1>1, <1>2, ProductsExist
<1>4. MulSeq(shape) = F[1..n]
  <2> HIDE DEF n
  <2> QED BY <1>1, <1>3, MulSeqIsProduct
<1>5. Rows(shape) = F[1..(n - 1)]
  <2> DEFINE g == SubSeq(shape, 1, n - 1)
  <2>1. g = Neighbours(shape, 1, n - 1)
    <3>1. 1..(((n - 1) - 1) + 1) = 1..(n - 1)
      BY <1>1
    <3>2. g = [k \in 1..(n - 1) |-> shape[k]]
      BY <1>1 DEF IsShape
    <3>3. \A k \in 1..(n - 1) : k + 1 - 1 = k
      BY <1>1
    <3> QED BY <3>1, <3>2, <3>3 DEF Neighbours
  <2>2. n - 1 \in Nat /\ 1 <= 1 /\ n - 1 <= n /\ 1 <= (n - 1) + 1 /\ n \in Nat
    BY <1>1
  <2> HIDE DEF g, n
  <2>3. MulSeq(g) = F[1..(n - 1)]
    BY <1>1, <1>3, <2>1, <2>2, MulSubSeq
  <2> QED BY <2>3 DEF g, n, Rows
<1>6. F[1..n] = F[1..(n - 1)] * shape[n]
  <2>1. (1..n) \ {n} = 1..(n - 1) /\ n \in 1..n
    BY <1>1, IntervalWithoutItsEnd
  <2>2. \A s \in SUBSET (1..n) : \A x \in s : F[s] = F[s \ {x}] * shape[x]
    BY <1>3 DEF Products
  <2>3. F[1..n] = F[(1..n) \ {n}] * shape[n]
    <3>1. 1..n \in SUBSET (1..n)
      OBVIOUS
    <3> HIDE DEF n
    <3> QED BY <2>1, <2>2, <3>1
  <2> QED BY <2>1, <2>3
<1>7. F[1..(n - 1)] \in Nat \ {0}
  <2>1. 1 \in Nat \ {0} /\ 1..(n - 1) \in SUBSET (1..n)
    BY <1>1
  <2> HIDE DEF n
  <2> QED BY <1>1, <1>2, <1>3, <2>1, ProductsArePositive
<1>8. Last(shape) = shape[n] /\ shape[n] \in Nat \ {0}
  <2>1. Last(shape) = shape[Len(shape)]
    BY DEF Last
  <2>2. n \in 1..n
    BY <1>1
  <2> QED BY <1>1, <2>1, <2>2
<1> QED BY <1>1, <1>4, <1>5, <1>6, <1>7, <1>8

\* The coordinates of an element but its last are those of exactly one row.
LEMMA RowOfAnElement ==
  ASSUME NEW shape, IsShape(shape), shape # <<>>, NEW c \in Elements(shape)
  PROVE  \E row \in 0..(Rows(shape) - 1) : \A r \in 0..(Rows(shape) - 1) :
            (\A axis \in 1..(Len(shape) - 1) : RowCoordinate(shape, r, axis) = c[axis]) <=> r = row
<1> DEFINE n == Len(shape)
           D == 1..(n - 1)
           before == [a \in D |-> (a + 1)..(n - 1)]
           f == [a \in D |-> shape[a]]
           v == [a \in D |-> c[a]]
<1>1. n \in Nat \ {0} /\ n - 1 \in Nat /\ shape \in [1..n -> Nat \ {0}] /\ shape \in [1..n -> Nat]
      /\ DOMAIN shape = 1..n
  BY ElementsAreRows DEF IsShape
<1>2. f \in [D -> Nat \ {0}] /\ f \in [D -> Nat] /\ v \in [D -> Nat] /\ \A a \in D : v[a] < f[a]
  <2>1. \A a \in D : a \in 1..n
    BY <1>1
  <2> QED BY <1>1, <2>1 DEF Elements
<1>3. IsFiniteSet(D) /\ 1 \in Nat
  BY <1>1, FS_Interval
<1>4. Ordered(D, before)
  <2>1. \A a \in D : before[a] = (a + 1)..(n - 1) /\ a \in Nat
    BY <1>1
  <2>2. before \in [D -> SUBSET D]
    BY <1>1
  <2>3. ASSUME NEW d \in D, NEW e \in before[d] PROVE before[e] \subseteq before[d]
    <3>1. d \in Nat /\ e \in (d + 1)..(n - 1) /\ before[d] = (d + 1)..(n - 1) /\ e \in D
      BY <2>1, <1>1
    <3>2. before[e] = (e + 1)..(n - 1)
      BY <2>1, <3>1
    <3> QED BY <1>1, <3>1, <3>2
  <2>4. ASSUME NEW d \in D, NEW e \in D, d # e PROVE e \in before[d] \/ d \in before[e]
    <3>1. /\ d \in Nat /\ e \in Nat /\ d <= n - 1 /\ e <= n - 1
          /\ before[d] = (d + 1)..(n - 1) /\ before[e] = (e + 1)..(n - 1)
      BY <2>1, <1>1
    <3> QED BY <1>1, <3>1, <2>4
  <2>5. \A d \in D : d \notin before[d]
    BY <2>1
  <2> HIDE DEF D, before
  <2> QED BY <2>2, <2>3, <2>4, <2>5 DEF Ordered
<1>5. PICK F : F \in Products(1, f, D)
  <2> HIDE DEF f, D
  <2> QED BY <1>2, <1>3, ProductsExist
<1>6. Rows(shape) = F[D]
  <2> DEFINE m == n - 1
             g == SubSeq(shape, 1, n - 1)
  <2>1. g = Neighbours(f, 1, m)
    <3>1. 1..((m - 1) + 1) = D
      BY <1>1
    <3>2. g = [k \in D |-> shape[k]]
      BY <1>1 DEF IsShape
    <3>3. \A k \in D : k + 1 - 1 = k
      BY <1>1
    <3> QED BY <3>1, <3>2, <3>3 DEF Neighbours
  <2>2. m \in Nat /\ 1 <= 1 /\ m <= m /\ 1 <= m + 1 /\ f \in [1..m -> Nat]
        /\ F \in Products(1, f, 1..m)
    BY <1>1, <1>2, <1>5
  <2> HIDE DEF g, m, f
  <2>3. MulSeq(g) = F[1..m]
    BY <1>3, <2>1, <2>2, MulSubSeq
  <2> QED BY <2>3 DEF g, m, Rows
<1>7. \A a \in D : MulSeq(SubSeq(shape, a + 1, n - 1)) = F[before[a]]
  <2> SUFFICES ASSUME NEW a \in D PROVE MulSeq(SubSeq(shape, a + 1, n - 1)) = F[before[a]]
    OBVIOUS
  <2> DEFINE m == n - 1
             i == a + 1
             g == SubSeq(shape, a + 1, n - 1)
  <2>1. g = Neighbours(f, i, m)
    <3>0. a \in Nat /\ a >= 1 /\ a <= n - 1
      BY <1>1
    <3>1. \A k \in 1..((m - i) + 1) : k + i - 1 \in D
      BY <1>1, <3>0
    <3>2. g = [k \in 1..((m - i) + 1) |-> shape[k + i - 1]]
      <4>1. shape \in Seq(Nat \ {0}) /\ i \in Int /\ m \in Int
        BY <1>1, <3>0 DEF IsShape
      <4>2. g = [k \in 1..(m - i + 1) |-> shape[i + k - 1]]
        BY <4>1
      <4>3. m - i + 1 = (m - i) + 1 /\ \A k \in 1..(m - i + 1) : i + k - 1 = k + i - 1
        BY <1>1, <3>0
      <4> QED BY <4>2, <4>3
    <3> QED BY <3>1, <3>2 DEF Neighbours
  <2>2. m \in Nat /\ i \in Nat /\ 1 <= i /\ m <= m /\ i <= m + 1 /\ f \in [1..m -> Nat]
        /\ F \in Products(1, f, 1..m)
    BY <1>1, <1>2, <1>5
  <2>3. before[a] = i..m
    OBVIOUS
  <2> HIDE DEF g, m, f, i, before, D
  <2>4. MulSeq(g) = F[i..m]
    BY <2>1, <2>2, MulSubSeq
  <2> QED BY <2>3, <2>4 DEF g
<1>8. \A r : \A a \in D : RowCoordinate(shape, r, a) = (r \div F[before[a]]) % f[a]
  <2>1. \A a \in D : f[a] = shape[a]
    OBVIOUS
  <2> HIDE DEF D, before, f
  <2> QED BY <1>7, <2>1 DEF RowCoordinate
<1> DEFINE Q == F[D]
<1>9. PICK V \in 0..(Q - 1) : \A u \in Nat :
         (\A a \in D : (u \div F[before[a]]) % f[a] = v[a]) <=> u % Q = V
  <2> HIDE DEF D, before, f, v
  <2> QED BY <1>2, <1>3, <1>4, <1>5, DigitsAreARemainder
<1>10. Q \in Nat \ {0}
  <2>1. 1 \in Nat \ {0} /\ D \in SUBSET D
    OBVIOUS
  <2> HIDE DEF D, f
  <2> QED BY <1>2, <1>3, <1>5, <2>1, ProductsArePositive
<1> HIDE DEF Q
<1>11. \A r \in 0..(Q - 1) : r \in Nat /\ r % Q = r
  <2> SUFFICES ASSUME NEW r \in 0..(Q - 1) PROVE r \in Nat /\ r % Q = r
    OBVIOUS
  <2>1. 0 \in Nat /\ 0 * Q + r = r
    BY <1>10
  <2>2. (0 * Q + r) % Q = r
    BY <2>1, <1>10, QuotientIs
  <2> QED BY <2>1, <2>2, <1>10
<1>12. \A a \in D : v[a] = c[a]
  OBVIOUS
<1> HIDE DEF v, f, before, D
<1>13. \A r \in 0..(Q - 1) : (\A a \in D : RowCoordinate(shape, r, a) = c[a]) <=> r = V
  <2> SUFFICES ASSUME NEW r \in 0..(Q - 1)
               PROVE  (\A a \in D : RowCoordinate(shape, r, a) = c[a]) <=> r = V
    OBVIOUS
  <2>1. r \in Nat /\ r % Q = r
    BY <1>11
  <2>2. (\A a \in D : (r \div F[before[a]]) % f[a] = v[a]) <=> r % Q = V
    BY <1>9, <2>1
  <2>3. (\A a \in D : RowCoordinate(shape, r, a) = c[a])
          <=> (\A a \in D : (r \div F[before[a]]) % f[a] = v[a])
    BY <1>8, <1>12, Zenon
  <2> QED BY <2>1, <2>2, <2>3
<1>14. Rows(shape) = Q
  BY <1>6 DEF Q
<1>15. V \in 0..(Rows(shape) - 1)
  BY <1>14
<1>16. \A r \in 0..(Rows(shape) - 1) :
         (\A a \in 1..(n - 1) : RowCoordinate(shape, r, a) = c[a]) <=> r = V
  BY <1>13, <1>14 DEF D
<1> QED BY <1>15, <1>16, Zenon

-----------------------------------------------------------------------------
(* Intervals of elements, row by row *)

\* Whole blocks that hold n, by the remainder.
LEMMA CeilingIs ==
  ASSUME NEW d \in Nat \ {0}, NEW n \in Nat
  PROVE  CeilDiv(n, d) = IF n % d = 0 THEN n \div d ELSE (n \div d) + 1
<1> DEFINE q == n \div d
           s == n % d
<1>1. q \in Nat /\ s \in 0..(d - 1) /\ n = q * d + s
  BY DivMod
<1> HIDE DEF q, s
<1>2. CASE s = 0
  <2>1. n + d - 1 = q * d + (d - 1) /\ d - 1 \in 0..(d - 1)
    BY <1>1, <1>2
  <2>2. (q * d + (d - 1)) \div d = q
    BY <1>1, <2>1, QuotientIs
  <2> QED BY <1>2, <2>1, <2>2 DEF CeilDiv, q, s
<1>3. CASE s # 0
  <2>1. s - 1 \in 0..(d - 1) /\ q + 1 \in Nat
    BY <1>1, <1>3
  <2>2. n + d - 1 = (q + 1) * d + (s - 1)
    <3>1. (q + 1) * d = q * d + d /\ q * d \in Nat
      BY <1>1
    <3> QED BY <1>1, <3>1
  <2>3. ((q + 1) * d + (s - 1)) \div d = q + 1
    BY <2>1, QuotientIs
  <2> QED BY <1>3, <2>2, <2>3 DEF CeilDiv, q, s
<1> QED BY <1>2, <1>3

\* Numbers are ordered by their quotients, then by their remainders.
LEMMA OrderOfDigits ==
  ASSUME NEW w \in Nat \ {0}, NEW a \in Nat, NEW r \in Nat, NEW b \in 0..(w - 1), NEW x \in 0..(w - 1)
  PROVE  a * w + b <= r * w + x <=> (a < r \/ (a = r /\ b <= x))
<1>1. a * w \in Nat /\ r * w \in Nat /\ w \in Nat
  OBVIOUS
<1>2. CASE a < r
  <2>1. (a + 1) * w <= r * w
    <3>1. a + 1 \in Nat /\ a + 1 <= r
      BY <1>2
    <3> QED BY <3>1, <1>1, ProductsGrow
  <2>2. (a + 1) * w = a * w + w
    OBVIOUS
  <2> QED BY <1>1, <1>2, <2>1, <2>2
<1>3. CASE a = r
  BY <1>1, <1>3
<1>4. CASE r < a
  <2>1. (r + 1) * w <= a * w
    <3>1. r + 1 \in Nat /\ r + 1 <= a
      BY <1>4
    <3> QED BY <3>1, <1>1, ProductsGrow
  <2>2. (r + 1) * w = r * w + w
    OBVIOUS
  <2> QED BY <1>1, <1>4, <2>1, <2>2
<1> QED BY <1>2, <1>3, <1>4

\* Where an interval begins and ends in a row of width w.
Enters(start, w, r) == IF r = start \div w THEN start % w ELSE 0
Leaves(end, w, r) == IF r + 1 = CeilDiv(end, w) /\ ~ Divides(w, end) THEN end % w ELSE w

\* A number lies in an interval when its row does and its place in the row does.
LEMMA IntervalByRows ==
  ASSUME NEW w \in Nat \ {0}, NEW start \in Nat, NEW end \in Nat, NEW r \in Nat, NEW x \in 0..(w - 1)
  PROVE  /\ start \div w <= r /\ Enters(start, w, r) <= x <=> start <= r * w + x
         /\ r < CeilDiv(end, w) /\ x < Leaves(end, w, r) <=> r * w + x < end
<1> DEFINE a == start \div w
           b == start % w
           q == end \div w
           s == end % w
<1>1. a \in Nat /\ b \in 0..(w - 1) /\ start = a * w + b
  BY DivMod
<1>2. q \in Nat /\ s \in 0..(w - 1) /\ end = q * w + s
  BY DivMod
<1>3. CeilDiv(end, w) = IF s = 0 THEN q ELSE q + 1
  BY CeilingIs
<1>4. Divides(w, end) <=> s = 0
  BY DEF Divides
<1>5. Enters(start, w, r) = IF r = a THEN b ELSE 0
  BY DEF Enters
<1>6. Leaves(end, w, r) = IF r + 1 = CeilDiv(end, w) /\ s # 0 THEN s ELSE w
  BY <1>4 DEF Leaves
<1> HIDE DEF a, b, q, s
<1>7. start <= r * w + x <=> (a < r \/ (a = r /\ b <= x))
  BY <1>1, OrderOfDigits
<1>8. end <= r * w + x <=> (q < r \/ (q = r /\ s <= x))
  BY <1>2, OrderOfDigits
<1>9. a <= r /\ Enters(start, w, r) <= x <=> start <= r * w + x
  BY <1>1, <1>5, <1>7
<1>10. r < CeilDiv(end, w) /\ x < Leaves(end, w, r) <=> ~ (q < r \/ (q = r /\ s <= x))
  BY <1>2, <1>3, <1>6
<1>11. r * w + x \in Nat
  OBVIOUS
<1> QED BY <1>8, <1>9, <1>10, <1>11 DEF a

PartOfARow(w, start, end, r) ==
  /\ Enters(start, w, r) \in 0..(w - 1) /\ Leaves(end, w, r) \in 0..w
  /\ Enters(start, w, r) <= Leaves(end, w, r)
  /\ r * w + Enters(start, w, r) = IF r = start \div w THEN start ELSE r * w
  /\ r * w + Leaves(end, w, r) = IF r + 1 = CeilDiv(end, w) THEN end ELSE (r + 1) * w

\* The rows of an interval follow each other.
LEMMA RowsOfAnInterval ==
  ASSUME NEW w \in Nat \ {0}, NEW start \in Nat, NEW end \in Nat, start < end, NEW r \in Nat,
         start \div w <= r, r < CeilDiv(end, w)
  PROVE  PartOfARow(w, start, end, r)
<1> DEFINE a == start \div w
           b == start % w
           q == end \div w
           s == end % w
<1>1. a \in Nat /\ b \in 0..(w - 1) /\ start = a * w + b
  BY DivMod
<1>2. q \in Nat /\ s \in 0..(w - 1) /\ end = q * w + s
  BY DivMod
<1>3. CeilDiv(end, w) = IF s = 0 THEN q ELSE q + 1
  BY CeilingIs
<1>4. Divides(w, end) <=> s = 0
  BY DEF Divides
<1>5. Enters(start, w, r) = IF r = a THEN b ELSE 0
  BY DEF Enters
<1>6. Leaves(end, w, r) = IF r + 1 = CeilDiv(end, w) /\ s # 0 THEN s ELSE w
  BY <1>4 DEF Leaves
<1>7. a <= r
  OBVIOUS
<1> HIDE DEF a, b, q, s
<1>8. ~ (end <= start)
  OBVIOUS
<1>9. ~ (q < a \/ (q = a /\ s <= b))
  BY <1>1, <1>2, <1>8, OrderOfDigits
<1>10. r * w \in Nat /\ (r + 1) * w = r * w + w
  OBVIOUS
<1>11. /\ Enters(start, w, r) \in 0..(w - 1) /\ Leaves(end, w, r) \in 0..w
       /\ Enters(start, w, r) <= Leaves(end, w, r)
  BY <1>1, <1>2, <1>3, <1>5, <1>6, <1>7, <1>9
<1>12. r * w + Enters(start, w, r) = IF r = a THEN start ELSE r * w
  BY <1>1, <1>5, <1>10
<1>13. r * w + Leaves(end, w, r) = IF r + 1 = CeilDiv(end, w) THEN end ELSE (r + 1) * w
  <2>1. CASE r + 1 = CeilDiv(end, w) /\ s # 0
    <3>1. r = q
      BY <1>2, <1>3, <2>1
    <3> QED BY <1>2, <1>6, <2>1, <3>1
  <2>2. CASE r + 1 = CeilDiv(end, w) /\ s = 0
    <3>1. r + 1 = q
      BY <1>3, <2>2
    <3>2. end = (r + 1) * w
      BY <1>2, <2>2, <3>1
    <3> QED BY <1>6, <1>10, <2>2, <3>2
  <2>3. CASE r + 1 # CeilDiv(end, w)
    BY <1>6, <1>10, <2>3
  <2> QED BY <2>1, <2>2, <2>3
<1> QED BY <1>11, <1>12, <1>13 DEF a, PartOfARow

-----------------------------------------------------------------------------
(* Flat ownership: the grains of a tensor, handed to the tiles *)

FlatBound(elements, grain, tiles, p) == BlocksBefore(CeilDiv(elements, grain), tiles, p) * grain

\* Where there are enough blocks, every part gets one.
LEMMA EveryPartHasABlock ==
  ASSUME NEW blocks \in Nat, NEW P \in Nat \ {0}, blocks >= P, NEW p \in 0..(P - 1)
  PROVE  /\ BlocksBefore(blocks, P, p) \in Nat /\ BlocksBefore(blocks, P, p + 1) \in Nat
         /\ BlocksBefore(blocks, P, p) < BlocksBefore(blocks, P, p + 1)
         /\ BlocksBefore(blocks, P, p + 1) <= blocks
<1> DEFINE q == blocks \div P
           r == blocks % P
           f == [k \in 0..P |-> BlocksBefore(blocks, P, k)]
<1>1. q \in Nat /\ r \in 0..(P - 1) /\ blocks = q * P + r
  BY DivMod
<1>2. q >= 1
  <2>1. q = 0 => q * P = 0
    BY <1>1
  <2> HIDE DEF q, r
  <2> QED BY <1>1, <2>1
<1>3. BlocksBefore(blocks, P, p) = p * q + (IF p < r THEN p ELSE r)
      /\ BlocksBefore(blocks, P, p + 1) = (p + 1) * q + (IF p + 1 < r THEN p + 1 ELSE r)
  BY DEF BlocksBefore, Least
<1>4. f \in [0..P -> Nat] /\ Ascends(f, P) /\ f[P] = blocks
  <2>1. \A k \in 0..(P - 1) : k \in 0..P /\ k + 1 \in 0..P /\ P \in 0..P /\ 0 \in 0..P
    OBVIOUS
  <2> QED BY <2>1, BlocksAreShared DEF Ascends
<1>5. f[p + 1] <= f[P] /\ f[p] = BlocksBefore(blocks, P, p)
      /\ f[p + 1] = BlocksBefore(blocks, P, p + 1)
  <2>1. p \in 0..P /\ p + 1 \in 0..P /\ P \in 0..P /\ p + 1 <= P /\ P \in Nat
    OBVIOUS
  <2>2. f[p + 1] <= f[P]
    <3> HIDE DEF f
    <3> QED BY <2>1, <1>4, BoundsInOrder
  <2> QED BY <2>1, <2>2
<1>6. f[p] \in Nat /\ f[p + 1] \in Nat
  BY <1>4
<1> HIDE DEF q, r, f
<1>7. (p + 1) * q = p * q + q /\ p * q \in Nat
  BY <1>1
<1>8. BlocksBefore(blocks, P, p) < BlocksBefore(blocks, P, p + 1)
  BY <1>1, <1>2, <1>3, <1>7
<1> QED BY <1>4, <1>5, <1>6, <1>8

FlatBoundsOf(elements, grain, tiles) == [p \in 0..tiles |-> FlatBound(elements, grain, tiles, p)]

FlatCuts(elements, grain, tiles, f) ==
  /\ f \in [0..tiles -> Nat] /\ Ascends(f, tiles) /\ elements <= f[tiles]
  /\ \A t \in 0..(tiles - 1) :
        /\ f[t] = FlatBound(elements, grain, tiles, t)
        /\ f[t + 1] = FlatBound(elements, grain, tiles, t + 1)
        /\ f[t] < elements /\ f[t] < f[t + 1]
        /\ f[t + 1] - f[t]
              = (BlocksBefore(CeilDiv(elements, grain), tiles, t + 1)
                   - BlocksBefore(CeilDiv(elements, grain), tiles, t)) * grain
        /\ f[t + 1] - f[t] <= CeilDiv(CeilDiv(elements, grain), tiles) * grain

\* The tiles take the elements in order, no two the same, each at least one.
LEMMA FlatBounds ==
  ASSUME NEW elements \in Nat \ {0}, NEW grain \in Nat \ {0}, NEW tiles \in Nat \ {0},
         CeilDiv(elements, grain) >= tiles
  PROVE  FlatCuts(elements, grain, tiles, FlatBoundsOf(elements, grain, tiles))
<1> DEFINE grains == CeilDiv(elements, grain)
           share == CeilDiv(grains, tiles)
           b(p) == BlocksBefore(grains, tiles, p)
           f == [p \in 0..tiles |-> FlatBound(elements, grain, tiles, p)]
<1>1. grains \in Nat /\ grains >= tiles /\ elements <= grains * grain /\ grains * grain < elements + grain
  BY RoundingUp
<1> HIDE DEF grains
<1>2. share \in Nat
  BY <1>1, RoundingUp
<1>3. \A p \in 0..tiles : f[p] = b(p) * grain /\ b(p) \in Nat
  BY <1>1, BlocksAreShared DEF FlatBound, grains
<1>4. b(0) = 0 /\ b(tiles) = grains
  BY <1>1, BlocksAreShared
<1>5. \A t \in 0..(tiles - 1) :
         b(t) \in Nat /\ b(t + 1) \in Nat /\ b(t) < b(t + 1) /\ b(t + 1) <= grains
           /\ b(t + 1) <= b(t) + share
  BY <1>1, BlocksAreShared, EveryPartHasABlock
<1> HIDE DEF share, b
<1>6. f \in [0..tiles -> Nat]
  <2>1. \A p \in 0..tiles : f[p] \in Nat
    BY <1>3
  <2> QED BY <2>1
<1>7. elements <= f[tiles] /\ f[0] = 0
  BY <1>1, <1>3, <1>4
<1>8. ASSUME NEW t \in 0..(tiles - 1)
      PROVE  /\ f[t] = FlatBound(elements, grain, tiles, t)
             /\ f[t + 1] = FlatBound(elements, grain, tiles, t + 1)
             /\ f[t] < elements /\ f[t] < f[t + 1]
             /\ f[t + 1] - f[t] = (b(t + 1) - b(t)) * grain
             /\ f[t + 1] - f[t] <= share * grain
  <2>1. t \in 0..tiles /\ t + 1 \in 0..tiles
    OBVIOUS
  <2>2. f[t] = b(t) * grain /\ f[t + 1] = b(t + 1) * grain
    BY <1>3, <2>1
  <2>3. b(t) \in Nat /\ b(t + 1) \in Nat /\ b(t) + 1 <= b(t + 1) /\ b(t + 1) <= grains
        /\ b(t + 1) <= b(t) + share
    BY <1>5
  <2> DEFINE x == b(t)
             y == b(t + 1)
  <2> HIDE DEF x, y
  <2>4. x \in Nat /\ y \in Nat /\ x + 1 <= y /\ y <= grains /\ y <= x + share
    BY <2>3 DEF x, y
  <2>5. (x + 1) * grain <= y * grain /\ y * grain <= grains * grain
        /\ y * grain <= (x + share) * grain
    BY <1>1, <1>2, <2>4, ProductsGrow
  <2>6. (x + 1) * grain = x * grain + grain /\ x * grain \in Nat /\ y * grain \in Nat
        /\ (x + share) * grain = x * grain + share * grain
        /\ (y - x) * grain = y * grain - x * grain /\ share * grain \in Nat /\ grains * grain \in Nat
    BY <1>1, <1>2, <2>4
  <2>7. x * grain < elements /\ x * grain < y * grain /\ y * grain - x * grain <= share * grain
    BY <1>1, <2>5, <2>6
  <2> QED BY <2>1, <2>2, <2>6, <2>7 DEF x, y
<1>9. Ascends(f, tiles)
  <2>1. \A t \in 0..(tiles - 1) : f[t] \in Nat /\ f[t + 1] \in Nat
    BY <1>6
  <2> HIDE DEF f
  <2> QED BY <1>7, <1>8, <2>1 DEF Ascends
<1> HIDE DEF f
<1>10. \A t \in 0..(tiles - 1) :
         /\ f[t] = FlatBound(elements, grain, tiles, t)
         /\ f[t + 1] = FlatBound(elements, grain, tiles, t + 1)
         /\ f[t] < elements /\ f[t] < f[t + 1]
         /\ f[t + 1] - f[t] = (b(t + 1) - b(t)) * grain
         /\ f[t + 1] - f[t] <= share * grain
  BY <1>8
<1>11. FlatCuts(elements, grain, tiles, f)
  BY <1>6, <1>7, <1>9, <1>10 DEF b, share, grains, FlatCuts
<1> QED BY <1>11 DEF f, FlatBoundsOf

\* What a flat layout gives.
LEMMA FlatLayout ==
  ASSUME NEW layout, NEW shape, IsLayout(layout), IsShape(shape), Resolvable(layout, shape),
         LinearGrain(layout) # -1
  PROVE  /\ LinearGrain(layout) \in Nat \ {0} /\ layout.tiles \in Nat \ {0} /\ shape # <<>>
         /\ CeilDiv(MulSeq(shape), LinearGrain(layout)) >= layout.tiles
<1>1. FlatAccepts(layout, shape) /\ layout.tiles # 0
  BY DEF Resolvable
<1>2. shape # <<>> /\ LinearGrain(layout) # 0
      /\ CeilDiv(MulSeq(shape), LinearGrain(layout)) >= layout.tiles
  BY <1>1 DEF FlatAccepts
<1>3. LinearGrain(layout) \in Nat
  <2>1. LinearGrain(layout) = layout.axes[1].block /\ Len(layout.axes) = 1
    BY DEF LinearGrain
  <2>2. layout.axes[1] \in AxisTilings
    BY <2>1, AxesOfALayout
  <2> QED BY <2>1, <2>2 DEF AxisTilings
<1> QED BY <1>1, <1>2, <1>3 DEF IsLayout

-----------------------------------------------------------------------------
(* Fragments of rows *)

\* A product of ones and a last factor.
LEMMA OnesAndALast ==
  ASSUME NEW n \in Nat \ {0}, NEW f \in [1..n -> Nat], \A i \in 1..(n - 1) : f[i] = 1
  PROVE  MulSeq(f) = f[n]
<1>1. IsFiniteSet(1..n) /\ 1 \in Nat /\ n \in Nat
  BY FS_Interval
<1>2. PICK F : F \in Products(1, f, 1..n)
  BY <1>1, ProductsExist
<1>3. MulSeq(f) = F[1..n]
  BY <1>1, <1>2, MulSeqIsProduct
<1>4. F[{}] = 1 /\ \A s \in SUBSET (1..n) : F[s] \in Nat /\ \A x \in s : F[s] = F[s \ {x}] * f[x]
  BY <1>2 DEF Products
<1>5. ASSUME NEW k \in 1..n PROVE F[1..k] = F[1..(k - 1)] * f[k] /\ F[1..(k - 1)] \in Nat
  <2>1. 1..k \in SUBSET (1..n) /\ 1..(k - 1) \in SUBSET (1..n) /\ k \in 1..k /\ (1..k) \ {k} = 1..(k - 1)
    OBVIOUS
  <2>2. F[1..k] = F[(1..k) \ {k}] * f[k]
    BY <1>4, <2>1
  <2> QED BY <1>4, <2>1, <2>2
<1> DEFINE Bad == {k \in 0..(n - 1) : F[1..k] # 1}
<1>6. Bad = {}
  <2>1. SUFFICES ASSUME Bad # {} PROVE FALSE
    OBVIOUS
  <2>2. Bad \subseteq Nat
    OBVIOUS
  <2>3. PICK k \in Bad : \A m \in Bad : k <= m
    <3> HIDE DEF Bad
    <3> QED BY <2>1, <2>2, LeastOf
  <2>4. k # 0
    <3>1. 1..0 = {}
      OBVIOUS
    <3>2. F[1..0] = 1
      BY <1>4, <3>1
    <3> QED BY <2>3, <3>2
  <2>5. k - 1 \in 0..(n - 1) /\ k \in 1..n /\ ~ (k <= k - 1) /\ f[k] = 1
    BY <2>3, <2>4
  <2>6. F[1..(k - 1)] = 1
    BY <2>3, <2>5
  <2>7. F[1..k] = 1
    BY <1>5, <2>5, <2>6
  <2> QED BY <2>3, <2>7
<1>7. F[1..(n - 1)] = 1
  <2>1. n - 1 \in 0..(n - 1)
    OBVIOUS
  <2> QED BY <1>6, <2>1
<1>8. F[1..n] = F[1..(n - 1)] * f[n] /\ f[n] \in Nat
  BY <1>5
<1> QED BY <1>3, <1>7, <1>8

\* The coordinates of a row are numbers.
LEMMA RowCoordinates ==
  ASSUME NEW shape, IsShape(shape), shape # <<>>, NEW row \in Nat, NEW axis \in 1..(Len(shape) - 1)
  PROVE  RowCoordinate(shape, row, axis) \in Nat
<1> DEFINE n == Len(shape)
           i == axis + 1
           j == n - 1
           g == SubSeq(shape, axis + 1, n - 1)
<1>1. n \in Nat /\ shape \in [1..n -> Nat \ {0}] /\ shape \in [1..n -> Nat]
      /\ shape \in Seq(Nat \ {0}) /\ i \in Nat /\ j \in Nat
      /\ 1 <= i /\ j <= n /\ i <= j + 1 /\ shape[axis] \in Nat \ {0}
  BY ElementsAreRows DEF IsShape
<1>2. IsFiniteSet(1..n) /\ 1 \in Nat /\ 1 \in Nat \ {0}
  BY <1>1, FS_Interval
<1>3. g = Neighbours(shape, i, j)
  <2>1. g = [k \in 1..(j - i + 1) |-> shape[i + k - 1]]
    BY <1>1
  <2>2. j - i + 1 = (j - i) + 1 /\ \A k \in 1..(j - i + 1) : i + k - 1 = k + i - 1
    BY <1>1
  <2> QED BY <2>1, <2>2 DEF Neighbours
<1>4. i..j \in SUBSET (1..n)
  BY <1>1
<1> HIDE DEF n, i, j, g
<1>5. PICK F : F \in Products(1, shape, 1..n)
  BY <1>1, <1>2, ProductsExist
<1>6. MulSeq(g) = F[i..j]
  BY <1>1, <1>3, <1>5, MulSubSeq
<1>7. F[i..j] \in Nat \ {0}
  BY <1>1, <1>2, <1>4, <1>5, ProductsArePositive
<1> DEFINE d == MulSeq(g)
           s == shape[axis]
<1>8. d \in Nat \ {0} /\ s \in Nat \ {0}
  BY <1>1, <1>6, <1>7
<1>9. RowCoordinate(shape, row, axis) = (row \div d) % s
  BY DEF RowCoordinate, g, n
<1> HIDE DEF d, s
<1>10. row \div d \in Nat
  BY <1>8, DivMod
<1>11. (row \div d) % s \in 0..(s - 1)
  BY <1>8, <1>10, DivMod
<1> QED BY <1>8, <1>9, <1>11

\* What a fragment of a row is on each axis.
LEMMA FragmentOnAnAxis ==
  ASSUME NEW shape, IsShape(shape), shape # <<>>, NEW row, NEW start, NEW end, NEW tail
  PROVE  LET shard == RowFragment(shape, row, start, end, tail)
             n == Len(shape)
             w == Last(shape)
             left == Enters(start, w, row)
             right == Leaves(end, w, row)
         IN  /\ DOMAIN shard = 1..n /\ n \in 1..n
             /\ shard[n].start = left /\ shard[n].logical = right
             /\ shard[n].physical = right + (IF row + 1 = CeilDiv(end, w) THEN tail ELSE 0)
             /\ \A axis \in 1..(n - 1) :
                   /\ axis \in 1..n
                   /\ shard[axis].start = RowCoordinate(shape, row, axis)
                   /\ shard[axis].logical = RowCoordinate(shape, row, axis) + 1
                   /\ shard[axis].physical = RowCoordinate(shape, row, axis) + 1
<1> DEFINE n == Len(shape)
           shard == RowFragment(shape, row, start, end, tail)
<1>1. n \in Nat \ {0} /\ DOMAIN shape = 1..n /\ n \in 1..n
  BY ElementsAreRows DEF IsShape
<1>2. \A axis \in 1..(n - 1) : axis \in 1..n /\ axis # n
  <2> HIDE DEF n
  <2> QED BY <1>1
<1> DEFINE w == Last(shape)
           left == Enters(start, w, row)
           right == Leaves(end, w, row)
           more == IF row + 1 = CeilDiv(end, w) THEN tail ELSE 0
<1>3. shard = [axis \in DOMAIN shape |->
           IF axis = n THEN Extent(left, right, right + more)
           ELSE Extent(RowCoordinate(shape, row, axis), RowCoordinate(shape, row, axis) + 1,
                       RowCoordinate(shape, row, axis) + 1)]
  BY DEF RowFragment, Enters, Leaves
<1> HIDE DEF shard, left, right, more, n
<1>4. DOMAIN shard = 1..n /\ shard[n] = Extent(left, right, right + more)
  BY <1>1, <1>3
<1>5. \A axis \in 1..(n - 1) :
         shard[axis] = Extent(RowCoordinate(shape, row, axis), RowCoordinate(shape, row, axis) + 1,
                              RowCoordinate(shape, row, axis) + 1)
  BY <1>1, <1>2, <1>3
<1>6. shard[n].start = left /\ shard[n].logical = right /\ shard[n].physical = right + more
  BY <1>4 DEF Extent
<1>7. \A a, b, c : Extent(a, b, c).start = a /\ Extent(a, b, c).logical = b /\ Extent(a, b, c).physical = c
  BY DEF Extent
<1>8. \A axis \in 1..(n - 1) :
         /\ axis \in 1..n
         /\ shard[axis].start = RowCoordinate(shape, row, axis)
         /\ shard[axis].logical = RowCoordinate(shape, row, axis) + 1
         /\ shard[axis].physical = RowCoordinate(shape, row, axis) + 1
  <2> SUFFICES ASSUME NEW axis \in 1..(n - 1)
               PROVE  /\ axis \in 1..n
                      /\ shard[axis].start = RowCoordinate(shape, row, axis)
                      /\ shard[axis].logical = RowCoordinate(shape, row, axis) + 1
                      /\ shard[axis].physical = RowCoordinate(shape, row, axis) + 1
    OBVIOUS
  <2> DEFINE at == RowCoordinate(shape, row, axis)
             after == at + 1
  <2>1. shard[axis] = Extent(at, after, after)
    BY <1>5
  <2> HIDE DEF at, after
  <2>2. shard[axis].start = at /\ shard[axis].logical = after /\ shard[axis].physical = after
    BY <1>7, <2>1
  <2> QED BY <1>2, <2>2 DEF at, after
<1> QED BY <1>1, <1>4, <1>6, <1>8 DEF n, shard, left, right, more

\* The elements a fragment of a row holds are those of its row from where the
\* interval enters it to where it leaves it.
LEMMA FragmentHolds ==
  ASSUME NEW shape, IsShape(shape), shape # <<>>, NEW row \in Nat, NEW start, NEW end, NEW tail,
         NEW c \in Elements(shape)
  PROVE  Holds(RowFragment(shape, row, start, end, tail), c)
            <=> /\ \A axis \in 1..(Len(shape) - 1) : RowCoordinate(shape, row, axis) = c[axis]
                /\ Enters(start, Last(shape), row) <= c[Len(shape)]
                /\ c[Len(shape)] < Leaves(end, Last(shape), row)
<1> DEFINE n == Len(shape)
           shard == RowFragment(shape, row, start, end, tail)
           w == Last(shape)
<1>1. /\ DOMAIN shard = 1..n /\ n \in 1..n
      /\ shard[n].start = Enters(start, w, row) /\ shard[n].logical = Leaves(end, w, row)
      /\ \A axis \in 1..(n - 1) :
            /\ axis \in 1..n
            /\ shard[axis].start = RowCoordinate(shape, row, axis)
            /\ shard[axis].logical = RowCoordinate(shape, row, axis) + 1
  BY FragmentOnAnAxis
<1>2. \A axis \in 1..(n - 1) : RowCoordinate(shape, row, axis) \in Nat
  BY RowCoordinates
<1>3. n \in Nat /\ \A axis \in 1..n : c[axis] \in Nat
  BY <1>1, ElementsAreRows DEF Elements, IsShape
<1> HIDE DEF shard, n, w
<1>4. \A axis \in 1..(n - 1) :
         shard[axis].start <= c[axis] /\ c[axis] < shard[axis].logical
            <=> RowCoordinate(shape, row, axis) = c[axis]
  BY <1>1, <1>2, <1>3
<1>5. \A axis \in 1..n : axis = n \/ axis \in 1..(n - 1)
  BY <1>3
<1>6. Holds(shard, c) <=> \A axis \in 1..n : shard[axis].start <= c[axis] /\ c[axis] < shard[axis].logical
  BY <1>1 DEF Holds
<1> QED BY <1>1, <1>4, <1>5, <1>6 DEF shard, n, w

\* A fragment of a row is an interval on each axis; it fills the part of its row
\* that the interval has, and the last one the rest of the allocation.
LEMMA SizeOfAFragment ==
  ASSUME NEW shape, IsShape(shape), shape # <<>>, NEW row \in Nat, NEW start, NEW end, NEW tail \in Nat,
         Enters(start, Last(shape), row) \in Nat, Leaves(end, Last(shape), row) \in Nat,
         Enters(start, Last(shape), row) <= Leaves(end, Last(shape), row)
  PROVE  /\ Sane(RowFragment(shape, row, start, end, tail))
         /\ ShardVolume(RowFragment(shape, row, start, end, tail))
              = (Leaves(end, Last(shape), row) - Enters(start, Last(shape), row))
                   + (IF row + 1 = CeilDiv(end, Last(shape)) THEN tail ELSE 0)
<1> DEFINE n == Len(shape)
           shard == RowFragment(shape, row, start, end, tail)
           left == Enters(start, Last(shape), row)
           right == Leaves(end, Last(shape), row)
           more == IF row + 1 = CeilDiv(end, Last(shape)) THEN tail ELSE 0
           f == [a \in DOMAIN shard |-> Width(shard[a])]
<1>1. /\ DOMAIN shard = 1..n /\ n \in 1..n
      /\ shard[n].start = left /\ shard[n].logical = right /\ shard[n].physical = right + more
      /\ \A axis \in 1..(n - 1) :
            /\ axis \in 1..n
            /\ shard[axis].start = RowCoordinate(shape, row, axis)
            /\ shard[axis].logical = RowCoordinate(shape, row, axis) + 1
            /\ shard[axis].physical = RowCoordinate(shape, row, axis) + 1
  BY FragmentOnAnAxis
<1>2. \A axis \in 1..(n - 1) : RowCoordinate(shape, row, axis) \in Nat
  BY RowCoordinates
<1>3. n \in Nat \ {0} /\ left \in Nat /\ right \in Nat /\ left <= right /\ more \in Nat
  BY ElementsAreRows
<1> HIDE DEF shard, n, left, right, more
<1>4. \A axis \in 1..n : axis = n \/ axis \in 1..(n - 1)
  BY <1>3
<1>5. f \in [1..n -> Nat] /\ f[n] = (right - left) + more /\ \A i \in 1..(n - 1) : f[i] = 1
  <2>1. f[n] = (right - left) + more /\ f[n] \in Nat
    BY <1>1, <1>3 DEF Width
  <2>2. \A i \in 1..(n - 1) : f[i] = 1
    BY <1>1, <1>2 DEF Width
  <2>3. \A i \in 1..n : f[i] \in Nat
    <3> HIDE DEF f
    <3> QED BY <1>4, <2>1, <2>2
  <2>4. f \in [1..n -> Nat]
    BY <1>1, <2>3
  <2> QED BY <2>1, <2>2, <2>4
<1>6. ShardVolume(shard) = MulSeq(f)
  BY DEF ShardVolume
<1> HIDE DEF f
<1>7. MulSeq(f) = f[n]
  BY <1>3, <1>5, OnesAndALast
<1>8. Sane(shard)
  <2>1. shard[n].start <= shard[n].logical /\ shard[n].logical <= shard[n].physical
    BY <1>1, <1>3
  <2>2. \A axis \in 1..(n - 1) : shard[axis].start <= shard[axis].logical
                                 /\ shard[axis].logical <= shard[axis].physical
    BY <1>1, <1>2
  <2> QED BY <1>1, <1>4, <2>1, <2>2 DEF Sane
<1> QED BY <1>5, <1>6, <1>7, <1>8 DEF shard, left, right, more

Fragments(shape, start, end, tail) ==
  [k \in 1..(CeilDiv(end, Last(shape)) - (start \div Last(shape))) |->
      RowFragment(shape, ((start \div Last(shape)) + k) - 1, start, end, tail)]

\* The rows of an interval, counted.
LEMMA FragmentsOfAnInterval ==
  ASSUME NEW w \in Nat \ {0}, NEW rows \in Nat \ {0}, NEW start \in Nat, NEW end \in Nat,
         start < end, end <= rows * w
  PROVE  /\ start \div w \in Nat /\ CeilDiv(end, w) \in Nat
         /\ start \div w < CeilDiv(end, w) /\ CeilDiv(end, w) <= rows /\ rows <= rows * w
<1> DEFINE a == start \div w
           b == start % w
           q == end \div w
           s == end % w
<1>1. a \in Nat /\ b \in 0..(w - 1) /\ start = a * w + b
  BY DivMod
<1>2. q \in Nat /\ s \in 0..(w - 1) /\ end = q * w + s
  BY DivMod
<1>3. CeilDiv(end, w) = IF s = 0 THEN q ELSE q + 1
  BY CeilingIs
<1> HIDE DEF a, b, q, s
<1>4. ~ (end <= start)
  OBVIOUS
<1>5. ~ (q < a \/ (q = a /\ s <= b))
  BY <1>1, <1>2, <1>4, OrderOfDigits
<1>6. q < rows \/ (q = rows /\ s <= 0)
  <2>1. 0 \in 0..(w - 1) /\ rows * w + 0 = rows * w /\ rows \in Nat
    OBVIOUS
  <2>2. q * w + s <= rows * w + 0
    BY <1>2, <2>1
  <2> QED BY <1>2, <2>1, <2>2, OrderOfDigits
<1>7. rows <= rows * w
  <2>1. 1 * rows <= w * rows
    <3>1. 1 \in Nat /\ w \in Nat /\ 1 <= w /\ rows \in Nat
      OBVIOUS
    <3> QED BY <3>1, ProductsGrow
  <2>2. 1 * rows = rows /\ w * rows = rows * w
    OBVIOUS
  <2> QED BY <2>1, <2>2
<1>8. a < CeilDiv(end, w) /\ CeilDiv(end, w) <= rows /\ CeilDiv(end, w) \in Nat
  BY <1>1, <1>2, <1>3, <1>5, <1>6
<1> QED BY <1>1, <1>7, <1>8 DEF a

\* The fragments of an interval are sane, and fill it and the rest of the allocation.
LEMMA FragmentsFillTheInterval ==
  ASSUME NEW shape, IsShape(shape), shape # <<>>, NEW start \in Nat, NEW end \in Nat,
         start < end, end <= MulSeq(shape), NEW tail \in Nat
  PROVE  /\ \A k \in DOMAIN Fragments(shape, start, end, tail) :
               Sane(Fragments(shape, start, end, tail)[k])
         /\ Volumes(Fragments(shape, start, end, tail)) = (end - start) + tail
<1> DEFINE w == Last(shape)
           first == start \div w
           rows == CeilDiv(end, w)
           m == rows - first
           shards == Fragments(shape, start, end, tail)
           left(r) == Enters(start, w, r)
           right(r) == Leaves(end, w, r)
           P == [k \in 0..m |-> IF k = m THEN (end - start) + tail
                                ELSE IF k = 0 THEN 0 ELSE (first + k) * w - start]
<1>1. w \in Nat \ {0} /\ Rows(shape) \in Nat \ {0} /\ end <= Rows(shape) * w
  BY ElementsAreRows
<1>2. first \in Nat /\ rows \in Nat /\ first < rows /\ m \in Nat \ {0}
  <2> HIDE DEF w
  <2>1. first \in Nat /\ rows \in Nat /\ first < rows
    BY <1>1, FragmentsOfAnInterval
  <2> HIDE DEF first, rows
  <2> QED BY <2>1
<1>3. DOMAIN shards = 1..m
      /\ \A k \in 1..m : shards[k] = RowFragment(shape, (first + k) - 1, start, end, tail)
  BY DEF Fragments
<1> HIDE DEF shards, first, rows, w
<1>4. ASSUME NEW k \in 1..m
      PROVE  LET r == (first + k) - 1
             IN  /\ r \in Nat /\ first <= r /\ r < rows /\ (r = first <=> k = 1)
                 /\ (r + 1 = rows <=> k = m) /\ r + 1 = first + k /\ r = first + (k - 1)
  BY <1>2
<1>5. ASSUME NEW k \in 1..m
      PROVE  LET r == (first + k) - 1
             IN  /\ left(r) \in Nat /\ right(r) \in Nat /\ left(r) <= right(r)
                 /\ r * w + left(r) = IF k = 1 THEN start ELSE r * w
                 /\ r * w + right(r) = IF k = m THEN end ELSE (r + 1) * w
                 /\ r * w \in Nat /\ (r + 1) * w \in Nat
  <2> DEFINE r == (first + k) - 1
  <2>1. r \in Nat /\ first <= r /\ r < rows /\ (r = first <=> k = 1) /\ (r + 1 = rows <=> k = m)
    BY <1>4
  <2> HIDE DEF r, m
  <2>2. /\ left(r) \in 0..(w - 1) /\ right(r) \in 0..w /\ left(r) <= right(r)
        /\ r * w + left(r) = IF r = first THEN start ELSE r * w
        /\ r * w + right(r) = IF r + 1 = rows THEN end ELSE (r + 1) * w
    <3>1. start \div w <= r /\ r < CeilDiv(end, w)
      BY <2>1 DEF first, rows
    <3>2. PartOfARow(w, start, end, r)
      <4>1. r \in Nat
        BY <2>1
      <4> QED BY <1>1, <3>1, <4>1, RowsOfAnInterval
    <3> QED BY <3>2 DEF first, rows, PartOfARow
  <2>3. r * w \in Nat /\ (r + 1) * w \in Nat
    BY <1>1, <2>1
  <2> HIDE DEF left, right
  <2>4. left(r) \in Nat /\ right(r) \in Nat
    BY <1>1, <2>2
  <2> QED BY <2>1, <2>2, <2>3, <2>4 DEF r
<1>6. ASSUME NEW k \in 1..m
      PROVE  LET r == (first + k) - 1
             IN  /\ Sane(shards[k])
                 /\ ShardVolume(shards[k]) = (right(r) - left(r)) + (IF k = m THEN tail ELSE 0)
  <2> DEFINE r == (first + k) - 1
  <2>1. r \in Nat /\ (r + 1 = rows <=> k = m)
    BY <1>4
  <2>2. left(r) \in Nat /\ right(r) \in Nat /\ left(r) <= right(r)
    BY <1>5
  <2>3. shards[k] = RowFragment(shape, r, start, end, tail)
    BY <1>3
  <2> HIDE DEF r, m
  <2>4. /\ Sane(RowFragment(shape, r, start, end, tail))
        /\ ShardVolume(RowFragment(shape, r, start, end, tail))
             = (right(r) - left(r)) + (IF r + 1 = rows THEN tail ELSE 0)
    BY <2>1, <2>2, SizeOfAFragment DEF w, rows
  <2> QED BY <2>1, <2>3, <2>4 DEF r
<1> HIDE DEF left, right
<1>7. P \in [0..m -> Int] /\ P[0] = 0 /\ P[m] = (end - start) + tail
  <2>1. \A k \in 0..m : first + k \in Nat /\ (first + k) * w \in Int
    BY <1>1, <1>2
  <2> QED BY <1>2, <2>1
<1>8. ASSUME NEW k \in 1..m
      PROVE  ShardVolume(shards[k]) \in Nat /\ P[k] = P[k - 1] + ShardVolume(shards[k])
  <2> DEFINE r == (first + k) - 1
             v == ShardVolume(shards[k])
             x == r * w
             y == (r + 1) * w
             a == left(r)
             b == right(r)
  <2>1. a \in Nat /\ b \in Nat /\ a <= b /\ x \in Nat /\ y \in Nat
        /\ x + a = (IF k = 1 THEN start ELSE x) /\ x + b = (IF k = m THEN end ELSE y)
    BY <1>5
  <2>2. v = (b - a) + (IF k = m THEN tail ELSE 0)
    BY <1>6
  <2>3. r + 1 = first + k /\ r = first + (k - 1)
    BY <1>4
  <2>4. P[k] = IF k = m THEN (end - start) + tail ELSE y - start
    <3>1. k \in 0..m /\ k # 0
      BY <1>2
    <3> HIDE DEF r, m
    <3> QED BY <2>3, <3>1
  <2>5. P[k - 1] = IF k = 1 THEN 0 ELSE x - start
    <3>1. k - 1 \in 0..m /\ k - 1 # m /\ (k - 1 = 0 <=> k = 1)
      BY <1>2
    <3> HIDE DEF r, m
    <3> QED BY <2>3, <3>1
  <2> HIDE DEF v, x, y, a, b, P, m
  <2>6. v \in Nat /\ P[k] = P[k - 1] + v
    BY <2>1, <2>2, <2>4, <2>5
  <2> QED BY <2>6 DEF v
<1> HIDE DEF P
<1>9. P \in [0..m -> Nat]
  <2> DEFINE Bad == {k \in 0..m : P[k] \notin Nat}
  <2>1. Bad = {}
    <3>1. SUFFICES ASSUME Bad # {} PROVE FALSE
      OBVIOUS
    <3>2. Bad \subseteq Nat
      OBVIOUS
    <3>3. PICK k \in Bad : \A j \in Bad : k <= j
      <4> HIDE DEF Bad
      <4> QED BY <3>1, <3>2, LeastOf
    <3>4. k # 0
      BY <1>7, <3>3
    <3>5. k \in 1..m /\ k - 1 \in 0..m /\ ~ (k <= k - 1)
      BY <1>2, <3>3, <3>4
    <3>6. P[k - 1] \in Nat
      BY <3>3, <3>5
    <3>7. P[k] \in Nat
      <4>1. ShardVolume(shards[k]) \in Nat /\ P[k] = P[k - 1] + ShardVolume(shards[k])
        BY <1>8, <3>5
      <4> HIDE DEF Bad
      <4> QED BY <3>6, <4>1
    <3> QED BY <3>3, <3>7
  <2> QED BY <1>7, <2>1
<1> HIDE DEF m
<1>10. Volumes(shards) = P[m]
  <2>1. m \in Nat
    BY <1>2
  <2> QED BY <1>3, <1>7, <1>8, <1>9, <2>1, VolumesAddUp
<1>11. \A k \in DOMAIN shards : Sane(shards[k])
  BY <1>3, <1>6
<1> QED BY <1>7, <1>10, <1>11 DEF shards

IsRowOf(shape, row, c) ==
  \A r \in 0..(Rows(shape) - 1) :
     (\A axis \in 1..(Len(shape) - 1) : RowCoordinate(shape, r, axis) = c[axis]) <=> r = row

\* One fragment of an interval holds an element in it, and none another element.
LEMMA FragmentsHold ==
  ASSUME NEW shape, IsShape(shape), shape # <<>>, NEW start \in Nat, NEW end \in Nat,
         start < end, end <= MulSeq(shape), NEW tail \in Nat, NEW c \in Elements(shape),
         NEW row \in 0..(Rows(shape) - 1), IsRowOf(shape, row, c)
  PROVE  LET shards == Fragments(shape, start, end, tail)
             y == row * Last(shape) + c[Len(shape)]
         IN  IF start <= y /\ y < end
             THEN \E k \in 1..MulSeq(shape) :
                     k \in DOMAIN shards /\ \A j \in DOMAIN shards : Holds(shards[j], c) <=> j = k
             ELSE \A j \in DOMAIN shards : ~ Holds(shards[j], c)
<1> DEFINE w == Last(shape)
           n == Len(shape)
           first == start \div w
           rows == CeilDiv(end, w)
           m == rows - first
           shards == Fragments(shape, start, end, tail)
           x == c[n]
           y == row * w + x
<1>1. w \in Nat \ {0} /\ Rows(shape) \in Nat \ {0} /\ end <= Rows(shape) * w
      /\ MulSeq(shape) = Rows(shape) * w /\ x \in 0..(w - 1) /\ row \in Nat
  <2>1. /\ w \in Nat \ {0} /\ Rows(shape) \in Nat \ {0} /\ end <= Rows(shape) * w
        /\ MulSeq(shape) = Rows(shape) * w /\ w = shape[n] /\ n \in Nat \ {0}
    BY ElementsAreRows
  <2>2. n \in DOMAIN shape
    BY <2>1 DEF IsShape
  <2>3. x \in Nat /\ x < w
    BY <2>1, <2>2 DEF Elements
  <2> HIDE DEF x, w, n
  <2>4. row \in Nat
    BY <2>1
  <2> QED BY <2>1, <2>3, <2>4
<1> HIDE DEF w, x
<1>2. first \in Nat /\ rows \in Nat /\ first < rows /\ rows <= Rows(shape)
      /\ Rows(shape) <= MulSeq(shape)
  <2>1. /\ first \in Nat /\ rows \in Nat /\ first < rows /\ rows <= Rows(shape)
        /\ Rows(shape) <= Rows(shape) * w
    BY <1>1, FragmentsOfAnInterval
  <2> QED BY <1>1, <2>1
<1>3. DOMAIN shards = 1..m
      /\ \A k \in 1..m : shards[k] = RowFragment(shape, (first + k) - 1, start, end, tail)
  BY DEF Fragments, w
<1>4. start <= y <=> (first <= row /\ Enters(start, w, row) <= x)
  BY <1>1, IntervalByRows
<1>5. y < end <=> (row < rows /\ x < Leaves(end, w, row))
  BY <1>1, IntervalByRows
<1> HIDE DEF shards, first, rows, y
<1>6. ASSUME NEW j \in 1..m
      PROVE  LET r == (first + j) - 1
             IN  Holds(shards[j], c) <=> r = row /\ Enters(start, w, row) <= x /\ x < Leaves(end, w, row)
  <2> DEFINE r == (first + j) - 1
  <2>1. r \in Nat /\ r \in 0..(Rows(shape) - 1)
    BY <1>1, <1>2
  <2>2. shards[j] = RowFragment(shape, r, start, end, tail)
    BY <1>3
  <2> HIDE DEF r, m
  <2>3. Holds(shards[j], c)
          <=> /\ \A axis \in 1..(n - 1) : RowCoordinate(shape, r, axis) = c[axis]
              /\ Enters(start, w, r) <= x /\ x < Leaves(end, w, r)
    BY <2>1, <2>2, FragmentHolds DEF w, x
  <2>4. (\A axis \in 1..(n - 1) : RowCoordinate(shape, r, axis) = c[axis]) <=> r = row
    BY <2>1 DEF IsRowOf
  <2>5. Holds(shards[j], c) <=> r = row /\ Enters(start, w, r) <= x /\ x < Leaves(end, w, r)
    BY <2>3, <2>4
  <2>6. Holds(shards[j], c) <=> r = row /\ Enters(start, w, row) <= x /\ x < Leaves(end, w, row)
    BY <2>5
  <2> QED BY <2>6 DEF r
<1>7. CASE start <= y /\ y < end
  <2> DEFINE k == (row - first) + 1
  <2>1. k \in 1..m /\ k \in 1..MulSeq(shape) /\ \A j \in 1..m : (first + j) - 1 = row <=> j = k
    <3>1. first <= row /\ row < rows
      BY <1>4, <1>5, <1>7
    <3>2. MulSeq(shape) \in Nat
      BY <1>1
    <3> QED BY <1>1, <1>2, <3>1, <3>2
  <2>2. Enters(start, w, row) <= x /\ x < Leaves(end, w, row)
    BY <1>4, <1>5, <1>7
  <2> HIDE DEF k, m
  <2>3. \A j \in 1..m : Holds(shards[j], c) <=> j = k
    BY <1>6, <2>1, <2>2
  <2>4. \E i \in 1..MulSeq(shape) :
           i \in DOMAIN shards /\ \A j \in DOMAIN shards : Holds(shards[j], c) <=> j = i
    BY <1>3, <2>1, <2>3
  <2> QED BY <1>7, <2>4 DEF shards, y, x, w
<1>8. CASE ~ (start <= y /\ y < end)
  <2>1. \A j \in 1..m : (first + j) - 1 = row => first <= row /\ row < rows
    BY <1>1, <1>2
  <2> HIDE DEF m
  <2>2. \A j \in DOMAIN shards : ~ Holds(shards[j], c)
    BY <1>3, <1>4, <1>5, <1>6, <1>8, <2>1
  <2> QED BY <1>8, <2>2 DEF shards, y, x, w
<1> QED BY <1>7, <1>8

BoundOf(layout, shape, t) == FlatBound(MulSeq(shape), LinearGrain(layout), layout.tiles, t)
EndOf(layout, shape, t) == Least(BoundOf(layout, shape, t + 1), MulSeq(shape))
FragmentsOf(layout, shape, t) ==
  Fragments(shape, BoundOf(layout, shape, t), EndOf(layout, shape, t),
            BoundOf(layout, shape, t + 1) - EndOf(layout, shape, t))

\* The interval of a tile, and what the tile allocates for it.
LEMMA IntervalOfATile ==
  ASSUME NEW layout, NEW shape, IsLayout(layout), IsShape(shape), Resolvable(layout, shape),
         LinearGrain(layout) # -1, NEW t \in Tiles(layout)
  PROVE  /\ BoundOf(layout, shape, t) \in Nat /\ BoundOf(layout, shape, t + 1) \in Nat
         /\ BoundOf(layout, shape, t) < BoundOf(layout, shape, t + 1)
         /\ BoundOf(layout, shape, t) < MulSeq(shape)
         /\ TileElements(layout, shape, t)
              = BoundOf(layout, shape, t + 1) - BoundOf(layout, shape, t)
         /\ TileElements(layout, shape, t) <= MaximumTileElements(layout, shape)
         /\ MulSeq(shape) \in Nat \ {0}
<1> DEFINE E == MulSeq(shape)
           g == LinearGrain(layout)
           tiles == layout.tiles
           grains == CeilDiv(E, g)
           f == FlatBoundsOf(E, g, tiles)
<1>1. g \in Nat \ {0} /\ tiles \in Nat \ {0} /\ shape # <<>> /\ grains >= tiles
  BY FlatLayout
<1>2. E \in Nat \ {0}
  <2>1. Rows(shape) \in Nat \ {0} /\ Last(shape) \in Nat \ {0} /\ E = Rows(shape) * Last(shape)
    BY <1>1, ElementsAreRows
  <2> HIDE DEF E
  <2> QED BY <2>1
<1>3. t \in 0..(tiles - 1) /\ ~ (t >= tiles)
  <2>1. t \in 0..(tiles - 1)
    BY DEF Tiles
  <2> HIDE DEF tiles
  <2> QED BY <1>1, <2>1
<1>4. TileElements(layout, shape, t)
        = (BlocksBefore(grains, tiles, t + 1) - BlocksBefore(grains, tiles, t)) * g
  BY <1>3 DEF TileElements, FlatElements
<1>5. MaximumTileElements(layout, shape) = CeilDiv(grains, tiles) * g
  BY DEF MaximumTileElements
<1> HIDE DEF E, g, tiles
<1>6. /\ f \in [0..tiles -> Nat]
      /\ f[t] = FlatBound(E, g, tiles, t)
      /\ f[t + 1] = FlatBound(E, g, tiles, t + 1)
      /\ f[t] < E /\ f[t] < f[t + 1]
      /\ f[t + 1] - f[t] = (BlocksBefore(grains, tiles, t + 1) - BlocksBefore(grains, tiles, t)) * g
      /\ f[t + 1] - f[t] <= CeilDiv(grains, tiles) * g
  <2>1. FlatCuts(E, g, tiles, f)
    BY <1>1, <1>2, FlatBounds
  <2> HIDE DEF f
  <2> QED BY <1>3, <2>1 DEF FlatCuts
<1>7. f[t] \in Nat /\ f[t + 1] \in Nat
  <2>1. t \in 0..tiles /\ t + 1 \in 0..tiles
    BY <1>1, <1>3
  <2> HIDE DEF f
  <2> QED BY <1>6, <2>1
<1>8. f[t] = BoundOf(layout, shape, t) /\ f[t + 1] = BoundOf(layout, shape, t + 1)
  BY <1>6 DEF BoundOf, E, g, tiles
<1> HIDE DEF f, grains
<1>9. /\ TileElements(layout, shape, t) = f[t + 1] - f[t]
      /\ f[t + 1] - f[t] <= MaximumTileElements(layout, shape)
  BY <1>4, <1>5, <1>6
<1> QED BY <1>2, <1>6, <1>7, <1>8, <1>9 DEF E

Cut(shape, start, size) ==
  LET physical == start + size
      end == Least(physical, MulSeq(shape))
      first == start \div Last(shape)
  IN  [n \in 1..(CeilDiv(end, Last(shape)) - first) |->
          RowFragment(shape, first + (n - 1), start, end, physical - end)]

\* The shards of a tile are the fragments of its interval.
LEMMA FlatShardsAreFragments ==
  ASSUME NEW layout, NEW shape, IsLayout(layout), IsShape(shape), Resolvable(layout, shape),
         LinearGrain(layout) # -1, NEW t \in Tiles(layout)
  PROVE  Shards(layout, shape, t) = FragmentsOf(layout, shape, t)
<1> DEFINE a == BoundOf(layout, shape, t)
           b == BoundOf(layout, shape, t + 1)
           size == TileElements(layout, shape, t)
<1>1. a \in Nat /\ b \in Nat /\ size = b - a
  BY IntervalOfATile
<1> HIDE DEF b, size
<1>2. a + size = b
  BY <1>1
<1>3. FlatShards(layout, shape, t) = Cut(shape, a, size)
  <2>1. a = BlocksBefore(CeilDiv(MulSeq(shape), LinearGrain(layout)), layout.tiles, t) * LinearGrain(layout)
    BY DEF BoundOf, FlatBound
  <2> DEFINE raw == BlocksBefore(CeilDiv(MulSeq(shape), LinearGrain(layout)), layout.tiles, t)
                       * LinearGrain(layout)
  <2>2. FlatShards(layout, shape, t) = Cut(shape, raw, TileElements(layout, shape, t))
    BY Zenon DEF FlatShards, Cut
  <2> QED BY <2>1, <2>2 DEF size
<1>4. Shards(layout, shape, t) = FlatShards(layout, shape, t)
  BY DEF Shards
<1> HIDE DEF a
<1>5. Cut(shape, a, size) = Fragments(shape, a, Least(b, MulSeq(shape)), b - Least(b, MulSeq(shape)))
  <2> DEFINE e == Least(b, MulSeq(shape))
             first == a \div Last(shape)
             m == CeilDiv(e, Last(shape)) - first
  <2>1. first \in Nat
    <3>1. Last(shape) \in Nat \ {0}
      BY FlatLayout, ElementsAreRows
    <3> HIDE DEF first
    <3> QED BY <1>1, <3>1, DivMod DEF first
  <2>2. Cut(shape, a, size) = [n \in 1..m |-> RowFragment(shape, first + (n - 1), a, e, b - e)]
    BY <1>2, Zenon DEF Cut
  <2>3. Fragments(shape, a, e, b - e) = [n \in 1..m |-> RowFragment(shape, (first + n) - 1, a, e, b - e)]
    BY Zenon DEF Fragments
  <2> HIDE DEF first, m, e
  <2>4. \A n \in 1..m : first + (n - 1) = (first + n) - 1
    BY <2>1
  <2>5. Cut(shape, a, size) = Fragments(shape, a, e, b - e)
    BY <2>2, <2>3, <2>4
  <2> QED BY <2>5 DEF e
<1>6. Fragments(shape, a, Least(b, MulSeq(shape)), b - Least(b, MulSeq(shape)))
        = FragmentsOf(layout, shape, t)
  BY DEF FragmentsOf, EndOf, a, b
<1> QED BY <1>3, <1>4, <1>5, <1>6

\* The interval of a tile ends in the tensor, and the rest of its allocation follows.
LEMMA EndOfATile ==
  ASSUME NEW layout, NEW shape, IsLayout(layout), IsShape(shape), Resolvable(layout, shape),
         LinearGrain(layout) # -1, NEW t \in Tiles(layout)
  PROVE  /\ EndOf(layout, shape, t) \in Nat
         /\ BoundOf(layout, shape, t) < EndOf(layout, shape, t)
         /\ EndOf(layout, shape, t) <= MulSeq(shape)
         /\ BoundOf(layout, shape, t + 1) - EndOf(layout, shape, t) \in Nat
         /\ \A y \in Nat : y < MulSeq(shape) =>
               (y < EndOf(layout, shape, t) <=> y < BoundOf(layout, shape, t + 1))
BY IntervalOfATile DEF EndOf, Least

\* The shards of a tile are sane, and fill what it allocates.
LEMMA SizesOfFlatShards ==
  ASSUME NEW layout, NEW shape, IsLayout(layout), IsShape(shape), Resolvable(layout, shape),
         LinearGrain(layout) # -1, NEW t \in Tiles(layout)
  PROVE  /\ \A n \in DOMAIN Shards(layout, shape, t) : Sane(Shards(layout, shape, t)[n])
         /\ Volumes(Shards(layout, shape, t)) = TileElements(layout, shape, t)
         /\ TileElements(layout, shape, t) <= MaximumTileElements(layout, shape)
<1> DEFINE a == BoundOf(layout, shape, t)
           b == BoundOf(layout, shape, t + 1)
           e == EndOf(layout, shape, t)
           shards == FragmentsOf(layout, shape, t)
<1>1. /\ a \in Nat /\ b \in Nat /\ TileElements(layout, shape, t) = b - a
      /\ TileElements(layout, shape, t) <= MaximumTileElements(layout, shape)
  BY IntervalOfATile
<1>2. e \in Nat /\ a < e /\ e <= MulSeq(shape) /\ b - e \in Nat
  BY EndOfATile
<1>3. shape # <<>> /\ shards = Fragments(shape, a, e, b - e)
  BY FlatLayout DEF FragmentsOf
<1> HIDE DEF a, b, e, shards
<1>4. (\A k \in DOMAIN shards : Sane(shards[k])) /\ Volumes(shards) = (e - a) + (b - e)
  BY <1>1, <1>2, <1>3, FragmentsFillTheInterval
<1>5. Volumes(shards) = b - a
  BY <1>1, <1>2, <1>4
<1>6. Shards(layout, shape, t) = shards
  BY FlatShardsAreFragments DEF shards
<1> QED BY <1>1, <1>4, <1>5, <1>6

-----------------------------------------------------------------------------
(* Who holds an element *)

Placed(layout, shape) == WithShards(shape, layout)
Keeps(layout, shape, t, n, c) ==
  n \in DOMAIN Shards(layout, shape, t) /\ Holds(Shards(layout, shape, t)[n], c)

\* The holders of an element are the shards of tiles that keep it.
LEMMA HoldersKeep ==
  ASSUME NEW layout, NEW shape, NEW c
  PROVE  /\ Holders(Placed(layout, shape), c)
              = {at \in Tiles(layout) \X (1..MulSeq(shape)) : Keeps(layout, shape, at[1], at[2], c)}
         /\ Placed(layout, shape).layout = layout /\ Placed(layout, shape).shape = shape
         /\ DOMAIN Placed(layout, shape).shards = Tiles(layout)
         /\ \A t \in Tiles(layout) : Placed(layout, shape).shards[t] = Shards(layout, shape, t)
<1> DEFINE tensor == Placed(layout, shape)
           S == Tiles(layout)
           N == 1..MulSeq(shape)
<1>1. /\ tensor.layout = layout /\ tensor.shape = shape /\ DOMAIN tensor.shards = S
      /\ \A t \in S : tensor.shards[t] = Shards(layout, shape, t)
  BY DEF Placed, WithShards, Tiles
<1> HIDE DEF tensor, S
<1>2. Holders(tensor, c) = {at \in S \X N : at[2] \in DOMAIN tensor.shards[at[1]]
                                              /\ Holds(tensor.shards[at[1]][at[2]], c)}
  BY <1>1 DEF Holders
<1>3. \A at \in S \X N : at[1] \in S
  OBVIOUS
<1> HIDE DEF N
<1>4. \A at \in S \X N : (at[2] \in DOMAIN tensor.shards[at[1]] /\ Holds(tensor.shards[at[1]][at[2]], c))
                            <=> Keeps(layout, shape, at[1], at[2], c)
  BY <1>1, <1>3 DEF Keeps
<1>5. Holders(tensor, c) = {at \in S \X N : Keeps(layout, shape, at[1], at[2], c)}
  BY <1>2, <1>4
<1> QED BY <1>1, <1>5 DEF tensor, S, N

\* Of a flat layout, one shard of one tile holds an element.
LEMMA FlatHolder ==
  ASSUME NEW layout, NEW shape, IsLayout(layout), IsShape(shape), Resolvable(layout, shape),
         LinearGrain(layout) # -1, NEW c \in Elements(shape)
  PROVE  \E t \in Tiles(layout), k \in 1..MulSeq(shape) :
            \A u \in Tiles(layout) : \A j : Keeps(layout, shape, u, j, c) <=> u = t /\ j = k
<1> DEFINE E == MulSeq(shape)
           g == LinearGrain(layout)
           tiles == layout.tiles
           f == FlatBoundsOf(E, g, tiles)
           w == Last(shape)
           n == Len(shape)
<1>1. g \in Nat \ {0} /\ tiles \in Nat \ {0} /\ shape # <<>> /\ CeilDiv(E, g) >= tiles
  BY FlatLayout
<1>2. PICK row \in 0..(Rows(shape) - 1) : IsRowOf(shape, row, c)
  BY <1>1, RowOfAnElement DEF IsRowOf
<1>3. w \in Nat \ {0} /\ Rows(shape) \in Nat \ {0} /\ E = Rows(shape) * w
      /\ c[n] \in Nat /\ c[n] < w
  <2>1. w \in Nat \ {0} /\ Rows(shape) \in Nat \ {0} /\ E = Rows(shape) * w /\ w = shape[n]
        /\ n \in Nat \ {0}
    BY <1>1, ElementsAreRows
  <2>2. n \in DOMAIN shape
    BY <2>1 DEF IsShape
  <2> HIDE DEF E
  <2> QED BY <2>1, <2>2 DEF Elements
<1> DEFINE y == row * w + c[n]
<1>4. y \in Nat /\ y < E
  <2> HIDE DEF w, E
  <2>1. row \in Nat /\ row + 1 \in Nat /\ row + 1 <= Rows(shape)
    BY <1>3
  <2>2. (row + 1) * w <= Rows(shape) * w
    BY <1>3, <2>1, ProductsGrow
  <2>3. (row + 1) * w = row * w + w /\ row * w \in Nat
    BY <1>3, <2>1
  <2> QED BY <1>3, <2>2, <2>3
<1>5. E \in Nat \ {0}
  <2> HIDE DEF E, y
  <2> QED BY <1>3, <1>4
<1> HIDE DEF E, g, tiles, y, w
<1>6. FlatCuts(E, g, tiles, f)
  BY <1>1, <1>5, FlatBounds
<1> HIDE DEF f
<1>7. /\ f \in [0..tiles -> Nat] /\ Ascends(f, tiles) /\ E <= f[tiles]
      /\ \A u \in 0..(tiles - 1) : f[u] = FlatBound(E, g, tiles, u)
                                   /\ f[u + 1] = FlatBound(E, g, tiles, u + 1)
  BY <1>6 DEF FlatCuts
<1>8. y < f[tiles]
  <2>1. f[tiles] \in Nat
    BY <1>1, <1>7
  <2> QED BY <1>4, <1>5, <1>7, <2>1
<1>9. PICK t \in 0..(tiles - 1) :
         /\ f[t] <= y /\ y < f[t + 1]
         /\ \A u \in 0..(tiles - 1) : f[u] <= y /\ y < f[u + 1] => u = t
  BY <1>1, <1>4, <1>7, <1>8, OnePart
<1>10. Tiles(layout) = 0..(tiles - 1)
  BY DEF Tiles, tiles
<1>11. \A u \in Tiles(layout) :
          (BoundOf(layout, shape, u) <= y /\ y < EndOf(layout, shape, u)) <=> u = t
  <2> SUFFICES ASSUME NEW u \in Tiles(layout)
               PROVE  (BoundOf(layout, shape, u) <= y /\ y < EndOf(layout, shape, u)) <=> u = t
    OBVIOUS
  <2>1. f[u] = BoundOf(layout, shape, u) /\ f[u + 1] = BoundOf(layout, shape, u + 1)
    BY <1>7, <1>10 DEF BoundOf, E, g, tiles
  <2>2. y < EndOf(layout, shape, u) <=> y < BoundOf(layout, shape, u + 1)
    BY <1>4, EndOfATile DEF E
  <2>3. (f[u] <= y /\ y < f[u + 1]) <=> u = t
    BY <1>9, <1>10
  <2> QED BY <2>1, <2>2, <2>3
<1>12. ASSUME NEW u \in Tiles(layout)
       PROVE  LET shards == Shards(layout, shape, u)
              IN  IF u = t
                  THEN \E k \in 1..E :
                          k \in DOMAIN shards /\ \A j \in DOMAIN shards : Holds(shards[j], c) <=> j = k
                  ELSE \A j \in DOMAIN shards : ~ Holds(shards[j], c)
  <2> DEFINE a == BoundOf(layout, shape, u)
             b == BoundOf(layout, shape, u + 1)
             e == EndOf(layout, shape, u)
             shards == Fragments(shape, a, e, b - e)
  <2>1. a \in Nat /\ b \in Nat /\ e \in Nat /\ a < e /\ e <= MulSeq(shape) /\ b - e \in Nat
    BY IntervalOfATile, EndOfATile
  <2>2. Shards(layout, shape, u) = shards
    BY FlatShardsAreFragments DEF FragmentsOf
  <2> HIDE DEF a, b, e
  <2>3. IF a <= y /\ y < e
        THEN \E k \in 1..MulSeq(shape) :
                k \in DOMAIN shards /\ \A j \in DOMAIN shards : Holds(shards[j], c) <=> j = k
        ELSE \A j \in DOMAIN shards : ~ Holds(shards[j], c)
    BY <1>1, <1>2, <2>1, FragmentsHold DEF y, w
  <2>4. a <= y /\ y < e <=> u = t
    BY <1>11 DEF a, e
  <2> HIDE DEF shards
  <2> QED BY <2>2, <2>3, <2>4 DEF E
<1>13. PICK k \in 1..E :
          /\ k \in DOMAIN Shards(layout, shape, t)
          /\ \A j \in DOMAIN Shards(layout, shape, t) : Holds(Shards(layout, shape, t)[j], c) <=> j = k
  BY <1>9, <1>10, <1>12
<1>14. \A u \in Tiles(layout) : \A j : Keeps(layout, shape, u, j, c) <=> u = t /\ j = k
  BY <1>12, <1>13 DEF Keeps
<1> QED BY <1>9, <1>10, <1>14 DEF E

\* The coordinates of a tensor are its elements.
LEMMA CoordinatesAreElements ==
  ASSUME NEW shape, IsShape(shape), NEW c \in Coordinates(shape)
  PROVE  c \in Elements(shape)
<1> DEFINE top == Max(Range(shape)) - 1
<1>1. c \in [DOMAIN shape -> 0..top] /\ \A a \in DOMAIN shape : c[a] < shape[a]
  BY DEF Coordinates
<1> HIDE DEF top
<1>2. \A a \in DOMAIN shape : c[a] \in Nat
  BY <1>1
<1> QED BY <1>1, <1>2 DEF Elements

\* Of a flat layout, an element has one holder.
LEMMA FlatHolders ==
  ASSUME NEW layout, NEW shape, IsLayout(layout), IsShape(shape), Resolvable(layout, shape),
         LinearGrain(layout) # -1, NEW c \in Elements(shape)
  PROVE  Cardinality(Holders(Placed(layout, shape), c)) = 1
<1> DEFINE S == Tiles(layout)
           N == 1..MulSeq(shape)
           held == Holders(Placed(layout, shape), c)
<1>1. PICK t \in S, k \in N :
         \A u \in S : \A j : Keeps(layout, shape, u, j, c) <=> u = t /\ j = k
  BY FlatHolder
<1>2. held = {at \in S \X N : Keeps(layout, shape, at[1], at[2], c)}
  BY HoldersKeep
<1> HIDE DEF S, N, held
<1>3. \A at \in S \X N : at[1] \in S /\ at = <<at[1], at[2]>>
  OBVIOUS
<1>4. <<t, k>> \in S \X N /\ <<t, k>>[1] = t /\ <<t, k>>[2] = k
  OBVIOUS
<1>5. \A at \in S \X N : Keeps(layout, shape, at[1], at[2], c) <=> at = <<t, k>>
  BY <1>1, <1>3, <1>4
<1>6. held = {<<t, k>>}
  BY <1>2, <1>4, <1>5
<1> QED BY <1>6, FS_Singleton DEF held

\* Of a tiled layout, an element has as many holders as there are replicas.
LEMMA TiledHolders ==
  ASSUME NEW layout, NEW shape, IsLayout(layout), IsShape(shape), Resolvable(layout, shape),
         LinearGrain(layout) = -1, NEW c \in Elements(shape)
  PROVE  Cardinality(Holders(Placed(layout, shape), c)) = layout.replicas
<1> DEFINE S == Tiles(layout)
           N == 1..MulSeq(shape)
           T == {t \in S : Holds(ShardAt(layout, shape, t), c)}
           held == Holders(Placed(layout, shape), c)
           h == [t \in T |-> <<t, 1>>]
<1>1. Tiled(layout, shape) /\ layout.replicas # 0
  BY DEF Resolvable
<1>2. Cardinality(T) = layout.replicas
  BY <1>1, ElementsAreHeld
<1>3. IsFiniteSet(T)
  <2>1. 0 \in Int /\ layout.tiles - 1 \in Int
    BY DEF IsLayout
  <2>2. IsFiniteSet(S)
    BY <2>1, FS_Interval DEF Tiles
  <2> HIDE DEF S
  <2>3. T \in SUBSET S
    OBVIOUS
  <2> QED BY <2>2, <2>3, FS_Subset
<1>4. 1 \in N
  <2>1. MulSeq(shape) \in Nat \ {0}
    <3>1. Len(shape) \in Nat /\ shape \in [1..Len(shape) -> Nat \ {0}]
          /\ shape \in [1..Len(shape) -> Nat] /\ 1 \in Nat /\ 1 \in Nat \ {0}
      BY DEF IsShape
    <3>2. IsFiniteSet(1..Len(shape)) /\ 1..Len(shape) \in SUBSET (1..Len(shape))
      BY <3>1, FS_Interval
    <3>3. PICK F : F \in Products(1, shape, 1..Len(shape))
      BY <3>1, <3>2, ProductsExist
    <3>4. MulSeq(shape) = F[1..Len(shape)]
      BY <3>1, <3>3, MulSeqIsProduct
    <3>5. F[1..Len(shape)] \in Nat \ {0}
      BY <3>1, <3>2, <3>3, ProductsArePositive
    <3> QED BY <3>4, <3>5
  <2> HIDE DEF N
  <2> QED BY <2>1 DEF N
<1>5. \A t \in S : \A j : Keeps(layout, shape, t, j, c) <=> j = 1 /\ t \in T
  <2> SUFFICES ASSUME NEW t \in S, NEW j PROVE Keeps(layout, shape, t, j, c) <=> j = 1 /\ t \in T
    OBVIOUS
  <2>1. Shards(layout, shape, t) = <<ShardAt(layout, shape, t)>>
    BY Zenon DEF Shards, ShardAt
  <2> HIDE DEF S
  <2> QED BY <2>1 DEF Keeps
<1>6. held = {at \in S \X N : Keeps(layout, shape, at[1], at[2], c)}
  BY HoldersKeep
<1>7. T \subseteq S
  OBVIOUS
<1> HIDE DEF S, N, T, held
<1>8. \A at \in S \X N : at[1] \in S /\ at = <<at[1], at[2]>>
  OBVIOUS
<1>9. \A t \in T : <<t, 1>> \in held
  <2> SUFFICES ASSUME NEW t \in T PROVE <<t, 1>> \in held
    OBVIOUS
  <2>1. <<t, 1>> \in S \X N /\ <<t, 1>>[1] = t /\ <<t, 1>>[2] = 1
    BY <1>4, <1>7
  <2> QED BY <1>5, <1>6, <1>7, <2>1
<1>10. \A at \in held : at[1] \in T /\ at = <<at[1], 1>>
  BY <1>5, <1>6, <1>8
<1>11. h \in Bijection(T, held)
  <2>1. h \in [T -> held]
    BY <1>9
  <2>2. \A t, u \in T : h[t] = h[u] => t = u
    OBVIOUS
  <2>3. \A at \in held : \E t \in T : h[t] = at
    BY <1>10
  <2> HIDE DEF h
  <2> QED BY <2>1, <2>2, <2>3, Fun_IsBij
<1> HIDE DEF h
<1>12. Cardinality(held) = Cardinality(T)
  <2>1. ExistsBijection(T, held)
    BY <1>11 DEF ExistsBijection
  <2> QED BY <2>1, <1>3, FS_Bijection
<1> QED BY <1>2, <1>12 DEF held

\* The shard of a tile of a tiled layout is sane, and fills what the tile allocates.
LEMMA SizesOfAShard ==
  ASSUME NEW layout, NEW shape, IsLayout(layout), IsShape(shape), Resolvable(layout, shape),
         LinearGrain(layout) = -1, NEW t \in Tiles(layout)
  PROVE  /\ \A n \in DOMAIN Shards(layout, shape, t) : Sane(Shards(layout, shape, t)[n])
         /\ Volumes(Shards(layout, shape, t)) = TileElements(layout, shape, t)
         /\ TileElements(layout, shape, t) <= MaximumTileElements(layout, shape)
<1> DEFINE shards == Shards(layout, shape, t)
           shard == ShardAt(layout, shape, t)
           size == TileElements(layout, shape, t)
           P == [k \in 0..1 |-> IF k = 0 THEN 0 ELSE size]
<1>1. Tiled(layout, shape)
  BY DEF Resolvable
<1>2. /\ Sane(shard) /\ ShardVolume(shard) = size /\ size \in Nat
      /\ size <= MaximumTileElements(layout, shape)
  BY <1>1, SizesOfTiledShards
<1>3. shards = <<shard>>
  BY Zenon DEF Shards, ShardAt
<1> HIDE DEF shards, shard, size
<1>4. DOMAIN shards = 1..1 /\ shards[1] = shard
  BY <1>3
<1>5. P \in [0..1 -> Nat] /\ P[0] = 0 /\ P[1] = size
  BY <1>2
<1>6. \A k \in 1..1 : k = 1 /\ k - 1 = 0
  OBVIOUS
<1> HIDE DEF P
<1>7. \A k \in 1..1 : ShardVolume(shards[k]) \in Nat /\ P[k] = P[k - 1] + ShardVolume(shards[k])
  BY <1>2, <1>4, <1>5, <1>6
<1>8. Volumes(shards) = P[1]
  <2>1. 1 \in Nat
    OBVIOUS
  <2> QED BY <1>4, <1>5, <1>7, <2>1, VolumesAddUp
<1>9. \A n \in DOMAIN shards : Sane(shards[n])
  BY <1>2, <1>4, <1>6
<1> QED BY <1>2, <1>5, <1>8, <1>9 DEF shards, size

-----------------------------------------------------------------------------
(* The specification *)

Owned(tensor) ==
  /\ \A c \in Coordinates(tensor.shape) :
        Cardinality(Holders(tensor, c))
           = IF LinearGrain(tensor.layout) # -1 THEN 1 ELSE tensor.layout.replicas
  /\ \A t \in DOMAIN tensor.shards :
        /\ \A n \in DOMAIN tensor.shards[t] : Sane(tensor.shards[t][n])
        /\ Volumes(tensor.shards[t]) = TileElements(tensor.layout, tensor.shape, t)
        /\ Volumes(tensor.shards[t]) <= MaximumTileElements(tensor.layout, tensor.shape)

\* A tensor whose layout is accepted is owned as the layout says.
LEMMA AcceptedTensorsAreOwned ==
  ASSUME NEW layout, NEW shape, IsLayout(layout), IsShape(shape), Resolvable(layout, shape)
  PROVE  Owned(Placed(layout, shape))
<1> DEFINE tensor == Placed(layout, shape)
<1>1. /\ tensor.layout = layout /\ tensor.shape = shape /\ DOMAIN tensor.shards = Tiles(layout)
      /\ \A t \in Tiles(layout) : tensor.shards[t] = Shards(layout, shape, t)
  BY HoldersKeep
<1>2. ASSUME NEW c \in Coordinates(shape)
      PROVE  Cardinality(Holders(tensor, c)) = IF LinearGrain(layout) # -1 THEN 1 ELSE layout.replicas
  BY <1>2, CoordinatesAreElements, FlatHolders, TiledHolders
<1>3. ASSUME NEW t \in Tiles(layout)
      PROVE  /\ \A n \in DOMAIN Shards(layout, shape, t) : Sane(Shards(layout, shape, t)[n])
             /\ Volumes(Shards(layout, shape, t)) = TileElements(layout, shape, t)
             /\ TileElements(layout, shape, t) <= MaximumTileElements(layout, shape)
  <2>1. CASE LinearGrain(layout) # -1
    BY <2>1, SizesOfFlatShards
  <2>2. CASE LinearGrain(layout) = -1
    BY <2>2, SizesOfAShard
  <2> QED BY <2>1, <2>2
<1> HIDE DEF tensor
<1>4. ASSUME NEW t \in DOMAIN tensor.shards
      PROVE  /\ \A n \in DOMAIN tensor.shards[t] : Sane(tensor.shards[t][n])
             /\ Volumes(tensor.shards[t]) = TileElements(tensor.layout, tensor.shape, t)
             /\ Volumes(tensor.shards[t]) <= MaximumTileElements(tensor.layout, tensor.shape)
  <2>1. t \in Tiles(layout) /\ tensor.shards[t] = Shards(layout, shape, t)
    BY <1>1
  <2> QED BY <1>1, <1>3, <2>1
<1>5. \A c \in Coordinates(tensor.shape) :
         Cardinality(Holders(tensor, c))
            = IF LinearGrain(tensor.layout) # -1 THEN 1 ELSE tensor.layout.replicas
  BY <1>1, <1>2
<1>6. Owned(tensor)
  BY <1>4, <1>5 DEF Owned
<1> QED BY <1>6 DEF tensor

\* A set of numbered members has a sequence of them.
LEMMA SequenceOfASet ==
  ASSUME NEW S, IsFiniteSet(S)
  PROVE  Cardinality(S) \in Nat /\ SetToSeq(S) \in [1..Cardinality(S) -> S]
<1>1. ExistsBijection(1..Cardinality(S), S) /\ Cardinality(S) \in Nat
  BY FS_CardinalityType
<1>2. PICK f : f \in Bijection(1..Cardinality(S), S)
  BY <1>1 DEF ExistsBijection
<1>3. f \in [1..Cardinality(S) -> S] /\ IsInjective(f)
  BY <1>2 DEF Bijection, Injection
<1>4. SetToSeq(S) \in [1..Cardinality(S) -> S]
  BY <1>3, Zenon DEF SetToSeq
<1> QED BY <1>1, <1>4

\* The layouts offered for a reduction are few, and all of them resolve.
LEMMA ReductionsResolve ==
  ASSUME NEW result, NEW shape, NEW grid, NEW m, NEW n, NEW count, NEW rowFast
  PROVE  /\ IsFiniteSet(Reductions(result, shape, grid, m, n, count, rowFast))
         /\ \A layout \in Reductions(result, shape, grid, m, n, count, rowFast) :
               Resolves(layout, shape)
<1> DEFINE L(rc) == ReductionLayout(result, rc[1], rc[2], count, rowFast)
           a == <<grid[1], grid[2]>>
           b == <<grid[1] * grid[3], grid[2]>>
           d == <<grid[1], grid[2] * grid[3]>>
           all == {L(a), L(b), L(d)}
           R == Reductions(result, shape, grid, m, n, count, rowFast)
<1>1. R \subseteq all /\ \A layout \in R : Resolves(layout, shape)
  <2>1. R = {layout \in {L(rc) : rc \in {s \in {a, b, d} : s[1] <= m /\ s[2] <= n}} :
               Resolves(layout, shape) /\ ~ HasEmptyShards(layout, shape)}
    BY Zenon DEF Reductions
  <2> HIDE DEF R, L, a, b, d
  <2> QED BY <2>1
<1> HIDE DEF L
<1>2. IsFiniteSet(all)
  <2>1. IsFiniteSet({L(a)})
    BY FS_Singleton
  <2>2. IsFiniteSet({L(a)} \cup {L(b)})
    BY <2>1, FS_AddElement
  <2>3. IsFiniteSet(({L(a)} \cup {L(b)}) \cup {L(d)})
    BY <2>2, FS_AddElement
  <2>4. all = ({L(a)} \cup {L(b)}) \cup {L(d)}
    OBVIOUS
  <2> QED BY <2>3, <2>4
<1> HIDE DEF all, R
<1>3. IsFiniteSet(R)
  BY <1>1, <1>2, FS_Subset
<1> QED BY <1>1, <1>3 DEF R

\* The reductions of a choice resolve.
LEMMA ReductionsOfAChoice ==
  ASSUME NEW p, NEW choice \in ProductChoices(p)
  PROVE  IsFiniteSet(choice.reductions)
         /\ \A layout \in choice.reductions : Resolves(layout, p.shape)
<1>1. PICK swapped, batch, grid, strides :
         choice = ChoiceOn(p, Oriented(p, swapped), swapped, batch, grid, strides, Multiplied(p))
  BY DEF ProductChoices
<1>2. \/ choice.reductions = {}
      \/ \E result, m, n, count, rowFast :
            choice.reductions = Reductions(result, p.shape, grid, m, n, count, rowFast)
  BY <1>1 DEF ChoiceOn
<1> QED BY <1>2, ReductionsResolve, FS_EmptySet

\* Two sequences of tensors that resolve are one.
LEMMA BothResolve ==
  ASSUME NEW T, NEW s \in Seq(T), NEW t \in Seq(T), AllResolve(s), AllResolve(t)
  PROVE  AllResolve(s \o t)
<1>1. \A i \in DOMAIN (s \o t) :
         \/ i \in DOMAIN s /\ (s \o t)[i] = s[i]
         \/ i - Len(s) \in DOMAIN t /\ (s \o t)[i] = t[i - Len(s)]
  OBVIOUS
<1> QED BY <1>1 DEF AllResolve

\* The tensors of an offered assignment resolve.
LEMMA ProductTensorsResolve ==
  ASSUME NEW p, NEW choice \in OfferedChoices(p)
  PROVE  AllResolve(ProductTensors(p, Oriented(p, choice.swapped), choice))
<1> DEFINE o == Oriented(p, choice.swapped)
           R == SetToSeq(choice.reductions)
           s == <<<<o.sources[1].shape, choice.left>>, <<o.sources[2].shape, choice.right>>,
                  <<PartialShape(p, choice), choice.result>>>>
           t == [i \in DOMAIN R |-> <<p.shape, R[i]>>]
           T == {s[i] : i \in DOMAIN s} \cup {t[i] : i \in DOMAIN t}
<1>1. choice \in ProductChoices(p) /\ Offered(p, o, choice)
  BY Zenon DEF OfferedChoices
<1>2. /\ Resolves(choice.left, o.sources[1].shape)
      /\ Resolves(choice.right, o.sources[2].shape)
      /\ Resolves(choice.result, PartialShape(p, choice))
  BY <1>1 DEF Offered
<1>3. IsFiniteSet(choice.reductions) /\ \A layout \in choice.reductions : Resolves(layout, p.shape)
  BY <1>1, ReductionsOfAChoice
<1>4. DOMAIN R = 1..Cardinality(choice.reductions) /\ Cardinality(choice.reductions) \in Nat
      /\ \A i \in DOMAIN R : R[i] \in choice.reductions
  <2> DEFINE S == choice.reductions
  <2>1. IsFiniteSet(S)
    BY <1>3
  <2> HIDE DEF S
  <2>2. Cardinality(S) \in Nat /\ SetToSeq(S) \in [1..Cardinality(S) -> S]
    BY <2>1, SequenceOfASet
  <2> QED BY <2>2 DEF S
<1> HIDE DEF R, o
<1>5. AllResolve(s)
  BY <1>2 DEF AllResolve
<1>6. AllResolve(t)
  BY <1>3, <1>4 DEF AllResolve
<1>7. s \in Seq(T) /\ t \in Seq(T)
  <2>1. \A i \in DOMAIN s : s[i] \in T
    OBVIOUS
  <2>2. \A i \in DOMAIN t : t[i] \in T
    OBVIOUS
  <2> HIDE DEF T
  <2>3. s \in Seq(T)
    BY <2>1
  <2>4. t \in Seq(T)
    BY <1>4, <2>2
  <2> QED BY <2>3, <2>4
<1> HIDE DEF T
<1>8. ProductTensors(p, o, choice) = s \o t
  BY Zenon DEF ProductTensors, R
<1> HIDE DEF s, t
<1>9. AllResolve(s \o t)
  BY <1>5, <1>6, <1>7, BothResolve
<1> QED BY <1>8, <1>9 DEF o

\* The question is one of those asked, and what is placed answers it.
PlacedAnswers ==
  /\ layoutStage = "asked" => layoutCase \in LayoutCases
  /\ \A i \in DOMAIN placed :
        /\ IsLayout(placed[i].layout) /\ IsShape(placed[i].shape)
        /\ Resolves(placed[i].layout, placed[i].shape)
        /\ placed[i] = Placed(placed[i].layout, placed[i].shape)

\* Tensors that resolve are answered with their shards.
LEMMA ResolvedTensorsAreAnswers ==
  ASSUME NEW tensors, AreTensors(tensors), AllResolve(tensors)
  PROVE  \A i \in DOMAIN ResolveAll(tensors) :
            LET tensor == ResolveAll(tensors)[i]
            IN  /\ IsLayout(tensor.layout) /\ IsShape(tensor.shape)
                /\ Resolves(tensor.layout, tensor.shape)
                /\ tensor = Placed(tensor.layout, tensor.shape)
<1> SUFFICES ASSUME NEW i \in DOMAIN ResolveAll(tensors)
             PROVE  LET tensor == ResolveAll(tensors)[i]
                    IN  /\ IsLayout(tensor.layout) /\ IsShape(tensor.shape)
                        /\ Resolves(tensor.layout, tensor.shape)
                        /\ tensor = Placed(tensor.layout, tensor.shape)
  OBVIOUS
<1> DEFINE layout == tensors[i][2]
           shape == tensors[i][1]
           tensor == ResolveAll(tensors)[i]
<1>1. i \in DOMAIN tensors /\ tensor = Placed(layout, shape)
  BY DEF ResolveAll, Placed
<1>2. IsLayout(layout) /\ IsShape(shape) /\ Resolves(layout, shape)
  BY <1>1 DEF AreTensors, AllResolve
<1> HIDE DEF tensor, layout, shape
<1>3. tensor.layout = layout /\ tensor.shape = shape
  BY <1>1, HoldersKeep
<1>4. /\ IsLayout(tensor.layout) /\ IsShape(tensor.shape)
      /\ Resolves(tensor.layout, tensor.shape)
      /\ tensor = Placed(tensor.layout, tensor.shape)
  BY <1>1, <1>2, <1>3
<1> QED BY <1>4 DEF tensor

\* Every step keeps the answers.
LEMMA AnswersAreKept ==
  ASSUME PlacedAnswers, [LayoutNext]_layoutVars
  PROVE  PlacedAnswers'
<1>1. CASE ResolveTensors
  <2> DEFINE tensors == NamedTensors(layoutCase)
  <2>1. layoutCase \in LayoutCases /\ layoutCase.kind # "product"
    BY <1>1 DEF ResolveTensors, PlacedAnswers
  <2>2. AreTensors(tensors)
    BY <2>1, LayoutAssumption
  <2>3. placed' = Answered(tensors) /\ layoutStage' \in {"refused", "resolved"}
    BY <1>1 DEF ResolveTensors
  <2> HIDE DEF tensors
  <2>4. CASE AllResolve(tensors)
    <3>1. placed' = ResolveAll(tensors)
      BY <2>3, <2>4 DEF Answered
    <3> QED BY <2>2, <2>3, <2>4, <3>1, ResolvedTensorsAreAnswers DEF PlacedAnswers
  <2>5. CASE ~ AllResolve(tensors)
    <3>1. placed' = <<>>
      BY <2>3, <2>5 DEF Answered
    <3> QED BY <2>3, <3>1 DEF PlacedAnswers
  <2> QED BY <2>4, <2>5
<1>2. CASE ChooseProduct
  <2>1. layoutCase \in LayoutCases /\ layoutCase.kind = "product" /\ layoutStage' = "resolved"
    BY <1>2 DEF ChooseProduct, PlacedAnswers
  <2>2. PICK choice \in OfferedChoices(layoutCase) :
           placed' = ResolveAll(ProductTensors(layoutCase, Oriented(layoutCase, choice.swapped), choice))
    BY <1>2 DEF ChooseProduct
  <2> DEFINE tensors == ProductTensors(layoutCase, Oriented(layoutCase, choice.swapped), choice)
  <2>3. AreTensors(tensors)
    BY <2>1, LayoutAssumption
  <2>4. AllResolve(tensors)
    BY ProductTensorsResolve
  <2>5. placed' = ResolveAll(tensors)
    BY <2>2
  <2> HIDE DEF tensors
  <2> QED BY <2>1, <2>3, <2>4, <2>5, ResolvedTensorsAreAnswers DEF PlacedAnswers
<1>3. CASE UNCHANGED layoutVars
  <2>1. layoutStage' = layoutStage /\ layoutCase' = layoutCase /\ placed' = placed
    BY <1>3 DEF layoutVars
  <2> QED BY <2>1 DEF PlacedAnswers
<1> QED BY <1>1, <1>2, <1>3 DEF LayoutNext

\* What answers a question is owned: EveryElementIsOwned says so of every tensor.
LEMMA AnswersAreOwned ==
  ASSUME PlacedAnswers
  PROVE  EveryElementIsOwned
<1>1. ASSUME NEW i \in DOMAIN placed PROVE Owned(placed[i])
  <2>1. /\ IsLayout(placed[i].layout) /\ IsShape(placed[i].shape)
        /\ Resolvable(placed[i].layout, placed[i].shape)
        /\ placed[i] = Placed(placed[i].layout, placed[i].shape)
    BY DEF PlacedAnswers, Resolves
  <2> QED BY <2>1, AcceptedTensorsAreOwned
<1> QED BY <1>1, Zenon DEF EveryElementIsOwned, Owned, Volumes

\* Whatever layouts are asked about, and whatever assignments of products are
\* chosen, the tensors that are placed have every element in exactly as many shards
\* as there are replicas, in one if they are flat, and the shards of a tile fill
\* what tile_elements allocates, which maximum_tile_elements bounds (Layout::resolve,
\* ResolvedLayout::shard_extents).
THEOREM TensorsAreOwned == LayoutInit /\ [][LayoutNext]_layoutVars => []EveryElementIsOwned
<1>1. LayoutInit => PlacedAnswers
  BY DEF LayoutInit, PlacedAnswers
<1>2. PlacedAnswers /\ [LayoutNext]_layoutVars => PlacedAnswers'
  BY AnswersAreKept
<1>3. PlacedAnswers => EveryElementIsOwned
  BY AnswersAreOwned
<1> QED BY <1>1, <1>2, <1>3, PTL

-----------------------------------------------------------------------------
(* Layouts with the same distribution *)

\* An axis cut into the same parts is cut the same for every tile.
LEMMA SameExtents ==
  ASSUME NEW a, NEW b, NEW shape, IsLayout(a), IsLayout(b), IsShape(shape),
         Tiled(a, shape), Tiled(b, shape), NEW axis \in DOMAIN shape, NEW t \in Nat,
         SamePartitioning(ResolvedAxis(a, shape, axis), ResolvedAxis(b, shape, axis))
  PROVE  ExtentOn(ResolvedAxis(a, shape, axis), t) = ExtentOn(ResolvedAxis(b, shape, axis), t)
<1> DEFINE x == ResolvedAxis(a, shape, axis)
           y == ResolvedAxis(b, shape, axis)
           n == Len(x.parts)
<1>1. n \in Nat \ {0} /\ x.stride \in Nat \ {0}
  BY PartsOfAnAxis
<1>2. y.stride \in Nat \ {0}
  BY PartsOfAnAxis
<1>3. x.parts = y.parts /\ (n <= 1 \/ x.stride = y.stride)
  BY DEF SamePartitioning
<1> HIDE DEF x, y, n
<1>4. CASE x.stride = y.stride
  BY <1>3, <1>4 DEF ExtentOn, x, y
<1>5. CASE n = 1
  <2>1. t \div x.stride \in Nat /\ t \div y.stride \in Nat
    BY <1>1, <1>2, DivMod
  <2>2. \A k \in Nat : k % 1 = 0
    OBVIOUS
  <2>3. ExtentOn(x, t) = x.parts[1 + 0] /\ ExtentOn(y, t) = y.parts[1 + 0]
    <3>1. (t \div x.stride) % n = 0 /\ (t \div y.stride) % n = 0
      BY <1>5, <2>1, <2>2
    <3>2. n = Len(x.parts) /\ n = Len(y.parts)
      BY <1>3 DEF n
    <3> QED BY <3>1, <3>2 DEF ExtentOn
  <2> QED BY <1>3, <2>3 DEF x, y
<1> QED BY <1>1, <1>3, <1>4, <1>5 DEF x, y

\* Layouts that Layout::same_distribution accepts give every tile the same shards:
\* what one of them lays out may be read by the other where it is.
THEOREM SameDistributionSameShards ==
  ASSUME NEW a, NEW b, NEW shape, IsLayout(a), IsLayout(b), IsShape(shape),
         SameDistribution(a, b, shape)
  PROVE  Placed(a, shape).shards = Placed(b, shape).shards
<1>1. a.tiles = b.tiles /\ Resolvable(a, shape) /\ Resolvable(b, shape)
  BY DEF SameDistribution, Resolves
<1>2. \A t \in Tiles(a) : Shards(a, shape, t) = Shards(b, shape, t)
  <2> SUFFICES ASSUME NEW t \in Tiles(a) PROVE Shards(a, shape, t) = Shards(b, shape, t)
    OBVIOUS
  <2>0. t \in Nat /\ t \in Tiles(b)
    BY <1>1 DEF Tiles, IsLayout
  <2>1. CASE LinearGrain(a) = -1 /\ LinearGrain(b) = -1 /\ \A axis \in DOMAIN shape :
                 SamePartitioning(ResolvedAxis(a, shape, axis), ResolvedAxis(b, shape, axis))
    <3>1. Tiled(a, shape) /\ Tiled(b, shape)
      BY <1>1, <2>1 DEF Resolvable
    <3>2. ShardAt(a, shape, t) = ShardAt(b, shape, t)
      BY <2>0, <2>1, <3>1, SameExtents DEF ShardAt
    <3>3. Shards(a, shape, t) = <<ShardAt(a, shape, t)>> /\ Shards(b, shape, t) = <<ShardAt(b, shape, t)>>
      BY <2>1, Zenon DEF Shards, ShardAt
    <3> QED BY <3>2, <3>3
  <2>2. CASE a.axes = b.axes /\ a.replicas = b.replicas
    <3>1. LinearGrain(a) = LinearGrain(b)
      BY <2>2 DEF LinearGrain
    <3>2. CASE LinearGrain(a) # -1
      <4>1. \A u : BoundOf(a, shape, u) = BoundOf(b, shape, u)
        BY <1>1, <3>1 DEF BoundOf
      <4>2. FragmentsOf(a, shape, t) = FragmentsOf(b, shape, t)
        BY <4>1 DEF FragmentsOf, EndOf
      <4> QED BY <1>1, <2>0, <3>1, <3>2, <4>2, FlatShardsAreFragments
    <3>3. CASE LinearGrain(a) = -1
      <4>1. \A axis \in DOMAIN shape : ResolvedAxis(a, shape, axis) = ResolvedAxis(b, shape, axis)
        <5> SUFFICES ASSUME NEW axis \in DOMAIN shape
                     PROVE  ResolvedAxis(a, shape, axis) = ResolvedAxis(b, shape, axis)
          OBVIOUS
        <5>1. AxisOf(a, shape, axis) = AxisOf(b, shape, axis)
          BY <2>2 DEF AxisOf
        <5>2. \A i : AxisStride(a, i) = AxisStride(b, i)
          <6>1. \A c, i : AxisStride(c, i) = IF c.axes[i].stride # Packed THEN c.axes[i].stride
                             ELSE PartsProduct(c.replicas, SubSeq(c.axes, 1, i - 1))
            BY Zenon DEF AxisStride, PartsProduct
          <6> QED BY <2>2, <6>1
        <5> QED BY <2>2, <5>1, <5>2 DEF ResolvedAxis
      <4>2. ShardAt(a, shape, t) = ShardAt(b, shape, t)
        BY <4>1 DEF ShardAt
      <4>3. Shards(a, shape, t) = <<ShardAt(a, shape, t)>> /\ Shards(b, shape, t) = <<ShardAt(b, shape, t)>>
        BY <3>1, <3>3, Zenon DEF Shards, ShardAt
      <4> QED BY <4>2, <4>3
    <3> QED BY <3>2, <3>3
  <2> QED BY <2>1, <2>2 DEF SameDistribution
<1>3. Tiles(a) = Tiles(b)
  BY <1>1 DEF Tiles
<1>4. Placed(a, shape).shards = [t \in Tiles(a) |-> Shards(a, shape, t)]
  BY DEF Placed, WithShards, Tiles
<1>5. Placed(b, shape).shards = [t \in Tiles(b) |-> Shards(b, shape, t)]
  BY DEF Placed, WithShards, Tiles
<1> QED BY <1>2, <1>3, <1>4, <1>5
==============================================================================
