------------------------- MODULE ExchangeRowsProofs -------------------------
(***************************************************************************)
(* Theorems about ExchangeRows.  The inductive invariant says what each    *)
(* phase's blocks of the exchange table hold and that they lie apart, how  *)
(* far the setup list of the current row has been stored, and how often    *)
(* each row has been called at every place of the emitted code.            *)
(***************************************************************************)
EXTENDS ExchangeRows, TLAPS, WellFoundedInduction, FiniteSetTheorems

-----------------------------------------------------------------------------
(* Numbers and lists *)

Below == {ss \in Nat \X Nat : ss[1] < ss[2]}

\* No infinite descent among the natural numbers.
LEMMA BelowIsWellFounded == IsWellFoundedOn(Below, Nat)
<1>1. OpToRel(<, Nat) = Below
  BY Zenon DEF OpToRel, Below
<1> QED BY <1>1, NatLessThanWellFounded, Zenon

\* Every set of natural numbers has a least one: what the proofs by induction
\* in this module rest on.
LEMMA LeastNumber ==
  ASSUME NEW T, T \subseteq Nat, T # {}
  PROVE  \E x \in T : \A y \in T : x <= y
<1>1. PICK x \in T : \A y \in T : ~ (<<y, x>> \in Below)
  BY BelowIsWellFounded, WFMin
<1>2. \A y \in T : <<y, x>> \in Nat \X Nat
  OBVIOUS
<1>3. \A y \in T : ~ (y < x)
  BY <1>1, <1>2 DEF Below
<1> QED BY <1>3

\* A set of natural numbers with a bound has a greatest one.
LEMMA GreatestNumber ==
  ASSUME NEW T, T \subseteq Nat, T # {}, NEW b \in Nat, \A y \in T : y <= b
  PROVE  \E x \in T : \A y \in T : y <= x
<1> DEFINE D == {b - y : y \in T}
<1>0. \A y \in T : y \in Nat /\ b - y \in Nat
  OBVIOUS
<1>1. D \subseteq Nat /\ D # {}
  BY <1>0
<1>2. PICK d \in D : \A e \in D : d <= e
  BY <1>1, LeastNumber
<1>3. PICK x \in T : d = b - x
  BY <1>2
<1>4. ASSUME NEW y \in T PROVE y <= x
  <2>1. b - y \in D
    OBVIOUS
  <2>2. b - x <= b - y
    BY <1>2, <1>3, <2>1
  <2> QED BY <2>2
<1> QED BY <1>4

\* The first k of n slots of c words end before all n do.
LEMMA ProductIsMonotonic ==
  ASSUME NEW c \in Nat, NEW n \in Nat, NEW k \in 1..n
  PROVE  (k - 1) * c \in Nat /\ k * c <= n * c /\ k * c = (k - 1) * c + c
<1>1. k - 1 \in Nat /\ n - k \in Nat
  OBVIOUS
<1>2. (k - 1) * c \in Nat /\ (n - k) * c \in Nat
  BY <1>1
<1>3. k * c = (k - 1) * c + c /\ n * c = k * c + (n - k) * c
  OBVIOUS
<1> QED BY <1>2, <1>3

\* An address is in one slot of c words only.
LEMMA SlotsAreApart ==
  ASSUME NEW c \in Nat, NEW v \in Int, NEW k \in Nat, NEW m \in Nat, NEW a \in Int,
         a \in (v + (k - 1) * c)..(v + k * c - 1), a \in (v + (m - 1) * c)..(v + m * c - 1)
  PROVE  k = m
<1>1. ASSUME NEW i \in Nat, NEW j \in Nat, i < j PROVE i * c <= (j - 1) * c
  <2>1. (j - 1 - i) \in Nat
    BY <1>1
  <2>2. (j - 1 - i) * c \in Nat
    BY <2>1
  <2> QED BY <2>2
<1>2. /\ k * c \in Int /\ m * c \in Int /\ (k - 1) * c \in Int /\ (m - 1) * c \in Int
  OBVIOUS
<1>3. v + (k - 1) * c <= a /\ a < v + k * c /\ v + (m - 1) * c <= a /\ a < v + m * c
  BY <1>2
<1>4. ~ (k < m)
  BY <1>1, <1>2, <1>3
<1>5. ~ (m < k)
  BY <1>1, <1>2, <1>3
<1> QED BY <1>4, <1>5

\* Quotient and remainder of a division.
LEMMA Division ==
  ASSUME NEW M \in Nat, M > 0, NEW a \in Int
  PROVE  /\ a \div M \in Int /\ a % M \in 0..(M - 1)
         /\ a = M * (a \div M) + (a % M)
OBVIOUS

\* A number has one remainder.
LEMMA RemainderIsUnique ==
  ASSUME NEW M \in Nat, M > 0, NEW q1 \in Int, NEW q2 \in Int,
         NEW r1 \in 0..(M - 1), NEW r2 \in 0..(M - 1), M * q1 + r1 = M * q2 + r2
  PROVE  r1 = r2
<1>1. M * (q1 - q2) = r2 - r1
  OBVIOUS
<1>2. CASE q1 > q2
  <2>1. q1 - q2 >= 1
    BY <1>2
  <2>2. M * (q1 - q2) >= M
    BY <2>1
  <2> QED BY <2>2, <1>1
<1>3. CASE q1 < q2
  <2>1. q2 - q1 >= 1
    BY <1>3
  <2>2. M * (q2 - q1) >= M
    BY <2>1
  <2> QED BY <2>2, <1>1
<1> QED BY <1>2, <1>3

\* A remainder may be taken before the sum.
LEMMA RemainderOfSum ==
  ASSUME NEW M \in Nat, M > 0, NEW a \in Int, NEW b \in Int
  PROVE  ((a % M) + b) % M = (a + b) % M
<1> DEFINE r == a % M
           u == (r + b) % M
           v == (a + b) % M
<1>1. PICK q1 \in Int : a = M * q1 + r
  BY Division
<1>2. r \in Int /\ r + b \in Int /\ a + b \in Int
  BY Division
<1>3. PICK q2 \in Int : r + b = M * q2 + u /\ u \in 0..(M - 1)
  BY <1>2, Division
<1>4. PICK q3 \in Int : a + b = M * q3 + v /\ v \in 0..(M - 1)
  BY <1>2, Division
<1>5. M * (q1 + q2) = M * q1 + M * q2
  OBVIOUS
<1>6. a + b = M * (q1 + q2) + u
  <2> HIDE DEF r, u, v
  <2> QED BY <1>1, <1>2, <1>3, <1>5
<1>7. q1 + q2 \in Int
  OBVIOUS
<1> HIDE DEF r, u, v
<1>8. u = v
  BY <1>3, <1>4, <1>6, <1>7, RemainderIsUnique
<1> QED BY <1>8 DEF r, u, v

\* A number below the divisor is its own remainder.
LEMMA SmallRemainder ==
  ASSUME NEW M \in Nat, M > 0, NEW a \in 0..(M - 1)
  PROVE  a % M = a
<1>1. a = M * 0 + a
  OBVIOUS
<1>2. PICK q \in Int : a = M * q + (a % M)
  BY Division
<1> QED BY <1>1, <1>2, Division, RemainderIsUnique

\* The words of a list in which neighbours differ by the same amount.
LEMMA ArithmeticIsExact ==
  ASSUME NEW v \in [1..Count -> 0..(Modulus - 1)], Arithmetic(v), NEW n \in 0..(Count - 1)
  PROVE  (v[1] + n * ((v[2] - v[1]) % Modulus)) % Modulus = v[n + 1]
<1> DEFINE d == (v[2] - v[1]) % Modulus
           Bad == {k \in 0..(Count - 1) : (v[1] + k * d) % Modulus # v[k + 1]}
<1>1. Modulus \in Nat /\ Modulus > 0 /\ Count \in Nat /\ Count >= 1
  BY RowsAssumption, StepsAssumption
<1>2. Len(v) = Count /\ Count >= 3
  BY <1>1 DEF Arithmetic
<1>3. \A k \in 1..Count : v[k] \in Int /\ v[k] \in 0..(Modulus - 1)
  BY <1>1
<1>4. v[2] - v[1] \in Int /\ d \in Int
  BY <1>1, <1>2, <1>3, Division
<1>5. ASSUME NEW k \in 1..(Count - 1) PROVE (v[k] + d) % Modulus = v[k + 1]
  <2>1. d = (v[k + 1] - v[k]) % Modulus
    BY <1>2 DEF Arithmetic
  <2>2. v[k] \in Int /\ v[k + 1] \in Int /\ v[k + 1] \in 0..(Modulus - 1)
    BY <1>1, <1>3
  <2>3. (((v[k + 1] - v[k]) % Modulus) + v[k]) % Modulus = ((v[k + 1] - v[k]) + v[k]) % Modulus
    <3>1. v[k + 1] - v[k] \in Int
      BY <2>2
    <3> QED BY <3>1, <1>1, <2>2, RemainderOfSum
  <2>4. (v[k + 1] - v[k]) + v[k] = v[k + 1]
    BY <2>2
  <2>5. (d + v[k]) % Modulus = v[k + 1]
    BY <1>1, <2>1, <2>2, <2>3, <2>4, SmallRemainder
  <2> HIDE DEF d
  <2>6. d + v[k] = v[k] + d
    BY <1>4, <2>2
  <2> QED BY <2>5, <2>6
<1> HIDE DEF d
<1>6. Bad = {}
  <2> SUFFICES ASSUME Bad # {} PROVE FALSE
    OBVIOUS
  <2>1. Bad \subseteq Nat
    BY <1>1
  <2>2. PICK k \in Bad : \A j \in Bad : k <= j
    BY <2>1, LeastNumber
  <2>3. CASE k = 0
    <3>1. v[1] + k * d = v[1]
      BY <1>3, <1>4, <1>2, <2>3
    <3>2. v[1] % Modulus = v[1]
      <4>1. v[1] \in 0..(Modulus - 1)
        BY <1>2, <1>3
      <4> QED BY <4>1, <1>1, SmallRemainder
    <3> QED BY <2>3, <3>1, <3>2
  <2>4. CASE k # 0
    <3>1. k - 1 \in 0..(Count - 1) /\ k - 1 \notin Bad /\ k \in 1..(Count - 1)
      BY <2>1, <2>2, <2>4, <1>1
    <3>2. (v[1] + (k - 1) * d) % Modulus = v[k]
      BY <3>1
    <3>3. (((v[1] + (k - 1) * d) % Modulus) + d) % Modulus = ((v[1] + (k - 1) * d) + d) % Modulus
      <4>1. v[1] + (k - 1) * d \in Int
        BY <1>2, <1>3, <1>4, <3>1
      <4> QED BY <1>1, <1>4, <4>1, RemainderOfSum
    <3>4. (v[1] + (k - 1) * d) + d = v[1] + k * d
      <4>1. k \in Int /\ v[1] \in Int
        BY <1>2, <1>3, <3>1
      <4> QED BY <1>4, <4>1
    <3>5. (v[1] + k * d) % Modulus = v[k + 1]
      BY <3>1, <3>2, <3>3, <3>4, <1>5
    <3> QED BY <3>5
  <2> QED BY <2>3, <2>4
<1> QED BY <1>6 DEF d

\* Another address leaves a word a word.
LEMMA RelocatedIsAWord ==
  ASSUME NEW w \in 0..(Modulus - 1), NEW field \in 0..(Span - 1)
  PROVE  Relocated(w, field) \in 0..(Modulus - 1)
<1>1. Span \in Nat /\ Span > 0 /\ Modulus \in Nat /\ Modulus > 0 /\ Modulus % Span = 0
  BY RowsAssumption
<1>2. PICK q \in Int : w = Span * q + (w % Span)
  <2>1. w \in Int
    BY <1>1
  <2> QED BY <2>1, <1>1, Division
<1>3. PICK n \in Int : Modulus = Span * n
  <2>1. Modulus = Span * (Modulus \div Span) + (Modulus % Span) /\ Modulus \div Span \in Int
    BY <1>1, Division
  <2> QED BY <1>1, <2>1
<1>4. w % Span \in 0..(Span - 1)
  BY <1>1, Division
<1>5. w - (w % Span) = Span * q
  BY <1>1, <1>2, <1>4
<1>6. q >= 0
  <2> SUFFICES ASSUME q <= -1 PROVE FALSE
    OBVIOUS
  <2>1. Span * q <= -Span
    BY <1>1
  <2> QED BY <2>1, <1>1, <1>2, <1>4
<1>7. q + 1 <= n
  <2> SUFFICES ASSUME n <= q PROVE FALSE
    OBVIOUS
  <2>1. Span * n <= Span * q
    BY <1>1
  <2> QED BY <2>1, <1>1, <1>2, <1>3, <1>4
<1>8. Span * q >= 0
  BY <1>1, <1>6
<1>9. Span * q + Span <= Modulus
  <2>1. Span * (q + 1) <= Span * n
    BY <1>1, <1>7
  <2>2. Span * (q + 1) = Span * q + Span
    BY <1>1
  <2> QED BY <1>3, <2>1, <2>2
<1> QED BY <1>1, <1>5, <1>8, <1>9 DEF Relocated

\* Sets of offsets are finite.
LEMMA FiniteBelow ==
  ASSUME NEW b \in Nat, NEW S \in SUBSET (1..b)
  PROVE  IsFiniteSet(S) /\ Cardinality(S) \in Nat
<1>1. IsFiniteSet(1..b)
  <2>1. 1 \in Int /\ b \in Int
    OBVIOUS
  <2> QED BY <2>1, FS_Interval
<1>2. IsFiniteSet(S)
  BY <1>1, FS_Subset
<1> QED BY <1>2, FS_CardinalityType

Ascends(s, S) ==
  Range(s) = S /\ \A j, k \in DOMAIN s : j < k => s[j] < s[k]

\* Every set of offsets has a list in ascending order: a smallest set without one
\* would have one without its greatest offset.
LEMMA AscendingExists ==
  ASSUME NEW S, NEW b \in Nat, S \subseteq 1..b
  PROVE  \E s \in [1..Cardinality(S) -> S] : Ascends(s, S)
<1> DEFINE Good(T) == \E s \in [1..Cardinality(T) -> T] : Ascends(s, T)
           Bad == {Cardinality(T) : T \in {U \in SUBSET (1..b) : ~Good(U)}}
<1>1. \A T \in SUBSET (1..b) : IsFiniteSet(T) /\ Cardinality(T) \in Nat
  BY FiniteBelow
<1>2. Bad \subseteq Nat
  BY <1>1
<1>3. ASSUME Bad # {} PROVE FALSE
  <2>1. PICK c \in Bad : \A d \in Bad : c <= d
    BY <1>2, <1>3, LeastNumber
  <2>2. PICK T \in SUBSET (1..b) : c = Cardinality(T) /\ ~Good(T)
    OBVIOUS
  <2>3. CASE T = {}
    <3>1. Cardinality(T) = 0
      BY <2>3, FS_EmptySet
    <3> DEFINE s == [i \in {} |-> 0]
    <3>2. 1..0 = {}
      OBVIOUS
    <3>3. s \in [1..Cardinality(T) -> T] /\ Ascends(s, T)
      BY <2>3, <3>1, <3>2 DEF Ascends, Range
    <3> QED BY <2>2, <3>3
  <2>4. CASE T # {}
    <3>1. T \subseteq Nat /\ \A y \in T : y <= b
      OBVIOUS
    <3>2. PICK m \in T : \A y \in T : y <= m
      BY <2>4, <3>1, GreatestNumber
    <3> DEFINE R == T \ {m}
    <3>3. R \in SUBSET (1..b) /\ Cardinality(R) = c - 1 /\ c \in Nat /\ c - 1 \in Nat
      <4>1. IsFiniteSet(T) /\ Cardinality(T) \in Nat
        BY <1>1
      <4>2. IsFiniteSet(R) /\ Cardinality(R) = Cardinality(T) - 1 /\ R \in SUBSET (1..b)
        BY <4>1, <3>2, FS_RemoveElement
      <4>3. Cardinality(R) \in Nat
        BY <4>2, <1>1
      <4> QED BY <2>2, <4>1, <4>2, <4>3
    <3>4. Good(R)
      <4> SUFFICES ASSUME ~Good(R) PROVE FALSE
        OBVIOUS
      <4>1. Cardinality(R) \in Bad
        BY <3>3
      <4>2. c <= c - 1
        BY <4>1, <2>1, <3>3
      <4> QED BY <4>2, <3>3
    <3>5. PICK g \in [1..Cardinality(R) -> R] : Ascends(g, R)
      BY <3>4
    <3>6. g \in [1..(c - 1) -> R]
      BY <3>3, <3>5
    <3>7. \A y \in R : \E j \in 1..(c - 1) : g[j] = y
      BY <3>5, <3>6 DEF Ascends, Range
    <3>8. \A j, k \in 1..(c - 1) : j < k => g[j] < g[k]
      BY <3>5, <3>6 DEF Ascends
    <3> DEFINE s == [j \in 1..c |-> IF j = c THEN m ELSE g[j]]
    <3> HIDE DEF Good, Bad
    <3>9. s \in [1..c -> T]
      BY <3>3, <3>6
    <3>10. Range(s) = T
      <4>1. \A y \in T : \E j \in 1..c : s[j] = y
        <5> TAKE y \in T
        <5>1. CASE y = m
          BY <5>1, <3>3
        <5>2. CASE y # m
          <6>1. PICK j \in 1..(c - 1) : g[j] = y
            BY <5>2, <3>7
          <6> QED BY <6>1, <3>3
        <5> QED BY <5>1, <5>2
      <4> QED BY <4>1, <3>9 DEF Range
    <3>11. \A j, k \in DOMAIN s : j < k => s[j] < s[k]
      <4> TAKE j, k \in 1..c
      <4> HAVE j < k
      <4>1. j \in 1..(c - 1) /\ s[j] = g[j] /\ g[j] \in R
        BY <3>3, <3>6
      <4>2. CASE k = c
        <5>1. g[j] <= m /\ g[j] # m /\ g[j] \in Nat /\ m \in Nat
          BY <4>1, <3>1, <3>2
        <5> QED BY <4>1, <4>2, <5>1
      <4>3. CASE k # c
        <5>1. k \in 1..(c - 1) /\ s[k] = g[k]
          BY <4>3, <3>3
        <5> QED BY <4>1, <5>1, <3>8
      <4> QED BY <4>2, <4>3
    <3>12. Good(T)
      <4>1. Ascends(s, T)
        BY <3>10, <3>11 DEF Ascends
      <4> QED BY <4>1, <3>9, <2>2 DEF Good
    <3> QED BY <2>2, <3>12
  <2> QED BY <2>3, <2>4
<1>4. Good(S)
  BY <1>3
<1> QED BY <1>4

\* A list of a set of offsets lists each of them, and nothing else.
LEMMA AscendingLists ==
  ASSUME NEW S, NEW b \in Nat, S \subseteq 1..b, NEW T, S \subseteq T
  PROVE  /\ Ascending(S) \in Seq(T)
         /\ \A x \in S : \E k \in 1..Len(Ascending(S)) : Ascending(S)[k] = x
         /\ \A k \in 1..Len(Ascending(S)) : Ascending(S)[k] \in S
<1>1. Cardinality(S) \in Nat
  BY FiniteBelow
<1>2. \E s \in [1..Cardinality(S) -> S] :
        Range(s) = S /\ \A j, k \in DOMAIN s : j < k => s[j] < s[k]
  BY AscendingExists DEF Ascends
<1>3. Ascending(S) \in [1..Cardinality(S) -> S] /\ Range(Ascending(S)) = S
  BY <1>2 DEF Ascending
<1>4. Ascending(S) \in [1..Cardinality(S) -> T]
  BY <1>3
<1>5. Ascending(S) \in Seq(T) /\ Len(Ascending(S)) = Cardinality(S)
  BY <1>1, <1>4
<1> QED BY <1>3, <1>5 DEF Range

-----------------------------------------------------------------------------
(* The invariant *)

\* The phases of a tile: patches are of words the row has, and only a phase in
\* a repeat has patches or a moving base.
TileInv ==
  \A p \in Phases :
    /\ tile[p].words \in Seq(0..(Modulus - 1))
    /\ DOMAIN tile[p].patches \subseteq DOMAIN tile[p].words
    /\ \A i \in DOMAIN tile[p].patches :
         tile[p].patches[i] \in [1..Count -> 0..(Modulus - 1)]
    /\ p \notin Repeated => tile[p].patches = <<>> /\ tile[p].moving = FALSE

\* What was placed for a phase.
PlacedRight(p) ==
  /\ placed[p].row = shared[KeyOf(p)].program
  /\ placed[p].offsets = shared[KeyOf(p)].offsets
  /\ placed[p].row.address \in Nat
  /\ placed[p].row.words = RowWords(p)
  /\ placed[p].offsets.address = Behind(placed[p].row)
  /\ placed[p].offsets.words = SetupOffsets(p)
  /\ placed[p].values.address \in Nat
  /\ placed[p].values.words =
       [k \in DOMAIN SetupOffsets(p) |-> tile[p].words[SetupOffsets(p)[k]]]
  /\ placed[p].tables =
       [k \in DOMAIN TableSites(p) |->
          Place(Behind(placed[p].values) + (k - 1) * Count,
                tile[p].patches[TableSites(p)[k]])]

\* The words the sharers of a row have in common, and those a phase has alone.
CommonEnd(p) == Behind(placed[p].offsets)
OwnEnd(p) == Behind(placed[p].values) + Len(placed[p].tables) * Count

Apart(p, q) ==
  /\ KeyOf(p) # KeyOf(q) => \/ CommonEnd(p) <= placed[q].row.address
                            \/ CommonEnd(q) <= placed[p].row.address
  /\ p # q => \/ OwnEnd(p) <= placed[q].values.address
              \/ OwnEnd(q) <= placed[p].values.address
  /\ \/ CommonEnd(p) <= placed[q].values.address
     \/ OwnEnd(q) <= placed[p].row.address

LayoutInv ==
  /\ rowPc \in {"layout", "load", "fetch", "setup", "arm", "run", "done"}
  /\ cursor \in Nat
  /\ DOMAIN placed \subseteq Phases
  /\ DOMAIN shared = {KeyOf(p) : p \in DOMAIN placed}
  /\ \A p \in DOMAIN placed :
       PlacedRight(p) /\ CommonEnd(p) <= cursor /\ OwnEnd(p) <= cursor
  /\ \A p, q \in DOMAIN placed : Apart(p, q)
  /\ rowPc # "layout" => DOMAIN placed = Phases

\* The offsets a setup list of phase p names.
Listed(p) == {SetupOffsets(p)[k] : k \in 1..Len(SetupOffsets(p))}

Holds(a, word) == a \in DOMAIN tableMem /\ tableMem[a] = word
WordIs(p, i, word) == Holds(placed[p].row.address + i - 1, word)

\* What nobody writes, and that there is memory for the rest.
StaysAsLoaded(p) ==
  /\ \A i \in DOMAIN tile[p].words : placed[p].row.address + i - 1 \in DOMAIN tableMem
  /\ \A k \in 1..Len(SetupOffsets(p)) :
       /\ Holds(placed[p].offsets.address + k - 1, SetupOffsets(p)[k])
       /\ Holds(placed[p].values.address + k - 1, tile[p].words[SetupOffsets(p)[k]])
  /\ \A k \in 1..Len(TableSites(p)), n \in 0..(Count - 1) :
       Holds(placed[p].tables[k].address + n, tile[p].patches[TableSites(p)[k]][n + 1])
  /\ \A i \in DOMAIN tile[p].words :
       i \notin Listed(p) /\ i \notin DOMAIN tile[p].patches => WordIs(p, i, tile[p].words[i])

\* An entry of a list somebody is still to store.
ToStore(k) ==
  \E w \in DOMAIN patched : patched[w] # 0 /\ \E j \in Nat : k = patched[w] + j * Len(patched)

Running == {"fetch", "setup", "arm", "run"}

\* Every entry of the list of phase p is stored or some storer will come to it.
SettingUp(p) ==
  /\ patched \in Seq(0..Len(SetupOffsets(p)))
  /\ \A k \in 1..Len(SetupOffsets(p)) :
       WordIs(p, SetupOffsets(p)[k], tile[p].words[SetupOffsets(p)[k]]) \/ ToStore(k)

SetUp(p) ==
  \A i \in DOMAIN tile[p].words \ DOMAIN tile[p].patches : WordIs(p, i, tile[p].words[i])

Armed(p) ==
  /\ \A i \in DOMAIN tile[p].words : WordIs(p, i, Encoded(p, ran[p])[i])
  /\ base = IF tile[p].moving THEN Base + ran[p] * Stride ELSE 0

MemoryInv ==
  /\ rowPc \in Running => \A p \in Phases : StaysAsLoaded(p)
  /\ rowPc = "setup" => SettingUp(Phase)
  /\ rowPc = "arm" => SetUp(Phase)
  /\ rowPc = "run" => Armed(Phase)

\* Where the emitted code is.
InRepeat == at.step \in DOMAIN Steps /\ IsRepeat(Steps[at.step]) /\ at.place > 1

\* How often the a-th phase of step i has been called in this invocation.
CallsOf(i, a) ==
  IF i < at.step THEN IF IsRepeat(Steps[i]) THEN Count ELSE 1
  ELSE IF i = at.step /\ InRepeat
    THEN (Count - frame.remaining) + (IF a + 1 < at.place THEN 1 ELSE 0)
  ELSE 0

PlaceInv ==
  /\ at \in [step : 1..(Len(Steps) + 1), place : Nat]
  /\ at.step \in DOMAIN Steps => at.place \in 1..Len(Code)
  /\ at.step = Len(Steps) + 1 => at.place = 1
  /\ rowPc \in {"setup", "arm", "run"} => at.step \in DOMAIN Steps /\ Instruction.op = "exchange"

FrameInv ==
  InRepeat =>
    /\ frame.remaining \in 1..Count
    /\ frame.pointer = Base + (Count - frame.remaining) * Stride
    /\ frame.profile = IF frame.remaining = Count THEN 1 ELSE 0

CountInv ==
  /\ ran \in [Phases -> Nat] /\ sampled \in [Phases -> SUBSET Nat]
  /\ \A i \in DOMAIN Steps : \A a \in DOMAIN Body(Steps[i]) :
       /\ ran[Body(Steps[i])[a]] = CallsOf(i, a)
       /\ sampled[Body(Steps[i])[a]] = IF CallsOf(i, a) = 0 THEN {} ELSE {0}

ControlInv == PlaceInv /\ FrameInv /\ CountInv

IInv == TileInv /\ LayoutInv /\ MemoryInv /\ ControlInv

-----------------------------------------------------------------------------
(* The rows of a tile *)

\* The phases of a step are phases.
LEMMA BodyTypes ==
  ASSUME NEW i \in DOMAIN Steps
  PROVE  /\ Body(Steps[i]) \in Seq(Nat \ {NoPhase})
         /\ \A a \in DOMAIN Body(Steps[i]) : Body(Steps[i])[a] \in Phases
<1>1. Body(Steps[i]) \in Seq(Nat \ {NoPhase})
  BY StepsAssumption
<1>2. ASSUME NEW a \in DOMAIN Body(Steps[i]) PROVE Body(Steps[i])[a] \in Phases
  BY <1>2 DEF Phases, Range
<1> QED BY <1>1, <1>2

\* Every phase belongs to a step, and its number is not that of no phase.
LEMMA PhaseIsInABody ==
  ASSUME NEW p \in Phases
  PROVE  /\ p \in Nat /\ p # NoPhase
         /\ \E i \in DOMAIN Steps : \E a \in DOMAIN Body(Steps[i]) : p = Body(Steps[i])[a]
<1>1. PICK i \in DOMAIN Steps : p \in Range(Body(Steps[i]))
  BY DEF Phases
<1>2. PICK a \in DOMAIN Body(Steps[i]) : p = Body(Steps[i])[a]
  BY <1>1 DEF Range
<1>3. Body(Steps[i]) \in Seq(Nat \ {NoPhase})
  BY StepsAssumption
<1> QED BY <1>2, <1>3

\* Offsets of the words of a row whose address is not zero in some sharer.
LEMMA OffsetsAreListed ==
  ASSUME TileInv, NEW p \in Phases
  PROVE  /\ SetupOffsets(p) \in Seq(DOMAIN tile[p].words)
         /\ Listed(p) \subseteq DOMAIN tile[p].words
         /\ IsShared(p) => NonzeroAddresses(tile[p].words) \subseteq Listed(p)
         /\ ~IsShared(p) => SetupOffsets(p) = <<>>
<1> DEFINE U == UNION {NonzeroAddresses(tile[q].words) : q \in Sharers(p)}
           n == Len(tile[p].words)
<1>1. n \in Nat /\ DOMAIN tile[p].words = 1..n
  BY DEF TileInv
<1>2. \A q \in Sharers(p) : DOMAIN tile[q].words = 1..n
  <2> TAKE q \in Sharers(p)
  <2>1. NormalizedWords(tile[q].words) = NormalizedWords(tile[p].words)
    BY DEF Sharers, KeyOf
  <2>2. DOMAIN NormalizedWords(tile[q].words) = DOMAIN tile[q].words
        /\ DOMAIN NormalizedWords(tile[p].words) = DOMAIN tile[p].words
    BY DEF NormalizedWords
  <2> QED BY <1>1, <2>1, <2>2
<1>3. U \subseteq 1..n
  BY <1>2 DEF NonzeroAddresses
<1>4. /\ Ascending(U) \in Seq(1..n)
      /\ \A x \in U : \E k \in 1..Len(Ascending(U)) : Ascending(U)[k] = x
      /\ \A k \in 1..Len(Ascending(U)) : Ascending(U)[k] \in U
  BY <1>1, <1>3, AscendingLists
<1>5. CASE IsShared(p)
  <2>1. SetupOffsets(p) = Ascending(U)
    BY <1>5 DEF SetupOffsets
  <2>2. p \in Sharers(p)
    BY DEF Sharers
  <2> HIDE DEF U, n
  <2>3. Ascending(U) \in Seq(1..n)
    BY <1>4
  <2>4. NonzeroAddresses(tile[p].words) \subseteq U
    BY <2>2 DEF U
  <2>5. Listed(p) \subseteq 1..n
    BY <2>1, <1>3, <1>4 DEF Listed
  <2>6. U \subseteq Listed(p)
    BY <2>1, <1>4 DEF Listed
  <2> QED BY <1>1, <1>5, <2>1, <2>3, <2>4, <2>5, <2>6
<1>6. CASE ~IsShared(p)
  <2>1. SetupOffsets(p) = <<>>
    BY <1>6 DEF SetupOffsets
  <2> QED BY <1>6, <2>1 DEF Listed
<1> QED BY <1>5, <1>6

\* The patches that need a table, each with its table.
LEMMA TablesAreListed ==
  ASSUME TileInv, NEW p \in Phases
  PROVE  /\ TableSites(p) \in Seq(DOMAIN tile[p].patches)
         /\ \A i \in DOMAIN tile[p].patches : ~Arithmetic(tile[p].patches[i]) =>
              \E k \in 1..Len(TableSites(p)) : TableSites(p)[k] = i
<1> DEFINE U == {i \in DOMAIN tile[p].patches : ~Arithmetic(tile[p].patches[i])}
           n == Len(tile[p].words)
<1>1. n \in Nat /\ DOMAIN tile[p].patches \subseteq 1..n
  BY DEF TileInv
<1>2. U \subseteq 1..n /\ U \subseteq DOMAIN tile[p].patches /\ TableSites(p) = Ascending(U)
  BY <1>1 DEF TableSites
<1>3. /\ Ascending(U) \in Seq(DOMAIN tile[p].patches)
      /\ \A x \in U : \E k \in 1..Len(Ascending(U)) : Ascending(U)[k] = x
      /\ \A k \in 1..Len(Ascending(U)) : Ascending(U)[k] \in U
  BY <1>1, <1>2, AscendingLists
<1>4. \A i \in DOMAIN tile[p].patches : ~Arithmetic(tile[p].patches[i]) => i \in U
  OBVIOUS
<1> HIDE DEF U, n
<1> QED BY <1>2, <1>3, <1>4

\* The phases that share a row agree on it and on its offsets; a phase with
\* patches shares with none.
LEMMA SharersAgree ==
  ASSUME TileInv, NEW p \in Phases, NEW q \in Phases, KeyOf(p) = KeyOf(q)
  PROVE  /\ DOMAIN tile[p].words = DOMAIN tile[q].words
         /\ SetupOffsets(p) = SetupOffsets(q) /\ RowWords(p) = RowWords(q)
         /\ tile[p].patches # <<>> => p = q
<1>1. NormalizedWords(tile[q].words) = NormalizedWords(tile[p].words)
  BY DEF KeyOf
<1>2. DOMAIN NormalizedWords(tile[q].words) = DOMAIN tile[q].words
      /\ DOMAIN NormalizedWords(tile[p].words) = DOMAIN tile[p].words
  BY DEF NormalizedWords
<1>3. Sharers(p) = Sharers(q)
  BY DEF Sharers
<1>4. p # q => IsShared(p) /\ IsShared(q)
  BY DEF Sharers, IsShared
<1>5. SetupOffsets(p) = SetupOffsets(q)
  BY <1>3, <1>4 DEF SetupOffsets
<1>6. RowWords(p) = RowWords(q)
  BY <1>4 DEF RowWords
<1>7. tile[p].patches # <<>> => p = q
  <2>1. p # NoPhase /\ q # NoPhase
    BY PhaseIsInABody
  <2>2. KeyOf(p)[2] = KeyOf(q)[2]
    OBVIOUS
  <2> QED BY <2>1, <2>2 DEF KeyOf
<1> QED BY <1>1, <1>2, <1>5, <1>6, <1>7

\* What is placed for a phase has the words of the phase where no list names them.
LEMMA CommonWords ==
  ASSUME TileInv, NEW p \in Phases
  PROVE  /\ RowWords(p) \in Seq(Int) /\ Len(RowWords(p)) = Len(tile[p].words)
         /\ \A i \in DOMAIN tile[p].words :
              i \notin Listed(p) => RowWords(p)[i] = tile[p].words[i]
<1> DEFINE w == tile[p].words
<1>1. w \in Seq(0..(Modulus - 1)) /\ Modulus \in Nat /\ Span \in Nat /\ Span > 0
  BY RowsAssumption DEF TileInv
<1>2. CASE ~IsShared(p)
  BY <1>1, <1>2 DEF RowWords
<1>3. CASE IsShared(p)
  <2>1. RowWords(p) = NormalizedWords(w)
    BY <1>3 DEF RowWords, KeyOf
  <2>2. \A i \in DOMAIN w : w[i] \in Int /\ w[i] % Span \in Int
    <3> TAKE i \in DOMAIN w
    <3>1. w[i] \in Int
      BY <1>1
    <3> QED BY <1>1, <3>1, Division
  <2>3. NormalizedWords(w) \in [1..Len(w) -> Int] /\ Len(w) \in Nat
    BY <1>1, <2>2 DEF NormalizedWords
  <2>4. NormalizedWords(w) \in Seq(Int) /\ Len(NormalizedWords(w)) = Len(w)
    BY <2>3
  <2>5. ASSUME NEW i \in DOMAIN w, i \notin Listed(p) PROVE NormalizedWords(w)[i] = w[i]
    <3>1. i \notin NonzeroAddresses(w)
      BY <1>3, <2>5, OffsetsAreListed
    <3>2. HasAddress(w[i]) => w[i] % Span = 0
      BY <3>1 DEF NonzeroAddresses
    <3> QED BY <2>2, <3>2 DEF NormalizedWords
  <2> QED BY <2>1, <2>4, <2>5
<1> QED BY <1>2, <1>3

\* What follows from the rows of the phases stays as they do.
LEMMA SameTile ==
  ASSUME tile' = tile
  PROVE  /\ TileInv' <=> TileInv
         /\ \A p \in Phases : /\ KeyOf(p)' = KeyOf(p)
                              /\ RowWords(p)' = RowWords(p)
                              /\ SetupOffsets(p)' = SetupOffsets(p)
                              /\ TableSites(p)' = TableSites(p)
                              /\ Listed(p)' = Listed(p)
<1>1. TileInv' <=> TileInv
  BY DEF TileInv
<1>2. \A p : KeyOf(p)' = KeyOf(p)
  BY DEF KeyOf
<1>3. \A p : Sharers(p)' = Sharers(p)
  BY <1>2 DEF Sharers
<1>4. \A p : IsShared(p)' = IsShared(p)
  BY <1>3 DEF IsShared
<1>5. \A p : RowWords(p)' = RowWords(p)
  BY <1>2, <1>4 DEF RowWords
<1>6. \A p : SetupOffsets(p)' = SetupOffsets(p)
  BY <1>3, <1>4 DEF SetupOffsets
<1>7. \A p : TableSites(p)' = TableSites(p)
  BY DEF TableSites
<1>8. \A p : Listed(p)' = Listed(p)
  BY <1>6 DEF Listed
<1> QED BY <1>1, <1>2, <1>5, <1>6, <1>7, <1>8

\* Elements of a list, and lists as functions.
LEMMA ElementOfSeq ==
  ASSUME NEW T, NEW s \in Seq(T), NEW i \in DOMAIN s
  PROVE  s[i] \in T /\ i \in 1..Len(s) /\ Len(s) \in Nat
OBVIOUS

LEMMA FunctionsAreLists ==
  ASSUME NEW T, NEW n \in Nat, NEW f \in [1..n -> T]
  PROVE  f \in Seq(T) /\ Len(f) = n
OBVIOUS

LEMMA ListsAreFunctions ==
  ASSUME NEW T, NEW s \in Seq(T)
  PROVE  s \in [1..Len(s) -> T]
OBVIOUS

\* Relocation leaves words.
LEMMA PatchesAreWords ==
  ASSUME NEW row \in Rows, NEW f \in Patches(row)
  PROVE  /\ DOMAIN f \subseteq DOMAIN row
         /\ \A i \in DOMAIN f : f[i] \in [1..Count -> 0..(Modulus - 1)]
<1>0. PICK S \in SUBSET {i \in DOMAIN row : HasAddress(row[i])} :
        f \in {[i \in S |-> [n \in 1..Count |-> Relocated(row[i], fields[i][n])]] :
                 fields \in {g \in [S -> Progressions] : \A i \in S : g[i][1] = row[i] % Span}}
  BY Zenon DEF Patches
<1>1. PICK fields \in [S -> Progressions] :
        f = [i \in S |-> [n \in 1..Count |-> Relocated(row[i], fields[i][n])]]
  BY <1>0
<1>2. ASSUME NEW i \in S, NEW n \in 1..Count
      PROVE  Relocated(row[i], fields[i][n]) \in 0..(Modulus - 1)
  <2>1. row \in Seq(0..(Modulus - 1)) /\ i \in DOMAIN row
    BY RowsAssumption, <1>0
  <2>2. row[i] \in 0..(Modulus - 1)
    BY ElementOfSeq, <2>1
  <2>3. fields[i][n] \in 0..(Span - 1)
    BY RowsAssumption
  <2> QED BY <2>2, <2>3, RelocatedIsAWord
<1>3. DOMAIN f = S
  BY <1>1
<1>4. ASSUME NEW i \in S PROVE f[i] \in [1..Count -> 0..(Modulus - 1)]
  BY <1>1, <1>2
<1> QED BY <1>0, <1>3, <1>4

\* The rows a tile starts with are words and patches of them.
LEMMA InitialTile == RowInit => TileInv
<1> SUFFICES ASSUME RowInit, NEW p \in Phases
             PROVE  /\ tile[p].words \in Seq(0..(Modulus - 1))
                    /\ DOMAIN tile[p].patches \subseteq DOMAIN tile[p].words
                    /\ \A i \in DOMAIN tile[p].patches :
                         tile[p].patches[i] \in [1..Count -> 0..(Modulus - 1)]
                    /\ p \notin Repeated => tile[p].patches = <<>> /\ tile[p].moving = FALSE
  BY DEF TileInv
<1>1. Rows \subseteq Seq(0..(Modulus - 1)) /\ Modulus \in Nat /\ Modulus > 0
  BY RowsAssumption
<1>2. CASE tile = [q \in Phases |-> [words |-> InactiveRow, patches |-> <<>>, moving |-> FALSE]]
  <2>1. tile[p].words = <<0>> /\ tile[p].patches = <<>> /\ tile[p].moving = FALSE
    BY <1>2 DEF InactiveRow, Return
  <2>2. 0 \in 0..(Modulus - 1)
    BY <1>1
  <2>3. DOMAIN tile[p].patches = {}
    BY <2>1
  <2>4. tile[p].words \in Seq(0..(Modulus - 1))
    BY <2>1, <2>2
  <2> QED BY <2>1, <2>3, <2>4
<1>3. CASE \E out \in [Phases \ Repeated -> Outside], in \in [Repeated -> Inside] :
             tile = [q \in Phases |-> IF q \in Repeated THEN in[q] ELSE out[q]]
  <2>1. PICK out \in [Phases \ Repeated -> Outside], in \in [Repeated -> Inside] :
          tile = [q \in Phases |-> IF q \in Repeated THEN in[q] ELSE out[q]]
    BY <1>3
  <2>2. CASE p \notin Repeated
    <3>1. tile[p] \in Outside
      BY <2>1, <2>2
    <3>2. tile[p].words \in Rows /\ tile[p].patches = <<>> /\ tile[p].moving = FALSE
      BY <3>1 DEF Outside
    <3>3. DOMAIN tile[p].patches = {}
      BY <3>2
    <3> QED BY <3>2, <3>3, <1>1
  <2>3. CASE p \in Repeated
    <3>1. tile[p] \in Inside
      BY <2>1, <2>3
    <3>2. tile[p].words \in Rows /\ tile[p].patches \in Patches(tile[p].words)
      BY <3>1 DEF Inside
    <3> QED BY <3>2, <1>1, <2>3, PatchesAreWords
  <2> QED BY <2>2, <2>3
<1> QED BY <1>2, <1>3 DEF RowInit

\* Lengths and lists of what is placed for a phase.
LEMMA PlacedLengths ==
  ASSUME TileInv, NEW p \in Phases
  PROVE  /\ SetupOffsets(p) \in Seq(Nat) /\ Len(SetupOffsets(p)) \in Nat
         /\ DOMAIN SetupOffsets(p) = 1..Len(SetupOffsets(p))
         /\ RowWords(p) \in Seq(Int) /\ Len(RowWords(p)) \in Nat
         /\ Len(TableSites(p)) \in Nat /\ DOMAIN TableSites(p) = 1..Len(TableSites(p))
         /\ Len(TableSites(p)) * Count \in Nat
<1>1. SetupOffsets(p) \in Seq(DOMAIN tile[p].words) /\ RowWords(p) \in Seq(Int)
      /\ TableSites(p) \in Seq(DOMAIN tile[p].patches)
  BY OffsetsAreListed, TablesAreListed, CommonWords
<1>2. Len(SetupOffsets(p)) \in Nat /\ DOMAIN SetupOffsets(p) = 1..Len(SetupOffsets(p))
      /\ Len(RowWords(p)) \in Nat
      /\ Len(TableSites(p)) \in Nat /\ DOMAIN TableSites(p) = 1..Len(TableSites(p))
  BY <1>1
<1>3. \A k \in 1..Len(SetupOffsets(p)) : SetupOffsets(p)[k] \in Nat
  <2>1. \A k \in 1..Len(SetupOffsets(p)) : SetupOffsets(p)[k] \in DOMAIN tile[p].words
    BY <1>1
  <2>2. DOMAIN tile[p].words \subseteq Nat
    BY DEF TileInv
  <2> QED BY <2>1, <2>2
<1>4. SetupOffsets(p) \in Seq(Nat)
  <2>1. SetupOffsets(p) \in [1..Len(SetupOffsets(p)) -> Nat]
    BY <1>1, <1>2, <1>3
  <2> QED BY <2>1, <1>2
<1>5. Len(TableSites(p)) * Count \in Nat
  BY <1>2, StepsAssumption
<1> QED BY <1>1, <1>2, <1>4, <1>5

\* Placing a phase keeps apart what was placed.
LEMMA PlacingKeepsLayout ==
  ASSUME TileInv, LayoutInv, NEW p \in Phases, PlacePhase(p)
  PROVE  LayoutInv'
<1> DEFINE row == PlaceRow(p)
           free == IF KeyOf(p) \in DOMAIN shared THEN cursor ELSE Behind(row.offsets)
           values == Place(free, [k \in DOMAIN SetupOffsets(p) |->
                                    tile[p].words[SetupOffsets(p)[k]]])
           tables == [k \in DOMAIN TableSites(p) |->
                        Place(Behind(values) + (k - 1) * Count,
                              tile[p].patches[TableSites(p)[k]])]
           L == Len(SetupOffsets(p))
           W == Len(RowWords(p))
           T == Len(TableSites(p)) * Count
           new == [row |-> row.program, offsets |-> row.offsets,
                   values |-> values, tables |-> tables]
<1>1. /\ rowPc = "layout" /\ p \notin DOMAIN placed /\ tile' = tile
      /\ shared' = [k \in DOMAIN shared \cup {KeyOf(p)} |->
                      IF k = KeyOf(p) THEN row ELSE shared[k]]
      /\ placed' = [q \in DOMAIN placed \cup {p} |-> IF q = p THEN new ELSE placed[q]]
      /\ cursor' = Behind(values) + Len(tables) * Count
      /\ rowPc' = IF DOMAIN placed \cup {p} = Phases THEN "load" ELSE "layout"
  BY Zenon DEF PlacePhase
<1>2. /\ L \in Nat /\ W \in Nat /\ T \in Nat /\ cursor \in Nat
      /\ DOMAIN SetupOffsets(p) = 1..L /\ DOMAIN TableSites(p) = 1..Len(TableSites(p))
      /\ Len(TableSites(p)) \in Nat
  BY PlacedLengths DEF LayoutInv
<1>3. /\ row.program.address \in Nat /\ row.program.words = RowWords(p)
      /\ row.offsets.address = Behind(row.program) /\ row.offsets.words = SetupOffsets(p)
      /\ Behind(row.offsets) = row.program.address + W + L
      /\ free \in Nat /\ cursor <= free /\ Behind(row.offsets) <= free
      /\ KeyOf(p) \notin DOMAIN shared => cursor <= row.program.address
      /\ KeyOf(p) \in DOMAIN shared =>
           \E q \in DOMAIN placed : /\ KeyOf(q) = KeyOf(p) /\ placed[q].row = row.program
                                    /\ placed[q].offsets = row.offsets
  <2>1. CASE KeyOf(p) \notin DOMAIN shared
    <3>1. /\ row.program = Place(Aligned(cursor), RowWords(p))
          /\ row.offsets = Place(Behind(row.program), SetupOffsets(p))
          /\ free = Behind(row.offsets)
      BY <2>1 DEF PlaceRow
    <3>2. Aligned(cursor) \in Nat /\ cursor <= Aligned(cursor)
      <4>1. cursor \in Int /\ cursor % 2 \in 0..1
        BY <1>2
      <4> QED BY <1>2, <4>1 DEF Aligned
    <3> HIDE DEF row, free
    <3>3. row.program.address = Aligned(cursor) /\ row.program.words = RowWords(p)
          /\ row.offsets.address = Behind(row.program) /\ row.offsets.words = SetupOffsets(p)
      BY <3>1 DEF Place
    <3>4. Behind(row.program) = Aligned(cursor) + W
      BY <3>3 DEF Behind
    <3>5. Behind(row.offsets) = Aligned(cursor) + W + L
      BY <3>3, <3>4 DEF Behind
    <3> HIDE DEF W, L
    <3> QED BY <1>2, <2>1, <3>1, <3>2, <3>3, <3>4, <3>5
  <2>2. CASE KeyOf(p) \in DOMAIN shared
    <3>1. PICK q \in DOMAIN placed : KeyOf(q) = KeyOf(p)
      BY <2>2 DEF LayoutInv
    <3>2. row = shared[KeyOf(p)] /\ free = cursor
      BY <2>2 DEF PlaceRow
    <3>3. q \in Phases /\ PlacedRight(q) /\ CommonEnd(q) <= cursor
      BY DEF LayoutInv
    <3>4. RowWords(q) = RowWords(p) /\ SetupOffsets(q) = SetupOffsets(p)
      BY <3>1, <3>3, SharersAgree
    <3> HIDE DEF row, free
    <3>5. /\ placed[q].row = row.program /\ placed[q].offsets = row.offsets
          /\ row.program.address \in Nat /\ row.program.words = RowWords(p)
          /\ row.offsets.address = Behind(row.program) /\ row.offsets.words = SetupOffsets(p)
      BY <3>1, <3>2, <3>3, <3>4 DEF PlacedRight
    <3>6. Behind(row.program) = row.program.address + W
      BY <3>5 DEF Behind
    <3>7. Behind(row.offsets) = row.program.address + W + L
      BY <3>5, <3>6 DEF Behind
    <3>8. Behind(row.offsets) <= cursor
      BY <3>3, <3>5 DEF CommonEnd
    <3> HIDE DEF W, L
    <3> QED BY <1>2, <2>2, <3>1, <3>2, <3>5, <3>7, <3>8
  <2> QED BY <2>1, <2>2
<1>4. Len(values.words) = L /\ values.address = free
      /\ values.words = [k \in DOMAIN SetupOffsets(p) |-> tile[p].words[SetupOffsets(p)[k]]]
  <2>1. values.address = free
        /\ values.words = [k \in DOMAIN SetupOffsets(p) |-> tile[p].words[SetupOffsets(p)[k]]]
    BY Zenon DEF Place
  <2>2. Len(values.words) = L
    BY <2>1, <1>2
  <2> QED BY <2>1, <2>2
<1>5. Len(tables) * Count = T
  <2>1. Len(tables) = Len(TableSites(p))
    BY <1>2
  <2> QED BY <2>1
<1>6. Behind(values) = free + L
  BY <1>4 DEF Behind
<1>7. cursor' = free + L + T
  BY <1>1, <1>5, <1>6
<1>8. \A q \in Phases : /\ KeyOf(q)' = KeyOf(q) /\ RowWords(q)' = RowWords(q)
                        /\ SetupOffsets(q)' = SetupOffsets(q)
                        /\ TableSites(q)' = TableSites(q)
  BY <1>1, SameTile
<1>9. DOMAIN placed' = DOMAIN placed \cup {p} /\ placed'[p] = new
      /\ \A q \in DOMAIN placed : placed'[q] = placed[q] /\ q # p
  BY <1>1
<1>10. /\ new.row = row.program /\ new.offsets = row.offsets
       /\ new.values = values /\ new.tables = tables
  BY Zenon
<1>11. shared'[KeyOf(p)] = row
  BY <1>1
<1>12. \A q \in DOMAIN placed : shared'[KeyOf(q)] = shared[KeyOf(q)]
  <2> TAKE q \in DOMAIN placed
  <2>1. KeyOf(q) \in DOMAIN shared
    BY DEF LayoutInv
  <2>2. KeyOf(q) = KeyOf(p) => row = shared[KeyOf(q)]
    BY <2>1 DEF PlaceRow
  <2> HIDE DEF row
  <2> QED BY <1>1, <2>1, <2>2
<1>13. DOMAIN shared' = {KeyOf(q)' : q \in DOMAIN placed'}
  <2>1. DOMAIN shared' = {KeyOf(q) : q \in DOMAIN placed} \cup {KeyOf(p)}
    BY <1>1 DEF LayoutInv
  <2>2. DOMAIN placed' \subseteq Phases
    BY <1>9 DEF LayoutInv
  <2>3. \A q \in DOMAIN placed' : KeyOf(q)' = KeyOf(q)
    BY <2>2, <1>8
  <2> QED BY <2>1, <2>3, <1>9
<1> HIDE DEF row, free, values, tables, new
<1>14. PlacedRight(p)'
  <2>1. /\ placed'[p].row = shared'[KeyOf(p)'].program
        /\ placed'[p].offsets = shared'[KeyOf(p)'].offsets
    BY <1>8, <1>9, <1>10, <1>11
  <2>2. /\ placed'[p].row.address \in Nat
        /\ placed'[p].row.words = RowWords(p)'
        /\ placed'[p].offsets.address = Behind(placed'[p].row)
        /\ placed'[p].offsets.words = SetupOffsets(p)'
    BY <1>3, <1>8, <1>9, <1>10
  <2>3. /\ placed'[p].values.address \in Nat
        /\ placed'[p].values.words =
             [k \in DOMAIN SetupOffsets(p)' |-> tile'[p].words[SetupOffsets(p)'[k]]]
    BY <1>1, <1>3, <1>4, <1>8, <1>9, <1>10
  <2>4. placed'[p].tables =
          [k \in DOMAIN TableSites(p)' |->
             Place(Behind(placed'[p].values) + (k - 1) * Count,
                   tile'[p].patches[TableSites(p)'[k]])]
    BY <1>1, <1>8, <1>9, <1>10 DEF tables
  <2> QED BY <2>1, <2>2, <2>3, <2>4 DEF PlacedRight
<1>15. ASSUME NEW q \in DOMAIN placed
       PROVE  /\ PlacedRight(q)'
              /\ CommonEnd(q)' = CommonEnd(q) /\ OwnEnd(q)' = OwnEnd(q)
              /\ CommonEnd(q) <= cursor /\ OwnEnd(q) <= cursor
              /\ CommonEnd(q) \in Nat /\ OwnEnd(q) \in Nat
              /\ placed[q].row.address \in Nat /\ placed[q].values.address \in Nat
  <2>1. q \in Phases /\ PlacedRight(q) /\ CommonEnd(q) <= cursor /\ OwnEnd(q) <= cursor
    BY DEF LayoutInv
  <2>2. placed'[q] = placed[q] /\ tile' = tile /\ shared'[KeyOf(q)] = shared[KeyOf(q)]
    BY <1>1, <1>9, <1>12
  <2>3. PlacedRight(q)'
    BY <1>8, <2>1, <2>2 DEF PlacedRight
  <2>4. CommonEnd(q)' = CommonEnd(q) /\ OwnEnd(q)' = OwnEnd(q)
    BY <2>2 DEF CommonEnd, OwnEnd
  <2>5. CommonEnd(q) \in Nat /\ OwnEnd(q) \in Nat
    <3>1. /\ Len(SetupOffsets(q)) \in Nat /\ Len(RowWords(q)) \in Nat
          /\ Len(TableSites(q)) \in Nat /\ Len(TableSites(q)) * Count \in Nat
          /\ DOMAIN SetupOffsets(q) = 1..Len(SetupOffsets(q))
          /\ DOMAIN TableSites(q) = 1..Len(TableSites(q))
      BY <2>1, PlacedLengths
    <3>2. Behind(placed[q].row) \in Nat
      BY <2>1, <3>1 DEF PlacedRight, Behind
    <3>3. CommonEnd(q) \in Nat
      BY <2>1, <3>1, <3>2 DEF PlacedRight, Behind, CommonEnd
    <3>4. Len(placed[q].values.words) = Len(SetupOffsets(q))
          /\ Len(placed[q].tables) = Len(TableSites(q))
      BY <2>1, <3>1 DEF PlacedRight
    <3>5. OwnEnd(q) \in Nat
      BY <2>1, <3>1, <3>4 DEF PlacedRight, Behind, OwnEnd
    <3> QED BY <3>3, <3>5
  <2> QED BY <2>1, <2>3, <2>4, <2>5 DEF PlacedRight
<1>16. CommonEnd(p)' = Behind(row.offsets)
  BY <1>9, <1>10 DEF CommonEnd
<1>17. OwnEnd(p)' = free + L + T
  BY <1>5, <1>6, <1>9, <1>10 DEF OwnEnd
<1>18. placed'[p].row.address = row.program.address /\ placed'[p].values.address = free
  BY <1>4, <1>9, <1>10
<1> HIDE DEF L, W, T
<1>19. CommonEnd(p)' \in Nat /\ OwnEnd(p)' \in Nat /\ CommonEnd(p)' <= free
       /\ CommonEnd(p)' <= cursor' /\ OwnEnd(p)' <= cursor' /\ cursor <= cursor'
       /\ cursor' \in Nat
  BY <1>2, <1>3, <1>7, <1>16, <1>17
<1>20. ASSUME NEW q \in DOMAIN placed PROVE Apart(p, q)' /\ Apart(q, p)'
  <2>1. /\ CommonEnd(q)' = CommonEnd(q) /\ OwnEnd(q)' = OwnEnd(q) /\ placed'[q] = placed[q]
        /\ q \in Phases /\ KeyOf(q)' = KeyOf(q) /\ KeyOf(p)' = KeyOf(p)
    BY <1>8, <1>9, <1>15 DEF LayoutInv
  <2>2. CASE KeyOf(p) \notin DOMAIN shared
    <3>1. /\ CommonEnd(q) <= row.program.address /\ OwnEnd(q) <= row.program.address
          /\ CommonEnd(q) <= free /\ OwnEnd(q) <= free
      BY <2>2, <1>2, <1>3, <1>15
    <3> QED BY <2>1, <3>1, <1>18 DEF Apart
  <2>3. CASE KeyOf(p) \in DOMAIN shared
    <3>1. PICK s \in DOMAIN placed : /\ KeyOf(s) = KeyOf(p) /\ placed[s].row = row.program
                                     /\ placed[s].offsets = row.offsets
      BY <2>3, <1>3
    <3>2. Apart(s, q) /\ Apart(q, s)
      BY DEF LayoutInv
    <3>3. CommonEnd(s) = Behind(row.offsets) /\ placed[s].row.address = row.program.address
      BY <3>1 DEF CommonEnd
    <3>4. CommonEnd(q) <= free /\ OwnEnd(q) <= free
      BY <1>2, <1>3, <1>15
    <3>5. KeyOf(p) # KeyOf(q) => \/ CommonEnd(p)' <= placed'[q].row.address
                                 \/ CommonEnd(q)' <= placed'[p].row.address
      BY <2>1, <3>1, <3>2, <3>3, <1>16, <1>18 DEF Apart
    <3>6. \/ CommonEnd(p)' <= placed'[q].values.address
          \/ OwnEnd(q)' <= placed'[p].row.address
      BY <2>1, <3>1, <3>2, <3>3, <1>16, <1>18 DEF Apart
    <3> QED BY <2>1, <3>4, <3>5, <3>6, <1>18 DEF Apart
  <2> QED BY <2>2, <2>3
<1>21. Apart(p, p)'
  BY <1>18, <1>19 DEF Apart
<1>22. ASSUME NEW q \in DOMAIN placed, NEW s \in DOMAIN placed PROVE Apart(q, s)'
  <2>1. q \in Phases /\ s \in Phases /\ Apart(q, s)
    BY DEF LayoutInv
  <2> QED BY <2>1, <1>8, <1>9, <1>15 DEF Apart
<1>23. ASSUME NEW q \in DOMAIN placed'
       PROVE  PlacedRight(q)' /\ CommonEnd(q)' <= cursor' /\ OwnEnd(q)' <= cursor'
  <2>1. CASE q = p
    BY <2>1, <1>14, <1>19
  <2>2. CASE q \in DOMAIN placed
    BY <2>2, <1>2, <1>15, <1>19
  <2> QED BY <2>1, <2>2, <1>9
<1>24. \A q, s \in DOMAIN placed' : Apart(q, s)'
  BY <1>9, <1>20, <1>21, <1>22
<1>25. DOMAIN placed' \subseteq Phases /\ (rowPc' # "layout" => DOMAIN placed' = Phases)
       /\ rowPc' \in {"layout", "load", "fetch", "setup", "arm", "run", "done"}
  BY <1>1, <1>9 DEF LayoutInv
<1> QED BY <1>13, <1>19, <1>23, <1>24, <1>25 DEF LayoutInv

-----------------------------------------------------------------------------
(* What is loaded *)

\* The blocks of a phase that was placed.
LEMMA Blocks ==
  ASSUME TileInv, LayoutInv, NEW p \in DOMAIN placed
  PROVE  /\ p \in Phases /\ PlacedRight(p)
         /\ placed[p].row.address \in Nat /\ placed[p].values.address \in Nat
         /\ Behind(placed[p].row) = placed[p].row.address + Len(tile[p].words)
         /\ CommonEnd(p) = Behind(placed[p].row) + Len(SetupOffsets(p))
         /\ Behind(placed[p].values) = placed[p].values.address + Len(SetupOffsets(p))
         /\ OwnEnd(p) = Behind(placed[p].values) + Len(TableSites(p)) * Count
         /\ Len(tile[p].words) \in Nat /\ Len(SetupOffsets(p)) \in Nat
         /\ Len(TableSites(p)) \in Nat /\ Len(TableSites(p)) * Count \in Nat
         /\ CommonEnd(p) <= cursor /\ OwnEnd(p) <= cursor /\ cursor \in Nat
         /\ DOMAIN placed[p].tables = 1..Len(TableSites(p))
         /\ DOMAIN SetupOffsets(p) = 1..Len(SetupOffsets(p))
<1>1. p \in Phases /\ PlacedRight(p) /\ CommonEnd(p) <= cursor /\ OwnEnd(p) <= cursor
      /\ cursor \in Nat
  BY DEF LayoutInv
<1>2. /\ Len(SetupOffsets(p)) \in Nat /\ Len(RowWords(p)) \in Nat
      /\ Len(TableSites(p)) \in Nat /\ Len(TableSites(p)) * Count \in Nat
      /\ DOMAIN SetupOffsets(p) = 1..Len(SetupOffsets(p))
      /\ DOMAIN TableSites(p) = 1..Len(TableSites(p))
  BY <1>1, PlacedLengths
<1>3. Len(RowWords(p)) = Len(tile[p].words)
  BY <1>1, CommonWords
<1>4. Behind(placed[p].row) = placed[p].row.address + Len(tile[p].words)
  BY <1>1, <1>3 DEF PlacedRight, Behind
<1>5. CommonEnd(p) = Behind(placed[p].row) + Len(SetupOffsets(p))
  BY <1>1 DEF PlacedRight, Behind, CommonEnd
<1>6. Len(placed[p].values.words) = Len(SetupOffsets(p))
      /\ Len(placed[p].tables) = Len(TableSites(p))
      /\ DOMAIN placed[p].tables = 1..Len(TableSites(p))
  BY <1>1, <1>2 DEF PlacedRight
<1>7. Behind(placed[p].values) = placed[p].values.address + Len(SetupOffsets(p))
  BY <1>6 DEF Behind
<1>8. OwnEnd(p) = Behind(placed[p].values) + Len(TableSites(p)) * Count
  BY <1>6 DEF OwnEnd
<1> QED BY <1>1, <1>2, <1>3, <1>4, <1>5, <1>6, <1>7, <1>8 DEF PlacedRight

\* The tables of a phase lie one behind the other.
LEMMA TablePlaces ==
  ASSUME TileInv, LayoutInv, NEW p \in DOMAIN placed, NEW k \in 1..Len(TableSites(p))
  PROVE  /\ placed[p].tables[k].address = Behind(placed[p].values) + (k - 1) * Count
         /\ placed[p].tables[k].words = tile[p].patches[TableSites(p)[k]]
         /\ TableSites(p)[k] \in DOMAIN tile[p].patches
         /\ placed[p].tables[k].words \in Seq(Int)
         /\ Len(placed[p].tables[k].words) = Count
         /\ Behind(placed[p].tables[k]) = Behind(placed[p].values) + k * Count
         /\ (k - 1) * Count \in Nat
         /\ k * Count <= Len(TableSites(p)) * Count /\ k * Count = (k - 1) * Count + Count
<1>1. p \in Phases /\ PlacedRight(p) /\ Len(TableSites(p)) \in Nat
      /\ Behind(placed[p].values) \in Nat
  <2> HIDE DEF Behind
  <2> QED BY Blocks
<1>2. TableSites(p) \in Seq(DOMAIN tile[p].patches) /\ DOMAIN TableSites(p) = 1..Len(TableSites(p))
  BY <1>1, TablesAreListed
<1>3. TableSites(p)[k] \in DOMAIN tile[p].patches
  BY <1>2
<1>4. placed[p].tables[k] = Place(Behind(placed[p].values) + (k - 1) * Count,
                                  tile[p].patches[TableSites(p)[k]])
  BY <1>1, <1>2 DEF PlacedRight
<1>5. tile[p].patches[TableSites(p)[k]] \in [1..Count -> 0..(Modulus - 1)]
  BY <1>1, <1>3 DEF TileInv
<1>6. Count \in Nat /\ Count > 0 /\ Modulus \in Nat
  BY StepsAssumption, RowsAssumption
<1>7. placed[p].tables[k].address = Behind(placed[p].values) + (k - 1) * Count
      /\ placed[p].tables[k].words = tile[p].patches[TableSites(p)[k]]
  BY <1>4 DEF Place
<1>8. placed[p].tables[k].words \in Seq(Int) /\ Len(placed[p].tables[k].words) = Count
  <2>1. tile[p].patches[TableSites(p)[k]] \in [1..Count -> Int]
    BY <1>5, <1>6
  <2> QED BY <2>1, <1>6, <1>7
<1>9. /\ (k - 1) * Count \in Nat
      /\ k * Count <= Len(TableSites(p)) * Count /\ k * Count = (k - 1) * Count + Count
  BY <1>1, <1>6, ProductIsMonotonic
<1>10. Behind(placed[p].tables[k]) = Behind(placed[p].values) + k * Count
  BY <1>1, <1>6, <1>7, <1>8, <1>9 DEF Behind
<1> QED BY <1>3, <1>7, <1>8, <1>9, <1>10

\* A word of the image is of one of the four kinds of data row.
OfRow(r, a, p) == r = placed[p].row /\ a \in placed[p].row.address..(Behind(placed[p].row) - 1)
OfOffsets(r, a, p) == r = placed[p].offsets /\ a \in Behind(placed[p].row)..(CommonEnd(p) - 1)
OfValues(r, a, p) ==
  r = placed[p].values /\ a \in placed[p].values.address..(Behind(placed[p].values) - 1)
OfTable(r, a, p, k) ==
  /\ r = placed[p].tables[k]
  /\ a \in (Behind(placed[p].values) + (k - 1) * Count)..(Behind(placed[p].values) + k * Count - 1)

\* Every word of a data row is in a block of some phase.
LEMMA KindsOfRows ==
  ASSUME TileInv, LayoutInv, DOMAIN placed = Phases, NEW r \in DataRows
  PROVE  /\ r.words \in Seq(Int) /\ r.address \in Nat
         /\ \A a : RowCovers(r, a) =>
              /\ a \in 0..cursor
              /\ \E p \in Phases : \/ OfRow(r, a, p) \/ OfOffsets(r, a, p) \/ OfValues(r, a, p)
                                   \/ \E k \in 1..Len(TableSites(p)) : OfTable(r, a, p, k)
<1>1. PICK p \in Phases :
        r \in {placed[p].row, placed[p].offsets, placed[p].values} \cup Range(placed[p].tables)
  BY DEF DataRows
<1>2. /\ PlacedRight(p)
      /\ placed[p].row.address \in Nat /\ placed[p].values.address \in Nat
      /\ Behind(placed[p].row) = placed[p].row.address + Len(tile[p].words)
      /\ CommonEnd(p) = Behind(placed[p].row) + Len(SetupOffsets(p))
      /\ Behind(placed[p].values) = placed[p].values.address + Len(SetupOffsets(p))
      /\ OwnEnd(p) = Behind(placed[p].values) + Len(TableSites(p)) * Count
      /\ Len(tile[p].words) \in Nat /\ Len(SetupOffsets(p)) \in Nat
      /\ Len(TableSites(p)) \in Nat /\ Len(TableSites(p)) * Count \in Nat
      /\ CommonEnd(p) <= cursor /\ OwnEnd(p) <= cursor /\ cursor \in Nat
      /\ DOMAIN placed[p].tables = 1..Len(TableSites(p))
      /\ DOMAIN SetupOffsets(p) = 1..Len(SetupOffsets(p))
  BY Blocks
<1>3. CASE r = placed[p].row
  <2>1. r.words \in Seq(Int) /\ r.address \in Nat
    BY <1>2, <1>3, CommonWords DEF PlacedRight
  <2>2. \A a : RowCovers(r, a) => a \in 0..cursor /\ OfRow(r, a, p)
    BY <1>2, <1>3 DEF RowCovers, OfRow
  <2> QED BY <2>1, <2>2
<1>4. CASE r = placed[p].offsets
  <2>1. r.words \in Seq(Int) /\ r.address \in Nat /\ r.address = Behind(placed[p].row)
    <3>1. r.words = SetupOffsets(p) /\ SetupOffsets(p) \in Seq(Nat)
      BY <1>2, <1>4, PlacedLengths DEF PlacedRight
    <3>2. \A i \in 1..Len(SetupOffsets(p)) : SetupOffsets(p)[i] \in Int
      BY <3>1
    <3>3. SetupOffsets(p) \in [1..Len(SetupOffsets(p)) -> Int]
      BY <3>1, <3>2, <1>2
    <3>4. SetupOffsets(p) \in Seq(Int)
      BY <3>3, <1>2
    <3>5. r.address = Behind(placed[p].row) /\ Behind(placed[p].row) \in Nat
      BY <1>2, <1>4 DEF PlacedRight
    <3> QED BY <3>1, <3>4, <3>5
  <2>2. \A a : RowCovers(r, a) => a \in 0..cursor /\ OfOffsets(r, a, p)
    <3>1. Behind(r) = CommonEnd(p)
      BY <1>4 DEF CommonEnd
    <3> QED BY <1>2, <1>4, <2>1, <3>1 DEF RowCovers, OfOffsets
  <2> QED BY <2>1, <2>2
<1>5. CASE r = placed[p].values
  <2>1. r.words \in Seq(Int) /\ r.address \in Nat
    <3>1. r.words = [k \in 1..Len(SetupOffsets(p)) |-> tile[p].words[SetupOffsets(p)[k]]]
      BY <1>2, <1>5 DEF PlacedRight
    <3>2. \A k \in 1..Len(SetupOffsets(p)) : tile[p].words[SetupOffsets(p)[k]] \in Int
      <4> TAKE k \in 1..Len(SetupOffsets(p))
      <4>1. SetupOffsets(p) \in Seq(DOMAIN tile[p].words)
        BY OffsetsAreListed
      <4>2. SetupOffsets(p)[k] \in DOMAIN tile[p].words
        BY <4>1, <1>2
      <4>3. tile[p].words \in Seq(0..(Modulus - 1)) /\ Modulus \in Nat
        BY RowsAssumption DEF TileInv
      <4>4. tile[p].words[SetupOffsets(p)[k]] \in 0..(Modulus - 1)
        BY <4>2, <4>3, ElementOfSeq
      <4> QED BY <4>3, <4>4
    <3>3. r.words \in [1..Len(SetupOffsets(p)) -> Int]
      BY <3>1, <3>2
    <3> DEFINE n == Len(SetupOffsets(p))
    <3>4. n \in Nat /\ r.words \in [1..n -> Int]
      BY <3>3, <1>2
    <3> HIDE DEF n
    <3>5. r.words \in Seq(Int)
      BY <3>4
    <3> QED BY <3>5, <1>2, <1>5
  <2>2. \A a : RowCovers(r, a) => a \in 0..cursor /\ OfValues(r, a, p)
    BY <1>2, <1>5 DEF RowCovers, OfValues
  <2> QED BY <2>1, <2>2
<1>6. CASE r \in Range(placed[p].tables)
  <2>1. PICK k \in 1..Len(TableSites(p)) : r = placed[p].tables[k]
    BY <1>2, <1>6 DEF Range
  <2>2. /\ r.address = Behind(placed[p].values) + (k - 1) * Count
        /\ r.words \in Seq(Int)
        /\ Behind(r) = Behind(placed[p].values) + k * Count
        /\ (k - 1) * Count \in Nat
        /\ k * Count <= Len(TableSites(p)) * Count /\ k * Count = (k - 1) * Count + Count
    BY <2>1, TablePlaces
  <2>3. Count \in Nat
    BY StepsAssumption
  <2> DEFINE low == (k - 1) * Count
             high == k * Count
             v == Behind(placed[p].values)
             total == Len(TableSites(p)) * Count
  <2>4. /\ r.address = v + low /\ Behind(r) = v + high /\ low \in Nat /\ v \in Nat
        /\ high <= total /\ high = low + Count /\ OwnEnd(p) = v + total /\ total \in Nat
        /\ OwnEnd(p) <= cursor /\ cursor \in Nat
    <3> HIDE DEF low, high, total
    <3>1. v \in Nat
      BY <1>2
    <3> HIDE DEF v
    <3> QED BY <3>1, <1>2, <2>2 DEF low, high, total, v
  <2>5. \A a : RowCovers(r, a) => a \in 0..cursor /\ OfTable(r, a, p, k)
    <3>2. \A a : OfTable(r, a, p, k) <=> a \in (v + low)..(v + high - 1)
      BY <2>1 DEF OfTable
    <3> HIDE DEF low, high, v, total
    <3>3. v + high <= cursor /\ high \in Nat
      BY <2>3, <2>4
    <3>4. \A a : RowCovers(r, a) <=> a \in (v + low)..(v + high - 1)
      BY <2>4 DEF RowCovers
    <3>5. \A a \in (v + low)..(v + high - 1) : a \in 0..cursor
      BY <2>4, <3>3
    <3> QED BY <3>2, <3>4, <3>5
  <2>6. r.address \in Nat /\ r.words \in Seq(Int)
    BY <2>2, <2>4
  <2> QED BY <2>5, <2>6
<1> QED BY <1>1, <1>3, <1>4, <1>5, <1>6

InCommon(a, p) == a \in placed[p].row.address..(CommonEnd(p) - 1)
InOwn(a, p) == a \in placed[p].values.address..(OwnEnd(p) - 1)

\* The row and the offsets are in the common block of a phase, the values and the
\* tables in its own, each at places of their own.
LEMMA KindsOfPlaces ==
  ASSUME TileInv, LayoutInv, NEW r, NEW a, NEW p \in DOMAIN placed
  PROVE  /\ OfRow(r, a, p) \/ OfOffsets(r, a, p) => InCommon(a, p)
         /\ OfValues(r, a, p) => InOwn(a, p)
         /\ \A k \in 1..Len(TableSites(p)) : OfTable(r, a, p, k) =>
              InOwn(a, p) /\ \A s : ~ OfValues(s, a, p)
<1> DEFINE c == placed[p].row.address
           rowEnd == Behind(placed[p].row)
           v == placed[p].values.address
           valuesEnd == Behind(placed[p].values)
           total == Len(TableSites(p)) * Count
<1>1. /\ c \in Nat /\ v \in Nat /\ rowEnd \in Nat /\ valuesEnd \in Nat /\ total \in Nat
      /\ CommonEnd(p) \in Nat /\ c <= rowEnd /\ rowEnd <= CommonEnd(p)
      /\ v <= valuesEnd /\ OwnEnd(p) = valuesEnd + total
  <2> DEFINE n == Len(tile[p].words)
             l == Len(SetupOffsets(p))
  <2>1. /\ c \in Nat /\ v \in Nat /\ rowEnd = c + n /\ CommonEnd(p) = rowEnd + l
        /\ valuesEnd = v + l /\ OwnEnd(p) = valuesEnd + total
        /\ n \in Nat /\ l \in Nat /\ total \in Nat
    BY Blocks
  <2> HIDE DEF c, v, rowEnd, valuesEnd, total, n, l
  <2> QED BY <2>1
<1>2. OfRow(r, a, p) \/ OfOffsets(r, a, p) => InCommon(a, p)
  <2> HIDE DEF c, rowEnd
  <2> QED BY <1>1 DEF OfRow, OfOffsets, InCommon, c, rowEnd
<1>3. OfValues(r, a, p) => InOwn(a, p)
  <2> HIDE DEF total, valuesEnd
  <2> QED BY <1>1 DEF OfValues, InOwn, valuesEnd
<1>4. ASSUME NEW k \in 1..Len(TableSites(p)), OfTable(r, a, p, k)
      PROVE  InOwn(a, p) /\ ~ (a \in v..(valuesEnd - 1))
  <2> DEFINE low == (k - 1) * Count
             high == k * Count
  <2>1. low \in Nat /\ high <= total /\ high = low + Count /\ Count \in Nat
    BY TablePlaces, StepsAssumption
  <2>2. a \in (valuesEnd + low)..(valuesEnd + high - 1)
    BY <1>4 DEF OfTable
  <2> HIDE DEF low, high, total, valuesEnd, v
  <2>3. a \in v..(valuesEnd + total - 1) /\ ~ (a \in v..(valuesEnd - 1))
    BY <1>1, <2>1, <2>2
  <2> QED BY <1>1, <2>3 DEF InOwn, v
<1>5. \A s : OfValues(s, a, p) => a \in v..(valuesEnd - 1)
  BY DEF OfValues
<1> HIDE DEF v, valuesEnd
<1> QED BY <1>2, <1>3, <1>4, <1>5

\* Where the blocks begin and end.
LEMMA BlockNumbers ==
  ASSUME TileInv, LayoutInv, NEW x \in DOMAIN placed
  PROVE  /\ placed[x].row.address \in Nat /\ placed[x].values.address \in Nat
         /\ CommonEnd(x) \in Int /\ OwnEnd(x) \in Int
         /\ Behind(placed[x].row) \in Int /\ Behind(placed[x].values) \in Int
<1> DEFINE n == Len(tile[x].words)
           l == Len(SetupOffsets(x))
           total == Len(TableSites(x)) * Count
           c == placed[x].row.address
           u == placed[x].values.address
           rowEnd == Behind(placed[x].row)
           v == Behind(placed[x].values)
<1>1. /\ c \in Nat /\ u \in Nat /\ rowEnd = c + n /\ CommonEnd(x) = rowEnd + l
      /\ v = u + l /\ OwnEnd(x) = v + total
      /\ n \in Nat /\ l \in Nat /\ total \in Nat
  BY Blocks
<1> HIDE DEF c, u, rowEnd, v, total, n, l
<1>2. /\ c \in Nat /\ u \in Nat /\ CommonEnd(x) \in Int /\ OwnEnd(x) \in Int
      /\ rowEnd \in Int /\ v \in Int
  BY <1>1
<1> QED BY <1>2 DEF c, u, rowEnd, v

\* The blocks of two phases lie apart, but for a common one.
LEMMA BlocksAreApart ==
  ASSUME TileInv, LayoutInv, NEW a \in Int, NEW p \in DOMAIN placed, NEW q \in DOMAIN placed
  PROVE  /\ InCommon(a, p) /\ InCommon(a, q) =>
              /\ KeyOf(p) = KeyOf(q)
              /\ placed[p].row = placed[q].row /\ placed[p].offsets = placed[q].offsets
         /\ InOwn(a, p) /\ InOwn(a, q) => p = q
         /\ ~ (InCommon(a, p) /\ InOwn(a, q))
<1>1. Apart(p, q)
  BY DEF LayoutInv
<1>2. \A x \in {p, q} : /\ placed[x].row.address \in Nat /\ placed[x].values.address \in Nat
                        /\ CommonEnd(x) \in Int /\ OwnEnd(x) \in Int
  BY BlockNumbers
<1>3. \A x \in {p, q} :
        /\ InCommon(a, x) => placed[x].row.address <= a /\ a < CommonEnd(x)
        /\ InOwn(a, x) => placed[x].values.address <= a /\ a < OwnEnd(x)
  BY <1>2 DEF InCommon, InOwn
<1>4. InCommon(a, p) /\ InCommon(a, q) => KeyOf(p) = KeyOf(q)
  BY <1>1, <1>2, <1>3 DEF Apart
<1>5. KeyOf(p) = KeyOf(q) => placed[p].row = placed[q].row /\ placed[p].offsets = placed[q].offsets
  <2>1. PlacedRight(p) /\ PlacedRight(q)
    BY Blocks
  <2> QED BY <2>1 DEF PlacedRight
<1>6. InOwn(a, p) /\ InOwn(a, q) => p = q
  BY <1>1, <1>2, <1>3 DEF Apart
<1>7. ~ (InCommon(a, p) /\ InOwn(a, q))
  BY <1>1, <1>2, <1>3 DEF Apart
<1> QED BY <1>4, <1>5, <1>6, <1>7

\* No two data rows of a tile lie over each other.
LEMMA RowsAreApart ==
  ASSUME TileInv, LayoutInv, DOMAIN placed = Phases,
         NEW r \in DataRows, NEW s \in DataRows, NEW a, RowCovers(r, a), RowCovers(s, a)
  PROVE  r = s
<1>1. PICK p \in Phases : \/ OfRow(r, a, p) \/ OfOffsets(r, a, p) \/ OfValues(r, a, p)
                          \/ \E k \in 1..Len(TableSites(p)) : OfTable(r, a, p, k)
  BY KindsOfRows
<1>2. PICK q \in Phases : \/ OfRow(s, a, q) \/ OfOffsets(s, a, q) \/ OfValues(s, a, q)
                          \/ \E k \in 1..Len(TableSites(q)) : OfTable(s, a, q, k)
  BY KindsOfRows
<1>3. \/ InCommon(a, p) /\ (OfRow(r, a, p) \/ OfOffsets(r, a, p))
      \/ InOwn(a, p) /\ (\/ OfValues(r, a, p)
                         \/ \E k \in 1..Len(TableSites(p)) : OfTable(r, a, p, k))
  BY <1>1, KindsOfPlaces
<1>4. \/ InCommon(a, q) /\ (OfRow(s, a, q) \/ OfOffsets(s, a, q))
      \/ InOwn(a, q) /\ (\/ OfValues(s, a, q)
                         \/ \E k \in 1..Len(TableSites(q)) : OfTable(s, a, q, k))
  BY <1>2, KindsOfPlaces
<1>5. a \in 0..cursor
  BY KindsOfRows
<1>6. \A x \in Phases : Behind(placed[x].values) \in Int /\ Behind(placed[x].row) \in Int
                        /\ placed[x].row.address \in Nat /\ placed[x].values.address \in Nat
  BY BlockNumbers
<1>7. a \in Int /\ cursor \in Int
  BY <1>5 DEF LayoutInv
<1>8. CASE InCommon(a, p) /\ InCommon(a, q) /\ (OfRow(r, a, p) \/ OfOffsets(r, a, p))
           /\ (OfRow(s, a, q) \/ OfOffsets(s, a, q))
  <2>2. placed[p].row = placed[q].row /\ placed[p].offsets = placed[q].offsets
    BY <1>7, <1>8, BlocksAreApart
  <2>3. ~ (OfRow(r, a, p) /\ OfOffsets(s, a, q)) /\ ~ (OfOffsets(r, a, p) /\ OfRow(s, a, q))
    BY <1>5, <1>6, <2>2 DEF OfRow, OfOffsets
  <2> QED BY <1>8, <2>2, <2>3 DEF OfRow, OfOffsets
<1>9. CASE /\ InOwn(a, p) /\ InOwn(a, q)
           /\ OfValues(r, a, p) \/ \E k \in 1..Len(TableSites(p)) : OfTable(r, a, p, k)
           /\ OfValues(s, a, q) \/ \E k \in 1..Len(TableSites(q)) : OfTable(s, a, q, k)
  <2>1. p = q
    BY <1>7, <1>9, BlocksAreApart
  <2>2. CASE OfValues(r, a, p)
    <3>1. \A k \in 1..Len(TableSites(p)) : ~ OfTable(s, a, p, k)
      BY <2>2, KindsOfPlaces
    <3> QED BY <1>9, <2>1, <2>2, <3>1 DEF OfValues
  <2>3. CASE \E k \in 1..Len(TableSites(p)) : OfTable(r, a, p, k)
    <3>1. PICK k \in 1..Len(TableSites(p)) : OfTable(r, a, p, k)
      BY <2>3
    <3>2. ~ OfValues(s, a, p)
      BY <3>1, KindsOfPlaces
    <3>3. PICK m \in 1..Len(TableSites(p)) : OfTable(s, a, p, m)
      BY <1>9, <2>1, <3>2
    <3>4. k = m
      <4> DEFINE v == Behind(placed[p].values)
      <4>1. v \in Int /\ Count \in Nat /\ Len(TableSites(p)) \in Nat
        BY <1>6, Blocks, StepsAssumption
      <4>2. a \in (v + (k - 1) * Count)..(v + k * Count - 1)
            /\ a \in (v + (m - 1) * Count)..(v + m * Count - 1)
        BY <3>1, <3>3 DEF OfTable
      <4>3. k \in Nat /\ m \in Nat /\ k >= 1 /\ m >= 1
        BY <4>1
      <4> HIDE DEF v
      <4> QED BY <4>1, <4>2, <4>3, SlotsAreApart
    <3> QED BY <3>1, <3>3, <3>4 DEF OfTable
  <2> QED BY <1>9, <2>2, <2>3
<1>10. \A x, y \in Phases : ~ (InCommon(a, x) /\ InOwn(a, y))
  BY <1>7, BlocksAreApart
<1> QED BY <1>3, <1>4, <1>8, <1>9, <1>10

\* After the layout nothing moves.
LEMMA SameLayout ==
  ASSUME LayoutInv, rowPc # "layout", rowPc' # "layout",
         rowPc' \in {"layout", "load", "fetch", "setup", "arm", "run", "done"},
         tile' = tile, cursor' = cursor, shared' = shared, placed' = placed
  PROVE  LayoutInv' /\ DOMAIN placed' = Phases
<1>1. DOMAIN placed = Phases
  BY DEF LayoutInv
<1>2. \A p \in Phases : /\ KeyOf(p)' = KeyOf(p) /\ RowWords(p)' = RowWords(p)
                        /\ SetupOffsets(p)' = SetupOffsets(p)
                        /\ TableSites(p)' = TableSites(p)
  BY SameTile
<1>3. \A p \in Phases : PlacedRight(p) => PlacedRight(p)'
  BY <1>2 DEF PlacedRight
<1>4. \A p : CommonEnd(p)' = CommonEnd(p) /\ OwnEnd(p)' = OwnEnd(p)
  BY DEF CommonEnd, OwnEnd
<1>5. \A p, q \in Phases : Apart(p, q) => Apart(p, q)'
  BY <1>2, <1>4 DEF Apart
<1>6. DOMAIN shared' = {KeyOf(p)' : p \in DOMAIN placed'}
  <2>1. DOMAIN shared = {KeyOf(p) : p \in Phases}
    BY <1>1 DEF LayoutInv
  <2> QED BY <1>1, <1>2, <2>1
<1> QED BY <1>1, <1>3, <1>4, <1>5, <1>6 DEF LayoutInv

\* Each word of a data row is in memory once it is loaded.
LEMMA LoadedWord ==
  ASSUME TileInv, LayoutInv, LoadRows, NEW r \in DataRows, NEW i \in 1..Len(r.words)
  PROVE  r.address + i - 1 \in DOMAIN tableMem' /\ tableMem'[r.address + i - 1] = r.words[i]
<1> DEFINE a == r.address + i - 1
<1>1. DOMAIN placed = Phases
  BY DEF LayoutInv, LoadRows
<1>2. r.words \in Seq(Int) /\ r.address \in Nat /\ Len(r.words) \in Nat
  BY <1>1, KindsOfRows
<1>3. RowCovers(r, a) /\ a - r.address + 1 = i
  BY <1>2 DEF RowCovers, Behind
<1>4. r \in LoadedRows
  <2>1. r.words # <<>>
    <3> SUFFICES ASSUME r.words = <<>> PROVE FALSE
      OBVIOUS
    <3>1. Len(r.words) = 0
      OBVIOUS
    <3> QED BY <3>1
  <2> QED BY <2>1 DEF LoadedRows
<1>5. a \in 0..cursor
  BY <1>1, <1>3, KindsOfRows
<1>6. \A s \in LoadedRows : RowCovers(s, a) => s = r
  BY <1>1, <1>3, RowsAreApart DEF LoadedRows
<1> DEFINE D == {b \in 0..cursor : \E s \in LoadedRows : RowCovers(s, b)}
           word(b) == LET s == CHOOSE s \in LoadedRows : RowCovers(s, b)
                      IN  s.words[b - s.address + 1]
<1>7. tableMem' = [b \in D |-> word(b)]
  BY Zenon DEF LoadRows
<1>8. a \in D
  BY <1>3, <1>4, <1>5
<1>9. (CHOOSE s \in LoadedRows : RowCovers(s, a)) = r
  BY <1>3, <1>4, <1>6
<1>10. word(a) = r.words[i]
  BY <1>3, <1>9
<1> HIDE DEF D, word, a
<1>11. a \in DOMAIN tableMem' /\ tableMem'[a] = r.words[i]
  BY <1>7, <1>8, <1>10
<1> QED BY <1>11 DEF a

\* Two rows at one address are the same row.
LEMMA NothingConflicts ==
  ASSUME TileInv, LayoutInv, DOMAIN placed = Phases
  PROVE  ~ Conflict
<1> SUFFICES ASSUME NEW r \in LoadedRows, NEW s \in LoadedRows, r.address = s.address
             PROVE  r = s
  BY DEF Conflict
<1>1. \A x \in LoadedRows : RowCovers(x, x.address)
  <2> TAKE x \in LoadedRows
  <2>1. x \in DataRows /\ x.words # <<>>
    BY DEF LoadedRows
  <2>2. x.words \in Seq(Int) /\ x.address \in Nat
    BY <2>1, KindsOfRows
  <2>3. Len(x.words) \in Nat /\ Len(x.words) # 0
    BY <2>1, <2>2
  <2> QED BY <2>2, <2>3 DEF RowCovers, Behind
<1>2. RowCovers(r, r.address) /\ RowCovers(s, r.address)
  BY <1>1
<1> QED BY <1>2, RowsAreApart DEF LoadedRows

\* Loading accepts the layout and gives every phase what it was placed with.
LEMMA LoadingKeepsWords ==
  ASSUME TileInv, LayoutInv, LoadRows
  PROVE  LayoutInv' /\ MemoryInv'
<1>1. DOMAIN placed = Phases /\ rowPc = "load"
  BY DEF LayoutInv, LoadRows
<1>2. rowPc' = "fetch" /\ tile' = tile /\ cursor' = cursor /\ shared' = shared
      /\ placed' = placed
  BY <1>1, NothingConflicts, Zenon DEF LoadRows
<1>3. LayoutInv'
  BY <1>1, <1>2, SameLayout
<1>4. ASSUME NEW p \in Phases PROVE StaysAsLoaded(p)'
  <2>0. /\ SetupOffsets(p)' = SetupOffsets(p) /\ TableSites(p)' = TableSites(p)
        /\ Listed(p)' = Listed(p)
    BY <1>2, SameTile
  <2>1. /\ PlacedRight(p) /\ Len(tile[p].words) \in Nat
        /\ Len(SetupOffsets(p)) \in Nat /\ DOMAIN SetupOffsets(p) = 1..Len(SetupOffsets(p))
        /\ DOMAIN placed[p].tables = 1..Len(TableSites(p))
    BY <1>1, Blocks
  <2>2. /\ placed[p].row \in DataRows /\ placed[p].offsets \in DataRows
        /\ placed[p].values \in DataRows
    BY DEF DataRows
  <2>3. \A k \in 1..Len(TableSites(p)) : placed[p].tables[k] \in DataRows
    BY <2>1 DEF DataRows, Range
  <2>4. ASSUME NEW i \in DOMAIN tile[p].words
        PROVE  /\ placed[p].row.address + i - 1 \in DOMAIN tableMem'
               /\ i \notin Listed(p) => WordIs(p, i, tile[p].words[i])'
    <3>1. placed[p].row.words = RowWords(p) /\ i \in 1..Len(RowWords(p))
          /\ (i \notin Listed(p) => RowWords(p)[i] = tile[p].words[i])
      <4>1. DOMAIN tile[p].words = 1..Len(tile[p].words)
        BY DEF TileInv
      <4> QED BY <2>1, <4>1, CommonWords DEF PlacedRight
    <3>2. placed[p].row.address + i - 1 \in DOMAIN tableMem'
          /\ tableMem'[placed[p].row.address + i - 1] = RowWords(p)[i]
      BY <2>2, <3>1, LoadedWord
    <3> QED BY <3>1, <3>2, <1>2 DEF Holds, WordIs
  <2>5. ASSUME NEW k \in 1..Len(SetupOffsets(p))
        PROVE  /\ Holds(placed[p].offsets.address + k - 1, SetupOffsets(p)[k])'
               /\ Holds(placed[p].values.address + k - 1, tile[p].words[SetupOffsets(p)[k]])'
    <3>1. placed[p].offsets.words = SetupOffsets(p)
          /\ placed[p].values.words =
               [j \in DOMAIN SetupOffsets(p) |-> tile[p].words[SetupOffsets(p)[j]]]
      BY <2>1 DEF PlacedRight
    <3>2. Len(placed[p].values.words) = Len(SetupOffsets(p))
          /\ placed[p].values.words[k] = tile[p].words[SetupOffsets(p)[k]]
      BY <2>1, <3>1
    <3>3. placed[p].offsets.address + k - 1 \in DOMAIN tableMem'
          /\ tableMem'[placed[p].offsets.address + k - 1] = placed[p].offsets.words[k]
      BY <2>2, <3>1, LoadedWord
    <3>4. placed[p].values.address + k - 1 \in DOMAIN tableMem'
          /\ tableMem'[placed[p].values.address + k - 1] = placed[p].values.words[k]
      BY <2>2, <3>2, LoadedWord
    <3> QED BY <3>1, <3>2, <3>3, <3>4, <1>2, <2>0 DEF Holds
  <2>6. ASSUME NEW k \in 1..Len(TableSites(p)), NEW n \in 0..(Count - 1)
        PROVE  Holds(placed[p].tables[k].address + n, tile[p].patches[TableSites(p)[k]][n + 1])'
    <3>1. /\ placed[p].tables[k].words = tile[p].patches[TableSites(p)[k]]
          /\ Len(placed[p].tables[k].words) = Count
      BY <1>1, TablePlaces
    <3>2. Count \in Nat /\ placed[p].tables[k].address \in Nat
      BY <1>1, <2>3, StepsAssumption, KindsOfRows
    <3>3. n + 1 \in 1..Count /\ placed[p].tables[k].address + (n + 1) - 1
                                 = placed[p].tables[k].address + n
      BY <3>2
    <3>4. placed[p].tables[k].address + (n + 1) - 1 \in DOMAIN tableMem'
          /\ tableMem'[placed[p].tables[k].address + (n + 1) - 1]
               = placed[p].tables[k].words[n + 1]
      BY <2>3, <3>1, <3>3, LoadedWord
    <3> QED BY <3>1, <3>3, <3>4, <1>2, <2>0 DEF Holds
  <2> QED BY <1>2, <2>0, <2>4, <2>5, <2>6 DEF StaysAsLoaded
<1> QED BY <1>2, <1>3, <1>4 DEF MemoryInv

-----------------------------------------------------------------------------
(* Where the emitted code is *)

\* The elements of a list between two more.
LEMMA Bracketed ==
  ASSUME NEW T, NEW x \in T, NEW y \in T, NEW m \in Seq(T)
  PROVE  LET s == <<x>> \o m \o <<y>> IN
         /\ Len(m) \in Nat /\ Len(s) = Len(m) + 2
         /\ s[1] = x /\ s[Len(m) + 2] = y
         /\ \A i \in 1..Len(m) : s[i + 1] = m[i]
<1> DEFINE u == <<x>> \o m
<1>1. <<x>> \in Seq(T) /\ Len(<<x>>) = 1 /\ <<y>> \in Seq(T) /\ Len(<<y>>) = 1 /\ Len(m) \in Nat
  OBVIOUS
<1>2. u \in Seq(T) /\ Len(u) = Len(m) + 1 /\ u[1] = x /\ \A i \in 1..Len(m) : u[i + 1] = m[i]
  BY <1>1
<1> HIDE DEF u
<1>3. Len(u \o <<y>>) = Len(m) + 2 /\ (u \o <<y>>)[Len(m) + 2] = y
      /\ \A i \in 1..(Len(m) + 1) : (u \o <<y>>)[i] = u[i]
  BY <1>1, <1>2
<1> QED BY <1>1, <1>2, <1>3 DEF u

\* The code of a repeat is its entry, a call for each phase, and its end; any
\* other step is one call.
LEMMA EmittedStep ==
  ASSUME NEW i \in DOMAIN Steps
  PROVE  LET s == Steps[i]
             code == EmitStep(s)
             n == Len(Body(s))
         IN
         /\ n \in Nat /\ DOMAIN Body(s) = 1..n
         /\ IsRepeat(s) =>
              /\ Len(code) = n + 2
              /\ code[1] = [op |-> "enter"] /\ code[n + 2] = [op |-> "next", start |-> n]
              /\ \A a \in 1..n :
                   code[a + 1] = [op |-> "exchange", phase |-> Body(s)[a], inside |-> TRUE]
         /\ ~ IsRepeat(s) =>
              /\ n = 1 /\ Len(code) = 1
              /\ code[1] = [op |-> "exchange", phase |-> Body(s)[1], inside |-> FALSE]
<1> DEFINE s == Steps[i]
           n == Len(Body(s))
<1>1. Body(s) \in Seq(Nat \ {NoPhase}) /\ n \in Nat /\ DOMAIN Body(s) = 1..n
  BY BodyTypes
<1>2. CASE IsRepeat(s)
  <2> DEFINE m == [a \in DOMAIN s.repeat |->
                     [op |-> "exchange", phase |-> s.repeat[a], inside |-> TRUE]]
             x == [op |-> "enter"]
             y == [op |-> "next", start |-> Len(s.repeat)]
             T == {x, y} \cup Range(m)
  <2>1. Body(s) = s.repeat
    BY <1>2 DEF Body
  <2>2. DOMAIN m = 1..n /\ \A a \in 1..n :
          m[a] = [op |-> "exchange", phase |-> Body(s)[a], inside |-> TRUE]
    BY <1>1, <2>1
  <2>3. EmitStep(s) = <<x>> \o m \o <<y>>
    BY <1>2 DEF EmitStep
  <2>4. y = [op |-> "next", start |-> n]
    BY <2>1
  <2>5. m \in [1..n -> T]
    <3>1. \A a \in 1..n : m[a] \in T
      BY <2>2 DEF Range
    <3>2. m = [a \in 1..n |-> m[a]]
      BY <2>2
    <3> HIDE DEF m, T
    <3> QED BY <3>1, <3>2
  <2>6. x \in T /\ y \in T
    OBVIOUS
  <2> HIDE DEF m, x, y, T, s, n
  <2>7. m \in Seq(T) /\ Len(m) = n
    BY <1>1, <2>5
  <2>8. /\ Len(EmitStep(s)) = n + 2 /\ EmitStep(s)[1] = x /\ EmitStep(s)[n + 2] = y
        /\ \A a \in 1..n : EmitStep(s)[a + 1] = m[a]
    BY <2>3, <2>6, <2>7, Bracketed
  <2> QED BY <1>1, <1>2, <2>2, <2>4, <2>8 DEF x, s, n
<1>3. CASE ~ IsRepeat(s)
  <2>1. Body(s) = <<s.exchange>>
        /\ EmitStep(s) = <<[op |-> "exchange", phase |-> s.exchange, inside |-> FALSE]>>
    BY <1>3 DEF Body, EmitStep
  <2> QED BY <1>1, <1>3, <2>1
<1> QED BY <1>2, <1>3

\* The phase whose row is being set up or run.
Called(a) ==
  /\ a \in DOMAIN Body(Steps[at.step])
  /\ Phase = Body(Steps[at.step])[a]
  /\ Instruction.inside = IsRepeat(Steps[at.step])
  /\ at.place = IF IsRepeat(Steps[at.step]) THEN a + 1 ELSE a

\* A call in the emitted code is of the phase at that place of the step.
LEMMA AtACall ==
  ASSUME PlaceInv, at.step \in DOMAIN Steps, Instruction.op = "exchange"
  PROVE  \E a \in DOMAIN Body(Steps[at.step]) : Called(a)
<1> DEFINE s == Steps[at.step]
           n == Len(Body(s))
<1>1. n \in Nat /\ DOMAIN Body(s) = 1..n /\ at.place \in 1..Len(EmitStep(s))
      /\ Instruction = EmitStep(s)[at.place]
  BY EmittedStep DEF PlaceInv, Code, Instruction
<1>2. CASE IsRepeat(s)
  <2>1. /\ Len(EmitStep(s)) = n + 2
        /\ EmitStep(s)[1] = [op |-> "enter"] /\ EmitStep(s)[n + 2] = [op |-> "next", start |-> n]
        /\ \A a \in 1..n :
             EmitStep(s)[a + 1] = [op |-> "exchange", phase |-> Body(s)[a], inside |-> TRUE]
    BY <1>2, EmittedStep
  <2>2. at.place # 1 /\ at.place # n + 2
    <3>1. EmitStep(s)[1].op = "enter" /\ EmitStep(s)[n + 2].op = "next"
      BY <2>1
    <3> QED BY <3>1, <1>1
  <2>3. at.place - 1 \in 1..n /\ at.place = (at.place - 1) + 1
    <3> HIDE DEF n
    <3> QED BY <1>1, <2>1, <2>2
  <2> DEFINE a == at.place - 1
  <2>4. Instruction = [op |-> "exchange", phase |-> Body(s)[a], inside |-> TRUE]
    <3> HIDE DEF a, s, n
    <3>1. a \in 1..n /\ at.place = a + 1
      BY <2>3 DEF a
    <3> QED BY <3>1, <1>1, <2>1
  <2>5. Phase = Body(s)[a] /\ Instruction.inside = TRUE
    BY <2>4 DEF Phase
  <2> QED BY <1>1, <1>2, <2>3, <2>5 DEF Called
<1>3. CASE ~ IsRepeat(s)
  <2>1. /\ n = 1 /\ Len(EmitStep(s)) = 1
        /\ EmitStep(s)[1] = [op |-> "exchange", phase |-> Body(s)[1], inside |-> FALSE]
    BY <1>3, EmittedStep
  <2>2. at.place = 1
    BY <1>1, <2>1
  <2>3. Phase = Body(s)[1] /\ Instruction.inside = FALSE
    BY <1>1, <2>1, <2>2 DEF Phase
  <2>4. 1 \in DOMAIN Body(s)
    BY <1>1, <2>1
  <2>5. IsRepeat(s) = FALSE
    BY <1>3 DEF IsRepeat
  <2>6. Instruction.inside = IsRepeat(s)
    BY <2>3, <2>5
  <2>7. at.place = IF IsRepeat(s) THEN 1 + 1 ELSE 1
    BY <1>3, <2>2
  <2>8. Called(1)
    BY <2>3, <2>4, <2>6, <2>7 DEF Called
  <2> QED BY <2>4, <2>8
<1> QED BY <1>2, <1>3

\* A phase is in a repeat exactly if the step it belongs to is one.
LEMMA RepeatedPhases ==
  ASSUME NEW i \in DOMAIN Steps, NEW a \in DOMAIN Body(Steps[i])
  PROVE  Body(Steps[i])[a] \in Repeated <=> IsRepeat(Steps[i])
<1>1. IsRepeat(Steps[i]) => Body(Steps[i])[a] \in Repeated
  <2> SUFFICES ASSUME IsRepeat(Steps[i]) PROVE Body(Steps[i])[a] \in Repeated
    OBVIOUS
  <2>1. Body(Steps[i]) = Steps[i].repeat
    BY DEF Body
  <2>2. Body(Steps[i])[a] \in Range(Steps[i].repeat)
    BY <2>1 DEF Range
  <2> QED BY <2>2 DEF Repeated
<1>2. Body(Steps[i])[a] \in Repeated => IsRepeat(Steps[i])
  <2> SUFFICES ASSUME Body(Steps[i])[a] \in Repeated PROVE IsRepeat(Steps[i])
    OBVIOUS
  <2>1. PICK j \in DOMAIN Steps : IsRepeat(Steps[j]) /\ Body(Steps[i])[a] \in Range(Steps[j].repeat)
    BY DEF Repeated
  <2>2. Body(Steps[j]) = Steps[j].repeat
    BY <2>1 DEF Body
  <2>3. PICK b \in DOMAIN Body(Steps[j]) : Body(Steps[i])[a] = Body(Steps[j])[b]
    BY <2>1, <2>2 DEF Range
  <2>4. i = j
    BY <2>3, StepsAssumption
  <2> QED BY <2>1, <2>4
<1> QED BY <1>1, <1>2

\* The steps of a tile are numbered.
LEMMA StepNumbers ==
  Len(Steps) \in Nat /\ DOMAIN Steps = 1..Len(Steps) /\ Count \in Nat /\ Count >= 1
BY StepsAssumption

\* The entry of a repeat is at its first place, its end at the last.
LEMMA AtTheEnds ==
  ASSUME PlaceInv, at.step \in DOMAIN Steps, Instruction.op \in {"enter", "next"}
  PROVE  LET n == Len(Body(Steps[at.step])) IN
         /\ IsRepeat(Steps[at.step]) /\ Len(Code) = n + 2 /\ n \in Nat
         /\ DOMAIN Body(Steps[at.step]) = 1..n
         /\ Instruction.op = "enter" => at.place = 1
         /\ Instruction.op = "next" => at.place = n + 2 /\ Instruction.start = n
<1> DEFINE s == Steps[at.step]
           n == Len(Body(s))
<1>1. n \in Nat /\ DOMAIN Body(s) = 1..n /\ at.place \in 1..Len(EmitStep(s))
      /\ Instruction = EmitStep(s)[at.place]
  BY EmittedStep DEF PlaceInv, Code, Instruction
<1>2. IsRepeat(s)
  <2> SUFFICES ASSUME ~ IsRepeat(s) PROVE FALSE
    OBVIOUS
  <2>1. Len(EmitStep(s)) = 1
        /\ EmitStep(s)[1] = [op |-> "exchange", phase |-> Body(s)[1], inside |-> FALSE]
    BY EmittedStep
  <2>2. EmitStep(s)[1].op = "exchange"
    BY <2>1
  <2>3. at.place = 1
    BY <1>1, <2>1
  <2> QED BY <1>1, <2>2, <2>3
<1>3. /\ Len(EmitStep(s)) = n + 2
      /\ EmitStep(s)[1] = [op |-> "enter"] /\ EmitStep(s)[n + 2] = [op |-> "next", start |-> n]
      /\ \A a \in 1..n :
           EmitStep(s)[a + 1] = [op |-> "exchange", phase |-> Body(s)[a], inside |-> TRUE]
  BY <1>2, EmittedStep
<1>4. ASSUME NEW a \in 1..n PROVE at.place # a + 1
  <2>0. EmitStep(s)[a + 1] = [op |-> "exchange", phase |-> Body(s)[a], inside |-> TRUE]
    <3> HIDE DEF n
    <3> QED BY <1>3
  <2>1. EmitStep(s)[a + 1].op = "exchange"
    BY <2>0
  <2>2. EmitStep(s)[at.place].op # "exchange"
    BY <1>1
  <2> QED BY <2>1, <2>2
<1>5. at.place = 1 \/ at.place = n + 2
  <2>1. at.place - 1 \in 1..n => at.place = (at.place - 1) + 1
    BY <1>1, <1>3
  <2>2. at.place - 1 \notin 1..n
    BY <1>4, <2>1
  <2> HIDE DEF n
  <2> QED BY <1>1, <1>3, <2>2
<1>6. n + 2 # 1
  BY <1>1
<1>7. EmitStep(s)[1].op = "enter" /\ EmitStep(s)[n + 2].op = "next"
      /\ EmitStep(s)[n + 2].start = n
  BY <1>3
<1> QED BY <1>1, <1>2, <1>3, <1>5, <1>6, <1>7 DEF Code

\* The instruction after this one is in this step, or the first of the next.
LEMMA NextPlace ==
  ASSUME PlaceInv, at.step \in DOMAIN Steps, at' = NextInstruction
  PROVE  /\ at.place < Len(Code) => at' = [step |-> at.step, place |-> at.place + 1]
         /\ at.place = Len(Code) => at' = [step |-> at.step + 1, place |-> 1]
<1>1. at \in [step : 1..(Len(Steps) + 1), place : Nat] /\ at.place \in 1..Len(Code)
  BY DEF PlaceInv
<1>2. at = [step |-> at.step, place |-> at.place]
  BY <1>1
<1>3. [at EXCEPT !.place = @ + 1] = [step |-> at.step, place |-> at.place + 1]
  BY <1>2
<1>4. Len(Code) \in Nat
  BY EmittedStep DEF Code
<1> QED BY <1>3, <1>4 DEF NextInstruction

\* A place of the next step, of this step or past the last one.
LEMMA PlaceIsOne ==
  ASSUME NEW i \in 1..(Len(Steps) + 1), NEW k \in Nat,
         at' = [step |-> i, place |-> k], rowPc' \notin {"setup", "arm", "run"},
         i \in DOMAIN Steps => k \in 1..Len(EmitStep(Steps[i])),
         i = Len(Steps) + 1 => k = 1
  PROVE  PlaceInv' /\ at'.step = i /\ at'.place = k
<1>1. at'.step = i /\ at'.place = k /\ at' \in [step : 1..(Len(Steps) + 1), place : Nat]
  OBVIOUS
<1>2. Code' = EmitStep(Steps[i])
  BY <1>1 DEF Code
<1> QED BY <1>1, <1>2 DEF PlaceInv

\* At the first place of a step no repeat has been entered.
LEMMA FirstPlace ==
  ASSUME NEW i \in 1..(Len(Steps) + 1), at' = [step |-> i, place |-> 1],
         rowPc' \notin {"setup", "arm", "run"}
  PROVE  PlaceInv' /\ at'.step = i /\ at'.place = 1 /\ FrameInv' /\ ~ InRepeat'
<1>1. ASSUME i \in DOMAIN Steps PROVE 1 \in 1..Len(EmitStep(Steps[i]))
  <2> DEFINE n == Len(Body(Steps[i]))
  <2>1. n \in Nat /\ (Len(EmitStep(Steps[i])) = n + 2 \/ Len(EmitStep(Steps[i])) = 1)
    BY <1>1, EmittedStep
  <2> HIDE DEF n
  <2> QED BY <2>1
<1>2. PlaceInv' /\ at'.step = i /\ at'.place = 1
  BY <1>1, PlaceIsOne
<1>3. ~ InRepeat'
  BY <1>2 DEF InRepeat
<1> QED BY <1>2, <1>3 DEF FrameInv

\* Control and counts of a step that does not move them.
LEMMA SameControl ==
  ASSUME ControlInv, at' = at, frame' = frame, ran' = ran, sampled' = sampled,
         rowPc' \in {"setup", "arm", "run"} =>
           at.step \in DOMAIN Steps /\ Instruction.op = "exchange"
  PROVE  ControlInv'
<1>1. Code' = Code /\ Instruction' = Instruction /\ InRepeat' = InRepeat
  BY DEF Code, Instruction, InRepeat
<1>2. \A i, a : CallsOf(i, a)' = CallsOf(i, a)
  BY <1>1 DEF CallsOf
<1>3. PlaceInv'
  BY <1>1 DEF ControlInv, PlaceInv
<1>4. FrameInv'
  BY <1>1 DEF ControlInv, FrameInv
<1>5. CountInv'
  BY <1>2 DEF ControlInv, CountInv
<1> QED BY <1>3, <1>4, <1>5 DEF ControlInv

\* The counts stay right where no calls are counted.
LEMMA SameCounts ==
  ASSUME CountInv, ran' = ran, sampled' = sampled,
         \A i \in DOMAIN Steps : \A a \in DOMAIN Body(Steps[i]) : CallsOf(i, a)' = CallsOf(i, a)
  PROVE  CountInv'
BY DEF CountInv

\* Entering a repeat counts no calls: its frame begins with all iterations to go.
LEMMA EnteringKeepsControl ==
  ASSUME ControlInv, EnterRepeat
  PROVE  ControlInv'
<1> DEFINE s == at.step
           n == Len(Body(Steps[s]))
<1>1. /\ rowPc = "fetch" /\ s \in DOMAIN Steps /\ Instruction.op = "enter"
      /\ frame' = [remaining |-> Count, pointer |-> Base, profile |-> 1]
      /\ at' = NextInstruction /\ rowPc' = rowPc /\ ran' = ran /\ sampled' = sampled
  BY DEF EnterRepeat, Fetching
<1>2. PlaceInv /\ FrameInv /\ CountInv
  BY DEF ControlInv
<1>3. /\ IsRepeat(Steps[s]) /\ Len(Code) = n + 2 /\ n \in Nat /\ at.place = 1
      /\ DOMAIN Body(Steps[s]) = 1..n
  BY <1>1, <1>2, AtTheEnds
<1>4. at' = [step |-> s, place |-> 2]
  BY <1>1, <1>2, <1>3, NextPlace
<1>5. PlaceInv' /\ at'.step = s /\ at'.place = 2
  <2>1. s \in 1..(Len(Steps) + 1) /\ 2 \in 1..Len(EmitStep(Steps[s])) /\ s # Len(Steps) + 1
    BY <1>1, <1>3, StepNumbers DEF Code
  <2> QED BY <1>1, <1>4, <2>1, PlaceIsOne
<1>6. frame'.remaining = Count /\ frame'.pointer = Base /\ frame'.profile = 1
  BY <1>1
<1>7. FrameInv'
  <2>1. Base \in Int /\ Stride \in Int /\ Count \in Nat /\ Count >= 1
    BY StepNumbers, RowsAssumption
  <2> QED BY <1>6, <2>1 DEF FrameInv
<1>8. InRepeat' /\ ~ InRepeat
  BY <1>1, <1>3, <1>5 DEF InRepeat
<1>9. ASSUME NEW i \in DOMAIN Steps, NEW a \in DOMAIN Body(Steps[i])
      PROVE  CallsOf(i, a)' = CallsOf(i, a)
  <2>1. CASE i = s
    <3>1. a \in Nat /\ a >= 1 /\ i \in Int
      BY <1>3, <2>1, StepNumbers
    <3>2. CallsOf(i, a)' = (Count - Count) + (IF a + 1 < 2 THEN 1 ELSE 0)
      BY <1>5, <1>6, <1>8, <2>1, <3>1 DEF CallsOf
    <3>3. CallsOf(i, a) = 0
      BY <1>8, <2>1, <3>1 DEF CallsOf
    <3> QED BY <3>1, <3>2, <3>3, StepNumbers
  <2>2. CASE i # s
    <3>1. i \in Int /\ s \in Int
      BY <1>1, StepNumbers
    <3> QED BY <1>5, <2>2, <3>1 DEF CallsOf
  <2> QED BY <2>1, <2>2
<1>10. CountInv'
  BY <1>1, <1>2, <1>9, SameCounts
<1> QED BY <1>5, <1>7, <1>10 DEF ControlInv

\* No row has been called when an invocation starts.
LEMMA NothingCalled ==
  ASSUME at'.step = 1, ~ InRepeat',
         ran' = [p \in Phases |-> 0], sampled' = [p \in Phases |-> {}]
  PROVE  CountInv'
<1>1. ASSUME NEW i \in DOMAIN Steps, NEW a \in DOMAIN Body(Steps[i]) PROVE CallsOf(i, a)' = 0
  <2>1. ~ (i < 1)
    BY StepNumbers
  <2> QED BY <2>1 DEF CallsOf
<1>2. \A i \in DOMAIN Steps : \A a \in DOMAIN Body(Steps[i]) : Body(Steps[i])[a] \in Phases
  BY BodyTypes
<1> QED BY <1>1, <1>2 DEF CountInv

\* The end of an iteration moves each call into the iterations that are done.
LEMMA EndingKeepsControl ==
  ASSUME ControlInv, EndIteration
  PROVE  ControlInv'
<1> DEFINE s == at.step
           n == Len(Body(Steps[s]))
           r == frame.remaining
<1>1. /\ rowPc = "fetch" /\ s \in DOMAIN Steps /\ Instruction.op = "next"
      /\ rowPc' = rowPc /\ ran' = ran /\ sampled' = sampled
      /\ IF NextFrame.remaining # 0
           THEN frame' = NextFrame /\ at' = [at EXCEPT !.place = @ - Instruction.start]
           ELSE frame' = NoFrame /\ at' = NextInstruction
  BY DEF EndIteration, Fetching
<1>2. PlaceInv /\ FrameInv /\ CountInv
  BY DEF ControlInv
<1>3. /\ IsRepeat(Steps[s]) /\ Len(Code) = n + 2 /\ n \in Nat /\ at.place = n + 2
      /\ Instruction.start = n /\ DOMAIN Body(Steps[s]) = 1..n
  BY <1>1, <1>2, AtTheEnds
<1>4. InRepeat
  BY <1>1, <1>3 DEF InRepeat
<1>5. /\ r \in 1..Count /\ frame.pointer = Base + (Count - r) * Stride
      /\ frame.profile = IF r = Count THEN 1 ELSE 0
  BY <1>2, <1>4 DEF FrameInv
<1>6. /\ NextFrame.remaining = r - 1 /\ NextFrame.pointer = frame.pointer + Stride
      /\ NextFrame.profile = 0
  BY DEF NextFrame
<1>7. Base \in Int /\ Stride \in Int /\ Count \in Nat /\ Count >= 1 /\ s \in 1..Len(Steps)
      /\ Len(Steps) \in Nat
  BY <1>1, StepNumbers, RowsAssumption
<1>8. ASSUME NEW a \in 1..n PROVE CallsOf(s, a) = (Count - r) + 1
  BY <1>3, <1>4, <1>7 DEF CallsOf
<1>9. CASE r - 1 # 0
  <2>1. frame' = NextFrame /\ at' = [at EXCEPT !.place = @ - n]
    BY <1>1, <1>3, <1>6, <1>9
  <2>2. at' = [step |-> s, place |-> 2]
    <3>1. at = [step |-> s, place |-> n + 2]
      BY <1>2, <1>3 DEF PlaceInv
    <3>2. (n + 2) - n = 2
      BY <1>3
    <3> HIDE DEF n, s
    <3> QED BY <2>1, <3>1, <3>2
  <2>3. PlaceInv' /\ at'.step = s /\ at'.place = 2
    <3>1. s \in 1..(Len(Steps) + 1) /\ 2 \in 1..Len(EmitStep(Steps[s])) /\ s # Len(Steps) + 1
      BY <1>3, <1>7 DEF Code
    <3> QED BY <1>1, <2>2, <3>1, PlaceIsOne
  <2>4. frame'.remaining = r - 1 /\ frame'.pointer = frame.pointer + Stride /\ frame'.profile = 0
    BY <1>6, <2>1
  <2>5. FrameInv'
    <3>1. (Count - (r - 1)) * Stride = (Count - r) * Stride + Stride
      BY <1>5, <1>7
    <3>2. (Count - r) * Stride \in Int
      BY <1>5, <1>7
    <3>3. frame'.pointer = Base + (Count - (r - 1)) * Stride
      BY <1>5, <1>7, <2>4, <3>1, <3>2
    <3>4. r - 1 \in 1..Count /\ r - 1 # Count
      <4>1. r \in 1..Count /\ Count \in Nat /\ r - 1 # 0
        BY <1>5, <1>7, <1>9
      <4> HIDE DEF r
      <4> QED BY <4>1
    <3>5. frame'.profile = IF frame'.remaining = Count THEN 1 ELSE 0
      BY <2>4, <3>4
    <3>6. frame'.remaining \in 1..Count
          /\ frame'.pointer = Base + (Count - frame'.remaining) * Stride
      BY <2>4, <3>3, <3>4
    <3> QED BY <3>5, <3>6 DEF FrameInv
  <2>6. InRepeat'
    BY <1>1, <1>3, <2>3 DEF InRepeat
  <2>7. ASSUME NEW i \in DOMAIN Steps, NEW a \in DOMAIN Body(Steps[i])
        PROVE  CallsOf(i, a)' = CallsOf(i, a)
    <3>1. CASE i = s
      <4>1. a \in 1..n /\ a \in Nat /\ ~ (a + 1 < 2)
        BY <1>3, <3>1
      <4>2. CallsOf(i, a)' = Count - (r - 1)
        BY <1>5, <1>7, <2>3, <2>4, <2>6, <3>1, <4>1 DEF CallsOf
      <4>3. CallsOf(i, a) = (Count - r) + 1
        BY <1>8, <3>1, <4>1
      <4> QED BY <4>2, <4>3, <1>5, <1>7
    <3>2. CASE i # s
      BY <2>3, <3>2 DEF CallsOf
    <3> QED BY <3>1, <3>2
  <2>8. CountInv'
    BY <1>1, <1>2, <2>7, SameCounts
  <2> QED BY <2>3, <2>5, <2>8 DEF ControlInv
<1>10. CASE r - 1 = 0
  <2>1. at' = NextInstruction
    BY <1>1, <1>6, <1>10
  <2>2. at' = [step |-> s + 1, place |-> 1]
    BY <1>1, <1>2, <1>3, <2>1, NextPlace
  <2>3. PlaceInv' /\ at'.step = s + 1 /\ at'.place = 1 /\ FrameInv' /\ ~ InRepeat'
    <3>1. s + 1 \in 1..(Len(Steps) + 1)
      BY <1>7
    <3> QED BY <1>1, <2>2, <3>1, FirstPlace
  <2>4. ASSUME NEW i \in DOMAIN Steps, NEW a \in DOMAIN Body(Steps[i])
        PROVE  CallsOf(i, a)' = CallsOf(i, a)
    <3>0. i \in Int
      BY StepNumbers
    <3>1. CASE i = s
      <4>1. CallsOf(i, a)' = Count
        BY <1>3, <1>7, <2>3, <3>1 DEF CallsOf
      <4>2. CallsOf(i, a) = (Count - r) + 1
        BY <1>3, <1>8, <3>1
      <4> QED BY <4>1, <4>2, <1>5, <1>7, <1>10
    <3>2. CASE i # s
      BY <1>7, <2>3, <3>0, <3>2 DEF CallsOf
    <3> QED BY <3>1, <3>2
  <2>5. CountInv'
    BY <1>1, <1>2, <2>4, SameCounts
  <2> QED BY <2>3, <2>5 DEF ControlInv
<1> QED BY <1>9, <1>10

\* An invocation starts from no calls, as the one before did.
LEMMA InvocationsKeepControl ==
  ASSUME ControlInv, EndInvocation
  PROVE  ControlInv'
<1>1. CASE invocation < Invocations
  <2>1. /\ at' = Start /\ rowPc' = "fetch"
        /\ ran' = [p \in Phases |-> 0] /\ sampled' = [p \in Phases |-> {}]
    BY <1>1 DEF EndInvocation, Ended
  <2>2. PlaceInv' /\ at'.step = 1 /\ at'.place = 1 /\ FrameInv' /\ ~ InRepeat'
    <3>1. 1 \in 1..(Len(Steps) + 1)
      BY StepNumbers
    <3>2. at' = [step |-> 1, place |-> 1]
      BY <2>1 DEF Start
    <3> QED BY <2>1, <3>1, <3>2, FirstPlace
  <2>3. CountInv'
    BY <2>1, <2>2, NothingCalled
  <2> QED BY <2>2, <2>3 DEF ControlInv
<1>2. CASE ~ (invocation < Invocations)
  BY <1>2, SameControl DEF EndInvocation
<1> QED BY <1>1, <1>2

\* The call of a row is counted, and sampled if it is the first.
LEMMA CallingKeepsControl ==
  ASSUME ControlInv, CallRow
  PROVE  ControlInv'
<1>0. PICK s \in 1..(Len(Steps) + 1) : s = at.step
  BY DEF ControlInv, PlaceInv
<1> DEFINE n == Len(Body(Steps[s]))
           r == frame.remaining
<1>1. /\ rowPc = "run" /\ rowPc' = "fetch" /\ at' = NextInstruction /\ frame' = frame
      /\ ran' = [ran EXCEPT ![Phase] = @ + 1]
      /\ sampled' = IF Samples THEN [sampled EXCEPT ![Phase] = @ \cup {ran[Phase]}] ELSE sampled
  BY DEF CallRow
<1>2. PlaceInv /\ FrameInv /\ CountInv
  BY DEF ControlInv
<1>3. s \in DOMAIN Steps /\ Instruction.op = "exchange"
  BY <1>0, <1>1, <1>2 DEF PlaceInv
<1>4. PICK a \in DOMAIN Body(Steps[s]) : Called(a)
  BY <1>0, <1>2, <1>3, AtACall
<1>5. /\ Phase = Body(Steps[s])[a] /\ Instruction.inside = IsRepeat(Steps[s])
      /\ at.place = IF IsRepeat(Steps[s]) THEN a + 1 ELSE a
  BY <1>0, <1>4 DEF Called
<1>6. /\ Phase \in Phases /\ n \in Nat /\ a \in 1..n
      /\ s \in 1..Len(Steps) /\ Len(Steps) \in Nat /\ Count \in Nat /\ Count >= 1
  BY <1>3, <1>5, BodyTypes, EmittedStep, StepNumbers
<1>7. ran[Phase] = CallsOf(s, a) /\ sampled[Phase] = IF CallsOf(s, a) = 0 THEN {} ELSE {0}
  BY <1>0, <1>2, <1>3, <1>5 DEF CountInv
<1>8. ASSUME PlaceInv', FrameInv',
             CallsOf(s, a) \in Nat,
             CallsOf(s, a)' = CallsOf(s, a) + 1,
             Samples <=> CallsOf(s, a) = 0,
             \A i \in DOMAIN Steps : \A b \in DOMAIN Body(Steps[i]) :
               <<i, b>> # <<s, a>> => CallsOf(i, b)' = CallsOf(i, b)
      PROVE  ControlInv'
  <2>1. ran' \in [Phases -> Nat] /\ sampled' \in [Phases -> SUBSET Nat]
        /\ ran'[Phase] = CallsOf(s, a) + 1 /\ sampled'[Phase] = {0}
    <3>1. ran \in [Phases -> Nat] /\ sampled \in [Phases -> SUBSET Nat]
      BY <1>2 DEF CountInv
    <3>2. ran' \in [Phases -> Nat] /\ ran'[Phase] = CallsOf(s, a) + 1
      BY <1>1, <1>6, <1>7, <3>1
    <3>3. CASE CallsOf(s, a) = 0
      <4>1. sampled' = [sampled EXCEPT ![Phase] = {0}]
        BY <1>1, <1>7, <1>8, <3>3
      <4> QED BY <1>6, <3>1, <3>2, <4>1
    <3>4. CASE CallsOf(s, a) # 0
      <4>1. sampled' = sampled /\ sampled[Phase] = {0}
        BY <1>1, <1>7, <1>8, <3>4
      <4> QED BY <3>1, <3>2, <4>1
    <3> QED BY <3>3, <3>4
  <2>2. ASSUME NEW i \in DOMAIN Steps, NEW b \in DOMAIN Body(Steps[i])
        PROVE  /\ ran'[Body(Steps[i])[b]] = CallsOf(i, b)'
               /\ sampled'[Body(Steps[i])[b]] = IF CallsOf(i, b)' = 0 THEN {} ELSE {0}
    <3>1. CASE i = s /\ b = a
      <4>1. CallsOf(i, b)' = CallsOf(s, a)'
        BY <3>1
      <4>2. CallsOf(s, a)' # 0
        BY <1>8
      <4> QED BY <1>5, <1>8, <2>1, <3>1, <4>1, <4>2
    <3>2. CASE ~ (i = s /\ b = a)
      <4>1. Body(Steps[i])[b] # Phase
        BY <1>3, <1>5, <3>2, StepsAssumption
      <4>2. Body(Steps[i])[b] \in Phases
        BY BodyTypes
      <4>3. ran'[Body(Steps[i])[b]] = ran[Body(Steps[i])[b]]
            /\ sampled'[Body(Steps[i])[b]] = sampled[Body(Steps[i])[b]]
        BY <1>1, <1>2, <4>1, <4>2 DEF CountInv
      <4>4. CallsOf(i, b)' = CallsOf(i, b)
        BY <1>8, <3>2
      <4> QED BY <1>2, <4>3, <4>4 DEF CountInv
    <3> QED BY <3>1, <3>2
  <2>3. CountInv'
    BY <2>1, <2>2 DEF CountInv
  <2> QED BY <1>8, <2>3 DEF ControlInv
<1>9. CASE IsRepeat(Steps[s])
  <2>1. Len(Code) = n + 2
    BY <1>0, <1>3, <1>9, EmittedStep DEF Code
  <2>2. at' = [step |-> s, place |-> a + 2]
    <3>1. at.place = a + 1 /\ at.place < Len(Code) /\ (a + 1) + 1 = a + 2
      BY <1>5, <1>6, <1>9, <2>1
    <3> QED BY <1>0, <1>1, <1>2, <1>3, <3>1, NextPlace
  <2>3. PlaceInv' /\ at'.step = s /\ at'.place = a + 2
    <3>1. s \in 1..(Len(Steps) + 1) /\ a + 2 \in 1..Len(EmitStep(Steps[s])) /\ a + 2 \in Nat
          /\ s # Len(Steps) + 1
      BY <1>0, <1>6, <2>1 DEF Code
    <3> QED BY <1>1, <2>2, <3>1, PlaceIsOne
  <2>4. InRepeat /\ InRepeat' /\ at.place = a + 1
    BY <1>0, <1>3, <1>5, <1>6, <1>9, <2>3 DEF InRepeat
  <2>5. FrameInv' /\ r \in 1..Count /\ frame.profile = IF r = Count THEN 1 ELSE 0
    BY <1>1, <1>2, <2>4 DEF FrameInv
  <2>6. /\ CallsOf(s, a) = Count - r /\ CallsOf(s, a)' = (Count - r) + 1
        /\ Count - r \in Nat
    <3>1. CallsOf(s, a) = (Count - r) + (IF a + 1 < a + 1 THEN 1 ELSE 0)
      BY <1>0, <1>6, <2>4 DEF CallsOf
    <3>2. CallsOf(s, a)' = (Count - r) + (IF a + 1 < a + 2 THEN 1 ELSE 0)
      BY <1>0, <1>1, <1>6, <2>3, <2>4 DEF CallsOf
    <3>3. Count - r \in Nat /\ a \in Nat
      BY <1>6, <2>5
    <3> HIDE DEF r
    <3> QED BY <3>1, <3>2, <3>3
  <2>7. Samples <=> CallsOf(s, a) = 0
    <3>1. Samples <=> frame.profile # 0
      BY <1>5, <1>9 DEF Samples
    <3> QED BY <1>6, <2>5, <2>6, <3>1
  <2>8. ASSUME NEW i \in DOMAIN Steps, NEW b \in DOMAIN Body(Steps[i]), <<i, b>> # <<s, a>>
        PROVE  CallsOf(i, b)' = CallsOf(i, b)
    <3>1. CASE i = s
      <4>1. b \in Nat /\ b # a /\ a \in Nat
        BY <1>6, <2>8, <3>1, EmittedStep
      <4>2. b + 1 < a + 2 <=> b + 1 < a + 1
        BY <4>1
      <4> QED BY <1>0, <1>1, <1>6, <2>3, <2>4, <3>1, <4>2 DEF CallsOf
    <3>2. CASE i # s
      BY <1>0, <2>3, <3>2 DEF CallsOf
    <3> QED BY <3>1, <3>2
  <2> QED BY <1>8, <2>3, <2>5, <2>6, <2>7, <2>8
<1>10. CASE ~ IsRepeat(Steps[s])
  <2>1. Len(Code) = 1 /\ n = 1
    BY <1>0, <1>3, <1>10, EmittedStep DEF Code
  <2>2. a = 1 /\ at.place = 1
    BY <1>5, <1>6, <1>10, <2>1
  <2>3. at' = [step |-> s + 1, place |-> 1]
    BY <1>0, <1>1, <1>2, <1>3, <2>1, <2>2, NextPlace
  <2>4. PlaceInv' /\ at'.step = s + 1 /\ at'.place = 1 /\ FrameInv' /\ ~ InRepeat'
    <3>1. s + 1 \in 1..(Len(Steps) + 1)
      BY <1>6
    <3> QED BY <1>1, <2>3, <3>1, FirstPlace
  <2>5. ~ InRepeat
    BY <1>0, <1>10 DEF InRepeat
  <2>6. CallsOf(s, a) = 0 /\ CallsOf(s, a)' = 1
    BY <1>0, <1>6, <1>10, <2>4, <2>5 DEF CallsOf
  <2>7. Samples
    BY <1>5, <1>10 DEF Samples, IsRepeat
  <2>8. ASSUME NEW i \in DOMAIN Steps, NEW b \in DOMAIN Body(Steps[i]), <<i, b>> # <<s, a>>
        PROVE  CallsOf(i, b)' = CallsOf(i, b)
    <3>1. i # s
      <4>1. i = s => b = 1
        BY <2>1, EmittedStep
      <4> QED BY <2>2, <2>8, <4>1
    <3>2. i \in Int
      BY StepNumbers
    <3> QED BY <1>0, <1>6, <2>4, <2>5, <3>1, <3>2 DEF CallsOf
  <2> QED BY <1>8, <2>4, <2>6, <2>7, <2>8
<1> QED BY <1>9, <1>10

-----------------------------------------------------------------------------
(* What is written *)

\* The addresses the setup list and the repeat patches of phase p write.
Written(p, a) ==
  \E i \in Listed(p) \cup DOMAIN tile[p].patches : a = placed[p].row.address + i - 1

\* Where the words, the offsets, the values and the tables of a phase are.
LEMMA WordPlaces ==
  ASSUME TileInv, LayoutInv, NEW p \in DOMAIN placed
  PROVE  /\ \A i \in DOMAIN tile[p].words :
              i \in Int /\ InCommon(placed[p].row.address + i - 1, p)
         /\ \A k \in 1..Len(SetupOffsets(p)) :
              /\ OfOffsets(placed[p].offsets, placed[p].offsets.address + k - 1, p)
              /\ InOwn(placed[p].values.address + k - 1, p)
         /\ \A k \in 1..Len(TableSites(p)), n \in 0..(Count - 1) :
              InOwn(placed[p].tables[k].address + n, p)
<1> DEFINE c == placed[p].row.address
           w == Len(tile[p].words)
           l == Len(SetupOffsets(p))
           rowEnd == Behind(placed[p].row)
           v == placed[p].values.address
           valuesEnd == Behind(placed[p].values)
           total == Len(TableSites(p)) * Count
<1>1. /\ c \in Nat /\ v \in Nat /\ rowEnd = c + w /\ CommonEnd(p) = rowEnd + l
      /\ valuesEnd = v + l /\ OwnEnd(p) = valuesEnd + total
      /\ w \in Nat /\ l \in Nat /\ total \in Nat
      /\ PlacedRight(p) /\ p \in Phases
  BY Blocks
<1>2. DOMAIN tile[p].words = 1..w /\ placed[p].offsets.address = rowEnd
  BY <1>1 DEF TileInv, PlacedRight
<1> HIDE DEF c, w, l, rowEnd, v, valuesEnd, total
<1>3. ASSUME NEW i \in DOMAIN tile[p].words PROVE i \in Int /\ InCommon(c + i - 1, p)
  BY <1>1, <1>2 DEF InCommon, c
<1>4. ASSUME NEW k \in 1..l
      PROVE  OfOffsets(placed[p].offsets, placed[p].offsets.address + k - 1, p)
  <2>1. rowEnd + k - 1 \in rowEnd..(CommonEnd(p) - 1)
    BY <1>1
  <2> QED BY <1>2, <2>1 DEF OfOffsets, rowEnd
<1>5. ASSUME NEW k \in 1..l PROVE InOwn(v + k - 1, p)
  BY <1>1 DEF InOwn, v
<1>6. ASSUME NEW k \in 1..Len(TableSites(p)), NEW n \in 0..(Count - 1)
      PROVE  InOwn(placed[p].tables[k].address + n, p)
  <2> DEFINE low == (k - 1) * Count
             high == k * Count
  <2>1. /\ placed[p].tables[k].address = valuesEnd + low
        /\ low \in Nat /\ high <= total /\ high = low + Count /\ Count \in Nat
    BY TablePlaces, StepsAssumption DEF valuesEnd, total
  <2> HIDE DEF low, high
  <2>2. valuesEnd + low + n \in v..(OwnEnd(p) - 1)
    BY <1>1, <2>1
  <2> QED BY <2>1, <2>2 DEF InOwn, v
<1> QED BY <1>3, <1>4, <1>5, <1>6 DEF c, l, v

\* What is written is a word of the row, and never one that is to stay.
LEMMA WritesKeep ==
  ASSUME TileInv, LayoutInv, DOMAIN placed = Phases, NEW p \in Phases,
         tile' = tile, placed' = placed, DOMAIN tableMem' = DOMAIN tableMem,
         \A a \in DOMAIN tableMem : Written(p, a) \/ tableMem'[a] = tableMem[a],
         NEW q \in Phases, StaysAsLoaded(q)
  PROVE  StaysAsLoaded(q)'
<1>1. ASSUME NEW a \in Int, Written(p, a) PROVE InCommon(a, p)
  <2>1. PICK i \in Listed(p) \cup DOMAIN tile[p].patches : a = placed[p].row.address + i - 1
    BY <1>1 DEF Written
  <2>2. i \in DOMAIN tile[p].words
    BY OffsetsAreListed DEF TileInv
  <2> QED BY <2>1, <2>2, WordPlaces
<1>2. ASSUME NEW a \in Int, Written(p, a), InCommon(a, q)
      PROVE  KeyOf(p) = KeyOf(q) /\ placed[p].row = placed[q].row
             /\ placed[p].offsets = placed[q].offsets
  BY <1>1, <1>2, BlocksAreApart
<1>3. \A a \in Int : InOwn(a, q) => ~ Written(p, a)
  BY <1>1, BlocksAreApart
<1>4. \A a : a \in DOMAIN tableMem /\ ~ Written(p, a) =>
        a \in DOMAIN tableMem' /\ tableMem'[a] = tableMem[a]
  OBVIOUS
<1>5. /\ Listed(q)' = Listed(q) /\ SetupOffsets(q)' = SetupOffsets(q)
      /\ TableSites(q)' = TableSites(q)
  BY SameTile
<1>6. /\ Len(SetupOffsets(q)) \in Nat /\ Len(TableSites(q)) \in Nat
      /\ placed[q].row.address \in Nat /\ placed[q].values.address \in Nat
      /\ placed[p].row.address \in Nat
      /\ placed[q].offsets.address = Behind(placed[q].row)
      /\ Behind(placed[q].row) \in Int /\ Behind(placed[p].row) \in Int
      /\ Behind(placed[q].values) \in Int
  <2>1. Len(SetupOffsets(q)) \in Nat /\ Len(TableSites(q)) \in Nat /\ PlacedRight(q)
    BY Blocks
  <2>2. placed[q].offsets.address = Behind(placed[q].row)
    BY <2>1 DEF PlacedRight
  <2> QED BY <2>1, <2>2, BlockNumbers
<1>7. ASSUME NEW k \in 1..Len(SetupOffsets(q))
      PROVE  /\ (placed[q].offsets.address + k - 1) \in DOMAIN tableMem'
             /\ tableMem'[placed[q].offsets.address + k - 1] = SetupOffsets(q)[k]
             /\ (placed[q].values.address + k - 1) \in DOMAIN tableMem'
             /\ tableMem'[placed[q].values.address + k - 1] = tile[q].words[SetupOffsets(q)[k]]
  <2>1. /\ OfOffsets(placed[q].offsets, placed[q].offsets.address + k - 1, q)
        /\ InOwn(placed[q].values.address + k - 1, q)
    BY WordPlaces
  <2> DEFINE a == placed[q].offsets.address + k - 1
             b == placed[q].values.address + k - 1
  <2>2. a \in Int /\ b \in Int /\ InCommon(a, q)
    <3>1. a \in Int /\ b \in Int
      BY <1>6
    <3> QED BY <2>1, <3>1, KindsOfPlaces
  <2>3. ~ Written(p, b)
    BY <1>3, <2>1, <2>2
  <2>4. ~ Written(p, a)
    <3> SUFFICES ASSUME Written(p, a) PROVE FALSE
      OBVIOUS
    <3>1. placed[p].row = placed[q].row
      BY <1>2, <2>2
    <3>2. a \in Behind(placed[p].row)..(CommonEnd(q) - 1)
      BY <2>1, <3>1 DEF OfOffsets
    <3>3. PICK i \in DOMAIN tile[p].words : a = placed[p].row.address + i - 1
      <4>1. Listed(p) \cup DOMAIN tile[p].patches \subseteq DOMAIN tile[p].words
        BY OffsetsAreListed DEF TileInv
      <4> QED BY <4>1 DEF Written
    <3>4. i \in 1..Len(tile[p].words) /\ Len(tile[p].words) \in Nat
          /\ Behind(placed[p].row) = placed[p].row.address + Len(tile[p].words)
      <4>1. Len(tile[p].words) \in Nat
            /\ Behind(placed[p].row) = placed[p].row.address + Len(tile[p].words)
        BY Blocks
      <4> QED BY <4>1 DEF TileInv
    <3>5. CommonEnd(q) \in Int /\ a \in Int
      BY <2>2, BlockNumbers
    <3> HIDE DEF a
    <3> QED BY <1>6, <3>2, <3>3, <3>4, <3>5
  <2>5. /\ Holds(a, SetupOffsets(q)[k]) /\ Holds(b, tile[q].words[SetupOffsets(q)[k]])
    BY DEF StaysAsLoaded
  <2> HIDE DEF a, b
  <2>6. a \in DOMAIN tableMem' /\ tableMem'[a] = SetupOffsets(q)[k]
    BY <1>4, <2>4, <2>5 DEF Holds
  <2>7. b \in DOMAIN tableMem' /\ tableMem'[b] = tile[q].words[SetupOffsets(q)[k]]
    BY <1>4, <2>3, <2>5 DEF Holds
  <2> QED BY <2>6, <2>7 DEF a, b
<1>8. ASSUME NEW k \in 1..Len(TableSites(q)), NEW n \in 0..(Count - 1)
      PROVE  /\ (placed[q].tables[k].address + n) \in DOMAIN tableMem'
             /\ tableMem'[placed[q].tables[k].address + n]
                  = tile[q].patches[TableSites(q)[k]][n + 1]
  <2> DEFINE a == placed[q].tables[k].address + n
  <2>1. InOwn(a, q)
    BY WordPlaces
  <2>2. a \in Int
    BY <1>6, <2>1 DEF InOwn
  <2>3. ~ Written(p, a)
    BY <1>3, <2>1, <2>2
  <2>4. Holds(a, tile[q].patches[TableSites(q)[k]][n + 1])
    BY DEF StaysAsLoaded
  <2> HIDE DEF a
  <2>5. a \in DOMAIN tableMem' /\ tableMem'[a] = tile[q].patches[TableSites(q)[k]][n + 1]
    BY <1>4, <2>3, <2>4 DEF Holds
  <2> QED BY <2>5 DEF a
<1>9. ASSUME NEW i \in DOMAIN tile[q].words
      PROVE  /\ placed[q].row.address + i - 1 \in DOMAIN tableMem'
             /\ i \notin Listed(q) /\ i \notin DOMAIN tile[q].patches =>
                  tableMem'[placed[q].row.address + i - 1] = tile[q].words[i]
  <2> DEFINE a == placed[q].row.address + i - 1
  <2>1. a \in DOMAIN tableMem
    BY DEF StaysAsLoaded
  <2>2. ASSUME i \notin Listed(q), i \notin DOMAIN tile[q].patches
        PROVE  tableMem'[a] = tile[q].words[i]
    <3>1. Holds(a, tile[q].words[i])
      BY <2>2 DEF StaysAsLoaded, WordIs
    <3>2. i \in Int /\ InCommon(a, q)
      BY WordPlaces
    <3>3. a \in Int
      BY <1>6, <3>2
    <3>4. ~ Written(p, a)
      <4> SUFFICES ASSUME Written(p, a) PROVE FALSE
        OBVIOUS
      <4>1. KeyOf(p) = KeyOf(q) /\ placed[p].row = placed[q].row
        BY <1>2, <3>2, <3>3
      <4>2. PICK j \in Listed(p) \cup DOMAIN tile[p].patches : a = placed[p].row.address + j - 1
        BY DEF Written
      <4>3. j \in DOMAIN tile[p].words
        BY OffsetsAreListed DEF TileInv
      <4>4. j \in Int
        BY <4>3, WordPlaces
      <4>5. i = j
        <5>1. placed[q].row.address + i - 1 = placed[q].row.address + j - 1
          BY <4>1, <4>2
        <5> HIDE DEF a
        <5> QED BY <5>1, <1>6, <3>2, <4>4
      <4>6. CASE j \in Listed(p)
        BY <2>2, <4>1, <4>5, <4>6, SharersAgree DEF Listed
      <4>7. CASE j \in DOMAIN tile[p].patches
        <5>1. tile[p].patches # <<>>
          BY <4>7
        <5>2. p = q
          BY <4>1, <5>1, SharersAgree
        <5> QED BY <2>2, <4>5, <4>7, <5>2
      <4> QED BY <4>2, <4>6, <4>7
    <3> HIDE DEF a
    <3> QED BY <1>4, <3>1, <3>4 DEF Holds
  <2> QED BY <2>1, <2>2
<1> QED BY <1>5, <1>7, <1>8, <1>9 DEF StaysAsLoaded, Holds, WordIs

\* Words that are not written stay.
LEMMA SameMemory ==
  ASSUME tile' = tile, placed' = placed, tableMem' = tableMem
  PROVE  \A p \in Phases : /\ StaysAsLoaded(p) => StaysAsLoaded(p)'
                           /\ SetUp(p) => SetUp(p)'
<1>1. \A p \in Phases : /\ Listed(p)' = Listed(p) /\ SetupOffsets(p)' = SetupOffsets(p)
                        /\ TableSites(p)' = TableSites(p)
  BY SameTile
<1>2. \A a, word : Holds(a, word)' <=> Holds(a, word)
  BY DEF Holds
<1>3. \A p, i, word : WordIs(p, i, word)' <=> WordIs(p, i, word)
  BY DEF WordIs, Holds
<1>4. ASSUME NEW p \in Phases, StaysAsLoaded(p) PROVE StaysAsLoaded(p)'
  BY <1>1, <1>4 DEF StaysAsLoaded, Holds, WordIs
<1>5. ASSUME NEW p \in Phases, SetUp(p) PROVE SetUp(p)'
  BY <1>3, <1>5 DEF SetUp
<1> QED BY <1>4, <1>5

\* The row at the place of the emitted code is one of the tile's.
LEMMA CalledPhase ==
  ASSUME PlaceInv, at.step \in DOMAIN Steps, Instruction.op = "exchange"
  PROVE  /\ Phase \in Phases
         /\ Instruction.inside = IsRepeat(Steps[at.step])
         /\ Phase \in Repeated <=> Instruction.inside
<1>1. PICK a \in DOMAIN Body(Steps[at.step]) : Called(a)
  BY AtACall
<1>2. Phase = Body(Steps[at.step])[a] /\ Instruction.inside = IsRepeat(Steps[at.step])
  BY <1>1 DEF Called
<1> QED BY <1>2, BodyTypes, RepeatedPhases

\* In a repeat the phase has been called once for each iteration before this one.
LEMMA CalledOften ==
  ASSUME ControlInv, at.step \in DOMAIN Steps, Instruction.op = "exchange", Instruction.inside
  PROVE  /\ ran[Phase] = PatchIndex /\ ran[Phase] \in 0..(Count - 1)
         /\ frame.pointer = Base + ran[Phase] * Stride
<1>0. PlaceInv /\ FrameInv /\ CountInv
  BY DEF ControlInv
<1>1. PICK a \in DOMAIN Body(Steps[at.step]) : Called(a)
  BY <1>0, AtACall
<1>2. /\ Phase = Body(Steps[at.step])[a] /\ IsRepeat(Steps[at.step]) /\ at.place = a + 1
      /\ a \in Nat /\ a >= 1 /\ at.step \in Int
  <2>1. /\ Phase = Body(Steps[at.step])[a] /\ IsRepeat(Steps[at.step])
        /\ at.place = IF IsRepeat(Steps[at.step]) THEN a + 1 ELSE a
    BY <1>1 DEF Called
  <2>2. Len(Body(Steps[at.step])) \in Nat /\ a \in 1..Len(Body(Steps[at.step]))
    BY EmittedStep
  <2> QED BY <2>1, <2>2, StepNumbers
<1>3. InRepeat
  BY <1>2 DEF InRepeat
<1>4. frame.remaining \in 1..Count /\ frame.pointer = Base + (Count - frame.remaining) * Stride
  BY <1>0, <1>3 DEF FrameInv
<1>5. ran[Phase] = CallsOf(at.step, a)
  BY <1>0, <1>2 DEF CountInv
<1>6. CallsOf(at.step, a) = (Count - frame.remaining) + (IF a + 1 < a + 1 THEN 1 ELSE 0)
  BY <1>2, <1>3 DEF CallsOf
<1>7. ran[Phase] = Count - frame.remaining
  <2>1. frame.remaining \in 1..Count /\ Count \in Nat
    BY <1>4, StepNumbers
  <2> QED BY <1>2, <1>5, <1>6, <2>1
<1>8. ran[Phase] \in 0..(Count - 1)
  <2>1. frame.remaining \in 1..Count /\ Count \in Nat
    BY <1>4, StepNumbers
  <2> QED BY <1>7, <2>1
<1> QED BY <1>4, <1>7, <1>8 DEF PatchIndex

\* A setup list has a value for each offset.
LEMMA ListLength ==
  ASSUME TileInv, LayoutInv, DOMAIN placed = Phases, NEW p \in Phases
  PROVE  /\ Len(placed[p].values.words) = Len(SetupOffsets(p))
         /\ Len(SetupOffsets(p)) \in Nat
         /\ placed[p].values.words = <<>> <=> Len(SetupOffsets(p)) = 0
<1>1. PlacedRight(p) /\ Len(SetupOffsets(p)) \in Nat
      /\ DOMAIN SetupOffsets(p) = 1..Len(SetupOffsets(p))
  BY Blocks
<1>2. placed[p].values \in DataRows
  BY DEF DataRows
<1>3. placed[p].values.words \in Seq(Int)
  BY <1>2, KindsOfRows
<1>4. placed[p].values.words = [k \in 1..Len(SetupOffsets(p)) |-> tile[p].words[SetupOffsets(p)[k]]]
  BY <1>1 DEF PlacedRight
<1>5. Len(placed[p].values.words) = Len(SetupOffsets(p))
  BY <1>1, <1>4
<1>6. placed[p].values.words = <<>> <=> Len(placed[p].values.words) = 0
  BY <1>3
<1> QED BY <1>1, <1>5, <1>6

\* Each entry of the list is one that some storer begins with or comes to.
LEMMA SetupReachesEveryEntry ==
  ASSUME TileInv, LayoutInv, DOMAIN placed = Phases, Phase \in Phases, SetupShort \/ SetupBulk,
         placed' = placed, tile' = tile, at' = at
  PROVE  SettingUp(Phase)'
<1> DEFINE n == Len(SetupOffsets(Phase))
<1>1. Len(Values.words) = n /\ n \in Nat /\ (Values.words = <<>> <=> n = 0)
  BY ListLength DEF Values
<1>2. Phase' = Phase
  BY DEF Phase, Instruction, Code
<1>3. SetupOffsets(Phase)' = SetupOffsets(Phase)
  <2>1. \A p \in Phases : SetupOffsets(p)' = SetupOffsets(p)
    BY SameTile
  <2>2. PICK p \in Phases : p = Phase
    OBVIOUS
  <2>3. SetupOffsets(Phase)' = SetupOffsets(p)'
    BY <1>2, <2>2
  <2> QED BY <2>1, <2>2, <2>3
<1>4. patched' \in Seq(0..n) /\ \A k \in 1..n : ToStore(k)'
  <2> HIDE DEF n
  <2>1. CASE SetupShort
    <3>1. patched' = IF Values.words = <<>> THEN <<>> ELSE <<1>>
      BY <2>1 DEF SetupShort
    <3>2. CASE n = 0
      BY <1>1, <3>1, <3>2
    <3>3. CASE n # 0
      <4>1. patched' = <<1>> /\ 1 \in 0..n
        BY <1>1, <3>1, <3>3
      <4>2. ASSUME NEW k \in 1..n PROVE ToStore(k)'
        <5>1. k - 1 \in Nat /\ k = 1 + (k - 1) * 1
          BY <1>1
        <5>2. 1 \in DOMAIN patched' /\ patched'[1] # 0 /\ patched'[1] = 1 /\ Len(patched') = 1
          BY <4>1
        <5> QED BY <5>1, <5>2 DEF ToStore
      <4> QED BY <4>1, <4>2
    <3> QED BY <3>2, <3>3
  <2>2. CASE SetupBulk
    <3>1. patched' = [w \in 1..Workers |-> w] /\ n >= Bulk
      BY <1>1, <2>2 DEF SetupBulk
    <3>2. Workers \in Nat /\ Workers > 0 /\ Workers <= n
      BY <1>1, <3>1, BulkAssumption
    <3>3. patched' \in Seq(0..n)
      <4>0. \A w \in 1..Workers : w \in 0..n
        BY <1>1, <3>2
      <4>1. patched' \in [1..Workers -> 0..n]
        BY <3>1, <4>0
      <4> QED BY <3>2, <4>1, FunctionsAreLists
    <3>4. ASSUME NEW k \in 1..n PROVE ToStore(k)'
      <4>1. PICK j \in Int : k - 1 = Workers * j + ((k - 1) % Workers)
        BY <1>1, <3>2, Division
      <4> DEFINE w == ((k - 1) % Workers) + 1
      <4>2. (k - 1) % Workers \in 0..(Workers - 1)
        BY <1>1, <3>2, Division
      <4>3. w \in 1..Workers /\ j >= 0
        <5> DEFINE m == (k - 1) % Workers
        <5>1. m \in 0..(Workers - 1) /\ k - 1 = Workers * j + m /\ k - 1 >= 0
          BY <1>1, <4>1, <4>2
        <5>2. j >= 0
          <6> SUFFICES ASSUME j <= -1 PROVE FALSE
            OBVIOUS
          <6>1. Workers * j <= -Workers
            BY <3>2
          <6> HIDE DEF m
          <6> QED BY <3>2, <5>1, <6>1
        <5>3. w \in 1..Workers
          BY <3>2, <4>2
        <5> QED BY <5>2, <5>3
      <4>4. k = w + j * Workers
        <5>1. Workers * j = j * Workers
          BY <3>2
        <5> DEFINE m == (k - 1) % Workers
        <5>2. m \in Int /\ k - 1 = Workers * j + m
          BY <3>2, <4>1, <4>2
        <5> HIDE DEF m
        <5>3. k = (m + 1) + Workers * j
          BY <1>1, <3>2, <5>2
        <5> QED BY <5>1, <5>3 DEF m
      <4> HIDE DEF w
      <4>5. w \in DOMAIN patched' /\ patched'[w] = w /\ w # 0 /\ Len(patched') = Workers
        BY <3>1, <3>2, <4>3
      <4>6. j \in Nat
        BY <4>3
      <4> QED BY <4>4, <4>5, <4>6 DEF ToStore
    <3> QED BY <3>3, <3>4
  <2> QED BY <2>1, <2>2
<1> QED BY <1>3, <1>4 DEF SettingUp

\* A store is of an entry's word, and its storer goes on to the next of its own.
LEMMA StoringKeepsMemory ==
  ASSUME TileInv, LayoutInv, DOMAIN placed = Phases, NEW p \in Phases, p = Phase,
         StaysAsLoaded(p), SettingUp(p), NEW w \in DOMAIN patched, StoreEntry(w)
  PROVE  /\ \A q \in Phases : StaysAsLoaded(q) => StaysAsLoaded(q)'
         /\ SettingUp(p)'
<1> DEFINE n == Len(SetupOffsets(p))
           k0 == patched[w]
           W == Len(patched)
           i0 == SetupOffsets(p)[k0]
           a0 == placed[p].row.address + i0 - 1
<1>1. /\ tile' = tile /\ placed' = placed /\ k0 # 0
      /\ tableMem' = Entry(tableMem, k0)
      /\ patched' = [patched EXCEPT ![w] =
                       IF k0 + W <= Len(Values.words) THEN k0 + W ELSE 0]
  BY DEF StoreEntry, NextEntry
<1>2. Len(Values.words) = n /\ n \in Nat /\ Values = placed[p].values
  BY ListLength DEF Values
<1>3. patched \in Seq(0..n) /\ W \in Nat /\ W >= 1 /\ w \in 1..W /\ k0 \in 1..n
  <2>1. patched \in Seq(0..n)
    BY DEF SettingUp
  <2>2. k0 \in 0..n /\ w \in 1..W /\ W \in Nat
    BY <2>1, ElementOfSeq
  <2> HIDE DEF n, k0, W
  <2>3. k0 \in 1..n /\ W >= 1
    BY <1>1, <1>2, <2>2
  <2> QED BY <2>1, <2>2, <2>3
<1>4. /\ tableMem[placed[p].offsets.address + k0 - 1] = i0
      /\ tableMem[placed[p].values.address + k0 - 1] = tile[p].words[i0]
      /\ i0 \in DOMAIN tile[p].words /\ i0 \in Listed(p)
  <2>1. Holds(placed[p].offsets.address + k0 - 1, i0)
        /\ Holds(placed[p].values.address + k0 - 1, tile[p].words[i0])
    BY <1>3 DEF StaysAsLoaded
  <2>2. i0 \in Listed(p)
    BY <1>3 DEF Listed
  <2>3. i0 \in DOMAIN tile[p].words
    BY <2>2, OffsetsAreListed
  <2> QED BY <2>1, <2>2, <2>3 DEF Holds
<1>5. tableMem' = [tableMem EXCEPT ![a0] = tile[p].words[i0]]
  BY <1>1, <1>2, <1>4 DEF Entry
<1>6. a0 \in DOMAIN tableMem
  BY <1>4 DEF StaysAsLoaded
<1>7. DOMAIN tableMem' = DOMAIN tableMem /\ tableMem'[a0] = tile[p].words[i0]
      /\ \A a \in DOMAIN tableMem : a # a0 => tableMem'[a] = tableMem[a]
  BY <1>5, <1>6
<1>8. Written(p, a0)
  BY <1>4 DEF Written
<1>9. \A q \in Phases : StaysAsLoaded(q) => StaysAsLoaded(q)'
  <2>1. \A a \in DOMAIN tableMem : Written(p, a) \/ tableMem'[a] = tableMem[a]
    BY <1>7, <1>8
  <2> QED BY <1>1, <1>7, <2>1, WritesKeep
<1>10. SetupOffsets(p)' = SetupOffsets(p)
  BY <1>1, SameTile
<1>11. \A k \in 1..n : SetupOffsets(p)[k] \in Int
  <2>1. SetupOffsets(p) \in Seq(Nat)
    BY PlacedLengths
  <2> QED BY <2>1
<1>12. placed[p].row.address \in Nat
  BY BlockNumbers
<1> HIDE DEF n, k0, W, i0, a0
<1>13. patched' \in Seq(0..n) /\ Len(patched') = W /\ DOMAIN patched' = DOMAIN patched
  <2>1. (IF k0 + W <= Len(Values.words) THEN k0 + W ELSE 0) \in 0..n
    BY <1>2, <1>3
  <2>2. patched \in [1..W -> 0..n]
    BY <1>3, ListsAreFunctions DEF W
  <2>3. patched' \in [1..W -> 0..n]
    BY <1>1, <2>1, <2>2
  <2>4. patched' \in Seq(0..n) /\ Len(patched') = W
    BY <1>3, <2>3, FunctionsAreLists
  <2> QED BY <2>2, <2>3, <2>4
<1>14. ASSUME NEW k \in 1..n
       PROVE  \/ Holds(placed[p].row.address + SetupOffsets(p)[k] - 1,
                       tile[p].words[SetupOffsets(p)[k]])'
              \/ ToStore(k)'
  <2> DEFINE a == placed[p].row.address + SetupOffsets(p)[k] - 1
  <2>1. WordIs(p, SetupOffsets(p)[k], tile[p].words[SetupOffsets(p)[k]]) \/ ToStore(k)
    BY DEF SettingUp, n
  <2>2. ASSUME a = a0
        PROVE  a \in DOMAIN tableMem' /\ tableMem'[a] = tile[p].words[SetupOffsets(p)[k]]
    <3>1. i0 \in Int
      BY <1>3, <1>11 DEF i0
    <3>2. SetupOffsets(p)[k] = i0
      BY <2>2, <3>1, <1>11, <1>12 DEF a0
    <3> QED BY <2>2, <3>2, <1>6, <1>7
  <2>3. CASE WordIs(p, SetupOffsets(p)[k], tile[p].words[SetupOffsets(p)[k]])
    <3>1. a \in DOMAIN tableMem /\ tableMem[a] = tile[p].words[SetupOffsets(p)[k]]
      BY <2>3 DEF WordIs, Holds
    <3>2. a \in DOMAIN tableMem' /\ tableMem'[a] = tile[p].words[SetupOffsets(p)[k]]
      BY <2>2, <3>1, <1>7
    <3> QED BY <3>2, <1>1, <1>10 DEF Holds
  <2>4. CASE ToStore(k)
    <3>1. PICK u \in DOMAIN patched, j \in Nat : patched[u] # 0 /\ k = patched[u] + j * W
      BY <2>4 DEF ToStore, W
    <3>2. CASE u # w
      <4>1. patched'[u] = patched[u] /\ u \in DOMAIN patched'
        BY <1>1, <1>13, <3>2
      <4> QED BY <1>13, <3>1, <4>1 DEF ToStore
    <3>3. CASE u = w /\ j = 0
      <4>1. k = k0
        BY <1>3, <3>1, <3>3 DEF k0
      <4>2. a = a0
        BY <4>1 DEF a0, i0
      <4> QED BY <2>2, <4>2, <1>1, <1>10 DEF Holds
    <3>4. CASE u = w /\ j # 0
      <4>1. k = k0 + j * W /\ j - 1 \in Nat
        BY <3>1, <3>4 DEF k0
      <4>2. j * W = W + (j - 1) * W /\ (j - 1) * W \in Nat
        BY <1>3, <4>1
      <4>3. k = (k0 + W) + (j - 1) * W /\ k0 + W <= n /\ k0 + W # 0
        <5> DEFINE m == (j - 1) * W
        <5>1. m \in Nat /\ k = k0 + (W + m)
          BY <4>1, <4>2
        <5> HIDE DEF m
        <5>2. k = (k0 + W) + m /\ k0 + W <= n /\ k0 + W # 0
          BY <1>2, <1>3, <5>1
        <5> QED BY <5>2 DEF m
      <4>4. patched'[w] = k0 + W
        <5>1. k0 + W <= Len(Values.words)
          BY <1>2, <4>3
        <5> QED BY <1>1, <5>1
      <4>5. w \in DOMAIN patched' /\ patched'[w] # 0
            /\ k = patched'[w] + (j - 1) * Len(patched')
        BY <1>13, <4>3, <4>4
      <4> QED BY <4>1, <4>5 DEF ToStore
    <3> QED BY <3>2, <3>3, <3>4
  <2> QED BY <2>1, <2>3, <2>4
<1>15. SettingUp(p)'
  <2>1. \A k \in 1..n : \/ WordIs(p, SetupOffsets(p)[k], tile[p].words[SetupOffsets(p)[k]])'
                        \/ ToStore(k)'
    BY <1>1, <1>10, <1>14 DEF WordIs
  <2> QED BY <1>1, <1>10, <1>13, <2>1 DEF SettingUp, n
<1> QED BY <1>9, <1>15

\* When no storer has an entry left, the row has every word but the patched ones.
LEMMA SetupIsComplete ==
  ASSUME NEW p \in Phases, StaysAsLoaded(p), SettingUp(p),
         \A w \in DOMAIN patched : patched[w] = 0
  PROVE  SetUp(p)
<1>1. \A k \in 1..Len(SetupOffsets(p)) :
        WordIs(p, SetupOffsets(p)[k], tile[p].words[SetupOffsets(p)[k]])
  BY DEF SettingUp, ToStore
<1>2. ASSUME NEW i \in DOMAIN tile[p].words \ DOMAIN tile[p].patches
      PROVE  WordIs(p, i, tile[p].words[i])
  <2>1. CASE i \in Listed(p)
    BY <1>1, <2>1 DEF Listed
  <2>2. CASE i \notin Listed(p)
    BY <2>2 DEF StaysAsLoaded
  <2> QED BY <2>1, <2>2
<1> QED BY <1>2 DEF SetUp

\* A repeat patch finds the word of this iteration, computed or in its table.
LEMMA PatchedWord ==
  ASSUME TileInv, LayoutInv, DOMAIN placed = Phases, NEW p \in Phases, StaysAsLoaded(p),
         PatchIndex \in 0..(Count - 1), NEW i \in DOMAIN tile[p].patches
  PROVE  (IF Arithmetic(tile[p].patches[i]) THEN ArithmeticValue(tile[p].patches[i])
          ELSE TableValue(placed[p].tables[CHOOSE k \in DOMAIN TableSites(p) : TableSites(p)[k] = i]))
           = tile[p].patches[i][PatchIndex + 1]
<1> DEFINE v == tile[p].patches[i]
<1>1. v \in [1..Count -> 0..(Modulus - 1)]
  BY DEF TileInv
<1>2. CASE Arithmetic(v)
  <2>1. (v[1] + PatchIndex * ((v[2] - v[1]) % Modulus)) % Modulus = v[PatchIndex + 1]
    <3> HIDE DEF v
    <3> QED BY <1>1, <1>2, ArithmeticIsExact
  <2> QED BY <1>2, <2>1 DEF ArithmeticValue
<1>3. CASE ~ Arithmetic(v)
  <2> DEFINE k == CHOOSE k \in DOMAIN TableSites(p) : TableSites(p)[k] = i
  <2>1. \E j \in 1..Len(TableSites(p)) : TableSites(p)[j] = i
    BY <1>3, TablesAreListed
  <2>2. DOMAIN TableSites(p) = 1..Len(TableSites(p))
    BY PlacedLengths
  <2>3. k \in 1..Len(TableSites(p)) /\ TableSites(p)[k] = i
    BY <2>1, <2>2
  <2> HIDE DEF k
  <2>4. Holds(placed[p].tables[k].address + PatchIndex, v[PatchIndex + 1])
    BY <2>3 DEF StaysAsLoaded
  <2>5. TableValue(placed[p].tables[k]) = v[PatchIndex + 1]
    BY <2>4 DEF TableValue, Holds
  <2> QED BY <1>3, <2>5 DEF k
<1> QED BY <1>2, <1>3

\* Up to the call every word of the row becomes the one of this iteration.
LEMMA ArmingKeepsMemory ==
  ASSUME TileInv, LayoutInv, ControlInv, DOMAIN placed = Phases, rowPc = "arm",
         \A q \in Phases : StaysAsLoaded(q), NEW p \in Phases, p = Phase, SetUp(p), Arm
  PROVE  (\A q \in Phases : StaysAsLoaded(q)') /\ Armed(p)'
<1> DEFINE row == placed[p].row.address
           patches == tile[p].patches
           sites == {row + i - 1 : i \in DOMAIN patches}
<1>1. /\ tile' = tile /\ placed' = placed /\ ran' = ran
      /\ tableMem' = IF Instruction.inside THEN RepeatPatched ELSE tableMem
      /\ base' = IF tile[p].moving THEN frame.pointer ELSE 0
  BY DEF Arm
<1>2. at.step \in DOMAIN Steps /\ Instruction.op = "exchange" /\ PlaceInv
  BY DEF ControlInv, PlaceInv
<1>3. p \in Repeated <=> Instruction.inside
  BY <1>2, CalledPhase
<1>4. row \in Nat
  BY BlockNumbers
<1>5. DOMAIN patches \subseteq DOMAIN tile[p].words
      /\ \A i \in DOMAIN tile[p].words : i \in Int
  BY WordPlaces DEF TileInv
<1>6. base' = IF tile[p].moving THEN Base + ran[p] * Stride ELSE 0
  <2>1. tile[p].moving # FALSE => Instruction.inside
    BY <1>3 DEF TileInv
  <2>2. Instruction.inside => frame.pointer = Base + ran[p] * Stride
    BY <1>2, CalledOften
  <2> QED BY <1>1, <2>1, <2>2
<1>7. /\ DOMAIN tableMem' = DOMAIN tableMem
      /\ \A a \in DOMAIN tableMem : Written(p, a) \/ tableMem'[a] = tableMem[a]
      /\ \A i \in DOMAIN tile[p].words : tableMem'[row + i - 1] = Encoded(p, ran[p])[i]
  <2>1. CASE ~ Instruction.inside
    <3>1. tableMem' = tableMem
      BY <1>1, <2>1
    <3>2. DOMAIN patches = {}
      <4>1. patches = <<>>
        BY <1>3, <2>1 DEF TileInv
      <4> QED BY <4>1
    <3>3. ASSUME NEW i \in DOMAIN tile[p].words PROVE tableMem[row + i - 1] = tile[p].words[i]
      BY <3>2 DEF SetUp, WordIs, Holds
    <3>4. \A i \in DOMAIN tile[p].words : Encoded(p, ran[p])[i] = tile[p].words[i]
      BY <3>2 DEF Encoded
    <3> QED BY <3>1, <3>3, <3>4
  <2>2. CASE Instruction.inside
    <3>0. ran[p] = PatchIndex /\ PatchIndex \in 0..(Count - 1)
      BY <1>2, <2>2, CalledOften
    <3> DEFINE k(i) == CHOOSE k \in DOMAIN TableSites(p) : TableSites(p)[k] = i
               word(i) == IF Arithmetic(patches[i]) THEN ArithmeticValue(patches[i])
                          ELSE TableValue(placed[p].tables[k(i)])
    <3>1. tableMem' = [a \in DOMAIN tableMem |->
                         IF a \in sites THEN word(a - row + 1) ELSE tableMem[a]]
      BY <1>1, <2>2 DEF RepeatPatched
    <3>2. \A i \in DOMAIN patches : word(i) = patches[i][ran[p] + 1]
      BY <3>0, PatchedWord
    <3> HIDE DEF word, k
    <3>3. \A a \in sites : Written(p, a)
      BY DEF Written
    <3>4. ASSUME NEW i \in DOMAIN tile[p].words
          PROVE  /\ row + i - 1 \in DOMAIN tableMem
                 /\ row + i - 1 \in sites <=> i \in DOMAIN patches
                 /\ (row + i - 1) - row + 1 = i
      <4>1. row + i - 1 \in DOMAIN tableMem
        BY DEF StaysAsLoaded
      <4>2. \A j \in DOMAIN patches : row + j - 1 = row + i - 1 => j = i
        BY <1>4, <1>5
      <4>3. (row + i - 1) - row + 1 = i
        BY <1>4, <1>5
      <4> QED BY <4>1, <4>2, <4>3
    <3> HIDE DEF row, sites
    <3>5. ASSUME NEW i \in DOMAIN tile[p].words
          PROVE  tableMem'[row + i - 1] = Encoded(p, ran[p])[i]
      <4>1. CASE i \in DOMAIN patches
        <5>1. tableMem'[row + i - 1] = word(i)
          BY <3>1, <3>4, <4>1
        <5> QED BY <3>2, <4>1, <5>1 DEF Encoded
      <4>2. CASE i \notin DOMAIN patches
        <5>1. tableMem'[row + i - 1] = tableMem[row + i - 1]
          BY <3>1, <3>4, <4>2
        <5>2. tableMem[row + i - 1] = tile[p].words[i]
          BY <4>2 DEF SetUp, WordIs, Holds, row
        <5> QED BY <4>2, <5>1, <5>2 DEF Encoded
      <4> QED BY <4>1, <4>2
    <3>6. DOMAIN tableMem' = DOMAIN tableMem
          /\ \A a \in DOMAIN tableMem : a \notin sites => tableMem'[a] = tableMem[a]
      BY <3>1
    <3> QED BY <3>3, <3>5, <3>6
  <2> QED BY <2>1, <2>2
<1>8. \A q \in Phases : StaysAsLoaded(q)'
  BY <1>1, <1>7, WritesKeep
<1>9. \A i \in DOMAIN tile[p].words : row + i - 1 \in DOMAIN tableMem'
  BY <1>7 DEF StaysAsLoaded
<1>10. Encoded(p, ran[p])' = Encoded(p, ran[p])
  BY <1>1 DEF Encoded
<1>11. \A i \in DOMAIN tile'[p].words : WordIs(p, i, Encoded(p, ran[p])[i])'
  BY <1>1, <1>7, <1>9, <1>10 DEF WordIs, Holds
<1> QED BY <1>1, <1>6, <1>8, <1>11 DEF Armed

\* A step that changes nothing keeps the invariant.
LEMMA SameEverything ==
  ASSUME TileInv, LayoutInv, MemoryInv, ControlInv,
         tile' = tile, rowPc' = rowPc, cursor' = cursor, shared' = shared,
         placed' = placed, tableMem' = tableMem, at' = at, frame' = frame,
         base' = base, patched' = patched, ran' = ran, sampled' = sampled
  PROVE  TileInv' /\ LayoutInv' /\ MemoryInv' /\ ControlInv'
<1>1. TileInv'
  BY SameTile
<1>2. \A p \in Phases : /\ KeyOf(p)' = KeyOf(p) /\ RowWords(p)' = RowWords(p)
                        /\ SetupOffsets(p)' = SetupOffsets(p)
                        /\ TableSites(p)' = TableSites(p)
  BY SameTile
<1>3. LayoutInv'
  <2>1. \A p \in Phases : PlacedRight(p) => PlacedRight(p)'
    BY <1>2 DEF PlacedRight
  <2>2. \A p : CommonEnd(p)' = CommonEnd(p) /\ OwnEnd(p)' = OwnEnd(p)
    BY DEF CommonEnd, OwnEnd
  <2>3. \A p, q \in Phases : Apart(p, q) => Apart(p, q)'
    BY <1>2, <2>2 DEF Apart
  <2>4. DOMAIN placed \subseteq Phases /\ DOMAIN shared = {KeyOf(p) : p \in DOMAIN placed}
    BY DEF LayoutInv
  <2>5. DOMAIN shared' = {KeyOf(p)' : p \in DOMAIN placed'}
    BY <1>2, <2>4
  <2> QED BY <2>1, <2>2, <2>3, <2>4, <2>5 DEF LayoutInv
<1>4. ControlInv'
  BY SameControl DEF ControlInv, PlaceInv
<1>5. Phase' = Phase
  BY DEF Phase, Instruction, Code
<1>6. rowPc \in {"setup", "arm", "run"} => Phase \in Phases
  BY CalledPhase DEF ControlInv, PlaceInv
<1>7. \A k : ToStore(k) => ToStore(k)'
  BY DEF ToStore
<1>8. \A p \in Phases : SettingUp(p) => SettingUp(p)'
  BY <1>2, <1>7 DEF SettingUp, WordIs, Holds
<1>9. \A p \in Phases : Armed(p) => Armed(p)'
  <2>1. \A p : Encoded(p, ran[p])' = Encoded(p, ran[p])
    BY DEF Encoded
  <2> QED BY <2>1 DEF Armed, WordIs, Holds
<1>10. MemoryInv'
  <2>1. rowPc' \in Running => \A p \in Phases : StaysAsLoaded(p)'
    BY SameMemory DEF MemoryInv
  <2>2. ASSUME rowPc \in {"setup", "arm", "run"}
        PROVE  /\ rowPc = "setup" => SettingUp(Phase)'
               /\ rowPc = "arm" => SetUp(Phase)'
               /\ rowPc = "run" => Armed(Phase)'
    <3>1. PICK p \in Phases : p = Phase
      BY <1>6, <2>2
    <3>2. /\ rowPc = "setup" => SettingUp(p)
          /\ rowPc = "arm" => SetUp(p)
          /\ rowPc = "run" => Armed(p)
      BY <3>1 DEF MemoryInv
    <3>3. SetUp(p) => SetUp(p)'
      BY SameMemory
    <3>4. /\ rowPc = "setup" => SettingUp(p)'
          /\ rowPc = "arm" => SetUp(p)'
          /\ rowPc = "run" => Armed(p)'
      BY <1>8, <1>9, <3>2, <3>3
    <3>5. /\ SettingUp(p)' => SettingUp(Phase)'
          /\ SetUp(p)' => SetUp(Phase)'
          /\ Armed(p)' => Armed(Phase)'
      <4>1. Phase' = p
        BY <1>5, <3>1
      <4> QED BY <4>1 DEF SettingUp, SetUp, Armed
    <3> QED BY <3>4, <3>5
  <2> QED BY <2>1, <2>2 DEF MemoryInv
<1> QED BY <1>1, <1>3, <1>4, <1>10

-----------------------------------------------------------------------------
(* The theorems *)

\* Every state of a tile that runs its rows satisfies the inductive invariant.
THEOREM RowInvariant == RowSpec => []IInv
<1>1. RowInit => IInv
  <2> SUFFICES ASSUME RowInit PROVE IInv
    OBVIOUS
  <2>1. TileInv
    BY InitialTile
  <2>2. LayoutInv
    <3>1. DOMAIN placed = {} /\ DOMAIN shared = {} /\ rowPc = "layout" /\ cursor = 0
      BY DEF RowInit
    <3> QED BY <3>1 DEF LayoutInv
  <2>3. MemoryInv
    BY DEF RowInit, MemoryInv, Running
  <2>4. ControlInv
    <3>1. at = [step |-> 1, place |-> 1] /\ rowPc = "layout"
          /\ ran = [p \in Phases |-> 0] /\ sampled = [p \in Phases |-> {}]
      BY DEF RowInit, Start
    <3>2. at.step = 1 /\ at.place = 1 /\ at \in [step : 1..(Len(Steps) + 1), place : Nat]
      BY <3>1, StepNumbers
    <3>3. ~ InRepeat
      BY <3>2 DEF InRepeat
    <3>4. PlaceInv
      <4>1. ASSUME 1 \in DOMAIN Steps PROVE 1 \in 1..Len(EmitStep(Steps[1]))
        <5> DEFINE n == Len(Body(Steps[1]))
        <5>1. n \in Nat /\ (Len(EmitStep(Steps[1])) = n + 2 \/ Len(EmitStep(Steps[1])) = 1)
          BY <4>1, EmittedStep
        <5> HIDE DEF n
        <5> QED BY <5>1
      <4> QED BY <3>1, <3>2, <4>1 DEF PlaceInv, Code
    <3>5. FrameInv
      BY <3>3 DEF FrameInv
    <3>6. CountInv
      <4>1. ASSUME NEW i \in DOMAIN Steps, NEW a \in DOMAIN Body(Steps[i]) PROVE CallsOf(i, a) = 0
        BY <3>2, <3>3, StepNumbers DEF CallsOf
      <4>2. \A i \in DOMAIN Steps : \A a \in DOMAIN Body(Steps[i]) : Body(Steps[i])[a] \in Phases
        BY BodyTypes
      <4> QED BY <3>1, <4>1, <4>2 DEF CountInv
    <3> QED BY <3>4, <3>5, <3>6 DEF ControlInv
  <2> QED BY <2>1, <2>2, <2>3, <2>4 DEF IInv
<1>2. IInv /\ [RowNext]_rowVars => IInv'
  <2> SUFFICES ASSUME IInv, [RowNext]_rowVars PROVE IInv'
    OBVIOUS
  <2>1. TileInv /\ LayoutInv /\ MemoryInv /\ ControlInv
    BY DEF IInv
  <2>2. ASSUME NEW p \in Phases, PlacePhase(p) PROVE IInv'
    <3>1. /\ rowPc = "layout" /\ rowPc' \in {"layout", "load"} /\ tile' = tile
          /\ at' = at /\ frame' = frame /\ ran' = ran /\ sampled' = sampled
      BY <2>2 DEF PlacePhase
    <3>2. TileInv'
      BY <2>1, <3>1, SameTile
    <3>3. LayoutInv'
      BY <2>1, <2>2, PlacingKeepsLayout
    <3>4. MemoryInv'
      BY <3>1 DEF MemoryInv, Running
    <3>5. ControlInv'
      BY <2>1, <3>1, SameControl
    <3> QED BY <3>2, <3>3, <3>4, <3>5 DEF IInv
  <2>3. ASSUME LoadRows PROVE IInv'
    <3>1. /\ rowPc' \in {"rejected", "fetch"} /\ tile' = tile
          /\ at' = at /\ frame' = frame /\ ran' = ran /\ sampled' = sampled
      BY <2>3 DEF LoadRows
    <3>2. TileInv'
      BY <2>1, <3>1, SameTile
    <3>3. LayoutInv' /\ MemoryInv'
      BY <2>1, <2>3, LoadingKeepsWords
    <3>4. ControlInv'
      BY <2>1, <3>1, SameControl
    <3> QED BY <3>2, <3>3, <3>4 DEF IInv
  <2>4. ASSUME SetupShort \/ SetupBulk PROVE IInv'
    <3>1. /\ rowPc = "fetch" /\ rowPc' = "setup" /\ at.step \in DOMAIN Steps
          /\ Instruction.op = "exchange" /\ tile' = tile /\ cursor' = cursor
          /\ shared' = shared /\ placed' = placed /\ tableMem' = tableMem
          /\ at' = at /\ frame' = frame /\ ran' = ran /\ sampled' = sampled
      BY <2>4 DEF SetupShort, SetupBulk, AtExchange, Fetching
    <3>2. TileInv'
      BY <2>1, <3>1, SameTile
    <3>3. LayoutInv' /\ DOMAIN placed = Phases
      BY <2>1, <3>1, SameLayout
    <3>4. ControlInv'
      BY <2>1, <3>1, SameControl
    <3>5. Phase \in Phases
      BY <2>1, <3>1, CalledPhase DEF ControlInv
    <3>6. SettingUp(Phase)'
      BY <2>1, <2>4, <3>1, <3>3, <3>5, SetupReachesEveryEntry
    <3>7. \A p \in Phases : StaysAsLoaded(p)'
      BY <2>1, <3>1, SameMemory DEF MemoryInv, Running
    <3>8. MemoryInv'
      BY <3>1, <3>6, <3>7 DEF MemoryInv
    <3> QED BY <3>2, <3>3, <3>4, <3>8 DEF IInv
  <2>5. ASSUME NEW w \in DOMAIN patched, StoreEntry(w) PROVE IInv'
    <3>1. /\ rowPc = "setup" /\ rowPc' = "setup" /\ tile' = tile /\ cursor' = cursor
          /\ shared' = shared /\ placed' = placed
          /\ at' = at /\ frame' = frame /\ ran' = ran /\ sampled' = sampled
      BY <2>5 DEF StoreEntry
    <3>2. TileInv'
      BY <2>1, <3>1, SameTile
    <3>3. LayoutInv' /\ DOMAIN placed = Phases
      BY <2>1, <3>1, SameLayout
    <3>4. at.step \in DOMAIN Steps /\ Instruction.op = "exchange" /\ PlaceInv
      BY <2>1, <3>1 DEF ControlInv, PlaceInv
    <3>5. ControlInv'
      BY <2>1, <3>1, <3>4, SameControl
    <3>6. PICK p \in Phases : p = Phase
      BY <3>4, CalledPhase
    <3>7. Phase' = p
      BY <3>1, <3>6 DEF Phase, Instruction, Code
    <3>8. (\A q \in Phases : StaysAsLoaded(q)) /\ SettingUp(p)
      BY <2>1, <3>1, <3>6 DEF MemoryInv, Running
    <3>9. (\A q \in Phases : StaysAsLoaded(q)') /\ SettingUp(p)'
      BY <2>1, <2>5, <3>3, <3>6, <3>8, StoringKeepsMemory
    <3>10. MemoryInv'
      BY <3>1, <3>7, <3>9 DEF MemoryInv
    <3> QED BY <3>2, <3>3, <3>5, <3>10 DEF IInv
  <2>6. ASSUME SetupEnds PROVE IInv'
    <3>1. /\ rowPc = "setup" /\ rowPc' = "arm" /\ tile' = tile /\ cursor' = cursor
          /\ shared' = shared /\ placed' = placed /\ tableMem' = tableMem
          /\ at' = at /\ frame' = frame /\ ran' = ran /\ sampled' = sampled
          /\ \A w \in DOMAIN patched : patched[w] = 0
      BY <2>6 DEF SetupEnds
    <3>2. TileInv'
      BY <2>1, <3>1, SameTile
    <3>3. LayoutInv' /\ DOMAIN placed = Phases
      BY <2>1, <3>1, SameLayout
    <3>4. at.step \in DOMAIN Steps /\ Instruction.op = "exchange" /\ PlaceInv
      BY <2>1, <3>1 DEF ControlInv, PlaceInv
    <3>5. ControlInv'
      BY <2>1, <3>1, <3>4, SameControl
    <3>6. PICK p \in Phases : p = Phase
      BY <3>4, CalledPhase
    <3>7. Phase' = p
      BY <3>1, <3>6 DEF Phase, Instruction, Code
    <3>8. (\A q \in Phases : StaysAsLoaded(q)) /\ SettingUp(p)
      BY <2>1, <3>1, <3>6 DEF MemoryInv, Running
    <3>9. SetUp(p)
      BY <3>1, <3>8, SetupIsComplete
    <3>10. (\A q \in Phases : StaysAsLoaded(q)') /\ SetUp(p)'
      BY <3>1, <3>8, <3>9, SameMemory
    <3>11. MemoryInv'
      BY <3>1, <3>7, <3>10 DEF MemoryInv
    <3> QED BY <3>2, <3>3, <3>5, <3>11 DEF IInv
  <2>7. ASSUME Arm PROVE IInv'
    <3>1. /\ rowPc = "arm" /\ rowPc' = "run" /\ tile' = tile /\ cursor' = cursor
          /\ shared' = shared /\ placed' = placed
          /\ at' = at /\ frame' = frame /\ ran' = ran /\ sampled' = sampled
      BY <2>7 DEF Arm
    <3>2. TileInv'
      BY <2>1, <3>1, SameTile
    <3>3. LayoutInv' /\ DOMAIN placed = Phases
      BY <2>1, <3>1, SameLayout
    <3>4. at.step \in DOMAIN Steps /\ Instruction.op = "exchange" /\ PlaceInv
      BY <2>1, <3>1 DEF ControlInv, PlaceInv
    <3>5. ControlInv'
      BY <2>1, <3>1, <3>4, SameControl
    <3>6. PICK p \in Phases : p = Phase
      BY <3>4, CalledPhase
    <3>7. Phase' = p
      BY <3>1, <3>6 DEF Phase, Instruction, Code
    <3>8. (\A q \in Phases : StaysAsLoaded(q)) /\ SetUp(p)
      BY <2>1, <3>1, <3>6 DEF MemoryInv, Running
    <3>9. (\A q \in Phases : StaysAsLoaded(q)') /\ Armed(p)'
      BY <2>1, <2>7, <3>1, <3>3, <3>6, <3>8, ArmingKeepsMemory
    <3>10. MemoryInv'
      BY <3>1, <3>7, <3>9 DEF MemoryInv
    <3> QED BY <3>2, <3>3, <3>5, <3>10 DEF IInv
  <2>8. ASSUME CallRow \/ EnterRepeat \/ EndIteration \/ EndInvocation PROVE IInv'
    <3>1. /\ rowPc \in Running /\ rowPc' \in {"fetch", "done"} /\ tile' = tile /\ cursor' = cursor
          /\ shared' = shared /\ placed' = placed /\ tableMem' = tableMem
      BY <2>8 DEF CallRow, EnterRepeat, EndIteration, EndInvocation, Fetching, Ended, Running
    <3>2. TileInv'
      BY <2>1, <3>1, SameTile
    <3>3. LayoutInv'
      BY <2>1, <3>1, SameLayout DEF Running
    <3>4. MemoryInv'
      BY <2>1, <3>1, SameMemory DEF MemoryInv, Running
    <3>5. ControlInv'
      BY <2>1, <2>8, CallingKeepsControl, EnteringKeepsControl, EndingKeepsControl,
         InvocationsKeepControl
    <3> QED BY <3>2, <3>3, <3>4, <3>5 DEF IInv
  <2>9. ASSUME UNCHANGED rowVars PROVE IInv'
    <3>1. /\ tile' = tile /\ rowPc' = rowPc /\ cursor' = cursor /\ shared' = shared
          /\ placed' = placed /\ tableMem' = tableMem /\ at' = at /\ frame' = frame
          /\ base' = base /\ patched' = patched /\ ran' = ran /\ sampled' = sampled
      BY <2>9 DEF rowVars
    <3> QED BY <2>1, <3>1, SameEverything DEF IInv
  <2> QED BY <2>2, <2>3, <2>4, <2>5, <2>6, <2>7, <2>8, <2>9 DEF RowNext
<1> QED BY <1>1, <1>2, PTL DEF RowSpec

\* What runs is what was encoded, whatever ran on the shared row before it.
THEOREM RowsRunAsEncodedHolds == RowSpec => []RowsRunAsEncoded
<1>1. IInv => RowsRunAsEncoded
  <2> SUFFICES ASSUME IInv, rowPc = "run"
               PROVE  LET row == placed[Phase].row.address IN
                      /\ \A i \in DOMAIN tile[Phase].words :
                           tableMem[row + i - 1] = Encoded(Phase, ran[Phase])[i]
                      /\ base = IF tile[Phase].moving THEN Base + ran[Phase] * Stride ELSE 0
    BY DEF RowsRunAsEncoded
  <2>1. Armed(Phase)
    BY DEF IInv, MemoryInv
  <2> QED BY <2>1 DEF Armed, WordIs, Holds
<1> QED BY <1>1, RowInvariant, PTL

\* The validator rejects no layout, and every row of a finished invocation was
\* called as often as it has iterations and sampled at its first call.
THEOREM InvocationIsCompleteHolds == RowSpec => []InvocationIsComplete
<1>1. IInv => InvocationIsComplete
  <2> SUFFICES ASSUME IInv PROVE InvocationIsComplete
    OBVIOUS
  <2>1. rowPc # "rejected"
    BY DEF IInv, LayoutInv
  <2>2. ASSUME Ended, NEW p \in Phases
        PROVE  ran[p] = (IF p \in Repeated THEN Count ELSE 1) /\ sampled[p] = {0}
    <3>1. PICK i \in DOMAIN Steps : \E a \in DOMAIN Body(Steps[i]) : p = Body(Steps[i])[a]
      BY PhaseIsInABody
    <3>2. PICK a \in DOMAIN Body(Steps[i]) : p = Body(Steps[i])[a]
      BY <3>1
    <3>3. ran[p] = CallsOf(i, a) /\ sampled[p] = IF CallsOf(i, a) = 0 THEN {} ELSE {0}
      BY <3>2 DEF IInv, ControlInv, CountInv
    <3>4. i < at.step
      BY <2>2, StepNumbers DEF Ended
    <3>5. CallsOf(i, a) = IF IsRepeat(Steps[i]) THEN Count ELSE 1
      BY <3>4 DEF CallsOf
    <3>6. p \in Repeated <=> IsRepeat(Steps[i])
      BY <3>2, RepeatedPhases
    <3> QED BY <3>3, <3>5, <3>6, StepNumbers
  <2> QED BY <2>1, <2>2 DEF InvocationIsComplete
<1> QED BY <1>1, RowInvariant, PTL
=============================================================================
