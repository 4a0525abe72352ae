----------------------------- MODULE TileMemory -----------------------------
(***************************************************************************)
(* The memory of an IPU21 tile and the map a package build keeps of it     *)
(* (memory.rs).  A map is the set of its free ranges <<start, end>>; a     *)
(* request is [bytes, align, bounds, endAlign, guard] and an allocation    *)
(* <<start, end, reservedEnd>>.                                            *)
(***************************************************************************)
EXTENDS Integers, FiniteSets, SequencesExt

MemoryBase == \h4C000
MemoryLimit == MemoryBase + 624 * 1024
ElementBytes == \h4000
ExecutableLimit == \h80000
LoadBase == MemoryBase + 16
LoadLimit == LoadBase + 643 * 992
SupportStart == LoadBase + 8
ExchangeWindow == <<\h50000, \h58000>>
StateBase == \h58000
DataBase == StateBase + 224 + 6 * 256
ExecutableStart == \h5C000
FetchLookahead == 64

RoundUp(v, a) == ((v + a - 1) \div a) * a
RoundDown(v, a) == (v \div a) * a
Larger(a, b) == IF a > b THEN a ELSE b
Smaller(a, b) == IF a < b THEN a ELSE b

Meets(r, s) == r[1] < s[2] /\ s[1] < r[2]
Within(r, s) == s[1] <= r[1] /\ r[2] <= s[2]
Nonempty(rs) == {r \in rs : r[1] < r[2]}
Bytes(r) == r[2] - r[1]

WholeMemory == {<<MemoryBase, MemoryLimit>>}

FreeWithin(free, bounds) ==
    Nonempty({<<Larger(r[1], bounds[1]), Smaller(r[2], bounds[2])>> : r \in free})

CanReserve(free, r) == r[1] < r[2] /\ \E f \in free : Within(r, f)
Reserve(free, r) ==
    UNION {IF Within(r, f) THEN Nonempty({<<f[1], r[1]>>, <<r[2], f[2]>>}) ELSE {f} : f \in free}

\* Reserving ranges one after the other succeeds when each is free and no two
\* of them meet.
CanReserveAll(free, rs) ==
    /\ \A r \in rs : CanReserve(free, r)
    /\ \A r, s \in rs : r # s => ~Meets(r, s)
ReserveAll(free, rs) == FoldSet(LAMBDA r, rest : Reserve(rest, r), free, rs)

Starting(f, q) == RoundUp(Larger(f[1], q.bounds[1]), q.align)
AllocationAt(start, q) ==
    <<start, start + q.bytes, RoundUp(start + q.bytes + q.guard, q.endAlign)>>
AllocationIn(f, q) == AllocationAt(Starting(f, q), q)
Accommodating(free, q) ==
    {f \in free : AllocationIn(f, q)[3] <= Smaller(f[2], q.bounds[2])}
Lowest(rs) == CHOOSE r \in rs : \A s \in rs : r[1] <= s[1]
CanAllocate(free, q) == q.bytes > 0 /\ Accommodating(free, q) # {}
\* First fit.
Allocation(free, q) == AllocationIn(Lowest(Accommodating(free, q)), q)
Take(free, a) == Reserve(free, <<a[1], a[3]>>)

\* The first aligned free address, for a caller that does not know the size yet.
NextFreeIn(free, bounds, align) ==
    {a \in {RoundUp(r[1], align) : r \in FreeWithin(free, bounds)} :
        \E r \in FreeWithin(free, bounds) : r[1] <= a /\ a < r[2]}
NextFree(free, bounds, align) ==
    CHOOSE a \in NextFreeIn(free, bounds, align) :
        \A b \in NextFreeIn(free, bounds, align) : a <= b

\* Ranges that meet or touch, joined.
Opens(rs, a) == \A s \in rs : ~(s[1] < a /\ a <= s[2])
Closes(rs, b) == \A s \in rs : ~(s[1] <= b /\ b < s[2])
MergedRanges(rs) ==
    {<<a, b>> \in {r[1] : r \in rs} \X {r[2] : r \in rs} :
        /\ a < b /\ Opens(rs, a) /\ Closes(rs, b)
        /\ \A s \in rs : s[2] > a /\ s[2] < b => ~Closes(rs, s[2])}

\* The whole memory elements a range touches.
ElementsOf(r) == <<RoundDown(r[1], ElementBytes), RoundUp(r[2], ElementBytes)>>
=============================================================================
