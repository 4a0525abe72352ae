----------------------------- MODULE Placement -----------------------------
(***************************************************************************)
(* The placement of a tile's shards in its SRAM (place/mod.rs) and the     *)
(* address search behind it (place/search.rs), followed by two runs of the *)
(* placed program, which say what the addresses are for: an operand still  *)
(* holds its value when it is read.                                        *)
(*                                                                         *)
(* Addresses and sizes count words, the smallest alignment of the code.    *)
(* A program is a flat list of work: a Repeat is a "begin" and an "end"    *)
(* around its body, so the position of an entry is the event touch_work()  *)
(* numbers it with, and Forever is u32::MAX, after every event.            *)
(***************************************************************************)
EXTENDS Integers, Sequences, FiniteSets, SequencesExt, FiniteSetsExt

CONSTANTS
  Programs,          \* the low-level programs of a tile, with the ranges they may use
  HostScratch,       \* HOST_SCRATCH_RANGE
  InterleavedBase,   \* IPU21_INTERLEAVED_MEMORY_BASE
  Element,           \* TILE_MEMORY_ELEMENT_SIZE
  InterleavedElement,\* IPU21_INTERLEAVED_ELEMENT_SIZE
  InterleavedOffset, \* where interleaved storage may begin in region 1
  Iterations         \* how often a Repeat runs its body

VARIABLES
  prog,      \* the program
  placing,   \* how far the placement is
  requests,  \* the allocation requests, in the order they are served
  served,    \* how many of them are
  arena,     \* Arena: what is free, active, recorded
  domains,   \* the search: the starts left to each request
  addresses, \* shard_addresses: shard -> address
  strides,   \* sequence_strides: iterated argument -> stride
  memory,    \* the run: address -> the root whose bytes are there, 0 for none
  pc,        \* the run: the event that runs next
  round      \* the run: invocation and iteration

placementVars ==
  <<prog, placing, requests, served, arena, domains, addresses, strides, memory, pc, round>>

Nowhere == 0    \* no root's bytes
Host == -1      \* the bytes of a host packet

Shards(p) == 1..Len(p.shards)
Forever(p) == Len(p.work) + 1
AlignUp(value, alignment) == ((value + alignment - 1) \div alignment) * alignment
AlignDown(value, alignment) == (value \div alignment) * alignment
\* What f says, and g where f says nothing.
Over(f, g) == [x \in DOMAIN f \cup DOMAIN g |-> IF x \in DOMAIN f THEN f[x] ELSE g[x]]
Least(S) == IF S = {} THEN 0 ELSE Min(S)
Most(S) == IF S = {} THEN 0 ELSE Max(S)

-----------------------------------------------------------------------------
(* Alias groups: DisjointSets, every path compressed.                      *)

Singletons(p) ==
  [ok |-> TRUE, root |-> [s \in Shards(p) |-> s], offset |-> [s \in Shards(p) |-> 0]]

\* Require address(left) = address(right) + displacement.
UnionOffset(sets, left, right, displacement) ==
  LET a == sets.root[left]
      b == sets.root[right]
      delta == (sets.offset[right] + displacement) - sets.offset[left]
  IN IF a = b
     THEN [sets EXCEPT !.ok = @ /\ delta = 0]
     ELSE [sets EXCEPT
            !.root = [s \in DOMAIN @ |-> IF @[s] = b THEN a ELSE @[s]],
            !.offset = [s \in DOMAIN @ |-> IF sets.root[s] = b THEN @[s] - delta ELSE @[s]]]

Tie(left, right, displacement) == [left |-> left, right |-> right, displacement |-> displacement]

\* A shard that is no alias is tied to itself, which changes nothing.
AliasTies(p) ==
  [s \in Shards(p) |-> IF p.shards[s].of = 0 THEN Tie(s, s, 0)
                       ELSE Tie(s, p.shards[s].of, p.shards[s].shift)]

\* collect_repeat_constraints(): the ties of one Repeat.
RepeatTies(repeat) ==
  FlattenSeq([i \in DOMAIN repeat.carried |->
    LET c == repeat.carried[i]
    IN <<Tie(c.initial, c.argument, 0), Tie(c.initial, c.yielded, 0), Tie(c.initial, c.result, 0)>>])
  \o [i \in DOMAIN repeat.invariants |->
        Tie(repeat.invariants[i].input, repeat.invariants[i].argument, 0)]
  \o [i \in DOMAIN repeat.iterated |->
        Tie(repeat.iterated[i].inputs[1], repeat.iterated[i].argument, 0)]

\* The iterated sequences: <<repeat, position>>.
Iterated(p) == UNION {{<<r, i>> : i \in DOMAIN p.repeats[r].iterated} : r \in DOMAIN p.repeats}
Group(p, g) == p.repeats[g[1]].iterated[g[2]]

AliasSets(p) ==
  FoldLeft(LAMBDA sets, tie : UnionOffset(sets, tie.left, tie.right, tie.displacement),
           Singletons(p),
           AliasTies(p) \o FlattenSeq([r \in DOMAIN p.repeats |-> RepeatTies(p.repeats[r])]))

-----------------------------------------------------------------------------
(* What the allocations must satisfy: lifetimes, accesses, conflicts.      *)

BoundShards(repeat) ==
  (UNION {{c.initial, c.argument, c.yielded, c.result} : c \in ToSet(repeat.carried)})
  \cup (UNION {{i.input, i.argument} : i \in ToSet(repeat.invariants)})
  \cup (UNION {ToSet(i.inputs) \cup {i.argument} : i \in ToSet(repeat.iterated)})

\* touch_work(): the shards an entry touches at its own event.
Touched(p, event) ==
  LET work == p.work[event]
  IN IF work.op = "work" THEN work.reads \cup work.writes ELSE BoundShards(p.repeats[work.repeat])

Events(p, shard) ==
  LET events == {e \in DOMAIN p.work : shard \in Touched(p, e)}
                \cup {0 : i \in {i \in p.inputs : i.shard = shard}}
                \cup {Forever(p) : i \in {i \in p.inputs : i.shard = shard /\ i.parameter}}
                \cup {Forever(p) : o \in {o \in p.outputs : o = shard}}
  IN IF events = {} THEN {0} ELSE events

Members(sets, root) == {s \in DOMAIN sets.root : sets.root[s] = root}
Roots(sets) == Range(sets.root)

Lifetime(p, sets, roots) ==
  LET events == UNION {Events(p, s) : s \in UNION {Members(sets, root) : root \in roots}}
  IN [first |-> Min(events), last |-> Max(events)]

Needs(p) == UNION {p.work[e].needs : e \in DOMAIN p.work}
Pairs(p) == UNION {p.work[e].apart : e \in DOMAIN p.work}

RootAlignment(p, sets, root) ==
  Most({n.alignment : n \in {n \in Needs(p) : sets.root[n.shard] = root}} \cup {1})

RootTail(p, sets, root) ==
  Most({n.tail : n \in {n \in Needs(p) : sets.root[n.shard] = root}})

MemberOffset(sets, shard) ==
  sets.offset[shard] - Min({sets.offset[s] : s \in Members(sets, sets.root[shard])})

Conflicts(p, sets, root) ==
  {sets.root[pair[2]] : pair \in {q \in Pairs(p) : sets.root[q[1]] = root}}
  \cup {sets.root[pair[1]] : pair \in {q \in Pairs(p) : sets.root[q[2]] = root}}

\* The refusals of analyze_allocations() and allocation_requests().
Placeable(p, sets) ==
  /\ sets.ok
  /\ \A n \in Needs(p) : MemberOffset(sets, n.shard) % n.alignment = 0
  /\ \A s \in Shards(p) : p.shards[s].class = p.shards[sets.root[s]].class
  /\ \A pair \in Pairs(p) : sets.root[pair[1]] # sets.root[pair[2]]
  /\ \A g, h \in Iterated(p) : \A i \in DOMAIN Group(p, g).inputs, j \in DOMAIN Group(p, h).inputs :
       sets.root[Group(p, g).inputs[i]] = sets.root[Group(p, h).inputs[j]] => g = h /\ i = j

AllocationBytes(p, sets, root) ==
  Max({MemberOffset(sets, s) + p.shards[s].size : s \in Members(sets, root)})
    + RootTail(p, sets, root)

ElementOf(class) == IF class = "interleaved" THEN InterleavedElement ELSE Element

-----------------------------------------------------------------------------
(* The requests.  `place` is where one stands before they are sorted.      *)

\* Members of a sequence that are operands at the same time are kept apart.
SeparateMembers(p, sets, roots) == \E root \in roots : Conflicts(p, sets, root) \cap roots # {}

\* A bug: the stride of region 0 is taken for region 1 as well.
StrideOfRegion0(separate, stride) == 0

\* In region 1 separate members are whole interleaved elements apart; 0 for no change.
Region1Stride(separate, stride) == IF separate THEN AlignUp(stride, InterleavedElement) ELSE 0

SequenceRequest(p, sets, g) ==
  LET inputs == Group(p, g).inputs
      roots == [i \in DOMAIN inputs |-> sets.root[inputs[i]]]
      separate == SeparateMembers(p, sets, ToSet(roots))
      alignment == Max({IF separate
                          THEN Max({RootAlignment(p, sets, root), ElementOf(p.shards[root].class)})
                          ELSE RootAlignment(p, sets, root) : root \in ToSet(roots)})
      stride == AlignUp(Max({AllocationBytes(p, sets, root) : root \in ToSet(roots)}), alignment)
  IN [place |-> <<0, g[1], g[2]>>, auxiliary |-> 0, class |-> p.shards[inputs[1]].class,
      region1Stride |-> Region1Stride(separate, stride),
      conflicts |-> (UNION {Conflicts(p, sets, root) : root \in ToSet(roots)}) \ ToSet(roots),
      lifetime |-> Lifetime(p, sets, ToSet(roots)),
      bytes |-> stride * Len(roots), alignment |-> alignment,
      assignments |-> [i \in DOMAIN roots |-> [root |-> roots[i], offset |-> stride * (i - 1)]]]

RootRequest(p, sets, root) ==
  [place |-> <<1, root, 0>>, auxiliary |-> 0, class |-> p.shards[root].class, region1Stride |-> 0,
   conflicts |-> Conflicts(p, sets, root), lifetime |-> Lifetime(p, sets, {root}),
   bytes |-> AllocationBytes(p, sets, root), alignment |-> RootAlignment(p, sets, root),
   assignments |-> <<[root |-> root, offset |-> 0]>>]

AuxiliaryRequest(p, index) ==
  [place |-> <<2, index, 0>>, auxiliary |-> index, class |-> "standard", region1Stride |-> 0,
   conflicts |-> {}, lifetime |-> [first |-> p.auxiliary[index].first, last |-> p.auxiliary[index].last],
   bytes |-> p.auxiliary[index].bytes, alignment |-> p.auxiliary[index].alignment,
   assignments |-> <<>>]

RootsOf(q) == {x.root : x \in ToSet(q.assignments)}

AllocationRequests(p, sets) ==
  LET sequences == {SequenceRequest(p, sets, g) : g \in Iterated(p)}
      grouped == UNION {RootsOf(q) : q \in sequences}
  IN sequences \cup {RootRequest(p, sets, root) : root \in Roots(sets) \ grouped}
     \cup {AuxiliaryRequest(p, i) : i \in DOMAIN p.auxiliary}

Before(left, right) ==
  \E k \in DOMAIN left : left[k] < right[k] /\ \A i \in 1..(k - 1) : left[i] = right[i]

ClassRank(q) == IF q.class = "interleaved" THEN 0 ELSE 1

OnlineKey(q) ==
  <<q.lifetime.first, ClassRank(q), -q.alignment, -q.bytes, q.lifetime.last,
    q.place[1], q.place[2], q.place[3]>>

\* The second sort is stable: it keeps the first order where its own keys are equal.
OfflineKey(q) ==
  <<-q.alignment, -q.bytes, q.lifetime.first - q.lifetime.last, q.lifetime.first,
    ClassRank(q), q.place[1], q.place[2], q.place[3]>>

\* Requests have different keys: the i-th has i - 1 before it.
SortedBy(S, Key(_)) ==
  [i \in 1..Cardinality(S) |->
     CHOOSE q \in S : Cardinality({r \in S : Before(Key(r), Key(q))}) = i - 1]

-----------------------------------------------------------------------------
(* The arena.  Ranges are pairs <<start, end>>, kept in sets.              *)

\* merge_ranges(): the union of ranges as ranges that do not touch.
MergeRanges(S) ==
  LET starts == {r[1] : r \in {r \in S : \A q \in S : ~(q[1] < r[1] /\ r[1] <= q[2])}}
      ends == {r[2] : r \in {r \in S : \A q \in S : ~(q[1] <= r[2] /\ r[2] < q[2])}}
  IN {<<start, Min({end \in ends : start <= end})>> : start \in starts}

\* uncovered_ranges(): what merged ranges leave of start..end.
Uncovered(start, end, merged) ==
  LET from == {start} \cup {r[2] : r \in {r \in merged : start <= r[2] /\ r[2] <= end}}
      to == {end} \cup {r[1] : r \in {r \in merged : start <= r[1] /\ r[1] <= end}}
  IN {r \in from \X to :
        r[1] < r[2] /\ \A q \in merged : q[2] <= r[1] \/ r[2] <= q[1]}

\* element_spans(): the whole physical elements a span touches.
ElementSpans(start, end) ==
  LET region0 == <<start, Min({end, InterleavedBase})>>
      region1 == <<Max({start, InterleavedBase}), end>>
  IN {<<AlignDown(r[1], Element), AlignUp(r[2], Element)>> : r \in {q \in {region0} : q[1] < q[2]}}
     \cup {<<AlignDown(r[1], InterleavedElement), AlignUp(r[2], InterleavedElement)>> :
             r \in {q \in {region1} : q[1] < q[2]}}

InHostScratch(range) == HostScratch[1] <= range[1] /\ range[2] <= HostScratch[2]

\* AllocationRequest::domains(): the aligned starts of one region of a range.
Domain(p, q, range, region1) ==
  LET base == IF region1
                THEN Max({range[1], InterleavedBase
                                    + IF q.class = "interleaved" THEN InterleavedOffset ELSE 0})
                ELSE range[1]
      limit == IF region1 THEN range[2] ELSE Min({range[2], InterleavedBase})
      alignment == Max({q.alignment,
                        IF q.region1Stride = 0 THEN 1
                        ELSE IF region1 THEN InterleavedElement ELSE Element})
      bytes == IF region1 /\ q.region1Stride # 0
                 THEN q.region1Stride * Len(q.assignments) ELSE q.bytes
      excluded == \/ InHostScratch(range) /\ (q.lifetime.first = 0 \/ q.lifetime.last = Forever(p))
                  \/ ~region1 /\ q.class = "interleaved"
                  \/ limit < bytes
  IN [first |-> AlignUp(base, alignment),
      last |-> IF excluded THEN -1 ELSE AlignDown(limit - bytes, alignment),
      alignment |-> alignment, bytes |-> bytes]

Domains(p, q, ranges) ==
  {d \in {[range |-> r, domain |-> Domain(p, q, r, region1)] : r \in ranges, region1 \in BOOLEAN} :
     d.domain.first <= d.domain.last}

RangesOf(p) == {r \in p.ranges : p.finite => r # HostScratch}

NewArena(p, offline) ==
  [offline |-> offline, history |-> {}, spans |-> <<>>, auxiliary |-> <<>>,
   free |-> RangesOf(p), active |-> {}, occupied |-> {}]

\* A bug: an allocation is released when a request arrives at its last event.
DeadAtLast(a, q) == {x \in a.active : x.last <= q.lifetime.first}

Dead(a, q) == {x \in a.active : x.last < q.lifetime.first}

\* Frees what no later request can meet, or, offline, what no recorded one does.
Release(p, a, q) ==
  IF a.offline
  THEN LET meets == {<<h.start, h.end>> :
                       h \in {h \in a.history : /\ h.lifetime.first <= q.lifetime.last
                                                /\ q.lifetime.first <= h.lifetime.last}}
       IN [a EXCEPT !.active = {},
             !.free = UNION {Uncovered(r[1], r[2], MergeRanges(meets)) : r \in RangesOf(p)}]
  ELSE LET dead == Dead(a, q)
       IN IF dead = {} THEN a
          ELSE [a EXCEPT !.active = @ \ dead,
                  !.free = MergeRanges(@ \cup {<<x.start, x.end>> : x \in dead})]

\* The elements of the roots a request must not share one with.
Forbidden(a, q) ==
  MergeRanges(UNION {ElementSpans(a.spans[root][1], a.spans[root][2]) :
                       root \in q.conflicts \cap DOMAIN a.spans})

\* The loop over the forbidden ranges, which ascend, ends at the first start that meets none.
StartsClear(d, forbidden) ==
  {start \in d.first..d.last :
     /\ (start - d.first) % d.alignment = 0
     /\ \A f \in forbidden : start >= f[2] \/ f[1] >= start + d.bytes}

Candidates(p, a, q) ==
  {[range |-> d.range, start |-> Min(StartsClear(d.domain, Forbidden(a, q))),
    bytes |-> d.domain.bytes] :
     d \in {d \in Domains(p, q, a.free) : StartsClear(d.domain, Forbidden(a, q)) # {}}}

CandidateKey(c) == <<IF c.start >= InterleavedBase THEN 1 ELSE 0, c.start, c.range[1], c.range[2]>>

Record(a, q, start, end) ==
  [a EXCEPT
    !.auxiliary = IF q.auxiliary = 0 THEN @ ELSE Over([i \in {q.auxiliary} |-> start], @),
    !.spans = Over([root \in RootsOf(q) |-> <<start, end>>], @),
    !.active = @ \cup {[last |-> q.lifetime.last, start |-> start, end |-> end]},
    !.occupied = @ \cup {<<start, end>>},
    !.history = IF a.offline
                THEN @ \cup {[lifetime |-> q.lifetime, start |-> start, end |-> end]} ELSE @]

\* Takes start..end out of the free range it lies in.
Take(a, c) ==
  [a EXCEPT !.free = (@ \ {c.range})
     \cup {r \in {<<c.range[1], c.start>>, <<c.start + c.bytes, c.range[2]>>} : r[1] < r[2]}]

\* assign_request() and assign_members().
Assigned(p, q, base) ==
  LET sets == AliasSets(p)
      offset(i) == IF base >= InterleavedBase /\ q.region1Stride # 0
                     THEN q.region1Stride * (i - 1) ELSE q.assignments[i].offset
  IN [s \in UNION {Members(sets, root) : root \in RootsOf(q)} |->
        LET i == CHOOSE i \in DOMAIN q.assignments : q.assignments[i].root = sets.root[s]
        IN base + offset(i) + MemberOffset(sets, s)]

UnusedRanges(p, a) ==
  UNION {Uncovered(r[1], r[2], MergeRanges(a.occupied)) : r \in RangesOf(p) \ {HostScratch}}

-----------------------------------------------------------------------------
(* The address search.                                                     *)

\* Domain::without(): the starts from which bytes miss [start, end).
Without(d, start, end) ==
  {x \in {[d EXCEPT !.last = Min({@, AlignDown(start - d.bytes, d.alignment)})],
          [d EXCEPT !.first = Max({@, AlignUp(end, d.alignment)})]} :
     x.first <= x.last /\ 0 <= x.last}

\* Domain::starts(): the edges of a domain and what aligns to element boundaries.
Starts(d) ==
  LET element == IF d.first >= InterleavedBase THEN InterleavedElement ELSE Element
      boundaries == {k * element : k \in (AlignUp(d.first, element) \div element)
                                           ..((d.last + d.bytes) \div element)}
  IN {s \in {d.first, d.last}
            \cup {AlignUp(b, d.alignment) : b \in boundaries}
            \cup {AlignDown(b - d.bytes, d.alignment) : b \in {c \in boundaries : c >= d.bytes}} :
        d.first <= s /\ s <= d.last}

SearchDomains(p, qs) ==
  [i \in DOMAIN qs |-> {d.domain : d \in Domains(p, qs[i], RangesOf(p))}]

LiveTogether(q, r) == q.lifetime.first <= r.lifetime.last /\ r.lifetime.first <= q.lifetime.last

KeptApart(q, r) ==
  RootsOf(r) \cap q.conflicts # {} \/ RootsOf(q) \cap r.conflicts # {}

\* The bytes alive at once, at least.
Peak(p, qs) ==
  LET least == [i \in DOMAIN qs |-> Least({d.bytes : d \in SearchDomains(p, qs)[i]})]
      live(e) == {i \in DOMAIN qs : qs[i].lifetime.first <= e /\ e <= qs[i].lifetime.last}
  IN Max({MapThenSumSet(LAMBDA i : least[i], live(qs[j].lifetime.first)) : j \in DOMAIN qs})

Capacity(p) == MapThenSumSet(LAMBDA r : r[2] - r[1], RangesOf(p))

\* The request that is branched on: the one with the least freedom for its size.
BranchKey(p, qs, left, i) ==
  <<IF left[i] = {} THEN 0 ELSE 1,
    IF qs[i].lifetime.last = Forever(p) THEN 0 ELSE 1,
    (MapThenSumSet(LAMBDA d : (d.last - d.first) \div d.alignment + 1, left[i])
       * qs[i].alignment) \div Max({1, qs[i].bytes}),
    -Cardinality({j \in DOMAIN qs : j # i /\ KeptApart(qs[i], qs[j])}), -qs[i].bytes, i>>

\* What placing request i at start leaves to request j.  A span lies in one region, so
\* that it has one span of elements, or none where it is empty.
Propagated(qs, left, i, start, end, j) ==
  LET excluded == IF KeptApart(qs[i], qs[j]) THEN ElementSpans(start, end)
                  ELSE IF LiveTogether(qs[i], qs[j]) THEN {<<start, end>>} ELSE {}
  IN IF excluded = {} THEN left[j]
     ELSE UNION {Without(d, e[1], e[2]) : d \in left[j], e \in excluded}

-----------------------------------------------------------------------------
(* What a shard names, and what is assumed of the memory and the programs. *)

\* An iterated argument names one input after another, any other shard itself.
NamedIn(p, shard, iteration) ==
  LET groups == {g \in Iterated(p) : Group(p, g).argument = shard}
  IN IF groups = {} THEN shard
     ELSE Group(p, CHOOSE g \in groups : TRUE).inputs[iteration + 1]

\* The alignments in use: align_up() takes powers of two only, so that of any two one
\* is a multiple of the other.
Alignments(p) ==
  {n.alignment : n \in Needs(p)} \cup {p.auxiliary[i].alignment : i \in DOMAIN p.auxiliary}
    \cup {1, Element, InterleavedElement}

ASSUME MemoryAssumption ==
  /\ Element \in Nat \ {0} /\ InterleavedElement \in Nat \ {0} /\ Iterations \in Nat \ {0}
  /\ InterleavedBase \in Nat /\ InterleavedOffset \in Nat /\ HostScratch \in Nat \X Nat

NeedsOf(p) == [shard : Shards(p), alignment : Nat \ {0}, tail : Nat]

WorkOf(p) ==
  [op : {"work"}, reads : SUBSET Shards(p), writes : SUBSET Shards(p),
   apart : SUBSET (Shards(p) \X Shards(p)), needs : SUBSET NeedsOf(p)]
  \cup [op : {"begin", "end"}, repeat : DOMAIN p.repeats, apart : {{}}, needs : {{}}]

RepeatsOf(p) ==
  [carried : Seq([initial : Shards(p), argument : Shards(p), yielded : Shards(p),
                  result : Shards(p)]),
   invariants : Seq([input : Shards(p), argument : Shards(p)]),
   iterated : Seq([inputs : Seq(Shards(p)), argument : Shards(p)])]

\* Ranges do not touch, the runtime's own memory lies between them (support and the
\* aperture, which is a range itself or in none); a sequence has an input for each
\* iteration; a Repeat that ends has begun; auxiliary storage is asked for from the start
\* to readback.
WellFormed(p) ==
  /\ IsFiniteSet(p.ranges) /\ p.ranges \subseteq Nat \X Nat /\ p.finite \in BOOLEAN
  /\ \A r \in p.ranges : r[1] < r[2]
  /\ \A r, s \in p.ranges : r # s => r[2] < s[1] \/ s[2] < r[1]
  /\ \A r \in p.ranges : r = HostScratch \/ r[2] <= HostScratch[1] \/ HostScratch[2] <= r[1]
  /\ p.shards \in Seq([size : Nat, class : {"standard", "interleaved"},
                       of : 0..Len(p.shards), shift : Int])
  /\ p.repeats \in Seq(RepeatsOf(p)) /\ p.work \in Seq(WorkOf(p))
  /\ \A e \in DOMAIN p.work : IsFiniteSet(p.work[e].needs)
  /\ \A e \in DOMAIN p.work : p.work[e].op = "end" =>
       \E b \in DOMAIN p.work : p.work[b].op = "begin" /\ p.work[b].repeat = p.work[e].repeat
  /\ \A g \in Iterated(p) : Len(Group(p, g).inputs) >= Iterations
  /\ \A i \in p.inputs : i.shard \in Shards(p)
  /\ p.auxiliary \in Seq([bytes : Nat, alignment : Nat \ {0}, first : Nat, last : Nat])
  /\ \A i \in DOMAIN p.auxiliary : p.auxiliary[i].first = 0 /\ p.auxiliary[i].last = Forever(p)
  /\ \A a, b \in Alignments(p) : a % b = 0 \/ b % a = 0

ASSUME ProgramsAssumption == \A p \in Programs : WellFormed(p)

\* An argument at the place of any input of its sequence: within what some input takes,
\* tail included, and as aligned as the argument needs.
ArgumentFits(p, sets, group) ==
  \A i \in DOMAIN group.inputs :
    LET offset == MemberOffset(sets, group.inputs[i])
        needs == {n \in Needs(p) : n.shard = group.argument}
    IN /\ \A n \in needs : offset % n.alignment = 0
       /\ \A tail \in {0} \cup {n.tail : n \in needs} : \E m \in DOMAIN group.inputs :
            (offset + p.shards[group.argument].size) + tail
              <= AllocationBytes(p, sets, sets.root[group.inputs[m]])

\* What the first iteration shows of an iterated argument holds in the others, where the
\* code does not look: it fits, and is not the operand it has to be kept apart from.
Uniform(p, sets) ==
  /\ \A g \in Iterated(p) : ArgumentFits(p, sets, Group(p, g))
  /\ \A pair \in Pairs(p), k \in 0..(Iterations - 1) :
       sets.root[NamedIn(p, pair[1], k)] # sets.root[NamedIn(p, pair[2], k)]

ASSUME SequencesAssumption ==
  \A p \in Programs : LET sets == AliasSets(p) IN Placeable(p, sets) => Uniform(p, sets)

-----------------------------------------------------------------------------
(* Placing a tile.                                                         *)

Unplaced == UNCHANGED <<strides, memory, pc, round>>

\* analyze_allocations() and allocation_requests(), which refuse some programs.
Analyze ==
  /\ placing = "analyze"
  /\ LET sets == AliasSets(prog)
     IN IF Placeable(prog, sets)
        THEN /\ placing' = "online"
             /\ requests' = SortedBy(AllocationRequests(prog, sets), OnlineKey)
        ELSE placing' = "refused" /\ UNCHANGED requests
  /\ UNCHANGED <<prog, served, arena, domains, addresses>> /\ Unplaced

\* Arena::allocate() for the next request, where it fits.
Allocate ==
  /\ placing \in {"online", "offline"} /\ served < Len(requests)
  /\ LET q == requests[served + 1]
         a == Release(prog, arena, q)
         fits == Candidates(prog, a, q)
     IN \E c \in fits :
          /\ \A d \in fits : ~Before(CandidateKey(d), CandidateKey(c))
          /\ arena' = Record(Take(a, c), q, c.start, c.start + c.bytes)
          /\ addresses' = Over(Assigned(prog, q, c.start), addresses)
  /\ served' = served + 1
  /\ UNCHANGED <<prog, placing, requests, domains>> /\ Unplaced

DoesNotFit ==
  /\ served < Len(requests)
  /\ LET q == requests[served + 1] IN Candidates(prog, Release(prog, arena, q), q) = {}

\* The lifetime order failed: from the start again, in order of size.
GoOffline ==
  /\ placing = "online" /\ DoesNotFit
  /\ placing' = "offline" /\ served' = 0 /\ addresses' = <<>>
  /\ arena' = NewArena(prog, TRUE) /\ requests' = SortedBy(Range(requests), OfflineKey)
  /\ UNCHANGED <<prog, domains>> /\ Unplaced

\* The size order failed as well: search::place(), unless the peak cannot fit.
BeginSearch ==
  /\ placing = "offline" /\ DoesNotFit
  /\ IF Peak(prog, requests) > Capacity(prog)
     THEN placing' = "overfull" /\ UNCHANGED <<served, addresses, arena, domains>>
     ELSE /\ placing' = "search" /\ served' = 0 /\ addresses' = <<>>
          /\ arena' = NewArena(prog, TRUE)
          /\ domains' = [left |-> SearchDomains(prog, requests),
                         at |-> [i \in DOMAIN requests |-> <<>>]]
  /\ UNCHANGED <<prog, requests>> /\ Unplaced

Waiting == {i \in DOMAIN requests : domains.at[i] = <<>>}

\* Search::visit(): one start of the request that is branched on. The search goes on
\* from every start it tries; a branch it leaves is a behaviour that gives up.
Visit ==
  /\ placing = "search"
  /\ \E i \in Waiting :
       /\ \A j \in Waiting : ~Before(BranchKey(prog, requests, domains.left, j),
                                    BranchKey(prog, requests, domains.left, i))
       /\ \E d \in domains.left[i] : \E start \in Starts(d) :
            LET end == start + d.bytes
                left == [j \in DOMAIN requests |->
                           IF j \in Waiting \ {i}
                           THEN Propagated(requests, domains.left, i, start, end, j)
                           ELSE domains.left[j]]
            IN /\ \A j \in Waiting \ {i} : left[j] # {}
               /\ domains' = [left |-> left, at |-> [domains.at EXCEPT ![i] = <<start, end>>]]
  /\ UNCHANGED <<prog, placing, requests, served, arena, addresses>> /\ Unplaced

\* No start is left, or one of the two budgets is used up.
GiveUp ==
  /\ placing = "search" /\ Waiting # {}
  /\ placing' = "outOfMemory"
  /\ UNCHANGED <<prog, requests, served, arena, domains, addresses>> /\ Unplaced

\* The placement that was found is recorded, request by request.
RecordFound ==
  /\ placing = "search" /\ Waiting = {} /\ served < Len(requests)
  /\ LET q == requests[served + 1]
         at == domains.at[served + 1]
     IN /\ arena' = Record(arena, q, at[1], at[2])
        /\ addresses' = Over(Assigned(prog, q, at[1]), addresses)
  /\ served' = served + 1
  /\ UNCHANGED <<prog, placing, requests, domains>> /\ Unplaced

StrideOf(group) ==
  IF Len(group.inputs) > 1
  THEN addresses[group.inputs[2]] - addresses[group.argument]
  ELSE LET span == arena.spans[AliasSets(prog).root[group.inputs[1]]] IN span[2] - span[1]

\* place_tile(): the sequences become a first address and a stride.
Bind ==
  /\ placing \in {"online", "offline", "search"} /\ served = Len(requests)
  /\ placing = "search" => Waiting = {}
  /\ LET groups == {Group(prog, g) : g \in Iterated(prog)}
         regular(g) == \A i \in DOMAIN g.inputs :
                         addresses[g.inputs[i]] = addresses[g.argument] + StrideOf(g) * (i - 1)
     IN IF \A g \in groups : regular(g)
        THEN /\ placing' = "placed"
             /\ strides' = [s \in {g.argument : g \in groups} |->
                              StrideOf(CHOOSE g \in groups : g.argument = s)]
        ELSE placing' = "irregular" /\ UNCHANGED strides
  /\ UNCHANGED <<prog, requests, served, arena, domains, addresses, memory, pc, round>>

-----------------------------------------------------------------------------
(* The placed program runs: what its addresses are for.                    *)

Advance(shard) == IF shard \in DOMAIN strides THEN strides[shard] * round.iteration ELSE 0

\* The addresses of a shard's bytes in this iteration.
Span(shard) ==
  (addresses[shard] + Advance(shard))
    ..(addresses[shard] + Advance(shard) + prog.shards[shard].size - 1)

\* The root whose value a shard names.
Named(shard) == AliasSets(prog).root[NamedIn(prog, shard, round.iteration)]

Written(m, shards) ==
  [x \in DOMAIN m |->
     IF \E s \in shards : x \in Span(s) THEN Named(CHOOSE s \in shards : x \in Span(s)) ELSE m[x]]

AuxiliarySpan(i) == arena.auxiliary[i]..(arena.auxiliary[i] + prog.auxiliary[i].bytes - 1)
AuxiliaryTag(i) == -2 - i
Descriptors == -2
Spare == UNION {r[1]..(r[2] - 1) : r \in UnusedRanges(prog, arena)}

AddressSpace == 0..(Max({r[2] : r \in prog.ranges}) - 1)

\* Loading puts the descriptors into spare memory and fills the auxiliary storage.
LoadProgram ==
  /\ placing = "placed"
  /\ placing' = "loaded"
  /\ memory' = [x \in AddressSpace |->
                  IF x \in Spare THEN Descriptors
                  ELSE LET mine == {i \in DOMAIN prog.auxiliary : x \in AuxiliarySpan(i)}
                       IN IF mine = {} THEN Nowhere ELSE AuxiliaryTag(CHOOSE i \in mine : TRUE)]
  /\ round' = [run |-> 0, iteration |-> 0]
  /\ UNCHANGED <<prog, requests, served, arena, domains, addresses, strides, pc>>

\* A host exchange passes through the aperture and leaves inputs, parameters once.
Upload ==
  /\ placing = "loaded" \/ (placing = "done" /\ round.run = 1)
  /\ placing' = "running" /\ pc' = 1
  /\ round' = [round EXCEPT !.run = @ + 1]
  /\ LET aperture == [x \in AddressSpace |->
                        IF HostScratch[1] <= x /\ x < HostScratch[2] THEN Host ELSE memory[x]]
         inputs == {i.shard : i \in {i \in prog.inputs : i.parameter => round.run = 0}}
     IN memory' = Written(aperture, inputs)
  /\ UNCHANGED <<prog, requests, served, arena, domains, addresses, strides>>

Running == placing = "running" /\ pc < Forever(prog)

\* A kernel, a copy or the tile's part of an exchange.
Execute ==
  /\ Running /\ prog.work[pc].op = "work"
  /\ memory' = Written(memory, prog.work[pc].writes)
  /\ pc' = pc + 1
  /\ UNCHANGED <<prog, placing, requests, served, arena, domains, addresses, strides, round>>

\* A Repeat begins, begins again or is left.
Repeat ==
  /\ Running /\ prog.work[pc].op # "work"
  /\ LET again == prog.work[pc].op = "end" /\ round.iteration + 1 < Iterations
         begin == CHOOSE e \in DOMAIN prog.work :
                    prog.work[e].op = "begin" /\ prog.work[e].repeat = prog.work[pc].repeat
     IN /\ round' = [round EXCEPT !.iteration = IF again THEN @ + 1 ELSE 0]
        /\ pc' = IF again THEN begin + 1 ELSE pc + 1
  /\ UNCHANGED <<prog, placing, requests, served, arena, domains, addresses, strides, memory>>

\* The outputs are read: the host's packets pass through the aperture again.
Download ==
  /\ placing = "running" /\ pc = Forever(prog)
  /\ placing' = "done"
  /\ memory' = [x \in AddressSpace |->
                  IF HostScratch[1] <= x /\ x < HostScratch[2] THEN Host ELSE memory[x]]
  /\ UNCHANGED <<prog, requests, served, arena, domains, addresses, strides, pc, round>>

Ended == placing \in {"refused", "overfull", "outOfMemory", "irregular"}
                  \/ (placing = "done" /\ round.run = 2)

PlacementInit ==
  /\ prog \in Programs
  /\ placing = "analyze" /\ requests = <<>> /\ served = 0
  /\ arena = NewArena(prog, FALSE) /\ domains = <<>> /\ addresses = <<>>
  /\ strides = <<>> /\ memory = <<>> /\ pc = 0 /\ round = [run |-> 0, iteration |-> 0]

PlacementNext ==
  \/ Analyze \/ Allocate \/ GoOffline \/ BeginSearch \/ Visit \/ GiveUp \/ RecordFound \/ Bind
  \/ LoadProgram \/ Upload \/ Execute \/ Repeat \/ Download
  \/ Ended /\ UNCHANGED placementVars

-----------------------------------------------------------------------------
(* Properties.                                                             *)

HoldsIn(m, shard) == \A x \in Span(shard) : m[x] = Named(shard)

\* An operation may write before it has read everything.
OperandsHold ==
  Running /\ prog.work[pc].op = "work"
    => \A s \in prog.work[pc].reads :
         HoldsIn(memory, s) /\ HoldsIn(Written(memory, prog.work[pc].writes), s)

OutputsHold == placing = "done" => \A s \in prog.outputs : HoldsIn(memory, s)

SpareHolds ==
  placing \in {"loaded", "running", "done"}
    => /\ \A x \in Spare : memory[x] = Descriptors
       /\ \A i \in DOMAIN prog.auxiliary : \A x \in AuxiliarySpan(i) : memory[x] = AuxiliaryTag(i)

\* What is read is what was written: every operand holds its value when an operation
\* reads it, in each iteration of a Repeat and again in the next invocation, which
\* uploads no parameter; outputs do after the host's packets have passed the aperture;
\* the spare ranges keep the descriptors and the profiler its samples.  The lifetimes,
\* the reuse of released ranges, the aperture and the three ways of placing serve this.
ValuesSurvive == OperandsHold /\ OutputsHold /\ SpareHolds

Elements(shard) ==
  {IF x < InterleavedBase THEN <<0, x \div Element>> ELSE <<1, x \div InterleavedElement>> :
     x \in Span(shard)}

\* Operands that are accessed at the same time never meet in a physical memory element,
\* and operands are aligned and inside placeable memory, tail included, in whatever
\* iteration: collect_requirements(), the stride of region 1, Forbidden and domains().
AccessesAreLegal ==
  Running /\ prog.work[pc].op = "work"
    => /\ \A pair \in prog.work[pc].apart : Elements(pair[1]) \cap Elements(pair[2]) = {}
       /\ \A n \in prog.work[pc].needs :
            LET address == addresses[n.shard] + Advance(n.shard)
            IN /\ address % n.alignment = 0
               /\ \E r \in RangesOf(prog) :
                    r[1] <= address /\ address + prog.shards[n.shard].size + n.tail <= r[2]
=============================================================================
