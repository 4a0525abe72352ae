------------------------------ MODULE LowPasses ------------------------------
(***************************************************************************)
(* The transformations of an expanded tile graph, in the order passes::run *)
(* applies them, and its projection to one work list per tile.             *)
(*                                                                         *)
(* A graph is a record:                                                    *)
(*   shards   storage values: the tile, the physical and logical number    *)
(*            of elements, the units of an element (2: FP16, 1: FP8), the  *)
(*            element order, the memory class and the definition: storage  *)
(*            of its own, or an alias of another shard at a displacement.  *)
(*   phases, runs, copies, repeats                                         *)
(*            the tables the operations of `body` index.                   *)
(*   inputs, outputs, finite                                               *)
(*            what the host writes, what it reads, and whether scratch     *)
(*            must hold finite numbers before the program starts.          *)
(* A view [shard, lo, hi] selects the elements lo .. hi-1 of a shard.       *)
(* Byte geometry is abstracted to one dimension; a repeat body holds no    *)
(* further repeat.                                                         *)
(***************************************************************************)
EXTENDS Integers, Sequences, SequencesExt, FiniteSetsExt

CONSTANTS
    Expansions,        \* what is expanded: [graph, pool, length], the tables of a
                       \* graph, the operations it may get and how many of them
    ReuseCastInputs,   \* the planner allows casts to donate their input
    CastPrefix         \* the units of a memory element: CAST_PREFIX_BYTES

VARIABLES
    program,           \* the graph
    tiles,             \* its projection, once made
    stage,             \* the pass that runs next
    pool,              \* the operations expansion may still append
    memory,            \* what the appended operations leave in storage
    expected           \* what the graph computed before the first pass

lowVars == <<program, tiles, stage, pool, memory, expected>>

Never == 999   \* usize::MAX: storage the host reads after the program

------------------------------------------------------------------------------
(* Storage. *)

\* storage_chain and resolve_address: where shard s begins, as a backing shard
\* and a displacement; `bound` names what the enclosing repeat put a shard at.
LocateIn(shards, bound) ==
    LET at[s \in 1 .. Len(shards)] ==
            LET d == shards[s].def
            IN  CASE s \in DOMAIN bound -> at[bound[s]]
                  [] d.kind = "own"     -> [root |-> s, off |-> 0]
                  [] OTHER              -> [root |-> at[d.of].root,
                                            off  |-> at[d.of].off + d.off]
    IN  FoldLeft(LAMBDA acc, s : Append(acc, at[s]), <<>>, [s \in 1 .. Len(shards) |-> s])

Locate(shards) == LocateIn(shards, <<>>)

RootOf(shards, s) == Locate(shards)[s].root

Roots(p) == [s \in 1 .. Len(p.shards) |-> RootOf(p.shards, s)]

UnitsOf(shards, s) == shards[s].size * shards[s].width

\* The units a view covers in its backing storage.
ViewCells(shards, at, v) ==
    {<<at[v.shard].root, at[v.shard].off + u>> :
        u \in shards[v.shard].width * v.lo .. (shards[v.shard].width * v.hi) - 1}

\* One side of a byte copy: contiguous when it has one row.
CopyCells(at, s, off, stride, c) ==
    {<<at[s].root, at[s].off + off + (r * stride) + u>> :
        r \in 0 .. c.rows - 1, u \in 0 .. c.units - 1}

SourceCells(at, c) == CopyCells(at, c.src, c.soff, c.sstride, c)
TargetCells(at, c) == CopyCells(at, c.dst, c.doff, c.dstride, c)

Contiguous(c) == c.rows = 1

\* BlockRegion::walk: the operations in structural order, a repeat before its body.
WalkOf(p) ==
    FoldLeft(LAMBDA acc, o : Append(acc, o) \o
                             (IF o.op = "repeat" THEN p.repeats[o.id].body ELSE <<>>),
             <<>>, p.body)

------------------------------------------------------------------------------
(* What a graph computes: symbolic contents of every unit of storage. *)

\* One unit of an element holds <<value, part>>.
Part(width, k) == IF width = 1 THEN 2 ELSE k

Fresh == <<<<"fresh">>, 0>>

Unit(mem, c) == IF c \in DOMAIN mem THEN mem[c] ELSE Fresh

AllHalf(p) == \A s \in 1 .. Len(p.shards) : p.shards[s].width = 2

\* Storage nothing wrote holds finite numbers only if the program asks for it
\* and no FP8 value shares the arena.
Unwritten(p) == IF p.finite /\ AllHalf(p) THEN <<"finite">> ELSE <<"any">>

ElementCells(p, at, s, i) ==
    [k \in 0 .. p.shards[s].width - 1 |->
        <<at[s].root, at[s].off + (p.shards[s].width * i) + k>>]

ReadElement(p, at, mem, s, i) ==
    LET cells == ElementCells(p, at, s, i)
        value == Unit(mem, cells[0])[1]
    IN  CASE \E k \in DOMAIN cells : Unit(mem, cells[k]) = Fresh -> Unwritten(p)
          [] \A k \in DOMAIN cells : Unit(mem, cells[k]) = <<value, Part(p.shards[s].width, k)>>
                -> value
          [] OTHER -> <<"torn">>

\* The contents after view v received the values e(0), e(1), ...
WriteView(p, at, mem, v, e(_)) ==
    LET width == p.shards[v.shard].width
        first == at[v.shard].off + (width * v.lo)
    IN  [c \in ViewCells(p.shards, at, v) |->
            <<e((c[2] - first) \div width), Part(width, (c[2] - first) % width)>>] @@ mem

ReadAt(p, at, mem, v, i) == ReadElement(p, at, mem, v.shard, v.lo + i)

LogicalEnd(p, v) == Min({v.hi, p.shards[v.shard].size, p.shards[v.shard].logical})

\* A product term vanishes when one factor is zero and the other is finite.
Vanishes(a, b) == \/ a = <<"zero">> /\ b # <<"any">>
                  \/ b = <<"zero">> /\ a # <<"any">>

\* The kernels, as far as the passes tell them apart: an elementwise map, a cast
\* that reads only logical elements when it packs rows, a product, a clear.
KernelValue(p, at, mem, r, i) ==
    CASE r.kernel = "map"   -> <<"map", r.name>> \o
                               [j \in 1 .. Len(r.inputs) |-> ReadAt(p, at, mem, r.inputs[j], i)]
      [] r.kernel = "cast"  -> IF r.packs /\ r.inputs[1].lo + i >= LogicalEnd(p, r.inputs[1])
                               THEN <<"zero">>
                               ELSE <<"cast", ReadAt(p, at, mem, r.inputs[1], i)>>
      [] r.kernel = "gemm"  ->
            LET factor(j, k) == ReadAt(p, at, mem, r.inputs[j], k)
            IN  <<"gemm", {<<k, factor(1, k), factor(2, k)>> :
                    k \in {k \in 0 .. (r.inputs[1].hi - r.inputs[1].lo) - 1 :
                              ~Vanishes(factor(1, k), factor(2, k))}}>>
      [] r.kernel = "clear" -> <<"zero">>

RunCopy(p, at, mem, c) ==
    LET from == at[c.src].off + c.soff
        to   == at[c.dst].off + c.doff
        row(u) == IF Contiguous(c) THEN 0 ELSE (u - to) \div c.dstride
    IN  [u \in TargetCells(at, c) |->
            Unit(mem, <<at[c.src].root,
                        from + (row(u[2]) * c.sstride) + (u[2] - to - (row(u[2]) * c.dstride))>>)] @@ mem

\* The transfers of a phase keep the order of the list where they conflict.
RunTransfers(p, at, mem, transfers) ==
    FoldLeft(LAMBDA m, t :
                FoldLeft(LAMBDA n, d :
                            WriteView(p, at, n, d, LAMBDA i : ReadAt(p, at, m, t.source, i)),
                         m, t.destinations),
             mem, transfers)

\* One operation under the bindings of the repeats around it.
RunOperation(p, mem, step) ==
    LET at == LocateIn(p.shards, step.bound)
        o  == step.operation
    IN  CASE o.op = "copy"     -> RunCopy(p, at, mem, p.copies[o.id])
          [] o.op = "exchange" -> RunTransfers(p, at, mem, p.phases[o.id].transfers)
          [] o.op = "compute"  ->
                LET r == p.runs[o.id]
                IN  WriteView(p, at, mem, r.output, LAMBDA i : KernelValue(p, at, mem, r, i))
          [] OTHER             -> mem

\* What iteration k of a repeat binds its arguments to.
BoundAt(repeat, k) ==
    [s \in {x.argument : x \in repeat.invariants \cup repeat.iterated} |->
        LET i == {x \in repeat.invariants : x.argument = s}
        IN  IF i # {} THEN (CHOOSE x \in i : TRUE).input
            ELSE (CHOOSE x \in repeat.iterated : x.argument = s).inputs[k]]

Bind(ops, bound) == [i \in 1 .. Len(ops) |-> [operation |-> ops[i], bound |-> bound]]

\* A region unrolled; `body(id)` is the body of a repeat.
Unroll(p, ops, body(_)) ==
    FoldLeft(LAMBDA acc, o :
                acc \o (IF o.op = "repeat"
                        THEN FoldLeft(LAMBDA b, k : b \o Bind(body(o.id), BoundAt(p.repeats[o.id], k)),
                                      <<>>, [k \in 1 .. p.repeats[o.id].count |-> k])
                        ELSE Bind(<<o>>, <<>>)),
             <<>>, ops)

\* A parameter image has zero padding; of another input only its own bytes are known.
InitialMemory(p) ==
    LET image(s, i) == IF p.inputs[s] = "parameter" /\ i >= p.shards[s].logical
                       THEN <<"zero">> ELSE <<"in", s, i>>
    IN  FoldSet(LAMBDA s, m : WriteView(p, Locate(p.shards), m, [shard |-> s, lo |-> 0, hi |-> p.shards[s].size],
                                        LAMBDA i : image(s, i)),
                <<>>, DOMAIN p.inputs)

OutputsIn(p, mem) ==
    LET at == Locate(p.shards)
    IN  [o \in 1 .. Len(p.outputs) |->
            [i \in 0 .. LogicalEnd(p, p.outputs[o]) - 1 - p.outputs[o].lo |->
                ReadAt(p, at, mem, p.outputs[o], i)]]

MemoryAfter(p, mem, steps) == FoldLeft(LAMBDA m, step : RunOperation(p, m, step), mem, steps)

OutputsOf(p, steps) == OutputsIn(p, MemoryAfter(p, InitialMemory(p), steps))

GraphOutputs(p) == OutputsOf(p, Unroll(p, p.body, LAMBDA id : p.repeats[id].body))

------------------------------------------------------------------------------
(* low/uses.rs: how a graph uses each allocation. *)

\* Every use as [shard, pos, write, other]; other: read by something no kernel.
UseAt(s, pos, write, other) == [shard |-> s, pos |-> pos, write |-> write, other |-> other]

UsesAt(p, o, pos) ==
    CASE o.op = "compute"  ->
            {UseAt(p.runs[o.id].inputs[i].shard, pos, FALSE, FALSE) : i \in 1 .. Len(p.runs[o.id].inputs)}
              \cup {UseAt(p.runs[o.id].output.shard, pos, TRUE, FALSE)}
      [] o.op = "copy"     -> {UseAt(p.copies[o.id].src, pos, FALSE, TRUE),
                               UseAt(p.copies[o.id].dst, pos, TRUE, FALSE)}
      [] o.op = "exchange" ->
            UNION {{UseAt(t.source.shard, pos, FALSE, TRUE)} \cup
                   {UseAt(d.shard, pos, TRUE, FALSE) : d \in Range(t.destinations)} :
                       t \in Range(p.phases[o.id].transfers)}
      [] o.op = "checkpoint" -> {UseAt(s, pos, FALSE, TRUE) : s \in o.id}
      [] OTHER -> {}

BoundShards(repeat) ==
    UNION {{c.initial, c.argument, c.yielded, c.result} : c \in repeat.carried}
      \cup UNION {{x.input, x.argument} : x \in repeat.invariants}
      \cup UNION {{x.argument} \cup Range(x.inputs) : x \in repeat.iterated}

BindingGroups(repeat) ==
    {{c.initial, c.argument, c.yielded, c.result} : c \in repeat.carried}
      \cup {{x.input, x.argument} : x \in repeat.invariants}
      \cup {{x.argument} \cup Range(x.inputs) : x \in repeat.iterated}

\* The roots something may write, through any chain of bindings that share one.
WrittenThrough(groups, written) ==
    LET grow[n \in Nat] ==
            IF n = 0 THEN written
            ELSE grow[n - 1] \cup UNION {g \in groups : g \cap grow[n - 1] # {}}
    IN  grow[Cardinality(groups)]

\* StorageUses::analyze.
StorageUses(p) ==
    LET walk    == WalkOf(p)
        root    == [s \in 1 .. Len(p.shards) |-> RootOf(p.shards, s)]
        roots   == Range(root)
        uses    == {UseAt(s, 0, FALSE, FALSE) : s \in DOMAIN p.inputs}
                     \cup UNION {UsesAt(p, walk[i], i) : i \in 1 .. Len(walk)}
        last    == {UseAt(v.shard, Never, FALSE, TRUE) : v \in Range(p.outputs)}
        loops   == {i \in 1 .. Len(walk) : walk[i].op = "repeat"}
        end(q)  == q + Len(p.repeats[walk[q].id].body)
        bound(r, q) == \E s \in BoundShards(p.repeats[walk[q].id]) : root[s] = r
        at(r, from, to) == {u \in uses : root[u.shard] = r /\ u.pos >= from /\ u.pos <= to}
        kept(r) == \E s \in DOMAIN p.inputs : root[s] = r /\ p.inputs[s] = "parameter"
        crosses(r, q) == \/ bound(r, q)
                         \/ /\ ~kept(r)
                            /\ at(r, q, end(q)) # {}
                            /\ \/ at(r, 0, q - 1) # {}
                               \/ \E o \in loops : o < q /\ bound(r, o)
        groups  == UNION {{{root[s] : s \in g} : g \in BindingGroups(p.repeats[walk[q].id])} : q \in loops}
        mutable == WrittenThrough(groups, {root[u.shard] : u \in {u \in uses : u.write}})
        spots(r) == {u.pos : u \in {u \in uses \cup last : root[u.shard] = r}}
        writes(r) == {u \in uses : u.write /\ root[u.shard] = r}
    IN  [r \in roots |->
          [first     |-> Min(spots(r) \cup {q \in loops : bound(r, q)} \cup {Never}),
           last      |-> IF kept(r) THEN Never
                         ELSE Max(spots(r) \cup {end(q) : q \in {q \in loops : crosses(r, q)}} \cup {0}),
           lastWrite |-> Max({u.pos : u \in writes(r)} \cup {0}),
           writes    |-> Cardinality(writes(r)),
           aliases   |-> Cardinality({s \in DOMAIN root : root[s] = r}),
           boundary  |-> \E q \in loops : crosses(r, q),
           readOnly  |-> r \notin mutable,
           other     |-> (\E u \in uses \cup last : u.other /\ root[u.shard] = r)
                           \/ (\E q \in loops : bound(r, q))]]

------------------------------------------------------------------------------
(* movement::eliminate_copies: a whole-buffer copy becomes an alias. *)

LiveRuns(p) == {o.id : o \in {o \in Range(WalkOf(p)) : o.op = "compute"}}

LiveCopies(p) == {o.id : o \in {o \in Range(WalkOf(p)) : o.op = "copy"}}

OperandsOf(r) == {v.shard : v \in Range(r.inputs) \cup {r.output}}

\* The alignment the kernels and copies that use storage r ask of it.
AlignmentOf(p, r) ==
    Max({p.runs[id].align : id \in {id \in LiveRuns(p) :
             \E s \in OperandsOf(p.runs[id]) : RootOf(p.shards, s) = r}}
        \cup {p.copies[id].align : id \in {id \in LiveCopies(p) :
             \E s \in {p.copies[id].src, p.copies[id].dst} : RootOf(p.shards, s) = r}}
        \cup {1})

\* The pairs of roots a kernel needs in distinct memory elements.
DistinctRoots(p) ==
    {{RootOf(p.shards, s) : s \in p.runs[id].distinct} : id \in LiveRuns(p)} \ {{}}

\* Mutant: a source written after the copy is shared all the same.
ContentsAgreeSoFar(uses, from, to, pos) ==
    uses[to].writes = 1 /\ (uses[from].boundary => uses[from].readOnly) /\ ~uses[to].boundary

\* The two storages hold the same bytes from the copy at pos on.
ContentsAgree(uses, from, to, pos) ==
    /\ uses[to].writes = 1
    /\ uses[from].lastWrite < pos
    /\ uses[from].boundary => uses[from].readOnly
    /\ ~uses[to].boundary

\* Mutant: the pairs the program had before the pass.
DistinctBefore(p, state, to, backing) == {to, backing} \notin DistinctRoots(p)

\* No kernel needs the two in distinct memory elements; earlier eliminations of
\* the pass renamed the roots of the pairs.
NotKeptApart(p, state, to, backing) == {to, backing} \notin state.distinct

\* What the copy at position pos must satisfy; `state` is what the earlier
\* eliminations of this pass left.
Forwardable(p, uses, root, state, c, pos) ==
    LET from == root[c.src]
        to   == root[c.dst]
        back == Locate(state.shards)[c.src]
    IN  /\ Contiguous(c)
        /\ c.doff = 0
        /\ c.units = UnitsOf(p.shards, c.dst)
        /\ c.soff + c.units <= UnitsOf(p.shards, c.src)
        /\ p.shards[c.src].tile = p.shards[c.dst].tile
        /\ p.shards[c.src].class = p.shards[c.dst].class
        /\ from # to
        /\ to = c.dst
        /\ ContentsAgree(uses, from, to, pos)
        /\ NotKeptApart(p, state, to, back.root)
        /\ (back.off + c.soff) % AlignmentOf(p, to) = 0

\* The copy of operation id becomes an alias, and what had to be distinct from
\* its destination must now be distinct from what backs it.
Forward(state, c, id, to, back) ==
    [shards   |-> [state.shards EXCEPT ![c.dst].def = [kind |-> "alias", of |-> c.src, off |-> c.soff]],
     distinct |-> {{IF r = to THEN back ELSE r : r \in pair} : pair \in state.distinct},
     gone     |-> state.gone \cup {id}]

ForwardCopies(p, walk, uses, root) ==
    FoldLeft(LAMBDA state, pos :
                IF walk[pos].op # "copy" THEN state
                ELSE LET c == p.copies[walk[pos].id]
                     IN  IF Forwardable(p, uses, root, state, c, pos)
                         THEN Forward(state, c, walk[pos].id, root[c.dst], RootOf(state.shards, c.src))
                         ELSE state,
             [shards |-> p.shards, distinct |-> DistinctRoots(p), gone |-> {}],
             [pos \in 1 .. Len(walk) |-> pos])

\* BlockRegion::retain, in the body and in every repeat.
Retain(p, keep(_)) ==
    [p EXCEPT !.body = SelectSeq(@, keep),
              !.repeats = [id \in DOMAIN @ |-> [@[id] EXCEPT !.body = SelectSeq(@, keep)]]]

WithoutForwarded(p, done) ==
    Retain([p EXCEPT !.shards = done.shards], LAMBDA o : ~(o.op = "copy" /\ o.id \in done.gone))

EliminateCopies(p) == WithoutForwarded(p, ForwardCopies(p, WalkOf(p), StorageUses(p), Roots(p)))

------------------------------------------------------------------------------
(* movement::group_exchanges and merge_copies. *)

\* copies_commute: moving the copies across the transfers keeps RAW, WAR and WAW.
CopiesCommute(p, between, transfers) ==
    LET at == Locate(p.shards)
        read    == UNION {ViewCells(p.shards, at, t.source) : t \in Range(transfers)}
        written == UNION {UNION {ViewCells(p.shards, at, d) : d \in Range(t.destinations)} :
                             t \in Range(transfers)}
    IN  \A o \in Range(between) :
            /\ SourceCells(at, p.copies[o.id]) \cap written = {}
            /\ TargetCells(at, p.copies[o.id]) \cap (read \cup written) = {}

GroupSkip(g, o)  == [g EXCEPT !.ops = Append(@, o)]
GroupStart(g, o) == [g EXCEPT !.ops = Append(@, o), !.prior = o.id, !.boundary = Len(g.ops) + 1]

\* The transfers join the prior exchange; hoisted copies end up before it.
GroupJoin(g, o, hoist) ==
    [g EXCEPT !.ops = IF hoist THEN SubSeq(@, 1, g.boundary - 1) \o SubSeq(@, g.boundary + 1, Len(@))
                                      \o <<@[g.boundary]>>
                      ELSE @,
              !.boundary = IF hoist THEN Len(g.ops) ELSE @,
              !.phases = [i \in DOMAIN @ |->
                            [@[i] EXCEPT !.transfers = CASE i = g.prior -> @ \o g.phases[o.id].transfers
                                                         [] i = o.id    -> <<>>
                                                         [] OTHER       -> @]]]

\* An exchange joins the previous exchange of the same operation when the copies
\* between them can move after it (sink) or before it (hoist).
GroupVisit(p, g, o, between) ==
    LET Commute(id) == CopiesCommute(p, between, g.phases[id].transfers)
    IN  CASE o.op \in {"repeat", "compute", "checkpoint"} -> GroupSkip([g EXCEPT !.prior = 0], o)
          [] o.op = "copy" -> GroupSkip(g, o)
          [] o.op = "exchange" ->
                IF g.prior = 0 THEN GroupStart(g, o)
                ELSE IF \/ g.phases[g.prior].operation = 0
                        \/ g.phases[g.prior].operation # g.phases[o.id].operation
                     THEN GroupStart(g, o)
                     ELSE IF Commute(o.id) THEN GroupJoin(g, o, FALSE)
                     ELSE IF Commute(g.prior) THEN GroupJoin(g, o, TRUE)
                     ELSE GroupStart(g, o)

\* One region, and with it the table of phases.
GroupRegion(p, phases, ops) ==
    FoldLeft(LAMBDA g, o : GroupVisit(p, g, o, SubSeq(g.ops, g.boundary + 1, Len(g.ops))),
             [ops |-> <<>>, phases |-> phases, prior |-> 0, boundary |-> 0], ops)

GroupBody(p, id, g) == [p EXCEPT !.phases = g.phases, !.repeats[id].body = g.ops]

GroupTop(p, g) == [p EXCEPT !.phases = g.phases, !.body = g.ops]

\* Emptied phases leave the table and every reference is renumbered.
Renumber(p, live) ==
    LET Remap(ops) == [i \in 1 .. Len(ops) |->
                          IF ops[i].op = "exchange"
                          THEN [ops[i] EXCEPT !.id = CHOOSE n \in 1 .. Len(live) : live[n] = @]
                          ELSE ops[i]]
    IN  [p EXCEPT !.phases = [n \in 1 .. Len(live) |-> @[live[n]]],
                  !.body = Remap(@),
                  !.repeats = [id \in DOMAIN @ |-> [@[id] EXCEPT !.body = Remap(@)]]]

LivePhases(p) == SelectSeq([i \in 1 .. Len(p.phases) |-> i], LAMBDA i : p.phases[i].transfers # <<>>)

GroupExchanges(p) ==
    LET Bodies == FoldLeft(LAMBDA q, id : GroupBody(q, id, GroupRegion(q, q.phases, q.repeats[id].body)),
                           p, [id \in 1 .. Len(p.repeats) |-> id])
        Whole_(q) == GroupTop(q, GroupRegion(q, q.phases, q.body))
        Compact(q) == Renumber(q, LivePhases(q))
    IN  Compact(Whole_(Bodies))

\* merge_copies: two adjacent byte copies of a tile between the same two
\* allocations become one, and the table keeps live copies only.
Adjacent(root, first, next) ==
    /\ Contiguous(first) /\ Contiguous(next)
    /\ first.src = next.src /\ first.dst = next.dst
    /\ root[first.src] # root[first.dst]
    /\ first.soff + first.units = next.soff
    /\ first.doff + first.units = next.doff

MergeVisit(p, root, m, o, last) ==
    CASE o.op = "copy" ->
            IF (IF last = 0 THEN FALSE ELSE Adjacent(root, m.copies[last], p.copies[o.id]))
            THEN [m EXCEPT !.copies[last].units = @ + p.copies[o.id].units]
            ELSE [m EXCEPT !.copies = Append(@, p.copies[o.id]),
                           !.last[o.tile] = Len(m.copies) + 1,
                           !.ops = Append(@, [o EXCEPT !.id = Len(m.copies) + 1])]
      [] o.op = "compute" -> [m EXCEPT !.last[o.tile] = 0, !.ops = Append(@, o)]
      [] OTHER -> [m EXCEPT !.last = [t \in DOMAIN @ |-> 0], !.ops = Append(@, o)]

MergeRegion(p, root, table, ops) ==
    FoldLeft(LAMBDA m, o : MergeVisit(p, root, m, o, IF o.op = "copy" THEN m.last[o.tile] ELSE 0),
             [copies |-> table, ops |-> <<>>, last |-> [t \in p.tiles |-> 0]], ops)

MergeCopies(p) ==
    LET Regions == FoldLeft(LAMBDA acc, id :
                       LET m == MergeRegion(p, Roots(p), acc.copies, p.repeats[id].body)
                       IN  [copies |-> m.copies, repeats |-> [acc.repeats EXCEPT ![id].body = m.ops]],
                       [copies |-> <<>>, repeats |-> p.repeats],
                       [id \in 1 .. Len(p.repeats) |-> id])
        Finish(acc, m) == [p EXCEPT !.copies = m.copies, !.body = m.ops, !.repeats = acc.repeats]
        Top(acc) == Finish(acc, MergeRegion(p, Roots(p), acc.copies, p.body))
    IN  Top(Regions)

------------------------------------------------------------------------------
(* cast::donate: an FP8 result takes the dead FP16 operand's storage, one      *)
(* memory element ahead, and the cast is cut into chunks.                      *)

\* CastChunks::new for atoms of one FP16 element: the element ranges, each of
\* which ends its output before the memory element its input begins in.
CastChunks(elements) ==
    LET atom == 2
        next(consumed) ==
            LET limit == ((CastPrefix + (consumed * atom)) \div CastPrefix) * CastPrefix
            IN  Min({((limit - ((consumed * atom) \div 2)) * 2) \div atom, elements - consumed})
        cut[n \in Nat] == IF n = 0 THEN 0
                          ELSE IF cut[n - 1] = elements THEN elements
                          ELSE cut[n - 1] + next(cut[n - 1])
        parts == CHOOSE n \in 1 .. elements :
                    cut[n] = elements /\ \A m \in 1 .. n - 1 : cut[m] # elements
    IN  [n \in 1 .. parts |-> <<cut[n - 1], cut[n]>>]

Entire(p, v) == v.lo = 0 /\ v.hi = p.shards[v.shard].size

\* Both sides are independent scratch and the operand dies here.
Donor(p, uses, given, r, pos) ==
    LET input  == r.inputs[1]
        output == r.output
        from   == RootOf(p.shards, input.shard)
        to     == RootOf(p.shards, output.shard)
    IN  /\ from # to
        /\ uses[from].aliases = 1 /\ uses[to].aliases = 1
        /\ {from, to} \cap given = {}
        /\ uses[from].first # 0
        /\ ~uses[from].boundary /\ ~uses[to].boundary
        /\ uses[from].writes > 0
        /\ uses[to].writes = 1
        /\ uses[from].last = pos
        /\ Entire(p, input) /\ Entire(p, output)
        /\ p.shards[input.shard].size = p.shards[output.shard].size
        /\ p.shards[input.shard].logical = p.shards[output.shard].logical
        /\ p.shards[input.shard].order = p.shards[output.shard].order
        /\ p.shards[input.shard].class = p.shards[output.shard].class
        /\ UnitsOf(p.shards, output.shard) > CastPrefix

\* The calls that replace cast r: one for each chunk.
CastCalls(r, chunks) ==
    [n \in 1 .. Len(chunks) |->
        [r EXCEPT !.inputs = <<[@[1] EXCEPT !.lo = chunks[n][1], !.hi = chunks[n][2]]>>,
                  !.output = [@ EXCEPT !.lo = chunks[n][1], !.hi = chunks[n][2]],
                  !.align = CastPrefix]]

Give(d, id, r, parts) ==
    [shards |-> [d.shards EXCEPT ![r.output.shard].def =
                    [kind |-> "alias", of |-> r.inputs[1].shard, off |-> -CastPrefix]],
     runs   |-> [d.runs EXCEPT ![id] = parts[1]] \o Tail(parts),
     calls  |-> [d.calls EXCEPT ![id] = <<id>> \o [n \in 1 .. Len(parts) - 1 |-> Len(d.runs) + n]],
     given  |-> d.given \cup {r.output.shard, r.inputs[1].shard}]

GiveAll(p, walk, uses) ==
    FoldLeft(LAMBDA d, pos :
                IF walk[pos].op # "compute" THEN d
                ELSE LET r == p.runs[walk[pos].id]
                     IN  IF r.kernel # "cast" THEN d
                         ELSE IF Donor(p, uses, d.given, r, pos)
                         THEN Give(d, walk[pos].id, r, CastCalls(r, CastChunks(r.output.hi)))
                         ELSE d,
             [shards |-> p.shards, runs |-> p.runs, given |-> {},
              calls |-> [id \in 1 .. Len(p.runs) |-> <<id>>]],
             [pos \in 1 .. Len(walk) |-> pos])

ReplaceCalls(p, done) ==
    LET Replace(ops) ==
            FoldLeft(LAMBDA acc, o :
                        acc \o (IF o.op = "compute"
                                THEN [n \in 1 .. Len(done.calls[o.id]) |->
                                        [o EXCEPT !.id = done.calls[o.id][n]]]
                                ELSE <<o>>),
                     <<>>, ops)
    IN  [p EXCEPT !.shards = done.shards, !.runs = done.runs, !.body = Replace(@),
                  !.repeats = [id \in DOMAIN @ |-> [@[id] EXCEPT !.body = Replace(@)]]]

Donate(p) == ReplaceCalls(p, GiveAll(p, WalkOf(p), StorageUses(p)))

------------------------------------------------------------------------------
(* padding::eliminate: clears whose zeros nobody can tell from what is there.  *)

SameLayout(p, a, b) ==
    /\ p.shards[a].size = p.shards[b].size
    /\ p.shards[a].logical = p.shards[b].logical
    /\ p.shards[a].width = p.shards[b].width
    /\ p.shards[a].order = p.shards[b].order

\* The roots whose contents reach each root; a root reaches itself when a write
\* is not a complete copy between identical layouts.
Incoming(p, uses, root) ==
    LET keeps(a, b) == /\ a = root[a] /\ b = root[b]
                       /\ ~uses[b].boundary
                       /\ SameLayout(p, a, b)
        origin(a, b, complete) == IF keeps(a, b) /\ complete THEN root[a] ELSE root[b]
        From(o) ==
            CASE o.op = "copy" ->
                    LET c == p.copies[o.id]
                    IN  {<<root[c.dst], origin(c.src, c.dst,
                            /\ c.soff = 0 /\ c.doff = 0 /\ Contiguous(c)
                            /\ c.units = UnitsOf(p.shards, c.dst))>>}
              [] o.op = "exchange" ->
                    UNION {{<<root[d.shard], origin(t.source.shard, d.shard,
                                Entire(p, t.source) /\ Entire(p, d))>> : d \in Range(t.destinations)} :
                                    t \in Range(p.phases[o.id].transfers)}
              [] o.op = "compute" ->
                    IF p.runs[o.id].kernel = "clear" THEN {}
                    ELSE {<<root[p.runs[o.id].output.shard], root[p.runs[o.id].output.shard]>>}
              [] OTHER -> {}
    IN  UNION {From(o) : o \in Range(WalkOf(p))}

\* The storage that holds a parameter's image, zero padding included.
ParameterStorage(p, uses, root, incoming) ==
    LET written == {e[1] : e \in incoming}
        images  == {s \in DOMAIN p.inputs : p.inputs[s] = "parameter" /\ s = root[s] /\ uses[s].readOnly}
        grow[n \in Nat] ==
            IF n = 0 THEN images \ written
            ELSE grow[n - 1] \cup {r \in written : \A e \in incoming : e[1] = r => e[2] \in grow[n - 1]}
    IN  grow[Len(p.shards)]

\* The elements of operand j of run r whose contents do not matter, and whether
\* they must still be finite: the kernel's padding requirement.
Discarded(p, parameters, root, r, j) ==
    LET v == r.inputs[j]
        w == r.inputs[2]
        start == Max({LogicalEnd(p, v), LogicalEnd(p, w)})
    IN  CASE j = 1 /\ r.kernel = "cast" /\ r.packs ->
                [elements |-> LogicalEnd(p, v) .. v.hi - 1, finite |-> FALSE]
          [] j = 1 /\ r.kernel = "gemm" ->
                IF /\ v.lo = w.lo
                   /\ AllHalf(p)
                   /\ root[w.shard] \in parameters
                   /\ Locate(p.shards)[w.shard].off = 0
                   /\ SameLayout(p, w.shard, root[w.shard])
                   /\ start >= LogicalEnd(p, [w EXCEPT !.hi = p.shards[w.shard].size])
                THEN [elements |-> start .. Min({v.hi, w.hi}) - 1, finite |-> TRUE]
                ELSE [elements |-> {}, finite |-> FALSE]
          [] OTHER -> [elements |-> {}, finite |-> FALSE]

\* The units of run id's operand j that may hold anything.
SkippedCells(p, at, parameters, root, r, j) ==
    LET s == r.inputs[j].shard
        w == p.shards[s].width
    IN  {<<root[s], at[s].off + (w * i) + k>> :
            i \in Discarded(p, parameters, root, r, j).elements, k \in 0 .. w - 1}

\* The clears that are only for padding and that nothing but kernels could see.
PaddingClears(p, uses, root) ==
    {id \in LiveRuns(p) : /\ p.runs[id].kernel = "clear"
                          /\ p.runs[id].padding
                          /\ ~uses[root[p.runs[id].output.shard]].other}

\* The operands that read what a clear wrote.
ReadersOf(p, root, clear) ==
    {e \in LiveRuns(p) \X {1, 2} :
        IF e[2] <= Len(p.runs[e[1]].inputs)
        THEN root[p.runs[e[1]].inputs[e[2]].shard] = root[p.runs[clear].output.shard] ELSE FALSE}

Removable(p, at, root, incoming, parameters, clear) ==
    LET r == root[p.runs[clear].output.shard]
    IN  /\ <<r, r>> \notin incoming
        /\ \A e \in ReadersOf(p, root, clear) :
                ViewCells(p.shards, at, p.runs[clear].output)
                    \subseteq SkippedCells(p, at, parameters, root, p.runs[e[1]], e[2])

NeedsFinite(p, root, parameters, clear) ==
    \E e \in ReadersOf(p, root, clear) : Discarded(p, parameters, root, p.runs[e[1]], e[2]).finite

WithoutClears(p, root, parameters, gone) ==
    [Retain(p, LAMBDA o : ~(o.op = "compute" /\ o.id \in gone))
        EXCEPT !.finite = @ \/ \E clear \in gone : NeedsFinite(p, root, parameters, clear)]

PaddingWith(p, uses, root, incoming, parameters) ==
    WithoutClears(p, root, parameters,
        {clear \in PaddingClears(p, uses, root) :
            Removable(p, Locate(p.shards), root, incoming, parameters, clear)})

PaddingFrom(p, uses, root, incoming) ==
    PaddingWith(p, uses, root, incoming, ParameterStorage(p, uses, root, incoming))

PaddingOver(p, uses, root) == PaddingFrom(p, uses, root, Incoming(p, uses, root))

EliminatePadding(p) == PaddingOver(p, StorageUses(p), Roots(p))

------------------------------------------------------------------------------
(* lower_to_tiles: one work list per tile; every tile keeps every exchange.    *)

ProjectRegion(ops, t) ==
    SelectSeq(ops, LAMBDA o : \/ o.op \in {"exchange", "repeat"}
                              \/ o.op \in {"copy", "compute"} /\ o.tile = t)

LowerToTiles(p) ==
    [t \in p.tiles |-> [work   |-> ProjectRegion(p.body, t),
                        bodies |-> [id \in DOMAIN p.repeats |-> ProjectRegion(p.repeats[id].body, t)]]]

\* The lists run side by side between exchanges; the last tile goes first here,
\* since tiles share nothing until they meet. Lists that do not meet get stuck.
Meets(o) == o.op \in {"exchange", "repeat"}

Segment(list, n) ==
    LET meets == <<0>> \o SelectSeq([i \in 1 .. Len(list) |-> i], LAMBDA i : Meets(list[i]))
                      \o <<Len(list) + 1>>
    IN  IF n + 1 > Len(meets) THEN <<>> ELSE SubSeq(list, meets[n] + 1, meets[n + 1] - 1)

SideBySide(p, lists) ==
    LET meets(t) == SelectSeq(lists[t], Meets)
        common   == meets(CHOOSE t \in p.tiles : TRUE)
        order    == SortSeq(SetToSeq(p.tiles), >)
        together(n) == FoldLeft(LAMBDA acc, t : acc \o Segment(lists[t], n), <<>>, order)
    IN  IF \E t \in p.tiles : meets(t) # common THEN <<>>
        ELSE FoldLeft(LAMBDA acc, n : acc \o together(n)
                                         \o (IF n <= Len(common) THEN <<common[n]>> ELSE <<>>),
                      <<>>, [n \in 1 .. Len(common) + 1 |-> n])

TileOutputs(p, lists) ==
    OutputsOf(p, Unroll(p, SideBySide(p, [t \in p.tiles |-> lists[t].work]),
                        LAMBDA id : SideBySide(p, [t \in p.tiles |-> lists[t].bodies[id]])))

------------------------------------------------------------------------------
(* passes::run, one pass at a time. *)

Pass(from, to, graph) ==
    /\ stage = from
    /\ stage' = to
    /\ program' = graph
    /\ UNCHANGED <<tiles, pool, memory, expected>>

RunEliminateCopies  == Pass("copies", "group", EliminateCopies(program))
RunGroupExchanges   == Pass("group", "merge", GroupExchanges(program))
RunMergeCopies      == Pass("merge", "donate", MergeCopies(program))
RunDonate           == Pass("donate", "padding", IF ReuseCastInputs THEN Donate(program) ELSE program)
RunEliminatePadding == Pass("padding", "project", EliminatePadding(program))

Project ==
    /\ stage = "project"
    /\ stage' = "done"
    /\ tiles' = LowerToTiles(program)
    /\ UNCHANGED <<program, pool, memory, expected>>

\* Expansion appends operations that read what was written before: a kernel
\* every element of its operands, movement at least the logical ones.
Ready(p, mem, step) ==
    LET at == LocateIn(p.shards, step.bound)
        o  == step.operation
        Written(s, from, to) == \A i \in from .. to - 1 :
                                    \A c \in Range(ElementCells(p, at, s, i)) : Unit(mem, c) # Fresh
        Values(v) == Written(v.shard, v.lo, LogicalEnd(p, v))
    IN  CASE o.op = "compute"  ->
                LET r == p.runs[o.id]
                IN  \A v \in Range(r.inputs) :
                        IF r.packs THEN Values(v) ELSE Written(v.shard, v.lo, v.hi)
          [] o.op = "copy"     ->
                LET c == p.copies[o.id]
                IN  \A u \in SourceCells(at, c) :
                        u[2] - at[c.src].off < p.shards[c.src].logical * p.shards[c.src].width
                            => Unit(mem, u) # Fresh
          [] o.op = "exchange" -> \A t \in Range(p.phases[o.id].transfers) : Values(t.source)
          [] OTHER -> TRUE

AppendOperation(o) ==
    LET steps == Unroll(program, <<o>>, LAMBDA id : program.repeats[id].body)
        run == FoldLeft(LAMBDA m, step : [ok  |-> m.ok /\ Ready(program, m.mem, step),
                                          mem |-> RunOperation(program, m.mem, step)],
                        [ok |-> TRUE, mem |-> memory], steps)
    IN  /\ stage = "expand"
        /\ run.ok
        /\ memory' = run.mem
        /\ program' = [program EXCEPT !.body = Append(@, o)]
        /\ pool' = [pool EXCEPT !.operations = @ \ {o}, !.left = @ - 1]
        /\ UNCHANGED <<tiles, stage, expected>>

\* Expansion ends once the host's outputs are written.
FinishExpansion ==
    LET outputs == OutputsIn(program, memory)
    IN  /\ stage = "expand"
        /\ \A o \in DOMAIN outputs : \A i \in DOMAIN outputs[o] : outputs[o][i] # Unwritten(program)
        /\ stage' = "copies"
        /\ expected' = outputs
        /\ memory' = <<>>
        /\ pool' = [operations |-> {}, left |-> 0]
        /\ UNCHANGED <<program, tiles>>

LowInit ==
    /\ \E e \in Expansions : /\ program = e.graph
                             /\ pool = [operations |-> e.pool, left |-> e.length]
    /\ memory = InitialMemory(program)
    /\ tiles = <<>>
    /\ stage = "expand"
    /\ expected = <<>>

LowNext ==
    \/ pool.left > 0 /\ \E o \in pool.operations : AppendOperation(o)
    \/ FinishExpansion
    \/ RunEliminateCopies \/ RunGroupExchanges \/ RunMergeCopies
    \/ RunDonate \/ RunEliminatePadding \/ Project

LowSpec == LowInit /\ [][LowNext]_lowVars

------------------------------------------------------------------------------
(* Properties. *)

\* Every pass keeps what the host reads: the graph, and in the end the work
\* lists its tiles run side by side, compute what the expanded graph computed,
\* whatever was forwarded, moved across an exchange, merged, overlaid or left
\* uncleared.
OutputsSurvive ==
    stage # "expand" =>
        expected = (IF stage = "done" THEN TileOutputs(program, tiles) ELSE GraphOutputs(program))

\* Every pass keeps what the kernels ask of storage: an operand that became an
\* alias starts where the kernel's loads may, operands of one kernel that must
\* lie in distinct memory elements still have storage of their own or, for a
\* donated cast, no element that the call both reads and writes.
KernelsKeepTheirContracts ==
    LET at == Locate(program.shards)
        elements(v) == {<<c[1], c[2] \div CastPrefix>> : c \in ViewCells(program.shards, at, v)}
    IN  stage # "expand" =>
        \A id \in LiveRuns(program) :
            LET r == program.runs[id]
            IN  /\ \A s \in OperandsOf(r) : at[s].off % (IF r.kernel = "cast" THEN 1 ELSE r.align) = 0
                /\ r.kernel = "cast" =>
                     /\ at[r.output.shard].off % r.align = 0
                     /\ elements(r.inputs[1]) \cap elements(r.output) = {}
                /\ \A a, b \in r.distinct : a # b => at[a].root # at[b].root
==============================================================================
