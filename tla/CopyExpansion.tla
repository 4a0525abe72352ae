---------------------------- MODULE CopyExpansion ----------------------------
(***************************************************************************)
(* A group of independent whole-device copies becomes tile work.  Each copy *)
(* maps regions of its source shards to regions of its outputs, choosing    *)
(* among replicas the one on the receiving tile; each output then gets its  *)
(* clears, and each region a local copy, a transfer, or either of them      *)
(* through a row-major staging block that a kernel packs.  The batch of a   *)
(* group joins local receivers to multicasts, may send through relays, and   *)
(* runs: clears, copies before, one exchange, copies after, packing.        *)
(***************************************************************************)
EXTENDS TensorStorage

CONSTANTS
    CopyCases,       \* [tiles, blocks, operations]: an independent prefix of copies
    LaunchBytes,     \* kernel_launch_cycles * 48: covered bytes cheaper to clear again
    Workers,         \* WORKER_CONTEXTS
    ParallelBytes    \* PARALLEL_STRIDED_COPY_MAX_BYTES

VARIABLES
    copyCase,
    blocks,       \* program.shards: the allocations, the staging ones last
    body,         \* the tile work of the region so far
    batch,        \* MaterializationBatch
    next,         \* the operation being prepared
    groups,       \* its outputs that are left, with their mappings
    packed,       \* packed_sources of the operation
    copyStatus,   \* "prepare", "realize", "run", "done", "refused"
    bytesOf       \* the bytes of every allocation as the work runs

copyVars == <<copyCase, blocks, body, batch, next, groups, packed, copyStatus, bytesOf>>

Block(value, tile, shape, order, precision, extents) ==
    [value |-> value, tile |-> tile, shape |-> shape, order |-> order, precision |-> precision,
     extents |-> extents, class |-> "standard"]
Staging == 0  \* the value of a staging block
ShardView(block, extents) == [block |-> block, extents |-> extents]
FullView(list, b) == ShardView(b, list[b].extents)
LogicalView(list, b) == ShardView(b, Covered(list[b].extents, "semantic"))

\* The traversal of a view, and whether it moves whole words.
Walk(list, view, order) == Traversed(order, list[view.block], view.extents)
InWords(list, view, order) == WordAligned(Walk(list, view, order))

-------------------------------------------------------------------------------
(* Regions and their owners: copy/ownership.rs. *)

\* intersect_extents: of the logical parts; empty where they do not meet.
Intersection(left, right) ==
    [a \in DOMAIN left |->
        LET end == Least(left[a].logical, right[a].logical)
        IN  Extent(Most(left[a].start, right[a].start), end, end)]
Meet(left, right) ==
    /\ Len(left) = Len(right)
    /\ \A a \in DOMAIN left :
           Intersection(left, right)[a].start < Intersection(left, right)[a].logical

\* Mutant: padding is shared whether or not both regions end there.
WithAnyPadding(left, right) ==
    [a \in DOMAIN left |->
        [Intersection(left, right)[a] EXCEPT
            !.physical = @ + Least(left[a].physical - left[a].logical,
                                   right[a].physical - right[a].logical)]]

\* intersect_extents_with_shared_padding
WithSharedPadding(left, right) ==
    [a \in DOMAIN left |->
        LET e == Intersection(left, right)[a]
        IN  IF e.logical = left[a].logical /\ e.logical = right[a].logical
            THEN [e EXCEPT !.physical = @ + Least(left[a].physical - left[a].logical,
                                                  right[a].physical - right[a].logical)]
            ELSE e]

\* CopyRegions::new: searched along the last axis with the most distinct starts.
SearchAxis(regions) ==
    LET axes == DOMAIN (CHOOSE r \in regions : TRUE)
        Starts(a) == Cardinality({r[a].start : r \in regions})
    IN  CHOOSE a \in axes :
            \A b \in axes : Starts(b) < Starts(a) \/ (Starts(b) = Starts(a) /\ b <= a)

\* Regions up to the first that starts after the target; those before any that
\* reaches it are passed over.
Searched(regions, target) ==
    LET a == SearchAxis(regions)
    IN  {r \in regions :
            /\ r[a].start < target[a].logical
            /\ \E s \in regions : s[a].start <= r[a].start /\ target[a].start < s[a].logical}

\* Owners::select among the inputs that hold a region.
Owner(list, inputs, holders, tile) ==
    LET local == {n \in holders : list[inputs[n].block].tile = tile}
    IN  Min(IF local # {} THEN local ELSE holders)

\* CopyRegions::intersections, in the order of the inputs.
Intersections(list, inputs, target, tile) ==
    LET wanted == Covered(target, "semantic")
        RegionOf(n) == Covered(inputs[n].extents, "semantic")
        found == Searched({RegionOf(n) : n \in DOMAIN inputs}, wanted)
        near == {n \in DOMAIN inputs : RegionOf(n) \in found /\ Meet(RegionOf(n), wanted)}
        part == [n \in near |-> Intersection(RegionOf(n), wanted)]
        Chosen(n) == n \in near /\ n = Owner(list, inputs, {m \in near : part[m] = part[n]}, tile)
    IN  FoldLeft(LAMBDA all, n : IF Chosen(n) THEN Append(all, <<part[n], n>>) ELSE all,
                 <<>>, [n \in DOMAIN inputs |-> n])

-------------------------------------------------------------------------------
(* Mappings <<source view, destination view>>: copy/mapping.rs. *)

Moved(e, by) == Extent(e.start + by, e.logical + by, e.physical + by)
Shift(extents, offsets, sign) ==
    [a \in DOMAIN extents |->
        IF a \in DOMAIN offsets THEN Moved(extents[a], sign * offsets[a]) ELSE extents[a]]

\* offset_copy_mappings
OffsetMappings(list, op, inputs) ==
    FlattenSeq([o \in DOMAIN op.outputs |->
        LET b == op.outputs[o]
            target == Shift(list[b].extents, op.offsets, 1)
            found == Intersections(list, inputs, target, list[b].tile)
            From1(n) == WithSharedPadding(inputs[found[n][2]].extents, target)
        IN  [n \in DOMAIN found |->
                <<ShardView(inputs[found[n][2]].block, From1(n)),
                  ShardView(b, Shift(From1(n), op.offsets, -1))>>]])

\* AxisFactorView [split, merge, factor, reversed]: output_shape and map_slice,
\* the latter of the slices asked for here.
Divided(v) == IF v.reversed THEN v.merge ELSE v.split
Multiplied1(v) == IF v.reversed THEN v.split ELSE v.merge
OutputShape(v, shape) == [shape EXCEPT ![Divided(v)] = @ \div v.factor,
                                       ![Multiplied1(v)] = @ * v.factor]
Exactly(start, end) == Extent(start, end, end)
MapSlice(v, shape, slice) ==
    LET at == slice[v.merge].start
        width == OutputShape(v, shape)[v.split]
        base == (at % v.factor) * width
        s == slice[v.split]
        part == s.start \div shape[v.split]
        merged == IF v.reversed THEN at * v.factor + part ELSE at \div v.factor
    IN  [a \in DOMAIN slice |->
            IF a = v.merge THEN Exactly(merged, merged + 1)
            ELSE IF a # v.split THEN Exactly(slice[a].start, slice[a].logical)
            ELSE IF v.reversed
            THEN Exactly(s.start % shape[v.split], ((s.logical - 1) % shape[v.split]) + 1)
            ELSE Exactly(base + s.start, base + s.logical)]

\* The slices with a rectangular preimage: one of the merged axis, and for the
\* inverse move one joined part.
Streams(v, shape, extents) ==
    LET width == shape[v.split]
        s == extents[v.split]
        starts == SelectSeq([n \in 1 .. s.logical |-> n - 1], LAMBDA x :
                      x >= s.start /\ (x = s.start \/ (v.reversed /\ Divides(width, x))))
        End1(x) == IF v.reversed THEN Least((x \div width) * width + width, s.logical) ELSE s.logical
        merged == extents[v.merge]
    IN  FlattenSeq([m \in 1 .. merged.logical - merged.start |->
            [n \in DOMAIN starts |->
                [extents EXCEPT ![v.merge] = Exactly(merged.start + m - 1, merged.start + m),
                                ![v.split] = [@ EXCEPT !.start = starts[n], !.logical = End1(starts[n])]]]])

\* A whole part that both tensors end keeps the padding they share.
PartPadding(v, shape, base, from, source, output) ==
    LET width == OutputShape(v, shape)[v.split]
        Whole1(e) == e[v.split].start = base /\ e[v.split].logical = base + width
    IN  IF v.reversed \/ ~Whole1(from) \/ ~Whole1(source) THEN 0
        ELSE Least(source[v.split].physical - from[v.split].logical,
                   Most(output[v.split].physical - output[v.split].logical, 0))

Padded(extents, axis, padding) == [extents EXCEPT ![axis].physical = @ + padding]

\* What one slice of an output reads.
SliceMappings(list, op, inputs, b, output, slice) ==
    LET v == op.view[1]
        target == MapSlice(v, op.shape, slice)
        base == target[v.split].start - slice[v.split].start
        found == Intersections(list, inputs, target, list[b].tile)
        To1(from) == [from EXCEPT ![v.merge] = slice[v.merge], ![v.split] = Moved(@, -base)]
    IN  [n \in DOMAIN found |->
            LET from == found[n][1]
                padding == PartPadding(v, op.shape, base, from, inputs[found[n][2]].extents, output)
            IN  <<ShardView(inputs[found[n][2]].block, Padded(from, v.split, padding)),
                  ShardView(b, Shift(Padded(To1(from), v.split, padding), op.offsets, -1))>>]

\* window_view_mappings
WindowMappings(list, op, inputs) ==
    LET bound == OutputShape(op.view[1], op.shape)
        Output(b) == [a \in DOMAIN list[b].extents |->
                         LET e == Shift(list[b].extents, op.offsets, 1)[a]
                         IN  [e EXCEPT !.logical = Least(@, bound[a])]]
        Empty(extents) == \E a \in DOMAIN extents : extents[a].start >= extents[a].logical
    IN  FlattenSeq([o \in DOMAIN op.outputs |->
            LET b == op.outputs[o]
                output == Output(b)
                slices == Streams(op.view[1], op.shape, output)
            IN  IF Empty(output) THEN <<>>
                ELSE FlattenSeq([n \in DOMAIN slices |->
                        SliceMappings(list, op, inputs, b, output, slices[n])])])

-------------------------------------------------------------------------------
(* Micro panels. *)

\* micro_panel_order, supports_micro_panel_exchange
PanelOrder(b) == IF b.order.kind = "row" THEN "none"
                 ELSE IF b.order.kind \in {"left", "tright", "tblock"} THEN "rows" ELSE "columns"
HasPanels(b) == b.precision # "f32" /\ PanelOrder(b) # "none"
SamePanels(a, b) == HasPanels(a) /\ a.precision = b.precision /\ PanelOrder(a) = PanelOrder(b)

\* extend_panel_row_padding: where both mapped rows end their tensors.
PanelTail(b, rows, axis) ==
    LET side == Panel(b)[1]
    IN  (side - ((rows.logical - b.extents[axis].start) % side)) % side
RowPadding(b, rows, axis) == Least(PanelTail(b, rows, axis), b.extents[axis].physical - rows.logical)
ExtendRows(list, m) ==
    LET s == list[m[1].block]
        d == list[m[2].block]
        i == Len(m[1].extents) - 1
        j == Len(m[2].extents) - 1
        from == m[1].extents[i]
        to == m[2].extents[j]
        padding == Least(RowPadding(s, from, i), RowPadding(d, to, j))
    IN  IF i < 1 \/ j < 1 \/ ~HasPanels(s) \/ ~HasPanels(d) THEN m
        ELSE IF from.logical # s.shape[i] \/ to.logical # d.shape[j] THEN m
        ELSE <<[m[1] EXCEPT !.extents[i].physical = Most(@, from.logical + padding)],
               [m[2] EXCEPT !.extents[j].physical = Most(@, to.logical + padding)]>>

\* A complete grid of panels on both sides, the same number of them.
Regular(list, m) ==
    LET s == list[m[1].block]
        d == list[m[2].block]
        Sides(v, k) == v.extents[Len(v.extents) - k]
    IN  /\ Len(m[1].extents) >= 2 /\ Len(m[2].extents) >= 2
        /\ SamePanels(s, d)
        /\ \A k \in {0, 1} : /\ Width(Sides(m[1], k)) = Width(Sides(m[2], k))
                             /\ LogicalWidth(Sides(m[1], k)) = LogicalWidth(Sides(m[2], k))
        /\ \A v \in {m[1], m[2]} :
               /\ PanelsFit(list[v.block], v.extents)
               /\ InWords(list, v, "panels")

\* aligned_ranges: both sides cut wherever either crosses a panel.
CutAt(e, whole, side, offset) == Divides(side, e.start - whole.start + offset)
PieceOf(e, start, end) ==
    Extent(e.start + start, Most(Least(e.logical, e.start + end), e.start + start), e.start + end)
AlignedRanges(s, sw, d, dw, sp, dp) ==
    LET width == Width(s)
        cuts == SelectSeq([n \in 1 .. width |-> n - 1], LAMBDA o :
                    o = 0 \/ CutAt(s, sw, sp, o) \/ CutAt(d, dw, dp, o))
        CutAfter(n) == IF n = Len(cuts) THEN width ELSE cuts[n + 1]
    IN  [n \in DOMAIN cuts |-> <<PieceOf(s, cuts[n], CutAfter(n)), PieceOf(d, cuts[n], CutAfter(n))>>]

OuterWidths(v) == [a \in 1 .. Len(v.extents) - 2 |-> LogicalWidth(v.extents[a])]
\* as many outer matrices on both sides, of rows and columns alike
Splittable(list, m) ==
    LET Side(n, k) == m[n].extents[Len(m[n].extents) - k]
    IN  /\ \A n \in {1, 2} : Len(m[n].extents) >= 2 /\ Len(m[n].extents) = Len(list[m[n].block].extents)
        /\ MulSeq(OuterWidths(m[1])) = MulSeq(OuterWidths(m[2]))
        /\ \A k \in {0, 1} : /\ LogicalWidth(Side(1, k)) = LogicalWidth(Side(2, k))
                             /\ Width(Side(1, k)) = Width(Side(2, k))

\* split_mapping_at_panel_boundaries; the rows are extended already, and
\* extending them again changes nothing.
Pieces(list, m) ==
    LET s == list[m[1].block]
        d == list[m[2].block]
        i == Len(m[1].extents)
        j == Len(m[2].extents)
        Ranges(k) == AlignedRanges(m[1].extents[i - k], s.extents[i - k],
                                   m[2].extents[j - k], d.extents[j - k],
                                   Panel(s)[2 - k], Panel(d)[2 - k])
        rows == Ranges(1)
        columns == Ranges(0)
        At(v, n, row, column) ==
            LET widths == OuterWidths(v)
                point == RowMajorCoordinates(widths, n)
            IN  [a \in DOMAIN v.extents |->
                    IF a <= Len(widths)
                    THEN Exactly(v.extents[a].start + point[a], v.extents[a].start + point[a] + 1)
                    ELSE IF a = Len(widths) + 1 THEN row ELSE column]
    IN  FlattenSeq([n \in 1 .. MulSeq(OuterWidths(m[1])) |->
            FlattenSeq([r \in DOMAIN rows |->
                [c \in DOMAIN columns |->
                    <<[m[1] EXCEPT !.extents = At(m[1], n - 1, rows[r][1], columns[c][1])],
                      [m[2] EXCEPT !.extents = At(m[2], n - 1, rows[r][2], columns[c][2])]>>]])])

\* A piece moves whole words, as many from the source as to the destination.
PieceMoves(list, m) ==
    LET s == Walk(list, m[1], "physical")
        d == Walk(list, m[2], "physical")
    IN  WordAligned(s) /\ WordAligned(d) /\ ByteLength(s) = ByteLength(d)

\* micro_panel_mappings: one answer for all, that of the first mapping without
\* a realization, which may be that it cannot even be split.
NoPanels == [ok |-> TRUE, found |-> FALSE, maps |-> <<>>, order |-> "semantic"]
Found(maps, order) == [ok |-> TRUE, found |-> TRUE, maps |-> maps, order |-> order]
Splitting(list, m) ==
    IF ~SamePanels(list[m[1].block], list[m[2].block]) THEN NoPanels
    ELSE IF ~Splittable(list, m) THEN [NoPanels EXCEPT !.ok = FALSE]
    ELSE LET pieces == Pieces(list, m)
         IN  IF \A n \in DOMAIN pieces : PieceMoves(list, pieces[n]) THEN Found(pieces, "physical") ELSE NoPanels
Joined(all, part) == IF part.found THEN [part EXCEPT !.maps = all.maps \o @] ELSE part
MicroPanels(list, mappings) ==
    LET maps == [n \in DOMAIN mappings |-> ExtendRows(list, mappings[n])]
        split(all, m) == IF all.found THEN Joined(all, Splitting(list, m)) ELSE all
    IN  IF maps # <<>> /\ \A n \in DOMAIN maps : Regular(list, maps[n]) THEN Found(maps, "panels")
        ELSE FoldLeft(split, Found(<<>>, "physical"), maps)

-------------------------------------------------------------------------------
(* Local copies: kernel/copy.rs, on the rows of a copy pair. *)

\* coalesce_copies: groups that continue one another, equally strided, are one.
Started(group, groups1, n) ==
    IF group[1].rows > 1 \/ n = Len(groups1) THEN group
    ELSE <<[group[1] EXCEPT !.stride = Most(0, groups1[n + 1][1].offset - group[1].offset)],
           [group[2] EXCEPT !.stride = Most(0, groups1[n + 1][2].offset - group[2].offset)]>>
Continues(l, g) ==
    \A side \in {1, 2} :
        /\ l[side].bytes = g[side].bytes /\ l[side].stride # 0
        /\ l[side].offset + l[1].rows * l[side].stride = g[side].offset
        /\ g[1].rows > 1 => l[side].stride = g[side].stride
Grouped1(rows) ==
    FoldLeft(LAMBDA all, n :
                IF all # <<>> /\ Continues(Last(all), rows[n])
                THEN [all EXCEPT ![Len(all)] = <<[@[1] EXCEPT !.rows = @ + rows[n][1].rows],
                                                 [@[2] EXCEPT !.rows = @ + rows[n][2].rows]>>]
                ELSE Append(all, Started(rows[n], rows, n)),
             <<>>, [n \in DOMAIN rows |-> n])

\* row_copy_pattern: rows of one launch, of words; too few wide ones, and rows of
\* halfwords, are launched one by one.
Numbers(g) == {g[1].bytes, g[1].offset, g[2].offset, g[1].stride, g[2].stride}
RowByRow(g) ==
    /\ g[1].rows > 1
    /\ \/ g[1].stride = 0 \/ g[2].stride = 0 \/ \E n \in Numbers(g) : ~Divides(4, n)
       \/ /\ g[1].rows < Workers /\ g[1].bytes * g[1].rows > ParallelBytes
          /\ \A n \in Numbers(g) : Divides(8, n)
Contiguous1(g) == g[1].stride = g[1].bytes /\ g[2].stride = g[2].bytes
OneRow(r, n) == Rows(r.offset + n * r.stride, r.bytes, 1, r.bytes)
AllBytes(r) == Rows(r.offset, r.bytes * r.rows, 1, r.bytes * r.rows)
Launches(g) ==
    IF g[1].rows = 1 THEN <<g>>
    ELSE IF RowByRow(g) THEN [n \in 1 .. g[1].rows |-> <<OneRow(g[1], n - 1), OneRow(g[2], n - 1)>>]
    ELSE IF Contiguous1(g) THEN <<<<AllBytes(g[1]), AllBytes(g[2])>>>> ELSE <<g>>
Coalesced(rows) ==
    FoldLeft(LAMBDA all, g : all \o Launches(g), <<>>, Grouped1(rows))

\* from_pair: in the order of the destination, where its rows are disjoint and
\* that takes fewer launches.
RowBytesOf(r) == {r.offset + x[1] * r.stride + x[2] : x \in RowBytes(r)}
ByDestination(p, q) ==
    p[2].offset < q[2].offset \/ (p[2].offset = q[2].offset /\ p[1].offset < q[1].offset)
Disjoint(rows) ==
    \A i, j \in DOMAIN rows : i < j => RowBytesOf(rows[i][2]) \cap RowBytesOf(rows[j][2]) = {}
Fewer(original, sorted) == IF Len(sorted) < Len(original) THEN sorted ELSE original
Reordered(original, sorted) ==
    IF Len(original) >= 2 /\ Disjoint(sorted) THEN Fewer(original, Coalesced(sorted)) ELSE original
CopiesOf(rows) == Reordered(Coalesced(rows), SortSeq(rows, ByDestination))

\* CopyRun::bind: the width of a helper, 0 where none moves such a copy.
Fits(g, width) == \A n \in (IF g[1].rows = 1 THEN {g[1].bytes, g[1].offset, g[2].offset}
                            ELSE Numbers(g)) : Divides(width, n)
WordBytes(g) ==
    IF g[1].rows > 1 THEN IF Fits(g, 8) THEN 8 ELSE IF Fits(g, 4) THEN 4 ELSE 0
    ELSE IF Fits(g, 8) /\ g[1].bytes >= Workers * 8 THEN 8
    ELSE IF Fits(g, 4) THEN 4 ELSE IF Fits(g, 2) THEN 2 ELSE 0

\* append_span_copies
SpanCopies(list, from, to, order) ==
    CopiesOf(CopyPair(Walk(list, from, order), Walk(list, to, order)))

-------------------------------------------------------------------------------
(* One output: copy/realize.rs. *)

\* Work is a clear of spans, a local copy of rows, a kernel or a transfer.
NoView == ShardView(0, <<>>)
Work(kind, from, to, order, what) ==
    [kind |-> kind, from |-> from, to |-> to, order |-> order, what |-> what]
CopyWork(copies, from, to, order) ==
    [n \in DOMAIN copies |-> Work("copy", from, to, order, <<copies[n]>>)]
Copying(list, from, to, order) == CopyWork(SpanCopies(list, from, to, order), from, to, order)
Rearranged(from, to) == Work("kernel", from, to, "semantic", <<>>)

\* append_copy_clears: to eight bytes, through covered gaps cheaper than a launch.
Rounded(span, bytes) ==
    LET start == (span.offset \div 8) * 8
    IN  Span(start, Least(RoundUp(span.offset + span.bytes, 8), bytes) - start)
ClearRuns(holes, bytes) ==
    FoldLeft(LAMBDA runs, hole :
                LET next1 == Rounded(hole, bytes)
                IN  IF runs # <<>> /\ next1.offset <= Last(runs).offset + Last(runs).bytes + LaunchBytes
                    THEN [runs EXCEPT ![Len(runs)].bytes = next1.offset + next1.bytes - Last(runs).offset]
                    ELSE Append(runs, next1),
             <<>>, holes)
ClearWork(runs, to) == [n \in DOMAIN runs |-> Work("clear", NoView, to, "physical", <<runs[n]>>)]
Clears(list, b, holes) == ClearWork(ClearRuns(holes, StorageBytes(list[b])), FullView(list, b))

\* uncovered_bytes of the destination views of some mappings.
HolesIn(list, b, maps, order) ==
    Uncovered(StorageBytes(list[b]),
              FlattenSeq([n \in DOMAIN maps |->
                  Traversed("physical", list[b], Covered(maps[n][2].extents, order))]))

\* destination_staging: row-major scratch for a copy between orders, or for one
\* that reaches the destination in halfwords.
TargetsInWords(list, maps) == \A n \in DOMAIN maps : InWords(list, maps[n][2], "semantic")
SourcesInWords(list, maps) == \A n \in DOMAIN maps : InWords(list, maps[n][1], "semantic")
Transforms(list, b, maps, order) ==
    /\ order = "semantic"
    /\ \/ ~TargetsInWords(list, maps)
       \/ /\ list[b].order.kind # "row"
          /\ \E n \in DOMAIN maps : list[maps[n][1].block].order # list[b].order
DirectlyStored(list, maps) == TargetsInWords(list, maps) /\ SourcesInWords(list, maps)
PackedByKernel(b) == b.precision = "f16" /\ b.order.kind \in {"left", "tright", "block"}
StagingBlock(b) ==
    [b EXCEPT !.value = Staging, !.order = RowMajor, !.class = "standard",
              !.extents = Covered(b.extents, "semantic")]

\* pack_exchange_source: the words of a view, gathered before they are sent.
PackedBlock(like, elements) ==
    Block(Staging, like.tile, <<elements>>, RowMajor, like.precision, <<Extent(0, elements, elements)>>)
PackedAs(acc, view, order) == {p \in acc.packed : p.order = order /\ p.view = view}

Sent(acc, order, from, to) ==
    LET at == SelectInSeq(acc.batch.transfers, LAMBDA t : t.order = order /\ t.from = from)
    IN  [acc EXCEPT !.batch.transfers =
            IF at = 0 THEN Append(@, [order |-> order, from |-> from, to |-> <<to>>])
            ELSE [@ EXCEPT ![at].to = Append(@, to)]]
PackedFrom(acc, order, from, block) ==
    [acc EXCEPT !.packed = @ \cup {[order |-> order, view |-> from, as |-> FullView(acc.blocks, block)]},
                !.batch.before = @ \o Copying(acc.blocks, from, FullView(acc.blocks, block), order)]
WithPacked(acc, order, from, bytes) ==
    IF PackedAs(acc, from, order) # {} THEN acc
    ELSE IF bytes = 0 \/ ~Divides(4, bytes) THEN [acc EXCEPT !.ok = FALSE]
    ELSE PackedFrom([acc EXCEPT !.blocks = Append(@, PackedBlock(@[from.block],
                         bytes \div BytesOf(@[from.block].precision)))],
                    order, from, Len(acc.blocks) + 1)
SendPacked(acc, order, from, to) ==
    IF acc.ok THEN Sent(acc, order, (CHOOSE p \in PackedAs(acc, from, order) : TRUE).as, to) ELSE acc
SentPacked(acc, order, from, to) ==
    SendPacked(WithPacked(acc, order, from, ByteLength(Walk(acc.blocks, from, order))), order, from, to)

\* One mapping of an output, to its staging block if it has one (staging # 0).
Local(list, from, to) == list[from.block].tile = list[to.block].tile
CopiedHere(acc, from, to, order, part) == [acc EXCEPT !.batch[part] = @ \o Copying(acc.blocks, from, to, order)]
Moving(acc, from, to, order, exchangeOrder, staging) ==
    IF ~Local(acc.blocks, from, to)
    THEN IF exchangeOrder # "panels" /\ ~InWords(acc.blocks, from, exchangeOrder)
         THEN SentPacked(acc, exchangeOrder, from, to) ELSE Sent(acc, exchangeOrder, from, to)
    ELSE IF staging = 0 /\ order = exchangeOrder /\ acc.blocks[from.block].class = "standard"
    THEN [acc EXCEPT !.batch.loopback = Append(@, <<from, to, order>>)]
    ELSE CopiedHere(acc, from, to, order, IF staging # 0 THEN "before" ELSE "after")
AddMapping(acc, m, order, exchangeOrder, staging) ==
    Moving(acc, IF staging = 0 THEN m[1] ELSE [m[1] EXCEPT !.extents = Covered(@, "semantic")],
           IF staging = 0 THEN m[2] ELSE ShardView(staging, Covered(m[2].extents, "semantic")),
           order, exchangeOrder, staging)

\* The group of an output in prepare_mapped_views: panels of its own if it can.
ByPanels(group, panels) ==
    IF panels.found THEN [group EXCEPT !.maps = panels.maps, !.order = panels.order, !.exchange = panels.order]
    ELSE [group EXCEPT !.ok = panels.ok]
Realization(list, group, packing) ==
    IF group.order = "semantic" /\ packing # "staged"
    THEN ByPanels(group, MicroPanels(list, group.maps)) ELSE group

\* A group whose output has scratch `staging`, packed by a kernel or by copies.
Clearing(list, b, staging, group, kernel) ==
    (IF kernel THEN <<>> ELSE Clears(list, b, HolesIn(list, b, group.maps, group.order)))
    \o (IF staging = 0 THEN <<>>
        ELSE Clears(list, staging, HolesIn(list, staging, group.maps, "semantic")))
Mapping(acc, group, staging, kernel) ==
    FoldLeft(LAMBDA sum, m : AddMapping(sum, m, group.order, group.exchange, staging),
             [acc EXCEPT !.body = @ \o Clearing(acc.blocks, group.block, staging, group, kernel)],
             group.maps)
Packing1(mapped, b, staging) ==
    [mapped EXCEPT !.batch.kernels =
        Append(@, Rearranged(FullView(mapped.blocks, staging), FullView(mapped.blocks, b)))]
WithScratch(acc, b) == [acc EXCEPT !.blocks = Append(@, StagingBlock(@[b]))]
Packed1(mapped, b, staging, kernel) ==
    IF staging = 0 THEN mapped
    ELSE IF kernel THEN Packing1(mapped, b, staging)
    ELSE CopiedHere(mapped, FullView(mapped.blocks, staging), LogicalView(mapped.blocks, b),
                    "semantic", "after")

-------------------------------------------------------------------------------
(* Relays: copy/relay.rs. *)

\* panel_views: whole matrices of an outer point, or their columns by the grain.
PanelWidth(b) == IF b.order.kind = "row" THEN Width(Last(b.extents)) ELSE Micro(b.precision)
HasPanelViews(b) ==
    /\ Len(b.extents) >= 2 /\ b.order.kind \in {"row", "left"}
    /\ PanelWidth(b) # 0
    /\ Divides(PanelWidth(b), Last(b.extents).start) /\ Divides(PanelWidth(b), Last(b.extents).logical)
PanelViews(b) ==
    LET rank == Len(b.extents)
        width == PanelWidth(b)
        counts == [a \in 1 .. rank - 1 |-> IF a = rank - 1 THEN LogicalWidth(b.extents[rank]) \div width
                                           ELSE LogicalWidth(b.extents[a])]
        At(p) == RowMajorCoordinates(counts, p)
    IN  [p \in 1 .. MulSeq(counts) |->
            [a \in DOMAIN b.extents |->
                CASE a = rank -> LET x == b.extents[rank].start + At(p - 1)[rank - 1] * width
                                 IN  Exactly(x, x + width)
                  [] a = rank - 1 -> Exactly(b.extents[a].start, b.extents[a].logical)
                  [] OTHER -> Exactly(b.extents[a].start + At(p - 1)[a], b.extents[a].start + At(p - 1)[a] + 1)]]

\* Transfers of whole blocks of one order to the same several allocations.
Unpadded(extents) == \A a \in DOMAIN extents : extents[a].logical = extents[a].physical
Relayed(list, t) ==
    /\ Len(t.to) >= 2 /\ t.order # "panels"
    /\ \A n \in DOMAIN t.to :
           /\ list[t.to[n].block].precision = list[t.from.block].precision
           /\ list[t.to[n].block].order = list[t.from.block].order
           /\ t.to[n].extents = t.from.extents /\ Unpadded(t.to[n].extents)
Receivers(t) == {t.to[n].block : n \in DOMAIN t.to}
RelayGroups(list, transfers) ==
    LET eligible == SelectSeq(transfers, LAMBDA t : Relayed(list, t))
        first == FoldLeft(LAMBDA seen, t : IF Contains(seen, Receivers(t)) THEN seen
                                           ELSE Append(seen, Receivers(t)), <<>>, eligible)
        Even(group) == \A b, c \in group : list[b].extents = list[c].extents
    IN  SelectSeq(first, LAMBDA group :
            Even(group) /\ HasPanelViews(list[CHOOSE b \in group : TRUE]))

\* intersection
Within1(a, b) ==
    [i \in DOMAIN a |-> Exactly(Most(a[i].start, b[i].start), Least(a[i].physical, b[i].physical))]
Overlap(a, b) == \A i \in DOMAIN a : Within1(a, b)[i].start < Within1(a, b)[i].physical

\* The rows of a panel arrive without a hole, each from one transfer.
Complete(parts, panel) ==
    LET row == Len(panel) - 1
        sorted == SortSeq(parts, LAMBDA p, q : p[row].start < q[row].start)
    IN  /\ parts # <<>>
        /\ sorted[1][row].start = panel[row].start
        /\ \A n \in DOMAIN sorted : sorted[n][row + 1] = panel[row + 1]
        /\ \A n \in 1 .. Len(sorted) - 1 : sorted[n][row].physical = sorted[n + 1][row].start
        /\ Last(sorted)[row].physical = panel[row].physical
VolumeOf(parts) == FoldLeft(LAMBDA sum, p : sum + ShardVolume(p), 0, parts)

\* One panel of one group, through the highest tile that is free.
Transfer(order, from, to) == [order |-> order, from |-> from, to |-> to]
AddRelay(acc, transfers, tiles, group, panel) ==
    LET members == SelectSeq(transfers, LAMBDA t : Relayed(acc.blocks, t) /\ Receivers(t) = group)
        met == SelectSeq(members, LAMBDA t : Overlap(t.from.extents, panel))
        parts == [n \in DOMAIN met |-> Within1(met[n].from.extents, panel)]
        free == (0 .. tiles - 1) \ (acc.used \cup {acc.blocks[b].tile : b \in group}
                    \cup {acc.blocks[members[n].from.block].tile : n \in DOMAIN members})
        like == acc.blocks[Min(group)]
        relay == [like EXCEPT !.value = Staging, !.tile = Max(free), !.extents = panel,
                              !.class = "standard"]
        b == Len(acc.blocks) + 1
    IN  IF free = {} \/ VolumeOf(parts) # ShardVolume(panel) \/ ~Complete(parts, panel)
        THEN [acc EXCEPT !.ok = FALSE]
        ELSE [acc EXCEPT !.blocks = Append(@, relay), !.used = @ \cup {Max(free)},
                 !.gathered = @ \o [n \in DOMAIN met |->
                     Transfer(met[n].order, ShardView(met[n].from.block, parts[n]),
                              <<ShardView(b, parts[n])>>)],
                 !.forwarded = Append(@, Transfer("physical", ShardView(b, panel),
                     [n \in 1 .. Cardinality(group) |-> ShardView(SetToSortSeq(group, <)[n], panel)]))]

\* gather
Forwards(transfers) ==
    \E n, m \in DOMAIN transfers : transfers[n].from.block \in Receivers(transfers[m])
Gather(list, transfers, tiles) ==
    LET relayGroups == RelayGroups(list, transfers)
        steps == FlattenSeq([n \in DOMAIN relayGroups |->
                    LET views == PanelViews(list[Min(relayGroups[n])])
                    IN  [p \in DOMAIN views |-> <<relayGroups[n], views[p]>>]])
        none == [ok |-> TRUE, blocks |-> list, used |-> {}, gathered |-> <<>>, forwarded |-> <<>>]
        acc == FoldLeft(LAMBDA sum, step :
                           IF sum.ok THEN AddRelay(sum, transfers, tiles, step[1], step[2]) ELSE sum,
                        none, steps)
        direct == SelectSeq(transfers, LAMBDA t :
                     ~(Relayed(list, t) /\ Contains(relayGroups, Receivers(t))))
    IN  [ok |-> ~Forwards(transfers) /\ relayGroups # <<>> /\ Len(steps) <= tiles /\ acc.ok,
         blocks |-> acc.blocks, transfers |-> (direct \o acc.gathered) \o acc.forwarded]

-------------------------------------------------------------------------------
(* A group of operations. *)

NoBatch(first) == [first |-> first, transfers |-> <<>>, before |-> <<>>, after |-> <<>>,
                   kernels |-> <<>>, loopback |-> <<>>]
Relaying(n) == copyCase.operations[n].policy = "gather"
PartEnds == IF next > Len(copyCase.operations) THEN TRUE ELSE Relaying(next) # Relaying(batch.first)
InPart == IF next > Len(copyCase.operations) THEN FALSE
          ELSE next = batch.first \/ Relaying(next) = Relaying(batch.first)
Accumulated == [ok |-> TRUE, blocks |-> blocks, body |-> body, batch |-> batch, packed |-> packed]

\* FillZero clears whole doublewords; CopyRun::bind needs a width.
Bindable(work) ==
    CASE work.kind = "clear" -> Divides(8, work.what[1].bytes)
      [] work.kind = "copy" -> WordBytes(work.what[1]) # 0
      [] OTHER -> TRUE
AllBindable(items) == \A n \in DOMAIN items : Bindable(items[n])

Refuse == copyStatus' = "refused" /\ UNCHANGED <<copyCase, blocks, body, batch, next, groups, packed, bytesOf>>

\* unpack_amp_to_row_major
Unpacks(list, inputs) ==
    \A n \in DOMAIN inputs :
        LET b == list[inputs[n].block]
            rank == Len(inputs[n].extents)
        IN  /\ rank >= 2 /\ b.precision = "f16"
            /\ \/ b.order.kind \in {"block", "tblock"}
               \/ b.order.kind = "tleft" /\ Divides(ColumnMicro, Width(inputs[n].extents[rank - 1]))
UnpackedBlocks(list, inputs) ==
    [n \in DOMAIN inputs |-> [list[inputs[n].block] EXCEPT !.value = Staging, !.order = RowMajor,
                                 !.class = "standard", !.extents = inputs[n].extents]]
Unpacked(state) ==
    LET list == state.blocks \o UnpackedBlocks(state.blocks, state.inputs)
        At(n) == FullView(list, Len(state.blocks) + n)
    IN  [state EXCEPT !.blocks = list,
            !.inputs = [n \in DOMAIN @ |-> At(n)],
            !.body = @ \o [n \in DOMAIN state.inputs |-> Rearranged(state.inputs[n], At(n))]]

\* prepare_copy_tensor, up to the mappings of the operation.
OrderOfFirst(list, inputs) == list[inputs[1].block].order
PlainOrder(list, op, inputs) ==
    CASE op.policy \in {"direct", "gather"} -> "physical"
      [] op.policy = "stage" -> "semantic"
      [] OTHER -> IF OrderOfFirst(list, inputs) = list[op.outputs[1]].order
                  THEN "physical" ELSE "semantic"
Windowed(state, op) == [state EXCEPT !.maps = WindowMappings(state.blocks, op, state.inputs)]
Viewing(state, op, panels) ==
    IF ~panels.ok THEN [state EXCEPT !.ok = FALSE]
    ELSE IF panels.found THEN [state EXCEPT !.maps = panels.maps, !.order = panels.order]
    ELSE IF op.policy \in {"direct", "gather"} THEN [state EXCEPT !.ok = FALSE]
    ELSE IF OrderOfFirst(state.blocks, state.inputs).kind \notin {"tleft", "block", "tblock"} THEN state
    ELSE IF ~Unpacks(state.blocks, state.inputs) THEN [state EXCEPT !.ok = FALSE]
    ELSE Windowed(Unpacked(state), op)
PanelsOf(state, op) == IF op.packing = "staged" THEN NoPanels ELSE MicroPanels(state.blocks, state.maps)
Shifting(state, op) ==
    [state EXCEPT !.maps = OffsetMappings(state.blocks, op, state.inputs),
                  !.order = PlainOrder(state.blocks, op, state.inputs)]

\* LocalKernel: corresponding shards on one tile, rearranged where they are.
Corresponds(op) ==
    /\ op.view = <<>> /\ \A a \in DOMAIN op.offsets : op.offsets[a] = 0
    /\ Len(op.inputs) = Len(op.outputs)
    /\ \A n \in DOMAIN op.inputs :
           LET b == blocks[op.outputs[n]]
           IN  /\ b.tile = blocks[op.inputs[n].block].tile
               /\ \A a \in DOMAIN b.extents : /\ b.extents[a].start = op.inputs[n].extents[a].start
                                              /\ b.extents[a].logical = op.inputs[n].extents[a].logical
\* rearrange.rs `supported`
Rearranges(from, to, precision) ==
    /\ precision = "f16"
    /\ \/ from.kind \in {"tleft", "block", "tblock"} /\ to.kind = "row"
       \/ from.kind = "row" /\ to.kind \in {"left", "tright", "block"}
RearrangeLocally ==
    /\ copyStatus = "prepare" /\ groups = <<>>
    /\ (InPart = TRUE)
    /\ copyCase.operations[next].policy = "local"
    /\ LET op == copyCase.operations[next]
       IN  IF /\ Corresponds(op)
              /\ \A n \in DOMAIN op.inputs : Rearranges(blocks[op.inputs[n].block].order,
                     blocks[op.outputs[n]].order, blocks[op.outputs[n]].precision)
           THEN /\ body' = body \o [n \in DOMAIN op.inputs |->
                                       Rearranged(op.inputs[n], FullView(blocks, op.outputs[n]))]
                /\ next' = next + 1
                /\ UNCHANGED <<copyCase, blocks, batch, groups, packed, copyStatus, bytesOf>>
           ELSE Refuse

\* The rest of prepare_copy_tensor: an output that nothing maps to is zero.
Group(b, maps, order) == [ok |-> TRUE, block |-> b, maps |-> maps, order |-> order, exchange |-> order]
MapsTo(maps, b) == SelectSeq(maps, LAMBDA m : m[2].block = b)
MapOperation ==
    /\ copyStatus = "prepare" /\ groups = <<>>
    /\ (InPart = TRUE)
    /\ copyCase.operations[next].policy # "local"
    /\ \E op \in {copyCase.operations[next]} :
       \E start \in {[ok |-> TRUE, blocks |-> blocks, body |-> body, inputs |-> op.inputs,
                      maps |-> <<>>, order |-> "semantic"]} :
       \E from \in {IF /\ op.policy = "stage" /\ blocks[op.outputs[1]].order.kind = "row"
                        /\ Unpacks(blocks, op.inputs)
                     THEN Unpacked(start) ELSE start} :
       \E windowed \in {IF op.view = <<>> THEN from ELSE Windowed(from, op)} :
       \E state \in {IF op.view = <<>> THEN Shifting(from, op)
                     ELSE Viewing(windowed, op, PanelsOf(windowed, op))} :
       LET bare == SelectSeq(op.outputs, LAMBDA b : MapsTo(state.maps, b) = <<>>)
           zeros == [n \in DOMAIN bare |->
                        Work("clear", NoView, FullView(blocks, bare[n]), "physical",
                             <<Span(0, StorageBytes(blocks[bare[n]]))>>)]
           mapped == SelectSeq(op.outputs, LAMBDA b : MapsTo(state.maps, b) # <<>>)
       IN  IF ~state.ok \/ ~AllBindable(zeros) THEN Refuse
           ELSE /\ blocks' = state.blocks
                /\ body' = state.body \o zeros
                /\ groups' = [n \in DOMAIN mapped |->
                                 Group(mapped[n], MapsTo(state.maps, mapped[n]), state.order)]
                /\ packed' = {}
                /\ next' = next + 1
                /\ UNCHANGED <<copyCase, batch, copyStatus, bytesOf>>

\* One turn of the loop of prepare_mapped_views.
PrepareOutput ==
    /\ copyStatus = "prepare" /\ groups # <<>>
    /\ \E packing \in {copyCase.operations[next - 1].packing} :
       \E group \in {Realization(blocks, Head(groups), packing)} :
       \E transforms \in {Transforms(blocks, group.block, group.maps, group.order)} :
       \E staged \in {transforms /\ packing # "direct"} :
       \E kernel \in {staged /\ PackedByKernel(blocks[group.block])} :
       \E staging \in {IF staged THEN Len(blocks) + 1 ELSE 0} :
       \E start \in {IF staged THEN WithScratch(Accumulated, group.block) ELSE Accumulated} :
       \E mapped \in {Mapping(start, group, staging, kernel)} :
       \E acc \in {Packed1(mapped, group.block, staging, kernel)} :
          IF \/ ~group.ok \/ ~acc.ok \/ ~AllBindable(acc.body)
             \/ (transforms /\ ~staged) /\ ~DirectlyStored(blocks, group.maps)
          THEN Refuse
          ELSE /\ blocks' = acc.blocks /\ body' = acc.body
               /\ batch' = acc.batch /\ packed' = acc.packed
               /\ groups' = Tail(groups)
               /\ UNCHANGED <<copyCase, next, copyStatus, bytesOf>>

\* A receiver on the sender's tile joins a multicast whose messages it does not
\* cut further; alone it is a local copy.
JoinsMulticast(transfers, l) ==
    /\ InWords(blocks, l[1], l[3]) /\ InWords(blocks, l[2], l[3])
    /\ \E n \in DOMAIN transfers :
           /\ transfers[n].order = l[3] /\ transfers[n].from = l[1]
           /\ Len(transfers[n].to) >= 2
           /\ \E m \in DOMAIN transfers[n].to :
                  LET remote == Spans(Walk(blocks, transfers[n].to[m], l[3]))
                      here == Spans(Walk(blocks, l[2], l[3]))
                  IN  [i \in DOMAIN remote |-> remote[i].bytes] = [i \in DOMAIN here |-> here[i].bytes]
           /\ \A m \in DOMAIN transfers[n].to : ~Local(blocks, l[1], transfers[n].to[m])
AddLoopback(acc, l) ==
    IF JoinsMulticast(acc.batch.transfers, l) THEN Sent(acc, l[3], l[1], l[2])
    ELSE [acc EXCEPT !.batch.after = @ \o Copying(blocks, l[1], l[2], l[3])]

\* LogicalExchange::span_order
SpanOrder(list, t) ==
    IF t.order = "semantic" /\ \A n \in DOMAIN t.to : list[t.to[n].block].order = list[t.from.block].order
    THEN "physical" ELSE t.order
Sends(list, transfers) ==
    FlattenSeq([n \in DOMAIN transfers |->
        [m \in DOMAIN transfers[n].to |->
            Work("send", transfers[n].from, transfers[n].to[m], SpanOrder(list, transfers[n]), <<>>)]])

\* append_materialization, for each part of the group alike in relaying.
Realize ==
    /\ copyStatus = "prepare" /\ groups = <<>>
    /\ next > batch.first
    /\ (PartEnds = TRUE)
    /\ \E acc \in {FoldLeft(AddLoopback, Accumulated, batch.loopback)} :
       \E relayed \in {IF Relaying(batch.first)
                       THEN Gather(blocks, acc.batch.transfers, copyCase.tiles)
                       ELSE [ok |-> TRUE, blocks |-> blocks, transfers |-> acc.batch.transfers]} :
       \E done \in {((acc.batch.before \o Sends(relayed.blocks, relayed.transfers))
                        \o acc.batch.after) \o acc.batch.kernels} :
          IF ~relayed.ok \/ ~AllBindable(done) THEN Refuse
          ELSE /\ blocks' = relayed.blocks
               /\ body' = body \o done
               /\ batch' = NoBatch(next)
               /\ copyStatus' = IF next > Len(copyCase.operations) THEN "run" ELSE "prepare"
               /\ UNCHANGED <<copyCase, next, groups, packed, bytesOf>>

-------------------------------------------------------------------------------
(* The work, run on bytes: <<value, coordinates, byte>>, zero, or anything. *)

Zero == <<>>
Anything == <<0>>
Global(b, c) == [a \in DOMAIN c |-> c[a] + b.extents[a].start]
Logical(b, c) == \A a \in DOMAIN c : Global(b, c)[a] < b.extents[a].logical

\* Element n of a shard, byte k of it.
ElementOf(b, n) == n \div BytesOf(b.precision)
InitialByte(b, n) ==
    LET c == PackedCoordinates(b, ElementOf(b, n))
    IN  IF b.value = Staging \/ b.value < 0 THEN Anything
        ELSE IF Logical(b, c) THEN <<b.value, Global(b, c), n % BytesOf(b.precision)>> ELSE Zero

ByteSeq(trees) ==
    FoldLeft(LAMBDA all, s : all \o [n \in 1 .. s.bytes |-> s.offset + n - 1], <<>>, Spans(trees))

\* The byte a kernel stores at n: a pack reads the logical matrices densely, an
\* unpack the same coordinates; padding becomes zero.
KernelByte(s, d, bytes, n) ==
    LET c == PackedCoordinates(d, ElementOf(d, n))
        rank == Len(c)
        sizes == [a \in DOMAIN c |-> IF a <= rank - 2 THEN Width(d.extents[a])
                                     ELSE LogicalWidth(d.extents[a])]
        dense == FoldLeft(LAMBDA i, a : i * sizes[a] + c[a], 0, [a \in DOMAIN c |-> a])
        size == BytesOf(d.precision)
    IN  IF \E a \in {rank - 1, rank} : c[a] >= LogicalWidth(d.extents[a]) THEN Zero
        ELSE IF s.order.kind = "row" THEN bytes[dense * size + (n % size) + 1]
        ELSE bytes[ElementMap(s)[c] + (n % size) + 1]

\* What each byte of the target of some work is after it.
Stored(bytes, moves, from, n) ==
    IF \E m \in moves : m[2] = n THEN from[(CHOOSE m \in moves : m[2] = n)[1] + 1] ELSE bytes[n + 1]
MovesBy(w) ==
    IF w.kind = "copy" THEN MovesOf(w.what)
    ELSE LET s == ByteSeq(Walk(blocks, w.from, w.order))
             d == ByteSeq(Walk(blocks, w.to, w.order))
         IN  {<<s[n], d[n]>> : n \in DOMAIN s}
After(w, memory) ==
    LET b == w.to.block
        places == 0 .. Len(memory[b]) - 1
    IN  CASE w.kind = "clear" -> [n \in DOMAIN memory[b] |->
                                     IF n - 1 \in SpanBytes(w.what) THEN Zero ELSE memory[b][n]]
          [] w.kind = "kernel" -> [n \in DOMAIN memory[b] |->
                 KernelByte(blocks[w.from.block], blocks[b], memory[w.from.block], n - 1)]
          [] OTHER -> LET moves == MovesBy(w)
                      IN  [n \in DOMAIN memory[b] |->
                              Stored(memory[b], moves, memory[w.from.block], n - 1)]

Load ==
    /\ copyStatus = "run" /\ bytesOf = <<>>
    /\ bytesOf' = [b \in DOMAIN blocks |->
                      [n \in 1 .. StorageBytes(blocks[b]) |-> InitialByte(blocks[b], n - 1)]]
    /\ UNCHANGED <<copyCase, blocks, body, batch, next, groups, packed, copyStatus>>
RunWork ==
    /\ copyStatus = "run" /\ bytesOf # <<>> /\ body # <<>>
    /\ bytesOf' = [bytesOf EXCEPT ![Head(body).to.block] = After(Head(body), bytesOf)]
    /\ body' = Tail(body)
    /\ UNCHANGED <<copyCase, blocks, batch, next, groups, packed, copyStatus>>
FinishRun ==
    /\ copyStatus = "run" /\ bytesOf # <<>> /\ body = <<>>
    /\ copyStatus' = "done"
    /\ UNCHANGED <<copyCase, blocks, body, batch, next, groups, packed, bytesOf>>

CopyInit ==
    /\ copyCase \in CopyCases
    /\ blocks = copyCase.blocks
    /\ body = <<>> /\ batch = NoBatch(1)
    /\ next = 1 /\ groups = <<>> /\ packed = {}
    /\ copyStatus = "prepare" /\ bytesOf = <<>>
CopyNext ==
    \/ RearrangeLocally \/ MapOperation \/ PrepareOutput \/ Realize
    \/ Load \/ RunWork \/ FinishRun

-------------------------------------------------------------------------------
(* Properties. *)

\* The source coordinates of an output element, <<>> outside of the source:
\* coordinate_value of tests/mapping_semantics.rs.
Inside(point, shape) == \A a \in DOMAIN point : point[a] < shape[a]
Viewed(v, shape, p) ==
    IF v.reversed
    THEN [p EXCEPT ![v.split] = @ % shape[v.split],
                   ![v.merge] = @ * v.factor + (p[v.split] \div shape[v.split])]
    ELSE [p EXCEPT ![v.split] = @ + (p[v.merge] % v.factor) * (shape[v.split] \div v.factor),
                   ![v.merge] = @ \div v.factor]
SourcePoint(op, c) ==
    LET p == [a \in DOMAIN c |-> c[a] + (IF a \in DOMAIN op.offsets THEN op.offsets[a] ELSE 0)]
    IN  IF op.view = <<>> THEN IF Inside(p, op.shape) THEN p ELSE <<>>
        ELSE IF Inside(p, OutputShape(op.view[1], op.shape)) THEN Viewed(op.view[1], op.shape, p)
        ELSE <<>>
ExpectedByte(op, b, n) ==
    LET c == PackedCoordinates(b, ElementOf(b, n))
        p == SourcePoint(op, Global(b, c))
    IN  IF ~Logical(b, c) \/ p = <<>> THEN Zero
        ELSE <<blocks[op.inputs[1].block].value, p, n % BytesOf(b.precision)>>

(* When the work of a group of copies has run, whatever their layouts,       *)
(* owners, policies and packings, and whichever regions became local copies, *)
(* joined a multicast, went through relays, were packed before a send or     *)
(* staged behind one, every element of every output is the element of the    *)
(* source its coordinates name, and what no source gives, the padding        *)
(* included, is zero: no clear, copy or kernel of the group undoes another.  *)
CopiesAreRealized ==
    copyStatus = "done" =>
        \A i \in DOMAIN copyCase.operations :
            LET op == copyCase.operations[i]
            IN  \A o \in DOMAIN op.outputs :
                    \A n \in DOMAIN bytesOf[op.outputs[o]] :
                        bytesOf[op.outputs[o]][n] = ExpectedByte(op, blocks[op.outputs[o]], n - 1)
===============================================================================
