----------------------------- MODULE TensorLayout -----------------------------
(***************************************************************************)
(* Which tile owns which part of a tensor.  A layout distributes axes over *)
(* a tile group: `resolve` checks the declared tiling against a shape, pads *)
(* the axes, cuts them into partitions and tells each logical tile its     *)
(* shard, a half-open interval per axis whose tail is zero padding.  Flat  *)
(* ("linear") ownership cuts the canonical element order instead.          *)
(*                                                                         *)
(* On top of it: the layouts the library names (Layout's constructors) and *)
(* the grids of rows, columns and inner blocks over which the planner      *)
(* distributes a matrix product, with the operands each tile must hold.    *)
(*                                                                         *)
(* A shape is a sequence of widths, an axis of a layout is counted from    *)
(* the start (0 is the first) or from the end (1 is the last).  The sizes  *)
(* of the hardware's micro panels are constants, so that small tensors     *)
(* reach every case.                                                       *)
(***************************************************************************)
EXTENDS Integers, FiniteSets, SequencesExt

CONSTANTS
    LayoutCases,     \* the questions asked: layouts of shapes, grids, products
    Micro(_),        \* amp_micro_dimension of a precision: 32, 16 or 8 elements
    ColumnMicro,     \* AMP_COLUMN_MICRO: 16
    InnerBlock,      \* AMP_INNER_BLOCK: 64
    OutputBlock,     \* AMP_OUTPUT_COLUMN_BLOCK: 64
    ReductionGrain   \* the elements a row of a reduction is a multiple of: 8

VARIABLES
    layoutCase,      \* the question
    layoutStage,     \* "asked", "resolved" or "refused"
    placed           \* the tensors asked about, with the shards of every tile

layoutVars == <<layoutCase, layoutStage, placed>>

-------------------------------------------------------------------------------
(* Arithmetic of whole blocks. *)

CeilDiv(n, d) == (n + d - 1) \div d
RoundUp(n, d) == CeilDiv(n, d) * d
Divides(d, n) == n % d = 0
Least(a, b) == IF a < b THEN a ELSE b
Most(a, b) == IF a > b THEN a ELSE b
MulSeq(s) == FoldLeft(LAMBDA p, n : p * n, 1, s)

BytesOf(precision) == CASE precision = "f8" -> 1 [] precision = "f16" -> 2 [] OTHER -> 4

-------------------------------------------------------------------------------
(* Axis tilings and layouts. *)

Packed == -1  \* no explicit tile stride

NewAxis(axis, partitions, block, padding) ==
    [axis |-> axis, partitions |-> partitions, groups |-> 1, block |-> block, padTo |-> block,
     shardPad |-> 1, padding |-> padding, stride |-> Packed]

Start(n) == <<"start", n>>
End(n) == <<"end", n>>
Flat == <<"linear", 0>>

RowMajor == [kind |-> "row", rows |-> 0, columns |-> 0]
Amp(role) == [kind |-> role, rows |-> 0, columns |-> 0]
Blocked(rows, columns) == [kind |-> "block", rows |-> rows, columns |-> columns]
BlockedTransposed(rows, columns) == [kind |-> "tblock", rows |-> rows, columns |-> columns]

NewLayout(order, tiles, replicas, axes) ==
    [order |-> order, tiles |-> tiles, replicas |-> replicas, axes |-> axes]

Strided(axis, stride) == [axis EXCEPT !.stride = stride]

\* TensorAxis::resolve: the position of an axis in a shape, 0 if it has none.
ResolveAxis(axis, rank) ==
    IF axis[1] = "start" /\ axis[2] < rank THEN axis[2] + 1
    ELSE IF axis[1] = "end" /\ axis[2] \in 1 .. rank THEN rank - axis[2] + 1
    ELSE 0

\* TensorTiling::linear_grain: the grain of flat ownership, -1 without it.
LinearGrain(layout) ==
    IF Len(layout.axes) = 1 /\ layout.axes[1].axis = Flat THEN layout.axes[1].block ELSE -1

-------------------------------------------------------------------------------
(* Padded shapes and tile mappings: Layout::padded_shape. *)

\* TensorTiling::axis_strides: packed after the replicas and the axes before.
AxisStride(layout, i) ==
    IF layout.axes[i].stride # Packed THEN layout.axes[i].stride
    ELSE FoldLeft(LAMBDA p, a : p * a.partitions, layout.replicas, SubSeq(layout.axes, 1, i - 1))

AxisAccepts(a, extent) ==
    /\ 0 \notin {a.partitions, a.groups, a.block, a.padTo, a.shardPad}
    /\ Divides(a.groups, a.partitions)
    /\ Divides(a.groups, extent)
    /\ a.padding = "zero" \/ Divides(a.padTo, extent \div a.groups)
    /\ Divides(a.block, RoundUp(extent \div a.groups, a.padTo))

PaddedExtent(a, extent) == a.groups * RoundUp(extent \div a.groups, a.padTo)

FlatAccepts(layout, shape) ==
    LET grain == LinearGrain(layout)
        elements == MulSeq(shape)
    IN  /\ shape # <<>> /\ grain # 0
        /\ CeilDiv(elements, grain) >= layout.tiles
        /\ layout.axes[1].padding = "zero" \/ Divides(grain, elements)

\* has_regular_tile_mapping: the strides are the digits of a tile number.
RegularMapping(layout) ==
    LET digits == {<<AxisStride(layout, i), i>> :
                       i \in {j \in DOMAIN layout.axes : layout.axes[j].partitions > 1}}
        Parts(d) == layout.axes[d[2]].partitions
        Before(d) == {e \in digits : \/ e[1] < d[1]
                                     \/ e[1] = d[1] /\ Parts(e) < Parts(d)
                                     \/ e[1] = d[1] /\ Parts(e) = Parts(d) /\ e[2] < d[2]}
        base == Min({d[1] : d \in digits})
    IN  digits # {} =>
           /\ Divides(base, layout.replicas)
           /\ \A d \in digits : d[1] = FoldSet(LAMBDA e, p : p * Parts(e), base, Before(d))

TileCoordinate(layout, tile) ==
    [i \in DOMAIN layout.axes |->
        (tile \div AxisStride(layout, i)) % layout.axes[i].partitions]

\* Otherwise every coordinate must be some tile's, as often as there are replicas.
EveryCoordinateHeld(layout) ==
    LET tiles == 0 .. layout.tiles - 1
        coordinates == {TileCoordinate(layout, t) : t \in tiles}
    IN  /\ Cardinality(coordinates) = layout.tiles \div layout.replicas
        /\ \A c \in coordinates :
               Cardinality({t \in tiles : TileCoordinate(layout, t) = c}) = layout.replicas

Tiled(layout, shape) ==
    LET at == [i \in DOMAIN layout.axes |-> ResolveAxis(layout.axes[i].axis, Len(shape))]
    IN  /\ \A i \in DOMAIN at : at[i] # 0 /\ AxisAccepts(layout.axes[i], shape[at[i]])
        /\ \A i, j \in DOMAIN at : i # j => at[i] # at[j]
        /\ layout.tiles = FoldLeft(LAMBDA p, a : p * a.partitions, layout.replicas, layout.axes)
        /\ \A i \in DOMAIN at : AxisStride(layout, i) # 0
        /\ RegularMapping(layout) \/ EveryCoordinateHeld(layout)

Resolvable(layout, shape) ==
    /\ layout.tiles # 0 /\ layout.replicas # 0
    /\ IF LinearGrain(layout) # -1 THEN FlatAccepts(layout, shape) ELSE Tiled(layout, shape)

-------------------------------------------------------------------------------
(* Shards. *)

Extent(start, logical, physical) == [start |-> start, logical |-> logical, physical |-> physical]

\* The blocks of a group before a partition: the first partitions hold one more.
BlocksBefore(blocks, parts, p) == p * (blocks \div parts) + Least(p, blocks % parts)

\* Mutant: a group starts where the padded groups before it end.
ShardBoundsPadded(a, padded, logical, coordinate) ==
    LET perGroup == a.partitions \div a.groups
        group == coordinate \div perGroup
        p == coordinate % perGroup
        blocks == (padded \div a.groups) \div a.block
        start == BlocksBefore(blocks, perGroup, p) * a.block
        allocated == BlocksBefore(blocks, perGroup, p + 1) * a.block - start
        width == padded \div a.groups
    IN  Extent(group * width + start,
               group * width + Most(Least(start + allocated, logical \div a.groups), start),
               group * width + start + RoundUp(allocated, a.shardPad))

\* AxisTiling::shard_bounds
ShardBounds(a, padded, logical, coordinate) ==
    LET perGroup == a.partitions \div a.groups
        group == coordinate \div perGroup
        p == coordinate % perGroup
        blocks == (padded \div a.groups) \div a.block
        start == BlocksBefore(blocks, perGroup, p) * a.block
        allocated == BlocksBefore(blocks, perGroup, p + 1) * a.block - start
        width == logical \div a.groups
    IN  Extent(group * width + start,
               group * width + Most(Least(start + allocated, width), start),
               group * width + start + RoundUp(allocated, a.shardPad))

\* The padding of a shard is refused where the axis rejects padding.
ShardAccepts(a, padded, coordinate) ==
    LET perGroup == a.partitions \div a.groups
        blocks == (padded \div a.groups) \div a.block
        p == coordinate % perGroup
        allocated == (BlocksBefore(blocks, perGroup, p + 1) - BlocksBefore(blocks, perGroup, p))
                         * a.block
    IN  a.padding = "zero" \/ Divides(a.shardPad, allocated)

AxisOf(layout, shape, axis) ==
    {i \in DOMAIN layout.axes : ResolveAxis(layout.axes[i].axis, Len(shape)) = axis}

\* ResolvedAxis: the partitions of an axis and the tile stride of its coordinate.
ResolvedAxis(layout, shape, axis) ==
    IF AxisOf(layout, shape, axis) = {}
    THEN [parts |-> <<Extent(0, shape[axis], shape[axis])>>, stride |-> 1]
    ELSE LET i == CHOOSE j \in AxisOf(layout, shape, axis) : TRUE
             a == layout.axes[i]
         IN  [parts |-> [c \in 1 .. a.partitions |->
                            ShardBounds(a, PaddedExtent(a, shape[axis]), shape[axis], c - 1)],
              stride |-> AxisStride(layout, i)]

ResolvedAxes(layout, shape) == [axis \in DOMAIN shape |-> ResolvedAxis(layout, shape, axis)]

\* Layout::resolve fails where padded_shape or the bounds of a shard do.
Resolves(layout, shape) ==
    /\ Resolvable(layout, shape)
    /\ LinearGrain(layout) = -1 =>
           \A i \in DOMAIN layout.axes :
               LET a == layout.axes[i]
                   extent == shape[ResolveAxis(a.axis, Len(shape))]
               IN  \A c \in 0 .. a.partitions - 1 :
                       ShardAccepts(a, PaddedExtent(a, extent), c)

\* ResolvedAxis::extent
ExtentOn(resolved, tile) ==
    resolved.parts[1 + ((tile \div resolved.stride) % Len(resolved.parts))]

Width(extent) == extent.physical - extent.start
LogicalWidth(extent) == extent.logical - extent.start

\* ResolvedLayout::tile_elements
FlatElements(layout, shape, tile) ==
    LET grains == CeilDiv(MulSeq(shape), LinearGrain(layout))
    IN  (BlocksBefore(grains, layout.tiles, tile + 1) - BlocksBefore(grains, layout.tiles, tile))
            * LinearGrain(layout)

TileElements(layout, shape, tile) ==
    IF tile >= layout.tiles THEN 0
    ELSE IF LinearGrain(layout) # -1 THEN FlatElements(layout, shape, tile)
    ELSE MulSeq([axis \in DOMAIN shape |->
                    Width(ExtentOn(ResolvedAxis(layout, shape, axis), tile))])

\* ResolvedLayout::maximum_tile_elements
MaximumTileElements(layout, shape) ==
    IF LinearGrain(layout) # -1
    THEN CeilDiv(CeilDiv(MulSeq(shape), LinearGrain(layout)), layout.tiles) * LinearGrain(layout)
    ELSE MulSeq([axis \in DOMAIN shape |->
                    Max({Width(ResolvedAxis(layout, shape, axis).parts[c]) :
                            c \in DOMAIN ResolvedAxis(layout, shape, axis).parts})])

\* ResolvedLayout::has_empty_shards
HasEmptyShards(layout, shape) ==
    LinearGrain(layout) = -1 /\
    \E axis \in DOMAIN shape :
        LET parts == ResolvedAxis(layout, shape, axis).parts
        IN  \E c \in DOMAIN parts : LogicalWidth(parts[c]) = 0

\* One fragment of a flat interval [start, end) in a row: the padding of the
\* tile's allocation belongs to its last row only.
RowCoordinate(shape, row, axis) ==
    (row \div MulSeq(SubSeq(shape, axis + 1, Len(shape) - 1))) % shape[axis]

RowFragment(shape, row, start, end, tail) ==
    LET width == Last(shape)
        last == row + 1 = CeilDiv(end, width)
        left == IF row = start \div width THEN start % width ELSE 0
        right == IF last /\ ~Divides(width, end) THEN end % width ELSE width
    IN  [axis \in DOMAIN shape |->
            IF axis = Len(shape) THEN Extent(left, right, right + (IF last THEN tail ELSE 0))
            ELSE LET at == RowCoordinate(shape, row, axis) IN Extent(at, at + 1, at + 1)]

FlatShards(layout, shape, tile) ==
    LET grains == CeilDiv(MulSeq(shape), LinearGrain(layout))
        start == BlocksBefore(grains, layout.tiles, tile) * LinearGrain(layout)
        physical == start + TileElements(layout, shape, tile)
        end == Least(physical, MulSeq(shape))
        first == start \div Last(shape)
    IN  [n \in 1 .. CeilDiv(end, Last(shape)) - first |->
            RowFragment(shape, first + n - 1, start, end, physical - end)]

\* ResolvedLayout::shard_extents: the shards of a tile, in order.
Shards(layout, shape, tile) ==
    IF LinearGrain(layout) # -1 THEN FlatShards(layout, shape, tile)
    ELSE <<[axis \in DOMAIN shape |-> ExtentOn(ResolvedAxis(layout, shape, axis), tile)]>>

-------------------------------------------------------------------------------
(* Layout's constructors. *)

LogicalLinear(tiles, grain) ==
    NewLayout(RowMajor, tiles, 1, <<NewAxis(Flat, tiles, grain, "reject")>>)

RetainedLinear(layout, tiles, grain) == [LogicalLinear(tiles, grain) EXCEPT !.order = layout.order]

Replicated(tiles) == NewLayout(RowMajor, tiles, tiles, <<>>)
RowSharded(tiles) == NewLayout(RowMajor, tiles, 1, <<NewAxis(End(2), tiles, 1, "reject")>>)
HeadSharded(tiles) == NewLayout(RowMajor, tiles, 1, <<NewAxis(End(3), tiles, 1, "reject")>>)

AttentionOutput(heads, parts) ==
    NewLayout(RowMajor, heads * parts, 1,
              <<Strided(NewAxis(End(2), parts, 1, "reject"), heads),
                Strided(NewAxis(End(3), heads, 1, "reject"), 1),
                NewAxis(End(1), 1, ColumnMicro, "zero")>>)

AttentionQuery(heads, parts) == [AttentionOutput(heads, parts) EXCEPT !.order = Amp("left")]

AttentionKey(heads, parts) ==
    NewLayout(Amp("tright"), heads * parts, 1,
              <<Strided(NewAxis(End(3), heads, 1, "reject"), 1),
                Strided(NewAxis(End(2), parts, InnerBlock, "zero"), heads),
                NewAxis(End(1), 1, ColumnMicro, "zero")>>)

AttentionKeyValue(heads, parts) ==
    [AttentionKey(heads, parts) EXCEPT !.order = Blocked(InnerBlock, ColumnMicro)]

AmpLeft(inner, tiles) ==
    NewLayout(Amp("left"), tiles, 1,
              <<NewAxis(End(2), tiles, 1, "reject"), NewAxis(End(1), 1, inner, "zero")>>)

\* The stride of a row or a column coordinate of a grid, by the grid's order.
RowStride(order, columns) == IF order = "columns fast" THEN columns ELSE 1
ColumnStride(order, rows) == IF order = "columns fast" THEN 1 ELSE rows

AmpLeftGrid(inner, tiles, rows, columns, order) ==
    IF columns = 1 /\ rows = tiles THEN AmpLeft(inner, tiles)
    ELSE NewLayout(Amp("left"), tiles, columns,
                   <<Strided(NewAxis(End(2), rows, 1, "reject"), RowStride(order, columns)),
                     NewAxis(End(1), 1, inner, "zero")>>)

AmpLeftParallelGrid(inner, tiles, rows, columns, parts) ==
    NewLayout(Amp("left"), tiles, columns,
              <<NewAxis(End(1), parts, inner, "zero"), NewAxis(End(2), rows, 1, "reject")>>)

BlockMajorGrid(inner, block, tiles, rows, columns, order) ==
    NewLayout(Blocked(inner, ColumnMicro), tiles, rows,
              <<NewAxis(End(2), 1, inner, "zero"),
                Strided(NewAxis(End(1), columns, block, "zero"), ColumnStride(order, rows))>>)

BlockMajorStorage(inner, block, columns, parts, copies) ==
    NewLayout(Blocked(inner, ColumnMicro), columns * parts * copies, copies,
              <<Strided(NewAxis(End(1), columns, block, "zero"), 1),
                NewAxis(End(2), parts, inner, "zero")>>)

BlockMajorMatrix(inner, tiles) == BlockMajorStorage(inner, OutputBlock, tiles, 1, 1)

AmpLeftResultGrid(block, tiles, rows, columns, order) ==
    NewLayout(Amp("left"), tiles, 1,
              <<Strided(NewAxis(End(1), columns, block, "zero"), ColumnStride(order, rows)),
                Strided(NewAxis(End(2), rows, 1, "reject"), RowStride(order, columns))>>)

AmpLeftResult(tiles) == AmpLeft(OutputBlock, tiles)
AmpLeftResultReplicated(tiles, rows, copies) ==
    [AmpLeftResult(rows) EXCEPT !.tiles = tiles, !.replicas = copies]

TransposedAxis(axis) == IF axis = End(1) THEN End(2) ELSE IF axis = End(2) THEN End(1) ELSE axis
TransposeMatrixAxes(layout, order) ==
    [layout EXCEPT !.order = order,
                   !.axes = [i \in DOMAIN layout.axes |->
                                [layout.axes[i] EXCEPT !.axis = TransposedAxis(@)]]]

AmpTransposedLeftParallelGrid(inner, tiles, rows, columns, parts) ==
    TransposeMatrixAxes(AmpLeftParallelGrid(inner, tiles, rows, columns, parts), Amp("tleft"))
TransposedBlockMajorStorage(inner, block, columns, parts, copies) ==
    TransposeMatrixAxes(BlockMajorStorage(inner, block, columns, parts, copies),
                        BlockedTransposed(inner, ColumnMicro))
AmpTransposedLeftResultGrid(block, tiles, rows, columns, order) ==
    TransposeMatrixAxes(AmpLeftResultGrid(block, tiles, rows, columns, order), Amp("tleft"))

-------------------------------------------------------------------------------
(* Relations between layouts. *)

\* Broadcast::input_axis: the operand's axis an output axis selects, 0 if none.
BroadcastAxis(input, output, axis) ==
    LET a == axis - (Len(output) - Len(input))
    IN  IF a >= 1 /\ input[a] = output[axis] THEN a ELSE 0

\* broadcast_operand_tiling and project_tiling: the axes of the output the
\* operand has keep their tile strides, the others turn into replicas.
Projected(layout, input, output) ==
    LET AxisFor(i) == BroadcastAxis(input, output, ResolveAxis(layout.axes[i].axis, Len(output)))
        kept == SelectSeq([i \in DOMAIN layout.axes |-> i], LAMBDA i : AxisFor(i) # 0)
    IN  [layout EXCEPT
            !.replicas = FoldSet(LAMBDA i, p : p * layout.axes[i].partitions, @,
                                 {i \in DOMAIN layout.axes : AxisFor(i) = 0}),
            !.axes = [n \in DOMAIN kept |->
                         [Strided(layout.axes[kept[n]], AxisStride(layout, kept[n]))
                             EXCEPT !.axis = Start(AxisFor(kept[n]) - 1)]]]

BroadcastLayout(layout, input, output) ==
    IF input = output THEN layout ELSE Projected(layout, input, output)

\* Mutant: equal intervals, whichever tiles hold them.
SameIntervals(a, b) == a.parts = b.parts

\* ResolvedAxis::same_partitioning
SamePartitioning(a, b) ==
    a.parts = b.parts /\ (Len(a.parts) <= 1 \/ a.stride = b.stride)

PaddedShape(layout, shape) ==
    IF LinearGrain(layout) # -1 THEN shape
    ELSE [axis \in DOMAIN shape |->
             IF AxisOf(layout, shape, axis) = {} THEN shape[axis]
             ELSE PaddedExtent(layout.axes[CHOOSE i \in AxisOf(layout, shape, axis) : TRUE],
                               shape[axis])]

SameDistribution(a, b, shape) ==
    /\ a.tiles = b.tiles
    /\ Resolves(a, shape) /\ Resolves(b, shape)
    /\ PaddedShape(a, shape) = PaddedShape(b, shape)
    /\ \/ a.axes = b.axes /\ a.replicas = b.replicas
       \/ /\ LinearGrain(a) = -1 /\ LinearGrain(b) = -1
          /\ \A axis \in DOMAIN shape :
                 SamePartitioning(ResolvedAxis(a, shape, axis), ResolvedAxis(b, shape, axis))

-------------------------------------------------------------------------------
(* Distributed matrix products: planner/gemm.rs. *)

\* partitions: the counts that give a new width.
Partitions(extent, tiles) ==
    {n \in 1 .. Least(extent, tiles) : n = 1 \/ CeilDiv(extent, n) # CeilDiv(extent, n - 1)}

Grids(m, n, k, tiles) ==
    {g \in Partitions(m, tiles) \X (1 .. tiles) \X (1 .. tiles) :
        /\ g[2] \in Partitions(n, tiles \div g[1])
        /\ g[3] \in Partitions(k, tiles \div (g[1] * g[2]))}

OperandLayout(left, transposed, tiles, outer, inner, replicas, k, n) ==
    LET outerAxis == IF left # transposed THEN End(2) ELSE End(1)
        innerAxis == TransposedAxis(outerAxis)
        order == CASE left /\ transposed -> Amp("tleft")
                   [] left -> Amp("left")
                   [] transposed -> BlockedTransposed(k, ColumnMicro)
                   [] OTHER -> Blocked(k, ColumnMicro)
    IN  NewLayout(order, tiles, replicas,
                  <<Strided(NewAxis(outerAxis, outer, IF left THEN 1 ELSE n, "zero"),
                            IF left THEN inner * replicas ELSE 1),
                    Strided(NewAxis(innerAxis, inner, k, "zero"),
                            IF left THEN replicas ELSE outer)>>)

\* parameter_format: the balanced unreplicated partition with the smallest tile.
ParameterLayouts(shape, left, transposed, tiles) ==
    LET outer == IF left # transposed THEN Len(shape) - 1 ELSE Len(shape)
        inner == IF left # transposed THEN Len(shape) ELSE Len(shape) - 1
        counts == Partitions(CeilDiv(shape[outer], IF left THEN 1 ELSE ColumnMicro), tiles)
        Of(p) == LET q == Least(CeilDiv(shape[inner], ColumnMicro), tiles \div p)
                 IN  OperandLayout(left, transposed, p * q, p, q, 1, ColumnMicro, ColumnMicro)
    IN  [p \in counts |-> Of(p)]

ParameterLayout(shape, left, transposed, tiles) ==
    LET all == ParameterLayouts(shape, left, transposed, tiles)
        Score(p) == MaximumTileElements(all[p], shape)
        best == Min({Score(p) : p \in DOMAIN all})
    IN  all[Min({p \in DOMAIN all : Score(p) = best})]

\* A batch axis is cut in groups of matrices that end on a word.
SubWord(plane) == IF Divides(4, plane) THEN 1 ELSE IF Divides(2, plane) THEN 2 ELSE 4

BatchGrain(sources, rank, axis) ==
    Max({1} \cup
        {SubWord(MulSeq(SubSeq(s.shape, s.axis + 1, Len(s.shape))) * s.bytes) :
            s \in {r \in {[shape |-> t.shape, bytes |-> BytesOf(t.precision),
                           axis |-> axis + Len(t.shape) - rank] : t \in sources} :
                       r.axis >= 1 /\ r.shape[r.axis] # 1}})

BatchBlocks(extent, grain) == IF Divides(grain, extent) THEN extent \div grain ELSE 1

\* The ways to cut the batch axes: the groups of tiles used and the tilings.
Batches(sources, shape, tiles) ==
    LET rank == Len(shape)
        Cut(axis, grain, batch) ==
            {[used |-> batch.used * parts,
              axes |-> Append(batch.axes, NewAxis(End(rank - axis + 1), parts,
                                                  IF parts = 1 THEN 1 ELSE grain, "reject"))] :
                parts \in Partitions(BatchBlocks(shape[axis], grain), tiles \div batch.used)}
    IN  FoldLeft(LAMBDA all, axis : UNION {Cut(axis, BatchGrain(sources, rank, axis), b) : b \in all},
                 {[used |-> 1, axes |-> <<>>]}, [axis \in 1 .. rank - 2 |-> axis])

\* The tile strides of rows, columns and inner blocks in each order of the three.
GridStrides(grid) ==
    {[axis \in 1 .. 3 |->
        IF grid[axis] = 1 THEN 1
        ELSE FoldSet(LAMBDA a, p : p * grid[a], 1, {a \in 1 .. 3 : order[a] < order[axis]})] :
        order \in Permutations(1 .. 3)}

\* The batch axes of a choice are laid after its grid, and replicate an operand
\* that lacks them.
WithBatches(layout, shape, batches, from) ==
    LET Stride(i) == FoldLeft(LAMBDA p, a : p * a.partitions, from, SubSeq(batches, 1, i - 1))
        Has(a) == LET at == ResolveAxis(a.axis, Len(shape)) IN at # 0 /\ shape[at] # 1
        laid == [i \in DOMAIN batches |-> Strided(batches[i], Stride(i))]
    IN  [layout EXCEPT !.axes = @ \o SelectSeq(laid, Has),
                       !.replicas = FoldLeft(LAMBDA p, a : IF Has(a) THEN p ELSE p * a.partitions,
                                             @, batches)]

\* Rows of a swapped product are the output's columns: they end on a word.
GridOperand(layout, shape, grain, rowStride, innerStride, batches, cell, tiles) ==
    [WithBatches([layout EXCEPT
            !.axes[1].block = IF grain = 0 THEN @ ELSE grain,
            !.axes[1].padTo = IF grain = 0 THEN @ ELSE grain,
            !.axes[1].stride = rowStride,
            !.axes[2].stride = innerStride], shape, batches, cell)
        EXCEPT !.tiles = tiles]

ReducedAxis(axis) ==
    IF axis.axis = End(1)
    THEN [axis EXCEPT !.block = ReductionGrain, !.padTo = ReductionGrain,
                      !.shardPad = ReductionGrain]
    ELSE axis

\* The layout a reduction scatters the final sum to.
ReductionLayout(result, rows, columns, groups, rowFast) ==
    LET first == ReducedAxis([result.axes[1] EXCEPT !.partitions = rows])
        second == ReducedAxis([result.axes[2] EXCEPT !.partitions = columns, !.block = 1,
                                                     !.padTo = 1])
        batches == SubSeq(result.axes, 3, Len(result.axes))
        Stride(i) == FoldLeft(LAMBDA p, a : p * a.partitions, rows * columns,
                              SubSeq(batches, 1, i - 1))
    IN  [result EXCEPT
            !.order = RowMajor, !.tiles = rows * columns * groups,
            !.axes = <<Strided(first, IF rowFast THEN 1 ELSE columns),
                       Strided(second, IF rowFast THEN rows ELSE 1)>>
                     \o [i \in DOMAIN batches |-> Strided(batches[i], Stride(i))]]

Reductions(result, shape, grid, m, n, groups, rowFast) ==
    {layout \in {ReductionLayout(result, rc[1], rc[2], groups, rowFast) :
                    rc \in {s \in {<<grid[1], grid[2]>>, <<grid[1] * grid[3], grid[2]>>,
                                   <<grid[1], grid[2] * grid[3]>>} : s[1] <= m /\ s[2] <= n}} :
        Resolves(layout, shape) /\ ~HasEmptyShards(layout, shape)}

\* Shapes and transpositions of a product's kernel operands.
Oriented(p, swapped) ==
    [sources |-> IF swapped THEN <<p.sources[2], p.sources[1]>> ELSE p.sources,
     transpose |-> IF swapped THEN <<~p.transpose[2], ~p.transpose[1]>> ELSE p.transpose,
     m |-> p.shape[Len(p.shape) - (IF swapped THEN 0 ELSE 1)],
     n |-> p.shape[Len(p.shape) - (IF swapped THEN 1 ELSE 0)],
     k |-> p.sources[1].shape[Len(p.sources[1].shape) - (IF p.transpose[1] THEN 1 ELSE 0)],
     grain |-> IF swapped THEN 2 ELSE 1]

\* choices: the result keeps its inner coordinate as a first axis until reduced.
WithInnerAxis(layout, inner, stride) ==
    IF inner = 1 THEN layout
    ELSE [layout EXCEPT !.axes = Append(@, Strided(NewAxis(Start(0), inner, 1, "reject"), stride))]

ChoiceOn(p, o, swapped, batch, grid, strides, multiply) ==
    LET rows == grid[1]
        columns == grid[2]
        inner == grid[3]
        cell == rows * columns * inner
        tiles == cell * batch.used
        kw == CeilDiv(CeilDiv(o.k, Micro(multiply)), inner) * Micro(multiply)
        nw == CeilDiv(CeilDiv(o.n, ColumnMicro), columns) * ColumnMicro
        left == GridOperand(OperandLayout(TRUE, o.transpose[1], cell, rows, inner, columns, kw, nw),
                       o.sources[1].shape, o.grain, strides[1], strides[3], batch.axes, cell, tiles)
        right == GridOperand(OperandLayout(FALSE, o.transpose[2], cell, columns, inner, rows, kw, nw),
                        o.sources[2].shape, 0, strides[2], strides[3], batch.axes, cell, tiles)
        result == GridOperand(OperandLayout(TRUE, swapped, tiles, rows, columns, 1, nw, nw),
                         p.shape, o.grain, strides[1], strides[2], batch.axes, cell, tiles)
    IN  [swapped |-> swapped, left |-> left, right |-> right, inner |-> inner,
         result |-> WithInnerAxis(result, inner, strides[3]),
         reductions |-> IF inner = 1 THEN {}
                        ELSE Reductions(result, p.shape, grid, o.m, o.n, batch.used,
                                        strides[1] < strides[2])]

Multiplied(p) ==
    IF "f16" \in {p.sources[1].precision, p.sources[2].precision}
    THEN IF p.sources[1].precision = "f16" THEN p.sources[2].precision ELSE p.sources[1].precision
    ELSE p.sources[1].precision

ProductChoices(p) ==
    UNION {UNION {UNION {
        {ChoiceOn(p, Oriented(p, swapped), swapped, batch, grid, strides, Multiplied(p)) :
            strides \in GridStrides(grid)} :
        grid \in Grids(CeilDiv(Oriented(p, swapped).m, Oriented(p, swapped).grain),
                       CeilDiv(Oriented(p, swapped).n, ColumnMicro),
                       CeilDiv(Oriented(p, swapped).k, Micro(Multiplied(p))),
                       p.tiles \div batch.used)} :
        batch \in Batches({p.sources[1], p.sources[2]}, p.shape, p.tiles)} :
        swapped \in BOOLEAN}

\* generate keeps the choices whose tensors resolve, and whose tiles hold whole
\* words of a result that is to be redistributed.
PartialShape(p, choice) == IF choice.inner = 1 THEN p.shape ELSE <<choice.inner>> \o p.shape

WholeWords(layout, shape) ==
    layout.tiles = 1 \/ \A t \in 0 .. layout.tiles - 1 : \A n \in DOMAIN Shards(layout, shape, t) :
        LET shard == Shards(layout, shape, t)[n]
        IN  Divides(2, MulSeq([axis \in DOMAIN shape |-> LogicalWidth(shard[axis])]))

Offered(p, o, choice) ==
    /\ choice.inner = 1 \/ choice.reductions # {}
    /\ Resolves(choice.left, o.sources[1].shape)
    /\ Resolves(choice.right, o.sources[2].shape)
    /\ Resolves(choice.result, PartialShape(p, choice))
    /\ WholeWords(choice.result, PartialShape(p, choice))

OfferedChoices(p) ==
    {choice \in ProductChoices(p) : Offered(p, Oriented(p, choice.swapped), choice)}

-------------------------------------------------------------------------------
(* The questions and their answers. *)

WithShards(shape, layout) ==
    [shape |-> shape, layout |-> layout,
     shards |-> [t \in 0 .. layout.tiles - 1 |-> Shards(layout, shape, t)]]

\* The tensors a case names: a layout, two to be compared, an output with an
\* operand broadcast into it, or a grid's left operand, right operand and result.
NamedTensors(c) ==
    CASE c.kind = "layout" -> <<<<c.shape, c.layout>>>>
      [] c.kind = "same" -> <<<<c.shape, c.layout>>, <<c.shape, c.other>>>>
      [] c.kind = "broadcast" -> <<<<c.input, BroadcastLayout(c.layout, c.input, c.shape)>>,
                                   <<c.shape, c.layout>>>>
      [] c.kind = "grid" -> <<<<c.left, c.layouts[1]>>, <<c.right, c.layouts[2]>>,
                              <<c.shape, c.layouts[3]>>>>
      [] c.kind = "product" -> <<>>

ResolveAll(tensors) == [i \in DOMAIN tensors |-> WithShards(tensors[i][1], tensors[i][2])]
AllResolve(tensors) == \A i \in DOMAIN tensors : Resolves(tensors[i][2], tensors[i][1])

Answered(tensors) == IF AllResolve(tensors) THEN ResolveAll(tensors) ELSE <<>>

ResolveTensors ==
    /\ layoutStage = "asked" /\ layoutCase.kind # "product"
    /\ placed' = Answered(NamedTensors(layoutCase))
    /\ layoutStage' = IF placed' = <<>> THEN "refused" ELSE "resolved"
    /\ UNCHANGED layoutCase

\* One of the assignments a product may take, with each reduction offered for it.
ProductTensors(p, o, choice) ==
    <<<<o.sources[1].shape, choice.left>>, <<o.sources[2].shape, choice.right>>,
      <<PartialShape(p, choice), choice.result>>>>
        \o [i \in DOMAIN SetToSeq(choice.reductions) |->
               <<p.shape, SetToSeq(choice.reductions)[i]>>]

ChooseProduct ==
    /\ layoutStage = "asked" /\ layoutCase.kind = "product"
    /\ \E choice \in OfferedChoices(layoutCase) :
           /\ placed' = ResolveAll(ProductTensors(layoutCase, Oriented(layoutCase, choice.swapped),
                                                  choice))
           /\ layoutCase' = [layoutCase EXCEPT !.swapped = choice.swapped]
    /\ layoutStage' = "resolved"

\* What is asked about: layouts with natural counts, tensors without an empty axis.
AxisTilings ==
    [axis : {"start", "end", "linear"} \X Nat, partitions : Nat, groups : Nat, block : Nat,
     padTo : Nat, shardPad : Nat, padding : {"zero", "reject"}, stride : Nat \cup {Packed}]

IsLayout(layout) ==
    layout.tiles \in Nat /\ layout.replicas \in Nat /\ layout.axes \in Seq(AxisTilings)

IsShape(shape) == shape \in Seq(Nat \ {0})

AreTensors(tensors) == \A i \in DOMAIN tensors : IsShape(tensors[i][1]) /\ IsLayout(tensors[i][2])

ASSUME LayoutAssumption ==
    \A c \in LayoutCases :
        IF c.kind = "product"
        THEN \A choice \in OfferedChoices(c) :
                 AreTensors(ProductTensors(c, Oriented(c, choice.swapped), choice))
        ELSE AreTensors(NamedTensors(c))

LayoutInit ==
    /\ layoutCase \in LayoutCases
    /\ layoutStage = "asked"
    /\ placed = <<>>

LayoutNext == ResolveTensors \/ ChooseProduct

-------------------------------------------------------------------------------
(* Properties. *)

Coordinates(shape) ==
    {c \in [DOMAIN shape -> 0 .. Max(Range(shape)) - 1] : \A a \in DOMAIN shape : c[a] < shape[a]}

Holds(shard, c) == \A a \in DOMAIN shard : shard[a].start <= c[a] /\ c[a] < shard[a].logical

Holders(tensor, c) ==
    {at \in (DOMAIN tensor.shards) \X (1 .. MulSeq(tensor.shape)) :
        at[2] \in DOMAIN tensor.shards[at[1]] /\ Holds(tensor.shards[at[1]][at[2]], c)}

ShardVolume(shard) == MulSeq([a \in DOMAIN shard |-> Width(shard[a])])
Sane(shard) ==
    \A a \in DOMAIN shard : shard[a].start <= shard[a].logical /\ shard[a].logical <= shard[a].physical

(* Whatever tiling is accepted, every element of the tensor is in exactly as *)
(* many shards as there are replicas, however the axes are grouped, padded,  *)
(* cut and strided; the shards of a tile fill what tile_elements says it     *)
(* allocates, which maximum_tile_elements bounds.                            *)
EveryElementIsOwned ==
    \A i \in DOMAIN placed :
        LET tensor == placed[i]
            flat == LinearGrain(tensor.layout) # -1
        IN  /\ \A c \in Coordinates(tensor.shape) :
                   Cardinality(Holders(tensor, c)) = IF flat THEN 1 ELSE tensor.layout.replicas
            /\ \A t \in DOMAIN tensor.shards :
                   LET shards == tensor.shards[t]
                       elements == FoldLeft(LAMBDA sum, s : sum + ShardVolume(s), 0, shards)
                   IN  /\ \A n \in DOMAIN shards : Sane(shards[n])
                       /\ elements = TileElements(tensor.layout, tensor.shape, t)
                       /\ elements <= MaximumTileElements(tensor.layout, tensor.shape)

ShardOn(i, t) == placed[i].shards[t][1]
FromLast(shard, n) == shard[Len(shard) - n + 1]
SameInterval(e, f) == e.start = f.start /\ e.logical = f.logical /\ e.physical = f.physical

\* The part of an operand's axis that a product uses, whichever way it is stored.
RowsOf(shard, transposed) == FromLast(shard, IF transposed THEN 1 ELSE 2)
ColumnsOf(shard, transposed) == FromLast(shard, IF transposed THEN 2 ELSE 1)

\* A coordinate of the output selects one of the operand, broadcast axes being 0.
Selects(c, input, output) ==
    [a \in DOMAIN input |->
        IF input[a] = output[a + Len(output) - Len(input)]
        THEN c[a + Len(output) - Len(input)] ELSE 0]

\* The tile multiplies rows it holds by columns it holds over the same inner block.
LocalProduct(t, swapped, transpose) ==
    LET left == ShardOn(1, t)
        right == ShardOn(2, t)
        result == ShardOn(3, t)
    IN  /\ SameInterval(RowsOf(left, transpose[1]), RowsOf(result, swapped))
        /\ SameInterval(ColumnsOf(right, transpose[2]), ColumnsOf(result, swapped))
        /\ SameInterval(ColumnsOf(left, transpose[1]), RowsOf(right, transpose[2]))

\* The inner indices multiplied into an element of the output by the tiles that
\* hold it: one tile for each of its inner blocks.
InnerParts(c, rank, swapped, transpose) ==
    {part \in (DOMAIN placed[3].shards) \X (0 .. 15) :
        LET shard == ShardOn(3, part[1])
            inner == ColumnsOf(ShardOn(1, part[1]), transpose[1])
        IN  /\ Holds(SubSeq(shard, Len(shard) - rank + 1, Len(shard)), c)
            /\ inner.start <= part[2] /\ part[2] < inner.logical}

BatchesMeet(t, rank) ==
    LET result == ShardOn(3, t)
        offset == Len(placed[3].shape) - rank
    IN  \A i \in 1 .. 2 : \A a \in 1 .. Len(placed[i].shape) - 2 :
            LET at == a + rank - Len(placed[i].shape)
            IN  IF placed[i].shape[a] = 1 THEN ShardOn(i, t)[a].logical = 1
                ELSE SameInterval(ShardOn(i, t)[a], result[at + offset])

ProductMeets(p) ==
    LET o == Oriented(p, p.swapped)
        rank == Len(p.shape)
    IN  /\ \A t \in DOMAIN placed[3].shards :
               LocalProduct(t, p.swapped, o.transpose) /\ BatchesMeet(t, rank)
        /\ \A c \in Coordinates(p.shape) :
               LET parts == InnerParts(c, rank, p.swapped, o.transpose)
               IN  /\ {part[2] : part \in parts} = 0 .. o.k - 1
                   /\ Cardinality(parts) = o.k

(* Tensors that one local kernel reads and writes meet on its tile: layouts   *)
(* reported to have the same distribution have the same shards; an operand    *)
(* projected from its output's layout holds what every element of the tile's  *)
(* output selects; the operands of a grid hold the rows and the columns of    *)
(* the tile's result; and the tiles that an assignment of a matrix product    *)
(* gives an output element multiply each inner index into it exactly once.    *)
OperandsMeet ==
    layoutStage = "resolved" =>
        CASE layoutCase.kind = "same" ->
                 SameDistribution(layoutCase.layout, layoutCase.other, layoutCase.shape)
                     => placed[1].shards = placed[2].shards
          [] layoutCase.kind = "broadcast" ->
                 \A t \in DOMAIN placed[2].shards : \A c \in Coordinates(layoutCase.shape) :
                     Holds(ShardOn(2, t), c)
                         => Holds(ShardOn(1, t), Selects(c, layoutCase.input, layoutCase.shape))
          [] layoutCase.kind = "grid" ->
                 \A t \in DOMAIN placed[3].shards :
                     /\ SameInterval(RowsOf(ShardOn(1, t), FALSE), RowsOf(ShardOn(3, t), FALSE))
                     /\ SameInterval(ColumnsOf(ShardOn(2, t), FALSE), ColumnsOf(ShardOn(3, t), FALSE))
          [] layoutCase.kind = "product" -> ProductMeets(layoutCase)
          [] OTHER -> TRUE
===============================================================================
