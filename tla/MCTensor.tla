----------------------------- MODULE MCTensor -----------------------------
(***************************************************************************)
(* Layouts and storage, each asked by itself: micro panels of four by two  *)
(* elements (FP8) and two by two (FP16), tensors on up to six tiles, shards *)
(* of up to 64 elements, one thread or two racing on tables of one, three  *)
(* or nine entries. Copies of up to 24 elements run on six tiles.           *)
(***************************************************************************)
EXTENDS CopyExpansion

MCMicro(precision) == IF precision = "f8" THEN 4 ELSE 2

\* Any two axes with any strides; most of these are refused.
AnyAxis(axis) ==
    {[NewAxis(axis, parts, block, padding) EXCEPT !.stride = stride] :
        parts \in {1, 2, 3}, block \in {1, 2}, padding \in {"reject", "zero"},
        stride \in {Packed, 1, 2, 3}}
Grouped ==
    {[NewAxis(End(1), parts, block, padding) EXCEPT !.groups = 2, !.padTo = padTo, !.shardPad = pad] :
        parts \in {2, 4}, block \in {1, 2}, padTo \in {2, 4}, pad \in {1, 3},
        padding \in {"reject", "zero"}}
Product(axes) == FoldLeft(LAMBDA p, a : p * a.partitions, 1, axes)
Declared(axes, replicas) == NewLayout(RowMajor, Product(axes) * replicas, replicas, axes)

Ask(shape, layout) == [kind |-> "layout", shape |-> shape, layout |-> layout]
StrideCases ==
    {Ask(<<3, 5>>, Declared(<<a, b>>, r)) : a \in {x \in AnyAxis(End(2)) : x.block = 1},
                                           b \in AnyAxis(Start(1)), r \in {1, 2}}
GroupCases == {Ask(<<2, n>>, Declared(<<a>>, 1)) : a \in Grouped, n \in {2, 6, 10}}
FlatCases ==
    {Ask(shape, [LogicalLinear(tiles, grain) EXCEPT !.axes[1].padding = padding]) :
        shape \in {<<3, 5>>, <<2, 2, 3>>, <<7>>}, tiles \in 1 .. 4, grain \in {1, 2, 4},
        padding \in {"reject", "zero"}}
NamedCases ==
    {Ask(<<2, 6, 4>>, layout) : layout \in
        {AttentionOutput(2, 3), AttentionKey(2, 2), AttentionKeyValue(2, 1), HeadSharded(2),
         RowSharded(3), Replicated(2), AmpLeftResultReplicated(6, 3, 2), AmpLeft(4, 2),
         AmpLeftParallelGrid(2, 6, 3, 1, 2), AmpTransposedLeftParallelGrid(2, 4, 2, 1, 2),
         BlockMajorMatrix(4, 2), TransposedBlockMajorStorage(2, 4, 2, 2, 2),
         AmpTransposedLeftResultGrid(4, 4, 2, 2, "rows fast")}}
    \cup {Ask(<<9, 6>>, ParameterLayout(<<9, 6>>, left, transposed, 5)) :
            left \in BOOLEAN, transposed \in BOOLEAN}

SameCases ==
    {[kind |-> "same", shape |-> <<3, 4>>, layout |-> Declared(<<a, b>>, 1),
      other |-> Declared(<<c, d>>, 1)] :
        a, c \in {x \in AnyAxis(End(2)) : x.block = 1 /\ x.padding = "zero" /\ x.stride # 3},
        b, d \in {x \in AnyAxis(End(1)) : x.padding = "zero" /\ x.partitions < 3 /\ x.stride < 2}}
BroadcastCases ==
    {[kind |-> "broadcast", shape |-> <<2, 3, 4>>, input |-> input, layout |-> Declared(<<a, b>>, r)] :
        input \in {<<4>>, <<3, 1>>, <<1, 3, 4>>, <<2, 1, 4>>, <<2, 3, 4>>}, r \in {1, 2},
        a \in {x \in AnyAxis(Start(0)) : x.block = 1 /\ x.padding = "zero" /\ x.stride \in {Packed, 2}},
        b \in {x \in AnyAxis(End(1)) : x.padding = "zero" /\ x.partitions < 3 /\ x.stride < 2}}
Grid(m, k, n, rows, columns, order) ==
    [kind |-> "grid", shape |-> <<m, n>>, left |-> <<m, k>>, right |-> <<k, n>>,
     layouts |-> <<AmpLeftGrid(2, rows * columns, rows, columns, order),
                   BlockMajorGrid(2, 2, rows * columns, rows, columns, order),
                   AmpLeftResultGrid(2, rows * columns, rows, columns, order)>>]
GridCases ==
    {Grid(m, 3, 5, rows, columns, order) : m \in {3, 4}, rows \in 1 .. 3, columns \in 1 .. 3,
                                           order \in {"columns fast", "rows fast"}}

Source(shape, precision) == [shape |-> shape, precision |-> precision]
Problem(left, right, shape, transpose, tiles) ==
    [kind |-> "product", sources |-> <<left, right>>, shape |-> shape, transpose |-> transpose,
     tiles |-> tiles, swapped |-> FALSE]
ProductCases ==
    {Problem(Source(<<4, 5>>, "f16"), Source(<<5, 6>>, "f16"), <<4, 6>>, <<FALSE, FALSE>>, 4),
     Problem(Source(<<5, 4>>, "f8"), Source(<<5, 6>>, "f16"), <<4, 6>>, <<TRUE, FALSE>>, 5),
     Problem(Source(<<2, 2, 5>>, "f16"), Source(<<3, 5>>, "f16"), <<2, 2, 3>>, <<FALSE, TRUE>>, 6),
     Problem(Source(<<4, 2, 3>>, "f16"), Source(<<1, 3, 3>>, "f16"), <<4, 2, 3>>, <<FALSE, FALSE>>, 4)}

MCLayoutCases ==
    StrideCases \cup GroupCases \cup FlatCases \cup NamedCases \cup SameCases \cup BroadcastCases
        \cup GridCases \cup ProductCases

-------------------------------------------------------------------------------
Whole(widths) == [a \in DOMAIN widths |-> Extent(0, widths[a], widths[a])]
\* A shard that starts elsewhere in its tensor, with padding on its last axis.
Away(widths) == [a \in DOMAIN widths |->
                    Extent(8, IF a = Len(widths) THEN 7 + widths[a] ELSE 8 + widths[a], 8 + widths[a])]
View(shard, bounds) ==
    [a \in DOMAIN bounds |-> Extent(shard.extents[a].start + bounds[a][1],
                                    shard.extents[a].start + bounds[a][2],
                                    shard.extents[a].start + bounds[a][2])]

Orders == {RowMajor, Amp("left"), Amp("tleft"), Amp("tright"), Blocked(4, 2), BlockedTransposed(4, 2)}
Map(source, target, from, to) ==
    [source |-> source, from |-> View(source, from), to |-> View(target, to)]

Alone(source, target, from, to, order) ==
    [queries |-> <<[target |-> target, order |-> order,
                    maps |-> <<Map(source, target, from, to)>>]>>, limit |-> 9]

Slices == {<<<<0, 2>>, <<0, 4>>, <<0, 8>>>>, <<<<1, 2>>, <<1, 3>>, <<2, 7>>>>,
           <<<<0, 1>>, <<2, 4>>, <<4, 8>>>>}
SemanticCases ==
    {Alone(Shard(a, precision, Whole(<<2, 4, 8>>)), Shard(b, precision, Away(<<2, 4, 8>>)), s, s,
           "semantic") :
        a \in Orders, b \in Orders, precision \in {"f8", "f16"}, s \in Slices}
PhysicalCases ==
    {Alone(Shard(a, "f16", Whole(<<4, 8>>)), Shard(b, "f16", Whole(<<4, 8>>)), s, s, "physical") :
        a \in Orders, b \in Orders,
        s \in {<<<<0, 4>>, <<0, 8>>>>, <<<<1, 3>>, <<3, 7>>>>}}
\* Orders with the same panels, in blocks of other sizes and other allocations.
PanelCases ==
    {Alone(Shard(a, "f16", Whole(<<4, 8>>)), Shard(b, "f16", Whole(<<8, 8>>)),
           <<<<s, s + 2>>, <<2, 6>>>>, <<<<s + 2, s + 4>>, <<4, 8>>>>, "panels") :
        s \in {0, 2},
        a \in {Amp("left"), Amp("tright"), BlockedTransposed(4, 2)},
        b \in {Amp("left"), Amp("tright"), BlockedTransposed(2, 4)}}
    \cup {Alone(Shard(a, "f16", Whole(<<4, 8>>)), Shard(b, "f16", Whole(<<8, 8>>)),
                <<<<0, 4>>, <<2, 6>>>>, <<<<2, 6>>, <<4, 8>>>>, "panels") :
            a, b \in {Amp("tleft"), Blocked(4, 2)}}

Rows4 == Shard(RowMajor, "f16", Whole(<<2, 4>>))
Wide == Shard(RowMajor, "f16", Whole(<<2, 6>>))
Panels4 == Shard(Amp("left"), "f16", Whole(<<2, 4>>))
Query(target, order, maps) == [target |-> target, order |-> order, maps |-> maps]
Left == <<<<0, 2>>, <<0, 3>>>>
Right == <<<<0, 2>>, <<2, 4>>>>
All == <<<<0, 2>>, <<0, 4>>>>
Copied == Query(Panels4, "semantic", <<Map(Rows4, Panels4, All, All)>>)
Widened == Query(Panels4, "semantic", <<Map(Wide, Panels4, All, All)>>)
Halves == Query(Rows4, "semantic", <<Map(Rows4, Rows4, Left, Left), Map(Rows4, Rows4, Right, Right)>>)
Raw == Query(Rows4, "physical", <<Map(Panels4, Rows4, All, All)>>)
Race(q, r, limit) == [queries |-> <<q, r>>, limit |-> limit]
RacingCases ==
    {Race(Copied, Copied, 1), Race(Copied, Copied, 9), Race(Copied, Widened, 3),
     Race(Copied, Widened, 9), Race(Copied, Raw, 9), Race(Raw, Raw, 9), Race(Raw, Raw, 1),
     Race(Raw, Halves, 9)}

MCStorageCases == SemanticCases \cup PhysicalCases \cup PanelCases \cup RacingCases
-------------------------------------------------------------------------------
\* The shards of a tensor, its layout's first tile at `first` of all the tiles.
AllTiles == 6
Spread(axis, parts, block, padTo, pad) ==
    [NewAxis(axis, parts, block, "zero") EXCEPT !.padTo = padTo, !.shardPad = pad]
Words == {RowSharded(2), Replicated(1), Replicated(2),
          NewLayout(RowMajor, 4, 2, <<Spread(End(1), 2, 2, 4, 2)>>),
          NewLayout(RowMajor, 2, 1, <<Spread(End(1), 2, 2, 2, 4)>>)}
Halves1 == {RowSharded(2), Replicated(1), AmpLeft(2, 2), AmpLeftResultReplicated(4, 2, 2),
            TransposeMatrixAxes(AmpLeft(2, 2), Amp("tleft")), BlockMajorMatrix(4, 2),
            TransposeMatrixAxes(AmpLeft(4, 2), Amp("tright")),
            TransposedBlockMajorStorage(4, 4, 2, 1, 1)}
Cut(order, parts, replicas) ==
    NewLayout(order, parts * replicas, replicas, <<NewAxis(End(2), parts, 1, "reject")>>)

\* A copy asked for: from, shape, to, shape, precision, the first tile of the
\* output, view, offsets, policy and packing.
Asks(layouts, shapes, precision, shifts, how) ==
    {<<l[1], s[1], l[2], s[2], precision, shift, s[3], s[4], h[1], h[2]>> :
        l \in layouts, s \in shapes, shift \in shifts, h \in how}
Pairs(layouts) == layouts \X layouts
Kept(shape) == <<shape, shape, <<>>, <<>>>>
Window(shape, outShape, offsets) == <<shape, outShape, <<>>, offsets>>
Factored(shape, split, merge, reversed) ==
    LET v == [split |-> split, merge |-> merge, factor |-> 2, reversed |-> reversed]
    IN  <<shape, OutputShape(v, shape), <<v>>, <<>>>>
Auto == {<<"auto", "staged">>, <<"auto", "direct">>}

WordCopies ==
    Asks(Pairs(Words), {Window(<<4, 6>>, outShape, offsets) :
                         outShape \in {<<4, 6>>, <<2, 4>>}, offsets \in {<<>>, <<1, 1>>}},
         "f32", {0, 1}, {<<"auto", "staged">>})
\* Between orders, of elements that fill half a word. Of one order a window
\* starts at a whole matrix: only such a copy is planned.
Unlike == {l \in Pairs(Halves1) : l[1].order # l[2].order \/ l[1].order = RowMajor}
Alike == {l \in Pairs(Halves1) : l[1].order = l[2].order}
HalfCopies ==
    Asks(Pairs(Halves1), {Kept(<<4, 8>>)}, "f16", {1}, {<<"auto", "direct">>, <<"stage", "staged">>})
    \cup Asks(Pairs(Halves1), {Kept(<<2, 4, 6>>), Window(<<2, 4, 8>>, <<1, 4, 8>>, <<1>>)}, "f16", {1},
              {<<"auto", "staged">>})
    \cup Asks(Alike, {Kept(<<4, 8>>)}, "f16", {0, 1}, {<<"direct", "direct">>})
    \cup Asks(Unlike, {Window(<<4, 8>>, <<2, 5>>, o) : o \in {<<1, 3>>, <<3, 4>>}}, "f16", {1},
              {<<"auto", "staged">>})
ViewCopies ==
    Asks(Pairs(Halves1), {Factored(<<2, 4, 8>>, 3, 1, FALSE), Factored(<<2, 4, 8>>, 2, 1, FALSE)},
         "f16", {1}, {<<"auto", "direct">>})
    \cup Asks(Pairs(Halves1), {Factored(<<2, 4, 8>>, 3, 1, TRUE)}, "f16", {1}, {<<"auto", "staged">>})
\* Quarter words: panels of four bytes.
QuarterCopies ==
    Asks(Pairs({RowSharded(2), Replicated(2), AmpLeft(4, 2), BlockMajorMatrix(4, 2)}), {Kept(<<4, 16>>)},
         "f8", {0, 1}, Auto)
\* Rearranged where they are; relayed through the tiles that are left.
LocalCopies ==
    Asks({<<Cut(o, 2, 1), Cut(q, 2, 1)>> :
             o \in {RowMajor, Amp("tleft"), Blocked(2, 2), BlockedTransposed(2, 2)},
             q \in {RowMajor, Amp("left"), Amp("tright"), Blocked(2, 2)}},
         {Kept(<<4, 8>>)}, "f16", {0}, {<<"local", "staged">>})
GatherCopies ==
    Asks({<<Cut(o, parts, 1), NewLayout(o, 2, 2, <<>>)>> :
             o \in {RowMajor, Amp("left"), Amp("tleft")}, parts \in {1, 2, 4}},
         {Kept(<<1, 4, 4>>), Kept(<<2, 4, 4>>)}, "f16", {1, 3}, {<<"gather", "staged">>})

\* Two copies in one group: each has its blocks after those of the one before.
Single == {<<ask>> : ask \in WordCopies \cup HalfCopies \cup ViewCopies \cup QuarterCopies
                               \cup LocalCopies \cup GatherCopies}
Two == {<<a, b>> : a \in {x \in GatherCopies : x[2] = <<1, 4, 4>> /\ x[6] = 1},
                   b \in Asks({<<RowSharded(2), Replicated(3)>>}, {Kept(<<4, 6>>)}, "f32", {0, 1},
                              {<<"auto", "staged">>, <<"gather", "staged">>})}

BlocksOf(value, layout, shape, precision, first) ==
    FlattenSeq([t \in 1 .. layout.tiles |->
        LET on == Shards(layout, shape, t - 1)
        IN  [n \in DOMAIN on |->
                Block(value, (t - 1 + first) % AllTiles, shape, layout.order, precision, on[n])]])
BothSides(n, a) == <<BlocksOf(n, a[1], a[2], a[5], 0), BlocksOf(-n, a[3], a[4], a[5], a[6])>>
Added(case, a, sides) ==
    LET before == Len(case.blocks)
        between == before + Len(sides[1])
        list == (case.blocks \o sides[1]) \o sides[2]
    IN  [case EXCEPT !.blocks = list,
            !.operations = Append(@,
                [inputs |-> [n \in DOMAIN sides[1] |-> FullView(list, before + n)],
                 outputs |-> [n \in DOMAIN sides[2] |-> between + n],
                 view |-> a[7], offsets |-> a[8], policy |-> a[9], packing |-> a[10], shape |-> a[2]])]
NoCopies == [tiles |-> AllTiles, blocks |-> <<>>, operations |-> <<>>]
CaseOf(asks) ==
    FoldLeft(LAMBDA case, n : Added(case, asks[n], BothSides(n, asks[n])), NoCopies,
             [n \in DOMAIN asks |-> n])
MCCopyCases == {c \in {CaseOf(asks) : asks \in Single \cup Two} :
                    \A b \in DOMAIN c.blocks : Packs(c.blocks[b])}

-------------------------------------------------------------------------------
NoStorage ==
    /\ storageCase = [queries |-> <<>>, limit |-> 0]
    /\ cacheViews = <<>> /\ cachePairs = <<>> /\ cacheDestinations = <<>>
    /\ nextView = 0 /\ seekers = <<>>
NoLayout == layoutCase = <<>> /\ layoutStage = "idle" /\ placed = <<>>

NoCopy ==
    /\ copyCase = NoCopies /\ blocks = <<>> /\ body = <<>> /\ batch = NoBatch(1) /\ next = 1
    /\ groups = <<>> /\ packed = {} /\ copyStatus = "idle" /\ bytesOf = <<>>

TensorsInit ==
    \/ LayoutInit /\ NoStorage /\ NoCopy
    \/ NoLayout /\ StorageInit /\ NoCopy
    \/ NoLayout /\ NoStorage /\ CopyInit
TensorsNext ==
    \/ LayoutNext /\ UNCHANGED <<storageVars, copyVars>>
    \/ StorageNext /\ UNCHANGED <<layoutVars, copyVars>>
    \/ CopyNext /\ UNCHANGED <<layoutVars, storageVars>>

=============================================================================
