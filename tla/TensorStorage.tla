---------------------------- MODULE TensorStorage ----------------------------
(***************************************************************************)
(* From the coordinates of a shard to the bytes of its allocation.  An     *)
(* element order packs a matrix into micro panels, whose digits give each  *)
(* axis its strides; a view of a shard becomes a traversal, a tree of runs, *)
(* affine repeats and short sequences, in the order of the coordinates     *)
(* (semantic), of the bytes (physical) or of whole panels.  Two traversals *)
(* make a copy pair; the views that cover a destination tell its holes.    *)
(*                                                                         *)
(* Threads lowering candidates share these facts in a GeometryCache: each  *)
(* looks a view up, builds it outside the lock under a fresh identity and  *)
(* publishes it, when another thread may have published its own or the     *)
(* table may be full.  Pairs and destinations are filed under identities.  *)
(***************************************************************************)
EXTENDS TensorLayout

CONSTANTS
    StorageCases,    \* [queries, limit]: what each thread asks, entries a table holds
    Fragment         \* maximum_fragment_bytes of a query

VARIABLES
    storageCase,
    cacheViews, cachePairs, cacheDestinations,  \* the three Memo tables
    nextView,                                   \* NEXT_VIEW
    seekers                                     \* the threads

storageVars == <<storageCase, cacheViews, cachePairs, cacheDestinations, nextView, seekers>>

-------------------------------------------------------------------------------
(* Digits of the packing orders: storage/traversal.rs `digits`. *)

Shard(order, precision, extents) == [order |-> order, precision |-> precision, extents |-> extents]
Widths(shard) == [a \in DOMAIN shard.extents |-> Width(shard.extents[a])]
Rank(shard) == Len(shard.extents)
StorageBytes(shard) == MulSeq(Widths(shard)) * BytesOf(shard.precision)

Turned(order) == order.kind \in {"tleft", "tright", "tblock"}
RowAxis(shard) == IF Turned(shard.order) THEN Rank(shard) ELSE Rank(shard) - 1
ColumnAxis(shard) == IF Turned(shard.order) THEN Rank(shard) - 1 ELSE Rank(shard)

\* An order refuses matrices that its panels or its blocks do not divide.
Packs(shard) ==
    LET rows == Widths(shard)[RowAxis(shard)]
        columns == Widths(shard)[ColumnAxis(shard)]
        micro == Micro(shard.precision)
    IN  CASE shard.order.kind = "row" -> TRUE
          [] Rank(shard) < 2 -> FALSE
          [] shard.order.kind \in {"left", "tleft"} -> Divides(micro, columns)
          [] shard.order.kind = "tright" -> Divides(micro, rows) /\ Divides(ColumnMicro, columns)
          [] OTHER -> /\ shard.order.rows # 0 /\ shard.order.columns # 0
                      /\ Divides(shard.order.rows, rows)
                      /\ Divides(shard.order.columns, columns)
                      /\ Divides(micro, shard.order.rows)

OuterDigits(shard, rank) == [a \in 1 .. rank |-> <<a, 1, Widths(shard)[a]>>]

\* <<axis, divisor, count>>, the outermost digit first.
DigitsOf(shard) ==
    LET r == RowAxis(shard)
        c == ColumnAxis(shard)
        rows == Widths(shard)[r]
        columns == Widths(shard)[c]
        micro == Micro(shard.precision)
        rb == shard.order.rows
        cb == shard.order.columns
        outer == OuterDigits(shard, Rank(shard) - 2)
    IN  CASE shard.order.kind = "row" -> OuterDigits(shard, Rank(shard))
          [] shard.order.kind = "left" ->
                 <<<<c, micro, columns \div micro>>>> \o outer \o <<<<r, 1, rows>>, <<c, 1, micro>>>>
          [] shard.order.kind = "tleft" ->
                 outer \o <<<<c, micro, columns \div micro>>, <<r, 1, rows>>, <<c, 1, micro>>>>
          [] shard.order.kind = "tright" ->
                 outer \o <<<<c, ColumnMicro, columns \div ColumnMicro>>, <<r, micro, rows \div micro>>,
                            <<c, 1, ColumnMicro>>, <<r, 1, micro>>>>
          [] OTHER ->
                 outer \o <<<<r, rb, rows \div rb>>, <<c, cb, columns \div cb>>,
                            <<r, micro, rb \div micro>>, <<c, 1, cb>>, <<r, 1, micro>>>>

Digit(axis, divisor, count, stride) ==
    [axis |-> axis, divisor |-> divisor, count |-> count, stride |-> stride]

\* The stride of a digit is what all the digits inside it span.
WithStrides(digits, bytes) ==
    FoldRight(LAMBDA d, acc : [span |-> acc.span * d[3],
                               digits |-> <<Digit(d[1], d[2], d[3], acc.span)>> \o acc.digits],
              digits, [span |-> bytes, digits |-> <<>>]).digits

Digits(shard) == WithStrides(DigitsOf(shard), BytesOf(shard.precision))

\* The digits of an axis, the largest divisor first; each with its position.
AxisDigits(digits, axis) ==
    SortSeq(SelectSeq([i \in DOMAIN digits |-> <<i, digits[i]>>], LAMBDA d : d[2].axis = axis),
            LAMBDA d, e : d[2].divisor > e[2].divisor)

-------------------------------------------------------------------------------
(* Traversal trees. *)

Node(kind, offset, bytes, count, stride, parts) ==
    [kind |-> kind, offset |-> offset, bytes |-> bytes, count |-> count, stride |-> stride,
     parts |-> parts]
Run(offset, bytes) == Node("run", offset, bytes, 1, 0, <<>>)
Shifted(node, offset) == [node EXCEPT !.offset = @ + offset]
Repeated(node, count, stride) ==
    IF count = 1 THEN node
    ELSE IF node.kind = "run" /\ node.bytes = stride THEN [node EXCEPT !.bytes = @ * count]
    ELSE Node("repeat", 0, 0, count, stride, <<node>>)
Sequenced(parts) == IF Len(parts) = 1 THEN parts[1] ELSE Node("sequence", 0, 0, 1, 0, parts)

\* A slice of an axis: the part of a first outer digit, whole ones, a last part.
RECURSIVE AxisTree(_, _, _, _)
AxisTree(digits, start, end, suffix) ==
    IF digits = <<>> THEN suffix
    ELSE LET d == Head(digits)
             div == d.divisor
             Sub(from, to) == AxisTree(Tail(digits), from, to, suffix)
             lo == CeilDiv(start, div)
             hi == end \div div
         IN  IF start \div div = (end - 1) \div div
             THEN Shifted(Sub(start % div, ((end - 1) % div) + 1), (start \div div) * d.stride)
             ELSE Sequenced(
                    (IF Divides(div, start) THEN <<>>
                     ELSE <<Shifted(Sub(start % div, div), (start \div div) * d.stride)>>)
                    \o (IF lo >= hi THEN <<>>
                        ELSE <<Shifted(Repeated(Sub(0, div), hi - lo, d.stride), lo * d.stride)>>)
                    \o (IF Divides(div, end) THEN <<>>
                        ELSE <<Shifted(Sub(0, end % div), hi * d.stride)>>))

\* The same slice as boxes of digits: bounds[i] is the first value and the count.
RECURSIVE AxisBoxes(_, _, _, _)
AxisBoxes(digits, start, end, bounds) ==
    IF digits = <<>> THEN <<bounds>>
    ELSE LET i == Head(digits)[1]
             div == Head(digits)[2].divisor
             rest == Tail(digits)
             lo == CeilDiv(start, div)
             hi == end \div div
             In(v, from, to) == AxisBoxes(rest, from, to, [bounds EXCEPT ![i] = <<v, 1>>])
             Whole == [j \in DOMAIN bounds |->
                          IF j = i THEN <<lo, hi - lo>>
                          ELSE IF \E n \in DOMAIN rest : rest[n][1] = j
                          THEN <<0, rest[CHOOSE n \in DOMAIN rest : rest[n][1] = j][2].count>>
                          ELSE bounds[j]]
         IN  IF start \div div = (end - 1) \div div
             THEN In(start \div div, start % div, ((end - 1) % div) + 1)
             ELSE (IF Divides(div, start) THEN <<>> ELSE In(start \div div, start % div, div))
                  \o (IF Divides(div, end) THEN <<>> ELSE In(end \div div, 0, end % div))
                  \o (IF lo < hi THEN <<Whole>> ELSE <<>>)

\* validate_view
ValidView(shard, view) ==
    /\ Len(view) = Rank(shard)
    /\ \A a \in DOMAIN view :
           /\ Sane(<<shard.extents[a]>>) /\ Sane(<<view[a]>>)
           /\ shard.extents[a].start <= view[a].start
           /\ view[a].physical <= shard.extents[a].physical

From(shard, view, a) == view[a].start - shard.extents[a].start
To(shard, view, a) == view[a].physical - shard.extents[a].start
EmptyView(view) == \E a \in DOMAIN view : view[a].start = view[a].physical
WholeShard(shard, view) ==
    \A a \in DOMAIN view : /\ view[a].start = shard.extents[a].start
                           /\ view[a].physical = shard.extents[a].physical

SemanticTree(shard, view, digits) ==
    FoldRight(LAMBDA a, tree : AxisTree([n \in DOMAIN AxisDigits(digits, a) |->
                                            AxisDigits(digits, a)[n][2]],
                                        From(shard, view, a), To(shard, view, a), tree),
              [a \in DOMAIN view |-> a], Run(0, BytesOf(shard.precision)))

PhysicalBoxes(shard, view, digits) ==
    FoldLeft(LAMBDA boxes, a :
                FlattenSeq([n \in DOMAIN boxes |->
                    AxisBoxes(AxisDigits(digits, a), From(shard, view, a), To(shard, view, a),
                              boxes[n])]),
             <<[i \in DOMAIN digits |-> <<0, 1>>]>>, [a \in DOMAIN view |-> a])

BoxTree(shard, digits, box) ==
    FoldRight(LAMBDA i, node : Shifted(Repeated(node, box[i][2], digits[i].stride),
                                       box[i][1] * digits[i].stride),
              [i \in DOMAIN digits |-> i], Run(0, BytesOf(shard.precision)))

\* byte_traversal: the parts whose sorted merge is the traversal.
Traversal(shard, view, physical) ==
    IF physical /\ WholeShard(shard, view) THEN <<Run(0, StorageBytes(shard))>>
    ELSE IF EmptyView(view) THEN <<>>
    ELSE IF ~physical THEN <<SemanticTree(shard, view, Digits(shard))>>
    ELSE LET boxes == PhysicalBoxes(shard, view, Digits(shard))
         IN  [n \in DOMAIN boxes |-> BoxTree(shard, Digits(shard), boxes[n])]

\* exchange_panel_shape; other precisions traverse square panels.
Panel(shard) ==
    IF shard.precision = "f32" THEN <<ColumnMicro, ColumnMicro>>
    ELSE IF shard.order.kind \in {"left", "tright", "tblock"}
    THEN <<ColumnMicro, Micro(shard.precision)>> ELSE <<Micro(shard.precision), ColumnMicro>>

PanelsFit(shard, view) ==
    LET rank == Rank(shard)
    IN  /\ rank >= 2 /\ ~EmptyView(view)
        /\ \A a \in 1 .. rank - 2 : Width(view[a]) = 1
        /\ \A a \in {rank - 1, rank} :
               /\ Divides(Panel(shard)[a - rank + 2], From(shard, view, a))
               /\ Divides(Panel(shard)[a - rank + 2], To(shard, view, a))

\* The digits inside a panel, and those that number the panels of an axis.
InPanel(d, side) == Least(side \div d.divisor, d.count)
LowDigits(digits, rank, panel) ==
    FoldLeft(LAMBDA low, d :
                IF d.axis <= rank - 2 \/ d.divisor >= panel[d.axis - rank + 2] THEN low
                ELSE Append(low, [d EXCEPT !.count = InPanel(d, panel[d.axis - rank + 2])]),
             <<>>, digits)
HighDigits(digits, axis, side) ==
    FoldLeft(LAMBDA high, d :
                IF d.axis # axis THEN high
                ELSE IF d.divisor >= side THEN Append(high, [d EXCEPT !.divisor = @ \div side])
                ELSE IF d.count > InPanel(d, side)
                THEN Append(high, Digit(axis, 1, d.count \div InPanel(d, side),
                                        d.stride * InPanel(d, side)))
                ELSE high,
             <<>>, digits)

PanelTree(shard, view, digits, rank) ==
    LET panel == Panel(shard)
        cell == FoldRight(LAMBDA d, node : Repeated(node, d.count, d.stride),
                          LowDigits(digits, rank, panel), Run(0, BytesOf(shard.precision)))
        base == FoldLeft(LAMBDA sum, d :
                            IF d.axis > rank - 2 THEN sum
                            ELSE sum + ((From(shard, view, d.axis) \div d.divisor) % d.count) * d.stride,
                         0, digits)
        Along(axis, side, node) ==
            AxisTree(SortSeq(HighDigits(digits, axis, side), LAMBDA d, e : d.divisor > e.divisor),
                     From(shard, view, axis) \div side, To(shard, view, axis) \div side, node)
    IN  Shifted(Along(rank - 1, panel[1], Along(rank, panel[2], cell)), base)

\* panel_byte_traversal
PanelTraversal(shard, view) == <<PanelTree(shard, view, Digits(shard), Rank(shard))>>

-------------------------------------------------------------------------------
(* Reading a traversal. *)

Span(offset, bytes) == [offset |-> offset, bytes |-> bytes]

RECURSIVE TreeSpans(_, _)
TreeSpans(node, base) ==
    CASE node.kind = "run" -> <<Span(base + node.offset, node.bytes)>>
      [] node.kind = "repeat" ->
             FoldLeft(LAMBDA spans, n :
                         spans \o TreeSpans(node.parts[1], base + node.offset + (n - 1) * node.stride),
                      <<>>, [n \in 1 .. node.count |-> n])
      [] node.kind = "sequence" ->
             FoldLeft(LAMBDA spans, part : spans \o TreeSpans(part, base + node.offset),
                      <<>>, node.parts)

\* SpanIter: the parts merged by offset, adjacent spans joined.
JoinSpan(spans, s) ==
    IF spans # <<>> /\ Last(spans).offset + Last(spans).bytes = s.offset
    THEN [spans EXCEPT ![Len(spans)].bytes = @ + s.bytes] ELSE Append(spans, s)
SpanBefore(s, r) == s.offset < r.offset \/ (s.offset = r.offset /\ s.bytes < r.bytes)
MergedSpans(trees) ==
    IF Len(trees) = 1 THEN TreeSpans(trees[1], 0)
    ELSE SortSeq(FoldLeft(LAMBDA all, tree : all \o TreeSpans(tree, 0), <<>>, trees), SpanBefore)
Spans(trees) == FoldLeft(JoinSpan, <<>>, MergedSpans(trees))

RECURSIVE TreeBytes(_)
TreeBytes(node) ==
    CASE node.kind = "run" -> node.bytes
      [] node.kind = "repeat" -> node.count * TreeBytes(node.parts[1])
      [] node.kind = "sequence" -> FoldLeft(LAMBDA sum, part : sum + TreeBytes(part), 0, node.parts)
ByteLength(trees) == FoldLeft(LAMBDA sum, tree : sum + TreeBytes(tree), 0, trees)

\* regular_span: equal runs at one stride, rows = 0 where the tree is not regular.
Rows(offset, bytes, rows, stride) ==
    [offset |-> offset, bytes |-> bytes, rows |-> rows, stride |-> stride]
Irregular == Rows(0, 0, 0, 0)

RECURSIVE RegularNode(_)
RegularNode(node) ==
    CASE node.kind = "run" -> Rows(node.offset, node.bytes, 1, node.bytes)
      [] node.kind = "sequence" -> Irregular
      [] node.kind = "repeat" ->
             LET s == RegularNode(node.parts[1])
             IN  IF s.rows = 0 \/ (s.rows # 1 /\ s.stride * s.rows # node.stride) THEN Irregular
                 ELSE Rows(s.offset + node.offset, s.bytes, s.rows * node.count,
                           IF s.rows = 1 THEN node.stride ELSE s.stride)
RegularSpan(trees) == IF Len(trees) = 1 THEN RegularNode(trees[1]) ELSE Irregular

\* A contiguous endpoint is cut into the other's rows.
CutLike(s, r) == IF s.rows = 1 /\ r.rows > 1 THEN Rows(s.offset, r.bytes, r.rows, r.bytes) ELSE s
RegularCopy(left, right) ==
    LET l == CutLike(left, right)
        r == CutLike(right, left)
    IN  IF /\ left.rows > 0 /\ right.rows > 0
           /\ left.bytes * left.rows = right.bytes * right.rows
           /\ l.bytes = r.bytes /\ l.rows = r.rows
        THEN <<<<l, r>>>> ELSE <<>>

\* Summaries of a tree, joined without enumerating it: how many spans, the first
\* and the last, and how many of them are off a word at each shift of the base.
OffWord(s, shift) == IF Divides(4, s.offset + shift) /\ Divides(4, s.bytes) THEN 0 ELSE 1
SpanSummary(s) ==
    [first |-> s, last |-> s, count |-> 1, bad |-> [i \in 0 .. 3 |-> OffWord(s, i)]]
ShiftSummary(y, offset) ==
    [first |-> Span(y.first.offset + offset, y.first.bytes),
     last |-> Span(y.last.offset + offset, y.last.bytes),
     count |-> y.count,
     bad |-> [i \in 0 .. 3 |-> y.bad[(i + offset) % 4]]]
JoinAdjacent(y, z, merged) ==
    [first |-> IF y.count = 1 THEN merged ELSE y.first,
     last |-> IF z.count = 1 THEN merged ELSE z.last,
     count |-> y.count + z.count - 1,
     bad |-> [i \in 0 .. 3 |-> y.bad[i] + z.bad[i] - OffWord(y.last, i) - OffWord(z.first, i)
                                   + OffWord(merged, i)]]
JoinSummary(y, z) ==
    IF y.last.offset + y.last.bytes = z.first.offset
    THEN JoinAdjacent(y, z, Span(y.last.offset, y.last.bytes + z.first.bytes))
    ELSE [first |-> y.first, last |-> z.last, count |-> y.count + z.count,
          bad |-> [i \in 0 .. 3 |-> y.bad[i] + z.bad[i]]]

RECURSIVE RepeatSummary(_, _, _)
RepeatSummary(y, count, stride) ==
    IF count = 1 THEN y
    ELSE LET half == RepeatSummary(y, count \div 2, stride)
             even == JoinSummary(half, ShiftSummary(half, (count \div 2) * stride))
         IN  IF Divides(2, count) THEN even
             ELSE JoinSummary(even, ShiftSummary(y, (count - 1) * stride))

JoinAll(summaries) == FoldLeft(JoinSummary, summaries[1], Tail(summaries))

RECURSIVE TreeSummary(_)
TreeSummary(node) ==
    ShiftSummary(
        CASE node.kind = "run" -> SpanSummary(Span(0, node.bytes))
          [] node.kind = "repeat" ->
                 RepeatSummary(TreeSummary(node.parts[1]), node.count, node.stride)
          [] node.kind = "sequence" ->
                 JoinAll([n \in DOMAIN node.parts |-> TreeSummary(node.parts[n])]),
        node.offset)

\* Interleaved parts are enumerated; separate ones are joined in order.
Summarised(trees) ==
    LET parts == SortSeq([n \in DOMAIN trees |-> TreeSummary(trees[n])],
                         LAMBDA y, z : y.first.offset < z.first.offset)
        spans == Spans(trees)
    IN  IF \E n \in 1 .. Len(parts) - 1 :
               parts[n].last.offset + parts[n].last.bytes > parts[n + 1].first.offset
        THEN JoinAll([n \in DOMAIN spans |-> SpanSummary(spans[n])]) ELSE JoinAll(parts)

SpanCount(trees) == IF trees = <<>> THEN 0 ELSE Summarised(trees).count
WordAligned(trees) == trees = <<>> \/ Summarised(trees).bad[0] = 0

-------------------------------------------------------------------------------
(* Copy pairs and coverage: storage/movement.rs and CopyPair. *)


\* for_each_copy_span: two streams zipped by byte position.
RECURSIVE ZipSpans(_, _)
ZipSpans(source, target) ==
    IF source = <<>> \/ target = <<>> THEN <<>>
    ELSE LET s == Head(source)
             d == Head(target)
             n == Least(s.bytes, d.bytes)
             Left(span, rest) == IF span.bytes = n THEN rest
                                 ELSE <<Span(span.offset + n, span.bytes - n)>> \o rest
         IN  <<<<Rows(s.offset, n, 1, n), Rows(d.offset, n, 1, n)>>>>
                 \o ZipSpans(Left(s, Tail(source)), Left(d, Tail(target)))

\* CopyPair::new
CopyPair(source, target) ==
    LET regular == RegularCopy(RegularSpan(source), RegularSpan(target))
    IN  IF ByteLength(source) = 0 THEN <<>>
        ELSE IF regular # <<>> THEN regular
        ELSE ZipSpans(Spans(source), Spans(target))
PairAccepts(source, target) == ByteLength(source) = ByteLength(target)

Fragments(rows) ==
    FoldLeft(LAMBDA sum, row : sum + row[1].rows * CeilDiv(row[1].bytes, Fragment), 0, rows)

\* uncovered_ranges
AfterSpan(acc, s) ==
    [cursor |-> Most(acc.cursor, s.offset + s.bytes),
     holes |-> IF s.offset > acc.cursor
               THEN Append(acc.holes, Span(acc.cursor, s.offset - acc.cursor)) ELSE acc.holes]
Uncovered(bytes, trees) ==
    FoldLeft(AfterSpan, [cursor |-> 0, holes |-> <<>>], Append(Spans(trees), Span(bytes, 0))).holes

-------------------------------------------------------------------------------
(* The cache: storage/geometry.rs.  A query populates a destination shard    *)
(* from mappings [source, from, to], in an order, "semantic", "physical" or  *)
(* "panels".                                                                 *)

Traversed(order, shard, view) ==
    IF order = "panels" THEN PanelTraversal(shard, view)
    ELSE Traversal(shard, view, order = "physical")

\* Mutant: a view filed by its own intervals, whatever allocation it is in.
ViewAlone(request) ==
    [order |-> request.order, precision |-> request.shard.precision,
     packing |-> request.shard.order, extents |-> request.view]

\* ViewGeometry: what a traversal depends on, relative to the allocation.
Relative(e, origin) == Extent(e.start - origin, e.logical - origin, e.physical - origin)
ViewKey(request) ==
    [order |-> request.order, precision |-> request.shard.precision,
     packing |-> request.shard.order,
     extents |-> [a \in DOMAIN request.view |->
                     <<Relative(request.shard.extents[a], request.shard.extents[a].start),
                       Relative(request.view[a], request.shard.extents[a].start)>>]]

Request(shard, view, order) == [shard |-> shard, view |-> view, order |-> order]

\* Semantic copies write the logical part of a view only.
Covered(view, order) ==
    IF order # "semantic" THEN view
    ELSE [a \in DOMAIN view |-> [view[a] EXCEPT !.physical = view[a].logical]]

PairRequests(q) ==
    FlattenSeq([n \in DOMAIN q.maps |->
                   <<Request(q.maps[n].source, q.maps[n].from, q.order),
                     Request(q.target, q.maps[n].to, q.order)>>])
DestinationRequests(q) ==
    <<Request(q.target, q.target.extents, "physical")>>
        \o (IF q.order = "semantic" THEN PairRequests(q) ELSE <<>>)
        \o [n \in DOMAIN q.maps |-> Request(q.target, Covered(q.maps[n].to, q.order), "physical")]

\* The views a destination was asked with, by their part in the key.
PairViews(held, q) ==
    [n \in DOMAIN q.maps |-> IF q.order = "semantic" THEN <<held[2 * n], held[2 * n + 1]>> ELSE <<>>]
CoveringViews(held, q) == SubSeq(held, Len(held) - Len(q.maps) + 1, Len(held))

Ids(views) == [n \in DOMAIN views |-> views[n].id]
DestinationKey(held, q) ==
    [allocation |-> held[1].id, coverage |-> Ids(CoveringViews(held, q)),
     pairs |-> [n \in DOMAIN q.maps |-> Ids(PairViews(held, q)[n])],
     sameOrder |-> \A n \in DOMAIN q.maps : q.maps[n].source.order = q.target.order]

\* Memo::get's second lock: what another thread published first is kept, and a
\* full table keeps nothing more.
Published(table, key, value) ==
    IF Cardinality(DOMAIN table) < storageCase.limit /\ key \notin DOMAIN table
    THEN table @@ (key :> value) ELSE table
Returned(table, key, value) ==
    IF Cardinality(DOMAIN table) < storageCase.limit /\ key \in DOMAIN table
    THEN table[key] ELSE value

\* Identities determine traversals, so racing builders of a pair build the same.
PairOf(views) ==
    IF Ids(views) \in DOMAIN cachePairs THEN cachePairs[Ids(views)]
    ELSE CopyPair(views[1].trees, views[2].trees)
WithPairs(pairs, list) ==
    FoldLeft(LAMBDA table, views : Published(table, Ids(views), PairOf(views)), pairs, list)

\* No launch count once a source or any target so far is off a word.
Unaligned == -1
AddFragments(acc, views) ==
    LET off == acc.off \/ ~WordAligned(views[2].trees)
    IN  [off |-> off,
         fragments |-> IF acc.fragments = Unaligned \/ off \/ ~WordAligned(views[1].trees)
                       THEN Unaligned ELSE acc.fragments + Fragments(PairOf(views)),
         pairs |-> IF acc.fragments = Unaligned \/ off \/ ~WordAligned(views[1].trees)
                   THEN acc.pairs ELSE Append(acc.pairs, views)]
FragmentsOf(held, q) ==
    FoldLeft(AddFragments, [off |-> FALSE, fragments |-> 0, pairs |-> <<>>],
             IF q.order = "semantic" THEN PairViews(held, q) ELSE <<>>)

DestinationFacts(held, q, counted) ==
    [bytes |-> StorageBytes(q.target),
     coverage |-> FlattenSeq([n \in DOMAIN q.maps |-> CoveringViews(held, q)[n].trees]),
     fragments |-> IF q.order = "semantic" THEN counted.fragments ELSE Unaligned,
     aligned |-> ~counted.off]

Seeker(q) == [query |-> q, stage |-> "destination", queue |-> DestinationRequests(q),
              held |-> <<>>, fresh |-> <<>>, facts |-> <<>>, rows |-> <<>>]
Looking(t) == seekers[t].queue # <<>> /\ seekers[t].fresh = <<>>
WithView(seeker, view) ==
    [seeker EXCEPT !.held = Append(@, view), !.queue = Tail(@), !.fresh = <<>>]

FindView(t) ==
    /\ Looking(t)
    /\ ViewKey(Head(seekers[t].queue)) \in DOMAIN cacheViews
    /\ seekers' = [seekers EXCEPT
                      ![t] = WithView(@, cacheViews[ViewKey(Head(seekers[t].queue))])]
    /\ UNCHANGED <<storageCase, cacheViews, cachePairs, cacheDestinations, nextView>>

\* A thread that misses builds the view without the lock.
BuildView(t) ==
    /\ Looking(t)
    /\ ViewKey(Head(seekers[t].queue)) \notin DOMAIN cacheViews
    /\ nextView' = nextView + 1
    /\ LET r == Head(seekers[t].queue)
       IN  seekers' = [seekers EXCEPT
              ![t].fresh = <<[id |-> nextView, trees |-> Traversed(r.order, r.shard, r.view)]>>]
    /\ UNCHANGED <<storageCase, cacheViews, cachePairs, cacheDestinations>>

PublishView(t) ==
    /\ seekers[t].fresh # <<>> /\ seekers[t].queue # <<>>
    /\ LET key == ViewKey(Head(seekers[t].queue))
           view == seekers[t].fresh[1]
       IN  /\ cacheViews' = Published(cacheViews, key, view)
           /\ seekers' = [seekers EXCEPT ![t] = WithView(@, Returned(cacheViews, key, view))]
    /\ UNCHANGED <<storageCase, cachePairs, cacheDestinations, nextView>>

\* With the facts of its destination a thread asks for the pairs to move.
WithFacts(seeker, facts) ==
    [seeker EXCEPT !.facts = facts, !.stage = "pairs", !.held = <<>>, !.fresh = <<>>,
                   !.queue = PairRequests(seeker.query)]

FindDestination(t) ==
    /\ seekers[t].stage = "destination" /\ seekers[t].queue = <<>> /\ seekers[t].fresh = <<>>
    /\ DestinationKey(seekers[t].held, seekers[t].query) \in DOMAIN cacheDestinations
    /\ seekers' = [seekers EXCEPT ![t] =
          WithFacts(@, cacheDestinations[DestinationKey(@.held, @.query)])]
    /\ UNCHANGED <<storageCase, cacheViews, cachePairs, cacheDestinations, nextView>>

BuildDestination(t) ==
    /\ seekers[t].stage = "destination" /\ seekers[t].queue = <<>> /\ seekers[t].fresh = <<>>
    /\ DestinationKey(seekers[t].held, seekers[t].query) \notin DOMAIN cacheDestinations
    /\ LET counted == FragmentsOf(seekers[t].held, seekers[t].query)
       IN  /\ seekers' = [seekers EXCEPT ![t].fresh =
                             <<DestinationFacts(seekers[t].held, seekers[t].query, counted)>>]
           /\ cachePairs' = WithPairs(cachePairs, counted.pairs)
    /\ UNCHANGED <<storageCase, cacheViews, cacheDestinations, nextView>>

PublishDestination(t) ==
    /\ seekers[t].stage = "destination" /\ seekers[t].queue = <<>> /\ seekers[t].fresh # <<>>
    /\ LET key == DestinationKey(seekers[t].held, seekers[t].query)
           facts == seekers[t].fresh[1]
       IN  /\ cacheDestinations' = Published(cacheDestinations, key, facts)
           /\ seekers' = [seekers EXCEPT
                             ![t] = WithFacts(@, Returned(cacheDestinations, key, facts))]
    /\ UNCHANGED <<storageCase, cacheViews, cachePairs, nextView>>

HeldPairs(held) == [n \in 1 .. Len(held) \div 2 |-> <<held[2 * n - 1], held[2 * n]>>]

TakePairs(t) ==
    /\ seekers[t].stage = "pairs" /\ seekers[t].queue = <<>>
    /\ LET views == HeldPairs(seekers[t].held)
       IN  /\ seekers' = [seekers EXCEPT
                 ![t].rows = FoldLeft(LAMBDA rows, v : Append(rows, PairOf(v)), <<>>, views),
                 ![t].stage = "done"]
           /\ cachePairs' = WithPairs(cachePairs, views)
    /\ UNCHANGED <<storageCase, cacheViews, cacheDestinations, nextView>>

StorageInit ==
    /\ storageCase \in StorageCases
    /\ cacheViews = <<>> /\ cachePairs = <<>> /\ cacheDestinations = <<>>
    /\ nextView = 0
    /\ seekers = [t \in DOMAIN storageCase.queries |-> Seeker(storageCase.queries[t])]

StorageNext ==
    \E t \in DOMAIN seekers :
        \/ FindView(t) \/ BuildView(t) \/ PublishView(t)
        \/ FindDestination(t) \/ BuildDestination(t) \/ PublishDestination(t)
        \/ TakePairs(t)

-------------------------------------------------------------------------------
(* The reference: the coordinates of a packed element, as the producers of   *)
(* package data compute them, inverted.                                      *)

\* amp_matrix_coordinates, right_matrix_coordinates, block_major_matrix_coordinates
LeftCoordinates(micro, rows, p) ==
    LET offset == p % (rows * micro)
    IN  <<offset \div micro, (p \div (rows * micro)) * micro + (offset % micro)>>
RightCoordinates(micro, rows, p) ==
    LET panel == p \div (micro * ColumnMicro)
        offset == p % (micro * ColumnMicro)
        groups == rows \div micro
    IN  <<(panel % groups) * micro + (offset % micro),
          (panel \div groups) * ColumnMicro + (offset \div micro)>>
BlockCoordinates(order, micro, columns, p) ==
    LET panel == p \div (micro * order.columns)
        offset == p % (micro * order.columns)
        groups == order.rows \div micro
        within == panel % ((columns \div order.columns) * groups)
    IN  <<(panel \div ((columns \div order.columns) * groups)) * order.rows
              + (within % groups) * micro + (offset % micro),
          (within \div groups) * order.columns + (offset \div micro)>>

RowMajorCoordinates(widths, p) ==
    [a \in DOMAIN widths |-> (p \div MulSeq(SubSeq(widths, a + 1, Len(widths)))) % widths[a]]

\* Left operands flatten their outer axes into rows; the other orders pack each
\* outer matrix by itself.  The transposed ones swap the two.
MatrixCoordinates(shard, rows, columns, p) ==
    CASE shard.order.kind \in {"left", "tleft"} -> LeftCoordinates(Micro(shard.precision), rows, p)
      [] shard.order.kind = "tright" -> RightCoordinates(Micro(shard.precision), rows, p)
      [] OTHER -> BlockCoordinates(shard.order, Micro(shard.precision), columns, p)

PackedCoordinates(shard, p) ==
    LET widths == Widths(shard)
        rank == Len(widths)
        outer == SubSeq(widths, 1, rank - 2)
        rows == widths[RowAxis(shard)]
        columns == widths[ColumnAxis(shard)]
        flat == LeftCoordinates(Micro(shard.precision), rows * MulSeq(outer), p)
        at == MatrixCoordinates(shard, rows, columns, p % (rows * columns))
    IN  CASE shard.order.kind = "row" -> RowMajorCoordinates(widths, p)
          [] shard.order.kind = "left" ->
                 RowMajorCoordinates(outer, flat[1] \div rows) \o <<flat[1] % rows, flat[2]>>
          [] OTHER -> RowMajorCoordinates(outer, p \div (rows * columns))
                          \o (IF Turned(shard.order) THEN <<at[2], at[1]>> ELSE at)

-------------------------------------------------------------------------------
(* Properties. *)

\* The byte of each element of a shard, by its coordinates.
ElementMap(shard) ==
    LET at == [p \in 0 .. MulSeq(Widths(shard)) - 1 |-> PackedCoordinates(shard, p)]
    IN  [c \in {at[p] : p \in DOMAIN at} |->
            (CHOOSE p \in DOMAIN at : at[p] = c) * BytesOf(shard.precision)]

Within(shard, view, c) == [a \in DOMAIN c |-> c[a] + From(shard, view, a)]
ViewCoordinates(view) == Coordinates([a \in DOMAIN view |-> Width(view[a])])

\* Bytes of a view, and of the part of a destination a mapping populates.
ViewBytes(shard, view, map) ==
    {map[Within(shard, view, c)] + b :
        c \in IF EmptyView(view) THEN {} ELSE ViewCoordinates(view),
        b \in 0 .. BytesOf(shard.precision) - 1}

Ascending(set, size) == SelectSeq([n \in 1 .. size |-> n - 1], LAMBDA b : b \in set)

\* Coordinates are kept, except that a physical copy keeps the order of the bytes.
ExpectedMoves(q, m, source, target) ==
    IF q.order = "physical"
    THEN LET s == Ascending(ViewBytes(m.source, m.from, source), StorageBytes(m.source))
             d == Ascending(ViewBytes(q.target, m.to, target), StorageBytes(q.target))
         IN  {<<s[n], d[n]>> : n \in DOMAIN s}
    ELSE {<<source[Within(m.source, m.from, c)] + b, target[Within(q.target, m.to, c)] + b>> :
             c \in ViewCoordinates(m.from), b \in 0 .. BytesOf(q.target.precision) - 1}

RowBytes(r) == {<<n, b>> : n \in 0 .. r.rows - 1, b \in 0 .. r.bytes - 1}
MovesOf(rows) ==
    UNION {{<<rows[i][1].offset + x[1] * rows[i][1].stride + x[2],
              rows[i][2].offset + x[1] * rows[i][2].stride + x[2]>> : x \in RowBytes(rows[i][1])} :
           i \in DOMAIN rows}
MovedBytes(rows) == FoldLeft(LAMBDA sum, r : sum + r[1].rows * r[1].bytes, 0, rows)

SpanBytes(spans) == UNION {spans[i].offset .. spans[i].offset + spans[i].bytes - 1 : i \in DOMAIN spans}

\* Every byte of an aligned set belongs to a whole word of it.
WholeWordBytes(bytes) == \A b \in bytes : {b - (b % 4) + i : i \in 0 .. 3} \subseteq bytes

AnswerIsRight(seeker, q, target) ==
    /\ \A n \in DOMAIN q.maps :
           LET expected == ExpectedMoves(q, q.maps[n], ElementMap(q.maps[n].source), target)
           IN  /\ MovesOf(seeker.rows[n]) = expected
               /\ MovedBytes(seeker.rows[n]) = Cardinality(expected)
    /\ SpanBytes(Uncovered(seeker.facts.bytes, seeker.facts.coverage)) =
           (0 .. StorageBytes(q.target) - 1)
               \ UNION {ViewBytes(q.target, Covered(q.maps[n].to, q.order), target) :
                            n \in DOMAIN q.maps}
    /\ seeker.facts.fragments # Unaligned =>
           \A n \in DOMAIN q.maps :
               /\ WholeWordBytes({move[1] : move \in MovesOf(seeker.rows[n])})
               /\ WholeWordBytes({move[2] : move \in MovesOf(seeker.rows[n])})
    /\ SpanCount(seeker.facts.coverage) = Len(Spans(seeker.facts.coverage))

(* Whatever another thread looked up, built or published meanwhile, and       *)
(* however full the tables are, the pairs a thread gets from the cache move   *)
(* every element of each mapping to the byte its coordinates have in the      *)
(* destination, each byte once; the holes it is told are exactly the bytes no *)
(* mapping writes; and a destination said to be copied in whole words is.     *)
CopiesMoveEveryElement ==
    \A t \in DOMAIN seekers :
        seekers[t].stage = "done" =>
            AnswerIsRight(seekers[t], seekers[t].query, ElementMap(seekers[t].query.target))
===============================================================================
