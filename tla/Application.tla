---------------------------- MODULE Application ----------------------------
(***************************************************************************)
(* The application package (ipu-package): what a package holds, what its   *)
(* validator refuses, the file it is written to and read from, the memory  *)
(* image of a tile and the two look-ups of a debugger and of a host: the   *)
(* name of a program counter, the place of a binding in the host's output. *)
(*                                                                         *)
(* A segment is [range, size, exec, holds]: the memory it takes, how much  *)
(* of it the file gives (the rest is zero) and, abstracted, what it holds. *)
(* A binding is [name, slices], a slice of it [tile, at, file, bytes]; a   *)
(* host slice is [page, offset, file, bytes].                              *)
(***************************************************************************)
EXTENDS TileMemory, Functions

AllTiles == -1
SchemaVersion == 1

EmptyApplication ==
    [tiles |-> <<>>, inputs |-> <<>>, outputs |-> <<>>, weights |-> <<>>,
     pages |-> <<>>, calls |-> <<>>, profile |-> <<>>, symbols |-> {}, regions |-> <<>>]

AppBindings(app) == app.inputs \o app.outputs \o app.weights
AppTiles(app) == {app.tiles[i].tile : i \in DOMAIN app.tiles}

\* Length of the host file region, gaps and overlapping replicas included.
ByteLen(binding) ==
    FoldLeft(LAMBDA size, slice : Larger(size, slice.file + slice.bytes), 0, binding.slices)

-----------------------------------------------------------------------------
(* The validator. *)

Unrepeated(seq, Key(_)) == Cardinality({Key(seq[i]) : i \in DOMAIN seq}) = Len(seq)

InMemory(range) == MemoryBase <= range[1] /\ range[2] <= MemoryLimit
SegmentOK(segment) == InMemory(segment.range) /\ segment.size <= Bytes(segment.range)

SegmentsApart(segments) ==
    \A i, j \in DOMAIN segments :
        i < j /\ Bytes(segments[i].range) > 0 /\ Bytes(segments[j].range) > 0
            => ~Meets(segments[i].range, segments[j].range)

TilesOK(app) ==
    /\ app.tiles # <<>>
    /\ Unrepeated(app.tiles, LAMBDA t : t.tile)
    /\ \A i \in DOMAIN app.tiles :
        /\ \A s \in DOMAIN app.tiles[i].segments : SegmentOK(app.tiles[i].segments[s])
        /\ SegmentsApart(app.tiles[i].segments)

ProfileOK(app) ==
    /\ Unrepeated(app.profile, LAMBDA t : t.tile)
    /\ \A i \in DOMAIN app.profile : app.profile[i].tile \in AppTiles(app)

DebugMapOK(app) ==
    \A i \in DOMAIN app.regions :
        /\ Bytes(app.regions[i].range) > 0
        /\ app.regions[i].tile \in {AllTiles} \cup AppTiles(app)

BindingsOK(app, bindings) ==
    /\ Unrepeated(bindings, LAMBDA b : b.name)
    /\ \A i \in DOMAIN bindings : \A s \in DOMAIN bindings[i].slices :
        LET slice == bindings[i].slices[s]
        IN  slice.tile \in AppTiles(app) /\ InMemory(<<slice.at, slice.at + slice.bytes>>)

\* The exclusive ends of the batches grow and cover every slice.
BatchEndsOK(ends, slices) ==
    /\ \A i \in DOMAIN ends : (IF i = 1 THEN 0 ELSE ends[i - 1]) < ends[i] /\ ends[i] <= Len(slices)
    /\ (IF ends = <<>> THEN 0 ELSE Last(ends)) = Len(slices)

HostSliceOK(app, slice) ==
    slice.page + 1 \in DOMAIN app.pages /\ slice.offset + slice.bytes <= app.pages[slice.page + 1]

HostOK(app) ==
    /\ app.calls # <<>> => app.pages # <<>> /\ app.pages[1] >= 4
    /\ \A c \in DOMAIN app.calls :
        /\ app.calls[c].invocations > 0
        /\ BatchEndsOK(app.calls[c].inputEnds, app.calls[c].inputs)
        /\ BatchEndsOK(app.calls[c].outputEnds, app.calls[c].outputs)
        /\ \A s \in Range(app.calls[c].inputs \o app.calls[c].outputs) : HostSliceOK(app, s)

Valid(app) ==
    TilesOK(app) /\ ProfileOK(app) /\ DebugMapOK(app)
        /\ BindingsOK(app, AppBindings(app)) /\ HostOK(app)

-----------------------------------------------------------------------------
(* The file.  Lists are written in their order, and a reader refuses a file *)
(* of another format or for another memory before it looks at the rest.     *)

WrittenTiles(tiles) ==
    [i \in DOMAIN tiles |-> <<tiles[i].tile, [s \in DOMAIN tiles[i].segments |->
        LET g == tiles[i].segments[s] IN <<g.range[1], Bytes(g.range), g.size, g.exec, g.holds>>]>>]
WrittenBindings(bindings) ==
    [i \in DOMAIN bindings |-> <<bindings[i].name, [s \in DOMAIN bindings[i].slices |->
        LET g == bindings[i].slices[s] IN <<g.tile, g.at, g.file, g.bytes>>]>>]
WrittenSlices(slices) ==
    [s \in DOMAIN slices |-> <<slices[s].page, slices[s].offset, slices[s].file, slices[s].bytes>>]
WrittenCalls(calls) ==
    [c \in DOMAIN calls |-> <<calls[c].name, calls[c].phases, calls[c].invocations,
        calls[c].inputEnds, calls[c].outputEnds,
        WrittenSlices(calls[c].inputs), WrittenSlices(calls[c].outputs)>>]
WrittenProfile(profile) == [i \in DOMAIN profile |-> <<profile[i].tile, profile[i].steps>>]
WrittenRegions(regions) ==
    [i \in DOMAIN regions |-> <<regions[i].tile, regions[i].range[1], Bytes(regions[i].range),
                                regions[i].name>>]

Written(app) ==
    [header |-> <<SchemaVersion, MemoryBase, MemoryLimit - MemoryBase>>,
     tiles |-> WrittenTiles(app.tiles), inputs |-> WrittenBindings(app.inputs),
     outputs |-> WrittenBindings(app.outputs), weights |-> WrittenBindings(app.weights),
     pages |-> app.pages, calls |-> WrittenCalls(app.calls),
     profile |-> WrittenProfile(app.profile), symbols |-> app.symbols,
     regions |-> WrittenRegions(app.regions)]

ReadTiles(list) ==
    [i \in DOMAIN list |-> [tile |-> list[i][1], segments |-> [s \in DOMAIN list[i][2] |->
        LET g == list[i][2][s]
        IN  [range |-> <<g[1], g[1] + g[2]>>, size |-> g[3], exec |-> g[4], holds |-> g[5]]]]]
ReadBindings(list) ==
    [i \in DOMAIN list |-> [name |-> list[i][1], slices |-> [s \in DOMAIN list[i][2] |->
        LET g == list[i][2][s] IN [tile |-> g[1], at |-> g[2], file |-> g[3], bytes |-> g[4]]]]]
ReadSlices(list) ==
    [s \in DOMAIN list |->
        [page |-> list[s][1], offset |-> list[s][2], file |-> list[s][3], bytes |-> list[s][4]]]
ReadCalls(list) ==
    [c \in DOMAIN list |->
        [name |-> list[c][1], phases |-> list[c][2], invocations |-> list[c][3],
         inputEnds |-> list[c][4], outputEnds |-> list[c][5],
         inputs |-> ReadSlices(list[c][6]), outputs |-> ReadSlices(list[c][7])]]
ReadProfile(list) == [i \in DOMAIN list |-> [tile |-> list[i][1], steps |-> list[i][2]]]
ReadRegions(list) ==
    [i \in DOMAIN list |-> [tile |-> list[i][1], range |-> <<list[i][2], list[i][2] + list[i][3]>>,
                            name |-> list[i][4]]]

HeaderOK(file) == file.header = <<SchemaVersion, MemoryBase, MemoryLimit - MemoryBase>>
ReadBack(file) ==
    [tiles |-> ReadTiles(file.tiles), inputs |-> ReadBindings(file.inputs),
     outputs |-> ReadBindings(file.outputs), weights |-> ReadBindings(file.weights),
     pages |-> file.pages, calls |-> ReadCalls(file.calls),
     profile |-> ReadProfile(file.profile), symbols |-> file.symbols,
     regions |-> ReadRegions(file.regions)]

-----------------------------------------------------------------------------
(* Use. *)

\* What the reconstructed image of a tile has at an address: the last segment
\* that gives a byte of it, zero where none does.
Zero == <<"zero">>
GivenAt(segments, a) ==
    {i \in DOMAIN segments : segments[i].range[1] <= a
                             /\ a < segments[i].range[1] + segments[i].size}
HeldAt(segments, a) ==
    IF GivenAt(segments, a) = {} THEN Zero
    ELSE segments[CHOOSE i \in GivenAt(segments, a) : \A j \in GivenAt(segments, a) : j <= i].holds
TileImage(app, p) == SelectSeq(app.tiles, LAMBDA t : t.tile = p)[1].segments

RegionOf(app, p, pc) ==
    SelectSeq(app.regions, LAMBDA r : r.tile \in {AllTiles, p} /\ r.range[1] <= pc /\ pc < r.range[2])
SymbolsBelow(app, pc) == {s \in app.symbols : s[2] <= pc}
Symbolized(app, p, pc) ==
    IF RegionOf(app, p, pc) = <<>> THEN "unknown"
    ELSE IF RegionOf(app, p, pc)[1].tile = AllTiles /\ SymbolsBelow(app, pc) # {}
    THEN (CHOOSE s \in SymbolsBelow(app, pc) : \A t \in SymbolsBelow(app, pc) : t[2] <= s[2])[1]
    ELSE RegionOf(app, p, pc)[1].name

\* Where a binding begins when bindings lie one after the other.
ConcatenatedBefore(bindings, i) ==
    FoldLeft(LAMBDA base, b : base + ByteLen(b), 0, SubSeq(bindings, 1, i - 1))
OutputBinding(app, name) ==
    ConcatenatedBefore(app.outputs,
                       CHOOSE i \in DOMAIN app.outputs : app.outputs[i].name = name)
=============================================================================
