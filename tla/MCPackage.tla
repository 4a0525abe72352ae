----------------------------- MODULE MCPackage -----------------------------
(* Packages of three execution tiles, two of which are active. *)
EXTENDS PackageBuild

\* The physical tile of each logical tile, and the tile that requests the
\* transfers of a physical tile.
MCPhysical(l) == <<2, 0, 1>>[l + 1]
MCXreqOwner(p) == IF p = 2 THEN 1 ELSE 0

PkgSymbols(regions) == {<<IF r[1] < ExecutableStart THEN "runtime" ELSE "kernel", r[1]>> : r \in regions}
SupportOnly == {<<SupportStart, SupportStart + 4096>>}
Spilled == {<<SupportStart, ExchangeWindow[1]>>, <<ExecutableStart, ExecutableStart + 6000>>}
Crowded == {<<SupportStart, ExchangeWindow[1]>>, <<ExecutableStart, ExecutableLimit - 12000>>}
Tight == {<<SupportStart, ExchangeWindow[1]>>, <<ExecutableStart, ExecutableLimit - 400>>}
\* Leaves 80 executable bytes: no element for rows, barely one for code.
Full == {<<SupportStart, ExchangeWindow[1]>>, <<ExecutableStart, ExecutableLimit - 80>>}

Tensor(name, kind) == [name |-> name, kind |-> kind]
Shard(tensor, tile, bytes) == [tensor |-> tensor, tile |-> tile, bytes |-> bytes]
Vectors == [tensors |-> <<Tensor("x", "input"), Tensor("y", "output")>>,
            shards |-> <<Shard(1, 0, 5000), Shard(1, 1, 64), Shard(2, 1, 4100)>>]
Layer == [tensors |-> <<Tensor("x", "input"), Tensor("w", "weight"), Tensor("t", "temporary"),
                        Tensor("y", "output"), Tensor("z", "output")>>,
          shards |-> <<Shard(1, 0, 400), Shard(2, 1, 15000), Shard(3, 1, 20000), Shard(4, 0, 60),
                       Shard(5, 0, 16), Shard(5, 1, 4)>>]
Huge == [tensors |-> <<Tensor("t", "temporary"), Tensor("y", "output")>>,
         shards |-> <<Shard(1, 0, 600000), Shard(2, 0, 64)>>]
Empty == [tensors |-> <<>>, shards |-> <<>>]

OfTiles(a, b, c) == [l \in PkgTiles |-> CASE l = 0 -> a [] l = 1 -> b [] OTHER -> c]
Graph(regions, values, profiling, rowBytes, finalRows) ==
    [kind |-> "graph", regions |-> regions, symbols |-> PkgSymbols(regions),
     tensors |-> values.tensors, shards |-> values.shards,
     profiling |-> profiling, budget |-> 16400, rowBytes |-> rowBytes, finalRows |-> finalRows,
     steps |-> OfTiles(700, 1500, 40), exchanges |-> OfTiles(3, 1, 0),
     samples |-> OfTiles(4, 7, 0), invocations |-> 2]
GraphCases ==
    {Graph(r, t, p, b, {b}) : r \in {SupportOnly, Spilled}, t \in {Vectors, Layer},
                              p \in BOOLEAN, b \in {0, 900}}
    \cup {Graph(SupportOnly, Vectors, FALSE, 16300, {16300, 16320, 16324, 16390, 16404}),
          Graph(Crowded, Vectors, FALSE, 900, {900}), Graph(SupportOnly, Huge, TRUE, 0, {0}),
          Graph(SupportOnly, Empty, FALSE, 900, {900}), Graph(Full, Vectors, FALSE, 0, {0}),
          Graph(SupportOnly, Vectors, FALSE, 16500, {0})}

Datum3(tile, first, bytes, token) == [tile |-> tile, range |-> <<first, first + bytes>>, token |-> token]
Programs(regions, data, rows) ==
    [kind |-> "tiles", regions |-> regions, symbols |-> PkgSymbols(regions), data |-> data, rows |-> rows,
     steps |-> OfTiles(700, 1500, 40),
     outputs |-> <<[name |-> "result", slices |-> <<[tile |-> 0, at |-> \h90000, file |-> 0, bytes |-> 32]>>]>>]
Free == \h70000
NoRows == OfTiles({}, {}, {})
ProgramCases ==
    {Programs(r, d, w) :
        r \in {SupportOnly, Spilled},
        d \in {<<>>,
               <<Datum3(0, ExchangeWindow[1] + 6, 9, "a"), Datum3(0, ExchangeWindow[1], 8, "b"),
                 Datum3(1, ExchangeWindow[1] - 20, 40, "c")>>,
               <<Datum3(0, \h58000 - 10, 20, "a"), Datum3(1, ExecutableLimit, 64, "b")>>,
               <<Datum3(0, ExecutableLimit, 64, "a"), Datum3(0, ExchangeWindow[1], 8, "b"),
                 Datum3(1, ExchangeWindow[1] + 2, 3, "c"), Datum3(2, Free + 100, 40, "d")>>,
               <<Datum3(0, \h80000, 16, "a"), Datum3(0, \h80008, 16, "b")>>,
               <<Datum3(1, ExecutableStart + 16, 32, "a"), Datum3(1, MemoryLimit, 4, "b")>>},
        w \in {NoRows, OfTiles({<<Free, Free + 400>>}, {<<Free + 100, Free + 300>>}, {})}}
    \cup {Programs(SupportOnly, <<Datum3(0, Free, 40, "a")>>, OfTiles({<<Free + 8, Free + 80>>}, {}, {})),
          Programs(SupportOnly, <<Datum3(0, Free, 0, "a")>>, NoRows),
          Programs(Full, <<>>, NoRows), Programs(Tight, <<>>, NoRows),
          Programs(SupportOnly, <<Datum3(1, MemoryLimit, 4, "a"), Datum3(1, ExchangeWindow[1], 4, "b")>>, NoRows),
          Programs(SupportOnly, <<Datum3(1, ExecutableLimit, LoadLimit - ExecutableLimit, "a"),
                                  Datum3(1, ExchangeWindow[1], 4, "b")>>, NoRows),
          Programs(SupportOnly, <<Datum3(0, ExecutableStart, ExecutableLimit - ExecutableStart, "a")>>,
                   NoRows)}

MCPackageCases == GraphCases \cup ProgramCases
=============================================================================
