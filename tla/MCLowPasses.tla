----------------------------- MODULE MCLowPasses -----------------------------
(***************************************************************************)
(* Expanded graphs built from small pools of the operations expansion      *)
(* emits: every sequence over a pool whose kernels and outputs read what   *)
(* was written.                                                            *)
(***************************************************************************)
EXTENDS LowPasses

Own == [kind |-> "own", of |-> 0, off |-> 0]
AliasOf(s) == [kind |-> "alias", of |-> s, off |-> 0]
LowShard(tile, size, logical, width, def) ==
    [tile |-> tile, size |-> size, logical |-> logical, width |-> width,
     order |-> "row", class |-> "standard", def |-> def]

ViewOf(s, lo, hi) == [shard |-> s, lo |-> lo, hi |-> hi]
Copy(src, soff, dst, doff, units) ==
    [src |-> src, soff |-> soff, dst |-> dst, doff |-> doff, units |-> units,
     rows |-> 1, sstride |-> 0, dstride |-> 0, align |-> 1]
TransferOf(source, destination) == [source |-> source, destinations |-> <<destination>>]
Phase(operation, transfers) == [operation |-> operation, transfers |-> transfers]
RunOf(kernel, name, inputs, output, align, distinct) ==
    [kernel |-> kernel, name |-> name, inputs |-> inputs, output |-> output,
     align |-> align, distinct |-> distinct, packs |-> kernel = "cast", padding |-> kernel = "clear"]

C(tile, id) == [op |-> "copy", tile |-> tile, id |-> id]
K(tile, id) == [op |-> "compute", tile |-> tile, id |-> id]
X(id) == [op |-> "exchange", tile |-> 0, id |-> id]
R(id) == [op |-> "repeat", tile |-> 0, id |-> id]

\* The sequences of at most n distinct operations of a pool.
Sequences(pool_, n) ==
    {q \in UNION {[1 .. m -> pool_] : m \in 1 .. n} :
        \A i, j \in 1 .. Len(q) : i # j => q[i] # q[j]}

Graph(tileSet, shards, inputs, outputs, copies, phases, runs, repeats) ==
    [tiles |-> tileSet, shards |-> shards, inputs |-> inputs, outputs |-> outputs, finite |-> FALSE,
     copies |-> copies, phases |-> phases, runs |-> runs, repeats |-> repeats, body |-> <<>>]

Expand(graph, operations, length) == [graph |-> graph, pool |-> operations, length |-> length]

------------------------------------------------------------------------------
\* Movement: 1 x (input), 2 y, 3 z, 4 h (half of y), 7 v (y in place), 8 o on tile 0;
\* 5 s, 6 u on tile 1.
MoveShards == <<LowShard(0, 2, 2, 1, Own), LowShard(0, 2, 2, 1, Own), LowShard(0, 2, 2, 1, Own),
                LowShard(0, 1, 1, 1, Own), LowShard(1, 2, 2, 1, Own), LowShard(1, 2, 2, 1, Own),
                LowShard(0, 2, 2, 1, AliasOf(2)), LowShard(0, 2, 2, 1, Own)>>
MoveCopies == <<Copy(1, 0, 2, 0, 2), Copy(1, 0, 3, 0, 1), Copy(1, 1, 3, 1, 1),
                Copy(2, 1, 4, 0, 1), Copy(2, 0, 3, 0, 2), Copy(1, 0, 3, 0, 2), Copy(3, 0, 8, 0, 2)>>
MovePhases == <<Phase(1, <<TransferOf(ViewOf(2, 0, 2), ViewOf(5, 0, 2))>>),
                Phase(1, <<TransferOf(ViewOf(3, 0, 2), ViewOf(6, 0, 2))>>),
                Phase(1, <<TransferOf(ViewOf(5, 0, 2), ViewOf(3, 0, 2))>>),
                Phase(1, <<TransferOf(ViewOf(1, 0, 1), ViewOf(5, 1, 2)), TransferOf(ViewOf(1, 1, 2), ViewOf(5, 0, 1))>>)>>
MoveRuns(align) ==
    <<RunOf("map", "f", <<ViewOf(2, 0, 2)>>, ViewOf(7, 0, 2), 1, {}),
      RunOf("map", "g", <<ViewOf(4, 0, 1)>>, ViewOf(4, 0, 1), align, {}),
      RunOf("map", "h", <<ViewOf(2, 0, 2), ViewOf(1, 0, 2)>>, ViewOf(3, 0, 2), 1, {1, 2}),
      RunOf("map", "h", <<ViewOf(2, 0, 2), ViewOf(3, 0, 2)>>, ViewOf(8, 0, 2), 1, {2, 3})>>
MovePool == {C(0, 1), C(0, 2), C(0, 3), C(0, 4), C(0, 5), X(1), X(2), X(3), K(0, 1), K(0, 3)}
MoveGraphs ==
    {Expand(Graph({0, 1}, MoveShards, [s \in {1} |-> "host"], out, MoveCopies, MovePhases, MoveRuns(2), <<>>),
            MovePool, 4) :
        out \in {<<ViewOf(6, 0, 2)>>, <<ViewOf(3, 0, 2)>>}}
      \cup
    {Expand(Graph({0, 1}, MoveShards, [s \in {1} |-> "host"], <<ViewOf(8, 0, 2)>>, MoveCopies, MovePhases,
                  MoveRuns(1), <<>>), operations, 4) :
        operations \in {{C(0, 1), C(0, 6), K(0, 4)}, {C(0, 6), C(0, 7), X(3), X(4)}}}

AliasPool == {C(0, 1), C(0, 4), K(0, 1), X(1)}
AliasRuns(align) == <<RunOf("map", "f", <<ViewOf(4, 0, 1)>>, ViewOf(3, 0, 1), align, {})>>
AliasGraphs ==
    {Expand(Graph({0, 1}, MoveShards, [s \in {1} |-> kind], <<ViewOf(3, 0, 1)>>, MoveCopies, MovePhases,
                  AliasRuns(align), <<>>), AliasPool, 4) :
        align \in {1, 2}, kind \in {"host", "parameter"}}

------------------------------------------------------------------------------
\* Repeat: 1 x (parameter), 2 the invariant argument, 3 the carried initial value,
\* 4 its argument, 5 yielded, 6 result, 7 t (scratch), 8 w, 9 the iterated argument,
\* 10 and 11 what it runs over; 12 s on tile 1.
LoopShards == [s \in 1 .. 12 |->
    LowShard(IF s = 12 THEN 1 ELSE 0, 1, 1, 1,
          CASE s \in {4, 6} -> AliasOf(3) [] s = 5 -> AliasOf(4) [] OTHER -> Own)]
LoopCopies == <<Copy(1, 0, 3, 0, 1), Copy(1, 0, 8, 0, 1), Copy(2, 0, 7, 0, 1), Copy(9, 0, 7, 0, 1),
                Copy(4, 0, 7, 0, 1), Copy(8, 0, 7, 0, 1), Copy(6, 0, 8, 0, 1)>>
LoopPhases == <<Phase(1, <<TransferOf(ViewOf(7, 0, 1), ViewOf(12, 0, 1))>>),
                Phase(1, <<TransferOf(ViewOf(5, 0, 1), ViewOf(12, 0, 1))>>)>>
LoopRuns == <<RunOf("map", "f", <<ViewOf(4, 0, 1), ViewOf(7, 0, 1)>>, ViewOf(5, 0, 1), 1, {}),
              RunOf("map", "g", <<ViewOf(4, 0, 1), ViewOf(8, 0, 1)>>, ViewOf(5, 0, 1), 1, {}),
              RunOf("map", "h", <<ViewOf(7, 0, 1)>>, ViewOf(7, 0, 1), 1, {})>>
LoopBodies == {q \in Sequences({C(0, 3), C(0, 4), C(0, 5), C(0, 6), X(1), X(2), K(0, 1), K(0, 2)}, 3) :
                 \E i \in 1 .. Len(q) : q[i] \in {K(0, 1), K(0, 2)}}
LoopGraphs ==
    {Expand(Graph({0, 1}, LoopShards, [s \in {1, 10, 11} |-> "parameter"],
                  IF \E i \in 1 .. Len(body) : body[i].op = "exchange" THEN <<ViewOf(6, 0, 1), ViewOf(12, 0, 1)>>
                  ELSE <<ViewOf(6, 0, 1)>>,
                  LoopCopies, LoopPhases, LoopRuns,
                  <<[count |-> 2, body |-> body,
                     carried |-> {[initial |-> 3, argument |-> 4, yielded |-> 5, result |-> 6]},
                     invariants |-> {[input |-> 1, argument |-> 2]},
                     iterated |-> {[inputs |-> <<10, 11>>, argument |-> 9]}]>>),
            {C(0, 1), C(0, 2), R(1), C(0, 7)}, 4) :
        body \in LoopBodies}

------------------------------------------------------------------------------
\* Casts: 1 x (input), 2 h, 4 h2 hold FP16; 3 q, 5 o hold FP8.
CastElements == 10
CastShards == [s \in 1 .. 5 |-> LowShard(0, CastElements, CastElements, IF s \in {3, 5} THEN 1 ELSE 2, Own)]
AllOf(s) == ViewOf(s, 0, CastElements)
CastCopies == <<Copy(2, 0, 4, 0, 2 * CastElements), Copy(3, 0, 5, 0, CastElements)>>
CastRuns == <<RunOf("map", "f", <<AllOf(1)>>, AllOf(2), 1, {}), RunOf("cast", "cast", <<AllOf(2)>>, AllOf(3), 1, {}),
              RunOf("cast", "cast", <<AllOf(1)>>, AllOf(3), 1, {}), RunOf("cast", "cast", <<AllOf(4)>>, AllOf(3), 1, {}),
              RunOf("map", "g", <<AllOf(3)>>, AllOf(5), 1, {}), RunOf("map", "h", <<AllOf(2)>>, AllOf(4), 1, {})>>
CastGraphs ==
    {Expand(Graph({0}, CastShards, [s \in {1} |-> "host"], out, CastCopies, <<>>, CastRuns, <<>>),
            {C(0, 1), C(0, 2), K(0, 1), K(0, 2), K(0, 3), K(0, 4), K(0, 5), K(0, 6)}, 4) :
        out \in {<<AllOf(3)>>, <<AllOf(5)>>, <<AllOf(5), AllOf(4)>>}}

------------------------------------------------------------------------------
\* Padding: 1 x (input), 2 a, 3 w (parameter), 4 w2, 5 o, 6 q, 7 b; elements 2 and beyond pad.
PadShards(width) == [s \in 1 .. 7 |->
    IF s = 5 THEN LowShard(0, 1, 1, 2, Own) ELSE LowShard(0, 3, 2, IF s = 6 THEN width ELSE 2, Own)]
PadCopies == <<Copy(1, 0, 2, 0, 6), Copy(1, 0, 2, 0, 4), Copy(3, 0, 4, 0, 6), Copy(3, 0, 4, 0, 4),
               Copy(1, 0, 7, 0, 4), Copy(7, 0, 2, 0, 6), Copy(1, 0, 4, 0, 6)>>
PadPhases == <<Phase(1, <<TransferOf(ViewOf(1, 0, 3), ViewOf(2, 0, 3))>>)>>
PadRuns == <<RunOf("clear", "z", <<>>, ViewOf(2, 2, 3), 1, {}), RunOf("clear", "z", <<>>, ViewOf(4, 2, 3), 1, {}),
             RunOf("map", "f", <<ViewOf(3, 0, 2)>>, ViewOf(4, 0, 2), 1, {}),
             RunOf("gemm", "m", <<ViewOf(2, 0, 3), ViewOf(3, 0, 3)>>, ViewOf(5, 0, 1), 1, {}),
             RunOf("gemm", "m", <<ViewOf(2, 0, 3), ViewOf(4, 0, 3)>>, ViewOf(5, 0, 1), 1, {}),
             RunOf("cast", "cast", <<ViewOf(2, 0, 3)>>, ViewOf(6, 0, 3), 1, {}),
             RunOf("map", "g", <<ViewOf(2, 0, 2)>>, ViewOf(6, 0, 2), 1, {})>>
PadPool(width) == {C(0, 1), C(0, 3), C(0, 4), X(1), K(0, 1), K(0, 2), K(0, 3)}
    \cup (IF width = 1 THEN {K(0, 6)} ELSE {K(0, 4), K(0, 5), K(0, 7)})
PadGraphs ==
    {Expand(Graph({0}, PadShards(width), (1 :> "host") @@ (3 :> "parameter"),
                  <<out>>, PadCopies, PadPhases, PadRuns, <<>>),
            PadPool(width), 4) :
        width \in {1, 2}, out \in {ViewOf(5, 0, 1), ViewOf(6, 0, 2)}}
      \cup
    {Expand(Graph({0}, PadShards(width), (1 :> "host") @@ (3 :> "parameter"), <<ViewOf(5, 0, 1)>>,
                  PadCopies, PadPhases, PadRuns, <<>>), operations, 5) :
        width \in {1, 2},
        operations \in {{C(0, 5), C(0, 6), K(0, 1), K(0, 4)}, {C(0, 1), C(0, 3), C(0, 7), K(0, 1), K(0, 5)}}}

AllExpansions == MoveGraphs \cup AliasGraphs \cup LoopGraphs \cup CastGraphs \cup PadGraphs
==============================================================================
