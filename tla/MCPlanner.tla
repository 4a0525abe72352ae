------------------------------- MODULE MCPlanner -------------------------------
(***************************************************************************)
(* Planner on two tiles: rows and flat are row-major, left and tleft the   *)
(* packed operands of a GEMM, right its weights, parts a split product.    *)
(* The unit of memory is eight bytes.                                      *)
(***************************************************************************)
EXTENDS Planner

Layout(order, panel, class, tiles, solo) ==
    [order |-> order, panel |-> panel, class |-> class, tiles |-> tiles, solo |-> solo,
     subword |-> FALSE]

MCLayoutInfo ==
    [rows  |-> Layout("row", "none", "standard", 2, "rows1"),
     rows1 |-> Layout("row", "none", "standard", 1, "rows1"),
     flat  |-> Layout("row", "none", "standard", 2, "flat1"),
     flat1 |-> Layout("row", "none", "standard", 1, "flat1"),
     left  |-> Layout("left", "amp", "standard", 2, "left1"),
     left1 |-> Layout("left", "amp", "standard", 1, "left1"),
     tleft |-> Layout("tleft", "tamp", "standard", 2, "tleft1"),
     tleft1 |-> Layout("tleft", "tamp", "standard", 1, "tleft1"),
     right |-> Layout("block", "none", "interleaved", 2, "right"),
     wide  |-> Layout("block", "none", "standard", 2, "wide"),
     parts |-> Layout("left", "amp", "interleaved", 2, "parts"),
     unpacked |-> Layout("row", "none", "standard", 2, "unpacked"),
     slice |-> Layout("row", "none", "standard", 1, "slice")]

Shape == [rows |-> <<4, 2>>, rows1 |-> <<6, 0>>, flat |-> <<3, 3>>, flat1 |-> <<6, 0>>,
          left |-> <<4, 2>>, left1 |-> <<6, 0>>, tleft |-> <<4, 4>>, tleft1 |-> <<8, 0>>,
          right |-> <<4, 4>>, wide |-> <<4, 4>>, parts |-> <<6, 6>>, unpacked |-> <<6, 6>>,
          slice |-> <<6, 0>>]

Scale == <<1, 2, 1, 1, 1>>
MCShardBytes(v, layout) == [t \in 1 .. 2 |-> Shape[layout][t] * Scale[v]]
MCVolumeBytes(v) == 6 * Scale[v]
MCDefaultLayouts(v) == {"rows", "flat"}
MCCompactLayout(v) == "flat"

Whole == [left |-> "left", right |-> "right", result |-> "tleft", reduction |-> "none",
          unpacked |-> "none", seed |-> "none", rest |-> "none", swapped |-> FALSE]
Split == [Whole EXCEPT !.right = "wide", !.result = "parts", !.reduction = "slice",
                       !.unpacked = "unpacked", !.seed = "slice", !.rest = "slice", !.swapped = TRUE]

MCGemmChoices(op) == {Whole, Split}

MCCopyCycles(from, to) ==
    (IF MCLayoutInfo[from].order = MCLayoutInfo[to].order THEN 4 ELSE 6)
    + (IF to = "flat" THEN 1 ELSE 0)

MCKernelCycles(kind, layout) ==
    CASE kind = "gemm" -> IF layout = "parts" THEN 8 ELSE 20
      [] kind = "sum" -> 3
      [] kind = "biasgelu" -> 9
      [] OTHER -> IF layout = "rows" THEN 7 ELSE 5

MCElementBytes(class) == IF class = "standard" THEN 2 ELSE 4

Fed(v) == [value |-> v, kind |-> "host"]
Stored(v) == [value |-> v, kind |-> "parameter"]
Op(kind, in, out) == [kind |-> kind, in |-> in, out |-> out]

High(inputs, ops, outputs, initial, choices) ==
    [inputs |-> inputs, ops |-> ops, outputs |-> outputs, initial |-> initial,
     choices |-> choices @@ [v \in 1 .. Len(inputs) + Len(ops) |-> "any"]]

\* A product and its activation; the weights start packed.
Layer(choices) == High(<<Fed(1), Stored(2)>>, <<Op("gemm", <<1, 2>>, 3), Op("gelu", <<3>>, 4)>>,
                       <<4>>, <<"rows", "right">>, choices)
\* A bias and its activation, which can be fused.
Bias == High(<<Fed(1), Stored(2)>>, <<Op("add", <<1, 2>>, 3), Op("gelu", <<3>>, 4)>>,
             <<4>>, <<"rows", "rows">>, <<>>)
\* The sum is also an output: it cannot be fused away.
Escapes == [Bias EXCEPT !.outputs = <<4, 3>>]
\* A residual lives across the product; one parameter is read twice.
Residual == High(<<Fed(1), Stored(2)>>, <<Op("gemm", <<1, 2>>, 3), Op("add", <<3, 1>>, 4)>>,
                 <<4>>, <<"rows", "left">>, <<>>)
Twice == High(<<Fed(1), Stored(2)>>, <<Op("add", <<1, 2>>, 3), Op("add", <<3, 2>>, 4), Op("gelu", <<4>>, 5)>>,
              <<5>>, <<"rows", "rows">>, <<>>)
Square == High(<<Stored(1)>>, <<Op("gemm", <<1, 1>>, 2), Op("add", <<2, 1>>, 3)>>, <<3>>, <<"left">>, <<>>)

Problem(h, s, p, budget) == [high |-> h, states |-> s, paths |-> p, budget |-> budget]

MCProblems ==
    {Problem(h, 0, 0, b) : h \in {Bias, Escapes, Twice, Layer(<<>>), Layer(3 :> "left"), Residual, Square},
                           b \in {13, 16, 18, 20, 24, 33}}
    \cup {Problem(h, 1, 1, 40) : h \in {Twice, Residual}}
    \cup {Problem(Twice, 2, 1, 22)}
================================================================================
