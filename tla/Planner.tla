-------------------------------- MODULE Planner --------------------------------
(***************************************************************************)
(* The planner: a dynamic program over the boundaries of a fixed order of  *)
(* high operations.  A state of the search is what is live at a boundary   *)
(* and in which layout; a path label is what it cost to get there and the  *)
(* memory its history needed.  Dominated labels are dropped on the way and *)
(* the fragments of the cheapest remaining path are concatenated.          *)
(*                                                                         *)
(* high   a graph: `inputs` (value, kind) and `ops` (kind, in, out) in     *)
(*        order, `outputs`, the layouts that are required (`choices`) and  *)
(*        the layouts inputs start in (`initial`).                         *)
(* mid    a fragment: `values` (origin, layout), `inputs` (id, kind),      *)
(*        `ops` and `outputs`; a value is known by its place in `values`.  *)
(* A layout stands for everything a tensor type adds to the shape of its   *)
(* value.  Graphs without repeats or in-place operations, in one precision,*)
(* and the identity owner map: all the planner builds.                     *)
(***************************************************************************)
EXTENDS Integers, Sequences, SequencesExt, FiniteSetsExt

CONSTANTS
    TileCount,                \* tiles of the device
    Problems,                 \* [high, states, paths, budget]: a graph, the two
                              \* search limits and the memory of a tile
    LayoutInfo,               \* layout -> [order, panel, class, tiles, solo, subword]
    DefaultLayouts(_),        \* default_layouts of the shape of a value
    CompactLayout(_),         \* compact_format of the shape of a value
    ShardBytes(_, _),         \* value, layout -> bytes on each tile
    VolumeBytes(_),           \* the bytes of a value, without padding
    GemmChoices(_),           \* the assignments choices() enumerates for an operation
    CopyCycles(_, _),         \* the price of a copy between two layouts
    KernelCycles(_, _),       \* the price of a kernel, by its kind and its result
    AmpTail,                  \* bytes a GEMM may read behind its left operand
    ElementBytes(_),          \* bytes of a memory element of a class
    InterleavedBytes,         \* interleaved_data_bytes
    MaximumStandard           \* maximum_standard_allocation

VARIABLES
    problem,                  \* what is being planned
    planStage,                \* new, catalogue, search, planned, noplan or failed
    position,                 \* the operation, or the boundary, that is next
    catalogue,                \* the implementations of each operation
    states,                   \* boundary -> live values -> path labels
    taken,                    \* the states of this boundary not yet extended
    plan                      \* the graph that was assembled

plannerVars == <<problem, planStage, position, catalogue, states, taken, plan>>

high == problem.high
Boundaries == 0 .. Len(high.ops)
TileSet == 1 .. TileCount

CeilDiv(a, b) == (a + b - 1) \div b
Larger(a, b) == IF a >= b THEN a ELSE b
Listed(S) == FoldSet(LAMBDA x, seq : Append(seq, x), <<>>, S)
TotalOf(seq) == FoldLeft(LAMBDA a, b : a + b, 0, seq)

------------------------------------------------------------------------------
(* Executable fragments. *)

NoGraph == [values |-> <<>>, inputs |-> <<>>, ops |-> <<>>, outputs |-> <<>>]

Value(origin, layout) == [origin |-> origin, layout |-> layout]

\* construction::value: the graph with one more value, which is the last.
WithValue(g, origin, layout) == [g EXCEPT !.values = Append(@, Value(origin, layout))]

WithOp(g, op) == [g EXCEPT !.ops = Append(@, op)]

LastValue(g) == Len(g.values)

OrderOf(layout) == LayoutInfo[layout].order

\* A packed tensor is assembled on one tile before it is distributed when
\* logical cuts would transfer pieces of a word.
AssembledFirst(from, to) ==
    /\ LayoutInfo[to].tiles > 1
    /\ OrderOf(from) # OrderOf(to)
    /\ LayoutInfo[to].panel # "none"
    /\ OrderOf(to) = "tleft" \/ LayoutInfo[to].subword

Packing(from, to) ==
    IF LayoutInfo[from].panel # "none" /\ LayoutInfo[from].panel = LayoutInfo[to].panel
    THEN "direct" ELSE "staged"

OneCopy(g, input, layout, slice) ==
    WithOp(WithValue(g, g.values[input].origin, layout),
           [kind |-> "copy", in |-> <<input>>, out |-> LastValue(g) + 1, slice |-> slice,
            packing |-> Packing(g.values[input].layout, layout)])

AssembleFor(g, input, layout, slice) ==
    IF /\ slice = "whole"
       /\ AssembledFirst(g.values[input].layout, layout)
       /\ g.values[input].layout # LayoutInfo[layout].solo
    THEN <<OneCopy(g, input, LayoutInfo[layout].solo, "whole"), LastValue(g) + 1>>
    ELSE <<g, input>>

Converted(assembled, layout, slice) ==
    IF slice = "whole" /\ assembled[1].values[assembled[2]].layout = layout THEN assembled
    ELSE <<OneCopy(assembled[1], assembled[2], layout, slice), LastValue(assembled[1]) + 1>>

\* construction::copy: <<graph, value>>.  An identical operand needs no copy.
CopyTo(g, input, layout, slice) == Converted(AssembleFor(g, input, layout, slice), layout, slice)

\* append_fragment: inputs are bound to existing values; new values are
\* allocated outputs first.  The result is <<graph, values of the outputs>>.
NewValues(fragment) ==
    FoldLeft(LAMBDA acc, id : IF \/ id \in ToSet(acc)
                                 \/ \E i \in DOMAIN fragment.inputs : fragment.inputs[i].id = id
                              THEN acc ELSE Append(acc, id),
             <<>>, fragment.outputs \o [i \in DOMAIN fragment.values |-> i])

BoundId(g, fragment, imports, added, id) ==
    IF \E i \in DOMAIN fragment.inputs : fragment.inputs[i].id = id
    THEN imports[CHOOSE i \in DOMAIN fragment.inputs : fragment.inputs[i].id = id]
    ELSE Len(g.values) + (CHOOSE k \in DOMAIN added : added[k] = id)

RemapOperation(op, to(_)) ==
    [op EXCEPT !.in = [i \in DOMAIN op.in |-> to(op.in[i])], !.out = to(@)]

AppendValues(g, fragment, imports, added) ==
    LET to(id) == BoundId(g, fragment, imports, added, id)
    IN  <<[g EXCEPT !.values = @ \o [k \in DOMAIN added |-> fragment.values[added[k]]],
                    !.ops = @ \o [k \in DOMAIN fragment.ops |-> RemapOperation(fragment.ops[k], to)]],
          [i \in DOMAIN fragment.outputs |-> to(fragment.outputs[i])]>>

AppendFragment(g, fragment, imports) == AppendValues(g, fragment, imports, NewValues(fragment))

\* Appending refuses an input whose representation is not the fragment's.
Appendable(g, fragment, imports) ==
    /\ Len(imports) = Len(fragment.inputs)
    /\ \A i \in DOMAIN imports : g.values[imports[i]] = fragment.values[fragment.inputs[i].id]

\* MidGraph::validate: a value is defined once, before it is read.
Defined(g, k) == {g.inputs[i].id : i \in DOMAIN g.inputs} \cup {g.ops[j].out : j \in 1 .. k - 1}

ValidGraph(g) ==
    /\ \A k \in DOMAIN g.ops : /\ ToSet(g.ops[k].in) \subseteq Defined(g, k)
                               /\ g.ops[k].out \notin Defined(g, k)
    /\ ToSet(g.outputs) \subseteq Defined(g, Len(g.ops) + 1)

------------------------------------------------------------------------------
(* The estimate of a fragment: its price, and the memory of every tile.    *)

\* A usage is [std, il] of one tile; a peak adds the total and the largest
\* allocation in standard memory.
NoPeak == [std |-> 0, il |-> 0, total |-> 0, max |-> 0]

Include(a, b) == [f \in DOMAIN a |-> Larger(a[f], b[f])]

ClassOf(layout) == LayoutInfo[layout].class

\* A GEMM reads its left operand, and writes its result, by memory elements;
\* it may read past the end of the left operand.
ByElements(g, id) == \E k \in DOMAIN g.ops : /\ g.ops[k].kind = "gemm"
                                             /\ id \in {g.ops[k].in[1], g.ops[k].out}

TailOf(g, id) == IF \E k \in DOMAIN g.ops : g.ops[k].kind = "gemm" /\ g.ops[k].in[1] = id
                 THEN AmpTail ELSE 0

AlignedTo(bytes, unit) == CeilDiv(bytes, unit) * unit

UnitOf(g, id) == IF ByElements(g, id) THEN ElementBytes(ClassOf(g.values[id].layout)) ELSE 1

SizeOf(shard, tail, unit) ==
    [t \in TileSet |-> IF shard[t] = 0 THEN 0 ELSE AlignedTo(shard[t] + tail, unit)]

SizesOf(g) ==
    FoldLeft(LAMBDA acc, id : Append(acc, SizeOf(ShardBytes(g.values[id].origin, g.values[id].layout),
                                                 TailOf(g, id), UnitOf(g, id))),
             <<>>, [id \in DOMAIN g.values |-> id])

\* Outputs and parameters live to the end; anything else to its last use.
LastUse(g, id) ==
    IF \/ id \in ToSet(g.outputs)
       \/ \E i \in DOMAIN g.inputs : g.inputs[i] = [id |-> id, kind |-> "parameter"]
    THEN Len(g.ops) + 1
    ELSE Max({0} \cup {k \in DOMAIN g.ops : id \in ToSet(g.ops[k].in) \cup {g.ops[k].out}})

LastUses(g) == FoldLeft(LAMBDA acc, id : Append(acc, LastUse(g, id)), <<>>, [id \in DOMAIN g.values |-> id])

\* What the live values and the scratch of a step take on a tile.
ClassUse(g, sizes, ids, class, t) ==
    MapThenSumSet(LAMBDA id : sizes[id][t], {id \in ids : ClassOf(g.values[id].layout) = class})

LargestStandard(g, sizes, ids) ==
    Max({0} \cup {sizes[id][t] : id \in {id \in ids : ClassOf(g.values[id].layout) = "standard"},
                                 t \in TileSet})

PeakOf(std, il, max) == [std |-> std, il |-> il, total |-> std + il, max |-> max]

StepPeaks(g, sizes, ids, scratch) ==
    [t \in TileSet |-> PeakOf(ClassUse(g, sizes, ids, "standard", t) + scratch[t],
                              ClassUse(g, sizes, ids, "interleaved", t),
                              Larger(LargestStandard(g, sizes, ids), Max({scratch[u] : u \in TileSet})))]

NoScratch == [t \in TileSet |-> 0]

\* A staged change of order populates row-major scratch on the owners of the result.
ScratchOf(g, op) ==
    IF op.kind = "copy" /\ op.packing = "staged"
       /\ OrderOf(g.values[op.in[1]].layout) # OrderOf(g.values[op.out].layout)
    THEN [t \in TileSet |-> ShardBytes(g.values[op.out].origin, g.values[op.out].layout)[t]]
    ELSE NoScratch

CyclesOf(g, op) ==
    IF op.kind = "copy" THEN CopyCycles(g.values[op.in[1]].layout, g.values[op.out].layout)
                        ELSE KernelCycles(op.kind, g.values[op.out].layout)

Parameters(g) == {g.inputs[i].id : i \in {i \in DOMAIN g.inputs : g.inputs[i].kind = "parameter"}}

\* One observation of every tile.  What is resident is reported apart from
\* what comes and goes.
Observed(acc, all, moving) ==
    [acc EXCEPT !.peak = FoldLeft(LAMBDA p, t : Include(p, all[t]), @, [t \in TileSet |-> t]),
                !.moving = [t \in TileSet |-> Include(@[t], moving[t])],
                !.movingTotal = Larger(@, TotalOf([t \in TileSet |-> moving[t].total]))]

ObserveLive(acc, g, sizes, scratch) ==
    Observed(acc, StepPeaks(g, sizes, acc.live, scratch),
                  StepPeaks(g, sizes, acc.live \ Parameters(g), scratch))

Entered(acc, op) == [acc EXCEPT !.live = @ \cup ToSet(op.in) \cup {op.out}]

AnalyzeStep(acc, g, sizes, last, k) ==
    [ObserveLive(Entered(acc, g.ops[k]), g, sizes, ScratchOf(g, g.ops[k]))
        EXCEPT !.cycles = @ + CyclesOf(g, g.ops[k]),
               !.live = {id \in @ : last[id] > k}]

AnalyzeFrom(g, sizes, last, inputs) ==
    FoldLeft(LAMBDA acc, k : AnalyzeStep(acc, g, sizes, last, k),
             ObserveLive([live |-> inputs, cycles |-> 0, peak |-> NoPeak, movingTotal |-> 0,
                          moving |-> [t \in TileSet |-> NoPeak]],
                         g, sizes, NoScratch),
             [k \in DOMAIN g.ops |-> k])

ResidentUsage(g, sizes, id) ==
    [t \in TileSet |-> IF ClassOf(g.values[id].layout) = "standard"
                       THEN [std |-> sizes[id][t], il |-> 0]
                       ELSE [std |-> 0, il |-> sizes[id][t]]]

\* analyze_observed with the observer of the search: the price, the peak, and
\* the memory split into residents and the rest.
Summary(g, sizes, run) ==
    [cycles |-> run.cycles, peak |-> run.peak,
     memory |-> [params |-> [o \in {g.values[id].origin : id \in Parameters(g)} |->
                    ResidentUsage(g, sizes, CHOOSE id \in Parameters(g) : g.values[id].origin = o)],
                 moving |-> run.moving, movingTotal |-> run.movingTotal]]

AnalyzeSized(g, sizes) ==
    Summary(g, sizes, AnalyzeFrom(g, sizes, LastUses(g), {g.inputs[i].id : i \in DOMAIN g.inputs}))

AnalyzePlan(g) == AnalyzeSized(g, SizesOf(g))

------------------------------------------------------------------------------
(* Memory of a history: residents stay, everything else has its maximum.   *)



TilePeak(m, ids, t) ==
    LET stay == [std |-> MapThenSumSet(LAMBDA v : m.params[v][t].std, ids),
                 il |-> MapThenSumSet(LAMBDA v : m.params[v][t].il, ids)]
    IN  [std |-> m.moving[t].std + stay.std, il |-> m.moving[t].il + stay.il,
         total |-> m.moving[t].total + stay.std + stay.il,
         max |-> Max({m.moving[t].max} \cup {m.params[v][t].std : v \in ids})]

\* Memory::peak over the residents in `ids`.
MemoryPeak(m, ids) ==
    FoldLeft(LAMBDA p, t : Include(p, TilePeak(m, ids, t)), NoPeak, [t \in TileSet |-> t])

AtMost(a, b) == \A f \in DOMAIN a : a[f] <= b[f]

Dominates(a, b) ==
    /\ a.movingTotal <= b.movingTotal
    /\ \A t \in TileSet : AtMost(a.moving[t], b.moving[t])
    /\ \A v \in DOMAIN a.params, t \in TileSet : AtMost(a.params[v][t], b.params[v][t])

FitsMemory(peak) ==
    /\ peak.il <= InterleavedBytes
    /\ peak.total <= problem.budget
    /\ peak.max <= MaximumStandard

------------------------------------------------------------------------------
(* The implementations of an operation. *)

InputKind(v) ==
    IF \E i \in DOMAIN high.inputs : high.inputs[i] = [value |-> v, kind |-> "parameter"]
    THEN "parameter" ELSE "host"

InOrder(values) == SetToSortSeq(values, LAMBDA a, b : a < b)

Bindings(order) == [v \in ToSet(order) |-> CHOOSE i \in DOMAIN order : order[i] = v]

\* Candidate::inputs: a fragment that imports the representations in `live`.
Importing(live, order, end) ==
    [end |-> end, bindings |-> Bindings(order),
     graph |-> [NoGraph EXCEPT
        !.values = FoldLeft(LAMBDA values, v : Append(values, Value(v, live[v])), <<>>, order),
        !.inputs = [i \in DOMAIN order |-> [id |-> i, kind |-> InputKind(order[i])]]]]

CandidateInputs(live, end) == Importing(live, InOrder(DOMAIN live), end)

Choice(v) == high.choices[v]

UsedBy(v, p) == v \in ToSet(high.ops[p].in)

\* The layouts offered at a boundary, before they are propagated.
OfferedFirst(v) ==
    IF Choice(v) # "any" THEN {Choice(v)}
    ELSE IF v \in DOMAIN high.initial THEN {high.initial[v]} ELSE DefaultLayouts(v)

Elementwise(op) == op.kind \in {"add", "gelu"}

PropagateThrough(offers, op) ==
    LET ports == ToSet(op.in) \cup {op.out}
        layouts == UNION {offers[v] : v \in ports}
    IN  IF ~Elementwise(op) THEN offers
        ELSE [v \in ports |-> IF Choice(v) = "any" THEN offers[v] \cup layouts ELSE offers[v]] @@ offers

PropagateOnce(offers) == FoldLeft(PropagateThrough, offers, high.ops)

\* Until nothing changes: a layout crosses an operation in every round.
Offers ==
    FoldLeft(LAMBDA offers, k : PropagateOnce(offers),
             [v \in DOMAIN high.choices |-> OfferedFirst(v)], high.ops)

\* An Add whose sum only a Gelu reads can be one fused operation with it.
Fusable(p) ==
    /\ p < Len(high.ops)
    /\ high.ops[p].kind = "add" /\ high.ops[p + 1].kind = "gelu"
    /\ high.ops[p + 1].in = <<high.ops[p].out>>
    /\ high.ops[p].out \notin ToSet(high.outputs)
    /\ Choice(high.ops[p].out) = "any"
    /\ \A q \in p + 2 .. Len(high.ops) : ~UsedBy(high.ops[p].out, q)

\* One kernel on operands of one layout.
KernelOn(c, op, kind, out, layout) ==
    [c EXCEPT !.graph = [WithOp(WithValue(@, out, layout),
                                [kind |-> kind,
                                 in |-> [i \in DOMAIN op.in |-> c.bindings[op.in[i]]],
                                 out |-> LastValue(@) + 1])
                            EXCEPT !.outputs = <<LastValue(c.graph) + 1>>],
              !.bindings = (out :> LastValue(c.graph) + 1) @@ @]

ElementwiseCandidate(p, end, kind, layout) ==
    KernelOn(CandidateInputs([v \in ToSet(high.ops[p].in) |-> layout], end),
             high.ops[p], kind, high.ops[end].out, layout)

GenerateElementwise(p) ==
    Listed({ElementwiseCandidate(p, p, high.ops[p].kind, l) : l \in Offers[high.ops[p].out]})
    \o Listed({ElementwiseCandidate(p, p + 1, "biasgelu", l) :
                    l \in IF Fusable(p) THEN Offers[high.ops[p + 1].out] ELSE {}})

\* gemm::append: prepare both operands, multiply, and where the inner dimension
\* is split unpack the partial products, gather them and sum them.
SecondOperand(left, id, c) ==
    LET right == CopyTo(left[1], id, c.right, "whole")
    IN  <<right[1], <<left[2], right[2]>>>>

Prepared(g, ids, c) == SecondOperand(CopyTo(g, ids[1], c.left, "whole"), ids[2], c)

Multiply(prepared, origin, c) ==
    WithOp(WithValue(prepared[1], origin, c.result),
           [kind |-> "gemm", in |-> prepared[2], out |-> LastValue(prepared[1]) + 1,
            swapped |-> c.swapped, split |-> c.reduction # "none"])

GatherRest(seed, product, c) ==
    LET rest == CopyTo(seed[1], product, c.rest, "rest")
    IN  <<rest[1], <<seed[2], rest[2]>>>>

Gather(unpacked, c) == GatherRest(CopyTo(unpacked[1], unpacked[2], c.seed, "first"), unpacked[2], c)

Reduce(gathered, origin, c) ==
    WithOp(WithValue(gathered[1], origin, c.reduction),
           [kind |-> "sum", in |-> gathered[2], out |-> LastValue(gathered[1]) + 1])

SumPartials(product, origin, c) ==
    IF c.reduction = "none" THEN product
    ELSE Reduce(Gather(CopyTo(product, LastValue(product), c.unpacked, "whole"), c), origin, c)

Product(g, ids, origin, c) == SumPartials(Multiply(Prepared(g, ids, c), origin, c), origin, c)

Delivered(g, layout) == CopyTo(g, LastValue(g), layout, "whole")

Exported(t, done, origin) ==
    [t EXCEPT !.graph = [done[1] EXCEPT !.outputs = <<done[2]>>],
              !.bindings = (origin :> done[2]) @@ @]

OperandIds(t, op, c) == IF c.swapped THEN <<t.bindings[op.in[2]], t.bindings[op.in[1]]>>
                                     ELSE <<t.bindings[op.in[1]], t.bindings[op.in[2]]>>

GemmOn(t, op, layout, c) ==
    Exported(t, Delivered(Product(t.graph, OperandIds(t, op, c), op.out, c), layout), op.out)

GemmCandidate(p, live, layout, c) == GemmOn(CandidateInputs(live, p), high.ops[p], layout, c)

\* A tensor no tile can hold is no choice.
Holds(v, layout) == \A t \in TileSet : ShardBytes(v, layout)[t] <= problem.budget

PossibleChoices(p) ==
    {c \in GemmChoices(high.ops[p]) :
        /\ Holds(high.ops[p].in[IF c.swapped THEN 2 ELSE 1], c.left)
        /\ Holds(high.ops[p].in[IF c.swapped THEN 1 ELSE 2], c.right)
        /\ Holds(high.ops[p].out, c.result)}

OperandBoundaries(op) ==
    {live \in [ToSet(op.in) -> UNION {Offers[v] : v \in ToSet(op.in)}] :
        \A v \in DOMAIN live : live[v] \in Offers[v]}

GenerateGemm(p) ==
    Listed({GemmCandidate(p, live, layout, c) : live \in OperandBoundaries(high.ops[p]),
                                                  layout \in Offers[high.ops[p].out],
                                                  c \in PossibleChoices(p)})

Generate(p) == IF Elementwise(high.ops[p]) THEN GenerateElementwise(p) ELSE GenerateGemm(p)

------------------------------------------------------------------------------
(* prune: implementations of the same ports, compared whatever their inputs *)
(* turn out to be: resident, used up here, or kept for later.               *)

Ports(c) ==
    <<c.end, Len(c.graph.inputs),
      [i \in DOMAIN c.graph.inputs |-> c.graph.values[c.graph.inputs[i].id]],
      [i \in DOMAIN c.graph.outputs |-> c.graph.values[c.graph.outputs[i]]]>>

InputUses(g) == [DOMAIN g.inputs -> {"resident", "transient", "retained"}]

UnderUse(g, use) ==
    [g EXCEPT !.inputs = [i \in DOMAIN @ |-> [@[i] EXCEPT !.kind =
                              IF use[i] = "resident" THEN "parameter" ELSE "host"]],
              !.outputs = @ \o SelectSeq([i \in DOMAIN g.inputs |-> g.inputs[i].id],
                                         LAMBDA id : \E i \in DOMAIN g.inputs :
                                            g.inputs[i].id = id /\ use[i] = "retained")]

Profiles(g) == {<<use, AnalyzePlan(UnderUse(g, use)).memory>> : use \in InputUses(g)}

AllResident(use) == \A i \in DOMAIN use : use[i] = "resident"

\* One implementation is no worse than another under every use of the inputs,
\* and asks the same of the allocations it imports.
ProfilesDominate(a, b) ==
    \A x \in a, y \in b :
        x[1] = y[1] => /\ Dominates(x[2], y[2])
                       /\ AllResident(x[1]) => x[2].params = y[2].params

Dearer(old, new) ==
    old.ports = new.ports /\ ~old.apart /\ old.cycles <= new.cycles
    /\ ProfilesDominate(old.profiles, new.profiles)

PassesInputOn(g) == \E i \in DOMAIN g.inputs : g.inputs[i].id \in ToSet(g.outputs)

TotalCycles(g) == TotalOf([k \in DOMAIN g.ops |-> CyclesOf(g, g.ops[k])])

Priced(c) ==
    [candidate |-> c, ports |-> Ports(c), cycles |-> TotalCycles(c.graph),
     apart |-> PassesInputOn(c.graph),
     profiles |-> IF PassesInputOn(c.graph) THEN {} ELSE Profiles(c.graph)]

Keep(kept, new) ==
    IF \/ \E i \in DOMAIN kept : kept[i].candidate = new.candidate /\ ~kept[i].apart
       \/ ~new.apart /\ \E i \in DOMAIN kept : Dearer(kept[i], new)
    THEN kept
    ELSE Append(SelectSeq(kept, LAMBDA old : new.apart \/ ~Dearer(new, old)), new)

Prune(candidates) ==
    LET kept == FoldLeft(LAMBDA acc, c : Keep(acc, Priced(c)), <<>>,
                         SelectSeq(candidates, LAMBDA c : ValidGraph(c.graph)))
    IN  [i \in DOMAIN kept |-> kept[i].candidate]

------------------------------------------------------------------------------
(* connect: an implementation on a live boundary.                          *)

\* The first operation that reads a parameter whose layout is not required.
FirstUse(v) ==
    IF InputKind(v) = "parameter" /\ Choice(v) = "any" /\ \E p \in DOMAIN high.ops : UsedBy(v, p)
    THEN Min({p \in DOMAIN high.ops : UsedBy(v, p)}) ELSE 0

\* The homes a parameter may be given at its first use: the layout the operand
\* wants, and the compact one where it can be retiled in the same order.
Homes(live, v, wanted) ==
    (IF /\ ~LayoutInfo[live[v]].subword
        /\ OrderOf(CompactLayout(v)) = OrderOf(wanted)
        /\ CompactLayout(v) # wanted
     THEN {wanted, CompactLayout(v)} ELSE {wanted}) \ {live[v]}

AddHomes(homes, live, v, wanted, p) ==
    IF FirstUse(v) # p THEN homes
    ELSE homes \cup {(v :> home) @@ l : home \in Homes(live, v, wanted), l \in homes}

AllHomes(live, implementation, p) ==
    FoldLeft(LAMBDA homes, i :
                AddHomes(homes, live, implementation.graph.values[i.id].origin,
                         implementation.graph.values[i.id].layout, p),
             {live}, implementation.graph.inputs)

WithImport(imports, copied) == <<copied[1], Append(imports, copied[2])>>

\* The copies that bring the live values into the layouts an implementation wants.
Import(connected, implementation) ==
    FoldLeft(LAMBDA acc, i : WithImport(acc[2], CopyTo(acc[1],
                connected.bindings[implementation.graph.values[i.id].origin],
                implementation.graph.values[i.id].layout, "whole")),
             <<connected.graph, <<>>>>, implementation.graph.inputs)

Rebound(bindings, fragment, outputs) ==
    FoldLeft(LAMBDA b, i : (fragment.values[fragment.outputs[i]].origin :> outputs[i]) @@ b,
             bindings, [i \in DOMAIN outputs |-> i])

Joined(connected, fragment, appended) ==
    [connected EXCEPT !.graph = [appended[1] EXCEPT !.outputs = appended[2]],
                      !.bindings = Rebound(@, fragment, appended[2])]

JoinTo(connected, imported, implementation) ==
    Joined(connected, implementation.graph,
           AppendFragment(imported[1], implementation.graph, imported[2]))

ConnectTo(connected, implementation) ==
    JoinTo(connected, Import(connected, implementation), implementation)

ConnectHome(home, implementation) ==
    ConnectTo(CandidateInputs(home, implementation.end), implementation)

Connect(p, live, implementation) ==
    {ConnectHome(home, implementation) : home \in AllHomes(live, implementation, p)}

------------------------------------------------------------------------------
(* The search. *)

\* Births and last uses of representations, in boundaries.
Birth(v) == IF \E p \in DOMAIN high.ops : high.ops[p].out = v
            THEN CHOOSE p \in DOMAIN high.ops : high.ops[p].out = v ELSE 0

ReadTo(v) == Max({0} \cup {p \in DOMAIN high.ops : UsedBy(v, p)} \cup {Birth(v)})

Death(v) ==
    IF \/ v \in ToSet(high.outputs)
       \/ InputKind(v) = "parameter" /\ ReadTo(v) = 0
    THEN Len(high.ops) + 1 ELSE ReadTo(v)

LiveAt(end) == {v \in DOMAIN high.choices : Birth(v) <= end /\ Death(v) > end}

InitialLayout(v) == IF Choice(v) # "any" THEN Choice(v) ELSE high.initial[v]

InitialLive == [v \in LiveAt(0) |-> InitialLayout(v)]

\* The fragment nothing was done in: what is resident from the start.
InitialFragment ==
    LET c == CandidateInputs(InitialLive, 0)
    IN  [c EXCEPT !.graph.outputs = [i \in DOMAIN c.graph.values |-> i]]

\* evaluate: export what is live behind the fragment, and price it.
ExportAll(c, order) == [c EXCEPT !.graph.outputs = [i \in DOMAIN order |-> c.bindings[order[i]]]]

Exporting(c) == ExportAll(c, InOrder(LiveAt(c.end)))

LiveBehind(c) == [v \in LiveAt(c.end) |-> c.graph.values[c.bindings[v]].layout]

EdgeOf(c, analysis) ==
    [candidate |-> c, live |-> LiveBehind(c), cycles |-> analysis.cycles, memory |-> analysis.memory]

Evaluate(c) == EdgeOf(c, AnalyzePlan(c.graph))

\* extend's frontier: the edges out of one state into one state.
KeepEdge(frontier, new) ==
    IF \E e \in frontier : /\ e.candidate.end = new.candidate.end /\ e.live = new.live
                           /\ e.cycles <= new.cycles /\ Dominates(e.memory, new.memory)
    THEN frontier
    ELSE {e \in frontier : ~(/\ e.candidate.end = new.candidate.end /\ e.live = new.live
                             /\ new.cycles <= e.cycles /\ Dominates(new.memory, e.memory))}
         \cup {new}

Connections(p, live) == UNION {Connect(p, live, c) : c \in ToSet(catalogue[p])}

Edges(p, live) ==
    FoldSet(LAMBDA c, frontier : KeepEdge(frontier, Evaluate(Exporting(c))), {}, Connections(p, live))

ReservedForever(local, old, v, p) ==
    IF v \notin DOMAIN old.params THEN local.params[v]
    ELSE IF v \notin DOMAIN local.params THEN old.params[v]
    ELSE [t \in TileSet |-> Include(local.params[v][t], old.params[v][t])]

\* What a history needs once one more edge is on it.  The reservation of a
\* parameter the edge decides on is replaced; any other only grows.
Reserved(local, old, v, p) ==
    IF v \notin DOMAIN old.params \/ FirstUse(v) = p THEN local.params[v]
    ELSE IF v \notin DOMAIN local.params THEN old.params[v]
    ELSE [t \in TileSet |-> Include(local.params[v][t], old.params[v][t])]

Combine(local, old, p) ==
    [moving |-> [t \in TileSet |-> Include(local.moving[t], old.moving[t])],
     movingTotal |-> Larger(local.movingTotal, old.movingTotal),
     params |-> [v \in DOMAIN local.params \cup {u \in DOMAIN old.params : FirstUse(u) # p} |->
                    Reserved(local, old, v, p)]]

Undecided(v, end) == FirstUse(v) > end

\* A layout nobody chose yet says nothing about any one tile; only the bytes of
\* its value count, spread over the device.
ResidentTotal(m, end) ==
    MapThenSumSet(LAMBDA v : IF Undecided(v, end) THEN VolumeBytes(v)
                             ELSE TotalOf([t \in TileSet |-> m.params[v][t].std + m.params[v][t].il]),
                  DOMAIN m.params)

LeastPeak(m, end) ==
    LET decided == MemoryPeak(m, {v \in DOMAIN m.params : ~Undecided(v, end)})
    IN  [decided EXCEPT !.total = Larger(@, CeilDiv(m.movingTotal + ResidentTotal(m, end), TileCount))]

Label(path, edge, memory) ==
    [cycles |-> path.cycles + edge.cycles, memory |-> memory,
     total |-> MemoryPeak(memory, DOMAIN memory.params).total,
     fragments |-> Append(path.fragments, edge.candidate)]

\* record: keep a label unless it cannot fit or another one dominates it.
KeepLabel(labels, new, end) ==
    IF \/ ~FitsMemory(LeastPeak(new.memory, end))
       \/ \E l \in labels : l.cycles <= new.cycles /\ Dominates(l.memory, new.memory)
    THEN labels
    ELSE {l \in labels : ~(new.cycles <= l.cycles /\ Dominates(new.memory, l.memory))} \cup {new}

LabelsAt(table, end, live) == IF live \in DOMAIN table[end] THEN table[end][live] ELSE {}

RecordEdge(table, state, edge, p) ==
    [table EXCEPT ![edge.candidate.end] =
        (edge.live :> FoldSet(LAMBDA path, labels :
                          KeepLabel(labels, Label(path, edge, Combine(edge.memory, path.memory, p)),
                                    edge.candidate.end),
                      LabelsAt(table, edge.candidate.end, edge.live), state.paths)) @@ @]

RecordState(table, state, edges, p) ==
    FoldSet(LAMBDA edge, t : RecordEdge(t, state, edge, p), table, edges)

\* (cycles, total): what states and labels are ranked by before they are cut.
LabelBefore(a, b) == a.cycles < b.cycles \/ (a.cycles = b.cycles /\ a.total < b.total)

Best(labels) == {l \in labels : \A m \in labels : ~LabelBefore(m, l)}

\* The first `limit` members in the order of their ranks; ties are arbitrary.
BestOf(S, limit, before(_, _)) ==
    IF limit = 0 \/ Cardinality(S) <= limit THEN {S}
    ELSE {C \in SUBSET S : /\ Cardinality(C) = limit
                           /\ \A c \in C, x \in S \ C : ~before(x, c)}

StateBefore(a, b) == LabelBefore(CHOOSE l \in Best(a.paths) : TRUE, CHOOSE l \in Best(b.paths) : TRUE)

StatesAt(table, end) ==
    {[live |-> l, paths |-> table[end][l]] : l \in {l \in DOMAIN table[end] : table[end][l] # {}}}

Trimmed(chosen) ==
    {[live |-> s.live, paths |-> CHOOSE c \in BestOf(s.paths, problem.paths, LabelBefore) : TRUE] : s \in chosen}

------------------------------------------------------------------------------
(* The plan: the fragments of a path, concatenated. *)

\* Parameters are resident from the start: the first fragment's values take
\* the representation that was selected later.
AdoptHome(values, bindings, c, i) ==
    IF i.kind # "parameter" THEN values
    ELSE [values EXCEPT ![bindings[c.graph.values[i.id].origin]] = c.graph.values[i.id]]

KeepFirstHomes(acc, c) == acc

AdoptHomes(acc, c) ==
    [acc EXCEPT !.graph.values = FoldLeft(LAMBDA values, i : AdoptHome(values, acc.bindings, c, i),
                                          acc.graph.values, c.graph.inputs)]

ImportsOf(acc, c) ==
    [i \in DOMAIN c.graph.inputs |-> acc.bindings[c.graph.values[c.graph.inputs[i].id].origin]]

\* Appending refuses a fragment whose inputs are not what the graph holds.
ConcatenateTo(acc, c, imports) ==
    [Joined(acc, c.graph, AppendFragment(acc.graph, c.graph, imports))
        EXCEPT !.sound = @ /\ Appendable(acc.graph, c.graph, imports)]

Concatenate(acc, c) == ConcatenateTo(acc, c, ImportsOf(acc, c))

Assembled(fragments) ==
    FoldLeft(LAMBDA acc, c : Concatenate(AdoptHomes(acc, c), c),
             [sound |-> TRUE] @@ InitialFragment, fragments)

WithHighOutputs(acc) ==
    [acc.graph EXCEPT !.outputs = [i \in DOMAIN high.outputs |-> acc.bindings[high.outputs[i]]]]

------------------------------------------------------------------------------

PlannerInit ==
    /\ problem \in Problems
    /\ planStage = "new"
    /\ position = 1
    /\ catalogue = <<>>
    /\ states = <<>>
    /\ taken = {}
    /\ plan = NoGraph

FirstLabel(analysis) == [cycles |-> 0, fragments |-> <<>>, memory |-> analysis.memory,
                         total |-> analysis.peak.total]

\* Search::new: one state at the first boundary, with what is resident there.
NewSearch ==
    /\ planStage = "new"
    /\ states' = [b \in Boundaries |-> IF b > 0 THEN <<>> ELSE
                    (InitialLive :> {FirstLabel(AnalyzePlan(InitialFragment.graph))})]
    /\ planStage' = "catalogue"
    /\ UNCHANGED <<problem, position, catalogue, taken, plan>>

\* catalogue(): the implementations of the next operation.
ListImplementations ==
    /\ planStage = "catalogue"
    /\ \E alternatives \in {Prune(Generate(position))} :
        /\ catalogue' = Append(catalogue, alternatives)
        /\ planStage' = IF alternatives = <<>> THEN "noplan"
                        ELSE IF position = Len(high.ops) THEN "search" ELSE planStage
    /\ position' = IF position = Len(high.ops) THEN 1 ELSE position + 1
    /\ UNCHANGED <<problem, states, taken, plan>>

\* take_states: the states of a boundary that are extended, cut to the limits.
TakeStates ==
    /\ planStage = "search"
    /\ taken = {}
    /\ position <= Len(high.ops)
    /\ \E chosen \in BestOf(StatesAt(states, position - 1), problem.states, StateBefore) :
        taken' = Trimmed(chosen)
    /\ states' = [states EXCEPT ![position - 1] = <<>>]
    /\ position' = IF StatesAt(states, position - 1) = {} THEN position + 1 ELSE position
    /\ UNCHANGED <<problem, planStage, catalogue, plan>>

\* extend: every implementation of the operation, on one of those states.
ExtendState ==
    /\ planStage = "search"
    /\ \E state \in taken :
        /\ \A other \in taken : ~StateBefore(other, state)
        /\ states' = RecordState(states, state, Edges(position, state.live), position)
        /\ taken' = taken \ {state}
    /\ position' = IF taken' = {} THEN position + 1 ELSE position
    /\ UNCHANGED <<problem, planStage, catalogue, plan>>

FinalLabels == UNION {s.paths : s \in StatesAt(states, Len(high.ops))}

\* finish: the cheapest label, concatenated and measured as one graph.
Finish ==
    /\ planStage = "search"
    /\ taken = {}
    /\ position = Len(high.ops) + 1
    /\ \/ /\ FinalLabels = {}
          /\ planStage' = "noplan"
          /\ UNCHANGED plan
       \/ \E acc \in {Assembled(best.fragments) : best \in Best(FinalLabels)} :
            /\ plan' = WithHighOutputs(acc)
            /\ planStage' = IF ~acc.sound \/ ~ValidGraph(plan') THEN "failed"
                            ELSE IF FitsMemory(AnalyzePlan(plan').peak) THEN "planned" ELSE "noplan"
    /\ UNCHANGED <<problem, position, catalogue, states, taken>>

PlannerNext == NewSearch \/ ListImplementations \/ TakeStates \/ ExtendState \/ Finish

PlannerSpec == PlannerInit /\ [][PlannerNext]_plannerVars

------------------------------------------------------------------------------
(* What a graph computes. *)

HighTerms ==
    FoldLeft(LAMBDA terms, op :
                (op.out :> <<op.kind, [i \in DOMAIN op.in |-> terms[op.in[i]]]>>) @@ terms,
             [v \in DOMAIN high.initial |-> <<"input", v>>], high.ops)

TermOf(terms, op) ==
    LET arg(i) == terms[op.in[i]]
    IN  CASE op.kind = "copy"     -> IF op.slice = "whole" THEN arg(1) ELSE <<op.slice, arg(1)>>
          [] op.kind = "gemm"     -> <<IF op.split THEN "partials" ELSE "gemm",
                                       IF op.swapped THEN <<arg(2), arg(1)>> ELSE <<arg(1), arg(2)>>>>
          [] op.kind = "sum"      -> IF arg(1)[1] = "first" /\ arg(2) = <<"rest", arg(1)[2]>>
                                     THEN <<"gemm", arg(1)[2][2]>> ELSE <<"sum", arg(1), arg(2)>>
          [] op.kind = "biasgelu" -> <<"gelu", <<<<"add", <<arg(1), arg(2)>>>>>>>>
          [] OTHER                -> <<op.kind, [i \in DOMAIN op.in |-> arg(i)]>>

Terms(g) ==
    FoldLeft(LAMBDA terms, op : (op.out :> TermOf(terms, op)) @@ terms,
             [id \in {g.inputs[i].id : i \in DOMAIN g.inputs} |-> <<"input", g.values[id].origin>>],
             g.ops)

\* A plan computes what the high graph says, in the layouts that were required
\* at its boundaries, and it fits the tiles: the conversions, the fused and the
\* split implementations, the swapped products and the fragments' concatenation
\* bind every value to the right one.
PlanComputesTheGraph ==
    /\ planStage # "failed"
    /\ planStage = "planned" =>
        /\ \A i \in DOMAIN high.outputs :
            /\ Terms(plan)[plan.outputs[i]] = HighTerms[high.outputs[i]]
            /\ Choice(high.outputs[i]) \in {"any", plan.values[plan.outputs[i]].layout}

\* Every way to chain every implementation, with nothing pruned.
ExtendAll(chains, p) ==
    UNION {IF c.at # p - 1 THEN {c}
           ELSE {[at |-> d.end, live |-> LiveBehind(d), fragments |-> Append(c.fragments, d)] :
                    d \in {Exporting(e) : e \in UNION {Connect(p, c.live, i) : i \in ToSet(Generate(p))}}} :
           c \in chains}

AllChains == FoldLeft(ExtendAll, {[at |-> 0, live |-> InitialLive, fragments |-> <<>>]},
                      [p \in DOMAIN high.ops |-> p])

FeasibleCycles ==
    {a.cycles : a \in {a \in {AnalyzePlan(WithHighOutputs(Assembled(c.fragments))) : c \in AllChains} :
                          FitsMemory(a.peak)}}

\* Without limits the search is exact: dropping dominated implementations,
\* connections and histories loses neither a feasible plan nor the cheapest one.
PlanIsTheCheapest ==
    (planStage \in {"planned", "noplan"} /\ problem.states = 0 /\ problem.paths = 0) =>
        IF planStage = "noplan" THEN FeasibleCycles = {}
        ELSE /\ TotalCycles(plan) \in FeasibleCycles
             /\ \A c \in FeasibleCycles : TotalCycles(plan) <= c
================================================================================
