------------------------------ MODULE Profiling ------------------------------
(***************************************************************************)
(* Cycle profiling of a program.  The packager projects the graph onto the *)
(* tiles (`lower_to_tiles`), numbers the moments at which a tile stores    *)
(* its cycle counter and writes down what each interval between two of     *)
(* them holds (`instrument_profile`); the supervisor code stores the       *)
(* counter as it runs, in the first iteration of a repeat only (`emit`);   *)
(* the host pairs the stored words with the descriptions                   *)
(* (`profile_report`).                                                     *)
(*                                                                         *)
(* An operation is [op, ..., body]: an Exchange has an `id`, a Compute a   *)
(* `tile` and a `run`, a Copy a `tile`, a `copy` and the `args` its call   *)
(* is finalized with, a Repeat a `count`, the set `tiles` it is bound on   *)
(* and a body.                                                             *)
(***************************************************************************)
EXTENDS Integers, FiniteSets, FiniteSetsExt, SequencesExt

CONSTANTS
    ProfiledGraphs,  \* the bodies of the graphs
    TilesWithWork,     \* tile_count: tiles 0 .. ActiveTiles - 1 have work
    InactiveTiles,   \* and as many more only keep the exchanges in step
    ExchangeOf,      \* id -> [activities: tile -> sequence, events]
    Paces,           \* cycles per unit of a call on each tile
    Skews,           \* cycles each tile enters the program late
    Invocations,     \* times a launch runs the program
    ClockWrap,       \* 2^32 in the code
    ClockStart

VARIABLES
    graph,
    pace,
    profStage,     \* "lower", "emit", "run", "collected", "reported" or "refused"
    profiles,      \* tile -> [steps, plans]
    code,          \* tile -> what its generated code does, in order
    starts,        \* tile -> the clock when each item done so far began
    clock,         \* tile -> cycles, before the counter wraps
    invocation,
    memory,        \* tile -> its sample words
    report         \* tile -> its samples

profVars == <<graph, pace, profStage, profiles, code, starts, clock, invocation, memory, report>>

None == -1
NoCopy == [symbol |-> "", bytes |-> 0]
Active == 0 .. TilesWithWork - 1
ProfTiles == 0 .. TilesWithWork + InactiveTiles - 1

Mapped(Op(_), seq) == FoldLeft(LAMBDA out, x : Append(out, Op(x)), <<>>, seq)

-------------------------------------------------------------------------------
(* Projection of the graph and finalized steps. *)

RunsOn(tile, o) ==
    \/ o.op = "Exchange"
    \/ o.op = "Repeat" /\ tile \in o.tiles
    \/ o.op \in {"Compute", "Copy"} /\ o.tile = tile

Project(tile, operations) == SelectSeq(operations, LAMBDA o : RunsOn(tile, o))

TileWork(tile, operations) ==
    Mapped(LAMBDA o : [o EXCEPT !.body = Project(tile, @)], Project(tile, operations))

\* A tile without work runs the exchanges and the loops of tile 0.
KeepsInStep(o) == o.op \in {"Exchange", "Repeat"}
InactiveWork(operations) ==
    Mapped(LAMBDA o : [o EXCEPT !.body = SelectSeq(@, KeepsInStep)],
           SelectSeq(TileWork(0, operations), KeepsInStep))

Finalized(work) == [work |-> work, before |-> None, after |-> None, body |-> <<>>]

-------------------------------------------------------------------------------
(* Useful and issued work of a kernel run, in eighths of an issue slot; a   *)
(* kernel without an estimate gives no pair.                                *)

StatisticsSlots(run) == IF run.width >= 96 /\ run.width % 8 = 0 THEN 7 ELSE 16
QuadAffine(run) == run.precision = "F16" /\ run.width % 4 = 0
AffineSlots(run) == IF QuadAffine(run) THEN 12 ELSE 16
ToFp8(run, slots) == IF run.precision = "F8" THEN slots ELSE 0

ElementSlots(run) ==
    CASE run.kernel = "Gelu" -> {24 + ToFp8(run, 4)}
      [] run.kernel = "BiasGelu" -> {22 + ToFp8(run, 4)}
      [] run.kernel = "LayerNormApply" -> {AffineSlots(run)}
      [] run.kernel = "AddLayerNorm" ->
            {StatisticsSlots(run) + (IF StatisticsSlots(run) = 7 THEN 4 ELSE 8)
             + AffineSlots(run) + (IF QuadAffine(run) THEN 2 ELSE 4)}
      [] run.kernel = "LayerNorm" -> {StatisticsSlots(run) + AffineSlots(run) + ToFp8(run, 4)}
      [] run.kernel = "Add" -> {s \in {2} : run.precision = "F16"} \cup {s \in {4} : run.precision = "F32"}
      [] run.kernel = "ReductionSum" ->
            LET adds == IF run.partials = 0 THEN 0 ELSE run.partials - 1
            IN  {s \in {2 * adds} : run.precision = "F16"} \cup {s \in {4 * adds} : run.precision = "F32"}
      [] run.kernel = "Rearrange" ->
            {2 * (CASE run.precision = "F8" -> 1 [] run.precision = "F16" -> 2 [] OTHER -> 4)}
      [] run.kernel = "Cast" ->
            LET ends == <<run.input, run.precision>>
            IN  {s \in {4} : ends \in {<<"F16", "F32">>, <<"F32", "F16">>}}
                \cup {s \in {1} : ends = <<"F16", "F8">>} \cup {s \in {2} : ends = <<"F8", "F16">>}
      [] OTHER -> {}

HalfUp(n) == (n + 1) \div 2

\* Softmax over full panels of 16 keys and a narrow tail, by rows.
SoftmaxWork(run) ==
    LET panel == IF run.precision = "F8" THEN 31 ELSE 29
        reductions == IF run.split THEN 15 ELSE 5
        whole == (panel * (run.keys \div 16)) + reductions
        tail == run.keys % 16
    IN  [useful |-> 8 * run.logical * (whole + 4 * tail),
         issued |-> 8 * run.physical * (whole + 8 * HalfUp(tail))]

PeakPerSlot(run) == CASE run.multiply = "F16" -> 128 [] run.multiply = "F32" -> 32 [] OTHER -> 256

WorkEstimate(run) ==
    CASE run.kernel = "Gemm" ->
            {[useful |-> (8 * f[1]) \div PeakPerSlot(run), issued |-> (8 * f[2]) \div PeakPerSlot(run)] :
                f \in run.flops}
      [] run.kernel \in {"LayerNormMoments", "AddLayerNormMoments"} ->
            LET slots == StatisticsSlots(run) + (IF run.kernel = "AddLayerNormMoments" THEN 2 ELSE 0)
            IN  {[useful |-> run.elements * slots, issued |-> run.elements * slots]}
      [] run.kernel = "FillPadding" -> {[useful |-> 0, issued |-> 0]}
      [] run.kernel = "AttentionSoftmax" -> {SoftmaxWork(run)}
      [] OTHER -> {[useful |-> run.logical * s, issued |-> run.physical * s] : s \in ElementSlots(run)}

\* The estimate of a group, when every call of it has one.
GroupEstimate(works) ==
    IF \A i \in DOMAIN works : works[i].op = "Compute" /\ WorkEstimate(works[i].run) # {}
    THEN {FoldLeft(LAMBDA sum, w :
                     LET one == CHOOSE e \in WorkEstimate(w.run) : TRUE
                     IN  [useful |-> sum.useful + one.useful, issued |-> sum.issued + one.issued],
                   [useful |-> 0, issued |-> 0], works)}
    ELSE {}

-------------------------------------------------------------------------------
(* What each interval between two samples holds. *)

ExchangePhase(id) == 1000 + id        \* 0x8000_0000 | id

\* phase, operation and reason of a profile step, the rest as it is by default
Description(phase, operation, reason, kind, kernel) ==
    [phase |-> phase, epoch |-> 0, operation |-> operation, reason |-> reason, kind |-> kind,
     kernel |-> kernel, invocations |-> None, uniform |-> FALSE, arguments |-> None,
     iterations |-> None, copy |-> NoCopy, activities |-> <<>>, events |-> 0, estimate |-> {}]

CanMerge(previous, current) ==
    CASE previous.op = "Compute" /\ current.op = "Compute" ->
            previous.run.kernel = current.run.kernel /\ previous.run.why = current.run.why
      [] previous.op = "Copy" /\ current.op = "Copy" -> previous.copy = current.copy
      [] OTHER -> FALSE

\* The call at i and those after it that one interval covers.
Merged(work, i) ==
    LET last == Max({k \in i .. Len(work) : \A j \in i + 1 .. k : CanMerge(work[i], work[j])})
    IN  SubSeq(work, i, last)

\* A kernel run and a local copy are both finalized as a call of a symbol.
ArgumentsOf(o) == IF o.op = "Compute" THEN o.run.args ELSE o.args
SymbolOf(o) == IF o.op = "Compute" THEN o.run.kernel ELSE o.copy.symbol
SameCall(a, b) == SymbolOf(a) = SymbolOf(b) /\ ArgumentsOf(a) = ArgumentsOf(b)
SameCalls(works) == \A i \in 2 .. Len(works) : SameCall(works[i - 1], works[i])

\* A copy is accounted to the operation whose kernel follows it.
Following(work, i) ==
    LET later == {k \in i + 1 .. Len(work) : work[k].op \in {"Compute", "Repeat"}}
    IN  IF later = {} THEN "" ELSE IF work[Min(later)].op = "Compute"
                                   THEN work[Min(later)].run.why ELSE work[Min(later)].why

DescribeExchange(tile, id) ==
    IF tile \notin DOMAIN ExchangeOf[id].activities
    THEN Description(ExchangePhase(id), "", "ExchangeBarrier", "Synchronization", "sync")
    ELSE [Description(ExchangePhase(id), "", "Exchange", "Exchange", "exchange") EXCEPT
            !.activities = ExchangeOf[id].activities[tile], !.events = ExchangeOf[id].events]

DescribeCall(work, i) ==
    IF work[i].op = "Compute"
    THEN Description(i, work[i].run.why, "OperatorKernel", "Compute", work[i].run.kernel)
    ELSE [Description(i, Following(work, i), "LocalCopy", "Compute", work[i].copy.symbol) EXCEPT
            !.copy = work[i].copy]

DescribeCalls(work, i, works) ==
    [DescribeCall(work, i) EXCEPT
        !.invocations = Len(works), !.uniform = SameCalls(works), !.arguments = ArgumentsOf(work[i])]

Describe(tile, work, i) ==
    CASE work[i].op = "Exchange" -> [DescribeExchange(tile, work[i].id) EXCEPT !.invocations = 1]
      [] work[i].op = "Repeat" ->
            [Description(i, work[i].why, "Repeat", "Idle", "repeat") EXCEPT
                !.iterations = work[i].count, !.invocations = 1]
      [] OTHER -> [DescribeCalls(work, i, Merged(work, i)) EXCEPT
                     !.estimate = GroupEstimate(Merged(work, i))]

DescribeInactive(work, i) ==
    IF work[i].op = "Exchange"
    THEN Description(ExchangePhase(work[i].id), "", "InactiveTile", "Idle", "idle")
    ELSE Description(i, work[i].why, "InactiveTile", "Idle", "idle")

\* The sample that ends the last step of a schedule.
SampleAtEnd(profile) ==
    IF profile.steps = <<>> THEN profile
    ELSE [profile EXCEPT !.steps = Append(Front(@), [Last(@) EXCEPT !.after = Len(profile.plans)])]

\* A step of its own, or one more call of the interval before it.
InstrumentStep(tile, work, profile, i) ==
    IF i > 1 /\ CanMerge(work[i - 1], work[i])
    THEN [profile EXCEPT !.steps = Append(@, Finalized(work[i]))]
    ELSE [steps |-> Append(profile.steps, [Finalized(work[i]) EXCEPT !.before = Len(profile.plans)]),
          plans |-> Append(profile.plans, Describe(tile, work, i))]

InstrumentBody(tile, work, plans) ==
    SampleAtEnd(FoldLeft(LAMBDA profile, i : InstrumentStep(tile, work, profile, i),
                         [steps |-> <<>>, plans |-> plans], [i \in DOMAIN work |-> i]))

NextEpoch(plans) == 1 + Max({0} \cup {plans[k].epoch : k \in DOMAIN plans})

Remainder(repeat, i) ==
    IF repeat.count = 1 THEN <<>>
    ELSE <<[Description(i, repeat.why, "Repeat", "Compute", "repeat-remainder") EXCEPT
              !.iterations = repeat.count - 1]>>

\* The body of a loop is sampled; its plans share an epoch of their own.
Loop(profile, repeat, i, body) ==
    [steps |-> Append(profile.steps, [Finalized(repeat) EXCEPT !.body = body.steps]),
     plans |-> FoldLeft(LAMBDA plans, plan : Append(plans, [plan EXCEPT !.epoch = NextEpoch(profile.plans)]),
                        profile.plans, SubSeq(body.plans, Len(profile.plans) + 1, Len(body.plans)))
               \o Remainder(repeat, i)]

InstrumentActive(tile, work) ==
    SampleAtEnd(FoldLeft(
        LAMBDA profile, i :
            IF work[i].op = "Repeat" /\ work[i].body # <<>>
            THEN Loop(profile, work[i], i, InstrumentBody(tile, work[i].body, profile.plans))
            ELSE InstrumentStep(tile, work, profile, i),
        [steps |-> <<>>, plans |-> <<>>], [i \in DOMAIN work |-> i]))

InstrumentInactive(work) ==
    SampleAtEnd([steps |-> Mapped(LAMBDA i : [Finalized(work[i]) EXCEPT
                                     !.before = i - 1, !.body = Mapped(Finalized, work[i].body)],
                                  [i \in DOMAIN work |-> i]),
                 plans |-> Mapped(LAMBDA i : DescribeInactive(work, i), [i \in DOMAIN work |-> i])])

InstrumentProfile(tile) ==
    IF tile \in Active THEN InstrumentActive(tile, TileWork(tile, graph))
    ELSE InstrumentInactive(InactiveWork(graph))

\* Intervals counted before the steps exist, for the size of the binding.
LeafCount(work) == Cardinality({i \in DOMAIN work : i = 1 \/ ~CanMerge(work[i - 1], work[i])})
ProfileStepCount(work) ==
    FoldLeft(LAMBDA count, i :
               count + (IF i > 1 /\ CanMerge(work[i - 1], work[i]) THEN 0
                        ELSE IF work[i].op # "Repeat" \/ work[i].body = <<>> THEN 1
                        ELSE LeafCount(work[i].body) + (IF work[i].count > 1 THEN 1 ELSE 0)),
             0, [i \in DOMAIN work |-> i])
SampleCount(tile) ==
    IF tile \in Active THEN ProfileStepCount(TileWork(tile, graph)) ELSE Len(InactiveWork(graph))

Instrument ==
    /\ profStage = "lower"
    /\ profiles' = [t \in ProfTiles |-> InstrumentProfile(t)]
    /\ profStage' = "emit"
    /\ UNCHANGED <<graph, pace, code, starts, clock, invocation, memory, report>>

-------------------------------------------------------------------------------
(* The generated code: samples and work in the order a tile does them. *)

EmitCycleSample(index, enabled) ==
    IF index = None \/ ~enabled THEN <<>> ELSE <<[item |-> "sample", index |-> index]>>

EmitWork(step, turn) == <<[item |-> "work", work |-> step.work, turn |-> turn]>>

EmitBodyAlways(steps, turn) ==
    FoldLeft(LAMBDA seq, s :
               ((seq \o EmitCycleSample(s.before, TRUE)) \o EmitWork(s, turn))
               \o EmitCycleSample(s.after, TRUE), <<>>, steps)
EmitBody(steps, turn) ==
    FoldLeft(LAMBDA seq, s :
               ((seq \o EmitCycleSample(s.before, turn = 1)) \o EmitWork(s, turn))
               \o EmitCycleSample(s.after, turn = 1), <<>>, steps)

\* The flag that enables the samples of a body is cleared by its first turn.
EmitRepeat(step) ==
    FoldLeft(LAMBDA seq, turn : seq \o EmitBody(step.body, turn), <<>>,
             [n \in 1 .. step.work.count |-> n])

EmitSteps(steps) ==
    FoldLeft(LAMBDA seq, s :
               ((seq \o EmitCycleSample(s.before, TRUE))
                \o (IF s.work.op = "Repeat" THEN EmitRepeat(s) ELSE EmitWork(s, 1)))
               \o EmitCycleSample(s.after, TRUE), <<>>, steps)

Emit ==
    /\ profStage = "emit"
    /\ code' = [t \in ProfTiles |-> EmitSteps(profiles[t].steps)]
    /\ profStage' = "run"
    /\ UNCHANGED <<graph, pace, profiles, starts, clock, invocation, memory, report>>

-------------------------------------------------------------------------------
(* The run.  A tile works alone up to an exchange, where it waits for all.  *)

Done(tile) == Len(starts[tile]) = Len(code[tile])
NextItem(tile) == code[tile][Len(starts[tile]) + 1]
AtExchange(tile) == ~Done(tile) /\ NextItem(tile).item = "work" /\ NextItem(tile).work.op = "Exchange"
CanProceed(tile) == ~Done(tile) /\ ~AtExchange(tile)

CallCycles(tile, o) ==
    pace[tile] * (IF o.op = "Compute" THEN o.run.args ELSE IF o.op = "Copy" THEN o.copy.bytes ELSE 0)

\* The tiles proceed in turn; only their clocks tell their order.
Scheduled(tile) == CanProceed(tile) /\ \A t \in 0 .. tile - 1 : ~CanProceed(t)

SampleCycle(tile) ==
    /\ profStage = "run" /\ Scheduled(tile) /\ NextItem(tile).item = "sample"
    /\ memory' = [memory EXCEPT ![tile] = (NextItem(tile).index :> clock[tile] % ClockWrap) @@ @]
    /\ starts' = [starts EXCEPT ![tile] = Append(@, clock[tile])]
    /\ UNCHANGED <<graph, pace, profStage, profiles, code, clock, invocation, report>>

Work(tile) ==
    /\ profStage = "run" /\ Scheduled(tile) /\ NextItem(tile).item = "work"
    /\ clock' = [clock EXCEPT ![tile] = @ + CallCycles(tile, NextItem(tile).work)]
    /\ starts' = [starts EXCEPT ![tile] = Append(@, clock[tile])]
    /\ UNCHANGED <<graph, pace, profStage, profiles, code, invocation, memory, report>>

Exchange ==
    /\ profStage = "run"
    /\ \E id \in DOMAIN ExchangeOf :
         /\ \A t \in ProfTiles : AtExchange(t) /\ NextItem(t).work.id = id
         /\ clock' = [t \in ProfTiles |->
                        Max({clock[u] : u \in ProfTiles}) + ExchangeOf[id].events + 1]
         /\ starts' = [t \in ProfTiles |-> Append(starts[t], clock[t])]
    /\ UNCHANGED <<graph, pace, profStage, profiles, code, invocation, memory, report>>

NextInvocation ==
    /\ profStage = "run" /\ \A t \in ProfTiles : Done(t)
    /\ IF invocation = Invocations
       THEN profStage' = "collected" /\ UNCHANGED <<starts, invocation>>
       ELSE /\ invocation' = invocation + 1
            /\ starts' = [t \in ProfTiles |-> <<>>]
            /\ UNCHANGED profStage
    /\ UNCHANGED <<graph, pace, profiles, code, clock, memory, report>>

-------------------------------------------------------------------------------
(* The report.  The binding lists a slice for each tile that has intervals; *)
(* the output file is their concatenation.                                  *)

Sliced == {t \in ProfTiles : SampleCount(t) # 0}
SliceSize(tile) == SampleCount(tile) + 1
SliceOffset(tile) == MapThenSumSet(SliceSize, {t \in Sliced : t < tile})

Output ==
    FoldLeft(LAMBDA seq, t :
               seq \o Mapped(LAMBDA k : IF k \in DOMAIN memory[t] THEN memory[t][k] ELSE 0,
                             [k \in 1 .. SliceSize(t) |-> k - 1]),
             <<>>, SelectSeq([t \in 1 .. Cardinality(ProfTiles) |-> t - 1], LAMBDA t : t \in Sliced))

Planned == {t \in ProfTiles : profiles[t].plans # <<>>}

SamplesOf(tile, output) ==
    Mapped(LAMBDA k : [step |-> profiles[tile].plans[k],
                       start |-> output[SliceOffset(tile) + k],
                       end |-> output[SliceOffset(tile) + k + 1]],
           [k \in DOMAIN profiles[tile].plans |-> k])

ProfileReport ==
    /\ profStage = "collected"
    /\ IF \E t \in Planned : t \notin Sliced \/ SliceSize(t) # Len(profiles[t].plans) + 1
       THEN profStage' = "refused" /\ UNCHANGED report
       ELSE /\ \E output \in {Output} : report' = [t \in Planned |-> SamplesOf(t, output)]
            /\ profStage' = "reported"
    /\ UNCHANGED <<graph, pace, profiles, code, starts, clock, invocation, memory>>

ProfInit ==
    /\ graph \in ProfiledGraphs /\ pace \in Paces
    /\ \E skew \in Skews : clock = [t \in ProfTiles |-> ClockStart + skew[t]]
    /\ profStage = "lower" /\ invocation = 1
    /\ profiles = <<>> /\ code = <<>> /\ report = <<>>
    /\ starts = [t \in ProfTiles |-> <<>>]
    /\ memory = [t \in ProfTiles |-> <<>>]

ProfNext ==
    \/ Instrument \/ Emit \/ Exchange \/ NextInvocation \/ ProfileReport
    \/ \E t \in ProfTiles : SampleCycle(t) \/ Work(t)

===============================================================================
