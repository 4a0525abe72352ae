---------------------------- MODULE PackageBuild ----------------------------
(***************************************************************************)
(* The build of a package and its way to the device.  A graph is built in  *)
(* two passes: sizing runs the real emitters on provisional addresses and  *)
(* reserves memory, the tensors are placed in what is left, and the final  *)
(* emission has to fit the reservations.  A package of explicit tile       *)
(* programs brings its addresses; code is chosen around them.  Either way  *)
(* the images are assembled, validated, written, read and loaded.          *)
(*                                                                         *)
(* A graph case is [kind, regions, symbols, profiling, budget, rowBytes,   *)
(* finalRows, tensors, shards, steps, exchanges, samples, invocations]; a  *)
(* tiles case [kind, regions, symbols, data, rows, steps, outputs].        *)
(* Addresses are the target's; sizes of code and packets are abstract.     *)
(***************************************************************************)
EXTENDS Application

CONSTANTS
    PackageCases,
    ExecutionTiles,      \* logical and physical tiles: 0 .. ExecutionTiles - 1
    PhysicalOf(_),       \* logical tile -> physical tile
    XreqOwner(_)         \* physical tile -> the tile that requests its transfers

VARIABLES
    pkgCase, pkgStage,
    pkgReason,       \* why the build was refused, "" otherwise
    pkgFree,         \* the memory map common to all tiles
    pkgSupport,      \* name -> allocation
    pkgSizes,        \* name -> the bytes a reservation was made for
    pkgPlaced,       \* tensor shards and samples (graph) or initial data (tiles), in order
    pkgUnused,       \* tile -> ranges that tensors left over
    pkgPrologue,     \* tile -> copies <<from, to>> the program starts with
    pkgPlans,        \* physical tile -> its host program and descriptors
    pkgPhases,       \* direction -> host phases, each a sequence of transfers
    pkgApp, pkgFile

pkgVars == <<pkgCase, pkgStage, pkgReason, pkgFree, pkgSupport, pkgSizes, pkgPlaced,
             pkgUnused, pkgPrologue, pkgPlans, pkgPhases, pkgApp, pkgFile>>

PkgTiles == 0 .. ExecutionTiles - 1
LogicalOf(p) == CHOOSE l \in PkgTiles : PhysicalOf(l) = p
Nowhere == <<0, 0, 0>>
Allocated(name) == IF name \in DOMAIN pkgSupport THEN pkgSupport[name] ELSE Nowhere
Payload(a) == <<a[1], a[2]>>
Reservation(a) == <<a[1], a[3]>>

Without(free, r) ==
    UNION {Nonempty({<<f[1], Smaller(f[2], r[1])>>, <<Larger(f[1], r[2]), f[2]>>}) : f \in free}

\* Mutant: only the bytes of code are kept from data.
ProtectedBytes(r) == <<Larger(r[1], ExecutableStart), r[2]>>

\* Code may share an element with code, never with data: what code leaves of
\* its elements is closed.
ProtectedElements(r) == <<Larger(ElementsOf(r)[1], ExecutableStart), ElementsOf(r)[2]>>
Protect(free, rs) ==
    FoldSet(LAMBDA r, rest : IF ProtectedElements(r)[1] < ProtectedElements(r)[2]
                             THEN Without(rest, ProtectedElements(r)) ELSE rest, free, rs)

FixedRuntime == {ExchangeWindow, <<StateBase, DataBase>>}
ExecutableBounds == <<ExecutableStart, ExecutableLimit>>
DataBounds == <<DataBase, LoadLimit>>

CodeRequest(bytes, endAlign, guard) ==
    [bytes |-> bytes, align |-> 8, bounds |-> ExecutableBounds,
     endAlign |-> endAlign, guard |-> guard]

-----------------------------------------------------------------------------
(* The host plan: bindings are cut to pages, the pages of a tile queue up,  *)
(* and a phase moves one page of every tile that still has one.             *)

HostPage == 4096


Pages(slice) == (slice.bytes + HostPage - 1) \div HostPage
PageOf(slice, base, k) ==
    [tile |-> slice.tile, at |-> slice.at + (k - 1) * HostPage,
     file |-> base + slice.file + (k - 1) * HostPage,
     bytes |-> Smaller(HostPage, slice.bytes - (k - 1) * HostPage)]
AppendSlice(pending, slice, base) ==
    pending \o [k \in 1 .. Pages(slice) |-> PageOf(slice, base, k)]
Collected(bindings) ==
    FoldLeft(LAMBDA pending, i :
                 FoldLeft(LAMBDA seq, s : AppendSlice(seq, s, ConcatenatedBefore(bindings, i)),
                          pending, bindings[i].slices),
             <<>>, [i \in DOMAIN bindings |-> i])

InOrder(tiles) == SelectSeq([i \in 1 .. ExecutionTiles |-> i - 1], LAMBDA t : t \in tiles)
TilesOf(pending) == {pending[i].tile : i \in DOMAIN pending}
QueueOf(pending, t) == SelectSeq(pending, LAMBDA x : x.tile = t)
Rounds(pending) ==
    FoldSet(LAMBDA t, n : Larger(n, Len(QueueOf(pending, t))), 0, TilesOf(pending))
RoundOf(pending, k) ==
    FoldLeft(LAMBDA seq, t : IF Len(QueueOf(pending, t)) >= k
                             THEN Append(seq, QueueOf(pending, t)[k]) ELSE seq,
             <<>>, InOrder(TilesOf(pending)))
PageSlot(used, t) == Cardinality({u \in used : u < t})

WithOffsets(transfers, used) ==
    FoldLeft(LAMBDA seq, x : Append(seq, x @@ [offset |-> HostPage * PageSlot(used, x.tile)]),
             <<>>, transfers)
Batched(pending, used) ==
    FoldLeft(LAMBDA seq, k : Append(seq, WithOffsets(RoundOf(pending, k), used)),
             <<>>, [k \in 1 .. Rounds(pending) |-> k])

SlicesOf(phases) ==
    FoldLeft(LAMBDA seq, phase : seq \o [i \in DOMAIN phase |->
                 [page |-> 1, offset |-> phase[i].offset, file |-> phase[i].file,
                  bytes |-> phase[i].bytes]],
             <<>>, phases)
EndsOf(phases) ==
    FoldLeft(LAMBDA ends, phase :
                 Append(ends, (IF ends = <<>> THEN 0 ELSE Last(ends)) + Len(phase)),
             <<>>, phases)

\* The program of a tile: a follower for the phases it has no part in, a call
\* with a packet and a descriptor for the others.
HostFollower == 12
HostTable == 12
HostCallBytes(targeted, requests) == IF targeted /\ requests THEN 84 ELSE IF targeted THEN 60 ELSE 44
HostPacketBytes(targeted, requests) == (IF targeted THEN 12 ELSE 0) + (IF requests THEN 8 ELSE 0)

TransfersOf(phase, p) == SelectSeq(phase, LAMBDA x : x.tile = p)
RequestsOf(phase, p) == SelectSeq(phase, LAMBDA x : XreqOwner(x.tile) = p)
\* Packets are shared when their words agree; an input's words do not name its
\* address, since it is received in the staging area and copied.
PacketOf(direction, phase, p) ==
    <<direction, [i \in DOMAIN RequestsOf(phase, p) |-> RequestsOf(phase, p)[i].tile],
      [i \in DOMAIN TransfersOf(phase, p) |->
          <<IF direction = "out" THEN TransfersOf(phase, p)[i].at ELSE 0,
            TransfersOf(phase, p)[i].offset, TransfersOf(phase, p)[i].bytes>>]>>

\* Best fit among the ranges left for descriptors.
ArenaEnd(r, bytes) == RoundUp(r[1], 4) + bytes
ArenaFits(ranges, bytes) == {r \in ranges : ArenaEnd(r, bytes) <= r[2]}
ArenaBest(ranges, bytes) ==
    CHOOSE r \in ArenaFits(ranges, bytes) : \A s \in ArenaFits(ranges, bytes) :
        \/ r[2] - ArenaEnd(r, bytes) < s[2] - ArenaEnd(s, bytes)
        \/ r[2] - ArenaEnd(r, bytes) = s[2] - ArenaEnd(s, bytes) /\ r[1] <= s[1]
ArenaWithout(ranges, r, bytes) ==
    (ranges \ {r}) \cup Nonempty({<<r[1], RoundUp(r[1], 4)>>, <<ArenaEnd(r, bytes), r[2]>>})

Segment(range, exec, holds) ==
    [range |-> range, size |-> Bytes(range), exec |-> exec, holds |-> holds]

\* One allocation of a descriptor: the plan fails when nothing fits.
StoredIn(plan, r, bytes, holds) ==
    [plan EXCEPT !.ranges = ArenaWithout(plan.ranges, r, bytes),
                 !.segments = Append(plan.segments,
                     Segment(<<RoundUp(r[1], 4), ArenaEnd(r, bytes)>>, FALSE, holds))]
Stored(plan, bytes, holds) ==
    IF ArenaFits(plan.ranges, bytes) = {} THEN [plan EXCEPT !.ok = FALSE]
    ELSE StoredIn(plan, ArenaBest(plan.ranges, bytes), bytes, holds)

WithPacket(plan, key, bytes) ==
    IF key \in plan.packets THEN plan
    ELSE [Stored(plan, bytes, <<"packet", key>>) EXCEPT !.packets = plan.packets \cup {key}]
WithCode(plan, start, bytes, p) ==
    [plan EXCEPT !.end = start + bytes,
                 !.segments = Append(plan.segments,
                     Segment(<<start, start + bytes>>, TRUE, <<"host", p>>))]
CountedBytes(plan, bytes) == [plan EXCEPT !.bytes = plan.bytes + bytes, !.calls = plan.calls + 1]

PlannedCall(plan, direction, phase, p, targeted, requests) ==
    IF ~targeted /\ ~requests THEN plan
    ELSE CountedBytes(
             Stored(WithPacket(WithCode(plan, RoundUp(plan.end, 8),
                                        HostCallBytes(targeted, requests), p),
                               PacketOf(direction, phase, p), HostPacketBytes(targeted, requests)),
                    HostTable, <<"table", p>>),
             HostPacketBytes(targeted, requests) + HostTable)

PlanTile(p, phases, base, ranges) ==
    FoldLeft(LAMBDA plan, ph : PlannedCall(plan, ph.direction, ph.transfers, p,
                                           TransfersOf(ph.transfers, p) # <<>>,
                                           RequestsOf(ph.transfers, p) # <<>>),
             [end |-> RoundUp(base, 8) + HostFollower, ranges |-> ranges, packets |-> {},
              bytes |-> 0, calls |-> 0, ok |-> TRUE,
              segments |-> <<Segment(<<RoundUp(base, 8), RoundUp(base, 8) + HostFollower>>,
                                     TRUE, <<"host", p>>)>>],
             phases)

Tagged(direction, phases) ==
    [k \in DOMAIN phases |-> [direction |-> direction, transfers |-> phases[k]]]
NothingPlanned(base, ranges) ==
    [end |-> base, ranges |-> ranges, packets |-> {}, bytes |-> 0, calls |-> 0, ok |-> TRUE,
     segments |-> <<>>]

\* The plans of all tiles, over the phases of weights, inputs and outputs.
PlansOver(phases, base, rangesOf) ==
    [p \in PkgTiles |-> IF phases = <<>> THEN NothingPlanned(base, rangesOf[p])
                        ELSE PlanTile(p, phases, base, rangesOf[p])]
InDirection(phases) ==
    Tagged("in", phases.weights) \o Tagged("in", phases.inputs) \o Tagged("out", phases.outputs)
UsedTiles(w, i, o) == TilesOf(w) \cup TilesOf(i) \cup TilesOf(o)
BatchedAll(w, i, o, used) ==
    [weights |-> Batched(w, used), inputs |-> Batched(i, used), outputs |-> Batched(o, used)]
HostPhases(weights, inputs, outputs) ==
    BatchedAll(Collected(weights), Collected(inputs), Collected(outputs),
               UsedTiles(Collected(weights), Collected(inputs), Collected(outputs)))

PlansEnd(plans) == FoldSet(LAMBDA p, n : Larger(n, plans[p].end), 0, PkgTiles)
PlansBytes(plans) == FoldSet(LAMBDA p, n : Larger(n, plans[p].bytes), 0, PkgTiles)
PlansOK(plans) == \A p \in PkgTiles : plans[p].ok

CallOf(name, in, out, phases, invocations) ==
    [name |-> name, phases |-> phases, invocations |-> invocations,
     inputs |-> SlicesOf(in), inputEnds |-> EndsOf(in),
     outputs |-> SlicesOf(out), outputEnds |-> EndsOf(out)]
RunPhases(in, out) == IF Len(in) + Len(out) = 0 THEN 0 ELSE 2 * (Len(in) + Len(out)) - 1
CallsOf(phases, invocations) ==
    (IF phases.weights = <<>> THEN <<>>
     ELSE <<CallOf("initialize", phases.weights, <<>>, 2 * Len(phases.weights), 1)>>)
    \o <<CallOf("run", phases.inputs, phases.outputs,
                RunPhases(phases.inputs, phases.outputs), invocations)>>
MovedTiles(phases) ==
    {x.tile : x \in UNION {Range(ph.transfers) : ph \in Range(InDirection(phases))}}
PagesOf(phases) == <<HostPage, HostPage * Larger(1, Cardinality(MovedTiles(phases)))>>

-----------------------------------------------------------------------------
(* Bindings of a graph. *)

\* The shards of all tensors, those of a tensor in the order of its value.
Shards == pkgCase.shards     \* [tensor, tile, bytes]
SampleBytes(l) == 4 * (pkgCase.samples[l] + 1)
SampleShards ==
    IF pkgCase.profiling
    THEN [i \in 1 .. ExecutionTiles |-> [tensor |-> 0, tile |-> i - 1, bytes |-> SampleBytes(i - 1)]]
    ELSE <<>>
ActiveTiles == {s.tile : s \in Range(Shards)}

\* Slices of the shards given by `which`, one after the other in the file.
SlicesAt(shards, addresses, Which(_)) ==
    FoldLeft(LAMBDA seq, i :
                 Append(seq, [tile |-> PhysicalOf(shards[i].tile), at |-> addresses[i],
                              file |-> IF seq = <<>> THEN 0 ELSE Last(seq).file + Last(seq).bytes,
                              bytes |-> shards[i].bytes]),
             <<>>, SelectSeq([i \in DOMAIN shards |-> i], Which))
Bound(kind, addresses) ==
    FoldLeft(LAMBDA seq, t :
                 Append(seq, [name |-> pkgCase.tensors[t].name,
                              slices |-> SlicesAt(Shards, addresses,
                                                  LAMBDA i : Shards[i].tensor = t)]),
             <<>>, SelectSeq([t \in DOMAIN pkgCase.tensors |-> t],
                             LAMBDA t : pkgCase.tensors[t].kind = kind))
CycleBinding(name, address) ==
    [name |-> name,
     slices |-> FoldLeft(LAMBDA seq, l : Append(seq, [tile |-> PhysicalOf(l), at |-> address,
                                                      file |-> 4 * Len(seq), bytes |-> 4]),
                         <<>>, InOrder(ActiveTiles))]
\* Samples follow one another in the order of the physical tiles.
ProfileBinding(sampleAt) ==
    [name |-> "profile.cycles",
     slices |-> FoldLeft(LAMBDA seq, p :
         IF pkgCase.samples[LogicalOf(p)] = 0 THEN seq
         ELSE Append(seq, [tile |-> p, at |-> sampleAt[LogicalOf(p)],
                           file |-> IF seq = <<>> THEN 0 ELSE Last(seq).file + Last(seq).bytes,
                           bytes |-> SampleBytes(LogicalOf(p))]),
         <<>>, InOrder(PkgTiles))]
GraphOutputs(addresses, sampleAt) ==
    Bound("output", addresses)
    \o IF pkgCase.profiling
       THEN <<CycleBinding("profile.start-cycle", StateBase + 4), ProfileBinding(sampleAt),
              CycleBinding("profile.end-cycle", StateBase + 8)>>
       ELSE <<>>

GraphPhases(addresses, sampleAt) ==
    HostPhases(Bound("weight", addresses), Bound("input", addresses),
               GraphOutputs(addresses, sampleAt))

-----------------------------------------------------------------------------
(* Sizing.  *)

Refused(reason) == pkgStage' = "refused" /\ pkgReason' = reason
Reaches(stage) == pkgStage' = stage /\ UNCHANGED pkgReason
Holding(name, a) == pkgSupport' = (name :> a) @@ pkgSupport
RestUnchanged == UNCHANGED <<pkgCase, pkgPlaced, pkgUnused, pkgPrologue, pkgPlans, pkgPhases, pkgApp, pkgFile>>

Linked == pkgCase.regions

LinkGraph ==
    /\ pkgStage = "link" /\ pkgCase.kind = "graph"
    /\ pkgFree' = ReserveAll(WholeMemory, Linked \cup FixedRuntime)
    /\ IF pkgCase.rowBytes <= pkgCase.budget THEN Reaches("host") ELSE Refused("row budget")
    /\ RestUnchanged /\ UNCHANGED <<pkgSupport, pkgSizes>>

\* Sizing uses provisional addresses and all of the data memory for
\* descriptors, since the size of a call depends on neither.
ProvisionalPhases ==
    GraphPhases([i \in DOMAIN Shards |-> ExecutableLimit], [l \in PkgTiles |-> ExecutableLimit])
ProvisionalPlans(phases, base) ==
    PlansOver(InDirection(phases), base, [p \in PkgTiles |-> {DataBounds}])

\* The code must not be there when no phase needs it.
TakeCode(name, bytes, endAlign, guard, stage) ==
    IF bytes = 0 THEN Reaches(stage) /\ UNCHANGED <<pkgFree, pkgSupport, pkgSizes>>
    ELSE IF ~CanAllocate(pkgFree, CodeRequest(bytes, endAlign, guard))
    THEN Refused("no room for " \o name) /\ UNCHANGED <<pkgFree, pkgSupport, pkgSizes>>
    ELSE \E a \in {Allocation(pkgFree, CodeRequest(bytes, endAlign, guard))} :
            /\ pkgFree' = Take(pkgFree, a)
            /\ Holding(name, a)
            /\ pkgSizes' = (name :> bytes) @@ pkgSizes
            /\ Reaches(stage)

SizingBase(align) == NextFree(pkgFree, ExecutableBounds, align)
CodeIsFull == FreeWithin(pkgFree, ExecutableBounds) = {}

SizeHost ==
    /\ pkgStage = "host" /\ pkgCase.kind = "graph"
    /\ RestUnchanged
    /\ IF CodeIsFull
       THEN Refused("no room for host") /\ UNCHANGED <<pkgFree, pkgSupport, pkgSizes>>
       ELSE \E plans \in {ProvisionalPlans(ProvisionalPhases, SizingBase(4))} :
                TakeCode("host", PlansEnd(plans) - SizingBase(4), 8, FetchLookahead, "code")

HostBase == Allocated("host")[1]

\* The emitted program of a tile: its steps, a call for every host phase and a
\* setup call for each exchange whose row it shares.
SetupBytes == 24
PhaseBytes == 16
EmittedBytes(l, setups, phases) == pkgCase.steps[l] + SetupBytes * setups + PhaseBytes * phases
Largest(count(_)) == FoldSet(LAMBDA l, n : Larger(n, count(l)), 0, PkgTiles)


SetupsReserved(l) == pkgCase.exchanges[l]

SizeCode ==
    /\ pkgStage = "code" /\ pkgCase.kind = "graph"
    /\ RestUnchanged
    /\ \E phases \in {Len(InDirection(ProvisionalPhases))} :
        TakeCode("code", Largest(LAMBDA l : EmittedBytes(l, SetupsReserved(l), phases)), 8, 0,
                 "protect")

CodeReservations == {Reservation(pkgSupport[n]) : n \in {"host", "code"} \cap DOMAIN pkgSupport}

RowRequest(bytes) ==
    [bytes |-> bytes, align |-> ElementBytes, bounds |-> <<DataBase, ExecutableLimit>>,
     endAlign |-> ElementBytes, guard |-> FetchLookahead]
DescriptorRequest(bytes) ==
    [bytes |-> bytes, align |-> 4, bounds |-> DataBounds, endAlign |-> 4, guard |-> 0]

\* A reservation that may not be needed.
TakeIfAny(free, name, q, stage) ==
    IF q.bytes = 0
    THEN pkgFree' = free /\ Reaches(stage) /\ UNCHANGED <<pkgSupport, pkgSizes>>
    ELSE IF ~CanAllocate(free, q)
    THEN pkgFree' = free /\ Refused("no room for " \o name) /\ UNCHANGED <<pkgSupport, pkgSizes>>
    ELSE \E a \in {Allocation(free, q)} :
            /\ pkgFree' = Take(free, a)
            /\ Holding(name, a)
            /\ pkgSizes' = (name :> q.bytes) @@ pkgSizes
            /\ Reaches(stage)

\* Rows are executed and are the operands of exchanges: whole elements.
ReserveRows ==
    /\ pkgStage = "protect"
    /\ RestUnchanged
    /\ \E free \in {Protect(pkgFree, Linked \cup CodeReservations)} :
        TakeIfAny(free, "rows", RowRequest(pkgCase.rowBytes), "descriptors")

DescriptorBytes == PlansBytes(ProvisionalPlans(ProvisionalPhases, HostBase))

ReserveDescriptors ==
    /\ pkgStage = "descriptors"
    /\ RestUnchanged
    /\ TakeIfAny(pkgFree, "descriptors", DescriptorRequest(DescriptorBytes), "tensors")

\* What tensors and samples may use: the exchange window too, which the host
\* needs only between runs.
Available == FreeWithin(pkgFree, DataBounds) \cup {ExchangeWindow}

-----------------------------------------------------------------------------
(* Placement, as Placement.tla models it: here anywhere in the available    *)
(* ranges, some first shards at the low end of the lowest, the others at    *)
(* the high end of the highest.                                            *)

TensorRequest(bytes) ==
    [bytes |-> bytes, align |-> 4, bounds |-> <<MemoryBase, LoadLimit>>, endAlign |-> 4, guard |-> 0]
Highest(rs) == CHOOSE r \in rs : \A s \in rs : s[2] <= r[2]
HighEnd(free, bytes) == RoundDown(Highest(Accommodating(free, TensorRequest(bytes)))[2] - bytes, 4)
LowEnd(free, bytes) == Allocation(free, TensorRequest(bytes))[1]

\* Placement of the shards in order: where they are and what is left.
PlacedAt(state, tile, start, bytes) ==
    [state EXCEPT !.at = Append(state.at, start),
                  !.free[tile] = Reserve(state.free[tile], <<start, RoundUp(start + bytes, 4)>>)]
\* What the host reads or writes stays out of the window.
Temporary(shard) == shard.tensor > 0 /\ pkgCase.tensors[shard.tensor].kind = "temporary"
DomainOf(free, shard) == IF Temporary(shard) THEN free ELSE FreeWithin(free, DataBounds)
PlacedIn(state, domain, shard, low) ==
    IF ~state.ok \/ Accommodating(domain, TensorRequest(shard.bytes)) = {}
    THEN [state EXCEPT !.ok = FALSE]
    ELSE PlacedAt(state, shard.tile,
                  IF low THEN LowEnd(domain, shard.bytes) ELSE HighEnd(domain, shard.bytes),
                  shard.bytes)
PlacedNext(state, shard, low) ==
    PlacedIn(state, DomainOf(state.free[shard.tile], shard), shard, low)
PlacedAll(shards, low) ==
    FoldLeft(LAMBDA state, i : PlacedNext(state, shards[i], i \in low),
             [ok |-> TRUE, at |-> <<>>, free |-> [l \in PkgTiles |-> Available]],
             [i \in DOMAIN shards |-> i])

PlaceTensors ==
    /\ pkgStage = "tensors"
    /\ \E low \in {1 .. k : k \in 0 .. Len(Shards \o SampleShards)} :
       \E placed \in {PlacedAll(Shards \o SampleShards, low)} :
        /\ pkgPlaced' = placed.at
        /\ pkgUnused' = placed.free
        /\ IF placed.ok THEN Reaches("emit") ELSE Refused("no room for tensors")
    /\ UNCHANGED <<pkgCase, pkgFree, pkgSupport, pkgSizes, pkgPrologue, pkgPlans, pkgPhases, pkgApp, pkgFile>>

-----------------------------------------------------------------------------
(* Images and the application. *)

EntrySegment == Segment(<<LoadBase, SupportStart>>, TRUE, <<"entry">>)
StateSegment ==
    [range |-> <<StateBase, DataBase>>, size |-> 4, exec |-> FALSE, holds |-> <<"state">>]
InAddressOrder(rs) ==
    FoldSet(LAMBDA r, seq : SelectSeq(seq, LAMBDA s : s[1] < r[1]) \o <<r>>
                            \o SelectSeq(seq, LAMBDA s : s[1] > r[1]), <<>>, rs)
AsSegments(rs, exec, holds) ==
    FoldLeft(LAMBDA seq, r : Append(seq, Segment(r, exec, holds)), <<>>, InAddressOrder(rs))

\* An image is built for a physical tile from what was emitted for its logical
\* one: entry, linked code, rows, data and host program, code, runtime state.
BuiltTile(p, l, rows, between, code) ==
    [tile |-> p,
     segments |-> <<EntrySegment>> \o AsSegments(Linked, TRUE, <<"linked">>)
                  \o AsSegments(rows, TRUE, <<"rows", l>>) \o between
                  \o <<Segment(code, TRUE, <<"code", l>>), StateSegment>>]

ExecutableSegments(segments) == SelectSeq(segments, LAMBDA s : s.exec)
Regions(tile, segments, name) ==
    FoldLeft(LAMBDA seq, s : IF Bytes(s.range) = 0 THEN seq
                             ELSE Append(seq, [tile |-> tile, range |-> s.range, name |-> name]),
             <<>>, segments)
HostRegions(plans) ==
    FoldLeft(LAMBDA seq, p : seq \o Regions(p, ExecutableSegments(plans[p].segments), "host program"),
             <<>>, InOrder(PkgTiles))
EmittedRegions(p, code, rows) ==
    Regions(p, <<Segment(code, TRUE, <<>>)>>, "tile program")
    \o Regions(p, AsSegments(rows, TRUE, <<>>), "exchange row")
LinkedRegions == Regions(AllTiles, AsSegments(Linked, TRUE, <<>>), "linked")

Completion ==
    [name |-> "completion", slices |-> <<[tile |-> 0, at |-> StateBase, file |-> 0, bytes |-> 4]>>]
Concatenated(parts(_)) == FoldLeft(LAMBDA seq, p : seq \o parts(p), <<>>, InOrder(PkgTiles))

\* Tiles in order, the completion word after the outputs given, the debug map of
\* linked and host code.
Assembled(tiles, outputs, phases, plans, invocations) ==
    [EmptyApplication EXCEPT
        !.tiles = tiles, !.outputs = Append(outputs, Completion),
        !.pages = IF InDirection(phases) = <<>> THEN <<>> ELSE PagesOf(phases),
        !.calls = IF InDirection(phases) = <<>> THEN <<>> ELSE CallsOf(phases, invocations),
        !.symbols = pkgCase.symbols,
        !.regions = LinkedRegions \o HostRegions(plans)]

Validated(app) == IF Valid(app) THEN Reaches("built") ELSE Refused("validation")

\* Ranges the final descriptors may use: what the tensors of the tile left, for
\* an idle tile what was available but not the window, and the reservation.
LeftFor(l) ==
    FreeWithin(IF pkgCase.profiling \/ l \in ActiveTiles THEN pkgUnused[l] ELSE pkgFree, DataBounds)
FinalRanges ==
    [p \in PkgTiles |-> LeftFor(LogicalOf(p))
        \cup IF Allocated("descriptors") = Nowhere THEN {} ELSE {Payload(Allocated("descriptors"))}]

SampleAt ==
    [l \in PkgTiles |-> IF pkgCase.profiling THEN pkgPlaced[Len(Shards) + l + 1] ELSE 0]
FinalHostBase ==
    IF Allocated("host") = Nowhere THEN NextFree(ReserveAll(WholeMemory, Linked \cup FixedRuntime),
                                                 ExecutableBounds, 4)
    ELSE HostBase

RowsEnd(bytes) == Allocated("rows")[1] + bytes
RowsCapacityEnd == Allocated("rows")[3] - FetchLookahead
RowsOf(l, bytes) ==
    IF bytes = 0 \/ l \notin ActiveTiles THEN {} ELSE {<<Allocated("rows")[1], RowsEnd(bytes)>>}

CodeOf(l, setups, phases) ==
    <<Allocated("code")[1],
      Allocated("code")[1] + EmittedBytes(l, setups * pkgCase.exchanges[l], phases)>>
ProfileTiles ==
    IF ~pkgCase.profiling THEN <<>>
    ELSE FoldLeft(LAMBDA seq, p : IF pkgCase.samples[LogicalOf(p)] = 0 THEN seq
                                  ELSE Append(seq, [tile |-> p, steps |-> pkgCase.samples[LogicalOf(p)]]),
                  <<>>, InOrder(PkgTiles))

GraphApplication(phases, plans, rows, code(_)) ==
    [Assembled([i \in 1 .. ExecutionTiles |->
                   BuiltTile(i - 1, LogicalOf(i - 1), RowsOf(LogicalOf(i - 1), rows),
                             plans[i - 1].segments, code(LogicalOf(i - 1)))],
               GraphOutputs(pkgPlaced, SampleAt), phases, plans, pkgCase.invocations)
     EXCEPT !.inputs = Bound("input", pkgPlaced), !.weights = Bound("weight", pkgPlaced),
            !.profile = ProfileTiles,
            !.regions = @ \o Concatenated(LAMBDA p : EmittedRegions(p, code(LogicalOf(p)),
                                                                    RowsOf(LogicalOf(p), rows)))]

\* The final emission has to fit what the provisional one reserved.
EmitGraph ==
    /\ pkgStage = "emit" /\ pkgCase.kind = "graph"
    /\ \E phases \in {GraphPhases(pkgPlaced, SampleAt)}, rows \in pkgCase.finalRows,
          setups \in {0, 1} :
       \E plans \in {PlansOver(InDirection(phases), FinalHostBase, FinalRanges)} :
        /\ pkgPhases' = phases /\ pkgPlans' = plans
        /\ IF ~PlansOK(plans) THEN Refused("descriptors") /\ UNCHANGED pkgApp
           ELSE IF "host" \in DOMAIN pkgSizes /\ PlansEnd(plans) - HostBase > pkgSizes["host"]
           THEN Refused("host grew") /\ UNCHANGED pkgApp
           ELSE IF "rows" \in DOMAIN pkgSizes /\ rows > pkgCase.budget
           THEN Refused("row budget") /\ UNCHANGED pkgApp
           ELSE IF "rows" \in DOMAIN pkgSizes /\ RowsEnd(rows) > RowsCapacityEnd
           THEN Refused("row capacity") /\ UNCHANGED pkgApp
           ELSE IF Largest(LAMBDA l : Bytes(CodeOf(l, setups, Len(InDirection(phases)))))
                       > pkgSizes["code"]
           THEN Refused("code grew") /\ UNCHANGED pkgApp
           ELSE /\ pkgApp' = GraphApplication(phases, plans, rows,
                                 LAMBDA l : CodeOf(l, setups, Len(InDirection(phases))))
                /\ Validated(pkgApp')
    /\ UNCHANGED <<pkgCase, pkgFree, pkgSupport, pkgSizes, pkgPlaced, pkgUnused, pkgPrologue, pkgFile>>

-----------------------------------------------------------------------------
(* Packages of tile programs. *)

\* What a datum gives the loader, and what of it lies in the exchange window,
\* which the host's handshake overwrites.
Cut(d, part) == [range |-> <<Larger(d.range[1], part[1]), Smaller(d.range[2], part[2])>>,
                 token |-> d.token]
LoaderParts(d) ==
    SelectSeq(<<Cut(d, <<0, ExchangeWindow[1]>>), Cut(d, <<ExchangeWindow[2], MemoryLimit + ElementBytes>>)>>,
              LAMBDA c : c.range[1] < c.range[2])
Datum(tile, range, pieces, shift) ==
    [tile |-> tile, range |-> range, pieces |-> pieces, shift |-> shift]
LoaderData ==
    FoldLeft(LAMBDA seq, d : seq \o FoldLeft(LAMBDA parts, c :
                                 Append(parts, Datum(d.tile, c.range, <<c>>, 0)), <<>>, LoaderParts(d)),
             <<>>, pkgCase.data)
\* Mutant: an earlier datum overwrites a later one.
PiecesInReverse(l) ==
    FoldLeft(LAMBDA seq, d : IF d.tile = l /\ Meets(d.range, ExchangeWindow)
                             THEN <<Cut(d, ExchangeWindow)>> \o seq ELSE seq,
             <<>>, pkgCase.data)

\* In the order they were given: a later one overwrites an earlier one.
AperturePieces(l) ==
    FoldLeft(LAMBDA seq, d : IF d.tile = l /\ Meets(d.range, ExchangeWindow)
                             THEN Append(seq, Cut(d, ExchangeWindow)) ELSE seq,
             <<>>, pkgCase.data)
ApertureRange(pieces) ==
    <<RoundDown(FoldLeft(LAMBDA n, c : Smaller(n, c.range[1]), MemoryLimit, pieces), 4),
      RoundUp(FoldLeft(LAMBDA n, c : Larger(n, c.range[2]), 0, pieces), 4)>>
ApertureTiles == {l \in PkgTiles : AperturePieces(l) # <<>>}

PlacedOn(l) == {d.range : d \in {e \in Range(pkgPlaced) : e.tile = l}}
RowsMeetData == \E l \in PkgTiles : \E d \in {e \in Range(LoaderData) : e.tile = l} :
                    \E r \in pkgCase.rows[l] : Meets(d.range, r)
DataOK == \A i \in DOMAIN pkgCase.data :
              pkgCase.data[i].tile \in PkgTiles /\ Bytes(pkgCase.data[i].range) > 0

\* Linked code and its elements, then the fixed ranges, then the caller's data.
LinkTiles ==
    /\ pkgStage = "link" /\ pkgCase.kind = "tiles"
    /\ pkgPlaced' = LoaderData
    /\ pkgFree' = ReserveAll(Protect(ReserveAll(WholeMemory, Linked), Linked), FixedRuntime)
    /\ IF ~DataOK THEN Refused("data") ELSE IF RowsMeetData THEN Refused("data meets a row")
       ELSE Reaches("stage")
    /\ UNCHANGED <<pkgCase, pkgSupport, pkgSizes, pkgUnused, pkgPrologue, pkgPlans, pkgPhases, pkgApp, pkgFile>>

StagingRequest(bytes) ==
    [bytes |-> bytes, align |-> 4, bounds |-> <<ExecutableLimit, LoadLimit>>, endAlign |-> 4, guard |-> 0]
OwnRanges(l) == MergedRanges(PlacedOn(l) \cup pkgCase.rows[l])
ToStage == {l \in ApertureTiles : pkgPrologue[l] = <<>>}
FirstOf(tiles) == CHOOSE l \in tiles : \A m \in tiles : l <= m

\* Contents of the window are loaded elsewhere in the tile and copied in by the
\* first step of its program.
StagedAt(l, window, start) ==
    /\ pkgPlaced' = Append(pkgPlaced, Datum(l, <<start, start + Bytes(window)>>, AperturePieces(l),
                                            start - window[1]))
    /\ pkgPrologue' = [pkgPrologue EXCEPT ![l] = <<start, window[1], Bytes(window)>>]
    /\ UNCHANGED <<pkgStage, pkgReason>>
StageWindow(l, window, scratch) ==
    IF ~CanAllocate(scratch, StagingRequest(Bytes(window)))
    THEN Refused("no room for staging") /\ UNCHANGED <<pkgPlaced, pkgPrologue>>
    ELSE StagedAt(l, window, Allocation(scratch, StagingRequest(Bytes(window)))[1])
StageAperture ==
    /\ pkgStage = "stage" /\ ToStage # {}
    /\ LET l == FirstOf(ToStage)
       IN  IF ~CanReserveAll(WholeMemory, OwnRanges(l))
           THEN Refused("data outside memory") /\ UNCHANGED <<pkgPlaced, pkgPrologue>>
           ELSE StageWindow(l, ApertureRange(AperturePieces(l)), ReserveAll(WholeMemory, OwnRanges(l)))
    /\ UNCHANGED <<pkgCase, pkgFree, pkgSupport, pkgSizes, pkgUnused, pkgPlans, pkgPhases, pkgApp, pkgFile>>

\* Code is common to all tiles: it avoids what any of them uses, and the
\* executable elements of that.
AllOwn == MergedRanges(UNION {PlacedOn(l) \cup pkgCase.rows[l] : l \in PkgTiles})
DataElements(r) ==
    <<ElementsOf(r)[1], RoundUp(Smaller(r[2], ExecutableLimit), ElementBytes)>>
CloseElements(free, rs) ==
    FoldSet(LAMBDA r, rest : IF r[1] < Smaller(r[2], ExecutableLimit)
                             THEN Without(rest, DataElements(r)) ELSE rest, free, rs)
ReserveData ==
    /\ pkgStage = "stage" /\ ToStage = {}
    /\ RestUnchanged /\ UNCHANGED <<pkgSupport, pkgSizes>>
    /\ IF CanReserveAll(pkgFree, AllOwn)
       THEN pkgFree' = CloseElements(ReserveAll(pkgFree, AllOwn), AllOwn) /\ Reaches("host")
       ELSE UNCHANGED pkgFree /\ Refused("data overlaps")

RunGate == [name |-> "run-gate", slices |-> <<[tile |-> PhysicalOf(0), at |-> StateBase + 4,
                                               file |-> 0, bytes |-> 4]>>]
RunFinish == [name |-> "run-finish", slices |-> <<[tile |-> PhysicalOf(0), at |-> StateBase + 8,
                                                   file |-> 0, bytes |-> 4]>>]
RunOutputs == Append(pkgCase.outputs, RunFinish)
TilesPhases == HostPhases(<<>>, <<RunGate>>, RunOutputs)
TilesPlans(base, free) ==
    PlansOver(InDirection(TilesPhases), base, [p \in PkgTiles |-> FreeWithin(free, DataBounds)])

SizeTilesHost ==
    /\ pkgStage = "host" /\ pkgCase.kind = "tiles"
    /\ RestUnchanged
    /\ IF CodeIsFull
       THEN Refused("no room for host") /\ UNCHANGED <<pkgFree, pkgSupport, pkgSizes>>
       ELSE \E plans \in {TilesPlans(SizingBase(8), pkgFree)} :
                IF ~PlansOK(plans)
                THEN Refused("descriptors") /\ UNCHANGED <<pkgFree, pkgSupport, pkgSizes>>
                ELSE TakeCode("host", PlansEnd(plans) - SizingBase(8), 8, 0, "protect host")

\* The host's descriptors go to the same ranges of every tile, then the code.
HostData(plans) ==
    MergedRanges({s.range : s \in UNION {Range(SelectSeq(plans[p].segments, LAMBDA s : ~s.exec))
                                         : p \in PkgTiles}})
ProtectTilesHost ==
    /\ pkgStage = "protect host"
    /\ UNCHANGED <<pkgCase, pkgPlaced, pkgUnused, pkgPrologue, pkgApp, pkgFile, pkgSupport, pkgSizes>>
    /\ pkgPhases' = TilesPhases
    /\ \E free \in {Protect(pkgFree, {Payload(Allocated("host"))})} :
       \E plans \in {TilesPlans(HostBase, free)} :
        /\ pkgPlans' = plans
        /\ IF ~PlansOK(plans) THEN Refused("descriptors") /\ UNCHANGED pkgFree
           ELSE IF PlansEnd(plans) - HostBase > pkgSizes["host"]
           THEN Refused("host grew") /\ UNCHANGED pkgFree
           ELSE pkgFree' = ReserveAll(free, HostData(plans)) /\ Reaches("tile code")

TileSteps(l) == pkgCase.steps[l] + IF pkgPrologue[l] = <<>> THEN 0 ELSE 24
TilesCodeBytes(l) == TileSteps(l) + PhaseBytes * Len(InDirection(pkgPhases))
SizeTilesCode ==
    /\ pkgStage = "tile code"
    /\ RestUnchanged
    /\ IF CodeIsFull
       THEN Refused("no room for code") /\ UNCHANGED <<pkgFree, pkgSupport, pkgSizes>>
       ELSE TakeCode("code", Largest(TilesCodeBytes), ElementBytes, 0, "emit")

DataSegments(l) ==
    FoldLeft(LAMBDA seq, d : IF d.tile # l THEN seq
                             ELSE Append(seq, Segment(d.range, FALSE, <<"data", d.pieces, d.shift>>)),
             <<>>, pkgPlaced)
TileCode(l) == <<Allocated("code")[1], Allocated("code")[1] + TilesCodeBytes(l)>>

\* The completion word comes first here: the outputs of the run are added after
\* assembly.
TilesApplication(plans) ==
    [Assembled([i \in 1 .. ExecutionTiles |->
                   BuiltTile(i - 1, LogicalOf(i - 1), pkgCase.rows[LogicalOf(i - 1)],
                             DataSegments(LogicalOf(i - 1)) \o plans[i - 1].segments,
                             TileCode(LogicalOf(i - 1)))],
               <<>>, pkgPhases, plans, 1)
     EXCEPT !.inputs = <<RunGate>>, !.outputs = @ \o RunOutputs,
            !.regions = @ \o Concatenated(LAMBDA l :
                EmittedRegions(PhysicalOf(l), TileCode(l), pkgCase.rows[l]))]

EmitTiles ==
    /\ pkgStage = "emit" /\ pkgCase.kind = "tiles"
    /\ pkgApp' = TilesApplication(pkgPlans)
    /\ Validated(pkgApp')
    /\ UNCHANGED <<pkgCase, pkgFree, pkgSupport, pkgSizes, pkgPlaced, pkgUnused, pkgPrologue,
                   pkgPlans, pkgPhases, pkgFile>>

-----------------------------------------------------------------------------
(* The package is written to a file and read back by the driver. *)

WritePackage ==
    /\ pkgStage = "built"
    /\ pkgFile' = Written(pkgApp)
    /\ IF Valid(pkgApp) THEN Reaches("written") ELSE Refused("file")
    /\ UNCHANGED <<pkgCase, pkgFree, pkgSupport, pkgSizes, pkgPlaced, pkgUnused, pkgPrologue,
                   pkgPlans, pkgPhases, pkgApp>>

ReadPackage ==
    /\ pkgStage = "written"
    /\ \E app \in {ReadBack(pkgFile)} :
        /\ pkgApp' = app
        /\ IF HeaderOK(pkgFile) /\ Valid(app) THEN Reaches("loaded") ELSE Refused("file")
    /\ UNCHANGED <<pkgCase, pkgFree, pkgSupport, pkgSizes, pkgPlaced, pkgUnused, pkgPrologue,
                   pkgPlans, pkgPhases, pkgFile>>

PackageInit ==
    /\ pkgCase \in PackageCases
    /\ pkgStage = "link" /\ pkgReason = "" /\ pkgFree = {} /\ pkgSupport = <<>> /\ pkgSizes = <<>>
    /\ pkgPlaced = <<>> /\ pkgUnused = [l \in PkgTiles |-> {}]
    /\ pkgPrologue = [l \in PkgTiles |-> <<>>] /\ pkgApp = EmptyApplication
    /\ pkgPhases = [weights |-> <<>>, inputs |-> <<>>, outputs |-> <<>>] /\ pkgFile = <<>>
    /\ pkgPlans = <<>>

PackageOver == pkgStage \in {"loaded", "refused"} /\ UNCHANGED pkgVars

PackageNext ==
    \/ LinkGraph \/ SizeHost \/ SizeCode \/ ReserveRows \/ ReserveDescriptors \/ PlaceTensors
    \/ EmitGraph \/ LinkTiles \/ StageAperture \/ ReserveData \/ SizeTilesHost
    \/ ProtectTilesHost \/ SizeTilesCode \/ EmitTiles \/ WritePackage \/ ReadPackage
    \/ PackageOver

PackageSpec == PackageInit /\ [][PackageNext]_pkgVars

-----------------------------------------------------------------------------
(* Properties. *)

BuiltOf(p) == TileImage(pkgApp, p)
CodeRanges(p) ==
    {s.range : s \in {g \in Range(BuiltOf(p)) :
        /\ g.exec /\ g.range[1] >= ExecutableStart /\ Bytes(g.range) > 0
        /\ g.holds[1] \in {"linked", "host", "code"}}}
RowRanges(l) == IF pkgCase.kind = "tiles" THEN pkgCase.rows[l]
                ELSE {s.range : s \in {g \in Range(BuiltOf(PhysicalOf(l))) : g.holds[1] = "rows"}}
PlacedShards == Shards \o SampleShards
DataOn(l) ==
    IF pkgCase.kind = "tiles" THEN PlacedOn(l)
    ELSE {<<pkgPlaced[i], pkgPlaced[i] + PlacedShards[i].bytes>> :
             i \in {j \in DOMAIN PlacedShards : PlacedShards[j].tile = l}}
DescriptorsOn(l) ==
    {s.range : s \in {g \in Range(BuiltOf(PhysicalOf(l))) : g.holds[1] \in {"packet", "table"}}}
Ahead(r) == <<r[2], r[2] + FetchLookahead>>

\* In a package that was built, on every tile: nothing that is loaded lies in
\* the exchange window, which the host overwrites, or on a tensor; instruction
\* fetch (of code with its whole elements; of rows and host programs with the
\* bytes fetched ahead of their end) never meets data of the caller, nor, in a
\* graph, the descriptors.
NothingMeets ==
    pkgStage = "loaded" => \A l \in PkgTiles :
        /\ \A s \in Range(BuiltOf(PhysicalOf(l))) :
            /\ ~Meets(s.range, ExchangeWindow)
            /\ pkgCase.kind = "graph" => \A d \in DataOn(l) : ~Meets(s.range, d)
        /\ \A c \in CodeRanges(PhysicalOf(l)) :
            \A d \in DataOn(l) \cup (IF pkgCase.kind = "graph" THEN DescriptorsOn(l) ELSE {}) :
                ~Meets(ElementsOf(c), d)
        /\ pkgCase.kind = "graph" =>
            \A r \in RowRanges(l) : \A d \in DataOn(l) \cup DescriptorsOn(l) :
                ~Meets(ElementsOf(r), d) /\ ~Meets(Ahead(r), d)

\* Sizing runs the emitters on addresses that change afterwards.  Once memory is
\* reserved, what a graph needs later fits: nothing but exchange rows, which
\* placement may lengthen past their elements, and tensors that do not fit
\* refuses the build, and no package is refused by the validator but for
\* overlapping data of the caller.
ReservationsSuffice ==
    pkgReason \notin {"host grew", "code grew", "file"}
    /\ (pkgReason = "descriptors" => pkgCase.kind = "tiles")
    /\ (pkgReason = "validation" => pkgCase.kind = "tiles"
            /\ \E i, j \in DOMAIN LoaderData : i # j /\ LoaderData[i].tile = LoaderData[j].tile
                    /\ Meets(LoaderData[i].range, LoaderData[j].range))

\* A byte of a datum: the last piece that gives it, and the caller's address.
ByteOf(pieces, a) ==
    LET giving == {i \in DOMAIN pieces : pieces[i].range[1] <= a /\ a < pieces[i].range[2]}
    IN  IF giving = {} THEN Zero
        ELSE <<pieces[CHOOSE i \in giving : \A j \in giving : j <= i].token, a>>
\* What an address of a tile holds once its program's first step has run.
LoadedByte(l, a) ==
    LET held == HeldAt(BuiltOf(PhysicalOf(l)), a)
    IN  IF held[1] = "data" THEN ByteOf(held[2], a - held[3]) ELSE held
RunningByte(l, a) ==
    LET copy == pkgPrologue[l]
    IN  IF copy # <<>> /\ copy[2] <= a /\ a < copy[2] + copy[3]
        THEN LoadedByte(l, copy[1] + (a - copy[2])) ELSE LoadedByte(l, a)
Probes(l) ==
    UNION {{d.range[1], d.range[2] - 1} : d \in {e \in Range(pkgCase.data) : e.tile = l}}
GivenPieces(l) == SelectSeq(pkgCase.data, LAMBDA d : d.tile = l)

\* A region of the debug map names what the loaded image has there.
NamedRight(p) ==
    \A s \in Range(BuiltOf(p)) :
        s.exec /\ Bytes(s.range) > 0 =>
            \A pc \in {s.range[1], s.range[2] - 1} :
                LET name == Symbolized(pkgApp, p, pc)
                IN  CASE s.holds[1] = "host" -> name = "host program"
                      [] s.holds[1] = "code" -> name = "tile program"
                      [] s.holds[1] = "rows" -> name = "exchange row"
                      [] s.holds[1] = "entry" -> name = "unknown"
                      [] OTHER -> \E y \in pkgCase.symbols : y[1] = name /\ y[2] <= pc

\* The device runs what was built for it: every physical tile has the code, rows
\* and host program of its logical tile at the addresses the code was emitted
\* for, every byte a caller gave for a tile is at its address when the program
\* proper starts, the last one given where several were, and the debugger's
\* look-up names what is there.
ImagesAreRight ==
    pkgStage = "loaded" => \A l \in PkgTiles :
        /\ HeldAt(BuiltOf(PhysicalOf(l)), Allocated("code")[1]) = <<"code", l>>
        /\ \A r \in RowRanges(l) : HeldAt(BuiltOf(PhysicalOf(l)), r[1]) = <<"rows", l>>
        /\ Allocated("host") # Nowhere =>
            HeldAt(BuiltOf(PhysicalOf(l)), RoundUp(HostBase, 8)) = <<"host", PhysicalOf(l)>>
        /\ pkgCase.kind = "tiles" => \A a \in Probes(l) :
            RunningByte(l, a) = ByteOf(GivenPieces(l), a)
        /\ NamedRight(PhysicalOf(l))

\* The page of a phase's transfer, and the slice of the call that fills or reads
\* that page in the same batch.
BatchSlices(slices, ends, k) ==
    SubSeq(slices, (IF k = 1 THEN 0 ELSE ends[k - 1]) + 1, ends[k])
Moved(phases, slices, ends) ==
    UNION {{<<x.tile, x.at, s.file, x.bytes>> :
                <<x, s>> \in {xs \in Range(phases[k]) \X Range(BatchSlices(slices, ends, k)) :
                                xs[1].offset = xs[2].offset}} : k \in DOMAIN phases}
MovesByte(moved, tile, at, file) ==
    Cardinality({m \in moved : m[1] = tile /\ m[2] <= at /\ at < m[2] + m[4]
                               /\ file = m[3] + (at - m[2])}) = 1
SliceBytes(slice) == {0, slice.bytes - 1} \cup ({HostPage - 1, HostPage} \cap 0 .. slice.bytes - 1)
BindingsMove(bindings, Base(_), moved) ==
    \A i \in DOMAIN bindings : \A s \in Range(bindings[i].slices) : \A j \in SliceBytes(s) :
        MovesByte(moved, s.tile, s.at + j, Base(i) + s.file + j)
PagesDistinct(phases) ==
    \A k \in DOMAIN phases : \A x, y \in Range(phases[k]) : x # y => x.offset # y.offset
RunCall == Last(pkgApp.calls)

\* For a graph: the page copies of the session and the page transfers of the
\* tiles together move every byte of an input or weight from its place in the
\* concatenated host buffer to its shard's address, and every byte of an output
\* to where output_binding finds it; within a batch no page is used twice.
BindingsReachTheirTiles ==
    pkgStage = "loaded" /\ pkgCase.kind = "graph" /\ pkgApp.calls # <<>> =>
        /\ BindingsMove(pkgApp.inputs, LAMBDA i : ConcatenatedBefore(pkgApp.inputs, i),
                        Moved(pkgPhases.inputs, RunCall.inputs, RunCall.inputEnds))
        /\ BindingsMove(SubSeq(pkgApp.outputs, 1, Len(pkgApp.outputs) - 1),
                        LAMBDA i : OutputBinding(pkgApp, pkgApp.outputs[i].name),
                        Moved(pkgPhases.outputs, RunCall.outputs, RunCall.outputEnds))
        /\ pkgPhases.weights # <<>> =>
            BindingsMove(pkgApp.weights, LAMBDA i : ConcatenatedBefore(pkgApp.weights, i),
                         Moved(pkgPhases.weights, pkgApp.calls[1].inputs, pkgApp.calls[1].inputEnds))
        /\ PagesDistinct(pkgPhases.weights) /\ PagesDistinct(pkgPhases.inputs)
        /\ PagesDistinct(pkgPhases.outputs)

\* A package that is built is sound, and what sizing reserved is enough to build it.
PackageIsSound == NothingMeets /\ ReservationsSuffice

\* What is loaded is what was built, and the calls of a session move every
\* byte between the host and the tensor it belongs to.
LoadedAsBuilt == ImagesAreRight /\ BindingsReachTheirTiles
=============================================================================
