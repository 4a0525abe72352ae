--------------------------- MODULE ProfileAnalysis ---------------------------
(***************************************************************************)
(* What the host computes from a profile report (ipu-profile): the common  *)
(* origin of the tiles' wrapping counters, the exchange boundaries, the    *)
(* time the links spend in each role, queries by groups, the preparation   *)
(* of each exchange and the cost measurements; and the tables the profile  *)
(* page is drawn from (ipu-cli).                                           *)
(***************************************************************************)
EXTENDS Profiling

CONSTANT ChunkEvents    \* 20_000: activities after which a chunk is closed

ReportTiles == DOMAIN report
SampleIds == UNION {{<<t, k>> : k \in DOMAIN report[t]} : t \in ReportTiles}
SampleOf(id) == report[id[1]][id[2]]
StepOf(id) == SampleOf(id).step

-------------------------------------------------------------------------------
(* The clock. *)

WrappingSub(a, b) == (a - b) % ClockWrap
Signed(d) == IF d >= ClockWrap \div 2 THEN d - ClockWrap ELSE d

FirstStarts == {report[t][1].start : t \in {u \in ReportTiles : report[u] # <<>>}}

CycleOrigin ==
    IF FirstStarts = {} THEN 0
    ELSE LET reference == report[Min({t \in ReportTiles : report[t] # <<>>})][1].start
         IN  (reference + Min({Signed(WrappingSub(s, reference)) : s \in FirstStarts})) % ClockWrap

Duration(id) == WrappingSub(SampleOf(id).end, SampleOf(id).start)
Offset(id) == WrappingSub(SampleOf(id).start, CycleOrigin)
RawEnd(id) == Offset(id) + Duration(id)

\* The leading interval before every tile has stored its first sample.
InitialEntrySpan == Max({0} \cup {WrappingSub(s, CycleOrigin) : s \in FirstStarts})
Crop(shared) == IF shared THEN 0 ELSE InitialEntrySpan
SaturatingSub(a, b) == IF a > b THEN a - b ELSE 0
From(id, crop) == SaturatingSub(Offset(id), crop)
Until(id, crop) == SaturatingSub(RawEnd(id), crop)
Recorded(id, crop) == Until(id, crop) - From(id, crop)

-------------------------------------------------------------------------------
(* Exchange boundaries, one for each epoch and phase. *)

IsExchangeBoundary(id) ==
    \/ StepOf(id).kind = "Exchange"
    \/ StepOf(id).kind = "Synchronization" /\ StepOf(id).reason = "ExchangeBarrier"

BoundaryKey(id) == <<StepOf(id).epoch, StepOf(id).phase>>

Boundary(key, ids) ==
    LET entries == {Offset(id) : id \in ids}
        events == {StepOf(id).events : id \in ids} \ {0}
    IN  [key |-> key, first |-> Min(entries), last |-> Max(entries),
         exit |-> Max({RawEnd(id) : id \in ids}),
         tile |-> Min({id[1] : id \in {i \in ids : Offset(i) = Max(entries)}}),
         scheduled |-> IF events = {} THEN None ELSE Max(events)]

ExchangeBoundaries ==
    LET entries == {id \in SampleIds : IsExchangeBoundary(id)}
    IN  {Boundary(key, {id \in entries : BoundaryKey(id) = key}) : key \in {BoundaryKey(id) : id \in entries}}

ArrivalSpread(b) == b.last - b.first
AfterLastArrival(b) == b.exit - b.last

-------------------------------------------------------------------------------
(* Cycles of an exchange in each role: a sweep over the ends of its         *)
(* activities, cut at the scheduled length.                                 *)

Roles == {"Send", "Receive", "PartnerBusy"}
Lesser(a, b) == IF a < b THEN a ELSE b
Clipped(activities, events) ==
    SelectSeq(Mapped(LAMBDA a : [a EXCEPT !.start = Lesser(@, events), !.end = Lesser(@, events)],
                     activities),
              LAMBDA a : a.start < a.end)

Depth(activities, role, time) ==
    LET count(P(_)) == Len(SelectSeq(activities, LAMBDA a : a.kind = role /\ P(a)))
    IN  count(LAMBDA a : a.start <= time) - count(LAMBDA a : a.end <= time)

RolesBetween(activities, time) == {r \in Roles : Depth(activities, r, time) > 0}

RoleSweep(activities, events) ==
    LET times == {0} \cup UNION {{activities[i].start, activities[i].end} : i \in DOMAIN activities}
        until(time) == Min({events} \cup {n \in times : n > time})
        cycles(InRole(_)) ==
            MapThenSumSet(LAMBDA time : IF InRole(RolesBetween(activities, time))
                                        THEN until(time) - time ELSE 0, times)
    IN  [send |-> cycles(LAMBDA r : "Send" \in r), receive |-> cycles(LAMBDA r : "Receive" \in r),
         both |-> cycles(LAMBDA r : {"Send", "Receive"} \subseteq r),
         busy |-> cycles(LAMBDA r : "PartnerBusy" \in r), idle |-> cycles(LAMBDA r : r = {})]

ExchangeRoleCycles(step) == RoleSweep(Clipped(step.activities, step.events), step.events)

Described == {id \in SampleIds : /\ StepOf(id).kind = "Exchange"
                                 /\ StepOf(id).events # 0 /\ StepOf(id).activities # <<>>}

ExchangeActivitySummary ==
    LET total(Role(_)) == MapThenSumSet(LAMBDA id : Role(ExchangeRoleCycles(StepOf(id))), Described)
        timed == {b \in ExchangeBoundaries : b.scheduled # None}
    IN  [samples |-> Cardinality({id \in SampleIds : StepOf(id).kind = "Exchange"}),
         described |-> Cardinality(Described),
         send |-> total(LAMBDA r : r.send), receive |-> total(LAMBDA r : r.receive),
         both |-> total(LAMBDA r : r.both), busy |-> total(LAMBDA r : r.busy),
         idle |-> total(LAMBDA r : r.idle),
         measured |-> MapThenSumSet(AfterLastArrival, timed),
         scheduled |-> MapThenSumSet(LAMBDA b : b.scheduled, timed),
         wait |-> MapThenSumSet(ArrivalSpread, timed),
         boundary |-> MapThenSumSet(LAMBDA b : SaturatingSub(AfterLastArrival(b), b.scheduled), timed)]

-------------------------------------------------------------------------------
(* Queries: [by, kind, kernel, operation, tiles, phases, at, metadata,      *)
(* shared].  A filter that is not given is the empty set; `operation` holds *)
(* the set of operations whose name contains the text asked for, `metadata` *)
(* entries [name, value], the value empty where only presence is asked.     *)

GroupKey(by, id) ==
    CASE by = "Kind" -> <<StepOf(id).kind>>
      [] by = "Kernel" -> <<IF StepOf(id).kernel = "" THEN "(no kernel)" ELSE StepOf(id).kernel>>
      [] by = "Operation" -> <<StepOf(id).operation>>
      [] by = "Phase" -> <<StepOf(id).phase, StepOf(id).epoch>>
      [] by = "Tile" -> <<id[1]>>
      [] by = "Metadata" -> <<StepOf(id).reason>>

\* The entries of a step's metadata, those it does not have empty.
MetadataOf(step) ==
    LET given(value) == {value} \ {None}
    IN  [reason |-> {step.reason}, invocations |-> given(step.invocations),
         uniformInvocations |-> {step.uniform : a \in given(step.arguments)},
         arguments |-> given(step.arguments), iterations |-> given(step.iterations),
         bytes |-> {c.bytes : c \in {step.copy} \ {NoCopy}}]

MatchesQuery(query, id, crop) ==
    /\ query.kind \subseteq {StepOf(id).kind}
    /\ query.kernel \subseteq {StepOf(id).kernel}
    /\ \A containing \in query.operation : StepOf(id).operation \in containing
    /\ query.tiles = {} \/ id[1] \in query.tiles
    /\ query.phases = {} \/ StepOf(id).phase \in query.phases
    /\ query.at \subseteq From(id, crop) .. Until(id, crop) - 1
    /\ \A filter \in query.metadata :
         LET values == MetadataOf(StepOf(id))[filter.name]
         IN  values # {} /\ filter.value \subseteq values

MatchedSamples(query, crop) ==
    {id \in SampleIds : Recorded(id, crop) > 0 /\ MatchesQuery(query, id, crop)}

Before(x, y) == x[1] < y[1] \/ (x[1] = y[1] /\ x[2] <= y[2])
InsertInterval(x, seq) ==
    LET k == Len(SelectSeq(seq, LAMBDA y : Before(y, x)))
    IN  (SubSeq(seq, 1, k) \o <<x>>) \o SubSeq(seq, k + 1, Len(seq))
Ascending(intervals) == FoldSet(InsertInterval, <<>>, intervals)

UnionLength(intervals) ==
    LET merged == FoldLeft(
            LAMBDA acc, next :
                IF next[1] <= acc.end THEN [acc EXCEPT !.end = IF next[2] > @ THEN next[2] ELSE @]
                ELSE [total |-> acc.total + (acc.end - acc.start), start |-> next[1], end |-> next[2]],
            [total |-> 0, start |-> 0, end |-> 0], Ascending(intervals))
    IN  merged.total + (merged.end - merged.start)

\* An estimate counts when the sample is uncut and its work is not more than issued.
UsefulWork(id, crop) ==
    {e \in StepOf(id).estimate : e.useful <= e.issued /\ Recorded(id, crop) = Duration(id)}

GroupSummary(name, ids, crop) ==
    LET estimated == {id \in ids : UsefulWork(id, crop) # {}}
        useful(id) == (CHOOSE e \in UsefulWork(id, crop) : TRUE).useful
        cycles(id) == Recorded(id, crop)
    IN  [name |-> name, samples |-> Cardinality(ids), tiles |-> Cardinality({id[1] : id \in ids}),
         phases |-> Cardinality({BoundaryKey(id) : id \in ids}),
         phaseCycles |-> UnionLength({<<From(id, crop), Until(id, crop)>> : id \in ids}),
         workCycles |-> MapThenSumSet(cycles, ids),
         usefulCycles |-> MapThenSumSet(useful, estimated),
         estimatedCycles |-> MapThenSumSet(cycles, estimated),
         first |-> Min({From(id, crop) : id \in ids}), last |-> Max({Until(id, crop) : id \in ids})]

QueryGroups(query, ids, crop) ==
    {GroupSummary(name, {id \in ids : GroupKey(query.by, id) = name}, crop) :
        name \in {GroupKey(query.by, id) : id \in ids}}

-------------------------------------------------------------------------------
(* Preparation of each exchange: the calls of a tile go to the exchange it  *)
(* meets next, unless iterations that were not sampled lie between.         *)

IsRemainder(id) == StepOf(id).kernel = "repeat-remainder"

NextBoundary(id) ==
    LET later == {k \in id[2] + 1 .. Len(report[id[1]]) :
                    IsExchangeBoundary(<<id[1], k>>) \/ IsRemainder(<<id[1], k>>)}
    IN  IF later = {} \/ ~IsExchangeBoundary(<<id[1], Min(later)>>) THEN {} ELSE {<<id[1], Min(later)>>}

\* epoch and phase of the exchange, or of none
Preparation(id) == IF NextBoundary(id) = {} THEN <<StepOf(id).epoch, None>>
                   ELSE BoundaryKey(CHOOSE next \in NextBoundary(id) : TRUE)

Prepares(id, crop) ==
    /\ StepOf(id).kind = "Compute" /\ ~IsRemainder(id)
    /\ Recorded(id, crop) > 0

PhaseKernels(ids, crop) ==
    LET cycles(id) == Recorded(id, crop)
        key(id) == <<StepOf(id).operation, StepOf(id).kernel>>
        work(k) == {id \in ids : key(id) = k}
    IN  {[kernel |-> k, samples |-> Cardinality(work(k)), tiles |-> Cardinality({id[1] : id \in work(k)}),
          cycles |-> MapThenSumSet(cycles, work(k)), maximum |-> Max({cycles(id) : id \in work(k)})] :
            k \in {key(id) : id \in ids}}

\* Boundaries that tiles passed just before this one.
PrecedingOf(key) ==
    {id \in SampleIds : IsExchangeBoundary(id) /\ NextBoundary(id) # {} /\ Preparation(id) = key}

ExposedPreparation(key, boundaries) ==
    LET own == {b \in boundaries : b.key = key}
        before == {BoundaryKey(id) : id \in PrecedingOf(key)}
    IN  IF Cardinality(before) # 1 THEN {}
        ELSE {SaturatingSub(b.last, p.exit) : b \in own, p \in {q \in boundaries : q.key \in before}}

\* The time the last tile to arrive spent in no recorded call.
UnattributedBefore(key, ids, boundaries, crop) ==
    {LET calls == {id \in ids : id[1] = b.tile}
         passed == {id \in PrecedingOf(key) : id[1] = b.tile}
     IN  IF calls # {} THEN SaturatingSub(b.last, Until(<<b.tile, Max({id[2] : id \in calls})>>, crop))
         ELSE IF passed # {} THEN SaturatingSub(b.last, Until(<<b.tile, Min({id[2] : id \in passed})>>, crop))
         ELSE 0 : b \in {c \in boundaries : c.key = key}}

Cropped(b, crop) ==
    [b EXCEPT !.first = SaturatingSub(@, crop), !.last = SaturatingSub(@, crop), !.exit = SaturatingSub(@, crop)]

PhaseGroup(key, ids, boundaries, crop) ==
    LET entry == {b.last : b \in {c \in boundaries : c.key = key}} \cup {0}
    IN  [key |-> key, calls |-> ids,
         start |-> IF ids = {} THEN Max(entry) ELSE Min({From(id, crop) : id \in ids}),
         end |-> IF ids = {} THEN Max(entry) ELSE Max({Until(id, crop) : id \in ids}),
         work |-> MapThenSumSet(LAMBDA id : Recorded(id, crop), ids),
         kernels |-> PhaseKernels(ids, crop),
         exposed |-> ExposedPreparation(key, boundaries),
         unattributed |-> UnattributedBefore(key, ids, boundaries, crop)]

PhaseWork(crop) ==
    LET boundaries == {Cropped(b, crop) : b \in ExchangeBoundaries}
        calls == {id \in SampleIds : Prepares(id, crop)}
    IN  {PhaseGroup(key, {id \in calls : Preparation(id) = key}, boundaries, crop) :
            key \in {b.key : b \in boundaries} \cup {Preparation(id) : id \in calls}}

-------------------------------------------------------------------------------
(* Cost measurements. *)

MeasuredCalls ==
    {id \in SampleIds : /\ StepOf(id).kind = "Compute" /\ StepOf(id).kernel # ""
                        /\ StepOf(id).invocations <= 1 \/ StepOf(id).uniform}
CallsIn(id) == IF StepOf(id).invocations < 1 THEN 1 ELSE StepOf(id).invocations
DivCeil(a, b) == (a + b - 1) \div b

CalibrationKey(id) ==
    [kernel |-> StepOf(id).kernel, arguments |-> StepOf(id).arguments,
     iterations |-> StepOf(id).iterations, copy |-> StepOf(id).copy]

CalibrateProfiles ==
    {LET cycles == {DivCeil(Duration(id), CallsIn(id)) : id \in {i \in MeasuredCalls : CalibrationKey(i) = key}}
     IN  [key |-> key, minimum |-> Min(cycles), maximum |-> Max(cycles)] :
        key \in {CalibrationKey(id) : id \in MeasuredCalls}}

-------------------------------------------------------------------------------
(* The tables of the profile page.  Steps and activity streams are kept     *)
(* once; the streams go to chunks, in order of the first phase they have.   *)

Interned(value, table) == IF value \in Range(table) THEN table ELSE Append(table, value)
IndexIn(value, table) == CHOOSE i \in DOMAIN table : table[i] = value

InOrderOfTiles ==
    FoldLeft(LAMBDA seq, t : seq \o Mapped(LAMBDA k : <<t, k>>, [k \in DOMAIN report[t] |-> k]), <<>>,
             SelectSeq([n \in 1 .. Cardinality(ProfTiles) |-> n - 1], LAMBDA t : t \in ReportTiles))

StepRow(step) == [step EXCEPT !.activities = <<>>]
PageContents ==
    LET tables == FoldLeft(LAMBDA acc, id : [steps |-> Interned(StepRow(StepOf(id)), acc.steps),
                                             streams |-> Interned(StepOf(id).activities, acc.streams)],
                           [steps |-> <<>>, streams |-> <<>>], InOrderOfTiles)
    IN  [steps |-> tables.steps, streams |-> tables.streams,
         samples |-> [id \in SampleIds |->
                        [step |-> IndexIn(StepRow(StepOf(id)), tables.steps), start |-> Offset(id),
                         duration |-> Duration(id), stream |-> IndexIn(StepOf(id).activities, tables.streams)]]]

\* The earliest <<epoch, phase>> of the samples that show a stream.
PhaseKeyOf(page, stream) ==
    LET keys == {BoundaryKey(id) : id \in {i \in DOMAIN page.samples : page.samples[i].stream = stream}}
    IN  CHOOSE k \in keys : \A other \in keys : Before(k, other)

Sooner(page, a, b) ==
    LET ka == PhaseKeyOf(page, a)
        kb == PhaseKeyOf(page, b)
    IN  IF ka = kb THEN a < b ELSE Before(ka, kb)

NewIndex(page, old) == 1 + Cardinality({s \in DOMAIN page.streams : Sooner(page, s, old)})

Reordered(page) ==
    [page EXCEPT !.streams = Mapped(LAMBDA n : page.streams[CHOOSE old \in DOMAIN @ : NewIndex(page, old) = n],
                                    [n \in DOMAIN @ |-> n]),
                 !.samples = [id \in DOMAIN @ |-> [@[id] EXCEPT !.stream = NewIndex(page, @)]]]

Chunked(streams) ==
    FoldLeft(LAMBDA acc, n :
               LET events == acc.events + Len(streams[n])
               IN  IF events >= ChunkEvents \/ n = Len(streams)
                   THEN [chunks |-> Append(acc.chunks, [begin |-> acc.begin, end |-> n,
                                                        streams |-> SubSeq(streams, acc.begin, n)]),
                         begin |-> n + 1, events |-> 0]
                   ELSE [acc EXCEPT !.events = events],
             [chunks |-> <<>>, begin |-> 1, events |-> 0], [n \in DOMAIN streams |-> n]).chunks

===============================================================================
