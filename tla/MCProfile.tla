------------------------------- MODULE MCProfile -------------------------------
(* Programs of two tiles with work and one that keeps in step: calls and       *)
(* copies that one interval covers, with equal arguments and with others,      *)
(* exchanges, and loops that run once or three times, on a counter that wraps. *)
EXTENDS ProfileAnalysis

BaseRun == [kernel |-> "Gelu", why |-> "op1", args |-> 2, logical |-> 6, physical |-> 8, elements |-> 6,
            precision |-> "F16", input |-> "F32", width |-> 8, partials |-> 3, flops |-> {<<256, 512>>},
            multiply |-> "F16", keys |-> 19, split |-> TRUE]

C(tile, run) == [op |-> "Compute", tile |-> tile, run |-> run, body |-> <<>>]
P(tile, bytes, to) ==
    [op |-> "Copy", tile |-> tile, copy |-> [symbol |-> "copy", bytes |-> bytes], args |-> to, body |-> <<>>]
X(id) == [op |-> "Exchange", id |-> id, body |-> <<>>]
Rep(count, body) == [op |-> "Repeat", why |-> "loop", count |-> count, tiles |-> {0, 1}, body |-> body]

Short == BaseRun
Long == [BaseRun EXCEPT !.args = 3]
Other == [BaseRun EXCEPT !.kernel = "Merge", !.args = 1, !.why = "op2"]

\* Work before, between and after exchanges; `id` is free for an exchange of a body.
Calls(id) ==
    {<<C(0, Short), C(0, Short), C(1, Long)>>, <<C(0, Short), C(0, Long), C(1, Other), C(1, Short)>>,
     <<P(0, 2, 0), P(0, 2, 0), P(0, 4, 0), C(0, Other), P(1, 3, 0), P(1, 3, 8)>>}
Loops(id) ==
    {<<Rep(n, body)>> : n \in {1, 3},
        body \in {<<C(0, Short), C(0, Short), X(id), C(1, Long)>>, <<C(1, Other), P(0, 2, 0), C(0, Other), X(id)>>,
                  <<X(id), C(0, Short), C(1, Short), C(1, Long)>>}}
\* A loop with work on one tile only, where no later loop has an exchange.
LoneLoops == {<<Rep(2, <<C(1, Short), C(1, Other)>>)>>}

\* Kernels with an estimate of their useful work, over the formats that change it.
Estimated ==
    {[BaseRun EXCEPT !.kernel = k, !.precision = p, !.input = i, !.width = w] :
        k \in {"LayerNorm", "AddLayerNorm", "Cast", "Gelu"}, p \in {"F8", "F16"}, i \in {"F16"}, w \in {8, 96}}
    \cup {[BaseRun EXCEPT !.kernel = k] :
            k \in {"BiasGelu", "LayerNormMoments", "LayerNormApply", "AddLayerNormMoments", "Add", "ReductionSum",
                   "Rearrange", "Gemm", "FillPadding", "AttentionSoftmax"}}

Graphs ==
    {((a \o <<X(2)>>) \o b) : a \in Calls(1) \cup Loops(1), b \in Loops(3) \cup Calls(3) \cup LoneLoops}
    \cup {((a \o b) \o <<X(2)>>) : a \in Loops(1), b \in LoneLoops}
    \cup {<<X(1), X(2)>>, <<C(1, Short)>>, <<>>}
    \cup {<<C(0, run), C(0, run)>> : run \in Estimated}

Activity(kind, start, end) == [kind |-> kind, start |-> start, end |-> end]
Exchanges ==
    <<[activities |-> (0 :> <<Activity("Send", 0, 3), Activity("Receive", 2, 5)>>)
                      @@ (1 :> <<Activity("Receive", 1, 3), Activity("Receive", 2, 4), Activity("PartnerBusy", 3, 9)>>),
       events |-> 5],
      [activities |-> (0 :> <<Activity("Send", 1, 2)>>) @@ (1 :> <<Activity("Receive", 1, 2)>>), events |-> 2],
      [activities |-> (0 :> <<>>), events |-> 3]>>

PaceSets == {[t \in 0 .. 2 |-> IF t = 0 THEN 2 ELSE 1], [t \in 0 .. 2 |-> IF t = 1 THEN 2 ELSE 1]}
SkewSets == {[t \in 0 .. 2 |-> 2 - t], [t \in 0 .. 2 |-> IF t = 1 THEN 3 ELSE 0]}

-------------------------------------------------------------------------------
(* What the tiles really did, from the code they ran and its clocks. *)

WorkAt(t, p) == code[t][p].work
Works(t) == {p \in DOMAIN code[t] : code[t][p].item = "work"}
StoredAt(t, k) == Max({p \in DOMAIN code[t] : code[t][p] = [item |-> "sample", index |-> k]})
EndsAt(t, p) == IF p = Len(code[t]) THEN clock[t] ELSE starts[t][p + 1]
Window(t, k) == {p \in Works(t) : StoredAt(t, k - 1) < p /\ p < StoredAt(t, k)}
Turns(t, ps) == {code[t][p].turn : p \in ps}

Ran(t, ps, step) ==
    CASE step.kernel \in {"exchange", "sync"} ->
            /\ Cardinality(ps) = 1 /\ Turns(t, ps) = {1}
            /\ \A p \in ps : /\ WorkAt(t, p).op = "Exchange" /\ ExchangePhase(WorkAt(t, p).id) = step.phase
                             /\ (step.kernel = "exchange") = (t \in DOMAIN ExchangeOf[WorkAt(t, p).id].activities)
      [] step.kernel = "idle" -> \A p \in ps : WorkAt(t, p).op = "Exchange"
      [] step.kernel = "repeat" -> ps = {}
      [] step.kernel = "repeat-remainder" -> Turns(t, ps) = 2 .. step.iterations + 1
      [] OTHER -> /\ Cardinality(ps) = step.invocations /\ Turns(t, ps) = {1}
                  /\ \A p \in ps : IF WorkAt(t, p).op = "Copy" THEN WorkAt(t, p).copy = step.copy
                                   ELSE WorkAt(t, p).run.kernel = step.kernel /\ WorkAt(t, p).run.why = step.operation

\* The intervals tell the run: those of a tile hold its work without overlap
\* or gap, each holds exactly the calls its description names and in the turn it
\* names, and its two cycle counts are those of its ends, although calls share
\* intervals, loops are sampled in their first turn only and the slices are sized
\* by a count made before the steps exist (`instrument_profile`, `emit_repeat`,
\* `profile_step_count`, `profile_report`).
IntervalsTellTheRun ==
    /\ profStage # "refused"
    /\ profStage = "reported" =>
         \A t \in ProfTiles :
           /\ t \notin ReportTiles => Works(t) = {}
           /\ t \in ReportTiles =>
                /\ UNION {Window(t, k) : k \in DOMAIN report[t]} = Works(t)
                /\ \A k \in DOMAIN report[t] :
                     /\ StoredAt(t, k - 1) < StoredAt(t, k)
                     /\ Ran(t, Window(t, k), report[t][k].step)
                     /\ report[t][k].start = starts[t][StoredAt(t, k - 1)] % ClockWrap
                     /\ report[t][k].end = starts[t][StoredAt(t, k)] % ClockWrap

-------------------------------------------------------------------------------
Began == Min({starts[t][StoredAt(t, 0)] : t \in ReportTiles})

\* The tiles with work that met in the first turn of an exchange, and where.
Meetings ==
    UNION {{<<WorkAt(t, p).id, t, p>> : p \in {q \in Works(t) : /\ WorkAt(t, q).op = "Exchange"
                                                                /\ code[t][q].turn = 1}} : t \in Active}

TrueBoundary(id) ==
    LET met == {m \in Meetings : m[1] = id}
        arrival(m) == starts[m[2]][m[3]] - Began
        latest == Max({arrival(m) : m \in met})
    IN  [phase |-> ExchangePhase(id), first |-> Min({arrival(m) : m \in met}), last |-> latest,
         exit |-> Max({EndsAt(m[2], m[3]) - Began : m \in met}),
         tile |-> Min({m[2] : m \in {n \in met : arrival(n) = latest}})]

BoundariesAreGlobal ==
    /\ {[phase |-> b.key[2], first |-> b.first, last |-> b.last, exit |-> b.exit, tile |-> b.tile] :
            b \in ExchangeBoundaries} = {TrueBoundary(m[1]) : m \in Meetings}
    /\ Cardinality(ExchangeBoundaries) = Cardinality({m[1] : m \in Meetings})

\* Cycles counted one by one.
RolesAt(step, c) == {r \in Roles : \E i \in DOMAIN step.activities :
                        /\ step.activities[i].kind = r
                        /\ c \in step.activities[i].start .. step.activities[i].end - 1}
CountRoles(step) ==
    LET count(InRole(_)) == Cardinality({c \in 0 .. step.events - 1 : InRole(RolesAt(step, c))})
    IN  [send |-> count(LAMBDA r : "Send" \in r), receive |-> count(LAMBDA r : "Receive" \in r),
         both |-> count(LAMBDA r : {"Send", "Receive"} \subseteq r),
         busy |-> count(LAMBDA r : "PartnerBusy" \in r), idle |-> count(LAMBDA r : r = {})]

\* What the links did over all exchanges, and the cycles since the last arrival.
SummaryAddsUp(summary) ==
    LET total(Role(_)) == MapThenSumSet(LAMBDA id : Role(CountRoles(StepOf(id))), Described)
        met == {m[1] : m \in Meetings}
    IN  /\ summary.send = total(LAMBDA r : r.send) /\ summary.receive = total(LAMBDA r : r.receive)
        /\ summary.both = total(LAMBDA r : r.both) /\ summary.busy = total(LAMBDA r : r.busy)
        /\ summary.idle = total(LAMBDA r : r.idle)
        /\ summary.scheduled = MapThenSumSet(LAMBDA id : ExchangeOf[id].events, met)
        /\ summary.measured = MapThenSumSet(LAMBDA id : TrueBoundary(id).exit - TrueBoundary(id).last, met)

Query(by, shared) ==
    [by |-> by, kind |-> {}, kernel |-> {}, operation |-> {}, tiles |-> {}, phases |-> {}, at |-> {}, metadata |-> {},
     shared |-> shared]
Queries ==
    {Query("Kind", FALSE), Query("Phase", FALSE), Query("Tile", TRUE),
     [Query("Kernel", TRUE) EXCEPT !.kind = {"Compute"}],
     [Query("Operation", FALSE) EXCEPT !.kind = {"Compute"}, !.metadata = {[name |-> "arguments", value |-> {}]}],
     [Query("Metadata", TRUE) EXCEPT !.at = {7}],
     [Query("Tile", FALSE) EXCEPT !.operation = {{"op1", "op2"}}, !.phases = {1, 2}],
     [Query("Kind", TRUE) EXCEPT !.kernel = {"copy"}, !.metadata = {[name |-> "uniformInvocations", value |-> {TRUE}]}],
     [Query("Kernel", FALSE) EXCEPT !.tiles = {0, 2}, !.at = {12}]}
CroppedCycles(ids, crop) == MapThenSumSet(LAMBDA id : Recorded(id, crop), ids)

Covered(ids, crop) == UNION {From(id, crop) .. Until(id, crop) - 1 : id \in ids}

GroupsAddUp(query, ids, crop, groups) ==
    LET of(g) == {id \in ids : GroupKey(query.by, id) = g.name}
    IN  /\ MapThenSumSet(LAMBDA g : g.workCycles, groups) = CroppedCycles(ids, crop)
        /\ MapThenSumSet(LAMBDA g : g.samples, groups) = Cardinality(ids)
        /\ \A g \in groups :
             /\ g.phaseCycles = Cardinality(Covered(of(g), crop))
             /\ g.estimatedCycles = CroppedCycles({id \in of(g) : /\ StepOf(id).estimate # {}
                                                                  /\ Recorded(id, crop) = Duration(id)}, crop)
        /\ query.at # {} => \A t \in ReportTiles : Cardinality({id \in ids : id[1] = t}) <= 1

\* The first exchange after a call in what its tile ran, if no later turn lies between.
NextMeeting(id) ==
    LET later == {p \in Works(id[1]) : /\ p > StoredAt(id[1], id[2])
                                       /\ (WorkAt(id[1], p).op = "Exchange" \/ code[id[1]][p].turn > 1)}
    IN  IF later = {} \/ code[id[1]][Min(later)].turn > 1 THEN None
        ELSE ExchangePhase(WorkAt(id[1], Min(later)).id)

CallsPrepareTheirExchange(groups, crop) ==
    /\ \A g \in groups : \A id \in g.calls : NextMeeting(id) = g.key[2]
    /\ MapThenSumSet(LAMBDA g : g.work, groups) = CroppedCycles(
           {id \in SampleIds : StepOf(id).kind = "Compute" /\ StepOf(id).kernel # "repeat-remainder"}, crop)

MeasuresOneCall(m) ==
    LET units == IF m.key.copy = NoCopy THEN m.key.arguments ELSE m.key.copy.bytes
    IN  {m.minimum, m.maximum} \subseteq {pace[t] * units : t \in Active}

\* The analysis matches the run: however late the tiles start and wherever the
\* counter wraps there is one boundary for each exchange the tiles met in, with
\* its arrivals, its last tile and its end; groups partition the time a query
\* matches, their unions are the cycles they cover and at one moment a tile is in
\* one interval; link roles are the cycles counted one by
\* one; calls are charged to the exchange they prepare; and a measurement is the
\* cost of one call even when an interval holds several (`cycle_origin`,
\* `exchange_boundaries`, `query`, `exchange_role_cycles`, `phase_work`,
\* `calibrate_profiles`).  Remainders of loops are kept out of the last one.
AnalysisMatchesTheRun ==
    profStage = "reported" =>
        /\ BoundariesAreGlobal
        /\ SummaryAddsUp(ExchangeActivitySummary)
        /\ \A query \in Queries : \E crop \in {Crop(query.shared)} :
             \E ids \in {MatchedSamples(query, crop)} : GroupsAddUp(query, ids, crop, QueryGroups(query, ids, crop))
        /\ \A shared \in BOOLEAN : \E crop \in {Crop(shared)} : CallsPrepareTheirExchange(PhaseWork(crop), crop)
        /\ \A m \in CalibrateProfiles : m.key.kernel # "repeat-remainder" => MeasuresOneCall(m)

\* The page shows the report: after steps and streams are shared, reordered by phase
\* and cut into chunks, every sample still leads to its own step and activities,
\* and a chunk is closed as soon as it is full: without its last stream it has
\* fewer events than the bound, with it any number (`payload`, `write`).
PageShowsTheReport ==
    profStage = "reported" =>
        \E page \in {Reordered(PageContents)} : \E chunks \in {Chunked(page.streams)} :
            /\ \A id \in SampleIds :
                 LET shown == page.samples[id]
                     holding == {c \in Range(chunks) : shown.stream \in c.begin .. c.end}
                 IN  /\ page.steps[shown.step] = StepRow(StepOf(id))
                     /\ (shown.start + CycleOrigin) % ClockWrap = SampleOf(id).start
                     /\ (SampleOf(id).start + shown.duration) % ClockWrap = SampleOf(id).end
                     /\ \E c \in holding : /\ holding = {c}
                                           /\ c.streams[shown.stream - c.begin + 1] = StepOf(id).activities
            /\ \A c \in Range(chunks) :
                 MapThenSumSet(LAMBDA n : Len(c.streams[n]), 1 .. Len(c.streams) - 1) < ChunkEvents

\* The report tells the run, from the intervals a tile samples to the analysis
\* and the page made of them.
ReportTellsTheRun == IntervalsTellTheRun /\ AnalysisMatchesTheRun /\ PageShowsTheReport

\* "Each chunk is bounded by event count, except an indivisible single stream."
\* The loop tests the count after it added a stream, so that several streams
\* together may be more than the bound (`write`).
ChunksAreBounded ==
    profStage = "reported" =>
        \E page \in {Reordered(PageContents)} :
            \A c \in Range(Chunked(page.streams)) :
                \/ Cardinality({n \in DOMAIN c.streams : c.streams[n] # <<>>}) = 1
                \/ MapThenSumSet(LAMBDA n : Len(c.streams[n]), DOMAIN c.streams) <= ChunkEvents

ProfSpec == ProfInit /\ [][ProfNext]_profVars

===============================================================================
