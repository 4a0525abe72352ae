----------------------------- MODULE PhaseProgram -----------------------------
(***************************************************************************)
(* The assembly of a phase's transfers into one instruction row per tile:  *)
(* exchange/program (PhaseProgramBuilder, TileProgramSchedule and the row  *)
(* encoder with its incremental prefix), as MaterializedSchedule drives    *)
(* it.  A tile keeps its messages and its timed controls; a row is a       *)
(* sequence of instructions whose advances add up to the phase's clock.    *)
(* An instruction is a record; its bit fields are its components.          *)
(***************************************************************************)
EXTENDS Integers, Sequences, FiniteSets, SequencesExt

CONSTANTS
    Tiles,             \* physical tiles
    Jobs,              \* the transfers of a phase, one sequence per job
    Mux(_, _),         \* time_to_mux: route time from a sender to a receiver
    RowPhase(_),       \* 2 * (receiver >> 6), the receiver's place in its column
    Partner(_),        \* the tile that shares the double-width lane
    MaxSend,           \* words one SEND, SENDPIC or SENDPICP can carry (64)
    MaxSendOff,        \* words one SENDOFF can carry (4096)
    MaxDelay,          \* cycles of one delay (MAX_PLAN_OFFSET_CYCLES)
    MaxPic, MaxXpic,   \* longest advance of a timed PIC and XPIC write
    BaseWriteCycles,   \* EXCHANGE_BASE_WRITE_CYCLES (13)
    Pipe,              \* events between the mux and the first word stored (52)
    Guard,             \* events kept after the last word (5)
    Budget,            \* validation budget of a phase
    Requests, Holds    \* offsets asked for, and cycles the memory may add to one

VARIABLES
    todo,     \* transfers of the job not yet appended
    strict,   \* validate_encoding of this pass
    tiles,    \* tile_states of the builder
    staged,   \* the trial of the last validated offset, or NoTrial
    budget,   \* validation_budget left
    base,     \* moving_base: the register each tile's outgoing base was written from
    log,      \* what was appended, and the timing append_transfer_at answered
    verdict   \* "open", "finished" or the error that ended the pass

vars == <<todo, strict, tiles, staged, budget, base, log, verdict>>

Neutral == -1
NoValue == -1
Least(a, b) == IF a < b THEN a ELSE b
Most(a, b) == IF a > b THEN a ELSE b
Positive(n) == Most(n, 0)
MostOf(S) == CHOOSE m \in S: \A n \in S: n <= m
LeastOf(S) == CHOOSE m \in S: \A n \in S: m <= n
Indices(n) == [i \in 1..n |-> i]
SuffixFrom(s, k) == SubSeq(s, k + 1, Len(s))
PartitionPoint(s, P(_)) == Cardinality({i \in DOMAIN s: P(s[i])})
Misaligned == "SENDPICP instruction alignment"

-----------------------------------------------------------------------------
\* Descriptions of a transfer

Event(cycles, kind, value) == [cycles |-> cycles, kind |-> kind, value |-> value]
IsXpic(k) == k \in {"OrdinarySource", "OrdinaryNeutral", "PairedSource", "PairedNeutral"}
IsPointer(k) == k \in {"Pointer", "PairedPointer"}
\* stable, as sort_by_key
SortEvents(s) == FoldLeft(LAMBDA acc, e: InsertAt(acc, PartitionPoint(acc, LAMBDA x: x.cycles <= e.cycles) + 1, e), <<>>, s)

SenderDescription(t, start) ==
    [message |-> t.message, at |-> t.address, words |-> t.words,
     start |-> start, end |-> start + t.words, horizon |-> start + t.words]

OrdinaryReceiver(to, count, source, sender) ==
    LET pointer == source + Pipe + RowPhase(to.tile)
        neutral == IF count < Pipe THEN source + count ELSE pointer + Positive(count - Pipe - 1) + 1
    IN  [tile |-> to.tile, mode |-> "Ordinary", address |-> to.address,
         source |-> source, formatStart |-> NoValue, formatEnd |-> NoValue, pointer |-> pointer,
         horizon |-> IF count < Pipe THEN pointer + count + Guard ELSE neutral + Pipe + Guard,
         events |-> SortEvents(<<Event(source, "OrdinarySource", sender), Event(neutral, "OrdinaryNeutral", Neutral),
                                 Event(pointer, "Pointer", to.address)>>)]

Multicast(t) ==
    LET start == Positive(-LeastOf({Mux(t.source, r.tile): r \in Range(t.receivers)}))
    IN  [sender |-> SenderDescription(t, start),
         receivers |-> [i \in DOMAIN t.receivers |->
            OrdinaryReceiver(t.receivers[i], t.words, start + Mux(t.source, t.receivers[i].tile) + 1, t.source)]]

PairedMux(s, r) == Most(Mux(s, r), Mux(s, Partner(r)))
IsEarly(r, s) == Mux(s, r) < Mux(s, Partner(r))
PairedReceiver(to, count, sender, shift) ==
    LET source == PairedMux(sender, to.tile) + shift
        format == source + (Pipe - 1) + RowPhase(to.tile)
        own == IF IsEarly(to.tile, sender)
                 THEN <<Event(source, "PairedSource", sender), Event(source + count, "PairedNeutral", Neutral)>> ELSE <<>>
        events == SortEvents(own \o <<Event(format, "Format", 1), Event(format + 2, "PairedPointer", to.address),
                                      Event(format + count, "Format", 0)>>)
    IN  [tile |-> to.tile, mode |-> "Paired64", address |-> to.address,
         source |-> IF own = <<>> THEN NoValue ELSE source,
         formatStart |-> format, formatEnd |-> format + count, pointer |-> format + 2,
         horizon |-> Last(events).cycles + Guard + 2, events |-> events]

\* paired_multicast rejects a receiver with two of its controls on one event
DistinctTimes(r) == \A i, j \in DOMAIN r.events: i # j => r.events[i].cycles # r.events[j].cycles
PairedMulticast(t) ==
    LET shift == Positive(1 - LeastOf({PairedMux(t.source, r.tile): r \in Range(t.receivers)}))
    IN  [sender |-> Multicast(t).sender,
         receivers |-> [i \in DOMAIN t.receivers |-> PairedReceiver(t.receivers[i], t.words, t.source, shift)]]

Plan(t) == IF t.paired THEN PairedMulticast(t) ELSE Multicast(t)
Reserved(t) == IF t.paired THEN {Partner(t.source)} ELSE {}

-----------------------------------------------------------------------------
\* Rows

RowWord(op, advance, at, controls) == [op |-> op, advance |-> advance, at |-> at, controls |-> controls]
EmptyRow == [words |-> <<>>, sends |-> <<>>, pointers |-> <<>>, bases |-> <<>>, checks |-> <<>>,
             cycles |-> 0, left |-> 0, sent |-> 0, started |-> FALSE, error |-> ""]
Fail(row, why) == [row EXCEPT !.error = why]
Then(row, step(_)) == IF row.error = "" THEN step(row) ELSE row
Push(row, word) == [row EXCEPT !.words = Append(@, word), !.cycles = @ + word.advance]
PointerSite(row, offset, events) ==
    IF \E i \in DOMAIN events: IsPointer(events[i].kind) THEN [row EXCEPT !.pointers = Append(@, offset)] ELSE row
SendSite(row, message) ==
    [row EXCEPT !.sends = Append(@, [word |-> Len(row.words), message |-> message, offset |-> row.sent])]

Control(e) == [xpic |-> IsXpic(e.kind), sel |-> e.kind \in {"Format", "PairedSource", "PairedNeutral"}, value |-> e.value]
Controls(group) == {Control(group[i]): i \in DOMAIN group}
IssueStart(e) == Positive(e.cycles - (IF e.kind = "OutgoingBase" THEN BaseWriteCycles ELSE 1))
GroupAt(events, i) == SelectSeq(events, LAMBDA x: x.cycles = events[i].cycles)
Chunks(n, most) == [i \in 1..((n + most - 1) \div most) |-> Least(most, n - (i - 1) * most)]

PlainDelay(row, target) ==
    IF target < row.cycles THEN Fail(row, "plan delay order")
    ELSE FoldLeft(LAMBDA r, c: Push(r, RowWord("DELAY", c, 0, {})), row, Chunks(target - row.cycles, MaxDelay))

\* the next word, a SENDPICP, has to stand at an even offset
AlignedDelay(row, target) ==
    LET distance == target - row.cycles
        fewest == (distance + MaxDelay - 1) \div MaxDelay
        count == fewest + ((Len(row.words) + fewest) % 2)
    IN  IF distance < 0 THEN Fail(row, "plan delay order")
        ELSE IF count > distance THEN Fail(row, Misaligned)
        ELSE FoldLeft(LAMBDA r, i: Push(r, RowWord("DELAY", Least(target - r.cycles - (count - i), MaxDelay), 0, {})),
                      row, Indices(count))

ReceiveGroup(row, group, next) ==
    LET e == group[1]
        longest == IF IsXpic(e.kind) THEN MaxXpic ELSE MaxPic
    IN  CASE e.kind = "OutgoingBase" ->
               Then(PlainDelay(row, e.cycles - BaseWriteCycles), LAMBDA r:
                 Push([r EXCEPT !.bases = Append(@, [word |-> Len(r.words), register |-> e.value])],
                      RowWord("PUT", BaseWriteCycles, e.value, {})))
          [] Len(group) = 2 ->
               Then(AlignedDelay(row, e.cycles - 1), LAMBDA r:
                 IF next <= r.cycles THEN Fail(r, "empty SENDPICP interval")
                 ELSE Push(Push(PointerSite(r, Len(r.words) + 1, group),
                                RowWord("SENDPICP", Least(next - r.cycles, MaxSend), NoValue, Controls(group))),
                           RowWord("INLINE", 0, 0, {})))
          [] OTHER ->
               IF e.cycles <= row.cycles THEN Fail(row, "receive control issue interval")
               ELSE Then(IF e.cycles - row.cycles > longest THEN PlainDelay(row, e.cycles - longest) ELSE row, LAMBDA r:
                 Push(PointerSite(r, Len(r.words), group), RowWord("TIMED", e.cycles - r.cycles, 0, Controls(group))))

\* append_receive_events_record, with the checkpoint it leaves after each group
ReceiveEvents(row, events, horizon, senders, before) ==
    LET one(r, i) ==
          IF r.error # "" \/ (i > 1 /\ events[i - 1].cycles = events[i].cycles) THEN r
          ELSE LET group == GroupAt(events, i)
                   end == i - 1 + Len(group)
                   next == IF end < Len(events) THEN IssueStart(events[end + 1]) ELSE horizon
               IN  Then(ReceiveGroup(r, group, next), LAMBDA x: [x EXCEPT !.checks = Append(@,
                      [senders |-> senders, events |-> before + end, words |-> Len(x.words), cycles |-> x.cycles,
                       lookahead |-> IF Len(group) = 2 THEN next ELSE NoValue])])
    IN  Then(FoldLeft(one, row, Indices(Len(events))), LAMBDA r: PlainDelay(r, horizon))

\* one word of a message, controls merged into it or not
SendWords(row, s, op, n, controls) ==
    LET sited == IF op \in {"SEND", "SENDPICP"} THEN SendSite(row, s.message) ELSE row
    IN  [Push(sited, RowWord(op, n, IF op \in {"SEND", "SENDPICP"} THEN s.at + row.sent ELSE NoValue, controls))
         EXCEPT !.left = @ - n, !.sent = @ + n, !.started = TRUE]

\* emit_sender_words: an even or odd number of words, so that a pair comes out aligned
SplitForParity(chunks, odd) ==
    LET wide == {i \in DOMAIN chunks: chunks[i] >= 2}
    IN  IF ~odd THEN chunks
        ELSE IF wide = {} THEN <<>>
        ELSE LET i == MostOf(wide) IN SubSeq(chunks, 1, i - 1) \o <<1, chunks[i] - 1>> \o SuffixFrom(chunks, i)
EmitSenderWords(row, s, count, paired) ==
    LET first == Least(count, IF row.started THEN MaxSendOff ELSE MaxSend)
        plain == <<first>> \o Chunks(count - first, MaxSendOff)
        chunks == SplitForParity(plain, paired /\ (Len(row.words) + Len(plain)) % 2 = 1)
    IN  IF count > row.left THEN Fail(row, "sender payload overflow")
        ELSE IF count = 0 THEN
            IF ~row.started THEN Fail(row, "unencodable initial send control")
            ELSE IF paired /\ Len(row.words) % 2 = 1 THEN Fail(row, Misaligned) ELSE row
        ELSE IF chunks = <<>> THEN Fail(row, Misaligned)
        ELSE FoldLeft(LAMBDA r, c: SendWords(r, s, IF r.started THEN "SENDOFF" ELSE "SEND", c, {}), row, chunks)

SenderControl(row, s, controls, i) ==
    LET group == GroupAt(controls, i)
        end == i - 1 + Len(group)
        distance == group[1].cycles - 1 - row.cycles
        next == IF end < Len(controls) THEN IssueStart(controls[end + 1]) ELSE s.end
        nextIsPair == end + 2 <= Len(controls) /\ controls[end + 1].cycles = controls[end + 2].cycles
    IN  IF distance < 0 THEN Fail(row, "send control order")
        ELSE IF distance >= row.left THEN Fail(row, "send control beyond payload")
        ELSE Then(EmitSenderWords(row, s, distance, Len(group) = 2), LAMBDA r:
          LET available == next - r.cycles
              kept == IF nextIsPair /\ (Len(r.words) + Len(group)) % 2 = 1 /\ available > 1 THEN available - 1 ELSE available
              n == Least(Least(kept, MaxSend), r.left)
          IN  IF n <= 0 THEN Fail(r, "empty receive-control continuation")
              ELSE IF Len(group) = 2 THEN
                Push(SendWords(PointerSite(r, Len(r.words) + 1, group), s, "SENDPICP", n, Controls(group)), RowWord("INLINE", 0, 0, {}))
              ELSE IF group[1].kind = "OutgoingBase" THEN Fail(r, "base switch inside send")
              ELSE SendWords(PointerSite(r, Len(r.words), group), s, "SENDPIC", n, Controls(group)))

SenderMessage(row, s, controls) ==
    LET one(r, i) ==
          IF r.error # "" \/ (i > 1 /\ controls[i - 1].cycles = controls[i].cycles) THEN r ELSE SenderControl(r, s, controls, i)
        controlled == Then(PlainDelay(row, s.start), LAMBDA r:
          FoldLeft(one, [r EXCEPT !.left = s.words, !.sent = 0, !.started = FALSE], Indices(Len(controls))))
    IN  Then(controlled, LAMBDA r:
          LET begun == IF r.started THEN r ELSE SendWords(r, s, "SEND", Least(r.left, MaxSend), {})
              done == FoldLeft(LAMBDA x, c: SendWords(x, s, "SENDOFF", c, {}), begun, Chunks(begun.left, MaxSendOff))
          IN  IF done.cycles = s.end THEN done ELSE Fail(done, "sender payload horizon"))

CanShare(a, b) ==
    /\ a.cycles = b.cycles
    /\ \E p \in {<<a, b>>, <<b, a>>}: p[1].kind = "Pointer" /\ p[2].kind \in {"OrdinarySource", "OrdinaryNeutral"}
ValidEvents(events) ==
    \A i \in DOMAIN events:
        LET group == GroupAt(events, i) IN Len(group) = 1 \/ (Len(group) = 2 /\ CanShare(group[1], group[2]))

-----------------------------------------------------------------------------
\* The encoder, and the prefix it resumes from

NotEncoded == [EmptyRow EXCEPT !.error = "not encoded"]
Start == [senders |-> 0, events |-> 0, words |-> 0, cycles |-> 0, lookahead |-> NoValue]

\* a bug: the interval a pair may fill is not compared
ReusableWhateverFollows(c, senders, events, horizon) ==
    LET senderStart == IF c.senders < Len(senders) THEN senders[c.senders + 1].start ELSE horizon
    IN  /\ c.cycles <= senderStart
        /\ c.events < Len(events) => events[c.events + 1].cycles > c.cycles
        /\ c.events \in 1..Len(events) => events[c.events].cycles < senderStart
Reusable(c, senders, events, horizon) ==
    LET senderStart == IF c.senders < Len(senders) THEN senders[c.senders + 1].start ELSE horizon
        more == c.events < Len(events)
        next == IF more /\ events[c.events + 1].cycles < senderStart THEN IssueStart(events[c.events + 1]) ELSE senderStart
    IN  /\ c.cycles <= senderStart
        /\ more => events[c.events + 1].cycles > c.cycles
        /\ c.events \in 1..Len(events) => events[c.events].cycles < senderStart
        /\ c.lookahead # NoValue => c.lookahead = next

Truncated(row, words) ==
    [row EXCEPT !.words = SubSeq(@, 1, words), !.sends = SelectSeq(@, LAMBDA s: s.word < words),
                !.pointers = SelectSeq(@, LAMBDA p: p < words), !.bases = SelectSeq(@, LAMBDA s: s.word < words)]

\* build_scheduled_program; prefix is NotEncoded when there is none
BuildScheduledProgram(senders, events, horizon, prefix, sameSenders, sameEvents) ==
    LET edge == IF prefix = NotEncoded THEN 0 ELSE Least(sameEvents, Len(events))
        changed == IF edge = Len(events) THEN edge
                   ELSE PartitionPoint(events, LAMBDA e: e.cycles < events[edge + 1].cycles)
        resumable == IF prefix = NotEncoded THEN {}
                     ELSE {i \in DOMAIN prefix.checks:
                             LET c == prefix.checks[i] IN
                             c.senders <= sameSenders /\ c.events <= sameEvents /\ Reusable(c, senders, events, horizon)}
        resume == IF resumable = {} THEN Start ELSE prefix.checks[MostOf(resumable)]
        begun == IF resumable = {} THEN EmptyRow
                 ELSE [Truncated(prefix, resume.words) EXCEPT
                         !.checks = SubSeq(@, 1, MostOf(resumable)), !.cycles = resume.cycles]
        gap(row, i, from) ==
            LET last == i = Len(senders)
                boundary == IF last THEN horizon ELSE senders[i + 1].start
                split == IF last THEN Len(events) ELSE PartitionPoint(events, LAMBDA e: e.cycles <= boundary)
            IN  [row |-> ReceiveEvents(row, SubSeq(events, from + 1, split), boundary, i, from), events |-> split]
        message(at, i) ==
            LET split == PartitionPoint(events, LAMBDA e: e.cycles <= senders[i + 1].end)
            IN  [row |-> Then(Then(at.row, LAMBDA r: SenderMessage(r, senders[i + 1], SubSeq(events, at.events + 1, split))),
                              LAMBDA r: [r EXCEPT !.checks = Append(@,
                                  [senders |-> i + 1, events |-> split, words |-> Len(r.words), cycles |-> r.cycles, lookahead |-> NoValue])]),
                 events |-> split]
        \* everything up to the message with index n
        upTo[n \in resume.senders..Len(senders)] ==
            IF n = resume.senders THEN [row |-> begun, events |-> resume.events]
            ELSE message(gap(upTo[n - 1].row, n - 1, upTo[n - 1].events), n - 1)
        ended(at) == Then(at.row, LAMBDA r: gap(r, Len(senders), at.events).row)
    IN  IF ~ValidEvents(SuffixFrom(events, changed)) THEN Fail(EmptyRow, "incompatible simultaneous receive controls")
        ELSE Then(ended(upTo[Len(senders)]),
                  LAMBDA r: [Push(r, RowWord("RETURN", 0, 0, {})) EXCEPT !.left = 0, !.sent = 0, !.started = FALSE])

NoStream == [mode |-> "none", format |-> NoValue, formatEnd |-> NoValue, sourceEnd |-> 0, pointerEnd |-> 0, next |-> NoValue]
EmptySchedule ==
    [senders |-> <<>>, reserved |-> 0, switches |-> <<>>, events |-> <<>>, cycles |-> 0, stream |-> NoStream,
     encoded |-> NotEncoded, prefix |-> NotEncoded, dirtySenders |-> 0, dirtyEvents |-> 0]

FromScratch(s) == BuildScheduledProgram(s.senders, s.events, s.cycles, NotEncoded, 0, 0)
EncodedOf(s) ==
    IF s.encoded # NotEncoded THEN s.encoded
    ELSE BuildScheduledProgram(s.senders, s.events, s.cycles, s.prefix, s.dirtySenders, s.dirtyEvents)
\* encoded() keeps a success in the schedule it was asked of
Keep(s, row, failed) == IF row.error = "" THEN [s EXCEPT !.encoded = row] ELSE failed
Warm(s) == Keep(s, EncodedOf(s), s)
Invalidated(s) ==
    IF s.encoded = NotEncoded THEN s
    ELSE [s EXCEPT !.encoded = NotEncoded, !.prefix = s.encoded, !.dirtySenders = Len(s.senders), !.dirtyEvents = Len(s.events)]

-----------------------------------------------------------------------------
\* The schedule of a tile

PairedFormat(r) == IF r.mode = "Paired64" THEN 1 ELSE NoValue
SourceStart(r) == IF r.source # NoValue THEN r.source ELSE r.formatStart

\* scheduled_receive_window
ReceiveWindow(r, offset, words, stream) ==
    LET sourceEnd == SourceStart(r) + offset + words
        payloadEnd == r.pointer + offset + words
        continues == r.mode = "Paired64" /\ stream.format = PairedFormat(r) /\ stream.formatEnd = r.formatStart + offset
        carries == r.mode = "Ordinary" /\ stream.mode = "Ordinary" /\ stream.next = r.address
        kept(e) == /\ ~(e.kind = "Pointer" /\ carries)
                   /\ ~(e.kind = "Format" /\ continues /\ e.cycles = r.formatStart)
        placed(e) == [e EXCEPT !.cycles = IF e.kind = "OrdinaryNeutral" THEN sourceEnd ELSE e.cycles + offset]
        wanted == SelectSeq(r.events, kept)
        latest == Most(sourceEnd, payloadEnd)
    IN  [continues |-> continues, sourceStart |-> SourceStart(r) + offset, sourceEnd |-> sourceEnd,
         start |-> r.pointer + offset, end |-> payloadEnd, horizon |-> latest + Positive(r.horizon + offset - latest),
         events |-> SortEvents([i \in DOMAIN wanted |-> placed(wanted[i])])]

Replaces(e, r, window, stream) ==
    \/ window.continues /\ e.kind = "Format" /\ e.cycles = stream.formatEnd
    \/ /\ window.sourceStart = stream.sourceEnd
       /\ e.cycles = stream.sourceEnd
       /\ \/ stream.mode = "Ordinary" /\ r.mode = "Ordinary" /\ e.kind = "OrdinaryNeutral"
          \/ stream.mode = "Paired64" /\ r.mode = "Paired64" /\ e.kind = "PairedNeutral" /\ window.continues

LastSwitch(s) == IF s.switches = <<>> THEN 0 ELSE Last(s.switches)
ControlAtSendStart(s, start) ==
    \E i \in DOMAIN s.events: s.events[i].cycles \in {start, start + 1} /\ s.events[i].kind # "OutgoingBase"

RECURSIVE SenderOffset(_, _, _)
SenderOffset(s, d, offset) ==
    LET start == d.start + offset
        busy == {i \in DOMAIN s.senders: s.senders[i].end > start /\ s.senders[i].start < d.end + offset}
    IN  IF busy # {} THEN SenderOffset(s, d, s.senders[LeastOf(busy)].end - d.start)
        ELSE IF ControlAtSendStart(s, start) THEN SenderOffset(s, d, offset + 1)
        ELSE offset
EarliestSenderOffset(s, d, requested) ==
    SenderOffset(s, d, Most(requested, Positive(Most(s.reserved, LastSwitch(s)) - d.start)))

SenderBoundary(s, e) ==
    LET i == PartitionPoint(s.senders, LAMBDA x: x.start < e.cycles - 1) + 1
    IN  i <= Len(s.senders) /\ e.cycles \in {s.senders[i].start, s.senders[i].start + 1}
Collides(s, r, window, e) ==
    \E i \in DOMAIN s.events:
        /\ s.events[i].cycles = e.cycles
        /\ ~Replaces(s.events[i], r, window, s.stream)
        /\ ~CanShare(e, s.events[i])
RECURSIVE ReceiverOffset(_, _, _, _)
ReceiverOffset(s, r, words, offset) ==
    LET window == ReceiveWindow(r, offset, words, s.stream)
        inSwitch == {s.switches[k] + 1 - window.events[i].cycles:
                       <<k, i>> \in {p \in (DOMAIN s.switches) \X (DOMAIN window.events):
                           window.events[p[2]].cycles \in (s.switches[p[1]] - BaseWriteCycles + 1)..s.switches[p[1]]}}
    IN  IF inSwitch # {} THEN ReceiverOffset(s, r, words, offset + MostOf(inSwitch))
        ELSE IF \E i \in DOMAIN window.events: Collides(s, r, window, window.events[i]) \/ SenderBoundary(s, window.events[i])
          THEN ReceiverOffset(s, r, words, offset + 1)
        ELSE offset
EarliestReceiverOffset(s, r, words, requested) ==
    LET behind == {s.stream.sourceEnd - SourceStart(r), s.stream.pointerEnd - r.pointer}
                  \cup (IF s.stream.mode = "Ordinary" /\ r.formatStart # NoValue THEN {s.stream.pointerEnd - r.formatStart} ELSE {})
    IN  ReceiverOffset(s, r, words, IF s.stream = NoStream THEN requested ELSE MostOf(behind \cup {requested}))

Failed(why) == [EmptySchedule EXCEPT !.encoded = Fail(EmptyRow, why)]
ErrorOf(s) == IF s.encoded = NotEncoded THEN "" ELSE s.encoded.error

AppendSender(s, d, offset) ==
    LET new == [d EXCEPT !.start = @ + offset, !.end = @ + offset, !.horizon = @ + offset]
        at == PartitionPoint(s.senders, LAMBDA x: x.start < new.start)
        crowded == (at > 0 /\ s.senders[at].end > new.start) \/ (at < Len(s.senders) /\ s.senders[at + 1].start < new.end)
        open == Invalidated(s)
    IN  IF new.start < LastSwitch(s) THEN Failed("send crosses outgoing base transition")
        ELSE IF crowded THEN Failed("overlapping outgoing messages")
        ELSE IF ControlAtSendStart(s, new.start) THEN Failed("unencodable initial send control")
        ELSE [open EXCEPT !.dirtySenders = Least(@, at), !.cycles = Most(@, new.horizon), !.senders = InsertAt(@, at + 1, new)]

InsertEvent(s, e) ==
    LET at == PartitionPoint(s.events, LAMBDA x: x.cycles <= e.cycles)
    IN  [s EXCEPT !.dirtyEvents = Least(@, at), !.events = InsertAt(@, at + 1, e)]
AppendReceiver(s, r, offset, words) ==
    LET window == ReceiveWindow(r, offset, words, s.stream)
        open == Invalidated(s)
        replaced == {i \in DOMAIN s.events: s.stream # NoStream /\ Replaces(s.events[i], r, window, s.stream)}
        cut == [open EXCEPT !.events = SelectSeq(@, LAMBDA e: ~(s.stream # NoStream /\ Replaces(e, r, window, s.stream))),
                            !.dirtyEvents = IF replaced = {} THEN @ ELSE Least(@, LeastOf(replaced) - 1)]
        grown == FoldLeft(InsertEvent, cut, window.events)
    IN  IF s.stream # NoStream /\ (window.sourceStart < s.stream.sourceEnd \/ window.start < s.stream.pointerEnd)
          THEN Failed("overlapping receive streams")
        ELSE [grown EXCEPT !.cycles = Most(@, window.horizon),
                !.stream = [mode |-> r.mode, format |-> PairedFormat(r),
                            formatEnd |-> IF r.formatEnd = NoValue THEN NoValue ELSE r.formatEnd + offset,
                            sourceEnd |-> window.sourceEnd, pointerEnd |-> window.end,
                            next |-> r.address + (IF r.mode = "Ordinary" THEN words ELSE 2 * words)]]

-----------------------------------------------------------------------------
\* The builder

NoTrial == [message |-> NoValue, offset |-> 0, updates |-> <<>>]
Builder(ts, trial, left) == [tiles |-> ts, staged |-> trial, budget |-> left, error |-> ""]
Broken(b, why) == [b EXCEPT !.error = why]
Receivers(t) == [i \in DOMAIN t.receivers |-> t.receivers[i].tile]
Endpoints(t) == {t.source} \cup Range(Receivers(t))
Matches(trial, t, offset) == trial.message = t.message /\ trial.offset = offset

KeepOrFail(s, row) == Keep(s, row, Failed(row.error))
Checked(s, validate) == IF ~validate \/ ErrorOf(s) # "" THEN s ELSE KeepOrFail(s, EncodedOf(s))

\* prepare_transfer_at: the endpoints' schedules with the transfer in them
Updated(acc, tile, s) == IF ErrorOf(s) # "" THEN [acc EXCEPT !.error = ErrorOf(s)] ELSE [acc EXCEPT !.updates[tile] = s]
Warmed(ts, tile, validate) == IF validate THEN [ts EXCEPT ![tile] = Warm(@)] ELSE ts
PrepareSender(ts, t, offset, validate) ==
    Updated([tiles |-> ts, updates |-> ts, error |-> ""], t.source,
            Checked(AppendSender(ts[t.source], Plan(t).sender, offset), validate))
Received(acc, t, r, offset, validate) ==
    Updated(acc, r.tile, Checked(AppendReceiver(acc.updates[r.tile], r, offset, t.words), validate))
Seen(acc, tile, ts) == [acc EXCEPT !.tiles = ts, !.updates[tile] = ts[tile]]
\* a sender that receives as well receives on top of its own update
PrepareReceiver(acc, t, r, offset, validate) ==
    IF acc.error # "" THEN acc
    ELSE Received(IF r.tile = t.source THEN acc ELSE Seen(acc, r.tile, Warmed(acc.tiles, r.tile, validate)), t, r, offset, validate)
Prepare(ts, t, offset, validate) ==
    FoldLeft(LAMBDA acc, r: PrepareReceiver(acc, t, r, offset, validate),
             PrepareSender(Warmed(ts, t.source, validate), t, offset, validate), Plan(t).receivers)

TrialWork(ts, t) ==
    LET one(tile) == 1 + Len(ts[tile].senders) + Len(ts[tile].events)
    IN  FoldLeft(LAMBDA n, tile: n + one(tile), one(t.source), Receivers(t))
Tried(b, t, offset, made) ==
    [tiles |-> made.tiles, budget |-> b.budget - TrialWork(b.tiles, t), error |-> made.error,
     staged |-> IF made.error # "" THEN NoTrial ELSE [message |-> t.message, offset |-> offset, updates |-> made.updates]]
Trial(b, t, offset) ==
    IF Matches(b.staged, t, offset) THEN b
    ELSE IF TrialWork(b.tiles, t) > b.budget THEN Broken(b, "budget")
    ELSE Tried(b, t, offset, Prepare(b.tiles, t, offset, TRUE))

LaneFree(s) == IF s.senders = <<>> THEN s.reserved ELSE Most(Last(s.senders).end, s.reserved)
\* one round over the endpoints
Advanced(ts, t, offset) ==
    LET plan == Plan(t)
        sent == EarliestSenderOffset(ts[t.source], plan.sender, offset)
        lanes == MostOf({sent} \cup {LaneFree(ts[r]): r \in Reserved(t)})
    IN  FoldLeft(LAMBDA o, r: EarliestReceiverOffset(ts[r.tile], r, t.words, o), lanes, plan.receivers)

RECURSIVE EarliestTransferOffset(_, _, _, _)
\* a pair that comes out misaligned is tried one event later
SettledOn(trial, t, offset, validate) ==
    IF trial.error = Misaligned THEN EarliestTransferOffset([trial EXCEPT !.error = ""], t, offset + 1, validate)
    ELSE [b |-> trial, offset |-> offset]
NextRound(b, t, requested, offset, validate) ==
    IF offset # requested THEN EarliestTransferOffset(b, t, offset, validate)
    ELSE IF ~validate THEN [b |-> b, offset |-> offset]
    ELSE SettledOn(Trial(b, t, offset), t, offset, validate)
EarliestTransferOffset(b, t, requested, validate) ==
    NextRound(b, t, requested, Advanced(b.tiles, t, requested), validate)

\* a bug: a borrowed lane only counts towards the tile's horizon
ReserveNothing(s, horizon) == [Invalidated(s) EXCEPT !.cycles = Most(@, horizon)]
ReservedUntil(s, horizon) == [Invalidated(s) EXCEPT !.reserved = Most(@, horizon), !.cycles = Most(@, horizon)]
Appended(b, t, made, horizon) ==
    LET updated(x) == IF x \in Endpoints(t) THEN made.updates[x] ELSE b.tiles[x]
    IN  IF made.error # "" THEN [b EXCEPT !.staged = NoTrial, !.error = made.error]
        ELSE [b EXCEPT !.staged = NoTrial,
                !.tiles = [x \in Tiles |-> IF x \in Reserved(t) THEN ReservedUntil(updated(x), horizon) ELSE updated(x)]]
AppendTransferAt(b, t, offset) ==
    Appended(b, t, IF Matches(b.staged, t, offset) THEN [updates |-> b.staged.updates, error |-> ""]
                   ELSE Prepare(b.tiles, t, offset, FALSE),
             Plan(t).sender.horizon + offset)

RECURSIVE SwitchedAt(_, _, _, _)
SwitchedOr(s, register, start, index, candidate, row) ==
    IF row.error = Misaligned THEN SwitchedAt(s, register, start + 1, index) ELSE KeepOrFail(candidate, row)
SwitchedAt(s, register, start, index) ==
    LET end == start + BaseWriteCycles
        open == Invalidated(s)
        candidate == [open EXCEPT !.dirtyEvents = Least(@, index), !.cycles = Most(@, end), !.switches = Append(@, end),
                                  !.events = InsertAt(@, index + 1, Event(end, "OutgoingBase", register))]
    IN  IF index < Len(s.events) /\ s.events[index + 1].cycles <= end
          THEN SwitchedAt(s, register, s.events[index + 1].cycles, index + 1)
        ELSE SwitchedOr(s, register, start, index, candidate, EncodedOf(candidate))
SwitchedFrom(s, register, row) ==
    LET start == Most(IF s.senders = <<>> THEN 0 ELSE Last(s.senders).end, LastSwitch(s))
    IN  IF row.error # "" THEN Failed(row.error)
        ELSE SwitchedAt([s EXCEPT !.encoded = row], register, start, PartitionPoint(s.events, LAMBDA e: e.cycles <= start))
StoredRow(b, tile, s) ==
    IF ErrorOf(s) # "" THEN [b EXCEPT !.staged = NoTrial, !.error = ErrorOf(s)]
    ELSE [b EXCEPT !.staged = NoTrial, !.tiles[tile] = s]
SwitchOutgoingBase(b, tile, register) ==
    StoredRow(b, tile, SwitchedFrom(b.tiles[tile], register, EncodedOf(b.tiles[tile])))

-----------------------------------------------------------------------------
\* The decoder: diagnose_plan_program and validate_tile_program

DecodedRow(words) ==
    FoldLeft(LAMBDA d, w:
        LET end == d.cycle + w.advance
            sends == w.op \in {"SEND", "SENDOFF", "SENDPIC"} \/ (w.op = "SENDPICP" /\ w.at # NoValue)
            first == IF w.at = NoValue THEN d.item ELSE w.at
        IN  [cycle |-> end,
             item |-> IF sends THEN first + w.advance ELSE d.item,
             controls |-> d.controls \cup {<<IF w.op = "TIMED" THEN end ELSE d.cycle + 1, c>>: c \in w.controls},
             sends |-> IF sends THEN Append(d.sends, [start |-> d.cycle, end |-> end, item |-> first]) ELSE d.sends,
             bases |-> IF w.op = "PUT" THEN Append(d.bases, <<end, w.at>>) ELSE d.bases],
        [cycle |-> 0, item |-> NoValue, controls |-> {}, sends |-> <<>>, bases |-> <<>>], words)

Touching(d, s) == SelectSeq(d.sends, LAMBDA x: x.start < s.end /\ s.start < x.end)
Contiguous(xs, s) ==
    /\ xs # <<>> /\ xs[1].start = s.start /\ Last(xs).end = s.end
    /\ \A i \in 2..Len(xs): xs[i].start = xs[i - 1].end
Bases(s) == LET only == SelectSeq(s.events, LAMBDA e: e.kind = "OutgoingBase")
            IN  [i \in DOMAIN only |-> <<only[i].cycles, only[i].value>>]
ValidTileProgram(s, words) ==
    LET d == DecodedRow(words) IN
    /\ d.cycle = s.cycles
    /\ d.bases = Bases(s)
    /\ d.controls = {<<e.cycles, Control(e)>>: e \in {x \in Range(s.events): x.kind # "OutgoingBase"}}
    /\ \A m \in Range(s.senders): Contiguous(Touching(d, m), m)
    /\ \A x \in Range(d.sends): \E m \in Range(s.senders): m.start <= x.start /\ x.end <= m.end

-----------------------------------------------------------------------------
\* A pass over the transfers of a phase

Registers(job) == [tile \in Tiles |-> IF \E t \in Range(job): t.source = tile /\ t.register = 6 THEN 6 ELSE 15]
Init ==
    \E job \in Jobs:
        /\ todo = Range(job)
        /\ strict \in BOOLEAN
        /\ tiles = [x \in Tiles |-> EmptySchedule]
        /\ staged = NoTrial /\ budget = Budget
        /\ base = Registers(job)
        /\ log = <<>> /\ verdict = "open"

\* MaterializedSchedule::append: the base, an offset, the memory's objection (held), the transfer
Based(b, t) == IF base[t.source] = t.register THEN b ELSE SwitchOutgoingBase(b, t.source, t.register)
Found(b, t, requested) ==
    IF b.error # "" THEN [b |-> b, offset |-> requested] ELSE EarliestTransferOffset(b, t, requested, strict)
Settled(at, t, held) == IF held = 0 \/ at.b.error # "" THEN at ELSE EarliestTransferOffset(at.b, t, at.offset + held, strict)
AppendSettled(at, t) == IF at.b.error # "" THEN at ELSE [at EXCEPT !.b = AppendTransferAt(at.b, t, at.offset)]
AppendTransfer(t, requested, held) ==
    /\ verdict = "open" /\ t \in todo
    /\ \E switched \in {Based(Builder(tiles, staged, budget), t)}:
       \E answer \in {AppendSettled(Settled(Found(switched, t, requested), t, held), t)}:
        /\ base' = IF switched.error = "" THEN [base EXCEPT ![t.source] = t.register] ELSE base
        /\ tiles' = answer.b.tiles /\ staged' = answer.b.staged /\ budget' = answer.b.budget
        /\ IF answer.b.error = ""
             THEN /\ todo' = todo \ {t} /\ verdict' = verdict
                  /\ log' = Append(log, [transfer |-> t, offset |-> answer.offset])
             ELSE verdict' = answer.b.error /\ UNCHANGED <<todo, log>>
    /\ UNCHANGED strict

Finish ==
    LET active == {x \in Tiles: tiles[x].cycles # 0}
    IN  /\ verdict = "open" /\ todo = {}
        /\ \E rows \in {[x \in active |-> EncodedOf(tiles[x])]}:
           LET failing == {x \in active: rows[x].error # ""} IN
            /\ tiles' = [x \in Tiles |-> IF x \in active THEN Keep(tiles[x], rows[x], tiles[x]) ELSE tiles[x]]
            /\ verdict' = IF failing # {} THEN rows[CHOOSE x \in failing: TRUE].error
                          ELSE IF \E x \in active: ~ValidTileProgram(tiles[x], rows[x].words) THEN "rejected"
                          ELSE "finished"
        /\ UNCHANGED <<todo, strict, staged, budget, base, log>>

Next == (\E t \in todo, requested \in Requests, held \in Holds: AppendTransfer(t, requested, held)) \/ Finish
Spec == Init /\ [][Next]_vars

-----------------------------------------------------------------------------
\* Properties

SameRow(a, b) == a.error = b.error /\ (a.error = "" => [a EXCEPT !.checks = <<>>] = [b EXCEPT !.checks = <<>>])
ItemsInOrder(s, d) == \A m \in Range(s.senders): \A x \in Range(Touching(d, m)): x.item = m.at + (x.start - m.start)
SitesNameTheirWords(s, row) ==
    LET at(i) == row.words[i + 1] IN
    /\ {x.word + 1: x \in Range(row.sends)} = {i \in DOMAIN row.words: row.words[i].op \in {"SEND", "SENDPICP"} /\ row.words[i].at # NoValue}
    /\ \A x \in Range(row.sends): \E m \in Range(s.senders): m.message = x.message /\ at(x.word).at = m.at + x.offset
    /\ \A i \in DOMAIN row.words: row.words[i].op = "SENDPICP" => i % 2 = 1
    /\ \A x \in Range(row.bases): at(x.word).op = "PUT" /\ at(x.word).at = x.register
    /\ Cardinality(Range(row.pointers)) = Cardinality({i \in DOMAIN s.events: IsPointer(s.events[i].kind)})

(***************************************************************************)
(* A tile's row, whether encoded at once or resumed from a kept prefix of  *)
(* an older row, is the row a full encoding gives; run as the hardware     *)
(* runs it, it puts every word of every message and every control on its   *)
(* event; and its relocation sites are exactly its address fields.         *)
(***************************************************************************)
RowsRunTheSchedule ==
    \A x \in DOMAIN tiles: \A row \in {EncodedOf(tiles[x])}:
        /\ SameRow(row, FromScratch(tiles[x]))
        /\ row.error = "" => /\ ValidTileProgram(tiles[x], row.words)
                             /\ ItemsInOrder(tiles[x], DecodedRow(row.words))
                             /\ SitesNameTheirWords(tiles[x], row)

Receptions(x) == {r \in UNION {{[entry |-> log[i], base |-> Plan(log[i].transfer).receivers[j]]:
                                  j \in DOMAIN log[i].transfer.receivers}: i \in DOMAIN log}: r.base.tile = x}
SourceFrom(r) == SourceStart(r.base) + r.entry.offset
StoredFrom(r) == r.base.pointer + r.entry.offset
WordsOf(r) == r.entry.transfer.words
Step(r) == IF r.base.mode = "Ordinary" THEN 1 ELSE 2
LatestOf(x, kinds, cycle, default) ==
    LET before == {e \in Range(tiles[x].events): e.kind \in kinds /\ e.cycles <= cycle}
    IN  IF before = {} THEN Event(0, "none", default) ELSE CHOOSE e \in before: \A f \in before: f.cycles <= e.cycles
MuxAt(x, cycle) == LatestOf(x, {"OrdinarySource", "OrdinaryNeutral", "PairedSource", "PairedNeutral"}, cycle, Neutral).value
FormatAt(x, cycle) == LatestOf(x, {"Format"}, cycle, 0).value
\* items stored on x from a pointer write up to a cycle
StoredBetween(x, from, to) ==
    FoldSet(LAMBDA r, n: n + Step(r) * Positive(Least(to, StoredFrom(r) + WordsOf(r)) - Most(from, StoredFrom(r))), 0, Receptions(x))
AddressAt(x, cycle) ==
    LET p == LatestOf(x, {"Pointer", "PairedPointer"}, cycle, NoValue) IN p.value + StoredBetween(x, p.cycles, cycle)

HearsItsSource(x, r) ==
    r.base.source # NoValue => \A c \in SourceFrom(r)..(SourceFrom(r) + WordsOf(r) - 1): MuxAt(x, c) = r.entry.transfer.source
StoresInPlace(x, r) == \A k \in 0..(WordsOf(r) - 1):
    /\ AddressAt(x, StoredFrom(r) + k) = r.base.address + k * Step(r)
    /\ IF r.base.mode = "Ordinary" THEN FormatAt(x, StoredFrom(r) + k) = 0 ELSE FormatAt(x, StoredFrom(r) + k - 2) = 1
HearsNothingElse(x) == \A c \in 0..tiles[x].cycles:
    MuxAt(x, c) # Neutral => \E r \in Receptions(x): c \in SourceFrom(r)..(SourceFrom(r) + WordsOf(r) - 1)

ReceptionsArrive ==
    \A x \in DOMAIN tiles: HearsNothingElse(x) /\ \A r \in Receptions(x): HearsItsSource(x, r) /\ StoresInPlace(x, r)

SendOf(entry) == [start |-> Plan(entry.transfer).sender.start + entry.offset, end |-> Plan(entry.transfer).sender.end + entry.offset]
BaseAt(x, cycle, initial) == LatestOf(x, {"OutgoingBase"}, cycle, initial).value
InitialBase(x) == IF \E t \in todo \cup {log[i].transfer: i \in DOMAIN log}: t.source = x /\ t.register = 6 THEN 6 ELSE 15

\* no two messages overlap on a sender, nor on the partner whose lane a paired one
\* borrows; and a message leaves under the outgoing base it was planned with
LanesAreExclusive ==
    /\ \A i, j \in DOMAIN log: i # j /\ log[j].transfer.source \in {log[i].transfer.source} \cup Reserved(log[i].transfer) =>
          LET a == SendOf(log[i]) b == SendOf(log[j]) IN a.end <= b.start \/ b.end <= a.start
    /\ \A i \in DOMAIN log: LET a == SendOf(log[i]) t == log[i].transfer IN
          \A c \in a.start..a.end: BaseAt(t.source, c, InitialBase(t.source)) = t.register

(***************************************************************************)
(* Whatever was merged, dropped or moved among a tile's controls to fit a  *)
(* later transfer, each transfer appended arrives: its words leave one at  *)
(* a time under the base they were planned with; each receiver's mux is on *)
(* the source for exactly those words, its pointer stands at each word's   *)
(* address when it is stored, and the double-width format is on for the    *)
(* words of paired transfers only.                                         *)
(***************************************************************************)
TransfersArrive == ReceptionsArrive /\ LanesAreExclusive
===============================================================================
