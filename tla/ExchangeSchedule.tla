--------------------------- MODULE ExchangeSchedule ---------------------------
(***************************************************************************)
(* The schedule of one exchange phase (crates/ipu-codegen/src/exchange).   *)
(*                                                                         *)
(* A phase is a list of logical exchanges.  Each is cut into transfers (a  *)
(* source, an address for every iteration of a Repeat, receivers with an   *)
(* address each), neighbours are coalesced, and a policy finds an order    *)
(* and, through the row builder, an offset for each: greedily with later   *)
(* repairs, or in address-ordered streams.  The choice is cached; after    *)
(* the next placement it is replayed at the new addresses if it still fits.*)
(*                                                                         *)
(* Addresses and lengths are counted in words.  The row builder is         *)
(* modelled by the occupancy of lanes; of the encoding, by the one error   *)
(* the scheduler treats as an answer (a misaligned SENDPICP).  Priorities  *)
(* of the greedy queue are the code's; the orders repair and balanced      *)
(* streams prefer are any of those their queues could produce.             *)
(***************************************************************************)
EXTENDS Integers, Sequences, FiniteSetsExt, SequencesExt

CONSTANTS
    Tiles,              \* logical tiles, 0..n-1
    Jobs,               \* sets of placements of one program: sequences of phases
    Policies,           \* words of a stream, 0 for the ordinary policy
    Latency(_, _),      \* cycles from a tile's send to another's receive
    Partner(_),         \* the tile whose transmit lane a paired send borrows
    SelfConflict(_),    \* item counts whose own receive meets the send's start
    MaxTransferWords,   \* longest message
    ElementWords,       \* words of a memory element
    SwitchCycles,       \* cycles an outgoing-base write occupies
    SendTail,           \* cycles a send still reads after its last word
    ReceiveTail         \* cycles a receive still writes after its last word

NoTile == -1

VARIABLES
    job,       \* the placements to compile, one after the other
    words,     \* the policy
    jobRound,  \* the placement being compiled
    stage,     \* where select_phase stands
    ordinary,  \* the transfers of the phase, unpaired
    pending,   \* the transfers of the candidate being scheduled
    sched,     \* its MaterializedSchedule
    queue,     \* its TransferScheduler, or an order being built
    strict,    \* validate_encoding
    best,      \* the candidate kept so far, or NoResult
    cache,     \* the ScheduleRecipe of this phase, or NoRecipe
    reused     \* the schedule was replayed

scheduleVars == <<job, words, jobRound, stage, ordinary, pending, sched, queue, strict, best, cache, reused>>

-----------------------------------------------------------------------------
(* prepare.rs: transfers. *)

\* the words of a view before its k-th span, and the address of its p-th word
EndOf(spans, k) == MapThenSumSet(LAMBDA i: spans[i].words, 1..k)
WordAt(spans, p) ==
    LET k == CHOOSE k \in DOMAIN spans: EndOf(spans, k - 1) <= p /\ p < EndOf(spans, k)
    IN  spans[k].offset + (p - EndOf(spans, k - 1))
Total(x) == EndOf(x.spans, Len(x.spans))

\* a transfer ends where a span of the source or of any receiver does, and
\* after MaxTransferWords
Ends(x) == UNION {{EndOf(s, k): k \in DOMAIN s}: s \in {x.spans} \cup {x.dests[d].spans: d \in DOMAIN x.dests}}
CutAfter(x, p) == Min({b \in Ends(x): b > p} \cup {p + MaxTransferWords})
Cuts(x) ==
    LET from[p \in Nat] == IF p >= Total(x) THEN <<>> ELSE <<p>> \o from[CutAfter(x, p)]
    IN  from[0]

\* prepare_transfer with attach_repeat_source_addresses: bases holds the
\* source's address in every iteration
Fragments(x) ==
    [i \in DOMAIN Cuts(x) |->
        LET p == Cuts(x)[i] IN
        [source |-> x.tile, shard |-> x.shard, offset |-> WordAt(x.spans, p),
         addrs |-> [n \in DOMAIN x.bases |-> x.bases[n] + WordAt(x.spans, p)],
         dests |-> [d \in DOMAIN x.dests |->
                      [tile |-> x.dests[d].tile, addr |-> x.dests[d].base + WordAt(x.dests[d].spans, p)]],
         words |-> CutAfter(x, p) - p, reserved |-> NoTile]]

Moving(t) == \E n \in DOMAIN t.addrs: t.addrs[n] # t.addrs[1]
Paired(t) == t.reserved # NoTile
Items(t) == IF Paired(t) THEN t.words \div 2 ELSE t.words
SourceAddress(t, iteration) == IF iteration \in DOMAIN t.addrs THEN t.addrs[iteration] ELSE t.addrs[1]

AddressesOf(addr, n) == addr .. (addr + n - 1)
ElementsOf(addr, n) == {a \div ElementWords: a \in AddressesOf(addr, n)}
SourceElements(t) == UNION {ElementsOf(t.addrs[n], t.words): n \in DOMAIN t.addrs}

\* a local write must not end up in one message with a read of its bytes
ReadsItsOwnWrite(t, n) ==
    \E d \in DOMAIN t.dests, i \in DOMAIN t.addrs:
        t.dests[d].tile = t.source /\ AddressesOf(t.dests[d].addr, n) \cap AddressesOf(t.addrs[i], n) # {}

Contiguous(a, b) ==
    /\ a.source = b.source /\ a.shard = b.shard /\ a.offset + a.words = b.offset
    /\ Len(a.dests) = Len(b.dests) /\ Len(a.addrs) = Len(b.addrs)
    /\ \A n \in DOMAIN a.addrs: a.addrs[n] + a.words = b.addrs[n]
    /\ \A d \in DOMAIN a.dests: a.dests[d].tile = b.dests[d].tile /\ a.dests[d].addr + a.words = b.dests[d].addr

MayCoalesce(a, b) ==
    /\ Contiguous(a, b) /\ a.words + b.words <= MaxTransferWords
    /\ ~ReadsItsOwnWrite(a, a.words + b.words)

\* coalesce_pending_transfers
Coalesced(ts) ==
    LET add(merged, t) ==
            IF merged # <<>> /\ MayCoalesce(Last(merged), t)
            THEN [merged EXCEPT ![Len(merged)].words = @ + t.words]
            ELSE Append(merged, t)
    IN  FoldLeft(add, <<>>, ts)

\* packet.rs: a self-receive that meets the start of its own send is halved
Lengths[n \in Nat] == IF SelfConflict(n) THEN Lengths[n \div 2] \o Lengths[n - n \div 2] ELSE <<n>>
Piece(t, from, n) ==
    [t EXCEPT !.words = n, !.offset = @ + from,
              !.addrs = [i \in DOMAIN @ |-> @[i] + from],
              !.dests = [d \in DOMAIN @ |-> [@[d] EXCEPT !.addr = @ + from]]]
Packets(t) ==
    IF \A d \in DOMAIN t.dests: t.dests[d].tile # t.source THEN <<t>>
    ELSE LET ns == Lengths[t.words]
             before(k) == FoldLeft(+, 0, SubSeq(ns, 1, k - 1))
         IN  [k \in DOMAIN ns |-> Piece(t, before(k), ns[k])]

Prepare(exchanges) ==
    LET merged == Coalesced(FlattenSeq([j \in DOMAIN exchanges |-> Fragments(exchanges[j])]))
    IN  FlattenSeq([i \in DOMAIN merged |-> Packets(merged[i])])

-----------------------------------------------------------------------------
(* problem.rs: what must stay in order. *)

Reads(t) == {<<t.source, a>>: a \in UNION {AddressesOf(t.addrs[n], t.words): n \in DOMAIN t.addrs}}
Writes(t) == UNION {{<<t.dests[d].tile, a>>: a \in AddressesOf(t.dests[d].addr, t.words)}: d \in DOMAIN t.dests}

DependsOnWrites(ts, i, j) ==
    \E x \in Reads(ts[j]) \cup Writes(ts[j]):
        x \in Writes(ts[i]) /\ \A k \in (i + 1)..(j - 1): x \notin Writes(ts[k])
\* memory_dependencies: the accesses of a word are kept in order around
\* every write, each access tied to the last write and a write to the reads since
Depends(ts, i, j) ==
    \E x \in Reads(ts[j]) \cup Writes(ts[j]):
        /\ \A k \in (i + 1)..(j - 1): x \notin Writes(ts[k])
        /\ x \in Writes(ts[i]) \/ (x \in Reads(ts[i]) /\ x \in Writes(ts[j]))
Predecessors(ts) == [j \in DOMAIN ts |-> {i \in 1..(j - 1): Depends(ts, i, j)}]
ReadyOrNot(ts) == [j \in DOMAIN ts |-> IF Predecessors(ts)[j] = {} THEN 0 ELSE 1]
Depth(ts) ==
    LET d[j \in DOMAIN ts] == Max({0} \cup {d[i] + 1: i \in Predecessors(ts)[j]})
    IN  d

-----------------------------------------------------------------------------
(* materialize.rs: one transfer after the other is given an offset.  A      *)
(* schedule is the order so far, the offsets (-1: none), and per tile the   *)
(* ends of its base switches and the kind of base in effect.                *)

NewSchedule(ts) ==
    [order |-> <<>>, at |-> [i \in DOMAIN ts |-> -1], switches |-> [t \in Tiles |-> {}],
     moving |-> [t \in Tiles |-> \E i \in DOMAIN ts: ts[i].source = t /\ Moving(ts[i])],
     status |-> "ok"]

Placed(s) == ToSet(s.order)
SendEnd(ts, s, i) == s.at[i] + Items(ts[i])
ReceiveStart(ts, s, i, d) == s.at[i] + Latency(ts[i].source, ts[i].dests[d].tile)
ReceiveEnd(ts, s, i, d) == ReceiveStart(ts, s, i, d) + Items(ts[i])
Completion(ts, s, i) == Max({SendEnd(ts, s, i)} \cup {ReceiveEnd(ts, s, i, d): d \in DOMAIN ts[i].dests})

Senders(ts, s, tile) == {i \in Placed(s): ts[i].source = tile}
Borrows(ts, s, tile) == {i \in Placed(s): ts[i].reserved = tile}
Receivers(ts, s, tile) ==
    {<<i, d>> \in UNION {{i} \X DOMAIN ts[i].dests: i \in Placed(s)}: ts[i].dests[d].tile = tile}
Controls(ts, s, tile) == {ReceiveStart(ts, s, r[1], r[2]): r \in Receivers(ts, s, tile)}
LastSend(ts, s, tile) == Max({0} \cup {SendEnd(ts, s, i): i \in Senders(ts, s, tile)})
ReservedEnd(ts, s, tile) == Max({0} \cup {SendEnd(ts, s, i) + SendTail: i \in Borrows(ts, s, tile)})
StreamEnd(ts, s, tile) == Max({0} \cup {ReceiveEnd(ts, s, r[1], r[2]): r \in Receivers(ts, s, tile)})

\* PhaseProgramBuilder::earliest_transfer_offset: the first offset at which
\* every lane is free and no control falls where it cannot be encoded
SenderFits(ts, s, i, o) ==
    LET tile == ts[i].source IN
    /\ o >= ReservedEnd(ts, s, tile) /\ \A e \in s.switches[tile]: o >= e
    /\ \A j \in Senders(ts, s, tile): SendEnd(ts, s, j) <= o \/ o + Items(ts[i]) <= s.at[j]
    /\ {o, o + 1} \cap Controls(ts, s, tile) = {}
ReceiverFits(ts, s, i, d, o) ==
    LET tile == ts[i].dests[d].tile
        r == o + Latency(ts[i].source, tile)
    IN  /\ r >= StreamEnd(ts, s, tile)
        /\ \A e \in s.switches[tile]: ~(e - SwitchCycles < r /\ r <= e)
        /\ \A j \in Senders(ts, s, tile): r \notin {s.at[j], s.at[j] + 1}
ReservedFits(ts, s, i, o) ==
    Paired(ts[i]) => o >= LastSend(ts, s, ts[i].reserved) /\ o >= ReservedEnd(ts, s, ts[i].reserved)

\* a pair of receive controls inside a send needs an even word of it
AlignedRow(ts, s, tile) ==
    \A j \in Senders(ts, s, tile), r \in Controls(ts, s, tile):
        (s.at[j] < r /\ r < SendEnd(ts, s, j)) => (r - s.at[j]) % 2 = 0
Aligned(ts, s) == \A tile \in Tiles: AlignedRow(ts, s, tile)

Put(s, i, o) == [s EXCEPT !.order = Append(@, i), !.at[i] = o]
Encodable(ts, s, i, o) ==
    \A tile \in {ts[i].source} \cup {ts[i].dests[d].tile: d \in DOMAIN ts[i].dests}:
        AlignedRow(ts, Put(s, i, o), tile)

Fits(ts, s, i, strictly, o) ==
    /\ SenderFits(ts, s, i, o) /\ ReservedFits(ts, s, i, o)
    /\ \A d \in DOMAIN ts[i].dests: ReceiverFits(ts, s, i, d, o)
    /\ strictly => Encodable(ts, s, i, o)
Earliest(ts, s, i, strictly, from) ==
    LET first[o \in Nat] == IF Fits(ts, s, i, strictly, o) THEN o ELSE first[o + 1]
    IN  first[from]

\* hazards.rs: the accesses of a tile's memory element, and the end of the
\* latest that starts before the given window ends, if it reaches into it
SendHistory(ts, s, tile) ==
    {[elements |-> SourceElements(ts[i]), from |-> s.at[i], to |-> SendEnd(ts, s, i) + SendTail]:
        i \in Senders(ts, s, tile)}
ReceiveHistory(ts, s, tile) ==
    {[elements |-> ElementsOf(ts[r[1]].dests[r[2]].addr, ts[r[1]].words),
      from |-> ReceiveStart(ts, s, r[1], r[2]), to |-> ReceiveEnd(ts, s, r[1], r[2]) + ReceiveTail]:
        r \in Receivers(ts, s, tile)}
ConflictEnd(history, elements, from, to) ==
    Max({from} \cup {h.to: h \in {g \in history: g.elements \cap elements # {} /\ g.from < to}})

\* memory_safe_transfer_offset
MemorySafe(ts, s, i, o) ==
    LET t == ts[i]
        window(d) == o + Latency(t.source, t.dests[d].tile)
        sender == ConflictEnd(ReceiveHistory(ts, s, t.source), SourceElements(t), o, o + Items(t) + SendTail) - o
        receiver(d) == ConflictEnd(SendHistory(ts, s, t.dests[d].tile), ElementsOf(t.dests[d].addr, t.words),
                                   window(d), window(d) + Items(t) + ReceiveTail) - window(d)
    IN  o + Max({sender} \cup {receiver(d): d \in DOMAIN t.dests})

\* append_transfer: both answers are asked for until neither moves the transfer
Settle(ts, s, i, strictly, from) ==
    LET settled[o \in Nat] ==
            LET safe == MemorySafe(ts, s, i, Earliest(ts, s, i, strictly, o))
            IN  IF safe = o THEN o ELSE settled[safe]
    IN  settled[from]

\* switch_outgoing_base: after the last send, clear of receive controls
SwitchEnd(ts, s, tile) ==
    LET from == Max({LastSend(ts, s, tile)} \cup s.switches[tile])
        clear(b) == \A c \in Controls(ts, s, tile): ~(b < c /\ c <= b + SwitchCycles)
    IN  SwitchCycles + Min({b \in {from} \cup {c \in Controls(ts, s, tile): c > from}: clear(b)})
SwitchBase(ts, s, tile) ==
    [s EXCEPT !.switches[tile] = @ \cup {SwitchEnd(ts, s, tile)}, !.moving[tile] = ~@]
BaseFor(ts, s, i) ==
    IF s.moving[ts[i].source] # Moving(ts[i]) THEN SwitchBase(ts, s, ts[i].source) ELSE s

\* a tile that receives its own send does so beside another receiver, and
\* into a memory element the send does not read
IllegalLoopback(t) ==
    \E d \in DOMAIN t.dests:
        /\ t.dests[d].tile = t.source
        /\ Len(t.dests) < 2 \/ ElementsOf(t.dests[d].addr, t.words) \cap SourceElements(t) # {}

\* MaterializedSchedule::append
AppendTransfer(ts, s, i, strictly) ==
    LET ready == Max({0} \cup {Completion(ts, s, p): p \in Predecessors(ts)[i]})
        based == BaseFor(ts, s, i)
    IN  IF IllegalLoopback(ts[i]) THEN [s EXCEPT !.status = "refused"]
        ELSE Put(based, i, Settle(ts, based, i, strictly, ready))

\* materialize_schedule_order, and materialize_valid_schedule_order
Materialize(ts, order, strictly) ==
    LET add(s, i) ==
            IF s.status # "ok" THEN s
            ELSE IF i \notin Placed(s) /\ Predecessors(ts)[i] \subseteq Placed(s)
            THEN AppendTransfer(ts, s, i, strictly)
            ELSE [s EXCEPT !.status = "disorder"]
        s == FoldLeft(add, NewSchedule(ts), order)
    IN  IF s.status = "ok" /\ ~Aligned(ts, s) THEN [s EXCEPT !.status = "misaligned"] ELSE s
MaterializeValid(ts, order) ==
    LET s == Materialize(ts, order, FALSE)
    IN  IF s.status = "misaligned" THEN Materialize(ts, order, TRUE) ELSE s

\* finish_horizon, endpoint_work_lower_bound
Horizon(ts, s) ==
    Max({0} \cup {SendEnd(ts, s, i) + SendTail: i \in Placed(s)}
            \cup {ReceiveEnd(ts, s, i, d) + ReceiveTail: <<i, d>> \in UNION {{i} \X DOMAIN ts[i].dests: i \in Placed(s)}}
            \cup UNION {s.switches[t]: t \in Tiles})
LowerBound(ts) ==
    LET sends(t) == MapThenSumSet(LAMBDA i: IF t \in {ts[i].source, ts[i].reserved} THEN Items(ts[i]) ELSE 0, DOMAIN ts)
        receives(t) == MapThenSumSet(LAMBDA i: IF \E d \in DOMAIN ts[i].dests: ts[i].dests[d].tile = t
                                               THEN Items(ts[i]) ELSE 0, DOMAIN ts)
    IN  Max({sends(t): t \in Tiles} \cup {receives(t): t \in Tiles})

-----------------------------------------------------------------------------
(* greedy.rs: a queue of ready transfers whose keys are refreshed lazily.   *)
(* Transfers ready from the start that share all endpoints wait in a group  *)
(* behind the best of them.                                                 *)

\* keys are compared field by field; every field is "greater is better"
Less(a, b) == \E k \in DOMAIN a: a[k] < b[k] /\ \A j \in 1..(k - 1): a[j] = b[j]
Greatest(S) == CHOOSE k \in S: \A l \in S: ~Less(k, l)
IndexOf(key) == -key[7]
Roles(t) == <<t.source, t.reserved, {t.dests[d].tile: d \in DOMAIN t.dests}>>

\* pressure: words still to move through an endpoint, per direction when
\* every transfer has one receiver
Directional(ts) == \A i \in DOMAIN ts: Len(ts[i].dests) = 1
Endpoints(ts, i) ==
    LET t == ts[i]
        far == IF Directional(ts) THEN 1 ELSE 0
    IN  {<<t.source, 0, 0>>} \cup (IF Paired(t) THEN {<<t.reserved, 0, 1>>} ELSE {})
            \cup {<<t.dests[d].tile, far, 2 + d>>: d \in DOMAIN t.dests}
Pressure(ts, left, i) ==
    MapThenSumSet(LAMBDA e: MapThenSumSet(LAMBDA j:
        Items(ts[j]) * Cardinality({f \in Endpoints(ts, j): f[1] = e[1] /\ f[2] = e[2]}), left), Endpoints(ts, i))

SendReady(ts, s, tile) ==
    LET used == {k \in DOMAIN s.order: tile \in {ts[s.order[k]].source, ts[s.order[k]].reserved}}
        last == s.order[Max(used)]
    IN  IF used = {} THEN 0 ELSE SendEnd(ts, s, last) + (IF ts[last].source = tile THEN 0 ELSE SendTail)
StartBound(ts, s, i) ==
    Max({SendReady(ts, s, ts[i].source)} \cup {SendReady(ts, s, r): r \in {ts[i].reserved} \ {NoTile}}
        \cup {StreamEnd(ts, s, ts[i].dests[d].tile): d \in DOMAIN ts[i].dests}
        \cup {Completion(ts, s, p): p \in Predecessors(ts)[i] \cap Placed(s)})
Key(ts, start, pressure, i) ==
    <<IF Moving(ts[i]) THEN 1 ELSE 0, -start, pressure, Len(ts[i].dests), Items(ts[i]), -ts[i].source, -i>>
Left(ts, s) == DOMAIN ts \ Placed(s)
Refreshed(ts, s, key) == Key(ts, StartBound(ts, s, IndexOf(key)), Pressure(ts, Left(ts, s), IndexOf(key)), IndexOf(key))

\* the key a transfer is pushed with
Released(ts, s, i) == Key(ts, Max({0} \cup {Completion(ts, s, p): p \in Predecessors(ts)[i]}), Pressure(ts, Left(ts, s), i), i)
NewQueue(ts) ==
    LET ready == {Released(ts, NewSchedule(ts), i): i \in {j \in DOMAIN ts: Predecessors(ts)[j] = {}}}
        group(r) == {k \in ready: Roles(ts[IndexOf(k)]) = r}
        heads == {Greatest(group(r)): r \in {Roles(ts[IndexOf(k)]): k \in ready}}
    IN  [heap |-> heads, grouped |-> ready \ heads, first |-> {IndexOf(k): k \in ready}]

\* the next of the group, with the start just computed for its head
Followers(ts, q, key) ==
    {k \in q.grouped: IndexOf(key) \in q.first /\ Roles(ts[IndexOf(k)]) = Roles(ts[IndexOf(key)])}
NextHead(ts, q, key) ==
    LET k == Greatest(Followers(ts, q, key)) IN [k EXCEPT ![2] = key[2]]
PopHead(ts, q, key) ==
    IF Followers(ts, q, key) = {} THEN [q EXCEPT !.heap = @ \ {key}]
    ELSE [q EXCEPT !.heap = (@ \ {key}) \cup {NextHead(ts, q, key)},
                   !.grouped = @ \ {Greatest(Followers(ts, q, key))}]

\* complete: dependents of a placed transfer whose last predecessor it was
NewlyReady(ts, before, after) ==
    {j \in Left(ts, after): Predecessors(ts)[j] \subseteq Placed(after) /\ ~(Predecessors(ts)[j] \subseteq Placed(before))}

-----------------------------------------------------------------------------
(* matching.rs, repair.rs, streams.rs: orders for the materializer. *)

\* an order that lists transfers only when all they depend on are listed
ListsReady(ts, order) == \A k \in DOMAIN order: Predecessors(ts)[order[k]] \subseteq ToSet(SubSeq(order, 1, k - 1))
\* repair::order; its heap prices any ready transfer first
RepairOrders(ts) == {o \in SetToSeqs(DOMAIN ts): ListsReady(ts, o)}

\* matching::order applies to balanced point-to-point traffic
Role(ts, end, tile) == Cardinality({i \in DOMAIN ts: (IF end = 0 THEN ts[i].source ELSE ts[i].dests[1].tile) = tile})
Balanced(ts) ==
    LET active(end) == Cardinality({t \in Tiles: Role(ts, end, t) > 0})
        fewest == Max({1, Min({active(0), active(1)})})
        mean == (Len(ts) + fewest - 1) \div fewest
    IN  /\ Len(ts) >= 2 /\ Directional(ts)
        /\ \A end \in {0, 1}, t \in Tiles: Role(ts, end, t) <= 2 * mean
\* maximum_ready_matching, over the ready transfers
Matching(ts, S) == \A i, j \in S: i # j => ts[i].source # ts[j].source /\ ts[i].dests[1].tile # ts[j].dests[1].tile
Ready(ts, done) == {i \in DOMAIN ts \ done: Predecessors(ts)[i] \subseteq done}
Waves(ts, done) ==
    LET M == {S \in SUBSET Ready(ts, done): Matching(ts, S)}
    IN  {S \in M: \A R \in M: Cardinality(R) <= Cardinality(S)}
\* a wave in the order of the incumbent
WaveOrder(wave, incumbent) == SelectSeq(incumbent, LAMBDA i: i \in wave)

\* streams::order, for one of the places a wave's chunks may take
StreamOf(ts, i) == <<~Moving(ts[i]), ts[i].source, ts[i].reserved, [d \in DOMAIN ts[i].dests |-> ts[i].dests[d].tile]>>
StreamKey(ts, i) == <<ts[i].dests[1].addr, ts[i].addrs[1], i>>
Ahead(ts, i) == {j \in DOMAIN ts: StreamOf(ts, j) = StreamOf(ts, i) /\ Less(StreamKey(ts, j), StreamKey(ts, i))}
Wave(ts, i) == MapThenSumSet(LAMBDA j: ts[j].words, Ahead(ts, i)) \div words
Chunk(ts, i) == <<Wave(ts, i), StreamOf(ts, i)>>
StreamRank(ts, place, i) ==
    <<Depth(ts)[i], IF Moving(ts[i]) THEN 0 ELSE 1, Wave(ts, i), place[Chunk(ts, i)], Cardinality(Ahead(ts, i)), i>>
Places(ts) == Injection({Chunk(ts, i): i \in DOMAIN ts}, DOMAIN ts)
StreamOrder(ts, place) ==
    SortSeq([i \in DOMAIN ts |-> i], LAMBDA a, b: Less(StreamRank(ts, place, a), StreamRank(ts, place, b)))

-----------------------------------------------------------------------------
(* select.rs, reuse.rs *)

\* paired_transfer_alternatives: both words of an item go to complete pairs
PairedForm(t) == [t EXCEPT !.reserved = Partner(t.source)]
SupportsPaired(t) ==
    /\ ~Paired(t) /\ t.words >= 2 /\ t.words % 2 = 0 /\ Partner(t.source) \in Tiles
    /\ \A n \in DOMAIN t.addrs: t.addrs[n] % 2 = 0
    /\ \A d \in DOMAIN t.dests:
        /\ t.dests[d].addr % 2 = 0
        /\ \E e \in DOMAIN t.dests: t.dests[e].tile = Partner(t.dests[d].tile)
PairedTransfers(ts) == [i \in DOMAIN ts |-> IF SupportsPaired(ts[i]) THEN PairedForm(ts[i]) ELSE ts[i]]

\* structure_fingerprint: what a placement cannot change
Structure(ts) ==
    [i \in DOMAIN ts |-> <<ts[i].source, ts[i].words, Len(ts[i].addrs), Moving(ts[i]),
                           [d \in DOMAIN ts[i].dests |-> ts[i].dests[d].tile]>>]
\* normalized_rows: the timed events of every tile without their addresses
Rows(ts, s) ==
    [t \in Tiles |->
        [sends |-> {<<s.at[i], Items(ts[i]), Paired(ts[i])>>: i \in Senders(ts, s, t)},
         receives |-> {<<ReceiveStart(ts, s, r[1], r[2]), Items(ts[r[1]]), ts[r[1]].source>>: r \in Receivers(ts, s, t)},
         switches |-> s.switches[t], reserved |-> ReservedEnd(ts, s, t)]]

NoResult == [ts |-> <<>>, s |-> [status |-> "none"]]
NoRecipe == [structure |-> "none"]
Recipe(ts, s) ==
    [structure |-> Structure(ordinary), words |-> words, order |-> s.order, rows |-> Rows(ts, s),
     widths |-> [i \in DOMAIN ts |-> Paired(ts[i])]]
Fitting == cache # NoRecipe /\ cache.structure = Structure(ordinary) /\ cache.words = words

\* the widths of the recipe at the new addresses
Replayable == \A i \in DOMAIN ordinary: cache.widths[i] => SupportsPaired(ordinary[i])
ReplayedTransfers == [i \in DOMAIN ordinary |-> IF cache.widths[i] THEN PairedForm(ordinary[i]) ELSE ordinary[i]]
ReplayMatches(s) == s.status = "ok" /\ Rows(ReplayedTransfers, s) = cache.rows

-----------------------------------------------------------------------------
(* relocation.rs: one base register per tile for the sources that move.     *)

Deltas(t, count) == [n \in 1..count |-> SourceAddress(t, n) - t.addrs[1]]
Moved(ts, tile) == {i \in DOMAIN ts: ts[i].source = tile /\ Moving(ts[i])}
IterationsOf(ts, S) == Max({1} \cup {Len(ts[i].addrs): i \in S})
\* repeat_outgoing_bases: the lowest transfer of a pattern no other falls below
IsBase(ts, tile, b) ==
    LET S == Moved(ts, tile)
        count == IterationsOf(ts, S)
    IN  /\ \A i \in S: Deltas(ts[i], count) = Deltas(ts[b], count) => ts[b].addrs[1] <= ts[i].addrs[1]
        /\ (\E i \in S: Paired(ts[i])) => ts[b].addrs[1] % 2 = 0
        /\ \A i \in S, n \in 1..count: SourceAddress(ts[i], n) >= SourceAddress(ts[b], n)
BaseOf(ts, tile, n) ==
    LET bases == {b \in Moved(ts, tile): IsBase(ts, tile, b)}
    IN  IF bases = {} THEN 0 ELSE SourceAddress(ts[CHOOSE b \in bases: TRUE], n)
\* the address word of a send in iteration n: rewritten only if it changes
SendWord(ts, i, n) ==
    SourceAddress(ts[i], n) - (IF Moving(ts[i]) THEN BaseOf(ts, ts[i].source, n) ELSE 0)
Relocatable(ts) == \A i \in DOMAIN ts, n \in 1..IterationsOf(ts, DOMAIN ts): SendWord(ts, i, n) >= 0

-----------------------------------------------------------------------------
ScheduleInit ==
    /\ job \in Jobs /\ words \in Policies /\ jobRound = 1 /\ stage = "prepare"
    /\ ordinary = <<>> /\ pending = <<>> /\ sched = NoResult.s /\ queue = {} /\ strict = FALSE
    /\ best = NoResult /\ cache = NoRecipe /\ reused = FALSE

PreparePhase ==
    /\ stage = "prepare"
    /\ ordinary' = Prepare(job[jobRound])
    /\ best' = NoResult /\ reused' = FALSE /\ stage' = "recall"
    /\ UNCHANGED <<job, words, jobRound, pending, sched, queue, strict, cache>>

\* a new candidate is scheduled under the policy
Candidate(ts) ==
    /\ pending' = ts /\ strict' = FALSE
    /\ IF words = 0
       THEN sched' = NewSchedule(ts) /\ queue' = NewQueue(ts) /\ stage' = "greedy"
       ELSE \E place \in Places(ts):
              sched' = MaterializeValid(ts, StreamOrder(ts, place)) /\ queue' = {} /\ stage' = "compare"

Replay ==
    /\ stage = "recall" /\ Fitting /\ Replayable
    /\ LET s == MaterializeValid(ReplayedTransfers, cache.order) IN
        /\ ReplayMatches(s)
        /\ pending' = ReplayedTransfers /\ sched' = s /\ reused' = TRUE /\ stage' = "relocate"
    /\ UNCHANGED <<job, words, jobRound, ordinary, queue, strict, best, cache>>

Optimize ==
    /\ stage = "recall"
    /\ ~(Fitting /\ Replayable /\ ReplayMatches(MaterializeValid(ReplayedTransfers, cache.order)))
    /\ Candidate(ordinary)
    /\ UNCHANGED <<job, words, jobRound, ordinary, best, cache, reused>>

\* TransferScheduler::next: a stale top is refreshed in place
RefreshTop ==
    /\ stage = "greedy" /\ queue.heap # {}
    /\ LET top == Greatest(queue.heap)
           now == Refreshed(pending, sched, top)
       IN  top # now /\ queue' = [queue EXCEPT !.heap = (@ \ {top}) \cup {now}]
    /\ UNCHANGED <<job, words, jobRound, stage, ordinary, pending, sched, strict, best, cache, reused>>

TakeTop ==
    /\ stage = "greedy" /\ queue.heap # {}
    /\ LET top == Greatest(queue.heap)
           s == AppendTransfer(pending, sched, IndexOf(top), strict)
       IN  /\ top = Refreshed(pending, sched, top)
           /\ sched' = s
           /\ stage' = IF s.status = "ok" THEN stage ELSE "compare"
           /\ queue' = [PopHead(pending, queue, top) EXCEPT !.heap =
                            @ \cup {Released(pending, s, j): j \in NewlyReady(pending, sched, s)}]
    /\ UNCHANGED <<job, words, jobRound, ordinary, pending, strict, best, cache, reused>>

\* greedy::schedule: built again with the encoding checked at every step
GreedyDone ==
    /\ stage = "greedy" /\ queue.heap = {}
    /\ IF Aligned(pending, sched)
       THEN /\ stage' = IF Balanced(pending) THEN "matching" ELSE "repair"
            /\ queue' = <<>> /\ UNCHANGED <<sched, strict>>
       ELSE IF ~strict
       THEN /\ strict' = TRUE /\ sched' = NewSchedule(pending) /\ queue' = NewQueue(pending)
            /\ UNCHANGED stage
       ELSE stage' = "compare" /\ sched' = [sched EXCEPT !.status = "misaligned"] /\ UNCHANGED <<queue, strict>>
    /\ UNCHANGED <<job, words, jobRound, ordinary, pending, best, cache, reused>>

MatchWave ==
    /\ stage = "matching" /\ Len(queue) < Len(pending)
    /\ \E wave \in Waves(pending, ToSet(queue)): queue' = queue \o WaveOrder(wave, sched.order)
    /\ UNCHANGED <<job, words, jobRound, stage, ordinary, pending, sched, strict, best, cache, reused>>

Improves(s) == s.status = "ok" /\ Horizon(pending, s) < Horizon(pending, sched)

MatchDone ==
    /\ stage = "matching" /\ Len(queue) = Len(pending)
    /\ LET s == Materialize(pending, queue, FALSE) IN sched' = IF Improves(s) THEN s ELSE sched
    /\ stage' = "repair"
    /\ UNCHANGED <<job, words, jobRound, ordinary, pending, queue, strict, best, cache, reused>>

Repair ==
    /\ stage = "repair"
    /\ \E order \in RepairOrders(pending):
        LET s == Materialize(pending, order, FALSE) IN
        IF order # sched.order /\ Improves(s) THEN sched' = s /\ stage' = stage
        ELSE stage' = "compare" /\ UNCHANGED sched
    /\ UNCHANGED <<job, words, jobRound, ordinary, pending, queue, strict, best, cache, reused>>

\* select_transfer_widths: the ordinary form first, then the paired one; in
\* streams the smaller rows win, otherwise the earlier end
PairedWins ==
    IF best.s.status # "ok" THEN {TRUE}
    ELSE IF sched.status # "ok" THEN {FALSE}
    ELSE IF words # 0 THEN BOOLEAN
    ELSE {Horizon(pending, sched) < Horizon(best.ts, best.s)}

TryPaired ==
    /\ stage = "compare" /\ pending = ordinary /\ PairedTransfers(ordinary) # ordinary
    /\ best' = [ts |-> pending, s |-> sched]
    /\ Candidate(PairedTransfers(ordinary))
    /\ UNCHANGED <<job, words, jobRound, ordinary, cache, reused>>

Select ==
    /\ stage = "compare" /\ (pending = ordinary => PairedTransfers(ordinary) = ordinary)
    /\ \E wins \in PairedWins:
        /\ pending' = IF wins THEN pending ELSE best.ts
        /\ sched' = IF wins THEN sched ELSE best.s
    /\ IF sched'.status = "ok"
       THEN stage' = "relocate" /\ cache' = Recipe(pending', sched')
       ELSE stage' = "failed" /\ UNCHANGED cache
    /\ UNCHANGED <<job, words, jobRound, ordinary, queue, strict, best, reused>>

Relocate ==
    /\ stage = "relocate"
    /\ stage' = IF Relocatable(pending) THEN "done" ELSE "failed"
    /\ UNCHANGED <<job, words, jobRound, ordinary, pending, sched, queue, strict, best, cache, reused>>

\* the caller places the program again and compiles with the same cache
NextPlacement ==
    /\ stage = "done" /\ jobRound < Len(job)
    /\ jobRound' = jobRound + 1 /\ stage' = "prepare"
    /\ UNCHANGED <<job, words, ordinary, pending, sched, queue, strict, best, cache, reused>>

ScheduleNext ==
    \/ PreparePhase \/ Replay \/ Optimize \/ RefreshTop \/ TakeTop \/ GreedyDone \/ MatchWave \/ MatchDone
    \/ Repair \/ TryPaired \/ Select \/ Relocate \/ NextPlacement

ScheduleSpec == ScheduleInit /\ [][ScheduleNext]_scheduleVars

-----------------------------------------------------------------------------
(* What the finished phase must do. *)

Finished == stage = "done"
AllIterations == 1..IterationsOf(pending, DOMAIN pending)

\* the base register in effect when a send starts, and the address it reads
RegisterMoves(i) ==
    LET tile == pending[i].source IN
    (Moved(pending, tile) # {}) # (Cardinality({e \in sched.switches[tile]: e <= sched.at[i]}) % 2 = 1)
SendsFrom(i, n) ==
    SendWord(pending, i, n) + (IF RegisterMoves(i) THEN BaseOf(pending, pending[i].source, n) ELSE 0)

\* the words of a transfer that move in cycle c of it
WordsAt(t, c) == IF Paired(t) THEN {2 * c, 2 * c + 1} ELSE {c}

\* memory after every cycle of the phase: the word of before the phase each
\* address holds
MemoryAfter(n) ==
    LET writes(c) == {w \in UNION {{<<i, d, k>>: d \in DOMAIN pending[i].dests, k \in 0..(pending[i].words - 1)}:
                                    i \in DOMAIN pending}:
                        LET i == w[1] d == w[2] item == c - ReceiveStart(pending, sched, i, d) IN
                        item \in 0..(Items(pending[i]) - 1) /\ w[3] \in WordsAt(pending[i], item)}
        target(w) == <<pending[w[1]].dests[w[2]].tile, pending[w[1]].dests[w[2]].addr + w[3]>>
        readAt(w) == sched.at[w[1]] + (IF Paired(pending[w[1]]) THEN w[3] \div 2 ELSE w[3])
        touched == UNION {Reads(pending[i]) \cup Writes(pending[i]): i \in DOMAIN pending}
        memory[c \in Nat] ==
            IF c = 0 THEN [x \in touched |-> x]
            ELSE [x \in touched |->
                    LET W == {w \in writes(c - 1): target(w) = x} IN
                    IF W = {} THEN memory[c - 1][x]
                    ELSE LET w == CHOOSE v \in W: TRUE
                             y == <<pending[w[1]].source, SendsFrom(w[1], n) + w[3]>>
                         IN  IF y \in touched THEN memory[readAt(w)][y] ELSE y]
    IN  memory[Horizon(pending, sched)]

\* the same phase, its exchanges carried out one span after the other
Sequentially(n) ==
    LET fragments == FlattenSeq([j \in DOMAIN job[jobRound] |-> Fragments(job[jobRound][j])])
        touched == UNION {Reads(pending[i]) \cup Writes(pending[i]): i \in DOMAIN pending}
        copy(m, t) ==
            [x \in DOMAIN m |->
                LET D == {d \in DOMAIN t.dests: t.dests[d].tile = x[1] /\ x[2] \in AddressesOf(t.dests[d].addr, t.words)}
                    d == CHOOSE e \in D: TRUE
                IN  IF D = {} THEN m[x]
                    ELSE m[<<t.source, SourceAddress(t, n) + x[2] - t.dests[d].addr>>]]
    IN  FoldLeft(copy, [x \in touched |-> x], fragments)

\* Every word ends where it would if the exchanges were carried out one after
\* the other in program order, in every iteration of the Repeat.
Delivers == \A n \in AllIterations: MemoryAfter(n) = Sequentially(n)

\* A tile sends one word at a time, counting the lane it lends, and no
\* memory element is read and written at once.
LanesExclusive ==
    \A tile \in Tiles:
        /\ \A i, j \in Senders(pending, sched, tile) \cup Borrows(pending, sched, tile):
               i # j => SendEnd(pending, sched, i) <= sched.at[j] \/ SendEnd(pending, sched, j) <= sched.at[i]
        /\ \A p, r \in Receivers(pending, sched, tile):
               p # r => \/ ReceiveEnd(pending, sched, p[1], p[2]) <= ReceiveStart(pending, sched, r[1], r[2])
                        \/ ReceiveEnd(pending, sched, r[1], r[2]) <= ReceiveStart(pending, sched, p[1], p[2])
ElementsExclusive ==
    \A tile \in Tiles: \A a \in SendHistory(pending, sched, tile), b \in ReceiveHistory(pending, sched, tile):
        a.elements \cap b.elements # {} => a.to <= b.from \/ b.to <= a.from

\* A phase that lowers moves every word to where program order would put it,
\* whatever order and offsets were chosen or replayed, without two uses of a
\* lane or a read and a write of one memory element at the same time
\* (prepare.rs, problem.rs, materialize.rs, relocation.rs).
ExchangesDeliver == Finished => Delivers /\ LanesExclusive /\ ElementsExclusive /\ Aligned(pending, sched)

\* The top of the queue, once fresh, is the best of all ready transfers,
\* although only heads of groups are in it and keys are refreshed late.
QueueIsEager ==
    (stage = "greedy" /\ queue.heap # {}) =>
        LET top == Greatest(queue.heap) IN
        top = Refreshed(pending, sched, top) =>
            \A i \in Ready(pending, Placed(sched)): ~Less(top, Refreshed(pending, sched, Key(pending, 0, 0, i)))

\* The lazily refreshed queue picks what an eager one would, no policy hands
\* the materializer an order that breaks a dependency, a phase never ends
\* before the busiest lane could, and a replayed schedule has the rows, and
\* so the code size and the sharing, of the one it was recorded from
\* (greedy.rs, streams.rs, reuse.rs).
SelectionIsSound ==
    /\ QueueIsEager
    /\ sched.status # "disorder"
    /\ Finished => Horizon(pending, sched) >= LowerBound(pending)
    /\ (Finished /\ reused) => Rows(pending, sched) = cache.rows /\ cache.words = words
===============================================================================
