-------------------------- MODULE HostDescriptors --------------------------
(***************************************************************************)
(* Where plan_tile() of crates/ipu-codegen/src/host.rs puts the packets    *)
(* and the descriptor tables of one tile: a best-fit arena (DataArena)     *)
(* over the holes the tensors left.                                        *)
(*                                                                         *)
(* Packets with equal words share one place.  Their words depend on the    *)
(* final addresses of the tensors and are known only now; their lengths do *)
(* not, and the sizes of a first pass, with nothing shared, were reserved  *)
(* as one range before the tensors were placed.                            *)
(***************************************************************************)
EXTENDS Integers

CONSTANTS
  N,            \* how many host phases the package has
  PacketBytes,  \* the packet bytes of each phase, 0 where the tile is inactive
  Words,        \* what a packet may contain, its length aside
  Layouts,      \* the sets of holes, as <<base, limit>>, tensors may leave
  Limit,        \* the end of the tile's memory
  Reserve,      \* the range reserved for descriptors in some of the layouts
  Needs         \* data_bytes: what phases k..N need when no packet is shared

TableBytes == 12    \* HOST_RUN_DESCRIPTOR_WORDS words
Ranges == {r \in (0..Limit) \X (0..Limit) : r[1] < r[2]}
Apart(r, s) == r[2] <= s[1] \/ s[2] <= r[1]
AreApart(rs) == \A r, s \in rs : r = s \/ Apart(r, s)

ASSUME PhaseAssumption == N \in Nat /\ PacketBytes \in [1..N -> Nat]
\* Longer packets have no descriptor (descriptor_words); a plan with one is
\* refused whatever the holes are.
ASSUME PacketAssumption == \A j \in 1..N : PacketBytes[j] % 4 = 0 /\ PacketBytes[j] < 4 * 256
ASSUME HoleAssumption ==
  /\ Limit \in Nat /\ Layouts \subseteq SUBSET Ranges
  /\ \A hs \in Layouts : AreApart(hs)
ASSUME NeedsAssumption ==
  /\ Needs \in [1..(N + 1) -> Nat] /\ Needs[N + 1] = 0
  /\ \A j \in 1..N : Needs[j] = Needs[j + 1]
       + (IF PacketBytes[j] > 0 THEN PacketBytes[j] + TableBytes ELSE 0)
ASSUME ReserveAssumption ==
  /\ Reserve \in (0..Limit) \X (0..Limit)
  /\ Reserve[1] % 4 = 0
  /\ Reserve[2] - Reserve[1] >= Needs[1]

VARIABLES
  k,       \* the phase being planned
  stage,   \* whether its packet or its table is placed next, or planning is over
  holes,   \* the holes of the tile, as the arena was given them
  ranges,  \* the ranges the arena has left
  cache,   \* packet_cache: the packets placed, by content
  source,  \* the packet each phase needs, and where its descriptor says it is
  table,   \* run_table: where the descriptor of each phase is
  mem      \* what each byte of the tile was last written by

vars == <<k, stage, holes, ranges, cache, source, table, mem>>

Packet(w, len) == [kind |-> "packet", words |-> w, size |-> len]
Table(j) == [kind |-> "table", phase |-> j]
Blank == [kind |-> "blank"]

-----------------------------------------------------------------------------
(* DataArena *)

\* Every allocation of plan_tile() is aligned to a word.
AlignUp(a) == ((a + 3) \div 4) * 4

Fits(r, size) == AlignUp(r[1]) + size <= r[2]

\* The slack a range would have after the allocation; the least wins, then
\* the lowest address.
Slack(r, size) == r[2] - (AlignUp(r[1]) + size)
Best(r, size) ==
  /\ r \in ranges /\ Fits(r, size)
  /\ \A s \in ranges : Fits(s, size) =>
       \/ Slack(r, size) < Slack(s, size)
       \/ Slack(r, size) = Slack(s, size) /\ r[1] <= s[1]

\* Mutant: what is left behind the allocation is lost.
RemaindersHead(r, start, end) == IF r[1] < start THEN {<<r[1], start>>} ELSE {}
\* What is left of a range before and behind an allocation.
Remainders(r, start, end) ==
  (IF r[1] < start THEN {<<r[1], start>>} ELSE {}) \cup
  (IF end < r[2] THEN {<<end, r[2]>>} ELSE {})

\* Take size bytes and write content there: the new segment.
Allocate(size, content, start) ==
  \E r \in ranges :
    /\ Best(r, size) /\ start = AlignUp(r[1])
    /\ ranges' = (ranges \ {r}) \cup Remainders(r, start, start + size)
    /\ mem' = [a \in 0..Limit |-> IF start <= a /\ a < start + size THEN content ELSE mem[a]]

NoRoom(size) == \A r \in ranges : ~Fits(r, size)

-----------------------------------------------------------------------------
(* plan_tile() *)

Active(j) == PacketBytes[j] > 0

\* Mutant: packets are told apart by their length alone.
CachedByLength(w, len) == {c \in cache : c.content.size = len}
Cached(w, len) == {c \in cache : c.content = Packet(w, len)}

\* A phase in which the tile does nothing has no descriptor.
SkipPhase ==
  /\ stage = "packet" /\ k <= N /\ ~Active(k)
  /\ k' = k + 1
  /\ UNCHANGED <<stage, holes, ranges, cache, source, table, mem>>

\* A packet like one already placed is shared; data_bytes (Needs) counts it
\* as if it were not.
SharePacket(w) ==
  /\ stage = "packet" /\ k <= N /\ Active(k)
  /\ \E c \in Cached(w, PacketBytes[k]) : source' = [source EXCEPT ![k] = <<w, c.start>>]
  /\ stage' = "table"
  /\ UNCHANGED <<k, holes, ranges, cache, table, mem>>

PlacePacket(w) ==
  /\ stage = "packet" /\ k <= N /\ Active(k) /\ Cached(w, PacketBytes[k]) = {}
  /\ \E start \in 0..Limit :
       /\ Allocate(PacketBytes[k], Packet(w, PacketBytes[k]), start)
       /\ source' = [source EXCEPT ![k] = <<w, start>>]
       /\ cache' = cache \cup {[content |-> Packet(w, PacketBytes[k]), start |-> start]}
  /\ stage' = "table"
  /\ UNCHANGED <<k, holes, table>>

PlaceTable ==
  /\ stage = "table"
  /\ \E start \in 0..Limit :
       Allocate(TableBytes, Table(k), start) /\ table' = [table EXCEPT ![k] = start]
  /\ stage' = "packet" /\ k' = k + 1
  /\ UNCHANGED <<holes, cache, source>>

Finish ==
  /\ stage = "packet" /\ k = N + 1
  /\ stage' = "done"
  /\ UNCHANGED <<k, holes, ranges, cache, source, table, mem>>

\* "insufficient tile SRAM": the build fails.
Fail ==
  /\ \/ stage = "packet" /\ k <= N /\ Active(k) /\ NoRoom(PacketBytes[k])
        /\ \E w \in Words : Cached(w, PacketBytes[k]) = {}
     \/ stage = "table" /\ NoRoom(TableBytes)
  /\ stage' = "failed"
  /\ UNCHANGED <<k, holes, ranges, cache, source, table, mem>>

Init ==
  /\ k = 1 /\ stage = "packet" /\ holes \in Layouts /\ ranges = holes
  /\ cache = {} /\ source = [j \in 1..N |-> <<>>] /\ table = [j \in 1..N |-> 0]
  /\ mem = [a \in 0..Limit |-> Blank]

Over == stage \in {"done", "failed"} /\ UNCHANGED vars

Next ==
  \/ SkipPhase \/ PlaceTable \/ Finish \/ Fail \/ Over
  \/ \E w \in Words : SharePacket(w) \/ PlacePacket(w)

Spec == Init /\ [][Next]_vars

-----------------------------------------------------------------------------
(* Properties *)

\* The arena's ranges are never empty, and the plan keeps its types.
Contents == {Blank} \cup {Table(j) : j \in 1..N}
              \cup {Packet(w, PacketBytes[j]) : w \in Words, j \in 1..N}
TypeOK ==
  /\ k \in 1..(N + 1) /\ stage \in {"packet", "table", "done", "failed"}
  /\ (stage = "table" => k <= N /\ Active(k))
  /\ holes \in Layouts /\ ranges \subseteq Ranges
  /\ mem \in [0..Limit -> Contents]
  /\ source \in [1..N -> {<<>>} \cup (Words \X (0..Limit))]
  /\ table \in [1..N -> 0..Limit]
  /\ cache \subseteq [content : {Packet(w, PacketBytes[j]) : w \in Words, j \in 1..N},
                      start : 0..Limit]

\* The descriptor of a phase is where the call expects it and points to the
\* words that phase needs, although packets are shared and placed into the
\* remainders of one another: nothing placed later is written over them.
Holds(bytes, start, size, content) ==
  \A a \in start..(start + size - 1) : bytes[a] = content
Planned == 1..(IF stage = "table" THEN k ELSE k - 1)
PlanIntact ==
  /\ \A j \in Planned : Active(j) =>
       Holds(mem, source[j][2], PacketBytes[j], Packet(source[j][1], PacketBytes[j]))
  /\ \A j \in 1..(k - 1) : Active(j) => Holds(mem, table[j], TableBytes, Table(j))

\* Nothing is written where the tensors are: outside the holes.
Covers(r, a) == r[1] <= a /\ a < r[2]
StaysInHoles == \A a \in 0..Limit : mem[a] # Blank => \E h \in holes : Covers(h, a)

\* "Reserve descriptors before tensors. Their contents depend on final
\* addresses, but their undeduplicated size does not": with that size reserved
\* in one range, planning never fails, whatever other holes there are, however
\* the best fit uses them and whichever packets turn out to be equal.
ReservationSuffices == Reserve \in holes => stage # "failed"

=============================================================================
