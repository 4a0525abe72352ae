----------------------- MODULE HostDescriptorsProofs -----------------------
(***************************************************************************)
(* Theorems about HostDescriptors, for every number of phases, every       *)
(* packet length, every set of holes and every reservation.                *)
(*                                                                         *)
(* That nothing is overwritten follows from an invariant of the arena:     *)
(* its ranges are apart, lie in holes and have not been written.  That the *)
(* reservation suffices follows from one about its remainder: a best fit   *)
(* takes from the front of a range that begins at a word, so the           *)
(* reservation stays one range, and every request either shortens it by    *)
(* its own size or leaves it alone.                                        *)
(***************************************************************************)
EXTENDS HostDescriptors, TLAPS

\* The arena: ranges that are apart, unwritten and inside the holes.
Unwritten == \A r \in ranges : \A a \in 0..Limit : Covers(r, a) => mem[a] = Blank
InsideHoles == \A r \in ranges : \E h \in holes : h[1] <= r[1] /\ r[2] <= h[2]
ArenaInv == AreApart(ranges) /\ Unwritten /\ InsideHoles /\ StaysInHoles

\* What the cache and the descriptors point to is inside the tile and intact.
HoldsInside(bytes, start, size, content) ==
  start + size <= Limit /\ Holds(bytes, start, size, content)
CacheHolds == \A c \in cache : HoldsInside(mem, c.start, c.content.size, c.content)
SourceHolds ==
  \A j \in Planned : Active(j) =>
    /\ source[j] # <<>>
    /\ HoldsInside(mem, source[j][2], PacketBytes[j], Packet(source[j][1], PacketBytes[j]))
TableHolds ==
  \A j \in 1..(k - 1) : Active(j) => HoldsInside(mem, table[j], TableBytes, Table(j))

\* What is still to be placed fits what is left of the reservation.
Left == IF stage = "packet" THEN Needs[k] ELSE TableBytes + Needs[k + 1]
HasRange(rs, n) == n > 0 => \E r \in rs : r[1] % 4 = 0 /\ r[2] - r[1] >= n
ReserveLeft ==
  Reserve \in holes /\ stage # "done" => stage # "failed" /\ HasRange(ranges, Left)

IInv == TypeOK /\ ArenaInv /\ CacheHolds /\ SourceHolds /\ TableHolds /\ ReserveLeft

-----------------------------------------------------------------------------

\* The next word boundary: at least the address, less than a word away, the
\* address itself if it is one.
LEMMA AlignUpIs ==
  ASSUME NEW a \in Nat
  PROVE  AlignUp(a) \in Nat /\ AlignUp(a) >= a /\ (a % 4 = 0 => AlignUp(a) = a)
         /\ AlignUp(a) % 4 = 0
BY DEF AlignUp

\* A packet or a table is not what an unwritten byte holds.
LEMMA ContentsAreNotBlank ==
  /\ \A w, n : Packet(w, n) # Blank
  /\ \A j : Table(j) # Blank
<1>1. \A w, n : Packet(w, n).kind = "packet" BY DEF Packet
<1>2. \A j : Table(j).kind = "table" BY DEF Table
<1>3. Blank.kind = "blank" BY DEF Blank
<1> QED BY <1>1, <1>2, <1>3

\* The type of what is kept when size bytes are taken from a range.
LEMMA AllocatedRange ==
  ASSUME TypeOK, NEW size \in Nat, size > 0, size % 4 = 0,
         NEW r \in ranges, Best(r, size)
  PROVE  /\ r \in Ranges /\ r[1] \in Nat /\ r[2] \in Nat /\ r[2] <= Limit
         /\ AlignUp(r[1]) \in Nat /\ r[1] <= AlignUp(r[1])
         /\ AlignUp(r[1]) + size <= r[2]
         /\ Remainders(r, AlignUp(r[1]), AlignUp(r[1]) + size) \subseteq Ranges
         /\ \A s \in Remainders(r, AlignUp(r[1]), AlignUp(r[1]) + size) :
              /\ r[1] <= s[1] /\ s[2] <= r[2]
              /\ s[2] <= AlignUp(r[1]) \/ AlignUp(r[1]) + size <= s[1]
         /\ AreApart(Remainders(r, AlignUp(r[1]), AlignUp(r[1]) + size))
<1>1. r \in Ranges /\ r[1] \in Nat /\ r[2] \in Nat /\ r[2] <= Limit
  BY HoleAssumption DEF TypeOK, Ranges
<1>2. AlignUp(r[1]) \in Nat /\ r[1] <= AlignUp(r[1])
  BY <1>1, AlignUpIs
<1>3. AlignUp(r[1]) + size <= r[2]
  BY DEF Best, Fits
<1> DEFINE m == AlignUp(r[1])
<1> HIDE DEF m
<1>4. /\ Remainders(r, m, m + size) \subseteq Ranges
      /\ \A s \in Remainders(r, m, m + size) :
              /\ r[1] <= s[1] /\ s[2] <= r[2]
              /\ s[2] <= m \/ m + size <= s[1]
      /\ AreApart(Remainders(r, m, m + size))
  BY <1>1, <1>2, <1>3, HoleAssumption DEF m, Remainders, Ranges, AreApart, Apart
<1> QED BY <1>1, <1>2, <1>3, <1>4 DEF m

\* An allocation keeps the arena's invariant, writes only bytes that were not
\* written, and fills the place it returns.
LEMMA AllocateKeepsArena ==
  ASSUME TypeOK, ArenaInv, NEW size \in Nat, size > 0, size % 4 = 0,
         NEW content \in Contents, NEW start \in 0..Limit,
         Allocate(size, content, start), holes' = holes
  PROVE  /\ ranges' \subseteq Ranges /\ mem' \in [0..Limit -> Contents]
         /\ ArenaInv'
         /\ \A a \in 0..Limit : mem[a] # Blank => mem'[a] = mem[a]
         /\ HoldsInside(mem', start, size, content)
<1>1. PICK r \in ranges : /\ Best(r, size) /\ start = AlignUp(r[1])
                          /\ ranges' = (ranges \ {r}) \cup Remainders(r, start, start + size)
                          /\ mem' = [a \in 0..Limit |->
                               IF start <= a /\ a < start + size THEN content ELSE mem[a]]
  BY DEF Allocate
<1> DEFINE rest == Remainders(r, start, start + size)
<1>2. /\ r \in Ranges /\ r[1] \in Nat /\ r[2] \in Nat /\ r[2] <= Limit
      /\ r[1] <= start /\ start + size <= r[2]
      /\ rest \subseteq Ranges /\ AreApart(rest)
      /\ \A s \in rest : /\ r[1] <= s[1] /\ s[2] <= r[2]
                         /\ s[2] <= start \/ start + size <= s[1]
  BY <1>1, AllocatedRange
<1>3. Limit \in Nat /\ start \in Nat
  BY HoleAssumption
<1> HIDE DEF rest
<1>4. ranges' = (ranges \ {r}) \cup rest
  BY <1>1 DEF rest
<1>5. \A s \in Ranges : s[1] \in Nat /\ s[2] \in Nat /\ s[1] < s[2] /\ s[2] <= Limit
  BY <1>3 DEF Ranges
<1>6. ranges' \subseteq Ranges
  BY <1>2, <1>4 DEF TypeOK
<1>7. mem' \in [0..Limit -> Contents]
  BY <1>1 DEF TypeOK
<1>8. \A s \in ranges : s # r => Apart(s, r)
  BY DEF ArenaInv, AreApart
<1>9. AreApart(ranges')
  <2> SUFFICES ASSUME NEW s \in ranges', NEW t \in ranges', s # t PROVE Apart(s, t)
    BY DEF AreApart
  <2>1. CASE s \in ranges \ {r} /\ t \in ranges \ {r}
    BY <2>1 DEF ArenaInv, AreApart
  <2>2. CASE s \in rest /\ t \in rest
    BY <2>2, <1>2 DEF AreApart
  <2>3. CASE s \in ranges \ {r} /\ t \in rest
    BY <2>3, <1>2, <1>5, <1>8 DEF Apart, TypeOK
  <2>4. CASE s \in rest /\ t \in ranges \ {r}
    BY <2>4, <1>2, <1>5, <1>8 DEF Apart, TypeOK
  <2> QED BY <1>4, <2>1, <2>2, <2>3, <2>4
<1>10. \A a \in 0..Limit : start <= a /\ a < start + size => Covers(r, a) /\ mem[a] = Blank
  BY <1>2, <1>3 DEF ArenaInv, Unwritten, Covers
<1>11. \A a \in 0..Limit : mem[a] # Blank => mem'[a] = mem[a]
  BY <1>1, <1>10
<1>12. Unwritten'
  <2> SUFFICES ASSUME NEW s \in ranges', NEW a \in 0..Limit, Covers(s, a) PROVE mem'[a] = Blank
    BY DEF Unwritten, Covers
  <2>1. CASE s \in ranges \ {r}
    <3>1. s \in Ranges /\ Apart(s, r)
      BY <2>1, <1>8 DEF TypeOK
    <3>2. ~(start <= a /\ a < start + size)
      BY <3>1, <1>2, <1>3, <1>5 DEF Apart, Covers
    <3> QED BY <2>1, <3>2, <1>1 DEF ArenaInv, Unwritten
  <2>2. CASE s \in rest
    BY <2>2, <1>1, <1>2, <1>3, <1>5 DEF Covers, ArenaInv, Unwritten
  <2> QED BY <1>4, <2>1, <2>2
<1>13. InsideHoles'
  <2> SUFFICES ASSUME NEW s \in ranges' PROVE \E h \in holes : h[1] <= s[1] /\ s[2] <= h[2]
    BY DEF InsideHoles
  <2>1. CASE s \in ranges \ {r}
    BY <2>1 DEF ArenaInv, InsideHoles
  <2>2. CASE s \in rest
    <3>1. PICK h \in holes : h[1] <= r[1] /\ r[2] <= h[2]
      BY DEF ArenaInv, InsideHoles
    <3>2. h \in Ranges
      BY <3>1, HoleAssumption DEF TypeOK
    <3> QED BY <2>2, <3>1, <3>2, <1>2, <1>5
  <2> QED BY <1>4, <2>1, <2>2
<1>14. StaysInHoles'
  <2> SUFFICES ASSUME NEW a \in 0..Limit, mem'[a] # Blank PROVE \E h \in holes : Covers(h, a)
    BY DEF StaysInHoles, Covers
  <2>1. CASE start <= a /\ a < start + size
    <3>1. PICK h \in holes : h[1] <= r[1] /\ r[2] <= h[2]
      BY DEF ArenaInv, InsideHoles
    <3>2. h \in Ranges
      BY <3>1, HoleAssumption DEF TypeOK
    <3> QED BY <2>1, <3>1, <3>2, <1>2, <1>3, <1>5 DEF Covers
  <2>2. CASE ~(start <= a /\ a < start + size)
    BY <2>2, <1>1 DEF ArenaInv, StaysInHoles
  <2> QED BY <2>1, <2>2
<1>15. HoldsInside(mem', start, size, content)
  BY <1>1, <1>2, <1>3 DEF HoldsInside, Holds
<1> QED BY <1>6, <1>7, <1>9, <1>11, <1>12, <1>13, <1>14, <1>15 DEF ArenaInv

\* What was written stays when only unwritten bytes are.
LEMMA HoldsIsKept ==
  ASSUME NEW start \in 0..Limit, NEW size \in Nat, NEW content, content # Blank,
         HoldsInside(mem, start, size, content),
         \A a \in 0..Limit : mem[a] # Blank => mem'[a] = mem[a]
  PROVE  HoldsInside(mem', start, size, content)
BY HoleAssumption DEF HoldsInside, Holds

\* An allocation takes its size from the reservation's remainder, or nothing.
LEMMA AllocateKeepsReserve ==
  ASSUME TypeOK, ArenaInv, NEW size \in Nat, size > 0, size % 4 = 0,
         NEW content, NEW start \in 0..Limit, Allocate(size, content, start),
         NEW n \in Nat, n >= size, HasRange(ranges, n)
  PROVE  (n - size > 0) => \E r \in ranges' : r[1] % 4 = 0 /\ r[2] - r[1] >= n - size
<1>1. PICK r \in ranges : /\ Best(r, size) /\ start = AlignUp(r[1])
                          /\ ranges' = (ranges \ {r}) \cup Remainders(r, start, start + size)
  BY DEF Allocate
<1>2. PICK R \in ranges : R[1] % 4 = 0 /\ R[2] - R[1] >= n
  BY DEF HasRange
<1>3. R[1] \in Nat /\ R[2] \in Nat
  BY HoleAssumption DEF TypeOK, Ranges
<1>4. CASE R # r
  BY <1>1, <1>2, <1>3, <1>4
<1>5. CASE R = r
  <2>1. start = R[1]
    BY <1>1, <1>2, <1>3, <1>5, AlignUpIs
  <2> SUFFICES ASSUME n - size > 0
               PROVE  \E s \in ranges' : s[1] % 4 = 0 /\ s[2] - s[1] >= n - size
    OBVIOUS
  <2>2. start + size < R[2]
    BY <2>1, <1>2, <1>3
  <2>3. <<start + size, R[2]>> \in ranges'
    BY <2>2, <1>1, <1>5 DEF Remainders
  <2>4. (start + size) % 4 = 0 /\ R[2] - (start + size) >= n - size
    BY <2>1, <1>2, <1>3
  <2> QED BY <2>3, <2>4
<1> QED BY <1>4, <1>5

\* With room in the reservation a request is not refused.
LEMMA ReserveHasRoom ==
  ASSUME TypeOK, NEW size \in Nat, NEW n \in Nat, n > 0, n >= size, HasRange(ranges, n)
  PROVE  ~NoRoom(size)
<1>1. PICK R \in ranges : R[1] % 4 = 0 /\ R[2] - R[1] >= n
  BY DEF HasRange
<1>2. R[1] \in Nat /\ R[2] \in Nat
  BY HoleAssumption DEF TypeOK, Ranges
<1>3. AlignUp(R[1]) = R[1]
  BY <1>1, <1>2, AlignUpIs
<1> QED BY <1>1, <1>2, <1>3 DEF NoRoom, Fits

\* How much the phase at hand needs: its packet and its table, then the rest.
LEMMA LeftIs ==
  ASSUME TypeOK
  PROVE  /\ k \in Nat /\ N \in Nat
         /\ k <= N => /\ Needs[k] \in Nat /\ Needs[k + 1] \in Nat /\ PacketBytes[k] \in Nat
                      /\ PacketBytes[k] % 4 = 0 /\ PacketBytes[k] <= Needs[k]
                      /\ Active(k) => PacketBytes[k] > 0 /\ 
                            Needs[k] = PacketBytes[k] + TableBytes + Needs[k + 1]
                      /\ ~Active(k) => Needs[k] = Needs[k + 1]
<1>1. k \in Nat /\ N \in Nat /\ k >= 1
  BY PhaseAssumption DEF TypeOK
<1> SUFFICES ASSUME k <= N
             PROVE  /\ Needs[k] \in Nat /\ Needs[k + 1] \in Nat /\ PacketBytes[k] \in Nat
                    /\ PacketBytes[k] % 4 = 0 /\ PacketBytes[k] <= Needs[k]
                    /\ Active(k) => /\ PacketBytes[k] > 0
                                    /\ Needs[k] = PacketBytes[k] + TableBytes + Needs[k + 1]
                    /\ ~Active(k) => Needs[k] = Needs[k + 1]
  BY <1>1
<1>2. k \in 1..N /\ k \in 1..(N + 1) /\ k + 1 \in 1..(N + 1)
  BY <1>1
<1>3. PacketBytes[k] \in Nat /\ PacketBytes[k] % 4 = 0
  BY <1>2, PhaseAssumption, PacketAssumption
<1>4. /\ Needs[k] \in Nat /\ Needs[k + 1] \in Nat
      /\ Needs[k] = Needs[k + 1]
           + (IF PacketBytes[k] > 0 THEN PacketBytes[k] + TableBytes ELSE 0)
  BY <1>2, NeedsAssumption
<1> QED BY <1>3, <1>4 DEF Active, TableBytes

\* Planning begins with blank memory, the given holes and the whole reserve.
LEMMA InitIInv == Init => IInv
<1> SUFFICES ASSUME Init PROVE IInv
  OBVIOUS
<1>1. TypeOK
  BY PhaseAssumption, HoleAssumption DEF Init, TypeOK, Contents
<1>2. ArenaInv
  <2>1. AreApart(ranges) BY HoleAssumption DEF Init
  <2>2. Unwritten BY DEF Init, Unwritten
  <2>3. InsideHoles BY <1>1, HoleAssumption DEF Init, InsideHoles, TypeOK, Ranges
  <2>4. StaysInHoles BY DEF Init, StaysInHoles
  <2> QED BY <2>1, <2>2, <2>3, <2>4 DEF ArenaInv
<1>3. CacheHolds
  BY DEF Init, CacheHolds
<1>4. SourceHolds
  BY PhaseAssumption DEF Init, SourceHolds, Planned
<1>6. TableHolds
  BY PhaseAssumption DEF Init, TableHolds
<1>5. ReserveLeft
  BY HoleAssumption, ReserveAssumption DEF Init, ReserveLeft, Left, HasRange
<1> QED BY <1>1, <1>2, <1>3, <1>4, <1>5, <1>6 DEF IInv

\* A table already placed is kept by every allocation.
LEMMA TableIsKept ==
  ASSUME TypeOK, TableHolds, NEW j \in 1..(k - 1), Active(j),
         \A a \in 0..Limit : mem[a] # Blank => mem'[a] = mem[a]
  PROVE  HoldsInside(mem', table[j], TableBytes, Table(j))
<1>1. HoldsInside(mem, table[j], TableBytes, Table(j))
  BY DEF TableHolds
<1>2. table[j] \in 0..Limit /\ TableBytes \in Nat /\ Table(j) # Blank
  BY PhaseAssumption, ContentsAreNotBlank DEF TypeOK, TableBytes
<1> QED BY <1>1, <1>2, HoldsIsKept

\* A shared packet keeps the invariant: the cache knows where it is.
LEMMA SharePacketKeeps ==
  ASSUME IInv, NEW w \in Words, SharePacket(w) PROVE IInv'
<1>1. PICK c \in Cached(w, PacketBytes[k]) : source' = [source EXCEPT ![k] = <<w, c.start>>]
  BY DEF SharePacket
<1>2. /\ TypeOK /\ ArenaInv /\ CacheHolds /\ SourceHolds /\ TableHolds /\ ReserveLeft
      /\ k \in 1..N /\ k \in Nat /\ Active(k) /\ stage = "packet"
      /\ stage' = "table" /\ k' = k /\ holes' = holes /\ ranges' = ranges
      /\ cache' = cache /\ table' = table /\ mem' = mem
  BY LeftIs DEF IInv, SharePacket, TypeOK
<1>3. /\ c \in cache /\ c.content = Packet(w, PacketBytes[k]) /\ c.start \in 0..Limit
      /\ c.content.size = PacketBytes[k]
  BY <1>1, <1>2 DEF Cached, TypeOK, Packet
<1>4. TypeOK'
  <2>1. source' \in [1..N -> {<<>>} \cup (Words \X (0..Limit))]
    BY <1>1, <1>2, <1>3 DEF TypeOK
  <2> QED BY <1>2, <2>1 DEF TypeOK, Active
<1>5. ArenaInv' /\ CacheHolds' /\ TableHolds'
  BY <1>2 DEF ArenaInv, Unwritten, InsideHoles, StaysInHoles, CacheHolds, TableHolds, Active
<1>6. SourceHolds'
  <2> SUFFICES ASSUME NEW j \in 1..k, Active(j)
               PROVE  /\ source'[j] # <<>>
                      /\ HoldsInside(mem, source'[j][2], PacketBytes[j],
                                     Packet(source'[j][1], PacketBytes[j]))
    BY <1>2 DEF SourceHolds, Planned, Active
  <2>1. CASE j = k
    <3>1. source'[j] = <<w, c.start>>
      BY <2>1, <1>1, <1>2 DEF TypeOK
    <3> QED BY <2>1, <3>1, <1>2, <1>3 DEF CacheHolds
  <2>2. CASE j # k
    <3>1. j \in 1..(k - 1) /\ j \in 1..N
      BY <2>2, <1>2, PhaseAssumption
    <3>2. source'[j] = source[j]
      BY <2>2, <3>1, <1>1, <1>2 DEF TypeOK
    <3> QED BY <3>1, <3>2, <1>2 DEF SourceHolds, Planned
  <2> QED BY <2>1, <2>2
<1>7. ReserveLeft'
  <2> SUFFICES ASSUME Reserve \in holes PROVE HasRange(ranges, TableBytes + Needs[k + 1])
    BY <1>2 DEF ReserveLeft, Left
  <2>1. HasRange(ranges, Needs[k])
    BY <1>2 DEF ReserveLeft, Left
  <2>2. /\ Needs[k] \in Nat /\ TableBytes + Needs[k + 1] \in Nat
        /\ Needs[k] >= TableBytes + Needs[k + 1] /\ Needs[k] > 0
    BY <1>2, LeftIs DEF TableBytes
  <2>3. PICK r \in ranges : r[1] % 4 = 0 /\ r[2] - r[1] >= Needs[k]
    BY <2>1, <2>2 DEF HasRange
  <2>4. r[1] \in Nat /\ r[2] \in Nat
    BY <1>2, HoleAssumption DEF TypeOK, Ranges
  <2> QED BY <2>2, <2>3, <2>4 DEF HasRange
<1> QED BY <1>4, <1>5, <1>6, <1>7 DEF IInv

\* A new packet keeps the invariant.
LEMMA PlacePacketKeeps ==
  ASSUME IInv, NEW w \in Words, PlacePacket(w) PROVE IInv'
<1> DEFINE size == PacketBytes[k]
           content == Packet(w, size)
<1>1. PICK start \in 0..Limit :
        /\ Allocate(size, content, start)
        /\ source' = [source EXCEPT ![k] = <<w, start>>]
        /\ cache' = cache \cup {[content |-> content, start |-> start]}
  BY DEF PlacePacket
<1>2. /\ TypeOK /\ ArenaInv /\ CacheHolds /\ SourceHolds /\ TableHolds /\ ReserveLeft
      /\ k \in 1..N /\ k \in Nat /\ Active(k) /\ stage = "packet"
      /\ stage' = "table" /\ k' = k /\ holes' = holes /\ table' = table
  BY LeftIs DEF IInv, PlacePacket, TypeOK
<1>3. /\ size \in Nat /\ size > 0 /\ size % 4 = 0
      /\ Needs[k] \in Nat /\ Needs[k + 1] \in Nat
      /\ Needs[k] = size + TableBytes + Needs[k + 1]
  BY <1>2, LeftIs
<1>4. content \in Contents /\ content # Blank /\ content.size = size
  BY <1>2, ContentsAreNotBlank DEF Contents, Packet
<1> HIDE DEF size, content
<1>5. /\ ranges' \subseteq Ranges /\ mem' \in [0..Limit -> Contents] /\ ArenaInv'
      /\ \A a \in 0..Limit : mem[a] # Blank => mem'[a] = mem[a]
      /\ HoldsInside(mem', start, size, content)
  BY <1>1, <1>2, <1>3, <1>4, AllocateKeepsArena
<1>6. TypeOK'
  BY <1>1, <1>2, <1>5 DEF TypeOK, size, content
<1>7. CacheHolds'
  <2> SUFFICES ASSUME NEW c \in cache' PROVE HoldsInside(mem', c.start, c.content.size, c.content)
    BY DEF CacheHolds
  <2>1. CASE c \in cache
    <3>1. c.start \in 0..Limit /\ c.content # Blank /\ c.content.size \in Nat
      BY <2>1, <1>2, ContentsAreNotBlank, PhaseAssumption DEF TypeOK, Packet
    <3> QED BY <2>1, <3>1, <1>2, <1>5, HoldsIsKept DEF CacheHolds
  <2>2. CASE c = [content |-> content, start |-> start]
    BY <2>2, <1>4, <1>5
  <2> QED BY <1>1, <2>1, <2>2
<1>8. SourceHolds'
  <2> SUFFICES ASSUME NEW j \in 1..k, Active(j)
               PROVE  /\ source'[j] # <<>>
                      /\ HoldsInside(mem', source'[j][2], PacketBytes[j], Packet(source'[j][1], PacketBytes[j]))
    BY <1>2 DEF SourceHolds, Planned, Active
  <2>1. CASE j = k
    <3>1. source'[j] = <<w, start>>
      BY <2>1, <1>1, <1>2 DEF TypeOK
    <3> QED BY <3>1, <2>1, <1>5 DEF size, content
  <2>2. CASE j # k
    <3>1. j \in 1..(k - 1) /\ j \in 1..N
      BY <2>2, <1>2, PhaseAssumption
    <3>2. source'[j] = source[j] /\ source[j] # <<>> /\ source[j] \in Words \X (0..Limit)
      BY <2>2, <3>1, <1>1, <1>2 DEF TypeOK, SourceHolds, Planned
    <3>3. HoldsInside(mem, source[j][2], PacketBytes[j], Packet(source[j][1], PacketBytes[j]))
      BY <3>1, <1>2 DEF SourceHolds, Planned
    <3>4. source[j][2] \in 0..Limit /\ PacketBytes[j] \in Nat
          /\ Packet(source[j][1], PacketBytes[j]) # Blank
      BY <3>1, <3>2, PhaseAssumption, ContentsAreNotBlank
    <3>5. HoldsInside(mem', source[j][2], PacketBytes[j], Packet(source[j][1], PacketBytes[j]))
      BY <3>2, <3>3, <3>4, <1>5, HoldsIsKept
    <3> QED BY <3>2, <3>5
  <2> QED BY <2>1, <2>2
<1>10. TableHolds'
  <2> SUFFICES ASSUME NEW j \in 1..(k - 1), Active(j)
               PROVE  HoldsInside(mem', table[j], TableBytes, Table(j))
    BY <1>2 DEF TableHolds, Active, PlacePacket, TableBytes, Table
  <2> QED BY <1>2, <1>5, TableIsKept
<1>9. ReserveLeft'
  <2> SUFFICES ASSUME Reserve \in holes PROVE HasRange(ranges', TableBytes + Needs[k + 1])
    BY <1>2 DEF ReserveLeft, Left, HasRange
  <2>1. HasRange(ranges, Needs[k])
    BY <1>2 DEF ReserveLeft, Left
  <2>2. Needs[k] >= size /\ Needs[k] - size = TableBytes + Needs[k + 1]
    BY <1>3 DEF TableBytes
  <2> QED BY <2>1, <2>2, <1>1, <1>2, <1>3, AllocateKeepsReserve DEF HasRange
<1> QED BY <1>5, <1>6, <1>7, <1>8, <1>9, <1>10 DEF IInv

\* A table keeps the invariant.
LEMMA PlaceTableKeeps ==
  ASSUME IInv, PlaceTable PROVE IInv'
<1>1. PICK start \in 0..Limit : /\ Allocate(TableBytes, Table(k), start)
                               /\ table' = [table EXCEPT ![k] = start]
  BY DEF PlaceTable
<1>2. /\ TypeOK /\ ArenaInv /\ CacheHolds /\ SourceHolds /\ TableHolds /\ ReserveLeft
      /\ k \in 1..N /\ k \in Nat /\ Active(k) /\ stage = "table"
      /\ stage' = "packet" /\ k' = k + 1
      /\ holes' = holes /\ cache' = cache /\ source' = source
  BY LeftIs DEF IInv, PlaceTable, TypeOK
<1>3. TableBytes \in Nat /\ TableBytes > 0 /\ TableBytes % 4 = 0 /\ Needs[k + 1] \in Nat
  BY <1>2, LeftIs DEF TableBytes
<1>4. Table(k) \in Contents /\ Table(k) # Blank
  BY <1>2, ContentsAreNotBlank DEF Contents
<1>5. /\ ranges' \subseteq Ranges /\ mem' \in [0..Limit -> Contents] /\ ArenaInv'
      /\ \A a \in 0..Limit : mem[a] # Blank => mem'[a] = mem[a]
      /\ HoldsInside(mem', start, TableBytes, Table(k))
  BY <1>1, <1>2, <1>3, <1>4, AllocateKeepsArena
<1>6. TypeOK'
  BY <1>1, <1>2, <1>5, PhaseAssumption DEF TypeOK
<1>7. CacheHolds'
  <2> SUFFICES ASSUME NEW c \in cache PROVE HoldsInside(mem', c.start, c.content.size, c.content)
    BY <1>2 DEF CacheHolds
  <2>1. c.start \in 0..Limit /\ c.content # Blank /\ c.content.size \in Nat
    BY <1>2, ContentsAreNotBlank, PhaseAssumption DEF TypeOK, Packet
  <2> QED BY <2>1, <1>2, <1>5, HoldsIsKept DEF CacheHolds
<1>8. SourceHolds'
  <2> SUFFICES ASSUME NEW j \in 1..k, Active(j)
               PROVE  /\ source[j] # <<>>
                      /\ HoldsInside(mem', source[j][2], PacketBytes[j], Packet(source[j][1], PacketBytes[j]))
    BY <1>2 DEF SourceHolds, Planned, Active
  <2>1. /\ source[j] # <<>> /\ source[j] \in Words \X (0..Limit) /\ j \in 1..N
        /\ HoldsInside(mem, source[j][2], PacketBytes[j], Packet(source[j][1], PacketBytes[j]))
    <3>1. j \in 1..N
      BY <1>2, PhaseAssumption
    <3>2. j \in Planned
      BY <1>2 DEF Planned
    <3>3. source[j] \in {<<>>} \cup (Words \X (0..Limit))
      BY <1>2, <3>1 DEF TypeOK
    <3> QED BY <1>2, <3>1, <3>2, <3>3 DEF SourceHolds
  <2>2. source[j][2] \in 0..Limit /\ PacketBytes[j] \in Nat
        /\ Packet(source[j][1], PacketBytes[j]) # Blank
    BY <2>1, PhaseAssumption, ContentsAreNotBlank
  <2> QED BY <2>1, <2>2, <1>5, HoldsIsKept
<1>10. TableHolds'
  <2> SUFFICES ASSUME NEW j \in 1..k, Active(j)
               PROVE  HoldsInside(mem', table'[j], TableBytes, Table(j))
    BY <1>2 DEF TableHolds, Active, TableBytes, Table
  <2>1. CASE j = k
    <3>1. table'[j] = start
      BY <2>1, <1>1, <1>2 DEF TypeOK
    <3> QED BY <2>1, <3>1, <1>5
  <2>2. CASE j # k
    <3>1. j \in 1..(k - 1)
      BY <2>2, <1>2
    <3>2. table'[j] = table[j]
      BY <2>2, <3>1, <1>1, <1>2, PhaseAssumption DEF TypeOK
    <3> QED BY <3>1, <3>2, <1>2, <1>5, TableIsKept
  <2> QED BY <2>1, <2>2
<1>9. ReserveLeft'
  <2> SUFFICES ASSUME Reserve \in holes PROVE HasRange(ranges', Needs[k + 1])
    BY <1>2 DEF ReserveLeft, Left, HasRange
  <2>1. HasRange(ranges, TableBytes + Needs[k + 1])
    BY <1>2 DEF ReserveLeft, Left
  <2> QED BY <2>1, <1>1, <1>2, <1>3, AllocateKeepsReserve DEF HasRange
<1> QED BY <1>5, <1>6, <1>7, <1>8, <1>9, <1>10 DEF IInv

\* Every step of the planning keeps the invariant.
LEMMA NextIInv == IInv /\ [Next]_vars => IInv'
<1> SUFFICES ASSUME IInv, [Next]_vars PROVE IInv'
  OBVIOUS
<1> USE DEF IInv, ArenaInv, Unwritten, InsideHoles, StaysInHoles, CacheHolds, HoldsInside,
            Holds, SourceHolds, TableHolds, ReserveLeft, HasRange
<1>1. CASE SkipPhase
  <2>1. TypeOK' BY <1>1, LeftIs, SMTT(30) DEF SkipPhase, TypeOK
  <2>4. TableHolds'
    <3>1. \A j \in 1..k : Active(j) => j \in 1..(k - 1)
      BY <1>1, LeftIs DEF SkipPhase, TypeOK
    <3> QED BY <1>1, <3>1, LeftIs DEF SkipPhase, TypeOK, Active
  <2>2. SourceHolds'
    <3>1. \A j \in 1..k : Active(j) => j \in 1..(k - 1)
      BY <1>1, LeftIs DEF SkipPhase, TypeOK
    <3> QED BY <1>1, <3>1, LeftIs DEF SkipPhase, Planned, TypeOK, Active
  <2>3. ReserveLeft' BY <1>1, LeftIs DEF SkipPhase, Left
  <2> QED BY <1>1, <2>1, <2>2, <2>3, <2>4 DEF SkipPhase
<1>2. ASSUME NEW w \in Words, SharePacket(w) PROVE IInv'
  BY <1>2, SharePacketKeeps
<1>3. ASSUME NEW w \in Words, PlacePacket(w) PROVE IInv'
  BY <1>3, PlacePacketKeeps
<1>4. CASE PlaceTable
  BY <1>4, PlaceTableKeeps
<1>5. CASE Finish
  BY <1>5 DEF Finish, TypeOK, Planned, Left
<1>6. CASE Fail
  <2>1. Reserve \notin holes
    <3> SUFFICES ASSUME Reserve \in holes PROVE FALSE
      OBVIOUS
    <3>1. CASE stage = "packet" /\ k <= N /\ Active(k) /\ NoRoom(PacketBytes[k])
      <4>1. HasRange(ranges, Needs[k])
        BY <3>1 DEF Left
      <4> QED BY <3>1, <4>1, LeftIs, ReserveHasRoom
    <3>2. CASE stage = "table" /\ NoRoom(TableBytes)
      <4>1. HasRange(ranges, TableBytes + Needs[k + 1]) /\ k <= N
        BY <3>2 DEF Left, TypeOK
      <4> QED BY <3>2, <4>1, LeftIs, ReserveHasRoom DEF TableBytes
    <3> QED BY <1>6, <3>1, <3>2 DEF Fail
  <2>2. TypeOK' BY <1>6 DEF Fail, TypeOK
  <2>3. SourceHolds'
    <3>1. Planned' \subseteq Planned
      BY <1>6, LeftIs DEF Fail, Planned
    <3> QED BY <1>6, <3>1 DEF Fail, Active
  <2> QED BY <1>6, <2>1, <2>2, <2>3 DEF Fail
<1>7. CASE UNCHANGED vars
  BY <1>7 DEF vars, TypeOK, Planned, Left
<1> QED BY <1>1, <1>2, <1>3, <1>4, <1>5, <1>6, <1>7 DEF Next, Over

\* The invariant holds in every reachable state.
THEOREM IInvHolds == Spec => []IInv
BY InitIInv, NextIInv, PTL DEF Spec

\* The ranges of the arena are never empty and the plan keeps its types.
THEOREM PlanTypes == Spec => []TypeOK
<1>1. IInv => TypeOK BY DEF IInv
<1> QED BY IInvHolds, <1>1, PTL

\* Every descriptor is where the call expects it and points to the words its
\* phase needs.
THEOREM PlanStaysIntact == Spec => []PlanIntact
<1>1. IInv => PlanIntact
  BY DEF IInv, SourceHolds, TableHolds, HoldsInside, PlanIntact
<1> QED BY IInvHolds, <1>1, PTL

\* Nothing is written outside the holes.
THEOREM PlanStaysInHoles == Spec => []StaysInHoles
<1>1. IInv => StaysInHoles BY DEF IInv, ArenaInv
<1> QED BY IInvHolds, <1>1, PTL

\* With the size of the first pass reserved, planning does not fail.
THEOREM ReserveIsEnough == Spec => []ReservationSuffices
<1>1. IInv => ReservationSuffices BY DEF IInv, ReserveLeft, ReservationSuffices
<1> QED BY IInvHolds, <1>1, PTL

=============================================================================
