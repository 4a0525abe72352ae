---------------------------- MODULE ExchangeRows ----------------------------
(***************************************************************************)
(* The exchange rows of one tile: where layout_exchange_rows places them,  *)
(* what the emitted supervisor code patches into them, and the loop of a   *)
(* structured repeat around them.  Phases whose rows differ in addresses   *)
(* only share one row in SRAM; a phase in a repeat rewrites its own row    *)
(* for every iteration.  Addresses count words, so the eight bytes a row   *)
(* is aligned to are 2.                                                    *)
(***************************************************************************)
EXTENDS Integers, Sequences, FiniteSets, Functions

CONSTANTS
  Steps,        \* the tile's steps: [exchange |-> p] or [repeat |-> <<p, ...>>]
  Count,        \* iterations of a repeat
  Invocations,  \* how often the program is run
  Rows,         \* the rows a phase may have on this tile
  Progressions, \* address fields a repeat patch takes, one per iteration
  Span,         \* values of an address field
  Modulus,      \* 2 ^ width of an instruction word
  Bulk,         \* patch lists this long are spread over the workers
  Workers,      \* worker contexts of a tile
  Base, Stride  \* of the pointer a repeat iterates

ASSUME BulkAssumption == Workers \in Nat \ {0} /\ Bulk \in Nat /\ Bulk >= Workers

Return == 0
InactiveRow == <<Return>>
NoPhase == 0
IsRepeat(s) == "repeat" \in DOMAIN s

VARIABLES
  tile,       \* the phases of the tile: words, repeat patches, moving base
  rowPc,      \* layout, load, rejected, fetch, setup, arm, run, done
  cursor,     \* next free word of the exchange table
  shared,     \* rows placed so far, by key
  placed,     \* the placed exchange of each phase laid out so far
  tableMem,   \* the tile's exchange table
  at,         \* instruction of the emitted code: the step and the place in its code
  frame,      \* the stack frame of the repeat: remaining, pointer, profile
  base,       \* OUTGOING_BASE
  patched,    \* entry of the setup list each that stores it is at, 0 at its end
  ran,        \* calls of each phase's row in this invocation
  sampled,    \* the calls around which cycles were sampled
  invocation

rowVars == <<tile, rowPc, cursor, shared, placed, tableMem, at, frame, base, patched,
          ran, sampled, invocation>>

Body(s) == IF IsRepeat(s) THEN s.repeat ELSE <<s.exchange>>
Phases == UNION {Range(Body(Steps[i])) : i \in DOMAIN Steps}
Repeated == UNION {Range(Steps[i].repeat) : i \in {j \in DOMAIN Steps : IsRepeat(Steps[j])}}

\* A phase is run at one place of the program.
ASSUME StepsAssumption ==
  /\ Count \in Nat \ {0} /\ Invocations \in Nat \ {0}
  /\ Steps \in Seq(Range(Steps))
  /\ \A i \in DOMAIN Steps : Body(Steps[i]) \in Seq(Nat \ {NoPhase})
  /\ \A i, j \in DOMAIN Steps :
       \A a \in DOMAIN Body(Steps[i]), b \in DOMAIN Body(Steps[j]) :
         Body(Steps[i])[a] = Body(Steps[j])[b] => i = j /\ a = b

\* The address is in the low bits of a word.
ASSUME RowsAssumption ==
  /\ Span \in Nat \ {0} /\ Modulus \in Nat \ {0} /\ Modulus % Span = 0
  /\ Rows \subseteq Seq(0..(Modulus - 1))
  /\ Progressions \subseteq [1..Count -> 0..(Span - 1)]
  /\ Base \in Int /\ Stride \in Int

(***************************************************************************)
(* Rows                                                                    *)
(***************************************************************************)
HasAddress(w) == w >= Span

NormalizedWords(row) ==
  [i \in DOMAIN row |-> IF HasAddress(row[i]) THEN row[i] - (row[i] % Span) ELSE row[i]]

NonzeroAddresses(row) == {i \in DOMAIN row : HasAddress(row[i]) /\ row[i] % Span # 0}

\* A word with another address.
Relocated(w, field) == w - (w % Span) + field

\* The words relocation leaves for each iteration, the first being that of the row.
Patches(row) ==
  UNION {{[i \in S |-> [n \in 1..Count |-> Relocated(row[i], fields[i][n])]] :
            fields \in {f \in [S -> Progressions] : \A i \in S : f[i][1] = row[i] % Span}} :
           S \in SUBSET {i \in DOMAIN row : HasAddress(row[i])}}

Outside == [words : Rows, patches : {<<>>}, moving : {FALSE}]

Inside == UNION {[words : {r}, patches : Patches(r), moving : BOOLEAN] : r \in Rows}

(***************************************************************************)
(* Layout                                                                  *)
(***************************************************************************)
KeyOf(p) == <<NormalizedWords(tile[p].words),
              IF tile[p].patches = <<>> THEN NoPhase ELSE p>>

Sharers(p) == {q \in Phases : KeyOf(q) = KeyOf(p)}
IsShared(p) == Sharers(p) # {p}

\* A BTreeSet yields its elements in ascending order.
Ascending(S) ==
  CHOOSE s \in [1..Cardinality(S) -> S] :
    Range(s) = S /\ \A j, k \in DOMAIN s : j < k => s[j] < s[k]

\* Mutant: an offset is listed where the first sharer's address is not zero.
SetupOffsetsOfFirst(p) ==
  IF IsShared(p)
    THEN Ascending(NonzeroAddresses(
           tile[CHOOSE q \in Sharers(p) : \A r \in Sharers(p) : q <= r].words))
    ELSE <<>>

\* Offsets a phase of a shared row sets: the union over all of its phases.
SetupOffsets(p) ==
  IF IsShared(p)
    THEN Ascending(UNION {NonzeroAddresses(tile[q].words) : q \in Sharers(p)})
    ELSE <<>>

RowWords(p) == IF IsShared(p) THEN KeyOf(p)[1] ELSE tile[p].words

Aligned(c) == c + (c % 2)

Place(c, words) == [address |-> c, words |-> words]

Behind(r) == r.address + Len(r.words)

\* A progression of three or more values needs no table.
Arithmetic(v) ==
  /\ Len(v) >= 3
  /\ \A k \in 1..(Len(v) - 1) :
       (v[k + 1] - v[k]) % Modulus = (v[2] - v[1]) % Modulus

PlaceRow(p) ==
  IF KeyOf(p) \in DOMAIN shared THEN shared[KeyOf(p)]
  ELSE LET program == Place(Aligned(cursor), RowWords(p))
       IN  [program |-> program, offsets |-> Place(Behind(program), SetupOffsets(p))]

TableSites(p) == Ascending({i \in DOMAIN tile[p].patches : ~Arithmetic(tile[p].patches[i])})

PlacePhase(p) ==
  LET row    == PlaceRow(p)
      free   == IF KeyOf(p) \in DOMAIN shared THEN cursor ELSE Behind(row.offsets)
      values == Place(free, [k \in DOMAIN SetupOffsets(p) |->
                               tile[p].words[SetupOffsets(p)[k]]])
      tables == [k \in DOMAIN TableSites(p) |->
                   Place(Behind(values) + (k - 1) * Count,
                         tile[p].patches[TableSites(p)[k]])]
  IN  /\ rowPc = "layout" /\ p \notin DOMAIN placed
      /\ \A q \in Phases : q < p => q \in DOMAIN placed
      /\ shared' = [k \in DOMAIN shared \cup {KeyOf(p)} |->
                      IF k = KeyOf(p) THEN row ELSE shared[k]]
      /\ placed' = [q \in DOMAIN placed \cup {p} |->
                      IF q = p THEN [row |-> row.program, offsets |-> row.offsets,
                                     values |-> values, tables |-> tables]
                      ELSE placed[q]]
      /\ cursor' = Behind(values) + Len(tables) * Count
      /\ rowPc' = IF DOMAIN placed \cup {p} = Phases THEN "load" ELSE "layout"
      /\ UNCHANGED <<tile, tableMem, at, frame, base, patched, ran, sampled, invocation>>

DataRows ==
  UNION {{placed[p].row, placed[p].offsets, placed[p].values} \cup Range(placed[p].tables) :
           p \in Phases}

\* Rows of no words exist only here: without a setup patch nothing is placed.
LoadedRows == {r \in DataRows : r.words # <<>>}

Conflict == \E r, s \in LoadedRows : r.address = s.address /\ r.words # s.words

RowCovers(r, a) == a \in r.address..(Behind(r) - 1)

LoadRows ==
  /\ rowPc = "load"
  /\ tableMem' = [a \in {b \in 0..cursor : \E r \in LoadedRows : RowCovers(r, b)} |->
               LET r == CHOOSE r \in LoadedRows : RowCovers(r, a)
               IN  r.words[a - r.address + 1]]
  /\ rowPc' = IF Conflict THEN "rejected" ELSE "fetch"
  /\ UNCHANGED <<tile, cursor, shared, placed, at, frame, base, patched,
                 ran, sampled, invocation>>

(***************************************************************************)
(* The emitted code                                                        *)
(***************************************************************************)
EmitStep(s) ==
  IF IsRepeat(s)
    THEN <<[op |-> "enter"]>> \o [i \in DOMAIN s.repeat |->
           [op |-> "exchange", phase |-> s.repeat[i], inside |-> TRUE]]
         \o <<[op |-> "next", start |-> Len(s.repeat)]>>
    ELSE <<[op |-> "exchange", phase |-> s.exchange, inside |-> FALSE]>>

Start == [step |-> 1, place |-> 1]
NoFrame == [remaining |-> 0, pointer |-> 0, profile |-> 1]
Code == EmitStep(Steps[at.step])
Instruction == Code[at.place]
Phase == Instruction.phase
Values == placed[Phase].values
Fetching == rowPc = "fetch" /\ at.step \in DOMAIN Steps
AtExchange == Fetching /\ Instruction.op = "exchange"

NextInstruction ==
  IF at.place < Len(Code) THEN [at EXCEPT !.place = @ + 1]
                          ELSE [step |-> at.step + 1, place |-> 1]

\* What a patch list entry does: read the offset, read the word, store it.
Entry(m, k) ==
  [m EXCEPT ![placed[Phase].row.address + m[placed[Phase].offsets.address + k - 1] - 1] =
               m[Values.address + k - 1]]

\* At most Bulk - 1 entries: the supervisor stores them itself.
SetupShort ==
  /\ AtExchange /\ Len(Values.words) < Bulk
  /\ patched' = IF Values.words = <<>> THEN <<>> ELSE <<1>>
  /\ rowPc' = "setup"
  /\ UNCHANGED <<tile, cursor, shared, placed, tableMem, at, frame, base, ran,
                 sampled, invocation>>

SetupBulk ==
  /\ AtExchange /\ Len(Values.words) >= Bulk
  /\ patched' = [w \in 1..Workers |-> w]
  /\ rowPc' = "setup"
  /\ UNCHANGED <<tile, cursor, shared, placed, tableMem, at, frame, base, ran,
                 sampled, invocation>>

\* A worker stores entry CTXTID first and tests its bound after the store.
NextEntry(k) == k + Len(patched)

StoreEntry(w) ==
  /\ rowPc = "setup" /\ patched[w] # 0
  /\ tableMem' = Entry(tableMem, patched[w])
  /\ patched' = [patched EXCEPT ![w] =
                   IF NextEntry(@) <= Len(Values.words) THEN NextEntry(@) ELSE 0]
  /\ UNCHANGED <<tile, rowPc, cursor, shared, placed, at, frame, base, ran,
                 sampled, invocation>>

SetupEnds ==
  /\ rowPc = "setup" /\ \A w \in DOMAIN patched : patched[w] = 0
  /\ rowPc' = "arm"
  /\ UNCHANGED <<tile, cursor, shared, placed, tableMem, at, frame, base, patched,
                 ran, sampled, invocation>>

\* The iteration the patch helpers select from the remaining count.
PatchIndex == Count - frame.remaining

ArithmeticValue(v) == (v[1] + PatchIndex * ((v[2] - v[1]) % Modulus)) % Modulus

TableValue(t) == tableMem[t.address + PatchIndex]

RepeatPatched ==
  LET v(i) == tile[Phase].patches[i]
      row  == placed[Phase].row
      new(a) == LET i == a - row.address + 1 IN
                IF Arithmetic(v(i)) THEN ArithmeticValue(v(i))
                ELSE TableValue(placed[Phase].tables[
                       CHOOSE k \in DOMAIN TableSites(Phase) : TableSites(Phase)[k] = i])
      sites == {row.address + i - 1 : i \in DOMAIN tile[Phase].patches}
  IN  [a \in DOMAIN tableMem |-> IF a \in sites THEN new(a) ELSE tableMem[a]]

\* Repeat patches, the base registers and the barrier, up to the call.
Arm ==
  /\ rowPc = "arm"
  /\ tableMem' = IF Instruction.inside THEN RepeatPatched ELSE tableMem
  /\ base' = IF tile[Phase].moving THEN frame.pointer ELSE 0
  /\ rowPc' = "run"
  /\ UNCHANGED <<tile, cursor, shared, placed, at, frame, patched, ran,
                 sampled, invocation>>

\* The slot of a repeat is tested before each sample; outside none is.
Samples == ~Instruction.inside \/ frame.profile # 0

CallRow ==
  /\ rowPc = "run"
  /\ ran' = [ran EXCEPT ![Phase] = @ + 1]
  /\ sampled' = IF Samples THEN [sampled EXCEPT ![Phase] = @ \cup {ran[Phase]}] ELSE sampled
  /\ at' = NextInstruction
  /\ rowPc' = "fetch"
  /\ UNCHANGED <<tile, cursor, shared, placed, tableMem, frame, base, patched, invocation>>

EnterRepeat ==
  /\ Fetching /\ Instruction.op = "enter"
  /\ frame' = [remaining |-> Count, pointer |-> Base, profile |-> 1]
  /\ at' = NextInstruction
  /\ UNCHANGED <<tile, rowPc, cursor, shared, placed, tableMem, base, patched, ran,
                 sampled, invocation>>

\* Mutant: later iterations sample too.
NextFrameSampling ==
  [remaining |-> frame.remaining - 1, pointer |-> frame.pointer + Stride, profile |-> 1]

NextFrame ==
  [remaining |-> frame.remaining - 1, pointer |-> frame.pointer + Stride, profile |-> 0]

EndIteration ==
  /\ Fetching /\ Instruction.op = "next"
  /\ IF NextFrame.remaining # 0
       THEN frame' = NextFrame /\ at' = [at EXCEPT !.place = @ - Instruction.start]
       ELSE frame' = NoFrame /\ at' = NextInstruction
  /\ UNCHANGED <<tile, rowPc, cursor, shared, placed, tableMem, base, patched, ran,
                 sampled, invocation>>

Ended == rowPc = "fetch" /\ at.step = Len(Steps) + 1

EndInvocation ==
  /\ Ended
  /\ IF invocation < Invocations
       THEN /\ invocation' = invocation + 1
            /\ at' = Start /\ rowPc' = rowPc
            /\ ran' = [p \in Phases |-> 0] /\ sampled' = [p \in Phases |-> {}]
       ELSE /\ rowPc' = "done" /\ UNCHANGED <<invocation, at, ran, sampled>>
  /\ UNCHANGED <<tile, cursor, shared, placed, tableMem, frame, base, patched>>

RowInit ==
  /\ \/ \E out \in [Phases \ Repeated -> Outside], in \in [Repeated -> Inside] :
          tile = [p \in Phases |-> IF p \in Repeated THEN in[p] ELSE out[p]]
     \* a tile past the scheduled ones takes part in no phase
     \/ tile = [p \in Phases |-> [words |-> InactiveRow, patches |-> <<>>, moving |-> FALSE]]
  /\ rowPc = "layout" /\ cursor = 0 /\ shared = <<>> /\ placed = <<>> /\ tableMem = <<>>
  /\ at = Start /\ frame = NoFrame /\ base = 0 /\ patched = <<>>
  /\ ran = [p \in Phases |-> 0] /\ sampled = [p \in Phases |-> {}] /\ invocation = 1

RowNext ==
  \/ \E p \in Phases : PlacePhase(p)
  \/ LoadRows
  \/ SetupShort \/ SetupBulk \/ SetupEnds
  \/ \E w \in DOMAIN patched : StoreEntry(w)
  \/ Arm \/ CallRow \/ EnterRepeat \/ EndIteration \/ EndInvocation

RowSpec == RowInit /\ [][RowNext]_rowVars

(***************************************************************************)
(* Properties                                                              *)
(***************************************************************************)
\* The row of phase p in iteration n: its words with that iteration's patches.
Encoded(p, n) ==
  [i \in DOMAIN tile[p].words |->
     IF i \in DOMAIN tile[p].patches THEN tile[p].patches[i][n + 1] ELSE tile[p].words[i]]

\* When a row is called, every word of it is the word the phase was encoded
\* with for this iteration, whatever phases, iterations and invocations
\* patched the shared row before: setup patches restore the zero addresses
\* too, and each worker of a bulk patch has finished.  A row with a moving
\* source base sends, in iteration n, from the n-th element of the sequence the
\* pointer walks; any other row from base zero.
RowsRunAsEncoded ==
  rowPc = "run" =>
    LET row == placed[Phase].row.address IN
    /\ \A i \in DOMAIN tile[Phase].words :
         tableMem[row + i - 1] = Encoded(Phase, ran[Phase])[i]
    /\ base = IF tile[Phase].moving THEN Base + ran[Phase] * Stride ELSE 0

\* The validator finds no two data rows at one address with different words:
\* the phases that share a row agree on its words and its offset table.  An
\* invocation calls the rows of a repeat Count times and the others once, and
\* samples the cycles around the first of these calls only.
InvocationIsComplete ==
  /\ rowPc # "rejected"
  /\ Ended => \A p \in Phases :
       /\ ran[p] = IF p \in Repeated THEN Count ELSE 1
       /\ sampled[p] = {0}

=============================================================================
