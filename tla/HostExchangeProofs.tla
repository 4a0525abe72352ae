------------------------- MODULE HostExchangeProofs -------------------------
(***************************************************************************)
(* Theorems about HostExchange for every set of tiles and every number of  *)
(* batches, invocations and runs: types, the lockstep of host and device,  *)
(* what follows from it for the pages and the mark, and what the pages     *)
(* carry: a tile computes from the inputs of its own run, and a session    *)
(* keeps the promise of HostCalls.                                         *)
(***************************************************************************)
EXTENDS HostExchange, TLAPS

\* What the host's loops and the tiles' stages keep besides: with TypeOK and
\* Lockstep this is inductive.
LoopInv ==
  /\ hpc \in {"new", "startAck", "startWait"} => call = FirstCall
  /\ hpc \notin {"new", "startAck", "startWait", "idle", "closing", "closed"} => call <= Runs
  /\ hpc \in {"stage", "settle"} => phase < Phases(call)
  /\ hpc = "drive" => phase <= Phases(call)
  /\ hpc = "finish" => phase = Phases(call) /\ DefersOutput(call)
  /\ hpc = "stage" /\ todo # {} => phase % 2 = 0
  /\ hpc = "prepare" => phase = 0
  /\ hpc = "closing" => failed
  /\ point # Complete
  /\ \A t \in Tiles : stage[t] = "issued" => side = "inside"

IInv == TypeOK /\ Lockstep /\ LoopInv

-----------------------------------------------------------------------------
(* The constants *)

\* The numbers of batches are numbers, and bound every tile's transfers.
LEMMA BatchCounts ==
  /\ W \in Nat /\ I \in Nat /\ O \in Nat
  /\ Weights \in [Tiles -> 0..W] /\ Inputs \in [Tiles -> 0..I]
  /\ Outputs \in [Tiles -> 0..O]
BY BatchAssumption DEF IsBatchCount

\* A call has a number of phases.
LEMMA PhasesType == ASSUME NEW c \in Nat PROVE Phases(c) \in Nat
BY BatchCounts DEF Phases

\* The parity of a phase tells an entry from an exit; both have one batch.
LEMMA Parity ==
  ASSUME NEW p \in Nat
  PROVE  /\ p \div 2 \in Nat
         /\ p % 2 \in {0, 1}
         /\ p % 2 = 0 => (p + 1) % 2 = 1 /\ (p + 1) \div 2 = p \div 2
         /\ p % 2 = 1 => (p + 1) % 2 = 0 /\ (p + 1) \div 2 = (p \div 2) + 1
OBVIOUS

LEMMA FirstPhase == 0 % 2 = 0
OBVIOUS

LEMMA EntryAndExit ==
  ASSUME NEW c \in Nat, NEW p \in Nat, p % 2 = 0
  PROVE  BatchOf(c, p + 1) = BatchOf(c, p)
BY Parity DEF BatchOf

-----------------------------------------------------------------------------
(* The device's program follows the phases of the host's calls *)

\* After the batch whose exit phase p grants comes the batch of phase p + 1.
LEMMA NextBatch ==
  ASSUME NEW c \in Nat, NEW p \in Nat, p % 2 = 1, p < Phases(c),
         BatchOf(c, p) # Complete
  PROVE  Successor(BatchOf(c, p)) = BatchOf(c, p + 1)
<1> DEFINE h == p \div 2
<1>1. h \in Nat /\ p = 2 * h + 1 /\ (p + 1) \div 2 = h + 1
  OBVIOUS
<1>2. CASE c = 0
  <2>1. h < W
    BY <1>1, <1>2, BatchCounts DEF Phases
  <2>2. BatchOf(c, p) = Point("init", 0, h + 1)
    BY <1>2, <2>1 DEF BatchOf
  <2>3. Successor(BatchOf(c, p)) =
          IF h + 1 < W THEN Point("init", 0, h + 2) ELSE StartOf(1)
    BY <1>1, <2>2 DEF Successor, Point
  <2> QED BY <1>1, <1>2, <2>3 DEF BatchOf
<1>3. CASE c # 0
  <2>1. c <= Invocations /\ I + O # 0
    BY <1>3, BatchCounts, CountAssumption DEF BatchOf
  <2>2. h + 1 < I + O
    BY <1>1, <1>3, <2>1, BatchCounts DEF Phases
  <2>3. CASE h < I
    <3>1. BatchOf(c, p) = Point("in", c, h + 1)
      BY <1>3, <2>1, <2>3, CountAssumption DEF BatchOf
    <3>2. Successor(BatchOf(c, p)) =
            IF h + 1 < I THEN Point("in", c, h + 2) ELSE Point("out", c, 1)
      BY <1>1, <2>2, <2>3, <3>1, BatchCounts DEF Successor, Point
    <3> QED BY <1>1, <1>3, <2>1, <2>3, <3>2, BatchCounts, CountAssumption DEF BatchOf
  <2>4. CASE ~(h < I)
    <3>1. BatchOf(c, p) = Point("out", c, h + 1 - I)
      BY <1>3, <2>1, <2>4, CountAssumption DEF BatchOf
    <3>2. Successor(BatchOf(c, p)) = Point("out", c, h + 2 - I)
      BY <1>1, <2>2, <3>1, BatchCounts DEF Successor, Point
    <3> QED BY <1>1, <1>3, <2>1, <2>4, <3>2, BatchCounts, CountAssumption DEF BatchOf
  <2> QED BY <2>3, <2>4
<1> QED BY <1>2, <1>3

\* After the deferred output batch of a call the next call begins.
LEMMA LastBatch ==
  ASSUME NEW c \in Nat, DefersOutput(c), BatchOf(c, Phases(c)) # Complete
  PROVE  Successor(BatchOf(c, Phases(c))) = BatchOf(c + 1, 0)
<1>1. c # 0 /\ O > 0
  BY BatchCounts DEF DefersOutput, OutBatches
<1>2. Phases(c) = 2 * (I + O) - 1 /\ Phases(c) \div 2 = I + O - 1
  BY <1>1, BatchCounts DEF Phases
<1>3. c <= Invocations /\ BatchOf(c, Phases(c)) = Point("out", c, O)
  BY <1>1, <1>2, BatchCounts, CountAssumption DEF BatchOf
<1>4. Successor(BatchOf(c, Phases(c))) = StartOf(c + 1)
  BY <1>3, BatchCounts DEF Successor, Point
<1>5. BatchOf(c + 1, 0) = StartOf(c + 1)
  BY <1>1, BatchCounts, CountAssumption DEF BatchOf, StartOf
<1> QED BY <1>4, <1>5

\* Without a deferred output, the last phase of a call leads to the next one.
LEMMA CallEnds ==
  ASSUME O > 0 \/ I = 0, NEW c \in Nat, ~DefersOutput(c)
  PROVE  Phases(c) % 2 = 0 /\ BatchOf(c, Phases(c)) = BatchOf(c + 1, 0)
<1>1. CASE c = 0
  <2>1. Phases(c) % 2 = 0 /\ Phases(c) \div 2 = W
    BY <1>1, BatchCounts DEF Phases
  <2>2. BatchOf(c, Phases(c)) = StartOf(1)
    BY <1>1, <2>1, BatchCounts DEF BatchOf
  <2>3. BatchOf(1, 0) = StartOf(1)
    BY BatchCounts, CountAssumption DEF BatchOf, StartOf
  <2> QED BY <1>1, <2>1, <2>2, <2>3
<1>2. CASE c # 0
  <2>1. I + O = 0
    BY <1>2, BatchCounts DEF DefersOutput, OutBatches, Phases
  <2> QED BY <1>2, <2>1 DEF Phases, BatchOf
<1> QED BY <1>1, <1>2

\* The startup synchronization leads to the first call.
LEMMA BootEnds == Successor(Boot) = BatchOf(FirstCall, 0)
<1>1. Successor(Boot) = IF W > 0 THEN Point("init", 0, 1) ELSE StartOf(1)
  BY DEF Successor, Boot, Point
<1> QED BY <1>1, BatchCounts, CountAssumption DEF BatchOf, FirstCall, StartOf

-----------------------------------------------------------------------------
(* Types *)

LEMMA ItemTypes ==
  /\ Blank \in Items /\ Poison \in Items
  /\ \A c, k \in Nat : In(c, k) \in Items /\ Out(c, k) \in Items
BY DEF Items, Kinds, Blank, Poison, In, Out

\* The program leads from batch to batch until it is complete.
LEMMA PointTypes ==
  /\ Boot \in Points /\ Complete \in Points
  /\ \A p \in Points : Successor(p) \in Points
<1>1. Boot \in Points /\ Complete \in Points
  BY DEF Points
<1>2. StartOf(1) \in Points
  BY BatchCounts, CountAssumption DEF StartOf, Points, Point
<1>3. ASSUME NEW p \in Points PROVE Successor(p) \in Points
  <2>1. CASE p = Boot
    BY <1>2, <2>1, BatchCounts, CountAssumption DEF Successor, Boot, Point, Points
  <2>2. CASE p = Complete
    BY <1>1, <2>2 DEF Successor, Complete, Point
  <2>3. CASE p \in [sec : {"init", "in", "out"}, inv : 0..Invocations, batch : 1..(W + I + O)]
    <3>1. StartOf(p.inv + 1) \in Points
      BY <2>3, BatchCounts, CountAssumption DEF StartOf, Points, Point
    <3> QED BY <1>2, <2>3, <3>1, BatchCounts, CountAssumption DEF Successor, Point, Points
  <2> QED BY <2>1, <2>2, <2>3 DEF Points
<1> QED BY <1>1, <1>3

LEMMA InitTypes == Init => TypeOK
<1> SUFFICES ASSUME Init PROVE TypeOK
  OBVIOUS
<1>1. NoOutput \in Captures
  BY ItemTypes DEF NoOutput, Captures
<1>2. page \in [Tiles -> Items] /\ staging \in [Tiles -> Items]
  BY ItemTypes DEF Init
<1>3. dest \in [Tiles -> [Regions -> Items]] /\ out \in [Tiles -> 0..Invocations]
  BY ItemTypes, CountAssumption DEF Init, Regions
<1>4. call \in 0..(Runs + 1) /\ results \in [1..Runs -> Captures \cup {<<>>}]
  BY CountAssumption DEF Init, FirstCall
<1> QED BY <1>1, <1>2, <1>3, <1>4, PointTypes DEF Init, TypeOK

\* The host's fields keep their types.
LEMMA HostTypes == ASSUME TypeOK, LoopInv, HostStep PROVE TypeOK'
<1> DEFINE Slices == Tiles \X (1..(W + I + O))
<1> USE DEF Step, Wait, Acknowledge, clientVars, copyVars, tileVars, deviceVars
<1>0. call \in Nat
  BY CountAssumption DEF TypeOK
<1>1. CASE Start \/ StartAck \/ StartDone
  BY <1>1 DEF TypeOK, Start, StartAck, StartDone
<1>2. CASE InvokeStreaming \/ PrepareDone
  BY <1>2, ItemTypes DEF TypeOK, InvokeStreaming, PrepareDone, NoOutput, Captures
<1>3. CASE InvokePrepared
  <2>1. todo' \subseteq Slices
    <3>1. \A s \in Tiles \X (1..InBatches(call)) : s[2] \in 1..(W + I + O)
      BY BatchCounts DEF InBatches
    <3>2. \A s \in Tiles \X (1..OutBatches(call)) : s[2] \in 1..(W + I + O)
      BY BatchCounts DEF OutBatches
    <3> QED BY <1>3, <3>1, <3>2 DEF InvokePrepared, InSlices, OutSlices
  <2> QED BY <1>3, <2>1 DEF TypeOK, InvokePrepared
<1>4. CASE DriveWait
  <2>1. todo' \subseteq Slices
    <3>1. InBatches(call) \in Nat /\ HandshakeBatch \in Nat
      BY BatchCounts, Parity DEF TypeOK, InBatches, HandshakeBatch
    <3>2. HandshakeBatch < InBatches(call) => HandshakeBatch + 1 \in 1..(W + I + O)
      BY <3>1, BatchCounts DEF InBatches
    <3>3. HandshakeBatch >= InBatches(call) => CapturedBatch \in Nat
      BY <3>1 DEF CapturedBatch
    <3>4. ASSUME HandshakeBatch >= InBatches(call),
                 NEW s \in OutSlices(call, {CapturedBatch} \ {0})
          PROVE  s \in Slices
      <4>1. s \in Tiles \X ({CapturedBatch} \ {0}) /\ s[2] <= Outputs[s[1]]
        BY <3>4 DEF OutSlices
      <4>2. s[2] \in 1..O
        BY <3>3, <3>4, <4>1, BatchCounts
      <4> QED BY <4>1, <4>2, BatchCounts
    <3>5. InSlices(call, {HandshakeBatch + 1}) \subseteq Tiles \X {HandshakeBatch + 1}
      BY DEF InSlices
    <3>6. StagedSlices \subseteq Slices
      <4>1. CASE HandshakeBatch < InBatches(call)
        BY <3>2, <3>5, <4>1 DEF StagedSlices
      <4>2. CASE ~(HandshakeBatch < InBatches(call))
        BY <3>1, <3>4, <4>2 DEF StagedSlices
      <4> QED BY <4>1, <4>2
    <3> QED BY <1>4, <3>6 DEF DriveWait
  <2> QED BY <1>4, <2>1 DEF TypeOK, DriveWait
<1>5. CASE DriveAck \/ DriveSettle
  <2>1. CASE DriveAck
    BY <2>1, BatchCounts, Parity, SMTT(30)
       DEF TypeOK, DriveAck, CapturedBatch, HandshakeBatch, InBatches
  <2>2. CASE DriveSettle
    BY <2>2, BatchCounts, Parity, SMTT(30)
       DEF TypeOK, DriveSettle, CapturedBatch, HandshakeBatch, InBatches
  <2> QED BY <1>5, <2>1, <2>2
<1>6. CASE FinishAck
  BY <1>6 DEF TypeOK, FinishAck
<1>7. CASE FinishWait \/ FinishNothing
  <2>1. todo' \subseteq Slices
    <3>1. \A k \in (upto + 1)..OutBatches(call) : k \in 1..(W + I + O)
      BY BatchCounts DEF TypeOK, OutBatches
    <3> QED BY <1>7, <3>1 DEF FinishWait, FinishNothing, Uncollected, OutSlices
  <2> QED BY <1>7, <2>1 DEF TypeOK, FinishWait, FinishNothing
<1>8. CASE CollectDone
  <2>1. call \in 0..Runs
    BY <1>8, CountAssumption DEF TypeOK, LoopInv, CollectDone
  <2>2. call' \in 0..(Runs + 1)
    BY <1>8, <2>1, CountAssumption DEF CollectDone
  <2>3. results' \in [1..Runs -> Captures \cup {<<>>}]
    BY <1>8, <2>1 DEF TypeOK, CollectDone
  <2>4. captured' \in Captures
    BY <1>8, ItemTypes DEF CollectDone, NoOutput, Captures
  <2> QED BY <1>8, <2>2, <2>3, <2>4 DEF TypeOK, CollectDone
<1>9. CASE TimeOut \/ Drop
  BY <1>9 DEF TypeOK, TimeOut, Drop
<1>10. ASSUME NEW s \in Tiles \X (1..(W + I + O)), PrepareSlice(s) \/ StageSlice(s) \/ CollectSlice(s)
       PROVE  TypeOK'
  <2>1. call \in Nat /\ s[1] \in Tiles /\ s[2] \in Nat
    BY CountAssumption, BatchCounts DEF TypeOK
  <2>2. In(call, s[2]) \in Items /\ Poison \in Items /\ page[s[1]] \in Items
    BY <2>1, ItemTypes DEF TypeOK
  <2>3. page' \in [Tiles -> Items]
    BY <1>10, <2>2 DEF TypeOK, PrepareSlice, StageSlice, CollectSlice, CaptureSlice
  <2>4. captured' \in Captures
    <3>1. [captured EXCEPT ![s[1]][s[2]] = page[s[1]]] \in Captures
      BY <2>2 DEF TypeOK, Captures
    <3> QED BY <1>10, <3>1 DEF TypeOK, PrepareSlice, StageSlice, CollectSlice, CaptureSlice
  <2> QED BY <1>10, <2>3, <2>4 DEF TypeOK, PrepareSlice, StageSlice, CollectSlice
<1> QED
  BY <1>1, <1>2, <1>3, <1>4, <1>5, <1>6, <1>7, <1>8, <1>9, <1>10 DEF HostStep

\* The registers and the memory of the tiles keep their types.
LEMMA DeviceTypes ==
  ASSUME TypeOK, LoopInv, DeviceStep \/ \E t \in Tiles : Fault(t)
  PROVE  TypeOK'
<1> USE DEF clientVars, copyVars, tileVars, deviceVars
<1>1. CASE EnterBatch
  BY <1>1, PointTypes DEF TypeOK, EnterBatch, Synchronize
<1>2. CASE LeaveBatch
  BY <1>2 DEF TypeOK, LeaveBatch, Synchronize
<1>3. ASSUME NEW t \in Tiles, RaiseRequest(t) PROVE TypeOK'
  BY <1>3 DEF TypeOK, RaiseRequest, XreqTargets, Targets
<1>4. ASSUME NEW t \in Tiles, IssueTransfer(t) \/ PassBatch(t) \/ Fault(t) PROVE TypeOK'
  BY <1>4 DEF TypeOK, IssueTransfer, PassBatch, Fault
<1>5. ASSUME NEW t \in Tiles, Deliver(t) PROVE TypeOK'
  <2>1. out[t] \in Nat /\ point.batch \in Nat
    BY BatchCounts, CountAssumption DEF TypeOK, Points, Boot, Complete, Point
  <2>2. Out(out[t], point.batch) \in Items /\ page[t] \in Items
    BY <2>1, ItemTypes DEF TypeOK
  <2> QED BY <1>5, <2>2 DEF TypeOK, Deliver
<1>6. ASSUME NEW t \in Tiles, Proceed(t) PROVE TypeOK'
  <2>1. dest' \in [Tiles -> [Regions -> Items]]
    BY <1>6 DEF TypeOK, Proceed
  <2>2. Successor(point).inv \in 0..Invocations
    BY PointTypes, CountAssumption DEF TypeOK, Points, Boot, Complete, Point
  <2>3. out' \in [Tiles -> 0..Invocations]
    BY <1>6, <2>2, CountAssumption DEF TypeOK, Proceed, Computed
  <2> QED BY <1>6, <2>1, <2>3 DEF TypeOK, Proceed
<1> QED BY <1>1, <1>2, <1>3, <1>4, <1>5, <1>6 DEF DeviceStep, TileStep

LEMMA TypesKept == ASSUME TypeOK, LoopInv, [Next]_vars PROVE TypeOK'
<1>1. CASE Closed \/ UNCHANGED vars
  BY <1>1 DEF Closed, vars, clientVars, copyVars, tileVars, deviceVars, TypeOK
<1> QED BY <1>1, HostTypes, DeviceTypes DEF Next

-----------------------------------------------------------------------------
(* The lockstep of host and device *)

LEMMA InitLockstep == Init => Lockstep /\ LoopInv
BY DEF Init, Lockstep, LoopInv, AtBoot, Boot, Complete, Point

\* A host step grants only what the device awaits.
LEMMA HostLockstep ==
  ASSUME O > 0 \/ I = 0, IInv, HostStep
  PROVE  Lockstep'
<1> USE DEF IInv, Step, Wait, Acknowledge, clientVars, copyVars, tileVars, deviceVars,
            AtBoot, AtPhase
<1>0. call \in Nat /\ phase \in Nat
  BY CountAssumption DEF TypeOK
<1>1. CASE Start \/ StartAck
  BY <1>1 DEF Lockstep, Start, StartAck
<1>2. CASE StartDone
  BY <1>2 DEF Lockstep, LoopInv, StartDone
<1>3. CASE InvokeStreaming \/ InvokePrepared
  BY <1>3, <1>0, Parity DEF Lockstep, InvokeStreaming, InvokePrepared
<1>4. CASE PrepareDone
  BY <1>4 DEF Lockstep, LoopInv, PrepareDone
<1>5. CASE DriveWait \/ DriveAck \/ DriveSettle
  BY <1>5, <1>0 DEF Lockstep, DriveWait, DriveAck, DriveSettle
<1>6. CASE FinishAck \/ FinishWait
  BY <1>6, <1>0 DEF Lockstep, FinishAck, FinishWait
<1>7. CASE FinishNothing
  BY <1>7, <1>0, CallEnds, Parity DEF Lockstep, FinishNothing
<1>8. CASE CollectDone
  BY <1>8, <1>0 DEF Lockstep, CollectDone
<1>9. CASE TimeOut \/ Drop
  BY <1>9, <1>0 DEF Lockstep, LoopInv, TimeOut, Drop
<1>10. ASSUME NEW s \in Tiles \X (1..(W + I + O)), PrepareSlice(s) \/ StageSlice(s) \/ CollectSlice(s)
       PROVE  Lockstep'
  BY <1>10, <1>0 DEF Lockstep, PrepareSlice, StageSlice, CollectSlice
<1> QED
  BY <1>1, <1>2, <1>3, <1>4, <1>5, <1>6, <1>7, <1>8, <1>9, <1>10 DEF HostStep

\* A synchronization takes the device to where the host's next phase is.
LEMMA SynchronizeLockstep ==
  ASSUME IInv, EnterBatch \/ LeaveBatch
  PROVE  Lockstep'
<1> USE DEF IInv, EnterBatch, LeaveBatch, Synchronize, clientVars, copyVars, AtBoot, AtPhase
<1>1. mark = 1 /\ mark' = 0 /\ call \in Nat /\ phase \in Nat
  BY CountAssumption DEF TypeOK
<1>2. hpc' = hpc /\ call' = call /\ phase' = phase /\ failed' = failed
  OBVIOUS
<1>3. hpc \in {"startWait", "settle", "finish"} \/ hpc = "closing" \/ (hpc = "closed" /\ failed)
  BY <1>1 DEF TypeOK, Lockstep
<1>4. CASE hpc = "startWait"
  BY <1>1, <1>2, <1>4, BootEnds DEF Lockstep, LoopInv, FirstCall
<1>5. CASE hpc = "settle" /\ EnterBatch
  <2>1. phase % 2 = 0
    BY <1>1, <1>5, Parity DEF Lockstep
  <2>2. point' = BatchOf(call, phase + 1)
    BY <1>1, <1>5, <2>1, EntryAndExit DEF Lockstep
  <2> QED BY <1>1, <1>2, <1>5, <2>1, <2>2, Parity DEF Lockstep
<1>6. CASE hpc = "settle" /\ LeaveBatch
  <2>1. phase % 2 = 1 /\ point = BatchOf(call, phase)
    BY <1>1, <1>6, Parity DEF Lockstep
  <2>2. Successor(point) = BatchOf(call, phase + 1)
    BY <1>1, <1>6, <2>1, NextBatch DEF LoopInv
  <2> QED BY <1>1, <1>2, <1>6, <2>1, <2>2, Parity DEF Lockstep
<1>7. CASE hpc = "finish"
  <2>1. Phases(call) % 2 = 1 /\ phase = Phases(call)
    BY <1>7 DEF LoopInv, DefersOutput
  <2>2. LeaveBatch /\ point = BatchOf(call, Phases(call))
    BY <1>1, <1>7, <2>1 DEF Lockstep
  <2>3. Successor(point) = BatchOf(call + 1, 0)
    BY <1>1, <1>7, <2>2, LastBatch DEF LoopInv
  <2> QED BY <1>1, <1>2, <1>7, <2>2, <2>3, Parity DEF Lockstep
<1>8. CASE hpc = "closing" \/ (hpc = "closed" /\ failed)
  BY <1>1, <1>2, <1>8 DEF Lockstep
<1> QED BY <1>3, <1>4, <1>5, <1>6, <1>7, <1>8

\* Between synchronizations the tiles do not move the rendezvous.
LEMMA TileLockstep ==
  ASSUME IInv, NEW t \in Tiles, TileStep(t) \/ Fault(t)
  PROVE  Lockstep'
BY DEF IInv, Lockstep, AtBoot, AtPhase, TileStep, RaiseRequest, IssueTransfer, Deliver,
       PassBatch, Proceed, Fault, clientVars, copyVars

-----------------------------------------------------------------------------

LEMMA HostLoop == ASSUME O > 0 \/ I = 0, IInv, HostStep PROVE LoopInv'
<1> USE DEF IInv, Step, Wait, Acknowledge, clientVars, copyVars, tileVars, deviceVars
<1>0. /\ call \in Nat /\ phase \in Nat /\ Runs \in Nat /\ Phases(call) \in Nat
      /\ call' = call \/ CollectDone
  BY CountAssumption, PhasesType
     DEF TypeOK, HostStep, Start, StartAck, StartDone, InvokeStreaming, InvokePrepared,
         PrepareDone, PrepareSlice, DriveWait, StageSlice, DriveAck, DriveSettle, FinishAck,
         FinishWait, FinishNothing, CollectSlice, TimeOut, Drop
<1>1. CASE Start \/ StartAck \/ StartDone
  BY <1>1, <1>0 DEF LoopInv, Start, StartAck, StartDone
<1>2. CASE InvokeStreaming \/ InvokePrepared \/ PrepareDone
  BY <1>2, <1>0 DEF LoopInv, Lockstep, InvokeStreaming, InvokePrepared, PrepareDone
<1>3. CASE DriveWait
  BY <1>3, <1>0, Parity DEF LoopInv, DriveWait, StagedSlices
<1>4. CASE DriveAck \/ DriveSettle
  BY <1>4, <1>0 DEF LoopInv, DriveAck, DriveSettle, DefersOutput
<1>5. CASE FinishAck \/ FinishWait \/ FinishNothing \/ CollectDone
  BY <1>5, <1>0 DEF LoopInv, FinishAck, FinishWait, FinishNothing, CollectDone, DefersOutput
<1>6. CASE TimeOut \/ Drop
  BY <1>6, <1>0 DEF LoopInv, TimeOut, Drop
<1>7. ASSUME NEW s \in Tiles \X (1..(W + I + O)), PrepareSlice(s) \/ StageSlice(s) \/ CollectSlice(s)
      PROVE  LoopInv'
  BY <1>7, <1>0 DEF LoopInv, PrepareSlice, StageSlice, CollectSlice, DefersOutput
<1> QED BY <1>1, <1>2, <1>3, <1>4, <1>5, <1>6, <1>7 DEF HostStep

LEMMA DeviceLoop ==
  ASSUME IInv, DeviceStep \/ \E t \in Tiles : Fault(t)
  PROVE  LoopInv'
<1> USE DEF IInv, LoopInv, clientVars, copyVars
<1>1. CASE EnterBatch \/ LeaveBatch
  BY <1>1 DEF EnterBatch, LeaveBatch, Synchronize
<1>2. ASSUME NEW t \in Tiles, TileStep(t) \/ Fault(t) PROVE LoopInv'
  BY <1>2 DEF TypeOK, TileStep, RaiseRequest, IssueTransfer, Deliver, PassBatch, Proceed, Fault
<1> QED BY <1>1, <1>2 DEF DeviceStep

LEMMA Inductive == ASSUME O > 0 \/ I = 0, IInv, [Next]_vars PROVE IInv'
<1>1. TypeOK'
  BY TypesKept DEF IInv
<1>2. CASE HostStep
  BY <1>1, <1>2, HostLockstep, HostLoop DEF IInv
<1>3. CASE DeviceStep \/ \E t \in Tiles : Fault(t)
  BY <1>1, <1>3, SynchronizeLockstep, TileLockstep, DeviceLoop DEF IInv, DeviceStep
<1>4. CASE Closed \/ UNCHANGED vars
  BY <1>1, <1>4 DEF Closed, vars, clientVars, copyVars, tileVars, deviceVars, IInv,
     Lockstep, LoopInv, AtBoot, AtPhase
<1> QED BY <1>2, <1>3, <1>4 DEF Next

-----------------------------------------------------------------------------
(* Theorems *)

LEMMA Invariance == ASSUME O > 0 \/ I = 0 PROVE Spec => []IInv
<1>1. Init => IInv
  BY InitTypes, InitLockstep DEF IInv
<1>2. IInv /\ [Next]_vars => IInv'
  BY Inductive
<1> QED BY <1>1, <1>2, PTL DEF Spec

\* TypeOK: whatever the tiles, batches and runs, HostSession and the tiles
\* keep their fields, registers and memory within their types.
THEOREM TypeCorrect == ASSUME O > 0 \/ I = 0 PROVE Spec => []TypeOK
<1>1. IInv => TypeOK
  BY DEF IInv
<1> QED BY <1>1, Invariance, PTL

\* Lockstep: the phase drive_handshake() has reached is the synchronization
\* the emitted program does next, in every package whose graph has an output
\* or no input.
THEOREM LockstepHolds == ASSUME O > 0 \/ I = 0 PROVE Spec => []Lockstep
<1>1. IInv => Lockstep
  BY DEF IInv
<1> QED BY <1>1, Invariance, PTL

\* PagesExclusive: no copy loop of the session touches a slot that a transfer
\* may be using.
THEOREM PagesAreExclusive == ASSUME O > 0 \/ I = 0 PROVE Spec => []PagesExclusive
<1>1. IInv => PagesExclusive
  BY FirstPhase DEF IInv, PagesExclusive, Copying, Lockstep, LoopInv, AtPhase, TypeOK
<1> QED BY <1>1, Invariance, PTL

\* NoTransferOutlivesPages: a session that ended without an error has no
\* transfer in flight when its pages are gone.
THEOREM PagesOutliveTransfers ==
  ASSUME O > 0 \/ I = 0 PROVE Spec => []NoTransferOutlivesPages
<1>1. IInv => NoTransferOutlivesPages
  <2> SUFFICES ASSUME IInv, hpc = "closed" /\ ~failed
               PROVE  \A t \in Tiles : stage[t] # "issued"
    BY DEF NoTransferOutlivesPages
  <2>1. side = "after"
    BY FirstPhase DEF IInv, Lockstep, AtPhase
  <2> QED BY <2>1 DEF IInv, LoopInv
<1> QED BY <1>1, Invariance, PTL

\* GrantNotLost: acknowledge_device() never overwrites a mark the device has
\* still to consume.
THEOREM GrantsAreNotLost == ASSUME O > 0 \/ I = 0 PROVE Spec => GrantNotLost
<1>1. IInv /\ [Next]_vars => [Acknowledges => mark = 0]_vars
  <2> SUFFICES ASSUME IInv, [Next]_vars, Acknowledges PROVE mark = 0
    OBVIOUS
  <2>1. StartAck \/ DriveAck \/ FinishAck
    BY DEF Acknowledges, Next, HostStep, DeviceStep, TileStep, vars, Step, Start, StartAck,
       StartDone, InvokeStreaming, InvokePrepared, PrepareDone, PrepareSlice, DriveWait,
       StageSlice, DriveAck, DriveSettle, FinishAck, FinishWait, FinishNothing,
       CollectSlice, CollectDone, TimeOut, Drop, EnterBatch, LeaveBatch, Synchronize,
       RaiseRequest, IssueTransfer, Deliver, PassBatch, Proceed, Fault, Closed
  <2> QED BY <2>1 DEF IInv, Lockstep, StartAck, DriveAck, FinishAck, Step
<1> QED BY <1>1, Invariance, PTL DEF Spec, GrantNotLost

-----------------------------------------------------------------------------
(* The data: the invariant below follows the bytes from the host's copy    *)
(* loops to the pages, to the staging buffers, to the regions of the       *)
(* tiles, and from the outputs to the pages and back to the host.  The     *)
(* theorems are about packages whose graph has an output (O > 0).  Without *)
(* one, a package with inputs breaks the lockstep itself, and one with     *)
(* neither never meets the device in a "run".                              *)


\* Where the client's thread is while a call exchanges batches.
InCall == {"drive", "stage", "settle", "finish", "collect"}

\* Where the supervisors can be.
Places ==
  {Boot} \cup {Point("init", 0, k) : k \in 1..W}
         \cup {Point("in", n, k) : n \in 1..Invocations, k \in 1..I}
         \cup {Point("out", n, k) : n \in 1..Invocations, k \in 1..O}

\* Whether batch p takes inputs to the tiles, and which.
Carries(p) == p.sec \in {"init", "in"}
InputOf(p) == In(IF p.sec = "init" THEN 0 ELSE p.inv, p.batch)
Supplied(c, t) == IF c = 0 THEN Weights[t] ELSE Inputs[t]

\* A granted or running batch finds its inputs on the pages, and has brought
\* them to the staging buffers when its transfers are done.
InputsInPlace ==
  /\ mark = 1 /\ side = "after" /\ Carries(Successor(point)) =>
       \A t \in Targets(Successor(point)) : page[t] = InputOf(Successor(point))
  /\ side = "inside" /\ Carries(point) =>
       \A t \in Targets(point) : page[t] = InputOf(point)
  /\ Carries(point) =>
       \A t \in Targets(point) : side = "after" \/ stage[t] = "ready" => staging[t] = InputOf(point)

\* The batches of this section tile t has copied to their destination.
Moved(t) == IF side = "after" /\ stage[t] = "ready" THEN point.batch ELSE point.batch - 1

RegionsFilled ==
  \A t \in Tiles :
    /\ point.sec # "boot" =>
         \A k \in 1..Weights[t] : (point.sec = "init" => k <= Moved(t)) => dest[t][<<"init", k>>] = In(0, k)
    /\ point.sec \in {"in", "out"} =>
         \A k \in 1..Inputs[t] : (point.sec = "in" => k <= Moved(t)) => dest[t][<<"in", k>>] = In(point.inv, k)

OutputsComputed ==
  \A t \in Tiles :
    /\ point.sec = "out" /\ (side = "inside" \/ point.batch < O) => out[t] = point.inv
    /\ side = "after" /\ ComputesAfter(point) /\ stage[t] = "ready" => out[t] = Successor(point).inv

\* What an output batch has written stays on the page as long as the host may
\* read it; a prepared call reads it only at its end.
OutputsOnPages ==
  /\ point.sec = "out" =>
       \A t \in Targets(point) :
         /\ side = "inside" /\ stage[t] = "ready" => page[t] = Out(point.inv, point.batch)
         /\ side = "after" /\ point.inv = call /\ hpc \in InCall => page[t] = Out(call, point.batch)
  /\ /\ mode = "prepared" /\ hpc \in InCall /\ point.sec = "out" /\ point.inv = call
     /\ side = "after" \/ point.batch > 1
     => \A t \in Tiles : Outputs[t] >= 1 => page[t] = Out(call, 1)

\* How far the copy loops are: what they have left, and what they have staged.
CopiesStaged ==
  /\ hpc = "prepare" => todo \subseteq InSlices(call, 1..InBatches(call)) \cup OutSlices(call, 1..OutBatches(call))
  /\ hpc = "stage" => todo \subseteq StagedSlices
  /\ hpc = "collect" => todo \subseteq Uncollected
  /\ mode = "prepared" /\ hpc \in {"prepare", "drive", "stage", "settle"} =>
       \A t \in Tiles : \A k \in 1..InBatches(call) :
         k <= Supplied(call, t) => (hpc = "prepare" /\ <<t, k>> \in todo) \/ page[t] = In(call, k)
  /\ mode = "streaming" /\ hpc = "stage" /\ phase % 2 = 0 /\ HandshakeBatch < InBatches(call) =>
       \A t \in Tiles :
         HandshakeBatch + 1 <= Supplied(call, t) =>
           <<t, HandshakeBatch + 1>> \in todo \/ page[t] = In(call, HandshakeBatch + 1)

\* Which output batches have been copied out of the pages.
Positive(n) == IF n > 0 THEN n ELSE 0
Got(t, k) ==
  \/ k <= upto
  \/ hpc = "stage" /\ mode = "streaming" /\ phase % 2 = 0 /\ k = CapturedBatch /\ <<t, k>> \notin todo
  \/ hpc = "collect" /\ <<t, k>> \notin todo

\* What "captured" holds then.
Taken ==
  [t \in Tiles |->
     [k \in 1..O |-> IF k <= Outputs[t] /\ Got(t, k) THEN Out(call, k) ELSE Blank]]

OutputsTaken ==
  /\ \/ hpc \notin InCall \cup {"closing", "closed"}
     \/ hpc \in InCall /\ mode = "prepared"
     => upto = 0
  /\ mode = "streaming" =>
       /\ hpc \in {"drive", "stage"} =>
            upto = Positive(IF phase % 2 = 0 THEN CapturedBatch - 1 ELSE CapturedBatch)
       /\ hpc = "settle" => upto = Positive(CapturedBatch)
       /\ hpc \in {"finish", "collect"} /\ call > 0 => upto = O - 1
  /\ call > 0 /\ hpc \notin {"closing", "closed"} => captured = Taken

\* What the client has been told.
Told ==
  /\ call >= FirstCall
  /\ failed => hpc \in {"closing", "closed"}
  /\ mode = "prepared" /\ hpc \in InCall \cup {"prepare"} => ~ReusesStorage(call)
  /\ \/ hpc \in {"finish", "collect"}
     \/ hpc \in {"drive", "stage", "settle"} /\ phase > 0
     \/ hpc = "settle" /\ mark = 0
     => call <= Invocations
  /\ results = [n \in 1..Runs |-> IF n < call THEN Expected(n) ELSE <<>>]

DeviceData ==
  /\ point \in Places
  /\ \A t \in Tiles : stage[t] = "issued" => t \in Targets(point)
  /\ RegionsFilled /\ OutputsComputed

\* With IInv of HostExchangeProofs this is inductive.
DataInv == DeviceData /\ InputsInPlace /\ OutputsOnPages /\ CopiesStaged /\ OutputsTaken /\ Told

-----------------------------------------------------------------------------
(* Places and batches *)

\* A place by its section.
LEMMA PlaceCases ==
  ASSUME NEW p \in Places
  PROVE  \/ p = Boot /\ p.sec = "boot"
         \/ p.sec = "init" /\ p.batch \in 1..W /\ p.inv = 0
         \/ p.sec = "in" /\ p.inv \in 1..Invocations /\ p.batch \in 1..I
         \/ p.sec = "out" /\ p.inv \in 1..Invocations /\ p.batch \in 1..O
BY DEF Places, Boot, Point

\* Where an invocation begins.
LEMMA Starts ==
  ASSUME O > 0, NEW n \in Nat \ {0}
  PROVE  \/ n > Invocations /\ StartOf(n) = Complete
         \/ n <= Invocations /\ I > 0 /\ StartOf(n) = Point("in", n, 1)
         \/ n <= Invocations /\ I = 0 /\ StartOf(n) = Point("out", n, 1)
BY BatchCounts, CountAssumption DEF StartOf

\* What follows what: the next batch of a section, or the first one of the
\* next section that has any.
LEMMA SuccessorCases ==
  ASSUME O > 0, NEW p \in Places
  PROVE  \/ p.sec = "boot" /\ W > 0 /\ Successor(p) = Point("init", 0, 1)
         \/ p.sec = "boot" /\ W = 0 /\ Successor(p) = StartOf(1)
         \/ p.sec = "init" /\ p.batch < W /\ Successor(p) = Point("init", 0, p.batch + 1)
         \/ p.sec = "init" /\ p.batch = W /\ Successor(p) = StartOf(1)
         \/ p.sec = "in" /\ p.batch < I /\ Successor(p) = Point("in", p.inv, p.batch + 1)
         \/ p.sec = "in" /\ p.batch = I /\ Successor(p) = Point("out", p.inv, 1)
         \/ p.sec = "out" /\ p.batch < O /\ Successor(p) = Point("out", p.inv, p.batch + 1)
         \/ p.sec = "out" /\ p.batch = O /\ Successor(p) = StartOf(p.inv + 1)
<1>1. CASE p.sec = "boot"
  BY <1>1, BatchCounts DEF Successor
<1>2. CASE p.sec = "init"
  BY <1>2, BatchCounts, PlaceCases DEF Successor, Point
<1>3. CASE p.sec = "in"
  BY <1>3, BatchCounts, PlaceCases DEF Successor, Point
<1>4. CASE p.sec = "out"
  BY <1>4, BatchCounts, PlaceCases DEF Successor, Point
<1> QED BY <1>1, <1>2, <1>3, <1>4, PlaceCases

LEMMA PlacesNext ==
  ASSUME O > 0, NEW p \in Places, Successor(p) # Complete
  PROVE  Successor(p) \in Places
<1>1. \A n \in Nat \ {0} : StartOf(n) # Complete => StartOf(n) \in Places
  BY Starts, BatchCounts, CountAssumption DEF Places
<1>2. 1 \in Nat \ {0} /\ (p.sec = "out" => p.inv + 1 \in Nat \ {0})
  BY PlaceCases, CountAssumption
<1>3. CASE Successor(p) = StartOf(1) \/ (p.sec = "out" /\ Successor(p) = StartOf(p.inv + 1))
  BY <1>1, <1>2, <1>3
<1>4. \A k \in 1..W : Point("init", 0, k) \in Places
  BY DEF Places
<1>5. \A n \in 1..Invocations : \A k \in 1..I : Point("in", n, k) \in Places
  BY DEF Places
<1>6. \A n \in 1..Invocations : \A k \in 1..O : Point("out", n, k) \in Places
  BY DEF Places
<1> QED BY <1>3, <1>4, <1>5, <1>6, SuccessorCases, PlaceCases, BatchCounts

\* What came before batch q of a section.
LEMMA Predecessors ==
  ASSUME O > 0, NEW p \in Places, NEW q, q = Successor(p), q # Complete
  PROVE  \/ q.sec = "init" /\ q.batch = 1
         \/ /\ q.sec = "init" /\ p.sec = "init" /\ p.batch \in 1..W
            /\ q.batch = p.batch + 1
         \/ /\ q.sec = "in" /\ q.batch = 1
            /\ W = 0 \/ (p.sec = "init" /\ p.batch = W) \/ p.sec = "out"
         \/ /\ q.sec = "in" /\ p.sec = "in" /\ p.inv = q.inv /\ p.batch \in 1..I
            /\ q.batch = p.batch + 1
         \/ /\ q.sec = "out" /\ q.batch = 1 /\ I = 0
            /\ W = 0 \/ (p.sec = "init" /\ p.batch = W) \/ p.sec = "out"
         \/ q.sec = "out" /\ q.batch = 1 /\ p.sec = "in" /\ p.inv = q.inv /\ p.batch = I
         \/ /\ q.sec = "out" /\ p.sec = "out" /\ p.inv = q.inv /\ p.batch \in 1..(O - 1)
            /\ q.batch = p.batch + 1 /\ q.batch > 1
<1>1. \A n \in Nat \ {0} : StartOf(n) # Complete =>
        StartOf(n).batch = 1 /\ (StartOf(n).sec = "in" \/ (StartOf(n).sec = "out" /\ I = 0))
  BY Starts, BatchCounts DEF Point
<1>2. 1 \in Nat \ {0} /\ (p.sec = "out" => p.inv + 1 \in Nat \ {0})
  BY PlaceCases, CountAssumption
<1>3. CASE p.sec \in {"boot", "init"}
  BY <1>1, <1>2, <1>3, SuccessorCases, PlaceCases, BatchCounts DEF Point
<1>4. CASE p.sec = "in"
  BY <1>4, SuccessorCases, PlaceCases, BatchCounts DEF Point
<1>5. CASE p.sec = "out"
  BY <1>1, <1>2, <1>5, SuccessorCases, PlaceCases, BatchCounts DEF Point
<1> QED BY <1>3, <1>4, <1>5, PlaceCases

-----------------------------------------------------------------------------
\* The phases of a call that grant and await its input batches.
LEMMA InputPhase ==
  ASSUME NEW c \in Nat, NEW p \in Nat, p < Phases(c), Carries(BatchOf(c, p))
  PROVE  /\ p \div 2 < InBatches(c) /\ (p \div 2) + 1 \in 1..InBatches(c)
         /\ InputOf(BatchOf(c, p)) = In(c, (p \div 2) + 1)
         /\ \A t \in Targets(BatchOf(c, p)) : (p \div 2) + 1 <= Supplied(c, t)
<1>1. p \div 2 \in Nat
  BY Parity
<1>2. CASE c = 0
  <2>1. p \div 2 < W
    BY <1>1, <1>2, BatchCounts DEF Phases
  <2>2. BatchOf(c, p) = Point("init", 0, (p \div 2) + 1)
    BY <1>2, <2>1 DEF BatchOf
  <2> QED BY <1>1, <1>2, <2>1, <2>2, BatchCounts DEF InBatches, InputOf, Targets, Supplied, Point
<1>3. CASE c # 0
  <2>1. p \div 2 < I /\ BatchOf(c, p) = Point("in", c, (p \div 2) + 1)
    BY <1>1, <1>3 DEF BatchOf, Carries, Complete, Point
  <2> QED BY <1>1, <1>3, <2>1, BatchCounts DEF InBatches, InputOf, Targets, Supplied, Point
<1> QED BY <1>2, <1>3

\* The host takes output batch k away when the device has left it.
LEMMA TakenBatch ==
  ASSUME O > 0, NEW q \in Places, NEW c \in 1..Invocations, NEW p \in Nat,
         (p \div 2) - I >= 1, Successor(q) = BatchOf(c, p)
  PROVE  q.sec = "out" /\ q.inv = c /\ q.batch = (p \div 2) - I
<1>1. p \div 2 \in Nat
  BY Parity
<1>2. BatchOf(c, p) = Point("out", c, (p \div 2) + 1 - I)
  BY <1>1, BatchCounts, CountAssumption DEF BatchOf
<1>3. Successor(q) # Complete
  BY <1>2 DEF Complete, Point
<1>4. /\ Successor(q).sec = "out" /\ Successor(q).inv = c
      /\ Successor(q).batch = (p \div 2) + 1 - I
  BY <1>2 DEF Point
<1>5. Successor(q).batch # 1 /\ Successor(q).batch - 1 = (p \div 2) - I
  BY <1>1, <1>4, BatchCounts
<1> QED BY <1>3, <1>4, <1>5, Predecessors, PlaceCases, BatchCounts

\* A call ends behind its last output batch.
LEMMA LastTaken ==
  ASSUME O > 0, NEW q \in Places, NEW c \in 1..Invocations, Successor(q) = BatchOf(c + 1, 0)
  PROVE  q.sec = "out" /\ q.inv = c /\ q.batch = O
<1>1. 0 \div 2 = 0 /\ c + 1 # 0 /\ c \in Nat \ {0}
  BY CountAssumption
<1>2. BatchOf(c + 1, 0) = StartOf(c + 1)
  BY <1>1, BatchCounts, CountAssumption DEF BatchOf, StartOf
<1>3. \/ StartOf(c + 1) = Complete /\ c >= Invocations
      \/ /\ StartOf(c + 1).inv = c + 1 /\ StartOf(c + 1).batch = 1
         /\ StartOf(c + 1) # Complete /\ c + 1 <= Invocations
         /\ StartOf(c + 1).sec = "in" \/ (StartOf(c + 1).sec = "out" /\ I = 0)
  BY <1>1, Starts, CountAssumption DEF Point, Complete
<1>4. \/ StartOf(1) = Point("in", 1, 1)
      \/ StartOf(1) = Point("out", 1, 1)
  BY Starts, CountAssumption
<1>5. CASE q.sec = "boot" \/ q.sec = "init" \/ q.sec = "in"
  <2>1. \/ /\ Successor(q).sec = "init" /\ Successor(q) # Complete
        \/ Successor(q) = StartOf(1)
        \/ /\ Successor(q).sec = "in" /\ Successor(q) # Complete /\ Successor(q).batch > 1
        \/ /\ Successor(q).sec = "out" /\ Successor(q) # Complete /\ I > 0
    BY <1>5, SuccessorCases, PlaceCases, BatchCounts DEF Point, Complete
  <2> QED BY <1>1, <1>2, <1>3, <1>4, <2>1, BatchCounts DEF Point, Complete
<1>6. CASE q.sec = "out"
  <2>1. q.inv \in 1..Invocations /\ q.batch \in 1..O
    BY <1>6, PlaceCases
  <2>2. q.batch = O
    <3>1. q.batch < O => Successor(q).batch > 1 /\ Successor(q).sec = "out"
      BY <1>6, <2>1, SuccessorCases, BatchCounts DEF Point
    <3> QED BY <1>2, <1>3, <2>1, <3>1, BatchCounts DEF Complete, Point
  <2>3. Successor(q) = StartOf(q.inv + 1)
    BY <1>6, <2>2, SuccessorCases, BatchCounts
  <2>4. q.inv + 1 \in Nat \ {0}
    BY <2>1, CountAssumption
  <2>5. \/ StartOf(q.inv + 1) = Complete /\ q.inv >= Invocations
        \/ StartOf(q.inv + 1).inv = q.inv + 1 /\ StartOf(q.inv + 1) # Complete
    BY <2>1, <2>4, Starts, CountAssumption DEF Point, Complete
  <2> QED BY <1>2, <1>3, <1>6, <2>1, <2>2, <2>3, <2>5, CountAssumption
<1> QED BY <1>5, <1>6, PlaceCases

\* Before a call's inputs are in, the device has not reached its outputs.
LEMMA NotYet ==
  ASSUME O > 0, NEW q \in Places, NEW c \in Nat, NEW p \in Nat,
         p = 0 \/ p \div 2 < InBatches(c), Successor(q) = BatchOf(c, p)
  PROVE  ~(q.sec = "out" /\ q.inv = c)
<1> SUFFICES ASSUME q.sec = "out", q.inv = c PROVE FALSE
  OBVIOUS
<1>1. c \in 1..Invocations /\ q.batch \in 1..O /\ p \div 2 \in Nat /\ 0 \div 2 = 0
  BY PlaceCases, Parity
<1>2. \/ BatchOf(c, p).sec = "in" /\ BatchOf(c, p).inv = c /\ BatchOf(c, p) # Complete
      \/ /\ BatchOf(c, p).sec = "out" /\ BatchOf(c, p).batch = 1 /\ BatchOf(c, p).inv = c
         /\ BatchOf(c, p) # Complete
  BY <1>1, BatchCounts, CountAssumption DEF BatchOf, InBatches, Point, Complete
<1>3. CASE q.batch < O
  BY <1>1, <1>2, <1>3, SuccessorCases, BatchCounts DEF Point
<1>4. CASE q.batch = O
  <2>1. Successor(q) = StartOf(c + 1)
    BY <1>1, <1>4, SuccessorCases, BatchCounts
  <2>2. StartOf(c + 1) = Complete \/ StartOf(c + 1).inv = c + 1
    BY <1>1, Starts, CountAssumption DEF Point
  <2> QED BY <1>1, <1>2, <2>1, <2>2, CountAssumption
<1> QED BY <1>1, <1>3, <1>4, BatchCounts

\* "initialize" enters and leaves weight batches only.
LEMMA InitializeBatches ==
  ASSUME NEW p \in Nat, p % 2 = 1, p <= 2 * W
  PROVE  BatchOf(0, p).sec = "init"
<1>1. p \div 2 < W
  BY BatchCounts
<1> QED BY <1>1 DEF BatchOf, Point

\* In a call that may be prepared a tile has one input or one output.
LEMMA OneTransfer ==
  ASSUME NEW c \in Nat, ~ReusesStorage(c), NEW t \in Tiles
  PROVE  /\ Supplied(c, t) \in Nat /\ Supplied(c, t) <= 1 /\ Outputs[t] \in Nat
         /\ c # 0 => Supplied(c, t) = 0 \/ Outputs[t] = 0
         /\ c # 0 => Outputs[t] <= 1
<1>1. Weights[t] \in Nat /\ Inputs[t] \in Nat /\ Outputs[t] \in Nat
  BY BatchCounts
<1>2. IF c = 0 THEN Weights[t] <= 1 ELSE Inputs[t] + Outputs[t] <= 1
  BY <1>1 DEF ReusesStorage
<1> QED BY <1>1, <1>2 DEF Supplied

-----------------------------------------------------------------------------
(* The tiles *)

\* No step of the device changes what the host keeps.
LEMMA DeviceKeepsHost ==
  ASSUME DeviceStep \/ \E t \in Tiles : Fault(t)
  PROVE  UNCHANGED <<hpc, call, mode, results, failed, phase, todo, captured, upto, attached>>
BY DEF DeviceStep, EnterBatch, LeaveBatch, Synchronize, TileStep, RaiseRequest, IssueTransfer,
       Deliver, PassBatch, Proceed, Fault, clientVars, copyVars

\* An entry: what the batch before it moved and computed is in place.
LEMMA EnterKeepsData ==
  ASSUME O > 0, IInv, DeviceData, EnterBatch
  PROVE  DeviceData'
<1> DEFINE q == Successor(point)
<1>1. /\ side = "after" /\ side' = "inside" /\ point' = q /\ q # Complete
      /\ dest' = dest /\ out' = out /\ point \in Places
      /\ \A t \in Tiles : stage[t] = "ready" /\ stage'[t] \in {"work", "ready"}
  BY DEF EnterBatch, Synchronize, DeviceData
<1>2. point' \in Places
  BY <1>1, PlacesNext
<1>3. \A t \in Tiles : Moved(t) = point.batch /\ Moved(t)' = q.batch - 1
  BY <1>1 DEF Moved
<1>4. q.sec # "boot" /\ q.batch \in Nat
  BY <1>1, Predecessors, BatchCounts
<1>5. ASSUME NEW t \in Tiles, NEW k \in 1..Weights[t], q.sec = "init" => k <= q.batch - 1
      PROVE  dest[t][<<"init", k>>] = In(0, k)
  <2>1. k <= W
    BY BatchCounts
  <2>2. point.sec # "boot" /\ (point.sec = "init" => k <= point.batch)
    BY <1>1, <1>5, <2>1, Predecessors, PlaceCases, BatchCounts
  <2> QED BY <1>3, <2>2 DEF DeviceData, RegionsFilled
<1>6. ASSUME NEW t \in Tiles, NEW k \in 1..Inputs[t], q.sec \in {"in", "out"},
             q.sec = "in" => k <= q.batch - 1
      PROVE  dest[t][<<"in", k>>] = In(q.inv, k)
  <2>1. k <= I
    BY BatchCounts
  <2>2. /\ point.sec \in {"in", "out"} /\ (point.sec = "in" => k <= point.batch)
        /\ point.inv = q.inv
    BY <1>1, <1>6, <2>1, Predecessors, PlaceCases, BatchCounts
  <2> QED BY <1>3, <2>2 DEF DeviceData, RegionsFilled
<1>7. RegionsFilled'
  BY <1>1, <1>3, <1>4, <1>5, <1>6 DEF RegionsFilled
<1>8. ASSUME NEW t \in Tiles, q.sec = "out" PROVE out[t] = q.inv
  <2>1. CASE q.batch = 1
    BY <1>1, <1>8, <2>1 DEF DeviceData, OutputsComputed, ComputesAfter
  <2>2. CASE q.batch # 1
    <3>1. point.sec = "out" /\ point.inv = q.inv /\ point.batch < O
      BY <1>1, <1>8, <2>2, Predecessors, BatchCounts
    <3> QED BY <3>1 DEF DeviceData, OutputsComputed
  <2> QED BY <2>1, <2>2
<1>9. OutputsComputed'
  BY <1>1, <1>8 DEF OutputsComputed
<1> QED BY <1>1, <1>2, <1>7, <1>9 DEF DeviceData

\* An exit moves nothing.
LEMMA LeaveKeepsData ==
  ASSUME IInv, DeviceData, LeaveBatch
  PROVE  DeviceData'
<1>1. /\ side = "inside" /\ side' = "after" /\ point' = point /\ dest' = dest /\ out' = out
      /\ \A t \in Tiles : stage'[t] = "work"
  BY DEF LeaveBatch, Synchronize
<1>2. \A t \in Tiles : Moved(t)' = Moved(t)
  BY <1>1 DEF Moved
<1>3. RegionsFilled'
  BY <1>1, <1>2 DEF DeviceData, RegionsFilled
<1>4. OutputsComputed'
  BY <1>1 DEF DeviceData, OutputsComputed, ComputesAfter
<1> QED BY <1>1, <1>3, <1>4 DEF DeviceData

\* Raising requests, issuing and awaiting a transfer, and a trap move nothing
\* in the regions.
LEMMA InsideKeepsData ==
  ASSUME IInv, DeviceData, NEW t \in Tiles,
         RaiseRequest(t) \/ IssueTransfer(t) \/ Deliver(t) \/ PassBatch(t) \/ Fault(t)
  PROVE  DeviceData'
<1>1. /\ side' = side /\ point' = point /\ dest' = dest /\ out' = out
      /\ \A u \in Tiles : stage'[u] = "issued" => stage[u] = "issued" \/ u \in Targets(point)
      /\ \A u \in Tiles : side = "after" => (stage'[u] = "ready" <=> stage[u] = "ready")
  BY DEF IInv, TypeOK, LoopInv, RaiseRequest, IssueTransfer, Deliver, PassBatch, Fault
<1>2. \A u \in Tiles : Moved(u)' = Moved(u)
  BY <1>1 DEF Moved
<1>3. RegionsFilled'
  BY <1>1, <1>2 DEF DeviceData, RegionsFilled
<1>4. OutputsComputed'
  BY <1>1 DEF DeviceData, OutputsComputed, ComputesAfter
<1> QED BY <1>1, <1>3, <1>4 DEF DeviceData

\* After an exit a tile moves the batch to its region and, behind the last
\* input, computes from regions that are complete.
LEMMA ProceedKeepsData ==
  ASSUME O > 0, IInv, DeviceData, InputsInPlace, NEW t \in Tiles, Proceed(t)
  PROVE  DeviceData'
<1> DEFINE q == Successor(point)
<1>1. /\ side = "after" /\ side' = side /\ point' = point /\ stage[t] = "work"
      /\ stage' = [stage EXCEPT ![t] = "ready"] /\ stage \in [Tiles -> {"work", "issued", "ready", "dead"}]
      /\ point \in Places /\ dest \in [Tiles -> [Regions -> Items]]
      /\ out \in [Tiles -> 0..Invocations]
  BY DEF Proceed, DeviceData, IInv, TypeOK
<1>2. /\ Moved(t) = point.batch - 1 /\ Moved(t)' = point.batch
      /\ \A u \in Tiles \ {t} : Moved(u)' = Moved(u)
  BY <1>1 DEF Moved
<1>3. \A u \in Tiles, r \in Regions :
        dest'[u][r] = IF /\ u = t /\ Carries(point) /\ t \in Targets(point)
                         /\ r = <<point.sec, point.batch>>
                      THEN InputOf(point) ELSE dest[u][r]
  <2>1. Carries(point) /\ t \in Targets(point) => staging[t] = InputOf(point)
    BY <1>1 DEF InputsInPlace
  <2>2. CASE Carries(point) /\ t \in Targets(point)
    <3>1. dest' = [dest EXCEPT ![t][<<point.sec, point.batch>>] = InputOf(point)]
      BY <2>1, <2>2 DEF Proceed, Carries
    <3> QED BY <1>1, <2>2, <3>1
  <2>3. CASE ~(Carries(point) /\ t \in Targets(point))
    BY <2>3 DEF Proceed, Carries
  <2> QED BY <2>2, <2>3
<1>4. /\ \A u \in Tiles : \A k \in 1..Weights[u] : <<"init", k>> \in Regions /\ k \in Nat
      /\ \A u \in Tiles : \A k \in 1..Inputs[u] : <<"in", k>> \in Regions /\ k \in Nat
  BY BatchCounts DEF Regions
<1>5. ASSUME NEW u \in Tiles, NEW k \in 1..Weights[u], point.sec # "boot",
             point.sec = "init" => k <= Moved(u)'
      PROVE  dest'[u][<<"init", k>>] = In(0, k)
  <2>1. CASE u = t /\ point.sec = "init" /\ k = point.batch
    <3>1. t \in Targets(point) /\ InputOf(point) = In(0, k)
      BY <2>1, BatchCounts DEF Targets, InputOf
    <3> QED BY <1>3, <1>4, <2>1, <3>1 DEF Carries
  <2>2. CASE ~(u = t /\ point.sec = "init" /\ k = point.batch)
    <3>1. <<"init", k>> # <<point.sec, point.batch>> \/ u # t
      BY <2>2
    <3>2. ASSUME point.sec = "init" PROVE k <= Moved(u)
      <4>1. point.batch \in Nat /\ k \in Nat
        BY <1>1, <1>4, <3>2, PlaceCases, BatchCounts
      <4>2. CASE u = t
        BY <1>2, <1>5, <2>2, <3>2, <4>1, <4>2
      <4>3. CASE u # t
        BY <1>2, <1>5, <3>2, <4>3
      <4> QED BY <4>2, <4>3
    <3> QED BY <1>3, <1>4, <1>5, <3>1, <3>2 DEF DeviceData, RegionsFilled
  <2> QED BY <2>1, <2>2
<1>6. ASSUME NEW u \in Tiles, NEW k \in 1..Inputs[u], point.sec \in {"in", "out"},
             point.sec = "in" => k <= Moved(u)'
      PROVE  dest'[u][<<"in", k>>] = In(point.inv, k)
  <2>1. CASE u = t /\ point.sec = "in" /\ k = point.batch
    <3>1. t \in Targets(point) /\ InputOf(point) = In(point.inv, k)
      BY <2>1, BatchCounts DEF Targets, InputOf
    <3> QED BY <1>3, <1>4, <2>1, <3>1 DEF Carries
  <2>2. CASE ~(u = t /\ point.sec = "in" /\ k = point.batch)
    <3>1. <<"in", k>> # <<point.sec, point.batch>> \/ u # t
      BY <2>2
    <3>2. ASSUME point.sec = "in" PROVE k <= Moved(u)
      <4>1. point.batch \in Nat /\ k \in Nat
        BY <1>1, <1>4, <3>2, PlaceCases, BatchCounts
      <4>2. CASE u = t
        BY <1>2, <1>6, <2>2, <3>2, <4>1, <4>2
      <4>3. CASE u # t
        BY <1>2, <1>6, <3>2, <4>3
      <4> QED BY <4>2, <4>3
    <3> QED BY <1>3, <1>4, <1>6, <3>1, <3>2 DEF DeviceData, RegionsFilled
  <2> QED BY <2>1, <2>2
<1>7. RegionsFilled'
  BY <1>1, <1>5, <1>6 DEF RegionsFilled
<1>8. ASSUME ComputesAfter(point) PROVE out'[t] = q.inv
  <2>1. q.sec = "out" /\ q.batch = 1 /\ q # Complete
    BY <1>8 DEF ComputesAfter, Complete, Point
  <2>2. ASSUME NEW k \in 1..Weights[t] PROVE dest'[t][<<"init", k>>] = In(0, k)
    <3>1. k <= W
      BY BatchCounts
    <3>2. point.sec # "boot" /\ (point.sec = "init" => k <= point.batch)
      BY <1>1, <2>1, <3>1, Predecessors, PlaceCases, BatchCounts
    <3> QED BY <1>2, <1>5, <3>2
  <2>3. ASSUME NEW k \in 1..Inputs[t] PROVE dest'[t][<<"in", k>>] = In(q.inv, k)
    <3>1. k <= I
      BY BatchCounts
    <3>2. point.sec = "in" /\ point.batch = I /\ point.inv = q.inv
      BY <1>1, <2>1, <3>1, Predecessors, PlaceCases, BatchCounts
    <3> QED BY <1>2, <1>6, <3>1, <3>2
  <2>4. HoldsInputs(t, q.inv, dest'[t])
    BY <2>2, <2>3 DEF HoldsInputs
  <2> QED BY <1>1, <1>8, <2>4 DEF Proceed, Computed
<1>9. \A u \in Tiles \ {t} : out'[u] = out[u]
  BY <1>1 DEF Proceed
<1>10. point.sec = "out" /\ point.batch < O => out' = out
  <2>1. point.sec = "out" /\ point.batch < O => q.batch # 1
    BY <1>1, SuccessorCases, PlaceCases, BatchCounts DEF Point
  <2> QED BY <2>1 DEF Proceed, ComputesAfter
<1>11. OutputsComputed'
  BY <1>1, <1>8, <1>9, <1>10 DEF DeviceData, OutputsComputed, ComputesAfter
<1> QED BY <1>1, <1>7, <1>11 DEF DeviceData

\* The pages and the staging buffers carry each batch's inputs to the tiles.
LEMMA DeviceKeepsInputs ==
  ASSUME IInv, DeviceData, InputsInPlace, DeviceStep \/ \E t \in Tiles : Fault(t)
  PROVE  InputsInPlace'
<1>1. CASE EnterBatch
  <2>1. /\ side = "after" /\ side' = "inside" /\ point' = Successor(point) /\ mark = 1
        /\ page' = page
        /\ \A t \in Targets(Successor(point)) : stage'[t] = "work"
    BY <1>1 DEF EnterBatch, Synchronize, IInv, TypeOK, Active, Targets
  <2> QED BY <2>1 DEF InputsInPlace
<1>2. CASE LeaveBatch
  <2>1. /\ side = "inside" /\ side' = "after" /\ point' = point /\ mark' = 0
        /\ page' = page /\ staging' = staging
        /\ \A t \in Targets(point) : stage[t] = "ready"
    BY <1>2 DEF LeaveBatch, Synchronize, IInv, TypeOK, Targets
  <2> QED BY <2>1 DEF InputsInPlace
<1>3. ASSUME NEW t \in Tiles, Deliver(t) PROVE InputsInPlace'
  <2>1. /\ side = "inside" /\ side' = side /\ point' = point /\ t \in Targets(point)
        /\ stage' = [stage EXCEPT ![t] = "ready"]
        /\ stage \in [Tiles -> {"work", "issued", "ready", "dead"}]
        /\ staging \in [Tiles -> Items]
        /\ Targets(point) \subseteq Tiles
    BY <1>3 DEF Deliver, IInv, LoopInv, TypeOK, DeviceData, Targets
  <2>2. Carries(point) => page' = page /\ staging' = [staging EXCEPT ![t] = page[t]]
    BY <1>3 DEF Deliver, Carries
  <2>3. Carries(point) => page[t] = InputOf(point)
    BY <2>1 DEF InputsInPlace
  <2> QED BY <2>1, <2>2, <2>3 DEF InputsInPlace
<1>4. ASSUME NEW t \in Tiles,
             RaiseRequest(t) \/ IssueTransfer(t) \/ PassBatch(t) \/ Proceed(t) \/ Fault(t)
      PROVE  InputsInPlace'
  <2>1. /\ side' = side /\ point' = point /\ mark' = mark /\ page' = page /\ staging' = staging
        /\ \A u \in Targets(point) : stage'[u] = "ready" => side = "after" \/ stage[u] = "ready"
    BY <1>4 DEF RaiseRequest, IssueTransfer, PassBatch, Proceed, Fault, IInv, TypeOK, Targets
  <2> QED BY <2>1 DEF InputsInPlace
<1> QED BY <1>1, <1>2, <1>3, <1>4 DEF DeviceStep, TileStep

-----------------------------------------------------------------------------
\* An output leaves a tile only while the host awaits a batch of a "run".
LEMMA OutputsInRuns ==
  ASSUME IInv, DeviceData, NEW t \in Tiles, stage[t] = "issued", point.sec = "out"
  PROVE  /\ side = "inside" /\ t \in Targets(point) /\ Outputs[t] \in Nat /\ Outputs[t] >= 1
         /\ point.batch \in Nat /\ point.batch >= 1 /\ point.batch <= Outputs[t]
         /\ hpc # "prepare" /\ (hpc = "stage" => phase % 2 = 1)
         /\ hpc \in {"drive", "stage", "settle"} => call # 0
<1>1. side = "inside" /\ t \in Targets(point)
  BY DEF IInv, LoopInv, DeviceData
<1>2. /\ Outputs[t] \in Nat /\ point.batch \in Nat /\ point.batch >= 1
      /\ point.batch <= Outputs[t]
  BY <1>1, PlaceCases, BatchCounts DEF DeviceData, Targets
<1>3. call \in Nat /\ phase \in Nat
  BY CountAssumption DEF IInv, TypeOK
<1>4. hpc # "prepare" /\ (hpc \in {"drive", "stage"} => phase % 2 = 1 /\ point = BatchOf(call, phase))
  BY <1>1, <1>3, FirstPhase, Parity DEF IInv, Lockstep, AtPhase
<1>5. hpc = "settle" => \/ phase % 2 = 1 /\ point = BatchOf(call, phase)
                        \/ (phase + 1) % 2 = 1 /\ point = BatchOf(call, phase + 1)
  BY <1>1, <1>3, Parity DEF IInv, Lockstep, AtPhase, TypeOK
<1>6. hpc \in {"drive", "stage", "settle"} /\ call = 0 =>
        phase <= 2 * W /\ (hpc = "settle" => phase + 1 <= 2 * W)
  BY <1>3, BatchCounts DEF IInv, LoopInv, Phases
<1>7. ASSUME hpc \in {"drive", "stage", "settle"}, call = 0 PROVE FALSE
  BY <1>3, <1>4, <1>5, <1>6, <1>7, InitializeBatches
<1> QED BY <1>1, <1>2, <1>4, <1>7

\* The outputs a batch has written stay on the pages until the next batch.
LEMMA DeviceKeepsOutputs ==
  ASSUME O > 0, IInv, DeviceData, OutputsOnPages, Told, DeviceStep \/ \E t \in Tiles : Fault(t)
  PROVE  OutputsOnPages'
<1>0. UNCHANGED <<hpc, call, mode>>
  BY DeviceKeepsHost
<1>1. CASE EnterBatch
  <2> DEFINE q == Successor(point)
  <2>1. /\ side = "after" /\ side' = "inside" /\ point' = q /\ q # Complete /\ page' = page
        /\ \A t \in Targets(q) : stage'[t] = "work"
        /\ point \in Places
    BY <1>1 DEF EnterBatch, Synchronize, Active, Targets, DeviceData
  <2>2. q.sec = "out" /\ q.batch > 1 => point.sec = "out" /\ point.inv = q.inv
    BY <2>1, Predecessors
  <2> QED BY <1>0, <2>1, <2>2 DEF OutputsOnPages
<1>2. CASE LeaveBatch
  <2>1. /\ side = "inside" /\ side' = "after" /\ point' = point /\ page' = page
        /\ \A t \in Targets(point) : stage[t] = "ready"
    BY <1>2 DEF LeaveBatch, Synchronize, Targets
  <2>2. ASSUME point.sec = "out", NEW t \in Tiles, Outputs[t] >= 1, ~(point.batch > 1)
        PROVE  page[t] = Out(point.inv, 1)
    <3>1. point.batch = 1
      BY <2>2, PlaceCases, BatchCounts DEF DeviceData
    <3>2. t \in Targets(point)
      BY <2>2, <3>1 DEF Targets
    <3> QED BY <2>1, <2>2, <3>1, <3>2 DEF OutputsOnPages
  <2> QED BY <1>0, <2>1, <2>2 DEF OutputsOnPages
<1>3. ASSUME NEW t \in Tiles, Deliver(t) PROVE OutputsOnPages'
  <2>1. /\ stage[t] = "issued" /\ side' = side /\ point' = point
        /\ stage' = [stage EXCEPT ![t] = "ready"] /\ page \in [Tiles -> Items]
        /\ stage \in [Tiles -> {"work", "issued", "ready", "dead"}]
        /\ Targets(point) \subseteq Tiles
    BY <1>3 DEF Deliver, IInv, TypeOK, Targets
  <2>2. CASE point.sec = "out"
    <3>1. page' = [page EXCEPT ![t] = Out(out[t], point.batch)]
      BY <1>3, <2>2 DEF Deliver
    <3>2. side = "inside" /\ out[t] = point.inv
      BY <2>1, <2>2, OutputsInRuns DEF DeviceData, OutputsComputed
    <3>3. ~(mode = "prepared" /\ hpc \in InCall /\ point.inv = call /\ point.batch > 1)
      <4>1. SUFFICES ASSUME mode = "prepared", hpc \in InCall, point.inv = call, point.batch > 1
                     PROVE  FALSE
        OBVIOUS
      <4>2. call \in Nat /\ call # 0
        BY <2>2, <4>1, PlaceCases DEF DeviceData
      <4>3. Outputs[t] <= 1 /\ Outputs[t] \in Nat
        BY <4>1, <4>2, OneTransfer DEF Told
      <4> QED BY <2>1, <2>2, <4>1, <4>3, OutputsInRuns
    <3>4. \A u \in Targets(point) : stage'[u] = "ready" => page'[u] = Out(point.inv, point.batch)
      BY <2>1, <2>2, <3>1, <3>2 DEF OutputsOnPages
    <3> QED BY <1>0, <2>1, <2>2, <3>2, <3>3, <3>4 DEF OutputsOnPages
  <2>3. CASE point.sec # "out"
    BY <1>0, <2>1, <2>3 DEF OutputsOnPages
  <2> QED BY <2>2, <2>3
<1>4. ASSUME NEW t \in Tiles,
             RaiseRequest(t) \/ IssueTransfer(t) \/ PassBatch(t) \/ Proceed(t) \/ Fault(t)
      PROVE  OutputsOnPages'
  <2>1. /\ side' = side /\ point' = point /\ page' = page
        /\ \A u \in Targets(point) : stage'[u] = "ready" => side = "after" \/ stage[u] = "ready"
    BY <1>4 DEF RaiseRequest, IssueTransfer, PassBatch, Proceed, Fault, IInv, TypeOK, Targets
  <2> QED BY <1>0, <2>1 DEF OutputsOnPages
<1> QED BY <1>1, <1>2, <1>3, <1>4 DEF DeviceStep, TileStep

\* What a prepared call has staged is not overwritten by its outputs.
LEMMA DeviceKeepsCopies ==
  ASSUME IInv, DeviceData, CopiesStaged, Told, DeviceStep \/ \E t \in Tiles : Fault(t)
  PROVE  CopiesStaged'
<1>0. /\ UNCHANGED <<hpc, call, mode, phase, todo, upto>>
      /\ StagedSlices' = StagedSlices /\ Uncollected' = Uncollected
      /\ HandshakeBatch' = HandshakeBatch
  BY DeviceKeepsHost DEF StagedSlices, Uncollected, HandshakeBatch, CapturedBatch
<1>1. CASE page' = page
  BY <1>0, <1>1 DEF CopiesStaged
<1>2. CASE page' # page
  <2>1. PICK t \in Tiles : Deliver(t)
    BY <1>2 DEF DeviceStep, EnterBatch, LeaveBatch, Synchronize, TileStep, RaiseRequest,
       IssueTransfer, PassBatch, Proceed, Fault
  <2>2. /\ stage[t] = "issued" /\ point.sec = "out"
        /\ \A u \in Tiles \ {t} : page'[u] = page[u]
    BY <1>2, <2>1 DEF Deliver, IInv, TypeOK
  <2>3. hpc # "prepare" /\ ~(hpc = "stage" /\ phase % 2 = 0)
    BY <2>2, OutputsInRuns
  <2>4. mode = "prepared" /\ hpc \in {"drive", "stage", "settle"} => Supplied(call, t) = 0
    <3>1. call \in Nat
      BY CountAssumption DEF IInv, TypeOK
    <3> QED BY <2>2, <3>1, OutputsInRuns, OneTransfer DEF Told, InCall
  <2>5. InBatches(call) \in Nat
    BY BatchCounts DEF InBatches
  <2> QED BY <1>0, <2>2, <2>3, <2>4, <2>5 DEF CopiesStaged
<1> QED BY <1>1, <1>2

\* The device answers nothing, and a call it has entered is one it was built
\* for.
LEMMA DeviceKeepsAnswers ==
  ASSUME IInv, OutputsTaken, Told, DeviceStep \/ \E t \in Tiles : Fault(t)
  PROVE  OutputsTaken' /\ Told'
<1>0. UNCHANGED <<hpc, call, mode, results, failed, phase, todo, captured, upto>>
  BY DeviceKeepsHost
<1>1. OutputsTaken'
  BY <1>0 DEF OutputsTaken, Taken, Got, CapturedBatch, HandshakeBatch, InBatches
<1>2. hpc = "settle" /\ mark' = 0 => call <= Invocations
  <2>1. CASE mark = 0
    BY <2>1 DEF Told
  <2>2. CASE mark = 1 /\ EnterBatch /\ hpc = "settle"
    <3>1. BatchOf(call, phase) # Complete
      BY <2>2, Parity DEF IInv, TypeOK, Lockstep, AtPhase, EnterBatch
    <3> QED BY <3>1, CountAssumption DEF BatchOf, IInv, TypeOK
  <2>3. CASE mark = 1 /\ LeaveBatch /\ hpc = "settle"
    <3>1. phase % 2 = 1 /\ phase \in Nat
      BY <2>3, Parity DEF IInv, TypeOK, Lockstep, AtPhase, LeaveBatch
    <3>2. phase > 0
      BY <3>1
    <3> QED BY <2>3, <3>2 DEF Told
  <2>4. EnterBatch \/ LeaveBatch \/ mark' = mark
    BY DEF DeviceStep, TileStep, RaiseRequest, IssueTransfer, Deliver, PassBatch, Proceed, Fault
  <2> QED BY <2>1, <2>2, <2>3, <2>4 DEF IInv, TypeOK
<1>3. Told'
  BY <1>0, <1>2 DEF Told
<1> QED BY <1>1, <1>3

-----------------------------------------------------------------------------
(* The client's thread *)

\* What a copy loop copies in one step: a batch of a tile.
Slices == Tiles \X (1..(W + I + O))

\* No step of the host changes what the tiles keep.
LEMMA HostKeepsDevice == ASSUME HostStep PROVE UNCHANGED deviceVars
BY DEF HostStep, Start, StartAck, StartDone, InvokeStreaming, InvokePrepared, PrepareSlice,
       PrepareDone, DriveWait, StageSlice, DriveAck, DriveSettle, FinishAck, FinishWait,
       FinishNothing, CollectSlice, CollectDone, TimeOut, Drop, CaptureSlice

LEMMA HostKeepsData == ASSUME HostStep, DeviceData PROVE DeviceData'
<1>1. UNCHANGED <<point, side, stage, dest, out>>
  BY HostKeepsDevice DEF deviceVars, tileVars
<1>2. \A t \in Tiles : Moved(t)' = Moved(t)
  BY <1>1 DEF Moved
<1> QED BY <1>1, <1>2 DEF DeviceData, RegionsFilled, OutputsComputed

\* Where the device is while the host copies.
LEMMA WhileCopying ==
  ASSUME IInv, CopiesStaged, HostStep,
         NEW s \in Slices, PrepareSlice(s) \/ StageSlice(s) \/ CollectSlice(s)
  PROVE  /\ mark = 0 /\ mark' = mark /\ side = "after" /\ hpc' = hpc /\ s \in todo
         /\ UNCHANGED <<call, mode, results, failed, phase, upto>> /\ todo' = todo \ {s}
         /\ hpc \in {"prepare", "stage"} => Successor(point) = BatchOf(call, phase)
         /\ hpc = "prepare" => phase = 0
         /\ hpc = "stage" => s \in StagedSlices /\ mode = "streaming" /\ phase % 2 = 0
         /\ hpc = "collect" => s \in Uncollected /\ Successor(point) = BatchOf(call + 1, 0)
<1>1. /\ hpc' = hpc /\ s \in todo /\ mark' = mark /\ hpc \in {"prepare", "stage", "collect"}
      /\ UNCHANGED <<call, mode, results, failed, phase, upto>> /\ todo' = todo \ {s}
  BY DEF PrepareSlice, StageSlice, CollectSlice, Step, clientVars
<1>2. /\ mark = 0 /\ side = "after"
      /\ hpc \in {"prepare", "stage"} => Successor(point) = BatchOf(call, phase)
      /\ hpc = "prepare" => phase = 0
      /\ hpc = "collect" => Successor(point) = BatchOf(call + 1, 0)
  BY <1>1, FirstPhase, Parity DEF IInv, TypeOK, Lockstep, LoopInv, AtPhase
<1>3. hpc = "stage" => s \in StagedSlices /\ mode = "streaming" /\ phase % 2 = 0
  <2> SUFFICES ASSUME hpc = "stage" PROVE s \in StagedSlices /\ mode = "streaming" /\ phase % 2 = 0
    OBVIOUS
  <2>1. s \in StagedSlices
    BY <1>1 DEF CopiesStaged
  <2> QED BY <2>1, Parity DEF IInv, TypeOK, StagedSlices
<1>4. hpc = "collect" => s \in Uncollected
  BY <1>1 DEF CopiesStaged
<1> QED BY <1>1, <1>2, <1>3, <1>4

\* The host grants an entry when the inputs of the batch are on the pages.
LEMMA HostKeepsInputs ==
  ASSUME O > 0, IInv, DeviceData, InputsInPlace, CopiesStaged, HostStep
  PROVE  InputsInPlace'
<1>1. UNCHANGED <<point, side, stage, staging>>
  BY HostKeepsDevice DEF deviceVars, tileVars
<1>2. ASSUME NEW s \in Slices, PrepareSlice(s) \/ StageSlice(s) \/ CollectSlice(s)
      PROVE  InputsInPlace'
  <2>1. mark' = 0 /\ side = "after"
    BY <1>2, WhileCopying
  <2> QED BY <1>1, <2>1 DEF InputsInPlace
<1>3. CASE StartAck \/ FinishAck
  <2>1. side = "inside" /\ page' = page
    BY <1>3 DEF StartAck, FinishAck, Step, IInv, Lockstep, LoopInv, AtBoot, AtPhase, DefersOutput
  <2> QED BY <1>1, <2>1 DEF InputsInPlace
<1>4. CASE DriveAck
  <2>1. hpc = "stage" /\ page' = page /\ todo = {} /\ call \in Nat /\ phase \in Nat
    BY <1>4, CountAssumption DEF DriveAck, Step, IInv, TypeOK
  <2>2. ASSUME side = "after", Carries(Successor(point)), NEW t \in Targets(Successor(point))
        PROVE  page[t] = InputOf(Successor(point))
    <3>1. phase % 2 = 0 /\ Successor(point) = BatchOf(call, phase) /\ phase < Phases(call)
      BY <2>1, <2>2, Parity DEF IInv, Lockstep, LoopInv, AtPhase
    <3>2. /\ HandshakeBatch < InBatches(call) /\ HandshakeBatch + 1 \in 1..InBatches(call)
          /\ InputOf(Successor(point)) = In(call, HandshakeBatch + 1)
          /\ HandshakeBatch + 1 <= Supplied(call, t) /\ t \in Tiles
      BY <2>1, <2>2, <3>1, InputPhase DEF HandshakeBatch, Targets
    <3> QED BY <2>1, <3>1, <3>2 DEF CopiesStaged, IInv, TypeOK
  <2> QED BY <1>1, <2>1, <2>2 DEF InputsInPlace
<1>5. CASE page' = page /\ mark' = mark
  BY <1>1, <1>5 DEF InputsInPlace
<1>6. \/ page' = page /\ mark' = mark
      \/ StartAck \/ DriveAck \/ FinishAck
      \/ \E s \in Slices : PrepareSlice(s) \/ StageSlice(s) \/ CollectSlice(s)
  BY DEF HostStep, Start, StartDone, InvokeStreaming, InvokePrepared, PrepareDone, DriveWait,
         DriveSettle, FinishWait, FinishNothing, CollectDone, TimeOut, Drop, Slices
<1> QED BY <1>2, <1>3, <1>4, <1>5, <1>6

\* The host writes to a page before the device has reached the outputs of the
\* call, and never while the call still has outputs on the pages.
LEMMA HostKeepsOutputs ==
  ASSUME O > 0, IInv, DeviceData, OutputsOnPages, CopiesStaged, HostStep
  PROVE  OutputsOnPages'
<1>0. UNCHANGED <<point, side, stage>> /\ call \in Nat /\ phase \in Nat /\ point \in Places
  BY HostKeepsDevice, CountAssumption DEF deviceVars, tileVars, IInv, TypeOK, DeviceData
<1>1. ASSUME NEW s \in Slices, PrepareSlice(s)
      PROVE  OutputsOnPages'
  <2>1. side = "after" /\ hpc' = "prepare"
    BY <1>1, WhileCopying DEF PrepareSlice, Step
  <2> QED BY <1>0, <2>1 DEF OutputsOnPages, InCall
<1>2. ASSUME NEW s \in Slices, StageSlice(s), page' # page
      PROVE  OutputsOnPages'
  <2>1. HandshakeBatch < InBatches(call) /\ hpc = "stage"
    BY <1>2 DEF StageSlice, CaptureSlice, Step
  <2>2. side = "after" /\ Successor(point) = BatchOf(call, phase) /\ call' = call
    BY <1>2, <2>1, WhileCopying
  <2>3. ~(point.sec = "out" /\ point.inv = call)
    BY <1>0, <2>1, <2>2, NotYet DEF HandshakeBatch
  <2> QED BY <1>0, <2>2, <2>3 DEF OutputsOnPages
<1>3. CASE InvokeStreaming \/ PrepareDone
  <2>1. /\ page' = page /\ call' = call /\ side = "after" /\ Successor(point) = BatchOf(call, 0)
    BY <1>3, FirstPhase DEF InvokeStreaming, PrepareDone, Step, IInv, Lockstep, AtPhase, clientVars
  <2>2. ~(point.sec = "out" /\ point.inv = call)
    BY <1>0, <2>1, NotYet
  <2> QED BY <1>0, <2>1, <2>2 DEF OutputsOnPages
<1>4. CASE /\ page' = page
           /\ hpc' \in InCall => hpc \in InCall /\ call' = call /\ mode' = mode
  BY <1>0, <1>4 DEF OutputsOnPages
<1>5. \/ /\ page' = page
         /\ hpc' \in InCall => hpc \in InCall /\ call' = call /\ mode' = mode
      \/ InvokeStreaming \/ PrepareDone
      \/ \E s \in Slices : PrepareSlice(s) \/ StageSlice(s)
  BY DEF HostStep, Start, StartAck, StartDone, InvokePrepared, DriveWait, DriveAck,
         DriveSettle, FinishAck, FinishWait, FinishNothing, CollectSlice, CaptureSlice,
         CollectDone, TimeOut, Drop, Slices, Step, InCall, clientVars
<1>6. ASSUME NEW s \in Slices, StageSlice(s), page' = page PROVE OutputsOnPages'
  BY <1>4, <1>6 DEF StageSlice, Step, clientVars
<1> QED BY <1>1, <1>2, <1>3, <1>4, <1>5, <1>6

-----------------------------------------------------------------------------
(* The copy loops *)

\* Preparing copies each input once, and nothing over it.
LEMMA PrepareKeepsCopies ==
  ASSUME IInv, CopiesStaged, Told, HostStep, NEW s \in Slices, PrepareSlice(s)
  PROVE  CopiesStaged'
<1>1. /\ hpc = "prepare" /\ hpc' = hpc /\ s \in todo /\ todo' = todo \ {s}
      /\ UNCHANGED <<call, mode, upto>> /\ call \in Nat /\ s[1] \in Tiles /\ s[2] \in Nat
      /\ s = <<s[1], s[2]>>
  BY CountAssumption, BatchCounts DEF PrepareSlice, Step, clientVars, IInv, TypeOK, Slices
<1>2. todo' \subseteq InSlices(call, 1..InBatches(call)) \cup OutSlices(call, 1..OutBatches(call))
  BY <1>1 DEF CopiesStaged
<1>3. ASSUME mode = "prepared", NEW t \in Tiles, NEW k \in 1..InBatches(call), k <= Supplied(call, t),
             <<t, k>> \notin todo'
      PROVE  page'[t] = In(call, k)
  <2>1. CASE s = <<t, k>>
    <3>1. s \in InSlices(call, 1..InBatches(call))
      BY <1>3, <2>1 DEF InSlices, Supplied
    <3> QED BY <1>1, <2>1, <3>1 DEF PrepareSlice, IInv, TypeOK
  <2>2. CASE s # <<t, k>>
    <3>1. page[t] = In(call, k)
      BY <1>1, <1>3, <2>2 DEF CopiesStaged
    <3>2. s[1] # t
      <4>1. SUFFICES ASSUME s[1] = t PROVE FALSE
        OBVIOUS
      <4>2. ~ReusesStorage(call)
        BY <1>1, <1>3 DEF Told
      <4>3. InBatches(call) \in Nat /\ OutBatches(call) \in Nat
        BY BatchCounts DEF InBatches, OutBatches
      <4>4. k \in Nat /\ k >= 1
        BY <4>3
      <4>5. s[2] >= 1
        BY BatchCounts DEF Slices
      <4>6. CASE s \in InSlices(call, 1..InBatches(call))
        <5>1. s[2] <= Supplied(call, t)
          BY <4>1, <4>6 DEF InSlices, Supplied
        <5>2. s[2] = k
          BY <1>1, <1>3, <4>2, <4>4, <4>5, <5>1, OneTransfer
        <5> QED BY <1>1, <2>2, <4>1, <5>2
      <4>7. CASE s \in OutSlices(call, 1..OutBatches(call))
        <5>1. call # 0 /\ s[2] <= Outputs[t]
          BY <4>1, <4>7 DEF OutSlices
        <5> QED BY <1>1, <1>3, <4>2, <4>4, <4>5, <5>1, OneTransfer
      <4> QED BY <1>1, <4>6, <4>7 DEF CopiesStaged
    <3> QED BY <1>1, <3>1, <3>2 DEF PrepareSlice, IInv, TypeOK
  <2> QED BY <2>1, <2>2
<1> QED BY <1>1, <1>2, <1>3 DEF CopiesStaged

\* Streaming stages the input batch of the phase, tile by tile.
LEMMA StageKeepsCopies ==
  ASSUME IInv, CopiesStaged, HostStep, NEW s \in Slices, StageSlice(s)
  PROVE  CopiesStaged'
<1>1. /\ hpc = "stage" /\ hpc' = hpc /\ s \in todo /\ todo' = todo \ {s} /\ s[1] \in Tiles
      /\ UNCHANGED <<call, mode, phase, upto>>
      /\ s \in StagedSlices /\ mode = "streaming" /\ phase % 2 = 0
      /\ page \in [Tiles -> Items]
  BY WhileCopying DEF StageSlice, Step, Slices, IInv, TypeOK
<1>2. StagedSlices' = StagedSlices /\ HandshakeBatch' = HandshakeBatch
  BY <1>1 DEF StagedSlices, HandshakeBatch, CapturedBatch
<1>3. todo' \subseteq StagedSlices'
  BY <1>1, <1>2 DEF CopiesStaged
<1>4. ASSUME HandshakeBatch < InBatches(call), NEW t \in Tiles,
             HandshakeBatch + 1 <= Supplied(call, t), <<t, HandshakeBatch + 1>> \notin todo'
      PROVE  page'[t] = In(call, HandshakeBatch + 1)
  <2>1. s[2] = HandshakeBatch + 1 /\ s = <<s[1], s[2]>>
    BY <1>1, <1>4 DEF StagedSlices, InSlices
  <2>2. page' = [page EXCEPT ![s[1]] = In(call, s[2])]
    BY <1>4 DEF StageSlice
  <2>3. s[1] = t \/ page[t] = In(call, HandshakeBatch + 1)
    BY <1>1, <1>4, <2>1 DEF CopiesStaged
  <2> QED BY <1>1, <2>1, <2>2, <2>3
<1> QED BY <1>1, <1>2, <1>3, <1>4 DEF CopiesStaged

\* The other steps copy nothing to the pages; three of them start a loop.
LEMMA HostKeepsCopies ==
  ASSUME IInv, CopiesStaged, Told, HostStep
  PROVE  CopiesStaged'
<1> USE DEF Step, clientVars
<1>1. CASE Start \/ StartAck \/ StartDone \/ CollectDone \/ TimeOut \/ Drop
  <2>1. hpc' \in {"startAck", "startWait", "idle", "closing", "closed"}
    BY <1>1 DEF Start, StartAck, StartDone, CollectDone, TimeOut, Drop
  <2> QED BY <2>1 DEF CopiesStaged
<1>2. CASE InvokeStreaming
  <2>1. hpc' = "drive" /\ mode' = "streaming"
    BY <1>2 DEF InvokeStreaming
  <2> QED BY <2>1 DEF CopiesStaged
<1>3. CASE InvokePrepared
  <2>1. /\ hpc' = "prepare" /\ call' = call
        /\ todo' = InSlices(call, 1..InBatches(call)) \cup OutSlices(call, 1..OutBatches(call))
    BY <1>3 DEF InvokePrepared
  <2>2. \A t \in Tiles : \A k \in 1..InBatches(call) : k <= Supplied(call, t) => <<t, k>> \in todo'
    BY <2>1 DEF InSlices, Supplied
  <2> QED BY <2>1, <2>2 DEF CopiesStaged
<1>4. CASE PrepareDone
  <2>1. hpc = "prepare" /\ hpc' = "drive" /\ todo = {} /\ UNCHANGED <<call, mode, page>>
    BY <1>4 DEF PrepareDone
  <2> QED BY <2>1 DEF CopiesStaged
<1>5. CASE DriveWait
  <2>1. /\ hpc = "drive" /\ hpc' = "stage" /\ UNCHANGED <<call, mode, phase, page>>
        /\ todo' = StagedSlices
    BY <1>5 DEF DriveWait
  <2>2. StagedSlices' = StagedSlices /\ HandshakeBatch' = HandshakeBatch
    BY <2>1 DEF StagedSlices, HandshakeBatch, CapturedBatch
  <2>3. ASSUME mode = "streaming", phase % 2 = 0, HandshakeBatch < InBatches(call), NEW t \in Tiles,
               HandshakeBatch + 1 <= Supplied(call, t)
        PROVE  <<t, HandshakeBatch + 1>> \in todo'
    BY <2>1, <2>3 DEF StagedSlices, InSlices, Supplied
  <2> QED BY <2>1, <2>2, <2>3 DEF CopiesStaged
<1>6. CASE DriveAck \/ DriveSettle
  <2>1. /\ \/ hpc = "stage" /\ hpc' = "settle"
           \/ hpc = "settle" /\ hpc' = "drive"
        /\ UNCHANGED <<call, mode, page>>
    BY <1>6 DEF DriveAck, DriveSettle
  <2> QED BY <2>1 DEF CopiesStaged
<1>7. CASE FinishAck
  BY <1>7 DEF FinishAck, CopiesStaged
<1>8. CASE FinishWait \/ FinishNothing
  <2>1. hpc' = "collect" /\ todo' = Uncollected /\ UNCHANGED <<call, upto>>
    BY <1>8 DEF FinishWait, FinishNothing
  <2> QED BY <2>1 DEF CopiesStaged, Uncollected
<1>9. ASSUME NEW s \in Slices, CollectSlice(s) PROVE CopiesStaged'
  <2>1. hpc = "collect" /\ hpc' = hpc /\ todo' = todo \ {s} /\ UNCHANGED <<call, upto>>
    BY <1>9 DEF CollectSlice
  <2> QED BY <2>1 DEF CopiesStaged, Uncollected
<1>10. \A s \in Slices : PrepareSlice(s) \/ StageSlice(s) => CopiesStaged'
  BY PrepareKeepsCopies, StageKeepsCopies
<1> QED BY <1>1, <1>2, <1>3, <1>4, <1>5, <1>6, <1>7, <1>8, <1>9, <1>10 DEF HostStep, Slices

-----------------------------------------------------------------------------
(* The outputs *)

LEMMA BatchTypes ==
  ASSUME TypeOK
  PROVE  /\ call \in Nat /\ phase \in Nat /\ upto \in Nat /\ HandshakeBatch \in Nat
         /\ InBatches(call) \in Nat /\ CapturedBatch \in Int
         /\ \A t \in Tiles : Outputs[t] \in 0..O
BY BatchCounts, CountAssumption, Parity DEF TypeOK, HandshakeBatch, InBatches, CapturedBatch

\* With outputs, only "initialize" has no exit left to grant at its end.
LEMMA RunsDefer == ASSUME O > 0, NEW c \in Nat, ~DefersOutput(c) PROVE c = 0
BY BatchCounts DEF DefersOutput, OutBatches, Phases

\* Nothing is taken, or everything stays taken, when Got stays as it is.
LEMMA TakenKept ==
  ASSUME call' = call,
         \A t \in Tiles : \A k \in 1..O : k <= Outputs[t] => (Got(t, k)' <=> Got(t, k))
  PROVE  Taken' = Taken
<1>1. \A t \in Tiles :
        [k \in 1..O |-> IF k <= Outputs[t] /\ Got(t, k)' THEN Out(call', k) ELSE Blank]
          = [k \in 1..O |-> IF k <= Outputs[t] /\ Got(t, k) THEN Out(call, k) ELSE Blank]
  OBVIOUS
<1> QED BY <1>1 DEF Taken

LEMMA NothingTaken ==
  ASSUME TypeOK, \A t \in Tiles : \A k \in 1..O : ~Got(t, k)
  PROVE  Taken = NoOutput
<1>1. \A t \in Tiles :
        [k \in 1..O |-> IF k <= Outputs[t] /\ Got(t, k) THEN Out(call, k) ELSE Blank]
          = [k \in 1..O |-> Blank]
  OBVIOUS
<1> QED BY <1>1 DEF Taken, NoOutput

\* Copying one slice from a page that holds it.
LEMMA TakeSlice ==
  ASSUME TypeOK, call' = call, captured = Taken, NEW s \in Slices, CaptureSlice(s),
         s[2] \in 1..O, s[2] <= Outputs[s[1]], page[s[1]] = Out(call, s[2]),
         \A t \in Tiles : \A k \in 1..O :
           k <= Outputs[t] => (Got(t, k)' <=> Got(t, k) \/ s = <<t, k>>)
  PROVE  captured' = Taken'
<1> DEFINE Value(t, k, got) == IF k <= Outputs[t] /\ got THEN Out(call, k) ELSE Blank
           Now  == [t \in Tiles |-> [k \in 1..O |-> Value(t, k, Got(t, k))]]
           Then == [t \in Tiles |-> [k \in 1..O |-> Value(t, k, Got(t, k)')]]
<1>1. s[1] \in Tiles /\ s = <<s[1], s[2]>>
  BY DEF Slices
<1>2. Taken = Now /\ Taken' = Then
  BY DEF Taken
<1>3. captured' = [Now EXCEPT ![s[1]][s[2]] = Out(call, s[2])]
  BY <1>2 DEF CaptureSlice
<1>4. \A t \in Tiles, k \in 1..O :
        captured'[t][k] = IF s = <<t, k>> THEN Out(call, k) ELSE Value(t, k, Got(t, k))
  <2> SUFFICES ASSUME NEW t \in Tiles, NEW k \in 1..O
               PROVE  captured'[t][k] =
                        IF s = <<t, k>> THEN Out(call, k) ELSE Value(t, k, Got(t, k))
    OBVIOUS
  <2>1. Now[t] = [j \in 1..O |-> Value(t, j, Got(t, j))] /\ Now[t][k] = Value(t, k, Got(t, k))
    OBVIOUS
  <2>2. CASE s[1] = t
    <3>1. captured'[t] = [Now[t] EXCEPT ![s[2]] = Out(call, s[2])]
      BY <1>1, <1>3, <2>2
    <3>2. captured'[t][k] = IF s[2] = k THEN Out(call, s[2]) ELSE Now[t][k]
      BY <2>1, <3>1
    <3>3. s = <<t, k>> <=> s[2] = k
      BY <1>1, <2>2
    <3> HIDE DEF Now, Value
    <3> QED BY <2>1, <3>2, <3>3
  <2>3. CASE s[1] # t
    <3>1. s # <<t, k>>
      BY <2>3
    <3>2. captured'[t] = Now[t]
      <4> DEFINE row == [Now[s[1]] EXCEPT ![s[2]] = Out(call, s[2])]
      <4>1. captured' = [Now EXCEPT ![s[1]] = row]
        BY <1>3
      <4> HIDE DEF row
      <4> QED BY <2>3, <4>1
    <3> HIDE DEF Now, Value
    <3> QED BY <2>1, <3>1, <3>2
  <2> QED BY <2>2, <2>3
<1>5. \A t \in Tiles, k \in 1..O :
        Value(t, k, Got(t, k)') = IF s = <<t, k>> THEN Out(call, k) ELSE Value(t, k, Got(t, k))
  BY <1>1
<1>6. \A t \in Tiles, k \in 1..O : captured'[t][k] = Then[t][k]
  BY <1>4, <1>5
<1>7. /\ captured' = [t \in Tiles |-> captured'[t]]
      /\ \A t \in Tiles : captured'[t] = [k \in 1..O |-> captured'[t][k]]
  BY <1>3
<1>8. \A t \in Tiles : captured'[t] = Then[t]
  BY <1>6, <1>7
<1> QED BY <1>2, <1>7, <1>8

-----------------------------------------------------------------------------
\* Streaming takes the batch before from its page in every phase that enters
\* the next one.
LEMMA StageTakes ==
  ASSUME O > 0, IInv, DeviceData, OutputsOnPages, CopiesStaged, OutputsTaken, Told, HostStep,
         NEW s \in Slices, StageSlice(s)
  PROVE  OutputsTaken'
<1>1. /\ hpc = "stage" /\ hpc' = hpc /\ side = "after" /\ todo' = todo \ {s} /\ s \in StagedSlices
      /\ UNCHANGED <<call, mode, phase, upto>> /\ mode = "streaming" /\ phase % 2 = 0
      /\ Successor(point) = BatchOf(call, phase) /\ s \in todo
  BY WhileCopying DEF StageSlice, Step
<1>2. CapturedBatch' = CapturedBatch /\ HandshakeBatch' = HandshakeBatch
  BY <1>1 DEF CapturedBatch, HandshakeBatch
<1>3. call > 0 => captured' = Taken'
  <2> SUFFICES ASSUME call > 0 PROVE captured' = Taken'
    OBVIOUS
  <2>1. captured = Taken
    BY <1>1 DEF OutputsTaken
  <2>2. CASE HandshakeBatch < InBatches(call)
    <3>1. captured' = captured /\ \A k \in 1..O : k # CapturedBatch
      BY <2>2, BatchTypes DEF IInv, CapturedBatch, StageSlice
    <3>2. \A t \in Tiles : \A k \in 1..O : Got(t, k)' <=> Got(t, k)
      BY <1>1, <1>2, <3>1 DEF Got
    <3> QED BY <1>1, <2>1, <3>1, <3>2, TakenKept
  <2>3. CASE ~(HandshakeBatch < InBatches(call))
    <3>1. /\ CaptureSlice(s) /\ s[2] = CapturedBatch /\ CapturedBatch # 0 /\ s[1] \in Tiles
          /\ s[2] <= Outputs[s[1]]
      BY <1>1, <2>3 DEF StageSlice, StagedSlices, OutSlices
    <3>2. /\ CapturedBatch >= 1 /\ s[2] \in 1..O /\ phase > 0 /\ InBatches(call) = I
          /\ HandshakeBatch - I >= 1
      BY <1>1, <2>3, <3>1, BatchTypes, BatchCounts DEF IInv, CapturedBatch, HandshakeBatch, InBatches
    <3>3. call \in 1..Invocations
      BY <1>1, <3>2, BatchTypes, CountAssumption DEF Told, IInv
    <3>4. point.sec = "out" /\ point.inv = call /\ point.batch = s[2]
      BY <1>1, <3>1, <3>2, <3>3, TakenBatch, BatchTypes DEF DeviceData, HandshakeBatch, CapturedBatch, IInv
    <3>5. page[s[1]] = Out(call, s[2])
      BY <1>1, <3>1, <3>4 DEF OutputsOnPages, Targets, InCall
    <3>6. s = <<s[1], s[2]>>
      BY DEF Slices
    <3>7. \A t \in Tiles : \A k \in 1..O :
            k <= Outputs[t] => (Got(t, k)' <=> Got(t, k) \/ s = <<t, k>>)
      BY <1>1, <1>2, <3>1, <3>6 DEF Got
    <3> QED BY <1>1, <2>1, <3>1, <3>2, <3>5, <3>7, TakeSlice DEF IInv
  <2> QED BY <2>2, <2>3
<1> QED BY <1>1, <1>2, <1>3 DEF OutputsTaken, InCall

\* collect() takes what streaming left, and what a prepared call has waited
\* for.
LEMMA CollectTakes ==
  ASSUME O > 0, IInv, DeviceData, OutputsOnPages, CopiesStaged, OutputsTaken, Told, HostStep,
         NEW s \in Slices, CollectSlice(s)
  PROVE  OutputsTaken'
<1>1. /\ hpc = "collect" /\ hpc' = hpc /\ side = "after" /\ todo' = todo \ {s}
      /\ UNCHANGED <<call, mode, phase, upto>> /\ s \in Uncollected /\ CaptureSlice(s)
      /\ Successor(point) = BatchOf(call + 1, 0) /\ s \in todo
  BY WhileCopying DEF CollectSlice, Step
<1>2. /\ call # 0 /\ s[1] \in Tiles /\ s[2] \in (upto + 1)..O /\ s[2] <= Outputs[s[1]]
      /\ s = <<s[1], s[2]>> /\ s[2] \in 1..O
  BY <1>1, BatchTypes DEF IInv, Uncollected, OutSlices, OutBatches
<1>3. call \in 1..Invocations
  BY <1>1, <1>2, BatchTypes, CountAssumption DEF Told, IInv
<1>4. point.sec = "out" /\ point.inv = call /\ point.batch = O
  BY <1>1, <1>3, LastTaken DEF DeviceData
<1>5. page[s[1]] = Out(call, s[2])
  <2>1. CASE mode = "streaming"
    <3>1. s[2] = O
      BY <1>1, <1>2, <1>3, <2>1, BatchCounts, CountAssumption DEF OutputsTaken
    <3>2. s[1] \in Targets(point)
      BY <1>2, <1>4, <3>1 DEF Targets
    <3> QED BY <1>1, <1>4, <3>1, <3>2 DEF OutputsOnPages, InCall
  <2>2. CASE mode = "prepared"
    <3>1. ~ReusesStorage(call) /\ call \in Nat
      BY <1>1, <2>2, BatchTypes DEF Told, InCall, IInv
    <3>2. s[2] = 1 /\ Outputs[s[1]] >= 1
      BY <1>2, <3>1, OneTransfer, BatchCounts
    <3> QED BY <1>1, <1>2, <1>4, <2>2, <3>2 DEF OutputsOnPages, InCall
  <2> QED BY <2>1, <2>2 DEF IInv, TypeOK
<1>6. \A t \in Tiles : \A k \in 1..O :
        k <= Outputs[t] => (Got(t, k)' <=> Got(t, k) \/ s = <<t, k>>)
  BY <1>1, <1>2 DEF Got
<1>7. captured = Taken
  BY <1>1, <1>2, BatchTypes DEF OutputsTaken, IInv
<1>8. captured' = Taken'
  BY <1>1, <1>2, <1>5, <1>6, <1>7, TakeSlice DEF IInv
<1> QED BY <1>1, <1>8 DEF OutputsTaken, InCall, CapturedBatch, HandshakeBatch

\* The phases between, and the ends of a call.
LEMMA HostTakesOutputs ==
  ASSUME O > 0, IInv, DeviceData, OutputsOnPages, CopiesStaged, OutputsTaken, Told, HostStep
  PROVE  OutputsTaken'
<1> USE DEF Step, clientVars
<1>0. /\ call \in Nat /\ phase \in Nat /\ upto \in Nat /\ HandshakeBatch \in Nat
      /\ InBatches(call) \in Nat /\ CapturedBatch \in Int
      /\ \A t \in Tiles : Outputs[t] \in 0..O
  BY BatchTypes DEF IInv
<1>1. CASE TimeOut \/ Drop
  <2>1. hpc' \in {"closing", "closed"}
    BY <1>1 DEF TimeOut, Drop
  <2> QED BY <2>1 DEF OutputsTaken, InCall
<1>2. CASE Start \/ StartAck \/ StartDone \/ InvokePrepared \/ PrepareDone
  <2>1. /\ hpc \in {"new", "startAck", "startWait", "idle", "prepare"}
        /\ hpc' \in {"startAck", "startWait", "idle", "prepare", "drive"}
        /\ UNCHANGED <<call, captured, upto>>
        /\ hpc' = "drive" => mode' = mode /\ phase' = phase /\ phase = 0
    BY <1>2 DEF Start, StartAck, StartDone, InvokePrepared, PrepareDone, copyVars, IInv, LoopInv
  <2>2. upto = 0
    BY <2>1 DEF OutputsTaken, InCall
  <2>3. Taken' = Taken
    <3>1. \A t \in Tiles : \A k \in 1..O : Got(t, k)' <=> Got(t, k)
      BY <2>1 DEF Got
    <3> QED BY <2>1, <3>1, TakenKept
  <2>4. hpc' = "drive" => phase' % 2 = 0 /\ Positive(CapturedBatch' - 1) = 0
    <3>1. hpc' = "drive" => CapturedBatch' = 0 - InBatches(call)
      BY <2>1 DEF CapturedBatch, HandshakeBatch
    <3> QED BY <1>0, <2>1, <3>1 DEF Positive
  <2> QED BY <2>1, <2>2, <2>3, <2>4 DEF OutputsTaken, InCall
<1>3. CASE InvokeStreaming
  <2>1. /\ hpc' = "drive" /\ call' = call /\ captured' = NoOutput /\ upto' = 0 /\ phase' = 0
        /\ mode' = "streaming"
    BY <1>3 DEF InvokeStreaming
  <2>2. CapturedBatch' = 0 - InBatches(call)
    BY <2>1 DEF CapturedBatch, HandshakeBatch
  <2>3. Positive(CapturedBatch' - 1) = 0
    BY <1>0, <2>2 DEF Positive
  <2>4. Taken' = NoOutput
    <3>1. \A t \in Tiles : \A k \in 1..O : ~Got(t, k)'
      BY <2>1 DEF Got
    <3>2. \A t \in Tiles :
            [k \in 1..O |-> IF k <= Outputs[t] /\ Got(t, k)' THEN Out(call', k) ELSE Blank]
              = [k \in 1..O |-> Blank]
      BY <3>1
    <3> QED BY <3>2 DEF Taken, NoOutput
  <2> QED BY <2>1, <2>3, <2>4 DEF OutputsTaken, InCall
<1>4. CASE DriveWait
  <2>1. /\ hpc = "drive" /\ hpc' = "stage" /\ UNCHANGED <<call, mode, phase, captured, upto>>
        /\ todo' = StagedSlices
    BY <1>4 DEF DriveWait
  <2>2. CapturedBatch' = CapturedBatch
    BY <2>1 DEF CapturedBatch, HandshakeBatch
  <2>3. ASSUME mode = "streaming", phase % 2 = 0, call > 0, CapturedBatch \in 1..O,
               NEW t \in Tiles, CapturedBatch <= Outputs[t]
        PROVE  <<t, CapturedBatch>> \in todo'
    <3>1. ~(HandshakeBatch < InBatches(call))
      BY <1>0, <2>3 DEF CapturedBatch
    <3> QED BY <1>0, <2>1, <2>3, <3>1 DEF StagedSlices, OutSlices
  <2>4. call > 0 => Taken' = Taken
    <3>1. ASSUME call > 0, NEW t \in Tiles, NEW k \in 1..O, k <= Outputs[t]
          PROVE  Got(t, k)' <=> Got(t, k)
      BY <2>1, <2>2, <2>3, <3>1 DEF Got
    <3> QED BY <2>1, <3>1, TakenKept
  <2> QED BY <2>1, <2>2, <2>4 DEF OutputsTaken, InCall
<1>5. CASE DriveAck
  <2>1. /\ hpc = "stage" /\ hpc' = "settle" /\ UNCHANGED <<call, mode, phase, captured>>
        /\ todo = {} /\ todo' = todo
        /\ upto' = IF mode = "streaming" /\ CapturedBatch > upto THEN CapturedBatch ELSE upto
    BY <1>5 DEF DriveAck
  <2>2. CapturedBatch' = CapturedBatch
    BY <2>1 DEF CapturedBatch, HandshakeBatch
  <2>3. mode = "streaming" =>
          upto = Positive(IF phase % 2 = 0 THEN CapturedBatch - 1 ELSE CapturedBatch)
    BY <2>1 DEF OutputsTaken
  <2>4. mode = "streaming" => upto' = Positive(CapturedBatch)
    BY <1>0, <2>1, <2>3 DEF Positive
  <2>5. mode = "prepared" => upto' = 0 /\ upto = 0
    BY <2>1 DEF OutputsTaken, InCall
  <2>6. Taken' = Taken
    <3>1. ASSUME NEW t \in Tiles, NEW k \in 1..O PROVE Got(t, k)' <=> Got(t, k)
      <4>1. Got(t, k)' <=> k <= upto'
        BY <2>1 DEF Got
      <4>2. Got(t, k) <=> k <= upto \/ (mode = "streaming" /\ phase % 2 = 0 /\ k = CapturedBatch)
        BY <2>1 DEF Got
      <4>3. CASE mode = "prepared"
        BY <2>1, <4>1, <4>2, <4>3
      <4>4. CASE mode = "streaming"
        BY <1>0, <2>3, <2>4, <4>1, <4>2, <4>4 DEF Positive
      <4> QED BY <4>3, <4>4 DEF IInv, TypeOK
    <3> QED BY <2>1, <3>1, TakenKept
  <2>7. mode \in {"streaming", "prepared"}
    BY DEF IInv, TypeOK
  <2> QED BY <2>1, <2>2, <2>4, <2>5, <2>6, <2>7 DEF OutputsTaken, InCall
<1>6. CASE DriveSettle
  <2>1. /\ hpc = "settle" /\ hpc' = "drive" /\ UNCHANGED <<call, mode, captured, upto>>
        /\ phase' = phase + 1
    BY <1>6 DEF DriveSettle
  <2>2. \/ phase % 2 = 0 /\ phase' % 2 = 1 /\ CapturedBatch' = CapturedBatch
        \/ phase % 2 = 1 /\ phase' % 2 = 0 /\ CapturedBatch' - 1 = CapturedBatch
    <3>1. \/ phase % 2 = 0 /\ phase' % 2 = 1 /\ HandshakeBatch' = HandshakeBatch
          \/ phase % 2 = 1 /\ phase' % 2 = 0 /\ HandshakeBatch' = HandshakeBatch + 1
      BY <1>0, <2>1, Parity DEF HandshakeBatch
    <3> QED BY <1>0, <2>1, <3>1 DEF CapturedBatch
  <2>3. Taken' = Taken
    <3>1. \A t \in Tiles : \A k \in 1..O : Got(t, k)' <=> Got(t, k)
      BY <2>1 DEF Got
    <3> QED BY <2>1, <3>1, TakenKept
  <2> QED BY <2>1, <2>2, <2>3 DEF OutputsTaken, InCall
<1>7. CASE FinishAck
  <2>1. /\ hpc = "drive" /\ hpc' = "finish" /\ UNCHANGED <<call, mode, phase, captured, upto>>
        /\ phase = Phases(call) /\ DefersOutput(call)
    BY <1>7 DEF FinishAck, copyVars
  <2>2. phase % 2 = 1 /\ call # 0 /\ phase = 2 * (I + O) - 1 /\ InBatches(call) = I
    BY <2>1, BatchCounts DEF DefersOutput, OutBatches, Phases, InBatches
  <2>3. CapturedBatch = O - 1
    <3>1. HandshakeBatch = I + O - 1
      BY <2>2, BatchCounts DEF HandshakeBatch
    <3> QED BY <2>2, <3>1, BatchCounts DEF CapturedBatch
  <2>4. mode = "streaming" => upto' = O - 1
    BY <2>1, <2>2, <2>3, BatchCounts DEF OutputsTaken, Positive
  <2>5. Taken' = Taken
    <3>1. \A t \in Tiles : \A k \in 1..O : Got(t, k)' <=> Got(t, k)
      BY <2>1 DEF Got
    <3> QED BY <2>1, <3>1, TakenKept
  <2> QED BY <2>1, <2>4, <2>5 DEF OutputsTaken, InCall
<1>8. CASE FinishWait
  <2>1. /\ hpc = "finish" /\ hpc' = "collect" /\ UNCHANGED <<call, mode, captured, upto>>
        /\ todo' = Uncollected
    BY <1>8 DEF FinishWait
  <2>2. call # 0 /\ OutBatches(call) = O
    BY <2>1, BatchCounts DEF IInv, LoopInv, DefersOutput, OutBatches
  <2>3. Taken' = Taken
    <3>1. ASSUME NEW t \in Tiles, NEW k \in 1..O, k <= Outputs[t]
          PROVE  Got(t, k)' <=> Got(t, k)
      <4>1. ~(k <= upto) => <<t, k>> \in todo'
        BY <1>0, <2>1, <2>2, <3>1 DEF Uncollected, OutSlices
      <4> QED BY <2>1, <4>1 DEF Got
    <3> QED BY <2>1, <3>1, TakenKept
  <2> QED BY <2>1, <2>3 DEF OutputsTaken, InCall
<1>9. CASE FinishNothing
  <2>1. /\ hpc = "drive" /\ hpc' = "collect" /\ UNCHANGED <<call, mode, upto>>
        /\ ~DefersOutput(call)
    BY <1>9 DEF FinishNothing
  <2>2. call = 0
    BY <1>0, <2>1, RunsDefer
  <2> QED BY <2>1, <2>2 DEF OutputsTaken, InCall
<1>10. CASE CollectDone
  <2>1. hpc' = "idle" /\ captured' = NoOutput /\ upto' = 0
    BY <1>10 DEF CollectDone
  <2>2. \A t \in Tiles :
          [k \in 1..O |-> IF k <= Outputs[t] /\ Got(t, k)' THEN Out(call', k) ELSE Blank]
            = [k \in 1..O |-> Blank]
    BY <2>1 DEF Got
  <2>3. Taken' = NoOutput
    BY <2>2 DEF Taken, NoOutput
  <2> QED BY <2>1, <2>3 DEF OutputsTaken, InCall
<1>11. ASSUME NEW s \in Slices, PrepareSlice(s) PROVE OutputsTaken'
  <2>1. hpc = "prepare" /\ hpc' = hpc /\ UNCHANGED <<call, captured, upto>>
    BY <1>11 DEF PrepareSlice
  <2>2. Taken' = Taken
    <3>1. \A t \in Tiles : \A k \in 1..O : Got(t, k)' <=> Got(t, k)
      BY <2>1 DEF Got
    <3> QED BY <2>1, <3>1, TakenKept
  <2> QED BY <2>1, <2>2 DEF OutputsTaken, InCall
<1>12. \A s \in Slices : StageSlice(s) \/ CollectSlice(s) => OutputsTaken'
  BY StageTakes, CollectTakes
<1> QED
  BY <1>1, <1>2, <1>3, <1>4, <1>5, <1>6, <1>7, <1>8, <1>9, <1>10, <1>11, <1>12
     DEF HostStep, Slices

-----------------------------------------------------------------------------
(* The answers *)

LEMMA ExpectedIsAnAnswer == \A n \in Nat : Expected(n) # <<>>
<1> SUFFICES ASSUME NEW n \in Nat PROVE Expected(n) # <<>>
  OBVIOUS
<1>1. DOMAIN Expected(n) = Tiles
  BY DEF Expected
<1>2. DOMAIN <<>> = {}
  OBVIOUS
<1> QED BY <1>1, <1>2, TilesAssumption

\* A "run" that has collected every slice has the outputs of its invocation.
LEMMA AllTaken ==
  ASSUME OutputsTaken, hpc = "collect", todo = {}, call > 0
  PROVE  captured = Expected(call)
<1>1. \A t \in Tiles : \A k \in 1..O : Got(t, k)
  BY DEF Got
<1>2. \A t \in Tiles :
        [k \in 1..O |-> IF k <= Outputs[t] /\ Got(t, k) THEN Out(call, k) ELSE Blank]
          = [k \in 1..O |-> IF k <= Outputs[t] THEN Out(call, k) ELSE Blank]
  BY <1>1
<1> QED BY <1>2 DEF OutputsTaken, Taken, Expected

\* The n-th "run" is answered when the ones before it are, with the outputs of
\* invocation n; an error is the last thing the client hears.
LEMMA AnswersInOrder ==
  ASSUME TypeOK, LoopInv, OutputsTaken, Told, HostStep
  PROVE  Calls!Next \/ UNCHANGED <<results, failed>>
<1> USE DEF Step, clientVars
<1>1. CASE CollectDone
  <2>1. call \in 0..Runs /\ ~failed /\ call <= Invocations
    BY <1>1, CountAssumption DEF TypeOK, LoopInv, Told, CollectDone
  <2>2. CASE call = 0
    BY <1>1, <2>2 DEF CollectDone
  <2>3. CASE call # 0
    <3>1. call \in 1..Runs /\ call \in Nat /\ call > 0
      BY <2>1, <2>3, CountAssumption
    <3>2. results[call] = <<>> /\ \A m \in 1..(call - 1) : results[m] # <<>>
      BY <3>1, ExpectedIsAnAnswer, CountAssumption DEF Told
    <3>3. results' = [results EXCEPT ![call] = Expected(call)]
      BY <1>1, <3>1, AllTaken DEF CollectDone
    <3>4. Calls!Return(call)
      BY <1>1, <2>1, <3>1, <3>2, <3>3 DEF Calls!Return, Calls!Unanswered, CollectDone
    <3> QED BY <3>1, <3>4 DEF Calls!Next
  <2> QED BY <2>2, <2>3
<1>2. CASE TimeOut
  <2>1. ~failed
    BY <1>2 DEF TimeOut, Waiting, Told
  <2> QED BY <1>2, <2>1 DEF TimeOut, Calls!Next, Calls!Fail
<1> QED BY <1>1, <1>2 DEF HostStep, Start, StartAck, StartDone, InvokeStreaming, InvokePrepared,
     PrepareDone, PrepareSlice, DriveWait, StageSlice, DriveAck, DriveSettle, FinishAck,
     FinishWait, FinishNothing, CollectSlice, Drop

LEMMA HostTells ==
  ASSUME O > 0, IInv, OutputsTaken, Told, HostStep
  PROVE  Told'
<1> USE DEF Step, clientVars
<1>0. /\ call \in Nat /\ phase \in Nat /\ FirstCall \in {0, 1} /\ Runs \in Nat
      /\ results \in [1..Runs -> Captures \cup {<<>>}]
  BY CountAssumption DEF IInv, TypeOK, FirstCall
<1>1. CASE Start \/ StartAck \/ StartDone
  BY <1>1 DEF Told, InCall, Start, StartAck, StartDone
<1>2. CASE InvokeStreaming
  BY <1>2 DEF Told, InCall, InvokeStreaming
<1>3. CASE InvokePrepared
  <2>1. ~ReusesStorage(call)'
    BY <1>3 DEF InvokePrepared, ReusesStorage
  <2> QED BY <1>3, <2>1 DEF Told, InCall, InvokePrepared
<1>4. CASE PrepareDone
  BY <1>4 DEF Told, InCall, PrepareDone, copyVars, IInv, LoopInv, ReusesStorage
<1>5. CASE DriveWait \/ DriveAck \/ DriveSettle
  <2>1. UNCHANGED <<call, mode, results, failed>> /\ (phase' = phase \/ (DriveSettle /\ mark = 0))
    BY <1>5 DEF DriveWait, DriveAck, DriveSettle, Wait
  <2> QED BY <1>5, <2>1 DEF Told, InCall, DriveWait, DriveAck, DriveSettle, Acknowledge, ReusesStorage
<1>6. CASE FinishAck
  <2>1. phase > 0
    BY <1>0, <1>6, Parity DEF FinishAck, DefersOutput
  <2> QED BY <1>6, <2>1 DEF Told, InCall, FinishAck, ReusesStorage, copyVars
<1>7. CASE FinishWait
  BY <1>7 DEF Told, InCall, FinishWait, ReusesStorage
<1>8. CASE FinishNothing
  <2>1. /\ hpc = "drive" /\ hpc' = "collect" /\ UNCHANGED <<call, mode, results, failed>>
        /\ ~DefersOutput(call)
    BY <1>8 DEF FinishNothing
  <2>2. call = 0
    BY <1>0, <2>1, RunsDefer
  <2> QED BY <2>1, <2>2, CountAssumption DEF Told, InCall, ReusesStorage
<1>9. CASE CollectDone
  <2>1. /\ hpc = "collect" /\ todo = {} /\ call' = call + 1 /\ failed' = failed /\ hpc' = "idle"
        /\ results' = IF call = 0 THEN results ELSE [results EXCEPT ![call] = captured]
        /\ call <= Runs
    BY <1>9 DEF CollectDone, IInv, LoopInv
  <2>2. results = [n \in 1..Runs |-> IF n < call THEN Expected(n) ELSE <<>>]
    BY DEF Told
  <2>3. results' = [n \in 1..Runs |-> IF n < call + 1 THEN Expected(n) ELSE <<>>]
    <3>1. CASE call = 0
      <4>1. \A n \in 1..Runs : ~(n < call) /\ ~(n < call + 1)
        BY <3>1
      <4> QED BY <2>1, <2>2, <3>1, <4>1
    <3>2. CASE call # 0
      <4>1. results' = [results EXCEPT ![call] = Expected(call)]
        <5>1. call > 0
          BY <1>0, <3>2
        <5> QED BY <2>1, <3>2, <5>1, AllTaken
      <4>2. \A n \in 1..Runs : (n < call + 1) <=> (n < call \/ n = call)
        BY <1>0
      <4> QED BY <1>0, <2>2, <4>1, <4>2
    <3> QED BY <3>1, <3>2
  <2>4. results' = [n \in 1..Runs |-> IF n < call' THEN Expected(n) ELSE <<>>]
    BY <2>1, <2>3
  <2>5. call' >= FirstCall /\ ~failed
    BY <1>0, <2>1 DEF Told
  <2> QED BY <2>1, <2>4, <2>5 DEF Told, InCall, Expected, FirstCall
<1>10. CASE TimeOut \/ Drop
  BY <1>10 DEF Told, InCall, TimeOut, Drop
<1>11. ASSUME NEW s \in Slices, PrepareSlice(s) \/ StageSlice(s) \/ CollectSlice(s)
       PROVE  Told'
  BY <1>11 DEF Told, InCall, PrepareSlice, StageSlice, CollectSlice, ReusesStorage
<1> QED
  BY <1>1, <1>2, <1>3, <1>4, <1>5, <1>6, <1>7, <1>8, <1>9, <1>10, <1>11 DEF HostStep, Slices

-----------------------------------------------------------------------------
(* Invariance *)

LEMMA InitData == ASSUME O > 0, Init PROVE DataInv
<1>1. DeviceData
  <2>1. point = Boot /\ point.sec = "boot" /\ \A t \in Tiles : stage[t] = "work"
    BY DEF Init, Boot, Point
  <2> QED BY <2>1 DEF DeviceData, RegionsFilled, OutputsComputed, Places
<1>2. InputsInPlace
  BY DEF Init, InputsInPlace, Carries, Boot, Point
<1>3. OutputsOnPages
  BY DEF Init, OutputsOnPages, Boot, Point, InCall
<1>4. CopiesStaged
  BY DEF Init, CopiesStaged
<1>5. OutputsTaken
  <2>1. \A t \in Tiles : \A k \in 1..O : ~Got(t, k)
    BY DEF Init, Got
  <2>2. Taken = NoOutput
    BY <2>1, NothingTaken, InitTypes
  <2> QED BY <2>2 DEF Init, OutputsTaken, InCall
<1>6. Told
  <2>1. \A n \in 1..Runs : ~(n < FirstCall)
    BY CountAssumption DEF FirstCall
  <2> QED BY <2>1, CountAssumption DEF Init, Told, InCall, FirstCall
<1> QED BY <1>1, <1>2, <1>3, <1>4, <1>5, <1>6 DEF DataInv

LEMMA InductiveData ==
  ASSUME O > 0, IInv, DataInv, [Next]_vars
  PROVE  DataInv'
<1> USE DEF DataInv
<1>1. CASE HostStep
  BY <1>1, HostKeepsData, HostKeepsInputs, HostKeepsOutputs, HostKeepsCopies, HostTakesOutputs,
     HostTells
<1>2. CASE DeviceStep \/ \E t \in Tiles : Fault(t)
  <2>1. DeviceData'
    BY <1>2, EnterKeepsData, LeaveKeepsData, InsideKeepsData, ProceedKeepsData
       DEF DeviceStep, TileStep
  <2> QED
    BY <1>2, <2>1, DeviceKeepsInputs, DeviceKeepsOutputs, DeviceKeepsCopies, DeviceKeepsAnswers
<1>3. CASE Closed \/ UNCHANGED vars
  <2>1. UNCHANGED vars
    BY <1>3 DEF Closed
  <2>2. UNCHANGED <<hpc, call, mode, results, failed, phase, todo, captured, upto, mark, page,
                    point, side, stage, staging, dest, out>>
    BY <2>1 DEF vars, clientVars, copyVars, deviceVars, tileVars
  <2>3. /\ \A t \in Tiles : Moved(t)' = Moved(t)
        /\ CapturedBatch' = CapturedBatch /\ HandshakeBatch' = HandshakeBatch
        /\ StagedSlices' = StagedSlices /\ Uncollected' = Uncollected /\ Taken' = Taken
    BY <2>2 DEF Moved, CapturedBatch, HandshakeBatch, StagedSlices, Uncollected, Taken, Got
  <2> QED BY <2>2, <2>3 DEF DeviceData, RegionsFilled, OutputsComputed, InputsInPlace,
             OutputsOnPages, CopiesStaged, OutputsTaken, Told
<1> QED BY <1>1, <1>2, <1>3 DEF Next

LEMMA DataInvariance == ASSUME O > 0 PROVE Spec => [](IInv /\ DataInv)
<1>1. Init => IInv /\ DataInv
  BY InitTypes, InitLockstep, InitData DEF IInv
<1>2. IInv /\ DataInv /\ [Next]_vars => (IInv /\ DataInv)'
  BY Inductive, InductiveData
<1> QED BY <1>1, <1>2, PTL DEF Spec

-----------------------------------------------------------------------------
(* Theorems *)

\* ComputesFromItsRun: when an output batch of an invocation is entered, every
\* tile has computed that invocation, from the weights and the inputs of the
\* "run" of the same number and from nothing older.
THEOREM EachRunComputesItsOwn == ASSUME O > 0 PROVE Spec => []ComputesFromItsRun
<1>1. DataInv => ComputesFromItsRun
  BY DEF DataInv, DeviceData, OutputsComputed, ComputesFromItsRun
<1> QED BY <1>1, DataInvariance, PTL

\* KeepsPromise: a HostSession implements HostCalls. The runs are answered in
\* order, the n-th with what the device computed in invocation n, none beyond
\* the invocations the package was built for, and none after an error.
THEOREM PromiseIsKept == ASSUME O > 0 PROVE Spec => KeepsPromise
<1>1. Init => Calls!Init
  BY DEF Init, Calls!Init
<1>2. IInv /\ DataInv /\ [Next]_vars => [Calls!Next]_<<results, failed>>
  <2> SUFFICES ASSUME IInv, DataInv, [Next]_vars
               PROVE  Calls!Next \/ UNCHANGED <<results, failed>>
    OBVIOUS
  <2>1. CASE HostStep
    BY <2>1, AnswersInOrder DEF IInv, DataInv
  <2>2. CASE DeviceStep \/ \E t \in Tiles : Fault(t)
    BY <2>2, DeviceKeepsHost
  <2>3. CASE Closed \/ UNCHANGED vars
    BY <2>3 DEF Closed, vars, clientVars
  <2> QED BY <2>1, <2>2, <2>3 DEF Next
<1> QED BY <1>1, <1>2, DataInvariance, PTL DEF Spec, KeepsPromise, Calls!Spec, Calls!callVars

=============================================================================
