---------------------------- MODULE HostExchange ----------------------------
(***************************************************************************)
(* The host exchange of a loaded application: one HostSession of the       *)
(* driver (crates/ipu-driver/src/lib.rs) and the supervisors of the tiles  *)
(* it serves, running the program that crates/ipu-codegen emits for them.  *)
(*                                                                         *)
(* The two sides share only                                                *)
(*   - the HSP mark GS2: the host grants one device-wide external          *)
(*     synchronization by writing 1, the synchronization consumes it;      *)
(*   - the pinned pages: one slot per tile, which every batch of every     *)
(*     call reuses.                                                        *)
(* A batch is one rendezvous: the entry synchronization, one transfer per  *)
(* target tile, the exit synchronization.                                  *)
(*                                                                         *)
(* A byte range is abstracted to an item: which call and which batch its   *)
(* bytes belong to.  Compute is abstracted to what it read: the output of  *)
(* a tile belongs to invocation n exactly when everything the tile's       *)
(* program read is the weights of "initialize" and the inputs of the n-th  *)
(* "run".                                                                  *)
(***************************************************************************)
EXTENDS Integers

CONSTANTS
  Tiles,        \* the tiles that own a page slot, or serve one that does
  XreqOf,       \* the tile that raises the exchange request of each tile
  Weights,      \* how many weight transfers each tile has, one per batch
  Inputs,       \* how many input transfers each tile has, one per batch
  Outputs,      \* how many output transfers each tile has, one per batch
  W, I, O,      \* the numbers of weight, input and output batches
  Invocations,  \* how often the supervisors run the graph
  Runs,         \* how often the client calls "run"
  MayTimeOut,   \* whether a wait may reach its ten-second deadline
  MayFault      \* whether a tile may trap while it computes

\* Batches == the longest queue of any tile (batch() empties every queue).
IsBatchCount(count, transfers) ==
  /\ count \in Nat
  /\ transfers \in [Tiles -> 0..count]
  /\ count > 0 => \E t \in Tiles : transfers[t] = count

ASSUME TilesAssumption == Tiles # {} /\ XreqOf \in [Tiles -> Tiles]
ASSUME BatchAssumption ==
  IsBatchCount(W, Weights) /\ IsBatchCount(I, Inputs) /\ IsBatchCount(O, Outputs)
ASSUME CountAssumption == Invocations \in Nat \ {0} /\ Runs \in Nat
ASSUME FlagAssumption == MayTimeOut \in BOOLEAN /\ MayFault \in BOOLEAN

VARIABLES
  hpc,       \* where the client's thread is inside HostSession
  call,      \* the call being made: 0 is "initialize", n > 0 the n-th "run"
  mode,      \* whether the call stages everything first or batch by batch
  phase,     \* the phase of drive_handshake
  todo,      \* the slices, as <<tile, batch>>, the current copy loop has left
  captured,  \* the output bytes copied out of the pages so far
  upto,      \* how many output batches streamed_output already holds
  results,   \* what each "run" returned
  failed,    \* whether a call returned an error
  attached,  \* whether the pages are attached to the device
  mark,      \* the HSP mark GS2
  page,      \* the content of each tile's page slot
  point,     \* the batch the supervisors entered last
  side,      \* whether they are inside that batch or after it
  stage,     \* what each tile is doing until its next synchronization
  granted,   \* the targets whose exchange request has been raised
  staging,   \* the content of each tile's staging buffer
  dest,      \* the content of each tile's weight and input regions
  out        \* the invocation each tile's output belongs to, 0 if to none

clientVars == <<call, mode, results, failed>>
copyVars   == <<phase, todo, captured, upto>>
tileVars   == <<stage, granted, staging, dest, out>>
deviceVars == <<point, side, tileVars>>
vars == <<hpc, clientVars, copyVars, attached, mark, page, deviceVars>>

-----------------------------------------------------------------------------
(* Items and calls *)

Kinds == {"blank", "poison", "in", "out"}
Items == [kind : Kinds, call : Nat, batch : Nat]
In(c, k)  == [kind |-> "in",  call |-> c, batch |-> k]
Out(n, k) == [kind |-> "out", call |-> n, batch |-> k]
Blank     == [kind |-> "blank",  call |-> 0, batch |-> 0]
Poison    == [kind |-> "poison", call |-> 0, batch |-> 0]

\* The two calls plan() describes and the batches and phases it gives them.
InBatches(c)  == IF c = 0 THEN W ELSE I
OutBatches(c) == IF c = 0 THEN 0 ELSE O
Phases(c) == IF c = 0 THEN 2 * W
             ELSE IF I + O = 0 THEN 0 ELSE 2 * (I + O) - 1

InSlices(c, ks) ==
  {s \in Tiles \X ks : s[2] <= (IF c = 0 THEN Weights[s[1]] ELSE Inputs[s[1]])}
OutSlices(c, ks) == {s \in Tiles \X ks : c # 0 /\ s[2] <= Outputs[s[1]]}

\* Mutant: reuse of a slot goes unnoticed, and the call is prepared at once.
NeverReuses(c) == FALSE
\* Two transfers of one tile use the same bytes of its slot.
ReusesStorage(c) ==
  \E t \in Tiles : IF c = 0 THEN Weights[t] > 1 ELSE Inputs[t] + Outputs[t] > 1

FirstCall == IF W > 0 THEN 0 ELSE 1
NoOutput == [t \in Tiles |-> [k \in 1..O |-> Blank]]

-----------------------------------------------------------------------------
(* The program of the supervisors *)

Point(s, n, k) == [sec |-> s, inv |-> n, batch |-> k]
Boot == Point("boot", 0, 0)
Complete == Point("complete", 0, 0)

\* Where invocation n begins, Complete when there is no such invocation.
StartOf(n) ==
  IF n > Invocations \/ I + O = 0 THEN Complete
  ELSE IF I > 0 THEN Point("in", n, 1) ELSE Point("out", n, 1)

\* The batch that follows p: the initialize phases once, then the inputs,
\* the graph and the outputs of each invocation.
Successor(p) ==
  CASE p.sec = "boot" -> IF W > 0 THEN Point("init", 0, 1) ELSE StartOf(1)
    [] p.sec = "init" -> IF p.batch < W THEN Point("init", 0, p.batch + 1)
                         ELSE StartOf(1)
    [] p.sec = "in"   -> IF p.batch < I THEN Point("in", p.inv, p.batch + 1)
                         ELSE IF O > 0 THEN Point("out", p.inv, 1)
                         ELSE StartOf(p.inv + 1)
    [] p.sec = "out"  -> IF p.batch < O THEN Point("out", p.inv, p.batch + 1)
                         ELSE StartOf(p.inv + 1)
    [] OTHER -> Complete

Targets(p) ==
  {t \in Tiles : CASE p.sec = "init" -> p.batch <= Weights[t]
                   [] p.sec = "in"   -> p.batch <= Inputs[t]
                   [] p.sec = "out"  -> p.batch <= Outputs[t]
                   [] OTHER -> FALSE}

\* The targets of batch p whose request tile t raises.
XreqTargets(t, p) == {u \in Targets(p) : XreqOf[u] = t}

\* Mutant: a tile with no transfer of its own is taken to be inactive.
ActiveTarget(t, p) == t \in Targets(p)
\* The tiles that do anything in batch p; the others arrive at its exit as
\* they arrive at its entry.
Active(t, p) == t \in Targets(p) \/ XreqTargets(t, p) # {}

\* The graph runs before the first output batch of an invocation.
ComputesAfter(p) == Successor(p).sec = "out" /\ Successor(p).batch = 1

\* The regions of one tile hold the weights and the inputs of invocation n.
HoldsInputs(t, n, regions) ==
  /\ \A k \in 1..Weights[t] : regions[<<"init", k>>] = In(0, k)
  /\ \A k \in 1..Inputs[t]  : regions[<<"in", k>>] = In(n, k)

Computed(t, n, regions) == IF HoldsInputs(t, n, regions) THEN n ELSE 0

-----------------------------------------------------------------------------
(* HostSession: one thread, which blocks only in wait_mark_poll *)

Step(from, to) == hpc = from /\ hpc' = to
\* Mutant: a wait that does not wait.
WaitNothing == TRUE
Wait == mark = 0
Acknowledge == mark' = 1

\* start(): the pages are attached before the application's first
\* synchronization is granted.
Start ==
  /\ Step("new", "startAck") /\ Wait
  /\ attached' = TRUE
  /\ UNCHANGED <<clientVars, copyVars, mark, page, deviceVars>>

StartAck ==
  /\ Step("startAck", "startWait") /\ Acknowledge
  /\ UNCHANGED <<clientVars, copyVars, attached, page, deviceVars>>

StartDone ==
  /\ Step("startWait", "idle") /\ Wait
  /\ UNCHANGED <<clientVars, copyVars, attached, mark, page, deviceVars>>

\* invoke_streaming_deferred(): nothing is staged before the first rendezvous.
InvokeStreaming ==
  /\ Step("idle", "drive") /\ attached /\ call <= Runs
  /\ mode' = "streaming" /\ phase' = 0
  /\ captured' = NoOutput /\ upto' = 0
  /\ UNCHANGED <<call, results, failed, todo, attached, mark, page, deviceVars>>

\* prepare(), which invoke() uses when no two slices share storage: every
\* input is copied in and every output poisoned before the first rendezvous.
InvokePrepared ==
  /\ Step("idle", "prepare") /\ attached /\ call <= Runs
  /\ ~ReusesStorage(call)
  /\ mode' = "prepared" /\ phase' = 0
  /\ todo' = InSlices(call, 1..InBatches(call)) \cup OutSlices(call, 1..OutBatches(call))
  /\ UNCHANGED <<call, results, failed, captured, upto, attached, mark, page, deviceVars>>

PrepareSlice(s) ==
  /\ Step("prepare", "prepare") /\ s \in todo
  /\ page' = [page EXCEPT ![s[1]] =
       IF s \in InSlices(call, 1..InBatches(call)) THEN In(call, s[2]) ELSE Poison]
  /\ todo' = todo \ {s}
  /\ UNCHANGED <<clientVars, phase, captured, upto, attached, mark, deviceVars>>

PrepareDone ==
  /\ Step("prepare", "drive") /\ todo = {}
  /\ UNCHANGED <<clientVars, copyVars, attached, mark, page, deviceVars>>

\* before_ack of the streaming call: an even phase stages the input batch the
\* entry grants, or takes away the output batch whose exit was granted last.
HandshakeBatch == phase \div 2
CapturedBatch == HandshakeBatch - InBatches(call)

StagedSlices ==
  IF mode = "prepared" \/ phase % 2 = 1 THEN {}
  ELSE IF HandshakeBatch < InBatches(call) THEN InSlices(call, {HandshakeBatch + 1})
       ELSE OutSlices(call, {CapturedBatch} \ {0})

\* One turn of drive_handshake(): wait, before_ack, acknowledge, wait.
DriveWait ==
  /\ Step("drive", "stage") /\ phase < Phases(call) /\ Wait
  /\ todo' = StagedSlices
  /\ UNCHANGED <<clientVars, phase, captured, upto, attached, mark, page, deviceVars>>

CaptureSlice(s) ==
  /\ captured' = [captured EXCEPT ![s[1]][s[2]] = page[s[1]]]
  /\ page' = page

StageSlice(s) ==
  /\ Step("stage", "stage") /\ s \in todo
  /\ IF HandshakeBatch < InBatches(call)
       THEN page' = [page EXCEPT ![s[1]] = In(call, s[2])] /\ captured' = captured
       ELSE CaptureSlice(s)
  /\ todo' = todo \ {s}
  /\ UNCHANGED <<clientVars, phase, upto, attached, mark, deviceVars>>

DriveAck ==
  /\ Step("stage", "settle") /\ todo = {} /\ Acknowledge
  /\ upto' = IF mode = "streaming" /\ CapturedBatch > upto THEN CapturedBatch ELSE upto
  /\ UNCHANGED <<clientVars, phase, todo, captured, attached, page, deviceVars>>

DriveSettle ==
  /\ Step("settle", "drive") /\ Wait
  /\ phase' = phase + 1
  /\ UNCHANGED <<clientVars, todo, captured, upto, attached, mark, page, deviceVars>>

\* Mutant: finish() collects without granting the last exit.
NeverDefers(c) == FALSE

\* finish(): the exit of the last output batch is still to be granted.
DefersOutput(c) == OutBatches(c) > 0 /\ Phases(c) % 2 = 1

Uncollected == OutSlices(call, (upto + 1)..OutBatches(call))

FinishAck ==
  /\ Step("drive", "finish") /\ phase = Phases(call) /\ DefersOutput(call)
  /\ Acknowledge
  /\ UNCHANGED <<clientVars, copyVars, attached, page, deviceVars>>

FinishWait ==
  /\ Step("finish", "collect") /\ Wait
  /\ todo' = Uncollected
  /\ UNCHANGED <<clientVars, phase, captured, upto, attached, mark, page, deviceVars>>

FinishNothing ==
  /\ Step("drive", "collect") /\ phase = Phases(call) /\ ~DefersOutput(call)
  /\ todo' = Uncollected
  /\ UNCHANGED <<clientVars, phase, captured, upto, attached, mark, page, deviceVars>>

\* collect(): what streaming has not captured yet, then the answer.
CollectSlice(s) ==
  /\ Step("collect", "collect") /\ s \in todo
  /\ CaptureSlice(s)
  /\ todo' = todo \ {s}
  /\ UNCHANGED <<clientVars, phase, upto, attached, mark, deviceVars>>

CollectDone ==
  /\ Step("collect", "idle") /\ todo = {}
  /\ results' = IF call = 0 THEN results ELSE [results EXCEPT ![call] = captured]
  /\ call' = call + 1
  /\ captured' = NoOutput /\ upto' = 0
  /\ UNCHANGED <<mode, failed, phase, todo, attached, mark, page, deviceVars>>

\* Mutant: only the loop of drive_handshake() has deadlines.
WaitingInLoop == hpc = "settle" \/ hpc = "drive"

\* wait_mark_poll() gives up; the client makes no further call.
Waiting == \/ hpc \in {"startWait", "settle", "finish"}
           \/ hpc = "drive" /\ phase < Phases(call)
TimeOut ==
  /\ MayTimeOut /\ Waiting /\ mark # 0
  /\ hpc' = "closing" /\ failed' = TRUE
  /\ UNCHANGED <<call, mode, results, copyVars, attached, mark, page, deviceVars>>

\* The session is dropped: its pages are detached before they are unmapped.
Drop ==
  /\ \/ hpc = "closing"
     \/ hpc = "idle" /\ call > Runs
  /\ hpc' = "closed" /\ attached' = FALSE
  /\ UNCHANGED <<clientVars, copyVars, mark, page, deviceVars>>

HostStep ==
  \/ Start \/ StartAck \/ StartDone
  \/ InvokeStreaming \/ InvokePrepared \/ PrepareDone
  \/ DriveWait \/ DriveAck \/ DriveSettle
  \/ FinishAck \/ FinishWait \/ FinishNothing \/ CollectDone
  \/ TimeOut \/ Drop
  \/ \E s \in Tiles \X (1..(W + I + O)) :
       PrepareSlice(s) \/ StageSlice(s) \/ CollectSlice(s)

-----------------------------------------------------------------------------
(* The supervisors: each runs on its own until the next synchronization *)

\* The tile that raises the request of others does so before its own transfer.
RaisedItsRequests(t) == XreqTargets(t, point) \subseteq granted

RaiseRequest(t) ==
  /\ side = "inside" /\ stage[t] = "work" /\ ~RaisedItsRequests(t)
  /\ granted' = granted \cup XreqTargets(t, point)
  /\ UNCHANGED <<hpc, clientVars, copyVars, attached, mark, page,
                 point, side, stage, staging, dest, out>>

IssueTransfer(t) ==
  /\ side = "inside" /\ stage[t] = "work" /\ RaisedItsRequests(t)
  /\ t \in Targets(point) \cap granted
  /\ stage' = [stage EXCEPT ![t] = "issued"]
  /\ UNCHANGED <<hpc, clientVars, copyVars, attached, mark, page,
                 point, side, granted, staging, dest, out>>

\* The transfer reaches the page, and the tile the exit synchronization.
Deliver(t) ==
  /\ stage[t] = "issued" /\ attached
  /\ stage' = [stage EXCEPT ![t] = "ready"]
  /\ IF point.sec = "out"
       THEN /\ page' = [page EXCEPT ![t] = Out(out[t], point.batch)]
            /\ staging' = staging
       ELSE /\ staging' = [staging EXCEPT ![t] = page[t]]
            /\ page' = page
  /\ UNCHANGED <<hpc, clientVars, copyVars, attached, mark,
                 point, side, granted, dest, out>>

\* A tile that only raises requests, and every tile at startup.
PassBatch(t) ==
  /\ side = "inside" /\ stage[t] = "work" /\ RaisedItsRequests(t)
  /\ t \notin Targets(point)
  /\ stage' = [stage EXCEPT ![t] = "ready"]
  /\ UNCHANGED <<hpc, clientVars, copyVars, attached, mark, page,
                 point, side, granted, staging, dest, out>>

\* After the exit: copy the staging buffer to its destination, compute when
\* the inputs are complete, and arrive at the next entry (or complete).
Proceed(t) ==
  /\ side = "after" /\ stage[t] = "work"
  /\ dest' = IF point.sec \in {"init", "in"} /\ t \in Targets(point)
             THEN [dest EXCEPT ![t][<<point.sec, point.batch>>] = staging[t]]
             ELSE dest
  /\ out' = IF ComputesAfter(point)
            THEN [out EXCEPT ![t] = Computed(t, Successor(point).inv, dest'[t])]
            ELSE out
  /\ stage' = [stage EXCEPT ![t] = "ready"]
  /\ UNCHANGED <<hpc, clientVars, copyVars, attached, mark, page,
                 point, side, granted, staging>>

Fault(t) ==
  /\ MayFault /\ stage[t] = "work"
  /\ stage' = [stage EXCEPT ![t] = "dead"]
  /\ UNCHANGED <<hpc, clientVars, copyVars, attached, mark, page,
                 point, side, granted, staging, dest, out>>

\* A device-wide external synchronization: every tile has arrived, and the
\* host has granted it.
Synchronize ==
  /\ \A t \in Tiles : stage[t] = "ready"
  /\ mark > 0 /\ mark' = mark - 1
  /\ UNCHANGED <<hpc, clientVars, copyVars, attached, page, staging, dest, out>>

EnterBatch ==
  /\ side = "after" /\ Successor(point) # Complete
  /\ Synchronize
  /\ point' = Successor(point) /\ side' = "inside" /\ granted' = {}
  /\ stage' = [t \in Tiles |-> IF Active(t, Successor(point)) THEN "work" ELSE "ready"]

LeaveBatch ==
  /\ side = "inside"
  /\ Synchronize
  /\ side' = "after" /\ stage' = [t \in Tiles |-> "work"]
  /\ UNCHANGED <<point, granted>>

TileStep(t) ==
  RaiseRequest(t) \/ IssueTransfer(t) \/ Deliver(t) \/ PassBatch(t) \/ Proceed(t)

DeviceStep == EnterBatch \/ LeaveBatch \/ \E t \in Tiles : TileStep(t)

-----------------------------------------------------------------------------

Init ==
  /\ hpc = "new" /\ call = FirstCall /\ mode = "streaming"
  /\ results = [n \in 1..Runs |-> <<>>] /\ failed = FALSE
  /\ phase = 0 /\ todo = {} /\ captured = NoOutput /\ upto = 0
  /\ attached = FALSE /\ mark = 0 /\ page = [t \in Tiles |-> Blank]
  /\ point = Boot /\ side = "inside"
  /\ stage = [t \in Tiles |-> "work"] /\ granted = {}
  /\ staging = [t \in Tiles |-> Blank]
  /\ dest = [t \in Tiles |-> [r \in {"init", "in"} \X (1..(W + I)) |-> Blank]]
  /\ out = [t \in Tiles |-> 0]

\* The session is over; the device may still be running.
Closed == hpc = "closed" /\ UNCHANGED vars

Next == HostStep \/ DeviceStep \/ (\E t \in Tiles : Fault(t)) \/ Closed

Spec == Init /\ [][Next]_vars

\* The host thread is scheduled, a tile keeps executing, and the hardware
\* completes transfers and synchronizations; a trap is never owed.
FairHost == WF_vars(HostStep)
FairDevice == /\ WF_vars(EnterBatch \/ LeaveBatch)
              /\ \A t \in Tiles : WF_vars(TileStep(t))
FairSpec == Spec /\ FairHost /\ FairDevice
HostFairSpec == Spec /\ FairHost

-----------------------------------------------------------------------------
(* Properties *)

Captures == [Tiles -> [1..O -> Items]]
Regions == {"init", "in"} \X (1..(W + I))
Points == {Boot, Complete} \cup 
            [sec : {"init", "in", "out"}, inv : 0..Invocations, batch : 1..(W + I + O)]

\* Every variable keeps its type: HostSession's fields, the registers and the
\* memory of the tiles.
TypeOK ==
  /\ hpc \in {"new", "startAck", "startWait", "idle", "prepare", "drive", "stage",
             "settle", "finish", "collect", "closing", "closed"}
  /\ call \in 0..(Runs + 1) /\ mode \in {"streaming", "prepared"}
  /\ phase \in Nat /\ todo \subseteq Tiles \X (1..(W + I + O))
  /\ captured \in Captures /\ upto \in Nat
  /\ results \in [1..Runs -> Captures \cup {<<>>}]
  /\ failed \in BOOLEAN /\ attached \in BOOLEAN /\ mark \in {0, 1}
  /\ page \in [Tiles -> Items] /\ point \in Points /\ side \in {"inside", "after"}
  /\ stage \in [Tiles -> {"work", "issued", "ready", "dead"}]
  /\ granted \subseteq Tiles /\ staging \in [Tiles -> Items]
  /\ dest \in [Tiles -> [Regions -> Items]] /\ out \in [Tiles -> 0..Invocations]

\* drive_handshake() "waits for the device before staging each phase", and
\* capture_output() reads pages whose "entire batch has completed DMA": no
\* copy loop of the host touches the slot of a tile whose transfer may run.
Copying == hpc \in {"prepare", "stage", "collect"}
PagesExclusive ==
  Copying => \A s \in todo : ~(side = "inside" /\ s[1] \in Targets(point))

\* The mark is one bit of permission, not a counter: acknowledge_device()
\* never writes it over one the device has still to consume.
Acknowledges == hpc' # hpc /\ hpc' \in {"startWait", "settle", "finish"}
GrantNotLost == [][Acknowledges => mark = 0]_vars

\* The batch that phases p and p + 1 of call c enter and leave; the one after
\* the last phase when p is past it.
BatchOf(c, p) ==
  IF c = 0 THEN IF p \div 2 < W THEN Point("init", 0, (p \div 2) + 1) ELSE StartOf(1)
  ELSE IF c > Invocations \/ I + O = 0 THEN Complete
  ELSE IF p \div 2 < I THEN Point("in", c, (p \div 2) + 1)
  ELSE Point("out", c, (p \div 2) + 1 - I)
AtPhase(c, p) ==
  IF p % 2 = 1 THEN side = "inside" /\ point = BatchOf(c, p)
  ELSE side = "after" /\ Successor(point) = BatchOf(c, p)

\* Host and device are at the same rendezvous: the phase the host's loop has
\* reached is the synchronization the device's emitted program does next, and
\* a mark that is set is the grant of exactly that synchronization.
AtBoot == side = "inside" /\ point = Boot
Lockstep ==
  /\ hpc \in {"new", "startAck"} => mark = 0 /\ AtBoot
  /\ hpc = "startWait" => IF mark = 1 THEN AtBoot ELSE AtPhase(FirstCall, 0)
  /\ hpc \in {"idle", "prepare"} => mark = 0 /\ AtPhase(call, 0)
  /\ hpc \in {"drive", "stage"} => mark = 0 /\ AtPhase(call, phase)
  /\ hpc = "settle" => AtPhase(call, IF mark = 1 THEN phase ELSE phase + 1)
  /\ hpc = "finish" => IF mark = 1 THEN AtPhase(call, phase) ELSE AtPhase(call + 1, 0)
  /\ hpc = "collect" => mark = 0 /\ AtPhase(call + 1, 0)
  /\ hpc = "closed" /\ ~failed => mark = 0 /\ AtPhase(call, 0)

\* A tile computes invocation n from the weights and the inputs of run n, and
\* from nothing older: when an output batch is entered, every tile did.
ComputesFromItsRun ==
  point.sec = "out" /\ side = "inside" => \A t \in Tiles : out[t] = point.inv

\* A session that ends without an error leaves no transfer behind that would
\* reach pages it has detached and unmapped.
NoTransferOutlivesPages ==
  hpc = "closed" /\ ~failed => \A t \in Tiles : stage[t] # "issued"

\* With as many runs as invocations, every call returns and the device stops
\* at its completion symbol.
AtCompletion ==
  side = "after" /\ Successor(point) = Complete /\ \A t \in Tiles : stage[t] = "ready"
SessionCompletes == <>(hpc = "closed" /\ ~failed /\ AtCompletion)

\* The session keeps the promise of HostCalls: the n-th run answers with the
\* outputs computed in invocation n.
Expected(n) ==
  [t \in Tiles |-> [k \in 1..O |-> IF k <= Outputs[t] THEN Out(n, k) ELSE Blank]]
Calls == INSTANCE HostCalls WITH Answer <- Expected
KeepsPromise == Calls!Spec

\* Whatever the device does, the host is never stuck: its waits time out.
HostReturns == <>(hpc = "closed")

=============================================================================
