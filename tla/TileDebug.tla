----------------------------- MODULE TileDebug ------------------------------
(***************************************************************************)
(* One diagnostic operation of the driver on one context of a tile that    *)
(* goes on running: with_tile_context() stops the context, the operation   *)
(* injects instructions through the tile debug interface (TDI), which use  *)
(* m0 and m1, with_tile_scratch() puts these back and the context is       *)
(* released.  The tile is the environment: it may trap at any time, take   *)
(* a while to stop, and take longer for an instruction than the host waits:*)
(* the instruction of an earlier operation may still be in the interface.  *)
(***************************************************************************)
EXTENDS Integers, Sequences

CONSTANTS
  IdleStops, \* operations that accept an inactive context as stopped
  MayTrap,  \* the program may trap
  MayFail,  \* an injected instruction may be invalid
  MayBeLate, \* an instruction may take longer than the host waits
  OldBreaks \* values of the context's run-break bit before the operation

Idle == 0
Running == 1
Stopped == 2
Excepted == 3

\* TDI instructions: [put |-> r] and [get |-> r] move m_r to and from DATA.
Put(r) == <<"put", r>>
Get(r) == <<"get", r>>
PC == <<"special", 0>>
LoadM0 == <<"load", 0>>
StoreM0 == <<"store", 0>>
Instructions == {Put(0), Put(1), Get(0), Get(1), PC, LoadM0, StoreM0}

\* What an operation does between saving and restoring m0 .. m(N - 1): the
\* words written to DATA ("-" for none), each with the instruction after it.
Operations == {"readWord", "writeWord", "readSpecial", "readRegister"}
Scratch == [readWord |-> 2, writeWord |-> 2, readSpecial |-> 1, readRegister |-> 0]
Script ==
  [readWord     |-> <<<<"address", Get(1)>>, <<"-", LoadM0>>, <<"-", Put(0)>>>>,
   writeWord    |-> <<<<"address", Get(1)>>, <<"value", Get(0)>>, <<"-", StoreM0>>>>,
   readSpecial  |-> <<<<"-", PC>>, <<"-", Put(0)>>>>,
   readRegister |-> <<<<"-", Put(1)>>>>]
Reads == {"readWord", "readSpecial", "readRegister"}

VARIABLES
  state,    \* of the context: Idle, Running, Stopped or Excepted
  break,    \* its bit of RUN_BREAK
  m,        \* m0 and m1
  sramWord,      \* the word of SRAM at "address"
  data,     \* DATA
  pending,  \* the injected instruction the tile has not finished, or <<>>
  flags,    \* INVALID or DOUBLE in STATUS
  hostPc,       \* where the host is
  op,       \* the operation
  initial,  \* the state the operation found the context in
  old,      \* RUN_BREAK as it found it
  i,        \* register saved or restored, or step of the script
  saved,    \* the saved registers
  answer,   \* what the operation read
  result,   \* of the operation: "none", "ok" or "error"
  restored, \* of the restore
  \* No step of the code reads these two.
  leftover, \* whether the pending instruction is one of an earlier operation
  own       \* m0 and m1 as they were without this operation

tileVars == <<state, break, m, sramWord, data, pending, flags>>
hostVars == <<hostPc, op, initial, old, i, saved, answer, result, restored>>
auxVars == <<leftover, own>>
debugVars == <<state, break, m, sramWord, data, pending, flags, hostPc, op, initial, old, i,
          saved, answer, result, restored, leftover, own>>

-----------------------------------------------------------------------------
(* The tile.  A context stops because of its break bit in either of the two *)
(* states the driver takes for stopped.                                     *)

Trap ==
  /\ MayTrap /\ state = Running /\ state' = Excepted
  /\ UNCHANGED <<break, m, sramWord, data, pending, flags, hostVars, auxVars>>

Halt ==
  /\ break = 1 /\ state = Running /\ state' \in {Stopped, Excepted}
  /\ UNCHANGED <<break, m, sramWord, data, pending, flags, hostVars, auxVars>>

\* The address is in m1 and the operand in m0; elsewhere the access is lost.
\* What an earlier operation left does to the registers is not of this one.
Execute ==
  /\ pending # <<>> /\ pending' = <<>>
  /\ LET r == pending[2] + 1 IN
     \/ /\ state # Running
        /\ data' = IF pending[1] = "put" THEN m[r] ELSE data
        /\ m' = CASE pending[1] = "get"     -> [m EXCEPT ![r] = data]
                  [] pending[1] = "special" -> [m EXCEPT ![1] = "pc"]
                  [] pending[1] = "load"    -> [m EXCEPT ![1] = IF m[2] = "address" THEN sramWord ELSE "other"]
                  [] OTHER                  -> m
        /\ sramWord' = IF pending[1] = "store" /\ m[2] = "address" THEN m[1] ELSE sramWord
        /\ UNCHANGED flags
     \/ /\ MayFail \/ state = Running
        /\ flags' = TRUE /\ UNCHANGED <<data, m, sramWord>>
  /\ leftover' = FALSE /\ own' = IF leftover THEN m' ELSE own
  /\ UNCHANGED <<state, break, hostVars>>

-----------------------------------------------------------------------------
(* The host *)

HostGoes(from, to) == hostPc = from /\ hostPc' = to

AlreadyStopped ==
  initial \in {Stopped, Excepted} \/ (op \in IdleStops /\ initial = Idle)

\* The two registers are read one after the other: the tile may move between.
ReadState(o) ==
  /\ HostGoes("start", "readBreak") /\ op' = o /\ initial' = state
  /\ UNCHANGED <<tileVars, old, i, saved, answer, result, restored, auxVars>>

ReadBreak ==
  /\ HostGoes("readBreak", "setBreak") /\ old' = break
  /\ UNCHANGED <<tileVars, op, initial, i, saved, answer, result, restored, auxVars>>

FirstSave == IF Scratch[op] = 0 THEN "script" ELSE "save"

SetBreak ==
  /\ hostPc = "setBreak"
  /\ IF AlreadyStopped
       THEN hostPc' = FirstSave /\ UNCHANGED break
       ELSE hostPc' = "stopping" /\ break' = 1
  /\ UNCHANGED <<state, m, sramWord, data, pending, flags, op, initial, old, i,
                 saved, answer, result, restored, auxVars>>

SeeStopped ==
  /\ hostPc = "stopping" /\ state \in {Stopped, Excepted} /\ hostPc' = FirstSave
  /\ UNCHANGED <<tileVars, op, initial, old, i, saved, answer, result, restored, auxVars>>

StopTimeout ==
  /\ HostGoes("stopping", "release") /\ result' = "error"
  /\ UNCHANGED <<tileVars, op, initial, old, i, saved, answer, restored, auxVars>>

\* execute_tile_instruction(): STATUS_CLEAR, then the instruction, which the
\* interface refuses while it has not finished another.
Inject(word, instruction, to) ==
  /\ data' = IF word = "-" THEN data ELSE word
  /\ IF pending = <<>> THEN pending' = instruction /\ flags' = FALSE
                       ELSE UNCHANGED pending /\ flags' = TRUE
  /\ hostPc' = to
  /\ UNCHANGED <<state, break, m, sramWord>>

Poll(from) == hostPc = from /\ pending = <<>>
TimesOut(from) == MayBeLate /\ hostPc = from /\ pending # <<>>
Failed(from) == (Poll(from) /\ flags) \/ TimesOut(from)
Succeeded(from) == Poll(from) /\ ~flags

Save ==
  /\ hostPc = "save" /\ Inject("-", Put(i), "saving")
  /\ UNCHANGED <<op, initial, old, i, saved, answer, result, restored, auxVars>>

Saved ==
  /\ Succeeded("saving")
  /\ saved' = Append(saved, data)
  /\ IF i + 1 < Scratch[op] THEN hostPc' = "save" /\ i' = i + 1 ELSE hostPc' = "script" /\ i' = 0
  /\ UNCHANGED <<tileVars, op, initial, old, answer, result, restored, auxVars>>

SaveFails ==
  /\ Failed("saving") /\ hostPc' = "release" /\ result' = "error"
  /\ UNCHANGED <<tileVars, op, initial, old, i, saved, answer, restored, auxVars>>

Step ==
  /\ hostPc = "script"
  /\ Inject(Script[op][i + 1][1], Script[op][i + 1][2], "stepping")
  /\ UNCHANGED <<op, initial, old, i, saved, answer, result, restored, auxVars>>

AfterScript == IF Scratch[op] = 0 THEN "release" ELSE "restore"

Stepped ==
  /\ Succeeded("stepping")
  /\ IF i + 1 < Len(Script[op])
       THEN hostPc' = "script" /\ i' = i + 1 /\ UNCHANGED <<answer, result>>
       ELSE /\ hostPc' = AfterScript /\ i' = Scratch[op] - 1 /\ result' = "ok"
            /\ answer' = IF op \in Reads THEN data ELSE answer
  /\ UNCHANGED <<tileVars, op, initial, old, saved, restored, auxVars>>

StepFails ==
  /\ Failed("stepping") /\ hostPc' = AfterScript /\ i' = Scratch[op] - 1 /\ result' = "error"
  /\ UNCHANGED <<tileVars, op, initial, old, saved, answer, restored, auxVars>>

\* In reverse order, and no further than the first failure.
Restore ==
  /\ hostPc = "restore" /\ Inject(saved[i + 1], Get(i), "restoring")
  /\ UNCHANGED <<op, initial, old, i, saved, answer, result, restored, auxVars>>

Restored ==
  /\ Succeeded("restoring")
  /\ IF i > 0 THEN hostPc' = "restore" /\ i' = i - 1 /\ UNCHANGED restored
              ELSE hostPc' = "release" /\ restored' = TRUE /\ UNCHANGED i
  /\ UNCHANGED <<tileVars, op, initial, old, saved, answer, result, auxVars>>

\* result.and_then(|value| restore.map(|()| value))
\* Mutant: an error of the restore is dropped.
ResultOfOperation(r) == r
ResultWithRestore(r) == "error"

RestoreFails ==
  /\ Failed("restoring") /\ hostPc' = "release" /\ result' = ResultWithRestore(result)
  /\ UNCHANGED <<tileVars, op, initial, old, i, saved, answer, restored, auxVars>>

\* Mutant: a context is released although it was found stopped.
AlwaysReleases == TRUE
\* Mutant: the error of the operation is returned at once.
ReleasesOnSuccess == ~AlreadyStopped /\ result # "error"
Releases == ~AlreadyStopped

RestoreBreak ==
  /\ hostPc = "release"
  /\ IF Releases THEN break' = old /\ hostPc' = IF old = 0 THEN "clear" ELSE "end"
                 ELSE hostPc' = "end" /\ UNCHANGED break
  /\ UNCHANGED <<state, m, sramWord, data, pending, flags, op, initial, old, i,
                 saved, answer, result, restored, auxVars>>

\* EXCEPTION_CLEAR resumes a context that is not told to stop again.
Resumed(s) == IF s \in {Stopped, Excepted} THEN Running ELSE s

ClearException ==
  /\ HostGoes("clear", "end") /\ state' = Resumed(state)
  /\ UNCHANGED <<break, m, sramWord, data, pending, flags, op, initial, old, i,
                 saved, answer, result, restored, auxVars>>

-----------------------------------------------------------------------------

DebugInit ==
  /\ state \in {Idle, Running, Excepted} /\ break \in OldBreaks
  /\ m = <<"own0", "own1">> /\ own = m /\ sramWord = "word" /\ data = "stale" /\ flags = FALSE
  /\ pending \in {<<>>} \cup {x \in Instructions : MayBeLate} /\ leftover = (pending # <<>>)
  /\ hostPc = "start" /\ op = "readWord" /\ initial = Idle /\ old = 0 /\ i = 0
  /\ saved = <<>> /\ answer = "-" /\ result = "none" /\ restored = FALSE

DebugNext ==
  \/ Trap \/ Halt \/ Execute
  \/ \E o \in Operations : ReadState(o)
  \/ ReadBreak \/ SetBreak \/ SeeStopped \/ StopTimeout
  \/ Save \/ Saved \/ SaveFails \/ Step \/ Stepped \/ StepFails
  \/ Restore \/ Restored \/ RestoreFails \/ RestoreBreak \/ ClearException

DebugSpec == DebugInit /\ [][DebugNext]_debugVars

-----------------------------------------------------------------------------
(* Properties *)

DebugDone == hostPc = "end"

\* An operation that reports success has left no trace: the context has its
\* own m0 and m1, whatever failed or came late before, and nothing waits in the
\* interface, neither of this operation nor of an earlier one that gave up.
\* What it read is the word, the register or the PC of the tile, and what it
\* wrote is in SRAM: no answer of another instruction.
SuccessIsTransparent ==
  DebugDone /\ result = "ok" =>
    /\ m = own /\ pending = <<>>
    /\ CASE op = "readWord"     -> answer = "word"
         [] op = "writeWord"    -> sramWord = "value"
         [] op = "readSpecial"  -> answer = "pc"
         [] op = "readRegister" -> answer = own[2]

\* RUN_BREAK is as it was found, on success and on every error, and a context
\* that was running is not left stopped, even if it stopped after the driver
\* gave up waiting.  A bit that was set before is not taken away, and a context
\* never runs with values of this operation in m0 or m1 without an error being
\* reported, even if they came late.
ReleasesTheContext ==
  /\ DebugDone => break = old /\ (initial = Running /\ old = 0 => state # Stopped)
  /\ state = Running /\ m # own => result = "error"

\* A context that was found excepted stays excepted: a fault or a breakpoint
\* is still there for the report, and is resumed by nobody.
FaultsStay == [][initial = Excepted /\ hostPc # "start" => state' = state]_debugVars

\* "Preserve the first N M registers around injected diagnostic instructions,
\* including failures": a context that ran and runs on has its own registers,
\* but for the one whose own restoring instruction failed (`with_tile_scratch`).
ScratchPreserved ==
  DebugDone /\ initial = Running /\ state = Running =>
    \A r \in 0..1 : m[r + 1] = own[r + 1] \/ (r = i /\ ~restored)

=============================================================================
