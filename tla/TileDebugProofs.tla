-------------------------- MODULE TileDebugProofs ---------------------------
(***************************************************************************)
(* Theorems about TileDebug, for every set of operations that accept an    *)
(* idle context, with and without traps and failing or late instructions.  *)
(*                                                                         *)
(* Two facts carry the proofs.  While the operation works on the context   *)
(* it does not run, so every instruction that ends without a flag had its  *)
(* effect.  And as long as no error is on record, the registers, DATA and  *)
(* the instruction under way are exactly what the sequence of instructions *)
(* makes them; Expected below writes that sequence down.  An instruction   *)
(* left by an earlier operation is only there until the first one of this  *)
(* operation, which then fails.                                            *)
(***************************************************************************)
EXTENDS TileDebug, TLAPS

Before == {"start", "readBreak", "setBreak", "stopping"}
Working == {"save", "saving", "script", "stepping", "restore", "restoring"}
After == {"release", "clear", "end"}

TypeInv ==
  /\ state \in {Idle, Running, Stopped, Excepted}
  /\ hostPc \in Before \cup Working \cup After
  /\ op \in Operations
  /\ initial \in {Idle, Running, Stopped, Excepted}
  /\ result \in {"none", "ok", "error"}

\* Where the context is, its break bit, and that nothing has failed before the
\* operation has run.
ContextInv ==
  /\ hostPc \in Working => state # Running
  /\ hostPc # "start" /\ initial # Running => state = initial
  /\ AlreadyStopped /\ hostPc # "start" => hostPc \notin {"stopping", "clear"}
  /\ hostPc \in {"setBreak", "end"} \/ hostPc = "clear" => break = old
  /\ AlreadyStopped /\ hostPc \in Working \cup After => break = old
  /\ hostPc = "clear" => old = 0
  /\ hostPc = "end" /\ initial = Running /\ old = 0 => state # Stopped
  /\ hostPc \in Before \cup {"save", "saving", "script", "stepping"} => result = "none"

\* The context's own registers; no value is an address of this operation.
Values == {"own0", "own1", "stale", "pc", "other"}
OwnInv == own = <<own[1], own[2]>> /\ own[1] \in Values /\ own[2] \in Values

\* m0 and m1, at first a and b, and the word of SRAM, after each step of the
\* script.
Registers(a, b) ==
  [readWord     |-> <<<<a, b>>, <<a, "address">>, <<"word", "address">>, <<"word", "address">>>>,
   writeWord    |-> <<<<a, b>>, <<a, "address">>, <<"value", "address">>, <<"value", "address">>>>,
   readSpecial  |-> <<<<a, b>>, <<"pc", b>>, <<"pc", b>>>>,
   readRegister |-> <<<<a, b>>, <<a, b>>>>]
Memory(o, n) == IF o = "writeWord" /\ n = 3 THEN "value" ELSE "word"
Wanted(b) == [readWord |-> "word", readSpecial |-> "pc", readRegister |-> b]

\* The first n of the registers w have been saved.
Kept(w, s, n) == s \in Seq(Values) /\ Len(s) = n /\ \A j \in 1..n : s[j] = w[j]

Untouched == m = own /\ sramWord = "word"
Effects(n) == m = Registers(own[1], own[2])[op][n + 1] /\ sramWord = Memory(op, n)
Answered == IF op = "writeWord" THEN sramWord = "value" ELSE answer = Wanted(own[2])[op]
\* All registers above m_n are the context's own again.
PutBack(n) ==
  /\ m = <<m[1], m[2]>>
  /\ n < 1 => m[2] = own[2]
  /\ n < 0 => m[1] = own[1]

Quiet == pending = <<>>
\* An instruction is under way, or has failed, or has had its effect.
Underway(instruction, ready, done) ==
  \/ pending = instruction /\ ready
  \/ pending = <<>> /\ (flags \/ done)

\* While an instruction of an earlier operation is in the interface, the first
\* one of this operation has not been taken.
Carried ==
  /\ pending \in Instructions /\ data = "stale" /\ i = 0 /\ saved = <<>> /\ result = "none" /\ Untouched
  /\ hostPc \in Before \cup {"save", "saving", "script", "stepping"}
  /\ hostPc \in {"saving", "stepping"} => flags
  /\ hostPc \in {"save", "saving"} => Scratch[op] # 0
  /\ hostPc \in {"script", "stepping"} => Scratch[op] = 0

\* Without one, what holds at each place of the host while nothing has failed.
Expected ==
  /\ hostPc \in Before => Quiet /\ Untouched /\ saved = <<>> /\ i = 0 /\ result = "none"
  /\ hostPc \in {"save", "saving"} =>
       Untouched /\ i \in 0..(Scratch[op] - 1) /\ Kept(own, saved, i) /\ result = "none"
  /\ hostPc = "save" => Quiet
  /\ hostPc = "saving" => Underway(Put(i), TRUE, data = own[i + 1])
  /\ hostPc \in {"script", "stepping"} =>
       Kept(own, saved, Scratch[op]) /\ i \in 0..(Len(Script[op]) - 1) /\ result = "none"
  /\ hostPc = "script" => Quiet /\ Effects(i)
  /\ hostPc = "stepping" =>
       Underway(Script[op][i + 1][2],
                Effects(i) /\ (Script[op][i + 1][1] # "-" => data = Script[op][i + 1][1]),
                Effects(i + 1) /\ (i + 1 = Len(Script[op]) /\ op \in Reads => data = Wanted(own[2])[op]))
  /\ hostPc \in {"restore", "restoring"} =>
       /\ Kept(own, saved, Scratch[op]) /\ i \in 0..(Scratch[op] - 1) /\ result = "ok" /\ Answered
       /\ PutBack(i)
  /\ hostPc = "restore" => Quiet
  /\ hostPc = "restoring" => Underway(Get(i), data = own[i + 1], PutBack(i - 1))
  /\ hostPc \in After => Quiet /\ m = own /\ result = "ok" /\ Answered

IInv ==
  /\ TypeInv /\ ContextInv
  /\ result # "error" => OwnInv /\ (leftover => Carried) /\ (~leftover => Expected)

-----------------------------------------------------------------------------
(* The operations *)

LEMMA LengthsAre ==
  /\ Scratch["readWord"] = 2 /\ Scratch["writeWord"] = 2 /\ Scratch["readSpecial"] = 1 /\ Scratch["readRegister"] = 0
  /\ Len(Script["readWord"]) = 3 /\ Len(Script["writeWord"]) = 3
  /\ Len(Script["readSpecial"]) = 2 /\ Len(Script["readRegister"]) = 1
BY DEF Scratch, Script

LEMMA ScriptIs ==
  /\ Script["readWord"][1] = <<"address", Get(1)>> /\ Script["readWord"][2] = <<"-", LoadM0>>
  /\ Script["readWord"][3] = <<"-", Put(0)>>
  /\ Script["writeWord"][1] = <<"address", Get(1)>> /\ Script["writeWord"][2] = <<"value", Get(0)>>
  /\ Script["writeWord"][3] = <<"-", StoreM0>>
  /\ Script["readSpecial"][1] = <<"-", PC>> /\ Script["readSpecial"][2] = <<"-", Put(0)>>
  /\ Script["readRegister"][1] = <<"-", Put(1)>>
BY DEF Script

LEMMA RegistersAre ==
  \A a, b :
    /\ Registers(a, b)["readWord"][1] = <<a, b>> /\ Registers(a, b)["readWord"][2] = <<a, "address">>
    /\ Registers(a, b)["readWord"][3] = <<"word", "address">> /\ Registers(a, b)["readWord"][4] = <<"word", "address">>
    /\ Registers(a, b)["writeWord"][1] = <<a, b>> /\ Registers(a, b)["writeWord"][2] = <<a, "address">>
    /\ Registers(a, b)["writeWord"][3] = <<"value", "address">> /\ Registers(a, b)["writeWord"][4] = <<"value", "address">>
    /\ Registers(a, b)["readSpecial"][1] = <<a, b>> /\ Registers(a, b)["readSpecial"][2] = <<"pc", b>>
    /\ Registers(a, b)["readSpecial"][3] = <<"pc", b>>
    /\ Registers(a, b)["readRegister"][1] = <<a, b>> /\ Registers(a, b)["readRegister"][2] = <<a, b>>
BY DEF Registers

LEMMA WantedIs ==
  \A b : Wanted(b)["readWord"] = "word" /\ Wanted(b)["readSpecial"] = "pc" /\ Wanted(b)["readRegister"] = b
BY DEF Wanted

LEMMA FirstIs == \A a, b : \A o \in Operations : Registers(a, b)[o][0 + 1] = <<a, b>> /\ Memory(o, 0) = "word"
BY RegistersAre DEF Operations, Memory

\* An operation that uses no scratch register goes straight to its script.
LEMMA ScratchIs == \A o \in Operations : Scratch[o] \in 0..2 /\ Len(Script[o]) \in 1..3
BY LengthsAre DEF Operations

-----------------------------------------------------------------------------
(* Types and the context *)

LEMMA TypesKept == ASSUME TypeInv, [DebugNext]_debugVars PROVE TypeInv'
<1> USE DEF TypeInv, Before, Working, After, HostGoes, hostVars, tileVars, Inject
<1>1. CASE UNCHANGED debugVars
  BY <1>1 DEF debugVars
<1>2. CASE Trap \/ Halt \/ Execute
  BY <1>2 DEF Trap, Halt, Execute
<1>3. CASE \E o \in Operations : ReadState(o)
  BY <1>3 DEF ReadState
<1>4. CASE ReadBreak \/ SetBreak \/ SeeStopped \/ StopTimeout
  BY <1>4 DEF ReadBreak, SetBreak, SeeStopped, StopTimeout, FirstSave
<1>5. CASE Save \/ Saved \/ SaveFails
  BY <1>5 DEF Save, Saved, SaveFails
<1>6. CASE Step \/ Stepped \/ StepFails
  BY <1>6 DEF Step, Stepped, StepFails, AfterScript
<1>7. CASE Restore \/ Restored \/ RestoreFails
  BY <1>7 DEF Restore, Restored, RestoreFails, ResultWithRestore
<1>8. CASE RestoreBreak \/ ClearException
  BY <1>8 DEF RestoreBreak, ClearException, Resumed
<1> QED BY <1>1, <1>2, <1>3, <1>4, <1>5, <1>6, <1>7, <1>8 DEF DebugNext

LEMMA ContextKept == ASSUME TypeInv, ContextInv, [DebugNext]_debugVars PROVE ContextInv'
<1> USE DEF TypeInv, ContextInv, Before, Working, After, HostGoes, hostVars, tileVars, AlreadyStopped,
            Idle, Running, Stopped, Excepted
<1>1. CASE UNCHANGED debugVars
  BY <1>1 DEF debugVars
<1>2. CASE Trap \/ Halt \/ Execute
  BY <1>2 DEF Trap, Halt, Execute
<1>3. CASE \E o \in Operations : ReadState(o)
  BY <1>3 DEF ReadState
<1>4. CASE ReadBreak \/ SetBreak \/ SeeStopped \/ StopTimeout
  BY <1>4 DEF ReadBreak, SetBreak, SeeStopped, StopTimeout, FirstSave
<1>5. CASE Save \/ Saved \/ SaveFails \/ Step \/ Stepped \/ StepFails \/ Restore \/ Restored \/ RestoreFails
  <2>1. /\ hostPc \in Working /\ hostPc' \in Working \cup {"release"}
        /\ UNCHANGED <<state, break, op, initial, old>>
        /\ hostPc' \in {"save", "saving", "script", "stepping"} => result' = "none"
    BY <1>5 DEF Save, Saved, SaveFails, Step, Stepped, StepFails, Restore, Restored, RestoreFails,
       Inject, Succeeded, Failed, Poll, TimesOut, AfterScript
  <2> QED BY <2>1
<1>6. CASE RestoreBreak
  BY <1>6 DEF RestoreBreak, Releases
<1>7. CASE ClearException
  BY <1>7 DEF ClearException, Resumed
<1> QED BY <1>1, <1>2, <1>3, <1>4, <1>5, <1>6, <1>7 DEF DebugNext

-----------------------------------------------------------------------------
(* The instructions *)

\* What an earlier operation left changes the registers the context has; the
\* first instruction of this operation, if it was injected, has failed.
LEMMA LeftoverExecuted ==
  ASSUME IInv, result # "error", leftover, Execute PROVE OwnInv' /\ ~leftover' /\ Expected'
<1>1. /\ pending' = <<>> /\ leftover' = FALSE /\ own' = m' /\ UNCHANGED hostVars
      /\ OwnInv /\ op \in Operations
      /\ pending \in Instructions /\ data = "stale" /\ i = 0 /\ saved = <<>> /\ m = own /\ sramWord = "word" /\ result = "none"
      /\ hostPc \in Before \cup {"save", "saving", "script", "stepping"}
      /\ hostPc \in {"saving", "stepping"} => flags
      /\ hostPc \in {"save", "saving"} => Scratch[op] # 0
      /\ hostPc \in {"script", "stepping"} => Scratch[op] = 0
  BY DEF Execute, IInv, TypeInv, Carried, Untouched
<1>2. /\ OwnInv' /\ Untouched' /\ (flags = TRUE => flags' = TRUE)
  <2>1. CASE flags' = TRUE /\ UNCHANGED <<data, m, sramWord>>
    BY <1>1, <2>1 DEF OwnInv, Untouched
  <2>2. CASE ~(flags' = TRUE /\ UNCHANGED <<data, m, sramWord>>)
    <3> DEFINE r == pending[2] + 1
    <3>1. /\ m' = CASE pending[1] = "get"     -> [m EXCEPT ![r] = data]
                     [] pending[1] = "special" -> [m EXCEPT ![1] = "pc"]
                     [] pending[1] = "load"    -> [m EXCEPT ![1] = IF m[2] = "address" THEN sramWord ELSE "other"]
                     [] OTHER                  -> m
          /\ sramWord' = IF pending[1] = "store" /\ m[2] = "address" THEN m[1] ELSE sramWord
          /\ UNCHANGED flags
      BY <2>2 DEF Execute
    <3>2. m = <<own[1], own[2]>> /\ m[1] \in Values /\ m[2] \in Values /\ m[2] # "address" /\ "stale" \in Values
          /\ "pc" \in Values /\ "other" \in Values
      BY <1>1 DEF OwnInv, Values
    <3>3. sramWord' = "word"
      BY <1>1, <3>1, <3>2
    <3>4. m' = <<m'[1], m'[2]>> /\ m'[1] \in Values /\ m'[2] \in Values
      <4>1. CASE pending \in {<<"get", 0>>, <<"get", 1>>}
        BY <1>1, <3>1, <3>2, <4>1
      <4>2. CASE pending = <<"special", 0>>
        BY <1>1, <3>1, <3>2, <4>2
      <4>3. CASE pending = <<"load", 0>>
        BY <1>1, <3>1, <3>2, <4>3
      <4>4. CASE pending \in {<<"put", 0>>, <<"put", 1>>, <<"store", 0>>}
        BY <1>1, <3>1, <3>2, <4>4
      <4> QED BY <1>1, <4>1, <4>2, <4>3, <4>4 DEF Instructions, Put, Get, PC, LoadM0, StoreM0
    <3> QED BY <1>1, <3>1, <3>3, <3>4 DEF OwnInv, Untouched
  <2> QED BY <2>1, <2>2
<1>3. /\ hostPc' = hostPc /\ op' = op /\ i' = 0 /\ saved' = <<>> /\ result' = "none" /\ (flags => flags')
      /\ Kept(own', saved', 0) /\ Scratch[op] \in 0..2 /\ Len(Script[op]) \in 1..3
  BY <1>1, <1>2, ScratchIs DEF hostVars, Kept
<1> SUFFICES Expected'
  BY <1>1, <1>2
<1>4. (Effects(0))'
  BY <1>1, <1>2, <1>3, FirstIs DEF Effects, Untouched, OwnInv
<1>5. CASE hostPc \in Before
  BY <1>1, <1>2, <1>3, <1>5 DEF Expected, Quiet, Before, Working, After
<1>6. CASE hostPc \in {"save", "saving"}
  BY <1>1, <1>2, <1>3, <1>6 DEF Expected, Quiet, Before, Working, After, Underway
<1>7. CASE hostPc \in {"script", "stepping"}
  <2>1. (Effects(i))'
    BY <1>3, <1>4 DEF Effects
  <2> QED BY <1>1, <1>2, <1>3, <1>7, <2>1 DEF Expected, Quiet, Before, Working, After, Underway
<1> QED BY <1>1, <1>5, <1>6, <1>7

\* While it waits the host only gets as far as an instruction that is refused.
LEMMA HostCarried ==
  ASSUME IInv, result # "error", result' # "error", leftover, [DebugNext]_debugVars, ~Execute
  PROVE  OwnInv' /\ leftover' /\ Carried'
<1>1. UNCHANGED <<leftover, own>> /\ OwnInv'
  BY DEF IInv, OwnInv, DebugNext, debugVars, auxVars, Trap, Halt, ReadState, ReadBreak, SetBreak, SeeStopped,
     StopTimeout, Save, Saved, SaveFails, Step, Stepped, StepFails, Restore, Restored, RestoreFails, RestoreBreak,
     ClearException
<1>2. Carried /\ op \in Operations
  BY DEF IInv, TypeInv
<1>3. pending # <<>> /\ i = 0
  BY <1>2 DEF Carried, Instructions, Put, Get, PC, LoadM0, StoreM0
<1>4. /\ ~Saved /\ ~SaveFails /\ ~Stepped /\ ~StepFails /\ ~Restore /\ ~Restored /\ ~RestoreFails
      /\ ~RestoreBreak /\ ~ClearException /\ ~StopTimeout
  BY <1>2, <1>3 DEF Carried, Saved, SaveFails, Stepped, StepFails, Restore, Restored, RestoreFails, RestoreBreak,
     ClearException, StopTimeout, Succeeded, Failed, Poll, TimesOut, Before, HostGoes, ResultWithRestore
<1>5. CASE UNCHANGED debugVars
  BY <1>1, <1>2, <1>5 DEF debugVars, Carried, Untouched
<1>6. CASE Trap \/ Halt \/ (\E o \in Operations : ReadState(o)) \/ ReadBreak \/ SetBreak \/ SeeStopped
  <2>1. UNCHANGED <<m, sramWord, data, pending, flags, i, saved, result>>
    BY <1>6 DEF Trap, Halt, ReadState, ReadBreak, SetBreak, SeeStopped, hostVars, tileVars
  <2>2. \/ hostPc' = hostPc /\ op' = op
        \/ hostPc \in Before /\ hostPc' \in Before
        \/ hostPc \in Before /\ op' = op /\ hostPc' = FirstSave
    BY <1>6 DEF Trap, Halt, ReadState, ReadBreak, SetBreak, SeeStopped, hostVars, HostGoes, Before
  <2> QED BY <1>1, <1>2, <2>1, <2>2 DEF Carried, Untouched, FirstSave, Before
<1>7. CASE Save
  <2>1. /\ hostPc = "save" /\ hostPc' = "saving" /\ flags' = TRUE
        /\ UNCHANGED <<m, sramWord, data, pending, op, i, saved, result>>
    BY <1>3, <1>7 DEF Save, Inject
  <2> QED BY <1>1, <1>2, <2>1 DEF Carried, Untouched, Before
<1>8. CASE Step
  <2>1. op = "readRegister"
    BY <1>2, <1>8, LengthsAre DEF Carried, Step, Operations
  <2>2. /\ hostPc = "script" /\ hostPc' = "stepping" /\ flags' = TRUE
        /\ UNCHANGED <<m, sramWord, data, pending, op, i, saved, result>>
    BY <1>3, <1>8, <2>1, ScriptIs DEF Step, Inject
  <2> QED BY <1>1, <1>2, <2>2 DEF Carried, Untouched, Before
<1> QED BY <1>4, <1>5, <1>6, <1>7, <1>8 DEF DebugNext

\* An instruction given to a context that does not run fails or has its effect.
LEMMA ExecuteExpected ==
  ASSUME IInv, result # "error", ~leftover, Execute PROVE OwnInv' /\ ~leftover' /\ Expected'
<1>1. /\ pending # <<>> /\ pending' = <<>> /\ UNCHANGED <<state, break, hostVars>>
      /\ Expected /\ OwnInv /\ op \in Operations
      /\ leftover' = FALSE /\ own' = own /\ OwnInv'
  <2>1. leftover' = FALSE /\ own' = own /\ OwnInv
    BY DEF Execute, IInv
  <2> QED BY <2>1 DEF Execute, IInv, TypeInv, OwnInv
<1> SUFFICES Expected'
  BY <1>1
<1>2. hostPc \in {"saving", "stepping", "restoring"}
  BY <1>1 DEF IInv, TypeInv, Expected, Quiet, Before, Working, After
<1>3. CASE flags' = TRUE /\ UNCHANGED <<data, m, sramWord>>
  <2>1. CASE hostPc = "saving"
    BY <1>1, <1>3, <2>1 DEF Expected, hostVars, Underway, Quiet, Before, Working, After, Untouched
  <2>2. CASE hostPc = "stepping"
    BY <1>1, <1>3, <2>2 DEF Expected, hostVars, Underway, Quiet, Before, Working, After
  <2>3. CASE hostPc = "restoring"
    BY <1>1, <1>3, <2>3 DEF Expected, hostVars, Underway, Quiet, Before, Working, After, PutBack, Answered
  <2> QED BY <1>2, <2>1, <2>2, <2>3
<1>4. CASE ~(flags' = TRUE /\ UNCHANGED <<data, m, sramWord>>)
  <2> DEFINE r == pending[2] + 1
  <2>1. /\ state # Running
        /\ data' = IF pending[1] = "put" THEN m[r] ELSE data
        /\ m' = CASE pending[1] = "get"     -> [m EXCEPT ![r] = data]
                   [] pending[1] = "special" -> [m EXCEPT ![1] = "pc"]
                   [] pending[1] = "load"    -> [m EXCEPT ![1] = IF m[2] = "address" THEN sramWord ELSE "other"]
                   [] OTHER                  -> m
        /\ sramWord' = IF pending[1] = "store" /\ m[2] = "address" THEN m[1] ELSE sramWord
        /\ UNCHANGED flags
    BY <1>4 DEF Execute
  <2>2. CASE hostPc = "saving"
    <3>1. pending = <<"put", i>> /\ i \in {0, 1} /\ Untouched
      BY <1>1, <2>2, ScratchIs DEF Expected, Underway, Put
    <3>2. data' = own[i + 1] /\ m' = m /\ sramWord' = sramWord
      BY <2>1, <3>1 DEF Untouched
    <3> QED BY <1>1, <2>2, <3>1, <3>2 DEF Expected, hostVars, Underway, Quiet, Before, Working, After, Untouched
  <2>3. CASE hostPc = "restoring"
    <3>1. pending = <<"get", i>> /\ i \in {0, 1} /\ PutBack(i) /\ data = own[i + 1]
      BY <1>1, <2>3, ScratchIs DEF Expected, Underway, Get
    <3>2. m' = [m EXCEPT ![i + 1] = data] /\ sramWord' = sramWord
      BY <2>1, <3>1
    <3>3. DOMAIN m = {1, 2} /\ m = [n \in {1, 2} |-> m[n]]
      BY <3>1 DEF PutBack
    <3>4. m' = <<m'[1], m'[2]>> /\ m'[i + 1] = own[i + 1] /\ (i = 0 => m'[2] = m[2])
      BY <3>1, <3>2, <3>3
    <3>5. (PutBack(i))' /\ (PutBack(i - 1))'
      BY <1>1, <3>1, <3>4 DEF PutBack, hostVars
    <3> QED BY <1>1, <2>3, <3>2, <3>5 DEF Expected, hostVars, Underway, Quiet, Before, Working, After, Answered
  <2>4. CASE hostPc = "stepping"
    <3>1. /\ pending = Script[op][i + 1][2] /\ Effects(i) /\ i \in 0..(Len(Script[op]) - 1)
          /\ Script[op][i + 1][1] # "-" => data = Script[op][i + 1][1]
      BY <1>1, <2>4 DEF Expected, Underway
    <3>2. /\ m' = Registers(own[1], own[2])[op][(i + 1) + 1] /\ sramWord' = Memory(op, i + 1)
          /\ i + 1 = Len(Script[op]) /\ op \in Reads => data' = Wanted(own[2])[op]
      <4>1. CASE op = "readWord"
        <5>1. i \in {0, 1, 2}
          BY <3>1, <4>1, LengthsAre
        <5>2. CASE i = 0
          <6>1. pending = <<"get", 1>> /\ m = <<own[1], own[2]>> /\ sramWord = "word" /\ data = "address"
            BY <1>1, <3>1, <4>1, <5>2, ScriptIs, RegistersAre DEF Effects, Memory, Get, Put, LoadM0, StoreM0, PC, OwnInv
          <6>2. m' = <<own[1], "address">> /\ sramWord' = "word"
            BY <2>1, <6>1
          <6> QED BY <1>1, <4>1, <5>2, <6>2, LengthsAre, RegistersAre, WantedIs DEF Memory, Reads, OwnInv
        <5>3. CASE i = 1
          <6>1. pending = <<"load", 0>> /\ m = <<own[1], "address">> /\ sramWord = "word"
            BY <3>1, <4>1, <5>3, ScriptIs, RegistersAre DEF Effects, Memory, Get, Put, LoadM0, StoreM0, PC
          <6>2. m' = <<"word", "address">> /\ sramWord' = "word"
            BY <2>1, <6>1
          <6> QED BY <1>1, <4>1, <5>3, <6>2, LengthsAre, RegistersAre, WantedIs DEF Memory, Reads, OwnInv
        <5>4. CASE i = 2
          <6>1. pending = <<"put", 0>> /\ m = <<"word", "address">> /\ sramWord = "word"
            BY <3>1, <4>1, <5>4, ScriptIs, RegistersAre DEF Effects, Memory, Get, Put, LoadM0, StoreM0, PC
          <6>2. m' = <<"word", "address">> /\ sramWord' = "word" /\ data' = "word"
            BY <2>1, <6>1
          <6> QED BY <1>1, <4>1, <5>4, <6>2, LengthsAre, RegistersAre, WantedIs DEF Memory, Reads, OwnInv
        <5> QED BY <5>1, <5>2, <5>3, <5>4
      <4>2. CASE op = "writeWord"
        <5>1. i \in {0, 1, 2}
          BY <3>1, <4>2, LengthsAre
        <5>2. CASE i = 0
          <6>1. pending = <<"get", 1>> /\ m = <<own[1], own[2]>> /\ sramWord = "word" /\ data = "address"
            BY <1>1, <3>1, <4>2, <5>2, ScriptIs, RegistersAre DEF Effects, Memory, Get, Put, LoadM0, StoreM0, PC, OwnInv
          <6>2. m' = <<own[1], "address">> /\ sramWord' = "word"
            BY <2>1, <6>1
          <6> QED BY <1>1, <4>2, <5>2, <6>2, LengthsAre, RegistersAre, WantedIs DEF Memory, Reads, OwnInv
        <5>3. CASE i = 1
          <6>1. pending = <<"get", 0>> /\ m = <<own[1], "address">> /\ sramWord = "word" /\ data = "value"
            BY <3>1, <4>2, <5>3, ScriptIs, RegistersAre DEF Effects, Memory, Get, Put, LoadM0, StoreM0, PC
          <6>2. m' = <<"value", "address">> /\ sramWord' = "word"
            BY <2>1, <6>1
          <6> QED BY <1>1, <4>2, <5>3, <6>2, LengthsAre, RegistersAre, WantedIs DEF Memory, Reads, OwnInv
        <5>4. CASE i = 2
          <6>1. pending = <<"store", 0>> /\ m = <<"value", "address">> /\ sramWord = "word"
            BY <3>1, <4>2, <5>4, ScriptIs, RegistersAre DEF Effects, Memory, Get, Put, LoadM0, StoreM0, PC
          <6>2. m' = <<"value", "address">> /\ sramWord' = "value"
            BY <2>1, <6>1
          <6> QED BY <1>1, <4>2, <5>4, <6>2, LengthsAre, RegistersAre, WantedIs DEF Memory, Reads, OwnInv
        <5> QED BY <5>1, <5>2, <5>3, <5>4
      <4>3. CASE op = "readSpecial"
        <5>1. i \in {0, 1}
          BY <3>1, <4>3, LengthsAre
        <5>2. CASE i = 0
          <6>1. pending = <<"special", 0>> /\ m = <<own[1], own[2]>> /\ sramWord = "word"
            BY <1>1, <3>1, <4>3, <5>2, ScriptIs, RegistersAre DEF Effects, Memory, Get, Put, LoadM0, StoreM0, PC, OwnInv
          <6>2. m' = <<"pc", own[2]>> /\ sramWord' = "word"
            BY <2>1, <6>1
          <6> QED BY <1>1, <4>3, <5>2, <6>2, LengthsAre, RegistersAre, WantedIs DEF Memory, Reads, OwnInv
        <5>3. CASE i = 1
          <6>1. pending = <<"put", 0>> /\ m = <<"pc", own[2]>> /\ sramWord = "word"
            BY <3>1, <4>3, <5>3, ScriptIs, RegistersAre DEF Effects, Memory, Get, Put, LoadM0, StoreM0, PC
          <6>2. m' = <<"pc", own[2]>> /\ sramWord' = "word" /\ data' = "pc"
            BY <2>1, <6>1
          <6> QED BY <1>1, <4>3, <5>3, <6>2, LengthsAre, RegistersAre, WantedIs DEF Memory, Reads, OwnInv
        <5> QED BY <5>1, <5>2, <5>3
      <4>4. CASE op = "readRegister"
        <5>1. i \in {0}
          BY <3>1, <4>4, LengthsAre
        <5>2. CASE i = 0
          <6>1. pending = <<"put", 1>> /\ m = <<own[1], own[2]>> /\ sramWord = "word"
            BY <1>1, <3>1, <4>4, <5>2, ScriptIs, RegistersAre DEF Effects, Memory, Get, Put, LoadM0, StoreM0, PC, OwnInv
          <6>2. m' = <<own[1], own[2]>> /\ sramWord' = "word" /\ data' = own[2]
            BY <2>1, <6>1
          <6> QED BY <1>1, <4>4, <5>2, <6>2, LengthsAre, RegistersAre, WantedIs DEF Memory, Reads, OwnInv
        <5> QED BY <5>1, <5>2
      <4> QED BY <1>1, <4>1, <4>2, <4>3, <4>4 DEF Operations
    <3>3. UNCHANGED <<op, i, hostPc, saved, result>>
      BY <1>1 DEF hostVars
    <3> QED BY <1>1, <2>4, <3>2, <3>3 DEF Expected, Underway, Quiet, Before, Working, After, Effects
  <2> QED BY <1>2, <2>2, <2>3, <2>4
<1> QED BY <1>3, <1>4

LEMMA InitExpected == DebugInit => IInv
<1>1. DebugInit => TypeInv /\ ContextInv
  BY DEF DebugInit, TypeInv, ContextInv, Before, Working, After, Operations, Idle, Running, Stopped, Excepted,
         AlreadyStopped
<1>2. DebugInit => OwnInv /\ Untouched
  BY DEF DebugInit, OwnInv, Untouched, Values
<1>3. DebugInit => (leftover => Carried) /\ (~leftover => Expected)
  BY <1>2 DEF DebugInit, Carried, Expected, Quiet, Before, Working, After
<1> QED BY <1>1, <1>2, <1>3 DEF DebugInit, IInv

\* The steps of the host, as long as they do not record an error.
LEMMA HostExpected ==
  ASSUME IInv, result # "error", result' # "error", ~leftover, [DebugNext]_debugVars, ~Execute
  PROVE  OwnInv' /\ ~leftover' /\ Expected'
<1> USE DEF HostGoes, Before, Working, After
<1>0. UNCHANGED <<leftover, own>>
  BY DEF DebugNext, debugVars, auxVars, Trap, Halt, ReadState, ReadBreak, SetBreak, SeeStopped, StopTimeout, Save,
     Saved, SaveFails, Step, Stepped, StepFails, Restore, Restored, RestoreFails, RestoreBreak, ClearException
<1>1. /\ Expected /\ op \in Operations /\ hostPc \in Before \cup Working \cup After
      /\ OwnInv /\ OwnInv'
      /\ own' = own /\ leftover' = FALSE
  BY <1>0 DEF IInv, TypeInv, OwnInv
<1> SUFFICES Expected'
  BY <1>1
<1>2. CASE UNCHANGED debugVars
  BY <1>1, <1>2 DEF debugVars, Expected, Quiet, Untouched, Underway, Effects, PutBack, Answered
<1>3. CASE Trap \/ Halt \/ ClearException
  <2>1. UNCHANGED <<m, sramWord, data, pending, flags, op, i, saved, answer, result>>
    BY <1>3 DEF Trap, Halt, ClearException, hostVars
  <2>2. hostPc' = hostPc \/ (hostPc = "clear" /\ hostPc' = "end")
    BY <1>3 DEF Trap, Halt, ClearException, hostVars
  <2> QED BY <1>1, <2>1, <2>2 DEF Expected, Quiet, Untouched, Underway, Effects, PutBack, Answered
<1>4. CASE \/ \E o \in Operations : ReadState(o)
           \/ ReadBreak \/ (SetBreak /\ hostPc' = "stopping") \/ StopTimeout
  <2>1. hostPc \in Before /\ hostPc' \in Before /\ UNCHANGED <<m, sramWord, pending, i, saved, result>>
    BY <1>4 DEF ReadState, ReadBreak, SetBreak, StopTimeout, tileVars
  <2> QED BY <1>1, <2>1 DEF Expected, Quiet, Untouched
<1>5. CASE (SetBreak /\ hostPc' # "stopping") \/ SeeStopped
  <2>1. /\ hostPc \in Before /\ hostPc' = FirstSave
        /\ UNCHANGED <<m, sramWord, data, pending, flags, op, i, saved, answer, result>>
    BY <1>5 DEF SetBreak, SeeStopped, tileVars
  <2>2. Quiet /\ Untouched /\ saved = <<>> /\ i = 0 /\ result = "none"
    BY <1>1, <2>1 DEF Expected
  <2>3. CASE Scratch[op] = 0
    <3>1. hostPc' = "script" /\ Effects(0)
      BY <1>1, <2>1, <2>2, <2>3, FirstIs DEF FirstSave, Effects, Untouched, OwnInv
    <3> QED BY <1>1, <2>1, <2>2, <2>3, <3>1, ScratchIs, SMTT(30)
            DEF Expected, Quiet, Effects, Kept
  <2>4. CASE Scratch[op] # 0
    <3>1. hostPc' = "save" /\ Scratch[op] \in 1..2
      BY <1>1, <2>1, <2>4, ScratchIs DEF FirstSave
    <3> QED BY <1>1, <2>1, <2>2, <3>1 DEF Expected, Quiet, Untouched, Kept
  <2> QED BY <2>3, <2>4
<1>6. CASE Save
  BY <1>1, <1>6 DEF Save, Inject, Expected, Quiet, Untouched, Underway
<1>7. CASE Saved
  <2>1. /\ hostPc = "saving" /\ pending = <<>> /\ ~flags /\ saved' = Append(saved, data)
        /\ UNCHANGED <<m, sramWord, data, pending, flags, op, answer, result>>
    BY <1>7 DEF Saved, Succeeded, Poll, tileVars
  <2>2. /\ Untouched /\ i \in 0..(Scratch[op] - 1) /\ Scratch[op] \in 0..2 /\ Kept(own, saved, i) /\ result = "none"
        /\ data = own[i + 1]
    BY <1>1, <2>1, ScratchIs DEF Expected, Underway, Put
  <2>3. Kept(own, saved', i + 1)
    <3>1. i + 1 = 1 \/ i + 1 = 2
      BY <2>2
    <3>2. data \in Values
      BY <1>1, <2>2, <3>1 DEF OwnInv
    <3>3. Len(saved) = i /\ saved \in Seq(Values) /\ i \in Nat /\ \A j \in 1..i : saved[j] = own[j]
      BY <2>2 DEF Kept
    <3> QED BY <2>1, <2>2, <3>2, <3>3 DEF Kept
  <2>4. CASE i + 1 < Scratch[op]
    <3>1. hostPc' = "save" /\ i' = i + 1
      BY <1>7, <2>4 DEF Saved
    <3> QED BY <1>1, <2>1, <2>2, <2>3, <2>4, <3>1 DEF Expected, Quiet, Untouched
  <2>5. CASE ~(i + 1 < Scratch[op])
    <3>1. hostPc' = "script" /\ i' = 0 /\ i + 1 = Scratch[op]
      BY <1>7, <2>2, <2>5 DEF Saved
    <3>2. (Effects(0))'
      BY <1>1, <2>1, <2>2, FirstIs DEF Effects, Untouched, OwnInv
    <3>3. Len(Script[op]) \in 1..3 /\ (Effects(i))'
      BY <1>1, <3>1, <3>2, ScratchIs DEF Effects
    <3>4. Kept(own, saved', Scratch[op]) /\ Quiet' /\ result' = "none" /\ op' = op
      BY <2>1, <2>2, <2>3, <3>1 DEF Quiet
    <3>5. i' \in 0..(Len(Script[op']) - 1)
      BY <3>1, <3>3, <3>4
    <3> QED BY <1>1, <3>1, <3>3, <3>4, <3>5 DEF Expected
  <2> QED BY <2>4, <2>5
<1>8. CASE Step
  <2>1. /\ hostPc = "script" /\ hostPc' = "stepping" /\ pending' = Script[op][i + 1][2]
        /\ data' = IF Script[op][i + 1][1] = "-" THEN data ELSE Script[op][i + 1][1]
        /\ UNCHANGED <<m, sramWord, op, i, saved, answer, result>>
    BY <1>1, <1>8 DEF Step, Inject, Expected, Quiet
  <2> QED BY <1>1, <2>1 DEF Expected, Effects, Underway
<1>9. CASE Stepped
  <2>1. /\ hostPc = "stepping" /\ pending = <<>> /\ ~flags
        /\ UNCHANGED <<m, sramWord, data, pending, flags, op, saved>>
    BY <1>9 DEF Stepped, Succeeded, Poll, tileVars
  <2>2. /\ Kept(own, saved, Scratch[op]) /\ i \in 0..(Len(Script[op]) - 1) /\ Len(Script[op]) \in 1..3 /\ result = "none"
        /\ Scratch[op] \in 0..2
    BY <1>1, <2>1, ScratchIs DEF Expected
  <2>3. Script[op][i + 1][2] # <<>>
    <3>1. \/ op = "readWord" /\ i \in {0, 1, 2}
          \/ op = "writeWord" /\ i \in {0, 1, 2}
          \/ op = "readSpecial" /\ i \in {0, 1}
          \/ op = "readRegister" /\ i = 0
      <4>1. op \in {"readWord", "writeWord"} => Len(Script[op]) = 3
        BY LengthsAre
      <4>2. (op = "readSpecial" => Len(Script[op]) = 2) /\ (op = "readRegister" => Len(Script[op]) = 1)
        BY LengthsAre
      <4>3. \A n \in 1..3 : i \in 0..(n - 1) =>
              (n = 3 => i \in {0, 1, 2}) /\ (n = 2 => i \in {0, 1}) /\ (n = 1 => i = 0)
        OBVIOUS
      <4> QED BY <1>1, <2>2, <4>1, <4>2, <4>3 DEF Operations
    <3> QED BY <3>1, ScriptIs DEF Get, Put, LoadM0, StoreM0, PC
  <2>4. Effects(i + 1) /\ (i + 1 = Len(Script[op]) /\ op \in Reads => data = Wanted(own[2])[op])
    BY <1>1, <2>1, <2>3 DEF Expected, Underway
  <2>5. CASE i + 1 < Len(Script[op])
    <3>1. hostPc' = "script" /\ i' = i + 1 /\ UNCHANGED <<answer, result>>
      BY <1>9, <2>5 DEF Stepped
    <3> QED BY <1>1, <2>1, <2>2, <2>4, <2>5, <3>1 DEF Expected, Quiet, Effects
  <2>6. CASE ~(i + 1 < Len(Script[op]))
    <3>1. /\ hostPc' = AfterScript /\ i' = Scratch[op] - 1 /\ result' = "ok" /\ i + 1 = Len(Script[op])
          /\ answer' = IF op \in Reads THEN data ELSE answer
      BY <1>9, <2>2, <2>6 DEF Stepped
    <3>2. Answered'
      BY <1>1, <2>1, <2>4, <3>1, LengthsAre DEF Answered, Effects, Memory, Operations, Reads
    <3>3. CASE Scratch[op] = 0
      <4>1. op = "readRegister" /\ m' = own /\ hostPc' = "release"
        <5>1. op = "readRegister" /\ hostPc' = "release"
          BY <1>1, <3>1, <3>3, LengthsAre DEF Operations, AfterScript
        <5>2. (i + 1) + 1 = 2
          BY <2>2, <3>1, <5>1, LengthsAre
        <5>3. m = Registers(own[1], own[2])["readRegister"][2]
          <6>1. m = Registers(own[1], own[2])[op][(i + 1) + 1]
            BY <2>4 DEF Effects
          <6> QED BY <5>1, <5>2, <6>1
        <5>4. m = <<own[1], own[2]>>
          BY <5>3, RegistersAre
        <5> QED BY <1>1, <2>1, <5>1, <5>4 DEF OwnInv
      <4> QED BY <1>1, <2>1, <3>1, <3>2, <4>1 DEF Expected, Quiet
    <3>4. CASE Scratch[op] # 0
      <4>1. op # "readRegister" /\ hostPc' = "restore" /\ Scratch[op] \in 1..2
        BY <2>2, <3>1, <3>4, LengthsAre DEF AfterScript
      <4>2. (PutBack(i))'
        <5>1. CASE op = "readSpecial"
          <6>1. i' = 0 /\ (i + 1) + 1 = 3
            BY <3>1, <5>1, LengthsAre
          <6>2. m = <<"pc", own[2]>>
            BY <2>4, <5>1, <6>1, RegistersAre DEF Effects
          <6> QED BY <1>1, <2>1, <6>1, <6>2 DEF PutBack, OwnInv
        <5>2. CASE op \in {"readWord", "writeWord"}
          <6>0. Scratch[op] = 2 /\ Len(Script[op]) = 3
            BY <5>2, LengthsAre
          <6>1. i' = 1 /\ (i + 1) + 1 = 4
            BY <3>1, <6>0
          <6>2. m = <<"word", "address">> \/ m = <<"value", "address">>
            BY <2>4, <5>2, <6>1, RegistersAre DEF Effects
          <6> QED BY <1>1, <2>1, <6>1, <6>2 DEF PutBack, OwnInv
        <5> QED BY <1>1, <4>1, <5>1, <5>2 DEF Operations
      <4> QED BY <1>1, <2>1, <2>2, <3>1, <3>2, <4>1, <4>2 DEF Expected, Quiet
    <3> QED BY <3>3, <3>4
  <2> QED BY <2>5, <2>6
<1>10. CASE SaveFails \/ StepFails \/ RestoreFails
  BY <1>10 DEF SaveFails, StepFails, RestoreFails, ResultWithRestore
<1>11. CASE Restore
  <2>1. /\ hostPc = "restore" /\ hostPc' = "restoring" /\ pending' = Get(i) /\ UNCHANGED <<m, sramWord, op, i, saved, answer, result>>
        /\ data' = IF saved[i + 1] = "-" THEN data ELSE saved[i + 1]
    BY <1>1, <1>11 DEF Restore, Inject, Expected, Quiet
  <2>2. Kept(own, saved, Scratch[op]) /\ i \in 0..(Scratch[op] - 1) /\ Scratch[op] \in 0..2
    BY <1>1, <2>1, ScratchIs DEF Expected
  <2>3. saved[i + 1] = own[i + 1] /\ own[i + 1] # "-"
    <3>1. CASE Scratch[op] = 1
      BY <1>1, <2>2, <3>1 DEF Kept, OwnInv, Values
    <3>2. CASE Scratch[op] = 2
      BY <1>1, <2>2, <3>2 DEF Kept, OwnInv, Values
    <3> QED BY <2>2, <3>1, <3>2
  <2> QED BY <1>1, <2>1, <2>3 DEF Expected, Underway, PutBack, Answered
<1>12. CASE Restored
  <2>1. /\ hostPc = "restoring" /\ pending = <<>> /\ ~flags
        /\ UNCHANGED <<m, sramWord, data, pending, flags, op, saved, answer, result>>
        /\ IF i > 0 THEN hostPc' = "restore" /\ i' = i - 1 ELSE hostPc' = "release" /\ i' = i
    BY <1>12 DEF Restored, Succeeded, Poll, tileVars
  <2>2. /\ Kept(own, saved, Scratch[op]) /\ i \in 0..(Scratch[op] - 1) /\ Scratch[op] \in 0..2 /\ result = "ok" /\ Answered
        /\ PutBack(i - 1)
    BY <1>1, <2>1, ScratchIs DEF Expected, Underway, Get
  <2>3. CASE i > 0
    BY <1>1, <2>1, <2>2, <2>3 DEF Expected, Quiet, Answered, PutBack
  <2>4. CASE i = 0
    <3>1. m = own
      BY <1>1, <2>2, <2>4 DEF PutBack, OwnInv
    <3> QED BY <1>1, <2>1, <2>2, <2>4, <3>1 DEF Expected, Quiet, Answered
  <2> QED BY <2>2, <2>3, <2>4
<1>13. CASE RestoreBreak
  <2>1. hostPc = "release" /\ hostPc' \in {"clear", "end"} /\ UNCHANGED <<m, sramWord, pending, op, answer, result>>
    BY <1>13 DEF RestoreBreak
  <2> QED BY <1>1, <2>1 DEF Expected, Quiet, Answered
<1> QED BY <1>2, <1>3, <1>4, <1>5, <1>6, <1>7, <1>8, <1>9, <1>10, <1>11, <1>12, <1>13 DEF DebugNext

LEMMA ErrorsStay == ASSUME IInv, [DebugNext]_debugVars, result = "error" PROVE result' = "error"
BY DEF IInv, TypeInv, ContextInv, Before, DebugNext, debugVars, Trap, Halt, Execute, ReadState, ReadBreak, SetBreak, SeeStopped,
       StopTimeout, Save, Saved, SaveFails, Step, Stepped, StepFails, Restore, Restored, RestoreFails,
       ResultWithRestore, RestoreBreak, ClearException, hostVars, HostGoes, Succeeded, Poll

LEMMA Invariance == DebugSpec => []IInv
<1>1. IInv /\ [DebugNext]_debugVars => IInv'
  <2> SUFFICES ASSUME IInv, [DebugNext]_debugVars PROVE IInv'
    OBVIOUS
  <2>1. TypeInv' /\ ContextInv'
    BY TypesKept, ContextKept DEF IInv
  <2>2. ASSUME result' # "error" PROVE OwnInv' /\ (leftover' => Carried') /\ (~leftover' => Expected')
    BY <2>2, ErrorsStay, LeftoverExecuted, HostCarried, ExecuteExpected, HostExpected
  <2> QED BY <2>1, <2>2 DEF IInv
<1> QED BY <1>1, InitExpected, PTL DEF DebugSpec

-----------------------------------------------------------------------------
(* Theorems *)

\* An operation of with_tile_context() that reports success has given the
\* context its own m0 and m1 back, and answered with what the tile held.
THEOREM SuccessLeavesNoTrace == DebugSpec => []SuccessIsTransparent
<1>1. IInv => SuccessIsTransparent
  <2> SUFFICES ASSUME IInv, DebugDone, result = "ok" PROVE SuccessIsTransparent
    BY DEF SuccessIsTransparent
  <2>1. ~leftover /\ Expected
    BY DEF IInv, Carried, DebugDone, Before
  <2>2. Quiet /\ m = own /\ Answered
    BY <2>1 DEF Expected, DebugDone, After
  <2>3. op \in Operations
    BY DEF IInv, TypeInv
  <2>4. /\ op = "readWord" => answer = "word"
        /\ op = "writeWord" => sramWord = "value"
        /\ op = "readSpecial" => answer = "pc"
        /\ op = "readRegister" => answer = own[2]
    BY <2>2, WantedIs DEF Answered
  <2> QED
    BY <2>2, <2>3, <2>4 DEF SuccessIsTransparent, Operations, Quiet
<1> QED BY <1>1, Invariance, PTL

\* with_tile_context() puts RUN_BREAK back and resumes what it stopped, on
\* every error too, and no context runs on with the debugger's values in its
\* registers unless an error tells of it.
THEOREM ContextsAreReleased == DebugSpec => []ReleasesTheContext
<1>1. IInv => ReleasesTheContext
  BY DEF IInv, TypeInv, ContextInv, Carried, Expected, Untouched, Before, Working, After, ReleasesTheContext, DebugDone
<1> QED BY <1>1, Invariance, PTL

\* No step of an operation on a context found excepted resumes it.
THEOREM FaultsAreKept == DebugSpec => FaultsStay
<1>1. IInv /\ IInv' /\ [DebugNext]_debugVars => [initial = Excepted /\ hostPc # "start" => state' = state]_debugVars
  <2> SUFFICES ASSUME IInv, DebugNext, initial = Excepted, hostPc # "start" PROVE state' = state
    OBVIOUS
  <2>1. state = Excepted /\ hostPc # "clear"
    BY DEF IInv, ContextInv, AlreadyStopped, Running, Stopped, Excepted
  <2> QED BY <2>1 DEF DebugNext, Trap, Halt, Execute, ReadState, ReadBreak, SetBreak, SeeStopped, StopTimeout, Save, Saved,
       SaveFails, Step, Stepped, StepFails, Restore, Restored, RestoreFails, RestoreBreak, ClearException, Inject,
       tileVars, HostGoes, Running, Excepted
<1> QED BY <1>1, Invariance, PTL DEF DebugSpec, FaultsStay

=============================================================================
