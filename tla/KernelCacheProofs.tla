------------------------- MODULE KernelCacheProofs -------------------------
(***************************************************************************)
(* Theorems about KernelCache, for any set of processes, any number of     *)
(* compilations, tools that fail and processes that are killed.            *)
(*                                                                         *)
(* HandsOutWholeObjects is not inductive: nothing in it says why the       *)
(* process that has the lock is not rewriting the object another one was   *)
(* handed.  The reason is the order of the three files: the metadata is    *)
(* written last and never removed, a hit needs it, and a miss therefore    *)
(* happens only while it is absent - when nobody has been handed a path.   *)
(***************************************************************************)
EXTENDS KernelCache, TLAPS

\* The process between lock() and the return of compile() holds the lock.
Inside == {"check", "popc", "popcRuns", "extract", "extractRuns", "dump",
           "dumpRuns", "inspect"}
HoldsLock == \A p \in Procs : pc[p] \in Inside => holder = {p}

\* Metadata there is was extracted from whole files, and they stay whole.
MetadataIsLast ==
  file["metadata"] # "absent" => file["gp"] = "whole" /\ file["object"] = "whole"

\* What a process knows of the files at each point of compile().
Knows(p) ==
  /\ pc[p] \in {"popc", "popcRuns", "extract", "extractRuns", "dump"} =>
       file["metadata"] = "absent"
  /\ pc[p] \in {"extract", "extractRuns", "dump", "dumpRuns"} => file["gp"] = "whole"
  /\ pc[p] \in {"dump", "dumpRuns"} => file["object"] = "whole"
  /\ pc[p] = "dumpRuns" => file["metadata"] = "partial"
  /\ pc[p] \in {"inspect", "read"} => file["metadata"] # "absent"

IInv == TypeOK /\ HoldsLock /\ MetadataIsLast /\ \A p \in Procs : Knows(p)

-----------------------------------------------------------------------------

\* Before anybody compiles, nobody holds the lock and there is no file.
LEMMA InitIInv == Init => IInv
BY ProcsAssumption
   DEF Init, IInv, TypeOK, HoldsLock, Inside, MetadataIsLast, Knows, Files, Stages, Running

\* A hit hands out files that have metadata; a miss finds none.
LEMMA HitMeansMetadata == IInv => (Hit <=> file["metadata"] # "absent")
BY DEF IInv, TypeOK, MetadataIsLast, Hit, Inspects, Files

\* The steps of one process that start or end a tool, stage by stage.
LEMMA ToolSteps ==
  ASSUME IInv, NEW p \in Procs, NEW s \in Stages,
         StartTool(p, s) \/ FinishTool(p, s) \/ FailTool(p, s)
  PROVE  IInv'
<1> USE DEF IInv, TypeOK, HoldsLock, Inside, MetadataIsLast, Knows, Files,
            Running, Writes, After, At, Unlock
<1>1. CASE s = "popc"
  <2>1. CASE StartTool(p, s)  BY <1>1, <2>1 DEF StartTool, Opened, Stages
  <2>2. CASE FinishTool(p, s) BY <1>1, <2>2 DEF FinishTool, Stages
  <2>3. CASE FailTool(p, s)   BY <1>1, <2>3 DEF FailTool, Stages
  <2> QED BY <2>1, <2>2, <2>3
<1>2. CASE s = "extract"
  <2>1. CASE StartTool(p, s)  BY <1>2, <2>1 DEF StartTool, Opened, Stages
  <2>2. CASE FinishTool(p, s) BY <1>2, <2>2 DEF FinishTool, Stages
  <2>3. CASE FailTool(p, s)   BY <1>2, <2>3 DEF FailTool, Stages
  <2> QED BY <2>1, <2>2, <2>3
<1>3. CASE s = "dump"
  <2>1. CASE StartTool(p, s)  BY <1>3, <2>1 DEF StartTool, Opened, Stages
  <2>2. CASE FinishTool(p, s) BY <1>3, <2>2 DEF FinishTool, Stages
  <2>3. CASE FailTool(p, s)   BY <1>3, <2>3 DEF FailTool, Stages
  <2> QED BY <2>1, <2>2, <2>3
<1> QED BY <1>1, <1>2, <1>3 DEF Stages

\* Every step of the cache keeps the inductive invariant.
LEMMA NextIInv == IInv /\ [Next]_vars => IInv'
<1> SUFFICES ASSUME IInv, [Next]_vars PROVE IInv'
  OBVIOUS
<1> USE DEF IInv, TypeOK, HoldsLock, Inside, MetadataIsLast, Knows, Files, At, Unlock
<1>1. ASSUME NEW p \in Procs, Lock(p) PROVE IInv'
  BY <1>1, ProcsAssumption DEF Lock, Free, Stages, Running
<1>2. ASSUME NEW p \in Procs, ReturnCached(p) PROVE IInv'
  BY <1>2, HitMeansMetadata DEF ReturnCached, Stages, Running
<1>3. ASSUME NEW p \in Procs, Miss(p) PROVE IInv'
  BY <1>3, HitMeansMetadata DEF Miss, Stages, Running
<1>4. ASSUME NEW p \in Procs, ReturnNew(p) PROVE IInv'
  BY <1>4 DEF ReturnNew, Inspects, Stages, Running
<1>5. ASSUME NEW p \in Procs, ReadObject(p) PROVE IInv'
  BY <1>5 DEF ReadObject, Stages, Running
<1>6. ASSUME NEW p \in Procs, Crash(p) PROVE IInv'
  BY <1>6 DEF Crash, Stages, Running
<1>7. CASE UNCHANGED vars
  BY <1>7 DEF vars, Stages, Running
<1> QED BY <1>1, <1>2, <1>3, <1>4, <1>5, <1>6, <1>7, ToolSteps DEF Next, Done, ProcStep

\* The invariant holds in every reachable state.
THEOREM IInvHolds == Spec => []IInv
BY InitIInv, NextIInv, PTL DEF Spec

\* The stages, the files and the lock keep their types, and at most one
\* process is inside compile() at a time.
THEOREM CacheTypes == Spec => []TypeOK
<1>1. IInv => TypeOK BY DEF IInv
<1> QED BY IInvHolds, <1>1, PTL

\* The object a caller reads after compile() has unlocked is whole.
THEOREM ObjectsAreWhole == Spec => []HandsOutWholeObjects
<1>1. IInv => HandsOutWholeObjects
  BY DEF IInv, MetadataIsLast, Knows, HandsOutWholeObjects
<1> QED BY IInvHolds, <1>1, PTL

\* A step that changes a file is a step of a process that found no metadata.
LEMMA WritersMissed ==
  ASSUME IInv, [Next]_vars, Complete PROVE file' = file /\ runs' = runs
<1> USE DEF IInv, TypeOK, Knows, At, Complete, Files
<1>1. ASSUME NEW p \in Procs, NEW s \in Stages, StartTool(p, s) PROVE FALSE
  BY <1>1 DEF StartTool, Stages
<1>2. ASSUME NEW p \in Procs, NEW s \in Stages, FinishTool(p, s) PROVE FALSE
  BY <1>2 DEF FinishTool, Stages, Running
<1>3. ASSUME NEW p \in Procs,
             \/ Lock(p) \/ ReturnCached(p) \/ Miss(p) \/ ReturnNew(p)
             \/ ReadObject(p) \/ Crash(p) \/ \E s \in Stages : FailTool(p, s)
      PROVE file' = file /\ runs' = runs
  BY <1>3 DEF Lock, ReturnCached, Miss, ReturnNew, ReadObject, Crash, FailTool
<1> QED BY <1>1, <1>2, <1>3 DEF Next, ProcStep, Done, vars

\* "A completed artifact is immutable."
THEOREM ArtifactsAreImmutable == Spec => CompletedIsImmutable
<1>1. IInv /\ [Next]_vars => [Complete => file' = file]_vars
  BY WritersMissed
<1> QED BY IInvHolds, <1>1, PTL DEF Spec, CompletedIsImmutable

\* popc is never started for a complete artifact.
THEOREM CompilesOnce == Spec => NeverRecompiled
<1>1. IInv /\ [Next]_vars => [runs' # runs => ~Complete]_vars
  BY WritersMissed
<1> QED BY IInvHolds, <1>1, PTL DEF Spec, NeverRecompiled

=============================================================================
