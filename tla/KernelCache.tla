---------------------------- MODULE KernelCache ----------------------------
(***************************************************************************)
(* The kernel cache of crates/ipu-elf: processes that compile the same     *)
(* kernel with Toolchain::compile share one directory, named by a digest   *)
(* of the source, the flags and the tools.  It holds three files, written  *)
(* in this order: the gp archive, the object and the metadata extracted    *)
(* from it.  A file lock serializes the processes; a process that is       *)
(* killed, with the tool it is running, loses the lock and leaves the      *)
(* files as they are.  The caller reads the object after compile() has     *)
(* returned and unlocked.                                                  *)
(***************************************************************************)
EXTENDS Naturals

CONSTANTS
  Procs,      \* the processes that compile the kernel
  Compiles,   \* how often each of them does
  MayFail,    \* whether a tool may exit with an error
  MayCrash    \* whether a process may be killed

ASSUME ProcsAssumption == Procs # {} /\ Compiles \in Nat
ASSUME KernelFlagAssumption == MayFail \in BOOLEAN /\ MayCrash \in BOOLEAN

Files == {"gp", "object", "metadata"}

VARIABLES
  pc,     \* where each process is in compile(), or in its caller
  left,   \* how many more times each process will compile
  holder, \* the processes that hold the lock, at most one of them
  file,   \* how much of each file there is
  runs    \* how often popc has been started

vars == <<pc, left, holder, file, runs>>

\* The stages of a miss: each runs one tool, which writes one file.
Stages  == {"popc", "extract", "dump"}
Running == [popc |-> "popcRuns", extract |-> "extractRuns", dump |-> "dumpRuns"]
Writes  == [popc |-> "gp", extract |-> "object", dump |-> "metadata"]
\* Mutant: the loop over the two dumps starts again.
AfterAgain == [popc |-> "extract", extract |-> "dump", dump |-> "extract"]
After   == [popc |-> "extract", extract |-> "dump", dump |-> "inspect"]

-----------------------------------------------------------------------------

At(p, from, to) == pc[p] = from /\ pc' = [pc EXCEPT ![p] = to]
Unlock(p) == holder' = holder \ {p}

\* inspect() parses the object, which fails on one that is cut short.
Inspects == file["object"] = "whole"

\* Mutant: an object that is there is a hit.
HitUninspected == file["object"] # "absent"

Hit == Inspects /\ \A f \in Files : file[f] # "absent"

\* Mutant: the misses of two processes are not serialized.
Unserialized == TRUE
Free == holder = {}

\* compile(): the artifact's paths are known before the lock is taken.
Lock(p) ==
  /\ left[p] > 0 /\ Free
  /\ At(p, "idle", "check") /\ left' = [left EXCEPT ![p] = @ - 1]
  /\ holder' = holder \cup {p}
  /\ UNCHANGED <<file, runs>>

ReturnCached(p) ==
  /\ Hit /\ At(p, "check", "read") /\ Unlock(p)
  /\ UNCHANGED <<left, file, runs>>

Miss(p) ==
  /\ ~Hit /\ At(p, "check", "popc")
  /\ UNCHANGED <<left, holder, file, runs>>

\* An output of pop-objdump is created empty; popc opens its own when it will.
Opened(s) == IF s = "popc" THEN {file["gp"], "partial"} ELSE {"partial"}

StartTool(p, s) ==
  /\ At(p, s, Running[s])
  /\ \E content \in Opened(s) : file' = [file EXCEPT ![Writes[s]] = content]
  /\ runs' = IF s = "popc" THEN runs + 1 ELSE runs
  /\ UNCHANGED <<left, holder>>

FinishTool(p, s) ==
  /\ At(p, Running[s], After[s])
  /\ file' = [file EXCEPT ![Writes[s]] = "whole"]
  /\ UNCHANGED <<left, holder, runs>>

\* run() returns an error: compile() leaves through ?, and unlocks.
FailTool(p, s) ==
  /\ MayFail
  /\ At(p, Running[s], "idle") /\ Unlock(p)
  /\ UNCHANGED <<left, file, runs>>

\* The new object is inspected before its path is returned.
ReturnNew(p) ==
  /\ At(p, "inspect", IF Inspects THEN "read" ELSE "idle") /\ Unlock(p)
  /\ UNCHANGED <<left, file, runs>>

\* The caller reads the object it was given the path of.
ReadObject(p) ==
  /\ At(p, "read", "idle")
  /\ UNCHANGED <<left, holder, file, runs>>

Crash(p) ==
  /\ MayCrash /\ pc[p] # "dead"
  /\ pc' = [pc EXCEPT ![p] = "dead"] /\ Unlock(p)
  /\ UNCHANGED <<left, file, runs>>

ProcStep(p) ==
  \/ Lock(p) \/ ReturnCached(p) \/ Miss(p) \/ ReturnNew(p) \/ ReadObject(p)
  \/ \E s \in Stages : StartTool(p, s) \/ FinishTool(p, s) \/ FailTool(p, s)

Init ==
  /\ pc = [p \in Procs |-> "idle"] /\ left = [p \in Procs |-> Compiles]
  /\ holder = {} /\ file = [f \in Files |-> "absent"] /\ runs = 0

\* Every process has made its compilations, or was killed.
Finished(p) == pc[p] = "dead" \/ (pc[p] = "idle" /\ left[p] = 0)
Done == (\A p \in Procs : Finished(p)) /\ UNCHANGED vars

Next == (\E p \in Procs : ProcStep(p) \/ Crash(p)) \/ Done
Spec == Init /\ [][Next]_vars

\* A process that is not killed runs on, its tools end, and the kernel gives
\* the lock to one that waits for it; nothing obliges a process to be killed.
FairSpec == Spec /\ \A p \in Procs : SF_vars(ProcStep(p))

-----------------------------------------------------------------------------
(* Properties *)

\* The cache keeps its types: the stages of compile(), the files, and a lock
\* that at most one process holds.
TypeOK ==
  /\ pc \in [Procs -> {"idle", "check", "inspect", "read", "dead"} \cup Stages
                      \cup {Running[s] : s \in Stages}]
  /\ left \in [Procs -> 0..Compiles]
  /\ holder \in {{}} \cup {{p} : p \in Procs}
  /\ file \in [Files -> {"absent", "partial", "whole"}] /\ runs \in Nat

\* The path compile() returns leads to a whole object for as long as the
\* caller may read it, although the lock is gone: no later miss, of whatever
\* process, is rewriting it.
HandsOutWholeObjects == \A p \in Procs : pc[p] = "read" => file["object"] = "whole"

\* "A completed artifact is immutable."
Complete == \A f \in Files : file[f] = "whole"
CompletedIsImmutable == [][Complete => file' = file]_vars

\* "Serialize cache misses": popc never runs for an artifact that is complete,
\* even when the process that completed it had not begun when this one started.
NeverRecompiled == [][runs' # runs => ~Complete]_vars

\* Every process that is not killed gets its turn, whoever fails or dies while
\* it holds the lock.
EveryoneReturns == <>(\A p \in Procs : Finished(p))

\* What the comment on the lock says of all three files, of the metadata:
\* nobody is handed a partially generated one.
HandsOutWholeMetadata == \A p \in Procs : pc[p] = "read" => file["metadata"] = "whole"

=============================================================================
