----------------------------- MODULE HostCalls -----------------------------
(***************************************************************************)
(* What a HostSession promises its client: the n-th "run" returns the      *)
(* outputs the device computed from the n-th inputs, the runs return in    *)
(* order, there is one for each invocation the package was built for, and  *)
(* after a failed call there is no further answer.                         *)
(***************************************************************************)
EXTENDS Integers

CONSTANTS
  Runs,         \* how often the client calls "run"
  Invocations,  \* how many runs the package was built for
  Answer(_)     \* what the n-th run returns

VARIABLES
  results,      \* what each run returned, <<>> before it does
  failed        \* whether a call returned an error

callVars == <<results, failed>>

Init == results = [n \in 1..Runs |-> <<>>] /\ failed = FALSE

Unanswered(n) == results[n] = <<>>

Return(n) ==
  /\ ~failed /\ n <= Invocations
  /\ Unanswered(n) /\ \A m \in 1..(n - 1) : ~Unanswered(m)
  /\ results' = [results EXCEPT ![n] = Answer(n)]
  /\ UNCHANGED failed

Fail == ~failed /\ failed' = TRUE /\ UNCHANGED results

Next == Fail \/ \E n \in 1..Runs : Return(n)

Spec == Init /\ [][Next]_callVars

=============================================================================
