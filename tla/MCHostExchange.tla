-------------------------- MODULE MCHostExchange --------------------------
(* Instances of HostExchange for TLC. *)
EXTENDS HostExchange

CONSTANTS t1, t2, t3

\* t1 also raises the request of t2, t3 its own.
Xreq == [t \in Tiles |-> IF t = t2 THEN t1 ELSE t]

\* How many transfers each tile has: the longest queue makes the batches.
None    == [t \in Tiles |-> 0]
One     == [t \in Tiles |-> 1]
T2Only  == [t \in Tiles |-> IF t = t2 THEN 1 ELSE 0]
NotT2   == [t \in Tiles |-> IF t = t2 THEN 0 ELSE 1]
Uneven  == [t \in Tiles |-> IF t = t1 THEN 1 ELSE 2]
T1Skips == [t \in Tiles |-> IF t = t1 THEN 0 ELSE 2]

=============================================================================
