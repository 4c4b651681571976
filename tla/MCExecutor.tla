------------------------------- MODULE MCExecutor -------------------------------
(***************************************************************************)
(* Instances of Executor.  At t1 every diff of the addresses; at t2, which *)
(* is there to share the semaphore, a create and a delete.                 *)
(***************************************************************************)
EXTENDS Executor

CONSTANTS t1, t2, a

Diffs == [actual : (SUBSET IPs) \cup {None}, desired : SUBSET IPs]
Neighbours == {[actual |-> None, desired |-> {a}], [actual |-> {a}, desired |-> {}]}

TwoCalls == {call \in [Targets -> Diffs] : call[t2] \in Neighbours}
=================================================================================
