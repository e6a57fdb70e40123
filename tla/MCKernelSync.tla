---------------------------- MODULE MCKernelSync ----------------------------
(***************************************************************************)
(* A kernel semaphore and the pool of guest threads, side by side: they    *)
(* share no state, so every behaviour is one of a single component, which  *)
(* subject names, and the other keeps its initial state.                   *)
(*                                                                         *)
(* Three threads meet at the semaphore: low is served last, the others in  *)
(* order of arrival.  Two callers create three threads in two slots, with  *)
(* room for one guest stack.                                               *)
(***************************************************************************)
EXTENDS KernelSemaphore, GuestThreads

CONSTANTS high1, high2, low

ThreeThreads == {high1, high2, low}
ThreePriorities == [t \in ThreeThreads |-> IF t = low THEN 700 ELSE 256]
SomeCounts == {-1, 1}

VARIABLE subject

(* What the proofs about the pool assume.                                  *)
ASSUME PoolAssumption

bothVars == <<subject, vars, poolVars>>

BothInit == subject \in {"semaphore", "threads"} /\ Init /\ PoolInit

BothNext ==
    /\ UNCHANGED subject
    /\ \/ subject = "semaphore" /\ Next /\ UNCHANGED poolVars
       \/ subject = "threads" /\ PoolNext /\ UNCHANGED vars

BothSpec == BothInit /\ [][BothNext]_bothVars /\ Fairness /\ PoolFairness
=============================================================================
