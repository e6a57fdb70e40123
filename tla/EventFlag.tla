------------------------------ MODULE EventFlag ------------------------------
(***************************************************************************)
(* One kernel event flag (kernel/eventFlag.cpp, KernelEventFlagPrivate)    *)
(* behind its handle (kernel/handleRegistry.h).                            *)
(*                                                                         *)
(* A critical section of the mutex m is one step.  A waiting thread parks  *)
(* for at most 10 ms (waitDeadline.h) and then evaluates its condition     *)
(* again, so the loop of Wait is one repeated step, Evaluate, and signals  *)
(* only make it come sooner.                                               *)
(***************************************************************************)
EXTENDS Integers, FiniteSets

CONSTANTS
    FlagThreads,
    Bits,       \* the bits of the flag
    Masks,      \* arguments of Create, Set, Clear and Cancel
    Waits       \* arguments of Wait

Modes == [want : (SUBSET Bits) \ {{}}, mode : {"And", "Or"}, clear : {"None", "All", "Bits"},
          timeout : {"none", "finite", "zero"}]

ASSUME FlagAssumption ==
    /\ IsFiniteSet(FlagThreads)
    /\ Masks \subseteq SUBSET Bits /\ Waits \subseteq Modes

VARIABLES
    single,       \* at most one thread may wait; fixed when the flag is created
    registered,   \* the handle is in g_flags
    closed,
    status,
    bits,
    waiters,
    ef_pc,        \* per thread
    op,           \* per thread: the operation it is in
    expired,      \* threads whose deadline has passed
    owed          \* history: threads parked at the last Cancel, not yet returned

flag     == <<single, registered, closed, status, bits, waiters>>
callers  == <<ef_pc, op, expired>>
flagVars == <<flag, callers, owed>>

NoOperation == [name |-> "none"]
Operations ==
    {[name |-> "Wait", wait |-> w] : w \in Waits}
    \cup {[name |-> n, mask |-> m] : n \in {"Set", "Clear", "Cancel"}, m \in Masks}
    \cup {[name |-> "Delete"]}

Waiting(t) == op[t].name = "Wait"
Enters(t, name) == ef_pc[t] = "call" /\ op[t].name = name

Return(t) ==
    /\ ef_pc' = [ef_pc EXCEPT ![t] = "idle"]
    /\ op' = [op EXCEPT ![t] = NoOperation]
    /\ expired' = expired \ {t}

-----------------------------------------------------------------------------
(* HandleRegistry::Acquire; for Delete, HandleRegistry::Remove.            *)
Acquire(t) ==
    /\ ef_pc[t] = "idle" /\ registered
    /\ \E o \in Operations :
          /\ op' = [op EXCEPT ![t] = o]
          /\ registered' = (o.name # "Delete")
          /\ expired' = IF o.name = "Wait" /\ o.wait.timeout = "zero"
                        THEN expired \cup {t} ELSE expired
    /\ ef_pc' = [ef_pc EXCEPT ![t] = "call"]
    /\ UNCHANGED <<single, closed, status, bits, waiters, owed>>

(* The deadline of a timed wait passes.                                    *)
Expire(t) ==
    /\ Waiting(t) /\ op[t].wait.timeout = "finite" /\ t \notin expired
    /\ expired' = expired \cup {t}
    /\ UNCHANGED <<flag, ef_pc, op, owed>>

(* Mutant: the handle is gone but the object stays open.                   *)
CloseForgotten(t) ==
    /\ Enters(t, "Delete")
    /\ Return(t)
    /\ UNCHANGED <<flag, owed>>

CloseFlag(t) ==
    /\ Enters(t, "Delete")
    /\ closed' = TRUE
    /\ status' = IF closed THEN status ELSE "Deleted"
    /\ Return(t)
    /\ UNCHANGED <<single, registered, bits, waiters, owed>>

Set(t) ==
    /\ Enters(t, "Set")
    /\ IF closed THEN UNCHANGED <<bits, status>>
       ELSE bits' = bits \cup op[t].mask /\ status' = "Ok"
    /\ Return(t)
    /\ UNCHANGED <<single, registered, closed, waiters, owed>>

(* Clear keeps the bits of its mask.                                       *)
Clear(t) ==
    /\ Enters(t, "Clear")
    /\ bits' = IF closed THEN bits ELSE bits \cap op[t].mask
    /\ Return(t)
    /\ UNCHANGED <<single, registered, closed, status, waiters, owed>>

Cancel(t) ==
    /\ Enters(t, "Cancel")
    /\ IF closed THEN UNCHANGED <<bits, status, owed>>
       ELSE /\ bits' = op[t].mask
            /\ status' = "Canceled"
            /\ owed' = {u \in FlagThreads : ef_pc[u] = "parked"}
    /\ Return(t)
    /\ UNCHANGED <<single, registered, closed, waiters>>

(* Mutant: nobody asks whether a thread is waiting already.                *)
MayWaitTogether(t) == TRUE

(* single && waiters, looked at when Wait is entered.                      *)
MayWait(t) == ~(single /\ waiters # 0)

WaitRefused(t) ==
    /\ Enters(t, "Wait") /\ ~MayWait(t)
    /\ Return(t)
    /\ UNCHANGED <<flag, owed>>

(* Mutant: the condition is evaluated on entry only.                       *)
EvaluatesOnce(t) == Enters(t, "Wait") /\ MayWait(t)

Evaluates(t) == (Enters(t, "Wait") /\ MayWait(t)) \/ ef_pc[t] = "parked"

Match(t) ==
    LET w == op[t].wait
    IN  IF w.mode = "And" THEN w.want \subseteq bits ELSE w.want \cap bits # {}

(* --waiters after Park.                                                   *)
Unparked(t) == waiters - IF ef_pc[t] = "parked" THEN 1 ELSE 0

(* What a successful wait takes out of bits.                               *)
Cleared(w) ==
    CASE w.clear = "None" -> {}
      [] w.clear = "All"  -> bits
      [] w.clear = "Bits" -> w.want

WaitSucceeds(t) ==
    /\ Evaluates(t) /\ Match(t)
    /\ bits' = bits \ Cleared(op[t].wait)
    /\ waiters' = Unparked(t)
    /\ owed' = owed \ {t}
    /\ Return(t)
    /\ UNCHANGED <<single, registered, closed, status>>

(* The first thread to notice a cancellation takes it.                     *)
WaitCanceled(t) ==
    /\ Evaluates(t) /\ ~Match(t) /\ ~closed /\ status = "Canceled"
    /\ status' = "Ok"
    /\ waiters' = Unparked(t)
    /\ owed' = owed \ {t}
    /\ Return(t)
    /\ UNCHANGED <<single, registered, closed, bits>>

(* Mutant: the deadline is looked at on entry only.                        *)
ExpiredOnEntry(t) == t \in expired /\ ef_pc[t] = "call"

Expired(t) == t \in expired

(* Deleted, or timed out.                                                  *)
WaitEnds(t) ==
    /\ Evaluates(t) /\ ~Match(t)
    /\ closed \/ (status # "Canceled" /\ Expired(t))
    /\ waiters' = Unparked(t)
    /\ owed' = owed \ {t}
    /\ Return(t)
    /\ UNCHANGED <<single, registered, closed, status, bits>>

(* ++waiters and Park; a thread that was parked parks again.               *)
WaitParks(t) ==
    /\ Enters(t, "Wait") /\ MayWait(t) /\ ~Match(t)
    /\ ~closed /\ status # "Canceled" /\ ~Expired(t)
    /\ waiters' = waiters + 1
    /\ ef_pc' = [ef_pc EXCEPT ![t] = "parked"]
    /\ UNCHANGED <<single, registered, closed, status, bits, op, expired, owed>>

-----------------------------------------------------------------------------
FlagInit ==
    /\ single \in BOOLEAN /\ registered = TRUE /\ closed = FALSE
    /\ status = "Ok" /\ bits \in Masks /\ waiters = 0
    /\ ef_pc = [t \in FlagThreads |-> "idle"] /\ op = [t \in FlagThreads |-> NoOperation]
    /\ expired = {} /\ owed = {}

Steps(t) ==
    \/ CloseFlag(t) \/ Set(t) \/ Clear(t) \/ Cancel(t) \/ WaitRefused(t)
    \/ WaitSucceeds(t) \/ WaitCanceled(t) \/ WaitEnds(t) \/ WaitParks(t)

FlagNext == \E t \in FlagThreads : Acquire(t) \/ Expire(t) \/ Steps(t)

FlagSpec == FlagInit /\ [][FlagNext]_flagVars

(* Time passes, and a thread inside an operation keeps running.            *)
FlagFairness == \A t \in FlagThreads : WF_flagVars(Steps(t)) /\ WF_flagVars(Expire(t))
FairFlagSpec == FlagSpec /\ FlagFairness

-----------------------------------------------------------------------------
(* The state has the types of KernelEventFlagPrivate's members.            *)
FlagTypeOK ==
    /\ single \in BOOLEAN /\ registered \in BOOLEAN /\ closed \in BOOLEAN
    /\ status \in {"Ok", "Canceled", "Deleted"}
    /\ bits \subseteq Bits /\ waiters \in Nat
    /\ ef_pc \in [FlagThreads -> {"idle", "call", "parked"}]
    /\ op \in [FlagThreads -> Operations \cup {NoOperation}]
    /\ expired \subseteq FlagThreads /\ owed \subseteq FlagThreads

(* waiters is the number of threads inside Park, and a flag created for a  *)
(* single waiter never has two.                                            *)
WaitersCounted ==
    /\ waiters = Cardinality({t \in FlagThreads : ef_pc[t] = "parked"})
    /\ single => waiters <= 1

(* A waiter whose condition stays true returns.                            *)
NoMissedEvent ==
    \A t \in FlagThreads : []<>~(ef_pc[t] = "parked" /\ Match(t))

(* Once a deleted flag is closed, every thread inside one of its           *)
(* operations returns.                                                     *)
DeleteReleases ==
    \A t \in FlagThreads : (~registered /\ ef_pc[t] # "idle") ~> (ef_pc[t] = "idle")

(* A wait with a deadline returns.                                         *)
TimedWaitsReturn ==
    \A t \in FlagThreads :
        (ef_pc[t] = "parked" /\ op[t].wait.timeout = "finite") ~> (ef_pc[t] # "parked")

(* Waits on a deleted object, and waits with a deadline, end.              *)
WaitsEnd == DeleteReleases /\ TimedWaitsReturn

(* "wake waiters with defined results": the waiters a Cancel counted       *)
(* return.                                                                 *)
CancelReleases == \A t \in FlagThreads : (t \in owed) ~> (t \notin owed)
=============================================================================
