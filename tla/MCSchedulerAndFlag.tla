------------------------- MODULE MCSchedulerAndFlag -------------------------
(***************************************************************************)
(* The command scheduler and a kernel event flag, side by side: they share *)
(* no state, so every behaviour is one of a single component, which        *)
(* subject names, and the other keeps its initial state.                   *)
(***************************************************************************)
EXTENDS MCCommandScheduler, MCEventFlag

VARIABLE subject

bothVars == <<subject, vars, flagVars>>

BothInit ==
    /\ subject \in {"scheduler", "flag"}
    /\ Init /\ FlagInit
    /\ subject = "scheduler" => ~single /\ bits = {1}

BothNext ==
    /\ UNCHANGED subject
    /\ \/ subject = "scheduler" /\ Next /\ UNCHANGED flagVars
       \/ subject = "flag" /\ FlagNext /\ UNCHANGED vars

(* The fairness of both.  A flag that nobody uses has nothing to do, but   *)
(* the scheduler's threads are to rest while the flag is the subject.      *)
Scheduler(A) == subject = "scheduler" /\ A

BothFairness ==
    /\ WF_vars(Scheduler(DeviceRetire)) /\ WF_vars(Scheduler(OwnerSteps))
    /\ WF_vars(Scheduler(PrioSteps)) /\ \A t \in Threads : WF_vars(Scheduler(Condvar(t)))
    /\ FlagFairness

BothSpec == BothInit /\ [][BothNext]_bothVars /\ BothFairness
=============================================================================
