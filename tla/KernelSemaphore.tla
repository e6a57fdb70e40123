-------------------------- MODULE KernelSemaphore --------------------------
(***************************************************************************)
(* One kernel semaphore (kernel/semaphore.cpp, KernelSemaPrivate) behind   *)
(* its handle (kernel/handleRegistry.h).                                   *)
(*                                                                         *)
(* An operation first acquires the object from the registry, which pins    *)
(* it, and then takes m_mutex; KernelDeleteSema removes the handle and     *)
(* then closes the object, so operations that hold the object meet a       *)
(* closed one.  A critical section of m_mutex is one step.  A waiting      *)
(* thread looks at its own record at least every 10 ms (waitDeadline.h),   *)
(* so it needs no signal to notice a change.                               *)
(***************************************************************************)
EXTENDS Integers, Sequences, FiniteSetsExt, SequencesExt

CONSTANTS
    Threads,
    FifoOrder,    \* the attribute of KernelCreateSema
    InitCount,
    MaxCount,
    Priority,     \* a smaller number is served first
    Needs,        \* arguments of Wait
    Counts,       \* arguments of Signal and Cancel
    Timeouts      \* of Wait; "zero" is KernelPollSema

ASSUME CountAssumption ==
    /\ MaxCount \in Nat \ {0} /\ InitCount \in 0..MaxCount
    /\ Needs \subseteq Int /\ Counts \subseteq Int
ASSUME ThreadAssumption ==
    /\ FifoOrder \in BOOLEAN /\ Priority \in [Threads -> Nat]
    /\ Timeouts \subseteq {"none", "finite", "zero"}

VARIABLES
    registered,         \* the handle is in g_kernel_semas
    m_status,
    m_count,
    m_waiting_threads,
    waiter,             \* per thread: its WaitingThread
    pc,                 \* per thread
    op,                 \* per thread: the operation it is in
    expired,            \* threads whose deadline has passed
    balance             \* history: permits issued and not yet returned from Wait

object  == <<registered, m_status>>
callers == <<pc, op, expired>>
vars    == <<object, m_count, m_waiting_threads, waiter, callers, balance>>

Operations ==
    [name : {"Wait"}, arg : Needs, timeout : Timeouts]
    \cup [name : {"Signal", "Cancel"}, arg : Counts, timeout : {"none"}]
    \cup {[name |-> "Delete", arg |-> 0, timeout |-> "none"]}

NoOperation == [name |-> "none", arg |-> 0, timeout |-> "none"]

NoWaiter == [need |-> 0, result |-> "TimedOut", ready |-> FALSE]

Enters(t, name) == pc[t] = "call" /\ op[t].name = name

(* The operation returns and its locals are gone.                          *)
Return(t) ==
    /\ pc' = [pc EXCEPT ![t] = "idle"]
    /\ op' = [op EXCEPT ![t] = NoOperation]
    /\ expired' = expired \ {t}

-----------------------------------------------------------------------------
(* HandleRegistry::Acquire; for Delete, HandleRegistry::Remove.            *)
Acquire(t) ==
    /\ pc[t] = "idle" /\ registered
    /\ \E o \in Operations :
          /\ op' = [op EXCEPT ![t] = o]
          /\ registered' = (o.name # "Delete")
          /\ expired' = IF o.timeout = "zero" THEN expired \cup {t} ELSE expired
    /\ pc' = [pc EXCEPT ![t] = "call"]
    /\ UNCHANGED <<m_status, m_count, m_waiting_threads, waiter, balance>>

(* The deadline of a timed wait passes.                                    *)
Expire(t) ==
    /\ pc[t] \in {"call", "waiting"} /\ op[t].timeout = "finite" /\ t \notin expired
    /\ expired' = expired \cup {t}
    /\ UNCHANGED <<object, m_count, m_waiting_threads, waiter, pc, op, balance>>

NotReady == {t \in Range(m_waiting_threads) : ~waiter[t].ready}

(* Every waiter that is not ready gets the result of Cancel or Close.      *)
ReleaseAll(result) ==
    waiter' = [t \in Threads |->
                 IF t \in NotReady THEN [waiter[t] EXCEPT !.result = result, !.ready = TRUE]
                 ELSE waiter[t]]

(* Mutant: a closed semaphore leaves its waiters waiting.                  *)
CloseForgetsWaiters(t) ==
    /\ Enters(t, "Delete")
    /\ m_status' = "Deleted"
    /\ Return(t)
    /\ UNCHANGED <<registered, m_count, m_waiting_threads, waiter, balance>>

Close(t) ==
    /\ Enters(t, "Delete")
    /\ m_status' = "Deleted"
    /\ ReleaseAll("Deleted")
    /\ Return(t)
    /\ UNCHANGED <<registered, m_count, m_waiting_threads, balance>>

(* Signal and Cancel on a closed semaphore or with an invalid count.       *)
SignalRejected(t) ==
    /\ Enters(t, "Signal")
    /\ m_status = "Deleted" \/ op[t].arg <= 0 \/ op[t].arg > MaxCount - m_count
    /\ Return(t)
    /\ UNCHANGED <<object, m_count, m_waiting_threads, waiter, balance>>

CancelRejected(t) ==
    /\ Enters(t, "Cancel")
    /\ op[t].arg > MaxCount \/ m_status = "Deleted"
    /\ Return(t)
    /\ UNCHANGED <<object, m_count, m_waiting_threads, waiter, balance>>

Cancel(t) ==
    LET count == IF op[t].arg < 0 THEN InitCount ELSE op[t].arg
    IN  /\ Enters(t, "Cancel") /\ m_status = "Set" /\ op[t].arg <= MaxCount
        /\ m_count' = count
        /\ balance' = balance - m_count + count
        /\ ReleaseAll("Canceled")
        /\ Return(t)
        /\ UNCHANGED <<object, m_waiting_threads>>

(* Mutant: the loop ends at the first waiter it cannot serve.              *)
CountsLeftInLine(count) ==
    LET left[i \in 0..Len(m_waiting_threads)] ==
            IF i = 0 THEN count
            ELSE LET w == waiter[m_waiting_threads[i]]
                 IN  IF /\ ~w.ready /\ w.need <= left[i - 1]
                        /\ \A j \in 1..(i - 1) :
                               LET v == waiter[m_waiting_threads[j]]
                               IN  v.ready \/ v.need <= left[j - 1]
                     THEN left[i - 1] - w.need ELSE left[i - 1]
    IN  left

(* WakeWaiters: the count after each waiter in turn was looked at.         *)
CountsLeft(count) ==
    LET left[i \in 0..Len(m_waiting_threads)] ==
            IF i = 0 THEN count
            ELSE LET w == waiter[m_waiting_threads[i]]
                 IN  IF ~w.ready /\ w.need <= left[i - 1]
                     THEN left[i - 1] - w.need ELSE left[i - 1]
    IN  left

Signal(t) ==
    LET left    == CountsLeft(m_count + op[t].arg)
        granted == {m_waiting_threads[i] : i \in
                       {j \in DOMAIN m_waiting_threads : left[j] # left[j - 1]}}
    IN  /\ Enters(t, "Signal") /\ m_status = "Set"
        /\ op[t].arg > 0 /\ op[t].arg <= MaxCount - m_count
        /\ m_count' = left[Len(m_waiting_threads)]
        /\ waiter' = [u \in Threads |->
                        IF u \in granted THEN [waiter[u] EXCEPT !.result = "Ok", !.ready = TRUE]
                        ELSE waiter[u]]
        /\ balance' = balance + op[t].arg
        /\ Return(t)
        /\ UNCHANGED <<object, m_waiting_threads>>

ValidNeed(t) == op[t].arg >= 1 /\ op[t].arg <= MaxCount

(* Mutant: the count may go one below zero.                                *)
MayTakeOffByOne(t) == m_count + 1 >= op[t].arg

MayTake(t) == m_count >= op[t].arg

(* Wait on a closed semaphore or with an invalid count.                    *)
WaitRejected(t) ==
    /\ Enters(t, "Wait") /\ (~ValidNeed(t) \/ m_status = "Deleted")
    /\ Return(t)
    /\ UNCHANGED <<object, m_count, m_waiting_threads, waiter, balance>>

(* Wait takes the permits that are there, whoever is waiting.              *)
WaitTakes(t) ==
    /\ Enters(t, "Wait") /\ ValidNeed(t) /\ m_status = "Set" /\ MayTake(t)
    /\ m_count' = m_count - op[t].arg
    /\ balance' = balance - op[t].arg
    /\ Return(t)
    /\ UNCHANGED <<object, m_waiting_threads, waiter>>

(* Poll, or a deadline that has passed before the thread could queue.      *)
WaitTimesOutAtOnce(t) ==
    /\ Enters(t, "Wait") /\ ValidNeed(t) /\ m_status = "Set" /\ ~MayTake(t)
    /\ t \in expired
    /\ Return(t)
    /\ UNCHANGED <<object, m_count, m_waiting_threads, waiter, balance>>

(* Mutant: a new waiter goes in front of those of its priority and above.  *)
InsertInFront(t) == <<t>> \o m_waiting_threads

(* AddWaiter: at the end, or behind the waiters of its priority.           *)
AddWaiter(t) ==
    LET ahead == {i \in DOMAIN m_waiting_threads :
                     \A j \in 1..i : FifoOrder
                                     \/ Priority[m_waiting_threads[j]] <= Priority[t]}
    IN  InsertAt(m_waiting_threads, Cardinality(ahead) + 1, t)

WaitQueues(t) ==
    /\ Enters(t, "Wait") /\ ValidNeed(t) /\ m_status = "Set" /\ ~MayTake(t)
    /\ t \notin expired
    /\ m_waiting_threads' = AddWaiter(t)
    /\ waiter' = [waiter EXCEPT ![t] = [NoWaiter EXCEPT !.need = op[t].arg]]
    /\ pc' = [pc EXCEPT ![t] = "waiting"]
    /\ UNCHANGED <<object, m_count, op, expired, balance>>

RemoveWaiter(t) ==
    /\ m_waiting_threads' = RemoveFirst(m_waiting_threads, t)
    /\ waiter' = [waiter EXCEPT ![t] = NoWaiter]

(* Mutant: the deadline is looked at before the result.                    *)
MayTimeOutFirst(t) == t \in expired

(* Mutant: every 10 ms slice starts the deadline again.                    *)
MayTimeOutRestarted(t) == t \in expired /\ op[t].timeout = "zero"

MayTimeOut(t) == t \in expired /\ ~waiter[t].ready

WaitReturns(t) ==
    /\ pc[t] = "waiting" /\ waiter[t].ready
    /\ RemoveWaiter(t)
    /\ balance' = balance - (IF waiter[t].result = "Ok" THEN waiter[t].need ELSE 0)
    /\ Return(t)
    /\ UNCHANGED <<object, m_count>>

(* Mutant: the record is left behind.                                      *)
WaitTimesOutUnremoved(t) ==
    /\ pc[t] = "waiting" /\ MayTimeOut(t)
    /\ Return(t)
    /\ UNCHANGED <<object, m_count, m_waiting_threads, waiter, balance>>

WaitTimesOut(t) ==
    /\ pc[t] = "waiting" /\ MayTimeOut(t)
    /\ RemoveWaiter(t)
    /\ Return(t)
    /\ UNCHANGED <<object, m_count, balance>>

-----------------------------------------------------------------------------
Init ==
    /\ registered = TRUE /\ m_status = "Set" /\ m_count = InitCount
    /\ m_waiting_threads = <<>> /\ waiter = [t \in Threads |-> NoWaiter]
    /\ pc = [t \in Threads |-> "idle"] /\ expired = {}
    /\ op = [t \in Threads |-> NoOperation]
    /\ balance = InitCount

Steps(t) ==
    \/ Close(t) \/ Signal(t) \/ SignalRejected(t) \/ Cancel(t) \/ CancelRejected(t)
    \/ WaitRejected(t) \/ WaitTakes(t) \/ WaitTimesOutAtOnce(t) \/ WaitQueues(t)
    \/ WaitReturns(t) \/ WaitTimesOut(t)

Next == \E t \in Threads : Acquire(t) \/ Expire(t) \/ Steps(t)

Spec == Init /\ [][Next]_vars

(* Time passes, and a thread inside an operation keeps running.            *)
Fairness == \A t \in Threads : WF_vars(Steps(t)) /\ WF_vars(Expire(t))

FairSpec == Spec /\ Fairness

-----------------------------------------------------------------------------
(* The count stays between zero and the maximum, and the rest has the      *)
(* types of KernelSemaPrivate's members.                                   *)
TypeOK ==
    /\ registered \in BOOLEAN /\ m_status \in {"Set", "Deleted"}
    /\ m_count \in 0..MaxCount
    /\ m_waiting_threads \in Seq(Threads)
    /\ waiter \in [Threads -> [need : Int, ready : BOOLEAN,
                               result : {"Ok", "TimedOut", "Canceled", "Deleted"}]]
    /\ pc \in [Threads -> {"idle", "call", "waiting"}]
    /\ op \in [Threads -> Operations \cup {NoOperation}]
    /\ expired \subseteq Threads /\ balance \in Int

(* No waiter is left waiting for permits that are there, whatever mix of   *)
(* signals, cancellations, time-outs and barging calls led here.           *)
NoSatisfiableWaiter == \A t \in NotReady : waiter[t].need > m_count

(* Permits are neither lost nor made: each is in m_count or was granted to *)
(* a waiter that has still to return Ok, also when its deadline passes     *)
(* between the grant and its next look, or Cancel comes in between.        *)
PermitsConserved ==
    balance = m_count + MapThenSumSet(LAMBDA t : waiter[t].need,
                           {t \in Range(m_waiting_threads) : waiter[t].result = "Ok"})

(* A thread is in m_waiting_threads exactly while it is waiting: Close and *)
(* Cancel never meet a record whose thread has returned.                   *)
WaitersAreWaiting ==
    /\ Range(m_waiting_threads) = {t \in Threads : pc[t] = "waiting"}
    /\ IsInjective(m_waiting_threads)

(* Permits are conserved and every waiter that could have its own has it.  *)
PermitsReachWaiters ==
    TypeOK /\ NoSatisfiableWaiter /\ PermitsConserved /\ WaitersAreWaiting

(* Ahead of t in line: an earlier entry of m_waiting_threads is no excuse, *)
(* the order is what KernelCreateSema asked for.                           *)
Precedes(u, t) ==
    IF FifoOrder THEN \E i, j \in DOMAIN m_waiting_threads :
                         i < j /\ m_waiting_threads[i] = u /\ m_waiting_threads[j] = t
    ELSE Priority[u] < Priority[t]

(* Permits go to a thread only past waiters that need more than it does:   *)
(* in line order when WakeWaiters grants them, and to a thread that comes  *)
(* later only if it takes what no waiter could use.                        *)
NoOvertaking ==
    [][\A t, u \in Threads :
          /\ u \in NotReady /\ u \in NotReady'
          /\ \/ t \in NotReady /\ waiter'[t].ready /\ waiter'[t].result = "Ok"
                /\ Precedes(u, t)
             \/ WaitTakes(t)
          => waiter[u].need > op[t].arg]_vars

(* Deleting a semaphore releases every thread that waits on it, those      *)
(* included that had acquired the object before the handle was removed.    *)
DeleteReleases ==
    \A t \in Threads : (m_status = "Deleted" /\ pc[t] # "idle") ~> (pc[t] = "idle")

(* A wait with a deadline returns.                                         *)
TimedWaitsReturn ==
    \A t \in Threads : (pc[t] = "waiting" /\ op[t].timeout = "finite") ~> (pc[t] = "idle")

(* Waits on a deleted object, and waits with a deadline, end.              *)
WaitsEnd == DeleteReleases /\ TimedWaitsReturn
=============================================================================
