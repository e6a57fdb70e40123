---------------------------- MODULE PthreadMutex ----------------------------
(***************************************************************************)
(* A guest mutex and a condition variable used with it (kernel/pthread.cpp:*)
(* PthreadMutexPrivate, PthreadCondPrivate).                               *)
(*                                                                         *)
(* Neither is the host's: a mutex is an owner and a count behind a host    *)
(* mutex m, a condition variable a list of waiters and two sequence        *)
(* numbers behind another.  A critical section is one step.  Every blocked *)
(* thread polls (SIGNAL_APC_POLL_MICROS), so it needs no notification to   *)
(* look again; a call that fails and changes nothing is no step.           *)
(***************************************************************************)
EXTENDS Naturals, FiniteSets, Sequences, SequencesExt

CONSTANTS
    MutexThreads,
    NoOwner,      \* the owner of a free mutex
    Types,        \* of PthreadMutexattrSettype: "recursive", "normal"
    MaxCount,     \* UINT32_MAX
    MaxWakes      \* bound on the sequence numbers

MutexAssumption == NoOwner \notin MutexThreads /\ MaxCount \in Nat \ {0} /\ MaxWakes \in Nat

VARIABLES
    type, owner, count,   \* the mutex
    sequence, cv_waiters, \* the condition variable
    cond_sequence,        \* per thread: signals that chose it
    mx_pc,                \* per thread
    mx_wait,              \* per thread: the locals of the call it is in
    mx_expired,           \* threads whose deadline has passed
    depth,                \* history, per thread: locks it got and has not undone
    granted               \* history: threads a signal or broadcast has released

mutex == <<type, owner, count>>
cond  == <<sequence, cv_waiters, cond_sequence>>
mutexVars == <<mutex, cond, mx_pc, mx_wait, mx_expired, depth, granted>>

Idle == [timed |-> FALSE, sequence |-> 0, thread_sequence |-> 0, recurse |-> 0,
         result |-> "Ok"]

MutexGoto(t, label) == mx_pc' = [mx_pc EXCEPT ![t] = label]

MutexReturn(t) ==
    /\ MutexGoto(t, "idle")
    /\ mx_wait' = [mx_wait EXCEPT ![t] = Idle]
    /\ mx_expired' = mx_expired \ {t}

-----------------------------------------------------------------------------
(* NativeMutexLock and NativeMutexTrylock; Trylock is a lock with the      *)
(* deadline already passed.                                                *)

Take(t, n) ==
    /\ owner' = t /\ count' = n
    /\ UNCHANGED type

LockFree(t) ==
    /\ mx_pc[t] = "idle" /\ owner = NoOwner
    /\ Take(t, 1)
    /\ depth' = [depth EXCEPT ![t] = 1]
    /\ UNCHANGED <<cond, mx_pc, mx_wait, mx_expired, granted>>

LockAgain(t) ==
    /\ mx_pc[t] = "idle" /\ owner = t /\ type = "recursive" /\ count < MaxCount
    /\ count' = count + 1
    /\ depth' = [depth EXCEPT ![t] = @ + 1]
    /\ UNCHANGED <<type, owner, cond, mx_pc, mx_wait, mx_expired, granted>>

(* A thread that owns a mutex that is not recursive waits for its deadline.*)
LockBlocks(t) ==
    /\ mx_pc[t] = "idle" /\ owner # NoOwner
    /\ \E timed \in BOOLEAN :
          /\ owner = t => (type # "recursive" /\ timed)
          /\ mx_wait' = [mx_wait EXCEPT ![t].timed = timed]
    /\ MutexGoto(t, IF owner = t THEN "self" ELSE "lock")
    /\ UNCHANGED <<mutex, cond, mx_expired, depth, granted>>

LockAcquires(t) ==
    /\ mx_pc[t] = "lock" /\ owner = NoOwner
    /\ Take(t, 1)
    /\ depth' = [depth EXCEPT ![t] = 1]
    /\ MutexReturn(t)
    /\ UNCHANGED <<cond, granted>>

MutexTimesOut(t) ==
    /\ mx_pc[t] \in {"lock", "self"} /\ owner # NoOwner /\ t \in mx_expired
    /\ MutexReturn(t)
    /\ UNCHANGED <<mutex, cond, depth, granted>>

MutexUnlock(t) ==
    /\ mx_pc[t] = "idle" /\ owner = t
    /\ IF type = "recursive" /\ count > 1 THEN count' = count - 1 /\ UNCHANGED owner
       ELSE owner' = NoOwner /\ count' = 0
    /\ depth' = [depth EXCEPT ![t] = @ - 1]
    /\ UNCHANGED <<type, cond, mx_pc, mx_wait, mx_expired, granted>>

-----------------------------------------------------------------------------
(* PthreadCondWait, PthreadCondTimedwait, PthreadCondTimedwaitAbs.         *)

Ready(t) == \/ sequence # mx_wait[t].sequence
            \/ cond_sequence[t] # mx_wait[t].thread_sequence

(* Mutant: the mutex is released before the thread is on the list.         *)
CondWaitUnlisted(t, timed) ==
    /\ mx_pc[t] = "idle" /\ owner = t
    /\ mx_wait' = [mx_wait EXCEPT ![t] = [timed |-> timed, sequence |-> sequence,
                                    thread_sequence |-> cond_sequence[t],
                                    recurse |-> count, result |-> "Ok"]]
    /\ owner' = NoOwner /\ count' = 0
    /\ MutexGoto(t, "waiting")
    /\ UNCHANGED <<type, cond, mx_expired, depth, granted>>

(* The thread joins the list and gives up the mutex, all of it, under m of *)
(* the condition variable.                                                 *)
CondWait(t, timed) ==
    /\ mx_pc[t] = "idle" /\ owner = t
    /\ cv_waiters' = Append(cv_waiters, t)
    /\ mx_wait' = [mx_wait EXCEPT ![t] = [timed |-> timed, sequence |-> sequence,
                                    thread_sequence |-> cond_sequence[t],
                                    recurse |-> count, result |-> "Ok"]]
    /\ owner' = NoOwner /\ count' = 0
    /\ MutexGoto(t, "waiting")
    /\ UNCHANGED <<type, sequence, cond_sequence, mx_expired, depth, granted>>

(* A timeout of zero: the list is left before m is released.               *)
CondPoll(t) ==
    /\ mx_pc[t] = "idle" /\ owner = t
    /\ mx_wait' = [mx_wait EXCEPT ![t].recurse = count, ![t].result = "TimedOut"]
    /\ owner' = NoOwner /\ count' = 0
    /\ MutexGoto(t, "relock")
    /\ UNCHANGED <<type, cond, mx_expired, depth, granted>>

(* Mutant: the deadline decides the result.                                *)
LeaveByDeadline(t) ==
    /\ mx_wait' = [mx_wait EXCEPT ![t].result = IF t \in mx_expired THEN "TimedOut" ELSE "Ok"]
    /\ cv_waiters' = RemoveFirst(cv_waiters, t)
    /\ MutexGoto(t, "relock")

(* CondRemoveWaiter; ready() decides the result, whatever the deadline.    *)
Leave(t) ==
    /\ mx_wait' = [mx_wait EXCEPT ![t].result = IF Ready(t) THEN "Ok" ELSE "TimedOut"]
    /\ cv_waiters' = RemoveFirst(cv_waiters, t)
    /\ MutexGoto(t, "relock")

CondReturns(t) ==
    /\ mx_pc[t] = "waiting" /\ (Ready(t) \/ t \in mx_expired)
    /\ Leave(t)
    /\ UNCHANGED <<mutex, sequence, cond_sequence, mx_expired, depth, granted>>

(* Mutant: the lock is taken once, however often it was held.              *)
RelockOnce(t) ==
    /\ mx_pc[t] = "relock" /\ owner = NoOwner
    /\ Take(t, 1)
    /\ granted' = granted \ {t}
    /\ MutexReturn(t)
    /\ UNCHANGED <<cond, depth>>

(* NativeMutexLockRecurse.                                                 *)
Relock(t) ==
    /\ mx_pc[t] = "relock" /\ owner = NoOwner
    /\ Take(t, mx_wait[t].recurse)
    /\ granted' = granted \ {t}
    /\ MutexReturn(t)
    /\ UNCHANGED <<cond, depth>>

MutexExpire(t) ==
    /\ mx_pc[t] \in {"lock", "self", "waiting"} /\ mx_wait[t].timed /\ t \notin mx_expired
    /\ mx_expired' = mx_expired \cup {t}
    /\ UNCHANGED <<mutex, cond, mx_pc, mx_wait, depth, granted>>

-----------------------------------------------------------------------------
(* CondWakeWaiter, for PthreadCondSignal (the first) and Signalto.         *)
CondWakeWaiter(t) ==
    /\ t \in Range(cv_waiters) /\ cond_sequence[t] < MaxWakes
    /\ cv_waiters' = RemoveFirst(cv_waiters, t)
    /\ cond_sequence' = [cond_sequence EXCEPT ![t] = @ + 1]
    /\ granted' = granted \cup {t}
    /\ UNCHANGED <<mutex, sequence, mx_pc, mx_wait, mx_expired, depth>>

CondSignal == cv_waiters # <<>> /\ CondWakeWaiter(Head(cv_waiters))

CondSignalto == \E t \in MutexThreads : CondWakeWaiter(t)

CondBroadcast ==
    /\ cv_waiters # <<>> /\ sequence < MaxWakes
    /\ sequence' = sequence + 1
    /\ cv_waiters' = <<>>
    /\ granted' = granted \cup Range(cv_waiters)
    /\ UNCHANGED <<mutex, cond_sequence, mx_pc, mx_wait, mx_expired, depth>>

-----------------------------------------------------------------------------
MutexInit ==
    /\ type \in Types /\ owner = NoOwner /\ count = 0
    /\ sequence = 0 /\ cv_waiters = <<>> /\ cond_sequence = [t \in MutexThreads |-> 0]
    /\ mx_pc = [t \in MutexThreads |-> "idle"] /\ mx_wait = [t \in MutexThreads |-> Idle]
    /\ mx_expired = {} /\ granted = {} /\ depth = [t \in MutexThreads |-> 0]

MutexCalls(t) ==
    \/ LockFree(t) \/ LockAgain(t) \/ LockBlocks(t) \/ MutexUnlock(t)
    \/ (\E timed \in BOOLEAN : CondWait(t, timed)) \/ CondPoll(t)

MutexSteps(t) == LockAcquires(t) \/ MutexTimesOut(t) \/ CondReturns(t) \/ Relock(t)

MutexNext ==
    \/ \E t \in MutexThreads : MutexCalls(t) \/ MutexSteps(t) \/ MutexExpire(t)
    \/ CondSignal \/ CondSignalto \/ CondBroadcast

MutexSpec == MutexInit /\ [][MutexNext]_mutexVars

-----------------------------------------------------------------------------
(* The state has the types of the two structures' members.                 *)
MutexTypeOK ==
    /\ type \in Types /\ owner \in MutexThreads \cup {NoOwner} /\ count \in 0..MaxCount
    /\ sequence \in 0..MaxWakes /\ cv_waiters \in Seq(MutexThreads)
    /\ cond_sequence \in [MutexThreads -> 0..MaxWakes]
    /\ mx_pc \in [MutexThreads -> {"idle", "lock", "self", "waiting", "relock"}]
    /\ mx_wait \in [MutexThreads -> [timed : BOOLEAN, sequence : Nat, thread_sequence : Nat,
                                     recurse : Nat, result : {"Ok", "TimedOut"}]]
    /\ mx_expired \subseteq MutexThreads /\ granted \subseteq MutexThreads
    /\ depth \in [MutexThreads -> Nat]

(* What the guest believes is what the mutex says: a thread that got the   *)
(* lock n times and undid none of it owns the mutex with count n, across   *)
(* waits too, and only a recursive mutex counts past one.                  *)
HoldersOwn ==
    /\ \A t \in MutexThreads :
          LET holds == depth[t] > 0 /\ mx_pc[t] \notin {"waiting", "relock"}
          IN  /\ holds <=> (owner = t)
              /\ holds => (count = depth[t])
    /\ type # "recursive" => count <= 1

(* A signal or broadcast is not lost on its way: the list holds exactly    *)
(* those that wait and were not released, so no signal goes to a thread    *)
(* that has left or has one already; whoever was released finds ready()    *)
(* true for as long as it waits, and the wait reports OK if and only if it *)
(* was released, whatever passes at the same moment.                       *)
SignalsAnswered ==
    /\ Range(cv_waiters) = {t \in MutexThreads : mx_pc[t] = "waiting" /\ t \notin granted}
    /\ IsInjective(cv_waiters)
    /\ \A t \in MutexThreads :
          /\ mx_pc[t] = "waiting" => (Ready(t) <=> t \in granted)
          /\ mx_pc[t] = "relock" => (mx_wait[t].result = "Ok" <=> t \in granted)
=============================================================================
