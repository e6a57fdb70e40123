---------------------------- MODULE PthreadRwlock ----------------------------
(***************************************************************************)
(* A guest read-write lock and pthread_once (kernel/pthread.cpp:           *)
(* PthreadRwlockPrivate, PthreadOnce).                                     *)
(*                                                                         *)
(* A critical section of the lock's m, or of g_pthread_once_mutex, is one  *)
(* step.  RwlockLockCooperative is a polling loop: its iterations are the  *)
(* steps Granted, Refused, Registers and TimesOut, and an iteration that   *)
(* changes nothing is no step, nor is a call that fails at once.           *)
(***************************************************************************)
EXTENDS Naturals, FiniteSets

CONSTANTS
    RwlockThreads,
    NoWriter,    \* no writer
    MaxReads     \* bound on the read locks one thread holds

RwlockAssumption == NoWriter \notin RwlockThreads /\ IsFiniteSet(RwlockThreads)

VARIABLES
    writer, readers, reader_count, waiting_writers,   \* PthreadRwlockPrivate
    rw_pc,          \* per thread
    lock,           \* per thread: the kind of lock it is after, and its timeout
    rw_registered,  \* threads with writer_wait_registered
    rw_expired,     \* threads whose deadline has passed
    state,          \* PthreadOnce::state
    runs,           \* history: times init_routine has been entered
    initialised     \* history: init_routine has returned

rwlock == <<writer, readers, reader_count, waiting_writers>>
once   == <<state, runs, initialised>>
rwlockCallers == <<rw_pc, lock, rw_registered, rw_expired>>
rwlockVars == <<rwlock, once, rwlockCallers>>

NoLock == [write |-> FALSE, timed |-> FALSE]

RwlockGoto(t, label) == rw_pc' = [rw_pc EXCEPT ![t] = label]

RwlockReturn(t) ==
    /\ RwlockGoto(t, "idle")
    /\ lock' = [lock EXCEPT ![t] = NoLock]
    /\ rw_expired' = rw_expired \ {t}

-----------------------------------------------------------------------------
(* Mutant: readers go first.                                               *)
MayReadPastWriters(t) == writer = t \/ writer = NoWriter

(* A read lock is granted to the writer itself, and to others while nobody *)
(* writes and, unless they read already, no writer waits.                  *)
MayRead(t) ==
    \/ writer = t
    \/ writer = NoWriter /\ (waiting_writers = 0 \/ readers[t] > 0)

(* Mutant: a writer does not look at the readers.                          *)
MayWriteAmongReaders(t) == writer = NoWriter

MayWrite(t) == writer = NoWriter /\ reader_count = 0

WouldDeadlock(t) == writer = t \/ readers[t] > 0

RwlockAddReader(t) ==
    /\ readers' = [readers EXCEPT ![t] = @ + 1]
    /\ reader_count' = reader_count + 1
    /\ UNCHANGED <<writer, waiting_writers>>

(* unregister_writer_wait.                                                 *)
UnregisterWriter(t) ==
    /\ waiting_writers' = IF t \in rw_registered THEN waiting_writers - 1 ELSE waiting_writers
    /\ rw_registered' = rw_registered \ {t}

(* PthreadRwlockTryrdlock, Trywrlock.                                      *)
TryRead(t) ==
    /\ rw_pc[t] = "idle" /\ readers[t] < MaxReads /\ MayRead(t)
    /\ RwlockAddReader(t)
    /\ UNCHANGED <<rwlockCallers, once>>

TryWrite(t) ==
    /\ rw_pc[t] = "idle" /\ ~WouldDeadlock(t) /\ MayWrite(t)
    /\ writer' = t
    /\ UNCHANGED <<readers, reader_count, waiting_writers, rwlockCallers, once>>

(* PthreadRwlockRdlock, Wrlock, Timedrdlock, Timedwrlock.                  *)
Lock(t) ==
    /\ rw_pc[t] = "idle"
    /\ \E kind \in [write : BOOLEAN, timed : BOOLEAN] :
          /\ kind.write \/ readers[t] < MaxReads
          /\ lock' = [lock EXCEPT ![t] = kind]
    /\ RwlockGoto(t, "lock")
    /\ UNCHANGED <<rwlock, rw_registered, rw_expired, once>>

ReadGranted(t) ==
    /\ rw_pc[t] = "lock" /\ ~lock[t].write /\ MayRead(t)
    /\ RwlockAddReader(t)
    /\ RwlockReturn(t)
    /\ UNCHANGED <<rw_registered, once>>

WriteGranted(t) ==
    /\ rw_pc[t] = "lock" /\ lock[t].write /\ ~WouldDeadlock(t) /\ MayWrite(t)
    /\ writer' = t
    /\ UnregisterWriter(t)
    /\ RwlockReturn(t)
    /\ UNCHANGED <<readers, reader_count, once>>

WriteRefused(t) ==
    /\ rw_pc[t] = "lock" /\ lock[t].write /\ WouldDeadlock(t)
    /\ UnregisterWriter(t)
    /\ RwlockReturn(t)
    /\ UNCHANGED <<writer, readers, reader_count, once>>

WriteRegisters(t) ==
    /\ rw_pc[t] = "lock" /\ lock[t].write /\ ~WouldDeadlock(t) /\ ~MayWrite(t)
    /\ t \notin rw_registered
    /\ waiting_writers' = waiting_writers + 1
    /\ rw_registered' = rw_registered \cup {t}
    /\ UNCHANGED <<writer, readers, reader_count, rw_pc, lock, rw_expired, once>>

(* Mutant: a writer that gives up stays registered.                        *)
RwlockTimesOutRegistered(t) ==
    /\ rw_pc[t] = "lock" /\ t \in rw_expired
    /\ IF lock[t].write THEN ~WouldDeadlock(t) /\ ~MayWrite(t) ELSE ~MayRead(t)
    /\ rw_registered' = rw_registered \ {t}
    /\ RwlockReturn(t)
    /\ UNCHANGED <<rwlock, once>>

RwlockTimesOut(t) ==
    /\ rw_pc[t] = "lock" /\ t \in rw_expired
    /\ IF lock[t].write THEN ~WouldDeadlock(t) /\ ~MayWrite(t) ELSE ~MayRead(t)
    /\ UnregisterWriter(t)
    /\ RwlockReturn(t)
    /\ UNCHANGED <<writer, readers, reader_count, once>>

RwlockExpire(t) ==
    /\ rw_pc[t] = "lock" /\ lock[t].timed /\ t \notin rw_expired
    /\ rw_expired' = rw_expired \cup {t}
    /\ UNCHANGED <<rwlock, rw_pc, lock, rw_registered, once>>

RwlockRemoveReader(t) ==
    /\ readers' = [readers EXCEPT ![t] = @ - 1]
    /\ reader_count' = reader_count - 1

(* PthreadRwlockUnlock: a read lock first, then the write lock.            *)
RwlockUnlock(t) ==
    /\ rw_pc[t] = "idle"
    /\ \/ readers[t] > 0 /\ RwlockRemoveReader(t) /\ UNCHANGED writer
       \/ /\ readers[t] = 0 /\ writer = t
          /\ writer' = NoWriter
          /\ UNCHANGED <<readers, reader_count>>
    /\ UNCHANGED <<waiting_writers, rwlockCallers, once>>

-----------------------------------------------------------------------------
(* pthread_once while the routine has not returned.                        *)
OnceEnter(t) ==
    /\ rw_pc[t] = "idle" /\ state \in {"NeedsInit", "InProgress", "Wait"}
    /\ IF state = "NeedsInit"
       THEN state' = "InProgress" /\ runs' = runs + 1 /\ RwlockGoto(t, "init")
       ELSE state' = "Wait" /\ RwlockGoto(t, "onceWait") /\ UNCHANGED runs
    /\ UNCHANGED <<rwlock, lock, rw_registered, rw_expired, initialised>>

(* Mutant: the state is published only if nobody has come to wait.         *)
InitRoutineUnpublished(t) ==
    /\ rw_pc[t] = "init"
    /\ state' = (IF state = "InProgress" THEN "DoneInit" ELSE state) /\ initialised' = TRUE
    /\ RwlockGoto(t, "onceDone")
    /\ UNCHANGED <<rwlock, lock, rw_registered, rw_expired, runs>>

InitRoutineReturns(t) ==
    /\ rw_pc[t] = "init"
    /\ state' = "DoneInit" /\ initialised' = TRUE
    /\ RwlockGoto(t, "onceDone")
    /\ UNCHANGED <<rwlock, lock, rw_registered, rw_expired, runs>>

OnceWakes(t) ==
    /\ rw_pc[t] = "onceWait" /\ state # "Wait"
    /\ RwlockGoto(t, "onceDone")
    /\ UNCHANGED <<rwlock, lock, rw_registered, rw_expired, once>>

OnceReturns(t) ==
    /\ rw_pc[t] = "onceDone"
    /\ RwlockGoto(t, "idle")
    /\ UNCHANGED <<rwlock, lock, rw_registered, rw_expired, once>>

-----------------------------------------------------------------------------
RwlockInit ==
    /\ writer = NoWriter /\ readers = [t \in RwlockThreads |-> 0] /\ reader_count = 0
    /\ waiting_writers = 0
    /\ rw_pc = [t \in RwlockThreads |-> "idle"] /\ lock = [t \in RwlockThreads |-> NoLock]
    /\ rw_registered = {} /\ rw_expired = {}
    /\ state = "NeedsInit" /\ runs = 0 /\ initialised = FALSE

RwlockCalls(t) == TryRead(t) \/ TryWrite(t) \/ Lock(t) \/ RwlockUnlock(t) \/ OnceEnter(t)

RwlockSteps(t) ==
    \/ ReadGranted(t) \/ WriteGranted(t) \/ WriteRefused(t) \/ WriteRegisters(t)
    \/ RwlockTimesOut(t) \/ InitRoutineReturns(t) \/ OnceWakes(t) \/ OnceReturns(t)

RwlockNext == \E t \in RwlockThreads : RwlockCalls(t) \/ RwlockSteps(t) \/ RwlockExpire(t)

RwlockSpec == RwlockInit /\ [][RwlockNext]_rwlockVars

-----------------------------------------------------------------------------
(* The state has the types of the structures' members.                     *)
RwlockTypeOK ==
    /\ writer \in RwlockThreads \cup {NoWriter} /\ readers \in [RwlockThreads -> Nat]
    /\ reader_count \in Nat /\ waiting_writers \in 0..Cardinality(RwlockThreads)
    /\ rw_pc \in [RwlockThreads -> {"idle", "lock", "init", "onceWait", "onceDone"}]
    /\ lock \in [RwlockThreads -> [write : BOOLEAN, timed : BOOLEAN]]
    /\ rw_registered \subseteq RwlockThreads /\ rw_expired \subseteq RwlockThreads
    /\ state \in {"NeedsInit", "InProgress", "Wait", "DoneInit"}
    /\ runs \in Nat /\ initialised \in BOOLEAN

(* The read locks held: the i-th of thread t, for each of them.            *)
ReadLocks == UNION {{t} \X (1..readers[t]) : t \in RwlockThreads}

(* While a thread writes nobody else reads; the count of readers a writer  *)
(* looks at is the sum over the list; and waiting_writers counts those     *)
(* that really wait to write, whichever way they leave: one too many would *)
(* shut readers out for ever.                                              *)
WritersCounted ==
    /\ writer # NoWriter => \A t \in RwlockThreads : readers[t] > 0 => t = writer
    /\ reader_count = Cardinality(ReadLocks)
    /\ waiting_writers = Cardinality(rw_registered)
    /\ \A t \in rw_registered : rw_pc[t] = "lock" /\ lock[t].write

(* A thread that holds nothing never gets a read lock past a writer that   *)
(* has been waiting since before.                                          *)
WritersGoFirst ==
    [][\A t \in RwlockThreads : (readers[t] = 0 /\ readers'[t] > 0 /\ writer # t)
                             => rw_registered = {}]_rwlockVars

(* init_routine runs once, pthread_once returns after it has returned, and *)
(* whoever came to wait meanwhile is not left waiting.                     *)
OnceThenDone ==
    /\ runs <= 1
    /\ \A t \in RwlockThreads : /\ rw_pc[t] = "onceDone" => initialised
                                /\ (rw_pc[t] = "onceWait" /\ initialised) => state = "DoneInit"
=============================================================================
