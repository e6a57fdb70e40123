-------------------------- MODULE GuestLocksProofs --------------------------
(***************************************************************************)
(* What guest threads block on, for every set of threads: the mutex with   *)
(* its condition variable, the read-write lock with pthread_once, the wait *)
(* on an address and the event flag.  The four share no state; the proofs  *)
(* of the locks share the lemmas about taking an element off a list.       *)
(*                                                                         *)
(* A guest mutex has the owner and the count its threads believe, and a    *)
(* condition variable loses no signal.  HoldersOwn is not inductive:       *)
(* between a wait and its relock the count lives in the waiter's recurse,  *)
(* which HeldAcrossWaits ties to the depth.  SignalsAnswered needs that    *)
(* the sequence numbers only grow past the ones a waiter has read, and     *)
(* that nobody is granted before it waits.                                 *)
(*                                                                         *)
(* The counts of the read-write lock are those of its holders and waiters, *)
(* writers go first, and pthread_once runs its routine once.  The lock and *)
(* pthread_once share only rw_pc; the inductive invariant is LockInv (the  *)
(* counts, and that finitely many read locks are held) and OnceInv (how    *)
(* the state of the control word, its history and the threads inside it    *)
(* belong together).                                                       *)
(*                                                                         *)
(* A wake on an address finds every thread that waits there and is lost on *)
(* none.  The list of an entry is the threads parked in it, each once      *)
(* (Listed), and an entry stays registered only as long as somebody inside *)
(* a wait will look at it again (Kept): that is what the second look of    *)
(* UnregisterPortableWaiter is for.  A wake is spent only on a thread      *)
(* whose wake_requested says so (Spent).                                   *)
(*                                                                         *)
(* An event flag's waiters counts the parked threads, and a single-waiter  *)
(* flag never has two, for every set of bits and arguments.  FlagTypeOK    *)
(* and WaitersCounted are inductive together: the count needs the domains  *)
(* of ef_pc and op, and the check on entry of Wait needs the count.        *)
(***************************************************************************)
EXTENDS PthreadMutex, PthreadRwlock, SyncOnAddress, EventFlag, SequenceTheorems,
        FiniteSetTheorems, TLAPS

(* std::find and erase, on a list without duplicates.                      *)
LEMMA RemoveAtIndex ==
    ASSUME NEW S, NEW s \in Seq(S), NEW k \in 1..Len(s)
    PROVE  /\ RemoveAt(s, k) \in Seq(S)
           /\ Len(RemoveAt(s, k)) = Len(s) - 1
           /\ \A i \in 1..(Len(s) - 1) :
                 RemoveAt(s, k)[i] = IF i < k THEN s[i] ELSE s[i + 1]
  <1>1. PICK n \in Nat : n = Len(s)
    BY LenProperties
  <1>2. k \in 1..n /\ \A i \in 1..n : s[i] \in S
    BY <1>1, ElementOfSeq
  <1> DEFINE low == SubSeq(s, 1, k - 1)
             high == SubSeq(s, k + 1, n)
  <1>3. /\ low \in Seq(S) /\ Len(low) = k - 1
        /\ \A i \in 1..(k - 1) : low[i] = s[i]
    <2>1. /\ low \in Seq(S) /\ Len(low) = IF 1 <= k - 1 THEN (k - 1) - 1 + 1 ELSE 0
          /\ \A i \in 1..((k - 1) - 1 + 1) : low[i] = s[1 + i - 1]
      <3>1. 1 \in Int /\ k - 1 \in Int /\ \A i \in 1..(k - 1) : s[i] \in S
        BY <1>2
      <3> QED
        BY <3>1, SubSeqProperties
    <2> HIDE DEF low
    <2>2. Len(low) = k - 1
      BY <1>2, <2>1
    <2>3. ASSUME NEW i \in 1..(k - 1) PROVE low[i] = s[i]
      <3>1. i \in 1..((k - 1) - 1 + 1) /\ 1 + i - 1 = i
        BY <1>2
      <3> QED
        BY <2>1, <3>1
    <2> QED
      BY <2>1, <2>2, <2>3
  <1>4. /\ high \in Seq(S) /\ Len(high) = n - k
        /\ \A i \in 1..(n - k) : high[i] = s[k + i]
    <2>1. /\ high \in Seq(S) /\ Len(high) = IF k + 1 <= n THEN n - (k + 1) + 1 ELSE 0
          /\ \A i \in 1..(n - (k + 1) + 1) : high[i] = s[(k + 1) + i - 1]
      <3>1. k + 1 \in Int /\ n \in Int /\ \A i \in (k + 1)..n : s[i] \in S
        BY <1>2
      <3> QED
        BY <3>1, SubSeqProperties
    <2> HIDE DEF high
    <2>2. Len(high) = n - k
      BY <1>2, <2>1
    <2>3. ASSUME NEW i \in 1..(n - k) PROVE high[i] = s[k + i]
      <3>1. i \in 1..(n - (k + 1) + 1) /\ (k + 1) + i - 1 = k + i
        BY <1>2
      <3> QED
        BY <2>1, <3>1
    <2> QED
      BY <2>1, <2>2, <2>3
  <1> HIDE DEF low, high
  <1> DEFINE r == low \o high
  <1>5. /\ r \in Seq(S) /\ Len(r) = Len(low) + Len(high)
        /\ \A i \in 1..(Len(low) + Len(high)) :
              r[i] = IF i <= Len(low) THEN low[i] ELSE high[i - Len(low)]
    BY <1>3, <1>4, ConcatProperties
  <1>6. r = RemoveAt(s, k)
    BY <1>1 DEF RemoveAt, low, high
  <1> HIDE DEF r
  <1>7. Len(r) = n - 1
    BY <1>2, <1>3, <1>4, <1>5
  <1>8. ASSUME NEW i \in 1..(n - 1) PROVE r[i] = IF i < k THEN s[i] ELSE s[i + 1]
    <2>1. /\ i \in 1..(Len(low) + Len(high))
          /\ i <= Len(low) <=> i < k
      BY <1>2, <1>3, <1>4
    <2>2. CASE i < k
      <3>1. i \in 1..(k - 1)
        BY <1>2, <2>2
      <3> QED
        BY <1>3, <1>5, <2>1, <2>2, <3>1
    <2>3. CASE ~(i < k)
      <3>1. i - (k - 1) \in 1..(n - k) /\ k + (i - (k - 1)) = i + 1
        BY <1>2, <2>3
      <3>2. r[i] = high[i - (k - 1)]
        BY <1>3, <1>5, <2>1, <2>3
      <3> QED
        BY <1>4, <2>3, <3>1, <3>2
    <2> QED
      BY <2>2, <2>3
  <1> QED
    BY <1>1, <1>5, <1>6, <1>7, <1>8

LEMMA RemoveFirstRange ==
    ASSUME NEW S, NEW s \in Seq(S), IsInjective(s), NEW e
    PROVE  /\ RemoveFirst(s, e) \in Seq(S)
           /\ IsInjective(RemoveFirst(s, e))
           /\ Range(RemoveFirst(s, e)) = Range(s) \ {e}
  <1>1. PICK n \in Nat : n = Len(s) /\ DOMAIN s = 1..n
    BY LenProperties
  <1>2. CASE \E i \in 1..n : s[i] = e
    <2>1. PICK k \in 1..n : s[k] = e
      BY <1>2
    <2>2. {i \in 1..n : s[i] = e} = {k}
      BY <1>1, <2>1 DEF IsInjective
    <2>3. Min({k}) = k
      BY <2>1 DEF Min
    <2> DEFINE r == RemoveAt(s, k)
    <2>4. RemoveFirst(s, e) = r
      BY <1>1, <2>1, <2>2, <2>3 DEF RemoveFirst, SelectInSeq
    <2>5. /\ r \in Seq(S) /\ DOMAIN r = 1..(n - 1)
          /\ \A i \in 1..(n - 1) : r[i] = IF i < k THEN s[i] ELSE s[i + 1]
      BY <1>1, RemoveAtIndex, LenProperties
    <2> HIDE DEF r
    <2>6. IsInjective(r)
      <3>1. ASSUME NEW i \in 1..(n - 1), NEW j \in 1..(n - 1), r[i] = r[j] PROVE i = j
        <4> DEFINE at(x) == IF x < k THEN x ELSE x + 1
        <4>1. at(i) \in 1..n /\ at(j) \in 1..n /\ r[i] = s[at(i)] /\ r[j] = s[at(j)]
          BY <2>1, <2>5
        <4>2. at(i) = at(j)
          BY <1>1, <3>1, <4>1 DEF IsInjective
        <4> QED
          BY <2>1, <4>2
      <3> QED
        BY <2>5, <3>1 DEF IsInjective
    <2>7. ASSUME NEW i \in 1..(n - 1) PROVE r[i] \in Range(s) /\ r[i] # e
      BY <1>1, <2>1, <2>5, <2>7 DEF Range, IsInjective
    <2>8. ASSUME NEW i \in 1..n, s[i] # e PROVE s[i] \in Range(r)
      <3>1. CASE i < k
        <4>1. i \in 1..(n - 1) /\ r[i] = s[i]
          BY <2>1, <2>5, <3>1
        <4> QED
          BY <2>5, <4>1 DEF Range
      <3>2. CASE i > k
        <4>1. i - 1 \in 1..(n - 1) /\ ~(i - 1 < k) /\ (i - 1) + 1 = i
          BY <2>1, <3>2
        <4>2. r[i - 1] = s[i]
          BY <2>5, <4>1
        <4> QED
          BY <2>5, <4>1, <4>2 DEF Range
      <3> QED
        BY <2>1, <2>8, <3>1, <3>2
    <2>9. Range(r) = Range(s) \ {e}
      <3>1. Range(r) = {r[i] : i \in 1..(n - 1)} /\ Range(s) = {s[i] : i \in 1..n}
        BY <1>1, <2>5 DEF Range
      <3> QED
        BY <2>7, <2>8, <3>1
    <2> QED
      BY <2>4, <2>5, <2>6, <2>9
  <1>3. CASE ~\E i \in 1..n : s[i] = e
    BY <1>1, <1>3 DEF RemoveFirst, Range
  <1> QED
    BY <1>2, <1>3

-----------------------------------------------------------------------------
(* The mutex and the condition variable.                                   *)

(* While a thread waits, what it holds is what it will take back.          *)
HeldAcrossWaits ==
    \A t \in MutexThreads : mx_pc[t] \in {"waiting", "relock"} =>
        /\ mx_wait[t].recurse = depth[t] /\ depth[t] \in 1..MaxCount
        /\ type # "recursive" => depth[t] = 1

(* A waiter's numbers are those the condition variable had when it came;   *)
(* only a thread inside a wait is granted.                                 *)
SignalsLater ==
    \A t \in MutexThreads :
        /\ mx_pc[t] = "waiting" => /\ mx_wait[t].sequence <= sequence
                                   /\ mx_wait[t].thread_sequence <= cond_sequence[t]
        /\ t \in granted => mx_pc[t] \in {"waiting", "relock"}

MutexInv  == HoldersOwn /\ HeldAcrossWaits
SignalInv == SignalsAnswered /\ SignalsLater

MutexIndInv == MutexTypeOK /\ MutexInv /\ SignalInv

MutexLabels == {"idle", "lock", "self", "waiting", "relock"}
WaitRecords  == [timed : BOOLEAN, sequence : Nat, thread_sequence : Nat, recurse : Nat,
           result : {"Ok", "TimedOut"}]

(* A call that returns leaves the other threads' calls alone.              *)
LEMMA MutexReturnTypes ==
    ASSUME MutexTypeOK, NEW t \in MutexThreads, MutexReturn(t)
    PROVE  /\ mx_pc' \in [MutexThreads -> MutexLabels] /\ mx_wait' \in [MutexThreads -> WaitRecords]
           /\ mx_expired' \subseteq MutexThreads
           /\ mx_pc'[t] = "idle"
           /\ \A u \in MutexThreads : u # t => mx_pc'[u] = mx_pc[u] /\ mx_wait'[u] = mx_wait[u]
  <1>1. Idle \in WaitRecords
    BY DEF Idle, WaitRecords
  <1> QED
    BY <1>1 DEF MutexReturn, MutexGoto, MutexTypeOK, MutexLabels, WaitRecords

(* A step that leaves the condition variable alone, of a thread that is    *)
(* not in a wait before or after.                                          *)
LEMMA SignalsUntouched ==
    ASSUME MutexTypeOK, SignalInv, UNCHANGED <<cond, granted>>, NEW t \in MutexThreads,
           mx_pc[t] \notin {"waiting", "relock"}, mx_pc'[t] \notin {"waiting", "relock"},
           \A u \in MutexThreads : u # t => mx_pc'[u] = mx_pc[u] /\ mx_wait'[u] = mx_wait[u]
    PROVE  SignalInv'
  <1>1. \A u \in MutexThreads :
         mx_pc'[u] \in {"waiting", "relock"} \/ mx_pc[u] \in {"waiting", "relock"}
                             => mx_pc'[u] = mx_pc[u] /\ mx_wait'[u] = mx_wait[u]
    OBVIOUS
  <1>2. {u \in MutexThreads : mx_pc'[u] = "waiting" /\ u \notin granted}
          = {u \in MutexThreads : mx_pc[u] = "waiting" /\ u \notin granted}
    BY <1>1
  <1>3. SignalsAnswered'
    BY <1>1, <1>2 DEF SignalInv, SignalsAnswered, Ready, cond
  <1>4. SignalsLater'
    BY <1>1 DEF SignalInv, SignalsLater, cond
  <1> QED
    BY <1>3, <1>4 DEF SignalInv

(* A step that leaves the mutex and what is held alone, of a thread that   *)
(* is not in a wait before or after.                                       *)
LEMMA MutexUntouched ==
    ASSUME MutexTypeOK, MutexInv, UNCHANGED <<mutex, depth>>, NEW t \in MutexThreads,
           mx_pc[t] \notin {"waiting", "relock"}, mx_pc'[t] \notin {"waiting", "relock"},
           \A u \in MutexThreads : u # t => mx_pc'[u] = mx_pc[u] /\ mx_wait'[u] = mx_wait[u]
    PROVE  MutexInv'
  <1>1. HoldersOwn'
    BY DEF MutexInv, HoldersOwn, mutex
  <1>2. HeldAcrossWaits'
    BY DEF MutexInv, HeldAcrossWaits, mutex
  <1> QED
    BY <1>1, <1>2 DEF MutexInv

(* A step that changes neither mx_pc nor wait nor the mutex.               *)
LEMMA CallersUntouched ==
    ASSUME MutexInv, UNCHANGED <<mutex, depth, mx_pc, mx_wait>>
    PROVE  MutexInv'
  BY DEF MutexInv, HoldersOwn, HeldAcrossWaits, mutex

(* Lock by a thread outside a wait, of a mutex that nobody owns.           *)
LEMMA TakeFree ==
    ASSUME MutexAssumption, MutexTypeOK, MutexInv, NEW t \in MutexThreads,
           owner = NoOwner, Take(t, 1),
           depth' = [depth EXCEPT ![t] = 1],
           mx_pc[t] \notin {"waiting", "relock"}, mx_pc'[t] \notin {"waiting", "relock"},
           \A u \in MutexThreads : u # t => mx_pc'[u] = mx_pc[u] /\ mx_wait'[u] = mx_wait[u]
    PROVE  MutexInv'
  <1>1. depth'[t] = 1 /\ \A u \in MutexThreads : u # t => depth'[u] = depth[u]
    BY DEF MutexTypeOK
  <1>2. HoldersOwn'
    BY <1>1 DEF Take, MutexTypeOK, MutexInv, HoldersOwn, MutexAssumption
  <1>3. HeldAcrossWaits'
    BY <1>1 DEF Take, MutexInv, HeldAcrossWaits
  <1> QED
    BY <1>2, <1>3 DEF MutexInv

(* The step into a wait gives up the mutex, all of it.                     *)
LEMMA GiveUp ==
    ASSUME MutexAssumption, MutexTypeOK, MutexInv, NEW t \in MutexThreads,
           owner = t, mx_pc[t] = "idle",
           owner' = NoOwner, count' = 0, UNCHANGED <<type, depth>>,
           mx_pc'[t] \in {"waiting", "relock"}, mx_wait'[t].recurse = count,
           \A u \in MutexThreads : u # t => mx_pc'[u] = mx_pc[u] /\ mx_wait'[u] = mx_wait[u]
    PROVE  MutexInv'
  <1>1. depth[t] = count /\ count \in 1..MaxCount /\ (type # "recursive" => count = 1)
    BY DEF MutexInv, HoldersOwn, MutexTypeOK, MutexAssumption
  <1>2. \A u \in MutexThreads : ~(depth'[u] > 0 /\ mx_pc'[u] \notin {"waiting", "relock"})
    BY DEF MutexInv, HoldersOwn
  <1>3. \A u \in MutexThreads : owner' # u
    BY DEF MutexAssumption
  <1>4. HoldersOwn'
    BY <1>2, <1>3 DEF HoldersOwn
  <1>5. HeldAcrossWaits'
    BY <1>1 DEF MutexInv, HeldAcrossWaits
  <1> QED
    BY <1>4, <1>5 DEF MutexInv

(* A step of the wait that is not its end.                                 *)
LEMMA StillWaiting ==
    ASSUME MutexTypeOK, MutexInv, NEW t \in MutexThreads, mx_pc[t] \in {"waiting", "relock"},
           mx_pc'[t] \in {"waiting", "relock"}, mx_wait'[t].recurse = mx_wait[t].recurse,
           UNCHANGED <<mutex, depth>>,
           \A u \in MutexThreads : u # t => mx_pc'[u] = mx_pc[u] /\ mx_wait'[u] = mx_wait[u]
    PROVE  MutexInv'
  <1>1. HoldersOwn'
    BY DEF MutexInv, HoldersOwn, mutex
  <1>2. HeldAcrossWaits'
    BY DEF MutexInv, HeldAcrossWaits, mutex
  <1> QED
    BY <1>1, <1>2 DEF MutexInv

-----------------------------------------------------------------------------
(* The mutex is free and nobody waits at first.                            *)
LEMMA MutexInitInvariant == MutexAssumption /\ MutexInit => MutexIndInv
  <1> SUFFICES ASSUME MutexAssumption, MutexInit PROVE MutexIndInv
    OBVIOUS
  <1>1. Idle \in WaitRecords
    BY DEF Idle, WaitRecords
  <1>2. mx_wait \in [MutexThreads -> WaitRecords]
    BY <1>1 DEF MutexInit
  <1>3. cv_waiters \in Seq(MutexThreads) /\ cv_waiters = <<>> /\ DOMAIN cv_waiters = {}
    BY EmptySeq DEF MutexInit
  <1>4. MutexTypeOK
    BY <1>2, <1>3 DEF MutexInit, MutexTypeOK, WaitRecords, MutexAssumption
  <1>5. MutexInv
    BY DEF MutexInit, MutexInv, HoldersOwn, HeldAcrossWaits, MutexAssumption
  <1>6. Range(cv_waiters) = {} /\ IsInjective(cv_waiters)
    BY <1>3 DEF Range, IsInjective
  <1>7. SignalInv
    BY <1>6 DEF MutexInit, SignalInv, SignalsAnswered, SignalsLater
  <1> QED
    BY <1>4, <1>5, <1>7 DEF MutexIndInv

(* Every call, and every step of a call, on the mutex alone.               *)
LEMMA LockSteps ==
    ASSUME MutexAssumption, MutexIndInv, NEW t \in MutexThreads,
           \/ LockFree(t) \/ LockAgain(t) \/ LockBlocks(t) \/ MutexUnlock(t)
           \/ LockAcquires(t) \/ MutexTimesOut(t)
    PROVE  MutexIndInv'
  <1>0. MutexTypeOK /\ MutexInv /\ SignalInv
    BY DEF MutexIndInv
  <1> USE <1>0
  <1>1. CASE LockFree(t)
    <2>1. MutexTypeOK'
      BY <1>1 DEF LockFree, Take, cond, MutexTypeOK, MutexAssumption
    <2>2. MutexInv'
      BY <1>1, TakeFree DEF LockFree
    <2>3. SignalInv'
      BY <1>1, SignalsUntouched DEF LockFree
    <2> QED
      BY <2>1, <2>2, <2>3 DEF MutexIndInv
  <1>2. CASE LockAgain(t)
    <2>1. MutexTypeOK'
      BY <1>2 DEF LockAgain, cond, MutexTypeOK, MutexAssumption
    <2>2. depth'[t] = depth[t] + 1 /\ \A u \in MutexThreads : u # t => depth'[u] = depth[u]
      BY <1>2 DEF LockAgain, MutexTypeOK
    <2>3. HoldersOwn'
      BY <1>2, <2>2 DEF LockAgain, MutexInv, HoldersOwn, MutexTypeOK
    <2>4. HeldAcrossWaits'
      BY <1>2, <2>2 DEF LockAgain, MutexInv, HeldAcrossWaits
    <2>5. SignalInv'
      BY <1>2, SignalsUntouched DEF LockAgain
    <2> QED
      BY <2>1, <2>3, <2>4, <2>5 DEF MutexIndInv, MutexInv
  <1>3. CASE LockBlocks(t)
    <2>1. PICK timed \in BOOLEAN : mx_wait' = [mx_wait EXCEPT ![t].timed = timed]
      BY <1>3 DEF LockBlocks
    <2>2. /\ mx_wait' \in [MutexThreads -> WaitRecords]
          /\ \A u \in MutexThreads : u # t => mx_wait'[u] = mx_wait[u]
      BY <2>1 DEF MutexTypeOK, WaitRecords
    <2>3. /\ mx_pc' \in [MutexThreads -> MutexLabels] /\ mx_pc'[t] \notin {"waiting", "relock"}
          /\ \A u \in MutexThreads : u # t => mx_pc'[u] = mx_pc[u]
      BY <1>3 DEF LockBlocks, MutexGoto, MutexTypeOK, MutexLabels
    <2>4. MutexTypeOK'
      BY <1>3, <2>2, <2>3 DEF LockBlocks, mutex, cond, MutexTypeOK, WaitRecords, MutexLabels
    <2>5. MutexInv'
      BY <1>3, <2>2, <2>3, MutexUntouched DEF LockBlocks
    <2>6. SignalInv'
      BY <1>3, <2>2, <2>3, SignalsUntouched DEF LockBlocks
    <2> QED
      BY <2>4, <2>5, <2>6 DEF MutexIndInv
  <1>4. CASE MutexUnlock(t)
    <2>1. depth[t] > 0 /\ count = depth[t] /\ (type # "recursive" => count = 1)
      BY <1>4 DEF MutexUnlock, MutexInv, HoldersOwn, MutexTypeOK
    <2>2. depth'[t] = depth[t] - 1 /\ \A u \in MutexThreads : u # t => depth'[u] = depth[u]
      BY <1>4 DEF MutexUnlock, MutexTypeOK
    <2>3. /\ depth' \in [MutexThreads -> Nat] /\ count' \in 0..MaxCount
          /\ owner' \in MutexThreads \cup {NoOwner}
      BY <1>4, <2>1 DEF MutexUnlock, MutexTypeOK, MutexAssumption
    <2>4. MutexTypeOK'
      BY <1>4, <2>3 DEF MutexUnlock, cond, MutexTypeOK
    <2>5. HoldersOwn'
      <3>1. /\ owner = t /\ mx_pc[t] = "idle" /\ mx_pc' = mx_pc
            /\ t # NoOwner /\ NoOwner \notin MutexThreads /\ count \in Nat
        BY <1>4 DEF MutexUnlock, MutexTypeOK, MutexAssumption
      <3>2. \A u \in MutexThreads :
                u # t => ~(depth'[u] > 0 /\ mx_pc'[u] \notin {"waiting", "relock"})
        BY <2>2, <3>1 DEF MutexInv, HoldersOwn
      <3>3. \/ type = "recursive" /\ count > 1 /\ count' = count - 1 /\ owner' = t
            \/ count = 1 /\ count' = 0 /\ owner' = NoOwner
        BY <1>4, <2>1, <3>1 DEF MutexUnlock
      <3>4. type' = type
        BY <1>4 DEF MutexUnlock
      <3>5. QED
        BY <2>1, <2>2, <3>1, <3>3, <3>4, <3>2 DEF HoldersOwn
    <2>6. HeldAcrossWaits'
      BY <1>4, <2>2 DEF MutexUnlock, MutexInv, HeldAcrossWaits
    <2>7. SignalInv'
      BY <1>4, SignalsUntouched DEF MutexUnlock
    <2> QED
      BY <2>4, <2>5, <2>6, <2>7 DEF MutexIndInv, MutexInv
  <1>5. CASE LockAcquires(t)
    <2>1. MutexReturn(t)
      BY <1>5 DEF LockAcquires
    <2>2. MutexTypeOK'
      <3>1. MutexTypeOK
        BY DEF MutexIndInv
      <3>2. /\ mx_pc' \in [MutexThreads -> MutexLabels] /\ mx_wait' \in [MutexThreads -> WaitRecords]
            /\ mx_expired' \subseteq MutexThreads
        BY <2>1, <3>1, MutexReturnTypes
      <3>3. /\ owner' = t /\ count' = 1 /\ depth' = [depth EXCEPT ![t] = 1]
            /\ UNCHANGED <<type, sequence, cv_waiters, cond_sequence, granted>>
        BY <1>5 DEF LockAcquires, Take, cond
      <3>4. depth' \in [MutexThreads -> Nat] /\ count' \in 0..MaxCount
        BY <3>1, <3>3 DEF MutexTypeOK, MutexAssumption
      <3>5. QED
        BY <3>1, <3>2, <3>3, <3>4 DEF MutexTypeOK, MutexLabels, WaitRecords
    <2>3. MutexInv'
      BY <1>5, <2>1, TakeFree, MutexReturnTypes DEF LockAcquires
    <2>4. SignalInv'
      BY <1>5, <2>1, SignalsUntouched, MutexReturnTypes DEF LockAcquires
    <2> QED
      BY <2>2, <2>3, <2>4 DEF MutexIndInv
  <1>6. CASE MutexTimesOut(t)
    <2>1. MutexReturn(t)
      BY <1>6 DEF MutexTimesOut
    <2>2. MutexTypeOK'
      BY <1>6, <2>1, MutexReturnTypes
         DEF MutexTimesOut, mutex, cond, MutexTypeOK, MutexLabels, WaitRecords
    <2>3. MutexInv'
      BY <1>6, <2>1, MutexUntouched, MutexReturnTypes DEF MutexTimesOut
    <2>4. SignalInv'
      BY <1>6, <2>1, SignalsUntouched, MutexReturnTypes DEF MutexTimesOut
    <2> QED
      BY <2>2, <2>3, <2>4 DEF MutexIndInv
  <1> QED
    BY <1>1, <1>2, <1>3, <1>4, <1>5, <1>6

(* A wait joins the list as it gives up the mutex.                         *)
LEMMA WaitBegins ==
    ASSUME MutexAssumption, MutexIndInv, NEW t \in MutexThreads, NEW timed \in BOOLEAN,
           CondWait(t, timed)
    PROVE  MutexIndInv'
  <1>0. MutexTypeOK /\ MutexInv /\ SignalInv
    BY DEF MutexIndInv
  <1> USE <1>0 DEF CondWait
  <1> DEFINE w == [timed |-> timed, sequence |-> sequence,
                   thread_sequence |-> cond_sequence[t], recurse |-> count, result |-> "Ok"]
  <1>1. w \in WaitRecords
    BY DEF MutexTypeOK, WaitRecords
  <1>2. /\ w.recurse = count /\ w.sequence = sequence
        /\ w.thread_sequence = cond_sequence[t]
    OBVIOUS
  <1>3. mx_wait' = [mx_wait EXCEPT ![t] = w]
    OBVIOUS
  <1> HIDE DEF w
  <1>4. /\ mx_wait' \in [MutexThreads -> WaitRecords] /\ mx_wait'[t] = w
        /\ \A u \in MutexThreads : u # t => mx_wait'[u] = mx_wait[u]
    BY <1>1, <1>3 DEF MutexTypeOK, WaitRecords
  <1>5. /\ mx_pc' \in [MutexThreads -> MutexLabels] /\ mx_pc'[t] = "waiting"
        /\ \A u \in MutexThreads : u # t => mx_pc'[u] = mx_pc[u]
    BY DEF MutexGoto, MutexTypeOK, MutexLabels
  <1>6. cv_waiters \in Seq(MutexThreads) /\ IsInjective(cv_waiters) /\ t \notin Range(cv_waiters)
    BY DEF MutexTypeOK, SignalInv, SignalsAnswered
  <1>7. PICK n \in Nat : /\ n = Len(cv_waiters) /\ DOMAIN cv_waiters = 1..n
                         /\ DOMAIN cv_waiters' = 1..(n + 1)
                         /\ \A i \in 1..n : cv_waiters'[i] = cv_waiters[i]
                         /\ cv_waiters'[n + 1] = t
                         /\ cv_waiters' \in Seq(MutexThreads)
    <2>1. cv_waiters' = Append(cv_waiters, t)
      OBVIOUS
    <2>2. Len(cv_waiters) \in Nat /\ DOMAIN cv_waiters = 1..Len(cv_waiters)
      BY <1>6, LenProperties
    <2>3. /\ cv_waiters' \in Seq(MutexThreads) /\ Len(cv_waiters') = Len(cv_waiters) + 1
          /\ \A i \in 1..Len(cv_waiters) : cv_waiters'[i] = cv_waiters[i]
          /\ cv_waiters'[Len(cv_waiters) + 1] = t
      BY <1>6, <2>1, AppendProperties
    <2>4. DOMAIN cv_waiters' = 1..(Len(cv_waiters) + 1)
      BY <2>3, LenProperties
    <2> QED
      BY <2>2, <2>3, <2>4
  <1>8. Range(cv_waiters') = Range(cv_waiters) \cup {t}
    <2>1. \A x : x \in Range(cv_waiters') <=> \E i \in 1..(n + 1) : x = cv_waiters'[i]
      BY <1>7 DEF Range
    <2>2. \A x : x \in Range(cv_waiters) <=> \E i \in 1..n : x = cv_waiters[i]
      BY <1>7 DEF Range
    <2> QED
      BY <1>7, <2>1, <2>2
  <1>9. IsInjective(cv_waiters')
    <2>1. \A i \in 1..n : cv_waiters[i] # t
      BY <1>6, <1>7 DEF Range
    <2> QED
      BY <1>6, <1>7, <2>1 DEF IsInjective
  <1>10. MutexTypeOK'
    <2>1. /\ owner' \in MutexThreads \cup {NoOwner} /\ count' \in 0..MaxCount
          /\ UNCHANGED <<type, sequence, cond_sequence, mx_expired, depth>>
      BY DEF MutexAssumption
    <2>2. granted' \subseteq MutexThreads
      BY DEF MutexTypeOK
    <2> QED
      BY <1>4, <1>5, <1>7, <2>1, <2>2 DEF MutexTypeOK, WaitRecords, MutexLabels
  <1>11. MutexInv'
    BY <1>2, <1>4, <1>5, GiveUp
  <1>12. t \notin granted
    BY DEF SignalInv, SignalsLater
  <1>13. SignalsAnswered'
    <2>1. Range(cv_waiters') = {u \in MutexThreads : mx_pc'[u] = "waiting" /\ u \notin granted'}
      BY <1>5, <1>8, <1>12 DEF SignalInv, SignalsAnswered
    <2>2. ASSUME NEW u \in MutexThreads
          PROVE  /\ mx_pc'[u] = "waiting" => (Ready(u)' <=> u \in granted')
                 /\ mx_pc'[u] = "relock" => (mx_wait'[u].result = "Ok" <=> u \in granted')
      <3>1. CASE u = t
        BY <1>2, <1>4, <1>5, <1>12, <3>1 DEF Ready
      <3>2. CASE u # t
        BY <1>4, <1>5, <3>2 DEF Ready, SignalInv, SignalsAnswered
      <3> QED
        BY <3>1, <3>2
    <2> QED
      BY <1>9, <2>1, <2>2 DEF SignalsAnswered
  <1>14. SignalsLater'
    BY <1>2, <1>4, <1>5, <1>12 DEF SignalInv, SignalsLater, MutexTypeOK
  <1> QED
    BY <1>10, <1>11, <1>13, <1>14 DEF MutexIndInv, SignalInv

(* A wait of no time never joins the list.                                 *)
LEMMA PollBegins ==
    ASSUME MutexAssumption, MutexIndInv, NEW t \in MutexThreads, CondPoll(t)
    PROVE  MutexIndInv'
  <1>0. MutexTypeOK /\ MutexInv /\ SignalInv
    BY DEF MutexIndInv
  <1> USE <1>0 DEF CondPoll
  <1>1. /\ mx_wait' \in [MutexThreads -> WaitRecords]
        /\ mx_wait'[t].recurse = count /\ mx_wait'[t].result = "TimedOut"
        /\ \A u \in MutexThreads : u # t => mx_wait'[u] = mx_wait[u]
    <2> DEFINE w == [mx_wait[t] EXCEPT !.recurse = count, !.result = "TimedOut"]
    <2>1. mx_wait' = [mx_wait EXCEPT ![t] = w]
      BY DEF MutexTypeOK
    <2>2. mx_wait \in [MutexThreads -> WaitRecords] /\ mx_wait[t] \in WaitRecords /\ count \in Nat
      BY DEF MutexTypeOK, WaitRecords
    <2>3. w \in WaitRecords /\ w.result = "TimedOut" /\ w.recurse = count
      BY <2>2 DEF WaitRecords
    <2> HIDE DEF w
    <2> QED
      BY <2>1, <2>2, <2>3
  <1>2. /\ mx_pc' \in [MutexThreads -> MutexLabels] /\ mx_pc'[t] = "relock"
        /\ \A u \in MutexThreads : u # t => mx_pc'[u] = mx_pc[u]
    BY DEF MutexGoto, MutexTypeOK, MutexLabels
  <1>3. MutexTypeOK'
    <2>1. owner' \in MutexThreads \cup {NoOwner} /\ count' \in 0..MaxCount
      BY DEF MutexAssumption
    <2>2. UNCHANGED <<type, sequence, cv_waiters, cond_sequence, mx_expired, depth, granted>>
      BY DEF cond
    <2> QED
      BY <1>1, <1>2, <2>1, <2>2 DEF MutexTypeOK, WaitRecords, MutexLabels
  <1>4. MutexInv'
    BY <1>1, <1>2, GiveUp
  <1>5. t \notin granted
    BY DEF SignalInv, SignalsLater
  <1>6. {u \in MutexThreads : mx_pc'[u] = "waiting" /\ u \notin granted}
          = {u \in MutexThreads : mx_pc[u] = "waiting" /\ u \notin granted}
    BY <1>2
  <1>7. SignalsAnswered'
    BY <1>1, <1>2, <1>5, <1>6 DEF SignalInv, SignalsAnswered, Ready, cond
  <1>8. SignalsLater'
    BY <1>1, <1>2, <1>5 DEF SignalInv, SignalsLater, cond
  <1> QED
    BY <1>3, <1>4, <1>7, <1>8 DEF MutexIndInv, SignalInv

(* A wait ends: off the list, with the result that ready() gives.          *)
LEMMA ParkedEnds ==
    ASSUME MutexAssumption, MutexIndInv, NEW t \in MutexThreads, CondReturns(t)
    PROVE  MutexIndInv'
  <1>0. MutexTypeOK /\ MutexInv /\ SignalInv
    BY DEF MutexIndInv
  <1> USE <1>0 DEF CondReturns, Leave
  <1>1. /\ mx_wait' \in [MutexThreads -> WaitRecords]
        /\ mx_wait'[t].recurse = mx_wait[t].recurse
        /\ mx_wait'[t].result = IF Ready(t) THEN "Ok" ELSE "TimedOut"
        /\ \A u \in MutexThreads : u # t => mx_wait'[u] = mx_wait[u]
    <2> DEFINE r == IF Ready(t) THEN "Ok" ELSE "TimedOut"
    <2>1. r \in {"Ok", "TimedOut"} /\ mx_wait' = [mx_wait EXCEPT ![t].result = r]
      OBVIOUS
    <2> HIDE DEF r
    <2> DEFINE w == [mx_wait[t] EXCEPT !.result = r]
    <2>2. mx_wait' = [mx_wait EXCEPT ![t] = w]
      BY <2>1
    <2>3. mx_wait \in [MutexThreads -> WaitRecords] /\ mx_wait[t] \in WaitRecords
      BY DEF MutexTypeOK, WaitRecords
    <2>4. w \in WaitRecords /\ w.result = r /\ w.recurse = mx_wait[t].recurse
      BY <2>1, <2>3 DEF WaitRecords
    <2> HIDE DEF w
    <2>5. /\ mx_wait' \in [MutexThreads -> WaitRecords] /\ mx_wait'[t] = w
          /\ \A u \in MutexThreads : u # t => mx_wait'[u] = mx_wait[u]
      BY <2>2, <2>3, <2>4
    <2> QED
      BY <2>4, <2>5 DEF r
  <1>2. /\ mx_pc' \in [MutexThreads -> MutexLabels] /\ mx_pc'[t] = "relock"
        /\ \A u \in MutexThreads : u # t => mx_pc'[u] = mx_pc[u]
    BY DEF MutexGoto, MutexTypeOK, MutexLabels
  <1>3. /\ cv_waiters' \in Seq(MutexThreads) /\ IsInjective(cv_waiters')
        /\ Range(cv_waiters') = Range(cv_waiters) \ {t}
    <2>1. /\ cv_waiters \in Seq(MutexThreads) /\ IsInjective(cv_waiters)
          /\ cv_waiters' = RemoveFirst(cv_waiters, t)
      BY DEF MutexTypeOK, SignalInv, SignalsAnswered
    <2> QED
      BY <2>1, RemoveFirstRange
  <1>4. MutexTypeOK'
    BY <1>1, <1>2, <1>3 DEF mutex, MutexTypeOK, WaitRecords, MutexLabels
  <1>5. MutexInv'
    BY <1>1, <1>2, StillWaiting
  <1>6. Range(cv_waiters') = {u \in MutexThreads : mx_pc'[u] = "waiting" /\ u \notin granted'}
    BY <1>2, <1>3 DEF SignalInv, SignalsAnswered
  <1>7. Ready(t) <=> t \in granted
    BY DEF SignalInv, SignalsAnswered
  <1>8. SignalsAnswered'
    <2>1. ASSUME NEW u \in MutexThreads
          PROVE  /\ mx_pc'[u] = "waiting" => (Ready(u)' <=> u \in granted')
                 /\ mx_pc'[u] = "relock" => (mx_wait'[u].result = "Ok" <=> u \in granted')
      <3>1. CASE u = t
        BY <1>1, <1>2, <1>7, <3>1
      <3>2. CASE u # t
        BY <1>1, <1>2, <3>2 DEF Ready, SignalInv, SignalsAnswered
      <3> QED
        BY <3>1, <3>2
    <2> QED
      BY <1>3, <1>6, <2>1 DEF SignalsAnswered
  <1>9. SignalsLater'
    BY <1>1, <1>2 DEF SignalInv, SignalsLater
  <1> QED
    BY <1>4, <1>5, <1>8, <1>9 DEF MutexIndInv, SignalInv

(* The waiter takes back what it held.                                     *)
LEMMA RelockEnds ==
    ASSUME MutexAssumption, MutexIndInv, NEW t \in MutexThreads, Relock(t)
    PROVE  MutexIndInv'
  <1>0. MutexTypeOK /\ MutexInv /\ SignalInv
    BY DEF MutexIndInv
  <1> USE <1>0 DEF Relock
  <1>1. /\ mx_pc' \in [MutexThreads -> MutexLabels] /\ mx_wait' \in [MutexThreads -> WaitRecords]
        /\ mx_expired' \subseteq MutexThreads /\ mx_pc'[t] = "idle"
        /\ \A u \in MutexThreads : u # t => mx_pc'[u] = mx_pc[u] /\ mx_wait'[u] = mx_wait[u]
    BY MutexReturnTypes
  <1>2. /\ mx_wait[t].recurse = depth[t] /\ depth[t] \in 1..MaxCount
        /\ type # "recursive" => depth[t] = 1
    BY DEF MutexInv, HeldAcrossWaits
  <1>3. owner' = t /\ count' = depth[t] /\ type' = type
    BY <1>2 DEF Take
  <1>4. MutexTypeOK'
    BY <1>1, <1>2, <1>3 DEF cond, MutexTypeOK, WaitRecords, MutexLabels, MutexAssumption
  <1>5. HoldersOwn'
    <2>1. ASSUME NEW u \in MutexThreads, u # t
          PROVE  ~(depth'[u] > 0 /\ mx_pc'[u] \notin {"waiting", "relock"})
      BY <1>1, <2>1 DEF MutexInv, HoldersOwn, MutexAssumption
    <2> QED
      BY <1>1, <1>2, <1>3, <2>1 DEF HoldersOwn, MutexAssumption
  <1>6. HeldAcrossWaits'
    BY <1>1, <1>3 DEF MutexInv, HeldAcrossWaits
  <1>7. {u \in MutexThreads : mx_pc'[u] = "waiting" /\ u \notin granted'}
          = {u \in MutexThreads : mx_pc[u] = "waiting" /\ u \notin granted}
    BY <1>1
  <1>8. SignalsAnswered'
    BY <1>1, <1>7 DEF SignalInv, SignalsAnswered, Ready, cond
  <1>9. SignalsLater'
    BY <1>1 DEF SignalInv, SignalsLater, cond
  <1> QED
    BY <1>4, <1>5, <1>6, <1>8, <1>9 DEF MutexIndInv, MutexInv, SignalInv

(* A signal takes one waiter off the list and makes its ready() true.      *)
LEMMA WakeOne ==
    ASSUME MutexAssumption, MutexIndInv, NEW t \in MutexThreads, CondWakeWaiter(t)
    PROVE  MutexIndInv'
  <1>0. MutexTypeOK /\ MutexInv /\ SignalInv
    BY DEF MutexIndInv
  <1> USE <1>0 DEF CondWakeWaiter
  <1>1. /\ cv_waiters' \in Seq(MutexThreads) /\ IsInjective(cv_waiters')
        /\ Range(cv_waiters') = Range(cv_waiters) \ {t}
    <2>1. /\ cv_waiters \in Seq(MutexThreads) /\ IsInjective(cv_waiters)
          /\ cv_waiters' = RemoveFirst(cv_waiters, t)
      BY DEF MutexTypeOK, SignalInv, SignalsAnswered
    <2> QED
      BY <2>1, RemoveFirstRange
  <1>2. /\ cond_sequence' \in [MutexThreads -> 0..MaxWakes]
        /\ cond_sequence'[t] = cond_sequence[t] + 1
        /\ \A u \in MutexThreads : u # t => cond_sequence'[u] = cond_sequence[u]
    <2>1. /\ cond_sequence \in [MutexThreads -> 0..MaxWakes] /\ MaxWakes \in Nat
          /\ cond_sequence[t] < MaxWakes
          /\ cond_sequence' = [cond_sequence EXCEPT ![t] = cond_sequence[t] + 1]
      BY DEF MutexTypeOK, MutexAssumption
    <2>2. cond_sequence[t] \in 0..MaxWakes /\ cond_sequence[t] + 1 \in 0..MaxWakes
      BY <2>1
    <2> QED
      BY <2>1, <2>2
  <1>3. mx_pc[t] = "waiting" /\ t \notin granted
    BY DEF SignalInv, SignalsAnswered
  <1>4. MutexTypeOK'
    BY <1>1, <1>2 DEF mutex, MutexTypeOK
  <1>5. MutexInv'
    BY CallersUntouched
  <1>6. SignalsAnswered'
    <2>1. Range(cv_waiters') = {u \in MutexThreads : mx_pc'[u] = "waiting" /\ u \notin granted'}
      BY <1>1 DEF SignalInv, SignalsAnswered
    <2>2. ASSUME NEW u \in MutexThreads
          PROVE  /\ mx_pc'[u] = "waiting" => (Ready(u)' <=> u \in granted')
                 /\ mx_pc'[u] = "relock" => (mx_wait'[u].result = "Ok" <=> u \in granted')
      <3>1. CASE u = t
        <4>1. mx_wait[t].thread_sequence <= cond_sequence[t]
          BY <1>3 DEF SignalInv, SignalsLater
        <4>2. mx_wait[t].thread_sequence \in Nat /\ cond_sequence[t] \in Nat
          BY DEF MutexTypeOK
        <4>3. Ready(t)'
          BY <1>2, <4>1, <4>2 DEF Ready
        <4> QED
          BY <1>3, <3>1, <4>3
      <3>2. CASE u # t
        BY <1>2, <3>2 DEF Ready, SignalInv, SignalsAnswered
      <3> QED
        BY <3>1, <3>2
    <2> QED
      BY <1>1, <2>1, <2>2 DEF SignalsAnswered
  <1>7. SignalsLater'
    <2>1. ASSUME NEW u \in MutexThreads, mx_pc'[u] = "waiting"
          PROVE  mx_wait'[u].thread_sequence <= cond_sequence'[u]
      <3>1. mx_wait[u].thread_sequence <= cond_sequence[u]
        BY <2>1 DEF SignalInv, SignalsLater
      <3>2. mx_wait[u].thread_sequence \in Nat /\ cond_sequence[u] \in Nat
        BY DEF MutexTypeOK
      <3> QED
        BY <1>2, <3>1, <3>2
    <2> QED
      BY <1>3, <2>1 DEF SignalInv, SignalsLater
  <1> QED
    BY <1>4, <1>5, <1>6, <1>7 DEF MutexIndInv, SignalInv

(* A broadcast empties the list and makes everybody's ready() true.        *)
LEMMA WakeAll ==
    ASSUME MutexAssumption, MutexIndInv, CondBroadcast
    PROVE  MutexIndInv'
  <1>0. MutexTypeOK /\ MutexInv /\ SignalInv
    BY DEF MutexIndInv
  <1> USE <1>0 DEF CondBroadcast
  <1>1. Range(cv_waiters) = {t \in MutexThreads : mx_pc[t] = "waiting" /\ t \notin granted}
    BY DEF SignalInv, SignalsAnswered
  <1>2. cv_waiters' \in Seq(MutexThreads) /\ DOMAIN cv_waiters' = {}
    BY EmptySeq
  <1>3. Range(cv_waiters') = {} /\ IsInjective(cv_waiters')
    BY <1>2 DEF Range, IsInjective
  <1>4. MutexTypeOK'
    <2>1. sequence' \in 0..MaxWakes /\ granted' \subseteq MutexThreads
      BY <1>1 DEF MutexTypeOK, MutexAssumption
    <2> QED
      BY <1>2, <2>1 DEF mutex, MutexTypeOK
  <1>5. MutexInv'
    BY CallersUntouched
  <1>6. ASSUME NEW t \in MutexThreads, mx_pc[t] = "waiting"
        PROVE  t \in granted' /\ Ready(t)' /\ mx_wait[t].sequence <= sequence'
    <2>1. mx_wait[t].sequence <= sequence
      BY <1>6 DEF SignalInv, SignalsLater
    <2>2. mx_wait[t].sequence \in Nat /\ sequence \in Nat
      BY DEF MutexTypeOK
    <2> QED
      BY <1>1, <1>6, <2>1, <2>2 DEF Ready
  <1>7. \A t \in MutexThreads : mx_pc[t] # "waiting" => (t \in granted' <=> t \in granted)
    BY <1>1
  <1>8. SignalsAnswered'
    BY <1>3, <1>6, <1>7 DEF SignalInv, SignalsAnswered
  <1>9. SignalsLater'
    BY <1>6, <1>7 DEF SignalInv, SignalsLater
  <1> QED
    BY <1>4, <1>5, <1>8, <1>9 DEF MutexIndInv, SignalInv

(* Every step of the mutex and the condition variable keeps the invariant. *)
LEMMA MutexNextInvariant == MutexAssumption /\ MutexIndInv /\ [MutexNext]_mutexVars => MutexIndInv'
  <1> SUFFICES ASSUME MutexAssumption, MutexIndInv, [MutexNext]_mutexVars PROVE MutexIndInv'
    OBVIOUS
  <1>1. ASSUME NEW t \in MutexThreads, MutexCalls(t) \/ MutexSteps(t) PROVE MutexIndInv'
    BY <1>1, LockSteps, WaitBegins, PollBegins, ParkedEnds, RelockEnds DEF MutexCalls, MutexSteps
  <1>2. ASSUME NEW t \in MutexThreads, MutexExpire(t) PROVE MutexIndInv'
    <2>1. MutexTypeOK'
      BY <1>2 DEF MutexExpire, mutex, cond, MutexIndInv, MutexTypeOK
    <2>2. MutexInv'
      BY <1>2, CallersUntouched DEF MutexExpire, MutexIndInv
    <2>3. SignalInv'
      BY <1>2 DEF MutexExpire, cond, MutexIndInv, SignalInv, SignalsAnswered, SignalsLater, Ready
    <2> QED
      BY <2>1, <2>2, <2>3 DEF MutexIndInv
  <1>3. CASE CondSignal
    <2>1. cv_waiters \in Seq(MutexThreads) /\ cv_waiters # <<>>
      BY <1>3 DEF CondSignal, MutexIndInv, MutexTypeOK
    <2>2. Head(cv_waiters) \in MutexThreads
      BY <2>1, HeadTailProperties
    <2> QED
      BY <1>3, <2>2, WakeOne DEF CondSignal
  <1>4. CASE CondSignalto
    BY <1>4, WakeOne DEF CondSignalto
  <1>5. CASE CondBroadcast
    BY <1>5, WakeAll
  <1>6. CASE UNCHANGED mutexVars
    <2>1. MutexTypeOK'
      BY <1>6 DEF mutexVars, mutex, cond, MutexIndInv, MutexTypeOK
    <2>2. MutexInv'
      BY <1>6, CallersUntouched DEF mutexVars, MutexIndInv
    <2>3. SignalInv'
      BY <1>6 DEF mutexVars, cond, MutexIndInv, SignalInv, SignalsAnswered, SignalsLater, Ready
    <2> QED
      BY <2>1, <2>2, <2>3 DEF MutexIndInv
  <1> QED
    BY <1>1, <1>2, <1>3, <1>4, <1>5, <1>6 DEF MutexNext

-----------------------------------------------------------------------------
(* The inductive invariant holds in every reachable state.                 *)
THEOREM MutexInvariance == ASSUME MutexAssumption PROVE MutexSpec => []MutexIndInv
  <1>1. MutexInit => MutexIndInv
    BY MutexInitInvariant
  <1>2. MutexIndInv /\ [MutexNext]_mutexVars => MutexIndInv'
    BY MutexNextInvariant
  <1> QED
    BY <1>1, <1>2, PTL DEF MutexSpec

(* The members of both structures keep their types: in particular the      *)
(* count a relock restores never exceeds UINT32_MAX.                       *)
THEOREM MutexTypeCorrect == ASSUME MutexAssumption PROVE MutexSpec => []MutexTypeOK
  BY MutexInvariance, PTL DEF MutexIndInv

(* A thread owns the mutex exactly when it has locked it more often than   *)
(* unlocked and is not inside a wait, and the count is that difference.    *)
THEOREM MutexIsHeld == ASSUME MutexAssumption PROVE MutexSpec => []HoldersOwn
  <1>1. MutexIndInv => HoldersOwn
    BY DEF MutexIndInv, MutexInv
  <1> QED
    BY <1>1, MutexInvariance, PTL

(* No signal or broadcast is lost between the thread it chose, the         *)
(* deadline that passes meanwhile and the result of the wait.              *)
THEOREM NoSignalLost == ASSUME MutexAssumption PROVE MutexSpec => []SignalsAnswered
  <1>1. MutexIndInv => SignalsAnswered
    BY DEF MutexIndInv, SignalInv
  <1> QED
    BY <1>1, MutexInvariance, PTL

-----------------------------------------------------------------------------
(* The read-write lock and pthread_once.                                   *)

LockInv == WritersCounted /\ IsFiniteSet(ReadLocks)

(* Whoever runs the routine is alone, and does so before it has returned;  *)
(* the state says DoneInit exactly from then on.                           *)
OnceInv ==
    /\ runs = (IF state = "NeedsInit" THEN 0 ELSE 1)
    /\ initialised <=> state = "DoneInit"
    /\ \A t \in RwlockThreads :
          /\ rw_pc[t] = "init" => state \in {"InProgress", "Wait"}
          /\ rw_pc[t] = "onceWait" => state \in {"Wait", "DoneInit"}
          /\ rw_pc[t] = "onceDone" => state = "DoneInit"
    /\ \A t, u \in RwlockThreads : rw_pc[t] = "init" /\ rw_pc[u] = "init" => t = u

RwlockIndInv == RwlockTypeOK /\ LockInv /\ OnceInv

(* What a read lock held is.                                               *)
LEMMA ReadLock ==
    \A h : h \in ReadLocks <=> \E t \in RwlockThreads : \E i \in 1..readers[t] : h = <<t, i>>
  BY DEF ReadLocks

(* The same in the next state.                                             *)
LEMMA ReadLockNext ==
    \A h : h \in ReadLocks' <=> \E t \in RwlockThreads : \E i \in 1..readers'[t] : h = <<t, i>>
  BY DEF ReadLocks

(* RwlockAddReader adds one read lock to those held and to the count.      *)
LEMMA AddReaderCounts ==
    ASSUME RwlockTypeOK, LockInv, NEW t \in RwlockThreads, RwlockAddReader(t)
    PROVE  /\ IsFiniteSet(ReadLocks')
           /\ reader_count' = Cardinality(ReadLocks)' /\ reader_count' \in Nat
           /\ readers' \in [RwlockThreads -> Nat]
  <1>0. readers' = [readers EXCEPT ![t] = readers[t] + 1] /\ readers \in [RwlockThreads -> Nat]
    BY DEF RwlockAddReader, RwlockTypeOK
  <1>1. ReadLocks' = ReadLocks \cup {<<t, readers[t] + 1>>}
    BY <1>0, ReadLock, ReadLockNext
  <1>2. <<t, readers[t] + 1>> \notin ReadLocks
    BY <1>0, ReadLock
  <1>3. /\ IsFiniteSet(ReadLocks')
        /\ Cardinality(ReadLocks') = Cardinality(ReadLocks) + 1
    BY <1>1, <1>2, FS_AddElement DEF LockInv
  <1> QED
    BY <1>0, <1>3 DEF LockInv, WritersCounted, RwlockAddReader, RwlockTypeOK

(* RwlockRemoveReader takes one away from both.                            *)
LEMMA RemoveReaderCounts ==
    ASSUME RwlockTypeOK, LockInv, NEW t \in RwlockThreads, readers[t] > 0, RwlockRemoveReader(t)
    PROVE  /\ IsFiniteSet(ReadLocks')
           /\ reader_count' = Cardinality(ReadLocks)' /\ reader_count' \in Nat
           /\ readers' \in [RwlockThreads -> Nat]
  <1>0. readers' = [readers EXCEPT ![t] = readers[t] - 1] /\ readers \in [RwlockThreads -> Nat]
    BY DEF RwlockRemoveReader, RwlockTypeOK
  <1>1. ReadLocks' = ReadLocks \ {<<t, readers[t]>>}
    BY <1>0, ReadLock, ReadLockNext
  <1>2. <<t, readers[t]>> \in ReadLocks
    BY <1>0, ReadLock
  <1>3. /\ IsFiniteSet(ReadLocks')
        /\ Cardinality(ReadLocks') = Cardinality(ReadLocks) - 1
    BY <1>1, <1>2, FS_RemoveElement DEF LockInv
  <1>4. Cardinality(ReadLocks') \in Nat
    BY <1>3, FS_CardinalityType
  <1> QED
    BY <1>0, <1>3, <1>4 DEF LockInv, WritersCounted, RwlockRemoveReader, RwlockTypeOK

(* A writer that finds the count at zero finds nobody reading.             *)
LEMMA NobodyReads ==
    ASSUME RwlockTypeOK, LockInv, reader_count = 0
    PROVE  \A t \in RwlockThreads : readers[t] = 0
  <1>1. ReadLocks = {}
    BY FS_EmptySet DEF LockInv, WritersCounted
  <1>2. readers \in [RwlockThreads -> Nat]
    BY DEF RwlockTypeOK
  <1>3. ASSUME NEW t \in RwlockThreads, readers[t] # 0 PROVE FALSE
    <2>1. <<t, 1>> \in ReadLocks
      BY <1>2, <1>3, ReadLock
    <2> QED
      BY <1>1, <2>1
  <1> QED
    BY <1>3

(* unregister_writer_wait keeps the count, and nobody else's place.        *)
LEMMA UnregisterCounts ==
    ASSUME RwlockAssumption, RwlockTypeOK, LockInv, NEW t \in RwlockThreads, UnregisterWriter(t)
    PROVE  /\ waiting_writers' = Cardinality(rw_registered)'
           /\ waiting_writers' \in 0..Cardinality(RwlockThreads)
           /\ rw_registered' = rw_registered \ {t} /\ rw_registered' \subseteq RwlockThreads
  <1>1. rw_registered \subseteq RwlockThreads /\ IsFiniteSet(rw_registered)
    BY FS_Subset DEF RwlockTypeOK, RwlockAssumption
  <1>2. rw_registered' = rw_registered \ {t}
    BY DEF UnregisterWriter
  <1>3. waiting_writers' = Cardinality(rw_registered')
    BY <1>1, <1>2, FS_RemoveElement DEF UnregisterWriter, LockInv, WritersCounted
  <1>4. rw_registered' \subseteq RwlockThreads
    BY <1>1, <1>2
  <1>5. /\ Cardinality(rw_registered') <= Cardinality(RwlockThreads)
        /\ Cardinality(rw_registered') \in Nat /\ Cardinality(RwlockThreads) \in Nat
    BY <1>4, FS_Subset, FS_CardinalityType DEF RwlockAssumption
  <1> QED
    BY <1>2, <1>3, <1>4, <1>5

(* A thread that returns is idle, and in no part of pthread_once.          *)
LEMMA RwlockReturnTypes ==
    ASSUME RwlockTypeOK, NEW t \in RwlockThreads, RwlockReturn(t)
    PROVE  /\ rw_pc' \in [RwlockThreads -> {"idle", "lock", "init", "onceWait", "onceDone"}]
           /\ lock' \in [RwlockThreads -> [write : BOOLEAN, timed : BOOLEAN]]
           /\ rw_expired' \subseteq RwlockThreads
           /\ \A u \in RwlockThreads : u # t => rw_pc'[u] = rw_pc[u] /\ lock'[u] = lock[u]
           /\ rw_pc'[t] = "idle"
  BY DEF RwlockReturn, RwlockGoto, NoLock, RwlockTypeOK

(* A step of the lock leaves pthread_once alone.                           *)
LEMMA OnceUnchanged ==
    ASSUME RwlockTypeOK, OnceInv, UNCHANGED once, NEW t \in RwlockThreads,
           \A u \in RwlockThreads : u # t => rw_pc'[u] = rw_pc[u],
           rw_pc'[t] \in {"idle", "lock"}
    PROVE  OnceInv'
  BY DEF OnceInv, once

(* A step of pthread_once leaves the lock alone.                           *)
LEMMA LockUnchanged ==
    ASSUME RwlockTypeOK, LockInv, UNCHANGED <<rwlock, lock, rw_registered>>,
           NEW t \in RwlockThreads,
           rw_pc[t] # "lock", NEW label, RwlockGoto(t, label)
    PROVE  LockInv'
  BY DEF LockInv, WritersCounted, ReadLocks, rwlock, RwlockGoto, RwlockTypeOK

-----------------------------------------------------------------------------
(* Nothing is held, nobody waits and the routine has not run at first.     *)
LEMMA RwlockInitInvariant == RwlockAssumption /\ RwlockInit => RwlockIndInv
  <1> SUFFICES ASSUME RwlockAssumption, RwlockInit PROVE RwlockIndInv
    OBVIOUS
  <1>1. ReadLocks = {}
    BY ReadLock DEF RwlockInit
  <1>2. Cardinality(RwlockThreads) \in Nat
    BY FS_CardinalityType DEF RwlockAssumption
  <1>3. RwlockTypeOK
    <2>1. NoLock \in [write : BOOLEAN, timed : BOOLEAN]
      BY DEF NoLock
    <2>2. lock \in [RwlockThreads -> [write : BOOLEAN, timed : BOOLEAN]] /\ initialised \in BOOLEAN
      BY <2>1 DEF RwlockInit
    <2> QED
      BY <1>2, <2>2 DEF RwlockInit, RwlockTypeOK
  <1>4. LockInv
    BY <1>1, FS_EmptySet DEF RwlockInit, LockInv, WritersCounted
  <1>5. OnceInv
    BY DEF RwlockInit, OnceInv
  <1> QED
    BY <1>3, <1>4, <1>5 DEF RwlockIndInv

(* Every step of the lock and of pthread_once keeps the invariant.         *)
LEMMA RwlockNextInvariant ==
    RwlockAssumption /\ RwlockIndInv /\ [RwlockNext]_rwlockVars => RwlockIndInv'
  <1> SUFFICES ASSUME RwlockAssumption, RwlockIndInv, [RwlockNext]_rwlockVars PROVE RwlockIndInv'
    OBVIOUS
  <1>0. RwlockTypeOK /\ LockInv /\ OnceInv
    BY DEF RwlockIndInv
  <1> USE <1>0
  <1>1. ASSUME NEW t \in RwlockThreads, TryRead(t) PROVE RwlockIndInv'
    <2>1. RwlockAddReader(t) /\ UNCHANGED <<rwlockCallers, once>> /\ MayRead(t) /\ rw_pc[t] = "idle"
      BY <1>1 DEF TryRead
    <2>2. RwlockTypeOK'
      BY <2>1, AddReaderCounts DEF RwlockTypeOK, RwlockAddReader, rwlockCallers, once
    <2>3. LockInv'
      <3>1. IsFiniteSet(ReadLocks') /\ reader_count' = Cardinality(ReadLocks)'
        BY <2>1, AddReaderCounts
      <3>2. writer' # NoWriter => \A u \in RwlockThreads : readers'[u] > 0 => u = writer'
        BY <2>1 DEF MayRead, RwlockAddReader, LockInv, WritersCounted, RwlockTypeOK
      <3> QED
        BY <2>1, <3>1, <3>2 DEF LockInv, WritersCounted, rwlockCallers, RwlockAddReader
    <2>4. OnceInv'
      BY <2>1, OnceUnchanged DEF rwlockCallers
    <2> QED
      BY <2>2, <2>3, <2>4 DEF RwlockIndInv
  <1>2. ASSUME NEW t \in RwlockThreads, TryWrite(t) PROVE RwlockIndInv'
    <2>1. RwlockTypeOK'
      BY <1>2 DEF TryWrite, RwlockTypeOK, rwlockCallers, once
    <2>2. \A u \in RwlockThreads : readers[u] = 0
      BY <1>2, NobodyReads DEF TryWrite, MayWrite
    <2>3. LockInv'
      BY <1>2, <2>2 DEF TryWrite, LockInv, WritersCounted, ReadLocks, rwlockCallers
    <2>4. OnceInv'
      BY <1>2, OnceUnchanged DEF TryWrite, rwlockCallers
    <2> QED
      BY <2>1, <2>3, <2>4 DEF RwlockIndInv
  <1>3. ASSUME NEW t \in RwlockThreads, Lock(t) PROVE RwlockIndInv'
    <2>1. PICK kind \in [write : BOOLEAN, timed : BOOLEAN] : lock' = [lock EXCEPT ![t] = kind]
      BY <1>3 DEF Lock
    <2>2. RwlockTypeOK'
      BY <1>3, <2>1 DEF Lock, RwlockGoto, rwlock, once, RwlockTypeOK
    <2>3. t \notin rw_registered
      BY <1>3 DEF Lock, LockInv, WritersCounted
    <2>4. LockInv'
      BY <1>3, <2>1, <2>3
         DEF Lock, RwlockGoto, rwlock, RwlockTypeOK, LockInv, WritersCounted, ReadLocks
    <2>5. OnceInv'
      BY <1>3, OnceUnchanged DEF Lock, RwlockGoto, RwlockTypeOK
    <2> QED
      BY <2>2, <2>4, <2>5 DEF RwlockIndInv
  <1>4. ASSUME NEW t \in RwlockThreads, RwlockUnlock(t) PROVE RwlockIndInv'
    <2>1. CASE readers[t] > 0 /\ RwlockRemoveReader(t) /\ UNCHANGED writer
      <3>1. RwlockTypeOK'
        BY <1>4, <2>1, RemoveReaderCounts DEF RwlockUnlock, RwlockTypeOK, rwlockCallers, once
      <3>2. writer' # NoWriter => \A u \in RwlockThreads : readers'[u] > 0 => u = writer'
        BY <2>1 DEF RwlockRemoveReader, LockInv, WritersCounted, RwlockTypeOK
      <3>3. LockInv'
        BY <1>4, <2>1, <3>2, RemoveReaderCounts DEF RwlockUnlock, LockInv, WritersCounted, rwlockCallers
      <3>4. OnceInv'
        BY <1>4, OnceUnchanged DEF RwlockUnlock, rwlockCallers
      <3> QED
        BY <3>1, <3>3, <3>4 DEF RwlockIndInv
    <2>2. CASE writer' = NoWriter /\ UNCHANGED <<readers, reader_count>>
      <3>1. RwlockTypeOK'
        BY <1>4, <2>2 DEF RwlockUnlock, RwlockTypeOK, rwlockCallers, once
      <3>2. LockInv'
        BY <1>4, <2>2 DEF RwlockUnlock, LockInv, WritersCounted, ReadLocks, rwlockCallers
      <3>3. OnceInv'
        BY <1>4, OnceUnchanged DEF RwlockUnlock, rwlockCallers
      <3> QED
        BY <3>1, <3>2, <3>3 DEF RwlockIndInv
    <2> QED
      BY <1>4, <2>1, <2>2 DEF RwlockUnlock
  <1>5. ASSUME NEW t \in RwlockThreads, OnceEnter(t) PROVE RwlockIndInv'
    <2>1. RwlockTypeOK'
      BY <1>5 DEF OnceEnter, RwlockGoto, rwlock, RwlockTypeOK
    <2>2. LockInv'
      BY <1>5, LockUnchanged DEF OnceEnter
    <2>3. CASE state = "NeedsInit"
      BY <1>5, <2>1, <2>2, <2>3 DEF OnceEnter, RwlockGoto, OnceInv, RwlockTypeOK, RwlockIndInv
    <2>4. CASE state \in {"InProgress", "Wait"}
      BY <1>5, <2>1, <2>2, <2>4 DEF OnceEnter, RwlockGoto, OnceInv, RwlockTypeOK, RwlockIndInv
    <2> QED
      BY <1>5, <2>3, <2>4 DEF OnceEnter
  <1>6. ASSUME NEW t \in RwlockThreads, ReadGranted(t) PROVE RwlockIndInv'
    <2>1. RwlockAddReader(t) /\ RwlockReturn(t) /\ MayRead(t) /\ UNCHANGED <<rw_registered, once>>
      BY <1>6 DEF ReadGranted
    <2>2. RwlockTypeOK'
      BY <2>1, AddReaderCounts, RwlockReturnTypes DEF RwlockAddReader, once, RwlockTypeOK
    <2>3. writer' # NoWriter => \A u \in RwlockThreads : readers'[u] > 0 => u = writer'
      BY <2>1 DEF MayRead, RwlockAddReader, LockInv, WritersCounted, RwlockTypeOK
    <2>4. t \notin rw_registered
      BY <1>6 DEF ReadGranted, LockInv, WritersCounted
    <2>5. \A u \in rw_registered' : rw_pc'[u] = "lock" /\ lock'[u].write
      BY <2>1, <2>4, RwlockReturnTypes DEF LockInv, WritersCounted, RwlockTypeOK
    <2>6. LockInv'
      BY <2>1, <2>3, <2>5, AddReaderCounts DEF RwlockAddReader, LockInv, WritersCounted
    <2>7. OnceInv'
      BY <2>1, OnceUnchanged, RwlockReturnTypes
    <2> QED
      BY <2>2, <2>6, <2>7 DEF RwlockIndInv
  <1>7. ASSUME NEW t \in RwlockThreads, WriteGranted(t) PROVE RwlockIndInv'
    <2>1. /\ UnregisterWriter(t) /\ RwlockReturn(t) /\ writer' = t
          /\ UNCHANGED <<readers, reader_count, once>>
      BY <1>7 DEF WriteGranted
    <2>2. RwlockTypeOK'
      BY <2>1, UnregisterCounts, RwlockReturnTypes DEF once, RwlockTypeOK
    <2>3. \A u \in RwlockThreads : readers[u] = 0
      BY <1>7, NobodyReads DEF WriteGranted, MayWrite
    <2>4. \A u \in rw_registered' : rw_pc'[u] = "lock" /\ lock'[u].write
      BY <2>1, UnregisterCounts, RwlockReturnTypes DEF LockInv, WritersCounted, RwlockTypeOK
    <2>5. LockInv'
      BY <2>1, <2>3, <2>4, UnregisterCounts DEF LockInv, WritersCounted, ReadLocks
    <2>6. OnceInv'
      BY <2>1, OnceUnchanged, RwlockReturnTypes
    <2> QED
      BY <2>2, <2>5, <2>6 DEF RwlockIndInv
  <1>8. ASSUME NEW t \in RwlockThreads, WriteRefused(t) \/ RwlockTimesOut(t) PROVE RwlockIndInv'
    <2>1. /\ UnregisterWriter(t) /\ RwlockReturn(t)
          /\ UNCHANGED <<writer, readers, reader_count, once>>
      BY <1>8 DEF WriteRefused, RwlockTimesOut
    <2>2. RwlockTypeOK'
      BY <2>1, UnregisterCounts, RwlockReturnTypes DEF once, RwlockTypeOK
    <2>3. \A u \in rw_registered' : rw_pc'[u] = "lock" /\ lock'[u].write
      BY <2>1, UnregisterCounts, RwlockReturnTypes DEF LockInv, WritersCounted, RwlockTypeOK
    <2>4. LockInv'
      BY <2>1, <2>3, UnregisterCounts DEF LockInv, WritersCounted, ReadLocks
    <2>5. OnceInv'
      BY <2>1, OnceUnchanged, RwlockReturnTypes
    <2> QED
      BY <2>2, <2>4, <2>5 DEF RwlockIndInv
  <1>9. ASSUME NEW t \in RwlockThreads, WriteRegisters(t) PROVE RwlockIndInv'
    <2>1. rw_registered \subseteq RwlockThreads /\ IsFiniteSet(rw_registered)
      BY FS_Subset DEF RwlockTypeOK, RwlockAssumption
    <2>2. rw_registered' = rw_registered \cup {t} /\ rw_registered' \subseteq RwlockThreads
      BY <1>9, <2>1 DEF WriteRegisters
    <2>3. waiting_writers' = Cardinality(rw_registered')
      BY <1>9, <2>1, <2>2, FS_AddElement DEF WriteRegisters, LockInv, WritersCounted
    <2>4. /\ Cardinality(rw_registered') <= Cardinality(RwlockThreads)
          /\ Cardinality(rw_registered') \in Nat /\ Cardinality(RwlockThreads) \in Nat
      BY <2>2, FS_Subset, FS_CardinalityType DEF RwlockAssumption
    <2>5. RwlockTypeOK'
      BY <1>9, <2>2, <2>3, <2>4 DEF WriteRegisters, once, RwlockTypeOK
    <2>6. LockInv'
      BY <1>9, <2>2, <2>3 DEF WriteRegisters, LockInv, WritersCounted, ReadLocks
    <2>7. OnceInv'
      BY <1>9, OnceUnchanged DEF WriteRegisters
    <2> QED
      BY <2>5, <2>6, <2>7 DEF RwlockIndInv
  <1>10. ASSUME NEW t \in RwlockThreads, InitRoutineReturns(t) PROVE RwlockIndInv'
    <2>1. RwlockTypeOK'
      BY <1>10 DEF InitRoutineReturns, RwlockGoto, rwlock, RwlockTypeOK
    <2>2. LockInv'
      BY <1>10, LockUnchanged DEF InitRoutineReturns
    <2>3. OnceInv'
      BY <1>10 DEF InitRoutineReturns, RwlockGoto, OnceInv, RwlockTypeOK
    <2> QED
      BY <2>1, <2>2, <2>3 DEF RwlockIndInv
  <1>11. ASSUME NEW t \in RwlockThreads, OnceWakes(t) \/ OnceReturns(t) PROVE RwlockIndInv'
    <2>1. RwlockTypeOK'
      BY <1>11 DEF OnceWakes, OnceReturns, RwlockGoto, rwlock, once, RwlockTypeOK
    <2>2. LockInv'
      BY <1>11, LockUnchanged DEF OnceWakes, OnceReturns
    <2>3. OnceInv'
      BY <1>11 DEF OnceWakes, OnceReturns, RwlockGoto, once, OnceInv, RwlockTypeOK
    <2> QED
      BY <2>1, <2>2, <2>3 DEF RwlockIndInv
  <1>12. ASSUME NEW t \in RwlockThreads, RwlockExpire(t) PROVE RwlockIndInv'
    BY <1>12 DEF RwlockExpire, rwlock, once, RwlockIndInv, RwlockTypeOK, LockInv,
                 WritersCounted, ReadLocks, OnceInv
  <1>13. CASE UNCHANGED rwlockVars
    BY <1>13 DEF rwlockVars, rwlock, once, rwlockCallers, RwlockIndInv, RwlockTypeOK, LockInv,
                 WritersCounted,
                 ReadLocks, OnceInv
  <1> QED
    BY <1>1, <1>2, <1>3, <1>4, <1>5, <1>6, <1>7, <1>8, <1>9, <1>10, <1>11, <1>12, <1>13
    DEF RwlockNext, RwlockCalls, RwlockSteps

-----------------------------------------------------------------------------
(* The inductive invariant holds in every reachable state.                 *)
THEOREM RwlockInvariance == ASSUME RwlockAssumption PROVE RwlockSpec => []RwlockIndInv
  <1>1. RwlockInit => RwlockIndInv
    BY RwlockInitInvariant
  <1>2. RwlockIndInv /\ [RwlockNext]_rwlockVars => RwlockIndInv'
    BY RwlockNextInvariant
  <1> QED
    BY <1>1, <1>2, PTL DEF RwlockSpec

(* The state keeps the types of PthreadRwlockPrivate and PthreadOnce.      *)
THEOREM RwlockTypeCorrect == ASSUME RwlockAssumption PROVE RwlockSpec => []RwlockTypeOK
  BY RwlockInvariance, PTL DEF RwlockIndInv

(* Nobody reads while another writes, reader_count is the number of read   *)
(* locks, and waiting_writers that of the threads that really wait to      *)
(* write, however the granted, refused and timed out calls interleave.     *)
THEOREM WritersAreCounted == ASSUME RwlockAssumption PROVE RwlockSpec => []WritersCounted
  <1>1. RwlockIndInv => WritersCounted
    BY DEF RwlockIndInv, LockInv
  <1> QED
    BY <1>1, RwlockInvariance, PTL

(* init_routine runs once and pthread_once returns after it has.           *)
THEOREM OnceIsOnce == ASSUME RwlockAssumption PROVE RwlockSpec => []OnceThenDone
  <1>1. RwlockIndInv => OnceThenDone
    BY DEF RwlockIndInv, OnceInv, OnceThenDone
  <1> QED
    BY <1>1, RwlockInvariance, PTL

(* A thread without a read lock gets one only when no writer is waiting:   *)
(* MayRead looks at waiting_writers, which is the number of those waiting. *)
THEOREM NewReadersWait == ASSUME RwlockAssumption PROVE RwlockSpec => WritersGoFirst
  <1>1. ASSUME RwlockIndInv, RwlockNext, NEW t \in RwlockThreads,
               readers[t] = 0, readers'[t] > 0, writer # t
        PROVE  rw_registered = {}
    <2>1. PICK u \in RwlockThreads : RwlockCalls(u) \/ RwlockSteps(u) \/ RwlockExpire(u)
      BY <1>1 DEF RwlockNext
    <2>2. readers \in [RwlockThreads -> Nat]
      BY <1>1 DEF RwlockIndInv, RwlockTypeOK
    <2>3. ~UNCHANGED readers
      BY <1>1, <2>2
    <2>4. CASE TryRead(u) \/ ReadGranted(u)
      <3>1. u = t /\ MayRead(t)
        BY <1>1, <2>2, <2>4 DEF TryRead, ReadGranted, RwlockAddReader
      <3>2. Cardinality(rw_registered) = 0
        BY <1>1, <3>1 DEF MayRead, RwlockIndInv, LockInv, WritersCounted
      <3>3. IsFiniteSet(rw_registered)
        BY <1>1, FS_Subset DEF RwlockIndInv, RwlockTypeOK, RwlockAssumption
      <3> QED
        BY <3>2, <3>3, FS_EmptySet
    <2>5. CASE RwlockUnlock(u)
      <3>1. RwlockRemoveReader(u)
        BY <2>3, <2>5 DEF RwlockUnlock
      <3> QED
        BY <1>1, <2>2, <3>1 DEF RwlockRemoveReader
    <2> QED
      BY <2>1, <2>3, <2>4, <2>5
      DEF RwlockCalls, RwlockSteps, TryWrite, Lock, OnceEnter, WriteGranted, WriteRefused,
           WriteRegisters,
          RwlockTimesOut, InitRoutineReturns, OnceWakes, OnceReturns, RwlockExpire, rwlock
  <1>2. RwlockIndInv /\ [RwlockNext]_rwlockVars =>
          [\A t \in RwlockThreads : (readers[t] = 0 /\ readers'[t] > 0 /\ writer # t)
                                 => rw_registered = {}]_rwlockVars
    BY <1>1
  <1> QED
    BY <1>2, RwlockInvariance, PTL DEF RwlockSpec, WritersGoFirst

-----------------------------------------------------------------------------
(* The wait on an address.                                                 *)

(* Who is on the list of an entry, and where the parked threads are.       *)
Listed ==
    /\ \A e \in Entries : /\ IsInjective(sa_waiters[e])
                          /\ Range(sa_waiters[e]) = {t \in AddressThreads :
                                                    sa_pc[t] = "parked" /\ sa_wait[t].entry = e}
    /\ \A t \in AddressThreads : /\ sa_pc[t] = "parked" => sa_wait[t].entry = sa_registered
                                 /\ sa_pc[t] # "idle" => sa_wait[t].entry \in Entries

(* Somebody inside a wait will look at the registered entry again.         *)
Kept ==
    sa_registered # 0 =>
        \E t \in AddressThreads : sa_pc[t] # "idle" /\ sa_wait[t].entry = sa_registered

(* A thread a wake was spent on is parked, and its flag says so.           *)
Spent == spent \subseteq wake_requested \cap {t \in AddressThreads : sa_pc[t] = "parked"}

AddressIndInv == AddressTypeOK /\ Listed /\ Kept /\ Spent

(* Appending a thread that is not on the list.                             *)
LEMMA AppendRange ==
    ASSUME NEW S, NEW s \in Seq(S), IsInjective(s), NEW e \in S, e \notin Range(s)
    PROVE  /\ Append(s, e) \in Seq(S)
           /\ IsInjective(Append(s, e))
           /\ Range(Append(s, e)) = Range(s) \cup {e}
  <1>1. PICK n \in Nat : n = Len(s) /\ DOMAIN s = 1..n
    BY LenProperties
  <1> DEFINE r == Append(s, e)
  <1>2. /\ r \in Seq(S) /\ Len(r) = n + 1
        /\ \A i \in 1..n : r[i] = s[i]
        /\ r[n + 1] = e
    BY <1>1, AppendProperties
  <1>3. DOMAIN r = 1..(n + 1)
    BY <1>2, LenProperties
  <1> HIDE DEF r
  <1>4. \A x : x \in Range(r) <=> \E i \in 1..(n + 1) : x = r[i]
    BY <1>3 DEF Range
  <1>5. \A x : x \in Range(s) <=> \E i \in 1..n : x = s[i]
    BY <1>1 DEF Range
  <1>6. Range(r) = Range(s) \cup {e}
    BY <1>2, <1>4, <1>5
  <1>7. IsInjective(r)
    BY <1>1, <1>2, <1>3, <1>5 DEF IsInjective
  <1> QED
    BY <1>2, <1>6, <1>7 DEF r

(* A list somebody is on is not empty, and the other way round.            *)
LEMMA EmptyRange ==
    ASSUME NEW S, NEW s \in Seq(S)
    PROVE  s = <<>> <=> Range(s) = {}
  <1>1. Len(s) \in Nat /\ DOMAIN s = 1..Len(s)
    BY LenProperties
  <1>2. s = <<>> => Range(s) = {}
    BY <1>1, EmptySeq DEF Range
  <1>3. s # <<>> => s[1] \in Range(s)
    <2>1. s # <<>> => Len(s) \in Nat \ {0}
      BY EmptySeq
    <2>2. s # <<>> => 1 \in DOMAIN s
      BY <1>1, <2>1
    <2> QED
      BY <2>2 DEF Range
  <1> QED
    BY <1>2, <1>3

-----------------------------------------------------------------------------
(* RegisterPortableWaiter gets the registered entry, or one that no thread *)
(* holds.                                                                  *)
LEMMA EntryFound ==
    ASSUME AddressAssumption, AddressTypeOK
    PROVE  /\ Entry \in Entries
           /\ sa_registered # 0 => Entry = sa_registered
           /\ sa_registered = 0 => \A t \in AddressThreads : sa_wait[t].entry # Entry
  <1>1. CASE sa_registered # 0
    BY <1>1 DEF Entry, AddressTypeOK
  <1>2. CASE sa_registered = 0
    <2> DEFINE held == [t \in AddressThreads |-> sa_wait[t].entry]
    <2>1. held \in [AddressThreads -> Entries \cup {0}]
      BY DEF AddressTypeOK
    <2>2. PICK e \in Entries : \A t \in AddressThreads : held[t] # e
      BY <2>1 DEF AddressAssumption
    <2>3. e \notin InUse
      BY <1>2, <2>2 DEF InUse, AddressAssumption
    <2>4. Entry \in Entries /\ Entry \notin InUse
      BY <1>2, <2>3 DEF Entry
    <2> QED
      BY <1>2, <2>4 DEF InUse
  <1> QED
    BY <1>1, <1>2

(* The locals of a call that is over.                                      *)
LEMMA NoWaitType ==
    ASSUME AddressAssumption
    PROVE  /\ NoWait \in [expected : Words, entry : Entries \cup {0}, timed : BOOLEAN]
           /\ NoWait.entry = 0
  <1>1. (CHOOSE w \in Words : TRUE) \in Words
    BY DEF AddressAssumption
  <1> QED
    BY <1>1 DEF NoWait

(* The registry is empty at first.                                         *)
LEMMA AddressInitInvariant == AddressAssumption /\ AddressInit => AddressIndInv
  <1> SUFFICES ASSUME AddressAssumption, AddressInit PROVE AddressIndInv
    OBVIOUS
  <1>1. sa_wait \in [AddressThreads ->
                        [expected : Words, entry : Entries \cup {0}, timed : BOOLEAN]]
    BY NoWaitType DEF AddressInit
  <1>2. \A e \in Entries : sa_waiters[e] = <<>> /\ sa_waiters[e] \in Seq(AddressThreads)
    BY EmptySeq DEF AddressInit
  <1>3. AddressTypeOK
    BY <1>1, <1>2 DEF AddressInit, AddressTypeOK
  <1>4. \A e \in Entries : DOMAIN sa_waiters[e] = {}
    BY <1>2
  <1>5. Listed
    BY <1>4 DEF AddressInit, Listed, IsInjective, Range
  <1>6. Kept /\ Spent
    BY DEF AddressInit, Kept, Spent
  <1> QED
    BY <1>3, <1>5, <1>6 DEF AddressIndInv

-----------------------------------------------------------------------------
(* A thread joins the list of the address's entry.                         *)
LEMMA ParkStep ==
    ASSUME AddressAssumption, AddressIndInv, NEW t \in AddressThreads, NEW timed \in BOOLEAN,
           Park(t, timed)
    PROVE  AddressIndInv'
  <1>0. AddressTypeOK /\ Listed /\ Kept /\ Spent
    BY DEF AddressIndInv
  <1>1. PICK e \in Entries : e = Entry
    BY <1>0, EntryFound
  <1>2. /\ sa_registered' = e /\ sa_pc' = [sa_pc EXCEPT ![t] = "parked"]
        /\ sa_waiters' = [sa_waiters EXCEPT ![e] = Append(sa_waiters[e], t)]
        /\ sa_wait' = [sa_wait EXCEPT ![t] = [expected |-> word, entry |-> e, timed |-> timed]]
        /\ UNCHANGED <<word, wake_requested, sa_expired, spent>>
        /\ sa_pc[t] = "idle"
    BY <1>1 DEF Park
  <1> USE <1>0
  <1>3. e # 0
    BY DEF AddressAssumption
  <1>4. \A u \in AddressThreads : sa_pc[u] = "parked" => sa_wait[u].entry = e
    BY <1>1, EntryFound DEF Listed, AddressAssumption
  <1>5. /\ sa_waiters[e] \in Seq(AddressThreads) /\ IsInjective(sa_waiters[e])
        /\ t \notin Range(sa_waiters[e])
    BY <1>2 DEF AddressTypeOK, Listed
  <1>6. /\ sa_waiters'[e] \in Seq(AddressThreads) /\ IsInjective(sa_waiters'[e])
        /\ Range(sa_waiters'[e]) = Range(sa_waiters[e]) \cup {t}
        /\ \A f \in Entries : f # e => sa_waiters'[f] = sa_waiters[f]
    BY <1>2, <1>5, AppendRange DEF AddressTypeOK
  <1> DEFINE w == [expected |-> word, entry |-> e, timed |-> timed]
  <1>7. w \in [expected : Words, entry : Entries \cup {0}, timed : BOOLEAN] /\ w.entry = e
    BY DEF AddressTypeOK
  <1>8. sa_wait' = [sa_wait EXCEPT ![t] = w]
    BY <1>2
  <1> HIDE DEF w
  <1>9. /\ sa_wait' \in [AddressThreads ->
                            [expected : Words, entry : Entries \cup {0}, timed : BOOLEAN]]
        /\ sa_wait'[t].entry = e /\ \A u \in AddressThreads : u # t => sa_wait'[u] = sa_wait[u]
    BY <1>7, <1>8 DEF AddressTypeOK
  <1>10. /\ sa_pc' \in [AddressThreads -> {"idle", "parked", "erase"}] /\ sa_pc'[t] = "parked"
         /\ \A u \in AddressThreads : u # t => sa_pc'[u] = sa_pc[u]
    BY <1>2 DEF AddressTypeOK
  <1>11. sa_waiters' \in [Entries -> Seq(AddressThreads)]
    BY <1>2, <1>6 DEF AddressTypeOK
  <1>12. AddressTypeOK'
    BY <1>2, <1>9, <1>10, <1>11 DEF AddressTypeOK
  <1>13. Listed'
    <2>1. ASSUME NEW f \in Entries
          PROVE  /\ IsInjective(sa_waiters'[f])
                 /\ Range(sa_waiters'[f]) = {u \in AddressThreads : sa_pc'[u] = "parked"
                                                          /\ sa_wait'[u].entry = f}
      <3>1. CASE f = e
        BY <1>2, <1>5, <1>6, <1>9, <1>10, <3>1 DEF Listed
      <3>2. CASE f # e
        BY <1>2, <1>6, <1>9, <1>10, <3>2 DEF Listed
      <3> QED
        BY <3>1, <3>2
    <2>2. ASSUME NEW u \in AddressThreads
          PROVE  /\ sa_pc'[u] = "parked" => sa_wait'[u].entry = sa_registered'
                 /\ sa_pc'[u] # "idle" => sa_wait'[u].entry \in Entries
      BY <1>2, <1>4, <1>9, <1>10 DEF Listed
    <2> QED
      BY <2>1, <2>2 DEF Listed
  <1>14. Kept'
    BY <1>2, <1>9, <1>10 DEF Kept
  <1>15. Spent'
    BY <1>2, <1>10 DEF Spent
  <1> QED
    BY <1>12, <1>13, <1>14, <1>15 DEF AddressIndInv

(* A thread that finds another word keeps the entry until it erases it.    *)
LEMMA PassStep ==
    ASSUME AddressAssumption, AddressIndInv, NEW t \in AddressThreads, Pass(t)
    PROVE  AddressIndInv'
  <1>0. AddressTypeOK /\ Listed /\ Kept /\ Spent
    BY DEF AddressIndInv
  <1>1. PICK e \in Entries : e = Entry
    BY <1>0, EntryFound
  <1>2. /\ sa_registered' = e /\ sa_pc' = [sa_pc EXCEPT ![t] = "erase"]
        /\ sa_wait' = [sa_wait EXCEPT ![t].entry = e]
        /\ UNCHANGED <<word, sa_waiters, wake_requested, sa_expired, spent>>
        /\ sa_pc[t] = "idle"
    BY <1>1 DEF Pass
  <1> USE <1>0
  <1>3. \A u \in AddressThreads : sa_pc[u] = "parked" => sa_wait[u].entry = e
    BY <1>1, EntryFound DEF Listed, AddressAssumption
  <1>4. /\ sa_wait' \in [AddressThreads ->
                            [expected : Words, entry : Entries \cup {0}, timed : BOOLEAN]]
        /\ sa_wait'[t].entry = e /\ \A u \in AddressThreads : u # t => sa_wait'[u] = sa_wait[u]
    BY <1>2 DEF AddressTypeOK
  <1>5. /\ sa_pc' \in [AddressThreads -> {"idle", "parked", "erase"}] /\ sa_pc'[t] = "erase"
        /\ \A u \in AddressThreads : u # t => sa_pc'[u] = sa_pc[u]
    BY <1>2 DEF AddressTypeOK
  <1>6. AddressTypeOK'
    BY <1>2, <1>4, <1>5 DEF AddressTypeOK
  <1>7. Listed'
    <2>1. ASSUME NEW f \in Entries
          PROVE  {u \in AddressThreads : sa_pc'[u] = "parked" /\ sa_wait'[u].entry = f}
                   = {u \in AddressThreads : sa_pc[u] = "parked" /\ sa_wait[u].entry = f}
      BY <1>2, <1>4, <1>5
    <2>2. ASSUME NEW u \in AddressThreads
          PROVE  /\ sa_pc'[u] = "parked" => sa_wait'[u].entry = sa_registered'
                 /\ sa_pc'[u] # "idle" => sa_wait'[u].entry \in Entries
      BY <1>2, <1>3, <1>4, <1>5 DEF Listed
    <2> QED
      BY <1>2, <2>1, <2>2 DEF Listed
  <1>8. Kept'
    BY <1>2, <1>4, <1>5 DEF Kept
  <1>9. Spent'
    BY <1>2, <1>5 DEF Spent
  <1> QED
    BY <1>6, <1>7, <1>8, <1>9 DEF AddressIndInv

(* A thread leaves its list, and if that is empty it looks again.          *)
LEMMA UnregisterStep ==
    ASSUME AddressAssumption, AddressIndInv, NEW t \in AddressThreads, sa_pc[t] = "parked",
           NEW result, Unregister(t, result),
           result = "Ok" \/ t \notin wake_requested
    PROVE  AddressIndInv'
  <1>0. AddressTypeOK /\ Listed /\ Kept /\ Spent
    BY DEF AddressIndInv
  <1>1. PICK e \in Entries : e = sa_wait[t].entry
    BY <1>0 DEF Listed
  <1>2. PICK rest : rest = RemoveFirst(sa_waiters[e], t)
    OBVIOUS
  <1>3. /\ sa_waiters' = [sa_waiters EXCEPT ![e] = rest]
        /\ wake_requested' = wake_requested \ {t}
        /\ spent' = IF result = "Ok" THEN spent \ {t} ELSE spent
        /\ sa_expired' = sa_expired \ {t}
        /\ sa_pc' = [sa_pc EXCEPT ![t] = IF rest = <<>> THEN "erase" ELSE "idle"]
        /\ sa_wait' = IF rest = <<>> THEN sa_wait ELSE [sa_wait EXCEPT ![t] = NoWait]
        /\ UNCHANGED <<word, sa_registered>>
    BY <1>1, <1>2 DEF Unregister
  <1> USE <1>0
  <1>4. sa_waiters[e] \in Seq(AddressThreads) /\ IsInjective(sa_waiters[e])
    BY DEF AddressTypeOK, Listed
  <1>5. /\ rest \in Seq(AddressThreads) /\ IsInjective(rest)
        /\ Range(rest) = Range(sa_waiters[e]) \ {t}
    BY <1>2, <1>4, RemoveFirstRange
  <1>6. /\ sa_waiters' \in [Entries -> Seq(AddressThreads)] /\ sa_waiters'[e] = rest
        /\ \A f \in Entries : f # e => sa_waiters'[f] = sa_waiters[f]
    BY <1>3, <1>5 DEF AddressTypeOK
  <1>7. /\ sa_wait' \in [AddressThreads ->
                            [expected : Words, entry : Entries \cup {0}, timed : BOOLEAN]]
        /\ \A u \in AddressThreads : u # t => sa_wait'[u] = sa_wait[u]
        /\ rest = <<>> => sa_wait'[t] = sa_wait[t]
    BY <1>3, NoWaitType DEF AddressTypeOK
  <1>8. /\ sa_pc' \in [AddressThreads -> {"idle", "parked", "erase"}]
        /\ sa_pc'[t] = IF rest = <<>> THEN "erase" ELSE "idle"
        /\ \A u \in AddressThreads : u # t => sa_pc'[u] = sa_pc[u]
    BY <1>3 DEF AddressTypeOK
  <1>9. AddressTypeOK'
    BY <1>3, <1>6, <1>7, <1>8 DEF AddressTypeOK
  <1>10. Listed'
    <2>1. ASSUME NEW f \in Entries
          PROVE  /\ IsInjective(sa_waiters'[f])
                 /\ Range(sa_waiters'[f]) = {u \in AddressThreads : sa_pc'[u] = "parked"
                                                          /\ sa_wait'[u].entry = f}
      <3>1. sa_pc'[t] # "parked"
        BY <1>8
      <3>2. CASE f = e
        BY <1>5, <1>6, <1>7, <1>8, <3>1, <3>2 DEF Listed
      <3>3. CASE f # e
        <4>1. {u \in AddressThreads : sa_pc'[u] = "parked" /\ sa_wait'[u].entry = f}
                = {u \in AddressThreads : sa_pc[u] = "parked" /\ sa_wait[u].entry = f}
          BY <1>1, <1>7, <1>8, <3>1, <3>3
        <4> QED
          BY <1>6, <3>3, <4>1 DEF Listed
      <3> QED
        BY <3>2, <3>3
    <2>2. ASSUME NEW u \in AddressThreads
          PROVE  /\ sa_pc'[u] = "parked" => sa_wait'[u].entry = sa_registered'
                 /\ sa_pc'[u] # "idle" => sa_wait'[u].entry \in Entries
      BY <1>1, <1>3, <1>7, <1>8 DEF Listed
    <2> QED
      BY <2>1, <2>2 DEF Listed
  <1>11. Kept'
    <2>1. CASE rest = <<>>
      BY <1>1, <1>3, <1>7, <1>8, <2>1 DEF Kept, Listed
    <2>2. CASE rest # <<>>
      <3>1. PICK u : u \in Range(rest)
        BY <1>5, <2>2, EmptyRange
      <3>2. u \in AddressThreads /\ u # t /\ sa_pc[u] = "parked" /\ sa_wait[u].entry = sa_registered
        BY <1>5, <3>1 DEF Listed
      <3> QED
        BY <1>3, <1>7, <1>8, <3>2 DEF Kept
    <2> QED
      BY <2>1, <2>2
  <1>12. Spent'
    BY <1>3, <1>8 DEF Spent
  <1> QED
    BY <1>9, <1>10, <1>11, <1>12 DEF AddressIndInv

(* The entry is erased if it is still the registered one and still empty.  *)
LEMMA EraseStep ==
    ASSUME AddressAssumption, AddressIndInv, NEW t \in AddressThreads, Erase(t)
    PROVE  AddressIndInv'
  <1>0. AddressTypeOK /\ Listed /\ Kept /\ Spent
    BY DEF AddressIndInv
  <1> USE <1>0 DEF Erase
  <1>1. /\ sa_wait' \in [AddressThreads ->
                            [expected : Words, entry : Entries \cup {0}, timed : BOOLEAN]]
        /\ \A u \in AddressThreads : u # t => sa_wait'[u] = sa_wait[u]
    BY NoWaitType DEF AddressTypeOK
  <1>2. /\ sa_pc' \in [AddressThreads -> {"idle", "parked", "erase"}] /\ sa_pc'[t] = "idle"
        /\ \A u \in AddressThreads : u # t => sa_pc'[u] = sa_pc[u]
    BY DEF AddressTypeOK
  <1>3. AddressTypeOK'
    BY <1>1, <1>2 DEF AddressTypeOK
  <1>4. PICK e \in Entries : e = sa_wait[t].entry
    BY DEF Listed
  <1>5. sa_waiters[e] = <<>> <=>
            ~\E u \in AddressThreads : sa_pc[u] = "parked" /\ sa_wait[u].entry = e
    <2>1. sa_waiters[e] \in Seq(AddressThreads)
      BY DEF AddressTypeOK
    <2>2. Range(sa_waiters[e]) = {u \in AddressThreads :
                                     sa_pc[u] = "parked" /\ sa_wait[u].entry = e}
      BY DEF Listed
    <2> QED
      BY <2>1, <2>2, EmptyRange
  <1>6. Listed'
    <2>1. ASSUME NEW f \in Entries
          PROVE  {u \in AddressThreads : sa_pc'[u] = "parked" /\ sa_wait'[u].entry = f}
                   = {u \in AddressThreads : sa_pc[u] = "parked" /\ sa_wait[u].entry = f}
      BY <1>1, <1>2
    <2>2. ASSUME NEW u \in AddressThreads
          PROVE  /\ sa_pc'[u] = "parked" => sa_wait'[u].entry = sa_registered'
                 /\ sa_pc'[u] # "idle" => sa_wait'[u].entry \in Entries
      BY <1>1, <1>2, <1>4, <1>5 DEF Listed, MayErase
    <2> QED
      BY <2>1, <2>2 DEF Listed
  <1>7. Kept'
    <2>1. CASE MayErase(t)
      BY <2>1 DEF Kept
    <2>2. CASE sa_registered = e /\ sa_waiters[e] # <<>>
      BY <1>1, <1>2, <1>4, <1>5, <2>2 DEF Kept, MayErase
    <2>3. CASE sa_registered # e
      BY <1>1, <1>2, <1>4, <2>3 DEF Kept, MayErase
    <2> QED
      BY <1>4, <2>1, <2>2, <2>3 DEF MayErase
  <1>8. Spent'
    BY <1>2 DEF Spent
  <1> QED
    BY <1>3, <1>6, <1>7, <1>8 DEF AddressIndInv

(* A wake is spent on threads of the registered entry's list.              *)
LEMMA WakeStep ==
    ASSUME AddressAssumption, AddressIndInv, NEW n, Wake(n)
    PROVE  AddressIndInv'
  <1>1. sa_registered \in Entries
    BY DEF Wake, AddressIndInv, AddressTypeOK
  <1>2. Woken(n) \subseteq Range(sa_waiters[sa_registered])
    BY DEF Woken, Range
  <1>3. Woken(n) \subseteq {t \in AddressThreads : sa_pc[t] = "parked"}
    BY <1>1, <1>2 DEF AddressIndInv, Listed
  <1>4. AddressTypeOK'
    BY <1>3 DEF Wake, AddressIndInv, AddressTypeOK
  <1>5. Listed' /\ Kept'
    BY DEF Wake, AddressIndInv, Listed, Kept
  <1>6. Spent'
    BY <1>3 DEF Wake, AddressIndInv, Spent
  <1> QED
    BY <1>4, <1>5, <1>6 DEF AddressIndInv

(* Every step on the address keeps the invariant.                          *)
LEMMA AddressNextInvariant ==
    AddressAssumption /\ AddressIndInv /\ [AddressNext]_addressVars => AddressIndInv'
  <1> SUFFICES ASSUME AddressAssumption, AddressIndInv, [AddressNext]_addressVars
               PROVE  AddressIndInv'
    OBVIOUS
  <1>1. ASSUME NEW w \in Words, Store(w) PROVE AddressIndInv'
    BY <1>1 DEF Store, AddressIndInv, AddressTypeOK, Listed, Kept, Spent
  <1>2. ASSUME NEW t \in AddressThreads, AddressExpire(t) PROVE AddressIndInv'
    BY <1>2 DEF AddressExpire, AddressIndInv, AddressTypeOK, Listed, Kept, Spent
  <1>3. ASSUME NEW t \in AddressThreads, WaitReturns(t) \/ WaitTimesOut(t) PROVE AddressIndInv'
    BY <1>3, UnregisterStep DEF WaitReturns, WaitTimesOut, MayTimeOut
  <1>4. CASE UNCHANGED addressVars
    BY <1>4 DEF addressVars, AddressIndInv, AddressTypeOK, Listed, Kept, Spent
  <1> QED
    BY <1>1, <1>2, <1>3, <1>4, WakeStep, ParkStep, PassStep, EraseStep DEF AddressNext

-----------------------------------------------------------------------------
(* The inductive invariant holds in every reachable state.                 *)
THEOREM AddressInvariance == ASSUME AddressAssumption PROVE AddressSpec => []AddressIndInv
  <1>1. AddressInit => AddressIndInv
    BY AddressInitInvariant
  <1>2. AddressIndInv /\ [AddressNext]_addressVars => AddressIndInv'
    BY AddressNextInvariant
  <1> QED
    BY <1>1, <1>2, PTL DEF AddressSpec

(* A parked thread is on the list of the entry that the registry has for   *)
(* the address, the entry is gone when nobody is inside a wait, and no     *)
(* wake is spent on a thread that reports a time-out.                      *)
THEOREM NoWakeLost == ASSUME AddressAssumption PROVE AddressSpec => []WaitersAreFound
  <1>1. ASSUME AddressIndInv PROVE WaitersAreFound
    <2>1. ASSUME NEW t \in AddressThreads, sa_pc[t] = "parked"
          PROVE  sa_registered = sa_wait[t].entry /\ t \in Range(sa_waiters[sa_registered])
      BY <1>1, <2>1 DEF AddressIndInv, Listed
    <2>2. (\A t \in AddressThreads : sa_pc[t] = "idle") => sa_registered = 0
      BY <1>1 DEF AddressIndInv, Kept
    <2>3. spent \subseteq {t \in AddressThreads : sa_pc[t] = "parked"}
      BY <1>1 DEF AddressIndInv, Spent
    <2> QED
      BY <2>1, <2>2, <2>3 DEF WaitersAreFound
  <1> QED
    BY <1>1, AddressInvariance, PTL

-----------------------------------------------------------------------------
(* The event flag.                                                         *)

Parked == {t \in FlagThreads : ef_pc[t] = "parked"}

IndInv == FlagTypeOK /\ WaitersCounted

(* The parked threads are finitely many, and counted by a natural number.  *)
LEMMA ParkedFinite ==
    /\ IsFiniteSet(Parked)
    /\ Cardinality(Parked) \in Nat
  <1>1. Parked \subseteq FlagThreads
    BY DEF Parked
  <1>2. IsFiniteSet(Parked)
    BY <1>1, FlagAssumption, FS_Subset
  <1> QED
    BY <1>2, FS_CardinalityType

(* A thread that returns is not parked; the others are where they were.    *)
LEMMA ReturnParked ==
    ASSUME FlagTypeOK, NEW t \in FlagThreads, Return(t)
    PROVE  /\ ef_pc' \in [FlagThreads -> {"idle", "call", "parked"}]
           /\ op' \in [FlagThreads -> Operations \cup {NoOperation}]
           /\ expired' \subseteq FlagThreads
           /\ Parked' = Parked \ {t}
  BY DEF Return, FlagTypeOK, Parked

(* The count kept by Unparked is the number of threads still parked.       *)
LEMMA UnparkedCounts ==
    ASSUME FlagTypeOK, WaitersCounted, NEW t \in FlagThreads
    PROVE  /\ Unparked(t) = Cardinality(Parked \ {t})
           /\ Unparked(t) \in Nat /\ Unparked(t) <= waiters
  <1>1. waiters = Cardinality(Parked) /\ waiters \in Nat
    BY ParkedFinite DEF WaitersCounted, Parked
  <1>2. CASE ef_pc[t] = "parked"
    <2>1. t \in Parked
      BY <1>2 DEF Parked
    <2>2. Cardinality(Parked \ {t}) = Cardinality(Parked) - 1
      BY <2>1, ParkedFinite, FS_RemoveElement
    <2>3. Cardinality(Parked \ {t}) \in Nat
      BY ParkedFinite, FS_RemoveElement, FS_CardinalityType
    <2> QED
      BY <1>1, <1>2, <2>2, <2>3 DEF Unparked
  <1>3. CASE ef_pc[t] # "parked"
    <2>1. Parked \ {t} = Parked
      BY <1>3 DEF Parked
    <2> QED
      BY <1>1, <1>3, <2>1 DEF Unparked
  <1> QED
    BY <1>2, <1>3

(* Operations that return from "call" without touching waiters.            *)
LEMMA CallReturns ==
    ASSUME IndInv, NEW t \in FlagThreads, ef_pc[t] # "parked", Return(t), waiters' = waiters,
           single' = single
    PROVE  WaitersCounted'
  <1>1. Parked' = Parked
    BY ReturnParked DEF IndInv, Parked
  <1> QED
    BY <1>1 DEF IndInv, WaitersCounted, Parked

(* Operations that return from Wait through Unparked.                      *)
LEMMA FlagReturns ==
    ASSUME IndInv, NEW t \in FlagThreads, Return(t), waiters' = Unparked(t), single' = single
    PROVE  WaitersCounted' /\ waiters' \in Nat
  <1>1. Parked' = Parked \ {t}
    BY ReturnParked DEF IndInv
  <1>2. waiters' = Cardinality(Parked') /\ waiters' \in Nat /\ waiters' <= waiters
    BY <1>1, UnparkedCounts DEF IndInv
  <1>3. waiters \in Nat
    BY DEF IndInv, FlagTypeOK
  <1> QED
    BY <1>2, <1>3 DEF IndInv, WaitersCounted, Parked

(* Every step of the flag keeps types and count.                           *)
LEMMA NextInvariant == IndInv /\ [FlagNext]_flagVars => IndInv'
  <1> SUFFICES ASSUME IndInv, [FlagNext]_flagVars PROVE IndInv'
    OBVIOUS
  <1> USE DEF IndInv
  <1>1. ASSUME NEW t \in FlagThreads, Acquire(t) PROVE IndInv'
    <2>1. PICK o \in Operations :
            /\ op' = [op EXCEPT ![t] = o]
            /\ registered' = (o.name # "Delete")
            /\ expired' = IF o.name = "Wait" /\ o.wait.timeout = "zero"
                          THEN expired \cup {t} ELSE expired
      BY <1>1 DEF Acquire
    <2>2. expired' \subseteq FlagThreads
      BY <2>1 DEF FlagTypeOK
    <2>3. FlagTypeOK'
      BY <1>1, <2>1, <2>2 DEF Acquire, FlagTypeOK
    <2>4. Parked' = Parked
      BY <1>1 DEF Acquire, FlagTypeOK, Parked
    <2> QED
      BY <1>1, <2>3, <2>4 DEF Acquire, WaitersCounted, Parked
  <1>2. ASSUME NEW t \in FlagThreads, Expire(t) PROVE IndInv'
    BY <1>2 DEF Expire, flag, FlagTypeOK, WaitersCounted
  <1>3. ASSUME NEW t \in FlagThreads, CloseFlag(t) PROVE IndInv'
    <2>1. FlagTypeOK'
      BY <1>3, ReturnParked DEF CloseFlag, FlagTypeOK
    <2> QED
      BY <1>3, <2>1, CallReturns DEF CloseFlag, Enters
  <1>4. ASSUME NEW t \in FlagThreads, Set(t) PROVE IndInv'
    <2>1. op[t].mask \subseteq Bits
      BY <1>4, FlagAssumption DEF Set, Enters, FlagTypeOK, Operations, NoOperation
    <2>2. FlagTypeOK'
      BY <1>4, <2>1, ReturnParked DEF Set, FlagTypeOK
    <2> QED
      BY <1>4, <2>2, CallReturns DEF Set, Enters
  <1>5. ASSUME NEW t \in FlagThreads, Clear(t) PROVE IndInv'
    <2>1. FlagTypeOK'
      BY <1>5, ReturnParked DEF Clear, FlagTypeOK
    <2> QED
      BY <1>5, <2>1, CallReturns DEF Clear, Enters
  <1>6. ASSUME NEW t \in FlagThreads, Cancel(t) PROVE IndInv'
    <2>1. op[t].mask \subseteq Bits
      BY <1>6, FlagAssumption DEF Cancel, Enters, FlagTypeOK, Operations, NoOperation
    <2>2. FlagTypeOK'
      BY <1>6, <2>1, ReturnParked DEF Cancel, FlagTypeOK
    <2> QED
      BY <1>6, <2>2, CallReturns DEF Cancel, Enters
  <1>7. ASSUME NEW t \in FlagThreads, WaitRefused(t) PROVE IndInv'
    <2>1. FlagTypeOK'
      BY <1>7, ReturnParked DEF WaitRefused, flag, FlagTypeOK
    <2> QED
      BY <1>7, <2>1, CallReturns DEF WaitRefused, Enters, flag
  <1>8. ASSUME NEW t \in FlagThreads, WaitSucceeds(t) PROVE IndInv'
    <2>1. WaitersCounted' /\ waiters' \in Nat
      BY <1>8, FlagReturns DEF WaitSucceeds
    <2> QED
      BY <1>8, <2>1, ReturnParked DEF WaitSucceeds, FlagTypeOK
  <1>9. ASSUME NEW t \in FlagThreads, WaitCanceled(t) PROVE IndInv'
    <2>1. WaitersCounted' /\ waiters' \in Nat
      BY <1>9, FlagReturns DEF WaitCanceled
    <2> QED
      BY <1>9, <2>1, ReturnParked DEF WaitCanceled, FlagTypeOK
  <1>10. ASSUME NEW t \in FlagThreads, WaitEnds(t) PROVE IndInv'
    <2>1. WaitersCounted' /\ waiters' \in Nat
      BY <1>10, FlagReturns DEF WaitEnds
    <2> QED
      BY <1>10, <2>1, ReturnParked DEF WaitEnds, FlagTypeOK
  <1>11. ASSUME NEW t \in FlagThreads, WaitParks(t) PROVE IndInv'
    <2>1. FlagTypeOK'
      BY <1>11 DEF WaitParks, FlagTypeOK
    <2>2. Parked' = Parked \cup {t} /\ t \notin Parked
      BY <1>11 DEF WaitParks, Enters, FlagTypeOK, Parked
    <2>3. Cardinality(Parked') = Cardinality(Parked) + 1
      BY <2>2, ParkedFinite, FS_AddElement
    <2>4. waiters = Cardinality(Parked) /\ waiters \in Nat
      BY ParkedFinite DEF WaitersCounted, Parked
    <2>5. single => waiters = 0
      BY <1>11 DEF WaitParks, MayWait
    <2> QED
      BY <1>11, <2>1, <2>3, <2>4, <2>5 DEF WaitParks, WaitersCounted, Parked
  <1>12. CASE UNCHANGED flagVars
    BY <1>12 DEF flagVars, flag, callers, FlagTypeOK, WaitersCounted
  <1>13. CASE FlagNext
    BY <1>1, <1>2, <1>3, <1>4, <1>5, <1>6, <1>7, <1>8, <1>9, <1>10, <1>11, <1>13
       DEF FlagNext, Steps
  <1> QED
    BY <1>12, <1>13

(* Initially nobody waits.                                                 *)
LEMMA InitInvariant == FlagInit => IndInv
  <1> SUFFICES ASSUME FlagInit PROVE IndInv
    OBVIOUS
  <1>1. FlagTypeOK
    BY FlagAssumption DEF FlagInit, FlagTypeOK
  <1>2. {t \in FlagThreads : ef_pc[t] = "parked"} = {}
    BY DEF FlagInit
  <1>3. Cardinality({}) = 0
    BY FS_EmptySet
  <1> QED
    BY <1>1, <1>2, <1>3 DEF FlagInit, IndInv, WaitersCounted

(* The members of KernelEventFlagPrivate keep their types.                 *)
THEOREM TypeCorrect == FlagSpec => []FlagTypeOK
  <1>1. IndInv => FlagTypeOK
    BY DEF IndInv
  <1> QED
    BY <1>1, InitInvariant, NextInvariant, PTL DEF FlagSpec

(* waiters, the number KernelCancelEventFlag reports, is the number of     *)
(* threads inside Park, and EPERM keeps a second thread out of a           *)
(* single-waiter flag, in every reachable state.                           *)
THEOREM WaitersAreCounted == FlagSpec => []WaitersCounted
  <1>1. IndInv => WaitersCounted
    BY DEF IndInv
  <1> QED
    BY <1>1, InitInvariant, NextInvariant, PTL DEF FlagSpec
=============================================================================
