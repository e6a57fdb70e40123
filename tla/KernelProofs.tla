----------------------------- MODULE KernelProofs -----------------------------
(***************************************************************************)
(* A kernel semaphore loses no permit, leaves no waiter behind that could  *)
(* be served, and lets nobody overtake; in the pool of guest threads,      *)
(* slots, guest stacks and host threads serve one thread at a time.  Both  *)
(* for every set of threads, callers and slots.                            *)
(*                                                                         *)
(* The permits granted and not yet returned are a sum over the threads in  *)
(* line, and WakeWaiters is a loop over the line: MapThenSumSet and        *)
(* CountsLeft are recursive functions, and what they compute is shown by a *)
(* least counterexample (Least).  PermitsReachWaiters is not inductive:    *)
(* Records adds that a thread in line asked for what its record says and   *)
(* that only a ready record holds Ok, without which a time-out could drop  *)
(* a grant, and InOrder that the line is sorted.                           *)
(*                                                                         *)
(* ThreadsExclusive says what must not happen to a guest thread; it is not *)
(* inductive, since the reaper decides on three flags nothing protects.    *)
(* What makes it safe is the history the flags carry: a thread that nobody *)
(* claimed is not detached, whoever joins a thread has one that is not     *)
(* detached, and almost_done outlives a host thread only under the hands   *)
(* of its joiner.  StackInv follows every stack mapped so far to where it  *)
(* is now.  The semaphore, the pool and the tables of memory, at the end   *)
(* of the module, share no state.                                          *)
(***************************************************************************)
EXTENDS KernelSemaphore, GuestThreads, GuestMemory, SequenceTheorems,
        FiniteSetTheorems, NaturalsInduction, WellFoundedInduction, TLAPS

LEMMA Least ==
    ASSUME NEW S \in SUBSET Nat, S # {}
    PROVE  \E x \in S : \A y \in S : x <= y
<1>1. PICK x \in S : \A y \in S : <<y, x>> \notin OpToRel(<, Nat)
  BY NatLessThanWellFounded, WFMin, Zenon
<1>2. \A y \in S : ~(y < x)
  BY <1>1, Zenon DEF OpToRel
<1> QED
  BY <1>2

-----------------------------------------------------------------------------
(* Sums of needs.  MapThenSumSet is a recursive function on the subsets of *)
(* its set; that there is one is shown up to a cardinality, the least one  *)
(* without it being impossible.                                            *)
Grants(w, T) == MapThenSumSet(LAMBDA t : w[t].need, T)

Pick(T) == CHOOSE t \in T : TRUE

IsSum(f, w, T) ==
    f = [s \in SUBSET T |-> IF s = {} THEN 0 ELSE w[Pick(s)].need + f[s \ {Pick(s)}]]

LEMMA WithoutPick ==
    ASSUME NEW T, IsFiniteSet(T), NEW s \in SUBSET T, s # {}
    PROVE  /\ Pick(s) \in s /\ s \ {Pick(s)} \in SUBSET T
           /\ Cardinality(s) \in Nat \ {0}
           /\ Cardinality(s \ {Pick(s)}) = Cardinality(s) - 1
<1>1. IsFiniteSet(s) /\ Pick(s) \in s
  BY FS_Subset DEF Pick
<1>2. Cardinality(s) \in Nat /\ Cardinality(s) # 0
  BY <1>1, FS_CardinalityType, FS_EmptySet
<1>3. Cardinality(s \ {Pick(s)}) = Cardinality(s) - 1
  BY <1>1, FS_RemoveElement
<1> QED
  BY <1>1, <1>2, <1>3

LEMMA SumExists ==
    ASSUME NEW w, NEW T, IsFiniteSet(T)
    PROVE  \E f : IsSum(f, w, T)
<1> DEFINE Upto(n) == {s \in SUBSET T : Cardinality(s) <= n}
<1> DEFINE Sums(f, D) ==
        f = [s \in D |-> IF s = {} THEN 0 ELSE w[Pick(s)].need + f[s \ {Pick(s)}]]
<1> DEFINE Missing == {n \in Nat : ~ \E f : Sums(f, Upto(n))}
<1> HIDE DEF Upto, Sums
<1>1. ASSUME Missing # {} PROVE FALSE
  <2>1. PICK n \in Missing : \A k \in Missing : n <= k
    BY <1>1, Least
  <2>2. n # 0
    <3> DEFINE f == [s \in Upto(0) |-> 0]
    <3>1. \A s \in Upto(0) : s = {}
      <4>1. ASSUME NEW s \in SUBSET T, s # {} PROVE Cardinality(s) \in Nat \ {0}
        BY <4>1, WithoutPick
      <4> QED
        BY <4>1 DEF Upto
    <3>2. Sums(f, Upto(0))
      BY <3>1 DEF Sums
    <3> HIDE DEF f
    <3> QED
      BY <2>1, <3>2
  <2>3. n - 1 \in Nat /\ n - 1 \notin Missing
    BY <2>1, <2>2
  <2>4. PICK f : Sums(f, Upto(n - 1))
    BY <2>3
  <2> DEFINE g == [s \in Upto(n) |-> IF s = {} THEN 0 ELSE w[Pick(s)].need + f[s \ {Pick(s)}]]
  <2>5. ASSUME NEW s \in Upto(n), s # {}
        PROVE  g[s \ {Pick(s)}] = f[s \ {Pick(s)}]
    <3> DEFINE r == s \ {Pick(s)}
    <3>1. r \in Upto(n - 1) /\ r \in Upto(n)
      <4>1. r \in SUBSET T /\ Cardinality(s) \in Nat \ {0} /\ Cardinality(r) = Cardinality(s) - 1
        BY <2>5, WithoutPick DEF Upto
      <4> HIDE DEF r
      <4>2. Cardinality(s) <= n
        BY DEF Upto
      <4> QED
        BY <4>1, <4>2 DEF Upto
    <3> HIDE DEF r
    <3>2. f[r] = IF r = {} THEN 0 ELSE w[Pick(r)].need + f[r \ {Pick(r)}]
      BY <2>4, <3>1 DEF Sums
    <3>3. g[r] = IF r = {} THEN 0 ELSE w[Pick(r)].need + f[r \ {Pick(r)}]
      BY <3>1
    <3> QED
      BY <3>2, <3>3 DEF r
  <2>6. Sums(g, Upto(n))
    BY <2>5 DEF Sums
  <2> QED
    BY <2>1, <2>6
<1>2. Cardinality(T) \in Nat
  BY FS_CardinalityType
<1>3. Upto(Cardinality(T)) = SUBSET T
  BY FS_Subset DEF Upto
<1>4. PICK f : Sums(f, Upto(Cardinality(T)))
  BY <1>1, <1>2
<1> QED
  BY <1>3, <1>4 DEF IsSum, Sums

(* It is determined by the needs it adds.                                  *)
LEMMA SumsAgree ==
    ASSUME NEW v, NEW w, NEW S, NEW T, NEW f, NEW g, IsSum(f, v, S), IsSum(g, w, T),
           NEW U, IsFiniteSet(U), U \subseteq S, U \subseteq T,
           \A t \in U : v[t].need = w[t].need
    PROVE  f[U] = g[U]
<1> DEFINE Bad == {n \in Nat : \E V \in SUBSET U : Cardinality(V) = n /\ f[V] # g[V]}
<1>1. ASSUME Bad # {} PROVE FALSE
  <2>1. PICK n \in Bad : \A k \in Bad : n <= k
    BY <1>1, Least
  <2>2. PICK V \in SUBSET U : Cardinality(V) = n /\ f[V] # g[V]
    BY <2>1
  <2>3. V \in SUBSET S /\ V \in SUBSET T
    OBVIOUS
  <2>4. f[V] = IF V = {} THEN 0 ELSE v[Pick(V)].need + f[V \ {Pick(V)}]
    BY <2>3 DEF IsSum
  <2>5. g[V] = IF V = {} THEN 0 ELSE w[Pick(V)].need + g[V \ {Pick(V)}]
    BY <2>3 DEF IsSum
  <2>6. V # {}
    BY <2>2, <2>4, <2>5
  <2> DEFINE R == V \ {Pick(V)}
  <2>7. Pick(V) \in V /\ R \in SUBSET U /\ n \in Nat \ {0} /\ Cardinality(R) = n - 1
    BY <2>2, <2>6, WithoutPick
  <2>8. f[R] = g[R]
    <3> HIDE DEF R
    <3>1. n - 1 \in Nat /\ n - 1 \notin Bad
      BY <2>1, <2>7
    <3> QED
      BY <2>7, <3>1
  <2> QED
    BY <2>2, <2>4, <2>5, <2>6, <2>7, <2>8
<1>2. Cardinality(U) \in Nat
  BY FS_CardinalityType
<1> QED
  BY <1>1, <1>2

LEMMA GrantsIsSum ==
    ASSUME NEW w, NEW T, IsFiniteSet(T)
    PROVE  \E f : IsSum(f, w, T) /\ Grants(w, T) = f[T]
<1>1. Grants(w, T) = (CHOOSE f : IsSum(f, w, T))[T]
  BY Zenon DEF Grants, MapThenSumSet, MapThenFoldSet, IsSum, Pick
<1> QED
  BY <1>1, SumExists

LEMMA GrantsEmpty ==
    ASSUME NEW w
    PROVE  Grants(w, {}) = 0
<1>1. PICK f : IsSum(f, w, {}) /\ Grants(w, {}) = f[{}]
  BY GrantsIsSum, FS_EmptySet
<1> QED
  BY <1>1 DEF IsSum

LEMMA GrantsAgree ==
    ASSUME NEW v, NEW w, NEW T, IsFiniteSet(T), \A t \in T : v[t].need = w[t].need
    PROVE  Grants(v, T) = Grants(w, T)
  BY GrantsIsSum, SumsAgree

LEMMA GrantsStep ==
    ASSUME NEW w, NEW T, IsFiniteSet(T), T # {}
    PROVE  Grants(w, T) = w[Pick(T)].need + Grants(w, T \ {Pick(T)})
<1> DEFINE R == T \ {Pick(T)}
<1>1. PICK f : IsSum(f, w, T) /\ Grants(w, T) = f[T]
  BY GrantsIsSum
<1>2. IsFiniteSet(R) /\ R \subseteq T
  BY FS_RemoveElement
<1>3. f[T] = w[Pick(T)].need + f[R]
  BY <1>1 DEF IsSum
<1> HIDE DEF R
<1>4. PICK g : IsSum(g, w, R) /\ Grants(w, R) = g[R]
  BY <1>2, GrantsIsSum
<1>5. f[R] = g[R]
  BY <1>1, <1>2, <1>4, SumsAgree
<1> QED
  BY <1>1, <1>3, <1>4, <1>5 DEF R

LEMMA GrantsNat ==
    ASSUME NEW w, NEW T, IsFiniteSet(T), \A t \in T : w[t].need \in Nat
    PROVE  Grants(w, T) \in Nat
<1> DEFINE Bad == {n \in Nat : \E V \in SUBSET T : Cardinality(V) = n /\ Grants(w, V) \notin Nat}
<1>1. ASSUME Bad # {} PROVE FALSE
  <2>1. PICK n \in Bad : \A k \in Bad : n <= k
    BY <1>1, Least
  <2>2. PICK V \in SUBSET T : Cardinality(V) = n /\ Grants(w, V) \notin Nat
    BY <2>1
  <2>3. V # {} /\ IsFiniteSet(V)
    <3>1. Grants(w, {}) \in Nat
      BY GrantsEmpty
    <3> QED
      BY <2>2, <3>1, FS_Subset
  <2> DEFINE R == V \ {Pick(V)}
  <2>4. Pick(V) \in V /\ R \in SUBSET T /\ n \in Nat \ {0} /\ Cardinality(R) = n - 1
    BY <2>2, <2>3, WithoutPick
  <2>5. Grants(w, V) = w[Pick(V)].need + Grants(w, R)
    BY <2>3, GrantsStep
  <2> HIDE DEF R
  <2>6. n - 1 \in Nat /\ n - 1 \notin Bad
    BY <2>1, <2>4
  <2>7. Grants(w, R) \in Nat
    BY <2>4, <2>6
  <2> QED
    BY <2>2, <2>4, <2>5, <2>7
<1>2. Cardinality(T) \in Nat
  BY FS_CardinalityType
<1> QED
  BY <1>1, <1>2

(* Any need can be taken off the sum.                                      *)
LEMMA GrantsRemove ==
    ASSUME NEW w, NEW T, IsFiniteSet(T), \A t \in T : w[t].need \in Nat, NEW t \in T
    PROVE  Grants(w, T) = w[t].need + Grants(w, T \ {t})
<1> DEFINE Fails(V) == \E u \in V : Grants(w, V) # w[u].need + Grants(w, V \ {u})
<1> DEFINE Bad == {n \in Nat : \E V \in SUBSET T : Cardinality(V) = n /\ Fails(V)}
<1>1. ASSUME Bad # {} PROVE FALSE
  <2>1. PICK n \in Bad : \A k \in Bad : n <= k
    BY <1>1, Least
  <2>2. PICK V \in SUBSET T : Cardinality(V) = n /\ Fails(V)
    BY <2>1
  <2>3. PICK u \in V : Grants(w, V) # w[u].need + Grants(w, V \ {u})
    BY <2>2
  <2> DEFINE p == Pick(V)
  <2>4. V # {} /\ IsFiniteSet(V) /\ p \in V
    BY <2>3, FS_Subset DEF Pick
  <2>5. Grants(w, V) = w[p].need + Grants(w, V \ {p})
    BY <2>4, GrantsStep
  <2>6. u # p
    BY <2>3, <2>5
  <2>7. /\ n \in Nat \ {0} /\ IsFiniteSet(V \ {p}) /\ IsFiniteSet(V \ {u})
        /\ Cardinality(V \ {p}) = n - 1 /\ Cardinality(V \ {u}) = n - 1
    <3>1. Cardinality(V) \in Nat /\ Cardinality(V) # 0
      BY <2>4, FS_CardinalityType, FS_EmptySet
    <3> HIDE DEF p
    <3> QED
      BY <2>2, <2>4, <3>1, FS_RemoveElement
  <2> HIDE DEF p
  <2>8. n - 1 \in Nat /\ n - 1 \notin Bad
    BY <2>1, <2>7
  <2>9. ~ Fails(V \ {p}) /\ ~ Fails(V \ {u})
    <3>1. V \ {p} \in SUBSET T /\ V \ {u} \in SUBSET T
      OBVIOUS
    <3> HIDE DEF Fails
    <3> QED
      BY <2>7, <2>8, <3>1
  <2> DEFINE R == V \ {p, u}
  <2>10. R = (V \ {p}) \ {u} /\ R = (V \ {u}) \ {p}
    OBVIOUS
  <2>11. /\ Grants(w, V \ {p}) = w[u].need + Grants(w, R)
         /\ Grants(w, V \ {u}) = w[p].need + Grants(w, R)
    <3>1. u \in V \ {p} /\ p \in V \ {u}
      BY <2>4, <2>6
    <3> QED
      BY <2>9, <2>10, <3>1
  <2>12. Grants(w, R) \in Nat /\ w[u].need \in Nat /\ w[p].need \in Nat
    <3>1. IsFiniteSet(R)
      BY <2>4, FS_Subset
    <3> QED
      BY <2>4, <3>1, GrantsNat
  <2> HIDE DEF R
  <2> QED
    BY <2>3, <2>5, <2>11, <2>12
<1>2. Cardinality(T) \in Nat
  BY FS_CardinalityType
<1>3. ~ Fails(T)
  BY <1>1, <1>2
<1> QED
  BY <1>3

LEMMA GrantsAdd ==
    ASSUME NEW w, NEW T, IsFiniteSet(T), NEW t, t \notin T,
           \A u \in T \cup {t} : w[u].need \in Nat
    PROVE  Grants(w, T \cup {t}) = Grants(w, T) + w[t].need
<1>1. IsFiniteSet(T \cup {t}) /\ (T \cup {t}) \ {t} = T
  BY FS_AddElement
<1>2. Grants(w, T \cup {t}) = w[t].need + Grants(w, T)
  BY <1>1, GrantsRemove
<1> QED
  BY <1>2, GrantsNat

-----------------------------------------------------------------------------
(* A waiter's record says what its thread asked for, and a granted one is  *)
(* ready.                                                                  *)
Records ==
    /\ \A t \in Threads : pc[t] = "waiting" =>
          waiter[t].need = op[t].arg /\ waiter[t].need \in 1..MaxCount
    /\ \A t \in Threads : waiter[t].result = "Ok" => waiter[t].ready

(* Without FIFO order the line is sorted by priority.                      *)
InOrder ==
    ~FifoOrder => \A i, j \in DOMAIN m_waiting_threads :
        i < j => Priority[m_waiting_threads[i]] <= Priority[m_waiting_threads[j]]

SemaInv == PermitsReachWaiters /\ Records /\ InOrder

(* The line of waiters.                                                    *)
LEMMA Line ==
    ASSUME SemaInv
    PROVE  /\ Len(m_waiting_threads) \in Nat
           /\ DOMAIN m_waiting_threads = 1..Len(m_waiting_threads)
           /\ \A i \in 1..Len(m_waiting_threads) :
                 /\ m_waiting_threads[i] \in Threads /\ pc[m_waiting_threads[i]] = "waiting"
                 /\ waiter[m_waiting_threads[i]].need \in Nat \ {0}
                 /\ m_waiting_threads[i] \in Range(m_waiting_threads)
           /\ \A i, j \in 1..Len(m_waiting_threads) :
                 m_waiting_threads[i] = m_waiting_threads[j] => i = j
           /\ \A t \in Range(m_waiting_threads) :
                 \E i \in 1..Len(m_waiting_threads) : t = m_waiting_threads[i]
           /\ IsFiniteSet(Range(m_waiting_threads))
<1> DEFINE q == m_waiting_threads
<1>1. q \in Seq(Threads) /\ Range(q) = {t \in Threads : pc[t] = "waiting"} /\ IsInjective(q)
  BY DEF SemaInv, PermitsReachWaiters, TypeOK, WaitersAreWaiting
<1>2. Len(q) \in Nat /\ DOMAIN q = 1..Len(q)
  BY <1>1, LenProperties
<1>3. \A i \in 1..Len(q) : q[i] \in Range(q)
  BY <1>2 DEF Range
<1>4. \A i \in 1..Len(q) : q[i] \in Threads /\ pc[q[i]] = "waiting"
  BY <1>1, <1>3
<1>5. \A i \in 1..Len(q) : waiter[q[i]].need \in Nat \ {0}
  BY <1>4, CountAssumption DEF SemaInv, Records
<1>6. \A i, j \in 1..Len(q) : q[i] = q[j] => i = j
  BY <1>1, <1>2 DEF IsInjective
<1>7. \A t \in Range(q) : \E i \in 1..Len(q) : t = q[i]
  BY <1>2 DEF Range
<1>8. IsFiniteSet(Range(q))
  <2>1. IsFiniteSet(1..Len(q))
    BY <1>2, FS_Interval
  <2>2. q \in Surjection(1..Len(q), Range(q))
    BY <1>1, <1>2, <1>3, <1>7, LenProperties DEF Surjection
  <2> QED
    BY <2>1, <2>2, FS_Surjection
<1> QED
  BY <1>2, <1>3, <1>4, <1>5, <1>6, <1>7, <1>8

(* WakeWaiters: what is left of the count, waiter by waiter.               *)
Serves(left, i) ==
    LET w == waiter[m_waiting_threads[i]] IN ~w.ready /\ w.need <= left[i - 1]

IsLeft(left, count, n) ==
    left = [i \in 0..n |->
               IF i = 0 THEN count
               ELSE LET w == waiter[m_waiting_threads[i]]
                    IN  IF ~w.ready /\ w.need <= left[i - 1]
                        THEN left[i - 1] - w.need ELSE left[i - 1]]

LEMMA LeftExists ==
    ASSUME NEW count, NEW n \in Nat
    PROVE  \E left : IsLeft(left, count, n)
<1> DEFINE Missing == {k \in Nat : ~ \E left : IsLeft(left, count, k)}
<1>1. ASSUME Missing # {} PROVE FALSE
  <2>1. PICK k \in Missing : \A j \in Missing : k <= j
    BY <1>1, Least
  <2>2. IsLeft([i \in 0..0 |-> count], count, 0)
    BY DEF IsLeft
  <2>3. k # 0
    BY <2>1, <2>2
  <2>4. k - 1 \in Nat /\ k - 1 \notin Missing
    BY <2>1, <2>3
  <2>5. PICK f : IsLeft(f, count, k - 1)
    BY <2>4
  <2> DEFINE step(h, i) ==
                IF i = 0 THEN count
                ELSE LET w == waiter[m_waiting_threads[i]]
                     IN  IF ~w.ready /\ w.need <= h[i - 1] THEN h[i - 1] - w.need ELSE h[i - 1]
  <2> DEFINE g == [i \in 0..k |-> step(f, i)]
  <2>6. \A i \in 0..(k - 1) : f[i] = step(f, i)
    BY <2>5 DEF IsLeft
  <2>7. ASSUME NEW i \in 1..k PROVE g[i - 1] = f[i - 1]
    <3>1. i - 1 \in 0..(k - 1) /\ i - 1 \in 0..k
      BY <2>4
    <3> HIDE DEF step
    <3> QED
      BY <2>6, <3>1
  <2>8. \A i \in 0..k : step(f, i) = step(g, i)
    <3>1. \A i \in 0..k : i = 0 \/ i \in 1..k
      BY <2>4
    <3> HIDE DEF g
    <3> QED
      BY <2>7, <3>1
  <2>9. g = [i \in 0..k |-> step(g, i)]
    <3> HIDE DEF step
    <3> QED
      BY <2>8
  <2>10. IsLeft(g, count, k)
    <3> HIDE DEF g
    <3> QED
      BY <2>9 DEF IsLeft
  <2> HIDE DEF g
  <2> QED
    BY <2>1, <2>10
<1> QED
  BY <1>1

LEMMA LeftStep ==
    ASSUME SemaInv, NEW count
    PROVE  /\ CountsLeft(count)[0] = count
           /\ \A i \in 1..Len(m_waiting_threads) :
                 CountsLeft(count)[i] =
                     IF Serves(CountsLeft(count), i)
                     THEN CountsLeft(count)[i - 1] - waiter[m_waiting_threads[i]].need
                     ELSE CountsLeft(count)[i - 1]
<1> DEFINE n == Len(m_waiting_threads)
<1>1. n \in Nat
  BY Line
<1>2. CountsLeft(count) = CHOOSE left : IsLeft(left, count, n)
  BY Zenon DEF CountsLeft, IsLeft
<1>3. IsLeft(CountsLeft(count), count, n)
  BY <1>1, <1>2, LeftExists
<1> DEFINE left == CountsLeft(count)
<1>4. \A i \in 0..n : left[i] =
         IF i = 0 THEN count
         ELSE LET w == waiter[m_waiting_threads[i]]
              IN  IF ~w.ready /\ w.need <= left[i - 1] THEN left[i - 1] - w.need ELSE left[i - 1]
  <2> HIDE DEF left, n
  <2>1. IsLeft(left, count, n)
    BY <1>3 DEF left
  <2> QED
    BY <2>1 DEF IsLeft
<1> HIDE DEF left, n
<1>5. left[0] = count
  BY <1>1, <1>4
<1>6. ASSUME NEW i \in 1..n
      PROVE  left[i] = IF Serves(left, i) THEN left[i - 1] - waiter[m_waiting_threads[i]].need
                       ELSE left[i - 1]
  <2>1. i \in 0..n /\ i # 0
    BY <1>1
  <2> QED
    BY <1>4, <2>1 DEF Serves
<1> QED
  BY <1>5, <1>6 DEF left, n

(* It never grows.                                                         *)
LEMMA LeftFalls ==
    ASSUME SemaInv, NEW count \in Nat
    PROVE  \A i \in 0..Len(m_waiting_threads) :
              /\ CountsLeft(count)[i] \in Nat
              /\ \A j \in 0..i : CountsLeft(count)[i] <= CountsLeft(count)[j]
<1> DEFINE n == Len(m_waiting_threads)
<1> DEFINE left == CountsLeft(count)
<1> DEFINE Falls(i) == left[i] \in Nat /\ \A j \in 0..i : left[i] <= left[j]
<1> DEFINE need(i) == waiter[m_waiting_threads[i]].need
<1>1. n \in Nat /\ \A i \in 1..n : need(i) \in Nat \ {0}
  BY Line
<1>2. /\ left[0] = count
      /\ \A i \in 1..n : left[i] = IF Serves(left, i) THEN left[i - 1] - need(i) ELSE left[i - 1]
  BY LeftStep
<1>3. \A i \in 1..n : Serves(left, i) => need(i) <= left[i - 1]
  BY DEF Serves
<1> HIDE DEF n, left, need
<1> DEFINE Bad == {i \in Nat : i <= n /\ ~ Falls(i)}
<1>4. ASSUME Bad # {} PROVE FALSE
  <2>1. PICK i \in Bad : \A k \in Bad : i <= k
    BY <1>4, Least
  <2>2. Falls(0)
    BY <1>2
  <2>3. i # 0 /\ i \in 1..n
    BY <1>1, <2>1, <2>2
  <2>4. i - 1 \in Nat /\ i - 1 <= n /\ i - 1 \notin Bad
    BY <1>1, <2>1, <2>3
  <2>5. Falls(i - 1)
    BY <2>4
  <2>6. left[i] \in Nat /\ left[i] <= left[i - 1] /\ left[i - 1] \in Nat
    BY <1>1, <1>2, <1>3, <2>3, <2>5
  <2>7. \A j \in 0..i : j = i \/ j \in 0..(i - 1)
    BY <2>3
  <2>8. \A j \in 0..(i - 1) : left[j] \in Nat
    <3>1. \A j \in 0..(i - 1) : j \in Nat /\ j <= n /\ j \notin Bad
      BY <1>1, <2>1, <2>3
    <3> QED
      BY <3>1
  <2>9. \A j \in 0..i : left[i] <= left[j]
    BY <2>5, <2>6, <2>7, <2>8
  <2> QED
    BY <2>1, <2>6, <2>9
<1>5. \A i \in 0..n : i \in Nat /\ i <= n
  BY <1>1
<1>6. \A i \in 0..n : Falls(i)
  BY <1>4, <1>5
<1> QED
  BY <1>6 DEF n, left

Ok == {t \in Range(m_waiting_threads) : waiter[t].result = "Ok"}

Granted(left, k) ==
    {m_waiting_threads[i] : i \in {j \in 1..k : left[j] # left[j - 1]}}

(* What WakeWaiters takes from the count, it grants.                       *)
LEMMA NothingLostInLine ==
    ASSUME SemaInv, NEW count \in Nat
    PROVE  /\ \A i \in 1..Len(m_waiting_threads) :
                 CountsLeft(count)[i] # CountsLeft(count)[i - 1] <=> Serves(CountsLeft(count), i)
           /\ CountsLeft(count)[Len(m_waiting_threads)]
                  + Grants(waiter, Ok \cup Granted(CountsLeft(count), Len(m_waiting_threads)))
              = count + Grants(waiter, Ok)
<1> DEFINE n == Len(m_waiting_threads)
<1> DEFINE left == CountsLeft(count)
<1> DEFINE need(i) == waiter[m_waiting_threads[i]].need
<1>1. n \in Nat /\ \A i \in 1..n : need(i) \in Nat \ {0}
  BY Line
<1>2. /\ left[0] = count
      /\ \A i \in 1..n : left[i] = IF Serves(left, i) THEN left[i - 1] - need(i) ELSE left[i - 1]
  BY LeftStep
<1>3. \A i \in 0..n : left[i] \in Nat
  BY LeftFalls
<1>4. ASSUME NEW i \in 1..n PROVE left[i] # left[i - 1] <=> Serves(left, i)
  <2> HIDE DEF left, need, n
  <2>1. left[i - 1] \in Nat
    BY <1>1, <1>3
  <2> QED
    BY <1>1, <1>2, <2>1
<1> DEFINE Sum(k) == Grants(waiter, Ok \cup Granted(left, k))
<1> DEFINE Holds(k) == left[k] + Sum(k) = count + Grants(waiter, Ok)
<1>5. \A t \in Range(m_waiting_threads) : waiter[t].need \in Nat
  BY Line
<1>6. \A k \in 0..n : /\ IsFiniteSet(Ok \cup Granted(left, k))
                      /\ Ok \cup Granted(left, k) \subseteq Range(m_waiting_threads)
                      /\ Sum(k) \in Nat
  <2>1. ASSUME NEW k \in 0..n
        PROVE  Ok \cup Granted(left, k) \subseteq Range(m_waiting_threads)
    <3>1. \A i \in 1..k : i \in 1..n
      BY <1>1
    <3> QED
      BY <3>1, Line DEF Ok, Granted
  <2>2. IsFiniteSet(Range(m_waiting_threads))
    BY Line
  <2>3. \A k \in 0..n : IsFiniteSet(Ok \cup Granted(left, k))
    BY <2>1, <2>2, FS_Subset
  <2>4. ASSUME NEW k \in 0..n PROVE Sum(k) \in Nat
    <3>1. \A t \in Ok \cup Granted(left, k) : waiter[t].need \in Nat
      BY <1>5, <2>1
    <3> QED
      BY <2>3, <3>1, GrantsNat
  <2> HIDE DEF Sum, n, left
  <2> QED
    BY <2>1, <2>3, <2>4
<1> DEFINE Bad == {k \in Nat : k <= n /\ ~ Holds(k)}
<1>7. ASSUME Bad # {} PROVE FALSE
  <2>1. PICK k \in Bad : \A j \in Bad : k <= j
    BY <1>7, Least
  <2>2. Holds(0)
    <3>1. Granted(left, 0) = {}
      BY DEF Granted
    <3>2. Ok \cup Granted(left, 0) = Ok
      BY <3>1
    <3>3. left[0] = count
      BY <1>2
    <3>4. Sum(0) = Grants(waiter, Ok)
      BY <3>2
    <3> HIDE DEF left, Sum
    <3> QED
      BY <3>3, <3>4
  <2>3. k # 0 /\ k \in 1..n
    <3> HIDE DEF Holds, n
    <3> QED
      BY <1>1, <2>1, <2>2
  <2>4. k - 1 \in Nat /\ k - 1 <= n /\ k - 1 \notin Bad
    <3> HIDE DEF Holds, n
    <3> QED
      BY <1>1, <2>1, <2>3
  <2>5. Holds(k - 1)
    <3> HIDE DEF Holds, n
    <3> QED
      BY <2>4
  <2>6. k - 1 \in 0..n /\ k \in 0..n
    BY <1>1, <2>3
  <2>7. CASE ~ Serves(left, k)
    <3>1. left[k] = left[k - 1]
      BY <1>2, <2>3, <2>7
    <3>2. Granted(left, k) = Granted(left, k - 1)
      <4>1. {j \in 1..k : left[j] # left[j - 1]} = {j \in 1..(k - 1) : left[j] # left[j - 1]}
        <5>1. \A j \in 1..k : j = k \/ j \in 1..(k - 1)
          BY <2>3
        <5>2. \A j \in 1..(k - 1) : j \in 1..k
          BY <2>3
        <5> HIDE DEF left
        <5> QED
          BY <3>1, <5>1, <5>2
      <4> HIDE DEF left
      <4> QED
        BY <4>1 DEF Granted
    <3> QED
      BY <2>1, <2>5, <3>1, <3>2
  <2>8. CASE Serves(left, k)
    <3> DEFINE T == Ok \cup Granted(left, k - 1)
    <3> DEFINE t == m_waiting_threads[k]
    <3>1. left[k] = left[k - 1] - need(k) /\ left[k] # left[k - 1]
      BY <1>2, <1>4, <2>3, <2>8
    <3>2. Granted(left, k) = Granted(left, k - 1) \cup {t}
      <4>1. {j \in 1..k : left[j] # left[j - 1]} = {j \in 1..(k - 1) : left[j] # left[j - 1]} \cup {k}
        <5>1. \A j \in 1..k : j = k \/ j \in 1..(k - 1)
          BY <2>3
        <5>2. k \in 1..k /\ \A j \in 1..(k - 1) : j \in 1..k
          BY <2>3
        <5> HIDE DEF left
        <5> QED
          BY <3>1, <5>1, <5>2
      <4> HIDE DEF left
      <4> QED
        BY <4>1 DEF Granted
    <3>3. t \notin T
      <4>1. ~ waiter[t].ready /\ t \in Threads
        BY <2>3, <2>8, Line DEF Serves
      <4>2. t \notin Ok
        BY <4>1 DEF Ok, SemaInv, Records
      <4>3. \A j \in 1..(k - 1) : j \in 1..n /\ j # k
        BY <1>1, <2>3
      <4>4. t \notin Granted(left, k - 1)
        BY <2>3, <4>3, Line DEF Granted
      <4> QED
        BY <4>2, <4>4
    <3>4. \A u \in T \cup {t} : waiter[u].need \in Nat
      BY <1>5, <1>6, <2>3, <2>6, Line
    <3>5. Grants(waiter, T \cup {t}) = Grants(waiter, T) + waiter[t].need
      <4>1. IsFiniteSet(T)
        BY <1>6, <2>6
      <4> HIDE DEF T, t
      <4> QED
        BY <3>3, <3>4, <4>1, GrantsAdd
    <3>6. T \cup {t} = Ok \cup Granted(left, k)
      BY <3>2
    <3>7. Sum(k) = Sum(k - 1) + need(k)
      BY <3>5, <3>6
    <3>8. Sum(k - 1) \in Nat /\ left[k - 1] \in Nat /\ need(k) \in Nat
      BY <1>1, <1>3, <1>6, <2>3, <2>6
    <3>9. Holds(k)
      <4>1. left[k - 1] + Sum(k - 1) = count + Grants(waiter, Ok)
        BY <2>5
      <4> HIDE DEF left, Sum, need
      <4> QED
        BY <3>1, <3>7, <3>8, <4>1
    <3> QED
      BY <2>1, <3>9
  <2> QED
    BY <2>7, <2>8
<1>8. Holds(n)
  <2> HIDE DEF Holds, n
  <2>1. n \in Nat /\ n <= n
    BY <1>1
  <2>2. n \notin Bad
    BY <1>7
  <2> QED
    BY <2>1, <2>2
<1> QED
  BY <1>4, <1>8

-----------------------------------------------------------------------------
(* std::find and erase, on a list without duplicates.                      *)
LEMMA RemoveAtIndex ==
    ASSUME NEW S, NEW s \in Seq(S), NEW k \in 1..Len(s)
    PROVE  /\ RemoveAt(s, k) \in Seq(S)
           /\ Len(RemoveAt(s, k)) = Len(s) - 1
           /\ \A i \in 1..(Len(s) - 1) :
                 RemoveAt(s, k)[i] = IF i < k THEN s[i] ELSE s[i + 1]
  <1>1. PICK n \in Nat : n = Len(s)
    BY LenProperties
  <1>2. k \in 1..n /\ \A i \in 1..n : s[i] \in S
    BY <1>1, ElementOfSeq
  <1> DEFINE low == SubSeq(s, 1, k - 1)
             high == SubSeq(s, k + 1, n)
  <1>3. /\ low \in Seq(S) /\ Len(low) = k - 1
        /\ \A i \in 1..(k - 1) : low[i] = s[i]
    <2>1. /\ low \in Seq(S) /\ Len(low) = IF 1 <= k - 1 THEN (k - 1) - 1 + 1 ELSE 0
          /\ \A i \in 1..((k - 1) - 1 + 1) : low[i] = s[1 + i - 1]
      <3>1. 1 \in Int /\ k - 1 \in Int /\ \A i \in 1..(k - 1) : s[i] \in S
        BY <1>2
      <3> QED
        BY <3>1, SubSeqProperties
    <2> HIDE DEF low
    <2>2. Len(low) = k - 1
      BY <1>2, <2>1
    <2>3. ASSUME NEW i \in 1..(k - 1) PROVE low[i] = s[i]
      <3>1. i \in 1..((k - 1) - 1 + 1) /\ 1 + i - 1 = i
        BY <1>2
      <3> QED
        BY <2>1, <3>1
    <2> QED
      BY <2>1, <2>2, <2>3
  <1>4. /\ high \in Seq(S) /\ Len(high) = n - k
        /\ \A i \in 1..(n - k) : high[i] = s[k + i]
    <2>1. /\ high \in Seq(S) /\ Len(high) = IF k + 1 <= n THEN n - (k + 1) + 1 ELSE 0
          /\ \A i \in 1..(n - (k + 1) + 1) : high[i] = s[(k + 1) + i - 1]
      <3>1. k + 1 \in Int /\ n \in Int /\ \A i \in (k + 1)..n : s[i] \in S
        BY <1>2
      <3> QED
        BY <3>1, SubSeqProperties
    <2> HIDE DEF high
    <2>2. Len(high) = n - k
      BY <1>2, <2>1
    <2>3. ASSUME NEW i \in 1..(n - k) PROVE high[i] = s[k + i]
      <3>1. i \in 1..(n - (k + 1) + 1) /\ (k + 1) + i - 1 = k + i
        BY <1>2
      <3> QED
        BY <2>1, <3>1
    <2> QED
      BY <2>1, <2>2, <2>3
  <1> HIDE DEF low, high
  <1> DEFINE r == low \o high
  <1>5. /\ r \in Seq(S) /\ Len(r) = Len(low) + Len(high)
        /\ \A i \in 1..(Len(low) + Len(high)) :
              r[i] = IF i <= Len(low) THEN low[i] ELSE high[i - Len(low)]
    BY <1>3, <1>4, ConcatProperties
  <1>6. r = RemoveAt(s, k)
    BY <1>1 DEF RemoveAt, low, high
  <1> HIDE DEF r
  <1>7. Len(r) = n - 1
    BY <1>2, <1>3, <1>4, <1>5
  <1>8. ASSUME NEW i \in 1..(n - 1) PROVE r[i] = IF i < k THEN s[i] ELSE s[i + 1]
    <2>1. /\ i \in 1..(Len(low) + Len(high))
          /\ i <= Len(low) <=> i < k
      BY <1>2, <1>3, <1>4
    <2>2. CASE i < k
      <3>1. i \in 1..(k - 1)
        BY <1>2, <2>2
      <3> QED
        BY <1>3, <1>5, <2>1, <2>2, <3>1
    <2>3. CASE ~(i < k)
      <3>1. i - (k - 1) \in 1..(n - k) /\ k + (i - (k - 1)) = i + 1
        BY <1>2, <2>3
      <3>2. r[i] = high[i - (k - 1)]
        BY <1>3, <1>5, <2>1, <2>3
      <3> QED
        BY <1>4, <2>3, <3>1, <3>2
    <2> QED
      BY <2>2, <2>3
  <1> QED
    BY <1>1, <1>5, <1>6, <1>7, <1>8

(* std::vector's insert before the k-th element.                           *)
LEMMA InsertAtIndex ==
    ASSUME NEW S, NEW s \in Seq(S), NEW k \in 1..(Len(s) + 1), NEW e \in S
    PROVE  /\ InsertAt(s, k, e) \in Seq(S)
           /\ Len(InsertAt(s, k, e)) = Len(s) + 1
           /\ \A i \in 1..(Len(s) + 1) :
                 InsertAt(s, k, e)[i] = IF i < k THEN s[i] ELSE IF i = k THEN e ELSE s[i - 1]
  <1>1. PICK n \in Nat : n = Len(s)
    BY LenProperties
  <1>2. k \in 1..(n + 1) /\ \A i \in 1..n : s[i] \in S
    BY <1>1, ElementOfSeq
  <1> DEFINE low == SubSeq(s, 1, k - 1)
             high == SubSeq(s, k, n)
  <1>3. /\ low \in Seq(S) /\ Len(low) = k - 1
        /\ \A i \in 1..(k - 1) : low[i] = s[i]
    <2>1. /\ low \in Seq(S) /\ Len(low) = IF 1 <= k - 1 THEN (k - 1) - 1 + 1 ELSE 0
          /\ \A i \in 1..((k - 1) - 1 + 1) : low[i] = s[1 + i - 1]
      <3>1. 1 \in Int /\ k - 1 \in Int /\ \A i \in 1..(k - 1) : s[i] \in S
        BY <1>2
      <3> QED
        BY <3>1, SubSeqProperties
    <2> HIDE DEF low
    <2>2. Len(low) = k - 1
      BY <1>2, <2>1
    <2>3. ASSUME NEW i \in 1..(k - 1) PROVE low[i] = s[i]
      <3>1. i \in 1..((k - 1) - 1 + 1) /\ 1 + i - 1 = i
        BY <1>2
      <3> QED
        BY <2>1, <3>1
    <2> QED
      BY <2>1, <2>2, <2>3
  <1>4. /\ high \in Seq(S) /\ Len(high) = n - k + 1
        /\ \A i \in 1..(n - k + 1) : high[i] = s[k + i - 1]
    <2>1. /\ high \in Seq(S) /\ Len(high) = IF k <= n THEN n - k + 1 ELSE 0
          /\ \A i \in 1..(n - k + 1) : high[i] = s[k + i - 1]
      <3>1. k \in Int /\ n \in Int /\ \A i \in k..n : s[i] \in S
        BY <1>2
      <3> QED
        BY <3>1, SubSeqProperties
    <2> HIDE DEF high
    <2>2. Len(high) = n - k + 1
      BY <1>2, <2>1
    <2> QED
      BY <2>1, <2>2
  <1>5. <<e>> \in Seq(S) /\ Len(<<e>>) = 1 /\ <<e>>[1] = e
    OBVIOUS
  <1> HIDE DEF low, high
  <1> DEFINE mid == low \o <<e>>
  <1>6. /\ mid \in Seq(S) /\ Len(mid) = k
        /\ \A i \in 1..k : mid[i] = IF i < k THEN s[i] ELSE e
    <2> DEFINE one == <<e>>
    <2>1. one \in Seq(S) /\ Len(one) = 1 /\ one[1] = e /\ mid = low \o one
      BY <1>5
    <2> HIDE DEF one, mid
    <2>2. /\ mid \in Seq(S) /\ Len(mid) = Len(low) + Len(one)
          /\ \A i \in 1..(Len(low) + Len(one)) :
                mid[i] = IF i <= Len(low) THEN low[i] ELSE one[i - Len(low)]
      BY <1>3, <2>1, ConcatProperties
    <2>3. Len(mid) = k
      BY <1>2, <1>3, <2>1, <2>2
    <2>4. ASSUME NEW i \in 1..k PROVE mid[i] = IF i < k THEN s[i] ELSE e
      <3>1. i \in 1..(Len(low) + Len(one)) /\ (i <= Len(low) <=> i < k)
        BY <1>2, <1>3, <2>1
      <3>2. CASE i < k
        BY <1>2, <1>3, <2>2, <3>1, <3>2
      <3>3. CASE i = k
        <4>1. i - Len(low) = 1
          BY <1>2, <1>3, <3>3
        <4> QED
          BY <1>2, <2>1, <2>2, <3>1, <3>3, <4>1
      <3> QED
        BY <1>2, <3>2, <3>3
    <2> QED
      BY <2>2, <2>3, <2>4
  <1> DEFINE r == mid \o high
  <1>7. r = InsertAt(s, k, e)
    BY <1>1 DEF InsertAt, low, high
  <1> HIDE DEF mid
  <1>8. /\ r \in Seq(S) /\ Len(r) = Len(mid) + Len(high)
        /\ \A i \in 1..(Len(mid) + Len(high)) :
              r[i] = IF i <= Len(mid) THEN mid[i] ELSE high[i - Len(mid)]
    BY <1>4, <1>6, ConcatProperties
  <1> HIDE DEF r
  <1>9. Len(r) = n + 1
    BY <1>2, <1>4, <1>6, <1>8
  <1>10. ASSUME NEW i \in 1..(n + 1)
         PROVE  r[i] = IF i < k THEN s[i] ELSE IF i = k THEN e ELSE s[i - 1]
    <2>1. i \in 1..(Len(mid) + Len(high))
      BY <1>2, <1>4, <1>6
    <2>2. CASE i <= k
      <3>1. i \in 1..k
        BY <1>2, <2>2
      <3> QED
        BY <1>2, <1>6, <1>8, <2>1, <2>2, <3>1
    <2>3. CASE ~(i <= k)
      <3>1. i - k \in 1..(n - k + 1) /\ k + (i - k) - 1 = i - 1
        BY <1>2, <2>3
      <3>2. r[i] = high[i - k]
        BY <1>6, <1>8, <2>1, <2>3
      <3>3. high[i - k] = s[i - 1]
        BY <1>4, <3>1
      <3>4. ~(i < k) /\ i # k
        BY <1>2, <2>3
      <3> QED
        BY <3>2, <3>3, <3>4
    <2> QED
      BY <2>2, <2>3
  <1> QED
    BY <1>1, <1>7, <1>8, <1>9, <1>10

-----------------------------------------------------------------------------
(* A thread enters the line, behind those it may not overtake.             *)
Sorted(q) ==
    ~FifoOrder => \A i, j \in DOMAIN q : i < j => Priority[q[i]] <= Priority[q[j]]

LEMMA AddWaiterKeeps ==
    ASSUME SemaInv, NEW t \in Threads, pc[t] # "waiting"
    PROVE  /\ AddWaiter(t) \in Seq(Threads) /\ IsInjective(AddWaiter(t))
           /\ Range(AddWaiter(t)) = Range(m_waiting_threads) \cup {t}
           /\ Sorted(AddWaiter(t))
<1> DEFINE q == m_waiting_threads
<1> DEFINE n == Len(q)
<1> DEFINE behind(i) == \A j \in 1..i : FifoOrder \/ Priority[q[j]] <= Priority[t]
<1> DEFINE ahead == {i \in 1..n : behind(i)}
<1>1. /\ q \in Seq(Threads) /\ n \in Nat /\ DOMAIN q = 1..n
      /\ \A i \in 1..n : q[i] \in Threads /\ q[i] # t
      /\ \A i, j \in 1..n : q[i] = q[j] => i = j
  BY Line DEF SemaInv, PermitsReachWaiters, TypeOK
<1>2. \A u \in Threads : Priority[u] \in Nat
  BY ThreadAssumption
<1>3. \E k \in 1..(n + 1) : ahead = 1..(k - 1)
  <2> HIDE DEF n, q
  <2> DEFINE Not == {i \in Nat : i >= 1 /\ (i > n \/ ~ behind(i))}
  <2>1. n + 1 \in Not
    BY <1>1
  <2>2. PICK k \in Not : \A i \in Not : k <= i
    BY <2>1, Least
  <2>3. k \in 1..(n + 1)
    BY <1>1, <2>1, <2>2
  <2>4. ASSUME NEW i \in 1..(k - 1) PROVE i \in ahead
    <3>1. i \in Nat /\ i >= 1 /\ i < k /\ i \in 1..n
      BY <1>1, <2>3
    <3>2. i \notin Not
      BY <2>2, <2>3, <3>1
    <3> HIDE DEF behind
    <3> QED
      BY <1>1, <3>1, <3>2
  <2>5. ASSUME NEW i \in ahead PROVE i \in 1..(k - 1)
    <3>1. i \in 1..n /\ behind(i)
      OBVIOUS
    <3>2. ASSUME k <= i PROVE FALSE
      <4>1. behind(k)
        <5>1. \A j \in 1..k : j \in 1..i
          BY <1>1, <2>3, <3>1, <3>2
        <5> QED
          BY <3>1, <5>1
      <4>2. k <= n
        BY <1>1, <2>3, <3>1, <3>2
      <4> HIDE DEF behind
      <4> QED
        BY <1>1, <2>2, <2>3, <4>1, <4>2
    <3> QED
      BY <1>1, <2>3, <3>1, <3>2
  <2> QED
    BY <2>3, <2>4, <2>5
<1>4. PICK k \in 1..(n + 1) : ahead = 1..(k - 1)
  BY <1>3
<1>5. Cardinality(ahead) + 1 = k
  <2>1. Cardinality(1..(k - 1)) = k - 1
    <3>1. 1 \in Int /\ k - 1 \in Int /\ k \in Nat /\ k >= 1
      BY <1>1
    <3>2. Cardinality(1..(k - 1)) = IF 1 > k - 1 THEN 0 ELSE (k - 1) - 1 + 1
      BY <3>1, FS_Interval
    <3> QED
      BY <3>1, <3>2
  <2>2. Cardinality(ahead) = k - 1
    BY <1>4, <2>1
  <2> HIDE DEF ahead
  <2> QED
    BY <1>1, <2>2
<1>6. AddWaiter(t) = InsertAt(q, k, t)
  <2>1. AddWaiter(t) = InsertAt(q, Cardinality(ahead) + 1, t)
    BY <1>1 DEF AddWaiter
  <2> HIDE DEF ahead
  <2> QED
    BY <1>5, <2>1
<1> DEFINE r == AddWaiter(t)
<1> DEFINE at(i) == IF i < k THEN q[i] ELSE IF i = k THEN t ELSE q[i - 1]
<1>7. /\ r \in Seq(Threads) /\ Len(r) = n + 1 /\ DOMAIN r = 1..(n + 1)
      /\ \A i \in 1..(n + 1) : r[i] = at(i)
  <2> DEFINE ins == InsertAt(q, k, t)
  <2>1. /\ ins \in Seq(Threads) /\ Len(ins) = n + 1
        /\ \A i \in 1..(n + 1) : ins[i] = at(i)
    <3>1. q \in Seq(Threads) /\ k \in 1..(Len(q) + 1) /\ t \in Threads
      BY <1>1
    <3>2. /\ InsertAt(q, k, t) \in Seq(Threads) /\ Len(InsertAt(q, k, t)) = Len(q) + 1
          /\ \A i \in 1..(Len(q) + 1) : InsertAt(q, k, t)[i] =
                IF i < k THEN q[i] ELSE IF i = k THEN t ELSE q[i - 1]
      <4> HIDE DEF q
      <4> QED
        BY <3>1, InsertAtIndex
    <3> QED
      BY <3>2
  <2>2. r = ins
    BY <1>6
  <2> HIDE DEF ins, r, at, n, q
  <2> QED
    BY <2>1, <2>2, LenProperties
<1>8. /\ \A i \in 1..(k - 1) : FifoOrder \/ Priority[q[i]] <= Priority[t]
      /\ k \in 1..n => \E j \in 1..k : ~(FifoOrder \/ Priority[q[j]] <= Priority[t])
  <2>1. \A i \in 1..(k - 1) : i \in 1..i /\ i \in ahead
    BY <1>1, <1>4
  <2>2. k \in 1..n => ~ behind(k)
    BY <1>1, <1>4
  <2> QED
    BY <2>1, <2>2
<1>9. \A i, j \in 1..n : i <= j => FifoOrder \/ Priority[q[i]] <= Priority[q[j]]
  BY <1>1, <1>2 DEF SemaInv, InOrder
<1> HIDE DEF q, n, ahead, behind, r
<1>10. \A i \in 1..(n + 1) : \/ i < k /\ i \in 1..n /\ i \in 1..(k - 1)
                             \/ i = k
                             \/ i > k /\ i - 1 \in 1..n /\ i - 1 >= k
  BY <1>1
<1>11. IsInjective(r)
  <2>1. ASSUME NEW i \in 1..(n + 1), NEW j \in 1..(n + 1), at(i) = at(j) PROVE i = j
    BY <1>1, <1>10, <2>1
  <2> QED
    BY <1>7, <2>1 DEF IsInjective
<1>12. Range(r) = Range(q) \cup {t}
  <2>1. \A i \in 1..(n + 1) : at(i) = t \/ \E j \in 1..n : at(i) = q[j]
    BY <1>10
  <2>2. k \in 1..(n + 1) /\ at(k) = t
    OBVIOUS
  <2>3. ASSUME NEW j \in 1..n PROVE \E i \in 1..(n + 1) : at(i) = q[j]
    <3>1. CASE j < k
      BY <1>1, <3>1
    <3>2. CASE ~(j < k)
      <4>1. j + 1 \in 1..(n + 1) /\ ~(j + 1 < k) /\ j + 1 # k /\ (j + 1) - 1 = j
        BY <1>1, <3>2
      <4> QED
        BY <4>1
    <3> QED
      BY <3>1, <3>2
  <2> HIDE DEF at
  <2>4. Range(r) = {at(i) : i \in 1..(n + 1)}
    BY <1>7 DEF Range
  <2>5. Range(q) = {q[j] : j \in 1..n}
    BY <1>1 DEF Range
  <2> QED
    BY <2>1, <2>2, <2>3, <2>4, <2>5
<1>13. Sorted(r)
  <2> SUFFICES ASSUME ~FifoOrder, NEW i \in 1..(n + 1), NEW j \in 1..(n + 1), i < j
               PROVE  Priority[at(i)] <= Priority[at(j)]
    BY <1>7 DEF Sorted
  <2>1. CASE j < k
    BY <1>1, <1>9, <1>10, <2>1
  <2>2. CASE j = k
    BY <1>1, <1>8, <1>10, <2>2
  <2>3. CASE i = k
    <3>1. j - 1 \in 1..n /\ k \in 1..n /\ k <= j - 1 /\ at(j) = q[j - 1] /\ at(i) = t
      BY <1>1, <1>10, <2>3
    <3>2. PICK m \in 1..k : ~(Priority[q[m]] <= Priority[t])
      BY <1>8, <3>1
    <3>3. m \in 1..n /\ m <= j - 1
      BY <1>1, <3>1
    <3>4. Priority[q[m]] <= Priority[q[j - 1]]
      BY <1>9, <3>1, <3>3
    <3>5. Priority[q[m]] \in Nat /\ Priority[q[j - 1]] \in Nat /\ Priority[t] \in Nat
      BY <1>1, <1>2, <3>1, <3>3
    <3> QED
      BY <3>1, <3>2, <3>4, <3>5
  <2>4. CASE i < k /\ k < j
    <3>1. i \in 1..n /\ j - 1 \in 1..n /\ i <= j - 1 /\ at(i) = q[i] /\ at(j) = q[j - 1]
      BY <1>1, <1>10, <2>4
    <3> QED
      BY <1>9, <3>1
  <2>5. CASE k < i
    <3>1. i - 1 \in 1..n /\ j - 1 \in 1..n /\ i - 1 <= j - 1
          /\ at(i) = q[i - 1] /\ at(j) = q[j - 1]
      BY <1>1, <1>10, <2>5
    <3> QED
      BY <1>9, <3>1
  <2> QED
    BY <1>1, <2>1, <2>2, <2>3, <2>4, <2>5
<1> QED
  BY <1>7, <1>11, <1>12, <1>13 DEF r, q

(* It leaves the line.                                                     *)
LEMMA RemoveWaiterKeeps ==
    ASSUME SemaInv, NEW t \in Range(m_waiting_threads)
    PROVE  /\ RemoveFirst(m_waiting_threads, t) \in Seq(Threads)
           /\ IsInjective(RemoveFirst(m_waiting_threads, t))
           /\ Range(RemoveFirst(m_waiting_threads, t)) = Range(m_waiting_threads) \ {t}
           /\ Sorted(RemoveFirst(m_waiting_threads, t))
<1> DEFINE q == m_waiting_threads
<1> DEFINE n == Len(q)
<1>1. /\ q \in Seq(Threads) /\ n \in Nat /\ DOMAIN q = 1..n
      /\ \A i, j \in 1..n : q[i] = q[j] => i = j
  BY Line DEF SemaInv, PermitsReachWaiters, TypeOK
<1>2. PICK k \in 1..n : q[k] = t
  BY Line
<1> DEFINE r == RemoveFirst(q, t)
<1>3. r = RemoveAt(q, k)
  <2>1. {i \in 1..n : q[i] = t} = {k}
    BY <1>1, <1>2
  <2>2. Min({k}) = k
    BY <1>2 DEF Min
  <2> QED
    BY <1>2, <2>1, <2>2 DEF RemoveFirst, SelectInSeq
<1> DEFINE at(i) == IF i < k THEN i ELSE i + 1
<1>4. /\ r \in Seq(Threads) /\ DOMAIN r = 1..(n - 1)
      /\ \A i \in 1..(n - 1) : r[i] = q[at(i)]
  <2>1. /\ RemoveAt(q, k) \in Seq(Threads) /\ Len(RemoveAt(q, k)) = n - 1
        /\ \A i \in 1..(n - 1) : RemoveAt(q, k)[i] = IF i < k THEN q[i] ELSE q[i + 1]
    BY <1>1, RemoveAtIndex
  <2>2. DOMAIN RemoveAt(q, k) = 1..(n - 1)
    BY <2>1, LenProperties
  <2> HIDE DEF q, n
  <2> QED
    BY <1>3, <2>1, <2>2
<1>5. Sorted(q)
  BY DEF SemaInv, InOrder, Sorted
<1> HIDE DEF q, n, r
<1>6. \A i \in 1..(n - 1) : at(i) \in 1..n /\ at(i) # k
  BY <1>1
<1>7. \A i, j \in 1..(n - 1) : (at(i) = at(j) => i = j) /\ (i < j => at(i) < at(j))
  BY <1>1
<1>8. \A j \in 1..n : j = k \/ \E i \in 1..(n - 1) : at(i) = j
  <2>1. ASSUME NEW j \in 1..n, j < k PROVE \E i \in 1..(n - 1) : at(i) = j
    BY <1>1, <2>1
  <2>2. ASSUME NEW j \in 1..n, k < j PROVE \E i \in 1..(n - 1) : at(i) = j
    <3>1. j - 1 \in 1..(n - 1) /\ at(j - 1) = j
      BY <1>1, <2>2
    <3> QED
      BY <3>1
  <2>3. \A j \in 1..n : j < k \/ j = k \/ k < j
    BY <1>1
  <2> HIDE DEF at
  <2> QED
    BY <2>1, <2>2, <2>3
<1> HIDE DEF at
<1>9. IsInjective(r)
  BY <1>1, <1>4, <1>6, <1>7 DEF IsInjective
<1>10. Range(r) = Range(q) \ {t}
  <2>1. Range(r) = {q[at(i)] : i \in 1..(n - 1)}
    BY <1>4 DEF Range
  <2>2. Range(q) = {q[j] : j \in 1..n}
    BY <1>1 DEF Range
  <2> QED
    BY <1>1, <1>2, <1>6, <1>8, <2>1, <2>2
<1>11. Sorted(r)
  BY <1>1, <1>4, <1>5, <1>6, <1>7 DEF Sorted
<1> QED
  BY <1>4, <1>9, <1>10, <1>11 DEF q, r

-----------------------------------------------------------------------------
LEMMA Conserved == PermitsConserved <=> balance = m_count + Grants(waiter, Ok)
  BY DEF PermitsConserved, Grants, Ok

LEMMA ConservedNext == PermitsConserved' <=> balance' = m_count' + Grants(waiter', Ok')
<1>1. PermitsConserved' <=> (balance = m_count + Grants(waiter, Ok))'
  BY Conserved, PTL
<1> QED
  BY <1>1

Waiters == [need : Int, ready : BOOLEAN, result : {"Ok", "TimedOut", "Canceled", "Deleted"}]

LEMMA SemaTypes ==
    ASSUME SemaInv
    PROVE  /\ \A t \in Threads : op[t].arg \in Int /\ op[t] \in Operations \cup {NoOperation}
           /\ m_count \in Nat /\ m_count <= MaxCount /\ MaxCount \in Nat \ {0}
           /\ InitCount \in 0..MaxCount /\ balance \in Int
           /\ waiter \in [Threads -> Waiters]
           /\ m_waiting_threads \in Seq(Threads) /\ IsInjective(m_waiting_threads)
           /\ Range(m_waiting_threads) = {t \in Threads : pc[t] = "waiting"}
           /\ pc \in [Threads -> {"idle", "call", "waiting"}]
           /\ op \in [Threads -> Operations \cup {NoOperation}]
           /\ expired \subseteq Threads /\ registered \in BOOLEAN /\ m_status \in {"Set", "Deleted"}
<1>1. TypeOK /\ WaitersAreWaiting
  BY DEF SemaInv, PermitsReachWaiters
<1>2. ASSUME NEW o \in Operations \cup {NoOperation} PROVE o.arg \in Int
  <2>1. CASE o \in [name : {"Wait"}, arg : Needs, timeout : Timeouts]
    BY <2>1, CountAssumption
  <2>2. CASE o \in [name : {"Signal", "Cancel"}, arg : Counts, timeout : {"none"}]
    BY <2>2, CountAssumption
  <2>3. CASE o = [name |-> "Delete", arg |-> 0, timeout |-> "none"]
    BY <2>3
  <2>4. CASE o = NoOperation
    BY <2>4 DEF NoOperation
  <2> QED
    BY <2>1, <2>2, <2>3, <2>4 DEF Operations
<1>3. \A t \in Threads : op[t] \in Operations \cup {NoOperation}
  BY <1>1 DEF TypeOK
<1>4. m_count \in Nat /\ m_count <= MaxCount /\ MaxCount \in Nat \ {0}
  BY <1>1, CountAssumption DEF TypeOK
<1> QED
  BY <1>1, <1>2, <1>3, <1>4, CountAssumption DEF TypeOK, WaitersAreWaiting, Waiters

LEMMA OkWaits ==
    ASSUME SemaInv
    PROVE  /\ IsFiniteSet(Ok) /\ Ok \subseteq Range(m_waiting_threads)
           /\ \A t \in Range(m_waiting_threads) : waiter[t].need \in Nat \ {0}
           /\ Grants(waiter, Ok) \in Nat /\ balance = m_count + Grants(waiter, Ok)
<1>1. IsFiniteSet(Ok) /\ Ok \subseteq Range(m_waiting_threads)
  BY Line, FS_Subset DEF Ok
<1>2. \A t \in Range(m_waiting_threads) : waiter[t].need \in Nat \ {0}
  BY Line
<1>3. Grants(waiter, Ok) \in Nat
  BY <1>1, <1>2, GrantsNat
<1>4. balance = m_count + Grants(waiter, Ok)
  BY Conserved DEF SemaInv, PermitsReachWaiters
<1> QED
  BY <1>1, <1>2, <1>3, <1>4

LEMMA SemaInit == Init => SemaInv
<1> SUFFICES ASSUME Init PROVE SemaInv
  OBVIOUS
<1>1. m_waiting_threads \in Seq(Threads) /\ Range(m_waiting_threads) = {}
      /\ DOMAIN m_waiting_threads = {}
  BY DEF Init, Range
<1>2. TypeOK
  BY <1>1, CountAssumption DEF Init, TypeOK, NoWaiter, NoOperation
<1>3. NoSatisfiableWaiter
  BY <1>1 DEF NoSatisfiableWaiter, NotReady
<1>4. PermitsConserved
  <2>1. Ok = {}
    BY <1>1 DEF Ok
  <2>2. balance = m_count + Grants(waiter, {})
    BY GrantsEmpty, CountAssumption DEF Init
  <2> QED
    BY <2>1, <2>2, Conserved
<1>5. WaitersAreWaiting
  BY <1>1 DEF Init, WaitersAreWaiting, IsInjective
<1>6. Records /\ InOrder
  BY <1>1 DEF Init, Records, InOrder, NoWaiter
<1> QED
  BY <1>2, <1>3, <1>4, <1>5, <1>6 DEF SemaInv, PermitsReachWaiters

(* A call returns.                                                         *)
LEMMA Returned ==
    ASSUME SemaInv, NEW t \in Threads, Return(t)
    PROVE  /\ pc' \in [Threads -> {"idle", "call", "waiting"}]
           /\ op' \in [Threads -> Operations \cup {NoOperation}]
           /\ expired' \subseteq Threads
           /\ \A u \in Threads : pc'[u] = "waiting" <=> pc[u] = "waiting" /\ u # t
           /\ \A u \in Threads : u # t => op'[u] = op[u]
  BY SemaTypes DEF Return

(* A step of a thread that is not in line and takes no permits.            *)
LEMMA Aside ==
    ASSUME SemaInv, UNCHANGED <<m_count, m_waiting_threads, waiter, balance>>,
           registered' \in BOOLEAN, m_status' \in {"Set", "Deleted"},
           pc' \in [Threads -> {"idle", "call", "waiting"}],
           op' \in [Threads -> Operations \cup {NoOperation}], expired' \subseteq Threads,
           \A u \in Threads : pc'[u] = "waiting" <=> pc[u] = "waiting",
           \A u \in Threads : pc[u] = "waiting" => op'[u] = op[u]
    PROVE  SemaInv'
<1>1. TypeOK'
  BY DEF SemaInv, PermitsReachWaiters, TypeOK
<1>2. NoSatisfiableWaiter'
  BY DEF SemaInv, PermitsReachWaiters, NoSatisfiableWaiter, NotReady
<1>3. PermitsConserved'
  <2>1. Ok' = Ok
    BY DEF Ok
  <2> QED
    BY <2>1, OkWaits, ConservedNext
<1>4. WaitersAreWaiting'
  BY DEF SemaInv, PermitsReachWaiters, WaitersAreWaiting
<1>5. Records' /\ InOrder'
  BY DEF SemaInv, Records, InOrder
<1> QED
  BY <1>1, <1>2, <1>3, <1>4, <1>5 DEF SemaInv, PermitsReachWaiters

LEMMA AcquireInv ==
    ASSUME SemaInv, NEW t \in Threads, Acquire(t)
    PROVE  SemaInv'
<1>1. PICK o \in Operations : /\ op' = [op EXCEPT ![t] = o]
                              /\ registered' = (o.name # "Delete")
                              /\ expired' = IF o.timeout = "zero" THEN expired \cup {t} ELSE expired
  BY DEF Acquire
<1>2. /\ pc[t] = "idle" /\ pc' = [pc EXCEPT ![t] = "call"]
      /\ UNCHANGED <<m_status, m_count, m_waiting_threads, waiter, balance>>
  BY DEF Acquire
<1>3. registered' \in BOOLEAN
  BY <1>1
<1> QED
  BY <1>1, <1>2, <1>3, SemaTypes, Aside

LEMMA ExpireInv ==
    ASSUME SemaInv, NEW t \in Threads, Expire(t)
    PROVE  SemaInv'
  BY SemaTypes, Aside DEF Expire, object

(* Calls that return without taking or giving a permit.                    *)
LEMMA RejectedInv ==
    ASSUME SemaInv, NEW t \in Threads,
           SignalRejected(t) \/ CancelRejected(t) \/ WaitRejected(t) \/ WaitTimesOutAtOnce(t)
    PROVE  SemaInv'
<1>1. /\ pc[t] = "call" /\ Return(t)
      /\ UNCHANGED <<object, m_count, m_waiting_threads, waiter, balance>>
  BY DEF SignalRejected, CancelRejected, WaitRejected, WaitTimesOutAtOnce, Enters
<1> QED
  BY <1>1, Returned, SemaTypes, Aside DEF object

LEMMA WaitTakesInv ==
    ASSUME SemaInv, NEW t \in Threads, WaitTakes(t)
    PROVE  SemaInv'
<1>1. /\ pc[t] = "call" /\ Return(t) /\ op[t].arg >= 1 /\ m_count >= op[t].arg
      /\ m_count' = m_count - op[t].arg /\ balance' = balance - op[t].arg
      /\ UNCHANGED <<registered, m_status, m_waiting_threads, waiter>>
  BY DEF WaitTakes, Enters, ValidNeed, MayTake, object
<1>2. m_count' \in 0..MaxCount /\ m_count' <= m_count /\ balance' \in Int
  BY <1>1, SemaTypes
<1>3. TypeOK'
  BY <1>1, <1>2, Returned DEF SemaInv, PermitsReachWaiters, TypeOK
<1>4. NoSatisfiableWaiter'
  <2>1. \A u \in NotReady : waiter[u].need > m_count /\ waiter[u].need \in Nat
    BY OkWaits DEF SemaInv, PermitsReachWaiters, NoSatisfiableWaiter, NotReady
  <2>2. NotReady' = NotReady
    BY <1>1 DEF NotReady
  <2> QED
    BY <1>1, <1>2, <2>1, <2>2, SemaTypes DEF NoSatisfiableWaiter
<1>5. PermitsConserved'
  <2>1. Ok' = Ok
    BY <1>1 DEF Ok
  <2> QED
    BY <1>1, <2>1, OkWaits, ConservedNext, SemaTypes
<1>6. WaitersAreWaiting'
  BY <1>1, Returned DEF SemaInv, PermitsReachWaiters, WaitersAreWaiting
<1>7. Records' /\ InOrder'
  BY <1>1, Returned DEF SemaInv, Records, InOrder
<1> QED
  BY <1>3, <1>4, <1>5, <1>6, <1>7 DEF SemaInv, PermitsReachWaiters

(* Whoever is released keeps its need, and nobody is left waiting.         *)
LEMMA Released ==
    ASSUME SemaInv, NEW result \in {"Canceled", "Deleted"}, ReleaseAll(result),
           m_waiting_threads' = m_waiting_threads
    PROVE  /\ waiter' \in [Threads -> Waiters]
           /\ \A t \in Threads : waiter'[t].need = waiter[t].need
           /\ \A t \in Threads : waiter'[t].result = "Ok" => waiter'[t].ready
           /\ NotReady' = {} /\ Ok' = Ok
           /\ Grants(waiter', Ok') = Grants(waiter, Ok)
<1>1. \A t \in Threads : waiter'[t] =
         IF t \in NotReady THEN [waiter[t] EXCEPT !.result = result, !.ready = TRUE]
         ELSE waiter[t]
  BY DEF ReleaseAll
<1>2. \A t \in Threads : waiter[t] \in Waiters
  BY SemaTypes
<1>3. ASSUME NEW t \in Threads
      PROVE  /\ waiter'[t] \in Waiters /\ waiter'[t].need = waiter[t].need
             /\ t \in NotReady => waiter'[t].ready /\ waiter'[t].result = result
             /\ t \notin NotReady => waiter'[t] = waiter[t]
  <2>1. CASE t \notin NotReady
    BY <1>1, <1>2, <2>1
  <2>2. CASE t \in NotReady
    <3>1. waiter'[t] = [waiter[t] EXCEPT !.result = result, !.ready = TRUE]
      BY <1>1, <2>2
    <3>2. waiter[t] \in Waiters
      BY <1>2
    <3> QED
      BY <2>2, <3>1, <3>2 DEF Waiters
  <2> QED
    BY <2>1, <2>2
<1>4. waiter' \in [Threads -> Waiters]
  <2>1. waiter' = [t \in Threads |-> waiter'[t]]
    BY DEF ReleaseAll
  <2> QED
    BY <1>3, <2>1
<1>5. Range(m_waiting_threads) \subseteq Threads
  BY SemaTypes
<1>6. NotReady' = {}
  BY <1>3, <1>5 DEF NotReady
<1>7. \A t \in Threads : waiter[t].result = "Ok" => waiter[t].ready
  BY DEF SemaInv, Records
<1>8. \A t \in Threads : waiter'[t].result = "Ok" <=> waiter[t].result = "Ok"
  BY <1>3, <1>7 DEF NotReady
<1>9. Ok' = Ok
  BY <1>5, <1>8 DEF Ok
<1>10. Grants(waiter', Ok) = Grants(waiter, Ok)
  <2>1. IsFiniteSet(Ok) /\ \A t \in Ok : waiter'[t].need = waiter[t].need
    BY <1>3, <1>5, OkWaits
  <2> QED
    BY <2>1, GrantsAgree
<1>11. \A t \in Threads : waiter'[t].result = "Ok" => waiter'[t].ready
  BY <1>3, <1>7
<1> QED
  BY <1>3, <1>4, <1>6, <1>9, <1>10, <1>11

(* A step that releases every waiter.                                      *)
LEMMA ReleaseInv ==
    ASSUME SemaInv, NEW t \in Threads, NEW result \in {"Canceled", "Deleted"},
           ReleaseAll(result), Return(t), pc[t] = "call",
           UNCHANGED <<registered, m_waiting_threads>>, m_status' \in {"Set", "Deleted"},
           m_count' \in 0..MaxCount, balance' = balance - m_count + m_count'
    PROVE  SemaInv'
<1>1. m_count' \in Int /\ balance' \in Int
  BY SemaTypes
<1>2. TypeOK'
  BY <1>1, Released, Returned, SemaTypes DEF TypeOK, Waiters
<1>3. NoSatisfiableWaiter'
  BY Released DEF NoSatisfiableWaiter
<1>4. PermitsConserved'
  BY <1>1, Released, OkWaits, ConservedNext, SemaTypes
<1>5. WaitersAreWaiting'
  BY Returned, SemaTypes DEF WaitersAreWaiting
<1>6. Records'
  BY Released, Returned DEF SemaInv, Records
<1>7. InOrder'
  BY DEF SemaInv, InOrder
<1> QED
  BY <1>2, <1>3, <1>4, <1>5, <1>6, <1>7 DEF SemaInv, PermitsReachWaiters

LEMMA CloseInv ==
    ASSUME SemaInv, NEW t \in Threads, Close(t)
    PROVE  SemaInv'
<1>1. /\ pc[t] = "call" /\ m_status' = "Deleted" /\ ReleaseAll("Deleted") /\ Return(t)
      /\ UNCHANGED <<registered, m_count, m_waiting_threads, balance>>
  BY DEF Close, Enters
<1>2. m_count' \in 0..MaxCount /\ balance' = balance - m_count + m_count'
  BY <1>1, SemaTypes
<1> QED
  BY <1>1, <1>2, ReleaseInv

LEMMA CancelInv ==
    ASSUME SemaInv, NEW t \in Threads, Cancel(t)
    PROVE  SemaInv'
<1> DEFINE count == IF op[t].arg < 0 THEN InitCount ELSE op[t].arg
<1>1. /\ pc[t] = "call" /\ op[t].arg <= MaxCount /\ m_count' = count
      /\ balance' = balance - m_count + count /\ ReleaseAll("Canceled") /\ Return(t)
      /\ UNCHANGED <<registered, m_status, m_waiting_threads>>
  BY DEF Cancel, Enters, object
<1>2. count \in 0..MaxCount
  BY <1>1, SemaTypes
<1> HIDE DEF count
<1> QED
  BY <1>1, <1>2, ReleaseInv, SemaTypes

-----------------------------------------------------------------------------
(* Signal: what is left of the count in line, and who got something.       *)
After(t) == CountsLeft(m_count + op[t].arg)
Gone(t) == Granted(After(t), Len(m_waiting_threads))

LEMMA SignalStep ==
    ASSUME SemaInv, NEW t \in Threads, Signal(t)
    PROVE  /\ pc[t] = "call" /\ Return(t) /\ op[t].arg > 0
           /\ m_count + op[t].arg \in Nat /\ m_count + op[t].arg <= MaxCount
           /\ m_count' = After(t)[Len(m_waiting_threads)] /\ balance' = balance + op[t].arg
           /\ waiter' = [u \in Threads |->
                            IF u \in Gone(t) THEN [waiter[u] EXCEPT !.result = "Ok", !.ready = TRUE]
                            ELSE waiter[u]]
           /\ UNCHANGED <<registered, m_status, m_waiting_threads>>
<1>1. /\ pc[t] = "call" /\ Return(t) /\ op[t].arg > 0 /\ op[t].arg <= MaxCount - m_count
      /\ m_count' = After(t)[Len(m_waiting_threads)] /\ balance' = balance + op[t].arg
      /\ UNCHANGED <<registered, m_status, m_waiting_threads>>
  BY DEF Signal, Enters, object, After
<1>2. DOMAIN m_waiting_threads = 1..Len(m_waiting_threads)
  BY Line
<1>3. waiter' = [u \in Threads |->
                    IF u \in {m_waiting_threads[i] : i \in
                                 {j \in DOMAIN m_waiting_threads : After(t)[j] # After(t)[j - 1]}}
                    THEN [waiter[u] EXCEPT !.result = "Ok", !.ready = TRUE]
                    ELSE waiter[u]]
  BY Zenon DEF Signal, After
<1>4. Gone(t) = {m_waiting_threads[i] : i \in
                    {j \in DOMAIN m_waiting_threads : After(t)[j] # After(t)[j - 1]}}
  BY <1>2, Zenon DEF Gone, Granted
<1>5. op[t].arg \in Int /\ m_count \in Nat /\ MaxCount \in Nat
  BY SemaTypes
<1>6. m_count + op[t].arg \in Nat /\ m_count + op[t].arg <= MaxCount
  BY <1>1, <1>5
<1>7. waiter' = [u \in Threads |->
                    IF u \in Gone(t) THEN [waiter[u] EXCEPT !.result = "Ok", !.ready = TRUE]
                    ELSE waiter[u]]
  BY <1>3, <1>4, Zenon
<1> QED
  BY <1>1, <1>6, <1>7

LEMMA ServedInLine ==
    ASSUME SemaInv, NEW t \in Threads, m_count + op[t].arg \in Nat
    PROVE  /\ \A i \in 1..Len(m_waiting_threads) :
                 m_waiting_threads[i] \in Gone(t) <=> Serves(After(t), i)
           /\ Gone(t) \subseteq NotReady
<1> DEFINE n == Len(m_waiting_threads)
<1> DEFINE left == After(t)
<1>1. \A i \in 1..n : left[i] # left[i - 1] <=> Serves(left, i)
  BY NothingLostInLine DEF After
<1>2. \A i \in 1..n : Serves(left, i) => ~ waiter[m_waiting_threads[i]].ready
  BY DEF Serves
<1>3. /\ \A i \in 1..n : m_waiting_threads[i] \in Range(m_waiting_threads)
      /\ \A i, j \in 1..n : m_waiting_threads[i] = m_waiting_threads[j] => i = j
  BY Line
<1>4. Gone(t) = {m_waiting_threads[i] : i \in {j \in 1..n : left[j] # left[j - 1]}}
  BY DEF Gone, Granted
<1> HIDE DEF n, left
<1>5. ASSUME NEW i \in 1..n
      PROVE  m_waiting_threads[i] \in Gone(t) <=> left[i] # left[i - 1]
  BY <1>3, <1>4
<1>6. \A i \in 1..n : m_waiting_threads[i] \in Gone(t) <=> Serves(left, i)
  BY <1>1, <1>5
<1>7. ASSUME NEW u \in Gone(t) PROVE u \in NotReady
  <2>1. PICK i \in 1..n : u = m_waiting_threads[i]
    BY <1>4
  <2> QED
    BY <1>2, <1>3, <1>6, <2>1 DEF NotReady
<1> QED
  BY <1>6, <1>7 DEF n, left

(* Who got something is ready with Ok, the others stay as they were.       *)
LEMMA GrantedRecords ==
    ASSUME SemaInv, NEW t \in Threads, Signal(t)
    PROVE  /\ waiter' \in [Threads -> Waiters]
           /\ \A u \in Threads : waiter'[u].need = waiter[u].need
           /\ \A u \in Threads : waiter'[u].result = "Ok" => waiter'[u].ready
           /\ NotReady' = NotReady \ Gone(t) /\ Ok' = Ok \cup Gone(t)
           /\ \A u \in Threads : u \in NotReady /\ waiter'[u].ready => u \in Gone(t)
<1>1. \A u \in Threads : waiter[u] \in Waiters
  BY SemaTypes
<1>2. ASSUME NEW u \in Threads
      PROVE  /\ waiter'[u] \in Waiters /\ waiter'[u].need = waiter[u].need
             /\ u \in Gone(t) => waiter'[u].ready /\ waiter'[u].result = "Ok"
             /\ u \notin Gone(t) => waiter'[u] = waiter[u]
  <2>1. waiter'[u] = IF u \in Gone(t) THEN [waiter[u] EXCEPT !.result = "Ok", !.ready = TRUE]
                     ELSE waiter[u]
    BY SignalStep
  <2>2. waiter[u] \in Waiters
    BY <1>1
  <2>3. CASE u \in Gone(t)
    <3>1. waiter'[u] = [waiter[u] EXCEPT !.result = "Ok", !.ready = TRUE]
      BY <2>1, <2>3
    <3> QED
      BY <2>2, <2>3, <3>1 DEF Waiters
  <2>4. CASE u \notin Gone(t)
    BY <2>1, <2>2, <2>4
  <2> QED
    BY <2>3, <2>4
<1>3. waiter' \in [Threads -> Waiters]
  <2>1. waiter' = [u \in Threads |-> waiter'[u]]
    <3>1. waiter' = [u \in Threads |->
                        IF u \in Gone(t) THEN [waiter[u] EXCEPT !.result = "Ok", !.ready = TRUE]
                        ELSE waiter[u]]
      BY SignalStep
    <3> QED
      BY <3>1
  <2> QED
    BY <1>2, <2>1
<1>4. Range(m_waiting_threads) \subseteq Threads /\ m_waiting_threads' = m_waiting_threads
  BY SemaTypes, SignalStep
<1>5. Gone(t) \subseteq NotReady /\ Gone(t) \subseteq Range(m_waiting_threads)
  BY SignalStep, ServedInLine DEF NotReady
<1>6. NotReady' = NotReady \ Gone(t)
  BY <1>2, <1>4 DEF NotReady
<1>7. Ok' = Ok \cup Gone(t)
  BY <1>2, <1>4, <1>5 DEF Ok
<1>8. \A u \in Threads : waiter[u].result = "Ok" => waiter[u].ready
  BY DEF SemaInv, Records
<1>9. \A u \in Threads : waiter'[u].result = "Ok" => waiter'[u].ready
  BY <1>2, <1>8
<1>10. \A u \in Threads : u \in NotReady /\ waiter'[u].ready => u \in Gone(t)
  BY <1>2 DEF NotReady
<1> QED
  BY <1>2, <1>3, <1>6, <1>7, <1>9, <1>10

(* Who got nothing needs more than was left from there on.                 *)
LEMMA UnservedNeeds ==
    ASSUME SemaInv, NEW t \in Threads, Signal(t), NEW i \in 1..Len(m_waiting_threads),
           m_waiting_threads[i] \in NotReady \ Gone(t)
    PROVE  \A j \in (i - 1)..Len(m_waiting_threads) :
              /\ After(t)[j] \in Nat
              /\ waiter[m_waiting_threads[i]].need > After(t)[j]
<1> DEFINE n == Len(m_waiting_threads)
<1> DEFINE left == After(t)
<1> DEFINE need == waiter[m_waiting_threads[i]].need
<1>1. n \in Nat /\ need \in Nat
  BY Line
<1>2. \A j \in 0..n : left[j] \in Nat /\ \A k \in 0..j : left[j] <= left[k]
  BY SignalStep, LeftFalls DEF After
<1>3. ~ Serves(left, i)
  BY SignalStep, ServedInLine
<1>4. ~(need <= left[i - 1])
  BY <1>3 DEF Serves, NotReady
<1> HIDE DEF n, left, need
<1>5. ASSUME NEW j \in (i - 1)..n PROVE left[j] \in Nat /\ need > left[j]
  <2>1. j \in 0..n /\ i - 1 \in 0..j /\ i - 1 \in 0..n
    BY <1>1
  <2>2. left[j] \in Nat /\ left[i - 1] \in Nat /\ left[j] <= left[i - 1]
    BY <1>2, <2>1
  <2> QED
    BY <1>1, <1>4, <2>2
<1> QED
  BY <1>5 DEF n, left, need

LEMMA SignalInv ==
    ASSUME SemaInv, NEW t \in Threads, Signal(t)
    PROVE  SemaInv'
<1> DEFINE n == Len(m_waiting_threads)
<1> DEFINE count == m_count + op[t].arg
<1>1. /\ pc[t] = "call" /\ Return(t) /\ op[t].arg > 0 /\ count \in Nat /\ count <= MaxCount
      /\ m_count' = After(t)[n] /\ balance' = balance + op[t].arg
      /\ UNCHANGED <<registered, m_status, m_waiting_threads>>
  BY SignalStep
<1>2. n \in Nat /\ n \in 0..n /\ 0 \in 0..n
  BY Line
<1>3. m_count' \in Nat /\ m_count' <= count
  <2>1. After(t)[0] = count
    BY LeftStep DEF After
  <2>2. After(t)[n] \in Nat /\ After(t)[n] <= After(t)[0]
    BY <1>1, <1>2, LeftFalls DEF After
  <2> QED
    BY <1>1, <2>1, <2>2
<1>4. m_count' \in 0..MaxCount /\ balance' \in Int
  <2> HIDE DEF count
  <2> QED
    BY <1>1, <1>3, SemaTypes
<1>5. TypeOK'
  BY <1>1, <1>4, GrantedRecords, Returned, SemaTypes DEF TypeOK, Waiters
<1>6. NoSatisfiableWaiter'
  <2>1. ASSUME NEW u \in NotReady' PROVE waiter'[u].need > m_count'
    <3>1. u \in NotReady \ Gone(t)
      BY GrantedRecords
    <3>2. PICK i \in 1..n : u = m_waiting_threads[i]
      BY <3>1, Line DEF NotReady
    <3>3. n \in (i - 1)..n
      BY <1>2
    <3>4. waiter[u].need > After(t)[n]
      BY <3>1, <3>2, <3>3, UnservedNeeds
    <3>5. u \in Threads
      BY <3>2, Line
    <3> QED
      BY <1>1, <3>4, <3>5, GrantedRecords
  <2> QED
    BY <2>1 DEF NoSatisfiableWaiter
<1>7. PermitsConserved'
  <2>1. m_count' + Grants(waiter, Ok') = count + Grants(waiter, Ok)
    BY <1>1, NothingLostInLine, GrantedRecords DEF After, Gone
  <2>2. Ok' \subseteq Range(m_waiting_threads) /\ IsFiniteSet(Ok')
    <3>1. Gone(t) \subseteq Range(m_waiting_threads)
      BY <1>1, ServedInLine DEF NotReady
    <3> QED
      BY <3>1, GrantedRecords, OkWaits, Line, FS_Subset
  <2>3. \A u \in Ok' : waiter[u].need \in Nat /\ waiter'[u].need = waiter[u].need
    BY <2>2, OkWaits, SemaTypes, GrantedRecords
  <2>4. Grants(waiter', Ok') = Grants(waiter, Ok')
    BY <2>2, <2>3, GrantsAgree
  <2>5. Grants(waiter, Ok') \in Nat
    BY <2>2, <2>3, GrantsNat
  <2>6. balance' = m_count' + Grants(waiter', Ok')
    BY <1>1, <1>3, <2>1, <2>4, <2>5, OkWaits, SemaTypes
  <2> QED
    BY <2>6, ConservedNext
<1>8. WaitersAreWaiting'
  BY <1>1, Returned, SemaTypes DEF WaitersAreWaiting
<1>9. Records'
  BY <1>1, GrantedRecords, Returned DEF SemaInv, Records
<1>10. InOrder'
  BY <1>1 DEF SemaInv, InOrder
<1> QED
  BY <1>5, <1>6, <1>7, <1>8, <1>9, <1>10 DEF SemaInv, PermitsReachWaiters

-----------------------------------------------------------------------------
LEMMA WaitQueuesInv ==
    ASSUME SemaInv, NEW t \in Threads, WaitQueues(t)
    PROVE  SemaInv'
<1> DEFINE q == m_waiting_threads
<1> DEFINE fresh == [NoWaiter EXCEPT !.need = op[t].arg]
<1>1. /\ pc[t] = "call" /\ op[t].arg >= 1 /\ op[t].arg <= MaxCount /\ ~(m_count >= op[t].arg)
      /\ q' = AddWaiter(t) /\ waiter' = [waiter EXCEPT ![t] = fresh]
      /\ pc' = [pc EXCEPT ![t] = "waiting"]
      /\ UNCHANGED <<registered, m_status, m_count, op, expired, balance>>
  <2>1. /\ pc[t] = "call" /\ op[t].arg >= 1 /\ op[t].arg <= MaxCount /\ ~(m_count >= op[t].arg)
        /\ q' = AddWaiter(t) /\ pc' = [pc EXCEPT ![t] = "waiting"]
        /\ UNCHANGED <<registered, m_status, m_count, op, expired, balance>>
    BY DEF WaitQueues, Enters, ValidNeed, MayTake, object
  <2>2. waiter' = [waiter EXCEPT ![t] = fresh]
    BY Zenon DEF WaitQueues
  <2> HIDE DEF fresh
  <2> QED
    BY <2>1, <2>2
<1>2. /\ q' \in Seq(Threads) /\ IsInjective(q') /\ Range(q') = Range(q) \cup {t}
      /\ Sorted(q') /\ t \notin Range(q) /\ Range(q) \subseteq Threads
  BY <1>1, AddWaiterKeeps, SemaTypes
<1>3. op[t].arg \in 1..MaxCount /\ op[t].arg > m_count
  BY <1>1, SemaTypes
<1>4. fresh \in Waiters /\ fresh.need = op[t].arg /\ fresh.result # "Ok" /\ ~fresh.ready
  <2>1. NoWaiter \in Waiters /\ NoWaiter.result # "Ok" /\ ~NoWaiter.ready
    BY DEF NoWaiter, Waiters
  <2> QED
    BY <1>3, <2>1, SemaTypes DEF Waiters
<1> HIDE DEF fresh, q
<1>5. /\ waiter' \in [Threads -> Waiters] /\ waiter'[t] = fresh
      /\ \A u \in Threads : u # t => waiter'[u] = waiter[u]
  BY <1>1, <1>4, SemaTypes
<1>6. /\ pc' \in [Threads -> {"idle", "call", "waiting"}]
      /\ \A u \in Threads : pc'[u] = "waiting" <=> pc[u] = "waiting" \/ u = t
  BY <1>1, SemaTypes
<1>7. TypeOK'
  BY <1>1, <1>2, <1>5, <1>6, SemaTypes DEF TypeOK, Waiters, q
<1>8. NoSatisfiableWaiter'
  <2>1. \A u \in NotReady : waiter[u].need > m_count
    BY DEF SemaInv, PermitsReachWaiters, NoSatisfiableWaiter
  <2>2. ASSUME NEW u \in NotReady', u # t PROVE u \in NotReady /\ waiter'[u] = waiter[u]
    <3>1. u \in Range(q)' /\ ~waiter'[u].ready
      BY DEF NotReady, q
    <3>2. u \in Range(q) /\ waiter'[u] = waiter[u]
      BY <1>2, <1>5, <2>2, <3>1
    <3> QED
      BY <3>1, <3>2 DEF NotReady, q
  <2> QED
    BY <1>1, <1>3, <1>4, <1>5, <2>1, <2>2 DEF NoSatisfiableWaiter
<1>9. PermitsConserved'
  <2>1. Ok' = Ok
    BY <1>2, <1>4, <1>5 DEF Ok, q
  <2>2. \A u \in Ok : waiter'[u].need = waiter[u].need
    BY <1>2, <1>5, OkWaits DEF q
  <2>3. Grants(waiter', Ok) = Grants(waiter, Ok)
    BY <2>2, OkWaits, GrantsAgree
  <2> QED
    BY <1>1, <2>1, <2>3, OkWaits, ConservedNext
<1>10. WaitersAreWaiting'
  BY <1>2, <1>6, SemaTypes DEF WaitersAreWaiting, q
<1>11. Records'
  BY <1>1, <1>3, <1>4, <1>5, <1>6 DEF SemaInv, Records
<1>12. InOrder'
  BY <1>2 DEF InOrder, Sorted, q
<1> QED
  BY <1>7, <1>8, <1>9, <1>10, <1>11, <1>12 DEF SemaInv, PermitsReachWaiters

(* A thread leaves the line, with the permits it was granted.              *)
LEMMA LeaveInv ==
    ASSUME SemaInv, NEW t \in Threads, pc[t] = "waiting", RemoveWaiter(t), Return(t),
           balance' = balance - (IF waiter[t].result = "Ok" THEN waiter[t].need ELSE 0),
           UNCHANGED <<registered, m_status, m_count>>
    PROVE  SemaInv'
<1> DEFINE q == m_waiting_threads
<1>1. t \in Range(q) /\ Range(q) \subseteq Threads
  BY SemaTypes
<1>2. /\ q' \in Seq(Threads) /\ IsInjective(q') /\ Range(q') = Range(q) \ {t} /\ Sorted(q')
  BY <1>1, RemoveWaiterKeeps DEF RemoveWaiter
<1>3. NoWaiter \in Waiters /\ NoWaiter.result # "Ok"
  BY DEF NoWaiter, Waiters
<1> HIDE DEF q
<1>4. /\ waiter' \in [Threads -> Waiters] /\ waiter'[t] = NoWaiter
      /\ \A u \in Threads : u # t => waiter'[u] = waiter[u]
  BY <1>3, SemaTypes DEF RemoveWaiter
<1>5. waiter[t].need \in Nat /\ balance' \in Int
  BY <1>1, OkWaits, SemaTypes DEF q
<1>6. TypeOK'
  BY <1>2, <1>4, <1>5, Returned, SemaTypes DEF TypeOK, Waiters, q
<1>7. NoSatisfiableWaiter'
  <2>1. \A u \in NotReady : waiter[u].need > m_count
    BY DEF SemaInv, PermitsReachWaiters, NoSatisfiableWaiter
  <2>2. \A u \in NotReady' : u \in NotReady /\ waiter'[u] = waiter[u]
    BY <1>1, <1>2, <1>4 DEF NotReady, q
  <2> QED
    BY <2>1, <2>2 DEF NoSatisfiableWaiter
<1>8. PermitsConserved'
  <2>1. Ok' = Ok \ {t}
    BY <1>1, <1>2, <1>4 DEF Ok, q
  <2>2. IsFiniteSet(Ok') /\ \A u \in Ok' : waiter'[u].need = waiter[u].need
    BY <1>1, <1>4, <2>1, OkWaits, FS_RemoveElement DEF q
  <2>3. Grants(waiter', Ok') = Grants(waiter, Ok')
    BY <2>2, GrantsAgree
  <2>4. CASE waiter[t].result = "Ok"
    <3>1. t \in Ok /\ \A u \in Ok : waiter[u].need \in Nat
      BY <1>1, <2>4, OkWaits DEF Ok, q
    <3>2. Grants(waiter, Ok) = waiter[t].need + Grants(waiter, Ok \ {t})
      BY <3>1, OkWaits, GrantsRemove
    <3>3. Grants(waiter, Ok') \in Nat
      BY <2>1, <2>2, <3>1, GrantsNat
    <3> QED
      BY <1>5, <2>1, <2>3, <2>4, <3>2, <3>3, OkWaits, ConservedNext, SemaTypes
  <2>5. CASE waiter[t].result # "Ok"
    <3>1. Ok' = Ok
      BY <2>1, <2>5 DEF Ok
    <3> QED
      BY <2>3, <2>5, <3>1, OkWaits, ConservedNext, SemaTypes
  <2> QED
    BY <2>4, <2>5
<1>9. WaitersAreWaiting'
  BY <1>2, Returned, SemaTypes DEF WaitersAreWaiting, q
<1>10. Records'
  BY <1>3, <1>4, Returned DEF SemaInv, Records
<1>11. InOrder'
  BY <1>2 DEF InOrder, Sorted, q
<1> QED
  BY <1>6, <1>7, <1>8, <1>9, <1>10, <1>11 DEF SemaInv, PermitsReachWaiters

LEMMA WaitReturnsInv ==
    ASSUME SemaInv, NEW t \in Threads, WaitReturns(t)
    PROVE  SemaInv'
  BY LeaveInv DEF WaitReturns, object

(* Whoever times out was not granted anything.                             *)
LEMMA WaitTimesOutInv ==
    ASSUME SemaInv, NEW t \in Threads, WaitTimesOut(t)
    PROVE  SemaInv'
<1>1. /\ pc[t] = "waiting" /\ ~waiter[t].ready /\ RemoveWaiter(t) /\ Return(t)
      /\ UNCHANGED <<registered, m_status, m_count, balance>>
  BY DEF WaitTimesOut, MayTimeOut, object
<1>2. waiter[t].result # "Ok"
  BY <1>1 DEF SemaInv, Records
<1>3. balance' = balance - (IF waiter[t].result = "Ok" THEN waiter[t].need ELSE 0)
  BY <1>1, <1>2, SemaTypes
<1> QED
  BY <1>1, <1>3, LeaveInv

-----------------------------------------------------------------------------
LEMMA SemaStep == SemaInv /\ [Next]_vars => SemaInv'
<1> SUFFICES ASSUME SemaInv, [Next]_vars PROVE SemaInv'
  OBVIOUS
<1>1. CASE UNCHANGED vars
  BY <1>1, SemaTypes, Aside DEF vars, object, callers
<1>2. ASSUME NEW t \in Threads, Acquire(t) PROVE SemaInv'
  BY <1>2, AcquireInv
<1>3. ASSUME NEW t \in Threads, Expire(t) PROVE SemaInv'
  BY <1>3, ExpireInv
<1>4. ASSUME NEW t \in Threads, Steps(t) PROVE SemaInv'
  <2>1. CASE Close(t)
    BY <2>1, CloseInv
  <2>2. CASE Signal(t)
    BY <2>2, SignalInv
  <2>3. CASE Cancel(t)
    BY <2>3, CancelInv
  <2>4. CASE SignalRejected(t) \/ CancelRejected(t) \/ WaitRejected(t) \/ WaitTimesOutAtOnce(t)
    BY <2>4, RejectedInv
  <2>5. CASE WaitTakes(t)
    BY <2>5, WaitTakesInv
  <2>6. CASE WaitQueues(t)
    BY <2>6, WaitQueuesInv
  <2>7. CASE WaitReturns(t)
    BY <2>7, WaitReturnsInv
  <2>8. CASE WaitTimesOut(t)
    BY <2>8, WaitTimesOutInv
  <2> QED
    BY <1>4, <2>1, <2>2, <2>3, <2>4, <2>5, <2>6, <2>7, <2>8 DEF Steps
<1> QED
  BY <1>1, <1>2, <1>3, <1>4 DEF Next

LEMMA SemaAlways == Spec => []SemaInv
  BY SemaInit, SemaStep, PTL DEF Spec

(* kernel/semaphore.cpp: for any number of threads, any priorities and     *)
(* either order, no permit is lost or made by signals, cancellations,      *)
(* time-outs and deletion, whatever step they come between, no waiter is   *)
(* left in line for permits that are there, and the line holds exactly the *)
(* threads that wait.                                                      *)
THEOREM PermitsAreKept == Spec => []PermitsReachWaiters
<1>1. SemaInv => PermitsReachWaiters
  BY DEF SemaInv
<1> QED
  BY <1>1, SemaAlways, PTL

(* Only WakeWaiters grants permits to a thread in line.                    *)
LEMMA OnlySignalGrants ==
    ASSUME SemaInv, NEW s \in Threads, Acquire(s) \/ Expire(s) \/ Steps(s),
           NEW t \in NotReady, waiter'[t].ready, waiter'[t].result = "Ok"
    PROVE  Signal(s)
<1>1. t \in Threads /\ ~waiter[t].ready /\ waiter \in [Threads -> Waiters]
  BY SemaTypes DEF NotReady
<1>2. waiter' # waiter
  BY <1>1
<1>3. ASSUME NEW result \in {"Canceled", "Deleted"}, ReleaseAll(result) PROVE FALSE
  <2>1. waiter'[t] = [waiter[t] EXCEPT !.result = result, !.ready = TRUE]
    BY <1>1, <1>3 DEF ReleaseAll
  <2>2. waiter[t] \in Waiters
    BY <1>1
  <2> QED
    BY <2>1, <2>2 DEF Waiters
<1>4. ASSUME RemoveWaiter(s) PROVE FALSE
  BY <1>1, <1>4 DEF RemoveWaiter, NoWaiter
<1>5. ASSUME WaitQueues(s) PROVE FALSE
  BY <1>1, <1>5 DEF WaitQueues, NoWaiter
<1>6. CASE Acquire(s) \/ Expire(s)
  BY <1>2, <1>6 DEF Acquire, Expire
<1>7. CASE SignalRejected(s) \/ CancelRejected(s) \/ WaitRejected(s) \/ WaitTakes(s)
           \/ WaitTimesOutAtOnce(s)
  BY <1>2, <1>7 DEF SignalRejected, CancelRejected, WaitRejected, WaitTakes, WaitTimesOutAtOnce
<1>8. CASE Close(s) \/ Cancel(s)
  BY <1>3, <1>8 DEF Close, Cancel
<1>9. CASE WaitReturns(s) \/ WaitTimesOut(s)
  BY <1>4, <1>9 DEF WaitReturns, WaitTimesOut
<1> QED
  BY <1>5, <1>6, <1>7, <1>8, <1>9 DEF Steps

(* WakeWaiters passes over a waiter only for one behind it that needs less. *)
LEMMA GrantsInTurn ==
    ASSUME SemaInv, NEW s \in Threads, Signal(s), NEW t \in NotReady, NEW u \in NotReady,
           waiter'[t].ready, u \in NotReady', Precedes(u, t)
    PROVE  waiter[u].need > op[t].arg
<1> DEFINE q == m_waiting_threads
<1> DEFINE n == Len(q)
<1>1. t \in Threads /\ u \in Threads /\ t \in Range(q) /\ u \in Range(q)
  BY SemaTypes DEF NotReady
<1>2. t \in Gone(s) /\ u \in NotReady \ Gone(s)
  BY <1>1, GrantedRecords
<1>3. PICK j \in 1..n : t = q[j]
  BY <1>1, Line
<1>4. PICK i \in 1..n : u = q[i]
  BY <1>1, Line
<1>5. n \in Nat /\ DOMAIN q = 1..n /\ \A k, l \in 1..n : q[k] = q[l] => k = l
  BY Line
<1>6. i < j
  <2>1. CASE FifoOrder
    <3>1. PICK k \in 1..n, l \in 1..n : k < l /\ q[k] = u /\ q[l] = t
      BY <1>5, <2>1 DEF Precedes
    <3> HIDE DEF q, n
    <3>2. k = i /\ l = j
      BY <1>3, <1>4, <1>5, <3>1
    <3> QED
      BY <3>1, <3>2
  <2>2. CASE ~FifoOrder
    <3>1. Priority[u] < Priority[t] /\ Priority[u] \in Nat /\ Priority[t] \in Nat
      BY <1>1, <2>2, ThreadAssumption DEF Precedes
    <3>2. \A k, l \in 1..n : k < l => Priority[q[k]] <= Priority[q[l]]
      BY <1>5, <2>2 DEF SemaInv, InOrder
    <3> HIDE DEF q, n
    <3>3. i # j
      BY <1>3, <1>4, <3>1
    <3>4. ~(j < i)
      BY <1>3, <1>4, <3>1, <3>2
    <3> QED
      BY <1>5, <3>3, <3>4
  <2> QED
    BY <2>1, <2>2
<1>7. waiter[t].need <= After(s)[j - 1]
  <2>1. Serves(After(s), j)
    BY <1>2, <1>3, SignalStep, ServedInLine
  <2> QED
    BY <1>3, <2>1 DEF Serves
<1>8. After(s)[j - 1] \in Nat /\ waiter[u].need > After(s)[j - 1]
  <2>1. j - 1 \in (i - 1)..n
    BY <1>5, <1>6
  <2> QED
    BY <1>2, <1>4, <2>1, UnservedNeeds
<1>9. waiter[u].need \in Nat /\ waiter[t].need \in Nat /\ waiter[t].need = op[t].arg
  <2>1. pc[t] = "waiting"
    BY <1>3, Line
  <2> QED
    BY <1>1, <2>1, OkWaits DEF SemaInv, Records
<1> QED
  BY <1>7, <1>8, <1>9

(* kernel/semaphore.cpp, WakeWaiters and Wait: permits go to a thread past *)
(* a waiter that comes before it, in order of arrival or of priority, only *)
(* if that waiter needs more, for every length of the line; and a thread   *)
(* that takes permits without waiting takes what no waiter could use.      *)
THEOREM PermitsGoInTurn == Spec => NoOvertaking
<1>1. ASSUME SemaInv, Next, NEW t \in Threads, NEW u \in Threads,
             u \in NotReady, u \in NotReady',
             \/ t \in NotReady /\ waiter'[t].ready /\ waiter'[t].result = "Ok"
                /\ Precedes(u, t)
             \/ WaitTakes(t)
      PROVE  waiter[u].need > op[t].arg
  <2>1. CASE WaitTakes(t)
    <3>1. waiter[u].need > m_count
      BY <1>1 DEF SemaInv, PermitsReachWaiters, NoSatisfiableWaiter
    <3>2. m_count >= op[t].arg
      BY <2>1 DEF WaitTakes, MayTake
    <3>3. waiter[u].need \in Nat
      BY <1>1, OkWaits DEF NotReady
    <3> QED
      BY <1>1, <3>1, <3>2, <3>3, SemaTypes
  <2>2. CASE t \in NotReady /\ waiter'[t].ready /\ waiter'[t].result = "Ok" /\ Precedes(u, t)
    <3>1. PICK s \in Threads : Acquire(s) \/ Expire(s) \/ Steps(s)
      BY <1>1 DEF Next
    <3>2. Signal(s)
      BY <1>1, <2>2, <3>1, OnlySignalGrants
    <3> QED
      BY <1>1, <2>2, <3>2, GrantsInTurn
  <2> QED
    BY <1>1, <2>1, <2>2
<1>2. SemaInv /\ [Next]_vars =>
        [\A t, u \in Threads :
            /\ u \in NotReady /\ u \in NotReady'
            /\ \/ t \in NotReady /\ waiter'[t].ready /\ waiter'[t].result = "Ok"
                  /\ Precedes(u, t)
               \/ WaitTakes(t)
            => waiter[u].need > op[t].arg]_vars
  BY <1>1
<1> QED
  BY <1>2, SemaAlways, PTL DEF Spec, NoOvertaking

-----------------------------------------------------------------------------
(* An actor works on a slot of its own.                                    *)
Alone ==
    \A a, b \in Actors : (a # b /\ gt_pc[a] # "idle" /\ gt_pc[b] # "idle") => target[a] # target[b]

(* Where an actor is says whether its slot has a host thread.              *)
Phases ==
    \A a \in Actors :
        /\ gt_pc[a] \in {"stack", "start", "detach", "host", "failed", "joined", "free"} =>
              ~Live(target[a])
        /\ gt_pc[a] = "join" => Live(target[a])
        /\ gt_pc[a] # "idle" => target[a] \in m_threads /\ ~free[target[a]]

(* A slot with a host thread is in the pool and taken.                     *)
Taken == \A s \in Slots : Live(s) => s \in m_threads /\ ~free[s]

(* A thread nobody has joined or detached is left alone by the guest.      *)
Unclaimed ==
    \A s \in Slots : (Live(s) /\ s \notin claimed) =>
        ~detached[s] /\ \A c \in Callers : gt_pc[c] # "idle" => target[c] # s

(* The guest joins only threads that are not detached.                     *)
Attached ==
    \A c \in Callers : gt_pc[c] \in {"join", "joined", "free"} =>
        ~detached[target[c]] /\ target[c] \in claimed

(* almost_done is set from the end of the guest's code to its join.        *)
Ending ==
    \A s \in Slots : almost_done[s] =>
        \/ host[s] \in {"ending", "exited"}
        \/ \E a \in Actors : gt_pc[a] = "joined" /\ target[a] = s

(* The scan has the reaper to itself and the pool's mutex.  The slot that  *)
(* it has read almost_done of keeps its thread until the guest has joined  *)
(* it and stays free after that: nobody creates in it.                     *)
Leaving(s) == \E c \in Callers : gt_pc[c] \in {"joined", "free"} /\ target[c] = s
Scanned ==
    /\ scan # "none" => gt_pc["reaper"] = "idle"
    /\ scan = "free" => LET s == target["reaper"] IN free[s] \/ Live(s) \/ Leaving(s)

SlotInv == Alone /\ Phases /\ Taken /\ Unclaimed /\ Attached /\ Ending /\ Scanned

(* A stack mapped so far is on one slot, or cached, or unmapped.           *)
StackInv ==
    /\ cache \subseteq 1..mapped /\ unmapped \subseteq 1..mapped
    /\ cache \cap unmapped = {}
    /\ \A s \in Slots : stack[s] \in 0..mapped /\ stack[s] \notin cache \cup unmapped
    /\ \A s, u \in Slots : (s # u /\ stack[s] # 0) => stack[s] # stack[u]
    /\ \A s \in Slots : Live(s) => on[s] = stack[s]

PoolInv == PoolTypeOK /\ SlotInv /\ StackInv

-----------------------------------------------------------------------------
(* The inductive invariant is stronger than what the runs check.           *)
LEMMA Strong == PoolAssumption /\ PoolInv => ThreadsExclusive
  <1> SUFFICES ASSUME PoolAssumption, PoolInv PROVE ThreadsExclusive
    OBVIOUS
  <1> USE DEF PoolInv
  <1>1. SlotsExclusive
    BY DEF SlotsExclusive, SlotInv, Alone, Phases, Taken, PoolTypeOK
  <1>2. StacksExclusive
    BY DEF StacksExclusive, StackInv, PoolTypeOK
  <1>3. JoinedOnce
    BY DEF JoinedOnce, SlotInv, Phases
  <1> QED
    BY <1>1, <1>2, <1>3 DEF ThreadsExclusive

(* The pool is empty at first.                                             *)
LEMMA PoolStartsInv == PoolAssumption /\ PoolInit => PoolInv
  <1> SUFFICES ASSUME PoolAssumption, PoolInit PROVE PoolInv
    OBVIOUS
  <1>1. (CHOOSE s \in Slots : TRUE) \in Slots
    BY DEF PoolAssumption
  <1>2. target \in [Actors -> Slots]
    BY <1>1 DEF PoolInit, AnySlot
  <1>3. {free, detached, almost_done} \subseteq [Slots -> BOOLEAN]
    BY DEF PoolInit
  <1>4. PoolTypeOK
    <2>1. /\ 0 \in 0..MaxStacks /\ lives \in 0..MaxLives
          /\ cache \subseteq 1..MaxStacks /\ unmapped \subseteq 1..MaxStacks
      BY DEF PoolInit, PoolAssumption
    <2>2. /\ host \in [Slots -> {"none", "running", "ending", "exited", "joined"}]
          /\ stack \in [Slots -> 0..MaxStacks] /\ on \in [Slots -> 0..MaxStacks]
      BY <2>1 DEF PoolInit
    <2>3. gt_pc \in [Actors -> {"idle", "stack", "start", "detach", "host", "failed", "join",
                              "joined", "free"}]
      BY DEF PoolInit
    <2>4. /\ mapped = 0 /\ scan = "none" /\ mistaken = {} /\ undefined = FALSE
          /\ m_threads = {} /\ claimed = {}
      BY DEF PoolInit
    <2> QED
      BY <1>2, <1>3, <2>1, <2>2, <2>3, <2>4 DEF PoolTypeOK
  <1>5. SlotInv
    BY DEF PoolInit, SlotInv, Alone, Phases, Taken, Unclaimed, Attached, Ending, Scanned, Live,
           Actors
  <1>6. StackInv
    BY DEF PoolInit, StackInv, Live
  <1> QED
    BY <1>4, <1>5, <1>6 DEF PoolInv

-----------------------------------------------------------------------------
LEMMA ActorsAre ==
    ASSUME PoolAssumption
    PROVE  /\ "reaper" \in Actors /\ \A c \in Callers : c \in Actors /\ c # "reaper"
           /\ \A a \in Actors : a = "reaper" \/ a \in Callers
  BY DEF PoolAssumption, Actors

LEMMA AnySlotIs == ASSUME PoolAssumption PROVE AnySlot \in Slots
  BY DEF PoolAssumption, AnySlot

(* Who goes on, or returns, is alone in what changes.                      *)
LEMMA GoesAre ==
    ASSUME PoolTypeOK, NEW a \in Actors, NEW label, Goto(a, label)
    PROVE  gt_pc'[a] = label /\ \A b \in Actors : b # a => gt_pc'[b] = gt_pc[b]
  BY DEF PoolTypeOK, Goto

LEMMA ReturnsAre ==
    ASSUME PoolAssumption, PoolTypeOK, NEW a \in Actors, Returns(a)
    PROVE  /\ gt_pc'[a] = "idle" /\ \A b \in Actors : b # a => gt_pc'[b] = gt_pc[b]
           /\ \A b \in Actors : b # a => target'[b] = target[b]
           /\ target' \in [Actors -> Slots]
           /\ gt_pc' \in [Actors -> {"idle", "stack", "start", "detach", "host", "failed", "join",
                                    "joined", "free"}]
  BY AnySlotIs DEF PoolTypeOK, Goto, Returns

(* What a step of somebody else must leave to the scan.                    *)
LEMMA ScanKept ==
    ASSUME PoolAssumption, SlotInv, UNCHANGED scan,
           gt_pc'["reaper"] = gt_pc["reaper"], target'["reaper"] = target["reaper"],
           \A u \in Slots : scan # "none" /\ free[u] => free'[u],
           \A u \in Slots : Live(u) => Live(u)' \/ Leaving(u)',
           \A u \in Slots : Leaving(u) => Leaving(u)' \/ free'[u],
           target["reaper"] \in Slots
    PROVE  Scanned'
  BY DEF SlotInv, Scanned

LEMMA SameLeaving ==
    ASSUME NEW c \in Callers, gt_pc[c] \notin {"joined", "free"},
           \A b \in Callers : b # c => gt_pc'[b] = gt_pc[b] /\ target'[b] = target[b]
    PROVE  \A u \in Slots : Leaving(u) => Leaving(u)'
  BY DEF Leaving

(* A slot is found free, or is new: nobody is in it.                       *)
LEMMA CreateStep ==
    ASSUME PoolAssumption, PoolInv, NEW c \in Callers, NEW s \in Slots, PoolCreate(c, s)
    PROVE  PoolInv'
  <1>0. PoolTypeOK /\ SlotInv /\ StackInv /\ c \in Actors /\ c # "reaper" /\ "reaper" \in Actors
        /\ Callers \subseteq Actors
    BY ActorsAre DEF PoolInv
  <1> USE <1>0 DEF PoolCreate
  <1>1. /\ gt_pc'[c] = "stack" /\ \A b \in Actors : b # c => gt_pc'[b] = gt_pc[b]
        /\ target'[c] = s /\ \A b \in Actors : b # c => target'[b] = target[b]
        /\ free'[s] = FALSE /\ \A u \in Slots : u # s => free'[u] = free[u]
        /\ \A u \in Slots : detached'[u] => detached[u]
    BY DEF Goto, PoolTypeOK
  <1>2. PoolTypeOK'
    BY DEF Goto, PoolTypeOK, stacks, reaper, PoolAssumption
  <1>3. ~Live(s) /\ \A b \in Actors : gt_pc[b] # "idle" => target[b] # s
    BY DEF SlotInv, Phases, Taken
  <1>4. Alone' /\ Phases' /\ Taken'
    BY <1>1, <1>3 DEF SlotInv, Alone, Phases, Taken, Live, PoolTypeOK
  <1>5. Unclaimed' /\ Attached' /\ Ending'
    BY <1>1, <1>3 DEF SlotInv, Unclaimed, Attached, Ending, Live, PoolTypeOK
  <1>6. Scanned'
    <2>1. scan = "none" /\ scan' = scan
      BY DEF PoolLocked, reaper
    <2> QED
      BY <2>1 DEF Scanned
  <1>7. StackInv'
    BY DEF StackInv, stacks, Live
  <1> QED
    BY <1>2, <1>4, <1>5, <1>6, <1>7 DEF PoolInv, SlotInv

(* A step that moves the caller c within PthreadCreate, on its own slot.   *)
Creating == {"stack", "start", "detach", "host", "failed"}

LEMMA CreatorMoves ==
    ASSUME PoolAssumption, PoolTypeOK, SlotInv, NEW c \in Callers,
           gt_pc[c] \in Creating, gt_pc'[c] \in Creating,
           \A b \in Actors : b # c => gt_pc'[b] = gt_pc[b],
           UNCHANGED <<m_threads, free, host, target, claimed, reaper>>,
           \A u \in Slots : u # target[c] =>
               detached'[u] = detached[u] /\ almost_done'[u] = almost_done[u],
           almost_done'[target[c]] => almost_done[target[c]]
    PROVE  SlotInv'
  <1> USE DEF Creating
  <1>1. /\ c \in Actors /\ target[c] \in Slots /\ ~Live(target[c]) /\ c # "reaper"
        /\ "reaper" \in Actors /\ Callers \subseteq Actors
    BY ActorsAre DEF PoolTypeOK, SlotInv, Phases
  <1>2. \A b \in Actors : b # c /\ gt_pc[b] # "idle" => target[b] # target[c]
    BY <1>1 DEF SlotInv, Alone
  <1>3. Alone' /\ Phases' /\ Taken'
    BY <1>1 DEF SlotInv, Alone, Phases, Taken, Live
  <1>4. Unclaimed'
    BY <1>1, <1>2 DEF SlotInv, Unclaimed, Live
  <1>5. Attached'
    BY <1>1, <1>2 DEF SlotInv, Attached, PoolTypeOK
  <1>6. Ending'
    BY <1>1, <1>2 DEF SlotInv, Ending, Live
  <1>7. Scanned'
    <2>1. \A u \in Slots : Leaving(u) => Leaving(u)'
      BY <1>1, SameLeaving
    <2>2. target["reaper"] \in Slots /\ UNCHANGED scan
      BY <1>1 DEF PoolTypeOK, reaper
    <2> QED
      BY <1>1, <2>1, <2>2, ScanKept DEF Live
  <1> QED
    BY <1>3, <1>4, <1>5, <1>6, <1>7 DEF SlotInv

(* A stack is the user's, a cached one or a new one.                       *)
LEMMA StackStep ==
    ASSUME PoolAssumption, PoolInv, NEW c \in Callers, CreateGuestStack(c)
    PROVE  PoolInv'
  <1>0. PoolTypeOK /\ SlotInv /\ StackInv /\ c \in Actors
    BY DEF PoolInv, Actors
  <1> USE <1>0 DEF CreateGuestStack
  <1>1. gt_pc'[c] = "start" /\ \A b \in Actors : b # c => gt_pc'[b] = gt_pc[b]
    BY DEF Goto, PoolTypeOK
  <1>2. PICK k \in 0..MaxStacks :
          /\ stack' = [stack EXCEPT ![target[c]] = k]
          /\ k = 0 \/ k \in cache \/ k = mapped + 1
          /\ \/ k \in cache /\ cache' = cache \ {k} /\ UNCHANGED mapped
             \/ k = 0 /\ UNCHANGED <<cache, mapped>>
             \/ k = mapped + 1 /\ mapped' = mapped + 1 /\ UNCHANGED cache
    BY DEF RoomForStack, PoolTypeOK, PoolAssumption
  <1>3. target[c] \in Slots /\ ~Live(target[c])
    BY DEF PoolTypeOK, SlotInv, Phases
  <1>4. /\ stack' \in [Slots -> 0..MaxStacks] /\ cache' \subseteq 1..MaxStacks
        /\ mapped' \in 0..MaxStacks
    BY <1>2, <1>3 DEF PoolTypeOK, PoolAssumption
  <1>5. PoolTypeOK'
    BY <1>4 DEF PoolTypeOK, Goto, flags, reaper
  <1>6. SlotInv'
    BY <1>1, CreatorMoves DEF flags, Creating
  <1>7. StackInv'
    <2>1. /\ stack'[target[c]] = k
          /\ \A u \in Slots : u # target[c] => stack'[u] = stack[u]
      BY <1>2, <1>3 DEF PoolTypeOK
    <2>2. mapped \in Nat /\ mapped' \in Nat /\ mapped <= mapped'
      BY <1>2 DEF PoolTypeOK
    <2>3. /\ cache' \subseteq 1..mapped' /\ unmapped' \subseteq 1..mapped'
          /\ cache' \cap unmapped' = {}
      <3>1. cache' \subseteq cache /\ UNCHANGED unmapped
        BY <1>2
      <3>2. 1..mapped \subseteq 1..mapped'
        BY <2>2
      <3> QED
        BY <3>1, <3>2 DEF StackInv
    <2>4. ASSUME NEW u \in Slots
          PROVE  stack'[u] \in 0..mapped' /\ stack'[u] \notin cache' \cup unmapped'
      <3>1. CASE u = target[c]
        BY <1>2, <2>1, <2>2, <3>1 DEF StackInv
      <3>2. CASE u # target[c]
        BY <1>2, <2>1, <2>2, <3>2 DEF StackInv
      <3> QED
        BY <3>1, <3>2
    <2>5. ASSUME NEW u \in Slots, u # target[c] PROVE k # 0 => stack[u] # k
      BY <1>2, <2>2, <2>5 DEF StackInv
    <2>6. ASSUME NEW u \in Slots, NEW v \in Slots, u # v, stack'[u] # 0
          PROVE  stack'[u] # stack'[v]
      BY <2>1, <2>5, <2>6 DEF StackInv
    <2>7. \A u \in Slots : Live(u)' => on'[u] = stack'[u]
      BY <1>3, <2>1 DEF StackInv, Live
    <2> QED
      BY <2>3, <2>4, <2>6, <2>7 DEF StackInv
  <1> QED
    BY <1>5, <1>6, <1>7 DEF PoolInv

(* A stack whose guard page fails goes from the cache, or from the range,  *)
(* to the kernel.                                                          *)
LEMMA StackFailsStep ==
    ASSUME PoolAssumption, PoolInv, NEW c \in Callers, StackFails(c)
    PROVE  PoolInv'
  <1>0. PoolTypeOK /\ SlotInv /\ StackInv /\ c \in Actors
    BY DEF PoolInv, Actors
  <1> USE <1>0 DEF StackFails
  <1>1. gt_pc'[c] = "failed" /\ \A b \in Actors : b # c => gt_pc'[b] = gt_pc[b]
    BY DEF Goto, PoolTypeOK
  <1>2. /\ mapped \in Nat /\ mapped' \in 0..MaxStacks /\ mapped <= mapped'
        /\ cache' \subseteq cache
        /\ \A k \in unmapped' : \/ k \in unmapped
                                \/ k \in cache /\ k \notin cache'
                                \/ k = mapped + 1 /\ k = mapped'
    BY DEF RoomForStack, PoolTypeOK, PoolAssumption, StackInv
  <1>3. unmapped' \subseteq 1..mapped' /\ cache' \subseteq 1..mapped'
    <2>1. 1..mapped \subseteq 1..mapped' /\ (mapped + 1 = mapped' => mapped + 1 \in 1..mapped')
      BY <1>2
    <2>2. cache \subseteq 1..mapped /\ unmapped \subseteq 1..mapped
      BY DEF StackInv
    <2> QED
      BY <1>2, <2>1, <2>2
  <1>4. PoolTypeOK'
    BY <1>2, <1>3 DEF PoolTypeOK, Goto, flags, reaper, PoolAssumption
  <1>5. SlotInv'
    BY <1>1, CreatorMoves DEF flags, Creating
  <1>6. StackInv'
    <2>1. cache' \cap unmapped' = {}
      BY <1>2 DEF StackInv
    <2>2. ASSUME NEW u \in Slots
          PROVE  stack'[u] \in 0..mapped' /\ stack'[u] \notin cache' \cup unmapped'
      BY <1>2 DEF StackInv
    <2> QED
      BY <1>3, <2>1, <2>2 DEF StackInv, Live
  <1> QED
    BY <1>4, <1>5, <1>6 DEF PoolInv

(* FreeGuestStack caches a stack once.                                     *)
LEMMA FreeStack ==
    ASSUME PoolAssumption, PoolTypeOK, StackInv, NEW s \in Slots, FreeGuestStack(s),
           UNCHANGED <<mapped, unmapped>>,
           \A u \in Slots : Live(u)' => u # s /\ Live(u) /\ on'[u] = on[u]
    PROVE  /\ StackInv'
           /\ stack' \in [Slots -> 0..MaxStacks] /\ cache' \subseteq 1..MaxStacks
  <1> USE DEF FreeGuestStack
  <1>1. /\ stack'[s] = 0 /\ \A u \in Slots : u # s => stack'[u] = stack[u]
        /\ stack' \in [Slots -> 0..MaxStacks]
    BY DEF PoolTypeOK, PoolAssumption
  <1>2. \A k \in cache' : k \in cache \/ (k = stack[s] /\ k # 0)
    OBVIOUS
  <1>3. cache' \subseteq 1..MaxStacks
    <2>1. stack[s] \in 0..MaxStacks /\ cache \subseteq 1..MaxStacks
      BY DEF PoolTypeOK
    <2>2. stack[s] # 0 => stack[s] \in 1..MaxStacks
      BY <2>1 DEF PoolAssumption
    <2> QED
      BY <1>2, <2>1, <2>2
  <1>4. cache' \subseteq 1..mapped /\ cache' \cap unmapped = {}
    <2>1. /\ stack[s] \in 0..mapped /\ cache \subseteq 1..mapped /\ cache \cap unmapped = {}
          /\ stack[s] \notin unmapped
      BY DEF StackInv
    <2>2. stack[s] # 0 => stack[s] \in 1..mapped
      BY <2>1 DEF PoolTypeOK
    <2> QED
      BY <1>2, <2>1, <2>2
  <1>5. ASSUME NEW u \in Slots PROVE
           stack'[u] \in 0..mapped /\ stack'[u] \notin cache' \cup unmapped
    BY <1>1, <1>2, <1>4 DEF StackInv, PoolTypeOK
  <1>6. ASSUME NEW u \in Slots, NEW v \in Slots, u # v, stack'[u] # 0
        PROVE  stack'[u] # stack'[v]
    BY <1>1, <1>6 DEF StackInv
  <1>7. \A u \in Slots : Live(u)' => on'[u] = stack'[u]
    BY <1>1 DEF StackInv
  <1> QED
    BY <1>1, <1>3, <1>4, <1>5, <1>6, <1>7 DEF StackInv

(* The flags are stored in a slot that has no thread yet.                  *)
LEMMA StoreStep ==
    ASSUME PoolAssumption, PoolInv, NEW c \in Callers, NEW d \in BOOLEAN,
           StoresAlmostDone(c) \/ StoresDetached(c, d)
    PROVE  PoolInv'
  <1>0. PoolTypeOK /\ SlotInv /\ StackInv /\ c \in Actors
    BY DEF PoolInv, Actors
  <1>1. PICK s \in Slots : s = target[c]
    BY <1>0 DEF PoolTypeOK
  <1> USE <1>0, <1>1 DEF StoresAlmostDone, StoresDetached
  <1>2. /\ gt_pc'[c] \in {"detach", "host"} /\ \A b \in Actors : b # c => gt_pc'[b] = gt_pc[b]
        /\ gt_pc[c] \in {"start", "detach"}
        /\ \A u \in Slots : u # s => almost_done'[u] = almost_done[u] /\ detached'[u] = detached[u]
        /\ almost_done'[s] => almost_done[s]
        /\ UNCHANGED <<m_threads, free, host, stacks, target, claimed, reaper, lives, on>>
    BY DEF Goto, PoolTypeOK
  <1>3. PoolTypeOK'
    <2>0. almost_done \in [Slots -> BOOLEAN] /\ detached \in [Slots -> BOOLEAN]
      BY DEF PoolTypeOK
    <2>1. almost_done' \in [Slots -> BOOLEAN] /\ detached' \in [Slots -> BOOLEAN]
      <3>1. CASE StoresAlmostDone(c)
        BY <2>0, <3>1
      <3>2. CASE StoresDetached(c, d)
        BY <2>0, <3>2
      <3> QED
        BY <3>1, <3>2
    <2>2. gt_pc' \in [Actors -> {"idle", "stack", "start", "detach", "host", "failed", "join",
                               "joined", "free"}]
      BY DEF PoolTypeOK, Goto
    <2> QED
      BY <1>2, <2>1, <2>2 DEF PoolTypeOK, stacks, reaper
  <1>4. SlotInv'
    BY <1>2, CreatorMoves DEF Creating
  <1>5. StackInv'
    BY <1>2 DEF StackInv, stacks, Live
  <1> QED
    BY <1>3, <1>4, <1>5 DEF PoolInv

(* The host thread starts: from here on the slot is the thread's.          *)
LEMMA StartStep ==
    ASSUME PoolAssumption, PoolInv, NEW c \in Callers, StartThread(c)
    PROVE  PoolInv'
  <1>0. /\ PoolTypeOK /\ SlotInv /\ StackInv
        /\ c \in Actors /\ c # "reaper" /\ "reaper" \in Actors /\ Callers \subseteq Actors
    BY ActorsAre DEF PoolInv
  <1>1. PICK s \in Slots : s = target[c]
    BY <1>0 DEF PoolTypeOK
  <1> USE <1>0, <1>1 DEF StartThread
  <1>2. /\ gt_pc'[c] = "idle" /\ \A b \in Actors : b # c => gt_pc'[b] = gt_pc[b]
        /\ \A b \in Actors : b # c => target'[b] = target[b]
        /\ target' \in [Actors -> Slots]
        /\ gt_pc' \in [Actors -> {"idle", "stack", "start", "detach", "host", "failed", "join",
                                 "joined", "free"}]
    BY ReturnsAre
  <1>3. /\ host'[s] = "running" /\ \A u \in Slots : u # s => host'[u] = host[u]
        /\ on'[s] = stack[s] /\ \A u \in Slots : u # s => on'[u] = on[u]
        /\ detached[s] => s \in claimed'
        /\ \A u \in Slots : u # s => (u \in claimed' <=> u \in claimed)
        /\ UNCHANGED <<m_threads, flags, stacks, reaper, lives>> /\ gt_pc[c] = "host"
    BY DEF PoolTypeOK
  <1>4. PoolTypeOK'
    BY <1>2, <1>3 DEF PoolTypeOK, stacks, flags, reaper
  <1>5. \A b \in Actors : b # c /\ gt_pc[b] # "idle" => target[b] # s
    BY <1>3 DEF SlotInv, Alone
  <1>6. s \in m_threads /\ ~free[s] /\ ~Live(s)
    BY <1>3 DEF SlotInv, Phases
  <1>7. Alone' /\ Phases' /\ Taken'
    BY <1>2, <1>3, <1>5, <1>6 DEF SlotInv, Alone, Phases, Taken, Live, flags
  <1>8. Unclaimed'
    BY <1>2, <1>3, <1>5 DEF SlotInv, Unclaimed, Live, flags
  <1>9. Attached'
    BY <1>2, <1>3, <1>5 DEF SlotInv, Attached, PoolTypeOK, flags
  <1>10. Ending'
    <2>1. ~almost_done[s]
      BY <1>3, <1>5, <1>6 DEF SlotInv, Ending, Live
    <2> QED
      BY <1>2, <1>3, <1>5, <2>1 DEF SlotInv, Ending, flags
  <1>11. Scanned'
    <2>1. \A u \in Slots : Leaving(u) => Leaving(u)'
      BY <1>2, <1>3, SameLeaving
    <2> QED
      BY <1>2, <1>3, <2>1, ScanKept DEF flags, reaper, PoolTypeOK, Live
  <1>12. StackInv'
    BY <1>3 DEF StackInv, stacks, Live
  <1> QED
    BY <1>4, <1>7, <1>8, <1>9, <1>10, <1>11, <1>12 DEF PoolInv, SlotInv

(* The host refuses: the stack is cached and the slot will be free.        *)
LEMMA StartFailsStep ==
    ASSUME PoolAssumption, PoolInv, NEW c \in Callers, StartFails(c)
    PROVE  PoolInv'
  <1>0. PoolTypeOK /\ SlotInv /\ StackInv /\ c \in Actors
    BY DEF PoolInv, Actors
  <1>1. PICK s \in Slots : s = target[c]
    BY <1>0 DEF PoolTypeOK
  <1> USE <1>0, <1>1 DEF StartFails
  <1>2. gt_pc'[c] = "failed" /\ \A b \in Actors : b # c => gt_pc'[b] = gt_pc[b]
    BY GoesAre
  <1>3. \A u \in Slots : Live(u)' => u # s /\ Live(u)
    BY DEF SlotInv, Phases, Live
  <1>4. StackInv' /\ stack' \in [Slots -> 0..MaxStacks] /\ cache' \subseteq 1..MaxStacks
    BY <1>3, FreeStack
  <1>5. PoolTypeOK'
    BY <1>4 DEF PoolTypeOK, Goto, flags, reaper
  <1>6. SlotInv'
    BY <1>2, CreatorMoves DEF flags, Creating
  <1> QED
    BY <1>4, <1>5, <1>6 DEF PoolInv

(* The slot of a failed PthreadCreate, or of a joined thread, is free.     *)
LEMMA FreeStep ==
    ASSUME PoolAssumption, PoolInv, NEW a \in Actors,
           (a \in Callers /\ CreateFailed(a)) \/ JoinFrees(a)
    PROVE  PoolInv'
  <1>0. PoolTypeOK /\ SlotInv /\ StackInv /\ "reaper" \in Actors /\ Callers \subseteq Actors
        /\ "reaper" \notin Callers
    BY ActorsAre DEF PoolInv
  <1>1. PICK s \in Slots : s = target[a]
    BY <1>0 DEF PoolTypeOK
  <1> USE <1>0, <1>1 DEF CreateFailed, JoinFrees
  <1>2. /\ gt_pc'[a] = "idle" /\ \A b \in Actors : b # a => gt_pc'[b] = gt_pc[b]
        /\ \A b \in Actors : b # a => target'[b] = target[b]
        /\ target' \in [Actors -> Slots]
        /\ gt_pc' \in [Actors -> {"idle", "stack", "start", "detach", "host", "failed", "join",
                                 "joined", "free"}]
    BY ReturnsAre
  <1>3. /\ free'[s] = TRUE /\ \A u \in Slots : u # s => free'[u] = free[u]
        /\ gt_pc[a] \in {"failed", "free"}
        /\ UNCHANGED <<m_threads, detached, almost_done, host, stacks, claimed, reaper, lives, on>>
    BY DEF PoolTypeOK
  <1>4. PoolTypeOK'
    <2>1. free' \in [Slots -> BOOLEAN]
      BY DEF PoolTypeOK
    <2> QED
      BY <1>2, <1>3, <2>1 DEF PoolTypeOK, stacks, reaper
  <1>5. ~Live(s) /\ \A b \in Actors : b # a /\ gt_pc[b] # "idle" => target[b] # s
    BY <1>3 DEF SlotInv, Alone, Phases
  <1>6. Alone' /\ Phases' /\ Taken'
    BY <1>2, <1>3, <1>5 DEF SlotInv, Alone, Phases, Taken, Live, PoolTypeOK
  <1>7. Unclaimed' /\ Attached' /\ Ending'
    BY <1>2, <1>3, <1>5 DEF SlotInv, Unclaimed, Attached, Ending, Live
  <1>8. Scanned'
    <2>1. scan # "none" => a # "reaper"
      BY <1>3 DEF SlotInv, Scanned
    <2>2. CASE a = "reaper"
      BY <1>3, <2>1, <2>2 DEF Scanned, reaper
    <2>3. CASE a # "reaper"
      <3>1. \A u \in Slots : Leaving(u) => Leaving(u)' \/ free'[u]
        BY <1>2, <1>3 DEF Leaving
      <3> QED
        BY <1>2, <1>3, <2>3, <3>1, ScanKept DEF reaper, Live, PoolTypeOK
    <2> QED
      BY <2>2, <2>3
  <1>9. StackInv'
    BY <1>3 DEF StackInv, stacks, Live
  <1> QED
    BY <1>4, <1>6, <1>7, <1>8, <1>9 DEF PoolInv, SlotInv

(* The guest's code ends, and later the host thread.                       *)
LEMMA EndStep ==
    ASSUME PoolAssumption, PoolInv, NEW s \in Slots, Ends(s)
    PROVE  PoolInv'
  <1>0. PoolTypeOK /\ SlotInv /\ StackInv
    BY DEF PoolInv
  <1> USE <1>0 DEF Ends, CleanupThread, HostExits, flags
  <1>1. /\ \A u \in Slots : Live(u)' <=> Live(u)
        /\ \A u \in Slots : u # s => host'[u] = host[u]
        /\ host'[s] \in {"ending", "exited"}
        /\ \A u \in Slots : u # s => almost_done'[u] = almost_done[u]
        /\ UNCHANGED <<m_threads, free, detached, stacks, gt_pc, target, claimed, reaper, lives, on>>
    BY DEF PoolTypeOK, Live
  <1>2. PoolTypeOK'
    <2>1. almost_done' \in [Slots -> BOOLEAN]
      BY DEF PoolTypeOK
    <2>2. host' \in [Slots -> {"none", "running", "ending", "exited", "joined"}]
      BY DEF PoolTypeOK
    <2> QED
      BY <1>1, <2>1, <2>2 DEF PoolTypeOK, stacks, reaper
  <1>3. Alone' /\ Phases' /\ Taken' /\ Unclaimed' /\ Attached'
    BY <1>1 DEF SlotInv, Alone, Phases, Taken, Unclaimed, Attached, PoolTypeOK
  <1>4. Ending'
    BY <1>1 DEF SlotInv, Ending
  <1>5. Scanned'
    <2>1. target["reaper"] \in Slots
      BY ActorsAre DEF PoolTypeOK
    <2> QED
      BY <1>1, <2>1 DEF SlotInv, Scanned, Leaving, reaper
  <1>6. StackInv'
    BY <1>1 DEF StackInv, stacks
  <1> QED
    BY <1>2, <1>3, <1>4, <1>5, <1>6 DEF PoolInv, SlotInv

(* PthreadDetach, of a thread that the reaper may be joining.              *)
LEMMA DetachStep ==
    ASSUME PoolAssumption, PoolInv, NEW c \in Callers, NEW s \in Slots, PthreadDetach(c, s)
    PROVE  PoolInv'
  <1>0. PoolTypeOK /\ SlotInv /\ StackInv /\ Callers \subseteq Actors
    BY ActorsAre DEF PoolInv
  <1> USE <1>0 DEF PthreadDetach, Joinable
  <1>1. \A u \in Slots : u # s => detached'[u] = detached[u]
    BY DEF PoolTypeOK
  <1>2. \A d \in Callers : gt_pc[d] # "idle" => target[d] # s
    BY DEF SlotInv, Unclaimed, Live
  <1>3. PoolTypeOK'
    BY DEF PoolTypeOK, stacks
  <1>4. Alone' /\ Phases' /\ Taken' /\ Ending' /\ Scanned'
    BY DEF SlotInv, Alone, Phases, Taken, Ending, Scanned, Leaving, Live
  <1>5. Unclaimed' /\ Attached'
    BY <1>1, <1>2 DEF SlotInv, Unclaimed, Attached, Live, PoolTypeOK
  <1>6. StackInv'
    BY DEF StackInv, stacks, Live
  <1> QED
    BY <1>3, <1>4, <1>5, <1>6 DEF PoolInv, SlotInv

(* The guest goes to join a thread that nobody else works on.              *)
LEMMA JoinStep ==
    ASSUME PoolAssumption, PoolInv, NEW c \in Callers, NEW s \in Slots, PthreadJoin(c, s)
    PROVE  PoolInv'
  <1>0. /\ PoolTypeOK /\ SlotInv /\ StackInv
        /\ c \in Actors /\ c # "reaper" /\ "reaper" \in Actors /\ Callers \subseteq Actors
        /\ \A a \in Actors : a = "reaper" \/ a \in Callers
    BY ActorsAre DEF PoolInv
  <1> USE <1>0 DEF PthreadJoin, flags
  <1>1. Live(s) /\ ~detached[s] /\ \A a \in Actors : gt_pc[a] # "idle" => target[a] # s
    BY DEF Joinable, JoinedByReaper, SlotInv, Unclaimed, Live
  <1>2. /\ gt_pc'[c] = "join" /\ \A b \in Actors : b # c => gt_pc'[b] = gt_pc[b]
        /\ target'[c] = s /\ \A b \in Actors : b # c => target'[b] = target[b]
        /\ gt_pc[c] = "idle" /\ s \in claimed' /\ claimed \subseteq claimed'
    BY DEF Goto, PoolTypeOK
  <1>3. PoolTypeOK'
    BY DEF Goto, PoolTypeOK, stacks, reaper
  <1>4. Alone' /\ Phases' /\ Taken'
    BY <1>1, <1>2 DEF SlotInv, Alone, Phases, Taken, Live
  <1>5. Unclaimed' /\ Attached' /\ Ending'
    BY <1>1, <1>2 DEF SlotInv, Unclaimed, Attached, Ending, Live
  <1>6. Scanned'
    <2>1. \A u \in Slots : Leaving(u) => Leaving(u)'
      BY <1>2, SameLeaving
    <2> QED
      BY <1>2, <2>1, ScanKept DEF reaper, Live, PoolTypeOK
  <1>7. StackInv'
    BY DEF StackInv, stacks, Live
  <1> QED
    BY <1>3, <1>4, <1>5, <1>6, <1>7 DEF PoolInv, SlotInv

(* When the reaper has read all three flags, the slot has a host thread    *)
(* that nobody has joined, nor is about to, unless that thread is claimed  *)
(* by a guest's join.                                                      *)
LEMMA ReaperIsRight ==
    ASSUME PoolAssumption, PoolInv, NEW s \in Slots, scan = "free", s = target["reaper"],
           ~free[s], detached[s] \/ s \notin claimed
    PROVE  Live(s) /\ gt_pc["reaper"] = "idle" /\ \A a \in Actors : gt_pc[a] # "idle" => target[a] # s
  <1> USE DEF PoolInv, SlotInv
  <1>1. gt_pc["reaper"] = "idle" /\ \A a \in Actors : gt_pc[a] # "idle" => a \in Callers
    BY ActorsAre DEF Scanned
  <1>2. ~\E a \in Callers : gt_pc[a] \in {"join", "joined", "free"} /\ target[a] = s
    BY DEF Attached
  <1>3. Live(s)
    BY <1>2 DEF Scanned, Leaving
  <1>4. ~\E a \in Actors : gt_pc[a] \in Creating /\ target[a] = s
    BY <1>3 DEF Phases, Creating
  <1> QED
    BY <1>1, <1>2, <1>3, <1>4 DEF PoolTypeOK, Creating

(* The reads of FreeDetachedThreads.                                       *)
LEMMA ScanStep ==
    ASSUME PoolAssumption, PoolInv,
           (\E s \in Slots : FreeDetachedThreads(s)) \/ ReadsAlmostDone \/ ReadsFree
    PROVE  PoolInv'
  <1>0. /\ PoolTypeOK /\ SlotInv /\ StackInv /\ "reaper" \in Actors /\ Callers \subseteq Actors
        /\ "reaper" \notin Callers
        /\ \A a \in Actors : a = "reaper" \/ a \in Callers
    BY ActorsAre DEF PoolInv
  <1> USE <1>0 DEF FreeDetachedThreads, ReadsAlmostDone, ReadsFree
  <1>1. /\ gt_pc["reaper"] = "idle"
        /\ UNCHANGED <<m_threads, flags, host, stacks, claimed, lives, on>>
    BY DEF SlotInv, Scanned
  <1>2. /\ target' \in [Actors -> Slots]
        /\ \A a \in Actors : a # "reaper" => target'[a] = target[a] /\ gt_pc'[a] = gt_pc[a]
        /\ gt_pc' \in [Actors -> {"idle", "stack", "start", "detach", "host", "failed", "join",
                                 "joined", "free"}]
        /\ gt_pc'["reaper"] \in {"idle", "join"}
    BY <1>1, ReturnsAre DEF PoolTypeOK, Goto
  <1>3. PoolTypeOK'
    <2>1. /\ scan' \in {"none", "almost_done", "free"} /\ mistaken' \subseteq Slots
          /\ undefined' \in BOOLEAN
      BY DEF PoolTypeOK
    <2> QED
      BY <1>1, <1>2, <2>1 DEF PoolTypeOK, stacks, flags
  <1>4. gt_pc'["reaper"] = "join" =>
            /\ Live(target'["reaper"]) /\ target'["reaper"] \in Slots /\ scan' = "none"
            /\ \A a \in Actors : gt_pc[a] # "idle" => target[a] # target'["reaper"]
    <2>1. CASE ReadsFree
      <3>1. target["reaper"] \in Slots
        BY DEF PoolTypeOK
      <3>2. SUFFICES ASSUME gt_pc'["reaper"] = "join"
                     PROVE  /\ scan = "free" /\ target' = target /\ ~free[target["reaper"]]
                            /\ detached[target["reaper"]] \/ target["reaper"] \notin claimed
                            /\ scan' = "none"
        BY <3>1, ReaperIsRight
      <3>3. gt_pc' # gt_pc /\ ~(Returns("reaper"))
        BY <1>1, <3>2, ReturnsAre
      <3> QED
        BY <2>1, <3>3
    <2>2. CASE ~ReadsFree
      BY <1>1, <2>2, ReturnsAre
    <2> QED
      BY <2>1, <2>2
  <1>5. Alone' /\ Phases' /\ Taken'
    BY <1>1, <1>2, <1>4 DEF SlotInv, Alone, Phases, Taken, Live, flags
  <1>6. Unclaimed' /\ Attached' /\ Ending'
    BY <1>1, <1>2 DEF SlotInv, Unclaimed, Attached, Ending, Live, flags
  <1>7. Scanned'
    <2>1. \A u : Leaving(u)' <=> Leaving(u)
      BY <1>2 DEF Leaving
    <2>2. CASE scan' = "free"
      <3>1. ReadsAlmostDone /\ almost_done[target["reaper"]] /\ UNCHANGED <<gt_pc, target>>
        BY <2>2
      <3>2. target["reaper"] \in Slots
        BY DEF PoolTypeOK
      <3>3. Live(target["reaper"]) \/ Leaving(target["reaper"])
        BY <1>1, <3>1, <3>2 DEF SlotInv, Ending, Live, Leaving
      <3> QED
        BY <1>1, <2>1, <3>1, <3>3 DEF Scanned, Live
    <2>3. CASE scan' = "almost_done"
      BY <1>1, <2>3 DEF Scanned
    <2>4. CASE scan' = "none"
      BY <2>4 DEF Scanned
    <2> QED
      BY <1>3, <2>2, <2>3, <2>4 DEF PoolTypeOK
  <1>8. StackInv'
    BY <1>1 DEF StackInv, stacks, Live
  <1> QED
    BY <1>3, <1>5, <1>6, <1>7, <1>8 DEF PoolInv, SlotInv

(* The host's pthread_join returns: the thread is no more.                 *)
LEMMA JoinedStep ==
    ASSUME PoolAssumption, PoolInv, NEW a \in Actors, HostJoined(a)
    PROVE  PoolInv'
  <1>0. PoolTypeOK /\ SlotInv /\ StackInv /\ "reaper" \in Actors /\ Callers \subseteq Actors
        /\ \A b \in Actors : b = "reaper" \/ b \in Callers
    BY ActorsAre DEF PoolInv
  <1>1. PICK s \in Slots : s = target[a]
    BY <1>0 DEF PoolTypeOK
  <1> USE <1>0, <1>1 DEF HostJoined, flags
  <1>2. /\ gt_pc'[a] = "joined" /\ \A b \in Actors : b # a => gt_pc'[b] = gt_pc[b]
        /\ host'[s] = "joined" /\ \A u \in Slots : u # s => host'[u] = host[u]
        /\ gt_pc[a] = "join"
    BY DEF Goto, PoolTypeOK
  <1>3. /\ ~Live(s)' /\ \A u \in Slots : u # s => (Live(u)' <=> Live(u))
        /\ Live(s)
    BY <1>2 DEF Live
  <1>4. StackInv' /\ stack' \in [Slots -> 0..MaxStacks] /\ cache' \subseteq 1..MaxStacks
    <2>1. \A u \in Slots : Live(u)' => u # s /\ Live(u) /\ on'[u] = on[u]
      BY <1>3 DEF PoolTypeOK
    <2> QED
      BY <2>1, FreeStack
  <1>5. PoolTypeOK'
    BY <1>4 DEF PoolTypeOK, Goto, reaper, PoolAssumption
  <1>6. \A b \in Actors : b # a /\ gt_pc[b] # "idle" => target[b] # s
    BY <1>2 DEF SlotInv, Alone
  <1>7. Alone' /\ Phases' /\ Taken'
    BY <1>2, <1>3, <1>6 DEF SlotInv, Alone, Phases, Taken, PoolTypeOK
  <1>8. Unclaimed' /\ Attached'
    BY <1>2, <1>3, <1>6 DEF SlotInv, Unclaimed, Attached, Actors
  <1>9. Ending'
    BY <1>2, <1>6 DEF SlotInv, Ending, PoolTypeOK
  <1>10. Scanned'
    <2>1. scan # "none" => a # "reaper"
      BY <1>2 DEF SlotInv, Scanned
    <2>2. CASE a = "reaper"
      BY <2>1, <2>2 DEF Scanned, reaper
    <2>3. CASE a # "reaper"
      <3>1. \A u \in Slots : Leaving(u) => Leaving(u)'
        BY <1>2, <2>3, SameLeaving
      <3>2. Leaving(s)'
        BY <1>2, <2>3 DEF Leaving
      <3>3. \A u \in Slots : Live(u) => Live(u)' \/ Leaving(u)'
        BY <1>3, <3>2
      <3> QED
        BY <1>2, <2>3, <3>1, <3>3, ScanKept DEF reaper, PoolTypeOK
    <2> QED
      BY <2>2, <2>3
  <1> QED
    BY <1>4, <1>5, <1>7, <1>8, <1>9, <1>10 DEF PoolInv, SlotInv

(* almost_done is reset while the slot is still the joiner's.              *)
LEMMA ClearStep ==
    ASSUME PoolAssumption, PoolInv, NEW a \in Actors, JoinClears(a)
    PROVE  PoolInv'
  <1>0. PoolTypeOK /\ SlotInv /\ StackInv /\ "reaper" \in Actors /\ Callers \subseteq Actors
        /\ \A b \in Actors : b = "reaper" \/ b \in Callers
    BY ActorsAre DEF PoolInv
  <1>1. PICK s \in Slots : s = target[a]
    BY <1>0 DEF PoolTypeOK
  <1> USE <1>0, <1>1 DEF JoinClears
  <1>2. /\ gt_pc'[a] = "free" /\ \A b \in Actors : b # a => gt_pc'[b] = gt_pc[b]
        /\ almost_done'[s] = FALSE /\ \A u \in Slots : u # s => almost_done'[u] = almost_done[u]
        /\ gt_pc[a] = "joined"
    BY DEF Goto, PoolTypeOK
  <1>3. PoolTypeOK'
    BY DEF PoolTypeOK, Goto, stacks, reaper
  <1>4. Alone' /\ Phases' /\ Taken'
    BY <1>2 DEF SlotInv, Alone, Phases, Taken, Live
  <1>5. Unclaimed' /\ Attached'
    BY <1>2 DEF SlotInv, Unclaimed, Attached, Live, Actors
  <1>6. Ending'
    BY <1>2 DEF SlotInv, Ending
  <1>7. Scanned'
    <2>1. scan # "none" => a # "reaper"
      BY <1>2 DEF SlotInv, Scanned
    <2>2. CASE a = "reaper"
      BY <2>1, <2>2 DEF Scanned, reaper
    <2>3. CASE a # "reaper"
      <3>1. \A u \in Slots : Leaving(u) => Leaving(u)'
        BY <1>2 DEF Leaving
      <3> QED
        BY <1>2, <2>3, <3>1, ScanKept DEF reaper, PoolTypeOK, Live
    <2> QED
      BY <2>2, <2>3
  <1>8. StackInv'
    BY DEF StackInv, stacks, Live
  <1> QED
    BY <1>3, <1>4, <1>5, <1>6, <1>7, <1>8 DEF PoolInv, SlotInv

-----------------------------------------------------------------------------
(* Every step of the pool keeps the invariant.                             *)
LEMMA PoolStepInv == PoolAssumption /\ PoolInv /\ [PoolNext]_poolVars => PoolInv'
  <1> SUFFICES ASSUME PoolAssumption, PoolInv, [PoolNext]_poolVars PROVE PoolInv'
    OBVIOUS
  <1>1. ASSUME NEW c \in Callers, NEW s \in Slots, UsesTakenThread(c, s) PROVE PoolInv'
    <2>1. /\ UNCHANGED <<m_threads, flags, host, stacks, gt_pc, target, claimed, scan, mistaken, lives,
                       on>>
          /\ undefined' = TRUE
      BY <1>1 DEF UsesTakenThread
    <2>2. PoolTypeOK'
      BY <2>1 DEF flags, stacks, PoolInv, PoolTypeOK
    <2>3. SlotInv'
      BY <2>1 DEF flags, PoolInv, SlotInv, Alone, Phases, Taken, Unclaimed, Attached, Ending, Scanned,
                  Leaving, Live
    <2>4. StackInv'
      BY <2>1 DEF stacks, PoolInv, StackInv, Live
    <2> QED
      BY <2>2, <2>3, <2>4 DEF PoolInv
  <1>2. ASSUME NEW s \in Slots, FreeDetachedThreads(s) PROVE PoolInv'
    BY <1>2, ScanStep
  <1>3. ASSUME NEW c \in Callers, Creates(c) PROVE PoolInv'
    <2>1. c \in Actors
      BY DEF Actors
    <2>2. ASSUME NEW d \in BOOLEAN, StoresDetached(c, d) PROVE PoolInv'
      BY <2>2, StoreStep
    <2>3. ASSUME StoresAlmostDone(c) PROVE PoolInv'
      BY <2>3, StoreStep
    <2> QED
      BY <1>3, <2>1, <2>2, <2>3, StackStep, StackFailsStep, FreeStep, StartStep, StartFailsStep
      DEF Creates
  <1>4. ASSUME NEW a \in Actors, Joins(a) PROVE PoolInv'
    BY <1>4, JoinedStep, ClearStep, FreeStep DEF Joins
  <1>5. ASSUME ReadsAlmostDone \/ ReadsFree PROVE PoolInv'
    BY <1>5, ScanStep
  <1>6. CASE UNCHANGED poolVars
    <2>1. PoolTypeOK'
      BY <1>6 DEF poolVars, flags, stacks, reaper, PoolInv, PoolTypeOK
    <2>2. SlotInv'
      BY <1>6 DEF poolVars, flags, reaper, PoolInv, SlotInv, Alone, Phases, Taken, Unclaimed,
                  Attached, Ending, Scanned, Leaving, Live
    <2>3. StackInv'
      BY <1>6 DEF poolVars, stacks, PoolInv, StackInv, Live
    <2> QED
      BY <2>1, <2>2, <2>3 DEF PoolInv
  <1> QED
    BY <1>1, <1>2, <1>3, <1>4, <1>5, <1>6, CreateStep, DetachStep, JoinStep, EndStep
    DEF PoolNext, Calls, Works

(* The inductive invariant holds in every reachable state.                 *)
THEOREM PoolInvariance == ASSUME PoolAssumption PROVE PoolSpec => []PoolInv
  <1>1. PoolInit => PoolInv
    BY PoolStartsInv
  <1>2. PoolInv /\ [PoolNext]_poolVars => PoolInv'
    BY PoolStepInv
  <1> QED
    BY <1>1, <1>2, PTL DEF PoolSpec

(* A slot serves one thread at a time, no two threads run on one stack, no *)
(* stack is handed out or unmapped under a thread that still runs, and     *)
(* every host thread is joined once, by the guest or by the reaper.  The   *)
(* reaper's loads and PthreadCreate's stores are steps, so it may join a   *)
(* thread that was not detached (mistaken); the theorem is about all that  *)
(* happens until the guest joins or detaches such a thread as well.        *)
THEOREM PoolIsExclusive == ASSUME PoolAssumption PROVE PoolSpec => []ThreadsExclusive
  <1>1. PoolInv => ThreadsExclusive
    BY Strong
  <1> QED
    BY <1>1, PoolInvariance, PTL
-----------------------------------------------------------------------------
(***************************************************************************)
(* The five tables of the guest's memory and the host's views agree, for   *)
(* every number of pages and frames.  TablesInStep is inductive with the   *)
(* types and with DirectInv: a cut of m_mappings lies between two pages of *)
(* direct memory, and a direct page has no name, so two of them belong to  *)
(* different records of VirtualRanges only where there is a cut.           *)
(***************************************************************************)
RangeTypes == {"None", "Reserved", "PoolReserved", "Direct", "Flexible", "Pooled"}
Names == {"", "anon", "named"}

DirectInv ==
    /\ \A p \in GuestPages : range_type[p] = "Direct" => name[p] = ""
    /\ \A p \in mapping_cuts : range_type[p] = "Direct" /\ p - 1 \in GuestPages /\ range_type[p - 1] = "Direct"

MemoryInv == MemoryTypeOK /\ TablesInStep /\ DirectInv

-----------------------------------------------------------------------------
(* Sets of numbers.                                                        *)
LEMMA MinIs ==
    ASSUME NEW S \in SUBSET Nat, S # {}
    PROVE  Min(S) \in S /\ \A y \in S : Min(S) <= y
<1>1. \E x \in S : \A y \in S : x <= y
  BY Least
<1> QED
  BY <1>1 DEF Min

LEMMA SpanIs ==
    ASSUME NEW n \in Nat, NEW I \in Spans(1..n)
    PROVE  /\ I \in SUBSET (1..n) /\ I # {} /\ IsFiniteSet(I) /\ Cardinality(I) \in Nat
           /\ Min(I) \in I
           /\ \A p \in I : /\ Min(I) <= p
                           /\ p - Min(I) \in 0..Cardinality(I) - 1
<1>1. PICK lo \in 1..n, hi \in 1..n : I = lo..hi
  BY DEF Spans
<1>2. I # {} /\ I \in SUBSET (1..n) /\ lo <= hi
  BY <1>1 DEF Spans
<1>3. IsFiniteSet(I) /\ Cardinality(I) = hi - lo + 1
  BY <1>1, <1>2, FS_Interval
<1>4. Min(I) \in I /\ \A p \in I : Min(I) <= p
  BY <1>2, MinIs
<1>5. Min(I) = lo
  BY <1>1, <1>2, <1>4
<1> QED
  BY <1>1, <1>2, <1>3, <1>4, <1>5

Below(S, x) == {g \in S : g < x}

(* Lowest: a finite set has an element for every rank below its size.      *)
LEMMA Ranked ==
    ASSUME NEW S \in SUBSET Nat, IsFiniteSet(S), NEW k \in Nat, k < Cardinality(S)
    PROVE  \E f \in S : Cardinality(Below(S, f)) = k
<1> DEFINE Bad == {j \in Nat : j < Cardinality(S)
                               /\ ~ \E f \in S : Cardinality(Below(S, f)) = j}
<1>1. SUFFICES ASSUME Bad # {} PROVE FALSE
  OBVIOUS
<1>2. Cardinality(S) \in Nat
  BY FS_CardinalityType
<1>3. PICK j \in Bad : \A i \in Bad : j <= i
  BY <1>1, Least
<1> HIDE DEF Bad
<1>4. j \in Nat /\ j < Cardinality(S) /\ ~ \E f \in S : Cardinality(Below(S, f)) = j
  BY DEF Bad
<1>5. CASE j = 0
  <2>1. S # {}
    BY <1>2, <1>4, <1>5, FS_EmptySet
  <2>2. PICK f \in S : \A g \in S : f <= g
    BY <2>1, Least
  <2>3. Below(S, f) = {}
    <3>1. \A g \in S : g \in Nat /\ f \in Nat /\ ~(g < f)
      BY <2>2
    <3> QED
      BY <3>1 DEF Below
  <2> QED
    BY <1>4, <1>5, <2>3, FS_EmptySet
<1>6. CASE j # 0
  <2>1. j - 1 \in Nat /\ j - 1 < Cardinality(S) /\ j - 1 \notin Bad
    BY <1>2, <1>3, <1>4, <1>6
  <2>2. PICK f \in S : Cardinality(Below(S, f)) = j - 1
    BY <2>1 DEF Bad
  <2> DEFINE below == Below(S, f)
             more == {g \in S : g > f}
  <2>0. /\ below \in SUBSET S /\ f \in Nat /\ S \in SUBSET Nat
        /\ \A g : g \in below <=> g \in S /\ g < f
    BY DEF Below
  <2>3. IsFiniteSet(below) /\ f \notin below
    BY <2>0, FS_Subset
  <2> HIDE DEF below
  <2>4. IsFiniteSet(below \cup {f}) /\ Cardinality(below \cup {f}) = j
    <3>1. Cardinality(below) = j - 1
      BY <2>2 DEF below
    <3>2. IsFiniteSet(below \cup {f}) /\ Cardinality(below \cup {f}) = Cardinality(below) + 1
      BY <2>3, FS_AddElement
    <3>3. j \in Nat
      BY <1>4
    <3> QED
      BY <3>1, <3>2, <3>3
  <2>5. more # {}
    <3>1. SUFFICES ASSUME more = {} PROVE FALSE
      OBVIOUS
    <3>2. \A g \in S : g \in below \/ g = f
      BY <2>0, <3>1
    <3>3. S = below \cup {f}
      BY <2>0, <3>2
    <3> QED
      BY <1>4, <2>4, <3>3
  <2>6. PICK h \in more : \A g \in more : h <= g
    BY <2>5, Least
  <2>7. Below(S, h) = below \cup {f}
    <3>1. h \in Nat /\ f < h
      BY <2>0
    <3>2. \A g \in S : g < h <=> g \in below \/ g = f
      BY <2>0, <2>6, <3>1
    <3> QED
      BY <2>0, <3>2 DEF Below
  <2> QED
    BY <1>4, <2>4, <2>6, <2>7
<1> QED
  BY <1>5, <1>6

LEMMA LowestIs ==
    ASSUME MemoryAssumption, NEW S \in SUBSET Nat, IsFiniteSet(S), NEW I \in SUBSET GuestPages,
           IsFiniteSet(I), Cardinality(I) <= Cardinality(S)
    PROVE  /\ \A p \in I : Lowest(S, I)[p] \in S
           /\ \A p \in GuestPages \ I : Lowest(S, I)[p] = 0
           /\ Lowest(S, I) \in [GuestPages -> S \cup {0}]
           /\ \A p, q \in I : p # q => Lowest(S, I)[p] # Lowest(S, I)[q]
<1> DEFINE at == Lowest(S, I)
           rank(p) == Cardinality(Below(I, p))
<1>1. GuestPages \subseteq Nat
  BY DEF GuestPages, MemoryAssumption
<1>2. Cardinality(I) \in Nat /\ Cardinality(S) \in Nat
  BY FS_CardinalityType
<1>3. ASSUME NEW p \in I
      PROVE  rank(p) \in Nat /\ rank(p) < Cardinality(I)
  <2>1. IsFiniteSet(Below(I, p)) /\ Below(I, p) # I
    BY <1>1, FS_Subset DEF Below
  <2>2. Below(I, p) \in SUBSET I
    BY DEF Below
  <2>3. rank(p) \in Nat /\ rank(p) <= Cardinality(I) /\ rank(p) # Cardinality(I)
    BY <2>1, <2>2, FS_Subset, FS_CardinalityType
  <2> QED
    BY <1>2, <2>3
<1>4. ASSUME NEW p \in I
      PROVE  at[p] \in S /\ Cardinality(Below(S, at[p])) = rank(p)
  <2>1. \E f \in S : Cardinality(Below(S, f)) = rank(p)
    BY <1>2, <1>3, Ranked
  <2>2. at[p] = CHOOSE f \in S : Cardinality(Below(S, f)) = rank(p)
    BY DEF Lowest, Below
  <2> HIDE DEF rank, at
  <2> QED
    BY <2>1, <2>2
<1>5. \A p \in GuestPages \ I : at[p] = 0
  BY DEF Lowest
<1>6. at \in [GuestPages -> S \cup {0}]
  <2>1. at = [p \in GuestPages |-> at[p]]
    BY DEF Lowest
  <2> HIDE DEF at
  <2> QED
    BY <1>4, <1>5, <2>1
<1>7. ASSUME NEW p \in I, NEW q \in I, p < q
      PROVE  rank(p) # rank(q)
  <2> DEFINE P == Below(I, p)
             Q == Below(I, q)
  <2>1. P \in SUBSET Q /\ p \in Q /\ p \notin P
    <3>1. p \in Nat /\ q \in Nat /\ \A r \in I : r \in Nat /\ (r < p => r < q)
      BY <1>1, <1>7
    <3>2. p \in Q /\ p \notin P
      BY <1>7, <3>1 DEF Below
    <3>3. ASSUME NEW r \in P PROVE r \in Q
      BY <3>1 DEF Below
    <3> QED
      BY <3>2, <3>3
  <2>2. IsFiniteSet(Q)
    BY FS_Subset DEF Below
  <2> HIDE DEF P, Q
  <2>3. Cardinality(P) # Cardinality(Q)
    BY <2>1, <2>2, FS_Subset
  <2> QED
    BY <2>3 DEF P, Q
<1>8. ASSUME NEW p \in I, NEW q \in I, p # q
      PROVE  at[p] # at[q]
  <2>1. p < q \/ q < p
    BY <1>1, <1>8
  <2>2. rank(p) # rank(q)
    BY <1>7, <2>1
  <2> HIDE DEF at, rank
  <2> QED
    BY <1>4, <2>2
<1> HIDE DEF at
<1> QED
  BY <1>4, <1>5, <1>6, <1>8 DEF at

-----------------------------------------------------------------------------
(* The invariant page by page.                                             *)
PageAgrees(p) ==
    /\ m_maps[p] = m_mappings[p] + m_allocated[p] + m_pool[p]
    /\ m_mappings[p] # 0 <=> range_type[p] = "Direct"
    /\ m_allocated[p] # 0 <=> range_type[p] = "Flexible"
    /\ m_pool[p] # 0 <=> range_type[p] = "Pooled"
    /\ offset[p] = m_mappings[p]
    /\ m_mappings[p] \in m_physical \cup {0}
    /\ m_pool[p] \in (UNION m_expansions) \cup {0}
    /\ range_type[p] = "Direct" => name[p] = ""

(* No two pages have the same frame of the pool, or of flexible memory.    *)
Apart ==
    \A p, q \in GuestPages : p # q => /\ m_pool[p] # 0 => m_pool[p] # m_pool[q]
                                      /\ m_allocated[p] # 0 => m_allocated[p] # m_allocated[q]

CutsInv == \A p \in mapping_cuts : /\ p \in cuts /\ range_type[p] = "Direct"
                                   /\ p - 1 \in GuestPages /\ range_type[p - 1] = "Direct"

OtherInv ==
    /\ m_physical \cap UNION m_expansions = {}
    /\ \A p \in gpu_pages : range_type[p] \in {"Direct", "Flexible", "Pooled"}
    /\ g_memory_pool_committed = Cardinality(Of("Pooled"))

AllAgree == \A p \in GuestPages : PageAgrees(p)

LEMMA MemoryInvIs == MemoryTypeOK => (MemoryInv <=> AllAgree /\ Apart /\ CutsInv /\ OtherInv)
<1> SUFFICES ASSUME MemoryTypeOK PROVE MemoryInv <=> AllAgree /\ Apart /\ CutsInv /\ OtherInv
  OBVIOUS
<1> USE DEF AllAgree
<1>1. MemoryInv => \A p \in GuestPages : PageAgrees(p)
  BY DEF MemoryInv, TablesInStep, DirectInv, PageAgrees
<1>2. MemoryInv => Apart
  BY DEF MemoryInv, TablesInStep, Apart
<1>3. MemoryInv => CutsInv
  BY DEF MemoryInv, TablesInStep, DirectInv, CutsInv
<1>4. gpu_pages \in SUBSET GuestPages /\ mapping_cuts \in SUBSET GuestPages /\ cuts \in SUBSET GuestPages
  BY DEF MemoryTypeOK
<1>5. gpu_pages \subseteq Committed <=> \A p \in gpu_pages : range_type[p] \in {"Direct", "Flexible", "Pooled"}
  BY <1>4 DEF Committed, Of
<1>6. MemoryInv => OtherInv
  BY <1>5 DEF MemoryInv, TablesInStep, OtherInv
<1>7. ASSUME \A p \in GuestPages : PageAgrees(p), Apart, CutsInv, OtherInv
      PROVE  MemoryInv
  <2>1. DirectInv
    BY <1>7 DEF DirectInv, PageAgrees, CutsInv
  <2>2. mapping_cuts \subseteq cuts
    BY <1>7 DEF CutsInv
  <2>3. TablesInStep
    BY <1>5, <1>7, <2>2 DEF TablesInStep, PageAgrees, Apart, OtherInv
  <2> QED
    BY <2>1, <2>3 DEF MemoryInv
<1> QED
  BY <1>1, <1>2, <1>3, <1>6, <1>7

LEMMA InsideIs == \A c, run, p : p \in Inside(c, run) <=> p \in c /\ p \in run /\ p - 1 \in run
  BY DEF Inside

LEMMA EdgesAre ==
    \A I, p : p \in Edges(I) <=>
        /\ p \in 1..LastPage + 1
        /\ (p \in I /\ p - 1 \notin I) \/ (p \notin I /\ p - 1 \in I)
<1> SUFFICES ASSUME NEW I, NEW p
             PROVE  p \in Edges(I) <=>
                        /\ p \in 1..LastPage + 1
                        /\ (p \in I /\ p - 1 \notin I) \/ (p \notin I /\ p - 1 \in I)
  OBVIOUS
<1>1. ((p \in I) # (p - 1 \in I)) <=> ((p \in I /\ p - 1 \notin I) \/ (p \notin I /\ p - 1 \in I))
  OBVIOUS
<1> QED
  BY <1>1 DEF Edges

LEMMA WithIs ==
    \A f, I, g : \A p \in GuestPages : With(f, I, g)[p] = IF p \in I THEN g[p] ELSE f[p]
  BY DEF With

LEMMA WithTypes ==
    ASSUME NEW S, NEW f \in [GuestPages -> S], NEW I, NEW g \in [GuestPages -> S]
    PROVE  With(f, I, g) \in [GuestPages -> S]
  BY DEF With

(* The constants' types, and that a page and a frame are not 0.            *)
LEMMA Numbers ==
    ASSUME MemoryAssumption
    PROVE  /\ GuestPages \in SUBSET Nat /\ IsFiniteSet(GuestPages) /\ Cardinality(GuestPages) = LastPage
           /\ Frames \in SUBSET Nat /\ 0 \notin Frames /\ IsFiniteSet(Frames)
           /\ FlexFrames \in SUBSET Nat /\ 0 \notin FlexFrames /\ IsFiniteSet(FlexFrames)
<1> USE DEF MemoryAssumption, GuestPages, Frames, FlexFrames
<1>1. IsFiniteSet(GuestPages) /\ Cardinality(GuestPages) = LastPage
  BY FS_Interval
<1>2. IsFiniteSet(Frames) /\ IsFiniteSet(FlexFrames)
  BY FS_Interval
<1> QED
  BY <1>1, <1>2

-----------------------------------------------------------------------------
(* The pages of T become a range of type t, whatever it was, with frames   *)
(* "at" of direct or "al" of flexible memory, or with none.                *)
Becomes(T, t, n, at, al, bk) ==
    /\ AddRange(T, t, n, at) /\ MapPhysical(T, at) /\ MapFlexible(T, al) /\ MapBacking(T, bk)
    /\ \A p \in gpu_pages' : (p \in gpu_pages /\ p \notin T) \/ (p \in T /\ t \in {"Direct", "Flexible"})
    /\ UNCHANGED <<m_physical, m_expansions, m_pool, g_memory_pool_committed, exited>>

Fits(T, t, n, at, al, bk) ==
    /\ \A p \in T : /\ range_type[p] # "Pooled"
                    /\ at[p] # 0 <=> t = "Direct"
                    /\ al[p] # 0 <=> t = "Flexible"
                    /\ bk[p] = at[p] + al[p]
                    /\ at[p] \in m_physical \cup {0}
                    /\ t = "Direct" => n[p] = ""
    /\ \A p \in T : \A q \in GuestPages : al[p] # 0 /\ p # q =>
          IF q \in T THEN al[p] # al[q] ELSE al[p] # m_allocated[q]

(* Both tables cut where a range ends, so a cut of m_mappings stays one of *)
(* VirtualRanges.                                                          *)
LEMMA CutsFollow ==
    ASSUME MemoryInv, NEW T \in SUBSET GuestPages, NEW t, NEW n, NEW at, AddRange(T, t, n, at),
           MapPhysical(T, at), \A p \in GuestPages : m_mappings'[p] # 0 <=> range_type'[p] = "Direct"
    PROVE  CutsInv' /\ cuts' \subseteq GuestPages /\ mapping_cuts' \subseteq GuestPages
<1> DEFINE D == {p \in GuestPages : range_type'[p] = "Direct"}
           M == {p \in GuestPages : m_mappings'[p] # 0}
<1>1. D = M
  OBVIOUS
<1>2. /\ cuts' = Inside((cuts \ T) \cup Edges(T), D)
      /\ mapping_cuts' = Inside((mapping_cuts \ T) \cup Edges(T), M)
  BY DEF AddRange, MapPhysical
<1>3. CutsInv
  BY MemoryInvIs DEF MemoryInv
<1> HIDE DEF D, M
<1>4. ASSUME NEW p \in mapping_cuts'
      PROVE  p \in cuts' /\ p \in D /\ p - 1 \in D
  <2>1. p \in (mapping_cuts \ T) \cup Edges(T) /\ p \in D /\ p - 1 \in D
    BY <1>1, <1>2, InsideIs
  <2>2. p \in (cuts \ T) \cup Edges(T)
    BY <1>3, <2>1 DEF CutsInv
  <2> QED
    BY <1>2, <2>1, <2>2, InsideIs
<1>5. cuts' \subseteq D /\ mapping_cuts' \subseteq D
  BY <1>1, <1>2, InsideIs
<1> QED
  BY <1>4, <1>5 DEF CutsInv, D

LEMMA Remapped ==
    ASSUME MemoryAssumption, MemoryInv, NEW T \in SUBSET GuestPages, NEW t \in RangeTypes, t # "Pooled",
           NEW n \in [GuestPages -> Names], NEW at \in [GuestPages -> Frames \cup {0}],
           NEW al \in [GuestPages -> FlexFrames \cup {0}],
           NEW bk \in [GuestPages -> Frames \cup FlexFrames \cup {0}],
           Fits(T, t, n, at, al, bk), Becomes(T, t, n, at, al, bk), faults' \in 0..MaxFaults
    PROVE  MemoryInv'
<1>1. (\A p \in GuestPages : PageAgrees(p)) /\ Apart /\ CutsInv /\ OtherInv
  BY MemoryInvIs DEF MemoryInv, AllAgree
<1>2. /\ range_type' = With(range_type, T, All(t)) /\ name' = With(name, T, n)
      /\ offset' = With(offset, T, at) /\ m_mappings' = With(m_mappings, T, at)
      /\ m_allocated' = With(m_allocated, T, al) /\ m_maps' = With(m_maps, T, bk)
  BY DEF Becomes, AddRange, MapPhysical, MapFlexible, MapBacking
<1>3. UNCHANGED <<m_physical, m_expansions, m_pool, g_memory_pool_committed, exited>>
  BY DEF Becomes
<1>4. All(t) \in [GuestPages -> RangeTypes] /\ \A p \in GuestPages : All(t)[p] = t
  BY DEF All
<1>5. ASSUME NEW p \in GuestPages
      PROVE  /\ p \in T => /\ range_type'[p] = t /\ name'[p] = n[p] /\ offset'[p] = at[p]
                           /\ m_mappings'[p] = at[p] /\ m_allocated'[p] = al[p]
                           /\ m_maps'[p] = bk[p]
             /\ p \notin T => /\ range_type'[p] = range_type[p] /\ name'[p] = name[p]
                              /\ offset'[p] = offset[p] /\ m_mappings'[p] = m_mappings[p]
                              /\ m_allocated'[p] = m_allocated[p] /\ m_maps'[p] = m_maps[p]
  BY <1>2, <1>4, WithIs
<1>a. ASSUME NEW p \in T
      PROVE  /\ range_type[p] # "Pooled" /\ bk[p] = at[p] + al[p] /\ at[p] \in m_physical \cup {0}
             /\ at[p] # 0 <=> t = "Direct"
             /\ al[p] # 0 <=> t = "Flexible"
             /\ t = "Direct" => n[p] = ""
  BY DEF Fits
<1>b. ASSUME NEW p \in T, NEW q \in GuestPages, al[p] # 0, p # q
      PROVE  /\ q \in T => al[p] # al[q]
             /\ q \notin T => al[p] # m_allocated[q]
  BY <1>b DEF Fits
<1>6. ASSUME NEW p \in GuestPages PROVE PageAgrees(p)'
  <2>1. CASE p \in T
    <3>1. m_pool[p] = 0 /\ m_pool'[p] = 0
      BY <1>1, <1>3, <1>a, <2>1 DEF PageAgrees
    <3>2. at[p] \in Nat /\ al[p] \in Nat
      BY Numbers
    <3>3. /\ range_type'[p] = t /\ name'[p] = n[p] /\ offset'[p] = at[p] /\ m_mappings'[p] = at[p]
          /\ m_allocated'[p] = al[p] /\ m_maps'[p] = bk[p] /\ m_physical' = m_physical
      BY <1>3, <1>5, <2>1
    <3>4. /\ m_maps'[p] = m_mappings'[p] + m_allocated'[p] + m_pool'[p]
          /\ offset'[p] = m_mappings'[p]
          /\ m_mappings'[p] \in m_physical' \cup {0}
      <4>1. bk[p] = at[p] + al[p] /\ at[p] \in m_physical \cup {0}
        BY <1>a, <2>1
      <4>2. at[p] + al[p] = at[p] + al[p] + 0
        BY <3>2
      <4>3. m_maps'[p] = m_mappings'[p] + m_allocated'[p] + m_pool'[p]
        BY <3>1, <3>3, <4>1, <4>2, Zenon
      <4> QED
        BY <3>3, <4>1, <4>3, Zenon
    <3>5. /\ m_mappings'[p] # 0 <=> range_type'[p] = "Direct"
          /\ m_allocated'[p] # 0 <=> range_type'[p] = "Flexible"
          /\ range_type'[p] = "Direct" => name'[p] = ""
          /\ range_type'[p] # "Pooled"
      BY <1>a, <2>1, <3>3
    <3> QED
      BY <3>1, <3>4, <3>5 DEF PageAgrees
  <2>2. CASE p \notin T
    BY <1>1, <1>3, <1>5, <2>2 DEF PageAgrees
  <2> QED
    BY <2>1, <2>2
<1>7. Apart'
  <2>1. ASSUME NEW p \in GuestPages, NEW q \in GuestPages, p # q
        PROVE  m_pool'[p] # 0 => m_pool'[p] # m_pool'[q]
    BY <1>1, <1>3, <2>1 DEF Apart
  <2>2. ASSUME NEW p \in GuestPages, NEW q \in GuestPages, p # q, m_allocated'[p] # 0
        PROVE  m_allocated'[p] # m_allocated'[q]
    <3>1. CASE p \in T /\ q \in T
      BY <1>5, <1>b, <2>2, <3>1
    <3>2. CASE p \in T /\ q \notin T
      BY <1>5, <1>b, <2>2, <3>2
    <3>3. CASE p \notin T /\ q \in T
      <4>1. m_allocated'[p] = m_allocated[p] /\ m_allocated'[q] = al[q]
        BY <1>5, <3>3
      <4>2. al[q] # 0 => al[q] # m_allocated[p]
        BY <1>b, <3>3
      <4> QED
        BY <2>2, <4>1, <4>2
    <3>4. CASE p \notin T /\ q \notin T
      BY <1>1, <1>5, <2>2, <3>4 DEF Apart
    <3> QED
      BY <3>1, <3>2, <3>3, <3>4
  <2> QED
    BY <2>1, <2>2 DEF Apart
<1>8. CutsInv' /\ cuts' \subseteq GuestPages /\ mapping_cuts' \subseteq GuestPages
  <2>1. \A p \in GuestPages : m_mappings'[p] # 0 <=> range_type'[p] = "Direct"
    BY <1>6 DEF PageAgrees
  <2> QED
    BY <2>1, CutsFollow DEF Becomes
<1>9. OtherInv'
  <2>1. Of("Pooled")' = Of("Pooled")
    BY <1>5 DEF Of, Fits
  <2>2. \A p \in gpu_pages' : p \in GuestPages /\ range_type'[p] \in {"Direct", "Flexible", "Pooled"}
    <3>1. gpu_pages \in SUBSET GuestPages
      BY DEF MemoryInv, MemoryTypeOK
    <3> QED
      BY <1>1, <1>5, <3>1 DEF Becomes, OtherInv
  <2> QED
    BY <1>1, <1>3, <2>1, <2>2 DEF OtherInv
<1>10. MemoryTypeOK'
  <2>1. /\ range_type' \in [GuestPages -> RangeTypes] /\ name' \in [GuestPages -> Names]
        /\ offset' \in [GuestPages -> Frames \cup {0}] /\ m_mappings' \in [GuestPages -> Frames \cup {0}]
        /\ m_allocated' \in [GuestPages -> FlexFrames \cup {0}]
        /\ m_maps' \in [GuestPages -> Frames \cup FlexFrames \cup {0}]
    BY <1>2, <1>4, WithTypes DEF MemoryInv, MemoryTypeOK, RangeTypes, Names
  <2>2. gpu_pages' \subseteq GuestPages
    BY DEF Becomes, MemoryInv, MemoryTypeOK
  <2> QED
    BY <1>3, <1>8, <2>1, <2>2 DEF MemoryInv, MemoryTypeOK, RangeTypes, Names
<1>11. AllAgree'
  BY <1>6 DEF AllAgree
<1> QED
  BY <1>7, <1>8, <1>9, <1>10, <1>11, MemoryInvIs, PTL

LEMMA Vacated ==
    ASSUME MemoryAssumption, MemoryInv, NEW T \in SUBSET GuestPages, \A p \in T : range_type[p] # "Pooled",
           NEW t \in {"None", "Reserved", "PoolReserved"}, NEW n \in Names, Vacate(T, t, n),
           faults' \in 0..MaxFaults
    PROVE  MemoryInv'
<1> DEFINE zero == All(0)
           names == All(n)
<1>1. /\ zero \in [GuestPages -> Frames \cup {0}] /\ zero \in [GuestPages -> FlexFrames \cup {0}]
      /\ zero \in [GuestPages -> Frames \cup FlexFrames \cup {0}] /\ names \in [GuestPages -> Names]
      /\ \A p \in GuestPages : zero[p] = 0
  BY DEF All
<1>2. t \in RangeTypes /\ t # "Pooled" /\ t # "Direct" /\ t # "Flexible"
  BY DEF RangeTypes
<1>3. Becomes(T, t, names, zero, zero, zero)
  <2>1. gpu_pages' = gpu_pages \ T /\ UNCHANGED <<m_physical, pool, exited>>
    BY DEF Vacate
  <2>2. \A p \in gpu_pages' : p \in gpu_pages /\ p \notin T
    BY <2>1
  <2>3. UNCHANGED <<m_physical, m_expansions, m_pool, g_memory_pool_committed, exited>>
    BY <2>1 DEF pool
  <2>4. AddRange(T, t, names, zero) /\ MapPhysical(T, zero) /\ MapFlexible(T, zero)
        /\ MapBacking(T, zero)
    BY DEF Vacate, UnmapPhysical
  <2> QED
    BY <2>2, <2>3, <2>4 DEF Becomes
<1> HIDE DEF zero, names
<1>4. Fits(T, t, names, zero, zero, zero)
  <2>1. ASSUME NEW p \in T
        PROVE  zero[p] = 0 /\ 0 = 0 + 0 /\ range_type[p] # "Pooled"
    BY <1>1
  <2> QED
    BY <1>2, <2>1 DEF Fits
<1> QED
  BY <1>1, <1>2, <1>3, <1>4, Remapped

-----------------------------------------------------------------------------
(* Where a mapping goes.                                                   *)
LEMMA FreeRangeIs ==
    ASSUME MemoryAssumption, NEW I \in Spans(GuestPages), FreeRange(I) # {}
    PROVE  /\ FreeRange(I) \in Spans(GuestPages) /\ FreeRange(I) \subseteq Unused
           /\ Cardinality(FreeRange(I)) = Cardinality(I)
<1> DEFINE fits == {J \in Spans(GuestPages) : Cardinality(J) = Cardinality(I) /\ Min(J) >= Min(I)
                                              /\ J \subseteq Unused}
           mins == {Min(J) : J \in fits}
<1>1. FreeRange(I) = IF fits = {} THEN {} ELSE CHOOSE J \in fits : \A K \in fits : Min(J) <= Min(K)
  BY DEF FreeRange
<1>2. fits # {}
  BY <1>1
<1>3. ASSUME NEW J \in fits PROVE Min(J) \in Nat
  BY SpanIs DEF GuestPages, MemoryAssumption
<1>4. \E J \in fits : \A K \in fits : Min(J) <= Min(K)
  <2>1. mins \in SUBSET Nat /\ mins # {}
    BY <1>2, <1>3
  <2>2. PICK m \in mins : \A k \in mins : m <= k
    BY <2>1, Least
  <2> QED
    BY <2>2
<1> HIDE DEF fits
<1>5. FreeRange(I) \in fits
  BY <1>1, <1>2, <1>4
<1> QED
  BY <1>5 DEF fits

LEMMA TargetIs ==
    ASSUME MemoryAssumption, NEW I \in Spans(GuestPages), NEW how \in {"fixed", "hint"}, NEW takes,
           Target(I, how, takes) # {}
    PROVE  /\ Target(I, how, takes) \in Spans(GuestPages)
           /\ Target(I, how, takes) \in SUBSET GuestPages
           /\ \A p \in Target(I, how, takes) : range_type[p] # "Pooled"
           /\ Cardinality(Target(I, how, takes)) = Cardinality(I)
<1> DEFINE T == Target(I, how, takes)
<1>0. \A J \in Spans(GuestPages) : J \in SUBSET GuestPages
  BY SpanIs DEF GuestPages, MemoryAssumption
<1>1. CASE how = "fixed"
  <2>1. I \cap Of("Pooled") = {} /\ T = I
    BY <1>1 DEF Target
  <2> HIDE DEF T
  <2> QED
    BY <1>0, <2>1 DEF Of, T
<1>2. CASE how # "fixed" /\ takes /\ I \subseteq Of("Reserved")
  <2>1. T = I
    BY <1>2 DEF Target
  <2> HIDE DEF T
  <2> QED
    BY <1>0, <1>2, <2>1 DEF Of, T
<1>3. CASE how # "fixed" /\ ~(takes /\ I \subseteq Of("Reserved"))
  <2>1. T = FreeRange(I)
    BY <1>3 DEF Target
  <2>2. T \in Spans(GuestPages) /\ T \subseteq Unused /\ Cardinality(T) = Cardinality(I)
    BY <2>1, FreeRangeIs
  <2> HIDE DEF T
  <2> QED
    BY <1>0, <2>2 DEF Of, Unused, T
<1> QED
  BY <1>1, <1>2, <1>3

-----------------------------------------------------------------------------
(* The calls that replace what is at the target.                           *)
LEMMA ReserveKeeps ==
    ASSUME MemoryAssumption, MemoryInv, NEW I \in Spans(GuestPages), NEW how \in {"fixed", "hint"},
           KernelReserveVirtualRange(I, how)
    PROVE  MemoryInv'
<1> DEFINE T == Target(I, how, FALSE)
<1>1. T # {} /\ Vacate(T, "Reserved", "anon") /\ faults' = faults
  BY DEF KernelReserveVirtualRange
<1>2. T \in SUBSET GuestPages /\ \A p \in T : range_type[p] # "Pooled"
  BY <1>1, TargetIs
<1>3. faults' \in 0..MaxFaults /\ "anon" \in Names
  BY <1>1 DEF MemoryInv, MemoryTypeOK, Names
<1> HIDE DEF T
<1> QED
  BY <1>1, <1>2, <1>3, Vacated

LEMMA PoolReserveKeeps ==
    ASSUME MemoryAssumption, MemoryInv, NEW I \in Spans(GuestPages), NEW how \in {"fixed", "hint"},
           KernelMemoryPoolReserve(I, how)
    PROVE  MemoryInv'
<1> DEFINE T == Target(I, how, FALSE)
<1>1. /\ T # {} /\ faults' = faults
      /\ Vacate(T, "Reserved", "anon") \/ Vacate(T, "PoolReserved", "anon")
  BY DEF KernelMemoryPoolReserve
<1>2. T \in SUBSET GuestPages /\ \A p \in T : range_type[p] # "Pooled"
  BY <1>1, TargetIs
<1>3. faults' \in 0..MaxFaults /\ "anon" \in Names
  BY <1>1 DEF MemoryInv, MemoryTypeOK, Names
<1> HIDE DEF T
<1> QED
  BY <1>1, <1>2, <1>3, Vacated

LEMMA FaultCounts == MemoryAssumption /\ MemoryInv /\ Fault => faults' \in 0..MaxFaults
<1> SUFFICES ASSUME MemoryAssumption, MemoryInv, Fault PROVE faults' \in 0..MaxFaults
  OBVIOUS
<1>1. faults \in 0..MaxFaults /\ MaxFaults \in Nat
  BY DEF MemoryInv, MemoryTypeOK, MemoryAssumption
<1> QED
  BY <1>1 DEF Fault

LEMMA ViewRefusedKeeps ==
    ASSUME MemoryAssumption, MemoryInv, NEW T \in SUBSET GuestPages, T # {},
           \A p \in T : range_type[p] # "Pooled", NEW how, ViewRefused(T, how)
    PROVE  MemoryInv'
<1>1. faults' \in 0..MaxFaults
  BY FaultCounts, Zenon DEF ViewRefused
<1>2. "" \in Names /\ ConsumedName(T) \in Names
  <2>0. T \in SUBSET Nat
    BY DEF GuestPages, MemoryAssumption
  <2>1. Min(T) \in GuestPages
    BY <2>0, MinIs
  <2> QED
    BY <2>1 DEF ConsumedName, Names, MemoryInv, MemoryTypeOK
<1>3. CASE how = "hint" /\ T \subseteq Unused
  <2>1. Vacate(T, "None", "")
    BY <1>3, Zenon DEF ViewRefused
  <2> QED
    BY <1>1, <1>2, <2>1, Vacated
<1>4. CASE ~(how = "hint" /\ T \subseteq Unused)
  <2>1. Vacate(T, "Reserved", ConsumedName(T))
    BY <1>4, Zenon DEF ViewRefused
  <2> QED
    BY <1>1, <1>2, <2>1, Vacated
<1> QED
  BY <1>3, <1>4

(* The frames of a direct mapping are the ones asked for.                  *)
LEMMA FromIs ==
    ASSUME MemoryAssumption, NEW T \in Spans(GuestPages), NEW f \in Frames,
           f..f + Cardinality(T) - 1 \subseteq m_physical, m_physical \subseteq Frames
    PROVE  /\ From(f, T) \in [GuestPages -> Frames \cup {0}]
           /\ \A p \in T : From(f, T)[p] \in m_physical /\ From(f, T)[p] # 0
<1>1. \A p \in T : p \in GuestPages /\ p - Min(T) \in 0..Cardinality(T) - 1
  BY SpanIs DEF GuestPages, MemoryAssumption
<1>2. Cardinality(T) \in Nat /\ f \in Nat
  BY SpanIs, Numbers DEF GuestPages, MemoryAssumption
<1>3. ASSUME NEW p \in T PROVE From(f, T)[p] \in m_physical /\ From(f, T)[p] # 0
  <2>1. From(f, T)[p] = f + (p - Min(T))
    BY <1>1 DEF From
  <2>2. f + (p - Min(T)) \in f..f + Cardinality(T) - 1
    <3> DEFINE d == p - Min(T)
    <3>1. d \in 0..Cardinality(T) - 1
      BY <1>1
    <3> HIDE DEF d
    <3>2. f + d \in f..f + Cardinality(T) - 1
      BY <1>2, <3>1
    <3> QED
      BY <3>2 DEF d
  <2> QED
    BY <2>1, <2>2, Numbers
<1>4. ASSUME NEW p \in GuestPages PROVE From(f, T)[p] \in Frames \cup {0}
  <2>1. CASE p \in T
    BY <1>3, <2>1
  <2>2. CASE p \notin T
    BY <2>2 DEF From
  <2> QED
    BY <2>1, <2>2
<1>5. From(f, T) = [p \in GuestPages |-> From(f, T)[p]]
  BY DEF From
<1> QED
  BY <1>3, <1>4, <1>5

LEMMA MapDirectKeeps ==
    ASSUME MemoryAssumption, MemoryInv, NEW I \in Spans(GuestPages), NEW f \in Frames,
           NEW how \in {"fixed", "hint"}, KernelMapDirectMemory(I, f, how)
    PROVE  MemoryInv'
<1> DEFINE T == Target(I, how, TRUE)
           at == From(f, T)
           zero == All(0)
           noname == All("")
<1>1. T # {} /\ f..f + Cardinality(I) - 1 \subseteq m_physical
  BY DEF KernelMapDirectMemory
<1>2. /\ T \in Spans(GuestPages) /\ T \in SUBSET GuestPages /\ \A p \in T : range_type[p] # "Pooled"
      /\ Cardinality(T) = Cardinality(I)
  BY <1>1, TargetIs
<1>3. \/ /\ MapBacking(T, at) /\ MapPhysical(T, at) /\ AddRange(T, "Direct", noname, at)
         /\ MapFlexible(T, zero) /\ gpu_pages' = gpu_pages \cup T
         /\ UNCHANGED <<m_physical, pool, exited, faults>>
      \/ ViewRefused(T, how)
  BY DEF KernelMapDirectMemory
<1> HIDE DEF T
<1>4. CASE ViewRefused(T, how)
  BY <1>1, <1>2, <1>4, ViewRefusedKeeps
<1>5. CASE ~ViewRefused(T, how)
  <2>1. m_physical \subseteq Frames /\ faults \in 0..MaxFaults
    BY DEF MemoryInv, MemoryTypeOK
  <2>2. /\ at \in [GuestPages -> Frames \cup {0}]
        /\ \A p \in T : at[p] \in m_physical /\ at[p] # 0 /\ at[p] \in Nat
    BY <1>1, <1>2, <2>1, FromIs, Numbers
  <2>3. /\ zero \in [GuestPages -> FlexFrames \cup {0}] /\ noname \in [GuestPages -> Names]
        /\ \A p \in GuestPages : zero[p] = 0 /\ noname[p] = ""
    BY DEF All, Names
  <2> HIDE DEF at, zero, noname
  <2>4. at \in [GuestPages -> Frames \cup FlexFrames \cup {0}]
    BY <2>2
  <2>5. Becomes(T, "Direct", noname, at, zero, at)
    <3>1. \A p \in gpu_pages' : (p \in gpu_pages /\ p \notin T) \/ p \in T
      BY <1>3, <1>5
    <3>2. UNCHANGED <<m_physical, m_expansions, m_pool, g_memory_pool_committed, exited>>
      BY <1>3, <1>5 DEF pool
    <3> QED
      BY <1>3, <1>5, <3>1, <3>2 DEF Becomes
  <2>6. Fits(T, "Direct", noname, at, zero, at)
    <3>1. ASSUME NEW p \in T
          PROVE  /\ range_type[p] # "Pooled" /\ at[p] # 0 /\ zero[p] = 0 /\ at[p] = at[p] + zero[p]
                 /\ at[p] \in m_physical \cup {0} /\ noname[p] = ""
      <4>1. zero[p] = 0 /\ noname[p] = "" /\ at[p] # 0 /\ at[p] \in m_physical /\ range_type[p] # "Pooled"
        BY <1>2, <2>2, <2>3
      <4>2. \A x \in Nat : x = x + 0
        OBVIOUS
      <4>3. at[p] = at[p] + 0
        BY <2>2, <4>2, Zenon
      <4> QED
        BY <4>1, <4>3, Zenon
    <3> QED
      BY <3>1 DEF Fits
  <2>7. faults' \in 0..MaxFaults /\ "Direct" \in RangeTypes
    BY <1>3, <1>5, <2>1 DEF RangeTypes
  <2> QED
    BY <1>2, <2>2, <2>3, <2>4, <2>5, <2>6, <2>7, Remapped
<1> QED
  BY <1>4, <1>5

-----------------------------------------------------------------------------
(* The calls that leave every page its frames.                             *)
LEMMA Kept ==
    ASSUME MemoryInv, MemoryTypeOK', CutsInv',
           UNCHANGED <<range_type, offset, m_mappings, m_allocated, m_pool, m_maps,
                       g_memory_pool_committed>>,
           \A p \in GuestPages : /\ range_type[p] = "Direct" => name'[p] = name[p]
                                 /\ m_mappings[p] \in m_physical' \cup {0}
                                 /\ m_pool[p] \in (UNION m_expansions') \cup {0},
           m_physical' \cap UNION m_expansions' = {},
           \A p \in gpu_pages' : range_type[p] \in {"Direct", "Flexible", "Pooled"}
    PROVE  MemoryInv'
<1>1. AllAgree /\ Apart /\ OtherInv
  BY MemoryInvIs DEF MemoryInv
<1>2. ASSUME NEW p \in GuestPages PROVE PageAgrees(p)'
  BY <1>1 DEF AllAgree, PageAgrees
<1>3. Apart'
  BY <1>1 DEF Apart
<1>4. OtherInv'
  BY <1>1 DEF OtherInv, Of
<1>5. AllAgree'
  BY <1>2 DEF AllAgree
<1> QED
  BY <1>3, <1>4, <1>5, MemoryInvIs, PTL

LEMMA CutsRefined ==
    ASSUME NEW c, NEW m, UNCHANGED range_type, cuts' = Inside(c, Of("Direct")),
           mapping_cuts' = Inside(m, Of("Direct")),
           \A p \in m : p \in Of("Direct") /\ p - 1 \in Of("Direct") => p \in c
    PROVE  CutsInv' /\ cuts' \subseteq GuestPages /\ mapping_cuts' \subseteq GuestPages
<1>1. \A p : p \in Of("Direct") <=> p \in GuestPages /\ range_type'[p] = "Direct"
  BY DEF Of
<1>2. ASSUME NEW p \in mapping_cuts'
      PROVE  p \in cuts' /\ p \in Of("Direct") /\ p - 1 \in Of("Direct")
  BY InsideIs
<1>3. cuts' \subseteq Of("Direct") /\ mapping_cuts' \subseteq Of("Direct")
  BY InsideIs
<1> HIDE DEF Of
<1> QED
  BY <1>1, <1>2, <1>3 DEF CutsInv

LEMMA MappingCutsInside ==
    ASSUME MemoryInv
    PROVE  mapping_cuts = Inside(mapping_cuts, Of("Direct")) /\ mapping_cuts \subseteq cuts
<1>1. CutsInv /\ mapping_cuts \subseteq GuestPages
  BY MemoryInvIs DEF MemoryInv, MemoryTypeOK
<1>2. \A p \in mapping_cuts : p \in cuts /\ p \in Of("Direct") /\ p - 1 \in Of("Direct")
  BY <1>1 DEF CutsInv, Of
<1>3. mapping_cuts \subseteq Inside(mapping_cuts, Of("Direct"))
  BY <1>2, InsideIs
<1>4. Inside(mapping_cuts, Of("Direct")) \subseteq mapping_cuts
  BY InsideIs
<1> QED
  BY <1>2, <1>3, <1>4

LEMMA NameKeeps ==
    ASSUME MemoryAssumption, MemoryInv, NEW I \in Spans(GuestPages),
           KernelSetVirtualRangeName(I, "named")
    PROVE  MemoryInv'
<1>1. /\ name' = [p \in GuestPages |-> IF p \in I /\ range_type[p] \notin {"None", "Direct"} THEN "named"
                                       ELSE name[p]]
      /\ cuts' = Inside(cuts \cup Edges(I), Of("Direct"))
      /\ UNCHANGED <<range_type, offset, m_mappings, m_allocated, m_pool, m_maps,
                     g_memory_pool_committed, m_physical, m_expansions, mapping_cuts, gpu_pages,
                     exited, faults>>
  BY DEF KernelSetVirtualRangeName, physical, pool
<1>2. mapping_cuts' = Inside(mapping_cuts, Of("Direct")) /\ mapping_cuts \subseteq cuts
  BY <1>1, MappingCutsInside
<1>3. CutsInv' /\ cuts' \subseteq GuestPages /\ mapping_cuts' \subseteq GuestPages
  BY <1>1, <1>2, CutsRefined
<1>4. name' \in [GuestPages -> Names]
  BY <1>1 DEF MemoryInv, MemoryTypeOK, Names
<1>5. MemoryTypeOK'
  BY <1>1, <1>3, <1>4 DEF MemoryInv, MemoryTypeOK, Names
<1>6. AllAgree /\ OtherInv
  BY MemoryInvIs DEF MemoryInv
<1>7. \A p \in GuestPages : /\ range_type[p] = "Direct" => name'[p] = name[p]
                            /\ m_mappings[p] \in m_physical' \cup {0}
                            /\ m_pool[p] \in (UNION m_expansions') \cup {0}
  BY <1>1, <1>6 DEF AllAgree, PageAgrees
<1>8. /\ m_physical' \cap UNION m_expansions' = {}
      /\ \A p \in gpu_pages' : range_type[p] \in {"Direct", "Flexible", "Pooled"}
  BY <1>1, <1>6 DEF OtherInv
<1> QED
  BY <1>1, <1>3, <1>5, <1>7, <1>8, Kept

LEMMA ProtectKeeps ==
    ASSUME MemoryAssumption, MemoryInv, NEW I \in Spans(GuestPages), KernelMprotect(I)
    PROVE  MemoryInv'
<1>1. /\ cuts' = Inside(cuts \cup Edges(I), Of("Direct"))
      /\ mapping_cuts' = Inside(mapping_cuts \cup Edges(I) \cup (cuts \cap I), Of("Direct"))
      /\ UNCHANGED <<range_type, name, offset, m_mappings, m_allocated, m_pool, m_maps,
                     g_memory_pool_committed, m_physical, m_expansions, gpu_pages, exited, faults>>
  BY DEF KernelMprotect, pool
<1>2. mapping_cuts \subseteq cuts
  BY MappingCutsInside
<1>3. CutsInv' /\ cuts' \subseteq GuestPages /\ mapping_cuts' \subseteq GuestPages
  BY <1>1, <1>2, CutsRefined
<1>5. MemoryTypeOK'
  BY <1>1, <1>3 DEF MemoryInv, MemoryTypeOK
<1>6. AllAgree /\ OtherInv
  BY MemoryInvIs DEF MemoryInv
<1>7. \A p \in GuestPages : /\ name'[p] = name[p]
                            /\ m_mappings[p] \in m_physical' \cup {0}
                            /\ m_pool[p] \in (UNION m_expansions') \cup {0}
  BY <1>1, <1>6 DEF AllAgree, PageAgrees
<1>8. /\ m_physical' \cap UNION m_expansions' = {}
      /\ \A p \in gpu_pages' : range_type[p] \in {"Direct", "Flexible", "Pooled"}
  BY <1>1, <1>6 DEF OtherInv
<1> QED
  BY <1>1, <1>3, <1>5, <1>7, <1>8, Kept

LEMMA MaxIs ==
    ASSUME NEW n \in Nat, NEW I \in Spans(1..n)
    PROVE  Max(I) \in I /\ \A p \in I : p <= Max(I)
<1>1. PICK lo \in 1..n, hi \in 1..n : I = lo..hi
  BY DEF Spans
<1>2. lo <= hi
  BY <1>1 DEF Spans
<1>3. hi \in I /\ \A y \in I : hi >= y
  BY <1>1, <1>2
<1>4. Max(I) \in I /\ \A y \in I : Max(I) >= y
  BY <1>3 DEF Max
<1> QED
  BY <1>1, <1>4

LEMMA ReplaceRefusedKeeps ==
    ASSUME MemoryAssumption, MemoryInv, NEW I \in Spans(GuestPages), ReplaceFixedRefused(I)
    PROVE  MemoryInv'
<1>1. PICK stop \in {p \in I \cap Committed : p = Min(I) \/ RangeHead(p)} \cup {Max(I) + 1} :
          mapping_cuts' = Inside(mapping_cuts \cup Edges({p \in I : p < stop} \cap Of("Direct"))
                                     \cup (cuts \cap ({p \in I : p < stop} \cap Of("Direct"))),
                                 Of("Direct"))
  BY DEF ReplaceFixedRefused
<1> DEFINE taken == {p \in I : p < stop} \cap Of("Direct")
           m == mapping_cuts \cup Edges(taken) \cup (cuts \cap taken)
           c == cuts \cup Edges(I)
<1>2. /\ cuts' = Inside(c, Of("Direct")) /\ mapping_cuts' = Inside(m, Of("Direct"))
      /\ UNCHANGED <<range_type, name, offset, m_mappings, m_allocated, m_pool, m_maps,
                     g_memory_pool_committed, m_physical, m_expansions, exited>>
      /\ gpu_pages' = (gpu_pages \ I) \cup (I \cap Committed) /\ Fault
  BY <1>1 DEF ReplaceFixedRefused, pool
<1>3. mapping_cuts \subseteq cuts /\ AllAgree /\ OtherInv
  BY MappingCutsInside, MemoryInvIs DEF MemoryInv
<1>4. /\ I \in SUBSET GuestPages /\ GuestPages \in SUBSET Nat /\ \A p \in I : Min(I) <= p /\ p <= Max(I)
      /\ Max(I) \in Nat /\ Min(I) \in Nat
  <2>1. I \in SUBSET GuestPages /\ Min(I) \in I /\ \A p \in I : Min(I) <= p
    BY SpanIs DEF GuestPages, MemoryAssumption
  <2>2. Max(I) \in I /\ \A p \in I : p <= Max(I)
    BY MaxIs DEF GuestPages, MemoryAssumption
  <2> QED
    BY <2>1, <2>2, Numbers
<1>5. ASSUME NEW p \in m, p \in Of("Direct"), p - 1 \in Of("Direct")
      PROVE  p \in c
  <2>1. p \in GuestPages /\ p \in Nat /\ p - 1 \in GuestPages /\ p - 1 \in Nat /\ stop \in Nat
    BY <1>4, <1>5 DEF Of
  <2>2. CASE p \in cuts
    BY <2>2
  <2>3. CASE p \in Edges(taken) /\ p \in taken
    <3>1. p \in I /\ p < stop /\ p - 1 \notin taken
      BY <2>3, EdgesAre
    <3>2. p - 1 < stop
      BY <2>1, <3>1
    <3>3. p - 1 \notin I /\ p \in 1..LastPage + 1
      BY <1>5, <2>3, <3>1, <3>2, EdgesAre
    <3> QED
      BY <3>1, <3>3, EdgesAre
  <2>4. CASE p \in Edges(taken) /\ p \notin taken
    <3>1. p - 1 \in I /\ p - 1 < stop /\ p \in 1..LastPage + 1
      BY <2>4, EdgesAre
    <3>2. CASE p \notin I
      BY <3>1, <3>2, EdgesAre
    <3>3. CASE p \in I
      <4>1. ~(p < stop)
        BY <1>5, <2>4, <3>3
      <4>2. p = stop
        BY <2>1, <3>1, <4>1
      <4>3. stop # Max(I) + 1 /\ stop # Min(I)
        BY <1>4, <2>1, <3>1, <3>3, <4>2
      <4>4. RangeHead(p)
        BY <4>2, <4>3
      <4>5. name[p] = "" /\ name[p - 1] = "" /\ range_type[p] = "Direct" /\ range_type[p - 1] = "Direct"
        BY <1>3, <1>5, <2>1 DEF AllAgree, PageAgrees, Of
      <4>6. p \in cuts
        BY <2>1, <4>4, <4>5 DEF RangeHead
      <4> QED
        BY <4>6
    <3> QED
      BY <3>2, <3>3
  <2>5. p \in cuts \/ p \in Edges(taken)
    BY <1>3, <1>5
  <2> QED
    BY <2>2, <2>3, <2>4, <2>5
<1> HIDE DEF m, c
<1>6. CutsInv' /\ cuts' \subseteq GuestPages /\ mapping_cuts' \subseteq GuestPages
  BY <1>2, <1>5, CutsRefined
<1>7. ASSUME NEW p \in gpu_pages' PROVE p \in GuestPages /\ range_type[p] \in {"Direct", "Flexible", "Pooled"}
  BY <1>2, <1>3 DEF OtherInv, Committed, Of, MemoryInv, MemoryTypeOK
<1>8. MemoryTypeOK'
  <2>1. faults' \in 0..MaxFaults
    BY <1>2, FaultCounts
  <2> QED
    BY <1>2, <1>6, <1>7, <2>1 DEF MemoryInv, MemoryTypeOK
<1>9. \A p \in GuestPages : /\ name'[p] = name[p]
                            /\ m_mappings[p] \in m_physical' \cup {0}
                            /\ m_pool[p] \in (UNION m_expansions') \cup {0}
  BY <1>2, <1>3 DEF AllAgree, PageAgrees
<1>10. m_physical' \cap UNION m_expansions' = {}
  BY <1>2, <1>3 DEF OtherInv
<1> QED
  BY <1>2, <1>6, <1>7, <1>8, <1>9, <1>10, Kept

-----------------------------------------------------------------------------
(* Frames are allocated where no owner has one.                            *)
LEMMA FreeRunIs ==
    ASSUME MemoryAssumption, NEW n \in Frames, FreeRuns(n) # {}
    PROVE  /\ Min(FreeRuns(n)) \in Frames
           /\ Min(FreeRuns(n))..Min(FreeRuns(n)) + n - 1
                 \subseteq Frames \ (m_physical \cup UNION m_expansions)
           /\ Min(FreeRuns(n))..Min(FreeRuns(n)) + n - 1 \in Spans(Frames)
<1> DEFINE f == Min(FreeRuns(n))
<1>1. FreeRuns(n) \in SUBSET Frames /\ Frames \in SUBSET Nat
  BY Numbers DEF FreeRuns
<1>2. f \in FreeRuns(n)
  BY <1>1, MinIs
<1> HIDE DEF f
<1>3. f \in Frames /\ f..f + n - 1 \subseteq Frames \ (m_physical \cup UNION m_expansions)
  BY <1>2 DEF FreeRuns
<1>4. f \in Nat /\ n \in Nat /\ n >= 1
  BY <1>1, <1>3 DEF Frames, MemoryAssumption
<1>5. f + n - 1 \in f..f + n - 1 /\ f \in f..f + n - 1
  BY <1>4
<1>6. f..f + n - 1 \in Spans(Frames)
  BY <1>3, <1>5 DEF Spans
<1> QED
  BY <1>3, <1>6 DEF f

LEMMA AllocateKeeps ==
    ASSUME MemoryAssumption, MemoryInv, NEW n \in Frames,
           AllocateDirectMemory(n) \/ KernelMemoryPoolExpand(n)
    PROVE  MemoryInv'
<1> DEFINE run == Min(FreeRuns(n))..Min(FreeRuns(n)) + n - 1
<1>1. /\ \/ m_physical' = m_physical \cup run /\ m_expansions' = m_expansions
         \/ m_physical' = m_physical /\ m_expansions' = m_expansions \cup {run}
      /\ UNCHANGED <<range_type, name, offset, cuts, m_mappings, mapping_cuts, m_allocated, m_pool, m_maps,
                     g_memory_pool_committed, gpu_pages, exited, faults>>
  BY DEF AllocateDirectMemory, KernelMemoryPoolExpand, ranges, physical, pool
<1>2. /\ run \subseteq Frames \ (m_physical \cup UNION m_expansions)
      /\ run \in Spans(Frames)
  BY FreeRunIs DEF AllocateDirectMemory, KernelMemoryPoolExpand
<1>3. AllAgree /\ CutsInv /\ OtherInv /\ MemoryTypeOK
  BY MemoryInvIs DEF MemoryInv
<1> HIDE DEF run
<1>4. CutsInv'
  BY <1>1, <1>3 DEF CutsInv
<1>5. MemoryTypeOK'
  <2>1. m_physical' \subseteq Frames /\ m_expansions' \subseteq Spans(Frames)
    BY <1>1, <1>2, <1>3 DEF MemoryTypeOK
  <2> QED
    BY <1>1, <1>3, <2>1 DEF MemoryTypeOK
<1>6. \A p \in GuestPages : /\ m_mappings[p] \in m_physical' \cup {0}
                            /\ m_pool[p] \in (UNION m_expansions') \cup {0}
  BY <1>1, <1>3 DEF AllAgree, PageAgrees
<1>7. m_physical' \cap UNION m_expansions' = {}
  BY <1>1, <1>2, <1>3 DEF OtherInv
<1>8. \A p \in gpu_pages' : range_type[p] \in {"Direct", "Flexible", "Pooled"}
  BY <1>1, <1>3 DEF OtherInv
<1> QED
  BY <1>1, <1>4, <1>5, <1>6, <1>7, <1>8, Kept

LEMMA ReleaseExpansionKeeps ==
    ASSUME MemoryAssumption, MemoryInv, NEW F, ReleaseExpansion(F)
    PROVE  MemoryInv'
<1>1. /\ m_expansions' = m_expansions \ {F} /\ \A p \in GuestPages : m_pool[p] \notin F
      /\ UNCHANGED <<range_type, name, offset, cuts, m_mappings, mapping_cuts, m_allocated, m_pool, m_maps,
                     m_physical, g_memory_pool_committed, gpu_pages, exited, faults>>
  BY DEF ReleaseExpansion, NotMapped, ranges, physical
<1>3. AllAgree /\ CutsInv /\ OtherInv /\ MemoryTypeOK
  BY MemoryInvIs DEF MemoryInv
<1>4. CutsInv'
  BY <1>1, <1>3 DEF CutsInv
<1>5. MemoryTypeOK'
  BY <1>1, <1>3 DEF MemoryTypeOK
<1>6. \A p \in GuestPages : /\ m_mappings[p] \in m_physical' \cup {0}
                            /\ m_pool[p] \in (UNION m_expansions') \cup {0}
  BY <1>1, <1>3 DEF AllAgree, PageAgrees
<1>7. m_physical' \cap UNION m_expansions' = {}
  BY <1>1, <1>3 DEF OtherInv
<1>8. \A p \in gpu_pages' : range_type[p] \in {"Direct", "Flexible", "Pooled"}
  BY <1>1, <1>3 DEF OtherInv
<1> QED
  BY <1>1, <1>4, <1>5, <1>6, <1>7, <1>8, Kept

LEMMA ExitKeeps ==
    ASSUME MemoryInv,
           \/ exited' \in BOOLEAN
              /\ UNCHANGED <<ranges, physical, m_allocated, pool, m_maps, gpu_pages, faults>>
           \/ UNCHANGED memoryVars
    PROVE  MemoryInv'
<1>1. /\ UNCHANGED <<range_type, name, offset, cuts, m_physical, m_mappings, mapping_cuts, m_allocated,
                     m_expansions, m_pool, g_memory_pool_committed, m_maps, gpu_pages, faults>>
      /\ exited' \in BOOLEAN
  BY DEF memoryVars, ranges, physical, pool, MemoryInv, MemoryTypeOK
<1>3. AllAgree /\ CutsInv /\ OtherInv /\ MemoryTypeOK
  BY MemoryInvIs DEF MemoryInv
<1>4. CutsInv' /\ MemoryTypeOK'
  BY <1>1, <1>3 DEF CutsInv, MemoryTypeOK
<1>6. \A p \in GuestPages : /\ m_mappings[p] \in m_physical' \cup {0}
                            /\ m_pool[p] \in (UNION m_expansions') \cup {0}
  BY <1>1, <1>3 DEF AllAgree, PageAgrees
<1>7. /\ m_physical' \cap UNION m_expansions' = {}
      /\ \A p \in gpu_pages' : range_type[p] \in {"Direct", "Flexible", "Pooled"}
  BY <1>1, <1>3 DEF OtherInv
<1> QED
  BY <1>1, <1>4, <1>6, <1>7, Kept

-----------------------------------------------------------------------------
(* The calls that take the frames of the pages of J away.                  *)
Emptied(f, g, J) == \A p \in GuestPages : g[p] = IF p \in J THEN 0 ELSE f[p]

LEMMA EmptiedIs ==
    ASSUME NEW J, NEW K, NEW f, NEW g, g = With(f, K, All(0)),
           \A p \in GuestPages : (p \in K => p \in J) /\ (p \in J /\ p \notin K => f[p] = 0)
    PROVE  Emptied(f, g, J)
<1>1. \A p \in GuestPages : g[p] = IF p \in K THEN 0 ELSE f[p]
  BY DEF With, All
<1> QED
  BY <1>1 DEF Emptied

LEMMA Cleared ==
    ASSUME MemoryAssumption, MemoryInv, MemoryTypeOK', NEW J \in SUBSET GuestPages,
           NEW t \in {"None", "PoolReserved"}, NEW n,
           AddRange(J, t, n, All(0)),
           Emptied(m_mappings, m_mappings', J), Emptied(m_allocated, m_allocated', J),
           Emptied(m_pool, m_pool', J), Emptied(m_maps, m_maps', J),
           \A p \in mapping_cuts' : /\ p \in Of("Direct")' /\ p - 1 \in Of("Direct")'
                                    /\ p \in mapping_cuts \/ p \in J \/ p - 1 \in J,
           m_physical' \subseteq m_physical, UNCHANGED m_expansions,
           \A p \in GuestPages \ J : m_mappings[p] \in m_physical' \cup {0},
           gpu_pages' \subseteq gpu_pages \ J,
           g_memory_pool_committed' = Cardinality(Of("Pooled") \ J)
    PROVE  MemoryInv'
<1>1. AllAgree /\ Apart /\ CutsInv /\ OtherInv /\ MemoryTypeOK
  BY MemoryInvIs DEF MemoryInv
<1>2. /\ range_type' = With(range_type, J, All(t)) /\ name' = With(name, J, n) /\ offset' = With(offset, J, All(0))
      /\ cuts' = Inside((cuts \ J) \cup Edges(J), {p \in GuestPages : range_type'[p] = "Direct"})
  BY DEF AddRange
<1>3. ASSUME NEW p \in GuestPages
      PROVE  /\ p \in J => range_type'[p] = t /\ offset'[p] = 0
             /\ p \notin J => range_type'[p] = range_type[p] /\ name'[p] = name[p] /\ offset'[p] = offset[p]
  BY <1>2 DEF With, All
<1>4. ASSUME NEW p \in GuestPages
      PROVE  /\ m_mappings'[p] = IF p \in J THEN 0 ELSE m_mappings[p]
             /\ m_allocated'[p] = IF p \in J THEN 0 ELSE m_allocated[p]
             /\ m_pool'[p] = IF p \in J THEN 0 ELSE m_pool[p]
             /\ m_maps'[p] = IF p \in J THEN 0 ELSE m_maps[p]
  BY DEF Emptied
<1>5. ASSUME NEW p \in GuestPages PROVE PageAgrees(p)'
  <2>1. CASE p \in J
    <3>1. /\ m_mappings'[p] = 0 /\ m_allocated'[p] = 0 /\ m_pool'[p] = 0 /\ m_maps'[p] = 0
          /\ offset'[p] = 0 /\ range_type'[p] \notin {"Direct", "Flexible", "Pooled"} /\ 0 = 0 + 0 + 0
      BY <1>3, <1>4, <2>1
    <3>2. m_maps'[p] = m_mappings'[p] + m_allocated'[p] + m_pool'[p]
      BY <3>1, Zenon
    <3> QED
      BY <3>1, <3>2 DEF PageAgrees
  <2>2. CASE p \notin J
    <3>1. PageAgrees(p) /\ m_mappings[p] \in m_physical' \cup {0}
      BY <1>1, <2>2 DEF AllAgree
    <3>2. /\ m_mappings'[p] = m_mappings[p] /\ m_allocated'[p] = m_allocated[p]
          /\ m_pool'[p] = m_pool[p] /\ m_maps'[p] = m_maps[p]
          /\ range_type'[p] = range_type[p] /\ name'[p] = name[p] /\ offset'[p] = offset[p]
      BY <1>3, <1>4, <2>2
    <3> QED
      BY <3>1, <3>2 DEF PageAgrees
  <2> QED
    BY <2>1, <2>2
<1>6. Apart'
  BY <1>1, <1>4 DEF Apart
<1>7. CutsInv'
  <2>1. ASSUME NEW p \in mapping_cuts'
        PROVE  /\ p \in cuts' /\ p \in GuestPages /\ range_type'[p] = "Direct"
               /\ p - 1 \in GuestPages /\ range_type'[p - 1] = "Direct"
    <3>1. /\ p \in GuestPages /\ range_type'[p] = "Direct" /\ p - 1 \in GuestPages /\ range_type'[p - 1] = "Direct"
      BY DEF Of
    <3>2. p \notin J /\ p - 1 \notin J
      BY <1>3, <3>1
    <3>3. p \in cuts
      BY <1>1, <3>2 DEF CutsInv
    <3> QED
      BY <1>2, <3>1, <3>2, <3>3, InsideIs
  <2> QED
    BY <2>1 DEF CutsInv
<1>8. OtherInv'
  <2>1. Of("Pooled")' = Of("Pooled") \ J
    BY <1>3 DEF Of
  <2>2. \A p \in gpu_pages' : p \in GuestPages /\ p \notin J /\ range_type[p] \in {"Direct", "Flexible", "Pooled"}
    BY <1>1 DEF OtherInv, MemoryTypeOK
  <2>3. \A p \in gpu_pages' : range_type'[p] \in {"Direct", "Flexible", "Pooled"}
    BY <1>3, <2>2
  <2>4. m_physical' \cap UNION m_expansions' = {}
    BY <1>1 DEF OtherInv
  <2> QED
    BY <2>1, <2>3, <2>4 DEF OtherInv
<1>9. AllAgree'
  BY <1>5 DEF AllAgree
<1> QED
  BY <1>6, <1>7, <1>8, <1>9, MemoryInvIs, PTL

(* MemoryPoolSubtractCommitted never meets its zero.                       *)
LEMMA PoolShrinks ==
    ASSUME MemoryAssumption, MemoryInv, NEW J, NEW K, K = J \cap Of("Pooled"),
           Subtract(Cardinality(K))
    PROVE  /\ g_memory_pool_committed' = Cardinality(Of("Pooled") \ J)
           /\ g_memory_pool_committed' \in 0..LastPage
<1> DEFINE P == Of("Pooled")
           g == g_memory_pool_committed
<1>1. g = Cardinality(P) /\ g \in 0..LastPage /\ LastPage \in Nat
  BY MemoryInvIs DEF MemoryInv, OtherInv, MemoryTypeOK, MemoryAssumption
<1>2. IsFiniteSet(P)
  <2>1. P \in SUBSET GuestPages
    BY DEF Of
  <2> QED
    BY <2>1, Numbers, FS_Subset
<1>3. g' = IF g > Cardinality(K) THEN g - Cardinality(K) ELSE 0
  BY DEF Subtract
<1>4. K = P \cap J
  OBVIOUS
<1> HIDE DEF P
<1>5. Cardinality(P \ J) = Cardinality(P) - Cardinality(P \cap J)
  BY <1>2, FS_Difference
<1>6. Cardinality(K) \in Nat /\ Cardinality(K) <= Cardinality(P) /\ Cardinality(P) \in Nat
  BY <1>2, <1>4, FS_Subset, FS_CardinalityType
<1>7. g' = Cardinality(P) - Cardinality(K)
  BY <1>1, <1>3, <1>6
<1>8. g' = Cardinality(P \ J)
  BY <1>4, <1>5, <1>7
<1> HIDE DEF g
<1>9. g' \in 0..LastPage
  BY <1>1, <1>6, <1>7
<1> QED
  BY <1>8, <1>9 DEF P, g

LEMMA ClearedTypes ==
    ASSUME MemoryAssumption, MemoryInv, NEW J \in SUBSET GuestPages, NEW t \in RangeTypes,
           NEW n \in [GuestPages -> Names], AddRange(J, t, n, All(0))
    PROVE  /\ range_type' \in [GuestPages -> RangeTypes] /\ name' \in [GuestPages -> Names]
           /\ offset' \in [GuestPages -> Frames \cup {0}] /\ cuts' \subseteq GuestPages
<1>1. MemoryTypeOK
  BY DEF MemoryInv
<1>2. All(t) \in [GuestPages -> RangeTypes] /\ All(0) \in [GuestPages -> Frames \cup {0}]
  BY DEF All
<1>3. /\ range_type' = With(range_type, J, All(t)) /\ name' = With(name, J, n) /\ offset' = With(offset, J, All(0))
      /\ cuts' = Inside((cuts \ J) \cup Edges(J), {p \in GuestPages : range_type'[p] = "Direct"})
  BY DEF AddRange
<1>4. range_type' \in [GuestPages -> RangeTypes]
  BY <1>1, <1>2, <1>3, WithTypes DEF MemoryTypeOK, RangeTypes
<1>5. name' \in [GuestPages -> Names]
  BY <1>1, <1>3, WithTypes DEF MemoryTypeOK, Names
<1>6. offset' \in [GuestPages -> Frames \cup {0}]
  BY <1>1, <1>2, <1>3, WithTypes DEF MemoryTypeOK
<1>7. cuts' \subseteq GuestPages
  BY <1>3, InsideIs
<1> QED
  BY <1>4, <1>5, <1>6, <1>7

LEMMA ZeroTypes ==
    ASSUME NEW S, NEW f \in [GuestPages -> S \cup {0}], NEW K
    PROVE  With(f, K, All(0)) \in [GuestPages -> S \cup {0}]
  BY DEF With, All

LEMMA AllNames == \A n \in Names : All(n) \in [GuestPages -> Names]
  BY DEF All

LEMMA DecommitKeeps ==
    ASSUME MemoryAssumption, MemoryInv, NEW I \in Spans(GuestPages), KernelMemoryPoolDecommit(I)
    PROVE  MemoryInv'
<1> DEFINE J == I \cap Of("Pooled")
<1>1. /\ m_pool' = With(m_pool, J, All(0)) /\ m_maps' = With(m_maps, J, All(0))
      /\ AddRange(J, "PoolReserved", name, All(0)) /\ gpu_pages' = gpu_pages \ I /\ Subtract(Cardinality(J))
      /\ UNCHANGED <<m_physical, m_mappings, mapping_cuts, m_allocated, m_expansions, exited, faults>>
  BY DEF KernelMemoryPoolDecommit, MapPool, MapBacking, physical
<1>2. MemoryTypeOK /\ AllAgree /\ CutsInv
  BY MemoryInvIs DEF MemoryInv
<1>3. \A p : p \in J <=> p \in I /\ p \in GuestPages /\ range_type[p] = "Pooled"
  BY DEF Of
<1>4. /\ g_memory_pool_committed' = Cardinality(Of("Pooled") \ I)
      /\ g_memory_pool_committed' \in 0..LastPage
  BY <1>1, PoolShrinks
<1>5. Of("Pooled") \ J = Of("Pooled") \ I
  OBVIOUS
<1> HIDE DEF J
<1>6. J \in SUBSET GuestPages /\ name \in [GuestPages -> Names]
  BY <1>2, <1>3 DEF MemoryTypeOK, Names
<1>7. \A p \in J : m_mappings[p] = 0 /\ m_allocated[p] = 0
  BY <1>2, <1>3 DEF AllAgree, PageAgrees
<1>8. /\ Emptied(m_mappings, m_mappings', J) /\ Emptied(m_allocated, m_allocated', J)
      /\ Emptied(m_pool, m_pool', J) /\ Emptied(m_maps, m_maps', J)
  <2>1. Emptied(m_mappings, m_mappings', J) /\ Emptied(m_allocated, m_allocated', J)
    BY <1>1, <1>7 DEF Emptied
  <2>2. Emptied(m_pool, m_pool', J) /\ Emptied(m_maps, m_maps', J)
    BY <1>1, EmptiedIs
  <2> QED
    BY <2>1, <2>2
<1>9. MemoryTypeOK'
  <2>1. /\ range_type' \in [GuestPages -> RangeTypes] /\ name' \in [GuestPages -> Names]
        /\ offset' \in [GuestPages -> Frames \cup {0}] /\ cuts' \subseteq GuestPages
    BY <1>1, <1>6, ClearedTypes DEF RangeTypes
  <2>2. m_pool' \in [GuestPages -> Frames \cup {0}] /\ m_maps' \in [GuestPages -> Frames \cup FlexFrames \cup {0}]
    BY <1>1, <1>2, ZeroTypes DEF MemoryTypeOK
  <2> QED
    BY <1>1, <1>2, <1>4, <2>1, <2>2 DEF MemoryTypeOK, RangeTypes, Names
<1>10. \A p \in mapping_cuts' : /\ p \in Of("Direct")' /\ p - 1 \in Of("Direct")'
                                /\ p \in mapping_cuts \/ p \in J \/ p - 1 \in J
  <2>1. \A p \in GuestPages : p \notin J => range_type'[p] = range_type[p]
    BY <1>1 DEF AddRange, With
  <2>2. ASSUME NEW p \in mapping_cuts
        PROVE  /\ p \in GuestPages /\ p \notin J /\ range_type[p] = "Direct"
               /\ p - 1 \in GuestPages /\ p - 1 \notin J /\ range_type[p - 1] = "Direct"
    BY <1>2, <1>3 DEF CutsInv, MemoryTypeOK
  <2> QED
    BY <1>1, <2>1, <2>2 DEF Of
<1>11. \A p \in GuestPages \ J : m_mappings[p] \in m_physical' \cup {0}
  BY <1>1, <1>2 DEF AllAgree, PageAgrees
<1>12. gpu_pages' \subseteq gpu_pages \ J
  BY <1>1, <1>3
<1> QED
  BY <1>1, <1>4, <1>5, <1>6, <1>8, <1>9, <1>10, <1>11, <1>12, Cleared

Mapped(f) == {p \in GuestPages : f[p] # 0}

LeftAt(p, c, K, f) == /\ p \in GuestPages /\ f[p] # 0 /\ p - 1 \in GuestPages /\ f[p - 1] # 0
                      /\ p \in c \/ p \in K \/ p - 1 \in K

LEMMA CutsLeft ==
    \A c, K, f, p : p \in Inside((c \ K) \cup Edges(K), Mapped(f)) => LeftAt(p, c, K, f)
<1> SUFFICES ASSUME NEW c, NEW K, NEW f, NEW p \in Inside((c \ K) \cup Edges(K), Mapped(f))
             PROVE  LeftAt(p, c, K, f)
  OBVIOUS
<1>1. \A q : q \in Mapped(f) <=> q \in GuestPages /\ f[q] # 0
  BY DEF Mapped
<1>2. p \in Mapped(f) /\ p - 1 \in Mapped(f) /\ (p \in c \/ p \in Edges(K))
  BY InsideIs
<1>3. p \in Edges(K) => p \in K \/ p - 1 \in K
  BY EdgesAre
<1> QED
  BY <1>1, <1>2, <1>3 DEF LeftAt

LEMMA MunmapKeeps ==
    ASSUME MemoryAssumption, MemoryInv, NEW I \in Spans(GuestPages), KernelMunmap(I)
    PROVE  MemoryInv'
<1>1. PICK stop \in {p \in I : p = Min(I) \/ RangeHead(p)} \cup {Max(I) + 1} :
          LET J == {p \in I : p < stop}
          IN  /\ IF stop \in I THEN stop \in Committed /\ Fault ELSE UNCHANGED faults
              /\ MapBacking(J \cap Committed, All(0))
              /\ MapPool(J \cap Of("Pooled"), All(0)) /\ Subtract(Cardinality(J \cap Of("Pooled")))
              /\ UnmapPhysical(J \cap Of("Direct"))
              /\ MapFlexible(J \cap Of("Flexible"), All(0))
              /\ RemoveRange(J)
  BY DEF KernelMunmap
<1> DEFINE J == {p \in I : p < stop}
           K == J \cap Of("Direct")
<1>2. /\ m_maps' = With(m_maps, J \cap Committed, All(0))
      /\ m_pool' = With(m_pool, J \cap Of("Pooled"), All(0))
      /\ m_mappings' = With(m_mappings, K, All(0))
      /\ m_allocated' = With(m_allocated, J \cap Of("Flexible"), All(0))
      /\ mapping_cuts' = Inside((mapping_cuts \ K) \cup Edges(K), {p \in GuestPages : m_mappings'[p] # 0})
      /\ AddRange(J, "None", All(""), All(0))
  BY <1>1 DEF MapBacking, MapPool, UnmapPhysical, MapPhysical, MapFlexible, RemoveRange
<1>3. gpu_pages' = gpu_pages \ I /\ UNCHANGED <<m_physical, m_expansions, exited>>
  BY DEF KernelMunmap
<1>4. Subtract(Cardinality(J \cap Of("Pooled"))) /\ (Fault \/ UNCHANGED faults)
  BY <1>1
<1>5. MemoryTypeOK /\ AllAgree /\ CutsInv
  BY MemoryInvIs DEF MemoryInv
<1>6. J \in SUBSET GuestPages /\ J \subseteq I
  BY SpanIs DEF GuestPages, MemoryAssumption
<1> HIDE DEF J
<1>7. /\ g_memory_pool_committed' = Cardinality(Of("Pooled") \ J)
      /\ g_memory_pool_committed' \in 0..LastPage
  BY <1>4, PoolShrinks
<1>8. ASSUME NEW p \in J
      PROVE  /\ p \notin Of("Direct") => m_mappings[p] = 0
             /\ p \notin Of("Flexible") => m_allocated[p] = 0
             /\ p \notin Of("Pooled") => m_pool[p] = 0
             /\ p \notin Committed => m_maps[p] = 0
  <2>1. PageAgrees(p) /\ p \in GuestPages
    BY <1>5, <1>6 DEF AllAgree
  <2>2. /\ p \notin Of("Direct") => m_mappings[p] = 0
        /\ p \notin Of("Flexible") => m_allocated[p] = 0
        /\ p \notin Of("Pooled") => m_pool[p] = 0
    BY <2>1 DEF PageAgrees, Of
  <2>3. 0 + 0 + 0 = 0
    OBVIOUS
  <2>4. p \notin Committed => m_mappings[p] = 0 /\ m_allocated[p] = 0 /\ m_pool[p] = 0
    BY <2>2 DEF Committed
  <2>5. m_maps[p] = m_mappings[p] + m_allocated[p] + m_pool[p]
    BY <2>1 DEF PageAgrees
  <2>6. p \notin Committed => m_maps[p] = 0
    BY <2>3, <2>4, <2>5, Zenon
  <2> QED
    BY <2>2, <2>6
<1>9. /\ Emptied(m_mappings, m_mappings', J) /\ Emptied(m_allocated, m_allocated', J)
      /\ Emptied(m_pool, m_pool', J) /\ Emptied(m_maps, m_maps', J)
  <2>1. Emptied(m_mappings, m_mappings', J)
    BY <1>2, <1>8, EmptiedIs
  <2>2. Emptied(m_allocated, m_allocated', J)
    BY <1>2, <1>8, EmptiedIs
  <2>3. Emptied(m_pool, m_pool', J)
    BY <1>2, <1>8, EmptiedIs
  <2>4. Emptied(m_maps, m_maps', J)
    BY <1>2, <1>8, EmptiedIs
  <2> QED
    BY <2>1, <2>2, <2>3, <2>4
<1>left. /\ mapping_cuts' \subseteq GuestPages
         /\ \A p \in mapping_cuts' : LeftAt(p, mapping_cuts, K, m_mappings')
  <2>1. mapping_cuts' = Inside((mapping_cuts \ K) \cup Edges(K), Mapped(m_mappings'))
    BY <1>2 DEF Mapped
  <2>2. \A p \in mapping_cuts' : LeftAt(p, mapping_cuts, K, m_mappings')
    BY <2>1, CutsLeft, Zenon
  <2> QED
    BY <2>2 DEF LeftAt
<1>10. \A p \in mapping_cuts' : /\ p \in Of("Direct")' /\ p - 1 \in Of("Direct")'
                                /\ p \in mapping_cuts \/ p \in J \/ p - 1 \in J
  <2>1. \A p \in GuestPages : m_mappings'[p] # 0 => p \notin J /\ m_mappings[p] # 0
    BY <1>9 DEF Emptied
  <2>2. \A p \in GuestPages : p \notin J => range_type'[p] = range_type[p]
    BY <1>2 DEF AddRange, With
  <2>3. \A p \in GuestPages : m_mappings'[p] # 0 => range_type'[p] = "Direct"
    BY <1>5, <2>1, <2>2 DEF AllAgree, PageAgrees
  <2>4. ASSUME NEW p \in mapping_cuts'
        PROVE  /\ p \in GuestPages /\ m_mappings'[p] # 0 /\ p - 1 \in GuestPages /\ m_mappings'[p - 1] # 0
               /\ p \in mapping_cuts \/ p \in K \/ p - 1 \in K
    BY <1>left DEF LeftAt
  <2> QED
    BY <2>3, <2>4 DEF Of
<1>12. MemoryTypeOK'
  <2>1. All("") \in [GuestPages -> Names]
    BY AllNames DEF Names
  <2>2. /\ range_type' \in [GuestPages -> RangeTypes] /\ name' \in [GuestPages -> Names]
        /\ offset' \in [GuestPages -> Frames \cup {0}] /\ cuts' \subseteq GuestPages
    BY <1>2, <1>6, <2>1, ClearedTypes DEF RangeTypes
  <2>3. m_pool' \in [GuestPages -> Frames \cup {0}] /\ m_mappings' \in [GuestPages -> Frames \cup {0}]
    BY <1>2, <1>5, ZeroTypes DEF MemoryTypeOK
  <2>4. m_allocated' \in [GuestPages -> FlexFrames \cup {0}]
    BY <1>2, <1>5, ZeroTypes DEF MemoryTypeOK
  <2>5. m_maps' \in [GuestPages -> Frames \cup FlexFrames \cup {0}]
    BY <1>2, <1>5, ZeroTypes DEF MemoryTypeOK
  <2>6. faults' \in 0..MaxFaults
    BY <1>4, <1>5, FaultCounts DEF MemoryTypeOK
  <2> QED
    BY <1>3, <1>5, <1>7, <1>left, <2>2, <2>3, <2>4, <2>5, <2>6 DEF MemoryTypeOK, RangeTypes, Names
<1>13. \A p \in GuestPages \ J : m_mappings[p] \in m_physical' \cup {0}
  BY <1>3, <1>5 DEF AllAgree, PageAgrees
<1>14. gpu_pages' \subseteq gpu_pages \ J
  BY <1>3, <1>6
<1> QED
  BY <1>2, <1>3, <1>6, <1>7, <1>9, <1>10, <1>12, <1>13, <1>14, Cleared

LEMMA ReleaseKeeps ==
    ASSUME MemoryAssumption, MemoryInv, NEW F \in SUBSET Frames, ReleaseDirectMemory(F)
    PROVE  MemoryInv'
<1> DEFINE J == Aliases(F)
<1>1. /\ m_physical' = m_physical \ F
      /\ m_mappings' = With(m_mappings, J, All(0)) /\ m_maps' = With(m_maps, J, All(0))
      /\ mapping_cuts' = Inside((mapping_cuts \ J) \cup Edges(J), {p \in GuestPages : m_mappings'[p] # 0})
      /\ AddRange(J, "None", All(""), All(0)) /\ gpu_pages' = gpu_pages \ J
      /\ UNCHANGED <<m_allocated, m_expansions, m_pool, g_memory_pool_committed, exited, faults>>
  BY DEF ReleaseDirectMemory, MapBacking, UnmapPhysical, MapPhysical, RemoveRange, pool
<1>2. MemoryTypeOK /\ AllAgree /\ CutsInv /\ OtherInv
  BY MemoryInvIs DEF MemoryInv
<1>3. \A p : p \in J <=> p \in GuestPages /\ m_mappings[p] \in F
  BY DEF Aliases
<1> HIDE DEF J
<1>4. \A p \in J : /\ m_allocated[p] = 0 /\ m_pool[p] = 0 /\ range_type[p] = "Direct"
  BY <1>2, <1>3, Numbers DEF AllAgree, PageAgrees
<1>5. J \in SUBSET GuestPages
  BY <1>3
<1>6. /\ Emptied(m_mappings, m_mappings', J) /\ Emptied(m_allocated, m_allocated', J)
      /\ Emptied(m_pool, m_pool', J) /\ Emptied(m_maps, m_maps', J)
  <2>1. Emptied(m_mappings, m_mappings', J)
    BY <1>1, EmptiedIs
  <2>2. Emptied(m_allocated, m_allocated', J) /\ Emptied(m_pool, m_pool', J)
    BY <1>1, <1>4 DEF Emptied
  <2>3. Emptied(m_maps, m_maps', J)
    BY <1>1, EmptiedIs
  <2> QED
    BY <2>1, <2>2, <2>3
<1>left. /\ mapping_cuts' \subseteq GuestPages
         /\ \A p \in mapping_cuts' : LeftAt(p, mapping_cuts, J, m_mappings')
  <2>1. mapping_cuts' = Inside((mapping_cuts \ J) \cup Edges(J), Mapped(m_mappings'))
    BY <1>1 DEF Mapped
  <2>2. \A p \in mapping_cuts' : LeftAt(p, mapping_cuts, J, m_mappings')
    BY <2>1, CutsLeft, Zenon
  <2> QED
    BY <2>2 DEF LeftAt
<1>7. \A p \in mapping_cuts' : /\ p \in Of("Direct")' /\ p - 1 \in Of("Direct")'
                               /\ p \in mapping_cuts \/ p \in J \/ p - 1 \in J
  <2>1. \A p \in GuestPages : m_mappings'[p] # 0 => p \notin J /\ m_mappings[p] # 0
    BY <1>6 DEF Emptied
  <2>2. \A p \in GuestPages : p \notin J => range_type'[p] = range_type[p]
    BY <1>1 DEF AddRange, With
  <2>3. \A p \in GuestPages : m_mappings'[p] # 0 => range_type'[p] = "Direct"
    BY <1>2, <2>1, <2>2 DEF AllAgree, PageAgrees
  <2>4. ASSUME NEW p \in mapping_cuts'
        PROVE  /\ p \in GuestPages /\ m_mappings'[p] # 0 /\ p - 1 \in GuestPages /\ m_mappings'[p - 1] # 0
               /\ p \in mapping_cuts \/ p \in J \/ p - 1 \in J
    BY <1>left DEF LeftAt
  <2> QED
    BY <2>3, <2>4 DEF Of
<1>9. MemoryTypeOK'
  <2>1. All("") \in [GuestPages -> Names]
    BY AllNames DEF Names
  <2>2. /\ range_type' \in [GuestPages -> RangeTypes] /\ name' \in [GuestPages -> Names]
        /\ offset' \in [GuestPages -> Frames \cup {0}] /\ cuts' \subseteq GuestPages
    BY <1>1, <1>5, <2>1, ClearedTypes DEF RangeTypes
  <2>3. m_mappings' \in [GuestPages -> Frames \cup {0}]
    BY <1>1, <1>2, ZeroTypes DEF MemoryTypeOK
  <2>4. m_maps' \in [GuestPages -> Frames \cup FlexFrames \cup {0}]
    BY <1>1, <1>2, ZeroTypes DEF MemoryTypeOK
  <2> QED
    BY <1>1, <1>2, <1>left, <2>2, <2>3, <2>4 DEF MemoryTypeOK, RangeTypes, Names
<1>10. \A p \in GuestPages \ J : m_mappings[p] \in m_physical' \cup {0}
  BY <1>1, <1>2, <1>3 DEF AllAgree, PageAgrees
<1>11. g_memory_pool_committed' = Cardinality(Of("Pooled") \ J)
  <2>1. Of("Pooled") \ J = Of("Pooled")
    BY <1>4 DEF Of
  <2> QED
    BY <1>1, <1>2, <2>1 DEF OtherInv
<1> QED
  BY <1>1, <1>5, <1>6, <1>7, <1>9, <1>10, <1>11, Cleared

-----------------------------------------------------------------------------
(* The calls that give pages the lowest free frames.                       *)
LEMMA FlexibleIs ==
    ASSUME MemoryAssumption, NEW T \in SUBSET GuestPages,
           Cardinality(T) <= Cardinality(FreeFlexible({}))
    PROVE  /\ Lowest(FreeFlexible(T), T) \in [GuestPages -> FlexFrames \cup {0}]
           /\ \A p \in T : /\ Lowest(FreeFlexible(T), T)[p] # 0
                           /\ Lowest(FreeFlexible(T), T)[p] \in Nat
                           /\ \A q \in GuestPages : p # q =>
                                 IF q \in T
                                 THEN Lowest(FreeFlexible(T), T)[p] # Lowest(FreeFlexible(T), T)[q]
                                 ELSE Lowest(FreeFlexible(T), T)[p] # m_allocated[q]
<1> DEFINE S == FreeFlexible(T)
           at == Lowest(S, T)
<1>1. S \subseteq FlexFrames /\ \A q \in GuestPages : q \notin T => m_allocated[q] \notin S
  BY DEF FreeFlexible
<1>2. FreeFlexible({}) \subseteq S
  BY DEF FreeFlexible
<1> HIDE DEF S
<1>3. S \in SUBSET Nat /\ IsFiniteSet(S) /\ 0 \notin S
  BY <1>1, Numbers, FS_Subset
<1>4. IsFiniteSet(T)
  BY Numbers, FS_Subset
<1>5. Cardinality(T) <= Cardinality(S)
  <2>1. /\ Cardinality(FreeFlexible({})) <= Cardinality(S) /\ IsFiniteSet(FreeFlexible({}))
    BY <1>2, <1>3, FS_Subset
  <2>2. /\ Cardinality(FreeFlexible({})) \in Nat /\ Cardinality(S) \in Nat
        /\ Cardinality(T) \in Nat
    BY <1>3, <1>4, <2>1, FS_CardinalityType
  <2> QED
    BY <2>1, <2>2
<1>6. /\ \A p \in T : at[p] \in S
      /\ at \in [GuestPages -> S \cup {0}]
      /\ \A p, q \in T : p # q => at[p] # at[q]
  BY <1>3, <1>4, <1>5, LowestIs
<1> HIDE DEF at
<1>7. at \in [GuestPages -> FlexFrames \cup {0}]
  BY <1>1, <1>6
<1>8. \A p \in T : at[p] # 0 /\ at[p] \in Nat
  BY <1>3, <1>6
<1>9. ASSUME NEW p \in T, NEW q \in GuestPages, p # q
      PROVE  IF q \in T THEN at[p] # at[q] ELSE at[p] # m_allocated[q]
  BY <1>1, <1>6, <1>9
<1> QED
  BY <1>7, <1>8, <1>9 DEF at, S

LEMMA MapFlexibleKeeps ==
    ASSUME MemoryAssumption, MemoryInv, NEW I \in Spans(GuestPages),
           NEW how \in {"fixed", "hint"}, KernelMapFlexibleMemory(I, how)
    PROVE  MemoryInv'
<1> DEFINE T == Target(I, how, FALSE)
           at == Lowest(FreeFlexible(T), T)
           zero == All(0)
           names == All("anon")
<1>1. T # {} /\ Cardinality(I) <= Cardinality(FreeFlexible({}))
  BY DEF KernelMapFlexibleMemory
<1>2. /\ T \in SUBSET GuestPages /\ \A p \in T : range_type[p] # "Pooled"
      /\ Cardinality(T) = Cardinality(I)
  BY <1>1, TargetIs
<1>3. \/ /\ MapBacking(T, at) /\ MapFlexible(T, at) /\ MapPhysical(T, zero)
         /\ AddRange(T, "Flexible", names, zero) /\ gpu_pages' = gpu_pages \cup T
         /\ UNCHANGED <<m_physical, pool, exited, faults>>
      \/ ViewRefused(T, how)
  BY DEF KernelMapFlexibleMemory, UnmapPhysical
<1> HIDE DEF T
<1>4. CASE ViewRefused(T, how)
  BY <1>1, <1>2, <1>4, ViewRefusedKeeps
<1>5. CASE ~ViewRefused(T, how)
  <2>1. faults \in 0..MaxFaults
    BY DEF MemoryInv, MemoryTypeOK
  <2>2. /\ at \in [GuestPages -> FlexFrames \cup {0}]
        /\ \A p \in T : /\ at[p] # 0 /\ at[p] \in Nat
                        /\ \A q \in GuestPages : p # q =>
                              IF q \in T THEN at[p] # at[q] ELSE at[p] # m_allocated[q]
    BY <1>1, <1>2, FlexibleIs
  <2>3. /\ zero \in [GuestPages -> Frames \cup {0}] /\ names \in [GuestPages -> Names]
        /\ \A p \in GuestPages : zero[p] = 0
    BY DEF All, Names
  <2> HIDE DEF at, zero, names
  <2>4. at \in [GuestPages -> Frames \cup FlexFrames \cup {0}]
    BY <2>2
  <2>5. Becomes(T, "Flexible", names, zero, at, at)
    <3>1. \A p \in gpu_pages' : (p \in gpu_pages /\ p \notin T) \/ p \in T
      BY <1>3, <1>5
    <3>2. UNCHANGED <<m_physical, m_expansions, m_pool, g_memory_pool_committed, exited>>
      BY <1>3, <1>5 DEF pool
    <3> QED
      BY <1>3, <1>5, <3>1, <3>2 DEF Becomes
  <2>6. Fits(T, "Flexible", names, zero, at, at)
    <3>1. ASSUME NEW p \in T
          PROVE  /\ range_type[p] # "Pooled" /\ at[p] # 0 /\ zero[p] = 0 /\ at[p] = zero[p] + at[p]
                 /\ zero[p] \in m_physical \cup {0}
      <4>1. zero[p] = 0 /\ at[p] # 0 /\ range_type[p] # "Pooled" /\ zero[p] \in m_physical \cup {0}
        BY <1>2, <2>2, <2>3
      <4>2. \A x \in Nat : x = 0 + x
        OBVIOUS
      <4>3. at[p] = 0 + at[p]
        BY <2>2, <4>2, Zenon
      <4> QED
        BY <4>1, <4>3, Zenon
    <3>2. \A p \in T : \A q \in GuestPages : at[p] # 0 /\ p # q =>
             IF q \in T THEN at[p] # at[q] ELSE at[p] # m_allocated[q]
      BY <2>2
    <3> QED
      BY <3>1, <3>2 DEF Fits
  <2>7. faults' \in 0..MaxFaults /\ "Flexible" \in RangeTypes
    BY <1>3, <1>5, <2>1 DEF RangeTypes
  <2> QED
    BY <1>2, <2>2, <2>3, <2>4, <2>5, <2>6, <2>7, Remapped
<1> QED
  BY <1>4, <1>5

LEMMA PoolFramesAre ==
    ASSUME MemoryAssumption, MemoryTypeOK, NEW I \in SUBSET GuestPages, Cardinality(I) <= Cardinality(FreePool)
    PROVE  /\ \A p \in I : /\ Lowest(FreePool, I)[p] \in UNION m_expansions
                           /\ Lowest(FreePool, I)[p] # 0 /\ Lowest(FreePool, I)[p] \in Nat
                           /\ \A q \in GuestPages : Lowest(FreePool, I)[p] # m_pool[q]
           /\ Lowest(FreePool, I) \in [GuestPages -> Frames \cup {0}]
           /\ \A p, q \in I : p # q => Lowest(FreePool, I)[p] # Lowest(FreePool, I)[q]
<1> DEFINE S == FreePool
           at == Lowest(S, I)
<1>1. S \subseteq UNION m_expansions /\ \A q \in GuestPages : m_pool[q] \notin S
  BY DEF FreePool, Range, MemoryTypeOK
<1>2. UNION m_expansions \subseteq Frames
  <2>1. \A F \in Spans(Frames) : F \in SUBSET Frames
    BY SpanIs DEF Frames, MemoryAssumption
  <2> QED
    BY <2>1 DEF MemoryTypeOK
<1> HIDE DEF S
<1>3. S \in SUBSET Nat /\ S \subseteq Frames /\ IsFiniteSet(S) /\ 0 \notin S /\ IsFiniteSet(I)
  <2>1. S \subseteq Frames
    BY <1>1, <1>2
  <2>2. IsFiniteSet(S) /\ IsFiniteSet(I)
    BY <2>1, Numbers, FS_Subset
  <2> QED
    BY <2>1, <2>2, Numbers
<1>4. Cardinality(I) <= Cardinality(S)
  BY DEF S
<1>5. /\ \A p \in I : at[p] \in S
      /\ at \in [GuestPages -> S \cup {0}]
      /\ \A p, q \in I : p # q => at[p] # at[q]
  BY <1>3, <1>4, LowestIs
<1> HIDE DEF at
<1>6. at \in [GuestPages -> Frames \cup {0}]
  BY <1>3, <1>5
<1>7. ASSUME NEW p \in I
      PROVE  at[p] \in UNION m_expansions /\ at[p] # 0 /\ at[p] \in Nat
  BY <1>1, <1>3, <1>5
<1>8. ASSUME NEW p \in I, NEW q \in GuestPages PROVE at[p] # m_pool[q]
  BY <1>1, <1>5
<1> QED
  BY <1>5, <1>6, <1>7, <1>8 DEF at, S

LEMMA CommitKeeps ==
    ASSUME MemoryAssumption, MemoryInv, NEW I \in Spans(GuestPages), KernelMemoryPoolCommit(I)
    PROVE  MemoryInv'
<1> DEFINE at == Lowest(FreePool, I)
           zero == All(0)
           pooled == All("Pooled")
<1>1. /\ Cardinality(I) <= Cardinality(FreePool)
      /\ I \subseteq Of("PoolReserved")
      /\ m_pool' = With(m_pool, I, at) /\ m_maps' = With(m_maps, I, at)
      /\ AddRange(I, "Pooled", name, zero) /\ gpu_pages' = gpu_pages \cup I
      /\ g_memory_pool_committed' = g_memory_pool_committed + Cardinality(I)
      /\ UNCHANGED <<m_physical, m_mappings, mapping_cuts, m_allocated, m_expansions, exited, faults>>
  BY DEF KernelMemoryPoolCommit, MapPool, MapBacking, physical
<1>2. MemoryTypeOK /\ AllAgree /\ Apart /\ CutsInv /\ OtherInv
  BY MemoryInvIs DEF MemoryInv
<1>3. I \in SUBSET GuestPages /\ \A p \in I : range_type[p] = "PoolReserved"
  BY <1>1 DEF Of
<1>4. /\ \A p \in I : /\ at[p] \in UNION m_expansions /\ at[p] # 0 /\ at[p] \in Nat
                      /\ \A q \in GuestPages : at[p] # m_pool[q]
      /\ at \in [GuestPages -> Frames \cup {0}]
      /\ \A p, q \in I : p # q => at[p] # at[q]
  BY <1>1, <1>2, <1>3, PoolFramesAre
<1> HIDE DEF at
<1>5. /\ range_type' = With(range_type, I, pooled) /\ name' = With(name, I, name)
      /\ offset' = With(offset, I, zero)
      /\ cuts' = Inside((cuts \ I) \cup Edges(I), {p \in GuestPages : range_type'[p] = "Direct"})
  BY <1>1 DEF AddRange
<1>6. ASSUME NEW p \in GuestPages
      PROVE  /\ p \in I => /\ range_type'[p] = "Pooled" /\ name'[p] = name[p] /\ offset'[p] = 0
                           /\ m_pool'[p] = at[p] /\ m_maps'[p] = at[p]
             /\ p \notin I => /\ range_type'[p] = range_type[p] /\ name'[p] = name[p] /\ offset'[p] = offset[p]
                              /\ m_pool'[p] = m_pool[p] /\ m_maps'[p] = m_maps[p]
  BY <1>1, <1>5 DEF With, All
<1>7. ASSUME NEW p \in GuestPages PROVE PageAgrees(p)'
  <2>1. PageAgrees(p)
    BY <1>2 DEF AllAgree
  <2>2. CASE p \in I
    <3>1. /\ m_mappings'[p] = 0 /\ m_allocated'[p] = 0
      BY <1>1, <1>3, <2>1, <2>2 DEF PageAgrees
    <3>2. m_pool'[p] = at[p] /\ m_maps'[p] = at[p] /\ at[p] \in Nat
      BY <1>4, <1>6, <2>2
    <3>3. m_maps'[p] = m_mappings'[p] + m_allocated'[p] + m_pool'[p]
      BY <3>1, <3>2
    <3>4. /\ range_type'[p] = "Pooled" /\ m_pool'[p] # 0 /\ offset'[p] = 0
          /\ m_pool'[p] \in UNION m_expansions'
      BY <1>1, <1>4, <1>6, <2>2
    <3> QED
      BY <3>1, <3>3, <3>4 DEF PageAgrees
  <2>3. CASE p \notin I
    BY <1>1, <1>6, <2>1, <2>3 DEF PageAgrees
  <2> QED
    BY <2>2, <2>3
<1>8. Apart'
  <2>1. ASSUME NEW p \in GuestPages, NEW q \in GuestPages, p # q, m_pool'[p] # 0
        PROVE  m_pool'[p] # m_pool'[q]
    <3>1. CASE p \in I /\ q \in I
      BY <1>4, <1>6, <2>1, <3>1
    <3>2. CASE p \in I /\ q \notin I
      BY <1>4, <1>6, <2>1, <3>2
    <3>3. CASE p \notin I /\ q \in I
      <4>1. m_pool'[q] = at[q] /\ m_pool'[p] = m_pool[p] /\ at[q] # m_pool[p]
        BY <1>4, <1>6, <3>3
      <4> QED
        BY <4>1
    <3>4. CASE p \notin I /\ q \notin I
      BY <1>2, <1>6, <2>1, <3>4 DEF Apart
    <3> QED
      BY <3>1, <3>2, <3>3, <3>4
  <2>2. ASSUME NEW p \in GuestPages, NEW q \in GuestPages, p # q
        PROVE  m_allocated'[p] # 0 => m_allocated'[p] # m_allocated'[q]
    BY <1>1, <1>2, <2>2 DEF Apart
  <2> QED
    BY <2>1, <2>2 DEF Apart
<1>9. CutsInv'
  <2>1. ASSUME NEW p \in mapping_cuts'
        PROVE  /\ p \in cuts' /\ range_type'[p] = "Direct" /\ p - 1 \in GuestPages /\ range_type'[p - 1] = "Direct"
    <3>1. /\ p \in cuts /\ p \in GuestPages /\ range_type[p] = "Direct"
          /\ p - 1 \in GuestPages /\ range_type[p - 1] = "Direct"
      BY <1>1, <1>2 DEF CutsInv, MemoryTypeOK
    <3>2. p \notin I /\ p - 1 \notin I
      BY <1>3, <3>1
    <3>3. range_type'[p] = "Direct" /\ range_type'[p - 1] = "Direct"
      BY <1>6, <3>1, <3>2
    <3> QED
      BY <1>5, <3>1, <3>2, <3>3, InsideIs
  <2> QED
    BY <2>1 DEF CutsInv
<1>10. Of("Pooled")' = Of("Pooled") \cup I /\ Of("Pooled") \cap I = {}
  BY <1>3, <1>6 DEF Of
<1>11. /\ g_memory_pool_committed' = Cardinality(Of("Pooled")')
       /\ g_memory_pool_committed' \in 0..LastPage
  <2> DEFINE P == Of("Pooled")
             Q == P \cup I
  <2>1. P \in SUBSET GuestPages /\ Q \in SUBSET GuestPages
    BY <1>3 DEF Of
  <2> HIDE DEF P
  <2>2. IsFiniteSet(P) /\ IsFiniteSet(I) /\ IsFiniteSet(Q)
    BY <1>3, <2>1, Numbers, FS_Subset
  <2>3. Cardinality(Q) = Cardinality(P) + Cardinality(I) - Cardinality(P \cap I)
    BY <2>2, FS_Union
  <2>4. Cardinality(P \cap I) = 0
    BY <1>10, FS_EmptySet DEF P
  <2>5. /\ Cardinality(P) \in Nat /\ Cardinality(I) \in Nat /\ Cardinality(Q) \in Nat
        /\ Cardinality(Q) <= LastPage /\ LastPage \in Nat
    <3>1. Cardinality(Q) <= Cardinality(GuestPages)
      BY <2>1, Numbers, FS_Subset
    <3> QED
      BY <2>2, <3>1, Numbers, FS_CardinalityType DEF MemoryAssumption
  <2>6. g_memory_pool_committed = Cardinality(P)
    BY <1>2 DEF OtherInv, P
  <2> HIDE DEF Q
  <2>7. g_memory_pool_committed' = Cardinality(Q) /\ Cardinality(Q) \in 0..LastPage
    BY <1>1, <2>3, <2>4, <2>5, <2>6
  <2>8. Q = Of("Pooled")'
    BY <1>10 DEF P, Q
  <2> QED
    BY <2>7, <2>8
<1>12. OtherInv'
  <2>1. ASSUME NEW p \in gpu_pages' PROVE range_type'[p] \in {"Direct", "Flexible", "Pooled"}
    <3>1. p \in GuestPages
      BY <1>1, <1>2, <1>3 DEF MemoryTypeOK
    <3> QED
      BY <1>1, <1>2, <1>6, <3>1 DEF OtherInv
  <2>2. m_physical' \cap UNION m_expansions' = {}
    BY <1>1, <1>2 DEF OtherInv
  <2> QED
    BY <1>11, <2>1, <2>2 DEF OtherInv
<1>13. MemoryTypeOK'
  <2>1. pooled \in [GuestPages -> RangeTypes] /\ zero \in [GuestPages -> Frames \cup {0}]
    BY DEF All, RangeTypes
  <2> HIDE DEF pooled, zero
  <2>2. range_type' \in [GuestPages -> RangeTypes]
    BY <1>2, <1>5, <2>1, WithTypes DEF MemoryTypeOK, RangeTypes
  <2>3. name' \in [GuestPages -> Names]
    BY <1>2, <1>5, WithTypes DEF MemoryTypeOK, Names
  <2>4. offset' \in [GuestPages -> Frames \cup {0}]
    BY <1>2, <1>5, <2>1, WithTypes DEF MemoryTypeOK
  <2>5. m_pool' \in [GuestPages -> Frames \cup {0}]
    BY <1>1, <1>2, <1>4, WithTypes DEF MemoryTypeOK
  <2>6. m_maps' \in [GuestPages -> Frames \cup FlexFrames \cup {0}]
    <3>1. at \in [GuestPages -> Frames \cup FlexFrames \cup {0}]
      BY <1>4
    <3> QED
      BY <1>1, <1>2, <3>1, WithTypes DEF MemoryTypeOK
  <2>7. cuts' \subseteq GuestPages
    BY <1>5, InsideIs
  <2> QED
    BY <1>1, <1>2, <1>3, <1>11, <2>2, <2>3, <2>4, <2>5, <2>6, <2>7 DEF MemoryTypeOK, RangeTypes, Names
<1>14. AllAgree'
  BY <1>7 DEF AllAgree
<1> QED
  BY <1>8, <1>9, <1>12, <1>13, <1>14, MemoryInvIs, PTL

-----------------------------------------------------------------------------
LEMMA MemoryInvHolds == MemoryAssumption => (MemorySpec => []MemoryInv)
<1> SUFFICES ASSUME MemoryAssumption PROVE MemorySpec => []MemoryInv
  OBVIOUS
<1>1. MemoryInit => MemoryInv
  <2> SUFFICES ASSUME MemoryInit PROVE MemoryInv
    OBVIOUS
  <2>1. /\ \A p \in GuestPages : /\ range_type[p] = "None" /\ name[p] = "" /\ offset[p] = 0 /\ m_mappings[p] = 0
                                 /\ m_allocated[p] = 0 /\ m_pool[p] = 0 /\ m_maps[p] = 0
        /\ cuts = {} /\ m_physical = {} /\ mapping_cuts = {} /\ m_expansions = {} /\ gpu_pages = {}
        /\ g_memory_pool_committed = 0
    BY DEF MemoryInit, All
  <2>2. MemoryTypeOK
    <3>1. 0 \in 0..LastPage /\ 0 \in 0..MaxFaults
      BY DEF MemoryAssumption
    <3> QED
      BY <3>1 DEF MemoryInit, All, MemoryTypeOK
  <2>3. ASSUME NEW p \in GuestPages PROVE PageAgrees(p)
    <3>1. 0 = 0 + 0 + 0
      OBVIOUS
    <3>2. m_maps[p] = m_mappings[p] + m_allocated[p] + m_pool[p]
      BY <2>1, <3>1, Zenon
    <3> QED
      BY <2>1, <3>2 DEF PageAgrees
  <2>4. Apart /\ CutsInv
    BY <2>1 DEF Apart, CutsInv
  <2>5. OtherInv
    <3>1. Of("Pooled") = {}
      BY <2>1 DEF Of
    <3> QED
      BY <2>1, <3>1, FS_EmptySet DEF OtherInv
  <2> QED
    BY <2>2, <2>3, <2>4, <2>5, MemoryInvIs DEF AllAgree
<1>2. MemoryInv /\ [MemoryNext]_memoryVars => MemoryInv'
  <2> SUFFICES ASSUME MemoryInv, [MemoryNext]_memoryVars PROVE MemoryInv'
    OBVIOUS
  <2>1. ASSUME NEW n \in Frames, AllocateDirectMemory(n) \/ KernelMemoryPoolExpand(n)
        PROVE  MemoryInv'
    BY <2>1, AllocateKeeps
  <2>2. ASSUME NEW F \in Spans(Frames), ReleaseExpansion(F)
        PROVE  MemoryInv'
    BY <2>2, ReleaseExpansionKeeps
  <2>3. ASSUME NEW F \in Spans(Frames), ReleaseDirectMemory(F)
        PROVE  MemoryInv'
    <3>1. F \in SUBSET Frames
      BY SpanIs DEF Frames, MemoryAssumption
    <3> QED
      BY <2>3, <3>1, ReleaseKeeps
  <2>4. ASSUME NEW F \in Spans(Frames), ReleaseExits(F)
        PROVE  MemoryInv'
    BY <2>4, ExitKeeps DEF ReleaseExits
  <2>5. ASSUME NEW I \in Spans(GuestPages), KernelSetVirtualRangeName(I, "named")
        PROVE  MemoryInv'
    BY <2>5, NameKeeps
  <2>6. ASSUME NEW I \in Spans(GuestPages), KernelMprotect(I)
        PROVE  MemoryInv'
    BY <2>6, ProtectKeeps
  <2>7. ASSUME NEW I \in Spans(GuestPages), KernelMunmap(I)
        PROVE  MemoryInv'
    BY <2>7, MunmapKeeps
  <2>8. ASSUME NEW I \in Spans(GuestPages), ReplaceFixedRefused(I)
        PROVE  MemoryInv'
    BY <2>8, ReplaceRefusedKeeps
  <2>9. ASSUME NEW I \in Spans(GuestPages), KernelMemoryPoolCommit(I)
        PROVE  MemoryInv'
    BY <2>9, CommitKeeps
  <2>10. ASSUME NEW I \in Spans(GuestPages), KernelMemoryPoolDecommit(I)
         PROVE  MemoryInv'
    BY <2>10, DecommitKeeps
  <2>11. ASSUME NEW I \in Spans(GuestPages), NEW how \in {"fixed", "hint"},
                KernelReserveVirtualRange(I, how)
         PROVE  MemoryInv'
    BY <2>11, ReserveKeeps
  <2>12. ASSUME NEW I \in Spans(GuestPages), NEW how \in {"fixed", "hint"},
                KernelMemoryPoolReserve(I, how)
         PROVE  MemoryInv'
    BY <2>12, PoolReserveKeeps
  <2>13. ASSUME NEW I \in Spans(GuestPages), NEW how \in {"fixed", "hint"},
                KernelMapFlexibleMemory(I, how)
         PROVE  MemoryInv'
    BY <2>13, MapFlexibleKeeps
  <2>14. ASSUME NEW I \in Spans(GuestPages), NEW how \in {"fixed", "hint"}, NEW f \in Frames,
                KernelMapDirectMemory(I, f, how)
         PROVE  MemoryInv'
    BY <2>14, MapDirectKeeps
  <2>15. CASE UNCHANGED memoryVars
    BY <2>15, ExitKeeps
  <2> QED
    BY <2>1, <2>2, <2>3, <2>4, <2>5, <2>6, <2>7, <2>8, <2>9, <2>10, <2>11, <2>12, <2>13, <2>14,
       <2>15, Zenon DEF MemoryNext
<1> QED
  BY <1>1, <1>2, PTL DEF MemorySpec

(* "Keep host mappings, physical blocks, placeholders, and virtual ranges  *)
(* in step" (memory.cpp, g_memory_operation_mutex): for any number of      *)
(* guest pages, frames of direct and flexible memory and refusals of the   *)
(* host, whatever reservations, mappings, commits, names, protections,     *)
(* unmappings and releases went before, the five tables and the host's     *)
(* views describe the same pages, no frame has two owners, the GPU has no  *)
(* page that is gone, every cut of m_mappings is one of VirtualRanges, and *)
(* the pool counts what it has committed.                                  *)
THEOREM TablesStayInStep ==
    MemoryAssumption => (MemorySpec => [](MemoryTypeOK /\ TablesInStep))
<1>1. MemoryInv => MemoryTypeOK /\ TablesInStep
  BY DEF MemoryInv
<1> QED
  BY <1>1, MemoryInvHolds, PTL
=============================================================================
