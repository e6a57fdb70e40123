--------------------------- MODULE FlipQueueProofs ---------------------------
(***************************************************************************)
(* The flip queue keeps its requests and its ports' status tells of them,  *)
(* whatever the ports, the capacity and the number of calls.               *)
(*                                                                         *)
(* RequestsKept says that no EXIT about the protocol is reached, and that  *)
(* is about four threads that meet one request: the invariant therefore    *)
(* follows every request (QueueInv: it is in one place under one id;       *)
(* StageInv: how far it is) and every errand about it (OneErrand: an id is *)
(* with one thread; ErrandInv: the thread finds the request at the stage   *)
(* it expects, queued or cancelled), with what the present thread holds    *)
(* (ShowInv) and what Close has come to (PortInv: a pending request is of  *)
(* its port as it is now, or Close is cancelling it).                      *)
(*                                                                         *)
(* First, what each operation does to the queue as a sequence and as a     *)
(* set, then one lemma per action, with the parts of the invariant that    *)
(* the action leaves alone carried over by the Frame lemmas.               *)
(***************************************************************************)
EXTENDS FlipQueue, SequenceTheorems, FiniteSetTheorems, TLAPS

-----------------------------------------------------------------------------
(* Sequences that hold nothing twice.                                      *)
Distinct(s) == \A i, j \in 1..Len(s) : s[i] = s[j] => i = j

(* Membership in the range.                                                *)
LEMMA InRange ==
    ASSUME NEW S, NEW s \in Seq(S)
    PROVE  /\ Len(s) \in Nat /\ DOMAIN s = 1..Len(s)
           /\ \A i \in 1..Len(s) : s[i] \in S /\ s[i] \in Range(s)
           /\ \A x : x \in Range(s) <=> \E i \in 1..Len(s) : x = s[i]
           /\ Range(s) \subseteq S
           /\ s = <<>> <=> Len(s) = 0
           /\ s = <<>> <=> Range(s) = {}
           /\ s # <<>> => Head(s) = s[1] /\ Head(s) \in Range(s)
<1>1. Len(s) \in Nat /\ DOMAIN s = 1..Len(s)
  BY LenProperties
<1>2. \A i \in 1..Len(s) : s[i] \in S
  BY ElementOfSeq
<1>3. \A x : x \in Range(s) <=> \E i \in 1..Len(s) : x = s[i]
  BY <1>1 DEF Range
<1>4. s = <<>> <=> Len(s) = 0
  BY EmptySeq
<1>5. Len(s) # 0 => 1 \in 1..Len(s)
  BY <1>1
<1>6. s # <<>> => Head(s) = s[1]
  OBVIOUS
<1>7. s = <<>> <=> Range(s) = {}
  <2>1. ASSUME s = <<>> PROVE Range(s) = {}
    BY <2>1, <1>1, <1>3, <1>4
  <2>2. ASSUME s # <<>> PROVE s[1] \in Range(s)
    BY <2>2, <1>3, <1>4, <1>5
  <2> QED
    BY <2>1, <2>2
<1> QED
  BY <1>1, <1>2, <1>3, <1>4, <1>5, <1>6, <1>7

(* One more at the end.                                                    *)
LEMMA AppendNew ==
    ASSUME NEW S, NEW s \in Seq(S), NEW e \in S, Distinct(s),
           e \notin Range(s)
    PROVE  /\ Append(s, e) \in Seq(S) /\ Len(Append(s, e)) = Len(s) + 1
           /\ Distinct(Append(s, e))
           /\ Range(Append(s, e)) = Range(s) \cup {e}
           /\ s # <<>> => Append(s, e) # <<>> /\ Head(Append(s, e)) = Head(s)
<1> DEFINE z == Append(s, e)
<1>1. /\ z \in Seq(S) /\ Len(z) = Len(s) + 1 /\ z[Len(s) + 1] = e
      /\ \A i \in 1..Len(s) : z[i] = s[i]
  BY AppendProperties
<1>2. Len(s) \in Nat /\ \A i \in 1..Len(s) : s[i] # e
  BY InRange
<1> HIDE DEF z
<1>3. Distinct(z)
  BY <1>1, <1>2 DEF Distinct
<1>4. \A x : x \in Range(z) <=> \E i \in 1..Len(z) : x = z[i]
  BY <1>1, InRange
<1>5. \A x : x \in Range(s) <=> \E i \in 1..Len(s) : x = s[i]
  BY InRange
<1>6. Range(z) = Range(s) \cup {e}
  BY <1>1, <1>2, <1>4, <1>5
<1>7. s # <<>> => z # <<>> /\ Head(z) = Head(s)
  <2> SUFFICES ASSUME s # <<>> PROVE z # <<>> /\ Head(z) = Head(s)
    OBVIOUS
  <2>1. Head(s) = s[1] /\ 1 \in 1..Len(s)
    BY InRange
  <2>2. z # <<>> /\ Head(z) = z[1]
    BY <1>1, <1>2, InRange
  <2> QED
    BY <2>1, <2>2, <1>1
<1> QED
  BY <1>1, <1>3, <1>6, <1>7 DEF z

(* The first is taken.                                                     *)
LEMMA TailOf ==
    ASSUME NEW S, NEW s \in Seq(S), Distinct(s), s # <<>>
    PROVE  /\ Tail(s) \in Seq(S) /\ Len(Tail(s)) = Len(s) - 1
           /\ Distinct(Tail(s))
           /\ Head(s) \in S /\ Head(s) \in Range(s)
           /\ Range(Tail(s)) = Range(s) \ {Head(s)}
<1> DEFINE z == Tail(s)
<1>1. /\ z \in Seq(S) /\ Len(z) = Len(s) - 1 /\ Head(s) \in S
      /\ \A i \in 1..Len(z) : z[i] = s[i + 1]
  BY HeadTailProperties
<1>2. /\ Len(s) \in Nat /\ Len(s) # 0 /\ Head(s) = s[1] /\ Head(s) \in Range(s)
      /\ \A x : x \in Range(s) <=> \E i \in 1..Len(s) : x = s[i]
  BY InRange
<1> HIDE DEF z
<1>3. \A x : x \in Range(z) <=> \E i \in 1..Len(z) : x = z[i]
  BY <1>1, InRange
<1>4. Distinct(z)
  BY <1>1, <1>2 DEF Distinct
<1>5. \A i \in 1..Len(z) : i + 1 \in 1..Len(s) /\ z[i] # s[1]
  BY <1>1, <1>2 DEF Distinct
<1>6. \A x \in Range(z) : x \in Range(s) /\ x # s[1]
  BY <1>1, <1>2, <1>3, <1>5
<1>7. ASSUME NEW x \in Range(s), x # s[1] PROVE x \in Range(z)
  <2>1. PICK i \in 1..Len(s) : x = s[i]
    BY <1>2
  <2>2. i - 1 \in 1..Len(z) /\ z[i - 1] = s[i]
    BY <1>1, <1>2, <1>7, <2>1
  <2> QED
    BY <1>3, <2>1, <2>2
<1> QED
  BY <1>1, <1>2, <1>4, <1>6, <1>7 DEF z

-----------------------------------------------------------------------------
(* What the operations of FlipQueue do to m_requests.                      *)

(* One request changes in place.                                           *)
LEMMA ReplaceInSequence ==
    ASSUME m_requests \in Seq(Request), Distinct(m_requests),
           \A q, x \in Range(m_requests) : q.id = x.id => q = x,
           NEW r \in Request, m_requests' = InSequence(r)
    PROVE  /\ m_requests' \in Seq(Request) /\ Len(m_requests') = Len(m_requests)
           /\ Distinct(m_requests')
           /\ \A x : x \in Range(m_requests') <=>
                        \/ x \in Range(m_requests) /\ x.id # r.id
                        \/ x = r /\ \E q \in Range(m_requests) : q.id = r.id
           /\ m_requests # <<>> =>
                 /\ m_requests' # <<>>
                 /\ Head(m_requests') = IF Head(m_requests).id = r.id THEN r
                                        ELSE Head(m_requests)
<1> DEFINE s == m_requests
           z == m_requests'
<1>1. /\ Len(s) \in Nat /\ DOMAIN s = 1..Len(s) /\ \A i \in 1..Len(s) : s[i] \in Request
      /\ \A i \in 1..Len(s) : s[i] \in Range(s)
      /\ \A x : x \in Range(s) <=> \E i \in 1..Len(s) : x = s[i]
  BY InRange
<1>2. z = [i \in 1..Len(s) |-> IF s[i].id = r.id THEN r ELSE s[i]]
  BY <1>1 DEF InSequence
<1>3. z \in Seq(Request)
  <2>1. \A i \in 1..Len(s) : (IF s[i].id = r.id THEN r ELSE s[i]) \in Request
    BY <1>1
  <2> QED
    BY <1>1, <1>2, <2>1, IsASeq
<1>4. Len(z) = Len(s) /\ \A i \in 1..Len(s) : z[i] = IF s[i].id = r.id THEN r ELSE s[i]
  <2>1. DOMAIN z = 1..Len(s) /\ Len(z) \in Nat /\ DOMAIN z = 1..Len(z)
    BY <1>2, <1>3, LenProperties
  <2> QED
    BY <1>1, <1>2, <2>1
<1>5. \A x : x \in Range(z) <=> \E i \in 1..Len(z) : x = z[i]
  BY <1>3, InRange
<1> HIDE DEF z
<1>6. Distinct(z)
  <2> SUFFICES ASSUME NEW i \in 1..Len(s), NEW j \in 1..Len(s), z[i] = z[j]
               PROVE  i = j
    BY <1>4 DEF Distinct
  <2>1. s[i].id = s[j].id
    BY <1>4
  <2>2. s[i] = s[j]
    BY <2>1, <1>1
  <2> QED
    BY <2>2 DEF Distinct
<1>7. s # <<>> => z # <<>> /\ Head(z) = IF Head(s).id = r.id THEN r ELSE Head(s)
  <2> SUFFICES ASSUME s # <<>>
               PROVE  z # <<>> /\ Head(z) = IF Head(s).id = r.id THEN r ELSE Head(s)
    OBVIOUS
  <2>1. Len(s) # 0 /\ Head(s) = s[1]
    BY InRange
  <2>2. z # <<>> /\ Head(z) = z[1]
    BY <2>1, <1>3, <1>4, InRange
  <2>3. 1 \in 1..Len(s)
    BY <2>1, <1>1
  <2> QED
    BY <2>1, <2>2, <2>3, <1>4
<1>8. \A x : x \in Range(z) <=> \/ x \in Range(s) /\ x.id # r.id
                                \/ x = r /\ \E q \in Range(s) : q.id = r.id
  BY <1>1, <1>4, <1>5
<1> QED
  BY <1>3, <1>4, <1>6, <1>7, <1>8 DEF z

(* Requests are taken out, the others stay in their order.                 *)
LEMMA RemoveFromSequence ==
    ASSUME m_requests \in Seq(Request), Distinct(m_requests), NEW S, RemoveAll(S)
    PROVE  /\ m_requests' \in Seq(Request) /\ Len(m_requests') <= Len(m_requests)
           /\ Distinct(m_requests')
           /\ Range(m_requests') = Range(m_requests) \ S
           /\ m_requests # <<>> /\ Head(m_requests) \notin S =>
                 m_requests' # <<>> /\ Head(m_requests') = Head(m_requests)
<1> DEFINE s == m_requests
           z == m_requests'
           places == {i \in DOMAIN s : s[i] \notin S}
<1>1. /\ Len(s) \in Nat /\ DOMAIN s = 1..Len(s) /\ \A i \in 1..Len(s) : s[i] \in Request
      /\ \A x : x \in Range(s) <=> \E i \in 1..Len(s) : x = s[i]
  BY InRange
<1>2. PICK f \in Orders(places) : z = [i \in DOMAIN f |-> s[f[i]]]
  BY DEF RemoveAll
<1>3. PICK n \in 0..Len(s) : f \in [1..n -> places]
  BY <1>2 DEF Orders
<1>4. DOMAIN f = 1..n /\ n \in Nat /\ Range(f) = places
  BY <1>1, <1>2, <1>3 DEF Orders
<1>5. /\ \A i \in 1..n : f[i] \in 1..Len(s) /\ s[f[i]] \notin S
      /\ \A k \in 1..Len(s) : s[k] \notin S => \E i \in 1..n : f[i] = k
      /\ \A i, j \in 1..n : i < j => f[i] < f[j]
  <2>1. \A i \in 1..n : f[i] \in places
    BY <1>3
  <2>2. \A k \in places : \E i \in 1..n : f[i] = k
    BY <1>4 DEF Range
  <2>3. \A i, j \in 1..n : i < j => f[i] < f[j]
    BY <1>2, <1>4 DEF Orders
  <2> QED
    BY <1>1, <2>1, <2>2, <2>3
<1>6. z = [i \in 1..n |-> s[f[i]]]
  BY <1>2, <1>4
<1>7. z \in Seq(Request)
  <2>1. \A i \in 1..n : s[f[i]] \in Request
    BY <1>1, <1>5
  <2> QED
    BY <1>4, <1>6, <2>1, IsASeq
<1>8. Len(z) = n /\ \A i \in 1..n : z[i] = s[f[i]]
  <2>1. DOMAIN z = 1..n /\ Len(z) \in Nat /\ DOMAIN z = 1..Len(z)
    BY <1>6, <1>7, LenProperties
  <2> QED
    BY <1>4, <1>6, <2>1
<1>9. \A x : x \in Range(z) <=> \E i \in 1..Len(z) : x = z[i]
  BY <1>7, InRange
<1> HIDE DEF z, places
<1>10. Distinct(z)
  <2> SUFFICES ASSUME NEW i \in 1..n, NEW j \in 1..n, z[i] = z[j]
               PROVE  i = j
    BY <1>8 DEF Distinct
  <2>1. f[i] = f[j]
    BY <1>5, <1>8 DEF Distinct
  <2>2. ~(i < j) /\ ~(j < i)
    BY <2>1, <1>1, <1>5
  <2> QED
    BY <2>2, <1>4
<1>11. Range(z) = Range(s) \ S
  <2>1. ASSUME NEW x \in Range(z) PROVE x \in Range(s) /\ x \notin S
    BY <1>1, <1>5, <1>8, <1>9
  <2>2. ASSUME NEW x \in Range(s), x \notin S PROVE x \in Range(z)
    BY <2>2, <1>1, <1>5, <1>8, <1>9
  <2> QED
    BY <2>1, <2>2
<1>12. ASSUME s # <<>>, Head(s) \notin S PROVE z # <<>> /\ Head(z) = Head(s)
  <2>1. Len(s) # 0 /\ Head(s) = s[1] /\ 1 \in 1..Len(s)
    BY <1>1, <1>12, InRange
  <2>2. PICK i \in 1..n : f[i] = 1
    BY <1>5, <1>12, <2>1
  <2>3. 1 \in 1..n /\ ~(1 < i)
    <3>1. 1 \in 1..n
      BY <1>4
    <3>2. f[1] \in 1..Len(s)
      BY <1>5, <3>1
    <3>3. ~(f[1] < f[i])
      BY <2>2, <3>2
    <3> QED
      BY <1>5, <3>1, <3>3
  <2>4. i = 1
    BY <1>4, <2>3
  <2>5. z # <<>> /\ Head(z) = z[1]
    BY <1>7, <1>8, <2>3, <2>4, InRange
  <2> QED
    BY <1>8, <2>1, <2>2, <2>3, <2>4, <2>5
<1> QED
  BY <1>1, <1>3, <1>7, <1>8, <1>10, <1>11, <1>12 DEF z

(* A request in its next state, or with its frame.                         *)
LEMMA RequestUpdates ==
    ASSUME NEW r \in Request
    PROVE  /\ r.id \in Ids /\ r.port \in Ports /\ r.index \in Indexes /\ r.frame \in BOOLEAN
           /\ r.generation \in Nat
           /\ \A state \in {"Reserved", "Recording", "Ready", "Presenting"} :
                 LET u == [r EXCEPT !.state = state] IN
                 /\ u \in Request /\ u.state = state
                 /\ u.id = r.id /\ u.port = r.port /\ u.generation = r.generation
                 /\ u.index = r.index /\ u.source = r.source /\ u.frame = r.frame
           /\ LET u == [r EXCEPT !.frame = TRUE] IN
                 /\ u \in Request /\ u.frame = TRUE
                 /\ u.id = r.id /\ u.port = r.port /\ u.generation = r.generation
                 /\ u.index = r.index /\ u.source = r.source /\ u.state = r.state
  BY DEF Request

(* One element for another.                                                *)
LEMMA ExchangeCardinality ==
    ASSUME NEW S, IsFiniteSet(S), NEW r \in S, NEW u, u \notin S
    PROVE  /\ IsFiniteSet((S \ {r}) \cup {u})
           /\ Cardinality((S \ {r}) \cup {u}) = Cardinality(S)
<1>1. IsFiniteSet(S \ {r}) /\ Cardinality(S \ {r}) = Cardinality(S) - 1
  BY FS_RemoveElement
<1>2. /\ IsFiniteSet((S \ {r}) \cup {u})
      /\ Cardinality((S \ {r}) \cup {u}) = Cardinality(S \ {r}) + 1
  BY <1>1, FS_AddElement
<1>3. Cardinality(S) \in Nat
  BY FS_CardinalityType
<1> QED
  BY <1>1, <1>2, <1>3

(* No more requests are pending than PendingNum counts.                    *)
LEMMA PendingCount ==
    ASSUME m_requests \in Seq(Request), IsFiniteSet(m_cpu_requests)
    PROVE  /\ IsFiniteSet(Pending) /\ Cardinality(Pending) <= PendingNum /\ PendingNum \in Nat
           /\ \A S : S \subseteq Pending => IsFiniteSet(S) /\ Cardinality(S) \in 0..PendingNum
<1> DEFINE n == Len(m_requests)
           C == Cardinality(m_cpu_requests)
<1>1. n \in Nat /\ DOMAIN m_requests = 1..n
  BY LenProperties
<1>2. IsFiniteSet(1..n) /\ Cardinality(1..n) = n
  <2> HIDE DEF n
  <2>1. IsFiniteSet(1..n) /\ Cardinality(1..n) = IF 1 > n THEN 0 ELSE n - 1 + 1
    <3>1. 1 \in Int /\ n \in Int
      BY <1>1
    <3> QED
      BY <3>1, FS_Interval
  <2> QED
    BY <1>1, <2>1
<1>3. m_requests \in Surjection(1..n, Range(m_requests))
  BY <1>1, InRange DEF Surjection, Range
<1>4. IsFiniteSet(Range(m_requests)) /\ Cardinality(Range(m_requests)) <= n
  BY <1>2, <1>3, FS_Surjection
<1>5. C \in Nat /\ Cardinality(Range(m_requests)) \in Nat
  BY <1>4, FS_CardinalityType
<1>6. /\ IsFiniteSet(Pending)
      /\ Cardinality(Pending) = Cardinality(Range(m_requests)) + C
                                - Cardinality(Range(m_requests) \cap m_cpu_requests)
  BY <1>4, FS_Union DEF Pending
<1>7. Cardinality(Range(m_requests) \cap m_cpu_requests) \in Nat
  <2>1. IsFiniteSet(Range(m_requests) \cap m_cpu_requests)
    BY <1>4, FS_Subset
  <2> QED
    BY <2>1, FS_CardinalityType
<1>8. Cardinality(Pending) <= PendingNum /\ PendingNum \in Nat
  <2> HIDE DEF n, C
  <2>1. PendingNum = n + C
    BY DEF PendingNum, n, C
  <2> QED
    BY <1>1, <1>4, <1>5, <1>6, <1>7, <2>1 DEF n
<1>9. ASSUME NEW S, S \subseteq Pending PROVE IsFiniteSet(S) /\ Cardinality(S) \in 0..PendingNum
  <2>1. IsFiniteSet(S) /\ Cardinality(S) <= Cardinality(Pending)
    BY <1>6, <1>9, FS_Subset
  <2>2. Cardinality(S) \in Nat /\ Cardinality(Pending) \in Nat
    BY <2>1, <1>6, FS_CardinalityType
  <2> QED
    BY <1>8, <2>1, <2>2
<1> QED
  BY <1>6, <1>8, <1>9

-----------------------------------------------------------------------------
(* The inductive invariant.                                                *)

All == Pending \cup m_cancelled_requests

(* A request is in one place and has an id of its own.                     *)
QueueInv ==
    /\ m_requests \in Seq(Request) /\ Distinct(m_requests)
    /\ m_cpu_requests \subseteq Request /\ IsFiniteSet(m_cpu_requests)
    /\ m_cancelled_requests \subseteq Request
    /\ Range(m_requests) \cap m_cpu_requests = {}
    /\ Pending \cap m_cancelled_requests = {}
    /\ \A q, r \in All : q.id = r.id => q = r
    /\ \A r \in All : r.id <= calls
    /\ PendingNum <= Capacity

(* How far a request is.                                                   *)
StageInv ==
    /\ \A r \in All :
          /\ r.state = "Reserved" => ~r.frame
          /\ r.state \in {"Ready", "Presenting"} => r.frame /\ r \in Range(m_requests)
          /\ r.state = "Presenting" => show.pc = "presenting" /\ r = Head(m_requests)
    /\ \A r \in m_cpu_requests : r.state = "Reserved" /\ r.source = "Cpu"

(* What the present thread is doing.                                       *)
ShowInv ==
    /\ show.pc \in {"top", "vblank"} => ~m_processing
    /\ show.pc \in {"picked", "presenting"} =>
          /\ m_processing /\ m_requests # <<>>
          /\ show.r \in Request /\ show.r.state = "Ready"
    /\ show.pc = "picked" => Head(m_requests) = show.r
    /\ show.pc = "presenting" => Head(m_requests) = [show.r EXCEPT !.state = "Presenting"]

(* An id is on one errand: with the guest thread that made the call, in    *)
(* the GPU thread's queue, with the GPU thread, or with the priority one.  *)
OneErrand ==
    /\ \A c, d \in midway : c.id = d.id => c = d
    /\ Distinct(submissions) /\ \A s, u \in Range(submissions) : s.id = u.id => s = u
    /\ Distinct(completions)
    /\ \A s \in Range(submissions), c \in midway : s.id # c.id
    /\ gpu.pc # "idle" => /\ \A c \in midway : c.id # gpu.task.id
                          /\ \A s \in Range(submissions) : s.id # gpu.task.id
                          /\ gpu.task.id \notin Range(completions)
    /\ \A c \in midway : c.id <= calls
    /\ \A s \in Range(submissions) : s.id <= calls
    /\ gpu.pc # "idle" => gpu.task.id <= calls

(* An errand finds the request it is about, at the stage it expects.       *)
Awaits(id) == \E r \in All : r.id = id /\ r.state = "Reserved"
Without(id) == \A r \in All : r.id # id

Carried == [gpu.task EXCEPT !.state = "Recording"]
Completable(id) ==
    \E r \in Range(m_requests) \cup m_cancelled_requests :
        r.id = id /\ r.state = "Recording" /\ (r \in Range(m_requests) => r.frame)

ErrandInv ==
    /\ \A c \in midway : c.op = "prepare" => Awaits(c.id)
    /\ \A s \in Range(submissions) : /\ s.op = "prepare" => Awaits(s.id)
                                     /\ s.op # "prepare" => Without(s.id)
    /\ gpu.pc = "prepare" => Awaits(gpu.task.id)
    /\ gpu.pc \in {"reserve", "slot", "wait", "waiting"} => Without(gpu.task.id)
    /\ gpu.pc \in {"record", "drop", "attach"} =>
          /\ gpu.task.state = "Reserved" /\ ~gpu.task.frame
          /\ Carried \in Range(m_requests) \cup m_cancelled_requests
    /\ \A id \in Range(completions) : Completable(id)

(* A pending request is of its port as it is, or the port is being closed. *)
Cancelling(p) == closer = [port |-> p, stage |-> "cancel"]

PortInv ==
    /\ closer # NoClose => ~port[closer.port].opened
    /\ \A p \in Ports : port[p].generation <= calls /\ (port[p].opened => ~port[p].closing)
    /\ \A r \in Pending : Current(r) \/ Cancelling(r.port)
    /\ gpu.pc = "drop" =>
          \A r \in Range(m_requests) : r.id = gpu.task.id => Cancelling(r.port)
    /\ \A p \in Ports : ~port[p].opened /\ closer.port # p => port[p].flipPendingNum = 0

Tasks == [op : {"prepare"}, id : Ids]
         \cup [op : {"flip", "wait"}, id : Ids, port : Ports, index : Indexes]
Calls == [op : {"prepare"}, id : Ids] \cup [op : {"rate"}, id : Ids, port : Ports, rate : Rates]
PortTypes == [opened : BOOLEAN, closing : BOOLEAN, generation : 0..MaxCalls,
              rate : 0..2, surfaces : SUBSET Surfaces, vblank : 0..(Cycle - 1),
              flipPendingNum : 0..Capacity, gcQueueNum : 0..Capacity]

TypeInv ==
    /\ port \in [Ports -> PortTypes]
    /\ m_processing \in BOOLEAN /\ calls \in 0..MaxCalls /\ live \subseteq Ids
    /\ fatal \in {"none", "reopen", "rejected", "saturated", "unregistered", "closed"}
    /\ midway \subseteq Calls /\ submissions \in Seq(Tasks) /\ completions \in Seq(Ids)
    /\ \/ gpu = [pc |-> "idle", task |-> NoTask]
       \/ gpu \in [pc : {"prepare"}, task : Tasks]
       \/ /\ gpu \in [pc : {"reserve", "slot", "wait", "waiting"}, task : Tasks]
          /\ gpu.task.port \in Ports /\ gpu.task.index \in Indexes
       \/ gpu \in [pc : {"record", "drop", "attach"}, task : Request]
    /\ show \in [pc : {"top", "picked", "presenting", "vblank"}, r : Request \cup {NoTask}]
    /\ closer = NoClose \/ closer \in [port : Ports, stage : {"cancel", "reset"}]

IndInv ==
    /\ TypeInv /\ QueueInv /\ StageInv /\ ShowInv /\ OneErrand /\ ErrandInv /\ PortInv
    /\ FramesOwned /\ StatusCovers

-----------------------------------------------------------------------------
(* What each operation of the queue does to the requests.                  *)
(* Every request has an id.                                                *)
LEMMA RequestIds ==
    ASSUME QueueInv
    PROVE  /\ All \subseteq Request /\ \A q \in All : q.id \in Nat
           /\ Range(m_requests) \subseteq Request
<1>1. All \subseteq Request /\ Range(m_requests) \subseteq Request
  BY InRange DEF QueueInv, All, Pending
<1>2. \A q \in Request : q.id \in Nat
  BY DEF Request, Ids
<1> QED
  BY <1>1, <1>2

(* A request that is new.                                                  *)
LEMMA ReservedIsNew ==
    ASSUME TypeInv, QueueInv, NEW id \in Ids, NEW p \in Ports, NEW index \in Indexes,
           NEW source \in {"Cpu", "GpuEop"}
    PROVE  LET r == Reserved(id, p, index, source) IN
           /\ r \in Request /\ r.id = id /\ r.port = p /\ r.index = index /\ r.source = source
           /\ r.state = "Reserved" /\ ~r.frame /\ r.generation = port[p].generation
<1>1. port[p].generation \in Nat
  BY DEF TypeInv, PortTypes
<1> QED
  BY <1>1 DEF Reserved, Request

(* SubmitFlip: a CPU request.                                              *)
LEMMA SubmitFlipEffect ==
    ASSUME TypeInv, QueueInv, NEW p \in Ports, NEW index \in Indexes, SubmitFlip(p, index)
    PROVE  LET r == Reserved(calls', p, index, "Cpu") IN
           /\ QueueInv'
           /\ r \in Request /\ r.id = calls' /\ \A q \in All : q.id # r.id
           /\ m_requests' = m_requests /\ m_cpu_requests' = m_cpu_requests \cup {r}
           /\ m_cancelled_requests' = m_cancelled_requests
           /\ PendingNum \in Nat /\ PendingNum' = PendingNum + 1
<1> DEFINE r == Reserved(calls', p, index, "Cpu")
<1>1. calls' = calls + 1 /\ calls' \in Ids /\ calls \in Nat
  BY FlipAssumption DEF SubmitFlip, GuestCall, TypeInv, Ids
<1>2. r \in Request /\ r.id = calls'
  BY <1>1, ReservedIsNew
<1>3. /\ m_requests' = m_requests /\ m_cpu_requests' = m_cpu_requests \cup {r}
      /\ m_cancelled_requests' = m_cancelled_requests
      /\ ~(PendingNum >= Capacity)
  BY DEF SubmitFlip, QueueFull
<1> HIDE DEF r
<1>4. \A q \in All : q.id # r.id /\ q.id \in Nat
  <2>1. \A q \in All : q.id \in Nat /\ q.id <= calls
    BY RequestIds DEF QueueInv
  <2> QED
    BY <1>1, <1>2, <2>1
<1>5. r \notin All
  BY <1>4
<1>6. /\ IsFiniteSet(m_cpu_requests') /\ PendingNum \in Nat /\ PendingNum' = PendingNum + 1
  <2>1. r \notin m_cpu_requests
    BY <1>5 DEF All, Pending
  <2>2. /\ IsFiniteSet(m_cpu_requests')
        /\ Cardinality(m_cpu_requests') = Cardinality(m_cpu_requests) + 1
    BY <1>3, <2>1, FS_AddElement DEF QueueInv
  <2>3. Cardinality(m_cpu_requests) \in Nat /\ Len(m_requests) \in Nat
    BY FS_CardinalityType, LenProperties DEF QueueInv
  <2> QED
    BY <1>3, <2>2, <2>3 DEF PendingNum
<1>7. All' = All \cup {r} /\ Pending' = Pending \cup {r}
  BY <1>3 DEF All, Pending
<1>8. QueueInv'
  <2>1. \A q, x \in All' : q.id = x.id => q = x
    BY <1>4, <1>7 DEF QueueInv
  <2>2. \A q \in All' : q.id <= calls'
    BY <1>1, <1>2, <1>4, <1>7 DEF QueueInv
  <2>3. PendingNum' <= Capacity
    BY <1>3, <1>6, FlipAssumption
  <2>4. /\ Range(m_requests') \cap m_cpu_requests' = {}
        /\ Pending' \cap m_cancelled_requests' = {}
    BY <1>3, <1>5, <1>7 DEF QueueInv, All, Pending
  <2> QED
    BY <1>2, <1>3, <1>6, <2>1, <2>2, <2>3, <2>4 DEF QueueInv
<1> QED
  BY <1>2, <1>3, <1>4, <1>6, <1>8 DEF r

(* PrepareVideoOutFlip: a request of the GPU.                              *)
LEMMA GpuReserveEffect ==
    ASSUME TypeInv, QueueInv, ErrandInv, OneErrand, GpuReserve, gpu'.pc = "prepare"
    PROVE  LET r == Reserved(gpu.task.id, gpu.task.port, gpu.task.index, "GpuEop") IN
           /\ QueueInv'
           /\ r \in Request /\ r.id = gpu.task.id /\ r.port = gpu.task.port
           /\ \A q \in All : q.id # r.id
           /\ Range(m_requests') = Range(m_requests) \cup {r}
           /\ m_requests # <<>> => m_requests' # <<>> /\ Head(m_requests') = Head(m_requests)
           /\ m_cpu_requests' = m_cpu_requests /\ m_cancelled_requests' = m_cancelled_requests
           /\ PendingNum \in Nat /\ PendingNum' = PendingNum + 1
<1> DEFINE r == Reserved(gpu.task.id, gpu.task.port, gpu.task.index, "GpuEop")
<1>1. gpu.pc = "reserve" /\ gpu.task.id \in Ids /\ gpu.task.port \in Ports
      /\ gpu.task.index \in Indexes /\ gpu.task.id <= calls
  BY DEF GpuReserve, GpuAt, TypeInv, Tasks, OneErrand
<1>2. r \in Request /\ r.id = gpu.task.id /\ r.port = gpu.task.port
  BY <1>1, ReservedIsNew
<1>3. /\ m_requests' = Append(m_requests, r) /\ m_cpu_requests' = m_cpu_requests
      /\ m_cancelled_requests' = m_cancelled_requests /\ calls' = calls
      /\ ~(PendingNum >= Capacity)
  <2>1. gpu'.pc # gpu.pc
    BY <1>1
  <2>2. [gpu EXCEPT !.pc = "slot"].pc = "slot"
    BY DEF TypeInv
  <2> QED
    BY <2>1, <2>2 DEF GpuReserve, QueueFull, Moves, Exit, work
<1> HIDE DEF r
<1>4. \A q \in All : q.id # r.id
  BY <1>1, <1>2 DEF ErrandInv, Without
<1>5. r \notin All
  BY <1>4
<1>6. /\ m_requests' \in Seq(Request) /\ Len(m_requests') = Len(m_requests) + 1
      /\ Distinct(m_requests') /\ Range(m_requests') = Range(m_requests) \cup {r}
      /\ m_requests # <<>> => m_requests' # <<>> /\ Head(m_requests') = Head(m_requests)
  <2>1. r \notin Range(m_requests)
    BY <1>5 DEF All, Pending
  <2>2. m_requests \in Seq(Request) /\ Distinct(m_requests)
    BY DEF QueueInv
  <2> QED
    BY <1>2, <1>3, <2>1, <2>2, AppendNew
<1>7. PendingNum \in Nat /\ PendingNum' = PendingNum + 1
  <2>1. Cardinality(m_cpu_requests) \in Nat /\ Len(m_requests) \in Nat
    BY FS_CardinalityType, LenProperties DEF QueueInv
  <2>2. Len(m_requests') = Len(m_requests) + 1
        /\ Cardinality(m_cpu_requests') = Cardinality(m_cpu_requests)
    BY <1>3, <1>6
  <2> QED
    BY <2>1, <2>2 DEF PendingNum
<1>8. All' = All \cup {r} /\ Pending' = Pending \cup {r}
  BY <1>3, <1>6 DEF All, Pending
<1>9. QueueInv'
  <2>1. \A q, x \in All' : q.id = x.id => q = x
    BY <1>4, <1>8 DEF QueueInv
  <2>2. \A q \in All' : q.id <= calls'
    BY <1>1, <1>2, <1>3, <1>8 DEF QueueInv
  <2>3. PendingNum' <= Capacity
    BY <1>3, <1>7, FlipAssumption
  <2>4. /\ Range(m_requests') \cap m_cpu_requests' = {}
        /\ Pending' \cap m_cancelled_requests' = {}
    BY <1>3, <1>5, <1>6, <1>8 DEF QueueInv, All, Pending
  <2>5. m_cpu_requests' \subseteq Request /\ IsFiniteSet(m_cpu_requests')
        /\ m_cancelled_requests' \subseteq Request
    BY <1>3 DEF QueueInv
  <2> QED
    BY <1>6, <2>1, <2>2, <2>3, <2>4, <2>5 DEF QueueInv
<1> QED
  BY <1>2, <1>3, <1>4, <1>6, <1>7, <1>9 DEF r

(* One request of the queue in its next state.                             *)
LEMMA ReplaceEffect ==
    ASSUME QueueInv, NEW r \in Range(m_requests), NEW u \in Request, u.id = r.id, u # r,
           m_requests' = InSequence(u), UNCHANGED <<m_cpu_requests, m_cancelled_requests, calls>>
    PROVE  /\ QueueInv'
           /\ Range(m_requests') = (Range(m_requests) \ {r}) \cup {u}
           /\ Pending' = (Pending \ {r}) \cup {u} /\ All' = (All \ {r}) \cup {u}
           /\ u \notin All
           /\ m_requests # <<>> => /\ m_requests' # <<>>
                                   /\ Head(m_requests') = IF Head(m_requests) = r THEN u
                                                          ELSE Head(m_requests)
<1>1. /\ m_requests \in Seq(Request) /\ Distinct(m_requests)
      /\ \A q, x \in All : q.id = x.id => q = x
      /\ Range(m_requests) \subseteq All
  BY DEF QueueInv, All, Pending
<1>2. /\ m_requests' \in Seq(Request) /\ Len(m_requests') = Len(m_requests)
      /\ Distinct(m_requests')
      /\ \A x : x \in Range(m_requests') <=>
                   \/ x \in Range(m_requests) /\ x.id # u.id
                   \/ x = u /\ \E q \in Range(m_requests) : q.id = u.id
      /\ m_requests # <<>> =>
            /\ m_requests' # <<>>
            /\ Head(m_requests') = IF Head(m_requests).id = u.id THEN u ELSE Head(m_requests)
  BY <1>1, ReplaceInSequence
<1>3. u \notin All
  BY <1>1
<1>4. Range(m_requests') = (Range(m_requests) \ {r}) \cup {u}
  <2>1. \A x \in Range(m_requests) : x.id # u.id <=> x # r
    BY <1>1
  <2> QED
    BY <1>2, <2>1
<1>5. m_requests # <<>> =>
         /\ m_requests' # <<>>
         /\ Head(m_requests') = IF Head(m_requests) = r THEN u ELSE Head(m_requests)
  <2>1. m_requests # <<>> => Head(m_requests) \in Range(m_requests)
    BY <1>1, InRange
  <2> QED
    BY <1>1, <1>2, <2>1
<1>6. r \notin m_cpu_requests /\ r \notin m_cancelled_requests
  BY DEF QueueInv, Pending
<1>7. Pending' = (Pending \ {r}) \cup {u} /\ All' = (All \ {r}) \cup {u}
  BY <1>4, <1>6 DEF Pending, All
<1>8. QueueInv'
  <2>1. \A q, x \in All' : q.id = x.id => q = x
    BY <1>1, <1>7
  <2>2. \A q \in All' : q.id <= calls'
    BY <1>1, <1>7 DEF QueueInv
  <2>3. PendingNum' <= Capacity
    BY <1>2 DEF PendingNum, QueueInv
  <2>4. /\ Range(m_requests') \cap m_cpu_requests' = {}
        /\ Pending' \cap m_cancelled_requests' = {}
    BY <1>3, <1>4, <1>7 DEF QueueInv, All, Pending
  <2> QED
    BY <1>2, <2>1, <2>2, <2>3, <2>4 DEF QueueInv
<1> QED
  BY <1>3, <1>4, <1>5, <1>7, <1>8

(* Prepare takes a CPU request over to the queue.                          *)
LEMMA TakeEffect ==
    ASSUME QueueInv, NEW r \in m_cpu_requests, NEW u \in Request, u.id = r.id, u # r,
           m_requests' = Append(m_requests, u), m_cpu_requests' = m_cpu_requests \ {r},
           UNCHANGED <<m_cancelled_requests, calls>>
    PROVE  /\ QueueInv'
           /\ Range(m_requests') = Range(m_requests) \cup {u}
           /\ Pending' = (Pending \ {r}) \cup {u} /\ All' = (All \ {r}) \cup {u}
           /\ u \notin All
           /\ m_requests # <<>> => m_requests' # <<>> /\ Head(m_requests') = Head(m_requests)
<1>1. /\ m_requests \in Seq(Request) /\ Distinct(m_requests) /\ IsFiniteSet(m_cpu_requests)
      /\ \A q, x \in All : q.id = x.id => q = x
      /\ Range(m_requests) \subseteq All /\ r \in All
  BY DEF QueueInv, All, Pending
<1>2. u \notin All /\ u \notin Range(m_requests)
  BY <1>1
<1>3. /\ m_requests' \in Seq(Request) /\ Len(m_requests') = Len(m_requests) + 1
      /\ Distinct(m_requests') /\ Range(m_requests') = Range(m_requests) \cup {u}
      /\ m_requests # <<>> => m_requests' # <<>> /\ Head(m_requests') = Head(m_requests)
  BY <1>1, <1>2, AppendNew
<1>4. r \notin Range(m_requests) /\ r \notin m_cancelled_requests
  BY DEF QueueInv, Pending
<1>5. Pending' = (Pending \ {r}) \cup {u} /\ All' = (All \ {r}) \cup {u}
  BY <1>3, <1>4 DEF Pending, All
<1>6. /\ IsFiniteSet(m_cpu_requests') /\ PendingNum' = PendingNum
  <2>1. /\ IsFiniteSet(m_cpu_requests')
        /\ Cardinality(m_cpu_requests') = Cardinality(m_cpu_requests) - 1
    BY <1>1, FS_RemoveElement
  <2>2. Cardinality(m_cpu_requests) \in Nat /\ Len(m_requests) \in Nat
    BY <1>1, FS_CardinalityType, LenProperties
  <2> QED
    BY <1>3, <2>1, <2>2 DEF PendingNum
<1>7. QueueInv'
  <2>1. \A q, x \in All' : q.id = x.id => q = x
    BY <1>1, <1>5
  <2>2. \A q \in All' : q.id <= calls'
    BY <1>1, <1>5 DEF QueueInv
  <2>3. /\ Range(m_requests') \cap m_cpu_requests' = {}
        /\ Pending' \cap m_cancelled_requests' = {}
    BY <1>2, <1>3, <1>5 DEF QueueInv, All, Pending
  <2> QED
    BY <1>3, <1>6, <2>1, <2>2, <2>3 DEF QueueInv
<1> QED
  BY <1>2, <1>3, <1>5, <1>7

(* A cancelled request in its next state.                                  *)
LEMMA ReplaceCancelledEffect ==
    ASSUME QueueInv, NEW r \in m_cancelled_requests, NEW u \in Request, u.id = r.id, u # r,
           m_cancelled_requests' = Among(m_cancelled_requests, u),
           UNCHANGED <<m_requests, m_cpu_requests, calls>>
    PROVE  /\ QueueInv'
           /\ m_cancelled_requests' = (m_cancelled_requests \ {r}) \cup {u}
           /\ All' = (All \ {r}) \cup {u} /\ u \notin All
<1>1. \A q, x \in All : q.id = x.id => q = x
  BY DEF QueueInv
<1>2. m_cancelled_requests \subseteq All /\ u \notin All /\ r \notin Pending
  BY <1>1 DEF All, QueueInv
<1>3. m_cancelled_requests' = (m_cancelled_requests \ {r}) \cup {u}
  BY <1>1, <1>2 DEF Among
<1>4. All' = (All \ {r}) \cup {u} /\ Pending' = Pending /\ PendingNum' = PendingNum
  BY <1>2, <1>3 DEF All, Pending, PendingNum
<1>5. QueueInv'
  <2>1. \A q, x \in All' : q.id = x.id => q = x
    BY <1>1, <1>2, <1>4
  <2>2. \A q \in All' : q.id <= calls'
    BY <1>2, <1>4 DEF QueueInv
  <2>3. Pending' \cap m_cancelled_requests' = {}
    BY <1>2, <1>3, <1>4 DEF QueueInv, All
  <2> QED
    BY <1>3, <1>4, <2>1, <2>2, <2>3 DEF QueueInv
<1> QED
  BY <1>2, <1>3, <1>4, <1>5

(* A request that is not there is not replaced.                            *)
LEMMA ReplaceNothing ==
    ASSUME QueueInv, NEW u, \A q \in Range(m_requests) : q.id # u.id
    PROVE  InSequence(u) = m_requests
<1>1. /\ m_requests = [i \in 1..Len(m_requests) |-> m_requests[i]]
      /\ DOMAIN m_requests = 1..Len(m_requests)
      /\ \A i \in 1..Len(m_requests) : m_requests[i] \in Range(m_requests)
  <2>1. m_requests \in Seq(Request)
    BY DEF QueueInv
  <2>2. m_requests \in [1..Len(m_requests) -> Request]
    BY <2>1, LenProperties
  <2> QED
    BY <2>1, <2>2, InRange
<1>2. InSequence(u) = [i \in 1..Len(m_requests) |-> m_requests[i]]
  BY <1>1 DEF InSequence
<1> QED
  BY <1>1, <1>2

(* Requests leave the queue, and some of them become cancelled.            *)
LEMMA RemoveEffect ==
    ASSUME QueueInv, NEW S, NEW K, K \subseteq S, S \subseteq Pending, RemoveAll(S),
           m_cpu_requests' = m_cpu_requests \ S,
           m_cancelled_requests' = m_cancelled_requests \cup K, UNCHANGED calls
    PROVE  /\ QueueInv'
           /\ Range(m_requests') = Range(m_requests) \ S
           /\ Pending' = Pending \ S /\ All' = All \ (S \ K)
           /\ m_requests # <<>> /\ Head(m_requests) \notin S =>
                 m_requests' # <<>> /\ Head(m_requests') = Head(m_requests)
<1>1. m_requests \in Seq(Request) /\ Distinct(m_requests) /\ IsFiniteSet(m_cpu_requests)
  BY DEF QueueInv
<1>2. /\ m_requests' \in Seq(Request) /\ Len(m_requests') <= Len(m_requests)
      /\ Distinct(m_requests')
      /\ Range(m_requests') = Range(m_requests) \ S
      /\ m_requests # <<>> /\ Head(m_requests) \notin S =>
            m_requests' # <<>> /\ Head(m_requests') = Head(m_requests)
  BY <1>1, RemoveFromSequence
<1>3. Pending' = Pending \ S /\ All' = All \ (S \ K)
  <2>1. Pending' = Pending \ S
    BY <1>2 DEF Pending
  <2>2. Pending \cap m_cancelled_requests = {}
    BY DEF QueueInv
  <2> QED
    BY <2>1, <2>2 DEF All
<1>4. IsFiniteSet(m_cpu_requests') /\ PendingNum' <= PendingNum /\ PendingNum \in Nat
      /\ PendingNum' \in Nat
  <2>1. /\ IsFiniteSet(m_cpu_requests')
        /\ Cardinality(m_cpu_requests') <= Cardinality(m_cpu_requests)
    BY <1>1, FS_Subset
  <2>2. /\ Cardinality(m_cpu_requests) \in Nat /\ Cardinality(m_cpu_requests') \in Nat
        /\ Len(m_requests) \in Nat /\ Len(m_requests') \in Nat
    BY <1>1, <1>2, <2>1, FS_CardinalityType, LenProperties
  <2> QED
    BY <1>2, <2>1, <2>2 DEF PendingNum
<1>5. QueueInv'
  <2>1. \A q, x \in All' : q.id = x.id => q = x
    BY <1>3 DEF QueueInv
  <2>2. \A q \in All' : q.id <= calls'
    BY <1>3 DEF QueueInv
  <2>3. PendingNum' <= Capacity
    BY <1>4, FlipAssumption DEF QueueInv
  <2>4. Range(m_requests') \cap m_cpu_requests' = {}
    BY <1>2 DEF QueueInv
  <2>5. Pending' \cap m_cancelled_requests' = {}
    BY <1>3 DEF QueueInv
  <2>6. m_cpu_requests' \subseteq Request /\ m_cancelled_requests' \subseteq Request
    BY RequestIds DEF QueueInv, All
  <2> QED
    BY <1>2, <1>4, <2>1, <2>2, <2>3, <2>4, <2>5, <2>6 DEF QueueInv
<1> QED
  BY <1>2, <1>3, <1>5

(* A cancelled request is forgotten.                                       *)
LEMMA ForgetEffect ==
    ASSUME QueueInv, NEW r \in m_cancelled_requests,
           m_cancelled_requests' = m_cancelled_requests \ {r},
           UNCHANGED <<m_requests, m_cpu_requests, calls>>
    PROVE  QueueInv' /\ All' = All \ {r} /\ Pending' = Pending
<1>1. r \notin Pending
  BY DEF QueueInv
<1>2. All' = All \ {r} /\ Pending' = Pending /\ PendingNum' = PendingNum
  BY <1>1 DEF All, Pending, PendingNum
<1> QED
  BY <1>2 DEF QueueInv

(* The front request is presented.                                         *)
LEMMA FrontEffect ==
    ASSUME QueueInv, m_requests # <<>>, m_requests' = Tail(m_requests),
           UNCHANGED <<m_cpu_requests, m_cancelled_requests, calls>>
    PROVE  LET r == Head(m_requests) IN
           /\ QueueInv' /\ r \in Range(m_requests)
           /\ Range(m_requests') = Range(m_requests) \ {r}
           /\ Pending' = Pending \ {r} /\ All' = All \ {r}
           /\ PendingNum \in Nat \ {0} /\ PendingNum' = PendingNum - 1
<1> DEFINE r == Head(m_requests)
<1>1. m_requests \in Seq(Request) /\ Distinct(m_requests) /\ IsFiniteSet(m_cpu_requests)
  BY DEF QueueInv
<1>2. /\ m_requests' \in Seq(Request) /\ Len(m_requests') = Len(m_requests) - 1
      /\ Distinct(m_requests') /\ r \in Range(m_requests)
      /\ Range(m_requests') = Range(m_requests) \ {r}
  BY <1>1, TailOf
<1>3. r \notin m_cpu_requests /\ r \notin m_cancelled_requests
  BY <1>2 DEF QueueInv, Pending
<1> HIDE DEF r
<1>4. Pending' = Pending \ {r} /\ All' = All \ {r}
  BY <1>2, <1>3 DEF Pending, All
<1>5. PendingNum \in Nat \ {0} /\ PendingNum' = PendingNum - 1
  <2>1. /\ Cardinality(m_cpu_requests) \in Nat /\ Len(m_requests) \in Nat /\ Len(m_requests) # 0
    BY <1>1, FS_CardinalityType, InRange
  <2> QED
    BY <1>2, <2>1 DEF PendingNum
<1>6. QueueInv'
  <2>1. PendingNum' <= Capacity
    BY <1>5, FlipAssumption DEF QueueInv
  <2> QED
    BY <1>2, <1>4, <2>1 DEF QueueInv
<1> QED
  BY <1>2, <1>4, <1>5, <1>6 DEF r

-----------------------------------------------------------------------------
(* What each part of the invariant does not depend on.                     *)
LEMMA QueueFrame ==
    ASSUME QueueInv, calls \in Nat, calls' \in {calls, calls + 1}, UNCHANGED queues
    PROVE  QueueInv' /\ calls <= calls'
<1>1. \A r \in All : r.id \in Nat
  BY RequestIds
<1>2. \A r \in All : r.id <= calls'
  BY <1>1 DEF QueueInv
<1> QED
  BY <1>2 DEF QueueInv, All, Pending, PendingNum, queues

LEMMA StageFrame ==
    ASSUME StageInv, UNCHANGED <<queues, show>>
    PROVE  StageInv'
  BY DEF StageInv, All, Pending, queues

LEMMA ShowFrame ==
    ASSUME ShowInv, UNCHANGED <<m_requests, show, m_processing>>
    PROVE  ShowInv'
  BY DEF ShowInv

LEMMA OneErrandFrame ==
    ASSUME OneErrand, TypeInv, calls' \in {calls, calls + 1}, UNCHANGED work
    PROVE  OneErrand'
<1>1. /\ \A c \in midway : c.id \in Nat
      /\ \A s \in Range(submissions) : s.id \in Nat
      /\ gpu.pc # "idle" => gpu.task.id \in Nat
      /\ calls \in Nat
  <2>1. Range(submissions) \subseteq Tasks
    BY InRange DEF TypeInv
  <2>2. (\A s \in Tasks : s.id \in Nat) /\ (\A c \in Calls : c.id \in Nat)
        /\ \A r \in Request : r.id \in Nat
    BY DEF Tasks, Calls, Request, Ids
  <2>3. midway \subseteq Calls /\ calls \in Nat
    BY FlipAssumption DEF TypeInv
  <2>4. gpu.pc # "idle" => gpu.task \in Tasks \cup Request
    BY DEF TypeInv
  <2> QED
    BY <2>1, <2>2, <2>3, <2>4
<1>2. /\ \A c \in midway : c.id <= calls'
      /\ \A s \in Range(submissions) : s.id <= calls'
      /\ gpu.pc # "idle" => gpu.task.id <= calls'
  BY <1>1 DEF OneErrand
<1> QED
  BY <1>2 DEF OneErrand, work

LEMMA ErrandFrame ==
    ASSUME ErrandInv, UNCHANGED <<queues, work>>
    PROVE  ErrandInv'
  BY DEF ErrandInv, Awaits, Without, Completable, Carried, All, Pending, queues, work

(* Of a port, what flips and closes depend on.                             *)
SamePorts ==
    \A p \in Ports : /\ port'[p].opened = port[p].opened /\ port'[p].closing = port[p].closing
                     /\ port'[p].generation = port[p].generation
                     /\ port'[p].flipPendingNum = port[p].flipPendingNum
                     /\ port'[p].gcQueueNum = port[p].gcQueueNum

LEMMA PortFrame ==
    ASSUME PortInv, TypeInv, QueueInv, SamePorts, calls' \in {calls, calls + 1},
           UNCHANGED <<closer, m_requests, m_cpu_requests>>,
           gpu'.pc = "drop" => gpu' = gpu
    PROVE  PortInv'
<1>1. \A p \in Ports : port[p].generation \in Nat /\ port[p].generation <= calls'
  <2>1. \A p \in Ports : port[p].generation \in Nat /\ port[p].generation <= calls
    BY DEF PortInv, TypeInv, PortTypes
  <2>2. calls \in Nat
    BY FlipAssumption DEF TypeInv
  <2> QED
    BY <2>1, <2>2
<1>2. closer # NoClose => closer.port \in Ports
  BY DEF TypeInv
<1>3. \A r \in Pending : r.port \in Ports
  BY RequestIds DEF All, Request
<1>4. \A r \in Pending' : (Current(r) \/ Cancelling(r.port))'
  <2>1. Pending' = Pending
    BY DEF Pending
  <2> QED
    BY <1>3, <2>1 DEF PortInv, Current, Cancelling, SamePorts
<1>5. gpu'.pc = "drop" =>
         \A r \in Range(m_requests') : r.id = gpu'.task.id => Cancelling(r.port)'
  BY DEF PortInv, Cancelling
<1> QED
  BY <1>1, <1>2, <1>4, <1>5 DEF PortInv, SamePorts

(* The status of one port.                                                 *)
GpuOf(p) == {r \in IsOf(p) : r.source = "GpuEop"}
StatusOf(p) == /\ port[p].flipPendingNum >= Cardinality(IsOf(p))
               /\ port[p].gcQueueNum = Cardinality(GpuOf(p))

LEMMA StatusParts ==
    ASSUME TRUE
    PROVE  /\ StatusCovers <=> \A p \in Ports : closer.port # p => StatusOf(p)
           /\ StatusCovers' <=> \A p \in Ports : closer'.port # p => StatusOf(p)'
  BY DEF StatusCovers, StatusOf, GpuOf

LEMMA SameStatus ==
    ASSUME NEW q \in Ports, IsOf(q)' = IsOf(q), StatusCovers, closer.port # q,
           port'[q].flipPendingNum = port[q].flipPendingNum,
           port'[q].gcQueueNum = port[q].gcQueueNum
    PROVE  StatusOf(q)'
<1>1. GpuOf(q)' = GpuOf(q)
  BY DEF GpuOf
<1>2. StatusOf(q)
  BY StatusParts
<1> QED
  BY <1>1, <1>2 DEF StatusOf

LEMMA StatusFrame ==
    ASSUME StatusCovers, SamePorts, UNCHANGED <<closer, m_requests, m_cpu_requests>>
    PROVE  StatusCovers'
  BY DEF StatusCovers, SamePorts, IsOf, Pending

LEMMA FramesFrame ==
    ASSUME FramesOwned, UNCHANGED <<live, queues, gpu>>
    PROVE  FramesOwned'
  BY DEF FramesOwned, Pending, queues

(* The frames in use.                                                      *)
LEMMA FrameMembers ==
    FramesOwned <=>
        \A id : id \in live <=> \/ \E r \in All : r.frame /\ r.id = id
                                \/ gpu.pc = "attach" /\ id = gpu.task.id
  BY DEF FramesOwned, All

LEMMA FramesNow ==
    ASSUME \A id : id \in live' <=> \/ \E r \in All' : r.frame /\ r.id = id
                                    \/ gpu'.pc = "attach" /\ id = gpu'.task.id
    PROVE  FramesOwned'
<1> DEFINE framed == {r.id : r \in {q \in All' : q.frame}}
           coming == {id \in {gpu'.task.id} : gpu'.pc = "attach"}
<1>1. \A id : id \in framed <=> \E r \in All' : r.frame /\ r.id = id
  OBVIOUS
<1>2. \A id : id \in coming <=> gpu'.pc = "attach" /\ id = gpu'.task.id
  OBVIOUS
<1> HIDE DEF framed, coming
<1>3. live' = framed \cup coming
  BY <1>1, <1>2
<1> QED
  BY <1>3 DEF FramesOwned, framed, coming, All

(* One request for another that has a frame if and only if it has.         *)
LEMMA FramesKept ==
    ASSUME FramesOwned, live' = live, NEW r \in All, NEW u,
           gpu' = gpu \/ (gpu.pc # "attach" /\ gpu'.pc # "attach"),
           u.id = r.id, u.frame = r.frame, All' = (All \ {r}) \cup {u}
    PROVE  FramesOwned'
<1>1. \A id : id \in live <=> \/ \E q \in All : q.frame /\ q.id = id
                              \/ gpu.pc = "attach" /\ id = gpu.task.id
  BY FrameMembers
<1>2. ASSUME NEW id, NEW q \in All', q.frame, q.id = id
      PROVE  \E x \in All : x.frame /\ x.id = id
  <2>1. CASE q = u
    BY <1>2, <2>1
  <2>2. CASE q # u
    BY <1>2, <2>2
  <2> QED
    BY <2>1, <2>2
<1>3. ASSUME NEW id, NEW q \in All, q.frame, q.id = id
      PROVE  \E x \in All' : x.frame /\ x.id = id
  <2>1. CASE q = r
    <3>1. u \in All'
      OBVIOUS
    <3> QED
      BY <1>3, <2>1, <3>1
  <2>2. CASE q # r
    BY <1>3, <2>2
  <2> QED
    BY <2>1, <2>2
<1>4. \A id : (\E q \in All' : q.frame /\ q.id = id) <=> (\E q \in All : q.frame /\ q.id = id)
  BY <1>2, <1>3
<1> QED
  BY <1>1, <1>4, FramesNow

(* Where the GPU thread is.                                                *)
LEMMA GpuShape ==
    ASSUME TypeInv
    PROVE  /\ gpu = [pc |-> gpu.pc, task |-> gpu.task]
           /\ \A pc : Moves(pc) => gpu'.pc = pc /\ gpu'.task = gpu.task
                                   /\ gpu' = [pc |-> pc, task |-> gpu.task]
<1>1. gpu = [pc |-> gpu.pc, task |-> gpu.task]
  BY DEF TypeInv
<1> QED
  BY <1>1 DEF Moves

-----------------------------------------------------------------------------
(* The steps that leave the requests alone.                                *)

(* A step that changes nothing the parts of the invariant depend on.       *)
LEMMA QuietFrame ==
    ASSUME IndInv, TypeInv', SamePorts, calls' \in {calls, calls + 1},
           UNCHANGED <<queues, m_processing, work, show, closer, live>>
    PROVE  IndInv'
<1>1. UNCHANGED <<m_requests, m_cpu_requests, m_cancelled_requests, gpu>>
  BY DEF queues, work
<1>2. calls \in Nat
  BY FlipAssumption DEF IndInv, TypeInv
<1>3. QueueInv'
  BY <1>2, QueueFrame DEF IndInv
<1>4. StageInv'
  BY StageFrame DEF IndInv
<1>5. ShowInv'
  BY <1>1, ShowFrame DEF IndInv
<1>6. OneErrand'
  BY OneErrandFrame DEF IndInv
<1>7. ErrandInv'
  BY ErrandFrame DEF IndInv
<1>8. PortInv'
  BY <1>1, PortFrame DEF IndInv
<1>9. FramesOwned'
  BY <1>1, FramesFrame DEF IndInv
<1>10. StatusCovers'
  BY <1>1, StatusFrame DEF IndInv
<1> QED
  BY <1>3, <1>4, <1>5, <1>6, <1>7, <1>8, <1>9, <1>10 DEF IndInv

(* The process ends.                                                       *)
LEMMA ExitStep ==
    ASSUME IndInv, NEW reason, Exit(reason), calls' = calls,
           reason \in {"reopen", "rejected", "saturated", "unregistered", "closed"}
    PROVE  IndInv'
<1>1. UNCHANGED <<port, queues, m_processing, calls, work, show, closer, live>>
  BY DEF Exit
<1>2. TypeInv'
  BY <1>1 DEF Exit, IndInv, TypeInv, work
<1>3. SamePorts
  BY <1>1 DEF SamePorts
<1> QED
  BY <1>1, <1>2, <1>3, QuietFrame

LEMMA RegisterBuffersStep ==
    ASSUME IndInv, NEW p \in Ports, RegisterBuffers(p) \/ UnregisterBuffers(p)
    PROVE  IndInv'
<1>1. /\ calls' = calls + 1 /\ calls < MaxCalls
      /\ UNCHANGED <<queues, m_processing, work, show, closer, live, fatal>>
      /\ \E surfaces \in SUBSET Surfaces : port' = [port EXCEPT ![p].surfaces = surfaces]
  BY DEF RegisterBuffers, UnregisterBuffers, GuestCall
<1>2. PICK surfaces \in SUBSET Surfaces : port' = [port EXCEPT ![p].surfaces = surfaces]
  BY <1>1
<1>3. port \in [Ports -> PortTypes] /\ calls \in 0..MaxCalls
  BY DEF IndInv, TypeInv
<1>4. port' \in [Ports -> PortTypes] /\ SamePorts
  BY <1>2, <1>3 DEF PortTypes, SamePorts
<1>5. TypeInv'
  BY <1>1, <1>3, <1>4, FlipAssumption DEF IndInv, TypeInv, work
<1> QED
  BY <1>1, <1>4, <1>5, QuietFrame

(* A step that changes the ports only.                                     *)
LEMMA PortsFrame ==
    ASSUME IndInv, TypeInv', PortInv', StatusCovers', calls' \in {calls, calls + 1},
           UNCHANGED <<queues, m_processing, work, show, live>>
    PROVE  IndInv'
<1>1. UNCHANGED <<m_requests, m_cpu_requests, m_cancelled_requests, gpu>>
  BY DEF queues, work
<1>2. calls \in Nat
  BY FlipAssumption DEF IndInv, TypeInv
<1>3. QueueInv'
  BY <1>2, QueueFrame DEF IndInv
<1>4. StageInv' /\ ShowInv'
  BY <1>1, StageFrame, ShowFrame DEF IndInv
<1>5. OneErrand'
  BY OneErrandFrame DEF IndInv
<1>6. ErrandInv'
  BY ErrandFrame DEF IndInv
<1>7. FramesOwned'
  BY <1>1, FramesFrame DEF IndInv
<1> QED
  BY <1>3, <1>4, <1>5, <1>6, <1>7 DEF IndInv

(* A port that is not open has pending requests only while Close cancels   *)
(* them.                                                                   *)
LEMMA NoneOfClosed ==
    ASSUME PortInv, QueueInv, NEW p \in Ports, ~port[p].opened, ~Cancelling(p)
    PROVE  IsOf(p) = {}
<1>1. \A r \in Pending : Current(r) \/ Cancelling(r.port)
  BY DEF PortInv
<1>2. \A r \in Pending : r.port # p
  BY <1>1 DEF Current
<1> QED
  BY <1>2 DEF IsOf

LEMMA OpenStep ==
    ASSUME IndInv, NEW p \in Ports, Open(p)
    PROVE  IndInv'
<1>1. /\ calls' = calls + 1 /\ calls < MaxCalls /\ ~port[p].opened /\ closer = NoClose
      /\ UNCHANGED <<queues, m_processing, work, show, closer, live>>
  BY DEF Open, GuestCall
<1>2. port \in [Ports -> PortTypes] /\ calls \in 0..MaxCalls /\ MaxCalls \in Nat
  BY FlipAssumption DEF IndInv, TypeInv
<1>3. CASE fatal' = "reopen" /\ UNCHANGED port
  <2>1. TypeInv'
    BY <1>1, <1>2, <1>3 DEF IndInv, TypeInv, work
  <2>2. SamePorts
    BY <1>3 DEF SamePorts
  <2> QED
    BY <1>1, <2>1, <2>2, QuietFrame
<1>4. CASE /\ port' = [port EXCEPT ![p] = [ClosedPort EXCEPT !.opened = TRUE,
                                              !.generation = port[p].generation + 1]]
           /\ UNCHANGED fatal
  <2> DEFINE fresh == [ClosedPort EXCEPT !.opened = TRUE,
                                         !.generation = port[p].generation + 1]
  <2>1. \A q \in Ports : port[q].generation \in Nat /\ port[q].generation <= calls
    BY <1>2 DEF IndInv, PortInv, PortTypes
  <2>2. fresh \in PortTypes
    <3>1. port[p].generation + 1 \in 0..MaxCalls
      BY <1>1, <1>2, <2>1
    <3>2. 0 \in 0..(Cycle - 1) /\ 0 \in 0..Capacity /\ 0 \in 0..2
      BY FlipAssumption DEF Cycle
    <3> QED
      BY <3>1, <3>2 DEF ClosedPort, PortTypes
  <2>3. /\ fresh.opened /\ ~fresh.closing /\ fresh.generation = port[p].generation + 1
        /\ fresh.flipPendingNum = 0 /\ fresh.gcQueueNum = 0
    BY DEF ClosedPort
  <2> HIDE DEF fresh
  <2>4. port' \in [Ports -> PortTypes]
        /\ \A q \in Ports : port'[q] = IF q = p THEN fresh ELSE port[q]
    BY <1>2, <1>4, <2>2 DEF fresh
  <2>5. TypeInv'
    BY <1>1, <1>2, <1>4, <2>4 DEF IndInv, TypeInv, work
  <2>6. ~Cancelling(p) /\ \A q \in Ports : ~Cancelling(q)
    BY <1>1 DEF Cancelling, NoClose
  <2>7. IsOf(p) = {}
    BY <1>1, <2>6, NoneOfClosed DEF IndInv
  <2>8. Pending' = Pending /\ \A r \in Pending : r.port \in Ports /\ r.port # p
    BY <1>1, <2>7, RequestIds DEF Pending, queues, IsOf, All, Request, IndInv
  <2>9. PortInv'
    <3>1. \A r \in Pending' : Current(r)'
      BY <2>4, <2>6, <2>8 DEF IndInv, PortInv, Current
    <3>2. \A q \in Ports : port'[q].generation <= calls'
      BY <1>1, <1>2, <2>1, <2>3, <2>4
    <3>3. gpu'.pc = "drop" => \A r \in Range(m_requests') : r.id # gpu'.task.id
      <4>1. UNCHANGED <<gpu, m_requests>>
        BY <1>1 DEF work, queues
      <4>2. \A r \in Range(m_requests) : r.port \in Ports
        BY <2>8 DEF Pending
      <4> QED
        BY <2>6, <4>1, <4>2 DEF IndInv, PortInv
    <3> QED
      BY <1>1, <2>3, <2>4, <3>1, <3>2, <3>3 DEF IndInv, PortInv
  <2>10. StatusCovers'
    <3>1. \A q \in Ports : IsOf(q)' = IsOf(q)
      BY <2>8 DEF IsOf
    <3>2. Cardinality(IsOf(p)) = 0 /\ Cardinality(GpuOf(p)) = 0
      <4>1. GpuOf(p) = {} /\ Cardinality({}) = 0
        BY <2>7, FS_EmptySet DEF GpuOf
      <4> QED
        BY <2>7, <4>1
    <3>3. GpuOf(p)' = GpuOf(p)
      BY <3>1 DEF GpuOf
    <3>4. StatusOf(p)'
      BY <2>3, <2>4, <3>1, <3>2, <3>3 DEF StatusOf
    <3>5. ASSUME NEW q \in Ports, q # p, closer'.port # q PROVE StatusOf(q)'
      BY <1>1, <2>4, <3>1, <3>5, SameStatus DEF IndInv
    <3> QED
      BY <3>4, <3>5, StatusParts
  <2> QED
    BY <1>1, <2>5, <2>9, <2>10, PortsFrame
<1> QED
  BY <1>3, <1>4 DEF Open

LEMMA CloseBeginStep ==
    ASSUME IndInv, NEW p \in Ports, CloseBegin(p)
    PROVE  IndInv'
<1>1. /\ calls' = calls + 1 /\ calls < MaxCalls /\ port[p].opened /\ closer = NoClose
      /\ port' = [port EXCEPT ![p].opened = FALSE, ![p].closing = TRUE,
                              ![p].generation = @ + 1, ![p].rate = 0, ![p].surfaces = {}]
      /\ closer' = [port |-> p, stage |-> "cancel"]
      /\ UNCHANGED <<queues, m_processing, work, show, live, fatal>>
  BY DEF CloseBegin, GuestCall
<1>2. port \in [Ports -> PortTypes] /\ calls \in 0..MaxCalls /\ MaxCalls \in Nat
  BY FlipAssumption DEF IndInv, TypeInv
<1>3. \A q \in Ports : port[q].generation \in Nat /\ port[q].generation <= calls
  BY <1>2 DEF IndInv, PortInv, PortTypes
<1>4. /\ ~port'[p].opened /\ port'[p].closing /\ port'[p].generation = port[p].generation + 1
      /\ port'[p] \in PortTypes
  <2>1. port[p].generation + 1 \in 0..MaxCalls
    BY <1>1, <1>2, <1>3
  <2>2. 0 \in 0..2 /\ {} \in SUBSET Surfaces
    OBVIOUS
  <2> QED
    BY <1>1, <1>2, <2>1, <2>2 DEF PortTypes
<1>5. \A q \in Ports : q # p => port'[q] = port[q]
  BY <1>1, <1>2
<1>6. port' \in [Ports -> PortTypes]
  BY <1>1, <1>2, <1>4, <1>5
<1>7. closer'.port = p /\ closer' \in [port : Ports, stage : {"cancel", "reset"}]
  BY <1>1
<1>8. TypeInv'
  BY <1>1, <1>2, <1>6, <1>7 DEF IndInv, TypeInv, work
<1>9. Pending' = Pending /\ \A r \in Pending : r.port \in Ports
  BY <1>1, RequestIds DEF Pending, queues, All, Request, IndInv
<1>10. \A q \in Ports : ~Cancelling(q) /\ closer.port # q
  BY <1>1, FlipAssumption DEF Cancelling, NoClose
<1>11. PortInv'
  <2>1. \A r \in Pending' : (Current(r) \/ Cancelling(r.port))'
    BY <1>1, <1>5, <1>9, <1>10 DEF IndInv, PortInv, Current, Cancelling
  <2>2. \A q \in Ports : port'[q].generation <= calls'
    BY <1>1, <1>2, <1>3, <1>4, <1>5
  <2>3. gpu'.pc = "drop" => \A r \in Range(m_requests') : r.id # gpu'.task.id
    <3>1. UNCHANGED <<gpu, m_requests>>
      BY <1>1 DEF work, queues
    <3>2. \A r \in Range(m_requests) : r.port \in Ports
      BY <1>9 DEF Pending
    <3> QED
      BY <1>10, <3>1, <3>2 DEF IndInv, PortInv
  <2>4. \A q \in Ports : (port[q].opened => ~port[q].closing)'
    BY <1>4, <1>5 DEF IndInv, PortInv
  <2>5. \A q \in Ports : ~port'[q].opened /\ closer'.port # q => port'[q].flipPendingNum = 0
    BY <1>5, <1>7, <1>10 DEF IndInv, PortInv
  <2> QED
    BY <1>4, <1>7, <2>1, <2>2, <2>3, <2>4, <2>5 DEF PortInv
<1>12. StatusCovers'
  <2>1. ASSUME NEW q \in Ports, q # p PROVE StatusOf(q)'
    <3>1. IsOf(q)' = IsOf(q)
      BY <1>9 DEF IsOf
    <3> QED
      BY <1>5, <1>10, <2>1, <3>1, SameStatus DEF IndInv
  <2> QED
    BY <1>7, <2>1, StatusParts
<1> QED
  BY <1>1, <1>8, <1>11, <1>12, PortsFrame

(* At the end of Close the port has no requests any more.                  *)
LEMMA CloseResetStep ==
    ASSUME IndInv, NEW p \in Ports, CloseReset(p)
    PROVE  IndInv'
<1>1. /\ closer = [port |-> p, stage |-> "reset"]
      /\ port' = [port EXCEPT ![p].flipPendingNum = 0, ![p].gcQueueNum = 0]
      /\ closer' = NoClose
      /\ UNCHANGED <<queues, m_processing, calls, work, show, live, fatal>>
  BY DEF CloseReset
<1>2. port \in [Ports -> PortTypes] /\ 0 \in 0..Capacity
  BY FlipAssumption DEF IndInv, TypeInv
<1>3. closer.port = p /\ closer # NoClose /\ \A q : ~Cancelling(q)
  BY <1>1 DEF NoClose, Cancelling
<1>4. ~port[p].opened
  BY <1>3 DEF IndInv, PortInv
<1>5. /\ port'[p].opened = port[p].opened /\ port'[p].closing = port[p].closing
      /\ port'[p].generation = port[p].generation
      /\ port'[p].flipPendingNum = 0 /\ port'[p].gcQueueNum = 0
      /\ port'[p] \in PortTypes
  BY <1>1, <1>2 DEF PortTypes
<1>6. \A q \in Ports : q # p => port'[q] = port[q]
  BY <1>1, <1>2
<1>7. port' \in [Ports -> PortTypes]
  BY <1>1, <1>2, <1>5, <1>6
<1>8. TypeInv'
  BY <1>1, <1>2, <1>7 DEF IndInv, TypeInv, work
<1>9. Pending' = Pending /\ \A r \in Pending : r.port \in Ports
  BY <1>1, RequestIds DEF Pending, queues, All, Request, IndInv
<1>10. IsOf(p) = {} /\ \A r \in Pending : r.port # p
  <2>1. IsOf(p) = {}
    BY <1>3, <1>4, NoneOfClosed DEF IndInv
  <2> QED
    BY <2>1 DEF IsOf
<1>11. PortInv'
  <2>1. \A r \in Pending' : Current(r)'
    BY <1>3, <1>6, <1>9, <1>10 DEF IndInv, PortInv, Current
  <2>2. \A q \in Ports : /\ port'[q].generation <= calls'
                         /\ (port[q].opened => ~port[q].closing)'
    BY <1>1, <1>5, <1>6 DEF IndInv, PortInv
  <2>3. gpu'.pc = "drop" => \A r \in Range(m_requests') : r.id # gpu'.task.id
    <3>1. UNCHANGED <<gpu, m_requests>>
      BY <1>1 DEF work, queues
    <3> QED
      BY <1>3, <3>1 DEF IndInv, PortInv
  <2>4. \A q \in Ports : ~port'[q].opened => port'[q].flipPendingNum = 0
    BY <1>3, <1>5, <1>6 DEF IndInv, PortInv
  <2> QED
    BY <1>1, <2>1, <2>2, <2>3, <2>4 DEF PortInv
<1>12. StatusCovers'
  <2>1. ASSUME NEW q \in Ports PROVE IsOf(q)' = IsOf(q)
    BY <1>9 DEF IsOf
  <2>2. StatusOf(p)'
    <3>1. GpuOf(p)' = {} /\ IsOf(p)' = {} /\ Cardinality({}) = 0
      BY <1>10, <2>1, FS_EmptySet DEF GpuOf
    <3> QED
      BY <1>5, <3>1 DEF StatusOf
  <2>3. ASSUME NEW q \in Ports, q # p PROVE StatusOf(q)'
    BY <1>3, <1>6, <2>1, <2>3, SameStatus DEF IndInv
  <2> QED
    BY <2>2, <2>3, StatusParts
<1> QED
  BY <1>1, <1>8, <1>11, <1>12, PortsFrame

(* A step of the present thread that leaves the requests alone.            *)
LEMMA PresentFrame ==
    ASSUME IndInv, TypeInv', ShowInv', SamePorts, show.pc # "presenting",
           UNCHANGED <<queues, calls, work, closer, live>>
    PROVE  IndInv'
<1>1. UNCHANGED <<m_requests, m_cpu_requests, m_cancelled_requests, gpu>>
  BY DEF queues, work
<1>2. calls \in Nat
  BY FlipAssumption DEF IndInv, TypeInv
<1>3. QueueInv'
  BY <1>2, QueueFrame DEF IndInv
<1>4. StageInv'
  BY <1>1 DEF IndInv, StageInv, All, Pending
<1>5. OneErrand'
  BY OneErrandFrame DEF IndInv
<1>6. ErrandInv'
  BY ErrandFrame DEF IndInv
<1>7. PortInv'
  BY <1>1, PortFrame DEF IndInv
<1>8. FramesOwned' /\ StatusCovers'
  BY <1>1, FramesFrame, StatusFrame DEF IndInv
<1> QED
  BY <1>3, <1>4, <1>5, <1>6, <1>7, <1>8 DEF IndInv

LEMMA VblankEndStep ==
    ASSUME IndInv, VblankEnd
    PROVE  IndInv'
<1>1. /\ show.pc = "vblank" /\ show' = [pc |-> "top", r |-> NoTask]
      /\ port' = [p \in Ports |-> IF port[p].opened
                                  THEN [port[p] EXCEPT !.vblank = (@ + 1) % Cycle]
                                  ELSE port[p]]
      /\ UNCHANGED <<queues, m_processing, calls, work, closer, live, fatal>>
  BY DEF VblankEnd, ShowAt
<1>2. port \in [Ports -> PortTypes]
  BY DEF IndInv, TypeInv
<1>3. ASSUME NEW v \in 0..(Cycle - 1) PROVE (v + 1) % Cycle \in 0..(Cycle - 1)
  <2>1. CASE Cycle = 6
    BY <2>1, <1>3
  <2>2. CASE Cycle = 2
    BY <2>2, <1>3
  <2> QED
    BY <2>1, <2>2 DEF Cycle
<1>4. \A p \in Ports : port[p].vblank \in 0..(Cycle - 1)
  BY <1>2 DEF PortTypes
<1>5. port' \in [Ports -> PortTypes] /\ SamePorts
  <2> SUFFICES ASSUME NEW p \in Ports
               PROVE  /\ port'[p] \in PortTypes
                      /\ port'[p].opened = port[p].opened
                      /\ port'[p].closing = port[p].closing
                      /\ port'[p].generation = port[p].generation
                      /\ port'[p].flipPendingNum = port[p].flipPendingNum
                      /\ port'[p].gcQueueNum = port[p].gcQueueNum
    BY <1>1 DEF SamePorts
  <2>1. PICK v \in 0..(Cycle - 1) : v = (port[p].vblank + 1) % Cycle
    BY <1>3, <1>4
  <2>2. port'[p] = IF port[p].opened THEN [port[p] EXCEPT !.vblank = v] ELSE port[p]
    BY <1>1, <2>1
  <2> QED
    BY <1>2, <2>2 DEF PortTypes
<1>6. TypeInv'
  BY <1>1, <1>5 DEF IndInv, TypeInv, work
<1>7. ShowInv'
  BY <1>1 DEF IndInv, ShowInv
<1> QED
  BY <1>1, <1>5, <1>6, <1>7, PresentFrame

LEMMA FlipPickStep ==
    ASSUME IndInv, FlipPick
    PROVE  IndInv'
<1>1. show.pc = "top" /\ ~m_processing /\ fatal = "none"
      /\ UNCHANGED <<port, queues, calls, work, closer, live>>
  BY DEF FlipPick, ShowAt, Alive, IndInv, ShowInv
<1>2. SamePorts
  BY <1>1 DEF SamePorts
<1>3. CASE /\ show' = [pc |-> "vblank", r |-> NoTask] /\ UNCHANGED <<m_processing, fatal>>
  <2>1. TypeInv'
    BY <1>1, <1>3 DEF IndInv, TypeInv, work
  <2>2. ShowInv'
    BY <1>1, <1>3 DEF ShowInv
  <2> QED
    BY <1>1, <1>2, <2>1, <2>2, PresentFrame
<1>4. CASE /\ m_requests # <<>> /\ Head(m_requests).state = "Ready"
           /\ show' = [pc |-> "picked", r |-> Head(m_requests)] /\ m_processing' = TRUE
           /\ fatal' = fatal
  <2>1. Head(m_requests) \in Request
    BY <1>4, InRange DEF IndInv, QueueInv
  <2>2. TypeInv'
    BY <1>1, <1>4, <2>1 DEF IndInv, TypeInv, work
  <2>3. ShowInv'
    BY <1>1, <1>4, <2>1 DEF ShowInv, queues
  <2> QED
    BY <1>1, <1>2, <2>2, <2>3, PresentFrame
<1> QED
  BY <1>1, <1>3, <1>4 DEF FlipPick

(* A step that hands an errand from one thread to another.                 *)
LEMMA HandoverFrame ==
    ASSUME IndInv, TypeInv', OneErrand', ErrandInv', SamePorts, calls' \in {calls, calls + 1},
           UNCHANGED <<queues, m_processing, gpu, show, closer, live>>
    PROVE  IndInv'
<1>1. UNCHANGED <<m_requests, m_cpu_requests, m_cancelled_requests>>
  BY DEF queues
<1>2. calls \in Nat
  BY FlipAssumption DEF IndInv, TypeInv
<1>3. QueueInv'
  BY <1>2, QueueFrame DEF IndInv
<1>4. StageInv' /\ ShowInv'
  BY <1>1, StageFrame, ShowFrame DEF IndInv
<1>5. PortInv'
  BY <1>1, PortFrame DEF IndInv
<1>6. FramesOwned' /\ StatusCovers'
  BY <1>1, FramesFrame, StatusFrame DEF IndInv
<1> QED
  BY <1>3, <1>4, <1>5, <1>6 DEF IndInv

(* What the errands' ids are.                                              *)
LEMMA ErrandIds ==
    ASSUME TypeInv
    PROVE  /\ calls \in Nat /\ Range(submissions) \subseteq Tasks
           /\ \A c \in Calls : c.id \in Ids /\ c.id \in Nat
           /\ \A s \in Tasks : s.id \in Ids /\ s.id \in Nat
           /\ \A c \in midway : c.id \in Nat
           /\ \A s \in Range(submissions) : s.id \in Nat
           /\ \A id \in Range(completions) : id \in Nat
           /\ gpu.pc # "idle" => gpu.task.id \in Ids /\ gpu.task.id \in Nat
<1>1. calls \in Nat /\ Range(submissions) \subseteq Tasks /\ Range(completions) \subseteq Ids
  BY InRange, FlipAssumption DEF TypeInv
<1>2. /\ \A s \in Tasks : s.id \in Ids
      /\ \A c \in Calls : c.id \in Ids
      /\ \A r \in Request : r.id \in Ids
      /\ \A id \in Ids : id \in Nat
  BY DEF Tasks, Calls, Request, Ids
<1>3. midway \subseteq Calls /\ (gpu.pc # "idle" => gpu.task \in Tasks \cup Request)
  BY DEF TypeInv
<1> QED
  BY <1>1, <1>2, <1>3

(* The id of a new guest call is on no errand and no request has it.       *)
LEMMA NewCall ==
    ASSUME IndInv, calls < MaxCalls, NEW id, id = calls + 1
    PROVE  /\ id \in Ids /\ id \in Nat /\ calls \in Nat /\ id \in 0..MaxCalls
           /\ \A c \in midway : c.id # id /\ c.id <= id
           /\ \A s \in Range(submissions) : s.id # id /\ s.id <= id
           /\ gpu.pc # "idle" => gpu.task.id # id /\ gpu.task.id <= id
           /\ Without(id)
<1>1. calls \in Nat /\ MaxCalls \in Nat
  BY ErrandIds, FlipAssumption DEF IndInv
<1>2. \A r \in All : r.id \in Nat /\ r.id <= calls
  BY RequestIds DEF IndInv, QueueInv
<1>3. /\ \A c \in midway : c.id \in Nat /\ c.id <= calls
      /\ \A s \in Range(submissions) : s.id \in Nat /\ s.id <= calls
      /\ gpu.pc # "idle" => gpu.task.id \in Nat /\ gpu.task.id <= calls
  BY ErrandIds DEF IndInv, OneErrand
<1> QED
  BY <1>1, <1>2, <1>3 DEF Without, Ids

LEMMA SetFlipRateStep ==
    ASSUME IndInv, NEW p \in Ports, NEW rate \in Rates, SetFlipRate(p, rate)
    PROVE  IndInv'
<1> DEFINE call == [op |-> "rate", id |-> calls', port |-> p, rate |-> rate]
<1>1. /\ calls' = calls + 1 /\ calls < MaxCalls /\ midway' = midway \cup {call}
      /\ UNCHANGED <<port, queues, m_processing, submissions, gpu, completions, show, closer,
                     live, fatal>>
  BY DEF SetFlipRate
<1>2. /\ calls' \in Ids /\ calls' \in 0..MaxCalls
      /\ \A c \in midway : c.id # calls' /\ c.id <= calls'
      /\ \A s \in Range(submissions) : s.id # calls' /\ s.id <= calls'
      /\ gpu.pc # "idle" => gpu.task.id # calls' /\ gpu.task.id <= calls'
      /\ calls' <= calls'
  BY <1>1, NewCall DEF IndInv
<1>3. call \in Calls /\ call.id = calls' /\ call.op = "rate"
  BY <1>2 DEF Calls
<1> HIDE DEF call
<1>4. TypeInv'
  BY <1>1, <1>2, <1>3 DEF IndInv, TypeInv
<1>5. OneErrand'
  BY <1>1, <1>2, <1>3 DEF IndInv, OneErrand
<1>6. ErrandInv'
  BY <1>1, <1>3 DEF IndInv, ErrandInv, Awaits, Without, Completable, Carried, All, Pending, queues
<1>7. SamePorts
  BY <1>1 DEF SamePorts
<1> QED
  BY <1>1, <1>4, <1>5, <1>6, <1>7, HandoverFrame

LEMMA WriteFlipRateStep ==
    ASSUME IndInv, NEW call \in midway, WriteFlipRate(call)
    PROVE  IndInv'
<1>1. /\ call.op = "rate" /\ midway' = midway \ {call}
      /\ port' = [port EXCEPT ![call.port].rate = call.rate]
      /\ UNCHANGED <<queues, m_processing, calls, submissions, gpu, completions, show, closer,
                     live, fatal>>
  BY DEF WriteFlipRate
<1>2. call.port \in Ports /\ call.rate \in 0..2
  BY <1>1, FlipAssumption DEF IndInv, TypeInv, Calls
<1>3. port \in [Ports -> PortTypes]
  BY DEF IndInv, TypeInv
<1>4. port' \in [Ports -> PortTypes] /\ SamePorts
  BY <1>1, <1>2, <1>3 DEF PortTypes, SamePorts
<1>5. TypeInv'
  BY <1>1, <1>4 DEF IndInv, TypeInv
<1>6. OneErrand'
  BY <1>1 DEF IndInv, OneErrand
<1>7. ErrandInv'
  BY <1>1 DEF IndInv, ErrandInv, Awaits, Without, Completable, Carried, All, Pending, queues
<1> QED
  BY <1>1, <1>4, <1>5, <1>6, <1>7, HandoverFrame

(* A task is queued for the GPU thread.                                    *)
LEMMA Queued ==
    ASSUME TypeInv, OneErrand, NEW s \in Tasks, submissions' = Append(submissions, s),
           \A u \in Range(submissions) : u.id # s.id
    PROVE  /\ submissions' \in Seq(Tasks) /\ Distinct(submissions')
           /\ Range(submissions') = Range(submissions) \cup {s}
           /\ \A t, u \in Range(submissions') : t.id = u.id => t = u
<1>1. submissions \in Seq(Tasks) /\ Distinct(submissions) /\ s \notin Range(submissions)
  BY DEF TypeInv, OneErrand
<1>2. /\ submissions' \in Seq(Tasks) /\ Distinct(submissions')
      /\ Range(submissions') = Range(submissions) \cup {s}
  BY <1>1, AppendNew
<1>3. \A t, u \in Range(submissions') : t.id = u.id => t = u
  BY <1>2 DEF OneErrand
<1> QED
  BY <1>2, <1>3

LEMMA SubmitFlipPreparationStep ==
    ASSUME IndInv, NEW call \in midway, SubmitFlipPreparation(call)
    PROVE  IndInv'
<1>1. /\ call.op = "prepare" /\ midway' = midway \ {call}
      /\ submissions' = Append(submissions, call)
      /\ UNCHANGED <<port, queues, m_processing, calls, gpu, completions, show, closer, live,
                     fatal>>
  BY DEF SubmitFlipPreparation
<1>2. call \in Tasks
  BY <1>1 DEF IndInv, TypeInv, Calls, Tasks
<1>3. /\ submissions' \in Seq(Tasks) /\ Distinct(submissions')
      /\ Range(submissions') = Range(submissions) \cup {call}
      /\ \A t, u \in Range(submissions') : t.id = u.id => t = u
  <2>1. \A u \in Range(submissions) : u.id # call.id
    BY DEF IndInv, OneErrand
  <2> QED
    BY <1>1, <1>2, <2>1, Queued DEF IndInv
<1>4. TypeInv'
  BY <1>1, <1>3 DEF IndInv, TypeInv
<1>5. OneErrand'
  BY <1>1, <1>3 DEF IndInv, OneErrand
<1>6. ErrandInv'
  BY <1>1, <1>3 DEF IndInv, ErrandInv, Awaits, Without, Completable, Carried, All, Pending, queues
<1>7. SamePorts
  BY <1>1 DEF SamePorts
<1> QED
  BY <1>1, <1>4, <1>5, <1>6, <1>7, HandoverFrame

LEMMA SubmitCommandsStep ==
    ASSUME IndInv, NEW p \in Ports, NEW index \in Indexes, NEW op \in {"flip", "wait"},
           SubmitCommands(p, index, op)
    PROVE  IndInv'
<1> DEFINE s == [op |-> op, id |-> calls', port |-> p, index |-> index]
<1>1. /\ calls' = calls + 1 /\ calls < MaxCalls /\ submissions' = Append(submissions, s)
      /\ UNCHANGED <<port, queues, m_processing, midway, gpu, completions, show, closer, live,
                     fatal>>
  BY DEF SubmitCommands
<1>2. /\ calls' \in Ids /\ calls' \in 0..MaxCalls
      /\ \A c \in midway : c.id # calls' /\ c.id <= calls'
      /\ \A u \in Range(submissions) : u.id # calls' /\ u.id <= calls'
      /\ gpu.pc # "idle" => gpu.task.id # calls' /\ gpu.task.id <= calls'
      /\ Without(calls') /\ calls' <= calls'
  BY <1>1, NewCall DEF IndInv
<1>3. s \in Tasks /\ s.id = calls' /\ s.op # "prepare"
  BY <1>2 DEF Tasks
<1> HIDE DEF s
<1>4. /\ submissions' \in Seq(Tasks) /\ Distinct(submissions')
      /\ Range(submissions') = Range(submissions) \cup {s}
      /\ \A t, u \in Range(submissions') : t.id = u.id => t = u
  BY <1>1, <1>2, <1>3, Queued DEF IndInv
<1>5. TypeInv'
  BY <1>1, <1>2, <1>4 DEF IndInv, TypeInv
<1>6. OneErrand'
  BY <1>1, <1>2, <1>3, <1>4 DEF IndInv, OneErrand
<1>7. ErrandInv'
  BY <1>1, <1>2, <1>3, <1>4
     DEF IndInv, ErrandInv, Awaits, Without, Completable, Carried, All, Pending, queues
<1>8. SamePorts
  BY <1>1 DEF SamePorts
<1> QED
  BY <1>1, <1>5, <1>6, <1>7, <1>8, HandoverFrame

(* A step of the GPU thread that leaves the requests alone.                *)
LEMMA GpuFrame ==
    ASSUME IndInv, TypeInv', OneErrand', ErrandInv', FramesOwned',
           UNCHANGED <<port, queues, m_processing, calls, show, closer>>,
           gpu'.pc = "drop" =>
               \A r \in Range(m_requests) : r.id = gpu'.task.id => Cancelling(r.port)
    PROVE  IndInv'
<1>1. UNCHANGED <<m_requests, m_cpu_requests, m_cancelled_requests>>
  BY DEF queues
<1>2. calls \in Nat /\ SamePorts
  BY FlipAssumption DEF IndInv, TypeInv, SamePorts
<1>3. QueueInv'
  BY <1>2, QueueFrame DEF IndInv
<1>4. StageInv' /\ ShowInv' /\ StatusCovers'
  BY <1>1, <1>2, StageFrame, ShowFrame, StatusFrame DEF IndInv
<1>5. PortInv'
  BY <1>1 DEF IndInv, PortInv, Current, Cancelling, Pending
<1> QED
  BY <1>3, <1>4, <1>5 DEF IndInv

(* The GPU thread goes on with its task.                                   *)
LEMMA SameTask ==
    ASSUME OneErrand, UNCHANGED <<midway, submissions, completions, calls>>, gpu.pc # "idle",
           gpu'.pc # "idle" => gpu'.task = gpu.task
    PROVE  OneErrand'
  BY DEF OneErrand

(* It takes the next.  No completion of that id is under way.              *)
LEMMA GpuTakeStep ==
    ASSUME IndInv, GpuTake
    PROVE  IndInv'
<1> DEFINE s == Head(submissions)
           pc == CASE s.op = "prepare" -> "prepare"
                   [] s.op = "flip" -> "reserve"
                   [] s.op = "wait" -> "wait"
<1>1. /\ gpu.pc = "idle" /\ submissions # <<>>
      /\ gpu' = [pc |-> pc, task |-> s] /\ submissions' = Tail(submissions)
      /\ UNCHANGED <<port, queues, m_processing, calls, midway, completions, show, closer,
                     live, fatal>>
  BY DEF GpuTake, GpuAt
<1>2. /\ submissions' \in Seq(Tasks) /\ Distinct(submissions')
      /\ s \in Tasks /\ s \in Range(submissions)
      /\ Range(submissions') = Range(submissions) \ {s}
  BY <1>1, TailOf DEF IndInv, TypeInv, OneErrand
<1> HIDE DEF s
<1>3. \/ s.op = "prepare" /\ pc = "prepare"
      \/ /\ s.op = "flip" /\ pc = "reserve" /\ s.port \in Ports /\ s.index \in Indexes
      \/ /\ s.op = "wait" /\ pc = "wait" /\ s.port \in Ports /\ s.index \in Indexes
  BY <1>2 DEF Tasks
<1> HIDE DEF pc
<1>4. gpu'.pc = pc /\ gpu'.task = s
  BY <1>1
<1>5. TypeInv'
  <2>1. \/ gpu' \in [pc : {"prepare"}, task : Tasks]
        \/ /\ gpu' \in [pc : {"reserve", "slot", "wait", "waiting"}, task : Tasks]
           /\ gpu'.task.port \in Ports /\ gpu'.task.index \in Indexes
    BY <1>1, <1>2, <1>3
  <2> QED
    BY <1>1, <1>2, <2>1 DEF IndInv, TypeInv
<1>6. s.id \notin Range(completions)
  <2> SUFFICES ASSUME s.id \in Range(completions) PROVE FALSE
    OBVIOUS
  <2>1. PICK r \in All : r.id = s.id /\ r.state = "Recording"
    BY DEF IndInv, ErrandInv, Completable, All, Pending
  <2>2. Awaits(s.id) \/ Without(s.id)
    BY <1>2 DEF IndInv, ErrandInv
  <2>3. \A q \in All : q.id = r.id => q = r
    BY DEF IndInv, QueueInv
  <2> QED
    BY <2>1, <2>2, <2>3 DEF Awaits, Without
<1>7. OneErrand'
  BY <1>1, <1>2, <1>4, <1>6 DEF IndInv, OneErrand
<1>8. ErrandInv'
  <2>1. /\ gpu'.pc = "prepare" => Awaits(gpu'.task.id)
        /\ gpu'.pc \in {"reserve", "slot", "wait", "waiting"} => Without(gpu'.task.id)
        /\ gpu'.pc \notin {"record", "drop", "attach"}
    BY <1>2, <1>3, <1>4 DEF IndInv, ErrandInv
  <2> QED
    BY <1>1, <1>2, <2>1
       DEF IndInv, ErrandInv, Awaits, Without, Completable, All, Pending, queues
<1>9. FramesOwned' /\ gpu'.pc # "drop"
  BY <1>1, <1>3, <1>4 DEF IndInv, FramesOwned, Pending, queues
<1> QED
  BY <1>1, <1>5, <1>7, <1>8, <1>9, GpuFrame

LEMMA WaitFlipDoneStep ==
    ASSUME IndInv, WaitFlipDone
    PROVE  IndInv'
<1>1. /\ gpu.pc = "wait"
      /\ UNCHANGED <<port, queues, m_processing, calls, midway, submissions, completions, show,
                     closer, live>>
      /\ \/ fatal' = "closed" /\ gpu' = gpu
         \/ Moves("waiting") /\ fatal' = fatal
  BY DEF WaitFlipDone, GpuAt
<1>2. /\ gpu'.task = gpu.task /\ gpu'.pc \in {"wait", "waiting"}
      /\ gpu' = [pc |-> gpu'.pc, task |-> gpu.task]
  <2>1. \/ gpu' = gpu
        \/ /\ gpu'.pc = "waiting" /\ gpu'.task = gpu.task
           /\ gpu' = [pc |-> "waiting", task |-> gpu.task]
    BY <1>1, GpuShape DEF IndInv
  <2>2. gpu = [pc |-> gpu.pc, task |-> gpu.task]
    BY GpuShape DEF IndInv
  <2> QED
    BY <1>1, <2>1, <2>2
<1>3. /\ gpu.task \in Tasks /\ gpu.task.port \in Ports /\ gpu.task.index \in Indexes
  BY <1>1 DEF IndInv, TypeInv
<1>4. TypeInv'
  <2>1. gpu' \in [pc : {"reserve", "slot", "wait", "waiting"}, task : Tasks]
    BY <1>2, <1>3
  <2> QED
    BY <1>1, <1>2, <1>3, <2>1 DEF IndInv, TypeInv
<1>5. OneErrand'
  BY <1>1, <1>2, SameTask DEF IndInv
<1>6. ErrandInv'
  BY <1>1, <1>2 DEF IndInv, ErrandInv, Awaits, Without, Completable, All, Pending, queues
<1>7. FramesOwned' /\ gpu'.pc # "drop"
  BY <1>1, <1>2 DEF IndInv, FramesOwned, Pending, queues
<1> QED
  BY <1>1, <1>4, <1>5, <1>6, <1>7, GpuFrame

(* The GPU thread is free again.                                           *)
LEMMA WaitReturnsStep ==
    ASSUME IndInv, WaitReturns
    PROVE  IndInv'
<1>1. /\ gpu.pc = "waiting" /\ gpu' = [pc |-> "idle", task |-> NoTask] /\ gpu'.pc = "idle"
      /\ UNCHANGED <<port, queues, m_processing, calls, midway, submissions, completions, show,
                     closer, live, fatal>>
  BY DEF WaitReturns, GpuAt
<1>2. TypeInv'
  BY <1>1 DEF IndInv, TypeInv
<1>3. OneErrand'
  BY <1>1, SameTask DEF IndInv
<1>4. ErrandInv'
  BY <1>1 DEF IndInv, ErrandInv, Awaits, Without, Completable, All, Pending, queues
<1>5. FramesOwned'
  BY <1>1 DEF IndInv, FramesOwned, Pending, queues
<1> QED
  BY <1>1, <1>2, <1>3, <1>4, <1>5, GpuFrame

LEMMA WaitForSubmitSlotStep ==
    ASSUME IndInv, WaitForSubmitSlot
    PROVE  IndInv'
<1>1. CASE Exit("saturated")
  <2>1. calls' = calls
    BY <1>1 DEF Exit
  <2> QED
    BY <1>1, <2>1, ExitStep
<1>2. CASE /\ Moves("reserve")
           /\ UNCHANGED <<port, queues, m_processing, calls, midway, submissions,
                          completions, show, closer, live, fatal>>
  <2>1. gpu.pc = "slot"
    BY DEF WaitForSubmitSlot, GpuAt
  <2>2. /\ gpu'.pc = "reserve" /\ gpu'.task = gpu.task
        /\ gpu' = [pc |-> "reserve", task |-> gpu.task]
    BY <1>2, GpuShape DEF IndInv
  <2>3. gpu.task \in Tasks /\ gpu.task.port \in Ports /\ gpu.task.index \in Indexes
    BY <2>1 DEF IndInv, TypeInv
  <2>4. TypeInv'
    <3>1. gpu' \in [pc : {"reserve", "slot", "wait", "waiting"}, task : Tasks]
      BY <2>2, <2>3
    <3> QED
      BY <1>2, <2>2, <2>3, <3>1 DEF IndInv, TypeInv
  <2>5. OneErrand'
    BY <1>2, <2>1, <2>2, SameTask DEF IndInv
  <2>6. ErrandInv'
    BY <1>2, <2>1, <2>2
       DEF IndInv, ErrandInv, Awaits, Without, Completable, All, Pending, queues
  <2>7. FramesOwned'
    BY <1>2, <2>1, <2>2 DEF IndInv, FramesOwned, Pending, queues
  <2> QED
    BY <1>2, <2>2, <2>4, <2>5, <2>6, <2>7, GpuFrame
<1> QED
  BY <1>1, <1>2 DEF WaitForSubmitSlot

-----------------------------------------------------------------------------
(* A request is reserved.                                                  *)

(* The status of the ports counts a new request.                           *)
LEMMA ReserveStatus ==
    ASSUME IndInv, NEW p \in Ports, NEW r \in Request, r.port = p, r \notin All,
           Pending' = Pending \cup {r}, PendingNum < Capacity, CountReserved(p, r.source),
           closer = NoClose, closer' = closer
    PROVE  StatusCovers' /\ port' \in [Ports -> PortTypes]
<1>1. PendingNum \in Nat /\ Capacity \in Nat
      /\ \A S : S \subseteq Pending => IsFiniteSet(S) /\ Cardinality(S) \in 0..PendingNum
  BY PendingCount, FlipAssumption DEF IndInv, QueueInv
<1>2. /\ IsFiniteSet(IsOf(p)) /\ Cardinality(IsOf(p)) \in 0..PendingNum
      /\ IsFiniteSet(GpuOf(p)) /\ Cardinality(GpuOf(p)) \in 0..PendingNum
  BY <1>1 DEF IsOf, GpuOf
<1>3. r \notin IsOf(p) /\ r \notin GpuOf(p)
  BY DEF All, IsOf, GpuOf
<1>4. IsOf(p)' = IsOf(p) \cup {r}
  BY DEF IsOf
<1>5. Cardinality(IsOf(p)') = Cardinality(IsOf(p)) + 1
  BY <1>2, <1>3, <1>4, FS_AddElement
<1>6. GpuOf(p)' = IF r.source = "GpuEop" THEN GpuOf(p) \cup {r} ELSE GpuOf(p)
  BY <1>4 DEF GpuOf
<1>7. Cardinality(GpuOf(p)') = IF r.source = "GpuEop" THEN Cardinality(GpuOf(p)) + 1
                               ELSE Cardinality(GpuOf(p))
  BY <1>2, <1>3, <1>6, FS_AddElement
<1>8. StatusOf(p) /\ \A q \in Ports : closer.port # q
  BY StatusParts, FlipAssumption DEF IndInv, NoClose
<1>9. port \in [Ports -> PortTypes]
  BY DEF IndInv, TypeInv
<1>10. /\ port'[p].flipPendingNum = PendingNum + 1
       /\ port'[p].gcQueueNum = IF r.source = "GpuEop" THEN port[p].gcQueueNum + 1
                                ELSE port[p].gcQueueNum
  BY <1>9 DEF CountReserved, PortTypes
<1>11. \A q \in Ports : q # p => port'[q] = port[q]
  BY <1>9 DEF CountReserved
<1>12. StatusOf(p)'
  BY <1>1, <1>2, <1>5, <1>7, <1>8, <1>10 DEF StatusOf
<1>13. port' \in [Ports -> PortTypes]
  <2>1. PendingNum + 1 \in 0..Capacity
    BY <1>1
  <2>2. (IF r.source = "GpuEop" THEN port[p].gcQueueNum + 1 ELSE port[p].gcQueueNum)
            \in 0..Capacity
    BY <1>1, <1>2, <1>8 DEF StatusOf
  <2>3. port'[p] = [port[p] EXCEPT !.flipPendingNum = PendingNum + 1,
                                   !.gcQueueNum = IF r.source = "GpuEop" THEN @ + 1 ELSE @]
    BY <1>9 DEF CountReserved
  <2>4. port'[p] \in PortTypes
    <3> DEFINE gc == IF r.source = "GpuEop" THEN port[p].gcQueueNum + 1
                     ELSE port[p].gcQueueNum
               n == PendingNum + 1
    <3>1. port'[p] = [port[p] EXCEPT !.flipPendingNum = n, !.gcQueueNum = gc]
      BY <1>9, <2>3 DEF PortTypes
    <3>2. gc \in 0..Capacity /\ n \in 0..Capacity
      BY <2>1, <2>2
    <3> HIDE DEF gc, n
    <3> QED
      BY <1>9, <3>1, <3>2 DEF PortTypes
  <2>5. port' \in [Ports -> PortTypes]
    BY <1>9, <1>11, <2>4 DEF CountReserved
  <2> QED
    BY <2>5
<1>14. ASSUME NEW q \in Ports, q # p PROVE StatusOf(q)'
  <2>1. IsOf(q)' = IsOf(q)
    BY <1>14 DEF IsOf
  <2> QED
    BY <1>8, <1>11, <1>14, <2>1, SameStatus DEF IndInv
<1> QED
  BY <1>12, <1>13, <1>14, StatusParts

(* The rest of what a reservation leaves true.                             *)
LEMMA ReserveFrame ==
    ASSUME IndInv, NEW p \in Ports, NEW r \in Request, r.port = p, r \notin All,
           r.state = "Reserved", ~r.frame, Current(r), closer = NoClose,
           All' = All \cup {r}, Pending' = Pending \cup {r},
           Range(m_requests) \subseteq Range(m_requests'),
           m_requests # <<>> => m_requests' # <<>> /\ Head(m_requests') = Head(m_requests),
           \A q \in m_cpu_requests' : q \in m_cpu_requests \/ (q = r /\ q.source = "Cpu"),
           CountReserved(p, r.source), calls' \in {calls, calls + 1},
           UNCHANGED <<m_processing, show, closer>>,
           gpu'.pc = "drop" => gpu' = gpu /\ m_requests' = m_requests
    PROVE  StageInv' /\ ShowInv' /\ PortInv'
<1>1. StageInv'
  <2>1. \A q \in All' : /\ q.state = "Reserved" => ~q.frame
                        /\ q.state \in {"Ready", "Presenting"} =>
                                q.frame /\ q \in Range(m_requests')
    BY DEF IndInv, StageInv
  <2>2. ASSUME NEW q \in All', q.state = "Presenting"
        PROVE  show'.pc = "presenting" /\ q = Head(m_requests')
    <3>1. q \in All
      BY <2>2
    <3>2. show.pc = "presenting" /\ q = Head(m_requests)
      BY <2>2, <3>1 DEF IndInv, StageInv
    <3> QED
      BY <3>2 DEF IndInv, ShowInv
  <2>3. \A q \in m_cpu_requests' : q.state = "Reserved" /\ q.source = "Cpu"
    BY DEF IndInv, StageInv
  <2> QED
    BY <2>1, <2>2, <2>3 DEF StageInv
<1>2. ShowInv'
  BY DEF IndInv, ShowInv
<1>3. PortInv'
  <2>1. port \in [Ports -> PortTypes] /\ calls \in Nat
    BY FlipAssumption DEF IndInv, TypeInv
  <2>2. \A q \in Ports : /\ port'[q].opened = port[q].opened
                         /\ port'[q].closing = port[q].closing
                         /\ port'[q].generation = port[q].generation
    BY <2>1 DEF CountReserved, PortTypes
  <2>3. \A q \in Ports : q # p => port'[q] = port[q]
    BY <2>1 DEF CountReserved
  <2>4. \A q : ~Cancelling(q)
    BY DEF Cancelling, NoClose
  <2>5. \A q \in Pending' : Current(q)'
    <3>1. \A q \in Pending' : Current(q) /\ q.port \in Ports
      BY <2>4, RequestIds DEF IndInv, PortInv, All, Request
    <3> QED
      BY <2>2, <3>1 DEF Current
  <2>6. \A q \in Ports : port'[q].generation <= calls' /\ (port'[q].opened => ~port'[q].closing)
    <3>1. \A q \in Ports : port[q].generation \in Nat /\ port[q].generation <= calls
      BY <2>1 DEF IndInv, PortInv, PortTypes
    <3>2. \A q \in Ports : port'[q].generation <= calls'
      BY <2>1, <2>2, <3>1
    <3> QED
      BY <2>2, <3>2 DEF IndInv, PortInv
  <2>7. \A q \in Ports : ~port'[q].opened => q # p /\ closer.port # q
    BY <2>2, FlipAssumption DEF Current, NoClose
  <2>8. \A q \in Ports : ~port'[q].opened => port'[q].flipPendingNum = 0
    BY <2>2, <2>3, <2>7 DEF IndInv, PortInv
  <2>9. gpu'.pc = "drop" => \A q \in Range(m_requests') : q.id # gpu'.task.id
    BY <2>4 DEF IndInv, PortInv
  <2> QED
    BY <2>5, <2>6, <2>8, <2>9 DEF PortInv
<1> QED
  BY <1>1, <1>2, <1>3

LEMMA SubmitFlipStep ==
    ASSUME IndInv, NEW p \in Ports, NEW index \in Indexes, SubmitFlip(p, index)
    PROVE  IndInv'
<1> PICK id : id = calls'
  OBVIOUS
<1> PICK r : r = Reserved(id, p, index, "Cpu")
  OBVIOUS
<1> PICK call : call = [op |-> "prepare", id |-> id]
  OBVIOUS
<1>1. /\ calls' = calls + 1 /\ calls < MaxCalls /\ closer = NoClose /\ MayReserve(p, index)
      /\ ~QueueFull /\ CountReserved(p, "Cpu") /\ midway' = midway \cup {call}
      /\ UNCHANGED <<m_requests, m_cancelled_requests, m_processing, submissions, gpu,
                     completions, show, closer, live, fatal>>
  BY DEF SubmitFlip, GuestCall
<1>2. /\ QueueInv' /\ r.id = id /\ \A q \in All : q.id # r.id
      /\ m_cpu_requests' = m_cpu_requests \cup {r} /\ PendingNum \in Nat
  BY SubmitFlipEffect DEF IndInv
<1>3. /\ id \in Ids /\ id \in 0..MaxCalls
      /\ \A c \in midway : c.id # id /\ c.id <= id
      /\ \A s \in Range(submissions) : s.id # id /\ s.id <= id
      /\ gpu.pc # "idle" => gpu.task.id # id /\ gpu.task.id <= id
      /\ id <= id
  BY <1>1, NewCall DEF IndInv
<1>4. /\ r \in Request /\ r.port = p /\ r.source = "Cpu" /\ r.state = "Reserved" /\ ~r.frame
      /\ r.generation = port[p].generation
  BY <1>3, ReservedIsNew DEF IndInv
<1>5. call \in Calls /\ call.id = id /\ call.op = "prepare"
  BY <1>3 DEF Calls
<1>6. r \notin All
  BY <1>2
<1>7. Pending' = Pending \cup {r} /\ All' = All \cup {r}
  BY <1>1, <1>2 DEF Pending, All
<1>8. Current(r)
  BY <1>1, <1>4 DEF Current, MayReserve
<1>9. PendingNum < Capacity
  BY <1>1, <1>2, FlipAssumption DEF QueueFull
<1>10. StatusCovers' /\ port' \in [Ports -> PortTypes]
  BY <1>1, <1>4, <1>6, <1>7, <1>9, ReserveStatus
<1>11. StageInv' /\ ShowInv' /\ PortInv'
  BY <1>1, <1>2, <1>4, <1>6, <1>7, <1>8, ReserveFrame
<1>12. TypeInv'
  BY <1>1, <1>3, <1>5, <1>10 DEF IndInv, TypeInv
<1>13. OneErrand'
  BY <1>1, <1>3, <1>5 DEF IndInv, OneErrand
<1>14. ErrandInv'
  <2>1. \A i : Awaits(i) => Awaits(i)'
    BY <1>7 DEF Awaits
  <2>2. \A i : Without(i) /\ i # id => Without(i)'
    BY <1>2, <1>7 DEF Without
  <2>3. \A i : Completable(i) => Completable(i)'
    BY <1>1 DEF Completable
  <2>4. Awaits(id)'
    BY <1>2, <1>4, <1>7 DEF Awaits
  <2>5. \A c \in midway' : c.op = "prepare" => Awaits(c.id)'
    BY <1>1, <1>5, <2>1, <2>4 DEF IndInv, ErrandInv
  <2>6. \A s \in Range(submissions') : /\ s.op = "prepare" => Awaits(s.id)'
                                       /\ s.op # "prepare" => Without(s.id)'
    BY <1>1, <1>3, <2>1, <2>2 DEF IndInv, ErrandInv
  <2>7. (/\ gpu.pc = "prepare" => Awaits(gpu.task.id)
         /\ gpu.pc \in {"reserve", "slot", "wait", "waiting"} => Without(gpu.task.id))'
    BY <1>1, <1>3, <2>1, <2>2 DEF IndInv, ErrandInv
  <2>8. (gpu.pc \in {"record", "drop", "attach"} =>
            /\ gpu.task.state = "Reserved" /\ ~gpu.task.frame
            /\ Carried \in Range(m_requests) \cup m_cancelled_requests)'
    BY <1>1 DEF IndInv, ErrandInv, Carried
  <2>9. \A i \in Range(completions') : Completable(i)'
    BY <1>1, <2>3 DEF IndInv, ErrandInv
  <2> QED
    BY <2>5, <2>6, <2>7, <2>8, <2>9 DEF ErrandInv
<1>15. FramesOwned'
  BY <1>1, <1>4, <1>7 DEF IndInv, FramesOwned, All
<1> QED
  BY <1>2, <1>10, <1>11, <1>12, <1>13, <1>14, <1>15 DEF IndInv

(* A flip at end of pipe that finds the queue full waits for a slot.       *)
LEMMA GpuReserveWaits ==
    ASSUME IndInv, GpuReserve, Moves("slot"), UNCHANGED <<port, m_requests, fatal>>
    PROVE  IndInv'
<1>1. /\ gpu.pc = "reserve"
      /\ UNCHANGED <<port, queues, m_processing, calls, midway, submissions, completions, show,
                     closer, live, fatal>>
  BY DEF GpuReserve, GpuAt, queues
<1>2. gpu'.pc = "slot" /\ gpu'.task = gpu.task /\ gpu' = [pc |-> "slot", task |-> gpu.task]
  BY GpuShape DEF IndInv
<1>3. gpu.task \in Tasks /\ gpu.task.port \in Ports /\ gpu.task.index \in Indexes
  BY <1>1 DEF IndInv, TypeInv
<1>4. TypeInv'
  <2>1. gpu' \in [pc : {"reserve", "slot", "wait", "waiting"}, task : Tasks]
    BY <1>2, <1>3
  <2> QED
    BY <1>1, <1>2, <1>3, <2>1 DEF IndInv, TypeInv
<1>5. OneErrand'
  BY <1>1, <1>2, SameTask DEF IndInv
<1>6. ErrandInv'
  BY <1>1, <1>2 DEF IndInv, ErrandInv, Awaits, Without, Completable, All, Pending, queues
<1>7. FramesOwned' /\ gpu'.pc # "drop"
  BY <1>1, <1>2 DEF IndInv, FramesOwned, Pending, queues
<1> QED
  BY <1>1, <1>4, <1>5, <1>6, <1>7, GpuFrame

LEMMA GpuReserveQueues ==
    ASSUME IndInv, GpuReserve, Moves("prepare"), UNCHANGED fatal
    PROVE  IndInv'
<1> PICK t : t = gpu.task
  OBVIOUS
<1> PICK r : r = Reserved(t.id, t.port, t.index, "GpuEop")
  OBVIOUS
<1>1. gpu'.pc = "prepare" /\ gpu'.task = t /\ gpu' = [pc |-> "prepare", task |-> t]
  BY GpuShape DEF IndInv
<1>2. /\ gpu.pc = "reserve" /\ closer = NoClose
      /\ MayReserve(t.port, t.index) /\ ~QueueFull /\ CountReserved(t.port, "GpuEop")
      /\ UNCHANGED <<m_cpu_requests, m_cancelled_requests, m_processing, calls, midway,
                     submissions, completions, show, closer, live>>
  <2>1. gpu.pc = "reserve" /\ ~Exit("rejected")
    <3>1. gpu.pc = "reserve"
      BY DEF GpuReserve, GpuAt
    <3> QED
      BY <1>1, <3>1 DEF Exit, work
  <2>2. ~Moves("slot")
    <3>1. Moves("slot") => gpu'.pc = "slot"
      BY GpuShape DEF IndInv
    <3> QED
      BY <1>1, <3>1
  <2> QED
    BY <2>1, <2>2 DEF GpuReserve
<1>3. t \in Tasks /\ t.port \in Ports /\ t.index \in Indexes /\ t.id \in Ids
  BY <1>2, ErrandIds DEF IndInv, TypeInv
<1>4. /\ QueueInv' /\ r.id = t.id /\ \A q \in All : q.id # r.id
      /\ Range(m_requests') = Range(m_requests) \cup {r} /\ PendingNum \in Nat
      /\ m_requests # <<>> => m_requests' # <<>> /\ Head(m_requests') = Head(m_requests)
  BY <1>1, GpuReserveEffect DEF IndInv
<1>5. /\ r \in Request /\ r.port = t.port /\ r.source = "GpuEop" /\ r.state = "Reserved"
      /\ ~r.frame /\ r.generation = port[t.port].generation
  BY <1>3, ReservedIsNew DEF IndInv
<1>6. r \notin All
  BY <1>4
<1>7. Pending' = Pending \cup {r} /\ All' = All \cup {r}
  BY <1>2, <1>4 DEF Pending, All
<1>8. Current(r)
  BY <1>2, <1>5 DEF Current, MayReserve
<1>9. PendingNum < Capacity
  BY <1>2, <1>4, FlipAssumption DEF QueueFull
<1>10. StatusCovers' /\ port' \in [Ports -> PortTypes]
  BY <1>2, <1>3, <1>5, <1>6, <1>7, <1>9, ReserveStatus
<1>11. StageInv' /\ ShowInv' /\ PortInv'
  <2>1. gpu'.pc # "drop" /\ Range(m_requests) \subseteq Range(m_requests')
    BY <1>1, <1>4
  <2> QED
    BY <1>2, <1>3, <1>4, <1>5, <1>6, <1>7, <1>8, <2>1, ReserveFrame
<1>12. TypeInv'
  <2>1. gpu' \in [pc : {"prepare"}, task : Tasks]
    BY <1>1, <1>3
  <2> QED
    BY <1>2, <1>10, <2>1 DEF IndInv, TypeInv
<1>13. OneErrand'
  BY <1>1, <1>2, SameTask DEF IndInv
<1>14. ErrandInv'
  <2>1. \A id : Awaits(id) => Awaits(id)'
    BY <1>7 DEF Awaits
  <2>2. \A id : Without(id) /\ id # t.id => Without(id)'
    BY <1>4, <1>7 DEF Without
  <2>3. ASSUME NEW id, Completable(id) PROVE Completable(id)'
    <3>1. PICK q \in Range(m_requests) \cup m_cancelled_requests :
              q.id = id /\ q.state = "Recording" /\ (q \in Range(m_requests) => q.frame)
      BY <2>3 DEF Completable
    <3>2. q # r
      BY <1>5, <3>1
    <3> QED
      BY <1>2, <1>4, <3>1, <3>2 DEF Completable
  <2>4. Awaits(t.id)'
    BY <1>4, <1>5, <1>7 DEF Awaits
  <2>5. \A c \in midway' : c.op = "prepare" => Awaits(c.id)'
    BY <1>2, <2>1 DEF IndInv, ErrandInv
  <2>6. \A s \in Range(submissions') : /\ s.op = "prepare" => Awaits(s.id)'
                                       /\ s.op # "prepare" => Without(s.id)'
    <3>1. \A s \in Range(submissions) : s.id # t.id
      BY <1>2 DEF IndInv, OneErrand
    <3> QED
      BY <1>2, <2>1, <2>2, <3>1 DEF IndInv, ErrandInv
  <2>7. \A id \in Range(completions') : Completable(id)'
    BY <1>2, <2>3 DEF IndInv, ErrandInv
  <2> QED
    BY <1>1, <2>4, <2>5, <2>6, <2>7 DEF ErrandInv
<1>15. FramesOwned'
  BY <1>1, <1>2, <1>5, <1>7 DEF IndInv, FramesOwned, All
<1> QED
  BY <1>4, <1>10, <1>11, <1>12, <1>13, <1>14, <1>15 DEF IndInv

LEMMA GpuReserveStep ==
    ASSUME IndInv, GpuReserve
    PROVE  IndInv'
<1>1. CASE Exit("rejected")
  <2>1. calls' = calls
    BY <1>1 DEF Exit
  <2> QED
    BY <1>1, <2>1, ExitStep
<1>2. CASE Moves("slot") /\ UNCHANGED <<port, m_requests, fatal>>
  BY <1>2, GpuReserveWaits
<1>3. CASE Moves("prepare") /\ UNCHANGED fatal
  BY <1>3, GpuReserveQueues
<1> QED
  BY <1>1, <1>2, <1>3 DEF GpuReserve

-----------------------------------------------------------------------------
(* A request changes.                                                      *)

(* Only the request of id k is touched.                                    *)
Elsewhere(k) ==
    \A q : q.id # k => /\ q \in All' <=> q \in All
                       /\ q \in Range(m_requests') <=> q \in Range(m_requests)
                       /\ q \in m_cancelled_requests' <=> q \in m_cancelled_requests

LEMMA OthersSame ==
    ASSUME NEW k, Elsewhere(k), NEW i, i # k
    PROVE  /\ Awaits(i)' <=> Awaits(i)
           /\ Without(i)' <=> Without(i)
           /\ Completable(i)' <=> Completable(i)
<1>1. \A q : q.id = i => /\ q \in All' <=> q \in All
                         /\ q \in Range(m_requests') <=> q \in Range(m_requests)
                         /\ q \in m_cancelled_requests' <=> q \in m_cancelled_requests
  BY DEF Elsewhere
<1>2. Awaits(i)' <=> Awaits(i)
  BY <1>1 DEF Awaits
<1>3. Without(i)' <=> Without(i)
  BY <1>1 DEF Without
<1>4. Completable(i)' <=> Completable(i)
  BY <1>1 DEF Completable
<1> QED
  BY <1>2, <1>3, <1>4

(* What the GPU thread's errand needs.                                     *)
GpuErrand ==
    /\ gpu.pc = "prepare" => Awaits(gpu.task.id)
    /\ gpu.pc \in {"reserve", "slot", "wait", "waiting"} => Without(gpu.task.id)
    /\ gpu.pc \in {"record", "drop", "attach"} =>
          /\ gpu.task.state = "Reserved" /\ ~gpu.task.frame
          /\ Carried \in Range(m_requests) \cup m_cancelled_requests

LEMMA ErrandsElsewhere ==
    ASSUME IndInv, NEW k, Elsewhere(k), UNCHANGED <<midway, submissions>>, GpuErrand',
           (~Awaits(k) /\ ~Without(k)) \/ (gpu.pc # "idle" /\ k = gpu.task.id),
           \A i \in Range(completions') :
               (i \in Range(completions) /\ i # k) \/ Completable(i)'
    PROVE  ErrandInv'
<1>1. \A c \in midway : c.op = "prepare" => Awaits(c.id) /\ c.id # k
  BY DEF IndInv, OneErrand, ErrandInv
<1>2. \A s \in Range(submissions) : /\ s.op = "prepare" => Awaits(s.id) /\ s.id # k
                                    /\ s.op # "prepare" => Without(s.id) /\ s.id # k
  BY DEF IndInv, OneErrand, ErrandInv
<1>3. \A c \in midway' : c.op = "prepare" => Awaits(c.id)'
  BY <1>1, OthersSame
<1>4. \A s \in Range(submissions') : /\ s.op = "prepare" => Awaits(s.id)'
                                     /\ s.op # "prepare" => Without(s.id)'
  BY <1>2, OthersSame
<1>5. \A i \in Range(completions') : Completable(i)'
  BY OthersSame DEF IndInv, ErrandInv
<1> QED
  BY <1>3, <1>4, <1>5 DEF ErrandInv, GpuErrand

(* The GPU thread's errand is about another request.                       *)
LEMMA GpuElsewhere ==
    ASSUME IndInv, NEW k, Elsewhere(k), ~Awaits(k), ~Without(k), UNCHANGED gpu,
           gpu.pc \in {"record", "drop", "attach"} => gpu.task.id # k
    PROVE  GpuErrand'
<1>1. CASE gpu.pc = "prepare"
  <2>1. Awaits(gpu.task.id) /\ gpu.task.id # k
    BY <1>1 DEF IndInv, ErrandInv
  <2>2. (Awaits(gpu.task.id))'
    BY <2>1, OthersSame
  <2> QED
    BY <1>1, <2>2 DEF GpuErrand
<1>2. CASE gpu.pc \in {"reserve", "slot", "wait", "waiting"}
  <2>1. Without(gpu.task.id) /\ gpu.task.id # k
    BY <1>2 DEF IndInv, ErrandInv
  <2>2. (Without(gpu.task.id))'
    BY <2>1, OthersSame
  <2> QED
    BY <1>2, <2>2 DEF GpuErrand
<1>3. CASE gpu.pc \in {"record", "drop", "attach"}
  <2>1. /\ gpu.task.state = "Reserved" /\ ~gpu.task.frame
        /\ Carried \in Range(m_requests) \cup m_cancelled_requests
    BY <1>3 DEF IndInv, ErrandInv
  <2>2. Carried.id = gpu.task.id /\ Carried' = Carried
    BY <1>3, RequestUpdates DEF IndInv, TypeInv, Carried
  <2>3. Carried \in Range(m_requests') \cup m_cancelled_requests'
    BY <1>3, <2>1, <2>2 DEF Elsewhere
  <2> QED
    BY <1>3, <2>1, <2>2, <2>3 DEF GpuErrand
<1> QED
  BY <1>1, <1>2, <1>3 DEF GpuErrand

(* The front of the queue is not the request that changes.                 *)
LEMMA FrontStays ==
    ASSUME IndInv, NEW r, r.state \in {"Reserved", "Recording"},
           m_requests # <<>> => \/ Head(m_requests) = r
                                \/ m_requests' # <<>> /\ Head(m_requests') = Head(m_requests),
           UNCHANGED <<show, m_processing>>
    PROVE  /\ ShowInv'
           /\ \A q \in All : q.state = "Presenting" =>
                 show'.pc = "presenting" /\ q = Head(m_requests')
<1>1. show.pc \in {"picked", "presenting"} =>
         Head(m_requests).state \in {"Ready", "Presenting"}
  <2>1. CASE show.pc = "picked"
    BY <2>1 DEF IndInv, ShowInv
  <2>2. CASE show.pc = "presenting"
    <3>1. /\ show.r \in Request
          /\ Head(m_requests) = [show.r EXCEPT !.state = "Presenting"]
      BY <2>2 DEF IndInv, ShowInv
    <3>2. [show.r EXCEPT !.state = "Presenting"].state = "Presenting"
      BY <3>1 DEF Request
    <3> QED
      BY <3>1, <3>2
  <2> QED
    BY <2>1, <2>2
<1>2. show.pc \in {"picked", "presenting"} =>
         m_requests' # <<>> /\ Head(m_requests') = Head(m_requests)
  BY <1>1 DEF IndInv, ShowInv
<1>3. ShowInv'
  BY <1>2 DEF IndInv, ShowInv
<1>4. \A q \in All : q.state = "Presenting" => show.pc = "presenting" /\ q = Head(m_requests)
  BY DEF IndInv, StageInv
<1> QED
  BY <1>2, <1>3, <1>4

(* The ports and their status are about the same requests.                 *)
LEMMA ReplacePending ==
    ASSUME IndInv, NEW r \in Pending, NEW u, u \notin Pending,
           u.id = r.id, u.port = r.port, u.generation = r.generation, u.source = r.source,
           Pending' = (Pending \ {r}) \cup {u},
           UNCHANGED <<port, calls, closer>>,
           gpu'.pc = "drop" =>
               /\ gpu' = gpu /\ r \in Range(m_requests)
               /\ Range(m_requests') \subseteq Range(m_requests) \cup {u}
    PROVE  PortInv' /\ StatusCovers'
<1>1. PortInv'
  <2>1. \A q \in Pending' : Current(q)' \/ Cancelling(q.port)'
    BY DEF IndInv, PortInv, Current, Cancelling
  <2>2. (gpu.pc = "drop" =>
            \A q \in Range(m_requests) : q.id = gpu.task.id => Cancelling(q.port))'
    BY DEF IndInv, PortInv, Cancelling
  <2> QED
    BY <2>1, <2>2 DEF IndInv, PortInv, Cancelling
<1>2. \A S : S \subseteq Pending => IsFiniteSet(S)
  BY PendingCount DEF IndInv, QueueInv
<1>3. ASSUME NEW p \in Ports, closer'.port # p PROVE StatusOf(p)'
  <2>1. StatusOf(p) /\ port'[p] = port[p]
    BY <1>3, StatusParts DEF IndInv
  <2>2. CASE r.port # p
    <3>1. IsOf(p)' = IsOf(p)
      BY <2>2 DEF IsOf
    <3> QED
      BY <1>3, <3>1, SameStatus DEF IndInv
  <2>3. CASE r.port = p
    <3>1. r \in IsOf(p) /\ u \notin IsOf(p) /\ IsOf(p)' = (IsOf(p) \ {r}) \cup {u}
          /\ IsFiniteSet(IsOf(p)) /\ IsFiniteSet(GpuOf(p))
      BY <1>2, <2>3 DEF IsOf, GpuOf
    <3>2. Cardinality(IsOf(p)') = Cardinality(IsOf(p))
      BY <3>1, ExchangeCardinality
    <3>3. Cardinality(GpuOf(p)') = Cardinality(GpuOf(p))
      <4>1. CASE r.source = "GpuEop"
        <5>1. /\ r \in GpuOf(p) /\ u \notin GpuOf(p)
              /\ GpuOf(p)' = (GpuOf(p) \ {r}) \cup {u}
          BY <3>1, <4>1 DEF GpuOf
        <5> QED
          BY <3>1, <5>1, ExchangeCardinality
      <4>2. CASE r.source # "GpuEop"
        <5>1. GpuOf(p)' = GpuOf(p)
          BY <3>1, <4>2 DEF GpuOf
        <5> QED
          BY <5>1
      <4> QED
        BY <4>1, <4>2
    <3> QED
      BY <2>1, <3>2, <3>3 DEF StatusOf
  <2> QED
    BY <2>2, <2>3
<1> QED
  BY <1>1, <1>3, StatusParts

(* A deferred completion.                                                  *)
LEMMA DeferredErrand ==
    ASSUME IndInv, gpu.pc # "idle", Deferred, UNCHANGED <<midway, submissions, calls>>
    PROVE  /\ OneErrand' /\ completions' \in Seq(Ids)
           /\ Range(completions') = Range(completions) \cup {gpu.task.id}
           /\ gpu' = [pc |-> "idle", task |-> NoTask] /\ gpu'.pc = "idle" /\ GpuErrand'
<1>1. /\ completions' = Append(completions, gpu.task.id)
      /\ gpu' = [pc |-> "idle", task |-> NoTask] /\ gpu'.pc = "idle"
  BY DEF Deferred
<1>2. gpu.task.id \in Ids /\ gpu.task.id \notin Range(completions)
  BY ErrandIds DEF IndInv, OneErrand
<1>3. /\ completions' \in Seq(Ids) /\ Distinct(completions')
      /\ Range(completions') = Range(completions) \cup {gpu.task.id}
  BY <1>1, <1>2, AppendNew DEF IndInv, TypeInv, OneErrand
<1>4. OneErrand'
  BY <1>1, <1>3 DEF IndInv, OneErrand
<1>5. GpuErrand'
  BY <1>1 DEF GpuErrand
<1> QED
  BY <1>1, <1>3, <1>4, <1>5

-----------------------------------------------------------------------------
(* The GPU thread prepares a flip.                                         *)

(* The one request of the GPU thread's errand while it records the frame.  *)
LEMMA CarriedIsMine ==
    ASSUME IndInv, gpu.pc \in {"record", "drop", "attach"}
    PROVE  /\ Carried \in Request /\ Carried.id = gpu.task.id /\ Carried.state = "Recording"
           /\ ~Carried.frame /\ Carried \in All
           /\ Carried.port = gpu.task.port /\ Carried.generation = gpu.task.generation
           /\ Carried \in Range(m_requests) \cup m_cancelled_requests
           /\ \A q \in All : q.id = gpu.task.id => q = Carried
<1>1. gpu.task \in Request
  BY DEF IndInv, TypeInv
<1>2. /\ gpu.task.state = "Reserved" /\ ~gpu.task.frame
      /\ Carried \in Range(m_requests) \cup m_cancelled_requests
  BY DEF IndInv, ErrandInv
<1>3. /\ Carried \in Request /\ Carried.id = gpu.task.id /\ Carried.state = "Recording"
      /\ ~Carried.frame /\ Carried.port = gpu.task.port
      /\ Carried.generation = gpu.task.generation
  BY <1>1, <1>2 DEF Request, Carried
<1>4. Carried \in All
  BY <1>2 DEF All, Pending
<1>5. \A q \in All : q.id = Carried.id => q = Carried
  BY <1>4 DEF IndInv, QueueInv
<1> QED
  BY <1>2, <1>3, <1>4, <1>5

LEMMA PrepareRecordStep ==
    ASSUME IndInv, PrepareRecord
    PROVE  IndInv'
<1>1. /\ gpu.pc = "record"
      /\ UNCHANGED <<port, queues, m_processing, calls, midway, submissions, completions, show,
                     closer>>
  BY DEF PrepareRecord, GpuAt
<1>2. gpu.task \in Request /\ gpu.task.id \in Ids
  <2>1. gpu.task \in Request
    BY <1>1 DEF IndInv, TypeInv
  <2> QED
    BY <2>1 DEF Request
<1>3. CASE fatal' = "unregistered" /\ UNCHANGED <<gpu, live>>
  <2>1. UNCHANGED work
    BY <1>1, <1>3 DEF work
  <2>2. Exit("unregistered")
    BY <1>1, <1>3, <2>1 DEF Exit
  <2> QED
    BY <1>1, <2>2, ExitStep
<1>4. ASSUME NEW pc \in {"drop", "attach"}, Moves(pc), fatal' = fatal,
             live' = IF pc = "attach" THEN live \cup {gpu.task.id} ELSE live,
             pc = "drop" => ~Current(gpu.task)
      PROVE  IndInv'
  <2>1. gpu'.pc = pc /\ gpu'.task = gpu.task /\ gpu' = [pc |-> pc, task |-> gpu.task]
    BY <1>4, GpuShape DEF IndInv
  <2>2. TypeInv'
    <3>1. gpu' \in [pc : {"record", "drop", "attach"}, task : Request]
      BY <1>2, <2>1
    <3>2. live' \subseteq Ids
      BY <1>2, <1>4 DEF IndInv, TypeInv
    <3> QED
      BY <1>1, <1>4, <3>1, <3>2 DEF IndInv, TypeInv
  <2>3. OneErrand'
    BY <1>1, <2>1, SameTask DEF IndInv
  <2>4. ErrandInv'
    BY <1>1, <2>1
       DEF IndInv, ErrandInv, Awaits, Without, Completable, Carried, All, Pending, queues
  <2>5. FramesOwned'
    BY <1>1, <1>4, <2>1 DEF IndInv, FramesOwned, Pending, queues
  <2>6. ASSUME gpu'.pc = "drop", NEW q \in Range(m_requests), q.id = gpu'.task.id
        PROVE  Cancelling(q.port)
    <3>1. q \in Pending /\ q \in All
      BY DEF Pending, All
    <3>2. q = Carried /\ q.port = gpu.task.port /\ q.generation = gpu.task.generation
      BY <1>1, <2>1, <2>6, <3>1, CarriedIsMine
    <3>3. ~Current(q)
      BY <1>4, <2>1, <2>6, <3>2 DEF Current
    <3> QED
      BY <3>1, <3>3 DEF IndInv, PortInv
  <2> QED
    BY <1>1, <2>2, <2>3, <2>4, <2>5, <2>6, GpuFrame
<1>5. CASE ~Current(gpu.task) /\ Moves("drop") /\ UNCHANGED <<live, fatal>>
  BY <1>4, <1>5
<1>6. CASE live' = live \cup {gpu.task.id} /\ Moves("attach") /\ UNCHANGED fatal
  BY <1>4, <1>6
<1> QED
  BY <1>3, <1>5, <1>6 DEF PrepareRecord

(* The request the GPU thread was sent for is there, as it was reserved.   *)
LEMMA AwaitedIsThere ==
    ASSUME IndInv, gpu.pc = "prepare"
    PROVE  /\ \E r \in All : r.id = gpu.task.id /\ r.state = "Reserved" /\ ~r.frame
           /\ \A q, r \in All : q.id = gpu.task.id /\ r.id = gpu.task.id => q = r
<1>1. \E r \in All : r.id = gpu.task.id /\ r.state = "Reserved"
  BY DEF IndInv, ErrandInv, Awaits
<1> QED
  BY <1>1 DEF IndInv, StageInv, QueueInv

(* It is taken for recording.                                              *)
LEMMA PrepareBeginQueued ==
    ASSUME IndInv, gpu.pc = "prepare", NEW r \in WithId(Pending, gpu.task.id),
           r.state = "Reserved",
           m_requests' = IF r \in m_cpu_requests
                         THEN Append(m_requests, [r EXCEPT !.state = "Recording"])
                         ELSE InSequence([r EXCEPT !.state = "Recording"]),
           m_cpu_requests' = m_cpu_requests \ {r}, gpu' = [pc |-> "record", task |-> r],
           UNCHANGED <<port, m_cancelled_requests, m_processing, calls, midway, submissions,
                       completions, show, closer, live, fatal>>
    PROVE  IndInv'
<1> PICK u : u = [r EXCEPT !.state = "Recording"]
  OBVIOUS
<1> PICK k : k = gpu.task.id
  OBVIOUS
<1>1. r \in Pending /\ r \in All /\ r \in Request /\ r.id = k
  BY RequestIds DEF IndInv, WithId, All
<1>2. /\ u \in Request /\ u.id = r.id /\ u.port = r.port /\ u.generation = r.generation
      /\ u.index = r.index /\ u.source = r.source /\ u.frame = r.frame /\ u.state = "Recording"
  BY <1>1, RequestUpdates
<1>3. u # r /\ ~r.frame
  BY <1>1, <1>2 DEF IndInv, StageInv
<1>4. /\ QueueInv' /\ Pending' = (Pending \ {r}) \cup {u} /\ All' = (All \ {r}) \cup {u}
      /\ u \notin All /\ Range(m_requests') = (Range(m_requests) \ {r}) \cup {u}
      /\ m_requests # <<>> => \/ Head(m_requests) = r
                              \/ m_requests' # <<>> /\ Head(m_requests') = Head(m_requests)
  <2>1. CASE r \in m_cpu_requests
    <3>1. r \notin Range(m_requests)
      BY <2>1 DEF IndInv, QueueInv
    <3>2. /\ QueueInv /\ m_requests' = Append(m_requests, u)
          /\ m_cpu_requests' = m_cpu_requests \ {r}
          /\ UNCHANGED <<m_cancelled_requests, calls>>
      BY <2>1 DEF IndInv
    <3>3. /\ QueueInv' /\ Range(m_requests') = Range(m_requests) \cup {u}
          /\ Pending' = (Pending \ {r}) \cup {u} /\ All' = (All \ {r}) \cup {u}
          /\ u \notin All
          /\ m_requests # <<>> => m_requests' # <<>> /\ Head(m_requests') = Head(m_requests)
      BY <1>2, <1>3, <2>1, <3>2, TakeEffect
    <3> QED
      BY <3>1, <3>3
  <2>2. CASE r \notin m_cpu_requests
    <3>1. r \in Range(m_requests) /\ m_cpu_requests' = m_cpu_requests
      BY <1>1, <2>2 DEF Pending
    <3> QED
      BY <1>2, <1>3, <2>2, <3>1, ReplaceEffect DEF IndInv
  <2> QED
    BY <2>1, <2>2
<1>5. Elsewhere(k)
  BY <1>1, <1>2, <1>4 DEF Elsewhere
<1>6. gpu'.pc = "record" /\ gpu'.task = r
  OBVIOUS
<1>7. TypeInv'
  <2>1. gpu' \in [pc : {"record", "drop", "attach"}, task : Request]
    BY <1>1
  <2> QED
    BY <2>1 DEF IndInv, TypeInv
<1>8. OneErrand'
  BY <1>1, <1>6 DEF IndInv, OneErrand
<1>9. GpuErrand'
  <2>1. Carried' = u
    BY <1>6 DEF Carried
  <2> QED
    BY <1>3, <1>4, <1>6, <2>1 DEF GpuErrand
<1>10. ErrandInv'
  <2>1. \A i \in Range(completions') : i \in Range(completions) /\ i # k
    BY DEF IndInv, OneErrand
  <2> QED
    BY <1>5, <1>9, <2>1, ErrandsElsewhere
<1>11. ShowInv' /\ \A q \in All : q.state = "Presenting" =>
                      show'.pc = "presenting" /\ q = Head(m_requests')
  BY <1>4, FrontStays
<1>12. StageInv'
  <2>1. \A q \in m_cpu_requests' : q.state = "Reserved" /\ q.source = "Cpu"
    BY DEF IndInv, StageInv
  <2>2. ASSUME NEW q \in All'
        PROVE  /\ q.state = "Reserved" => ~q.frame
               /\ q.state \in {"Ready", "Presenting"} => q.frame /\ q \in Range(m_requests')
               /\ q.state = "Presenting" => show'.pc = "presenting" /\ q = Head(m_requests')
    BY <1>2, <1>4, <1>11 DEF IndInv, StageInv
  <2> QED
    BY <2>1, <2>2 DEF StageInv
<1>13. PortInv' /\ StatusCovers'
  <2>1. u \notin Pending
    BY <1>4 DEF All
  <2> QED
    BY <1>1, <1>2, <1>4, <1>6, <2>1, ReplacePending
<1>14. FramesOwned'
  <2>1. gpu.pc # "attach" /\ gpu'.pc # "attach" /\ live' = live
    BY <1>6
  <2> QED
    BY <1>1, <1>2, <1>4, <2>1, FramesKept DEF IndInv
<1> QED
  BY <1>4, <1>7, <1>8, <1>10, <1>11, <1>12, <1>13, <1>14 DEF IndInv

(* It was cancelled before: it is completed without a frame.               *)
LEMMA PrepareBeginGone ==
    ASSUME IndInv, gpu.pc = "prepare", NEW r \in WithId(m_cancelled_requests, gpu.task.id),
           r.state = "Reserved",
           m_cancelled_requests' = Among(m_cancelled_requests, [r EXCEPT !.state = "Recording"]),
           Deferred,
           UNCHANGED <<port, m_requests, m_cpu_requests, m_processing, calls, midway,
                       submissions, show, closer, live, fatal>>
    PROVE  IndInv'
<1> PICK u : u = [r EXCEPT !.state = "Recording"]
  OBVIOUS
<1> PICK k : k = gpu.task.id
  OBVIOUS
<1>1. r \in m_cancelled_requests /\ r \in All /\ r \in Request /\ r.id = k
  BY RequestIds DEF IndInv, WithId, All
<1>2. u \in Request /\ u.id = r.id /\ u.frame = r.frame /\ u.state = "Recording"
  BY <1>1, RequestUpdates
<1>3. u # r /\ ~r.frame
  BY <1>1, <1>2 DEF IndInv, StageInv
<1>4. /\ QueueInv' /\ All' = (All \ {r}) \cup {u} /\ u \notin All
      /\ m_cancelled_requests' = (m_cancelled_requests \ {r}) \cup {u}
  BY <1>1, <1>2, <1>3, ReplaceCancelledEffect DEF IndInv
<1>5. Elsewhere(k)
  BY <1>1, <1>2, <1>4 DEF Elsewhere
<1>6. /\ OneErrand' /\ completions' \in Seq(Ids) /\ GpuErrand'
      /\ Range(completions') = Range(completions) \cup {k}
      /\ gpu' = [pc |-> "idle", task |-> NoTask] /\ gpu'.pc = "idle"
  BY DeferredErrand
<1>7. TypeInv'
  BY <1>6 DEF IndInv, TypeInv
<1>8. ErrandInv'
  <2>1. u \notin Range(m_requests)
    BY <1>4 DEF All, Pending
  <2>2. Completable(k)'
    BY <1>1, <1>2, <1>4, <2>1 DEF Completable
  <2>3. \A i \in Range(completions') : (i \in Range(completions) /\ i # k) \/ Completable(i)'
    BY <1>6, <2>2
  <2> QED
    BY <1>5, <1>6, <2>3, ErrandsElsewhere
<1>9. ShowInv' /\ StageInv'
  BY <1>2, <1>4 DEF IndInv, ShowInv, StageInv
<1>10. PortInv' /\ StatusCovers'
  <2>1. SamePorts
    BY DEF SamePorts
  <2> QED
    BY <1>6, <2>1, PortFrame, StatusFrame DEF IndInv
<1>11. FramesOwned'
  BY <1>2, <1>3, <1>4, <1>6 DEF IndInv, FramesOwned, All
<1> QED
  BY <1>4, <1>6, <1>7, <1>8, <1>9, <1>10, <1>11 DEF IndInv

LEMMA PrepareBeginStep ==
    ASSUME IndInv, PrepareBegin
    PROVE  IndInv'
<1> DEFINE queued == WithId(Pending, gpu.task.id)
           gone   == WithId(m_cancelled_requests, gpu.task.id)
<1>1. gpu.pc = "prepare"
  BY DEF PrepareBegin, GpuAt
<1>2. ~\A r \in IF queued # {} THEN queued ELSE gone : r.state # "Reserved"
  <2>1. PICK r \in All : r.id = gpu.task.id /\ r.state = "Reserved"
    BY <1>1, AwaitedIsThere
  <2>2. \A q \in All : q.id = gpu.task.id => q = r
    BY <1>1, <2>1, AwaitedIsThere
  <2>3. CASE queued = {}
    <3>1. r \in gone
      BY <2>1, <2>3 DEF All, WithId
    <3> QED
      BY <2>1, <2>3, <3>1
  <2>4. CASE queued # {}
    <3>1. r \in queued
      BY <2>2, <2>4 DEF All, WithId
    <3> QED
      BY <2>1, <2>4, <3>1
  <2> QED
    BY <2>3, <2>4
<1>3. UNCHANGED <<port, m_processing, calls, midway, submissions, show, closer, live>>
  BY DEF PrepareBegin
<1>4. ASSUME NEW r \in queued, r.state = "Reserved",
             LET taken == [r EXCEPT !.state = "Recording"] IN
                m_requests' = IF r \in m_cpu_requests THEN Append(m_requests, taken)
                              ELSE InSequence(taken),
             m_cpu_requests' = m_cpu_requests \ {r}, gpu' = [pc |-> "record", task |-> r],
             UNCHANGED <<m_cancelled_requests, completions, fatal>>
      PROVE  IndInv'
  BY <1>1, <1>3, <1>4, PrepareBeginQueued
<1>5. ASSUME NEW r \in gone, r.state = "Reserved",
             m_cancelled_requests' = Among(m_cancelled_requests,
                                           [r EXCEPT !.state = "Recording"]),
             Deferred, UNCHANGED <<m_requests, m_cpu_requests, fatal>>
      PROVE  IndInv'
  BY <1>1, <1>3, <1>5, PrepareBeginGone
<1> QED
  BY <1>2, <1>4, <1>5 DEF PrepareBegin

(* The port was closed meanwhile: the request joins the cancelled ones.    *)
LEMMA PrepareDropStep ==
    ASSUME IndInv, PrepareDrop
    PROVE  IndInv'
<1> PICK k : k = gpu.task.id
  OBVIOUS
<1> PICK mine : mine = WithId(Range(m_requests), k)
  OBVIOUS
<1> PICK c : c = Carried
  OBVIOUS
<1>1. /\ gpu.pc = "drop" /\ RemoveAll(mine)
      /\ m_cancelled_requests' = m_cancelled_requests \cup mine /\ Deferred
      /\ UNCHANGED <<port, m_cpu_requests, m_processing, calls, midway, submissions, show,
                     closer, live, fatal>>
  BY DEF PrepareDrop, GpuAt
<1>2. /\ c \in Request /\ c.id = k /\ c.state = "Recording" /\ ~c.frame /\ c \in All
      /\ c \in Range(m_requests) \cup m_cancelled_requests
      /\ \A q \in All : q.id = k => q = c
  BY <1>1, CarriedIsMine
<1>3. mine \subseteq Pending /\ mine \subseteq {c} /\ m_cpu_requests \ mine = m_cpu_requests
      /\ mine \subseteq Range(m_requests)
  BY <1>2 DEF WithId, Pending, All, IndInv, QueueInv
<1>4. /\ QueueInv' /\ Range(m_requests') = Range(m_requests) \ mine
      /\ Pending' = Pending \ mine /\ All' = All
      /\ m_requests # <<>> /\ Head(m_requests) \notin mine =>
            m_requests' # <<>> /\ Head(m_requests') = Head(m_requests)
  <2>1. mine \subseteq mine /\ m_cpu_requests' = m_cpu_requests \ mine
        /\ All \ (mine \ mine) = All
    BY <1>1, <1>3
  <2>2. QueueInv
    BY DEF IndInv
  <2>3. RemoveAll(mine) /\ m_cancelled_requests' = m_cancelled_requests \cup mine
        /\ calls' = calls /\ mine \subseteq Pending
    BY <1>1, <1>3
  <2>4. /\ QueueInv' /\ Range(m_requests') = Range(m_requests) \ mine
        /\ Pending' = Pending \ mine /\ All' = All \ (mine \ mine)
        /\ m_requests # <<>> /\ Head(m_requests) \notin mine =>
              m_requests' # <<>> /\ Head(m_requests') = Head(m_requests)
    BY <2>1, <2>2, <2>3, RemoveEffect
  <2> QED
    BY <2>1, <2>4
<1>5. c \in m_cancelled_requests' /\ c \notin Range(m_requests')
  <2>1. c \in Range(m_requests) => c \in mine
    BY <1>2 DEF WithId
  <2>2. c \in m_cancelled_requests => c \notin Range(m_requests)
    BY DEF IndInv, QueueInv, Pending
  <2> QED
    BY <1>1, <1>2, <1>4, <2>1, <2>2
<1>6. Elsewhere(k)
  BY <1>1, <1>2, <1>3, <1>4 DEF Elsewhere
<1>7. /\ OneErrand' /\ completions' \in Seq(Ids) /\ GpuErrand'
      /\ Range(completions') = Range(completions) \cup {k}
      /\ gpu' = [pc |-> "idle", task |-> NoTask] /\ gpu'.pc = "idle"
  BY <1>1, DeferredErrand
<1>8. TypeInv'
  BY <1>1, <1>7 DEF IndInv, TypeInv
<1>9. ErrandInv'
  <2>1. Completable(k)'
    BY <1>2, <1>5 DEF Completable
  <2>2. \A i \in Range(completions') : (i \in Range(completions) /\ i # k) \/ Completable(i)'
    BY <1>7, <2>1
  <2> QED
    BY <1>1, <1>6, <1>7, <2>2, ErrandsElsewhere
<1>10. ShowInv' /\ \A q \in All : q.state = "Presenting" =>
                      show'.pc = "presenting" /\ q = Head(m_requests')
  BY <1>1, <1>2, <1>3, <1>4, FrontStays
<1>11. StageInv'
  BY <1>1, <1>2, <1>3, <1>4, <1>10 DEF IndInv, StageInv
<1>12. \A q \in mine : closer = [port |-> q.port, stage |-> "cancel"]
  BY <1>1 DEF IndInv, PortInv, WithId, Cancelling
<1>13. PortInv'
  <2>1. \A q \in Pending' : Current(q)' \/ Cancelling(q.port)'
    BY <1>1, <1>4 DEF IndInv, PortInv, Current, Cancelling
  <2> QED
    BY <1>1, <1>7, <2>1 DEF IndInv, PortInv
<1>14. StatusCovers'
  <2>1. ASSUME NEW p \in Ports, closer'.port # p PROVE StatusOf(p)'
    <3>1. \A q \in mine : q.port # p
      BY <1>1, <1>12, <2>1
    <3>2. IsOf(p)' = IsOf(p)
      BY <1>4, <3>1 DEF IsOf
    <3> QED
      BY <1>1, <2>1, <3>2, SameStatus DEF IndInv
  <2> QED
    BY <2>1, StatusParts
<1>15. FramesOwned'
  BY <1>1, <1>4, <1>7 DEF IndInv, FramesOwned, All
<1> QED
  BY <1>4, <1>7, <1>8, <1>9, <1>10, <1>11, <1>13, <1>14, <1>15 DEF IndInv

(* The frame is attached to the request, wherever it is now.               *)
LEMMA PrepareAttachStep ==
    ASSUME IndInv, PrepareAttach
    PROVE  IndInv'
<1> PICK k : k = gpu.task.id
  OBVIOUS
<1> PICK r : r = Carried
  OBVIOUS
<1> PICK u : u = [r EXCEPT !.frame = TRUE]
  OBVIOUS
<1>1. /\ gpu.pc = "attach"
      /\ UNCHANGED <<port, m_processing, calls, midway, submissions, show, closer, live>>
  BY DEF PrepareAttach, GpuAt
<1>2. /\ r \in Request /\ r.id = k /\ r.state = "Recording" /\ ~r.frame /\ r \in All
      /\ r \in Range(m_requests) \cup m_cancelled_requests
      /\ \A q \in All : q.id = k => q = r
  BY <1>1, CarriedIsMine
<1>3. /\ u \in Request /\ u.id = k /\ u.port = r.port /\ u.generation = r.generation
      /\ u.index = r.index /\ u.source = r.source /\ u.state = "Recording" /\ u.frame = TRUE
      /\ u # r
  <2>1. /\ u \in Request /\ u.frame = TRUE
        /\ u.id = r.id /\ u.port = r.port /\ u.generation = r.generation
        /\ u.index = r.index /\ u.source = r.source /\ u.state = r.state
    BY <1>2 DEF Request
  <2> QED
    BY <1>2, <2>1
<1>4. WithId(Range(m_requests) \cup m_cancelled_requests, k) = {r}
  <2>1. \A q \in Range(m_requests) \cup m_cancelled_requests : q.id = k => q = r
    BY <1>2 DEF All, Pending
  <2> QED
    BY <1>2, <2>1 DEF WithId
<1>5. /\ m_requests' = InSequence(u) /\ Deferred
      /\ m_cancelled_requests' = IF r \in m_cancelled_requests
                                 THEN Among(m_cancelled_requests, u) ELSE m_cancelled_requests
      /\ UNCHANGED <<m_cpu_requests, fatal>>
  <2>1. \E q \in {r} :
             /\ q.state = "Recording" /\ ~q.frame
             /\ LET prepared == [q EXCEPT !.frame = TRUE] IN
                   /\ m_requests' = InSequence(prepared)
                   /\ m_cancelled_requests' = IF q \in m_cancelled_requests
                                              THEN Among(m_cancelled_requests, prepared)
                                              ELSE m_cancelled_requests
             /\ Deferred
             /\ UNCHANGED <<m_cpu_requests, fatal>>
    BY <1>2, <1>4 DEF PrepareAttach
  <2> QED
    BY <2>1
<1>6. /\ QueueInv' /\ All' = (All \ {r}) \cup {u} /\ u \notin All
      /\ \/ /\ r \in Range(m_requests) /\ Pending' = (Pending \ {r}) \cup {u}
            /\ Range(m_requests') = (Range(m_requests) \ {r}) \cup {u}
            /\ m_cancelled_requests' = m_cancelled_requests
         \/ /\ r \in m_cancelled_requests /\ m_requests' = m_requests
            /\ m_cancelled_requests' = (m_cancelled_requests \ {r}) \cup {u}
      /\ m_requests # <<>> => \/ Head(m_requests) = r
                              \/ m_requests' # <<>> /\ Head(m_requests') = Head(m_requests)
  <2>1. CASE r \in Range(m_requests)
    <3>1. r \notin m_cancelled_requests
      BY <2>1 DEF IndInv, QueueInv, Pending
    <3>2. UNCHANGED <<m_cpu_requests, m_cancelled_requests, calls>>
      BY <1>1, <1>5, <3>1
    <3>3. u.id = r.id /\ QueueInv
      BY <1>2, <1>3 DEF IndInv
    <3> QED
      BY <1>3, <1>5, <2>1, <3>2, <3>3, ReplaceEffect
  <2>2. CASE r \notin Range(m_requests)
    <3>1. r \in m_cancelled_requests
      BY <1>2, <2>2
    <3>2. \A q \in Range(m_requests) : q.id # u.id
      BY <1>2, <1>3, <2>2 DEF All, Pending
    <3>3. m_requests' = m_requests
      BY <1>5, <3>2, ReplaceNothing DEF IndInv
    <3>4. m_cancelled_requests' = Among(m_cancelled_requests, u) /\ u.id = r.id /\ QueueInv
          /\ UNCHANGED <<m_requests, m_cpu_requests, calls>>
      BY <1>1, <1>2, <1>3, <1>5, <3>1, <3>3 DEF IndInv
    <3> QED
      BY <1>3, <3>1, <3>3, <3>4, ReplaceCancelledEffect
  <2> QED
    BY <2>1, <2>2
<1>7. Elsewhere(k)
  BY <1>2, <1>3, <1>6 DEF Elsewhere
<1>8. /\ OneErrand' /\ completions' \in Seq(Ids) /\ GpuErrand'
      /\ Range(completions') = Range(completions) \cup {k}
      /\ gpu' = [pc |-> "idle", task |-> NoTask] /\ gpu'.pc = "idle"
  BY <1>1, <1>5, DeferredErrand
<1>9. TypeInv'
  BY <1>1, <1>5, <1>8 DEF IndInv, TypeInv
<1>10. ErrandInv'
  <2>1. Completable(k)'
    BY <1>3, <1>6 DEF Completable
  <2>2. \A i \in Range(completions') : (i \in Range(completions) /\ i # k) \/ Completable(i)'
    BY <1>8, <2>1
  <2> QED
    BY <1>1, <1>7, <1>8, <2>2, ErrandsElsewhere
<1>11. ShowInv' /\ \A q \in All : q.state = "Presenting" =>
                      show'.pc = "presenting" /\ q = Head(m_requests')
  BY <1>1, <1>2, <1>6, FrontStays
<1>12. StageInv'
  <2>1. \A q \in All : q.state \in {"Ready", "Presenting"} =>
                           q \in Range(m_requests) /\ q \in Range(m_requests')
    BY <1>2, <1>6 DEF IndInv, StageInv
  <2>2. ASSUME NEW q \in All'
        PROVE  /\ q.state = "Reserved" => ~q.frame
               /\ q.state \in {"Ready", "Presenting"} => q.frame /\ q \in Range(m_requests')
               /\ q.state = "Presenting" => show'.pc = "presenting" /\ q = Head(m_requests')
    BY <1>3, <1>6, <1>11, <2>1 DEF IndInv, StageInv
  <2> QED
    BY <1>5, <2>2 DEF IndInv, StageInv
<1>13. PortInv' /\ StatusCovers'
  <2>1. CASE r \in Range(m_requests) /\ Pending' = (Pending \ {r}) \cup {u}
    <3>1. r \in Pending /\ u \notin Pending
      BY <1>6, <2>1 DEF All, Pending
    <3> QED
      BY <1>1, <1>2, <1>3, <1>8, <2>1, <3>1, ReplacePending
  <2>2. CASE m_requests' = m_requests
    <3>1. SamePorts
      BY <1>1 DEF SamePorts
    <3> QED
      BY <1>1, <1>5, <1>8, <2>2, <3>1, PortFrame, StatusFrame DEF IndInv
  <2> QED
    BY <1>6, <2>1, <2>2
<1>14. FramesOwned'
  <2>1. \A i : i \in live <=> \/ \E q \in All : q.frame /\ q.id = i
                              \/ i = k
    BY <1>1 DEF IndInv, FramesOwned, All
  <2>2. \A i : (\E q \in All' : q.frame /\ q.id = i) <=>
                   \/ \E q \in All : q.frame /\ q.id = i
                   \/ i = k
    <3>1. ASSUME NEW i, NEW q \in All', q.frame, q.id = i
          PROVE  i = k \/ \E x \in All : x.frame /\ x.id = i
      <4>1. q = u \/ q \in All
        BY <1>6, <3>1
      <4> QED
        BY <1>3, <3>1, <4>1
    <3>2. ASSUME NEW i, NEW q \in All, q.frame, q.id = i
          PROVE  \E x \in All' : x.frame /\ x.id = i
      <4>1. q # r /\ q \in All'
        BY <1>2, <1>6, <3>2
      <4> QED
        BY <3>2, <4>1
    <3>3. u \in All' /\ u.frame /\ u.id = k
      BY <1>3, <1>6
    <3> QED
      BY <3>1, <3>2, <3>3
  <2>3. live' = {q.id : q \in {x \in All' : x.frame}}
    BY <1>1, <2>1, <2>2
  <2> QED
    BY <1>8, <2>3 DEF FramesOwned, All
<1> QED
  BY <1>6, <1>8, <1>9, <1>10, <1>11, <1>12, <1>13, <1>14 DEF IndInv

-----------------------------------------------------------------------------
(* The priority thread completes a flip.                                   *)

(* What a completion finds: one request, recorded and with its frame if it *)
(* is queued.                                                              *)
LEMMA CompletionFinds ==
    ASSUME IndInv, completions # <<>>, NEW k, k = Head(completions)
    PROVE  /\ k \in Range(completions) /\ k \in Ids
           /\ completions' = Tail(completions) =>
                 /\ completions' \in Seq(Ids) /\ Distinct(completions')
                 /\ Range(completions') = Range(completions) \ {k}
           /\ Completable(k) /\ ~Awaits(k) /\ ~Without(k)
           /\ gpu.pc # "idle" => gpu.task.id # k
<1>1. completions \in Seq(Ids) /\ Distinct(completions)
  BY DEF IndInv, TypeInv, OneErrand
<1>2. /\ k \in Ids /\ k \in Range(completions)
      /\ completions' = Tail(completions) =>
            /\ completions' \in Seq(Ids) /\ Distinct(completions')
            /\ Range(completions') = Range(completions) \ {k}
  <2>1. /\ Tail(completions) \in Seq(Ids) /\ Distinct(Tail(completions))
        /\ Head(completions) \in Ids /\ Head(completions) \in Range(completions)
        /\ Range(Tail(completions)) = Range(completions) \ {Head(completions)}
    BY <1>1, TailOf
  <2> QED
    BY <2>1
<1>3. Completable(k)
  BY <1>2 DEF IndInv, ErrandInv
<1>4. PICK r \in All : r.id = k /\ r.state = "Recording"
  BY <1>3 DEF Completable, All, Pending
<1>5. \A q \in All : q.id = k => q = r
  BY <1>4 DEF IndInv, QueueInv
<1>6. ~Awaits(k) /\ ~Without(k)
  BY <1>4, <1>5 DEF Awaits, Without
<1> QED
  BY <1>2, <1>3, <1>6 DEF IndInv, OneErrand

LEMMA CompleteQueued ==
    ASSUME IndInv, completions # <<>>, completions' = Tail(completions),
           NEW r \in WithId(Range(m_requests), Head(completions)),
           r.state = "Recording", r.frame,
           m_requests' = InSequence([r EXCEPT !.state = "Ready"]),
           UNCHANGED <<port, m_cpu_requests, m_cancelled_requests, m_processing, calls, midway,
                       submissions, gpu, show, closer, live, fatal>>
    PROVE  IndInv'
<1> PICK k : k = Head(completions)
  OBVIOUS
<1> PICK u : u = [r EXCEPT !.state = "Ready"]
  OBVIOUS
<1>1. /\ r \in Range(m_requests) /\ r \in Pending /\ r \in All /\ r \in Request /\ r.id = k
  BY RequestIds DEF IndInv, WithId, All, Pending
<1>2. /\ u \in Request /\ u.id = r.id /\ u.port = r.port /\ u.generation = r.generation
      /\ u.source = r.source /\ u.frame = r.frame /\ u.state = "Ready" /\ u # r
  BY <1>1 DEF Request
<1>3. /\ QueueInv' /\ Pending' = (Pending \ {r}) \cup {u} /\ All' = (All \ {r}) \cup {u}
      /\ u \notin All /\ Range(m_requests') = (Range(m_requests) \ {r}) \cup {u}
      /\ m_requests # <<>> => /\ m_requests' # <<>>
                              /\ Head(m_requests') = IF Head(m_requests) = r THEN u
                                                     ELSE Head(m_requests)
  BY <1>1, <1>2, ReplaceEffect DEF IndInv
<1>4. Elsewhere(k)
  BY <1>1, <1>2, <1>3 DEF Elsewhere
<1>5. /\ completions' \in Seq(Ids) /\ Distinct(completions')
      /\ Range(completions') = Range(completions) \ {k}
      /\ ~Awaits(k) /\ ~Without(k) /\ (gpu.pc # "idle" => gpu.task.id # k)
  BY CompletionFinds
<1>6. TypeInv'
  BY <1>5 DEF IndInv, TypeInv
<1>7. OneErrand'
  BY <1>5 DEF IndInv, OneErrand
<1>8. ErrandInv'
  <2>1. GpuErrand'
    BY <1>4, <1>5, GpuElsewhere
  <2>2. \A i \in Range(completions') : i \in Range(completions) /\ i # k
    BY <1>5
  <2> QED
    BY <1>4, <1>5, <2>1, <2>2, ErrandsElsewhere
<1>9. ShowInv' /\ \A q \in All : q.state = "Presenting" =>
                      show'.pc = "presenting" /\ q = Head(m_requests')
  BY <1>3, FrontStays
<1>10. StageInv'
  <2>1. ASSUME NEW q \in All'
        PROVE  /\ q.state = "Reserved" => ~q.frame
               /\ q.state \in {"Ready", "Presenting"} => q.frame /\ q \in Range(m_requests')
               /\ q.state = "Presenting" => show'.pc = "presenting" /\ q = Head(m_requests')
    BY <1>2, <1>3, <1>9 DEF IndInv, StageInv
  <2> QED
    BY <2>1 DEF IndInv, StageInv
<1>11. PortInv' /\ StatusCovers'
  <2>1. u \notin Pending /\ Range(m_requests') \subseteq Range(m_requests) \cup {u}
    BY <1>3 DEF All
  <2> QED
    BY <1>1, <1>2, <1>3, <2>1, ReplacePending
<1>12. FramesOwned'
  <2>1. UNCHANGED <<live, gpu>>
    OBVIOUS
  <2> QED
    BY <1>1, <1>2, <1>3, <2>1, FramesKept DEF IndInv
<1> QED
  BY <1>3, <1>6, <1>7, <1>8, <1>9, <1>10, <1>11, <1>12 DEF IndInv

(* A cancelled flip gives its frame back.                                  *)
LEMMA CompleteGone ==
    ASSUME IndInv, completions # <<>>, completions' = Tail(completions),
           NEW r \in WithId(m_cancelled_requests, Head(completions)),
           m_cancelled_requests' = m_cancelled_requests \ {r},
           live' = live \ {Head(completions)},
           UNCHANGED <<port, m_requests, m_cpu_requests, m_processing, calls, midway,
                       submissions, gpu, show, closer, fatal>>
    PROVE  IndInv'
<1> PICK k : k = Head(completions)
  OBVIOUS
<1>1. r \in m_cancelled_requests /\ r \in All /\ r.id = k
  BY DEF WithId, All
<1>2. QueueInv' /\ All' = All \ {r} /\ Pending' = Pending
  BY <1>1, ForgetEffect DEF IndInv
<1>3. \A q \in All : q.id = k => q = r
  BY <1>1 DEF IndInv, QueueInv
<1>4. Elsewhere(k)
  BY <1>1, <1>2 DEF Elsewhere
<1>5. /\ completions' \in Seq(Ids) /\ Distinct(completions')
      /\ Range(completions') = Range(completions) \ {k}
      /\ ~Awaits(k) /\ ~Without(k) /\ (gpu.pc # "idle" => gpu.task.id # k)
  BY CompletionFinds
<1>6. TypeInv'
  BY <1>5 DEF IndInv, TypeInv
<1>7. OneErrand'
  BY <1>5 DEF IndInv, OneErrand
<1>8. ErrandInv'
  <2>1. GpuErrand'
    BY <1>4, <1>5, GpuElsewhere
  <2>2. \A i \in Range(completions') : i \in Range(completions) /\ i # k
    BY <1>5
  <2> QED
    BY <1>4, <1>5, <2>1, <2>2, ErrandsElsewhere
<1>9. ShowInv' /\ StageInv'
  BY <1>2 DEF IndInv, ShowInv, StageInv
<1>10. PortInv' /\ StatusCovers'
  <2>1. SamePorts
    BY DEF SamePorts
  <2> QED
    BY <2>1, PortFrame, StatusFrame DEF IndInv
<1>11. FramesOwned'
  <2>1. \A i : i \in live <=> \/ \E q \in All : q.frame /\ q.id = i
                              \/ gpu.pc = "attach" /\ i = gpu.task.id
    BY FrameMembers DEF IndInv
  <2>2. \A i : i \in live' <=> \/ \E q \in All' : q.frame /\ q.id = i
                               \/ gpu.pc = "attach" /\ i = gpu.task.id
    BY <1>1, <1>2, <1>3, <1>5, <2>1
  <2> QED
    BY <2>2, FramesNow
<1> QED
  BY <1>2, <1>6, <1>7, <1>8, <1>9, <1>10, <1>11 DEF IndInv

LEMMA CompleteStep ==
    ASSUME IndInv, Complete
    PROVE  IndInv'
<1> DEFINE id     == Head(completions)
           queued == WithId(Range(m_requests), id)
           gone   == WithId(m_cancelled_requests, id)
<1>1. /\ completions # <<>> /\ completions' = Tail(completions)
      /\ UNCHANGED <<port, m_cpu_requests, m_processing, calls, midway, submissions, gpu,
                     show, closer>>
  BY DEF Complete
<1>2. ~/\ \A r \in queued : r.state # "Recording" \/ ~r.frame
       /\ queued = {} => \A r \in gone : r.state # "Recording"
  <2>1. Completable(id)
    BY <1>1, CompletionFinds
  <2>2. PICK r \in Range(m_requests) \cup m_cancelled_requests :
            r.id = id /\ r.state = "Recording" /\ (r \in Range(m_requests) => r.frame)
    BY <2>1 DEF Completable
  <2>3. CASE r \in Range(m_requests)
    <3>1. r \in queued
      BY <2>2, <2>3 DEF WithId
    <3> QED
      BY <2>2, <2>3, <3>1
  <2>4. CASE r \notin Range(m_requests)
    <3>1. r \in gone
      BY <2>2, <2>4 DEF WithId
    <3>2. r \notin Pending /\ r \in All /\ \A q \in All : q.id = id => q = r
      BY <2>2, <3>1 DEF IndInv, QueueInv, All, WithId
    <3>3. queued = {}
      BY <2>4, <3>2 DEF WithId, All, Pending
    <3> QED
      BY <2>2, <3>1, <3>3
  <2> QED
    BY <2>3, <2>4
<1>3. ASSUME NEW r \in queued, r.state = "Recording", r.frame,
             m_requests' = InSequence([r EXCEPT !.state = "Ready"]),
             UNCHANGED <<m_cancelled_requests, live, fatal>>
      PROVE  IndInv'
  BY <1>1, <1>3, CompleteQueued
<1>4. ASSUME NEW r \in gone, m_cancelled_requests' = m_cancelled_requests \ {r},
             live' = live \ {id}, UNCHANGED <<m_requests, fatal>>
      PROVE  IndInv'
  BY <1>1, <1>4, CompleteGone
<1> QED
  BY <1>2, <1>3, <1>4 DEF Complete

-----------------------------------------------------------------------------
(* The present thread presents the front request.                          *)

LEMMA FlipBeginPresents ==
    ASSUME IndInv, show.pc = "picked", m_requests # <<>>, Head(m_requests) = show.r,
           m_requests' = InSequence([show.r EXCEPT !.state = "Presenting"]),
           show' = [show EXCEPT !.pc = "presenting"],
           UNCHANGED <<port, m_cpu_requests, m_cancelled_requests, m_processing, calls, work,
                       closer, live, fatal>>
    PROVE  IndInv'
<1> PICK r : r = show.r
  OBVIOUS
<1> PICK k : k = r.id
  OBVIOUS
<1> PICK u : u = [r EXCEPT !.state = "Presenting"]
  OBVIOUS
<1>1. /\ r \in Range(m_requests) /\ r \in Pending /\ r \in All /\ r \in Request
      /\ r.state = "Ready" /\ r.frame /\ m_processing
  <2>1. r \in Range(m_requests) /\ r \in Pending /\ r \in All
    BY InRange DEF IndInv, QueueInv, Pending, All
  <2> QED
    BY <2>1 DEF IndInv, ShowInv, StageInv
<1>2. /\ u \in Request /\ u.id = r.id /\ u.port = r.port /\ u.generation = r.generation
      /\ u.source = r.source /\ u.frame = r.frame /\ u.state = "Presenting" /\ u # r
  BY <1>1 DEF Request
<1>3. /\ QueueInv' /\ Pending' = (Pending \ {r}) \cup {u} /\ All' = (All \ {r}) \cup {u}
      /\ u \notin All /\ Range(m_requests') = (Range(m_requests) \ {r}) \cup {u}
      /\ m_requests' # <<>> /\ Head(m_requests') = u
  <2>1. UNCHANGED <<m_cpu_requests, m_cancelled_requests, calls>> /\ QueueInv
    BY DEF IndInv
  <2>2. m_requests' = InSequence(u) /\ Head(m_requests) = r
    OBVIOUS
  <2>3. /\ QueueInv' /\ Pending' = (Pending \ {r}) \cup {u} /\ All' = (All \ {r}) \cup {u}
        /\ u \notin All /\ Range(m_requests') = (Range(m_requests) \ {r}) \cup {u}
        /\ m_requests # <<>> => /\ m_requests' # <<>>
                                /\ Head(m_requests') = IF Head(m_requests) = r THEN u
                                                       ELSE Head(m_requests)
    BY <1>1, <1>2, <2>1, <2>2, ReplaceEffect
  <2> QED
    BY <2>2, <2>3
<1>4. Elsewhere(k)
  BY <1>1, <1>2, <1>3 DEF Elsewhere
<1>5. show'.pc = "presenting" /\ show'.r = r
      /\ show' \in [pc : {"top", "picked", "presenting", "vblank"}, r : Request \cup {NoTask}]
  BY <1>1 DEF IndInv, TypeInv
<1>6. TypeInv'
  BY <1>5 DEF IndInv, TypeInv, work
<1>7. \A q \in All : q.id = k => q = r
  BY <1>1 DEF IndInv, QueueInv
<1>8. UNCHANGED <<midway, submissions, gpu, completions>>
  BY DEF work
<1>9. OneErrand'
  BY OneErrandFrame DEF IndInv
<1>10. ErrandInv'
  <2>1. ~Awaits(k) /\ ~Without(k)
    BY <1>1, <1>7 DEF Awaits, Without
  <2>2. gpu.pc \in {"record", "drop", "attach"} => gpu.task.id # k
    BY <1>1, <1>7, CarriedIsMine
  <2>3. GpuErrand'
    BY <1>4, <1>8, <2>1, <2>2, GpuElsewhere
  <2>4. ASSUME NEW i \in Range(completions') PROVE i \in Range(completions) /\ i # k
    <3>1. i \in Range(completions) /\ Completable(i)
      BY <1>8, <2>4 DEF IndInv, ErrandInv
    <3>2. \E q \in All : q.id = i /\ q.state = "Recording"
      BY <3>1 DEF Completable, All, Pending
    <3> QED
      BY <1>1, <1>7, <3>1, <3>2
  <2> QED
    BY <1>4, <1>8, <2>1, <2>3, <2>4, ErrandsElsewhere
<1>11. ShowInv'
  BY <1>1, <1>3, <1>5 DEF IndInv, ShowInv
<1>12. StageInv'
  <2>1. ASSUME NEW q \in All'
        PROVE  /\ q.state = "Reserved" => ~q.frame
               /\ q.state \in {"Ready", "Presenting"} => q.frame /\ q \in Range(m_requests')
               /\ q.state = "Presenting" => show'.pc = "presenting" /\ q = Head(m_requests')
    BY <1>1, <1>2, <1>3, <1>5 DEF IndInv, StageInv
  <2> QED
    BY <2>1 DEF IndInv, StageInv
<1>13. PortInv' /\ StatusCovers'
  <2>1. u \notin Pending /\ Range(m_requests') \subseteq Range(m_requests) \cup {u}
    BY <1>3 DEF All
  <2> QED
    BY <1>1, <1>2, <1>3, <1>8, <2>1, ReplacePending
<1>14. FramesOwned'
  <2>1. UNCHANGED <<live, gpu>>
    BY <1>8
  <2> QED
    BY <1>1, <1>2, <1>3, <2>1, FramesKept DEF IndInv
<1> QED
  BY <1>3, <1>6, <1>9, <1>10, <1>11, <1>12, <1>13, <1>14 DEF IndInv

LEMMA FlipBeginStep ==
    ASSUME IndInv, FlipBegin
    PROVE  IndInv'
<1>1. /\ show.pc = "picked" /\ fatal = "none"
      /\ UNCHANGED <<port, m_cpu_requests, m_cancelled_requests, calls, work, closer, live>>
  BY DEF FlipBegin, ShowAt, Alive
<1>2. m_requests # <<>> /\ Head(m_requests) = show.r
  BY <1>1 DEF IndInv, ShowInv
<1>3. CASE /\ show' = [pc |-> "vblank", r |-> NoTask] /\ m_processing' = FALSE
           /\ UNCHANGED <<m_requests, fatal>>
  <2>1. TypeInv'
    BY <1>1, <1>3 DEF IndInv, TypeInv, work
  <2>2. ShowInv'
    BY <1>3 DEF ShowInv
  <2>3. SamePorts /\ UNCHANGED queues /\ show.pc # "presenting"
    BY <1>1, <1>3 DEF SamePorts, queues
  <2> QED
    BY <1>1, <2>1, <2>2, <2>3, PresentFrame
<1>4. CASE /\ m_requests' = InSequence([show.r EXCEPT !.state = "Presenting"])
           /\ show' = [show EXCEPT !.pc = "presenting"]
           /\ UNCHANGED <<m_processing, fatal>>
  BY <1>1, <1>2, <1>4, FlipBeginPresents
<1> QED
  BY <1>2, <1>3, <1>4 DEF FlipBegin

(* The flip is done: request and frame are gone, the status counts one     *)
(* less.                                                                   *)
LEMMA FlipDoneStatus ==
    ASSUME IndInv, NEW r \in Pending, Pending' = Pending \ {r}, NEW p, p = r.port,
           port' = [port EXCEPT ![p].flipPendingNum = PendingNum - 1,
                                ![p].gcQueueNum =
                                    IF r.source = "GpuEop" /\ @ > 0 THEN @ - 1 ELSE @],
           UNCHANGED closer
    PROVE  StatusCovers' /\ port' \in [Ports -> PortTypes]
<1>1. PendingNum \in Nat /\ Capacity \in Nat /\ PendingNum <= Capacity
      /\ \A S : S \subseteq Pending => IsFiniteSet(S) /\ Cardinality(S) \in 0..PendingNum
  BY PendingCount, FlipAssumption DEF IndInv, QueueInv
<1>2. p \in Ports /\ port \in [Ports -> PortTypes]
  BY RequestIds DEF IndInv, TypeInv, All, Request
<1>3. /\ r \in IsOf(p) /\ IsFiniteSet(IsOf(p)) /\ IsFiniteSet(GpuOf(p))
      /\ Cardinality(IsOf(p)) \in 0..PendingNum /\ Cardinality(GpuOf(p)) \in 0..PendingNum
  BY <1>1 DEF IsOf, GpuOf
<1>4. Cardinality(IsOf(p)') = Cardinality(IsOf(p)) - 1 /\ Cardinality(IsOf(p)) # 0
  <2>1. IsOf(p)' = IsOf(p) \ {r}
    BY DEF IsOf
  <2>2. Cardinality(IsOf(p)) # 0
    BY <1>3, FS_EmptySet
  <2> QED
    BY <1>3, <2>1, <2>2, FS_RemoveElement
<1>5. CASE r.source = "GpuEop"
  <2>1. r \in GpuOf(p) /\ GpuOf(p)' = GpuOf(p) \ {r}
    BY <1>3, <1>5 DEF GpuOf, IsOf
  <2>2. Cardinality(GpuOf(p)) # 0
    BY <1>3, <2>1, FS_EmptySet
  <2>3. Cardinality(GpuOf(p)') = Cardinality(GpuOf(p)) - 1
    BY <1>3, <2>1, FS_RemoveElement
  <2> DEFINE gc == IF port[p].gcQueueNum > 0 THEN port[p].gcQueueNum - 1
                   ELSE port[p].gcQueueNum
             n == PendingNum - 1
  <2>4. gc \in 0..Capacity /\ n \in 0..Capacity
    <3>1. port[p].gcQueueNum \in 0..Capacity
      BY <1>2 DEF PortTypes
    <3>2. PendingNum # 0
      BY <1>3, <1>4
    <3> QED
      BY <1>1, <3>1, <3>2
  <2>5. port' = [port EXCEPT ![p].flipPendingNum = n, ![p].gcQueueNum = gc]
    BY <1>2, <1>5 DEF PortTypes
  <2>6. StatusOf(p) => /\ n >= Cardinality(IsOf(p)')
                       /\ gc = Cardinality(GpuOf(p)')
    BY <1>1, <1>3, <1>4, <2>2, <2>3 DEF StatusOf
  <2> HIDE DEF gc, n
  <2>7. /\ port'[p].flipPendingNum = n /\ port'[p].gcQueueNum = gc
        /\ port' \in [Ports -> PortTypes]
        /\ \A q \in Ports : q # p => port'[q] = port[q]
    BY <1>2, <2>4, <2>5 DEF PortTypes
  <2>8. StatusOf(p) => StatusOf(p)'
    BY <2>6, <2>7 DEF StatusOf
  <2>9. ASSUME NEW q \in Ports, closer'.port # q PROVE StatusOf(q)'
    <3>1. CASE q = p
      BY <2>8, <2>9, <3>1, StatusParts DEF IndInv
    <3>2. CASE q # p
      <4>1. IsOf(q)' = IsOf(q)
        BY <3>2 DEF IsOf
      <4> QED
        BY <2>7, <2>9, <3>2, <4>1, SameStatus DEF IndInv
    <3> QED
      BY <3>1, <3>2
  <2> QED
    BY <2>7, <2>9, StatusParts
<1>6. CASE r.source # "GpuEop"
  <2>1. GpuOf(p)' = GpuOf(p)
    BY <1>6 DEF GpuOf, IsOf
  <2> DEFINE n == PendingNum - 1
  <2>2. n \in 0..Capacity
    <3>1. PendingNum # 0
      BY <1>3, <1>4
    <3> QED
      BY <1>1, <3>1
  <2>3. port' = [port EXCEPT ![p].flipPendingNum = n]
    BY <1>2, <1>6 DEF PortTypes
  <2>4. StatusOf(p) => n >= Cardinality(IsOf(p)')
    BY <1>1, <1>3, <1>4 DEF StatusOf
  <2> HIDE DEF n
  <2>5. /\ port'[p].flipPendingNum = n /\ port'[p].gcQueueNum = port[p].gcQueueNum
        /\ port' \in [Ports -> PortTypes]
        /\ \A q \in Ports : q # p => port'[q] = port[q]
    BY <1>2, <2>2, <2>3 DEF PortTypes
  <2>6. StatusOf(p) => StatusOf(p)'
    BY <2>1, <2>4, <2>5 DEF StatusOf
  <2>7. ASSUME NEW q \in Ports, closer'.port # q PROVE StatusOf(q)'
    <3>1. CASE q = p
      BY <2>6, <2>7, <3>1, StatusParts DEF IndInv
    <3>2. CASE q # p
      <4>1. IsOf(q)' = IsOf(q)
        BY <3>2 DEF IsOf
      <4> QED
        BY <2>5, <2>7, <3>2, <4>1, SameStatus DEF IndInv
    <3> QED
      BY <3>1, <3>2
  <2> QED
    BY <2>5, <2>7, StatusParts
<1> QED
  BY <1>5, <1>6

LEMMA FlipDoneStep ==
    ASSUME IndInv, FlipDone
    PROVE  IndInv'
<1> PICK r : r = Head(m_requests)
  OBVIOUS
<1> PICK k : k = r.id
  OBVIOUS
<1> PICK p : p = r.port
  OBVIOUS
<1>1. /\ show.pc = "presenting" /\ m_requests # <<>>
      /\ r = [show.r EXCEPT !.state = "Presenting"] /\ show.r \in Request
      /\ UNCHANGED <<m_cpu_requests, m_cancelled_requests, calls, work, closer>>
  BY DEF FlipDone, ShowAt, IndInv, ShowInv
<1>2. r.id = show.r.id /\ r.port = show.r.port /\ r.source = show.r.source
      /\ r.state = "Presenting"
  BY <1>1 DEF Request
<1>3. /\ m_requests' = Tail(m_requests)
      /\ port' = [port EXCEPT ![p].flipPendingNum = PendingNum - 1,
                    ![p].gcQueueNum = IF r.source = "GpuEop" /\ @ > 0 THEN @ - 1 ELSE @]
      /\ live' = live \ {k} /\ m_processing' = FALSE
      /\ show' = [pc |-> "vblank", r |-> NoTask] /\ UNCHANGED fatal
  BY <1>1, <1>2 DEF FlipDone
<1>4. /\ QueueInv' /\ r \in Range(m_requests) /\ Range(m_requests') = Range(m_requests) \ {r}
      /\ Pending' = Pending \ {r} /\ All' = All \ {r}
  <2>1. QueueInv
    BY DEF IndInv
  <2> QED
    BY <1>1, <1>3, <2>1, FrontEffect
<1>5. /\ r \in Pending /\ r \in All /\ r.frame /\ p \in Ports
      /\ \A q \in All : q.id = k => q = r
  <2>1. r \in Pending /\ r \in All /\ r \in Request
    BY <1>4, RequestIds DEF IndInv, Pending, All
  <2> QED
    BY <1>2, <2>1 DEF IndInv, StageInv, QueueInv, Request
<1>6. StatusCovers' /\ port' \in [Ports -> PortTypes]
  BY <1>1, <1>3, <1>4, <1>5, FlipDoneStatus
<1>7. Elsewhere(k)
  BY <1>1, <1>4 DEF Elsewhere
<1>8. UNCHANGED <<midway, submissions, gpu, completions>>
  BY <1>1 DEF work
<1>9. TypeInv'
  BY <1>1, <1>3, <1>6 DEF IndInv, TypeInv, work
<1>10. OneErrand'
  BY <1>1, OneErrandFrame DEF IndInv
<1>11. ~Awaits(k) /\ ~Without(k)
  BY <1>2, <1>5 DEF Awaits, Without
<1>12. gpu.pc \in {"record", "drop", "attach"} => gpu.task.id # k
  BY <1>2, <1>5, CarriedIsMine
<1>13. ErrandInv'
  <2>1. GpuErrand'
    BY <1>7, <1>8, <1>11, <1>12, GpuElsewhere
  <2>2. ASSUME NEW i \in Range(completions') PROVE i \in Range(completions) /\ i # k
    <3>1. i \in Range(completions) /\ Completable(i)
      BY <1>8, <2>2 DEF IndInv, ErrandInv
    <3>2. \E q \in All : q.id = i /\ q.state = "Recording"
      BY <3>1 DEF Completable, All, Pending
    <3> QED
      BY <1>2, <1>5, <3>1, <3>2
  <2> QED
    BY <1>7, <1>8, <1>11, <2>1, <2>2, ErrandsElsewhere
<1>14. ShowInv'
  BY <1>3 DEF ShowInv
<1>15. StageInv'
  <2>1. \A q \in All' : q.state # "Presenting"
    BY <1>4 DEF IndInv, StageInv
  <2> QED
    BY <1>1, <1>4, <2>1 DEF IndInv, StageInv
<1>16. PortInv'
  <2>1. port \in [Ports -> PortTypes]
    BY DEF IndInv, TypeInv
  <2>2. /\ port'[p].opened = port[p].opened /\ port'[p].closing = port[p].closing
        /\ port'[p].generation = port[p].generation
        /\ \A q \in Ports : q # p => port'[q] = port[q]
    BY <1>3, <1>5, <2>1 DEF PortTypes
  <2>3. \A q \in Ports : /\ port'[q].opened = port[q].opened
                         /\ port'[q].closing = port[q].closing
                         /\ port'[q].generation = port[q].generation
    BY <2>2
  <2>4. \A q \in Pending' : (Current(q) \/ Cancelling(q.port)) /\ q.port \in Ports
    BY <1>4, RequestIds DEF IndInv, PortInv, All, Request
  <2>5. \A q \in Pending' : Current(q)' \/ Cancelling(q.port)'
    BY <1>1, <2>3, <2>4 DEF Current, Cancelling
  <2>6. port[p].opened \/ closer.port = p
    <3>1. Current(r) \/ Cancelling(r.port)
      BY <1>5 DEF IndInv, PortInv
    <3> QED
      BY <3>1 DEF Current, Cancelling
  <2>7. \A q \in Ports : ~port'[q].opened /\ closer'.port # q => port'[q].flipPendingNum = 0
    BY <1>1, <2>2, <2>3, <2>6 DEF IndInv, PortInv
  <2>8. closer' # NoClose => ~port'[closer'.port].opened
    <3>1. closer # NoClose => closer.port \in Ports
      BY DEF IndInv, TypeInv
    <3> QED
      BY <1>1, <2>3, <3>1 DEF IndInv, PortInv
  <2>9. \A q \in Ports : port'[q].generation <= calls' /\ (port'[q].opened => ~port'[q].closing)
    BY <1>1, <2>3 DEF IndInv, PortInv
  <2>10. (gpu.pc = "drop" =>
             \A q \in Range(m_requests) : q.id = gpu.task.id => Cancelling(q.port))'
    BY <1>1, <1>4, <1>8 DEF IndInv, PortInv, Cancelling
  <2> QED
    BY <2>5, <2>7, <2>8, <2>9, <2>10 DEF PortInv
<1>17. FramesOwned'
  <2>1. \A i : i \in live <=> \/ \E q \in All : q.frame /\ q.id = i
                              \/ gpu.pc = "attach" /\ i = gpu.task.id
    BY FrameMembers DEF IndInv
  <2>2. \A i : i \in live' <=> \/ \E q \in All' : q.frame /\ q.id = i
                               \/ gpu'.pc = "attach" /\ i = gpu'.task.id
    BY <1>3, <1>4, <1>5, <1>8, <1>12, <2>1
  <2> QED
    BY <2>2, FramesNow
<1> QED
  BY <1>4, <1>6, <1>9, <1>10, <1>13, <1>14, <1>15, <1>16, <1>17 DEF IndInv

-----------------------------------------------------------------------------
(* Close cancels the requests of its port.                                 *)
LEMMA CloseCancelStep ==
    ASSUME IndInv, NEW p \in Ports, CloseCancel(p)
    PROVE  IndInv'
<1> PICK S : S = IsOf(p)
  OBVIOUS
<1> PICK K : K = {r \in S : Kept(r)}
  OBVIOUS
<1>1. closer = [port |-> p, stage |-> "cancel"] /\ ~InFlight(p)
  BY DEF CloseCancel
<1>2. /\ S \subseteq Pending /\ K \subseteq S /\ \A r \in Pending : r \in S <=> r.port = p
      /\ \A r \in S : r \in K <=> r.state \in {"Reserved", "Recording"}
  BY DEF IsOf, Kept
<1>3. show.pc \in {"picked", "presenting"} => Head(m_requests) \notin S
  <2>1. show.pc \in {"picked", "presenting"} => m_processing /\ m_requests # <<>>
    BY DEF IndInv, ShowInv
  <2> QED
    BY <1>1, <2>1 DEF InFlight, IsOf
<1>4. \A r \in S : r.state # "Presenting"
  BY <1>2, <1>3 DEF IndInv, StageInv, All
<1>5. /\ RemoveAll(S) /\ m_cpu_requests' = m_cpu_requests \ S
      /\ m_cancelled_requests' = m_cancelled_requests \cup K
      /\ live' = live \ {r.id : r \in S \ K}
      /\ closer' = [closer EXCEPT !.stage = "reset"]
      /\ UNCHANGED <<port, m_processing, calls, work, show, fatal>>
  <2>1. ~\E r \in IsOf(p) : ~Kept(r) /\ r.state = "Presenting"
    BY <1>4
  <2>2. {r \in m_cpu_requests : r.port # p} = m_cpu_requests \ S
    BY <1>2 DEF Pending
  <2>3. {r \in IsOf(p) : Kept(r)} = K /\ {q \in IsOf(p) : ~Kept(q)} = S \ K
    BY <1>2
  <2> QED
    BY <2>1, <2>2, <2>3 DEF CloseCancel, Discarded
<1>6. /\ QueueInv' /\ Range(m_requests') = Range(m_requests) \ S
      /\ Pending' = Pending \ S /\ All' = All \ (S \ K)
      /\ m_requests # <<>> /\ Head(m_requests) \notin S =>
            m_requests' # <<>> /\ Head(m_requests') = Head(m_requests)
  <2>1. QueueInv /\ UNCHANGED calls
    BY <1>5 DEF IndInv
  <2> QED
    BY <1>2, <1>5, <2>1, RemoveEffect
<1>7. /\ UNCHANGED <<midway, submissions, gpu, completions>>
      /\ closer' = [port |-> p, stage |-> "reset"] /\ closer'.port = p
      /\ closer' # NoClose /\ \A q : ~Cancelling(q)'
  BY <1>1, <1>5 DEF work, NoClose, Cancelling
<1>8. TypeInv'
  <2>1. live' \subseteq Ids
    BY <1>5 DEF IndInv, TypeInv
  <2>2. closer' \in [port : Ports, stage : {"cancel", "reset"}]
    BY <1>7
  <2> QED
    BY <1>5, <1>7, <2>1, <2>2 DEF IndInv, TypeInv
<1>9. OneErrand'
  BY <1>5, OneErrandFrame DEF IndInv
<1>10. ErrandInv'
  <2>1. ASSUME NEW i, Awaits(i) PROVE Awaits(i)'
    BY <1>2, <1>6, <2>1 DEF Awaits
  <2>2. ASSUME NEW i, Without(i) PROVE Without(i)'
    BY <1>6, <2>2 DEF Without
  <2>3. ASSUME NEW i, Completable(i) PROVE Completable(i)'
    BY <1>2, <1>5, <1>6, <2>3 DEF Completable, Pending
  <2>4. \A c \in midway' : c.op = "prepare" => Awaits(c.id)'
    BY <1>7, <2>1 DEF IndInv, ErrandInv
  <2>5. \A s \in Range(submissions') : /\ s.op = "prepare" => Awaits(s.id)'
                                       /\ s.op # "prepare" => Without(s.id)'
    BY <1>7, <2>1, <2>2 DEF IndInv, ErrandInv
  <2>6. \A i \in Range(completions') : Completable(i)'
    BY <1>7, <2>3 DEF IndInv, ErrandInv
  <2>7. (gpu.pc = "prepare" => Awaits(gpu.task.id))'
    <3>1. gpu.pc = "prepare" => Awaits(gpu.task.id)
      BY DEF IndInv, ErrandInv
    <3> QED
      BY <1>7, <2>1, <3>1
  <2>8. (gpu.pc \in {"reserve", "slot", "wait", "waiting"} => Without(gpu.task.id))'
    <3>1. gpu.pc \in {"reserve", "slot", "wait", "waiting"} => Without(gpu.task.id)
      BY DEF IndInv, ErrandInv
    <3> QED
      BY <1>7, <2>2, <3>1
  <2>9. (gpu.pc \in {"record", "drop", "attach"} =>
            /\ gpu.task.state = "Reserved" /\ ~gpu.task.frame
            /\ Carried \in Range(m_requests) \cup m_cancelled_requests)'
    <3> SUFFICES ASSUME gpu.pc \in {"record", "drop", "attach"}
                 PROVE  /\ gpu.task.state = "Reserved" /\ ~gpu.task.frame
                        /\ Carried \in Range(m_requests') \cup m_cancelled_requests'
      BY <1>7 DEF Carried
    <3>1. /\ Carried \in Range(m_requests) \cup m_cancelled_requests
          /\ Carried.state = "Recording"
      BY CarriedIsMine
    <3>2. Carried \in S => Carried \in K
      BY <1>2, <3>1
    <3> QED
      BY <1>5, <1>6, <3>1, <3>2 DEF IndInv, ErrandInv
  <2> QED
    BY <2>4, <2>5, <2>6, <2>7, <2>8, <2>9 DEF ErrandInv
<1>11. ShowInv'
  BY <1>3, <1>5, <1>6 DEF IndInv, ShowInv
<1>12. StageInv'
  <2>1. ASSUME NEW q \in All'
        PROVE  /\ q.state = "Reserved" => ~q.frame
               /\ q.state \in {"Ready", "Presenting"} => q.frame /\ q \in Range(m_requests')
    BY <1>2, <1>6 DEF IndInv, StageInv
  <2>2. ASSUME NEW q \in All', q.state = "Presenting"
        PROVE  show'.pc = "presenting" /\ q = Head(m_requests')
    BY <1>3, <1>5, <1>6, <2>2 DEF IndInv, StageInv, ShowInv
  <2> QED
    BY <1>5, <2>1, <2>2 DEF IndInv, StageInv
<1>13. PortInv'
  <2>1. \A q \in Pending' : Current(q)
    BY <1>1, <1>2, <1>6 DEF IndInv, PortInv, Cancelling
  <2>2. \A q \in Pending' : Current(q)'
    BY <1>5, <2>1 DEF Current
  <2>3. gpu.pc = "drop" => \A q \in Range(m_requests') : q.id # gpu.task.id
    BY <1>1, <1>2, <1>6 DEF IndInv, PortInv, Cancelling, Pending
  <2>4. ~port'[p].opened
    BY <1>1, <1>5 DEF IndInv, PortInv, NoClose
  <2>5. \A q \in Ports : ~port'[q].opened /\ closer'.port # q => port'[q].flipPendingNum = 0
    BY <1>1, <1>5, <1>7 DEF IndInv, PortInv
  <2>6. \A q \in Ports : port'[q].generation <= calls' /\ (port'[q].opened => ~port'[q].closing)
    BY <1>5 DEF IndInv, PortInv
  <2> QED
    BY <1>7, <2>2, <2>3, <2>4, <2>5, <2>6 DEF PortInv
<1>14. StatusCovers'
  <2>1. ASSUME NEW q \in Ports, closer'.port # q PROVE StatusOf(q)'
    <3>1. IsOf(q)' = IsOf(q) /\ closer.port # q
      BY <1>1, <1>2, <1>6, <1>7, <2>1 DEF IsOf
    <3> QED
      BY <1>5, <3>1, SameStatus DEF IndInv
  <2> QED
    BY <2>1, StatusParts
<1>15. FramesOwned'
  <2>1. \A i : i \in live <=> \/ \E q \in All : q.frame /\ q.id = i
                              \/ gpu.pc = "attach" /\ i = gpu.task.id
    BY FrameMembers DEF IndInv
  <2>2. \A q, r \in All : q.id = r.id => q = r
    BY DEF IndInv, QueueInv
  <2>3. S \ K \subseteq All
    BY <1>2 DEF All
  <2>4. gpu.pc = "attach" => \A q \in S \ K : q.id # gpu.task.id
    BY <1>2, <2>3, CarriedIsMine
  <2>5. \A i : i \in live' <=> i \in live /\ \A q \in S \ K : q.id # i
    BY <1>5
  <2>6. \A i : i \in live' <=> \/ \E q \in All' : q.frame /\ q.id = i
                               \/ gpu'.pc = "attach" /\ i = gpu'.task.id
    BY <1>6, <1>7, <2>1, <2>2, <2>3, <2>4, <2>5
  <2> QED
    BY <2>6, FramesNow
<1> QED
  BY <1>6, <1>8, <1>9, <1>10, <1>11, <1>12, <1>13, <1>14, <1>15 DEF IndInv

-----------------------------------------------------------------------------
(* The inductive invariant holds at first, ...                             *)
LEMMA InitInv ==
    ASSUME Init
    PROVE  IndInv
<1>1. /\ Range(m_requests) = {} /\ Pending = {} /\ All = {}
      /\ m_requests \in Seq(Request) /\ Len(m_requests) = 0
  <2>1. m_requests = <<>>
    BY DEF Init
  <2>2. m_requests \in Seq(Request) /\ Len(m_requests) = 0
    BY <2>1, EmptySeq
  <2>3. Range(m_requests) = {}
    BY <2>1, <2>2, InRange
  <2> QED
    BY <2>2, <2>3 DEF Init, Pending, All
<1>2. /\ Range(submissions) = {} /\ submissions \in Seq(Tasks) /\ Len(submissions) = 0
      /\ Range(completions) = {} /\ completions \in Seq(Ids) /\ Len(completions) = 0
  <2>1. submissions = <<>> /\ completions = <<>>
    BY DEF Init
  <2>2. /\ submissions \in Seq(Tasks) /\ Len(submissions) = 0
        /\ completions \in Seq(Ids) /\ Len(completions) = 0
    BY <2>1, EmptySeq
  <2> QED
    BY <2>1, <2>2, InRange
<1>3. IsFiniteSet({}) /\ Cardinality({}) = 0
  BY FS_EmptySet
<1>4. ClosedPort \in PortTypes /\ ~ClosedPort.opened /\ ~ClosedPort.closing
      /\ ClosedPort.generation = 0 /\ ClosedPort.flipPendingNum = 0
      /\ ClosedPort.gcQueueNum = 0
  <2>1. 0 \in 0..MaxCalls /\ 0 \in 0..Capacity /\ 0 \in 0..(Cycle - 1) /\ 0 \in 0..2
    BY FlipAssumption DEF Cycle
  <2> QED
    BY <2>1 DEF ClosedPort, PortTypes
<1>5. \A p \in Ports : port[p] = ClosedPort
  BY DEF Init
<1>6. TypeInv
  <2>1. port \in [Ports -> PortTypes]
    BY <1>4 DEF Init
  <2>2. calls \in 0..MaxCalls /\ live \subseteq Ids /\ midway \subseteq Calls
        /\ m_processing \in BOOLEAN /\ fatal = "none"
    <3>1. calls = 0 /\ live = {} /\ midway = {} /\ m_processing = FALSE /\ fatal = "none"
      BY DEF Init
    <3>2. 0 \in 0..MaxCalls
      BY FlipAssumption
    <3> QED
      BY <3>1, <3>2
  <2>3. gpu = [pc |-> "idle", task |-> NoTask] /\ closer = NoClose
    BY DEF Init
  <2>4. show \in [pc : {"top", "picked", "presenting", "vblank"}, r : Request \cup {NoTask}]
    <3>1. show = [pc |-> "top", r |-> NoTask]
      BY DEF Init
    <3>2. NoTask \in Request \cup {NoTask}
      OBVIOUS
    <3> QED
      BY <3>1, <3>2
  <2> QED
    BY <1>2, <2>1, <2>2, <2>3, <2>4 DEF TypeInv
<1>7. QueueInv
  <2>1. PendingNum = 0 /\ PendingNum <= Capacity
    BY <1>1, <1>3, FlipAssumption DEF Init, PendingNum
  <2>2. Distinct(m_requests)
    BY <1>1 DEF Distinct
  <2> QED
    BY <1>1, <1>3, <2>1, <2>2 DEF Init, QueueInv
<1>8. StageInv /\ ShowInv
  BY <1>1 DEF Init, StageInv, ShowInv
<1>9. gpu.pc = "idle" /\ midway = {} /\ closer = NoClose /\ live = {} /\ calls = 0
  BY DEF Init
<1>10. OneErrand
  <2>1. Distinct(submissions) /\ Distinct(completions)
    BY <1>2 DEF Distinct
  <2> QED
    BY <1>2, <1>9, <2>1 DEF OneErrand
<1>11. ErrandInv
  BY <1>2, <1>9 DEF ErrandInv
<1>12. PortInv
  BY <1>1, <1>4, <1>5, <1>9 DEF PortInv
<1>13. FramesOwned
  BY <1>1, <1>9 DEF FramesOwned, All
<1>14. StatusCovers
  <2>1. ASSUME NEW p \in Ports PROVE StatusOf(p)
    <3>1. IsOf(p) = {} /\ GpuOf(p) = {}
      BY <1>1 DEF IsOf, GpuOf
    <3> QED
      BY <1>3, <1>4, <1>5, <3>1 DEF StatusOf
  <2> QED
    BY <2>1, StatusParts
<1> QED
  BY <1>6, <1>7, <1>8, <1>10, <1>11, <1>12, <1>13, <1>14 DEF IndInv

(* ... every step keeps it, ...                                            *)
LEMMA StepInv ==
    ASSUME IndInv, [Next]_vars
    PROVE  IndInv'
<1>1. CASE GuestNext
  <2>1. PICK p \in Ports :
            \/ Open(p) \/ RegisterBuffers(p) \/ UnregisterBuffers(p) \/ CloseBegin(p)
            \/ \E rate \in Rates : SetFlipRate(p, rate)
            \/ \E index \in Indexes :
                  \/ SubmitFlip(p, index)
                  \/ \E op \in {"flip", "wait"} : SubmitCommands(p, index, op)
    BY <1>1 DEF GuestNext
  <2> QED
    BY <2>1, OpenStep, RegisterBuffersStep, CloseBeginStep, SetFlipRateStep, SubmitFlipStep,
       SubmitCommandsStep
<1>2. CASE Handover
  BY <1>2, SubmitFlipPreparationStep, WriteFlipRateStep DEF Handover
<1>3. CASE CloseNext
  BY <1>3, CloseCancelStep, CloseResetStep DEF CloseNext
<1>4. CASE GpuNext
  BY <1>4, GpuTakeStep, GpuReserveStep, WaitForSubmitSlotStep, PrepareBeginStep,
     PrepareRecordStep, PrepareDropStep, PrepareAttachStep, WaitFlipDoneStep, WaitReturnsStep
     DEF GpuNext
<1>5. CASE Complete
  BY <1>5, CompleteStep
<1>6. CASE ShowNext
  BY <1>6, FlipPickStep, FlipBeginStep, FlipDoneStep, VblankEndStep DEF ShowNext
<1>7. CASE UNCHANGED vars
  <2>1. UNCHANGED <<port, queues, m_processing, calls, work, show, closer, live, fatal>>
    BY <1>7 DEF vars
  <2>2. TypeInv' /\ SamePorts
    BY <2>1 DEF IndInv, TypeInv, work, SamePorts
  <2> QED
    BY <2>1, <2>2, QuietFrame
<1> QED
  BY <1>1, <1>2, <1>3, <1>4, <1>5, <1>6, <1>7 DEF Next

(* ... and it is what it takes.                                            *)
LEMMA InvKeepsRequests ==
    ASSUME IndInv
    PROVE  RequestsKept
<1>1. TypeOK
  <2>1. Pending \cup m_cancelled_requests \subseteq Request
    BY RequestIds DEF IndInv, All
  <2> QED
    BY <2>1 DEF IndInv, TypeInv, QueueInv, PortTypes, TypeOK
<1>2. ProtocolHolds
  BY DEF IndInv, TypeInv, ProtocolHolds
<1> QED
  BY <1>1, <1>2 DEF IndInv, RequestsKept

LEMMA InvTellsTheTruth ==
    ASSUME IndInv
    PROVE  PortsTellTheTruth
<1>1. ASSUME NEW p \in Ports, ~port[p].opened, closer.port # p
      PROVE  IsOf(p) = {} /\ port[p].flipPendingNum = 0
  <2>1. ~Cancelling(p)
    BY <1>1 DEF Cancelling
  <2> QED
    BY <1>1, <2>1, NoneOfClosed DEF IndInv, PortInv
<1> QED
  BY <1>1 DEF IndInv, PortsTellTheTruth, ClosedPortIsQuiet

LEMMA Inductive == Spec => []IndInv
<1>1. Init => IndInv
  BY InitInv
<1>2. IndInv /\ [Next]_vars => IndInv'
  BY StepInv
<1> QED
  BY <1>1, <1>2, PTL DEF Spec

(* For any ports, surfaces, capacity and number of calls: the queue never  *)
(* holds more than VIDEO_OUT_FLIP_QUEUE_CAPACITY requests, no EXIT that    *)
(* guards the protocol of Prepare, Complete, Cancel and Flip is reached,   *)
(* and a frame of the presenter is in use exactly while a request that is  *)
(* queued or cancelled has it, or the GPU thread is about to attach it.    *)
THEOREM RequestsAreKept == Spec => []RequestsKept
<1>1. IndInv => RequestsKept
  BY InvKeepsRequests
<1> QED
  BY <1>1, Inductive, PTL

(* For any ports, surfaces, capacity and number of calls: what a port's    *)
(* status counts covers the requests the queue holds for it, the flips of  *)
(* the GPU exactly; once Close has returned there are none.                *)
THEOREM StatusIsTrue == Spec => []PortsTellTheTruth
<1>1. IndInv => PortsTellTheTruth
  BY InvTellsTheTruth
<1> QED
  BY <1>1, Inductive, PTL
=============================================================================
