---------------------- MODULE CommandSchedulerProofs ----------------------
(***************************************************************************)
(* Proofs about the command scheduler, for every set of operations, pool   *)
(* growth step and number of ticks.  IndInv is the inductive invariant;    *)
(* the theorems at the end follow from it.                                 *)
(***************************************************************************)
EXTENDS CommandScheduler, SequenceTheorems, WellFoundedInduction, TLAPS

(* The timeline: the device runs behind the host, and what it has not      *)
(* retired is exactly the consecutive run of ticks in between.             *)
TimelineInv ==
    /\ m_gpu_tick <= counter
    /\ Len(inFlight) = m_current_tick - 1 - counter
    /\ \A i \in 1..Len(inFlight) : inFlight[i].tick = counter + i

(* The pool: a buffer in flight carries the tick of its submission, the    *)
(* buffer being recorded carries the tick being recorded.                  *)
PoolInv ==
    /\ m_buffer \in 0..Len(m_ticks)
    /\ m_hint \in 1..(Len(m_ticks) + 1)
    /\ m_buffer # 0 => m_ticks[m_buffer] = m_current_tick
    /\ \A i \in 1..Len(inFlight) :
          /\ inFlight[i].buffer \in 1..Len(m_ticks)
          /\ m_ticks[inFlight[i].buffer] = inFlight[i].tick

(* Both queues are ordered by tick and never ahead of the open tick.       *)
Ordered(q, t) ==
    /\ \A i \in 1..Len(q) : q[i].tick <= t
    /\ \A i, j \in 1..Len(q) : i <= j => q[i].tick <= q[j].tick

QueueInv ==
    /\ Ordered(m_priority_operations, m_current_tick)
    /\ Ordered(m_pending_operations, m_current_tick)

(* The priority thread: m_priority_active covers exactly the time it holds  *)
(* an operation, which is the oldest, and runs it after its tick retired.   *)
PrioInv ==
    /\ pc["prio"] \in {"loop", "wait", "callback", "done", "exit"}
    /\ m_priority_active <=> pc["prio"] \in {"wait", "callback", "done"}
    /\ m_priority_active =>
         /\ held["prio"].op \in Ops
         /\ m_priority_active_tick = held["prio"].tick
         /\ held["prio"].tick <= m_current_tick
         /\ \A i \in 1..Len(m_priority_operations) :
                held["prio"].tick <= m_priority_operations[i].tick
    /\ ~m_priority_active => held["prio"] = NoOp
    /\ pc["prio"] \in {"callback", "done"} => held["prio"].tick <= counter

(* The owner: an operation it holds was popped for a retired tick, and when *)
(* its callback runs no priority work up to that tick is left.              *)
OwnerInv ==
    /\ pc["owner"] \in ThreadLabels \ {"loop", "done", "exit", "await"}
    /\ pc["owner"] = "callback" => held["owner"] # NoOp
    /\ held["owner"] # NoOp =>
         /\ pc["owner"] \in {"waitPriority", "callback"}
         /\ held["owner"].op \in Ops
         /\ held["owner"].tick <= counter
         /\ call \in {"Finish", "FinishAndDrain", "PopPendingOperations", "Shutdown"}
    /\ pc["owner"] = "callback" =>
         /\ \A i \in 1..Len(m_priority_operations) :
                m_priority_operations[i].tick > held["owner"].tick
         /\ m_priority_active => m_priority_active_tick > held["owner"].tick

(* The recorded command: there is one whenever the owner is between        *)
(* operations with registers bound, so a deferred operation's tick will be *)
(* submitted.                                                              *)
CommandInv ==
    /\ pc["owner"] = "submit" =>
         /\ m_buffer # 0
         /\ call \in {"Submit", "Flush", "FlushAndWait", "Finish", "FinishAndDrain", "Shutdown"}
         /\ call = "Submit" => ~m_registers
         /\ call \in {"Finish", "FinishAndDrain", "Shutdown"} => arg = m_current_tick
    /\ pc["owner"] = "wait" =>
         /\ call \in {"FlushAndWait", "Finish", "FinishAndDrain", "WaitOld", "Shutdown"}
         /\ call \in {"FlushAndWait", "Finish", "FinishAndDrain", "Shutdown"} => m_buffer = 0
    /\ pc["owner"] = "begin" => m_buffer = 0 /\ call # "Shutdown"
    /\ pc["owner"] = "refresh" =>
         call \in {"Finish", "FinishAndDrain", "PopPendingOperations", "Shutdown"}
    /\ pc["owner"] = "pop" =>
         call \in {"Finish", "FinishAndDrain", "PopPendingOperations", "Shutdown"}
    /\ pc["owner"] = "waitPriority" /\ held["owner"] = NoOp =>
         call = "WaitPriorityOperations"
    /\ pc["owner"] = "drain" => call \in {"FinishAndDrain", "Shutdown"}
    /\ pc["owner"] \in {"stop", "join", "close"} => call = "Shutdown"
    /\ ~m_registers => m_priority_operations = <<>> /\ m_pending_operations = <<>>
    /\ m_registers /\ m_operation_state = "Open" /\ m_buffer = 0 =>
         \/ pc["owner"] = "begin"
         \/ pc["owner"] = "wait" /\ call \in {"FlushAndWait", "Finish", "FinishAndDrain"}

(* Every tick before t covers both queues and the running callback.        *)
AllBefore(t) ==
    /\ \A i \in 1..Len(m_priority_operations) : m_priority_operations[i].tick < t
    /\ \A i \in 1..Len(m_pending_operations) : m_pending_operations[i].tick < t

(* The drain: its owner works off ticks that were all submitted, then that *)
(* the device has retired, until both queues are empty and stay so.        *)
DrainInv ==
    /\ call = "Shutdown" <=> m_operation_state # "Open"
    /\ m_operation_state = "Closed" => pc["owner"] = "idle"
    /\ m_operation_state = "Draining" => pc["owner"] # "idle"
    /\ call = "Shutdown" /\ pc["owner"] # "submit" => AllBefore(m_current_tick)
    /\ call = "Shutdown" /\ pc["owner"] = "wait" => arg = m_current_tick - 1
    /\ call = "Shutdown" /\ pc["owner"] \notin {"submit", "wait"} =>
           m_gpu_tick = m_current_tick - 1
    /\ call = "Shutdown" /\ pc["owner"] \in {"drain", "stop", "join", "close", "idle"} =>
           m_pending_operations = <<>>
    /\ call = "Shutdown" /\ pc["owner"] \in {"stop", "join", "close", "idle"} => Drained
    /\ stop => call = "Shutdown" /\ pc["owner"] \in {"join", "close", "idle"}

IndInv ==
    /\ TypeOK
    /\ TimelineInv
    /\ PoolInv
    /\ QueueInv
    /\ PrioInv
    /\ OwnerInv
    /\ CommandInv
    /\ DrainInv

-----------------------------------------------------------------------------
(* A non-empty set of naturals holds its minimum.                          *)
LEMMA MinInSet ==
    ASSUME NEW S \in SUBSET Nat, S # {}
    PROVE  Min(S) \in S
<1>1. PICK x \in S : \A y \in S : <<y, x>> \notin OpToRel(<, Nat)
  BY NatLessThanWellFounded, WFMin, Zenon
<1>2. \A y \in S : ~ (y < x)
  BY <1>1, Zenon DEF OpToRel
<1>3. \A y \in S : x =< y
  BY <1>2
<1>. QED BY <1>3 DEF Min

(* A run of zeros is a sequence of naturals.                               *)
LEMMA ZerosIsSeq ==
    ASSUME NEW n \in Nat
    PROVE  /\ [i \in 1..n |-> 0] \in Seq(Nat)
           /\ Len([i \in 1..n |-> 0]) = n
  OBVIOUS

(* Pushing on a queue: what the longer sequence holds.                     *)
LEMMA AppendFacts ==
    ASSUME NEW S, NEW s \in Seq(S), NEW e \in S
    PROVE  /\ Append(s, e) \in Seq(S) /\ Len(s) \in Nat
           /\ Len(Append(s, e)) = Len(s) + 1
           /\ \A i \in 1..Len(s) : Append(s, e)[i] = s[i]
           /\ Append(s, e)[Len(s) + 1] = e
  OBVIOUS

(* Popping a queue: its front, and what the shorter sequence holds.        *)
LEMMA TailFacts ==
    ASSUME NEW S, NEW s \in Seq(S), s # <<>>
    PROVE  /\ Head(s) \in S /\ Head(s) = s[1]
           /\ Tail(s) \in Seq(S) /\ Len(s) \in Nat \ {0}
           /\ Len(Tail(s)) = Len(s) - 1
           /\ \A i \in 1..(Len(s) - 1) : Tail(s)[i] = s[i + 1]
  OBVIOUS

(* The pool hint stays within the pool: the range of a remainder.          *)
LEMMA ModRange ==
    ASSUME NEW a \in Nat, NEW n \in Nat \ {0}
    PROVE  a % n \in 0..(n - 1)
  OBVIOUS

(* CommandPool::Commit hands out a buffer of the pool whose previous tick  *)
(* the host knows to be retired, or a new one; it tags that buffer with    *)
(* the open tick and leaves the others alone.                              *)
LEMMA CommitHandsOutFree ==
    ASSUME TypeOK, m_hint \in 1..(Len(m_ticks) + 1), Commit
    PROVE  /\ m_gpu_tick' \in {m_gpu_tick, counter}
           /\ m_ticks' \in Seq(Nat) /\ m_hint' \in 1..Len(m_ticks')
           /\ Len(m_ticks) <= Len(m_ticks')
           /\ m_buffer' \in 1..Len(m_ticks')
           /\ m_ticks'[m_buffer'] = m_current_tick
           /\ \A j \in 1..Len(m_ticks) : j # m_buffer' => m_ticks'[j] = m_ticks[j]
           /\ m_buffer' \in 1..Len(m_ticks) => m_ticks[m_buffer'] <= m_gpu_tick'
<1> DEFINE size   == Len(m_ticks)
           cached == FreeIn(m_gpu_tick, m_hint..size)
           known  == IF cached # {} THEN m_gpu_tick ELSE counter
           ahead  == FreeIn(known, m_hint..size)
           behind == FreeIn(known, 1..(m_hint - 1))
           grown  == m_ticks \o [i \in 1..GrowStep |-> 0]
           found  == IF ahead # {} THEN Min(ahead)
                     ELSE IF behind # {} THEN Min(behind)
                     ELSE size + 1
           ticks  == IF ahead \cup behind # {} THEN m_ticks ELSE grown
<1>1. /\ m_gpu_tick' = known
      /\ m_ticks' = [ticks EXCEPT ![found] = m_current_tick]
      /\ m_hint' = (found % Len(ticks)) + 1
      /\ m_buffer' = found
  BY DEF Commit, NextHint
<1>2. size \in Nat /\ m_ticks \in Seq(Nat) /\ m_hint \in Nat \ {0}
  BY DEF TypeOK
<1>3. /\ grown \in Seq(Nat) /\ Len(grown) = size + GrowStep
      /\ \A j \in 1..size : grown[j] = m_ticks[j]
  BY <1>2, ZerosIsSeq, GrowStepAssumption, ConcatProperties
<1>4. known \in {m_gpu_tick, counter} /\ known \in Nat /\ m_current_tick \in Nat
  BY DEF TypeOK
<1>5. \A i \in 1..size : m_ticks[i] \in Nat
  BY <1>2
<1>6. \A i \in ahead \cup behind : i \in 1..size /\ m_ticks[i] <= known
  <2> HIDE DEF known, size
  <2>. QED BY <1>2, <1>4, <1>5 DEF FreeIn, size
<1>7. CASE ahead \cup behind # {}
  <2>1. found \in ahead \cup behind
    <3> HIDE DEF ahead, behind
    <3>1. ahead \in SUBSET Nat /\ behind \in SUBSET Nat
      BY <1>6
    <3>2. CASE ahead # {}
      BY <3>1, <3>2, MinInSet
    <3>3. CASE ahead = {}
      BY <3>1, <3>3, <1>7, MinInSet
    <3>. QED BY <3>2, <3>3
  <2>2. found \in 1..size /\ m_ticks[found] <= known
    BY <2>1, <1>6
  <2>3. ticks = m_ticks
    BY <1>7
  <2> HIDE DEF size, cached, known, ahead, behind, grown, found, ticks
  <2>4. m_ticks' = [m_ticks EXCEPT ![found] = m_current_tick]
    BY <1>1, <2>3
  <2>5. /\ m_ticks' \in Seq(Nat) /\ Len(m_ticks') = Len(m_ticks)
        /\ \A j \in 1..Len(m_ticks) :
              m_ticks'[j] = IF j = found THEN m_current_tick ELSE m_ticks[j]
    BY <2>2, <2>4, <1>2, <1>4, ExceptSeq DEF size
  <2>6. m_hint' \in 1..Len(m_ticks')
    <3>1. found \in Nat /\ Len(m_ticks) \in Nat \ {0}
      BY <1>2, <2>2 DEF size
    <3>2. found % Len(m_ticks) \in 0..(Len(m_ticks) - 1)
      BY <3>1, ModRange
    <3>. QED BY <1>1, <2>3, <2>5, <3>1, <3>2
  <2>7. found \in 1..Len(m_ticks) /\ Len(m_ticks) \in Nat
    BY <1>2, <2>2 DEF size
  <2>. QED BY <1>1, <1>4, <2>2, <2>5, <2>6, <2>7
<1>8. CASE ahead \cup behind = {}
  <2>1. found = size + 1 /\ ticks = grown
    BY <1>8
  <2> HIDE DEF size, cached, known, ahead, behind, grown, found, ticks
  <2>2. found \in 1..Len(grown)
    BY <1>2, <1>3, <2>1, GrowStepAssumption
  <2>3. m_ticks' = [grown EXCEPT ![found] = m_current_tick]
    BY <1>1, <2>1
  <2>4. /\ m_ticks' \in Seq(Nat) /\ Len(m_ticks') = Len(grown)
        /\ \A j \in 1..Len(grown) :
              m_ticks'[j] = IF j = found THEN m_current_tick ELSE grown[j]
    BY <2>2, <2>3, <1>3, <1>4, ExceptSeq
  <2>5. m_hint' \in 1..Len(m_ticks')
    <3>1. found \in Nat /\ Len(grown) \in Nat \ {0}
      BY <1>2, <1>3, <2>2, GrowStepAssumption
    <3>2. found % Len(grown) \in 0..(Len(grown) - 1)
      BY <3>1, ModRange
    <3>. QED BY <1>1, <2>1, <2>4, <3>1, <3>2
  <2>. QED BY <1>1, <1>2, <1>3, <1>4, <2>1, <2>2, <2>4, <2>5, GrowStepAssumption DEF size
<1>. QED BY <1>7, <1>8

-----------------------------------------------------------------------------
(* The steps that wait for, park on or notify the condition variable.      *)
CondvarStep ==
    \/ PriorityWaitBlocks \/ DrainBlocks \/ PrioBlocks \/ LateBlocks
    \/ \E t \in Threads : Condvar(t)

(* Waiting for m_operation_available and being woken leave the rest alone. *)
LEMMA CondvarFrame ==
    ASSUME CondvarStep
    PROVE  UNCHANGED <<timeline, pool, queues, active, m_operation_state, stop,
                       threads, ran>>
  BY Zenon DEF CondvarStep, PriorityWaitBlocks, DrainBlocks, PrioBlocks, LateBlocks,
     BlockOn, Condvar, Park, NotifyOne, NotifyAll

(* The public operations only start: they change no tick, buffer or queue. *)
LEMMA CallFrame ==
    ASSUME OwnerCalls \/ Shutdown
    PROVE  UNCHANGED <<timeline, m_ticks, m_hint, m_buffer, queues, active,
                       m_operation_mutex, cv, stop, held, ran>>
  BY Zenon DEF OwnerCalls, Shutdown, Begin, BeginCommand, SubmitOnly, Flush, FlushAndWait,
     Finish, WaitOld, WaitPriorityOperations, PopPendingOperations, FinishAndDrain, Start

(* Only these steps touch the timeline or the pool.                        *)
LEMMA TimelineFrame ==
    ASSUME Next
    PROVE  \/ DeviceRetire \/ Submit \/ WaitTick \/ BeginNext \/ RefreshTick \/ PrioWaits
           \/ UNCHANGED <<timeline, m_ticks, m_hint, m_buffer>>
<1>1. ASSUME OwnerCalls \/ Shutdown
      PROVE  UNCHANGED <<timeline, m_ticks, m_hint, m_buffer>>
  BY <1>1, CallFrame
<1>2. ASSUME CondvarStep
      PROVE  UNCHANGED <<timeline, m_ticks, m_hint, m_buffer>>
  BY <1>2, CondvarFrame DEF pool
<1>3. ASSUME \/ PopDone \/ PopOperation \/ PriorityWaited \/ NormalCallbackReturns
             \/ PriorityDrained \/ RequestStop \/ Join \/ Close
             \/ PrioExits \/ PrioTakes \/ PrioCallbackReturns \/ PrioDone
             \/ LateProceeds \/ \E o \in Fresh \cup {"none"} : LateArrives(o)
             \/ \E t \in {"owner", "prio"}, o \in Fresh :
                    DeferOperation(t, o) \/ DeferPriorityOperation(t, o)
      PROVE  UNCHANGED <<timeline, m_ticks, m_hint, m_buffer>>
  BY <1>3 DEF PopDone, PopOperation, PriorityWaited, NormalCallbackReturns, PriorityDrained,
     RequestStop, Join, Close, PrioExits, PrioTakes, PrioCallbackReturns, PrioDone,
     LateProceeds, LateArrives, DeferOperation, DeferPriorityOperation, pool
<1>. QED BY <1>1, <1>2, <1>3 DEF Next, OwnerSteps, PrioSteps, CondvarStep

-----------------------------------------------------------------------------
(* The tick of Submit and the device retiring in order keep the timeline   *)
(* consecutive; nothing else moves it but a refresh of the known tick.     *)
LEMMA TimelineStep ==
    ASSUME TypeOK, TimelineInv, m_hint \in 1..(Len(m_ticks) + 1), Next
    PROVE  TimelineInv'
<1>0. /\ counter \in Nat /\ m_gpu_tick \in Nat /\ m_current_tick \in Nat /\ m_buffer \in Nat
      /\ inFlight \in Seq([tick : Nat, buffer : Nat])
  BY DEF TypeOK
<1>1. CASE DeviceRetire
  <2>1. /\ inFlight # <<>> /\ counter' = Head(inFlight).tick /\ inFlight' = Tail(inFlight)
        /\ UNCHANGED <<m_current_tick, m_gpu_tick>>
    BY <1>1 DEF DeviceRetire
  <2>2. counter' = counter + 1
    BY <2>1, <1>0, TailFacts DEF TimelineInv
  <2>3. /\ Len(inFlight') = Len(inFlight) - 1 /\ Len(inFlight) \in Nat
        /\ \A i \in 1..Len(inFlight') : inFlight'[i] = inFlight[i + 1]
    BY <2>1, <1>0, TailFacts
  <2>4. \A i \in 1..Len(inFlight') : inFlight'[i].tick = counter' + i
    <3> TAKE i \in 1..Len(inFlight')
    <3>1. i + 1 \in 1..Len(inFlight) /\ inFlight'[i] = inFlight[i + 1]
      BY <2>3
    <3>2. inFlight[i + 1].tick = counter + (i + 1)
      BY <3>1 DEF TimelineInv
    <3>. QED BY <3>1, <3>2, <2>2, <1>0
  <2>. QED BY <1>0, <2>1, <2>2, <2>3, <2>4 DEF TimelineInv
<1>2. CASE Submit
  <2>1. /\ m_current_tick' = m_current_tick + 1 /\ UNCHANGED <<m_gpu_tick, counter>>
        /\ inFlight' = Append(inFlight, [tick |-> m_current_tick, buffer |-> m_buffer])
    BY <1>2 DEF Submit
  <2>2. /\ Len(inFlight') = Len(inFlight) + 1 /\ Len(inFlight) \in Nat
        /\ inFlight'[Len(inFlight) + 1].tick = m_current_tick
        /\ \A i \in 1..Len(inFlight) : inFlight'[i] = inFlight[i]
    BY <2>1, <1>0, AppendFacts
  <2>. QED BY <1>0, <2>1, <2>2 DEF TimelineInv
<1>3. ASSUME UNCHANGED <<m_current_tick, counter, inFlight>>, m_gpu_tick' \in {m_gpu_tick, counter}
      PROVE  TimelineInv'
  BY <1>3 DEF TimelineInv, TypeOK
<1>4. CASE WaitTick \/ PrioWaits \/ RefreshTick
  BY <1>3, <1>4 DEF WaitTick, PrioWaits, RefreshTick, MasterWait
<1>5. CASE BeginNext
  BY <1>3, <1>5, CommitHandsOutFree DEF BeginNext
<1>6. CASE UNCHANGED <<timeline, m_ticks, m_hint, m_buffer>>
  BY <1>3, <1>6 DEF timeline
<1>. QED BY <1>1, <1>2, <1>4, <1>5, <1>6, TimelineFrame

(* Every step keeps the tags of CommandPool::m_ticks: Commit retags only a *)
(* buffer that is not in flight, Submit moves the recorded tag to the      *)
(* device queue.                                                           *)
LEMMA PoolStep ==
    ASSUME TypeOK, TimelineInv, PoolInv, NoFatalExit, Next
    PROVE  PoolInv'
<1>0. /\ counter \in Nat /\ m_gpu_tick \in Nat /\ m_current_tick \in Nat
      /\ m_ticks \in Seq(Nat) /\ Len(m_ticks) \in Nat /\ Len(inFlight) \in Nat
      /\ inFlight \in Seq([tick : Nat, buffer : Nat]) /\ m_buffer \in Nat
  BY DEF TypeOK
<1>1. CASE DeviceRetire
  <2>1. inFlight # <<>> /\ inFlight' = Tail(inFlight)
        /\ UNCHANGED <<m_current_tick, m_ticks, m_hint, m_buffer>>
    BY <1>1 DEF DeviceRetire, pool
  <2>2. /\ Len(inFlight') = Len(inFlight) - 1
        /\ \A i \in 1..Len(inFlight') : inFlight'[i] = inFlight[i + 1]
    BY <2>1, <1>0, TailFacts
  <2>3. \A i \in 1..Len(inFlight') :
            /\ inFlight'[i].buffer \in 1..Len(m_ticks)
            /\ m_ticks[inFlight'[i].buffer] = inFlight'[i].tick
    <3> TAKE i \in 1..Len(inFlight')
    <3>1. i + 1 \in 1..Len(inFlight) /\ inFlight'[i] = inFlight[i + 1]
      BY <1>0, <2>2
    <3>. QED BY <3>1 DEF PoolInv
  <2>. QED BY <2>1, <2>3 DEF PoolInv
<1>2. CASE Submit
  <2>1. /\ m_current_tick' = m_current_tick + 1 /\ m_buffer' = 0 /\ m_buffer # 0
        /\ inFlight' = Append(inFlight, [tick |-> m_current_tick, buffer |-> m_buffer])
        /\ UNCHANGED <<m_ticks, m_hint>>
    BY <1>2 DEF Submit, OwnerAt, NoFatalExit
  <2>2. /\ Len(inFlight') = Len(inFlight) + 1
        /\ inFlight'[Len(inFlight) + 1] = [tick |-> m_current_tick, buffer |-> m_buffer]
        /\ \A i \in 1..Len(inFlight) : inFlight'[i] = inFlight[i]
    BY <2>1, <1>0, AppendFacts
  <2>3. m_buffer \in 1..Len(m_ticks) /\ m_ticks[m_buffer] = m_current_tick
    BY <1>0, <2>1 DEF PoolInv
  <2>4. \A i \in 1..Len(inFlight') :
            /\ inFlight'[i].buffer \in 1..Len(m_ticks)
            /\ m_ticks[inFlight'[i].buffer] = inFlight'[i].tick
    <3> TAKE i \in 1..Len(inFlight')
    <3>1. CASE i = Len(inFlight) + 1
      BY <2>2, <2>3, <3>1
    <3>2. CASE i # Len(inFlight) + 1
      <4>1. i \in 1..Len(inFlight)
        BY <1>0, <2>2, <3>2
      <4>. QED BY <2>2, <4>1 DEF PoolInv
    <3>. QED BY <3>1, <3>2
  <2>5. 0 \in 0..Len(m_ticks)
    BY <1>0
  <2>. QED BY <2>1, <2>4, <2>5 DEF PoolInv
<1>3. CASE BeginNext
  <2>1. Commit /\ UNCHANGED <<m_current_tick, counter, inFlight>>
    BY <1>3 DEF BeginNext
  <2>2. \A i \in 1..Len(inFlight) : inFlight[i].buffer # m_buffer'
    <3> SUFFICES ASSUME NEW i \in 1..Len(inFlight), inFlight[i].buffer = m_buffer'
                 PROVE  FALSE
      OBVIOUS
    <3>1. m_buffer' \in 1..Len(m_ticks) /\ m_ticks[m_buffer'] = counter + i
      BY DEF PoolInv, TimelineInv
    <3>2. m_ticks[m_buffer'] <= m_gpu_tick' /\ m_gpu_tick' \in {m_gpu_tick, counter}
      BY <2>1, <3>1, CommitHandsOutFree DEF PoolInv
    <3>. QED BY <3>1, <3>2, <1>0 DEF TimelineInv
  <2>3. /\ m_ticks' \in Seq(Nat) /\ m_hint' \in 1..Len(m_ticks')
        /\ Len(m_ticks) <= Len(m_ticks')
        /\ m_buffer' \in 1..Len(m_ticks')
        /\ m_ticks'[m_buffer'] = m_current_tick
        /\ \A j \in 1..Len(m_ticks) : j # m_buffer' => m_ticks'[j] = m_ticks[j]
    BY <2>1, CommitHandsOutFree DEF PoolInv
  <2>4. \A i \in 1..Len(inFlight) :
            /\ inFlight[i].buffer \in 1..Len(m_ticks')
            /\ m_ticks'[inFlight[i].buffer] = inFlight[i].tick
    <3> TAKE i \in 1..Len(inFlight)
    <3>1. inFlight[i].buffer \in 1..Len(m_ticks) /\ m_ticks[inFlight[i].buffer] = inFlight[i].tick
      BY DEF PoolInv
    <3>2. inFlight[i].buffer # m_buffer'
      BY <2>2
    <3>3. m_ticks'[inFlight[i].buffer] = m_ticks[inFlight[i].buffer]
      BY <3>1, <3>2, <2>3
    <3>4. Len(m_ticks') \in Nat /\ Len(m_ticks) <= Len(m_ticks')
      BY <2>3
    <3>5. inFlight[i].buffer \in 1..Len(m_ticks')
      BY <3>1, <3>4, <1>0
    <3>. QED BY <3>1, <3>3, <3>5, Zenon
  <2>5. /\ m_buffer' \in 0..Len(m_ticks') /\ m_buffer' # 0
        /\ m_hint' \in 1..(Len(m_ticks') + 1)
    <3>1. Len(m_ticks') \in Nat
      BY <2>3
    <3>. QED BY <2>3, <3>1
  <2>. QED BY <2>1, <2>3, <2>4, <2>5 DEF PoolInv
<1>4. CASE WaitTick \/ PrioWaits \/ RefreshTick
  BY <1>4 DEF WaitTick, PrioWaits, RefreshTick, PoolInv, pool
<1>5. CASE UNCHANGED <<timeline, m_ticks, m_hint, m_buffer>>
  BY <1>5 DEF PoolInv, timeline
<1>. QED BY <1>1, <1>2, <1>3, <1>4, <1>5, TimelineFrame

-----------------------------------------------------------------------------
(* Entering a public operation keeps the types.                            *)
LEMMA StartType ==
    ASSUME TypeOK, NEW name \in Calls, NEW label \in ThreadLabels, NEW tick \in Nat,
           Start(name, label, tick),
           m_registers' \in BOOLEAN, m_operation_state' \in {"Open", "Draining", "Closed"}
    PROVE  TypeOK'
  BY DEF Start, Goto, TypeOK, timeline, queues, active

(* A step of a public operation leads to a label of the owner.             *)
LEMMA AfterStepLabel ==
    ASSUME NEW step \in {"submit", "wait", "begin", "pop", "drain"}
    PROVE  AfterStep(step) \in ThreadLabels
  BY DEF AfterStep, ThreadLabels

(* A step that moves a thread on, and at most learns a newer tick, keeps   *)
(* the types.                                                              *)
LEMMA GotoType ==
    ASSUME TypeOK, NEW t \in Threads, NEW label \in ThreadLabels, Goto(t, label),
           m_gpu_tick' \in Nat,
           UNCHANGED <<m_current_tick, counter, inFlight, pool, queues, active, control,
                       call, arg, held, ran>>
    PROVE  TypeOK'
<1>1. pc' \in [Threads -> ThreadLabels]
  BY DEF Goto, TypeOK
<1>. QED BY <1>1 DEF TypeOK, pool, queues, active, control

(* Every step keeps the types.                                             *)
LEMMA TypeStep ==
    ASSUME TypeOK, m_hint \in 1..(Len(m_ticks) + 1), PrioInv, OwnerInv, Next
    PROVE  TypeOK'
<1> USE DEF Threads, ThreadLabels, Calls, Pending, NoOp, Goto, timeline, pool, queues, active,
            control, threads
<1>1. CASE DeviceRetire
  <2>1. /\ Head(inFlight) \in [tick : Nat, buffer : Nat]
        /\ Tail(inFlight) \in Seq([tick : Nat, buffer : Nat])
    BY <1>1, TailFacts DEF DeviceRetire, TypeOK
  <2>2. counter' \in Nat /\ inFlight' \in Seq([tick : Nat, buffer : Nat])
    BY <1>1, <2>1 DEF DeviceRetire
  <2>3. UNCHANGED <<m_current_tick, m_gpu_tick, pool, queues, active, control, threads, ran>>
    BY <1>1 DEF DeviceRetire
  <2>. QED BY <2>2, <2>3 DEF TypeOK
<1>2. CASE OwnerCalls
  <2>0. /\ m_registers \in BOOLEAN /\ m_current_tick \in Nat
        /\ m_operation_state \in {"Open", "Draining", "Closed"}
    BY DEF TypeOK
  <2>1. CASE Begin
    <3>1. PICK label \in {"begin", "idle"} : Start("Begin", label, 0)
      BY <2>1 DEF Begin
    <3>. QED BY <2>0, <2>1, <3>1, StartType DEF Begin
  <2>2. CASE BeginCommand
    BY <2>0, <2>2, StartType DEF BeginCommand
  <2>3. CASE SubmitOnly
    BY <2>0, <2>3, StartType DEF SubmitOnly
  <2>4. CASE Flush
    BY <2>0, <2>4, StartType DEF Flush
  <2>5. CASE FlushAndWait
    BY <2>0, <2>5, StartType DEF FlushAndWait
  <2>6. CASE Finish
    BY <2>0, <2>6, StartType DEF Finish
  <2>7. ASSUME NEW tick \in 1..MaxTick, WaitOld(tick) \/ WaitPriorityOperations(tick)
        PROVE  TypeOK'
    <3>1. tick \in Nat
      BY MaxTickAssumption
    <3>. QED BY <2>0, <2>7, <3>1, StartType DEF WaitOld, WaitPriorityOperations
  <2>8. CASE PopPendingOperations
    BY <2>0, <2>8, StartType DEF PopPendingOperations
  <2>9. CASE FinishAndDrain
    BY <2>0, <2>9, StartType DEF FinishAndDrain
  <2>. QED BY <1>2, <2>1, <2>2, <2>3, <2>4, <2>5, <2>6, <2>7, <2>8, <2>9 DEF OwnerCalls
<1>3. CASE Shutdown
  <2>1. m_registers' \in BOOLEAN /\ m_operation_state' = "Draining"
    BY <1>3 DEF Shutdown, TypeOK
  <2>2. PICK label \in {"submit", "wait"}, tick \in {m_current_tick, m_current_tick - 1} :
            Start("Shutdown", label, tick)
    BY <1>3 DEF Shutdown
  <2>3. tick \in Nat
    BY DEF TypeOK
  <2>. QED BY <2>1, <2>2, <2>3, StartType
<1>4. CASE Submit
  <2>1. Append(inFlight, [tick |-> m_current_tick, buffer |-> m_buffer])
            \in Seq([tick : Nat, buffer : Nat])
    BY AppendFacts DEF TypeOK
  <2>2. AfterStep("submit") \in ThreadLabels
    BY DEF AfterStep
  <2>3. inFlight' \in Seq([tick : Nat, buffer : Nat]) /\ m_current_tick' \in Nat \ {0}
    BY <1>4, <2>1 DEF Submit, TypeOK
  <2>. QED BY <1>4, <2>2, <2>3 DEF Submit, TypeOK
<1>5. CASE WaitTick
  <2>1. Goto("owner", AfterStep("wait")) /\ AfterStep("wait") \in ThreadLabels
    BY <1>5, AfterStepLabel DEF WaitTick
  <2>2. /\ m_gpu_tick' \in Nat
        /\ UNCHANGED <<m_current_tick, counter, inFlight, pool, queues, active, control,
                       call, arg, held, ran>>
    BY <1>5 DEF WaitTick, MasterWait, TypeOK
  <2>. QED BY <2>1, <2>2, GotoType
<1>6. CASE BeginNext
  <2>1. m_gpu_tick' \in Nat /\ m_ticks' \in Seq(Nat) /\ m_hint' \in Nat \ {0} /\ m_buffer' \in Nat
    <3>1. /\ m_gpu_tick' \in {m_gpu_tick, counter} /\ m_ticks' \in Seq(Nat)
          /\ m_hint' \in 1..Len(m_ticks') /\ m_buffer' \in 1..Len(m_ticks')
      BY <1>6, CommitHandsOutFree DEF BeginNext
    <3>2. Len(m_ticks') \in Nat /\ m_gpu_tick \in Nat /\ counter \in Nat
      BY <3>1 DEF TypeOK
    <3>. QED BY <3>1, <3>2
  <2>2. AfterStep("begin") \in ThreadLabels
    BY DEF AfterStep
  <2>3. /\ pc' = [pc EXCEPT !["owner"] = AfterStep("begin")]
        /\ UNCHANGED <<m_current_tick, counter, inFlight, m_registers, queues, active, control,
                       call, arg, held, ran>>
    BY <1>6 DEF BeginNext
  <2>4. pc' \in [Threads -> ThreadLabels]
    BY <2>2, <2>3 DEF TypeOK
  <2> HIDE DEF Threads, ThreadLabels, Calls, Pending, NoOp
  <2>. QED BY <2>1, <2>3, <2>4 DEF TypeOK
<1>7. CASE RefreshTick
  <2>1. /\ Goto("owner", "pop") /\ m_gpu_tick' \in Nat
        /\ UNCHANGED <<m_current_tick, counter, inFlight, pool, queues, active, control,
                       call, arg, held, ran>>
    BY <1>7 DEF RefreshTick, TypeOK
  <2>. QED BY <2>1, GotoType
<1>8. CASE PopDone
  <2>1. Goto("owner", AfterStep("pop")) /\ AfterStep("pop") \in ThreadLabels
    BY <1>8, AfterStepLabel DEF PopDone
  <2>2. /\ m_gpu_tick' \in Nat
        /\ UNCHANGED <<m_current_tick, counter, inFlight, pool, queues, active, control,
                       call, arg, held, ran>>
    BY <1>8 DEF PopDone, TypeOK
  <2>. QED BY <2>1, <2>2, GotoType
<1>9. CASE PopOperation
  <2>1. Head(m_pending_operations) \in Pending /\ Tail(m_pending_operations) \in Seq(Pending)
    BY <1>9, TailFacts DEF PopOperation, Poppable, TypeOK
  <2>2. held' \in [Threads -> [op : Ops \cup {"none"}, tick : Nat]]
    BY <1>9, <2>1 DEF PopOperation, TypeOK
  <2>3. /\ pc' = [pc EXCEPT !["owner"] = "waitPriority"]
        /\ m_pending_operations' = Tail(m_pending_operations)
        /\ UNCHANGED <<timeline, pool, m_priority_operations, active, control, call, arg, ran>>
    BY <1>9 DEF PopOperation
  <2>4. pc' \in [Threads -> ThreadLabels]
    BY <2>3 DEF TypeOK
  <2> HIDE DEF Threads, ThreadLabels, Calls, Pending, NoOp
  <2>. QED BY <2>1, <2>2, <2>3, <2>4 DEF TypeOK
<1>10. CASE PriorityWaited
  <2>1. PICK label \in {"idle", "callback"} : Goto("owner", label)
    BY <1>10 DEF PriorityWaited
  <2>2. /\ m_gpu_tick' \in Nat
        /\ UNCHANGED <<m_current_tick, counter, inFlight, pool, queues, active, control,
                       call, arg, held, ran>>
    BY <1>10 DEF PriorityWaited, TypeOK
  <2>. QED BY <2>1, <2>2, GotoType
<1>11. CASE NormalCallbackReturns
  BY <1>11 DEF NormalCallbackReturns, OwnerAt, OwnerInv, TypeOK
<1>12. CASE PriorityDrained
  <2>1. Goto("owner", AfterStep("drain")) /\ AfterStep("drain") \in ThreadLabels
    BY <1>12, AfterStepLabel DEF PriorityDrained
  <2>2. /\ m_gpu_tick' \in Nat
        /\ UNCHANGED <<m_current_tick, counter, inFlight, pool, queues, active, control,
                       call, arg, held, ran>>
    BY <1>12 DEF PriorityDrained, TypeOK
  <2>. QED BY <2>1, <2>2, GotoType
<1>13. CASE RequestStop \/ Join \/ Close
  <2>1. CASE RequestStop
    BY <2>1 DEF RequestStop, TypeOK
  <2>2. CASE Join
    BY <2>2 DEF Join, TypeOK
  <2>3. CASE Close
    BY <2>3 DEF Close, TypeOK
  <2>. QED BY <1>13, <2>1, <2>2, <2>3
<1>14. CASE PrioExits
  <2>1. Goto("prio", "exit")
    BY <1>14 DEF PrioExits
  <2>2. /\ m_gpu_tick' \in Nat
        /\ UNCHANGED <<m_current_tick, counter, inFlight, pool, queues, active, control,
                       call, arg, held, ran>>
    BY <1>14 DEF PrioExits, TypeOK
  <2>. QED BY <2>1, <2>2, GotoType
<1>15. CASE PrioTakes
  <2>1. /\ Head(m_priority_operations) \in Pending
        /\ Tail(m_priority_operations) \in Seq(Pending)
    BY <1>15, TailFacts DEF PrioTakes, TypeOK
  <2>2. held' \in [Threads -> [op : Ops \cup {"none"}, tick : Nat]]
    BY <1>15, <2>1 DEF PrioTakes, TypeOK
  <2>3. /\ pc' = [pc EXCEPT !["prio"] = "wait"]
        /\ m_priority_operations' = Tail(m_priority_operations)
        /\ m_priority_active' = TRUE
        /\ m_priority_active_tick' = Head(m_priority_operations).tick
        /\ UNCHANGED <<timeline, pool, m_pending_operations, control, call, arg, ran>>
    BY <1>15 DEF PrioTakes
  <2>4. pc' \in [Threads -> ThreadLabels] /\ m_priority_active' \in BOOLEAN
    BY <2>3 DEF TypeOK
  <2>5. m_priority_active_tick' \in Nat
    BY <2>1, <2>3
  <2> HIDE DEF Threads, ThreadLabels, Calls, Pending, NoOp
  <2>. QED BY <2>1, <2>2, <2>3, <2>4, <2>5 DEF TypeOK
<1>16. CASE PrioWaits
  BY <1>16 DEF PrioWaits, MasterWait, TypeOK
<1>17. CASE PrioCallbackReturns
  BY <1>17 DEF PrioCallbackReturns, PrioAt, PrioInv, TypeOK
<1>18. CASE PrioDone
  <2>1. /\ held' \in [Threads -> [op : Ops \cup {"none"}, tick : Nat]]
        /\ cv' \in [Threads -> {"run", "park", "asleep", "one", "all"}]
        /\ pc' \in [Threads -> ThreadLabels]
    BY <1>18 DEF PrioDone, TypeOK
  <2>2. /\ m_priority_active' = FALSE /\ m_priority_active_tick' = 0
        /\ UNCHANGED <<timeline, pool, queues, m_operation_state, m_operation_mutex, stop,
                       call, arg, ran>>
    BY <1>18 DEF PrioDone
  <2>3. m_priority_active' \in BOOLEAN /\ m_priority_active_tick' \in Nat
    BY <2>2
  <2> HIDE DEF Threads, ThreadLabels, Calls, Pending, NoOp
  <2>. QED BY <2>1, <2>2, <2>3 DEF TypeOK
<1>19. ASSUME NEW t \in {"owner", "prio"}, NEW o \in Fresh, DeferOperation(t, o)
       PROVE  TypeOK'
  <2>1. [op |-> o, tick |-> m_current_tick] \in Pending
    BY DEF Fresh, TypeOK
  <2>2. Append(m_pending_operations, [op |-> o, tick |-> m_current_tick]) \in Seq(Pending)
    BY <2>1, AppendFacts DEF TypeOK
  <2>3. m_pending_operations' \in Seq(Pending) /\ ran' \subseteq Ops
    BY <1>19, <2>2 DEF DeferOperation, Fresh, TypeOK
  <2>. QED BY <1>19, <2>3 DEF DeferOperation, TypeOK
<1>20. ASSUME NEW t \in {"owner", "prio"}, NEW o \in Fresh, DeferPriorityOperation(t, o)
       PROVE  TypeOK'
  <2>1. [op |-> o, tick |-> m_current_tick] \in Pending
    BY DEF Fresh, TypeOK
  <2>2. Append(m_priority_operations, [op |-> o, tick |-> m_current_tick]) \in Seq(Pending)
    BY <2>1, AppendFacts DEF TypeOK
  <2>3. m_priority_operations' \in Seq(Pending) /\ ran' \subseteq Ops
    BY <1>20, <2>2 DEF DeferPriorityOperation, Fresh, TypeOK
  <2>4. cv' \in [Threads -> {"run", "park", "asleep", "one", "all"}]
    BY <1>20 DEF DeferPriorityOperation, TypeOK
  <2>. QED BY <1>20, <2>3, <2>4 DEF DeferPriorityOperation, TypeOK
<1>21. ASSUME NEW o \in Fresh \cup {"none"}, LateArrives(o)
       PROVE  TypeOK'
  <2>1. o \in Ops \cup {"none"}
    BY DEF Fresh
  <2>2. held' \in [Threads -> [op : Ops \cup {"none"}, tick : Nat]]
    BY <1>21, <2>1 DEF LateArrives, TypeOK
  <2>3. /\ pc' = [pc EXCEPT !["late"] = "await"]
        /\ UNCHANGED <<timeline, pool, queues, active, control, call, arg, ran>>
    BY <1>21 DEF LateArrives
  <2>. QED BY <2>2, <2>3 DEF TypeOK
<1>22. CASE LateProceeds
  <2>1. ran' \subseteq Ops
    BY <1>22 DEF LateProceeds, TypeOK
  <2>. QED BY <1>22, <2>1 DEF LateProceeds, TypeOK
<1>23. CASE CondvarStep
  <2>1. UNCHANGED <<timeline, pool, queues, active, m_operation_state, stop, threads, ran>>
    BY <1>23, CondvarFrame
  <2>2. /\ m_operation_mutex' \in Threads \cup {"free"}
        /\ cv' \in [Threads -> {"run", "park", "asleep", "one", "all"}]
    <3>0. cv \in [Threads -> {"run", "park", "asleep", "one", "all"}]
      BY DEF TypeOK
    <3>1. ASSUME NEW t \in Threads, BlockOn(t) PROVE <2>2!1 /\ <2>2!2
      BY <3>0, <3>1 DEF BlockOn
    <3>2. ASSUME NEW t \in Threads, Park(t) PROVE <2>2!1 /\ <2>2!2
      BY <3>2 DEF Park, TypeOK
    <3>3. ASSUME NEW t \in Threads, NotifyOne(t) PROVE <2>2!1 /\ <2>2!2
      BY <3>3 DEF NotifyOne, Sleepers, TypeOK
    <3>4. ASSUME NEW t \in Threads, NotifyAll(t) PROVE <2>2!1 /\ <2>2!2
      BY <3>4 DEF NotifyAll, TypeOK
    <3>. QED BY <1>23, <3>1, <3>2, <3>3, <3>4 DEF CondvarStep, PriorityWaitBlocks, DrainBlocks,
         PrioBlocks, LateBlocks, Condvar
  <2>. QED BY <2>1, <2>2 DEF TypeOK
<1>. QED
  BY <1>1, <1>2, <1>3, <1>4, <1>5, <1>6, <1>7, <1>8, <1>9, <1>10, <1>11, <1>12, <1>13, <1>14,
     <1>15, <1>16, <1>17, <1>18, <1>19, <1>20, <1>21, <1>22, <1>23
     DEF Next, OwnerSteps, PrioSteps, CondvarStep

-----------------------------------------------------------------------------
(* Popping keeps a queue ordered, and the popped operation is the oldest.  *)
LEMMA OrderedTail ==
    ASSUME NEW q \in Seq(Pending), q # <<>>, NEW t \in Nat, Ordered(q, t)
    PROVE  /\ Ordered(Tail(q), t)
           /\ Head(q).tick <= t
           /\ \A i \in 1..Len(Tail(q)) : Head(q).tick <= Tail(q)[i].tick
<1>1. /\ Head(q) = q[1] /\ Len(q) \in Nat \ {0} /\ Len(Tail(q)) = Len(q) - 1
      /\ \A i \in 1..(Len(q) - 1) : Tail(q)[i] = q[i + 1]
  BY TailFacts
<1>2. \A i \in 1..(Len(q) - 1) : 1 \in 1..Len(q) /\ i + 1 \in 1..Len(q) /\ 1 <= i + 1
  BY <1>1
<1>3. \A i, j \in 1..(Len(q) - 1) : i <= j => i + 1 <= j + 1
  OBVIOUS
<1>. QED BY <1>1, <1>2, <1>3 DEF Ordered

(* Deferring on the open tick keeps a queue ordered.                       *)
LEMMA OrderedAppend ==
    ASSUME NEW q \in Seq(Pending), NEW t \in Nat, Ordered(q, t), NEW e \in Pending, e.tick = t
    PROVE  Ordered(Append(q, e), t)
<1>1. /\ Len(q) \in Nat /\ Len(Append(q, e)) = Len(q) + 1
      /\ \A i \in 1..Len(q) : Append(q, e)[i] = q[i]
      /\ Append(q, e)[Len(q) + 1] = e
  BY AppendFacts
<1>2. ASSUME NEW i \in 1..(Len(q) + 1)
      PROVE  Append(q, e)[i].tick <= t
  <2>1. CASE i = Len(q) + 1
    BY <1>1, <2>1
  <2>2. CASE i \in 1..Len(q)
    BY <1>1, <2>2 DEF Ordered
  <2>. QED BY <1>1, <2>1, <2>2
<1>3. ASSUME NEW i \in 1..(Len(q) + 1), NEW j \in 1..(Len(q) + 1), i <= j
      PROVE  Append(q, e)[i].tick <= Append(q, e)[j].tick
  <2>1. CASE j = Len(q) + 1
    BY <1>1, <1>2, <2>1
  <2>2. CASE j # Len(q) + 1
    <3>1. i \in 1..Len(q) /\ j \in 1..Len(q)
      BY <1>1, <1>3, <2>2
    <3>. QED BY <1>1, <1>3, <3>1 DEF Ordered
  <2>. QED BY <2>1, <2>2
<1>. QED BY <1>1, <1>2, <1>3 DEF Ordered

(* A submission opens a later tick: the queues stay behind it.             *)
LEMMA OrderedLater ==
    ASSUME NEW q \in Seq(Pending), NEW t \in Nat, Ordered(q, t)
    PROVE  Ordered(q, t + 1)
<1>1. \A i \in 1..Len(q) : q[i].tick \in Nat
  <2> TAKE i \in 1..Len(q)
  <2>1. q[i] \in Pending
    BY ElementOfSeq
  <2>. QED BY <2>1 DEF Pending
<1>2. \A i \in 1..Len(q) : q[i].tick <= t + 1
  BY <1>1 DEF Ordered
<1>. QED BY <1>2 DEF Ordered

(* What is queued carries a tick.                                          *)
LEMMA QueuedTick ==
    ASSUME NEW q \in Seq(Pending), NEW i \in 1..Len(q)
    PROVE  q[i] \in Pending /\ q[i].tick \in Nat /\ q[i].op \in Ops
<1>1. q[i] \in Pending
  BY ElementOfSeq
<1>. QED BY <1>1 DEF Pending

(* Only these steps touch the queues.                                      *)
DeferStep(t, o) == DeferOperation(t, o) \/ DeferPriorityOperation(t, o)

(* m_pending_operations and m_priority_operations change only when a       *)
(* callback is deferred, popped or taken by the priority thread.           *)
LEMMA QueueFrame ==
    ASSUME Next
    PROVE  \/ PopOperation \/ PrioTakes
           \/ \E t \in {"owner", "prio"}, o \in Fresh : DeferStep(t, o)
           \/ UNCHANGED queues
<1>1. ASSUME OwnerCalls \/ Shutdown \/ CondvarStep
      PROVE  UNCHANGED queues
  BY <1>1, CallFrame, CondvarFrame DEF queues
<1>2. ASSUME \/ DeviceRetire \/ Submit \/ WaitTick \/ BeginNext \/ RefreshTick
             \/ PopDone \/ PriorityWaited \/ NormalCallbackReturns
             \/ PriorityDrained \/ RequestStop \/ Join \/ Close
             \/ PrioExits \/ PrioWaits \/ PrioCallbackReturns \/ PrioDone
             \/ LateProceeds \/ \E o \in Fresh \cup {"none"} : LateArrives(o)
      PROVE  UNCHANGED queues
  BY <1>2, Zenon DEF DeviceRetire, Submit, WaitTick, BeginNext, RefreshTick, PopDone, PriorityWaited,
     NormalCallbackReturns, PriorityDrained, RequestStop, Join, Close, PrioExits, PrioWaits,
     PrioCallbackReturns, PrioDone, LateProceeds, LateArrives
<1>. QED BY <1>1, <1>2 DEF Next, OwnerSteps, PrioSteps, CondvarStep, DeferStep

(* Only the priority thread's own steps touch its state.                   *)
LEMMA PrioFrame ==
    ASSUME TypeOK, Next
    PROVE  \/ PrioExits \/ PrioTakes \/ PrioWaits \/ PrioCallbackReturns \/ PrioDone
           \/ UNCHANGED <<pc["prio"], held["prio"], active>>
<1> USE DEF Goto, threads
<1>1. ASSUME OwnerCalls \/ Shutdown
      PROVE  UNCHANGED <<pc["prio"], held["prio"], active>>
  <2>1. UNCHANGED <<held, active>>
    BY <1>1, CallFrame
  <2>2. \E l : pc' = [pc EXCEPT !["owner"] = l]
    BY <1>1 DEF OwnerCalls, Shutdown, Begin, BeginCommand, SubmitOnly, Flush, FlushAndWait,
       Finish, WaitOld, WaitPriorityOperations, PopPendingOperations, FinishAndDrain, Start
  <2>. QED BY <2>1, <2>2 DEF TypeOK, Threads
<1>2. ASSUME CondvarStep
      PROVE  UNCHANGED <<pc["prio"], held["prio"], active>>
  BY <1>2, CondvarFrame
<1>3. ASSUME \/ DeviceRetire
             \/ \E t \in {"owner", "prio"}, o \in Fresh : DeferStep(t, o)
      PROVE  UNCHANGED <<pc["prio"], held["prio"], active>>
  BY <1>3, Zenon DEF DeviceRetire, DeferStep, DeferOperation, DeferPriorityOperation
<1>4. ASSUME \/ Submit \/ WaitTick \/ BeginNext \/ RefreshTick \/ PopDone \/ PriorityWaited
             \/ PriorityDrained \/ RequestStop \/ Join \/ Close
      PROVE  UNCHANGED <<pc["prio"], held["prio"], active>>
  <2>1. \E l : pc' = [pc EXCEPT !["owner"] = l]
    BY <1>4 DEF Submit, WaitTick, BeginNext, RefreshTick, PopDone, PriorityWaited,
       PriorityDrained, RequestStop, Join, Close
  <2>2. UNCHANGED <<held, active>>
    BY <1>4 DEF Submit, WaitTick, BeginNext, RefreshTick, PopDone, PriorityWaited,
       PriorityDrained, RequestStop, Join, Close
  <2>. QED BY <2>1, <2>2 DEF TypeOK, Threads
<1>5. ASSUME PopOperation \/ NormalCallbackReturns \/ LateProceeds
             \/ \E o \in Fresh \cup {"none"} : LateArrives(o)
      PROVE  UNCHANGED <<pc["prio"], held["prio"], active>>
  BY <1>5 DEF PopOperation, NormalCallbackReturns, LateProceeds, LateArrives, TypeOK, Threads
<1>. QED BY <1>1, <1>2, <1>3, <1>4, <1>5
         DEF Next, OwnerSteps, PrioSteps, CondvarStep, DeferStep

(* Every step keeps both queues ordered by tick.                           *)
LEMMA QueueStep ==
    ASSUME TypeOK, QueueInv, Next
    PROVE  QueueInv'
<1>0. /\ m_pending_operations \in Seq(Pending) /\ m_priority_operations \in Seq(Pending)
      /\ m_current_tick \in Nat
  BY DEF TypeOK
<1>1. ASSUME UNCHANGED queues
      PROVE  QueueInv'
  <2>1. m_current_tick' \in {m_current_tick, m_current_tick + 1}
    BY TimelineFrame DEF DeviceRetire, Submit, WaitTick, BeginNext, RefreshTick, PrioWaits, timeline
  <2>. QED BY <1>0, <1>1, <2>1, OrderedLater DEF QueueInv, queues
<1>2. CASE PopOperation
  <2>1. /\ m_pending_operations # <<>> /\ m_pending_operations' = Tail(m_pending_operations)
        /\ UNCHANGED <<m_priority_operations, m_current_tick>>
    BY <1>2 DEF PopOperation, Poppable, timeline
  <2>. QED BY <1>0, <2>1, OrderedTail DEF QueueInv
<1>3. CASE PrioTakes
  <2>1. /\ m_priority_operations # <<>> /\ m_priority_operations' = Tail(m_priority_operations)
        /\ UNCHANGED <<m_pending_operations, m_current_tick>>
    BY <1>3 DEF PrioTakes, timeline
  <2>. QED BY <1>0, <2>1, OrderedTail DEF QueueInv
<1>4. ASSUME NEW t \in {"owner", "prio"}, NEW o \in Fresh, DeferStep(t, o)
      PROVE  QueueInv'
  <2>1. [op |-> o, tick |-> m_current_tick] \in Pending
    BY <1>0 DEF Fresh, Pending
  <2>2. UNCHANGED m_current_tick
    BY <1>4 DEF DeferStep, DeferOperation, DeferPriorityOperation, timeline
  <2>3. /\ m_pending_operations' \in {m_pending_operations,
              Append(m_pending_operations, [op |-> o, tick |-> m_current_tick])}
        /\ m_priority_operations' \in {m_priority_operations,
              Append(m_priority_operations, [op |-> o, tick |-> m_current_tick])}
    BY <1>4 DEF DeferStep, DeferOperation, DeferPriorityOperation
  <2>. QED BY <1>0, <2>1, <2>2, <2>3, OrderedAppend DEF QueueInv
<1>. QED BY <1>1, <1>2, <1>3, <1>4, QueueFrame

(* Neither the open tick nor the counter of the device ever goes back.     *)
LEMMA CounterGrows ==
    ASSUME TypeOK, TimelineInv, Next
    PROVE  /\ m_current_tick <= m_current_tick' /\ m_current_tick' \in Nat
           /\ counter <= counter' /\ counter' \in Nat
<1>0. /\ m_current_tick \in Nat /\ counter \in Nat
      /\ inFlight \in Seq([tick : Nat, buffer : Nat])
  BY DEF TypeOK
<1>1. CASE DeviceRetire
  <2>1. inFlight # <<>> /\ counter' = Head(inFlight).tick /\ UNCHANGED m_current_tick
    BY <1>1 DEF DeviceRetire
  <2>2. counter' = counter + 1
    BY <1>0, <2>1, TailFacts DEF TimelineInv
  <2>. QED BY <1>0, <2>1, <2>2
<1>2. CASE Submit
  BY <1>0, <1>2 DEF Submit
<1>3. CASE \/ WaitTick \/ BeginNext \/ RefreshTick \/ PrioWaits
           \/ UNCHANGED <<timeline, m_ticks, m_hint, m_buffer>>
  BY <1>0, <1>3 DEF WaitTick, BeginNext, RefreshTick, PrioWaits, timeline
<1>. QED BY <1>1, <1>2, <1>3, TimelineFrame

(* What happens to the priority queue while the priority thread is busy.   *)
LEMMA PriorityQueueFrame ==
    ASSUME TypeOK, Next, ~PrioTakes
    PROVE  \/ UNCHANGED m_priority_operations
           \/ /\ m_operation_state = "Open"
              /\ m_registers
              /\ UNCHANGED <<m_current_tick, m_registers, m_operation_state, pc, held, call>>
              /\ \E o \in Ops : m_priority_operations' =
                    Append(m_priority_operations, [op |-> o, tick |-> m_current_tick])
<1>1. ASSUME NEW t \in {"owner", "prio"}, NEW o \in Fresh, DeferPriorityOperation(t, o)
      PROVE  \/ UNCHANGED m_priority_operations
             \/ /\ m_operation_state = "Open"
                /\ m_registers
                /\ UNCHANGED <<m_current_tick, m_registers, m_operation_state, pc, held, call>>
                /\ o \in Ops
                /\ m_priority_operations' =
                      Append(m_priority_operations, [op |-> o, tick |-> m_current_tick])
  BY <1>1, Zenon DEF DeferPriorityOperation, MayDefer, Fresh, threads, timeline, pool
<1>2. ASSUME NEW t \in {"owner", "prio"}, NEW o \in Fresh, DeferOperation(t, o)
      PROVE  UNCHANGED m_priority_operations
  BY <1>2 DEF DeferOperation
<1>. QED BY <1>1, <1>2, QueueFrame DEF DeferStep, PopOperation, queues

(* Every step keeps what m_priority_active says of the operation the       *)
(* priority thread has taken.                                              *)
LEMMA PrioStep ==
    ASSUME TypeOK, TimelineInv, QueueInv, PrioInv, m_hint \in 1..(Len(m_ticks) + 1), Next
    PROVE  PrioInv'
<1>0. /\ m_priority_operations \in Seq(Pending) /\ m_current_tick \in Nat /\ counter \in Nat
      /\ m_gpu_tick \in Nat /\ held["prio"] \in [op : Ops \cup {"none"}, tick : Nat]
      /\ Len(inFlight) \in Nat
  BY DEF TypeOK, Threads
<1>1. m_current_tick <= m_current_tick' /\ counter <= counter' /\ m_current_tick' \in Nat /\ counter' \in Nat
  BY CounterGrows
<1>2. CASE PrioTakes
  <2>1. /\ m_priority_operations # <<>> /\ m_priority_operations' = Tail(m_priority_operations)
        /\ held'["prio"] = Head(m_priority_operations)
        /\ m_priority_active' = TRUE
        /\ m_priority_active_tick' = Head(m_priority_operations).tick
        /\ pc'["prio"] = "wait"
        /\ UNCHANGED m_current_tick
    BY <1>2 DEF PrioTakes, Goto, timeline, TypeOK, Threads
  <2>2. Head(m_priority_operations) \in Pending
    BY <1>0, <2>1, TailFacts
  <2>3. /\ Head(m_priority_operations).tick <= m_current_tick
        /\ \A i \in 1..Len(Tail(m_priority_operations)) :
              Head(m_priority_operations).tick <= Tail(m_priority_operations)[i].tick
    BY <1>0, <2>1, OrderedTail DEF QueueInv
  <2>. QED BY <2>1, <2>2, <2>3 DEF PrioInv, Pending
<1>3. CASE PrioExits
  BY <1>3 DEF PrioExits, PrioInv, Goto, PrioAt, timeline, queues, active, TypeOK, Threads
<1>4. CASE PrioWaits
  <2>1. /\ pc["prio"] = "wait" /\ pc'["prio"] \in {"callback", "done"}
        /\ UNCHANGED <<m_current_tick, counter, m_priority_operations, m_priority_active,
                       m_priority_active_tick, held>>
    BY <1>4 DEF PrioWaits, PrioAt, Goto, queues, active, TypeOK, Threads
  <2>2. held["prio"].tick <= counter
    BY <1>0, <1>4 DEF PrioWaits, MasterWait, IsFree, TimelineInv
  <2>. QED BY <2>1, <2>2 DEF PrioInv
<1>5. CASE PrioCallbackReturns
  BY <1>5 DEF PrioCallbackReturns, PrioInv, Goto, PrioAt, timeline, queues, active, TypeOK, Threads
<1>6. CASE PrioDone
  BY <1>6 DEF PrioDone, PrioInv, Goto, PrioAt, timeline, queues, TypeOK, Threads
<1>7. CASE UNCHANGED <<pc["prio"], held["prio"], active>> /\ ~PrioTakes
  <2>1. UNCHANGED <<m_priority_active, m_priority_active_tick>>
    BY <1>7 DEF active
  <2>2. CASE UNCHANGED m_priority_operations
    BY <1>0, <1>1, <1>7, <2>1, <2>2 DEF PrioInv
  <2>3. ASSUME NEW o \in Ops, UNCHANGED m_current_tick,
               m_priority_operations' = Append(m_priority_operations, [op |-> o, tick |-> m_current_tick])
        PROVE  PrioInv'
    <3>1. [op |-> o, tick |-> m_current_tick] \in Pending
      BY <1>0 DEF Pending
    <3>2. /\ Len(m_priority_operations) \in Nat
          /\ Len(m_priority_operations') = Len(m_priority_operations) + 1
          /\ \A i \in 1..Len(m_priority_operations) : m_priority_operations'[i] = m_priority_operations[i]
          /\ m_priority_operations'[Len(m_priority_operations) + 1].tick = m_current_tick
      BY <1>0, <2>3, <3>1, AppendFacts
    <3>3. m_priority_active => \A i \in 1..Len(m_priority_operations') :
              held["prio"].tick <= m_priority_operations'[i].tick
      BY <3>2 DEF PrioInv
    <3>. QED BY <1>0, <1>1, <1>7, <2>1, <3>3 DEF PrioInv
  <2>. QED BY <1>7, <2>2, <2>3, PriorityQueueFrame
<1>. QED BY <1>2, <1>3, <1>4, <1>5, <1>6, <1>7, PrioFrame

-----------------------------------------------------------------------------
OwnerStates == ThreadLabels \ {"loop", "done", "exit", "await"}

(* Only the owner's own steps touch its state, the phase and the stop flag. *)
OwnerMoves ==
    \/ Submit \/ WaitTick \/ BeginNext \/ RefreshTick \/ PopDone \/ PopOperation
    \/ PriorityWaited \/ NormalCallbackReturns \/ PriorityDrained \/ RequestStop \/ Join \/ Close

ownerState == <<pc["owner"], held["owner"], call, arg, m_operation_state, stop, m_registers,
                m_buffer>>

(* The calls of CommandScheduler advance on the owner's steps alone.       *)
LEMMA OwnerFrame ==
    ASSUME TypeOK, Next
    PROVE  OwnerCalls \/ Shutdown \/ OwnerMoves \/ UNCHANGED ownerState
<1> USE DEF ownerState
<1>1. ASSUME \/ CondvarStep \/ DeviceRetire
             \/ \E t \in {"owner", "prio"}, o \in Fresh : DeferStep(t, o)
      PROVE  UNCHANGED ownerState
  BY <1>1, CondvarFrame, Zenon
     DEF DeviceRetire, DeferStep, DeferOperation, DeferPriorityOperation, threads, pool, control
<1>2. ASSUME \/ PrioExits \/ PrioTakes \/ PrioWaits \/ PrioCallbackReturns \/ PrioDone
             \/ LateProceeds \/ \E o \in Fresh \cup {"none"} : LateArrives(o)
      PROVE  UNCHANGED ownerState
  BY <1>2 DEF PrioExits, PrioTakes, PrioWaits, PrioCallbackReturns, PrioDone, LateProceeds, LateArrives,
     Goto, threads, pool, control, TypeOK, Threads
<1>. QED BY <1>1, <1>2 DEF Next, OwnerSteps, OwnerMoves, PrioSteps, CondvarStep, DeferStep

(* A public operation leaves "idle" for one of its first steps.            *)
LEMMA CallStarts ==
    ASSUME TypeOK, OwnerCalls \/ Shutdown
    PROVE  /\ pc["owner"] = "idle" /\ m_operation_state = "Open"
           /\ pc'["owner"] \in {"idle", "begin", "submit", "wait", "refresh", "waitPriority"}
<1>1. PICK name, label, tick :
        /\ Start(name, label, tick)
        /\ label \in {"idle", "begin", "submit", "wait", "refresh", "waitPriority"}
  BY DEF OwnerCalls, Shutdown, Begin, BeginCommand, SubmitOnly, Flush, FlushAndWait,
     Finish, WaitOld, WaitPriorityOperations, PopPendingOperations, FinishAndDrain
<1>. QED BY <1>1 DEF Start, OwnerAt, Goto, TypeOK, Threads

(* A popped operation's tick lies before the tick being recorded.          *)
LEMMA RetiredBeforeCurrent ==
    ASSUME TypeOK, TimelineInv
    PROVE  counter < m_current_tick
  BY DEF TypeOK, TimelineInv

(* While an ordinary callback runs, priority work it had to wait for does   *)
(* not reappear.                                                            *)
NoPriorityUpTo(t) ==
    /\ \A i \in 1..Len(m_priority_operations) : m_priority_operations[i].tick > t
    /\ m_priority_active => m_priority_active_tick > t

(* Priority work of a retired tick that is finished does not reappear: new *)
(* work is deferred on the open tick.                                      *)
LEMMA PriorityStaysAhead ==
    ASSUME TypeOK, TimelineInv, Next, NEW t \in Nat, t <= counter, NoPriorityUpTo(t)
    PROVE  NoPriorityUpTo(t)'
<1>0. /\ m_priority_operations \in Seq(Pending) /\ m_current_tick \in Nat /\ counter \in Nat
  BY DEF TypeOK
<1>1. CASE PrioTakes
  <2>1. /\ m_priority_operations # <<>> /\ m_priority_operations' = Tail(m_priority_operations)
        /\ m_priority_active_tick' = Head(m_priority_operations).tick
    BY <1>1 DEF PrioTakes
  <2>2. /\ Head(m_priority_operations) = m_priority_operations[1]
        /\ Len(m_priority_operations) \in Nat \ {0}
        /\ Len(m_priority_operations') = Len(m_priority_operations) - 1
        /\ \A i \in 1..(Len(m_priority_operations) - 1) :
              m_priority_operations'[i] = m_priority_operations[i + 1]
    BY <1>0, <2>1, TailFacts
  <2>3. \A i \in 1..(Len(m_priority_operations) - 1) : i + 1 \in 1..Len(m_priority_operations)
    BY <2>2
  <2>. QED BY <2>1, <2>2, <2>3 DEF NoPriorityUpTo
<1>2. CASE ~PrioTakes
  <2>1. m_priority_active' => m_priority_active /\ UNCHANGED m_priority_active_tick
    BY <1>2, PrioFrame DEF PrioExits, PrioWaits, PrioCallbackReturns, PrioDone, active
  <2>2. \A i \in 1..Len(m_priority_operations') : m_priority_operations'[i].tick > t
    <3>1. CASE UNCHANGED m_priority_operations
      BY <3>1 DEF NoPriorityUpTo
    <3>2. ASSUME NEW o \in Ops,
                 m_priority_operations' =
                   Append(m_priority_operations, [op |-> o, tick |-> m_current_tick])
          PROVE  \A i \in 1..Len(m_priority_operations') : m_priority_operations'[i].tick > t
      <4>1. [op |-> o, tick |-> m_current_tick] \in Pending
        BY <1>0 DEF Pending
      <4>2. /\ Len(m_priority_operations) \in Nat
            /\ Len(m_priority_operations') = Len(m_priority_operations) + 1
            /\ \A i \in 1..Len(m_priority_operations) :
                  m_priority_operations'[i] = m_priority_operations[i]
            /\ m_priority_operations'[Len(m_priority_operations) + 1].tick = m_current_tick
        BY <1>0, <3>2, <4>1, AppendFacts
      <4>3. m_current_tick > t
        BY <1>0, RetiredBeforeCurrent
      <4>. QED BY <4>2, <4>3 DEF NoPriorityUpTo
    <3>. QED BY <1>2, <3>1, <3>2, PriorityQueueFrame
  <2>. QED BY <2>1, <2>2 DEF NoPriorityUpTo
<1>. QED BY <1>1, <1>2

(* Every step keeps what the owner knows of the operation it has popped.   *)
LEMMA OwnerStep ==
    ASSUME TypeOK, TimelineInv, QueueInv, PrioInv, OwnerInv, CommandInv, Next
    PROVE  OwnerInv'
<1> USE DEF Goto, OwnerAt
<1>0. /\ pc \in [Threads -> ThreadLabels] /\ "owner" \in Threads
      /\ held \in [Threads -> [op : Ops \cup {"none"}, tick : Nat]]
      /\ counter \in Nat /\ m_gpu_tick \in Nat /\ m_pending_operations \in Seq(Pending)
      /\ counter <= counter' /\ counter' \in Nat
  BY CounterGrows DEF TypeOK, Threads
<1>1. ASSUME pc'["owner"] \in OwnerStates \ {"callback"}, held'["owner"] = NoOp
      PROVE  OwnerInv'
  BY <1>1 DEF OwnerInv, OwnerStates
<1>2. CASE OwnerCalls \/ Shutdown
  <2>1. held'["owner"] = NoOp
    BY <1>2, CallStarts, CallFrame DEF OwnerInv
  <2>2. pc'["owner"] \in OwnerStates \ {"callback"}
    BY <1>2, CallStarts DEF OwnerStates, ThreadLabels
  <2>. QED BY <1>1, <2>1, <2>2
<1>3. CASE \/ Submit \/ WaitTick \/ BeginNext \/ RefreshTick \/ PopDone \/ PriorityDrained
           \/ RequestStop \/ Join \/ Close
  <2>1. pc["owner"] \notin {"waitPriority", "callback"} /\ UNCHANGED held
    BY <1>3 DEF Submit, WaitTick, BeginNext, RefreshTick, PopDone, PriorityDrained, RequestStop,
       Join, Close
  <2>2. held'["owner"] = NoOp
    BY <2>1 DEF OwnerInv
  <2>3. \A step \in {"submit", "wait", "begin", "pop", "drain"} :
            AfterStep(step) \in {"idle", "begin", "wait", "refresh", "drain", "stop"}
    BY DEF AfterStep
  <2>4. PICK l \in {"idle", "begin", "wait", "refresh", "drain", "stop", "pop", "join", "close"} :
            pc' = [pc EXCEPT !["owner"] = l]
    <3> HIDE DEF OwnerAt
    <3>. QED BY <1>3, <2>3 DEF Submit, WaitTick, BeginNext, RefreshTick, PopDone, PriorityDrained,
             RequestStop, Join, Close
  <2>5. pc'["owner"] \in OwnerStates \ {"callback"}
    BY <1>0, <2>4 DEF OwnerStates, ThreadLabels
  <2>. QED BY <1>1, <2>2, <2>5
<1>4. CASE PopOperation
  <2>1. /\ held'["owner"] = Head(m_pending_operations) /\ pc'["owner"] = "waitPriority"
        /\ UNCHANGED call /\ pc["owner"] = "pop"
        /\ m_pending_operations # <<>> /\ m_gpu_tick >= Head(m_pending_operations).tick
    BY <1>0, <1>4 DEF PopOperation, Poppable, IsFree
  <2>2. Head(m_pending_operations) \in Pending
    BY <1>0, <2>1, TailFacts
  <2>3. Head(m_pending_operations).tick <= counter
    BY <1>0, <2>1, <2>2 DEF TimelineInv, Pending
  <2>4. Head(m_pending_operations).tick <= counter'
    BY <1>0, <2>2, <2>3 DEF Pending
  <2>. QED BY <2>1, <2>2, <2>4 DEF OwnerInv, CommandInv, Pending, ThreadLabels
<1>5. CASE PriorityWaited
  <2>1. /\ pc["owner"] = "waitPriority" /\ ~PriorityPending(WaitedTick)
        /\ pc' = [pc EXCEPT !["owner"] = IF held["owner"] = NoOp THEN "idle" ELSE "callback"]
        /\ UNCHANGED <<held, call, counter, m_priority_operations, m_priority_active,
                       m_priority_active_tick>>
    BY <1>5 DEF PriorityWaited, timeline, queues, active
  <2>2. CASE held["owner"] = NoOp
    BY <1>0, <1>1, <2>1, <2>2 DEF OwnerStates, ThreadLabels
  <2>3. CASE held["owner"] # NoOp
    <3>1. pc'["owner"] = "callback" /\ WaitedTick = held["owner"].tick
      BY <1>0, <2>1, <2>3 DEF WaitedTick
    <3>2. m_priority_active => m_priority_active_tick > held["owner"].tick
      BY <1>0, <2>1, <3>1 DEF PriorityPending, TypeOK
    <3>3. \A i \in 1..Len(m_priority_operations) : m_priority_operations[i].tick > held["owner"].tick
      <4>0. m_priority_operations \in Seq(Pending) /\ held["owner"].tick \in Nat
        BY <1>0 DEF TypeOK
      <4> TAKE i \in 1..Len(m_priority_operations)
      <4>1. m_priority_operations # <<>> /\ Head(m_priority_operations) = m_priority_operations[1]
        BY <4>0
      <4>2. 1 \in 1..Len(m_priority_operations) /\ 1 <= i
        BY <4>0
      <4>3. m_priority_operations[1] \in Pending /\ m_priority_operations[i] \in Pending
        BY <4>0, <4>2, ElementOfSeq
      <4>4. m_priority_operations[1].tick <= m_priority_operations[i].tick
        BY <4>2 DEF QueueInv, Ordered
      <4>5. m_priority_operations[1].tick > held["owner"].tick
        BY <2>1, <3>1, <4>0, <4>1, <4>3 DEF PriorityPending, Pending
      <4>. QED BY <4>0, <4>3, <4>4, <4>5 DEF Pending
    <3>. QED BY <2>1, <2>3, <3>1, <3>2, <3>3 DEF OwnerInv, ThreadLabels
  <2>. QED BY <2>2, <2>3
<1>6. CASE NormalCallbackReturns
  <2>1. held'["owner"] = NoOp /\ pc'["owner"] = "pop"
    BY <1>0, <1>6 DEF NormalCallbackReturns
  <2>. QED BY <1>1, <2>1 DEF OwnerStates, ThreadLabels
<1>7. CASE UNCHANGED ownerState
  <2>1. UNCHANGED <<pc["owner"], held["owner"], call>>
    BY <1>7 DEF ownerState
  <2>2. pc["owner"] = "callback" =>
          /\ \A i \in 1..Len(m_priority_operations') :
                 m_priority_operations'[i].tick > held["owner"].tick
          /\ m_priority_active' => m_priority_active_tick' > held["owner"].tick
    <3> SUFFICES ASSUME pc["owner"] = "callback"
                 PROVE  /\ \A i \in 1..Len(m_priority_operations') :
                               m_priority_operations'[i].tick > held["owner"].tick
                        /\ m_priority_active' => m_priority_active_tick' > held["owner"].tick
      OBVIOUS
    <3>1. PICK t \in Nat : t = held["owner"].tick
      BY <1>0
    <3>2. t <= counter /\ NoPriorityUpTo(t)
      BY <3>1 DEF OwnerInv, NoPriorityUpTo
    <3>3. /\ \A i \in 1..Len(m_priority_operations') : m_priority_operations'[i].tick > t
          /\ m_priority_active' => m_priority_active_tick' > t
      BY <3>2, PriorityStaysAhead DEF NoPriorityUpTo
    <3>. QED BY <3>1, <3>3
  <2>3. held["owner"] # NoOp => held["owner"].tick <= counter'
    BY <1>0 DEF OwnerInv
  <2>. QED BY <2>1, <2>2, <2>3 DEF OwnerInv
<1>. QED BY <1>2, <1>3, <1>4, <1>5, <1>6, <1>7, OwnerFrame DEF OwnerMoves

-----------------------------------------------------------------------------
(* Ordinary operations too are queued only while the scheduler is open.    *)
LEMMA PendingQueueFrame ==
    ASSUME TypeOK, Next
    PROVE  \/ UNCHANGED m_pending_operations
           \/ PopOperation
           \/ m_operation_state = "Open" /\ m_registers
<1>1. ASSUME NEW t \in {"owner", "prio"}, NEW o \in Fresh, DeferStep(t, o)
      PROVE  UNCHANGED m_pending_operations \/ (m_operation_state = "Open" /\ m_registers)
  BY <1>1, Zenon DEF DeferStep, DeferOperation, DeferPriorityOperation, MayDefer
<1>. QED BY <1>1, QueueFrame DEF PrioTakes, queues

(* Without bound registers, or once draining, empty queues stay empty.     *)
LEMMA QueuesEmptyUnbound ==
    ASSUME TypeOK, Next, m_priority_operations = <<>> /\ m_pending_operations = <<>>,
           m_operation_state # "Open" \/ ~m_registers
    PROVE  m_priority_operations' = <<>> /\ m_pending_operations' = <<>>
<1>1. ~PrioTakes /\ ~PopOperation
  BY DEF PrioTakes, PopOperation, Poppable
<1>. QED BY <1>1, PriorityQueueFrame, PendingQueueFrame

(* Every step keeps the sequencing of Submit, wait and BeginNext: when     *)
(* there is a command to record into, and in which operation.              *)
LEMMA CommandStep ==
    ASSUME TypeOK, OwnerInv, CommandInv, DrainInv, PoolInv, Next
    PROVE  CommandInv'
<1> USE DEF Goto, OwnerAt
<1>0. /\ pc \in [Threads -> ThreadLabels] /\ "owner" \in Threads
      /\ held \in [Threads -> [op : Ops \cup {"none"}, tick : Nat]]
      /\ m_current_tick \in Nat
  BY DEF TypeOK, Threads
<1>1. ~m_registers' => m_priority_operations' = <<>> /\ m_pending_operations' = <<>>
  <2> SUFFICES ASSUME ~m_registers'
               PROVE  m_priority_operations' = <<>> /\ m_pending_operations' = <<>>
    OBVIOUS
  <2>1. ~m_registers
    <3>1. CASE OwnerCalls \/ Shutdown
      BY <3>1, Zenon DEF OwnerCalls, Shutdown, Begin, BeginCommand, SubmitOnly, Flush, FlushAndWait,
         Finish, WaitOld, WaitPriorityOperations, PopPendingOperations, FinishAndDrain
    <3>2. CASE OwnerMoves
      BY <3>2 DEF OwnerMoves, Submit, WaitTick, BeginNext, RefreshTick, PopDone, PopOperation,
         PriorityWaited, NormalCallbackReturns, PriorityDrained, RequestStop, Join, Close, pool
    <3>3. CASE UNCHANGED ownerState
      BY <3>3 DEF ownerState
    <3>. QED BY <3>1, <3>2, <3>3, OwnerFrame
  <2>. QED BY <2>1, QueuesEmptyUnbound DEF CommandInv
<1>2. ASSUME OwnerCalls
      PROVE  CommandInv'
  <2>0. /\ held["owner"] = NoOp /\ pc["owner"] = "idle" /\ UNCHANGED <<held, m_buffer, m_current_tick>>
        /\ m_operation_state = "Open" /\ UNCHANGED m_operation_state
    BY <1>2, CallStarts, CallFrame DEF OwnerInv, timeline, OwnerCalls, Begin, BeginCommand, SubmitOnly,
       Flush, FlushAndWait, Finish, WaitOld, WaitPriorityOperations, PopPendingOperations, FinishAndDrain
  <2>1. \/ /\ call' = "Begin" /\ m_registers'
           /\ \/ m_buffer = 0 /\ pc'["owner"] = "begin"
              \/ m_buffer # 0 /\ pc'["owner"] = "idle"
        \/ /\ call' = "BeginCommand" /\ pc'["owner"] = "begin"
           /\ m_buffer = 0 /\ UNCHANGED m_registers
        \/ /\ call' = "Submit" /\ pc'["owner"] = "submit"
           /\ m_buffer # 0 /\ ~m_registers /\ UNCHANGED m_registers
        \/ /\ call' \in {"Flush", "FlushAndWait", "Finish", "FinishAndDrain"}
           /\ pc'["owner"] = "submit"
           /\ m_buffer # 0 /\ UNCHANGED m_registers
           /\ call' # "Flush" => arg' = m_current_tick
        \/ call' = "WaitOld" /\ pc'["owner"] = "wait" /\ UNCHANGED m_registers
        \/ /\ call' = "WaitPriorityOperations" /\ pc'["owner"] = "waitPriority"
           /\ UNCHANGED m_registers
        \/ /\ call' = "PopPendingOperations" /\ pc'["owner"] = "refresh"
           /\ UNCHANGED m_registers
    <3>1. CASE Begin
      <4>1. /\ call' = "Begin" /\ m_registers' = TRUE /\ arg' = 0
            /\ pc' = [pc EXCEPT !["owner"] = IF m_buffer = 0 THEN "begin" ELSE "idle"]
        BY <3>1 DEF Begin, Start
      <4>2. CASE m_buffer = 0
        BY <1>0, <4>1, <4>2
      <4>3. CASE m_buffer # 0
        BY <1>0, <4>1, <4>3
      <4>. QED BY <4>2, <4>3
    <3>2. CASE BeginCommand \/ SubmitOnly
      BY <1>0, <3>2 DEF BeginCommand, SubmitOnly, MaySubmit, Start
    <3>3. CASE Flush \/ FlushAndWait
      BY <1>0, <3>3 DEF Flush, FlushAndWait, MaySubmit, Start
    <3>4. CASE Finish \/ FinishAndDrain
      BY <1>0, <3>4 DEF Finish, FinishAndDrain, MaySubmit, Start
    <3>5. CASE \E tick \in 1..MaxTick : WaitOld(tick) \/ WaitPriorityOperations(tick)
      BY <1>0, <3>5 DEF WaitOld, WaitPriorityOperations, Start
    <3>6. CASE PopPendingOperations
      BY <1>0, <3>6 DEF PopPendingOperations, Start
    <3>. QED BY <1>2, <3>1, <3>2, <3>3, <3>4, <3>5, <3>6 DEF OwnerCalls
  <2>. QED BY <1>1, <2>0, <2>1 DEF CommandInv
<1>3. CASE Shutdown
  <2>1. /\ held["owner"] = NoOp /\ UNCHANGED <<held, m_buffer, m_current_tick>>
        /\ pc["owner"] = "idle"
    BY <1>3, CallStarts, CallFrame DEF OwnerInv, timeline
  <2>2. /\ call' = "Shutdown" /\ m_operation_state' = "Draining" /\ UNCHANGED m_registers
        /\ \/ m_buffer # 0 /\ pc'["owner"] = "submit" /\ arg' = m_current_tick
           \/ m_buffer = 0 /\ pc'["owner"] = "wait"
    BY <1>0, <1>3 DEF Shutdown, Start
  <2>. QED BY <1>1, <2>1, <2>2 DEF CommandInv
<1>4. CASE Submit
  <2>1. /\ pc["owner"] = "submit" /\ m_buffer' = 0
        /\ UNCHANGED <<m_registers, call, arg, held, m_operation_state>>
        /\ pc'["owner"] = IF call = "Flush" THEN "begin" ELSE IF call = "Submit" THEN "idle" ELSE "wait"
    BY <1>0, <1>4 DEF Submit, AfterStep, control
  <2>. QED BY <1>1, <2>1 DEF CommandInv, DrainInv, OwnerInv
<1>5. CASE WaitTick
  <2>1. /\ pc["owner"] = "wait"
        /\ UNCHANGED <<m_registers, call, arg, held, m_operation_state, m_buffer>>
        /\ pc'["owner"] = IF call = "Shutdown" THEN "refresh" ELSE IF call = "WaitOld" THEN "idle" ELSE "begin"
    BY <1>0, <1>5 DEF WaitTick, AfterStep, control, pool
  <2>. QED BY <1>1, <2>1 DEF CommandInv, DrainInv, OwnerInv
<1>6. CASE BeginNext
  <2>1. /\ pc["owner"] = "begin" /\ m_buffer' # 0
        /\ UNCHANGED <<m_registers, call, arg, held, m_operation_state>>
        /\ pc'["owner"] = IF call \in {"Finish", "FinishAndDrain"} THEN "refresh" ELSE "idle"
    <3>1. m_buffer' \in 1..Len(m_ticks')
      BY <1>6, CommitHandsOutFree DEF BeginNext, PoolInv
    <3>. QED BY <1>0, <1>6, <3>1 DEF BeginNext, AfterStep, control
  <2>. QED BY <1>1, <2>1 DEF CommandInv, DrainInv, OwnerInv
<1>7. CASE \/ RefreshTick \/ PopDone \/ PopOperation \/ PriorityWaited \/ NormalCallbackReturns
           \/ PriorityDrained \/ RequestStop \/ Join
  <2>0. /\ UNCHANGED <<m_registers, call, arg, m_operation_state, m_buffer>>
    BY <1>7 DEF RefreshTick, PopDone, PopOperation, PriorityWaited, NormalCallbackReturns, PriorityDrained,
       RequestStop, Join, control, pool
  <2>1. /\ pc["owner"] \notin {"submit", "wait", "begin"}
        /\ pc'["owner"] \notin {"submit", "wait", "begin"}
    BY <1>0, <1>7 DEF RefreshTick, PopDone, PopOperation, PriorityWaited, NormalCallbackReturns, PriorityDrained,
       RequestStop, Join, AfterStep
  <2>2. /\ pc'["owner"] = "pop" => call \in {"Finish", "FinishAndDrain", "PopPendingOperations", "Shutdown"}
        /\ pc'["owner"] = "waitPriority" => held'["owner"] # NoOp
        /\ pc'["owner"] = "drain" => call \in {"FinishAndDrain", "Shutdown"}
        /\ pc'["owner"] \in {"stop", "join", "close"} => call = "Shutdown"
        /\ pc'["owner"] # "refresh"
    <3>1. CASE RefreshTick \/ PopDone \/ PriorityWaited \/ PriorityDrained \/ RequestStop \/ Join
      BY <1>0, <3>1 DEF RefreshTick, PopDone, PriorityWaited, PriorityDrained,
         RequestStop, Join, AfterStep, CommandInv
    <3>2. CASE PopOperation
      <4>1. Head(m_pending_operations) \in Pending
        BY <3>2, TailFacts DEF PopOperation, Poppable, TypeOK
      <4>. QED BY <1>0, <3>2, <4>1, OpsAssumption DEF PopOperation, Pending, NoOp
    <3>3. CASE NormalCallbackReturns
      BY <1>0, <3>3 DEF NormalCallbackReturns, OwnerInv
    <3>. QED BY <1>7, <3>1, <3>2, <3>3
  <2>. QED BY <1>1, <2>0, <2>1, <2>2 DEF CommandInv
<1>8. CASE Close
  <2>1. /\ pc'["owner"] = "idle" /\ m_operation_state' = "Closed"
    BY <1>0, <1>8 DEF Close
  <2>. QED BY <1>1, <2>1 DEF CommandInv
<1>9. CASE UNCHANGED ownerState /\ ~OwnerMoves
  <2>1. UNCHANGED m_current_tick
    BY <1>9, TimelineFrame DEF DeviceRetire, OwnerMoves, PrioWaits, timeline
  <2>. QED BY <1>1, <1>9, <2>1 DEF CommandInv, ownerState
<1>. QED BY <1>2, <1>3, <1>4, <1>5, <1>6, <1>7, <1>8, <1>9, OwnerFrame DEF OwnerMoves

-----------------------------------------------------------------------------
(* The known tick is only ever brought up to the device's counter.         *)
LEMMA KnownTickStep ==
    ASSUME TypeOK, m_hint \in 1..(Len(m_ticks) + 1), Next
    PROVE  m_gpu_tick' \in {m_gpu_tick, counter}
<1>1. CASE BeginNext
  BY <1>1, CommitHandsOutFree DEF BeginNext
<1>2. CASE \/ DeviceRetire \/ Submit \/ WaitTick \/ RefreshTick \/ PrioWaits
           \/ UNCHANGED <<timeline, m_ticks, m_hint, m_buffer>>
  BY <1>2 DEF DeviceRetire, Submit, WaitTick, RefreshTick, PrioWaits, MasterWait, timeline
<1>. QED BY <1>1, <1>2, TimelineFrame

(* Once the scheduler is not open nothing is queued, so the queues only    *)
(* shrink: a bound on their ticks stays, and so does their emptiness.      *)
LEMMA QueuesShrink ==
    ASSUME TypeOK, Next, m_operation_state # "Open", NEW t \in Nat
    PROVE  /\ AllBefore(t) => AllBefore(t)'
           /\ m_pending_operations = <<>> => m_pending_operations' = <<>>
           /\ Drained => Drained'
<1>0. m_priority_operations \in Seq(Pending) /\ m_pending_operations \in Seq(Pending)
  BY DEF TypeOK
<1>1. \/ UNCHANGED m_priority_operations
      \/ PrioTakes /\ m_priority_operations # <<>> /\ m_priority_operations' = Tail(m_priority_operations)
  BY PriorityQueueFrame DEF PrioTakes
<1>2. \/ UNCHANGED m_pending_operations
      \/ m_pending_operations # <<>> /\ m_pending_operations' = Tail(m_pending_operations)
  BY PendingQueueFrame DEF PopOperation, Poppable
<1>3. ASSUME NEW q \in Seq(Pending), q # <<>>, \A i \in 1..Len(q) : q[i].tick < t
      PROVE  \A i \in 1..Len(Tail(q)) : Tail(q)[i].tick < t
  <2> TAKE i \in 1..Len(Tail(q))
  <2>1. /\ Len(q) \in Nat \ {0} /\ Len(Tail(q)) = Len(q) - 1
        /\ \A j \in 1..(Len(q) - 1) : Tail(q)[j] = q[j + 1]
    BY <1>3, TailFacts
  <2>2. i + 1 \in 1..Len(q) /\ Tail(q)[i] = q[i + 1]
    BY <2>1
  <2>. QED BY <1>3, <2>2
<1>4. AllBefore(t) => AllBefore(t)'
  BY <1>0, <1>1, <1>2, <1>3 DEF AllBefore
<1>5. Drained => Drained'
  <2> SUFFICES ASSUME Drained PROVE Drained'
    OBVIOUS
  <2>1. ~PrioTakes
    BY DEF PrioTakes, Drained
  <2>2. UNCHANGED m_priority_operations
    BY <1>1, <2>1
  <2>3. m_priority_active' => m_priority_active
    BY <2>1, PrioFrame DEF PrioExits, PrioWaits, PrioCallbackReturns, PrioDone, active
  <2>. QED BY <2>2, <2>3 DEF Drained
<1>. QED BY <1>2, <1>4, <1>5

(* The drain preserves its invariant: the final submission and wait retire *)
(* every queued tick, the pop empties the ordinary queue, the drain the    *)
(* priority queue, and nothing is queued behind them.                      *)
LEMMA DrainStep ==
    ASSUME IndInv, Next
    PROVE  DrainInv'
<1> USE DEF Goto, OwnerAt
<1>0. /\ pc \in [Threads -> ThreadLabels] /\ "owner" \in Threads
      /\ m_current_tick \in Nat \ {0} /\ counter \in Nat /\ m_gpu_tick \in Nat
      /\ m_pending_operations \in Seq(Pending) /\ m_priority_operations \in Seq(Pending)
      /\ counter < m_current_tick /\ m_gpu_tick <= counter
      /\ m_gpu_tick' \in {m_gpu_tick, counter}
  BY RetiredBeforeCurrent, KnownTickStep DEF IndInv, TypeOK, Threads, TimelineInv, PoolInv
<1>1. PICK t \in Nat : t = m_current_tick
  BY <1>0
<1>2. ASSUME m_operation_state # "Open"
      PROVE  /\ AllBefore(t) => AllBefore(t)'
             /\ m_pending_operations = <<>> => m_pending_operations' = <<>>
             /\ Drained => Drained'
  BY <1>2, QueuesShrink DEF IndInv
<1>3. CASE OwnerCalls
  <2>1. /\ m_operation_state = "Open" /\ UNCHANGED <<m_operation_state, stop>>
    BY <1>3, CallStarts, CallFrame DEF IndInv, OwnerCalls, Begin, BeginCommand, SubmitOnly,
       Flush, FlushAndWait, Finish, WaitOld, WaitPriorityOperations, PopPendingOperations, FinishAndDrain
  <2>2. call' # "Shutdown"
    BY <1>3 DEF OwnerCalls, Begin, BeginCommand, SubmitOnly, Flush, FlushAndWait, Finish, WaitOld,
       WaitPriorityOperations, PopPendingOperations, FinishAndDrain, Start
  <2>. QED BY <2>1, <2>2 DEF IndInv, DrainInv
<1>4. CASE Shutdown
  <2>1. /\ m_operation_state = "Open" /\ pc["owner"] = "idle"
        /\ UNCHANGED <<m_current_tick, m_priority_operations, m_pending_operations, stop>>
    BY <1>4, CallStarts, CallFrame DEF IndInv, timeline, queues
  <2>2. /\ call' = "Shutdown" /\ m_operation_state' = "Draining"
        /\ \/ m_buffer # 0 /\ pc'["owner"] = "submit"
           \/ m_buffer = 0 /\ pc'["owner"] = "wait" /\ arg' = m_current_tick - 1
    BY <1>0, <1>4 DEF Shutdown, Start
  <2>3. m_buffer = 0 => m_priority_operations = <<>> /\ m_pending_operations = <<>>
    BY <2>1 DEF IndInv, CommandInv
  <2>4. m_buffer = 0 => AllBefore(m_current_tick)'
    BY <2>1, <2>3 DEF AllBefore
  <2>. QED BY <2>1, <2>2, <2>4 DEF IndInv, DrainInv
<1>5. CASE Submit
  <2>1. /\ pc["owner"] = "submit" /\ m_current_tick' = m_current_tick + 1
        /\ UNCHANGED <<call, arg, m_operation_state, stop, m_priority_operations, m_pending_operations>>
        /\ pc'["owner"] = IF call = "Flush" THEN "begin" ELSE IF call = "Submit" THEN "idle" ELSE "wait"
    BY <1>0, <1>5 DEF Submit, AfterStep, control, queues
  <2>2. AllBefore(m_current_tick)'
    <3>1. \A i \in 1..Len(m_priority_operations) : m_priority_operations[i].tick < m_current_tick + 1
      BY <1>0, QueuedTick DEF IndInv, QueueInv, Ordered
    <3>2. \A i \in 1..Len(m_pending_operations) : m_pending_operations[i].tick < m_current_tick + 1
      BY <1>0, QueuedTick DEF IndInv, QueueInv, Ordered
    <3>. QED BY <2>1, <3>1, <3>2 DEF AllBefore
  <2>3. call = "Shutdown" => arg = m_current_tick
    BY <2>1 DEF IndInv, CommandInv
  <2>4. call = "Shutdown" => arg' = m_current_tick' - 1
    BY <1>0, <2>1, <2>3
  <2>. QED BY <2>1, <2>2, <2>4 DEF IndInv, DrainInv
<1>6. CASE BeginNext
  <2>1. /\ pc["owner"] = "begin" /\ UNCHANGED <<call, m_operation_state, stop>>
    BY <1>6 DEF BeginNext, control
  <2>. QED BY <2>1 DEF IndInv, DrainInv, CommandInv
<1>7. ASSUME ~OwnerCalls, ~Shutdown, ~Submit, ~BeginNext
      PROVE  UNCHANGED m_current_tick
  BY <1>7, TimelineFrame DEF DeviceRetire, WaitTick, RefreshTick, PrioWaits, timeline
<1>8. ASSUME UNCHANGED m_current_tick, m_operation_state # "Open", AllBefore(m_current_tick)
      PROVE  AllBefore(m_current_tick)'
  <2>1. AllBefore(t)'
    BY <1>1, <1>2, <1>8 DEF AllBefore
  <2>. QED BY <1>1, <1>8, <2>1 DEF AllBefore
<1>9. ASSUME UNCHANGED m_current_tick, m_gpu_tick = m_current_tick - 1
      PROVE  m_gpu_tick' = m_current_tick' - 1
  BY <1>0, <1>9
<1>10. CASE WaitTick /\ ~OwnerCalls /\ ~Shutdown /\ ~Submit /\ ~BeginNext
  <2>1. /\ pc["owner"] = "wait" /\ UNCHANGED <<call, m_operation_state, stop, m_current_tick>>
        /\ pc'["owner"] = IF call = "Shutdown" THEN "refresh" ELSE IF call = "WaitOld" THEN "idle" ELSE "begin"
        /\ m_gpu_tick' >= arg
    BY <1>0, <1>7, <1>10 DEF WaitTick, MasterWait, IsFree, AfterStep, control
  <2>2. call = "Shutdown" => m_gpu_tick' = m_current_tick' - 1
    BY <1>0, <2>1 DEF IndInv, DrainInv
  <2>. QED BY <1>8, <2>1, <2>2 DEF IndInv, DrainInv
<1>11. ASSUME call # "Shutdown", UNCHANGED <<call, m_operation_state, stop>>
       PROVE  DrainInv'
  BY <1>11 DEF IndInv, DrainInv
<1>12. ASSUME call = "Shutdown", pc["owner"] \notin {"submit", "wait"}, UNCHANGED m_current_tick
       PROVE  /\ m_operation_state # "Open"
              /\ AllBefore(m_current_tick)' /\ m_gpu_tick' = m_current_tick' - 1
              /\ m_pending_operations = <<>> => m_pending_operations' = <<>>
              /\ Drained => Drained'
  BY <1>2, <1>8, <1>9, <1>12 DEF IndInv, DrainInv
<1> DEFINE Moves == \/ RefreshTick \/ PopDone \/ PopOperation \/ PriorityWaited
                    \/ NormalCallbackReturns \/ PriorityDrained
<1>13. CASE Moves /\ ~OwnerCalls /\ ~Shutdown /\ ~Submit /\ ~BeginNext
  <2>1. UNCHANGED <<call, m_operation_state, stop, m_current_tick>>
    BY <1>7, <1>13, Zenon DEF RefreshTick, PopDone, PopOperation, PriorityWaited,
       NormalCallbackReturns, PriorityDrained, control
  <2>2. CASE call # "Shutdown"
    BY <1>11, <2>1, <2>2
  <2>3. CASE call = "Shutdown"
    <3>1. pc["owner"] \in {"refresh", "pop", "waitPriority", "callback", "drain"}
      BY <1>13 DEF RefreshTick, PopDone, PopOperation, PriorityWaited,
         NormalCallbackReturns, PriorityDrained
    <3>2. /\ m_operation_state # "Open"
          /\ AllBefore(m_current_tick)' /\ m_gpu_tick' = m_current_tick' - 1
          /\ m_pending_operations = <<>> => m_pending_operations' = <<>>
          /\ Drained => Drained'
      BY <1>12, <2>1, <2>3, <3>1
    <3>3. /\ m_operation_state = "Draining" /\ ~stop
          /\ AllBefore(m_current_tick) /\ m_gpu_tick = m_current_tick - 1
          /\ pc["owner"] = "drain" => m_pending_operations = <<>>
      BY <2>3, <3>1 DEF IndInv, DrainInv, TypeOK
    <3>4. \/ pc'["owner"] \in {"pop", "waitPriority", "callback"}
          \/ pc'["owner"] = "drain" /\ m_pending_operations = <<>>
          \/ pc'["owner"] = "stop" /\ Drained /\ m_pending_operations = <<>>
      <4>1. CASE RefreshTick \/ PopOperation \/ NormalCallbackReturns
        BY <1>0, <4>1 DEF RefreshTick, PopOperation, NormalCallbackReturns
      <4>2. CASE PopDone
        <5>1. pc'["owner"] = "drain" /\ ~Poppable
          BY <1>0, <2>3, <4>2 DEF PopDone, AfterStep
        <5>2. ASSUME m_pending_operations # <<>> PROVE Poppable
          <6>1. Head(m_pending_operations) = m_pending_operations[1] /\ 1 \in 1..Len(m_pending_operations)
            BY <1>0, <5>2, TailFacts
          <6>2. m_pending_operations[1].tick < m_current_tick /\ m_pending_operations[1].tick \in Nat
            BY <1>0, <3>3, <6>1, QueuedTick DEF AllBefore
          <6>. QED BY <1>0, <3>3, <5>2, <6>1, <6>2 DEF Poppable, IsFree
        <5>. QED BY <5>1, <5>2
      <4>3. CASE PriorityWaited
        <5>1. held["owner"] # NoOp
          BY <2>3, <4>3 DEF PriorityWaited, IndInv, CommandInv
        <5>. QED BY <1>0, <4>3, <5>1 DEF PriorityWaited
      <4>4. CASE PriorityDrained
        BY <1>0, <2>3, <3>3, <4>4 DEF PriorityDrained, AfterStep
      <4>. QED BY <1>13, <4>1, <4>2, <4>3, <4>4
    <3>. QED BY <2>1, <2>3, <3>2, <3>3, <3>4 DEF DrainInv
  <2>. QED BY <2>2, <2>3
<1>14. CASE (RequestStop \/ Join \/ Close) /\ ~OwnerCalls /\ ~Shutdown /\ ~Submit /\ ~BeginNext
  <2>1. UNCHANGED <<call, m_current_tick>>
    BY <1>7, <1>14, Zenon DEF RequestStop, Join, Close
  <2>2. pc["owner"] \in {"stop", "join", "close"}
    BY <1>14 DEF RequestStop, Join, Close
  <2>3. call = "Shutdown"
    BY <2>2 DEF IndInv, CommandInv
  <2>4. /\ m_operation_state = "Draining" /\ m_pending_operations = <<>> /\ Drained
    BY <2>2, <2>3 DEF IndInv, DrainInv, TypeOK
  <2>5. /\ AllBefore(m_current_tick)' /\ m_gpu_tick' = m_current_tick' - 1
        /\ m_pending_operations' = <<>> /\ Drained'
    BY <1>12, <2>1, <2>2, <2>3, <2>4
  <2>6. \/ pc'["owner"] \in {"join", "close"} /\ UNCHANGED m_operation_state
        \/ pc'["owner"] = "idle" /\ m_operation_state' = "Closed"
    BY <1>0, <1>14 DEF RequestStop, Join, Close, control
  <2>. QED BY <2>1, <2>3, <2>4, <2>5, <2>6 DEF DrainInv
<1>15. CASE /\ UNCHANGED ownerState
            /\ ~OwnerCalls /\ ~Shutdown /\ ~Submit /\ ~BeginNext /\ ~WaitTick
  <2>1. /\ UNCHANGED <<pc["owner"], call, arg, m_operation_state, stop, m_current_tick>>
    BY <1>7, <1>15 DEF ownerState
  <2>2. CASE call # "Shutdown"
    BY <1>11, <2>1, <2>2
  <2>3. CASE call = "Shutdown" /\ pc["owner"] = "submit"
    BY <2>1, <2>3 DEF IndInv, DrainInv
  <2>4. CASE call = "Shutdown" /\ pc["owner"] = "wait"
    <3>1. AllBefore(m_current_tick)'
      BY <1>8, <2>1, <2>4 DEF IndInv, DrainInv
    <3>. QED BY <2>1, <2>4, <3>1 DEF IndInv, DrainInv
  <2>5. CASE call = "Shutdown" /\ pc["owner"] \notin {"submit", "wait"}
    BY <1>12, <2>1, <2>5 DEF IndInv, DrainInv
  <2>. QED BY <2>2, <2>3, <2>4, <2>5
<1>16. OwnerCalls \/ Shutdown \/ OwnerMoves \/ UNCHANGED ownerState
  BY OwnerFrame DEF IndInv
<1>. QED BY <1>3, <1>4, <1>5, <1>6, <1>10, <1>13, <1>14, <1>15, <1>16 DEF OwnerMoves

-----------------------------------------------------------------------------
(* The constructor establishes the invariant.                              *)
LEMMA InitIndInv ==
    ASSUME Init
    PROVE  IndInv
<1>1. TypeOK
  <2>1. /\ cv \in [Threads -> {"run", "park", "asleep", "one", "all"}]
        /\ pc \in [Threads -> ThreadLabels]
    BY DEF Init, ThreadLabels
  <2>2. held \in [Threads -> [op : Ops \cup {"none"}, tick : Nat]]
    BY DEF Init, NoOp
  <2>3. inFlight \in Seq([tick : Nat, buffer : Nat]) /\ m_ticks \in Seq(Nat)
    BY DEF Init
  <2>4. m_pending_operations \in Seq(Pending) /\ m_priority_operations \in Seq(Pending)
    BY DEF Init
  <2>5. /\ m_current_tick \in Nat \ {0} /\ m_gpu_tick \in Nat /\ counter \in Nat
        /\ m_hint \in Nat \ {0} /\ m_buffer \in Nat /\ m_priority_active_tick \in Nat
        /\ arg \in Nat
    BY DEF Init
  <2>6. /\ m_registers \in BOOLEAN /\ m_priority_active \in BOOLEAN /\ stop \in BOOLEAN
        /\ m_operation_state \in {"Open", "Draining", "Closed"}
        /\ m_operation_mutex \in Threads \cup {"free"} /\ call \in Calls /\ ran \subseteq Ops
    BY DEF Init, Calls
  <2>. QED BY <2>1, <2>2, <2>3, <2>4, <2>5, <2>6, Zenon DEF TypeOK
<1>2. TimelineInv /\ PoolInv /\ QueueInv
  BY DEF Init, TimelineInv, PoolInv, QueueInv, Ordered
<1>3. PrioInv /\ OwnerInv
  BY DEF Init, PrioInv, OwnerInv, Threads, ThreadLabels
<1>4. CommandInv /\ DrainInv
  BY DEF Init, CommandInv, DrainInv, Threads
<1>. QED BY <1>1, <1>2, <1>3, <1>4 DEF IndInv

(* Every step of every thread and of the device preserves it.              *)
LEMMA NextIndInv ==
    ASSUME IndInv, [Next]_vars
    PROVE  IndInv'
<1>1. CASE UNCHANGED vars
  <2> USE <1>1 DEF vars, timeline, pool, queues, active, control, threads
  <2>1. TypeOK'
    BY DEF IndInv, TypeOK
  <2>2. TimelineInv' /\ PoolInv' /\ QueueInv'
    BY DEF IndInv, TimelineInv, PoolInv, QueueInv, Ordered
  <2>3. PrioInv' /\ OwnerInv'
    BY DEF IndInv, PrioInv, OwnerInv
  <2>4. CommandInv' /\ DrainInv'
    BY DEF IndInv, CommandInv, DrainInv, AllBefore, Drained
  <2>. QED BY <2>1, <2>2, <2>3, <2>4 DEF IndInv
<1>2. CASE Next
  <2>1. m_hint \in 1..(Len(m_ticks) + 1)
    BY DEF IndInv, PoolInv
  <2>2. NoFatalExit
    BY DEF IndInv, CommandInv, DrainInv, Drained, NoFatalExit
  <2>3. TypeOK' /\ TimelineInv' /\ PoolInv'
    BY <1>2, <2>1, <2>2, TypeStep, TimelineStep, PoolStep DEF IndInv
  <2>4. QueueInv' /\ PrioInv'
    BY <1>2, <2>1, QueueStep, PrioStep DEF IndInv
  <2>5. OwnerInv' /\ CommandInv' /\ DrainInv'
    BY <1>2, OwnerStep, CommandStep, DrainStep DEF IndInv
  <2>. QED BY <2>3, <2>4, <2>5 DEF IndInv
<1>. QED BY <1>1, <1>2

-----------------------------------------------------------------------------
(* The scheduler always satisfies the inductive invariant.                 *)
THEOREM Invariance == Spec => []IndInv
  BY InitIndInv, NextIndInv, PTL DEF Spec

(* The scheduler's members keep their types, whatever the number of        *)
(* operations, buffers and ticks.                                          *)
THEOREM TypeCorrect == Spec => []TypeOK
<1>1. IndInv => TypeOK
  BY DEF IndInv
<1>. QED BY <1>1, Invariance, PTL

(* CommandPool::Commit never hands out a buffer the device may still be    *)
(* executing, for every size of the pool and every growth step.            *)
THEOREM BuffersNotReusedInFlight == Spec => []NoReuseInFlight
<1>1. IndInv => NoReuseInFlight
  <2> SUFFICES ASSUME IndInv, m_buffer # 0, NEW i \in DOMAIN inFlight,
                      inFlight[i].buffer = m_buffer
               PROVE  FALSE
    BY DEF NoReuseInFlight
  <2>1. /\ inFlight \in Seq([tick : Nat, buffer : Nat]) /\ i \in 1..Len(inFlight)
        /\ counter \in Nat /\ m_current_tick \in Nat
    BY DEF IndInv, TypeOK
  <2>2. inFlight[i].tick = m_current_tick
    BY <2>1 DEF IndInv, PoolInv
  <2>3. inFlight[i].tick = counter + i /\ Len(inFlight) = m_current_tick - 1 - counter
    BY <2>1 DEF IndInv, TimelineInv
  <2>. QED BY <2>1, <2>2, <2>3
<1>. QED BY <1>1, Invariance, PTL

(* Both threads run a queued callback only once the device has retired the *)
(* tick it was deferred on.                                                *)
THEOREM CallbacksFollowRetirement == Spec => []CallbackAfterRetirement
<1>1. IndInv => CallbackAfterRetirement
  BY DEF IndInv, PrioInv, OwnerInv, CallbackAfterRetirement, InCallback
<1>. QED BY <1>1, Invariance, PTL

(* Resource reclamation follows every priority completion of its tick or   *)
(* an earlier one.                                                         *)
THEOREM ReclamationFollowsCompletions == Spec => []ReclamationAfterPriority
<1>1. IndInv => ReclamationAfterPriority
  <2> SUFFICES ASSUME IndInv, pc["owner"] = "callback"
               PROVE  /\ \A p \in Range(m_priority_operations) : p.tick > held["owner"].tick
                      /\ m_priority_active => m_priority_active_tick > held["owner"].tick
    BY DEF ReclamationAfterPriority, InCallback
  <2>1. m_priority_operations \in Seq(Pending)
    BY DEF IndInv, TypeOK
  <2>. QED BY <2>1 DEF IndInv, OwnerInv, Range
<1>. QED BY <1>1, Invariance, PTL

(* None of the scheduler's EXIT_IF checks on its own state can fire.       *)
THEOREM ChecksNeverFire == Spec => []NoFatalExit
<1>1. IndInv => NoFatalExit
  BY DEF IndInv, CommandInv, DrainInv, Drained, NoFatalExit
<1>. QED BY <1>1, Invariance, PTL

(* Shutdown drops no deferred operation: when the priority thread is asked *)
(* to stop there is nothing left for it to do.                             *)
THEOREM ShutdownDropsNothing == Spec => []NothingDropped
<1>1. IndInv => NothingDropped
  BY DEF IndInv, DrainInv, PrioInv, Drained, NothingDropped
<1>. QED BY <1>1, Invariance, PTL

(* Deferred callbacks run after the device has retired their tick, and     *)
(* reclamation after the priority completions.                             *)
THEOREM CallbacksRunInOrder == Spec => []CallbacksInOrder
  BY CallbacksFollowRetirement, ReclamationFollowsCompletions, PTL DEF CallbacksInOrder

(* The scheduler's own checks hold, in Shutdown too, and no operation is   *)
(* dropped.                                                                *)
THEOREM ShutdownEndsClean == Spec => []ShutdownIsClean
  BY ChecksNeverFire, ShutdownDropsNothing, PTL DEF ShutdownIsClean

-----------------------------------------------------------------------------
(* The refinement.  Each lemma below gives the step of DeferredCompletion  *)
(* that a step of the scheduler takes, a stutter for most.                 *)

(* What a queue with a taken operation in front of it holds.               *)
LEMMA PutFrontFacts ==
    ASSUME NEW S, NEW s \in Seq(S), NEW h \in S
    PROVE  /\ <<h>> \o s \in Seq(S) /\ <<h>> \o s # <<>>
           /\ Head(<<h>> \o s) = h /\ Tail(<<h>> \o s) = s
           /\ Range(<<h>> \o s) = {h} \cup Range(s)
<1>1. PICK n \in Nat : n = Len(s)
  OBVIOUS
<1>2. /\ <<h>> \o s \in Seq(S) /\ Len(<<h>> \o s) = n + 1
      /\ (<<h>> \o s)[1] = h
      /\ \A i \in 1..n : (<<h>> \o s)[i + 1] = s[i]
  BY <1>1
<1>3. <<h>> \o s # <<>> /\ Head(<<h>> \o s) = h
  BY <1>2
<1>4. Tail(<<h>> \o s) = s
  BY <1>1, <1>2, <1>3
<1>5. Range(<<h>> \o s) = {h} \cup Range(s)
  <2> DEFINE q == <<h>> \o s
  <2>1. DOMAIN q = 1..(n + 1) /\ DOMAIN s = 1..n
    BY <1>1, <1>2
  <2>2. \A i \in 1..(n + 1) : i = 1 \/ (i - 1 \in 1..n /\ q[i] = s[i - 1])
    BY <1>2
  <2>3. \A i \in 1..n : i + 1 \in 1..(n + 1) /\ q[i + 1] = s[i]
    BY <1>2
  <2>4. q[1] = h /\ 1 \in 1..(n + 1)
    BY <1>2
  <2> HIDE DEF q
  <2>5. \A x : x \in Range(q) <=> \E i \in 1..(n + 1) : x = q[i]
    BY <2>1 DEF Range
  <2>6. \A x : x \in Range(s) <=> \E i \in 1..n : x = s[i]
    BY <2>1 DEF Range
  <2>7. ASSUME NEW x \in Range(q) PROVE x \in {h} \cup Range(s)
    <3>1. PICK i \in 1..(n + 1) : x = q[i]
      BY <2>5
    <3>. QED BY <2>2, <2>4, <2>6, <3>1
  <2>8. ASSUME NEW x \in {h} \cup Range(s) PROVE x \in Range(q)
    <3>1. CASE x = h
      BY <2>4, <2>5, <3>1
    <3>2. CASE x \in Range(s)
      BY <2>3, <2>5, <2>6, <3>2
    <3>. QED BY <3>1, <3>2
  <2>. QED BY <2>7, <2>8 DEF q
<1>. QED BY <1>2, <1>3, <1>4, <1>5

(* Taking the first operation off a queue and putting it back in front.    *)
LEMMA TakenThenLeft ==
    ASSUME NEW S, NEW s \in Seq(S), s # <<>>
    PROVE  <<Head(s)>> \o Tail(s) = s
  OBVIOUS

(* Deferring behind a taken operation.                                     *)
LEMMA AppendBehind ==
    ASSUME NEW S, NEW s \in Seq(S), NEW h \in S, NEW e \in S
    PROVE  <<h>> \o Append(s, e) = Append(<<h>> \o s, e)
  OBVIOUS

(* The callbacks left are sequences of operations, and they are the queued *)
(* and the taken ones.                                                     *)
LEMMA LeftFacts ==
    ASSUME IndInv
    PROVE  /\ PriorityLeft \in Seq(Pending) /\ OrdinaryLeft \in Seq(Pending)
           /\ Range(PriorityLeft) = IF pc["prio"] \in {"wait", "callback"}
                                    THEN {held["prio"]} \cup Range(m_priority_operations)
                                    ELSE Range(m_priority_operations)
           /\ Range(OrdinaryLeft) = IF held["owner"] = NoOp
                                    THEN Range(m_pending_operations)
                                    ELSE {held["owner"]} \cup Range(m_pending_operations)
<1>1. m_priority_operations \in Seq(Pending) /\ m_pending_operations \in Seq(Pending)
  BY DEF IndInv, TypeOK
<1>2. pc["prio"] \in {"wait", "callback"} => held["prio"] \in Pending
  BY DEF IndInv, TypeOK, PrioInv, Pending, Threads
<1>3. held["owner"] # NoOp => held["owner"] \in Pending
  BY DEF IndInv, TypeOK, OwnerInv, Pending, Threads
<1>4. PriorityLeft \in Seq(Pending) /\ Range(PriorityLeft) =
            IF pc["prio"] \in {"wait", "callback"}
            THEN {held["prio"]} \cup Range(m_priority_operations)
            ELSE Range(m_priority_operations)
  BY <1>1, <1>2, PutFrontFacts DEF PriorityLeft
<1>5. OrdinaryLeft \in Seq(Pending) /\ Range(OrdinaryLeft) =
            IF held["owner"] = NoOp
            THEN Range(m_pending_operations)
            ELSE {held["owner"]} \cup Range(m_pending_operations)
  BY <1>1, <1>3, PutFrontFacts DEF OrdinaryLeft
<1>. QED BY <1>4, <1>5

(* An operation that may be deferred is fresh in the abstract sense too.   *)
LEMMA FreshIsFresh ==
    ASSUME IndInv, NEW o \in Fresh
    PROVE  o \in Completion!Fresh
<1>1. o \in Ops /\ o \notin ran /\ held["prio"].op # o /\ held["owner"].op # o
  BY DEF Fresh, Threads
<1>2. \A p \in Range(m_pending_operations) \cup Range(m_priority_operations) : p.op # o
  BY DEF Fresh, Queued
<1>3. \A p \in Range(PriorityLeft) \cup Range(OrdinaryLeft) : p.op # o
  BY <1>1, <1>2, LeftFacts
<1>. QED BY <1>1, <1>3 DEF Completion!Fresh, Completion!Outstanding, Completion!Range, Range

(* A step that leaves the ticks, both kinds of callbacks left, the run     *)
(* ones and the state alone is a stutter.                                  *)
LEMMA Stutters ==
    ASSUME UNCHANGED <<m_current_tick, counter, PriorityLeft, OrdinaryLeft, ran,
                       m_operation_state>>
    PROVE  UNCHANGED Completion!vars
  BY DEF Completion!vars

(* Steps that only move the threads: waiting, parking, notifying, starting *)
(* a call, looking at the ticks, arriving late.                            *)
LEMMA ControlStutters ==
    ASSUME IndInv,
           \/ OwnerCalls \/ CondvarStep
           \/ WaitTick \/ BeginNext \/ RefreshTick \/ PopDone \/ PriorityWaited
           \/ PriorityDrained \/ RequestStop \/ Join \/ PrioExits \/ PrioDone
           \/ \E o \in Fresh \cup {"none"} : LateArrives(o)
    PROVE  UNCHANGED Completion!vars
<1> USE DEF Goto, timeline, pool, queues, active, control, threads
<1>0. pc \in [Threads -> ThreadLabels]
      /\ held \in [Threads -> [op : Ops \cup {"none"}, tick : Nat]]
  BY DEF IndInv, TypeOK
<1>1. ASSUME UNCHANGED <<m_current_tick, counter, queues, ran, m_operation_state>>,
             UNCHANGED <<pc["prio"], held["prio"], held["owner"]>>
      PROVE  UNCHANGED Completion!vars
  BY <1>1, Stutters DEF PriorityLeft, OrdinaryLeft
<1>2. CASE OwnerCalls
  <2>1. UNCHANGED <<m_current_tick, counter, queues, held, ran>>
    BY <1>2, CallFrame
  <2>2. UNCHANGED m_operation_state /\ \E label : pc' = [pc EXCEPT !["owner"] = label]
    BY <1>2, Zenon DEF OwnerCalls, Begin, BeginCommand, SubmitOnly, Flush, FlushAndWait,
       Finish, WaitOld, WaitPriorityOperations, PopPendingOperations, FinishAndDrain, Start
  <2>3. pc'["prio"] = pc["prio"]
    BY <1>0, <2>2 DEF Threads
  <2>. QED BY <1>1, <2>1, <2>2, <2>3
<1>3. CASE CondvarStep
  BY <1>1, <1>3, CondvarFrame
<1>4. CASE \/ WaitTick \/ BeginNext \/ RefreshTick \/ PopDone \/ PriorityWaited
           \/ PriorityDrained \/ RequestStop \/ Join
  <2>1. /\ \E label : pc' = [pc EXCEPT !["owner"] = label]
        /\ UNCHANGED <<m_current_tick, counter, queues, ran, m_operation_state, held>>
    BY <1>4, Zenon DEF WaitTick, BeginNext, RefreshTick, PopDone, PriorityWaited,
       PriorityDrained, RequestStop, Join
  <2>2. pc'["prio"] = pc["prio"]
    BY <1>0, <2>1 DEF Threads
  <2>. QED BY <1>1, <2>1, <2>2
<1>5. CASE PrioExits
  <2>1. pc["prio"] = "loop" /\ pc'["prio"] = "exit"
    BY <1>0, <1>5 DEF PrioExits, PrioAt, Threads
  <2>2. UNCHANGED <<timeline, queues, held, ran, m_operation_state>>
    BY <1>5 DEF PrioExits
  <2>. QED BY <2>1, <2>2, Stutters DEF PriorityLeft, OrdinaryLeft
<1>6. CASE PrioDone
  <2>1. pc["prio"] = "done" /\ pc'["prio"] = "loop" /\ held'["owner"] = held["owner"]
    BY <1>0, <1>6 DEF PrioDone, PrioAt, Threads
  <2>2. UNCHANGED <<timeline, queues, ran, m_operation_state>>
    BY <1>6 DEF PrioDone
  <2>. QED BY <2>1, <2>2, Stutters DEF PriorityLeft, OrdinaryLeft
<1>7. ASSUME NEW o \in Fresh \cup {"none"}, LateArrives(o)
      PROVE  UNCHANGED Completion!vars
  <2>1. /\ pc'["prio"] = pc["prio"] /\ held'["owner"] = held["owner"]
        /\ held'["prio"] = held["prio"]
    BY <1>0, <1>7 DEF LateArrives, Threads
  <2>2. UNCHANGED <<timeline, queues, ran, m_operation_state>>
    BY <1>7 DEF LateArrives
  <2>. QED BY <1>1, <2>1, <2>2
<1>. QED BY <1>2, <1>3, <1>4, <1>5, <1>6, <1>7

(* Taking an operation off its queue is a stutter: it is left to run.      *)
LEMMA TakingStutters ==
    ASSUME IndInv, PopOperation \/ PrioTakes \/ PrioWaits
    PROVE  UNCHANGED Completion!vars
<1> USE DEF Goto, timeline, pool, queues, active, control, threads
<1>0. /\ pc \in [Threads -> ThreadLabels]
      /\ held \in [Threads -> [op : Ops \cup {"none"}, tick : Nat]]
      /\ m_priority_operations \in Seq(Pending) /\ m_pending_operations \in Seq(Pending)
  BY DEF IndInv, TypeOK
<1>1. CASE PopOperation
  <2>1. /\ m_pending_operations # <<>>
        /\ held' = [held EXCEPT !["owner"] = Head(m_pending_operations)]
        /\ m_pending_operations' = Tail(m_pending_operations)
        /\ pc' = [pc EXCEPT !["owner"] = "waitPriority"]
        /\ UNCHANGED <<timeline, m_priority_operations, m_operation_state, ran>>
    BY <1>1 DEF PopOperation, Poppable
  <2>2. held["owner"] = NoOp
    BY <1>1 DEF PopOperation, OwnerAt, IndInv, OwnerInv
  <2>3. Head(m_pending_operations) \in Pending
    BY <1>0, <2>1, TailFacts
  <2>4. /\ held'["owner"] = Head(m_pending_operations) /\ held'["prio"] = held["prio"]
        /\ pc'["prio"] = pc["prio"]
    BY <1>0, <2>1 DEF Threads
  <2>5. held'["owner"] # NoOp
    BY <2>3, <2>4, OpsAssumption DEF Pending, NoOp
  <2>6. OrdinaryLeft' = OrdinaryLeft
    BY <1>0, <2>1, <2>2, <2>4, <2>5, TakenThenLeft DEF OrdinaryLeft
  <2>7. PriorityLeft' = PriorityLeft
    BY <2>1, <2>4 DEF PriorityLeft
  <2>. QED BY <2>1, <2>6, <2>7, Stutters
<1>2. CASE PrioTakes
  <2>1. /\ m_priority_operations # <<>> /\ pc["prio"] = "loop"
        /\ held' = [held EXCEPT !["prio"] = Head(m_priority_operations)]
        /\ m_priority_operations' = Tail(m_priority_operations)
        /\ pc' = [pc EXCEPT !["prio"] = "wait"]
        /\ UNCHANGED <<timeline, m_pending_operations, m_operation_state, ran>>
    BY <1>2 DEF PrioTakes, PrioAt
  <2>2. /\ held'["prio"] = Head(m_priority_operations) /\ held'["owner"] = held["owner"]
        /\ pc'["prio"] = "wait"
    BY <1>0, <2>1 DEF Threads
  <2>3. PriorityLeft' = PriorityLeft
    BY <1>0, <2>1, <2>2, TakenThenLeft DEF PriorityLeft
  <2>4. OrdinaryLeft' = OrdinaryLeft
    BY <2>1, <2>2 DEF OrdinaryLeft
  <2>. QED BY <2>1, <2>3, <2>4, Stutters
<1>3. CASE PrioWaits
  <2>1. ~stop
    BY <1>3 DEF PrioWaits, PrioAt, IndInv, DrainInv, Drained, PrioInv
  <2>2. /\ pc["prio"] = "wait" /\ pc' = [pc EXCEPT !["prio"] = "callback"]
        /\ UNCHANGED <<m_current_tick, counter, queues, m_operation_state, held, ran>>
    BY <1>3, <2>1 DEF PrioWaits, PrioAt
  <2>3. pc'["prio"] = "callback"
    BY <1>0, <2>2 DEF Threads
  <2>. QED BY <2>2, <2>3, Stutters DEF PriorityLeft, OrdinaryLeft
<1>. QED BY <1>1, <1>2, <1>3

(* The device and Submit move the abstract ticks.                          *)
LEMMA TicksRefine ==
    ASSUME IndInv, DeviceRetire \/ Submit
    PROVE  Completion!Retire \/ Completion!Advance
<1> USE DEF Goto, timeline, pool, queues, active, control, threads
<1>0. /\ pc \in [Threads -> ThreadLabels] /\ counter \in Nat /\ m_current_tick \in Nat
      /\ inFlight \in Seq([tick : Nat, buffer : Nat])
  BY DEF IndInv, TypeOK
<1>1. CASE DeviceRetire
  <2>1. inFlight # <<>> /\ counter' = Head(inFlight).tick
        /\ UNCHANGED <<m_current_tick, queues, m_operation_state, threads, ran>>
    BY <1>1 DEF DeviceRetire
  <2>2. Len(inFlight) \in Nat \ {0} /\ Head(inFlight) = inFlight[1]
    BY <1>0, <2>1, TailFacts
  <2>3. counter' = counter + 1 /\ counter < m_current_tick - 1
    BY <1>0, <2>1, <2>2 DEF IndInv, TimelineInv
  <2>4. UNCHANGED <<PriorityLeft, OrdinaryLeft>>
    BY <2>1 DEF PriorityLeft, OrdinaryLeft
  <2>. QED BY <2>1, <2>3, <2>4 DEF Completion!Retire
<1>2. CASE Submit
  <2>1. /\ m_current_tick' = m_current_tick + 1
        /\ pc'["prio"] = pc["prio"]
        /\ UNCHANGED <<counter, queues, m_operation_state, held, ran>>
    BY <1>0, <1>2 DEF Submit
  <2>2. UNCHANGED <<PriorityLeft, OrdinaryLeft>>
    BY <2>1 DEF PriorityLeft, OrdinaryLeft
  <2>. QED BY <2>1, <2>2 DEF Completion!Advance
<1>. QED BY <1>1, <1>2

(* A callback that returns on the priority thread, or in the owner's pop   *)
(* loop, is the oldest of its kind and its time has come.                  *)
LEMMA CallbackRefines ==
    ASSUME IndInv, PrioCallbackReturns \/ NormalCallbackReturns
    PROVE  Completion!RunPriority \/ Completion!RunOrdinary
<1> USE DEF Goto, timeline, pool, queues, active, control, threads
<1>0. /\ pc \in [Threads -> ThreadLabels]
      /\ held \in [Threads -> [op : Ops \cup {"none"}, tick : Nat]]
      /\ m_priority_operations \in Seq(Pending) /\ m_pending_operations \in Seq(Pending)
  BY DEF IndInv, TypeOK
<1>1. CASE PrioCallbackReturns
  <2>1. /\ pc["prio"] = "callback" /\ pc' = [pc EXCEPT !["prio"] = "done"]
        /\ ran' = ran \cup {held["prio"].op}
        /\ UNCHANGED <<timeline, queues, m_operation_state, held>>
    BY <1>1 DEF PrioCallbackReturns, PrioAt
  <2>2. pc'["prio"] = "done"
    BY <1>0, <2>1 DEF Threads
  <2>3. held["prio"] \in Pending /\ held["prio"].tick <= counter
    BY <1>0, <2>1 DEF IndInv, PrioInv, Pending, Threads
  <2>4. PriorityLeft # <<>> /\ Head(PriorityLeft) = held["prio"]
        /\ Tail(PriorityLeft) = m_priority_operations
    BY <1>0, <2>1, <2>3, PutFrontFacts DEF PriorityLeft
  <2>5. PriorityLeft' = Tail(PriorityLeft) /\ UNCHANGED OrdinaryLeft
    BY <2>1, <2>2, <2>4 DEF PriorityLeft, OrdinaryLeft
  <2>. QED BY <2>1, <2>3, <2>4, <2>5 DEF Completion!RunPriority
<1>2. CASE NormalCallbackReturns
  <2>1. /\ pc["owner"] = "callback" /\ pc' = [pc EXCEPT !["owner"] = "pop"]
        /\ ran' = ran \cup {held["owner"].op}
        /\ held' = [held EXCEPT !["owner"] = NoOp]
        /\ UNCHANGED <<timeline, queues, m_operation_state>>
    BY <1>2 DEF NormalCallbackReturns, OwnerAt
  <2>2. /\ pc'["prio"] = pc["prio"] /\ held'["prio"] = held["prio"]
        /\ held'["owner"] = NoOp
    BY <1>0, <2>1 DEF Threads
  <2>3. /\ held["owner"] \in Pending /\ held["owner"] # NoOp
        /\ held["owner"].tick <= counter
    BY <1>0, <2>1 DEF IndInv, OwnerInv, Pending, Threads
  <2>4. OrdinaryLeft # <<>> /\ Head(OrdinaryLeft) = held["owner"]
        /\ Tail(OrdinaryLeft) = m_pending_operations
    BY <1>0, <2>3, PutFrontFacts DEF OrdinaryLeft
  <2>5. OrdinaryLeft' = Tail(OrdinaryLeft) /\ UNCHANGED PriorityLeft
    BY <2>1, <2>2, <2>4 DEF PriorityLeft, OrdinaryLeft
  <2>6. \A p \in Range(m_priority_operations) : p.tick > held["owner"].tick
    BY <1>0, <2>1 DEF IndInv, OwnerInv, Range
  <2>7. pc["prio"] \in {"wait", "callback"} => held["prio"].tick > held["owner"].tick
    BY <2>1 DEF IndInv, OwnerInv, PrioInv
  <2>8. \A p \in Range(PriorityLeft) : p.tick > held["owner"].tick
    BY <2>6, <2>7, LeftFacts
  <2>. QED BY <2>1, <2>3, <2>4, <2>5, <2>8 DEF Completion!RunOrdinary, Completion!Range, Range
<1>. QED BY <1>1, <1>2

(* Deferring: on the open tick while the scheduler is open, on the spot    *)
(* otherwise.                                                              *)
LEMMA DeferRefines ==
    ASSUME IndInv, NEW t \in {"owner", "prio"}, NEW o \in Fresh,
           DeferOperation(t, o) \/ DeferPriorityOperation(t, o)
    PROVE  \E f \in Completion!Fresh : \/ Completion!DeferOrdinary(f)
                                       \/ Completion!DeferPriority(f)
                                       \/ Completion!RunInline(f)
<1> USE DEF timeline, pool, queues, active, control, threads
<1>0. /\ held \in [Threads -> [op : Ops \cup {"none"}, tick : Nat]]
      /\ m_priority_operations \in Seq(Pending) /\ m_pending_operations \in Seq(Pending)
      /\ [op |-> o, tick |-> m_current_tick] \in Pending
  BY DEF IndInv, TypeOK, Fresh, Pending
<1>1. o \in Completion!Fresh
  BY FreshIsFresh
<1>2. /\ pc["prio"] \in {"wait", "callback"} => held["prio"] \in Pending
      /\ held["owner"] # NoOp => held["owner"] \in Pending
  BY <1>0 DEF IndInv, PrioInv, OwnerInv, Pending, Threads
<1>3. ASSUME m_operation_state # "Open", ran' = ran \cup {o},
             UNCHANGED <<timeline, queues, m_operation_state, pc, held>>
      PROVE  Completion!RunInline(o)
  BY <1>3 DEF Completion!RunInline, PriorityLeft, OrdinaryLeft
<1>4. CASE DeferOperation(t, o)
  <2>1. CASE m_operation_state = "Open"
    <3>1. /\ m_pending_operations' = Append(m_pending_operations,
                                            [op |-> o, tick |-> m_current_tick])
          /\ UNCHANGED <<timeline, m_priority_operations, m_operation_state, pc, held, ran>>
      BY <1>4, <2>1 DEF DeferOperation
    <3>2. OrdinaryLeft' = Append(OrdinaryLeft, [op |-> o, tick |-> m_current_tick])
      BY <1>0, <1>2, <3>1, AppendBehind DEF OrdinaryLeft
    <3>3. UNCHANGED PriorityLeft
      BY <3>1 DEF PriorityLeft
    <3>4. Completion!DeferOrdinary(o)
      BY <2>1, <3>1, <3>2, <3>3 DEF Completion!DeferOrdinary
    <3>. QED BY <1>1, <3>4
  <2>2. CASE m_operation_state # "Open"
    <3>1. ran' = ran \cup {o} /\ UNCHANGED <<timeline, queues, m_operation_state, pc, held>>
      BY <1>4, <2>2 DEF DeferOperation
    <3>. QED BY <1>1, <1>3, <2>2, <3>1
  <2>. QED BY <2>1, <2>2
<1>5. CASE DeferPriorityOperation(t, o)
  <2>1. CASE m_operation_state = "Open"
    <3>1. /\ m_priority_operations' = Append(m_priority_operations,
                                             [op |-> o, tick |-> m_current_tick])
          /\ UNCHANGED <<timeline, m_pending_operations, m_operation_state, pc, held, ran>>
      BY <1>5, <2>1 DEF DeferPriorityOperation
    <3>2. PriorityLeft' = Append(PriorityLeft, [op |-> o, tick |-> m_current_tick])
      BY <1>0, <1>2, <3>1, AppendBehind DEF PriorityLeft
    <3>3. UNCHANGED OrdinaryLeft
      BY <3>1 DEF OrdinaryLeft
    <3>4. Completion!DeferPriority(o)
      BY <2>1, <3>1, <3>2, <3>3 DEF Completion!DeferPriority
    <3>. QED BY <1>1, <3>4
  <2>2. CASE m_operation_state # "Open"
    <3>1. ran' = ran \cup {o} /\ UNCHANGED <<timeline, queues, m_operation_state, pc, held>>
      BY <1>5, <2>2 DEF DeferPriorityOperation
    <3>. QED BY <1>1, <1>3, <2>2, <3>1
  <2>. QED BY <2>1, <2>2
<1>. QED BY <1>4, <1>5

(* Once the scheduler is closing or closed, no callback is left.           *)
LEMMA NothingLeft ==
    ASSUME IndInv, call = "Shutdown", pc["owner"] \in {"close", "idle"}
    PROVE  PriorityLeft = <<>> /\ OrdinaryLeft = <<>> /\ counter = m_current_tick - 1
<1>1. m_pending_operations = <<>> /\ m_priority_operations = <<>> /\ ~m_priority_active
  BY DEF IndInv, DrainInv, Drained
<1>2. held["owner"] = NoOp
  BY DEF IndInv, OwnerInv
<1>3. pc["prio"] \notin {"wait", "callback"}
  BY <1>1 DEF IndInv, PrioInv
<1>4. counter = m_current_tick - 1
  <2>1. m_gpu_tick = m_current_tick - 1
    BY DEF IndInv, DrainInv
  <2>2. /\ m_gpu_tick <= counter /\ Len(inFlight) = m_current_tick - 1 - counter
        /\ Len(inFlight) \in Nat /\ counter \in Nat /\ m_current_tick \in Nat
    BY DEF IndInv, TimelineInv, TypeOK
  <2>. QED BY <2>1, <2>2
<1>. QED BY <1>1, <1>2, <1>3, <1>4 DEF PriorityLeft, OrdinaryLeft

(* Shutdown starts the drain and its last step ends it; a thread that came *)
(* late runs its operation after that, on the spot.                        *)
LEMMA ShutdownRefines ==
    ASSUME IndInv, Shutdown \/ Close \/ LateProceeds
    PROVE  Completion!Next \/ UNCHANGED Completion!vars
<1> USE DEF Goto, timeline, pool, queues, active, control, threads
<1>0. /\ pc \in [Threads -> ThreadLabels]
      /\ held \in [Threads -> [op : Ops \cup {"none"}, tick : Nat]]
      /\ m_operation_state \in {"Open", "Draining", "Closed"}
  BY DEF IndInv, TypeOK
<1>1. CASE Shutdown
  <2>1. UNCHANGED <<m_current_tick, counter, queues, held, ran>>
    BY <1>1, CallFrame
  <2>2. /\ m_operation_state = "Open" /\ m_operation_state' = "Draining"
        /\ \E label : pc' = [pc EXCEPT !["owner"] = label]
    BY <1>1, Zenon DEF Shutdown, Start
  <2>3. pc'["prio"] = pc["prio"]
    BY <1>0, <2>2 DEF Threads
  <2>4. UNCHANGED <<PriorityLeft, OrdinaryLeft>>
    BY <2>1, <2>3 DEF PriorityLeft, OrdinaryLeft
  <2>5. Completion!StartDrain
    BY <2>1, <2>2, <2>4 DEF Completion!StartDrain
  <2>. QED BY <2>5 DEF Completion!Next
<1>2. CASE Close
  <2>1. /\ pc["owner"] = "close" /\ m_operation_state' = "Closed"
        /\ pc' = [pc EXCEPT !["owner"] = "idle"]
        /\ UNCHANGED <<timeline, queues, held, ran>>
    BY <1>2 DEF Close, OwnerAt
  <2>2. call = "Shutdown" /\ m_operation_state = "Draining"
    BY <1>0, <2>1 DEF IndInv, CommandInv, DrainInv
  <2>3. pc'["prio"] = pc["prio"]
    BY <1>0, <2>1 DEF Threads
  <2>4. UNCHANGED <<PriorityLeft, OrdinaryLeft>>
    BY <2>1, <2>3 DEF PriorityLeft, OrdinaryLeft
  <2>5. Completion!FinishDrain
    BY <2>1, <2>2, <2>4, NothingLeft DEF Completion!FinishDrain
  <2>. QED BY <2>5 DEF Completion!Next
<1>3. CASE LateProceeds
  <2>1. /\ m_operation_state = "Closed"
        /\ ran' = IF held["late"].op = "none" THEN ran ELSE ran \cup {held["late"].op}
        /\ held' = [held EXCEPT !["late"] = NoOp]
        /\ pc' = [pc EXCEPT !["late"] = "idle"]
        /\ UNCHANGED <<timeline, queues, m_operation_state>>
    BY <1>3 DEF LateProceeds
  <2>2. /\ pc'["prio"] = pc["prio"] /\ held'["prio"] = held["prio"]
        /\ held'["owner"] = held["owner"]
        /\ held["late"].op \in Ops \cup {"none"}
    BY <1>0, <2>1 DEF Threads
  <2>3. UNCHANGED <<PriorityLeft, OrdinaryLeft>>
    BY <2>1, <2>2 DEF PriorityLeft, OrdinaryLeft
  <2>4. CASE ran' = ran
    BY <2>1, <2>3, <2>4, Stutters
  <2>5. CASE ran' # ran
    <3>1. ran' = ran \cup {held["late"].op} /\ held["late"].op \in Ops \ ran
      BY <2>1, <2>2, <2>5
    <3>2. PriorityLeft = <<>> /\ OrdinaryLeft = <<>>
      BY <2>1, NothingLeft DEF IndInv, DrainInv
    <3>3. held["late"].op \in Completion!Fresh
      BY <3>1, <3>2 DEF Completion!Fresh, Completion!Outstanding, Completion!Range
    <3>4. Completion!RunInline(held["late"].op)
      BY <2>1, <2>3, <3>1 DEF Completion!RunInline
    <3>. QED BY <3>3, <3>4 DEF Completion!Next
  <2>. QED BY <2>4, <2>5
<1>. QED BY <1>1, <1>2, <1>3

(* Every step of the scheduler is a step of the completion contract, or a  *)
(* stutter.                                                                *)
LEMMA NextRefines ==
    ASSUME IndInv, [Next]_vars
    PROVE  [Completion!Next]_(Completion!vars)
<1>1. CASE UNCHANGED vars
  <2>1. UNCHANGED <<m_current_tick, counter, PriorityLeft, OrdinaryLeft, ran,
                    m_operation_state>>
    BY <1>1 DEF vars, timeline, queues, control, threads, PriorityLeft, OrdinaryLeft
  <2>. QED BY <2>1, Stutters
<1>2. CASE \/ OwnerCalls \/ CondvarStep
           \/ WaitTick \/ BeginNext \/ RefreshTick \/ PopDone \/ PriorityWaited
           \/ PriorityDrained \/ RequestStop \/ Join \/ PrioExits \/ PrioDone
           \/ \E o \in Fresh \cup {"none"} : LateArrives(o)
  BY <1>2, ControlStutters
<1>3. CASE PopOperation \/ PrioTakes \/ PrioWaits
  BY <1>3, TakingStutters
<1>4. CASE DeviceRetire \/ Submit
  BY <1>4, TicksRefine DEF Completion!Next
<1>5. CASE PrioCallbackReturns \/ NormalCallbackReturns
  BY <1>5, CallbackRefines DEF Completion!Next
<1>6. CASE \E t \in {"owner", "prio"}, o \in Fresh :
               DeferOperation(t, o) \/ DeferPriorityOperation(t, o)
  BY <1>6, DeferRefines DEF Completion!Next
<1>7. CASE Shutdown \/ Close \/ LateProceeds
  BY <1>7, ShutdownRefines
<1>. QED BY <1>1, <1>2, <1>3, <1>4, <1>5, <1>6, <1>7 DEF Next, OwnerSteps, PrioSteps, CondvarStep

(* The scheduler, with its threads, locks, buffers and condition variable, *)
(* implements the contract of DeferredCompletion: every callback runs      *)
(* after the device has retired its tick, in order among its kind, the     *)
(* priority ones of a tick before the ordinary ones, and Shutdown closes   *)
(* only when none is left.                                                 *)
THEOREM SchedulerImplementsCompletion == Spec => ImplementsCompletion
<1>1. Init => Completion!Init
  BY DEF Init, Completion!Init, PriorityLeft, OrdinaryLeft, Threads
<1>2. IndInv /\ [Next]_vars => [Completion!Next]_(Completion!vars)
  BY NextRefines
<1>. QED BY <1>1, <1>2, Invariance, PTL DEF Spec, ImplementsCompletion, Completion!Spec
=============================================================================
