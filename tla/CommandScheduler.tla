-------------------------- MODULE CommandScheduler --------------------------
(***************************************************************************)
(* The host-GPU command scheduler                                          *)
(* (graphics/host_gpu/renderer/commandScheduler.cpp): recording into       *)
(* pooled command buffers, submission on a timeline semaphore, and the two *)
(* queues of deferred callbacks.                                           *)
(*                                                                         *)
(* Three threads use it.  "owner" is the guest-GPU thread and, once that   *)
(* thread is joined, the main thread that tears the renderer down; "prio"  *)
(* is m_priority_thread; "late" is a thread that arrives while the         *)
(* scheduler is draining or closed.  The fourth actor is the device, which *)
(* retires submissions in order.                                           *)
(*                                                                         *)
(* A critical section of m_operation_mutex is one step.  The exception is  *)
(* condition_variable::wait: the predicate is evaluated under the mutex    *)
(* and the thread then parks, and a notify made without the mutex can come *)
(* between the two.                                                        *)
(***************************************************************************)
EXTENDS Integers, Sequences, FiniteSetsExt, Functions

CONSTANTS
    Ops,        \* deferred callbacks, each deferred at most once
    NestedOps,  \* those of them a callback may defer
    GrowStep,   \* command buffers allocated by one CommandPool::Grow
    MaxTick     \* bound: no voluntary submission at or after this tick

ASSUME GrowStepAssumption == GrowStep \in Nat \ {0}
ASSUME MaxTickAssumption == MaxTick \in Nat
ASSUME OpsAssumption == "none" \notin Ops /\ NestedOps \subseteq Ops

VARIABLES
    m_current_tick,         \* the tick of the command being recorded
    m_gpu_tick,             \* last device counter value known to the host
    counter,                \* the device's timeline semaphore
    inFlight,               \* submissions the device has not retired
    m_ticks,                \* CommandPool: per buffer, the tick it was handed out for
    m_hint,                 \* CommandPool: where the next search starts
    m_buffer,               \* the command's pooled buffer, 0 when invalid
    m_registers,            \* whether Begin has bound the register state
    m_pending_operations,
    m_priority_operations,
    m_priority_active,
    m_priority_active_tick,
    m_operation_state,
    m_operation_mutex,      \* the thread between predicate and parking, or "free"
    cv,                     \* each thread's relation to m_operation_available
    stop,                   \* m_priority_thread.request_stop() was called
    pc,                     \* control state of each thread
    call,                   \* the public operation the owner is executing
    arg,                    \* its tick argument
    held,                   \* the operation each thread has taken off a queue
    ran                     \* history: the operations whose callback has returned

timeline == <<m_current_tick, m_gpu_tick, counter, inFlight>>
pool     == <<m_ticks, m_hint, m_buffer, m_registers>>
queues   == <<m_pending_operations, m_priority_operations>>
active   == <<m_priority_active, m_priority_active_tick>>
control  == <<m_operation_state, m_operation_mutex, cv, stop>>
threads  == <<pc, call, arg, held>>
vars     == <<timeline, pool, queues, active, control, threads, ran>>

Threads == {"owner", "prio", "late"}
NoOp    == [op |-> "none", tick |-> 0]
Pending == [op : Ops, tick : Nat]

-----------------------------------------------------------------------------
(* The timeline.                                                           *)

IsFree(tick) == m_gpu_tick >= tick

(* Mutant: a wait that timed out counts as a wait that succeeded.           *)
MasterWaitTimesOut(tick) == m_gpu_tick' = IF IsFree(tick) THEN m_gpu_tick ELSE counter

(* MasterSemaphore::Wait: returns once the device has reached the tick; the *)
(* device is consulted only when the cached value is too old.               *)
MasterWait(tick) ==
    /\ IsFree(tick) \/ counter >= tick
    /\ m_gpu_tick' = IF IsFree(tick) THEN m_gpu_tick ELSE counter

(* The device retires its submissions in queue order.                      *)
DeviceRetire ==
    /\ inFlight # <<>>
    /\ counter' = Head(inFlight).tick
    /\ inFlight' = Tail(inFlight)
    /\ UNCHANGED <<m_current_tick, m_gpu_tick, pool, queues, active, control,
                   threads, ran>>

-----------------------------------------------------------------------------
(* The command-buffer pool.  Buffer i of the code is i + 1 here.           *)

(* Mutant: a buffer of the first unretired tick counts as free.            *)
FreeInOffByOne(known, range) == {i \in range : known + 1 >= m_ticks[i]}

FreeIn(known, range) == {i \in range : known >= m_ticks[i]}

NextHint(found, size) == (found % size) + 1

(* CommandPool::Commit: from the hint with the cached tick, again with a   *)
(* refreshed one, from the start, and only then by growing the pool.       *)
Commit ==
    LET size   == Len(m_ticks)
        cached == FreeIn(m_gpu_tick, m_hint..size)
        known  == IF cached # {} THEN m_gpu_tick ELSE counter
        ahead  == FreeIn(known, m_hint..size)
        behind == FreeIn(known, 1..(m_hint - 1))
        grown  == m_ticks \o [i \in 1..GrowStep |-> 0]
        found  == IF ahead # {} THEN Min(ahead)
                  ELSE IF behind # {} THEN Min(behind)
                  ELSE size + 1
        ticks  == IF ahead \cup behind # {} THEN m_ticks ELSE grown
    IN  /\ m_gpu_tick' = known
        /\ m_ticks' = [ticks EXCEPT ![found] = m_current_tick]
        /\ m_hint' = NextHint(found, Len(ticks))
        /\ m_buffer' = found

-----------------------------------------------------------------------------
(* m_operation_available: cv[t] is "run" outside a wait, "park" between a   *)
(* false predicate and the wait, "asleep" in it, "one" and "all" when t has *)
(* yet to notify.                                                           *)

Running(t) == cv[t] = "run"
Locked(t)  == Running(t) /\ m_operation_mutex = "free"

Sleepers == {t \in Threads : cv[t] = "asleep"}

BlockOn(t) ==
    /\ Locked(t)
    /\ m_operation_mutex' = t
    /\ cv' = [cv EXCEPT ![t] = "park"]
    /\ UNCHANGED <<timeline, pool, queues, active, m_operation_state, stop,
                   threads, ran>>

Park(t) ==
    /\ cv[t] = "park"
    /\ m_operation_mutex' = "free"
    /\ cv' = [cv EXCEPT ![t] = "asleep"]
    /\ UNCHANGED <<timeline, pool, queues, active, m_operation_state, stop,
                   threads, ran>>

NotifyOne(t) ==
    /\ cv[t] = "one"
    /\ IF Sleepers = {}
       THEN cv' = [cv EXCEPT ![t] = "run"]
       ELSE \E w \in Sleepers : cv' = [cv EXCEPT ![t] = "run", ![w] = "run"]
    /\ UNCHANGED <<timeline, pool, queues, active, m_operation_state,
                   m_operation_mutex, stop, threads, ran>>

NotifyAll(t) ==
    /\ cv[t] = "all"
    /\ cv' = [u \in Threads |-> IF u = t \/ cv[u] = "asleep" THEN "run" ELSE cv[u]]
    /\ UNCHANGED <<timeline, pool, queues, active, m_operation_state,
                   m_operation_mutex, stop, threads, ran>>

-----------------------------------------------------------------------------
(* The owner's public operations.  Each is a sequence of internal steps;   *)
(* AfterStep is the sequencing.                                            *)

(* Mutant: Shutdown goes from its wait to the drain without popping.       *)
AfterStepSkipsPop(step) ==
    CASE step = "submit" -> IF call = "Flush" THEN "begin"
                            ELSE IF call = "Submit" THEN "idle" ELSE "wait"
      [] step = "wait"   -> IF call = "Shutdown" THEN "drain"
                            ELSE IF call = "WaitOld" THEN "idle" ELSE "begin"
      [] step = "begin"  -> IF call \in {"Finish", "FinishAndDrain"} THEN "refresh"
                            ELSE "idle"
      [] step = "pop"    -> IF call = "FinishAndDrain" THEN "drain" ELSE "idle"
      [] step = "drain"  -> IF call = "Shutdown" THEN "stop" ELSE "idle"

AfterStep(step) ==
    CASE step = "submit" -> IF call = "Flush" THEN "begin"
                            ELSE IF call = "Submit" THEN "idle" ELSE "wait"
      [] step = "wait"   -> IF call = "Shutdown" THEN "refresh"
                            ELSE IF call = "WaitOld" THEN "idle" ELSE "begin"
      [] step = "begin"  -> IF call \in {"Finish", "FinishAndDrain"} THEN "refresh"
                            ELSE "idle"
      [] step = "pop"    -> IF call \in {"Shutdown", "FinishAndDrain"} THEN "drain"
                            ELSE "idle"
      [] step = "drain"  -> IF call = "Shutdown" THEN "stop" ELSE "idle"

Goto(t, label) == pc' = [pc EXCEPT ![t] = label]

OwnerAt(label) == pc["owner"] = label /\ Running("owner")

Start(name, label, tick) ==
    /\ OwnerAt("idle")
    /\ m_operation_state = "Open"
    /\ call' = name
    /\ arg' = tick
    /\ Goto("owner", label)
    /\ UNCHANGED <<timeline, m_ticks, m_hint, m_buffer, queues, active, m_operation_mutex,
                   cv, stop, held, ran>>

MaySubmit == m_buffer # 0 /\ m_current_tick < MaxTick

(* Begin binds the guest registers and opens a command if there is none.   *)
Begin ==
    /\ m_operation_mutex = "free"
    /\ m_registers' = TRUE
    /\ Start("Begin", IF m_buffer = 0 THEN "begin" ELSE "idle", 0)
    /\ UNCHANGED m_operation_state

(* The swapchain's scheduler never binds registers: it opens and submits   *)
(* its commands itself.                                                    *)
BeginCommand ==
    /\ ~m_registers
    /\ m_buffer = 0
    /\ Start("BeginCommand", "begin", 0)
    /\ UNCHANGED <<m_registers, m_operation_state>>

SubmitOnly ==
    /\ ~m_registers
    /\ MaySubmit
    /\ Start("Submit", "submit", 0)
    /\ UNCHANGED <<m_registers, m_operation_state>>

Flush ==
    /\ m_registers
    /\ MaySubmit
    /\ Start("Flush", "submit", 0)
    /\ UNCHANGED <<m_registers, m_operation_state>>

(* FlushAndWait, and Wait for the tick being recorded.                     *)
FlushAndWait ==
    /\ m_registers
    /\ MaySubmit
    /\ Start("FlushAndWait", "submit", m_current_tick)
    /\ UNCHANGED <<m_registers, m_operation_state>>

(* Wait for a tick that has been submitted.                                *)
WaitOld(tick) ==
    /\ tick \in 1..(m_current_tick - 1)
    /\ Start("WaitOld", "wait", tick)
    /\ UNCHANGED <<m_registers, m_operation_state>>

Finish ==
    /\ m_registers
    /\ MaySubmit
    /\ Start("Finish", "submit", m_current_tick)
    /\ UNCHANGED <<m_registers, m_operation_state>>

PopPendingOperations ==
    /\ Start("PopPendingOperations", "refresh", 0)
    /\ UNCHANGED <<m_registers, m_operation_state>>

(* DrainPriorityOperations: every caller finishes first, since an operation *)
(* deferred on the open tick could not complete.                            *)
FinishAndDrain ==
    /\ m_registers
    /\ MaySubmit
    /\ Start("FinishAndDrain", "submit", m_current_tick)
    /\ UNCHANGED <<m_registers, m_operation_state>>

WaitPriorityOperations(tick) ==
    /\ tick \in 1..(m_current_tick - 1)
    /\ Start("WaitPriorityOperations", "waitPriority", tick)
    /\ UNCHANGED <<m_registers, m_operation_state>>

(* Shutdown by the thread that finds the scheduler open.                   *)
Shutdown ==
    /\ m_operation_mutex = "free"
    /\ m_operation_state' = "Draining"
    /\ IF m_buffer # 0
       THEN Start("Shutdown", "submit", m_current_tick)
       ELSE Start("Shutdown", "wait", m_current_tick - 1)
    /\ UNCHANGED m_registers

-----------------------------------------------------------------------------
(* The internal steps of the owner's operations.                           *)

(* Submit: the tick and the device queue advance together under            *)
(* graphics.queue_mutex, and the wrapper lets go of its buffer.            *)
Submit ==
    /\ OwnerAt("submit")
    /\ m_current_tick' = m_current_tick + 1
    /\ inFlight' = Append(inFlight, [tick |-> m_current_tick, buffer |-> m_buffer])
    /\ m_buffer' = 0
    /\ Goto("owner", AfterStep("submit"))
    /\ UNCHANGED <<m_gpu_tick, counter, m_ticks, m_hint, m_registers, queues,
                   active, control, call, arg, held, ran>>

WaitTick ==
    /\ OwnerAt("wait")
    /\ MasterWait(arg)
    /\ Goto("owner", AfterStep("wait"))
    /\ UNCHANGED <<m_current_tick, counter, inFlight, pool, queues, active,
                   control, call, arg, held, ran>>

BeginNext ==
    /\ OwnerAt("begin")
    /\ Commit
    /\ Goto("owner", AfterStep("begin"))
    /\ UNCHANGED <<m_current_tick, counter, inFlight, m_registers, queues,
                   active, control, call, arg, held, ran>>

(* PopPendingOperations starts by refreshing the known tick.               *)
RefreshTick ==
    /\ OwnerAt("refresh")
    /\ m_gpu_tick' = counter
    /\ Goto("owner", "pop")
    /\ UNCHANGED <<m_current_tick, counter, inFlight, pool, queues, active,
                   control, call, arg, held, ran>>

(* Mutant: the pop takes the oldest operation whatever its tick.           *)
PoppableAnyTick == m_pending_operations # <<>>

Poppable ==
    /\ m_pending_operations # <<>>
    /\ IsFree(Head(m_pending_operations).tick)

PopDone ==
    /\ OwnerAt("pop") /\ Locked("owner")
    /\ ~Poppable
    /\ Goto("owner", AfterStep("pop"))
    /\ UNCHANGED <<timeline, pool, queues, active, control, call, arg, held, ran>>

PopOperation ==
    /\ OwnerAt("pop") /\ Locked("owner")
    /\ Poppable
    /\ held' = [held EXCEPT !["owner"] = Head(m_pending_operations)]
    /\ m_pending_operations' = Tail(m_pending_operations)
    /\ Goto("owner", "waitPriority")
    /\ UNCHANGED <<timeline, pool, m_priority_operations, active, control, call,
                   arg, ran>>

(* WaitPriorityOperations: for the popped operation's tick inside a pop,   *)
(* for the argument otherwise.                                             *)
PriorityPendingQueueOnly(tick) ==   \* mutant: forgets the running callback
    /\ m_priority_operations # <<>>
    /\ Head(m_priority_operations).tick <= tick

PriorityPending(tick) ==
    \/ m_priority_active /\ m_priority_active_tick <= tick
    \/ /\ m_priority_operations # <<>>
       /\ Head(m_priority_operations).tick <= tick

WaitedTick == IF held["owner"] = NoOp THEN arg ELSE held["owner"].tick

PriorityWaited ==
    /\ OwnerAt("waitPriority") /\ Locked("owner")
    /\ ~PriorityPending(WaitedTick)
    /\ Goto("owner", IF held["owner"] = NoOp THEN "idle" ELSE "callback")
    /\ UNCHANGED <<timeline, pool, queues, active, control, call, arg, held, ran>>

PriorityWaitBlocks ==
    /\ OwnerAt("waitPriority")
    /\ PriorityPending(WaitedTick)
    /\ BlockOn("owner")

(* The callback returns: RunOperation in the pop loop.                     *)
NormalCallbackReturns ==
    /\ OwnerAt("callback")
    /\ ran' = ran \cup {held["owner"].op}
    /\ held' = [held EXCEPT !["owner"] = NoOp]
    /\ Goto("owner", "pop")
    /\ UNCHANGED <<timeline, pool, queues, active, control, call, arg>>

(* Mutant: an empty queue counts as drained while a callback still runs.   *)
DrainedIgnoresActive == m_priority_operations = <<>>

Drained == m_priority_operations = <<>> /\ ~m_priority_active

PriorityDrained ==
    /\ OwnerAt("drain") /\ Locked("owner")
    /\ Drained
    /\ Goto("owner", AfterStep("drain"))
    /\ UNCHANGED <<timeline, pool, queues, active, control, call, arg, held, ran>>

DrainBlocks ==
    /\ OwnerAt("drain")
    /\ ~Drained
    /\ BlockOn("owner")

(* request_stop and the notify_all that follows it: neither is made under  *)
(* m_operation_mutex.                                                      *)
RequestStop ==
    /\ OwnerAt("stop")
    /\ stop' = TRUE
    /\ cv' = [cv EXCEPT !["owner"] = "all"]
    /\ Goto("owner", "join")
    /\ UNCHANGED <<timeline, pool, queues, active, m_operation_state,
                   m_operation_mutex, call, arg, held, ran>>

Join ==
    /\ OwnerAt("join")
    /\ pc["prio"] = "exit"
    /\ Goto("owner", "close")
    /\ UNCHANGED <<timeline, pool, queues, active, control, call, arg, held, ran>>

Close ==
    /\ OwnerAt("close") /\ Locked("owner")
    /\ m_operation_state' = "Closed"
    /\ cv' = [cv EXCEPT !["owner"] = "all"]
    /\ Goto("owner", "idle")
    /\ UNCHANGED <<timeline, pool, queues, active, m_operation_mutex, stop,
                   call, arg, held, ran>>

-----------------------------------------------------------------------------
(* Deferring.  An operation is fresh until it is queued, held or run.      *)

Queued == {p.op : p \in Range(m_pending_operations) \cup Range(m_priority_operations)}
Fresh  == {o \in Ops : o \notin Queued \cup ran /\ \A t \in Threads : held[t].op # o}

InCallback(t) == pc[t] = "callback"

MayDefer(t, o) ==
    /\ Locked(t)
    /\ m_registers
    /\ (t = "owner" /\ pc[t] = "idle") \/ (InCallback(t) /\ o \in NestedOps)

(* DeferOperation by the owner between its operations (so while open or    *)
(* closed, never draining), or by a callback on either thread.             *)
DeferOperation(t, o) ==
    /\ MayDefer(t, o)
    /\ IF m_operation_state = "Open"
       THEN /\ m_pending_operations' = Append(m_pending_operations,
                                              [op |-> o, tick |-> m_current_tick])
            /\ UNCHANGED ran
       ELSE /\ ran' = ran \cup {o}
            /\ UNCHANGED m_pending_operations
    /\ UNCHANGED <<timeline, pool, m_priority_operations, active, control, threads>>

(* Mutant: the priority thread is not notified.                            *)
DeferPriorityOperationSilent(t, o) ==
    /\ MayDefer(t, o)
    /\ m_operation_state = "Open"
    /\ m_priority_operations' = Append(m_priority_operations,
                                       [op |-> o, tick |-> m_current_tick])
    /\ UNCHANGED <<timeline, pool, m_pending_operations, active, control, threads, ran>>

(* DeferPriorityOperation: the notify_one follows the unlock.              *)
DeferPriorityOperation(t, o) ==
    /\ MayDefer(t, o)
    /\ IF m_operation_state = "Open"
       THEN /\ m_priority_operations' = Append(m_priority_operations,
                                               [op |-> o, tick |-> m_current_tick])
            /\ cv' = [cv EXCEPT ![t] = "one"]
            /\ UNCHANGED ran
       ELSE /\ ran' = ran \cup {o}
            /\ UNCHANGED <<m_priority_operations, cv>>
    /\ UNCHANGED <<timeline, pool, m_pending_operations, active,
                   m_operation_state, m_operation_mutex, stop, threads>>

(* A thread that defers an operation, or shuts down ("none"), after the    *)
(* drain began waits for Closed.                                           *)
LateArrives(o) ==
    /\ pc["late"] = "idle" /\ Locked("late")
    /\ m_operation_state # "Open"
    /\ o # "none" => m_registers
    /\ held' = [held EXCEPT !["late"].op = o]
    /\ Goto("late", "await")
    /\ UNCHANGED <<timeline, pool, queues, active, control, call, arg, ran>>

LateBlocks ==
    /\ pc["late"] = "await"
    /\ m_operation_state # "Closed"
    /\ BlockOn("late")

LateProceeds ==
    /\ pc["late"] = "await" /\ Locked("late")
    /\ m_operation_state = "Closed"
    /\ ran' = IF held["late"].op = "none" THEN ran ELSE ran \cup {held["late"].op}
    /\ held' = [held EXCEPT !["late"] = NoOp]
    /\ Goto("late", "idle")
    /\ UNCHANGED <<timeline, pool, queues, active, control, call, arg>>

-----------------------------------------------------------------------------
(* PriorityOperationsThread.                                               *)

PrioAt(label) == pc["prio"] = label /\ Running("prio")

PrioExits ==
    /\ PrioAt("loop") /\ Locked("prio")
    /\ stop
    /\ Goto("prio", "exit")
    /\ UNCHANGED <<timeline, pool, queues, active, control, call, arg, held, ran>>

PrioBlocks ==
    /\ PrioAt("loop")
    /\ ~stop /\ m_priority_operations = <<>>
    /\ BlockOn("prio")

PrioTakes ==
    /\ PrioAt("loop") /\ Locked("prio")
    /\ ~stop /\ m_priority_operations # <<>>
    /\ held' = [held EXCEPT !["prio"] = Head(m_priority_operations)]
    /\ m_priority_operations' = Tail(m_priority_operations)
    /\ m_priority_active' = TRUE
    /\ m_priority_active_tick' = Head(m_priority_operations).tick
    /\ Goto("prio", "wait")
    /\ UNCHANGED <<timeline, pool, m_pending_operations, control, call, arg, ran>>

PrioWaits ==
    /\ PrioAt("wait")
    /\ MasterWait(held["prio"].tick)
    /\ Goto("prio", IF stop THEN "done" ELSE "callback")
    /\ UNCHANGED <<m_current_tick, counter, inFlight, pool, queues, active,
                   control, call, arg, held, ran>>

PrioCallbackReturns ==
    /\ PrioAt("callback")
    /\ ran' = ran \cup {held["prio"].op}
    /\ Goto("prio", "done")
    /\ UNCHANGED <<timeline, pool, queues, active, control, call, arg, held>>

(* Mutant: nobody is told that the callback is done.                       *)
PrioDoneSilent ==
    /\ PrioAt("done") /\ Locked("prio")
    /\ m_priority_active' = FALSE
    /\ m_priority_active_tick' = 0
    /\ held' = [held EXCEPT !["prio"] = NoOp]
    /\ Goto("prio", "loop")
    /\ UNCHANGED <<timeline, pool, queues, control, call, arg, ran>>

PrioDone ==
    /\ PrioAt("done") /\ Locked("prio")
    /\ m_priority_active' = FALSE
    /\ m_priority_active_tick' = 0
    /\ held' = [held EXCEPT !["prio"] = NoOp]
    /\ cv' = [cv EXCEPT !["prio"] = "all"]
    /\ Goto("prio", "loop")
    /\ UNCHANGED <<timeline, pool, queues, m_operation_state, m_operation_mutex,
                   stop, call, arg, ran>>

-----------------------------------------------------------------------------
Init ==
    /\ m_current_tick = 1 /\ m_gpu_tick = 0 /\ counter = 0 /\ inFlight = <<>>
    /\ m_ticks = <<>> /\ m_hint = 1 /\ m_buffer = 0 /\ m_registers = FALSE
    /\ m_pending_operations = <<>> /\ m_priority_operations = <<>>
    /\ m_priority_active = FALSE /\ m_priority_active_tick = 0
    /\ m_operation_state = "Open" /\ m_operation_mutex = "free"
    /\ cv = [t \in Threads |-> "run"] /\ stop = FALSE
    /\ pc = [t \in Threads |-> IF t = "prio" THEN "loop" ELSE "idle"]
    /\ call = "none" /\ arg = 0
    /\ held = [t \in Threads |-> NoOp] /\ ran = {}

OwnerCalls ==
    \/ Begin \/ BeginCommand \/ SubmitOnly \/ Flush \/ FlushAndWait \/ Finish
    \/ \E tick \in 1..MaxTick : WaitOld(tick) \/ WaitPriorityOperations(tick)
    \/ PopPendingOperations \/ FinishAndDrain

OwnerSteps ==
    \/ Submit \/ WaitTick \/ BeginNext \/ RefreshTick
    \/ PopDone \/ PopOperation \/ PriorityWaited \/ PriorityWaitBlocks
    \/ NormalCallbackReturns \/ PriorityDrained \/ DrainBlocks
    \/ RequestStop \/ Join \/ Close

PrioSteps ==
    \/ PrioExits \/ PrioBlocks \/ PrioTakes \/ PrioWaits
    \/ PrioCallbackReturns \/ PrioDone

Condvar(t) == Park(t) \/ NotifyOne(t) \/ NotifyAll(t)

Next ==
    \/ DeviceRetire
    \/ OwnerCalls \/ Shutdown \/ OwnerSteps
    \/ PrioSteps
    \/ \E t \in {"owner", "prio"}, o \in Fresh :
            DeferOperation(t, o) \/ DeferPriorityOperation(t, o)
    \/ \E o \in Fresh \cup {"none"} : LateArrives(o)
    \/ LateBlocks \/ LateProceeds
    \/ \E t \in Threads : Condvar(t)

Spec == Init /\ [][Next]_vars

(* A submission retires, and a thread that can take a step of an operation *)
(* it has started takes it.  Which operation the owner starts next is the  *)
(* guest's choice and is not fair.                                         *)
Fairness ==
    /\ WF_vars(DeviceRetire)
    /\ WF_vars(OwnerSteps)
    /\ WF_vars(PrioSteps)
    /\ \A t \in Threads : WF_vars(Condvar(t))

FairSpec == Spec /\ Fairness

-----------------------------------------------------------------------------
ThreadLabels == {"idle", "submit", "wait", "begin", "refresh", "pop", "waitPriority",
                 "callback", "drain", "stop", "join", "close", "await", "loop",
                 "done", "exit"}

Calls == {"none", "Begin", "BeginCommand", "Submit", "Flush", "FlushAndWait",
          "WaitOld", "Finish", "PopPendingOperations", "FinishAndDrain",
          "WaitPriorityOperations", "Shutdown"}

(* The state has the types of the scheduler's members.                     *)
TypeOK ==
    /\ m_current_tick \in Nat \ {0} /\ m_gpu_tick \in Nat /\ counter \in Nat
    /\ inFlight \in Seq([tick : Nat, buffer : Nat])
    /\ m_ticks \in Seq(Nat) /\ m_hint \in Nat \ {0} /\ m_buffer \in Nat
    /\ m_registers \in BOOLEAN
    /\ m_pending_operations \in Seq(Pending)
    /\ m_priority_operations \in Seq(Pending)
    /\ m_priority_active \in BOOLEAN /\ m_priority_active_tick \in Nat
    /\ m_operation_state \in {"Open", "Draining", "Closed"}
    /\ m_operation_mutex \in Threads \cup {"free"}
    /\ cv \in [Threads -> {"run", "park", "asleep", "one", "all"}]
    /\ stop \in BOOLEAN
    /\ pc \in [Threads -> ThreadLabels] /\ call \in Calls /\ arg \in Nat
    /\ held \in [Threads -> [op : Ops \cup {"none"}, tick : Nat]]
    /\ ran \subseteq Ops

(* The buffer a command is recorded into is not one the device may still   *)
(* be executing: CommandPool::Commit reuses a buffer only after the tick it *)
(* was handed out for, whatever mix of cached and refreshed ticks it saw.   *)
NoReuseInFlight ==
    m_buffer # 0 => \A i \in DOMAIN inFlight : inFlight[i].buffer # m_buffer

(* A queued callback runs only after the device has retired the tick it     *)
(* was deferred on (master wait of the priority thread, IsFree of the pop). *)
CallbackAfterRetirement ==
    \A t \in {"owner", "prio"} : InCallback(t) => held[t].tick <= counter

(* While an ordinary callback (resource reclamation) runs, no priority      *)
(* callback of its tick or an earlier one is queued or still running, even  *)
(* if callbacks defer more of them: WaitPriorityOperations looks only at    *)
(* the running operation and the head of the queue.                         *)
ReclamationAfterPriority ==
    InCallback("owner") =>
        /\ \A p \in Range(m_priority_operations) : p.tick > held["owner"].tick
        /\ m_priority_active => m_priority_active_tick > held["owner"].tick

(* The fatal EXIT_IF checks never fire: Submit has a command, BeginCommand  *)
(* has none, and Shutdown finds both queues empty and no callback active    *)
(* when it closes.                                                          *)
NoFatalExit ==
    /\ pc["owner"] = "submit" => m_buffer # 0
    /\ pc["owner"] = "begin" => m_buffer = 0
    /\ pc["owner"] = "close" =>
           /\ m_pending_operations = <<>> /\ m_priority_operations = <<>>
           /\ ~m_priority_active

(* A stop request never makes the priority thread drop an operation it has *)
(* taken, and none is left behind once the scheduler is closed.            *)
NothingDropped ==
    stop => /\ held["prio"] = NoOp /\ m_priority_operations = <<>>
            /\ m_pending_operations = <<>>

(* Callbacks run in order: none before the device has retired its tick,    *)
(* and reclamation after the priority completions of its tick.             *)
CallbacksInOrder == CallbackAfterRetirement /\ ReclamationAfterPriority

(* Flushing, waiting and shutting down end in the states their EXIT_IF     *)
(* checks ask for, and shutting down drops no operation.                   *)
ShutdownIsClean == NoFatalExit /\ NothingDropped

(* The callbacks not yet run: an operation the owner or the priority thread *)
(* has taken counts as queued until its callback has returned.              *)
PriorityLeft ==
    IF pc["prio"] \in {"wait", "callback"}
    THEN <<held["prio"]>> \o m_priority_operations
    ELSE m_priority_operations

OrdinaryLeft ==
    IF held["owner"] = NoOp THEN m_pending_operations
    ELSE <<held["owner"]>> \o m_pending_operations

Completion == INSTANCE DeferredCompletion WITH
    tick     <- m_current_tick,
    retired  <- counter,
    priority <- PriorityLeft,
    ordinary <- OrdinaryLeft,
    done     <- ran,
    phase    <- m_operation_state

(* The scheduler implements the completion contract of its deferred        *)
(* callbacks.                                                              *)
ImplementsCompletion == Completion!Spec

(* Every priority callback whose tick has been submitted is eventually run *)
(* by the priority thread, whatever the owner does next: no notify is lost.*)
SubmittedPriorityRuns ==
    \A o \in Ops :
        (\E p \in Range(m_priority_operations) : p.op = o /\ p.tick < m_current_tick)
            ~> o \in ran

(* Every operation of the owner but Shutdown returns, unless it drains     *)
(* while a callback has deferred a priority operation at the tick that is  *)
(* still open: nobody but the owner could submit that tick.                *)
CallsReturn ==
    (pc["owner"] # "idle" /\ call # "Shutdown")
        ~> \/ pc["owner"] = "idle"
           \/ call = "FinishAndDrain"
              /\ \E p \in Range(m_priority_operations) \cup {held["prio"]} :
                     p.tick = m_current_tick

(* Submitted completions run and the owner's calls return.                 *)
CallsAndCallbacksFinish == SubmittedPriorityRuns /\ CallsReturn

(* "The owning thread will finish shutdown": a drain that starts ends with *)
(* the scheduler closed.                                                   *)
ShutdownFinishes == (m_operation_state = "Draining") ~> (m_operation_state = "Closed")
=============================================================================
