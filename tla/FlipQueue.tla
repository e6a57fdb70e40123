----------------------------- MODULE FlipQueue -----------------------------
(***************************************************************************)
(* The ports and the flip queue of presentation/videoOut.cpp               *)
(* (VideoOutDriver::Impl, FlipQueue) between four kinds of thread: guest   *)
(* threads that open, close and flip, the GPU thread that records the      *)
(* frames, the scheduler's priority thread that completes them, and the    *)
(* present thread.                                                         *)
(*                                                                         *)
(* A critical section is one step.  Two locks outlive a step: Close holds  *)
(* the driver's m_mutex through the cancellation (closer), and Flip holds  *)
(* the port's mutex while it presents (show.pc = "presenting").  EXIT and  *)
(* EXIT_IF end the process: fatal records why, and nothing moves after it. *)
(***************************************************************************)
EXTENDS Naturals, Sequences, SequencesExt, FiniteSets

CONSTANTS
    Ports,
    Surfaces,     \* indexes of the display buffers a guest registers
    Capacity,     \* VIDEO_OUT_FLIP_QUEUE_CAPACITY
    Rates,        \* arguments of VideoOutSetFlipRate
    MaxCalls      \* bound: calls of guest threads in a behaviour

ASSUME FlipAssumption ==
    /\ Capacity \in Nat \ {0} /\ MaxCalls \in Nat /\ Rates \subseteq 0..2
    /\ "blank" \notin Surfaces /\ "none" \notin Ports

VARIABLES
    port,          \* per port: its VideoOutConfig
    m_requests,    \* in the order of presentation
    m_cpu_requests,
    m_cancelled_requests,
    m_processing,
    calls,         \* guest calls made
    midway,        \* guest calls between two critical sections
    submissions,   \* the GPU thread's queue (GuestGpu)
    gpu,           \* the GPU thread: where it is, on behalf of which submission
    completions,   \* deferred priority operations (CommandScheduler), by request id
    show,          \* the present thread and its copy of the front request
    closer,        \* Close and its port, while it holds the driver's m_mutex
    live,          \* frames of the presenter that are in use, by request id
    fatal

queues == <<m_requests, m_cpu_requests, m_cancelled_requests>>
work   == <<midway, submissions, gpu, completions>>
vars   == <<port, queues, m_processing, calls, work, show, closer, live, fatal>>

NoClose == [port |-> "none", stage |-> "none"]
NoTask  == [op |-> "none", id |-> 0]
Indexes == Surfaces \cup {"blank"}    \* BLANK and BLACK need no surface

Ids      == 1..MaxCalls
Request  == [id : Ids, port : Ports, generation : Nat, index : Indexes,
             source : {"Cpu", "GpuEop"}, frame : BOOLEAN,
             state : {"Reserved", "Recording", "Ready", "Presenting"}]

Pending     == Range(m_requests) \cup m_cpu_requests
PendingNum  == Len(m_requests) + Cardinality(m_cpu_requests)
IsOf(p)     == {r \in Pending : r.port = p}
WithId(S, id) == {r \in S : r.id = id}

(* The requests after the one with this id has become r.                   *)
InSequence(r) == [i \in DOMAIN m_requests |->
                    IF m_requests[i].id = r.id THEN r ELSE m_requests[i]]
Among(S, r)   == {q \in S : q.id # r.id} \cup {r}

(* The queue without the requests of S, in the order it had.               *)
Orders(places) ==
    {f \in UNION {[1..n -> places] : n \in 0..Len(m_requests)} :
        Range(f) = places /\ \A i, j \in DOMAIN f : i < j => f[i] < f[j]}
RemoveAll(S) ==
    \E f \in Orders({i \in DOMAIN m_requests : m_requests[i] \notin S}) :
        m_requests' = [i \in DOMAIN f |-> m_requests[f[i]]]

(* A port whose mutex Flip holds.                                          *)
Held(p) == show.pc = "presenting" /\ show.r.port = p

Exit(reason) == fatal' = reason /\ UNCHANGED <<port, queues, m_processing, calls, work,
                                               show, closer, live>>
Alive == fatal = "none"

(* A guest call that begins with Driver::Get and takes the port's mutex,   *)
(* under which it asks again whether the port is closing.                  *)
GuestCall(p) ==
    /\ Alive /\ calls < MaxCalls /\ calls' = calls + 1
    /\ ~Held(p) /\ closer = NoClose

-----------------------------------------------------------------------------
(* Guest threads.                                                          *)

ClosedPort == [opened |-> FALSE, closing |-> FALSE, generation |-> 0, rate |-> 0,
               surfaces |-> {}, vblank |-> 0, flipPendingNum |-> 0, gcQueueNum |-> 0]

Open(p) ==
    /\ GuestCall(p) /\ ~port[p].opened
    /\ IF port[p].rate # 0 \/ port[p].surfaces # {}
       THEN fatal' = "reopen" /\ UNCHANGED port
       ELSE /\ port' = [port EXCEPT ![p] = [ClosedPort EXCEPT !.opened = TRUE,
                                              !.generation = port[p].generation + 1]]
            /\ UNCHANGED fatal
    /\ UNCHANGED <<queues, m_processing, work, show, closer, live>>

(* VideoOutRegisterBuffers2: one attribute group of a port.                *)
RegisterBuffers(p) ==
    /\ GuestCall(p) /\ port[p].opened /\ port[p].surfaces = {}
    /\ port' = [port EXCEPT ![p].surfaces = Surfaces]
    /\ UNCHANGED <<queues, m_processing, work, show, closer, live, fatal>>

UnregisterBuffers(p) ==
    /\ GuestCall(p) /\ port[p].opened /\ port[p].surfaces # {}
    /\ port' = [port EXCEPT ![p].surfaces = {}]
    /\ UNCHANGED <<queues, m_processing, work, show, closer, live, fatal>>

(* VideoOutSetFlipRate finds the port open under the driver's mutex and    *)
(* writes the rate under the port's, where it asks nothing more.           *)
SetFlipRate(p, rate) ==
    /\ Alive /\ calls < MaxCalls /\ calls' = calls + 1
    /\ closer = NoClose /\ port[p].opened /\ rate # port[p].rate
    /\ midway' = midway \cup {[op |-> "rate", id |-> calls', port |-> p, rate |-> rate]}
    /\ UNCHANGED <<port, queues, m_processing, submissions, gpu, completions, show, closer,
                   live, fatal>>

WriteFlipRate(call) ==
    /\ Alive /\ call.op = "rate" /\ ~Held(call.port)
    /\ midway' = midway \ {call}
    /\ port' = [port EXCEPT ![call.port].rate = call.rate]
    /\ UNCHANGED <<queues, m_processing, calls, submissions, gpu, completions, show, closer,
                   live, fatal>>

(* ReserveFlipRequest finds the port open and the surface registered.      *)
MayReserve(p, index) ==
    /\ port[p].opened /\ ~port[p].closing
    /\ index \in port[p].surfaces \cup {"blank"}

QueueFullLate == PendingNum > Capacity
QueueFull == PendingNum >= Capacity

(* A new request.  Its id is the number of the guest call that asked.      *)
Reserved(id, p, index, source) ==
    [id |-> id, port |-> p, generation |-> port[p].generation, index |-> index,
     source |-> source, frame |-> FALSE, state |-> "Reserved"]

(* FlipQueue::Reserve: the status counts the requests of every port.       *)
CountReservedLate(p, source) ==
    port' = [port EXCEPT ![p].flipPendingNum = PendingNum,
                         ![p].gcQueueNum = IF source = "GpuEop" THEN @ + 1 ELSE @]
CountReserved(p, source) ==
    port' = [port EXCEPT ![p].flipPendingNum = PendingNum + 1,
                         ![p].gcQueueNum = IF source = "GpuEop" THEN @ + 1 ELSE @]

(* VideoOutSubmitFlip reserves and then hands the preparation to the GPU   *)
(* thread; other threads may run in between.                               *)
SubmitFlip(p, index) ==
    /\ GuestCall(p) /\ MayReserve(p, index) /\ ~QueueFull
    /\ m_cpu_requests' = m_cpu_requests \cup {Reserved(calls', p, index, "Cpu")}
    /\ CountReserved(p, "Cpu")
    /\ midway' = midway \cup {[op |-> "prepare", id |-> calls']}
    /\ UNCHANGED <<m_requests, m_cancelled_requests, m_processing, submissions, gpu,
                   completions, show, closer, live, fatal>>

SubmitFlipPreparation(call) ==
    /\ Alive /\ call.op = "prepare"
    /\ midway' = midway \ {call}
    /\ submissions' = Append(submissions, call)
    /\ UNCHANGED <<port, queues, m_processing, calls, gpu, completions, show, closer, live,
                   fatal>>

(* A command buffer with a flip at end of pipe, or with WAIT_FLIP_DONE.    *)
SubmitCommands(p, index, op) ==
    /\ Alive /\ calls < MaxCalls /\ calls' = calls + 1
    /\ submissions' = Append(submissions, [op |-> op, id |-> calls', port |-> p,
                                           index |-> index])
    /\ UNCHANGED <<port, queues, m_processing, midway, gpu, completions, show, closer,
                   live, fatal>>

-----------------------------------------------------------------------------
(* Close: the port stops accepting, its requests are cancelled, its status *)
(* is reset.                                                               *)

CloseBegin(p) ==
    /\ GuestCall(p) /\ port[p].opened
    /\ port' = [port EXCEPT ![p].opened = FALSE, ![p].closing = TRUE,
                            ![p].generation = @ + 1, ![p].rate = 0, ![p].surfaces = {}]
    /\ closer' = [port |-> p, stage |-> "cancel"]
    /\ UNCHANGED <<queues, m_processing, work, show, live, fatal>>

(* The present thread is working on the front request of the port.         *)
InFlightNever(p) == FALSE
InFlightQueued(p) == m_requests # <<>> /\ Head(m_requests).port = p
InFlight(p) ==
    m_processing /\ m_requests # <<>> /\ Head(m_requests).port = p

(* Requests the GPU thread has not finished with are kept as cancelled.    *)
KeptUnrecorded(r) == r.state = "Reserved"
KeptReady(r) == r.state \in {"Reserved", "Recording", "Ready"}
Kept(r) == r.state \in {"Reserved", "Recording"}

(* The frames of the others go back to the presenter.                      *)
DiscardedNone(p) == {}
Discarded(p) == {r.id : r \in {q \in IsOf(p) : ~Kept(q)}}

CloseCancel(p) ==
    /\ Alive /\ closer = [port |-> p, stage |-> "cancel"] /\ ~InFlight(p)
    /\ IF \E r \in IsOf(p) : ~Kept(r) /\ r.state = "Presenting"
       THEN Exit("internal")
       ELSE /\ RemoveAll(IsOf(p))
            /\ m_cpu_requests' = {r \in m_cpu_requests : r.port # p}
            /\ m_cancelled_requests' = m_cancelled_requests \cup {r \in IsOf(p) : Kept(r)}
            /\ live' = live \ Discarded(p)
            /\ closer' = [closer EXCEPT !.stage = "reset"]
            /\ UNCHANGED <<port, m_processing, calls, work, show, fatal>>

CloseNoReset(p) ==
    /\ Alive /\ closer = [port |-> p, stage |-> "reset"] /\ ~Held(p)
    /\ closer' = NoClose
    /\ UNCHANGED <<port, queues, m_processing, calls, work, show, live, fatal>>
CloseReset(p) ==
    /\ Alive /\ closer = [port |-> p, stage |-> "reset"] /\ ~Held(p)
    /\ port' = [port EXCEPT ![p].flipPendingNum = 0, ![p].gcQueueNum = 0]
    /\ closer' = NoClose
    /\ UNCHANGED <<queues, m_processing, calls, work, show, live, fatal>>

-----------------------------------------------------------------------------
(* The GPU thread.                                                         *)

Moves(pc) == gpu' = [gpu EXCEPT !.pc = pc]
GpuAt(pc) == Alive /\ gpu.pc = pc

GpuTake ==
    /\ GpuAt("idle") /\ submissions # <<>>
    /\ LET s == Head(submissions) IN
          gpu' = [pc |-> CASE s.op = "prepare" -> "prepare"
                           [] s.op = "flip" -> "reserve"
                           [] s.op = "wait" -> "wait",
                  task |-> s]
    /\ submissions' = Tail(submissions)
    /\ UNCHANGED <<port, queues, m_processing, calls, midway, completions, show, closer,
                   live, fatal>>

(* PrepareVideoOutFlip, which tries again while the queue is full.         *)
GpuReserve ==
    /\ GpuAt("reserve")
    /\ LET t == gpu.task IN
          /\ closer = NoClose /\ ~Held(t.port)
          /\ \/ /\ ~MayReserve(t.port, t.index)
                /\ Exit("rejected")
             \/ /\ MayReserve(t.port, t.index) /\ QueueFull
                /\ Moves("slot") /\ UNCHANGED <<port, m_requests>>
                /\ UNCHANGED fatal
             \/ /\ MayReserve(t.port, t.index) /\ ~QueueFull
                /\ m_requests' = Append(m_requests,
                                        Reserved(t.id, t.port, t.index, "GpuEop"))
                /\ CountReserved(t.port, "GpuEop")
                /\ Moves("prepare")
                /\ UNCHANGED fatal
    /\ UNCHANGED <<m_cpu_requests, m_cancelled_requests, m_processing, calls, midway,
                   submissions, completions, show, closer, live>>

WaitForSubmitSlot ==
    /\ GpuAt("slot")
    /\ \/ QueueFull /\ m_requests = <<>> /\ Exit("saturated")
       \/ /\ ~QueueFull /\ Moves("reserve")
          /\ UNCHANGED <<port, queues, m_processing, calls, midway, submissions,
                         completions, show, closer, live, fatal>>

(* The flip's completion is deferred to the priority thread.               *)
Deferred ==
    /\ completions' = Append(completions, gpu.task.id)
    /\ gpu' = [pc |-> "idle", task |-> NoTask]

(* FlipQueue::Prepare, first critical section.                             *)
PrepareBegin ==
    /\ GpuAt("prepare")
    /\ LET queued == WithId(Pending, gpu.task.id)
           gone   == WithId(m_cancelled_requests, gpu.task.id) IN
       \/ \E r \in queued :
             /\ r.state = "Reserved"
             /\ LET taken == [r EXCEPT !.state = "Recording"] IN
                   m_requests' = IF r \in m_cpu_requests THEN Append(m_requests, taken)
                                 ELSE InSequence(taken)
             /\ m_cpu_requests' = m_cpu_requests \ {r}
             /\ gpu' = [pc |-> "record", task |-> r]
             /\ UNCHANGED <<m_cancelled_requests, completions, fatal>>
       \/ \E r \in gone :
             /\ queued = {} /\ r.state = "Reserved"
             /\ m_cancelled_requests' = Among(m_cancelled_requests,
                                              [r EXCEPT !.state = "Recording"])
             /\ Deferred
             /\ UNCHANGED <<m_requests, m_cpu_requests, fatal>>
       \/ /\ \A r \in IF queued # {} THEN queued ELSE gone : r.state # "Reserved"
          /\ fatal' = "internal"
          /\ UNCHANGED <<queues, gpu, completions>>
    /\ UNCHANGED <<port, m_processing, calls, midway, submissions, show, closer, live>>

Current(r) ==
    /\ port[r.port].opened /\ ~port[r.port].closing
    /\ port[r.port].generation = r.generation

(* Under the port's mutex: the surface is looked up and the frame taken.   *)
PrepareRecord ==
    /\ GpuAt("record") /\ ~Held(gpu.task.port)
    /\ LET r == gpu.task IN
       \/ /\ ~Current(r)
          /\ Moves("drop") /\ UNCHANGED <<live, fatal>>
       \/ /\ Current(r) /\ r.index \notin port[r.port].surfaces \cup {"blank"}
          /\ fatal' = "unregistered" /\ UNCHANGED <<gpu, live>>
       \/ /\ Current(r) /\ r.index \in port[r.port].surfaces \cup {"blank"}
          /\ live' = live \cup {r.id}
          /\ Moves("attach") /\ UNCHANGED fatal
    /\ UNCHANGED <<port, queues, m_processing, calls, midway, submissions, completions,
                   show, closer>>

(* The port was closed since the flip was reserved.                        *)
PrepareDrop ==
    /\ GpuAt("drop")
    /\ LET mine == WithId(Range(m_requests), gpu.task.id) IN
          /\ RemoveAll(mine)
          /\ m_cancelled_requests' = m_cancelled_requests \cup mine
    /\ Deferred
    /\ UNCHANGED <<port, m_cpu_requests, m_processing, calls, midway, submissions, show,
                   closer, live, fatal>>

PrepareAttach ==
    /\ GpuAt("attach")
    /\ LET mine == WithId(Range(m_requests) \cup m_cancelled_requests, gpu.task.id) IN
       \/ /\ mine = {} \/ \E r \in mine : r.state # "Recording" \/ r.frame
          /\ fatal' = "internal" /\ UNCHANGED <<queues, gpu, completions>>
       \/ \E r \in mine :
             /\ r.state = "Recording" /\ ~r.frame
             /\ LET prepared == [r EXCEPT !.frame = TRUE] IN
                   /\ m_requests' = InSequence(prepared)
                   /\ m_cancelled_requests' = IF r \in m_cancelled_requests
                                              THEN Among(m_cancelled_requests, prepared)
                                              ELSE m_cancelled_requests
             /\ Deferred
             /\ UNCHANGED <<m_cpu_requests, fatal>>
    /\ UNCHANGED <<port, m_processing, calls, midway, submissions, show, closer, live>>

(* WaitFlipDone: the port must be open; the wait ends when no request of   *)
(* the buffer is queued.                                                   *)
WaitFlipDone ==
    /\ GpuAt("wait") /\ closer = NoClose
    /\ \/ ~port[gpu.task.port].opened /\ fatal' = "closed" /\ UNCHANGED gpu
       \/ port[gpu.task.port].opened /\ Moves("waiting") /\ UNCHANGED fatal
    /\ UNCHANGED <<port, queues, m_processing, calls, midway, submissions, completions,
                   show, closer, live>>

Waited == {r \in Pending : r.port = gpu.task.port /\ r.index = gpu.task.index}

WaitReturns ==
    /\ GpuAt("waiting") /\ Waited = {}
    /\ gpu' = [pc |-> "idle", task |-> NoTask]
    /\ UNCHANGED <<port, queues, m_processing, calls, midway, submissions, completions,
                   show, closer, live, fatal>>

-----------------------------------------------------------------------------
(* The priority thread: FlipQueue::Complete once the GPU has passed.       *)
Complete ==
    /\ Alive /\ completions # <<>>
    /\ LET id     == Head(completions)
           queued == WithId(Range(m_requests), id)
           gone   == WithId(m_cancelled_requests, id) IN
       \/ \E r \in queued :
             /\ r.state = "Recording" /\ r.frame
             /\ m_requests' = InSequence([r EXCEPT !.state = "Ready"])
             /\ UNCHANGED <<m_cancelled_requests, live, fatal>>
       \/ \E r \in gone :
             /\ queued = {} /\ r.state = "Recording"
             /\ m_cancelled_requests' = m_cancelled_requests \ {r}
             /\ live' = live \ {id}
             /\ UNCHANGED <<m_requests, fatal>>
       \/ /\ \A r \in queued : r.state # "Recording" \/ ~r.frame
          /\ queued = {} => \A r \in gone : r.state # "Recording"
          /\ fatal' = "internal"
          /\ UNCHANGED <<m_requests, m_cancelled_requests, live>>
    /\ completions' = Tail(completions)
    /\ UNCHANGED <<port, m_cpu_requests, m_processing, calls, midway, submissions, gpu,
                   show, closer>>

-----------------------------------------------------------------------------
(* The present thread: FlipQueue::Flip and VblankEnd, in a loop.           *)

ShowAt(pc) == Alive /\ show.pc = pc

FlipPick ==
    /\ ShowAt("top")
    /\ IF m_requests = <<>> \/ Head(m_requests).state # "Ready"
       THEN /\ show' = [pc |-> "vblank", r |-> NoTask]
            /\ UNCHANGED <<m_processing, fatal>>
       ELSE /\ show' = [pc |-> "picked", r |-> Head(m_requests)]
            /\ m_processing' = TRUE
            /\ fatal' = IF m_processing THEN "internal" ELSE fatal
    /\ UNCHANGED <<port, queues, calls, work, closer, live>>

IsFlipDue(r) == Current(r) /\ port[r.port].vblank % (port[r.port].rate + 1) = 0

(* Under the port's mutex, which is kept when the flip is due.             *)
FlipBegin ==
    /\ ShowAt("picked")
    /\ \/ /\ ~IsFlipDue(show.r)
          /\ show' = [pc |-> "vblank", r |-> NoTask] /\ m_processing' = FALSE
          /\ UNCHANGED <<m_requests, fatal>>
       \/ /\ IsFlipDue(show.r) /\ (m_requests = <<>> \/ Head(m_requests) # show.r)
          /\ fatal' = "internal" /\ UNCHANGED <<m_requests, m_processing, show>>
       \/ /\ IsFlipDue(show.r) /\ m_requests # <<>> /\ Head(m_requests) = show.r
          /\ m_requests' = InSequence([show.r EXCEPT !.state = "Presenting"])
          /\ show' = [show EXCEPT !.pc = "presenting"]
          /\ UNCHANGED <<m_processing, fatal>>
    /\ UNCHANGED <<port, m_cpu_requests, m_cancelled_requests, calls, work, closer, live>>

FlipDone ==
    /\ ShowAt("presenting")
    /\ LET r == show.r IN
       \/ /\ m_requests = <<>> \/ Head(m_requests) # [r EXCEPT !.state = "Presenting"]
          /\ fatal' = "internal"
          /\ UNCHANGED <<port, m_requests, m_processing, show, live>>
       \/ /\ m_requests # <<>> /\ Head(m_requests) = [r EXCEPT !.state = "Presenting"]
          /\ m_requests' = Tail(m_requests)
          /\ port' = [port EXCEPT ![r.port].flipPendingNum = PendingNum - 1,
                        ![r.port].gcQueueNum =
                            IF r.source = "GpuEop" /\ @ > 0 THEN @ - 1 ELSE @]
          /\ live' = live \ {r.id}
          /\ m_processing' = FALSE
          /\ show' = [pc |-> "vblank", r |-> NoTask]
          /\ UNCHANGED fatal
    /\ UNCHANGED <<m_cpu_requests, m_cancelled_requests, calls, work, closer>>

(* The count of vertical blanks matters modulo the least common multiple   *)
(* of the intervals, which are one more than the rates.                    *)
Cycle == IF 2 \in Rates THEN 6 ELSE 2

VblankEnd ==
    /\ ShowAt("vblank") /\ closer = NoClose
    /\ port' = [p \in Ports |-> IF port[p].opened
                                THEN [port[p] EXCEPT !.vblank = (@ + 1) % Cycle] ELSE port[p]]
    /\ show' = [pc |-> "top", r |-> NoTask]
    /\ UNCHANGED <<queues, m_processing, calls, work, closer, live, fatal>>

-----------------------------------------------------------------------------
Init ==
    /\ port = [p \in Ports |-> ClosedPort]
    /\ m_requests = <<>> /\ m_cpu_requests = {} /\ m_cancelled_requests = {}
    /\ m_processing = FALSE /\ calls = 0 /\ midway = {} /\ submissions = <<>>
    /\ gpu = [pc |-> "idle", task |-> NoTask]
    /\ show = [pc |-> "top", r |-> NoTask]
    /\ completions = <<>> /\ closer = NoClose /\ live = {} /\ fatal = "none"

GuestNext ==
    \E p \in Ports :
        \/ Open(p) \/ RegisterBuffers(p) \/ UnregisterBuffers(p) \/ CloseBegin(p)
        \/ \E rate \in Rates : SetFlipRate(p, rate)
        \/ \E index \in Indexes :
              \/ SubmitFlip(p, index)
              \/ \E op \in {"flip", "wait"} : SubmitCommands(p, index, op)

Handover == \E call \in midway : SubmitFlipPreparation(call) \/ WriteFlipRate(call)
CloseNext == \E p \in Ports : CloseCancel(p) \/ CloseReset(p)
GpuNext == \/ GpuTake \/ GpuReserve \/ WaitForSubmitSlot \/ PrepareBegin \/ PrepareRecord
           \/ PrepareDrop \/ PrepareAttach \/ WaitFlipDone \/ WaitReturns
ShowNext == FlipPick \/ FlipBegin \/ FlipDone \/ VblankEnd

Next == GuestNext \/ Handover \/ CloseNext \/ GpuNext \/ Complete \/ ShowNext

(* Every thread of the emulator runs: the threads that have started a call *)
(* finish it, but no guest need make another call.                         *)
Fairness == /\ WF_vars(Handover) /\ WF_vars(CloseNext) /\ WF_vars(GpuNext)
            /\ WF_vars(Complete) /\ WF_vars(ShowNext)

Spec == Init /\ [][Next]_vars /\ Fairness

-----------------------------------------------------------------------------
(* The state has the types of the members it stands for.                   *)
TypeOK ==
    /\ port \in [Ports -> [opened : BOOLEAN, closing : BOOLEAN, generation : 0..MaxCalls,
                           rate : 0..2, surfaces : SUBSET Surfaces, vblank : 0..(Cycle - 1),
                           flipPendingNum : 0..Capacity, gcQueueNum : 0..Capacity]]
    /\ Pending \cup m_cancelled_requests \subseteq Request
    /\ PendingNum <= Capacity
    /\ m_processing \in BOOLEAN /\ calls \in 0..MaxCalls /\ live \subseteq Ids
    /\ fatal \in {"none", "internal", "reopen", "rejected", "saturated", "unregistered", "closed"}

(* The EXITs that guard the queue's own protocol (a completed flip without *)
(* a recording, a request that changed while it was recorded or presented, *)
(* a presenting request met by a cancellation) are unreachable.  The other *)
(* reasons to exit are about what the guest does, but for "reopen".        *)
ProtocolHolds == fatal # "internal"

(* Open finds what Close has reset: the EXIT_IFs on flip_rate, buffers and *)
(* groups are unreachable.  They are not: a call of SetFlipRate that found *)
(* the port open may write its rate once Close is through.                 *)
PortsAreReset == fatal # "reopen"

(* Every frame in use belongs to one request that will present or discard  *)
(* it, and a request that has a frame still owns it: a cancellation that   *)
(* meets a recording neither leaks the frame nor frees it twice.           *)
FramesOwned ==
    live = {r.id : r \in {q \in Pending \cup m_cancelled_requests : q.frame}}
           \cup {id \in {gpu.task.id} : gpu.pc = "attach"}

(* Once Close has returned, no request of the port is queued, the ones the *)
(* GPU thread or the present thread was working on included.               *)
ClosedPortIsQuiet ==
    \A p \in Ports : ~port[p].opened /\ closer.port # p =>
        IsOf(p) = {} /\ port[p].flipPendingNum = 0

(* The status a guest polls never shows fewer flips than are queued, and   *)
(* counts the flips of the GPU exactly.                                    *)
StatusCovers ==
    \A p \in Ports : closer.port # p =>
        /\ port[p].flipPendingNum >= Cardinality(IsOf(p))
        /\ port[p].gcQueueNum = Cardinality({r \in IsOf(p) : r.source = "GpuEop"})

(* Requests and their frames go through the queue as its checks expect.    *)
RequestsKept == TypeOK /\ ProtocolHolds /\ FramesOwned

(* A port's status tells what the queue holds for it; closed, that is none.*)
PortsTellTheTruth == ClosedPortIsQuiet /\ StatusCovers

(* WAIT_FLIP_DONE waits for a CPU flip whose preparation is queued behind  *)
(* the very command buffer that waits.                                     *)
WaitsForItself == gpu.pc = "waiting" /\ Waited \cap m_cpu_requests # {}

(* Every flip that is reserved is presented or cancelled, whatever the     *)
(* ports and the flip rate do meanwhile, unless the process exits or the   *)
(* GPU thread waits for itself.  (That what is queued leads to its leaving *)
(* is that again and again it is not queued.)                              *)
FlipsLeave ==
    \A id \in Ids : []<>(\/ WithId(Pending \cup m_cancelled_requests, id) = {}
                        \/ ~Alive \/ WaitsForItself)

(* Close returns: the present thread gives up the port's front request.    *)
CloseReturns == []<>(closer = NoClose \/ ~Alive)

(* Flips leave the queue and Close returns.                                *)
FlipsAndClosesEnd == FlipsLeave /\ CloseReturns
=============================================================================
