------------------------------ MODULE GuestGpu ------------------------------
(***************************************************************************)
(* The guest GPU (graphics/guest_gpu/graphicsRun.cpp): the submission      *)
(* queues of the graphics ring and the compute rings, the commands guest   *)
(* threads hand to the GPU thread, and the loop of that thread, which      *)
(* executes one slice of one submission at a time and puts a submission    *)
(* that waits for a label back in front of its queue.                      *)
(*                                                                         *)
(* Guest threads call Submit, SubmitCompute, SubmitFlipPreparation, Done   *)
(* and SendCommandSync; the main thread calls Shutdown.  A critical        *)
(* section of m_queue_mutex is one step: its condition variables are       *)
(* always signalled with the mutex held.  m_submission_mutex is a variable *)
(* because Done waits while it holds it.                                   *)
(*                                                                         *)
(* A PM4 stream is the sequence of packets the protocol depends on:        *)
(* WAIT_REG_MEM on a label, RELEASE_MEM writing one, WRITE_DATA storing    *)
(* one while the stream is parsed, a packet whose handler flushes the      *)
(* command buffer, WAIT_FLIP_DONE, which flushes and then blocks the GPU   *)
(* thread, and draws, which read the context registers.  The label         *)
(* of a RELEASE_MEM reaches memory the way CommandScheduler promises: it   *)
(* is recorded, submitted by a flush, and published, in order, by the      *)
(* priority thread.  The constant stream of a submission is empty in every *)
(* call of Submit (libs/agc.cpp), hence complete from the start.           *)
(***************************************************************************)
EXTENDS Integers, Sequences, FiniteSets

CONSTANTS
    Guests,       \* guest threads
    QueueCount,   \* queue 0 is the graphics ring, the others compute rings
    Submissions,  \* command buffers, each submitted at most once
    Flips,        \* those of them that are CPU flip preparations
    QueueOf,      \* the ring each is submitted to
    Program,      \* the packets of each
    Labels,       \* memory words packets wait for and write
    CpuLabels,    \* those a guest thread may write itself
    MaxDone       \* bound: number of Done calls

Ops == {"wait", "write", "data", "flush", "draw", "flipdone"}

ASSUME QueueCountAssumption == QueueCount \in Nat \ {0}
ASSUME MaxDoneAssumption == MaxDone \in Nat
ASSUME SubmissionsAssumption ==
    /\ "none" \notin Submissions /\ "free" \notin Guests
    /\ Flips \subseteq Submissions /\ CpuLabels \subseteq Labels
    /\ QueueOf \in [Submissions -> 0..(QueueCount - 1)]
    /\ Program \in [Submissions -> Seq([op : Ops, label : Labels])]
    /\ \A s \in Submissions : Program[s] # <<>>
    /\ \A s \in Flips : /\ QueueOf[s] = 0 /\ Len(Program[s]) = 1
                        /\ Program[s][1].op = "write"

VARIABLES
    m_queues,               \* per ring, its pending submissions
    m_submission_count,
    m_commands,             \* the guests whose command is queued
    m_processing,
    m_accepting,
    m_stopping,
    m_next_queue,
    m_canceled_submissions,
    m_graphics_done,
    m_done_num,
    m_submission_mutex,     \* the guest inside Done, or "free"
    m_requests,             \* labels of the CPU flips reserved and not presented (FlipQueue)
    shutdown,               \* the main thread's call of Shutdown
    terminated,             \* an EXIT_IF ended the process
    pc,                     \* control state of each guest thread
    gpu,                    \* control state of the GPU thread
    current,                \* the submission Process was called with
    progressed,             \* Process: some packet of this slice was executed
    round_progress,         \* Process: some packet of this round was
    command,                \* the guest whose command the GPU thread runs
    recorded,               \* labels in the open command buffer
    inFlight,               \* labels submitted and not yet published
    labels,                 \* labels published
    context,                \* submissions whose state the graphics context holds
    accepted,               \* history: per ring, submissions in acceptance order
    executed,               \* history: per ring, <<submission, packet>> in order
    completed,              \* history: submissions that completed
    frame                   \* history: m_done_num at acceptance

queueState == <<m_queues, m_submission_count, m_next_queue, m_canceled_submissions>>
lifecycle  == <<m_accepting, m_stopping, shutdown, terminated>>
frames     == <<m_graphics_done, m_done_num, m_submission_mutex, m_requests>>
slice      == <<current, progressed, round_progress>>
pipeline   == <<recorded, inFlight, labels>>
history    == <<accepted, executed, completed, frame>>
vars       == <<queueState, m_commands, m_processing, lifecycle, frames, pc, gpu,
                slice, command, pipeline, context, history>>

Queues == 0..(QueueCount - 1)
NoSubmission == [id |-> "none", pos |-> 0, started |-> FALSE, blocked |-> FALSE,
                 reset |-> FALSE]
Records == [id : Submissions, pos : Nat, started : BOOLEAN, blocked : BOOLEAN,
            reset : BOOLEAN]

Accepted  == {s \in Submissions : \E i \in DOMAIN accepted[QueueOf[s]] :
                                     accepted[QueueOf[s]][i] = s}
Queued(q) == {m_queues[q][i].id : i \in DOMAIN m_queues[q]}

(* The label that says that a flip has been prepared.                      *)
FlipLabel(s) == Program[s][1].label

-----------------------------------------------------------------------------
(* The scheduler as the GPU thread sees it.                                *)

Flush ==
    /\ inFlight' = inFlight \o recorded
    /\ recorded' = <<>>
    /\ UNCHANGED labels

(* The priority thread publishes the labels of retired submissions.        *)
Publish ==
    /\ inFlight # <<>>
    /\ labels' = labels \cup {Head(inFlight)}
    /\ inFlight' = Tail(inFlight)
    /\ UNCHANGED <<queueState, m_commands, m_processing, lifecycle, frames, pc, gpu,
                   slice, command, recorded, context, history>>

(* A guest thread writes a label itself.                                   *)
CpuWrite(l) ==
    /\ l \in CpuLabels \ labels
    /\ labels' = labels \cup {l}
    /\ UNCHANGED <<queueState, m_commands, m_processing, lifecycle, frames, pc, gpu,
                   slice, command, recorded, inFlight, context, history>>

-----------------------------------------------------------------------------
(* Guest threads.                                                          *)

(* Mutant: the signal is forgotten.                                        *)
NoSignal == UNCHANGED gpu

SignalWork == gpu' = IF gpu = "asleep" THEN "loop" ELSE gpu

SignalIdle == pc' = [g \in Guests |-> IF pc[g] = "parked" THEN "idle" ELSE pc[g]]

(* Mutant: SubmitFlipPreparation does not pass the reset on.                *)
ResetProcessorForgotten(s) == s \notin Flips /\ QueueOf[s] = 0 /\ m_graphics_done

(* reset_processor: the first graphics or flip submission after Done.      *)
ResetProcessor(s) == QueueOf[s] = 0 /\ m_graphics_done

(* Enqueue.                                                                *)
Enqueue(s) ==
    LET q == QueueOf[s]
        submission == [NoSubmission EXCEPT !.id = s, !.reset = ResetProcessor(s)]
    IN  /\ m_queues' = [m_queues EXCEPT ![q] = Append(@, submission)]
        /\ m_submission_count' = m_submission_count + 1
        /\ accepted' = [accepted EXCEPT ![q] = Append(@, s)]
        /\ frame' = [frame EXCEPT ![s] = m_done_num]
        /\ SignalWork

(* VideoOutSubmitFlip reserves the flip before it hands the preparation to *)
(* SubmitFlipPreparation.                                                  *)
ReserveFlip(s) ==
    /\ s \notin Accepted /\ FlipLabel(s) \notin m_requests
    /\ m_requests' = m_requests \cup {FlipLabel(s)}
    /\ UNCHANGED <<queueState, m_commands, m_processing, lifecycle, m_graphics_done,
                   m_done_num, m_submission_mutex, pc, gpu, slice, command, pipeline,
                   context, history>>

(* The present thread shows a flip that has been prepared.                 *)
Present(l) ==
    /\ l \in m_requests /\ l \in labels
    /\ m_requests' = m_requests \ {l}
    /\ UNCHANGED <<queueState, m_commands, m_processing, lifecycle, m_graphics_done,
                   m_done_num, m_submission_mutex, pc, gpu, slice, command, pipeline,
                   context, history>>

(* Mutant: the submission mutex is not taken.                              *)
SubmitUnlocked(g, s) ==
    /\ pc[g] = "guest" /\ s \notin Accepted /\ m_accepting
    /\ s \in Flips => FlipLabel(s) \in m_requests
    /\ Enqueue(s)
    /\ m_graphics_done' = (m_graphics_done /\ QueueOf[s] # 0)
    /\ UNCHANGED <<m_next_queue, m_canceled_submissions, m_commands, m_processing,
                   lifecycle, m_done_num, m_submission_mutex, m_requests, pc, slice,
                   command, pipeline, context, executed, completed>>

(* Submit, SubmitCompute, SubmitFlipPreparation.                           *)
Submit(g, s) ==
    /\ pc[g] = "guest" /\ s \notin Accepted /\ m_accepting
    /\ m_submission_mutex = "free" /\ (s \in Flips => FlipLabel(s) \in m_requests)
    /\ Enqueue(s)
    /\ m_graphics_done' = (m_graphics_done /\ QueueOf[s] # 0)
    /\ UNCHANGED <<m_next_queue, m_canceled_submissions, m_commands, m_processing,
                   lifecycle, m_done_num, m_submission_mutex, m_requests, pc, slice,
                   command, pipeline, context, executed, completed>>

(* SendCommandSync: the guest waits until its command has run.             *)
SendCommandSync(g) ==
    /\ pc[g] = "guest" /\ m_accepting
    /\ m_commands' = Append(m_commands, g)
    /\ pc' = [pc EXCEPT ![g] = "sync"]
    /\ SignalWork
    /\ UNCHANGED <<queueState, m_processing, lifecycle, frames, slice, command,
                   pipeline, context, history>>

(* EXIT_IF(!m_accepting): a call that comes after Shutdown has begun ends  *)
(* the process.                                                            *)
CallRejected(g) ==
    /\ pc[g] = "guest" /\ ~m_accepting
    /\ terminated' = TRUE
    /\ UNCHANGED <<queueState, m_commands, m_processing, m_accepting, m_stopping,
                   shutdown, frames, pc, gpu, slice, command, pipeline, context,
                   history>>

(* Done, up to its first look at the predicate of WaitForIdle.             *)
Done(g) ==
    /\ pc[g] = "guest" /\ m_submission_mutex = "free" /\ m_done_num < MaxDone
    /\ m_submission_mutex' = g
    /\ pc' = [pc EXCEPT ![g] = "idle"]
    /\ UNCHANGED <<queueState, m_commands, m_processing, lifecycle, m_graphics_done,
                   m_done_num, m_requests, gpu, slice, command, pipeline, context, history>>

Idle == ~m_processing /\ m_commands = <<>> /\ m_submission_count = 0

(* WaitForIdle: park on m_idle, to look again when signalled.              *)
DoneWaits(g) ==
    /\ pc[g] = "idle" /\ ~Idle
    /\ pc' = [pc EXCEPT ![g] = "parked"]
    /\ UNCHANGED <<queueState, m_commands, m_processing, lifecycle, frames, gpu, slice,
                   command, pipeline, context, history>>

(* WaitForIdle has seen the GPU idle and released m_queue_mutex.           *)
DoneSeesIdle(g) ==
    /\ pc[g] = "idle" /\ Idle
    /\ pc' = [pc EXCEPT ![g] = "done"]
    /\ UNCHANGED <<queueState, m_commands, m_processing, lifecycle, frames, gpu, slice,
                   command, pipeline, context, history>>

DoneReturns(g) ==
    /\ pc[g] = "done"
    /\ m_graphics_done' = TRUE
    /\ m_done_num' = m_done_num + 1
    /\ m_submission_mutex' = "free"
    /\ pc' = [pc EXCEPT ![g] = "guest"]
    /\ UNCHANGED <<queueState, m_commands, m_processing, lifecycle, m_requests, gpu, slice,
                   command, pipeline, context, history>>

(* Mutant: a sleeping GPU thread is not told to stop.                      *)
ShutdownUnsignalled ==
    /\ shutdown = "no"
    /\ m_accepting' = FALSE /\ m_stopping' = TRUE /\ shutdown' = "join"
    /\ UNCHANGED <<queueState, m_commands, m_processing, terminated, frames, pc, gpu,
                   slice, command, pipeline, context, history>>

(* Shutdown: stop the GPU thread, then join it.                            *)
Shutdown ==
    /\ shutdown = "no"
    /\ m_accepting' = FALSE /\ m_stopping' = TRUE /\ shutdown' = "join"
    /\ SignalWork
    /\ UNCHANGED <<queueState, m_commands, m_processing, terminated, frames, pc, slice,
                   command, pipeline, context, history>>

ShutdownReturns ==
    /\ shutdown = "join" /\ gpu = "exited"
    /\ shutdown' = "complete"
    /\ UNCHANGED <<queueState, m_commands, m_processing, m_accepting, m_stopping,
                   terminated, frames, pc, gpu, slice, command, pipeline, context,
                   history>>

-----------------------------------------------------------------------------
(* ThreadRun: one iteration of the loop under m_queue_mutex.               *)

(* Nothing to do: announce it and sleep.                                   *)
LoopSleeps ==
    /\ gpu = "loop" /\ m_commands = <<>> /\ m_submission_count = 0 /\ ~m_stopping
    /\ m_processing' = FALSE
    /\ SignalIdle
    /\ gpu' = "asleep"
    /\ UNCHANGED <<queueState, m_commands, lifecycle, frames, slice, command, pipeline,
                   context, history>>

(* condition_variable waits may end by themselves.                         *)
SpuriousWakeup ==
    /\ \/ gpu = "asleep" /\ gpu' = "loop" /\ UNCHANGED pc
       \/ \E g \in Guests : /\ pc[g] = "parked"
                            /\ pc' = [pc EXCEPT ![g] = "idle"]
                            /\ UNCHANGED gpu
    /\ UNCHANGED <<queueState, m_commands, m_processing, lifecycle, frames, slice,
                   command, pipeline, context, history>>

LoopStops ==
    /\ gpu = "loop" /\ m_stopping /\ m_commands = <<>> /\ m_submission_count = 0
    /\ m_processing' = FALSE
    /\ SignalIdle
    /\ gpu' = "stop"
    /\ UNCHANGED <<queueState, m_commands, lifecycle, frames, slice, command, pipeline,
                   context, history>>

(* Mutant: cancels without looking at the queued commands.                 *)
LoopCancelsCommands ==
    /\ gpu = "loop" /\ m_stopping /\ m_submission_count # 0
    /\ m_canceled_submissions' = m_canceled_submissions + m_submission_count
    /\ m_queues' = [q \in Queues |-> <<>>]
    /\ m_submission_count' = 0
    /\ m_commands' = <<>>
    /\ UNCHANGED <<m_next_queue, m_processing, lifecycle, frames, pc, gpu, slice,
                   command, pipeline, context, history>>

(* Mutant: forgets to count what it drops.                                 *)
LoopCancelsUncounted ==
    /\ gpu = "loop" /\ m_stopping /\ m_commands = <<>> /\ m_submission_count # 0
    /\ m_queues' = [q \in Queues |-> <<>>]
    /\ m_submission_count' = 0
    /\ UNCHANGED <<m_next_queue, m_canceled_submissions, m_commands, m_processing,
                   lifecycle, frames, pc, gpu, slice, command, pipeline, context,
                   history>>

(* Shutdown cancels what is still queued, a started submission included.   *)
LoopCancels ==
    /\ gpu = "loop" /\ m_stopping /\ m_commands = <<>> /\ m_submission_count # 0
    /\ m_canceled_submissions' = m_canceled_submissions + m_submission_count
    /\ m_queues' = [q \in Queues |-> <<>>]
    /\ m_submission_count' = 0
    /\ UNCHANGED <<m_next_queue, m_commands, m_processing, lifecycle, frames, pc, gpu,
                   slice, command, pipeline, context, history>>

(* A queued command goes first, and still runs when the GPU is stopping.   *)
LoopTakesCommand ==
    /\ gpu = "loop" /\ m_commands # <<>>
    /\ command' = Head(m_commands)
    /\ m_commands' = Tail(m_commands)
    /\ m_processing' = TRUE
    /\ gpu' = "command"
    /\ UNCHANGED <<queueState, lifecycle, frames, pc, slice, pipeline, context, history>>

MaySelect == gpu = "loop" /\ m_commands = <<>> /\ m_submission_count # 0 /\ ~m_stopping
Runnable  == {q \in Queues : m_queues[q] # <<>> /\ ~Head(m_queues[q]).blocked}

(* The distance of a ring from m_next_queue.                               *)
Offset(q) == (q + QueueCount - m_next_queue) % QueueCount

(* Mutant: no wrap-around.                                                 *)
NextQueueUnwrapped(q) == q + 1

NextQueue(q) == (q + 1) % QueueCount

LoopTakesSubmission ==
    /\ MaySelect
    /\ \E q \in Runnable :
          /\ \A r \in Runnable : Offset(q) <= Offset(r)
          /\ current' = Head(m_queues[q])
          /\ m_queues' = [m_queues EXCEPT ![q] = Tail(@)]
          /\ m_next_queue' = NextQueue(q)
    /\ m_submission_count' = m_submission_count - 1
    /\ m_processing' = TRUE
    /\ gpu' = "begin"
    /\ UNCHANGED <<m_canceled_submissions, m_commands, lifecycle, frames, pc,
                   progressed, round_progress, command, pipeline, context, history>>

(* Every ring's front is blocked: wait for 100 us or for a signal.         *)
LoopPolls ==
    /\ MaySelect /\ Runnable = {}
    /\ m_processing' = FALSE
    /\ gpu' = "polling"
    /\ UNCHANGED <<queueState, m_commands, lifecycle, frames, pc, slice, command,
                   pipeline, context, history>>

(* Mutant: the fronts stay blocked.                                        *)
FrontsStayBlocked == m_queues

(* Every front becomes runnable again.                                     *)
UnblockedFronts ==
    [q \in Queues |-> IF m_queues[q] = <<>> THEN <<>>
                      ELSE [m_queues[q] EXCEPT ![1].blocked = FALSE]]

PollEnds ==
    /\ gpu = "polling"
    /\ m_queues' = UnblockedFronts
    /\ gpu' = "loop"
    /\ UNCHANGED <<m_submission_count, m_next_queue, m_canceled_submissions, m_commands,
                   m_processing, lifecycle, frames, pc, slice, command, pipeline,
                   context, history>>

-----------------------------------------------------------------------------
(* Commands, run by the loop ("command") or between packets ("inner").     *)
(* The command is GpuResourceManager::UnmapMemory: finish what is recorded *)
(* and wait for its priority operations.                                   *)

(* ProcessCommands: before every packet.                                   *)
ProcessCommands ==
    /\ gpu = "packet" /\ m_commands # <<>>
    /\ command' = Head(m_commands)
    /\ m_commands' = Tail(m_commands)
    /\ gpu' = "inner"
    /\ UNCHANGED <<queueState, m_processing, lifecycle, frames, pc, slice, pipeline,
                   context, history>>

CommandFinishes ==
    /\ gpu \in {"command", "inner"}
    /\ Flush
    /\ gpu' = IF gpu = "command" THEN "commandWait" ELSE "innerWait"
    /\ UNCHANGED <<queueState, m_commands, m_processing, lifecycle, frames, pc, slice,
                   command, context, history>>

(* Mutant: returns when the work is submitted, not when it is done.        *)
CommandDoesNotWait == recorded = <<>>

PriorityOperationsDone == inFlight = <<>>

(* done.release(): the command was run between two packets.                *)
InnerCommandReturns ==
    /\ gpu = "innerWait" /\ PriorityOperationsDone
    /\ pc' = [pc EXCEPT ![command] = "guest"]
    /\ command' = "free"
    /\ gpu' = "packet"
    /\ UNCHANGED <<queueState, m_commands, m_processing, lifecycle, frames, slice,
                   pipeline, context, history>>

(* done.release(): the command was run by the loop, which locks the queue  *)
(* again afterwards.                                                       *)
CommandReturns ==
    /\ gpu = "commandWait" /\ PriorityOperationsDone
    /\ pc' = [pc EXCEPT ![command] = "guest"]
    /\ command' = "free"
    /\ gpu' = "commandEnd"
    /\ UNCHANGED <<queueState, m_commands, m_processing, lifecycle, frames, slice,
                   pipeline, context, history>>

SignalIfEmpty ==
    IF m_commands = <<>> /\ m_submission_count' = 0 THEN SignalIdle ELSE UNCHANGED pc

CommandEnds ==
    /\ gpu = "commandEnd"
    /\ m_processing' = FALSE
    /\ UNCHANGED queueState
    /\ SignalIfEmpty
    /\ gpu' = "loop"
    /\ UNCHANGED <<m_commands, lifecycle, frames, slice, command, pipeline, context,
                   history>>

-----------------------------------------------------------------------------
(* Process: one slice of a submission.                                     *)

Resets == current.reset /\ ~current.started

BeginSlice ==
    /\ gpu = "begin"
    /\ context' = IF Resets THEN {} ELSE context
    /\ current' = [current EXCEPT !.started = TRUE]
    /\ progressed' = FALSE /\ round_progress' = FALSE
    /\ gpu' = IF current.id \in Flips THEN "flip" ELSE "packet"
    /\ UNCHANGED <<queueState, m_commands, m_processing, lifecycle, frames, pc, command,
                   pipeline, history>>

complete == current.pos = Len(Program[current.id])
Packet   == Program[current.id][current.pos + 1]
AtPacket == gpu = "packet" /\ m_commands = <<>> /\ ~complete

(* The packet's handler returned without suspending the stream.            *)
Advance ==
    LET q == QueueOf[current.id]
    IN  /\ current' = [current EXCEPT !.pos = @ + 1]
        /\ executed' = [executed EXCEPT ![q] = Append(@, <<current.id, current.pos + 1>>)]
        /\ context' = IF q = 0 THEN context \cup {current.id} ELSE context
        /\ progressed' = TRUE /\ round_progress' = TRUE

(* Mutant: a label the device has not written yet counts as written.       *)
WaitSatisfiedEarly(l) == l \in labels \/ \E i \in DOMAIN inFlight : inFlight[i] = l

(* TestWaitRegMemValue on what ReadCommandMemory returned.                 *)
WaitSatisfied(l) == l \in labels

(* WaitRegMem on a satisfied label; a draw.                                *)
PacketPasses ==
    /\ AtPacket
    /\ Packet.op = "draw" \/ (Packet.op = "wait" /\ WaitSatisfied(Packet.label))
    /\ Advance
    /\ UNCHANGED <<queueState, m_commands, m_processing, lifecycle, frames, pc, gpu,
                   command, pipeline, accepted, completed, frame>>

(* RELEASE_MEM: the label is recorded behind what precedes it.             *)
PacketWrites ==
    /\ AtPacket /\ Packet.op = "write"
    /\ recorded' = Append(recorded, Packet.label)
    /\ Advance
    /\ UNCHANGED <<queueState, m_commands, m_processing, lifecycle, frames, pc, gpu,
                   command, inFlight, labels, accepted, completed, frame>>

(* WRITE_DATA stores at once, ahead of the labels still recorded.          *)
PacketStores ==
    /\ AtPacket /\ Packet.op = "data"
    /\ labels' = labels \cup {Packet.label}
    /\ Advance
    /\ UNCHANGED <<queueState, m_commands, m_processing, lifecycle, frames, pc, gpu,
                   command, recorded, inFlight, accepted, completed, frame>>

(* A handler that flushes: a predication that waits for the device, a      *)
(* flip.  The flip may first have to wait for a slot of the flip queue,    *)
(* which the present thread frees by itself (module FlipQueue).            *)
PacketFlushes ==
    /\ AtPacket /\ Packet.op = "flush"
    /\ Flush
    /\ Advance
    /\ UNCHANGED <<queueState, m_commands, m_processing, lifecycle, frames, pc, gpu,
                   command, accepted, completed, frame>>

(* WaitFlipDone: flush, then wait in FlipQueue::Wait.  The GPU thread does *)
(* nothing else meanwhile: it runs no command, and no other ring.          *)
PacketWaitsForFlip ==
    /\ AtPacket /\ Packet.op = "flipdone"
    /\ Flush
    /\ gpu' = "flipWait"
    /\ UNCHANGED <<queueState, m_commands, m_processing, lifecycle, frames, pc, slice,
                   command, context, history>>

FlipWaitReturns ==
    /\ gpu = "flipWait" /\ Packet.label \notin m_requests
    /\ Advance
    /\ gpu' = "packet"
    /\ UNCHANGED <<queueState, m_commands, m_processing, lifecycle, frames, pc, command,
                   pipeline, accepted, completed, frame>>

(* ReadCommandMemory of a label in GPU-dirty memory reads it back first.   *)
WaitReadsBack ==
    /\ AtPacket /\ Packet.op = "wait" /\ recorded # <<>>
    /\ Flush
    /\ UNCHANGED <<queueState, m_commands, m_processing, lifecycle, frames, pc, gpu,
                   slice, command, context, history>>

(* The wait fails and SuspendPm4 leaves the cursor at it.  A graphics      *)
(* slice goes round once more as long as the last round executed a packet; *)
(* a compute slice ends.                                                   *)
PacketSuspends ==
    /\ AtPacket /\ Packet.op = "wait" /\ ~WaitSatisfied(Packet.label)
    /\ round_progress' = FALSE
    /\ gpu' = IF QueueOf[current.id] = 0 /\ round_progress THEN "packet" ELSE "flush"
    /\ UNCHANGED <<queueState, m_commands, m_processing, lifecycle, frames, pc,
                   current, progressed, command, pipeline, context, history>>

StreamEnds ==
    /\ gpu = "packet" /\ m_commands = <<>> /\ complete
    /\ gpu' = "flush"
    /\ UNCHANGED <<queueState, m_commands, m_processing, lifecycle, frames, pc, slice,
                   command, pipeline, context, history>>

(* PrepareCpuFlip: the flip's completion is recorded and flushed.          *)
PrepareCpuFlip ==
    /\ gpu = "flip"
    /\ inFlight' = inFlight \o Append(recorded, Packet.label)
    /\ recorded' = <<>>
    /\ Advance
    /\ gpu' = "return"
    /\ UNCHANGED <<queueState, m_commands, m_processing, lifecycle, frames, pc, command,
                   labels, accepted, completed, frame>>

(* Mutant: a blocked slice is not flushed.                                 *)
FlushWhenComplete == progressed /\ complete

FlushNeeded == progressed

EndSlice ==
    /\ gpu = "flush"
    /\ IF FlushNeeded THEN Flush ELSE UNCHANGED pipeline
    /\ gpu' = "return"
    /\ UNCHANGED <<queueState, m_commands, m_processing, lifecycle, frames, pc, slice,
                   command, context, history>>

(* Mutant: the blocked submission goes behind the others of its ring.      *)
PutBehind(q, submission) == Append(m_queues[q], submission)

PutBack(q, submission) == <<submission>> \o m_queues[q]

(* ThreadRun after a slice that is not complete.                           *)
SliceBlocks ==
    /\ gpu = "return" /\ ~complete
    /\ LET q == QueueOf[current.id]
       IN  m_queues' = [m_queues EXCEPT
                          ![q] = PutBack(q, [current EXCEPT !.blocked = TRUE])]
    /\ m_submission_count' = m_submission_count + 1
    /\ m_processing' = FALSE
    /\ current' = NoSubmission
    /\ gpu' = "loop"
    /\ UNCHANGED <<m_next_queue, m_canceled_submissions, m_commands, lifecycle, frames,
                   pc, progressed, round_progress, command, pipeline, context, history>>

(* ThreadRun after a slice that completed its submission.                  *)
SliceCompletes ==
    /\ gpu = "return" /\ complete
    /\ m_queues' = UnblockedFronts
    /\ UNCHANGED m_submission_count
    /\ completed' = completed \cup {current.id}
    /\ m_processing' = FALSE
    /\ SignalIfEmpty
    /\ current' = NoSubmission
    /\ gpu' = "loop"
    /\ UNCHANGED <<m_next_queue, m_canceled_submissions, m_commands, lifecycle, frames,
                   progressed, round_progress, command, pipeline, context, accepted,
                   executed, frame>>

(* should_stop: BufferWait, then DrainPriorityOperations.                  *)
FinalFinish ==
    /\ gpu = "stop"
    /\ Flush
    /\ gpu' = "drain"
    /\ UNCHANGED <<queueState, m_commands, m_processing, lifecycle, frames, pc, slice,
                   command, context, history>>

ThreadExits ==
    /\ gpu = "drain" /\ inFlight = <<>>
    /\ gpu' = "exited"
    /\ UNCHANGED <<queueState, m_commands, m_processing, lifecycle, frames, pc, slice,
                   command, pipeline, context, history>>

-----------------------------------------------------------------------------
Init ==
    /\ m_queues = [q \in Queues |-> <<>>] /\ m_submission_count = 0
    /\ m_next_queue = 0 /\ m_canceled_submissions = 0
    /\ m_commands = <<>> /\ m_processing = FALSE
    /\ m_accepting = TRUE /\ m_stopping = FALSE /\ shutdown = "no" /\ terminated = FALSE
    /\ m_graphics_done = TRUE /\ m_done_num = 0 /\ m_submission_mutex = "free"
    /\ m_requests = {}
    /\ pc = [g \in Guests |-> "guest"] /\ gpu = "loop" /\ command = "free"
    /\ current = NoSubmission /\ progressed = FALSE /\ round_progress = FALSE
    /\ recorded = <<>> /\ inFlight = <<>> /\ labels = {} /\ context = {}
    /\ accepted = [q \in Queues |-> <<>>] /\ executed = [q \in Queues |-> <<>>]
    /\ completed = {} /\ frame = [s \in Submissions |-> 0]

GpuSteps ==
    \/ LoopSleeps \/ LoopStops \/ LoopCancels \/ LoopTakesCommand
    \/ LoopTakesSubmission \/ LoopPolls \/ PollEnds
    \/ ProcessCommands \/ CommandFinishes \/ InnerCommandReturns
    \/ CommandReturns \/ CommandEnds
    \/ BeginSlice \/ PacketPasses \/ PacketWrites \/ PacketStores \/ PacketFlushes
    \/ PacketWaitsForFlip \/ FlipWaitReturns
    \/ PacketSuspends \/ StreamEnds \/ PrepareCpuFlip \/ EndSlice
    \/ SliceBlocks \/ SliceCompletes \/ FinalFinish \/ ThreadExits

GuestSteps(g) == DoneWaits(g) \/ DoneSeesIdle(g) \/ DoneReturns(g)

Next ==
    /\ ~terminated
    /\ \/ GpuSteps \/ WaitReadsBack \/ Publish \/ SpuriousWakeup
       \/ Shutdown \/ ShutdownReturns
       \/ \E l \in Labels : CpuWrite(l) \/ Present(l)
       \/ \E s \in Flips : ReserveFlip(s)
       \/ \E g \in Guests :
             \/ GuestSteps(g) \/ Done(g) \/ SendCommandSync(g) \/ CallRejected(g)
             \/ \E s \in Submissions : Submit(g, s)

Spec == Init /\ [][Next]_vars

(* The GPU thread, the priority thread, the present thread and a guest     *)
(* thread inside Done keep running while they can; the guest's choice of   *)
(* calls is not fair, and neither is the read-back a wait may or may not   *)
(* need.                                                                   *)
Fairness ==
    /\ WF_vars(~terminated /\ GpuSteps)
    /\ WF_vars(~terminated /\ Publish)
    /\ WF_vars(~terminated /\ \E l \in Labels : Present(l))
    /\ WF_vars(~terminated /\ ShutdownReturns)
    /\ \A g \in Guests : WF_vars(~terminated /\ GuestSteps(g))

FairSpec == Spec /\ Fairness

(* Every command buffer of the game is submitted if its thread can.        *)
GameFairness ==
    Fairness /\ \A s \in Submissions :
                    SF_vars(~terminated /\ \E g \in Guests : Submit(g, s))

GameSpec == Spec /\ GameFairness

-----------------------------------------------------------------------------
GuestLabels == {"guest", "sync", "idle", "parked", "done"}
GpuLabels   == {"loop", "asleep", "polling", "command", "commandWait", "commandEnd",
                "inner", "innerWait", "begin", "packet", "flip", "flipWait", "flush",
                "return", "stop", "drain", "exited"}

(* The state has the types of GuestGpu's members.                          *)
TypeOK ==
    /\ m_queues \in [Queues -> Seq(Records)] /\ m_submission_count \in Nat
    /\ m_next_queue \in Queues /\ m_canceled_submissions \in Nat
    /\ m_commands \in Seq(Guests) /\ m_processing \in BOOLEAN
    /\ m_accepting \in BOOLEAN /\ m_stopping \in BOOLEAN
    /\ shutdown \in {"no", "join", "complete"} /\ terminated \in BOOLEAN
    /\ m_graphics_done \in BOOLEAN /\ m_done_num \in Nat
    /\ m_submission_mutex \in Guests \cup {"free"} /\ m_requests \subseteq Labels
    /\ pc \in [Guests -> GuestLabels] /\ gpu \in GpuLabels
    /\ command \in Guests \cup {"free"}
    /\ current \in Records \cup {NoSubmission}
    /\ progressed \in BOOLEAN /\ round_progress \in BOOLEAN
    /\ recorded \in Seq(Labels) /\ inFlight \in Seq(Labels)
    /\ labels \subseteq Labels /\ context \subseteq Submissions
    /\ accepted \in [Queues -> Seq(Submissions)]
    /\ executed \in [Queues -> Seq(Submissions \X Nat)]
    /\ completed \subseteq Submissions /\ frame \in [Submissions -> Nat]

Slots    == UNION {{<<q, i>> : i \in DOMAIN m_queues[q]} : q \in Queues}
Pending  == {current.id} \cup UNION {Queued(q) : q \in Queues}
PacketAt(q, i) == Program[executed[q][i][1]][executed[q][i][2]]

(* The labels that executed packets have written or have yet to write.     *)
Written ==
    UNION {{PacketAt(q, i).label : i \in
               {j \in DOMAIN executed[q] : PacketAt(q, j).op \in {"write", "data"}}}
           : q \in Queues}

(* m_submission_count counts the queued submissions, and every accepted    *)
(* submission is exactly one of queued, taken by the GPU thread, completed *)
(* or counted as canceled, through every pop, push_front and cancellation. *)
NoSubmissionLost ==
    LET taken == Cardinality({current.id} \ {"none"})
    IN  /\ m_submission_count = Cardinality(Slots)
        /\ completed \subseteq Accepted \ Pending
        /\ Cardinality(Pending \ {"none"}) = m_submission_count + taken
        /\ Cardinality(Accepted) = Cardinality(completed) + m_submission_count
                                   + taken + m_canceled_submissions

(* Packet y, as <<submission, packet>>, comes right after packet x in a    *)
(* ring that accepted the submissions c.                                   *)
Follows(c, x, y) ==
    \/ y[1] = x[1] /\ y[2] = x[2] + 1
    \/ /\ y[2] = 1 /\ x[2] = Len(Program[x[1]])
       /\ \E k \in 2..Len(c) : c[k] = y[1] /\ c[k - 1] = x[1]

InOrder(c, h) ==
    \A i \in 1..Len(h) : /\ i = 1 => h[1][1] = c[1] /\ h[1][2] = 1
                         /\ i # 1 => Follows(c, h[i - 1], h[i])

(* The packets a ring has executed are a prefix of the streams of the      *)
(* submissions it accepted, one after the other: no packet is skipped,     *)
(* repeated or overtaken however often its stream is suspended.            *)
RingOrder == \A q \in Queues : InOrder(accepted[q], executed[q])

(* A label stands for one write: no two packets write the same one, and    *)
(* none writes one of the CPU's.                                           *)
Writes(s, i) == Program[s][i].op \in {"write", "data"}

OneWriterPerLabel ==
    /\ \A s, r \in Submissions : \A i \in 1..Len(Program[s]), j \in 1..Len(Program[r]) :
          Writes(s, i) /\ Writes(r, j) /\ Program[s][i].label = Program[r][j].label =>
              s = r /\ i = j
    /\ \A s \in Submissions : \A i \in 1..Len(Program[s]) :
          Writes(s, i) => Program[s][i].label \notin CpuLabels

(* A wait is passed only when its label is in memory, and a label reaches  *)
(* memory only after every label its ring wrote earlier: slices, commands  *)
(* run between packets and read-backs never reorder completions.           *)
CompletionOrder ==
    \A q \in Queues : \A j \in DOMAIN executed[q] :
        /\ PacketAt(q, j).op = "wait" => PacketAt(q, j).label \in labels
        /\ PacketAt(q, j).op = "write" /\ PacketAt(q, j).label \in labels =>
              \A i \in 1..(j - 1) :
                  PacketAt(q, i).op = "write" => PacketAt(q, i).label \in labels

(* When the GPU thread sleeps, polls or waits for a flip, nothing is left  *)
(* in the open command buffer: a blocked slice flushes what it recorded,   *)
(* so the label another ring waits for is on its way.                      *)
NothingStranded == gpu \in {"asleep", "polling", "flipWait"} => recorded = <<>>

(* A graphics packet sees the state of its own frame: every earlier        *)
(* submission of the frame and none of a frame that Done has ended, also   *)
(* when a flip preparation opens the frame or a stream is resumed.         *)
FrameIsolation ==
    gpu \in {"packet", "flip"} /\ current.id # "none" /\ QueueOf[current.id] = 0 =>
        context = {s \in Submissions :
                      /\ frame[s] = frame[current.id]
                      /\ \E i \in DOMAIN executed[0] : executed[0][i][1] = s}

(* Done returns only when nothing accepted before it is queued or being    *)
(* processed; without a shutdown, all of it has completed.                 *)
DoneDrains ==
    m_done_num' # m_done_num =>
        /\ Accepted \cap Pending = {}
        /\ m_stopping \/ Accepted \subseteq completed

(* SendCommandSync(UnmapMemory) returns only when every label written by a *)
(* packet executed so far is in memory, wherever in a slice the command    *)
(* was run.                                                                *)
UnmapFollowsLabels ==
    \A g \in Guests : pc[g] = "sync" /\ pc'[g] = "guest" =>
        \A q \in Queues : \A i \in DOMAIN executed[q] :
            PacketAt(q, i).op = "write" => PacketAt(q, i).label \in labels

(* A call that waits for the GPU returns after the work it waits for.      *)
ReturnsFollowWork == [][DoneDrains /\ UnmapFollowsLabels]_vars

(* When the GPU thread has exited, every accepted command has run, every   *)
(* recorded label is in memory and none that was not executed is, and the  *)
(* submissions that did not complete are counted as canceled.              *)
ExitLeavesNothing ==
    gpu = "exited" =>
        /\ m_commands = <<>> /\ \A g \in Guests : pc[g] # "sync"
        /\ Written \subseteq labels /\ labels \subseteq Written \cup CpuLabels
        /\ m_canceled_submissions = Cardinality(Accepted \ completed)

(* Submissions are neither lost nor counted twice while the thread runs,   *)
(* and nothing accepted is left behind when it has exited.                 *)
SubmissionsKept == TypeOK /\ NoSubmissionLost /\ ExitLeavesNothing

(* Every packet runs in the order of its ring and with the state of its    *)
(* own frame, however its stream is cut into slices.                       *)
PacketsInOrder == RingOrder /\ FrameIsolation

(* Labels are written in order and are on their way before the GPU thread  *)
(* waits for one.                                                          *)
LabelsInOrder == CompletionOrder /\ NothingStranded

(* The GPU thread waits for a flip that it has not prepared yet: the flip  *)
(* was reserved before WAIT_FLIP_DONE was reached, and its preparation is  *)
(* queued behind or has not been submitted.  FlipQueue::Wait has no time   *)
(* limit, so this lasts.                                                   *)
WaitsForItself ==
    /\ gpu = "flipWait" /\ Packet.label \in m_requests
    /\ Packet.label \notin labels /\ \A i \in DOMAIN inFlight : inFlight[i] # Packet.label

(* A guest that sent a command gets its answer, also while a submission    *)
(* waits for a label nobody will write.  A GPU thread that waits for       *)
(* itself answers nobody.                                                  *)
CommandsReturn ==
    \A g \in Guests : (pc[g] = "sync") ~> (pc[g] # "sync" \/ WaitsForItself \/ terminated)

(* Commands go before packets, so guests that never stop sending them can  *)
(* keep a stream from advancing; otherwise a stream whose label has been   *)
(* written resumes, unless the GPU thread waits for itself in another one. *)
CommandsCease == <>[](m_commands = <<>>)

WaitsForWritten(s) ==
    LET q == QueueOf[s]
    IN  /\ m_queues[q] # <<>> /\ Head(m_queues[q]).id = s
        /\ LET p == Program[s][Head(m_queues[q]).pos + 1]
           IN  p.op = "wait" /\ p.label \in labels

ResumesWhenWritten ==
    CommandsCease => \A s \in Submissions :
        WaitsForWritten(s) ~> (~WaitsForWritten(s) \/ WaitsForItself \/ terminated)

(* Shutdown returns: a submission suspended at a wait does not keep the    *)
(* GPU thread.  One at WAIT_FLIP_DONE does, when the thread waits for      *)
(* itself.                                                                 *)
ShutdownEnds == (shutdown = "join") ~> (shutdown = "complete" \/ WaitsForItself \/ terminated)

(* "A legitimate producer can resume it, including across graphics/compute *)
(* queues": when the game submits every command buffer it can, each one    *)
(* completes, unless the GPU thread waits for itself.                      *)
ProducerResumes ==
    CommandsCease => \A s \in Submissions :
        (s \in Accepted) ~> (s \in completed \/ m_stopping \/ WaitsForItself \/ terminated)

(* Whoever waits for the GPU thread gets an answer, unless it waits for a  *)
(* flip that only itself can prepare.                                      *)
CallersReturn == CommandsReturn /\ ShutdownEnds

(* A stream resumes when its label is written, and with producers for      *)
(* every label all streams come to their end, unless the GPU thread waits  *)
(* for a flip that only itself can prepare.                                *)
StreamsResume == ResumesWhenWritten /\ ProducerResumes
=============================================================================
