--------------------------- MODULE GuestGpuProofs ---------------------------
(***************************************************************************)
(* Proofs about the guest GPU, for every number of rings, guest threads,   *)
(* submissions and packets.  IndInv is the inductive invariant; the        *)
(* theorems at the end follow from it.                                     *)
(***************************************************************************)
EXTENDS GuestGpu, SequenceTheorems, FiniteSetTheorems, TLAPS

(* The states of the GPU thread in which it works on a submission.         *)
Slice == {"begin", "packet", "flip", "flipWait", "inner", "innerWait", "flush", "return"}

(* The GPU thread holds a submission exactly while it executes a slice of  *)
(* it, and says so; it stops only with empty queues.                       *)
ThreadInv ==
    /\ current = NoSubmission <=> gpu \notin Slice
    /\ gpu \in Slice => m_processing
    /\ gpu \in Slice \ {"begin"} => current.started
    /\ gpu \in {"stop", "drain", "exited"} => m_stopping /\ m_submission_count = 0
    /\ m_stopping => ~m_accepting
    /\ ~m_stopping => m_canceled_submissions = 0

(* The cursor of a submission stays inside its stream; a flip preparation  *)
(* runs as a whole.                                                        *)
CursorOK(r) ==
    /\ r.pos <= Len(Program[r.id])
    /\ ~r.started => r.pos = 0

(* While the GPU thread waits for a flip its cursor is at a WAIT_FLIP_DONE. *)
FlipWaitOK ==
    gpu = "flipWait" => current.pos < Len(Program[current.id]) /\ Packet.op = "flipdone"

CursorInv ==
    /\ FlipWaitOK
    /\ current # NoSubmission => CursorOK(current)
    /\ \A q \in Queues : \A i \in 1..Len(m_queues[q]) :
          /\ QueueOf[m_queues[q][i].id] = q
          /\ CursorOK(m_queues[q][i])
          /\ m_queues[q][i].id \in Flips => m_queues[q][i].pos = 0
    /\ gpu = "flip" => current.id \in Flips
    /\ current # NoSubmission /\ current.id \in Flips =>
          /\ gpu \in {"begin", "flip", "return"}
          /\ gpu # "return" => current.pos = 0
          /\ gpu = "return" => current.pos = 1

(* The commands: a guest waits for its command while it is queued or run.  *)
CommandInv ==
    /\ command # "free" <=> gpu \in {"command", "commandWait", "inner", "innerWait"}
    /\ \A g \in Guests : pc[g] = "sync" <=>
          command = g \/ \E i \in 1..Len(m_commands) : m_commands[i] = g
    /\ \A i \in 1..Len(m_commands) : m_commands[i] # command
    /\ \A i, j \in 1..Len(m_commands) : m_commands[i] = m_commands[j] => i = j
    /\ gpu \in {"stop", "drain", "exited"} => m_commands = <<>>

(* Done: whoever is inside it holds m_submission_mutex, and what it saw    *)
(* idle stays idle until it returns.                                       *)
DoneInv ==
    /\ \A g \in Guests : pc[g] \in {"idle", "parked", "done"} <=> m_submission_mutex = g
    /\ \A g \in Guests : pc[g] = "done" => m_submission_count = 0 /\ gpu \notin Slice

(* The labels: recorded ones belong to a slice that will flush; every      *)
(* label written by an executed packet is in memory or on its way, and     *)
(* nothing else is.                                                        *)
Way == inFlight \o recorded

PipelineInv ==
    /\ recorded # <<>> => gpu \in {"packet", "inner", "flush"} /\ progressed
    /\ gpu = "exited" => inFlight = <<>>
    /\ \A q \in Queues : \A i \in 1..Len(executed[q]) :
          /\ PacketAt(q, i).op = "write" =>
                \/ PacketAt(q, i).label \in labels
                \/ \E a \in 1..Len(Way) : Way[a] = PacketAt(q, i).label
          /\ PacketAt(q, i).op \in {"data", "wait"} => PacketAt(q, i).label \in labels
    /\ labels \subseteq Written \cup CpuLabels
    /\ \A a \in 1..Len(Way) : Way[a] \in Written

(* The submissions of a ring that are not completed, oldest first, the one *)
(* being executed included.                                                *)
Line(q) == IF current # NoSubmission /\ QueueOf[current.id] = q
           THEN <<current>> \o m_queues[q] ELSE m_queues[q]

Past(q) == Len(accepted[q]) - Len(Line(q))

Live(q) == m_accepting \/ Len(Line(q)) > 0

(* The history of acceptance.                                              *)
AcceptedInv ==
    /\ \A q \in Queues : \A i \in 1..Len(accepted[q]) : QueueOf[accepted[q][i]] = q
    /\ \A q \in Queues : \A i, j \in 1..Len(accepted[q]) :
          accepted[q][i] = accepted[q][j] => i = j
    /\ \A q \in Queues : \A i \in 1..Len(executed[q]) :
          /\ \E k \in 1..Len(accepted[q]) : accepted[q][k] = executed[q][i][1]
          /\ executed[q][i][2] \in 1..Len(Program[executed[q][i][1]])

(* A ring's line is the end of what it accepted, and only its front has    *)
(* been started.                                                           *)
LineOK(q) ==
    Live(q) =>
        /\ Past(q) >= 0
        /\ \A i \in 1..Len(Line(q)) : Line(q)[i].id = accepted[q][Past(q) + i]
        /\ \A i \in 2..Len(Line(q)) : ~Line(q)[i].started

LineInv == \A q \in Queues : LineOK(q)

(* The last packet a ring executed is the one before the cursor, and all   *)
(* of them belong to what is past or at the front.                         *)
LastExecuted(q) == executed[q][Len(executed[q])]

ExecutedOK(q) ==
    Live(q) =>
        /\ Len(Line(q)) > 0 /\ Line(q)[1].pos > 0 =>
              /\ Len(executed[q]) > 0
              /\ LastExecuted(q) = <<Line(q)[1].id, Line(q)[1].pos>>
        /\ Len(Line(q)) = 0 \/ Line(q)[1].pos = 0 =>
              /\ Past(q) = 0 => Len(executed[q]) = 0
              /\ Past(q) > 0 =>
                    /\ Len(executed[q]) > 0
                    /\ LastExecuted(q) = <<accepted[q][Past(q)],
                                           Len(Program[accepted[q][Past(q)]])>>
        /\ \A i \in 1..Len(executed[q]) :
              \/ \E k \in 1..Past(q) : executed[q][i][1] = accepted[q][k]
              \/ /\ Len(Line(q)) > 0 /\ executed[q][i][1] = Line(q)[1].id
                 /\ executed[q][i][2] <= Line(q)[1].pos

ExecutedInv == \A q \in Queues : ExecutedOK(q)

(* The frames of the graphics ring: what is in line belongs to the frame   *)
(* Done has not ended, and the first of it resets the context.             *)
Executed0 == {s \in Submissions : \E i \in 1..Len(executed[0]) : executed[0][i][1] = s}

Fresh(n) == \A k \in 1..n : frame[accepted[0][k]] # m_done_num

ResetInv == \A q \in Queues \ {0} : \A i \in 1..Len(Line(q)) : ~Line(q)[i].reset

AgeInv ==
    /\ \A i \in 1..Len(accepted[0]) : frame[accepted[0][i]] <= m_done_num
    /\ m_graphics_done <=> Fresh(Len(accepted[0]))

LineFrame(i) ==
    /\ frame[Line(0)[i].id] = m_done_num
    /\ Line(0)[i].reset <=> Fresh(Past(0) + i - 1)

ContextInv ==
    Live(0) =>
        \/ m_graphics_done
        \/ Len(Line(0)) > 0 /\ Line(0)[1].reset /\ ~Line(0)[1].started
        \/ context = {s \in Executed0 : frame[s] = m_done_num}

FrameInv ==
    ResetInv /\ AgeInv /\ ContextInv /\ \A i \in 1..Len(Line(0)) : LineFrame(i)

(* What is counted: the submissions in line, those of them in the queues,  *)
(* and the one taken.                                                      *)
Waiting == UNION {{Line(q)[i].id : i \in 1..Len(Line(q))} : q \in Queues}
Taken   == IF current = NoSubmission THEN 0 ELSE 1

CountInv ==
    /\ IsFiniteSet(Slots) /\ m_submission_count = Cardinality(Slots)
    /\ IsFiniteSet(Accepted) /\ completed \subseteq Accepted \ Waiting
    /\ IsFiniteSet(Waiting) /\ Cardinality(Waiting) = m_submission_count + Taken
    /\ Cardinality(Accepted) = Cardinality(completed) + m_submission_count + Taken
                               + m_canceled_submissions

IndInv ==
    /\ TypeOK /\ ThreadInv /\ CursorInv /\ CommandInv /\ DoneInv /\ PipelineInv
    /\ AcceptedInv /\ LineInv /\ ExecutedInv /\ RingOrder /\ FrameInv /\ CountInv

(* Label x is in memory, or ahead of y, whenever y is.                     *)
Ahead(stored, way, x, y) ==
    /\ y \in stored => x \in stored
    /\ \A b \in 1..Len(way) : way[b] = y =>
          x \in stored \/ \E a \in 1..(b - 1) : way[a] = x

(* Of two labels a ring has written, the earlier one is ahead.             *)
OrderInv ==
    \A q \in Queues : \A j \in 1..Len(executed[q]) : \A i \in 1..(j - 1) :
        PacketAt(q, j).op = "write" /\ PacketAt(q, i).op = "write" =>
            Ahead(labels, Way, PacketAt(q, i).label, PacketAt(q, j).label)

-----------------------------------------------------------------------------
(* The elements of a sequence that is not empty.                           *)
LEMMA ElementFacts ==
    ASSUME NEW S, NEW s \in Seq(S), s # <<>>
    PROVE  Len(s) \in Nat \ {0} /\ \A i \in 1..Len(s) : s[i] \in S
  OBVIOUS

(* What the assumptions say of one submission.                             *)
LEMMA ProgramFacts ==
    ASSUME NEW s \in Submissions
    PROVE  /\ QueueOf[s] \in Queues
           /\ Program[s] \in Seq([op : Ops, label : Labels])
           /\ Len(Program[s]) \in Nat \ {0}
           /\ \A i \in 1..Len(Program[s]) : Program[s][i] \in [op : Ops, label : Labels]
           /\ s # "none"
           /\ s \in Flips => QueueOf[s] = 0 /\ Len(Program[s]) = 1 /\ Program[s][1].op = "write"
<1>1. Program[s] \in Seq([op : Ops, label : Labels]) /\ Program[s] # <<>>
  BY SubmissionsAssumption
<1>2. Len(Program[s]) \in Nat \ {0}
      /\ \A i \in 1..Len(Program[s]) : Program[s][i] \in [op : Ops, label : Labels]
  BY <1>1, ElementFacts
<1>3. QueueOf[s] \in Queues /\ s # "none"
  <2>1. QueueOf \in [Submissions -> Queues] /\ "none" \notin Submissions
    BY SubmissionsAssumption, Zenon DEF Queues
  <2>. QED BY <2>1
<1>4. s \in Flips => QueueOf[s] = 0 /\ Len(Program[s]) = 1 /\ Program[s][1].op = "write"
  BY SubmissionsAssumption, Zenon
<1>. QED BY <1>1, <1>2, <1>3, <1>4

(* Pushing on the back of a queue: what the longer sequence holds.         *)
LEMMA AppendFacts ==
    ASSUME NEW S, NEW s \in Seq(S), NEW e \in S
    PROVE  /\ Append(s, e) \in Seq(S) /\ Len(s) \in Nat
           /\ Len(Append(s, e)) = Len(s) + 1 /\ Append(s, e) # <<>>
           /\ \A i \in 1..Len(s) : Append(s, e)[i] = s[i]
           /\ Append(s, e)[Len(s) + 1] = e
  OBVIOUS

(* Taking the front off a queue: what the shorter sequence holds.          *)
LEMMA TailFacts ==
    ASSUME NEW S, NEW s \in Seq(S), s # <<>>
    PROVE  /\ Head(s) \in S /\ Head(s) = s[1]
           /\ Tail(s) \in Seq(S) /\ Len(s) \in Nat \ {0}
           /\ Len(Tail(s)) = Len(s) - 1
           /\ \A i \in 1..(Len(s) - 1) : Tail(s)[i] = s[i + 1]
  OBVIOUS

(* Pushing on the front of a queue.                                        *)
LEMMA FrontFacts ==
    ASSUME NEW S, NEW s \in Seq(S), NEW e \in S
    PROVE  /\ <<e>> \o s \in Seq(S) /\ Len(s) \in Nat
           /\ Len(<<e>> \o s) = Len(s) + 1 /\ <<e>> \o s # <<>>
           /\ (<<e>> \o s)[1] = e
           /\ \A i \in 1..Len(s) : (<<e>> \o s)[i + 1] = s[i]
           /\ \A i \in 2..(Len(s) + 1) : (<<e>> \o s)[i] = s[i - 1]
  OBVIOUS

(* Two sequences one behind the other: Flush moves the recorded labels.    *)
LEMMA ConcatFacts ==
    ASSUME NEW S, NEW s \in Seq(S), NEW t \in Seq(S)
    PROVE  /\ s \o t \in Seq(S) /\ Len(s) \in Nat /\ Len(t) \in Nat
           /\ Len(s \o t) = Len(s) + Len(t)
           /\ \A i \in 1..Len(s) : (s \o t)[i] = s[i]
           /\ \A i \in 1..Len(t) : (s \o t)[Len(s) + i] = t[i]
           /\ (s \o t) \o <<>> = s \o t
  OBVIOUS

(* Making a front runnable touches its mark alone.                         *)
LEMMA UnblockedFacts ==
    ASSUME m_queues \in [Queues -> Seq(Records)], NEW q \in Queues
    PROVE  /\ UnblockedFronts[q] \in Seq(Records)
           /\ Len(UnblockedFronts[q]) = Len(m_queues[q])
           /\ \A i \in 1..Len(m_queues[q]) :
                 /\ UnblockedFronts[q][i].id = m_queues[q][i].id
                 /\ UnblockedFronts[q][i].pos = m_queues[q][i].pos
                 /\ UnblockedFronts[q][i].started = m_queues[q][i].started
                 /\ UnblockedFronts[q][i].reset = m_queues[q][i].reset
<1>1. m_queues[q] \in Seq(Records)
  OBVIOUS
<1>2. CASE m_queues[q] = <<>>
  BY <1>2 DEF UnblockedFronts
<1>3. CASE m_queues[q] # <<>>
  <2>1. UnblockedFronts[q] = [m_queues[q] EXCEPT ![1] = [m_queues[q][1] EXCEPT !.blocked = FALSE]]
    BY <1>3 DEF UnblockedFronts
  <2>2. 1 \in 1..Len(m_queues[q]) /\ m_queues[q][1] \in Records
    BY <1>1, <1>3
  <2> DEFINE r == [m_queues[q][1] EXCEPT !.blocked = FALSE]
  <2>3. /\ r \in Records
        /\ r.id = m_queues[q][1].id /\ r.pos = m_queues[q][1].pos
        /\ r.started = m_queues[q][1].started /\ r.reset = m_queues[q][1].reset
    BY <2>2 DEF Records
  <2> HIDE DEF r
  <2>4. /\ UnblockedFronts[q] \in Seq(Records)
        /\ Len(UnblockedFronts[q]) = Len(m_queues[q])
        /\ \A i \in 1..Len(m_queues[q]) :
              UnblockedFronts[q][i] = IF i = 1 THEN r ELSE m_queues[q][i]
    BY <1>1, <2>1, <2>2, <2>3, ExceptSeq DEF r
  <2>. QED BY <2>3, <2>4
<1>. QED BY <1>2, <1>3

-----------------------------------------------------------------------------
(* The steps that execute a packet.                                        *)
Executes ==
    \/ PacketPasses \/ PacketWrites \/ PacketStores \/ PacketFlushes \/ FlipWaitReturns
    \/ PrepareCpuFlip

(* The steps that reserve a flip and present one: they touch m_requests.   *)
FlipSteps == (\E l \in Labels : Present(l)) \/ (\E s \in Flips : ReserveFlip(s))

(* What the queues, the slice, the frames and the history are made of.     *)
core == <<m_queues, m_submission_count, m_canceled_submissions, current, accepted,
          executed, completed, frame, context, m_accepting, m_stopping, m_graphics_done,
          m_done_num>>

(* The steps that leave that alone.                                        *)
Quiet ==
    \/ LoopSleeps \/ LoopStops \/ LoopTakesCommand \/ LoopPolls \/ ProcessCommands
    \/ CommandFinishes \/ InnerCommandReturns \/ CommandReturns \/ CommandEnds
    \/ PacketSuspends \/ StreamEnds \/ EndSlice \/ FinalFinish \/ ThreadExits
    \/ PacketWaitsForFlip \/ FlipSteps
    \/ WaitReadsBack \/ Publish \/ SpuriousWakeup \/ ShutdownReturns
    \/ \E l \in Labels : CpuWrite(l)
    \/ \E g \in Guests : \/ DoneWaits(g) \/ DoneSeesIdle(g) \/ Done(g)
                          \/ SendCommandSync(g) \/ CallRejected(g)

(* The thirteen kinds of steps.                                            *)
LEMMA StepKinds ==
    ASSUME Next
    PROVE  \/ Quiet \/ Executes \/ LoopCancels \/ LoopTakesSubmission \/ PollEnds
           \/ BeginSlice \/ SliceBlocks \/ SliceCompletes \/ Shutdown
           \/ \E g \in Guests : DoneReturns(g)
           \/ \E g \in Guests, s \in Submissions : Submit(g, s)
  BY Zenon DEF Next, GpuSteps, GuestSteps, Quiet, Executes, FlipSteps

(* Reserving and presenting a flip leave everything but m_requests alone.  *)
LEMMA FlipStepFacts ==
    ASSUME FlipSteps
    PROVE  UNCHANGED <<core, m_next_queue, m_commands, m_processing, shutdown, terminated,
                       m_submission_mutex, pc, gpu, progressed, round_progress, command,
                       recorded, inFlight, labels>>
<1> USE DEF queueState, lifecycle, slice, pipeline, history, core
<1>1. ASSUME NEW l \in Labels, Present(l)
      PROVE  UNCHANGED <<core, m_next_queue, m_commands, m_processing, shutdown, terminated,
                         m_submission_mutex, pc, gpu, progressed, round_progress, command,
                         recorded, inFlight, labels>>
  BY <1>1, Zenon DEF Present
<1>2. ASSUME NEW s \in Flips, ReserveFlip(s)
      PROVE  UNCHANGED <<core, m_next_queue, m_commands, m_processing, shutdown, terminated,
                         m_submission_mutex, pc, gpu, progressed, round_progress, command,
                         recorded, inFlight, labels>>
  BY <1>2, Zenon DEF ReserveFlip
<1>. QED BY <1>1, <1>2, Zenon DEF FlipSteps

(* Sleeping, waking, commands, waiting packets and publication leave the   *)
(* queues, the slice's submission and the history alone.                   *)
LEMMA QuietFrame ==
    ASSUME Quiet
    PROVE  UNCHANGED core
<1> USE DEF queueState, lifecycle, frames, slice, history, core
<1>1. CASE LoopSleeps \/ LoopStops \/ LoopTakesCommand \/ LoopPolls \/ ProcessCommands
  BY <1>1, Zenon DEF LoopSleeps, LoopStops, LoopTakesCommand, LoopPolls, ProcessCommands
<1>2. CASE CommandFinishes \/ InnerCommandReturns \/ CommandReturns \/ CommandEnds
  BY <1>2, Zenon DEF CommandFinishes, InnerCommandReturns, CommandReturns, CommandEnds
<1>3. CASE \/ PacketSuspends \/ StreamEnds \/ EndSlice \/ FinalFinish \/ ThreadExits
           \/ PacketWaitsForFlip
  BY <1>3, Zenon DEF PacketSuspends, StreamEnds, EndSlice, FinalFinish, ThreadExits,
     PacketWaitsForFlip
<1>4. CASE WaitReadsBack \/ Publish \/ SpuriousWakeup \/ ShutdownReturns
  BY <1>4, Zenon DEF WaitReadsBack, Publish, SpuriousWakeup, ShutdownReturns
<1>5. ASSUME NEW l \in Labels, CpuWrite(l) PROVE UNCHANGED core
  BY <1>5 DEF CpuWrite
<1>6. ASSUME NEW g \in Guests, \/ DoneWaits(g) \/ DoneSeesIdle(g) \/ Done(g)
                               \/ SendCommandSync(g) \/ CallRejected(g)
      PROVE  UNCHANGED core
  BY <1>6 DEF DoneWaits, DoneSeesIdle, Done, SendCommandSync, CallRejected
<1>7. ASSUME FlipSteps PROVE UNCHANGED core
  BY <1>7, FlipStepFacts
<1>. QED BY <1>1, <1>2, <1>3, <1>4, <1>5, <1>6, <1>7 DEF Quiet

-----------------------------------------------------------------------------
(* During a slice there is a submission; outside there is none.            *)
LEMMA CurrentFacts ==
    ASSUME TypeOK, ThreadInv, gpu \in Slice
    PROVE  /\ current \in Records /\ current.id \in Submissions /\ current.pos \in Nat
           /\ current # NoSubmission
           /\ QueueOf[current.id] \in Queues
<1>1. current \in Records /\ current # NoSubmission
  BY DEF TypeOK, ThreadInv
<1>2. current.id \in Submissions /\ current.pos \in Nat
  BY <1>1 DEF Records
<1>. QED BY <1>1, <1>2, ProgramFacts

(* A packet that is about to be executed is a packet of the stream.        *)
LEMMA PacketFacts ==
    ASSUME TypeOK, ThreadInv, CursorInv,
           Executes \/ PacketSuspends \/ WaitReadsBack \/ PacketWaitsForFlip
    PROVE  /\ gpu \in {"packet", "flip", "flipWait"}
           /\ current.pos + 1 \in 1..Len(Program[current.id])
           /\ Packet \in [op : Ops, label : Labels]
           /\ gpu = "flip" => Packet.op = "write"
           /\ gpu = "flipWait" => Packet.op = "flipdone"
<1>1. gpu \in {"packet", "flip", "flipWait"} /\ (gpu = "packet" => ~complete)
  BY Zenon DEF Executes, PacketPasses, PacketWrites, PacketStores, PacketFlushes,
     FlipWaitReturns, PrepareCpuFlip,
     PacketSuspends, WaitReadsBack, PacketWaitsForFlip, AtPacket
<1>2. current \in Records /\ current.id \in Submissions /\ current.pos \in Nat
      /\ current # NoSubmission
  BY <1>1, CurrentFacts DEF Slice
<1>3. /\ Len(Program[current.id]) \in Nat \ {0}
      /\ \A i \in 1..Len(Program[current.id]) :
            Program[current.id][i] \in [op : Ops, label : Labels]
      /\ current.id \in Flips => Program[current.id][1].op = "write"
  BY <1>2, ProgramFacts
<1>4. current.pos <= Len(Program[current.id])
  BY <1>2 DEF CursorInv, CursorOK
<1>5. gpu = "flip" => current.id \in Flips /\ current.pos = 0
  BY <1>2 DEF CursorInv
<1>6. gpu = "flipWait" => current.pos < Len(Program[current.id]) /\ Packet.op = "flipdone"
  BY DEF CursorInv, FlipWaitOK
<1>7. current.pos + 1 \in 1..Len(Program[current.id])
  BY <1>1, <1>2, <1>3, <1>4, <1>5, <1>6 DEF complete
<1>8. gpu = "flip" => Packet.op = "write"
  BY <1>2, <1>3, <1>5 DEF Packet
<1>9. Packet \in [op : Ops, label : Labels]
  BY <1>3, <1>7 DEF Packet
<1>. QED BY <1>1, <1>6, <1>7, <1>8, <1>9

(* What executing a packet does to the slice and the history.              *)
LEMMA ExecutesFacts ==
    ASSUME TypeOK, ThreadInv, CursorInv, Executes
    PROVE  /\ Advance
           /\ UNCHANGED <<m_queues, m_submission_count, m_canceled_submissions, m_next_queue,
                          accepted, completed, frame, m_accepting, m_stopping,
                          m_graphics_done, m_done_num, m_submission_mutex, m_requests,
                          m_commands, m_processing, shutdown, terminated, pc, command>>
           /\ gpu' = IF gpu = "flip" THEN "return" ELSE "packet"
           /\ current' = [current EXCEPT !.pos = current.pos + 1]
           /\ current' \in Records /\ current'.id = current.id
           /\ current'.pos = current.pos + 1 /\ current'.started = current.started
           /\ current'.reset = current.reset
           /\ executed' = [executed EXCEPT ![QueueOf[current.id]] =
                              Append(executed[QueueOf[current.id]],
                                     <<current.id, current.pos + 1>>)]
           /\ executed' \in [Queues -> Seq(Submissions \X Nat)]
           /\ context' = IF QueueOf[current.id] = 0 THEN context \cup {current.id} ELSE context
           /\ progressed' = TRUE /\ round_progress' = TRUE
<1> USE DEF queueState, lifecycle, frames
<1>1. Advance
  BY Zenon DEF Executes, PacketPasses, PacketWrites, PacketStores, PacketFlushes,
     FlipWaitReturns, PrepareCpuFlip
<1>2. UNCHANGED <<m_queues, m_submission_count, m_canceled_submissions, m_next_queue,
                  accepted, completed, frame, m_accepting, m_stopping,
                  m_graphics_done, m_done_num, m_submission_mutex, m_requests,
                  m_commands, m_processing, shutdown, terminated, pc, command>>
  BY Zenon DEF Executes, PacketPasses, PacketWrites, PacketStores, PacketFlushes,
     FlipWaitReturns, PrepareCpuFlip
<1>3. gpu' = IF gpu = "flip" THEN "return" ELSE "packet"
  BY DEF Executes, PacketPasses, PacketWrites, PacketStores, PacketFlushes, FlipWaitReturns,
     PrepareCpuFlip,
     AtPacket
<1>4. /\ current \in Records /\ current.id \in Submissions /\ current.pos \in Nat
      /\ QueueOf[current.id] \in Queues
  BY PacketFacts, CurrentFacts DEF Slice
<1>5. current' = [current EXCEPT !.pos = current.pos + 1]
  BY <1>1 DEF Advance
<1>6. /\ current' \in Records /\ current'.id = current.id
      /\ current'.pos = current.pos + 1 /\ current'.started = current.started
      /\ current'.reset = current.reset
  BY <1>4, <1>5 DEF Records
<1>7. executed' = [executed EXCEPT ![QueueOf[current.id]] =
                              Append(executed[QueueOf[current.id]],
                                     <<current.id, current.pos + 1>>)]
  BY <1>1 DEF Advance
<1>8. executed' \in [Queues -> Seq(Submissions \X Nat)]
  <2>1. executed[QueueOf[current.id]] \in Seq(Submissions \X Nat)
    BY <1>4 DEF TypeOK
  <2>2. <<current.id, current.pos + 1>> \in Submissions \X Nat
    BY <1>4
  <2>3. Append(executed[QueueOf[current.id]], <<current.id, current.pos + 1>>)
            \in Seq(Submissions \X Nat)
    BY <2>1, <2>2, AppendFacts
  <2>. QED BY <1>4, <1>7, <2>3 DEF TypeOK
<1>9. /\ context' = IF QueueOf[current.id] = 0 THEN context \cup {current.id} ELSE context
      /\ progressed' = TRUE /\ round_progress' = TRUE
  BY <1>1 DEF Advance
<1>. QED BY <1>1, <1>2, <1>3, <1>5, <1>6, <1>7, <1>8, <1>9

-----------------------------------------------------------------------------
(* The types of the other variables: control, commands and labels.         *)
ControlType ==
    /\ m_next_queue \in Queues /\ m_commands \in Seq(Guests) /\ m_processing \in BOOLEAN
    /\ shutdown \in {"no", "join", "complete"} /\ terminated \in BOOLEAN
    /\ m_submission_mutex \in Guests \cup {"free"} /\ m_requests \subseteq Labels
    /\ pc \in [Guests -> GuestLabels] /\ gpu \in GpuLabels
    /\ command \in Guests \cup {"free"}
    /\ progressed \in BOOLEAN /\ round_progress \in BOOLEAN

PipelineType ==
    recorded \in Seq(Labels) /\ inFlight \in Seq(Labels) /\ labels \subseteq Labels

CoreType ==
    /\ m_queues \in [Queues -> Seq(Records)] /\ m_submission_count \in Nat
    /\ m_canceled_submissions \in Nat
    /\ m_accepting \in BOOLEAN /\ m_stopping \in BOOLEAN
    /\ m_graphics_done \in BOOLEAN /\ m_done_num \in Nat
    /\ current \in Records \cup {NoSubmission}
    /\ context \subseteq Submissions
    /\ accepted \in [Queues -> Seq(Submissions)]
    /\ executed \in [Queues -> Seq(Submissions \X Nat)]
    /\ completed \subseteq Submissions /\ frame \in [Submissions -> Nat]

(* The three parts make up the type invariant.                             *)
LEMMA TypeParts == TypeOK <=> ControlType /\ PipelineType /\ CoreType
  BY Zenon DEF TypeOK, ControlType, PipelineType, CoreType

(* Every step keeps the types of the labels.                               *)
LEMMA PipelineTypeStep ==
    ASSUME TypeOK, ThreadInv, CursorInv, Next
    PROVE  PipelineType'
<1> USE DEF pipeline
<1>0. recorded \in Seq(Labels) /\ inFlight \in Seq(Labels) /\ labels \subseteq Labels
  BY DEF TypeOK
<1>1. ASSUME UNCHANGED pipeline PROVE PipelineType'
  BY <1>0, <1>1 DEF PipelineType
<1>2. ASSUME Flush PROVE PipelineType'
  <2>1. inFlight \o recorded \in Seq(Labels)
    BY <1>0, ConcatFacts
  <2>2. <<>> \in Seq(Labels)
    OBVIOUS
  <2>. QED BY <1>0, <1>2, <2>1, <2>2 DEF Flush, PipelineType
<1>3. CASE Executes
  <2>1. Packet.label \in Labels
    BY <1>3, PacketFacts
  <2>2. Append(recorded, Packet.label) \in Seq(Labels)
    BY <1>0, <2>1, AppendFacts
  <2>3. CASE PacketPasses
    BY <1>1, <2>3 DEF PacketPasses
  <2>4. CASE PacketWrites
    BY <1>0, <2>2, <2>4 DEF PacketWrites, PipelineType
  <2>5. CASE PacketStores
    BY <1>0, <2>1, <2>5 DEF PacketStores, PipelineType
  <2>6. CASE PacketFlushes
    BY <1>2, <2>6 DEF PacketFlushes
  <2>8. CASE FlipWaitReturns
    BY <1>1, <2>8 DEF FlipWaitReturns
  <2>7. CASE PrepareCpuFlip
    <3>1. inFlight \o Append(recorded, Packet.label) \in Seq(Labels)
      BY <1>0, <2>2, ConcatFacts
    <3>2. <<>> \in Seq(Labels)
      OBVIOUS
    <3>. QED BY <1>0, <2>7, <3>1, <3>2 DEF PrepareCpuFlip, PipelineType
  <2>. QED BY <1>3, <2>3, <2>4, <2>5, <2>6, <2>7, <2>8 DEF Executes
<1>4. CASE CommandFinishes \/ FinalFinish \/ WaitReadsBack \/ PacketWaitsForFlip
  BY <1>2, <1>4, Zenon DEF CommandFinishes, FinalFinish, WaitReadsBack, PacketWaitsForFlip
<1>5. CASE EndSlice
  BY <1>1, <1>2, <1>5 DEF EndSlice
<1>6. CASE Publish
  <2>1. Head(inFlight) \in Labels /\ Tail(inFlight) \in Seq(Labels)
    BY <1>0, <1>6, TailFacts DEF Publish
  <2>. QED BY <1>0, <1>6, <2>1 DEF Publish, PipelineType
<1>7. ASSUME NEW l \in Labels, CpuWrite(l) PROVE PipelineType'
  BY <1>0, <1>7 DEF CpuWrite, PipelineType
<1>8. ASSUME \/ LoopSleeps \/ LoopStops \/ LoopTakesCommand \/ LoopPolls \/ ProcessCommands
             \/ InnerCommandReturns \/ CommandReturns \/ CommandEnds
             \/ PacketSuspends \/ StreamEnds \/ ThreadExits
             \/ SpuriousWakeup \/ ShutdownReturns
             \/ LoopCancels \/ LoopTakesSubmission \/ PollEnds
             \/ BeginSlice \/ SliceBlocks \/ SliceCompletes \/ Shutdown
      PROVE  UNCHANGED pipeline
  BY <1>8, Zenon DEF LoopSleeps, LoopStops, LoopTakesCommand, LoopPolls, ProcessCommands,
     InnerCommandReturns, CommandReturns, CommandEnds, PacketSuspends, StreamEnds, ThreadExits,
     SpuriousWakeup, ShutdownReturns, LoopCancels, LoopTakesSubmission, PollEnds, BeginSlice,
     SliceBlocks, SliceCompletes, Shutdown
<1>9. ASSUME NEW g \in Guests,
             \/ DoneWaits(g) \/ DoneSeesIdle(g) \/ Done(g) \/ DoneReturns(g)
             \/ SendCommandSync(g) \/ CallRejected(g) \/ \E s \in Submissions : Submit(g, s)
      PROVE  UNCHANGED pipeline
  BY <1>9, Zenon DEF DoneWaits, DoneSeesIdle, Done, DoneReturns, SendCommandSync,
     CallRejected,
     Submit
<1>10. ASSUME FlipSteps PROVE UNCHANGED pipeline
  BY <1>10, FlipStepFacts
<1>. QED BY <1>1, <1>3, <1>4, <1>5, <1>6, <1>7, <1>8, <1>9, <1>10, StepKinds, Zenon DEF Quiet

(* Every step keeps the types of the queues, the slice and the history.    *)
LEMMA CoreTypeStep ==
    ASSUME TypeOK, ThreadInv, CursorInv, Next
    PROVE  CoreType'
<1>0. CoreType
  BY TypeParts
<1>1. CASE Quiet
  BY <1>0, <1>1, QuietFrame DEF CoreType, core
<1>2. CASE Executes
  <2>1. UNCHANGED <<m_queues, m_submission_count, m_canceled_submissions, accepted, completed,
                    frame, m_accepting, m_stopping, m_graphics_done, m_done_num>>
        /\ current' \in Records /\ executed' \in [Queues -> Seq(Submissions \X Nat)]
        /\ context' = IF QueueOf[current.id] = 0 THEN context \cup {current.id} ELSE context
    BY <1>2, ExecutesFacts
  <2>2. current.id \in Submissions
    BY <1>2, PacketFacts, CurrentFacts DEF Slice
  <2>. QED BY <1>0, <2>1, <2>2 DEF CoreType
<1>3. CASE LoopCancels
  BY <1>0, <1>3 DEF LoopCancels, CoreType, lifecycle, frames, slice, history
<1>4. CASE LoopTakesSubmission
  <2>1. PICK q \in Runnable : /\ current' = Head(m_queues[q])
                              /\ m_queues' = [m_queues EXCEPT ![q] = Tail(@)]
    BY <1>4 DEF LoopTakesSubmission
  <2>2. q \in Queues /\ m_queues[q] # <<>> /\ m_queues[q] \in Seq(Records)
    BY <1>0 DEF Runnable, CoreType
  <2>3. Head(m_queues[q]) \in Records /\ Tail(m_queues[q]) \in Seq(Records)
    BY <2>2, TailFacts
  <2>4. m_queues' \in [Queues -> Seq(Records)] /\ current' \in Records
    BY <1>0, <2>1, <2>2, <2>3 DEF CoreType
  <2>5. m_submission_count' \in Nat
    BY <1>0, <1>4 DEF LoopTakesSubmission, MaySelect, CoreType
  <2>6. UNCHANGED <<m_canceled_submissions, m_accepting, m_stopping, m_graphics_done, m_done_num,
                    context, accepted, executed, completed, frame>>
    BY <1>4 DEF LoopTakesSubmission, lifecycle, frames, history
  <2>. QED BY <1>0, <2>4, <2>5, <2>6 DEF CoreType
<1>5. CASE PollEnds
  <2>1. m_queues' \in [Queues -> Seq(Records)]
    <3>1. \A q \in Queues : UnblockedFronts[q] \in Seq(Records)
      BY <1>0, UnblockedFacts DEF CoreType
    <3>. QED BY <1>5, <3>1 DEF PollEnds, UnblockedFronts
  <2>2. UNCHANGED <<m_submission_count, m_canceled_submissions, m_accepting, m_stopping,
                    m_graphics_done, m_done_num, current, context, history>>
    BY <1>5 DEF PollEnds, lifecycle, frames, slice
  <2>. QED BY <1>0, <2>1, <2>2 DEF CoreType, history
<1>6. CASE BeginSlice
  <2>1. current \in Records
    BY <1>6, CurrentFacts DEF BeginSlice, Slice
  <2>2. current' \in Records
    BY <1>6, <2>1 DEF BeginSlice, Records
  <2>3. context' \subseteq Submissions
    BY <1>0, <1>6 DEF BeginSlice, CoreType
  <2>4. UNCHANGED <<m_queues, m_submission_count, m_canceled_submissions, m_accepting,
                    m_stopping, m_graphics_done, m_done_num, history>>
    BY <1>6 DEF BeginSlice, lifecycle, frames, queueState
  <2>. QED BY <1>0, <2>2, <2>3, <2>4 DEF CoreType, history
<1>7. CASE SliceBlocks
  <2> DEFINE r == [current EXCEPT !.blocked = TRUE]
             q == QueueOf[current.id]
  <2>1. current \in Records /\ q \in Queues
    BY <1>7, CurrentFacts DEF SliceBlocks, Slice
  <2>2. r \in Records
    BY <2>1 DEF Records
  <2>3. m_queues' = [m_queues EXCEPT ![q] = <<r>> \o m_queues[q]]
    BY <1>7 DEF SliceBlocks, PutBack
  <2> HIDE DEF r, q
  <2>4. m_queues[q] \in Seq(Records)
    BY <1>0, <2>1 DEF CoreType
  <2>5. <<r>> \o m_queues[q] \in Seq(Records)
    BY <2>2, <2>4, FrontFacts
  <2>6. m_queues' \in [Queues -> Seq(Records)]
    BY <1>0, <2>1, <2>3, <2>5 DEF CoreType
  <2>7. /\ UNCHANGED <<m_canceled_submissions, m_accepting, m_stopping, m_graphics_done,
                       m_done_num, context, history>>
        /\ m_submission_count' = m_submission_count + 1 /\ current' = NoSubmission
    BY <1>7 DEF SliceBlocks, lifecycle, frames
  <2>. QED BY <1>0, <2>6, <2>7 DEF CoreType, history
<1>8. CASE SliceCompletes
  <2>1. current.id \in Submissions
    BY <1>8, CurrentFacts DEF SliceCompletes, Slice
  <2>2. m_queues' \in [Queues -> Seq(Records)]
    <3>1. \A q \in Queues : UnblockedFronts[q] \in Seq(Records)
      BY <1>0, UnblockedFacts DEF CoreType
    <3>. QED BY <1>8, <3>1 DEF SliceCompletes, UnblockedFronts
  <2>3. /\ UNCHANGED <<m_submission_count, m_canceled_submissions, m_accepting, m_stopping,
                       m_graphics_done, m_done_num, context, accepted, executed, frame>>
        /\ completed' = completed \cup {current.id} /\ current' = NoSubmission
    BY <1>8 DEF SliceCompletes, lifecycle, frames
  <2>. QED BY <1>0, <2>1, <2>2, <2>3 DEF CoreType
<1>9. CASE Shutdown
  BY <1>0, <1>9 DEF Shutdown, CoreType, queueState, frames, slice, history
<1>10. ASSUME NEW g \in Guests, DoneReturns(g) PROVE CoreType'
  BY <1>0, <1>10 DEF DoneReturns, CoreType, queueState, lifecycle, slice, history
<1>11. ASSUME NEW g \in Guests, NEW s \in Submissions, Submit(g, s) PROVE CoreType'
  <2> DEFINE r == [NoSubmission EXCEPT !.id = s, !.reset = ResetProcessor(s)]
             q == QueueOf[s]
  <2>1. q \in Queues
    BY ProgramFacts
  <2>2. r \in Records
    BY <1>0 DEF NoSubmission, Records, ResetProcessor, CoreType
  <2>3. /\ m_queues' = [m_queues EXCEPT ![q] = Append(m_queues[q], r)]
        /\ accepted' = [accepted EXCEPT ![q] = Append(accepted[q], s)]
        /\ m_submission_count' = m_submission_count + 1
        /\ frame' = [frame EXCEPT ![s] = m_done_num]
        /\ m_graphics_done' = (m_graphics_done /\ QueueOf[s] # 0)
        /\ UNCHANGED <<m_canceled_submissions, m_accepting, m_stopping, m_done_num,
                       current, context, executed, completed>>
    BY <1>11 DEF Submit, Enqueue, lifecycle, slice
  <2> HIDE DEF r, q
  <2>4. Append(m_queues[q], r) \in Seq(Records) /\ Append(accepted[q], s) \in Seq(Submissions)
    BY <1>0, <2>1, <2>2, AppendFacts DEF CoreType
  <2>5. m_queues' \in [Queues -> Seq(Records)] /\ accepted' \in [Queues -> Seq(Submissions)]
    BY <1>0, <2>1, <2>3, <2>4 DEF CoreType
  <2>6. frame' \in [Submissions -> Nat] /\ m_submission_count' \in Nat
    BY <1>0, <2>3 DEF CoreType
  <2>7. m_graphics_done' \in BOOLEAN
    BY <2>3, Zenon
  <2>. QED BY <1>0, <2>3, <2>5, <2>6, <2>7 DEF CoreType
<1>. QED BY <1>1, <1>2, <1>3, <1>4, <1>5, <1>6, <1>7, <1>8, <1>9, <1>10, <1>11, StepKinds

(* The ring after the last one is a ring: the range of a remainder.        *)
LEMMA NextQueueType ==
    ASSUME NEW q \in Queues
    PROVE  NextQueue(q) \in Queues
<1>1. q + 1 \in Nat /\ QueueCount \in Nat \ {0}
  BY QueueCountAssumption DEF Queues
<1>2. \A a \in Nat, n \in Nat \ {0} : a % n \in 0..(n - 1)
  OBVIOUS
<1>. QED BY <1>1, <1>2 DEF NextQueue, Queues

(* Every step keeps the types of the control state.                        *)
LEMMA ControlTypeStep ==
    ASSUME TypeOK, ThreadInv, CursorInv, CommandInv, Next
    PROVE  ControlType'
<1> USE DEF queueState, lifecycle, frames, slice, GuestLabels, GpuLabels
<1>0. ControlType
  BY TypeParts
<1>1. CASE LoopSleeps \/ LoopStops \/ LoopPolls
  BY <1>0, <1>1 DEF LoopSleeps, LoopStops, LoopPolls, SignalIdle, ControlType
<1>2. CASE LoopTakesCommand \/ ProcessCommands
  <2>1. m_commands # <<>> /\ command' = Head(m_commands) /\ m_commands' = Tail(m_commands)
    BY <1>2 DEF LoopTakesCommand, ProcessCommands
  <2>2. command' \in Guests /\ m_commands' \in Seq(Guests)
    BY <1>0, <2>1, TailFacts DEF ControlType
  <2>. QED BY <1>0, <1>2, <2>2 DEF LoopTakesCommand, ProcessCommands, ControlType
<1>3. CASE CommandFinishes
  BY <1>0, <1>3 DEF CommandFinishes, ControlType
<1>4. CASE InnerCommandReturns \/ CommandReturns
  <2>1. pc' = [pc EXCEPT ![command] = "guest"]
    BY <1>4 DEF InnerCommandReturns, CommandReturns
  <2>2. pc' \in [Guests -> GuestLabels]
    BY <1>0, <2>1 DEF ControlType
  <2>. QED BY <1>0, <1>4, <2>2 DEF InnerCommandReturns, CommandReturns, ControlType
<1>5. CASE CommandEnds
  BY <1>0, <1>5 DEF CommandEnds, SignalIfEmpty, SignalIdle, ControlType
<1>6. CASE \/ PacketSuspends \/ StreamEnds \/ EndSlice \/ FinalFinish \/ ThreadExits
           \/ WaitReadsBack \/ PacketWaitsForFlip
  BY <1>0, <1>6 DEF PacketSuspends, StreamEnds, EndSlice, FinalFinish, ThreadExits,
     WaitReadsBack,
     PacketWaitsForFlip, ControlType
<1>7. CASE Publish \/ ShutdownReturns \/ Shutdown
  BY <1>0, <1>7 DEF Publish, ShutdownReturns, Shutdown, SignalWork, ControlType
<1>8. CASE SpuriousWakeup
  <2>1. CASE gpu = "asleep" /\ gpu' = "loop" /\ UNCHANGED pc
    BY <1>0, <1>8, <2>1 DEF SpuriousWakeup, ControlType
  <2>2. ASSUME NEW g \in Guests, pc' = [pc EXCEPT ![g] = "idle"], UNCHANGED gpu
        PROVE  ControlType'
    BY <1>0, <1>8, <2>2 DEF SpuriousWakeup, ControlType
  <2>. QED BY <1>8, <2>1, <2>2 DEF SpuriousWakeup
<1>9. ASSUME NEW l \in Labels, CpuWrite(l) PROVE ControlType'
  BY <1>0, <1>9 DEF CpuWrite, ControlType
<1>10. ASSUME NEW g \in Guests, DoneWaits(g) \/ DoneSeesIdle(g) \/ Done(g) \/ DoneReturns(g)
                                \/ CallRejected(g)
       PROVE  ControlType'
  BY <1>0, <1>10, ZenonT(30) DEF DoneWaits, DoneSeesIdle, Done, DoneReturns, CallRejected,
     ControlType
<1>11. ASSUME NEW g \in Guests, SendCommandSync(g) PROVE ControlType'
  <2>1. m_commands' \in Seq(Guests)
    BY <1>0, <1>11, AppendFacts DEF SendCommandSync, ControlType
  <2>. QED BY <1>0, <1>11, <2>1 DEF SendCommandSync, SignalWork, ControlType
<1>12. CASE Executes
  <2>1. /\ UNCHANGED <<m_next_queue, m_submission_mutex, m_requests, m_commands, m_processing,
                       shutdown, terminated, pc, command>>
        /\ gpu' = IF gpu = "flip" THEN "return" ELSE "packet"
        /\ progressed' = TRUE /\ round_progress' = TRUE
    BY <1>12, ExecutesFacts
  <2>. QED BY <1>0, <2>1 DEF ControlType
<1>13. CASE LoopTakesSubmission
  <2>1. m_next_queue' \in Queues
    BY <1>13, NextQueueType DEF LoopTakesSubmission, Runnable
  <2>. QED BY <1>0, <1>13, <2>1 DEF LoopTakesSubmission, ControlType
<1>14. CASE LoopCancels \/ PollEnds \/ BeginSlice \/ SliceBlocks
  BY <1>0, <1>14, ZenonT(30) DEF LoopCancels, PollEnds, BeginSlice, SliceBlocks, ControlType
<1>15. CASE SliceCompletes
  BY <1>0, <1>15 DEF SliceCompletes, SignalIfEmpty, SignalIdle, ControlType
<1>16. ASSUME NEW g \in Guests, NEW s \in Submissions, Submit(g, s) PROVE ControlType'
  BY <1>0, <1>16 DEF Submit, Enqueue, SignalWork, ControlType
<1>17. ASSUME FlipSteps PROVE ControlType'
  <2>1. m_requests' \subseteq Labels
    <3>1. ASSUME NEW l \in Labels, Present(l) PROVE m_requests' \subseteq Labels
      BY <1>0, <3>1 DEF Present, ControlType
    <3>2. ASSUME NEW s \in Flips, ReserveFlip(s) PROVE m_requests' \subseteq Labels
      <4>1. s \in Submissions
        BY SubmissionsAssumption
      <4>2. FlipLabel(s) \in Labels
        BY <4>1, ProgramFacts DEF FlipLabel
      <4>. QED BY <1>0, <3>2, <4>2 DEF ReserveFlip, ControlType
    <3>. QED BY <1>17, <3>1, <3>2 DEF FlipSteps
  <2>2. UNCHANGED <<m_next_queue, m_submission_mutex, m_commands, m_processing, shutdown,
                    terminated, pc, gpu, progressed, round_progress, command>>
    BY <1>17, FlipStepFacts
  <2>. QED BY <1>0, <2>1, <2>2 DEF ControlType
<1> HIDE DEF queueState, lifecycle, frames, slice, GuestLabels, GpuLabels
<1>. QED BY <1>17, <1>1, <1>2, <1>3, <1>4, <1>5, <1>6, <1>7, <1>8, <1>9, <1>10, <1>11, <1>12,
            <1>13,
            <1>14, <1>15, <1>16, StepKinds, Zenon DEF Quiet

(* Every step keeps the types.                                             *)
LEMMA TypeStep ==
    ASSUME TypeOK, ThreadInv, CursorInv, CommandInv, Next
    PROVE  TypeOK'
<1>1. ControlType' /\ PipelineType' /\ CoreType'
  BY ControlTypeStep, PipelineTypeStep, CoreTypeStep
<1>. QED BY <1>1, Zenon DEF TypeOK, ControlType, PipelineType, CoreType

-----------------------------------------------------------------------------
(* Every step keeps the GPU thread and the submission it holds together.   *)
LEMMA ThreadStep ==
    ASSUME TypeOK, ThreadInv, CursorInv, Next
    PROVE  ThreadInv'
<1> USE DEF Slice, GpuLabels, lifecycle, queueState, slice
<1>0. gpu \in GpuLabels /\ m_submission_count \in Nat /\ m_canceled_submissions \in Nat
  BY DEF TypeOK
<1>1. CASE Quiet
  <2>0. UNCHANGED <<current, m_stopping, m_submission_count, m_accepting, m_canceled_submissions>>
    BY <1>1, QuietFrame DEF core
  <2>1. CASE LoopSleeps \/ LoopStops \/ LoopPolls \/ LoopTakesCommand
    BY <2>0, <2>1 DEF LoopSleeps, LoopStops, LoopPolls, LoopTakesCommand, MaySelect, ThreadInv
  <2>2. CASE ProcessCommands \/ CommandFinishes \/ InnerCommandReturns \/ CommandReturns
             \/ CommandEnds
    BY <2>0, <2>2 DEF ProcessCommands, CommandFinishes, InnerCommandReturns, CommandReturns,
       CommandEnds, ThreadInv
  <2>3. CASE \/ PacketSuspends \/ StreamEnds \/ EndSlice \/ FinalFinish \/ ThreadExits
             \/ PacketWaitsForFlip
    BY <2>0, <2>3 DEF PacketSuspends, AtPacket, StreamEnds, EndSlice, FinalFinish,
       ThreadExits,
       PacketWaitsForFlip, ThreadInv
  <2>4. ASSUME UNCHANGED <<gpu, m_processing>> PROVE ThreadInv'
    BY <2>0, <2>4 DEF ThreadInv
  <2>5. CASE WaitReadsBack \/ Publish \/ ShutdownReturns \/ \E l \in Labels : CpuWrite(l)
    BY <2>4, <2>5 DEF WaitReadsBack, Publish, ShutdownReturns, CpuWrite
  <2>6. CASE SpuriousWakeup
    BY <2>0, <2>6 DEF SpuriousWakeup, ThreadInv
  <2>7. ASSUME NEW g \in Guests, DoneWaits(g) \/ DoneSeesIdle(g) \/ Done(g) \/ CallRejected(g)
        PROVE  ThreadInv'
    BY <2>4, <2>7 DEF DoneWaits, DoneSeesIdle, Done, CallRejected
  <2>8. ASSUME NEW g \in Guests, SendCommandSync(g) PROVE ThreadInv'
    BY <2>0, <2>8 DEF SendCommandSync, SignalWork, ThreadInv
  <2>9. CASE FlipSteps
    BY <2>4, <2>9, FlipStepFacts
  <2>. QED BY <1>1, <2>1, <2>2, <2>3, <2>5, <2>6, <2>7, <2>8, <2>9, Zenon DEF Quiet
<1>2. CASE Executes
  <2>1. /\ UNCHANGED <<m_processing, m_stopping, m_submission_count, m_accepting,
                       m_canceled_submissions>>
        /\ gpu' = IF gpu = "flip" THEN "return" ELSE "packet"
        /\ current'.id = current.id /\ current'.started = current.started
    BY <1>2, ExecutesFacts
  <2>2. gpu \in {"packet", "flip", "flipWait"} /\ current.id # "none"
    BY <1>2, PacketFacts, CurrentFacts, ProgramFacts
  <2>3. current' # NoSubmission
    BY <2>1, <2>2 DEF NoSubmission
  <2>. QED BY <2>1, <2>2, <2>3 DEF ThreadInv
<1>3. CASE LoopCancels
  BY <1>0, <1>3 DEF LoopCancels, ThreadInv
<1>4. CASE LoopTakesSubmission
  <2>1. PICK q \in Runnable : current' = Head(m_queues[q])
    BY <1>4 DEF LoopTakesSubmission
  <2>2. q \in Queues /\ m_queues[q] # <<>> /\ m_queues[q] \in Seq(Records)
    BY DEF Runnable, TypeOK
  <2>3. current' \in Records
    BY <2>1, <2>2, TailFacts
  <2>4. current' # NoSubmission
    BY <2>3, SubmissionsAssumption DEF Records, NoSubmission
  <2>. QED BY <1>4, <2>4 DEF LoopTakesSubmission, MaySelect, ThreadInv
<1>5. CASE PollEnds
  BY <1>5 DEF PollEnds, ThreadInv
<1>6. CASE BeginSlice
  <2>1. current \in Records
    BY <1>6, CurrentFacts DEF BeginSlice
  <2>2. current'.id # "none" /\ current'.started = TRUE
    BY <1>6, <2>1, SubmissionsAssumption DEF BeginSlice, Records
  <2>3. current' # NoSubmission
    BY <2>2 DEF NoSubmission
  <2>. QED BY <1>6, <2>2, <2>3 DEF BeginSlice, ThreadInv
<1>7. CASE SliceBlocks
  BY <1>7 DEF SliceBlocks, ThreadInv
<1>8. CASE SliceCompletes
  BY <1>8 DEF SliceCompletes, ThreadInv
<1>9. CASE Shutdown
  BY <1>0, <1>9 DEF Shutdown, SignalWork, ThreadInv
<1>10. ASSUME NEW g \in Guests, DoneReturns(g) PROVE ThreadInv'
  BY <1>10 DEF DoneReturns, ThreadInv
<1>11. ASSUME NEW g \in Guests, NEW s \in Submissions, Submit(g, s) PROVE ThreadInv'
  BY <1>0, <1>11 DEF Submit, Enqueue, SignalWork, ThreadInv
<1> HIDE DEF Slice, GpuLabels, lifecycle, queueState, slice
<1>. QED BY <1>1, <1>2, <1>3, <1>4, <1>5, <1>6, <1>7, <1>8, <1>9, <1>10, <1>11, StepKinds

(* The quiet steps never begin a flip preparation and never move the GPU   *)
(* thread out of one.                                                      *)
LEMMA QuietGpu ==
    ASSUME Quiet
    PROVE  gpu' = gpu \/ (gpu' # "flip" /\ gpu \notin {"begin", "flip", "return"})
<1>1. CASE \/ LoopSleeps \/ LoopStops \/ LoopTakesCommand \/ LoopPolls \/ ProcessCommands
           \/ CommandFinishes \/ InnerCommandReturns \/ CommandReturns \/ CommandEnds
  BY <1>1 DEF LoopSleeps, LoopStops, LoopTakesCommand, LoopPolls, ProcessCommands,
     CommandFinishes, InnerCommandReturns, CommandReturns, CommandEnds, MaySelect
<1>2. CASE \/ PacketSuspends \/ StreamEnds \/ EndSlice \/ FinalFinish \/ ThreadExits
           \/ PacketWaitsForFlip \/ WaitReadsBack \/ Publish \/ SpuriousWakeup \/ ShutdownReturns
           \/ \E l \in Labels : CpuWrite(l)
  BY <1>2 DEF PacketSuspends, AtPacket, StreamEnds, EndSlice, FinalFinish, ThreadExits,
     PacketWaitsForFlip, WaitReadsBack, Publish, SpuriousWakeup, ShutdownReturns, CpuWrite
<1>3. CASE \E g \in Guests : \/ DoneWaits(g) \/ DoneSeesIdle(g) \/ Done(g)
                             \/ SendCommandSync(g) \/ CallRejected(g)
  BY <1>3 DEF DoneWaits, DoneSeesIdle, Done, SendCommandSync, CallRejected, SignalWork
<1>4. CASE FlipSteps
  BY <1>4, FlipStepFacts
<1>. QED BY <1>1, <1>2, <1>3, <1>4, Zenon DEF Quiet

(* The GPU thread waits for a flip only from WAIT_FLIP_DONE on, and its    *)
(* cursor stays there.                                                     *)
LEMMA FlipWaitGpu ==
    ASSUME TypeOK, ThreadInv, CursorInv, Next, gpu' = "flipWait"
    PROVE  PacketWaitsForFlip \/ (gpu = "flipWait" /\ UNCHANGED current)
<1> DEFINE Goal == PacketWaitsForFlip \/ (gpu = "flipWait" /\ UNCHANGED current)
<1>1. ASSUME UNCHANGED <<gpu, current>> PROVE Goal
  BY <1>1
<1>2. CASE \/ LoopSleeps \/ LoopStops \/ LoopTakesCommand \/ LoopPolls \/ ProcessCommands
           \/ CommandFinishes \/ InnerCommandReturns \/ CommandReturns \/ CommandEnds
  BY <1>2 DEF LoopSleeps, LoopStops, LoopTakesCommand, LoopPolls, ProcessCommands,
     CommandFinishes, InnerCommandReturns, CommandReturns, CommandEnds
<1>3. CASE \/ PacketSuspends \/ StreamEnds \/ EndSlice \/ FinalFinish \/ ThreadExits
  BY <1>3 DEF PacketSuspends, StreamEnds, EndSlice, FinalFinish, ThreadExits
<1>4. CASE \/ WaitReadsBack \/ Publish \/ SpuriousWakeup \/ ShutdownReturns
           \/ \E l \in Labels : CpuWrite(l)
  BY <1>1, <1>4 DEF WaitReadsBack, Publish, SpuriousWakeup, ShutdownReturns, CpuWrite, slice
<1>5. ASSUME NEW g \in Guests, \/ DoneWaits(g) \/ DoneSeesIdle(g) \/ Done(g)
                               \/ SendCommandSync(g) \/ CallRejected(g) \/ DoneReturns(g)
                               \/ \E s \in Submissions : Submit(g, s)
      PROVE  Goal
  BY <1>1, <1>5 DEF DoneWaits, DoneSeesIdle, Done, SendCommandSync, CallRejected, DoneReturns,
     Submit, Enqueue, SignalWork, slice
<1>6. CASE FlipSteps
  BY <1>1, <1>6, FlipStepFacts DEF core
<1>7. CASE Executes
  BY <1>7, ExecutesFacts
<1>8. CASE \/ LoopTakesSubmission \/ PollEnds \/ BeginSlice \/ SliceBlocks \/ SliceCompletes
  BY <1>8 DEF LoopTakesSubmission, PollEnds, BeginSlice, SliceBlocks, SliceCompletes
<1>9. CASE LoopCancels \/ Shutdown
  BY <1>1, <1>9 DEF LoopCancels, Shutdown, SignalWork, slice
<1>. QED BY <1>2, <1>3, <1>4, <1>5, <1>6, <1>7, <1>8, <1>9, StepKinds, Zenon DEF Quiet

(* Every record of a queue has the shape of a pending submission.          *)
QueuedOK(q, r) ==
    QueueOf[r.id] = q /\ CursorOK(r) /\ (r.id \in Flips => r.pos = 0)

(* Every step keeps the cursors inside their streams, and whole flips.     *)
LEMMA CursorStep ==
    ASSUME TypeOK, ThreadInv, CursorInv, Next
    PROVE  CursorInv'
<1> DEFINE QueuesOK(f) == \A q \in Queues : \A i \in 1..Len(f[q]) : QueuedOK(q, f[q][i])
<1>0. /\ m_queues \in [Queues -> Seq(Records)]
      /\ QueuesOK(m_queues)
  BY DEF TypeOK, CursorInv, QueuedOK
<1>13. FlipWaitOK'
  <2> SUFFICES ASSUME gpu' = "flipWait" PROVE FlipWaitOK'
    BY DEF FlipWaitOK
  <2>1. CASE PacketWaitsForFlip
    <3>1. /\ gpu = "packet" /\ ~complete /\ Packet.op = "flipdone" /\ UNCHANGED current
      BY <2>1 DEF PacketWaitsForFlip, AtPacket, slice
    <3>2. current.pos + 1 \in 1..Len(Program[current.id])
      BY <2>1, PacketFacts
    <3>3. current.pos \in Nat /\ Len(Program[current.id]) \in Nat
      BY <3>1, CurrentFacts, ProgramFacts DEF Slice
    <3>4. current.pos < Len(Program[current.id])
      BY <3>2, <3>3
    <3>. QED BY <3>1, <3>4 DEF FlipWaitOK, Packet
  <2>2. CASE gpu = "flipWait" /\ UNCHANGED current
    BY <2>2 DEF CursorInv, FlipWaitOK, Packet
  <2>. QED BY <2>1, <2>2, FlipWaitGpu
<1>1. CASE Quiet
  <2>1. UNCHANGED <<m_queues, current>>
    BY <1>1, QuietFrame DEF core
  <2>2. current # NoSubmission /\ current.id \in Flips => gpu' = gpu
    BY <1>1, QuietGpu DEF CursorInv
  <2>3. gpu' = "flip" => gpu = "flip"
    BY <1>1, QuietGpu
  <2>. QED BY <1>13, <2>1, <2>2, <2>3 DEF CursorInv, CursorOK
<1>2. CASE Executes
  <2>1. /\ UNCHANGED m_queues
        /\ gpu' = IF gpu = "flip" THEN "return" ELSE "packet"
        /\ current'.id = current.id /\ current'.started = current.started
        /\ current'.pos = current.pos + 1
    BY <1>2, ExecutesFacts
  <2>2. /\ gpu \in {"packet", "flip", "flipWait"} /\ current.started /\ current # NoSubmission
        /\ current.pos + 1 \in 1..Len(Program[current.id])
    BY <1>2, PacketFacts, CurrentFacts DEF ThreadInv, Slice
  <2>3. CursorOK(current)'
    BY <2>1, <2>2 DEF CursorOK
  <2>4. current.id \in Flips => gpu = "flip" /\ current.pos = 0
    BY <2>2 DEF CursorInv
  <2>. QED BY <1>13, <2>1, <2>2, <2>3, <2>4 DEF CursorInv, CursorOK
<1>3. CASE LoopCancels
  <2>1. \A q \in Queues : m_queues'[q] = <<>>
    BY <1>3 DEF LoopCancels
  <2>. QED BY <1>13, <1>3, <2>1 DEF LoopCancels, slice, CursorInv, CursorOK
<1>4. CASE LoopTakesSubmission
  <2>1. PICK q \in Runnable : /\ current' = Head(m_queues[q])
                              /\ m_queues' = [m_queues EXCEPT ![q] = Tail(m_queues[q])]
    BY <1>4 DEF LoopTakesSubmission
  <2>2. q \in Queues /\ m_queues[q] # <<>> /\ m_queues[q] \in Seq(Records)
    BY <1>0 DEF Runnable
  <2>3. /\ Head(m_queues[q]) = m_queues[q][1] /\ Len(m_queues[q]) \in Nat \ {0}
        /\ Len(Tail(m_queues[q])) = Len(m_queues[q]) - 1
        /\ \A i \in 1..(Len(m_queues[q]) - 1) : Tail(m_queues[q])[i] = m_queues[q][i + 1]
    BY <2>2, TailFacts
  <2>4. QueuedOK(q, current')
    BY <1>0, <2>1, <2>2, <2>3
  <2>5. \A i \in 1..Len(m_queues'[q]) : QueuedOK(q, m_queues'[q][i])
    <3> TAKE i \in 1..Len(m_queues'[q])
    <3>1. m_queues'[q] = Tail(m_queues[q])
      BY <1>0, <2>1, <2>2
    <3>2. i + 1 \in 1..Len(m_queues[q]) /\ m_queues'[q][i] = m_queues[q][i + 1]
      BY <2>3, <3>1
    <3>. QED BY <1>0, <2>2, <3>2
  <2>6. QueuesOK(m_queues')
    BY <1>0, <2>1, <2>5
  <2>7. gpu' = "begin"
    BY <1>4 DEF LoopTakesSubmission
  <2>8. /\ CursorOK(current)'
        /\ current'.id \in Flips => current'.pos = 0
        /\ \A r \in Queues : \A i \in 1..Len(m_queues'[r]) :
              /\ QueueOf[m_queues'[r][i].id] = r
              /\ CursorOK(m_queues[r][i])'
              /\ m_queues'[r][i].id \in Flips => m_queues'[r][i].pos = 0
    BY <2>4, <2>6 DEF QueuedOK, CursorOK
  <2>. QED BY <1>13, <2>7, <2>8 DEF CursorInv
<1>5. ASSUME m_queues' = UnblockedFronts
      PROVE  QueuesOK(m_queues')
  <2> SUFFICES ASSUME NEW q \in Queues, NEW i \in 1..Len(m_queues'[q])
               PROVE  QueuedOK(q, m_queues'[q][i])
    OBVIOUS
  <2>1. /\ i \in 1..Len(m_queues[q])
        /\ m_queues'[q][i].id = m_queues[q][i].id
        /\ m_queues'[q][i].pos = m_queues[q][i].pos
        /\ m_queues'[q][i].started = m_queues[q][i].started
    BY <1>0, <1>5, UnblockedFacts
  <2>2. QueuedOK(q, m_queues[q][i])
    BY <1>0, <2>1
  <2>. QED BY <2>1, <2>2 DEF QueuedOK, CursorOK
<1>6. CASE PollEnds
  <2>1. QueuesOK(m_queues') /\ UNCHANGED current /\ gpu' = "loop" /\ gpu = "polling"
    BY <1>5, <1>6 DEF PollEnds, slice
  <2>2. current = NoSubmission
    BY <2>1 DEF ThreadInv, Slice
  <2>. QED BY <1>13, <2>1, <2>2 DEF CursorInv, QueuedOK, CursorOK
<1>7. CASE BeginSlice
  <2>1. current \in Records /\ gpu = "begin" /\ current # NoSubmission
    BY <1>7, CurrentFacts DEF BeginSlice, Slice
  <2>2. /\ current'.id = current.id /\ current'.started = TRUE /\ current'.pos = current.pos
        /\ gpu' = IF current.id \in Flips THEN "flip" ELSE "packet"
        /\ UNCHANGED m_queues
    BY <1>7, <2>1 DEF BeginSlice, Records, queueState
  <2>3. CursorOK(current)'
    BY <2>1, <2>2 DEF CursorInv, CursorOK
  <2>4. current'.id \in Flips => gpu' = "flip" /\ current'.pos = 0
    BY <2>1, <2>2 DEF CursorInv
  <2>5. gpu' = "flip" => current'.id \in Flips
    BY <2>2
  <2>. QED BY <1>13, <2>2, <2>3, <2>4, <2>5 DEF CursorInv, CursorOK
<1>8. CASE SliceBlocks
  <2> DEFINE r == [current EXCEPT !.blocked = TRUE]
             q == QueueOf[current.id]
  <2>1. /\ current \in Records /\ q \in Queues /\ gpu = "return" /\ ~complete
        /\ current # NoSubmission /\ current.id \in Submissions
    BY <1>8, CurrentFacts DEF SliceBlocks, Slice
  <2>2. /\ r \in Records /\ r.id = current.id /\ r.pos = current.pos
        /\ r.started = current.started
    BY <2>1 DEF Records
  <2>3. m_queues' = [m_queues EXCEPT ![q] = <<r>> \o m_queues[q]]
    BY <1>8 DEF SliceBlocks, PutBack
  <2>4. current.id \notin Flips
    BY <2>1, ProgramFacts DEF CursorInv, complete
  <2>5. QueuedOK(q, r)
    BY <2>1, <2>2, <2>4 DEF QueuedOK, CursorInv, CursorOK
  <2> HIDE DEF r, q
  <2>6. /\ Len(<<r>> \o m_queues[q]) = Len(m_queues[q]) + 1 /\ Len(m_queues[q]) \in Nat
        /\ (<<r>> \o m_queues[q])[1] = r
        /\ \A i \in 2..(Len(m_queues[q]) + 1) : (<<r>> \o m_queues[q])[i] = m_queues[q][i - 1]
    BY <1>0, <2>1, <2>2, FrontFacts
  <2>7. \A i \in 1..Len(m_queues'[q]) : QueuedOK(q, m_queues'[q][i])
    <3> TAKE i \in 1..Len(m_queues'[q])
    <3>1. m_queues'[q] = <<r>> \o m_queues[q]
      BY <1>0, <2>1, <2>3
    <3>2. CASE i = 1
      BY <2>5, <2>6, <3>1, <3>2
    <3>3. CASE i # 1
      <4>1. i \in 2..(Len(m_queues[q]) + 1) /\ i - 1 \in 1..Len(m_queues[q])
        BY <2>6, <3>1, <3>3
      <4>. QED BY <1>0, <2>1, <2>6, <3>1, <4>1
    <3>. QED BY <3>2, <3>3
  <2>8. QueuesOK(m_queues')
    BY <1>0, <2>3, <2>7
  <2>9. current' = NoSubmission /\ gpu' = "loop"
    BY <1>8 DEF SliceBlocks
  <2>. QED BY <1>13, <2>8, <2>9 DEF CursorInv, QueuedOK, CursorOK
<1>9. CASE SliceCompletes
  <2>1. QueuesOK(m_queues') /\ current' = NoSubmission /\ gpu' = "loop"
    BY <1>5, <1>9 DEF SliceCompletes
  <2>. QED BY <1>13, <2>1 DEF CursorInv, QueuedOK, CursorOK
<1>10. CASE Shutdown
  BY <1>13, <1>10 DEF Shutdown, SignalWork, slice, queueState, CursorInv, CursorOK,
     ThreadInv, Slice
<1>11. ASSUME NEW g \in Guests, DoneReturns(g) PROVE CursorInv'
  BY <1>13, <1>11 DEF DoneReturns, slice, queueState, CursorInv, CursorOK
<1>12. ASSUME NEW g \in Guests, NEW s \in Submissions, Submit(g, s) PROVE CursorInv'
  <2> DEFINE r == [NoSubmission EXCEPT !.id = s, !.reset = ResetProcessor(s)]
             q == QueueOf[s]
  <2>1. q \in Queues /\ Len(Program[s]) \in Nat
    BY ProgramFacts
  <2>2. r \in Records /\ r.id = s /\ r.pos = 0 /\ r.started = FALSE
    BY DEF NoSubmission, Records, ResetProcessor, TypeOK
  <2>3. m_queues' = [m_queues EXCEPT ![q] = Append(m_queues[q], r)]
    BY <1>12 DEF Submit, Enqueue
  <2>4. QueuedOK(q, r)
    BY <2>1, <2>2 DEF QueuedOK, CursorOK
  <2> HIDE DEF r, q
  <2>5. /\ Len(Append(m_queues[q], r)) = Len(m_queues[q]) + 1 /\ Len(m_queues[q]) \in Nat
        /\ Append(m_queues[q], r)[Len(m_queues[q]) + 1] = r
        /\ \A i \in 1..Len(m_queues[q]) : Append(m_queues[q], r)[i] = m_queues[q][i]
    BY <1>0, <2>1, <2>2, AppendFacts
  <2>6. \A i \in 1..Len(m_queues'[q]) : QueuedOK(q, m_queues'[q][i])
    <3> TAKE i \in 1..Len(m_queues'[q])
    <3>1. m_queues'[q] = Append(m_queues[q], r)
      BY <1>0, <2>1, <2>3
    <3>2. CASE i = Len(m_queues[q]) + 1
      BY <2>4, <2>5, <3>1, <3>2
    <3>3. CASE i # Len(m_queues[q]) + 1
      <4>1. i \in 1..Len(m_queues[q])
        BY <2>5, <3>1, <3>3
      <4>. QED BY <1>0, <2>1, <2>5, <3>1, <4>1
    <3>. QED BY <3>2, <3>3
  <2>7. QueuesOK(m_queues')
    BY <1>0, <2>3, <2>6
  <2>8. UNCHANGED current /\ gpu' = IF gpu = "asleep" THEN "loop" ELSE gpu
    BY <1>12 DEF Submit, Enqueue, SignalWork, slice
  <2>9. current # NoSubmission => gpu' = gpu
    BY <2>8 DEF ThreadInv, Slice
  <2>10. gpu' = "flip" => gpu = "flip"
    BY <2>8
  <2>. QED BY <1>13, <2>7, <2>8, <2>9, <2>10 DEF CursorInv, QueuedOK, CursorOK
<1>. QED BY <1>1, <1>2, <1>3, <1>4, <1>6, <1>7, <1>8, <1>9, <1>10, <1>11, <1>12, StepKinds

-----------------------------------------------------------------------------
Commanding == {"command", "commandWait", "inner", "innerWait"}
Stopped    == {"stop", "drain", "exited"}

(* Every step keeps the queued commands and the guests that wait for them  *)
(* together.                                                               *)
LEMMA CommandStep ==
    ASSUME TypeOK, ThreadInv, CursorInv, CommandInv, Next
    PROVE  CommandInv'
<1>0. /\ m_commands \in Seq(Guests) /\ Len(m_commands) \in Nat /\ pc \in [Guests -> GuestLabels]
      /\ command \in Guests \cup {"free"} /\ "free" \notin Guests
      /\ \A i \in 1..Len(m_commands) : m_commands[i] \in Guests
  <2>1. m_commands \in Seq(Guests)
    BY DEF TypeOK
  <2>2. Len(m_commands) \in Nat /\ \A i \in 1..Len(m_commands) : m_commands[i] \in Guests
    BY <2>1
  <2>3. "free" \notin Guests
    BY SubmissionsAssumption, Zenon
  <2>. QED BY <2>1, <2>2, <2>3 DEF TypeOK
<1>1. ASSUME UNCHANGED <<command, m_commands>>,
             \A g \in Guests : pc'[g] = "sync" <=> pc[g] = "sync",
             gpu' \in Commanding <=> gpu \in Commanding,
             gpu' \in Stopped => gpu \in Stopped \/ m_commands = <<>>
      PROVE  CommandInv'
  BY <1>1 DEF CommandInv, Commanding, Stopped
<1>2. ASSUME SignalIdle \/ UNCHANGED pc \/ SignalIfEmpty
      PROVE  \A g \in Guests : pc'[g] = "sync" <=> pc[g] = "sync"
  BY <1>2 DEF SignalIdle, SignalIfEmpty
<1>3. ASSUME m_commands # <<>>, command' = Head(m_commands), m_commands' = Tail(m_commands),
             gpu \notin Commanding, gpu' \in {"command", "inner"}, UNCHANGED pc
      PROVE  CommandInv'
  <2>1. /\ Head(m_commands) = m_commands[1] /\ Len(m_commands) \in Nat \ {0}
        /\ Len(Tail(m_commands)) = Len(m_commands) - 1
        /\ \A i \in 1..(Len(m_commands) - 1) : Tail(m_commands)[i] = m_commands[i + 1]
    BY <1>0, <1>3, TailFacts
  <2>2. /\ command' = m_commands[1] /\ command' \in Guests /\ command = "free"
        /\ Len(m_commands') = Len(m_commands) - 1
        /\ \A i \in 1..Len(m_commands') :
              i + 1 \in 1..Len(m_commands) /\ m_commands'[i] = m_commands[i + 1]
    BY <1>0, <1>3, <2>1 DEF CommandInv, Commanding
  <2>3. command' # "free" <=> gpu' \in Commanding
    BY <1>0, <1>3, <2>2 DEF Commanding
  <2>4. \A g \in Guests : pc'[g] = "sync" <=>
            command' = g \/ \E i \in 1..Len(m_commands') : m_commands'[i] = g
    <3> TAKE g \in Guests
    <3>1. pc'[g] = "sync" <=> \E i \in 1..Len(m_commands) : m_commands[i] = g
      BY <1>0, <1>3, <2>2 DEF CommandInv
    <3>2. ASSUME NEW i \in 1..Len(m_commands), m_commands[i] = g
          PROVE  command' = g \/ \E j \in 1..Len(m_commands') : m_commands'[j] = g
      <4>1. CASE i = 1
        BY <2>2, <3>2, <4>1
      <4>2. CASE i # 1
        <5>1. i - 1 \in 1..Len(m_commands') /\ (i - 1) + 1 = i
          BY <1>0, <2>1, <2>2, <4>2
        <5>2. m_commands'[i - 1] = m_commands[i]
          BY <2>2, <5>1
        <5>. QED BY <3>2, <5>1, <5>2
      <4>. QED BY <4>1, <4>2
    <3>3. 1 \in 1..Len(m_commands)
      BY <2>1
    <3>. QED BY <2>2, <3>1, <3>2, <3>3
  <2>5. \A i \in 1..Len(m_commands') : m_commands'[i] # command'
    <3> TAKE i \in 1..Len(m_commands')
    <3>1. i + 1 \in 1..Len(m_commands) /\ i + 1 # 1 /\ 1 \in 1..Len(m_commands)
      BY <2>1, <2>2
    <3>. QED BY <2>2, <3>1 DEF CommandInv
  <2>6. \A i, j \in 1..Len(m_commands') : m_commands'[i] = m_commands'[j] => i = j
    <3> SUFFICES ASSUME NEW i \in 1..Len(m_commands'), NEW j \in 1..Len(m_commands'),
                        m_commands'[i] = m_commands'[j]
                 PROVE  i = j
      OBVIOUS
    <3>1. i + 1 \in 1..Len(m_commands) /\ j + 1 \in 1..Len(m_commands)
          /\ m_commands[i + 1] = m_commands[j + 1]
      BY <2>2
    <3>2. i + 1 = j + 1
      BY <3>1 DEF CommandInv
    <3>. QED BY <1>0, <3>2
  <2>. QED BY <1>3, <2>3, <2>4, <2>5, <2>6 DEF CommandInv, Commanding
<1>4. CASE LoopSleeps \/ LoopStops \/ LoopPolls \/ CommandEnds
  <2>1. UNCHANGED <<command, m_commands>> /\ gpu \notin Commanding /\ gpu' \notin Commanding
        /\ (gpu' \in Stopped => m_commands = <<>>)
    BY <1>4 DEF LoopSleeps, LoopStops, LoopPolls, CommandEnds, MaySelect, Commanding, Stopped
  <2>2. SignalIdle \/ UNCHANGED pc \/ SignalIfEmpty
    BY <1>4 DEF LoopSleeps, LoopStops, LoopPolls, CommandEnds
  <2>. QED BY <1>1, <1>2, <2>1, <2>2
<1>5. CASE LoopTakesCommand \/ ProcessCommands
  BY <1>3, <1>5 DEF LoopTakesCommand, ProcessCommands, Commanding
<1>6. CASE CommandFinishes
  BY <1>1, <1>6 DEF CommandFinishes, Commanding, Stopped
<1>7. CASE InnerCommandReturns \/ CommandReturns
  <2>1. /\ pc' = [pc EXCEPT ![command] = "guest"] /\ command' = "free" /\ UNCHANGED m_commands
        /\ gpu \in {"innerWait", "commandWait"} /\ gpu' \in {"packet", "commandEnd"}
    BY <1>7 DEF InnerCommandReturns, CommandReturns
  <2>2. command \in Guests
    BY <1>0, <2>1 DEF CommandInv
  <2>3. \A g \in Guests : pc'[g] = "sync" <=> pc[g] = "sync" /\ g # command
    BY <1>0, <2>1, <2>2
  <2>4. \A g \in Guests : pc'[g] = "sync" <=>
            command' = g \/ \E i \in 1..Len(m_commands') : m_commands'[i] = g
    BY <1>0, <2>1, <2>3 DEF CommandInv
  <2>5. \A i \in 1..Len(m_commands') : m_commands'[i] # command'
    BY <1>0, <2>1
  <2>. QED BY <2>1, <2>4, <2>5 DEF CommandInv
<1>8. CASE \/ PacketSuspends \/ StreamEnds \/ EndSlice \/ FinalFinish \/ ThreadExits
           \/ WaitReadsBack \/ PacketWaitsForFlip \/ Publish \/ ShutdownReturns
  BY <1>1, <1>2, <1>8 DEF PacketWaitsForFlip, PacketSuspends, AtPacket, StreamEnds, EndSlice,
     FinalFinish, ThreadExits,
     WaitReadsBack, Publish, ShutdownReturns, Commanding, Stopped
<1>9. CASE SpuriousWakeup
  <2>1. UNCHANGED <<command, m_commands>>
    BY <1>9 DEF SpuriousWakeup
  <2>2. \A g \in Guests : pc'[g] = "sync" <=> pc[g] = "sync"
    BY <1>0, <1>9 DEF SpuriousWakeup
  <2>3. gpu' = gpu \/ (gpu' = "loop" /\ gpu = "asleep")
    BY <1>9 DEF SpuriousWakeup
  <2>. QED BY <1>1, <2>1, <2>2, <2>3 DEF Commanding, Stopped
<1>10. ASSUME NEW l \in Labels, CpuWrite(l) PROVE CommandInv'
  BY <1>1, <1>10 DEF CpuWrite
<1>11. ASSUME NEW g \in Guests, DoneWaits(g) \/ DoneSeesIdle(g) \/ Done(g) \/ DoneReturns(g)
                                \/ CallRejected(g)
       PROVE  CommandInv'
  <2>1. UNCHANGED <<command, m_commands, gpu>>
    BY <1>11 DEF DoneWaits, DoneSeesIdle, Done, DoneReturns, CallRejected
  <2>2. \A h \in Guests : pc'[h] = "sync" <=> pc[h] = "sync"
    BY <1>0, <1>11 DEF DoneWaits, DoneSeesIdle, Done, DoneReturns, CallRejected
  <2>. QED BY <1>1, <2>1, <2>2
<1>12. ASSUME NEW g \in Guests, SendCommandSync(g) PROVE CommandInv'
  <2>1. /\ pc[g] = "guest" /\ m_accepting /\ m_commands' = Append(m_commands, g)
        /\ pc' = [pc EXCEPT ![g] = "sync"] /\ UNCHANGED command
        /\ gpu' = IF gpu = "asleep" THEN "loop" ELSE gpu
    BY <1>12 DEF SendCommandSync, SignalWork
  <2>2. /\ Len(m_commands') = Len(m_commands) + 1 /\ m_commands'[Len(m_commands) + 1] = g
        /\ \A i \in 1..Len(m_commands) : m_commands'[i] = m_commands[i]
    BY <1>0, <2>1, AppendFacts
  <2>3. /\ gpu' \in Commanding <=> gpu \in Commanding
        /\ gpu' \notin Stopped
    BY <2>1 DEF Commanding, Stopped, ThreadInv
  <2>4. g # command /\ \A i \in 1..Len(m_commands) : m_commands[i] # g
    BY <2>1 DEF CommandInv
  <2>5. \A i \in 1..Len(m_commands') : i \in 1..Len(m_commands) \/ i = Len(m_commands) + 1
    BY <1>0, <2>2
  <2>6. \A h \in Guests : pc'[h] = "sync" <=> pc[h] = "sync" \/ h = g
    BY <1>0, <2>1
  <2>7. 1..Len(m_commands) \subseteq 1..Len(m_commands')
        /\ Len(m_commands) + 1 \in 1..Len(m_commands')
    BY <1>0, <2>2
  <2>8. \A h \in Guests : pc'[h] = "sync" <=>
            command' = h \/ \E i \in 1..Len(m_commands') : m_commands'[i] = h
    <3> TAKE h \in Guests
    <3>1. pc[h] = "sync" <=> command = h \/ \E i \in 1..Len(m_commands) : m_commands[i] = h
      BY DEF CommandInv
    <3>2. (\E i \in 1..Len(m_commands') : m_commands'[i] = h) <=>
              h = g \/ \E i \in 1..Len(m_commands) : m_commands[i] = h
      BY <2>2, <2>5, <2>7
    <3>. QED BY <2>1, <2>6, <3>1, <3>2
  <2>9. \A i \in 1..Len(m_commands') : m_commands'[i] # command'
    BY <2>1, <2>2, <2>4, <2>5 DEF CommandInv
  <2>10. \A i, j \in 1..Len(m_commands') : m_commands'[i] = m_commands'[j] => i = j
    <3> SUFFICES ASSUME NEW i \in 1..Len(m_commands'), NEW j \in 1..Len(m_commands'),
                        m_commands'[i] = m_commands'[j]
                 PROVE  i = j
      OBVIOUS
    <3>1. CASE i \in 1..Len(m_commands) /\ j \in 1..Len(m_commands)
      BY <2>2, <3>1 DEF CommandInv
    <3>2. CASE ~(i \in 1..Len(m_commands) /\ j \in 1..Len(m_commands))
      BY <2>2, <2>4, <2>5, <3>2
    <3>. QED BY <3>1, <3>2
  <2>. QED BY <2>1, <2>3, <2>8, <2>9, <2>10 DEF CommandInv, Commanding, Stopped
<1>13. CASE Executes
  <2>1. /\ UNCHANGED <<m_commands, pc, command>>
        /\ gpu' = IF gpu = "flip" THEN "return" ELSE "packet"
        /\ gpu \in {"packet", "flip", "flipWait"}
    BY <1>13, ExecutesFacts, PacketFacts
  <2>. QED BY <1>1, <2>1 DEF Commanding, Stopped
<1>14. CASE LoopTakesSubmission \/ LoopCancels \/ PollEnds \/ BeginSlice \/ SliceBlocks
  BY <1>1, <1>14 DEF LoopTakesSubmission, MaySelect, LoopCancels, PollEnds, BeginSlice,
     SliceBlocks,
     Commanding, Stopped
<1>15. CASE SliceCompletes
  BY <1>1, <1>2, <1>15 DEF SliceCompletes, Commanding, Stopped
<1>16. CASE Shutdown
  BY <1>1, <1>16 DEF Shutdown, SignalWork, Commanding, Stopped
<1>17. ASSUME NEW g \in Guests, NEW s \in Submissions, Submit(g, s) PROVE CommandInv'
  BY <1>1, <1>17 DEF Submit, Enqueue, SignalWork, Commanding, Stopped
<1>18. CASE FlipSteps
  BY <1>1, <1>18, FlipStepFacts
<1>. QED BY <1>18, <1>4, <1>5, <1>6, <1>7, <1>8, <1>9, <1>10, <1>11, <1>12, <1>13, <1>14,
            <1>15, <1>16,
            <1>17, StepKinds, Zenon DEF Quiet

(* Every step keeps Done exclusive, and idle what it has seen idle.        *)
LEMMA DoneStep ==
    ASSUME TypeOK, ThreadInv, CursorInv, CommandInv, DoneInv, Next
    PROVE  DoneInv'
<1>0. pc \in [Guests -> GuestLabels] /\ m_submission_mutex \in Guests \cup {"free"}
      /\ command \in Guests \cup {"free"} /\ "free" \notin Guests /\ m_submission_count \in Nat
  <2>1. "free" \notin Guests
    BY SubmissionsAssumption, Zenon
  <2>. QED BY <2>1 DEF TypeOK
<1> DEFINE Inside == {"idle", "parked", "done"}
<1>1. ASSUME UNCHANGED m_submission_mutex,
             \A g \in Guests : pc'[g] \in Inside <=> pc[g] \in Inside,
             \A g \in Guests : pc'[g] = "done" => pc[g] = "done",
             \A g \in Guests : pc[g] = "done" => m_submission_count' = 0 /\ gpu' \notin Slice
      PROVE  DoneInv'
  BY <1>1 DEF DoneInv
<1>2. ASSUME SignalIdle \/ UNCHANGED pc \/ SignalIfEmpty
      PROVE  /\ \A g \in Guests : pc'[g] \in Inside <=> pc[g] \in Inside
             /\ \A g \in Guests : pc'[g] = "done" => pc[g] = "done"
  BY <1>2 DEF SignalIdle, SignalIfEmpty
<1>3. ASSUME UNCHANGED <<m_submission_mutex, m_submission_count>>, gpu' \in Slice => gpu \in Slice,
             SignalIdle \/ UNCHANGED pc \/ SignalIfEmpty
      PROVE  DoneInv'
  BY <1>1, <1>2, <1>3 DEF DoneInv
<1>4. CASE \/ LoopSleeps \/ LoopStops \/ LoopPolls \/ CommandEnds \/ LoopTakesCommand
           \/ ProcessCommands \/ CommandFinishes \/ PacketSuspends \/ StreamEnds \/ EndSlice
           \/ PacketWaitsForFlip \/ FinalFinish \/ ThreadExits \/ WaitReadsBack
           \/ Publish \/ ShutdownReturns
  <2>1. UNCHANGED <<m_submission_mutex, m_submission_count>>
    BY <1>4, Zenon DEF LoopSleeps, LoopStops, LoopPolls, CommandEnds, LoopTakesCommand,
       ProcessCommands, CommandFinishes, PacketSuspends, StreamEnds, EndSlice,
       PacketWaitsForFlip, FinalFinish,
       ThreadExits, WaitReadsBack, Publish, ShutdownReturns, queueState, frames
  <2>2. gpu' \in Slice => gpu \in Slice
    BY <1>4 DEF LoopSleeps, LoopStops, LoopPolls, CommandEnds, LoopTakesCommand,
       ProcessCommands, CommandFinishes, PacketSuspends, StreamEnds, EndSlice,
       PacketWaitsForFlip, FinalFinish,
       ThreadExits, WaitReadsBack, Publish, ShutdownReturns, AtPacket, Slice
  <2>3. SignalIdle \/ UNCHANGED pc \/ SignalIfEmpty
    BY <1>4, Zenon DEF LoopSleeps, LoopStops, LoopPolls, CommandEnds, LoopTakesCommand,
       ProcessCommands, CommandFinishes, PacketSuspends, StreamEnds, EndSlice,
       PacketWaitsForFlip, FinalFinish,
       ThreadExits, WaitReadsBack, Publish, ShutdownReturns
  <2>. QED BY <1>3, <2>1, <2>2, <2>3
<1>5. CASE InnerCommandReturns \/ CommandReturns
  <2>1. /\ pc' = [pc EXCEPT ![command] = "guest"]
        /\ gpu \in {"innerWait", "commandWait"} /\ gpu' \in {"packet", "commandEnd"}
        /\ gpu' = "packet" <=> gpu = "innerWait"
        /\ UNCHANGED <<m_submission_mutex, m_submission_count>>
    BY <1>5 DEF InnerCommandReturns, CommandReturns, queueState, frames
  <2>2. command \in Guests /\ pc[command] = "sync"
    BY <1>0, <2>1 DEF CommandInv
  <2>3. \A g \in Guests : pc'[g] = pc[g] \/ (pc[g] = "sync" /\ pc'[g] = "guest")
    BY <1>0, <2>1, <2>2
  <2>4. gpu' \in Slice => gpu \in Slice
    BY <2>1 DEF Slice
  <2>5. \A g \in Guests : /\ pc'[g] \in Inside <=> pc[g] \in Inside
                          /\ pc'[g] = "done" => pc[g] = "done"
    BY <2>3
  <2>6. \A g \in Guests : pc[g] = "done" => m_submission_count' = 0 /\ gpu' \notin Slice
    BY <2>1, <2>4 DEF DoneInv
  <2>. QED BY <1>1, <2>1, <2>5, <2>6
<1>6. CASE SpuriousWakeup
  <2>1. UNCHANGED <<m_submission_mutex, m_submission_count>>
    BY <1>6 DEF SpuriousWakeup, queueState, frames
  <2>2. \A g \in Guests : /\ pc'[g] \in Inside <=> pc[g] \in Inside
                          /\ pc'[g] = "done" => pc[g] = "done"
    BY <1>0, <1>6 DEF SpuriousWakeup
  <2>3. gpu' \in Slice => gpu \in Slice
    BY <1>6 DEF SpuriousWakeup, Slice
  <2>4. \A g \in Guests : pc[g] = "done" => m_submission_count' = 0 /\ gpu' \notin Slice
    BY <2>1, <2>3 DEF DoneInv
  <2>. QED BY <1>1, <2>1, <2>2, <2>4
<1>7. ASSUME NEW l \in Labels, CpuWrite(l) PROVE DoneInv'
  BY <1>3, <1>7 DEF CpuWrite, queueState, frames
<1>8. ASSUME NEW g \in Guests, CallRejected(g) PROVE DoneInv'
  BY <1>3, <1>8 DEF CallRejected, queueState, frames
<1>9. ASSUME NEW g \in Guests, SendCommandSync(g) PROVE DoneInv'
  <2>1. /\ pc[g] = "guest" /\ pc' = [pc EXCEPT ![g] = "sync"]
        /\ gpu' = IF gpu = "asleep" THEN "loop" ELSE gpu
        /\ UNCHANGED <<m_submission_mutex, m_submission_count>>
    BY <1>9 DEF SendCommandSync, SignalWork, queueState, frames
  <2>2. \A h \in Guests : /\ pc'[h] \in Inside <=> pc[h] \in Inside
                          /\ pc'[h] = "done" => pc[h] = "done"
    BY <1>0, <2>1
  <2>3. \A h \in Guests : pc[h] = "done" => m_submission_count' = 0 /\ gpu' \notin Slice
    BY <2>1 DEF DoneInv, Slice
  <2>. QED BY <1>1, <2>1, <2>2, <2>3
<1>10. ASSUME NEW g \in Guests, Done(g) PROVE DoneInv'
  <2>1. /\ pc[g] = "guest" /\ m_submission_mutex = "free" /\ m_submission_mutex' = g
        /\ pc' = [pc EXCEPT ![g] = "idle"] /\ UNCHANGED <<m_submission_count, gpu>>
    BY <1>10 DEF Done, queueState
  <2>2. \A h \in Guests : pc[h] \notin Inside
    BY <1>0, <2>1 DEF DoneInv
  <2>3. \A h \in Guests : pc'[h] = IF h = g THEN "idle" ELSE pc[h]
    BY <1>0, <2>1
  <2>. QED BY <2>1, <2>2, <2>3 DEF DoneInv
<1>11. ASSUME NEW g \in Guests, DoneWaits(g) PROVE DoneInv'
  <2>1. /\ pc[g] = "idle" /\ pc' = [pc EXCEPT ![g] = "parked"]
        /\ UNCHANGED <<m_submission_mutex, m_submission_count, gpu>>
    BY <1>11 DEF DoneWaits, queueState, frames
  <2>2. \A h \in Guests : /\ pc'[h] \in Inside <=> pc[h] \in Inside
                          /\ pc'[h] = "done" => pc[h] = "done"
    BY <1>0, <2>1
  <2>3. \A h \in Guests : pc[h] = "done" => m_submission_count' = 0 /\ gpu' \notin Slice
    BY <2>1 DEF DoneInv
  <2>. QED BY <1>1, <2>1, <2>2, <2>3
<1>12. ASSUME NEW g \in Guests, DoneSeesIdle(g) PROVE DoneInv'
  <2>1. /\ pc[g] = "idle" /\ pc' = [pc EXCEPT ![g] = "done"] /\ Idle
        /\ UNCHANGED <<m_submission_mutex, m_submission_count, gpu>>
    BY <1>12 DEF DoneSeesIdle, queueState, frames
  <2>2. m_submission_count = 0 /\ gpu \notin Slice
    BY <2>1 DEF Idle, ThreadInv
  <2>3. \A h \in Guests : pc'[h] = IF h = g THEN "done" ELSE pc[h]
    BY <1>0, <2>1
  <2>. QED BY <2>1, <2>2, <2>3 DEF DoneInv
<1>13. ASSUME NEW g \in Guests, DoneReturns(g) PROVE DoneInv'
  <2>1. /\ pc[g] = "done" /\ m_submission_mutex' = "free" /\ pc' = [pc EXCEPT ![g] = "guest"]
    BY <1>13 DEF DoneReturns
  <2>2. m_submission_mutex = g
    BY <2>1 DEF DoneInv
  <2>3. \A h \in Guests : pc'[h] \notin Inside
    BY <1>0, <2>1, <2>2 DEF DoneInv
  <2>. QED BY <1>0, <2>1, <2>3 DEF DoneInv
<1>14. CASE Executes
  <2>1. /\ UNCHANGED <<m_submission_mutex, m_submission_count, pc>>
        /\ gpu \in {"packet", "flip", "flipWait"}
    BY <1>14, ExecutesFacts, PacketFacts
  <2>. QED BY <1>3, <2>1 DEF Slice
<1>15. CASE LoopTakesSubmission
  <2>1. m_submission_count # 0 /\ UNCHANGED <<pc, m_submission_mutex>>
    BY <1>15 DEF LoopTakesSubmission, MaySelect, frames
  <2>2. \A g \in Guests : pc[g] # "done"
    BY <2>1 DEF DoneInv
  <2>. QED BY <2>1, <2>2 DEF DoneInv
<1>16. CASE LoopCancels
  BY <1>16 DEF LoopCancels, frames, DoneInv
<1>17. CASE PollEnds \/ BeginSlice
  BY <1>3, <1>17 DEF PollEnds, BeginSlice, queueState, frames, Slice
<1>18. CASE SliceBlocks
  <2>1. gpu \in Slice /\ UNCHANGED <<pc, m_submission_mutex>>
    BY <1>18 DEF SliceBlocks, frames, Slice
  <2>2. \A g \in Guests : pc[g] # "done"
    BY <2>1 DEF DoneInv
  <2>. QED BY <2>1, <2>2 DEF DoneInv
<1>19. CASE SliceCompletes
  BY <1>3, <1>19 DEF SliceCompletes, frames, Slice
<1>20. CASE Shutdown
  BY <1>3, <1>20 DEF Shutdown, SignalWork, queueState, frames, Slice
<1>21. ASSUME NEW g \in Guests, NEW s \in Submissions, Submit(g, s) PROVE DoneInv'
  <2>1. m_submission_mutex = "free" /\ UNCHANGED <<pc, m_submission_mutex>>
    BY <1>21 DEF Submit
  <2>2. \A h \in Guests : pc[h] # "done"
    BY <1>0, <2>1 DEF DoneInv
  <2>. QED BY <2>1, <2>2 DEF DoneInv
<1>22. CASE FlipSteps
  <2>1. UNCHANGED <<m_submission_mutex, m_submission_count, pc, gpu>>
    BY <1>22, FlipStepFacts DEF core
  <2>. QED BY <1>3, <2>1
<1>. QED BY <1>22, <1>4, <1>5, <1>6, <1>7, <1>8, <1>9, <1>10, <1>11, <1>12, <1>13, <1>14,
            <1>15, <1>16,
            <1>17, <1>18, <1>19, <1>20, <1>21, StepKinds, Zenon DEF Quiet

-----------------------------------------------------------------------------
(* The labels on their way are those in flight, then those recorded.       *)
LEMMA WayFacts ==
    ASSUME TypeOK
    PROVE  /\ Way \in Seq(Labels) /\ Len(Way) \in Nat
           /\ inFlight # <<>> => Way # <<>> /\ Head(Way) = Head(inFlight)
                                 /\ Tail(inFlight) \o recorded = Tail(Way)
           /\ (inFlight \o recorded) \o <<>> = Way
           /\ \A l \in Labels : inFlight \o Append(recorded, l) = Append(Way, l)
           /\ \A l \in Labels : (inFlight \o Append(recorded, l)) \o <<>> = Append(Way, l)
<1>1. recorded \in Seq(Labels) /\ inFlight \in Seq(Labels)
  BY DEF TypeOK
<1>2. Way \in Seq(Labels) /\ Len(Way) \in Nat /\ (inFlight \o recorded) \o <<>> = Way
  BY <1>1 DEF Way
<1>3. \A l \in Labels : inFlight \o Append(recorded, l) = Append(Way, l)
  BY <1>1 DEF Way
<1>4. \A l \in Labels : (inFlight \o Append(recorded, l)) \o <<>> = Append(Way, l)
  <2> TAKE l \in Labels
  <2>1. inFlight \o Append(recorded, l) \in Seq(Labels)
    BY <1>1
  <2>2. (inFlight \o Append(recorded, l)) \o <<>> = inFlight \o Append(recorded, l)
    BY <2>1
  <2>. QED BY <1>3, <2>2
<1>5. ASSUME inFlight # <<>>
      PROVE  Way # <<>> /\ Head(Way) = Head(inFlight) /\ Tail(inFlight) \o recorded = Tail(Way)
  BY <1>1, <1>5 DEF Way
<1>. QED BY <1>2, <1>3, <1>4, <1>5

(* What executing a packet does to the labels: a RELEASE_MEM puts its      *)
(* label behind the others, a WRITE_DATA stores it, a wait has seen it.    *)
LEMMA ExecutesLabels ==
    ASSUME TypeOK, ThreadInv, CursorInv, Executes
    PROVE  \/ Packet.op = "write" /\ Way' = Append(Way, Packet.label) /\ UNCHANGED labels
           \/ Packet.op = "data" /\ labels' = labels \cup {Packet.label} /\ UNCHANGED Way
           \/ /\ Packet.op \in {"draw", "flush", "flipdone", "wait"} /\ UNCHANGED <<Way, labels>>
              /\ Packet.op = "wait" => Packet.label \in labels
<1>0. /\ Packet.label \in Labels /\ (gpu = "flip" => Packet.op = "write")
      /\ (gpu = "flipWait" => Packet.op = "flipdone")
  BY PacketFacts
<1>1. CASE PacketPasses
  BY <1>1 DEF PacketPasses, WaitSatisfied, pipeline, Way
<1>2. CASE PacketWrites
  <2>1. /\ Packet.op = "write" /\ recorded' = Append(recorded, Packet.label)
        /\ UNCHANGED <<inFlight, labels>>
    BY <1>2 DEF PacketWrites
  <2>2. Way' = inFlight \o Append(recorded, Packet.label)
    BY <2>1 DEF Way
  <2>. QED BY <1>0, <2>1, <2>2, WayFacts
<1>3. CASE PacketStores
  BY <1>3 DEF PacketStores, Way
<1>4. CASE PacketFlushes
  <2>1. Packet.op = "flush" /\ Flush
    BY <1>4 DEF PacketFlushes
  <2>2. Way' = (inFlight \o recorded) \o <<>> /\ UNCHANGED labels
    BY <2>1 DEF Flush, Way
  <2>. QED BY <2>1, <2>2, WayFacts
<1>5. CASE PrepareCpuFlip
  <2>1. /\ gpu = "flip" /\ inFlight' = inFlight \o Append(recorded, Packet.label)
        /\ recorded' = <<>> /\ UNCHANGED labels
    BY <1>5 DEF PrepareCpuFlip
  <2>2. Way' = (inFlight \o Append(recorded, Packet.label)) \o <<>>
    BY <2>1 DEF Way
  <2>. QED BY <1>0, <2>1, <2>2, WayFacts
<1>6. CASE FlipWaitReturns
  BY <1>0, <1>6 DEF FlipWaitReturns, pipeline, Way
<1>. QED BY <1>1, <1>2, <1>3, <1>4, <1>5, <1>6 DEF Executes

(* What every other step does to them: the oldest is published, the CPU    *)
(* writes one of its own, or nothing.                                      *)
LEMMA OtherLabels ==
    ASSUME TypeOK, ThreadInv, CursorInv, Next, ~Executes
    PROVE  /\ UNCHANGED executed
           /\ \/ UNCHANGED <<Way, labels>>
              \/ Way # <<>> /\ Way' = Tail(Way) /\ labels' = labels \cup {Head(Way)}
              \/ \E l \in CpuLabels : labels' = labels \cup {l} /\ UNCHANGED Way
<1> DEFINE Goal == \/ UNCHANGED <<Way, labels>>
                   \/ Way # <<>> /\ Way' = Tail(Way) /\ labels' = labels \cup {Head(Way)}
                   \/ \E l \in CpuLabels : labels' = labels \cup {l} /\ UNCHANGED Way
<1> SUFFICES Goal /\ UNCHANGED executed
  OBVIOUS
<1>1. ASSUME UNCHANGED pipeline PROVE Goal
  BY <1>1 DEF pipeline, Way
<1>2. ASSUME Flush PROVE Goal
  <2>1. Way' = (inFlight \o recorded) \o <<>> /\ UNCHANGED labels
    BY <1>2 DEF Flush, Way
  <2>. QED BY <2>1, WayFacts
<1>3. CASE CommandFinishes \/ FinalFinish \/ WaitReadsBack \/ PacketWaitsForFlip \/ EndSlice
  <2>1. UNCHANGED pipeline \/ Flush
    BY <1>3, Zenon DEF CommandFinishes, FinalFinish, WaitReadsBack, PacketWaitsForFlip,
       EndSlice
  <2>2. UNCHANGED executed
    BY <1>3, QuietFrame DEF Quiet, core
  <2>. QED BY <1>1, <1>2, <2>1, <2>2
<1>4. CASE Publish
  <2>1. /\ inFlight # <<>> /\ labels' = labels \cup {Head(inFlight)}
        /\ inFlight' = Tail(inFlight) /\ UNCHANGED <<recorded, executed>>
    BY <1>4 DEF Publish, history
  <2>2. Way' = Tail(inFlight) \o recorded
    BY <2>1 DEF Way
  <2>. QED BY <2>1, <2>2, WayFacts
<1>5. ASSUME NEW l \in Labels, CpuWrite(l) PROVE Goal /\ UNCHANGED executed
  BY <1>5 DEF CpuWrite, history, Way
<1>6. ASSUME \/ LoopSleeps \/ LoopStops \/ LoopTakesCommand \/ LoopPolls \/ ProcessCommands
             \/ InnerCommandReturns \/ CommandReturns \/ CommandEnds
             \/ PacketSuspends \/ StreamEnds \/ ThreadExits
             \/ SpuriousWakeup \/ ShutdownReturns
             \/ LoopCancels \/ LoopTakesSubmission \/ PollEnds
             \/ BeginSlice \/ SliceBlocks \/ SliceCompletes \/ Shutdown
      PROVE  UNCHANGED <<pipeline, executed>>
  BY <1>6, Zenon DEF LoopSleeps, LoopStops, LoopTakesCommand, LoopPolls, ProcessCommands,
     InnerCommandReturns, CommandReturns, CommandEnds, PacketSuspends, StreamEnds, ThreadExits,
     SpuriousWakeup, ShutdownReturns, LoopCancels, LoopTakesSubmission, PollEnds, BeginSlice,
     SliceBlocks, SliceCompletes, Shutdown, history
<1>7. ASSUME NEW g \in Guests,
             \/ DoneWaits(g) \/ DoneSeesIdle(g) \/ Done(g) \/ DoneReturns(g)
             \/ SendCommandSync(g) \/ CallRejected(g) \/ \E s \in Submissions : Submit(g, s)
      PROVE  UNCHANGED <<pipeline, executed>>
  BY <1>7, Zenon DEF DoneWaits, DoneSeesIdle, Done, DoneReturns, SendCommandSync,
     CallRejected,
     Submit, history
<1>9. ASSUME FlipSteps PROVE UNCHANGED <<pipeline, executed>>
  BY <1>9, FlipStepFacts DEF pipeline, core
<1> HIDE DEF Goal
<1>8. ASSUME UNCHANGED <<pipeline, executed>> PROVE UNCHANGED pipeline /\ UNCHANGED executed
  BY <1>8
<1>. QED BY <1>8, <1>1, <1>3, <1>4, <1>5, <1>6, <1>7, <1>9, StepKinds, Zenon DEF Quiet

(* The labels written by executed packets, element by element.             *)
LEMMA WrittenFacts ==
    ASSUME TypeOK
    PROVE  \A l : l \in Written <=>
               \E q \in Queues : \E i \in 1..Len(executed[q]) :
                   PacketAt(q, i).op \in {"write", "data"} /\ PacketAt(q, i).label = l
<1>1. \A q \in Queues : DOMAIN executed[q] = 1..Len(executed[q])
  BY DEF TypeOK
<1>. QED BY <1>1 DEF Written

(* Executing a packet adds it at the end of its ring's history.            *)
LEMMA HistoryGrows ==
    ASSUME TypeOK, ThreadInv, CursorInv, Executes,
           NEW r, r = QueueOf[current.id], NEW n, n = Len(executed[r])
    PROVE  /\ r \in Queues /\ n \in Nat
           /\ Len(executed'[r]) = n + 1
           /\ executed'[r][n + 1] = <<current.id, current.pos + 1>>
           /\ PacketAt(r, n + 1)' = Packet
           /\ \A i \in 1..n : executed'[r][i] = executed[r][i]
           /\ \A q \in Queues : q # r => executed'[q] = executed[q]
           /\ \A q \in Queues : \A i \in 1..Len(executed[q]) : PacketAt(q, i)' = PacketAt(q, i)
<1>1. /\ current.id \in Submissions /\ current.pos \in Nat /\ r \in Queues
  BY PacketFacts, CurrentFacts DEF Slice
<1>2. executed' = [executed EXCEPT ![r] = Append(executed[r], <<current.id, current.pos + 1>>)]
  BY ExecutesFacts
<1>3. executed \in [Queues -> Seq(Submissions \X Nat)]
  BY DEF TypeOK
<1>4. executed'[r] = Append(executed[r], <<current.id, current.pos + 1>>)
      /\ \A q \in Queues : q # r => executed'[q] = executed[q]
  BY <1>1, <1>2, <1>3
<1>5. <<current.id, current.pos + 1>> \in Submissions \X Nat
  BY <1>1
<1>6. /\ n \in Nat /\ Len(executed'[r]) = n + 1
      /\ executed'[r][n + 1] = <<current.id, current.pos + 1>>
      /\ \A i \in 1..n : executed'[r][i] = executed[r][i]
  <2>1. executed[r] \in Seq(Submissions \X Nat)
    BY <1>1, <1>3
  <2>2. PICK e \in Submissions \X Nat : e = <<current.id, current.pos + 1>>
    BY <1>5
  <2>3. executed'[r] = Append(executed[r], e)
    BY <1>4, <2>2
  <2>4. /\ n \in Nat /\ Len(Append(executed[r], e)) = n + 1
        /\ \A i \in 1..n : Append(executed[r], e)[i] = executed[r][i]
        /\ Append(executed[r], e)[n + 1] = e
    BY <2>1, AppendFacts, SMTT(20)
  <2>. QED BY <2>2, <2>3, <2>4, Zenon
<1>7. PacketAt(r, n + 1)' = Packet
  BY <1>6 DEF PacketAt, Packet
<1>8. \A q \in Queues : \A i \in 1..Len(executed[q]) : PacketAt(q, i)' = PacketAt(q, i)
  BY <1>4, <1>6 DEF PacketAt
<1>. QED BY <1>1, <1>4, <1>6, <1>7, <1>8

(* What has been written grows by the packet's label.                      *)
LEMMA WrittenGrows ==
    ASSUME TypeOK, TypeOK', ThreadInv, CursorInv, Executes
    PROVE  \A l : l \in Written' <=>
               l \in Written \/ (Packet.op \in {"write", "data"} /\ l = Packet.label)
<1>0. PICK r, n : r = QueueOf[current.id] /\ n = Len(executed[r])
  OBVIOUS
<1>1. /\ r \in Queues /\ n \in Nat /\ n = Len(executed[r])
      /\ Len(executed'[r]) = n + 1
      /\ PacketAt(r, n + 1)' = Packet
      /\ \A q \in Queues : q # r => executed'[q] = executed[q]
      /\ \A q \in Queues : \A i \in 1..Len(executed[q]) : PacketAt(q, i)' = PacketAt(q, i)
  BY <1>0, HistoryGrows
<1>2. \A q \in Queues : \A i \in 1..Len(executed'[q]) :
          i \in 1..Len(executed[q]) \/ (q = r /\ i = n + 1)
  BY <1>1
<1>3. n + 1 \in 1..Len(executed'[r])
      /\ \A q \in Queues : \A i \in 1..Len(executed[q]) : i \in 1..Len(executed'[q])
  BY <1>1
<1>4. \A l : l \in Written <=>
               \E q \in Queues : \E i \in 1..Len(executed[q]) :
                   PacketAt(q, i).op \in {"write", "data"} /\ PacketAt(q, i).label = l
  BY WrittenFacts
<1>5. \A l : l \in Written' <=>
               \E q \in Queues : \E i \in 1..Len(executed'[q]) :
                   PacketAt(q, i)'.op \in {"write", "data"} /\ PacketAt(q, i)'.label = l
  <2>1. \A q \in Queues : DOMAIN executed'[q] = 1..Len(executed'[q])
    BY DEF TypeOK
  <2>. QED BY <2>1 DEF Written
<1> TAKE l
<1>6. ASSUME l \in Written'
      PROVE  l \in Written \/ (Packet.op \in {"write", "data"} /\ l = Packet.label)
  <2>1. PICK q \in Queues : \E i \in 1..Len(executed'[q]) :
                   PacketAt(q, i)'.op \in {"write", "data"} /\ PacketAt(q, i)'.label = l
    BY <1>5, <1>6
  <2>2. PICK i \in 1..Len(executed'[q]) :
                   PacketAt(q, i)'.op \in {"write", "data"} /\ PacketAt(q, i)'.label = l
    BY <2>1
  <2>3. CASE i \in 1..Len(executed[q])
    BY <1>1, <1>4, <2>2, <2>3
  <2>4. CASE q = r /\ i = n + 1
    BY <1>1, <2>2, <2>4
  <2>. QED BY <1>2, <2>3, <2>4
<1>7. ASSUME l \in Written PROVE l \in Written'
  BY <1>1, <1>3, <1>4, <1>5, <1>7
<1>8. ASSUME Packet.op \in {"write", "data"}, l = Packet.label PROVE l \in Written'
  BY <1>1, <1>3, <1>5, <1>8
<1>. QED BY <1>6, <1>7, <1>8

(* Every step that leaves a slice, and every command, flushes first.       *)
LEMMA RecordedStep ==
    ASSUME TypeOK, ThreadInv, CursorInv, PipelineInv, Next
    PROVE  /\ recorded' # <<>> => gpu' \in {"packet", "inner", "flush"} /\ progressed'
           /\ gpu' = "exited" => inFlight' = <<>>
<1> USE DEF pipeline, slice
<1> DEFINE Recording == {"packet", "inner", "flush"}
           Goal == /\ recorded' # <<>> => gpu' \in Recording /\ progressed'
                   /\ gpu' = "exited" => inFlight' = <<>>
<1> SUFFICES Goal
  OBVIOUS
<1>0. gpu \in GpuLabels
  BY DEF TypeOK
<1>1. ASSUME UNCHANGED <<pipeline, progressed>>, gpu \in Recording => gpu' \in Recording,
             gpu' = "exited" => gpu = "exited"
      PROVE  Goal
  BY <1>1 DEF PipelineInv
<1>2. ASSUME recorded' = <<>>, gpu' # "exited" PROVE Goal
  BY <1>2
<1>3. CASE \/ LoopSleeps \/ LoopStops \/ LoopTakesCommand \/ LoopPolls \/ ProcessCommands
           \/ InnerCommandReturns \/ CommandReturns \/ CommandEnds \/ PacketSuspends \/ StreamEnds
  BY <1>1, <1>3 DEF LoopSleeps, LoopStops, LoopTakesCommand, LoopPolls, MaySelect,
     ProcessCommands, InnerCommandReturns, CommandReturns, CommandEnds, PacketSuspends,
     AtPacket,
     StreamEnds
<1>4. CASE ThreadExits
  BY <1>4 DEF ThreadExits, PipelineInv
<1>5. CASE CommandFinishes \/ FinalFinish \/ WaitReadsBack \/ PacketWaitsForFlip
  BY <1>2, <1>5 DEF CommandFinishes, FinalFinish, WaitReadsBack, PacketWaitsForFlip, AtPacket,
     Flush
<1>6. CASE EndSlice
  <2>1. recorded' = <<>> /\ gpu' = "return"
    BY <1>6 DEF EndSlice, FlushNeeded, Flush, PipelineInv
  <2>. QED BY <1>2, <2>1
<1>7. CASE Publish
  BY <1>7 DEF Publish, PipelineInv
<1>8. CASE SpuriousWakeup \/ ShutdownReturns \/ Shutdown
  BY <1>1, <1>8 DEF SpuriousWakeup, ShutdownReturns, Shutdown, SignalWork
<1>9. ASSUME NEW l \in Labels, CpuWrite(l) PROVE Goal
  BY <1>9 DEF CpuWrite, PipelineInv
<1>10. ASSUME NEW g \in Guests,
              \/ DoneWaits(g) \/ DoneSeesIdle(g) \/ Done(g) \/ DoneReturns(g) \/ CallRejected(g)
              \/ SendCommandSync(g)
       PROVE  Goal
  BY <1>1, <1>10 DEF DoneWaits, DoneSeesIdle, Done, DoneReturns, SendCommandSync,
     CallRejected,
     SignalWork
<1>11. ASSUME NEW g \in Guests, NEW s \in Submissions, Submit(g, s) PROVE Goal
  BY <1>1, <1>11 DEF Submit, Enqueue, SignalWork
<1>12. CASE Executes
  <2>1. /\ progressed' = TRUE /\ gpu' = IF gpu = "flip" THEN "return" ELSE "packet"
        /\ gpu \in {"packet", "flip", "flipWait"}
    BY <1>12, ExecutesFacts, PacketFacts
  <2>2. gpu = "flip" => recorded' = <<>>
    BY <1>12 DEF Executes, PacketPasses, PacketWrites, PacketStores, PacketFlushes,
       FlipWaitReturns, PrepareCpuFlip,
       AtPacket
  <2>. QED BY <2>1, <2>2
<1>13. CASE LoopCancels \/ LoopTakesSubmission \/ PollEnds \/ SliceBlocks \/ SliceCompletes
  BY <1>1, <1>13 DEF LoopCancels, LoopTakesSubmission, MaySelect, PollEnds, SliceBlocks,
     SliceCompletes
<1>14. CASE BeginSlice
  BY <1>14 DEF BeginSlice, PipelineInv
<1>15. CASE FlipSteps
  BY <1>1, <1>15, FlipStepFacts
<1> HIDE DEF Goal
<1>. QED BY <1>3, <1>4, <1>5, <1>6, <1>7, <1>8, <1>9, <1>10, <1>11, <1>12, <1>13, <1>14,
            <1>15,
            StepKinds, Zenon DEF Quiet

(* Every step keeps the labels together: one written by a packet is in     *)
(* memory or on its way, and no other is.                                  *)
LEMMA PipelineStep ==
    ASSUME TypeOK, TypeOK', ThreadInv, CursorInv, PipelineInv, Next
    PROVE  PipelineInv'
<1> DEFINE Safe(o, l) ==
               /\ o = "write" => l \in labels \/ \E a \in 1..Len(Way) : Way[a] = l
               /\ o \in {"data", "wait"} => l \in labels
<1>0. /\ recorded' # <<>> => gpu' \in {"packet", "inner", "flush"} /\ progressed'
      /\ gpu' = "exited" => inFlight' = <<>>
  BY RecordedStep
<1>1. Way \in Seq(Labels) /\ Len(Way) \in Nat
  BY WayFacts
<1>2. \A q \in Queues : \A i \in 1..Len(executed[q]) :
          Safe(PacketAt(q, i).op, PacketAt(q, i).label)
  BY DEF PipelineInv
<1>3. CASE Executes
  <2>0. PICK r, n : r = QueueOf[current.id] /\ n = Len(executed[r])
    OBVIOUS
  <2>1. /\ r \in Queues /\ n \in Nat /\ Len(executed'[r]) = n + 1
        /\ PacketAt(r, n + 1)' = Packet
        /\ \A q \in Queues : q # r => executed'[q] = executed[q]
        /\ \A q \in Queues : \A i \in 1..Len(executed[q]) : PacketAt(q, i)' = PacketAt(q, i)
    BY <1>3, <2>0, HistoryGrows
  <2>2. \A q \in Queues : \A i \in 1..Len(executed'[q]) :
            i \in 1..Len(executed[q]) \/ (q = r /\ i = n + 1)
    BY <2>0, <2>1
  <2>3. \A l : l \in Written' <=>
               l \in Written \/ (Packet.op \in {"write", "data"} /\ l = Packet.label)
    BY <1>3, WrittenGrows
  <2>4. Packet.label \in Labels
    BY <1>3, PacketFacts
  <2>5. /\ Len(Append(Way, Packet.label)) = Len(Way) + 1
        /\ Append(Way, Packet.label)[Len(Way) + 1] = Packet.label
        /\ \A a \in 1..Len(Way) : Append(Way, Packet.label)[a] = Way[a]
    BY <1>1, <2>4, AppendFacts
  <2>6. \/ Packet.op = "write" /\ Way' = Append(Way, Packet.label) /\ UNCHANGED labels
        \/ Packet.op = "data" /\ labels' = labels \cup {Packet.label} /\ UNCHANGED Way
        \/ /\ Packet.op \in {"draw", "flush", "flipdone", "wait"} /\ UNCHANGED <<Way, labels>>
           /\ Packet.op = "wait" => Packet.label \in labels
    BY <1>3, ExecutesLabels
  <2>7. labels \subseteq labels'
        /\ \A a \in 1..Len(Way) : a \in 1..Len(Way') /\ Way'[a] = Way[a]
    BY <1>1, <2>5, <2>6
  <2>8. \A o, l : Safe(o, l) => Safe(o, l)'
    BY <2>7
  <2>9. PICK p : p = Packet
    OBVIOUS
  <2>10. Safe(p.op, p.label)'
    <3>1. p.op = "write" => Len(Way) + 1 \in 1..Len(Way') /\ Way'[Len(Way) + 1] = p.label
      BY <1>1, <2>5, <2>6, <2>9
    <3>2. p.op \in {"data", "wait"} => p.label \in labels'
      BY <2>6, <2>9
    <3>. QED BY <3>1, <3>2
  <2>11. ASSUME NEW q \in Queues, NEW i \in 1..Len(executed'[q])
         PROVE  Safe(PacketAt(q, i).op, PacketAt(q, i).label)'
    <3>1. CASE i \in 1..Len(executed[q])
      <4>1. PICK d : d = PacketAt(q, i)
        OBVIOUS
      <4>2. Safe(d.op, d.label) /\ PacketAt(q, i)' = d
        BY <1>2, <2>1, <3>1, <4>1
      <4>3. Safe(d.op, d.label)'
        BY <2>8, <4>2
      <4>. QED BY <4>2, <4>3
    <3>2. CASE q = r /\ i = n + 1
      BY <2>1, <2>9, <2>10, <3>2
    <3>. QED BY <2>2, <3>1, <3>2
  <2>12. labels' \subseteq Written' \cup CpuLabels
    BY <2>3, <2>6 DEF PipelineInv
  <2>13. \A a \in 1..Len(Way') : Way'[a] \in Written'
    BY <1>1, <2>3, <2>5, <2>6 DEF PipelineInv
  <2>. QED BY <1>0, <2>11, <2>12, <2>13 DEF PipelineInv
<1>4. CASE ~Executes
  <2>1. /\ UNCHANGED executed
        /\ \/ UNCHANGED <<Way, labels>>
           \/ Way # <<>> /\ Way' = Tail(Way) /\ labels' = labels \cup {Head(Way)}
           \/ \E l \in CpuLabels : labels' = labels \cup {l} /\ UNCHANGED Way
    BY <1>4, OtherLabels
  <2>2. Written' = Written /\ \A q, i : PacketAt(q, i)' = PacketAt(q, i)
    BY <2>1 DEF Written, PacketAt
  <2>3. Way # <<>> => /\ Len(Way) \in Nat \ {0} /\ Len(Tail(Way)) = Len(Way) - 1
                      /\ Head(Way) = Way[1]
                      /\ \A a \in 1..(Len(Way) - 1) : Tail(Way)[a] = Way[a + 1]
    BY <1>1, TailFacts
  <2>4. labels \subseteq labels'
        /\ \A a \in 1..Len(Way) : Way[a] \in labels' \/ \E b \in 1..Len(Way') : Way'[b] = Way[a]
    <3>1. CASE Way # <<>> /\ Way' = Tail(Way) /\ labels' = labels \cup {Head(Way)}
      <4>1. \A a \in 1..Len(Way) : a = 1 \/ (a - 1 \in 1..Len(Way') /\ Way'[a - 1] = Way[a])
        BY <2>3, <3>1
      <4>. QED BY <2>3, <3>1, <4>1
    <3>. QED BY <2>1, <3>1
  <2>5. \A o, l : Safe(o, l) => Safe(o, l)'
    BY <2>4
  <2>6. ASSUME NEW q \in Queues, NEW i \in 1..Len(executed'[q])
        PROVE  Safe(PacketAt(q, i).op, PacketAt(q, i).label)'
    <3>1. PICK d : d = PacketAt(q, i)
      OBVIOUS
    <3>2. Safe(d.op, d.label) /\ PacketAt(q, i)' = d
      BY <1>2, <2>1, <2>2, <3>1
    <3>3. Safe(d.op, d.label)'
      BY <2>5, <3>2
    <3>. QED BY <3>2, <3>3
  <2>7. \A a \in 1..Len(Way') : Way'[a] \in Written'
    BY <1>1, <2>1, <2>2, <2>3 DEF PipelineInv
  <2>8. labels' \subseteq Written' \cup CpuLabels
    <3>1. Way # <<>> => Head(Way) \in Written
      BY <2>3 DEF PipelineInv
    <3>. QED BY <2>1, <2>2, <3>1 DEF PipelineInv
  <2>. QED BY <1>0, <2>6, <2>7, <2>8 DEF PipelineInv
<1>. QED BY <1>3, <1>4

-----------------------------------------------------------------------------
(* Two lines of the same submissions at the same packets, blocked or not.  *)
Agree(s, t) ==
    /\ Len(s) = Len(t)
    /\ \A i \in 1..Len(t) : /\ s[i].id = t[i].id /\ s[i].pos = t[i].pos
                            /\ s[i].started = t[i].started /\ s[i].reset = t[i].reset

(* A ring's line is its queue behind the submission being executed.        *)
LEMMA LineFacts ==
    ASSUME TypeOK, ThreadInv, NEW q \in Queues
    PROVE  /\ Line(q) \in Seq(Records) /\ Len(Line(q)) \in Nat
           /\ \A i \in 1..Len(Line(q)) : Line(q)[i] \in Records
           /\ Line(q) # <<>> => Len(Line(q)) \in Nat \ {0} /\ Line(q)[1] \in Records
           /\ Line(q) = <<>> => Len(Line(q)) = 0
           /\ gpu \notin Slice \/ QueueOf[current.id] # q => Line(q) = m_queues[q]
           /\ gpu \in Slice /\ QueueOf[current.id] = q =>
                 /\ Line(q) = <<current>> \o m_queues[q]
                 /\ Line(q)[1] = current /\ Len(Line(q)) = Len(m_queues[q]) + 1
                 /\ Line(q) # <<>>
                 /\ \A i \in 1..Len(m_queues[q]) : Line(q)[i + 1] = m_queues[q][i]
<1>1. m_queues[q] \in Seq(Records)
  BY DEF TypeOK
<1>2. ASSUME gpu \notin Slice \/ QueueOf[current.id] # q PROVE Line(q) = m_queues[q]
  BY <1>2 DEF Line, ThreadInv
<1>3. ASSUME gpu \in Slice, QueueOf[current.id] = q
      PROVE  /\ Line(q) = <<current>> \o m_queues[q] /\ Line(q) \in Seq(Records)
             /\ Line(q)[1] = current /\ Len(Line(q)) = Len(m_queues[q]) + 1
             /\ Line(q) # <<>>
             /\ \A i \in 1..Len(m_queues[q]) : Line(q)[i + 1] = m_queues[q][i]
  <2>1. current # NoSubmission /\ current \in Records
    BY <1>3, CurrentFacts
  <2>2. Line(q) = <<current>> \o m_queues[q]
    BY <1>3, <2>1 DEF Line
  <2>. QED BY <1>1, <2>1, <2>2, FrontFacts
<1>4. Line(q) \in Seq(Records)
  BY <1>1, <1>2, <1>3
<1>5. Line(q) # <<>> => Len(Line(q)) \in Nat \ {0} /\ Line(q)[1] \in Records
  BY <1>4, ElementFacts
<1>6. /\ Len(Line(q)) \in Nat
      /\ \A i \in 1..Len(Line(q)) : Line(q)[i] \in Records
      /\ Line(q) = <<>> => Len(Line(q)) = 0
  BY <1>4
<1>. QED BY <1>2, <1>3, <1>4, <1>5, <1>6

(* The lines after a step, when the queues and the slice are not touched.  *)
LEMMA LineUnchanged ==
    ASSUME UNCHANGED <<m_queues, current>>
    PROVE  \A q : Line(q)' = Line(q)
  BY DEF Line

(* A pop, a push_front and the end of a poll move a submission between     *)
(* its queue and the GPU thread, or mark it, and keep its place.           *)
LEMMA LineKeeps ==
    ASSUME TypeOK, TypeOK', ThreadInv, ThreadInv', CursorInv, NEW q \in Queues,
           LoopTakesSubmission \/ PollEnds \/ SliceBlocks
    PROVE  Agree(Line(q)', Line(q))
<1>0. m_queues \in [Queues -> Seq(Records)] /\ m_queues[q] \in Seq(Records)
  BY DEF TypeOK
<1>1. CASE LoopTakesSubmission
  <2>1. PICK r \in Runnable : /\ current' = Head(m_queues[r])
                              /\ m_queues' = [m_queues EXCEPT ![r] = Tail(m_queues[r])]
    BY <1>1 DEF LoopTakesSubmission
  <2>2. r \in Queues /\ m_queues[r] # <<>> /\ m_queues[r] \in Seq(Records)
    BY <1>0 DEF Runnable
  <2>3. /\ Head(m_queues[r]) = m_queues[r][1] /\ Len(m_queues[r]) \in Nat \ {0}
        /\ <<Head(m_queues[r])>> \o Tail(m_queues[r]) = m_queues[r]
    BY <2>2
  <2>4. QueueOf[current'.id] = r
    BY <2>1, <2>2, <2>3 DEF CursorInv
  <2>5. gpu = "loop" /\ gpu' = "begin"
    BY <1>1 DEF LoopTakesSubmission, MaySelect
  <2>6. current' # NoSubmission /\ Line(q) = m_queues[q]
    BY <2>5, LineFacts DEF ThreadInv, Slice
  <2>7. Line(q)' = IF r = q THEN <<current'>> \o m_queues'[q] ELSE m_queues'[q]
    BY <2>4, <2>6 DEF Line
  <2>8. Line(q)' = Line(q)
    BY <1>0, <2>1, <2>2, <2>3, <2>6, <2>7
  <2>. QED BY <2>8, Zenon DEF Agree
<1>2. CASE PollEnds
  <2>1. m_queues' = UnblockedFronts /\ gpu = "polling" /\ gpu' = "loop"
    BY <1>2 DEF PollEnds
  <2>2. Line(q) = m_queues[q]
    BY <2>1, LineFacts DEF Slice
  <2>3. Line(q)' = UnblockedFronts[q]
    BY <2>1 DEF Line, ThreadInv, Slice
  <2>4. /\ Len(UnblockedFronts[q]) = Len(m_queues[q])
        /\ \A i \in 1..Len(m_queues[q]) :
              /\ UnblockedFronts[q][i].id = m_queues[q][i].id
              /\ UnblockedFronts[q][i].pos = m_queues[q][i].pos
              /\ UnblockedFronts[q][i].started = m_queues[q][i].started
              /\ UnblockedFronts[q][i].reset = m_queues[q][i].reset
    BY <1>0, UnblockedFacts
  <2>5. Agree(UnblockedFronts[q], m_queues[q])
    BY <2>4, Zenon DEF Agree
  <2>. QED BY <2>2, <2>3, <2>5, Zenon
<1>3. CASE SliceBlocks
  <2>0. PICK k, r : k = QueueOf[current.id] /\ r = [current EXCEPT !.blocked = TRUE]
    OBVIOUS
  <2>1. current \in Records /\ k \in Queues /\ gpu \in Slice /\ gpu' = "loop"
    BY <1>3, <2>0, CurrentFacts DEF SliceBlocks, Slice
  <2>2. /\ r \in Records /\ r.id = current.id /\ r.pos = current.pos
        /\ r.started = current.started /\ r.reset = current.reset
    BY <2>0, <2>1 DEF Records
  <2>3. m_queues' = [m_queues EXCEPT ![k] = <<r>> \o m_queues[k]]
    BY <1>3, <2>0 DEF SliceBlocks, PutBack
  <2>4. Line(q)' = m_queues'[q]
    BY <2>1 DEF Line, ThreadInv, Slice
  <2>5. CASE q = k
    <3>1. Line(q)' = <<r>> \o m_queues[q]
      BY <1>0, <2>3, <2>4, <2>5
    <3>2. Line(q) = <<current>> \o m_queues[q]
      BY <2>0, <2>1, <2>5, LineFacts
    <3>3. /\ Len(<<r>> \o m_queues[q]) = Len(m_queues[q]) + 1 /\ Len(m_queues[q]) \in Nat
          /\ (<<r>> \o m_queues[q])[1] = r
          /\ \A i \in 2..(Len(m_queues[q]) + 1) : (<<r>> \o m_queues[q])[i] = m_queues[q][i - 1]
      BY <1>0, <2>2, FrontFacts
    <3>4. /\ Len(<<current>> \o m_queues[q]) = Len(m_queues[q]) + 1
          /\ (<<current>> \o m_queues[q])[1] = current
          /\ \A i \in 2..(Len(m_queues[q]) + 1) :
                (<<current>> \o m_queues[q])[i] = m_queues[q][i - 1]
      BY <1>0, <2>1, FrontFacts
    <3>. QED BY <2>2, <3>1, <3>2, <3>3, <3>4 DEF Agree
  <2>6. CASE q # k
    <3>1. Line(q)' = Line(q)
      BY <1>0, <2>0, <2>3, <2>4, <2>6, LineFacts
    <3>. QED BY <3>1, Zenon DEF Agree
  <2>. QED BY <2>5, <2>6
<1>. QED BY <1>1, <1>2, <1>3

(* The first slice of a submission and each of its packets change the      *)
(* front of its ring's line.                                               *)
LEMMA LineFront ==
    ASSUME TypeOK, TypeOK', ThreadInv, ThreadInv', CursorInv, NEW q \in Queues,
           BeginSlice \/ Executes
    PROVE  /\ QueueOf[current.id] # q => Line(q)' = Line(q)
           /\ QueueOf[current.id] = q =>
                 /\ Line(q) # <<>> /\ Line(q)[1] = current
                 /\ Line(q)' # <<>> /\ Line(q)'[1] = current'
                 /\ Len(Line(q)') = Len(Line(q)) /\ Len(Line(q)) \in Nat \ {0}
                 /\ \A i \in 2..Len(Line(q)) : Line(q)'[i] = Line(q)[i]
<1>1. /\ gpu \in Slice /\ gpu' \in Slice /\ UNCHANGED m_queues /\ current'.id = current.id
      /\ current \in Records
  <2>1. CASE BeginSlice
    <3>1. gpu \in Slice /\ gpu' \in Slice
      BY <2>1 DEF BeginSlice, Slice
    <3>2. current \in Records
      BY <3>1, CurrentFacts
    <3>. QED BY <2>1, <3>1, <3>2 DEF BeginSlice, queueState, Records
  <2>2. CASE Executes
    BY <2>2, ExecutesFacts, PacketFacts, CurrentFacts DEF Slice
  <2>. QED BY <2>1, <2>2
<1>2. current # NoSubmission /\ current' # NoSubmission /\ current' \in Records
  BY <1>1 DEF ThreadInv, TypeOK
<1>3. ASSUME QueueOf[current.id] # q PROVE Line(q)' = Line(q)
  BY <1>1, <1>2, <1>3 DEF Line
<1>4. ASSUME QueueOf[current.id] = q
      PROVE  /\ Line(q) # <<>> /\ Line(q)[1] = current
             /\ Line(q)' # <<>> /\ Line(q)'[1] = current'
             /\ Len(Line(q)') = Len(Line(q)) /\ Len(Line(q)) \in Nat \ {0}
             /\ \A i \in 2..Len(Line(q)) : Line(q)'[i] = Line(q)[i]
  <2>1. Line(q) = <<current>> \o m_queues[q] /\ Line(q)' = <<current'>> \o m_queues[q]
    BY <1>1, <1>2, <1>4 DEF Line
  <2>2. m_queues[q] \in Seq(Records)
    BY DEF TypeOK
  <2>3. /\ Len(<<current>> \o m_queues[q]) = Len(m_queues[q]) + 1 /\ Len(m_queues[q]) \in Nat
        /\ (<<current>> \o m_queues[q])[1] = current /\ <<current>> \o m_queues[q] # <<>>
        /\ \A i \in 2..(Len(m_queues[q]) + 1) :
              (<<current>> \o m_queues[q])[i] = m_queues[q][i - 1]
    BY <1>1, <2>2, FrontFacts
  <2>4. /\ Len(<<current'>> \o m_queues[q]) = Len(m_queues[q]) + 1
        /\ (<<current'>> \o m_queues[q])[1] = current' /\ <<current'>> \o m_queues[q] # <<>>
        /\ \A i \in 2..(Len(m_queues[q]) + 1) :
              (<<current'>> \o m_queues[q])[i] = m_queues[q][i - 1]
    BY <1>2, <2>2, FrontFacts
  <2>. QED BY <2>1, <2>3, <2>4
<1>. QED BY <1>3, <1>4

(* A completed submission leaves the front of its ring's line.             *)
LEMMA LineDrops ==
    ASSUME TypeOK, TypeOK', ThreadInv, ThreadInv', CursorInv, NEW q \in Queues, SliceCompletes
    PROVE  /\ QueueOf[current.id] # q => Agree(Line(q)', Line(q))
           /\ QueueOf[current.id] = q =>
                 /\ Line(q) # <<>> /\ Line(q)[1] = current
                 /\ Len(Line(q)) \in Nat \ {0} /\ Len(Line(q)') = Len(Line(q)) - 1
                 /\ \A i \in 1..(Len(Line(q)) - 1) :
                       /\ Line(q)'[i].id = Line(q)[i + 1].id
                       /\ Line(q)'[i].pos = Line(q)[i + 1].pos
                       /\ Line(q)'[i].started = Line(q)[i + 1].started
                       /\ Line(q)'[i].reset = Line(q)[i + 1].reset
<1>1. gpu \in Slice /\ m_queues' = UnblockedFronts /\ current' = NoSubmission
  BY DEF SliceCompletes, Slice
<1>2. Line(q)' = UnblockedFronts[q] /\ m_queues \in [Queues -> Seq(Records)]
  BY <1>1 DEF Line, TypeOK
<1>3. /\ Len(UnblockedFronts[q]) = Len(m_queues[q]) /\ Len(m_queues[q]) \in Nat
      /\ \A i \in 1..Len(m_queues[q]) :
            /\ UnblockedFronts[q][i].id = m_queues[q][i].id
            /\ UnblockedFronts[q][i].pos = m_queues[q][i].pos
            /\ UnblockedFronts[q][i].started = m_queues[q][i].started
            /\ UnblockedFronts[q][i].reset = m_queues[q][i].reset
  BY <1>2, UnblockedFacts
<1>4. ASSUME QueueOf[current.id] # q PROVE Agree(Line(q)', Line(q))
  <2>1. Line(q) = m_queues[q]
    BY <1>4, LineFacts
  <2>. QED BY <1>2, <1>3, <2>1 DEF Agree
<1>5. ASSUME QueueOf[current.id] = q
      PROVE  /\ Line(q) # <<>> /\ Line(q)[1] = current /\ Len(Line(q)) = Len(m_queues[q]) + 1
             /\ \A i \in 1..Len(m_queues[q]) : Line(q)[i + 1] = m_queues[q][i]
  BY <1>1, <1>5, LineFacts
<1>. QED BY <1>2, <1>3, <1>4, <1>5

(* A submission is accepted at the end of its ring's line.                 *)
LEMMA LineGrows ==
    ASSUME TypeOK, TypeOK', ThreadInv, ThreadInv', CursorInv, NEW q \in Queues,
           NEW g \in Guests, NEW s \in Submissions, Submit(g, s)
    PROVE  /\ QueueOf[s] # q => Line(q)' = Line(q)
           /\ QueueOf[s] = q =>
                 /\ Len(Line(q)) \in Nat /\ Len(Line(q)') = Len(Line(q)) + 1
                 /\ Line(q)' # <<>>
                 /\ \A i \in 1..Len(Line(q)) : Line(q)'[i] = Line(q)[i]
                 /\ Line(q)'[Len(Line(q)) + 1].id = s
                 /\ Line(q)'[Len(Line(q)) + 1].pos = 0
                 /\ Line(q)'[Len(Line(q)) + 1].started = FALSE
                 /\ Line(q)'[Len(Line(q)) + 1].reset = ResetProcessor(s)
<1>0. PICK r : r = [NoSubmission EXCEPT !.id = s, !.reset = ResetProcessor(s)]
  OBVIOUS
<1>1. r.id = s /\ r.pos = 0 /\ r.started = FALSE /\ r.reset = ResetProcessor(s)
  BY <1>0 DEF NoSubmission
<1>2. r \in Records
  BY <1>0 DEF NoSubmission, Records, ResetProcessor, TypeOK
<1>3. /\ QueueOf[s] \in Queues /\ UNCHANGED current
      /\ m_queues' = [m_queues EXCEPT ![QueueOf[s]] = Append(m_queues[QueueOf[s]], r)]
  BY <1>0, ProgramFacts DEF Submit, Enqueue, slice
<1>4. m_queues \in [Queues -> Seq(Records)] /\ m_queues[q] \in Seq(Records)
  BY DEF TypeOK
<1>5. ASSUME QueueOf[s] # q PROVE Line(q)' = Line(q)
  BY <1>3, <1>4, <1>5 DEF Line
<1>6. ASSUME QueueOf[s] = q PROVE Line(q)' = Append(Line(q), r)
  <2>1. m_queues'[q] = Append(m_queues[q], r)
    BY <1>3, <1>4, <1>6
  <2>2. current # NoSubmission => current \in Records
    BY DEF TypeOK
  <2>3. current \in Records => <<current>> \o Append(m_queues[q], r) = Append(<<current>> \o m_queues[q], r)
    BY <1>2, <1>4
  <2>. QED BY <1>3, <2>1, <2>2, <2>3 DEF Line
<1>7. Line(q) \in Seq(Records)
  BY LineFacts
<1>8. QueueOf[s] = q =>
         /\ Len(Line(q)) \in Nat /\ Len(Line(q)') = Len(Line(q)) + 1
         /\ Line(q)' # <<>>
         /\ \A i \in 1..Len(Line(q)) : Line(q)'[i] = Line(q)[i]
         /\ Line(q)'[Len(Line(q)) + 1] = r
  BY <1>2, <1>6, <1>7, AppendFacts
<1>. QED BY <1>1, <1>5, <1>8

(* A cancellation empties every line.                                      *)
LEMMA LineCanceled ==
    ASSUME TypeOK, ThreadInv, LoopCancels, NEW q \in Queues
    PROVE  /\ Line(q)' = <<>> /\ ~m_accepting' /\ gpu = "loop" /\ current = NoSubmission
           /\ ~Live(q)'
<1>1. /\ gpu = "loop" /\ UNCHANGED <<current, m_accepting, m_stopping>> /\ m_stopping
      /\ m_queues' = [r \in Queues |-> <<>>]
  BY DEF LoopCancels, slice, lifecycle
<1>2. current = NoSubmission /\ ~m_accepting
  BY <1>1 DEF ThreadInv, Slice
<1>. QED BY <1>1, <1>2 DEF Line, Live

(* The steps that leave every line and the history as they are.            *)
Keeps ==
    \/ Quiet \/ LoopTakesSubmission \/ PollEnds \/ SliceBlocks \/ Shutdown
    \/ \E g \in Guests : DoneReturns(g)

(* What they leave, ring by ring.                                          *)
LEMMA KeepsFacts ==
    ASSUME TypeOK, TypeOK', ThreadInv, ThreadInv', CursorInv, Keeps
    PROVE  /\ UNCHANGED <<accepted, executed, completed, frame, context>>
           /\ m_accepting' => m_accepting
           /\ \A q \in Queues : Agree(Line(q)', Line(q))
           /\ \A q \in Queues : Past(q)' = Past(q)
           /\ \A q \in Queues : Live(q)' => Live(q)
<1>0. ASSUME UNCHANGED <<m_queues, current>> PROVE \A q \in Queues : Agree(Line(q)', Line(q))
  BY <1>0, LineUnchanged, Zenon DEF Agree
<1>1. /\ UNCHANGED <<accepted, executed, completed, frame, context>>
      /\ m_accepting' => m_accepting
      /\ \A q \in Queues : Agree(Line(q)', Line(q))
  <2>1. CASE Quiet
    BY <1>0, <2>1, QuietFrame DEF core
  <2>2. CASE LoopTakesSubmission \/ PollEnds \/ SliceBlocks
    <3>1. \A q \in Queues : Agree(Line(q)', Line(q))
      BY <2>2, LineKeeps
    <3>. QED BY <2>2, <3>1 DEF LoopTakesSubmission, PollEnds, SliceBlocks, history, lifecycle
  <2>3. CASE Shutdown
    BY <1>0, <2>3 DEF Shutdown, queueState, slice, history
  <2>4. ASSUME NEW g \in Guests, DoneReturns(g)
        PROVE  UNCHANGED <<m_queues, current, accepted, executed, completed, frame, context,
                           m_accepting>>
    BY <2>4 DEF DoneReturns, queueState, slice, history, lifecycle
  <2>. QED BY <1>0, <2>1, <2>2, <2>3, <2>4 DEF Keeps
<1>2. \A q \in Queues : Past(q)' = Past(q)
  BY <1>1 DEF Past, Agree
<1>3. \A q \in Queues : Live(q)' => Live(q)
  BY <1>1 DEF Live, Agree
<1>. QED BY <1>1, <1>2, <1>3

(* The steps by what they do to the lines.                                 *)
LEMMA LineKinds ==
    ASSUME Next
    PROVE  \/ Keeps \/ BeginSlice \/ Executes \/ SliceCompletes \/ LoopCancels
           \/ \E g \in Guests, s \in Submissions : Submit(g, s)
  BY StepKinds, Zenon DEF Keeps

(* What acceptance does to the history.                                    *)
LEMMA SubmitFacts ==
    ASSUME TypeOK, NEW g \in Guests, NEW s \in Submissions, Submit(g, s),
           NEW r, r = QueueOf[s], NEW n, n = Len(accepted[r])
    PROVE  /\ r \in Queues /\ n \in Nat
           /\ \A i \in 1..n : accepted[r][i] # s
           /\ Len(accepted'[r]) = n + 1
           /\ \A i \in 1..n : accepted'[r][i] = accepted[r][i]
           /\ accepted'[r][n + 1] = s
           /\ \A q \in Queues : q # r => accepted'[q] = accepted[q]
<1>1. /\ accepted' = [accepted EXCEPT ![r] = Append(accepted[r], s)]
      /\ s \notin Accepted
  BY DEF Submit, Enqueue
<1>2. r \in Queues /\ accepted \in [Queues -> Seq(Submissions)]
  BY ProgramFacts DEF TypeOK
<1>3. accepted[r] \in Seq(Submissions) /\ DOMAIN accepted[r] = 1..n
  BY <1>2
<1>4. \A i \in 1..n : accepted[r][i] # s
  BY <1>1, <1>3 DEF Accepted
<1>5. /\ Len(Append(accepted[r], s)) = n + 1 /\ n \in Nat
      /\ \A i \in 1..n : Append(accepted[r], s)[i] = accepted[r][i]
      /\ Append(accepted[r], s)[n + 1] = s
  BY <1>3, AppendFacts
<1>6. accepted'[r] = Append(accepted[r], s)
      /\ \A q \in Queues : q # r => accepted'[q] = accepted[q]
  BY <1>1, <1>2
<1>. QED BY <1>1, <1>2, <1>4, <1>5, <1>6

(* What it does to the rest of the core.                                   *)
LEMMA SubmitFrame ==
    ASSUME NEW g \in Guests, NEW s \in Submissions, Submit(g, s)
    PROVE  /\ m_accepting /\ m_accepting'
           /\ frame' = [frame EXCEPT ![s] = m_done_num]
           /\ m_graphics_done' = (m_graphics_done /\ QueueOf[s] # 0)
           /\ m_submission_count' = m_submission_count + 1
           /\ UNCHANGED <<current, executed, completed, context, m_done_num,
                          m_canceled_submissions>>
  BY Zenon DEF Submit, Enqueue, slice, lifecycle

(* What a ring executes it has accepted.                                   *)
LEMMA CurrentAccepted ==
    ASSUME TypeOK, ThreadInv, LineInv, gpu \in Slice, NEW r, r = QueueOf[current.id]
    PROVE  /\ r \in Queues /\ Live(r) /\ Past(r) \in Nat
           /\ Line(r)[1] = current /\ Len(Line(r)) \in Nat \ {0}
           /\ Len(accepted[r]) \in Nat /\ Past(r) = Len(accepted[r]) - Len(Line(r))
           /\ Past(r) + 1 \in 1..Len(accepted[r]) /\ accepted[r][Past(r) + 1] = current.id
<1>1. r \in Queues /\ current \in Records
  BY CurrentFacts
<1>2. Line(r) # <<>> /\ Line(r)[1] = current
  BY <1>1, LineFacts
<1>3. Len(Line(r)) \in Nat \ {0}
  BY <1>1, <1>2, LineFacts
<1>4. Live(r)
  BY <1>3 DEF Live
<1>5. accepted[r] \in Seq(Submissions)
  BY <1>1 DEF TypeOK
<1>6. Len(accepted[r]) \in Nat
  BY <1>5
<1>7. Past(r) >= 0 /\ Line(r)[1].id = accepted[r][Past(r) + 1]
  BY <1>1, <1>3, <1>4 DEF LineInv, LineOK
<1>8. Past(r) = Len(accepted[r]) - Len(Line(r))
  BY DEF Past
<1>9. Past(r) \in Nat /\ Past(r) + 1 \in 1..Len(accepted[r])
  <2>1. PICK a \in Nat, m \in Nat \ {0} : a = Len(accepted[r]) /\ m = Len(Line(r))
    BY <1>3, <1>6
  <2>2. PICK p : p = Past(r)
    OBVIOUS
  <2>3. p = a - m /\ p >= 0
    BY <1>7, <1>8, <2>1, <2>2
  <2>4. p \in Nat /\ p + 1 \in 1..a
    BY <2>3
  <2>. QED BY <2>1, <2>2, <2>4
<1>10. accepted[r][Past(r) + 1] = current.id
  BY <1>2, <1>7
<1>. QED BY <1>1, <1>2, <1>3, <1>4, <1>6, <1>8, <1>9, <1>10, Zenon

(* Every step keeps the history of acceptance and what was executed of it. *)
LEMMA AcceptedStep ==
    ASSUME TypeOK, TypeOK', ThreadInv, ThreadInv', CursorInv, LineInv, AcceptedInv, Next
    PROVE  AcceptedInv'
<1>0. ASSUME UNCHANGED <<accepted, executed>> PROVE AcceptedInv'
  BY <1>0 DEF AcceptedInv
<1>1. CASE Keeps
  BY <1>0, <1>1, KeepsFacts
<1>2. CASE BeginSlice \/ SliceCompletes \/ LoopCancels
  BY <1>0, <1>2, Zenon DEF BeginSlice, SliceCompletes, LoopCancels, history
<1>3. CASE Executes
  <2>0. PICK r, n : r = QueueOf[current.id] /\ n = Len(executed[r])
    OBVIOUS
  <2>1. /\ r \in Queues /\ n \in Nat /\ Len(executed'[r]) = n + 1
        /\ executed'[r][n + 1] = <<current.id, current.pos + 1>>
        /\ \A i \in 1..n : executed'[r][i] = executed[r][i]
        /\ \A q \in Queues : q # r => executed'[q] = executed[q]
    BY <1>3, <2>0, HistoryGrows
  <2>2. UNCHANGED accepted /\ gpu \in Slice
        /\ current.pos + 1 \in 1..Len(Program[current.id])
    BY <1>3, ExecutesFacts, PacketFacts DEF Slice
  <2>3. \E k \in 1..Len(accepted[r]) : accepted[r][k] = current.id
    BY <2>0, <2>2, CurrentAccepted
  <2>4. ASSUME NEW q \in Queues, NEW i \in 1..Len(executed'[q])
        PROVE  /\ \E k \in 1..Len(accepted[q]) : accepted[q][k] = executed'[q][i][1]
               /\ executed'[q][i][2] \in 1..Len(Program[executed'[q][i][1]])
    <3>1. CASE q = r /\ i = n + 1
      BY <2>1, <2>2, <2>3, <3>1
    <3>2. CASE ~(q = r /\ i = n + 1)
      <4>1. i \in 1..Len(executed[q]) /\ executed'[q][i] = executed[q][i]
        BY <2>0, <2>1, <3>2
      <4>. QED BY <4>1 DEF AcceptedInv
    <3>. QED BY <3>1, <3>2
  <2>. QED BY <2>2, <2>4 DEF AcceptedInv
<1>4. ASSUME NEW g \in Guests, NEW s \in Submissions, Submit(g, s) PROVE AcceptedInv'
  <2>0. PICK r, n : r = QueueOf[s] /\ n = Len(accepted[r])
    OBVIOUS
  <2>1. /\ r \in Queues /\ n \in Nat
        /\ \A i \in 1..n : accepted[r][i] # s
        /\ Len(accepted'[r]) = n + 1
        /\ \A i \in 1..n : accepted'[r][i] = accepted[r][i]
        /\ accepted'[r][n + 1] = s
        /\ \A q \in Queues : q # r => accepted'[q] = accepted[q]
    BY <1>4, <2>0, SubmitFacts
  <2>2. \A q \in Queues : \A i \in 1..Len(accepted'[q]) : QueueOf[accepted'[q][i]] = q
    <3> SUFFICES ASSUME NEW q \in Queues, NEW i \in 1..Len(accepted'[q])
                 PROVE  QueueOf[accepted'[q][i]] = q
      OBVIOUS
    <3>1. CASE q = r /\ i = n + 1
      BY <2>0, <2>1, <3>1
    <3>2. CASE ~(q = r /\ i = n + 1)
      <4>1. i \in 1..Len(accepted[q]) /\ accepted'[q][i] = accepted[q][i]
        BY <2>0, <2>1, <3>2
      <4>. QED BY <4>1 DEF AcceptedInv
    <3>. QED BY <3>1, <3>2
  <2>3. \A q \in Queues : \A i, j \in 1..Len(accepted'[q]) :
            accepted'[q][i] = accepted'[q][j] => i = j
    <3>1. \A i, j \in 1..(n + 1) : accepted'[r][i] = accepted'[r][j] => i = j
      <4> TAKE i, j \in 1..(n + 1)
      <4>1. CASE i \in 1..n /\ j \in 1..n
        BY <2>0, <2>1, <4>1 DEF AcceptedInv
      <4>2. CASE i = n + 1 \/ j = n + 1
        BY <2>1, <4>2
      <4>. QED BY <2>1, <4>1, <4>2
    <3>. QED BY <2>1, <3>1 DEF AcceptedInv
  <2>4. \A q \in Queues : \A i \in 1..Len(executed[q]) :
            \E k \in 1..Len(accepted'[q]) : accepted'[q][k] = executed[q][i][1]
    <3> SUFFICES ASSUME NEW q \in Queues, NEW i \in 1..Len(executed[q])
                 PROVE  \E k \in 1..Len(accepted'[q]) : accepted'[q][k] = executed[q][i][1]
      OBVIOUS
    <3>1. PICK k \in 1..Len(accepted[q]) : accepted[q][k] = executed[q][i][1]
      BY DEF AcceptedInv
    <3>2. k \in 1..Len(accepted'[q]) /\ accepted'[q][k] = accepted[q][k]
      BY <2>0, <2>1, SMTT(20)
    <3>. QED BY <3>1, <3>2
  <2>5. executed' = executed
    BY <1>4, SubmitFrame
  <2>6. \A q \in Queues : \A i \in 1..Len(executed[q]) :
            executed[q][i][2] \in 1..Len(Program[executed[q][i][1]])
    BY DEF AcceptedInv
  <2>7. \A q \in Queues : \A i \in 1..Len(executed'[q]) :
            /\ \E k \in 1..Len(accepted'[q]) : accepted'[q][k] = executed'[q][i][1]
            /\ executed'[q][i][2] \in 1..Len(Program[executed'[q][i][1]])
    BY <2>4, <2>5, <2>6, Zenon
  <2>. QED BY <2>2, <2>3, <2>7, Zenon DEF AcceptedInv
<1>. QED BY <1>1, <1>2, <1>3, <1>4, LineKinds

(* Every step keeps each line the end of what its ring accepted.           *)
LEMMA LineStep ==
    ASSUME TypeOK, TypeOK', ThreadInv, ThreadInv', CursorInv, LineInv, Next
    PROVE  LineInv'
<1> SUFFICES ASSUME NEW q \in Queues PROVE LineOK(q)'
  BY DEF LineInv
<1>0. LineOK(q)
  BY DEF LineInv
<1>1. PICK a \in Nat, m \in Nat : a = Len(accepted[q]) /\ m = Len(Line(q))
  <2>1. accepted[q] \in Seq(Submissions) /\ Len(Line(q)) \in Nat
    BY LineFacts DEF TypeOK
  <2>. QED BY <2>1
<1>2. Past(q) = a - m
  BY <1>1 DEF Past
<1>3. CASE Keeps
  <2>1. /\ UNCHANGED accepted /\ Agree(Line(q)', Line(q))
        /\ Past(q)' = Past(q) /\ (Live(q)' => Live(q))
    BY <1>3, KeepsFacts
  <2>. QED BY <1>0, <2>1 DEF LineOK, Agree
<1>4. CASE BeginSlice \/ Executes
  <2>1. UNCHANGED <<accepted, m_accepting>>
    <3>1. CASE BeginSlice
      BY <3>1, Zenon DEF BeginSlice, history, lifecycle
    <3>2. CASE Executes
      BY <3>2, ExecutesFacts
    <3>. QED BY <1>4, <3>1, <3>2
  <2>2. CASE QueueOf[current.id] # q
    <3>1. Line(q)' = Line(q)
      BY <1>4, <2>2, LineFront
    <3>. QED BY <1>0, <2>1, <3>1 DEF LineOK, Past, Live
  <2>3. CASE QueueOf[current.id] = q
    <3>1. /\ Line(q)[1] = current /\ Line(q)'[1] = current' /\ Len(Line(q)') = m
          /\ m > 0 /\ \A i \in 2..m : Line(q)'[i] = Line(q)[i]
      BY <1>1, <1>4, <2>3, LineFront
    <3>2. current'.id = current.id
      <4>1. CASE BeginSlice
        <5>1. current \in Records
          BY <4>1, CurrentFacts DEF BeginSlice, Slice
        <5>. QED BY <4>1, <5>1 DEF BeginSlice, Records
      <4>2. CASE Executes
        BY <4>2, ExecutesFacts
      <4>. QED BY <1>4, <4>1, <4>2
    <3>3. Past(q)' = Past(q)
      BY <1>1, <2>1, <3>1 DEF Past
    <3>4. Live(q)
      BY <1>1, <3>1 DEF Live
    <3>5. \A i \in 1..m : Line(q)'[i].id = Line(q)[i].id
      BY <3>1, <3>2
    <3>. QED BY <1>0, <1>1, <2>1, <3>1, <3>3, <3>4, <3>5 DEF LineOK
  <2>. QED BY <2>2, <2>3
<1>5. CASE SliceCompletes
  <2>1. UNCHANGED <<accepted, m_accepting>>
    BY <1>5, Zenon DEF SliceCompletes, lifecycle
  <2>2. CASE QueueOf[current.id] # q
    <3>1. Agree(Line(q)', Line(q))
      BY <1>5, <2>2, LineDrops
    <3>2. Past(q)' = Past(q) /\ (Live(q)' => Live(q))
      BY <2>1, <3>1 DEF Past, Live, Agree
    <3>. QED BY <1>0, <2>1, <3>1, <3>2 DEF LineOK, Agree
  <2>3. CASE QueueOf[current.id] = q
    <3>1. /\ m > 0 /\ Len(Line(q)') = m - 1
          /\ \A i \in 1..(m - 1) : /\ Line(q)'[i].id = Line(q)[i + 1].id
                                   /\ Line(q)'[i].started = Line(q)[i + 1].started
      <4>1. /\ Len(Line(q)) \in Nat \ {0} /\ Len(Line(q)') = Len(Line(q)) - 1
            /\ \A i \in 1..(Len(Line(q)) - 1) :
                  /\ Line(q)'[i].id = Line(q)[i + 1].id
                  /\ Line(q)'[i].started = Line(q)[i + 1].started
        BY <1>5, <2>3, LineDrops
      <4>. QED BY <1>1, <4>1
    <3>2. Past(q)' = Past(q) + 1
      BY <1>1, <1>2, <2>1, <3>1 DEF Past
    <3>3. Live(q)
      BY <1>1, <3>1 DEF Live
    <3>4. /\ a - m >= 0
          /\ \A i \in 1..m : Line(q)[i].id = accepted[q][(a - m) + i]
          /\ \A i \in 2..m : ~Line(q)[i].started
      BY <1>0, <1>1, <1>2, <3>3 DEF LineOK
    <3>5. \A i \in 1..(m - 1) : Line(q)'[i].id = accepted[q][((a - m) + 1) + i]
      <4> TAKE i \in 1..(m - 1)
      <4>1. i + 1 \in 1..m /\ (a - m) + (i + 1) = ((a - m) + 1) + i
        OBVIOUS
      <4>. QED BY <3>1, <3>4, <4>1
    <3>6. \A i \in 2..(m - 1) : ~Line(q)'[i].started
      <4> TAKE i \in 2..(m - 1)
      <4>1. i \in 1..(m - 1) /\ i + 1 \in 2..m
        OBVIOUS
      <4>2. Line(q)'[i].started = Line(q)[i + 1].started /\ ~Line(q)[i + 1].started
        BY <3>1, <3>4, <4>1
      <4>. QED BY <4>2, Zenon
    <3>. QED BY <1>2, <2>1, <3>1, <3>2, <3>4, <3>5, <3>6 DEF LineOK
  <2>. QED BY <2>2, <2>3
<1>6. CASE LoopCancels
  BY <1>6, LineCanceled DEF LineOK
<1>7. ASSUME NEW g \in Guests, NEW s \in Submissions, Submit(g, s) PROVE LineOK(q)'
  <2>0. Live(q)
    BY <1>7, SubmitFrame DEF Live
  <2>1. /\ a - m >= 0
        /\ \A i \in 1..m : Line(q)[i].id = accepted[q][(a - m) + i]
        /\ \A i \in 2..m : ~Line(q)[i].started
    BY <1>0, <1>1, <1>2, <2>0 DEF LineOK
  <2>2. CASE QueueOf[s] # q
    <3>1. Line(q)' = Line(q) /\ accepted'[q] = accepted[q]
      <4>1. Line(q)' = Line(q)
        BY <1>7, <2>2, LineGrows
      <4>2. PICK r, n : r = QueueOf[s] /\ n = Len(accepted[r])
        OBVIOUS
      <4>3. accepted'[q] = accepted[q]
        BY <1>7, <2>2, <4>2, SubmitFacts
      <4>. QED BY <4>1, <4>3
    <3>. QED BY <1>1, <1>2, <2>1, <3>1 DEF LineOK, Past
  <2>3. CASE QueueOf[s] = q
    <3>0. q = QueueOf[s] /\ a = Len(accepted[q])
      BY <1>1, <2>3
    <3>1. /\ Len(accepted'[q]) = a + 1
          /\ \A i \in 1..a : accepted'[q][i] = accepted[q][i]
          /\ accepted'[q][a + 1] = s
      BY <1>7, <3>0, SubmitFacts
    <3>2. /\ Len(Line(q)') = m + 1
          /\ \A i \in 1..m : Line(q)'[i] = Line(q)[i]
          /\ Line(q)'[m + 1].id = s /\ Line(q)'[m + 1].started = FALSE
      BY <1>1, <1>7, <2>3, LineGrows, ZenonT(30)
    <3>3. Past(q)' = a - m
      BY <3>1, <3>2 DEF Past
    <3>4. \A i \in 1..(m + 1) : Line(q)'[i].id = accepted'[q][(a - m) + i]
      <4> TAKE i \in 1..(m + 1)
      <4>1. CASE i = m + 1
        <5>1. (a - m) + i = a + 1
          BY <4>1
        <5>. QED BY <3>1, <3>2, <4>1, <5>1
      <4>2. CASE i # m + 1
        <5>1. i \in 1..m /\ (a - m) + i \in 1..a
          BY <2>1, <4>2
        <5>. QED BY <2>1, <3>1, <3>2, <5>1
      <4>. QED BY <4>1, <4>2
    <3>5. \A i \in 2..(m + 1) : ~Line(q)'[i].started
      <4> TAKE i \in 2..(m + 1)
      <4>1. CASE i = m + 1
        BY <3>2, <4>1
      <4>2. CASE i # m + 1
        BY <2>1, <3>2, <4>2
      <4>. QED BY <4>1, <4>2
    <3>. QED BY <2>1, <3>2, <3>3, <3>4, <3>5 DEF LineOK
  <2>. QED BY <2>2, <2>3
<1>. QED BY <1>3, <1>4, <1>5, <1>6, <1>7, LineKinds

(* The cursors of a line.                                                  *)
LEMMA LineCursor ==
    ASSUME TypeOK, ThreadInv, CursorInv, NEW q \in Queues, NEW i \in 1..Len(Line(q))
    PROVE  /\ Line(q)[i].pos \in Nat /\ Line(q)[i].id \in Submissions
           /\ ~Line(q)[i].started => Line(q)[i].pos = 0
           /\ QueueOf[Line(q)[i].id] = q
<1>1. Line(q)[i] \in Records /\ Len(Line(q)) \in Nat
  BY LineFacts
<1>2. Line(q)[i].pos \in Nat /\ Line(q)[i].id \in Submissions
  BY <1>1 DEF Records
<1>3. CASE gpu \notin Slice \/ QueueOf[current.id] # q
  <2>1. Line(q) = m_queues[q]
    BY <1>3, LineFacts
  <2>. QED BY <1>2, <2>1 DEF CursorInv, CursorOK
<1>4. CASE gpu \in Slice /\ QueueOf[current.id] = q
  <2>1. /\ Line(q)[1] = current /\ Len(Line(q)) = Len(m_queues[q]) + 1
        /\ \A j \in 1..Len(m_queues[q]) : Line(q)[j + 1] = m_queues[q][j]
    BY <1>4, LineFacts
  <2>2. CASE i = 1
    <3>1. current # NoSubmission
      BY <1>4, CurrentFacts
    <3>. QED BY <1>2, <1>4, <2>1, <2>2, <3>1 DEF CursorInv, CursorOK
  <2>3. CASE i # 1
    <3>1. Len(m_queues[q]) \in Nat
      BY DEF TypeOK
    <3>2. PICK j \in 1..Len(m_queues[q]) : i = j + 1
      <4>1. i - 1 \in 1..Len(m_queues[q]) /\ i = (i - 1) + 1
        BY <2>1, <2>3, <3>1
      <4>. QED BY <4>1
    <3>3. Line(q)[i] = m_queues[q][j]
      BY <2>1, <3>2
    <3>4. /\ ~m_queues[q][j].started => m_queues[q][j].pos = 0
          /\ QueueOf[m_queues[q][j].id] = q
      BY DEF CursorInv, CursorOK
    <3>. QED BY <1>2, <3>3, <3>4, Zenon
  <2>. QED BY <2>2, <2>3
<1>. QED BY <1>3, <1>4

(* Every step keeps the last executed packet before the cursor.            *)
LEMMA ExecutedStep ==
    ASSUME TypeOK, TypeOK', ThreadInv, ThreadInv', CursorInv, LineInv, AcceptedInv,
           ExecutedInv, Next
    PROVE  ExecutedInv'
<1> SUFFICES ASSUME NEW q \in Queues PROVE ExecutedOK(q)'
  BY DEF ExecutedInv
<1>0. ExecutedOK(q) /\ LineOK(q)
  BY DEF ExecutedInv, LineInv
<1>1. PICK a \in Nat, m \in Nat, e \in Nat :
          a = Len(accepted[q]) /\ m = Len(Line(q)) /\ e = Len(executed[q])
  <2>1. /\ accepted[q] \in Seq(Submissions) /\ Len(Line(q)) \in Nat
        /\ executed[q] \in Seq(Submissions \X Nat)
    BY LineFacts DEF TypeOK
  <2>. QED BY <2>1
<1>2. Past(q) = a - m
  BY <1>1 DEF Past
<1>3. ASSUME executed'[q] = executed[q], accepted'[q] = accepted[q], Agree(Line(q)', Line(q)),
             Live(q)' => Live(q)
      PROVE  ExecutedOK(q)'
  <2>1. Past(q)' = Past(q) /\ LastExecuted(q)' = LastExecuted(q)
    BY <1>3 DEF Past, Agree, LastExecuted
  <2>2. Len(Line(q)') = m
        /\ (m > 0 => Line(q)'[1].pos = Line(q)[1].pos /\ Line(q)'[1].id = Line(q)[1].id)
    BY <1>1, <1>3 DEF Agree
  <2>. QED BY <1>0, <1>1, <1>3, <2>1, <2>2 DEF ExecutedOK
<1>4. CASE Keeps
  BY <1>3, <1>4, KeepsFacts
<1>5. CASE BeginSlice
  <2>1. UNCHANGED <<accepted, m_accepting, executed>>
    BY <1>5, Zenon DEF BeginSlice, history, lifecycle
  <2>2. CASE QueueOf[current.id] # q
    <3>1. Line(q)' = Line(q)
      BY <1>5, <2>2, LineFront
    <3>2. Agree(Line(q)', Line(q)) /\ (Live(q)' => Live(q))
      BY <2>1, <3>1, Zenon DEF Agree, Live
    <3>. QED BY <1>3, <2>1, <3>2
  <2>3. CASE QueueOf[current.id] = q
    <3>1. /\ Line(q)[1] = current /\ Line(q)'[1] = current' /\ Len(Line(q)') = m
      BY <1>1, <1>5, <2>3, LineFront
    <3>2. current'.id = current.id /\ current'.pos = current.pos
      <4>1. current \in Records
        BY <1>5, CurrentFacts DEF BeginSlice, Slice
      <4>. QED BY <1>5, <4>1 DEF BeginSlice, Records
    <3>3. Past(q)' = Past(q) /\ LastExecuted(q)' = LastExecuted(q)
      BY <1>1, <2>1, <3>1 DEF Past, LastExecuted
    <3>4. Live(q)' => Live(q)
      BY <1>1, <2>1, <3>1 DEF Live
    <3>. QED BY <1>0, <1>1, <2>1, <3>1, <3>2, <3>3, <3>4 DEF ExecutedOK
  <2>. QED BY <2>2, <2>3
<1>6. CASE Executes
  <2>1. /\ UNCHANGED <<accepted, m_accepting>> /\ current'.id = current.id
        /\ current'.pos = current.pos + 1 /\ gpu \in Slice
    BY <1>6, ExecutesFacts, PacketFacts DEF Slice
  <2>2. CASE QueueOf[current.id] # q
    <3>1. Line(q)' = Line(q)
      BY <1>6, <2>2, LineFront
    <3>2. Agree(Line(q)', Line(q)) /\ (Live(q)' => Live(q))
      BY <2>1, <3>1, Zenon DEF Agree, Live
    <3>3. PICK r, n : r = QueueOf[current.id] /\ n = Len(executed[r])
      OBVIOUS
    <3>4. executed'[q] = executed[q]
      BY <1>6, <2>2, <3>3, HistoryGrows
    <3>. QED BY <1>3, <2>1, <3>2, <3>4
  <2>3. CASE QueueOf[current.id] = q
    <3>0. q = QueueOf[current.id] /\ e = Len(executed[q]) /\ current.pos \in Nat
      BY <1>1, <2>1, <2>3, CurrentFacts
    <3>1. /\ Line(q)[1] = current /\ Line(q)'[1] = current' /\ Len(Line(q)') = m /\ m > 0
      BY <1>1, <1>6, <2>3, LineFront
    <3>2. /\ Len(executed'[q]) = e + 1
          /\ executed'[q][e + 1] = <<current.id, current.pos + 1>>
          /\ \A i \in 1..e : executed'[q][i] = executed[q][i]
      BY <1>6, <3>0, HistoryGrows
    <3>3. Past(q)' = Past(q) /\ Live(q)
      BY <1>1, <2>1, <3>1 DEF Past, Live
    <3>4. LastExecuted(q)' = <<Line(q)'[1].id, Line(q)'[1].pos>>
      BY <2>1, <3>1, <3>2 DEF LastExecuted
    <3>5. Line(q)'[1].pos > 0
      BY <2>1, <3>0, <3>1
    <3>6. ASSUME NEW i \in 1..(e + 1)
          PROVE  \/ \E k \in 1..Past(q) : executed'[q][i][1] = accepted[q][k]
                 \/ /\ executed'[q][i][1] = Line(q)'[1].id
                    /\ executed'[q][i][2] <= Line(q)'[1].pos
      <4>1. CASE i = e + 1
        <5>1. PICK p \in Nat : p = current.pos
          BY <3>0
        <5>2. executed'[q][i][1] = current.id /\ executed'[q][i][2] = p + 1
          BY <3>2, <4>1, <5>1
        <5>3. Line(q)'[1].id = current.id /\ Line(q)'[1].pos = p + 1
          BY <2>1, <3>1, <5>1
        <5>. QED BY <5>2, <5>3
      <4>2. CASE i # e + 1
        <5>1. i \in 1..e /\ executed'[q][i] = executed[q][i]
          BY <3>2, <4>2
        <5>2. \/ \E k \in 1..Past(q) : executed[q][i][1] = accepted[q][k]
              \/ /\ executed[q][i][1] = Line(q)[1].id
                 /\ executed[q][i][2] <= Line(q)[1].pos
          BY <1>0, <1>1, <3>3, <5>1 DEF ExecutedOK
        <5>3. executed[q][i][2] \in Nat
          <6>1. executed[q][i][2] \in 1..Len(Program[executed[q][i][1]])
            BY <1>1, <5>1 DEF AcceptedInv
          <6>. QED BY <6>1
        <5>. QED BY <2>1, <3>0, <3>1, <5>1, <5>2, <5>3, SMTT(20)
      <4>. QED BY <4>1, <4>2
    <3>. QED BY <2>1, <3>1, <3>2, <3>3, <3>4, <3>5, <3>6 DEF ExecutedOK
  <2>. QED BY <2>2, <2>3
<1>7. CASE SliceCompletes
  <2>1. UNCHANGED <<accepted, m_accepting, executed>> /\ gpu \in Slice /\ complete
    BY <1>7 DEF SliceCompletes, lifecycle, Slice
  <2>2. CASE QueueOf[current.id] # q
    <3>1. Agree(Line(q)', Line(q))
      BY <1>7, <2>2, LineDrops
    <3>2. Live(q)' => Live(q)
      BY <2>1, <3>1 DEF Live, Agree
    <3>. QED BY <1>3, <2>1, <3>1, <3>2
  <2>3. CASE QueueOf[current.id] = q
    <3>1. /\ Line(q)[1] = current /\ m > 0 /\ Len(Line(q)') = m - 1
      BY <1>1, <1>7, <2>3, LineDrops
    <3>2. /\ Live(q) /\ a - m >= 0 /\ (a - m) + 1 \in 1..a
          /\ accepted[q][(a - m) + 1] = current.id
      <4>1. q = QueueOf[current.id]
        BY <2>3
      <4>2. /\ Live(q) /\ Past(q) \in Nat /\ Past(q) + 1 \in 1..Len(accepted[q])
            /\ accepted[q][Past(q) + 1] = current.id
        BY <2>1, <4>1, CurrentAccepted
      <4>. QED BY <1>1, <1>2, <4>2
    <3>3. Past(q)' = (a - m) + 1
      BY <1>1, <2>1, <3>1 DEF Past
    <3>4. current.pos = Len(Program[current.id]) /\ current.pos \in Nat /\ current.pos > 0
      <4>1. current.id \in Submissions /\ current.pos \in Nat
        BY <2>1, CurrentFacts
      <4>2. Len(Program[current.id]) \in Nat \ {0}
        BY <4>1, ProgramFacts
      <4>. QED BY <2>1, <4>1, <4>2 DEF complete
    <3>5. e > 0 /\ LastExecuted(q) = <<current.id, Len(Program[current.id])>>
      BY <1>0, <1>1, <3>1, <3>2, <3>4 DEF ExecutedOK
    <3>6. m - 1 > 0 => Line(q)'[1].pos = 0
      <4> SUFFICES ASSUME m - 1 > 0 PROVE Line(q)'[1].pos = 0
        OBVIOUS
      <4>1. 1 \in 1..(m - 1) /\ 2 \in 2..m /\ 2 \in 1..m
        OBVIOUS
      <4>2. Line(q)'[1].pos = Line(q)[2].pos
        <5>1. \A i \in 1..(Len(Line(q)) - 1) : Line(q)'[i].pos = Line(q)[i + 1].pos
          BY <1>7, <2>3, LineDrops
        <5>2. Line(q)'[1].pos = Line(q)[1 + 1].pos
          BY <1>1, <4>1, <5>1
        <5>. QED BY <5>2
      <4>3. ~Line(q)[2].started
        BY <1>0, <1>1, <3>2, <4>1 DEF LineOK
      <4>. QED BY <1>1, <4>1, <4>2, <4>3, LineCursor
    <3>7. \A i \in 1..e : \E k \in 1..((a - m) + 1) : executed[q][i][1] = accepted[q][k]
      <4> TAKE i \in 1..e
      <4>1. \/ \E k \in 1..(a - m) : executed[q][i][1] = accepted[q][k]
            \/ executed[q][i][1] = Line(q)[1].id
        BY <1>0, <1>1, <1>2, <3>2 DEF ExecutedOK
      <4>2. \A k \in 1..(a - m) : k \in 1..((a - m) + 1)
        OBVIOUS
      <4>3. (a - m) + 1 \in 1..((a - m) + 1)
        BY <3>2
      <4>. QED BY <3>1, <3>2, <4>1, <4>2, <4>3
    <3>8. LastExecuted(q)' = LastExecuted(q)
      BY <2>1 DEF LastExecuted
    <3>9. ~(Len(Line(q)') > 0 /\ Line(q)'[1].pos > 0) /\ Past(q)' > 0
      BY <3>1, <3>2, <3>3, <3>6
    <3>. QED BY <1>1, <2>1, <3>2, <3>3, <3>5, <3>7, <3>8, <3>9 DEF ExecutedOK
  <2>. QED BY <2>2, <2>3
<1>8. CASE LoopCancels
  BY <1>8, LineCanceled DEF ExecutedOK
<1>9. ASSUME NEW g \in Guests, NEW s \in Submissions, Submit(g, s) PROVE ExecutedOK(q)'
  <2>1. Live(q) /\ executed'[q] = executed[q]
    BY <1>9, SubmitFrame DEF Live
  <2>2. CASE QueueOf[s] # q
    <3>1. Line(q)' = Line(q)
      BY <1>9, <2>2, LineGrows
    <3>2. PICK r, n : r = QueueOf[s] /\ n = Len(accepted[r])
      OBVIOUS
    <3>3. accepted'[q] = accepted[q]
      BY <1>9, <2>2, <3>2, SubmitFacts
    <3>4. Agree(Line(q)', Line(q))
      BY <3>1, Zenon DEF Agree
    <3>. QED BY <1>3, <2>1, <3>3, <3>4
  <2>3. CASE QueueOf[s] = q
    <3>0. q = QueueOf[s] /\ a = Len(accepted[q])
      BY <1>1, <2>3
    <3>1. /\ Len(accepted'[q]) = a + 1
          /\ \A i \in 1..a : accepted'[q][i] = accepted[q][i]
      BY <1>9, <3>0, SubmitFacts
    <3>2. /\ Len(Line(q)') = m + 1
          /\ \A i \in 1..m : Line(q)'[i] = Line(q)[i]
          /\ Line(q)'[m + 1].pos = 0
      BY <1>1, <1>9, <2>3, LineGrows
    <3>3. Past(q)' = a - m /\ LastExecuted(q)' = LastExecuted(q) /\ a - m >= 0
      BY <1>0, <1>2, <2>1, <3>1, <3>2 DEF Past, LastExecuted, LineOK
    <3>4. \A k \in 1..(a - m) : accepted'[q][k] = accepted[q][k]
      BY <3>1, <3>3
    <3>5. /\ m > 0 /\ Line(q)[1].pos > 0 => e > 0 /\ LastExecuted(q) = <<Line(q)[1].id, Line(q)[1].pos>>
          /\ m = 0 \/ Line(q)[1].pos = 0 =>
                /\ a - m = 0 => e = 0
                /\ a - m > 0 => /\ e > 0
                                /\ LastExecuted(q) = <<accepted[q][a - m],
                                                       Len(Program[accepted[q][a - m]])>>
          /\ \A i \in 1..e :
                \/ \E k \in 1..(a - m) : executed[q][i][1] = accepted[q][k]
                \/ /\ m > 0 /\ executed[q][i][1] = Line(q)[1].id
                   /\ executed[q][i][2] <= Line(q)[1].pos
      BY <1>0, <1>1, <1>2, <2>1 DEF ExecutedOK
    <3>6. m > 0 => Line(q)'[1] = Line(q)[1]
      BY <3>2
    <3>7. m = 0 => Line(q)'[1].pos = 0
      BY <3>2
    <3>8. Len(Line(q)') > 0 /\ Line(q)'[1].pos > 0 =>
              e > 0 /\ LastExecuted(q) = <<Line(q)'[1].id, Line(q)'[1].pos>>
      BY <3>2, <3>5, <3>6, <3>7
    <3>9. Len(Line(q)') = 0 \/ Line(q)'[1].pos = 0 =>
              /\ a - m = 0 => e = 0
              /\ a - m > 0 => /\ e > 0
                              /\ LastExecuted(q) = <<accepted'[q][a - m],
                                                     Len(Program[accepted'[q][a - m]])>>
      BY <3>2, <3>3, <3>4, <3>5, <3>6, <3>7
    <3>10. \A i \in 1..e :
                \/ \E k \in 1..(a - m) : executed[q][i][1] = accepted'[q][k]
                \/ /\ Len(Line(q)') > 0 /\ executed[q][i][1] = Line(q)'[1].id
                   /\ executed[q][i][2] <= Line(q)'[1].pos
      BY <3>2, <3>4, <3>5, <3>6, SMTT(20)
    <3>. QED BY <1>1, <2>1, <3>3, <3>8, <3>9, <3>10 DEF ExecutedOK
  <2>. QED BY <2>2, <2>3
<1>. QED BY <1>4, <1>5, <1>6, <1>7, <1>8, <1>9, LineKinds

(* A longer history of acceptance has the same order.                      *)
LEMMA OrderGrows ==
    ASSUME NEW c, NEW d, NEW h, Len(c) \in Nat, Len(d) = Len(c) + 1, Len(h) > 0 => Len(c) > 0,
           \A i \in 1..Len(c) : d[i] = c[i], InOrder(c, h)
    PROVE  InOrder(d, h)
<1> SUFFICES ASSUME NEW i \in 1..Len(h)
             PROVE  /\ i = 1 => h[1][1] = d[1] /\ h[1][2] = 1
                    /\ i # 1 => Follows(d, h[i - 1], h[i])
  BY DEF InOrder
<1>1. /\ i = 1 => h[1][1] = c[1] /\ h[1][2] = 1
      /\ i # 1 => Follows(c, h[i - 1], h[i])
  BY DEF InOrder
<1>2. i = 1 => d[1] = c[1]
  BY DEF InOrder
<1>3. ASSUME NEW x, NEW y, Follows(c, x, y) PROVE Follows(d, x, y)
  <2>1. \A k \in 2..Len(c) : k \in 2..Len(d) /\ d[k] = c[k] /\ d[k - 1] = c[k - 1]
    OBVIOUS
  <2>. QED BY <1>3, <2>1 DEF Follows
<1>. QED BY <1>1, <1>2, <1>3

(* Every step keeps the packets of a ring in order.                        *)
LEMMA RingOrderStep ==
    ASSUME TypeOK, TypeOK', ThreadInv, ThreadInv', CursorInv, LineInv, AcceptedInv,
           ExecutedInv, RingOrder, Next
    PROVE  RingOrder'
<1>0. \A q \in Queues : InOrder(accepted[q], executed[q])
  BY DEF RingOrder
<1>1. ASSUME \A q \in Queues : InOrder(accepted'[q], executed'[q]) PROVE RingOrder'
  BY <1>1 DEF RingOrder, InOrder, Follows
<1>2. CASE Keeps
  BY <1>0, <1>1, <1>2, KeepsFacts
<1>3. CASE BeginSlice \/ SliceCompletes \/ LoopCancels
  <2>1. UNCHANGED <<accepted, executed>>
    BY <1>3, Zenon DEF BeginSlice, SliceCompletes, LoopCancels, history
  <2>. QED BY <1>0, <1>1, <2>1
<1>4. CASE Executes
  <2>0. PICK r, n : r = QueueOf[current.id] /\ n = Len(executed[r])
    OBVIOUS
  <2>1. /\ r \in Queues /\ n \in Nat /\ Len(executed'[r]) = n + 1
        /\ executed'[r][n + 1] = <<current.id, current.pos + 1>>
        /\ \A i \in 1..n : executed'[r][i] = executed[r][i]
        /\ \A q \in Queues : q # r => executed'[q] = executed[q]
    BY <1>4, <2>0, HistoryGrows
  <2>2. UNCHANGED accepted /\ gpu \in Slice
    BY <1>4, ExecutesFacts, PacketFacts DEF Slice
  <2>3. /\ Live(r) /\ Past(r) \in Nat /\ Line(r)[1] = current /\ Len(Line(r)) \in Nat \ {0}
        /\ Past(r) + 1 \in 1..Len(accepted[r]) /\ accepted[r][Past(r) + 1] = current.id
    BY <2>0, <2>2, CurrentAccepted
  <2>4. current.pos \in Nat
    BY <2>2, CurrentFacts
  <2>5. /\ current.pos > 0 =>
              n > 0 /\ executed[r][n] = <<current.id, current.pos>>
        /\ current.pos = 0 =>
              /\ Past(r) = 0 => n = 0
              /\ Past(r) > 0 => /\ n > 0
                                /\ executed[r][n] = <<accepted[r][Past(r)],
                                                      Len(Program[accepted[r][Past(r)]])>>
    <3>1. ExecutedOK(r) /\ LastExecuted(r) = executed[r][n]
      BY <2>0, <2>1 DEF ExecutedInv, LastExecuted
    <3>2. Len(Line(r)) > 0
      BY <2>3
    <3>3. /\ Line(r)[1].pos > 0 =>
                n > 0 /\ executed[r][n] = <<Line(r)[1].id, Line(r)[1].pos>>
          /\ Line(r)[1].pos = 0 =>
                /\ Past(r) = 0 => n = 0
                /\ Past(r) > 0 =>
                      /\ n > 0
                      /\ executed[r][n] = <<accepted[r][Past(r)],
                                            Len(Program[accepted[r][Past(r)]])>>
      BY <2>0, <2>3, <3>1, <3>2, ZenonT(30) DEF ExecutedOK
    <3>. QED BY <2>3, <3>3, Zenon
  <2>6. n = 0 => current.pos = 0 /\ Past(r) = 0
    BY <2>1, <2>3, <2>4, <2>5
  <2>7. ASSUME n > 0 PROVE Follows(accepted[r], executed[r][n], <<current.id, current.pos + 1>>)
    <3>1. CASE current.pos > 0
      BY <2>5, <3>1 DEF Follows
    <3>2. CASE current.pos = 0
      <4>1. PICK k \in Nat : k = Past(r) + 1
        BY <2>3
      <4>2. Past(r) > 0 /\ Past(r) = k - 1 /\ k \in 2..Len(accepted[r])
        BY <2>3, <2>5, <2>7, <3>2, <4>1
      <4>3. accepted[r][k] = current.id
        BY <2>3, <4>1
      <4>4. executed[r][n][1] = accepted[r][k - 1]
            /\ executed[r][n][2] = Len(Program[accepted[r][k - 1]])
        BY <2>5, <3>2, <4>2
      <4>. QED BY <3>2, <4>2, <4>3, <4>4 DEF Follows
    <3>. QED BY <2>4, <3>1, <3>2
  <2>8. InOrder(accepted[r], executed'[r])
    <3> SUFFICES ASSUME NEW i \in 1..(n + 1)
                 PROVE  /\ i = 1 => executed'[r][1][1] = accepted[r][1] /\ executed'[r][1][2] = 1
                        /\ i # 1 => Follows(accepted[r], executed'[r][i - 1], executed'[r][i])
      BY <2>1 DEF InOrder
    <3>1. CASE i = n + 1 /\ n = 0
      <4>1. executed'[r][1] = <<current.id, 1>> /\ accepted[r][1] = current.id
        BY <2>1, <2>3, <2>6, <3>1
      <4>. QED BY <3>1, <4>1
    <3>2. CASE i = n + 1 /\ n > 0
      <4>1. i # 1 /\ i - 1 = n /\ n \in 1..n
        BY <2>1, <3>2
      <4>2. executed'[r][i - 1] = executed[r][n]
            /\ executed'[r][i] = <<current.id, current.pos + 1>>
        BY <2>1, <3>2, <4>1
      <4>. QED BY <2>7, <3>2, <4>1, <4>2
    <3>3. CASE i # n + 1
      <4>1. i \in 1..n /\ executed'[r][i] = executed[r][i]
        BY <2>1, <3>3
      <4>2. i # 1 => i - 1 \in 1..n /\ executed'[r][i - 1] = executed[r][i - 1]
        BY <2>1, <4>1
      <4>3. /\ i = 1 => executed[r][1][1] = accepted[r][1] /\ executed[r][1][2] = 1
            /\ i # 1 => Follows(accepted[r], executed[r][i - 1], executed[r][i])
        BY <1>0, <2>0, <2>1, <4>1 DEF InOrder
      <4>. QED BY <4>1, <4>2, <4>3
    <3>. QED BY <2>1, <3>1, <3>2, <3>3
  <2>9. \A q \in Queues : InOrder(accepted'[q], executed'[q])
    BY <1>0, <2>1, <2>2, <2>8
  <2>. QED BY <1>1, <2>9
<1>5. ASSUME NEW g \in Guests, NEW s \in Submissions, Submit(g, s) PROVE RingOrder'
  <2>0. PICK r, n : r = QueueOf[s] /\ n = Len(accepted[r])
    OBVIOUS
  <2>1. /\ r \in Queues /\ n \in Nat
        /\ Len(accepted'[r]) = n + 1
        /\ \A i \in 1..n : accepted'[r][i] = accepted[r][i]
        /\ \A q \in Queues : q # r => accepted'[q] = accepted[q]
    BY <1>5, <2>0, SubmitFacts
  <2>2. executed' = executed
    BY <1>5, SubmitFrame
  <2>3. Len(executed[r]) > 0 => n > 0
    <3>1. Len(executed[r]) \in Nat
      BY <2>1 DEF TypeOK
    <3>2. \A i \in 1..Len(executed[r]) : \E k \in 1..n : accepted[r][k] = executed[r][i][1]
      BY <2>0, <2>1 DEF AcceptedInv
    <3> SUFFICES ASSUME Len(executed[r]) > 0 PROVE n > 0
      OBVIOUS
    <3>3. PICK k \in 1..n : accepted[r][k] = executed[r][1][1]
      BY <3>1, <3>2
    <3>. QED BY <2>1, <3>3
  <2>4. InOrder(accepted'[r], executed[r])
    <3>1. PICK c, d, h : c = accepted[r] /\ d = accepted'[r] /\ h = executed[r]
      OBVIOUS
    <3>2. /\ Len(c) \in Nat /\ Len(d) = Len(c) + 1 /\ (Len(h) > 0 => Len(c) > 0)
          /\ \A i \in 1..Len(c) : d[i] = c[i]
      BY <2>0, <2>1, <2>3, <3>1
    <3>3. InOrder(c, h)
      BY <1>0, <2>1, <3>1
    <3>4. InOrder(d, h)
      BY <3>2, <3>3, OrderGrows
    <3>. QED BY <3>1, <3>4
  <2>5. \A q \in Queues : InOrder(accepted'[q], executed'[q])
    BY <1>0, <2>1, <2>2, <2>4
  <2>. QED BY <1>1, <2>5
<1>. QED BY <1>2, <1>3, <1>4, <1>5, LineKinds

-----------------------------------------------------------------------------
(* What is accepted, and what waits of it.                                 *)
LEMMA AcceptedFacts ==
    ASSUME TypeOK, AcceptedInv
    PROVE  \A s : s \in Accepted <=>
               \E q \in Queues : \E i \in 1..Len(accepted[q]) : accepted[q][i] = s
<1>1. \A q \in Queues : /\ DOMAIN accepted[q] = 1..Len(accepted[q])
                        /\ \A i \in 1..Len(accepted[q]) : accepted[q][i] \in Submissions
  BY DEF TypeOK
<1>2. \A s \in Submissions : QueueOf[s] \in Queues
  BY ProgramFacts
<1> TAKE s
<1>3. ASSUME s \in Accepted
      PROVE  \E q \in Queues : \E i \in 1..Len(accepted[q]) : accepted[q][i] = s
  BY <1>1, <1>2, <1>3 DEF Accepted
<1>4. ASSUME NEW q \in Queues, NEW i \in 1..Len(accepted[q]), accepted[q][i] = s
      PROVE  s \in Accepted
  <2>1. s \in Submissions /\ QueueOf[s] = q
    BY <1>1, <1>4 DEF AcceptedInv
  <2>. QED BY <1>1, <1>4, <2>1 DEF Accepted
<1>. QED BY <1>3, <1>4

(* What is in line was accepted, and is there once.                        *)
LEMMA WaitingFacts ==
    ASSUME TypeOK, ThreadInv, CursorInv, AcceptedInv, LineInv
    PROVE  /\ Waiting \subseteq Accepted
           /\ \A q, r \in Queues : \A i \in 1..Len(Line(q)) : \A j \in 1..Len(Line(r)) :
                 Line(q)[i].id = Line(r)[j].id => q = r /\ i = j
<1>1. ASSUME NEW q \in Queues, NEW i \in 1..Len(Line(q))
      PROVE  /\ Past(q) + i \in 1..Len(accepted[q]) /\ Line(q)[i].id = accepted[q][Past(q) + i]
             /\ QueueOf[Line(q)[i].id] = q /\ Past(q) \in Int
  <2>1. accepted[q] \in Seq(Submissions)
    BY DEF TypeOK
  <2>2. PICK a \in Nat, m \in Nat : a = Len(accepted[q]) /\ m = Len(Line(q))
    BY <2>1, LineFacts
  <2>3. Live(q)
    BY <2>2 DEF Live
  <2>4. Past(q) = a - m
    BY <2>2 DEF Past
  <2>5. Past(q) >= 0 /\ Line(q)[i].id = accepted[q][Past(q) + i]
    BY <2>3 DEF LineInv, LineOK
  <2>6. a - m >= 0 /\ i \in 1..m
    BY <2>2, <2>4, <2>5
  <2>7. (a - m) + i \in 1..a /\ a - m \in Int
    BY <2>6
  <2>. QED BY <2>2, <2>4, <2>5, <2>7, LineCursor
<1>2. Waiting \subseteq Accepted
  BY <1>1, AcceptedFacts, SMTT(20) DEF Waiting
<1>3. ASSUME NEW q \in Queues, NEW r \in Queues, NEW i \in 1..Len(Line(q)),
             NEW j \in 1..Len(Line(r)), Line(q)[i].id = Line(r)[j].id
      PROVE  q = r /\ i = j
  <2>1. q = r
    BY <1>1, <1>3, SMTT(20)
  <2>2. Past(q) + i = Past(q) + j
    <3>1. /\ Past(q) + i \in 1..Len(accepted[q]) /\ Past(q) + j \in 1..Len(accepted[q])
          /\ accepted[q][Past(q) + i] = accepted[q][Past(q) + j]
      BY <1>1, <1>3, <2>1
    <3>. QED BY <3>1 DEF AcceptedInv
  <2>3. Past(q) \in Int
    BY <1>1
  <2>. QED BY <2>1, <2>2, <2>3
<1>. QED BY <1>2, <1>3

(* Which submissions wait after a step.                                    *)
LEMMA WaitingStep ==
    ASSUME TypeOK, TypeOK', ThreadInv, ThreadInv', CursorInv, AcceptedInv, LineInv
    PROVE  /\ Keeps \/ BeginSlice \/ Executes => Waiting' = Waiting
           /\ SliceCompletes => Waiting' = Waiting \ {current.id} /\ current.id \in Waiting
           /\ LoopCancels => Waiting' = {}
           /\ \A g \in Guests, s \in Submissions :
                 Submit(g, s) => Waiting' = Waiting \cup {s} /\ s \notin Waiting
<1>0. ASSUME \A q \in Queues : /\ Len(Line(q)') = Len(Line(q))
                               /\ \A i \in 1..Len(Line(q)) : Line(q)'[i].id = Line(q)[i].id
      PROVE  Waiting' = Waiting
  BY <1>0 DEF Waiting
<1>1. ASSUME Keeps PROVE Waiting' = Waiting
  <2>1. \A q \in Queues : Agree(Line(q)', Line(q))
    BY <1>1, KeepsFacts
  <2>. QED BY <1>0, <2>1 DEF Agree
<1>2. ASSUME BeginSlice \/ Executes PROVE Waiting' = Waiting
  <2>1. current'.id = current.id
    <3>1. CASE BeginSlice
      <4>1. current \in Records
        BY <3>1, CurrentFacts DEF BeginSlice, Slice
      <4>. QED BY <3>1, <4>1 DEF BeginSlice, Records
    <3>2. CASE Executes
      BY <3>2, ExecutesFacts
    <3>. QED BY <1>2, <3>1, <3>2
  <2>2. ASSUME NEW q \in Queues
        PROVE  /\ Len(Line(q)') = Len(Line(q))
               /\ \A i \in 1..Len(Line(q)) : Line(q)'[i].id = Line(q)[i].id
    <3>1. CASE QueueOf[current.id] # q
      BY <1>2, <3>1, LineFront
    <3>2. CASE QueueOf[current.id] = q
      <4>1. /\ Line(q)[1] = current /\ Line(q)'[1] = current'
            /\ Len(Line(q)') = Len(Line(q)) /\ Len(Line(q)) \in Nat \ {0}
            /\ \A i \in 2..Len(Line(q)) : Line(q)'[i] = Line(q)[i]
        BY <1>2, <3>2, LineFront
      <4>. QED BY <2>1, <4>1
    <3>. QED BY <3>1, <3>2
  <2>. QED BY <1>0, <2>2
<1>3. ASSUME SliceCompletes
      PROVE  Waiting' = Waiting \ {current.id} /\ current.id \in Waiting
  <2>0. PICK r : r = QueueOf[current.id]
    OBVIOUS
  <2>1. r \in Queues
    BY <1>3, <2>0, CurrentFacts DEF SliceCompletes, Slice
  <2>2. /\ Line(r)[1] = current /\ Len(Line(r)) \in Nat \ {0}
        /\ Len(Line(r)') = Len(Line(r)) - 1
        /\ \A i \in 1..(Len(Line(r)) - 1) : Line(r)'[i].id = Line(r)[i + 1].id
    BY <1>3, <2>0, <2>1, LineDrops
  <2>3. \A q \in Queues : q # r => /\ Len(Line(q)') = Len(Line(q))
                                   /\ \A i \in 1..Len(Line(q)) : Line(q)'[i].id = Line(q)[i].id
    BY <1>3, <2>0, LineDrops DEF Agree
  <2>4. 1 \in 1..Len(Line(r)) /\ current.id = Line(r)[1].id
    BY <2>2
  <2>5. current.id \in Waiting
    BY <2>1, <2>4 DEF Waiting
  <2>6. \A q, p \in Queues : \A i \in 1..Len(Line(q)) : \A j \in 1..Len(Line(p)) :
            Line(q)[i].id = Line(p)[j].id => q = p /\ i = j
    BY WaitingFacts
  <2>7. ASSUME NEW x \in Waiting' PROVE x \in Waiting \ {current.id}
    <3>0. PICK q \in Queues : \E i \in 1..Len(Line(q)') : x = Line(q)'[i].id
      BY <2>7 DEF Waiting
    <3>1. PICK i \in 1..Len(Line(q)') : x = Line(q)'[i].id
      BY <3>0
    <3>2. CASE q # r
      <4>1. i \in 1..Len(Line(q)) /\ x = Line(q)[i].id
        BY <2>3, <3>1, <3>2
      <4>2. x # current.id
        BY <2>1, <2>4, <2>6, <3>2, <4>1
      <4>. QED BY <4>1, <4>2 DEF Waiting
    <3>3. CASE q = r
      <4>1. i \in 1..(Len(Line(r)) - 1) /\ i + 1 \in 1..Len(Line(r)) /\ i + 1 # 1
        BY <2>2, <3>3
      <4>2. x = Line(r)[i + 1].id
        BY <2>2, <3>1, <3>3, <4>1
      <4>3. x # current.id
        BY <2>1, <2>4, <2>6, <4>1, <4>2
      <4>. QED BY <2>1, <4>1, <4>2, <4>3 DEF Waiting
    <3>. QED BY <3>2, <3>3
  <2>8. ASSUME NEW x \in Waiting, x # current.id PROVE x \in Waiting'
    <3>0. PICK q \in Queues : \E i \in 1..Len(Line(q)) : x = Line(q)[i].id
      BY <2>8 DEF Waiting
    <3>1. PICK i \in 1..Len(Line(q)) : x = Line(q)[i].id
      BY <3>0
    <3>2. CASE q # r
      <4>1. i \in 1..Len(Line(q)') /\ x = Line(q)'[i].id
        BY <2>3, <3>1, <3>2
      <4>. QED BY <4>1 DEF Waiting
    <3>3. CASE q = r
      <4>1. i # 1
        BY <2>4, <2>8, <3>1, <3>3
      <4>2. i - 1 \in 1..(Len(Line(r)) - 1) /\ (i - 1) + 1 = i
        BY <2>2, <3>3, <4>1
      <4>3. i - 1 \in 1..Len(Line(r)') /\ x = Line(r)'[i - 1].id
        BY <2>2, <3>1, <3>3, <4>2
      <4>. QED BY <2>1, <4>3 DEF Waiting
    <3>. QED BY <3>2, <3>3
  <2>. QED BY <2>5, <2>7, <2>8
<1>4. ASSUME LoopCancels PROVE Waiting' = {}
  <2>1. \A q \in Queues : Line(q)' = <<>>
    BY <1>4, LineCanceled
  <2>2. \A q \in Queues : 1..Len(Line(q)') = {}
    BY <2>1
  <2>. QED BY <2>2 DEF Waiting
<1>5. ASSUME NEW g \in Guests, NEW s \in Submissions, Submit(g, s)
      PROVE  Waiting' = Waiting \cup {s} /\ s \notin Waiting
  <2>0. PICK r : r = QueueOf[s]
    OBVIOUS
  <2>1. r \in Queues
    BY <2>0, ProgramFacts
  <2>2. /\ Len(Line(r)) \in Nat /\ Len(Line(r)') = Len(Line(r)) + 1
        /\ \A i \in 1..Len(Line(r)) : Line(r)'[i] = Line(r)[i]
        /\ Line(r)'[Len(Line(r)) + 1].id = s
    <3>1. QueueOf[s] = r
      BY <2>0
    <3>2. PICK m \in Nat : m = Len(Line(r))
      BY <2>1, LineFacts
    <3>3. /\ Len(Line(r)') = m + 1 /\ Line(r)'[m + 1].id = s
          /\ \A i \in 1..m : Line(r)'[i] = Line(r)[i]
      BY <1>5, <2>1, <3>1, <3>2, LineGrows, ZenonT(30)
    <3>. QED BY <3>2, <3>3
  <2>3. \A q \in Queues : q # r => Line(q)' = Line(q)
    BY <1>5, <2>0, LineGrows
  <2>4. s \notin Waiting
    BY <1>5, WaitingFacts DEF Submit
  <2>5. s \in Waiting'
    <3>1. Len(Line(r)) + 1 \in 1..Len(Line(r)')
      BY <2>2
    <3>. QED BY <2>1, <2>2, <3>1 DEF Waiting
  <2>6. ASSUME NEW q \in Queues, NEW i \in 1..Len(Line(q))
        PROVE  i \in 1..Len(Line(q)') /\ Line(q)'[i] = Line(q)[i]
    BY <2>2, <2>3
  <2>7. ASSUME NEW q \in Queues, NEW i \in 1..Len(Line(q)')
        PROVE  \/ i \in 1..Len(Line(q)) /\ Line(q)'[i] = Line(q)[i]
               \/ Line(q)'[i].id = s
    BY <2>2, <2>3
  <2>. QED BY <2>4, <2>5, <2>6, <2>7 DEF Waiting
<1>. QED BY <1>1, <1>2, <1>3, <1>4, <1>5

(* The places of the sequences of a function.                              *)
LEMMA DomainFacts ==
    ASSUME NEW S, NEW f \in [Queues -> Seq(S)], NEW q \in Queues
    PROVE  /\ DOMAIN f[q] = 1..Len(f[q]) /\ Len(f[q]) \in Nat
           /\ \A i \in 1..Len(f[q]) : f[q][i] \in S
           /\ Len(f[q]) = 0 => f[q] = <<>>
<1>1. f[q] \in Seq(S)
  OBVIOUS
<1>. QED BY <1>1

(* The slots of the queues, before and after a step.                       *)
LEMMA SlotFacts ==
    ASSUME TypeOK, TypeOK'
    PROVE  /\ \A x : x \in Slots <=>
                 \E q \in Queues : \E i \in 1..Len(m_queues[q]) : x = <<q, i>>
           /\ \A x : x \in Slots' <=>
                 \E q \in Queues : \E i \in 1..Len(m_queues'[q]) : x = <<q, i>>
           /\ \A q \in Queues : Len(m_queues[q]) \in Nat /\ Len(m_queues'[q]) \in Nat
<1>1. \A q \in Queues : /\ DOMAIN m_queues[q] = 1..Len(m_queues[q]) /\ Len(m_queues[q]) \in Nat
                        /\ DOMAIN m_queues'[q] = 1..Len(m_queues'[q]) /\ Len(m_queues'[q]) \in Nat
  <2>1. m_queues \in [Queues -> Seq(Records)] /\ m_queues' \in [Queues -> Seq(Records)]
    BY DEF TypeOK
  <2>. QED BY <2>1, DomainFacts
<1>2. \A x : x \in Slots <=> \E q \in Queues : \E i \in 1..Len(m_queues[q]) : x = <<q, i>>
  BY <1>1 DEF Slots
<1>3. \A x : x \in Slots' <=> \E q \in Queues : \E i \in 1..Len(m_queues'[q]) : x = <<q, i>>
  BY <1>1 DEF Slots
<1>. QED BY <1>1, <1>2, <1>3

(* No queue changes its length.                                            *)
LEMMA SlotsSame ==
    ASSUME TypeOK, TypeOK', \A q \in Queues : Len(m_queues'[q]) = Len(m_queues[q])
    PROVE  Slots' = Slots
<1>1. \A x : x \in Slots' <=> x \in Slots
  BY SlotFacts
<1>. QED BY <1>1

(* One queue grows by one.                                                 *)
LEMMA SlotsGrow ==
    ASSUME TypeOK, TypeOK', NEW r \in Queues, IsFiniteSet(Slots),
           Len(m_queues'[r]) = Len(m_queues[r]) + 1,
           \A q \in Queues : q # r => Len(m_queues'[q]) = Len(m_queues[q])
    PROVE  IsFiniteSet(Slots') /\ Cardinality(Slots') = Cardinality(Slots) + 1
<1>1. PICK n \in Nat : n = Len(m_queues[r])
  BY SlotFacts
<1>2. <<r, n + 1>> \notin Slots
  BY <1>1, SlotFacts
<1>3. \A q \in Queues : \A i : i \in 1..Len(m_queues'[q]) <=>
          i \in 1..Len(m_queues[q]) \/ (q = r /\ i = n + 1)
  <2>1. \A i : i \in 1..(n + 1) <=> i \in 1..n \/ i = n + 1
    OBVIOUS
  <2>. QED BY <1>1, <2>1
<1>4. \A x : x \in Slots' <=> x \in Slots \/ x = <<r, n + 1>>
  BY <1>3, SlotFacts
<1>5. Slots' = Slots \cup {<<r, n + 1>>}
  BY <1>4
<1>. QED BY <1>2, <1>5, FS_AddElement

(* One queue shrinks by one.                                               *)
LEMMA SlotsShrink ==
    ASSUME TypeOK, TypeOK', NEW r \in Queues, IsFiniteSet(Slots),
           Len(m_queues'[r]) = Len(m_queues[r]) - 1,
           \A q \in Queues : q # r => Len(m_queues'[q]) = Len(m_queues[q])
    PROVE  IsFiniteSet(Slots') /\ Cardinality(Slots') = Cardinality(Slots) - 1
<1>1. PICK n \in Nat : n = Len(m_queues[r]) /\ n > 0
  BY SlotFacts
<1>2. <<r, n>> \in Slots
  BY <1>1, SlotFacts
<1>3. \A q \in Queues : \A i : i \in 1..Len(m_queues'[q]) <=>
          i \in 1..Len(m_queues[q]) /\ ~(q = r /\ i = n)
  <2>1. \A i : i \in 1..(n - 1) <=> i \in 1..n /\ i # n
    OBVIOUS
  <2>. QED BY <1>1, <2>1
<1>4. \A x : x \in Slots' <=> x \in Slots /\ x # <<r, n>>
  BY <1>3, SlotFacts
<1>5. Slots' = Slots \ {<<r, n>>}
  BY <1>4
<1>. QED BY <1>2, <1>5, FS_RemoveElement

(* A queue that counts nothing holds nothing.                              *)
LEMMA NothingQueued ==
    ASSUME TypeOK, CountInv, m_submission_count = 0, NEW q \in Queues
    PROVE  m_queues[q] = <<>>
<1>1. Slots = {}
  BY FS_EmptySet DEF CountInv
<1>2. m_queues \in [Queues -> Seq(Records)]
  BY DEF TypeOK
<1>3. /\ DOMAIN m_queues[q] = 1..Len(m_queues[q]) /\ Len(m_queues[q]) \in Nat
      /\ Len(m_queues[q]) = 0 => m_queues[q] = <<>>
  BY <1>2, DomainFacts
<1>4. \A i \in DOMAIN m_queues[q] : <<q, i>> \in Slots
  BY DEF Slots
<1>5. \A i \in 1..Len(m_queues[q]) : FALSE
  BY <1>1, <1>3, <1>4
<1>. QED BY <1>3, <1>5

(* Every step counts what it moves.                                        *)
LEMMA CountStep ==
    ASSUME TypeOK, TypeOK', ThreadInv, ThreadInv', CursorInv, AcceptedInv, AcceptedInv', LineInv,
           CountInv, Next
    PROVE  CountInv'
<1>0. /\ IsFiniteSet(Slots) /\ m_submission_count = Cardinality(Slots)
      /\ IsFiniteSet(Accepted) /\ completed \subseteq Accepted \ Waiting
      /\ IsFiniteSet(Waiting) /\ Cardinality(Waiting) = m_submission_count + Taken
      /\ Cardinality(Accepted) = Cardinality(completed) + m_submission_count + Taken
                                 + m_canceled_submissions
  BY DEF CountInv
<1>1. /\ m_submission_count \in Nat /\ m_canceled_submissions \in Nat
      /\ Cardinality(completed) \in Nat /\ IsFiniteSet(completed) /\ Taken \in {0, 1}
      /\ m_queues \in [Queues -> Seq(Records)]
  <2>1. completed \in SUBSET Accepted
    BY <1>0
  <2>2. IsFiniteSet(completed)
    BY <1>0, <2>1, FS_Subset
  <2>. QED BY <2>2, FS_CardinalityType DEF TypeOK, Taken
<1>2. UNCHANGED accepted => Accepted' = Accepted
  BY DEF Accepted
<1>3. ASSUME UNCHANGED <<accepted, completed, m_submission_count, m_canceled_submissions>>,
             Taken' = Taken, Waiting' = Waiting,
             \A q \in Queues : Len(m_queues'[q]) = Len(m_queues[q])
      PROVE  CountInv'
  <2>1. Slots' = Slots /\ Accepted' = Accepted
    BY <1>2, <1>3, SlotsSame
  <2>. QED BY <1>0, <1>3, <2>1 DEF CountInv
<1>4. CASE Quiet \/ Shutdown \/ \E g \in Guests : DoneReturns(g)
  <2>1. UNCHANGED <<m_queues, current, accepted, completed, m_submission_count,
                    m_canceled_submissions>>
    <3>1. CASE Quiet
      BY <3>1, QuietFrame DEF core
    <3>2. CASE Shutdown
      BY <3>2, Zenon DEF Shutdown, queueState, slice, history
    <3>3. ASSUME NEW g \in Guests, DoneReturns(g)
          PROVE  UNCHANGED <<m_queues, current, accepted, completed, m_submission_count,
                             m_canceled_submissions>>
      BY <3>3, Zenon DEF DoneReturns, queueState, slice, history
    <3>. QED BY <1>4, <3>1, <3>2, <3>3
  <2>2. Waiting' = Waiting
    BY <1>4, WaitingStep, Zenon DEF Keeps
  <2>. QED BY <1>3, <2>1, <2>2 DEF Taken
<1>5. CASE LoopTakesSubmission
  <2>1. PICK r \in Runnable : m_queues' = [m_queues EXCEPT ![r] = Tail(m_queues[r])]
    BY <1>5 DEF LoopTakesSubmission
  <2>2. /\ gpu = "loop" /\ gpu' = "begin" /\ m_submission_count' = m_submission_count - 1
        /\ UNCHANGED <<accepted, completed, m_canceled_submissions>>
    BY <1>5 DEF LoopTakesSubmission, MaySelect, history
  <2>3. r \in Queues /\ m_queues[r] # <<>> /\ m_queues[r] \in Seq(Records)
    BY <1>1 DEF Runnable
  <2>4. Len(Tail(m_queues[r])) = Len(m_queues[r]) - 1
    BY <2>3, TailFacts
  <2>5. Len(m_queues'[r]) = Len(m_queues[r]) - 1
        /\ \A q \in Queues : q # r => Len(m_queues'[q]) = Len(m_queues[q])
    BY <1>1, <2>1, <2>3, <2>4
  <2>6. IsFiniteSet(Slots') /\ Cardinality(Slots') = Cardinality(Slots) - 1
    BY <1>0, <2>3, <2>5, SlotsShrink
  <2>7. Taken = 0 /\ Taken' = 1
    BY <2>2 DEF Taken, ThreadInv, Slice
  <2>8. Waiting' = Waiting
    BY <1>5, WaitingStep DEF Keeps
  <2>. QED BY <1>0, <1>1, <1>2, <2>2, <2>6, <2>7, <2>8 DEF CountInv
<1>6. CASE SliceBlocks
  <2>0. PICK r : r = QueueOf[current.id]
    OBVIOUS
  <2>1. /\ gpu \in Slice /\ gpu' = "loop" /\ m_submission_count' = m_submission_count + 1
        /\ UNCHANGED <<accepted, completed, m_canceled_submissions>>
    BY <1>6 DEF SliceBlocks, history, Slice
  <2>2. r \in Queues /\ current \in Records
    BY <2>0, <2>1, CurrentFacts
  <2>3. PICK b : b = [current EXCEPT !.blocked = TRUE]
    OBVIOUS
  <2>4. b \in Records
    BY <2>2, <2>3 DEF Records
  <2>5. m_queues' = [m_queues EXCEPT ![r] = <<b>> \o m_queues[r]]
    BY <1>6, <2>0, <2>3 DEF SliceBlocks, PutBack
  <2>6. Len(<<b>> \o m_queues[r]) = Len(m_queues[r]) + 1
    BY <1>1, <2>2, <2>4, FrontFacts
  <2>7. Len(m_queues'[r]) = Len(m_queues[r]) + 1
        /\ \A q \in Queues : q # r => Len(m_queues'[q]) = Len(m_queues[q])
    BY <1>1, <2>2, <2>5, <2>6
  <2>8. IsFiniteSet(Slots') /\ Cardinality(Slots') = Cardinality(Slots) + 1
    BY <1>0, <2>2, <2>7, SlotsGrow
  <2>9. Taken = 1 /\ Taken' = 0
    BY <2>1 DEF Taken, ThreadInv, Slice
  <2>10. Waiting' = Waiting
    BY <1>6, WaitingStep DEF Keeps
  <2>. QED BY <1>0, <1>1, <1>2, <2>1, <2>8, <2>9, <2>10 DEF CountInv
<1>7. CASE PollEnds
  <2>1. /\ UNCHANGED <<accepted, completed, m_submission_count, m_canceled_submissions, current>>
        /\ m_queues' = UnblockedFronts
    BY <1>7 DEF PollEnds, history, slice
  <2>2. \A q \in Queues : Len(m_queues'[q]) = Len(m_queues[q])
    BY <1>1, <2>1, UnblockedFacts
  <2>3. Waiting' = Waiting
    BY <1>7, WaitingStep DEF Keeps
  <2>. QED BY <1>3, <2>1, <2>2, <2>3 DEF Taken
<1>8. CASE BeginSlice \/ Executes
  <2>1. /\ UNCHANGED <<accepted, completed, m_submission_count, m_canceled_submissions, m_queues>>
        /\ gpu \in Slice /\ gpu' \in Slice
    <3>1. CASE BeginSlice
      BY <3>1 DEF BeginSlice, history, queueState, Slice
    <3>2. CASE Executes
      BY <3>2, ExecutesFacts, PacketFacts DEF Slice
    <3>. QED BY <1>8, <3>1, <3>2
  <2>2. Taken' = Taken
    BY <2>1 DEF Taken, ThreadInv
  <2>3. Waiting' = Waiting
    BY <1>8, WaitingStep
  <2>. QED BY <1>3, <2>1, <2>2, <2>3
<1>9. CASE SliceCompletes
  <2>1. /\ UNCHANGED <<accepted, m_submission_count, m_canceled_submissions>>
        /\ m_queues' = UnblockedFronts /\ gpu \in Slice /\ gpu' = "loop"
        /\ completed' = completed \cup {current.id}
    BY <1>9 DEF SliceCompletes, Slice
  <2>2. \A q \in Queues : Len(m_queues'[q]) = Len(m_queues[q])
    BY <1>1, <2>1, UnblockedFacts
  <2>3. Slots' = Slots /\ Accepted' = Accepted
    BY <1>2, <2>1, <2>2, SlotsSame
  <2>4. Waiting' = Waiting \ {current.id} /\ current.id \in Waiting
    BY <1>9, WaitingStep
  <2>5. current.id \in Accepted /\ current.id \notin completed
    BY <1>0, <2>4, WaitingFacts
  <2>6. Taken = 1 /\ Taken' = 0
    BY <2>1 DEF Taken, ThreadInv, Slice
  <2>7. IsFiniteSet(Waiting') /\ Cardinality(Waiting') = Cardinality(Waiting) - 1
    BY <1>0, <2>4, FS_RemoveElement
  <2>8. Cardinality(completed') = Cardinality(completed) + 1
    BY <1>1, <2>1, <2>5, FS_AddElement
  <2>9. completed' \subseteq Accepted' \ Waiting'
    BY <1>0, <2>1, <2>3, <2>4, <2>5
  <2>. QED BY <1>0, <1>1, <2>1, <2>3, <2>6, <2>7, <2>8, <2>9 DEF CountInv
<1>10. CASE LoopCancels
  <2>1. /\ UNCHANGED <<accepted, completed, current>> /\ m_submission_count' = 0
        /\ m_canceled_submissions' = m_canceled_submissions + m_submission_count
        /\ m_queues' = [q \in Queues |-> <<>>] /\ gpu = "loop"
    BY <1>10 DEF LoopCancels, history, slice
  <2>2. Slots' = {}
    <3>1. \A q \in Queues : DOMAIN m_queues'[q] = {}
      BY <2>1
    <3>. QED BY <3>1 DEF Slots
  <2>3. Waiting' = {}
    BY <1>10, WaitingStep
  <2>4. Taken = 0 /\ Taken' = 0
    BY <2>1 DEF Taken, ThreadInv, Slice
  <2>5. Accepted' = Accepted
    BY <1>2, <2>1
  <2>6. completed' \subseteq Accepted' \ Waiting'
    BY <1>0, <2>1, <2>3, <2>5
  <2>. QED BY <1>0, <1>1, <2>1, <2>2, <2>3, <2>4, <2>5, <2>6, FS_EmptySet DEF CountInv
<1>11. ASSUME NEW g \in Guests, NEW s \in Submissions, Submit(g, s) PROVE CountInv'
  <2>0. PICK r, n : r = QueueOf[s] /\ n = Len(accepted[r])
    OBVIOUS
  <2>1. /\ r \in Queues /\ n \in Nat /\ Len(accepted'[r]) = n + 1
        /\ \A i \in 1..n : accepted'[r][i] = accepted[r][i]
        /\ accepted'[r][n + 1] = s
        /\ \A q \in Queues : q # r => accepted'[q] = accepted[q]
    BY <1>11, <2>0, SubmitFacts
  <2>2. /\ m_submission_count' = m_submission_count + 1
        /\ UNCHANGED <<completed, m_canceled_submissions, current>>
        /\ s \notin Accepted
    BY <1>11, SubmitFrame DEF Submit
  <2>3. Accepted' = Accepted \cup {s}
    <3>1. \A x : x \in Accepted' <=>
              \E q \in Queues : \E i \in 1..Len(accepted'[q]) : accepted'[q][i] = x
      <4>1. \A q \in Queues : /\ DOMAIN accepted'[q] = 1..Len(accepted'[q])
                              /\ \A i \in 1..Len(accepted'[q]) : accepted'[q][i] \in Submissions
        <5>1. accepted' \in [Queues -> Seq(Submissions)]
          BY DEF TypeOK
        <5>. QED BY <5>1, DomainFacts
      <4>2. \A x \in Submissions : QueueOf[x] \in Queues
        BY ProgramFacts
      <4>3. \A q \in Queues : \A i \in 1..Len(accepted'[q]) : QueueOf[accepted'[q][i]] = q
        BY DEF AcceptedInv
      <4>. QED BY <4>1, <4>2, <4>3 DEF Accepted
    <3>2. \A x : x \in Accepted <=>
              \E q \in Queues : \E i \in 1..Len(accepted[q]) : accepted[q][i] = x
      BY AcceptedFacts
    <3>3. ASSUME NEW q \in Queues, NEW i \in 1..Len(accepted'[q])
          PROVE  accepted'[q][i] = s \/ (i \in 1..Len(accepted[q]) /\ accepted'[q][i] = accepted[q][i])
      BY <2>0, <2>1, SMTT(20)
    <3>4. ASSUME NEW q \in Queues, NEW i \in 1..Len(accepted[q])
          PROVE  i \in 1..Len(accepted'[q]) /\ accepted'[q][i] = accepted[q][i]
      BY <2>0, <2>1
    <3>5. n + 1 \in 1..Len(accepted'[r]) /\ accepted'[r][n + 1] = s
      BY <2>1
    <3>6. s \in Accepted'
      BY <2>1, <3>1, <3>5
    <3>7. Accepted \subseteq Accepted'
      BY <3>1, <3>2, <3>4
    <3>8. \A x \in Accepted' : x = s \/ x \in Accepted
      BY <3>1, <3>2, <3>3
    <3>. QED BY <3>6, <3>7, <3>8
  <2>4. IsFiniteSet(Accepted') /\ Cardinality(Accepted') = Cardinality(Accepted) + 1
    BY <1>0, <2>2, <2>3, FS_AddElement
  <2>5. Waiting' = Waiting \cup {s} /\ s \notin Waiting
    BY <1>11, WaitingStep
  <2>6. IsFiniteSet(Waiting') /\ Cardinality(Waiting') = Cardinality(Waiting) + 1
    BY <1>0, <2>5, FS_AddElement
  <2>7. PICK b : b = [NoSubmission EXCEPT !.id = s, !.reset = ResetProcessor(s)]
    OBVIOUS
  <2>8. b \in Records
    BY <2>7 DEF NoSubmission, Records, ResetProcessor, TypeOK
  <2>9. m_queues' = [m_queues EXCEPT ![r] = Append(m_queues[r], b)]
    BY <1>11, <2>0, <2>7 DEF Submit, Enqueue
  <2>10. Len(Append(m_queues[r], b)) = Len(m_queues[r]) + 1
    BY <1>1, <2>1, <2>8, AppendFacts
  <2>11. Len(m_queues'[r]) = Len(m_queues[r]) + 1
         /\ \A q \in Queues : q # r => Len(m_queues'[q]) = Len(m_queues[q])
    BY <1>1, <2>1, <2>9, <2>10
  <2>12. IsFiniteSet(Slots') /\ Cardinality(Slots') = Cardinality(Slots) + 1
    BY <1>0, <2>1, <2>11, SlotsGrow
  <2>13. Taken' = Taken
    BY <2>2 DEF Taken
  <2>14. completed' \subseteq Accepted' \ Waiting'
    BY <1>0, <2>2, <2>3, <2>5
  <2>15. /\ m_submission_count' = Cardinality(Slots')
         /\ Cardinality(Waiting') = m_submission_count' + Taken'
    BY <1>0, <1>1, <2>2, <2>6, <2>12, <2>13
  <2>16. completed' = completed /\ m_canceled_submissions' = m_canceled_submissions
    BY <2>2
  <2>17. Cardinality(Accepted') = Cardinality(completed') + m_submission_count' + Taken'
                                  + m_canceled_submissions'
    BY <1>0, <1>1, <2>2, <2>4, <2>13, <2>16, SMTT(20)
  <2>. QED BY <2>4, <2>6, <2>12, <2>14, <2>15, <2>17 DEF CountInv
<1>. QED BY <1>4, <1>5, <1>6, <1>7, <1>8, <1>9, <1>10, <1>11, StepKinds

-----------------------------------------------------------------------------
(* What the invariants say of the graphics ring, its line of m and its a   *)
(* accepted submissions.                                                   *)
LEMMA GraphicsFacts ==
    ASSUME TypeOK, ThreadInv, CursorInv, AcceptedInv, LineInv,
           NEW a, a = Len(accepted[0]), NEW m, m = Len(Line(0))
    PROVE  /\ 0 \in Queues /\ a \in Nat /\ m \in Nat /\ Past(0) = a - m
           /\ m > 0 => Live(0)
           /\ Live(0) => /\ a - m >= 0
                         /\ \A i \in 1..m : Line(0)[i].id = accepted[0][(a - m) + i]
                         /\ \A i \in 2..m : ~Line(0)[i].started
           /\ \A i \in 1..a : accepted[0][i] \in Submissions /\ QueueOf[accepted[0][i]] = 0
           /\ \A s \in Executed0 : \E k \in 1..a : accepted[0][k] = s
<1>1. 0 \in Queues
  BY QueueCountAssumption DEF Queues
<1>2. accepted \in [Queues -> Seq(Submissions)]
  BY DEF TypeOK
<1>3. a \in Nat /\ \A i \in 1..a : accepted[0][i] \in Submissions
  BY <1>1, <1>2, DomainFacts
<1>4. m \in Nat
  BY <1>1, LineFacts
<1>5. Past(0) = a - m
  BY DEF Past
<1>6. m > 0 => Live(0)
  BY DEF Live
<1>7. LineOK(0)
  BY <1>1 DEF LineInv
<1>8. Live(0) => /\ a - m >= 0
                 /\ \A i \in 1..m : Line(0)[i].id = accepted[0][(a - m) + i]
                 /\ \A i \in 2..m : ~Line(0)[i].started
  BY <1>5, <1>7 DEF LineOK
<1>9. \A i \in 1..a : QueueOf[accepted[0][i]] = 0
  BY <1>1 DEF AcceptedInv
<1>10. \A s \in Executed0 : \E k \in 1..a : accepted[0][k] = s
  <2>1. \A i \in 1..Len(executed[0]) : \E k \in 1..a : accepted[0][k] = executed[0][i][1]
    BY <1>1 DEF AcceptedInv
  <2>. QED BY <2>1 DEF Executed0
<1>. QED BY <1>1, <1>3, <1>4, <1>5, <1>6, <1>8, <1>9, <1>10

(* Only graphics submissions reset the context.                            *)
LEMMA ResetStep ==
    ASSUME TypeOK, TypeOK', ThreadInv, ThreadInv', CursorInv, ResetInv, Next
    PROVE  ResetInv'
<1> SUFFICES ASSUME NEW q \in Queues \ {0}, NEW i \in 1..Len(Line(q)') PROVE ~Line(q)'[i].reset
  BY DEF ResetInv
<1>0. \A j \in 1..Len(Line(q)) : ~Line(q)[j].reset
  BY DEF ResetInv
<1>1. ASSUME NEW j \in 1..Len(Line(q)), Line(q)'[i].reset = Line(q)[j].reset
      PROVE  ~Line(q)'[i].reset
  <2>1. ~Line(q)[j].reset
    BY <1>0
  <2>. QED BY <1>1, <2>1, Zenon
<1>2. ASSUME Agree(Line(q)', Line(q)) PROVE ~Line(q)'[i].reset
  <2>1. i \in 1..Len(Line(q)) /\ Line(q)'[i].reset = Line(q)[i].reset
    BY <1>2 DEF Agree
  <2>. QED BY <1>1, <2>1
<1>3. CASE Keeps
  BY <1>2, <1>3, KeepsFacts
<1>4. CASE BeginSlice \/ Executes
  <2>1. current'.reset = current.reset
    <3>1. CASE BeginSlice
      <4>1. current \in Records
        BY <3>1, CurrentFacts DEF BeginSlice, Slice
      <4>. QED BY <3>1, <4>1 DEF BeginSlice, Records
    <3>2. CASE Executes
      BY <3>2, ExecutesFacts
    <3>. QED BY <1>4, <3>1, <3>2
  <2>2. CASE QueueOf[current.id] # q
    <3>1. Line(q)' = Line(q)
      BY <1>4, <2>2, LineFront
    <3>. QED BY <1>0, <3>1
  <2>3. CASE QueueOf[current.id] = q
    <3>1. /\ Line(q)[1] = current /\ Line(q)'[1] = current'
          /\ Len(Line(q)') = Len(Line(q)) /\ Len(Line(q)) \in Nat \ {0}
          /\ \A j \in 2..Len(Line(q)) : Line(q)'[j] = Line(q)[j]
      BY <1>4, <2>3, LineFront
    <3>2. i \in 1..Len(Line(q)) /\ (i = 1 \/ i \in 2..Len(Line(q)))
      BY <3>1
    <3>3. Line(q)'[i].reset = Line(q)[i].reset
      BY <2>1, <3>1, <3>2
    <3>. QED BY <1>1, <3>2, <3>3
  <2>. QED BY <2>2, <2>3
<1>5. CASE SliceCompletes
  <2>1. CASE QueueOf[current.id] # q
    BY <1>2, <1>5, <2>1, LineDrops
  <2>2. CASE QueueOf[current.id] = q
    <3>1. /\ Len(Line(q)) \in Nat \ {0} /\ Len(Line(q)') = Len(Line(q)) - 1
          /\ \A j \in 1..(Len(Line(q)) - 1) : Line(q)'[j].reset = Line(q)[j + 1].reset
      BY <1>5, <2>2, LineDrops
    <3>2. i \in 1..(Len(Line(q)) - 1) /\ i + 1 \in 1..Len(Line(q))
      BY <3>1
    <3>3. Line(q)'[i].reset = Line(q)[i + 1].reset
      BY <3>1, <3>2
    <3>. QED BY <1>1, <3>2, <3>3
  <2>. QED BY <2>1, <2>2
<1>6. CASE LoopCancels
  <2>1. Line(q)' = <<>>
    BY <1>6, LineCanceled
  <2>. QED BY <2>1
<1>7. ASSUME NEW g \in Guests, NEW s \in Submissions, Submit(g, s) PROVE ~Line(q)'[i].reset
  <2>1. CASE QueueOf[s] # q
    <3>1. Line(q)' = Line(q)
      BY <1>7, <2>1, LineGrows
    <3>. QED BY <1>0, <3>1
  <2>2. CASE QueueOf[s] = q
    <3>1. PICK m \in Nat : m = Len(Line(q))
      BY LineFacts
    <3>2. /\ Len(Line(q)') = m + 1
          /\ \A j \in 1..m : Line(q)'[j] = Line(q)[j]
          /\ Line(q)'[m + 1].reset = ResetProcessor(s)
      BY <1>7, <2>2, <3>1, LineGrows, ZenonT(30)
    <3>3. CASE i = m + 1
      <4>1. ~ResetProcessor(s)
        BY <2>2 DEF ResetProcessor
      <4>. QED BY <3>2, <3>3, <4>1, Zenon
    <3>4. CASE i # m + 1
      <4>1. i \in 1..Len(Line(q)) /\ Line(q)'[i].reset = Line(q)[i].reset
        BY <3>1, <3>2, <3>4
      <4>. QED BY <1>1, <4>1
    <3>. QED BY <3>3, <3>4
  <2>. QED BY <2>1, <2>2
<1>. QED BY <1>3, <1>4, <1>5, <1>6, <1>7, LineKinds

(* The frames of what the graphics ring has accepted stay what they are.   *)
LEMMA AgeKeeps ==
    ASSUME TypeOK, AgeInv, accepted'[0] = accepted[0],
           m_done_num' = m_done_num, m_graphics_done' = m_graphics_done,
           \A i \in 1..Len(accepted[0]) : frame'[accepted[0][i]] = frame[accepted[0][i]],
           NEW a \in Nat, a = Len(accepted[0])
    PROVE  AgeInv' /\ \A n \in Int : n <= a => (Fresh(n)' <=> Fresh(n))
<1>1. ASSUME NEW n \in Int, n <= a PROVE Fresh(n)' <=> Fresh(n)
  <2>1. \A k \in 1..n : k \in 1..a
    BY <1>1
  <2>. QED BY <2>1 DEF Fresh
<1>2. Fresh(a)' <=> Fresh(a)
  BY <1>1
<1>3. \A i \in 1..Len(accepted'[0]) : frame'[accepted'[0][i]] <= m_done_num'
  BY DEF AgeInv
<1>4. m_graphics_done' <=> Fresh(Len(accepted[0]))'
  BY <1>2 DEF AgeInv, Fresh
<1>5. AgeInv'
  BY <1>3, <1>4, Zenon DEF AgeInv
<1>. QED BY <1>1, <1>5

(* So do those of its line, when a step at most moves its front on.        *)
LEMMA LineFrameKeeps ==
    ASSUME TypeOK, ThreadInv, CursorInv, AcceptedInv, LineInv, FrameInv,
           accepted'[0] = accepted[0], m_done_num' = m_done_num,
           m_graphics_done' = m_graphics_done,
           \A i \in 1..Len(accepted[0]) : frame'[accepted[0][i]] = frame[accepted[0][i]],
           Len(Line(0)') = Len(Line(0)),
           \A i \in 1..Len(Line(0)) : /\ Line(0)'[i].id = Line(0)[i].id
                                      /\ Line(0)'[i].reset = Line(0)[i].reset
    PROVE  AgeInv' /\ \A i \in 1..Len(Line(0)') : LineFrame(i)'
<1>0. PICK a, m : a = Len(accepted[0]) /\ m = Len(Line(0))
  OBVIOUS
<1>1. /\ a \in Nat /\ m \in Nat /\ Past(0) = a - m
      /\ m > 0 => Live(0)
      /\ Live(0) => a - m >= 0
      /\ \A i \in 1..m : Live(0) => Line(0)[i].id = accepted[0][(a - m) + i]
  BY <1>0, GraphicsFacts
<1>2. Past(0)' = a - m /\ Len(Line(0)') = m
  BY <1>0 DEF Past
<1>3. AgeInv' /\ \A n \in Int : n <= a => (Fresh(n)' <=> Fresh(n))
  BY <1>0, <1>1, AgeKeeps DEF FrameInv
<1>4. ASSUME NEW i \in 1..m PROVE LineFrame(i)'
  <2>1. Line(0)'[i].reset = Line(0)[i].reset /\ Line(0)'[i].id = Line(0)[i].id
    BY <1>0
  <2>2. LineFrame(i)
    BY <1>0 DEF FrameInv
  <2>3. (a - m) + i \in 1..a /\ Line(0)[i].id = accepted[0][(a - m) + i]
    BY <1>1
  <2>4. frame'[Line(0)'[i].id] = m_done_num'
    BY <1>0, <2>1, <2>2, <2>3, SMTT(20) DEF LineFrame
  <2>5. PICK n \in Int : n = (a - m) + i - 1 /\ n <= a
    BY <1>1, <2>3
  <2>6. Fresh(n)' <=> Fresh(n)
    BY <1>3, <2>5
  <2>7. Line(0)[i].reset <=> Fresh(n)
    BY <1>1, <2>2, <2>5 DEF LineFrame
  <2>8. Line(0)'[i].reset <=> Fresh(n)'
    BY <2>1, <2>6, <2>7, Zenon
  <2>9. n = (Past(0) + i - 1)'
    BY <1>2, <2>5
  <2>. QED BY <2>4, <2>8, <2>9, Zenon DEF LineFrame, Fresh
<1>. QED BY <1>2, <1>3, <1>4

(* The frames do not change while the graphics ring does not.              *)
LEMMA FrameKeeps ==
    ASSUME TypeOK, ThreadInv, CursorInv, AcceptedInv, LineInv, FrameInv, ResetInv',
           accepted'[0] = accepted[0], executed'[0] = executed[0], context' = context,
           m_done_num' = m_done_num, m_graphics_done' = m_graphics_done,
           \A i \in 1..Len(accepted[0]) : frame'[accepted[0][i]] = frame[accepted[0][i]],
           Agree(Line(0)', Line(0)), Live(0)' => Live(0)
    PROVE  FrameInv'
<1>0. PICK a, m : a = Len(accepted[0]) /\ m = Len(Line(0))
  OBVIOUS
<1>1. m \in Nat /\ \A s \in Executed0 : \E k \in 1..a : accepted[0][k] = s
  BY <1>0, GraphicsFacts
<1>2. Executed0' = Executed0 /\ Len(Line(0)') = m
  BY <1>0 DEF Executed0, Agree
<1>3. AgeInv' /\ \A i \in 1..Len(Line(0)') : LineFrame(i)'
  BY LineFrameKeeps DEF Agree
<1>4. ContextInv'
  <2>1. m > 0 => /\ Line(0)'[1].reset = Line(0)[1].reset
                 /\ Line(0)'[1].started = Line(0)[1].started
    BY <1>0, <1>1 DEF Agree
  <2>2. ContextInv
    BY DEF FrameInv
  <2>3. \A s \in Executed0 : frame'[s] = frame[s]
    BY <1>0, <1>1
  <2>4. {s \in Executed0 : frame[s] = m_done_num}' = {s \in Executed0 : frame[s] = m_done_num}
    BY <1>2, <2>3
  <2>. QED BY <1>0, <1>2, <2>1, <2>2, <2>4, Zenon DEF ContextInv
<1>. QED BY <1>3, <1>4 DEF FrameInv

(* While a graphics submission is executed its frame is open, and once it  *)
(* has been started the context holds what was executed of the frame.      *)
LEMMA OpenFrame ==
    ASSUME TypeOK, ThreadInv, CursorInv, AcceptedInv, LineInv, FrameInv,
           gpu \in Slice, QueueOf[current.id] = 0
    PROVE  /\ ~m_graphics_done /\ frame[current.id] = m_done_num
           /\ current.reset <=> Fresh(Past(0))
           /\ Line(0)[1] = current /\ Len(Line(0)) \in Nat \ {0} /\ Live(0)
           /\ ~Resets => context = {s \in Executed0 : frame[s] = m_done_num}
<1>0. PICK a, m : a = Len(accepted[0]) /\ m = Len(Line(0))
  OBVIOUS
<1>1. /\ a \in Nat /\ Past(0) = a - m
      /\ Live(0) => /\ a - m >= 0
                    /\ \A i \in 1..m : Line(0)[i].id = accepted[0][(a - m) + i]
  BY <1>0, GraphicsFacts
<1>2. Line(0)[1] = current /\ Len(Line(0)) \in Nat \ {0} /\ Live(0)
  BY CurrentAccepted
<1>3. LineFrame(1)
  BY <1>2 DEF FrameInv
<1>4. frame[current.id] = m_done_num
  BY <1>2, <1>3 DEF LineFrame
<1>5. (a - m) + 1 \in 1..a /\ accepted[0][(a - m) + 1] = current.id
  BY <1>0, <1>1, <1>2
<1>6. ~Fresh(a)
  BY <1>4, <1>5 DEF Fresh
<1>7. ~m_graphics_done
  BY <1>0, <1>6 DEF FrameInv, AgeInv
<1>8. Line(0)[1].reset <=> Fresh(Past(0) + 1 - 1)
  BY <1>3, Zenon DEF LineFrame
<1>9. Past(0) + 1 - 1 = Past(0)
  BY <1>0, <1>1, <1>2
<1>10. current.reset <=> Fresh(Past(0))
  BY <1>2, <1>8, <1>9, Zenon
<1>11. ~Resets => context = {s \in Executed0 : frame[s] = m_done_num}
  BY <1>2, <1>7, Zenon DEF FrameInv, ContextInv, Resets
<1>. QED BY <1>2, <1>4, <1>7, <1>10, <1>11, Zenon

(* Done ends the frame: the ring is empty, and the next submission resets. *)
LEMMA FrameDone ==
    ASSUME TypeOK, ThreadInv, DoneInv, CountInv, FrameInv, ResetInv',
           NEW g \in Guests, DoneReturns(g)
    PROVE  FrameInv'
<1>1. /\ pc[g] = "done" /\ m_graphics_done' = TRUE /\ m_done_num' = m_done_num + 1
      /\ UNCHANGED <<m_queues, current, accepted, frame>>
  BY DEF DoneReturns, queueState, slice, history
<1>2. m_submission_count = 0 /\ gpu \notin Slice
  BY <1>1 DEF DoneInv
<1>3. 0 \in Queues
  BY QueueCountAssumption DEF Queues
<1>4. m_queues[0] = <<>> /\ current = NoSubmission
  BY <1>2, <1>3, NothingQueued DEF ThreadInv
<1>5. Line(0)' = <<>>
  BY <1>1, <1>4 DEF Line
<1>6. accepted \in [Queues -> Seq(Submissions)] /\ m_done_num \in Nat
      /\ frame \in [Submissions -> Nat]
  BY DEF TypeOK
<1>7. \A i \in 1..Len(accepted[0]) : accepted[0][i] \in Submissions
  BY <1>3, <1>6, DomainFacts
<1>8. \A i \in 1..Len(accepted[0]) :
          frame[accepted[0][i]] <= m_done_num /\ frame[accepted[0][i]] \in Nat
  BY <1>6, <1>7 DEF FrameInv, AgeInv
<1>9. AgeInv'
  <2>1. \A i \in 1..Len(accepted[0]) :
            frame[accepted[0][i]] <= m_done_num + 1 /\ frame[accepted[0][i]] # m_done_num + 1
    BY <1>6, <1>8
  <2>2. Fresh(Len(accepted[0]))'
    BY <1>1, <2>1 DEF Fresh
  <2>3. \A i \in 1..Len(accepted'[0]) : frame'[accepted'[0][i]] <= m_done_num'
    BY <1>1, <2>1
  <2>. QED BY <1>1, <2>2, <2>3, Zenon DEF AgeInv
<1>10. ContextInv'
  BY <1>1 DEF ContextInv
<1>. QED BY <1>5, <1>9, <1>10 DEF FrameInv

(* A cancellation leaves nothing in line.                                  *)
LEMMA FrameCancel ==
    ASSUME TypeOK, ThreadInv, FrameInv, ResetInv', LoopCancels
    PROVE  FrameInv'
<1>1. 0 \in Queues
  BY QueueCountAssumption DEF Queues
<1>2. Line(0)' = <<>> /\ ~Live(0)'
  BY <1>1, LineCanceled
<1>3. UNCHANGED <<accepted, frame, m_done_num, m_graphics_done>>
  BY DEF LoopCancels, history, frames
<1>4. AgeInv'
  BY <1>3 DEF FrameInv, AgeInv, Fresh
<1>. QED BY <1>2, <1>4 DEF FrameInv, ContextInv

(* The first slice of a frame starts from an empty context; a later one,   *)
(* or one that resumes, finds the state of its frame.                      *)
LEMMA FrameBegin ==
    ASSUME TypeOK, TypeOK', ThreadInv, ThreadInv', CursorInv, AcceptedInv, LineInv,
           ExecutedInv, FrameInv, ResetInv', BeginSlice, QueueOf[current.id] = 0
    PROVE  FrameInv'
<1>1. /\ UNCHANGED <<accepted, executed, frame, m_done_num, m_graphics_done>>
      /\ context' = (IF Resets THEN {} ELSE context) /\ gpu = "begin"
      /\ current' = [current EXCEPT !.started = TRUE]
  BY DEF BeginSlice, history, frames
<1>2. gpu \in Slice
  BY <1>1 DEF Slice
<1>3. current \in Records /\ current # NoSubmission
  BY <1>2, CurrentFacts
<1>4. current'.id = current.id /\ current'.reset = current.reset /\ current'.started = TRUE
  BY <1>1, <1>3 DEF Records
<1>5. 0 \in Queues
  BY QueueCountAssumption DEF Queues
<1>6. PICK a, m : a = Len(accepted[0]) /\ m = Len(Line(0))
  OBVIOUS
<1>7. /\ Line(0)[1] = current /\ Line(0)'[1] = current'
      /\ Len(Line(0)') = m /\ m \in Nat \ {0}
      /\ \A i \in 2..m : Line(0)'[i] = Line(0)[i]
  BY <1>5, <1>6, LineFront
<1>8. \A i \in 1..m : Line(0)'[i].id = Line(0)[i].id /\ Line(0)'[i].reset = Line(0)[i].reset
  <2>1. \A i \in 1..m : i = 1 \/ i \in 2..m
    BY <1>7
  <2>. QED BY <1>4, <1>7, <2>1
<1>9. AgeInv' /\ \A i \in 1..Len(Line(0)') : LineFrame(i)'
  <2>1. Len(Line(0)') = Len(Line(0))
    BY <1>6, <1>7
  <2>2. \A i \in 1..Len(Line(0)) : /\ Line(0)'[i].id = Line(0)[i].id
                                   /\ Line(0)'[i].reset = Line(0)[i].reset
    BY <1>6, <1>8
  <2>. QED BY <1>1, <2>1, <2>2, LineFrameKeeps
<1>10. context' = {s \in Executed0 : frame[s] = m_done_num}
  <2>1. CASE ~Resets
    BY <1>1, <1>2, <2>1, OpenFrame
  <2>2. CASE Resets
    <3>1. Fresh(Past(0)) /\ Live(0)
      BY <1>2, <2>2, OpenFrame DEF Resets
    <3>2. current.pos = 0
      BY <1>3, <2>2 DEF CursorInv, CursorOK, Resets
    <3>3. ASSUME NEW s \in Executed0 PROVE frame[s] # m_done_num
      <4>1. PICK i \in 1..Len(executed[0]) : executed[0][i][1] = s
        BY DEF Executed0
      <4>2. executed[0][i][2] \in 1..Len(Program[executed[0][i][1]])
        BY <1>5 DEF AcceptedInv
      <4>3. \/ \E k \in 1..Past(0) : executed[0][i][1] = accepted[0][k]
            \/ executed[0][i][2] <= Line(0)[1].pos
        BY <1>5, <3>1 DEF ExecutedInv, ExecutedOK
      <4>4. PICK k \in 1..Past(0) : s = accepted[0][k]
        BY <1>7, <3>2, <4>1, <4>2, <4>3
      <4>. QED BY <3>1, <4>4 DEF Fresh
    <3>. QED BY <1>1, <2>2, <3>3
  <2>. QED BY <2>1, <2>2
<1>11. {s \in Executed0 : frame[s] = m_done_num}' = {s \in Executed0 : frame[s] = m_done_num}
  BY <1>1 DEF Executed0
<1>12. ContextInv'
  BY <1>10, <1>11 DEF ContextInv
<1>. QED BY <1>9, <1>12 DEF FrameInv

(* A graphics packet adds its submission to the context of its frame.      *)
LEMMA FrameExecutes ==
    ASSUME TypeOK, TypeOK', ThreadInv, ThreadInv', CursorInv, AcceptedInv, LineInv,
           FrameInv, ResetInv', Executes, QueueOf[current.id] = 0
    PROVE  FrameInv'
<1>1. /\ UNCHANGED <<accepted, frame, m_done_num, m_graphics_done>>
      /\ context' = context \cup {current.id}
      /\ current'.id = current.id /\ current'.reset = current.reset
      /\ executed' = [executed EXCEPT ![0] = Append(executed[0], <<current.id, current.pos + 1>>)]
  BY ExecutesFacts
<1>2. gpu \in Slice /\ current.started
  BY PacketFacts DEF Slice, ThreadInv
<1>3. current.id \in Submissions /\ current.pos \in Nat
  BY <1>2, CurrentFacts
<1>4. 0 \in Queues
  BY QueueCountAssumption DEF Queues
<1>5. PICK a, m : a = Len(accepted[0]) /\ m = Len(Line(0))
  OBVIOUS
<1>6. /\ Line(0)[1] = current /\ Line(0)'[1] = current'
      /\ Len(Line(0)') = m /\ m \in Nat \ {0}
      /\ \A i \in 2..m : Line(0)'[i] = Line(0)[i]
  BY <1>4, <1>5, LineFront
<1>7. \A i \in 1..m : Line(0)'[i].id = Line(0)[i].id /\ Line(0)'[i].reset = Line(0)[i].reset
  <2>1. \A i \in 1..m : i = 1 \/ i \in 2..m
    BY <1>6
  <2>. QED BY <1>1, <1>6, <2>1
<1>8. AgeInv' /\ \A i \in 1..Len(Line(0)') : LineFrame(i)'
  <2>1. Len(Line(0)') = Len(Line(0))
    BY <1>5, <1>6
  <2>2. \A i \in 1..Len(Line(0)) : /\ Line(0)'[i].id = Line(0)[i].id
                                   /\ Line(0)'[i].reset = Line(0)[i].reset
    BY <1>5, <1>7
  <2>. QED BY <1>1, <2>1, <2>2, LineFrameKeeps
<1>9. Executed0' = Executed0 \cup {current.id}
  <2>1. executed[0] \in Seq(Submissions \X Nat) /\ executed \in [Queues -> Seq(Submissions \X Nat)]
    BY <1>4 DEF TypeOK
  <2>2. PICK n, e : n = Len(executed[0]) /\ e = <<current.id, current.pos + 1>>
    OBVIOUS
  <2>3. e \in Submissions \X Nat /\ e[1] = current.id
    BY <1>3, <2>2
  <2>4. executed'[0] = Append(executed[0], e)
    BY <1>1, <1>4, <2>1, <2>2
  <2>5. /\ n \in Nat /\ Len(executed'[0]) = n + 1
        /\ \A i \in 1..n : executed'[0][i] = executed[0][i]
        /\ executed'[0][n + 1] = e
    BY <2>1, <2>2, <2>3, <2>4, AppendFacts
  <2>6. \A s \in Submissions : (\E i \in 1..(n + 1) : executed'[0][i][1] = s) <=>
                               (\E i \in 1..n : executed[0][i][1] = s) \/ s = current.id
    <3>1. \A i \in 1..(n + 1) : i \in 1..n \/ i = n + 1
      BY <2>5
    <3>2. n + 1 \in 1..(n + 1) /\ \A i \in 1..n : i \in 1..(n + 1)
      BY <2>5
    <3>. QED BY <2>3, <2>5, <3>1, <3>2
  <2>. QED BY <1>3, <2>2, <2>5, <2>6, SMTT(20) DEF Executed0
<1>10. context = {s \in Executed0 : frame[s] = m_done_num} /\ frame[current.id] = m_done_num
  BY <1>2, OpenFrame DEF Resets
<1>11. context' = {s \in Executed0' : frame'[s] = m_done_num'}
  BY <1>1, <1>9, <1>10
<1>12. ContextInv'
  BY <1>11 DEF ContextInv
<1>. QED BY <1>8, <1>12 DEF FrameInv

(* A completed graphics submission leaves its state to its frame.          *)
LEMMA FrameCompletes ==
    ASSUME TypeOK, TypeOK', ThreadInv, ThreadInv', CursorInv, AcceptedInv, LineInv,
           FrameInv, ResetInv', SliceCompletes, QueueOf[current.id] = 0
    PROVE  FrameInv'
<1>1. /\ UNCHANGED <<accepted, executed, frame, context, m_done_num, m_graphics_done>>
      /\ gpu = "return"
  BY DEF SliceCompletes, frames
<1>2. gpu \in Slice /\ current.started
  BY <1>1 DEF Slice, ThreadInv
<1>3. 0 \in Queues
  BY QueueCountAssumption DEF Queues
<1>4. PICK a, m : a = Len(accepted[0]) /\ m = Len(Line(0))
  OBVIOUS
<1>5. a \in Nat /\ m \in Nat /\ Past(0) = a - m /\ (Live(0) => a - m >= 0)
  BY <1>4, GraphicsFacts
<1>6. /\ Len(Line(0)') = m - 1 /\ m \in Nat \ {0}
      /\ \A i \in 1..(m - 1) : /\ Line(0)'[i].id = Line(0)[i + 1].id
                               /\ Line(0)'[i].reset = Line(0)[i + 1].reset
  BY <1>3, <1>4, LineDrops
<1>7. AgeInv' /\ \A n \in Int : n <= a => (Fresh(n)' <=> Fresh(n))
  BY <1>1, <1>4, <1>5, AgeKeeps DEF FrameInv
<1>8. Past(0)' = (a - m) + 1
  <2>1. Past(0)' = Len(accepted'[0]) - Len(Line(0)')
    BY DEF Past
  <2>2. Past(0)' = a - (m - 1)
    BY <1>1, <1>4, <1>6, <2>1
  <2>. QED BY <1>5, <2>2
<1>9. ASSUME NEW i \in 1..(m - 1) PROVE LineFrame(i)'
  <2>1. i + 1 \in 1..m /\ i \in Nat
    BY <1>6
  <2>2. LineFrame(i + 1)
    BY <1>4, <2>1 DEF FrameInv
  <2>3. Line(0)'[i].id = Line(0)[i + 1].id /\ Line(0)'[i].reset = Line(0)[i + 1].reset
    BY <1>6
  <2>4. frame'[Line(0)'[i].id] = m_done_num'
    BY <1>1, <2>2, <2>3 DEF LineFrame
  <2>5. PICK n \in Int : n = (a - m) + i /\ n <= a
    BY <1>5, <2>1
  <2>6. n = Past(0) + (i + 1) - 1
    BY <1>5, <2>1, <2>5
  <2>7. Line(0)[i + 1].reset <=> Fresh(n)
    BY <2>2, <2>6 DEF LineFrame
  <2>8. Fresh(n)' <=> Fresh(n)
    BY <1>7, <2>5
  <2>9. Line(0)'[i].reset <=> Fresh(n)'
    BY <2>3, <2>7, <2>8, Zenon
  <2>10. n = (Past(0) + i - 1)'
    BY <1>5, <1>8, <2>1, <2>5
  <2>. QED BY <2>4, <2>9, <2>10, Zenon DEF LineFrame, Fresh
<1>10. context = {s \in Executed0 : frame[s] = m_done_num}
  BY <1>2, OpenFrame DEF Resets
<1>11. {s \in Executed0 : frame[s] = m_done_num}' = {s \in Executed0 : frame[s] = m_done_num}
  BY <1>1 DEF Executed0
<1>12. ContextInv'
  BY <1>1, <1>10, <1>11 DEF ContextInv
<1>. QED BY <1>6, <1>7, <1>9, <1>12 DEF FrameInv

(* A new graphics submission belongs to the open frame, or opens it.       *)
LEMMA FrameSubmit ==
    ASSUME TypeOK, TypeOK', ThreadInv, ThreadInv', CursorInv, AcceptedInv, LineInv,
           FrameInv, ResetInv',
           NEW g \in Guests, NEW s \in Submissions, Submit(g, s), QueueOf[s] = 0
    PROVE  FrameInv'
<1>1. 0 \in Queues
  BY QueueCountAssumption DEF Queues
<1>2. PICK a, m : a = Len(accepted[0]) /\ m = Len(Line(0))
  OBVIOUS
<1>3. /\ a \in Nat /\ m \in Nat /\ Past(0) = a - m
      /\ Live(0) => a - m >= 0
      /\ \A i \in 1..m : Live(0) => Line(0)[i].id = accepted[0][(a - m) + i]
      /\ \A x \in Executed0 : \E k \in 1..a : accepted[0][k] = x
      /\ \A i \in 1..a : accepted[0][i] \in Submissions
  BY <1>2, GraphicsFacts
<1>4. /\ \A i \in 1..a : accepted[0][i] # s
      /\ Len(accepted'[0]) = a + 1
      /\ \A i \in 1..a : accepted'[0][i] = accepted[0][i]
      /\ accepted'[0][a + 1] = s
  <2>1. PICK r : r = QueueOf[s]
    OBVIOUS
  <2>2. a = Len(accepted[r])
    BY <1>2, <2>1
  <2>3. /\ \A i \in 1..a : accepted[r][i] # s
        /\ Len(accepted'[r]) = a + 1
        /\ \A i \in 1..a : accepted'[r][i] = accepted[r][i]
        /\ accepted'[r][a + 1] = s
    BY <2>1, <2>2, SubmitFacts
  <2>. QED BY <2>1, <2>3
<1>5. /\ m_accepting /\ frame' = [frame EXCEPT ![s] = m_done_num]
      /\ m_graphics_done' = FALSE
      /\ UNCHANGED <<executed, context, m_done_num>>
  BY SubmitFrame
<1>6. frame \in [Submissions -> Nat] /\ m_done_num \in Nat /\ m_graphics_done \in BOOLEAN
  BY DEF TypeOK
<1>7. frame'[s] = m_done_num /\ \A i \in 1..a : frame'[accepted[0][i]] = frame[accepted[0][i]]
  BY <1>3, <1>4, <1>5, <1>6
<1>8. Live(0)
  BY <1>5 DEF Live
<1>9. /\ Len(Line(0)') = m + 1
      /\ \A i \in 1..m : Line(0)'[i] = Line(0)[i]
      /\ Line(0)'[m + 1].id = s
      /\ Line(0)'[m + 1].started = FALSE
      /\ Line(0)'[m + 1].reset = ResetProcessor(s)
  BY <1>1, <1>2, LineGrows
<1>10. Past(0)' = a - m
  <2>1. Past(0)' = Len(accepted'[0]) - Len(Line(0)')
    BY DEF Past
  <2>2. Len(accepted'[0]) = a + 1 /\ Len(Line(0)') = m + 1
    BY <1>4, <1>9
  <2>3. (a + 1) - (m + 1) = a - m
    BY <1>3
  <2>. QED BY <2>1, <2>2, <2>3, Zenon
<1>11. ASSUME NEW n \in Int, n <= a PROVE Fresh(n)' <=> Fresh(n)
  <2>1. \A k \in 1..n : k \in 1..a
    BY <1>3, <1>11
  <2>2. \A k \in 1..n : accepted'[0][k] = accepted[0][k]
                        /\ frame'[accepted[0][k]] = frame[accepted[0][k]]
    BY <1>4, <1>7, <2>1
  <2>. QED BY <1>5, <2>2 DEF Fresh
<1>12. AgeInv
  BY DEF FrameInv
<1>13. AgeInv'
  <2>1. a + 1 \in 1..(a + 1) /\ \A i \in 1..(a + 1) : i \in 1..a \/ i = a + 1
    BY <1>3
  <2>2. ~Fresh(a + 1)'
    BY <1>4, <1>5, <1>7, <2>1 DEF Fresh
  <2>3. \A i \in 1..a : frame[accepted[0][i]] <= m_done_num
    BY <1>2, <1>12 DEF AgeInv
  <2>4. \A i \in 1..(a + 1) : frame'[accepted'[0][i]] <= m_done_num'
    BY <1>4, <1>5, <1>6, <1>7, <2>1, <2>3
  <2>5. ~Fresh(Len(accepted[0]))'
    BY <1>4, <2>2 DEF Fresh
  <2>6. \A i \in 1..Len(accepted'[0]) : frame'[accepted'[0][i]] <= m_done_num'
    BY <1>4, <2>4
  <2>. QED BY <1>5, <2>5, <2>6, Zenon DEF AgeInv
<1>14. ASSUME NEW i \in 1..m PROVE LineFrame(i)'
  <2>1. Line(0)'[i] = Line(0)[i] /\ LineFrame(i)
    BY <1>2, <1>9 DEF FrameInv
  <2>2. (a - m) + i \in 1..a /\ Line(0)[i].id = accepted[0][(a - m) + i]
    BY <1>3, <1>8
  <2>3. frame'[Line(0)'[i].id] = m_done_num'
    BY <1>5, <1>7, <2>1, <2>2 DEF LineFrame
  <2>4. PICK n \in Int : n = (a - m) + i - 1 /\ n <= a
    BY <1>3, <2>2
  <2>5. Line(0)[i].reset <=> Fresh(n)
    BY <1>3, <2>1, <2>4 DEF LineFrame
  <2>6. Fresh(n)' <=> Fresh(n)
    BY <1>11, <2>4
  <2>7. Line(0)'[i].reset <=> Fresh(n)'
    BY <2>1, <2>5, <2>6, Zenon
  <2>8. n = (Past(0) + i - 1)'
    BY <1>10, <2>4
  <2>. QED BY <2>3, <2>7, <2>8, Zenon DEF LineFrame, Fresh
<1>15. LineFrame(m + 1)'
  <2>1. frame'[Line(0)'[m + 1].id] = m_done_num'
    BY <1>5, <1>7, <1>9
  <2>2. ResetProcessor(s) <=> m_graphics_done
    BY DEF ResetProcessor
  <2>3. m_graphics_done <=> Fresh(a)
    BY <1>2, <1>12 DEF AgeInv
  <2>4. Fresh(a)' <=> Fresh(a)
    BY <1>3, <1>11
  <2>5. Line(0)'[m + 1].reset <=> Fresh(a)'
    BY <1>9, <2>2, <2>3, <2>4, Zenon
  <2>6. a = (Past(0) + (m + 1) - 1)'
    BY <1>3, <1>10
  <2>. QED BY <2>1, <2>5, <2>6, Zenon DEF LineFrame, Fresh
<1>16. ContextInv'
  <2>1. Executed0' = Executed0
    BY <1>5 DEF Executed0
  <2>2. \A x \in Executed0 : frame'[x] = frame[x]
    BY <1>3, <1>7
  <2>3. {x \in Executed0 : frame[x] = m_done_num}' = {x \in Executed0 : frame[x] = m_done_num}
    BY <1>5, <2>1, <2>2
  <2>4. ContextInv
    BY DEF FrameInv
  <2>5. CASE m_graphics_done
    <3>1. Fresh(a)
      BY <1>2, <1>12, <2>5 DEF AgeInv
    <3>2. m = 0
      <4>1. ASSUME m # 0 PROVE FALSE
        <5>1. (a - m) + 1 \in 1..a /\ Line(0)[1].id = accepted[0][(a - m) + 1] /\ 1 \in 1..m
          BY <1>3, <1>8, <4>1
        <5>2. frame[Line(0)[1].id] = m_done_num
          BY <1>2, <5>1 DEF FrameInv, LineFrame
        <5>. QED BY <3>1, <5>1, <5>2 DEF Fresh
      <4>. QED BY <4>1
    <3>3. ResetProcessor(s)
      BY <2>5 DEF ResetProcessor
    <3>4. Len(Line(0)') > 0 /\ Line(0)'[1].started = FALSE /\ Line(0)'[1].reset = ResetProcessor(s)
      BY <1>9, <3>2
    <3>. QED BY <3>3, <3>4, Zenon DEF ContextInv
  <2>6. CASE m > 0 /\ Line(0)[1].reset /\ ~Line(0)[1].started
    <3>1. Line(0)'[1] = Line(0)[1] /\ Len(Line(0)') > 0
      BY <1>3, <1>9, <2>6
    <3>. QED BY <2>6, <3>1 DEF ContextInv
  <2>7. CASE context = {x \in Executed0 : frame[x] = m_done_num}
    BY <1>5, <2>3, <2>7 DEF ContextInv
  <2>. QED BY <1>2, <1>8, <2>4, <2>5, <2>6, <2>7, Zenon DEF ContextInv
<1>17. \A i \in 1..Len(Line(0)') : LineFrame(i)'
  <2>1. \A i \in 1..(m + 1) : i \in 1..m \/ i = m + 1
    BY <1>3
  <2>. QED BY <1>9, <1>14, <1>15, <2>1
<1>. QED BY <1>13, <1>16, <1>17 DEF FrameInv

(* Every step keeps the frames apart.                                      *)
LEMMA FrameStep ==
    ASSUME TypeOK, TypeOK', ThreadInv, ThreadInv', CursorInv, DoneInv, AcceptedInv, LineInv,
           ExecutedInv, CountInv, FrameInv, Next
    PROVE  FrameInv'
<1>1. ResetInv'
  BY ResetStep DEF FrameInv
<1>2. 0 \in Queues
  BY QueueCountAssumption DEF Queues
<1>3. ASSUME Keeps, UNCHANGED <<m_done_num, m_graphics_done>> PROVE FrameInv'
  <2>1. UNCHANGED <<accepted, executed, frame, context>>
    BY <1>3, KeepsFacts
  <2>2. Agree(Line(0)', Line(0)) /\ (Live(0)' => Live(0))
    BY <1>2, <1>3, KeepsFacts
  <2>. QED BY <1>1, <1>3, <2>1, <2>2, FrameKeeps
<1>4. CASE Quiet
  BY <1>3, <1>4, QuietFrame DEF core, Keeps
<1>5. CASE LoopTakesSubmission \/ PollEnds \/ SliceBlocks \/ Shutdown
  <2>1. UNCHANGED <<m_done_num, m_graphics_done>>
    BY <1>5 DEF LoopTakesSubmission, PollEnds, SliceBlocks, Shutdown, frames
  <2>. QED BY <1>3, <1>5, <2>1 DEF Keeps
<1>6. ASSUME NEW g \in Guests, DoneReturns(g) PROVE FrameInv'
  BY <1>1, <1>6, FrameDone
<1>7. CASE LoopCancels
  BY <1>1, <1>7, FrameCancel
<1>8. CASE BeginSlice
  <2>1. CASE QueueOf[current.id] = 0
    BY <1>1, <1>8, <2>1, FrameBegin
  <2>2. CASE QueueOf[current.id] # 0
    <3>1. gpu \in Slice
      BY <1>8 DEF BeginSlice, Slice
    <3>2. PICK r : r = QueueOf[current.id]
      OBVIOUS
    <3>3. r \in Queues \ {0} /\ Line(r)[1] = current /\ Len(Line(r)) \in Nat \ {0}
      BY <2>2, <3>1, <3>2, CurrentAccepted
    <3>4. ~current.reset
      BY <3>3 DEF FrameInv, ResetInv
    <3>5. UNCHANGED <<accepted, executed, frame, context, m_done_num, m_graphics_done, m_accepting>>
      BY <1>8, <3>4 DEF BeginSlice, Resets, history, frames, lifecycle
    <3>6. Line(0)' = Line(0)
      BY <1>2, <1>8, <2>2, LineFront
    <3>7. Agree(Line(0)', Line(0)) /\ (Live(0)' => Live(0))
      BY <3>5, <3>6, Zenon DEF Agree, Live
    <3>. QED BY <1>1, <3>5, <3>7, FrameKeeps
  <2>. QED BY <2>1, <2>2
<1>9. CASE Executes
  <2>1. CASE QueueOf[current.id] = 0
    BY <1>1, <1>9, <2>1, FrameExecutes
  <2>2. CASE QueueOf[current.id] # 0
    <3>1. UNCHANGED <<accepted, frame, context, m_done_num, m_graphics_done, m_accepting>>
      BY <1>9, <2>2, ExecutesFacts
    <3>2. executed'[0] = executed[0]
      <4>1. executed' = [executed EXCEPT ![QueueOf[current.id]] =
                            Append(executed[QueueOf[current.id]], <<current.id, current.pos + 1>>)]
        BY <1>9, ExecutesFacts
      <4>. QED BY <1>2, <2>2, <4>1 DEF TypeOK
    <3>3. Line(0)' = Line(0)
      BY <1>2, <1>9, <2>2, LineFront
    <3>4. Agree(Line(0)', Line(0)) /\ (Live(0)' => Live(0))
      BY <3>1, <3>3, Zenon DEF Agree, Live
    <3>. QED BY <1>1, <3>1, <3>2, <3>4, FrameKeeps
  <2>. QED BY <2>1, <2>2
<1>10. CASE SliceCompletes
  <2>1. CASE QueueOf[current.id] = 0
    BY <1>1, <1>10, <2>1, FrameCompletes
  <2>2. CASE QueueOf[current.id] # 0
    <3>1. UNCHANGED <<accepted, executed, frame, context, m_done_num, m_graphics_done, m_accepting>>
      BY <1>10 DEF SliceCompletes, frames, lifecycle
    <3>2. Agree(Line(0)', Line(0))
      BY <1>2, <1>10, <2>2, LineDrops
    <3>3. Live(0)' => Live(0)
      BY <3>1, <3>2 DEF Agree, Live
    <3>. QED BY <1>1, <3>1, <3>2, <3>3, FrameKeeps
  <2>. QED BY <2>1, <2>2
<1>11. ASSUME NEW g \in Guests, NEW s \in Submissions, Submit(g, s) PROVE FrameInv'
  <2>1. CASE QueueOf[s] = 0
    BY <1>1, <1>11, <2>1, FrameSubmit
  <2>2. CASE QueueOf[s] # 0
    <3>1. /\ frame' = [frame EXCEPT ![s] = m_done_num]
          /\ m_graphics_done' = (m_graphics_done /\ QueueOf[s] # 0)
          /\ UNCHANGED <<executed, context, m_done_num>> /\ m_accepting
      BY <1>11, SubmitFrame
    <3>2. m_graphics_done' = m_graphics_done
      BY <2>2, <3>1 DEF TypeOK
    <3>3. accepted'[0] = accepted[0]
      <4>1. PICK r, n : r = QueueOf[s] /\ n = Len(accepted[r])
        OBVIOUS
      <4>2. \A q \in Queues : q # r => accepted'[q] = accepted[q]
        BY <1>11, <4>1, SubmitFacts
      <4>. QED BY <1>2, <2>2, <4>1, <4>2
    <3>4. \A i \in 1..Len(accepted[0]) :
              accepted[0][i] \in Submissions /\ QueueOf[accepted[0][i]] = 0
      BY GraphicsFacts
    <3>5. frame \in [Submissions -> Nat]
      BY DEF TypeOK
    <3>6. \A i \in 1..Len(accepted[0]) : frame'[accepted[0][i]] = frame[accepted[0][i]]
      BY <2>2, <3>1, <3>4, <3>5
    <3>7. Line(0)' = Line(0)
      BY <1>2, <1>11, <2>2, LineGrows, ZenonT(30)
    <3>8. Agree(Line(0)', Line(0)) /\ (Live(0)' => Live(0))
      BY <3>1, <3>7, Zenon DEF Agree, Live
    <3>. QED BY <1>1, <3>1, <3>2, <3>3, <3>6, <3>8, FrameKeeps
  <2>. QED BY <2>1, <2>2
<1>. QED BY <1>4, <1>5, <1>6, <1>7, <1>8, <1>9, <1>10, <1>11, StepKinds

-----------------------------------------------------------------------------
(* The oldest label on its way is published.                               *)
LEMMA AheadPublished ==
    ASSUME NEW L, NEW w \in Seq(Labels), w # <<>>, NEW x, NEW y, Ahead(L, w, x, y)
    PROVE  Ahead(L \cup {Head(w)}, Tail(w), x, y)
<1>1. /\ Head(w) = w[1] /\ Len(w) \in Nat \ {0} /\ Len(Tail(w)) = Len(w) - 1
      /\ \A i \in 1..(Len(w) - 1) : Tail(w)[i] = w[i + 1]
  BY TailFacts
<1>2. ASSUME y \in L \cup {Head(w)} PROVE x \in L
  <2>1. CASE y \in L
    BY <2>1 DEF Ahead
  <2>2. CASE y = w[1]
    <3>1. 1 \in 1..Len(w) /\ 1..(1 - 1) = {}
      BY <1>1
    <3>. QED BY <2>2, <3>1 DEF Ahead
  <2>. QED BY <1>1, <1>2, <2>1, <2>2
<1>3. ASSUME NEW b \in 1..(Len(w) - 1), w[b + 1] = y, x \notin L \cup {Head(w)}
      PROVE  \E a \in 1..(b - 1) : Tail(w)[a] = x
  <2>1. b + 1 \in 1..Len(w) /\ b \in Nat
    BY <1>1
  <2>2. PICK a \in 1..((b + 1) - 1) : w[a] = x
    BY <1>3, <2>1 DEF Ahead
  <2>3. a # 1
    BY <1>1, <1>3, <2>2
  <2>4. a - 1 \in 1..(b - 1) /\ a - 1 \in 1..(Len(w) - 1) /\ (a - 1) + 1 = a
    BY <1>1, <2>1, <2>2, <2>3
  <2>5. Tail(w)[a - 1] = w[(a - 1) + 1]
    BY <1>1, <2>4
  <2>. QED BY <2>2, <2>4, <2>5
<1>. QED BY <1>1, <1>2, <1>3 DEF Ahead

(* Another label is stored at once.                                        *)
LEMMA AheadStored ==
    ASSUME NEW L, NEW w, NEW x, NEW y, NEW l, Ahead(L, w, x, y), l # y
    PROVE  Ahead(L \cup {l}, w, x, y)
  BY DEF Ahead

(* Another label is recorded.                                              *)
LEMMA AheadRecorded ==
    ASSUME NEW L, NEW w \in Seq(Labels), NEW x, NEW y, NEW l \in Labels, Ahead(L, w, x, y), l # y
    PROVE  Ahead(L, Append(w, l), x, y)
<1>1. /\ Len(w) \in Nat /\ Len(Append(w, l)) = Len(w) + 1
      /\ \A i \in 1..Len(w) : Append(w, l)[i] = w[i]
      /\ Append(w, l)[Len(w) + 1] = l
  BY AppendFacts
<1>2. ASSUME NEW b \in 1..(Len(w) + 1), Append(w, l)[b] = y, x \notin L
      PROVE  \E a \in 1..(b - 1) : Append(w, l)[a] = x
  <2>1. b \in 1..Len(w)
    BY <1>1, <1>2
  <2>2. PICK a \in 1..(b - 1) : w[a] = x
    BY <1>1, <1>2, <2>1 DEF Ahead
  <2>3. a \in 1..Len(w)
    BY <1>1, <2>1
  <2>. QED BY <1>1, <2>2, <2>3
<1>. QED BY <1>1, <1>2 DEF Ahead

(* The label itself is recorded, behind x.                                 *)
LEMMA AheadLast ==
    ASSUME NEW L, NEW w \in Seq(Labels), NEW x, NEW y \in Labels, y \notin L,
           \A b \in 1..Len(w) : w[b] # y,
           x \in L \/ \E a \in 1..Len(w) : w[a] = x
    PROVE  Ahead(L, Append(w, y), x, y)
<1>1. /\ Len(w) \in Nat /\ Len(Append(w, y)) = Len(w) + 1
      /\ \A i \in 1..Len(w) : Append(w, y)[i] = w[i]
  BY AppendFacts
<1>2. ASSUME NEW b \in 1..(Len(w) + 1), Append(w, y)[b] = y, x \notin L
      PROVE  \E a \in 1..(b - 1) : Append(w, y)[a] = x
  <2>1. b = Len(w) + 1
    BY <1>1, <1>2
  <2>2. PICK a \in 1..Len(w) : w[a] = x
    BY <1>2
  <2>3. a \in 1..(b - 1)
    BY <1>1, <2>1
  <2>. QED BY <1>1, <2>2, <2>3
<1>. QED BY <1>1, <1>2 DEF Ahead

(* A packet that is about to be executed has not been executed before.     *)
LEMMA PacketIsNew ==
    ASSUME TypeOK, ThreadInv, CursorInv, AcceptedInv, LineInv, ExecutedInv, Executes,
           NEW q \in Queues, NEW i \in 1..Len(executed[q])
    PROVE  ~(executed[q][i][1] = current.id /\ executed[q][i][2] = current.pos + 1)
<1>1. PICK r : r = QueueOf[current.id]
  OBVIOUS
<1>2. gpu \in Slice
  BY PacketFacts DEF Slice
<1>3. /\ r \in Queues /\ Live(r) /\ Past(r) \in Nat /\ Line(r)[1] = current
      /\ Len(accepted[r]) \in Nat
      /\ Past(r) + 1 \in 1..Len(accepted[r]) /\ accepted[r][Past(r) + 1] = current.id
  BY <1>1, <1>2, CurrentAccepted
<1>4. current.pos \in Nat
  BY <1>2, CurrentFacts
<1>5. PICK k \in 1..Len(accepted[q]) : accepted[q][k] = executed[q][i][1]
  BY DEF AcceptedInv
<1>6. QueueOf[executed[q][i][1]] = q
  BY <1>5 DEF AcceptedInv
<1>7. CASE q # r
  BY <1>1, <1>6, <1>7
<1>8. CASE q = r
  <2>1. \/ \E j \in 1..Past(r) : executed[r][i][1] = accepted[r][j]
        \/ executed[r][i][2] <= Line(r)[1].pos
    BY <1>3, <1>8 DEF ExecutedInv, ExecutedOK
  <2>2. CASE executed[r][i][2] <= current.pos
    BY <1>4, <1>8, <2>2
  <2>3. ASSUME NEW j \in 1..Past(r), executed[r][i][1] = accepted[r][j]
        PROVE  executed[r][i][1] # current.id
    <3>1. j \in 1..Len(accepted[r]) /\ j # Past(r) + 1
      BY <1>3, <2>3
    <3>. QED BY <1>3, <2>3, <3>1 DEF AcceptedInv
  <2>. QED BY <1>3, <1>8, <2>1, <2>2, <2>3
<1>. QED BY <1>7, <1>8

(* So nobody has written its label.                                        *)
LEMMA LabelIsNew ==
    ASSUME OneWriterPerLabel, TypeOK, ThreadInv, CursorInv, PipelineInv, AcceptedInv, LineInv,
           ExecutedInv, Executes, Packet.op \in {"write", "data"}
    PROVE  /\ Packet.label \notin labels
           /\ \A b \in 1..Len(Way) : Way[b] # Packet.label
           /\ \A q \in Queues : \A i \in 1..Len(executed[q]) :
                 PacketAt(q, i).op = "write" => PacketAt(q, i).label # Packet.label
<1>1. PICK c, p : c = current.id /\ p = current.pos + 1
  OBVIOUS
<1>2. gpu \in Slice /\ p \in 1..Len(Program[c]) /\ Packet = Program[c][p]
  BY <1>1, PacketFacts DEF Slice, Packet
<1>3. c \in Submissions
  BY <1>1, <1>2, CurrentFacts
<1>4. ASSUME NEW q \in Queues, NEW i \in 1..Len(executed[q]),
             PacketAt(q, i).op \in {"write", "data"}
      PROVE  PacketAt(q, i).label # Packet.label
  <2>1. PICK s, j : s = executed[q][i][1] /\ j = executed[q][i][2]
    OBVIOUS
  <2>2. PacketAt(q, i) = Program[s][j]
    BY <2>1 DEF PacketAt
  <2>3. ~(s = c /\ j = p)
    BY <1>1, <2>1, PacketIsNew
  <2>4. j \in 1..Len(Program[s])
    BY <2>1 DEF AcceptedInv
  <2>5. s \in Submissions
    <3>1. executed \in [Queues -> Seq(Submissions \X Nat)]
      BY DEF TypeOK
    <3>2. executed[q][i] \in Submissions \X Nat
      BY <3>1, DomainFacts
    <3>. QED BY <2>1, <3>2
  <2>6. Writes(s, j) /\ Writes(c, p)
    BY <1>2, <1>4, <2>2 DEF Writes
  <2>. QED BY <1>2, <1>3, <2>2, <2>3, <2>4, <2>5, <2>6 DEF OneWriterPerLabel
<1>5. Packet.label \notin Written
  BY <1>4, WrittenFacts
<1>6. Packet.label \notin CpuLabels
  BY <1>2, <1>3 DEF OneWriterPerLabel, Writes
<1>7. labels \subseteq Written \cup CpuLabels /\ \A a \in 1..Len(Way) : Way[a] \in Written
  BY DEF PipelineInv
<1>. QED BY <1>4, <1>5, <1>6, <1>7

(* Every step keeps the labels of a ring in the order it wrote them.       *)
LEMMA OrderStep ==
    ASSUME OneWriterPerLabel, TypeOK, TypeOK', ThreadInv, CursorInv, PipelineInv, AcceptedInv,
           LineInv, ExecutedInv, OrderInv, Next
    PROVE  OrderInv'
<1>1. Way \in Seq(Labels)
  BY WayFacts
<1>2. CASE ~Executes
  <2>1. UNCHANGED executed
    BY <1>2, OtherLabels
  <2> SUFFICES ASSUME NEW q \in Queues, NEW j \in 1..Len(executed[q]), NEW i \in 1..(j - 1),
                      PacketAt(q, j).op = "write", PacketAt(q, i).op = "write"
               PROVE  Ahead(labels', Way', PacketAt(q, i).label, PacketAt(q, j).label)
    <3>1. \A q, i : PacketAt(q, i)' = PacketAt(q, i)
      BY <2>1 DEF PacketAt
    <3>. QED BY <2>1, <3>1 DEF OrderInv, Ahead
  <2>2. PICK x, y : x = PacketAt(q, i).label /\ y = PacketAt(q, j).label
    OBVIOUS
  <2>3. Ahead(labels, Way, x, y)
    BY <2>2 DEF OrderInv
  <2>4. CASE UNCHANGED <<Way, labels>>
    BY <2>2, <2>3, <2>4
  <2>5. CASE Way # <<>> /\ Way' = Tail(Way) /\ labels' = labels \cup {Head(Way)}
    BY <1>1, <2>2, <2>3, <2>5, AheadPublished
  <2>6. ASSUME NEW l \in CpuLabels, labels' = labels \cup {l}, UNCHANGED Way
        PROVE  Ahead(labels', Way', x, y)
    <3>1. l # y
      <4>1. PICK s, k : s = executed[q][j][1] /\ k = executed[q][j][2]
        OBVIOUS
      <4>2. PacketAt(q, j) = Program[s][k]
        BY <4>1 DEF PacketAt
      <4>3. k \in 1..Len(Program[s])
        BY <4>1 DEF AcceptedInv
      <4>4. s \in Submissions
        <5>1. executed \in [Queues -> Seq(Submissions \X Nat)]
          BY DEF TypeOK
        <5>2. executed[q][j] \in Submissions \X Nat
          BY <5>1, DomainFacts
        <5>. QED BY <4>1, <5>2
      <4>. QED BY <2>2, <2>6, <4>2, <4>3, <4>4 DEF OneWriterPerLabel, Writes
    <3>. QED BY <2>3, <2>6, <3>1, AheadStored
  <2>. QED BY <1>2, <2>2, <2>4, <2>5, <2>6, OtherLabels
<1>3. CASE Executes
  <2>0. PICK r, n : r = QueueOf[current.id] /\ n = Len(executed[r])
    OBVIOUS
  <2>1. /\ r \in Queues /\ n \in Nat /\ Len(executed'[r]) = n + 1
        /\ PacketAt(r, n + 1)' = Packet
        /\ \A q \in Queues : q # r => executed'[q] = executed[q]
        /\ \A q \in Queues : \A i \in 1..Len(executed[q]) : PacketAt(q, i)' = PacketAt(q, i)
    BY <1>3, <2>0, HistoryGrows
  <2>2. PICK l : l = Packet.label
    OBVIOUS
  <2>3. l \in Labels
    BY <1>3, <2>2, PacketFacts
  <2>4. ASSUME NEW x, NEW y, Ahead(labels, Way, x, y), Packet.op \in {"write", "data"} => l # y
        PROVE  Ahead(labels', Way', x, y)
    <3>1. CASE Packet.op = "write" /\ Way' = Append(Way, Packet.label) /\ UNCHANGED labels
      BY <1>1, <2>2, <2>3, <2>4, <3>1, AheadRecorded
    <3>2. CASE Packet.op = "data" /\ labels' = labels \cup {Packet.label} /\ UNCHANGED Way
      BY <2>2, <2>4, <3>2, AheadStored
    <3>3. CASE UNCHANGED <<Way, labels>>
      BY <2>4, <3>3
    <3>. QED BY <1>3, <3>1, <3>2, <3>3, ExecutesLabels
  <2>5. ASSUME NEW q \in Queues, NEW j \in 1..Len(executed[q]), NEW i \in 1..(j - 1),
               PacketAt(q, j)'.op = "write", PacketAt(q, i)'.op = "write"
        PROVE  Ahead(labels', Way', PacketAt(q, i)'.label, PacketAt(q, j)'.label)
    <3>1. Len(executed[q]) \in Nat
      BY DomainFacts DEF TypeOK
    <3>2. i \in 1..Len(executed[q])
      BY <3>1
    <3>3. PacketAt(q, j)' = PacketAt(q, j) /\ PacketAt(q, i)' = PacketAt(q, i)
      BY <2>1, <3>2
    <3>4. PICK x, y : x = PacketAt(q, i).label /\ y = PacketAt(q, j).label
      OBVIOUS
    <3>5. Ahead(labels, Way, x, y)
      BY <2>5, <3>3, <3>4 DEF OrderInv
    <3>6. Packet.op \in {"write", "data"} => l # y
      BY <1>3, <2>2, <2>5, <3>3, <3>4, LabelIsNew
    <3>. QED BY <2>4, <3>3, <3>4, <3>5, <3>6
  <2>6. ASSUME NEW i \in 1..n, Packet.op = "write", PacketAt(r, i)'.op = "write"
        PROVE  Ahead(labels', Way', PacketAt(r, i)'.label, l)
    <3>1. PICK x : x = PacketAt(r, i).label
      OBVIOUS
    <3>2. PacketAt(r, i)' = PacketAt(r, i)
      BY <2>0, <2>1
    <3>3. x \in labels \/ \E a \in 1..Len(Way) : Way[a] = x
      BY <2>0, <2>1, <2>6, <3>1, <3>2 DEF PipelineInv
    <3>4. l \notin labels /\ \A b \in 1..Len(Way) : Way[b] # l
      BY <1>3, <2>2, <2>6, LabelIsNew
    <3>5. Way' = Append(Way, l) /\ UNCHANGED labels
      BY <1>3, <2>2, <2>6, ExecutesLabels
    <3>6. Ahead(labels, Append(Way, l), x, l)
      BY <1>1, <2>3, <3>3, <3>4, AheadLast
    <3>. QED BY <3>1, <3>2, <3>5, <3>6
  <2>7. ASSUME NEW q \in Queues, NEW j \in 1..Len(executed'[q]), NEW i \in 1..(j - 1),
               PacketAt(q, j)'.op = "write", PacketAt(q, i)'.op = "write"
        PROVE  Ahead(labels', Way', PacketAt(q, i)'.label, PacketAt(q, j)'.label)
    <3>1. CASE j \in 1..Len(executed[q])
      BY <2>5, <2>7, <3>1
    <3>2. CASE q = r /\ j = n + 1
      <4>1. i \in 1..n
        BY <2>1, <3>2
      <4>2. PacketAt(q, j)' = Packet
        BY <2>1, <3>2
      <4>. QED BY <2>2, <2>6, <2>7, <3>2, <4>1, <4>2
    <3>3. j \in 1..Len(executed[q]) \/ (q = r /\ j = n + 1)
      BY <2>0, <2>1
    <3>. QED BY <3>1, <3>2, <3>3
  <2>. QED BY <2>7 DEF OrderInv, Ahead
<1>. QED BY <1>2, <1>3

-----------------------------------------------------------------------------
(* At the start every ring is empty.                                       *)
LEMMA StartsEmpty ==
    ASSUME Init
    PROVE  /\ \A q \in Queues : /\ m_queues[q] = <<>> /\ accepted[q] = <<>>
                                /\ executed[q] = <<>> /\ Line(q) = <<>>
           /\ 0 \in Queues /\ Way = <<>> /\ Accepted = {} /\ Slots = {} /\ Waiting = {}
           /\ Written = {} /\ Taken = 0
<1>1. 0 \in Queues
  BY QueueCountAssumption DEF Queues
<1>2. \A q \in Queues : m_queues[q] = <<>> /\ accepted[q] = <<>> /\ executed[q] = <<>>
  BY DEF Init
<1>3. \A q \in Queues : Line(q) = <<>>
  BY <1>2 DEF Init, Line
<1>4. Way = <<>>
  BY DEF Init, Way
<1>5. Accepted = {}
  <2>1. ASSUME NEW s \in Submissions PROVE ~\E i \in DOMAIN accepted[QueueOf[s]] :
                                               accepted[QueueOf[s]][i] = s
    <3>1. accepted[QueueOf[s]] = <<>>
      BY <1>2, ProgramFacts
    <3>. QED BY <3>1
  <2>. QED BY <2>1 DEF Accepted
<1>6. Slots = {} /\ Waiting = {} /\ Written = {}
  BY <1>2, <1>3 DEF Slots, Waiting, Written
<1>7. Taken = 0
  BY DEF Init, Taken
<1>. QED BY <1>1, <1>2, <1>3, <1>4, <1>5, <1>6, <1>7

(* The invariant holds at the start.                                       *)
LEMMA IndInvInit ==
    ASSUME Init
    PROVE  IndInv
<1>0. /\ \A q \in Queues : /\ m_queues[q] = <<>> /\ accepted[q] = <<>>
                           /\ executed[q] = <<>> /\ Line(q) = <<>>
      /\ 0 \in Queues /\ Way = <<>> /\ Accepted = {} /\ Slots = {} /\ Waiting = {}
      /\ Written = {} /\ Taken = 0
  BY StartsEmpty
<1>1. TypeOK
  <2>1. ControlType
    <3>1. m_next_queue \in Queues /\ m_commands \in Seq(Guests)
          /\ pc \in [Guests -> GuestLabels] /\ gpu \in GpuLabels
      BY <1>0 DEF Init, GuestLabels, GpuLabels
    <3>2. /\ m_processing \in BOOLEAN /\ terminated \in BOOLEAN
          /\ progressed \in BOOLEAN /\ round_progress \in BOOLEAN
      BY DEF Init
    <3>3. /\ shutdown \in {"no", "join", "complete"}
          /\ m_submission_mutex \in Guests \cup {"free"} /\ command \in Guests \cup {"free"}
          /\ m_requests \subseteq Labels
      BY DEF Init
    <3>. QED BY <3>1, <3>2, <3>3, Zenon DEF ControlType
  <2>2. PipelineType
    BY DEF Init, PipelineType
  <2>3. CoreType
    <3>1. /\ m_queues \in [Queues -> Seq(Records)] /\ accepted \in [Queues -> Seq(Submissions)]
          /\ executed \in [Queues -> Seq(Submissions \X Nat)] /\ frame \in [Submissions -> Nat]
      BY DEF Init
    <3>2. m_accepting \in BOOLEAN /\ m_stopping \in BOOLEAN /\ m_graphics_done \in BOOLEAN
      BY DEF Init
    <3>3. m_submission_count \in Nat /\ m_canceled_submissions \in Nat /\ m_done_num \in Nat
      BY DEF Init
    <3>4. /\ current \in Records \cup {NoSubmission} /\ context \subseteq Submissions
          /\ completed \subseteq Submissions
      BY DEF Init
    <3>. QED BY <3>1, <3>2, <3>3, <3>4, Zenon DEF CoreType
  <2>. QED BY <2>1, <2>2, <2>3, TypeParts
<1>2. ThreadInv
  BY DEF Init, ThreadInv, Slice
<1>3. CursorInv
  BY <1>0 DEF Init, CursorInv, FlipWaitOK
<1>4. CommandInv
  <2>1. "free" \notin Guests
    BY SubmissionsAssumption, Zenon
  <2>. QED BY <2>1 DEF Init, CommandInv
<1>5. DoneInv
  <2>1. "free" \notin Guests
    BY SubmissionsAssumption, Zenon
  <2>. QED BY <2>1 DEF Init, DoneInv
<1>6. PipelineInv
  BY <1>0 DEF Init, PipelineInv
<1>7. AcceptedInv
  BY <1>0 DEF AcceptedInv
<1>8. LineInv
  BY <1>0 DEF LineInv, LineOK, Past
<1>9. ExecutedInv
  BY <1>0 DEF ExecutedInv, ExecutedOK, Past
<1>10. RingOrder
  BY <1>0 DEF RingOrder, InOrder
<1>11. FrameInv
  <2>1. ResetInv
    BY <1>0 DEF ResetInv
  <2>2. AgeInv
    BY <1>0 DEF Init, AgeInv, Fresh
  <2>3. ContextInv
    BY DEF Init, ContextInv
  <2>. QED BY <1>0, <2>1, <2>2, <2>3 DEF FrameInv
<1>12. CountInv
  <2>1. IsFiniteSet({}) /\ Cardinality({}) = 0
    BY FS_EmptySet
  <2>. QED BY <1>0, <2>1 DEF Init, CountInv
<1>. QED BY <1>1, <1>2, <1>3, <1>4, <1>5, <1>6, <1>7, <1>8, <1>9, <1>10, <1>11,
            <1>12 DEF IndInv

(* Every step keeps it.                                                    *)
LEMMA IndInvStep ==
    ASSUME IndInv, Next
    PROVE  IndInv'
<1>0. /\ TypeOK /\ ThreadInv /\ CursorInv /\ CommandInv /\ DoneInv /\ PipelineInv
      /\ AcceptedInv /\ LineInv /\ ExecutedInv /\ RingOrder /\ FrameInv /\ CountInv
  BY DEF IndInv
<1>1. TypeOK'
  BY <1>0, TypeStep
<1>2. ThreadInv'
  BY <1>0, ThreadStep
<1>3. CursorInv' /\ CommandInv' /\ DoneInv'
  BY <1>0, CursorStep, CommandStep, DoneStep
<1>4. PipelineInv'
  BY <1>0, <1>1, PipelineStep
<1>5. AcceptedInv' /\ LineInv'
  BY <1>0, <1>1, <1>2, AcceptedStep, LineStep
<1>6. ExecutedInv' /\ RingOrder'
  BY <1>0, <1>1, <1>2, ExecutedStep, RingOrderStep
<1>7. FrameInv'
  BY <1>0, <1>1, <1>2, FrameStep
<1>8. CountInv'
  BY <1>0, <1>1, <1>2, <1>5, CountStep
<1>. QED BY <1>1, <1>2, <1>3, <1>4, <1>5, <1>6, <1>7, <1>8 DEF IndInv

(* Nothing happens to it when nothing happens.                             *)
LEMMA IndInvStutter ==
    ASSUME IndInv, UNCHANGED vars
    PROVE  IndInv'
<1>1. /\ UNCHANGED core
      /\ UNCHANGED <<m_next_queue, m_commands, m_processing, shutdown, terminated,
                     m_submission_mutex, m_requests, pc, gpu, progressed, round_progress,
                     command, recorded, inFlight, labels>>
  BY DEF vars, core, queueState, lifecycle, frames, slice, pipeline, history
<1> USE DEF core
<1>2. TypeOK' /\ ThreadInv' /\ CursorInv' /\ CommandInv' /\ DoneInv'
  <2>1. TypeOK'
    BY <1>1 DEF IndInv, TypeOK
  <2>2. ThreadInv'
    BY <1>1 DEF IndInv, ThreadInv
  <2>3. CursorInv'
    BY <1>1 DEF IndInv, CursorInv, CursorOK, FlipWaitOK, Packet
  <2>4. CommandInv' /\ DoneInv'
    BY <1>1 DEF IndInv, CommandInv, DoneInv
  <2>. QED BY <2>1, <2>2, <2>3, <2>4
<1>3. \A q : Line(q)' = Line(q)
  BY <1>1, LineUnchanged
<1>4. PipelineInv'
  <2>1. Way' = Way /\ Written' = Written /\ \A q, i : PacketAt(q, i)' = PacketAt(q, i)
    BY <1>1 DEF Way, Written, PacketAt
  <2>. QED BY <1>1, <2>1 DEF IndInv, PipelineInv
<1>5. \A q : Past(q)' = Past(q) /\ (Live(q)' <=> Live(q))
  BY <1>1, <1>3 DEF Past, Live
<1>6. AcceptedInv' /\ RingOrder'
  <2>1. accepted' = accepted /\ executed' = executed
    BY <1>1
  <2>2. AcceptedInv'
    BY <2>1 DEF IndInv, AcceptedInv
  <2>3. RingOrder
    BY DEF IndInv
  <2>4. RingOrder'
    BY <2>1, <2>3, Zenon DEF RingOrder, InOrder, Follows
  <2>. QED BY <2>2, <2>4
<1>7. LineInv'
  BY <1>1, <1>3, <1>5 DEF IndInv, LineInv, LineOK
<1>8. ExecutedInv'
  <2>1. \A q : LastExecuted(q)' = LastExecuted(q)
    BY <1>1 DEF LastExecuted
  <2>. QED BY <1>1, <1>3, <1>5, <2>1 DEF IndInv, ExecutedInv, ExecutedOK
<1>9. FrameInv'
  <2>1. Executed0' = Executed0 /\ \A n : Fresh(n)' <=> Fresh(n)
    BY <1>1 DEF Executed0, Fresh
  <2>2. ResetInv' /\ AgeInv'
    BY <1>1, <1>3, <2>1 DEF IndInv, FrameInv, ResetInv, AgeInv, Fresh
  <2>3. ContextInv'
    BY <1>1, <1>3, <1>5, <2>1 DEF IndInv, FrameInv, ContextInv
  <2>4. ASSUME NEW i \in 1..Len(Line(0)) PROVE LineFrame(i)'
    BY <1>1, <1>3, <1>5 DEF IndInv, FrameInv, LineFrame, Fresh
  <2>. QED BY <1>3, <2>2, <2>3, <2>4 DEF FrameInv
<1>10. CountInv'
  <2>1. Slots' = Slots /\ Accepted' = Accepted /\ Waiting' = Waiting /\ Taken' = Taken
    BY <1>1, <1>3 DEF Slots, Accepted, Waiting, Taken
  <2>. QED BY <1>1, <2>1 DEF IndInv, CountInv
<1>. QED BY <1>2, <1>4, <1>6, <1>7, <1>8, <1>9, <1>10 DEF IndInv

(* The invariant holds in every reachable state of GuestGpu.               *)
THEOREM Invariance == Spec => []IndInv
<1>1. Init => IndInv
  BY IndInvInit
<1>2. IndInv /\ [Next]_vars => IndInv'
  BY IndInvStep, IndInvStutter
<1>. QED BY <1>1, <1>2, PTL DEF Spec

(* Every member of GuestGpu keeps its type.                                *)
THEOREM TypeCorrect == Spec => []TypeOK
<1>1. IndInv => TypeOK
  BY DEF IndInv
<1>. QED BY <1>1, Invariance, PTL

-----------------------------------------------------------------------------
(* What Pending holds is what is in line.                                  *)
LEMMA PendingFacts ==
    ASSUME TypeOK, ThreadInv
    PROVE  /\ Pending \ {"none"} = Waiting
           /\ Cardinality({current.id} \ {"none"}) = Taken
<1>1. \A q \in Queues : m_queues[q] \in Seq(Records) /\ DOMAIN m_queues[q] = 1..Len(m_queues[q])
                        /\ Len(m_queues[q]) \in Nat
  BY DEF TypeOK
<1>2. "none" \notin Submissions
  BY SubmissionsAssumption, Zenon
<1>3. ASSUME NEW q \in Queues, NEW i \in 1..Len(m_queues[q])
      PROVE  m_queues[q][i].id \in Waiting /\ m_queues[q][i].id \in Submissions
  <2>1. m_queues[q][i] \in Records
    BY <1>1
  <2>2. CASE gpu \notin Slice \/ QueueOf[current.id] # q
    <3>1. Line(q) = m_queues[q]
      BY <2>2, LineFacts
    <3>. QED BY <2>1, <3>1 DEF Waiting, Records
  <2>3. CASE gpu \in Slice /\ QueueOf[current.id] = q
    <3>1. Line(q)[i + 1] = m_queues[q][i] /\ Len(Line(q)) = Len(m_queues[q]) + 1
      BY <2>3, LineFacts
    <3>2. i + 1 \in 1..Len(Line(q))
      BY <1>1, <3>1
    <3>. QED BY <2>1, <3>1, <3>2 DEF Waiting, Records
  <2>. QED BY <2>2, <2>3
<1>4. ASSUME current # NoSubmission PROVE current.id \in Waiting /\ current.id \in Submissions
  <2>1. gpu \in Slice
    BY <1>4 DEF ThreadInv
  <2>2. PICK r \in Queues : r = QueueOf[current.id]
    BY <2>1, CurrentFacts
  <2>3. Line(r)[1] = current /\ 1 \in 1..Len(Line(r))
    BY <1>1, <2>1, <2>2, LineFacts
  <2>. QED BY <2>1, <2>3, CurrentFacts DEF Waiting
<1>5. ASSUME NEW x \in Waiting PROVE x \in Pending /\ x # "none"
  <2>1. PICK q \in Queues : \E i \in 1..Len(Line(q)) : x = Line(q)[i].id
    BY DEF Waiting
  <2>2. PICK i \in 1..Len(Line(q)) : x = Line(q)[i].id
    BY <2>1
  <2>3. x \in Submissions
    <3>1. Line(q)[i] \in Records
      BY LineFacts
    <3>. QED BY <2>2, <3>1 DEF Records
  <2>4. CASE gpu \notin Slice \/ QueueOf[current.id] # q
    <3>1. Line(q) = m_queues[q]
      BY <2>4, LineFacts
    <3>2. x \in Queued(q)
      BY <1>1, <2>2, <3>1 DEF Queued
    <3>. QED BY <1>2, <2>3, <3>2 DEF Pending
  <2>5. CASE gpu \in Slice /\ QueueOf[current.id] = q
    <3>1. /\ Line(q)[1] = current /\ Len(Line(q)) = Len(m_queues[q]) + 1
          /\ \A j \in 1..Len(m_queues[q]) : Line(q)[j + 1] = m_queues[q][j]
      BY <2>5, LineFacts
    <3>2. CASE i = 1
      BY <1>2, <2>2, <2>3, <3>1, <3>2 DEF Pending
    <3>3. CASE i # 1
      <4>1. i - 1 \in 1..Len(m_queues[q]) /\ (i - 1) + 1 = i
        BY <1>1, <3>1, <3>3
      <4>2. x = m_queues[q][i - 1].id
        BY <2>2, <3>1, <4>1
      <4>3. x \in Queued(q)
        BY <1>1, <4>1, <4>2 DEF Queued
      <4>. QED BY <1>2, <2>3, <4>3 DEF Pending
    <3>. QED BY <3>2, <3>3
  <2>. QED BY <2>4, <2>5
<1>6. ASSUME NEW x \in Pending, x # "none" PROVE x \in Waiting
  <2>1. CASE x = current.id
    <3>1. current # NoSubmission
      BY <1>6, <2>1 DEF NoSubmission
    <3>. QED BY <1>4, <2>1, <3>1
  <2>2. ASSUME NEW q \in Queues, x \in Queued(q) PROVE x \in Waiting
    <3>1. PICK i \in 1..Len(m_queues[q]) : x = m_queues[q][i].id
      BY <1>1, <2>2 DEF Queued
    <3>. QED BY <1>3, <3>1
  <2>. QED BY <2>1, <2>2 DEF Pending
<1>7. Cardinality({current.id} \ {"none"}) = Taken
  <2>1. CASE current = NoSubmission
    <3>1. {current.id} \ {"none"} = {}
      BY <2>1 DEF NoSubmission
    <3>. QED BY <2>1, <3>1, FS_EmptySet DEF Taken
  <2>2. CASE current # NoSubmission
    <3>1. {current.id} \ {"none"} = {current.id}
      BY <1>2, <1>4, <2>2
    <3>. QED BY <2>2, <3>1, FS_Singleton DEF Taken
  <2>. QED BY <2>1, <2>2
<1>. QED BY <1>5, <1>6, <1>7

(* The counts, in the words of the property.                               *)
LEMMA CountsAgree ==
    ASSUME TypeOK, ThreadInv, CountInv
    PROVE  NoSubmissionLost
<1>1. Pending \ {"none"} = Waiting /\ Cardinality({current.id} \ {"none"}) = Taken
  BY PendingFacts
<1>2. "none" \notin Submissions
  BY SubmissionsAssumption, Zenon
<1>3. completed \subseteq Accepted \ Pending
  BY <1>1, <1>2 DEF CountInv, TypeOK
<1>. QED BY <1>1, <1>3 DEF NoSubmissionLost, CountInv

(* With nothing on its way, every label executed packets wrote is stored.  *)
LEMMA NothingOnItsWay ==
    ASSUME TypeOK, PipelineInv, inFlight = <<>>, recorded = <<>>
    PROVE  /\ Written \subseteq labels
           /\ \A q \in Queues : \A i \in 1..Len(executed[q]) :
                 PacketAt(q, i).op = "write" => PacketAt(q, i).label \in labels
<1>1. Way = <<>>
  BY DEF Way
<1>2. \A q \in Queues : \A i \in 1..Len(executed[q]) :
          PacketAt(q, i).op \in {"write", "data"} => PacketAt(q, i).label \in labels
  BY <1>1 DEF PipelineInv
<1>. QED BY <1>2, WrittenFacts

(* What the thread leaves behind when it has exited.                       *)
LEMMA ExitFacts ==
    ASSUME IndInv, gpu = "exited"
    PROVE  /\ m_commands = <<>> /\ \A g \in Guests : pc[g] # "sync"
           /\ Written \subseteq labels /\ labels \subseteq Written \cup CpuLabels
           /\ m_canceled_submissions = Cardinality(Accepted \ completed)
<1>1. m_commands = <<>> /\ command = "free"
  BY DEF IndInv, CommandInv
<1>2. \A g \in Guests : pc[g] # "sync"
  <2>1. "free" \notin Guests
    BY SubmissionsAssumption, Zenon
  <2>. QED BY <1>1, <2>1 DEF IndInv, CommandInv
<1>3. inFlight = <<>> /\ recorded = <<>>
  BY DEF IndInv, PipelineInv
<1>4. Written \subseteq labels /\ labels \subseteq Written \cup CpuLabels
  BY <1>3, NothingOnItsWay DEF IndInv, PipelineInv
<1>5. m_submission_count = 0 /\ Taken = 0
  BY DEF IndInv, ThreadInv, Slice, Taken
<1>6. /\ IsFiniteSet(Accepted) /\ completed \subseteq Accepted
      /\ Cardinality(Accepted) = Cardinality(completed) + m_canceled_submissions
      /\ m_canceled_submissions \in Nat
  <2>1. IsFiniteSet(Accepted) /\ completed \subseteq Accepted /\ m_canceled_submissions \in Nat
    BY DEF IndInv, CountInv, TypeOK
  <2>2. Cardinality(Accepted) = Cardinality(completed) + 0 + 0 + m_canceled_submissions
    BY <1>5 DEF IndInv, CountInv
  <2>3. Cardinality(completed) \in Nat
    BY <2>1, FS_Subset, FS_CardinalityType
  <2>. QED BY <2>1, <2>2, <2>3
<1>7. Accepted \cap completed = completed
  BY <1>6
<1>8. Cardinality(Accepted \ completed) = Cardinality(Accepted) - Cardinality(completed)
  <2>1. IsFiniteSet(Accepted)
    BY <1>6
  <2>2. Cardinality(Accepted \ completed)
            = Cardinality(Accepted) - Cardinality(Accepted \cap completed)
    BY <2>1, FS_Difference, Zenon
  <2>. QED BY <1>7, <2>2, Zenon
<1>9. Cardinality(completed) \in Nat
  BY <1>6, FS_Subset, FS_CardinalityType
<1>. QED BY <1>1, <1>2, <1>4, <1>6, <1>8, <1>9

(* Whatever the rings, guests and streams: the queue's counter, the sets   *)
(* of submissions and the counter of canceled ones agree through every     *)
(* pop, push_front and cancellation, and a thread that has exited leaves   *)
(* no command, no label and no uncounted submission behind.                *)
THEOREM NoneIsLost == Spec => []SubmissionsKept
<1>1. ASSUME IndInv PROVE SubmissionsKept
  <2>1. TypeOK /\ NoSubmissionLost
    BY <1>1, CountsAgree DEF IndInv
  <2>2. ExitLeavesNothing
    BY <1>1, ExitFacts DEF ExitLeavesNothing
  <2>. QED BY <2>1, <2>2 DEF SubmissionsKept
<1>2. IndInv => SubmissionsKept
  BY <1>1
<1>. QED BY <1>2, Invariance, PTL

(* However the streams are cut into slices, a ring executes its packets in *)
(* the order of acceptance, none skipped or repeated, and a graphics       *)
(* packet sees the context of its own frame.                               *)
THEOREM PacketsRunInOrder == Spec => []PacketsInOrder
<1>1. ASSUME IndInv PROVE PacketsInOrder
  <2>1. RingOrder
    BY <1>1 DEF IndInv
  <2>2. ASSUME gpu \in {"packet", "flip"}, QueueOf[current.id] = 0
        PROVE  context = {s \in Submissions :
                             /\ frame[s] = frame[current.id]
                             /\ \E i \in DOMAIN executed[0] : executed[0][i][1] = s}
    <3>1. gpu \in Slice /\ current.started
      BY <1>1, <2>2 DEF Slice, IndInv, ThreadInv
    <3>2. /\ frame[current.id] = m_done_num
          /\ context = {s \in Executed0 : frame[s] = m_done_num}
      BY <1>1, <2>2, <3>1, OpenFrame DEF IndInv, Resets
    <3>3. DOMAIN executed[0] = 1..Len(executed[0])
      <4>1. 0 \in Queues
        BY QueueCountAssumption DEF Queues
      <4>2. executed \in [Queues -> Seq(Submissions \X Nat)]
        BY <1>1 DEF IndInv, TypeOK
      <4>. QED BY <4>1, <4>2, DomainFacts
    <3>. QED BY <3>2, <3>3 DEF Executed0
  <2>. QED BY <2>1, <2>2 DEF PacketsInOrder, FrameIsolation
<1>2. IndInv => PacketsInOrder
  BY <1>1
<1>. QED BY <1>2, Invariance, PTL

(* When every label is written by one packet, a wait is passed only when   *)
(* its label is in memory, the labels of a ring reach memory in the order  *)
(* of their packets, and none is left in an open command buffer while the  *)
(* GPU thread sleeps or polls.                                             *)
THEOREM LabelsReachMemoryInOrder ==
    ASSUME OneWriterPerLabel
    PROVE  Spec => []LabelsInOrder
<1>1. Init => OrderInv
  <2>1. ASSUME Init PROVE OrderInv
    BY <2>1, StartsEmpty DEF OrderInv
  <2>. QED BY <2>1
<1>2. IndInv /\ IndInv' /\ OrderInv /\ [Next]_vars => OrderInv'
  <2>1. ASSUME IndInv, IndInv', OrderInv, Next PROVE OrderInv'
    BY <2>1, OrderStep DEF IndInv
  <2>2. ASSUME OrderInv, UNCHANGED vars PROVE OrderInv'
    <3>1. executed' = executed /\ Way' = Way /\ labels' = labels
      BY <2>2 DEF vars, history, pipeline, Way
    <3>2. \A q, i : PacketAt(q, i)' = PacketAt(q, i)
      BY <3>1 DEF PacketAt
    <3>. QED BY <2>2, <3>1, <3>2 DEF OrderInv, Ahead
  <2>. QED BY <2>1, <2>2
<1>3. IndInv /\ OrderInv => LabelsInOrder
  <2> SUFFICES ASSUME IndInv, OrderInv PROVE LabelsInOrder
    OBVIOUS
  <2>1. \A q \in Queues : DOMAIN executed[q] = 1..Len(executed[q]) /\ Len(executed[q]) \in Nat
    BY DomainFacts DEF IndInv, TypeOK
  <2>2. \A q \in Queues : \A j \in 1..Len(executed[q]) :
            PacketAt(q, j).op = "wait" => PacketAt(q, j).label \in labels
    BY DEF IndInv, PipelineInv
  <2>3. \A q \in Queues : \A j \in 1..Len(executed[q]) : \A i \in 1..(j - 1) :
            PacketAt(q, j).op = "write" /\ PacketAt(q, i).op = "write"
            /\ PacketAt(q, j).label \in labels => PacketAt(q, i).label \in labels
    BY DEF OrderInv, Ahead
  <2>4. CompletionOrder
    BY <2>1, <2>2, <2>3 DEF CompletionOrder
  <2>5. NothingStranded
    BY DEF IndInv, PipelineInv, NothingStranded
  <2>. QED BY <2>4, <2>5 DEF LabelsInOrder
<1>. QED BY <1>1, <1>2, <1>3, Invariance, PTL DEF Spec

(* Only Done ends a frame.                                                 *)
LEMMA OnlyDoneEndsFrames ==
    ASSUME TypeOK, ThreadInv, CursorInv, Next, m_done_num' # m_done_num
    PROVE  \E g \in Guests : DoneReturns(g)
<1>1. ASSUME Quiet PROVE UNCHANGED m_done_num
  BY <1>1, QuietFrame DEF core
<1>2. ASSUME Executes PROVE UNCHANGED m_done_num
  BY <1>2, ExecutesFacts
<1>3. ASSUME \/ LoopCancels \/ LoopTakesSubmission \/ PollEnds \/ BeginSlice
             \/ SliceBlocks \/ SliceCompletes \/ Shutdown
      PROVE  UNCHANGED m_done_num
  BY <1>3 DEF LoopCancels, LoopTakesSubmission, PollEnds, BeginSlice, SliceBlocks,
     SliceCompletes, Shutdown, frames
<1>4. ASSUME NEW g \in Guests, NEW s \in Submissions, Submit(g, s) PROVE UNCHANGED m_done_num
  BY <1>4 DEF Submit
<1>. QED BY <1>1, <1>2, <1>3, <1>4, StepKinds, Zenon

(* Only the end of its command releases a guest in SendCommandSync.        *)
LEMMA OnlyCommandsRelease ==
    ASSUME TypeOK, ThreadInv, CursorInv, Next,
           NEW g \in Guests, pc[g] = "sync", pc'[g] = "guest"
    PROVE  InnerCommandReturns \/ CommandReturns
<1>0. pc \in [Guests -> GuestLabels]
  BY DEF TypeOK
<1>1. ASSUME UNCHANGED pc PROVE FALSE
  BY <1>1
<1>2. ASSUME SignalIdle PROVE FALSE
  BY <1>2 DEF SignalIdle
<1>3. ASSUME NEW h \in Guests, pc[h] # "sync", NEW e, pc' = [pc EXCEPT ![h] = e] PROVE FALSE
  BY <1>0, <1>3
<1>4. ASSUME NEW h \in Guests, NEW e, e # "guest", pc' = [pc EXCEPT ![h] = e] PROVE FALSE
  BY <1>0, <1>4
<1>5. ASSUME LoopSleeps \/ LoopStops \/ CommandEnds \/ SliceCompletes PROVE FALSE
  <2>1. SignalIdle \/ UNCHANGED pc
    BY <1>5, Zenon DEF LoopSleeps, LoopStops, CommandEnds, SliceCompletes, SignalIfEmpty
  <2>. QED BY <1>1, <1>2, <2>1
<1>6. ASSUME \/ LoopTakesCommand \/ LoopPolls \/ ProcessCommands \/ CommandFinishes
             \/ PacketSuspends \/ StreamEnds \/ EndSlice \/ FinalFinish \/ ThreadExits
             \/ PacketWaitsForFlip \/ WaitReadsBack \/ Publish \/ ShutdownReturns \/ Executes
             \/ LoopCancels \/ LoopTakesSubmission \/ PollEnds \/ BeginSlice
             \/ SliceBlocks \/ Shutdown
      PROVE  FALSE
  <2>1. UNCHANGED pc
    BY <1>6, Zenon DEF LoopTakesCommand, LoopPolls, ProcessCommands, CommandFinishes,
       PacketSuspends, StreamEnds, EndSlice, FinalFinish, ThreadExits, PacketWaitsForFlip,
       WaitReadsBack, Publish, ShutdownReturns, Executes, PacketPasses, PacketWrites,
       PacketStores, PacketFlushes,
       FlipWaitReturns, PrepareCpuFlip, LoopCancels, LoopTakesSubmission, PollEnds,
       BeginSlice, SliceBlocks,
       Shutdown
  <2>. QED BY <1>1, <2>1
<1>7. ASSUME SpuriousWakeup PROVE FALSE
  <2>1. CASE UNCHANGED pc
    BY <1>1, <2>1
  <2>2. ASSUME NEW h \in Guests, pc[h] = "parked", pc' = [pc EXCEPT ![h] = "idle"] PROVE FALSE
    BY <1>3, <2>2
  <2>. QED BY <1>7, <2>1, <2>2, Zenon DEF SpuriousWakeup
<1>8. ASSUME NEW l \in Labels, CpuWrite(l) PROVE FALSE
  BY <1>1, <1>8 DEF CpuWrite
<1>9. ASSUME NEW h \in Guests, NEW s \in Submissions, Submit(h, s) PROVE FALSE
  BY <1>1, <1>9 DEF Submit
<1>10. ASSUME NEW h \in Guests, DoneWaits(h) \/ DoneSeesIdle(h) \/ Done(h) \/ SendCommandSync(h)
       PROVE  FALSE
  <2>1. \E e \in {"parked", "done", "idle", "sync"} : pc' = [pc EXCEPT ![h] = e]
    BY <1>10 DEF DoneWaits, DoneSeesIdle, Done, SendCommandSync
  <2>2. PICK e \in {"parked", "done", "idle", "sync"} : pc' = [pc EXCEPT ![h] = e]
    BY <2>1
  <2>. QED BY <1>4, <2>2
<1>11. ASSUME NEW h \in Guests, DoneReturns(h) \/ CallRejected(h) PROVE FALSE
  <2>1. CASE DoneReturns(h)
    BY <1>3, <2>1 DEF DoneReturns
  <2>2. CASE CallRejected(h)
    BY <1>1, <2>2 DEF CallRejected
  <2>. QED BY <1>11, <2>1, <2>2
<1>12. ASSUME FlipSteps PROVE FALSE
  BY <1>1, <1>12, FlipStepFacts
<1>. QED BY <1>5, <1>6, <1>7, <1>8, <1>9, <1>10, <1>11, <1>12, StepKinds, Zenon DEF Quiet

(* Done has drained the rings when it returns.                             *)
LEMMA DoneHasDrained ==
    ASSUME IndInv, NEW g \in Guests, DoneReturns(g)
    PROVE  /\ Accepted \cap Pending = {}
           /\ m_stopping \/ Accepted \subseteq completed
<1>1. m_submission_count = 0 /\ gpu \notin Slice
  BY DEF DoneReturns, IndInv, DoneInv
<1>2. Taken = 0
  BY <1>1 DEF IndInv, ThreadInv, Taken
<1>3. IsFiniteSet(Waiting) /\ Cardinality(Waiting) = 0
  BY <1>1, <1>2 DEF IndInv, CountInv
<1>4. Waiting = {}
  BY <1>3, FS_EmptySet
<1>5. "none" \notin Accepted
  <2>1. "none" \notin Submissions
    BY SubmissionsAssumption, Zenon
  <2>. QED BY <2>1 DEF Accepted
<1>6. Accepted \cap Pending = {}
  BY <1>4, <1>5, PendingFacts DEF IndInv
<1>7. ASSUME ~m_stopping PROVE Accepted \subseteq completed
  <2>1. m_canceled_submissions = 0
    BY <1>7 DEF IndInv, ThreadInv
  <2>2. IsFiniteSet(Accepted) /\ completed \subseteq Accepted
    BY DEF IndInv, CountInv
  <2>3. Cardinality(Accepted) = Cardinality(completed) + 0 + 0 + 0
    BY <1>1, <1>2, <2>1 DEF IndInv, CountInv
  <2>4. Cardinality(completed) \in Nat
    BY <2>2, FS_Subset, FS_CardinalityType
  <2>5. Cardinality(Accepted) = Cardinality(completed)
    BY <2>3, <2>4
  <2>. QED BY <2>2, <2>5, FS_Subset
<1>. QED BY <1>6, <1>7

(* A command has waited for every label when it returns.                   *)
LEMMA CommandHasWaited ==
    ASSUME IndInv, InnerCommandReturns \/ CommandReturns
    PROVE  \A q \in Queues : \A i \in DOMAIN executed[q] :
               PacketAt(q, i).op = "write" => PacketAt(q, i).label \in labels
<1>1. inFlight = <<>> /\ gpu \in {"innerWait", "commandWait"}
  BY DEF InnerCommandReturns, CommandReturns, PriorityOperationsDone
<1>2. recorded = <<>>
  BY <1>1 DEF IndInv, PipelineInv
<1>3. \A q \in Queues : DOMAIN executed[q] = 1..Len(executed[q])
  BY DomainFacts DEF IndInv, TypeOK
<1>. QED BY <1>1, <1>2, <1>3, NothingOnItsWay DEF IndInv

(* Done returns only when everything accepted has left the rings, and,     *)
(* without a shutdown, has completed; SendCommandSync(UnmapMemory) returns *)
(* only when every label written by an executed packet is in memory.       *)
THEOREM CallsReturnAfterTheirWork == Spec => ReturnsFollowWork
<1>1. IndInv /\ [Next]_vars => [DoneDrains /\ UnmapFollowsLabels]_vars
  <2> SUFFICES ASSUME IndInv, Next PROVE DoneDrains /\ UnmapFollowsLabels
    OBVIOUS
  <2>1. DoneDrains
    BY OnlyDoneEndsFrames, DoneHasDrained DEF IndInv, DoneDrains
  <2>2. ASSUME NEW g \in Guests, pc[g] = "sync", pc'[g] = "guest"
        PROVE  \A q \in Queues : \A i \in DOMAIN executed[q] :
                   PacketAt(q, i).op = "write" => PacketAt(q, i).label \in labels
    <3>1. InnerCommandReturns \/ CommandReturns
      BY <2>2, OnlyCommandsRelease DEF IndInv
    <3>. QED BY <3>1, CommandHasWaited
  <2>3. UnmapFollowsLabels
    BY <2>2 DEF UnmapFollowsLabels
  <2>. QED BY <2>1, <2>3
<1>. QED BY <1>1, Invariance, PTL DEF ReturnsFollowWork, Spec
=============================================================================
