---------------------------- MODULE Pm4Execution ----------------------------
(***************************************************************************)
(* The PM4 parser of one ring (CommandProcessor::Process and ProcessPm4 in *)
(* graphics/guest_gpu/graphicsRun.cpp): a stack of buffer cursors that     *)
(* survives the slices of a submission.  A packet that calls a buffer      *)
(* pushes a cursor and parses it in a nested call; a packet that has to    *)
(* wait unwinds every nested call, and the callers remember to step over   *)
(* the calling packet when the parser comes back to them.                  *)
(*                                                                         *)
(* Offsets count packets.  A wait is WAIT_REG_MEM or REWIND; a call of an  *)
(* indirect buffer is a branch with equal arms.  Guest threads write the   *)
(* words at any time.  The commands that run between packets leave the     *)
(* parser alone (GuestGpu models them), and the constant stream is empty   *)
(* in every submission.                                                    *)
(***************************************************************************)
EXTENDS Integers, Sequences, SequencesExt

CONSTANTS
    Program,       \* the packets of each buffer
    Workloads,     \* sequences of buffers that may be submitted
    Words,         \* memory words packets read
    NestingLimit   \* buffers that may be nested: 64

(* Submissions and branches name buffers, and COND_EXEC skips to a packet  *)
(* of its own buffer or to the end; anything else ends the process.        *)
ProgramAssumption ==
    /\ NestingLimit \in Nat
    /\ Workloads \subseteq Seq(DOMAIN Program)
    /\ \A b \in DOMAIN Program :
          /\ Program[b] \in Seq(ToSet(Program[b]))
          /\ \A i \in DOMAIN Program[b] : LET p == Program[b][i] IN
                /\ p.op = "branch" => {p.then, p.else} \subseteq DOMAIN Program
                /\ p.op = "cond" => p.count \in 0..Len(Program[b]) - i

VARIABLES
    compute,           \* this is a compute ring: a slice is one call of Process
    submissions,       \* the submissions of the ring, the current one first
    m_buffer_stack,    \* the cursors of the current submission
    stop_depths,       \* the active calls of ProcessPm4
    m_made_progress,
    m_predicate_skip,
    progressed,        \* a round of the slice made progress
    parser,            \* "idle", "running", "returned" or "exited"
    memory,            \* which words are written
    effects,           \* history: draws recorded, in order
    submitted          \* history: how many of them were flushed

parse == <<m_buffer_stack, stop_depths, m_made_progress, parser>>
vars  == <<compute, submissions, parse, m_predicate_skip, progressed, memory, effects,
           submitted>>

Cursor(buffer) == [commands |-> buffer, offset |-> 0, deferred_advance |-> 0]

Init ==
    /\ compute \in BOOLEAN /\ submissions \in Workloads
    /\ m_buffer_stack = <<>> /\ stop_depths = <<>>
    /\ m_made_progress = FALSE /\ m_predicate_skip = FALSE /\ progressed = FALSE
    /\ parser = "idle"
    /\ memory = [w \in Words |-> FALSE] /\ effects = <<>> /\ submitted = 0

-----------------------------------------------------------------------------
(* Process: begin or resume the current submission.                        *)
Process ==
    /\ parser = "idle" /\ submissions # <<>>
    /\ m_buffer_stack' = IF m_buffer_stack = <<>> THEN <<Cursor(Head(submissions))>>
                         ELSE m_buffer_stack
    /\ stop_depths' = <<0>>
    /\ m_made_progress' = FALSE
    /\ parser' = "running"
    /\ UNCHANGED <<compute, submissions, m_predicate_skip, progressed, memory, effects,
                   submitted>>

top      == Len(m_buffer_stack)
cursor   == m_buffer_stack[top]
Commands == Program[cursor.commands]
AtPacket == /\ parser = "running" /\ cursor.deferred_advance = 0
            /\ cursor.offset < Len(Commands)
packet   == Commands[cursor.offset + 1]
Skips    == AtPacket /\ packet.predicated /\ m_predicate_skip
Handles(ops) == AtPacket /\ ~Skips /\ packet.op \in ops

(* Mutant: a packet that has run is not noted as progress.                 *)
AdvanceUnnoted(n) ==
    /\ m_buffer_stack' = [m_buffer_stack EXCEPT ![top].offset = @ + n]
    /\ UNCHANGED <<stop_depths, m_made_progress, parser>>

Advance(n) ==
    /\ m_buffer_stack' = [m_buffer_stack EXCEPT ![top].offset = @ + n]
    /\ m_made_progress' = TRUE
    /\ UNCHANGED <<stop_depths, parser>>

(* Step over the packet whose buffer was suspended and has now ended.      *)
DeferredAdvance ==
    /\ parser = "running" /\ cursor.deferred_advance # 0
    /\ m_buffer_stack' = [m_buffer_stack EXCEPT ![top].offset = @ + cursor.deferred_advance,
                                                ![top].deferred_advance = 0]
    /\ m_made_progress' = TRUE
    /\ UNCHANGED <<compute, submissions, stop_depths, m_predicate_skip, progressed, parser,
                   memory, effects, submitted>>

(* The end of a buffer: when its call of ProcessPm4 returns, the handler   *)
(* returns too and the caller's cursor moves past the packet.              *)
BufferEnds ==
    LET depth == top - 1
        rest  == Front(m_buffer_stack)
        returns == depth = Last(stop_depths)
    IN  /\ parser = "running" /\ cursor.deferred_advance = 0
        /\ cursor.offset = Len(Commands)
        /\ \/ /\ ~returns
              /\ m_buffer_stack' = rest
              /\ UNCHANGED <<stop_depths, m_made_progress, parser>>
           \/ /\ returns /\ depth = 0
              /\ m_buffer_stack' = rest /\ stop_depths' = <<>>
              /\ parser' = "returned"
              /\ UNCHANGED m_made_progress
           \/ /\ returns /\ depth # 0
              /\ m_buffer_stack' = [rest EXCEPT ![depth].offset = @ + 1]
              /\ stop_depths' = Front(stop_depths)
              /\ m_made_progress' = TRUE
              /\ UNCHANGED parser
        /\ UNCHANGED <<compute, submissions, m_predicate_skip, progressed, memory, effects,
                       submitted>>

-----------------------------------------------------------------------------
(* The packets.                                                            *)

SkipPredicated ==
    /\ Skips
    /\ Advance(1)
    /\ UNCHANGED <<compute, submissions, m_predicate_skip, progressed, memory, effects,
                   submitted>>

Draw ==
    /\ Handles({"draw"})
    /\ effects' = Append(effects, packet.id)
    /\ Advance(1)
    /\ UNCHANGED <<compute, submissions, m_predicate_skip, progressed, memory, submitted>>

WriteData ==
    /\ Handles({"store"})
    /\ memory' = [memory EXCEPT ![packet.word] = TRUE]
    /\ Advance(1)
    /\ UNCHANGED <<compute, submissions, m_predicate_skip, progressed, effects, submitted>>

(* The packet may ask for a flush, and a wait, before the word is read.    *)
(* Its condition bit says which value skips: the word counts as written    *)
(* then.                                                                   *)
SetPredication ==
    /\ Handles({"predicate", "unpredicate"})
    /\ submitted' \in {submitted, Len(effects)}
    /\ m_predicate_skip' = (packet.op = "predicate" /\ memory[packet.word])
    /\ Advance(1)
    /\ UNCHANGED <<compute, submissions, progressed, memory, effects>>

CondExec ==
    /\ Handles({"cond"})
    /\ Advance(IF memory[packet.word] THEN 1 ELSE 1 + packet.count)
    /\ UNCHANGED <<compute, submissions, m_predicate_skip, progressed, memory, effects,
                   submitted>>

(* A filler, or a wait that is over.                                       *)
PacketPasses ==
    /\ Handles({"nop", "wait"})
    /\ packet.op = "wait" => memory[packet.word]
    /\ Advance(1)
    /\ UNCHANGED <<compute, submissions, m_predicate_skip, progressed, memory, effects,
                   submitted>>

(* Mutant: the caller's cursor stays at the packet that called.            *)
UnwoundForgetting == m_buffer_stack

(* Every caller in progress remembers to step over its packet.             *)
Unwound ==
    [i \in DOMAIN m_buffer_stack |->
        IF \E k \in DOMAIN stop_depths : stop_depths[k] = i
        THEN [m_buffer_stack[i] EXCEPT !.deferred_advance = 1] ELSE m_buffer_stack[i]]

(* SuspendPm4, and the return of all nested calls.                         *)
Suspend ==
    /\ Handles({"wait"}) /\ ~memory[packet.word]
    /\ m_buffer_stack' = Unwound
    /\ stop_depths' = <<>>
    /\ parser' = "returned"
    /\ UNCHANGED <<compute, submissions, m_made_progress, m_predicate_skip, progressed,
                   memory, effects, submitted>>

Target == IF memory[packet.word] THEN packet.then ELSE packet.else

(* CpOpIndirectBuffer, CpOpBranch, ProcessIndirectBuffer.                  *)
ProcessIndirectBuffer ==
    /\ Handles({"branch"})
    /\ \/ Program[Target] = <<>> /\ Advance(1)
       \/ /\ Program[Target] # <<>> /\ top < NestingLimit
          /\ m_buffer_stack' = Append(m_buffer_stack, Cursor(Target))
          /\ stop_depths' = Append(stop_depths, top)
          /\ UNCHANGED <<m_made_progress, parser>>
       \/ /\ Program[Target] # <<>> /\ top >= NestingLimit
          /\ parser' = "exited"
          /\ UNCHANGED <<m_buffer_stack, stop_depths, m_made_progress>>
    /\ UNCHANGED <<compute, submissions, m_predicate_skip, progressed, memory, effects,
                   submitted>>

-----------------------------------------------------------------------------
(* GuestGpu::Process after a call of CommandProcessor::Process.            *)

complete == m_buffer_stack = <<>>

(* A graphics slice goes on as long as its rounds make progress.           *)
AnotherRound ==
    /\ parser = "returned" /\ ~compute /\ ~complete /\ m_made_progress
    /\ progressed' = TRUE
    /\ parser' = "idle"
    /\ UNCHANGED <<compute, submissions, m_buffer_stack, stop_depths, m_made_progress,
                   m_predicate_skip, memory, effects, submitted>>

SliceEnds ==
    /\ parser = "returned" /\ (compute \/ complete \/ ~m_made_progress)
    /\ submitted' = IF progressed \/ m_made_progress THEN Len(effects) ELSE submitted
    /\ submissions' = IF complete THEN Tail(submissions) ELSE submissions
    /\ progressed' = FALSE
    /\ parser' = "idle"
    /\ UNCHANGED <<compute, m_buffer_stack, stop_depths, m_made_progress, m_predicate_skip,
                   memory, effects>>

(* A guest thread writes a word or patches a REWIND.                       *)
GuestWrites(w) ==
    /\ submissions # <<>> /\ parser # "exited"
    /\ memory' = [memory EXCEPT ![w] = ~@]
    /\ UNCHANGED <<compute, submissions, parse, m_predicate_skip, progressed, effects,
                   submitted>>

ParserStep ==
    \/ Process \/ DeferredAdvance \/ BufferEnds \/ SkipPredicated \/ Draw \/ WriteData
    \/ SetPredication \/ CondExec \/ PacketPasses \/ Suspend \/ ProcessIndirectBuffer
    \/ AnotherRound \/ SliceEnds

Next == ParserStep \/ \E w \in Words : GuestWrites(w)

(* The GPU thread runs, and comes back to a blocked submission.            *)
Fairness == WF_vars(ParserStep)

Spec == Init /\ [][Next]_vars /\ Fairness

-----------------------------------------------------------------------------
(* The flat stream: what each cursor has left, the innermost first, then   *)
(* the submissions behind the current one.  A cursor below the top has     *)
(* begun its packet.                                                       *)
StreamOf(buffer, first, depth) ==
    [i \in 1..(Len(Program[buffer]) - first) |->
        [packet |-> Program[buffer][first + i], depth |-> depth]]

Left(i) ==
    LET c == m_buffer_stack[i]
    IN  StreamOf(c.commands,
                 IF i < top \/ c.deferred_advance # 0 THEN c.offset + 1 ELSE c.offset, i)

Current ==
    IF complete /\ parser = "idle" /\ submissions # <<>>
    THEN StreamOf(Head(submissions), 0, 1)
    ELSE FlattenSeq([k \in 1..top |-> Left(top + 1 - k)])

Behind == IF submissions = <<>> THEN <<>>
          ELSE FlattenSeq([k \in DOMAIN Tail(submissions) |->
                              StreamOf(submissions[k + 1], 0, 1)])

Stream == INSTANCE Pm4Stream WITH
    todo <- Current \o Behind, skip <- m_predicate_skip, halted <- parser = "exited"

(* The parser implements the flat stream: however often it is suspended    *)
(* inside nested buffers and resumed, every packet runs once, in order,    *)
(* with its choice made once; a wait that stays satisfied ends; and draws  *)
(* recorded before a suspension are flushed.                               *)
ImplementsStream == Stream!Spec
=============================================================================
