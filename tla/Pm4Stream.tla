----------------------------- MODULE Pm4Stream -----------------------------
(***************************************************************************)
(* What a ring promises about the packets submitted to it, with no buffer  *)
(* stack, no suspension and no slices: the packets run one after the       *)
(* other, each once; a call of an indirect buffer is replaced by the       *)
(* buffer's packets when it is reached, and the choice of a branch, a      *)
(* COND_EXEC or a predicate is made there, once.  A wait whose word stays  *)
(* written ends, and what has been recorded reaches the device.            *)
(***************************************************************************)
EXTENDS Integers, Sequences, SequencesExt

CONSTANTS
    Program,       \* the packets of each buffer
    Workloads,     \* sequences of buffers that may be submitted
    Words,         \* memory words packets read
    NestingLimit   \* buffers that may be nested

VARIABLES
    todo,       \* packets to run, each with the depth of its buffer
    memory,     \* which words are written
    skip,       \* predicated packets are skipped
    effects,    \* draws recorded, in order
    submitted,  \* how many of them the device has been given
    halted      \* the process ended: buffers were nested too deeply

vars == <<todo, memory, skip, effects, submitted, halted>>

At(buffer, depth) == [i \in DOMAIN Program[buffer] |->
                        [packet |-> Program[buffer][i], depth |-> depth]]

Init ==
    /\ \E w \in Workloads : todo = FlattenSeq([i \in DOMAIN w |-> At(w[i], 1)])
    /\ memory = [w \in Words |-> FALSE]
    /\ skip = FALSE /\ effects = <<>> /\ submitted = 0 /\ halted = FALSE

-----------------------------------------------------------------------------
Packet     == Head(todo).packet
Reached    == todo # <<>> /\ ~halted
Skipped    == Reached /\ Packet.predicated /\ skip
Runs(ops)  == Reached /\ ~Skipped /\ Packet.op \in ops

Skip ==
    /\ Skipped
    /\ todo' = Tail(todo)
    /\ UNCHANGED <<memory, skip, effects, submitted, halted>>

Draw ==
    /\ Runs({"draw"})
    /\ effects' = Append(effects, Packet.id)
    /\ todo' = Tail(todo)
    /\ UNCHANGED <<memory, skip, submitted, halted>>

Store ==
    /\ Runs({"store"})
    /\ memory' = [memory EXCEPT ![Packet.word] = TRUE]
    /\ todo' = Tail(todo)
    /\ UNCHANGED <<skip, effects, submitted, halted>>

(* SET_PREDICATION, which may submit what is recorded before it reads.     *)
Predicate ==
    /\ Runs({"predicate", "unpredicate"})
    /\ skip' = (Packet.op = "predicate" /\ memory[Packet.word])
    /\ submitted' \in {submitted, Len(effects)}
    /\ todo' = Tail(todo)
    /\ UNCHANGED <<memory, effects, halted>>

Pass ==
    /\ Runs({"nop", "wait"})
    /\ Packet.op = "wait" => memory[Packet.word]
    /\ todo' = Tail(todo)
    /\ UNCHANGED <<memory, skip, effects, submitted, halted>>

CondExec ==
    /\ Runs({"cond"})
    /\ todo' = IF memory[Packet.word] THEN Tail(todo)
               ELSE SubSeq(todo, 2 + Packet.count, Len(todo))
    /\ UNCHANGED <<memory, skip, effects, submitted, halted>>

Target == IF memory[Packet.word] THEN Packet.then ELSE Packet.else

Call ==
    /\ Runs({"branch"})
    /\ Program[Target] # <<>> => Head(todo).depth < NestingLimit
    /\ todo' = At(Target, Head(todo).depth + 1) \o Tail(todo)
    /\ UNCHANGED <<memory, skip, effects, submitted, halted>>

Halt ==
    /\ Runs({"branch"}) /\ Program[Target] # <<>>
    /\ Head(todo).depth >= NestingLimit
    /\ halted' = TRUE
    /\ UNCHANGED <<todo, memory, skip, effects, submitted>>

Step == Skip \/ Draw \/ Store \/ Predicate \/ Pass \/ CondExec \/ Call \/ Halt

(* Recorded work is submitted.                                             *)
Flush ==
    /\ submitted' = Len(effects)
    /\ UNCHANGED <<todo, memory, skip, effects, halted>>

(* A guest thread writes or clears a word.                                 *)
Write ==
    /\ \E w \in Words : memory' = [memory EXCEPT ![w] = ~@]
    /\ UNCHANGED <<todo, skip, effects, submitted, halted>>

Next == Step \/ Flush \/ Write

-----------------------------------------------------------------------------
Waits == Runs({"wait"}) /\ ~memory[Packet.word]

(* A packet that may run does, and nothing recorded is kept back.          *)
Progress ==
    /\ <>[](Reached /\ ~Waits) => []<><<Step>>_vars
    /\ []<>(submitted = Len(effects) \/ halted)

Spec == Init /\ [][Next]_vars /\ Progress
=============================================================================
