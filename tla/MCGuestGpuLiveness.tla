------------------------- MODULE MCGuestGpuLiveness -------------------------
(***************************************************************************)
(* The GPU thread with its rings, and the PM4 parser of one ring, side by  *)
(* side: every behaviour is one of a single component, which subject       *)
(* names, and the other keeps its initial state.                           *)
(*                                                                         *)
(* The parser's streams suspend two and three buffers deep, wait right     *)
(* after a call and at the end of a buffer, choose between buffers by      *)
(* words that change meanwhile, carry a predicate into the next submission *)
(* and can nest one buffer too many.                                       *)
(***************************************************************************)
EXTENDS MCGuestGpu

VARIABLES
    subject,
    compute, submissions, m_buffer_stack, stop_depths, m_made_progress, m_predicate_skip,
    pm_progressed, parser, memory, effects, submitted

Simple(op, p) == [op |-> op, predicated |-> p]
On(op, w, p) == [op |-> op, word |-> w, predicated |-> p]
DrawOf(d, p) == [op |-> "draw", id |-> d, predicated |-> p]
Branch(w, then, else, p) ==
    [op |-> "branch", word |-> w, then |-> then, else |-> else, predicated |-> p]
IndirectBuffer(b, p) == Branch("x", b, b, p)

Buffers ==
    [frame  |-> <<DrawOf(1, FALSE), IndirectBuffer("pass", FALSE), On("predicate", "y", FALSE),
                  IndirectBuffer("leaf", TRUE), Simple("nop", FALSE)>>,
     pass   |-> <<On("wait", "x", FALSE), Branch("y", "leaf", "empty", FALSE),
                  DrawOf(2, FALSE)>>,
     leaf   |-> <<DrawOf(3, FALSE), On("wait", "y", FALSE)>>,
     tail   |-> <<DrawOf(4, TRUE), On("store", "x", TRUE), Simple("unpredicate", FALSE),
                  [op |-> "cond", word |-> "y", count |-> 1, predicated |-> FALSE],
                  DrawOf(5, FALSE), Branch("x", "deep", "empty", FALSE)>>,
     deep   |-> <<Branch("y", "deeper", "leaf", FALSE)>>,
     deeper |-> <<IndirectBuffer("leaf", FALSE)>>,
     empty  |-> <<>>]

Parser == INSTANCE Pm4Execution WITH
    Program <- Buffers, Workloads <- {<<>>, <<"frame", "tail">>}, Words <- {"x", "y"},
    NestingLimit <- 3, progressed <- pm_progressed

(* What the proofs about the parser assume of its programs.                *)
ASSUME Parser!ProgramAssumption

parserVars == <<compute, submissions, m_buffer_stack, stop_depths, m_made_progress,
                m_predicate_skip, pm_progressed, parser, memory, effects, submitted>>
bothVars == <<subject, vars, parserVars>>

BothInit ==
    /\ subject \in {"rings", "parser"}
    /\ Init /\ Parser!Init
    /\ subject = "rings" <=> submissions = <<>>
    /\ subject = "rings" => ~compute

BothNext ==
    /\ UNCHANGED subject
    /\ \/ subject = "rings" /\ Next /\ UNCHANGED parserVars
       \/ subject = "parser" /\ Parser!Next /\ UNCHANGED vars

BothFairness == /\ subject = "rings" => GameFairness
                /\ subject = "parser" => Parser!Fairness

BothSpec == BothInit /\ [][BothNext]_bothVars /\ BothFairness

(* The parser runs the packets of a ring as one flat stream.               *)
ImplementsStream == Parser!ImplementsStream
=============================================================================
