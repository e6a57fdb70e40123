------------------------- MODULE DeferredCompletion -------------------------
(***************************************************************************)
(* What the command scheduler promises about deferred callbacks, with no   *)
(* threads, locks or buffers: a callback belongs to the tick that was      *)
(* being recorded when it was deferred and runs once, after the device has *)
(* retired that tick; priority callbacks run in the order they were        *)
(* deferred, and so do ordinary ones; an ordinary callback runs only when  *)
(* no priority callback of its tick or an earlier one is left; the         *)
(* scheduler closes only when nothing is left.                             *)
(***************************************************************************)
EXTENDS Integers, Sequences, Functions

CONSTANTS Ops

VARIABLES
    tick,       \* the tick being recorded
    retired,    \* the last tick the device has retired
    priority,   \* priority callbacks, oldest first
    ordinary,   \* ordinary callbacks, oldest first
    done,       \* callbacks that have run
    phase       \* "Open", "Draining" or "Closed"

vars == <<tick, retired, priority, ordinary, done, phase>>

Outstanding == {p.op : p \in Range(priority) \cup Range(ordinary)}
Fresh       == Ops \ (Outstanding \cup done)

Init ==
    /\ tick = 1 /\ retired = 0
    /\ priority = <<>> /\ ordinary = <<>>
    /\ done = {} /\ phase = "Open"

Advance ==
    /\ tick' = tick + 1
    /\ UNCHANGED <<retired, priority, ordinary, done, phase>>

Retire ==
    /\ retired < tick - 1
    /\ retired' = retired + 1
    /\ UNCHANGED <<tick, priority, ordinary, done, phase>>

DeferPriority(o) ==
    /\ phase = "Open"
    /\ priority' = Append(priority, [op |-> o, tick |-> tick])
    /\ UNCHANGED <<tick, retired, ordinary, done, phase>>

DeferOrdinary(o) ==
    /\ phase = "Open"
    /\ ordinary' = Append(ordinary, [op |-> o, tick |-> tick])
    /\ UNCHANGED <<tick, retired, priority, done, phase>>

RunPriority ==
    /\ priority # <<>>
    /\ Head(priority).tick <= retired
    /\ done' = done \cup {Head(priority).op}
    /\ priority' = Tail(priority)
    /\ UNCHANGED <<tick, retired, ordinary, phase>>

RunOrdinary ==
    /\ ordinary # <<>>
    /\ Head(ordinary).tick <= retired
    /\ \A p \in Range(priority) : p.tick > Head(ordinary).tick
    /\ done' = done \cup {Head(ordinary).op}
    /\ ordinary' = Tail(ordinary)
    /\ UNCHANGED <<tick, retired, priority, phase>>

(* Once it no longer accepts callbacks, the scheduler runs what is deferred *)
(* by a callback, or after it closed, on the spot.                          *)
RunInline(o) ==
    /\ phase # "Open"
    /\ done' = done \cup {o}
    /\ UNCHANGED <<tick, retired, priority, ordinary, phase>>

StartDrain ==
    /\ phase = "Open"
    /\ phase' = "Draining"
    /\ UNCHANGED <<tick, retired, priority, ordinary, done>>

FinishDrain ==
    /\ phase = "Draining"
    /\ priority = <<>> /\ ordinary = <<>>
    /\ retired = tick - 1
    /\ phase' = "Closed"
    /\ UNCHANGED <<tick, retired, priority, ordinary, done>>

Next ==
    \/ Advance \/ Retire \/ RunPriority \/ RunOrdinary \/ StartDrain \/ FinishDrain
    \/ \E o \in Fresh : DeferPriority(o) \/ DeferOrdinary(o) \/ RunInline(o)

Spec == Init /\ [][Next]_vars
=============================================================================
