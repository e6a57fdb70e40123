---------------------------- MODULE StreamBuffer ----------------------------
(***************************************************************************)
(* The ring buffer through which the renderer exchanges data with the      *)
(* device (host_gpu/renderer/cache/streamBuffer.cpp, StreamBuffer), on the *)
(* ticks of the command scheduler.                                         *)
(*                                                                         *)
(* Map reserves a range, Commit notes in a watch that the device uses the  *)
(* ring up to m_offset in the current tick.  At the end of the ring Map    *)
(* starts a new lap: the watches of the lap become the previous ones, and  *)
(* a reservation waits for those that overlap it.  The ring is used by the *)
(* GPU thread alone; the device and the priority thread only retire ticks, *)
(* so a Map with its waits is one step in which ticks may retire.          *)
(***************************************************************************)
EXTENDS Integers, Sequences

CONSTANTS
    Size,        \* bytes
    Coherent,    \* the memory is host coherent
    Atom,        \* nonCoherentAtomSize
    Download,    \* MemoryUsage::Download: a priority callback reads the range
    Requests,    \* arguments of Map
    MaxTick      \* bound on the ticks

ASSUME RingAssumption ==
    /\ Size \in Nat \ {0} /\ Atom \in Nat \ {0} /\ MaxTick \in Nat
    /\ Coherent \in BOOLEAN /\ Download \in BOOLEAN
    /\ Requests \subseteq [size : Nat \ {0}, alignment : Nat, allow_wait : BOOLEAN]

VARIABLES
    m_offset,
    m_mapped_size,
    current,         \* m_current_watches up to m_current_watch_cursor
    previous,        \* m_previous_watches up to m_invalidation_mark
    m_wait_cursor,
    m_wait_bound,
    currentTick,     \* CommandScheduler::CurrentTick
    gpuTick,         \* the last tick known to have retired
    published,       \* the last tick whose priority callbacks have run
    open,            \* a reservation has been made and not committed
    lastUse          \* history: per byte, the tick of its last committed use

ring  == <<m_offset, m_mapped_size, current, previous, m_wait_cursor, m_wait_bound>>
ticks == <<currentTick, gpuTick, published>>
ringVars  == <<ring, ticks, open, lastUse>>

RingBytes == 0..(Size - 1)
Watch == [tick : Nat, upper_bound : Nat]

Later(a, b) == IF a >= b THEN a ELSE b

AlignUp(value, alignment) ==
    IF alignment = 0 \/ value % alignment = 0 THEN value
    ELSE value + (alignment - (value % alignment))

-----------------------------------------------------------------------------
(* NormalizeReservation: whole atoms, at the least common multiple of the  *)
(* caller's alignment and the atom.  Sizes near 2^64, which it rejects, do *)
(* not occur: callers cannot ask for more than a buffer.                   *)
ReservedSize(r) == IF Coherent THEN r.size ELSE AlignUp(r.size, Atom)

CommonMultiples(a, b) == {m \in 1..(a * b) : m % a = 0 /\ m % b = 0}

(* Mutant: the caller's alignment alone.                                   *)
ReservedAlignmentOfCaller(r) == {r.alignment}

ReservedAlignment(r) ==
    IF Coherent THEN {r.alignment}
    ELSE IF r.alignment = 0 THEN {Atom}
    ELSE {m \in CommonMultiples(r.alignment, Atom) :
             \A n \in CommonMultiples(r.alignment, Atom) : m <= n}

(* Mutant: only the start of a reservation has to be inside the ring.      *)
PlaceStart(size, alignment) ==
    LET aligned == AlignUp(m_offset, alignment)
    IN  IF aligned >= Size
        THEN [wrap |-> TRUE, offset |-> 0, watches |-> current, cursor |-> 0, bound |-> 0]
        ELSE [wrap |-> FALSE, offset |-> aligned, watches |-> previous,
              cursor |-> m_wait_cursor, bound |-> m_wait_bound]

(* Where Map puts a reservation, and the watches it has to look at.        *)
Place(size, alignment) ==
    LET aligned == AlignUp(m_offset, alignment)
    IN  IF aligned > Size - size
        THEN [wrap |-> TRUE, offset |-> 0, watches |-> current, cursor |-> 0, bound |-> 0]
        ELSE [wrap |-> FALSE, offset |-> aligned, watches |-> previous,
              cursor |-> m_wait_cursor, bound |-> m_wait_bound]

(* The bound of the watches waited for once the cursor is at k.            *)
BoundAt(p, k) == IF k = p.cursor THEN p.bound ELSE p.watches[k].upper_bound

(* The loop of WaitPendingOperations goes no further than cursor k.        *)
Covered(p, size, k) == BoundAt(p, k) >= p.offset + size

WaitsUpTo(p, size, k) ==
    /\ k = Len(p.watches) \/ Covered(p, size, k)
    /\ \A j \in p.cursor..(k - 1) : ~Covered(p, size, j)

(* CommandScheduler::Wait, which submits the open tick if it has to, and   *)
(* WaitPriorityOperations for a download ring.                             *)
WaitFor(tick) ==
    /\ tick = currentTick => currentTick < MaxTick
    /\ currentTick' = IF tick = currentTick THEN currentTick + 1 ELSE currentTick
    /\ gpuTick' = Later(gpuTick, tick)
    /\ published' = IF Download THEN Later(published, tick) ELSE published

AllFree(p, k) == \A i \in (p.cursor + 1)..k : p.watches[i].tick <= gpuTick

Map(r) ==
    \E alignment \in ReservedAlignment(r) :
        LET size == ReservedSize(r)
            p    == Place(size, alignment)
        IN  /\ size <= Size
            /\ \E k \in p.cursor..Len(p.watches) :
                  /\ WaitsUpTo(p, size, k)
                  /\ r.allow_wait \/ AllFree(p, k)
                  /\ WaitFor(IF k = p.cursor THEN 0 ELSE p.watches[k].tick)
                  /\ m_wait_cursor' = k
                  /\ m_wait_bound' = BoundAt(p, k)
            /\ IF p.wrap THEN previous' = current /\ current' = <<>>
               ELSE UNCHANGED <<previous, current>>
            /\ m_offset' = p.offset
            /\ m_mapped_size' = size
            /\ open' = TRUE
            /\ UNCHANGED lastUse

(* Mutant: a reservation that is given up has already begun the new lap.   *)
MapRefusedMidway(r) ==
    \E alignment \in ReservedAlignment(r) :
        LET size == ReservedSize(r)
            p    == Place(size, alignment)
        IN  /\ size <= Size /\ ~r.allow_wait /\ p.wrap
            /\ \E k \in p.cursor..Len(p.watches) : WaitsUpTo(p, size, k) /\ ~AllFree(p, k)
            /\ current' = <<>> /\ m_offset' = 0
            /\ UNCHANGED <<m_mapped_size, previous, m_wait_cursor, m_wait_bound, ticks, open,
                           lastUse>>

(* Map returns nullptr and leaves the ring as it was.                      *)
MapRefused(r) ==
    /\ \E alignment \in ReservedAlignment(r) :
          LET size == ReservedSize(r)
              p    == Place(size, alignment)
          IN  \/ size > Size
              \/ /\ ~r.allow_wait
                 /\ \E k \in p.cursor..Len(p.watches) : WaitsUpTo(p, size, k) /\ ~AllFree(p, k)
    /\ UNCHANGED ringVars

(* The last watch is one of the current tick.                              *)
NotedThisTick == current # <<>> /\ current[Len(current)].tick = currentTick

Commit ==
    LET upper == m_offset + m_mapped_size
    IN  /\ open
        /\ m_offset' = upper
        /\ current' =
              IF NotedThisTick THEN [current EXCEPT ![Len(current)].upper_bound = upper]
              ELSE Append(current, [tick |-> currentTick, upper_bound |-> upper])
        /\ lastUse' = [b \in RingBytes |-> IF b >= m_offset /\ b < upper THEN currentTick
                                       ELSE lastUse[b]]
        /\ open' = FALSE
        /\ UNCHANGED <<m_mapped_size, previous, m_wait_cursor, m_wait_bound, ticks>>

(* The owner submits the current tick.                                     *)
Submit ==
    /\ currentTick < MaxTick
    /\ currentTick' = currentTick + 1
    /\ UNCHANGED <<ring, gpuTick, published, open, lastUse>>

(* The device retires a submitted tick, and the scheduler learns of it.    *)
Retire ==
    /\ gpuTick + 1 < currentTick
    /\ gpuTick' = gpuTick + 1
    /\ UNCHANGED <<ring, currentTick, published, open, lastUse>>

(* The priority thread has run the callbacks of a retired tick.            *)
RunCallbacks ==
    /\ published < gpuTick
    /\ published' = published + 1
    /\ UNCHANGED <<ring, currentTick, gpuTick, open, lastUse>>

RingInit ==
    /\ m_offset = 0 /\ m_mapped_size = 0 /\ current = <<>> /\ previous = <<>>
    /\ m_wait_cursor = 0 /\ m_wait_bound = 0
    /\ currentTick = 1 /\ gpuTick = 0 /\ published = 0
    /\ open = FALSE /\ lastUse = [b \in RingBytes |-> 0]

RingNext ==
    \/ \E r \in Requests : Map(r) \/ MapRefused(r)
    \/ Commit \/ Submit \/ Retire \/ RunCallbacks

RingSpec == RingInit /\ [][RingNext]_ringVars

-----------------------------------------------------------------------------
(* The ring never hands out or notes a byte outside the buffer, and its    *)
(* state has the types of StreamBuffer's members.                          *)
RingTypeOK ==
    /\ m_offset \in 0..Size /\ m_mapped_size \in 0..Size
    /\ open => m_offset + m_mapped_size <= Size
    /\ current \in Seq(Watch) /\ previous \in Seq(Watch)
    /\ m_wait_cursor \in 0..Len(previous) /\ m_wait_bound \in Nat
    /\ currentTick \in Nat /\ gpuTick \in Nat /\ published \in Nat
    /\ open \in BOOLEAN /\ lastUse \in [RingBytes -> Nat]

(* The ticks up to which uses of the ring are over.                        *)
Finished == IF Download THEN published ELSE gpuTick

(* The range Map returned is used by no tick the device, or for a download *)
(* the callback that reads it, may still be working on: not after a lap,   *)
(* not after a short lap, a reservation that was given up, or a refused    *)
(* one.                                                                    *)
NoReuseInFlight ==
    open => \A b \in m_offset..(m_offset + m_mapped_size - 1) : lastUse[b] <= Finished

(* On memory that is not coherent, flushing or invalidating a reservation  *)
(* touches whole atoms: none of them holds a byte still in use.            *)
AtomsIsolated ==
    (open /\ ~Coherent) =>
        \A b \in m_offset..(m_offset + m_mapped_size - 1), c \in RingBytes :
            b \div Atom = c \div Atom => lastUse[c] <= Finished
=============================================================================
