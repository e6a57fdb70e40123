---------------------------- MODULE BufferCache ----------------------------
(***************************************************************************)
(* The GPU's copies of guest memory (renderer/cache/bufferCache.cpp, the   *)
(* MemoryTracker with its RegionManager, and GpuResourceManager).          *)
(*                                                                         *)
(* A tracked page is writable for the guest while m_cpu_dirty has it and   *)
(* inaccessible while m_gpu_dirty does; a fault brings it back.  Which     *)
(* value a byte has does not matter, only where its latest value is: in    *)
(* the guest's backing, in the copy of the buffer that covers it, or in a  *)
(* write-back that has been recorded and not yet published.  Recorded GPU  *)
(* work is in effect when it is recorded: whatever looks at its results    *)
(* finishes it first.                                                      *)
(*                                                                         *)
(* A critical section of a region's lock is one step; ForEachUploadRange   *)
(* keeps the lock over the upload when the range is going to be written.   *)
(* A release's copies are published together.                              *)
(***************************************************************************)
EXTENDS Naturals, FiniteSets, Sequences, FiniteSetsExt

CONSTANTS
    LastByte,       \* bytes are 1..LastByte, two to a page
    Guests,         \* guest threads
    WindowSize,     \* of ReadMemoryOnGpu, in pages
    MaxSnapshots    \* write-backs the release staging has room for

(* There is a page, a window is not empty, and the GPU thread tells its    *)
(* own errands from those of the guest threads.                            *)
CacheAssumption ==
    /\ LastByte \in Nat \ {0} /\ WindowSize \in Nat \ {0} /\ MaxSnapshots \in Nat
    /\ "gc" \notin Guests /\ "unmap" \notin Guests

VARIABLES
    m_cpu_dirty, m_gpu_dirty,     \* RegionManager: pages
    m_gpu_modified_ranges,        \* bytes
    m_buffers,                    \* the buffers' ranges of pages
    m_mapped_ranges,              \* pages
    backing, copy,                \* bytes whose latest value is there
    snapshots,                    \* write-backs not yet published, oldest first
    gpu,                          \* what the GPU thread is in the middle of
    pc                            \* per guest thread: its access

tracker   == <<m_cpu_dirty, m_gpu_dirty>>
bytes     == <<m_gpu_modified_ranges, backing, copy, snapshots>>
cacheVars == <<tracker, bytes, m_buffers, m_mapped_ranges, gpu, pc>>

Bytes == 1..LastByte
PageOf(b) == (b + 1) \div 2
Pages == 1..PageOf(LastByte)
PagesOf(B) == {PageOf(b) : b \in B}
BytesOf(P) == {b \in Bytes : PageOf(b) \in P}

Ranges(S) == {i..j : i, j \in S} \ {{}}

(* The GPU thread: at a step of the upload or the download of "pages" (of  *)
(* "bytes" of them); "marks" become the guest's, "for" asked for it.       *)
GpuIdle == [at |-> "idle", pages |-> {}, bytes |-> {}, marks |-> {}, for |-> "none"]
Resting == [at |-> "idle", page |-> 1, write |-> FALSE]

CacheInit ==
    /\ m_cpu_dirty = Pages /\ m_gpu_dirty = {} /\ m_gpu_modified_ranges = {}
    /\ m_buffers = {} /\ m_mapped_ranges = {}
    /\ backing = Bytes /\ copy = {} /\ snapshots = <<>>
    /\ gpu = GpuIdle /\ pc = [g \in Guests |-> Resting]

-----------------------------------------------------------------------------
(* ResolveOverlaps: what the request and the buffers it touches cover,     *)
(* grown by a page where the stream score asks for more.                   *)
Leap(P) == {Q \in Ranges(Pages) : P \subseteq Q /\ Min(P) - Min(Q) <= 1 /\ Max(Q) - Max(P) <= 1}
Overlapping(P) == {B \in m_buffers : B \cap P # {}}
Joined(P) == Min(P \cup UNION Overlapping(P))..Max(P \cup UNION Overlapping(P))

(* FindBuffer, CreateBuffer and JoinOverlap: the buffer that holds P.      *)
FindBuffer(P, B) ==
    IF \E C \in m_buffers : P \subseteq C
    THEN B \in m_buffers /\ P \subseteq B /\ UNCHANGED m_buffers
    ELSE /\ \E Q \in Leap(Joined(P)) :
              /\ Q # Joined(P) => Overlapping(P) # {}
              /\ B = Joined(Q)
         /\ m_buffers' = (m_buffers \ Overlapping(B)) \cup {B}

(* Bytes change hands: the latest value of W is now at the writer.         *)
Overwrites(W) ==
    snapshots' = [i \in DOMAIN snapshots |->
                     [snapshots[i] EXCEPT !.current = @ \ W]]

(* ObtainBuffer for a buffer the GPU will write: clear the CPU's bits,     *)
(* upload, set the GPU's bits, one critical section.                       *)
ObtainWritten(W) ==
    /\ gpu.at = "idle" /\ PagesOf(W) \subseteq m_mapped_ranges
    /\ \E B \in Ranges(Pages) : FindBuffer(PagesOf(W), B)
    /\ LET uploaded == BytesOf(PagesOf(W) \cap m_cpu_dirty)
       IN  copy' = (copy \ uploaded) \cup (uploaded \cap backing) \cup W
    /\ m_cpu_dirty' = m_cpu_dirty \ PagesOf(W)
    /\ m_gpu_dirty' = m_gpu_dirty \cup PagesOf(W)
    /\ m_gpu_modified_ranges' = m_gpu_modified_ranges \cup W
    /\ backing' = backing \ W
    /\ Overwrites(W)
    /\ UNCHANGED <<m_mapped_ranges, gpu, pc>>

(* FillBuffer: through the guest's mapping unless the GPU owns a page; the *)
(* fault the GPU thread takes there is handled on the spot.                *)
FillBuffer(W) ==
    IF PagesOf(W) \cap m_gpu_dirty # {}
    THEN ObtainWritten(W)
    ELSE /\ gpu.at = "idle" /\ PagesOf(W) \subseteq m_mapped_ranges
         /\ m_cpu_dirty' = m_cpu_dirty \cup PagesOf(W)
         /\ backing' = backing \cup W /\ copy' = copy \ W /\ Overwrites(W)
         /\ UNCHANGED <<m_gpu_dirty, m_gpu_modified_ranges, m_buffers, m_mapped_ranges, gpu, pc>>

(* For a buffer it only reads: the lock is free again before the upload.   *)
ObtainRead(P) ==
    /\ gpu.at = "idle" /\ P \subseteq m_mapped_ranges
    /\ \E B \in Ranges(Pages) : FindBuffer(P, B)
    /\ m_cpu_dirty' = m_cpu_dirty \ P
    /\ gpu' = [GpuIdle EXCEPT !.at = "upload", !.pages = P \cap m_cpu_dirty]
    /\ UNCHANGED <<m_gpu_dirty, bytes, m_mapped_ranges, pc>>

UploadCopies ==
    /\ gpu.at = "upload"
    /\ LET uploaded == BytesOf(gpu.pages)
       IN  copy' = (copy \ uploaded) \cup (uploaded \cap backing)
    /\ gpu' = GpuIdle
    /\ UNCHANGED <<tracker, m_gpu_modified_ranges, backing, snapshots, m_buffers,
                   m_mapped_ranges, pc>>

(* RecordReleaseWriteback: what the GPU wrote, as it is now, goes to a     *)
(* staging buffer; the pages stay the GPU's.                               *)
(* Mutant: the release gives them up.                                      *)
RecordReleaseWritebackClears ==
    /\ gpu.at = "idle" /\ m_gpu_modified_ranges # {} /\ Len(snapshots) < MaxSnapshots
    /\ snapshots' = Append(snapshots, [bytes   |-> m_gpu_modified_ranges,
                                       current |-> m_gpu_modified_ranges \cap copy])
    /\ m_gpu_dirty' = {} /\ m_gpu_modified_ranges' = {}
    /\ UNCHANGED <<m_cpu_dirty, backing, copy, m_buffers, m_mapped_ranges, gpu, pc>>

RecordReleaseWriteback ==
    /\ gpu.at = "idle" /\ m_gpu_modified_ranges # {} /\ Len(snapshots) < MaxSnapshots
    /\ snapshots' = Append(snapshots, [bytes   |-> m_gpu_modified_ranges,
                                       current |-> m_gpu_modified_ranges \cap copy])
    /\ UNCHANGED <<tracker, m_gpu_modified_ranges, backing, copy, m_buffers,
                   m_mapped_ranges, gpu, pc>>

(* The priority operation of the oldest one runs.                          *)
Publish ==
    /\ snapshots # <<>>
    /\ backing' = (backing \ Head(snapshots).bytes) \cup Head(snapshots).current
    /\ snapshots' = Tail(snapshots)
    /\ UNCHANGED <<tracker, m_gpu_modified_ranges, copy, m_buffers, m_mapped_ranges, gpu, pc>>

-----------------------------------------------------------------------------
(* A guest thread reads or writes a byte; a protected page faults, and     *)
(* HandleFault goes on if the page is mapped.                              *)
Read(g, p) ==
    /\ pc[g].at = "idle" /\ p \in m_mapped_ranges \cap m_gpu_dirty
    /\ pc' = [pc EXCEPT ![g] = [at |-> "wait", page |-> p, write |-> FALSE]]
    /\ UNCHANGED <<tracker, bytes, m_buffers, m_mapped_ranges, gpu>>

Write(g, b) ==
    /\ pc[g].at = "idle" /\ PageOf(b) \in m_mapped_ranges
    /\ IF PageOf(b) \in m_cpu_dirty
       THEN /\ backing' = backing \cup {b} /\ copy' = copy \ {b} /\ Overwrites({b})
            /\ UNCHANGED pc
       ELSE /\ pc' = [pc EXCEPT ![g] = [at |-> "fault", page |-> PageOf(b), write |-> TRUE]]
            /\ UNCHANGED <<backing, copy, snapshots>>
    /\ UNCHANGED <<tracker, m_gpu_modified_ranges, m_buffers, m_mapped_ranges, gpu>>

(* InvalidateRegion: the page is the guest's unless the GPU wrote it.      *)
(* Mutant: whatever the GPU wrote.                                         *)
MayInvalidateAlways(p) == p \in Pages

MayInvalidate(p) == p \notin m_gpu_dirty

InvalidateRegion(g) ==
    /\ pc[g].at = "fault"
    /\ IF MayInvalidate(pc[g].page)
       THEN m_cpu_dirty' = m_cpu_dirty \cup {pc[g].page} /\ pc' = [pc EXCEPT ![g] = Resting]
       ELSE pc' = [pc EXCEPT ![g].at = "wait"] /\ UNCHANGED m_cpu_dirty
    /\ UNCHANGED <<m_gpu_dirty, bytes, m_buffers, m_mapped_ranges, gpu>>

-----------------------------------------------------------------------------
(* ReadMemoryOnGpu of P, in buffer B: the window of pages around it, and   *)
(* the exact bytes the GPU wrote on the dirty ones.                        *)
WindowBegin(P, B) == Max({((Min(P) - 1) \div WindowSize) * WindowSize + 1, Min(B)})
Window(P, B) == WindowBegin(P, B)..Min({Max({WindowBegin(P, B) + WindowSize - 1, Max(P)}), Max(B)})

(* Mutant: only what the faulting access needs.                            *)
CopiesOfFault(window, P) == m_gpu_modified_ranges \cap BytesOf(P \cap m_gpu_dirty)

Copies(window, P) == m_gpu_modified_ranges \cap BytesOf(window \cap m_gpu_dirty)

(* Nothing to fetch: only the guest's bits remain to be set.               *)
Fetch(window, D, marks, who) ==
    gpu' = [at |-> IF D = {} THEN "mark" ELSE "download",
            pages |-> window, bytes |-> D, marks |-> marks, for |-> who]

ReadMemoryOnGpu(P, write, who) ==
    \E B \in Ranges(Pages) :
       /\ FindBuffer(P, B)
       /\ LET window == Window(P, B)
          IN  Fetch(window, Copies(window, P), IF write THEN P ELSE {}, who)

Registered(P) == Overlapping(P) # {}

(* The command of a guest thread that waits at a fault.                    *)
ServeFault(g) ==
    /\ gpu.at = "idle" /\ pc[g].at = "wait"
    /\ IF pc[g].write /\ ~Registered({pc[g].page})
       THEN pc' = [pc EXCEPT ![g] = Resting] /\ UNCHANGED <<gpu, m_buffers>>
       ELSE ReadMemoryOnGpu({pc[g].page}, pc[g].write, g) /\ UNCHANGED pc
    /\ UNCHANGED <<tracker, bytes, m_mapped_ranges>>

(* DownloadBufferMemory: Finish and WaitPriorityOperations come first, so  *)
(* every write-back recorded so far is in the backing.                     *)
(* Mutant: Finish only.                                                    *)
DrainedByFinish == gpu.at = "download"

Drained == snapshots = <<>>

DownloadBufferMemory ==
    /\ gpu.at = "download" /\ Drained
    /\ backing' = (backing \ gpu.bytes) \cup (gpu.bytes \cap copy)
    /\ m_gpu_modified_ranges' = m_gpu_modified_ranges \ gpu.bytes
    /\ gpu' = [gpu EXCEPT !.at = "unmark"]
    /\ UNCHANGED <<tracker, copy, snapshots, m_buffers, m_mapped_ranges, pc>>

UnmarkRegionAsGpuModified ==
    /\ gpu.at = "unmark"
    /\ m_gpu_dirty' = m_gpu_dirty \ gpu.pages
    /\ gpu' = [gpu EXCEPT !.at = "mark"]
    /\ UNCHANGED <<m_cpu_dirty, bytes, m_buffers, m_mapped_ranges, pc>>

(* The end of each: MarkRegionAsCpuModified for a write, UntrackMemory and *)
(* Unregister for the collector, the mapping's end for UnmapMemory.        *)
Mark ==
    /\ gpu.at = "mark"
    /\ m_cpu_dirty' = m_cpu_dirty \cup gpu.marks
    /\ gpu' = GpuIdle
    /\ pc' = [g \in Guests |-> IF g = gpu.for THEN Resting ELSE pc[g]]
    /\ m_buffers' = IF gpu.for = "gc" THEN m_buffers \ {gpu.pages} ELSE m_buffers
    /\ copy' = IF gpu.for = "gc" THEN copy \ BytesOf(gpu.pages) ELSE copy
    /\ m_mapped_ranges' = IF gpu.for = "unmap" THEN m_mapped_ranges \ gpu.marks
                                               ELSE m_mapped_ranges
    /\ UNCHANGED <<m_gpu_dirty, m_gpu_modified_ranges, backing, snapshots>>

(* RunGarbageCollector takes one buffer; a dirty one is fetched first.     *)
(* Mutant: its pages stay tracked.                                         *)
CollectedPagesKept(B) == {}

CollectedPages(B) == B

RunGarbageCollector(B) ==
    /\ gpu.at = "idle" /\ B \in m_buffers
    /\ Fetch(B, Copies(B, B), CollectedPages(B), "gc")
    /\ UNCHANGED <<tracker, bytes, m_buffers, m_mapped_ranges, pc>>

(* UnmapMemory drains, and invalidates like a write fault.                 *)
UnmapMemory(P) ==
    /\ gpu.at = "idle" /\ P \subseteq m_mapped_ranges /\ Drained
    /\ IF P \cap m_gpu_dirty = {}
       THEN Fetch({}, {}, P, "unmap") /\ UNCHANGED m_buffers
       ELSE ReadMemoryOnGpu(P, TRUE, "unmap")
    /\ UNCHANGED <<tracker, bytes, m_mapped_ranges, pc>>

(* The mapping's new memory is the latest value of its bytes.              *)
MapMemory(P) ==
    /\ P \cap m_mapped_ranges = {}
    /\ m_mapped_ranges' = m_mapped_ranges \cup P
    /\ backing' = backing \cup BytesOf(P) /\ copy' = copy \ BytesOf(P)
    /\ UNCHANGED <<tracker, m_gpu_modified_ranges, snapshots, m_buffers, gpu, pc>>

CacheNext ==
    \/ \E W \in Ranges(Bytes) : ObtainWritten(W) \/ FillBuffer(W)
    \/ \E P \in Ranges(Pages) : ObtainRead(P) \/ UnmapMemory(P) \/ MapMemory(P)
    \/ UploadCopies \/ RecordReleaseWriteback \/ Publish
    \/ \E g \in Guests :
          \/ \E p \in Pages : Read(g, p)
          \/ \E b \in Bytes : Write(g, b)
          \/ InvalidateRegion(g) \/ ServeFault(g)
    \/ DownloadBufferMemory \/ UnmarkRegionAsGpuModified \/ Mark
    \/ \E B \in m_buffers : RunGarbageCollector(B)

CacheSpec == CacheInit /\ [][CacheNext]_cacheVars

-----------------------------------------------------------------------------
(* Types; the release staging keeps within its bound.                      *)
CacheTypeOK ==
    /\ m_cpu_dirty \subseteq Pages /\ m_gpu_dirty \subseteq Pages
    /\ m_mapped_ranges \subseteq Pages /\ m_buffers \subseteq Ranges(Pages)
    /\ m_gpu_modified_ranges \subseteq Bytes /\ backing \subseteq Bytes /\ copy \subseteq Bytes
    /\ Len(snapshots) <= MaxSnapshots
    /\ gpu.at \in {"idle", "upload", "download", "unmark", "mark"}
    /\ \A g \in Guests : pc[g].at \in {"idle", "fault", "wait"} /\ pc[g].page \in Pages

(* A guest thread that is let through to a page reads the latest values:   *)
(* whatever GPU work, write-backs, windows and other guests' faults went   *)
(* before (RecordReleaseWriteback's "Clearing it here would let a CPU read *)
(* overtake this pending submission").                                     *)
GuestSeesCurrent == BytesOf(m_mapped_ranges \ m_gpu_dirty) \subseteq backing

(* The GPU reads the latest values: a page whose bits say that its buffer  *)
(* is up to date is in a buffer and is, a guest's write that raced with    *)
(* the upload included.                                                    *)
GpuSeesCurrent ==
    BytesOf(Pages \ (m_cpu_dirty \cup (IF gpu.at = "upload" THEN gpu.pages ELSE {})))
        \subseteq copy \cap BytesOf(UNION m_buffers)

(* Neither side ever reads an old value of what it is let through to.      *)
LatestValueSeen == GuestSeesCurrent /\ GpuSeesCurrent

(* The page bits, the byte ranges and the buffers tell the same story      *)
(* (ChangeState's two EXITs, ValidateGpuDirtyPages, the destructor's       *)
(* check): no page belongs to both sides, and but for pages about to be    *)
(* unmarked the GPU's pages are those of its ranges.  Buffers never meet,  *)
(* and pages with a write-back under way stay out of the guest's reach     *)
(* until it is published.                                                  *)
DirtyPagesAgree ==
    /\ m_cpu_dirty \cap m_gpu_dirty = {}
    /\ LET fetched == IF gpu.at = "unmark" THEN gpu.pages ELSE {}
       IN  m_gpu_dirty \ fetched = PagesOf(m_gpu_modified_ranges)
    /\ m_gpu_dirty \subseteq UNION m_buffers
    /\ \A B, C \in m_buffers : B # C => B \cap C = {}
    /\ \A i \in DOMAIN snapshots : PagesOf(snapshots[i].bytes) \subseteq m_gpu_dirty
=============================================================================
