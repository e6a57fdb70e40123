---------------------------- MODULE GuestMemory ----------------------------
(***************************************************************************)
(* The guest's virtual memory (kernel/memory.cpp, memoryAddressSpace.inc). *)
(*                                                                         *)
(* Five tables describe the same pages: VirtualRanges what each range is,  *)
(* PhysicalMemory, FlexibleMemory and PooledMemory which frames of the one *)
(* backing object are whose, and the address space which frame the host    *)
(* shows at a page.  Every call holds g_memory_operation_mutex from start  *)
(* to end, so a call is a step; each conjunct is one of its calls to a     *)
(* table.  Calls that are refused without a change are not steps, and the  *)
(* host may refuse to map or unmap a view MaxFaults times.                 *)
(*                                                                         *)
(* Ranges are kept page by page.  Neighbours that agree in type and name   *)
(* are one range (MergeUnlocked), but Direct ranges never merge: cuts and  *)
(* mapping_cuts hold the pages where, inside a run of such pages, the next *)
(* record of VirtualRanges and of m_mappings begins.  Protections are left *)
(* out but for where they cut, and so are private pages (code and stacks). *)
(***************************************************************************)
EXTENDS Naturals, FiniteSets, FiniteSetsExt, Functions

CONSTANTS
    LastPage,     \* guest pages are 1..LastPage
    LastFrame,    \* frames of direct memory are 1..LastFrame
    FlexSize,     \* g_flexible_memory_size: the frames behind them
    MaxFaults     \* refusals of the host

MemoryAssumption == LastPage \in Nat /\ LastFrame \in Nat /\ FlexSize \in Nat /\ MaxFaults \in Nat

VARIABLES
    range_type, name, offset, cuts,   \* VirtualRanges::m_ranges
    m_physical,                       \* frames allocated for direct mappings
    m_mappings, mapping_cuts,         \* PhysicalMemory::m_mappings
    m_allocated,                      \* FlexibleMemory::m_allocated
    m_expansions, m_pool,             \* PooledMemory: expansions, mappings
    m_maps,                           \* the frame the host shows at a page, or 0
    gpu_pages,                        \* pages mapped for the GPU
    g_memory_pool_committed,
    exited,                           \* an EXIT has ended the process
    faults

ranges == <<range_type, name, offset, cuts>>
physical == <<m_physical, m_mappings, mapping_cuts>>
pool == <<m_expansions, m_pool, g_memory_pool_committed>>
memoryVars == <<ranges, physical, m_allocated, pool, m_maps, gpu_pages, exited, faults>>

GuestPages == 1..LastPage
Frames == 1..LastFrame
FlexFrames == LastFrame + 1 .. LastFrame + FlexSize
Spans(S) == {lo..hi : lo \in S, hi \in S} \ {{}}

All(x) == [p \in GuestPages |-> x]
With(f, I, g) == [p \in GuestPages |-> IF p \in I THEN g[p] ELSE f[p]]

(* Where a cut at both ends of I begins a record.                          *)
Edges(I) == {p \in 1..LastPage + 1 : (p \in I) # (p - 1 \in I)}

(* Cuts between neighbours of a run; elsewhere a record begins anyway.     *)
Inside(c, run) == {p \in c : {p - 1, p} \subseteq run}

Of(t) == {p \in GuestPages : range_type[p] = t}
Reserved == Of("Reserved") \cup Of("PoolReserved")
Committed == Of("Direct") \cup Of("Flexible") \cup Of("Pooled")
Unused == Of("None")

Fault == faults < MaxFaults /\ faults' = faults + 1
----------------------------------------------------------------------------
(* The tables' own operations.                                             *)

(* VirtualRanges::Remove, then Add of one range with type t.               *)
AddRange(I, t, n, at) ==
    /\ range_type' = With(range_type, I, All(t))
    /\ name' = With(name, I, n)
    /\ offset' = With(offset, I, at)
    /\ cuts' = Inside((cuts \ I) \cup Edges(I), {p \in GuestPages : range_type'[p] = "Direct"})

RemoveRange(I) == AddRange(I, "None", All(""), All(0))

(* PhysicalMemory::Unmap of whatever of I is mapped, then Map.             *)
MapPhysical(I, at) ==
    /\ m_mappings' = With(m_mappings, I, at)
    /\ mapping_cuts' = Inside((mapping_cuts \ I) \cup Edges(I),
                              {p \in GuestPages : m_mappings'[p] # 0})

UnmapPhysical(I) == MapPhysical(I, All(0))

(* FlexibleMemory::Unmap and Map; PooledMemory::Release and Allocate; the  *)
(* address space's UnmapBacking and MapBacking.                            *)
MapFlexible(I, at) == m_allocated' = With(m_allocated, I, at)
MapPool(I, at) == m_pool' = With(m_pool, I, at)
MapBacking(I, at) == m_maps' = With(m_maps, I, at)

(* MemoryPoolSubtractCommitted: never below zero.                          *)
Subtract(n) == g_memory_pool_committed' =
                   IF g_memory_pool_committed > n THEN g_memory_pool_committed - n ELSE 0

(* The free frames f from which n are free.                                *)
FreeRuns(n) == {f \in Frames : f..f + n - 1 \subseteq Frames \ (m_physical \cup UNION m_expansions)}

(* The pages of I get the lowest frames of S, in order.                    *)
Lowest(S, I) == [p \in GuestPages |->
    IF p \notin I THEN 0
    ELSE CHOOSE f \in S : Cardinality({g \in S : g < f}) = Cardinality({q \in I : q < p})]

(* The pages of I get the frames from f on.                                *)
From(f, I) == [p \in GuestPages |-> IF p \in I THEN f + (p - Min(I)) ELSE 0]

(* FindGuestFreeRange: the first free pages at or after I's.               *)
FreeRange(I) ==
    LET fits == {J \in Spans(GuestPages) : Cardinality(J) = Cardinality(I) /\ Min(J) >= Min(I)
                                           /\ J \subseteq Unused}
    IN  IF fits = {} THEN {} ELSE CHOOSE J \in fits : \A K \in fits : Min(J) <= Min(K)

(* The pages a request for I gets, if any: MAP_FIXED replaces what is      *)
(* there, though pooled memory ends the process, and with NO_OVERWRITE is  *)
(* refused unless nothing is; otherwise only a direct mapping takes        *)
(* reserved pages.                                                         *)
Target(I, how, takes) ==
    IF how = "fixed" THEN IF I \cap Of("Pooled") = {} THEN I ELSE {}
    ELSE IF takes /\ I \subseteq Of("Reserved") THEN I ELSE FreeRange(I)

(* The name a consumed reservation gets back when the mapping fails.       *)
ConsumedName(T) == IF T \subseteq Of("Reserved") THEN name[Min(T)] ELSE "anon"
----------------------------------------------------------------------------
(* PhysicalMemory::Alloc, first fit.                                       *)
AllocateDirectMemory(n) ==
    /\ FreeRuns(n) # {}
    /\ m_physical' = m_physical \cup Min(FreeRuns(n))..Min(FreeRuns(n)) + n - 1
    /\ UNCHANGED <<ranges, m_mappings, mapping_cuts, m_allocated, pool, m_maps, gpu_pages, exited,
                   faults>>

KernelMemoryPoolExpand(n) ==
    /\ FreeRuns(n) # {}
    /\ m_expansions' = m_expansions \cup {Min(FreeRuns(n))..Min(FreeRuns(n)) + n - 1}
    /\ UNCHANGED <<ranges, physical, m_allocated, m_pool, g_memory_pool_committed, m_maps,
                   gpu_pages, exited, faults>>

(* Mutant: an expansion is released under its mappings.                    *)
NotMappedUnchecked(F) == TRUE

NotMapped(F) == \A p \in GuestPages : m_pool[p] \notin F

ReleaseExpansion(F) ==
    /\ F \in m_expansions /\ NotMapped(F)
    /\ m_expansions' = m_expansions \ {F}
    /\ UNCHANGED <<ranges, physical, m_allocated, m_pool, g_memory_pool_committed, m_maps,
                   gpu_pages, exited, faults>>

(* FindMappings.                                                           *)
Aliases(F) == {p \in GuestPages : m_mappings[p] \in F}

(* Every alias lies in one direct range: inside an alias, which ends where *)
(* a record of m_mappings does, no range begins.                           *)
AliasesContained(F) == Inside(cuts, Aliases(F)) \subseteq mapping_cuts

(* The host's refusals are undone in full.                                 *)
ReleaseDirectMemory(F) ==
    /\ F \subseteq m_physical /\ AliasesContained(F)
    /\ m_physical' = m_physical \ F
    /\ UnmapPhysical(Aliases(F)) /\ RemoveRange(Aliases(F)) /\ MapBacking(Aliases(F), All(0))
    /\ gpu_pages' = gpu_pages \ Aliases(F)
    /\ UNCHANGED <<m_allocated, pool, exited, faults>>

(* "direct-memory alias escaped guest address-space ownership": Rename has *)
(* cut the range, and nothing the mapping.                                 *)
ReleaseExits(F) ==
    /\ F \subseteq m_physical /\ ~AliasesContained(F)
    /\ exited' = TRUE
    /\ UNCHANGED <<ranges, physical, m_allocated, pool, m_maps, gpu_pages, faults>>

(* A name on part of a direct range cuts it; m_mappings are named whole.   *)
KernelSetVirtualRangeName(I, n) ==
    /\ name' = [p \in GuestPages |-> IF p \in I /\ range_type[p] \notin {"None", "Direct"} THEN n
                                     ELSE name[p]]
    /\ cuts' = Inside(cuts \cup Edges(I), Of("Direct"))
    /\ UNCHANGED <<range_type, offset, physical, m_allocated, pool, m_maps, gpu_pages,
                   exited, faults>>

(* ProtectMapping is called for each range of I.                           *)
KernelMprotect(I) ==
    /\ I \subseteq Committed
    /\ cuts' = Inside(cuts \cup Edges(I), Of("Direct"))
    /\ mapping_cuts' = Inside(mapping_cuts \cup Edges(I) \cup (cuts \cap I), Of("Direct"))
    /\ UNCHANGED <<range_type, name, offset, m_physical, m_mappings, m_allocated, pool, m_maps,
                   gpu_pages, exited, faults>>
----------------------------------------------------------------------------
(* Where VirtualRanges begins a range.                                     *)
RangeHead(p) == \/ p - 1 \notin GuestPages \/ p \in cuts
           \/ <<range_type[p], name[p]>> # <<range_type[p - 1], name[p - 1]>>

(* UnmapMemoryRange takes I range by range; when the host refuses one, the *)
(* ranges before it are gone, the GPU's mapping of all of I is.            *)
KernelMunmap(I) ==
    /\ I \cap Unused = {}
    /\ \E stop \in {p \in I : p = Min(I) \/ RangeHead(p)} \cup {Max(I) + 1} :
          LET J == {p \in I : p < stop}
          IN  /\ IF stop \in I THEN stop \in Committed /\ Fault ELSE UNCHANGED faults
              /\ MapBacking(J \cap Committed, All(0))
              /\ MapPool(J \cap Of("Pooled"), All(0)) /\ Subtract(Cardinality(J \cap Of("Pooled")))
              /\ UnmapPhysical(J \cap Of("Direct"))
              /\ MapFlexible(J \cap Of("Flexible"), All(0))
              /\ RemoveRange(J)
    /\ gpu_pages' = gpu_pages \ I
    /\ UNCHANGED <<m_physical, m_expansions, exited>>

(* ReplaceFixedRangeWithReserved takes I apart range by range; when the    *)
(* host refuses one, or the reservation of all of I, what was taken is put *)
(* back as records of their own.                                           *)
ReplaceFixedRefused(I) ==
    /\ I \cap Of("Pooled") = {}
    /\ Fault
    /\ \E stop \in {p \in I \cap Committed : p = Min(I) \/ RangeHead(p)} \cup {Max(I) + 1} :
          LET taken == {p \in I : p < stop} \cap Of("Direct")
          IN  mapping_cuts' = Inside(mapping_cuts \cup Edges(taken) \cup (cuts \cap taken),
                                     Of("Direct"))
    /\ cuts' = Inside(cuts \cup Edges(I), Of("Direct"))
    /\ gpu_pages' = (gpu_pages \ I) \cup (I \cap Committed)
    /\ UNCHANGED <<range_type, name, offset, m_physical, m_mappings, m_allocated, pool, m_maps,
                   exited>>

(* T becomes a range of type t that shows nothing.                         *)
Vacate(T, t, n) ==
    /\ UnmapPhysical(T) /\ MapFlexible(T, All(0)) /\ MapBacking(T, All(0))
    /\ AddRange(T, t, All(n), All(0))
    /\ gpu_pages' = gpu_pages \ T
    /\ UNCHANGED <<m_physical, pool, exited>>

KernelReserveVirtualRange(I, how) ==
    LET T == Target(I, how, FALSE) IN
    /\ T # {} /\ Vacate(T, "Reserved", "anon") /\ UNCHANGED faults

(* A reservation that merges with its neighbour is not found again and     *)
(* stays reserved, though the call is refused.                             *)
KernelMemoryPoolReserve(I, how) ==
    LET T == Target(I, how, FALSE)
        merged == \E p \in (Min(T) - 1..Max(T) + 1) \cap (GuestPages \ T) :
                      range_type[p] = "Reserved" /\ name[p] = "anon"
    IN  /\ T # {} /\ UNCHANGED faults
        /\ Vacate(T, IF merged THEN "Reserved" ELSE "PoolReserved", "anon")

(* A refused view leaves a fixed range reserved, whatever was there.       *)
ViewRefused(T, how) ==
    /\ Fault
    /\ IF how = "hint" /\ T \subseteq Unused THEN Vacate(T, "None", "")
       ELSE Vacate(T, "Reserved", ConsumedName(T))

KernelMapDirectMemory(I, f, how) ==
    LET T == Target(I, how, TRUE) IN
    /\ f..f + Cardinality(I) - 1 \subseteq m_physical
    /\ T # {}
    /\ \/ /\ MapBacking(T, From(f, T)) /\ MapPhysical(T, From(f, T))
          /\ AddRange(T, "Direct", All(""), From(f, T))
          /\ MapFlexible(T, All(0))
          /\ gpu_pages' = gpu_pages \cup T
          /\ UNCHANGED <<m_physical, pool, exited, faults>>
       \/ ViewRefused(T, how)

(* FlexibleMemory::Map: the lowest free frames, after the replaced pages   *)
(* have given theirs back.                                                 *)
FreeFlexible(T) == FlexFrames \ {m_allocated[p] : p \in GuestPages \ T}

KernelMapFlexibleMemory(I, how) ==
    LET T == Target(I, how, FALSE)
        at == Lowest(FreeFlexible(T), T)
    IN  /\ Cardinality(I) <= Cardinality(FreeFlexible({}))
        /\ T # {}
        /\ \/ /\ MapBacking(T, at) /\ MapFlexible(T, at) /\ UnmapPhysical(T)
              /\ AddRange(T, "Flexible", All("anon"), All(0))
              /\ gpu_pages' = gpu_pages \cup T
              /\ UNCHANGED <<m_physical, pool, exited, faults>>
           \/ ViewRefused(T, how)

FreePool == (UNION m_expansions) \ Range(m_pool)

KernelMemoryPoolCommit(I) ==
    LET at == Lowest(FreePool, I) IN
    /\ I \subseteq Of("PoolReserved") /\ \A p \in I : name[p] = name[Min(I)]
    /\ Cardinality(I) <= Cardinality(FreePool)
    /\ MapPool(I, at) /\ MapBacking(I, at)
    /\ AddRange(I, "Pooled", name, All(0))
    /\ gpu_pages' = gpu_pages \cup I
    /\ g_memory_pool_committed' = g_memory_pool_committed + Cardinality(I)
    /\ UNCHANGED <<physical, m_allocated, m_expansions, exited, faults>>

KernelMemoryPoolDecommit(I) ==
    LET J == I \cap Of("Pooled") IN
    /\ I \subseteq Of("Pooled") \cup Of("PoolReserved") /\ J # {}
    /\ MapPool(J, All(0)) /\ MapBacking(J, All(0)) /\ AddRange(J, "PoolReserved", name, All(0))
    /\ gpu_pages' = gpu_pages \ I /\ Subtract(Cardinality(J))
    /\ UNCHANGED <<physical, m_allocated, m_expansions, exited, faults>>

MemoryInit ==
    /\ range_type = All("None") /\ name = All("") /\ offset = All(0) /\ cuts = {}
    /\ m_physical = {} /\ m_mappings = All(0) /\ mapping_cuts = {}
    /\ m_allocated = All(0) /\ m_expansions = {} /\ m_pool = All(0)
    /\ m_maps = All(0) /\ gpu_pages = {} /\ g_memory_pool_committed = 0
    /\ exited = FALSE /\ faults = 0

MemoryNext ==
    /\ ~exited
    /\ \/ \E n \in Frames : AllocateDirectMemory(n) \/ KernelMemoryPoolExpand(n)
       \/ \E F \in Spans(Frames) : ReleaseExpansion(F) \/ ReleaseDirectMemory(F) \/ ReleaseExits(F)
       \/ \E I \in Spans(GuestPages) :
             \/ KernelSetVirtualRangeName(I, "named") \/ KernelMprotect(I)
             \/ KernelMunmap(I) \/ ReplaceFixedRefused(I)
             \/ KernelMemoryPoolCommit(I) \/ KernelMemoryPoolDecommit(I)
             \/ \E how \in {"fixed", "hint"} :
                   \/ KernelReserveVirtualRange(I, how) \/ KernelMemoryPoolReserve(I, how)
                   \/ KernelMapFlexibleMemory(I, how)
                   \/ \E f \in Frames : KernelMapDirectMemory(I, f, how)

MemorySpec == MemoryInit /\ [][MemoryNext]_memoryVars
----------------------------------------------------------------------------
(* Each table maps pages to frames of its own kind, or to none.            *)
MemoryTypeOK ==
    /\ range_type \in [GuestPages -> {"None", "Reserved", "PoolReserved", "Direct", "Flexible",
                                      "Pooled"}]
    /\ name \in [GuestPages -> {"", "anon", "named"}]
    /\ offset \in [GuestPages -> Frames \cup {0}] /\ m_mappings \in [GuestPages -> Frames \cup {0}]
    /\ m_allocated \in [GuestPages -> FlexFrames \cup {0}]
    /\ m_pool \in [GuestPages -> Frames \cup {0}]
    /\ m_maps \in [GuestPages -> Frames \cup FlexFrames \cup {0}]
    /\ m_physical \subseteq Frames /\ m_expansions \subseteq Spans(Frames)
    /\ cuts \subseteq GuestPages /\ mapping_cuts \subseteq GuestPages
    /\ gpu_pages \subseteq GuestPages
    /\ g_memory_pool_committed \in 0..LastPage /\ exited \in BOOLEAN /\ faults \in 0..MaxFaults

(* "Keep host mappings, physical blocks, placeholders, and virtual ranges  *)
(* in step" (g_memory_operation_mutex): whatever calls replaced, split,    *)
(* released or refused before, the host shows at each page the frame its   *)
(* range and its owner name, and nothing elsewhere; no frame that was      *)
(* released or has another owner is shown; the GPU has no page that is     *)
(* gone; every record of m_mappings that Unmap looks for is found; and the *)
(* pool counts what it has committed.                                      *)
TablesInStep ==
    /\ \A p \in GuestPages :
          /\ m_maps[p] = m_mappings[p] + m_allocated[p] + m_pool[p]
          /\ m_mappings[p] # 0 <=> range_type[p] = "Direct"
          /\ m_allocated[p] # 0 <=> range_type[p] = "Flexible"
          /\ m_pool[p] # 0 <=> range_type[p] = "Pooled"
          /\ offset[p] = m_mappings[p]
          /\ m_mappings[p] \in m_physical \cup {0}
          /\ m_pool[p] \in (UNION m_expansions) \cup {0}
          /\ \A q \in GuestPages \ {p} : /\ m_pool[p] # 0 => m_pool[p] # m_pool[q]
                                         /\ m_allocated[p] # 0 => m_allocated[p] # m_allocated[q]
    /\ m_physical \cap UNION m_expansions = {}
    /\ gpu_pages \subseteq Committed
    /\ mapping_cuts \subseteq cuts
    /\ g_memory_pool_committed = Cardinality(Of("Pooled"))
=============================================================================
