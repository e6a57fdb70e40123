----------------------- MODULE MemoryTrackingProofs ------------------------
(***************************************************************************)
(* The guest and the GPU never read an old value of what they are let      *)
(* through to, and the page bits, the byte ranges, the buffers and the     *)
(* write-backs agree, for every memory, set of guest threads, window and   *)
(* number of write-backs.  The host protects every page as its watchers    *)
(* ask, for every region and set of watchers.  The stream buffer's ring    *)
(* never reuses a range in flight.                                         *)
(***************************************************************************)
EXTENDS BufferCache, PageWatchers, StreamBuffer, FiniteSetTheorems, SequenceTheorems,
        NaturalsInduction, WellFoundedInduction, TLAPS

Snapshot == [bytes : SUBSET Bytes, current : SUBSET Bytes]

(* Types, as far as the argument needs them.                               *)
TypeInv ==
    /\ CacheTypeOK
    /\ snapshots \in Seq(Snapshot)
    /\ gpu \in [at : {"idle", "upload", "download", "unmark", "mark"}, pages : SUBSET Pages,
                bytes : SUBSET Bytes, marks : SUBSET Pages,
                for : Guests \cup {"none", "gc", "unmap"}]
    /\ pc \in [Guests -> [at : {"idle", "fault", "wait"}, page : Pages, write : BOOLEAN]]

(* Of mapped bytes, the backing is behind only on those the GPU wrote; and *)
(* only of those is there a write-back under way.  What is not mapped is   *)
(* the guest's.                                                            *)
OwnerInv ==
    /\ BytesOf(m_mapped_ranges) \ m_gpu_modified_ranges \subseteq backing
    /\ Pages \ m_mapped_ranges \subseteq m_cpu_dirty
    /\ \A i \in 1..Len(snapshots) : snapshots[i].bytes \subseteq m_gpu_modified_ranges

(* What the GPU thread is in the middle of.                                *)
GpuInv ==
    /\ gpu.at = "upload" =>
          /\ gpu.pages \subseteq m_mapped_ranges /\ gpu.pages \cap m_gpu_dirty = {}
          /\ gpu.pages \subseteq UNION m_buffers
    /\ gpu.at = "download" => gpu.bytes = m_gpu_modified_ranges \cap BytesOf(gpu.pages)
    /\ gpu.at = "unmark" => snapshots = <<>>
    /\ gpu.at \in {"download", "unmark"} => gpu.marks \cap m_gpu_dirty \subseteq gpu.pages
    /\ gpu.at = "mark" => gpu.marks \cap m_gpu_dirty = {}
    /\ gpu.at # "idle" /\ gpu.for = "gc" => gpu.marks = gpu.pages

IndInv == TypeInv /\ OwnerInv /\ GpuInv /\ DirtyPagesAgree /\ LatestValueSeen

-----------------------------------------------------------------------------
(* The first and the last of a set of numbers.                             *)
LEMMA Least ==
    ASSUME NEW S \in SUBSET Nat, S # {}
    PROVE  \E x \in S : \A y \in S : x <= y
<1>1. PICK x \in S : \A y \in S : <<y, x>> \notin OpToRel(<, Nat)
  BY NatLessThanWellFounded, WFMin, Zenon
<1>2. \A y \in S : ~(y < x)
  BY <1>1, Zenon DEF OpToRel
<1> QED
  BY <1>2

LEMMA MinMax ==
    ASSUME NEW n \in Nat, NEW S \in SUBSET (1..n), S # {}
    PROVE  /\ Min(S) \in S /\ \A y \in S : Min(S) <= y
           /\ Max(S) \in S /\ \A y \in S : y <= Max(S)
<1>1. \E x \in S : \A y \in S : x <= y
  BY Least
<1>2. \E x \in S : \A y \in S : y <= x
  <2> DEFINE Above == {k \in Nat : \A y \in S : y <= k}
  <2>1. n \in Above
    OBVIOUS
  <2>2. PICK k \in Above : \A j \in Above : k <= j
    BY <2>1, Least
  <2>3. ASSUME k \notin S PROVE FALSE
    <3>1. PICK z \in S : TRUE
      OBVIOUS
    <3>2. k - 1 \in Nat /\ \A y \in S : y <= k - 1
      BY <2>3, <3>1
    <3> QED
      BY <2>2, <3>2
  <2> QED
    BY <2>3
<1>3. Min(S) \in S /\ \A y \in S : Min(S) <= y
  BY <1>1 DEF Min
<1>4. Max(S) \in S /\ \A y \in S : y <= Max(S)
  BY <1>2 DEF Max
<1> QED
  BY <1>3, <1>4

(* Pages and their bytes.                                                  *)
LEMMA PagesAndBytes ==
    ASSUME CacheAssumption
    PROVE  /\ \A b \in Bytes : PageOf(b) \in Pages
           /\ PageOf(LastByte) \in Nat /\ 1 \in Pages
           /\ \A B : PagesOf(B) = {PageOf(b) : b \in B}
           /\ \A B \in SUBSET Bytes : PagesOf(B) \subseteq Pages
<1>1. ASSUME NEW b \in Bytes
      PROVE  PageOf(b) \in Pages
  BY <1>1 DEF Bytes, Pages, PageOf, CacheAssumption
<1>2. PageOf(LastByte) \in Nat /\ 1 \in Pages
  BY DEF Pages, PageOf, CacheAssumption
<1> QED
  BY <1>1, <1>2 DEF PagesOf

LEMMA RangeOfPages ==
    ASSUME CacheAssumption, NEW P \in Ranges(Pages)
    PROVE  /\ P \subseteq Pages /\ P # {}
           /\ \E i, j \in Pages : i <= j /\ P = i..j
<1>1. PageOf(LastByte) \in Nat
  BY PagesAndBytes
<1>2. PICK i, j \in Pages : P = i..j /\ P # {}
  BY DEF Ranges
<1>3. i <= j /\ P \subseteq Pages
  BY <1>1, <1>2 DEF Pages
<1> QED
  BY <1>2, <1>3

Disjoint == \A B, C \in m_buffers : B # C => B \cap C = {}

(* The hull of some pages and of the buffers they touch.                   *)
LEMMA JoinedCovers ==
    ASSUME CacheAssumption, m_buffers \subseteq Ranges(Pages),
           NEW P \in SUBSET Pages, P # {}
    PROVE  /\ P \cup UNION Overlapping(P) \in SUBSET Pages
           /\ P \cup UNION Overlapping(P) \subseteq Joined(P)
           /\ Min(P \cup UNION Overlapping(P)) \in P \cup UNION Overlapping(P)
           /\ Max(P \cup UNION Overlapping(P)) \in P \cup UNION Overlapping(P)
<1> DEFINE S == P \cup UNION Overlapping(P)
<1>1. PageOf(LastByte) \in Nat
  BY PagesAndBytes
<1>2. \A B \in m_buffers : B \subseteq Pages
  BY RangeOfPages
<1>3. S \in SUBSET Pages /\ S # {}
  BY <1>2 DEF Overlapping
<1>4. /\ Min(S) \in S /\ \A y \in S : Min(S) <= y
      /\ Max(S) \in S /\ \A y \in S : y <= Max(S)
  BY <1>1, <1>3, MinMax DEF Pages
<1> HIDE DEF S
<1>5. S \subseteq Min(S)..Max(S)
  BY <1>1, <1>3, <1>4 DEF Pages
<1> QED
  BY <1>3, <1>4, <1>5 DEF S, Joined

(* It cuts no buffer: what it touches, it holds.                           *)
LEMMA JoinedIsWhole ==
    ASSUME CacheAssumption, m_buffers \subseteq Ranges(Pages), Disjoint,
           NEW Q \in Ranges(Pages), NEW C \in m_buffers, C \cap Joined(Q) # {}
    PROVE  C \subseteq Joined(Q)
<1> DEFINE S == Q \cup UNION Overlapping(Q)
<1>1. PageOf(LastByte) \in Nat
  BY PagesAndBytes
<1>2. PICK q1, q2 \in Pages : q1 <= q2 /\ Q = q1..q2
  BY RangeOfPages
<1>3. Q \in SUBSET Pages /\ Q # {}
  BY RangeOfPages
<1>4. S \subseteq Pages /\ S \subseteq Joined(Q) /\ Min(S) \in S /\ Max(S) \in S
  BY <1>3, JoinedCovers
<1>5. Joined(Q) = Min(S)..Max(S)
  BY DEF Joined
<1> HIDE DEF S
<1>6. ASSUME C \notin Overlapping(Q) PROVE FALSE
  <2>1. PICK c \in C : Min(S) <= c /\ c <= Max(S) /\ c \in Pages
    BY <1>5, RangeOfPages
  <2>2. c \notin Q
    BY <1>6 DEF Overlapping
  <2>3. \A D \in Overlapping(Q) : c \notin D
    BY <1>6, <2>1 DEF Overlapping, Disjoint
  <2>4. ASSUME NEW m \in S, \/ m <= c /\ c < q1
                            \/ q2 < c /\ c <= m
        PROVE  FALSE
    <3>1. m \in Pages /\ m \notin Q
      BY <1>1, <1>2, <1>4, <2>1, <2>4 DEF Pages
    <3>2. PICK D \in Overlapping(Q) : m \in D
      BY <3>1 DEF S
    <3>3. PICK d \in D : d \in Q
      BY DEF Overlapping
    <3>4. D \in Ranges(Pages)
      BY DEF Overlapping
    <3>5. PICK i, j \in Pages : D = i..j
      BY <3>4, RangeOfPages
    <3>6. c \in D
      BY <1>1, <1>2, <2>1, <2>4, <3>1, <3>2, <3>3, <3>5 DEF Pages
    <3> QED
      BY <2>3, <3>6
  <2>5. c < q1 \/ q2 < c
    BY <1>1, <1>2, <2>1, <2>2 DEF Pages
  <2> QED
    BY <1>4, <2>1, <2>4, <2>5
<1>7. C \subseteq S
  BY <1>6 DEF S
<1> QED
  BY <1>4, <1>7

(* FindBuffer: the buffer that holds P, the others left or joined to it.   *)
LEMMA FindBufferKeeps ==
    ASSUME CacheAssumption, m_buffers \subseteq Ranges(Pages), Disjoint,
           NEW P \in SUBSET Pages, P # {}, NEW B \in Ranges(Pages), FindBuffer(P, B)
    PROVE  /\ m_buffers' \subseteq Ranges(Pages) /\ Disjoint'
           /\ P \subseteq B /\ B \in m_buffers'
           /\ UNION m_buffers \subseteq UNION m_buffers'
<1>1. CASE \E C \in m_buffers : P \subseteq C
  <2>1. B \in m_buffers /\ P \subseteq B /\ m_buffers' = m_buffers
    BY <1>1 DEF FindBuffer
  <2> QED
    BY <2>1 DEF Disjoint
<1>2. CASE ~\E C \in m_buffers : P \subseteq C
  <2>1. PICK Q \in Leap(Joined(P)) : B = Joined(Q)
    BY <1>2 DEF FindBuffer
  <2>2. m_buffers' = (m_buffers \ Overlapping(B)) \cup {B}
    BY <1>2 DEF FindBuffer
  <2>3. Q \in Ranges(Pages) /\ Joined(P) \subseteq Q
    BY DEF Leap
  <2>4. P \subseteq Q /\ Q \subseteq B
    BY <2>1, <2>3, JoinedCovers, RangeOfPages
  <2>5. \A C \in Overlapping(B) : C \subseteq B
    BY <2>1, <2>3, JoinedIsWhole DEF Overlapping
  <2>6. \A C \in m_buffers \ Overlapping(B) : C \cap B = {}
    BY DEF Overlapping
  <2>7. Disjoint'
    BY <2>2, <2>6 DEF Disjoint
  <2>8. UNION m_buffers \subseteq UNION m_buffers'
    BY <2>2, <2>5
  <2> QED
    BY <2>2, <2>4, <2>7, <2>8
<1> QED
  BY <1>1, <1>2

-----------------------------------------------------------------------------
(* Write-backs: types, and what Overwrites leaves of them.                 *)
LEMMA Snapshots ==
    ASSUME TypeInv
    PROVE  /\ Len(snapshots) \in Nat /\ DOMAIN snapshots = 1..Len(snapshots)
           /\ \A i \in 1..Len(snapshots) : snapshots[i] \in Snapshot
  BY LenProperties, ElementOfSeq DEF TypeInv

LEMMA OverwritesKeeps ==
    ASSUME TypeInv, NEW W, Overwrites(W)
    PROVE  /\ snapshots' \in Seq(Snapshot) /\ Len(snapshots') = Len(snapshots)
           /\ \A i \in 1..Len(snapshots) : snapshots'[i].bytes = snapshots[i].bytes
<1>1. /\ Len(snapshots) \in Nat /\ DOMAIN snapshots = 1..Len(snapshots)
      /\ \A i \in 1..Len(snapshots) : snapshots[i] \in Snapshot
  BY Snapshots
<1> DEFINE e(i) == [snapshots[i] EXCEPT !.current = @ \ W]
<1>2. \A i \in 1..Len(snapshots) : e(i) \in Snapshot /\ e(i).bytes = snapshots[i].bytes
  BY <1>1 DEF Snapshot
<1>3. snapshots' = [i \in 1..Len(snapshots) |-> e(i)]
  BY <1>1 DEF Overwrites
<1> HIDE DEF e
<1>4. snapshots' \in Seq(Snapshot)
  BY <1>1, <1>2, <1>3, IsASeq
<1>5. Len(snapshots') \in Nat /\ DOMAIN snapshots' = 1..Len(snapshots')
  BY <1>4, LenProperties
<1>6. Len(snapshots') = Len(snapshots)
  BY <1>1, <1>3, <1>5
<1> QED
  BY <1>2, <1>3, <1>4, <1>6

(* What the invariant says of the write-backs, when they keep their bytes  *)
(* and neither the ranges nor the pages of the GPU shrink.                 *)
LEMMA SnapshotsCovered ==
    ASSUME TypeInv, OwnerInv, DirtyPagesAgree,
           snapshots' \in Seq(Snapshot), Len(snapshots') = Len(snapshots),
           \A i \in 1..Len(snapshots) : snapshots'[i].bytes = snapshots[i].bytes,
           m_gpu_modified_ranges \subseteq m_gpu_modified_ranges',
           m_gpu_dirty \subseteq m_gpu_dirty'
    PROVE  /\ \A i \in 1..Len(snapshots') : snapshots'[i].bytes \subseteq m_gpu_modified_ranges'
           /\ \A i \in DOMAIN snapshots' : PagesOf(snapshots'[i].bytes) \subseteq m_gpu_dirty'
<1>1. DOMAIN snapshots' = 1..Len(snapshots) /\ DOMAIN snapshots = 1..Len(snapshots)
  BY LenProperties DEF TypeInv
<1> QED
  BY <1>1 DEF OwnerInv, DirtyPagesAgree

LEMMA RangeOfBytes ==
    ASSUME CacheAssumption, NEW W \in Ranges(Bytes)
    PROVE  /\ W \subseteq Bytes /\ W # {}
           /\ PagesOf(W) \subseteq Pages /\ PagesOf(W) # {}
<1>1. W \subseteq Bytes /\ W # {}
  BY DEF Ranges, Bytes, CacheAssumption
<1>2. PagesOf(W) \subseteq Pages
  BY <1>1, PagesAndBytes
<1>3. PagesOf(W) # {}
  BY <1>1 DEF PagesOf
<1> QED
  BY <1>1, <1>2, <1>3

LEMMA InitInv == CacheAssumption /\ CacheInit => IndInv
<1> SUFFICES ASSUME CacheAssumption, CacheInit PROVE IndInv
  OBVIOUS
<1>1. 1 \in Pages /\ Len(snapshots) = 0 /\ snapshots \in Seq(Snapshot)
      /\ DOMAIN snapshots = {}
  BY PagesAndBytes, EmptySeq DEF CacheInit
<1>2. TypeInv
  BY <1>1 DEF CacheInit, TypeInv, CacheTypeOK, GpuIdle, Resting, CacheAssumption
<1>3. OwnerInv
  BY <1>1 DEF CacheInit, OwnerInv, BytesOf
<1>4. GpuInv
  BY DEF CacheInit, GpuInv, GpuIdle
<1>5. DirtyPagesAgree
  BY <1>1 DEF CacheInit, DirtyPagesAgree, GpuIdle, PagesOf
<1>6. LatestValueSeen
  BY DEF CacheInit, LatestValueSeen, GuestSeesCurrent, GpuSeesCurrent, BytesOf
<1> QED
  BY <1>2, <1>3, <1>4, <1>5, <1>6 DEF IndInv

-----------------------------------------------------------------------------
(* The GPU thread obtains buffers.                                         *)

LEMMA ObtainWrittenInv ==
    ASSUME CacheAssumption, IndInv, NEW W \in Ranges(Bytes), ObtainWritten(W)
    PROVE  IndInv'
<1> USE DEF IndInv
<1> DEFINE P == PagesOf(W)
<1>1. W \subseteq Bytes /\ P \subseteq Pages /\ P # {}
  BY RangeOfBytes
<1>2. /\ gpu.at = "idle" /\ P \subseteq m_mapped_ranges
      /\ m_cpu_dirty' = m_cpu_dirty \ P /\ m_gpu_dirty' = m_gpu_dirty \cup P
      /\ m_gpu_modified_ranges' = m_gpu_modified_ranges \cup W
      /\ backing' = backing \ W /\ Overwrites(W)
      /\ copy' = (copy \ BytesOf(P \cap m_cpu_dirty))
                 \cup (BytesOf(P \cap m_cpu_dirty) \cap backing) \cup W
      /\ UNCHANGED <<m_mapped_ranges, gpu, pc>>
  BY DEF ObtainWritten
<1>3. PICK B \in Ranges(Pages) : FindBuffer(P, B)
  BY DEF ObtainWritten
<1>4. /\ m_buffers' \subseteq Ranges(Pages) /\ Disjoint' /\ P \subseteq UNION m_buffers'
      /\ UNION m_buffers \subseteq UNION m_buffers'
  <2>1. m_buffers \subseteq Ranges(Pages) /\ Disjoint
    BY DEF TypeInv, CacheTypeOK, DirtyPagesAgree, Disjoint
  <2> HIDE DEF P
  <2> QED
    BY <1>1, <1>3, <2>1, FindBufferKeeps
<1>5. /\ snapshots' \in Seq(Snapshot) /\ Len(snapshots') = Len(snapshots)
      /\ \A i \in 1..Len(snapshots) : snapshots'[i].bytes = snapshots[i].bytes
  BY <1>2, OverwritesKeeps
<1>6. /\ \A i \in 1..Len(snapshots') : snapshots'[i].bytes \subseteq m_gpu_modified_ranges'
      /\ \A i \in DOMAIN snapshots' : PagesOf(snapshots'[i].bytes) \subseteq m_gpu_dirty'
  BY <1>2, <1>5, SnapshotsCovered
<1>7. \A b \in Bytes : PageOf(b) \in Pages
  BY PagesAndBytes
<1>8. P = {PageOf(b) : b \in W}
  BY DEF PagesOf
<1> HIDE DEF P
<1>9. copy' \subseteq Bytes
  BY <1>1, <1>2 DEF BytesOf, TypeInv, CacheTypeOK
<1>10. TypeInv'
  BY <1>1, <1>2, <1>4, <1>5, <1>9 DEF TypeInv, CacheTypeOK
<1>11. OwnerInv'
  <2>1. BytesOf(m_mapped_ranges') \ m_gpu_modified_ranges' \subseteq backing'
    BY <1>2 DEF OwnerInv
  <2>2. Pages \ m_mapped_ranges' \subseteq m_cpu_dirty'
    BY <1>2 DEF OwnerInv
  <2> QED
    BY <1>6, <2>1, <2>2 DEF OwnerInv
<1>12. GpuInv'
  BY <1>2 DEF GpuInv
<1>13. DirtyPagesAgree'
  <2>1. m_gpu_dirty = PagesOf(m_gpu_modified_ranges)
    BY <1>2 DEF DirtyPagesAgree
  <2>2. PagesOf(m_gpu_modified_ranges') = PagesOf(m_gpu_modified_ranges) \cup P
    BY <1>2, <1>8 DEF PagesOf
  <2>3. m_gpu_dirty' \subseteq UNION m_buffers'
    BY <1>2, <1>4 DEF DirtyPagesAgree
  <2>4. m_cpu_dirty' \cap m_gpu_dirty' = {}
    BY <1>2 DEF DirtyPagesAgree
  <2> QED
    BY <1>2, <1>4, <1>6, <2>1, <2>2, <2>3, <2>4 DEF DirtyPagesAgree, Disjoint
<1>14. LatestValueSeen'
  <2>1. \A b \in W : PageOf(b) \in P
    BY <1>8
  <2>2. GuestSeesCurrent'
    BY <1>2, <2>1 DEF LatestValueSeen, GuestSeesCurrent, BytesOf
  <2>3. \A b \in Bytes : PageOf(b) \in m_mapped_ranges \ m_gpu_dirty => b \in backing
    BY DEF LatestValueSeen, GuestSeesCurrent, BytesOf
  <2>4. \A b \in Bytes : PageOf(b) \notin m_cpu_dirty => b \in copy /\ PageOf(b) \in UNION m_buffers
    BY <1>2, <1>7 DEF LatestValueSeen, GpuSeesCurrent, BytesOf
  <2>5. ASSUME NEW b \in Bytes, PageOf(b) \notin m_cpu_dirty'
        PROVE  b \in copy' /\ PageOf(b) \in UNION m_buffers'
    <3>1. CASE PageOf(b) \in P /\ PageOf(b) \in m_cpu_dirty
      <4>1. b \in backing
        BY <1>2, <2>3, <3>1 DEF DirtyPagesAgree
      <4> QED
        BY <1>2, <1>4, <3>1, <4>1 DEF BytesOf
    <3>2. CASE PageOf(b) \notin m_cpu_dirty
      BY <1>2, <1>4, <2>4, <3>2 DEF BytesOf
    <3> QED
      BY <1>2, <2>5, <3>1, <3>2
  <2>6. GpuSeesCurrent'
    BY <1>2, <2>5 DEF GpuSeesCurrent, BytesOf
  <2> QED
    BY <2>2, <2>6 DEF LatestValueSeen
<1> QED
  BY <1>10, <1>11, <1>12, <1>13, <1>14

(* What the invariant says of a byte.                                      *)
LEMMA OfBytes ==
    ASSUME CacheAssumption, IndInv
    PROVE  /\ \A b \in Bytes : PageOf(b) \in Pages
           /\ \A b \in Bytes : PageOf(b) \in m_mapped_ranges /\ b \notin m_gpu_modified_ranges
                                  => b \in backing
           /\ \A b \in Bytes : PageOf(b) \in m_mapped_ranges /\ PageOf(b) \notin m_gpu_dirty
                                  => b \in backing
           /\ \A b \in Bytes :
                  PageOf(b) \notin m_cpu_dirty /\ ~(gpu.at = "upload" /\ PageOf(b) \in gpu.pages)
                                  => b \in copy /\ PageOf(b) \in UNION m_buffers
           /\ \A b \in m_gpu_modified_ranges : b \in Bytes /\ PageOf(b) \in m_gpu_dirty
<1>1. \A b \in Bytes : PageOf(b) \in Pages
  BY PagesAndBytes
<1>2. \A b \in Bytes : PageOf(b) \in m_mapped_ranges /\ b \notin m_gpu_modified_ranges
                          => b \in backing
  BY DEF IndInv, OwnerInv, BytesOf
<1>3. \A b \in Bytes : PageOf(b) \in m_mapped_ranges /\ PageOf(b) \notin m_gpu_dirty
                          => b \in backing
  BY DEF IndInv, LatestValueSeen, GuestSeesCurrent, BytesOf
<1>4. \A b \in Bytes :
        PageOf(b) \notin m_cpu_dirty /\ ~(gpu.at = "upload" /\ PageOf(b) \in gpu.pages)
                          => b \in copy /\ PageOf(b) \in UNION m_buffers
  <2> DEFINE up == IF gpu.at = "upload" THEN gpu.pages ELSE {}
  <2>1. BytesOf(Pages \ (m_cpu_dirty \cup up)) \subseteq copy \cap BytesOf(UNION m_buffers)
    BY DEF IndInv, LatestValueSeen, GpuSeesCurrent
  <2>2. \A p : p \in up <=> gpu.at = "upload" /\ p \in gpu.pages
    OBVIOUS
  <2> HIDE DEF up
  <2> QED
    BY <1>1, <2>1, <2>2 DEF BytesOf
<1>5. \A b \in m_gpu_modified_ranges : b \in Bytes /\ PageOf(b) \in m_gpu_dirty
  <2>1. PagesOf(m_gpu_modified_ranges) \subseteq m_gpu_dirty
    BY DEF IndInv, DirtyPagesAgree
  <2> QED
    BY <2>1 DEF PagesOf, IndInv, TypeInv, CacheTypeOK
<1> QED
  BY <1>1, <1>2, <1>3, <1>4, <1>5

(* Said of every byte, it is what LatestValueSeen says.                    *)
LEMMA LatestOfBytes ==
    ASSUME \A b \in Bytes : PageOf(b) \in m_mapped_ranges' /\ PageOf(b) \notin m_gpu_dirty'
                               => b \in backing',
           \A b \in Bytes :
                  PageOf(b) \notin m_cpu_dirty' /\ ~(gpu'.at = "upload" /\ PageOf(b) \in gpu'.pages)
                               => b \in copy' /\ PageOf(b) \in UNION m_buffers'
    PROVE  LatestValueSeen'
<1>1. GuestSeesCurrent'
  BY DEF GuestSeesCurrent, BytesOf
<1>2. GpuSeesCurrent'
  <2> DEFINE up == IF gpu'.at = "upload" THEN gpu'.pages ELSE {}
  <2>1. \A p : p \in up <=> gpu'.at = "upload" /\ p \in gpu'.pages
    OBVIOUS
  <2> HIDE DEF up
  <2>2. BytesOf(Pages \ (m_cpu_dirty' \cup up)) \subseteq copy' \cap BytesOf(UNION m_buffers')
    BY <2>1 DEF BytesOf
  <2> QED
    BY <2>2 DEF GpuSeesCurrent, BytesOf, up
<1> QED
  BY <1>1, <1>2 DEF LatestValueSeen

LEMMA FillBufferInv ==
    ASSUME CacheAssumption, IndInv, NEW W \in Ranges(Bytes), FillBuffer(W)
    PROVE  IndInv'
<1>1. CASE PagesOf(W) \cap m_gpu_dirty # {}
  BY <1>1, ObtainWrittenInv DEF FillBuffer
<1>2. CASE PagesOf(W) \cap m_gpu_dirty = {}
  <2>1. W \subseteq Bytes /\ PagesOf(W) \subseteq Pages
    BY RangeOfBytes
  <2>2. /\ gpu.at = "idle" /\ PagesOf(W) \subseteq m_mapped_ranges
        /\ m_cpu_dirty' = m_cpu_dirty \cup PagesOf(W)
        /\ backing' = backing \cup W /\ copy' = copy \ W /\ Overwrites(W)
        /\ UNCHANGED <<m_gpu_dirty, m_gpu_modified_ranges, m_buffers, m_mapped_ranges, gpu, pc>>
    BY <1>2 DEF FillBuffer
  <2>3. /\ snapshots' \in Seq(Snapshot) /\ Len(snapshots') = Len(snapshots)
        /\ \A i \in 1..Len(snapshots) : snapshots'[i].bytes = snapshots[i].bytes
    BY <2>2, OverwritesKeeps DEF IndInv
  <2>4. /\ \A i \in 1..Len(snapshots') : snapshots'[i].bytes \subseteq m_gpu_modified_ranges'
        /\ \A i \in DOMAIN snapshots' : PagesOf(snapshots'[i].bytes) \subseteq m_gpu_dirty'
    BY <2>2, <2>3, SnapshotsCovered DEF IndInv
  <2>5. TypeInv'
    BY <2>1, <2>2, <2>3 DEF IndInv, TypeInv, CacheTypeOK
  <2>6. OwnerInv'
    BY <2>2, <2>4 DEF IndInv, OwnerInv
  <2>7. GpuInv'
    BY <2>2 DEF GpuInv
  <2>8. DirtyPagesAgree'
    BY <1>2, <2>2, <2>4 DEF IndInv, DirtyPagesAgree
  <2>9. LatestValueSeen'
    <3>1. \A b \in W : PageOf(b) \in PagesOf(W)
      BY DEF PagesOf
    <3> QED
      BY <2>2, <3>1, OfBytes, LatestOfBytes
  <2> QED
    BY <2>5, <2>6, <2>7, <2>8, <2>9 DEF IndInv
<1> QED
  BY <1>1, <1>2

LEMMA ObtainReadInv ==
    ASSUME CacheAssumption, IndInv, NEW P \in Ranges(Pages), ObtainRead(P)
    PROVE  IndInv'
<1>1. P \subseteq Pages /\ P # {}
  BY RangeOfPages
<1>2. /\ gpu.at = "idle" /\ P \subseteq m_mapped_ranges
      /\ m_cpu_dirty' = m_cpu_dirty \ P
      /\ gpu' = [at |-> "upload", pages |-> P \cap m_cpu_dirty, bytes |-> {}, marks |-> {},
                 for |-> "none"]
      /\ UNCHANGED <<m_gpu_dirty, m_gpu_modified_ranges, backing, copy, snapshots,
                     m_mapped_ranges, pc>>
  BY DEF ObtainRead, GpuIdle, bytes
<1>3. PICK B \in Ranges(Pages) : FindBuffer(P, B)
  BY DEF ObtainRead
<1>4. /\ m_buffers' \subseteq Ranges(Pages) /\ Disjoint' /\ P \subseteq UNION m_buffers'
      /\ UNION m_buffers \subseteq UNION m_buffers'
  <2>1. m_buffers \subseteq Ranges(Pages) /\ Disjoint
    BY DEF IndInv, TypeInv, CacheTypeOK, DirtyPagesAgree, Disjoint
  <2> QED
    BY <1>1, <1>3, <2>1, FindBufferKeeps
<1>5. TypeInv'
  BY <1>1, <1>2, <1>4 DEF IndInv, TypeInv, CacheTypeOK
<1>6. OwnerInv'
  BY <1>2 DEF IndInv, OwnerInv
<1>7. GpuInv'
  BY <1>2, <1>4 DEF IndInv, GpuInv, DirtyPagesAgree
<1>8. DirtyPagesAgree'
  BY <1>2, <1>4 DEF IndInv, DirtyPagesAgree, Disjoint
<1>9. LatestValueSeen'
  BY <1>2, <1>4, OfBytes, LatestOfBytes
<1> QED
  BY <1>5, <1>6, <1>7, <1>8, <1>9 DEF IndInv

LEMMA UploadCopiesInv ==
    ASSUME CacheAssumption, IndInv, UploadCopies
    PROVE  IndInv'
<1>1. /\ gpu.at = "upload"
      /\ copy' = (copy \ BytesOf(gpu.pages)) \cup (BytesOf(gpu.pages) \cap backing)
      /\ gpu' = GpuIdle
      /\ UNCHANGED <<m_cpu_dirty, m_gpu_dirty, m_gpu_modified_ranges, backing, snapshots,
                     m_buffers, m_mapped_ranges, pc>>
  BY DEF UploadCopies, tracker
<1>2. copy' \subseteq Bytes
  BY <1>1 DEF IndInv, TypeInv, CacheTypeOK, BytesOf
<1>3. TypeInv'
  BY <1>1, <1>2 DEF IndInv, TypeInv, CacheTypeOK, GpuIdle
<1>4. OwnerInv'
  BY <1>1 DEF IndInv, OwnerInv
<1>5. GpuInv'
  BY <1>1 DEF GpuInv, GpuIdle
<1>6. DirtyPagesAgree'
  BY <1>1 DEF IndInv, DirtyPagesAgree, GpuIdle
<1>7. LatestValueSeen'
  <2>1. /\ gpu.pages \subseteq m_mapped_ranges /\ gpu.pages \cap m_gpu_dirty = {}
        /\ gpu.pages \subseteq UNION m_buffers
    BY <1>1 DEF IndInv, GpuInv
  <2>2. \A b : b \in BytesOf(gpu.pages) <=> b \in Bytes /\ PageOf(b) \in gpu.pages
    BY DEF BytesOf
  <2>3. gpu'.at = "idle"
    BY <1>1 DEF GpuIdle
  <2> QED
    BY <1>1, <2>1, <2>2, <2>3, OfBytes, LatestOfBytes
<1> QED
  BY <1>3, <1>4, <1>5, <1>6, <1>7 DEF IndInv

-----------------------------------------------------------------------------
(* Write-backs are recorded and published.                                 *)

LEMMA RecordReleaseWritebackInv ==
    ASSUME CacheAssumption, IndInv, RecordReleaseWriteback
    PROVE  IndInv'
<1> DEFINE new == [bytes   |-> m_gpu_modified_ranges,
                   current |-> m_gpu_modified_ranges \cap copy]
<1>1. /\ gpu.at = "idle" /\ Len(snapshots) < MaxSnapshots
      /\ snapshots' = Append(snapshots, new)
      /\ UNCHANGED <<m_cpu_dirty, m_gpu_dirty, m_gpu_modified_ranges, backing, copy,
                     m_buffers, m_mapped_ranges, gpu, pc>>
  BY DEF RecordReleaseWriteback, tracker
<1>2. new \in Snapshot /\ new.bytes = m_gpu_modified_ranges
  BY DEF Snapshot, IndInv, TypeInv, CacheTypeOK
<1>3. snapshots \in Seq(Snapshot) /\ Len(snapshots) \in Nat /\ DOMAIN snapshots = 1..Len(snapshots)
  BY Snapshots DEF IndInv, TypeInv
<1> HIDE DEF new
<1>4. /\ snapshots' \in Seq(Snapshot) /\ Len(snapshots') = Len(snapshots) + 1
      /\ \A i \in 1..Len(snapshots) : snapshots'[i] = snapshots[i]
      /\ snapshots'[Len(snapshots) + 1] = new
  BY <1>1, <1>2, <1>3, AppendProperties
<1>5. DOMAIN snapshots' = 1..Len(snapshots')
  BY <1>4, LenProperties
<1>6. \A i \in 1..Len(snapshots') :
         i \in 1..Len(snapshots) \/ snapshots'[i].bytes = m_gpu_modified_ranges
  BY <1>2, <1>3, <1>4
<1>7. TypeInv'
  BY <1>1, <1>3, <1>4 DEF IndInv, TypeInv, CacheTypeOK, CacheAssumption
<1>8. OwnerInv'
  BY <1>1, <1>4, <1>6 DEF IndInv, OwnerInv
<1>9. GpuInv'
  BY <1>1 DEF GpuInv
<1>10. DirtyPagesAgree'
  <2>1. PagesOf(m_gpu_modified_ranges) = m_gpu_dirty
    BY <1>1 DEF IndInv, DirtyPagesAgree
  <2>2. \A i \in DOMAIN snapshots' : PagesOf(snapshots'[i].bytes) \subseteq m_gpu_dirty'
    BY <1>1, <1>3, <1>4, <1>5, <1>6, <2>1 DEF IndInv, DirtyPagesAgree
  <2> QED
    BY <1>1, <2>2 DEF IndInv, DirtyPagesAgree
<1>11. LatestValueSeen'
  BY <1>1, OfBytes, LatestOfBytes
<1> QED
  BY <1>7, <1>8, <1>9, <1>10, <1>11 DEF IndInv

LEMMA PublishInv ==
    ASSUME CacheAssumption, IndInv, Publish
    PROVE  IndInv'
<1>1. /\ snapshots # <<>> /\ snapshots' = Tail(snapshots)
      /\ backing' = (backing \ Head(snapshots).bytes) \cup Head(snapshots).current
      /\ UNCHANGED <<m_cpu_dirty, m_gpu_dirty, m_gpu_modified_ranges, copy, m_buffers,
                     m_mapped_ranges, gpu, pc>>
  BY DEF Publish, tracker
<1>2. snapshots \in Seq(Snapshot) /\ Len(snapshots) \in Nat /\ DOMAIN snapshots = 1..Len(snapshots)
  BY Snapshots DEF IndInv, TypeInv
<1>3. /\ snapshots' \in Seq(Snapshot) /\ Len(snapshots') = Len(snapshots) - 1
      /\ \A i \in 1..Len(snapshots') : snapshots'[i] = snapshots[i + 1]
      /\ Head(snapshots) = snapshots[1] /\ Len(snapshots) # 0
  BY <1>1, <1>2, HeadTailProperties, EmptySeq
<1>4. DOMAIN snapshots' = 1..Len(snapshots')
  BY <1>3, LenProperties
<1>5. \A i \in 1..Len(snapshots') : i + 1 \in 1..Len(snapshots)
  BY <1>2, <1>3
<1>6. /\ Head(snapshots).bytes \subseteq m_gpu_modified_ranges
      /\ Head(snapshots).current \subseteq Bytes
  <2>1. 1 \in 1..Len(snapshots)
    BY <1>2, <1>3
  <2> QED
    BY <1>3, <2>1, Snapshots DEF IndInv, OwnerInv, Snapshot
<1>7. TypeInv'
  BY <1>1, <1>2, <1>3, <1>6 DEF IndInv, TypeInv, CacheTypeOK, CacheAssumption
<1>8. OwnerInv'
  <2>1. BytesOf(m_mapped_ranges') \ m_gpu_modified_ranges' \subseteq backing'
    BY <1>1, <1>6 DEF IndInv, OwnerInv
  <2>2. \A i \in 1..Len(snapshots') : snapshots'[i].bytes \subseteq m_gpu_modified_ranges'
    BY <1>1, <1>3, <1>5 DEF IndInv, OwnerInv
  <2> QED
    BY <1>1, <2>1, <2>2 DEF IndInv, OwnerInv
<1>9. GpuInv'
  <2>1. gpu.at # "unmark"
    BY <1>1 DEF IndInv, GpuInv
  <2> QED
    BY <1>1, <2>1 DEF IndInv, GpuInv
<1>10. DirtyPagesAgree'
  <2>1. \A i \in DOMAIN snapshots' : PagesOf(snapshots'[i].bytes) \subseteq m_gpu_dirty'
    BY <1>1, <1>2, <1>3, <1>4, <1>5 DEF IndInv, DirtyPagesAgree
  <2> QED
    BY <1>1, <2>1 DEF IndInv, DirtyPagesAgree
<1>11. LatestValueSeen'
  BY <1>1, <1>6, OfBytes, LatestOfBytes
<1> QED
  BY <1>7, <1>8, <1>9, <1>10, <1>11 DEF IndInv

-----------------------------------------------------------------------------
(* Guest threads read and write, fault, and are let through.               *)

(* A step that only moves guest threads from one place to another.         *)
LEMMA GuestMoves ==
    ASSUME CacheAssumption, IndInv,
           pc' \in [Guests -> [at : {"idle", "fault", "wait"}, page : Pages, write : BOOLEAN]],
           UNCHANGED <<tracker, bytes, m_buffers, m_mapped_ranges, gpu>>
    PROVE  IndInv'
<1> USE DEF tracker, bytes
<1>1. TypeInv'
  BY DEF IndInv, TypeInv, CacheTypeOK
<1>2. OwnerInv' /\ GpuInv' /\ DirtyPagesAgree'
  BY DEF IndInv, OwnerInv, GpuInv, DirtyPagesAgree
<1>3. LatestValueSeen'
  BY OfBytes, LatestOfBytes
<1> QED
  BY <1>1, <1>2, <1>3 DEF IndInv

LEMMA ReadInv ==
    ASSUME CacheAssumption, IndInv, NEW g \in Guests, NEW p \in Pages, Read(g, p)
    PROVE  IndInv'
  BY GuestMoves DEF Read, IndInv, TypeInv

LEMMA WriteInv ==
    ASSUME CacheAssumption, IndInv, NEW g \in Guests, NEW b \in Bytes, Write(g, b)
    PROVE  IndInv'
<1>1. PageOf(b) \in Pages
  BY PagesAndBytes
<1>2. CASE PageOf(b) \notin m_cpu_dirty
  <2>1. /\ pc' = [pc EXCEPT ![g] = [at |-> "fault", page |-> PageOf(b), write |-> TRUE]]
        /\ UNCHANGED <<tracker, bytes, m_buffers, m_mapped_ranges, gpu>>
    BY <1>2 DEF Write, bytes
  <2>2. pc' \in [Guests -> [at : {"idle", "fault", "wait"}, page : Pages, write : BOOLEAN]]
    BY <1>1, <2>1 DEF IndInv, TypeInv
  <2> QED
    BY <2>1, <2>2, GuestMoves
<1>3. CASE PageOf(b) \in m_cpu_dirty
  <2>1. /\ PageOf(b) \in m_mapped_ranges
        /\ backing' = backing \cup {b} /\ copy' = copy \ {b} /\ Overwrites({b})
        /\ UNCHANGED <<m_cpu_dirty, m_gpu_dirty, m_gpu_modified_ranges, m_buffers,
                       m_mapped_ranges, gpu, pc>>
    BY <1>3 DEF Write, tracker
  <2>2. /\ snapshots' \in Seq(Snapshot) /\ Len(snapshots') = Len(snapshots)
        /\ \A i \in 1..Len(snapshots) : snapshots'[i].bytes = snapshots[i].bytes
    BY <2>1, OverwritesKeeps DEF IndInv
  <2>3. /\ \A i \in 1..Len(snapshots') : snapshots'[i].bytes \subseteq m_gpu_modified_ranges'
        /\ \A i \in DOMAIN snapshots' : PagesOf(snapshots'[i].bytes) \subseteq m_gpu_dirty'
    BY <2>1, <2>2, SnapshotsCovered DEF IndInv
  <2>4. TypeInv'
    BY <2>1, <2>2 DEF IndInv, TypeInv, CacheTypeOK
  <2>5. OwnerInv'
    BY <2>1, <2>3 DEF IndInv, OwnerInv
  <2>6. GpuInv'
    <3>1. snapshots = <<>> => snapshots' = <<>>
      BY <2>2, EmptySeq DEF IndInv, TypeInv
    <3> QED
      BY <2>1, <3>1 DEF IndInv, GpuInv
  <2>7. DirtyPagesAgree'
    BY <2>1, <2>3 DEF IndInv, DirtyPagesAgree
  <2>8. LatestValueSeen'
    BY <1>3, <2>1, OfBytes, LatestOfBytes
  <2> QED
    BY <2>4, <2>5, <2>6, <2>7, <2>8 DEF IndInv
<1> QED
  BY <1>2, <1>3

LEMMA InvalidateRegionInv ==
    ASSUME CacheAssumption, IndInv, NEW g \in Guests, InvalidateRegion(g)
    PROVE  IndInv'
<1>1. pc[g] \in [at : {"idle", "fault", "wait"}, page : Pages, write : BOOLEAN]
      /\ 1 \in Pages
  BY PagesAndBytes DEF IndInv, TypeInv
<1>2. CASE ~MayInvalidate(pc[g].page)
  <2>1. /\ pc' = [pc EXCEPT ![g].at = "wait"]
        /\ UNCHANGED <<tracker, bytes, m_buffers, m_mapped_ranges, gpu>>
    BY <1>2 DEF InvalidateRegion, tracker
  <2>2. pc' \in [Guests -> [at : {"idle", "fault", "wait"}, page : Pages, write : BOOLEAN]]
    BY <1>1, <2>1 DEF IndInv, TypeInv
  <2> QED
    BY <2>1, <2>2, GuestMoves
<1>3. CASE MayInvalidate(pc[g].page)
  <2>1. /\ m_cpu_dirty' = m_cpu_dirty \cup {pc[g].page} /\ pc[g].page \notin m_gpu_dirty
        /\ pc' = [pc EXCEPT ![g] = Resting]
        /\ UNCHANGED <<m_gpu_dirty, m_gpu_modified_ranges, backing, copy, snapshots,
                       m_buffers, m_mapped_ranges, gpu>>
    BY <1>3 DEF InvalidateRegion, MayInvalidate, bytes
  <2>2. TypeInv'
    BY <1>1, <2>1 DEF IndInv, TypeInv, CacheTypeOK, Resting
  <2>3. OwnerInv'
    BY <2>1 DEF IndInv, OwnerInv
  <2>4. GpuInv'
    BY <2>1 DEF IndInv, GpuInv
  <2>5. DirtyPagesAgree'
    BY <2>1 DEF IndInv, DirtyPagesAgree
  <2>6. LatestValueSeen'
    BY <2>1, OfBytes, LatestOfBytes
  <2> QED
    BY <2>2, <2>3, <2>4, <2>5, <2>6 DEF IndInv
<1> QED
  BY <1>2, <1>3

-----------------------------------------------------------------------------
(* The GPU thread fetches what it wrote.                                   *)

(* The window begins at or before what is asked for.                       *)
LEMMA Aligned ==
    ASSUME NEW a \in Nat, NEW w \in Nat \ {0}
    PROVE  (a \div w) * w \in Nat /\ (a \div w) * w <= a
<1> DEFINE q == a \div w
<1>1. q \in Nat /\ q * w <= a
  OBVIOUS
<1>2. q * w \in Nat
  BY <1>1
<1> QED
  BY <1>1, <1>2

LEMMA Larger ==
    ASSUME NEW a \in Nat \ {0}, NEW b \in Nat \ {0}
    PROVE  /\ Max({a, b}) \in {a, b} /\ a <= Max({a, b}) /\ b <= Max({a, b})
           /\ Min({a, b}) \in {a, b} /\ Min({a, b}) <= a /\ Min({a, b}) <= b
<1>1. a + b \in Nat /\ {a, b} \in SUBSET (1..(a + b)) /\ {a, b} # {}
  OBVIOUS
<1> DEFINE S == {a, b}
<1>2. a \in S /\ b \in S
  OBVIOUS
<1> HIDE DEF S
<1>3. /\ Min(S) \in S /\ \A y \in S : Min(S) <= y
      /\ Max(S) \in S /\ \A y \in S : y <= Max(S)
  BY <1>1, MinMax DEF S
<1>4. /\ Max(S) \in S /\ a <= Max(S) /\ b <= Max(S)
      /\ Min(S) \in S /\ Min(S) <= a /\ Min(S) <= b
  BY <1>2, <1>3
<1> QED
  BY <1>4 DEF S

(* It holds what is asked for, and nothing outside the buffer.             *)
LEMMA WindowHolds ==
    ASSUME CacheAssumption, NEW P \in Ranges(Pages), NEW B \in Ranges(Pages), P \subseteq B
    PROVE  P \subseteq Window(P, B) /\ Window(P, B) \subseteq Pages
<1>1. PageOf(LastByte) \in Nat /\ WindowSize \in Nat \ {0}
  BY PagesAndBytes DEF CacheAssumption
<1>2. P \in SUBSET Pages /\ P # {} /\ B \in SUBSET Pages /\ B # {}
  BY RangeOfPages
<1>3. /\ Min(P) \in P /\ \A y \in P : Min(P) <= y
      /\ Max(P) \in P /\ \A y \in P : y <= Max(P)
  BY <1>1, <1>2, MinMax DEF Pages
<1>4. /\ Min(B) \in B /\ \A y \in B : Min(B) <= y
      /\ Max(B) \in B /\ \A y \in B : y <= Max(B)
  BY <1>1, <1>2, MinMax DEF Pages
<1> DEFINE al == ((Min(P) - 1) \div WindowSize) * WindowSize
<1> DEFINE wb == WindowBegin(P, B)
<1> DEFINE far == Max({wb + WindowSize - 1, Max(P)})
<1>5. WindowBegin(P, B) = Max({al + 1, Min(B)}) /\ Window(P, B) = wb..Min({far, Max(B)})
  BY DEF WindowBegin, Window
<1> DEFINE p1 == Min(P)
<1> DEFINE p2 == Max(P)
<1> DEFINE b1 == Min(B)
<1> DEFINE b2 == Max(B)
<1> DEFINE n == PageOf(LastByte)
<1>6. p1 \in 1..n /\ p2 \in 1..n /\ b1 \in 1..n /\ b2 \in 1..n /\ n \in Nat
  BY <1>1, <1>2, <1>3, <1>4 DEF Pages
<1>7. P \subseteq p1..p2 /\ b1 <= p1 /\ p2 <= b2
  <2>1. p1 \in B /\ p2 \in B
    BY <1>3
  <2>2. \A y \in P : y \in 1..n /\ p1 <= y /\ y <= p2
    BY <1>2, <1>3 DEF Pages
  <2>3. b1 <= p1 /\ p2 <= b2
    BY <1>4, <2>1
  <2> HIDE DEF p1, p2, b1, b2, n
  <2>4. P \subseteq p1..p2
    BY <1>6, <2>2
  <2> QED
    BY <2>3, <2>4
<1>8. wb = Max({al + 1, b1}) /\ far = Max({wb + WindowSize - 1, p2})
      /\ Window(P, B) = wb..Min({far, b2})
  BY <1>5
<1>9. al \in Nat /\ al <= p1 - 1
  <2>1. al = ((p1 - 1) \div WindowSize) * WindowSize
    OBVIOUS
  <2> HIDE DEF al, p1
  <2>2. p1 - 1 \in Nat
    BY <1>6
  <2> QED
    BY <1>1, <2>1, <2>2, Aligned
<1>10. Pages = 1..n
  BY DEF Pages
<1> HIDE DEF al, wb, far, p1, p2, b1, b2, n
<1>11. wb \in Nat \ {0} /\ wb <= p1 /\ b1 <= wb
  <2>1. al + 1 \in Nat \ {0} /\ b1 \in Nat \ {0} /\ al + 1 <= p1
    BY <1>6, <1>9
  <2>2. wb \in {al + 1, b1} /\ b1 <= wb
    BY <1>8, <2>1, Larger
  <2> QED
    BY <1>7, <2>1, <2>2
<1>12. far \in Nat \ {0} /\ p2 <= far
  <2>1. wb + WindowSize - 1 \in Nat \ {0} /\ p2 \in Nat \ {0}
    BY <1>1, <1>6, <1>11
  <2>2. far \in {wb + WindowSize - 1, p2} /\ p2 <= far
    BY <1>8, <2>1, Larger
  <2> QED
    BY <2>1, <2>2
<1> DEFINE we == Min({far, b2})
<1>13. we \in {far, b2} /\ we <= b2
  <2>1. b2 \in Nat \ {0}
    BY <1>6
  <2> QED
    BY <1>12, <2>1, Larger
<1> HIDE DEF we
<1>14. p2 <= we /\ we \in 1..n
  BY <1>6, <1>7, <1>12, <1>13
<1>15. P \subseteq wb..we
  BY <1>6, <1>7, <1>11, <1>14
<1>16. wb..we \subseteq Pages
  BY <1>6, <1>10, <1>11, <1>14
<1> QED
  BY <1>8, <1>15, <1>16 DEF we

(* A fetch begins: the pages that become the guest's are in the window as  *)
(* far as the GPU owns them.                                               *)
LEMMA FetchInv ==
    ASSUME CacheAssumption, IndInv, gpu.at = "idle",
           m_buffers' \subseteq Ranges(Pages), Disjoint', UNION m_buffers \subseteq UNION m_buffers',
           NEW window \in SUBSET Pages, NEW marks \in SUBSET Pages,
           NEW who \in Guests \cup {"gc", "unmap"},
           NEW D, D = m_gpu_modified_ranges \cap BytesOf(window \cap m_gpu_dirty),
           Fetch(window, D, marks, who),
           marks \cap m_gpu_dirty \subseteq window, who = "gc" => marks = window,
           pc' \in [Guests -> [at : {"idle", "fault", "wait"}, page : Pages, write : BOOLEAN]],
           UNCHANGED <<tracker, bytes, m_mapped_ranges>>
    PROVE  IndInv'
<1>1. /\ gpu'.at = IF D = {} THEN "mark" ELSE "download"
      /\ gpu'.pages = window /\ gpu'.bytes = D /\ gpu'.marks = marks /\ gpu'.for = who
      /\ gpu' = [at |-> IF D = {} THEN "mark" ELSE "download",
                 pages |-> window, bytes |-> D, marks |-> marks, for |-> who]
  BY DEF Fetch
<1>2. UNCHANGED <<m_cpu_dirty, m_gpu_dirty, m_gpu_modified_ranges, backing, copy, snapshots,
                  m_mapped_ranges>>
  BY DEF tracker, bytes
<1>3. m_gpu_dirty = PagesOf(m_gpu_modified_ranges)
  BY DEF IndInv, DirtyPagesAgree
<1>4. D = m_gpu_modified_ranges \cap BytesOf(window)
  BY OfBytes DEF BytesOf
<1>5. ASSUME D = {}, NEW p \in window \cap m_gpu_dirty PROVE FALSE
  <2>1. PICK b \in m_gpu_modified_ranges : p = PageOf(b)
    BY <1>3, <1>5 DEF PagesOf
  <2> QED
    BY <1>4, <1>5, <2>1, OfBytes DEF BytesOf
<1>6. TypeInv'
  <2>1. D \subseteq Bytes
    BY <1>4, OfBytes
  <2>2. gpu' \in [at : {"idle", "upload", "download", "unmark", "mark"}, pages : SUBSET Pages,
                  bytes : SUBSET Bytes, marks : SUBSET Pages,
                  for : Guests \cup {"none", "gc", "unmap"}]
    BY <1>1, <2>1
  <2>3. gpu'.at \in {"idle", "upload", "download", "unmark", "mark"}
    BY <1>1
  <2> QED
    BY <1>2, <2>2, <2>3 DEF IndInv, TypeInv, CacheTypeOK
<1>7. OwnerInv'
  BY <1>2 DEF IndInv, OwnerInv
<1>8. GpuInv'
  BY <1>1, <1>2, <1>4, <1>5 DEF GpuInv
<1>9. DirtyPagesAgree'
  BY <1>1, <1>2 DEF IndInv, DirtyPagesAgree, Disjoint
<1>10. LatestValueSeen'
  BY <1>1, <1>2, OfBytes, LatestOfBytes
<1> QED
  BY <1>6, <1>7, <1>8, <1>9, <1>10 DEF IndInv

LEMMA ReadMemoryOnGpuInv ==
    ASSUME CacheAssumption, IndInv, gpu.at = "idle",
           NEW P \in Ranges(Pages), NEW write \in BOOLEAN, NEW who \in Guests \cup {"unmap"},
           ReadMemoryOnGpu(P, write, who),
           pc' \in [Guests -> [at : {"idle", "fault", "wait"}, page : Pages, write : BOOLEAN]],
           UNCHANGED <<tracker, bytes, m_mapped_ranges>>
    PROVE  IndInv'
<1>1. P \subseteq Pages /\ P # {}
  BY RangeOfPages
<1>2. PICK B \in Ranges(Pages) :
         /\ FindBuffer(P, B)
         /\ Fetch(Window(P, B), Copies(Window(P, B), P), IF write THEN P ELSE {}, who)
  BY DEF ReadMemoryOnGpu
<1>3. /\ m_buffers' \subseteq Ranges(Pages) /\ Disjoint' /\ P \subseteq B
      /\ UNION m_buffers \subseteq UNION m_buffers'
  <2>1. m_buffers \subseteq Ranges(Pages) /\ Disjoint
    BY DEF IndInv, TypeInv, CacheTypeOK, DirtyPagesAgree, Disjoint
  <2> QED
    BY <1>1, <1>2, <2>1, FindBufferKeeps
<1> DEFINE window == Window(P, B)
<1> DEFINE D == Copies(window, P)
<1> DEFINE marks == IF write THEN P ELSE {}
<1>4. P \subseteq window /\ window \subseteq Pages
  BY <1>3, WindowHolds
<1>5. D = m_gpu_modified_ranges \cap BytesOf(window \cap m_gpu_dirty)
  BY DEF Copies
<1>6. marks \in SUBSET Pages /\ marks \cap m_gpu_dirty \subseteq window
  BY <1>1, <1>4
<1>7. who # "gc" /\ who \in Guests \cup {"gc", "unmap"}
  BY DEF CacheAssumption
<1>8. Fetch(window, D, marks, who)
  BY <1>2
<1> HIDE DEF window, D, marks
<1> QED
  BY <1>3, <1>4, <1>5, <1>6, <1>7, <1>8, FetchInv

LEMMA ServeFaultInv ==
    ASSUME CacheAssumption, IndInv, NEW g \in Guests, ServeFault(g)
    PROVE  IndInv'
<1>1. /\ pc \in [Guests -> [at : {"idle", "fault", "wait"}, page : Pages, write : BOOLEAN]]
      /\ 1 \in Pages /\ pc[g].page \in Pages /\ pc[g].write \in BOOLEAN
  BY PagesAndBytes DEF IndInv, TypeInv
<1>2. CASE pc[g].write /\ ~Registered({pc[g].page})
  <2>1. pc' = [pc EXCEPT ![g] = Resting]
        /\ UNCHANGED <<tracker, bytes, m_buffers, m_mapped_ranges, gpu>>
    BY <1>2 DEF ServeFault
  <2>2. pc' \in [Guests -> [at : {"idle", "fault", "wait"}, page : Pages, write : BOOLEAN]]
    BY <1>1, <2>1 DEF Resting
  <2> QED
    BY <2>1, <2>2, GuestMoves
<1>3. CASE ~(pc[g].write /\ ~Registered({pc[g].page}))
  <2>1. /\ gpu.at = "idle" /\ ReadMemoryOnGpu({pc[g].page}, pc[g].write, g)
        /\ UNCHANGED <<tracker, bytes, m_mapped_ranges, pc>>
    BY <1>3 DEF ServeFault
  <2>2. \A p \in Pages : {p} \in Ranges(Pages)
    <3>1. \A p \in Nat : {p} = p..p
      OBVIOUS
    <3>2. Pages \subseteq Nat
      BY PagesAndBytes DEF Pages
    <3> QED
      BY <3>1, <3>2 DEF Ranges
  <2> QED
    BY <1>1, <2>1, <2>2, ReadMemoryOnGpuInv
<1> QED
  BY <1>2, <1>3

LEMMA DownloadBufferMemoryInv ==
    ASSUME CacheAssumption, IndInv, DownloadBufferMemory
    PROVE  IndInv'
<1>1. /\ gpu.at = "download" /\ snapshots = <<>>
      /\ backing' = (backing \ gpu.bytes) \cup (gpu.bytes \cap copy)
      /\ m_gpu_modified_ranges' = m_gpu_modified_ranges \ gpu.bytes
      /\ gpu' = [gpu EXCEPT !.at = "unmark"]
      /\ UNCHANGED <<m_cpu_dirty, m_gpu_dirty, copy, snapshots, m_buffers, m_mapped_ranges, pc>>
  BY DEF DownloadBufferMemory, Drained, tracker
<1>2. gpu.bytes = m_gpu_modified_ranges \cap BytesOf(gpu.pages)
      /\ gpu.marks \cap m_gpu_dirty \subseteq gpu.pages
  BY <1>1 DEF IndInv, GpuInv
<1>3. gpu' \in [at : {"idle", "upload", "download", "unmark", "mark"}, pages : SUBSET Pages,
                bytes : SUBSET Bytes, marks : SUBSET Pages,
                for : Guests \cup {"none", "gc", "unmap"}]
      /\ gpu'.at = "unmark" /\ gpu'.pages = gpu.pages /\ gpu'.marks = gpu.marks
      /\ gpu'.for = gpu.for
  BY <1>1 DEF IndInv, TypeInv
<1>4. \A b \in gpu.bytes : b \in Bytes /\ b \in copy
  <2>1. \A b \in gpu.bytes : b \in Bytes /\ PageOf(b) \in m_gpu_dirty
    BY <1>2, OfBytes
  <2>2. \A b \in gpu.bytes : PageOf(b) \notin m_cpu_dirty
    BY <2>1 DEF IndInv, DirtyPagesAgree
  <2> QED
    BY <1>1, <2>1, <2>2, OfBytes
<1>5. snapshots' = <<>> /\ Len(snapshots') = 0 /\ DOMAIN snapshots' = {}
  BY <1>1
<1>6. TypeInv'
  BY <1>1, <1>3, <1>4 DEF IndInv, TypeInv, CacheTypeOK
<1>7. OwnerInv'
  <2>1. BytesOf(m_mapped_ranges') \ m_gpu_modified_ranges' \subseteq backing'
    BY <1>1, <1>4 DEF IndInv, OwnerInv
  <2> QED
    BY <1>1, <1>5, <2>1 DEF IndInv, OwnerInv
<1>8. GpuInv'
  BY <1>1, <1>2, <1>3 DEF IndInv, GpuInv
<1>9. DirtyPagesAgree'
  <2>1. m_gpu_dirty = PagesOf(m_gpu_modified_ranges)
    BY <1>1 DEF IndInv, DirtyPagesAgree
  <2>2. PagesOf(m_gpu_modified_ranges') = m_gpu_dirty \ gpu.pages
    BY <1>1, <1>2, <2>1, OfBytes DEF PagesOf, BytesOf
  <2> QED
    BY <1>1, <1>3, <1>5, <2>2 DEF IndInv, DirtyPagesAgree
<1>10. LatestValueSeen'
  BY <1>1, <1>3, <1>4, OfBytes, LatestOfBytes
<1> QED
  BY <1>6, <1>7, <1>8, <1>9, <1>10 DEF IndInv

LEMMA UnmarkRegionAsGpuModifiedInv ==
    ASSUME CacheAssumption, IndInv, UnmarkRegionAsGpuModified
    PROVE  IndInv'
<1>1. /\ gpu.at = "unmark" /\ m_gpu_dirty' = m_gpu_dirty \ gpu.pages
      /\ gpu' = [gpu EXCEPT !.at = "mark"]
      /\ UNCHANGED <<m_cpu_dirty, m_gpu_modified_ranges, backing, copy, snapshots, m_buffers,
                     m_mapped_ranges, pc>>
  BY DEF UnmarkRegionAsGpuModified, bytes
<1>2. gpu' \in [at : {"idle", "upload", "download", "unmark", "mark"}, pages : SUBSET Pages,
                bytes : SUBSET Bytes, marks : SUBSET Pages,
                for : Guests \cup {"none", "gc", "unmap"}]
      /\ gpu'.at = "mark" /\ gpu'.pages = gpu.pages /\ gpu'.marks = gpu.marks
      /\ gpu'.for = gpu.for
  BY <1>1 DEF IndInv, TypeInv
<1>3. snapshots' = <<>> /\ Len(snapshots') = 0 /\ DOMAIN snapshots' = {}
  BY <1>1 DEF IndInv, GpuInv
<1>4. m_gpu_dirty' = PagesOf(m_gpu_modified_ranges)
  BY <1>1 DEF IndInv, DirtyPagesAgree
<1>5. TypeInv'
  BY <1>1, <1>2 DEF IndInv, TypeInv, CacheTypeOK
<1>6. OwnerInv'
  BY <1>1, <1>3 DEF IndInv, OwnerInv
<1>7. GpuInv'
  BY <1>1, <1>2 DEF IndInv, GpuInv
<1>8. DirtyPagesAgree'
  BY <1>1, <1>2, <1>3, <1>4 DEF IndInv, DirtyPagesAgree
<1>9. LatestValueSeen'
  <2>1. \A b \in m_gpu_modified_ranges : PageOf(b) \in m_gpu_dirty'
    BY <1>4 DEF PagesOf
  <2> QED
    BY <1>1, <1>2, <2>1, OfBytes, LatestOfBytes
<1> QED
  BY <1>5, <1>6, <1>7, <1>8, <1>9 DEF IndInv

LEMMA MarkInv ==
    ASSUME CacheAssumption, IndInv, Mark
    PROVE  IndInv'
<1>1. /\ gpu.at = "mark" /\ m_cpu_dirty' = m_cpu_dirty \cup gpu.marks /\ gpu' = GpuIdle
      /\ pc' = [g \in Guests |-> IF g = gpu.for THEN Resting ELSE pc[g]]
      /\ m_buffers' = IF gpu.for = "gc" THEN m_buffers \ {gpu.pages} ELSE m_buffers
      /\ copy' = IF gpu.for = "gc" THEN copy \ BytesOf(gpu.pages) ELSE copy
      /\ m_mapped_ranges' = IF gpu.for = "unmap" THEN m_mapped_ranges \ gpu.marks
                                                 ELSE m_mapped_ranges
      /\ UNCHANGED <<m_gpu_dirty, m_gpu_modified_ranges, backing, snapshots>>
  BY DEF Mark
<1>2. gpu.marks \cap m_gpu_dirty = {} /\ (gpu.for = "gc" => gpu.marks = gpu.pages)
      /\ gpu.marks \subseteq Pages
  BY <1>1 DEF IndInv, GpuInv, TypeInv
<1>3. /\ pc' \in [Guests -> [at : {"idle", "fault", "wait"}, page : Pages, write : BOOLEAN]]
      /\ gpu' \in [at : {"idle", "upload", "download", "unmark", "mark"}, pages : SUBSET Pages,
                   bytes : SUBSET Bytes, marks : SUBSET Pages,
                   for : Guests \cup {"none", "gc", "unmap"}]
      /\ gpu'.at = "idle"
  BY <1>1, PagesAndBytes DEF IndInv, TypeInv, Resting, GpuIdle
<1>4. /\ m_buffers' \subseteq m_buffers /\ copy' \subseteq copy
      /\ m_mapped_ranges' \subseteq m_mapped_ranges
      /\ m_mapped_ranges \ m_mapped_ranges' \subseteq gpu.marks
  BY <1>1
<1>5. \A p \in UNION m_buffers : p \in UNION m_buffers' \/ p \in gpu.marks
  BY <1>1, <1>2
<1>6. \A b \in copy : b \in copy' \/ PageOf(b) \in gpu.marks
  BY <1>1, <1>2 DEF BytesOf
<1>7. TypeInv'
  BY <1>1, <1>2, <1>3, <1>4 DEF IndInv, TypeInv, CacheTypeOK
<1>8. OwnerInv'
  <2>1. BytesOf(m_mapped_ranges') \subseteq BytesOf(m_mapped_ranges)
    BY <1>4 DEF BytesOf
  <2>2. Pages \ m_mapped_ranges' \subseteq m_cpu_dirty'
    BY <1>1, <1>4 DEF IndInv, OwnerInv
  <2> QED
    BY <1>1, <2>1, <2>2 DEF IndInv, OwnerInv
<1>9. GpuInv'
  BY <1>3 DEF GpuInv
<1>10. DirtyPagesAgree'
  <2>1. m_gpu_dirty' = PagesOf(m_gpu_modified_ranges')
    BY <1>1 DEF IndInv, DirtyPagesAgree
  <2>2. m_gpu_dirty' \subseteq UNION m_buffers'
    BY <1>1, <1>2, <1>5 DEF IndInv, DirtyPagesAgree
  <2>3. m_cpu_dirty' \cap m_gpu_dirty' = {}
    BY <1>1, <1>2 DEF IndInv, DirtyPagesAgree
  <2> QED
    BY <1>1, <1>3, <1>4, <2>1, <2>2, <2>3 DEF IndInv, DirtyPagesAgree
<1>11. LatestValueSeen'
  BY <1>1, <1>3, <1>4, <1>5, <1>6, OfBytes, LatestOfBytes
<1> QED
  BY <1>7, <1>8, <1>9, <1>10, <1>11 DEF IndInv

LEMMA RunGarbageCollectorInv ==
    ASSUME CacheAssumption, IndInv, NEW B \in m_buffers, RunGarbageCollector(B)
    PROVE  IndInv'
<1>1. /\ gpu.at = "idle" /\ Fetch(B, Copies(B, B), B, "gc")
      /\ UNCHANGED <<tracker, bytes, m_buffers, m_mapped_ranges, pc>>
  BY DEF RunGarbageCollector, CollectedPages
<1>2. B \in SUBSET Pages
  BY RangeOfPages DEF IndInv, TypeInv, CacheTypeOK
<1>3. m_buffers' \subseteq Ranges(Pages) /\ Disjoint' /\ UNION m_buffers \subseteq UNION m_buffers'
  BY <1>1 DEF IndInv, TypeInv, CacheTypeOK, DirtyPagesAgree, Disjoint
<1>4. pc' \in [Guests -> [at : {"idle", "fault", "wait"}, page : Pages, write : BOOLEAN]]
  BY <1>1 DEF IndInv, TypeInv
<1>5. Copies(B, B) = m_gpu_modified_ranges \cap BytesOf(B \cap m_gpu_dirty)
  BY DEF Copies
<1> QED
  BY <1>1, <1>2, <1>3, <1>4, <1>5, FetchInv

-----------------------------------------------------------------------------
(* Pages are mapped and unmapped.                                          *)

LEMMA UnmapMemoryInv ==
    ASSUME CacheAssumption, IndInv, NEW P \in Ranges(Pages), UnmapMemory(P)
    PROVE  IndInv'
<1>1. P \subseteq Pages
  BY RangeOfPages
<1>2. /\ gpu.at = "idle" /\ UNCHANGED <<tracker, bytes, m_mapped_ranges, pc>>
  BY DEF UnmapMemory
<1>3. pc' \in [Guests -> [at : {"idle", "fault", "wait"}, page : Pages, write : BOOLEAN]]
  BY <1>2 DEF IndInv, TypeInv
<1>4. CASE P \cap m_gpu_dirty = {}
  <2>1. Fetch({}, {}, P, "unmap") /\ UNCHANGED m_buffers
    BY <1>4 DEF UnmapMemory
  <2>2. m_buffers' \subseteq Ranges(Pages) /\ Disjoint'
        /\ UNION m_buffers \subseteq UNION m_buffers'
    BY <2>1 DEF IndInv, TypeInv, CacheTypeOK, DirtyPagesAgree, Disjoint
  <2>3. {} = m_gpu_modified_ranges \cap BytesOf({} \cap m_gpu_dirty)
    BY DEF BytesOf
  <2> QED
    BY <1>1, <1>2, <1>3, <1>4, <2>1, <2>2, <2>3, FetchInv
<1>5. CASE P \cap m_gpu_dirty # {}
  <2>1. ReadMemoryOnGpu(P, TRUE, "unmap")
    BY <1>5 DEF UnmapMemory
  <2> QED
    BY <1>2, <1>3, <2>1, ReadMemoryOnGpuInv
<1> QED
  BY <1>4, <1>5

LEMMA MapMemoryInv ==
    ASSUME CacheAssumption, IndInv, NEW P \in Ranges(Pages), MapMemory(P)
    PROVE  IndInv'
<1>1. P \subseteq Pages
  BY RangeOfPages
<1>2. /\ P \cap m_mapped_ranges = {} /\ m_mapped_ranges' = m_mapped_ranges \cup P
      /\ backing' = backing \cup BytesOf(P) /\ copy' = copy \ BytesOf(P)
      /\ UNCHANGED <<m_cpu_dirty, m_gpu_dirty, m_gpu_modified_ranges, snapshots, m_buffers,
                     gpu, pc>>
  BY DEF MapMemory, tracker
<1>3. P \subseteq m_cpu_dirty
  BY <1>1, <1>2 DEF IndInv, OwnerInv
<1>4. TypeInv'
  <2>1. BytesOf(P) \subseteq Bytes
    BY DEF BytesOf
  <2> QED
    BY <1>1, <1>2, <2>1 DEF IndInv, TypeInv, CacheTypeOK
<1>5. OwnerInv'
  <2>1. BytesOf(m_mapped_ranges') \subseteq BytesOf(m_mapped_ranges) \cup BytesOf(P)
    BY <1>2 DEF BytesOf
  <2> QED
    BY <1>2, <2>1 DEF IndInv, OwnerInv
<1>6. GpuInv'
  BY <1>2 DEF IndInv, GpuInv
<1>7. DirtyPagesAgree'
  BY <1>2 DEF IndInv, DirtyPagesAgree
<1>8. LatestValueSeen'
  <2>1. \A b : b \in BytesOf(P) <=> b \in Bytes /\ PageOf(b) \in P
    BY DEF BytesOf
  <2> QED
    BY <1>2, <1>3, <2>1, OfBytes, LatestOfBytes
<1> QED
  BY <1>4, <1>5, <1>6, <1>7, <1>8 DEF IndInv

-----------------------------------------------------------------------------
LEMMA StepInv == CacheAssumption /\ IndInv /\ [CacheNext]_cacheVars => IndInv'
<1> SUFFICES ASSUME CacheAssumption, IndInv, [CacheNext]_cacheVars PROVE IndInv'
  OBVIOUS
<1>1. ASSUME NEW W \in Ranges(Bytes), ObtainWritten(W) \/ FillBuffer(W) PROVE IndInv'
  BY <1>1, ObtainWrittenInv, FillBufferInv
<1>2. ASSUME NEW P \in Ranges(Pages), ObtainRead(P) \/ UnmapMemory(P) \/ MapMemory(P)
      PROVE  IndInv'
  BY <1>2, ObtainReadInv, UnmapMemoryInv, MapMemoryInv
<1>3. CASE UploadCopies \/ RecordReleaseWriteback \/ Publish
  BY <1>3, UploadCopiesInv, RecordReleaseWritebackInv, PublishInv
<1>4. ASSUME NEW g \in Guests,
             \/ \E p \in Pages : Read(g, p)
             \/ \E b \in Bytes : Write(g, b)
             \/ InvalidateRegion(g) \/ ServeFault(g)
      PROVE  IndInv'
  BY <1>4, ReadInv, WriteInv, InvalidateRegionInv, ServeFaultInv
<1>5. CASE DownloadBufferMemory \/ UnmarkRegionAsGpuModified \/ Mark
  BY <1>5, DownloadBufferMemoryInv, UnmarkRegionAsGpuModifiedInv, MarkInv
<1>6. ASSUME NEW B \in m_buffers, RunGarbageCollector(B) PROVE IndInv'
  BY <1>6, RunGarbageCollectorInv
<1>7. CASE UNCHANGED cacheVars
  BY <1>7, GuestMoves DEF cacheVars, IndInv, TypeInv
<1> QED
  BY <1>1, <1>2, <1>3, <1>4, <1>5, <1>6, <1>7 DEF CacheNext

LEMMA Always == CacheAssumption => (CacheSpec => []IndInv)
<1> SUFFICES ASSUME CacheAssumption PROVE CacheSpec => []IndInv
  OBVIOUS
<1>1. CacheInit => IndInv
  BY InitInv
<1>2. IndInv /\ [CacheNext]_cacheVars => IndInv'
  BY StepInv
<1> QED
  BY <1>1, <1>2, PTL DEF CacheSpec

(* Types, and the release staging keeps within its bound.                  *)
THEOREM TypeCorrect == CacheAssumption => (CacheSpec => []CacheTypeOK)
<1> SUFFICES ASSUME CacheAssumption PROVE CacheSpec => []CacheTypeOK
  OBVIOUS
<1>1. IndInv => CacheTypeOK
  BY DEF IndInv, TypeInv
<1> QED
  BY <1>1, Always, PTL

(* Neither side ever reads an old value of what the page bits let it       *)
(* through to, whatever GPU work, write-backs, fetches of windows, faults, *)
(* collected buffers and new mappings came before (RegionManager's bits,   *)
(* BufferCache::ReadMemoryOnGpu, RecordReleaseWriteback).                  *)
THEOREM LatestSeen == CacheAssumption => (CacheSpec => []LatestValueSeen)
<1> SUFFICES ASSUME CacheAssumption PROVE CacheSpec => []LatestValueSeen
  OBVIOUS
<1>1. IndInv => LatestValueSeen
  BY DEF IndInv
<1> QED
  BY <1>1, Always, PTL

(* No page is both sides' at once, the GPU's pages are those of its byte   *)
(* ranges but for the ones about to be unmarked, they lie in buffers, the  *)
(* buffers never meet, and a page with a write-back under way stays the    *)
(* GPU's (ChangeState's EXITs, ValidateGpuDirtyPages, ResolveOverlaps).    *)
THEOREM BitsAgree == CacheAssumption => (CacheSpec => []DirtyPagesAgree)
<1> SUFFICES ASSUME CacheAssumption PROVE CacheSpec => []DirtyPagesAgree
  OBVIOUS
<1>1. IndInv => DirtyPagesAgree
  BY DEF IndInv
<1> QED
  BY <1>1, Always, PTL

-----------------------------------------------------------------------------
Protections == {"none", "read", "read_write"}

(* The runs of the pass.                                                   *)
Runs == [protected : [RegionPages -> Protections], begin : Nat, size : Nat, potential : Nat,
         perms : Protections]

(* Counters are the numbers of the page's watchers.                        *)
WatchInv ==
    /\ watched \in [Owners -> SUBSET RegionPages]
    /\ write_watchers \in [RegionPages -> Nat] /\ access_watchers \in [RegionPages -> Nat]
    /\ protection \in [RegionPages -> Protections]
    /\ WatchersTypeOK /\ ProtectionFollowsWatchers

LEMMA PagesAre ==
    ASSUME WatcherAssumption
    PROVE  \E n \in Nat : RegionPages = 1..n
  BY FS_CardinalityType DEF WatcherAssumption

LEMMA PermsAre == \A w, a : Perms(w, a) \in Protections
  BY DEF Perms, Protections

(* The page at the cursor, and the page whose permissions change.          *)
LEMMA ReleaseKeeps ==
    ASSUME NEW run \in Runs
    PROVE  /\ Release(run) \in Runs /\ Release(run).size = 0 /\ Release(run).perms = run.perms
           /\ \A q \in RegionPages : Release(run).protected[q] =
                 IF run.size # 0 /\ q \in run.begin..(run.begin + run.size - 1) THEN run.perms
                 ELSE run.protected[q]
<1>1. CASE run.size = 0
  BY <1>1 DEF Release
<1>2. CASE run.size # 0
  <2> DEFINE shown == [p \in RegionPages |-> IF p \in run.begin..(run.begin + run.size - 1)
                                             THEN run.perms ELSE run.protected[p]]
  <2>1. shown \in [RegionPages -> Protections]
    BY DEF Runs
  <2>2. Release(run) = [run EXCEPT !.size = 0, !.potential = 0, !.protected = shown]
    BY <1>2 DEF Release
  <2> HIDE DEF shown
  <2>3. /\ Release(run) \in Runs /\ Release(run).size = 0 /\ Release(run).perms = run.perms
        /\ Release(run).protected = shown
    <3> DEFINE one == [run EXCEPT !.size = 0]
    <3>1. one \in Runs /\ one.size = 0 /\ one.perms = run.perms
      BY DEF Runs
    <3> HIDE DEF one
    <3> DEFINE two == [one EXCEPT !.potential = 0]
    <3>2. two \in Runs /\ two.size = 0 /\ two.perms = run.perms
      BY <3>1 DEF Runs
    <3> HIDE DEF two
    <3>3. Release(run) = [two EXCEPT !.protected = shown]
      BY <2>2 DEF one, two
    <3> QED
      BY <2>1, <3>2, <3>3 DEF Runs
  <2> QED
    BY <1>2, <2>3 DEF shown
<1> QED
  BY <1>1, <1>2

(* The permissions asked for at page q, and the pages of the open run that *)
(* wait for them.                                                          *)
New(w, a, q) == Perms(w[q], a[q])
Pending(run, q) == run.size # 0 /\ q \in run.begin..(run.begin + run.size - 1)

(* After page p: the pages so far are protected as asked for, or wait to   *)
(* be with the run's permissions, which are those of every page the run    *)
(* has passed over since; the pages ahead are untouched.                   *)
Pass(run, p, w, a) ==
    /\ run \in Runs
    /\ \A q \in RegionPages : q <= p => IF Pending(run, q) THEN New(w, a, q) = run.perms
                                        ELSE run.protected[q] = New(w, a, q)
    /\ \A q \in RegionPages : q > p => run.protected[q] = protection[q]
    /\ run.size # 0 => /\ run.begin >= 1 /\ run.begin + run.potential = p + 1
                       /\ run.size <= run.potential
                       /\ \A q \in run.begin..p : New(w, a, q) = run.perms

LEMMA AtPageKeeps ==
    ASSUME NEW n \in Nat, RegionPages = 1..n, NEW p \in Nat, p + 1 \in RegionPages, NEW w, NEW a,
           NEW run, Pass(run, p, w, a)
    PROVE  LET at == AtPage(run, New(w, a, p + 1))
           IN  /\ at \in Runs /\ at.perms = New(w, a, p + 1)
               /\ \A q \in RegionPages : q <= p => IF Pending(at, q) THEN New(w, a, q) = at.perms
                                                   ELSE at.protected[q] = New(w, a, q)
               /\ \A q \in RegionPages : q > p => at.protected[q] = protection[q]
               /\ at.size # 0 => /\ at.begin >= 1 /\ at.begin + at.potential = p + 2
                                 /\ at.size < at.potential
                                 /\ \A q \in at.begin..(p + 1) : New(w, a, q) = at.perms
<1> DEFINE perms == New(w, a, p + 1)
<1> DEFINE at == AtPage(run, perms)
<1>1. /\ run \in Runs /\ perms \in Protections
      /\ run.begin \in Nat /\ run.size \in Nat /\ run.potential \in Nat
  BY PermsAre DEF Pass, Runs, New
<1>2. CASE perms # run.perms
  <2> DEFINE free == Release(run)
  <2>1. /\ free \in Runs /\ free.size = 0
        /\ \A q \in RegionPages : free.protected[q] = IF Pending(run, q) THEN run.perms
                                                      ELSE run.protected[q]
    BY <1>1, ReleaseKeeps DEF Pending
  <2> HIDE DEF free
  <2>2. at = [free EXCEPT !.perms = perms]
    BY <1>2 DEF AtPage, free
  <2> HIDE DEF perms, at
  <2>3. at \in Runs /\ at.perms = perms /\ at.size = 0 /\ at.protected = free.protected
    BY <1>1, <2>1, <2>2 DEF Runs
  <2>4. \A q \in RegionPages : q <= p => at.protected[q] = New(w, a, q)
    BY <2>1, <2>3 DEF Pass
  <2>5. \A q \in RegionPages : q > p => ~ Pending(run, q)
    BY <1>1 DEF Pass, Pending
  <2>6. \A q \in RegionPages : q > p => at.protected[q] = protection[q]
    BY <2>1, <2>3, <2>5 DEF Pass
  <2> QED
    BY <2>3, <2>4, <2>6 DEF at, perms, Pending
<1>3. CASE perms = run.perms /\ run.size # 0
  <2>1. at = [run EXCEPT !.potential = @ + 1]
    BY <1>3 DEF AtPage
  <2> HIDE DEF at
  <2>2. /\ at \in Runs /\ at.perms = run.perms /\ at.size = run.size /\ at.begin = run.begin
        /\ at.protected = run.protected /\ at.potential = run.potential + 1
    BY <1>1, <2>1 DEF Runs
  <2>3. \A q : Pending(at, q) <=> Pending(run, q)
    BY <2>2 DEF Pending
  <2>4. /\ run.begin >= 1 /\ run.begin + run.potential = p + 1 /\ run.size <= run.potential
        /\ \A q \in run.begin..p : New(w, a, q) = run.perms
    BY <1>3 DEF Pass
  <2>5. at.begin + at.potential = p + 2 /\ at.size < at.potential
    BY <1>1, <2>2, <2>4
  <2>6. \A q \in at.begin..(p + 1) : New(w, a, q) = at.perms
    <3>1. \A q \in at.begin..(p + 1) : q = p + 1 \/ q \in run.begin..p
      BY <1>1, <2>2
    <3> QED
      BY <1>3, <2>2, <2>4, <3>1
  <2>7. \A q \in RegionPages : q <= p => IF Pending(at, q) THEN New(w, a, q) = at.perms
                                         ELSE at.protected[q] = New(w, a, q)
    BY <2>2, <2>3 DEF Pass
  <2>8. \A q \in RegionPages : q > p => at.protected[q] = protection[q]
    BY <2>2 DEF Pass
  <2> QED
    BY <1>3, <2>2, <2>4, <2>5, <2>6, <2>7, <2>8 DEF at
<1>4. CASE perms = run.perms /\ run.size = 0
  <2>1. at = run
    BY <1>4 DEF AtPage
  <2> HIDE DEF at
  <2> QED
    BY <1>4, <2>1 DEF at, Pass
<1> QED
  BY <1>2, <1>3, <1>4

LEMMA StepKeeps ==
    ASSUME NEW n \in Nat, RegionPages = 1..n, NEW p \in Nat, p + 1 \in RegionPages, NEW w, NEW a,
           NEW run, Pass(run, p, w, a), NEW next,
           LET at == AtPage(run, New(w, a, p + 1))
           IN  next = Extend(at, p + 1) \/ (next = at /\ protection[p + 1] = New(w, a, p + 1))
    PROVE  Pass(next, p + 1, w, a)
<1> DEFINE at == AtPage(run, New(w, a, p + 1))
<1>1. /\ at \in Runs /\ at.perms = New(w, a, p + 1)
      /\ \A q \in RegionPages : q <= p => IF Pending(at, q) THEN New(w, a, q) = at.perms
                                          ELSE at.protected[q] = New(w, a, q)
      /\ \A q \in RegionPages : q > p => at.protected[q] = protection[q]
      /\ at.size # 0 => /\ at.begin >= 1 /\ at.begin + at.potential = p + 2
                        /\ at.size < at.potential
                        /\ \A q \in at.begin..(p + 1) : New(w, a, q) = at.perms
  BY AtPageKeeps
<1>2. next = Extend(at, p + 1) \/ (next = at /\ protection[p + 1] = New(w, a, p + 1))
  OBVIOUS
<1> HIDE DEF at
<1>3. at.begin \in Nat /\ at.size \in Nat /\ at.potential \in Nat
  BY <1>1 DEF Runs
<1>4. \A q \in RegionPages : q <= p + 1 => q <= p \/ q = p + 1
  OBVIOUS
<1>5. CASE next = at /\ protection[p + 1] = New(w, a, p + 1)
  <2>1. ~ Pending(at, p + 1)
    BY <1>1, <1>3 DEF Pending
  <2>2. at.protected[p + 1] = New(w, a, p + 1)
    BY <1>1, <1>5
  <2>3. \A q \in RegionPages : q <= p + 1 => IF Pending(at, q) THEN New(w, a, q) = at.perms
                                             ELSE at.protected[q] = New(w, a, q)
    BY <1>1, <1>4, <2>1, <2>2
  <2>4. \A q \in RegionPages : q > p + 1 => at.protected[q] = protection[q]
    BY <1>1
  <2>5. at.size # 0 => /\ at.begin >= 1 /\ at.begin + at.potential = (p + 1) + 1
                       /\ at.size <= at.potential
    BY <1>1, <1>3
  <2> QED
    BY <1>1, <1>5, <2>3, <2>4, <2>5 DEF Pass
<1>6. CASE next = Extend(at, p + 1)
  <2> DEFINE opened == IF at.size = 0 THEN [at EXCEPT !.begin = p + 1, !.potential = 1] ELSE at
  <2>1. /\ opened \in Runs /\ opened.perms = at.perms /\ opened.protected = at.protected
        /\ opened.begin >= 1 /\ opened.begin + opened.potential = p + 2 /\ opened.potential >= 1
        /\ \A q \in opened.begin..(p + 1) : New(w, a, q) = at.perms
        /\ \A q \in RegionPages : q < opened.begin => ~ Pending(at, q)
    <3>1. CASE at.size = 0
      <4> DEFINE one == [at EXCEPT !.begin = p + 1]
      <4>1. /\ one \in Runs /\ one.perms = at.perms /\ one.protected = at.protected
            /\ one.begin = p + 1
        BY <1>1 DEF Runs
      <4> HIDE DEF one
      <4>2. opened = [one EXCEPT !.potential = 1]
        BY <3>1 DEF one
      <4> HIDE DEF opened
      <4>3. /\ opened \in Runs /\ opened.perms = at.perms /\ opened.protected = at.protected
            /\ opened.begin = p + 1 /\ opened.potential = 1
        <5>1. opened.begin = one.begin /\ opened.potential = 1 /\ opened.perms = one.perms
              /\ opened.protected = one.protected /\ opened \in Runs
          BY <4>1, <4>2 DEF Runs
        <5> QED
          BY <4>1, <5>1
      <4>4. \A q \in opened.begin..(p + 1) : q = p + 1
        BY <4>3
      <4> QED
        BY <1>1, <3>1, <4>3, <4>4 DEF Pending
    <3>2. CASE at.size # 0
      <4>1. opened = at
        BY <3>2
      <4> HIDE DEF opened
      <4>2. at.begin >= 1 /\ at.begin + at.potential = p + 2 /\ at.potential >= 1
        BY <1>1, <1>3, <3>2
      <4>3. \A q \in RegionPages : q < at.begin => ~ Pending(at, q)
        BY <1>3 DEF Pending
      <4> QED
        BY <1>1, <3>2, <4>1, <4>2, <4>3
    <3> QED
      BY <3>1, <3>2
  <2>2. next = [opened EXCEPT !.size = opened.potential]
    BY <1>6 DEF Extend
  <2> HIDE DEF opened
  <2>3. /\ next \in Runs /\ next.perms = at.perms /\ next.protected = at.protected
        /\ next.begin = opened.begin /\ next.potential = opened.potential
        /\ next.size = opened.potential
    BY <2>1, <2>2 DEF Runs
  <2>4. opened.begin \in Nat /\ opened.potential \in Nat
    BY <2>1 DEF Runs
  <2>5. \A q \in RegionPages : q <= p + 1 => (Pending(next, q) <=> q >= opened.begin)
    BY <2>1, <2>3, <2>4 DEF Pending
  <2>6. \A q \in RegionPages : q <= p + 1 /\ q < opened.begin => q <= p
    BY <2>1, <2>4
  <2>7. ASSUME NEW q \in RegionPages, q <= p + 1
        PROVE  IF Pending(next, q) THEN New(w, a, q) = next.perms
               ELSE next.protected[q] = New(w, a, q)
    <3>1. CASE q >= opened.begin
      <4>1. q \in opened.begin..(p + 1)
        BY <2>4, <2>7, <3>1
      <4> QED
        BY <2>1, <2>3, <2>5, <2>7, <3>1, <4>1
    <3>2. CASE q < opened.begin
      <4>1. ~ Pending(next, q) /\ ~ Pending(at, q) /\ q <= p
        BY <2>1, <2>4, <2>5, <2>6, <2>7, <3>2
      <4> QED
        BY <1>1, <2>3, <4>1
    <3> QED
      BY <2>4, <3>1, <3>2
  <2>8. \A q \in RegionPages : q > p + 1 => next.protected[q] = protection[q]
    BY <1>1, <2>3
  <2>9. /\ next.begin >= 1 /\ next.begin + next.potential = (p + 1) + 1
        /\ next.size <= next.potential
        /\ \A q \in next.begin..(p + 1) : New(w, a, q) = next.perms
    BY <2>1, <2>3, <2>4
  <2> QED
    BY <2>3, <2>7, <2>8, <2>9 DEF Pass
<1> QED
  BY <1>2, <1>5, <1>6

-----------------------------------------------------------------------------
(* The counts w and a are those of the page's watchers after the update.   *)
Updated(mask, track, read, w, a) ==
    /\ w \in [RegionPages -> Nat] /\ a \in [RegionPages -> Nat]
    /\ \A p \in RegionPages : p \notin mask => w[p] = write_watchers[p] /\ a[p] = access_watchers[p]
    /\ \A p \in mask :
          IF read THEN /\ w[p] = write_watchers[p]
                       /\ access_watchers[p] = IF track THEN a[p] - 1 ELSE a[p] + 1
          ELSE /\ a[p] = access_watchers[p]
               /\ write_watchers[p] = IF track THEN w[p] - 1 ELSE w[p] + 1

(* Permissions change only at the edge of a counter.                       *)
LEMMA StepIs ==
    ASSUME WatchInv, NEW mask \in SUBSET RegionPages, NEW track \in BOOLEAN, NEW read \in BOOLEAN,
           NEW w, NEW a, Updated(mask, track, read, w, a), NEW run, NEW p \in RegionPages
    PROVE  LET at == AtPage(run, New(w, a, p))
               next == Step(mask, track, read, w, a, run, p)
           IN  next = Extend(at, p) \/ (next = at /\ protection[p] = New(w, a, p))
<1> DEFINE at == AtPage(run, New(w, a, p))
<1> DEFINE next == Step(mask, track, read, w, a, run, p)
<1> DEFINE count == IF read THEN a[p] ELSE w[p]
<1> DEFINE old == IF track THEN count - 1 ELSE count + 1
<1> DEFINE edge == count = IF track THEN 1 ELSE 0
<1> DEFINE changes == (IF read THEN Perms(w[p], old) ELSE Perms(old, a[p])) # New(w, a, p)
<1>1. next = IF p \in mask /\ edge /\ changes THEN Extend(at, p) ELSE at
  BY Zenon DEF Step, New
<1>2. protection[p] = Perms(write_watchers[p], access_watchers[p])
  BY DEF WatchInv, ProtectionFollowsWatchers
<1>3. w[p] \in Nat /\ a[p] \in Nat /\ write_watchers[p] \in Nat /\ access_watchers[p] \in Nat
  BY DEF Updated, WatchInv
<1>4. p \notin mask => protection[p] = New(w, a, p)
  BY <1>2 DEF Updated, New
<1>5. p \in mask => protection[p] = IF read THEN Perms(w[p], old) ELSE Perms(old, a[p])
  <2>1. p \in mask => IF read THEN w[p] = write_watchers[p] /\ old = access_watchers[p]
                      ELSE a[p] = access_watchers[p] /\ old = write_watchers[p]
    BY <1>3 DEF Updated
  <2> HIDE DEF old
  <2> QED
    BY <1>2, <2>1
<1>6. ~ edge /\ p \in mask => (old = 0 <=> count = 0)
  <2>1. p \in mask => count \in Nat /\ old \in Nat
    BY <1>3 DEF Updated
  <2> HIDE DEF count
  <2> QED
    BY <2>1
<1>7. ~ edge /\ p \in mask => ~ changes
  <2>1. ~ edge /\ p \in mask => (old # 0 <=> count # 0)
    BY <1>6
  <2> HIDE DEF old, edge
  <2> QED
    BY <2>1 DEF Perms, New
<1>8. p \in mask /\ ~ changes => protection[p] = New(w, a, p)
  BY <1>5
<1> HIDE DEF at, next, count, old
<1>9. next = Extend(at, p) \/ (next = at /\ protection[p] = New(w, a, p))
  BY <1>1, <1>4, <1>7, <1>8
<1> QED
  BY <1>9 DEF at, next

(* The pass is a recursive function over the pages from first to last.     *)
IsPass(f, first, k, start, mask, track, read, w, a) ==
    f = [p \in (first - 1)..k |->
            IF p < first THEN start ELSE Step(mask, track, read, w, a, f[p - 1], p)]

LEMMA PassExists ==
    ASSUME NEW first \in Nat \ {0}, NEW last \in Nat, last >= first - 1,
           NEW start, NEW mask, NEW track, NEW read, NEW w, NEW a
    PROVE  \E f : IsPass(f, first, last, start, mask, track, read, w, a)
<1> DEFINE Has(k) == \E f : IsPass(f, first, k, start, mask, track, read, w, a)
<1> DEFINE Missing == {k \in Nat : k >= first - 1 /\ ~ Has(k)}
<1>1. ASSUME Missing # {} PROVE FALSE
  <2>1. PICK k \in Missing : \A j \in Missing : k <= j
    BY <1>1, Least
  <2>2. Has(first - 1)
    <3> DEFINE f == [p \in (first - 1)..(first - 1) |-> start]
    <3>1. \A p \in (first - 1)..(first - 1) : p < first
      OBVIOUS
    <3>2. f = [p \in (first - 1)..(first - 1) |->
                  IF p < first THEN start ELSE Step(mask, track, read, w, a, f[p - 1], p)]
      BY <3>1
    <3> HIDE DEF f
    <3> QED
      BY <3>2 DEF IsPass
  <2>3. k # first - 1
    <3> HIDE DEF Has
    <3> QED
      BY <2>1, <2>2
  <2>4. k - 1 \in Nat /\ k - 1 >= first - 1 /\ Has(k - 1)
    <3>1. k - 1 \in Nat /\ k - 1 >= first - 1 /\ k - 1 \notin Missing
      BY <2>1, <2>3
    <3> HIDE DEF Has
    <3> QED
      BY <3>1
  <2>5. PICK f : IsPass(f, first, k - 1, start, mask, track, read, w, a)
    BY <2>4
  <2> DEFINE step(h, p) == IF p < first THEN start ELSE Step(mask, track, read, w, a, h[p - 1], p)
  <2> DEFINE g == [p \in (first - 1)..k |-> step(f, p)]
  <2>6. \A p \in (first - 1)..(k - 1) : f[p] = step(f, p)
    BY <2>5 DEF IsPass
  <2>7. ASSUME NEW p \in first..k PROVE g[p - 1] = f[p - 1]
    <3>1. p - 1 \in (first - 1)..(k - 1) /\ p - 1 \in (first - 1)..k
      BY <2>1
    <3> HIDE DEF step
    <3> QED
      BY <2>6, <3>1
  <2>8. \A p \in (first - 1)..k : step(f, p) = step(g, p)
    <3>1. \A p \in (first - 1)..k : p < first \/ p \in first..k
      BY <2>1
    <3> HIDE DEF g
    <3> QED
      BY <2>7, <3>1
  <2>9. g = [p \in (first - 1)..k |-> step(g, p)]
    <3> HIDE DEF step
    <3> QED
      BY <2>8
  <2>10. IsPass(g, first, k, start, mask, track, read, w, a)
    <3> HIDE DEF g
    <3> QED
      BY <2>9 DEF IsPass
  <2>11. Has(k)
    BY <2>10
  <2> HIDE DEF Has
  <2> QED
    BY <2>1, <2>11
<1> HIDE DEF Has
<1>2. Has(last)
  BY <1>1
<1> QED
  BY <1>2 DEF Has

LEMMA FirstAndLast ==
    ASSUME NEW n \in Nat, NEW mask \in SUBSET (1..n), mask # {}
    PROVE  LET first == CHOOSE p \in mask : \A q \in mask : p <= q
               last  == CHOOSE p \in mask : \A q \in mask : p >= q
           IN  /\ first \in mask /\ last \in mask
               /\ \A q \in mask : first <= q /\ q <= last
<1>1. \E p \in mask : \A q \in mask : p <= q
  BY Least
<1>2. \E p \in mask : \A q \in mask : p >= q
  <2> DEFINE Bounds == {m \in Nat : \A q \in mask : q <= m}
  <2>1. n \in Bounds
    OBVIOUS
  <2>2. PICK m \in Bounds : \A k \in Bounds : m <= k
    BY <2>1, Least
  <2>3. m # 0
    <3>1. PICK q \in mask : q <= m
      BY <2>2
    <3> QED
      BY <3>1
  <2>4. m - 1 \in Nat /\ m - 1 \notin Bounds
    BY <2>2, <2>3
  <2>5. PICK q \in mask : ~(q <= m - 1)
    BY <2>4
  <2>6. q = m
    BY <2>2, <2>4, <2>5
  <2> QED
    BY <2>2, <2>6
<1> QED
  BY <1>1, <1>2

(* Every page gets its own permissions.                                    *)
Protects(mask, track, read, w, a) ==
    /\ UpdateRegionWatchers(mask, track, read, w, a) \in [RegionPages -> Protections]
    /\ \A p \in RegionPages : UpdateRegionWatchers(mask, track, read, w, a)[p] = New(w, a, p)

(* It does whatever runs the pass makes.                                   *)
LEMMA PassProtects ==
    ASSUME \E n \in Nat : RegionPages = 1..n, WatchInv, NEW mask \in SUBSET RegionPages, mask # {},
           NEW track \in BOOLEAN, NEW read \in BOOLEAN,
           NEW w, NEW a, Updated(mask, track, read, w, a)
    PROVE  Protects(mask, track, read, w, a)
<1> SUFFICES ASSUME NEW n \in Nat, RegionPages = 1..n
             PROVE  Protects(mask, track, read, w, a)
  OBVIOUS
<1> DEFINE first == CHOOSE p \in mask : \A q \in mask : p <= q
           last  == CHOOSE p \in mask : \A q \in mask : p >= q
           start == [protected |-> protection, begin |-> 0, size |-> 0, potential |-> 0,
                     perms |-> Perms(write_watchers[first], access_watchers[first])]
           run == CHOOSE f : IsPass(f, first, last, start, mask, track, read, w, a)
<1>1. UpdateRegionWatchers(mask, track, read, w, a) = Release(run[last]).protected
  BY Zenon DEF UpdateRegionWatchers, IsPass
<1>2. /\ first \in mask /\ last \in mask /\ \A q \in mask : first <= q /\ q <= last
  BY FirstAndLast
<1>3. start \in Runs /\ start.size = 0 /\ start.protected = protection
  <2>1. protection \in [RegionPages -> Protections]
    BY DEF WatchInv
  <2> QED
    BY <2>1, PermsAre DEF Runs
<1> HIDE DEF first, last, start
<1>4. /\ first \in Nat \ {0} /\ last \in Nat /\ last >= first - 1
      /\ last \in RegionPages /\ first <= last
  BY <1>2
<1>5. IsPass(run, first, last, start, mask, track, read, w, a)
  BY <1>4, PassExists
<1> HIDE DEF run
<1>6. /\ run[first - 1] = start
      /\ \A p \in first..last : run[p] = Step(mask, track, read, w, a, run[p - 1], p)
  <2>1. \A p \in (first - 1)..last :
           run[p] = IF p < first THEN start ELSE Step(mask, track, read, w, a, run[p - 1], p)
    BY <1>5 DEF IsPass
  <2>2. first - 1 \in (first - 1)..last /\ first - 1 < first
        /\ \A p \in first..last : p \in (first - 1)..last /\ ~(p < first)
    BY <1>4
  <2> QED
    BY <2>1, <2>2
<1>7. \A q \in RegionPages : q < first \/ q > last => q \notin mask
  BY <1>2, <1>4
<1>8. \A q \in RegionPages : protection[q] = New(write_watchers, access_watchers, q)
  BY DEF WatchInv, ProtectionFollowsWatchers, New
<1>9. \A q \in RegionPages : q \notin mask => protection[q] = New(w, a, q)
  BY <1>8 DEF Updated, New
<1> DEFINE Good(p) == Pass(run[p], p, w, a)
<1>10. Good(first - 1)
  <2>1. \A q : ~ Pending(start, q)
    BY <1>3 DEF Pending
  <2>2. \A q \in RegionPages : q <= first - 1 => protection[q] = New(w, a, q)
    BY <1>4, <1>7, <1>9
  <2> QED
    BY <1>3, <1>6, <2>1, <2>2 DEF Pass
<1>11. ASSUME NEW p \in first..last, Good(p - 1) PROVE Good(p)
  <2>1. p - 1 \in Nat /\ (p - 1) + 1 = p /\ p \in RegionPages
    BY <1>4
  <2>2. LET at == AtPage(run[p - 1], New(w, a, p))
        IN  run[p] = Extend(at, p) \/ (run[p] = at /\ protection[p] = New(w, a, p))
    BY <1>6, <2>1, StepIs
  <2>3. Pass(run[p], (p - 1) + 1, w, a)
    <3>1. Pass(run[p - 1], p - 1, w, a) /\ (p - 1) + 1 \in RegionPages
      BY <1>11, <2>1
    <3>2. LET at == AtPage(run[p - 1], New(w, a, (p - 1) + 1))
          IN  run[p] = Extend(at, (p - 1) + 1)
              \/ (run[p] = at /\ protection[(p - 1) + 1] = New(w, a, (p - 1) + 1))
      BY <2>1, <2>2
    <3> QED
      BY <2>1, <3>1, <3>2, StepKeeps
  <2> QED
    BY <2>1, <2>3
<1> HIDE DEF Good
<1>12. Good(last)
  <2> DEFINE Bad == {p \in Nat : p >= first - 1 /\ p <= last /\ ~ Good(p)}
  <2>1. ASSUME Bad # {} PROVE FALSE
    <3>1. PICK p \in Bad : \A k \in Bad : p <= k
      BY <2>1, Least
    <3>2. p # first - 1
      BY <1>10, <3>1
    <3>3. p \in first..last /\ p - 1 \in Nat /\ p - 1 >= first - 1 /\ p - 1 <= last
      BY <1>4, <3>1, <3>2
    <3>4. p - 1 \notin Bad
      BY <3>1, <3>3
    <3> QED
      BY <1>11, <3>1, <3>3, <3>4
  <2> QED
    BY <1>4, <2>1
<1> DEFINE end == run[last]
<1>13. Pass(end, last, w, a)
  BY <1>12 DEF Good
<1> HIDE DEF end
<1>14. /\ end \in Runs
       /\ \A q \in RegionPages : q <= last => IF Pending(end, q) THEN New(w, a, q) = end.perms
                                              ELSE end.protected[q] = New(w, a, q)
       /\ \A q \in RegionPages : q > last => end.protected[q] = protection[q]
       /\ end.size # 0 => end.begin + end.potential = last + 1 /\ end.size <= end.potential
  BY <1>13 DEF Pass
<1>15. /\ Release(end) \in Runs
       /\ \A q \in RegionPages : Release(end).protected[q] = IF Pending(end, q) THEN end.perms
                                                      ELSE end.protected[q]
  BY <1>14, ReleaseKeeps DEF Pending
<1>16. ASSUME NEW q \in RegionPages PROVE Release(end).protected[q] = New(w, a, q)
  <2>1. CASE q <= last
    BY <1>14, <1>15, <2>1
  <2>2. CASE q > last
    <3>1. ~ Pending(end, q)
      <4>1. end.begin \in Nat /\ end.size \in Nat /\ end.potential \in Nat
        BY <1>14 DEF Runs
      <4> QED
        BY <1>4, <1>14, <2>2, <4>1 DEF Pending
    <3> QED
      BY <1>7, <1>9, <1>14, <1>15, <2>2, <3>1
  <2> QED
    BY <1>4, <2>1, <2>2
<1>17. Release(end).protected \in [RegionPages -> Protections]
  BY <1>15 DEF Runs
<1> QED
  BY <1>1, <1>16, <1>17 DEF end, Protects

-----------------------------------------------------------------------------
(* The owners of a set that watch a page.                                  *)
Watching(f, S, p) == {v \in S : p \in f[v]}

(* An owner that comes or goes changes the number of them by one.          *)
LEMMA CountsFollow ==
    ASSUME NEW S \in SUBSET Owners, IsFiniteSet(S), NEW o \in Owners, NEW p \in RegionPages,
           \A v \in Owners : v # o => watched'[v] = watched[v]
    PROVE  LET was == Cardinality(Watching(watched, S, p))
               is  == Cardinality(Watching(watched', S, p))
           IN  /\ was \in Nat
               /\ o \notin S \/ (p \in watched[o] <=> p \in watched'[o]) => is = was
               /\ o \in S /\ p \notin watched[o] /\ p \in watched'[o] => is = was + 1
               /\ o \in S /\ p \in watched[o] /\ p \notin watched'[o] => is = was - 1 /\ was # 0
<1> DEFINE T == Watching(watched, S, p)
<1>1. IsFiniteSet(T) /\ Cardinality(T) \in Nat
  BY FS_Subset, FS_CardinalityType DEF Watching
<1>2. o \notin S \/ (p \in watched[o] <=> p \in watched'[o]) => T' = T
  BY DEF Watching
<1>3. ASSUME o \in S, p \notin watched[o], p \in watched'[o]
      PROVE  Cardinality(T') = Cardinality(T) + 1
  <2>1. T' = T \cup {o} /\ o \notin T
    BY <1>3 DEF Watching
  <2>2. Cardinality(T \cup {o}) = Cardinality(T) + 1
    BY <1>1, <2>1, FS_AddElement
  <2> QED
    BY <2>1, <2>2
<1>4. ASSUME o \in S, p \in watched[o], p \notin watched'[o]
      PROVE  Cardinality(T') = Cardinality(T) - 1 /\ Cardinality(T) # 0
  <2>1. T' = T \ {o} /\ o \in T
    BY <1>4 DEF Watching
  <2>2. Cardinality(T \ {o}) = Cardinality(T) - 1 /\ Cardinality(T) # 0
    BY <1>1, <2>1, FS_RemoveElement, FS_EmptySet
  <2> QED
    BY <2>1, <2>2
<1>5. T' = Watching(watched', S, p)
  OBVIOUS
<1> HIDE DEF T
<1> QED
  BY <1>1, <1>2, <1>3, <1>4, <1>5 DEF T

LEMMA WatchStarts == WatcherAssumption /\ WatchersInit => WatchInv
<1> SUFFICES ASSUME WatcherAssumption, WatchersInit PROVE WatchInv
  OBVIOUS
<1>1. /\ watched \in [Owners -> SUBSET RegionPages]
      /\ write_watchers \in [RegionPages -> Nat] /\ access_watchers \in [RegionPages -> Nat]
      /\ protection \in [RegionPages -> Protections]
  BY DEF WatchersInit, Protections
<1>2. ProtectionFollowsWatchers
  BY DEF WatchersInit, ProtectionFollowsWatchers, Perms
<1>3. WatchersTypeOK
  <2>1. ASSUME NEW p \in RegionPages
        PROVE  {o \in WriteWatchers : p \in watched[o]} = {}
               /\ {o \in AccessWatchers : p \in watched[o]} = {}
    BY DEF WatchersInit, Owners
  <2> QED
    BY <2>1, FS_EmptySet DEF WatchersInit, WatchersTypeOK
<1> QED
  BY <1>1, <1>2, <1>3 DEF WatchInv

LEMMA WatchStep ==
    ASSUME WatcherAssumption, WatchInv, NEW o \in Owners, NEW mask \in SUBSET RegionPages,
           NEW track \in BOOLEAN, UpdatePageWatchers(o, mask, track)
    PROVE  WatchInv'
<1>a. PICK read \in BOOLEAN : read = (o \in AccessWatchers)
  <2>1. CASE o \in AccessWatchers
    BY <2>1, TRUE = (o \in AccessWatchers)
  <2>2. CASE o \notin AccessWatchers
    BY <2>2, FALSE = (o \in AccessWatchers)
  <2> QED
    BY <2>1, <2>2, Zenon
<1>b. PICK w, a : w = write_watchers' /\ a = access_watchers'
  OBVIOUS
<1>1. /\ mask # {}
      /\ (IF track THEN mask \cap watched[o] = {} ELSE mask \subseteq watched[o])
      /\ w = IF read THEN write_watchers ELSE Counts(write_watchers, mask, track)
      /\ a = IF read THEN Counts(access_watchers, mask, track) ELSE access_watchers
      /\ watched' = [watched EXCEPT ![o] = IF track THEN @ \cup mask ELSE @ \ mask]
  BY <1>a, <1>b DEF UpdatePageWatchers
<1>2. protection' = UpdateRegionWatchers(mask, track, read, w, a)
  <2>1. protection' = UpdateRegionWatchers(mask, track, read,
                          IF read THEN write_watchers ELSE Counts(write_watchers, mask, track),
                          IF read THEN Counts(access_watchers, mask, track) ELSE access_watchers)
    BY <1>a, <1>b DEF UpdatePageWatchers
  <2> QED
    BY <1>1, <2>1
<1>3. /\ WriteWatchers \in SUBSET Owners /\ AccessWatchers \in SUBSET Owners
      /\ IsFiniteSet(WriteWatchers) /\ IsFiniteSet(AccessWatchers)
      /\ (o \in WriteWatchers <=> ~read)
  BY <1>a DEF WatcherAssumption, Owners
<1>4. \A p \in RegionPages : /\ write_watchers[p] = Cardinality(Watching(watched, WriteWatchers, p))
                       /\ access_watchers[p] = Cardinality(Watching(watched, AccessWatchers, p))
                       /\ write_watchers[p] \in Nat /\ access_watchers[p] \in Nat
  BY DEF WatchInv, WatchersTypeOK, Watching
<1>5. ASSUME NEW p \in RegionPages
      PROVE  /\ w[p] = Cardinality(Watching(watched', WriteWatchers, p))
             /\ a[p] = Cardinality(Watching(watched', AccessWatchers, p))
             /\ w[p] \in Nat /\ a[p] \in Nat
             /\ p \notin mask => w[p] = write_watchers[p] /\ a[p] = access_watchers[p]
             /\ p \in mask =>
                   IF read THEN /\ w[p] = write_watchers[p]
                                /\ access_watchers[p] = IF track THEN a[p] - 1 ELSE a[p] + 1
                   ELSE /\ a[p] = access_watchers[p]
                        /\ write_watchers[p] = IF track THEN w[p] - 1 ELSE w[p] + 1
  <2> DEFINE Owner(S) == o \in S /\ p \in mask
  <2>0. /\ \A v \in Owners : v # o => watched'[v] = watched[v]
        /\ watched'[o] = IF track THEN watched[o] \cup mask ELSE watched[o] \ mask
    BY <1>1 DEF WatchInv
  <2>1. /\ Cardinality(Watching(watched', WriteWatchers, p)) =
              IF Owner(WriteWatchers)
              THEN IF track THEN write_watchers[p] + 1 ELSE write_watchers[p] - 1
              ELSE write_watchers[p]
        /\ Owner(WriteWatchers) /\ ~track => write_watchers[p] # 0
    <3> DEFINE was == Cardinality(Watching(watched, WriteWatchers, p))
               is  == Cardinality(Watching(watched', WriteWatchers, p))
    <3>1. /\ o \notin WriteWatchers \/ (p \in watched[o] <=> p \in watched'[o]) => is = was
          /\ o \in WriteWatchers /\ p \notin watched[o] /\ p \in watched'[o] => is = was + 1
          /\ o \in WriteWatchers /\ p \in watched[o] /\ p \notin watched'[o]
                => is = was - 1 /\ was # 0
      BY <1>3, <2>0, CountsFollow, Zenon
    <3>2. was = write_watchers[p]
      BY <1>4
    <3> HIDE DEF was, is
    <3>3. p \in mask => IF track THEN p \notin watched[o] /\ p \in watched'[o]
                       ELSE p \in watched[o] /\ p \notin watched'[o]
      BY <1>1, <2>0
    <3>4. p \notin mask => (p \in watched[o] <=> p \in watched'[o])
      BY <2>0
    <3>5. is = IF Owner(WriteWatchers) THEN IF track THEN was + 1 ELSE was - 1 ELSE was
      BY <3>1, <3>3, <3>4
    <3>6. Owner(WriteWatchers) /\ ~track => was # 0
      BY <3>1, <3>3
    <3> QED
      BY <3>2, <3>5, <3>6 DEF is
  <2>2. /\ Cardinality(Watching(watched', AccessWatchers, p)) =
              IF Owner(AccessWatchers)
              THEN IF track THEN access_watchers[p] + 1 ELSE access_watchers[p] - 1
              ELSE access_watchers[p]
        /\ Owner(AccessWatchers) /\ ~track => access_watchers[p] # 0
    <3> DEFINE was == Cardinality(Watching(watched, AccessWatchers, p))
               is  == Cardinality(Watching(watched', AccessWatchers, p))
    <3>1. /\ o \notin AccessWatchers \/ (p \in watched[o] <=> p \in watched'[o]) => is = was
          /\ o \in AccessWatchers /\ p \notin watched[o] /\ p \in watched'[o] => is = was + 1
          /\ o \in AccessWatchers /\ p \in watched[o] /\ p \notin watched'[o]
                => is = was - 1 /\ was # 0
      BY <1>3, <2>0, CountsFollow, Zenon
    <3>2. was = access_watchers[p]
      BY <1>4
    <3> HIDE DEF was, is
    <3>3. p \in mask => IF track THEN p \notin watched[o] /\ p \in watched'[o]
                       ELSE p \in watched[o] /\ p \notin watched'[o]
      BY <1>1, <2>0
    <3>4. p \notin mask => (p \in watched[o] <=> p \in watched'[o])
      BY <2>0
    <3>5. is = IF Owner(AccessWatchers) THEN IF track THEN was + 1 ELSE was - 1 ELSE was
      BY <3>1, <3>3, <3>4
    <3>6. Owner(AccessWatchers) /\ ~track => was # 0
      BY <3>1, <3>3
    <3> QED
      BY <3>2, <3>5, <3>6 DEF is
  <2>3. /\ w[p] = IF read \/ p \notin mask THEN write_watchers[p]
                  ELSE IF track THEN write_watchers[p] + 1 ELSE write_watchers[p] - 1
        /\ a[p] = IF ~read \/ p \notin mask THEN access_watchers[p]
                  ELSE IF track THEN access_watchers[p] + 1 ELSE access_watchers[p] - 1
    BY <1>1 DEF Counts
  <2>4. write_watchers[p] \in Nat /\ access_watchers[p] \in Nat
    BY <1>4
  <2>5. w[p] = Cardinality(Watching(watched', WriteWatchers, p))
        /\ a[p] = Cardinality(Watching(watched', AccessWatchers, p))
    BY <1>a, <1>3, <2>1, <2>2, <2>3
  <2>6. w[p] \in Nat /\ a[p] \in Nat
    BY <1>a, <1>3, <2>1, <2>2, <2>3, <2>4
  <2> QED
    BY <2>3, <2>4, <2>5, <2>6
<1>6. w \in [RegionPages -> Nat] /\ a \in [RegionPages -> Nat]
  <2>1. w = [p \in RegionPages |-> w[p]] /\ a = [p \in RegionPages |-> a[p]]
    BY <1>1 DEF Counts, WatchInv
  <2> QED
    BY <1>5, <2>1
<1>7. Updated(mask, track, read, w, a)
  <2>1. ASSUME NEW p \in RegionPages, p \notin mask
        PROVE  w[p] = write_watchers[p] /\ a[p] = access_watchers[p]
    BY <1>5, <2>1
  <2>2. ASSUME NEW p \in mask
        PROVE  IF read THEN /\ w[p] = write_watchers[p]
                            /\ access_watchers[p] = IF track THEN a[p] - 1 ELSE a[p] + 1
               ELSE /\ a[p] = access_watchers[p]
                    /\ write_watchers[p] = IF track THEN w[p] - 1 ELSE w[p] + 1
    <3>1. p \in RegionPages
      OBVIOUS
    <3> QED
      BY <1>5, <3>1
  <2> QED
    BY <1>6, <2>1, <2>2 DEF Updated
<1>8. /\ protection' \in [RegionPages -> Protections]
      /\ \A p \in RegionPages : protection'[p] = New(w, a, p)
  <2>1. \E n \in Nat : RegionPages = 1..n
    BY PagesAre
  <2>2. mask # {}
    BY <1>1
  <2>3. Protects(mask, track, read, w, a)
    BY <1>7, <2>1, <2>2, PassProtects, Zenon
  <2> QED
    BY <1>2, <2>3 DEF Protects
<1>9. watched' \in [Owners -> SUBSET RegionPages]
  BY <1>1 DEF WatchInv
<1>10. ProtectionFollowsWatchers'
  BY <1>b, <1>8 DEF ProtectionFollowsWatchers, New
<1>11. WatchersTypeOK'
  BY <1>b, <1>5, <1>8 DEF WatchersTypeOK, Watching, Protections
<1> QED
  BY <1>b, <1>6, <1>8, <1>9, <1>10, <1>11 DEF WatchInv

LEMMA WatchAlways == WatcherAssumption => (WatchersSpec => []WatchInv)
<1> SUFFICES ASSUME WatcherAssumption PROVE WatchersSpec => []WatchInv
  OBVIOUS
<1>1. WatchersInit => WatchInv
  BY WatchStarts
<1>2. WatchInv /\ [WatchersNext]_watcherVars => WatchInv'
  <2>1. ASSUME WatchInv, UNCHANGED watcherVars PROVE WatchInv'
    BY <2>1 DEF watcherVars, WatchInv, WatchersTypeOK, ProtectionFollowsWatchers
  <2>2. ASSUME WatchInv, WatchersNext PROVE WatchInv'
    <3>1. PICK o \in Owners, mask \in SUBSET RegionPages, track \in BOOLEAN :
             UpdatePageWatchers(o, mask, track)
      BY <2>2 DEF WatchersNext
    <3> QED
      BY <2>2, <3>1, WatchStep
  <2> QED
    BY <2>1, <2>2
<1> QED
  BY <1>1, <1>2, PTL DEF WatchersSpec

(* host_gpu/pageManager.cpp, UpdateRegionWatchers: for a region of any     *)
(* size and any number of owners, whatever runs of pages the pass protects *)
(* with one call each, every page ends with the permissions its own        *)
(* watchers ask for, and the counts are those of its watchers.             *)
THEOREM PagesAreProtected ==
    WatcherAssumption => (WatchersSpec => [](WatchersTypeOK /\ ProtectionFollowsWatchers))
<1> SUFFICES ASSUME WatcherAssumption
             PROVE  WatchersSpec => [](WatchersTypeOK /\ ProtectionFollowsWatchers)
  OBVIOUS
<1>1. WatchInv => WatchersTypeOK /\ ProtectionFollowsWatchers
  BY DEF WatchInv
<1> QED
  BY <1>1, WatchAlways, PTL

-----------------------------------------------------------------------------
(* The stream buffer's ring never reuses a range in flight, for every      *)
(* size, atom, set of requests and number of ticks.                        *)

(* The bytes that no use of the present lap has reached.                   *)
Untouched(b) == \A i \in 1..Len(current) : b >= current[i].upper_bound

(* The watches of the present lap lie below m_offset, and m_offset is 0    *)
(* until the first of them.                                                *)
LapInv ==
    /\ \A i \in 1..Len(current) : current[i].upper_bound <= m_offset
    /\ current = <<>> => m_offset = 0

(* A watch of the present lap names a tick not before the uses of the      *)
(* bytes under it, and the last watch one not before any use.              *)
CurrentInv ==
    \A b \in RingBytes :
        /\ lastUse[b] <= currentTick
        /\ current # <<>> => lastUse[b] <= current[Len(current)].tick
        /\ \A i \in 1..Len(current) :
              b < current[i].upper_bound => lastUse[b] <= current[i].tick

(* The same of the previous lap, for the bytes the present lap has not     *)
(* reached.                                                                *)
PreviousInv ==
    \A b \in RingBytes : Untouched(b) =>
        /\ lastUse[b] <= (IF previous = <<>> THEN 0 ELSE previous[Len(previous)].tick)
        /\ \A i \in 1..Len(previous) :
              b < previous[i].upper_bound => lastUse[b] <= previous[i].tick

(* m_wait_bound is the bound of the last watch waited for, whose tick is   *)
(* over.                                                                   *)
WaitInv ==
    /\ m_wait_cursor = 0 => m_wait_bound = 0
    /\ m_wait_cursor > 0 => /\ m_wait_bound = previous[m_wait_cursor].upper_bound
                            /\ previous[m_wait_cursor].tick <= Finished

RingInv ==
    RingTypeOK /\ LapInv /\ CurrentInv /\ PreviousInv /\ WaitInv /\ NoReuseInFlight

-----------------------------------------------------------------------------
(* A list of watches: its elements, and when it is empty.                  *)
LEMMA Watches ==
    /\ <<>> \in Seq(Watch) /\ Len(<<>>) = 0
    /\ \A s \in Seq(Watch) :
          /\ Len(s) \in Nat /\ (Len(s) = 0 => s = <<>>)
          /\ \A i \in 1..Len(s) : /\ s[i] \in Watch /\ s[i].tick \in Nat
                                  /\ s[i].upper_bound \in Nat
<1>1. <<>> \in Seq(Watch) /\ Len(<<>>) = 0
  BY EmptySeq
<1>2. ASSUME NEW s \in Seq(Watch) PROVE Len(s) \in Nat /\ (Len(s) = 0 => s = <<>>)
  BY EmptySeq, LenProperties
<1>3. ASSUME NEW s \in Seq(Watch), NEW i \in 1..Len(s) PROVE s[i] \in Watch
  BY ElementOfSeq
<1>4. \A w \in Watch : w.tick \in Nat /\ w.upper_bound \in Nat
  BY DEF Watch
<1>5. QED
  BY <1>1, <1>2, <1>3, <1>4

(* A list of watches with one of them replaced.                            *)
LEMMA WatchReplaced ==
    ASSUME NEW s \in Seq(Watch), NEW n \in 1..Len(s), NEW w \in Watch
    PROVE  /\ [s EXCEPT ![n] = w] \in Seq(Watch)
           /\ Len([s EXCEPT ![n] = w]) = Len(s)
           /\ \A i \in 1..Len(s) : [s EXCEPT ![n] = w][i] = IF i = n THEN w ELSE s[i]
  BY ExceptSeq

(* AlignUp never goes back, and leaves 0 where it is.                      *)
LEMMA AlignUpBound ==
    ASSUME NEW v \in Nat, NEW a \in Nat
    PROVE  AlignUp(v, a) \in Nat /\ AlignUp(v, a) >= v /\ AlignUp(0, a) = 0
<1>1. CASE a = 0
  BY <1>1 DEF AlignUp
<1>2. CASE a > 0
  <2>1. v % a \in 0..(a - 1) /\ 0 % a = 0
    BY <1>2
  <2>2. QED
    BY <1>2, <2>1 DEF AlignUp
<1>3. QED
  BY <1>1, <1>2

(* A reservation is not empty and its alignment is a number.               *)
LEMMA Reserved ==
    ASSUME NEW r \in Requests
    PROVE  /\ ReservedSize(r) \in Nat \ {0}
           /\ ReservedAlignment(r) \subseteq Nat
<1>1. r.size \in Nat \ {0} /\ r.alignment \in Nat /\ Atom \in Nat \ {0} /\ Coherent \in BOOLEAN
  BY RingAssumption
<1>2. ReservedSize(r) \in Nat \ {0}
  BY <1>1, AlignUpBound DEF ReservedSize
<1>3. ReservedAlignment(r) \subseteq Nat
  <2>1. CommonMultiples(r.alignment, Atom) \subseteq Int
    BY DEF CommonMultiples
  <2>2. ASSUME NEW m \in CommonMultiples(r.alignment, Atom) PROVE m \in Nat
    BY <2>2 DEF CommonMultiples
  <2>3. QED
    BY <1>1, <2>2 DEF ReservedAlignment
<1>4. QED
  BY <1>2, <1>3

(* Where a reservation goes: inside the ring, behind the uses of its lap;  *)
(* a new lap follows one with uses.                                        *)
LEMMA Placement ==
    ASSUME RingTypeOK, LapInv, NEW size \in Nat \ {0}, NEW a \in Nat, size <= Size
    PROVE  LET p == Place(size, a)
           IN  /\ p.offset \in Nat /\ p.offset + size <= Size
               /\ p.wrap \in BOOLEAN
               /\ p.wrap => /\ current # <<>> /\ p.watches = current
                            /\ p.cursor = 0 /\ p.bound = 0 /\ p.offset = 0
               /\ ~p.wrap => /\ p.offset >= m_offset /\ p.watches = previous
                             /\ p.cursor = m_wait_cursor /\ p.bound = m_wait_bound
                             /\ current = <<>> => p.offset = 0
<1>1. Size \in Nat /\ m_offset \in 0..Size
  BY RingAssumption DEF RingTypeOK
<1>2. /\ AlignUp(m_offset, a) \in Nat /\ AlignUp(m_offset, a) >= m_offset
      /\ m_offset = 0 => AlignUp(m_offset, a) = 0
  BY <1>1, AlignUpBound
<1>3. QED
  BY <1>1, <1>2 DEF Place, LapInv

-----------------------------------------------------------------------------
(* The bytes of a reservation inside the ring are bytes of the ring.       *)
LEMMA ByteInside ==
    ASSUME NEW o \in Nat, NEW s \in Nat \ {0}, o + s <= Size, NEW b \in o..(o + s - 1)
    PROVE  b \in RingBytes /\ b < o + s
  BY RingAssumption DEF RingBytes

(* A reservation is made over uses that are finished.                      *)
LEMMA MapStep ==
    ASSUME RingInv, NEW r \in Requests, Map(r)
    PROVE  RingInv'
<1>1. PICK a \in ReservedAlignment(r) :
        LET size == ReservedSize(r)
            p    == Place(size, a)
        IN  /\ size <= Size
            /\ \E k \in p.cursor..Len(p.watches) :
                  /\ WaitsUpTo(p, size, k)
                  /\ WaitFor(IF k = p.cursor THEN 0 ELSE p.watches[k].tick)
                  /\ m_wait_cursor' = k
                  /\ m_wait_bound' = BoundAt(p, k)
            /\ IF p.wrap THEN previous' = current /\ current' = <<>>
               ELSE UNCHANGED <<previous, current>>
            /\ m_offset' = p.offset
            /\ m_mapped_size' = size
            /\ open' = TRUE
            /\ UNCHANGED lastUse
  BY Zenon DEF Map
<1> DEFINE size == ReservedSize(r)
           p    == Place(size, a)
<1>2. PICK k \in p.cursor..Len(p.watches) :
        /\ WaitsUpTo(p, size, k)
        /\ WaitFor(IF k = p.cursor THEN 0 ELSE p.watches[k].tick)
        /\ m_wait_cursor' = k
        /\ m_wait_bound' = BoundAt(p, k)
  BY <1>1
<1>3. size \in Nat \ {0} /\ size <= Size /\ a \in Nat
  BY <1>1, Reserved
<1>4. /\ p.offset \in Nat /\ p.offset + size <= Size
      /\ p.wrap \in BOOLEAN
      /\ p.wrap => /\ current # <<>> /\ p.watches = current
                   /\ p.cursor = 0 /\ p.bound = 0 /\ p.offset = 0
      /\ ~p.wrap => /\ p.offset >= m_offset /\ p.watches = previous
                    /\ p.cursor = m_wait_cursor /\ p.bound = m_wait_bound
                    /\ current = <<>> => p.offset = 0
  BY <1>3, Placement DEF RingInv
<1>5. /\ p.wrap => previous' = current /\ current' = <<>>
      /\ ~p.wrap => previous' = previous /\ current' = current
      /\ m_offset' = p.offset /\ m_mapped_size' = size /\ open' = TRUE /\ lastUse' = lastUse
  BY <1>1
<1> HIDE DEF size, p
<1>6. /\ currentTick \in Nat /\ gpuTick \in Nat /\ published \in Nat /\ Download \in BOOLEAN
      /\ current \in Seq(Watch) /\ previous \in Seq(Watch)
      /\ m_offset \in 0..Size /\ Size \in Nat \ {0}
      /\ m_wait_cursor \in 0..Len(previous) /\ m_wait_bound \in Nat
      /\ lastUse \in [RingBytes -> Nat]
  BY RingAssumption DEF RingInv, RingTypeOK
<1>7. previous' = p.watches /\ p.watches \in Seq(Watch)
  BY <1>4, <1>5, <1>6
<1>8. /\ k \in 0..Len(p.watches) /\ p.cursor \in 0..Len(p.watches) /\ p.cursor <= k
      /\ p.bound \in Nat
      /\ k > 0 => p.watches[k] \in Watch
  BY <1>2, <1>4, <1>6, <1>7
<1>9. /\ currentTick' \in Nat /\ gpuTick' \in Nat /\ published' \in Nat
      /\ currentTick' >= currentTick /\ gpuTick' >= gpuTick /\ published' >= published
      /\ k > p.cursor => p.watches[k].tick <= Finished'
  BY <1>2, <1>6, <1>8 DEF WaitFor, Later, Finished, Watch
<1>10. Finished \in Nat /\ Finished' \in Nat /\ Finished <= Finished'
  BY <1>6, <1>9 DEF Finished
<1>11. /\ p.cursor = 0 => p.bound = 0
       /\ p.cursor > 0 => /\ p.bound = p.watches[p.cursor].upper_bound
                          /\ p.watches[p.cursor].tick <= Finished
  BY <1>4, <1>6 DEF RingInv, WaitInv
<1>12. WaitInv'
  <2>1. m_wait_cursor' = k /\ previous' = p.watches /\ m_wait_bound' = BoundAt(p, k)
    BY <1>2, <1>7
  <2>2. k = p.cursor => BoundAt(p, k) = p.bound
    BY DEF BoundAt
  <2>3. k # p.cursor => BoundAt(p, k) = p.watches[k].upper_bound
    BY DEF BoundAt
  <2>4. CASE k = p.cursor
    <3>1. k > 0 => p.watches[k].tick \in Nat
      BY <1>8 DEF Watch
    <3>2. QED
      BY <2>1, <2>2, <2>4, <3>1, <1>8, <1>10, <1>11 DEF WaitInv
  <2>5. CASE k # p.cursor
    BY <2>1, <2>3, <2>5, <1>8, <1>9 DEF WaitInv
  <2>6. QED
    BY <2>4, <2>5
<1>13. LapInv'
  <2>1. CASE p.wrap
    BY <2>1, <1>4, <1>5, Watches DEF LapInv
  <2>2. CASE ~p.wrap
    BY <2>2, <1>4, <1>5, <1>6, Watches DEF RingInv, LapInv
  <2>3. QED
    BY <2>1, <2>2, <1>4
<1>14. CurrentInv'
  <2>1. CASE p.wrap
    BY <2>1, <1>4, <1>5, <1>6, <1>9 DEF RingInv, CurrentInv
  <2>2. CASE ~p.wrap
    BY <2>2, <1>4, <1>5, <1>6, <1>9 DEF RingInv, CurrentInv
  <2>3. QED
    BY <2>1, <2>2, <1>4
<1>15. PreviousInv'
  <2>1. CASE p.wrap
    BY <2>1, <1>4, <1>5, <1>6 DEF RingInv, CurrentInv, PreviousInv, Untouched
  <2>2. CASE ~p.wrap
    BY <2>2, <1>4, <1>5, <1>6 DEF RingInv, PreviousInv, Untouched
  <2>3. QED
    BY <2>1, <2>2, <1>4
<1>16. NoReuseInFlight'
  <2> SUFFICES ASSUME NEW b \in p.offset..(p.offset + size - 1)
               PROVE  lastUse[b] <= Finished'
    BY <1>5 DEF NoReuseInFlight
  <2>1. b \in RingBytes /\ b < p.offset + size /\ lastUse[b] \in Nat
    <3>1. b \in RingBytes /\ b < p.offset + size
      BY <1>3, <1>4, ByteInside
    <3>2. QED
      BY <3>1, <1>6
  <2>2. Untouched(b)'
    <3>1. /\ Len(current') \in Nat
          /\ \A i \in 1..Len(current') : current'[i].upper_bound \in Nat
                                        /\ current'[i].upper_bound <= p.offset
      BY <1>13, <1>4, <1>5, <1>6, Watches DEF LapInv
    <3>2. b >= p.offset
      BY <1>3, <1>4
    <3>3. QED
      BY <3>1, <3>2, <1>4, <1>3 DEF Untouched
  <2>3. /\ lastUse[b] <= (IF p.watches = <<>> THEN 0 ELSE p.watches[Len(p.watches)].tick)
        /\ \A i \in 1..Len(p.watches) :
              b < p.watches[i].upper_bound => lastUse[b] <= p.watches[i].tick
    BY <2>1, <2>2, <1>5, <1>7, <1>15 DEF PreviousInv
  <2>4. k > 0 => p.watches[k].tick \in Nat /\ p.watches[k].upper_bound \in Nat
    BY <1>8 DEF Watch
  <2>5. k > 0 => p.watches[k].tick <= Finished'
    BY <2>4, <1>8, <1>9, <1>10, <1>11
  <2>6. CASE k = Len(p.watches)
    <3>1. CASE k = 0
      <4>1. p.watches = <<>>
        BY <2>6, <3>1, <1>7, Watches
      <4>2. lastUse[b] <= 0
        BY <4>1, <2>3
      <4>3. QED
        BY <4>2, <2>1, <1>10
    <3>2. CASE k > 0
      BY <2>1, <2>3, <2>4, <2>5, <2>6, <3>2, <1>7, <1>10
    <3>3. QED
      BY <3>1, <3>2, <1>8
  <2>7. CASE Covered(p, size, k)
    <3>1. BoundAt(p, k) >= p.offset + size
      BY <2>7 DEF Covered
    <3>2. k > 0 /\ BoundAt(p, k) = p.watches[k].upper_bound
      <4>1. BoundAt(p, k) = p.bound => p.bound > 0
        <5>1. p.offset + size \in Nat \ {0}
          BY <1>3, <1>4
        <5>2. QED
          BY <3>1, <5>1, <1>8
      <4>2. CASE k = p.cursor
        <5>1. BoundAt(p, k) = p.bound
          BY <4>2 DEF BoundAt
        <5>2. p.cursor # 0
          BY <4>1, <5>1, <1>11
        <5>3. QED
          BY <4>2, <5>1, <5>2, <1>8, <1>11
      <4>3. CASE k # p.cursor
        BY <4>3, <1>8 DEF BoundAt
      <4>4. QED
        BY <4>2, <4>3
    <3>3. b < p.watches[k].upper_bound
      <4>1. p.watches[k].upper_bound >= p.offset + size /\ p.watches[k].upper_bound \in Nat
        BY <3>1, <3>2, <2>4
      <4>2. b \in Int /\ p.offset + size \in Nat
        BY <1>3, <1>4
      <4>3. QED
        BY <4>1, <4>2, <2>1
    <3>4. QED
      BY <3>2, <3>3, <2>1, <2>3, <2>4, <2>5, <1>8, <1>10
  <2>8. QED
    BY <2>6, <2>7, <1>2 DEF WaitsUpTo
<1>17. RingTypeOK'
  <2>1. m_offset' \in 0..Size /\ m_mapped_size' \in 0..Size /\ m_offset' + m_mapped_size' <= Size
    BY <1>3, <1>4, <1>5, <1>6
  <2>2. current' \in Seq(Watch) /\ previous' \in Seq(Watch)
    BY <1>4, <1>5, <1>6, <1>7, Watches
  <2>3. m_wait_cursor' \in 0..Len(previous') /\ m_wait_bound' \in Nat
    BY <1>2, <1>7, <1>8 DEF BoundAt, Watch
  <2>4. QED
    BY <2>1, <2>2, <2>3, <1>5, <1>6, <1>9 DEF RingTypeOK
<1>18. QED
  BY <1>12, <1>13, <1>14, <1>15, <1>16, <1>17 DEF RingInv

(* A committed range becomes a use of the current tick, under a watch.     *)
LEMMA CommitStep ==
    ASSUME RingInv, Commit
    PROVE  RingInv'
<1> DEFINE upper == m_offset + m_mapped_size
<1>1. /\ open /\ m_offset' = upper /\ open' = FALSE
      /\ previous' = previous /\ m_mapped_size' = m_mapped_size
      /\ m_wait_cursor' = m_wait_cursor /\ m_wait_bound' = m_wait_bound
      /\ currentTick' = currentTick /\ gpuTick' = gpuTick /\ published' = published
      /\ lastUse' = [b \in RingBytes |-> IF b >= m_offset /\ b < upper THEN currentTick
                                     ELSE lastUse[b]]
  BY DEF Commit, ticks
<1>2. /\ currentTick \in Nat /\ current \in Seq(Watch) /\ previous \in Seq(Watch)
      /\ m_offset \in 0..Size /\ m_mapped_size \in 0..Size /\ Size \in Nat \ {0}
      /\ upper <= Size /\ upper \in Nat /\ upper >= m_offset
      /\ lastUse \in [RingBytes -> Nat]
      /\ \A b \in RingBytes : b \in Nat
  BY <1>1, RingAssumption DEF RingInv, RingTypeOK, RingBytes
<1>3. /\ current' \in Seq(Watch) /\ Len(current') \in Nat \ {0}
      /\ current'[Len(current')] = [tick |-> currentTick, upper_bound |-> upper]
      /\ \A i \in 1..(Len(current') - 1) : i \in 1..Len(current) /\ current'[i] = current[i]
      /\ \A i \in 1..Len(current) : \/ i \in 1..(Len(current') - 1)
                                    \/ i = Len(current')
  <2>1. CASE NotedThisTick
    <3>1. /\ current' = [current EXCEPT ![Len(current)].upper_bound = upper]
          /\ Len(current) \in 1..Len(current) /\ current[Len(current)].tick = currentTick
      BY <2>1, <1>2 DEF Commit, NotedThisTick
    <3>2. current[Len(current)] \in Watch
      BY <3>1, <1>2
    <3>3. [current[Len(current)] EXCEPT !.upper_bound = upper]
              = [tick |-> currentTick, upper_bound |-> upper]
      BY <3>1, <3>2 DEF Watch
    <3>4. [tick |-> currentTick, upper_bound |-> upper] \in Watch
      BY <1>2 DEF Watch
    <3>5. current' = [current EXCEPT ![Len(current)] =
                         [tick |-> currentTick, upper_bound |-> upper]]
      BY <3>1, <3>3, Zenon
    <3>6. /\ current' \in Seq(Watch) /\ Len(current') = Len(current)
          /\ \A i \in 1..Len(current) :
                current'[i] = IF i = Len(current)
                              THEN [tick |-> currentTick, upper_bound |-> upper]
                              ELSE current[i]
      <4>1. ASSUME NEW w \in Watch, current' = [current EXCEPT ![Len(current)] = w]
            PROVE  /\ current' \in Seq(Watch) /\ Len(current') = Len(current)
                   /\ \A i \in 1..Len(current) :
                         current'[i] = IF i = Len(current) THEN w ELSE current[i]
        <5>1. /\ [current EXCEPT ![Len(current)] = w] \in Seq(Watch)
              /\ Len([current EXCEPT ![Len(current)] = w]) = Len(current)
              /\ \A i \in 1..Len(current) : [current EXCEPT ![Len(current)] = w][i]
                                             = IF i = Len(current) THEN w ELSE current[i]
          <6>1. current \in Seq(Watch) /\ Len(current) \in 1..Len(current)
            BY <3>1, <1>2
          <6>2. QED
            BY <6>1, WatchReplaced, SMT
        <5>2. QED
          BY <4>1, <5>1, Zenon
      <4>2. QED
        BY <3>4, <3>5, <4>1, Zenon
    <3>7. QED
      BY <3>1, <3>6
  <2>2. CASE ~NotedThisTick
    <3>1. current' = Append(current, [tick |-> currentTick, upper_bound |-> upper])
      BY <2>2 DEF Commit
    <3>2. [tick |-> currentTick, upper_bound |-> upper] \in Watch
      BY <1>2 DEF Watch
    <3>3. QED
      BY <3>1, <3>2, <1>2
  <2>3. QED
    BY <2>1, <2>2
<1> HIDE DEF upper
<1>4. \A i \in 1..Len(current) : current[i] \in Watch /\ current[i].upper_bound <= m_offset
  BY <1>2 DEF RingInv, LapInv
<1>5. RingTypeOK'
  <2>1. lastUse' \in [RingBytes -> Nat]
    BY <1>1, <1>2
  <2>2. m_offset' \in 0..Size /\ open' = FALSE
    BY <1>1, <1>2
  <2>3. QED
    BY <2>1, <2>2, <1>1, <1>3 DEF RingInv, RingTypeOK
<1>6. LapInv'
  <2>1. current' # <<>>
    BY <1>3
  <2>2. ASSUME NEW i \in 1..Len(current') PROVE current'[i].upper_bound <= upper
    <3>1. CASE i = Len(current')
      BY <3>1, <1>2, <1>3
    <3>2. CASE i \in 1..(Len(current') - 1)
      <4>1. current'[i] = current[i] /\ current[i] \in Watch /\ current[i].upper_bound <= m_offset
        BY <3>2, <1>3, <1>4
      <4>2. QED
        BY <4>1, <1>2 DEF Watch
    <3>3. QED
      BY <3>1, <3>2, <1>3
  <2>3. QED
    BY <2>1, <2>2, <1>1 DEF LapInv
<1>7. CurrentInv'
  <2> SUFFICES ASSUME NEW b \in RingBytes
               PROVE  /\ lastUse'[b] <= currentTick
                      /\ lastUse'[b] <= current'[Len(current')].tick
                      /\ \A i \in 1..Len(current') :
                            b < current'[i].upper_bound => lastUse'[b] <= current'[i].tick
    BY <1>1 DEF CurrentInv
  <2>1. lastUse'[b] \in Nat /\ lastUse'[b] <= currentTick
    BY <1>1, <1>2 DEF RingInv, CurrentInv
  <2>2. current'[Len(current')].tick = currentTick
    BY <1>3
  <2>3. ASSUME NEW i \in 1..(Len(current') - 1), b < current'[i].upper_bound
        PROVE  lastUse'[b] <= current'[i].tick
    <3>1. i \in 1..Len(current) /\ current'[i] = current[i]
      BY <1>3
    <3>2. current[i] \in Watch /\ b < m_offset
      <4>1. /\ current[i] \in Watch /\ current[i].upper_bound <= m_offset
            /\ current[i].upper_bound \in Nat
        BY <3>1, <1>4 DEF Watch
      <4>2. b < current[i].upper_bound /\ b \in Int
        BY <2>3, <3>1 DEF RingBytes
      <4>3. m_offset \in Nat
        BY <1>2
      <4>4. QED
        BY <4>1, <4>2, <4>3
    <3>3. lastUse'[b] = lastUse[b]
      BY <3>2, <1>1, <1>2
    <3>4. QED
      BY <2>3, <3>1, <3>3 DEF RingInv, CurrentInv
  <2>4. \A i \in 1..Len(current') : i = Len(current') \/ i \in 1..(Len(current') - 1)
    BY <1>3
  <2>5. QED
    BY <2>1, <2>2, <2>3, <2>4
<1>8. PreviousInv'
  <2> SUFFICES ASSUME NEW b \in RingBytes, Untouched(b)'
               PROVE  Untouched(b) /\ lastUse'[b] = lastUse[b]
    BY <1>1 DEF RingInv, PreviousInv
  <2>1. b >= upper
    <3>1. Len(current') \in 1..Len(current')
      BY <1>3
    <3>2. QED
      BY <3>1, <1>3 DEF Untouched
  <2>2. lastUse'[b] = lastUse[b]
    BY <2>1, <1>1, <1>2
  <2>3. ASSUME NEW i \in 1..Len(current) PROVE b >= current[i].upper_bound
    BY <2>1, <1>2, <1>4, Watches
  <2>4. QED
    BY <2>2, <2>3 DEF Untouched
<1>9. WaitInv' /\ NoReuseInFlight'
  BY <1>1 DEF RingInv, WaitInv, NoReuseInFlight, Finished
<1>10. QED
  BY <1>5, <1>6, <1>7, <1>8, <1>9 DEF RingInv

(* Ticks only advance.                                                     *)
LEMMA TickStep ==
    ASSUME RingInv, Submit \/ Retire \/ RunCallbacks
    PROVE  RingInv'
<1>1. /\ m_offset' = m_offset /\ m_mapped_size' = m_mapped_size /\ current' = current
      /\ previous' = previous /\ m_wait_cursor' = m_wait_cursor /\ m_wait_bound' = m_wait_bound
      /\ open' = open /\ lastUse' = lastUse
  BY DEF Submit, Retire, RunCallbacks, ring
<1>2. /\ currentTick \in Nat /\ gpuTick \in Nat /\ published \in Nat
      /\ lastUse \in [RingBytes -> Nat] /\ previous \in Seq(Watch)
      /\ m_wait_cursor \in 0..Len(previous) /\ Size \in Nat
      /\ m_offset \in 0..Size /\ m_mapped_size \in 0..Size
      /\ open => m_offset + m_mapped_size <= Size
  BY RingAssumption DEF RingInv, RingTypeOK
<1>3. /\ currentTick' \in Nat /\ gpuTick' \in Nat /\ published' \in Nat
      /\ currentTick' >= currentTick /\ gpuTick' >= gpuTick /\ published' >= published
  BY <1>2 DEF Submit, Retire, RunCallbacks
<1>4. Finished \in Nat /\ Finished' \in Nat /\ Finished' >= Finished
  BY <1>2, <1>3 DEF Finished
<1>5. RingTypeOK'
  BY <1>1, <1>3 DEF RingInv, RingTypeOK
<1>6. LapInv' /\ PreviousInv'
  BY <1>1 DEF RingInv, LapInv, PreviousInv, Untouched
<1>7. CurrentInv'
  BY <1>1, <1>2, <1>3 DEF RingInv, CurrentInv
<1>8. WaitInv'
  <2>1. m_wait_cursor > 0 => previous[m_wait_cursor].tick \in Nat
    BY <1>2, Watches
  <2>2. QED
    BY <1>1, <1>4, <2>1, <1>2 DEF RingInv, WaitInv
<1>9. NoReuseInFlight'
  <2>1. open => \A b \in m_offset..(m_offset + m_mapped_size - 1) : lastUse[b] \in Nat
    BY <1>2 DEF RingBytes
  <2>2. QED
    BY <1>1, <1>4, <2>1 DEF RingInv, NoReuseInFlight
<1>10. QED
  BY <1>5, <1>6, <1>7, <1>8, <1>9 DEF RingInv

(* A refused reservation, or no step at all, changes nothing.              *)
LEMMA Stutter ==
    ASSUME RingInv, UNCHANGED ringVars
    PROVE  RingInv'
  BY DEF RingInv, RingTypeOK, LapInv, CurrentInv, PreviousInv, Untouched, WaitInv, NoReuseInFlight,
         Finished, ringVars, ring, ticks

(* The strengthened invariant of Map and Commit holds of every behaviour.  *)
THEOREM Invariance == RingSpec => []RingInv
<1>1. RingInit => RingInv
  <2> SUFFICES ASSUME RingInit PROVE RingInv
    OBVIOUS
  <2>1. RingTypeOK
    <3>1. lastUse \in [RingBytes -> Nat]
      BY DEF RingInit
    <3>2. current \in Seq(Watch) /\ previous \in Seq(Watch) /\ Len(previous) = 0
      BY Watches DEF RingInit
    <3>3. /\ m_offset \in 0..Size /\ m_mapped_size \in 0..Size /\ 0 + 0 <= Size
          /\ m_wait_cursor \in 0..0 /\ m_wait_bound \in Nat
          /\ currentTick \in Nat /\ gpuTick \in Nat /\ published \in Nat
      BY RingAssumption DEF RingInit
    <3>4. open = FALSE
      BY DEF RingInit
    <3>5. QED
      BY <3>1, <3>2, <3>3, <3>4 DEF RingTypeOK
  <2>2. LapInv /\ CurrentInv /\ PreviousInv /\ WaitInv /\ NoReuseInFlight
    BY RingAssumption DEF RingInit, LapInv, CurrentInv, PreviousInv, WaitInv, NoReuseInFlight
  <2>3. QED
    BY <2>1, <2>2 DEF RingInv
<1>2. RingInv /\ [RingNext]_ringVars => RingInv'
  <2> SUFFICES ASSUME RingInv, [RingNext]_ringVars PROVE RingInv'
    OBVIOUS
  <2>1. CASE UNCHANGED ringVars
    BY <2>1, Stutter
  <2>2. ASSUME NEW r \in Requests, Map(r) PROVE RingInv'
    BY <2>2, MapStep
  <2>3. ASSUME NEW r \in Requests, MapRefused(r) PROVE RingInv'
    BY <2>3, Stutter DEF MapRefused
  <2>4. CASE Commit
    BY <2>4, CommitStep
  <2>5. CASE Submit \/ Retire \/ RunCallbacks
    BY <2>5, TickStep
  <2>6. QED
    BY <2>1, <2>2, <2>3, <2>4, <2>5 DEF RingNext
<1>3. QED
  BY <1>1, <1>2, PTL DEF RingSpec

(* No range Map returns is still used by an unfinished tick, for every     *)
(* ring, request and number of ticks (StreamBuffer::Map).                  *)
THEOREM NoReuse == RingSpec => [](RingTypeOK /\ NoReuseInFlight)
<1>1. RingInv => RingTypeOK /\ NoReuseInFlight
  BY DEF RingInv
<1>2. QED
  BY <1>1, Invariance, PTL

-----------------------------------------------------------------------------
(* Whole atoms.  The atom is any positive number, so the arithmetic is not *)
(* linear: a multiple of the atom is written as the atom times a number.   *)

(* Multiplication by a positive number keeps the order.                    *)
LEMMA TimesOrder ==
    ASSUME NEW a \in Nat \ {0}, NEW x \in Int, NEW y \in Int
    PROVE  /\ x <= y => a * x <= a * y
           /\ a * x < a * y => x < y
           /\ a * (x + 1) = a * x + a
<1>1. x <= y => a * x <= a * y
  <2>1. a * y = a * x + a * (y - x)
    OBVIOUS
  <2>2. x <= y => a * (y - x) >= 0
    OBVIOUS
  <2>3. QED
    BY <2>1, <2>2
<1>2. y <= x => a * y <= a * x
  <2>1. a * x = a * y + a * (x - y)
    OBVIOUS
  <2>2. y <= x => a * (x - y) >= 0
    OBVIOUS
  <2>3. QED
    BY <2>1, <2>2
<1>3. a * (x + 1) = a * x + a
  OBVIOUS
<1>4. QED
  BY <1>1, <1>2, <1>3

(* Quotient and remainder.                                                 *)
LEMMA DivMod ==
    ASSUME NEW v \in Nat, NEW a \in Nat \ {0}
    PROVE  /\ v \div a \in Nat /\ v % a \in 0..(a - 1)
           /\ v = a * (v \div a) + (v % a)
           /\ \E i \in Nat, e \in 0..(a - 1) :
                 i = v \div a /\ e = v % a /\ v = a * i + e
<1>1. /\ v \div a \in Nat /\ v % a \in 0..(a - 1)
      /\ v = a * (v \div a) + (v % a)
  OBVIOUS
<1>2. QED
  BY <1>1, Zenon

(* A number is where its atom starts and an offset in it.                  *)
LEMMA InAtom ==
    ASSUME NEW v \in Nat, NEW a \in Nat \ {0}, NEW n \in Nat, n = v \div a
    PROVE  \E m \in Nat, e \in 0..(a - 1) : m = a * n /\ v = m + e
<1>1. PICK m \in Nat : m = a * n
  OBVIOUS
<1>2. PICK e \in 0..(a - 1) : e = v % a
  BY DivMod
<1>3. v = m + e
  BY <1>1, <1>2, DivMod
<1>4. QED
  BY <1>1, <1>3

(* A number is a multiple of a exactly when it leaves no remainder.        *)
LEMMA Multiples ==
    ASSUME NEW v \in Nat, NEW a \in Nat \ {0}
    PROVE  v % a = 0 <=> \E q \in Nat : v = a * q
<1>1. ASSUME v % a = 0 PROVE \E q \in Nat : v = a * q
  <2>1. PICK k \in Nat, m \in 0..(a - 1) : k = v \div a /\ m = v % a /\ v = a * k + m
    BY DivMod
  <2>2. v = a * k
    BY <1>1, <2>1
  <2>3. QED
    BY <2>2
<1>2. ASSUME NEW q \in Nat, v = a * q PROVE v % a = 0
  <2>1. PICK k \in Nat : k = v \div a
    BY DivMod
  <2>2. PICK m \in 0..(a - 1) : m = v % a /\ a * q = a * k + m
    BY <1>2, <2>1, DivMod
  <2>3. a * q < a * (k + 1)
    BY <2>2, TimesOrder
  <2>4. q < k + 1
    BY <2>3, TimesOrder
  <2>5. a * k <= a * q
    BY <2>2
  <2>6. k <= q
    <3>1. CASE q < k
      <4>1. a * (q + 1) <= a * k
        BY <3>1, TimesOrder
      <4>2. a * (q + 1) = a * q + a
        BY TimesOrder
      <4>3. QED
        BY <2>5, <4>1, <4>2
    <3>2. QED
      BY <3>1
  <2>7. q = k
    BY <2>4, <2>6
  <2>8. QED
    BY <2>2, <2>7
<1>3. QED
  BY <1>1, <1>2

(* AlignUp reaches a multiple of the alignment, and of what divides it.    *)
LEMMA AlignUpMultiple ==
    ASSUME NEW v \in Nat, NEW m \in Nat \ {0}, NEW a \in Nat \ {0}, m % a = 0
    PROVE  AlignUp(v, m) % a = 0
<1>1. PICK j \in Nat : m = a * j
  BY Multiples
<1>2. \E q \in Nat : AlignUp(v, m) = m * q
  <2>1. CASE v % m = 0
    BY <2>1, Multiples DEF AlignUp
  <2>2. CASE v % m # 0
    <3>1. AlignUp(v, m) = v + (m - (v % m))
      BY <2>2 DEF AlignUp
    <3>2. PICK k \in Nat, e \in 0..(m - 1) : k = v \div m /\ e = v % m /\ v = m * k + e
      BY DivMod
    <3>3. AlignUp(v, m) = m * k + m
      BY <3>1, <3>2
    <3>4. m * (k + 1) = m * k + m
      BY TimesOrder
    <3>5. QED
      BY <3>3, <3>4
  <2>3. QED
    BY <2>1, <2>2
<1>3. PICK q \in Nat : AlignUp(v, m) = m * q
  BY <1>2
<1>4. AlignUp(v, m) = a * (j * q) /\ j * q \in Nat
  BY <1>1, <1>3
<1>5. AlignUp(v, m) \in Nat
  BY AlignUpBound
<1>6. QED
  BY <1>4, <1>5, Multiples

(* A byte of the atom of a byte at or behind a boundary is behind it too.  *)
LEMMA SameAtom ==
    ASSUME NEW a \in Nat \ {0}, NEW b \in Nat, NEW c \in Nat, NEW o \in Nat,
           o % a = 0, b \div a = c \div a
    PROVE  b >= o <=> c >= o
<1>1. PICK k \in Nat : o = a * k
  BY Multiples
<1>2. PICK n \in Nat : n = b \div a /\ n = c \div a
  BY DivMod
<1>3. /\ b >= a * n /\ b < a * n + a
      /\ c >= a * n /\ c < a * n + a
  <2>1. PICK m \in Nat, e \in 0..(a - 1) : m = a * n /\ b = m + e
    BY <1>2, InAtom
  <2>2. PICK l \in Nat, f \in 0..(a - 1) : l = a * n /\ c = l + f
    BY <1>2, InAtom
  <2>3. c = m + f
    BY <2>1, <2>2
  <2>4. /\ b >= m /\ b < m + a
        /\ c >= m /\ c < m + a
    BY <2>1, <2>3
  <2>5. QED
    BY <2>1, <2>4
<1>4. CASE k <= n
  <2>1. PICK m \in Nat : m = a * n
    OBVIOUS
  <2>2. o <= m
    BY <1>1, <1>4, <2>1, TimesOrder
  <2>3. QED
    BY <1>3, <2>1, <2>2
<1>5. CASE n < k
  <2>1. PICK m \in Nat : m = a * n
    OBVIOUS
  <2>2. a * (n + 1) = m + a
    BY <2>1
  <2>3. m + a <= o
    BY <1>1, <1>5, <2>2, TimesOrder
  <2>4. QED
    BY <1>3, <2>1, <2>3
<1>6. QED
  BY <1>4, <1>5

(* On memory that is not coherent an open reservation is whole atoms.      *)
WholeAtoms == (open /\ ~Coherent) => m_offset % Atom = 0 /\ m_mapped_size % Atom = 0

(* NormalizeReservation makes it so, wherever Map puts it.                 *)
LEMMA MapWholeAtoms ==
    ASSUME RingInv, NEW r \in Requests, Map(r), ~Coherent
    PROVE  m_offset' % Atom = 0 /\ m_mapped_size' % Atom = 0
<1>1. PICK a \in ReservedAlignment(r) :
        /\ m_offset' = Place(ReservedSize(r), a).offset
        /\ m_mapped_size' = ReservedSize(r)
  BY Zenon DEF Map
<1>2. r.size \in Nat /\ r.alignment \in Nat /\ Atom \in Nat \ {0} /\ m_offset \in Nat
  BY RingAssumption DEF RingInv, RingTypeOK
<1>3. Atom % Atom = 0 /\ 0 % Atom = 0
  BY <1>2
<1>4. ReservedSize(r) % Atom = 0
  BY <1>2, <1>3, AlignUpMultiple DEF ReservedSize
<1>5. a \in Nat \ {0} /\ a % Atom = 0
  BY <1>2, <1>3 DEF ReservedAlignment, CommonMultiples
<1>6. AlignUp(m_offset, a) % Atom = 0
  BY <1>2, <1>5, AlignUpMultiple
<1>7. Place(ReservedSize(r), a).offset \in {0, AlignUp(m_offset, a)}
  BY DEF Place
<1>8. QED
  BY <1>1, <1>3, <1>4, <1>6, <1>7

(* Flushing or invalidating a reservation touches no byte still in use:    *)
(* its atoms are its own, and its bytes are free.                          *)
THEOREM AtomsAreIsolated == RingSpec => []AtomsIsolated
<1>1. RingInit => WholeAtoms
  BY DEF RingInit, WholeAtoms
<1>2. ASSUME RingInv, WholeAtoms, [RingNext]_ringVars PROVE WholeAtoms'
  <2>1. CASE UNCHANGED ringVars
    BY <1>2, <2>1 DEF ringVars, ring, WholeAtoms
  <2>2. ASSUME NEW r \in Requests, Map(r) PROVE WholeAtoms'
    BY <1>2, <2>2, MapWholeAtoms DEF WholeAtoms
  <2>3. ASSUME NEW r \in Requests, MapRefused(r) PROVE WholeAtoms'
    BY <2>1, <2>3 DEF MapRefused
  <2>4. CASE Commit
    BY <2>4 DEF Commit, WholeAtoms
  <2>5. CASE Submit \/ Retire \/ RunCallbacks
    BY <1>2, <2>5 DEF Submit, Retire, RunCallbacks, ring, WholeAtoms
  <2>6. QED
    BY <1>2, <2>1, <2>2, <2>3, <2>4, <2>5 DEF RingNext
<1>3. ASSUME RingInv, WholeAtoms PROVE AtomsIsolated
  <2> SUFFICES ASSUME open, ~Coherent,
                      NEW b \in m_offset..(m_offset + m_mapped_size - 1), NEW c \in RingBytes,
                      b \div Atom = c \div Atom
               PROVE  lastUse[c] <= Finished
    BY DEF AtomsIsolated
  <2>1. /\ Atom \in Nat \ {0} /\ m_offset \in Nat /\ m_mapped_size \in Nat
        /\ m_offset % Atom = 0 /\ m_mapped_size % Atom = 0
    BY <1>3, RingAssumption DEF RingInv, RingTypeOK, WholeAtoms
  <2>2. PICK up \in Nat : up = m_offset + m_mapped_size
    BY <2>1
  <2>3. up % Atom = 0
    <3>1. PICK j \in Nat, k \in Nat : m_offset = Atom * j /\ m_mapped_size = Atom * k
      BY <2>1, Multiples
    <3>2. up = Atom * (j + k) /\ j + k \in Nat
      BY <2>1, <2>2, <3>1
    <3>3. QED
      BY <2>1, <3>2, Multiples
  <2>4. b \in Nat /\ c \in Nat /\ b >= m_offset /\ ~(b >= up)
    BY <2>1, <2>2, RingAssumption DEF RingBytes
  <2>5. c >= m_offset /\ ~(c >= up)
    BY <2>1, <2>2, <2>3, <2>4, SameAtom
  <2>6. c \in m_offset..(m_offset + m_mapped_size - 1)
    BY <2>1, <2>2, <2>4, <2>5
  <2>7. QED
    BY <1>3, <2>6 DEF RingInv, NoReuseInFlight
<1>4. QED
  BY <1>1, <1>2, <1>3, Invariance, PTL DEF RingSpec
=============================================================================
