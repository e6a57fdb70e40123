---------------------------- MODULE PageWatchers ----------------------------
(***************************************************************************)
(* PageManager (host_gpu/pageManager.cpp): owners, the buffer tracker and  *)
(* every tracked image, count themselves in and out as watchers of a       *)
(* page's writes or of every access to it, and the host's protection of    *)
(* the page follows the counts.  UpdateRegionWatchers changes the counts   *)
(* in one pass, and protects runs of pages with one call each: a run may   *)
(* pass over pages that need no change, as long as their permissions are   *)
(* those of the run.                                                       *)
(*                                                                         *)
(* The region's lock is held throughout, so an update is one step.  An     *)
(* owner adds only pages it does not watch (RegionManager's mask is the    *)
(* difference of two bitmaps).                                             *)
(***************************************************************************)
EXTENDS Integers, FiniteSets

CONSTANTS
    RegionPages,        \* of one region: 1..n
    WriteWatchers,      \* owners that watch writes
    AccessWatchers      \* owners that watch every access

WatcherAssumption ==
    /\ IsFiniteSet(RegionPages) /\ RegionPages = 1..Cardinality(RegionPages)
    /\ IsFiniteSet(WriteWatchers) /\ IsFiniteSet(AccessWatchers)
    /\ WriteWatchers \cap AccessWatchers = {}

VARIABLES
    write_watchers, access_watchers,    \* per page
    watched,                            \* per owner: its pages
    protection                          \* of the host's pages

watcherVars == <<write_watchers, access_watchers, watched, protection>>

Owners == WriteWatchers \cup AccessWatchers

Perms(w, a) == IF a # 0 THEN "none" ELSE IF w # 0 THEN "read" ELSE "read_write"

WatchersInit ==
    /\ write_watchers = [p \in RegionPages |-> 0] /\ access_watchers = [p \in RegionPages |-> 0]
    /\ watched = [o \in Owners |-> {}]
    /\ protection = [p \in RegionPages |-> "read_write"]

-----------------------------------------------------------------------------
(* The pass: "protected" is the outcome of the calls so far, "perms" the   *)
(* permissions of the pages at the cursor, [begin, begin + size) the run   *)
(* that waits to be protected and "potential" its size if it goes on.      *)
Release(run) ==
    IF run.size = 0 THEN run
    ELSE [run EXCEPT !.size = 0, !.potential = 0,
             !.protected = [p \in RegionPages |-> IF p \in run.begin..(run.begin + run.size - 1)
                                                  THEN run.perms
                                                  ELSE run.protected[p]]]

(* Mutant: the run goes on over pages with other permissions.              *)
AtPageUnbroken(run, perms) ==
    IF run.size # 0 THEN [run EXCEPT !.potential = @ + 1] ELSE [run EXCEPT !.perms = perms]

AtPage(run, perms) ==
    IF perms # run.perms THEN [Release(run) EXCEPT !.perms = perms]
    ELSE IF run.size # 0 THEN [run EXCEPT !.potential = @ + 1] ELSE run

(* A page whose permissions change opens the run or extends it this far.   *)
Extend(run, p) ==
    LET open == IF run.size = 0 THEN [run EXCEPT !.begin = p, !.potential = 1] ELSE run
    IN  [open EXCEPT !.size = open.potential]

(* The counts "w" and "a" are those after the update of the pages "mask".  *)
(* A count that was zero, or is zero again, is the watcher's edge.         *)
Step(mask, track, read, w, a, run, p) ==
    LET at    == AtPage(run, Perms(w[p], a[p]))
        count == IF read THEN a[p] ELSE w[p]
        old   == IF track THEN count - 1 ELSE count + 1
        edge  == count = IF track THEN 1 ELSE 0
        changes == (IF read THEN Perms(w[p], old) ELSE Perms(old, a[p])) # Perms(w[p], a[p])
    IN  IF p \in mask /\ edge /\ changes THEN Extend(at, p) ELSE at

UpdateRegionWatchers(mask, track, read, w, a) ==
    LET first == CHOOSE p \in mask : \A q \in mask : p <= q
        last  == CHOOSE p \in mask : \A q \in mask : p >= q
        start == [protected |-> protection, begin |-> 0, size |-> 0, potential |-> 0,
                  perms |-> Perms(write_watchers[first], access_watchers[first])]
        run[p \in (first - 1)..last] ==
            IF p < first THEN start ELSE Step(mask, track, read, w, a, run[p - 1], p)
    IN  Release(run[last]).protected

-----------------------------------------------------------------------------
Counts(counts, mask, track) ==
    [p \in RegionPages |-> IF p \notin mask THEN counts[p]
                           ELSE IF track THEN counts[p] + 1 ELSE counts[p] - 1]

UpdatePageWatchers(o, mask, track) ==
    LET read == o \in AccessWatchers
        w == IF read THEN write_watchers ELSE Counts(write_watchers, mask, track)
        a == IF read THEN Counts(access_watchers, mask, track) ELSE access_watchers
    IN  /\ mask # {}
        /\ IF track THEN mask \cap watched[o] = {} ELSE mask \subseteq watched[o]
        /\ write_watchers' = w /\ access_watchers' = a
        /\ watched' = [watched EXCEPT ![o] = IF track THEN @ \cup mask ELSE @ \ mask]
        /\ protection' = UpdateRegionWatchers(mask, track, read, w, a)

WatchersNext == \E o \in Owners, mask \in SUBSET RegionPages, track \in BOOLEAN :
                   UpdatePageWatchers(o, mask, track)

WatchersSpec == WatchersInit /\ [][WatchersNext]_watcherVars

-----------------------------------------------------------------------------
(* Types; nobody is counted twice or forgotten.                            *)
WatchersTypeOK ==
    \A p \in RegionPages :
       /\ write_watchers[p] = Cardinality({o \in WriteWatchers : p \in watched[o]})
       /\ access_watchers[p] = Cardinality({o \in AccessWatchers : p \in watched[o]})
       /\ protection[p] \in {"none", "read", "read_write"}

(* Every host page is protected as its watchers ask, however their ranges  *)
(* overlap and whatever runs the pass made of them: a page someone watches *)
(* is never left open, and one nobody watches never faults.                *)
ProtectionFollowsWatchers ==
    \A p \in RegionPages : protection[p] = Perms(write_watchers[p], access_watchers[p])
=============================================================================
