-------------------------- MODULE MCLocksAndMemory --------------------------
(***************************************************************************)
(* Seven components side by side: a read-back ring, a guest mutex with its *)
(* condition variable, a read-write lock, an address to wait on, the       *)
(* GPU's copies of guest memory, the watchers of a region's pages and the  *)
(* tables of the guest's virtual memory.                                   *)
(* They share no state, so every behaviour is one of a single component,   *)
(* which subject names, and the others keep their initial state.           *)
(***************************************************************************)
EXTENDS StreamBuffer, PthreadMutex, PthreadRwlock, SyncOnAddress, BufferCache, PageWatchers,
        GuestMemory

(* Reservations that fit, fill the ring, and exceed it.                    *)
DownloadRequests == [size : {1, 3, 4}, alignment : {0, 3}, allow_wait : BOOLEAN]
                    \cup [size : {8, 9}, alignment : {2}, allow_wait : {TRUE}]

VARIABLE subject

(* What the proofs about these components assume of their constants.       *)
ASSUME MutexAssumption
ASSUME RwlockAssumption
ASSUME AddressAssumption
ASSUME CacheAssumption
ASSUME WatcherAssumption
ASSUME MemoryAssumption

allVars == <<subject, ringVars, mutexVars, rwlockVars, addressVars, cacheVars, watcherVars,
             memoryVars>>

SumInit ==
    /\ subject \in {"ring", "mutex", "rwlock", "address", "cache", "watchers", "memory"}
    /\ RingInit /\ MutexInit /\ RwlockInit /\ AddressInit /\ CacheInit /\ WatchersInit
    /\ MemoryInit
    /\ subject # "mutex" => type = "normal"
    /\ subject # "address" => word = 0

SumNext ==
    /\ UNCHANGED subject
    /\ \/ /\ subject = "ring" /\ RingNext
          /\ UNCHANGED <<mutexVars, rwlockVars, addressVars, cacheVars, watcherVars, memoryVars>>
       \/ /\ subject = "mutex" /\ MutexNext
          /\ UNCHANGED <<ringVars, rwlockVars, addressVars, cacheVars, watcherVars, memoryVars>>
       \/ /\ subject = "rwlock" /\ RwlockNext
          /\ UNCHANGED <<ringVars, mutexVars, addressVars, cacheVars, watcherVars, memoryVars>>
       \/ /\ subject = "address" /\ AddressNext
          /\ UNCHANGED <<ringVars, mutexVars, rwlockVars, cacheVars, watcherVars, memoryVars>>
       \/ /\ subject = "cache" /\ CacheNext
          /\ UNCHANGED <<ringVars, mutexVars, rwlockVars, addressVars, watcherVars, memoryVars>>
       \/ /\ subject = "watchers" /\ WatchersNext
          /\ UNCHANGED <<ringVars, mutexVars, rwlockVars, addressVars, cacheVars, memoryVars>>
       \/ /\ subject = "memory" /\ MemoryNext
          /\ UNCHANGED <<ringVars, mutexVars, rwlockVars, addressVars, cacheVars, watcherVars>>

SumSpec == SumInit /\ [][SumNext]_allVars

(* The states have the types of their structures' members.                 *)
TypesOK == RingTypeOK /\ MutexTypeOK /\ RwlockTypeOK /\ AddressTypeOK /\ CacheTypeOK
           /\ WatchersTypeOK /\ MemoryTypeOK
=============================================================================
