---------------------------- MODULE GuestThreads ----------------------------
(***************************************************************************)
(* The life of guest threads (kernel/pthread.cpp): the pool of             *)
(* PthreadPrivate slots, their guest stacks, PthreadCreate, PthreadJoin,   *)
(* PthreadDetach, the end of a thread and the thread that frees detached   *)
(* ones.                                                                   *)
(*                                                                         *)
(* Slots and stacks are used again.  The flags of a slot are atomics that  *)
(* are read and written without a lock, so every store is a step, and so   *)
(* is every load of the scan for finished detached threads.  Only the      *)
(* search for a slot and that scan, its joins included, hold the pool's    *)
(* mutex.  The guest joins or detaches a thread at most once, as it must.  *)
(***************************************************************************)
EXTENDS Naturals, FiniteSets

CONSTANTS
    Callers,      \* guest threads that create, join and detach
    Slots,        \* bounds m_threads
    MaxStacks,    \* guest stacks that fit between PTHREAD_STACK_BOTTOM and TOP
    MaxLives      \* bound on calls of PthreadCreate

PoolAssumption ==
    "reaper" \notin Callers /\ Slots # {} /\ MaxStacks \in Nat /\ MaxLives \in Nat

VARIABLES
    m_threads,    \* the slots that exist
    free, detached, almost_done,      \* flags, per slot
    host,         \* per slot: its host thread
    stack,        \* per slot: attr->stack_map_addr, 0 for none or the user's
    cache,        \* g_guest_stack_cache
    mapped,       \* stacks taken from g_guest_stack_last so far
    unmapped,     \* stacks given back to the kernel when their guard failed
    on,           \* history, per slot: the stack its host thread runs on
    gt_pc,        \* per actor: its place in a call
    target,       \* per actor: the slot it works on
    claimed,      \* slots whose thread the guest has joined or detached
    scan,         \* the flag of target["reaper"] that the scan reads next
    mistaken,     \* slots where the reaper joined a thread that the guest neither
                  \* joined nor detached, and may still do so
    undefined,    \* TRUE when one thread was joined twice, or after it was gone
    lives         \* calls of PthreadCreate

flags  == <<free, detached, almost_done>>
stacks == <<stack, cache, mapped, unmapped>>
reaper == <<scan, mistaken, undefined>>
poolVars == <<m_threads, flags, host, stacks, on, gt_pc, target, claimed, reaper, lives>>

Actors == Callers \cup {"reaper"}

Goto(a, label) == gt_pc' = [gt_pc EXCEPT ![a] = label]

(* Outside a call the target means nothing.                                *)
AnySlot == CHOOSE s \in Slots : TRUE
Returns(a) == Goto(a, "idle") /\ target' = [target EXCEPT ![a] = AnySlot]

(* The pool's mutex: the reaper keeps it while it scans and while it joins.*)
PoolLocked == scan # "none" \/ gt_pc["reaper"] # "idle"

-----------------------------------------------------------------------------
(* Mutant: the slot is still free for the next caller.                     *)
PoolCreateUnmarked(c, s) ==
    /\ gt_pc[c] = "idle" /\ ~PoolLocked /\ lives < MaxLives
    /\ IF \E u \in m_threads : free[u] THEN s \in m_threads /\ free[s] ELSE s \notin m_threads
    /\ m_threads' = m_threads \cup {s}
    /\ detached' = IF s \in m_threads THEN detached ELSE [detached EXCEPT ![s] = FALSE]
    /\ target' = [target EXCEPT ![c] = s]
    /\ lives' = lives + 1
    /\ Goto(c, "stack")
    /\ UNCHANGED <<free, almost_done, host, stacks, claimed, reaper, on>>

(* PthreadPool::Create: a free slot as its last user left it, or a new one.*)
PoolCreate(c, s) ==
    /\ gt_pc[c] = "idle" /\ ~PoolLocked /\ lives < MaxLives
    /\ IF \E u \in m_threads : free[u] THEN s \in m_threads /\ free[s] ELSE s \notin m_threads
    /\ m_threads' = m_threads \cup {s}
    /\ free' = [free EXCEPT ![s] = FALSE]
    /\ detached' = IF s \in m_threads THEN detached ELSE [detached EXCEPT ![s] = FALSE]
    /\ target' = [target EXCEPT ![c] = s]
    /\ lives' = lives + 1
    /\ Goto(c, "stack")
    /\ UNCHANGED <<almost_done, host, stacks, claimed, reaper, on>>

RoomForStack == mapped < MaxStacks

(* CreateGuestStack: the guest's own stack, a cached one, or a new one.    *)
CreateGuestStack(c) ==
    /\ gt_pc[c] = "stack"
    /\ \/ stack' = [stack EXCEPT ![target[c]] = 0] /\ UNCHANGED <<cache, mapped>>
       \/ \E k \in cache :
             /\ stack' = [stack EXCEPT ![target[c]] = k]
             /\ cache' = cache \ {k}
             /\ UNCHANGED mapped
       \/ /\ cache = {} /\ RoomForStack
          /\ mapped' = mapped + 1
          /\ stack' = [stack EXCEPT ![target[c]] = mapped']
          /\ UNCHANGED cache
    /\ Goto(c, "start")
    /\ UNCHANGED <<m_threads, flags, host, unmapped, target, claimed, reaper, lives, on>>

(* There is no room, or the guard page cannot be protected: then the       *)
(* stack, cached or new, is unmapped.                                      *)
StackFails(c) ==
    /\ gt_pc[c] = "stack"
    /\ \/ cache = {} /\ ~RoomForStack /\ UNCHANGED <<cache, mapped, unmapped>>
       \/ \E k \in cache :
             cache' = cache \ {k} /\ unmapped' = unmapped \cup {k} /\ UNCHANGED mapped
       \/ /\ cache = {} /\ RoomForStack
          /\ mapped' = mapped + 1 /\ unmapped' = unmapped \cup {mapped'}
          /\ UNCHANGED cache
    /\ Goto(c, "failed")
    /\ UNCHANGED <<m_threads, flags, host, stack, target, claimed, reaper, lives, on>>

FreeGuestStack(s) ==
    /\ cache' = IF stack[s] = 0 THEN cache ELSE cache \cup {stack[s]}
    /\ stack' = [stack EXCEPT ![s] = 0]

(* The rest of PthreadCreate: it stores the flags one after the other, and *)
(* then the host's pthread_create starts the thread or refuses.            *)
StoresAlmostDone(c) ==
    /\ gt_pc[c] = "start"
    /\ almost_done' = [almost_done EXCEPT ![target[c]] = FALSE]
    /\ Goto(c, "detach")
    /\ UNCHANGED <<m_threads, free, detached, host, stacks, target, claimed, reaper, lives, on>>

StoresDetached(c, d) ==
    /\ gt_pc[c] = "detach"
    /\ detached' = [detached EXCEPT ![target[c]] = d]
    /\ Goto(c, "host")
    /\ UNCHANGED <<m_threads, free, almost_done, host, stacks, target, claimed, reaper, lives, on>>

StartThread(c) ==
    LET s == target[c]
    IN  /\ gt_pc[c] = "host"
        /\ host' = [host EXCEPT ![s] = "running"]
        /\ on' = [on EXCEPT ![s] = stack[s]]
        /\ claimed' = IF detached[s] THEN claimed \cup {s} ELSE claimed \ {s}
        /\ Returns(c)
        /\ UNCHANGED <<m_threads, flags, stacks, reaper, lives>>

StartFails(c) ==
    /\ gt_pc[c] = "host"
    /\ FreeGuestStack(target[c])
    /\ Goto(c, "failed")
    /\ UNCHANGED <<m_threads, flags, host, mapped, unmapped, target, claimed, reaper, lives, on>>

CreateFailed(c) ==
    /\ gt_pc[c] = "failed"
    /\ free' = [free EXCEPT ![target[c]] = TRUE]
    /\ Returns(c)
    /\ UNCHANGED <<m_threads, detached, almost_done, host, stacks, claimed, reaper, lives, on>>

-----------------------------------------------------------------------------
(* The end of CleanupThread, after which the guest's code is over but the  *)
(* host thread still runs on its way out.                                  *)
CleanupThread(s) ==
    /\ host[s] = "running"
    /\ almost_done' = [almost_done EXCEPT ![s] = TRUE]
    /\ host' = [host EXCEPT ![s] = "ending"]
    /\ UNCHANGED <<m_threads, free, detached, stacks, gt_pc, target, claimed, reaper, lives, on>>

HostExits(s) ==
    /\ host[s] = "ending"
    /\ host' = [host EXCEPT ![s] = "exited"]
    /\ UNCHANGED <<m_threads, flags, stacks, gt_pc, target, claimed, reaper, lives, on>>

(* The thread s is one the guest may still join or detach.                 *)
Joinable(s) == host[s] \in {"running", "ending", "exited"} /\ s \notin claimed

JoinedByReaper(s) == gt_pc["reaper"] # "idle" /\ target["reaper"] = s

(* Mutant: a thread that is over is taken for joined.                      *)
PthreadDetachEnded(c, s) ==
    /\ gt_pc[c] = "idle" /\ Joinable(s)
    /\ detached' = [detached EXCEPT ![s] = ~almost_done[s]]
    /\ claimed' = claimed \cup {s}
    /\ mistaken' = IF JoinedByReaper(s) THEN mistaken \ {s} ELSE mistaken
    /\ UNCHANGED <<m_threads, free, almost_done, host, stacks, gt_pc, target, scan, undefined,
                   lives, on>>

(* Detaching a thread that the reaper is joining makes the join right.     *)
PthreadDetach(c, s) ==
    /\ gt_pc[c] = "idle" /\ Joinable(s)
    /\ detached' = [detached EXCEPT ![s] = TRUE]
    /\ claimed' = claimed \cup {s}
    /\ mistaken' = IF JoinedByReaper(s) THEN mistaken \ {s} ELSE mistaken
    /\ UNCHANGED <<m_threads, free, almost_done, host, stacks, gt_pc, target, scan, undefined,
                   lives, on>>

PthreadJoin(c, s) ==
    /\ gt_pc[c] = "idle" /\ Joinable(s) /\ ~JoinedByReaper(s)
    /\ claimed' = claimed \cup {s}
    /\ target' = [target EXCEPT ![c] = s]
    /\ Goto(c, "join")
    /\ UNCHANGED <<m_threads, flags, host, stacks, reaper, lives, on>>

(* The guest joins a thread which the reaper joins or has joined though it *)
(* was not detached, or detaches it when it is gone.  The host's join is   *)
(* the second of one thread, or it, or the detach, hits whatever thread    *)
(* the slot has by now: what the program does after that is not defined,   *)
(* and the model ends.                                                     *)
UsesTakenThread(c, s) ==
    /\ gt_pc[c] = "idle" /\ s \in mistaken
    /\ undefined' = TRUE
    /\ UNCHANGED <<m_threads, flags, host, stacks, gt_pc, target, claimed, scan, mistaken, lives,
                   on>>

(* PthreadPool::FreeDetachedThreads: of a slot it reads detached, then     *)
(* almost_done, then free, as long as what it reads asks for the join.     *)
FreeDetachedThreads(s) ==
    /\ gt_pc["reaper"] = "idle" /\ scan = "none" /\ s \in m_threads /\ detached[s]
    /\ target' = [target EXCEPT !["reaper"] = s]
    /\ scan' = "almost_done"
    /\ UNCHANGED <<m_threads, flags, host, stacks, gt_pc, claimed, mistaken, undefined, lives, on>>

ReadsAlmostDone ==
    /\ scan = "almost_done"
    /\ \/ almost_done[target["reaper"]] /\ scan' = "free" /\ UNCHANGED <<gt_pc, target>>
       \/ ~almost_done[target["reaper"]] /\ scan' = "none" /\ Returns("reaper")
    /\ UNCHANGED <<m_threads, flags, host, stacks, claimed, mistaken, undefined, lives, on>>

(* What it read first may be old: PthreadCreate stores detached after it   *)
(* has taken the slot.  So it joins a thread that is not detached, and     *)
(* when the guest is joining or has just joined that thread, this join is  *)
(* the second.                                                             *)
ReadsFree ==
    /\ scan = "free" /\ scan' = "none"
    /\ LET s == target["reaper"] IN
       \/ free[s] /\ Returns("reaper") /\ UNCHANGED <<mistaken, undefined>>
       \/ /\ ~free[s] /\ (detached[s] \/ s \notin claimed)
          /\ Goto("reaper", "join")
          /\ mistaken' = IF detached[s] THEN mistaken ELSE mistaken \cup {s}
          /\ UNCHANGED <<target, undefined>>
       \/ /\ ~free[s] /\ ~detached[s] /\ s \in claimed
          /\ undefined' = TRUE
          /\ UNCHANGED <<gt_pc, target, mistaken>>
    /\ UNCHANGED <<m_threads, flags, host, stacks, claimed, lives, on>>

(* Mutant: a thread whose guest code is over counts as joined.             *)
HostJoinedEarly(a) ==
    /\ gt_pc[a] = "join" /\ host[target[a]] \in {"ending", "exited"}
    /\ FreeGuestStack(target[a])
    /\ Goto(a, "joined")
    /\ UNCHANGED <<m_threads, flags, host, mapped, unmapped, target, claimed, reaper, lives, on>>

(* pthread_join of the host returns, and the stack is free.                *)
HostJoined(a) ==
    /\ gt_pc[a] = "join" /\ host[target[a]] = "exited"
    /\ host' = [host EXCEPT ![target[a]] = "joined"]
    /\ on' = [on EXCEPT ![target[a]] = 0]
    /\ FreeGuestStack(target[a])
    /\ Goto(a, "joined")
    /\ UNCHANGED <<m_threads, flags, mapped, unmapped, target, claimed, reaper, lives>>

(* Mutant: the flag is left for PthreadCreate to reset.                    *)
JoinClearsNothing(a) ==
    /\ gt_pc[a] = "joined"
    /\ Goto(a, "free")
    /\ UNCHANGED <<m_threads, flags, host, stacks, target, claimed, reaper, lives, on>>

JoinClears(a) ==
    /\ gt_pc[a] = "joined"
    /\ almost_done' = [almost_done EXCEPT ![target[a]] = FALSE]
    /\ Goto(a, "free")
    /\ UNCHANGED <<m_threads, free, detached, host, stacks, target, claimed, reaper, lives, on>>

JoinFrees(a) ==
    /\ gt_pc[a] = "free"
    /\ free' = [free EXCEPT ![target[a]] = TRUE]
    /\ Returns(a)
    /\ UNCHANGED <<m_threads, detached, almost_done, host, stacks, claimed, reaper, lives, on>>

-----------------------------------------------------------------------------
PoolInit ==
    /\ m_threads = {} /\ free = [s \in Slots |-> FALSE]
    /\ detached = [s \in Slots |-> FALSE] /\ almost_done = [s \in Slots |-> FALSE]
    /\ host = [s \in Slots |-> "none"] /\ stack = [s \in Slots |-> 0]
    /\ cache = {} /\ mapped = 0 /\ unmapped = {} /\ on = [s \in Slots |-> 0]
    /\ gt_pc = [a \in Actors |-> "idle"] /\ target = [a \in Actors |-> AnySlot]
    /\ claimed = {} /\ lives = 0 /\ scan = "none" /\ mistaken = {} /\ undefined = FALSE

Calls(c) == \E s \in Slots : \/ PoolCreate(c, s) \/ PthreadDetach(c, s) \/ PthreadJoin(c, s)
                             \/ UsesTakenThread(c, s)

Creates(c) ==
    \/ CreateGuestStack(c) \/ StackFails(c) \/ StoresAlmostDone(c)
    \/ \E d \in BOOLEAN : StoresDetached(c, d)
    \/ StartThread(c) \/ StartFails(c) \/ CreateFailed(c)

Joins(a) == HostJoined(a) \/ JoinClears(a) \/ JoinFrees(a)

Works(a) == \/ a \in Callers /\ Creates(a)
            \/ a = "reaper" /\ (ReadsAlmostDone \/ ReadsFree)
            \/ Joins(a)

Ends(s) == CleanupThread(s) \/ HostExits(s)

PoolNext ==
    /\ ~undefined
    /\ \/ \E c \in Callers : Calls(c)
       \/ \E a \in Actors : Works(a)
       \/ \E s \in Slots : Ends(s) \/ FreeDetachedThreads(s)

(* Calls proceed, the reaper wakes every ten seconds and comes by every    *)
(* slot each time, and a host thread that is on its way out gets there;    *)
(* the guest's code may run for ever.                                      *)
PoolFairness ==
    /\ \A a \in Actors : WF_poolVars(~undefined /\ Works(a))
    /\ \A s \in Slots : WF_poolVars(~undefined /\ HostExits(s))
                      /\ SF_poolVars(~undefined /\ FreeDetachedThreads(s))

PoolSpec == PoolInit /\ [][PoolNext]_poolVars /\ PoolFairness

-----------------------------------------------------------------------------
(* The state has the types of PthreadPrivate's members, and the stacks fit *)
(* the range they are taken from.                                          *)
PoolTypeOK ==
    /\ m_threads \subseteq Slots /\ claimed \subseteq Slots /\ lives \in 0..MaxLives
    /\ {free, detached, almost_done} \subseteq [Slots -> BOOLEAN]
    /\ host \in [Slots -> {"none", "running", "ending", "exited", "joined"}]
    /\ mapped \in 0..MaxStacks /\ stack \in [Slots -> 0..MaxStacks]
    /\ cache \subseteq 1..MaxStacks /\ unmapped \subseteq 1..MaxStacks
    /\ gt_pc \in [Actors -> {"idle", "stack", "start", "detach", "host", "failed", "join", "joined",
                            "free"}]
    /\ target \in [Actors -> Slots] /\ on \in [Slots -> 0..MaxStacks]
    /\ scan \in {"none", "almost_done", "free"} /\ mistaken \subseteq Slots
    /\ undefined \in BOOLEAN

Live(s) == host[s] \in {"running", "ending", "exited"}

(* A slot serves one thread at a time: whoever is creating or joining in   *)
(* it is alone, and a free slot has no thread and nobody working on it.    *)
SlotsExclusive ==
    /\ \A a, b \in Actors : (a # b /\ gt_pc[a] # "idle" /\ gt_pc[b] # "idle")
                               => target[a] # target[b]
    /\ \A a \in Actors : gt_pc[a] \in {"stack", "start", "detach", "host", "failed"} => ~Live(target[a])
    /\ \A s \in m_threads : free[s] =>
          ~Live(s) /\ \A a \in Actors : gt_pc[a] # "idle" => target[a] # s

(* No two threads run on one stack, and no stack is handed out, cached or  *)
(* unmapped while a host thread is still on it.                            *)
StacksExclusive ==
    /\ \A s \in Slots : Live(s) => on[s] \notin cache \cup unmapped
    /\ \A s, u \in Slots : (Live(s) /\ s # u /\ on[s] # 0) => on[s] # stack[u]

(* Nobody is inside pthread_join for a thread that is being joined, or was *)
(* joined, by somebody else.  There is one way to get there, and the model *)
(* ends in it (undefined): the reaper joins a thread that is not detached, *)
(* because it read detached before PthreadCreate stored FALSE and          *)
(* almost_done after that thread had ended, and the guest joins it too, or *)
(* detaches it too late.  Until then, and without it, it does not happen.  *)
JoinedOnce == \A a \in Actors : gt_pc[a] = "join" => Live(target[a])

(* Slots, stacks and host threads are used by one at a time, although the  *)
(* flags that say so are read and written without a lock, up to the second *)
(* join of a thread which the reaper took for the slot's last one.         *)
ThreadsExclusive == PoolTypeOK /\ SlotsExclusive /\ StacksExclusive /\ JoinedOnce

(* Every thread the guest has joined or detached, before or after its end, *)
(* gives its slot and its stack back, unless a thread was joined twice.    *)
ThreadsAreFreed ==
    \A s \in Slots : (s \in claimed /\ host[s] = "exited") ~> free[s] \/ undefined
=============================================================================
