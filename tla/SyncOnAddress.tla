---------------------------- MODULE SyncOnAddress ----------------------------
(***************************************************************************)
(* Waiting on the value of one guest address (kernel/syncOnAddress.cpp),   *)
(* with the registry of the hosts that have no futex.                      *)
(*                                                                         *)
(* The registry maps the address to an entry, the list of its waiters; an  *)
(* entry nobody waits in is erased by the last to leave, after it has let  *)
(* go of the entry's mutex.  The entry's mutex is taken under the          *)
(* registry's, so a critical section of both is one step.  A waiter polls  *)
(* and needs no signal to look again.                                      *)
(***************************************************************************)
EXTENDS Naturals, FiniteSets, Sequences, SequencesExt

CONSTANTS
    AddressThreads,
    Entries,      \* PortableAddressEntry objects; shared_ptr frees them
    Words,        \* values of the guest's word
    WakeCounts    \* arguments of Wake

(* However many entries the threads hold, another one can be made.         *)
AddressAssumption ==
    /\ 0 \notin Entries /\ Words # {}
    /\ \A held \in [AddressThreads -> Entries \cup {0}] :
          \E e \in Entries : \A t \in AddressThreads : held[t] # e

VARIABLES
    word,
    sa_registered,    \* registry.entries[address], 0 if there is none
    sa_waiters,       \* per entry
    wake_requested,   \* threads
    sa_pc,            \* per thread
    sa_wait,          \* per thread: expected value, entry, and if it has a deadline
    sa_expired,       \* threads whose deadline has passed
    spent             \* history: threads a wake has been spent on

addressVars == <<word, sa_registered, sa_waiters, wake_requested, sa_pc, sa_wait, sa_expired,
                 spent>>

NoWait == [expected |-> CHOOSE w \in Words : TRUE, entry |-> 0, timed |-> FALSE]

(* The shared_ptrs to an entry: the registry's and those of its threads.   *)
InUse == {sa_registered} \cup {sa_wait[t].entry : t \in AddressThreads}

Store(w) ==
    /\ w # word /\ word' = w
    /\ UNCHANGED <<sa_registered, sa_waiters, wake_requested, sa_pc, sa_wait, sa_expired, spent>>

(* RegisterPortableWaiter makes an entry if the address has none.          *)
Entry == IF sa_registered # 0 THEN sa_registered ELSE CHOOSE e \in Entries : e \notin InUse

(* The thread registers and finds the word as expected.                    *)
Park(t, timed) ==
    /\ sa_pc[t] = "idle"
    /\ sa_registered' = Entry
    /\ sa_waiters' = [sa_waiters EXCEPT ![Entry] = Append(@, t)]
    /\ sa_wait' = [sa_wait EXCEPT ![t] = [expected |-> word, entry |-> Entry, timed |-> timed]]
    /\ sa_pc' = [sa_pc EXCEPT ![t] = "parked"]
    /\ UNCHANGED <<word, wake_requested, sa_expired, spent>>

(* It registers, finds another word and leaves without letting go of the   *)
(* entry's mutex in between.                                               *)
Pass(t) ==
    /\ sa_pc[t] = "idle" /\ sa_waiters[Entry] = <<>>
    /\ sa_registered' = Entry
    /\ sa_wait' = [sa_wait EXCEPT ![t].entry = Entry]
    /\ sa_pc' = [sa_pc EXCEPT ![t] = "erase"]
    /\ UNCHANGED <<word, sa_waiters, wake_requested, sa_expired, spent>>

AddressExpire(t) ==
    /\ sa_pc[t] = "parked" /\ sa_wait[t].timed /\ t \notin sa_expired
    /\ sa_expired' = sa_expired \cup {t}
    /\ UNCHANGED <<word, sa_registered, sa_waiters, wake_requested, sa_pc, sa_wait, spent>>

(* Mutant: the deadline is looked at first.                                *)
MayTimeOutFirst(t) == t \in sa_expired

MayTimeOut(t) == t \in sa_expired /\ word = sa_wait[t].expected /\ t \notin wake_requested

(* The loop of WaitPortable ends, and the thread leaves the list, where it *)
(* is once: every call has a PortableWaiter of its own.                    *)
Unregister(t, result) ==
    LET e == sa_wait[t].entry
        rest == RemoveFirst(sa_waiters[e], t)
    IN  /\ sa_waiters' = [sa_waiters EXCEPT ![e] = rest]
        /\ wake_requested' = wake_requested \ {t}
        /\ spent' = IF result = "Ok" THEN spent \ {t} ELSE spent
        /\ sa_expired' = sa_expired \ {t}
        /\ sa_pc' = [sa_pc EXCEPT ![t] = IF rest = <<>> THEN "erase" ELSE "idle"]
        /\ sa_wait' = IF rest = <<>> THEN sa_wait ELSE [sa_wait EXCEPT ![t] = NoWait]
        /\ UNCHANGED <<word, sa_registered>>

WaitReturns(t) ==
    /\ sa_pc[t] = "parked" /\ (word # sa_wait[t].expected \/ t \in wake_requested)
    /\ Unregister(t, "Ok")

WaitTimesOut(t) ==
    /\ sa_pc[t] = "parked" /\ MayTimeOut(t)
    /\ Unregister(t, "TimedOut")

(* Mutant: the entry is erased without a second look.                      *)
MayEraseUnchecked(t) == sa_registered = sa_wait[t].entry

(* Mutant: an entry is erased only by the thread that made it.             *)
MayEraseNever(t) == FALSE

MayErase(t) == sa_registered = sa_wait[t].entry /\ sa_waiters[sa_wait[t].entry] = <<>>

(* The second half of UnregisterPortableWaiter.                            *)
Erase(t) ==
    /\ sa_pc[t] = "erase"
    /\ sa_registered' = IF MayErase(t) THEN 0 ELSE sa_registered
    /\ sa_pc' = [sa_pc EXCEPT ![t] = "idle"]
    /\ sa_wait' = [sa_wait EXCEPT ![t] = NoWait]
    /\ UNCHANGED <<word, sa_waiters, wake_requested, sa_expired, spent>>

(* The first count waiters that no wake has been spent on.                 *)
Woken(count) ==
    LET line == sa_waiters[sa_registered]
        open == {i \in DOMAIN line : line[i] \notin wake_requested}
    IN  {line[i] : i \in {j \in open : Cardinality({k \in open : k < j}) < count}}

Wake(count) ==
    /\ sa_registered # 0
    /\ wake_requested' = wake_requested \cup Woken(count)
    /\ spent' = spent \cup Woken(count)
    /\ UNCHANGED <<word, sa_registered, sa_waiters, sa_pc, sa_wait, sa_expired>>

AddressInit ==
    /\ word \in Words /\ sa_registered = 0 /\ sa_waiters = [e \in Entries |-> <<>>]
    /\ wake_requested = {} /\ sa_expired = {} /\ spent = {}
    /\ sa_pc = [t \in AddressThreads |-> "idle"] /\ sa_wait = [t \in AddressThreads |-> NoWait]

AddressNext ==
    \/ \E w \in Words : Store(w)
    \/ \E n \in WakeCounts : Wake(n)
    \/ \E t \in AddressThreads :
          \/ (\E timed \in BOOLEAN : Park(t, timed)) \/ Pass(t)
          \/ AddressExpire(t) \/ WaitReturns(t) \/ WaitTimesOut(t) \/ Erase(t)

AddressSpec == AddressInit /\ [][AddressNext]_addressVars

-----------------------------------------------------------------------------
(* The state has the types of the registry and of the waiters.             *)
AddressTypeOK ==
    /\ word \in Words /\ sa_registered \in Entries \cup {0}
    /\ sa_waiters \in [Entries -> Seq(AddressThreads)]
    /\ wake_requested \subseteq AddressThreads /\ sa_expired \subseteq AddressThreads
    /\ spent \subseteq AddressThreads
    /\ sa_pc \in [AddressThreads -> {"idle", "parked", "erase"}]
    /\ sa_wait \in [AddressThreads -> [expected : Words, entry : Entries \cup {0}, timed : BOOLEAN]]

(* Wake finds whoever waits: a parked thread is in the entry the registry  *)
(* has for the address, although the thread that left the entry empty      *)
(* drops its mutex before it takes the registry's to erase it; the entry   *)
(* is gone once nobody is inside a wait; and no wake is spent on a thread  *)
(* that reports a time-out instead.                                        *)
WaitersAreFound ==
    /\ \A t \in AddressThreads : sa_pc[t] = "parked" =>
          /\ sa_registered = sa_wait[t].entry
          /\ t \in Range(sa_waiters[sa_registered])
    /\ (\A t \in AddressThreads : sa_pc[t] = "idle") => sa_registered = 0
    /\ spent \subseteq {t \in AddressThreads : sa_pc[t] = "parked"}
=============================================================================
