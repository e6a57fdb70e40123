-------------------------- MODULE EventQueueProofs --------------------------
(***************************************************************************)
(* What one event queue owes its waiters and the tables that lead to it,   *)
(* for every number of threads, ports, kinds of event, rooms and calls:    *)
(* queued triggers are returned in order and once, and whenever nobody is  *)
(* half-way through a call the registrations agree with the events.  The   *)
(* second needs to know who holds which mutex, and which call still owes   *)
(* the port, or the queue, the other half of what it does.                 *)
(***************************************************************************)
EXTENDS EventQueue, FiniteSetTheorems, SequenceTheorems, NaturalsInduction,
        WellFoundedInduction, TLAPS

(* An event with an owner is the video-out event of a port that used the   *)
(* queue.  A port keeps its registration under its generation.             *)
PortOwners == [port : Ports, generation : Nat]
Datas   == 0..MaxTriggers
Numbers == 1..MaxTriggers

Events == [kind : Kinds, triggered : BOOLEAN, deadline : {"none", "set", "passed"},
           data : Datas, pending : Seq(Numbers), owner : PortOwners \cup {NoOwner}]

Waits     == [op : {"wait"}, num : Rooms, timeout : {"none", "finite", "expired"}]
Halves    == [op : {"close", "register", "deregister"}]
Callbacks == [op : {"callbacks"}, owners : SUBSET PortOwners,
              lock : Ports \cup {"none", "driver"}]
Vouts     == [op : {"vout"}, port : Ports, fresh : BOOLEAN]
Closes    == [op : {"portclose"}, port : Ports, moved : SUBSET Nat]
Calls     == {Idle} \cup Waits \cup Halves \cup Callbacks \cup Vouts \cup Closes

(* An event that is down holds nothing; only the kinds that queue their    *)
(* triggers have pending ones, only a timer has a deadline.                *)
WellFormed(e) ==
    /\ e.kind \in kinds
    /\ ~e.triggered => e.pending = <<>>
    /\ e.kind \notin Queued => e.pending = <<>>
    /\ e.deadline # "none" => e.kind = "timer"
    /\ e.kind = "vout" <=> e.owner # NoOwner

Typed ==
    /\ kinds \in Mixes /\ status \in {"listed", "erased", "closed"}
    /\ call \in [Threads -> Calls]
    /\ m_interrupt_eqs \in BOOLEAN /\ irq \in {"idle", "copied", "drop"} /\ lost \in BOOLEAN
    /\ port \in [Ports -> [opened : BOOLEAN, generation : Nat, registrations : SUBSET Nat]]
    /\ shared \in SUBSET Ports /\ IsFiniteSet(shared)
    /\ sent \in [Counted -> Seq(Numbers)] /\ got \in [Counted -> Seq(Datas)]
    /\ calls \in 0..MaxCalls /\ triggers \in 0..MaxTriggers

Fit(events) ==
    /\ events \in Seq(Events)
    /\ \A i \in DOMAIN events : WellFormed(events[i])
    /\ \A i, j \in DOMAIN events : events[i].kind = events[j].kind => i = j

EventsInv == Fit(m_events) /\ (~Open => m_events = <<>>)

(* The edge event that is up holds the last trigger, not yet returned.     *)
EdgeInv ==
    /\ \A i \in DOMAIN sent["edge"] : sent["edge"][i] <= triggers
    /\ \A i \in DOMAIN got["edge"] : got["edge"][i] <= triggers
    /\ Len(got["edge"]) <= Len(sent["edge"])
    /\ IsInjective(got["edge"])
    /\ \A i \in DOMAIN m_events : m_events[i].kind = "edge" /\ m_events[i].triggered =>
          /\ Len(got["edge"]) < Len(sent["edge"])
          /\ m_events[i].data = Last(sent["edge"])
          /\ m_events[i].data \notin Range(got["edge"])

DataInv == NothingLost /\ EdgeInv

-----------------------------------------------------------------------------
Registering == \E t \in Threads : call[t].op = "register"

(* Whoever is about to remove the registration while the queue has the     *)
(* event decided so before the event was added, and is known to be late.   *)
IrqInv ==
    Has("irq") =>
        /\ Removers \subseteq late
        /\ Registering \/ m_interrupt_eqs \/ lost

-----------------------------------------------------------------------------
Own(p) == [port |-> p, generation |-> port[p].generation]
Owned(events, kind, o) == \E i \in DOMAIN events : events[i].kind = kind /\ events[i].owner = o
InQueue(o) == Owned(m_events, "vout", o)
Pending(o) == \E t \in Threads : call[t].op = "callbacks" /\ o \in call[t].owners
Entering(p) == \E t \in Threads : call[t].op = "vout" /\ call[t].port = p
Registered(p) == port[p].generation \in port[p].registrations
HasLock(t, p) == \/ call[t].op = "vout" /\ call[t].port = p
                 \/ call[t].op = "callbacks" /\ call[t].lock = p
HasDriver(t) == \/ call[t].op = "portclose"
                \/ call[t].op = "callbacks" /\ call[t].lock = "driver"
ClosesPort(t, p) == call[t].op = "portclose" /\ call[t].port = p

(* What the mutexes of the ports and of the driver protect.                *)
LocksInv ==
    /\ \A t, u \in Threads, p \in Ports : HasLock(t, p) /\ HasLock(u, p) => t = u
    /\ \A t, u \in Threads : HasDriver(t) /\ HasDriver(u) => t = u
    /\ \A t \in Threads, p \in Ports : HasLock(t, p) => port[p].opened
    /\ \A t \in Threads, p \in Ports : ClosesPort(t, p) => ~port[p].opened

(* Whatever mentions a port, the port has used the queue.                  *)
SharedInv ==
    /\ \A p \in Ports : ~port[p].opened => port[p].registrations = {}
    /\ \A p \in Ports : port[p].registrations \subseteq {port[p].generation}
    /\ \A p \in Ports : port[p].registrations # {} => p \in shared
    /\ \A t \in Threads, p \in Ports : HasLock(t, p) => p \in shared
    /\ \A t \in Threads, p \in Ports : ClosesPort(t, p) /\ call[t].moved # {} => p \in shared
    /\ \A o \in PortOwners : InQueue(o) \/ Pending(o) => o.port \in shared

(* One port alone uses the queue.  The video-out event is that of the      *)
(* registration, or Close of the port is about to delete it.               *)
EventIsOwned(p) ==
    \A o \in PortOwners : InQueue(o) =>
        \/ o = Own(p) /\ Registered(p) /\ port[p].opened
        \/ \E t \in Threads : ClosesPort(t, p) /\ o.generation \in call[t].moved

(* A registration has its event, or someone is about to add the event or   *)
(* to take the registration away.                                          *)
RegistrationIsServed(p) ==
    Registered(p) => InQueue(Own(p)) \/ Entering(p) \/ Pending(Own(p))

(* RegisterVideoOutEvent between the registration and the event.           *)
EnteringIsRegistered(p) ==
    \A t \in Threads : call[t].op = "vout" =>
        /\ Open => Registered(p)
        /\ ~call[t].fresh /\ Registered(p) => InQueue(Own(p)) \/ Pending(Own(p))

(* A callback runs for a closed queue, under the port's mutex, or for a    *)
(* closed port, and for an event that is gone.                             *)
CallbacksAreLate(p) ==
    /\ \A t \in Threads, o \in PortOwners : call[t].op = "callbacks" /\ o \in call[t].owners =>
          ~Open \/ call[t].lock = p \/ (call[t].lock = "driver" /\ ~port[p].opened)
    /\ \A o \in PortOwners : ~(Pending(o) /\ InQueue(o))

Accounted(p) == /\ EventIsOwned(p) /\ RegistrationIsServed(p)
                /\ EnteringIsRegistered(p) /\ CallbacksAreLate(p)

PortsInv == LocksInv /\ SharedInv /\ \A p \in Ports : shared \subseteq {p} => Accounted(p)

-----------------------------------------------------------------------------
(* What a wait takes.                                                      *)
LEMMA LeastNumber ==
    ASSUME NEW S \in SUBSET Nat, S # {}
    PROVE  \E x \in S : \A y \in S : x <= y
<1>1. PICK x \in S : \A y \in S : <<y, x>> \notin OpToRel(<, Nat)
  BY NatLessThanWellFounded, WFMin, Zenon
<1>2. \A y \in S : ~(y < x)
  BY <1>1, Zenon DEF OpToRel
<1> QED
  BY <1>2

(* What an event holds is its data and then what is pending.               *)
LEMMA StockIs ==
    ASSUME NEW e \in Events
    PROVE  /\ Stock(e) \in Seq(Datas)
           /\ ~e.triggered => Stock(e) = <<>>
           /\ e.triggered => /\ Len(Stock(e)) = Len(e.pending) + 1
                             /\ Stock(e)[1] = e.data
                             /\ \A i \in 1..Len(e.pending) : Stock(e)[i + 1] = e.pending[i]
<1>1. e.pending \in Seq(Numbers) /\ e.data \in Datas /\ Numbers \subseteq Datas
  BY DEF Events, Numbers, Datas
<1>2. e.pending \in Seq(Datas)
  BY <1>1, SeqMonotonic
<1>3. <<e.data>> \in Seq(Datas) /\ Len(<<e.data>>) = 1 /\ <<e.data>>[1] = e.data
  BY <1>1
<1>4. /\ <<e.data>> \o e.pending \in Seq(Datas)
      /\ Len(<<e.data>> \o e.pending) = Len(e.pending) + 1
      /\ (<<e.data>> \o e.pending)[1] = e.data
      /\ \A i \in 1..Len(e.pending) : (<<e.data>> \o e.pending)[i + 1] = e.pending[i]
  BY <1>1, <1>2, <1>3
<1>5. <<>> \in Seq(Datas)
  OBVIOUS
<1> QED
  BY <1>4, <1>5 DEF Stock

LEMMA TakesFits ==
    ASSUME NEW e \in Events, NEW room \in Nat
    PROVE  /\ Takes(e, room) \in Nat /\ Takes(e, room) <= room
           /\ e.kind # "level" => Takes(e, room) <= Len(Stock(e))
<1>1. Stock(e) \in Seq(Datas)
  BY StockIs
<1>2. Len(Stock(e)) \in Nat
  BY <1>1
<1> QED
  BY <1>2 DEF Takes

(* The room that is left after each event is a recursive function.         *)
IsRoom(f, events, num, k) ==
    f = [n \in 0..k |-> IF n = 0 THEN num ELSE f[n - 1] - Takes(events[n], f[n - 1])]

LEMMA RoomExists ==
    ASSUME NEW events, NEW num, NEW last \in Nat
    PROVE  \E f : IsRoom(f, events, num, last)
<1> DEFINE Exists(k) == \E f : IsRoom(f, events, num, k)
<1> DEFINE Missing == {k \in Nat : ~ Exists(k)}
<1>1. ASSUME Missing # {} PROVE FALSE
  <2>1. PICK k \in Missing : \A j \in Missing : k <= j
    BY <1>1, LeastNumber
  <2>2. Exists(0)
    <3> DEFINE f == [n \in 0..0 |-> num]
    <3>1. \A n \in 0..0 : n = 0
      OBVIOUS
    <3>2. f = [n \in 0..0 |-> IF n = 0 THEN num ELSE f[n - 1] - Takes(events[n], f[n - 1])]
      BY <3>1
    <3> HIDE DEF f
    <3> QED
      BY <3>2 DEF IsRoom
  <2>3. k # 0
    <3> HIDE DEF Exists
    <3> QED
      BY <2>1, <2>2
  <2>4. k - 1 \in Nat /\ Exists(k - 1)
    <3>1. k - 1 \in Nat /\ k - 1 \notin Missing
      BY <2>1, <2>3
    <3> HIDE DEF Exists
    <3> QED
      BY <3>1
  <2>5. PICK f : IsRoom(f, events, num, k - 1)
    BY <2>4
  <2> DEFINE step(h, n) == IF n = 0 THEN num ELSE h[n - 1] - Takes(events[n], h[n - 1])
  <2> DEFINE g == [n \in 0..k |-> step(f, n)]
  <2>6. \A n \in 0..(k - 1) : f[n] = step(f, n)
    BY <2>5 DEF IsRoom
  <2>7. ASSUME NEW n \in 1..k PROVE g[n - 1] = f[n - 1]
    <3>1. n - 1 \in 0..(k - 1) /\ n - 1 \in 0..k
      BY <2>1
    <3> HIDE DEF step
    <3> QED
      BY <2>6, <3>1
  <2>8. \A n \in 0..k : step(f, n) = step(g, n)
    <3>1. \A n \in 0..k : n = 0 \/ n \in 1..k
      BY <2>1
    <3> HIDE DEF g
    <3> QED
      BY <2>7, <3>1
  <2>9. g = [n \in 0..k |-> step(g, n)]
    <3> HIDE DEF step
    <3> QED
      BY <2>8
  <2>10. IsRoom(g, events, num, k)
    <3> HIDE DEF g
    <3> QED
      BY <2>9 DEF IsRoom
  <2>11. Exists(k)
    BY <2>10
  <2> HIDE DEF Exists
  <2> QED
    BY <2>1, <2>11
<1> HIDE DEF Exists
<1>2. Exists(last)
  BY <1>1
<1> QED
  BY <1>2 DEF Exists

(* A wait takes of an event at most what it holds, but for a level event.  *)
TakesAtMost(events, taken) ==
    /\ DOMAIN taken = DOMAIN events
    /\ \A i \in DOMAIN events :
          taken[i] \in Nat /\ (events[i].kind # "level" => taken[i] <= Len(Stock(events[i])))

LEMMA TakenFits ==
    ASSUME NEW events \in Seq(Events), NEW num \in Nat
    PROVE  TakesAtMost(events, Taken(events, num))
<1> DEFINE room == CHOOSE f : IsRoom(f, events, num, Len(events))
<1>1. Taken(events, num) = [i \in DOMAIN events |-> Takes(events[i], room[i - 1])]
  BY Zenon DEF Taken, IsRoom
<1>2. IsRoom(room, events, num, Len(events))
  BY RoomExists
<1> HIDE DEF room
<1>3. /\ room[0] = num
      /\ \A n \in 1..Len(events) : room[n] = room[n - 1] - Takes(events[n], room[n - 1])
  BY <1>2 DEF IsRoom
<1> DEFINE Bad == {n \in 0..Len(events) : room[n] \notin Nat}
<1>4. ASSUME Bad # {} PROVE FALSE
  <2>0. Bad \in SUBSET Nat
    OBVIOUS
  <2>1. PICK n \in Bad : \A k \in Bad : n <= k
    <3> HIDE DEF Bad
    <3> QED
      BY <1>4, <2>0, LeastNumber
  <2>2. n # 0 /\ n \in 1..Len(events)
    BY <2>1, <1>3
  <2>3. n - 1 \in 0..Len(events) /\ n - 1 \notin Bad
    BY <2>1, <2>2
  <2>4. room[n - 1] \in Nat
    BY <2>3
  <2>5. events[n] \in Events
    BY <2>2
  <2>6. Takes(events[n], room[n - 1]) \in Nat /\ Takes(events[n], room[n - 1]) <= room[n - 1]
    BY <2>4, <2>5, TakesFits
  <2>7. room[n] \in Nat
    BY <1>3, <2>2, <2>4, <2>6
  <2> QED
    BY <2>1, <2>7
<1>5. ASSUME NEW i \in DOMAIN events
      PROVE  room[i - 1] \in Nat /\ events[i] \in Events
  BY <1>4
<1>6. ASSUME NEW i \in DOMAIN events
      PROVE  /\ Takes(events[i], room[i - 1]) \in Nat
             /\ events[i].kind # "level" =>
                    Takes(events[i], room[i - 1]) <= Len(Stock(events[i]))
  BY <1>5, TakesFits
<1> QED
  BY <1>1, <1>6 DEF TakesAtMost

-----------------------------------------------------------------------------
(* One event.                                                              *)
LEMMA RestIs ==
    ASSUME NEW e \in Events, WellFormed(e), NEW n \in Nat,
           e.kind # "level" => n <= Len(Stock(e))
    PROVE  /\ Rest(e, n) \in Events /\ WellFormed(Rest(e, n))
           /\ Rest(e, n).kind = e.kind /\ Rest(e, n).owner = e.owner
           /\ e.kind \in Counted => Stock(e) = SubSeq(Stock(e), 1, n) \o Stock(Rest(e, n))
<1>1. CASE n = 0 \/ e.kind \in {"level", "timer"}
  <2>1. Rest(e, n) = e
    BY <1>1 DEF Rest
  <2>2. e.kind \in Counted => n = 0
    BY <1>1 DEF Counted, Queued
  <2>3. Stock(e) \in Seq(Datas)
    BY StockIs
  <2>4. Stock(e) = SubSeq(Stock(e), 1, 0) \o Stock(e)
    BY <2>3
  <2> QED
    BY <2>1, <2>2, <2>4
<1>2. CASE n # 0 /\ e.kind \notin {"level", "timer"} /\ n > Len(e.pending)
  <2>1. Rest(e, n) = [e EXCEPT !.triggered = FALSE, !.data = 0, !.pending = <<>>]
    BY <1>2 DEF Rest
  <2>2. 0 \in Datas
    BY QueueAssumption DEF Datas
  <2>3. <<>> \in Seq(Numbers)
    OBVIOUS
  <2>4. /\ Rest(e, n) \in Events
        /\ Rest(e, n).kind = e.kind /\ Rest(e, n).owner = e.owner
        /\ Rest(e, n).deadline = e.deadline
        /\ Rest(e, n).pending = <<>> /\ ~Rest(e, n).triggered
    BY <2>1, <2>2, <2>3 DEF Events
  <2>5. WellFormed(Rest(e, n))
    BY <2>4 DEF WellFormed
  <2>6. Stock(Rest(e, n)) = <<>>
    BY <2>4, StockIs
  <2>7. e.pending \in Seq(Numbers) /\ e.triggered \in BOOLEAN
    BY DEF Events
  <2>8. e.triggered /\ n = Len(Stock(e)) /\ Stock(e) \in Seq(Datas)
    BY <1>2, <2>7, StockIs
  <2>9. Stock(e) = SubSeq(Stock(e), 1, n) \o <<>>
    BY <2>8
  <2> QED
    BY <2>4, <2>5, <2>6, <2>9
<1>3. CASE n # 0 /\ e.kind \notin {"level", "timer"} /\ ~(n > Len(e.pending))
  <2>1. Rest(e, n) = [e EXCEPT !.data = e.pending[n],
                               !.pending = SubSeq(e.pending, n + 1, Len(e.pending))]
    BY <1>3 DEF Rest
  <2>2. e.pending \in Seq(Numbers) /\ Numbers \subseteq Datas
    BY DEF Events, Numbers, Datas
  <2>3. n \in 1..Len(e.pending)
    BY <1>3, <2>2
  <2>4. e.pending[n] \in Datas
    BY <2>2, <2>3
  <2> DEFINE rest == SubSeq(e.pending, n + 1, Len(e.pending))
  <2>5. /\ rest \in Seq(Numbers) /\ Len(rest) = Len(e.pending) - n
        /\ \A i \in 1..Len(rest) : rest[i] = e.pending[n + i]
    BY <2>2, <2>3
  <2> HIDE DEF rest
  <2>6. Rest(e, n) = [e EXCEPT !.data = e.pending[n], !.pending = rest]
    BY <2>1 DEF rest
  <2>7. e.triggered
    <3>1. e.pending # <<>>
      BY <2>3
    <3> QED
      BY <3>1 DEF WellFormed
  <2>8. /\ Rest(e, n) \in Events
        /\ Rest(e, n).kind = e.kind /\ Rest(e, n).owner = e.owner
        /\ Rest(e, n).deadline = e.deadline
        /\ Rest(e, n).pending = rest /\ Rest(e, n).data = e.pending[n] /\ Rest(e, n).triggered
    BY <2>4, <2>5, <2>6, <2>7 DEF Events
  <2>9. WellFormed(Rest(e, n))
    <3>1. e.kind \notin Queued => e.pending = <<>>
      BY DEF WellFormed
    <3>2. e.kind \in Queued
      BY <2>3, <3>1
    <3> QED
      BY <2>8, <3>2 DEF WellFormed
  <2> DEFINE all == Stock(e)
             left == Stock(Rest(e, n))
  <2>10. /\ all \in Seq(Datas) /\ Len(all) = Len(e.pending) + 1
         /\ \A i \in 1..Len(e.pending) : all[i + 1] = e.pending[i]
    BY <2>7, StockIs
  <2>11. /\ left \in Seq(Datas) /\ Len(left) = Len(rest) + 1 /\ left[1] = e.pending[n]
         /\ \A i \in 1..Len(rest) : left[i + 1] = rest[i]
    BY <2>8, StockIs
  <2> HIDE DEF all, left
  <2>12. Len(left) = Len(all) - n /\ n < Len(all) /\ Len(all) \in Nat
    BY <2>10, <2>11, <2>5, <2>3, <2>2
  <2>13. \A i \in 1..Len(left) : left[i] = all[n + i]
    <3> TAKE i \in 1..Len(left)
    <3>1. CASE i = 1
      <4>1. all[n + 1] = e.pending[n]
        BY <2>10, <2>3
      <4> QED
        BY <4>1, <3>1, <2>11
    <3>2. CASE i # 1
      <4>1. i - 1 \in 1..Len(rest) /\ i = (i - 1) + 1
        BY <3>2, <2>11, <2>5, <2>2, <2>3
      <4>2. left[i] = rest[i - 1]
        BY <4>1, <2>11
      <4>3. rest[i - 1] = e.pending[n + (i - 1)]
        BY <4>1, <2>5
      <4>4. n + (i - 1) \in 1..Len(e.pending) /\ n + i = (n + (i - 1)) + 1
        BY <4>1, <2>5, <2>2, <2>3
      <4>5. all[n + i] = e.pending[n + (i - 1)]
        BY <4>4, <2>10
      <4> QED
        BY <4>2, <4>3, <4>5
    <3> QED
      BY <3>1, <3>2
  <2>14. all = SubSeq(all, 1, n) \o left
    <3> DEFINE first == SubSeq(all, 1, n)
    <3>0. \A i \in 1..n : i \in 1..Len(all)
      BY <2>12
    <3>1. first \in Seq(Datas) /\ Len(first) = n /\ \A i \in 1..n : first[i] = all[i]
      <4>1. \A i \in 1..n : all[i] \in Datas
        BY <2>10, <3>0
      <4>2. n \in Int /\ 1 \in Int /\ 1 <= n /\ n - 1 + 1 = n /\ \A i \in 1..n : 1 + i - 1 = i
        BY <2>3, <2>2
      <4> QED
        BY <4>1, <4>2, SubSeqProperties
    <3> HIDE DEF first
    <3>2. first \o left \in Seq(Datas) /\ Len(first \o left) = Len(all)
      <4>1. Len(left) = Len(all) - n /\ Len(all) \in Nat /\ n \in Nat
        BY <2>12
      <4>2. first \o left \in Seq(Datas) /\ Len(first \o left) = Len(first) + Len(left)
        BY <3>1, <2>11, ConcatProperties
      <4> QED
        BY <4>1, <4>2, <3>1
    <3>3. \A i \in 1..Len(all) : (first \o left)[i] = all[i]
      <4> TAKE i \in 1..Len(all)
      <4>1. CASE i <= n
        <5>1. i \in 1..Len(first) /\ i \in 1..n
          BY <4>1, <3>1
        <5>2. (first \o left)[i] = first[i]
          BY <5>1, <3>1, <2>11, ConcatProperties
        <5> QED
          BY <5>1, <5>2, <3>1
      <4>2. CASE i > n
        <5>1. i - n \in 1..Len(left) /\ n + (i - n) = i
          BY <4>2, <2>12
        <5>2. (first \o left)[i] = left[i - n]
          <6>1. i \in 1..(Len(first) + Len(left)) /\ ~(i <= Len(first)) /\ Len(first) = n
            BY <4>2, <3>1, <2>11, <2>12
          <6> QED
            BY <6>1, <3>1, <2>11, ConcatProperties
        <5> QED
          BY <5>1, <5>2, <2>13
      <4> QED
        <5>1. i \in Nat /\ n \in Nat
          BY <2>12
        <5>2. i <= n \/ i > n
          BY <5>1
        <5> QED
          BY <4>1, <4>2, <5>2
    <3>4. all = first \o left
      BY <2>10, <3>2, <3>3, SeqEqual
    <3> QED
      BY <3>4 DEF first
  <2> QED
    BY <2>8, <2>9, <2>14 DEF all, left
<1> QED
  BY <1>1, <1>2, <1>3

LEMMA ExpiredIs ==
    ASSUME NEW e \in Events, WellFormed(e)
    PROVE  /\ Expired(e) \in Events /\ WellFormed(Expired(e))
           /\ Expired(e).kind = e.kind /\ Expired(e).owner = e.owner
           /\ e.kind # "timer" => Expired(e) = e
<1>1. CASE e.deadline = "passed"
  <2>1. Expired(e) = [e EXCEPT !.triggered = TRUE]
    BY <1>1 DEF Expired
  <2>2. /\ Expired(e) \in Events /\ Expired(e).kind = e.kind /\ Expired(e).owner = e.owner
        /\ Expired(e).pending = e.pending /\ Expired(e).triggered
        /\ Expired(e).deadline = e.deadline
    BY <2>1 DEF Events
  <2> QED
    BY <1>1, <2>2 DEF WellFormed
<1>2. CASE e.deadline # "passed"
  BY <1>2 DEF Expired
<1> QED
  BY <1>1, <1>2

LEMMA FiredIs ==
    ASSUME NEW e \in Events, WellFormed(e), NEW data \in Numbers
    PROVE  /\ Fired(e, data) \in Events /\ WellFormed(Fired(e, data))
           /\ Fired(e, data).kind = e.kind /\ Fired(e, data).owner = e.owner
           /\ Fired(e, data).triggered
           /\ e.kind \notin Queued => Fired(e, data).data = data
           /\ e.kind \in Queued => Stock(Fired(e, data)) = Append(Stock(e), data)
<1>1. data \in Datas /\ Numbers \subseteq Datas
  BY DEF Numbers, Datas
<1>2. e.pending \in Seq(Numbers) /\ e.data \in Datas
  BY DEF Events
<1>3. CASE e.triggered /\ e.kind \in Queued
  <2> DEFINE more == Append(e.pending, data)
  <2>1. more \in Seq(Numbers)
    BY <1>2
  <2>2. Fired(e, data) = [e EXCEPT !.pending = more]
    BY <1>3 DEF Fired
  <2>3. Stock(e) = <<e.data>> \o e.pending
    BY <1>3 DEF Stock
  <2>4. <<e.data>> \o more = Append(<<e.data>> \o e.pending, data)
    <3>1. e.pending \in Seq(Datas) /\ <<e.data>> \in Seq(Datas)
      BY <1>1, <1>2, SeqMonotonic
    <3> QED
      BY <3>1, <1>1
  <2> HIDE DEF more
  <2>5. /\ Fired(e, data) \in Events
        /\ Fired(e, data).kind = e.kind /\ Fired(e, data).owner = e.owner
        /\ Fired(e, data).deadline = e.deadline
        /\ Fired(e, data).data = e.data /\ Fired(e, data).pending = more
        /\ Fired(e, data).triggered
    BY <1>3, <2>1, <2>2 DEF Events
  <2>6. WellFormed(Fired(e, data))
    BY <1>3, <2>5 DEF WellFormed
  <2>7. Stock(Fired(e, data)) = <<e.data>> \o more
    BY <2>5 DEF Stock
  <2> QED
    BY <1>3, <2>3, <2>4, <2>5, <2>6, <2>7
<1>4. CASE ~(e.triggered /\ e.kind \in Queued)
  <2>1. Fired(e, data) = [e EXCEPT !.triggered = TRUE, !.data = data]
    BY <1>4 DEF Fired
  <2>2. /\ Fired(e, data) \in Events
        /\ Fired(e, data).kind = e.kind /\ Fired(e, data).owner = e.owner
        /\ Fired(e, data).deadline = e.deadline
        /\ Fired(e, data).data = data /\ Fired(e, data).pending = e.pending
        /\ Fired(e, data).triggered
    BY <1>1, <2>1 DEF Events
  <2>3. WellFormed(Fired(e, data))
    BY <2>2 DEF WellFormed
  <2>4. ASSUME e.kind \in Queued PROVE Stock(Fired(e, data)) = Append(Stock(e), data)
    <3>1. ~e.triggered /\ e.pending = <<>>
      BY <1>4, <2>4 DEF WellFormed
    <3>2. Stock(e) = <<>>
      BY <3>1 DEF Stock
    <3>3. Stock(Fired(e, data)) = <<data>> \o <<>>
      BY <2>2, <3>1 DEF Stock
    <3> QED
      BY <3>2, <3>3
  <2> QED
    BY <2>2, <2>3, <2>4
<1> QED
  BY <1>3, <1>4

-----------------------------------------------------------------------------
(* The sequence of the events.  Every change of it maps the events one by  *)
(* one, appends one of a new kind, or takes one away.                      *)
SameOwned(new, events) == \A kind, o : Owned(new, kind, o) <=> Owned(events, kind, o)
HasIn(events, kind) == \E i \in DOMAIN events : events[i].kind = kind

Follows(new, events) ==
    /\ new \in Seq(Events) /\ Len(new) = Len(events)
    /\ \A i \in DOMAIN events :
          WellFormed(new[i]) /\ new[i].kind = events[i].kind /\ new[i].owner = events[i].owner

LEMMA FollowsFits ==
    ASSUME NEW events, NEW new, Fit(events), Follows(new, events)
    PROVE  Fit(new) /\ SameOwned(new, events)
<1>1. DOMAIN new = DOMAIN events
  BY DEF Follows, Fit
<1> QED
  BY <1>1, Zenon DEF Follows, Fit, SameOwned, Owned

LEMMA AppendFits ==
    ASSUME NEW events, Fit(events), NEW e \in Events, WellFormed(e), ~HasIn(events, e.kind)
    PROVE  /\ Fit(Append(events, e))
           /\ \A kind, o : Owned(Append(events, e), kind, o) <=>
                 Owned(events, kind, o) \/ (kind = e.kind /\ o = e.owner)
<1> DEFINE new == Append(events, e)
<1>1. events \in Seq(Events)
  BY DEF Fit
<1>2. /\ new \in Seq(Events) /\ Len(new) = Len(events) + 1 /\ Len(events) \in Nat
      /\ new[Len(events) + 1] = e /\ \A i \in 1..Len(events) : new[i] = events[i]
  BY <1>1
<1> DEFINE n == Len(events)
<1>3. /\ DOMAIN events = 1..n /\ DOMAIN new = 1..(n + 1) /\ n + 1 \notin 1..n /\ n + 1 \in 1..(n + 1)
      /\ \A i \in 1..(n + 1) : i \in 1..n \/ i = n + 1
      /\ \A i \in 1..n : i \in 1..(n + 1)
  BY <1>1, <1>2
<1> HIDE DEF new, n
<1>4. new[n + 1] = e /\ \A i \in 1..n : new[i] = events[i]
  BY <1>2 DEF n
<1>5. /\ \A i \in 1..n : WellFormed(events[i]) /\ events[i].kind # e.kind
      /\ \A i, j \in 1..n : events[i].kind = events[j].kind => i = j
  BY <1>3 DEF Fit, HasIn
<1>6. \A i \in DOMAIN new : WellFormed(new[i])
  BY <1>3, <1>4, <1>5, Zenon
<1>7. \A i, j \in DOMAIN new : new[i].kind = new[j].kind => i = j
  <2> SUFFICES ASSUME NEW i \in 1..(n + 1), NEW j \in 1..(n + 1), new[i].kind = new[j].kind
               PROVE  i = j
    BY <1>3, Zenon
  <2>1. (i \in 1..n \/ i = n + 1) /\ (j \in 1..n \/ j = n + 1)
    BY <1>3, Zenon
  <2>2. CASE i \in 1..n /\ j \in 1..n
    BY <2>2, <1>4, <1>5
  <2>3. CASE i \in 1..n /\ j = n + 1
    BY <2>3, <1>4, <1>5
  <2>4. CASE i = n + 1 /\ j \in 1..n
    BY <2>4, <1>4, <1>5
  <2> QED
    BY <2>1, <2>2, <2>3, <2>4
<1>8. Fit(new)
  BY <1>2, <1>6, <1>7, Zenon DEF Fit
<1>9. ASSUME NEW kind, NEW o
      PROVE  Owned(new, kind, o) <=> Owned(events, kind, o) \/ (kind = e.kind /\ o = e.owner)
  <2>1. ASSUME Owned(new, kind, o)
        PROVE  Owned(events, kind, o) \/ (kind = e.kind /\ o = e.owner)
    <3>1. PICK i \in 1..(n + 1) : new[i].kind = kind /\ new[i].owner = o
      BY <2>1, <1>3 DEF Owned
    <3>2. i \in 1..n \/ i = n + 1
      BY <1>3
    <3> QED
      BY <3>1, <3>2, <1>3, <1>4 DEF Owned
  <2>2. ASSUME Owned(events, kind, o) PROVE Owned(new, kind, o)
    <3>1. PICK i \in 1..n : events[i].kind = kind /\ events[i].owner = o
      BY <2>2, <1>3 DEF Owned
    <3> QED
      BY <3>1, <1>3, <1>4 DEF Owned
  <2>3. ASSUME kind = e.kind, o = e.owner PROVE Owned(new, kind, o)
    BY <2>3, <1>3, <1>4 DEF Owned
  <2> QED
    BY <2>1, <2>2, <2>3
<1> QED
  BY <1>8, <1>9 DEF new

(* What is left of a sequence without its i-th member.                     *)
LEMMA RemoveAtIs ==
    ASSUME NEW S, NEW s \in Seq(S), NEW i \in DOMAIN s
    PROVE  /\ RemoveAt(s, i) \in Seq(S) /\ Len(RemoveAt(s, i)) = Len(s) - 1
           /\ \A j \in 1..(Len(s) - 1) :
                 RemoveAt(s, i)[j] = IF j < i THEN s[j] ELSE s[j + 1]
<1> DEFINE a == SubSeq(s, 1, i - 1)
           b == SubSeq(s, i + 1, Len(s))
<1>1. i \in Nat /\ Len(s) \in Nat /\ 1 <= i /\ i <= Len(s)
  OBVIOUS
<1>2. \A j \in 1..(i - 1) : j \in 1..Len(s) /\ s[j] \in S
  BY <1>1
<1>3. a \in Seq(S) /\ Len(a) = i - 1 /\ \A j \in 1..(i - 1) : a[j] = s[j]
  <2>1. /\ i - 1 \in Int /\ 1 \in Int
        /\ (IF 1 <= i - 1 THEN i - 1 - 1 + 1 ELSE 0) = i - 1
        /\ i - 1 - 1 + 1 = i - 1
        /\ \A j \in 1..(i - 1) : 1 + j - 1 = j
    BY <1>1
  <2> QED
    BY <1>2, <2>1, SubSeqProperties
<1>4. b \in Seq(S) /\ Len(b) = Len(s) - i /\ \A j \in 1..(Len(s) - i) : b[j] = s[i + j]
  <2>1. /\ i + 1 \in Int /\ Len(s) \in Int
        /\ (IF i + 1 <= Len(s) THEN Len(s) - (i + 1) + 1 ELSE 0) = Len(s) - i
        /\ Len(s) - (i + 1) + 1 = Len(s) - i
        /\ \A j \in 1..(Len(s) - i) : i + 1 + j - 1 = i + j
    BY <1>1
  <2>2. \A j \in (i + 1)..Len(s) : s[j] \in S
    BY <1>1
  <2> QED
    BY <2>1, <2>2, SubSeqProperties
<1>5. RemoveAt(s, i) = a \o b
  BY DEF RemoveAt
<1> HIDE DEF a, b
<1>6. /\ a \o b \in Seq(S) /\ Len(a \o b) = Len(a) + Len(b)
      /\ \A j \in 1..(Len(a) + Len(b)) :
            (a \o b)[j] = IF j <= Len(a) THEN a[j] ELSE b[j - Len(a)]
  BY <1>3, <1>4, ConcatProperties
<1>7. Len(a) + Len(b) = Len(s) - 1
  BY <1>1, <1>3, <1>4
<1>8. ASSUME NEW j \in 1..(Len(s) - 1)
      PROVE  (a \o b)[j] = IF j < i THEN s[j] ELSE s[j + 1]
  <2>1. (a \o b)[j] = IF j <= Len(a) THEN a[j] ELSE b[j - Len(a)]
    BY <1>6, <1>7
  <2>2. CASE j < i
    <3>1. j \in 1..(i - 1) /\ j <= Len(a)
      BY <2>2, <1>1, <1>3
    <3> QED
      BY <2>1, <2>2, <3>1, <1>3
  <2>3. CASE ~(j < i)
    <3>1. /\ ~(j <= Len(a)) /\ j - Len(a) \in 1..(Len(s) - i) /\ i + (j - Len(a)) = j + 1
      BY <2>3, <1>1, <1>3
    <3>2. b[j - Len(a)] = s[j + 1]
      BY <3>1, <1>4
    <3> QED
      BY <2>1, <2>3, <3>1, <3>2
  <2> QED
    BY <2>2, <2>3
<1> QED
  BY <1>5, <1>6, <1>7, <1>8

LEMMA RemoveFits ==
    ASSUME NEW events, Fit(events), NEW i \in DOMAIN events
    PROVE  /\ Fit(RemoveAt(events, i))
           /\ \A j \in DOMAIN RemoveAt(events, i) : \E k \in DOMAIN events :
                 RemoveAt(events, i)[j] = events[k] /\ k # i
           /\ \A kind, o : Owned(RemoveAt(events, i), kind, o) <=>
                 Owned(events, kind, o) /\ kind # events[i].kind
<1> DEFINE new == RemoveAt(events, i)
           n == Len(events)
           from(j) == IF j < i THEN j ELSE j + 1
<1>1. events \in Seq(Events) /\ n \in Nat /\ i \in 1..n /\ DOMAIN events = 1..n
  BY DEF Fit
<1>2. /\ new \in Seq(Events) /\ Len(new) = n - 1
      /\ \A j \in 1..(n - 1) : new[j] = IF j < i THEN events[j] ELSE events[j + 1]
  BY <1>1, RemoveAtIs
<1>3. /\ DOMAIN new = 1..(n - 1)
      /\ \A j \in 1..(n - 1) : from(j) \in 1..n /\ from(j) # i
      /\ \A j, k \in 1..(n - 1) : from(j) = from(k) => j = k
  BY <1>1, <1>2
<1>4. \A j \in 1..(n - 1) : new[j] = events[from(j)]
  BY <1>2
<1>5. \A k \in 1..n : k # i => \E j \in 1..(n - 1) : from(j) = k
  <2> TAKE k \in 1..n
  <2>1. CASE k < i
    <3>1. k \in 1..(n - 1) /\ from(k) = k
      BY <2>1, <1>1
    <3> QED
      BY <3>1
  <2>2. CASE k > i
    <3>1. k - 1 \in 1..(n - 1) /\ from(k - 1) = k
      BY <2>2, <1>1
    <3> QED
      BY <3>1
  <2> QED
    BY <2>1, <2>2, <1>1
<1> HIDE DEF new, n, from
<1>6. /\ \A j \in 1..n : WellFormed(events[j])
      /\ \A j, k \in 1..n : events[j].kind = events[k].kind => j = k
  BY <1>1 DEF Fit
<1>7. \A j \in DOMAIN new : WellFormed(new[j])
  BY <1>3, <1>4, <1>6
<1>8. \A j, k \in DOMAIN new : new[j].kind = new[k].kind => j = k
  BY <1>3, <1>4, <1>6
<1>9. Fit(new)
  BY <1>2, <1>7, <1>8, Zenon DEF Fit
<1>10. \A j \in DOMAIN new : \E k \in DOMAIN events : new[j] = events[k] /\ k # i
  BY <1>1, <1>3, <1>4
<1>11. ASSUME NEW kind, NEW o
       PROVE  Owned(new, kind, o) <=> Owned(events, kind, o) /\ kind # events[i].kind
  <2>1. ASSUME Owned(new, kind, o) PROVE Owned(events, kind, o) /\ kind # events[i].kind
    <3>1. PICK j \in DOMAIN new : new[j].kind = kind /\ new[j].owner = o
      BY <2>1 DEF Owned
    <3>2. PICK k \in DOMAIN events : new[j] = events[k] /\ k # i
      BY <3>1, <1>10
    <3>3. events[k].kind # events[i].kind
      BY <3>2, <1>1, <1>6
    <3> QED
      BY <3>1, <3>2, <3>3 DEF Owned
  <2>2. ASSUME Owned(events, kind, o), kind # events[i].kind PROVE Owned(new, kind, o)
    <3>1. PICK k \in DOMAIN events : events[k].kind = kind /\ events[k].owner = o
      BY <2>2 DEF Owned
    <3>2. PICK j \in 1..(n - 1) : from(j) = k
      BY <3>1, <2>2, <1>1, <1>5
    <3> QED
      BY <3>1, <3>2, <1>3, <1>4 DEF Owned
  <2> QED
    BY <2>1, <2>2
<1> QED
  BY <1>9, <1>10, <1>11 DEF new

-----------------------------------------------------------------------------
(* The operations of the queue.                                            *)
OwnerOf(kind, owner) ==
    owner \in PortOwners \cup {NoOwner} /\ (kind = "vout" <=> owner # NoOwner)

LEMMA PortOwnerIs ==
    ASSUME NEW o \in PortOwners
    PROVE  o # NoOwner
  BY QueueAssumption DEF PortOwners, NoOwner

LEMMA KindsAreKinds == Typed => kinds \subseteq Kinds
  BY QueueAssumption DEF Typed

LEMMA HasOwned ==
    ASSUME NEW events, NEW kind
    PROVE  HasIn(events, kind) <=> \E o : Owned(events, kind, o)
  BY DEF HasIn, Owned

LEMMA EventIs ==
    ASSUME Typed, NEW kind \in kinds, NEW owner, OwnerOf(kind, owner)
    PROVE  /\ Event(kind, owner) \in Events /\ WellFormed(Event(kind, owner))
           /\ Event(kind, owner).kind = kind /\ Event(kind, owner).owner = owner
           /\ Stock(Event(kind, owner)) = <<>> /\ ~Event(kind, owner).triggered
<1>1. 0 \in Datas /\ <<>> \in Seq(Numbers) /\ kind \in Kinds
  BY QueueAssumption, KindsAreKinds DEF Datas
<1>2. /\ Event(kind, owner) \in Events
      /\ Event(kind, owner).kind = kind /\ Event(kind, owner).owner = owner
      /\ Event(kind, owner).triggered = FALSE /\ Event(kind, owner).pending = <<>>
      /\ Event(kind, owner).deadline # "none" => kind = "timer"
  BY <1>1 DEF Event, Events, OwnerOf
<1> HIDE DEF Event
<1>3. WellFormed(Event(kind, owner))
  BY <1>2 DEF WellFormed, OwnerOf
<1> QED
  BY <1>2, <1>3 DEF Stock

(* The event that is there takes the new deadline.                         *)
LEMMA RedatedIs ==
    ASSUME Typed, NEW kind \in kinds, NEW owner, NEW e \in Events, WellFormed(e), e.kind = kind
    PROVE  LET d == [e EXCEPT !.deadline = Event(kind, owner).deadline]
           IN  /\ d \in Events /\ WellFormed(d) /\ d.kind = e.kind /\ d.owner = e.owner
               /\ d.triggered = e.triggered /\ d.data = e.data /\ d.pending = e.pending
               /\ Stock(d) = Stock(e)
<1> DEFINE new == Event(kind, owner).deadline
           d == [e EXCEPT !.deadline = new]
<1>1. new \in {"none", "set"} /\ (new # "none" => kind = "timer")
  BY DEF Event
<1> HIDE DEF new
<1>2. /\ d \in Events /\ d.kind = e.kind /\ d.owner = e.owner /\ d.triggered = e.triggered
      /\ d.data = e.data /\ d.pending = e.pending /\ d.deadline = new
  BY <1>1 DEF Events
<1> HIDE DEF d
<1>3. WellFormed(d)
  BY <1>1, <1>2 DEF WellFormed
<1>4. Stock(d) = Stock(e)
  BY <1>2 DEF Stock
<1> QED
  BY <1>2, <1>3, <1>4 DEF d, new

LEMMA AddEventFits ==
    ASSUME Typed, Fit(m_events), NEW kind \in kinds, NEW owner, OwnerOf(kind, owner),
           AddEvent(kind, owner)
    PROVE  /\ Fit(m_events')
           /\ \A k, o : Owned(m_events', k, o) <=>
                 Owned(m_events, k, o) \/ (~Has(kind) /\ k = kind /\ o = owner)
<1>1. CASE Has(kind)
  <2> DEFINE redated(e) == IF e.kind = kind
                           THEN [e EXCEPT !.deadline = Event(kind, owner).deadline] ELSE e
  <2>1. m_events' = [i \in DOMAIN m_events |-> redated(m_events[i])]
    BY <1>1 DEF AddEvent
  <2>2. m_events \in Seq(Events) /\ \A i \in DOMAIN m_events :
            m_events[i] \in Events /\ WellFormed(m_events[i])
    BY DEF Fit
  <2>3. \A i \in DOMAIN m_events :
            /\ redated(m_events[i]) \in Events /\ WellFormed(redated(m_events[i]))
            /\ redated(m_events[i]).kind = m_events[i].kind
            /\ redated(m_events[i]).owner = m_events[i].owner
    BY <2>2, RedatedIs
  <2> HIDE DEF redated
  <2>4. /\ m_events' \in Seq(Events) /\ Len(m_events') = Len(m_events)
        /\ \A i \in DOMAIN m_events : m_events'[i] = redated(m_events[i])
    BY <2>1, <2>2, <2>3
  <2>5. Follows(m_events', m_events)
    BY <2>3, <2>4 DEF Follows
  <2> QED
    BY <1>1, <2>5, FollowsFits DEF SameOwned
<1>2. CASE ~Has(kind)
  <2>1. m_events' = Append(m_events, Event(kind, owner))
    BY <1>2 DEF AddEvent
  <2>2. ~HasIn(m_events, kind)
    BY <1>2 DEF Has, HasIn
  <2> QED
    BY <1>2, <2>1, <2>2, EventIs, AppendFits
<1> QED
  BY <1>1, <1>2

LEMMA TriggerFits ==
    ASSUME Typed, Fit(m_events), NEW kind, TriggerEvent(kind)
    PROVE  /\ Fit(m_events') /\ SameOwned(m_events', m_events)
           /\ triggers' \in Numbers /\ triggers' = triggers + 1
           /\ \A i \in DOMAIN m_events : m_events'[i] =
                 IF m_events[i].kind = kind THEN Fired(m_events[i], triggers') ELSE m_events[i]
           /\ DOMAIN m_events' = DOMAIN m_events
<1>1. triggers' \in Numbers /\ triggers' = triggers + 1
  BY QueueAssumption DEF TriggerEvent, Typed, Numbers
<1> DEFINE new(e) == IF e.kind = kind THEN Fired(e, triggers') ELSE e
<1>2. m_events' = [i \in DOMAIN m_events |-> new(m_events[i])]
  BY DEF TriggerEvent
<1>3. m_events \in Seq(Events) /\ \A i \in DOMAIN m_events :
          m_events[i] \in Events /\ WellFormed(m_events[i])
  BY DEF Fit
<1>4. \A i \in DOMAIN m_events :
          /\ new(m_events[i]) \in Events /\ WellFormed(new(m_events[i]))
          /\ new(m_events[i]).kind = m_events[i].kind
          /\ new(m_events[i]).owner = m_events[i].owner
  BY <1>1, <1>3, FiredIs
<1>5. \A i \in DOMAIN m_events : m_events'[i] = new(m_events[i])
  BY <1>2
<1>6. DOMAIN m_events' = DOMAIN m_events
  BY <1>2
<1> HIDE DEF new
<1>7. m_events' \in Seq(Events) /\ Len(m_events') = Len(m_events)
  BY <1>2, <1>3, <1>4
<1>8. Follows(m_events', m_events)
  BY <1>4, <1>5, <1>7 DEF Follows
<1> QED
  BY <1>1, <1>5, <1>6, <1>8, FollowsFits DEF new

LEMMA AtIs ==
    ASSUME NEW kind, Has(kind)
    PROVE  At(kind) \in DOMAIN m_events /\ m_events[At(kind)].kind = kind
  BY DEF Has, At

LEMMA DeleteFits ==
    ASSUME Fit(m_events), NEW kind, DeleteEvent(kind)
    PROVE  /\ Fit(m_events')
           /\ \A k, o : Owned(m_events', k, o) <=> Owned(m_events, k, o) /\ k # kind
           /\ \A i \in DOMAIN m_events' : \E j \in DOMAIN m_events : m_events'[i] = m_events[j]
<1>1. CASE Has(kind)
  BY <1>1, AtIs, RemoveFits DEF DeleteEvent
<1>2. CASE ~Has(kind)
  BY <1>2 DEF DeleteEvent, Has, Owned
<1> QED
  BY <1>1, <1>2

LEMMA TimerFits ==
    ASSUME Fit(m_events), NEW i \in DOMAIN m_events, m_events[i].deadline = "set",
           m_events' = [m_events EXCEPT ![i].deadline = "passed"]
    PROVE  /\ Fit(m_events') /\ SameOwned(m_events', m_events)
           /\ m_events[i].kind = "timer" /\ DOMAIN m_events' = DOMAIN m_events
           /\ \A j \in DOMAIN m_events : j # i => m_events'[j] = m_events[j]
           /\ m_events'[i].kind = "timer"
<1> DEFINE e == m_events[i]
           d == [e EXCEPT !.deadline = "passed"]
<1>1. m_events \in Seq(Events) /\ e \in Events /\ WellFormed(e)
      /\ \A j \in DOMAIN m_events : m_events[j] \in Events /\ WellFormed(m_events[j])
  BY DEF Fit
<1>2. e.kind = "timer"
  BY <1>1 DEF WellFormed
<1>3. /\ d \in Events /\ d.kind = e.kind /\ d.owner = e.owner /\ d.triggered = e.triggered
      /\ d.pending = e.pending
  BY <1>1 DEF Events
<1>4. m_events' = [m_events EXCEPT ![i] = d]
  OBVIOUS
<1> HIDE DEF d, e
<1>5. WellFormed(d)
  BY <1>1, <1>2, <1>3 DEF WellFormed
<1>6. /\ DOMAIN m_events' = DOMAIN m_events /\ m_events'[i] = d
      /\ \A j \in DOMAIN m_events : j # i => m_events'[j] = m_events[j]
  BY <1>4
<1>7. m_events' \in Seq(Events) /\ Len(m_events') = Len(m_events)
  BY <1>1, <1>3, <1>4
<1>8. Follows(m_events', m_events)
  BY <1>1, <1>3, <1>5, <1>6, <1>7 DEF Follows, e
<1> QED
  BY <1>2, <1>3, <1>6, <1>8, FollowsFits DEF e

(* One turn of a wait: what the events are before and after it.            *)
Turn(t, events, taken) ==
    /\ events = [i \in DOMAIN m_events |-> Expired(m_events[i])]
    /\ taken = Taken(events, call[t].num)
    /\ m_events' = Erased([i \in DOMAIN events |-> Rest(events[i], taken[i])], taken)
    /\ got' = [k \in Counted |->
                  IF Has(k) THEN got[k] \o SubSeq(Stock(events[At(k)]), 1, taken[At(k)])
                  ELSE got[k]]

LEMMA TurnFits ==
    ASSUME Fit(m_events), NEW t, call[t].num \in Nat, NEW events, NEW taken,
           Turn(t, events, taken)
    PROVE  /\ Fit(m_events')
           /\ \A k, o : k # "timer" =>
                 (Owned(m_events', k, o) <=> Owned(m_events, k, o))
           /\ \A k, o : Owned(m_events', k, o) => Owned(m_events, k, o)
           /\ events \in Seq(Events) /\ TakesAtMost(events, taken)
           /\ DOMAIN events = DOMAIN m_events
           /\ \A i \in DOMAIN m_events :
                 /\ WellFormed(events[i]) /\ events[i].kind = m_events[i].kind
                 /\ m_events[i].kind # "timer" => events[i] = m_events[i]
           /\ \A j \in DOMAIN m_events' : \E i \in DOMAIN m_events :
                 m_events'[j] = Rest(events[i], taken[i])
<1>1. m_events \in Seq(Events) /\ \A i \in DOMAIN m_events :
          m_events[i] \in Events /\ WellFormed(m_events[i])
  BY DEF Fit
<1>2. DOMAIN events = DOMAIN m_events /\ \A i \in DOMAIN m_events : events[i] = Expired(m_events[i])
  BY DEF Turn
<1>3. \A i \in DOMAIN m_events :
          /\ events[i] \in Events /\ WellFormed(events[i])
          /\ events[i].kind = m_events[i].kind /\ events[i].owner = m_events[i].owner
          /\ m_events[i].kind # "timer" => events[i] = m_events[i]
  BY <1>1, <1>2, ExpiredIs
<1>4. events \in Seq(Events) /\ Len(events) = Len(m_events)
  BY <1>1, <1>2, <1>3 DEF Turn
<1>5. TakesAtMost(events, taken)
  BY <1>4, TakenFits DEF Turn
<1> DEFINE kept == [i \in DOMAIN events |-> Rest(events[i], taken[i])]
<1>6. \A i \in DOMAIN m_events :
          /\ Rest(events[i], taken[i]) \in Events /\ WellFormed(Rest(events[i], taken[i]))
          /\ Rest(events[i], taken[i]).kind = m_events[i].kind
          /\ Rest(events[i], taken[i]).owner = m_events[i].owner
  BY <1>2, <1>3, <1>5, RestIs DEF TakesAtMost
<1>7. DOMAIN kept = DOMAIN m_events /\ \A i \in DOMAIN m_events : kept[i] = Rest(events[i], taken[i])
  BY <1>2
<1>8. kept \in Seq(Events) /\ Len(kept) = Len(m_events)
  BY <1>1, <1>2, <1>6
<1>9. m_events' = Erased(kept, taken)
  BY DEF Turn
<1> HIDE DEF kept
<1>10. Follows(kept, m_events)
  BY <1>6, <1>7, <1>8 DEF Follows
<1>11. Fit(kept) /\ SameOwned(kept, m_events)
  BY <1>10, FollowsFits
<1>12. CASE Has("timer") /\ taken[At("timer")] > 0
  <2>1. m_events' = RemoveAt(kept, At("timer"))
    BY <1>9, <1>12 DEF Erased
  <2>2. At("timer") \in DOMAIN m_events /\ m_events[At("timer")].kind = "timer"
    BY <1>12, AtIs
  <2>3. At("timer") \in DOMAIN kept /\ kept[At("timer")].kind = "timer"
    BY <2>2, <1>6, <1>7
  <2>4. /\ Fit(m_events')
        /\ \A j \in DOMAIN m_events' : \E i \in DOMAIN kept : m_events'[j] = kept[i]
        /\ \A k, o : Owned(m_events', k, o) <=> Owned(kept, k, o) /\ k # "timer"
    BY <2>1, <2>3, <1>11, RemoveFits
  <2>5. \A j \in DOMAIN m_events' : \E i \in DOMAIN m_events :
            m_events'[j] = Rest(events[i], taken[i])
    BY <2>4, <1>7
  <2> QED
    BY <2>4, <2>5, <1>11, <1>2, <1>3, <1>4, <1>5 DEF SameOwned
<1>13. CASE ~(Has("timer") /\ taken[At("timer")] > 0)
  <2>1. m_events' = kept
    BY <1>9, <1>13 DEF Erased
  <2> QED
    BY <2>1, <1>11, <1>7, <1>2, <1>3, <1>4, <1>5 DEF SameOwned
<1> QED
  BY <1>12, <1>13

-----------------------------------------------------------------------------
(* What was triggered and what was returned.                               *)
HistoryTyped == sent \in [Counted -> Seq(Numbers)] /\ got \in [Counted -> Seq(Datas)]

LEMMA HistoryIsTyped == Typed => HistoryTyped
  BY DEF Typed, HistoryTyped

LEMMA EdgeCounted == "edge" \in Counted /\ "edge" \notin Queued /\ Queued \subseteq Counted
                     /\ "timer" \notin Counted /\ "level" \notin Counted
  BY DEF Counted, Queued

AppendsLast(s, r, x) == Append(s \o r, x) = s \o Append(r, x)

LEMMA AppendLast ==
    ASSUME NEW S, NEW s \in Seq(S), NEW r \in Seq(S), NEW x \in S
    PROVE  AppendsLast(s, r, x)
  BY DEF AppendsLast

LEMMA MembersOf ==
    ASSUME NEW S, NEW s \in Seq(S)
    PROVE  \A i \in DOMAIN s : s[i] \in S
  OBVIOUS

LEMMA HistoryOfNumbers ==
    ASSUME HistoryTyped, NEW kind \in Counted
    PROVE  sent[kind] \in Seq(Nat) /\ got[kind] \in Seq(Nat)
<1>1. sent[kind] \in Seq(Numbers) /\ got[kind] \in Seq(Datas)
  BY DEF HistoryTyped
<1>2. Numbers \subseteq Nat /\ Datas \subseteq Nat
  BY DEF Numbers, Datas
<1> QED
  BY <1>1, <1>2, SeqMonotonic, Zenon

(* The events are as before, or new and not triggered yet.                 *)
Kept(e, events) == \E i \in DOMAIN events :
    /\ events[i].kind = e.kind /\ Stock(events[i]) = Stock(e)
    /\ events[i].triggered = e.triggered /\ events[i].data = e.data

LEMMA KeptData ==
    ASSUME DataInv, sent' = sent, got' = got, triggers' = triggers,
           \A i \in DOMAIN m_events' :
              m_events'[i].kind \in Counted => Kept(m_events'[i], m_events)
    PROVE  DataInv'
<1>1. NothingLost'
  <2> SUFFICES ASSUME NEW i \in DOMAIN m_events', m_events'[i].kind \in Queued
               PROVE  sent[m_events'[i].kind] = got[m_events'[i].kind] \o Stock(m_events'[i])
    BY DEF NothingLost, Stock
  <2>1. PICK j \in DOMAIN m_events :
            /\ m_events[j].kind = m_events'[i].kind /\ Stock(m_events[j]) = Stock(m_events'[i])
    BY EdgeCounted DEF Kept
  <2> QED
    BY <2>1 DEF DataInv, NothingLost
<1>2. EdgeInv'
  <2>1. ASSUME NEW i \in DOMAIN m_events', m_events'[i].kind = "edge", m_events'[i].triggered
        PROVE  /\ Len(got["edge"]) < Len(sent["edge"])
               /\ m_events'[i].data = Last(sent["edge"])
               /\ m_events'[i].data \notin Range(got["edge"])
    <3>1. PICK j \in DOMAIN m_events :
              /\ m_events[j].kind = "edge" /\ m_events[j].triggered
              /\ m_events[j].data = m_events'[i].data
      BY <2>1, EdgeCounted DEF Kept
    <3> QED
      BY <3>1 DEF DataInv, EdgeInv
  <2> QED
    BY <2>1 DEF DataInv, EdgeInv
<1> QED
  BY <1>1, <1>2 DEF DataInv

LEMMA AddEventData ==
    ASSUME Typed, Fit(m_events), DataInv, NEW kind \in kinds, NEW owner, OwnerOf(kind, owner),
           AddEvent(kind, owner), triggers' = triggers
    PROVE  DataInv' /\ HistoryTyped'
<1>0. m_events \in Seq(Events) /\ \A i \in DOMAIN m_events :
          m_events[i] \in Events /\ WellFormed(m_events[i])
  BY DEF Fit
<1>1. CASE Has(kind)
  <2> DEFINE d(e) == [e EXCEPT !.deadline = Event(kind, owner).deadline]
  <2>1. sent' = sent /\ got' = got /\ DOMAIN m_events' = DOMAIN m_events
        /\ \A i \in DOMAIN m_events :
              m_events'[i] = IF m_events[i].kind = kind THEN d(m_events[i]) ELSE m_events[i]
    BY <1>1 DEF AddEvent, history
  <2>2. \A i \in DOMAIN m_events : m_events[i].kind = kind =>
            /\ d(m_events[i]).kind = m_events[i].kind
            /\ d(m_events[i]).triggered = m_events[i].triggered
            /\ d(m_events[i]).data = m_events[i].data
            /\ Stock(d(m_events[i])) = Stock(m_events[i])
    BY <1>0, RedatedIs
  <2> HIDE DEF d
  <2>3. \A i \in DOMAIN m_events' : Kept(m_events'[i], m_events)
    BY <2>1, <2>2 DEF Kept
  <2> QED
    BY <2>1, <2>3, KeptData, HistoryIsTyped DEF HistoryTyped
<1>2. CASE ~Has(kind)
  <2> DEFINE e == Event(kind, owner)
             n == Len(m_events)
  <2>1. /\ m_events' = Append(m_events, e)
        /\ sent' = [k \in Counted |-> IF k = kind THEN <<>> ELSE sent[k]]
        /\ got' = [k \in Counted |-> IF k = kind THEN <<>> ELSE got[k]]
    BY <1>2 DEF AddEvent
  <2>2. /\ \A i \in 1..n : m_events'[i] = m_events[i] /\ m_events[i].kind # kind
        /\ m_events'[n + 1] = e /\ e.kind = kind /\ ~e.triggered /\ Stock(e) = <<>>
        /\ \A i \in DOMAIN m_events' : i \in 1..n \/ i = n + 1
        /\ DOMAIN m_events = 1..n
    <3>1. e.kind = kind /\ ~e.triggered /\ Stock(e) = <<>>
      BY EventIs
    <3> HIDE DEF e
    <3> QED
      BY <2>1, <3>1, <1>0, <1>2 DEF Has
  <2> HIDE DEF e, n
  <2>3. HistoryTyped'
    <3>1. <<>> \in Seq(Numbers) /\ <<>> \in Seq(Datas)
      OBVIOUS
    <3>2. HistoryTyped
      BY HistoryIsTyped
    <3> QED
      BY <2>1, <3>1, <3>2 DEF HistoryTyped
  <2>4. NothingLost'
    <3> SUFFICES ASSUME NEW i \in DOMAIN m_events', m_events'[i].kind \in Queued
                 PROVE  sent'[m_events'[i].kind] = got'[m_events'[i].kind] \o Stock(m_events'[i])
      BY DEF NothingLost, Stock
    <3>1. CASE i \in 1..n
      <4>1. m_events'[i] = m_events[i] /\ m_events[i].kind # kind
        BY <3>1, <2>2
      <4>2. sent[m_events[i].kind] = got[m_events[i].kind] \o Stock(m_events[i])
        BY <3>1, <2>2, <4>1 DEF DataInv, NothingLost
      <4> QED
        BY <2>1, <4>1, <4>2, EdgeCounted
    <3>2. CASE i = n + 1
      <4>1. m_events'[i].kind = kind /\ Stock(m_events'[i]) = <<>>
        BY <3>2, <2>2
      <4>2. sent'[kind] = <<>> /\ got'[kind] = <<>>
        BY <2>1, <4>1, EdgeCounted
      <4>3. <<>> = <<>> \o <<>>
        OBVIOUS
      <4> QED
        BY <4>1, <4>2, <4>3
    <3> QED
      BY <3>1, <3>2, <2>2
  <2>5. EdgeInv'
    <3>1. CASE kind = "edge"
      <4>1. sent'["edge"] = <<>> /\ got'["edge"] = <<>>
        BY <3>1, <2>1, EdgeCounted
      <4>2. \A i \in DOMAIN m_events' : m_events'[i].kind = "edge" => ~m_events'[i].triggered
        BY <3>1, <2>2
      <4>3. /\ DOMAIN <<>> = {} /\ Len(<<>>) = 0 /\ IsInjective(<<>>)
        BY DEF IsInjective
      <4> QED
        BY <4>1, <4>2, <4>3 DEF EdgeInv
    <3>2. CASE kind # "edge"
      <4>1. sent'["edge"] = sent["edge"] /\ got'["edge"] = got["edge"]
        BY <3>2, <2>1, EdgeCounted
      <4>2. \A i \in DOMAIN m_events' : m_events'[i].kind = "edge" =>
                i \in DOMAIN m_events /\ m_events'[i] = m_events[i]
        BY <3>2, <2>2
      <4> QED
        BY <4>1, <4>2 DEF EdgeInv, DataInv
    <3> QED
      BY <3>1, <3>2
  <2> QED
    BY <2>3, <2>4, <2>5 DEF DataInv
<1> QED
  BY <1>1, <1>2

LEMMA DeleteEventData ==
    ASSUME Typed, Fit(m_events), DataInv, NEW kind, DeleteEvent(kind),
           sent' = sent, got' = got, triggers' = triggers
    PROVE  DataInv' /\ HistoryTyped'
<1>1. \A i \in DOMAIN m_events' : \E j \in DOMAIN m_events : m_events'[i] = m_events[j]
  BY DeleteFits
<1>2. \A i \in DOMAIN m_events' : Kept(m_events'[i], m_events)
  BY <1>1 DEF Kept
<1> QED
  BY <1>2, KeptData, HistoryIsTyped DEF HistoryTyped

LEMMA TimerData ==
    ASSUME Typed, Fit(m_events), DataInv, NEW i \in DOMAIN m_events,
           m_events[i].deadline = "set",
           m_events' = [m_events EXCEPT ![i].deadline = "passed"],
           sent' = sent, got' = got, triggers' = triggers
    PROVE  DataInv' /\ HistoryTyped'
<1>1. /\ DOMAIN m_events' = DOMAIN m_events /\ m_events'[i].kind = "timer"
      /\ \A j \in DOMAIN m_events : j # i => m_events'[j] = m_events[j]
  BY TimerFits
<1>2. \A j \in DOMAIN m_events' :
          m_events'[j].kind \in Counted => Kept(m_events'[j], m_events)
  BY <1>1, EdgeCounted DEF Kept
<1> QED
  BY <1>2, KeptData, HistoryIsTyped DEF HistoryTyped

LEMMA TriggerData ==
    ASSUME Typed, Fit(m_events), DataInv, NEW kind, TriggerEvent(kind)
    PROVE  DataInv' /\ HistoryTyped'
<1>1. /\ triggers' \in Numbers /\ triggers' = triggers + 1
      /\ \A i \in DOMAIN m_events : m_events'[i] =
            IF m_events[i].kind = kind THEN Fired(m_events[i], triggers') ELSE m_events[i]
      /\ DOMAIN m_events' = DOMAIN m_events
  BY TriggerFits
<1>2. /\ sent' = [k \in Counted |-> IF k = kind THEN Append(sent[k], triggers') ELSE sent[k]]
      /\ got' = got
  BY DEF TriggerEvent
<1>3. HistoryTyped /\ triggers \in Nat
  BY HistoryIsTyped DEF Typed
<1>4. \A i \in DOMAIN m_events : m_events[i] \in Events /\ WellFormed(m_events[i])
  BY DEF Fit
<1>5. HistoryTyped'
  BY <1>1, <1>2, <1>3 DEF HistoryTyped
<1>6. NothingLost'
  <2> SUFFICES ASSUME NEW i \in DOMAIN m_events, m_events'[i].kind \in Queued
               PROVE  sent'[m_events'[i].kind] = got[m_events'[i].kind] \o Stock(m_events'[i])
    BY <1>1, <1>2 DEF NothingLost, Stock
  <2>1. CASE m_events[i].kind # kind
    BY <2>1, <1>1, <1>2, EdgeCounted DEF DataInv, NothingLost
  <2>2. CASE m_events[i].kind = kind
    <3>1. /\ m_events'[i] = Fired(m_events[i], triggers') /\ m_events'[i].kind = kind
          /\ Stock(m_events'[i]) = Append(Stock(m_events[i]), triggers')
      <4>1. m_events'[i] = Fired(m_events[i], triggers')
        BY <2>2, <1>1
      <4>2. m_events[i] \in Events /\ WellFormed(m_events[i]) /\ triggers' \in Numbers
        BY <1>1, <1>4
      <4> QED
        BY <2>2, <4>1, <4>2, FiredIs
    <3>2. sent'[kind] = Append(sent[kind], triggers') /\ kind \in Counted
      BY <3>1, <1>2, EdgeCounted
    <3>3. sent[kind] = got[kind] \o Stock(m_events[i])
      BY <2>2, <3>1 DEF DataInv, NothingLost
    <3>4. got[kind] \in Seq(Datas) /\ Stock(m_events[i]) \in Seq(Datas) /\ triggers' \in Datas
      BY <3>2, <1>1, <1>3, <1>4, StockIs DEF HistoryTyped, Numbers, Datas
    <3>5. AppendsLast(got[kind], Stock(m_events[i]), triggers')
      BY <3>4, AppendLast, Zenon
    <3> QED
      BY <3>1, <3>2, <3>3, <3>5, Zenon DEF AppendsLast
  <2> QED
    BY <2>1, <2>2
<1>7. EdgeInv'
  <2>1. CASE kind # "edge"
    <3>1. sent'["edge"] = sent["edge"] /\ got' = got
      BY <2>1, <1>2, EdgeCounted
    <3>2. \A i \in DOMAIN m_events : m_events'[i].kind = "edge" => m_events'[i] = m_events[i]
      BY <2>1, <1>1, <1>4, FiredIs
    <3>3. /\ \A i \in DOMAIN sent["edge"] : sent["edge"][i] <= triggers'
          /\ \A i \in DOMAIN got["edge"] : got["edge"][i] <= triggers'
      <4>2. /\ \A i \in DOMAIN sent["edge"] : sent["edge"][i] \in Nat
            /\ \A i \in DOMAIN got["edge"] : got["edge"][i] \in Nat
        BY <1>3, EdgeCounted, HistoryOfNumbers, MembersOf, Zenon
      <4> QED
        BY <4>2, <1>1, <1>3 DEF DataInv, EdgeInv
    <3> QED
      BY <3>1, <3>2, <3>3, <1>1 DEF DataInv, EdgeInv
  <2>2. CASE kind = "edge"
    <3> DEFINE s == sent["edge"]
               g == got["edge"]
    <3>1. s \in Seq(Numbers) /\ g \in Seq(Datas)
      BY <1>3, EdgeCounted DEF HistoryTyped
    <3>2. /\ \A i \in DOMAIN s : s[i] <= triggers
          /\ \A i \in DOMAIN g : g[i] <= triggers
          /\ Len(g) <= Len(s) /\ IsInjective(g)
      BY DEF DataInv, EdgeInv
    <3>3. sent'["edge"] = Append(s, triggers') /\ got'["edge"] = g
      BY <2>2, <1>2, EdgeCounted
    <3>4. \A i \in DOMAIN m_events : m_events'[i].kind = "edge" => m_events'[i].data = triggers'
      BY <2>2, <1>1, <1>4, FiredIs, EdgeCounted
    <3>5. /\ \A i \in DOMAIN s : s[i] \in Nat
          /\ \A i \in DOMAIN g : g[i] \in Nat
      BY <1>3, EdgeCounted, HistoryOfNumbers, MembersOf, Zenon
    <3> HIDE DEF s, g
    <3>6. /\ Len(Append(s, triggers')) = Len(s) + 1
          /\ Append(s, triggers')[Len(s) + 1] = triggers'
          /\ \A i \in 1..Len(s) : Append(s, triggers')[i] = s[i]
          /\ DOMAIN Append(s, triggers') = 1..(Len(s) + 1)
          /\ Len(s) \in Nat /\ Len(g) \in Nat
      BY <3>1, <1>1
    <3>7. Last(Append(s, triggers')) = triggers'
      BY <3>6 DEF Last
    <3>8. \A i \in DOMAIN Append(s, triggers') : Append(s, triggers')[i] <= triggers'
      <4>1. \A i \in 1..Len(s) : s[i] <= triggers'
        BY <3>1, <3>2, <3>5, <1>1, <1>3
      <4>2. \A i \in 1..(Len(s) + 1) : i \in 1..Len(s) \/ i = Len(s) + 1
        BY <3>6
      <4>3. triggers' <= triggers'
        BY <1>1, <1>3
      <4> QED
        BY <4>1, <4>2, <4>3, <3>6
    <3>9. \A i \in DOMAIN g : g[i] <= triggers' /\ g[i] # triggers'
      BY <3>2, <3>5, <1>1, <1>3
    <3>10. triggers' \notin Range(g)
      BY <3>9 DEF Range
    <3>11. Len(g) < Len(s) + 1 /\ Len(g) <= Len(s) + 1
      BY <3>2, <3>6
    <3> QED
      BY <3>2, <3>3, <3>4, <3>6, <3>7, <3>8, <3>9, <3>10, <3>11, <1>1 DEF EdgeInv
  <2> QED
    BY <2>1, <2>2
<1> QED
  BY <1>5, <1>6, <1>7 DEF DataInv

Regroups(a, b, c) == (a \o b) \o c = a \o (b \o c)

LEMMA Regroup ==
    ASSUME NEW S, NEW a \in Seq(S), NEW b \in Seq(S), NEW c \in Seq(S)
    PROVE  Regroups(a, b, c)
  BY ConcatAssociative, SMT DEF Regroups

(* A wait returns the front of what an event holds and leaves the rest.    *)
Splits(all, n, left) == all = SubSeq(all, 1, n) \o left
GoesOn(s, g, all, n, left) == s = (g \o SubSeq(all, 1, n)) \o left

LEMMA SplitGoesOn ==
    ASSUME NEW S, NEW s, NEW g \in Seq(S), NEW all \in Seq(S), NEW n \in Nat, NEW left \in Seq(S),
           n <= Len(all), s = g \o all, Splits(all, n, left)
    PROVE  GoesOn(s, g, all, n, left)
<1> DEFINE front == SubSeq(all, 1, n)
<1>1. front \in Seq(S)
  <2>1. \A i \in 1..n : all[i] \in S
    OBVIOUS
  <2> QED
    BY <2>1, SubSeqProperties
<1>2. all = front \o left
  BY DEF Splits
<1> HIDE DEF front
<1>3. (g \o front) \o left = g \o (front \o left)
  BY <1>1, Regroup DEF Regroups
<1> QED
  BY <1>1, <1>2, <1>3 DEF front, GoesOn

LEMMA FrontIsTyped ==
    ASSUME NEW S, NEW all \in Seq(S), NEW n \in Nat, n <= Len(all)
    PROVE  /\ SubSeq(all, 1, n) \in Seq(S) /\ Len(SubSeq(all, 1, n)) = n
           /\ n = 0 => SubSeq(all, 1, n) = <<>>
           /\ n = 1 => SubSeq(all, 1, n) = <<all[1]>>
<1>1. \A i \in 1..n : all[i] \in S
  OBVIOUS
<1>2. SubSeq(all, 1, n) \in Seq(S) /\ Len(SubSeq(all, 1, n)) = n
      /\ \A i \in 1..n : SubSeq(all, 1, n)[i] = all[i]
  <2>1. (IF 1 <= n THEN n - 1 + 1 ELSE 0) = n /\ n - 1 + 1 = n /\ \A i \in 1..n : 1 + i - 1 = i
    OBVIOUS
  <2> QED
    BY <1>1, <2>1, SubSeqProperties
<1> DEFINE front == SubSeq(all, 1, n)
<1>3. front \in Seq(S) /\ Len(front) = n /\ \A i \in 1..n : front[i] = all[i]
  BY <1>2
<1> HIDE DEF front
<1>4. n = 0 => front = <<>>
  BY <1>3, EmptySeq
<1>5. ASSUME n = 1 PROVE front = <<all[1]>>
  <2>1. all[1] \in S /\ Len(front) = 1 /\ front[1] = all[1]
    BY <1>3, <1>5
  <2>2. <<all[1]>> \in Seq(S) /\ Len(<<all[1]>>) = 1 /\ <<all[1]>>[1] = all[1]
    BY <2>1
  <2>3. \A i \in 1..1 : front[i] = <<all[1]>>[i]
    BY <2>1, <2>2
  <2> QED
    BY <1>3, <2>1, <2>2, <2>3, SeqEqual
<1> QED
  BY <1>3, <1>4, <1>5 DEF front

LEMMA TurnData ==
    ASSUME Typed, Fit(m_events), DataInv, NEW t, call[t].num \in Nat, NEW events, NEW taken,
           Turn(t, events, taken), sent' = sent, triggers' = triggers
    PROVE  DataInv' /\ HistoryTyped'
<1>1. m_events \in Seq(Events) /\ \A i \in DOMAIN m_events :
          m_events[i] \in Events /\ WellFormed(m_events[i])
  BY DEF Fit
<1>2. /\ TakesAtMost(events, taken) /\ DOMAIN events = DOMAIN m_events
      /\ \A i \in DOMAIN m_events :
            /\ events[i].kind = m_events[i].kind
            /\ m_events[i].kind # "timer" => events[i] = m_events[i]
      /\ \A j \in DOMAIN m_events' : \E i \in DOMAIN m_events :
            m_events'[j] = Rest(events[i], taken[i])
  BY TurnFits
<1>3. \A i \in DOMAIN m_events : m_events[i].kind \in Counted =>
          /\ events[i] = m_events[i] /\ taken[i] \in Nat /\ taken[i] <= Len(Stock(m_events[i]))
          /\ Rest(m_events[i], taken[i]) \in Events
          /\ Rest(m_events[i], taken[i]).kind = m_events[i].kind
          /\ Splits(Stock(m_events[i]), taken[i], Stock(Rest(m_events[i], taken[i])))
  <2> SUFFICES ASSUME NEW i \in DOMAIN m_events, m_events[i].kind \in Counted
               PROVE  /\ events[i] = m_events[i] /\ taken[i] \in Nat
                      /\ taken[i] <= Len(Stock(m_events[i]))
                      /\ Rest(m_events[i], taken[i]) \in Events
                      /\ Rest(m_events[i], taken[i]).kind = m_events[i].kind
                      /\ Splits(Stock(m_events[i]), taken[i], Stock(Rest(m_events[i], taken[i])))
    OBVIOUS
  <2>1. m_events[i].kind # "timer" /\ m_events[i].kind # "level"
    BY EdgeCounted
  <2>2. events[i] = m_events[i]
    BY <2>1, <1>2
  <2>3. taken[i] \in Nat /\ taken[i] <= Len(Stock(m_events[i]))
    BY <2>1, <2>2, <1>2 DEF TakesAtMost
  <2>4. m_events[i] \in Events /\ WellFormed(m_events[i])
    BY <1>1
  <2> QED
    BY <2>2, <2>3, <2>4, RestIs DEF Splits
<1>4. \A j \in DOMAIN m_events' : m_events'[j].kind \in Counted =>
          \E i \in DOMAIN m_events : /\ m_events'[j] = Rest(m_events[i], taken[i])
                                     /\ m_events[i].kind = m_events'[j].kind
                                     /\ i = At(m_events'[j].kind) /\ Has(m_events'[j].kind)
  <2> SUFFICES ASSUME NEW j \in DOMAIN m_events', m_events'[j].kind \in Counted
               PROVE  \E i \in DOMAIN m_events :
                         /\ m_events'[j] = Rest(m_events[i], taken[i])
                         /\ m_events[i].kind = m_events'[j].kind
                         /\ i = At(m_events'[j].kind) /\ Has(m_events'[j].kind)
    OBVIOUS
  <2>1. PICK i \in DOMAIN m_events : m_events'[j] = Rest(events[i], taken[i])
    BY <1>2
  <2>2. events[i] \in Events /\ WellFormed(events[i]) /\ taken[i] \in Nat
        /\ (events[i].kind # "level" => taken[i] <= Len(Stock(events[i])))
    BY TurnFits, <1>2 DEF TakesAtMost
  <2>3. m_events'[j].kind = events[i].kind
    BY <2>1, <2>2, RestIs
  <2>4. m_events'[j].kind = m_events[i].kind
    BY <2>3, <1>2
  <2>5. events[i] = m_events[i]
    BY <2>4, <1>3
  <2>6. Has(m_events'[j].kind)
    BY <2>4 DEF Has
  <2>7. i = At(m_events'[j].kind)
    BY <2>4, <2>6, AtIs DEF Fit
  <2> QED
    BY <2>1, <2>4, <2>5, <2>6, <2>7
<1> DEFINE front(k) == SubSeq(Stock(m_events[At(k)]), 1, taken[At(k)])
<1>5. \A k \in Counted : Has(k) => /\ At(k) \in DOMAIN m_events /\ m_events[At(k)].kind = k
                                   /\ got'[k] = got[k] \o front(k)
  <2> SUFFICES ASSUME NEW k \in Counted, Has(k)
               PROVE  /\ At(k) \in DOMAIN m_events /\ m_events[At(k)].kind = k
                      /\ got'[k] = got[k] \o front(k)
    OBVIOUS
  <2>1. At(k) \in DOMAIN m_events /\ m_events[At(k)].kind = k
    BY AtIs
  <2>2. events[At(k)] = m_events[At(k)]
    BY <2>1, <1>3
  <2> QED
    BY <2>1, <2>2 DEF Turn
<1>6. \A k \in Counted : ~Has(k) => got'[k] = got[k]
  BY DEF Turn
<1>7. HistoryTyped
  BY HistoryIsTyped
<1>8. \A k \in Counted : Has(k) => /\ front(k) \in Seq(Datas) /\ Len(front(k)) = taken[At(k)]
                                   /\ taken[At(k)] = 0 => front(k) = <<>>
                                   /\ taken[At(k)] = 1 => front(k) = <<Stock(m_events[At(k)])[1]>>
  <2> SUFFICES ASSUME NEW k \in Counted, Has(k)
               PROVE  /\ front(k) \in Seq(Datas) /\ Len(front(k)) = taken[At(k)]
                      /\ taken[At(k)] = 0 => front(k) = <<>>
                      /\ taken[At(k)] = 1 => front(k) = <<Stock(m_events[At(k)])[1]>>
    OBVIOUS
  <2>1. /\ m_events[At(k)] \in Events /\ taken[At(k)] \in Nat
        /\ taken[At(k)] <= Len(Stock(m_events[At(k)]))
    BY <1>1, <1>3, <1>5
  <2>2. Stock(m_events[At(k)]) \in Seq(Datas)
    BY <2>1, StockIs
  <2> QED
    BY <2>1, <2>2, FrontIsTyped
<1>9. HistoryTyped'
  <2>1. \A k \in Counted : got'[k] \in Seq(Datas)
    <3> SUFFICES ASSUME NEW k \in Counted PROVE got'[k] \in Seq(Datas)
      OBVIOUS
    <3>1. got[k] \in Seq(Datas)
      BY <1>7 DEF HistoryTyped
    <3>2. CASE Has(k)
      <4>1. front(k) \in Seq(Datas) /\ got'[k] = got[k] \o front(k)
        BY <3>2, <1>5, <1>8
      <4> HIDE DEF front
      <4> QED
        BY <3>1, <4>1, ConcatProperties
    <3>3. CASE ~Has(k)
      BY <3>1, <3>3, <1>6
    <3> QED
      BY <3>2, <3>3
  <2>2. DOMAIN got' = Counted /\ got' = [k \in Counted |-> got'[k]]
    BY DEF Turn
  <2> QED
    BY <1>7, <2>1, <2>2 DEF HistoryTyped
<1>10. NothingLost'
  <2> SUFFICES ASSUME NEW j \in DOMAIN m_events', m_events'[j].kind \in Queued
               PROVE  sent[m_events'[j].kind] = got'[m_events'[j].kind] \o Stock(m_events'[j])
    BY DEF NothingLost, Stock
  <2> DEFINE k == m_events'[j].kind
             e == m_events[At(k)]
             n == taken[At(k)]
  <2>1. k \in Counted
    BY EdgeCounted
  <2>2. Has(k) /\ At(k) \in DOMAIN m_events /\ e.kind = k /\ m_events'[j] = Rest(e, n)
    BY <2>1, <1>4
  <2>3. /\ e \in Events /\ n \in Nat /\ n <= Len(Stock(e)) /\ Rest(e, n) \in Events
        /\ Splits(Stock(e), n, Stock(Rest(e, n)))
    BY <2>1, <2>2, <1>1, <1>3
  <2>4. sent[k] = got[k] \o Stock(e)
    BY <2>2 DEF DataInv, NothingLost
  <2>5. got[k] \in Seq(Datas) /\ Stock(e) \in Seq(Datas) /\ Stock(Rest(e, n)) \in Seq(Datas)
    BY <2>1, <2>3, <1>7, StockIs DEF HistoryTyped
  <2>6. got'[k] = got[k] \o SubSeq(Stock(e), 1, n)
    BY <2>1, <2>2, <1>5
  <2> HIDE DEF k, e, n
  <2>7. GoesOn(sent[k], got[k], Stock(e), n, Stock(Rest(e, n)))
    BY <2>3, <2>4, <2>5, SplitGoesOn
  <2>8. sent[k] = got'[k] \o Stock(m_events'[j])
    BY <2>2, <2>6, <2>7, Zenon DEF GoesOn
  <2> QED
    BY <2>8 DEF k
<1>11. EdgeInv'
  <2> DEFINE s == sent["edge"]
             g == got["edge"]
             k == "edge"
             e == m_events[At(k)]
             n == taken[At(k)]
  <2>1. /\ \A i \in DOMAIN s : s[i] <= triggers
        /\ \A i \in DOMAIN g : g[i] <= triggers
        /\ Len(g) <= Len(s) /\ IsInjective(g)
    BY DEF DataInv, EdgeInv
  <2>2. \A j \in DOMAIN m_events' : m_events'[j].kind = "edge" =>
            Has("edge") /\ m_events'[j] = Rest(e, n)
    BY <1>4, EdgeCounted
  <2>3. CASE ~Has("edge")
    <3>1. got'["edge"] = g
      BY <2>3, <1>6, EdgeCounted
    <3> QED
      BY <2>1, <2>2, <2>3, <3>1 DEF EdgeInv
  <2>4. CASE Has("edge")
    <3>1. /\ At(k) \in DOMAIN m_events /\ e.kind = "edge" /\ e \in Events /\ WellFormed(e)
          /\ n \in Nat /\ n <= Len(Stock(e))
      BY <2>4, <1>1, <1>3, <1>5, EdgeCounted
    <3>2. e.pending = <<>> /\ Len(<<>>) = 0
      BY <3>1, EdgeCounted DEF WellFormed
    <3>3. CASE n = 0
      <4>1. got'["edge"] = g \o <<>> /\ g \in Seq(Datas)
        BY <2>4, <3>3, <1>5, <1>7, <1>8, EdgeCounted DEF HistoryTyped
      <4>2. got'["edge"] = g
        BY <4>1, ConcatEmptySeq
      <4>3. Rest(e, n) = e
        BY <3>3 DEF Rest
      <4>4. \A j \in DOMAIN m_events' : m_events'[j].kind = "edge" => m_events'[j] = e
        BY <2>2, <4>3
      <4> QED
        BY <2>1, <4>2, <4>4, <3>1 DEF EdgeInv, DataInv
    <3>4. CASE n # 0
      <4>1. e.triggered
        <5>1. Stock(e) # <<>>
          BY <3>1, <3>4
        <5> QED
          BY <3>1, <5>1, StockIs
      <4>2. n = 1 /\ Stock(e)[1] = e.data
        BY <3>1, <3>2, <3>4, <4>1, StockIs
      <4>3. /\ Len(g) < Len(s) /\ e.data = Last(s) /\ e.data \notin Range(g)
        BY <3>1, <4>1 DEF DataInv, EdgeInv
      <4>4. got'["edge"] = g \o <<e.data>>
        <5>1. front("edge") = <<e.data>> /\ got'["edge"] = g \o front("edge")
          BY <2>4, <4>2, <1>5, <1>8, EdgeCounted
        <5> HIDE DEF front, e, g
        <5> QED
          BY <5>1, Zenon
      <4>5. Rest(e, n).triggered = FALSE
        <5>1. n > Len(e.pending)
          BY <3>2, <4>2
        <5>2. Rest(e, n) = [e EXCEPT !.triggered = FALSE, !.data = 0, !.pending = <<>>]
          BY <5>1, <3>1, <3>4 DEF Rest
        <5> QED
          BY <5>2, <3>1 DEF Events
      <4>6. \A j \in DOMAIN m_events' : ~(m_events'[j].kind = "edge" /\ m_events'[j].triggered)
        BY <2>2, <4>5
      <4>7. s \in Seq(Numbers) /\ g \in Seq(Datas) /\ e.data \in Datas
        BY <3>1, <1>7, EdgeCounted DEF HistoryTyped, Events
      <4>8. e.data <= triggers
        <5>1. Len(s) \in DOMAIN s /\ Last(s) = s[Len(s)]
          BY <4>3, <4>7 DEF Last
        <5> QED
          BY <2>1, <4>3, <5>1
      <4> DEFINE d == e.data
                 h == g \o <<d>>
      <4> HIDE DEF s, g, d
      <4>9. /\ Len(h) = Len(g) + 1 /\ h[Len(g) + 1] = d /\ \A i \in 1..Len(g) : h[i] = g[i]
            /\ DOMAIN h = 1..(Len(g) + 1) /\ DOMAIN g = 1..Len(g) /\ Len(g) \in Nat
            /\ Len(s) \in Nat
        BY <4>7 DEF d
      <4> HIDE DEF h
      <4>10. \A i \in 1..(Len(g) + 1) : i \in 1..Len(g) \/ i = Len(g) + 1
        BY <4>9
      <4>11. \A i \in DOMAIN h : h[i] <= triggers
        BY <2>1, <4>8, <4>9, <4>10 DEF d
      <4>12. IsInjective(h)
        <5> SUFFICES ASSUME NEW i \in 1..(Len(g) + 1), NEW j \in 1..(Len(g) + 1), h[i] = h[j]
                     PROVE  i = j
          BY <4>9 DEF IsInjective
        <5>1. \A l \in 1..Len(g) : g[l] # d
          BY <4>3, <4>9 DEF Range, d
        <5>2. CASE i \in 1..Len(g) /\ j \in 1..Len(g)
          BY <5>2, <2>1, <4>9 DEF IsInjective
        <5>3. CASE i \in 1..Len(g) /\ j = Len(g) + 1
          BY <5>1, <5>3, <4>9
        <5>4. CASE i = Len(g) + 1 /\ j \in 1..Len(g)
          BY <5>1, <5>4, <4>9
        <5> QED
          BY <5>2, <5>3, <5>4, <4>10
      <4>13. Len(h) <= Len(s)
        BY <4>3, <4>9
      <4>14. got'["edge"] = h
        BY <4>4 DEF h, d
      <4> QED
        BY <2>1, <4>6, <4>11, <4>12, <4>13, <4>14 DEF EdgeInv, s
    <3> QED
      BY <3>3, <3>4
  <2> QED
    BY <2>3, <2>4
<1> QED
  BY <1>9, <1>10, <1>11 DEF DataInv

-----------------------------------------------------------------------------
(* Types, events and histories are inductive together.                     *)
CoreInv == Typed /\ EventsInv /\ DataInv
MixInv  == \A t \in Threads : call[t].op = "vout" => "vout" \in kinds

TypedRest ==
    /\ kinds \in Mixes /\ status \in {"listed", "erased", "closed"}
    /\ m_interrupt_eqs \in BOOLEAN /\ irq \in {"idle", "copied", "drop"} /\ lost \in BOOLEAN
    /\ calls \in 0..MaxCalls /\ triggers \in 0..MaxTriggers
PortsTyped ==
    /\ port \in [Ports -> [opened : BOOLEAN, generation : Nat, registrations : SUBSET Nat]]
    /\ shared \in SUBSET Ports /\ IsFiniteSet(shared)
CallsTyped == call \in [Threads -> Calls]

LEMMA TypedParts == Typed <=> TypedRest /\ PortsTyped /\ CallsTyped /\ HistoryTyped
  BY DEF Typed, TypedRest, PortsTyped, CallsTyped, HistoryTyped

LEMMA CallIs ==
    ASSUME NEW c \in Calls
    PROVE  /\ c.op = "wait" => c \in Waits
           /\ c.op = "callbacks" => c \in Callbacks
           /\ c.op = "vout" => c \in Vouts
           /\ c.op = "portclose" => c \in Closes
           /\ c.op \in {"none", "wait", "close", "register", "deregister", "callbacks", "vout",
                        "portclose"}
  BY DEF Calls, Idle, Waits, Halves, Callbacks, Vouts, Closes

LEMMA CallOf ==
    ASSUME CallsTyped, NEW t \in Threads
    PROVE  /\ call[t] \in Calls
           /\ call[t].op = "wait" => call[t].num \in Rooms /\ call[t] \in Waits
           /\ call[t].op = "callbacks" => /\ call[t].owners \in SUBSET PortOwners
                                          /\ call[t].lock \in Ports \cup {"none", "driver"}
           /\ call[t].op = "vout" => call[t].port \in Ports /\ call[t].fresh \in BOOLEAN
           /\ call[t].op = "portclose" => call[t].port \in Ports /\ call[t].moved \in SUBSET Nat
<1>1. call[t] \in Calls
  BY DEF CallsTyped
<1> DEFINE c == call[t]
<1> HIDE DEF c
<1>2. /\ c \in Waits => c.num \in Rooms
      /\ c \in Callbacks => /\ c.owners \in SUBSET PortOwners
                            /\ c.lock \in Ports \cup {"none", "driver"}
      /\ c \in Vouts => c.port \in Ports /\ c.fresh \in BOOLEAN
      /\ c \in Closes => c.port \in Ports /\ c.moved \in SUBSET Nat
  BY DEF Waits, Callbacks, Vouts, Closes
<1>3. c \in Calls
  BY <1>1 DEF c
<1> QED
  BY <1>2, <1>3, CallIs DEF c

LEMMA GoesTyped ==
    ASSUME CallsTyped, NEW t \in Threads, NEW c \in Calls, Goes(t, c)
    PROVE  /\ CallsTyped' /\ call'[t] = c
           /\ \A u \in Threads : u # t => call'[u] = call[u]
  BY DEF CallsTyped, Goes

LEMMA NextCalls ==
    /\ Idle \in Calls /\ [op |-> "close"] \in Calls /\ [op |-> "register"] \in Calls
    /\ [op |-> "deregister"] \in Calls
    /\ \A num \in Rooms, timeout \in {"none", "finite", "expired"} :
          [op |-> "wait", num |-> num, timeout |-> timeout] \in Calls
    /\ \A owners \in SUBSET PortOwners, lock \in Ports \cup {"none", "driver"} :
          [op |-> "callbacks", owners |-> owners, lock |-> lock] \in Calls
    /\ \A p \in Ports, fresh \in BOOLEAN : [op |-> "vout", port |-> p, fresh |-> fresh] \in Calls
    /\ \A p \in Ports, moved \in SUBSET Nat :
          [op |-> "portclose", port |-> p, moved |-> moved] \in Calls
  BY DEF Calls, Waits, Halves, Callbacks, Vouts, Closes

LEMMA FitGoesOn ==
    ASSUME Fit(m_events'), kinds' = kinds
    PROVE  Fit(m_events)'
  BY DEF Fit, WellFormed

LEMMA StepIsCore ==
    ASSUME TypedRest', PortsTyped', CallsTyped', HistoryTyped', Fit(m_events'), kinds' = kinds,
           (~Open)' => m_events' = <<>>, DataInv'
    PROVE  CoreInv'
<1>1. Typed'
  BY TypedParts, PTL
<1>2. EventsInv'
  BY FitGoesOn DEF EventsInv
<1> QED
  BY <1>1, <1>2 DEF CoreInv

(* Only the events of the port, the calls and the like change.             *)
LEMMA SameEvents ==
    ASSUME CoreInv, UNCHANGED <<m_events, history, triggers>>
    PROVE  Fit(m_events') /\ DataInv' /\ HistoryTyped'
<1>1. Fit(m_events) /\ DataInv /\ HistoryTyped
  BY HistoryIsTyped DEF CoreInv, EventsInv
<1>2. m_events' = m_events /\ sent' = sent /\ got' = got /\ triggers' = triggers
  BY DEF history
<1>3. DataInv'
  <2>1. \A i \in DOMAIN m_events' : Kept(m_events'[i], m_events)
    BY <1>2 DEF Kept
  <2> QED
    BY <1>1, <1>2, <2>1, KeptData
<1> QED
  BY <1>1, <1>2, <1>3 DEF HistoryTyped

LEMMA CoreParts ==
    ASSUME CoreInv
    PROVE  /\ Typed /\ TypedRest /\ PortsTyped /\ CallsTyped /\ HistoryTyped
           /\ Fit(m_events) /\ (~Open => m_events = <<>>) /\ DataInv
  BY TypedParts DEF CoreInv, EventsInv

LEMMA OwnersAre ==
    ASSUME Fit(m_events)
    PROVE  /\ Owners(m_events) \in SUBSET PortOwners
           /\ \A o : o \in Owners(m_events) <=> InQueue(o)
<1>1. \A i \in DOMAIN m_events :
          /\ m_events[i].owner \in PortOwners \cup {NoOwner}
          /\ m_events[i].kind = "vout" <=> m_events[i].owner # NoOwner
  <2>1. \A i \in DOMAIN m_events : m_events[i] \in Events /\ WellFormed(m_events[i])
    BY DEF Fit
  <2>2. \A e \in Events : e.owner \in PortOwners \cup {NoOwner}
    BY DEF Events
  <2> QED
    BY <2>1, <2>2 DEF WellFormed
<1> QED
  BY <1>1 DEF Owners, InQueue, Owned

(* A thread's own calls that leave the ports alone.                        *)
LEMMA GuestCore ==
    ASSUME CoreInv, NEW t \in Threads,
           \/ \E num \in Rooms, timeout \in {"none", "finite"} : WaitBegin(t, num, timeout)
           \/ \E kind \in User : AddUserEvent(t, kind) \/ DeleteUserEvent(t, kind)
           \/ DeleteEqueue(t) \/ AddEqEvent(t) \/ DeleteEqEvent(t)
    PROVE  CoreInv'
<1>1. /\ Typed /\ TypedRest /\ PortsTyped /\ CallsTyped /\ HistoryTyped
      /\ Fit(m_events) /\ (~Open => m_events = <<>>) /\ DataInv
  BY CoreParts
<1>2. ASSUME calls < MaxCalls, calls' = calls + 1 PROVE calls' \in 0..MaxCalls
  BY <1>1, <1>2, QueueAssumption DEF TypedRest
<1>3. ASSUME NEW num \in Rooms, NEW timeout \in {"none", "finite"}, WaitBegin(t, num, timeout)
      PROVE  CoreInv'
  <2>1. CallsTyped'
    BY <1>1, <1>3, NextCalls, GoesTyped DEF WaitBegin
  <2>2. Fit(m_events') /\ DataInv' /\ HistoryTyped'
    BY <1>3, SameEvents DEF WaitBegin
  <2>3. TypedRest' /\ PortsTyped' /\ kinds' = kinds /\ ((~Open)' => m_events' = <<>>)
    BY <1>1, <1>3 DEF WaitBegin, TypedRest, PortsTyped, ports, registry, Open
  <2> QED
    BY <2>1, <2>2, <2>3, StepIsCore
<1>4. ASSUME NEW kind \in User, AddUserEvent(t, kind)
      PROVE  CoreInv'
  <2>1. /\ kind \in kinds /\ AddEvent(kind, NoOwner) /\ Open /\ OwnerOf(kind, NoOwner)
        /\ UNCHANGED <<kinds, status, call, registry, ports, triggers>>
    BY <1>4 DEF AddUserEvent, OwnerOf, User
  <2>2. Fit(m_events') /\ DataInv' /\ HistoryTyped'
    BY <1>1, <2>1, AddEventFits, AddEventData
  <2>3. calls' \in 0..MaxCalls
    BY <1>2, <1>4 DEF AddUserEvent, GuestCall
  <2>4. TypedRest' /\ PortsTyped' /\ CallsTyped' /\ kinds' = kinds /\ ((~Open)' => m_events' = <<>>)
    BY <1>1, <2>1, <2>3 DEF TypedRest, PortsTyped, CallsTyped, ports, registry, Open
  <2> QED
    BY <2>2, <2>4, StepIsCore
<1>5. ASSUME NEW kind \in User, DeleteUserEvent(t, kind)
      PROVE  CoreInv'
  <2>1. /\ DeleteEvent(kind) /\ Open /\ sent' = sent /\ got' = got /\ triggers' = triggers
        /\ UNCHANGED <<kinds, status, call, registry, ports, triggers>>
    BY <1>5 DEF DeleteUserEvent, history
  <2>2. Fit(m_events') /\ DataInv' /\ HistoryTyped'
    BY <1>1, <2>1, DeleteFits, DeleteEventData
  <2>3. calls' \in 0..MaxCalls
    BY <1>2, <1>5 DEF DeleteUserEvent, GuestCall
  <2>4. TypedRest' /\ PortsTyped' /\ CallsTyped' /\ kinds' = kinds /\ ((~Open)' => m_events' = <<>>)
    BY <1>1, <2>1, <2>3 DEF TypedRest, PortsTyped, CallsTyped, ports, registry, Open
  <2> QED
    BY <2>2, <2>4, StepIsCore
<1>6. ASSUME DeleteEqueue(t) PROVE CoreInv'
  <2>1. CallsTyped'
    BY <1>1, <1>6, NextCalls, GoesTyped DEF DeleteEqueue
  <2>2. Fit(m_events') /\ DataInv' /\ HistoryTyped'
    BY <1>6, SameEvents DEF DeleteEqueue
  <2>3. calls' \in 0..MaxCalls
    BY <1>2, <1>6 DEF DeleteEqueue, GuestCall
  <2>4. TypedRest' /\ PortsTyped' /\ kinds' = kinds /\ ((~Open)' => m_events' = <<>>)
    BY <1>1, <1>6, <2>3 DEF DeleteEqueue, TypedRest, PortsTyped, ports, registry, Open
  <2> QED
    BY <2>1, <2>2, <2>4, StepIsCore
<1>7. ASSUME AddEqEvent(t) PROVE CoreInv'
  <2>1. /\ "irq" \in kinds /\ AddEvent("irq", NoOwner) /\ Open /\ OwnerOf("irq", NoOwner)
        /\ UNCHANGED <<kinds, status, m_interrupt_eqs, irq, ports, triggers>>
        /\ lost' = lost
    BY <1>7 DEF AddEqEvent, OwnerOf
  <2>2. Fit(m_events') /\ DataInv' /\ HistoryTyped'
    BY <1>1, <2>1, AddEventFits, AddEventData
  <2>3. calls' \in 0..MaxCalls
    BY <1>2, <1>7 DEF AddEqEvent, GuestCall
  <2>4. CallsTyped'
    BY <1>1, <1>7, NextCalls, GoesTyped DEF AddEqEvent
  <2>5. TypedRest' /\ PortsTyped' /\ kinds' = kinds /\ ((~Open)' => m_events' = <<>>)
    BY <1>1, <2>1, <2>3 DEF TypedRest, PortsTyped, ports, Open
  <2> QED
    BY <2>2, <2>4, <2>5, StepIsCore
<1>8. ASSUME DeleteEqEvent(t) PROVE CoreInv'
  <2>1. /\ DeleteEvent("irq") /\ Open /\ sent' = sent /\ got' = got /\ triggers' = triggers
        /\ UNCHANGED <<kinds, status, m_interrupt_eqs, irq, ports, triggers>>
        /\ lost' = FALSE
    BY <1>8 DEF DeleteEqEvent, history
  <2>2. Fit(m_events') /\ DataInv' /\ HistoryTyped'
    BY <1>1, <2>1, DeleteFits, DeleteEventData
  <2>3. calls' \in 0..MaxCalls
    BY <1>2, <1>8 DEF DeleteEqEvent, GuestCall
  <2>4. CallsTyped'
    BY <1>1, <1>8, NextCalls, GoesTyped DEF DeleteEqEvent
  <2>5. TypedRest' /\ PortsTyped' /\ kinds' = kinds /\ ((~Open)' => m_events' = <<>>)
    BY <1>1, <2>1, <2>3 DEF TypedRest, PortsTyped, ports, Open
  <2> QED
    BY <2>2, <2>4, <2>5, StepIsCore
<1> QED
  BY <1>3, <1>4, <1>5, <1>6, <1>7, <1>8

(* The video-out ports.                                                    *)
LEMMA PortTyped ==
    ASSUME PortsTyped, NEW p \in Ports
    PROVE  /\ port[p] \in [opened : BOOLEAN, generation : Nat, registrations : SUBSET Nat]
           /\ port[p].opened \in BOOLEAN /\ port[p].generation \in Nat
           /\ port[p].registrations \in SUBSET Nat
  BY DEF PortsTyped

LEMMA WithoutTyped ==
    ASSUME PortsTyped, NEW o \in PortOwners, port' = Without(o), shared' = shared
    PROVE  /\ PortsTyped'
           /\ \A p \in Ports : /\ port'[p].opened = port[p].opened
                               /\ port'[p].generation = port[p].generation
                               /\ p # o.port => port'[p].registrations = port[p].registrations
           /\ port'[o.port].registrations = port[o.port].registrations \ {o.generation}
<1>1. o.port \in Ports
  BY DEF PortOwners
<1>2. port' = [port EXCEPT ![o.port].registrations =
                               port[o.port].registrations \ {o.generation}]
  BY DEF Without
<1> DEFINE q == o.port
           regs == port[q].registrations \ {o.generation}
<1>3. regs \in SUBSET Nat
  BY <1>1, PortTyped
<1>4. port' = [port EXCEPT ![q].registrations = regs]
  BY <1>2
<1> HIDE DEF regs, q
<1>5. PortsTyped'
  BY <1>3, <1>4 DEF PortsTyped
<1>6. \A p \in Ports : /\ port'[p].opened = port[p].opened
                       /\ port'[p].generation = port[p].generation
                       /\ p # q => port'[p].registrations = port[p].registrations
  BY <1>4 DEF PortsTyped
<1>7. port'[q].registrations = regs
  BY <1>1, <1>4 DEF PortsTyped, q
<1> QED
  BY <1>5, <1>6, <1>7 DEF regs, q

LEMMA SharesTyped ==
    ASSUME PortsTyped, NEW p \in Ports, shared' = shared \cup {p}
    PROVE  shared' \in SUBSET Ports /\ IsFiniteSet(shared')
  BY FS_AddElement DEF PortsTyped

LEMMA PortOpenIs ==
    ASSUME PortsTyped, NEW t, NEW p \in Ports, PortOpen(t, p)
    PROVE  /\ PortsTyped'
           /\ port'[p].opened /\ port'[p].registrations = port[p].registrations
           /\ port'[p].generation = port[p].generation + 1
           /\ \A q \in Ports : q # p => port'[q] = port[q]
<1>1. /\ port' = [port EXCEPT ![p].opened = TRUE, ![p].generation = port[p].generation + 1]
      /\ shared' = shared
  BY DEF PortOpen
<1> DEFINE d == [opened |-> TRUE, generation |-> port[p].generation + 1,
                 registrations |-> port[p].registrations]
<1>2. /\ d \in [opened : BOOLEAN, generation : Nat, registrations : SUBSET Nat]
      /\ d.opened /\ d.generation = port[p].generation + 1
      /\ d.registrations = port[p].registrations
  BY PortTyped
<1>3. port' = [port EXCEPT ![p] = d]
  BY <1>1, PortTyped DEF PortsTyped
<1> HIDE DEF d
<1> QED
  BY <1>1, <1>2, <1>3 DEF PortsTyped

LEMMA RegisterIs ==
    ASSUME PortsTyped, NEW t, NEW p \in Ports, RegisterVideoOutEvent(t, p)
    PROVE  /\ PortsTyped'
           /\ port'[p].opened = port[p].opened /\ port'[p].generation = port[p].generation
           /\ port'[p].registrations = port[p].registrations \cup {port[p].generation}
           /\ \A q \in Ports : q # p => port'[q] = port[q]
<1>1. /\ port' = [port EXCEPT ![p].registrations = port[p].registrations \cup {port[p].generation}]
      /\ shared' = shared \cup {p}
  BY DEF RegisterVideoOutEvent
<1> DEFINE d == [port[p] EXCEPT !.registrations = port[p].registrations \cup {port[p].generation}]
<1>2. /\ d \in [opened : BOOLEAN, generation : Nat, registrations : SUBSET Nat]
      /\ d.opened = port[p].opened /\ d.generation = port[p].generation
      /\ d.registrations = port[p].registrations \cup {port[p].generation}
  BY PortTyped
<1>3. port' = [port EXCEPT ![p] = d]
  BY <1>1 DEF PortsTyped
<1> HIDE DEF d
<1> QED
  BY <1>1, <1>2, <1>3, SharesTyped DEF PortsTyped

LEMMA PortCloseIs ==
    ASSUME PortsTyped, NEW t, NEW p \in Ports, PortClose(t, p)
    PROVE  /\ PortsTyped'
           /\ ~port'[p].opened /\ port'[p].generation = port[p].generation + 1
           /\ port'[p].registrations = {}
           /\ \A q \in Ports : q # p => port'[q] = port[q]
<1>1. /\ port' = [port EXCEPT ![p].opened = FALSE, ![p].generation = port[p].generation + 1,
                              ![p].registrations = {}]
      /\ shared' = shared
  BY DEF PortClose
<1> DEFINE d == [opened |-> FALSE, generation |-> port[p].generation + 1, registrations |-> {}]
<1>2. /\ d \in [opened : BOOLEAN, generation : Nat, registrations : SUBSET Nat]
      /\ ~d.opened /\ d.generation = port[p].generation + 1 /\ d.registrations = {}
  BY PortTyped
<1>3. port' = [port EXCEPT ![p] = d]
  BY <1>1, PortTyped DEF PortsTyped
<1> HIDE DEF d
<1> QED
  BY <1>1, <1>2, <1>3 DEF PortsTyped

LEMMA PortCore ==
    ASSUME CoreInv, NEW t \in Threads, NEW p \in Ports,
           \/ PortOpen(t, p) \/ RegisterVideoOutEvent(t, p)
           \/ DeleteVideoOutEvent(t, p) \/ PortClose(t, p)
    PROVE  CoreInv'
<1>1. /\ Typed /\ TypedRest /\ PortsTyped /\ CallsTyped /\ HistoryTyped
      /\ Fit(m_events) /\ (~Open => m_events = <<>>) /\ DataInv
  BY CoreParts
<1>2. ASSUME calls < MaxCalls, calls' = calls + 1 PROVE calls' \in 0..MaxCalls
  BY <1>1, <1>2, QueueAssumption DEF TypedRest
<1>3. ASSUME PortOpen(t, p) PROVE CoreInv'
  <2>1. PortsTyped'
    BY <1>1, <1>3, PortOpenIs
  <2>2. Fit(m_events') /\ DataInv' /\ HistoryTyped'
    BY <1>3, SameEvents DEF PortOpen
  <2>3. calls' \in 0..MaxCalls
    BY <1>2, <1>3 DEF PortOpen, GuestCall
  <2>4. TypedRest' /\ CallsTyped' /\ kinds' = kinds /\ ((~Open)' => m_events' = <<>>)
    BY <1>1, <1>3, <2>3 DEF PortOpen, TypedRest, CallsTyped, registry, Open
  <2> QED
    BY <2>1, <2>2, <2>4, StepIsCore
<1>4. ASSUME RegisterVideoOutEvent(t, p) PROVE CoreInv'
  <2>1. PortsTyped'
    BY <1>1, <1>4, RegisterIs
  <2>2. Fit(m_events') /\ DataInv' /\ HistoryTyped'
    BY <1>4, SameEvents DEF RegisterVideoOutEvent
  <2>3. calls' \in 0..MaxCalls
    BY <1>2, <1>4 DEF RegisterVideoOutEvent, GuestCall
  <2>4. CallsTyped'
    <3>1. (port[p].generation \notin port[p].registrations) \in BOOLEAN
      OBVIOUS
    <3> QED
      BY <3>1, <1>1, <1>4, NextCalls, GoesTyped DEF RegisterVideoOutEvent
  <2>5. TypedRest' /\ kinds' = kinds /\ ((~Open)' => m_events' = <<>>)
    BY <1>1, <1>4, <2>3 DEF RegisterVideoOutEvent, TypedRest, registry, Open
  <2> QED
    BY <2>1, <2>2, <2>4, <2>5, StepIsCore
<1>5. ASSUME DeleteVideoOutEvent(t, p) PROVE CoreInv'
  <2>1. /\ DeleteEvent("vout") /\ Open /\ sent' = sent /\ got' = got /\ triggers' = triggers
        /\ shared' = shared \cup {p} /\ UNCHANGED <<kinds, status, registry, port>>
        /\ Goes(t, [op |-> "callbacks", owners |-> Owners(m_events), lock |-> p])
    BY <1>5 DEF DeleteVideoOutEvent, history
  <2>2. Fit(m_events') /\ DataInv' /\ HistoryTyped'
    BY <1>1, <2>1, DeleteFits, DeleteEventData
  <2>3. calls' \in 0..MaxCalls
    BY <1>2, <1>5 DEF DeleteVideoOutEvent, GuestCall
  <2>4. CallsTyped'
    BY <1>1, <2>1, OwnersAre, NextCalls, GoesTyped
  <2>5. PortsTyped'
    BY <1>1, <2>1, SharesTyped DEF PortsTyped
  <2>6. TypedRest' /\ kinds' = kinds /\ ((~Open)' => m_events' = <<>>)
    BY <1>1, <2>1, <2>3 DEF TypedRest, registry, Open
  <2> QED
    BY <2>2, <2>4, <2>5, <2>6, StepIsCore
<1>6. ASSUME PortClose(t, p) PROVE CoreInv'
  <2>1. PortsTyped'
    BY <1>1, <1>6, PortCloseIs
  <2>2. Fit(m_events') /\ DataInv' /\ HistoryTyped'
    BY <1>6, SameEvents DEF PortClose
  <2>3. calls' \in 0..MaxCalls
    BY <1>2, <1>6 DEF PortClose, GuestCall
  <2>4. CallsTyped'
    <3>1. port[p].registrations \in SUBSET Nat
      BY <1>1, PortTyped
    <3> QED
      BY <3>1, <1>1, <1>6, NextCalls, GoesTyped DEF PortClose
  <2>5. TypedRest' /\ kinds' = kinds /\ ((~Open)' => m_events' = <<>>)
    BY <1>1, <1>6, <2>3 DEF PortClose, TypedRest, registry, Open
  <2> QED
    BY <2>1, <2>2, <2>4, <2>5, StepIsCore
<1> QED
  BY <1>3, <1>4, <1>5, <1>6

(* What a thread does inside a call.                                       *)
LEMMA TurnOf ==
    ASSUME NEW t, WaitReturns(t)
    PROVE  \/ ~Open /\ UNCHANGED <<m_events, got>>
           \/ Open /\ Leaves(t) /\ \E events, taken : Turn(t, events, taken)
<1>1. CASE ~Open /\ UNCHANGED <<m_events, got>>
  BY <1>1
<1>2. CASE ~(~Open /\ UNCHANGED <<m_events, got>>)
  <2> DEFINE events == [i \in DOMAIN m_events |-> Expired(m_events[i])]
             taken == Taken(events, call[t].num)
  <2>1. Open /\ Leaves(t) /\ Turn(t, events, taken)
    BY <1>2, Zenon DEF WaitReturns, Turn
  <2> QED
    BY <2>1
<1> QED
  BY <1>1, <1>2

LEMMA WaitCore ==
    ASSUME CoreInv, NEW t \in Threads, WaitReturns(t)
    PROVE  CoreInv'
<1>1. /\ Typed /\ TypedRest /\ PortsTyped /\ CallsTyped /\ HistoryTyped
      /\ Fit(m_events) /\ (~Open => m_events = <<>>) /\ DataInv
  BY CoreParts
<1>2. /\ call[t].op = "wait" /\ Goes(t, Idle)
      /\ UNCHANGED <<kinds, status, registry, ports, sent, calls, triggers>>
  BY DEF WaitReturns
<1>3. CallsTyped' /\ call[t].num \in Nat
  BY <1>1, <1>2, NextCalls, GoesTyped, CallOf, QueueAssumption
<1>4. TypedRest' /\ PortsTyped' /\ kinds' = kinds /\ Open' = Open
  BY <1>1, <1>2 DEF TypedRest, PortsTyped, registry, ports, Open
<1>5. CASE ~Open /\ UNCHANGED <<m_events, got>>
  <2>1. UNCHANGED <<m_events, history, triggers>>
    BY <1>2, <1>5 DEF history
  <2> QED
    BY <1>1, <1>3, <1>4, <1>5, <2>1, SameEvents, StepIsCore
<1>6. ASSUME NEW events, NEW taken, Open, Turn(t, events, taken) PROVE CoreInv'
  <2>1. Fit(m_events') /\ DataInv' /\ HistoryTyped'
    BY <1>1, <1>2, <1>3, <1>6, TurnFits, TurnData
  <2> QED
    BY <1>3, <1>4, <1>6, <2>1, StepIsCore
<1> QED
  BY <1>5, <1>6, TurnOf

LEMMA ContinueCore ==
    ASSUME CoreInv, MixInv, NEW t \in Threads,
           \/ WaitExpires(t) \/ Close(t) \/ Callback(t) \/ AddInterruptEq(t)
           \/ DeleteInterruptEq(t) \/ AddVideoOutEvent(t) \/ PortDeletesEvents(t)
    PROVE  CoreInv'
<1>1. /\ Typed /\ TypedRest /\ PortsTyped /\ CallsTyped /\ HistoryTyped
      /\ Fit(m_events) /\ (~Open => m_events = <<>>) /\ DataInv
  BY CoreParts
<1>2. ASSUME WaitExpires(t) PROVE CoreInv'
  <2>1. [call[t] EXCEPT !.timeout = "expired"] \in Calls
    <3>1. call[t] \in Waits
      BY <1>1, <1>2, CallOf DEF WaitExpires
    <3> QED
      BY <3>1 DEF Waits, Calls
  <2>2. CallsTyped'
    BY <1>1, <1>2, <2>1, GoesTyped DEF WaitExpires
  <2>3. Fit(m_events') /\ DataInv' /\ HistoryTyped'
    BY <1>2, SameEvents DEF WaitExpires
  <2>4. TypedRest' /\ PortsTyped' /\ kinds' = kinds /\ ((~Open)' => m_events' = <<>>)
    BY <1>1, <1>2 DEF WaitExpires, TypedRest, PortsTyped, ports, registry, Open
  <2> QED
    BY <2>2, <2>3, <2>4, StepIsCore
<1>3. ASSUME Close(t) PROVE CoreInv'
  <2>1. /\ m_events' = <<>> /\ sent' = sent /\ got' = got /\ triggers' = triggers
        /\ status' = "closed" /\ UNCHANGED <<kinds, registry, ports, calls>>
        /\ Goes(t, [op |-> "callbacks", owners |-> Owners(m_events), lock |-> "none"])
    BY <1>3 DEF Close, history
  <2>2. CallsTyped'
    BY <1>1, <2>1, OwnersAre, NextCalls, GoesTyped
  <2>3. Fit(m_events')
    <3>1. <<>> \in Seq(Events) /\ DOMAIN <<>> = {}
      OBVIOUS
    <3> QED
      BY <2>1, <3>1 DEF Fit
  <2>4. DataInv' /\ HistoryTyped'
    <3>1. DOMAIN m_events' = {}
      BY <2>1
    <3> QED
      BY <1>1, <2>1, <3>1, KeptData DEF HistoryTyped
  <2>5. TypedRest' /\ PortsTyped' /\ kinds' = kinds /\ ((~Open)' => m_events' = <<>>)
    BY <1>1, <2>1 DEF TypedRest, PortsTyped, ports, registry, Open
  <2> QED
    BY <2>2, <2>3, <2>4, <2>5, StepIsCore
<1>4. ASSUME Callback(t) PROVE CoreInv'
  <2>1. Fit(m_events') /\ DataInv' /\ HistoryTyped'
    BY <1>4, SameEvents DEF Callback
  <2>2. TypedRest' /\ kinds' = kinds /\ ((~Open)' => m_events' = <<>>) /\ shared' = shared
    BY <1>1, <1>4 DEF Callback, TypedRest, registry, Open
  <2>3. CASE call[t].owners = {} /\ Goes(t, Idle) /\ UNCHANGED port
    <3>1. CallsTyped'
      BY <1>1, <2>3, NextCalls, GoesTyped
    <3>2. PortsTyped'
      BY <1>1, <2>2, <2>3 DEF PortsTyped
    <3> QED
      BY <2>1, <2>2, <3>1, <3>2, StepIsCore
  <2>4. ASSUME NEW o \in call[t].owners, port' = Without(o),
               Goes(t, [call[t] EXCEPT !.owners = call[t].owners \ {o}])
        PROVE  CoreInv'
    <3>1. call[t] \in Callbacks /\ call[t].owners \in SUBSET PortOwners
      <4>1. call[t].op = "callbacks"
        BY <1>4 DEF Callback
      <4> QED
        BY <1>1, <4>1, CallOf, CallIs
    <3>2. [call[t] EXCEPT !.owners = call[t].owners \ {o}] \in Calls
      BY <3>1 DEF Callbacks, Calls
    <3>3. CallsTyped'
      BY <1>1, <2>4, <3>2, GoesTyped
    <3>4. PortsTyped'
      BY <1>1, <2>2, <2>4, <3>1, WithoutTyped
    <3> QED
      BY <2>1, <2>2, <3>3, <3>4, StepIsCore
  <2> QED
    BY <1>4, <2>3, <2>4 DEF Callback
<1>5. ASSUME AddInterruptEq(t) PROVE CoreInv'
  <2>1. CallsTyped'
    BY <1>1, <1>5, NextCalls, GoesTyped DEF AddInterruptEq
  <2>2. Fit(m_events') /\ DataInv' /\ HistoryTyped'
    BY <1>5, SameEvents DEF AddInterruptEq
  <2>3. TypedRest' /\ PortsTyped' /\ kinds' = kinds /\ ((~Open)' => m_events' = <<>>)
    BY <1>1, <1>5 DEF AddInterruptEq, TypedRest, PortsTyped, ports, Open
  <2> QED
    BY <2>1, <2>2, <2>3, StepIsCore
<1>6. ASSUME DeleteInterruptEq(t) PROVE CoreInv'
  <2>1. CallsTyped'
    BY <1>1, <1>6, NextCalls, GoesTyped DEF DeleteInterruptEq
  <2>2. Fit(m_events') /\ DataInv' /\ HistoryTyped'
    BY <1>6, SameEvents DEF DeleteInterruptEq
  <2>3. TypedRest' /\ PortsTyped' /\ kinds' = kinds /\ ((~Open)' => m_events' = <<>>)
    BY <1>1, <1>6 DEF DeleteInterruptEq, RemovedBy, TypedRest, PortsTyped, ports, Open
  <2> QED
    BY <2>1, <2>2, <2>3, StepIsCore
<1>7. ASSUME PortDeletesEvents(t) PROVE CoreInv'
  <2>1. /\ UNCHANGED <<kinds, status, registry, ports, calls>>
        /\ sent' = sent /\ got' = got /\ triggers' = triggers
    BY <1>7 DEF PortDeletesEvents, history
  <2>2. TypedRest' /\ PortsTyped' /\ kinds' = kinds /\ Open' = Open
    BY <1>1, <2>1 DEF TypedRest, PortsTyped, ports, registry, Open
  <2>3. CASE call[t].moved # {} /\ Open /\ Has("vout")
    <3>1. /\ DeleteEvent("vout")
          /\ Goes(t, [op |-> "callbacks", owners |-> Owners(m_events), lock |-> "driver"])
      BY <1>7, <2>3 DEF PortDeletesEvents
    <3>2. Fit(m_events') /\ DataInv' /\ HistoryTyped'
      BY <1>1, <2>1, <3>1, DeleteFits, DeleteEventData
    <3>3. CallsTyped'
      BY <1>1, <3>1, OwnersAre, NextCalls, GoesTyped
    <3> QED
      BY <2>2, <2>3, <3>2, <3>3, StepIsCore
  <2>4. CASE ~(call[t].moved # {} /\ Open /\ Has("vout"))
    <3>1. Goes(t, Idle) /\ m_events' = m_events
      BY <1>7, <2>4 DEF PortDeletesEvents
    <3>2. Fit(m_events') /\ DataInv' /\ HistoryTyped'
      BY <2>1, <3>1, SameEvents DEF history
    <3>3. CallsTyped'
      BY <1>1, <3>1, NextCalls, GoesTyped
    <3> QED
      BY <1>1, <2>2, <3>1, <3>2, <3>3, StepIsCore
  <2> QED
    BY <2>3, <2>4
<1>8. ASSUME AddVideoOutEvent(t) PROVE CoreInv'
  <2> DEFINE o == [port |-> call[t].port, generation |-> port[call[t].port].generation]
  <2>1. o \in PortOwners
    <3>1. call[t].port \in Ports
      BY <1>1, <1>8, CallOf DEF AddVideoOutEvent
    <3> QED
      BY <1>1, <3>1, PortTyped DEF PortOwners
  <2>2. /\ Goes(t, Idle) /\ kinds' = kinds /\ shared' = shared /\ triggers' = triggers
        /\ UNCHANGED <<status, registry, calls>>
    BY <1>8 DEF AddVideoOutEvent
  <2>3. TypedRest' /\ CallsTyped' /\ Open' = Open
    <3>1. CallsTyped'
      BY <1>1, <2>2, NextCalls, GoesTyped
    <3>2. TypedRest' /\ Open' = Open
      BY <1>1, <2>2 DEF TypedRest, registry, Open
    <3> QED
      BY <3>1, <3>2
  <2>4. CASE Open
    <3>1. AddEvent("vout", o) /\ port' = port
      BY <1>8, <2>4 DEF AddVideoOutEvent
    <3>2. "vout" \in kinds /\ OwnerOf("vout", o)
      <4>1. "vout" \in kinds
        BY <1>8 DEF AddVideoOutEvent, MixInv
      <4> HIDE DEF o
      <4> QED
        BY <2>1, <4>1, PortOwnerIs DEF OwnerOf
    <3> HIDE DEF o
    <3>3. o \in PortOwners \cup {NoOwner}
      BY <2>1
    <3>4. Fit(m_events') /\ DataInv' /\ HistoryTyped'
      BY <1>1, <2>2, <3>1, <3>2, AddEventFits, AddEventData
    <3>5. PortsTyped'
      BY <1>1, <2>2, <3>1 DEF PortsTyped
    <3> QED
      BY <2>2, <2>3, <2>4, <3>4, <3>5, StepIsCore
  <2>5. CASE ~Open
    <3>1. /\ port' = IF call[t].fresh THEN Without(o) ELSE port
          /\ m_events' = m_events /\ UNCHANGED <<m_events, history, triggers>>
      BY <1>8, <2>2, <2>5 DEF AddVideoOutEvent
    <3>2. Fit(m_events') /\ DataInv' /\ HistoryTyped'
      BY <3>1, SameEvents
    <3> HIDE DEF o
    <3>3. PortsTyped'
      <4>1. CASE call[t].fresh
        BY <1>1, <2>1, <2>2, <3>1, <4>1, WithoutTyped
      <4>2. CASE ~call[t].fresh
        BY <1>1, <2>2, <3>1, <4>2 DEF PortsTyped
      <4> QED
        BY <4>1, <4>2
    <3> QED
      BY <1>1, <2>2, <2>3, <3>1, <3>2, <3>3, StepIsCore
  <2> QED
    BY <2>4, <2>5
<1> QED
  BY <1>2, <1>3, <1>4, <1>5, <1>6, <1>7, <1>8

(* The interrupts, the timers and the triggers.                            *)
LEMMA TriggerCore ==
    ASSUME CoreInv, NEW kind, TriggerEvent(kind), Open, irq' \in {"idle", "copied", "drop"},
           UNCHANGED <<kinds, status, call, m_interrupt_eqs, late, lost, ports, calls>>
    PROVE  CoreInv'
<1>1. /\ Typed /\ TypedRest /\ PortsTyped /\ CallsTyped /\ HistoryTyped
      /\ Fit(m_events) /\ (~Open => m_events = <<>>) /\ DataInv
  BY CoreParts
<1>2. Fit(m_events') /\ DataInv' /\ HistoryTyped'
  BY <1>1, TriggerFits, TriggerData
<1>3. triggers' \in 0..MaxTriggers
  BY <1>1, TriggerFits DEF Numbers
<1>4. TypedRest' /\ PortsTyped' /\ CallsTyped' /\ kinds' = kinds /\ ((~Open)' => m_events' = <<>>)
  BY <1>1, <1>3 DEF TypedRest, PortsTyped, CallsTyped, ports, Open
<1> QED
  BY <1>2, <1>4, StepIsCore

LEMMA OthersCore ==
    ASSUME CoreInv, Environment \/ Priority
    PROVE  CoreInv'
<1>1. /\ Typed /\ TypedRest /\ PortsTyped /\ CallsTyped /\ HistoryTyped
      /\ Fit(m_events) /\ (~Open => m_events = <<>>) /\ DataInv
  BY CoreParts
<1>2. ASSUME TimerPasses PROVE CoreInv'
  <2>1. PICK i \in DOMAIN m_events :
            m_events[i].deadline = "set" /\ m_events' = [m_events EXCEPT ![i].deadline = "passed"]
    BY <1>2 DEF TimerPasses
  <2>2. sent' = sent /\ got' = got /\ triggers' = triggers
    BY <1>2 DEF TimerPasses, history
  <2>3. Fit(m_events') /\ DataInv' /\ HistoryTyped'
    BY <1>1, <2>1, <2>2, TimerFits, TimerData
  <2>4. Open
    BY <1>1, <2>1
  <2>5. TypedRest' /\ PortsTyped' /\ CallsTyped' /\ kinds' = kinds /\ ((~Open)' => m_events' = <<>>)
    BY <1>1, <1>2, <2>4 DEF TimerPasses, TypedRest, PortsTyped, CallsTyped, registry, ports, Open
  <2> QED
    BY <2>3, <2>5, StepIsCore
<1>3. ASSUME TriggerInterrupt PROVE CoreInv'
  <2>1. Fit(m_events') /\ DataInv' /\ HistoryTyped'
    BY <1>3, SameEvents DEF TriggerInterrupt
  <2>2. TypedRest' /\ PortsTyped' /\ CallsTyped' /\ kinds' = kinds /\ ((~Open)' => m_events' = <<>>)
    BY <1>1, <1>3 DEF TriggerInterrupt, TypedRest, PortsTyped, CallsTyped, ports, Open
  <2> QED
    BY <2>1, <2>2, StepIsCore
<1>4. ASSUME NEW kind \in User, TriggerUserEvent(kind) PROVE CoreInv'
  <2>1. irq' \in {"idle", "copied", "drop"}
    BY <1>1, <1>4 DEF TriggerUserEvent, registry, TypedRest
  <2> QED
    BY <1>4, <2>1, TriggerCore DEF TriggerUserEvent, registry
<1>5. ASSUME NEW p \in Ports, TriggerVideoOutEvents(p) PROVE CoreInv'
  <2>1. irq' \in {"idle", "copied", "drop"}
    BY <1>1, <1>5 DEF TriggerVideoOutEvents, registry, TypedRest
  <2> QED
    BY <1>5, <2>1, TriggerCore DEF TriggerVideoOutEvents, registry
<1>6. ASSUME InterruptDelivered PROVE CoreInv'
  <2>1. CASE Open /\ Has("irq")
    BY <1>6, <2>1, TriggerCore DEF InterruptDelivered
  <2>2. CASE ~(Open /\ Has("irq"))
    <3>1. irq' = "drop" /\ UNCHANGED <<m_events, history, triggers>>
          /\ UNCHANGED <<kinds, status, call, m_interrupt_eqs, late, lost, ports, calls>>
      BY <1>6, <2>2 DEF InterruptDelivered
    <3>2. Fit(m_events') /\ DataInv' /\ HistoryTyped'
      BY <3>1, SameEvents
    <3>3. /\ TypedRest' /\ PortsTyped' /\ CallsTyped' /\ kinds' = kinds
          /\ (~Open)' => m_events' = <<>>
      BY <1>1, <3>1 DEF TypedRest, PortsTyped, CallsTyped, ports, Open
    <3> QED
      BY <3>2, <3>3, StepIsCore
  <2> QED
    BY <2>1, <2>2
<1>7. ASSUME InterruptDropped PROVE CoreInv'
  <2>1. Fit(m_events') /\ DataInv' /\ HistoryTyped'
    BY <1>7, SameEvents DEF InterruptDropped
  <2>2. TypedRest' /\ PortsTyped' /\ CallsTyped' /\ kinds' = kinds /\ ((~Open)' => m_events' = <<>>)
    BY <1>1, <1>7 DEF InterruptDropped, RemovedBy, TypedRest, PortsTyped, CallsTyped, ports, Open
  <2> QED
    BY <2>1, <2>2, StepIsCore
<1> QED
  BY <1>2, <1>3, <1>4, <1>5, <1>6, <1>7 DEF Environment, Priority

(* A thread goes into RegisterVideoOutEvent for a guest with such events.  *)
LEMMA CallGoes ==
    ASSUME CallsTyped, NEW t \in Threads, NEW c, Goes(t, c)
    PROVE  call'[t] = c /\ \A u \in Threads : u # t => call'[u] = call[u]
  BY DEF CallsTyped, Goes

LEMMA MixStep ==
    ASSUME CoreInv, MixInv, Next
    PROVE  MixInv'
<1>1. CallsTyped
  BY CoreParts
<1>2. ASSUME kinds' = kinds, NEW t \in Threads, NEW c, Goes(t, c),
             c.op = "vout" => "vout" \in kinds
      PROVE  MixInv'
  BY <1>1, <1>2, CallGoes DEF MixInv
<1>3. ASSUME kinds' = kinds, call' = call PROVE MixInv'
  BY <1>3 DEF MixInv
<1>4. ASSUME NEW t \in Threads, GuestNext(t) \/ Continues(t) \/ WaitExpires(t) PROVE MixInv'
  <2>1. Idle.op # "vout"
    BY DEF Idle
  <2>2. CASE GuestNext(t)
    <3>1. ASSUME NEW num \in Rooms, NEW timeout \in {"none", "finite"}, WaitBegin(t, num, timeout)
          PROVE  MixInv'
      BY <1>2, <3>1 DEF WaitBegin
    <3>2. ASSUME NEW kind \in User, AddUserEvent(t, kind) \/ DeleteUserEvent(t, kind)
          PROVE  MixInv'
      BY <1>3, <3>2 DEF AddUserEvent, DeleteUserEvent
    <3>3. ASSUME DeleteEqueue(t) \/ AddEqEvent(t) \/ DeleteEqEvent(t) PROVE MixInv'
      BY <1>2, <3>3 DEF DeleteEqueue, AddEqEvent, DeleteEqEvent
    <3>4. ASSUME NEW p \in Ports, PortOpen(t, p) PROVE MixInv'
      BY <1>3, <3>4 DEF PortOpen
    <3>5. ASSUME NEW p \in Ports, RegisterVideoOutEvent(t, p) PROVE MixInv'
      BY <1>2, <3>5 DEF RegisterVideoOutEvent
    <3>6. ASSUME NEW p \in Ports, DeleteVideoOutEvent(t, p) \/ PortClose(t, p) PROVE MixInv'
      BY <1>2, <3>6 DEF DeleteVideoOutEvent, PortClose
    <3> QED
      BY <2>2, <3>1, <3>2, <3>3, <3>4, <3>5, <3>6 DEF GuestNext
  <2>3. CASE Continues(t)
    <3>1. ASSUME \/ WaitReturns(t) \/ Close(t) \/ AddInterruptEq(t)
                 \/ DeleteInterruptEq(t) \/ AddVideoOutEvent(t)
          PROVE  MixInv'
      BY <1>2, <2>1, <3>1 DEF WaitReturns, Close, AddInterruptEq, DeleteInterruptEq,
                              AddVideoOutEvent
    <3>2. ASSUME PortDeletesEvents(t) PROVE MixInv'
      BY <1>2, <2>1, <3>2 DEF PortDeletesEvents
    <3>3. ASSUME Callback(t) PROVE MixInv'
      <4>1. \A o : [call[t] EXCEPT !.owners = call[t].owners \ {o}].op = call[t].op
        BY <1>1 DEF CallsTyped, Calls, Idle, Waits, Halves, Callbacks, Vouts, Closes
      <4> QED
        BY <1>2, <2>1, <3>3, <4>1 DEF Callback
    <3> QED
      BY <2>3, <3>1, <3>2, <3>3 DEF Continues
  <2>4. CASE WaitExpires(t)
    <3>1. [call[t] EXCEPT !.timeout = "expired"].op = call[t].op
      BY <1>1 DEF CallsTyped, Calls, Idle, Waits, Halves, Callbacks, Vouts, Closes
    <3> QED
      BY <1>2, <2>4, <3>1 DEF WaitExpires
  <2> QED
    BY <1>4, <2>2, <2>3, <2>4
<1>5. ASSUME Environment \/ Priority PROVE MixInv'
  BY <1>3, <1>5 DEF Environment, Priority, TimerPasses, TriggerInterrupt, TriggerUserEvent,
                    TriggerVideoOutEvents, InterruptDelivered, InterruptDropped
<1> QED
  BY <1>4, <1>5 DEF Next

LEMMA CoreStep ==
    ASSUME CoreInv, MixInv, Next
    PROVE  CoreInv'
<1>1. ASSUME NEW t \in Threads, GuestNext(t) PROVE CoreInv'
  BY <1>1, GuestCore, PortCore DEF GuestNext
<1>2. ASSUME NEW t \in Threads, Continues(t) \/ WaitExpires(t) PROVE CoreInv'
  BY <1>2, WaitCore, ContinueCore DEF Continues
<1> QED
  BY <1>1, <1>2, OthersCore DEF Next

LEMMA CoreStutters ==
    ASSUME CoreInv, MixInv, UNCHANGED vars
    PROVE  CoreInv' /\ MixInv'
<1>1. UNCHANGED <<m_events, history, triggers>>
  BY DEF vars
<1>2. Fit(m_events') /\ DataInv' /\ HistoryTyped'
  BY <1>1, SameEvents
<1>3. TypedRest' /\ PortsTyped' /\ CallsTyped' /\ kinds' = kinds /\ ((~Open)' => m_events' = <<>>)
  BY CoreParts DEF vars, TypedRest, PortsTyped, CallsTyped, registry, ports, Open
<1>4. MixInv'
  BY DEF vars, MixInv
<1> QED
  BY <1>2, <1>3, <1>4, StepIsCore

LEMMA InitIsCore ==
    ASSUME Init
    PROVE  CoreInv /\ MixInv
<1>1. \A S : <<>> \in Seq(S) /\ DOMAIN <<>> = {} /\ Len(<<>>) = 0
  OBVIOUS
<1>2. HistoryTyped
  BY <1>1 DEF Init, HistoryTyped
<1>3. CallsTyped /\ MixInv
  BY NextCalls DEF Init, CallsTyped, MixInv, Idle
<1>4. PortsTyped
  BY FS_EmptySet DEF Init, PortsTyped
<1>5. TypedRest
  <2>1. 0 \in 0..MaxCalls /\ 0 \in 0..MaxTriggers
    BY QueueAssumption
  <2> QED
    BY <2>1 DEF Init, TypedRest
<1>6. EventsInv
  BY <1>1 DEF Init, EventsInv, Fit
<1>7. DataInv
  <2>1. sent["edge"] = <<>> /\ got["edge"] = <<>> /\ m_events = <<>>
    BY EdgeCounted DEF Init
  <2> QED
    BY <1>1, <2>1 DEF DataInv, NothingLost, EdgeInv, IsInjective
<1> QED
  BY <1>2, <1>3, <1>4, <1>5, <1>6, <1>7, TypedParts DEF CoreInv

LEMMA CoreDelivers ==
    ASSUME CoreInv
    PROVE  DeliveredInOrder
<1>1. Typed /\ Fit(m_events) /\ DataInv
  BY CoreParts
<1>2. \A i \in DOMAIN m_events :
          /\ m_events[i].kind \in kinds /\ m_events[i].triggered \in BOOLEAN
          /\ m_events[i].deadline \in {"none", "set", "passed"}
          /\ m_events[i].data \in 0..MaxTriggers
          /\ Range(m_events[i].pending) \subseteq 1..MaxTriggers
  <2>1. \A i \in DOMAIN m_events : m_events[i] \in Events /\ WellFormed(m_events[i])
    BY <1>1 DEF Fit
  <2>2. ASSUME NEW e \in Events
        PROVE  /\ e.triggered \in BOOLEAN /\ e.deadline \in {"none", "set", "passed"}
               /\ e.data \in 0..MaxTriggers /\ Range(e.pending) \subseteq 1..MaxTriggers
    <3>1. e.pending \in Seq(1..MaxTriggers)
      BY DEF Events, Numbers
    <3>2. \A i \in DOMAIN e.pending : e.pending[i] \in 1..MaxTriggers
      BY <3>1, MembersOf, Zenon
    <3> QED
      BY <3>2 DEF Events, Range, Datas
  <2> QED
    BY <2>1, <2>2 DEF WellFormed
<1>3. IsInjective([i \in DOMAIN m_events |-> m_events[i].kind])
  BY <1>1 DEF Fit, IsInjective
<1>4. TypeOK
  BY <1>1, <1>2, <1>3 DEF TypeOK, Typed
<1>5. NothingLost /\ EdgesOnce
  BY <1>1 DEF DataInv, EdgeInv, EdgesOnce
<1> QED
  BY <1>4, <1>5 DEF DeliveredInOrder

(* AMPR, interrupt and video-out events are returned in the order of their *)
(* triggers, each trigger exactly once, and an edge event at most once for *)
(* each trigger and with the data of the last, whatever GetTriggeredEvents *)
(* of however many waiters interleave and however the events are added,    *)
(* deleted and re-added.                                                   *)
THEOREM TriggersDelivered == Spec => []DeliveredInOrder
<1>1. Init => CoreInv /\ MixInv
  BY InitIsCore
<1>2. CoreInv /\ MixInv /\ [Next]_vars => (CoreInv /\ MixInv)'
  <2>1. CoreInv /\ MixInv /\ Next => CoreInv' /\ MixInv'
    BY CoreStep, MixStep
  <2>2. CoreInv /\ MixInv /\ UNCHANGED vars => CoreInv' /\ MixInv'
    BY CoreStutters
  <2> QED
    BY <2>1, <2>2
<1>3. CoreInv => DeliveredInOrder
  BY CoreDelivers
<1> QED
  BY <1>1, <1>2, <1>3, PTL DEF Spec

-----------------------------------------------------------------------------
(* The events of the renderer and of the ports through the others' steps.  *)
VoutSame == \A o : Owned(m_events', "vout", o) <=> Owned(m_events, "vout", o)
IrqKept  == HasIn(m_events', "irq") => HasIn(m_events, "irq")

LEMMA OwnedDecides ==
    ASSUME \A o : Owned(m_events', "irq", o) => Owned(m_events, "irq", o)
    PROVE  IrqKept
  BY HasOwned DEF IrqKept

LEMMA UserEventsKeep ==
    ASSUME CoreInv, NEW t \in Threads, NEW kind \in User,
           AddUserEvent(t, kind) \/ DeleteUserEvent(t, kind) \/ TriggerUserEvent(kind)
    PROVE  VoutSame /\ IrqKept
<1>1. Typed /\ Fit(m_events) /\ kind # "vout" /\ kind # "irq"
  BY CoreParts DEF User
<1>2. CASE AddUserEvent(t, kind)
  <2>1. kind \in kinds /\ AddEvent(kind, NoOwner) /\ OwnerOf(kind, NoOwner)
    BY <1>1, <1>2 DEF AddUserEvent, OwnerOf
  <2>2. \A k, o : Owned(m_events', k, o) <=>
            Owned(m_events, k, o) \/ (~Has(kind) /\ k = kind /\ o = NoOwner)
    BY <1>1, <2>1, AddEventFits
  <2> QED
    BY <1>1, <2>2, OwnedDecides DEF VoutSame
<1>3. CASE DeleteUserEvent(t, kind)
  <2>1. \A k, o : Owned(m_events', k, o) <=> Owned(m_events, k, o) /\ k # kind
    BY <1>1, <1>3, DeleteFits DEF DeleteUserEvent
  <2> QED
    BY <1>1, <2>1, OwnedDecides DEF VoutSame
<1>4. CASE TriggerUserEvent(kind)
  <2>1. SameOwned(m_events', m_events)
    BY <1>1, <1>4, TriggerFits DEF TriggerUserEvent
  <2> QED
    BY <2>1, OwnedDecides DEF VoutSame, SameOwned
<1> QED
  BY <1>2, <1>3, <1>4

LEMMA EventsKeep ==
    ASSUME CoreInv, NEW t \in Threads,
           \/ m_events' = m_events \/ WaitReturns(t) \/ TimerPasses \/ InterruptDelivered
           \/ \E p \in Ports : TriggerVideoOutEvents(p)
    PROVE  VoutSame /\ IrqKept
<1>1. Typed /\ Fit(m_events) /\ CallsTyped
  BY CoreParts
<1>2. CASE m_events' = m_events
  BY <1>2 DEF VoutSame, IrqKept
<1>3. ASSUME NEW events, NEW taken, Turn(t, events, taken), call[t].op = "wait"
      PROVE  VoutSame /\ IrqKept
  <2>1. call[t].num \in Nat
    BY <1>1, <1>3, CallOf, QueueAssumption
  <2>2. \A k, o : k # "timer" => (Owned(m_events', k, o) <=> Owned(m_events, k, o))
    BY <1>1, <1>3, <2>1, TurnFits
  <2> QED
    BY <2>2, OwnedDecides DEF VoutSame
<1>4. CASE WaitReturns(t)
  BY <1>2, <1>3, <1>4, TurnOf DEF WaitReturns
<1>5. ASSUME SameOwned(m_events', m_events) PROVE VoutSame /\ IrqKept
  BY <1>5, OwnedDecides DEF VoutSame, SameOwned
<1>6. CASE TimerPasses
  BY <1>1, <1>5, <1>6, TimerFits DEF TimerPasses
<1>7. CASE InterruptDelivered
  BY <1>1, <1>2, <1>5, <1>7, TriggerFits DEF InterruptDelivered
<1>8. CASE \E p \in Ports : TriggerVideoOutEvents(p)
  BY <1>1, <1>5, <1>8, TriggerFits DEF TriggerVideoOutEvents
<1> QED
  BY <1>2, <1>4, <1>6, <1>7, <1>8

(* DeleteVideoOutEvent and Close of a port delete the video-out event.     *)
LEMMA VoutDeleted ==
    ASSUME CoreInv, DeleteEvent("vout")
    PROVE  IrqKept /\ \A o : ~Owned(m_events', "vout", o)
<1>1. \A k, o : Owned(m_events', k, o) <=> Owned(m_events, k, o) /\ k # "vout"
  BY CoreParts, DeleteFits
<1> QED
  BY <1>1, OwnedDecides

LEMMA VoutAdded ==
    ASSUME CoreInv, MixInv, NEW t \in Threads, AddVideoOutEvent(t), Open
    PROVE  /\ IrqKept /\ call[t].port \in Ports /\ Own(call[t].port) \in PortOwners
           /\ \A o : Owned(m_events', "vout", o) <=>
                 Owned(m_events, "vout", o) \/ (~Has("vout") /\ o = Own(call[t].port))
           /\ port' = port
<1>1. /\ Typed /\ Fit(m_events) /\ CallsTyped /\ PortsTyped
      /\ call[t].op = "vout" /\ "vout" \in kinds /\ port' = port
      /\ AddEvent("vout", Own(call[t].port))
  BY CoreParts DEF AddVideoOutEvent, MixInv, Own
<1>2. call[t].port \in Ports
  BY <1>1, CallOf
<1>3. Own(call[t].port) \in PortOwners
  BY <1>1, <1>2, PortTyped DEF Own, PortOwners
<1>4. OwnerOf("vout", Own(call[t].port))
  BY <1>3, PortOwnerIs DEF OwnerOf
<1>5. \A k, o : Owned(m_events', k, o) <=>
          Owned(m_events, k, o) \/ (~Has("vout") /\ k = "vout" /\ o = Own(call[t].port))
  BY <1>1, <1>4, AddEventFits
<1> QED
  BY <1>1, <1>2, <1>3, <1>5, OwnedDecides

-----------------------------------------------------------------------------
(* The renderer's interrupts.                                              *)
SameRegisters ==
    /\ \A u \in Threads : call'[u].op = "register" <=> call[u].op = "register"
    /\ \A u \in Threads : call'[u].op = "deregister" <=> call[u].op = "deregister"

LEMMA IrqUntouched ==
    ASSUME IrqInv, IrqKept, UNCHANGED registry, SameRegisters
    PROVE  IrqInv'
<1>1. Has("irq")' => Has("irq")
  BY DEF IrqKept, Has, HasIn
<1>2. Registering' <=> Registering
  BY DEF SameRegisters, Registering
<1>3. Removers' = Removers
  BY DEF SameRegisters, Removers, registry
<1> QED
  BY <1>1, <1>2, <1>3 DEF IrqInv, registry

LEMMA RegistersSame ==
    ASSUME CallsTyped, NEW t \in Threads, NEW c, Goes(t, c),
           call[t].op \notin {"register", "deregister"}, c.op \notin {"register", "deregister"}
    PROVE  SameRegisters
  BY CallGoes DEF SameRegisters

LEMMA EditKeepsOp ==
    ASSUME CallsTyped, NEW t \in Threads
    PROVE  /\ \A o : [call[t] EXCEPT !.owners = call[t].owners \ {o}].op = call[t].op
           /\ [call[t] EXCEPT !.timeout = "expired"].op = call[t].op
  BY DEF CallsTyped, Calls, Idle, Waits, Halves, Callbacks, Vouts, Closes

(* Whoever is not about the interrupts leaves their registration alone.    *)
LEMMA OthersIrq ==
    ASSUME CoreInv, MixInv, IrqInv, NEW t \in Threads,
           \/ \E num \in Rooms, timeout \in {"none", "finite"} : WaitBegin(t, num, timeout)
           \/ \E kind \in User : \/ AddUserEvent(t, kind) \/ DeleteUserEvent(t, kind)
                                 \/ TriggerUserEvent(kind)
           \/ DeleteEqueue(t) \/ WaitReturns(t) \/ WaitExpires(t) \/ Close(t) \/ Callback(t)
           \/ AddVideoOutEvent(t) \/ PortDeletesEvents(t) \/ TimerPasses
           \/ \E p \in Ports : \/ PortOpen(t, p) \/ RegisterVideoOutEvent(t, p)
                               \/ DeleteVideoOutEvent(t, p) \/ PortClose(t, p)
                               \/ TriggerVideoOutEvents(p)
    PROVE  IrqInv'
<1>1. CallsTyped /\ Idle.op = "none"
  BY CoreParts DEF Idle
<1>2. call' = call => SameRegisters
  BY DEF SameRegisters
<1>3. ASSUME NEW num \in Rooms, NEW timeout \in {"none", "finite"}, WaitBegin(t, num, timeout)
      PROVE  IrqInv'
  BY <1>1, <1>3, EventsKeep, RegistersSame, IrqUntouched DEF WaitBegin
<1>4. ASSUME NEW kind \in User,
             AddUserEvent(t, kind) \/ DeleteUserEvent(t, kind) \/ TriggerUserEvent(kind)
      PROVE  IrqInv'
  <2>1. IrqKept
    BY <1>4, UserEventsKeep
  <2>2. call' = call /\ UNCHANGED registry
    BY <1>4 DEF AddUserEvent, DeleteUserEvent, TriggerUserEvent
  <2> QED
    BY <1>2, <2>1, <2>2, IrqUntouched
<1>5. ASSUME DeleteEqueue(t) PROVE IrqInv'
  BY <1>1, <1>5, EventsKeep, RegistersSame, IrqUntouched DEF DeleteEqueue, GuestCall
<1>6. ASSUME WaitReturns(t) PROVE IrqInv'
  <2>1. IrqKept
    BY <1>6, EventsKeep
  <2>2. UNCHANGED registry /\ SameRegisters
    BY <1>1, <1>6, RegistersSame DEF WaitReturns
  <2> QED
    BY <2>1, <2>2, IrqUntouched
<1>7. ASSUME WaitExpires(t) PROVE IrqInv'
  BY <1>1, <1>7, EventsKeep, EditKeepsOp, RegistersSame, IrqUntouched DEF WaitExpires
<1>8. ASSUME Close(t) PROVE IrqInv'
  <2>1. IrqKept
    BY <1>8 DEF Close, IrqKept, HasIn
  <2> QED
    BY <1>1, <1>8, <2>1, RegistersSame, IrqUntouched DEF Close
<1>9. ASSUME Callback(t) PROVE IrqInv'
  <2>1. SameRegisters
    BY <1>1, <1>9, EditKeepsOp, RegistersSame DEF Callback
  <2> QED
    BY <1>9, <2>1, EventsKeep, IrqUntouched DEF Callback
<1>10. ASSUME AddVideoOutEvent(t) PROVE IrqInv'
  <2>1. IrqKept
    BY <1>10, VoutAdded, EventsKeep DEF AddVideoOutEvent
  <2>2. SameRegisters /\ UNCHANGED registry
    BY <1>1, <1>10, RegistersSame DEF AddVideoOutEvent
  <2> QED
    BY <2>1, <2>2, IrqUntouched
<1>11. ASSUME PortDeletesEvents(t) PROVE IrqInv'
  <2>1. IrqKept
    BY <1>11, VoutDeleted, EventsKeep DEF PortDeletesEvents
  <2>2. SameRegisters /\ UNCHANGED registry
    BY <1>1, <1>11, RegistersSame DEF PortDeletesEvents
  <2> QED
    BY <2>1, <2>2, IrqUntouched
<1>12. ASSUME TimerPasses PROVE IrqInv'
  BY <1>2, <1>12, EventsKeep, IrqUntouched DEF TimerPasses
<1>13. ASSUME NEW p \in Ports, PortOpen(t, p) PROVE IrqInv'
  BY <1>2, <1>13, EventsKeep, IrqUntouched DEF PortOpen
<1>14. ASSUME NEW p \in Ports, RegisterVideoOutEvent(t, p) PROVE IrqInv'
  BY <1>1, <1>14, EventsKeep, RegistersSame, IrqUntouched DEF RegisterVideoOutEvent, GuestCall
<1>15. ASSUME NEW p \in Ports, DeleteVideoOutEvent(t, p) PROVE IrqInv'
  <2>1. SameRegisters /\ UNCHANGED registry
    BY <1>1, <1>15, RegistersSame DEF DeleteVideoOutEvent, GuestCall
  <2> QED
    BY <1>15, <2>1, VoutDeleted, IrqUntouched DEF DeleteVideoOutEvent
<1>16. ASSUME NEW p \in Ports, PortClose(t, p) PROVE IrqInv'
  BY <1>1, <1>16, EventsKeep, RegistersSame, IrqUntouched DEF PortClose, GuestCall
<1>17. ASSUME NEW p \in Ports, TriggerVideoOutEvents(p) PROVE IrqInv'
  BY <1>2, <1>17, EventsKeep, IrqUntouched DEF TriggerVideoOutEvents
<1> QED
  BY <1>3, <1>4, <1>5, <1>6, <1>7, <1>8, <1>9, <1>10, <1>11, <1>12, <1>13, <1>14, <1>15, <1>16,
     <1>17

(* The two halves of AddEqEvent and of DeleteEqEvent, and TriggerInterrupt *)
(* between its copy of the registrations and the removal.                  *)
LEMMA InterruptsIrq ==
    ASSUME CoreInv, IrqInv, NEW t \in Threads,
           \/ AddEqEvent(t) \/ AddInterruptEq(t) \/ DeleteEqEvent(t) \/ DeleteInterruptEq(t)
           \/ TriggerInterrupt \/ InterruptDelivered \/ InterruptDropped
    PROVE  IrqInv'
<1>1. CallsTyped /\ Typed /\ Fit(m_events) /\ (~Open => m_events = <<>>) /\ Idle.op = "none"
  BY CoreParts DEF Idle
<1>2. Has("irq")' <=> HasIn(m_events', "irq")
  BY DEF Has, HasIn
<1>3. ASSUME AddEqEvent(t) PROVE IrqInv'
  <2>1. call'[t] = [op |-> "register"] /\ \A u \in Threads : u # t => call'[u] = call[u]
    BY <1>1, <1>3, CallGoes DEF AddEqEvent
  <2>2. /\ late' = (IF Has("irq") THEN late ELSE Removers) /\ irq' = irq
        /\ call[t].op = "none"
    BY <1>1, <1>3 DEF AddEqEvent, GuestCall
  <2>3. Registering'
    BY <2>1 DEF Registering
  <2>4. Removers' \subseteq Removers
    BY <2>1, <2>2 DEF Removers
  <2> QED
    BY <2>2, <2>3, <2>4 DEF IrqInv
<1>4. ASSUME AddInterruptEq(t) PROVE IrqInv'
  <2>1. call'[t] = Idle /\ \A u \in Threads : u # t => call'[u] = call[u]
    BY <1>1, <1>4, CallGoes DEF AddInterruptEq
  <2>2. late' = late /\ irq' = irq /\ m_interrupt_eqs' = TRUE /\ (Has("irq")' <=> Has("irq"))
    BY <1>4 DEF AddInterruptEq, Has
  <2>3. Removers' \subseteq Removers
    BY <1>1, <2>1, <2>2 DEF Removers
  <2> QED
    BY <2>2, <2>3 DEF IrqInv
<1>5. ASSUME DeleteEqEvent(t) PROVE IrqInv'
  <2>1. \A k, o : Owned(m_events', k, o) <=> Owned(m_events, k, o) /\ k # "irq"
    BY <1>1, <1>5, DeleteFits DEF DeleteEqEvent
  <2>2. ~Has("irq")'
    BY <1>2, <2>1, HasOwned
  <2> QED
    BY <2>2 DEF IrqInv
<1>6. ASSUME DeleteInterruptEq(t) PROVE IrqInv'
  <2>1. call'[t] = Idle /\ \A u \in Threads : u # t => call'[u] = call[u]
    BY <1>1, <1>6, CallGoes DEF DeleteInterruptEq
  <2>2. /\ late' = late \ {t} /\ irq' = irq /\ (Has("irq")' <=> Has("irq")) /\ t \in Removers
        /\ lost' = (lost \/ t \in late) /\ t # "priority"
    BY <1>6, QueueAssumption DEF DeleteInterruptEq, RemovedBy, Has, Removers
  <2>3. Removers' \subseteq Removers \ {t}
    BY <1>1, <2>1, <2>2 DEF Removers
  <2> QED
    BY <2>2, <2>3 DEF IrqInv
<1>7. ASSUME TriggerInterrupt PROVE IrqInv'
  <2>1. /\ late' = late /\ irq' = "copied" /\ call' = call /\ lost' = lost
        /\ m_interrupt_eqs' = m_interrupt_eqs /\ (Has("irq")' <=> Has("irq"))
    BY <1>7 DEF TriggerInterrupt, Has
  <2>2. (Registering' <=> Registering) /\ Removers' \subseteq Removers
    BY <2>1 DEF Registering, Removers
  <2> QED
    BY <2>1, <2>2 DEF IrqInv
<1>8. ASSUME InterruptDelivered PROVE IrqInv'
  <2>1. /\ late' = late /\ lost' = lost /\ call' = call /\ m_interrupt_eqs' = m_interrupt_eqs
        /\ irq = "copied"
    BY <1>8 DEF InterruptDelivered
  <2>2. Has("irq")' => Has("irq")
    BY <1>2, <1>8, EventsKeep DEF IrqKept, Has, HasIn
  <2>3. Registering' <=> Registering
    BY <2>1 DEF Registering
  <2>4. CASE Open /\ Has("irq")
    <3>1. irq' = "idle"
      BY <1>8, <2>4 DEF InterruptDelivered
    <3>2. Removers' \subseteq Removers
      BY <2>1, <3>1 DEF Removers
    <3> QED
      BY <2>1, <2>2, <2>3, <3>2 DEF IrqInv
  <2>5. CASE ~(Open /\ Has("irq"))
    <3>1. ~Has("irq")
      BY <1>1, <2>5 DEF Has
    <3> QED
      BY <2>2, <3>1 DEF IrqInv
  <2> QED
    BY <2>4, <2>5
<1>9. ASSUME InterruptDropped PROVE IrqInv'
  <2>1. /\ late' = late \ {"priority"} /\ call' = call /\ irq = "drop" /\ irq' = "idle"
        /\ (Has("irq")' <=> Has("irq")) /\ lost' = (lost \/ "priority" \in late)
    BY <1>9 DEF InterruptDropped, RemovedBy, Has
  <2>2. Removers' \subseteq Removers \ {"priority"} /\ "priority" \in Removers
    BY <2>1, QueueAssumption DEF Removers
  <2> QED
    BY <2>1, <2>2 DEF IrqInv
<1> QED
  BY <1>3, <1>4, <1>5, <1>6, <1>7, <1>8, <1>9

-----------------------------------------------------------------------------
(* The ports.                                                              *)
LEMMA PortNames ==
    ASSUME NEW p \in Ports
    PROVE  p # "none" /\ p # "driver"
  BY QueueAssumption

PortOps == {"vout", "callbacks", "portclose"}

(* What the mutexes and the calls under them say is unchanged.             *)
LocksSame ==
    /\ \A u \in Threads, p \in Ports : HasLock(u, p)' <=> HasLock(u, p)
    /\ \A u \in Threads : HasDriver(u)' <=> HasDriver(u)
ClosesSame ==
    \A u \in Threads, p \in Ports :
        /\ ClosesPort(u, p)' <=> ClosesPort(u, p)
        /\ ClosesPort(u, p) => call'[u].moved = call[u].moved
PortCallsSame ==
    \A u \in Threads : \/ call'[u] = call[u]
                       \/ call'[u].op \notin PortOps /\ call[u].op \notin PortOps

LEMMA QueueSame ==
    ASSUME VoutSame
    PROVE  \A o : InQueue(o)' <=> InQueue(o)
  BY DEF VoutSame, InQueue, Owned

LEMMA QueueIsOwned == \A o : InQueue(o)' <=> Owned(m_events', "vout", o)
  BY DEF InQueue, Owned

LEMMA PortsUntouched ==
    ASSUME PortsInv, port' = port, shared' = shared, Open' <=> Open, VoutSame, PortCallsSame
    PROVE  PortsInv'
<1>1. LocksSame /\ ClosesSame
  BY DEF PortCallsSame, PortOps, LocksSame, ClosesSame, HasLock, HasDriver, ClosesPort
<1>2. \A o : InQueue(o)' <=> InQueue(o)
  BY QueueSame
<1>3. \A o : Pending(o)' <=> Pending(o)
  BY DEF Pending, PortCallsSame, PortOps
<1>4. \A p \in Ports : Entering(p)' <=> Entering(p)
  BY DEF Entering, PortCallsSame, PortOps
<1>5. \A p \in Ports : Own(p)' = Own(p) /\ (Registered(p)' <=> Registered(p))
  BY DEF Own, Registered
<1>6. LocksInv'
  BY <1>1 DEF PortsInv, LocksInv, LocksSame, ClosesSame
<1>7. SharedInv'
  BY <1>1, <1>2, <1>3 DEF PortsInv, SharedInv, LocksSame, ClosesSame
<1>8. ASSUME NEW p \in Ports, shared \subseteq {p} PROVE Accounted(p)'
  <2>1. Accounted(p)
    BY <1>8 DEF PortsInv
  <2>2. EventIsOwned(p)'
    BY <1>1, <1>2, <1>5, <2>1 DEF Accounted, EventIsOwned, ClosesSame
  <2>3. RegistrationIsServed(p)'
    BY <1>2, <1>3, <1>4, <1>5, <2>1 DEF Accounted, RegistrationIsServed
  <2>4. EnteringIsRegistered(p)'
    BY <1>2, <1>3, <1>5, <2>1 DEF Accounted, EnteringIsRegistered, PortCallsSame, PortOps
  <2>5. CallbacksAreLate(p)'
    <3>1. \A t \in Threads : call'[t].op = "callbacks" =>
              call[t].op = "callbacks" /\ call'[t] = call[t]
      BY DEF PortCallsSame, PortOps
    <3>2. \A t \in Threads, o \in PortOwners : call'[t].op = "callbacks" /\ o \in call'[t].owners =>
              ~Open' \/ call'[t].lock = p \/ (call'[t].lock = "driver" /\ ~port'[p].opened)
      BY <2>1, <3>1 DEF Accounted, CallbacksAreLate
    <3>3. \A o \in PortOwners : ~(Pending(o)' /\ InQueue(o)')
      BY <1>2, <1>3, <2>1 DEF Accounted, CallbacksAreLate
    <3> QED
      BY <3>2, <3>3 DEF CallbacksAreLate
  <2> QED
    BY <2>2, <2>3, <2>4, <2>5 DEF Accounted
<1> QED
  BY <1>6, <1>7, <1>8 DEF PortsInv

(* Close of the queue hands its events to the callbacks.                   *)
LEMMA ClosePorts ==
    ASSUME CoreInv, PortsInv, NEW t \in Threads, Close(t)
    PROVE  PortsInv'
<1>1. /\ CallsTyped /\ Fit(m_events) /\ call[t].op = "close"
      /\ port' = port /\ shared' = shared /\ ~Open' /\ m_events' = <<>>
      /\ Goes(t, [op |-> "callbacks", owners |-> Owners(m_events), lock |-> "none"])
  BY CoreParts DEF Close, ports, Open
<1>2. /\ call'[t] = [op |-> "callbacks", owners |-> Owners(m_events), lock |-> "none"]
      /\ \A u \in Threads : u # t => call'[u] = call[u]
  BY <1>1, CallGoes
<1>3. \A o : ~InQueue(o)'
  BY <1>1 DEF InQueue, Owned
<1>4. \A o : Pending(o)' <=> Pending(o) \/ InQueue(o)
  BY <1>1, <1>2, OwnersAre DEF Pending
<1>5. LocksSame /\ ClosesSame
  BY <1>1, <1>2, PortNames DEF LocksSame, ClosesSame, HasLock, HasDriver, ClosesPort
<1>6. \A p \in Ports : Own(p)' = Own(p) /\ (Registered(p)' <=> Registered(p))
                       /\ (Entering(p)' <=> Entering(p))
  BY <1>1, <1>2 DEF Own, Registered, Entering
<1>7. LocksInv'
  BY <1>1, <1>5 DEF PortsInv, LocksInv, LocksSame, ClosesSame
<1>8. SharedInv'
  BY <1>1, <1>3, <1>4, <1>5 DEF PortsInv, SharedInv, LocksSame, ClosesSame
<1>9. ASSUME NEW p \in Ports, shared \subseteq {p} PROVE Accounted(p)'
  <2>1. Accounted(p)
    BY <1>9 DEF PortsInv
  <2>2. EventIsOwned(p)'
    BY <1>3 DEF EventIsOwned
  <2>3. RegistrationIsServed(p)'
    BY <1>4, <1>6, <2>1 DEF Accounted, RegistrationIsServed
  <2>4. EnteringIsRegistered(p)'
    BY <1>1, <1>2, <1>4, <1>6, <2>1 DEF Accounted, EnteringIsRegistered
  <2>5. CallbacksAreLate(p)'
    BY <1>1, <1>3 DEF CallbacksAreLate
  <2> QED
    BY <2>2, <2>3, <2>4, <2>5 DEF Accounted
<1> QED
  BY <1>1, <1>7, <1>8, <1>9 DEF PortsInv

(* The last callback has run.                                              *)
LEMMA CallbacksEndPorts ==
    ASSUME CoreInv, PortsInv, NEW t \in Threads, call[t].op = "callbacks", call[t].owners = {},
           Goes(t, Idle), UNCHANGED <<m_events, port, shared>>, Open' <=> Open
    PROVE  PortsInv'
<1>1. call'[t] = Idle /\ \A u \in Threads : u # t => call'[u] = call[u]
  BY CoreParts, CallGoes
<1>2. Idle.op = "none"
  BY DEF Idle
<1>3. \A o : InQueue(o)' <=> InQueue(o)
  BY DEF InQueue, Owned
<1>4. \A o : Pending(o)' <=> Pending(o)
  BY <1>1, <1>2 DEF Pending
<1>5. /\ \A u \in Threads, p \in Ports : HasLock(u, p)' => HasLock(u, p)
      /\ \A u \in Threads : HasDriver(u)' => HasDriver(u)
  BY <1>1, <1>2 DEF HasLock, HasDriver
<1>6. ClosesSame
  BY <1>1, <1>2 DEF ClosesSame, ClosesPort
<1>7. \A p \in Ports : /\ Own(p)' = Own(p) /\ (Registered(p)' <=> Registered(p))
                       /\ Entering(p)' <=> Entering(p)
  BY <1>1, <1>2 DEF Own, Registered, Entering
<1>8. LocksInv'
  BY <1>5, <1>6 DEF PortsInv, LocksInv, ClosesSame
<1>9. SharedInv'
  BY <1>3, <1>4, <1>5, <1>6 DEF PortsInv, SharedInv, ClosesSame
<1>10. ASSUME NEW p \in Ports, shared \subseteq {p} PROVE Accounted(p)'
  <2>1. Accounted(p)
    BY <1>10 DEF PortsInv
  <2>2. EventIsOwned(p)'
    BY <1>3, <1>6, <1>7, <2>1 DEF Accounted, EventIsOwned, ClosesSame
  <2>3. RegistrationIsServed(p)'
    BY <1>3, <1>4, <1>7, <2>1 DEF Accounted, RegistrationIsServed
  <2>4. EnteringIsRegistered(p)'
    BY <1>1, <1>2, <1>3, <1>4, <1>7, <2>1 DEF Accounted, EnteringIsRegistered
  <2>5. CallbacksAreLate(p)'
    BY <1>1, <1>2, <1>3, <1>4, <2>1 DEF Accounted, CallbacksAreLate
  <2> QED
    BY <2>2, <2>3, <2>4, <2>5 DEF Accounted
<1> QED
  BY <1>8, <1>9, <1>10 DEF PortsInv

LEMMA OwnIs ==
    ASSUME PortsTyped, NEW p \in Ports
    PROVE  /\ Own(p) \in PortOwners /\ Own(p).port = p
           /\ Own(p).generation = port[p].generation
  BY PortTyped DEF Own, PortOwners

LEMMA OwnerEquals ==
    ASSUME NEW o \in PortOwners, NEW p \in Ports, o.port = p, o.generation = port[p].generation
    PROVE  o = Own(p)
  BY DEF PortOwners, Own

(* One callback takes its own registration out of the list.                *)
LEMMA CallbackPorts ==
    ASSUME CoreInv, PortsInv, NEW t \in Threads, call[t].op = "callbacks",
           NEW o \in call[t].owners, port' = Without(o),
           Goes(t, [call[t] EXCEPT !.owners = call[t].owners \ {o}]),
           UNCHANGED <<m_events, shared>>, Open' <=> Open
    PROVE  PortsInv'
<1>1. /\ CallsTyped /\ PortsTyped /\ o \in PortOwners /\ o.port \in Ports
      /\ call[t] \in Callbacks
  BY CoreParts, CallOf, CallIs DEF PortOwners
<1>2. /\ call'[t] = [call[t] EXCEPT !.owners = call[t].owners \ {o}]
      /\ \A u \in Threads : u # t => call'[u] = call[u]
  BY <1>1, CallGoes
<1>3. /\ call'[t].op = "callbacks" /\ call'[t].owners = call[t].owners \ {o}
      /\ call'[t].lock = call[t].lock
  BY <1>1, <1>2 DEF Callbacks
<1>4. \A x : InQueue(x)' <=> InQueue(x)
  BY DEF InQueue, Owned
<1>5. /\ \A x : Pending(x)' => Pending(x)
      /\ \A x : x # o /\ Pending(x) => Pending(x)'
      /\ Pending(o)
  BY <1>2, <1>3 DEF Pending
<1>6. LocksSame /\ ClosesSame
  BY <1>2, <1>3 DEF LocksSame, ClosesSame, HasLock, HasDriver, ClosesPort
<1>7. /\ \A p \in Ports : /\ port'[p].opened = port[p].opened
                          /\ port'[p].generation = port[p].generation
                          /\ p # o.port => port'[p].registrations = port[p].registrations
      /\ port'[o.port].registrations = port[o.port].registrations \ {o.generation}
  BY <1>1, WithoutTyped
<1>8. \A p \in Ports : /\ Own(p)' = Own(p) /\ (Entering(p)' <=> Entering(p))
                       /\ Registered(p)' => Registered(p)
                       /\ o # Own(p) /\ Registered(p) => Registered(p)'
                       /\ o = Own(p) => ~Registered(p)'
  <2> SUFFICES ASSUME NEW p \in Ports
               PROVE  /\ Own(p)' = Own(p) /\ (Entering(p)' <=> Entering(p))
                      /\ Registered(p)' => Registered(p)
                      /\ o # Own(p) /\ Registered(p) => Registered(p)'
                      /\ o = Own(p) => ~Registered(p)'
    OBVIOUS
  <2>1. Own(p)' = Own(p) /\ (Entering(p)' <=> Entering(p))
    BY <1>2, <1>3, <1>7 DEF Own, Entering
  <2>2. CASE p # o.port
    <3>1. o # Own(p)
      BY <1>1, <2>2, OwnIs
    <3> QED
      BY <1>7, <2>1, <2>2, <3>1 DEF Registered
  <2>3. CASE p = o.port
    <3>1. o = Own(p) <=> o.generation = port[p].generation
      BY <1>1, <2>3, OwnIs, OwnerEquals
    <3> QED
      BY <1>7, <2>1, <2>3, <3>1 DEF Registered
  <2> QED
    BY <2>2, <2>3
<1>9. LocksInv'
  BY <1>6, <1>7 DEF PortsInv, LocksInv, LocksSame, ClosesSame
<1>10. SharedInv'
  <2>1. \A p \in Ports : port'[p].registrations \subseteq port[p].registrations
    BY <1>7
  <2> QED
    BY <1>4, <1>5, <1>6, <1>7, <2>1 DEF PortsInv, SharedInv, LocksSame, ClosesSame
<1>11. ASSUME NEW p \in Ports, shared \subseteq {p} PROVE Accounted(p)'
  <2>1. Accounted(p)
    BY <1>11 DEF PortsInv
  <2>2. ~InQueue(o)
    BY <1>1, <1>5, <2>1 DEF Accounted, CallbacksAreLate
  <2>3. EventIsOwned(p)'
    <3> SUFFICES ASSUME NEW x \in PortOwners, InQueue(x)'
                 PROVE  \/ x = Own(p)' /\ Registered(p)' /\ port'[p].opened
                        \/ \E u \in Threads : ClosesPort(u, p)' /\ x.generation \in call'[u].moved
      BY DEF EventIsOwned
    <3>1. InQueue(x) /\ x # o
      BY <1>4, <2>2
    <3>2. CASE x = Own(p) /\ Registered(p) /\ port[p].opened
      BY <1>7, <1>8, <3>1, <3>2
    <3>3. CASE \E u \in Threads : ClosesPort(u, p) /\ x.generation \in call[u].moved
      BY <1>6, <3>3 DEF ClosesSame
    <3> QED
      BY <2>1, <3>1, <3>2, <3>3 DEF Accounted, EventIsOwned
  <2>4. RegistrationIsServed(p)'
    BY <1>4, <1>5, <1>8, <2>1 DEF Accounted, RegistrationIsServed
  <2>5. EnteringIsRegistered(p)'
    <3> SUFFICES ASSUME NEW u \in Threads, call'[u].op = "vout"
                 PROVE  /\ Open' => Registered(p)'
                        /\ ~call'[u].fresh /\ Registered(p)' =>
                              InQueue(Own(p))' \/ Pending(Own(p))'
      BY DEF EnteringIsRegistered
    <3>1. u # t /\ call'[u] = call[u] /\ call[u].op = "vout"
      BY <1>2, <1>3
    <3>2. call[u].port \in Ports /\ HasLock(u, call[u].port)
      BY <1>1, <3>1, CallOf DEF HasLock
    <3>3. call[u].port = p
      BY <1>11, <3>2 DEF PortsInv, SharedInv
    <3>4. HasLock(u, p) /\ port[p].opened
      BY <3>2, <3>3 DEF PortsInv, LocksInv
    <3>5. /\ Open => Registered(p)
          /\ ~call[u].fresh /\ Registered(p) => InQueue(Own(p)) \/ Pending(Own(p))
      BY <2>1, <3>1 DEF Accounted, EnteringIsRegistered
    <3>6. ASSUME o = Own(p) PROVE ~Open
      <4>1. ~Open \/ call[t].lock = p \/ (call[t].lock = "driver" /\ ~port[p].opened)
        BY <1>1, <2>1 DEF Accounted, CallbacksAreLate
      <4>2. call[t].lock # p
        BY <3>1, <3>4 DEF PortsInv, LocksInv, HasLock
      <4> QED
        BY <3>4, <4>1, <4>2
    <3> QED
      BY <1>4, <1>5, <1>8, <3>1, <3>5, <3>6
  <2>6. CallbacksAreLate(p)'
    <3>1. \A u \in Threads : call'[u].op = "callbacks" =>
              /\ call[u].op = "callbacks" /\ call'[u].lock = call[u].lock
              /\ call'[u].owners \subseteq call[u].owners
      BY <1>2, <1>3
    <3>2. \A u \in Threads, x \in PortOwners : call'[u].op = "callbacks" /\ x \in call'[u].owners =>
              ~Open' \/ call'[u].lock = p \/ (call'[u].lock = "driver" /\ ~port'[p].opened)
      BY <1>7, <2>1, <3>1 DEF Accounted, CallbacksAreLate
    <3>3. \A x \in PortOwners : ~(Pending(x)' /\ InQueue(x)')
      BY <1>4, <1>5, <2>1 DEF Accounted, CallbacksAreLate
    <3> QED
      BY <3>2, <3>3 DEF CallbacksAreLate
  <2> QED
    BY <2>3, <2>4, <2>5, <2>6 DEF Accounted
<1> QED
  BY <1>9, <1>10, <1>11 DEF PortsInv

LEMMA OpenPorts ==
    ASSUME CoreInv, PortsInv, NEW t \in Threads, NEW r \in Ports, PortOpen(t, r)
    PROVE  PortsInv'
<1>1. /\ PortsTyped /\ CallsTyped /\ call' = call /\ shared' = shared /\ m_events' = m_events
      /\ Open' = Open /\ ~port[r].opened /\ ~Closing
  BY CoreParts DEF PortOpen, Open
<1>2. /\ port'[r].opened /\ port'[r].registrations = port[r].registrations
      /\ port'[r].generation = port[r].generation + 1
      /\ \A p \in Ports : p # r => port'[p] = port[p]
  BY <1>1, PortOpenIs
<1>3. \A u \in Threads : ~HasLock(u, r) /\ ~HasDriver(u)
  BY <1>1 DEF PortsInv, LocksInv, Closing, HasDriver
<1>4. \A u \in Threads, p \in Ports : ~ClosesPort(u, p)
  BY <1>3 DEF HasDriver, ClosesPort
<1>5. /\ LocksSame /\ ClosesSame /\ \A o : InQueue(o)' <=> InQueue(o)
      /\ \A o : Pending(o)' <=> Pending(o)
      /\ \A p \in Ports : Entering(p)' <=> Entering(p)
  BY <1>1 DEF LocksSame, ClosesSame, HasLock, HasDriver, ClosesPort, InQueue, Owned, Pending,
              Entering
<1>6. port[r].registrations = {} /\ ~Registered(r)'
  BY <1>1, <1>2 DEF PortsInv, SharedInv, Registered
<1>7. LocksInv'
  <2>1. \A u \in Threads, p \in Ports : HasLock(u, p) => port'[p].opened
    BY <1>2, <1>3 DEF PortsInv, LocksInv
  <2> QED
    BY <1>4, <1>5, <2>1 DEF PortsInv, LocksInv, LocksSame, ClosesSame
<1>8. SharedInv'
  <2>1. \A p \in Ports : /\ ~port'[p].opened => port'[p].registrations = {}
                         /\ port'[p].registrations \subseteq {port'[p].generation}
                         /\ port'[p].registrations # {} => p \in shared
    BY <1>2, <1>6 DEF PortsInv, SharedInv
  <2> QED
    BY <1>1, <1>4, <1>5, <2>1 DEF PortsInv, SharedInv, LocksSame, ClosesSame
<1>9. ASSUME NEW p \in Ports, shared \subseteq {p} PROVE Accounted(p)'
  <2>1. Accounted(p)
    BY <1>9 DEF PortsInv
  <2>2. ASSUME p # r PROVE Own(p)' = Own(p) /\ (Registered(p)' <=> Registered(p))
    BY <1>2, <2>2 DEF Own, Registered
  <2>3. ASSUME p = r, NEW o \in PortOwners PROVE ~InQueue(o)
    <3>1. ~(o = Own(p) /\ Registered(p) /\ port[p].opened)
      BY <1>1, <2>3
    <3> QED
      BY <1>4, <2>1, <3>1 DEF Accounted, EventIsOwned
  <2>4. EventIsOwned(p)'
    BY <1>2, <1>4, <1>5, <2>1, <2>2, <2>3 DEF Accounted, EventIsOwned
  <2>5. RegistrationIsServed(p)'
    BY <1>5, <1>6, <2>1, <2>2 DEF Accounted, RegistrationIsServed
  <2>6. EnteringIsRegistered(p)'
    <3>1. ASSUME p = r, NEW u \in Threads PROVE call[u].op # "vout"
      <4>1. SUFFICES ASSUME call[u].op = "vout" PROVE FALSE
        OBVIOUS
      <4>2. call[u].port \in Ports /\ HasLock(u, call[u].port)
        BY <1>1, <4>1, CallOf DEF HasLock
      <4>3. call[u].port = p
        BY <1>9, <4>2 DEF PortsInv, SharedInv
      <4> QED
        BY <1>3, <3>1, <4>2, <4>3
    <3> QED
      BY <1>1, <1>5, <2>1, <2>2, <3>1 DEF Accounted, EnteringIsRegistered
  <2>7. CallbacksAreLate(p)'
    <3>1. \A u \in Threads : ~(call[u].op = "callbacks" /\ call[u].lock = "driver")
      BY <1>3 DEF HasDriver
    <3>2. \A u \in Threads, o \in PortOwners : call'[u].op = "callbacks" /\ o \in call'[u].owners =>
              ~Open' \/ call'[u].lock = p \/ (call'[u].lock = "driver" /\ ~port'[p].opened)
      BY <1>1, <2>1, <3>1 DEF Accounted, CallbacksAreLate
    <3>3. \A o \in PortOwners : ~(Pending(o)' /\ InQueue(o)')
      BY <1>5, <2>1 DEF Accounted, CallbacksAreLate
    <3> QED
      BY <3>2, <3>3 DEF CallbacksAreLate
  <2> QED
    BY <2>4, <2>5, <2>6, <2>7 DEF Accounted
<1> QED
  BY <1>1, <1>7, <1>8, <1>9 DEF PortsInv

LEMMA RegisterPorts ==
    ASSUME CoreInv, PortsInv, NEW t \in Threads, NEW r \in Ports, RegisterVideoOutEvent(t, r)
    PROVE  PortsInv'
<1>1. /\ PortsTyped /\ CallsTyped /\ call[t] = Idle /\ Idle.op = "none"
      /\ shared' = shared \cup {r} /\ m_events' = m_events
      /\ Open' = Open /\ port[r].opened /\ ~Held(r)
      /\ Goes(t, [op |-> "vout", port |-> r,
                  fresh |-> port[r].generation \notin port[r].registrations])
  BY CoreParts DEF RegisterVideoOutEvent, GuestCall, Open, Idle
<1>2. /\ port'[r].opened = port[r].opened /\ port'[r].generation = port[r].generation
      /\ port'[r].registrations = port[r].registrations \cup {port[r].generation}
      /\ \A p \in Ports : p # r => port'[p] = port[p]
  BY <1>1, RegisterIs
<1>3. /\ call'[t] = [op |-> "vout", port |-> r, fresh |-> ~Registered(r)]
      /\ \A u \in Threads : u # t => call'[u] = call[u]
  BY <1>1, CallGoes DEF Registered
<1>4. \A u \in Threads : ~HasLock(u, r)
  BY <1>1 DEF Held, HasLock
<1>5. /\ \A u \in Threads, p \in Ports : HasLock(u, p)' <=> HasLock(u, p) \/ (u = t /\ p = r)
      /\ \A u \in Threads : HasDriver(u)' <=> HasDriver(u)
      /\ ClosesSame
      /\ \A o : InQueue(o)' <=> InQueue(o)
      /\ \A o : Pending(o)' <=> Pending(o)
      /\ \A p \in Ports : Own(p)' = Own(p)
  <2>1. \A u \in Threads, p \in Ports : HasLock(u, p)' <=> HasLock(u, p) \/ (u = t /\ p = r)
    BY <1>1, <1>3 DEF HasLock
  <2>2. \A u \in Threads : HasDriver(u)' <=> HasDriver(u)
    BY <1>1, <1>3 DEF HasDriver
  <2>3. ClosesSame
    BY <1>1, <1>3 DEF ClosesSame, ClosesPort
  <2>4. \A o : InQueue(o)' <=> InQueue(o)
    BY <1>1 DEF InQueue, Owned
  <2>5. \A o : Pending(o)' <=> Pending(o)
    BY <1>1, <1>3 DEF Pending
  <2>6. \A p \in Ports : Own(p)' = Own(p)
    BY <1>2 DEF Own
  <2> QED
    BY <2>1, <2>2, <2>3, <2>4, <2>5, <2>6
<1>6. LocksInv'
  <2>1. \A u, v \in Threads, p \in Ports : HasLock(u, p)' /\ HasLock(v, p)' => u = v
    BY <1>4, <1>5 DEF PortsInv, LocksInv
  <2>2. \A p \in Ports : port'[p].opened = port[p].opened
    BY <1>2
  <2> QED
    BY <1>1, <1>5, <2>1, <2>2 DEF PortsInv, LocksInv, ClosesSame
<1>7. SharedInv'
  <2>1. \A p \in Ports : /\ ~port'[p].opened => port'[p].registrations = {}
                         /\ port'[p].registrations \subseteq {port'[p].generation}
                         /\ port'[p].registrations # {} => p \in shared'
    BY <1>1, <1>2 DEF PortsInv, SharedInv
  <2> QED
    BY <1>1, <1>5, <2>1 DEF PortsInv, SharedInv, ClosesSame
<1>8. ASSUME NEW p \in Ports, shared' \subseteq {p} PROVE Accounted(p)'
  <2>1. Accounted(p) /\ p = r /\ shared \subseteq {p}
    BY <1>1, <1>8 DEF PortsInv
  <2>2. Registered(p)' /\ port'[p].opened /\ port[p].opened
    BY <1>1, <1>2, <2>1 DEF Registered
  <2>3. \A u \in Threads : call[u].op # "vout"
    <3> SUFFICES ASSUME NEW u \in Threads, call[u].op = "vout" PROVE FALSE
      OBVIOUS
    <3>1. call[u].port \in Ports /\ HasLock(u, call[u].port)
      BY <1>1, CallOf DEF HasLock
    <3>2. call[u].port = p
      BY <2>1, <3>1 DEF PortsInv, SharedInv
    <3> QED
      BY <1>4, <2>1, <3>1, <3>2
  <2>4. EventIsOwned(p)'
    BY <1>5, <2>1, <2>2 DEF Accounted, EventIsOwned, ClosesSame
  <2>5. RegistrationIsServed(p)'
    <3>1. Entering(p)'
      BY <1>3, <2>1 DEF Entering
    <3> QED
      BY <3>1 DEF RegistrationIsServed
  <2>6. EnteringIsRegistered(p)'
    <3>1. ~Entering(p)
      BY <2>3 DEF Entering
    <3>2. Registered(p) => InQueue(Own(p)) \/ Pending(Own(p))
      BY <2>1, <3>1 DEF Accounted, RegistrationIsServed
    <3>3. ~call'[t].fresh => InQueue(Own(p))' \/ Pending(Own(p))'
      <4>1. call'[t].fresh = ~Registered(p)
        BY <1>3, <2>1
      <4>2. /\ InQueue(Own(p))' <=> InQueue(Own(p))
            /\ Pending(Own(p))' <=> Pending(Own(p))
        BY <1>5, <2>1, Zenon
      <4> QED
        BY <3>2, <4>1, <4>2, Zenon
    <3>4. \A u \in Threads : call'[u].op = "vout" => u = t
      BY <1>3, <2>3
    <3> QED
      BY <2>2, <3>3, <3>4 DEF EnteringIsRegistered
  <2>7. CallbacksAreLate(p)'
    <3>1. \A u \in Threads : call'[u].op = "callbacks" => call'[u] = call[u]
      BY <1>3
    <3>2. \A u \in Threads, o \in PortOwners : call'[u].op = "callbacks" /\ o \in call'[u].owners =>
              ~Open' \/ call'[u].lock = p \/ (call'[u].lock = "driver" /\ ~port'[p].opened)
      BY <1>1, <1>2, <2>1, <3>1 DEF Accounted, CallbacksAreLate
    <3>3. \A o \in PortOwners : ~(Pending(o)' /\ InQueue(o)')
      BY <1>5, <2>1 DEF Accounted, CallbacksAreLate
    <3> QED
      BY <3>2, <3>3 DEF CallbacksAreLate
  <2> QED
    BY <2>4, <2>5, <2>6, <2>7 DEF Accounted
<1> QED
  BY <1>6, <1>7, <1>8 DEF PortsInv

LEMMA ClosePortPorts ==
    ASSUME CoreInv, PortsInv, NEW t \in Threads, NEW r \in Ports, PortClose(t, r)
    PROVE  PortsInv'
<1>1. /\ PortsTyped /\ CallsTyped /\ call[t] = Idle /\ Idle.op = "none"
      /\ shared' = shared /\ m_events' = m_events
      /\ Open' = Open /\ port[r].opened /\ ~Held(r) /\ ~Closing
      /\ Goes(t, [op |-> "portclose", port |-> r, moved |-> port[r].registrations])
  BY CoreParts DEF PortClose, GuestCall, Open, Idle
<1>2. /\ ~port'[r].opened /\ port'[r].registrations = {}
      /\ \A p \in Ports : p # r => port'[p] = port[p]
  BY <1>1, PortCloseIs
<1>3. /\ call'[t] = [op |-> "portclose", port |-> r, moved |-> port[r].registrations]
      /\ \A u \in Threads : u # t => call'[u] = call[u]
  BY <1>1, CallGoes
<1>4. \A u \in Threads : ~HasLock(u, r) /\ ~HasDriver(u)
  BY <1>1 DEF Held, HasLock, Closing, HasDriver
<1>5. /\ \A u \in Threads, p \in Ports : HasLock(u, p)' <=> HasLock(u, p)
      /\ \A u \in Threads : HasDriver(u)' <=> u = t
      /\ \A u \in Threads, p \in Ports : ClosesPort(u, p)' <=> u = t /\ p = r
      /\ \A o : InQueue(o)' <=> InQueue(o)
      /\ \A o : Pending(o)' <=> Pending(o)
      /\ \A p \in Ports : Entering(p)' <=> Entering(p)
  <2>1. \A u \in Threads, p \in Ports : HasLock(u, p)' <=> HasLock(u, p)
    BY <1>1, <1>3 DEF HasLock
  <2>2. \A u \in Threads : HasDriver(u)' <=> u = t
    BY <1>3, <1>4 DEF HasDriver
  <2>3. \A u \in Threads, p \in Ports : ClosesPort(u, p)' <=> u = t /\ p = r
    BY <1>3, <1>4 DEF HasDriver, ClosesPort
  <2>4. \A o : InQueue(o)' <=> InQueue(o)
    BY <1>1 DEF InQueue, Owned
  <2>5. \A o : Pending(o)' <=> Pending(o)
    BY <1>1, <1>3 DEF Pending
  <2>6. \A p \in Ports : Entering(p)' <=> Entering(p)
    BY <1>1, <1>3 DEF Entering
  <2> QED
    BY <2>1, <2>2, <2>3, <2>4, <2>5, <2>6
<1>6. LocksInv'
  <2>1. \A u \in Threads, p \in Ports : HasLock(u, p) => port'[p].opened
    BY <1>2, <1>4 DEF PortsInv, LocksInv
  <2> QED
    BY <1>2, <1>5, <2>1 DEF PortsInv, LocksInv
<1>7. SharedInv'
  <2>1. \A p \in Ports : /\ ~port'[p].opened => port'[p].registrations = {}
                         /\ port'[p].registrations \subseteq {port'[p].generation}
                         /\ port'[p].registrations # {} => p \in shared'
    BY <1>1, <1>2 DEF PortsInv, SharedInv
  <2>2. \A u \in Threads, p \in Ports : ClosesPort(u, p)' /\ call'[u].moved # {} => p \in shared'
    BY <1>1, <1>3, <1>5 DEF PortsInv, SharedInv
  <2> QED
    BY <1>1, <1>5, <2>1, <2>2 DEF PortsInv, SharedInv
<1>8. ASSUME NEW p \in Ports, shared \subseteq {p} PROVE Accounted(p)'
  <2>1. Accounted(p)
    BY <1>8 DEF PortsInv
  <2>2. ASSUME p # r PROVE Own(p)' = Own(p) /\ (Registered(p)' <=> Registered(p))
    BY <1>2, <2>2 DEF Own, Registered
  <2>3. ~Registered(r)'
    BY <1>2 DEF Registered
  <2>4. \A o \in PortOwners : InQueue(o) => o = Own(p) /\ Registered(p) /\ port[p].opened
    BY <1>4, <2>1 DEF Accounted, EventIsOwned, ClosesPort, HasDriver
  <2>5. EventIsOwned(p)'
    <3>1. CASE p = r
      <4>1. \A o \in PortOwners : InQueue(o) => o.generation \in call'[t].moved
        BY <1>3, <2>4, <3>1 DEF Own, Registered
      <4> QED
        BY <1>5, <3>1, <4>1 DEF EventIsOwned
    <3>2. CASE p # r
      BY <1>2, <1>5, <2>2, <2>4, <3>2 DEF EventIsOwned
    <3> QED
      BY <3>1, <3>2
  <2>6. RegistrationIsServed(p)'
    BY <1>5, <2>1, <2>2, <2>3 DEF Accounted, RegistrationIsServed
  <2>7. EnteringIsRegistered(p)'
    <3>1. ASSUME p = r, NEW u \in Threads PROVE call[u].op # "vout"
      <4>1. SUFFICES ASSUME call[u].op = "vout" PROVE FALSE
        OBVIOUS
      <4>2. call[u].port \in Ports /\ HasLock(u, call[u].port)
        BY <1>1, <4>1, CallOf DEF HasLock
      <4>3. call[u].port = p
        BY <1>8, <4>2 DEF PortsInv, SharedInv
      <4> QED
        BY <1>4, <3>1, <4>2, <4>3
    <3>2. \A u \in Threads : call'[u].op = "vout" => call'[u] = call[u]
      BY <1>3
    <3> QED
      BY <1>1, <1>5, <2>1, <2>2, <3>1, <3>2 DEF Accounted, EnteringIsRegistered
  <2>8. CallbacksAreLate(p)'
    <3>1. \A u \in Threads : call'[u].op = "callbacks" => call'[u] = call[u]
      BY <1>3
    <3>2. \A u \in Threads : ~(call[u].op = "callbacks" /\ call[u].lock = "driver")
      BY <1>4 DEF HasDriver
    <3>3. \A u \in Threads, o \in PortOwners : call'[u].op = "callbacks" /\ o \in call'[u].owners =>
              ~Open' \/ call'[u].lock = p \/ (call'[u].lock = "driver" /\ ~port'[p].opened)
      BY <1>1, <2>1, <3>1, <3>2 DEF Accounted, CallbacksAreLate
    <3>4. \A o \in PortOwners : ~(Pending(o)' /\ InQueue(o)')
      BY <1>5, <2>1 DEF Accounted, CallbacksAreLate
    <3> QED
      BY <3>3, <3>4 DEF CallbacksAreLate
  <2> QED
    BY <2>5, <2>6, <2>7, <2>8 DEF Accounted
<1> QED
  BY <1>1, <1>6, <1>7, <1>8 DEF PortsInv

(* The guest's thread adds the event of its registration, or takes the     *)
(* registration back when the queue has been closed meanwhile.             *)
LEMMA AddVoutPorts ==
    ASSUME CoreInv, MixInv, PortsInv, NEW t \in Threads, AddVideoOutEvent(t)
    PROVE  PortsInv'
<1> DEFINE q == call[t].port
<1>1. /\ PortsTyped /\ CallsTyped /\ Fit(m_events) /\ call[t].op = "vout" /\ Idle.op = "none"
      /\ shared' = shared /\ Open' = Open /\ Goes(t, Idle)
  BY CoreParts DEF AddVideoOutEvent, Open, Idle
<1>2. /\ call'[t] = Idle
      /\ \A u \in Threads : u # t => call'[u] = call[u]
  BY <1>1, CallGoes
<1>3. q \in Ports /\ HasLock(t, q) /\ port[q].opened /\ q \in shared
  <2>1. q \in Ports
    BY <1>1, CallOf
  <2>2. HasLock(t, q)
    BY <1>1 DEF HasLock
  <2> QED
    BY <2>1, <2>2 DEF PortsInv, LocksInv, SharedInv
<1> HIDE DEF q
<1>4. /\ \A u \in Threads, p \in Ports : HasLock(u, p)' => HasLock(u, p)
      /\ \A u \in Threads : HasDriver(u)' <=> HasDriver(u)
      /\ ClosesSame
      /\ \A o : Pending(o)' <=> Pending(o)
      /\ \A u \in Threads : call'[u].op = "callbacks" => call'[u] = call[u]
  <2>1. \A u \in Threads, p \in Ports : HasLock(u, p)' => HasLock(u, p)
    BY <1>1, <1>2 DEF HasLock
  <2>2. \A u \in Threads : HasDriver(u)' <=> HasDriver(u)
    BY <1>1, <1>2 DEF HasDriver
  <2>3. ClosesSame
    BY <1>1, <1>2 DEF ClosesSame, ClosesPort
  <2>4. \A o : Pending(o)' <=> Pending(o)
    BY <1>1, <1>2 DEF Pending
  <2>5. \A u \in Threads : call'[u].op = "callbacks" => call'[u] = call[u]
    BY <1>1, <1>2
  <2> QED
    BY <2>1, <2>2, <2>3, <2>4, <2>5
<1>5. ASSUME NEW p \in Ports, shared \subseteq {p}
      PROVE  p = q /\ Accounted(p) /\ \A u \in Threads : call'[u].op # "vout"
  <2>1. p = q /\ Accounted(p)
    BY <1>3, <1>5 DEF PortsInv
  <2>2. ASSUME NEW u \in Threads, call'[u].op = "vout" PROVE FALSE
    <3>1. u # t /\ call[u].op = "vout"
      BY <1>1, <1>2, <2>2
    <3>2. call[u].port \in Ports /\ HasLock(u, call[u].port)
      BY <1>1, <3>1, CallOf DEF HasLock
    <3>3. call[u].port = q
      BY <1>5, <2>1, <3>2 DEF PortsInv, SharedInv
    <3> QED
      BY <1>3, <3>1, <3>2, <3>3 DEF PortsInv, LocksInv
  <2> QED
    BY <2>1, <2>2
<1>6. CASE Open
  <2>1. /\ port' = port /\ Own(q) \in PortOwners
        /\ \A o : Owned(m_events', "vout", o) <=>
              Owned(m_events, "vout", o) \/ (~Has("vout") /\ o = Own(q))
    BY <1>6, VoutAdded DEF q
  <2>2. \A o : InQueue(o)' <=> InQueue(o) \/ (~Has("vout") /\ o = Own(q))
    BY <2>1, QueueIsOwned DEF InQueue
  <2>3. \A p \in Ports : Own(p)' = Own(p) /\ (Registered(p)' <=> Registered(p))
    BY <2>1 DEF Own, Registered
  <2>4. LocksInv'
    BY <1>4, <2>1 DEF PortsInv, LocksInv, ClosesSame
  <2>5. SharedInv'
    <3>1. Own(q).port = q
      BY <1>1, <1>3, OwnIs
    <3>2. \A o \in PortOwners : InQueue(o)' \/ Pending(o)' => o.port \in shared
      BY <1>3, <1>4, <2>2, <3>1 DEF PortsInv, SharedInv
    <3> QED
      BY <1>1, <1>4, <2>1, <3>2 DEF PortsInv, SharedInv, ClosesSame
  <2>6. ASSUME NEW p \in Ports, shared \subseteq {p} PROVE Accounted(p)'
    <3>1. p = q /\ Accounted(p) /\ \A u \in Threads : call'[u].op # "vout"
      BY <1>5, <2>6
    <3>2. Registered(p) /\ port[p].opened
      BY <1>1, <1>3, <1>6, <3>1 DEF Accounted, EnteringIsRegistered
    <3>3. EventIsOwned(p)'
      <4> SUFFICES ASSUME NEW o \in PortOwners, InQueue(o)'
                   PROVE  \/ o = Own(p)' /\ Registered(p)' /\ port'[p].opened
                          \/ \E u \in Threads : ClosesPort(u, p)' /\ o.generation \in call'[u].moved
        BY DEF EventIsOwned
      <4>1. CASE InQueue(o)
        <5>1. \/ o = Own(p)
              \/ \E u \in Threads : ClosesPort(u, p) /\ o.generation \in call[u].moved
          BY <3>1, <4>1 DEF Accounted, EventIsOwned
        <5> QED
          BY <1>4, <2>1, <2>3, <3>2, <5>1 DEF ClosesSame
      <4>2. CASE o = Own(q)
        BY <2>1, <2>3, <3>1, <3>2, <4>2
      <4> QED
        BY <2>2, <4>1, <4>2
    <3>4. InQueue(Own(p))'
      <4>1. CASE ~Has("vout")
        BY <2>2, <2>3, <3>1, <4>1
      <4>2. CASE Has("vout")
        <5>1. PICK o : InQueue(o)
          BY <4>2 DEF Has, InQueue, Owned
        <5>2. o \in PortOwners
          BY <1>1, <5>1, OwnersAre
        <5>3. o = Own(p)
          BY <3>1, <3>2, <5>1, <5>2 DEF Accounted, EventIsOwned, PortsInv, LocksInv
        <5> QED
          BY <2>2, <2>3, <5>1, <5>3
      <4> QED
        BY <4>1, <4>2
    <3>5. RegistrationIsServed(p)'
      BY <3>4 DEF RegistrationIsServed
    <3>6. EnteringIsRegistered(p)'
      BY <3>1 DEF EnteringIsRegistered
    <3>7. CallbacksAreLate(p)'
      <4>1. \A u \in Threads, o \in PortOwners : call'[u].op = "callbacks" /\ o \in call'[u].owners =>
                ~Open' \/ call'[u].lock = p \/ (call'[u].lock = "driver" /\ ~port'[p].opened)
        BY <1>1, <1>4, <2>1, <3>1 DEF Accounted, CallbacksAreLate
      <4>2. ~Pending(Own(p))
        <5> SUFFICES ASSUME NEW u \in Threads, call[u].op = "callbacks", Own(p) \in call[u].owners
                     PROVE  FALSE
          BY DEF Pending
        <5>1. call[u].lock = p
          BY <1>6, <2>1, <3>1, <3>2 DEF Accounted, CallbacksAreLate
        <5> QED
          BY <1>1, <1>3, <3>1, <5>1 DEF PortsInv, LocksInv, HasLock
      <4>3. \A o \in PortOwners : ~(Pending(o)' /\ InQueue(o)')
        BY <1>4, <2>2, <3>1, <4>2 DEF Accounted, CallbacksAreLate
      <4> QED
        BY <4>1, <4>3 DEF CallbacksAreLate
    <3> QED
      BY <3>3, <3>5, <3>6, <3>7 DEF Accounted
  <2> QED
    BY <1>1, <2>4, <2>5, <2>6 DEF PortsInv
<1>7. CASE ~Open
  <2>1. /\ m_events' = m_events /\ m_events = <<>>
        /\ port' = IF call[t].fresh THEN Without(Own(q)) ELSE port
    BY <1>7, CoreParts DEF AddVideoOutEvent, Own, q
  <2>2. \A o : ~InQueue(o) /\ ~InQueue(o)'
    BY <2>1 DEF InQueue, Owned
  <2>3. Own(q) \in PortOwners /\ Own(q).port = q /\ Own(q).generation = port[q].generation
    BY <1>1, <1>3, OwnIs
  <2>4. /\ \A p \in Ports : /\ port'[p].opened = port[p].opened
                            /\ port'[p].generation = port[p].generation
                            /\ port'[p].registrations \subseteq port[p].registrations
        /\ call[t].fresh => port'[q].registrations = port[q].registrations \ {port[q].generation}
        /\ ~call[t].fresh => port' = port
    <3>1. CASE call[t].fresh
      <4>1. port' = Without(Own(q))
        BY <2>1, <3>1
      <4> QED
        BY <1>1, <2>3, <3>1, <4>1, WithoutTyped
    <3>2. CASE ~call[t].fresh
      BY <2>1, <3>2
    <3> QED
      BY <3>1, <3>2
  <2>5. LocksInv'
    BY <1>4, <2>4 DEF PortsInv, LocksInv, ClosesSame
  <2>6. SharedInv'
    BY <1>1, <1>4, <2>2, <2>4 DEF PortsInv, SharedInv, ClosesSame
  <2>7. ASSUME NEW p \in Ports, shared \subseteq {p} PROVE Accounted(p)'
    <3>1. p = q /\ Accounted(p) /\ \A u \in Threads : call'[u].op # "vout"
      BY <1>5, <2>7
    <3>2. EventIsOwned(p)'
      BY <2>2 DEF EventIsOwned
    <3>3. RegistrationIsServed(p)'
      <4>1. CASE call[t].fresh
        <5>1. ~Registered(p)'
          BY <2>4, <3>1, <4>1 DEF Registered
        <5> QED
          BY <5>1 DEF RegistrationIsServed
      <4>2. CASE ~call[t].fresh
        <5>1. Registered(p) => Pending(Own(p))
          BY <1>1, <2>2, <3>1, <4>2 DEF Accounted, EnteringIsRegistered
        <5>2. Own(p)' = Own(p) /\ (Registered(p)' <=> Registered(p))
          BY <2>4, <4>2 DEF Own, Registered
        <5> QED
          BY <1>4, <5>1, <5>2 DEF RegistrationIsServed
      <4> QED
        BY <4>1, <4>2
    <3>4. EnteringIsRegistered(p)'
      BY <3>1 DEF EnteringIsRegistered
    <3>5. CallbacksAreLate(p)'
      BY <1>1, <1>7, <2>2 DEF CallbacksAreLate
    <3> QED
      BY <3>2, <3>3, <3>4, <3>5 DEF Accounted
  <2> QED
    BY <1>1, <2>5, <2>6, <2>7 DEF PortsInv
<1> QED
  BY <1>6, <1>7

(* The event goes first, under the port's mutex, and its callback is due.  *)
LEMMA DeleteVoutPorts ==
    ASSUME CoreInv, PortsInv, NEW t \in Threads, NEW r \in Ports, DeleteVideoOutEvent(t, r)
    PROVE  PortsInv'
<1>1. /\ PortsTyped /\ CallsTyped /\ Fit(m_events) /\ call[t] = Idle /\ Idle.op = "none"
      /\ shared' = shared \cup {r} /\ port' = port /\ DeleteEvent("vout")
      /\ Open' = Open /\ port[r].opened /\ ~Held(r) /\ r # "driver" /\ r # "none"
      /\ Goes(t, [op |-> "callbacks", owners |-> Owners(m_events), lock |-> r])
  BY CoreParts, PortNames DEF DeleteVideoOutEvent, GuestCall, Open, Idle
<1>2. /\ call'[t] = [op |-> "callbacks", owners |-> Owners(m_events), lock |-> r]
      /\ \A u \in Threads : u # t => call'[u] = call[u]
  BY <1>1, CallGoes
<1>3. \A o : ~InQueue(o)'
  BY <1>1, VoutDeleted, QueueIsOwned
<1>4. \A o : Pending(o)' <=> Pending(o) \/ InQueue(o)
  BY <1>1, <1>2, OwnersAre DEF Pending
<1>5. \A u \in Threads : ~HasLock(u, r)
  BY <1>1 DEF Held, HasLock
<1>6. /\ \A u \in Threads, p \in Ports : HasLock(u, p)' <=> HasLock(u, p) \/ (u = t /\ p = r)
      /\ \A u \in Threads : HasDriver(u)' <=> HasDriver(u)
      /\ ClosesSame
      /\ \A p \in Ports : Own(p)' = Own(p) /\ (Registered(p)' <=> Registered(p))
      /\ \A p \in Ports : Entering(p)' <=> Entering(p)
  <2>1. \A u \in Threads, p \in Ports : HasLock(u, p)' <=> HasLock(u, p) \/ (u = t /\ p = r)
    BY <1>1, <1>2 DEF HasLock
  <2>2. \A u \in Threads : HasDriver(u)' <=> HasDriver(u)
    BY <1>1, <1>2 DEF HasDriver
  <2>3. ClosesSame
    BY <1>1, <1>2 DEF ClosesSame, ClosesPort
  <2>4. \A p \in Ports : Own(p)' = Own(p) /\ (Registered(p)' <=> Registered(p))
    BY <1>1 DEF Own, Registered
  <2>5. \A p \in Ports : Entering(p)' <=> Entering(p)
    BY <1>1, <1>2 DEF Entering
  <2> QED
    BY <2>1, <2>2, <2>3, <2>4, <2>5
<1>7. LocksInv'
  <2>1. \A u, v \in Threads, p \in Ports : HasLock(u, p)' /\ HasLock(v, p)' => u = v
    BY <1>5, <1>6 DEF PortsInv, LocksInv
  <2> QED
    BY <1>1, <1>6, <2>1 DEF PortsInv, LocksInv, ClosesSame
<1>8. SharedInv'
  <2>1. \A o \in PortOwners : InQueue(o)' \/ Pending(o)' => o.port \in shared
    BY <1>3, <1>4 DEF PortsInv, SharedInv
  <2> QED
    BY <1>1, <1>6, <2>1 DEF PortsInv, SharedInv, ClosesSame
<1>9. ASSUME NEW p \in Ports, shared' \subseteq {p} PROVE Accounted(p)'
  <2>1. Accounted(p) /\ p = r /\ shared \subseteq {p}
    BY <1>1, <1>9 DEF PortsInv
  <2>2. EventIsOwned(p)'
    BY <1>3 DEF EventIsOwned
  <2>3. RegistrationIsServed(p)'
    BY <1>4, <1>6, <2>1 DEF Accounted, RegistrationIsServed
  <2>4. EnteringIsRegistered(p)'
    <3>1. ASSUME NEW u \in Threads, call'[u].op = "vout" PROVE FALSE
      <4>1. call[u].op = "vout"
        BY <1>2, <3>1
      <4>2. call[u].port \in Ports /\ HasLock(u, call[u].port)
        BY <1>1, <4>1, CallOf DEF HasLock
      <4>3. call[u].port = p
        BY <2>1, <4>2 DEF PortsInv, SharedInv
      <4> QED
        BY <1>5, <2>1, <4>2, <4>3
    <3> QED
      BY <3>1 DEF EnteringIsRegistered
  <2>5. CallbacksAreLate(p)'
    <3>1. \A u \in Threads, o \in PortOwners : call'[u].op = "callbacks" /\ o \in call'[u].owners =>
              ~Open' \/ call'[u].lock = p \/ (call'[u].lock = "driver" /\ ~port'[p].opened)
      BY <1>1, <1>2, <2>1 DEF Accounted, CallbacksAreLate
    <3> QED
      BY <1>3, <3>1 DEF CallbacksAreLate
  <2> QED
    BY <2>2, <2>3, <2>4, <2>5 DEF Accounted
<1> QED
  BY <1>1, <1>7, <1>8, <1>9 DEF PortsInv

(* What Close of a port moved out of the lists, its event goes, and the    *)
(* callback of that event, still under the driver's mutex.                 *)
LEMMA PortDeletesPorts ==
    ASSUME CoreInv, PortsInv, NEW t \in Threads, PortDeletesEvents(t)
    PROVE  PortsInv'
<1> DEFINE q == call[t].port
           deletes == call[t].moved # {} /\ Open /\ Has("vout")
<1>1. /\ PortsTyped /\ CallsTyped /\ Fit(m_events) /\ call[t].op = "portclose"
      /\ Idle.op = "none" /\ shared' = shared /\ port' = port /\ Open' = Open
      /\ (~Open => m_events = <<>>)
  BY CoreParts DEF PortDeletesEvents, Open, Idle, ports
<1>2. q \in Ports /\ ClosesPort(t, q) /\ HasDriver(t) /\ ~port[q].opened
      /\ (call[t].moved # {} => q \in shared)
  <2>1. q \in Ports
    BY <1>1, CallOf
  <2>2. ClosesPort(t, q) /\ HasDriver(t)
    BY <1>1 DEF ClosesPort, HasDriver
  <2> QED
    BY <2>1, <2>2 DEF PortsInv, LocksInv, SharedInv
<1>3. \A u \in Threads : u # t => ~HasDriver(u) /\ call[u].op # "portclose"
  BY <1>2 DEF PortsInv, LocksInv, HasDriver
<1>4. /\ deletes => /\ DeleteEvent("vout")
                    /\ Goes(t, [op |-> "callbacks", owners |-> Owners(m_events),
                                lock |-> "driver"])
      /\ ~deletes => m_events' = m_events /\ Goes(t, Idle)
  BY DEF PortDeletesEvents
<1> HIDE DEF q, deletes
<1>5. /\ \A u \in Threads : u # t => call'[u] = call[u]
      /\ deletes => call'[t] = [op |-> "callbacks", owners |-> Owners(m_events), lock |-> "driver"]
      /\ ~deletes => call'[t] = Idle
  BY <1>1, <1>4, CallGoes
<1>6. /\ \A u \in Threads, p \in Ports : HasLock(u, p)' => HasLock(u, p)
      /\ \A u \in Threads : HasDriver(u)' => u = t
      /\ \A u \in Threads, p \in Ports : ~ClosesPort(u, p)'
      /\ \A p \in Ports : Own(p)' = Own(p) /\ (Registered(p)' <=> Registered(p))
      /\ \A p \in Ports : Entering(p)' <=> Entering(p)
  <2>1. \A u \in Threads, p \in Ports : HasLock(u, p)' => HasLock(u, p)
    BY <1>1, <1>5, PortNames DEF HasLock
  <2>2. \A u \in Threads : HasDriver(u)' => u = t
    BY <1>3, <1>5 DEF HasDriver
  <2>3. \A u \in Threads, p \in Ports : ~ClosesPort(u, p)'
    BY <1>1, <1>3, <1>5 DEF ClosesPort
  <2>4. \A p \in Ports : Own(p)' = Own(p) /\ (Registered(p)' <=> Registered(p))
    BY <1>1 DEF Own, Registered
  <2>5. \A p \in Ports : Entering(p)' <=> Entering(p)
    BY <1>1, <1>5 DEF Entering
  <2> QED
    BY <2>1, <2>2, <2>3, <2>4, <2>5
<1>7. LocksInv'
  BY <1>1, <1>6 DEF PortsInv, LocksInv
<1>8. /\ deletes => /\ \A o : ~InQueue(o)'
                    /\ \A o : Pending(o)' <=> Pending(o) \/ InQueue(o)
      /\ ~deletes => /\ \A o : InQueue(o)' <=> InQueue(o)
                     /\ \A o : Pending(o)' <=> Pending(o)
  <2>1. CASE deletes
    <3>1. \A o : ~InQueue(o)'
      BY <1>4, <2>1, VoutDeleted, QueueIsOwned
    <3>2. \A o : Pending(o)' <=> Pending(o) \/ InQueue(o)
      BY <1>1, <1>5, <2>1, OwnersAre DEF Pending
    <3> QED
      BY <2>1, <3>1, <3>2
  <2>2. CASE ~deletes
    <3>1. \A o : InQueue(o)' <=> InQueue(o)
      BY <1>4, <2>2 DEF InQueue, Owned
    <3>2. \A o : Pending(o)' <=> Pending(o)
      BY <1>1, <1>5, <2>2 DEF Pending
    <3> QED
      BY <2>2, <3>1, <3>2
  <2> QED
    BY <2>1, <2>2
<1>9. SharedInv'
  <2>1. \A o \in PortOwners : InQueue(o)' \/ Pending(o)' => o.port \in shared
    BY <1>8 DEF PortsInv, SharedInv
  <2> QED
    BY <1>1, <1>6, <2>1 DEF PortsInv, SharedInv
<1>10. ASSUME NEW p \in Ports, shared \subseteq {p} PROVE Accounted(p)'
  <2>1. Accounted(p)
    BY <1>10 DEF PortsInv
  <2>2. RegistrationIsServed(p)'
    BY <1>6, <1>8, <2>1 DEF Accounted, RegistrationIsServed
  <2>3. EnteringIsRegistered(p)'
    <3> SUFFICES ASSUME NEW u \in Threads, call'[u].op = "vout"
                 PROVE  /\ Open' => Registered(p)'
                        /\ ~call'[u].fresh /\ Registered(p)' =>
                              InQueue(Own(p))' \/ Pending(Own(p))'
      BY DEF EnteringIsRegistered
    <3>1. call'[u] = call[u] /\ call[u].op = "vout"
      BY <1>1, <1>5
    <3>2. /\ Open => Registered(p)
          /\ ~call[u].fresh /\ Registered(p) => InQueue(Own(p)) \/ Pending(Own(p))
      BY <2>1, <3>1 DEF Accounted, EnteringIsRegistered
    <3>3. InQueue(Own(p)) \/ Pending(Own(p)) => InQueue(Own(p))' \/ Pending(Own(p))'
      BY <1>6, <1>8
    <3> QED
      BY <1>1, <1>6, <3>1, <3>2, <3>3
  <2>4. CASE deletes
    <3>1. p = q
      BY <1>2, <1>10, <2>4 DEF deletes
    <3>2. EventIsOwned(p)'
      BY <1>8, <2>4 DEF EventIsOwned
    <3>3. \A u \in Threads, o \in PortOwners : call'[u].op = "callbacks" /\ o \in call'[u].owners =>
              ~Open' \/ call'[u].lock = p \/ (call'[u].lock = "driver" /\ ~port'[p].opened)
      BY <1>1, <1>2, <1>5, <2>1, <2>4, <3>1 DEF Accounted, CallbacksAreLate
    <3>4. CallbacksAreLate(p)'
      BY <1>8, <2>4, <3>3 DEF CallbacksAreLate
    <3> QED
      BY <2>2, <2>3, <3>2, <3>4 DEF Accounted
  <2>5. CASE ~deletes
    <3>1. ASSUME NEW o \in PortOwners, InQueue(o), NEW u \in Threads, ClosesPort(u, p),
                 o.generation \in call[u].moved
          PROVE  FALSE
      <4>1. u = t
        BY <1>3, <3>1 DEF ClosesPort
      <4>2. Has("vout") /\ Open
        BY <1>1, <3>1 DEF Has, InQueue, Owned
      <4> QED
        BY <2>5, <3>1, <4>1, <4>2 DEF deletes
    <3>2. EventIsOwned(p)'
      BY <1>1, <1>6, <1>8, <2>1, <2>5, <3>1 DEF Accounted, EventIsOwned
    <3>3. \A u \in Threads : call'[u].op = "callbacks" => call'[u] = call[u]
      BY <1>1, <1>5, <2>5
    <3>4. \A u \in Threads, o \in PortOwners : call'[u].op = "callbacks" /\ o \in call'[u].owners =>
              ~Open' \/ call'[u].lock = p \/ (call'[u].lock = "driver" /\ ~port'[p].opened)
      BY <1>1, <2>1, <3>3 DEF Accounted, CallbacksAreLate
    <3>5. \A o \in PortOwners : ~(Pending(o)' /\ InQueue(o)')
      BY <1>8, <2>1, <2>5 DEF Accounted, CallbacksAreLate
    <3>6. CallbacksAreLate(p)'
      BY <3>4, <3>5 DEF CallbacksAreLate
    <3> QED
      BY <2>2, <2>3, <3>2, <3>6 DEF Accounted
  <2> QED
    BY <2>4, <2>5
<1> QED
  BY <1>1, <1>7, <1>9, <1>10 DEF PortsInv

LEMMA PortCallsOf ==
    ASSUME CallsTyped, NEW t \in Threads, NEW c, Goes(t, c), call[t].op \notin PortOps,
           c.op \notin PortOps
    PROVE  PortCallsSame
  BY CallGoes DEF PortCallsSame

(* The interrupt event is not a port's.                                    *)
LEMMA EqEventsKeepVout ==
    ASSUME CoreInv, NEW t \in Threads, AddEqEvent(t) \/ DeleteEqEvent(t)
    PROVE  VoutSame
<1>1. Typed /\ Fit(m_events) /\ OwnerOf("irq", NoOwner)
  BY CoreParts DEF OwnerOf
<1>2. CASE AddEqEvent(t)
  <2>1. "irq" \in kinds /\ AddEvent("irq", NoOwner)
    BY <1>2 DEF AddEqEvent
  <2>2. \A k, o : Owned(m_events', k, o) <=>
            Owned(m_events, k, o) \/ (~Has("irq") /\ k = "irq" /\ o = NoOwner)
    BY <1>1, <2>1, AddEventFits
  <2> QED
    BY <2>2 DEF VoutSame
<1>3. CASE DeleteEqEvent(t)
  <2>1. \A k, o : Owned(m_events', k, o) <=> Owned(m_events, k, o) /\ k # "irq"
    BY <1>1, <1>3, DeleteFits DEF DeleteEqEvent
  <2> QED
    BY <2>1 DEF VoutSame
<1> QED
  BY <1>2, <1>3

(* Whoever is not about the ports leaves them alone.                       *)
LEMMA OthersPorts ==
    ASSUME CoreInv, PortsInv, NEW t \in Threads,
           \/ \E num \in Rooms, timeout \in {"none", "finite"} : WaitBegin(t, num, timeout)
           \/ \E kind \in User : \/ AddUserEvent(t, kind) \/ DeleteUserEvent(t, kind)
                                 \/ TriggerUserEvent(kind)
           \/ DeleteEqueue(t) \/ WaitReturns(t) \/ WaitExpires(t) \/ TimerPasses
           \/ AddEqEvent(t) \/ AddInterruptEq(t) \/ DeleteEqEvent(t) \/ DeleteInterruptEq(t)
           \/ TriggerInterrupt \/ InterruptDelivered \/ InterruptDropped
           \/ \E p \in Ports : TriggerVideoOutEvents(p)
    PROVE  PortsInv'
<1>1. CallsTyped /\ Idle.op = "none"
  BY CoreParts DEF Idle
<1>2. call' = call => PortCallsSame
  BY DEF PortCallsSame
<1>3. ASSUME NEW num \in Rooms, NEW timeout \in {"none", "finite"}, WaitBegin(t, num, timeout)
      PROVE  PortsInv'
  <2>1. PortCallsSame
    BY <1>1, <1>3, PortCallsOf DEF WaitBegin, PortOps
  <2> QED
    BY <1>3, <2>1, EventsKeep, PortsUntouched DEF WaitBegin, ports, Open
<1>4. ASSUME NEW kind \in User,
             AddUserEvent(t, kind) \/ DeleteUserEvent(t, kind) \/ TriggerUserEvent(kind)
      PROVE  PortsInv'
  <2>1. VoutSame
    BY <1>4, UserEventsKeep
  <2>2. call' = call /\ port' = port /\ shared' = shared /\ status' = status
    BY <1>4 DEF AddUserEvent, DeleteUserEvent, TriggerUserEvent, ports
  <2> QED
    BY <1>2, <2>1, <2>2, PortsUntouched DEF Open
<1>5. ASSUME DeleteEqueue(t) PROVE PortsInv'
  <2>1. PortCallsSame
    BY <1>1, <1>5, PortCallsOf DEF DeleteEqueue, GuestCall, PortOps
  <2>2. Open' <=> Open
    BY <1>5 DEF DeleteEqueue, Open
  <2> QED
    BY <1>5, <2>1, <2>2, EventsKeep, PortsUntouched DEF DeleteEqueue, ports
<1>6. ASSUME WaitReturns(t) PROVE PortsInv'
  <2>1. PortCallsSame
    BY <1>1, <1>6, PortCallsOf DEF WaitReturns, PortOps
  <2>2. port' = port /\ shared' = shared /\ status' = status
    BY <1>6 DEF WaitReturns, ports
  <2> QED
    BY <1>6, <2>1, <2>2, EventsKeep, PortsUntouched DEF Open
<1>7. ASSUME WaitExpires(t) PROVE PortsInv'
  <2>1. PortCallsSame
    BY <1>1, <1>7, EditKeepsOp, PortCallsOf DEF WaitExpires, PortOps
  <2> QED
    BY <1>7, <2>1, EventsKeep, PortsUntouched DEF WaitExpires, ports, Open
<1>8. ASSUME TimerPasses PROVE PortsInv'
  BY <1>2, <1>8, EventsKeep, PortsUntouched DEF TimerPasses, ports, Open
<1>9. ASSUME AddEqEvent(t) \/ DeleteEqEvent(t) PROVE PortsInv'
  <2>1. PortCallsSame
    BY <1>1, <1>9, PortCallsOf DEF AddEqEvent, DeleteEqEvent, GuestCall, PortOps
  <2>2. port' = port /\ shared' = shared /\ status' = status
    BY <1>9 DEF AddEqEvent, DeleteEqEvent, ports
  <2> QED
    BY <1>9, <2>1, <2>2, EqEventsKeepVout, PortsUntouched DEF Open
<1>10. ASSUME AddInterruptEq(t) \/ DeleteInterruptEq(t) PROVE PortsInv'
  <2>1. PortCallsSame
    BY <1>1, <1>10, PortCallsOf DEF AddInterruptEq, DeleteInterruptEq, PortOps
  <2>2. port' = port /\ shared' = shared /\ status' = status /\ m_events' = m_events
    BY <1>10 DEF AddInterruptEq, DeleteInterruptEq, ports
  <2> QED
    BY <2>1, <2>2, EventsKeep, PortsUntouched DEF Open
<1>11. ASSUME TriggerInterrupt \/ InterruptDropped PROVE PortsInv'
  <2>1. UNCHANGED <<call, port, shared, status, m_events>>
    BY <1>11 DEF TriggerInterrupt, InterruptDropped, ports
  <2> QED
    BY <1>2, <2>1, EventsKeep, PortsUntouched DEF Open
<1>12. ASSUME InterruptDelivered PROVE PortsInv'
  <2>1. UNCHANGED <<call, port, shared, status>>
    BY <1>12 DEF InterruptDelivered, ports
  <2> QED
    BY <1>2, <1>12, <2>1, EventsKeep, PortsUntouched DEF Open
<1>13. ASSUME NEW p \in Ports, TriggerVideoOutEvents(p) PROVE PortsInv'
  <2>1. UNCHANGED <<call, port, shared, status>>
    BY <1>13 DEF TriggerVideoOutEvents, ports
  <2> QED
    BY <1>2, <1>13, <2>1, EventsKeep, PortsUntouched DEF Open
<1> QED
  BY <1>3, <1>4, <1>5, <1>6, <1>7, <1>8, <1>9, <1>10, <1>11, <1>12, <1>13

LEMMA TablesStep ==
    ASSUME CoreInv, MixInv, IrqInv, PortsInv, Next
    PROVE  IrqInv' /\ PortsInv'
<1>1. ASSUME NEW t \in Threads, GuestNext(t) PROVE IrqInv' /\ PortsInv'
  <2>1. IrqInv'
    BY <1>1, OthersIrq, InterruptsIrq DEF GuestNext
  <2>2. PortsInv'
    BY <1>1, OthersPorts, OpenPorts, RegisterPorts, DeleteVoutPorts, ClosePortPorts DEF GuestNext
  <2> QED
    BY <2>1, <2>2
<1>2. ASSUME NEW t \in Threads, Continues(t) \/ WaitExpires(t) PROVE IrqInv' /\ PortsInv'
  <2>1. IrqInv'
    BY <1>2, OthersIrq, InterruptsIrq DEF Continues
  <2>2. ASSUME Callback(t) PROVE PortsInv'
    <3>1. UNCHANGED <<m_events, shared>> /\ (Open' <=> Open) /\ call[t].op = "callbacks"
      BY <2>2 DEF Callback, Open
    <3> QED
      BY <2>2, <3>1, CallbacksEndPorts, CallbackPorts DEF Callback
  <2>3. PortsInv'
    BY <1>2, <2>2, OthersPorts, ClosePorts, AddVoutPorts, PortDeletesPorts DEF Continues
  <2> QED
    BY <2>1, <2>3
<1>3. ASSUME Environment \/ Priority PROVE IrqInv' /\ PortsInv'
  <2>1. PICK t \in Threads : TRUE
    BY QueueAssumption
  <2>2. IrqInv'
    BY <1>3, <2>1, OthersIrq, InterruptsIrq DEF Environment, Priority
  <2>3. PortsInv'
    BY <1>3, <2>1, OthersPorts DEF Environment, Priority
  <2> QED
    BY <2>2, <2>3
<1> QED
  BY <1>1, <1>2, <1>3 DEF Next

LEMMA TablesStutter ==
    ASSUME CoreInv, IrqInv, PortsInv, UNCHANGED vars
    PROVE  IrqInv' /\ PortsInv'
<1>1. PICK t \in Threads : TRUE
  BY QueueAssumption
<1>2. /\ m_events' = m_events /\ call' = call /\ port' = port /\ shared' = shared
      /\ status' = status /\ UNCHANGED registry
  BY DEF vars, ports
<1>3. VoutSame /\ IrqKept
  BY <1>1, <1>2, EventsKeep
<1>4. SameRegisters /\ PortCallsSame /\ (Open' <=> Open)
  BY <1>2 DEF SameRegisters, PortCallsSame, Open
<1> QED
  BY <1>2, <1>3, <1>4, IrqUntouched, PortsUntouched

LEMMA InitTables ==
    ASSUME Init
    PROVE  IrqInv /\ PortsInv
<1>1. /\ m_events = <<>> /\ \A t \in Threads : call[t].op = "none"
      /\ \A p \in Ports : port[p].opened = FALSE /\ port[p].registrations = {}
      /\ irq = "idle" /\ shared = {}
  BY DEF Init, Idle
<1>2. ~Has("irq")
  BY <1>1 DEF Has
<1>3. IrqInv
  BY <1>1, <1>2 DEF IrqInv
<1>4. \A o : ~InQueue(o) /\ ~Pending(o)
  BY <1>1 DEF InQueue, Owned, Pending
<1>5. \A t \in Threads : /\ ~HasDriver(t)
                         /\ \A p \in Ports : ~HasLock(t, p) /\ ~ClosesPort(t, p)
  BY <1>1 DEF HasLock, HasDriver, ClosesPort
<1>6. LocksInv /\ SharedInv
  BY <1>1, <1>4, <1>5 DEF LocksInv, SharedInv
<1>7. \A p \in Ports : Accounted(p)
  BY <1>1, <1>4 DEF Accounted, EventIsOwned, RegistrationIsServed, EnteringIsRegistered,
                    CallbacksAreLate, Registered
<1> QED
  BY <1>3, <1>6, <1>7 DEF PortsInv

LEMMA OnlyMember ==
    ASSUME NEW S, IsFiniteSet(S), Cardinality(S) < 2, NEW x \in S
    PROVE  S \subseteq {x}
<1>1. Cardinality(S) \in Nat /\ Cardinality(S \ {x}) \in Nat
  BY FS_CardinalityType, FS_RemoveElement
<1>2. IsFiniteSet(S \ {x}) /\ Cardinality(S \ {x}) = Cardinality(S) - 1
  BY FS_RemoveElement
<1>3. S \ {x} = {}
  BY <1>1, <1>2, FS_EmptySet
<1> QED
  BY <1>3

(* When nobody is half-way through a call, nothing is owed.                *)
LEMMA CoreAgrees ==
    ASSUME CoreInv, IrqInv, PortsInv
    PROVE  TablesAgree
<1>1. InterruptsReach
  BY DEF InterruptsReach, Quiet, IrqInv, Registering
<1>2. ClosedPortsEmpty
  BY DEF ClosedPortsEmpty, PortsInv, SharedInv
<1>3. RegistrationsFollow
  <2> SUFFICES ASSUME Quiet, Cardinality(shared) < 2, NEW p \in Ports, port[p].opened
               PROVE  /\ port[p].registrations \subseteq {port[p].generation}
                      /\ port[p].registrations # {} <=>
                            (p \in shared /\ \E o \in Owners(m_events) : o = Own(p))
    BY DEF RegistrationsFollow, Own
  <2>1. /\ port[p].registrations \subseteq {port[p].generation}
        /\ port[p].registrations # {} => p \in shared
    BY DEF PortsInv, SharedInv
  <2>2. port[p].registrations # {} <=> Registered(p)
    BY <2>1 DEF Registered
  <2>3. (\E o \in Owners(m_events) : o = Own(p)) <=> InQueue(Own(p))
    BY CoreParts, OwnersAre
  <2>4. ASSUME p \in shared PROVE Registered(p) <=> InQueue(Own(p))
    <3>1. shared \subseteq {p}
      BY <2>4, CoreParts, OnlyMember DEF PortsTyped
    <3>2. Accounted(p)
      BY <3>1 DEF PortsInv
    <3>3. \A t \in Threads : call[t].op \notin PortOps
      BY DEF Quiet, PortOps
    <3>4. ~Entering(p) /\ ~Pending(Own(p)) /\ \A t \in Threads : ~ClosesPort(t, p)
      BY <3>3 DEF Entering, Pending, ClosesPort, PortOps
    <3>5. Registered(p) => InQueue(Own(p))
      BY <3>2, <3>4 DEF Accounted, RegistrationIsServed
    <3>6. InQueue(Own(p)) => Registered(p)
      <4>1. Own(p) \in PortOwners
        BY CoreParts, OwnIs
      <4> QED
        BY <3>2, <3>4, <4>1 DEF Accounted, EventIsOwned
    <3> QED
      BY <3>5, <3>6
  <2> QED
    BY <2>1, <2>2, <2>3, <2>4
<1> QED
  BY <1>1, <1>2, <1>3 DEF TablesAgree

(* When nobody is half-way through a call, an interrupt event of the queue *)
(* is registered, so that TriggerInterrupt reaches it, or a removal that   *)
(* DeleteEqEvent or TriggerInterrupt decided before the event was added    *)
(* took its registration away (the exception, which does occur); an open   *)
(* port that uses the queue alone has a registration exactly when the      *)
(* queue has its event.  Open of a port always finds its lists empty.      *)
THEOREM TablesAlwaysAgree == Spec => []TablesAgree
<1> DEFINE Tables == CoreInv /\ MixInv /\ IrqInv /\ PortsInv
<1>1. Init => Tables
  BY InitIsCore, InitTables
<1>2. Tables /\ [Next]_vars => Tables'
  <2>1. Tables /\ Next => CoreInv' /\ MixInv' /\ IrqInv' /\ PortsInv'
    BY CoreStep, MixStep, TablesStep
  <2>2. Tables /\ UNCHANGED vars => CoreInv' /\ MixInv' /\ IrqInv' /\ PortsInv'
    BY CoreStutters, TablesStutter
  <2> QED
    BY <2>1, <2>2
<1>3. Tables => TablesAgree
  BY CoreAgrees
<1> QED
  BY <1>1, <1>2, <1>3, PTL DEF Spec
=============================================================================
