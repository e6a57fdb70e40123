----------------------------- MODULE EventQueue -----------------------------
(***************************************************************************)
(* One event queue of kernel/eventQueue.cpp with the threads that wait on  *)
(* it and everyone who adds, triggers and deletes its events: guest        *)
(* threads (user events, AMPR events, timers), the renderer's interrupts   *)
(* (AddEqEvent, TriggerInterrupt) and the events of video-out ports.       *)
(*                                                                         *)
(* A critical section is one step.  A call that pinned the queue may still *)
(* reach it once the handle is erased: what stops it is m_closed.  Handles *)
(* are never reused, so a second queue would share nothing with this one.  *)
(***************************************************************************)
EXTENDS Naturals, Sequences, SequencesExt, FiniteSets, Functions

CONSTANTS
    Threads,      \* guest threads
    Ports,        \* video-out ports whose flip events go to this queue
    Mixes,        \* sets of kinds of event that a guest uses together
    Rooms,        \* sizes of the array a guest passes to KernelWaitEqueue
    MaxCalls,     \* bound: calls that add and delete events and ports
    MaxTriggers   \* bound: triggers in a behaviour

(* An event is identified by (ident, filter); one of each kind is enough.  *)
(* "level" and "edge" are user events, "ampr", "irq" and "vout" keep every *)
(* trigger in pending_events, "timer" is one-shot.                         *)
Kinds  == {"level", "edge", "ampr", "timer", "irq", "vout"}
Queued == {"ampr", "irq", "vout"}
User   == {"level", "edge", "ampr", "timer"}
Counted == Queued \cup {"edge"}

ASSUME QueueAssumption ==
    /\ Threads # {} /\ Mixes \subseteq SUBSET Kinds /\ Rooms \subseteq Nat \ {0}
    /\ MaxCalls \in Nat /\ MaxTriggers \in Nat
    /\ Ports \cap {"none", "driver"} = {}   \* what stands for other locks and owners
    /\ "priority" \notin Threads            \* the priority thread

VARIABLES
    kinds,        \* the mix of this behaviour
    status,       \* the handle is "listed", "erased", or the queue "closed"
    m_events,     \* in the order of delivery
    call,         \* per thread: the call it is inside, with its locals
    m_interrupt_eqs, \* TRUE when the queue is registered for interrupts
    irq,          \* TriggerInterrupt on the priority thread
    port,         \* per port: opened, generation and its registrations
    shared,       \* ports through which the guest ever used the queue
    late, lost,   \* who is about to remove the registration since before the event
                  \* was added, and TRUE when one of them has removed it
    sent, got,    \* what was triggered and returned since the event was added,
                  \* for the kinds that are returned once per trigger
    calls, triggers

registry == <<m_interrupt_eqs, irq, late, lost>>
ports    == <<port, shared>>
history  == <<sent, got>>
vars     == <<kinds, status, m_events, call, registry, ports, history, calls, triggers>>

Idle == [op |-> "none"]
NoOwner == [port |-> "none", generation |-> 0]

Event(kind, owner) ==
    [kind |-> kind, triggered |-> FALSE, deadline |-> IF kind = "timer" THEN "set" ELSE "none",
     data |-> 0, pending |-> <<>>, owner |-> owner]

Has(kind)  == \E i \in DOMAIN m_events : m_events[i].kind = kind
At(kind)   == CHOOSE i \in DOMAIN m_events : m_events[i].kind = kind
IsUp(kind) == \E i \in DOMAIN m_events : m_events[i].kind = kind /\ m_events[i].triggered
NothingUp  == \A i \in DOMAIN m_events : ~m_events[i].triggered /\ m_events[i].deadline # "passed"
Open       == status # "closed"

GuestCall(t) == call[t] = Idle /\ calls < MaxCalls /\ calls' = calls + 1
Goes(t, c)   == call' = [call EXCEPT ![t] = c]

-----------------------------------------------------------------------------
(* The operations of KernelEqueuePrivate, each under m_mutex.              *)

(* AddEvent: an event that is there keeps its state and its owner, and     *)
(* takes the new deadline.                                                 *)
AddEventTwice(kind, owner) ==
    m_events' = Append(m_events, Event(kind, owner)) /\ UNCHANGED history
AddEvent(kind, owner) ==
    IF Has(kind)
    THEN /\ m_events' = [i \in DOMAIN m_events |->
                IF m_events[i].kind = kind
                THEN [m_events[i] EXCEPT !.deadline = Event(kind, owner).deadline]
                ELSE m_events[i]]
         /\ UNCHANGED history
    ELSE /\ m_events' = Append(m_events, Event(kind, owner))
         /\ sent' = [k \in Counted |-> IF k = kind THEN <<>> ELSE sent[k]]
         /\ got' = [k \in Counted |-> IF k = kind THEN <<>> ELSE got[k]]

(* The trigger functions: AMPR, interrupt and video-out events queue what  *)
(* comes while they are triggered, a user event takes the latest data.     *)
FiredOver(e, data) == [e EXCEPT !.triggered = TRUE, !.data = data]
Fired(e, data) ==
    IF e.triggered /\ e.kind \in Queued
    THEN [e EXCEPT !.pending = Append(@, data)]
    ELSE [e EXCEPT !.triggered = TRUE, !.data = data]

TriggerEvent(kind) ==
    /\ triggers < MaxTriggers /\ triggers' = triggers + 1
    /\ m_events' = [i \in DOMAIN m_events |->
            IF m_events[i].kind = kind THEN Fired(m_events[i], triggers') ELSE m_events[i]]
    /\ sent' = [k \in Counted |-> IF k = kind THEN Append(sent[k], triggers') ELSE sent[k]]
    /\ UNCHANGED got

DeleteEvent(kind) == m_events' = IF Has(kind) THEN RemoveAt(m_events, At(kind)) ELSE m_events

(* TriggerExpiredTimers.                                                   *)
Expired(e) == IF e.deadline = "passed" THEN [e EXCEPT !.triggered = TRUE] ELSE e

(* GetTriggeredEvents goes through the events until the array is full.  An *)
(* event is returned for what it holds, and a level event, which is never  *)
(* reset, over and over: Taken says how often each one.                    *)
Stock(e) == IF e.triggered THEN <<e.data>> \o e.pending ELSE <<>>
Takes(e, room) ==
    IF (e.triggered /\ e.kind = "level") \/ Len(Stock(e)) > room THEN room ELSE Len(Stock(e))

Taken(events, num) ==
    LET room[n \in 0..Len(events)] ==
            IF n = 0 THEN num ELSE room[n - 1] - Takes(events[n], room[n - 1])
    IN  [i \in DOMAIN events |-> Takes(events[i], room[i - 1])]

(* An event after it was returned n times.                                 *)
RestUp(e, n) ==
    IF n = 0 \/ e.kind \in {"level", "edge", "timer"} THEN e
    ELSE IF n > Len(e.pending) THEN [e EXCEPT !.triggered = FALSE, !.data = 0, !.pending = <<>>]
    ELSE [e EXCEPT !.data = e.pending[n], !.pending = SubSeq(@, n + 1, Len(@))]
Rest(e, n) ==
    IF n = 0 \/ e.kind \in {"level", "timer"} THEN e
    ELSE IF n > Len(e.pending) THEN [e EXCEPT !.triggered = FALSE, !.data = 0, !.pending = <<>>]
    ELSE [e EXCEPT !.data = e.pending[n], !.pending = SubSeq(@, n + 1, Len(@))]

(* A one-shot event goes when it is returned.                              *)
ErasedNever(events, taken) == events
Erased(events, taken) ==
    IF Has("timer") /\ taken[At("timer")] > 0 THEN RemoveAt(events, At("timer")) ELSE events

-----------------------------------------------------------------------------
(* KernelWaitEqueue: with no timeout or a finite one.  A poll, which looks *)
(* once, is a finite wait that expires before it has looked.               *)

WaitBegin(t, num, timeout) ==
    /\ call[t] = Idle /\ status = "listed"
    /\ Goes(t, [op |-> "wait", num |-> num, timeout |-> timeout])
    /\ UNCHANGED <<kinds, status, m_events, registry, ports, history, calls, triggers>>

(* Time passes for a finite wait.                                          *)
WaitExpires(t) ==
    /\ call[t].op = "wait" /\ call[t].timeout = "finite"
    /\ Goes(t, [call[t] EXCEPT !.timeout = "expired"])
    /\ UNCHANGED <<kinds, status, m_events, registry, ports, history, calls, triggers>>

LeavesLate(t) == ~NothingUp
Leaves(t) == ~NothingUp \/ call[t].timeout = "expired"

(* One turn of the loop of WaitForEvents.  When it finds nothing it parks  *)
(* for at most ten milliseconds, which leaves the state as it is, except   *)
(* for timers found expired.                                               *)
WaitReturns(t) ==
    /\ call[t].op = "wait" /\ Goes(t, Idle)
    /\ \/ ~Open /\ UNCHANGED <<m_events, got>>
       \/ /\ Open /\ Leaves(t)
          /\ LET events == [i \in DOMAIN m_events |-> Expired(m_events[i])]
                 taken  == Taken(events, call[t].num)
                 kept   == [i \in DOMAIN events |-> Rest(events[i], taken[i])]
             IN  /\ m_events' = Erased(kept, taken)
                 /\ got' = [k \in Counted |->
                        IF Has(k)
                        THEN got[k] \o SubSeq(Stock(events[At(k)]), 1, taken[At(k)])
                        ELSE got[k]]
    /\ UNCHANGED <<kinds, status, registry, ports, sent, calls, triggers>>

TimerPasses ==
    /\ \E i \in DOMAIN m_events :
          /\ m_events[i].deadline = "set"
          /\ m_events' = [m_events EXCEPT ![i].deadline = "passed"]
    /\ UNCHANGED <<kinds, status, call, registry, ports, history, calls, triggers>>

(* KernelAddUserEvent, -Edge, KernelAddAmprEvent, KernelAddHRTimerEvent.   *)
AddUserEvent(t, kind) ==
    /\ GuestCall(t) /\ Open /\ kind \in kinds \cap User
    /\ AddEvent(kind, NoOwner)
    /\ UNCHANGED <<kinds, status, call, registry, ports, triggers>>

(* KernelTriggerUserEvent, -ForAll, and the completion of an AMPR command. *)
TriggerUserEvent(kind) ==
    /\ Open /\ kind \in User \ {"timer"} /\ Has(kind)
    /\ TriggerEvent(kind)
    /\ UNCHANGED <<kinds, status, call, registry, ports, calls>>

DeleteUserEvent(t, kind) ==
    /\ GuestCall(t) /\ Open /\ kind \in User /\ Has(kind)
    /\ DeleteEvent(kind)
    /\ UNCHANGED <<kinds, status, call, registry, ports, history, triggers>>

(* KernelDeleteEqueue erases the handle, closes the queue, and then runs   *)
(* the delete callbacks without the lock.                                  *)
DeleteEqueue(t) ==
    /\ GuestCall(t) /\ status = "listed"
    /\ status' = "erased" /\ Goes(t, [op |-> "close"])
    /\ UNCHANGED <<kinds, m_events, registry, ports, history, triggers>>

Owners(events) == {events[i].owner : i \in DOMAIN events} \ {NoOwner}

CloseUnmarked(t) ==
    /\ call[t].op = "close"
    /\ m_events' = <<>>
    /\ Goes(t, [op |-> "callbacks", owners |-> Owners(m_events), lock |-> "none"])
    /\ UNCHANGED <<kinds, status, registry, ports, history, calls, triggers>>
Close(t) ==
    /\ call[t].op = "close"
    /\ status' = "closed" /\ m_events' = <<>>
    /\ Goes(t, [op |-> "callbacks", owners |-> Owners(m_events), lock |-> "none"])
    /\ UNCHANGED <<kinds, registry, ports, history, calls, triggers>>

(* RemoveVideoOutEventQueue, the only delete callback, takes its own       *)
(* registration out of the port's list if it is still there.               *)
WithoutNone(o) == port
Without(o) == [port EXCEPT ![o.port].registrations = @ \ {o.generation}]

Callback(t) ==
    /\ call[t].op = "callbacks"
    /\ \/ call[t].owners = {} /\ Goes(t, Idle) /\ UNCHANGED port
       \/ \E o \in call[t].owners :
             /\ port' = Without(o)
             /\ Goes(t, [call[t] EXCEPT !.owners = @ \ {o}])
    /\ UNCHANGED <<kinds, status, m_events, registry, shared, history, calls, triggers>>

-----------------------------------------------------------------------------
(* The renderer's interrupts.  AddEqEvent adds the event and then the      *)
(* registration, DeleteEqEvent removes them in that order, each with two   *)
(* locks in turn.  Who is about to remove the registration has decided so  *)
(* before it looks at the event again: it may be late.                     *)

Removers == {t \in Threads : call[t].op = "deregister"} \cup
            (IF irq = "drop" THEN {"priority"} ELSE {})
RemovedBy(x) ==
    /\ m_interrupt_eqs' = FALSE
    /\ lost' = (lost \/ x \in late) /\ late' = late \ {x}

AddEqEvent(t) ==
    /\ GuestCall(t) /\ Open /\ "irq" \in kinds
    /\ AddEvent("irq", NoOwner)
    /\ late' = IF Has("irq") THEN late ELSE Removers
    /\ Goes(t, [op |-> "register"])
    /\ UNCHANGED <<kinds, status, m_interrupt_eqs, irq, lost, ports, triggers>>

AddInterruptEq(t) ==
    /\ call[t].op = "register"
    /\ m_interrupt_eqs' = TRUE /\ lost' = FALSE
    /\ Goes(t, Idle)
    /\ UNCHANGED <<kinds, status, m_events, irq, late, ports, history, calls, triggers>>

DeleteEqEvent(t) ==
    /\ GuestCall(t) /\ Open /\ "irq" \in kinds
    /\ DeleteEvent("irq") /\ late' = {} /\ lost' = FALSE
    /\ Goes(t, [op |-> "deregister"])
    /\ UNCHANGED <<kinds, status, m_interrupt_eqs, irq, ports, history, triggers>>

DeleteInterruptEq(t) ==
    /\ call[t].op = "deregister"
    /\ RemovedBy(t)
    /\ Goes(t, Idle)
    /\ UNCHANGED <<kinds, status, m_events, irq, ports, history, calls, triggers>>

(* TriggerInterrupt on the priority thread: it copies the registrations,   *)
(* triggers, and drops a registration whose queue or event is gone.        *)
TriggerInterrupt ==
    /\ irq = "idle" /\ m_interrupt_eqs /\ triggers < MaxTriggers
    /\ irq' = "copied"
    /\ UNCHANGED <<kinds, status, m_events, call, m_interrupt_eqs, late, lost, ports, history,
                   calls, triggers>>

(* Mutant: the registration is dropped although the event was found.       *)
InterruptAlwaysDropped ==
    /\ irq = "copied" /\ triggers < MaxTriggers
    /\ IF Open /\ Has("irq") THEN TriggerEvent("irq")
       ELSE UNCHANGED <<m_events, history, triggers>>
    /\ irq' = "drop"
    /\ UNCHANGED <<kinds, status, call, m_interrupt_eqs, late, lost, ports, calls>>

InterruptDelivered ==
    /\ irq = "copied" /\ triggers < MaxTriggers
    /\ IF Open /\ Has("irq")
       THEN TriggerEvent("irq") /\ irq' = "idle"
       ELSE irq' = "drop" /\ UNCHANGED <<m_events, history, triggers>>
    /\ UNCHANGED <<kinds, status, call, m_interrupt_eqs, late, lost, ports, calls>>

InterruptDropped ==
    /\ irq = "drop" /\ irq' = "idle"
    /\ RemovedBy("priority")
    /\ UNCHANGED <<kinds, status, m_events, call, ports, history, calls, triggers>>

-----------------------------------------------------------------------------
(* Video-out events.  RegisterVideoOutEvent keeps the port's mutex while   *)
(* it enters the registration, adds the event and, if the queue has been   *)
(* closed, takes the registration back.                                    *)

Held(p) == \E t \in Threads : \/ call[t].op = "vout" /\ call[t].port = p
                              \/ call[t].op = "callbacks" /\ call[t].lock = p
Closing == \E t \in Threads : \/ call[t].op = "portclose"
                              \/ call[t].op = "callbacks" /\ call[t].lock = "driver"

PortOpen(t, p) ==
    /\ GuestCall(t) /\ "vout" \in kinds /\ ~port[p].opened /\ ~Closing
    /\ port' = [port EXCEPT ![p].opened = TRUE, ![p].generation = @ + 1]
    /\ UNCHANGED <<kinds, status, m_events, call, registry, shared, history, triggers>>

RegisterVideoOutEvent(t, p) ==
    /\ GuestCall(t) /\ "vout" \in kinds /\ port[p].opened /\ ~Held(p) /\ status = "listed"
    /\ Goes(t, [op |-> "vout", port |-> p,
                fresh |-> port[p].generation \notin port[p].registrations])
    /\ port' = [port EXCEPT ![p].registrations = @ \cup {port[p].generation}]
    /\ shared' = shared \cup {p}
    /\ UNCHANGED <<kinds, status, m_events, registry, history, triggers>>

AddVideoOutEvent(t) ==
    /\ call[t].op = "vout"
    /\ LET o == [port |-> call[t].port, generation |-> port[call[t].port].generation] IN
       IF Open
       THEN AddEvent("vout", o) /\ UNCHANGED port
       ELSE /\ port' = IF call[t].fresh THEN Without(o) ELSE port
            /\ UNCHANGED <<m_events, history>>
    /\ Goes(t, Idle)
    /\ UNCHANGED <<kinds, status, registry, shared, calls, triggers>>

(* DeleteVideoOutEvent, under the port's mutex, and Close, under the       *)
(* driver's, for what it has moved out of the lists: the event goes, then  *)
(* its callback runs.                                                      *)
DeleteVideoOutEvent(t, p) ==
    /\ GuestCall(t) /\ port[p].opened /\ ~Held(p) /\ Open /\ Has("vout")
    /\ DeleteEvent("vout")
    /\ Goes(t, [op |-> "callbacks", owners |-> Owners(m_events), lock |-> p])
    /\ shared' = shared \cup {p}
    /\ UNCHANGED <<kinds, status, registry, port, history, triggers>>

PortCloseCopies(t, p) ==
    /\ GuestCall(t) /\ port[p].opened /\ ~Held(p) /\ ~Closing
    /\ Goes(t, [op |-> "portclose", port |-> p, moved |-> port[p].registrations])
    /\ port' = [port EXCEPT ![p].opened = FALSE, ![p].generation = @ + 1]
    /\ UNCHANGED <<kinds, status, m_events, registry, shared, history, triggers>>
PortClose(t, p) ==
    /\ GuestCall(t) /\ port[p].opened /\ ~Held(p) /\ ~Closing
    /\ Goes(t, [op |-> "portclose", port |-> p, moved |-> port[p].registrations])
    /\ port' = [port EXCEPT ![p].opened = FALSE, ![p].generation = @ + 1,
                            ![p].registrations = {}]
    /\ UNCHANGED <<kinds, status, m_events, registry, shared, history, triggers>>

PortDeletesEvents(t) ==
    /\ call[t].op = "portclose"
    /\ IF call[t].moved # {} /\ Open /\ Has("vout")
       THEN /\ DeleteEvent("vout")
            /\ Goes(t, [op |-> "callbacks", owners |-> Owners(m_events),
                        lock |-> "driver"])
       ELSE Goes(t, Idle) /\ UNCHANGED m_events
    /\ UNCHANGED <<kinds, status, registry, ports, history, calls, triggers>>

(* TriggerVideoOutEvents, under the port's mutex.                          *)
TriggerVideoOutEvents(p) ==
    /\ port[p].opened /\ ~Held(p) /\ port[p].generation \in port[p].registrations
    /\ Open /\ Has("vout")
    /\ TriggerEvent("vout")
    /\ UNCHANGED <<kinds, status, call, registry, ports, calls>>

-----------------------------------------------------------------------------
Init ==
    /\ kinds \in Mixes
    /\ status = "listed" /\ m_events = <<>>
    /\ call = [t \in Threads |-> Idle]
    /\ m_interrupt_eqs = FALSE /\ irq = "idle" /\ late = {} /\ lost = FALSE
    /\ port = [p \in Ports |-> [opened |-> FALSE, generation |-> 0, registrations |-> {}]]
    /\ shared = {}
    /\ sent = [k \in Counted |-> <<>>] /\ got = [k \in Counted |-> <<>>]
    /\ calls = 0 /\ triggers = 0

GuestNext(t) ==
    \/ \E num \in Rooms, timeout \in {"none", "finite"} : WaitBegin(t, num, timeout)
    \/ \E kind \in User : AddUserEvent(t, kind) \/ DeleteUserEvent(t, kind)
    \/ DeleteEqueue(t) \/ AddEqEvent(t) \/ DeleteEqEvent(t)
    \/ \E p \in Ports : \/ PortOpen(t, p) \/ RegisterVideoOutEvent(t, p)
                        \/ DeleteVideoOutEvent(t, p) \/ PortClose(t, p)

(* What a thread does inside a call.                                       *)
Continues(t) == \/ WaitReturns(t) \/ Close(t) \/ Callback(t) \/ AddInterruptEq(t)
                \/ DeleteInterruptEq(t) \/ AddVideoOutEvent(t) \/ PortDeletesEvents(t)

Environment == \/ TimerPasses \/ TriggerInterrupt
               \/ \E kind \in User : TriggerUserEvent(kind)
               \/ \E p \in Ports : TriggerVideoOutEvents(p)
Priority    == InterruptDelivered \/ InterruptDropped

Next == \/ \E t \in Threads : GuestNext(t) \/ Continues(t) \/ WaitExpires(t)
        \/ Environment \/ Priority

(* A thread inside a call goes on, the waits because they look again every *)
(* ten milliseconds; time passes for a finite wait.                        *)
Fairness == /\ \A t \in Threads : WF_vars(Continues(t)) /\ WF_vars(WaitExpires(t))
            /\ WF_vars(Priority)

Spec == Init /\ [][Next]_vars /\ Fairness

-----------------------------------------------------------------------------
(* The state has the types of the members it stands for.                   *)
TypeOK ==
    /\ kinds \in Mixes /\ status \in {"listed", "erased", "closed"}
    /\ \A i \in DOMAIN m_events :
          /\ m_events[i].kind \in kinds /\ m_events[i].triggered \in BOOLEAN
          /\ m_events[i].deadline \in {"none", "set", "passed"}
          /\ m_events[i].data \in 0..MaxTriggers
          /\ Range(m_events[i].pending) \subseteq 1..MaxTriggers
    /\ IsInjective([i \in DOMAIN m_events |-> m_events[i].kind])
    /\ m_interrupt_eqs \in BOOLEAN /\ irq \in {"idle", "copied", "drop"} /\ lost \in BOOLEAN
    /\ calls \in 0..MaxCalls /\ triggers \in 0..MaxTriggers

(* Every trigger of an AMPR, interrupt or video-out event is returned by   *)
(* exactly one wait and in the order of the triggers, whatever the number  *)
(* of waiters, their room and the events added and re-added meanwhile: the *)
(* pending_events of GetTriggeredEvents lose and repeat nothing.           *)
NothingLost ==
    \A i \in DOMAIN m_events : LET e == m_events[i] IN
        e.kind \in Queued => sent[e.kind] = got[e.kind] \o Stock(e)

(* An edge event is returned at most once for each trigger, a second       *)
(* waiter finds it reset, and it carries the data of the last trigger.     *)
EdgesOnce ==
    /\ Len(got["edge"]) <= Len(sent["edge"])
    /\ IsInjective(got["edge"])
    /\ \A i \in DOMAIN m_events : m_events[i].kind = "edge" /\ m_events[i].triggered =>
          m_events[i].data = Last(sent["edge"])

(* What is triggered is delivered, in order and once.                      *)
DeliveredInOrder == TypeOK /\ NothingLost /\ EdgesOnce

(* Whoever is not inside a call of its own: nothing is half done.          *)
Quiet == irq = "idle" /\ \A t \in Threads : call[t].op \in {"none", "wait"}

(* An interrupt event in the queue is registered, so that TriggerInterrupt *)
(* reaches it, or it is lost: a removal decided before this event was      *)
(* added, by a DeleteEqEvent or by a TriggerInterrupt that found the old   *)
(* event missing, took its registration away and nobody entered it again.  *)
(* Any other overlap of the calls leaves the event registered.             *)
InterruptsReach == Quiet /\ Has("irq") => m_interrupt_eqs \/ lost

(* What the test of the interrupt routing takes for granted: an event that *)
(* AddEqEvent added and nobody deleted is registered.  A late removal      *)
(* breaks it: the queue keeps the event and its interrupts stop.           *)
RegisteredEventsReached == Quiet /\ Has("irq") => m_interrupt_eqs

(* The registrations of an open port and the event of the queue come and   *)
(* go together, through closing the port, deleting the event and deleting  *)
(* the queue, unless two ports share the queue, and then the one event.    *)
RegistrationsFollow ==
    Quiet /\ Cardinality(shared) < 2 =>
        \A p \in Ports : port[p].opened =>
            /\ port[p].registrations \subseteq {port[p].generation}
            /\ port[p].registrations # {} <=>
                  (p \in shared /\ \E o \in Owners(m_events) :
                       o = [port |-> p, generation |-> port[p].generation])

(* Open of a port finds its lists empty (EXIT_IF): a closed port has no    *)
(* registration, though a callback of the queue may still be running.      *)
ClosedPortsEmpty == \A p \in Ports : ~port[p].opened => port[p].registrations = {}

(* The tables that lead to a queue and the events in it agree whenever     *)
(* nobody is half-way through a call, but for an interrupt registration    *)
(* lost to a late removal and for the ports that share one event.          *)
TablesAgree == InterruptsReach /\ RegistrationsFollow /\ ClosedPortsEmpty

(* Deleting the queue releases the threads inside KernelWaitEqueue, and    *)
(* the delete itself, with all its callbacks, comes to an end.             *)
CloseReleases ==
    status # "listed" ~> \A t \in Threads : call[t].op \notin {"wait", "close", "callbacks"}

(* A thread does not sleep through an event: while one stays triggered, a  *)
(* waiter returns.  A finite wait returns in any case.  The threads differ *)
(* in nothing, so it is stated of one.                                     *)
WaitersReturn == LET t == CHOOSE t \in Threads : TRUE
                     Due == call[t].timeout # "none" \/ ~NothingUp IN
    call[t].op = "wait" /\ Due ~> call[t].op # "wait" \/ ~Due

(* Nobody stays in a wait, or in a delete, without a reason.               *)
CallsEnd == CloseReleases /\ WaitersReturn

(* With threads that keep waiting, the triggered events are all returned   *)
(* in the end, unless a level event is up, whose repetitions may fill      *)
(* every array before the events behind it are looked at.                  *)
EventsReached ==
    []<>(\E t \in Threads : call[t].op = "wait") /\ <>[]~IsUp("level") => []<>NothingUp
=============================================================================
