# A TLA+ verification project for ProsperoX

ProsperoX is a PlayStation 5 emulator in C++ (`src/src`, about 157 thousand
lines). Guest code runs natively on host threads; the guest's operating system
calls are answered by an emulated kernel and libraries, and its GPU command
streams are parsed on one thread, translated to Vulkan and executed by the host's
device. What is hard to test in it is where those meet: queues, ticks, labels,
callbacks and waits that several threads and the device touch in an order nobody
chose. This project models those protocols in TLA+, checks them with TLC on small
instances, and proves the ones that matter most with TLAPS for every instance.

1. Inventory of the system
2. Plan
3. The modules and how they correspond to the code
4. The runs: what they check, their bounds, the fairness
5. What is proved, and how
6. Findings
7. What is not modelled, and abstractions to keep in mind
8. Running it

Paths below are relative to `src/src/` unless they begin with `docs/` or
`tests/`, which are relative to `src/`.

## 1. Inventory of the system

### Command scheduler

`graphics/host_gpu/renderer/commandScheduler.{h,cpp}`, `masterSemaphore.{h,cpp}`.

- *State*: the tick being recorded and the last tick known to have retired
  (`MasterSemaphore`), a pool of command buffers with the tick each was handed
  out for and a search hint (`CommandPool`), the current command, two queues of
  deferred callbacks (`m_pending_operations`, `m_priority_operations`), the
  callback the priority thread is running, the phase Open/Draining/Closed.
- *Operations*: `Begin`, `BeginCommand`, `Submit`, `Flush`, `FlushAndWait`,
  `Wait`, `Finish`, `FinishAndDrain`, `PopPendingOperations`,
  `WaitPriorityOperations`, `DeferOperation`, `DeferPriorityOperation`,
  `Shutdown`, and the loop of the priority thread.
- *Interaction*: owned by the GPU thread; the renderer's caches defer
  reclamation to it, end-of-pipe handling defers label writes and interrupts; the
  device moves the timeline semaphore; the priority thread runs completions.
- *Hard*: one condition variable with two kinds of waiter; callbacks that defer
  callbacks; a cached device tick; shutdown from inside and outside callbacks.
- *Correct when*: a buffer is not reused in flight; a callback runs once, after
  its tick, in order, reclamation after the completions of its tick; calls
  return; shutdown drops nothing and ends.

### Guest GPU command lane

`graphics/guest_gpu/graphicsRun.{h,cpp}`.

- *State*: one queue of submissions for the graphics ring and each compute ring,
  a count, a round-robin index, a queue of commands, flags for processing,
  accepting, stopping and "the frame is done", a mutex for submitters.
- *Operations*: `Submit`, `SubmitCompute`, `SubmitFlipPreparation`, `Done`,
  `SendCommandSync`, `Shutdown` and the loop of the GPU thread: commands first,
  then one slice of one submission, then polling of suspended ones.
- *Interaction*: guest threads call it through `libs/agc.cpp` and through unmap;
  it runs the PM4 parser, which records into the scheduler; labels come back to
  memory from the priority thread.
- *Hard*: a stream suspended on a label keeps its place while others run;
  commands run between packets; `Done` and `Shutdown` against both.
- *Correct when*: submissions are neither lost, repeated nor reordered in a ring;
  labels are published in order; a suspended stream resumes; frames are
  isolated; every accepted command is answered; shutdown ends.

### PM4 parser and handlers

`graphics/guest_gpu/command_processor/`. *State*: a stack of nested buffers with
cursors, the registers, the counters of the constant and draw engines.
*Operations*: one handler per packet. *Hard*: resuming in the middle of nested
buffers, a packet that is half done when its wait suspends. *Correct when* a
resumed stream executes each packet once, and the nesting cap holds.

### End of pipe and render context

`graphics/host_gpu/renderer/sync.cpp`, `renderContext.cpp`. *State*: interrupt
registrations, the objects above and their order of destruction. *Operations*:
end-of-pipe writes, interrupts, read-backs, flushes. *Interaction*: the guest
GPU, the scheduler and the event queues meet here. *Hard*: interrupts must follow
the data they announce (`docs/phase3-gpu-completion.md`); registrations change
while an interrupt is delivered; shutdown. *Correct when* an interrupt is seen
only after its label, and a live event has a registration.

### Stream buffer, buffer cache, texture cache, memory tracking

`graphics/host_gpu/renderer/cache/`, `graphics/host_gpu/memoryTracker.cpp`,
`regionManager.h`, `pageManager.cpp`.

- *Stream buffer*: ring offset, watches of this lap and the last one, a wait
  cursor; `Map`, `Commit`, `Copy`. Correct when no reservation overlaps a range
  in flight.
- *Caches*: resources by address, dirty ranges, least-recently-used order,
  deferred deletion. Correct when no resource in flight is destroyed and the
  newest data is the one that is read.
- *Memory tracking*: per page, who wrote last and how many watchers protect it;
  faults of guest threads race the GPU thread. Correct when no write is lost
  between the two sides.

### Kernel objects

`kernel/semaphore.cpp`, `eventFlag.cpp`, `eventQueue.cpp`, `syncOnAddress.cpp`,
`pthread.cpp`, `handleRegistry.h`, `waitDeadline.h`.

- *State*: per object a mutex, a condition variable and the waiters; a registry
  from handle to object.
- *Operations*: create, delete, wait, poll, signal, set, clear, cancel, trigger.
- *Hard*: delete and cancel against operations that already hold the object;
  deadlines against grants; callbacks run outside the lock.
- *Correct when*: no permit or event is lost, waiters are released by delete and
  cancel, timed waits return, counts are exact.

### Guest threads and pthread primitives

`kernel/pthread.cpp`, `kernel/syncOnAddress.cpp`.

- *State*: guest mutexes (owner and count behind a host mutex), condition
  variables (a list of waiters and sequence numbers), read-write locks (writer,
  readers, waiting writers), `PthreadOnce`, the pool of thread slots with three
  atomic flags each, the cache of guest stacks, the registry of addresses.
- *Operations*: lock, timed lock, unlock, wait, signal, broadcast, once, create,
  join, detach, exit, the reaper of detached threads, wait and wake on address.
- *Hard*: a deadline against a signal that is already spent; flags read without
  a lock while the reaper decides; slots and stacks that are used again.
- *Correct when*: nobody enters twice, no wake is lost or spent on nobody, slots
  and stacks serve one thread at a time and come back.

### Guest memory

`kernel/memory.cpp`, `memoryAddressSpace.inc`.

- *State*: `VirtualRanges` (what each range of pages is), `PhysicalMemory`,
  `FlexibleMemory` and `PooledMemory` (who owns which frame), the address space
  (which frame the host shows where), the GPU's view of it.
- *Operations*: allocate, release, map, reserve, unmap, protect, name, and the
  memory pool's expand, reserve, commit and decommit.
- *Interaction*: mapping and unmapping reach the caches through the GPU thread.
- *Hard*: one call changes up to six tables and the host may refuse half-way;
  ranges split and merge by rules that differ between the tables.
- *Correct when*: the tables tell the same story after every call.

### Video out

`graphics/presentation/videoOut.cpp`.

- *State*: the ports with their buffers, rate, generation and registrations, the
  flip queue, the set of cancelled requests, the vertical blank counters.
- *Operations*: open, close, register, set the rate, submit a flip from the CPU
  or from a command buffer, record, complete, present, wait for a flip.
- *Interaction*: guest threads, the GPU thread, the priority thread and the
  present thread.
- *Hard*: a close meets a request that is being recorded, completed or presented.
- *Correct when*: requests and frames are neither lost nor used twice, a closed
  port is quiet, every flip leaves the queue, `Close` returns.

### Files, libraries, loader, shader recompiler

- *Files* (`kernel/fileSystem.cpp`): a descriptor table over host files.
- *Libraries* (`libs/`): about 50 thousand lines of entry points over the above,
  codecs, dialogs and networking.
- *Loader* (`loader/`), *shader recompiler* (`graphics/shader/`), *launcher*
  (`launcher/`): sequential transformations and a user interface.
- *Common containers* (`common/slotVector.h`, `lruCache.h`).

`PROJECT.json` lists every component with its status, and under `hazards` the
places where something can go wrong that a test would hardly reach.

## 2. Plan

Done, most important first:

1. `CommandScheduler` with its contract `DeferredCompletion`, and
   `CommandSchedulerProofs`. Everything the GPU side promises rests on it.
2. `GuestGpu`, on top of what `DeferredCompletion` promises of labels.
3. `KernelSemaphore` and `EventFlag`, the two handle objects guest threads wait
   on; `EventQueue` with the registrations of the render context and of video out
   that lead to it, and `EventQueueProofs`.
4. `StreamBuffer` on the scheduler's ticks.
5. `PthreadMutex`, `PthreadRwlock`, `GuestThreads`, `SyncOnAddress`: what guest
   threads wait on besides. `GuestLocksProofs` is about the locks, the wait on an
   address and the event flag.
6. `BufferCache` (buffers, dirty pages, faults, write-backs, unmapping) and
   `PageWatchers`, with `MemoryTrackingProofs`, which is also about the stream
   buffer; `FlipQueue` with `FlipQueueProofs`; `GuestMemory`, whose theorem is in
   `KernelProofs` with those of the semaphore and the thread pool.
7. `Pm4Execution`, the parser of one ring, with its contract `Pm4Stream`, which is
   how `GuestGpu` sees a stream, and `Pm4ExecutionProofs`.

Next:

8. `TextureCache`: overlapping images, their watchers and deferred deletion, on
   top of `PageWatchers`; `PosixSemaphore`; `SlotVector` and `LruCache`.
9. Compositions: `GuestGpu` with `CommandScheduler` and the shutdown order of
   `renderContext.cpp`; `StreamBuffer` with the draws that keep its offsets;
   `GuestMemory` with `BufferCache` where unmapping reaches the GPU thread.

Every safety property of a run is a theorem of section 5, but for `TypesOK` of
`MCLocksAndMemory`, which only collects the type invariants of its components. The
theorems worth adding next belong to the modules above.

## 3. The modules and how they correspond to the code

A critical section of a mutex is one step everywhere, unless the model says
otherwise. Variables keep the names of the members they stand for; `map` in
`PROJECT.json` names the lines of every definition. Definitions whose comment
begins with "Mutant" are small faults of the definition below them and are used
by no specification: each property is known to fail for at least one of them.

### `CommandScheduler`

Actors: `owner` (the GPU thread, and during teardown the main thread), `prio`
(`m_priority_thread`), `late` (a thread that calls in while the scheduler drains)
and the device. Each public operation of the owner is an action that starts it
(`Begin`, `Flush`, `FlushAndWait`, `WaitOld`, `Finish`, `PopPendingOperations`,
`FinishAndDrain`, `WaitPriorityOperations`, `Shutdown`...) followed by the steps
the code takes (`Submit`, `WaitTick`, `BeginNext`, `RefreshTick`, `PopOperation`,
`PriorityWaited`, `NormalCallbackReturns`, `PriorityDrained`, `RequestStop`,
`Join`, `Close`); `AfterStep` is the order of the steps of each operation.

`condition_variable::wait` is two steps: the predicate is evaluated under the
mutex (`BlockOn`), and the thread parks later (`Park`); a notification
made without the mutex can fall between them, and `notify_one` and `notify_all`
reach only threads that are asleep. A thread inside a callback may defer more
callbacks. The device retires submissions in order (`DeviceRetire`), and the host
knows of it only through `m_gpu_tick`. `Commit` models the search of
`CommandPool`: from the hint with the cached tick, then with a refreshed one,
then growing.

### `DeferredCompletion`

The contract: a callback belongs to the tick that was recorded when it was
deferred, runs once, after its tick retired, priority and ordinary callbacks each
in order, an ordinary one only when no priority one of its tick or an earlier one
is left; the scheduler closes when nothing is left. `ImplementsCompletion` in
`CommandScheduler` is its specification under a refinement mapping in which an
operation that a thread has taken counts as queued until its callback returned.

### `GuestGpu`

`m_queues`, `m_commands` and the flags are the members of `GuestGpu`; `gpu` is
where the GPU thread is: `loop`, a slice (`begin`, `packet`, `flip`, `flush`,
`return`), a command (`command`...), one run between packets (`inner`...),
`flipWait`, `polling`, `asleep`, or exiting. A submission is a sequence of packets: a
wait for a label, an end-of-pipe write, a store made while parsing, a packet that
flushes, WAIT_FLIP_DONE, a draw. Other packets change registers only, and appear through `context`, the
set of submissions whose register state a packet sees. A label written at end of
pipe is recorded, submitted by a flush and published in order, which is what
`DeferredCompletion` allows. `m_submission_mutex` is a variable because `Done`
waits while it holds it.

`WaitFlipDone` flushes and then blocks the GPU thread in `FlipQueue::Wait`
(`PacketWaitsForFlip`, `FlipWaitReturns`): meanwhile it runs no command and polls no
ring. `m_requests` is the part of the flip queue that matters to it, the flips
reserved by `VideoOutSubmitFlip` (`ReserveFlip`) that the present thread has not shown
(`Present`). A flip is prepared by its own submission (`PrepareCpuFlip`), so when that
is queued behind the wait the thread waits for itself. `Close` of a port, which also
cancels flips, is in `FlipQueue`.

### `Pm4Execution` and `Pm4Stream`

`m_buffer_stack` is the stack of `BufferCursor`s that a `Pm4Execution` keeps
between slices, `stop_depths` the nested calls of `ProcessPm4` that are active in
the present one. Each kind of packet the control flow depends on is an action:
`ProcessIndirectBuffer` (indirect buffers and branches), `CondExec`,
`SetPredication`, `SkipPredicated`, waits (`PacketPasses`, `Suspend`), a store, a
draw. `Suspend` unwinds all nested calls at once and leaves `deferred_advance` in
every caller; `BufferEnds` is the end of a buffer together with the return of the
handler that called it; `AnotherRound` and `SliceEnds` are `GuestGpu::Process`
around the parser. Guest threads change the words at any time.

`Pm4Stream` is what that has to amount to: one flat sequence of packets, a call
replaced by the packets of the buffer it reaches. `ImplementsStream` maps the
cursors to what they have left, the innermost first, a cursor below the top being
past its packet. It is the justification for `GuestGpu` treating a submission as a
sequence with a position. `ProgramAssumption` is what the parser takes for granted of
the buffers: they name buffers that exist, and a COND_EXEC skips within its own.

### `KernelSemaphore` and `EventFlag`

One object behind its handle. A thread acquires the object from the registry
(`Acquire`), which pins it, and later takes its mutex: delete can come in
between. A wait that does not succeed at once parks; it is evaluated again at
least every 10 ms (`waitDeadline.h`), so signals are not modelled. `Expire` is the
deadline, at any time. The semaphore's `CountsLeft` is the loop of
`WakeWaiters`, `AddWaiter` its two orders; the flag's `Evaluates`, `WaitSucceeds`,
`WaitCanceled`, `WaitEnds` and `WaitParks` are the loop of `Wait`.

### `StreamBuffer`

`Map` is one step with the waits it makes, because meanwhile only the device and
the priority thread move, and they only retire ticks; it may submit the open tick
(`WaitFor`), as `CommandScheduler::Wait` does. `Place` decides about a new lap;
`WaitsUpTo` is where the loop over the watches stops. `Map` may be called again
without a `Commit` (a reservation given up). `lastUse` is a history variable: per
byte, the tick of the last committed use. The vectors of watches are
sequences cut at their cursor; growing them is not visible.

### `EventQueue`

One queue, its events in order of delivery, the calls that are inside it, the
table of interrupt registrations (`m_interrupt_eqs` of `renderContext.cpp`) and
the lists of the video-out ports. A call pins the queue, so it may reach it after
the handle was erased; what stops it is the closed flag. `DeleteEvent` and the
delete of the queue run callbacks outside the mutex: each is a step of its own.
Events keep pending triggers or collapse them by kind (`Queued`), and a level
event stays up when it is returned.

`TriggerInterrupt` copies the registrations, triggers, and drops those whose event it
did not find; `AddEqEvent` and `DeleteEqEvent` each take two locks in turn. `late` and
`lost` are history variables: who decided to remove the registration (`Removers`) before
the event that is now in the queue was added, and whether such a removal has taken the
registration of that event.

### `FlipQueue`

Ports, the flip queue and four kinds of thread. A request is reserved, recorded by
the GPU thread, completed by a deferred priority operation, presented by the
present thread or cancelled by `Close`, each under the locks the code takes.
`show` is the present thread with its copy of the front request, `closer` a
`Close` that holds the driver's mutex, `midway` a guest call between two of its
critical sections. `fatal` records which `EXIT` ended the process. What `Cancel` and
`Prepare` erase from the middle of `m_requests` is `RemoveAll`; the queue that remains is
told by the places that stay (`Orders`), because nothing can be proved about the
recursive `SelectSeq`.

### `PthreadMutex`, `PthreadRwlock`, `SyncOnAddress`, `GuestThreads`

The guest's primitives are the emulator's own, on host mutexes. Blocked threads
poll, so signals of the host are not modelled and a loop is the set of the
outcomes of its iterations. In `PthreadMutex` a condition wait joins the list,
gives up the mutex, waits, leaves the list and takes the mutex back with its
count; the signal that chose it decides against its deadline. `PthreadRwlock` has
the cooperative loop with its registration of waiting writers, and `PthreadOnce`.
`SyncOnAddress` is the registry of the hosts without a futex: the entry's mutex is
released before the registry's is taken to erase it. In `GuestThreads` every
store to a flag of a slot is a step, and so is every load of the reaper's scan
(`FreeDetachedThreads`, `ReadsAlmostDone`, `ReadsFree`), which may therefore act on a
value of the slot's last thread; a host thread joined twice is `undefined`, and the
model ends there. Names that these modules would share
(`pc`, `waiters`, `Init`...) carry a prefix, also those of `EventFlag`, so that the runs
and the proofs can extend them together.

### `BufferCache` and `PageWatchers`

Data is abstracted to *where the latest value of a byte is*: in the guest's
memory, in a buffer, or in a write-back that is recorded and not published. The
GPU thread obtains buffers to read (the tracker's lock is free during the upload)
and to write, joins overlapping buffers, fetches windows for faulting guests,
collects and unmaps; guest threads read and write through the page protection.
`PageWatchers` is the pass that turns watcher counts into calls that protect
runs of pages.

### `GuestMemory`

Pages, and per page what each of the five tables says of it. A call is a step,
because it holds `g_memory_operation_mutex`; the conjuncts of an action are its
calls to the tables. Direct ranges never merge, so the places where one record
ends and the next begins are state: `cuts` for `VirtualRanges`, `mapping_cuts` for
`PhysicalMemory`. The host may refuse a view (`Fault`): `KernelMunmap` then stops
half-way, `ReplaceFixedRefused` puts back what was taken, `ViewRefused` leaves a
reservation. `FIXED | NO_OVERWRITE` is the case of `"fixed"` where nothing is
replaced.

## 4. The runs

Components that share no state are checked side by side in one run where each is
small: the variable `subject` names the one that moves, the others keep their
initial state, so the run is the union of the separate state spaces.

| run | module and cfg | distinct states | question |
|---|---|---|---|
| `scheduler_and_flag` | `MCSchedulerAndFlag`, `SchedulerAndFlag.cfg` | 145,331 | scheduler: buffers, callback order, fatal checks, shutdown; implements `DeferredCompletion`; submitted callbacks run, calls return. Event flag: the waiter count, single-waiter flags, no missed event, waits end |
| `scheduler_shutdown` | `MCCommandScheduler`, `CommandSchedulerShutdown.cfg` | violation | does shutdown end? |
| `guest_gpu_safety` | `MCGuestGpu`, `GuestGpuSafety.cfg` | 1,158,657 | loss, order, labels, frames, `Done`, unmap, exit |
| `guest_gpu_liveness` | `MCGuestGpuLiveness`, `GuestGpuLiveness.cfg` | 35,843 | rings that wait for each other, and for a flip, finish, commands are answered, shutdown ends; the PM4 parser implements `Pm4Stream` |
| `guest_gpu_done` | `GuestGpuDone.cfg` | violation | the same with one call of `Done` |
| `kernel_sync` | `MCKernelSync`, `KernelSync.cfg` | 102,689 | semaphore: permits, order, waits end; thread pool: slots, stacks, joins, everything comes back |
| `event_flag_cancel` | `MCEventFlag`, `EventFlagCancel.cfg` | violation | does cancel release those it counted? |
| `event_queue` | `MCEventQueue`, `EventQueue.cfg` | 235,630 | delivery, registrations, closing, waits |
| `event_queue_interrupts` | `EventQueueInterrupts.cfg` | violation | is an event that was added, and not deleted, registered? |
| `flip_queue` | `MCFlipQueue`, `FlipQueue.cfg` | 412,814 | requests, frames, ports, flips leave, `Close` returns |
| `flip_reopen` | `FlipReopen.cfg` | violation | does `Open` find what `Close` has reset? |
| `locks_and_memory` | `MCLocksAndMemory`, `LocksAndMemory.cfg` | 469,708 | read-back ring, mutex and condition variable, read-write lock and once, wait on address, buffer cache, page watchers, guest memory |

What each property says is in the comment in front of it. Most are conjunctions of
named parts, which a counterexample tells apart. The ones that carry most of the
weight:

- `CallbacksInOrder`, `ImplementsCompletion`: reclamation never overtakes the
  completions that read what it frees, although `WaitPriorityOperations` looks
  only at the running callback and the queue's head.
- `LabelsInOrder`, `ReturnsFollowWork`: whatever mix of slices, suspensions and
  commands ran, labels are published in order, none is left in an open command
  buffer when the GPU thread goes to sleep or waits for a flip, and `Done` and unmap
  return after what they wait for.
- `CallersReturn`, `StreamsResume`: a submission suspended on a label keeps nobody
  else waiting. Both except `WaitsForItself`, which is real: the GPU thread blocks in
  `WaitFlipDone` for a flip whose preparation is queued behind on itself, or is not
  submitted. Then no command is answered, no other ring moves and `Shutdown` does not
  return; the run has the flip submitted before and behind the wait.
- `ImplementsStream`: suspended and resumed three buffers deep, with the words that
  branches and predicates read changing meanwhile, the parser runs each packet once
  and in order, and draws recorded before a suspension are flushed.
- `CallsAndCallbacksFinish` excepts one case, which is real: `FinishAndDrain`
  called while a priority operation belongs to the tick that is still open waits
  for a tick that only its caller could submit.
- `PermitsReachWaiters`, `NoOvertaking`: a permit granted to a waiter whose
  deadline passes is not lost, and permits pass a waiter only if it needs more.
- `ThreadsExclusive`, `ThreadsAreFreed`: although the flags of a slot are unprotected,
  no slot or stack serves two threads, nobody joins a thread twice, and slots and
  stacks come back. Both hold up to the step (`undefined`) in which the guest joins or
  detaches a thread that the reaper has taken for the detached one of the slot's last
  life; it is an action of the model (`ReadsFree`, `UsesTakenThread`), and the only way
  to a second join. What the program does after it is not defined.
- `DeliveredInOrder`, `TablesAgree`: every trigger of a queued event is returned
  once and in order by whichever reader has room; a live event has its
  registration and a closed port none, once nobody is half-way through a call. Two
  exceptions are stated: an interrupt registration that a late removal has taken
  (`lost`: it was decided before the event was added, and nobody has registered the
  event since), which `event_queue_interrupts` shows, and two ports that share
  one event.
- `EventsReached` excepts level events: one that is up fills the caller's array
  with copies of itself, and the events behind it are not looked at.
- `RequestsKept`, `FlipsAndClosesEnd`: a close that meets a recording, a completion
  or a presentation leaves every frame with one owner, and comes to an end. The
  second excepts `WaitsForItself`: a command buffer that waits for a flip whose
  preparation is queued behind it on the same thread.
- `SignalsAnswered`, `WaitersAreFound`: a signal or a wake is spent only on a thread
  that reports it, whatever its deadline; a wake finds whoever waits although
  entries of the registry are erased late.
- `LatestValueSeen`, `DirtyPagesAgree`: neither the guest nor the GPU is let through
  to an old value, with write-backs, windows, joins, collection and unmapping in
  any order.
- `TablesInStep`: the comment on `g_memory_operation_mutex`, "Keep host mappings,
  physical blocks, placeholders, and virtual ranges in step", after any history of
  replaced, split, refused and released ranges.
- `NoReuseInFlight`, `AtomsIsolated`: neither wrapping, a short lap, a reservation
  given up nor one refused half-way hands out a range in flight.

### Bounds, and why they are enough

- Scheduler: two callbacks, each of which a callback may defer; a pool that grows
  by two buffers, so that it is exhausted, searched from the hint and grown
  within four ticks. Two callbacks already cover one running and one queued, of
  the same and of different ticks and kinds. `MaxTick` bounds voluntary
  submissions only: an operation that has begun always ends.
- Guest GPU: two guest threads, a graphics and a compute ring, four submissions
  (two wait on each other in turn, of which one then waits for the flip that the third
  prepares; one waits for a label that only the CPU writes), two `Done` calls and a
  shutdown at any point. Guest threads are interchangeable, so the safety run uses
  symmetry; the liveness run does not, and leaves out the fourth submission and `Done`. Each command buffer is submitted at most once.
- PM4 parser: two submissions, buffers nested three deep with a limit of three, two
  words, a wait as the first and as the last packet of a buffer, a buffer called
  from several places, a predicate that reaches into the next submission; graphics
  and compute slices.
- Semaphore: three threads of two priorities and at most two permits, needs of one
  and two, counts that are legal and not. Thread pool: three lives in two slots
  with one stack, so that slots and stacks are used again and run out.
- Event flag: three threads, so that two can wait while one sets, cancels or
  deletes; both kinds of flag, two bits, waits of both modes, all ways to clear
  and all kinds of timeout.
- Event queue: two threads, arrays of one and two entries, three triggers, five
  calls that add or delete; kinds of event that share code or hide one another are
  used together (`Mixes`). One thread and three calls suffice for `event_queue_interrupts`.
- Flip queue: two ports, a queue of two, four guest calls, enough for a port to be
  opened, flipped, closed and opened again with another port in between.
- Mutex: two threads, recursion to two, both types. Read-write lock: three threads,
  so that a reader, a writer and a newcomer meet. Address: three waiters or wakers,
  four entries, more than threads can hold at once.
- Buffer cache: two pages, one with two bytes of which each side may have written
  one, two guest threads, one write-back under way. Watchers: four pages, two
  write watchers and an access watcher, so runs break, resume and pass over pages.
- Guest memory: three pages, two frames of direct memory and two flexible ones, one
  refusal of the host: a range can be cut in the middle, aliased and run out of
  frames.
- Stream buffer: a read-back ring of eight bytes in atoms of two with alignments
  that are no multiple of the atom; requests that fit, fill the ring and exceed
  it; up to four ticks, which is several laps. Coherent and upload rings are
  covered by the theorem.

All cfgs say `CHECK_DEADLOCK FALSE`: guest threads may stop calling, a deleted
object or a closed scheduler has no more steps, and the bounds on ticks, calls and
triggers end behaviours. That nobody waits on everybody is what the liveness
properties are for.

### Fairness

- `CommandScheduler!FairSpec`: weak fairness of the device (a submission
  retires, which Vulkan guarantees short of a lost device, a fatal error here),
  of the steps of an operation that has begun, of the priority thread, and of
  parking and waking. Which operation the owner starts next is not fair.
- `GuestGpu!FairSpec`: weak fairness of the GPU thread, of publication by the
  priority thread, of the present thread, of a guest inside `Done` and of `Shutdown`'s join. Commands go
  before packets in the code, so `ResumesWhenWritten` and `ProducerResumes` assume
  that commands cease (`CommandsCease`). `GameSpec` adds that the game submits each
  command buffer if it can again and again: the premise "a legitimate producer".
- `KernelSemaphore`, `EventFlag`, `EventQueue`: weak fairness of a thread inside
  an operation and of its deadline, justified by the re-evaluation every 10 ms;
  for the event queue also of the priority thread. Which operations threads call
  is not fair; `EventsReached` assumes threads that keep waiting.
- `FlipQueue`: weak fairness of the GPU, priority and present threads, of a
  `Close` that has begun and of a call between two critical sections.
- `GuestThreads`: weak fairness of callers inside a call, of host threads that end
  and of the reaper's scans, which its timed wait repeats.
- `Pm4Execution`: weak fairness of the parser; the GPU thread comes back to a
  suspended submission because it polls (`graphicsRun.cpp:512`). Guest threads owe
  nothing: a word may stay unwritten, or change for ever.
- The other modules state safety only, without fairness.

## 5. What is proved, and how

TLAPS proves these for every value of the constants that satisfies the
assumptions of the module. The assumptions stand next to the declarations of the constants
and ask for positive sizes and steps, sets of the right kind, nested callbacks
among the callbacks. `MutexAssumption`, `RwlockAssumption`, `PoolAssumption`,
`AddressAssumption`, `CacheAssumption`, `WatcherAssumption`, `MemoryAssumption` and
`ProgramAssumption` are hypotheses of the theorems about those modules, and the MC
modules assume them, so that TLC evaluates them. The bounds of the runs (`MaxTick`,
`MaxWakes`...) are constants too, and arbitrary.

Several definitions are recursive functions (`CountsLeft`, the sums of
`MapThenSumSet`, the pass over the pages, `FlattenSeq`). The library's induction
theorems take an operator and cannot be used, but for one concrete statement they can
be avoided: if the statement failed for some number there would be a least one
(`Least`, from `WFMin` and `NatLessThanWellFounded`), and the recursive equation refutes
it. That the recursive function exists at all is shown in the same way.

### `CommandSchedulerProofs`

`Invariance` shows `Spec => []IndInv`. From it follow `TypeCorrect`,
`BuffersNotReusedInFlight`, `CallbacksRunInOrder` (from `CallbacksFollowRetirement`
and `ReclamationFollowsCompletions`) and `ShutdownEndsClean` (from `ChecksNeverFire`
and `ShutdownDropsNothing`).
None of the properties is inductive. `IndInv` is the conjunction of

- `TypeOK`;
- `TimelineInv`: the submissions in flight are the ticks between the device's
  counter and the current tick, in order, and the host's knowledge never runs
  ahead of the counter;
- `PoolInv`: a buffer in flight was handed out for the tick it is in flight for,
  which is what makes a free buffer (its tick has retired) not in flight;
- `QueueInv`: both queues are sorted by tick, which is why looking at the head is
  enough;
- `PrioInv`, `OwnerInv`, `CommandInv`: what the threads hold at each label;
- `DrainInv`: from the moment the drain has found everything empty no callback
  can enter, because the phase is not Open.

There is one lemma per action, and frame lemmas for groups of variables an action
leaves alone.

`SchedulerImplementsCompletion` is the refinement: every behaviour of the scheduler
is one of `DeferredCompletion` under the mapping of `ImplementsCompletion`. An
operation that a thread has taken is mapped to the front of its queue until its
callback has returned (`PriorityLeft`, `OrdinaryLeft`). Deferring, submitting, the
device's retirement, the return of a callback, the start of the shutdown and its last
step are steps of the contract; all other actions, the taking of an operation
included, stutter. `IndInv` supplies that the operation that returns was the oldest,
that its tick has retired, that no priority operation up to its tick is left when an
ordinary one returns, and that nothing is left when the scheduler closes.

### `GuestGpuProofs`

`NoneIsLost` (`SubmissionsKept`), `PacketsRunInOrder` (`PacketsInOrder`),
`LabelsReachMemoryInOrder` (`LabelsInOrder`) and `CallsReturnAfterTheirWork`
(`ReturnsFollowWork`), for any number of rings, guest threads, submissions and packets.
None of them is inductive: they speak of what was accepted and executed, and the
code keeps no such history. `IndInv` ties it to the state:

- `ThreadInv`, `CursorInv`, `CommandInv`, `DoneInv`: what each value of `gpu` and
  `pc` says about the submission, the command and the mutex that are held; a thread that
  waits for a flip is at a WAIT_FLIP_DONE (`FlipWaitOK`);
- `AcceptedInv`, `LineInv`: the *line* of a ring is its queue behind the submission
  being executed; it is the end of what the ring accepted, and only its front
  has been started;
- `ExecutedInv`: the last packet a ring executed is the one before the cursor of
  the front, or the last one of the submission before it, so the next packet is the
  next one in order (`RingOrder`), however the stream was cut into slices;
- `FrameInv`: all of the graphics line belongs to the frame that `Done` has not
  ended, and exactly the first submission of a frame resets the context;
- `CountInv`: the cardinalities of the submissions counted, in line, accepted,
  completed and canceled belong together. `Done` clears nothing it did not count;
- `PipelineInv`: a label written by an executed packet is in memory, in flight or
  recorded in a command buffer that the slice will flush.

A ring that shutdown has cleared has no line any more; what is said of lines is
said of rings that are `Live`. The order of labels needs that every label is
written by one packet (`OneWriterPerLabel`): if a label is written twice, that it is
in memory does not say which write put it there. It is the hypothesis of that theorem
only, and `MCGuestGpu` assumes it, so that TLC evaluates it for the streams of the run.
`OrderInv` is the extra invariant: of two labels that a ring has written, the earlier
is in memory or ahead of the later. `CallsReturnAfterTheirWork` is an action property;
its argument is `DoneInv` and, for the synchronous command, that a command ends only
with nothing recorded or in flight.

### `MemoryTrackingProofs`

The buffer cache, the page watchers and the stream buffer, which share no state.

*Buffer cache*: `LatestSeen` (`LatestValueSeen`) and `BitsAgree` (`DirtyPagesAgree`),
for any memory, guest threads, window and number of write-backs. Together they are
almost inductive. `OwnerInv` adds who has the latest value: the backing is behind only
on mapped bytes the GPU wrote, only of those is a write-back under way, and what is not
mapped is the guest's. `GpuInv` says what the GPU thread is in the middle of when it has
released the tracker's lock: an upload holds mapped pages that are not dirty for the GPU
and covered by a buffer; a download has the dirty bytes of its pages; what will be
unmarked is of those pages, with no write-back left.

*Page watchers*: `PagesAreProtected` (`ProtectionFollowsWatchers`), for any number of
pages and owners. `WatchInv` ties the counters to the watchers. The work is the pass,
a recursive function over the pages: `Runs` is what it carries, and the lemmas say that
behind the run it is extending every page is protected as its counters ask, and that the
pages of the run are the ones it will be applied to.

*Stream buffer*: `NoReuse`: types and `NoReuseInFlight`, for every ring size, atom,
request set and number of ticks. `RingInv` adds to them

- `LapInv`: the watches of the present lap lie below `m_offset`, and the offset is
  0 before the first, so a new lap always follows a lap with watches;
- `CurrentInv`: each watch of the lap names a tick not before the uses of the
  bytes under it, and the last watch one not before any use at all;
- `PreviousInv`: the same of the previous lap, for bytes this lap has not reached;
- `WaitInv`: `m_wait_bound` is the bound of the last watch waited for, and its
  tick is over.

`MapStep` is the argument: the loop stops either at a watch that covers the
reservation, or behind the last watch of the lap, and both bound the uses of every
byte of it. That the ticks of the watches are sorted is not needed.

`AtomsAreIsolated` (`AtomsIsolated`) adds `WholeAtoms`: an open reservation of memory
that is not coherent begins and ends at an atom. `AlignUpMultiple` is the arithmetic:
rounding up to a common multiple of the alignment and the atom gives a multiple of the
atom. Flushing then touches the reservation's bytes and no others.

### `GuestLocksProofs`

What guest threads block on, in four parts, of which the first three share the lemmas about lists
(`RemoveAtIndex`, `RemoveFirstRange`: `std::find` and `erase` on a list without
duplicates).

- `MutexIsHeld` (`HoldersOwn`) needs `HeldAcrossWaits`: between a condition wait and
  its relock the mutex is free, and the count lives in the waiter's `recurse`.
  `NoSignalLost` (`SignalsAnswered`) needs `SignalsLater`: the numbers a waiter has
  read are never ahead of those of the condition variable, and only a thread inside a
  wait is granted.
- `WritersAreCounted` (`WritersCounted`) is about cardinalities: the reader count is
  that of the set of read locks held, `waiting_writers` that of the registered threads.
  `OnceIsOnce` (`OnceThenDone`) follows how the control word, its history and the
  threads inside belong together. `NewReadersWait` (`WritersGoFirst`) is an action
  property: no step gives a read lock to a thread that holds nothing while a writer that
  has registered waits.
- `NoWakeLost` (`WaitersAreFound`): `Listed` says that the list of an entry is the
  threads parked in it, each once; `Kept` that an entry stays registered only as long as
  somebody inside a wait will look at it again, which is what the second look of
  `UnregisterPortableWaiter` is for; `Spent` that a wake is spent only on a parked thread
  whose flag says so.
- `TypeCorrect`, and `WaitersAreCounted` (`WaitersCounted`), of the event flag: the
  waiter count is the number of parked threads, and a single-waiter flag has at most
  one, for any number of threads and bits. The two are inductive together; the work is in
  cardinalities of the set of parked threads.

### `KernelProofs`

The semaphore, the thread pool and the tables of guest memory, which share no state.

*Semaphore*: `PermitsAreKept` (`PermitsReachWaiters`) and `PermitsGoInTurn`
(`NoOvertaking`, an action property), for any number of threads, priorities and needs.
Permits are a sum over the threads in line, and `WakeWaiters` is a loop over the line;
the lemmas on `Grants` say what a thread that joins, leaves or is granted changes in the
sum, those on `CountsLeft` that the loop takes permits from the front and stops nobody
it could serve. Two conjuncts make it inductive: `Records`, that a waiter's record says
what its thread asked for and that only a ready one is granted, without which a time-out
could drop a grant; and `InOrder`, that the line is sorted.

*Thread pool*: `PoolIsExclusive` (`ThreadsExclusive`). The reaper decides on three flags that
nothing protects together and that it loads one by one. Its first load may be of the slot's
last life, and it may then join a thread that is not detached; the theorem says that
nothing else goes wrong, and nothing at all until the guest joins or detaches that thread too.
The argument is in `SlotInv`: two actors never work on
one slot (`Alone`), a thread nobody claimed is not detached and no caller's target
(`Unclaimed`), who joins has a thread that is not detached (`Attached`),
`almost_done` outlives a host thread only in the hands of its joiner (`Ending`), and a slot
of which the scan has read `almost_done` has that thread, or is free, or about to be
(`Scanned`), so that the reaper never joins in a slot that is being created in.
`StackInv` follows every stack to the slot, the cache or the unmapping it is in.

*Guest memory*: `TablesStayInStep` (`TablesInStep`), for any number of pages, frames and
refusals of the host. `DirectInv` makes it inductive: a cut of `m_mappings` lies between
two direct pages, and a direct page has no name, so two of them belong to different
records only where there is a cut. `MemoryInvIs` says it page by page (`PageAgrees`) and
frame by frame (`Apart`), so that a call only has to be looked at for the pages it
touches; the pool's count of committed pages is a cardinality.

### `EventQueueProofs`

`TriggersDelivered` (`DeliveredInOrder`) and `TablesAlwaysAgree` (`TablesAgree`), for any
number of threads, ports, kinds of event, rooms and calls.

Delivery: `EventsInv` (one event of a kind, nothing pending in an event that is down,
nothing in a closed queue) and `EdgeInv` (the edge event that is up holds the last
trigger, which nobody has been given) are the strengthening. What one wait takes is a set
of places chosen by a loop that stops at the caller's room; the lemmas rank those places
(again by a least counterexample) and say that what is taken and what stays make
the queue that was there.

Agreement: the property speaks of quiet moments, so the invariant has to say what is owed
at all others. `IrqInv` does it for interrupts: while the queue has the event, whoever is
about to remove the registration is known to be late, so the registration is there, under
way, or lost to one of them. For ports, `LocksInv` says who holds which
mutex, `SharedInv` that whatever mentions a port has used the queue through it, and
`Accounted`, for a port that uses the queue alone, that its event belongs to its
registration or to a `Close` about to delete it, that a registration has its event or a
call that will add the one or remove the other, and that callbacks run only for events
that are gone.

### `Pm4ExecutionProofs`

`ParserImplementsStream`, the safety part of `ImplementsStream`: the initial states of the
parser are initial states of `Pm4Stream`, and every step of it, for every program of
buffers that satisfies `ProgramAssumption`, every nesting limit and every sequence of
submissions, is a step of the stream or leaves it alone. `ParserInv` is

- `StackOK`: a cursor below the top, and one that is marked, has a packet to step over;
- `DepthInv`: while the parser runs, the active calls are nested in the stack and a
  cursor below the top is either in the middle of one of them or marked
  (`deferred_advance`), never both; between slices every caller is marked.

The mapping is a `FlattenSeq` over the cursors. `Below` is what the lower ones have left;
that it is unchanged when the top moves, loses one cursor when a buffer ends and gains one
when a packet calls is most of the proof. For a packet there is one lemma that
it is the head of the flat stream (`AtPacket`), and one lemma per action. `Suspend` leaves
the stream alone although it marks every caller: it is the two halves of `DepthInv` that
make the marks say what the lost calls knew.

### `FlipQueueProofs`

`RequestsAreKept` (`RequestsKept`) and `StatusIsTrue` (`PortsTellTheTruth`), for any
ports, surfaces, capacity and number of calls. A request is met by four threads, none
of which holds a lock for as long as it works on it, and by a `Close` at any moment.
That no `EXIT` of `Prepare`, `Complete`, `Cancel` or `Flip` is reached therefore needs
to know, of every request and every errand about one, how far it is:

- `QueueInv`: a request is in one of the three lists, once, under an id no other has,
  and the two pending lists are within the capacity;
- `StageInv`: a `Reserved` request has no frame; one that is `Ready` or `Presenting` has
  one and is in `m_requests`; `Presenting` is only the front, in the present thread's
  hands; what waits in `m_cpu_requests` is `Reserved`;
- `OneErrand`: an id is carried by one errand at a time: a guest call about to submit
  the preparation, a submission, the task of the GPU thread, a deferred completion;
- `ErrandInv`: an errand finds its request at the stage it expects, queued or cancelled,
  and never neither;
- `ShowInv`: what the present thread has copied is still the front of the queue
  while it is processing, since `Close` waits for that and nobody else removes it;
- `PortInv`: a pending request is of its port as it is now, the same generation and
  still open, or a `Close` that has yet to cancel it is under way;
- `FramesOwned`, `StatusCovers`: a frame is freed with its request and not before, and
  a port's counts cover its requests.

`StatusCovers` is where the cardinalities are: `flipPendingNum` is written from the
length of the queue of all ports, on reserve and after a flip only, so it bounds the
requests of the port and need not equal them; `gcQueueNum` does equal.

### Only model-checked

- Liveness under fairness is outside what TLAPS handles: the properties of section 4
  that say something must happen are TLC's.
- `Progress` of `Pm4Stream`, the fairness part of `ImplementsStream`, is one of them.
- `TypesOK` of `MCLocksAndMemory` collects the type invariants of the components of that
  run. Those of the mutex, the read-write lock, the stream buffer, the cache and the guest
  memory are theorems, the others parts of the inductive invariants.
- The runs that show a disagreement (section 6) are counterexamples and need no proof.

## 6. Findings

- `scheduler_shutdown`: `CommandScheduler::Shutdown` requests the stop and
  notifies without `m_operation_mutex` (`commandScheduler.cpp:131-132`). If the
  priority thread has evaluated its predicate and not parked yet, it misses
  both, and `join` never returns.
- `guest_gpu_done`: `Done` holds `m_submission_mutex` while it waits for idle
  (`graphicsRun.cpp:200-202`). If the submission it waits for is suspended on a
  label whose producer another thread is about to submit, that thread never gets
  in. `docs/phase3-gpu-completion.md:56` promises that a legitimate producer can
  resume it; `guest_gpu_liveness` shows that this holds without `Done`.
- `event_flag_cancel`: `Cancel` counts all waiters and sets one status word; the
  first thread to look at it resets it (`eventFlag.cpp:19-23`), and the other
  waiters stay parked.
- `event_queue_interrupts`: `TriggerInterrupt` copies the registrations, triggers each,
  and removes by queue and id those whose event it did not find
  (`renderContext.cpp:86-102`). If the guest's `DeleteEqEvent` and then `AddEqEvent` fall
  between the two, the new registration is removed: the event stays in the queue and no
  interrupt reaches it, although `AddEqEvent` returned 0, which
  `tests/ShaderRecompilerComputeTests.cpp:2541` takes for a routing that is ready. Two guest
  threads get there without an interrupt, when an `AddEqEvent` falls between the two
  locks of a `DeleteEqEvent` (`sync.cpp:363-368`).
- `flip_reopen`: `VideoOutSetFlipRate` checks the port under the driver's mutex and
  writes the rate later under the port's (`videoOut.cpp:1247`) without asking
  whether it is closing. A `Close` in between leaves a rate on a closed port, and
  the next `Open` ends the process at `EXIT_IF(config.flip_rate != 0)` (`:635`).

Observations that contradict no statement of the repository, so no run claims
them:

- The reaper of detached threads loads `detached`, `almost_done` and `free` one after the
  other (`pthread.cpp:1597`). If it reads `detached` before `PthreadCreate` stores FALSE in a
  slot that is used again (`:3481`), and `almost_done` after the new thread has ended, it
  joins a thread that the guest may still join: the second join, or a late detach, is
  undefined behaviour of the host. `GuestThreads` reaches it as `undefined`.
- `WaitFlipDone` (`graphicsRun.cpp:1182`) waits without a limit. For a flip that was reserved
  before, and whose preparation is queued behind on the GPU thread, it never returns, and
  with it no command, no other ring and not `Shutdown`. `GuestGpu` and `FlipQueue` reach it
  as `WaitsForItself`.
- Naming part of a direct range (`memory.cpp:2504`) cuts it in `VirtualRanges` but
  not in `PhysicalMemory`; a later release finds an alias longer than its range and
  exits ("direct-memory alias escaped guest address-space ownership", `:2866`).
  `GuestMemory` reaches it as `ReleaseExits`.
- A fixed mapping whose view the host refuses has already destroyed what was there
  (`ViewRefused`), and a refused munmap has taken the GPU's mapping of all of the
  range and the ranges before the refused one (`KernelMunmap`).
- `KernelMemoryPoolReserve` next to a reservation of the same name is refused with
  EBUSY but stays reserved, because the new range has merged with its neighbour.
- Events of a queue are identified by kind alone, so two ports that share a queue
  share one event, and closing either deletes it (`videoOut.cpp:418`).
- The predicate of SET_PREDICATION belongs to the ring's processor and is cleared
  neither by a new submission nor by `Reset` (`graphicsRun.cpp:224`): a submission
  that leaves it set skips the predicated packets of the next one.
- `ShutdownGpu` clears the resource manager's pointer to the GPU before the GPU
  thread has stopped (`renderContext.cpp:36`): a guest thread that unmaps memory in
  between finishes the scheduler on its own thread while the GPU thread records.
- On Linux a wait on an address is a sequence of futex calls of one slice each
  (`syncOnAddress.cpp:114`): a wake between two of them finds nobody, and only the
  changed word ends the wait.

## 7. What is not modelled, and abstractions to keep in mind

- *Not modelled*: the shader recompiler, tiling and formats, the translation of
  draws, most of the libraries (codecs, dialogs, networking, audio), the loader and
  the launcher are sequential transformations of data or input and output: most of
  the code by lines, and without a protocol that a model checker could explore.
  The texture cache, the POSIX semaphores and the containers have
  one and are in the plan.
- *Scheduler*: the compare-exchange loop of `MasterSemaphore::Refresh` is one
  step; a failing Vulkan call ends the process and has no action.
- *Guest GPU*: the constant engine and its counters (its stream
  is empty in every call of `Submit`, `libs/agc.cpp`), `Done` called from the
  GPU thread itself and the cancelling of a flip by closing its port are left out; a
  flip from a command buffer is prepared as it is parsed, and is a packet that flushes. A call after shutdown ends the process
  (`CallRejected`).
- *PM4 parser*: packets are well formed; a malformed or unknown one ends the
  process. Registers are data. The commands that run between packets are in
  `GuestGpu`.
- *Semaphore*: signal handlers dispatched inside `Wait` and the POSIX wrappers are
  left out.
- *Event queue*: one event of each kind; the guest's data pointers are left out.
- *Threads*: attributes, keys, signals, cancellation and the creation of static
  objects on first use are left out, and so is destroying a primitive in use.
- *Buffer cache*: images, texel buffers and copies between buffers are left out.
  Regions exist from the start. Recorded GPU work is in effect when it is recorded,
  because whatever looks at its results finishes it first.
- *Guest memory*: protections only cut direct ranges; private pages, apertures,
  queries and the batch calls, which repeat the others, are left out. That a partial
  unmap replaces the host's view of the rest, with the protection it was mapped
  with, is below the model.
- *Stream buffer*: a use is noted in the tick of its `Commit`. A caller that keeps
  the offset and records its use after another reservation has submitted that tick
  (`renderDraw.cpp:988`) is outside the model. Sizes near 2^64, which
  `NormalizeReservation` rejects, do not occur.

## 8. Running it

    tlc -workers 2 -config LocksAndMemory.cfg MCLocksAndMemory
    tlapm GuestLocksProofs.tla

Each run is a pair of a cfg and the MC module of the table above; each takes less
than four minutes on two workers. The proofs together take about half an hour,
most of it `GuestGpuProofs`, `KernelProofs` and `EventQueueProofs`.
