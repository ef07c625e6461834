# DispatchQueue in TLA+

TLA+ modules, TLC configurations and TLAPS proofs for `DispatchQueue`, a C++20 library of
serial and concurrent queues over one thread pool, after Apple's Grand Central Dispatch.
Each module follows the source one atomic access at a time, so that what is checked are
the races of that code and not of a design. `PROJECT.json` maps every definition to the
lines it translates.

- [The system](#the-system): inventory of components, state, operations, hard behaviour
- [The modules](#the-modules): which module models which part, and how
- [The runs](#the-runs): what is checked, the bounds, the fairness
- [The proofs](#the-proofs)
- [What the runs found](#what-the-runs-found)
- [What is left](#what-is-left): not modelled, and the plan

All paths below are relative to `src/DispatchQueue/`.

## The system

| component | source | state | operations |
|---|---|---|---|
| Serial queue | `DispatchSerialQueue.{h,cpp}` | `taskQueue_` under a mutex, `threadAttach_`, `suspendCount_`, `inactive_` | `async`, `sync`, `activate`, `suspend`, `resume`; `tryTake` called by workers |
| Concurrent queue | `DispatchConcurrentQueue.{h,cpp}` | lock-free `taskQueue_`, `taskToNotify_`, `suspendCount_`, `suspend_`, `inactive_` | the same |
| Task | `DispatchTask.h` | function, promise, semaphore of a sync task | `performWithQueue`, `notifySync` |
| Executor | `DispatchQueueExecutor.{h,cpp}` | `threadList_` under a lock, `stoppedThreadQueue_`, `maxThreads_`, `activeThreads_`, `threadsToJoin_`, `threadsToStop_`, `isJoin_`, `taskQueues_` | `addWithPriority`, `threadRun`, `stop`, `join` |
| Priority queue | `TaskQueue/PrioritySemMPMCQueue.h`, `BlockingQueue.h`, `Utility.h` | one MPMC queue per priority, `sem_`, `readCount_`, `writeCount_` | `addWithPriority`, `take`, `tryTake` |
| Fixed MPMC queue | `TaskQueue/MPMCQueue.h:15-253` | `pushTicket_`, `popTicket_`, per slot `turn_`, `waitCount_`, `storage_` | `blockingWrite`, `blockingRead`, `writeIfNotFull`, `readIfNotEmpty` |
| Dynamic MPMC queue | `TaskQueue/MPMCQueue.h:255-602` | the same, `dstate_` (a seqlock with the first ticket of the current array), `dslots_`, `dcapacity_`, `closed_` | the same, and `tryExpand` |
| Notify | `DispatchWorkItem.h:109-249` | `state_`, `next_`, the queue to post to | `notify`, `doNotify`, `cancel` |
| Group | `DispatchGroup.h` | `taskCount_`, `waitCount_`, `notifyCount_`, a Notify | `enter`, `leave`, `wait`, `tryWait`, `notify` |
| Work item | `DispatchWorkItem.h:18-104, 252-458` | `func_`, `waited_`, `count_`, `isFinished_`, a Notify, a keep-alive | `perform`, `performWithQueue`, `wait`, `tryWait`, `notify`, `cancel`, destruction |
| Keep-alive | `DispatchKeepAlive.h`, `DispatchQueue.h` | `keepAliveCount_`, `keepAliveRelease_`, `keepAliveJoined_` | token, weak reference, `lock`, `joinKeepAliveOnce` |

How they interact:

- `async()` pushes a task into the queue and hands the executor a *reference to the
  queue*, not the task. A worker takes a reference and asks that queue for a task with
  `tryTake()`. A serial queue has at most one such reference or thread at a time, its
  *token*; a concurrent queue has one reference per task.
- `sync()` on a serial queue pushes the task, too; whoever finds it at the front releases
  the semaphore of the thread that waits in `sync()`, which then holds the token, runs the
  task and calls `notifyNextWork()`. On a concurrent queue, `sync()` runs the task in the
  caller as soon as it has seen the queue active and not suspended.
- The executor stores references in the priority queue, which stores them in dynamic MPMC
  queues. Its guess whether a thread was free decides whether a thread is started.
- A group or work item posts its callback to a queue with `async()`.
- A queue that was given a work item keeps a *weak reference* to it. Whoever takes that task locks the
  reference, which fails once the item is being destroyed; the destructor waits until everybody who got in
  is out again.

Behaviour that is hard to test, and what correctness means for each component:

- *Serial queue*: `addTask()`, `activate()`, `resume()`, the thread that finds the queue
  empty and the one that finds it suspended all compete for `threadAttach_` without a lock.
  One task at a time; the token is unique and never lost; no task is left in a queue that
  nobody is attached to; order of submission; nothing starts because of a `suspend()` that
  was missed, beyond what had been decided.
- *Concurrent queue*: references deferred in an inactive or suspended queue race with their
  collection. Every task is covered by a reference; none is stranded; sleepers are woken.
- *Executor*: threads leave while references are added; joins are promised to be kept later.
  Counters exact, every thread joined once, no reference without a thread.
- *Priority queue*: tokens and elements part ways. Nobody sleeps while an element waits.
- *MPMC queue*: slots are reused, sleepers wait for turns. A slot belongs to one thread,
  values come out as they went in, no sleeper is overlooked.
- *Dynamic MPMC queue*: a writer replaces the array while others hold tickets of it, have read half of its
  description, or sleep; the allocation may fail half-way. A ticket stays with the array it was issued for,
  and the queue is one queue over all its arrays.
- *Work item*: a perform, a wait, a cancel and a destruction race with each other, each with a flag and a
  look at the other's. A wait is for one perform and returns after it; nobody is left inside.
- *Keep-alive*: `lock()` races with the last release. The object is released once, when no token is left.
- *Notify, Group*: one-shot callbacks are claimed, fired and cancelled by several threads;
  waiters sleep on a count that may come back to the value they slept on. `next_` has one
  owner, each callback is called or dropped once and is not forgotten, `wait()` returns if
  and only if the group was empty.

`PROJECT.json` lists every such hazard under `hazards`, at its line, with the properties
that would catch it.

## The modules

Every action is one access to an atomic variable, or one critical section of a mutex;
thread-local variables are functions of the thread, the program counter is `pc`. Variables
marked *auxiliary* are history or bookkeeping for properties, and no guard reads them,
except that a model gives each task, value or element out once.
`MC...` modules hold what only TLC needs.

**`SerialQueue`** (extends the standard modules only). `Push`, `AddReadsInactive`,
`AddReadsSuspendCount` and `Attach` are `addTask()`; `Attach` is also how `activate()` and
`resume()` end. `CheckSuspended`, `Detach`, `Recheck`, `Retake` are `suspendCheck()`, made on
behalf of `notifyNextWork()` or `tryTake()`, which `caller` remembers. The executor is `refs`, the
number of references to this queue; a worker that has served the queue asks it again
(`FinishBody`). A task body may call the queue (`MayCall`), except `sync()`, which would wait
for itself. **`AbstractSerialQueue`** says what a caller may rely on: a FIFO, one task at a time,
a `suspend()` that comes too late for a bounded number of tasks (`grace`), and everything
started eventually if active and unsuspended. `SerialQueue!Abstract` is the refinement mapping:
a task that was handed to a thread and has not started is still pending.

**`ConcurrentQueue`**. `MPMCQueue` is a sequence, the executor is `refs`. `AddReads...`, `Defer`,
`AgainReads...` are `addTask()`; `Take...` is `suspendCheck()` in `tryTake()`; `Wake` is
`notify_all()`, which sends threads asleep in `sync()` back to look. A task body may call every operation, `sync()` too, as
`tests/ConcurrentTest.cpp:26` does: the call does not wait for the task that makes it. Tasks are nested then, and `running` is the
stack of those a thread is inside of; a worker may be asleep in `sync()` with a task unfinished.

**`Notify`** has the protocol of `state_` and `next_` as actions of a thread (`Claim`, `Fill`, `Publish` set a callback,
`Win`, `Post`, `Drop`, `Reset` fire or cancel it), **`KeepAlive`** that of `keepAliveCount_` (`LockLoads` and `LockSteps`,
`Release` and `Signal`, `JoinReleases` and `JoinSteps`). They extend **`ThreadSet`**, which only declares `Threads`, so that a
module can extend both. They have no runs of their own; the modules of the objects that derive from these classes call
their actions where the code does:

- **`Group`** extends `Notify`: `Enter...`, `Leave...`, `Wait...`, `Notify...` are the calls in the steps of their atomic accesses.
- **`WorkItem`** extends both. `Perform` is a direct call, `Submit` and `TakeTask` one through a queue and `lock()`; from
  `CountsPerform` to `NoCallbackSet` both are `perform()` with `finish()`. A refused perform throws; within
  `performWithQueue()`, which is `noexcept`, that ends the program (`terminated`). `CopiesFunc` reads the plain shared pointer `func_`,
  which `cancel()` and the destructor may be resetting: it finds the task or not. `Destroy`, `Disposes` and `Joins` are the
  destructor, begun when no direct call is in progress, while queues still hold weak references.

**`MPMCQueue`** models tickets, the turn of each slot, and sleeping on `turn_`. `MayClaim` keeps the
unsigned comparison of `MPMCQueue.h:178`, modulo `WordSize`. **`AbstractTicketQueue`** has no slots and
no turns: pop ticket *k* gets the value of push ticket *k*, within the capacity, and no write waits while there is `Room`.

**`Totals`** adds up a count that is spread over threads, references in hand in `ConcurrentQueue` and promised joins in
`Executor`. It counts pairs instead of folding, so that what the provers know of finite sets applies to it.

**`DynamicMPMCQueue`** is `MPMCQueue<T, true>`, one action per access to `dstate_`, `dslots_`, `dcapacity_` or a ticket counter:
`LoadState` to `Validate` are `seqlockReadSection()`, `Binding` is `maybeUpdateFromClosed()`, `Lock` to `NotifyAll` are `tryExpand()`, in which
`AllocationFails` and `Restore` are the way out of a failed allocation. What happens at a slot, the subject of `MPMCQueue`, is one
step here, `Access`. It implements `AbstractTicketQueue`, too, without a limit on what is stored; a write may have to wait
only while the queue has as many values as its smallest array has slots. A value is named by its ticket.

**`PrioritySemQueue`** stands on that abstraction: each MPMC queue is a log of push tickets, a
count of claims, and the sets of elements written and read. `kind` chooses the template
arguments: `dynamic` never fills up and its `readIfNotEmpty()` loads `pushTicket_` after `popTicket_`;
the two fixed kinds load it before and wait or throw when full. What `addWithPriority()` returns
matters to the caller alone and is a step of `Executor`.

**`Executor`** in turn keeps of the priority queue only its counters, how many references and
poison elements it holds, and the order in which `tryTake()` looks for them. It has the clients in
`addWithPriority()`, the workers in `threadRun()`, and the owner that destroys it. Whether a reference
leads to a task is up to the queue, so both are allowed. A worker object is used again after it
was joined. `StartFails` is `std::thread` throwing: the add throws although its reference is in the queue, and
`failed` remembers that.

*Memory order.* The modules are sequentially consistent, with one exception: in
`DispatchGroup::notify()` and in `TurnController::completeTurn()` a release store is followed by an
acquire load of another variable, which x86 and C++ allow to be done first. `NotifyReadsCountEarly` and
`LoadsWaitEarly` do it first and set `overtaken`. Properties that hold in spite of it are stated
without condition; those that need the two in order are conditioned on `~overtaken` and say so. `DynamicMPMCQueue` and the modules that
extend `KeepAlive` have no such exception: what weaker orders do to the seqlock is not modelled. In the
executor the corresponding pairs have a `seq_cst` fence between them, and `overtaken` means something else:
a reference was pushed while a call that had counted earlier had yet to push its own or to compare.

## The runs

Sizes are distinct states; each run takes about three minutes at most on two cores.

| run | expect | instance | states | what it shows |
|---|---|---|---|---|
| `serial` | pass | 2 clients, 2 workers, 2 async and 1 sync task, 1 `suspend()` | 223 k | `MutualExclusion`, `TokenNeverLost`, `NoLostWakeup`, `SuspendHolds`, and `ImplementsAbstract` with fairness |
| `concurrent` | pass | 2 clients, 1 worker, 2 async and 1 sync task, 2 suspends | 867 k | `EveryTaskCovered`, `NoTaskStranded`, `ResumeTakesEffect`, `EveryTaskRuns` |
| `concurrent_suspend` | violation | 2 clients, 1 worker | | `SuspendTakesEffect` fails |
| `work_item` | pass | 3 threads, 2 callbacks, 2 performs | 317 k | `NextExclusive`, `CallbackOnce`, `ReleasedOnce`, `NobodyInside`, `WaitsForOne`, `EveryWaitReturns`, `DestroyEnds` |
| `group` | pass | 3 threads, 1 callback, 2 tasks, 2 waits | 907 k | `CallbackNotForgotten`, `WaitSeesEmpty`, `EveryWaitReturns` |
| `group_early` | violation | 3 threads | | `CallbackAfterTasks` fails |
| `mpmc` | pass | 3 threads, 1 slot, 2 tickets each way | 535 k | `StorageExclusive` and `ImplementsAbstract` with fairness |
| `mpmc_full` | violation | 2 threads, 1 slot | | `GivesUpWhenFull` fails |
| `dynamic_mpmc` | pass | 2 threads, capacity 1, 2, then 3, 5 tickets each way | 225 k | `TicketBound` and `ImplementsAbstract` with fairness |
| `priority` | pass | 1 adder, 2 takers, 2 elements, 2 priorities, all kinds | 330 k | `ReadersCounted`, `TakersServed`, `PriorityRespected`, `EveryElementTaken` |
| `executor` | pass | 2 clients, 3 adds, pool of 2, 3 thread objects, starts that fail | 204 k | `ActiveExact`, `EveryThreadJoined`, `RefsHaveThreads`, `EveryRefTaken`, `StopEnds` |
| `executor_forgotten` | violation | 2 clients, 2 adds, pool of 2 | | `RefsNotForgotten` fails |

That nobody sleeps through a wake-up meant for him is a matter of liveness here: of `EveryTaskRuns`, `EveryWaitReturns`,
and the fairness of the two abstract specifications. The mutants that wake nobody violate them.

Every property of a passing run is also shown to fail for a plausible mistake in the code: the
modules define such mistakes next to what they replace, and `PROJECT.json` pairs them under `mutants`.

### Bounds

- *Threads.* The races of these protocols are between two threads, with a third to be left behind;
  two clients and two workers in `serial` let a worker, a thread in `sync()`, and a `resume()` compete for
  one token. `concurrent` has one worker because workers do not interact except through the counters that
  clients change, too. It also lets a task body call the queue, and as the task of the only worker may be
  the one asleep in `sync()`, a wake-up that is missed there stops all references.
- *Tasks, values, elements* are given out once and in one order, as they differ in nothing but their
  name. Three tasks let one wait behind one that waits behind a running one.
- `MaxSuspends` bounds suspends in effect, not calls: `suspend()` and `resume()` may go on for ever.
  Two let `suspendCount_` pass its boundary in both directions in `concurrent`.
- `MaxTasks` bounds tasks in the group, not calls of `enter()`. `MaxWaits` 2 gives the ticket of a waiter an
  older and a newer `notifyCount_`.
- In `work_item` the third thread can be inside `lock()` while a second performs and the owner destroys; two performs are the least
  for which `WaitsForOne` means something, two callbacks the least for one to be set while another is called.
- `dynamic_mpmc` starts with one slot, its `kExtraCapacity` next to it, and can expand twice, so that tickets of the present and of either closed
  array are in use at a time and the last expansion is cut at `maxCapacity_`. Five tickets reach the third array. `SeqlockSize` 8 is the
  smallest that holds the number of closed arrays; in the code it is 2^6.
- `Capacity` 1 makes every second ticket reuse the slot. `MaxTickets` 2 gives a slot two full turns.
  `WordSize` is far above the tickets; only a negative difference wraps.
- `NumPriorities` 2 with the priorities -128 and 127 exercises both clamps.
- `MaxAdds` bounds the calls of clients and with it the thread objects needed. Three adds fill a pool of
  two, let a thread leave and be joined by a later add, and start another. The safety properties of
  `executor` were also checked with three clients and pools of one to three threads.

The system stops when nobody calls it, so runs do not check for deadlock; that calls which can be served
return is part of the liveness properties.

### Fairness

Every thread that can take a step inside a call, or as a worker, takes one: `WF_vars(Progress(t))`; the
operating system's scheduler gives this. Nobody is obliged to call anything, so `Call` has no fairness.

- In the two queues a task may call its queue any number of times before it returns, so weak fairness of
  the return would be vacuous: `SF_vars(FinishBody(t))` says that tasks return.
- In `Executor`, `SF_vars(SerialEnds(w))` says that no serial queue has tasks for ever, as the worker would stay
  with it. `TimeOut` has no fairness: a thread may but need not time out. Whether `threadListLock_` is fair does not
  matter, since it is held for ever by nobody and the adds are bounded. Threads that fail to start are no fault of liveness:
  `EveryRefTaken` and `RefsHaveThreads` are about executions in which none has (`failed`), the rest holds in spite of it.
- In `WorkItem` a task returns or throws in the end; `TimesOut` of a `tryWait()` and everything that runs callbacks have no fairness.
- In `DynamicMPMCQueue` readers of the seqlock start again when an expansion has come between. Successful expansions are few, failed ones
  need not be, so the fairness of `ImplementsAbstract` is conditioned on allocations that do not fail for ever.
- `EveryTaskRuns` and the refinement of `AbstractSerialQueue` speak of queues that stay active and unsuspended,
  `EveryWaitReturns` of a group that stays empty, `EveryElementTaken` of takers that do not give up.

## The proofs

What the runs show of small instances is proved here for every value of the constants, as theorems about the safety part of each
specification. The assumptions are those named in the modules: threads are finite in number, bounds are natural numbers, and what
stands for "nothing" is none of the things.

| module | theorem | property | what makes it inductive |
|---|---|---|---|
| `SerialQueueProofs` | `TypeCorrect` | `TypeOK` | `TypeInv`: with `BodyRuns`, a thread in a body has a task |
| | `TokenIsUnique` | `TokenUnique` | `TokenInv`: with `DecidesOnly`, a thread that decides what comes next runs nothing, and where it may be when it does |
| | `OneTaskAtATime` | `MutualExclusion` | follows from `TokenUnique`: who executes holds the token |
| | `WakeupNeverLost` | `NoLostWakeup` | itself, with `TypeInv` |
| | `TokenIsNeverLost` | `TokenNeverLost` | `OwnerInv`: with `TasksDistinct`, `SyncCalls` and `SyncHasOwner` |
| | `SuspendIsRespected` | `SuspendHolds` | `SuspendInv`: `Dormant`, nobody is at work in an inactive queue, and `GraceCovers`, `grace` covers the starts that may still come |
| | `QueueImplementsAbstract` | `Abstract!ASafeSpec`, the safety part of `ImplementsAbstract` | `RefineInv`: all of these, with `Known` and `GiverIsOut` |
| `ConcurrentQueueProofs` | `TypeCorrect` | `TypeOK` | `TypeInv`: with `SuspendsCounted`, `suspendCount_` is the number of suspends in effect and of the one about to set `suspend_` |
| | `ResumeIsNotUndone` | `ResumeTakesEffect` | itself, with `TypeInv` |
| | `TasksAreCovered` | `EveryTaskCovered` | itself, with `TypeInv` |
| | `NobodyIsStranded` | `NoTaskStranded` | `Collected`: deferred references are not needed once nobody is about to collect them |
| `GroupProofs`, `WorkItemProofs` | `NextIsExclusive`, `CalledOnce` | `NextExclusive`, `CallbackOnce` | `NextInv`, `OnceInv`: what a thread at work on `next_` finds there |
| `GroupProofs` | `GroupNextIsExclusive`, `GroupCallsOnce` | the same two | a group's steps are steps of `NotifySpec` |
| | `GroupTypeCorrect` | `TypeOK` | `CountInv`: `taskCount_` covers the threads about to subtract from it, `waitCount_` those about to draw a ticket |
| | `CallbackIsNotForgotten` | `CallbackNotForgotten` | `LooksInv` |
| | `WaitSawEmpty` | `WaitSeesEmpty` | `Witnessed`: a ticket that was passed, or a count that was 0, is a moment at which the group was empty |
| `WorkItemProofs` | `IsReleasedOnce` | `ReleasedOnce` | `KeepAliveInv`: the count is the number of tokens, and one thread at most has seen it fall to 0 |
| | `NextIsExclusiveHere`, `CalledOnceHere`, `ReleasedOnceHere` | the same three | the steps of a work item are steps of `NotifySpec` and of `KeepAliveSpec` |
| | `NobodyStaysInside` | `NobodyInside` | `TokenPlaced`, `Alone`: where a thread is that has a token, and that the owner is alone in the destructor |
| | `WaitsForOnePerform` | `WaitsForOne` | `Seen`: of `waited_` and `count_`, each set before the other is read, one is seen |
| | `TypeCorrect` | `TypeOK` | `PerformsCounted`: no perform is counted that was not asked for, or accepted that was not counted |
| `MPMCQueueProofs` | `StorageIsExclusive` | `StorageExclusive` | `TypeInv`, `TicketsInv`, `TurnsInv`, `CellsInv`, see below |
| | `TypeCorrect` | `TypeOK` | `WaitersCounted`: `waitCount_` is the number of threads between registering and leaving |
| | `QueueImplementsAbstract` | `Abstract!ASafeSpec`, the safety part of `ImplementsAbstract` | `BoundInv`, `ContentInv`, see below |
| `DynamicMPMCQueueProofs` | `TypeCorrect`, `TicketsAreBound` | `TypeOK`, `TicketBound` | `IInv`: `Locked`, `Records`, `Capacities`, `Snapshots`, `Bindings`, `LaterBeyond`, see below |
| `PrioritySemQueueProofs` | `TypeCorrect`, `ReadersAreCounted` | `TypeOK`, `ReadersCounted` | `BaseInv`: `Distinct` and `Held`, no element is in two places of the logs or added twice |
| | `PriorityIsRespected` | `PriorityRespected` | `Passed`: what was there when a taker began to look does not wait at a level that it has left behind |
| | `TakersAreServed` | `TakersServed` | `TokenInv`: `Served`, `SeenServed` and `Unread`, see below |
| `ExecutorProofs` | `TypeCorrect`, `ActiveIsExact`, `EveryThreadIsJoined` | `TypeOK`, `ActiveExact`, `EveryThreadJoined` | `IInv`: what `threadListLock_` keeps in step (`Members`, `Locked`, `Pool`), `Phase` before and after `stop()`, `Room` for thread objects, `Readers` |
| | `RefsAreAttended` | `RefsHaveThreads` | `GuessInv`: `Turns`, `InTurn`, `Balance`, `Attended`, see below |

*Serial queue.* `TokenUnique` alone is not inductive: it says nothing about a thread that makes a call from within a task,
whose return to the task would be the return of a second token; `BodyRuns` and `DecidesOnly` tell the two apart.
`TokenNeverLost` is about the token of a sync task, which lies in a semaphore: it is lost unless somebody waits for that
semaphore. Hence `SyncHasOwner`, that every sync task in the queue or granted has a thread waiting for it, which needs
that tasks are distinct, and that a waiting thread makes no calls in between but `notifyNextWork()`.

`SuspendHolds` is about threads that have read `suspendCount_` before a `suspend()`: each of them (`Late`) leads to one start at most (`LateStarts`), directly
or through the semaphore of a sync task, and `grace` is no less. For the refinement, a task that was granted or handed to a thread and has not started is still
`Pending` in front of `taskQueue_`. As the token is unique there is one at most (`Seen`), so that a pop and a grant stutter, and a start takes the first of `Pending`. `Known`,
that tasks in hand were submitted, types the abstract state; `GiverIsOut`, that while a task is granted not every thread is about to take the token back, keeps `grace` within the bound
of the abstract module, the number of threads (`LateBounded`).

*Concurrent queue.* `suspend()` and `resume()` set a counter and then a flag. A `resume()` only balances a `suspend()` that has returned,
so while a `suspend()` is between its two steps the counter is at least 1, and no other call is there (`SuspendsCounted`); the `resume()` that brings the
counter to 0 comes after the store and has its own still to do. The converse fails: `concurrent_suspend` finds the late store of a
`resume()` undoing the next `suspend()`.

`EveryTaskCovered` counts the references in the executor, in `taskToNotify_` and in the hands of threads (`Totals`), and every step that takes one from one place puts it
into another. For `NoTaskStranded` the deferred ones must not be needed: `Collected` says that in an active, unsuspended queue either a call that changed a flag will still collect them,
or the tasks are covered by the references in the executor, in hand, and of threads that deferred one and will look at the flags again (`Sights`).

*Notify and keep-alive* are proved by themselves, over specifications in which any thread takes any step of the protocol at any
time. The part on `Notify` stands at the head of both `GroupProofs` and `WorkItemProofs`. `UsesNotify` and `UsesKeepAlive` then say that a work item takes no step on their variables but theirs, `GroupUsesNotify` the same of a
group, and the theorems carry over.

*Fixed queue.* The argument goes from tickets to turns to storage. `TicketsInv`: every ticket is given out once, and the log
has the value of each push ticket. A ticket determines a slot and a turn and is determined by them (`SlotTurn`), so two threads that both
find their turn in one slot have the same ticket and are the same thread (`OneHolder`). `TurnsInv`: the turn of a slot stays that of the thread that
has found it until this thread passes it on. `CellsInv`: a slot is full when its turn is odd, except between the access and the store of the new
turn, when it is the other way round; hence a writer never finds a value and a reader always one. For the refinement, `ContentInv` adds that a full slot holds the value of
the ticket that its number and turn spell (`Place`), and that the turn of a delivered ticket has passed, so that no ticket is stored twice. The steps fall into six kinds (`StepKinds`), of
which four are steps of the abstract queue and two stutter: in particular, passing the turn on does not change which ticket the slot stands for as long as there is a
value in it. An access happens at an empty slot, which leaves at most `Capacity - 1` values elsewhere (`RoomLeft`). `BoundInv` keeps tickets within the `Places` of the abstract module.

*Dynamic queue.* A thread reads `dstate_`, `dslots_` and `dcapacity_` one after the other and trusts them if `dstate_` has not moved; else it reads `closed_`, which another thread may be
extending. `Locked`: `dstate_` is odd just while one thread holds the lock, which found it as it remembers and is the only one to write the rest. `Records`: each array has its number and the first begins with
ticket 0. `Snapshots` is the seqlock: what was read belongs together if `dstate_` is still what it was, since it only ever rises. `Capacities`: each array is larger than
the one before and smaller than the limit, so the closed ones have different capacities among those the constructor foresaw (`Growing`), and there is a record left for one more (`RoomToClose`).
`Bindings`: `maybeUpdateFromClosed()` goes back to the last array whose offset is not beyond the ticket, and that is the one the ticket belongs to (`BindingRight`). It stays so (`LaterBeyond`): `tryExpand()` lets the new array begin beyond
both counters as it reads them with the lock held, and whoever has looked at `dstate_` before has a ticket below them. `Growing` is stated as the least set that is closed under multiplication, as powers are out of the
provers' reach.

*Priority queue.* `TakersServed` is a property of quiet states, in which nobody can move. Its invariant compares sizes in all states: what waits at a level or above it (`Open`) is no more than
the tokens in the semaphore, the adders that owe one (`Owed`), and the takers that have yet to look there (`Carriers`). A taker that passes a level because it seems empty ceases
to be a carrier of it, and for the dynamic queue the level *is* empty then, as `pushTicket_` is loaded last. In a fixed queue it need not be; with a single caller, though, an element that it does not see (`Beyond`) was pushed
after its look, so a token for it is in the semaphore or owed (`SeenServed`). In a quiet state nobody owes a token: an adder that sleeps in a full queue waits for a reader that has claimed its slot,
by `Unread` that reader waits for an element that was written, which is no reason to wait (`StuckWriters`). `readCount_` is exact since a taker counts itself before its first look and takes itself back when it gives up (`After`).

*Executor.* `IInv` is about `threadListLock_`: with it free, `activeThreads_` is the size of `threadList_`; with it held, one off. Promises to join are
handed from `threadsToJoin_` to the thread that is to keep them under the lock, and kept once. `Room` bounds thread objects by adds, so that one is free when a thread is started.
That a thread is attended to is a comparison of counters that were read at different times. Without overtaking, calls compare in the order in which they counted (`InTurn`), so whatever was counted later is still on its way when a call compares. With
`Balance`, that references pushed or in flight and those taken make up `writeCount_`, a call that finds `readCount_` ahead of its own count is right that a worker looks for its reference, and a call that does not starts one: so
the references are never more than the workers that look and the calls that have not compared or are about to start one (`Attended`). A worker that times out takes itself out of `readCount_` before it looks a last time.

Out of the prover's reach, and left to TLC: liveness, as it needs `ENABLED` (`EveryTaskRuns`, `EveryWaitReturns`, `DestroyEnds`, `EveryElementTaken`, `EveryRefTaken`, `StopEnds`, and the
fairness parts of the three properties `ImplementsAbstract`); and what recursive functions compute on all inputs, of which these modules have none that matters.

Only model-checked so far: the safety part of `ImplementsAbstract` of `DynamicMPMCQueue`. Every invariant of the runs is proved.

## What the runs found

Four runs show the code doing something else than a comment or a test of the repository says;
`PROJECT.json` has the quotations under `findings`.

1. `concurrent_suspend`: `resume()` lowers `suspendCount_` to 0 and clears `suspend_` in a second step. A complete
   `suspend()` in between is undone by it: the queue runs on although `suspendCount_` is 1
   (`DispatchConcurrentQueue.cpp:67-68`).
2. `group_early`: the last `leave()` calls `doNotify()` some time after it lowered `taskCount_` to 0. If the group is
   filled again and a callback is registered meanwhile, the callback is posted while its tasks run
   (`DispatchGroup.h:59-63`).
3. `mpmc_full`: `ssize_t < size_t` in `writeIfNotFull()` is an unsigned comparison. While a reader waits in an empty
   queue the queue counts as full, for every writer of this kind (`TaskQueue/MPMCQueue.h:178`).
4. `executor_forgotten`: an add that was counted first and pushes last compares its old count with the present
   `readCount_` and believes a thread is free (`TaskQueue/PrioritySemMPMCQueue.h:61`). If the threads time out meanwhile, the
   reference stays in an executor without threads until the next add. `RefsHaveThreads` shows, on the instance of the run `executor`, that this is the only way: if
   no add pushes while one that was counted earlier has yet to compare, the guess is right, and `RefsAreAttended` proves it for every size of the pool.

Observed while modelling, with no run of its own:

- Without an order between the store and the load, `notify()` of a group may leave a callback published in an empty group
  (`DispatchGroup.h:69`), and `completeTurn()` may overlook a sleeper (`TaskQueue/MPMCQueue.h:56-57`): `CallbackNotForgotten` of the group
  and the fairness of `MPMCQueue!ImplementsAbstract` need `~overtaken`.
- Over fixed queues, `readIfNotEmpty()` may say empty because another taker took an element between its two loads, although there is a newer
  one. The taker has spent its token, and sleeps with an element in the queue (`TaskQueue/PrioritySemMPMCQueue.h:72-76`). The executor uses the
  dynamic queue, for which `TakersServed` holds; for fixed ones it is stated for a single taker.
- `func_` is a plain shared pointer that `cancel()` and the destructor reset (`DispatchWorkItem.h:272-275, 341-344`) while `perform()` may copy it
  (`:296`, `:312`), a data race.
- A perform that is refused because of a `wait()` throws (`DispatchWorkItem.h:80`). If a queue performs the item, the exception leaves
  `performWithQueue()`, which is `noexcept` (`DispatchTask.h:62`), and the program ends. `waited_` stays set when `wait()` returns or throws, so
  that one wait is enough to have later performs refused.
- A thread that reads the seqlock of the dynamic queue starts again whenever an expansion was tried meanwhile. If allocations fail for ever it may
  never get on.
- A write whose ticket belongs to a full closed array waits for a reader of that array, although the queue has grown since.
- If `std::thread` fails to start, `async()` throws although its task is in the queue; the reference is served when another add starts a thread.
- `addWithPriority()` that throws because its queue is full has counted the element already (`TaskQueue/PrioritySemMPMCQueue.h:50`), and from then
  on `writeCount_` is ahead.
- `suspendCheck()` may read a count of 0, and a `suspend()` follow before the pop: one more task starts, which
  `tests/SerialTest.cpp:171` does not expect. `SuspendHolds` is exact about how many can.
- A callback is posted before `state_` is set back to none, so a callback that sets the next one may get
  "can't notify twice" (`DispatchWorkItem.h:219`, against `:285-286`).
- `readIfNotEmpty()` of the fixed queue may report an empty queue that never was empty (`TaskQueue/MPMCQueue.h:199`).
- A worker stays with a serial queue as long as it has tasks, so references of other queues are not served first come,
  first served, which the repository's `README.md` promises.
- `join()` of the executor, which nothing in the repository calls, may leave a reference unserved: a worker that looked for references
  before one was pushed may find poison after it.

## What is left

Not modelled:

- *Task*: packaging of functions, promises and results, which is data.
- *Keep-alive* of queues and groups: their objects outlive the calls made on them here. That of work items is in `WorkItem`, that of the executor
  in `Executor`.
- Allocations that fail outside the dynamic queue; 32-bit overflow of the tickets of a group, after 2^32 waits.
- Weak memory other than the store-load pairs named above, in particular in the seqlock.
- Several queues over one executor, with workers blocked in `sync()`.
- Tests, benchmarks and build files are no part of the program; they were read for what they expect of it.

Taken as one step, or left out, where no property depends on it:

- `PrioritySemQueue`: the dynamic kind never fills up and never waits, though the code bounds it by `maxCapacity_` and lets a write bound to a full
  closed array wait (`TaskQueue/MPMCQueue.h:357-368`; `DynamicMPMCQueue` has that wait). `Push` is the successful claim of a ticket, without the tries that
  fail before it, and `Throw` follows the number of elements where `MPMCQueue.h:178` compares unsigned, so that a refusal because
  of a reader that is ahead is missing (`MPMCQueue` has it, and `mpmc_full` shows it).
- `Executor`: `FindNoRef` and `SizeCheckFails` look at all priorities at once, the code at one after the other
  (`TaskQueue/PrioritySemMPMCQueue.h:98-104, 115-122`; `PrioritySemQueue` has the steps). `StopAll` pushes all poison in one step: an executor made with the
  constructor of fixed capacity might have to wait there with `threadListLock_` held. `Stops` has no branch for a worker that finds poison, or the
  queue stopped, with `threadsToStop_` at 0, as `EveryThreadJoined` excludes it.

Order of the modules, and what comes next:

1. done: `AbstractSerialQueue`, `SerialQueue`, its proofs; `ConcurrentQueue`; `Notify`, `Group`; `AbstractTicketQueue`, `MPMCQueue`;
   `PrioritySemQueue`; `Executor`.
2. done: `KeepAlive`, `WorkItem`; `DynamicMPMCQueue`; threads that fail to start in `Executor`.
3. `SerialQueue`, `Group` and `Executor` composed: a group is left when the tasks entered through `async()` have run, and a pool
   whose workers all block in `sync()`. Destruction of queues with tasks in them.
4. Proofs: done for every invariant of every module, with the refinements of `AbstractSerialQueue` and of `AbstractTicketQueue` by `MPMCQueue`; next, that of
   `AbstractTicketQueue` by `DynamicMPMCQueue`, from `TicketBound`.
