# AVR-OS in TLA+

A verification development for AVR-OS, a preemptive real-time kernel for AVR
microcontrollers: models of the kernel in TLA+, TLC configurations that check them on small
instances, and theorems that TLAPS proves for instances of any size.

## The system

One processor, one tick interrupt, any number of tasks with priorities 1-254 and an idle task
(`main()`, once it has called `osRun`). The kernel has no thread of its own: its code runs inside
the calls of tasks and of interrupt handlers, with interrupts disabled (`OS_CRITICAL`), and the
only way from one task to another is `osDispatch`, which saves the current task and continues the
first one on the ready list.

| Component | State | Operations | Talks to |
|---|---|---|---|
| scheduler (`scheduler.c`) | `osCurrentTask`, `osReadyList` by priority, `osTimerList` by time left, `osTicks`, `osAging`; of each task `state` with its flags, `result`, `priority`, `waitList`, `wake` | `osSchedule`, `osBlock`, `osWake`, `osReady`, `osUnblock`, `osRequeue`, `osPriorityRaise`, `osDelay`, `osYield` | called by everybody below |
| tick (`osTickHandler`) | the same | timeouts, timers, aging, round robin | the timer interrupt |
| tasks (`tasks.c`) | `basePriority`, the list of owned mutexes | create, delete, exit, suspend, resume, set priority | scheduler, mutex |
| mutex (`mutex.c`) | `owner`, `waiters`, `nextOwned` | lock, try lock, unlock, release all | scheduler; its list order and the chain of owners belong to `osPriorityRaise` |
| semaphore (`semaphore.c`) | `count`, `limit`, `waiters` | take, give, give from an interrupt | scheduler |
| queue (`queue.c`) | ring buffer, `head`, `count`, one list for senders or receivers | send, receive, both from interrupts | scheduler |
| event (`event.c`) | eight flags, `waiters` with what each wants | wait, set, clear | scheduler |
| timer (`timer.c`) | `osTimers` by time left | start, stop, callbacks from the tick | the tick |
| dynamic tasks (`tasks.c`, `system.c`) | `osDeadList`, `osTaskReaper` | create on the heap, reap | idle loop, heap |
| memory (`memory.c`) | pool free list, heap | allocate, free | dynamic tasks |
| start and idle loop (`system.c`) | | `osInit`, `osRun` | all |
| context switch (`asm.c`, `asm.h`) | registers, stacks, the interrupt flag | `osPortStackInit`, `osPortTaskStart`, `osPortSwitch`, `OS_CRITICAL`, `OS_ISR` | scheduler, interrupts |
| application (`main.c`) | two numbers, a mutex, a queue | four tasks | mutex, queue, scheduler |

### What is hard

* **Interleaving.** Every call of a task is one critical section, but a call that blocks is two: what
  follows `osBlock` runs when the task is current again, after any number of calls of others. The
  tick and other interrupts arrive between any two calls. A handler without `OS_ISR` makes tasks
  ready without calling the scheduler.
* **Lists.** A task is on the ready list, or on a wait list, the timer list or both; which ones has to
  be read off its state byte. Every change of a priority has to keep the lists in order, except
  aging, which relies on changing them consistently.
* **Priorities from three sources**: base, inherited through chains of mutexes, lent by aging. Each of
  them ends at its own time, and `osSettle` recomputes one from the others.
* **Time** is a 16 bit counter that overflows.
* **Handover.** A mutex, token, message or flag is given to a waiting task before that task runs. Until
  it does, it may be suspended, deleted or given another priority.
* **Starvation**, which aging is there to prevent.
* **Critical sections** that nest: in handlers, across a switch from a call to a handler and back, and at the first
  instruction of a task that has never run.

### What makes each component correct

* scheduler: a task is on exactly the lists its state says; lists are ordered; the most important ready
  task runs; equals take turns; there is always somebody to run.
* tick: a timeout expires on its tick and never early or late; no ready task starves; aging never delays
  a task above the limit.
* mutex: one owner, and it knows; no waiter without an owner alive; no priority inversion through any
  chain; nobody is lowered too far.
* semaphore: no token is lost or made up; nobody waits while there is a token; the most important waiter
  gets it.
* queue: first in, first out, nothing lost or duplicated, bounded by `length`, nobody waits without reason.
* event: nobody waits for flags that are there; flags are consumed once.
* timer: a callback is called on its tick, as often as it should, whatever callbacks do to timers.
* dynamic tasks and memory: what is freed is not in use, what is dead gets freed; a block of a pool has one user.
* context switch: a task does not notice that it was away; its stack is as deep as its own calls and one interrupt.
* periodic tasks: the time a task takes does not add up, and a period is waited for unless it is over.
* application: the numbers agree under the mutex; the blinking task is on time whatever the others do.

## Modules

* `Kernel.tla` - the kernel as one record `k` and every kernel function that runs with interrupts disabled
  as an operator from record to record, in the order of the source. A linked list is a sequence; `next`
  pointers are its order. A function that calls another applies its operator, so that each operator is a
  whole handler. `osPriorityRaise` is the loop of the code through a chain of owners, given as many
  steps as there are mutexes and one; that the loop without a bound ends by itself and in the same record is checked
  (`RaiseIsTheLoop`).
  The module also defines what it means for lists and tasks to agree.
* `Scheduler.tla` - the scheduler, the tick and the tasks: any sequence of calls of the current task, `osDelayUntil`
  with any lateness included, resumes from both kinds of interrupt handlers, ticks. `pending` and `left` are history
  variables: whether a plain handler made a task ready, and how many ticks each delay has to go, counted in
  integers.
* `Application.tla` - what tasks and handlers do besides using the objects below: create, delete, suspend,
  resume, change priorities, delay, tick. A call that blocks is two steps, `Blocks` up to the switch in
  `osBlock` and `Returns` from there; `call` is where a blocked task will continue, and while the second
  step is due nothing else happens, because interrupts are still disabled.
* `Mutex.tla`, extends it - mutexes with tasks that lock, give up and unlock. `owner` is part of `k`, since the
  kernel walks it; `holds` is a history variable, what each task has been told it locked.
* `Semaphore.tla`, extends it - `count`, take, give by a task (`Give`) and by a handler that does not schedule
  (`GiveFromISR`). Refines `TokenPool.tla`: a token is in the pool, on its way to a thread or taken. The mapping
  derives the phase of a thread from `call`, its state and its `result`.
* `Queue.tla`, extends it - the ring (`buffer`, `head`, `count`), the handover of a message to a waiting receiver
  and from a waiting sender. `item` is what `task->wait.item` points to. Refines `Channel.tla`, a bounded channel
  whose sequence is the ring read from `head`.
* `Event.tla`, extends it - flags, and what each task wants or got in `wait`. `Served` is the walk of
  `osEventSetFromISR` over the list whose tasks it takes off.
* `Periodic.tla`, extends it - tasks that keep the `previous` of `osDelayUntil` and are suspended and resumed meanwhile.
  `ahead` is a history variable: how far away a task's next wake-up is, counted without overflow.
* `Main.tla`, extends it and instantiates `Mutex.tla` and `Queue.tla` over the same kernel record - `main.c`. `pc` is the
  statement a task is at, an action is one statement; a call that blocks returns by `LockReturns` or `WaitReturns`.
  The increments of `a` and `b` are two statements, so every interrupt between them is there.
* `Timer.tla` - software timers. A tick is a step that counts and then a walk: `Expire` takes a timer off the
  list, puts it back if it is periodic and calls its function; until `FunctionReturns` the function may start
  and stop any timer. Refines `Alarms.tla`, which has no list and no tick counter, only the number of ticks
  that each timer has to go.
* `Dynamic.tla` - tasks on the heap. `osTaskCreateDynamic`, `osTaskReap` and the idle loop run with interrupts
  enabled, so their programs are interleaved at every critical section; `at` is the place of each thread in
  its program, `local` the block it has in its hands. `osTaskReaper` is written and read a byte at a time, and
  modelled as the set of its bytes that have been written. Priorities are left out: any task that is not
  asleep may run, which allows every order the scheduler does and more.
* `Processor.tla` - below the kernel: registers, stacks, the interrupt flag and `asm.c`, with an action per instruction
  wherever an interrupt may come in between. A register is in one of two groups, those a function preserves
  (`kept`) and those a call may lose (`scratch`), because `osPortSwitch` saves the first, an interrupt the second and a
  task that is preempted relies on both. A frame of a stack is a return address with the registers saved on top.
  `SP` is the stack in use, `osCurrentTask` the task the kernel believes is running and `sp` what it has saved of the
  others; that they agree is a property, not an assumption. Tasks yield, leave, are created again in the memory of
  one that left, and use the memory pool, whose list (`free`, and links in `memory` that users overwrite) is read
  and written in steps. Interrupts do the same in a handler and end with `osSchedule`. Which thread is switched to is
  left open. Refines `BlockPool.tla`; `hands` is a history variable, the block each user was given.
* `MC*.tla` - symmetry sets for TLC, and in `MCProgress.tla` the three systems of `Progress.cfg`; `MCMutex.tla` also has `osPriorityRaise` as the recursion of the code, with no bound.
* `KernelProofs.tla` - lemmas about sequences without duplicates, and one lemma per kernel function: what it does to an
  inductive invariant of the record. `ApplicationProofs.tla` - the same for the steps of `Application.tla`.
  `SchedulerProofs.tla` (with the timers), `SemaphoreProofs.tla`, `QueueProofs.tla`, `EventProofs.tla`,
  `MutexProofs.tla`, `ThreadProofs.tla` (the processor and the tasks on the heap) - the theorems.
* `Threads.tla`, `Ticks.tla` - the constants that several modules share, so that one module can prove theorems about two of them.

```
Kernel <- Scheduler
Kernel <- Application <- Mutex
                      <- Semaphore => TokenPool
                      <- Queue     => Channel
                      <- Event
                      <- Periodic
                      <- Main (with instances of Mutex and Queue)
Ticks <- Kernel, Timer
Threads <- Kernel, Dynamic, Processor
Timer => Alarms
Processor => BlockPool
```

(`<-` is extended by, `=>` implements.)

A definition introduced by `\* Mutant:` is a plausible mistake in the definition that follows it. Substituted
for it, it makes a property of some run fail, which shows that the property depends on the code.

## Runs

| Run | Instance | Question |
|---|---|---|
| `Scheduler.cfg` | 3 tasks, priorities 1, 2, 4, ticks modulo 5 from 3, delays 0-2 and forever, aging every 2 ticks up to 3 | lists, order, deadlines, turns (safety) |
| `SchedulerSuspend.cfg` | the same without symmetry | a task that suspends itself keeps what aging has lent it: finding 3 |
| `Mutex.cfg` | 3 tasks with priorities up to 2, 2 mutexes, aging on every tick up to 2, locks that wait 1 tick; delete, suspend, changes of priority | is there one owner that knows, does it hurry, do aging and inheritance go together, is `osPriorityRaise` the loop of the code? |
| `MutexSuspend.cfg` | a task may be suspended between handover and running | the result is wrong: finding 1 |
| `PeriodicSuspend.cfg` | periodic tasks that are suspended and resumed | a call returns before its tick: finding 2 |
| `Main.cfg` | `main.c` with a queue of 2, periods of 2, 1 and 2 ticks, aging on every tick | do the numbers agree, is the period kept? |
| `Semaphore.cfg` | 3 tasks, 1 of 2 tokens, aging, all calls | is it a pool of tokens, and is the most important task served? |
| `Queue.cfg` | 2 tasks, length 2, 2 messages, all calls | is it a bounded channel? |
| `Event.cfg` | 2 tasks, 2 flags, any, all and keep, all calls | is anybody overlooked, is a flag taken twice? |
| `Progress.cfg` | 3 timers, ticks modulo 4 from 2, delays 0, 2, 3, periods 0, 2 | does every timer go off on its tick, does the interrupt end? |
| | 2 tasks on the heap, 1 static task | is memory freed once and only when unused, are the dead reaped? |
| | 3 tasks, priorities 1, 3, aging every tick, ticks modulo 4 | does every ready task run? |
| `DynamicReaper.cfg` | 2 tasks on the heap, 1 static task | the idle task calls half an address: finding 4 |
| `Processor.cfg` | 2 tasks, main(), interrupts, a pool of 2 blocks | are registers, stacks, interrupt state and the pool what each believes? |

**Bounds.** Three tasks and the idle task are enough for a chain of two mutexes with one more task to invert
priorities, for one task passing another on a list that has a third, and for two expiring on one tick.
Three distinct priorities separate less, equal and more. A tick counter modulo 5 with delays up to 4 has every
order of two deadlines on both sides of the overflow; it starts shortly before it (as `OS_CFG_TICK_START`
allows). In the runs of queue and event the idle task (which may call everything that does not wait) and
handlers are the third party to two tasks; a ring of two has a position that wraps and one that does not, and
can be empty, full and neither; two flags tell any from all. Three timers are one that goes off, one behind
it on the same tick and one to insert between or after them. Two blocks are one to leak, be freed twice
or be in use while the other is reaped, with three threads and the idle task to do it. Two tasks and main() are
one to be preempted, one to preempt it and one to go on in between, each at any instruction, and three users of
two blocks meet an empty pool. In `Main.cfg` the queue never fills: the receiver is more important than the sender
and waits whenever it can; the full queue is the question of `Queue.cfg`. Locks in `Main.cfg` wait for ever. Those in
`Mutex.cfg` may give up, so that a waiter leaves either list or both; ticks are not forced, so a wait may also outlast
any number of calls of the others. No run needs a state constraint: all variables are bounded by the code, except that
`Main.tla` counts the numbers modulo `Wrap` and lets `task01` be at most `Late` ticks late, and that in `Periodic.tla` nobody is
late by more than the counter can tell.

`Progress.cfg` runs `Timer.tla`, `Dynamic.tla` and `Scheduler.tla` side by side (`MCProgress.tla`): a behaviour is one of one
of them, chosen at the start, so its states are those of the three and not their product.

**Fairness** is assumed by one run, `Progress.cfg`. Each of the three systems has its own.

* `TickFairness` in `Scheduler.tla`: `main()` gets to `osRun` and the timer interrupt keeps coming, which the hardware
  does once `osRun` has started it. Nothing is assumed of the tasks: a busy task may never call the kernel,
  and does not have to for the others to run. The run is made with round robin: without it nobody takes turns
  once tasks have aged to `OS_CFG_AGING_LIMIT`.
* `TimerFairness` in `Timer.tla`: a tick interrupt that has begun goes on. Functions of timers return, as they have to in any
  interrupt handler. Ticks themselves are not fair, nobody waits for them here.
* `IdleFairness` in `Dynamic.tla`: `main()` gets to `osRun`, and the idle task makes progress if it is dispatched again and again
  (strong fairness: the processor executes an instruction of the interrupted program between two
  interrupts). That all tasks sleep again and again is a premise of the property, not an assumption.

**Deadlock** is checked in every run.

**Not all calls everywhere.** `MaySuspendWoken = FALSE` keeps applications from suspending a task between the
handover of what it waits for and its next step: finding 1 shows what happens to a mutex then, and it would
hide everything else in the other runs. A token or a message that is on its way to a task is lost if the task is deleted,
since `osTaskDelete` passes on mutexes only (`tasks.c:118`); `TokenPool.tla` and `Channel.tla` say so (`DieWithToken`, `Die`), and
the runs check that it is lost in no other way. A task does not lock a mutex it owns (`README.md` of the repository, line 87, has
mutexes as not recursive); `main()` may before `osRun`, with a timeout, as `test_idle.c:137` does. The idle task is deleted
and suspended by everybody, to no effect (`SpareIdle`), but is not given a priority: `osTaskSetPriority` does not check for it,
and nobody in the repository does that.

## Findings

1. `osTaskSuspend` sets `result = false` for any task, also for one to which a mutex has been handed over already
   (`tasks.c:154`). The task is told that it timed out and owns the mutex.
2. `osDelayUntil` takes a wake-up that is more than a period away for one that is over (`scheduler.c:338`). A task that
   was suspended in its sleep and resumed early is such a case: its next call does not wait, nor do those after it, each
   of which moves the wake-up further away, until it has gone all the way around the counter.
3. `osTaskSuspend` of the current task dispatches without `osSettle` (`tasks.c:157`). The task gives the processor away and
   keeps the priority that aging has lent it, also when it is resumed, although "priority gained by aging lasts until the
   task gives the processor away" (`scheduler.c:145`, `AgedPriorityEnds`). All other ways but being deleted do
   settle it (`SettledUnlessSuspended`).
4. The idle task reads the two bytes of `osTaskReaper` with interrupts enabled (`system.c:91`). If the first task on the heap
   is created by a task, as in `test_tasks.c` and `test_stress.c`, and not by `main()`, it may read one byte before and one after the write
   and call an address that is half of `osTaskReap` (`ReaperIsCalled`). What is executed then nobody knows; `Dynamic.tla` leaves the idle
   task there (`Lost`), and `DeadAreReaped` promises nothing for it.

Things that no run is about. A task that gives up waiting lowers the owner it waited for, not the owners further down
the chain, which keep the boost until they unlock or are settled (`mutex.c:74`). A task
that is deleted between taking a dead one off `osDeadList` and freeing its memory takes that memory with it
(`tasks.c:283`); `DeadAreReaped` promises that the dead leave the list, and no more.

## Proofs

Every theorem holds for any numbers of tasks, objects, priorities, ticks and any configuration that satisfy the named
assumptions of the modules. Two of them are the price of a proof and say no more than the code does: that there are finitely many
mutexes (`KernelAssumption`; otherwise `osPriorityRaise` might walk for ever) and that the object a queue is
represented by is not also a mutex (`QueueAssumption`).

**The kernel** (`KernelProofs.tla`). `KernelInv` says of a record that it has its types, that its lists and tasks agree, that the
ready list and all wait lists are ordered by priority, and that the idle task is running or ready. Its parts need each
other: that `osDispatch` finds a task needs the idle task to be on the ready list whenever it is not running, that a
task is removed from the right list needs its state byte to agree with the lists, types of sequences need both, and that a list
stays ordered when a priority changes needs to know which list the task is on. There is one lemma per
kernel function. Inside a function the invariant does not hold: between taking a task off its lists and putting it
on another the task is on none. `Off(k, t)` is the invariant for a kernel with `t` in transit, and the lemmas say which function
goes from one to the other: `osUnblock` leads from `KernelInv` to `Off`, `osReady` back. The lemmas also say
whom a function leaves alone (`Same`, `Only`), whom it gives something to (`Given`) and whom it tells that it was in vain
(`Expired`, `InVain`), which is all that the objects have to know of it. What a loop of the code does (the timeouts of a tick, the mutexes of a
deleted task, the walk of `osPriorityRaise`, that of `osEventSetFromISR`) is a recursive function, and what it keeps is
proved by induction, through the least counterexample.

**Scheduler** (`SchedulerProofs.tla`, of `Scheduler!Spec`). The invariant is `KernelInv` and `Top`: nobody on the ready list is
more important than the current task, unless a plain handler made a task ready (`pending`). `Top` is `MostImportantRuns`, and inductive only
because the list is ordered, as the scheduler looks at the first task only.

* `TypeCorrect`: `Spec => []TypeOK`
* `ListsCorrect`: `Spec => []ListsExact`
* `ReadyListIsSorted`: `Spec => []ReadyListSorted`. Aging raises tasks where they are on the list. That keeps the order
  because of two tasks in order the first one is raised whenever the second one is and they are equal.
* `MostImportantAlwaysRuns`: `Spec => []MostImportantRuns`
* `IdleAlwaysAvailable`: `Spec => []IdleAvailable`
* `AgingNeverDelaysTheImportant`: `Spec => []AgingNeverDelays`, and `AlwaysSettledUnlessSuspended`: `Spec => SettledUnlessSuspended`, an action
  property. Without mutexes a priority has no other reason to be above its base than aging, and is then at most the limit (`Plain`).
  `Ends` says of each kernel function that it hands the processor on only after `osSettle` or with the current task removed.
* `PeriodsAlwaysKept`: `Spec => []PeriodsKept`, about what the two subtractions modulo `OS_TICKS` in `osDelayUntil` make of any
  lateness and any period. `TicksLeft` computes the difference for a period that is over and one that is not, and
  `UntilIsDelay` concludes that the call is a delay by the rest of the period, or no delay. A rest equal to `OS_WAIT_FOREVER`
  cannot occur for periods shorter than that.
* `DeadlinesAlwaysExact`: `Spec => []DeadlinesExact`. `Exact` says it of a kernel and any count of ticks. Functions that have nothing to do with
  timers leave the list alone (`Untimed`), a delay inserts a timer where its deadline belongs (`InsertExact`), waking and deleting a task take
  its timer off (`UnblockWithout`), and one tick later all have one tick less to go (`OneTickLess`). The loop of the tick
  looks at the first timer only: since the list is in order, those it takes off are those with one tick left, and nobody else (`TimeoutsExact`).
* `AlwaysWokenOnTime`: `Spec => WokenOnTime`, an action property, of the same invariant: no other function makes a blocked task ready (`NextTimely`).

**Timers** (`SchedulerProofs.tla`, of `Timer!TimerSpec`, by the arithmetic of the timeouts). `TimerInv`: nobody is on the list twice, the list is in order of the
ticks its timers have to go, and outside of the tick interrupt nobody on it is due.

* `TimerTypeCorrect`: `TimerSpec => []TimerTypeOK`
* `TimersAlwaysOnTime`: `TimerSpec => TimersOnTime`, the refinement of `Alarms.tla`: each step of `timer.c` is one of an alarm or none (`NextTimer`). The tick may count on:
  `osTimerTick` returns when the first timer is not due, and then none is (`TimerListTail`).

**Application** (`ApplicationProofs.tla`). `ApplicationInv` is `KernelInv` for the variables of `Application.tla`: a task
waits for an object only inside a call. `ApplicationStep`, `BlocksStep`, `ReturnsStep` and `GivesStep` prove its four kinds of steps once for semaphores,
queues and events.

**Semaphore** (`SemaphoreProofs.tla`). In addition nobody waits while `count` is not zero.

* `SemaphoreTypeCorrect`: `Spec => []TypeOK`
* `SemaphoreIsAPool`: `Spec => PoolOfTokens` if `~MaySuspendWoken`: every step is one of `TokenPool` or none under the mapping of
  `Semaphore.tla`. `PhaseSteps` says what a step that changes states and results of tasks does to the phases derived from them.
* `MostImportantIsServed`: `Spec => MostImportantServed` if `~MaySuspendWoken`, an action property: `Waiters` says that nobody is more important than the
  first task on the list.

**Queue** (`QueueProofs.tla`). In addition whoever waits either receives and the queue is empty, or sends, still has its
message, and the queue is full.

* `QueueTypeCorrect`: `Spec => []TypeOK`
* `WaitersAlwaysMatch`: `Spec => []WaitersMatch`
* `QueueIsAChannel`: `Spec => BoundedChannel` if `~MaySuspendWoken`. `RingAppend` and `RingTail` say that writing at `head + count` and
  moving `head`, with the conditional subtraction of the code, append to and take from the sequence the ring stands for.

**Event** (`EventProofs.tla`). In addition whoever waits is not satisfied with the flags that are set.

* `EventTypeCorrect`: `Spec => []TypeOK`
* `NobodyIsOverlooked`: `Spec => []NobodyOverlooked`. One pass over the list is enough, since flags are only taken while it goes on, and who is not
  satisfied with more flags is not with fewer (`MatchMonotone`).
* `FlagsAreTakenOnce`: `Spec => FlagsTakenOnce`, an action property.

**Mutex** (`MutexProofs.tla`). In addition a task waits for the mutex it is in a call for, the list of mutexes of a task are
those it owns (`Bookkept`), and it owns those that it holds or is about to be told of (`Told`).

* `MutexTypeCorrect`: `Spec => []TypeOK`
* `MutexListsCorrect`: `Spec => []ListsExact`
* `MutexListsSorted`: `Spec => []ListsSorted`, for all chains and cycles of owners that `osPriorityRaise` may walk.
* `ResultsAlwaysTruthful`: `AlwaysTold => (Spec => []ResultsTruthful)`. `AlwaysTold` excludes what finding 1 is about, and deleting
  tasks in a configuration without inheritance: there the kernel does not know which mutexes a task owns, and cannot release them.
* `OwnerAlwaysHurries`: `Spec => []OwnerHurries`. `OwnerHurries` is not inductive: that the loop of `osPriorityRaise` finds the next owner
  needs the flag of a task to say whether it waits for a mutex (`Flagged`), that `osInheritedPriority` looks at all waiters needs the lists of mutexes to be complete
  (`Listed`) and the lists of waiters to be sorted, and that a task which falls to its inherited priority does not fall too far needs
  the base priority to be the least (`Based`). `Fine` is all of that. `RaiseFine`, `LowerFine`, `SettleFine` and one lemma for each kernel
  function keep it; the raise is the case where tasks further up the chain are below those that wait for them while the loop goes on. `osRun`, which takes its priority
  from `main()`, keeps it because nobody waits for `main()` before (`Starting`), which in turn holds since nobody is more important.
* `NeverInverted`: `Spec => []NoPriorityInversion` if `~MaySuspendWoken`. `WaitedForHurry`: by induction on the length of the chain, everybody a task waits for is at
  least as important. One of them that could run is on the ready list, and the current task is as important as everybody
  on that (`Leading`). `LeadingNext` keeps the latter although `osMutexTryLock` lowers the owner when a wait fails and does not schedule
  afterwards (mutex.c:71-83): the owner is not the current task, because a task is told what it owns.

**Processor** (`ThreadProofs.tla`, of `Processor!Spec`). `OwnContext` says nothing of a thread that is somewhere else, and what is
wrong then shows much later. The invariant says it of every place: `OwnCode` what the registers and the stack of a thread are
in each part of its program, `InHandler` and `InHandlerCall` that below an interrupt lies a place where interrupts were enabled, with the
registers saved there, and `Continues` that one of the three is the case. The current thread can continue with what is in the registers
(`Running`), all the others with what is on top of their stacks, and at one of the four places that call `osSchedule` or begin a task (`Suspended`).
In between, `osPortSwitch` has the registers of one thread and `osCurrentTask` of another (`Switching`). `Lives` adds that of two
tasks being created no two share their memory, and that a task which is gone has no block.
`Local` and `Inside` do the steps that touch the current thread only, `Departs` and `SwitchSaveIInv` to `SwitchRestoreIInv` the switch.

* `ProcessorInvariant`: `Spec => []IInv`
* `ContextAlwaysOwn`: `Spec => []OwnContext`
* `StackAlwaysFits`: `Spec => []StackFits`. `ContinuesDepth` counts the frames: interrupts are disabled in handlers, so none comes on top of another.
* `PoolIsSafe`: `Spec => PoolOfBlocks`, the refinement of `BlockPool.tla`. `PoolInv` says that there is a sequence of blocks that starts at `free`,
  is linked through `memory` and holds nobody's block, and of the two instructions within `osPoolAlloc` and `osPoolFree` that
  nothing has changed in between. `ListTail`, `ListCons` and `ListWrite` are what taking, giving back and writing do to it. `Listed`
  walks the list in as many steps as there are blocks; that it reaches all of the sequence is `ListedIs`, by the least counterexample.

**Dynamic tasks** (`ThreadProofs.tla`, of `Dynamic!DynamicSpec`). `OneOwner` says where a block can be, not who has one; the
invariant adds that a thread has a block in its hands exactly at the two places of its program between taking and giving it
away (`HandsFull`), so that returning from `osTaskReap` or starting anew after `osTaskDelete` drops nothing that is still counted.
`Popped` and `Pushed` are what the two operations on the dead list, and on the list of a pool, do to its elements and to their being different.

* `DynamicTypeCorrect`: `DynamicSpec => []TypeOK`
* `MemoryHasOneOwner`: `DynamicSpec => []OneOwner`

Only model-checked so far:

* of the scheduler, `FirstComeFirstServed`: what each function does to the order of equals on the ready list;
* of mutexes, that `osPriorityRaise` is the loop of the code: `RaiseIsTheLoop` compares it with a `RECURSIVE` operator, which is beyond the prover;
* the numbers of `main.c`, which composes two objects, and `Periodic.tla`.

Beyond the prover: liveness under fairness (`StarvationFree`, `TickEnds` and `DeadAreReaped`).

## Not modelled

* `osPortTickStart` and the choice of a prescaler in `asm.c`: arithmetic of the preprocessor and I/O registers.
* Single registers, and how deep the calls of the compiled kernel are: two groups of registers and frames stand for
  them. `StackFits` counts frames, so that `OS_STACK_MIN` has room for their bytes is left to the compiler and `tasks.h`. That a critical section of the kernel is atomic, as all modules but `Processor.tla` and `Dynamic.tla` assume, is
  shown for `osYield`, `osTaskCreate`, `osTaskExit` and the pool; the other functions use the same macro.
* Stack checking and hooks, which only report; sleep modes; where the heap ends.
* `malloc` and `free`, the C library's. That `malloc` may fail although there is room is part of `Dynamic.tla`.
* `osMutexCreate` and the like, which allocate and initialise.
* The examples and the tests. The examples are mostly I/O registers around calls that `Main.tla` and `Queue.tla` have.

## Plan

1. `FirstComeFirstServed`, which needs what each function does to `Ahead`; `NumbersAgree` from `ResultsTruthful`.
2. Liveness of waiting: a call with a timeout returns, with mutexes in a cycle too.
