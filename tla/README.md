# A verification project for goethe

goethe is a Go library that gives goroutines thread ids and builds on them:
a counting reader/writer lock, a function queue, thread pools, scheduler
timers, thread locals, and a few concurrent data structures (two caches, a
stash of pre-built elements, a heap, a timer heap).  This directory holds TLA+
modules of its core, the TLC configurations that check them on small
instances, and proofs that TLAPS checks for every value of the constants.

    tlc -workers 2 -config LockSafety.cfg MCGoetheLock    # a run
    tlapm GoetheLock_proofs.tla                           # a proof module

`PROJECT.json` lists the components, the runs, the mutants that show each
property can fail, the source lines behind each definition, the findings, the
hazards and the theorems.

## 1. Inventory

| part | source | state | operations | talks to |
|---|---|---|---|---|
| reader/writer lock | `goethe_lock_impl.go` | `readerCounts`, `holdingWriter`, `writerCount`, `writersWaiting`, one condition variable on `goMux` | `ReadLock`, `TryReadLock`, `ReadUnlock`, `WriteLock`, `TryWriteLock`, `WriteUnlock`, `IsLocked`, `IsReadLocked`, `IsWriteLocked` | a sleeper for its timeouts; caches, stash and timer heap are its callers |
| sleeper | `sleeper.go` | a heap of `sleeperNode`s, the `jobs` map, one waiter goroutine per front node | `sleep`, `waiter`, `Close` | broadcasts the lock's (or the scheduler's) condition variable without its mutex |
| function queue | `function_queue_impl.go` | `queue`, `userCapacity`, the state-change callback | `Enqueue`, `Dequeue(duration)`, `SetStateChangeCallback` | starts the callback on a goroutine; a `time.AfterFunc` broadcasts |
| thread pool | `pool_impl.go` | `started`, `closed`, `currentThreads`, `threadState`, three channels | `Start`, `Close`, `monitor`/`monitorOnce`, `threadRunner`, `ringBell`, `functionalQueueChanged` | its workers `Dequeue`; the queue's callback and the decay timer wake its monitor |
| CAR cache | `cache/car.go`, `car_clock.go`, `lru_map.go` | clocks `T1`, `T2`, key lists `B1`, `B2`, target `p` | `Compute`, `Remove`, `Clear` | one goethe lock; calls the calculator under it |
| fixed size stash | `cache/fixed_size_stash.go` | `elements`, `maxConcurrency`, `outstandingCreates`, `numWorkers` | `Get`, `WaitForElement`, `SetMaximumConcurrency`, `DestroyElement`, the threads `builder` and `createElements`, the timer job `durationExpiry` | one goethe lock and a condition variable on it; a timer heap for deadlines |
| timer heap | `timers/timers.go` | a heap of jobs, `tInfo`, `closed` | `AddJobByTime`, `AddJobByDuration`, `Cancel` of a job and of the heap, the threads `scheduleNextTimer` and `doAllCurrentJobs` | one goethe lock, `queues/heap.go`, `time.AfterFunc` |
| heap | `queues/heap.go` | an array under a mutex | `Add`, `Get`, `Peek` | used by sleeper, scheduler and timer heap |
| scheduler timers | `timer_impl.go` | a heap of `timerNode`s, a condition variable, job numbers | `ScheduleAtFixedRate`, `ScheduleWithFixedDelay`, `Cancel`, the timer thread `runOne`, `scheduleNext`, `invoke` | sleeper, heap, thread factory |
| simple cache | `cache/cache.go`, `computable.go` | a map, the keys each thread is computing (`asks`) | `Compute`, `Remove`, `Clear`, `HasKey`, `Size` | one goethe lock, a thread local; its calculator may call caches |
| threads, thread locals, pool map | `goethe_factory.go`, `thread_local_impl.go`, `reflection_utilities.go` | thread id counter, tables of thread locals and pools | `Go`, `GetThreadID`, `GetThreadLocal`, `EstablishThreadLocal`, `NewPool`, `GetPool` | everything above |
| error queue | `bounded_error_queue_impl.go` | a bounded list | `Enqueue`, `Dequeue` | pool and scheduler put errors into it |

What is hard in this code, and what each part owes its callers:

* **Lock.**  Every wait ends by a broadcast someone else must not forget, the
  broadcasts are conditional (`writersWaiting > 0`, the last unlock), and both
  kinds of wait may time out.  It owes mutual exclusion, no lost wake-up, no
  reader overtaking a waiting writer, and progress.
* **Sleeper.**  A node is rung only by a goroutine started for that node or
  for another one that happens to be alive.  It owes every sleeper a ring.
* **Function queue and pool.**  A timer broadcasts without the mutex, several
  workers wake for one job, and workers end while jobs arrive and while the
  monitor counts them.  They owe FIFO delivery without loss, a thread count
  between the two limits, a worker for each job, and a clean end.
* **CAR cache.**  Long sequences of hits, ghost hits and evictions move keys
  between four lists; a wrong move panics under the lock.  It owes its size
  bounds and lists that stay disjoint.
* **Stash.**  Elements are created outside the lock by a number of threads
  that is limited twice; deadlines are signals to whoever waits first.  It owes
  that it is never overfilled and that callers return.
* **Timer heap.**  Jobs are added without the lock the runner holds, and one
  timer stands for all jobs.  It owes that each job runs, once, in time.
* **Scheduler.**  Its thread is woken only by the sleeper or by a job being
  added; it asks the sleeper for two different times under one job number, and
  the sleeper refuses a number that is asleep.  A job passes from `addJob`'s
  goroutine to the heap to a running goroutine and back.  It owes each job its
  runs, and never two places at once.
* **Simple cache.**  The calculator runs under the cache's lock and may call
  this cache or others; cycles are recognised by a thread local that errors
  must clean up.  It owes one computation per key at a time, and progress.
* **Threads and thread locals.**  The id under which a thread files its locals
  is read from its stack, the id under which they are removed is not; the map
  of names is looked at outside its mutex.  They owe each thread its own local,
  the same every time, and nothing left when it ends.

The hazards in `PROJECT.json` give the line of each.

## 2. Modules

| module | models | how |
|---|---|---|
| `RWLock` | the promise of a goethe `Lock` | four operations on counts of holds; waiting is invisible |
| `GoetheLock` | `goethe_lock_impl.go` | one action per stretch under `goMux`; `pc` tells threads in `cond.Wait()` (`rwait`, `wwait`) from woken ones that compete for `goMux` |
| `GoetheLock_proofs` | | theorems about it |
| `LockQueries` | `IsLocked` and its two halves | the lock at work beside one `IsLocked` call with its two critical sections |
| `Sleeper`, `Sleeper_proofs` | `sleeper.go` | the heap as a set (only the earliest ring time matters), times counted down |
| `FunctionQueue` | `function_queue_impl.go` | explicit `mux`, because the timer's broadcast does not take it |
| `Pool`, `Pool_proofs` | `pool_impl.go` on a `FunctionQueue` | extends `FunctionQueue`; a worker's `Dequeue` is the queue's own action |
| `CarClock`, `CarCache`, `CarCache_proofs` | `car_clock.go`; `car.go`, `lru_map.go` | clocks with their unreachable and dangling nodes; `replace` one pass at a time |
| `Stash`, `Stash_proofs` | `fixed_size_stash.go` | threads that run the same code are counted; elements are told apart by nothing |
| `Heap` | `queues/heap.go` | `Add`, `Get` and `Peek` as operators on the array, for any comparator (a relation); the places a node passes on its way up or down are the least set that the loop's step closes |
| `PriorityQueue` | a heap in use | all sequences of `Add` and `Get`, beside the bag of the nodes that are in it |
| `TimerHeap`, `Heap_proofs` | `timers/timers.go` over `Heap` | `Peek` and `Get` are separate steps; the proofs are about `Heap`, `PriorityQueue` and `TimerHeap` |
| `Scheduler`, `Scheduler_proofs` | `timer_impl.go` on a `Sleeper` | instantiates `Sleeper` for its sleeps; one action per pass of `runOne`, per goroutine in `scheduleNext` and per end of `invoke` |
| `ThreadIds` | the id in the frame names | operators: the nibbles of an id as remainders of its quotients by 16, the frames, and reading them back digit by digit |
| `ThreadLocals` | `goethe_factory.go`, `thread_local_impl.go` | extends `ThreadIds`; threads begin, call `GetThreadLocal` in three steps, end with `removeAllActuals` |
| `SimpleCache`, `SimpleCache_proofs` | `cache/cache.go` on `ThreadLocals` | extends `ThreadLocals`; each thread has a stack of cache calls, and `checkCycle`'s `GetThreadLocal` is `ThreadLocals`' own |
| `MCGoetheLock`, `MCFunctionQueue`, `MCPool`, `MCCarCache`, `MCSimpleCache` | | constants and symmetry for TLC |

A definition keeps the name of the Go function it translates where there is
one.  Operators marked *Mutant of X* are plausible mistakes in X; substituting
them must break a property, and `PROJECT.json` pairs each property with one.

### Abstractions

* **Time** is what the code compares.  In the lock it is the class of the time
  left (`none`, `short`: below the 2 ms fudge factor, `long`, `forever`); a
  thread is not descheduled so long between `sleeper.sleep` and `cond.Wait()`
  that its own node rings in between.  The lock takes the sleeper at its word;
  `Sleeper` shows how far that word is kept.
* **`FunctionQueue`**: a job is enqueued at most once, which bounds the
  history; `elapsed` stands for `time.Since(now) >= duration`.
* **`Pool`**: the decay timer is a bell that may ring at any time.  It is a job
  of the scheduler (`pool_impl.go:110`), which can fall silent (section 5), so
  nothing is assumed to make it ring.  Removing the pool from the factory's map, error queues and what jobs do are left out; a
  job whose arguments do not fit is a member of `BadJobs`.
* **`CarCache`**: `MaxSize` is at least 1.  Values, destructors and the
  cycle test of nested `Compute`s are left out; they do not move keys.  Nested
  computations finish before the outer one changes the lists.
* **`Stash`**: its timer heap may discard a job unrun (`JobDiscarded`; the
  finding of section 5), at most `MaxLost` times.  A caller that takes an element
  cancels the last job it asked for; that one may have fired or been discarded
  already, and then all its other jobs are still to come (`JobsKept`).  The
  destructor is left out.
* **`TimerHeap`**: the error channel is nil, job functions return.
* **`Scheduler`**: time is counted in ticks to the ring time.  Some instant
  always passes between computing a time and comparing it, so `until >= 0` is
  `until > 0` and a sleep of exactly the fudge factor is already too short.
  Which of two nodes with one ring time is first is left open, as the heap
  leaves it.  Job numbers are compared for equality only, so those nobody
  refers to are given out again (`Numbers`); `MaxWaiters` is a bound of
  `Sleeper` that the runs never meet.  With `Prompt` a goroutine that can run
  does so within the tick, which makes "on time" a matter of the code.
  `Init` is the state `startTimer` leaves: the timer thread is started and the
  system job, due at once and again a `Day` after each run, is on its way to the
  heap.  No user's job ever has the scheduler to itself.  `Reach` is the longest
  time a user's job waits, and a `Day` is beyond it; `firstDay` is history, true
  until the system job has come within `Reach` (and a fudge factor) of its
  second turn.  The end of a fixed-rate job's `invoke` changes nothing and is
  left out.
* **`ThreadIds`**: `debug.Stack` prints every frame; it leaves some out of the
  middle of a very deep stack, and a thread id with them.
* **`ThreadLocals`**: `localsMux` protects nothing where it is unlocked at
  once, so looking a name up, replacing its operators and the section under
  `operators.lock` are steps of their own.  The initializer runs in the last of
  them.  `MaxTables` bounds the operators made.
* **`SimpleCache`**: the lock is what `RWLock` promises, an owner and a depth
  (`GoetheLock` shows the promise kept).  A caller outside goethe waits for a
  goethe thread started for it, so it is a thread that makes one call.  Values
  are left out; an error is a computation that stores nothing.  Which caches a
  calculator calls is `CallsInto`; `MaxNested` bounds how often.

## 3. Runs

| run | instance | shows |
|---|---|---|
| `lock_safety` | 3 threads, all durations, depth 2 | `MutualExclusion`, no writer asleep that could enter, no reader overtaking, refinement of `RWLock` |
| `lock_liveness` | 3 threads, writers that wait for ever or not at all | no reader asleep that could enter; a waiting writer leads to a writer admitted; readers wait only for writers |
| `sleeper` | 3 jobs, durations up to two fudge factors | `jobs` agrees with the heap; a node with a waiter of its own keeps it and is rung |
| `pool_safety` | 3 worker slots, pool of 1 to 2, 3 jobs, capacity 2 | FIFO without loss, no worker asleep beside a job, `ErrEmptyQueue` only after the duration, thread count within its limits |
| `pool_liveness` | pool of 1 to 2, 2 jobs, timers early or not, a bell that need not ring | each job is taken or the pool closed; `Close` ends the monitor and all workers but the ones whose timer was early |
| `car` | 7 keys, size 3, removal of single keys | size bounds, disjoint lists, no panic, `replace` ends |
| `stash` | 2 callers, size 2, concurrency 0 or 2, nil error channel, one timer job that may be discarded | never overfilled, exact counters, no caller asleep beside an element, enough signals to come, every wait returns unless the signal it needs was discarded |
| `timer_heap` | 3 jobs, times 0 to 2 | each job at most once, the one timer always stands for the first job, a cancelled heap starts nothing, every job leaves the heap |
| `heap_check` | up to 7 nodes, 3 priorities | the array is a priority queue of exactly the nodes added and not returned |
| `scheduler` | the system job (a day is 10 ticks) and 2 jobs of either kind, first run at once or after 3 fudge factors, then every 3 | a job is in one place at a time until dropped; a user's job with only the system job beside it is on time on the first day |
| `simple_cache` | 2 threads, 2 caches of which one calls the other, 2 keys, a local nobody established | a key is computed once at a time, `asks` is what is being computed, no circular wait, the same local every time and none left behind |
| `timer_heap_lost` | 2 jobs | a violation: the finding of section 5 |

The last two passing runs are compositions: `scheduler` uses
`Sleeper` with its real behaviour (a node behind another gets no waiter), so
`LoneJobOnTime` says that the two sleeps of a user's job (`runOne`'s for the time
less the fudge factor, `scheduleNextWakeUp`'s for all of it), mixed with those
for the system job, leave a waiter that comes in time.  It stops at the end of
the first day because the code does: then a node is left without a waiter
(`SchedulerSilent`, section 5).  `simple_cache` composes ids, threads, locals and
caches: `ComputedOnce` and `AsksAreComputed` rest on `SameLocal`, and
`NothingLeftBehind` on `GetThreadID` reading back what `Go` put on the stack.

**Bounds.**  Three threads are a writer, a reader that holds and one that
waits, in all role changes; depth 2 is the first recursion.  Three jobs in the
sleeper are one node with a waiter, one hidden behind it and one that closes or
comes early.  The pool has one slot more than `maxThreads`, so a worker can
start while another is still leaving.  Seven keys are one more than
`2 * MaxSize`, so a key has been forgotten when another comes.  A heap of seven
nodes has three full levels, so every swap of `Get` has the cases of no child,
one and two.  Two stash callers are the one whose time is over and the one
woken in its place.  Two scheduler jobs are one in the heap and one that is
added, run or dropped meanwhile, while the system job takes its first turn, and
its second (10 ticks on) comes after several of theirs.  A delay of 0 is due at
once and one of 3 is above two fudge factors of 1 tick; between one and two
lies `SchedulerShortDelay`.  Four job numbers are one for each job and one for a
node the sleeper still holds; the behaviours that need a fifth are cut off.
The pool of `pool_liveness` has two workers, one to leave and one to stay.  Two cache threads, each with a stack of
nested calls, are the one that holds a lock and the one that waits for it; ids
begin at 15, so they have one digit and two.  Symmetry is used only where no liveness is checked.

**Deadlock** is checked where the system can always go on.  It is off for
`lock_safety` (a re-entrant reader really deadlocks, section 5), the sleeper
and the pool (callers may stop calling, a closed pool is silent), the timer
heap (the clock stops at `MaxTime`), the scheduler (its sleeper keeps nodes that
nobody rings, so job numbers run out) and the simple cache (threads end, and
`NoCircularWait` says what deadlock would).

**Fairness.**  *Lock*: woken threads get to run and callers unlock what they
hold, as the API asks of them; nothing is assumed of timeouts.  *Sleeper*: time
passes and waiter goroutines run.  *Pool*: goroutines run, a
waiting thread that is woken gets `fq.mux` in the end, time passes and jobs
return, all of it weak fairness; nobody is assumed to enqueue, start, close or
ring the bell, and the timer of a `Dequeue` may broadcast before its thread
waits.  `JobsTaken` therefore asks for `minThreads > 0`, and `CloseEndsAll`
excepts the workers in `Forgotten`.  *Stash*: threads run, timer jobs fire unless
they are discarded, the lock is handed on, and a create function that is tried
for ever succeeds now and then.  *Timer heap*: time passes, timers ring, threads
run and jobs return.  *Scheduler*: its run checks safety only; the experiment
`SchedulerSilent` assumes that time passes, goroutines run and jobs return.
*Simple cache* (only in `CacheLiveness.cfg`, section 5): the lock is
handed on to whoever waits, which is strong fairness, and calculators return.

**Type invariants** are checked by TLC where a proof needs them (the lock);
the other modules keep theirs as documentation of the state.

## 4. Proofs

Everything here holds for any finite set of threads, callers, workers or keys,
any sizes and any bounds.  The last column says what is assumed beyond the
`ASSUME`s of the modules (finite sets, natural bounds, values for "nobody" that
are nobody's name); each assumption is the limit at which a run or an
experiment of section 5 shows the property to end.

| theorem | states | under |
|---|---|---|
| `TypeCorrect`, `MutuallyExclusive`, `NoWriterStranded`, `ReadersNeverBarge` | `TypeOK`, `MutualExclusion`, `NoStrandedWriter`, `NoReaderBarging` of the lock | |
| `NoReaderStranded` | `NoStrandedReader` | `WriteDurations` is "forever" and "zero": no writer gives up after waiting (`LockStrandedReader`) |
| `RefinesRWLock`, `RWExclusive`, `CallersExcluded` | the lock implements `RWLock`, which excludes, so callers see exclusion of all holds, recursive ones included | |
| `JobsAgree`, `WaiterStays` | `JobsMatchHeap`, `OwnWaiterAlive` of the sleeper | |
| `QueueIsFIFO`, `QueueStrandsNobody`, `QueueEmptyIsTimeout` | `FIFO`, `NoStrandedConsumer`, `EmptyOnlyAfterTimeout` of the queue with any callers | |
| `PoolUsesQueue` | the pool implements `QueueSpec`, hence `PoolTakesInOrder`, `PoolStrandsNobody`, `PoolEmptyIsTimeout` | |
| `PoolWithinMax`, `PoolCountKept` | `WithinMax`; the count does not fall below `minThreads` | |
| `PoolMinMaintained` | `MinMaintained`, of the workers themselves | `BadJobs` empty (`PoolPromises`) |
| `StashTypeCorrect`, `StashNeverOverfilled`, `StashWorkersCounted`, `StashStrandsNobody`, `StashEnoughSignals` | `TypeOK`, `NeverOverfilled`, `WorkersCounted`, `NoStrandedCaller`, `EnoughSignals` of the stash | |
| `CarWithinBounds`, `CarListsDisjoint`, `CarNeverPanics`, `CarReplaceProgresses` | `Bounds`, `Disjoint`, `NeverPanics`, `ReplaceProgresses` of the CAR cache | a removal function holds of one key at a time (`CarRemove`) |
| `JobInOnePlace` | `OnePlace` of the scheduler | |
| `LoneJobIsOnTime` | `LoneJobOnTime`, which is about the first day (`SchedulerSilent`) | `Prompt`, and no delay or period between one and two fudge factors (`SchedulerShortDelay`) |
| `HeapIsPriorityQueue` | `IsPriorityQueue` of the heap: `Get` returns a first node, and exactly the nodes added are returned | |
| `TimerHeapTypes`, `JobsRunOnce`, `OneTimerIsEnough` | `TypeOK`, `RunsOnce`, `TimerCoversHeap` of the timer heap | |
| `CancelledIsQuiet` | `CancelledStartsNothing` | jobs do not cancel their own heap (`TimerHeapCancel`) |
| `CachesDoNotDeadlock` | `NoCircularWait` of the simple caches | calculators call into caches in a well-founded order (`CacheDeadlock`) |
| `IdsReadBack` | `GetThreadID` reads from the frames the id that `Go` put there, for every natural number | |
| `ThreadsLeaveNothing`, `ThreadsKeepLocals` | `NothingLeftBehind`, `SameLocal` of `ThreadLocals` by itself | |
| `CachesUseLocals` | the caches implement `LocalSpec`, hence `CacheThreadsLeaveNothing`, `CacheThreadsKeepLocals` | |
| `CachesForgetAsks`, `CachesComputeOnce` | `AsksAreComputed`, `ComputedOnce` | |

The last three rest on `IdsReadBack`: an entry is filed under the id read from
the stack and removed under the id the thread was given.

**Induction.**  The heap and the ids need facts about data of any length, and
the library's induction rules, whose parameter is a predicate, are out of reach
of the installed provers.  They are proved from least elements instead: a
nonempty set of naturals has a least one (`LeastNatural`), so a set that holds
0 and is closed under successor is all of them (`NaturalsAll`), and the
predicate becomes a set that the proof names.  That a recursive function exists
and satisfies its equation is proved in the same way (`RecursionExists`).

**The arguments.**  None of the properties is inductive by itself; this is
what each needs in addition, and why.

* *Lock*, `LockInv`.  `ReadUnlock` tells a writer only if `writersWaiting > 0`,
  so `NoStrandedWriter` needs `CountsWaiting` (the counter is the number of
  threads in `TryWriteLock`'s loop; this is where cardinalities come in),
  `CountedHolder` (`writerCount > 0` exactly while someone holds the lock, so
  the last `WriteUnlock` is the one that frees it) and
  `WaitingWritersHoldNothing` (a thread in the loop is not one of the readers
  it waits for).  `ReaderInv` adds `PatientWriters`: nobody in the loop can
  leave it without the lock.  The refinement maps `writes` to `writerCount` for
  the holder and 0 for the others, and each pass of a loop is an acquire or
  invisible.
* *Sleeper*, `SleeperInv`.  That a waiter keeps its node needs the node to be
  popped with it, and that the job table stays exact needs job numbers to be
  unique in the heap.
* *Queue*, `QueueInv`.  `NoStrandedConsumer` needs `ArmingHoldsMux`: a consumer
  between its test and its `Wait` holds `mux`, so no `Enqueue` comes between.
* *Pool*, `PoolInv`.  Workers are added by the monitor from `threadState`
  and leave by themselves; `CountExact` ties `currentThreads` to the workers
  that count, `LeavesOnlyClosed` and `NothingBeforeStart` say when workers may
  go below the minimum.
* *Stash*.  `NeverOverfilled` and `WorkersCounted` are inductive together with
  the types of the counters.  `CallInv` for the waiting side adds `ListOK`: the
  list of `cond.Wait` is duplicate-free and exactly the callers asleep, so that
  a `Signal` (removal of its head) wakes one caller, and as the pending timer
  jobs are counted as a finite set of slots, each expiry takes one of each; a
  discarded job moves from the slots to `lost`.
* *CAR cache*, `CarInv`.  With single removals the clocks stay clean
  (`ClocksClean`: every node linked and mapped, the tail last), so a clock's
  size is the length of its list and lemmas about sequences (`Thinner`,
  `Wider`) say what each operation does to the keys.  `ListsApart` is
  `Disjoint` in a form that steps preserve, `KeyMissed` says that the key being
  computed is in neither clock, so no `AddTail` panics.  `Bounds` speaks of the
  states between operations; `Sizes` says what holds within one: `replace` runs
  only when the clocks are full (hence T2 has a head whenever T1 is not the one
  to turn, and `GetPageReferenceOfHead` does not panic), and the ghost lists
  are one over their bound only between the eviction and `Trim` or `Insert`.
* *Scheduler*, `PlaceInv`.  Cardinalities of the nodes of a job become "the
  heap and the adders have at most one node of a job, and no two of the four
  places have the same one" (`NodesUnique`, `PlacesExclude`).  `LoneInv` for
  `LoneJobOnTime` tells the sleeps for the system job from those for the user's:
  on the first day the former are all beyond `Reach`, carry the system job's
  number and have the only waiters out there (`SleepsOK`, `SystemOK`).  Within
  `Reach` the sleeper is in one of two states.  Nobody sleeps (`NothingAsked`):
  then no user's job is in the heap, or `runOne` is about to look and finds it
  due, or the system job before it, or sleeps for it long enough to be recorded;
  that sleep gets a waiter because all others are later (`UserSleeps`).  Or there
  is exactly one sleep, with its waiter, for the job's current number and for its
  ring time or a fudge factor before (`Asked`): then a sleep that is refused is
  not missed, and `runOne`, should it look, does not find the job due, so a job is
  only run, and gets a new number, when nobody sleeps for the old one.  A waiter
  that wakes is the one of that sleep and pops it alone, which needs the two jobs
  to have different numbers (`NumbersDiffer`).  The clock is where the first day
  is used: a sleep for the system job stays beyond `Reach`.  `NextRing` of a
  fixed-rate job exists because one of `delay` successive numbers leaves each
  remainder (`OneOfEach`).
* *Heap*, `HeapInv`.  `Path` is the least set of places that holds the first
  one and is closed under the loop's step; on it each place has one predecessor
  (`PathIsChain`), so the chain of swaps is a shift along it.  `Ordered`: no
  parent comes after its child; `AddOrdered` and `GetOrdered` preserve it place
  by place.  That the top is a first node then takes a least counterexample
  (`TopIsLeast`); that no node is lost, a one-to-one map between the places
  before and after (`AddCount`, `GetCount`).
* *Timer heap*, `TimerInv`.  `TimerCoversHeap` compares ids and times of the
  first job and the timer, so it needs the order of the heap (`ShapeInv`), that
  an id names one job, now and later (`IdsTell`), and that a timer that has
  rung is not mistaken for one that will: its job is still looked at by someone
  (`RungIsSeen`).  It holds although `Get` may take out another job than the one
  peeked at, which loses that job (section 5) but leaves the timer right.
* *Simple cache*, `WaitInv`.  A thread's stack of calls descends in the order
  in which calculators call caches (`CallsDescend`) and it holds the locks of
  exactly those it is computing in (`StacksOK`, `LocksOK`); a circle of waiting
  threads would be an infinite descent.  `LocalInv`: running threads have
  different ids, an entry belongs to a running thread's id, and a thread in the
  middle of `GetThreadLocal` refers to a table that is or was current.
  `AskInv` joins both with "the asks of a thread are the keys on its stack".

**Only model-checked.**  All liveness (`WriterAdmitted`,
`ReaderStarvedOnlyByWriters`, `OwnNodeRings`, `JobsTaken`, `CloseEndsAll`,
`WaitReturns`, `JobsLeaveHeap`): the prover does not do
fairness.  Every invariant and every action property of a passing run has a
theorem.

## 5. Where code and documentation disagree

One finding is kept as a run.  **`timer_heap_lost`**: `doAllCurrentJobs` peeks
and then calls `Get` (`timers.go:397`); a job added in between that is due
earlier is the one removed, and never runs.

The other configurations are experiments in the same vein: each states a
documented promise of a module and TLC refutes it.  (`CacheLiveness`, module
`MCSimpleCache`, is the exception: `CallsReturn`, every call of a cache
returns, holds; it takes a few minutes.)

| configuration (module) | promise | what happens |
|---|---|---|
| `LockStrandedReader` (`MCGoetheLock`) | `NoStrandedReader`; goethe.go:215 "Multiple readers on multiple threads are allowed in simultaneously" | a `TryWriteLock` that gives up after waiting decrements `writersWaiting` and broadcasts nothing (`goethe_lock_impl.go:276`), so readers that waited only because of it sleep on; this is why `lock_liveness` has no writer that times out after waiting |
| `CarRemove` (`MCCarCache`) | `Bounds`; car.go:64 "keeps at most max values but up to 2 * max the number of keys" | `RemoveAll` keeps `prior` on the node it has just unlinked (`car_clock.go:188`), so of two neighbours removed together one stays linked but unmapped; `car` removes one key at a time |
| `LockReentrantRead` (`MCGoetheLock`) | `ReentrantReadNeverWaits`; README.md:369 "another reader lock may be acquired on the same thread (counting)" | the second `ReadLock` waits for a waiting writer, which waits for this reader |
| `LockTimedTry` (`MCGoetheLock`) | `TimedTryReturns`; goethe.go:246 "attempt to get the read lock for the given amount of time" | with less than the fudge factor left `sleep` broadcasts before the caller waits, and nothing wakes it later |
| `LockQueries` (`LockQueries`) | `FalseMeansFree`; goethe.go:236 "returns true if the lock is either read or write lock held" | the writer takes a read hold after the first test and drops its write hold before the second |
| `LockQueries` (`LockQueries`) | `ReadLockedExcludesWrite`; goethe.go:242 "held for read and NOT write" | the writer's own read holds count |
| `SleeperRings` (`Sleeper`) | `SleepRings`; sleeper.go:52 "the condition to ring when done" | a node behind an earlier one gets no waiter, and the earlier one's waiter starts none |
| `QueueTimedDequeue` (`MCFunctionQueue`) | `TimedDequeueReturns`; function_queue_impl.go:107 "If there is no message within the given duration ... ErrEmptyQueue" | the timer broadcasts before `cond.Wait()` |
| `PoolPromises` (`MCPool`) | `MinMaintained`; goethe.go:107 "the minimum number of threads that this pool will maintain" | a worker that ends over unfit arguments stays counted |
| `PoolPromises` (`MCPool`) | `StopsReading`; goethe.go:197 "The system will stop reading from the FunctionQueue" | a worker inside `Dequeue` takes one more job |
| `StashNilChannel` (`Stash`) | `Refills`; fixed_size_stash.go:133 "eChan may be nil" | a create function that returns nil and nil blocks its worker on a nil channel for ever |
| `StashPromises` (`Stash`) | `ZeroStopsCreating`; fixed_size_stash.go:87 "A value of zero will stop the stash from creating new elements" | workers started before go on |
| `StashPromises` (`Stash`) | `ExpiredCallerIsWoken`; fixed_size_stash.go:58 "no available element within the given duration" | the expiry wakes the longest waiting caller instead |
| `TimerHeapCancel` (`TimerHeap`) | `CancelledStartsNothing`; goethe.go:59 "false if it has been cancelled" | a job that cancels its own heap is followed by all jobs that are due |
| `SchedulerSilent` (`Scheduler`) | `EveryJobRuns`; goethe_factory.go:337 "will then be scheduled at multiples of the period" | one user's job is enough: when the system job's second turn comes, a sleep for it is in front of the user's, whose node gets no waiter (`sleeper.go:108`); later sleeps for its number are refused (`sleeper.go:85`), and nothing wakes the timer thread any more.  The sleeper keeps such nodes for ever |
| `SchedulerShortDelay` (`Scheduler`) | `LoneJobOnTime`; goethe_factory.go:336 "The first run will happen only after initialDelay" | with an initial delay between one and two fudge factors `sleep` broadcasts before `runOne` waits, and nothing wakes it when the job is due |
| `PoolLiveness` with `minThreads = 0`, `maxThreads = 1` (`MCPool`) | `JobsTaken`; goethe.go:109 "New threads will be allocated if all of the threads in the pool are busy and the FunctionQueue is not empty" | the last worker idles out while the job arrives, the monitor still counts it as waiting, and only the decay bell would make it look again |
| `CacheDeadlock` (`MCSimpleCache`) | `NoCircularWait`; cache.go:87 "This method is thread safe" | two caches whose calculators call each other, on two threads |
| `CacheFalseCycle` (`MCSimpleCache`) | `CyclesAreReal`; cache.go:87 "an error will be thrown when a cycle has been detected" | all caches share one `asks`, so asking another cache for the same key is refused as a cycle |
| `ThreadLocals` (`ThreadLocals`) | `SameLocalForAll`; goethe_factory.go:272 "returns the instance of the storage associated with the current goethe thread" | two threads both find the name missing and the second replaces the operators, and the local, of the first |
| `ThreadLocals` (`ThreadLocals`) | `NoMapRace`; goethe_factory.go:246 "can be called on any thread" | `EstablishThreadLocal` writes the map after unlocking while a thread that ends ranges over it |

## 6. Not modelled, and the plan

The parts that everything else stands on came first: lock and sleeper, then
queue and pool, then the data structures with the hardest interleavings, then
the scheduler over the sleeper and the simple cache over threads and thread
locals.  What is left, in order:

1. An abstract FIFO channel that `FunctionQueue` implements, and an abstract
   bounded store for the CAR cache.
2. The pool map of the factory (`NewPool`, `GetPool`, `removePool`): a map
   under a mutex, two of whose three users let go of it before they look.

Left out for good: `bounded_error_queue_impl.go` and `error_information_impl.go`
(a bounded list under one mutex, nobody waits), `reflection_utilities.go`
(reflection on argument types), the interfaces in `goethe.go` and the examples.
