-------------------------------- MODULE Pool --------------------------------
(***************************************************************************)
(* The thread pool of pool_impl.go at work on a FunctionQueue: its workers *)
(* (threadRunner), its monitor and the callbacks of the queue.             *)
(*                                                                         *)
(* Every critical section of threadPool.mux is one action.  A worker's     *)
(* Dequeue takes the steps of FunctionQueue, with the workers as its       *)
(* consumers.  Worker slots are reused: a slot is "free" before a worker   *)
(* is started in it and after it has left the threadState map.             *)
(***************************************************************************)
EXTENDS FunctionQueue

CONSTANTS
    minThreads, maxThreads,
    BadJobs       \* jobs whose arguments getValues refuses

ASSUME PoolAssumption ==
    /\ minThreads \in Nat /\ maxThreads \in Nat \ {0}
    /\ minThreads <= maxThreads
    /\ IsFiniteSet(Consumers)
    /\ BadJobs \subseteq Jobs

VARIABLES
    started, closed,
    currentThreads,
    threadState,  \* per worker: "WAITING", "RUNNING" or "absent" from the map
    runner,       \* where each worker is in threadRunner
    monitor,      \* where the monitor goroutine is
    senders,      \* callbacks blocked on changeChannel <- size
    bell          \* is a ringBell blocked on decayChannel <- true?

poolVars == <<started, closed, currentThreads, threadState, runner, monitor,
              senders, bell>>
vars == <<queueVars, poolVars>>

Init ==
    /\ QueueInit
    /\ started = FALSE /\ closed = FALSE
    /\ currentThreads = 0
    /\ threadState = [w \in Consumers |-> "absent"]
    /\ runner = [w \in Consumers |-> "free"]
    /\ monitor = "none"
    /\ senders = 0
    /\ bell = FALSE

-----------------------------------------------------------------------------
FreeSlots == {w \in Consumers : runner[w] = "free"}

\* goether.Go(threadRunner, threadPool), n times over, each counted at once.
StartWorkers(n) ==
    /\ \E S \in SUBSET FreeSlots :
          /\ Cardinality(S) = n
          /\ runner' = [w \in Consumers |-> IF w \in S THEN "check" ELSE runner[w]]
    /\ currentThreads' = currentThreads + n

Start ==
    /\ ~closed /\ ~started
    /\ StartWorkers(minThreads)
    /\ monitor' = "check"
    /\ SetStateChangeCallback(TRUE)
    /\ started' = TRUE
    /\ UNCHANGED <<closed, threadState, senders, bell>>

\* Closing the channels makes every blocked sender panic and recover.
Close ==
    /\ ~closed
    /\ closed' = TRUE
    /\ SetStateChangeCallback(FALSE)
    /\ senders' = 0 /\ bell' = FALSE
    /\ UNCHANGED <<started, currentThreads, threadState, runner, monitor>>

\* functionalQueueChanged, up to its send on changeChannel.
functionalQueueChanged ==
    /\ CallbackDone
    /\ senders' = IF started /\ ~closed THEN senders + 1 ELSE senders
    /\ UNCHANGED <<started, closed, currentThreads, threadState, runner,
                   monitor, bell>>

\* The decay timer may run ringBell until Close cancels it.
RingsBell == ~closed

ringBell ==
    /\ RingsBell /\ ~bell
    /\ bell' = TRUE
    /\ UNCHANGED <<queueVars, started, closed, currentThreads, threadState,
                   runner, monitor, senders>>

-----------------------------------------------------------------------------
(* The monitor.                                                            *)

\* The top of the monitor's loop.
MonitorChecks ==
    /\ monitor = "check"
    /\ monitor' = IF closed THEN "gone" ELSE "once"
    /\ UNCHANGED <<queueVars, started, closed, currentThreads, threadState,
                   runner, senders, bell>>

NumWaiting == Cardinality({w \in Consumers : threadState[w] = "WAITING"})

\* Mutant of NumberToAdd: the upper bound is forgotten.
NumberNeeded ==
    IF NumWaiting >= Len(queue) THEN 0 ELSE Len(queue) - NumWaiting

\* How many workers monitorOnce starts.
NumberToAdd ==
    LET needed == Len(queue) - NumWaiting
        maxToAdd == maxThreads - currentThreads
    IN  IF currentThreads >= maxThreads \/ NumWaiting >= Len(queue) THEN 0
        ELSE IF needed < maxToAdd THEN needed ELSE maxToAdd

\* monitorOnce; GetSize needs the queue's own mux.
monitorOnce ==
    /\ monitor = "once"
    /\ mux = Nobody
    /\ StartWorkers(NumberToAdd)
    /\ monitor' = "select"
    /\ UNCHANGED <<queueVars, started, closed, threadState, senders, bell>>

\* The select: a change of the queue, the decay bell, or a closed channel.
MonitorSelects ==
    /\ monitor = "select"
    /\ \/ senders > 0 /\ senders' = senders - 1 /\ UNCHANGED bell
          /\ monitor' = "check"
       \/ bell /\ bell' = FALSE /\ UNCHANGED senders /\ monitor' = "check"
       \/ closed /\ UNCHANGED <<senders, bell>> /\ monitor' = "gone"
    /\ UNCHANGED <<queueVars, started, closed, currentThreads, threadState, runner>>

-----------------------------------------------------------------------------
(* A worker.                                                               *)

Goto(w, place) == runner' = [runner EXCEPT ![w] = place]

\* The top of threadRunner's loop.
WorkerChecks(w) ==
    /\ runner[w] = "check"
    /\ Goto(w, IF closed THEN "leave" ELSE "setwait")
    /\ UNCHANGED <<queueVars, started, closed, currentThreads, threadState,
                   monitor, senders, bell>>

\* Mutant of WorkerLeaves: the worker stays counted.
LeavesUncounted(w) ==
    /\ runner[w] = "leave"
    /\ Goto(w, "delete")
    /\ UNCHANGED <<queueVars, started, closed, currentThreads, threadState,
                   monitor, senders, bell>>

\* currentThreads-- of a worker that found the pool closed.
WorkerLeaves(w) ==
    /\ runner[w] = "leave"
    /\ currentThreads' = currentThreads - 1
    /\ Goto(w, "delete")
    /\ UNCHANGED <<queueVars, started, closed, threadState, monitor, senders, bell>>

\* changeMapState(threadPool, tid, newState)
changeMapState(w, state) == threadState' = [threadState EXCEPT ![w] = state]

WorkerWaits(w) ==
    /\ runner[w] = "setwait"
    /\ changeMapState(w, "WAITING")
    /\ Goto(w, "call")
    /\ UNCHANGED <<queueVars, started, closed, currentThreads, monitor,
                   senders, bell>>

\* Dequeue(idleDecay)
WorkerDequeues(w) ==
    /\ runner[w] = "call"
    /\ \E waits \in Waits : Dequeue(w, waits)
    /\ Goto(w, "dequeue")
    /\ UNCHANGED <<started, closed, currentThreads, threadState, monitor,
                   senders, bell>>

\* Dequeue has returned.
Answered(w) == runner[w] = "dequeue" /\ at[w] = "idle"

\* Mutant of MayShrink: off by one.
MayShrinkBelow == currentThreads >= minThreads

MayShrink == currentThreads > minThreads

\* ErrEmptyQueue: the worker ends if there are more than the minimum.
WorkerIdles(w) ==
    /\ Answered(w) /\ got[w] = Empty
    /\ IF MayShrink
       THEN currentThreads' = currentThreads - 1 /\ Goto(w, "delete")
       ELSE UNCHANGED currentThreads /\ Goto(w, "check")
    /\ UNCHANGED <<queueVars, started, closed, threadState, monitor, senders, bell>>

WorkerGetsJob(w) ==
    /\ Answered(w) /\ got[w] # Empty
    /\ changeMapState(w, "RUNNING")
    /\ Goto(w, "run")
    /\ UNCHANGED <<queueVars, started, closed, currentThreads, monitor,
                   senders, bell>>

\* getValues and invoke.  A job whose arguments do not fit ends the worker,
\* which is not counted down; one that runs returns to the loop.
WorkerRuns(w) ==
    /\ runner[w] = "run"
    /\ Goto(w, IF got[w] \in BadJobs THEN "delete" ELSE "check")
    /\ UNCHANGED <<queueVars, started, closed, currentThreads, threadState,
                   monitor, senders, bell>>

\* The deferred deleteMapTid, and the end of the goroutine.
deleteMapTid(w) ==
    /\ runner[w] = "delete"
    /\ changeMapState(w, "absent")
    /\ Goto(w, "free")
    /\ UNCHANGED <<queueVars, started, closed, currentThreads, monitor,
                   senders, bell>>

WorkerStep(w) ==
    \/ WorkerChecks(w) \/ WorkerLeaves(w) \/ WorkerWaits(w) \/ WorkerDequeues(w)
    \/ WorkerIdles(w) \/ WorkerGetsJob(w) \/ WorkerRuns(w) \/ deleteMapTid(w)

\* The queue's own steps.
QueueStep ==
    /\ \/ \E j \in Jobs : Enqueue(j)
       \/ \E w \in Consumers : DequeueNext(w)
    /\ UNCHANGED poolVars

Next ==
    \/ Start \/ Close \/ ringBell \/ functionalQueueChanged
    \/ MonitorChecks \/ monitorOnce \/ MonitorSelects
    \/ \E w \in Consumers : WorkerStep(w)
    \/ QueueStep

Spec == Init /\ [][Next]_vars

\* Go runs every goroutine that can run, fq.mux is handed to whoever waits
\* for it, AfterFuncs go off, and jobs return.  Clients need not do anything,
\* and the bell need not ring: it is a job of the shared scheduler, which may
\* fall silent.
Fairness ==
    /\ WF_vars(functionalQueueChanged)
    /\ WF_vars(MonitorChecks) /\ WF_vars(monitorOnce) /\ WF_vars(MonitorSelects)
    /\ \A w \in Consumers :
          /\ WF_vars(WorkerStep(w))
          /\ WF_vars(Wake(w) /\ UNCHANGED poolVars)
          /\ WF_vars((Wait(w) \/ TimerFires(w) \/ TimePasses(w)) /\ UNCHANGED poolVars)

FairSpec == Spec /\ Fairness

-----------------------------------------------------------------------------
\* Workers that count as threads of the pool: all but the ones on their way
\* out.
Members == {w \in Consumers : runner[w] \notin {"free", "delete"}}

PoolTypeOK ==
    /\ QueueTypeOK
    /\ started \in BOOLEAN /\ closed \in BOOLEAN /\ bell \in BOOLEAN
    /\ currentThreads \in Nat /\ senders \in Nat
    /\ threadState \in [Consumers -> {"absent", "WAITING", "RUNNING"}]
    /\ runner \in [Consumers -> {"free", "check", "leave", "setwait", "call",
                                 "dequeue", "run", "delete"}]
    /\ monitor \in {"none", "check", "once", "select", "gone"}

\* The pool never grows past maxThreads, whatever the monitor decided from a
\* threadState that workers change behind its back, and the workers alive
\* never exceed the count.
WithinMax ==
    /\ currentThreads <= maxThreads
    /\ Cardinality(Members) <= currentThreads

\* "minThreads is the minimum number of threads that this pool will maintain
\* while it is open": idle workers that end at the same time never leave
\* fewer.
MinMaintained == started /\ ~closed => Cardinality(Members) >= minThreads

\* "The system will stop reading from the FunctionQueue" once closed.  Not kept:
\* PoolPromises.cfg.
StopsReading == [][closed => taken' = taken]_vars

InQueue(j) == \E i \in DOMAIN queue : queue[i] = j

\* A job in the queue of a started pool is taken, unless the pool is closed
\* first: a worker that idles out while the job arrives leaves another that is
\* awake or is woken by the broadcast.  This needs minThreads > 0: a pool that
\* shrinks to nothing depends on the decay bell.
JobsTaken ==
    \A j \in Jobs : (started /\ InQueue(j)) ~> (closed \/ ~InQueue(j))

\* Workers whose AfterFunc went off before they were in cond.Wait(): only an
\* Enqueue wakes them.
Forgotten == {w \in Consumers : runner[w] = "dequeue" /\ at[w] = "wait" /\ w \notin armed}

\* Closing ends the monitor and every worker, wherever each is in its loop, but
\* the ones whose timer was early, which Close does not wake; and the count
\* comes down to those.
CloseEndsAll ==
    closed ~> /\ \A w \in Consumers : runner[w] = "free" \/ w \in Forgotten
              /\ currentThreads = Cardinality(Forgotten)
              /\ monitor \in {"none", "gone"}
=============================================================================
