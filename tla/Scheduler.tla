------------------------------ MODULE Scheduler -----------------------------
(***************************************************************************)
(* The scheduler of timer_impl.go at work on its Sleeper: fixed-rate and   *)
(* fixed-delay jobs, the timer thread's loop runOne, the goroutines that   *)
(* run jobs and the ones that put them on the heap.                        *)
(*                                                                         *)
(* timer.mux is held from one end of runOne to the other but for the wait, *)
(* and throughout scheduleNext: one action each.  Times are counted down   *)
(* as in Sleeper.  Some instant always passes between computing a time and *)
(* comparing it, so a time left of k ticks is a little less than k: the    *)
(* code's `until >= 0` is until > 0 here, and a sleep is only recorded if  *)
(* it is longer than Fudge.  Sleep and wait of runOne are one step: the    *)
(* thread is not held up for a whole fudgeFactor between the two.          *)
(*                                                                         *)
(* The scheduler is never empty: startTimer adds a system job, due at once *)
(* and then a day after each of its runs, so every job of a user shares    *)
(* the heap and the sleeper with it.  Its function does nothing.           *)
(*                                                                         *)
(* Job numbers are only ever compared for equality, so one that nothing    *)
(* refers to any more is given out again.                                  *)
(***************************************************************************)
EXTENDS Naturals, FiniteSets

CONSTANTS
    Jobs,           \* timerJobs of users, each scheduled at most once (a bound)
    System,         \* the job of startTimer
    NoJob,          \* not scheduled
    InitialDelays, Periods,
    Fudge,          \* fudgeFactor, in ticks
    Reach,          \* bound: the longest time a user's job waits
    Day,            \* the system job's delay, well beyond Reach
    Horizon,        \* bound: the longest time anyone waits
    Numbers,        \* job numbers (their number bounds the nodes the sleeper may keep)
    MaxWaiters,     \* bound of Sleeper, never met
    Prompt          \* does a thread that can run do so within the tick?

ASSUME SchedulerAssumption ==
    /\ Fudge \in Nat \ {0} /\ Horizon \in Nat /\ MaxWaiters \in Nat
    /\ Numbers \subseteq Nat /\ Prompt \in BOOLEAN
    /\ Reach \in Nat /\ Fudge <= Reach /\ InitialDelays \subseteq 0..Reach
    /\ Periods \subseteq Nat /\ \A p \in Periods : p + Fudge <= Reach
    /\ Day \in Nat /\ Reach + Fudge < Day /\ Day <= Horizon
    /\ NoJob \notin [fixed : BOOLEAN, delay : Periods \cup {Day}]
    /\ System \notin Jobs

VARIABLES
    job,         \* what was scheduled: fixed or not, and its delay
    phase,       \* of a fixed-rate job: time to the next multiple of its delay
    number,      \* job.next.jobNumber
    cancelled,
    heap,        \* timer.heap: the timerNodes
    adders,      \* goroutines about to call scheduleNext
    invoked,     \* fixed-delay jobs whose invoke is running
    dropped,     \* history: cancelled jobs that runOne has taken off the heap
    timer,       \* the timer thread: "look" (in the loop) or "wait"
    firstDay,    \* history: the system job has not come within Reach again
    sheap, sjobs, swaiters   \* the sleeper

sleeperVars == <<sheap, sjobs, swaiters>>
jobVars == <<job, phase, cancelled>>
vars == <<jobVars, number, heap, adders, invoked, dropped, timer, firstDay,
          sleeperVars>>

AllJobs == Jobs \cup {System}

S == INSTANCE Sleeper WITH heap <- sheap, jobs <- sjobs, waiters <- swaiters,
                           Jobs <- Numbers, MaxDuration <- Horizon

\* startTimer, which the first Schedule... calls: the system job is on its way
\* and the timer thread is started.
Init ==
    /\ job = [j \in AllJobs |->
                IF j = System THEN [fixed |-> FALSE, delay |-> Day] ELSE NoJob]
    /\ phase = [j \in AllJobs |-> 0]
    /\ number = [j \in AllJobs |-> 0]
    /\ cancelled = [j \in AllJobs |-> FALSE]
    /\ heap = {} /\ invoked = {} /\ dropped = {}
    /\ adders = {[job |-> System, ring |-> 0]}
    /\ timer = "look" /\ firstDay = TRUE
    /\ S!Init

-----------------------------------------------------------------------------
\* addJob: the ring time is fixed here, the node comes later.
addJob(j, fixed, initialDelay, period) ==
    /\ job[j] = NoJob
    /\ job' = [job EXCEPT ![j] = [fixed |-> fixed, delay |-> period]]
    /\ phase' = [phase EXCEPT ![j] = IF fixed THEN initialDelay % period ELSE 0]
    /\ adders' = adders \cup {[job |-> j, ring |-> initialDelay]}
    /\ UNCHANGED <<cancelled, number, heap, invoked, dropped, timer, firstDay,
                   sleeperVars>>

\* ScheduleAtFixedRate and ScheduleWithFixedDelay: a rate, unlike a delay, may
\* not be zero.
Schedule(j) ==
    \E fixed \in BOOLEAN, initialDelay \in InitialDelays, period \in Periods :
        /\ fixed => period >= 1
        /\ addJob(j, fixed, initialDelay, period)

\* Cancel: only a flag, and no lock of the timer's.
Cancel(j) ==
    /\ job[j] # NoJob /\ ~cancelled[j]
    /\ cancelled' = [cancelled EXCEPT ![j] = TRUE]
    /\ UNCHANGED <<job, phase, number, heap, adders, invoked, dropped, timer,
                   firstDay, sleeperVars>>

\* Numbers not in use: neither asleep nor of a job in the heap.
Unused == Numbers \ (sjobs \cup {number[n.job] : n \in heap})

\* timer.nextJob++
NextNumber == CHOOSE k \in Unused : TRUE

\* The broadcast at the end of scheduleNext.
AfterAdd == timer' = "look"

\* scheduleNext on a goroutine of its own: first time round, or at the end of
\* invoke.
scheduleNext(a) ==
    /\ a \in adders /\ Unused # {}
    /\ adders' = adders \ {a}
    /\ heap' = heap \cup {a}
    /\ number' = [number EXCEPT ![a.job] = NextNumber]
    /\ AfterAdd
    /\ UNCHANGED <<jobVars, invoked, dropped, firstDay, sleeperVars>>

-----------------------------------------------------------------------------
(* The timer thread.                                                       *)

\* What timer.heap.Peek() may return: the heap leaves open which of two nodes
\* that ring together is first.
Peek(nodes) == {n \in nodes : \A m \in nodes : n.ring <= m.ring}

\* sleepy.sleep(d, timer.cond, k).  Too short a sleep broadcasts, which the
\* timer thread, its only caller, cannot hear.
sleep(d, k) ==
    IF d > Fudge /\ k \notin sjobs
    THEN S!sleep(d, k)
    ELSE UNCHANGED sleeperVars

\* An empty heap.
runOneEmpty ==
    /\ timer = "look" /\ heap = {}
    /\ timer' = "wait"
    /\ UNCHANGED <<jobVars, number, heap, adders, invoked, dropped, firstDay,
                   sleeperVars>>

\* The first node is not due: sleep for it and wait.
runOneSleeps ==
    /\ timer = "look"
    /\ \E top \in Peek(heap) :
          /\ top.ring > Fudge
          /\ sleep(top.ring - Fudge, number[top.job])
    /\ timer' = "wait"
    /\ UNCHANGED <<jobVars, number, heap, adders, invoked, dropped, firstDay>>

\* Mutant of scheduleNextWakeUp: the fudgeFactor is added, not taken off.
WakeUpLate(left, numbers) ==
    \/ left = {} /\ UNCHANGED sleeperVars
    \/ \E top \in Peek(left) : sleep(top.ring + Fudge, numbers[top.job])

\* scheduleNextWakeUp, with what the heap and the numbers have become.
scheduleNextWakeUp(left, numbers) ==
    \/ left = {} /\ UNCHANGED sleeperVars
    \/ \E top \in Peek(left) : sleep(top.ring, numbers[top.job])

\* The ring time of a fixed-rate job: the first multiple of its delay, counted
\* from initialTime, that is more than Fudge away.
NextRing(j) ==
    CHOOSE r \in Fudge + 1 .. Fudge + job[j].delay :
        r % job[j].delay = phase[j] % job[j].delay

\* Mutant of PutBack: every kind of job is put back.
PutBackAlways(j, rest) ==
    rest \cup {[job |-> j, ring |-> IF job[j].fixed THEN NextRing(j) ELSE job[j].delay]}

\* What a run of j leaves in the heap: a fixed-rate job is there again.
PutBack(j, rest) ==
    IF job[j].fixed THEN rest \cup {[job |-> j, ring |-> NextRing(j)]} ELSE rest

\* The first node is due, and its job cancelled: it is dropped.
runOneDrops ==
    /\ timer = "look"
    /\ \E top \in Peek(heap) :
          /\ top.ring <= Fudge /\ cancelled[top.job]
          /\ heap' = heap \ {top}
          /\ dropped' = dropped \cup {top.job}
          /\ scheduleNextWakeUp(heap \ {top}, number)
    /\ UNCHANGED <<jobVars, number, adders, invoked, timer, firstDay>>

\* The first node is due: its job is put back if its rate is fixed, and run on
\* a goroutine.  The end of a fixed-rate job's invoke changes nothing, so only
\* the others are followed.
runOneRuns(j) ==
    /\ timer = "look" /\ Unused # {}
    /\ ~cancelled[j]
    /\ \E top \in Peek(heap) :
          LET left == PutBack(j, heap \ {top})
              numbers == IF job[j].fixed
                         THEN [number EXCEPT ![j] = NextNumber] ELSE number
          IN  /\ top.job = j /\ top.ring <= Fudge
              /\ heap' = left /\ number' = numbers
              /\ scheduleNextWakeUp(left, numbers)
    /\ invoked' = IF job[j].fixed THEN invoked ELSE invoked \cup {j}
    /\ UNCHANGED <<jobVars, adders, dropped, timer, firstDay>>

runOne ==
    \/ runOneEmpty \/ runOneSleeps \/ runOneDrops
    \/ \E j \in AllJobs : runOneRuns(j)

\* The end of invoke of a fixed-delay job: next time is delay from now.
invoke(j) ==
    /\ j \in invoked
    /\ invoked' = invoked \ {j}
    /\ adders' = adders \cup {[job |-> j, ring |-> job[j].delay]}
    /\ UNCHANGED <<jobVars, number, heap, dropped, timer, firstDay, sleeperVars>>

-----------------------------------------------------------------------------
\* A waiter of the sleeper: it broadcasts for whatever it pops.
waiter ==
    /\ S!waiter
    /\ timer' = IF S!Due # {} THEN "look" ELSE timer
    /\ UNCHANGED <<jobVars, number, heap, adders, invoked, dropped, firstDay>>

Of(j, nodes) == {n \in nodes : n.job = j}

Sooner(nodes) == {[n EXCEPT !.ring = IF @ > 0 THEN @ - 1 ELSE 0] : n \in nodes}

\* The sleeper has something to count down.
SleeperCounts ==
    (\E n \in sheap : n.ring > 0) \/ (\E w \in 1..Horizon : swaiters[w] > 0)

\* The clock.  The system job's function is over within the tick, a user's may
\* take any time.
Tick ==
    /\ Prompt => /\ timer = "wait" /\ adders = {} /\ swaiters[0] = 0
                 /\ System \notin invoked
    /\ S!Tick \/ (~SleeperCounts /\ UNCHANGED sleeperVars)
    /\ heap' = Sooner(heap) /\ adders' = Sooner(adders)
    /\ firstDay' = (firstDay /\ \A n \in Of(System, heap') : n.ring > Reach + Fudge)
    /\ phase' = [j \in AllJobs |->
            IF job[j] = NoJob \/ ~job[j].fixed THEN 0
            ELSE IF phase[j] = 0 THEN job[j].delay - 1 ELSE phase[j] - 1]
    /\ UNCHANGED <<job, cancelled, number, invoked, dropped, timer>>

Next ==
    \/ \E j \in Jobs : Schedule(j) \/ Cancel(j)
    \/ \E j \in AllJobs : invoke(j)
    \/ \E a \in adders : scheduleNext(a)
    \/ runOne
    \/ waiter
    \/ Tick

Spec == Init /\ [][Next]_vars

\* Time passes, goroutines run and jobs return.
FairSpec ==
    /\ Spec
    /\ WF_vars(runOne) /\ WF_vars(waiter) /\ WF_vars(Tick)
    /\ WF_vars(\E a \in adders : scheduleNext(a))
    /\ \A j \in AllJobs : WF_vars(invoke(j))

-----------------------------------------------------------------------------
Node == [job : AllJobs, ring : 0..Horizon]

TypeOK ==
    /\ job \in [AllJobs -> {NoJob} \cup [fixed : BOOLEAN, delay : Periods \cup {Day}]]
    /\ phase \in [AllJobs -> 0..Horizon] /\ number \in [AllJobs -> Numbers]
    /\ cancelled \in [AllJobs -> BOOLEAN]
    /\ heap \in SUBSET Node /\ adders \in SUBSET Node
    /\ invoked \in SUBSET AllJobs /\ dropped \in SUBSET AllJobs
    /\ timer \in {"look", "wait"} /\ firstDay \in BOOLEAN

\* A scheduled job is in exactly one place (about to be added, in the heap, or
\* a fixed-delay job at work) until it is dropped after a Cancel: it is never
\* lost, never doubled, and a fixed-delay job never overlaps itself, although
\* the timer thread, addJob's goroutine and the end of invoke all hand it on.
OnePlace ==
    \A j \in AllJobs :
        Cardinality(Of(j, heap)) + Cardinality(Of(j, adders))
      + Cardinality({j} \cap invoked)
      + Cardinality({j} \cap dropped) = (IF job[j] = NoJob THEN 0 ELSE 1)

\* No other user's job has ever been scheduled.
Alone(j) == \A k \in Jobs \ {j} : job[k] = NoJob

\* For as long as the system job's second turn is far off, a fixed-rate or
\* fixed-delay job that shares the scheduler with it alone is taken off the
\* heap no later than its ring time: the sleeps of runOne and of
\* scheduleNextWakeUp, which are for different times, for either job, and
\* refused for a number that is asleep already, leave a waiter that comes in
\* time, whichever of the two jobs was added or run first.  A delay of between
\* one and two fudgeFactors is the exception: SchedulerShortDelay.cfg.
LoneJobOnTime ==
    [][\A j \in Jobs : Alone(j) /\ firstDay /\ Tick
            => \A n \in Of(j, heap) : n.ring > 0]_vars

\* A job that was scheduled is run again and again, unless it is cancelled.
KeepsRunning(j) ==
    <>(job[j] # NoJob) =>
        <>cancelled[j] \/ []<><<runOneRuns(j)>>_vars

\* "The first run will happen only after initialDelay and will then be scheduled
\* at multiples of the period".  Not kept, not even for a single job, once the
\* system job's turn has come: SchedulerSilent.cfg.
EveryJobRuns == \A j \in Jobs : KeepsRunning(j)
=============================================================================
