-------------------------------- MODULE Stash -------------------------------
(***************************************************************************)
(* The FixedSizeStash of cache/fixed_size_stash.go: worker threads keep it *)
(* filled while callers take elements or wait for them.                    *)
(*                                                                         *)
(* Every method works under the stash's write lock and is one action; only *)
(* the create function runs outside it.  Elements are told apart by        *)
(* nothing here, so the list of elements is its size, and threads that run *)
(* the same code are counted: builders, and workers about to call doGoOn,  *)
(* inside the create function, or stuck on a nil error channel.            *)
(*                                                                         *)
(* Each cond.Wait is preceded by a job on the timer heap that signals the  *)
(* condition at the caller's deadline.  Cancel only reaches a caller's     *)
(* last job; the others stay behind and signal whoever waits then.  A job  *)
(* added between the timer heap's Peek and its Get may be taken off unrun  *)
(* in place of the one that was looked at: TimerHeapLost.cfg.              *)
(***************************************************************************)
EXTENDS Naturals, Sequences, FiniteSets

CONSTANTS
    Callers,            \* threads that call WaitForElement
    desiredSize,
    Concurrencies,      \* values given to SetMaximumConcurrency
    InitialConcurrency,
    NilChannel,         \* is the error channel nil?
    MaxBuilders,        \* bound: builder threads waiting for the lock
    MaxJobs,            \* bound: timer jobs of one caller, and left-over ones
    MaxLost             \* bound: jobs that the timer heap discards

ASSUME StashAssumption ==
    /\ desiredSize \in Nat /\ desiredSize >= 2
    /\ Concurrencies \subseteq Nat /\ InitialConcurrency \in Nat
    /\ NilChannel \in BOOLEAN
    /\ MaxBuilders \in Nat /\ MaxJobs \in Nat /\ MaxLost \in Nat
    /\ IsFiniteSet(Callers)

VARIABLES
    size,                \* elements.size
    maxConcurrency, outstandingCreates, numWorkers,
    builders,            \* builder threads that have not run yet
    checking, creating, stuck,  \* workers by where they are
    waiting,             \* callers in cond.Wait(), the longest waiting first
    caller,              \* "idle", "wait" or "woken"
    elapsed,             \* is the caller's duration over?
    jobs,                \* pending timer jobs of each caller's call
    leftOver,            \* pending timer jobs of calls that are over
    lost                 \* history: how many jobs the timer heap discarded

stashVars == <<size, maxConcurrency, outstandingCreates, numWorkers, builders,
               checking, creating, stuck>>
callVars == <<waiting, caller, elapsed, jobs, leftOver, lost>>
vars == <<stashVars, callVars>>

Init ==
    /\ size = 0 /\ maxConcurrency = InitialConcurrency
    /\ outstandingCreates = 0 /\ numWorkers = 0
    /\ builders = 1
    /\ checking = 0 /\ creating = 0 /\ stuck = 0
    /\ waiting = << >>
    /\ caller = [c \in Callers |-> "idle"]
    /\ elapsed = [c \in Callers |-> FALSE]
    /\ jobs = [c \in Callers |-> 0]
    /\ leftOver = 0 /\ lost = 0

-----------------------------------------------------------------------------
(* Filling the stash.                                                      *)

\* A counter goes down, never below zero.
Less(n) == IF n = 0 THEN 0 ELSE n - 1

\* gd.Go(fssd.builder)
StartBuilder == builders < MaxBuilders /\ builders' = builders + 1

\* Workers the stash is short of, before the limit on concurrency.
Missing == IF size + numWorkers >= desiredSize THEN 0
           ELSE desiredSize - (size + numWorkers)

\* builder: its loop starts workers until one of the two limits is reached.
builder ==
    LET allowed == IF numWorkers >= maxConcurrency THEN 0
                   ELSE maxConcurrency - numWorkers
        n == IF Missing < allowed THEN Missing ELSE allowed
    IN  /\ builders > 0
        /\ builders' = builders - 1
        /\ numWorkers' = numWorkers + n
        /\ checking' = checking + n
        /\ UNCHANGED <<size, maxConcurrency, outstandingCreates, creating, stuck>>
        /\ UNCHANGED callVars

\* Mutant of Enough: what others are creating is not counted.
EnoughNow == size >= desiredSize

Enough == size + outstandingCreates >= desiredSize

\* doGoOn: a worker ends, or announces one more element and creates it.
doGoOn ==
    /\ checking > 0
    /\ checking' = checking - 1
    /\ IF Enough
       THEN /\ numWorkers' = Less(numWorkers)
            /\ UNCHANGED <<outstandingCreates, creating>>
       ELSE /\ outstandingCreates' = outstandingCreates + 1
            /\ creating' = creating + 1
            /\ UNCHANGED numWorkers
    /\ UNCHANGED <<size, maxConcurrency, builders, stuck>>
    /\ UNCHANGED callVars

\* Mutant of LeavesCreate: the element stays announced.
LeavesAnnounced ==
    /\ creating > 0
    /\ creating' = creating - 1 /\ checking' = checking + 1
    /\ UNCHANGED <<maxConcurrency, numWorkers, outstandingCreates, builders, stuck>>

\* The end of createOne and expand.
LeavesCreate ==
    /\ creating > 0
    /\ creating' = creating - 1 /\ checking' = checking + 1
    /\ outstandingCreates' = Less(outstandingCreates)
    /\ UNCHANGED <<maxConcurrency, numWorkers, builders, stuck>>

\* Mutant of AfterAdd: one waiter is told.
SignalOne ==
    IF waiting = << >> THEN UNCHANGED <<waiting, caller>>
    ELSE /\ waiting' = Tail(waiting)
         /\ caller' = [caller EXCEPT ![Head(waiting)] = "woken"]

\* The broadcast at the end of expand.
AfterAdd ==
    /\ waiting' = << >>
    /\ caller' = [c \in Callers |-> IF caller[c] = "wait" THEN "woken" ELSE caller[c]]

\* expand with a new element.
CreateSucceeds ==
    /\ LeavesCreate
    /\ size' = size + 1
    /\ AfterAdd
    /\ UNCHANGED <<elapsed, jobs, leftOver, lost>>

\* The create function returned an error or panicked: the worker goes on.
CreateFails ==
    /\ LeavesCreate
    /\ UNCHANGED size
    /\ UNCHANGED callVars

\* Neither element nor error: a send on a nil channel never ends.
CreatesNothing ==
    /\ NilChannel /\ creating > 0
    /\ creating' = creating - 1 /\ stuck' = stuck + 1
    /\ UNCHANGED <<size, maxConcurrency, outstandingCreates, numWorkers,
                   builders, checking>>
    /\ UNCHANGED callVars

\* Raising the limit starts a builder.
SetsOffBuilder(max) == IF maxConcurrency < max THEN StartBuilder ELSE UNCHANGED builders

SetMaximumConcurrency(max) ==
    /\ maxConcurrency' = max
    /\ SetsOffBuilder(max)
    /\ UNCHANGED <<size, outstandingCreates, numWorkers, checking, creating, stuck>>
    /\ UNCHANGED callVars

\* DestroyElement of an element still in the stash.
DestroyElement ==
    /\ size > 0
    /\ size' = size - 1
    /\ StartBuilder
    /\ UNCHANGED <<maxConcurrency, outstandingCreates, numWorkers, checking,
                   creating, stuck>>
    /\ UNCHANGED callVars

-----------------------------------------------------------------------------
(* Taking elements.                                                        *)

\* The call returns; `kept` of its timer jobs stay behind.
EndCall(c, kept) ==
    /\ caller' = [caller EXCEPT ![c] = "idle"]
    /\ elapsed' = [elapsed EXCEPT ![c] = FALSE]
    /\ jobs' = [jobs EXCEPT ![c] = 0]
    /\ leftOver + kept <= MaxJobs
    /\ leftOver' = leftOver + kept
    /\ UNCHANGED <<waiting, lost>>

\* What may be left of the caller's jobs when the last one is cancelled, which
\* may have fired or been discarded before.
JobsKept(c) ==
    {Less(jobs[c])} \cup (IF elapsed[c] \/ lost > 0 THEN {jobs[c]} ELSE {})

TakeElement(c) ==
    /\ size > 0
    /\ size' = size - 1
    /\ StartBuilder
    /\ \E kept \in JobsKept(c) : EndCall(c, kept)
    /\ UNCHANGED <<maxConcurrency, outstandingCreates, numWorkers, checking,
                   creating, stuck>>

\* ErrNoElementAvailable: jobs are not cancelled.
GiveUp(c) == size = 0 /\ EndCall(c, jobs[c]) /\ UNCHANGED stashVars

\* Mutant of JobsArmed: one timer job per call.
JobsArmedOnce(n) == 1

\* Each pass of the loop adds a job for the time that is left.
JobsArmed(n) == n + 1

\* AddJobByDuration and cond.Wait().
WaitAgain(c) ==
    /\ size = 0
    /\ jobs[c] < MaxJobs
    /\ jobs' = [jobs EXCEPT ![c] = JobsArmed(@)]
    /\ caller' = [caller EXCEPT ![c] = "wait"]
    /\ waiting' = Append(waiting, c)
    /\ UNCHANGED <<elapsed, leftOver, lost>>
    /\ UNCHANGED stashVars

\* WaitForElement (Get does not wait).
WaitForElement(c, waits) ==
    /\ caller[c] = "idle"
    /\ \/ TakeElement(c)
       \/ ~waits /\ GiveUp(c)
       \/ waits /\ WaitAgain(c)

\* Back from cond.Wait().
Wake(c) ==
    /\ caller[c] = "woken"
    /\ \/ TakeElement(c)
       \/ elapsed[c] /\ GiveUp(c)
       \/ ~elapsed[c] /\ WaitAgain(c)

\* Mutant of durationExpiry: nobody is told.
expirySilent == UNCHANGED <<waiting, caller>>

\* durationExpiry: cond.Signal() wakes the longest waiting caller, whoever
\* the job belonged to.
durationExpiry ==
    IF waiting = << >> THEN UNCHANGED <<waiting, caller>>
    ELSE /\ waiting' = Tail(waiting)
         /\ caller' = [caller EXCEPT ![Head(waiting)] = "woken"]

JobFires(c) ==
    /\ jobs[c] > 0 /\ elapsed[c]
    /\ jobs' = [jobs EXCEPT ![c] = @ - 1]
    /\ durationExpiry
    /\ UNCHANGED <<elapsed, leftOver, lost>>
    /\ UNCHANGED stashVars

LeftOverJobFires ==
    /\ leftOver > 0
    /\ leftOver' = leftOver - 1
    /\ durationExpiry
    /\ UNCHANGED <<elapsed, jobs, lost>>
    /\ UNCHANGED stashVars

\* The timer heap takes a job off that it has not looked at, and nobody is
\* signalled.
JobDiscarded ==
    /\ lost < MaxLost /\ lost' = lost + 1
    /\ \/ /\ \E c \in Callers :
                jobs[c] > 0 /\ jobs' = [jobs EXCEPT ![c] = @ - 1]
          /\ UNCHANGED leftOver
       \/ leftOver > 0 /\ leftOver' = leftOver - 1 /\ UNCHANGED jobs
    /\ UNCHANGED <<waiting, caller, elapsed>>
    /\ UNCHANGED stashVars

TimePasses(c) ==
    /\ caller[c] # "idle" /\ ~elapsed[c]
    /\ elapsed' = [elapsed EXCEPT ![c] = TRUE]
    /\ UNCHANGED <<waiting, caller, jobs, leftOver, lost>>
    /\ UNCHANGED stashVars

-----------------------------------------------------------------------------
Next ==
    \/ builder \/ doGoOn
    \/ CreateSucceeds \/ CreateFails \/ CreatesNothing
    \/ \E max \in Concurrencies : SetMaximumConcurrency(max)
    \/ DestroyElement
    \/ \E c \in Callers :
          \/ \E waits \in BOOLEAN : WaitForElement(c, waits)
          \/ Wake(c) \/ JobFires(c) \/ TimePasses(c)
    \/ LeftOverJobFires \/ JobDiscarded

Spec == Init /\ [][Next]_vars

\* Threads run, jobs that are still on the timer heap fire, and create functions
\* that are tried over and over succeed now and then.
Fairness ==
    /\ WF_vars(builder) /\ WF_vars(doGoOn) /\ WF_vars(LeftOverJobFires)
    /\ SF_vars(CreateSucceeds)
    /\ \A c \in Callers :
          SF_vars(Wake(c)) /\ WF_vars(JobFires(c)) /\ WF_vars(TimePasses(c))

FairSpec == Spec /\ Fairness

-----------------------------------------------------------------------------
TypeOK ==
    /\ {size, maxConcurrency, outstandingCreates, numWorkers, builders,
        checking, creating, stuck, leftOver, lost} \subseteq Nat
    /\ waiting \in Seq(Callers)
    /\ caller \in [Callers -> {"idle", "wait", "woken"}]
    /\ elapsed \in [Callers -> BOOLEAN]
    /\ jobs \in [Callers -> Nat]

\* The stash is never overfilled, counting what is under construction,
\* although workers create without the lock.
NeverOverfilled == size + outstandingCreates <= desiredSize

\* The two counters agree with the threads there are.
WorkersCounted ==
    /\ numWorkers = checking + creating + stuck
    /\ outstandingCreates = creating + stuck

\* No caller sleeps beside an element, and cond.Wait's list is exactly the
\* callers that sleep.
NoStrandedCaller ==
    /\ waiting # << >> => size = 0
    /\ \A c \in Callers : caller[c] = "wait" <=> \E i \in DOMAIN waiting : waiting[i] = c

\* All pending jobs of calls in progress: <<c, n>> is the n-th one of c.
JobSlots == {p \in Callers \X (1..MaxJobs) : p[2] <= jobs[p[1]]}
PendingJobs == Cardinality(JobSlots)

\* Although an expiry may wake the wrong caller, there are never fewer
\* signals to come than callers asleep, but for the ones the timer heap
\* discarded.
EnoughSignals == Len(waiting) <= PendingJobs + leftOver + lost

\* "ErrNoElementAvailable is returned from WaitForElement when there is no
\* available element within the given duration": a caller asleep past its
\* deadline has a job about to wake it.  Not kept: StashPromises.cfg.
ExpiredCallerIsWoken ==
    \A c \in Callers : caller[c] = "wait" /\ elapsed[c] => jobs[c] > 0

\* The caller sleeps and no signal is left, one having been discarded.
Abandoned(c) == caller[c] = "wait" /\ lost > 0 /\ PendingJobs + leftOver = 0

\* WaitForElement always returns, even without an element and although expiries
\* wake the wrong caller, unless the timer heap discarded a job and the caller
\* is left without a signal.
WaitReturns ==
    \A c \in Callers :
        (caller[c] # "idle") ~> \/ caller[c] = "idle"
                                \/ Abandoned(c)

\* An empty stash that may create gets an element.  Not kept without an error
\* channel: StashNilChannel.cfg.
Refills ==
    (size = 0 /\ maxConcurrency > 0) ~> (size > 0 \/ maxConcurrency = 0)

\* "A value of zero will stop the stash from creating new elements."
\* Not kept: StashPromises.cfg.
ZeroStopsCreating ==
    [][maxConcurrency = 0 => outstandingCreates' <= outstandingCreates]_vars
=============================================================================
