---------------------------- MODULE Stash_proofs ----------------------------
(***************************************************************************)
(* Proofs about Stash, for any number of callers, any desired size and any *)
(* sequence of concurrency limits.                                         *)
(***************************************************************************)
EXTENDS Stash, FiniteSetTheorems, SequenceTheorems, TLAPS

-----------------------------------------------------------------------------
(* Workers and elements.                                                   *)

\* The counters are numbers.
CountersOK ==
    /\ size \in Nat /\ maxConcurrency \in Nat /\ outstandingCreates \in Nat
    /\ numWorkers \in Nat /\ builders \in Nat
    /\ checking \in Nat /\ creating \in Nat /\ stuck \in Nat

\* The inductive invariant of the filling side.
FillInv == CountersOK /\ NeverOverfilled /\ WorkersCounted

\* What the waiting callers do to the counters.
TakeOrLeave ==
    \/ UNCHANGED stashVars
    \/ /\ size > 0 /\ size' = size - 1 /\ StartBuilder
       /\ UNCHANGED <<maxConcurrency, outstandingCreates, numWorkers, checking,
                      creating, stuck>>

\* A worker announces its element before it creates it and takes the
\* announcement back when it adds it, so the two never both go up.
LEMMA FillStep ==
    ASSUME FillInv, [Next]_vars
    PROVE  FillInv'
  <1> USE StashAssumption DEF FillInv, CountersOK, NeverOverfilled, WorkersCounted
  <1>1. CASE builder
    <2> DEFINE allowed == IF numWorkers >= maxConcurrency THEN 0
                          ELSE maxConcurrency - numWorkers
               n == IF Missing < allowed THEN Missing ELSE allowed
    <2>1. Missing \in Nat
      BY DEF Missing
    <2>2. n \in Nat
      BY <2>1
    <2>3. /\ builders > 0 /\ builders' = builders - 1
          /\ numWorkers' = numWorkers + n /\ checking' = checking + n
          /\ UNCHANGED <<size, maxConcurrency, outstandingCreates, creating, stuck>>
      BY <1>1 DEF builder
    <2> HIDE DEF n
    <2> QED
      BY <2>2, <2>3
  <1>2. CASE doGoOn
    BY <1>2 DEF doGoOn, Enough, Less
  <1>3. CASE CreateSucceeds
    BY <1>3 DEF CreateSucceeds, LeavesCreate, Less
  <1>4. CASE CreateFails
    BY <1>4 DEF CreateFails, LeavesCreate, Less
  <1>5. CASE CreatesNothing
    BY <1>5 DEF CreatesNothing
  <1>6. ASSUME NEW max \in Concurrencies, SetMaximumConcurrency(max)
        PROVE  FillInv'
    <2>1. max \in Nat
      OBVIOUS
    <2> QED
      BY <1>6, <2>1 DEF SetMaximumConcurrency, SetsOffBuilder, StartBuilder
  <1>7. CASE DestroyElement
    BY <1>7 DEF DestroyElement, StartBuilder
  <1>8. CASE TakeOrLeave
    BY <1>8 DEF TakeOrLeave, StartBuilder, stashVars
  <1>9. ASSUME NEW c \in Callers,
               \/ \E waits \in BOOLEAN : WaitForElement(c, waits)
               \/ Wake(c) \/ JobFires(c) \/ TimePasses(c)
        PROVE  TakeOrLeave
    BY <1>9 DEF WaitForElement, Wake, JobFires, TimePasses, TakeElement, GiveUp, WaitAgain,
       TakeOrLeave
  <1>10. LeftOverJobFires \/ JobDiscarded \/ UNCHANGED vars => TakeOrLeave
    BY DEF LeftOverJobFires, JobDiscarded, vars, TakeOrLeave
  <1> QED
    BY <1>1, <1>2, <1>3, <1>4, <1>5, <1>6, <1>7, <1>8, <1>9, <1>10 DEF Next

\* FillInv holds in every reachable state.
LEMMA FillInvariance == Spec => []FillInv
  <1>1. Init => FillInv
    BY StashAssumption DEF Init, FillInv, CountersOK, NeverOverfilled, WorkersCounted
  <1> QED
    BY <1>1, FillStep, PTL DEF Spec

\* Whatever the create function does outside the lock, the stash never
\* holds and builds more elements than it should.
THEOREM StashNeverOverfilled == Spec => []NeverOverfilled
  BY FillInvariance, PTL DEF FillInv

\* numWorkers and outstandingCreates are exactly the worker threads there
\* are and the ones inside the create function.
THEOREM StashWorkersCounted == Spec => []WorkersCounted
  BY FillInvariance, PTL DEF FillInv

-----------------------------------------------------------------------------
(* Callers and signals.                                                    *)

\* The types of what the callers keep; a caller has at most MaxJobs jobs.
CallsOK ==
    /\ waiting \in Seq(Callers)
    /\ caller \in [Callers -> {"idle", "wait", "woken"}]
    /\ elapsed \in [Callers -> BOOLEAN]
    /\ jobs \in [Callers -> 0..MaxJobs]
    /\ leftOver \in Nat /\ lost \in Nat

\* The list of cond.Wait holds the callers that sleep, each once.
ListOK ==
    /\ \A i, j \in DOMAIN waiting : waiting[i] = waiting[j] => i = j
    /\ \A c \in Callers : caller[c] = "wait" <=> \E i \in DOMAIN waiting : waiting[i] = c

\* Nobody sleeps beside an element.
NobodyBeside == waiting # << >> => size = 0

\* The inductive invariant of the waiting side.
CallInv == CallsOK /\ ListOK /\ NobodyBeside /\ EnoughSignals

\* There are finitely many pending jobs, before and after a step.
LEMMA SlotsFinite ==
    IsFiniteSet(JobSlots) /\ PendingJobs \in Nat /\ PendingJobs' \in Nat
  <1>1. IsFiniteSet(1..MaxJobs)
    BY FS_Interval, StashAssumption
  <1>2. IsFiniteSet(Callers \X (1..MaxJobs))
    BY <1>1, FS_Product, StashAssumption
  <1>3. /\ JobSlots \in SUBSET (Callers \X (1..MaxJobs))
        /\ JobSlots' \in SUBSET (Callers \X (1..MaxJobs))
    BY DEF JobSlots
  <1> QED
    BY <1>2, <1>3, FS_Subset, FS_CardinalityType DEF PendingJobs

\* Adding a timer job adds one pending job.
LEMMA JobAdded ==
    ASSUME CallsOK, NEW c \in Callers, jobs[c] < MaxJobs,
           jobs' = [jobs EXCEPT ![c] = @ + 1]
    PROVE  PendingJobs' = PendingJobs + 1
  <1>1. jobs[c] \in Nat /\ MaxJobs \in Nat
    BY StashAssumption DEF CallsOK
  <1>2. JobSlots' = JobSlots \cup {<<c, jobs[c] + 1>>}
    <2>1. ASSUME NEW p \in Callers \X (1..MaxJobs)
          PROVE  p[2] <= jobs'[p[1]] <=> p[2] <= jobs[p[1]] \/ p = <<c, jobs[c] + 1>>
      BY <1>1, <2>1 DEF CallsOK
    <2>2. <<c, jobs[c] + 1>> \in Callers \X (1..MaxJobs)
      BY <1>1
    <2> QED
      BY <2>1, <2>2 DEF JobSlots
  <1>3. <<c, jobs[c] + 1>> \notin JobSlots
    BY <1>1 DEF JobSlots
  <1> QED
    BY <1>2, <1>3, SlotsFinite, FS_AddElement DEF PendingJobs

\* A job that fires is one pending job less.
LEMMA JobRemoved ==
    ASSUME CallsOK, NEW c \in Callers, jobs[c] > 0,
           jobs' = [jobs EXCEPT ![c] = @ - 1]
    PROVE  PendingJobs' = PendingJobs - 1
  <1>1. jobs[c] \in 1..MaxJobs /\ MaxJobs \in Nat
    BY StashAssumption DEF CallsOK
  <1>2. JobSlots' = JobSlots \ {<<c, jobs[c]>>}
    <2>1. ASSUME NEW p \in Callers \X (1..MaxJobs)
          PROVE  p[2] <= jobs'[p[1]] <=> p[2] <= jobs[p[1]] /\ p # <<c, jobs[c]>>
      BY <1>1, <2>1 DEF CallsOK
    <2> QED
      BY <2>1 DEF JobSlots
  <1>3. <<c, jobs[c]>> \in JobSlots
    BY <1>1 DEF JobSlots
  <1> QED
    BY <1>2, <1>3, SlotsFinite, FS_RemoveElement DEF PendingJobs

\* A call that ends takes its jobs with it.
LEMMA JobsDropped ==
    ASSUME CallsOK, NEW c \in Callers, jobs' = [jobs EXCEPT ![c] = 0]
    PROVE  PendingJobs' = PendingJobs - jobs[c]
  <1> DEFINE own == {c} \X (1..jobs[c])
  <1>1. jobs[c] \in Nat /\ jobs[c] <= MaxJobs /\ MaxJobs \in Nat
    BY StashAssumption DEF CallsOK
  <1>2. JobSlots' = JobSlots \ own
    <2>1. ASSUME NEW p \in Callers \X (1..MaxJobs)
          PROVE  p[2] <= jobs'[p[1]] <=> p[2] <= jobs[p[1]] /\ p \notin own
      BY <1>1, <2>1 DEF CallsOK
    <2> QED
      BY <2>1 DEF JobSlots
  <1>3. JobSlots \cap own = own
    <2>1. own \subseteq JobSlots
      BY <1>1 DEF JobSlots
    <2> QED
      BY <2>1
  <1>4. Cardinality(own) = jobs[c]
    <2>1. IsFiniteSet(1..jobs[c]) /\ Cardinality(1..jobs[c]) = jobs[c]
      <3>1. /\ IsFiniteSet(1..jobs[c])
            /\ Cardinality(1..jobs[c]) = IF 1 > jobs[c] THEN 0 ELSE jobs[c] - 1 + 1
        <4>1. 1 \in Int /\ jobs[c] \in Int
          BY <1>1
        <4> QED
          BY <4>1, FS_Interval, Zenon
      <3> QED
        BY <1>1, <3>1
    <2>2. IsFiniteSet({c}) /\ Cardinality({c}) = 1
      BY FS_Singleton
    <2>3. Cardinality(own) = Cardinality({c}) * Cardinality(1..jobs[c])
      BY <2>1, <2>2, FS_Product, Zenon
    <2> QED
      BY <1>1, <2>1, <2>2, <2>3
  <1>5. Cardinality(JobSlots \ own) = Cardinality(JobSlots) - Cardinality(JobSlots \cap own)
    BY SlotsFinite, FS_Difference, Zenon
  <1> HIDE DEF own
  <1> QED
    BY <1>2, <1>3, <1>4, <1>5 DEF PendingJobs

\* A step that neither touches the callers nor adds an element.
LEMMA OthersKeepCalls ==
    ASSUME CallInv, CountersOK, UNCHANGED callVars, size' <= size, size' \in Nat
    PROVE  CallInv'
  <1>1. JobSlots' = JobSlots
    BY DEF callVars, JobSlots
  <1> QED
    BY <1>1 DEF callVars, CallInv, CountersOK, CallsOK, ListOK, NobodyBeside,
       EnoughSignals, PendingJobs

\* The broadcast at the end of expand empties the list: the new element
\* finds nobody asleep.
LEMMA AddKeepsCalls ==
    ASSUME CallInv, CreateSucceeds
    PROVE  CallInv'
  <1> USE DEF CallInv
  <1>1. waiting' = << >> /\ UNCHANGED <<elapsed, jobs, leftOver, lost>>
        /\ caller' = [c \in Callers |-> IF caller[c] = "wait" THEN "woken" ELSE caller[c]]
    BY DEF CreateSucceeds, AfterAdd
  <1>2. waiting' \in Seq(Callers) /\ Len(waiting') = 0 /\ DOMAIN waiting' = {}
    BY <1>1
  <1>3. CallsOK'
    BY <1>1, <1>2 DEF CallsOK
  <1>4. ListOK' /\ NobodyBeside'
    BY <1>1, <1>2 DEF ListOK, NobodyBeside, CallsOK
  <1>5. PendingJobs' \in Nat
    <2>1. JobSlots' = JobSlots
      BY <1>1 DEF JobSlots
    <2> QED
      BY <2>1, SlotsFinite DEF PendingJobs
  <1>6. EnoughSignals'
    <2>1. leftOver' \in Nat /\ lost' \in Nat /\ Len(waiting') = 0
      BY <1>2, <1>3 DEF CallsOK
    <2>2. \A m, n, l \in Nat : 0 <= m + n + l
      OBVIOUS
    <2> QED
      BY <1>5, <2>1, <2>2, Zenon DEF EnoughSignals
  <1> QED
    BY <1>3, <1>4, <1>6

\* A caller that joins the list comes with a job.
LEMMA WaitKeepsCalls ==
    ASSUME CallInv, NEW c \in Callers, caller[c] # "wait", WaitAgain(c)
    PROVE  CallInv'
  <1> USE DEF CallInv
  <1>1. /\ jobs' = [jobs EXCEPT ![c] = @ + 1] /\ jobs[c] < MaxJobs /\ size' = 0
        /\ waiting' = Append(waiting, c) /\ UNCHANGED <<elapsed, leftOver, lost>>
        /\ caller' = [caller EXCEPT ![c] = "wait"]
    BY DEF WaitAgain, JobsArmed, stashVars
  <1>2. /\ waiting' \in Seq(Callers) /\ Len(waiting') = Len(waiting) + 1
        /\ Len(waiting) \in Nat
        /\ DOMAIN waiting = 1..Len(waiting) /\ DOMAIN waiting' = 1..(Len(waiting) + 1)
        /\ \A i \in DOMAIN waiting : waiting'[i] = waiting[i]
        /\ waiting'[Len(waiting) + 1] = c
    BY <1>1 DEF CallsOK
  <1>3. CallsOK'
    BY <1>1, <1>2, StashAssumption DEF CallsOK
  <1>4. \A i \in DOMAIN waiting : waiting[i] # c
    BY DEF ListOK
  <1>5. \A i, j \in DOMAIN waiting' : waiting'[i] = waiting'[j] => i = j
    BY <1>2, <1>4 DEF ListOK
  <1>6. ASSUME NEW d \in Callers
        PROVE  caller'[d] = "wait" <=> \E i \in DOMAIN waiting' : waiting'[i] = d
    <2>1. CASE d = c
      <3>1. caller'[c] = "wait"
        BY <1>1 DEF CallsOK
      <3>2. Len(waiting) + 1 \in DOMAIN waiting'
        BY <1>2
      <3> QED
        BY <1>2, <2>1, <3>1, <3>2
    <2>2. CASE d # c
      <3>1. caller'[d] = caller[d]
        BY <1>1, <2>2 DEF CallsOK
      <3>2. (\E i \in DOMAIN waiting' : waiting'[i] = d)
              <=> \E i \in DOMAIN waiting : waiting[i] = d
        BY <1>2, <2>2
      <3> QED
        BY <3>1, <3>2 DEF ListOK
    <2> QED
      BY <2>1, <2>2
  <1>7. PendingJobs' = PendingJobs + 1 /\ PendingJobs \in Nat
    BY <1>1, JobAdded, SlotsFinite
  <1>8. EnoughSignals'
    BY <1>1, <1>2, <1>7 DEF EnoughSignals, CallsOK
  <1> QED
    BY <1>1, <1>3, <1>5, <1>6, <1>8 DEF ListOK, NobodyBeside

\* A signal takes the first caller off the list, and only that one.
LEMMA SignalEffect ==
    ASSUME CallsOK, ListOK, durationExpiry
    PROVE  /\ waiting' \in Seq(Callers)
           /\ caller' \in [Callers -> {"idle", "wait", "woken"}]
           /\ ListOK'
           /\ waiting' # << >> => waiting # << >>
           /\ Len(waiting') = 0 \/ Len(waiting') = Len(waiting) - 1
  <1>1. CASE waiting = << >>
    BY <1>1 DEF durationExpiry, CallsOK, ListOK
  <1>2. CASE waiting # << >>
    <2>1. waiting' = Tail(waiting) /\ caller' = [caller EXCEPT ![Head(waiting)] = "woken"]
      BY <1>2 DEF durationExpiry
    <2>2. /\ Len(waiting) \in Nat \ {0} /\ DOMAIN waiting = 1..Len(waiting)
          /\ waiting' \in Seq(Callers) /\ Len(waiting') = Len(waiting) - 1
          /\ DOMAIN waiting' = 1..(Len(waiting) - 1)
          /\ \A i \in DOMAIN waiting' : waiting'[i] = waiting[i + 1]
          /\ Head(waiting) = waiting[1] /\ Head(waiting) \in Callers
      BY <1>2, <2>1 DEF CallsOK
    <2>3. caller' \in [Callers -> {"idle", "wait", "woken"}]
      BY <2>1, <2>2 DEF CallsOK
    <2>4. \A i, j \in DOMAIN waiting' : waiting'[i] = waiting'[j] => i = j
      BY <2>2 DEF ListOK
    <2>5. ASSUME NEW d \in Callers
          PROVE  caller'[d] = "wait" <=> \E i \in DOMAIN waiting' : waiting'[i] = d
      <3>1. CASE d = waiting[1]
        <4>1. caller'[d] = "woken"
          BY <2>1, <2>2, <3>1 DEF CallsOK
        <4>2. ASSUME NEW k \in DOMAIN waiting', waiting'[k] = d PROVE FALSE
          <5>1. k + 1 \in DOMAIN waiting /\ 1 \in DOMAIN waiting /\ k + 1 # 1
            BY <2>2, <4>2
          <5> QED
            BY <2>2, <3>1, <4>2, <5>1 DEF ListOK
        <4> QED
          BY <4>1, <4>2
      <3>2. CASE d # waiting[1]
        <4>1. caller'[d] = caller[d]
          BY <2>1, <2>2, <3>2 DEF CallsOK
        <4>2. ASSUME NEW i \in DOMAIN waiting, waiting[i] = d
              PROVE  \E k \in DOMAIN waiting' : waiting'[k] = d
          <5>1. i - 1 \in DOMAIN waiting' /\ i - 1 + 1 = i
            BY <2>2, <3>2, <4>2
          <5> QED
            BY <2>2, <4>2, <5>1
        <4>3. ASSUME NEW k \in DOMAIN waiting', waiting'[k] = d
              PROVE  \E i \in DOMAIN waiting : waiting[i] = d
          <5>1. k + 1 \in DOMAIN waiting
            BY <2>2, <4>3
          <5> QED
            BY <2>2, <4>3, <5>1
        <4> QED
          BY <4>1, <4>2, <4>3 DEF ListOK
      <3> QED
        BY <3>1, <3>2
    <2> QED
      BY <1>2, <2>2, <2>3, <2>4, <2>5 DEF ListOK
  <1> QED
    BY <1>1, <1>2

\* A timer job that fires wakes a caller if there is one: a signal and a
\* sleeper go together.
LEMMA ExpiryKeepsCalls ==
    ASSUME CallInv, durationExpiry, UNCHANGED <<elapsed, size, lost>>,
           \/ \E c \in Callers : /\ jobs[c] > 0 /\ jobs' = [jobs EXCEPT ![c] = @ - 1]
                                 /\ UNCHANGED leftOver
           \/ leftOver > 0 /\ leftOver' = leftOver - 1 /\ UNCHANGED jobs
    PROVE  CallInv'
  <1> USE DEF CallInv
  <1>1. /\ waiting' \in Seq(Callers)
        /\ caller' \in [Callers -> {"idle", "wait", "woken"}]
        /\ ListOK'
        /\ waiting' # << >> => waiting # << >>
        /\ Len(waiting') = 0 \/ Len(waiting') = Len(waiting) - 1
    BY SignalEffect
  <1>2. /\ jobs' \in [Callers -> 0..MaxJobs] /\ leftOver' \in Nat
        /\ PendingJobs' \in Nat /\ PendingJobs \in Nat
        /\ PendingJobs' + leftOver' = PendingJobs + leftOver - 1
    <2>1. ASSUME NEW c \in Callers, jobs[c] > 0, jobs' = [jobs EXCEPT ![c] = @ - 1],
                 UNCHANGED leftOver
          PROVE  /\ jobs' \in [Callers -> 0..MaxJobs] /\ leftOver' \in Nat
                 /\ PendingJobs' = PendingJobs - 1
      <3>1. jobs[c] \in 0..MaxJobs /\ jobs[c] - 1 \in 0..MaxJobs
        BY <2>1, StashAssumption DEF CallsOK
      <3>2. jobs' \in [Callers -> 0..MaxJobs] /\ leftOver' \in Nat
        BY <2>1, <3>1 DEF CallsOK
      <3> QED
        BY <2>1, <3>2, JobRemoved
    <2>2. ASSUME leftOver > 0, leftOver' = leftOver - 1, UNCHANGED jobs
          PROVE  /\ jobs' \in [Callers -> 0..MaxJobs] /\ leftOver' \in Nat
                 /\ PendingJobs' = PendingJobs
      BY <2>2 DEF CallsOK, PendingJobs, JobSlots
    <2>3. PendingJobs \in Nat /\ PendingJobs' \in Nat
      BY SlotsFinite
    <2>4. leftOver \in Nat
      BY DEF CallsOK
    <2> HIDE DEF CallInv
    <2> QED
      BY <2>1, <2>2, <2>3, <2>4
  <1>3. CallsOK'
    BY <1>1, <1>2 DEF CallsOK
  <1>4. NobodyBeside'
    BY <1>1 DEF NobodyBeside
  <1>5. EnoughSignals'
    <2>1. Len(waiting) \in Nat /\ Len(waiting') \in Nat /\ leftOver \in Nat
          /\ lost \in Nat /\ lost' = lost
      BY <1>1 DEF CallsOK
    <2>2. Len(waiting) <= PendingJobs + leftOver + lost
      BY DEF EnoughSignals
    <2>3. CASE Len(waiting') = 0
      <3>1. \A m, n, l \in Nat : 0 <= m + n + l
        OBVIOUS
      <3> QED
        BY <1>2, <2>1, <2>3, <3>1, Zenon DEF EnoughSignals
    <2>4. CASE Len(waiting') = Len(waiting) - 1
      <3>1. \A k, m, n, p, q, r \in Nat :
              k <= m + n + r /\ p + q = m + n - 1 => k - 1 <= p + q + r
        OBVIOUS
      <3>2. Len(waiting) - 1 <= PendingJobs' + leftOver' + lost
        BY <1>2, <2>1, <2>2, <3>1, Zenon
      <3> QED
        BY <2>1, <2>4, <3>2, Zenon DEF EnoughSignals
    <2> QED
      BY <1>1, <2>3, <2>4
  <1> QED
    BY <1>1, <1>3, <1>4, <1>5

\* A job that is discarded is one signal less, and is counted as lost.
LEMMA DiscardKeepsCalls ==
    ASSUME CallInv, JobDiscarded
    PROVE  CallInv'
  <1> USE DEF CallInv
  <1>1. lost' = lost + 1 /\ UNCHANGED <<waiting, caller, elapsed, size>>
    BY DEF JobDiscarded, stashVars
  <1>2. /\ jobs' \in [Callers -> 0..MaxJobs] /\ leftOver' \in Nat
        /\ PendingJobs' + leftOver' = PendingJobs + leftOver - 1
    <2>1. ASSUME NEW c \in Callers, jobs[c] > 0, jobs' = [jobs EXCEPT ![c] = @ - 1],
                 UNCHANGED leftOver
          PROVE  /\ jobs' \in [Callers -> 0..MaxJobs] /\ leftOver' \in Nat
                 /\ PendingJobs' = PendingJobs - 1
      <3>1. jobs[c] \in 0..MaxJobs /\ jobs[c] - 1 \in 0..MaxJobs
        BY <2>1, StashAssumption DEF CallsOK
      <3>2. jobs' \in [Callers -> 0..MaxJobs] /\ leftOver' \in Nat
        BY <2>1, <3>1 DEF CallsOK
      <3> QED
        BY <2>1, <3>2, JobRemoved
    <2>2. ASSUME leftOver > 0, leftOver' = leftOver - 1, UNCHANGED jobs
          PROVE  /\ jobs' \in [Callers -> 0..MaxJobs] /\ leftOver' \in Nat
                 /\ PendingJobs' = PendingJobs
      BY <2>2 DEF CallsOK, PendingJobs, JobSlots
    <2>3. PendingJobs \in Nat /\ leftOver \in Nat
      BY SlotsFinite DEF CallsOK
    <2> HIDE DEF CallInv
    <2> QED
      BY <2>1, <2>2, <2>3 DEF JobDiscarded
  <1>3. CallsOK'
    BY <1>1, <1>2 DEF CallsOK
  <1>4. ListOK' /\ NobodyBeside'
    BY <1>1 DEF ListOK, NobodyBeside
  <1>5. EnoughSignals'
    <2>1. /\ Len(waiting) \in Nat /\ leftOver \in Nat /\ lost \in Nat
          /\ PendingJobs \in Nat /\ PendingJobs' \in Nat /\ leftOver' \in Nat
      BY <1>2, SlotsFinite DEF CallsOK
    <2>2. Len(waiting) <= PendingJobs + leftOver + lost
      BY DEF EnoughSignals
    <2>3. \A k, m, n, p, q, r \in Nat :
            k <= m + n + r /\ p + q = m + n - 1 => k <= p + q + (r + 1)
      OBVIOUS
    <2> QED
      BY <1>1, <1>2, <2>1, <2>2, <2>3, Zenon DEF EnoughSignals
  <1> QED
    BY <1>3, <1>4, <1>5

\* A call returns without an element, and leaves its jobs behind; or with
\* one, and then nobody is asleep.
LEMMA EndKeepsCalls ==
    ASSUME CallInv, NEW c \in Callers, caller[c] # "wait", NEW kept \in Nat,
           EndCall(c, kept), size' <= size, size \in Nat, size' \in Nat,
           size = 0 => kept = jobs[c]
    PROVE  CallInv'
  <1> USE DEF CallInv
  <1>1. /\ jobs' = [jobs EXCEPT ![c] = 0] /\ leftOver' = leftOver + kept
        /\ UNCHANGED <<waiting, lost>> /\ caller' = [caller EXCEPT ![c] = "idle"]
        /\ elapsed' = [elapsed EXCEPT ![c] = FALSE]
    BY DEF EndCall
  <1>2. CallsOK'
    BY <1>1, StashAssumption DEF CallsOK
  <1>3. ListOK' /\ NobodyBeside'
    BY <1>1 DEF ListOK, NobodyBeside, CallsOK
  <1>4. /\ PendingJobs' = PendingJobs - jobs[c]
        /\ PendingJobs \in Nat /\ PendingJobs' \in Nat /\ jobs[c] \in Nat
        /\ leftOver \in Nat /\ leftOver' \in Nat /\ lost \in Nat
    <2>1. PendingJobs \in Nat /\ PendingJobs' \in Nat
      BY SlotsFinite
    <2> QED
      <3>1. jobs[c] \in Nat /\ leftOver \in Nat /\ leftOver' \in Nat /\ lost \in Nat
        BY <1>2, StashAssumption DEF CallsOK
      <3> QED
        BY <1>1, <2>1, <3>1, JobsDropped
  <1>5. EnoughSignals'
    <2>1. CASE size = 0
      <3>1. PendingJobs' + leftOver' = PendingJobs + leftOver
        BY <1>1, <1>4, <2>1
      <3> QED
        BY <1>1, <3>1 DEF EnoughSignals
    <2>2. CASE size # 0
      <3>1. waiting' = << >> /\ Len(waiting') = 0
        BY <1>1, <2>2 DEF NobodyBeside
      <3>2. \A m, n, l \in Nat : 0 <= m + n + l
        OBVIOUS
      <3> QED
        BY <1>1, <1>4, <3>1, <3>2, Zenon DEF EnoughSignals
    <2> QED
      BY <2>1, <2>2
  <1> QED
    BY <1>2, <1>3, <1>5

\* Every step of the stash keeps the callers' invariant.
LEMMA CallStep ==
    ASSUME CallInv, FillInv, FillInv', [Next]_vars
    PROVE  CallInv'
  <1>0. CountersOK /\ size \in Nat /\ size' \in Nat
    BY DEF FillInv, CountersOK
  <1>1. CASE builder \/ doGoOn \/ CreateFails \/ CreatesNothing \/ UNCHANGED vars
    <2>1. UNCHANGED callVars /\ size' = size
      BY <1>1 DEF builder, doGoOn, CreateFails, CreatesNothing, vars, stashVars
    <2> QED
      BY <1>0, <2>1, OthersKeepCalls
  <1>2. CASE CreateSucceeds
    BY <1>2, AddKeepsCalls
  <1>3. ASSUME NEW max \in Concurrencies, SetMaximumConcurrency(max) PROVE CallInv'
    BY <1>0, <1>3, OthersKeepCalls DEF SetMaximumConcurrency
  <1>4. CASE DestroyElement
    BY <1>0, <1>4, OthersKeepCalls DEF DestroyElement
  <1>5. ASSUME NEW c \in Callers, caller[c] # "wait", TakeElement(c) PROVE CallInv'
    <2>1. jobs[c] \in Nat /\ JobsKept(c) \subseteq Nat
      BY StashAssumption DEF CallInv, CallsOK, JobsKept, Less
    <2>2. PICK kept \in JobsKept(c) : EndCall(c, kept)
      BY <1>5 DEF TakeElement
    <2>3. size > 0 /\ size' = size - 1
      BY <1>5 DEF TakeElement
    <2> QED
      BY <1>0, <1>5, <2>1, <2>2, <2>3, EndKeepsCalls
  <1>6. ASSUME NEW c \in Callers, caller[c] # "wait", GiveUp(c) PROVE CallInv'
    <2>1. jobs[c] \in Nat /\ size' = size /\ EndCall(c, jobs[c])
      BY <1>6, StashAssumption DEF CallInv, CallsOK, GiveUp, stashVars
    <2> QED
      BY <1>0, <1>6, <2>1, EndKeepsCalls
  <1>7. ASSUME NEW c \in Callers, WaitForElement(c, TRUE) \/ WaitForElement(c, FALSE)
                                  \/ Wake(c)
        PROVE  CallInv'
    BY <1>5, <1>6, <1>7, WaitKeepsCalls DEF WaitForElement, Wake
  <1>8. ASSUME NEW c \in Callers, JobFires(c) PROVE CallInv'
    BY <1>8, ExpiryKeepsCalls DEF JobFires, stashVars
  <1>9. CASE LeftOverJobFires
    BY <1>9, ExpiryKeepsCalls DEF LeftOverJobFires, stashVars
  <1>10. ASSUME NEW c \in Callers, TimePasses(c) PROVE CallInv'
    <2>1. UNCHANGED <<waiting, caller, jobs, leftOver, lost, size>>
          /\ elapsed' = [elapsed EXCEPT ![c] = TRUE]
      BY <1>10 DEF TimePasses, stashVars
    <2>2. JobSlots' = JobSlots
      BY <2>1 DEF JobSlots
    <2> QED
      BY <2>1, <2>2 DEF CallInv, CallsOK, ListOK, NobodyBeside, EnoughSignals, PendingJobs
  <1>11. CASE JobDiscarded
    BY <1>11, DiscardKeepsCalls
  <1> QED
    BY <1>1, <1>2, <1>3, <1>4, <1>7, <1>8, <1>9, <1>10, <1>11 DEF Next

\* CallInv holds in every reachable state.
LEMMA CallInvariance == Spec => []CallInv
  <1>1. Init => CallInv
    <2> SUFFICES ASSUME Init PROVE CallInv
      OBVIOUS
    <2>1. elapsed \in [Callers -> BOOLEAN]
      BY Zenon DEF Init
    <2>2. CallsOK
      BY <2>1, StashAssumption DEF Init, CallsOK
    <2>3. ListOK /\ NobodyBeside
      BY DEF Init, ListOK, NobodyBeside
    <2>4. EnoughSignals
      BY SlotsFinite DEF Init, EnoughSignals
    <2> QED
      BY <2>2, <2>3, <2>4 DEF CallInv
  <1> QED
    BY <1>1, FillInvariance, CallStep, PTL DEF Spec

\* All variables keep their types.
THEOREM StashTypeCorrect == Spec => []TypeOK
  <1>1. FillInv /\ CallInv => TypeOK
    BY StashAssumption DEF FillInv, CountersOK, CallInv, CallsOK, TypeOK
  <1> QED
    BY <1>1, FillInvariance, CallInvariance, PTL

\* No caller sleeps beside an element, and the condition's list is exactly
\* the sleeping callers, each of them once.
THEOREM StashStrandsNobody == Spec => [](NoStrandedCaller /\ ListOK)
  <1>1. CallInv => NoStrandedCaller /\ ListOK
    BY DEF CallInv, ListOK, NobodyBeside, NoStrandedCaller
  <1> QED
    BY <1>1, CallInvariance, PTL

\* There is a timer job still to fire for every sleeping caller, but for as many
\* as the timer heap discarded, although jobs wake whoever is first in the list.
THEOREM StashEnoughSignals == Spec => []EnoughSignals
  BY CallInvariance, PTL DEF CallInv
=============================================================================
