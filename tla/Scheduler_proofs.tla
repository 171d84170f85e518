-------------------------- MODULE Scheduler_proofs --------------------------
(***************************************************************************)
(* Proofs about Scheduler, for any jobs, delays and periods.               *)
(***************************************************************************)
EXTENDS Scheduler, FiniteSetTheorems, TLAPS

\* The job of a node, and the nodes there are of a job.
IsNode(n) == n = [job |-> n.job, ring |-> n.ring] /\ n.job \in AllJobs
In(j, nodes) == \E n \in nodes : n.job = j
Unique(nodes) == \A m, n \in nodes : m.job = n.job => m = n

\* What the argument needs of the types.
PlacesOK ==
    /\ job \in [AllJobs -> {NoJob} \cup [fixed : BOOLEAN, delay : Periods \cup {Day}]]
    /\ \A n \in heap : IsNode(n)
    /\ \A n \in adders : IsNode(n)
    /\ invoked \subseteq AllJobs /\ dropped \subseteq AllJobs

\* No job has two nodes in the heap or two goroutines that add it.
NodesUnique == Unique(heap) /\ Unique(adders)

\* A job is in at most one of the four places, and in one of them once it
\* is scheduled.
PlacesExclude ==
    \A j \in AllJobs :
        /\ ~(In(j, heap) /\ (In(j, adders) \/ j \in invoked \/ j \in dropped))
        /\ ~(In(j, adders) /\ (j \in invoked \/ j \in dropped))
        /\ ~(j \in invoked /\ j \in dropped)
        /\ job[j] # NoJob <=>
              In(j, heap) \/ In(j, adders) \/ j \in invoked \/ j \in dropped

\* The inductive invariant.
PlaceInv == PlacesOK /\ NodesUnique /\ PlacesExclude

\* A step that hands no job on.
LEMMA NothingMoved ==
    ASSUME PlaceInv, UNCHANGED <<job, heap, adders, invoked, dropped>>
    PROVE  PlaceInv'
  BY DEF PlaceInv, PlacesOK, NodesUnique, PlacesExclude

\* addJob: a job that is nowhere gets a goroutine that will add it.
LEMMA AddJobKeepsInv ==
    ASSUME PlaceInv, NEW j \in Jobs, NEW fixed \in BOOLEAN,
           NEW initialDelay \in InitialDelays, NEW period \in Periods,
           addJob(j, fixed, initialDelay, period)
    PROVE  PlaceInv'
  <1> USE DEF PlaceInv
  <1> DEFINE a == [job |-> j, ring |-> initialDelay]
             new == [fixed |-> fixed, delay |-> period]
  <1>1. /\ job[j] = NoJob /\ job' = [job EXCEPT ![j] = new]
        /\ adders' = adders \cup {a} /\ UNCHANGED <<heap, invoked, dropped>>
    BY DEF addJob
  <1>2. /\ IsNode(a) /\ a.job = j /\ j \in AllJobs
        /\ new \in [fixed : BOOLEAN, delay : Periods \cup {Day}] /\ new # NoJob
    BY SchedulerAssumption DEF IsNode, AllJobs
  <1> HIDE DEF a, new
  <1>3. PlacesOK'
    BY <1>1, <1>2 DEF PlacesOK, IsNode
  <1>4. NodesUnique'
    BY <1>1, <1>2 DEF NodesUnique, Unique, PlacesExclude, In
  <1>5. PlacesExclude'
    BY <1>1, <1>2 DEF PlacesOK, PlacesExclude, In
  <1> QED
    BY <1>3, <1>4, <1>5

\* scheduleNext: from the goroutine to the heap.
LEMMA ScheduleNextKeepsInv ==
    ASSUME PlaceInv, NEW a \in adders, scheduleNext(a)
    PROVE  PlaceInv'
  <1> USE DEF PlaceInv
  <1>1. /\ adders' = adders \ {a} /\ heap' = heap \cup {a}
        /\ UNCHANGED <<job, invoked, dropped>>
    BY DEF scheduleNext, jobVars
  <1>2. a.job \in AllJobs /\ In(a.job, adders)
    BY DEF PlacesOK, IsNode, In
  <1>3. PlacesOK'
    BY <1>1 DEF PlacesOK, IsNode
  <1>4. NodesUnique'
    BY <1>1, <1>2 DEF NodesUnique, Unique, PlacesExclude, In
  <1>5. PlacesExclude'
    BY <1>1, <1>2 DEF NodesUnique, Unique, PlacesExclude, In
  <1> QED
    BY <1>3, <1>4, <1>5

\* runOne takes a cancelled job off the heap.
LEMMA DropKeepsInv ==
    ASSUME PlaceInv, runOneDrops
    PROVE  PlaceInv'
  <1> USE DEF PlaceInv
  <1>1. PICK top \in heap : heap' = heap \ {top} /\ dropped' = dropped \cup {top.job}
    BY DEF runOneDrops, Peek
  <1>2. UNCHANGED <<job, adders, invoked>>
    BY DEF runOneDrops, jobVars
  <1>3. top.job \in AllJobs /\ In(top.job, heap) /\ ~In(top.job, heap')
    BY <1>1 DEF PlacesOK, IsNode, In, NodesUnique, Unique
  <1>4. PlacesOK' /\ NodesUnique'
    BY <1>1, <1>2, <1>3 DEF PlacesOK, IsNode, NodesUnique, Unique
  <1>5. PlacesExclude'
    BY <1>1, <1>2, <1>3 DEF PlacesExclude, In
  <1> QED
    BY <1>4, <1>5

\* runOne runs a job: one of fixed rate is in the heap again, one of fixed
\* delay with the goroutine that runs it.
LEMMA RunKeepsInv ==
    ASSUME PlaceInv, NEW j \in AllJobs, runOneRuns(j)
    PROVE  PlaceInv'
  <1> USE DEF PlaceInv
  <1>1. PICK top \in heap : top.job = j /\ heap' = PutBack(j, heap \ {top})
    BY DEF runOneRuns, Peek
  <1>2. /\ UNCHANGED <<job, adders, dropped>>
        /\ invoked' = IF job[j].fixed THEN invoked ELSE invoked \cup {j}
    BY DEF runOneRuns, jobVars
  <1>3. In(j, heap) /\ ~In(j, heap \ {top})
    BY <1>1 DEF In, NodesUnique, Unique
  <1>4. CASE job[j].fixed
    <2> DEFINE again == [job |-> j, ring |-> NextRing(j)]
    <2>1. heap' = (heap \ {top}) \cup {again} /\ UNCHANGED invoked
      BY <1>1, <1>2, <1>4 DEF PutBack
    <2>2. IsNode(again) /\ again.job = j
      BY DEF IsNode
    <2> HIDE DEF again
    <2>3. PlacesOK' /\ NodesUnique'
      BY <1>2, <1>3, <2>1, <2>2 DEF PlacesOK, IsNode, NodesUnique, Unique, In
    <2>4. PlacesExclude'
      BY <1>2, <1>3, <1>1, <2>1, <2>2 DEF PlacesExclude, In
    <2> QED
      BY <2>3, <2>4
  <1>5. CASE ~job[j].fixed
    <2>1. heap' = heap \ {top} /\ invoked' = invoked \cup {j}
      BY <1>1, <1>2, <1>5 DEF PutBack
    <2>2. PlacesOK' /\ NodesUnique'
      BY <1>2, <2>1 DEF PlacesOK, IsNode, NodesUnique, Unique
    <2>3. PlacesExclude'
      BY <1>1, <1>2, <1>3, <2>1 DEF PlacesExclude, In
    <2> QED
      BY <2>2, <2>3
  <1> QED
    BY <1>4, <1>5

\* The end of invoke hands a fixed-delay job to a goroutine that adds it.
LEMMA InvokeKeepsInv ==
    ASSUME PlaceInv, NEW j \in AllJobs, invoke(j)
    PROVE  PlaceInv'
  <1> USE DEF PlaceInv
  <1> DEFINE a == [job |-> j, ring |-> job[j].delay]
  <1>1. /\ j \in invoked /\ invoked' = invoked \ {j} /\ adders' = adders \cup {a}
        /\ UNCHANGED <<job, heap, dropped>>
    BY DEF invoke, jobVars
  <1>2. IsNode(a) /\ a.job = j
    BY DEF IsNode
  <1> HIDE DEF a
  <1>3. PlacesOK' /\ NodesUnique'
    BY <1>1, <1>2 DEF PlacesOK, IsNode, NodesUnique, Unique, PlacesExclude, In
  <1>4. PlacesExclude'
    BY <1>1, <1>2 DEF PlacesExclude, In
  <1> QED
    BY <1>3, <1>4

\* Counting down keeps every node the node of its job.
LEMMA SoonerEffect ==
    ASSUME NEW nodes, \A n \in nodes : IsNode(n), Unique(nodes)
    PROVE  /\ \A n \in Sooner(nodes) : IsNode(n)
           /\ Unique(Sooner(nodes))
           /\ \A j \in AllJobs : In(j, Sooner(nodes)) <=> In(j, nodes)
  <1> DEFINE sooner(n) == [n EXCEPT !.ring = IF @ > 0 THEN @ - 1 ELSE 0]
  <1>1. Sooner(nodes) = {sooner(n) : n \in nodes}
    BY DEF Sooner
  <1>2. \A n \in nodes : IsNode(sooner(n)) /\ sooner(n).job = n.job
    BY DEF IsNode
  <1> HIDE DEF sooner
  <1> QED
    BY <1>1, <1>2 DEF Unique, In

\* The clock hands nothing on.
LEMMA TickKeepsInv ==
    ASSUME PlaceInv, Tick
    PROVE  PlaceInv'
  <1> USE DEF PlaceInv
  <1>1. /\ heap' = Sooner(heap) /\ adders' = Sooner(adders)
        /\ UNCHANGED <<job, invoked, dropped>>
    BY DEF Tick
  <1>2. /\ \A n \in heap' : IsNode(n)
        /\ \A n \in adders' : IsNode(n)
        /\ Unique(heap') /\ Unique(adders')
        /\ \A j \in AllJobs : In(j, heap') <=> In(j, heap)
        /\ \A j \in AllJobs : In(j, adders') <=> In(j, adders)
    BY <1>1, SoonerEffect DEF PlacesOK, NodesUnique
  <1>3. PlacesOK' /\ NodesUnique'
    BY <1>1, <1>2 DEF PlacesOK, NodesUnique, IsNode, Unique
  <1>4. PlacesExclude'
    BY <1>1, <1>2 DEF PlacesExclude, In
  <1> QED
    BY <1>3, <1>4

\* PlaceInv holds in every reachable state.
LEMMA PlaceInvariance == Spec => []PlaceInv
  <1>1. Init => PlaceInv
    <2> SUFFICES ASSUME Init PROVE PlaceInv
      OBVIOUS
    <2> DEFINE first == [fixed |-> FALSE, delay |-> Day]   a == [job |-> System, ring |-> 0]
    <2>0. first \in [fixed : BOOLEAN, delay : Periods \cup {Day}]
      OBVIOUS
    <2>1. /\ first # NoJob
          /\ IsNode(a) /\ a.job = System /\ System \in AllJobs
      <3>1. first # NoJob
        <4> HIDE DEF first
        <4> QED
          BY <2>0, SchedulerAssumption
      <3> QED
        BY <3>1 DEF IsNode, AllJobs
    <2>2. /\ job = [j \in AllJobs |-> IF j = System THEN first ELSE NoJob]
          /\ heap = {} /\ adders = {a} /\ invoked = {} /\ dropped = {}
      BY DEF Init
    <2> HIDE DEF first, a
    <2>3. PlacesOK /\ NodesUnique
      BY <2>0, <2>1, <2>2 DEF PlacesOK, NodesUnique, Unique, IsNode
    <2>4. PlacesExclude
      BY <2>1, <2>2 DEF PlacesExclude, In
    <2> QED
      BY <2>3, <2>4 DEF PlaceInv
  <1>2. PlaceInv /\ [Next]_vars => PlaceInv'
    <2> SUFFICES ASSUME PlaceInv, [Next]_vars PROVE PlaceInv'
      OBVIOUS
    <2>1. ASSUME NEW j \in Jobs, Schedule(j) PROVE PlaceInv'
      BY <2>1, AddJobKeepsInv DEF Schedule
    <2>2. ASSUME NEW j \in Jobs, Cancel(j) PROVE PlaceInv'
      BY <2>2, NothingMoved DEF Cancel
    <2>3. CASE runOneEmpty \/ runOneSleeps
      BY <2>3, NothingMoved DEF runOneEmpty, runOneSleeps, jobVars
    <2>4. CASE waiter
      BY <2>4, NothingMoved DEF waiter, jobVars
    <2>5. CASE UNCHANGED vars
      BY <2>5, NothingMoved DEF vars, jobVars
    <2> QED
      BY <2>1, <2>2, <2>3, <2>4, <2>5, ScheduleNextKeepsInv, DropKeepsInv, RunKeepsInv,
         InvokeKeepsInv, TickKeepsInv DEF Next, runOne
  <1> QED
    BY <1>1, <1>2, PTL DEF Spec

\* How many nodes a job has.
LEMMA CountOf ==
    ASSUME NEW nodes, Unique(nodes), NEW j
    PROVE  Cardinality(Of(j, nodes)) = IF In(j, nodes) THEN 1 ELSE 0
  <1>1. CASE In(j, nodes)
    <2>1. PICK n \in nodes : n.job = j
      BY <1>1 DEF In
    <2>2. Of(j, nodes) = {n}
      BY <2>1 DEF Of, Unique
    <2> QED
      BY <1>1, <2>2, FS_Singleton
  <1>2. CASE ~In(j, nodes)
    <2>1. Of(j, nodes) = {}
      BY <1>2 DEF Of, In
    <2> QED
      BY <1>2, <2>1, FS_EmptySet
  <1> QED
    BY <1>1, <1>2

\* How often a job is in a set of jobs.
LEMMA CountIn ==
    ASSUME NEW U, NEW j
    PROVE  Cardinality({j} \cap U) = IF j \in U THEN 1 ELSE 0
  <1>1. CASE j \in U
    <2>1. {j} \cap U = {j}
      BY <1>1
    <2> QED
      BY <1>1, <2>1, FS_Singleton
  <1>2. CASE j \notin U
    <2>1. {j} \cap U = {}
      BY <1>2
    <2> QED
      BY <1>2, <2>1, FS_EmptySet
  <1> QED
    BY <1>1, <1>2

\* Whatever runs, is cancelled or ends when: a scheduled job is in exactly
\* one place until it is dropped, so it is neither lost nor doubled, and a
\* fixed-delay job does not overlap itself.
THEOREM JobInOnePlace == Spec => []OnePlace
  <1>1. PlaceInv => OnePlace
    <2> SUFFICES ASSUME PlaceInv, NEW j \in AllJobs
                 PROVE  Cardinality(Of(j, heap)) + Cardinality(Of(j, adders))
                      + Cardinality({j} \cap invoked)
                      + Cardinality({j} \cap dropped) = (IF job[j] = NoJob THEN 0 ELSE 1)
      BY DEF OnePlace
    <2>1. /\ Cardinality(Of(j, heap)) = IF In(j, heap) THEN 1 ELSE 0
          /\ Cardinality(Of(j, adders)) = IF In(j, adders) THEN 1 ELSE 0
          /\ Cardinality({j} \cap invoked) = IF j \in invoked THEN 1 ELSE 0
          /\ Cardinality({j} \cap dropped) = IF j \in dropped THEN 1 ELSE 0
      BY CountOf, CountIn DEF PlaceInv, NodesUnique
    <2> HIDE DEF In
    <2> QED
      BY <2>1 DEF PlaceInv, PlacesExclude
  <1> QED
    BY <1>1, PlaceInvariance, PTL

-----------------------------------------------------------------------------
(* A user's job that shares the scheduler with the system job alone, before *)
(* the latter's second turn.  The job is asked for by two sleeps, to its    *)
(* ring time and to a fudgeFactor before, of which the sleeper records one; *)
(* the system job is asked for too, but later than any user's job can be.   *)

Lone == \E j \in Jobs : Alone(j)

\* A time for which runOne waits although its sleep is too short to be recorded.
TooShort(d) == Fudge < d /\ d <= 2 * Fudge

\* What the argument needs of the times of users.
TimesOK ==
    /\ phase \in [AllJobs -> Nat] /\ number \in [AllJobs -> Nat]
    /\ \A n \in heap : n.job \in Jobs => n.ring \in 0..Reach
    /\ \A a \in adders : a.job \in Jobs => a.ring \in 0..Reach /\ ~TooShort(a.ring)
    /\ \A j \in Jobs : job[j] # NoJob =>
          job[j].delay \in Periods /\ (job[j].fixed => job[j].delay >= 1)

\* A node of the system job that rings after any user's.
Far(n) == n.ring \in 0..Horizon /\ n.ring > Reach + Fudge

\* The system job is due at once, and then far off.
SystemOK ==
    /\ job[System] # NoJob /\ ~job[System].fixed /\ job[System].delay = Day
    /\ cancelled \in [AllJobs -> BOOLEAN] /\ ~cancelled[System]
    /\ System \notin dropped
    /\ \A a \in adders : a.job = System => a.ring = 0 \/ a.ring = Day
    /\ \A n \in heap : n.job = System => Far(n) \/ (n.ring = 0 /\ timer = "look")

\* runOne is about to run the system job.
SystemDue == \E n \in heap : n.job = System /\ n.ring = 0

\* No two jobs in the heap have the same number.
NumbersDiffer == \A m, n \in heap : number[m.job] = number[n.job] => m.job = n.job

\* The sleep s is for node n, by runOne or by scheduleNextWakeUp.
SleepFor(s, n, numbers) ==
    s.id = numbers[n.job] /\ (n.ring = s.ring \/ n.ring = s.ring + Fudge)

\* What is asleep: beyond Reach only sleeps for the system job, and waiters only
\* for them.
SleepsOK(nodes, numbers) ==
    /\ \A s \in sheap :
          /\ s = [id |-> s.id, ring |-> s.ring, closed |-> s.closed, own |-> s.own]
          /\ s.ring \in 0..Horizon
    /\ sjobs = {s.id : s \in sheap}
    /\ swaiters \in [0..Horizon -> Nat]
    /\ \A s \in sheap : s.ring > Reach =>
          \E n \in nodes : n.job = System /\ Far(n) /\ SleepFor(s, n, numbers)
    /\ \A w \in 0..Horizon : w > Reach /\ swaiters[w] > 0 =>
          \E s \in sheap : s.ring = w

\* Nobody sleeps for a user's job.
NobodyNear ==
    /\ \A s \in sheap : s.ring > Reach
    /\ \A w \in 0..Reach : swaiters[w] = 0

\* s is the only sleep for a user's job, and has a waiter that wakes with it.
OnlyNear(s) ==
    /\ s.ring <= Reach
    /\ \A t \in sheap : t.ring <= Reach => t = s
    /\ \A w \in 0..Reach : swaiters[w] = IF w = s.ring THEN 1 ELSE 0

\* Nobody sleeps for a user's job: there is none to wait for, or runOne is about
\* to look at it, or at the system job first, and finds it due or sleeps for it.
NothingAsked ==
    /\ NobodyNear
    /\ timer = "wait" => \A n \in heap : n.job \notin Jobs
    /\ \A n \in heap : n.job \in Jobs /\ ~SystemDue => ~TooShort(n.ring)

\* s is for the user's node n; if runOne looks before s is over, it finds n not
\* yet due and waits for s.
SleptFor(s, n) ==
    /\ n.job \in Jobs /\ SleepFor(s, n, number)
    /\ (timer = "look" \/ ~In(System, heap)) => n.ring > Fudge

Asked == \E s \in sheap, n \in heap : OnlyNear(s) /\ SleptFor(s, n)

\* The inductive invariant.
DayInv ==
    /\ TimesOK /\ SystemOK /\ NumbersDiffer /\ SleepsOK(heap, number)
    /\ NothingAsked \/ Asked

LoneInv == Lone /\ firstDay => DayInv

\* The only user's job and the system job have at most one node each, and none
\* while a goroutine adds it.
LEMMA LoneNodes ==
    ASSUME PlaceInv, Lone
    PROVE  /\ \A m, n \in heap : m.job \in Jobs /\ n.job \in Jobs => m = n
           /\ \A m, n \in heap : m.job = System /\ n.job = System => m = n
           /\ \A a \in adders, n \in heap :
                 ~(a.job \in Jobs /\ n.job \in Jobs) /\ a.job # n.job
           /\ \A n \in heap \cup adders :
                 (n.job \in Jobs /\ n.job # System) \/ n.job = System
  <1>1. PICK j \in Jobs : Alone(j)
    BY DEF Lone
  <1>2. /\ \A n \in heap : n.job \in AllJobs /\ In(n.job, heap)
        /\ \A a \in adders : a.job \in AllJobs /\ In(a.job, adders)
    BY DEF PlaceInv, PlacesOK, IsNode, In
  <1>3. /\ \A n \in heap : n.job \in Jobs => n.job = j
        /\ \A a \in adders : a.job \in Jobs => a.job = j
    BY <1>1, <1>2 DEF PlaceInv, PlacesExclude, Alone
  <1>4. \A a \in adders, n \in heap : a.job # n.job
    BY <1>2 DEF PlaceInv, PlacesExclude
  <1>5. \A n \in heap \cup adders : (n.job \in Jobs /\ n.job # System) \/ n.job = System
    BY <1>2, SchedulerAssumption DEF AllJobs
  <1> QED
    BY <1>3, <1>4, <1>5 DEF PlaceInv, NodesUnique, Unique

\* Every time in the heap is a number.
LEMMA RingsAreNumbers ==
    ASSUME PlaceInv, Lone, TimesOK, SystemOK
    PROVE  \A n \in heap : n.ring \in Nat
  <1>1. ASSUME NEW n \in heap PROVE n.ring \in Nat
    <2>1. CASE n.job \in Jobs
      BY <2>1, SchedulerAssumption DEF TimesOK
    <2>2. CASE n.job = System
      BY <2>2, SchedulerAssumption DEF SystemOK, Far
    <2> QED
      BY <2>1, <2>2, LoneNodes
  <1> QED
    BY <1>1

\* Once another job has been scheduled none is alone any more, and the first
\* day does not come again.
LEMMA LoneBefore ==
    ASSUME [Next]_vars, Lone', firstDay', PlaceInv
    PROVE  Lone /\ firstDay
  <1>1. PICK j \in Jobs : Alone(j)'
    BY DEF Lone
  <1>2. \A k \in Jobs : job[k] # NoJob => job'[k] # NoJob
    <2>1. CASE \E i \in Jobs : Schedule(i)
      <3>1. PICK i \in Jobs : job[i] = NoJob /\ \E new : job' = [job EXCEPT ![i] = new]
        BY <2>1 DEF Schedule, addJob
      <3> QED
        BY <3>1 DEF PlaceInv, PlacesOK
    <2>2. CASE UNCHANGED job
      BY <2>2
    <2> QED
      BY <2>1, <2>2 DEF Next, Cancel, invoke, scheduleNext, runOne, runOneEmpty,
         runOneSleeps, runOneDrops, runOneRuns, waiter, Tick, jobVars, vars
  <1>3. firstDay
    <2>1. CASE Tick
      BY <2>1 DEF Tick
    <2>2. CASE UNCHANGED firstDay
      BY <2>2
    <2> QED
      BY <2>1, <2>2 DEF Next, Schedule, addJob, Cancel, invoke, scheduleNext, runOne,
         runOneEmpty, runOneSleeps, runOneDrops, runOneRuns, waiter, vars
  <1> QED
    BY <1>1, <1>2, <1>3 DEF Lone, Alone

\* NextNumber is not in use.
LEMMA NextNumberIsNew ==
    ASSUME Unused # {}
    PROVE  /\ NextNumber \in Nat /\ NextNumber \notin sjobs
           /\ \A n \in heap : number[n.job] # NextNumber
  BY SchedulerAssumption DEF NextNumber, Unused

\* A multiple of d plus y leaves y, and every number is of this form.
LEMMA Remainders ==
    ASSUME NEW d \in Nat, d >= 1
    PROVE  /\ \A q \in Nat, y \in 0..(d - 1) : (d * q + y) % d = y
           /\ \A b \in Nat : /\ b \div d \in Nat /\ b % d \in 0..(d - 1)
                             /\ b = d * (b \div d) + (b % d)
  <1>1. ASSUME NEW q \in Nat, NEW y \in 0..(d - 1) PROVE (d * q + y) % d = y
    OBVIOUS
  <1>2. ASSUME NEW b \in Nat
        PROVE  /\ b \div d \in Nat /\ b % d \in 0..(d - 1)
               /\ b = d * (b \div d) + (b % d)
    OBVIOUS
  <1> QED
    BY <1>1, <1>2

\* Of d successive numbers one leaves the remainder y.
LEMMA OneOfEach ==
    ASSUME NEW d \in Nat, d >= 1, NEW f \in Nat, NEW y \in 0..(d - 1)
    PROVE  \E r \in f + 1 .. f + d : r % d = y
  <1> DEFINE b == f + 1   q == b \div d   z == b % d
  <1>0. b \in Nat
    OBVIOUS
  <1> HIDE DEF b
  <1>1. q \in Nat /\ z \in 0..(d - 1) /\ b = d * q + z
    BY <1>0, Remainders
  <1> HIDE DEF q, z
  <1>2. d * (q + 1) = d * q + d /\ d * q \in Nat
    BY <1>1
  <1>3. CASE z <= y
    <2>1. d * q + y \in f + 1 .. f + d
      BY <1>1, <1>2, <1>3 DEF b
    <2> QED
      BY <1>1, <2>1, Remainders
  <1>4. CASE ~(z <= y)
    <2>1. d * (q + 1) + y \in f + 1 .. f + d
      BY <1>1, <1>2, <1>4 DEF b
    <2>2. (d * (q + 1) + y) % d = y
      BY <1>1, Remainders
    <2> QED
      BY <2>1, <2>2
  <1> QED
    BY <1>3, <1>4

\* The next time of a fixed-rate job exists: more than a fudgeFactor away, and
\* within Reach.
LEMMA NextRingExists ==
    ASSUME TimesOK, NEW j \in Jobs, job[j] # NoJob, job[j].fixed
    PROVE  NextRing(j) \in 0..Reach /\ NextRing(j) > Fudge
  <1> DEFINE d == job[j].delay   y == phase[j] % d
  <1>1. d \in Periods /\ d \in Nat /\ d >= 1 /\ d + Fudge <= Reach
    BY SchedulerAssumption DEF TimesOK
  <1>2. phase[j] \in Nat /\ Fudge \in Nat /\ Reach \in Nat
    BY SchedulerAssumption DEF TimesOK, AllJobs
  <1>3. NextRing(j) = CHOOSE r \in Fudge + 1 .. Fudge + d : r % d = y
    BY DEF NextRing
  <1> HIDE DEF d
  <1>4. y \in 0..(d - 1)
    BY <1>1, <1>2, Remainders
  <1> HIDE DEF y
  <1>5. \E r \in Fudge + 1 .. Fudge + d : r % d = y
    BY <1>1, <1>2, <1>4, OneOfEach
  <1>6. NextRing(j) \in Fudge + 1 .. Fudge + d
    BY <1>3, <1>5
  <1> HIDE DEF NextRing
  <1> QED
    BY <1>1, <1>2, <1>6

\* Where nobody sleeps for a user's job, all sleeps have the number of the system
\* job's node, so there is none if that number is not asleep.
LEMMA FarSleeps ==
    ASSUME NEW nodes, NEW numbers, SleepsOK(nodes, numbers), NobodyNear
    PROVE  /\ \A s \in sheap : \E n \in nodes : n.job = System /\ Far(n) /\ SleepFor(s, n, numbers)
           /\ \A k \in sjobs : \E n \in nodes : n.job = System /\ Far(n) /\ k = numbers[n.job]
  <1>1. \A s \in sheap : \E n \in nodes : n.job = System /\ Far(n) /\ SleepFor(s, n, numbers)
    BY DEF SleepsOK, NobodyNear
  <1>2. \A k \in sjobs : \E s \in sheap : k = s.id
    BY DEF SleepsOK
  <1> QED
    BY <1>1, <1>2 DEF SleepFor

\* A sleep for a user's job is recorded, with a waiter of its own, when nobody
\* sleeps for it: whoever sleeps for the system job does so for longer.
LEMMA UserSleeps ==
    ASSUME NEW nodes, NEW numbers, SleepsOK(nodes, numbers), NobodyNear,
           NEW d \in 0..Reach, d > Fudge, NEW k, k \notin sjobs, sleep(d, k)
    PROVE  /\ SleepsOK(nodes, numbers)'
           /\ \E s \in sheap' : OnlyNear(s)' /\ s.ring = d /\ s.id = k
  <1>0. /\ Fudge \in Nat /\ Reach \in Nat /\ Horizon \in Nat /\ Reach < Horizon
        /\ d \in Nat /\ d <= Reach /\ d \in 0..Horizon
    <2>1. \A f, r, y, h \in Nat : r + f < y /\ y <= h => r < h
      OBVIOUS
    <2>2. \A r, h \in Nat : r < h => \A x \in 0..r : x \in Nat /\ x <= r /\ x \in 0..h
      OBVIOUS
    <2> QED
      BY <2>1, <2>2, SchedulerAssumption, Zenon
  <1>1. /\ \A s \in sheap : s.ring \in Nat /\ s.ring > Reach
        /\ swaiters \in [0..Horizon -> Nat]
        /\ \A w \in 0..Reach : swaiters[w] = 0
    BY DEF SleepsOK, NobodyNear
  <1>2. S!StartNewThread(d) = TRUE
    BY <1>0, <1>1 DEF S!StartNewThread
  <1>3. S!sleep(d, k)
    BY DEF sleep
  <1>4. PICK s : s = [id |-> k, ring |-> d, closed |-> FALSE, own |-> TRUE]
    OBVIOUS
  <1>5. /\ sjobs' = sjobs \cup {k} /\ sheap' = sheap \cup {s}
        /\ swaiters' = [swaiters EXCEPT ![d] = @ + 1]
    BY <1>2, <1>3, <1>4 DEF S!sleep, S!Go
  <1>6. s.ring = d /\ s.id = k /\ s = [id |-> s.id, ring |-> s.ring, closed |-> s.closed, own |-> s.own]
    BY <1>4
  <1>7. /\ swaiters' \in [0..Horizon -> Nat]
        /\ \A w \in 0..Horizon : swaiters'[w] = IF w = d THEN swaiters[w] + 1 ELSE swaiters[w]
    BY <1>0, <1>1, <1>5
  <1>8. OnlyNear(s)'
    <2>1. \A w \in 0..Reach : w \in 0..Horizon
      BY <1>0
    <2>2. \A w \in 0..Reach : swaiters'[w] = IF w = d THEN 1 ELSE 0
      BY <1>0, <1>1, <1>7, <2>1
    <2>3. \A t \in sheap : ~(t.ring <= Reach)
      BY <1>0, <1>1
    <2> QED
      BY <1>0, <1>5, <1>6, <2>2, <2>3 DEF OnlyNear
  <1>9. SleepsOK(nodes, numbers)'
    <2>1. \A t \in sheap' :
            /\ t = [id |-> t.id, ring |-> t.ring, closed |-> t.closed, own |-> t.own]
            /\ t.ring \in 0..Horizon
      BY <1>0, <1>5, <1>6 DEF SleepsOK
    <2>2. sjobs' = {t.id : t \in sheap'}
      BY <1>5, <1>6 DEF SleepsOK
    <2>3. ~(d > Reach)
      BY <1>0
    <2>4. \A t \in sheap' : t.ring > Reach =>
            \E n \in nodes : n.job = System /\ Far(n) /\ SleepFor(t, n, numbers)
      BY <1>5, <1>6, <2>3 DEF SleepsOK
    <2>5. \A w \in 0..Horizon : w > Reach => swaiters'[w] = swaiters[w]
      BY <1>7, <2>3
    <2>6. \A w \in 0..Horizon : w > Reach /\ swaiters'[w] > 0 => \E t \in sheap' : t.ring = w
      BY <1>5, <2>5 DEF SleepsOK
    <2> QED
      BY <1>7, <2>1, <2>2, <2>4, <2>6 DEF SleepsOK, Far, SleepFor
  <1> QED
    BY <1>5, <1>6, <1>8, <1>9

\* A sleep for the system job's far node is refused or recorded beyond Reach.
LEMMA SystemSleeps ==
    ASSUME NEW nodes, NEW numbers, SleepsOK(nodes, numbers), NobodyNear,
           NEW n \in nodes, n.job = System, Far(n),
           NEW d \in 0..Horizon, n.ring = d \/ n.ring = d + Fudge,
           sleep(d, numbers[System])
    PROVE  SleepsOK(nodes, numbers)' /\ NobodyNear'
  <1> DEFINE k == numbers[System]
  <1>0. /\ Fudge \in Nat /\ Reach \in Nat /\ Horizon \in Nat /\ Reach < Horizon
        /\ d \in Nat /\ d > Reach
    <2>1. \A f, r, y, h \in Nat : r + f < y /\ y <= h => r < h
      OBVIOUS
    <2>2. \A f, r, h \in Nat : \A x \in 0..h, z \in 0..h :
             z > r + f /\ (z = x \/ z = x + f) => x \in Nat /\ x > r
      OBVIOUS
    <2>3. Reach \in Nat /\ Fudge \in Nat /\ Horizon \in Nat /\ Reach < Horizon
      BY <2>1, SchedulerAssumption, Zenon
    <2> QED
      BY <2>2, <2>3, Zenon DEF Far
  <1>1. CASE UNCHANGED sleeperVars
    BY <1>1 DEF SleepsOK, NobodyNear, sleeperVars, Far, SleepFor
  <1>2. CASE k \notin sjobs /\ S!sleep(d, k)
    <2>1. sheap = {} /\ sjobs = {}
      <3>1. \A i \in sjobs : \E m \in nodes : m.job = System /\ Far(m) /\ i = numbers[m.job]
        BY FarSleeps
      <3>2. sjobs = {}
        BY <1>2, <3>1
      <3>3. \A s \in sheap : s.id \in sjobs
        BY DEF SleepsOK
      <3> QED
        BY <3>2, <3>3
    <2>2. S!StartNewThread(d) = TRUE
      BY <2>1 DEF S!StartNewThread
    <2>3. PICK s : s = [id |-> k, ring |-> d, closed |-> FALSE, own |-> TRUE]
      OBVIOUS
    <2>4. /\ sjobs' = {k} /\ sheap' = {s}
          /\ swaiters' = [swaiters EXCEPT ![d] = @ + 1]
      BY <1>2, <2>1, <2>2, <2>3 DEF S!sleep, S!Go
    <2>5. s.ring = d /\ s.id = k /\ s = [id |-> s.id, ring |-> s.ring, closed |-> s.closed, own |-> s.own]
      BY <2>3
    <2>6. swaiters \in [0..Horizon -> Nat] /\ \A w \in 0..Horizon : swaiters[w] = 0
      <3>1. ASSUME NEW w \in 0..Horizon PROVE swaiters[w] = 0
        <4>1. swaiters[w] \in Nat /\ (w > Reach => ~(swaiters[w] > 0))
          BY <2>1 DEF SleepsOK
        <4>2. w \in 0..Reach => swaiters[w] = 0
          BY DEF NobodyNear
        <4> QED
          BY <1>0, <4>1, <4>2
      <3> QED
        BY <3>1 DEF SleepsOK
    <2>7. /\ swaiters' \in [0..Horizon -> Nat]
          /\ \A w \in 0..Horizon : swaiters'[w] = IF w = d THEN 1 ELSE 0
      BY <1>0, <2>4, <2>6
    <2>8. NobodyNear'
      <3>1. \A w \in 0..Reach : w \in 0..Horizon /\ w # d
        BY <1>0
      <3> QED
        BY <1>0, <2>4, <2>5, <2>7, <3>1 DEF NobodyNear
    <2>9. SleepFor(s, n, numbers)
      BY <2>5 DEF SleepFor, k
    <2> HIDE DEF k
    <2>10. SleepsOK(nodes, numbers)'
      <3>1. \A t \in sheap' :
              /\ t = [id |-> t.id, ring |-> t.ring, closed |-> t.closed, own |-> t.own]
              /\ t.ring \in 0..Horizon
        BY <2>4, <2>5
      <3>2. sjobs' = {t.id : t \in sheap'}
        BY <2>4, <2>5
      <3>3. \A t \in sheap' : t.ring > Reach =>
              \E m \in nodes : m.job = System /\ Far(m) /\ SleepFor(t, m, numbers)
        BY <2>4, <2>9
      <3>4. \A w \in 0..Horizon : w > Reach /\ swaiters'[w] > 0 => \E t \in sheap' : t.ring = w
        BY <2>4, <2>5, <2>7
      <3> QED
        BY <2>7, <3>1, <3>2, <3>3, <3>4 DEF SleepsOK, Far, SleepFor
    <2> QED
      BY <2>8, <2>10
  <1> QED
    BY <1>1, <1>2 DEF sleep

\* A sleep that is too short is not recorded.
LEMMA ShortSleep ==
    ASSUME NEW nodes, NEW numbers, SleepsOK(nodes, numbers), NobodyNear,
           NEW d, ~(d > Fudge), NEW k, sleep(d, k)
    PROVE  SleepsOK(nodes, numbers)' /\ NobodyNear'
  BY DEF sleep, SleepsOK, NobodyNear, sleeperVars, Far, SleepFor

\* The system job in the nodes that scheduleNextWakeUp looks at.
SystemIn(nodes) ==
    \A n \in nodes : n.job = System => Far(n) \/ n.ring = 0

\* scheduleNextWakeUp with only the system job left, or nothing.
LEMMA WakeUpForSystem ==
    ASSUME NEW nodes, NEW numbers, SleepsOK(nodes, numbers), NobodyNear,
           SystemIn(nodes), \A n \in nodes : n.job = System,
           scheduleNextWakeUp(nodes, numbers)
    PROVE  SleepsOK(nodes, numbers)' /\ NobodyNear'
  <1>1. CASE UNCHANGED sleeperVars
    BY <1>1 DEF SleepsOK, NobodyNear, sleeperVars, Far, SleepFor
  <1>2. CASE \E top \in nodes : sleep(top.ring, numbers[top.job])
    <2>1. PICK top \in nodes : sleep(top.ring, numbers[top.job])
      BY <1>2
    <2>2. top.job = System /\ (Far(top) \/ top.ring = 0)
      BY DEF SystemIn
    <2>3. CASE Far(top)
      <3>1. PICK d \in 0..Horizon : d = top.ring
        BY <2>3 DEF Far
      <3> QED
        BY <2>1, <2>2, <2>3, <3>1, SystemSleeps
    <2>4. CASE top.ring = 0
      <3>1. ~(0 > Fudge)
        BY SchedulerAssumption
      <3>2. sleep(0, numbers[System])
        BY <2>1, <2>2, <2>4
      <3> QED
        BY <3>1, <3>2, ShortSleep
    <2> QED
      BY <2>2, <2>3, <2>4
  <1> QED
    BY <1>1, <1>2 DEF scheduleNextWakeUp, Peek

\* scheduleNextWakeUp with a user's node u left, more than a fudgeFactor away and
\* with a number that is not asleep: it is slept for, unless the system job is due.
LEMMA WakeUpForUser ==
    ASSUME NEW nodes, NEW numbers, SleepsOK(nodes, numbers), NobodyNear,
           SystemIn(nodes), NEW u \in nodes, u.job \in Jobs,
           \A n \in nodes : n = u \/ n.job = System,
           u.ring \in 0..Reach, u.ring > Fudge, numbers[u.job] \notin sjobs,
           scheduleNextWakeUp(nodes, numbers)
    PROVE  /\ SleepsOK(nodes, numbers)'
           /\ \/ NobodyNear' /\ \E n \in nodes : n.job = System /\ n.ring = 0
              \/ \E s \in sheap' : OnlyNear(s)' /\ s.ring = u.ring /\ s.id = numbers[u.job]
  <1>1. PICK top \in Peek(nodes) : sleep(top.ring, numbers[top.job])
    BY DEF scheduleNextWakeUp
  <1>2. top \in nodes /\ top.ring <= u.ring
    BY DEF Peek
  <1>3. CASE top = u
    <2>1. PICK d \in 0..Reach : d = u.ring
      OBVIOUS
    <2>2. PICK k : k = numbers[u.job]
      OBVIOUS
    <2>3. d > Fudge /\ k \notin sjobs /\ sleep(d, k)
      BY <1>1, <1>3, <2>1, <2>2
    <2> QED
      BY <2>1, <2>2, <2>3, UserSleeps
  <1>4. CASE top.job = System
    <2>1. ~Far(top)
      <3>1. \A r, f, h \in Nat : \A x \in 0..r, z \in 0..h : ~(z > r + f /\ z <= x)
        OBVIOUS
      <3>2. Reach \in Nat /\ Fudge \in Nat /\ Horizon \in Nat
        BY SchedulerAssumption
      <3> QED
        BY <1>2, <3>1, <3>2, Zenon DEF Far
    <2>2. top.ring = 0
      BY <1>2, <1>4, <2>1 DEF SystemIn
    <2>3. ~(0 > Fudge)
      BY SchedulerAssumption
    <2>4. sleep(0, numbers[System])
      BY <1>1, <1>4, <2>2
    <2>5. SleepsOK(nodes, numbers)' /\ NobodyNear'
      BY <2>3, <2>4, ShortSleep
    <2> QED
      BY <1>2, <1>4, <2>2, <2>5
  <1> QED
    BY <1>2, <1>3, <1>4

\* The sleeps only depend on the system job's node and number.
LEMMA SameSleeps ==
    ASSUME NEW nodes, NEW numbers, NEW nodes2, NEW numbers2, SleepsOK(nodes, numbers),
           \A n \in nodes : n.job = System =>
               n \in nodes2 /\ numbers2[System] = numbers[System]
    PROVE  SleepsOK(nodes2, numbers2)
  <1>1. ASSUME NEW s \in sheap, s.ring > Reach
        PROVE  \E n \in nodes2 : n.job = System /\ Far(n) /\ SleepFor(s, n, numbers2)
    <2>1. PICK n \in nodes : n.job = System /\ Far(n) /\ SleepFor(s, n, numbers)
      BY <1>1 DEF SleepsOK
    <2> QED
      BY <2>1 DEF SleepFor
  <1> QED
    BY <1>1 DEF SleepsOK

\* A step that leaves the heap, the numbers, the sleeper and the timer thread alone.
LEMMA LoneUntouched ==
    ASSUME DayInv, TimesOK', SystemOK', UNCHANGED <<number, heap, timer, sleeperVars>>
    PROVE  DayInv'
  <1> USE DEF sleeperVars
  <1>1. NumbersDiffer' /\ SleepsOK(heap, number)'
    BY DEF DayInv, NumbersDiffer, SleepsOK, SleepFor, Far
  <1>2. NothingAsked => NothingAsked'
    BY DEF NothingAsked, NobodyNear, SystemDue, TooShort
  <1>3. Asked => Asked'
    BY DEF Asked, OnlyNear, SleptFor, SleepFor, In
  <1> QED
    BY <1>1, <1>2, <1>3 DEF DayInv

\* scheduleNext: a user's job was not in the heap, so nobody slept for it; the
\* system job was not, so that runOne, woken, finds the user's job due or slept
\* for.
LEMMA LoneScheduleNext ==
    ASSUME PlaceInv, DayInv, Lone, NEW a \in adders, scheduleNext(a)
    PROVE  DayInv'
  <1>0. TimesOK /\ SystemOK /\ NumbersDiffer /\ SleepsOK(heap, number)
    BY DEF DayInv
  <1>1. /\ heap' = heap \cup {a} /\ adders' = adders \ {a} /\ timer' = "look"
        /\ number' = [number EXCEPT ![a.job] = NextNumber]
        /\ UNCHANGED <<job, phase, cancelled, dropped, sheap, sjobs, swaiters>>
    BY DEF scheduleNext, AfterAdd, jobVars, sleeperVars
  <1>2. /\ NextNumber \in Nat /\ NextNumber \notin sjobs
        /\ \A n \in heap : number[n.job] # NextNumber
    BY NextNumberIsNew DEF scheduleNext
  <1>3. \A n \in heap : n.job # a.job /\ ~(a.job \in Jobs /\ n.job \in Jobs)
    BY LoneNodes
  <1>4. /\ (a.job \in Jobs /\ a.job # System) \/ a.job = System
        /\ a.job \in AllJobs /\ \A n \in heap : n.job \in AllJobs
    BY LoneNodes DEF PlaceInv, PlacesOK, IsNode
  <1> HIDE DEF NextNumber
  <1>5. /\ number' \in [AllJobs -> Nat] /\ number'[a.job] = NextNumber
        /\ \A n \in heap : number'[n.job] = number[n.job]
    BY <1>0, <1>1, <1>2, <1>3, <1>4 DEF TimesOK
  <1>6. TimesOK'
    BY <1>0, <1>1, <1>5 DEF TimesOK, TooShort
  <1>7. SystemOK'
    <2>1. Day \in 0..Horizon /\ Day > Reach + Fudge
      BY SchedulerAssumption
    <2>2. a.job = System => Far(a) \/ a.ring = 0
      BY <1>0, <2>1 DEF SystemOK, Far
    <2>3. \A n \in heap : n.job = System => Far(n) \/ n.ring = 0
      BY <1>0 DEF SystemOK
    <2> QED
      BY <1>0, <1>1, <2>2, <2>3 DEF SystemOK, Far
  <1>8. NumbersDiffer'
    BY <1>0, <1>1, <1>2, <1>5 DEF NumbersDiffer
  <1>9. SleepsOK(heap, number)'
    <2>1. PICK nodes, numbers : nodes = heap' /\ numbers = number'
      OBVIOUS
    <2>2. \A n \in heap : n.job = System => n \in nodes /\ numbers[System] = number[System]
      BY <1>1, <1>5, <2>1
    <2>3. SleepsOK(nodes, numbers)
      BY <1>0, <2>2, SameSleeps
    <2> QED
      BY <1>1, <2>1, <2>3 DEF SleepsOK, SleepFor, Far
  <1>10. CASE a.job \in Jobs
    <2>1. NobodyNear
      BY <1>3, <1>10 DEF DayInv, NothingAsked, Asked, SleptFor
    <2>2. ~TooShort(a.ring)
      BY <1>0, <1>10 DEF TimesOK
    <2>3. NothingAsked'
      BY <1>1, <1>3, <1>10, <2>1, <2>2 DEF NothingAsked, NobodyNear, TooShort
    <2> QED
      BY <1>6, <1>7, <1>8, <1>9, <2>3 DEF DayInv
  <1>11. CASE a.job = System
    <2>1. CASE NothingAsked
      <3>1. ~SystemDue' => ~SystemDue
        BY <1>1 DEF SystemDue
      <3>2. a.job \notin Jobs
        BY <1>11, SchedulerAssumption
      <3>3. NothingAsked'
        BY <1>1, <2>1, <3>1, <3>2 DEF NothingAsked, NobodyNear, TooShort
      <3> QED
        BY <1>6, <1>7, <1>8, <1>9, <3>3 DEF DayInv
    <2>2. CASE Asked
      <3>1. PICK s \in sheap, n \in heap : OnlyNear(s) /\ SleptFor(s, n)
        BY <2>2 DEF Asked
      <3>2. ~In(System, heap)
        BY <1>3, <1>11 DEF In
      <3>3. OnlyNear(s)'
        BY <1>1, <3>1 DEF OnlyNear
      <3>4. SleptFor(s, n)'
        BY <1>1, <1>5, <3>1, <3>2 DEF SleptFor, SleepFor
      <3>5. Asked'
        BY <1>1, <3>3, <3>4 DEF Asked
      <3> QED
        BY <1>6, <1>7, <1>8, <1>9, <3>5 DEF DayInv
    <2> QED
      BY <2>1, <2>2 DEF DayInv
  <1> QED
    BY <1>4, <1>10, <1>11

\* No user's job is first in the heap behind the system job's far node, and no far
\* node before a user's.
LEMMA UserBeforeFar ==
    ASSUME TimesOK, NEW n \in heap, n.job \in Jobs, NEW m, Far(m)
    PROVE  ~(m.ring <= n.ring)
  <1>1. \A r, f, h \in Nat : \A x \in 0..r, z \in 0..h : ~(z > r + f /\ z <= x)
    OBVIOUS
  <1>2. Reach \in Nat /\ Fudge \in Nat /\ Horizon \in Nat
    BY SchedulerAssumption
  <1> QED
    BY <1>1, <1>2, Zenon DEF Far, TimesOK

\* runOne finds nothing to do.
LEMMA LoneEmpty ==
    ASSUME PlaceInv, DayInv, Lone, runOneEmpty
    PROVE  DayInv'
  <1>1. /\ heap = {} /\ timer' = "wait"
        /\ UNCHANGED <<job, phase, cancelled, dropped, number, heap, adders, sheap, sjobs, swaiters>>
    BY DEF runOneEmpty, jobVars, sleeperVars
  <1>2. TimesOK'
    BY <1>1 DEF DayInv, TimesOK, TooShort
  <1>3. SystemOK'
    BY <1>1 DEF DayInv, SystemOK, Far
  <1>4. NumbersDiffer' /\ SleepsOK(heap, number)'
    BY <1>1 DEF DayInv, NumbersDiffer, SleepsOK, SleepFor, Far
  <1>5. NothingAsked'
    BY <1>1 DEF DayInv, NothingAsked, Asked, NobodyNear
  <1> QED
    BY <1>2, <1>3, <1>4, <1>5 DEF DayInv

\* runOne waits for the first node: a user's has been slept for, or is now.
LEMMA LoneSleeps ==
    ASSUME PlaceInv, DayInv, Lone, runOneSleeps
    PROVE  DayInv'
  <1>0. TimesOK /\ SystemOK /\ NumbersDiffer /\ SleepsOK(heap, number)
    BY DEF DayInv
  <1>1. /\ timer = "look" /\ timer' = "wait"
        /\ UNCHANGED <<job, phase, cancelled, dropped, number, heap, adders>>
    BY DEF runOneSleeps, jobVars
  <1>2. PICK top \in heap : /\ \A m \in heap : top.ring <= m.ring
                            /\ top.ring > Fudge
                            /\ sleep(top.ring - Fudge, number[top.job])
    BY DEF runOneSleeps, Peek
  <1>3. top.ring \in Nat /\ Fudge \in Nat /\ Reach \in Nat /\ Horizon \in Nat
    BY <1>0, RingsAreNumbers, SchedulerAssumption
  <1>4. \A m \in heap : m.job = System => Far(m)
    <2>1. \A m \in heap : m.ring # 0
      BY <1>2, <1>3
    <2> QED
      BY <1>0, <2>1 DEF SystemOK
  <1>5. ~SystemDue
    BY <1>2, <1>3 DEF SystemDue
  <1>6. TimesOK' /\ SystemOK' /\ NumbersDiffer'
    <2>1. TimesOK'
      BY <1>0, <1>1 DEF TimesOK, TooShort
    <2>2. SystemOK'
      BY <1>0, <1>1, <1>4 DEF SystemOK, Far
    <2>3. NumbersDiffer'
      BY <1>0, <1>1 DEF NumbersDiffer
    <2> QED
      BY <2>1, <2>2, <2>3
  <1>7. PICK nodes, numbers : nodes = heap /\ numbers = number
    OBVIOUS
  <1>8. PICK d \in Nat : d = top.ring - Fudge
    BY <1>2, <1>3
  <1>9. top.ring = d + Fudge /\ sleep(d, numbers[top.job]) /\ SleepsOK(nodes, numbers)
    BY <1>0, <1>2, <1>3, <1>7, <1>8
  <1>10. SleepsOK(nodes, numbers)' => SleepsOK(heap, number)'
    BY <1>1, <1>7 DEF SleepsOK, SleepFor, Far
  <1>11. CASE top.job \in Jobs
    <2>1. top.ring \in 0..Reach
      BY <1>0, <1>11 DEF TimesOK
    <2>2. CASE NothingAsked
      <3>1. ~TooShort(top.ring) /\ NobodyNear
        BY <1>5, <1>11, <2>2 DEF NothingAsked
      <3>2. d > Fudge /\ d \in 0..Reach
        BY <1>2, <1>3, <1>9, <2>1, <3>1 DEF TooShort
      <3>3. numbers[top.job] \notin sjobs
        <4>1. \A k \in sjobs : \E n \in heap : n.job = System /\ k = number[n.job]
          BY <1>0, <3>1, FarSleeps
        <4>2. top.job # System
          BY <1>11, SchedulerAssumption
        <4> QED
          BY <1>0, <1>7, <4>1, <4>2 DEF NumbersDiffer
      <3>4. PICK k : k = numbers[top.job]
        OBVIOUS
      <3>5. /\ SleepsOK(nodes, numbers)'
            /\ \E s \in sheap' : OnlyNear(s)' /\ s.ring = d /\ s.id = k
        BY <1>9, <3>1, <3>2, <3>3, <3>4, UserSleeps
      <3>6. PICK s \in sheap' : OnlyNear(s)' /\ s.ring = d /\ s.id = k
        BY <3>5
      <3>7. SleptFor(s, top)'
        BY <1>1, <1>2, <1>7, <1>9, <1>11, <3>4, <3>6 DEF SleptFor, SleepFor
      <3>8. Asked'
        BY <1>1, <3>6, <3>7 DEF Asked
      <3> QED
        BY <1>6, <1>10, <3>5, <3>8 DEF DayInv
    <2>3. CASE Asked
      <3>1. PICK s \in sheap, n \in heap : OnlyNear(s) /\ SleptFor(s, n)
        BY <2>3 DEF Asked
      <3>2. n = top
        BY <1>11, <3>1, LoneNodes DEF SleptFor
      <3>3. numbers[top.job] \in sjobs
        BY <1>0, <1>7, <3>1, <3>2 DEF SleepsOK, SleptFor, SleepFor
      <3>4. UNCHANGED <<sheap, sjobs, swaiters>>
        BY <1>9, <3>3 DEF sleep, sleeperVars
      <3>5. OnlyNear(s)' /\ SleptFor(s, n)' /\ SleepsOK(heap, number)'
        <4>1. OnlyNear(s)'
          BY <3>1, <3>4 DEF OnlyNear
        <4>2. SleptFor(s, n)'
          BY <1>1, <1>2, <3>1, <3>2 DEF SleptFor, SleepFor
        <4>3. SleepsOK(heap, number)'
          BY <1>0, <1>1, <3>4 DEF SleepsOK, SleepFor, Far
        <4> QED
          BY <4>1, <4>2, <4>3
      <3>6. Asked'
        BY <1>1, <3>1, <3>4, <3>5 DEF Asked
      <3> QED
        BY <1>6, <3>5, <3>6 DEF DayInv
    <2> QED
      BY <2>2, <2>3 DEF DayInv
  <1>12. CASE top.job = System
    <2>1. Far(top)
      BY <1>4, <1>12
    <2>2. \A n \in heap : n.job \notin Jobs
      BY <1>0, <1>2, <2>1, UserBeforeFar
    <2>3. NobodyNear
      BY <2>2 DEF DayInv, NothingAsked, Asked, SleptFor
    <2>4. d \in 0..Horizon
      BY <1>3, <1>9, <2>1 DEF Far
    <2>5. SleepsOK(nodes, numbers)' /\ NobodyNear'
      BY <1>7, <1>9, <1>12, <2>1, <2>3, <2>4, SystemSleeps
    <2>6. NothingAsked'
      BY <1>1, <2>2, <2>5 DEF NothingAsked
    <2> QED
      BY <1>6, <1>10, <2>5, <2>6 DEF DayInv
  <1> QED
    BY <1>11, <1>12, LoneNodes

\* When runOne finds a user's job due, nobody sleeps for it any more.
LEMMA DueIsUnasked ==
    ASSUME PlaceInv, DayInv, Lone, timer = "look", NEW top \in heap,
           top.job \in Jobs, top.ring <= Fudge
    PROVE  NobodyNear
  <1>1. top.ring \in Nat /\ Fudge \in Nat
    BY SchedulerAssumption DEF DayInv, TimesOK
  <1>2. ~Asked
    BY <1>1, LoneNodes DEF Asked, SleptFor
  <1> QED
    BY <1>2 DEF DayInv, NothingAsked

\* A user's job is taken off the heap: the system job may be left.
LEMMA LoneLeaves ==
    ASSUME PlaceInv, DayInv, Lone, timer = "look", NEW top \in heap,
           top.job \in Jobs, top.ring <= Fudge,
           heap' = heap \ {top}, scheduleNextWakeUp(heap \ {top}, number),
           UNCHANGED <<job, phase, cancelled, number, adders, timer>>,
           System \notin dropped'
    PROVE  DayInv'
  <1>0. TimesOK /\ SystemOK /\ NumbersDiffer /\ SleepsOK(heap, number)
    BY DEF DayInv
  <1>1. NobodyNear
    BY DueIsUnasked
  <1>2. TimesOK' /\ SystemOK' /\ NumbersDiffer'
    <2>1. TimesOK'
      BY <1>0 DEF TimesOK, TooShort
    <2>2. SystemOK'
      BY <1>0 DEF SystemOK, Far
    <2>3. NumbersDiffer'
      BY <1>0 DEF NumbersDiffer
    <2> QED
      BY <2>1, <2>2, <2>3
  <1>3. PICK nodes, numbers : nodes = heap \ {top} /\ numbers = number
    OBVIOUS
  <1>4. \A n \in nodes : n.job = System /\ n.job \notin Jobs
    BY <1>3, LoneNodes, SchedulerAssumption
  <1>5. SystemIn(nodes) /\ scheduleNextWakeUp(nodes, numbers)
    BY <1>0, <1>3 DEF SystemIn, SystemOK
  <1>6. SleepsOK(nodes, numbers)
    <2>1. \A n \in heap : n.job = System => n \in nodes /\ numbers[System] = number[System]
      BY <1>3, SchedulerAssumption
    <2> QED
      BY <1>0, <2>1, SameSleeps
  <1>7. SleepsOK(nodes, numbers)' /\ NobodyNear'
    BY <1>1, <1>4, <1>5, <1>6, WakeUpForSystem
  <1>8. SleepsOK(heap, number)'
    BY <1>3, <1>7 DEF SleepsOK, SleepFor, Far
  <1>9. NothingAsked'
    BY <1>3, <1>4, <1>7 DEF NothingAsked
  <1> QED
    BY <1>2, <1>8, <1>9 DEF DayInv

\* The job was cancelled.
LEMMA LoneDrops ==
    ASSUME PlaceInv, DayInv, Lone, runOneDrops
    PROVE  DayInv'
  <1>1. PICK top \in heap : /\ top.ring <= Fudge /\ cancelled[top.job]
                            /\ heap' = heap \ {top} /\ dropped' = dropped \cup {top.job}
                            /\ scheduleNextWakeUp(heap \ {top}, number)
    BY DEF runOneDrops, Peek
  <1>2. timer = "look" /\ UNCHANGED <<job, phase, cancelled, number, adders, timer>>
    BY DEF runOneDrops, jobVars
  <1>3. ~cancelled[System] /\ System \notin dropped
    BY DEF DayInv, SystemOK
  <1>4. top.job # System
    BY <1>1, <1>3
  <1>5. top.job \in Jobs /\ System \notin dropped'
    BY <1>1, <1>3, <1>4, LoneNodes
  <1> QED
    BY <1>1, <1>2, <1>5, LoneLeaves

\* A fixed-rate job is run, put back and slept for at once, unless the system job
\* is due.
LEMMA LoneRunsAtRate ==
    ASSUME PlaceInv, DayInv, Lone, NEW j \in Jobs, job[j].fixed, runOneRuns(j)
    PROVE  DayInv'
  <1>0. TimesOK /\ SystemOK /\ NumbersDiffer /\ SleepsOK(heap, number)
    BY DEF DayInv
  <1>1. PICK top \in heap :
          /\ top.job = j /\ top.ring <= Fudge
          /\ heap' = (heap \ {top}) \cup {[job |-> j, ring |-> NextRing(j)]}
          /\ scheduleNextWakeUp(heap', number')
    BY DEF runOneRuns, Peek, PutBack
  <1>2. /\ timer = "look" /\ Unused # {}
        /\ number' = [number EXCEPT ![j] = NextNumber]
        /\ UNCHANGED <<job, phase, cancelled, adders, dropped, timer>>
    BY DEF runOneRuns, jobVars
  <1>3. NobodyNear
    BY <1>1, <1>2, DueIsUnasked
  <1>4. PICK u : u = [job |-> j, ring |-> NextRing(j)]
    OBVIOUS
  <1>5. u.job = j /\ u.ring \in 0..Reach /\ u.ring > Fudge
    <2>1. job[j] # NoJob
      BY <1>1 DEF PlaceInv, PlacesExclude, In, AllJobs
    <2> HIDE DEF NextRing
    <2> QED
      BY <1>0, <1>4, <2>1, NextRingExists
  <1>6. heap' = (heap \ {top}) \cup {u}
    BY <1>1, <1>4
  <1>7. /\ NextNumber \in Nat /\ NextNumber \notin sjobs
        /\ \A n \in heap : number[n.job] # NextNumber
    BY <1>2, NextNumberIsNew
  <1>8. \A n \in heap \ {top} : n.job = System /\ n.job # j /\ n.job \notin Jobs /\ n.job \in AllJobs
    BY <1>1, LoneNodes, SchedulerAssumption DEF AllJobs
  <1> HIDE DEF NextNumber, NextRing
  <1>9. /\ number' \in [AllJobs -> Nat] /\ number'[j] = NextNumber
        /\ number'[System] = number[System]
    BY <1>0, <1>2, <1>7, SchedulerAssumption DEF TimesOK, AllJobs
  <1>10. TimesOK' /\ SystemOK' /\ NumbersDiffer'
    <2>1. TimesOK'
      BY <1>0, <1>2, <1>5, <1>6, <1>9 DEF TimesOK, TooShort
    <2>2. SystemOK'
      BY <1>0, <1>2, <1>5, <1>6, SchedulerAssumption DEF SystemOK, Far
    <2>3. NumbersDiffer'
      BY <1>0, <1>5, <1>6, <1>7, <1>8, <1>9 DEF NumbersDiffer
    <2> QED
      BY <2>1, <2>2, <2>3
  <1>11. PICK nodes, numbers : nodes = heap' /\ numbers = number'
    OBVIOUS
  <1>12. /\ SystemIn(nodes) /\ u \in nodes /\ \A n \in nodes : n = u \/ n.job = System
         /\ numbers[u.job] \notin sjobs /\ scheduleNextWakeUp(nodes, numbers)
    <2>1. SystemIn(nodes)
      BY <1>10, <1>11 DEF SystemIn, SystemOK, Far
    <2> QED
      BY <1>1, <1>5, <1>6, <1>7, <1>8, <1>9, <1>11, <2>1
  <1>13. SleepsOK(nodes, numbers)
    <2>1. \A n \in heap : n.job = System => n \in nodes /\ numbers[System] = number[System]
      BY <1>1, <1>6, <1>9, <1>11, SchedulerAssumption
    <2> QED
      BY <1>0, <2>1, SameSleeps
  <1>14. /\ SleepsOK(nodes, numbers)'
         /\ \/ NobodyNear' /\ \E n \in nodes : n.job = System /\ n.ring = 0
            \/ \E s \in sheap' : OnlyNear(s)' /\ s.ring = u.ring /\ s.id = numbers[u.job]
    BY <1>3, <1>5, <1>12, <1>13, WakeUpForUser
  <1>15. SleepsOK(heap, number)'
    BY <1>11, <1>14 DEF SleepsOK, SleepFor, Far
  <1>16. CASE NobodyNear' /\ \E n \in nodes : n.job = System /\ n.ring = 0
    <2>1. NothingAsked'
      BY <1>2, <1>11, <1>16 DEF NothingAsked, SystemDue
    <2> QED
      BY <1>10, <1>15, <2>1 DEF DayInv
  <1>17. CASE \E s \in sheap' : OnlyNear(s)' /\ s.ring = u.ring /\ s.id = numbers[u.job]
    <2>1. PICK s \in sheap' : OnlyNear(s)' /\ s.ring = u.ring /\ s.id = numbers[u.job]
      BY <1>17
    <2>2. SleptFor(s, u)'
      BY <1>5, <1>11, <2>1 DEF SleptFor, SleepFor
    <2>3. Asked'
      BY <1>6, <2>1, <2>2 DEF Asked
    <2> QED
      BY <1>10, <1>15, <2>3 DEF DayInv
  <1> QED
    BY <1>14, <1>16, <1>17

\* The system job is run, at start-up or, on the first day, never: a user's job
\* that was behind it is slept for now, if it is not due too.
LEMMA LoneRunsSystem ==
    ASSUME PlaceInv, DayInv, Lone, runOneRuns(System)
    PROVE  DayInv'
  <1>0. TimesOK /\ SystemOK /\ NumbersDiffer /\ SleepsOK(heap, number)
    BY DEF DayInv
  <1>1. ~job[System].fixed
    BY <1>0 DEF SystemOK
  <1>2. PICK top \in heap :
          /\ top.job = System /\ top.ring <= Fudge
          /\ heap' = heap \ {top} /\ scheduleNextWakeUp(heap \ {top}, number)
    BY <1>1 DEF runOneRuns, Peek, PutBack
  <1>3. /\ timer = "look"
        /\ UNCHANGED <<job, phase, cancelled, number, adders, dropped, timer>>
    BY <1>1 DEF runOneRuns, jobVars
  <1>4. Fudge \in Nat /\ Reach \in Nat /\ Horizon \in Nat
    BY SchedulerAssumption
  <1>5. ~Far(top)
    <2>1. \A r, f, h \in Nat : \A z \in 0..h : ~(z > r + f /\ z <= f)
      OBVIOUS
    <2> QED
      BY <1>2, <1>4, <2>1, Zenon DEF Far
  <1>6. \A n \in heap' : n.job \in Jobs /\ n.job # System
    BY <1>2, LoneNodes
  <1>7. TimesOK' /\ SystemOK' /\ NumbersDiffer'
    <2>1. TimesOK'
      BY <1>0, <1>2, <1>3 DEF TimesOK, TooShort
    <2>2. SystemOK'
      BY <1>0, <1>2, <1>3 DEF SystemOK, Far
    <2>3. NumbersDiffer'
      BY <1>0, <1>2, <1>3 DEF NumbersDiffer
    <2> QED
      BY <2>1, <2>2, <2>3
  <1>8. PICK nodes, numbers : nodes = heap' /\ numbers = number'
    OBVIOUS
  <1>9. /\ SystemIn(nodes) /\ scheduleNextWakeUp(nodes, numbers)
        /\ \A n \in nodes : n.job \in Jobs /\ n.job # System
    BY <1>2, <1>3, <1>6, <1>8 DEF SystemIn
  <1>10. \A s \in sheap : ~(s.ring > Reach)
    <2>1. \A n \in heap : n.job = System => ~Far(n)
      BY <1>2, <1>5, LoneNodes
    <2> QED
      BY <1>0, <2>1 DEF SleepsOK
  <1>11. SleepsOK(nodes, numbers)
    BY <1>0, <1>10 DEF SleepsOK
  <1>12. SleepsOK(nodes, numbers)' => SleepsOK(heap, number)'
    BY <1>8 DEF SleepsOK, SleepFor, Far
  <1>13. CASE NothingAsked
    <2>1. NobodyNear /\ sheap = {} /\ sjobs = {}
      BY <1>0, <1>10, <1>13 DEF NothingAsked, NobodyNear, SleepsOK
    <2>2. CASE nodes = {}
      <3>1. SleepsOK(nodes, numbers)' /\ NobodyNear'
        BY <1>9, <1>11, <2>1, <2>2, WakeUpForSystem
      <3>2. NothingAsked'
        BY <1>3, <1>8, <2>2, <3>1 DEF NothingAsked
      <3> QED
        BY <1>7, <1>12, <3>1, <3>2 DEF DayInv
    <2>3. CASE nodes # {}
      <3>1. PICK u \in nodes : TRUE
        BY <2>3
      <3>2. u \in heap /\ u.job \in Jobs /\ u.ring \in 0..Reach
        BY <1>0, <1>2, <1>8, <1>9, <3>1 DEF TimesOK
      <3>3. \A n \in nodes : n = u
        BY <1>2, <1>8, <1>9, <3>2, LoneNodes
      <3>4. CASE u.ring > Fudge
        <4>1. /\ SleepsOK(nodes, numbers)'
              /\ \/ NobodyNear' /\ \E n \in nodes : n.job = System /\ n.ring = 0
                 \/ \E s \in sheap' : OnlyNear(s)' /\ s.ring = u.ring /\ s.id = numbers[u.job]
          BY <1>9, <1>11, <2>1, <3>1, <3>2, <3>3, <3>4, WakeUpForUser
        <4>2. PICK s \in sheap' : OnlyNear(s)' /\ s.ring = u.ring /\ s.id = numbers[u.job]
          BY <1>9, <4>1
        <4>3. SleptFor(s, u)'
          BY <1>8, <3>2, <3>4, <4>2 DEF SleptFor, SleepFor
        <4>4. Asked'
          BY <1>8, <3>1, <4>2, <4>3 DEF Asked
        <4> QED
          BY <1>7, <1>12, <4>1, <4>4 DEF DayInv
      <3>5. CASE ~(u.ring > Fudge)
        <4>1. sleep(u.ring, numbers[u.job])
          BY <1>9, <2>3, <3>3 DEF scheduleNextWakeUp, Peek
        <4>2. SleepsOK(nodes, numbers)' /\ NobodyNear'
          BY <1>11, <2>1, <3>5, <4>1, ShortSleep
        <4>3. ~TooShort(u.ring)
          BY <1>4, <3>2, <3>5 DEF TooShort
        <4>4. NothingAsked'
          BY <1>3, <1>8, <3>3, <4>2, <4>3 DEF NothingAsked, TooShort
        <4> QED
          BY <1>7, <1>12, <4>2, <4>4 DEF DayInv
      <3> QED
        BY <3>4, <3>5
    <2> QED
      BY <2>2, <2>3
  <1>14. CASE Asked
    <2>1. PICK s \in sheap, n \in heap : OnlyNear(s) /\ SleptFor(s, n)
      BY <1>14 DEF Asked
    <2>2. n \in nodes /\ n.job \in Jobs
      BY <1>2, <1>8, <2>1, SchedulerAssumption DEF SleptFor
    <2>3. \A m \in nodes : m = n
      BY <1>2, <1>8, <1>9, <2>2, LoneNodes
    <2>4. sleep(n.ring, numbers[n.job])
      BY <1>9, <2>2, <2>3 DEF scheduleNextWakeUp, Peek
    <2>5. numbers[n.job] \in sjobs
      BY <1>0, <1>3, <1>8, <2>1 DEF SleepsOK, SleptFor, SleepFor
    <2>6. UNCHANGED <<sheap, sjobs, swaiters>>
      BY <2>4, <2>5 DEF sleep, sleeperVars
    <2>7. SleepsOK(nodes, numbers)'
      BY <1>11, <2>6 DEF SleepsOK, SleepFor, Far
    <2>8. OnlyNear(s)'
      BY <2>1, <2>6 DEF OnlyNear
    <2>9. SleptFor(s, n)'
      BY <1>3, <2>1 DEF SleptFor, SleepFor
    <2>10. Asked'
      BY <1>8, <2>1, <2>2, <2>6, <2>8, <2>9 DEF Asked
    <2> QED
      BY <1>7, <1>12, <2>7, <2>10 DEF DayInv
  <1> QED
    BY <1>13, <1>14 DEF DayInv

\* A job is run.
LEMMA LoneRuns ==
    ASSUME PlaceInv, DayInv, Lone, NEW j \in AllJobs, runOneRuns(j)
    PROVE  DayInv'
  <1>1. CASE j = System
    BY <1>1, LoneRunsSystem
  <1>2. CASE j \in Jobs /\ job[j].fixed
    BY <1>2, LoneRunsAtRate
  <1>3. CASE j \in Jobs /\ ~job[j].fixed
    <2>1. PICK top \in heap :
            /\ top.job = j /\ top.ring <= Fudge
            /\ heap' = heap \ {top} /\ scheduleNextWakeUp(heap \ {top}, number)
      BY <1>3 DEF runOneRuns, Peek, PutBack
    <2>2. /\ timer = "look"
          /\ UNCHANGED <<job, phase, cancelled, number, adders, dropped, timer>>
      BY <1>3 DEF runOneRuns, jobVars
    <2>3. System \notin dropped'
      BY <2>2 DEF DayInv, SystemOK
    <2> QED
      BY <1>3, <2>1, <2>2, <2>3, LoneLeaves
  <1> QED
    BY <1>1, <1>2, <1>3 DEF AllJobs

\* A waiter wakes: it is the one of the only sleep for a user's job, which is over.
LEMMA LoneWaiter ==
    ASSUME PlaceInv, DayInv, Lone, waiter
    PROVE  DayInv'
  <1>0. TimesOK /\ SystemOK /\ NumbersDiffer /\ SleepsOK(heap, number)
    BY DEF DayInv
  <1>1. /\ swaiters[0] > 0 /\ swaiters' = [swaiters EXCEPT ![0] = @ - 1]
        /\ sheap' = sheap \ S!Due /\ sjobs' = sjobs \ {n.id : n \in S!Due}
        /\ timer' = IF S!Due # {} THEN "look" ELSE timer
        /\ UNCHANGED <<job, phase, cancelled, dropped, number, heap, adders>>
    BY DEF waiter, S!waiter, S!SleptEnough, S!Forget, jobVars
  <1>2. /\ 0 \in 0..Horizon /\ 0 \in 0..Reach
        /\ Fudge \in Nat /\ Fudge > 0 /\ Reach \in Nat /\ Horizon \in Nat /\ Fudge <= Reach
    BY SchedulerAssumption
  <1>3. ~NothingAsked
    BY <1>1, <1>2 DEF NothingAsked, NobodyNear
  <1>4. PICK s \in sheap, n \in heap : OnlyNear(s) /\ SleptFor(s, n)
    BY <1>3 DEF DayInv, Asked
  <1>5. s.ring = 0
    BY <1>1, <1>2, <1>4 DEF OnlyNear
  <1>6. \A t \in sheap : t # s => t.ring > Reach
    <2>1. \A t \in sheap : t.ring \in Nat
      BY <1>0 DEF SleepsOK
    <2> QED
      BY <1>2, <1>4, <2>1 DEF OnlyNear
  <1>7. S!Due = {s}
    <2>1. \A t \in sheap : t.ring \in Nat
      BY <1>0 DEF SleepsOK
    <2>2. \A t \in sheap : t # s => ~(t.ring < Fudge)
      BY <1>2, <1>6, <2>1
    <2> QED
      BY <1>2, <1>5, <2>2 DEF S!Due
  <1>8. sheap' = sheap \ {s} /\ sjobs' = sjobs \ {s.id} /\ timer' = "look"
    BY <1>1, <1>7
  <1>9. \A t \in sheap : t # s => t.id # s.id
    <2>1. ASSUME NEW t \in sheap, t # s PROVE t.id # s.id
      <3>1. PICK m \in heap : m.job = System /\ SleepFor(t, m, number)
        BY <1>0, <1>6, <2>1 DEF SleepsOK
      <3> QED
        BY <1>0, <1>4, <3>1, SchedulerAssumption DEF NumbersDiffer, SleptFor, SleepFor
    <2> QED
      BY <2>1
  <1>10. /\ swaiters' \in [0..Horizon -> Nat]
         /\ \A w \in 0..Horizon : w > Reach => swaiters'[w] = swaiters[w]
         /\ \A w \in 0..Reach : swaiters'[w] = 0
    <2>1. swaiters \in [0..Horizon -> Nat] /\ Reach <= Horizon
      BY <1>0, SchedulerAssumption DEF SleepsOK
    <2>2. /\ swaiters[0] = 1
          /\ \A w \in 0..Reach : w # 0 => swaiters[w] = 0
      BY <1>2, <1>4, <1>5 DEF OnlyNear
    <2>3. /\ swaiters' \in [0..Horizon -> Nat]
          /\ \A w \in 0..Horizon : swaiters'[w] = IF w = 0 THEN 0 ELSE swaiters[w]
      <3>1. swaiters' = [w \in 0..Horizon |-> IF w = 0 THEN swaiters[w] - 1 ELSE swaiters[w]]
        BY <1>1, <1>2, <2>1
      <3>2. \A w \in 0..Horizon : (IF w = 0 THEN swaiters[w] - 1 ELSE swaiters[w])
                                = IF w = 0 THEN 0 ELSE swaiters[w]
        BY <2>2
      <3> QED
        BY <2>1, <3>1, <3>2
    <2>4. /\ \A w \in 0..Reach : w \in 0..Horizon
          /\ \A w \in 0..Horizon : w > Reach => w # 0
      BY <1>2, <2>1
    <2> QED
      BY <2>2, <2>3, <2>4
  <1>11. NobodyNear'
    BY <1>6, <1>8, <1>10 DEF NobodyNear
  <1>12. SleepsOK(heap, number)'
    <2>1. sjobs' = {t.id : t \in sheap'}
      <3>1. sjobs = {t.id : t \in sheap}
        BY <1>0 DEF SleepsOK
      <3> QED
        BY <1>8, <1>9, <3>1
    <2>2. \A w \in 0..Horizon : w > Reach /\ swaiters'[w] > 0 => \E t \in sheap' : t.ring = w
      <3>1. \A w \in 0..Horizon : w > Reach => s.ring # w
        BY <1>2, <1>5
      <3>2. \A w \in 0..Horizon : w > Reach /\ swaiters[w] > 0 => \E t \in sheap : t.ring = w
        BY <1>0 DEF SleepsOK
      <3> QED
        BY <1>8, <1>10, <3>1, <3>2
    <2>3. \A t \in sheap' : t.ring > Reach =>
            \E m \in heap : m.job = System /\ Far(m) /\ SleepFor(t, m, number)
      BY <1>0, <1>8 DEF SleepsOK
    <2>4. \A t \in sheap' :
            /\ t = [id |-> t.id, ring |-> t.ring, closed |-> t.closed, own |-> t.own]
            /\ t.ring \in 0..Horizon
      BY <1>0, <1>8 DEF SleepsOK
    <2> QED
      BY <1>1, <1>10, <2>1, <2>2, <2>3, <2>4 DEF SleepsOK, SleepFor, Far
  <1>13. ~TooShort(n.ring)
    <2>1. n.ring = 0 \/ n.ring = Fudge
      BY <1>2, <1>4, <1>5 DEF SleptFor, SleepFor
    <2> QED
      BY <1>2, <2>1 DEF TooShort
  <1>14. NothingAsked'
    <2>1. \A m \in heap : m.job \in Jobs => m = n
      BY <1>4, LoneNodes DEF SleptFor
    <2> QED
      BY <1>1, <1>8, <1>11, <1>13, <2>1 DEF NothingAsked, TooShort
  <1>15. TimesOK' /\ SystemOK' /\ NumbersDiffer'
    <2>1. TimesOK'
      BY <1>0, <1>1 DEF TimesOK, TooShort
    <2>2. SystemOK'
      BY <1>0, <1>1, <1>8 DEF SystemOK, Far
    <2>3. NumbersDiffer'
      BY <1>0, <1>1 DEF NumbersDiffer
    <2> QED
      BY <2>1, <2>2, <2>3
  <1> QED
    BY <1>12, <1>14, <1>15 DEF DayInv

\* With prompt threads the clock finds the timer thread waiting, the system job far
\* off, a user's job not yet due and its sleep not yet over.
LEMMA TickFinds ==
    ASSUME Prompt, PlaceInv, DayInv, Lone, Tick
    PROVE  /\ timer = "wait" /\ adders = {} /\ swaiters[0] = 0
           /\ In(System, heap) /\ \A n \in heap : n.job = System => Far(n)
           /\ \/ NobodyNear /\ \A n \in heap : n.job \notin Jobs
              \/ \E s \in sheap, n \in heap :
                    OnlyNear(s) /\ SleptFor(s, n) /\ s.ring > 0 /\ n.ring > 0
  <1>0. TimesOK /\ SystemOK /\ NumbersDiffer /\ SleepsOK(heap, number)
    BY DEF DayInv
  <1>1. timer = "wait" /\ adders = {} /\ swaiters[0] = 0 /\ System \notin invoked
    BY DEF Tick
  <1>2. In(System, heap)
    BY <1>0, <1>1 DEF SystemOK, PlaceInv, PlacesExclude, In, AllJobs
  <1>3. \A n \in heap : n.job = System => Far(n)
    BY <1>0, <1>1 DEF SystemOK
  <1>4. CASE NothingAsked
    BY <1>1, <1>2, <1>3, <1>4 DEF NothingAsked
  <1>5. CASE Asked
    <2>1. PICK s \in sheap, n \in heap : OnlyNear(s) /\ SleptFor(s, n)
      BY <1>5 DEF Asked
    <2>2. s.ring \in Nat /\ Fudge \in Nat /\ Reach \in Nat /\ 0 \in 0..Reach
      BY <1>0, SchedulerAssumption DEF SleepsOK
    <2>3. s.ring > 0
      BY <1>1, <2>1, <2>2 DEF OnlyNear
    <2>4. n.ring > 0
      BY <2>1, <2>2, <2>3 DEF SleptFor, SleepFor
    <2> QED
      BY <1>1, <1>2, <1>3, <2>1, <2>3, <2>4
  <1> QED
    BY <1>4, <1>5 DEF DayInv

\* What the clock does to the sleeper, whether it has something to count down or not.
LEMMA SleeperTick ==
    ASSUME Tick, SleepsOK(heap, number), swaiters[0] = 0, \A s \in sheap : s.ring > 0
    PROVE  /\ sheap' = {[s EXCEPT !.ring = s.ring - 1] : s \in sheap} /\ sjobs' = sjobs
           /\ swaiters' \in [0..Horizon -> Nat]
           /\ \A w \in 0..Horizon :
                swaiters'[w] = IF w < Horizon THEN swaiters[w + 1] ELSE 0
  <1>0. Horizon \in Nat /\ swaiters \in [0..Horizon -> Nat]
    BY SchedulerAssumption DEF SleepsOK
  <1>1. CASE S!Tick
    <2>1. /\ sheap' = {[s EXCEPT !.ring = IF s.ring > 0 THEN s.ring - 1 ELSE 0] : s \in sheap}
          /\ sjobs' = sjobs
          /\ swaiters' = [w \in 0..Horizon |->
                (IF w < Horizon THEN swaiters[w + 1] ELSE 0)
              + (IF w = 0 THEN swaiters[0] ELSE 0)]
      BY <1>1 DEF S!Tick
    <2>2. sheap' = {[s EXCEPT !.ring = s.ring - 1] : s \in sheap}
      BY <2>1
    <2>3. ASSUME NEW w \in 0..Horizon
          PROVE  /\ (IF w < Horizon THEN swaiters[w + 1] ELSE 0) \in Nat
                 /\ (IF w < Horizon THEN swaiters[w + 1] ELSE 0)
                  + (IF w = 0 THEN swaiters[0] ELSE 0)
                  = IF w < Horizon THEN swaiters[w + 1] ELSE 0
      <3>1. w < Horizon => w + 1 \in 0..Horizon
        BY <1>0
      <3>2. (IF w < Horizon THEN swaiters[w + 1] ELSE 0) \in Nat
        BY <1>0, <3>1
      <3> QED
        BY <3>2
    <2> QED
      BY <2>1, <2>2, <2>3
  <1>2. CASE ~SleeperCounts /\ UNCHANGED sleeperVars
    <2>1. sheap = {} /\ \A w \in 1..Horizon : ~(swaiters[w] > 0)
      BY <1>2 DEF SleeperCounts
    <2>2. \A w \in 0..Horizon : swaiters[w] = 0
      <3>1. ASSUME NEW w \in 0..Horizon PROVE swaiters[w] = 0
        <4>1. swaiters[w] \in Nat
          BY <1>0
        <4>2. w = 0 \/ w \in 1..Horizon
          BY <1>0
        <4> QED
          BY <2>1, <4>1, <4>2
      <3> QED
        BY <3>1
    <2>3. \A w \in 0..Horizon : w < Horizon => w + 1 \in 0..Horizon
      BY <1>0
    <2>4. UNCHANGED <<sheap, sjobs, swaiters>>
      BY <1>2 DEF sleeperVars
    <2> QED
      BY <1>0, <2>1, <2>2, <2>3, <2>4
  <1> QED
    BY <1>1, <1>2 DEF Tick

\* The clock brings the jobs, their sleeps and their waiters closer together.
LEMMA LoneTick ==
    ASSUME Prompt, PlaceInv, DayInv, Lone, Tick, firstDay'
    PROVE  DayInv'
  <1> DEFINE sooner(n) == [n EXCEPT !.ring = IF @ > 0 THEN @ - 1 ELSE 0]
             nearer(s) == [s EXCEPT !.ring = s.ring - 1]
  <1>0. TimesOK /\ SystemOK /\ NumbersDiffer /\ SleepsOK(heap, number)
    BY DEF DayInv
  <1>1. /\ timer = "wait" /\ adders = {} /\ swaiters[0] = 0 /\ In(System, heap)
        /\ UNCHANGED <<job, cancelled, number, dropped, timer>>
        /\ heap' = {sooner(n) : n \in heap} /\ adders' = {}
    BY TickFinds DEF Tick, Sooner
  <1>2. Fudge \in Nat /\ Fudge > 0 /\ Reach \in Nat /\ Horizon \in Nat /\ Reach < Horizon
    BY SchedulerAssumption
  <1>3. \A n \in heap : n.ring \in Nat /\ n.job \in AllJobs
    BY <1>0, RingsAreNumbers DEF PlaceInv, PlacesOK, IsNode
  <1>4. \A n \in heap : /\ sooner(n) \in heap' /\ sooner(n).job = n.job
                        /\ sooner(n).ring = IF n.ring > 0 THEN n.ring - 1 ELSE 0
    BY <1>1 DEF PlaceInv, PlacesOK, IsNode
  <1> HIDE DEF sooner
  <1>5. ASSUME NEW y \in heap, y.job = System
        PROVE  /\ y.ring > Reach + Fudge + 1 /\ y.ring \in 0..Horizon
               /\ sooner(y).ring = y.ring - 1 /\ Far(sooner(y))
    <2>1. Far(y)
      BY <1>5, TickFinds
    <2>2. y.ring \in 0..Horizon /\ y.ring > Reach + Fudge /\ y.ring > 0
      BY <1>2, <2>1 DEF Far
    <2>3. sooner(y).ring = y.ring - 1
      BY <1>4, <2>2
    <2>4. \A n \in Of(System, heap') : n.ring > Reach + Fudge
      BY DEF Tick
    <2>5. sooner(y).ring > Reach + Fudge
      BY <1>4, <1>5, <2>4 DEF Of
    <2>6. \A r, f, h \in Nat : \A z \in 0..h : z - 1 > r + f => z > r + f + 1 /\ z - 1 \in 0..h
      OBVIOUS
    <2> QED
      BY <1>2, <2>2, <2>3, <2>5, <2>6 DEF Far
  <1>6. TimesOK'
    <2>1. phase' \in [AllJobs -> Nat]
      <3>1. phase' = [j \in AllJobs |->
              IF job[j] = NoJob \/ ~job[j].fixed THEN 0
              ELSE IF phase[j] = 0 THEN job[j].delay - 1 ELSE phase[j] - 1]
        BY DEF Tick
      <3>2. ASSUME NEW j \in AllJobs, job[j] # NoJob, job[j].fixed
            PROVE  phase[j] \in Nat /\ job[j].delay \in Nat /\ job[j].delay >= 1
        <4>1. j \in Jobs
          BY <1>0, <3>2 DEF SystemOK, AllJobs
        <4> QED
          BY <1>0, <3>2, <4>1, SchedulerAssumption DEF TimesOK
      <3>3. ASSUME NEW j \in AllJobs PROVE phase'[j] \in Nat
        <4>1. phase[j] \in Nat
          BY <1>0 DEF TimesOK
        <4> QED
          BY <3>1, <3>2, <4>1
      <3> QED
        BY <3>1, <3>3
    <2>2. \A n \in heap' : n.job \in Jobs => n.ring \in 0..Reach
      <3>1. ASSUME NEW n \in heap, n.job \in Jobs PROVE sooner(n).ring \in 0..Reach
        <4>1. n.ring \in 0..Reach
          BY <1>0, <3>1 DEF TimesOK
        <4> QED
          BY <1>2, <1>4, <4>1
      <3> QED
        BY <1>1, <1>4, <3>1
    <2> QED
      BY <1>0, <1>1, <2>1, <2>2 DEF TimesOK
  <1>7. SystemOK'
    <2>1. \A n \in heap' : n.job = System => Far(n)
      BY <1>1, <1>4, <1>5
    <2> QED
      BY <1>0, <1>1, <2>1 DEF SystemOK, Far
  <1>8. NumbersDiffer'
    BY <1>0, <1>1, <1>4 DEF NumbersDiffer
  <1>9. \A s \in sheap : s.ring \in Nat /\ s.ring > 0
    <2>1. \A s \in sheap : s.ring \in Nat
      BY <1>0 DEF SleepsOK
    <2>2. CASE NobodyNear
      BY <1>2, <2>1, <2>2 DEF NobodyNear
    <2>3. CASE \E s \in sheap : OnlyNear(s) /\ s.ring > 0
      BY <1>2, <2>1, <2>3 DEF OnlyNear
    <2> QED
      BY <2>1, <2>2, <2>3, TickFinds
  <1>10. /\ sheap' = {nearer(s) : s \in sheap} /\ sjobs' = sjobs
         /\ swaiters' \in [0..Horizon -> Nat]
         /\ \A w \in 0..Horizon :
              swaiters'[w] = IF w < Horizon THEN swaiters[w + 1] ELSE 0
    BY <1>0, <1>1, <1>9, SleeperTick
  <1>11. ASSUME NEW s \in sheap
         PROVE  /\ nearer(s).id = s.id /\ nearer(s).ring = s.ring - 1
                /\ LET t == nearer(s) IN
                   t = [id |-> t.id, ring |-> t.ring, closed |-> t.closed, own |-> t.own]
    BY <1>0 DEF SleepsOK
  <1> HIDE DEF nearer
  <1>12. ASSUME NEW s \in sheap, s.ring > Reach
         PROVE  /\ s.ring > Reach + 1
                /\ \E y \in heap : y.job = System /\ SleepFor(s, y, number)
    <2>1. PICK y \in heap : y.job = System /\ SleepFor(s, y, number)
      BY <1>0, <1>12 DEF SleepsOK
    <2>2. y.ring > Reach + Fudge + 1 /\ (y.ring = s.ring \/ y.ring = s.ring + Fudge)
      BY <1>5, <2>1 DEF SleepFor
    <2>3. \A r, f, x \in Nat : x + f > r + f + 1 => x > r + 1
      OBVIOUS
    <2>4. \A r, f, x \in Nat : x > r + f + 1 => x > r + 1
      OBVIOUS
    <2> QED
      BY <1>2, <1>9, <2>1, <2>2, <2>3, <2>4
  <1>13. SleepsOK(heap, number)'
    <2>1. \A t \in sheap' :
            /\ t = [id |-> t.id, ring |-> t.ring, closed |-> t.closed, own |-> t.own]
            /\ t.ring \in 0..Horizon
      <3>1. \A s \in sheap : s.ring \in 0..Horizon /\ s.ring - 1 \in 0..Horizon
        BY <1>0, <1>2, <1>9 DEF SleepsOK
      <3> QED
        BY <1>10, <1>11, <3>1
    <2>2. sjobs' = {t.id : t \in sheap'}
      <3>1. sjobs = {s.id : s \in sheap}
        BY <1>0 DEF SleepsOK
      <3> QED
        BY <1>10, <1>11, <3>1
    <2>3. ASSUME NEW s \in sheap, nearer(s).ring > Reach
          PROVE  \E n \in heap' : n.job = System /\ Far(n) /\ SleepFor(nearer(s), n, number)
      <3>1. s.ring > Reach
        BY <1>2, <1>9, <1>11, <2>3
      <3>2. PICK y \in heap : y.job = System /\ SleepFor(s, y, number)
        BY <1>12, <3>1
      <3>3. Far(sooner(y)) /\ sooner(y).ring = y.ring - 1
        BY <1>5, <3>2
      <3>4. SleepFor(nearer(s), sooner(y), number)
        BY <1>2, <1>4, <1>9, <1>11, <3>2, <3>3 DEF SleepFor
      <3> QED
        BY <1>4, <3>2, <3>3, <3>4
    <2>4. ASSUME NEW w \in 0..Horizon, w > Reach, swaiters'[w] > 0
          PROVE  \E t \in sheap' : t.ring = w
      <3>1. w < Horizon /\ swaiters[w + 1] > 0
        BY <1>10, <2>4
      <3>2. w + 1 \in 0..Horizon /\ w + 1 > Reach
        BY <1>2, <2>4, <3>1
      <3>3. PICK s \in sheap : s.ring = w + 1
        BY <1>0, <3>1, <3>2 DEF SleepsOK
      <3>4. nearer(s).ring = w
        BY <1>11, <3>3
      <3> QED
        BY <1>10, <3>4
    <2>5. \A t \in sheap' : t.ring > Reach =>
            \E n \in heap' : n.job = System /\ Far(n) /\ SleepFor(t, n, number')
      BY <1>1, <1>10, <2>3
    <2> QED
      BY <1>10, <2>1, <2>2, <2>4, <2>5 DEF SleepsOK, SleepFor, Far
  <1>14. swaiters[Reach + 1] = 0
    <2>1. Reach + 1 \in 0..Horizon /\ Reach + 1 > Reach
      BY <1>2
    <2>2. swaiters[Reach + 1] \in Nat
      BY <1>0, <2>1 DEF SleepsOK
    <2>3. \A s \in sheap : s.ring # Reach + 1
      BY <1>2, <1>9, <1>12
    <2>4. ~(swaiters[Reach + 1] > 0)
      BY <1>0, <2>1, <2>3 DEF SleepsOK
    <2> QED
      BY <2>2, <2>4
  <1>15. \A w \in 0..Reach : swaiters'[w] = swaiters[w + 1] /\ (w + 1 \in 0..Reach \/ w = Reach)
    <2>1. \A w \in 0..Reach : w \in 0..Horizon /\ w < Horizon /\ (w + 1 \in 0..Reach \/ w = Reach)
      BY <1>2
    <2> QED
      BY <1>10, <2>1
  <1>16. CASE NobodyNear /\ \A n \in heap : n.job \notin Jobs
    <2>1. \A s \in sheap : nearer(s).ring > Reach
      BY <1>2, <1>9, <1>11, <1>12, <1>16 DEF NobodyNear
    <2>2. \A w \in 0..Reach : swaiters'[w] = 0
      BY <1>14, <1>15, <1>16 DEF NobodyNear
    <2>3. NobodyNear'
      BY <1>10, <2>1, <2>2 DEF NobodyNear
    <2>4. NothingAsked'
      BY <1>1, <1>4, <1>16, <2>3 DEF NothingAsked
    <2> QED
      BY <1>6, <1>7, <1>8, <1>13, <2>4 DEF DayInv
  <1>17. ASSUME NEW s \in sheap, NEW n \in heap, OnlyNear(s), SleptFor(s, n),
                s.ring > 0, n.ring > 0
         PROVE  DayInv'
    <2>1. PICK t : t = nearer(s)
      OBVIOUS
    <2>2. t \in sheap' /\ t.id = s.id /\ t.ring = s.ring - 1 /\ s.ring <= Reach
      BY <1>10, <1>11, <1>17, <2>1 DEF OnlyNear
    <2>3. t.ring <= Reach
      BY <1>2, <1>9, <2>2
    <2>4. \A u \in sheap' : u.ring <= Reach => u = t
      <3>1. ASSUME NEW v \in sheap, nearer(v).ring <= Reach PROVE v = s
        <4>1. ~(v.ring > Reach)
          BY <1>2, <1>9, <1>11, <1>12, <3>1
        <4>2. v.ring <= Reach
          BY <1>2, <1>9, <4>1
        <4> QED
          BY <1>17, <4>2 DEF OnlyNear
      <3> QED
        BY <1>10, <2>1, <3>1
    <2>5. \A w \in 0..Reach : swaiters'[w] = IF w = t.ring THEN 1 ELSE 0
      <3>1. \A w \in 0..Reach : w + 1 \in 0..Reach =>
              swaiters[w + 1] = IF w + 1 = s.ring THEN 1 ELSE 0
        BY <1>17 DEF OnlyNear
      <3>2. \A w \in 0..Reach : w + 1 = s.ring <=> w = t.ring
        BY <1>2, <1>9, <2>2
      <3>3. Reach # t.ring
        BY <1>2, <1>9, <2>2
      <3> QED
        BY <1>14, <1>15, <3>1, <3>2, <3>3
    <2>6. OnlyNear(t)'
      BY <2>3, <2>4, <2>5 DEF OnlyNear
    <2>7. SleptFor(t, sooner(n))'
      <3>1. /\ n.job \in Jobs /\ s.id = number[n.job]
            /\ n.ring = s.ring \/ n.ring = s.ring + Fudge
        BY <1>17 DEF SleptFor, SleepFor
      <3>2. sooner(n).ring = n.ring - 1 /\ sooner(n).job = n.job
        BY <1>4, <1>17
      <3>3. sooner(n).ring = t.ring \/ sooner(n).ring = t.ring + Fudge
        BY <1>2, <1>3, <1>9, <2>2, <3>1, <3>2
      <3>4. In(System, heap') /\ timer' # "look"
        BY <1>1, <1>4 DEF In
      <3> QED
        BY <1>1, <2>2, <3>1, <3>2, <3>3, <3>4 DEF SleptFor, SleepFor, In
    <2>8. Asked'
      BY <1>4, <2>2, <2>6, <2>7 DEF Asked
    <2> QED
      BY <1>6, <1>7, <1>8, <1>13, <2>8 DEF DayInv
  <1> QED
    BY <1>16, <1>17, TickFinds

\* The invariant holds in every reachable state, unless a delay is too short to be
\* slept for.
LEMMA LoneInvariance ==
    ASSUME Prompt, \A d \in InitialDelays \cup Periods : ~TooShort(d)
    PROVE  Spec => []LoneInv
  <1>1. Init => LoneInv
    <2> SUFFICES ASSUME Init PROVE DayInv
      BY DEF LoneInv
    <2>1. TimesOK
      <3>1. \A j \in Jobs : j \in AllJobs /\ j # System
        BY SchedulerAssumption DEF AllJobs
      <3>2. \A j \in Jobs : job[j] = NoJob
        BY <3>1 DEF Init
      <3>3. \A a \in adders : a.job \notin Jobs
        BY SchedulerAssumption DEF Init
      <3>4. phase \in [AllJobs -> Nat] /\ number \in [AllJobs -> Nat] /\ heap = {}
        BY DEF Init
      <3> QED
        BY <3>2, <3>3, <3>4 DEF TimesOK
    <2>2. SystemOK
      <3> DEFINE first == [fixed |-> FALSE, delay |-> Day]
      <3>1. first \in [fixed : BOOLEAN, delay : Periods \cup {Day}]
        OBVIOUS
      <3>2. ~first.fixed /\ first.delay = Day
        OBVIOUS
      <3>3. job[System] = first
        BY DEF Init, AllJobs
      <3> HIDE DEF first
      <3>4. first # NoJob
        BY <3>1, SchedulerAssumption
      <3>5. \A a \in adders : a.ring = 0
        BY DEF Init
      <3>6. cancelled \in [AllJobs -> BOOLEAN] /\ ~cancelled[System]
        BY DEF Init, AllJobs
      <3>7. heap = {} /\ System \notin dropped
        BY DEF Init
      <3> QED
        BY <3>2, <3>3, <3>4, <3>5, <3>6, <3>7 DEF SystemOK
    <2>3. NumbersDiffer
      BY DEF Init, NumbersDiffer
    <2>4. SleepsOK(heap, number) /\ NobodyNear
      <3>1. sheap = {} /\ sjobs = {} /\ swaiters = [w \in 0..Horizon |-> 0]
        BY DEF Init, S!Init
      <3>2. \A w \in 0..Reach : w \in 0..Horizon
        BY SchedulerAssumption
      <3> QED
        BY <3>1, <3>2 DEF SleepsOK, NobodyNear
    <2>5. NothingAsked
      BY <2>4 DEF Init, NothingAsked
    <2> QED
      BY <2>1, <2>2, <2>3, <2>4, <2>5 DEF DayInv
  <1>2. PlaceInv /\ LoneInv /\ [Next]_vars => LoneInv'
    <2> SUFFICES ASSUME PlaceInv, LoneInv, [Next]_vars, Lone', firstDay' PROVE DayInv'
      BY DEF LoneInv
    <2>0. Lone /\ DayInv /\ TimesOK /\ SystemOK
      BY LoneBefore DEF LoneInv, DayInv
    <2>1. ASSUME NEW j \in Jobs, Schedule(j) PROVE DayInv'
      <3>1. PICK fixed \in BOOLEAN, initialDelay \in InitialDelays, period \in Periods :
                 (fixed => period >= 1) /\ addJob(j, fixed, initialDelay, period)
        BY <2>1 DEF Schedule
      <3>2. /\ job' = [job EXCEPT ![j] = [fixed |-> fixed, delay |-> period]]
            /\ phase' = [phase EXCEPT ![j] = IF fixed THEN initialDelay % period ELSE 0]
            /\ adders' = adders \cup {[job |-> j, ring |-> initialDelay]}
            /\ UNCHANGED <<cancelled, dropped, number, heap, timer, sleeperVars>>
        BY <3>1 DEF addJob, sleeperVars
      <3>3. /\ initialDelay \in 0..Reach /\ initialDelay \in Nat /\ period \in Nat
            /\ ~TooShort(initialDelay) /\ j # System /\ j \in AllJobs
        BY SchedulerAssumption DEF AllJobs
      <3>4. phase' \in [AllJobs -> Nat]
        <4>1. (IF fixed THEN initialDelay % period ELSE 0) \in Nat
          BY <3>1, <3>3, Remainders
        <4> QED
          BY <2>0, <3>2, <4>1 DEF TimesOK
      <3>5. /\ \A i \in Jobs : job'[i] # NoJob =>
                  job'[i].delay \in Periods /\ (job'[i].fixed => job'[i].delay >= 1)
            /\ job'[System] = job[System]
        BY <2>0, <3>1, <3>2, <3>3 DEF TimesOK, PlaceInv, PlacesOK, AllJobs
      <3>6. TimesOK'
        BY <2>0, <3>2, <3>3, <3>4, <3>5 DEF TimesOK, TooShort
      <3>7. SystemOK'
        BY <2>0, <3>2, <3>3, <3>5 DEF SystemOK, Far
      <3> QED
        BY <2>0, <3>2, <3>6, <3>7, LoneUntouched
    <2>2. ASSUME NEW j \in Jobs, Cancel(j) PROVE DayInv'
      <3>1. /\ UNCHANGED <<job, phase, adders, dropped, number, heap, timer, sleeperVars>>
            /\ cancelled' = [cancelled EXCEPT ![j] = TRUE]
        BY <2>2 DEF Cancel, sleeperVars
      <3>2. TimesOK'
        BY <2>0, <3>1 DEF TimesOK, TooShort
      <3>3. cancelled' \in [AllJobs -> BOOLEAN] /\ ~cancelled'[System]
        BY <2>0, <3>1, SchedulerAssumption DEF SystemOK, AllJobs
      <3>4. SystemOK'
        BY <2>0, <3>1, <3>3 DEF SystemOK, Far
      <3> QED
        BY <2>0, <3>1, <3>2, <3>4, LoneUntouched
    <2>3. ASSUME NEW j \in AllJobs, invoke(j) PROVE DayInv'
      <3>1. /\ j \in invoked /\ adders' = adders \cup {[job |-> j, ring |-> job[j].delay]}
            /\ UNCHANGED <<job, phase, cancelled, dropped, number, heap, timer, sleeperVars>>
        BY <2>3 DEF invoke, sleeperVars, jobVars
      <3>2. job[j] # NoJob
        BY <3>1 DEF PlaceInv, PlacesExclude
      <3>3. j \in Jobs => job[j].delay \in 0..Reach /\ ~TooShort(job[j].delay)
        <4>1. \A p \in Periods : p \in 0..Reach /\ ~TooShort(p)
          <5>1. \A p, f, r \in Nat : p + f <= r => p \in 0..r
            OBVIOUS
          <5>2. Fudge \in Nat /\ Reach \in Nat /\ \A p \in Periods : p \in Nat /\ p + Fudge <= Reach
            BY SchedulerAssumption
          <5> QED
            BY <5>1, <5>2
        <4> QED
          BY <2>0, <3>2, <4>1 DEF TimesOK
      <3>4. PICK a : a = [job |-> j, ring |-> job[j].delay]
        OBVIOUS
      <3>5. adders' = adders \cup {a} /\ a.job = j /\ a.ring = job[j].delay
        BY <3>1, <3>4
      <3>6. TimesOK'
        BY <2>0, <3>1, <3>3, <3>5 DEF TimesOK, TooShort
      <3>7. SystemOK'
        BY <2>0, <3>1, <3>5 DEF SystemOK, Far
      <3> QED
        BY <2>0, <3>1, <3>6, <3>7, LoneUntouched
    <2>4. CASE UNCHANGED vars
      <3>1. UNCHANGED <<job, phase, cancelled, dropped, adders, number, heap, timer, sleeperVars>>
        BY <2>4 DEF vars, jobVars, sleeperVars
      <3>2. TimesOK' /\ SystemOK'
        BY <2>0, <3>1 DEF TimesOK, TooShort, SystemOK, Far
      <3> QED
        BY <2>0, <3>1, <3>2, LoneUntouched
    <2> QED
      BY <2>0, <2>1, <2>2, <2>3, <2>4, LoneScheduleNext, LoneEmpty, LoneSleeps,
         LoneDrops, LoneRuns, LoneWaiter, LoneTick DEF Next, runOne
  <1> QED
    BY <1>1, <1>2, PlaceInvariance, PTL DEF Spec

\* Threads that run when they can, and no delay between one and two
\* fudgeFactors: until the system job's second turn comes near, a job that has
\* no other company, of either kind and with whatever delays, is never late.
\* Of the two sleeps for it the sleeper refuses one, and a sleep for the system
\* job may be recorded before, between or after them; they always leave a waiter
\* that wakes runOne in time.
THEOREM LoneJobIsOnTime ==
    ASSUME Prompt, \A d \in InitialDelays \cup Periods : ~TooShort(d)
    PROVE  Spec => LoneJobOnTime
  <1>1. PlaceInv /\ LoneInv /\ [Next]_vars
        => [\A j \in Jobs : Alone(j) /\ firstDay /\ Tick
                => \A n \in Of(j, heap) : n.ring > 0]_vars
    <2> SUFFICES ASSUME PlaceInv, LoneInv, NEW j \in Jobs, Alone(j), firstDay, Tick,
                        NEW n \in heap, n.job = j
                 PROVE  n.ring > 0
      BY DEF Of
    <2>1. Lone /\ DayInv
      BY DEF Lone, LoneInv
    <2>2. PICK s \in sheap, m \in heap : SleptFor(s, m) /\ m.ring > 0
      BY <2>1, TickFinds
    <2>3. m = n
      BY <2>1, <2>2, LoneNodes DEF SleptFor
    <2> QED
      BY <2>2, <2>3
  <1> QED
    BY <1>1, PlaceInvariance, LoneInvariance, PTL DEF Spec, LoneJobOnTime
=============================================================================
