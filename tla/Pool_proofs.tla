---------------------------- MODULE Pool_proofs -----------------------------
(***************************************************************************)
(* Proofs about FunctionQueue and Pool, for any jobs, any capacity and any *)
(* bounds on the number of threads.  The pool's steps are steps of the     *)
(* queue, so what is proved of the queue holds inside the pool.            *)
(***************************************************************************)
EXTENDS Pool, FiniteSetTheorems, SequenceTheorems, TLAPS

-----------------------------------------------------------------------------
(* The queue.                                                              *)

\* Between arming its timer and waiting a consumer holds mux and faces an
\* empty queue, so that no Enqueue comes between the test and the wait.
ArmingHoldsMux ==
    \A c \in Consumers : at[c] = "arming" => mux = c /\ queue = << >>

\* The queue's inductive invariant.
QueueInv == QueueTypeOK /\ FIFO /\ ArmingHoldsMux /\ NoStrandedConsumer

\* A broadcast leaves nobody waiting and moves nobody else.
LEMMA BroadcastEffect ==
    ASSUME QueueTypeOK, Broadcast
    PROVE  /\ at' \in [Consumers -> {"idle", "arming", "wait", "woken"}]
           /\ \A c \in Consumers : /\ at'[c] # "wait"
                                   /\ at'[c] = "arming" <=> at[c] = "arming"
                                   /\ at'[c] = "idle" <=> at[c] = "idle"
  BY DEF QueueTypeOK, Broadcast

\* Starting a callback keeps the count a number.
LEMMA StartCallbackType ==
    ASSUME QueueTypeOK, StartCallback
    PROVE  callbacks' \in Nat
  BY DEF QueueTypeOK, StartCallback

\* A job accepted at the tail comes last in both histories.
LEMMA AppendKeepsOrder ==
    ASSUME NEW S, NEW t \in Seq(S), NEW q \in Seq(S), NEW j \in S
    PROVE  /\ Append(t \o q, j) = t \o Append(q, j)
           /\ Append(q, j) \in Seq(S) /\ Len(Append(q, j)) = Len(q) + 1
  BY SMTT(30)

\* Moving the head of the queue to the end of `taken` changes nothing of
\* the two put together.
LEMMA TakeKeepsOrder ==
    ASSUME NEW S, NEW t \in Seq(S), NEW q \in Seq(S), q # << >>
    PROVE  /\ Append(t, Head(q)) \o Tail(q) = t \o q
           /\ Head(q) \in S /\ Tail(q) \in Seq(S)
           /\ Append(t, Head(q)) \in Seq(S)
           /\ Len(Tail(q)) = Len(q) - 1 /\ Len(q) \in Nat
  BY SMTT(30)

\* Enqueue wakes whoever waits before it lets go of mux.
LEMMA EnqueueKeepsInv ==
    ASSUME QueueInv, NEW j \in Jobs, Enqueue(j)
    PROVE  QueueInv'
  <1> USE DEF QueueInv
  <1>1. QueueTypeOK'
    BY BroadcastEffect, StartCallbackType, AppendKeepsOrder
    DEF Enqueue, AfterEnqueue, QueueTypeOK
  <1>2. FIFO'
    <2>1. /\ Append(taken \o queue, j) = taken \o Append(queue, j)
          /\ Len(Append(queue, j)) = Len(queue) + 1 /\ Len(queue) \in Nat
      <3>1. queue \in Seq(Jobs) /\ taken \in Seq(Jobs)
        BY DEF QueueTypeOK
      <3> QED
        BY <3>1, SMTT(30)
    <2> QED
      BY <2>1, QueueAssumption DEF Enqueue, AtCapacity, FIFO
  <1>3. ArmingHoldsMux' /\ NoStrandedConsumer'
    BY BroadcastEffect, QueueAssumption
    DEF Enqueue, AfterEnqueue, ArmingHoldsMux, NoStrandedConsumer
  <1> QED
    BY <1>1, <1>2, <1>3

\* Whether Dequeue answers a job or ErrEmptyQueue, order is kept.
LEMMA ReturnKeepsInv ==
    ASSUME QueueInv, NEW c \in Consumers, mux = Nobody, ReturnFromDequeue(c)
    PROVE  QueueInv'
  <1> USE DEF QueueInv
  <1>1. /\ at' \in [Consumers -> {"idle", "arming", "wait", "woken"}]
        /\ \A d \in Consumers : at'[d] = IF d = c THEN "idle" ELSE at[d]
        /\ mux' = mux
    BY DEF ReturnFromDequeue, QueueTypeOK
  <1>2. CASE queue = << >> /\ got' = [got EXCEPT ![c] = Empty]
             /\ UNCHANGED <<queue, callbacks, taken>>
    <2>1. QueueTypeOK'
      BY <1>1, <1>2 DEF ReturnFromDequeue, QueueTypeOK
    <2>2. FIFO' /\ ArmingHoldsMux' /\ NoStrandedConsumer'
      BY <1>1, <1>2 DEF ReturnFromDequeue, FIFO, ArmingHoldsMux, NoStrandedConsumer
    <2> QED
      BY <2>1, <2>2
  <1>3. CASE queue # << >> /\ got' = [got EXCEPT ![c] = Head(queue)]
             /\ queue' = Tail(queue) /\ taken' = Append(taken, Head(queue))
             /\ StartCallback
    <2>1. QueueTypeOK'
      BY <1>1, <1>3, TakeKeepsOrder, StartCallbackType DEF ReturnFromDequeue, QueueTypeOK
    <2>2. FIFO'
      <3>0. taken \in Seq(Jobs) /\ queue \in Seq(Jobs) /\ queue # << >>
        BY <1>3 DEF QueueTypeOK
      <3>1. taken' \o queue' = taken \o queue
        <4>1. Append(taken, Head(queue)) \o Tail(queue) = taken \o queue
          BY <3>0, TakeKeepsOrder
        <4> QED
          BY <1>3, <4>1, Zenon
      <3>2. Len(queue') = Len(queue) - 1 /\ Len(queue) \in Nat
        BY <1>3, <3>0, TakeKeepsOrder, Zenon
      <3>3. UNCHANGED accepted
        BY <1>3 DEF ReturnFromDequeue
      <3>4. accepted' = taken' \o queue'
        BY <3>1, <3>3, Zenon DEF FIFO
      <3>5. Len(queue') <= Capacity
        <4>1. Len(queue) <= Capacity
          BY DEF FIFO
        <4> QED
          BY <3>2, <4>1, QueueAssumption
      <3> QED
        BY <3>4, <3>5 DEF FIFO
    <2>3. ArmingHoldsMux' /\ NoStrandedConsumer'
      BY <1>1, <1>3, QueueAssumption DEF ArmingHoldsMux, NoStrandedConsumer
    <2> QED
      BY <2>1, <2>2, <2>3
  <1> QED
    BY <1>2, <1>3 DEF ReturnFromDequeue

\* A consumer arms its timer only before an empty queue.
LEMMA ArmKeepsInv ==
    ASSUME QueueInv, NEW c \in Consumers, mux = Nobody, queue = << >>, Arm(c),
           got' \in [Consumers -> Jobs \cup {Empty, Nothing}]
    PROVE  QueueInv'
  <1> USE DEF QueueInv
  <1>1. /\ at' \in [Consumers -> {"idle", "arming", "wait", "woken"}]
        /\ \A d \in Consumers : at'[d] = IF d = c THEN "arming" ELSE at[d]
    BY DEF Arm, QueueTypeOK
  <1>2. QueueTypeOK'
    BY <1>1 DEF Arm, QueueTypeOK
  <1>3. FIFO' /\ NoStrandedConsumer'
    BY <1>1 DEF Arm, FIFO, NoStrandedConsumer
  <1>4. ArmingHoldsMux'
    BY <1>1, QueueAssumption DEF Arm, ArmingHoldsMux
  <1> QED
    BY <1>2, <1>3, <1>4

\* Dequeue keeps the invariant.
LEMMA DequeueKeepsInv ==
    ASSUME QueueInv, NEW c \in Consumers, NEW w \in Waits, Dequeue(c, w)
    PROVE  QueueInv'
  <1>1. CASE w /\ queue = << >> /\ Arm(c) /\ got' = [got EXCEPT ![c] = Nothing]
    BY <1>1, ArmKeepsInv DEF Dequeue, QueueInv, QueueTypeOK
  <1> QED
    BY <1>1, ReturnKeepsInv DEF Dequeue

\* So do the steps of a Dequeue in progress.
LEMMA DequeueNextKeepsInv ==
    ASSUME QueueInv, NEW c \in Consumers, DequeueNext(c)
    PROVE  QueueInv'
  <1> USE DEF QueueInv
  <1>1. CASE Wait(c)
    BY <1>1 DEF Wait, QueueTypeOK, FIFO, ArmingHoldsMux, NoStrandedConsumer
  <1>2. CASE Wake(c)
    BY <1>2, ArmKeepsInv, ReturnKeepsInv DEF Wake, KeepsWaiting, QueueTypeOK
  <1>3. CASE TimerFires(c)
    <2>1. QueueTypeOK'
      BY <1>3, BroadcastEffect DEF TimerFires, QueueTypeOK
    <2>2. FIFO' /\ ArmingHoldsMux' /\ NoStrandedConsumer'
      BY <1>3, BroadcastEffect
      DEF TimerFires, FIFO, ArmingHoldsMux, NoStrandedConsumer
    <2> QED
      BY <2>1, <2>2
  <1>4. CASE TimePasses(c)
    BY <1>4 DEF TimePasses, QueueTypeOK, FIFO, ArmingHoldsMux, NoStrandedConsumer
  <1> QED
    BY <1>1, <1>2, <1>3, <1>4 DEF DequeueNext

\* QueueInv holds in every reachable state of the queue.
LEMMA QueueInvariance == QueueSpec => []QueueInv
  <1>1. QueueInit => QueueInv
    <2> SUFFICES ASSUME QueueInit PROVE QueueInv
      OBVIOUS
    <2>1. QueueTypeOK
      <3>1. elapsed \in [Consumers -> BOOLEAN] /\ changer \in BOOLEAN
        BY Zenon DEF QueueInit
      <3> QED
        BY <3>1 DEF QueueInit, QueueTypeOK
    <2>2. FIFO
      <3>1. << >> \in Seq(Jobs) /\ Len(<< >>) = 0 /\ << >> \o << >> = << >>
        BY EmptySeq, ConcatEmptySeq, Zenon
      <3> QED
        BY <3>1, QueueAssumption DEF QueueInit, FIFO
    <2>3. ArmingHoldsMux /\ NoStrandedConsumer
      BY DEF QueueInit, ArmingHoldsMux, NoStrandedConsumer
    <2> QED
      BY <2>1, <2>2, <2>3 DEF QueueInv
  <1>2. QueueInv /\ [QueueNext]_queueVars => QueueInv'
    <2>1. QueueInv /\ UNCHANGED queueVars => QueueInv'
      BY DEF queueVars, QueueInv, QueueTypeOK, FIFO, ArmingHoldsMux, NoStrandedConsumer
    <2>2. ASSUME QueueInv, NEW set \in BOOLEAN, SetStateChangeCallback(set)
          PROVE  QueueInv'
      BY <2>2 DEF SetStateChangeCallback, QueueInv, QueueTypeOK, FIFO,
         ArmingHoldsMux, NoStrandedConsumer
    <2>3. ASSUME QueueInv, CallbackDone PROVE QueueInv'
      BY <2>3 DEF CallbackDone, QueueInv, QueueTypeOK, FIFO, ArmingHoldsMux,
         NoStrandedConsumer
    <2> QED
      BY <2>1, <2>2, <2>3, EnqueueKeepsInv, DequeueKeepsInv, DequeueNextKeepsInv
      DEF QueueNext
  <1> QED
    BY <1>1, <1>2, PTL DEF QueueSpec

\* FunctionQueue hands out the jobs in the order it accepted them, each
\* once, and holds at most Capacity of them.
THEOREM QueueIsFIFO == QueueSpec => []FIFO
  BY QueueInvariance, PTL DEF QueueInv

\* No Dequeue sleeps while the queue holds a job.
THEOREM QueueStrandsNobody == QueueSpec => []NoStrandedConsumer
  BY QueueInvariance, PTL DEF QueueInv

\* A waiting Dequeue that answers ErrEmptyQueue has waited out its duration
\* and sees an empty queue.
THEOREM QueueEmptyIsTimeout == QueueSpec => EmptyOnlyAfterTimeout
  <1> DEFINE Good(c) == at[c] = "woken" /\ got'[c] = Empty /\ at'[c] = "idle"
                          => elapsed[c] /\ queue = << >>
  <1>1. ASSUME QueueInv, QueueNext, NEW c \in Consumers PROVE Good(c)
    <2> SUFFICES ASSUME at[c] = "woken", got'[c] = Empty, at'[c] = "idle"
                 PROVE  elapsed[c] /\ queue = << >>
      OBVIOUS
    <2> USE <1>1 DEF QueueInv, QueueTypeOK
    <2>1. ASSUME NEW j \in Jobs, Enqueue(j) PROVE FALSE
      BY <2>1, BroadcastEffect DEF Enqueue, AfterEnqueue
    <2>2. ASSUME NEW d \in Consumers, NEW w \in Waits, Dequeue(d, w) PROVE FALSE
      BY <2>2 DEF Dequeue, Arm, ReturnFromDequeue
    <2>3. ASSUME NEW d \in Consumers, Wait(d) PROVE FALSE
      BY <2>3 DEF Wait
    <2>4. ASSUME NEW d \in Consumers, TimerFires(d) PROVE FALSE
      BY <2>4, BroadcastEffect DEF TimerFires
    <2>5. ASSUME NEW d \in Consumers, TimePasses(d) PROVE FALSE
      BY <2>5 DEF TimePasses
    <2>6. ASSUME NEW d \in Consumers, Wake(d)
          PROVE  elapsed[c] /\ queue = << >>
      <3>1. d = c /\ ~KeepsWaiting(c) /\ ReturnFromDequeue(c)
        BY <2>6 DEF Wake, Arm, ReturnFromDequeue
      <3>2. CASE queue = << >>
        BY <3>1, <3>2 DEF KeepsWaiting
      <3>3. CASE queue # << >>
        <4>1. got'[c] = Head(queue) /\ Head(queue) \in Jobs
          BY <3>1, <3>3, HeadTailProperties DEF ReturnFromDequeue
        <4> QED
          BY <4>1, QueueAssumption
      <3> QED
        BY <3>2, <3>3
    <2>7. ASSUME NEW set \in BOOLEAN, SetStateChangeCallback(set) PROVE FALSE
      BY <2>7 DEF SetStateChangeCallback
    <2>8. ASSUME CallbackDone PROVE FALSE
      BY <2>8 DEF CallbackDone
    <2> QED
      BY <2>1, <2>2, <2>3, <2>4, <2>5, <2>6, <2>7, <2>8 DEF QueueNext, DequeueNext
  <1>2. QueueInv /\ [QueueNext]_queueVars => [\A c \in Consumers : Good(c)]_queueVars
    BY <1>1
  <1> QED
    BY <1>2, QueueInvariance, PTL DEF QueueSpec, EmptyOnlyAfterTimeout

-----------------------------------------------------------------------------
(* The pool.                                                               *)

\* Every step of the pool is a step of its queue or leaves the queue alone.
LEMMA PoolStepIsQueueStep == [Next]_vars => [QueueNext]_queueVars
  <1>1. Start \/ Close => QueueNext
    BY DEF Start, Close, QueueNext
  <1>2. functionalQueueChanged => QueueNext
    BY DEF functionalQueueChanged, QueueNext
  <1>3. ringBell \/ MonitorChecks \/ monitorOnce \/ MonitorSelects => UNCHANGED queueVars
    BY DEF ringBell, MonitorChecks, monitorOnce, MonitorSelects
  <1>4. ASSUME NEW w \in Consumers, WorkerStep(w) PROVE QueueNext \/ UNCHANGED queueVars
    <2>1. WorkerDequeues(w) => QueueNext
      BY DEF WorkerDequeues, QueueNext
    <2> QED
      BY <1>4, <2>1 DEF WorkerStep, WorkerChecks, WorkerLeaves, WorkerWaits, WorkerIdles,
         WorkerGetsJob, WorkerRuns, deleteMapTid
  <1>5. QueueStep => QueueNext
    BY DEF QueueStep, QueueNext
  <1>6. UNCHANGED vars => UNCHANGED queueVars
    BY DEF vars
  <1> QED
    BY <1>1, <1>2, <1>3, <1>4, <1>5, <1>6 DEF Next

\* The pool uses its FunctionQueue as the queue's specification allows, so
\* every safety property of the queue holds of the queue in the pool.
THEOREM PoolUsesQueue == Spec => QueueSpec
  <1>1. Init => QueueInit
    BY DEF Init
  <1> QED
    BY <1>1, PoolStepIsQueueStep, PTL DEF Spec, QueueSpec

\* The jobs of a pool are taken in the order they were accepted, each once.
THEOREM PoolTakesInOrder == Spec => []FIFO
  BY PoolUsesQueue, QueueIsFIFO, PTL

\* No worker of a pool sleeps beside a job.
THEOREM PoolStrandsNobody == Spec => []NoStrandedConsumer
  BY PoolUsesQueue, QueueStrandsNobody, PTL

\* A worker that waited gives up only after idleDecay, with no job there.
THEOREM PoolEmptyIsTimeout == Spec => EmptyOnlyAfterTimeout
  BY PoolUsesQueue, QueueEmptyIsTimeout, PTL

\* Before Start there are no workers and no monitor.
NothingBeforeStart ==
    ~started => /\ currentThreads = 0 /\ monitor = "none"
                /\ \A w \in Consumers : runner[w] = "free"

\* A worker counts itself out at the top of its loop only once closed.
LeavesOnlyClosed == \A w \in Consumers : runner[w] = "leave" => closed

\* The count of an open pool does not fall below minThreads; nor does the
\* number of workers, unless a job ended its worker without counting it.
CountKept == started /\ ~closed => currentThreads >= minThreads
CountExact == BadJobs = {} => Cardinality(Members) = currentThreads

\* The pool's inductive invariant.
PoolInv ==
    /\ PoolTypeOK
    /\ WithinMax
    /\ NothingBeforeStart
    /\ LeavesOnlyClosed
    /\ CountKept
    /\ CountExact

\* Any set of workers is finite.
LEMMA WorkersFinite ==
    ASSUME NEW S \in SUBSET Consumers
    PROVE  IsFiniteSet(S) /\ Cardinality(S) \in Nat
  BY FS_Subset, FS_CardinalityType, PoolAssumption

\* Where a worker can be.
Workplace == {"free", "check", "leave", "setwait", "call", "dequeue", "run", "delete"}

\* One worker goes on to a place where it still counts, or does not any more.
LEMMA GotoEffect ==
    ASSUME PoolTypeOK, NEW w \in Consumers, NEW place \in Workplace, Goto(w, place)
    PROVE  /\ runner' \in [Consumers -> Workplace]
           /\ \A v \in Consumers : runner'[v] = IF v = w THEN place ELSE runner[v]
           /\ w \in Members /\ place \notin {"free", "delete"} => Members' = Members
           /\ w \notin Members /\ place \in {"free", "delete"} => Members' = Members
           /\ w \in Members /\ place \in {"free", "delete"} =>
                /\ Cardinality(Members') = Cardinality(Members) - 1
                /\ Cardinality(Members) \in Nat \ {0}
  <1>1. /\ runner' \in [Consumers -> Workplace]
        /\ \A v \in Consumers : runner'[v] = IF v = w THEN place ELSE runner[v]
    BY DEF Goto, PoolTypeOK, Workplace
  <1>2. (w \in Members <=> place \notin {"free", "delete"}) => Members' = Members
    BY <1>1 DEF Members
  <1>3. ASSUME w \in Members, place \in {"free", "delete"}
        PROVE  /\ Cardinality(Members') = Cardinality(Members) - 1
               /\ Cardinality(Members) \in Nat \ {0}
    <2>1. Members' = Members \ {w}
      BY <1>1, <1>3 DEF Members
    <2>2. IsFiniteSet(Members) /\ Cardinality(Members) \in Nat
      BY WorkersFinite DEF Members
    <2>3. Cardinality(Members) # 0
      BY <1>3, <2>2, FS_EmptySet
    <2> QED
      BY <1>3, <2>1, <2>2, <2>3, FS_RemoveElement
  <1> QED
    BY <1>1, <1>2, <1>3

\* n workers started are n members more.
LEMMA StartEffect ==
    ASSUME PoolTypeOK, NEW n \in Nat, StartWorkers(n)
    PROVE  /\ runner' \in [Consumers -> Workplace]
           /\ \A v \in Consumers : runner'[v] = runner[v] \/ runner'[v] = "check"
           /\ Cardinality(Members') = Cardinality(Members) + n
           /\ Cardinality(Members) \in Nat
           /\ currentThreads' = currentThreads + n
  <1>1. PICK S \in SUBSET FreeSlots :
          /\ Cardinality(S) = n
          /\ runner' = [w \in Consumers |-> IF w \in S THEN "check" ELSE runner[w]]
    BY DEF StartWorkers
  <1>2. S \subseteq Consumers /\ \A w \in S : runner[w] = "free"
    BY <1>1 DEF FreeSlots
  <1>3. Members' = Members \cup S /\ Members \cap S = {}
    BY <1>1, <1>2 DEF Members
  <1>4. /\ IsFiniteSet(Members) /\ IsFiniteSet(S)
        /\ Cardinality(Members) \in Nat
    BY <1>2, WorkersFinite DEF Members
  <1>5. Cardinality(Members') = Cardinality(Members) + n
    BY <1>1, <1>3, <1>4, FS_Union, FS_EmptySet
  <1> QED
    BY <1>1, <1>4, <1>5 DEF StartWorkers, PoolTypeOK, Workplace

\* A step that moves no worker and neither starts nor reopens the pool.
LEMMA OtherStepKeepsInv ==
    ASSUME PoolInv, PoolTypeOK', UNCHANGED <<currentThreads, runner>>,
           started' = started, closed => closed',
           ~started => monitor' = "none"
    PROVE  PoolInv'
  <1>1. Members' = Members
    BY DEF Members
  <1> QED
    BY <1>1 DEF PoolInv, WithinMax, NothingBeforeStart, LeavesOnlyClosed, CountKept,
       CountExact

\* A member that stays a member, or a worker on its way out that goes.
LEMMA MoveKeepsInv ==
    ASSUME PoolInv, PoolTypeOK', NEW w \in Consumers, NEW place \in Workplace,
           Goto(w, place), runner[w] # "free",
           \/ w \in Members /\ place \notin {"free", "delete"}
           \/ w \notin Members /\ place \in {"free", "delete"},
           place = "leave" => closed,
           UNCHANGED <<started, closed, currentThreads, monitor>>
    PROVE  PoolInv'
  <1> USE DEF PoolInv
  <1>1. /\ Members' = Members
        /\ \A v \in Consumers : runner'[v] = IF v = w THEN place ELSE runner[v]
    BY GotoEffect
  <1>2. started
    BY DEF NothingBeforeStart
  <1> QED
    BY <1>1, <1>2 DEF WithinMax, NothingBeforeStart, LeavesOnlyClosed, CountKept, CountExact

\* A member that counts itself out, of a pool that is closed or can spare it.
LEMMA LeaveKeepsInv ==
    ASSUME PoolInv, PoolTypeOK', NEW w \in Members, Goto(w, "delete"),
           currentThreads' = currentThreads - 1,
           closed \/ currentThreads > minThreads,
           UNCHANGED <<started, closed, monitor>>
    PROVE  PoolInv'
  <1> USE DEF PoolInv
  <1>1. w \in Consumers /\ "delete" \in Workplace
    BY DEF Members, Workplace
  <1>2. /\ Cardinality(Members') = Cardinality(Members) - 1
        /\ Cardinality(Members) \in Nat \ {0}
        /\ \A v \in Consumers : runner'[v] = IF v = w THEN "delete" ELSE runner[v]
    BY <1>1, GotoEffect
  <1>3. currentThreads \in Nat /\ minThreads \in Nat /\ maxThreads \in Nat
    BY PoolAssumption DEF PoolTypeOK
  <1>4. started
    BY <1>1 DEF NothingBeforeStart, Members
  <1>5. WithinMax' /\ CountKept' /\ CountExact'
    BY <1>2, <1>3, <1>4 DEF WithinMax, CountKept, CountExact
  <1>6. NothingBeforeStart' /\ LeavesOnlyClosed'
    BY <1>2, <1>4 DEF NothingBeforeStart, LeavesOnlyClosed
  <1> QED
    BY <1>5, <1>6

\* A member that ends without counting itself out, as a bad job makes it.
LEMMA VanishKeepsInv ==
    ASSUME PoolInv, PoolTypeOK', NEW w \in Members, Goto(w, "delete"),
           BadJobs # {}, UNCHANGED <<started, closed, currentThreads, monitor>>
    PROVE  PoolInv'
  <1> USE DEF PoolInv
  <1>1. w \in Consumers /\ "delete" \in Workplace
    BY DEF Members, Workplace
  <1>2. /\ Cardinality(Members') = Cardinality(Members) - 1
        /\ Cardinality(Members) \in Nat \ {0}
        /\ \A v \in Consumers : runner'[v] = IF v = w THEN "delete" ELSE runner[v]
    BY <1>1, GotoEffect
  <1>3. started /\ currentThreads \in Nat
    BY <1>1 DEF NothingBeforeStart, Members, PoolTypeOK
  <1> QED
    BY <1>2, <1>3 DEF WithinMax, NothingBeforeStart, LeavesOnlyClosed, CountKept, CountExact

\* Start's workers are minThreads, the monitor's no more than there is room for.
LEMMA GrowKeepsInv ==
    ASSUME PoolInv, PoolTypeOK', NEW n \in Nat, StartWorkers(n),
           currentThreads + n <= maxThreads,
           currentThreads + n >= minThreads \/ closed, started', UNCHANGED closed
    PROVE  PoolInv'
  <1> USE DEF PoolInv
  <1>1. /\ \A v \in Consumers : runner'[v] = runner[v] \/ runner'[v] = "check"
        /\ Cardinality(Members') = Cardinality(Members) + n
        /\ Cardinality(Members) \in Nat
        /\ currentThreads' = currentThreads + n
    BY StartEffect
  <1>2. currentThreads \in Nat /\ minThreads \in Nat /\ maxThreads \in Nat
    BY PoolAssumption DEF PoolTypeOK
  <1>3. WithinMax' /\ CountKept' /\ CountExact'
    BY <1>1, <1>2 DEF WithinMax, CountKept, CountExact
  <1>4. NothingBeforeStart' /\ LeavesOnlyClosed'
    BY <1>1 DEF NothingBeforeStart, LeavesOnlyClosed
  <1> QED
    BY <1>3, <1>4

\* monitorOnce adds a number of workers that fits.
LEMMA NumberToAddFits ==
    ASSUME PoolInv
    PROVE  NumberToAdd \in Nat /\ currentThreads + NumberToAdd <= maxThreads
  <1>1. Len(queue) \in Nat
    BY LenProperties DEF PoolInv, PoolTypeOK, QueueTypeOK
  <1>2. NumWaiting \in Nat
    BY WorkersFinite DEF NumWaiting
  <1>3. currentThreads \in Nat /\ maxThreads \in Nat /\ currentThreads <= maxThreads
    BY PoolAssumption DEF PoolInv, PoolTypeOK, WithinMax
  <1> QED
    BY <1>1, <1>2, <1>3 DEF NumberToAdd

\* The count is positive while there is a member.
LEMMA MemberCounted ==
    ASSUME PoolInv, NEW w \in Members
    PROVE  currentThreads - 1 \in Nat
  <1>1. IsFiniteSet(Members) /\ Cardinality(Members) \in Nat
    BY WorkersFinite DEF Members
  <1>2. Cardinality(Members) # 0
    BY <1>1, FS_EmptySet
  <1> QED
    BY <1>1, <1>2 DEF PoolInv, WithinMax, PoolTypeOK

\* Each step of a worker.
LEMMA WorkerKeepsInv ==
    ASSUME PoolInv, QueueTypeOK', NEW w \in Consumers, WorkerStep(w)
    PROVE  PoolInv'
  <1>0. /\ PoolTypeOK
        /\ {"leave", "setwait", "check", "call", "dequeue", "run", "free", "delete"}
             \subseteq Workplace
    BY DEF PoolInv, Workplace
  <1>1. CASE WorkerChecks(w)
    <2>1. w \in Members /\ Goto(w, IF closed THEN "leave" ELSE "setwait")
      BY <1>1 DEF WorkerChecks, Members
    <2>2. PoolTypeOK'
      BY <1>0, <1>1, <2>1, GotoEffect DEF WorkerChecks, PoolTypeOK, Workplace
    <2> QED
      BY <1>0, <1>1, <2>1, <2>2, MoveKeepsInv DEF WorkerChecks
  <1>2. CASE WorkerLeaves(w)
    <2>1. w \in Members /\ Goto(w, "delete") /\ closed
      BY <1>2 DEF WorkerLeaves, Members, PoolInv, LeavesOnlyClosed
    <2>2. PoolTypeOK'
      BY <1>0, <1>2, <2>1, GotoEffect, MemberCounted DEF WorkerLeaves, PoolTypeOK, Workplace
    <2> QED
      BY <1>2, <2>1, <2>2, LeaveKeepsInv DEF WorkerLeaves
  <1>3. CASE WorkerWaits(w)
    <2>1. w \in Members /\ Goto(w, "call")
      BY <1>3 DEF WorkerWaits, Members
    <2>2. PoolTypeOK'
      BY <1>0, <1>3, <2>1, GotoEffect DEF WorkerWaits, changeMapState, PoolTypeOK, Workplace
    <2> QED
      BY <1>0, <1>3, <2>1, <2>2, MoveKeepsInv DEF WorkerWaits
  <1>4. CASE WorkerDequeues(w)
    <2>1. w \in Members /\ Goto(w, "dequeue")
      BY <1>4 DEF WorkerDequeues, Members
    <2>2. PoolTypeOK'
      BY <1>0, <1>4, <2>1, GotoEffect DEF WorkerDequeues, PoolTypeOK, Workplace
    <2> QED
      BY <1>0, <1>4, <2>1, <2>2, MoveKeepsInv DEF WorkerDequeues
  <1>5. CASE WorkerIdles(w)
    <2>1. w \in Members
      BY <1>5 DEF WorkerIdles, Answered, Members
    <2>2. CASE MayShrink
      <3>1. Goto(w, "delete") /\ currentThreads' = currentThreads - 1
        BY <1>5, <2>2 DEF WorkerIdles
      <3>2. PoolTypeOK'
        BY <1>0, <1>5, <2>1, <3>1, GotoEffect, MemberCounted
        DEF WorkerIdles, PoolTypeOK, Workplace
      <3> QED
        BY <1>5, <2>1, <2>2, <3>1, <3>2, LeaveKeepsInv DEF WorkerIdles, MayShrink
    <2>3. CASE ~MayShrink
      <3>1. Goto(w, "check") /\ UNCHANGED currentThreads
        BY <1>5, <2>3 DEF WorkerIdles
      <3>2. PoolTypeOK'
        BY <1>0, <1>5, <2>1, <3>1, GotoEffect DEF WorkerIdles, PoolTypeOK, Workplace
      <3> QED
        BY <1>0, <1>5, <2>1, <3>1, <3>2, MoveKeepsInv DEF WorkerIdles, Answered
    <2> QED
      BY <2>2, <2>3
  <1>6. CASE WorkerGetsJob(w)
    <2>1. w \in Members /\ Goto(w, "run") /\ runner[w] # "free"
      BY <1>6 DEF WorkerGetsJob, Answered, Members
    <2>2. PoolTypeOK'
      BY <1>0, <1>6, <2>1, GotoEffect DEF WorkerGetsJob, changeMapState, PoolTypeOK, Workplace
    <2> QED
      BY <1>0, <1>6, <2>1, <2>2, MoveKeepsInv DEF WorkerGetsJob
  <1>7. CASE WorkerRuns(w)
    <2>1. w \in Members /\ Goto(w, IF got[w] \in BadJobs THEN "delete" ELSE "check")
      BY <1>7 DEF WorkerRuns, Members
    <2>2. PoolTypeOK'
      BY <1>0, <1>7, <2>1, GotoEffect DEF WorkerRuns, PoolTypeOK, Workplace
    <2>3. CASE got[w] \in BadJobs
      BY <1>7, <2>1, <2>2, <2>3, VanishKeepsInv DEF WorkerRuns
    <2>4. CASE got[w] \notin BadJobs
      BY <1>0, <1>7, <2>1, <2>2, <2>4, MoveKeepsInv DEF WorkerRuns
    <2> QED
      BY <2>3, <2>4
  <1>8. CASE deleteMapTid(w)
    <2>1. w \notin Members /\ Goto(w, "free") /\ runner[w] # "free"
      BY <1>8 DEF deleteMapTid, Members
    <2>2. PoolTypeOK'
      BY <1>0, <1>8, <2>1, GotoEffect DEF deleteMapTid, changeMapState, PoolTypeOK, Workplace
    <2> QED
      BY <1>0, <1>8, <2>1, <2>2, MoveKeepsInv DEF deleteMapTid
  <1> QED
    BY <1>1, <1>2, <1>3, <1>4, <1>5, <1>6, <1>7, <1>8 DEF WorkerStep

\* Start and the monitor start workers.
LEMMA StartersKeepInv ==
    ASSUME PoolInv, QueueTypeOK', Start \/ monitorOnce
    PROVE  PoolInv'
  <1>1. CASE Start
    <2>1. StartWorkers(minThreads) /\ ~started /\ ~closed /\ currentThreads = 0
      BY <1>1 DEF Start, PoolInv, NothingBeforeStart
    <2>2. minThreads \in Nat /\ maxThreads \in Nat /\ minThreads <= maxThreads
      BY PoolAssumption
    <2>3. PoolTypeOK'
      BY <1>1, <2>1, <2>2, StartEffect DEF Start, PoolInv, PoolTypeOK, Workplace
    <2> QED
      BY <1>1, <2>1, <2>2, <2>3, GrowKeepsInv DEF Start
  <1>2. CASE monitorOnce
    <2>1. StartWorkers(NumberToAdd) /\ NumberToAdd \in Nat /\ started
          /\ currentThreads + NumberToAdd <= maxThreads
      BY <1>2, NumberToAddFits DEF monitorOnce, PoolInv, NothingBeforeStart
    <2>2. PoolTypeOK'
      BY <1>2, <2>1, StartEffect DEF monitorOnce, PoolInv, PoolTypeOK, Workplace
    <2>3. currentThreads + NumberToAdd >= minThreads \/ closed
      BY <2>1, PoolAssumption DEF PoolInv, PoolTypeOK, CountKept
    <2> QED
      BY <1>2, <2>1, <2>2, <2>3, GrowKeepsInv DEF monitorOnce
  <1> QED
    BY <1>1, <1>2

\* PoolInv holds in every reachable state.
LEMMA PoolInvariance == Spec => []PoolInv
  <1>1. Init => PoolInv
    <2> SUFFICES ASSUME Init PROVE PoolInv
      OBVIOUS
    <2>1. QueueTypeOK
      <3>1. elapsed \in [Consumers -> BOOLEAN] /\ changer \in BOOLEAN
        BY Zenon DEF Init, QueueInit
      <3> QED
        BY <3>1 DEF Init, QueueInit, QueueTypeOK
    <2>2. PoolTypeOK
      BY <2>1 DEF Init, PoolTypeOK
    <2>3. Members = {} /\ Cardinality({}) = 0
      BY FS_EmptySet DEF Init, Members
    <2> QED
      BY <2>2, <2>3, PoolAssumption DEF Init, PoolInv, WithinMax, NothingBeforeStart,
         LeavesOnlyClosed, CountKept, CountExact
  <1>2. PoolInv /\ QueueInv' /\ [Next]_vars => PoolInv'
    <2> SUFFICES ASSUME PoolInv, QueueTypeOK', [Next]_vars PROVE PoolInv'
      BY DEF QueueInv
    <2> USE DEF PoolInv
    <2>1. CASE UNCHANGED vars
      BY <2>1, OtherStepKeepsInv DEF vars, poolVars, PoolTypeOK, NothingBeforeStart
    <2>2. CASE Close
      BY <2>2, OtherStepKeepsInv DEF Close, PoolTypeOK, NothingBeforeStart
    <2>3. CASE ringBell
      BY <2>3, OtherStepKeepsInv DEF ringBell, PoolTypeOK, NothingBeforeStart
    <2>4. CASE functionalQueueChanged
      BY <2>4, OtherStepKeepsInv DEF functionalQueueChanged, PoolTypeOK, NothingBeforeStart
    <2>5. CASE MonitorChecks
      BY <2>5, OtherStepKeepsInv DEF MonitorChecks, PoolTypeOK, NothingBeforeStart
    <2>6. CASE MonitorSelects
      <3>1. started /\ monitor' \in {"check", "gone"}
        BY <2>6 DEF MonitorSelects, NothingBeforeStart
      <3>2. senders' \in Nat
        BY <2>6 DEF MonitorSelects, PoolTypeOK
      <3>3. bell' \in BOOLEAN
        BY <2>6, Zenon DEF MonitorSelects, PoolTypeOK
      <3>4. PoolTypeOK'
        BY <2>6, <3>1, <3>2, <3>3 DEF MonitorSelects, PoolTypeOK
      <3> QED
        BY <2>6, <3>1, <3>4, OtherStepKeepsInv DEF MonitorSelects
    <2>7. CASE QueueStep
      BY <2>7, OtherStepKeepsInv DEF QueueStep, poolVars, PoolTypeOK, NothingBeforeStart
    <2> QED
      BY <2>1, <2>2, <2>3, <2>4, <2>5, <2>6, <2>7, StartersKeepInv, WorkerKeepsInv DEF Next
  <1>3. Spec => []QueueInv
    BY PoolUsesQueue, QueueInvariance, PTL
  <1> QED
    BY <1>1, <1>2, <1>3, PTL DEF Spec

\* The pool never counts more than maxThreads threads nor fewer than it has.
THEOREM PoolWithinMax == Spec => []WithinMax
  BY PoolInvariance, PTL DEF PoolInv

\* The number of threads an open pool counts stays at minThreads or above,
\* whatever its jobs do.
THEOREM PoolCountKept == Spec => []CountKept
  BY PoolInvariance, PTL DEF PoolInv

\* With jobs whose arguments fit, an open pool keeps minThreads workers, no
\* matter how many of them find the queue empty together.  (A job whose
\* arguments do not fit ends its worker uncounted: PoolPromises.cfg.)
THEOREM PoolMinMaintained ==
    ASSUME BadJobs = {}
    PROVE  Spec => []MinMaintained
  <1>1. PoolInv => MinMaintained
    BY DEF PoolInv, MinMaintained, CountKept, CountExact
  <1> QED
    BY <1>1, PoolInvariance, PTL
=============================================================================
