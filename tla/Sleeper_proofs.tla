--------------------------- MODULE Sleeper_proofs ---------------------------
(***************************************************************************)
(* Proofs about Sleeper, for any set of jobs and any durations.            *)
(***************************************************************************)
EXTENDS Sleeper, TLAPS

\* The inductive invariant.
SleeperInv == TypeOK /\ JobsMatchHeap /\ OwnWaiterAlive

\* A new node comes with its job number, and with a waiter if it is first.
LEMMA SleepKeepsInv ==
    ASSUME SleeperInv, NEW d \in 1..MaxDuration, NEW id \in Jobs, sleep(d, id)
    PROVE  SleeperInv'
  <1> USE DEF SleeperInv
  <1> DEFINE new == [id |-> id, ring |-> d, closed |-> FALSE,
                     own |-> StartNewThread(d)]
  <1>1. new \in Node /\ new.id = id /\ new.ring = d /\ new.own = StartNewThread(d)
    BY SleeperAssumption DEF Node, StartNewThread
  <1>2. heap' = heap \cup {new} /\ jobs' = jobs \cup {id} /\ id \notin jobs
    BY DEF sleep
  <1>3. /\ waiters' \in [0..MaxDuration -> Nat]
        /\ \A w \in 0..MaxDuration : waiters[w] > 0 => waiters'[w] > 0
        /\ StartNewThread(d) => waiters'[d] > 0
    <2>1. CASE StartNewThread(d) /\ Go(d)
      BY <2>1, SleeperAssumption DEF Go, TypeOK
    <2>2. CASE ~StartNewThread(d) /\ UNCHANGED waiters
      BY <2>2 DEF TypeOK
    <2> QED
      BY <2>1, <2>2 DEF sleep
  <1> HIDE DEF new
  <1>4. TypeOK'
    BY <1>1, <1>2, <1>3 DEF TypeOK
  <1>5. JobsMatchHeap'
    BY <1>1, <1>2 DEF JobsMatchHeap
  <1>6. OwnWaiterAlive'
    BY <1>1, <1>2, <1>3 DEF OwnWaiterAlive, TypeOK, Node
  <1> QED
    BY <1>4, <1>5, <1>6

\* A waiter takes its own node with it, and every node due beside it.
LEMMA WaiterKeepsInv ==
    ASSUME SleeperInv, waiter
    PROVE  SleeperInv'
  <1> USE DEF SleeperInv
  <1>1. /\ waiters[0] > 0 /\ waiters' = [waiters EXCEPT ![0] = @ - 1]
        /\ heap' = heap \ Due /\ jobs' = jobs \ {n.id : n \in Due}
    BY DEF waiter, SleptEnough, Forget
  <1>2. /\ waiters' \in [0..MaxDuration -> Nat]
        /\ \A w \in 1..MaxDuration : waiters'[w] = waiters[w]
    BY <1>1, SleeperAssumption DEF TypeOK
  <1>3. \A n \in heap' : n \in heap /\ n.ring \in 1..MaxDuration
    BY <1>1, SleeperAssumption DEF Due, TypeOK, Node
  <1>4. TypeOK'
    BY <1>1, <1>2 DEF TypeOK
  <1>5. JobsMatchHeap'
    BY <1>1 DEF JobsMatchHeap, Due
  <1>6. OwnWaiterAlive'
    BY <1>2, <1>3 DEF OwnWaiterAlive
  <1> QED
    BY <1>4, <1>5, <1>6

\* Closing a node leaves its job number, ring time and waiter alone.
LEMMA CloseKeepsInv ==
    ASSUME SleeperInv, NEW n \in heap, Close(n)
    PROVE  SleeperInv'
  <1> USE DEF SleeperInv
  <1> DEFINE c == [n EXCEPT !.closed = TRUE]
  <1>1. heap' = (heap \ {n}) \cup {c} /\ UNCHANGED <<jobs, waiters>>
    BY DEF Close
  <1>2. c \in Node /\ c.id = n.id /\ c.ring = n.ring /\ c.own = n.own
    BY DEF TypeOK, Node
  <1> HIDE DEF c
  <1>3. TypeOK'
    BY <1>1, <1>2 DEF TypeOK
  <1>4. JobsMatchHeap'
    BY <1>1, <1>2 DEF JobsMatchHeap
  <1>5. OwnWaiterAlive'
    BY <1>1, <1>2 DEF OwnWaiterAlive
  <1> QED
    BY <1>3, <1>4, <1>5

\* A node and its waiter come nearer together, also past the deadline.
LEMMA TickKeepsInv ==
    ASSUME SleeperInv, Tick
    PROVE  SleeperInv'
  <1> USE DEF SleeperInv
  <1> DEFINE later(n) == [n EXCEPT !.ring = IF @ > 0 THEN @ - 1 ELSE 0]
  <1>1. heap' = {later(n) : n \in heap} /\ UNCHANGED jobs
    BY DEF Tick
  <1>2. \A n \in heap : /\ later(n) \in Node
                        /\ later(n).id = n.id /\ later(n).own = n.own
                        /\ later(n).ring = IF n.ring > 0 THEN n.ring - 1 ELSE 0
    BY SleeperAssumption DEF TypeOK, Node
  <1>3. /\ waiters' \in [0..MaxDuration -> Nat]
        /\ \A w \in 0..MaxDuration :
              waiters[w] > 0 => waiters'[IF w > 0 THEN w - 1 ELSE 0] > 0
    <2>1. \A w \in 0..MaxDuration :
            waiters'[w] = (IF w < MaxDuration THEN waiters[w + 1] ELSE 0)
                        + (IF w = 0 THEN waiters[0] ELSE 0)
      BY DEF Tick
    <2>2. waiters' = [w \in 0..MaxDuration |-> waiters'[w]]
      BY DEF Tick
    <2>3. \A w \in 0..MaxDuration : waiters[w] \in Nat /\ waiters'[w] \in Nat
      <3>1. \A w \in 0..MaxDuration : waiters[w] \in Nat
        BY DEF TypeOK
      <3>2. ASSUME NEW w \in 0..MaxDuration PROVE waiters'[w] \in Nat
        <4>1. (IF w < MaxDuration THEN waiters[w + 1] ELSE 0) \in Nat
          BY <3>1, SleeperAssumption
        <4>2. (IF w = 0 THEN waiters[0] ELSE 0) \in Nat
          BY <3>1, SleeperAssumption
        <4>3. \A x, y \in Nat : x + y \in Nat
          OBVIOUS
        <4> QED
          BY <2>1, <4>1, <4>2, <4>3, Zenon
      <3> QED
        BY <3>1, <3>2
    <2>4. waiters' \in [0..MaxDuration -> Nat]
      BY <2>2, <2>3
    <2>5. ASSUME NEW w \in 0..MaxDuration, waiters[w] > 0
          PROVE  waiters'[IF w > 0 THEN w - 1 ELSE 0] > 0
      <3>1. CASE w = 0
        <4>1. waiters'[0] = waiters[1] + waiters[0]
          BY <2>1, SleeperAssumption
        <4>2. waiters[1] \in Nat /\ waiters[0] \in Nat
          BY <2>3, SleeperAssumption
        <4> QED
          BY <2>5, <3>1, <4>1, <4>2
      <3>2. CASE w > 0
        <4>1. w - 1 \in 0..MaxDuration /\ w - 1 < MaxDuration /\ w - 1 + 1 = w
          BY <3>2, SleeperAssumption
        <4>2. waiters'[w - 1] = waiters[w] + (IF w - 1 = 0 THEN waiters[0] ELSE 0)
          BY <2>1, <4>1
        <4>3. waiters[w] \in Nat /\ waiters[0] \in Nat
          BY <2>3, SleeperAssumption
        <4> QED
          BY <2>5, <3>2, <4>2, <4>3
      <3> QED
        BY <3>1, <3>2
    <2> QED
      BY <2>4, <2>5
  <1> HIDE DEF later
  <1>4. TypeOK'
    BY <1>1, <1>2, <1>3 DEF TypeOK
  <1>5. JobsMatchHeap'
    BY <1>1, <1>2 DEF JobsMatchHeap
  <1>6. OwnWaiterAlive'
    BY <1>1, <1>2, <1>3 DEF OwnWaiterAlive, TypeOK, Node
  <1> QED
    BY <1>4, <1>5, <1>6

\* SleeperInv holds in every reachable state.
LEMMA SleeperInvariance == Spec => []SleeperInv
  <1>1. Init => SleeperInv
    BY SleeperAssumption
    DEF Init, SleeperInv, TypeOK, JobsMatchHeap, OwnWaiterAlive
  <1>2. SleeperInv /\ [Next]_vars => SleeperInv'
    <2>1. SleeperInv /\ UNCHANGED vars => SleeperInv'
      BY DEF vars, SleeperInv, TypeOK, JobsMatchHeap, OwnWaiterAlive
    <2> QED
      BY <2>1, SleepKeepsInv, WaiterKeepsInv, CloseKeepsInv, TickKeepsInv DEF Next
  <1> QED
    BY <1>1, <1>2, PTL DEF Spec

\* `jobs` and the heap agree: no job number is refused for want of a node,
\* and none has two nodes.
THEOREM JobsAgree == Spec => []JobsMatchHeap
  BY SleeperInvariance, PTL DEF SleeperInv

\* The waiter started for a node stays until the node is popped and wakes
\* when the node is due.
THEOREM WaiterStays == Spec => []OwnWaiterAlive
  BY SleeperInvariance, PTL DEF SleeperInv
=============================================================================
