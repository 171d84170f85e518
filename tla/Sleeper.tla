------------------------------- MODULE Sleeper ------------------------------
(***************************************************************************)
(* The sleeper of sleeper.go: it rings a condition variable after a given  *)
(* time.  The lock and the timer loop both depend on it for every timeout. *)
(*                                                                         *)
(* Times are whole ticks counted down to 0: a node's ring is the time left *)
(* until its ringTime, a waiter goroutine's bucket the time left of its    *)
(* time.Sleep.  Anything overdue stays at 0, which is exact because the    *)
(* code only compares a time left with fudgeFactor and a new node, which   *)
(* is never below fudgeFactor, with the earliest node.                     *)
(*                                                                         *)
(* sleep and waiter hold sleepy.lock from beginning to end (one action     *)
(* each); Close takes no lock and may come at any time.                    *)
(***************************************************************************)
EXTENDS Naturals, FiniteSets

CONSTANTS
    Jobs,         \* job numbers
    Fudge,        \* fudgeFactor, in ticks
    MaxDuration,  \* bound: the longest duration slept
    MaxWaiters    \* bound: waiter goroutines alive at a time

ASSUME SleeperAssumption ==
    /\ Fudge \in Nat /\ MaxDuration \in Nat /\ MaxWaiters \in Nat
    /\ 0 < Fudge /\ Fudge <= MaxDuration

VARIABLES
    heap,     \* the sleeperNodes in the heap
    jobs,     \* job numbers that have a node
    waiters   \* waiter goroutines by the time left of their time.Sleep

vars == <<heap, jobs, waiters>>

\* `own` is history: the node had a waiter goroutine started for it.
Node == [id : Jobs, ring : 0..MaxDuration, closed : BOOLEAN, own : BOOLEAN]

Init ==
    /\ heap = {}
    /\ jobs = {}
    /\ waiters = [w \in 0..MaxDuration |-> 0]

-----------------------------------------------------------------------------
\* The number of waiter goroutines.
Alive == LET upTo[w \in 0..MaxDuration] ==
                 waiters[w] + (IF w = 0 THEN 0 ELSE upTo[w - 1])
         IN  upTo[MaxDuration]

\* Mutant of Go: the waiter sleeps a fudgeFactor less.
GoEarly(d) == waiters' = [waiters EXCEPT ![d - Fudge] = @ + 1]

\* GetGoethe().Go(sleepy.waiter, d)
Go(d) == waiters' = [waiters EXCEPT ![d] = @ + 1]

\* A new waiter is started unless the top of the heap rings before the node.
StartNewThread(d) == \A n \in heap : ~(n.ring < d)

\* sleep(d, cond, id).  With d < Fudge it only broadcasts, and with a job
\* that has a node it does nothing: neither changes the sleeper.
sleep(d, id) ==
    /\ d >= Fudge
    /\ id \notin jobs
    /\ jobs' = jobs \cup {id}
    /\ heap' = heap \cup {[id |-> id, ring |-> d, closed |-> FALSE,
                           own |-> StartNewThread(d)]}
    /\ IF StartNewThread(d)
       THEN Alive < MaxWaiters /\ Go(d)
       ELSE UNCHANGED waiters

\* Mutant of Forget: popped jobs stay known.
ForgetNothing(popped) == jobs' = jobs

\* Some waiter has its time.Sleep behind it.
SleptEnough == waiters[0] > 0

\* The nodes a waiter pops: it takes the top while that is nearly due.
Due == {n \in heap : n.ring < Fudge}

\* delete(sleepy.jobs, sn.id) for each popped node.
Forget(popped) == jobs' = jobs \ {n.id : n \in popped}

\* A waiter wakes, pops what is due and broadcasts for the open ones among
\* them; the others are dropped silently.  Nobody is started for the rest.
waiter ==
    /\ SleptEnough
    /\ waiters' = [waiters EXCEPT ![0] = @ - 1]
    /\ heap' = heap \ Due
    /\ Forget(Due)

\* Close by the caller of sleep: the node stays where it is.
Close(n) ==
    /\ ~n.closed
    /\ heap' = (heap \ {n}) \cup {[n EXCEPT !.closed = TRUE]}
    /\ UNCHANGED <<jobs, waiters>>

-----------------------------------------------------------------------------
\* The clock.
Tick ==
    /\ \/ \E n \in heap : n.ring > 0
       \/ \E w \in 1..MaxDuration : waiters[w] > 0
    /\ heap' = {[n EXCEPT !.ring = IF @ > 0 THEN @ - 1 ELSE 0] : n \in heap}
    /\ waiters' = [w \in 0..MaxDuration |->
            (IF w < MaxDuration THEN waiters[w + 1] ELSE 0)
          + (IF w = 0 THEN waiters[0] ELSE 0)]
    /\ UNCHANGED jobs

Next ==
    \/ \E d \in 1..MaxDuration, id \in Jobs : sleep(d, id)
    \/ \E n \in heap : Close(n)
    \/ waiter
    \/ Tick

Spec == Init /\ [][Next]_vars

\* Time passes and a goroutine whose time.Sleep is over runs.
FairSpec == Spec /\ WF_vars(waiter) /\ WF_vars(Tick)

-----------------------------------------------------------------------------
TypeOK ==
    /\ heap \in SUBSET Node
    /\ jobs \in SUBSET Jobs
    /\ waiters \in [0..MaxDuration -> Nat]

\* A job number is known to `jobs` exactly while it has a node, and has at
\* most one: otherwise its next sleep would be refused for ever, or ring
\* twice.
JobsMatchHeap ==
    /\ jobs = {n.id : n \in heap}
    /\ \A m, n \in heap : m.id = n.id => m = n

\* A node that was given a waiter still has one, which wakes exactly when
\* the node is due, however many other waiters came and went.
OwnWaiterAlive == \A n \in heap : n.own => waiters[n.ring] > 0

\* The open nodes of job id.
Open(id) == {n \in heap : n.id = id /\ ~n.closed}

\* A node that was given a waiter is rung (or closed) in the end.
OwnNodeRings ==
    \A id \in Jobs : (\E n \in Open(id) : n.own) ~> (Open(id) = {})

\* Whoever sleeps is rung (or closes): "sleep with the amount of time to
\* wait, the condition to ring when done".  Not kept: SleeperRings.cfg.
SleepRings == \A id \in Jobs : (Open(id) # {}) ~> (Open(id) = {})
=============================================================================
