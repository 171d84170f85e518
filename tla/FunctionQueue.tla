---------------------------- MODULE FunctionQueue ---------------------------
(***************************************************************************)
(* The bounded FunctionQueue of function_queue_impl.go.                    *)
(*                                                                         *)
(* Enqueue and the final part of Dequeue run under fq.mux.  Dequeue also   *)
(* arms a time.AfterFunc under fq.mux before it waits, and that timer      *)
(* broadcasts without fq.mux: it may go off before the thread is in the    *)
(* condition variable's wait list.  That window is modelled, so `mux` is   *)
(* explicit.  A callback is a goroutine started for the state-change       *)
(* callback.                                                               *)
(***************************************************************************)
EXTENDS Naturals, Sequences, FiniteSets

CONSTANTS
    Jobs,        \* function descriptors, each enqueued at most once (a bound)
    Consumers,   \* threads that call Dequeue
    Capacity,    \* userCapacity
    Waits,       \* the durations passed to Dequeue: FALSE for d <= 0, TRUE for d > 0
    Nobody, Empty, Nothing  \* mux is free; ErrEmptyQueue; no answer yet

ASSUME QueueAssumption ==
    /\ Capacity \in Nat
    /\ Waits \subseteq BOOLEAN
    /\ Nobody \notin Consumers
    /\ Empty \notin Jobs /\ Nothing \notin Jobs /\ Empty # Nothing

VARIABLES
    queue,      \* fq.queue
    changer,    \* is a state-change callback set?
    callbacks,  \* callback goroutines that have not run yet
    mux,        \* holder of fq.mux across a step, or Nobody
    at,         \* where each consumer is in Dequeue
    elapsed,    \* has the duration of the call in progress elapsed?
    armed,      \* consumers whose AfterFunc is pending
    got,        \* the answer of each consumer's last Dequeue
    accepted,   \* history: jobs in the order Enqueue accepted them
    taken       \* history: jobs in the order Dequeue returned them

queueVars == <<queue, changer, callbacks, mux, at, elapsed, armed, got,
               accepted, taken>>

QueueInit ==
    /\ queue = << >> /\ accepted = << >> /\ taken = << >>
    /\ changer = FALSE /\ callbacks = 0
    /\ mux = Nobody
    /\ at = [c \in Consumers |-> "idle"]
    /\ elapsed = [c \in Consumers |-> FALSE]
    /\ armed = {}
    /\ got = [c \in Consumers |-> Nothing]

-----------------------------------------------------------------------------
\* cond.Broadcast()
Broadcast == at' = [c \in Consumers |-> IF at[c] = "wait" THEN "woken" ELSE at[c]]

\* if fq.changer != nil { go fq.changer(fq) }
StartCallback == callbacks' = IF changer THEN callbacks + 1 ELSE callbacks

\* Mutants: of AtCapacity (one too late) and of AfterEnqueue (no broadcast).
AtCapacityLate == Len(queue) > Capacity
NoBroadcast == UNCHANGED at

AtCapacity == Len(queue) >= Capacity

\* The broadcast at the end of Enqueue.
AfterEnqueue == Broadcast

\* Enqueue.  At capacity it returns ErrAtCapacity and changes nothing.
Enqueue(j) ==
    /\ mux = Nobody
    /\ j \notin {accepted[i] : i \in DOMAIN accepted}
    /\ ~AtCapacity
    /\ queue' = Append(queue, j) /\ accepted' = Append(accepted, j)
    /\ AfterEnqueue
    /\ StartCallback
    /\ UNCHANGED <<changer, mux, elapsed, armed, got, taken>>

-----------------------------------------------------------------------------
\* Dequeue returns ErrEmptyQueue or the head of the queue.
ReturnFromDequeue(c) ==
    /\ at' = [at EXCEPT ![c] = "idle"]
    /\ armed' = armed \ {c}
    /\ elapsed' = [elapsed EXCEPT ![c] = FALSE]
    /\ UNCHANGED <<changer, mux, accepted>>
    /\ \/ /\ queue = << >>
          /\ got' = [got EXCEPT ![c] = Empty]
          /\ UNCHANGED <<queue, callbacks, taken>>
       \/ /\ queue # << >>
          /\ got' = [got EXCEPT ![c] = Head(queue)]
          /\ queue' = Tail(queue) /\ taken' = Append(taken, Head(queue))
          /\ StartCallback

\* A pass of the loop: arm the timer and go on holding mux.
Arm(c) ==
    /\ at' = [at EXCEPT ![c] = "arming"]
    /\ armed' = armed \cup {c}
    /\ mux' = c
    /\ UNCHANGED <<queue, changer, callbacks, elapsed, accepted, taken>>

\* Dequeue up to its first decision; `waits` is duration > 0.
Dequeue(c, waits) ==
    /\ at[c] = "idle" /\ mux = Nobody
    /\ IF waits /\ queue = << >>
       THEN Arm(c) /\ got' = [got EXCEPT ![c] = Nothing]
       ELSE ReturnFromDequeue(c)

\* cond.Wait(): joins the wait list and lets go of mux.
Wait(c) ==
    /\ at[c] = "arming" /\ mux = c
    /\ at' = [at EXCEPT ![c] = "wait"] /\ mux' = Nobody
    /\ UNCHANGED <<queue, changer, callbacks, elapsed, armed, got, accepted, taken>>

\* Mutant of KeepsWaiting: the loop is an if.
NeverKeepsWaiting(c) == FALSE

\* The loop condition, after a wait.
KeepsWaiting(c) == ~elapsed[c] /\ queue = << >>

\* Back from cond.Wait(): timer.Stop(), then the loop condition again.
Wake(c) ==
    /\ at[c] = "woken" /\ mux = Nobody
    /\ IF KeepsWaiting(c)
       THEN Arm(c) /\ UNCHANGED got
       ELSE ReturnFromDequeue(c)

\* The AfterFunc goes off: a broadcast without mux.
TimerFires(c) ==
    /\ c \in armed /\ elapsed[c]
    /\ armed' = armed \ {c}
    /\ Broadcast
    /\ UNCHANGED <<queue, changer, callbacks, mux, elapsed, got, accepted, taken>>

\* duration has gone by since Dequeue was called.
TimePasses(c) ==
    /\ at[c] # "idle" /\ ~elapsed[c]
    /\ elapsed' = [elapsed EXCEPT ![c] = TRUE]
    /\ UNCHANGED <<queue, changer, callbacks, mux, at, armed, got, accepted, taken>>

-----------------------------------------------------------------------------
\* SetStateChangeCallback, with nil for FALSE.
SetStateChangeCallback(set) ==
    /\ mux = Nobody
    /\ changer' = set
    /\ UNCHANGED <<queue, callbacks, mux, at, elapsed, armed, got, accepted, taken>>

\* A callback goroutine is done (what it does is its owner's business).
CallbackDone ==
    /\ callbacks > 0
    /\ callbacks' = callbacks - 1
    /\ UNCHANGED <<queue, changer, mux, at, elapsed, armed, got, accepted, taken>>

DequeueNext(c) == Wait(c) \/ Wake(c) \/ TimerFires(c) \/ TimePasses(c)

QueueNext ==
    \/ \E j \in Jobs : Enqueue(j)
    \/ \E c \in Consumers, w \in Waits : Dequeue(c, w)
    \/ \E c \in Consumers : DequeueNext(c)
    \/ \E set \in BOOLEAN : SetStateChangeCallback(set)
    \/ CallbackDone

QueueSpec == QueueInit /\ [][QueueNext]_queueVars

\* Threads that hold or want mux run, timers go off.
QueueFairness == \A c \in Consumers :
    /\ WF_queueVars(Wait(c)) /\ WF_queueVars(TimerFires(c))
    /\ WF_queueVars(TimePasses(c))
    /\ SF_queueVars(Wake(c))

FairQueueSpec == QueueSpec /\ QueueFairness

-----------------------------------------------------------------------------
QueueTypeOK ==
    /\ queue \in Seq(Jobs) /\ accepted \in Seq(Jobs) /\ taken \in Seq(Jobs)
    /\ changer \in BOOLEAN /\ callbacks \in Nat
    /\ mux \in Consumers \cup {Nobody}
    /\ at \in [Consumers -> {"idle", "arming", "wait", "woken"}]
    /\ elapsed \in [Consumers -> BOOLEAN]
    /\ armed \subseteq Consumers
    /\ got \in [Consumers -> Jobs \cup {Empty, Nothing}]

\* Jobs are neither lost, doubled nor reordered, with any number of
\* consumers waiting, timing out and racing for the same job; and there are
\* never more than Capacity of them in the queue.
FIFO == accepted = taken \o queue /\ Len(queue) <= Capacity

\* No consumer sleeps beside a job: whoever is in cond.Wait() has an empty
\* queue before it.
NoStrandedConsumer == \A c \in Consumers : at[c] = "wait" => queue = << >>

\* A waiting Dequeue answers ErrEmptyQueue only when its time is over: a
\* consumer that loses the race for a job after a broadcast waits again.
EmptyOnlyAfterTimeout ==
    [][\A c \in Consumers :
         at[c] = "woken" /\ got'[c] = Empty /\ at'[c] = "idle"
            => elapsed[c] /\ queue = << >>]_queueVars

\* "If there is no message within the given duration return the error
\* returned will be ErrEmptyQueue": a Dequeue whose time is over returns.
\* Not kept: QueueTimedDequeue.cfg.
TimedDequeueReturns ==
    \A c \in Consumers : (at[c] # "idle" /\ elapsed[c]) ~> (at[c] = "idle")
=============================================================================
