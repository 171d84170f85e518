----------------------------- MODULE GoetheLock -----------------------------
(***************************************************************************)
(* The counting reader/writer lock of goethe_lock_impl.go.                 *)
(*                                                                         *)
(* Every method body runs under goMux from its first test to its return or *)
(* to cond.Wait(), so each such stretch is one action.  A thread parked in *)
(* cond.Wait() has pc "rwait" or "wwait"; a broadcast moves it to "rwoken" *)
(* or "wwoken", from where it competes for goMux and re-tests its loop.    *)
(*                                                                         *)
(* Time is abstracted to what the code compares: left[t] is the class of   *)
(* endTime - now for the call in progress ("short" is less than the 2 ms   *)
(* fudgeFactor of the sleeper).  `sleeping` are the threads with an open   *)
(* node in the lock's sleeper, which is taken at its word here: it rings   *)
(* open nodes, at most fudgeFactor early (see Sleeper.tla for the sleeper  *)
(* itself).                                                                *)
(***************************************************************************)
EXTENDS Naturals, FiniteSets

CONSTANTS
    Threads,         \* goethe threads, the ones GetThreadID knows
    NoThread,        \* the -2 of holdingWriter
    ReadDurations,   \* durations callers pass to TryReadLock
    WriteDurations,  \* durations callers pass to TryWriteLock
    MaxReads,        \* bound: read holds of one thread
    MaxWrites        \* bound: write holds of one thread

\* d = -1, d = 0, 0 < d < fudgeFactor and d >= fudgeFactor.  Calls with
\* d < -1, or from a thread without a thread id, return an error unread.
Durations == {"forever", "zero", "short", "long"}

ASSUME ThreadsAssumption == IsFiniteSet(Threads) /\ NoThread \notin Threads
ASSUME DurationsAssumption ==
    ReadDurations \subseteq Durations /\ WriteDurations \subseteq Durations
ASSUME BoundsAssumption == MaxReads \in Nat /\ MaxWrites \in Nat

VARIABLES
    readerCounts,    \* read holds per thread (0: no entry in the map)
    holdingWriter,   \* the thread holding the write lock, or NoThread
    writerCount,     \* write holds of holdingWriter
    writersWaiting,  \* writers inside the wait loop of TryWriteLock
    pc,              \* where each thread is
    left,            \* class of the time left to the call in progress
    sleeping         \* threads with an open sleeper node

vars == <<readerCounts, holdingWriter, writerCount, writersWaiting,
          pc, left, sleeping>>

Init ==
    /\ readerCounts = [t \in Threads |-> 0]
    /\ holdingWriter = NoThread
    /\ writerCount = 0
    /\ writersWaiting = 0
    /\ pc = [t \in Threads |-> "idle"]
    /\ left = [t \in Threads |-> "forever"]
    /\ sleeping = {}

-----------------------------------------------------------------------------
(* The condition variable and the sleeper, seen from the lock.             *)

\* Where a broadcast leaves a thread that was at p.
Woken(p) == CASE p = "rwait" -> "rwoken"
              [] p = "wwait" -> "wwoken"
              [] OTHER -> p

\* cond.Broadcast()
Broadcast == pc' = [t \in Threads |-> Woken(pc[t])]

\* The time left when a call with duration d first tests its loop.
TimeLeft(d) == IF d = "zero" THEN "none" ELSE d

\* Return from the call: the deferred Close of the sleeper node included.
Return(t) ==
    /\ pc' = [pc EXCEPT ![t] = "idle"]
    /\ left' = [left EXCEPT ![t] = "forever"]
    /\ sleeping' = sleeping \ {t}

\* sleeper.sleep for a timed wait, then cond.Wait().  A wait shorter than
\* fudgeFactor gets no node: sleep broadcasts at once, before t waits.
ParkSleeping(t, place, l) ==
    /\ pc' = [u \in Threads |-> IF u = t THEN place
                                ELSE IF l = "short" THEN Woken(pc[u])
                                ELSE pc[u]]
    /\ left' = [left EXCEPT ![t] = l]
    /\ sleeping' = IF l = "long" THEN sleeping \cup {t} ELSE sleeping \ {t}

-----------------------------------------------------------------------------
(* Reading.                                                                *)

incrementReadLock(t) == readerCounts' = [readerCounts EXCEPT ![t] = @ + 1]

\* Mutant of ReadBlocked: waiting writers do not hold readers back.
ReadBlockedByHolder == holdingWriter # NoThread

\* The loop condition of TryReadLock.
ReadBlocked == holdingWriter # NoThread \/ writersWaiting > 0

\* One pass of the loop, until the call returns or waits.
ReadLoop(t, l) ==
    /\ \/ ~ReadBlocked /\ incrementReadLock(t) /\ Return(t)
       \/ ReadBlocked /\ l = "none" /\ Return(t) /\ UNCHANGED readerCounts
       \/ ReadBlocked /\ l # "none" /\ ParkSleeping(t, "rwait", l)
          /\ UNCHANGED readerCounts
    /\ UNCHANGED <<holdingWriter, writerCount, writersWaiting>>

TryReadLock(t, d) ==
    /\ pc[t] = "idle" /\ readerCounts[t] < MaxReads
    /\ \/ /\ holdingWriter = t
          /\ incrementReadLock(t)
          /\ UNCHANGED <<holdingWriter, writerCount, writersWaiting,
                         pc, left, sleeping>>
       \/ holdingWriter # t /\ ReadLoop(t, TimeLeft(d))

\* Back from cond.Wait() in TryReadLock.
ReadWake(t) == pc[t] = "rwoken" /\ ReadLoop(t, left[t])

\* Mutants of FoundReader (no test of the map) and of WakesWriters (the
\* broadcast only goes out when another thread still reads).
AnyReader(t) == TRUE
WakesWritersLate(t) ==
    /\ readerCounts[t] = 1 /\ writersWaiting > 0
    /\ \E u \in Threads \ {t} : readerCounts[u] > 0

\* ReadUnlock without a hold returns at once and changes nothing.
FoundReader(t) == readerCounts[t] > 0

\* The last unlock of a thread broadcasts, but only for waiting writers.
WakesWriters(t) == readerCounts[t] = 1 /\ writersWaiting > 0

ReadUnlock(t) ==
    /\ pc[t] = "idle" /\ FoundReader(t)
    /\ readerCounts' = [readerCounts EXCEPT ![t] = @ - 1]
    /\ IF WakesWriters(t) THEN Broadcast ELSE UNCHANGED pc
    /\ UNCHANGED <<holdingWriter, writerCount, writersWaiting, left, sleeping>>

-----------------------------------------------------------------------------
(* Writing.                                                                *)

\* Mutant of WriteBlocked: readers are not waited for.
WriteBlockedByHolder(t) == holdingWriter # NoThread

\* The loop condition of TryWriteLock (getAllOtherReadCount is a sum of
\* positive counts, so it is positive when one of them is).
WriteBlocked(t) ==
    holdingWriter # NoThread \/ \E u \in Threads \ {t} : readerCounts[u] > 0

\* Mutant of StopWaiting: a writer that leaves the loop stays counted.
StaysWaiting(waiting) == writersWaiting' = waiting

\* writersWaiting-- on the way out of the loop.
StopWaiting(waiting) == writersWaiting' = waiting - 1

\* One pass of the loop; `waiting` is writersWaiting with t counted in.
WriteLoop(t, l, waiting) ==
    /\ \/ /\ ~WriteBlocked(t)
          /\ holdingWriter' = t /\ writerCount' = 1
          /\ StopWaiting(waiting)
          /\ Return(t)
       \/ /\ WriteBlocked(t) /\ l = "none"
          /\ StopWaiting(waiting)
          /\ Return(t)
          /\ UNCHANGED <<holdingWriter, writerCount>>
       \/ /\ WriteBlocked(t) /\ l # "none"
          /\ writersWaiting' = waiting
          /\ ParkSleeping(t, "wwait", l)
          /\ UNCHANGED <<holdingWriter, writerCount>>
    /\ UNCHANGED readerCounts

\* Mutant of MayWrite: a reader may become a writer.
MayAlwaysWrite(t) == TRUE

\* With a read hold the code returns ErrReadLockHeld and changes nothing.
MayWrite(t) == readerCounts[t] = 0

TryWriteLock(t, d) ==
    /\ pc[t] = "idle" /\ MayWrite(t)
    /\ \/ /\ holdingWriter = t /\ writerCount < MaxWrites
          /\ writerCount' = writerCount + 1
          /\ UNCHANGED <<readerCounts, holdingWriter, writersWaiting,
                         pc, left, sleeping>>
       \/ holdingWriter # t /\ WriteLoop(t, TimeLeft(d), writersWaiting + 1)

\* Back from cond.Wait() in TryWriteLock.
WriteWake(t) == pc[t] = "wwoken" /\ WriteLoop(t, left[t], writersWaiting)

\* Mutant of WriteUnlock: the broadcast is forgotten.
WriteUnlockSilent(t) ==
    /\ pc[t] = "idle" /\ holdingWriter = t
    /\ writerCount' = writerCount - 1
    /\ holdingWriter' = IF writerCount = 1 THEN NoThread ELSE t
    /\ UNCHANGED <<readerCounts, writersWaiting, pc, left, sleeping>>

\* Any thread but the holder gets ErrWriteLockNotHeld and changes nothing.
WriteUnlock(t) ==
    /\ pc[t] = "idle" /\ holdingWriter = t
    /\ writerCount' = writerCount - 1
    /\ IF writerCount = 1 THEN holdingWriter' = NoThread /\ Broadcast
                          ELSE UNCHANGED <<holdingWriter, pc>>
    /\ UNCHANGED <<readerCounts, writersWaiting, left, sleeping>>

-----------------------------------------------------------------------------
(* Time.                                                                   *)

\* The sleeper's waiter pops t's open node and broadcasts, without goMux.
Ring(t) ==
    /\ t \in sleeping /\ left[t] # "long"
    /\ sleeping' = sleeping \ {t}
    /\ Broadcast
    /\ UNCHANGED <<readerCounts, holdingWriter, writerCount, writersWaiting,
                   left>>

\* The clock runs on under a timed call.
TimePasses(t) ==
    /\ left[t] \in {"long", "short"}
    /\ left' = [left EXCEPT ![t] = IF @ = "long" THEN "short" ELSE "none"]
    /\ UNCHANGED <<readerCounts, holdingWriter, writerCount, writersWaiting,
                   pc, sleeping>>

Next == \E t \in Threads :
    \/ \E d \in ReadDurations : TryReadLock(t, d)
    \/ \E d \in WriteDurations : TryWriteLock(t, d)
    \/ ReadWake(t) \/ WriteWake(t)
    \/ ReadUnlock(t) \/ WriteUnlock(t)
    \/ Ring(t) \/ TimePasses(t)

Spec == Init /\ [][Next]_vars

\* Go's scheduler and mutexes let every woken thread run, and callers pair
\* their locks with unlocks (as ReadLock's comment requires).  Nothing is
\* assumed of the sleeper.
Fairness == \A t \in Threads :
    /\ WF_vars(ReadWake(t)) /\ WF_vars(WriteWake(t))
    /\ WF_vars(ReadUnlock(t)) /\ WF_vars(WriteUnlock(t))

FairSpec == Spec /\ Fairness

\* Callers that may keep what they hold for ever: only the lock, the clock
\* and the sleeper are fair.
TimersFairSpec == Spec /\ \A t \in Threads :
    /\ WF_vars(ReadWake(t)) /\ WF_vars(WriteWake(t))
    /\ WF_vars(Ring(t)) /\ WF_vars(TimePasses(t))

-----------------------------------------------------------------------------
(* Properties.                                                             *)

TypeOK ==
    /\ readerCounts \in [Threads -> Nat]
    /\ holdingWriter \in Threads \cup {NoThread}
    /\ writerCount \in Nat
    /\ writersWaiting \in Nat
    /\ pc \in [Threads -> {"idle", "rwait", "rwoken", "wwait", "wwoken"}]
    /\ left \in [Threads -> {"forever", "none", "short", "long"}]
    /\ sleeping \in SUBSET Threads

\* Threads inside the wait loop of TryWriteLock.
WaitingWriters == {t \in Threads : pc[t] \in {"wwait", "wwoken"}}

\* While a thread holds the write lock, no other thread is a reader: neither
\* one that entered before the writer nor one that slipped in while it was
\* waiting or recursing.
MutualExclusion ==
    \A t \in Threads :
        holdingWriter # NoThread /\ readerCounts[t] > 0 => holdingWriter = t

\* A writer asleep in cond.Wait() really has to wait: whoever made the lock
\* available for it has already woken it.  (No lost wake-up for writers.)
NoStrandedWriter == \A t \in Threads : pc[t] = "wwait" => WriteBlocked(t)

\* The same for readers.  It needs callers that never let a TryWriteLock
\* time out after waiting: LockStrandedReader.cfg shows what happens then.
NoStrandedReader == \A t \in Threads : pc[t] = "rwait" => ReadBlocked

\* A thread that already reads is never made to wait for another read hold
\* (README: "another reader lock may be acquired on the same thread").  The
\* code does not keep this: LockReentrantRead.cfg.
ReentrantReadNeverWaits ==
    \A t \in Threads : pc[t] = "rwait" => readerCounts[t] = 0

\* No thread other than the writer itself gains a read hold while some
\* thread is inside TryWriteLock's loop: the writersWaiting counter never
\* loses a writer (goethe.go: "No readers will be allowed in while a
\* write-lock is waiting to get in").
NoReaderBarging ==
    [][\A t \in Threads : readerCounts'[t] > readerCounts[t] /\ holdingWriter # t
            => WaitingWriters = {}]_vars

\* The caller's view: the concrete lock implements a counting reader/writer
\* lock.
RW == INSTANCE RWLock WITH
        reads <- readerCounts,
        writes <- [t \in Threads |-> IF holdingWriter = t THEN writerCount ELSE 0]

\* Every step of the lock is a step RWLock allows, or changes no holds.
ImplementsRWLock == RW!Spec

\* Readers cannot keep writers out: once a writer waits, some writer
\* eventually holds the lock.
WriterAdmitted == (WaitingWriters # {}) ~> (holdingWriter # NoThread)

\* Only writers starve readers: if from some point on no thread holds or
\* asks for the write lock, no reader stays in the wait loop.
ReaderStarvedOnlyByWriters ==
    \A t \in Threads :
        <>[](holdingWriter = NoThread /\ WaitingWriters = {})
            => []<>(pc[t] \notin {"rwait", "rwoken"})

\* A timed TryReadLock or TryWriteLock gives up once its time is over, even
\* if the holder never lets go.  Not kept: LockTimedTry.cfg.
TimedTryReturns ==
    \A t \in Threads :
        (pc[t] # "idle" /\ left[t] = "none") ~> (pc[t] = "idle")
=============================================================================
