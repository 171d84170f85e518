-------------------------- MODULE GoetheLock_proofs -------------------------
(***************************************************************************)
(* Proofs about GoetheLock, for any finite set of threads, any bounds and  *)
(* any durations.  LockInv strengthens the safety invariants until they    *)
(* are inductive.                                                          *)
(***************************************************************************)
EXTENDS GoetheLock, FiniteSetTheorems, TLAPS

\* writersWaiting counts exactly the threads inside TryWriteLock's loop.
CountsWaiting == writersWaiting = Cardinality(WaitingWriters)

\* The write count is positive exactly while some thread holds the lock.
CountedHolder == writerCount > 0 <=> holdingWriter # NoThread

\* A thread that waits to write holds nothing.
WaitingWritersHoldNothing ==
    \A t \in WaitingWriters : readerCounts[t] = 0 /\ holdingWriter # t

\* The inductive invariant.
LockInv ==
    /\ TypeOK
    /\ CountsWaiting
    /\ CountedHolder
    /\ WaitingWritersHoldNothing
    /\ MutualExclusion
    /\ NoStrandedWriter

-----------------------------------------------------------------------------
(* What the helpers do to the set of waiting writers.                      *)

\* The writers in the loop are finitely many, and none when the counter is 0.
LEMMA WaitingCounted ==
    ASSUME LockInv
    PROVE  /\ IsFiniteSet(WaitingWriters)
           /\ Cardinality(WaitingWriters) \in Nat
           /\ writersWaiting = 0 <=> WaitingWriters = {}
  <1>1. WaitingWriters \in SUBSET Threads
    BY DEF WaitingWriters
  <1>2. IsFiniteSet(WaitingWriters)
    BY <1>1, ThreadsAssumption, FS_Subset
  <1> QED
    BY <1>2, FS_CardinalityType, FS_EmptySet DEF LockInv, CountsWaiting

\* A broadcast keeps every writer in its loop but leaves none asleep.
LEMMA BroadcastEffect ==
    ASSUME TypeOK, Broadcast
    PROVE  /\ pc' \in [Threads -> {"idle", "rwait", "rwoken", "wwait", "wwoken"}]
           /\ WaitingWriters' = WaitingWriters
           /\ \A u \in Threads : pc'[u] # "wwait"
  BY DEF TypeOK, Broadcast, Woken, WaitingWriters

\* A thread that returns from a call leaves the loop; nobody else moves.
LEMMA ReturnEffect ==
    ASSUME TypeOK, NEW t \in Threads, Return(t)
    PROVE  /\ pc' \in [Threads -> {"idle", "rwait", "rwoken", "wwait", "wwoken"}]
           /\ left' \in [Threads -> {"forever", "none", "short", "long"}]
           /\ sleeping' \in SUBSET Threads
           /\ WaitingWriters' = WaitingWriters \ {t}
           /\ \A u \in Threads : pc'[u] = "wwait" => pc[u] = "wwait"
  BY DEF TypeOK, Return, WaitingWriters

\* Parking puts t to sleep at `place`; others may be woken, never put to sleep.
LEMMA ParkEffect ==
    ASSUME TypeOK, NEW t \in Threads, NEW place \in {"rwait", "wwait"},
           NEW l \in {"forever", "none", "short", "long"},
           ParkSleeping(t, place, l)
    PROVE  /\ pc' \in [Threads -> {"idle", "rwait", "rwoken", "wwait", "wwoken"}]
           /\ left' \in [Threads -> {"forever", "none", "short", "long"}]
           /\ sleeping' \in SUBSET Threads
           /\ place = "rwait" => WaitingWriters' = WaitingWriters \ {t}
           /\ place = "wwait" => WaitingWriters' = WaitingWriters \cup {t}
           /\ \A u \in Threads \ {t} : pc'[u] = "wwait" => pc[u] = "wwait"
           /\ place = "rwait" => pc'[t] # "wwait"
  BY DEF TypeOK, ParkSleeping, Woken, WaitingWriters

-----------------------------------------------------------------------------
(* The two wait loops preserve the invariant.                              *)

\* One pass of TryReadLock's loop by a thread that is not a waiting writer.
LEMMA ReadLoopKeepsInv ==
    ASSUME LockInv, NEW t \in Threads, t \notin WaitingWriters,
           NEW l \in {"forever", "none", "short", "long"}, ReadLoop(t, l)
    PROVE  LockInv'
  <1> USE DEF LockInv
  <1>0. UNCHANGED <<holdingWriter, writerCount, writersWaiting>>
    BY DEF ReadLoop
  <1>1. CASE ~ReadBlocked /\ incrementReadLock(t) /\ Return(t)
    <2>1. holdingWriter = NoThread /\ writersWaiting = 0 /\ WaitingWriters = {}
      BY <1>1, WaitingCounted DEF ReadBlocked, TypeOK
    <2>2. /\ pc' \in [Threads -> {"idle", "rwait", "rwoken", "wwait", "wwoken"}]
          /\ left' \in [Threads -> {"forever", "none", "short", "long"}]
          /\ sleeping' \in SUBSET Threads
          /\ WaitingWriters' = {}
          /\ \A u \in Threads : pc'[u] # "wwait"
      BY <1>1, <2>1, ReturnEffect DEF WaitingWriters
    <2>a. readerCounts' \in [Threads -> Nat]
      BY <1>1 DEF TypeOK, incrementReadLock
    <2>3. TypeOK'
      BY <1>0, <2>2, <2>a DEF TypeOK
    <2>4. CountsWaiting' /\ WaitingWritersHoldNothing'
      BY <1>0, <2>1, <2>2, FS_EmptySet DEF CountsWaiting, WaitingWritersHoldNothing
    <2>5. CountedHolder' /\ MutualExclusion'
      BY <1>0, <2>1 DEF CountedHolder, MutualExclusion
    <2>6. NoStrandedWriter'
      BY <2>2 DEF NoStrandedWriter
    <2> QED
      BY <2>3, <2>4, <2>5, <2>6
  <1>2. CASE ReadBlocked /\ l = "none" /\ Return(t) /\ UNCHANGED readerCounts
    <2>1. /\ WaitingWriters' = WaitingWriters
          /\ \A u \in Threads : pc'[u] = "wwait" => pc[u] = "wwait"
      BY <1>2, ReturnEffect
    <2>2. TypeOK'
      BY <1>0, <1>2, ReturnEffect DEF TypeOK
    <2> QED
      BY <1>0, <1>2, <2>1, <2>2
      DEF CountsWaiting, CountedHolder, WaitingWritersHoldNothing,
          MutualExclusion, NoStrandedWriter, WriteBlocked
  <1>3. CASE ReadBlocked /\ l # "none" /\ ParkSleeping(t, "rwait", l)
             /\ UNCHANGED readerCounts
    <2>1. /\ WaitingWriters' = WaitingWriters
          /\ \A u \in Threads : pc'[u] = "wwait" => pc[u] = "wwait"
      BY <1>3, ParkEffect
    <2>2. TypeOK'
      BY <1>0, <1>3, ParkEffect DEF TypeOK
    <2> QED
      BY <1>0, <1>3, <2>1, <2>2
      DEF CountsWaiting, CountedHolder, WaitingWritersHoldNothing,
          MutualExclusion, NoStrandedWriter, WriteBlocked
  <1> QED
    BY <1>1, <1>2, <1>3 DEF ReadLoop

\* One pass of TryWriteLock's loop, with t counted in `waiting`.
LEMMA WriteLoopKeepsInv ==
    ASSUME LockInv, NEW t \in Threads,
           readerCounts[t] = 0, holdingWriter # t,
           NEW l \in {"forever", "none", "short", "long"},
           NEW waiting, waiting = Cardinality(WaitingWriters \cup {t}),
           WriteLoop(t, l, waiting)
    PROVE  LockInv'
  <1> USE DEF LockInv
  <1>0. UNCHANGED readerCounts
    BY DEF WriteLoop
  <1>w. /\ waiting \in Nat /\ waiting - 1 \in Nat
        /\ waiting - 1 = Cardinality(WaitingWriters \ {t})
    <2>1. IsFiniteSet(WaitingWriters) /\ Cardinality(WaitingWriters) \in Nat
      BY WaitingCounted
    <2>2. /\ waiting = IF t \in WaitingWriters THEN Cardinality(WaitingWriters)
                       ELSE Cardinality(WaitingWriters) + 1
          /\ IsFiniteSet(WaitingWriters \ {t})
          /\ Cardinality(WaitingWriters \ {t}) =
               IF t \in WaitingWriters THEN Cardinality(WaitingWriters) - 1
               ELSE Cardinality(WaitingWriters)
      BY <2>1, FS_AddElement, FS_RemoveElement
    <2>3. Cardinality(WaitingWriters \ {t}) \in Nat
      BY <2>2, FS_CardinalityType
    <2> QED
      BY <2>1, <2>2, <2>3
  <1>1. CASE /\ ~WriteBlocked(t) /\ holdingWriter' = t /\ writerCount' = 1
             /\ StopWaiting(waiting) /\ Return(t)
    <2>1. TypeOK'
      BY <1>0, <1>1, <1>w, ReturnEffect DEF TypeOK, StopWaiting
    <2>2. CountsWaiting'
      BY <1>1, <1>w, ReturnEffect DEF CountsWaiting, StopWaiting
    <2>3. WaitingWritersHoldNothing'
      BY <1>0, <1>1, ReturnEffect DEF WaitingWritersHoldNothing
    <2>4. CountedHolder' /\ NoStrandedWriter'
      BY <1>1, ThreadsAssumption DEF CountedHolder, NoStrandedWriter, WriteBlocked
    <2>5. MutualExclusion'
      BY <1>0, <1>1 DEF MutualExclusion, WriteBlocked, TypeOK
    <2> QED
      BY <2>1, <2>2, <2>3, <2>4, <2>5
  <1>2. CASE /\ WriteBlocked(t) /\ l = "none" /\ StopWaiting(waiting) /\ Return(t)
             /\ UNCHANGED <<holdingWriter, writerCount>>
    <2>1. TypeOK'
      BY <1>0, <1>2, <1>w, ReturnEffect DEF TypeOK, StopWaiting
    <2>2. CountsWaiting'
      BY <1>2, <1>w, ReturnEffect DEF CountsWaiting, StopWaiting
    <2>3. WaitingWritersHoldNothing'
      BY <1>0, <1>2, ReturnEffect DEF WaitingWritersHoldNothing
    <2>4. NoStrandedWriter'
      BY <1>0, <1>2, ReturnEffect DEF NoStrandedWriter, WriteBlocked
    <2> QED
      BY <1>0, <1>2, <2>1, <2>2, <2>3, <2>4 DEF CountedHolder, MutualExclusion
  <1>3. CASE /\ WriteBlocked(t) /\ l # "none" /\ writersWaiting' = waiting
             /\ ParkSleeping(t, "wwait", l)
             /\ UNCHANGED <<holdingWriter, writerCount>>
    <2>1. TypeOK'
      BY <1>0, <1>3, <1>w, ParkEffect DEF TypeOK
    <2>2. CountsWaiting'
      BY <1>3, ParkEffect DEF CountsWaiting
    <2>3. WaitingWritersHoldNothing'
      BY <1>0, <1>3, ParkEffect DEF WaitingWritersHoldNothing
    <2>4. NoStrandedWriter'
      BY <1>0, <1>3, ParkEffect DEF NoStrandedWriter, WriteBlocked
    <2> QED
      BY <1>0, <1>3, <2>1, <2>2, <2>3, <2>4 DEF CountedHolder, MutualExclusion
  <1> QED
    BY <1>1, <1>2, <1>3 DEF WriteLoop

-----------------------------------------------------------------------------
(* The invariant.                                                          *)

\* A new lock satisfies the invariant.
LEMMA InitEstablishesInv == Init => LockInv
  <1> SUFFICES ASSUME Init PROVE LockInv
    OBVIOUS
  <1>1. WaitingWriters = {}
    BY DEF Init, WaitingWriters
  <1> QED
    BY <1>1, FS_EmptySet
    DEF Init, LockInv, TypeOK, CountsWaiting, CountedHolder,
        WaitingWritersHoldNothing, MutualExclusion, NoStrandedWriter

\* Reading: the write holder goes straight in, the others enter the loop.
LEMMA TryReadLockKeepsInv ==
    ASSUME LockInv, NEW t \in Threads, NEW d \in ReadDurations, TryReadLock(t, d)
    PROVE  LockInv'
  <1> USE DEF LockInv
  <1>1. t \notin WaitingWriters
    BY DEF TryReadLock, WaitingWriters
  <1>2. CASE holdingWriter = t /\ incrementReadLock(t)
             /\ UNCHANGED <<holdingWriter, writerCount, writersWaiting,
                            pc, left, sleeping>>
    <2>0. WaitingWriters' = WaitingWriters
      BY <1>2 DEF WaitingWriters
    <2>1. /\ readerCounts' \in [Threads -> Nat]
          /\ \A u \in Threads \ {t} : readerCounts'[u] = readerCounts[u]
      BY <1>2 DEF TypeOK, incrementReadLock
    <2>2. TypeOK'
      BY <1>2, <2>1 DEF TypeOK
    <2>3. CountsWaiting' /\ CountedHolder'
      BY <1>2, <2>0 DEF CountsWaiting, CountedHolder
    <2>4. WaitingWritersHoldNothing'
      BY <1>1, <1>2, <2>0, <2>1 DEF WaitingWritersHoldNothing, WaitingWriters
    <2>5. MutualExclusion'
      BY <1>2, <2>1 DEF MutualExclusion
    <2>6. NoStrandedWriter'
      BY <1>2, ThreadsAssumption DEF NoStrandedWriter, WriteBlocked
    <2> QED
      BY <2>2, <2>3, <2>4, <2>5, <2>6
  <1>3. CASE ReadLoop(t, TimeLeft(d))
    <2>1. TimeLeft(d) \in {"forever", "none", "short", "long"}
      BY DurationsAssumption DEF TimeLeft, Durations
    <2> QED
      BY <1>1, <1>3, <2>1, ReadLoopKeepsInv
  <1> QED
    BY <1>2, <1>3 DEF TryReadLock

\* Writing: the holder counts up, the others enter the loop.
LEMMA TryWriteLockKeepsInv ==
    ASSUME LockInv, NEW t \in Threads, NEW d \in WriteDurations, TryWriteLock(t, d)
    PROVE  LockInv'
  <1> USE DEF LockInv
  <1>1. t \notin WaitingWriters /\ readerCounts[t] = 0
    BY DEF TryWriteLock, WaitingWriters, MayWrite
  <1>2. CASE holdingWriter = t /\ writerCount' = writerCount + 1
             /\ UNCHANGED <<readerCounts, holdingWriter, writersWaiting,
                            pc, left, sleeping>>
    <2>1. WaitingWriters' = WaitingWriters
      BY <1>2 DEF WaitingWriters
    <2>2. TypeOK'
      BY <1>2 DEF TypeOK
    <2>3. CountedHolder'
      BY <1>2, ThreadsAssumption DEF CountedHolder, TypeOK
    <2> QED
      BY <1>2, <2>1, <2>2, <2>3
      DEF CountsWaiting, WaitingWritersHoldNothing, MutualExclusion,
          NoStrandedWriter, WriteBlocked
  <1>3. CASE holdingWriter # t /\ WriteLoop(t, TimeLeft(d), writersWaiting + 1)
    <2>1. TimeLeft(d) \in {"forever", "none", "short", "long"}
      BY DurationsAssumption DEF TimeLeft, Durations
    <2>2. writersWaiting + 1 = Cardinality(WaitingWriters \cup {t})
      BY <1>1, WaitingCounted, FS_AddElement DEF CountsWaiting
    <2> QED
      BY <1>1, <1>3, <2>1, <2>2, WriteLoopKeepsInv
  <1> QED
    BY <1>2, <1>3 DEF TryWriteLock

\* The last read hold of a thread may be what a writer was waiting for: then
\* some writer was counted, and everyone is woken.
LEMMA ReadUnlockKeepsInv ==
    ASSUME LockInv, NEW t \in Threads, ReadUnlock(t)
    PROVE  LockInv'
  <1> USE DEF LockInv
  <1>1. /\ UNCHANGED <<holdingWriter, writerCount, writersWaiting, left, sleeping>>
        /\ readerCounts[t] > 0
        /\ readerCounts' = [readerCounts EXCEPT ![t] = @ - 1]
        /\ Broadcast \/ (UNCHANGED pc /\ ~WakesWriters(t))
    BY DEF ReadUnlock, FoundReader
  <1>2. /\ readerCounts' \in [Threads -> Nat]
        /\ readerCounts'[t] = readerCounts[t] - 1
        /\ \A u \in Threads \ {t} : readerCounts'[u] = readerCounts[u]
    BY <1>1 DEF TypeOK
  <1>3. /\ pc' \in [Threads -> {"idle", "rwait", "rwoken", "wwait", "wwoken"}]
        /\ WaitingWriters' = WaitingWriters
    BY <1>1, BroadcastEffect DEF TypeOK, WaitingWriters
  <1>4. TypeOK'
    BY <1>1, <1>2, <1>3 DEF TypeOK
  <1>5. CountsWaiting' /\ CountedHolder'
    BY <1>1, <1>3 DEF CountsWaiting, CountedHolder
  <1>6. WaitingWritersHoldNothing'
    BY <1>1, <1>2, <1>3 DEF WaitingWritersHoldNothing, WaitingWriters
  <1>7. MutualExclusion'
    BY <1>1, <1>2 DEF MutualExclusion, TypeOK
  <1>8. NoStrandedWriter'
    <2>1. CASE Broadcast
      BY <2>1, BroadcastEffect DEF NoStrandedWriter
    <2>2. CASE UNCHANGED pc /\ writersWaiting = 0
      BY <2>2, WaitingCounted DEF NoStrandedWriter, WaitingWriters
    <2>3. CASE UNCHANGED pc /\ readerCounts[t] # 1
      <3>1. readerCounts'[t] > 0
        BY <1>1, <1>2, <2>3 DEF TypeOK
      <3>2. \A u \in Threads : readerCounts[u] > 0 => readerCounts'[u] > 0
        BY <1>2, <3>1
      <3> QED
        BY <1>1, <2>3, <3>2 DEF NoStrandedWriter, WriteBlocked
    <2> QED
      BY <1>1, <2>1, <2>2, <2>3 DEF WakesWriters, TypeOK
  <1> QED
    BY <1>4, <1>5, <1>6, <1>7, <1>8

\* The last write unlock wakes everyone; the others change only the count.
LEMMA WriteUnlockKeepsInv ==
    ASSUME LockInv, NEW t \in Threads, WriteUnlock(t)
    PROVE  LockInv'
  <1> USE DEF LockInv
  <1>1. /\ holdingWriter = t /\ writerCount' = writerCount - 1
        /\ UNCHANGED <<readerCounts, writersWaiting, left, sleeping>>
        /\ \/ writerCount = 1 /\ holdingWriter' = NoThread /\ Broadcast
           \/ writerCount # 1 /\ UNCHANGED <<holdingWriter, pc>>
    BY DEF WriteUnlock
  <1>2. writerCount > 0
    BY <1>1, ThreadsAssumption DEF CountedHolder
  <1>3. /\ pc' \in [Threads -> {"idle", "rwait", "rwoken", "wwait", "wwoken"}]
        /\ WaitingWriters' = WaitingWriters
    BY <1>1, BroadcastEffect DEF TypeOK, WaitingWriters
  <1>4. TypeOK'
    BY <1>1, <1>2, <1>3 DEF TypeOK
  <1>5. CountsWaiting'
    BY <1>1, <1>3 DEF CountsWaiting
  <1>6. CountedHolder'
    BY <1>1, <1>2 DEF CountedHolder, TypeOK
  <1>7. WaitingWritersHoldNothing'
    BY <1>1, <1>3, ThreadsAssumption DEF WaitingWritersHoldNothing, WaitingWriters
  <1>8. MutualExclusion'
    BY <1>1 DEF MutualExclusion
  <1>9. NoStrandedWriter'
    BY <1>1, BroadcastEffect DEF NoStrandedWriter, WriteBlocked
  <1> QED
    BY <1>4, <1>5, <1>6, <1>7, <1>8, <1>9

\* Ringing only wakes; the clock only changes `left`.
LEMMA TimeKeepsInv ==
    ASSUME LockInv, NEW t \in Threads, Ring(t) \/ TimePasses(t)
    PROVE  LockInv'
  <1> USE DEF LockInv
  <1>1. UNCHANGED <<readerCounts, holdingWriter, writerCount, writersWaiting>>
    BY DEF Ring, TimePasses
  <1>2. /\ pc' \in [Threads -> {"idle", "rwait", "rwoken", "wwait", "wwoken"}]
        /\ WaitingWriters' = WaitingWriters
        /\ \A u \in Threads : pc'[u] = "wwait" => pc[u] = "wwait"
    BY BroadcastEffect DEF Ring, TimePasses, TypeOK, WaitingWriters
  <1>3. left' \in [Threads -> {"forever", "none", "short", "long"}]
        /\ sleeping' \in SUBSET Threads
    BY DEF Ring, TimePasses, TypeOK
  <1>4. TypeOK'
    BY <1>1, <1>2, <1>3 DEF TypeOK
  <1> QED
    BY <1>1, <1>2, <1>4
    DEF CountsWaiting, CountedHolder, WaitingWritersHoldNothing,
        MutualExclusion, NoStrandedWriter, WriteBlocked

\* Every step of the lock preserves the invariant.
LEMMA NextKeepsInv == LockInv /\ [Next]_vars => LockInv'
  <1> SUFFICES ASSUME LockInv, [Next]_vars PROVE LockInv'
    OBVIOUS
  <1>1. CASE UNCHANGED vars
    BY <1>1
    DEF vars, LockInv, TypeOK, CountsWaiting, CountedHolder, WaitingWriters,
        WaitingWritersHoldNothing, MutualExclusion, NoStrandedWriter, WriteBlocked
  <1>2. ASSUME NEW t \in Threads, ReadWake(t) PROVE LockInv'
    <2>1. t \notin WaitingWriters
          /\ left[t] \in {"forever", "none", "short", "long"}
      BY <1>2 DEF ReadWake, WaitingWriters, LockInv, TypeOK
    <2> QED
      BY <1>2, <2>1, ReadLoopKeepsInv DEF ReadWake
  <1>3. ASSUME NEW t \in Threads, WriteWake(t) PROVE LockInv'
    <2>1. t \in WaitingWriters
          /\ left[t] \in {"forever", "none", "short", "long"}
      BY <1>3 DEF WriteWake, WaitingWriters, LockInv, TypeOK
    <2>2. readerCounts[t] = 0 /\ holdingWriter # t
      BY <2>1 DEF LockInv, WaitingWritersHoldNothing
    <2>3. writersWaiting = Cardinality(WaitingWriters \cup {t})
      <3>1. WaitingWriters \cup {t} = WaitingWriters
        BY <2>1
      <3> QED
        BY <3>1 DEF LockInv, CountsWaiting
    <2> QED
      BY <1>3, <2>1, <2>2, <2>3, WriteLoopKeepsInv DEF WriteWake
  <1> QED
    BY <1>1, <1>2, <1>3, TryReadLockKeepsInv, TryWriteLockKeepsInv,
       ReadUnlockKeepsInv, WriteUnlockKeepsInv, TimeKeepsInv
    DEF Next

\* LockInv holds in every reachable state.
LEMMA LockInvariance == Spec => []LockInv
  BY InitEstablishesInv, NextKeepsInv, PTL DEF Spec

-----------------------------------------------------------------------------
(* The theorems.                                                           *)

\* The lock's state always has the types of its Go fields.
THEOREM TypeCorrect == Spec => []TypeOK
  BY LockInvariance, PTL DEF LockInv

\* While one thread holds the write lock no other thread reads, for any
\* number of threads, recursion depth and mix of timed and untimed calls.
THEOREM MutuallyExclusive == Spec => []MutualExclusion
  BY LockInvariance, PTL DEF LockInv

\* No wake-up of a writer is ever lost: a writer asleep in TryWriteLock's
\* cond.Wait() cannot be admitted now.
THEOREM NoWriterStranded == Spec => []NoStrandedWriter
  BY LockInvariance, PTL DEF LockInv

\* Readers never overtake a writer that is inside TryWriteLock's loop.
THEOREM ReadersNeverBarge == Spec => NoReaderBarging
  <1> DEFINE Barging == \A t \in Threads :
                readerCounts'[t] > readerCounts[t] /\ holdingWriter # t
                    => WaitingWriters = {}
  <1>1. ASSUME LockInv, Next PROVE Barging
    <2> SUFFICES ASSUME NEW u \in Threads,
                        readerCounts'[u] > readerCounts[u], holdingWriter # u
                 PROVE  WaitingWriters = {}
      OBVIOUS
    <2> USE DEF LockInv, TypeOK
    <2>0. readerCounts' # readerCounts
      BY <1>1
    <2>1. ASSUME NEW t \in Threads, NEW l, ReadLoop(t, l) PROVE WaitingWriters = {}
      BY <1>1, <2>0, <2>1, WaitingCounted DEF ReadLoop, ReadBlocked
    <2>2. ASSUME NEW t \in Threads, NEW d \in ReadDurations, TryReadLock(t, d)
          PROVE  WaitingWriters = {}
      <3>1. CASE holdingWriter = t /\ incrementReadLock(t)
        BY <1>1, <3>1 DEF incrementReadLock
      <3> QED
        BY <2>1, <2>2, <3>1 DEF TryReadLock
    <2>3. ASSUME NEW t \in Threads, ReadWake(t) PROVE WaitingWriters = {}
      BY <2>1, <2>3 DEF ReadWake
    <2>4. ASSUME NEW t \in Threads, ReadUnlock(t) PROVE WaitingWriters = {}
      BY <1>1, <2>4 DEF ReadUnlock, FoundReader
    <2>5. ASSUME NEW t \in Threads, NEW d \in WriteDurations, TryWriteLock(t, d)
          PROVE  WaitingWriters = {}
      BY <2>0, <2>5 DEF TryWriteLock, WriteLoop
    <2>6. ASSUME NEW t \in Threads,
                 WriteWake(t) \/ WriteUnlock(t) \/ Ring(t) \/ TimePasses(t)
          PROVE  WaitingWriters = {}
      BY <2>0, <2>6 DEF WriteWake, WriteLoop, WriteUnlock, Ring, TimePasses
    <2> QED
      BY <1>1, <2>2, <2>3, <2>4, <2>5, <2>6 DEF Next
  <1>2. LockInv /\ [Next]_vars => [Barging]_vars
    BY <1>1
  <1> QED
    BY <1>2, LockInvariance, PTL DEF Spec, NoReaderBarging

-----------------------------------------------------------------------------
(* Readers, when no writer gives up after waiting.                         *)

\* A writer in the loop waits for as long as it takes.
PatientWriters == \A t \in WaitingWriters : left[t] = "forever"

ReaderInv == PatientWriters /\ NoStrandedReader

\* No step puts a reader to sleep that could enter, or lets one sleep on.
LEMMA ReaderInvStep ==
    ASSUME WriteDurations \subseteq {"forever", "zero"},
           LockInv, ReaderInv, [Next]_vars
    PROVE  ReaderInv'
  <1> USE DEF ReaderInv
  <1>1. CASE UNCHANGED vars
    BY <1>1 DEF vars, PatientWriters, WaitingWriters, NoStrandedReader, ReadBlocked
  <1>2. TypeOK
    BY DEF LockInv
  <1>3. ASSUME NEW t \in Threads, NEW l, ReadLoop(t, l), t \notin WaitingWriters
        PROVE  ReaderInv'
    <2>1. UNCHANGED <<holdingWriter, writersWaiting>>
      BY <1>3 DEF ReadLoop
    <2>2. ReadBlocked' = ReadBlocked
      BY <2>1 DEF ReadBlocked
    <2>3. CASE Return(t)
      <3>1. /\ \A u \in Threads : pc'[u] = IF u = t THEN "idle" ELSE pc[u]
            /\ \A u \in Threads : left'[u] = IF u = t THEN "forever" ELSE left[u]
        BY <1>2, <2>3 DEF Return, TypeOK
      <3> QED
        BY <2>2, <3>1 DEF PatientWriters, WaitingWriters, NoStrandedReader
    <2>4. CASE ReadBlocked /\ ParkSleeping(t, "rwait", l)
      <3>1. /\ \A u \in Threads : pc'[u] = IF u = t THEN "rwait"
                                           ELSE IF l = "short" THEN Woken(pc[u]) ELSE pc[u]
            /\ \A u \in Threads : left'[u] = IF u = t THEN l ELSE left[u]
        BY <1>2, <2>4 DEF ParkSleeping, TypeOK
      <3>2. PatientWriters'
        BY <3>1 DEF PatientWriters, WaitingWriters, Woken
      <3>3. NoStrandedReader'
        BY <2>2, <2>4 DEF NoStrandedReader
      <3> QED
        BY <3>2, <3>3
    <2> QED
      BY <1>3, <2>3, <2>4 DEF ReadLoop
  <1>4. ASSUME NEW t \in Threads, NEW d \in ReadDurations, TryReadLock(t, d)
        PROVE  ReaderInv'
    <2>1. t \notin WaitingWriters
      BY <1>4 DEF TryReadLock, WaitingWriters
    <2>2. CASE UNCHANGED <<holdingWriter, writersWaiting, pc, left>>
      BY <2>2 DEF PatientWriters, WaitingWriters, NoStrandedReader, ReadBlocked
    <2> QED
      BY <1>3, <1>4, <2>1, <2>2 DEF TryReadLock
  <1>5. ASSUME NEW t \in Threads, ReadWake(t)
        PROVE  ReaderInv'
    <2>1. t \notin WaitingWriters
      BY <1>5 DEF ReadWake, WaitingWriters
    <2> QED
      BY <1>3, <1>5, <2>1 DEF ReadWake
  \* A pass of the writers' loop: it takes the lock, or waits, or gives up
  \* without having waited.
  <1>6. ASSUME NEW t \in Threads, NEW l \in {"forever", "none"}, NEW waiting \in Nat,
               WriteLoop(t, l, waiting), l = "none" => waiting = writersWaiting + 1,
               waiting > 0
        PROVE  ReaderInv'
    <2>1. CASE holdingWriter' = t /\ Return(t)
      <3>1. /\ \A u \in Threads : pc'[u] = IF u = t THEN "idle" ELSE pc[u]
            /\ \A u \in Threads : left'[u] = IF u = t THEN "forever" ELSE left[u]
        BY <1>2, <2>1 DEF Return, TypeOK
      <3>2. ReadBlocked'
        BY <2>1, ThreadsAssumption DEF ReadBlocked
      <3> QED
        BY <3>1, <3>2 DEF PatientWriters, WaitingWriters, NoStrandedReader
    <2>2. CASE l = "none" /\ StopWaiting(waiting) /\ Return(t) /\ UNCHANGED holdingWriter
      <3>1. /\ \A u \in Threads : pc'[u] = IF u = t THEN "idle" ELSE pc[u]
            /\ \A u \in Threads : left'[u] = IF u = t THEN "forever" ELSE left[u]
        BY <1>2, <2>2 DEF Return, TypeOK
      <3>2. writersWaiting' = writersWaiting
        BY <1>2, <1>6, <2>2 DEF StopWaiting, TypeOK
      <3>3. ReadBlocked' = ReadBlocked
        BY <2>2, <3>2 DEF ReadBlocked
      <3> QED
        BY <3>1, <3>3 DEF PatientWriters, WaitingWriters, NoStrandedReader
    <2>3. CASE l # "none" /\ writersWaiting' = waiting /\ ParkSleeping(t, "wwait", l)
      <3>1. /\ \A u \in Threads : pc'[u] = IF u = t THEN "wwait" ELSE pc[u]
            /\ \A u \in Threads : left'[u] = IF u = t THEN "forever" ELSE left[u]
        BY <1>2, <2>3 DEF ParkSleeping, TypeOK
      <3>2. ReadBlocked'
        BY <1>6, <2>3 DEF ReadBlocked
      <3> QED
        BY <3>1, <3>2 DEF PatientWriters, WaitingWriters, NoStrandedReader
    <2> QED
      BY <1>6, <2>1, <2>2, <2>3 DEF WriteLoop
  <1>7. ASSUME NEW t \in Threads, NEW d \in WriteDurations, TryWriteLock(t, d)
        PROVE  ReaderInv'
    <2>1. CASE UNCHANGED <<holdingWriter, writersWaiting, pc, left>>
      BY <2>1 DEF PatientWriters, WaitingWriters, NoStrandedReader, ReadBlocked
    <2>2. TimeLeft(d) \in {"forever", "none"}
      BY DEF TimeLeft
    <2>3. writersWaiting + 1 \in Nat /\ writersWaiting + 1 > 0
      BY <1>2 DEF TypeOK
    <2> QED
      BY <1>6, <1>7, <2>1, <2>2, <2>3 DEF TryWriteLock
  <1>8. ASSUME NEW t \in Threads, WriteWake(t)
        PROVE  ReaderInv'
    <2>1. t \in WaitingWriters /\ left[t] = "forever"
      BY <1>8 DEF WriteWake, WaitingWriters, PatientWriters
    <2>2. writersWaiting \in Nat /\ writersWaiting > 0
      BY <1>2, <2>1, WaitingCounted DEF TypeOK
    <2> QED
      BY <1>6, <1>8, <2>1, <2>2 DEF WriteWake
  <1>9. ASSUME NEW t \in Threads, ReadUnlock(t) \/ WriteUnlock(t) \/ Ring(t)
        PROVE  ReaderInv'
    <2>1. UNCHANGED <<writersWaiting, left>>
      BY <1>9 DEF ReadUnlock, WriteUnlock, Ring
    <2>2. CASE Broadcast
      <3>1. /\ WaitingWriters' = WaitingWriters
            /\ \A u \in Threads : pc'[u] # "rwait"
        BY <1>2, <2>2 DEF TypeOK, Broadcast, Woken, WaitingWriters
      <3> QED
        BY <2>1, <3>1 DEF PatientWriters, NoStrandedReader
    <2>3. CASE UNCHANGED <<pc, holdingWriter>>
      BY <2>1, <2>3 DEF PatientWriters, WaitingWriters, NoStrandedReader, ReadBlocked
    <2> QED
      BY <1>9, <2>2, <2>3 DEF ReadUnlock, WriteUnlock, Ring
  <1>10. ASSUME NEW t \in Threads, TimePasses(t)
         PROVE  ReaderInv'
    <2>1. /\ left[t] # "forever" /\ UNCHANGED <<holdingWriter, writersWaiting, pc>>
          /\ \A u \in Threads : u # t => left'[u] = left[u]
      BY <1>2, <1>10 DEF TimePasses, TypeOK
    <2> QED
      BY <2>1 DEF PatientWriters, WaitingWriters, NoStrandedReader, ReadBlocked
  <1> QED
    BY <1>1, <1>4, <1>5, <1>7, <1>8, <1>9, <1>10 DEF Next

\* No wake-up of a reader is lost either, if no TryWriteLock gives up after it
\* has waited (LockStrandedReader.cfg shows that the condition is needed: the
\* writer that gives up tells nobody).
THEOREM NoReaderStranded ==
    ASSUME WriteDurations \subseteq {"forever", "zero"}
    PROVE  Spec => []NoStrandedReader
  <1>1. Init => ReaderInv
    BY DEF Init, ReaderInv, PatientWriters, WaitingWriters, NoStrandedReader
  <1>2. LockInv /\ ReaderInv /\ [Next]_vars => ReaderInv'
    BY ReaderInvStep
  <1>3. ReaderInv => NoStrandedReader
    BY DEF ReaderInv
  <1> QED
    BY <1>1, <1>2, <1>3, LockInvariance, PTL DEF Spec

-----------------------------------------------------------------------------
(* Refinement of the abstract counting reader/writer lock.                 *)

\* Write holds as RWLock sees them.
WriteHolds == [t \in Threads |-> IF holdingWriter = t THEN writerCount ELSE 0]

\* A pass of the reader loop is an AcquireRead or invisible.
LEMMA ReadLoopRefines ==
    ASSUME LockInv, NEW t \in Threads, NEW l, ReadLoop(t, l)
    PROVE  RW!AcquireRead(t) \/ UNCHANGED <<readerCounts, WriteHolds>>
  <1>1. UNCHANGED WriteHolds
    BY DEF ReadLoop, WriteHolds
  <1>2. CASE ~ReadBlocked /\ incrementReadLock(t)
    <2>1. \A u \in Threads : WriteHolds[u] = 0
      BY <1>2, ThreadsAssumption DEF ReadBlocked, WriteHolds
    <2> QED
      BY <1>1, <1>2, <2>1 DEF RW!AcquireRead, incrementReadLock, WriteHolds
  <1> QED
    BY <1>1, <1>2 DEF ReadLoop

\* A pass of the writer loop is an AcquireWrite or invisible.
LEMMA WriteLoopRefines ==
    ASSUME LockInv, NEW t \in Threads, NEW l, NEW w,
           readerCounts[t] = 0, WriteLoop(t, l, w)
    PROVE  RW!AcquireWrite(t) \/ UNCHANGED <<readerCounts, WriteHolds>>
  <1>1. CASE ~WriteBlocked(t) /\ holdingWriter' = t /\ writerCount' = 1
    <2>1. \A u \in Threads : WriteHolds[u] = 0 /\ readerCounts[u] = 0
      BY <1>1, ThreadsAssumption DEF WriteBlocked, WriteHolds, LockInv, TypeOK
    <2>2. WriteHolds' = [WriteHolds EXCEPT ![t] = @ + 1]
      <3>1. WriteHolds = [u \in Threads |-> 0]
        BY <2>1 DEF WriteHolds
      <3>2. WriteHolds' = [u \in Threads |-> IF u = t THEN 1 ELSE 0]
        BY <1>1 DEF WriteHolds
      <3> QED
        BY <3>1, <3>2
    <2> QED
      BY <2>1, <2>2 DEF RW!AcquireWrite, WriteHolds, WriteLoop
  <1>2. CASE UNCHANGED <<holdingWriter, writerCount>>
    BY <1>2 DEF WriteHolds, WriteLoop
  <1> QED
    BY <1>1, <1>2 DEF WriteLoop

\* Every step of the lock is a step of RWLock or leaves the holds alone.
LEMMA StepRefines ==
    ASSUME LockInv, [Next]_vars
    PROVE  [RW!Next]_<<readerCounts, WriteHolds>>
  <1>1. CASE UNCHANGED vars
    BY <1>1 DEF vars, WriteHolds
  <1>2. ASSUME NEW t \in Threads, NEW d \in ReadDurations, TryReadLock(t, d)
        PROVE  RW!AcquireRead(t) \/ UNCHANGED <<readerCounts, WriteHolds>>
    <2>1. CASE holdingWriter = t /\ incrementReadLock(t)
               /\ UNCHANGED <<holdingWriter, writerCount>>
      <3>1. UNCHANGED WriteHolds
        BY <2>1 DEF WriteHolds
      <3>2. \A u \in Threads \ {t} : WriteHolds[u] = 0
        BY <2>1 DEF WriteHolds
      <3> QED
        BY <2>1, <3>1, <3>2 DEF RW!AcquireRead, incrementReadLock, WriteHolds
    <2> QED
      BY <1>2, <2>1, ReadLoopRefines DEF TryReadLock
  <1>3. ASSUME NEW t \in Threads, ReadWake(t)
        PROVE  RW!AcquireRead(t) \/ UNCHANGED <<readerCounts, WriteHolds>>
    BY <1>3, ReadLoopRefines DEF ReadWake
  <1>4. ASSUME NEW t \in Threads, ReadUnlock(t)
        PROVE  RW!ReleaseRead(t)
    BY <1>4 DEF ReadUnlock, FoundReader, RW!ReleaseRead
  <1>5. ASSUME NEW t \in Threads, NEW d \in WriteDurations, TryWriteLock(t, d)
        PROVE  RW!AcquireWrite(t) \/ UNCHANGED <<readerCounts, WriteHolds>>
    <2>1. CASE holdingWriter = t /\ writerCount' = writerCount + 1
               /\ UNCHANGED <<readerCounts, holdingWriter>>
      <3>1. WriteHolds' = [WriteHolds EXCEPT ![t] = @ + 1]
        BY <2>1 DEF WriteHolds
      <3>2. readerCounts[t] = 0
            /\ \A u \in Threads \ {t} : readerCounts[u] = 0 /\ WriteHolds[u] = 0
        BY <1>5, <2>1, ThreadsAssumption
        DEF TryWriteLock, MayWrite, LockInv, MutualExclusion, TypeOK, WriteHolds
      <3> QED
        BY <2>1, <3>1, <3>2 DEF RW!AcquireWrite, WriteHolds
    <2> QED
      BY <1>5, <2>1, WriteLoopRefines DEF TryWriteLock, MayWrite
  <1>6. ASSUME NEW t \in Threads, WriteWake(t)
        PROVE  RW!AcquireWrite(t) \/ UNCHANGED <<readerCounts, WriteHolds>>
    <2>1. readerCounts[t] = 0
      BY <1>6 DEF WriteWake, LockInv, WaitingWritersHoldNothing, WaitingWriters
    <2> QED
      BY <1>6, <2>1, WriteLoopRefines DEF WriteWake
  <1>7. ASSUME NEW t \in Threads, WriteUnlock(t)
        PROVE  RW!ReleaseWrite(t)
    <2>1. holdingWriter = t /\ writerCount > 0 /\ writerCount \in Nat
      BY <1>7, ThreadsAssumption DEF WriteUnlock, LockInv, CountedHolder, TypeOK
    <2>2. WriteHolds' = [WriteHolds EXCEPT ![t] = @ - 1]
      <3>1. WriteHolds = [u \in Threads |-> IF u = t THEN writerCount ELSE 0]
        BY <2>1 DEF WriteHolds
      <3>2. WriteHolds' = [u \in Threads |-> IF u = t THEN writerCount - 1 ELSE 0]
        BY <1>7, <2>1, ThreadsAssumption DEF WriteUnlock, WriteHolds
      <3> QED
        BY <2>1, <3>1, <3>2
    <2> QED
      BY <1>7, <2>1, <2>2 DEF WriteUnlock, RW!ReleaseWrite, WriteHolds
  <1>8. ASSUME NEW t \in Threads, Ring(t) \/ TimePasses(t)
        PROVE  UNCHANGED <<readerCounts, WriteHolds>>
    BY <1>8 DEF Ring, TimePasses, WriteHolds
  <1> QED
    BY <1>1, <1>2, <1>3, <1>4, <1>5, <1>6, <1>7, <1>8 DEF Next, RW!Next

\* goethe's lock implements a counting reader/writer lock.
THEOREM RefinesRWLock == Spec => ImplementsRWLock
  <1>1. Init => RW!Init
    BY ThreadsAssumption DEF Init, RW!Init
  <1>2. LockInv /\ [Next]_vars => [RW!Next]_RW!rwVars
    BY StepRefines DEF RW!rwVars, WriteHolds
  <1> QED
    BY <1>1, <1>2, LockInvariance, PTL DEF Spec, RW!Spec, ImplementsRWLock

\* A lock with RWLock's four operations never breaks mutual exclusion,
\* whatever the holds it counts stand for.
THEOREM RWExclusive == RW!Spec => []RW!Exclusion
  <1>1. RW!Init => RW!RWTypeOK /\ RW!Exclusion
    BY DEF RW!Init, RW!RWTypeOK, RW!Exclusion
  <1>2. RW!RWTypeOK /\ RW!Exclusion /\ [RW!Next]_RW!rwVars => RW!RWTypeOK' /\ RW!Exclusion'
    <2> SUFFICES ASSUME RW!RWTypeOK, RW!Exclusion, [RW!Next]_RW!rwVars
                 PROVE  RW!RWTypeOK' /\ RW!Exclusion'
      OBVIOUS
    <2>1. CASE UNCHANGED RW!rwVars
      BY <2>1 DEF RW!rwVars, RW!RWTypeOK, RW!Exclusion
    <2>2. ASSUME NEW t \in Threads, RW!AcquireRead(t)
          PROVE  RW!RWTypeOK' /\ RW!Exclusion'
      BY <2>2 DEF RW!AcquireRead, RW!RWTypeOK, RW!Exclusion
    <2>3. ASSUME NEW t \in Threads, RW!ReleaseRead(t)
          PROVE  RW!RWTypeOK' /\ RW!Exclusion'
      BY <2>3 DEF RW!ReleaseRead, RW!RWTypeOK, RW!Exclusion
    <2>4. ASSUME NEW t \in Threads, RW!AcquireWrite(t)
          PROVE  RW!RWTypeOK' /\ RW!Exclusion'
      BY <2>4 DEF RW!AcquireWrite, RW!RWTypeOK, RW!Exclusion
    <2>5. ASSUME NEW t \in Threads, RW!ReleaseWrite(t)
          PROVE  RW!RWTypeOK' /\ RW!Exclusion'
      <3>1. /\ WriteHolds \in [Threads -> Nat] /\ readerCounts' = readerCounts
            /\ WriteHolds[t] > 0
            /\ WriteHolds' = [WriteHolds EXCEPT ![t] = @ - 1]
        BY <2>5 DEF RW!ReleaseWrite, RW!RWTypeOK, WriteHolds
      <3>2. \A u, v \in Threads : u # v /\ WriteHolds[u] > 0
                => WriteHolds[v] = 0 /\ readerCounts[v] = 0
        BY DEF RW!Exclusion, WriteHolds
      <3>3. /\ WriteHolds' \in [Threads -> Nat]
            /\ \A u, v \in Threads : u # v /\ WriteHolds'[u] > 0
                  => WriteHolds'[v] = 0 /\ readerCounts'[v] = 0
        BY <3>1, <3>2
      <3> QED
        BY <3>1, <3>3 DEF RW!RWTypeOK, RW!Exclusion, WriteHolds
    <2> QED
      BY <2>1, <2>2, <2>3, <2>4, <2>5 DEF RW!Next
  <1> QED
    BY <1>1, <1>2, PTL DEF RW!Spec

\* Hence callers see mutual exclusion of all holds, recursive ones included.
THEOREM CallersExcluded == Spec => []RW!Exclusion
  BY RefinesRWLock, RWExclusive, PTL DEF ImplementsRWLock
=============================================================================
