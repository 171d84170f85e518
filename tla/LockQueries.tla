---------------------------- MODULE LockQueries ----------------------------
(***************************************************************************)
(* IsLocked, IsReadLocked and IsWriteLocked of goethe_lock_impl.go beside  *)
(* the lock at work.  IsReadLocked and IsWriteLocked each take goMux once; *)
(* IsLocked calls one after the other and lets go of goMux in between.  A  *)
(* query may come from any goroutine: one without a thread id has the test *)
(* done by a helper thread, which changes nothing that is seen here.       *)
(***************************************************************************)
EXTENDS GoetheLock

VARIABLES
    query,    \* the IsLocked call: "none", "between" its two tests, or its answer
    freeSeen  \* history: the lock was free at some instant of that call

queryVars == <<query, freeSeen>>

\* getAllOtherReadCount(-1) > 0 under goMux.
IsReadLocked == \E t \in Threads : readerCounts[t] > 0

\* holdingWriter is not -2, under goMux.
IsWriteLocked == holdingWriter # NoThread

LockHeld == IsReadLocked \/ IsWriteLocked

QueryInit == Init /\ query = "none" /\ freeSeen = FALSE

\* IsLocked begins: the first operand of its ||.
IsLockedFirst ==
    /\ query # "between"
    /\ query' = IF IsReadLocked THEN "true" ELSE "between"
    /\ freeSeen' = ~LockHeld
    /\ UNCHANGED vars

\* The second operand, in a critical section of its own.
IsLockedSecond ==
    /\ query = "between"
    /\ query' = IF IsWriteLocked THEN "true" ELSE "false"
    /\ freeSeen' = (freeSeen \/ ~LockHeld)
    /\ UNCHANGED vars

LockStep ==
    /\ Next
    /\ freeSeen' = (freeSeen \/ (query = "between" /\ ~LockHeld'))
    /\ UNCHANGED query

QueryNext == LockStep \/ IsLockedFirst \/ IsLockedSecond

QuerySpec == QueryInit /\ [][QueryNext]_<<vars, queryVars>>

-----------------------------------------------------------------------------
\* IsLocked answers false only if the lock was free at some instant of the
\* call (goethe.go: "IsLocked returns true if the lock is either read or
\* write lock held").  Not kept: LockQueries.cfg.
FalseMeansFree == query = "false" => freeSeen

\* IsReadLocked is true of a lock that is "held for read and NOT write".  Not
\* kept: LockQueries.cfg.
ReadLockedExcludesWrite == IsReadLocked => ~IsWriteLocked
=============================================================================
