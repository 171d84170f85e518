------------------------------- MODULE RWLock -------------------------------
(***************************************************************************)
(* What a goethe Lock promises its callers: a counting reader/writer lock. *)
(* A thread holds the lock `reads[t]` times for read and `writes[t]` times *)
(* for write.  Waiting, timing and waking are invisible at this level.     *)
(* GoetheLock is shown to implement this specification.                    *)
(***************************************************************************)
EXTENDS Naturals

CONSTANT Threads     \* goethe threads

VARIABLES reads,     \* read holds of each thread
          writes     \* write holds of each thread

rwVars == <<reads, writes>>

Init ==
    /\ reads = [t \in Threads |-> 0]
    /\ writes = [t \in Threads |-> 0]

\* Reading is allowed beside other readers, and inside one's own write hold.
AcquireRead(t) ==
    /\ \A u \in Threads \ {t} : writes[u] = 0
    /\ reads' = [reads EXCEPT ![t] = @ + 1]
    /\ UNCHANGED writes

ReleaseRead(t) ==
    /\ reads[t] > 0
    /\ reads' = [reads EXCEPT ![t] = @ - 1]
    /\ UNCHANGED writes

\* A reader may not become a writer, not even inside its own write hold.
AcquireWrite(t) ==
    /\ reads[t] = 0
    /\ \A u \in Threads \ {t} : reads[u] = 0 /\ writes[u] = 0
    /\ writes' = [writes EXCEPT ![t] = @ + 1]
    /\ UNCHANGED reads

ReleaseWrite(t) ==
    /\ writes[t] > 0
    /\ writes' = [writes EXCEPT ![t] = @ - 1]
    /\ UNCHANGED reads

Next == \E t \in Threads : AcquireRead(t) \/ ReleaseRead(t)
                           \/ AcquireWrite(t) \/ ReleaseWrite(t)

Spec == Init /\ [][Next]_rwVars

-----------------------------------------------------------------------------
RWTypeOK ==
    /\ reads \in [Threads -> Nat]
    /\ writes \in [Threads -> Nat]

\* Mutual exclusion as a caller sees it: while one thread holds the lock for
\* write, no other thread holds it in any mode.
Exclusion ==
    \A t, u \in Threads :
        t # u /\ writes[t] > 0 => writes[u] = 0 /\ reads[u] = 0
=============================================================================
