------------------------------ MODULE CarCache ------------------------------
(***************************************************************************)
(* The CAR cache of cache/car.go: clocks T1 (recency) and T2 (frequency)   *)
(* hold values, B1 and B2 (lru_map.go) the keys evicted from them.         *)
(*                                                                         *)
(* Compute, Remove and Clear hold the cache's write lock throughout, so    *)
(* the steps of one Compute never mix with another operation; `step` only  *)
(* spells out replace's loop.  A calculator that calls Compute for another *)
(* key completes that call before the steps of the outer one begin, and a  *)
(* calculator that fails leaves the cache alone.  Destructors run outside  *)
(* the state modelled here.                                                *)
(***************************************************************************)
EXTENDS CarClock

CONSTANTS
    Keys,
    MaxSize,   \* max of NewCARCache
    Removals,  \* the sets of keys removal functions hold of
    NoKey

ASSUME CacheAssumption ==
    /\ MaxSize \in Nat \ {0}
    /\ Removals \subseteq SUBSET Keys
    /\ NoKey \notin Keys

VARIABLES
    T1, T2,  \* clocks
    B1, B2,  \* keys, the most recently used first
    p,       \* target size of T1
    step,    \* where Compute is
    key      \* the key being computed, or NoKey

vars == <<T1, T2, B1, B2, p, step, key>>

Init ==
    /\ T1 = newCarClock /\ T2 = newCarClock
    /\ B1 = << >> /\ B2 = << >>
    /\ p = 0
    /\ step = "idle" /\ key = NoKey

-----------------------------------------------------------------------------
(* The LRU key lists of lru_map.go, as sequences.                          *)

Contains(b, k) == \E i \in DOMAIN b : b[i] = k
AddMRU(b, k) == <<k>> \o b
RemoveLRU(b) == IF b = << >> THEN b ELSE SubSeq(b, 1, Len(b) - 1)
RemoveKeys(b, R) == Kept(b, {i \in DOMAIN b : b[i] \notin R})

Larger(a, b) == IF a > b THEN a ELSE b
Smaller(a, b) == IF a < b THEN a ELSE b

isXInB(k) == Contains(B1, k) \/ Contains(B2, k)

-----------------------------------------------------------------------------
(* Compute.                                                                *)

Hit(k) ==
    /\ step = "idle"
    /\ \/ /\ k \in ClockKeys(T1)
          /\ T1' = SetPageReference(T1, k) /\ UNCHANGED T2
       \/ /\ k \notin ClockKeys(T1) /\ k \in ClockKeys(T2)
          /\ T2' = SetPageReference(T2, k) /\ UNCHANGED T1
    /\ UNCHANGED <<B1, B2, p, step, key>>

\* Mutant of Full: off by one.
FullLate == Size(T1) + Size(T2) > MaxSize

Full == Size(T1) + Size(T2) >= MaxSize

\* A miss whose calculator succeeded.
Miss(k) ==
    /\ step = "idle"
    /\ k \notin ClockKeys(T1) \cup ClockKeys(T2)
    /\ key' = k
    /\ step' = IF Full THEN "replace" ELSE "insert"
    /\ UNCHANGED <<T1, T2, B1, B2, p>>

Panic == step' = "panicked" /\ UNCHANGED <<T1, T2, B1, B2, p, key>>

FromT1 == Size(T1) >= Larger(1, p)

\* One pass of replace's loop on T1: evict its head to B1, or promote it.
ReplaceT1 ==
    /\ step = "replace" /\ FromT1
    /\ IF T1.list = << >> THEN Panic
       ELSE LET k == Head(T1.list).key
            IN  IF Head(T1.list).ref
                THEN IF k \in ClockKeys(T2) THEN Panic
                     ELSE /\ T1' = RemoveHead(T1) /\ T2' = AddTail(T2, k)
                          /\ UNCHANGED <<B1, B2, p, step, key>>
                ELSE IF Contains(B1, k) THEN Panic
                     ELSE /\ T1' = RemoveHead(T1) /\ B1' = AddMRU(B1, k)
                          /\ step' = "trim"
                          /\ UNCHANGED <<T2, B2, p, key>>

\* One pass on T2: evict its head to B2, or give it another round.
ReplaceT2 ==
    /\ step = "replace" /\ ~FromT1
    /\ IF T2.list = << >> THEN Panic
       ELSE LET k == Head(T2.list).key
            IN  IF Head(T2.list).ref
                THEN /\ T2' = AddTail(RemoveHead(T2), k)
                     /\ UNCHANGED <<T1, B1, B2, p, step, key>>
                ELSE IF Contains(B2, k) THEN Panic
                     ELSE /\ T2' = RemoveHead(T2) /\ B2' = AddMRU(B2, k)
                          /\ step' = "trim"
                          /\ UNCHANGED <<T1, B1, p, key>>

AllKeysFull == Size(T1) + Size(T2) + Len(B1) + Len(B2) >= 2 * MaxSize

\* A new key in a full cache: forget an evicted key for it.
Trim ==
    /\ step = "trim"
    /\ step' = "insert"
    /\ \/ isXInB(key) /\ UNCHANGED <<B1, B2>>
       \/ /\ ~isXInB(key) /\ Size(T1) + Len(B1) >= MaxSize
          /\ B1' = RemoveLRU(B1) /\ UNCHANGED B2
       \/ /\ ~isXInB(key) /\ Size(T1) + Len(B1) < MaxSize
          /\ B2' = IF AllKeysFull THEN RemoveLRU(B2) ELSE B2
          /\ UNCHANGED B1
    /\ UNCHANGED <<T1, T2, p, key>>

\* Mutant of Forgotten: the key stays in B.
StillKnown(b) == b

\* A hit in B1 makes T1's share grow; one in B2 makes it shrink.
Grown(b1, b2) == Smaller(p + Larger(1, b2 \div b1), MaxSize)
Shrunk(b1, b2) == LET by == Larger(1, b1 \div b2) IN IF p > by THEN p - by ELSE 0

\* B.Remove(key)
Forgotten(b) == RemoveKeys(b, {key})

\* T2.AddTail(key), which panics if T2 has the key already.
InsertT2 ==
    LET known == key \in ClockKeys(T2)
    IN  /\ T2' = IF known THEN T2 ELSE AddTail(T2, key)
        /\ step' = IF known THEN "panicked" ELSE "idle"

\* The end of Compute.  T1 cannot have the key: it was missed.
Insert ==
    /\ step = "insert"
    /\ key' = NoKey
    /\ \/ /\ ~isXInB(key)
          /\ T1' = AddTail(T1, key) /\ step' = "idle"
          /\ UNCHANGED <<T2, B1, B2, p>>
       \/ /\ Contains(B1, key)
          /\ p' = Grown(Len(B1), Len(B2))
          /\ B1' = Forgotten(B1)
          /\ InsertT2
          /\ UNCHANGED <<T1, B2>>
       \/ /\ ~Contains(B1, key) /\ Contains(B2, key)
          /\ p' = Shrunk(Len(B1), Len(B2))
          /\ B2' = Forgotten(B2)
          /\ InsertT2
          /\ UNCHANGED <<T1, B1>>

-----------------------------------------------------------------------------
Clear ==
    /\ step = "idle"
    /\ T1' = newCarClock /\ T2' = newCarClock
    /\ B1' = << >> /\ B2' = << >> /\ p' = 0
    /\ UNCHANGED <<step, key>>

Remove(R) ==
    /\ step = "idle"
    /\ T1' = RemoveAll(T1, R) /\ T2' = RemoveAll(T2, R)
    /\ B1' = RemoveKeys(B1, R) /\ B2' = RemoveKeys(B2, R)
    /\ UNCHANGED <<p, step, key>>

ComputeStep == ReplaceT1 \/ ReplaceT2 \/ Trim \/ Insert

Next ==
    \/ \E k \in Keys : Hit(k) \/ Miss(k)
    \/ ComputeStep
    \/ Clear
    \/ \E R \in Removals : Remove(R)

Spec == Init /\ [][Next]_vars

-----------------------------------------------------------------------------
Clocks == [list : Seq([key : Keys, ref : BOOLEAN, live : BOOLEAN]),
           lost : SUBSET Keys, attached : BOOLEAN]

TypeOK ==
    /\ T1 \in Clocks /\ T2 \in Clocks
    /\ B1 \in Seq(Keys) /\ B2 \in Seq(Keys)
    /\ p \in 0..MaxSize
    /\ step \in {"idle", "replace", "trim", "insert", "panicked"}
    /\ key \in Keys \cup {NoKey}

\* "The CAR algorithm keeps at most max values but up to 2 * max the number
\* of keys", and T1's target share p stays between 0 and max although it moves
\* by a ratio of list sizes.
Bounds ==
    /\ p \in 0..MaxSize
    /\ Size(T1) + Size(T2) <= MaxSize
    /\ step = "idle" =>
          Size(T1) + Size(T2) + Len(B1) + Len(B2) <= 2 * MaxSize

\* A key is in at most one of the four lists, once.
Disjoint ==
    LET inB(b, k) == Cardinality({i \in DOMAIN b : b[i] = k})
        inT(c, k) == Cardinality({i \in DOMAIN c.list : c.list[i].key = k})
    IN  \A k \in Keys :
            inT(T1, k) + inT(T2, k) + inB(B1, k) + inB(B2, k) <= 1

\* None of the panics of AddTail, AddMRU and GetPageReferenceOfHead happens:
\* replace never looks at an empty clock, whatever p and the hits did.
NeverPanics == step # "panicked"

\* Entries whose page reference bit is set.
Referenced ==
    LET marked(c) == Cardinality({i \in DOMAIN c.list : c.list[i].ref})
    IN  marked(T1) + marked(T2)

\* replace finds a victim in the end: every pass of its loop that evicts
\* nothing leaves fewer referenced entries, whichever clock it turns.
ReplaceProgresses ==
    [][step = "replace" /\ step' = "replace" => Referenced' < Referenced]_vars
=============================================================================
