----------------------------- MODULE Heap_proofs -----------------------------
(***************************************************************************)
(* Proofs about the heap of queues/heap.go, for arrays of any length and   *)
(* any comparator, and about the timer heap that uses it, for any number   *)
(* of jobs, threads and times.                                             *)
(***************************************************************************)
EXTENDS TimerHeap, PriorityQueue, FiniteSetTheorems, WellFoundedInduction, TLAPS

-----------------------------------------------------------------------------
(* Swap chains.                                                            *)

\* Path is closed under next ...
LEMMA PathFacts ==
    ASSUME NEW n \in Nat, NEW first \in 1..n, NEW next \in [1..n -> 1..n]
    PROVE  /\ Path(n, first, next) \subseteq 1..n
           /\ first \in Path(n, first, next)
           /\ \A i \in Path(n, first, next) : next[i] \in Path(n, first, next)
  BY DEF Path

\* ... and inside every set that is.
LEMMA PathLeast ==
    ASSUME NEW n \in Nat, NEW first, NEW next, NEW P \in SUBSET (1..n),
           first \in P, \A j \in P : next[j] \in P
    PROVE  Path(n, first, next) \subseteq P
  BY DEF Path

\* Only the first place of a path is reached from nowhere.
Reached(path, first, next) ==
    \A i \in path : i # first => \E j \in path : j # i /\ next[j] = i

LEMMA PathPredecessor ==
    ASSUME NEW n \in Nat, NEW first \in 1..n, NEW next \in [1..n -> 1..n]
    PROVE  Reached(Path(n, first, next), first, next)
  <1> SUFFICES ASSUME NEW i \in Path(n, first, next), i # first
               PROVE  \E j \in Path(n, first, next) : j # i /\ next[j] = i
    BY Zenon DEF Reached
  <1> DEFINE path == Path(n, first, next)   P == path \ {i}
  <1>1. /\ path \subseteq 1..n /\ first \in path /\ \A j \in path : next[j] \in path
    BY PathFacts
  <1> HIDE DEF path
  <1> SUFFICES ASSUME \A j \in path : j # i => next[j] # i
               PROVE  FALSE
    BY Zenon DEF path
  <1>2. P \in SUBSET (1..n) /\ first \in P /\ \A j \in P : next[j] \in P
    BY <1>1
  <1>3. path \subseteq P
    <2> HIDE DEF P
    <2> QED
      BY <1>2, PathLeast DEF path
  <1> QED
    BY <1>3 DEF path

\* Beyond k, the places a path from k comes by are those of the path from next[k].
LEMMA PathStep ==
    ASSUME NEW n \in Nat, NEW next \in [1..n -> 1..n], NEW k \in 1..n
    PROVE  \A i \in Path(n, k, next) : i # k => i \in Path(n, next[k], next)
  <1> DEFINE R == Path(n, next[k], next)   P == R \cup {k}
  <1>1. next[k] \in 1..n
    OBVIOUS
  <1>2. R \subseteq 1..n /\ next[k] \in R /\ \A i \in R : next[i] \in R
    BY <1>1, PathFacts
  <1>3. P \in SUBSET (1..n) /\ k \in P /\ \A j \in P : next[j] \in P
    <2> HIDE DEF R
    <2> QED
      BY <1>2
  <1>4. Path(n, k, next) \subseteq P
    <2> HIDE DEF P
    <2> QED
      BY <1>3, PathLeast
  <1> QED
    BY <1>4

\* A path ends in one place only.
LEMMA PathEnds ==
    ASSUME NEW n \in Nat, NEW first \in 1..n, NEW next \in [1..n -> 1..n]
    PROVE  \A i, j \in Path(n, first, next) : next[i] = i /\ next[j] = j => i = j
  <1> SUFFICES ASSUME NEW i \in Path(n, first, next), NEW j \in Path(n, first, next),
                      next[i] = i, next[j] = j, i # j
               PROVE  FALSE
    OBVIOUS
  <1> DEFINE P == {k \in 1..n : i \in Path(n, k, next) /\ j \in Path(n, k, next)}
  <1>1. i \in 1..n /\ j \in 1..n
    BY PathFacts
  <1>2. \A k \in 1..n : next[k] = k => Path(n, k, next) \subseteq {k}
    <2> SUFFICES ASSUME NEW k \in 1..n, next[k] = k
                 PROVE  Path(n, k, next) \subseteq {k}
      OBVIOUS
    <2> DEFINE Q == {k}
    <2>1. Q \in SUBSET (1..n) /\ k \in Q /\ \A l \in Q : next[l] \in Q
      OBVIOUS
    <2> HIDE DEF Q
    <2>2. Path(n, k, next) \subseteq Q
      BY <2>1, PathLeast
    <2> QED
      BY <2>2 DEF Q
  <1>3. ASSUME NEW k \in P
        PROVE  next[k] \in P
    <2>1. k \in 1..n /\ next[k] \in 1..n /\ i \in Path(n, k, next) /\ j \in Path(n, k, next)
      OBVIOUS
    <2>2. k # i /\ k # j
      BY <1>2, <2>1
    <2> QED
      BY <2>1, <2>2, PathStep
  <1>4. P \in SUBSET (1..n) /\ first \in P
    OBVIOUS
  <1>5. Path(n, first, next) \subseteq P
    <2> HIDE DEF P
    <2> QED
      BY <1>3, <1>4, PathLeast
  <1>6. j \in Path(n, i, next)
    BY <1>5
  <1> QED
    BY <1>1, <1>2, <1>6

\* Of two places of a path one comes after the other.
LEMMA PathIsChain ==
    ASSUME NEW n \in Nat, NEW first \in 1..n, NEW next \in [1..n -> 1..n]
    PROVE  \A i, j \in Path(n, first, next) :
               i \in Path(n, j, next) \/ j \in Path(n, i, next)
  <1> SUFFICES ASSUME NEW i \in Path(n, first, next)
               PROVE  \A j \in Path(n, first, next) :
                          i \in Path(n, j, next) \/ j \in Path(n, i, next)
    OBVIOUS
  <1> DEFINE P == {k \in 1..n : i \in Path(n, k, next) \/ k \in Path(n, i, next)}
  <1>1. i \in 1..n
    BY PathFacts
  <1>2. i \in Path(n, i, next) /\ \A k \in Path(n, i, next) : next[k] \in Path(n, i, next)
    BY <1>1, PathFacts
  <1>3. ASSUME NEW k \in P
        PROVE  next[k] \in P
    <2>1. k \in 1..n /\ next[k] \in 1..n
      OBVIOUS
    <2>2. CASE k \in Path(n, i, next)
      BY <1>2, <2>1, <2>2
    <2>3. CASE i \in Path(n, k, next) /\ i # k
      BY <2>1, <2>3, PathStep
    <2> QED
      BY <1>2, <2>2, <2>3
  <1>4. P \in SUBSET (1..n) /\ first \in P
    OBVIOUS
  <1>5. Path(n, first, next) \subseteq P
    <2> HIDE DEF P
    <2> QED
      BY <1>3, <1>4, PathLeast
  <1> QED
    BY <1>5

\* On a path that goes down in every step no two places lead to the same one.
LEMMA PathIsInjective ==
    ASSUME NEW n \in Nat, NEW first \in 1..n, NEW next \in [1..n -> 1..n],
           \A i \in 1..n : next[i] <= i
    PROVE  \A i, j \in Path(n, first, next) :
               next[i] # i /\ next[j] # j /\ next[i] = next[j] => i = j
  <1>1. \A k \in 1..n : \A i \in Path(n, k, next) : i <= k
    <2> SUFFICES ASSUME NEW k \in 1..n
                 PROVE  \A i \in Path(n, k, next) : i <= k
      OBVIOUS
    <2> DEFINE Q == 1..k
    <2>1. Q \in SUBSET (1..n) /\ k \in Q /\ \A l \in Q : next[l] \in Q
      OBVIOUS
    <2> HIDE DEF Q
    <2>2. Path(n, k, next) \subseteq Q
      BY <2>1, PathLeast
    <2> QED
      BY <2>2 DEF Q
  <1>2. ASSUME NEW i \in Path(n, first, next), NEW j \in Path(n, first, next),
               next[i] # i, next[j] # j, next[i] = next[j], i # j, j \in Path(n, i, next)
        PROVE  FALSE
    <2>1. i \in 1..n /\ j \in 1..n /\ next[i] \in 1..n
      BY PathFacts
    <2>2. j \in Path(n, next[i], next)
      BY <1>2, <2>1, PathStep
    <2>3. j <= next[j]
      BY <1>1, <1>2, <2>1, <2>2
    <2> QED
      BY <1>2, <2>1, <2>3
  <1> QED
    BY <1>2, PathIsChain

-----------------------------------------------------------------------------
(* The order of a heap.                                                    *)

\* A comparator on V: no two come after each other, and not coming after is
\* transitive.
Compares(after, V) ==
    /\ \A a, b \in V : <<a, b>> \in after => <<b, a>> \notin after
    /\ \A a, b, c \in V : <<a, b>> \notin after /\ <<b, c>> \notin after
                             => <<a, c>> \notin after

\* No node comes after one of its children.
Ordered(after, q) == \A i \in 2..Len(q) : <<q[getParent(i)], q[i]>> \notin after

LEMMA Halves ==
    ASSUME NEW i \in Nat, i > 1
    PROVE  /\ getParent(i) \in Nat /\ getParent(i) >= 1 /\ getParent(i) < i
           /\ i = 2 * getParent(i) \/ i = 2 * getParent(i) + 1
  BY DEF getParent

\* Where Add moves its node from i, and where it comes by.
Rise(after, q, x) ==
    [i \in 1..(Len(q) + 1) |-> IF RisesPast(after, q, i, x) THEN getParent(i) ELSE i]
RisePath(after, q, x) == Path(Len(q) + 1, Len(q) + 1, Rise(after, q, x))

\* What is to be known of Add: r is the array that it makes of q and x.  A node
\* that x comes by comes after it (x starts at the last place, n).
AddChain(V, after, q, x, n, next, path, r) ==
    /\ n \in Nat /\ n = Len(q) + 1 /\ next \in [1..n -> 1..n]
    /\ \A i \in 1..n : next[i] # i <=> RisesPast(after, q, i, x)
    /\ \A i \in 1..n : next[i] # i => next[i] = getParent(i) /\ next[i] \in DOMAIN q
    /\ path = Path(n, n, next)
    /\ path \subseteq 1..n /\ n \in path
    /\ \A i \in path : next[i] \in path
    /\ \A i \in path : i # n => <<q[i], x>> \in after
    /\ r \in Seq(V) /\ Len(r) = n /\ DOMAIN r = 1..n
    /\ \A i \in 1..n : /\ i \notin path => r[i] = q[i]
                       /\ i \in path /\ next[i] = i => r[i] = x
                       /\ i \in path /\ next[i] # i => r[i] = q[next[i]]
    /\ \A i \in 1..n : r[i] = x \/ \E j \in DOMAIN q : r[i] = q[j]

LEMMA AddFacts ==
    ASSUME NEW V, NEW after, NEW q \in Seq(V), NEW x \in V
    PROVE  AddChain(V, after, q, x, Len(q) + 1, Rise(after, q, x),
                    RisePath(after, q, x), Add(after, q, x))
  <1> DEFINE n == Len(q) + 1   next == Rise(after, q, x)
             path == RisePath(after, q, x)   r == Add(after, q, x)
  <1>1. n \in Nat /\ n \in 1..n /\ n = Len(q) + 1 /\ DOMAIN q = 1..(n - 1)
    OBVIOUS
  <1>2. next = [i \in 1..n |-> IF RisesPast(after, q, i, x) THEN getParent(i) ELSE i]
    BY DEF Rise
  <1>3. path = Path(n, n, next)
    BY DEF RisePath
  <1>4. r = Swapped(q, n, n, next, x)
    BY DEF Add, Rise
  <1> HIDE DEF n, next, path, r
  <1>5. \A i \in 1..n : RisesPast(after, q, i, x) =>
            i > 1 /\ getParent(i) \in 1..n /\ getParent(i) # i /\ getParent(i) \in DOMAIN q
    BY <1>1, Halves DEF RisesPast
  <1>6. /\ next \in [1..n -> 1..n]
        /\ \A i \in 1..n : next[i] # i <=> RisesPast(after, q, i, x)
        /\ \A i \in 1..n : next[i] # i => next[i] = getParent(i) /\ next[i] \in DOMAIN q
    BY <1>2, <1>5
  <1>7. path \subseteq 1..n /\ n \in path /\ \A i \in path : next[i] \in path
    BY <1>1, <1>3, <1>6, PathFacts
  <1>8. ASSUME NEW i \in path, i # n
        PROVE  <<q[i], x>> \in after
    <2>0. Reached(path, n, next)
      BY <1>1, <1>3, <1>6, PathPredecessor
    <2>1. PICK j \in path : j # i /\ next[j] = i
      BY <1>8, <2>0 DEF Reached
    <2>2. RisesPast(after, q, j, x) /\ getParent(j) = i
      BY <1>6, <1>7, <2>1
    <2> QED
      BY <2>2 DEF RisesPast
  <1>9. r = [i \in 1..n |-> IF i \notin path THEN q[i]
                            ELSE IF next[i] = i THEN x ELSE q[next[i]]]
    BY <1>3, <1>4 DEF Swapped
  <1>10. \A i \in 1..n : /\ i \notin path => r[i] = q[i]
                         /\ i \in path /\ next[i] = i => r[i] = x
                         /\ i \in path /\ next[i] # i => r[i] = q[next[i]]
    BY <1>9
  <1>11. \A i \in 1..n : r[i] = x \/ \E j \in DOMAIN q : r[i] = q[j]
    <2>1. \A i \in 1..n : i # n => i \in DOMAIN q
      BY <1>1
    <2> QED
      BY <1>6, <1>7, <1>10, <2>1
  <1>12. r \in Seq(V) /\ Len(r) = n /\ DOMAIN r = 1..n
    <2>1. \A i \in 1..n : r[i] \in V
      BY <1>11
    <2>2. r \in [1..n -> V]
      BY <1>9, <2>1
    <2> QED
      BY <1>1, <2>2
  <1>13. AddChain(V, after, q, x, n, next, path, r)
    BY <1>1, <1>3, <1>6, <1>7, <1>8, <1>10, <1>11, <1>12 DEF AddChain
  <1> QED
    BY <1>13 DEF n, next, path, r

\* Add keeps the order: a node that moves down changes places with one that it
\* comes after.
LEMMA AddOrdered ==
    ASSUME NEW V, NEW after, Compares(after, V), NEW q \in Seq(V), NEW x \in V,
           Ordered(after, q)
    PROVE  Ordered(after, Add(after, q, x))
  <1> DEFINE n == Len(q) + 1   next == Rise(after, q, x)
             path == RisePath(after, q, x)   r == Add(after, q, x)
  <1>0. AddChain(V, after, q, x, n, next, path, r)
    BY AddFacts
  <1>4. \A i \in 1..n : i # n => q[i] \in V
    OBVIOUS
  <1>5. \A i \in 1..n : i > 1 /\ i # n => <<q[getParent(i)], q[i]>> \notin after
    <2>1. \A i \in 1..n : i > 1 /\ i # n => i \in 2..Len(q)
      OBVIOUS
    <2> QED
      BY <2>1 DEF Ordered
  <1> HIDE DEF n, next, path, r
  <1>1. /\ n \in Nat /\ n \in path /\ path \subseteq 1..n
        /\ \A i \in 1..n : next[i] # i <=> RisesPast(after, q, i, x)
        /\ \A i \in 1..n : next[i] # i => next[i] = getParent(i)
        /\ \A i \in path : next[i] \in path
        /\ \A i \in path : i # n => <<q[i], x>> \in after
    BY <1>0 DEF AddChain
  <1>2. /\ Len(r) = n
        /\ \A i \in 1..n : /\ i \notin path => r[i] = q[i]
                           /\ i \in path /\ next[i] = i => r[i] = x
                           /\ i \in path /\ next[i] # i => r[i] = q[next[i]]
    BY <1>0 DEF AddChain
  <1> SUFFICES ASSUME NEW i \in 2..n
               PROVE  <<r[getParent(i)], r[i]>> \notin after
    BY <1>2 DEF Ordered, r
  <1> DEFINE p == getParent(i)   pp == getParent(p)
  <1>6. /\ i \in 1..n /\ i > 1 /\ p \in 1..n /\ p # n
        /\ p > 1 => pp \in 1..n /\ pp # n
    BY <1>1, Halves
  <1>7. p \in path /\ next[p] # p => p > 1 /\ r[p] = q[pp]
    BY <1>1, <1>2, <1>6 DEF RisesPast
  <1> HIDE DEF p, pp
  <1>8. CASE i \in path /\ next[i] # i
    <2>1. r[i] = q[p] /\ p \in path /\ <<q[p], x>> \in after
      BY <1>1, <1>2, <1>6, <1>8 DEF p
    <2>2. CASE next[p] = p
      BY <1>2, <1>4, <1>6, <2>1, <2>2 DEF Compares, p
    <2>3. CASE next[p] # p
      BY <1>5, <1>6, <1>7, <2>1, <2>3 DEF p, pp
    <2> QED
      BY <2>2, <2>3
  <1>9. CASE i \in path /\ next[i] = i
    <2>1. <<q[p], x>> \notin after /\ r[i] = x
      BY <1>1, <1>2, <1>6, <1>9 DEF RisesPast, p
    <2>2. p \notin path
      BY <1>1, <1>6, <2>1
    <2> QED
      BY <1>2, <1>6, <2>1, <2>2 DEF p
  <1>10. CASE i \notin path
    <2>1. r[i] = q[i] /\ i # n /\ <<q[p], q[i]>> \notin after /\ q[i] \in V /\ q[p] \in V
      BY <1>1, <1>2, <1>4, <1>5, <1>6, <1>10 DEF p
    <2>2. CASE p \notin path
      BY <1>2, <1>6, <2>1, <2>2 DEF p
    <2>3. CASE p \in path /\ next[p] = p
      <3>1. r[p] = x /\ <<q[p], x>> \in after
        BY <1>1, <1>2, <1>6, <2>3
      <3>2. <<x, q[p]>> \notin after
        BY <2>1, <3>1 DEF Compares
      <3> QED
        BY <2>1, <3>1, <3>2 DEF Compares, p
    <2>4. CASE p \in path /\ next[p] # p
      <3>1. r[p] = q[pp] /\ <<q[pp], q[p]>> \notin after /\ q[pp] \in V
        BY <1>4, <1>5, <1>6, <1>7, <2>4 DEF pp
      <3> QED
        BY <2>1, <3>1 DEF Compares, p
    <2> QED
      BY <2>2, <2>3, <2>4
  <1> QED
    BY <1>8, <1>9, <1>10 DEF p

\* Where Get moves the last node from i, once that is at the top.
Sink(after, q) ==
    [i \in 1..(Len(q) - 1) |-> SwapIndex(after, q, Len(q) - 1, i, q[Len(q)])]
SinkPath(after, q) == Path(Len(q) - 1, 1, Sink(after, q))

Child(c, i) == c = 2 * i \/ c = 2 * i + 1

\* What is to be known of Get: r is the array that it makes of q, whose last
\* node goes down as long as it comes after one of the children.
GetChain(V, after, q, n, next, path, r) ==
    /\ n \in Nat /\ n = Len(q) - 1 /\ next \in [1..n -> 1..n]
    /\ \A i \in 1..n : next[i] # i =>
          /\ Child(next[i], i) /\ <<q[n + 1], q[next[i]]>> \in after
          /\ \A c \in 1..n : Child(c, i) => <<q[next[i]], q[c]>> \notin after
    /\ \A i, c \in 1..n : next[i] = i /\ Child(c, i) => <<q[n + 1], q[c]>> \notin after
    /\ path \subseteq 1..n /\ (n > 0 => 1 \in path)
    /\ \A i \in path : next[i] \in path
    /\ \A i \in path : i # 1 => \E j \in path : j # i /\ next[j] = i
    /\ r \in Seq(V) /\ Len(r) = n /\ DOMAIN r = 1..n
    /\ \A i \in 1..n : /\ i \notin path => r[i] = q[i]
                       /\ i \in path /\ next[i] = i => r[i] = q[n + 1]
                       /\ i \in path /\ next[i] # i => r[i] = q[next[i]]
    /\ \A i \in 1..n : \E j \in DOMAIN q : r[i] = q[j]

\* The loop of Get goes down to a child that comes after neither.
SinksTo(after, q, n, i, s) ==
    /\ s \in 1..n
    /\ s # i => /\ Child(s, i) /\ <<q[n + 1], q[s]>> \in after
                /\ \A c \in 1..n : Child(c, i) => <<q[s], q[c]>> \notin after
    /\ s = i => \A c \in 1..n : Child(c, i) => <<q[n + 1], q[c]>> \notin after

LEMMA SinkStep ==
    ASSUME NEW V, NEW after, Compares(after, V), NEW q \in Seq(V), NEW n \in Nat,
           n + 1 = Len(q), NEW i \in 1..n
    PROVE  SinksTo(after, q, n, i, SwapIndex(after, q, n, i, q[n + 1]))
  <1> DEFINE s == SwapIndex(after, q, n, i, q[n + 1])
  <1> SUFFICES SinksTo(after, q, n, i, s)
    OBVIOUS
  <1> DEFINE left == 2 * i   right == 2 * i + 1   b == q[n + 1]
             child == IF right > n \/ <<q[right], q[left]>> \in after THEN left ELSE right
  <1>1. s = IF left > n \/ <<b, q[child]>> \notin after THEN i ELSE child
    BY DEF SwapIndex, getChildren, AfterOrEqual
  <1>2. /\ left \in Nat /\ right \in Nat /\ left > i /\ left < right /\ i > 0
        /\ \A c \in 1..n : Child(c, i) <=> c = left \/ c = right
        /\ b \in V /\ \A c \in 1..n : q[c] \in V
    BY DEF Child
  <1> HIDE DEF left, right, b, s
  <1> USE DEF SinksTo
  <1>3. CASE left > n
    <2>1. \A c \in 1..n : ~Child(c, i)
      BY <1>2, <1>3
    <2> QED
      BY <1>1, <1>3, <2>1
  <1>4. CASE ~(left > n)
    <2>1. child \in 1..n /\ child # i /\ Child(child, i)
      BY <1>2, <1>4
    <2>2. \A c \in 1..n : Child(c, i) => <<q[child], q[c]>> \notin after
      <3>1. \A c \in 1..n : <<q[c], q[c]>> \notin after
        BY <1>2 DEF Compares
      <3>2. left \in 1..n
        BY <1>2, <1>4
      <3>3. CASE right > n
        BY <1>2, <3>1, <3>2, <3>3
      <3>4. CASE ~(right > n) /\ <<q[right], q[left]>> \in after
        <4>1. right \in 1..n
          BY <1>2, <3>4
        <4>2. <<q[left], q[right]>> \notin after
          BY <1>2, <3>2, <3>4, <4>1 DEF Compares
        <4> QED
          BY <1>2, <3>1, <3>2, <3>4, <4>2
      <3>5. CASE ~(right > n) /\ <<q[right], q[left]>> \notin after
        <4>1. right \in 1..n
          BY <1>2, <3>5
        <4> QED
          BY <1>2, <3>1, <3>5, <4>1
      <3> QED
        BY <3>3, <3>4, <3>5
    <2> HIDE DEF child
    <2>3. CASE <<b, q[child]>> \in after
      BY <1>1, <1>4, <2>1, <2>2, <2>3 DEF b
    <2>4. CASE <<b, q[child]>> \notin after
      <3>1. s = i
        BY <1>1, <2>4
      <3>2. \A c \in 1..n : Child(c, i) => <<b, q[c]>> \notin after
        BY <1>2, <2>1, <2>2, <2>4 DEF Compares
      <3> QED
        BY <3>1, <3>2 DEF b
    <2> QED
      BY <2>3, <2>4
  <1> QED
    BY <1>3, <1>4

LEMMA GetFacts ==
    ASSUME NEW V, NEW after, Compares(after, V), NEW q \in Seq(V), q # << >>
    PROVE  GetChain(V, after, q, Len(q) - 1, Sink(after, q), SinkPath(after, q),
                    Get(after, q))
  <1> DEFINE n == Len(q) - 1   next == Sink(after, q)
             path == SinkPath(after, q)   r == Get(after, q)
  <1>1. n \in Nat /\ n = Len(q) - 1 /\ n + 1 = Len(q) /\ DOMAIN q = 1..(n + 1)
    OBVIOUS
  <1>2. next = [i \in 1..n |-> SwapIndex(after, q, n, i, q[n + 1])]
    BY <1>1 DEF Sink
  <1>3. path = Path(n, 1, next)
    BY DEF SinkPath
  <1>4. r = Swapped(q, n, 1, next, q[n + 1])
    BY <1>1, <1>2 DEF Get
  <1> HIDE DEF n, next, path, r
  <1>5. /\ next \in [1..n -> 1..n]
        /\ \A i \in 1..n : next[i] # i =>
              /\ Child(next[i], i) /\ <<q[n + 1], q[next[i]]>> \in after
              /\ \A c \in 1..n : Child(c, i) => <<q[next[i]], q[c]>> \notin after
        /\ \A i, c \in 1..n : next[i] = i /\ Child(c, i) => <<q[n + 1], q[c]>> \notin after
    <2>1. \A i \in 1..n : next[i] = SwapIndex(after, q, n, i, q[n + 1])
      BY <1>2
    <2>2. \A i \in 1..n : SinksTo(after, q, n, i, SwapIndex(after, q, n, i, q[n + 1]))
      BY <1>1, SinkStep
    <2>3. \A i \in 1..n : SinksTo(after, q, n, i, next[i])
      BY <2>1, <2>2
    <2>4. \A i \in 1..n : next[i] \in 1..n
      BY <2>3 DEF SinksTo
    <2>5. next \in [1..n -> 1..n]
      BY <1>2, <2>1, <2>4
    <2> QED
      BY <2>3, <2>5 DEF SinksTo
  <1>6. path \subseteq 1..n
    BY <1>3 DEF Path
  <1>7. n > 0 => 1 \in 1..n
    BY <1>1
  <1>8. n > 0 => 1 \in path /\ \A i \in path : next[i] \in path
    BY <1>1, <1>3, <1>5, <1>7, PathFacts
  <1>9. \A i \in 1..n : n > 0
    BY <1>1
  <1>10. ASSUME NEW i \in path, i # 1
         PROVE  \E j \in path : j # i /\ next[j] = i
    <2> DEFINE top == 1
    <2>1. path = Path(n, top, next) /\ i # top
      BY <1>3, <1>10
    <2>2. n \in Nat /\ top \in 1..n /\ next \in [1..n -> 1..n]
      BY <1>1, <1>5, <1>6, <1>7, <1>9, <1>10
    <2> HIDE DEF top
    <2>3. Reached(path, top, next)
      BY <2>1, <2>2, PathPredecessor
    <2> QED
      BY <2>1, <2>3 DEF Reached
  <1>11. r = [i \in 1..n |-> IF i \notin path THEN q[i]
                             ELSE IF next[i] = i THEN q[n + 1] ELSE q[next[i]]]
    BY <1>3, <1>4 DEF Swapped
  <1>12. \A i \in 1..n : /\ i \notin path => r[i] = q[i]
                         /\ i \in path /\ next[i] = i => r[i] = q[n + 1]
                         /\ i \in path /\ next[i] # i => r[i] = q[next[i]]
    BY <1>11
  <1>13. \A i \in 1..n : \E j \in DOMAIN q : r[i] = q[j]
    <2>1. n + 1 \in DOMAIN q /\ \A i \in 1..n : i \in DOMAIN q
      BY <1>1
    <2> QED
      BY <1>5, <1>12, <2>1
  <1>14. r \in Seq(V) /\ Len(r) = n /\ DOMAIN r = 1..n
    <2>1. \A i \in 1..n : r[i] \in V
      BY <1>13
    <2>2. r \in [1..n -> V]
      BY <1>11, <2>1
    <2> QED
      BY <1>1, <2>2
  <1>15. GetChain(V, after, q, n, next, path, r)
    BY <1>1, <1>5, <1>6, <1>8, <1>9, <1>10, <1>12, <1>13, <1>14 DEF GetChain
  <1> QED
    BY <1>15 DEF n, next, path, r

\* Get keeps the order.
LEMMA GetOrdered ==
    ASSUME NEW V, NEW after, Compares(after, V), NEW q \in Seq(V), q # << >>,
           Ordered(after, q)
    PROVE  Ordered(after, Get(after, q))
  <1> DEFINE n == Len(q) - 1   next == Sink(after, q)
             path == SinkPath(after, q)   r == Get(after, q)
  <1>1. GetChain(V, after, q, n, next, path, r)
    BY GetFacts
  <1>2. \A i \in 2..n : <<q[getParent(i)], q[i]>> \notin after
    <2>1. \A i \in 2..n : i \in 2..Len(q)
      OBVIOUS
    <2> QED
      BY <2>1 DEF Ordered
  <1>3. q[n + 1] \in V /\ \A i \in 1..n : q[i] \in V
    OBVIOUS
  <1> HIDE DEF n, next, path, r
  <1>4. n \in Nat /\ Len(r) = n
    BY <1>1 DEF GetChain
  <1> SUFFICES ASSUME NEW i \in 2..n
               PROVE  <<r[getParent(i)], r[i]>> \notin after
    BY <1>4 DEF Ordered, r
  <1> DEFINE p == getParent(i)
  <1>5. i \in 1..n /\ i # 1 /\ p \in 1..n /\ p # i /\ Child(i, p)
    BY <1>4, Halves DEF Child
  <1>6. \A j \in 1..n : Child(i, j) => j = p
    BY <1>4, <1>5 DEF Child
  <1>7. <<q[p], q[i]>> \notin after
    BY <1>2
  <1> HIDE DEF p
  <1>8. i \in path => p \in path /\ next[p] = i
    <2>1. /\ i \in path => \E j \in path : j # i /\ next[j] = i
          /\ \A j \in path : j \in 1..n
          /\ \A j \in 1..n : next[j] # j => Child(next[j], j)
      BY <1>1, <1>5 DEF GetChain
    <2> HAVE i \in path
    <2>2. PICK j \in path : j # i /\ next[j] = i
      BY <2>1
    <2>3. j = p
      BY <1>6, <2>1, <2>2
    <2> QED
      BY <2>2, <2>3
  <1>9. CASE p \notin path
    <2>1. r[p] = q[p] /\ r[i] = q[i]
      BY <1>1, <1>5, <1>8, <1>9 DEF GetChain
    <2> QED
      BY <1>7, <2>1 DEF p
  <1>10. CASE p \in path /\ next[p] = p
    <2>1. r[p] = q[n + 1] /\ r[i] = q[i] /\ <<q[n + 1], q[i]>> \notin after
      BY <1>1, <1>5, <1>8, <1>10 DEF GetChain
    <2> QED
      BY <2>1 DEF p
  <1>11. CASE p \in path /\ next[p] # p /\ next[p] # i
    <2>1. r[p] = q[next[p]] /\ r[i] = q[i] /\ <<q[next[p]], q[i]>> \notin after
      BY <1>1, <1>5, <1>8, <1>11 DEF GetChain
    <2> QED
      BY <2>1 DEF p
  <1>12. CASE p \in path /\ next[p] = i
    <2>1. r[p] = q[i] /\ i \in path /\ <<q[n + 1], q[i]>> \in after
      BY <1>1, <1>5, <1>12 DEF GetChain
    <2>2. CASE next[i] = i
      <3>1. r[i] = q[n + 1]
        BY <1>1, <1>5, <2>1, <2>2 DEF GetChain
      <3> QED
        BY <1>3, <1>5, <2>1, <3>1 DEF Compares, p
    <2>3. CASE next[i] # i
      <3>1. r[i] = q[next[i]] /\ Child(next[i], i) /\ next[i] \in 1..n
        BY <1>1, <1>5, <2>1, <2>3 DEF GetChain
      <3>2. next[i] \in 2..n /\ getParent(next[i]) = i
        BY <1>4, <1>5, <3>1 DEF Child, getParent
      <3> QED
        BY <1>2, <2>1, <3>1, <3>2 DEF p
    <2> QED
      BY <2>2, <2>3
  <1> QED
    BY <1>9, <1>10, <1>11, <1>12

LEMMA LeastNatural ==
    ASSUME NEW T \in SUBSET Nat, T # {}
    PROVE  \E m \in T : \A k \in T : m <= k
  <1>1. PICK m \in T : \A k \in T : ~(<<k, m>> \in OpToRel(<, Nat))
    BY NatLessThanWellFounded, WFMin
  <1>2. \A k \in T : ~(k < m)
    BY <1>1 DEF OpToRel
  <1> QED
    BY <1>2

\* No node of an ordered heap is returned before the one at the top.
LEMMA TopIsLeast ==
    ASSUME NEW V, NEW after, Compares(after, V), NEW q \in Seq(V), Ordered(after, q)
    PROVE  \A i \in 1..Len(q) : <<q[1], q[i]>> \notin after
  <1> DEFINE T == {i \in Nat : i \in 1..Len(q) /\ <<q[1], q[i]>> \in after}
  <1>0. \A i \in 1..Len(q) : i \in Nat
    OBVIOUS
  <1> SUFFICES ASSUME T # {} PROVE FALSE
    BY <1>0, Zenon
  <1>1. PICK m \in T : \A k \in T : m <= k
    <2>1. T \in SUBSET Nat
      OBVIOUS
    <2> HIDE DEF T
    <2> QED
      BY <2>1, LeastNatural
  <1>2. m \in Nat /\ m \in 1..Len(q) /\ <<q[1], q[m]>> \in after
    OBVIOUS
  <1>3. \A i \in 1..Len(q) : q[i] \in V
    OBVIOUS
  <1>4. m > 1
    BY <1>2, <1>3 DEF Compares
  <1> DEFINE p == getParent(m)
  <1>5. p \in Nat /\ p \in 1..Len(q) /\ p < m /\ m \in 2..Len(q)
    BY <1>2, <1>4, Halves
  <1>6. <<q[1], q[p]>> \notin after
    BY <1>1, <1>5
  <1>7. <<q[p], q[m]>> \notin after
    BY <1>5 DEF Ordered
  <1> HIDE DEF p, T
  <1>8. 1 \in 1..Len(q)
    BY <1>2
  <1> QED
    BY <1>2, <1>3, <1>5, <1>6, <1>7, <1>8 DEF Compares

-----------------------------------------------------------------------------
(* Nothing is lost.                                                        *)

\* Where p is among the places D of the array q, and how often it is in q.
Where(q, D, p) == {i \in D : q[i] = p}
Count(q, p) == Cardinality(Where(q, DOMAIN q, p))

\* The array r takes each of its nodes from a different place f[i] of a, among
\* the places D, of which there are as many.
Picks(f, n, D, r, a) ==
    /\ n \in Nat /\ IsFiniteSet(D) /\ Cardinality(D) = n
    /\ f \in [1..n -> D] /\ \A i, j \in 1..n : f[i] = f[j] => i = j
    /\ \A i \in 1..n : r[i] = a[f[i]]

\* Then it has all of them.
LEMMA SameCount ==
    ASSUME NEW n, NEW D, NEW f, NEW r, NEW a, Picks(f, n, D, r, a), NEW p
    PROVE  /\ IsFiniteSet(Where(a, D, p))
           /\ Cardinality(Where(r, 1..n, p)) = Cardinality(Where(a, D, p))
  <1> USE DEF Picks
  <1> DEFINE A == {i \in 1..n : r[i] = p}   B == {j \in D : a[j] = p}
             g == [i \in A |-> f[i]]
  <1>1. IsFiniteSet(1..n) /\ Cardinality(1..n) = n
    BY FS_Interval
  <1>2. f \in Injection(1..n, D)
    BY DEF Injection, IsInjective
  <1>3. f \in Surjection(1..n, D)
    BY <1>1, <1>2, FS_Injection
  <1>4. \A d \in D : \E i \in 1..n : f[i] = d
    BY <1>3 DEF Surjection
  <1>5. g \in [A -> B] /\ (\A i, j \in A : g[i] = g[j] => i = j)
    OBVIOUS
  <1>6. \A b \in B : \E i \in A : g[i] = b
    BY <1>4
  <1>7. IsFiniteSet(A) /\ IsFiniteSet(B)
    BY <1>1, FS_Subset
  <1> HIDE DEF A, B, g
  <1>8. ExistsBijection(A, B)
    <2>1. g \in Bijection(A, B)
      BY <1>5, <1>6 DEF Bijection, Injection, Surjection, IsInjective
    <2> QED
      BY <2>1 DEF ExistsBijection
  <1>9. Cardinality(A) = Cardinality(B)
    BY <1>7, <1>8, FS_Bijection
  <1> QED
    BY <1>7, <1>9 DEF A, B, Where

\* Add adds x, and nothing else.
LEMMA AddCount ==
    ASSUME NEW V, NEW after, NEW q \in Seq(V), NEW x \in V
    PROVE  \A p : /\ Count(q, p) \in Nat
                  /\ Count(Add(after, q, x), p) =
                        IF p = x THEN Count(q, p) + 1 ELSE Count(q, p)
  <1> TAKE p
  <1> DEFINE n == Len(q) + 1   next == Rise(after, q, x)
             path == RisePath(after, q, x)   r == Add(after, q, x)
             a == [j \in 1..n |-> IF j = n THEN x ELSE q[j]]
             f == [i \in 1..n |-> IF i \notin path THEN i
                                  ELSE IF next[i] = i THEN n ELSE next[i]]
             A == Where(q, DOMAIN q, p)   B == Where(a, 1..n, p)
  <1>1. AddChain(V, after, q, x, n, next, path, r)
    BY AddFacts
  <1>2. DOMAIN q = 1..(n - 1) /\ n \in Nat /\ n > 0 /\ n \notin DOMAIN q
    OBVIOUS
  <1> HIDE DEF n, next, path, r
  <1>3. /\ next \in [1..n -> 1..n] /\ path = Path(n, n, next) /\ path \subseteq 1..n
        /\ n \in path /\ \A i \in path : next[i] \in path
        /\ \A i \in 1..n : next[i] = i \/ (i > 1 /\ next[i] = getParent(i) /\ next[i] # n)
    BY <1>1, <1>2 DEF AddChain, RisesPast
  <1>4. n \in 1..n /\ \A i \in 1..n : next[i] <= i
    <2>1. \A i \in 1..n : i > 1 => getParent(i) <= i
      BY <1>2, Halves
    <2>2. n \in 1..n /\ \A i \in 1..n : i <= i
      BY <1>2
    <2> QED
      BY <1>3, <2>1, <2>2, Zenon
  <1>5. f \in [1..n -> 1..n]
    BY <1>2, <1>3
  <1>6. /\ \A i, j \in path : next[i] = i /\ next[j] = j => i = j
        /\ \A i, j \in path : next[i] # i /\ next[j] # j /\ next[i] = next[j] => i = j
    BY <1>2, <1>3, <1>4, PathEnds, PathIsInjective
  <1>7. \A i, j \in 1..n : f[i] = f[j] => i = j
    <2>1. \A i \in 1..n : /\ i \notin path => f[i] = i
                          /\ i \in path /\ next[i] = i => f[i] = n /\ f[i] \in path
                          /\ i \in path /\ next[i] # i =>
                                f[i] = next[i] /\ f[i] # n /\ f[i] \in path
      BY <1>3
    <2> HIDE DEF f
    <2> SUFFICES ASSUME NEW i \in 1..n, NEW j \in 1..n, f[i] = f[j]
                 PROVE  i = j
      OBVIOUS
    <2>2. i \in path <=> j \in path
      BY <2>1
    <2>3. CASE i \notin path
      BY <2>1, <2>2, <2>3
    <2>4. CASE i \in path
      BY <1>6, <2>1, <2>2, <2>4
    <2> QED
      BY <2>3, <2>4
  <1>8. \A i \in 1..n : r[i] = a[f[i]]
    <2>1. \A i \in 1..n : /\ i \notin path => r[i] = q[i]
                          /\ i \in path /\ next[i] = i => r[i] = x
                          /\ i \in path /\ next[i] # i => r[i] = q[next[i]]
      BY <1>1 DEF AddChain
    <2> QED
      BY <1>2, <1>3, <2>1
  <1>9. IsFiniteSet(1..n) /\ Cardinality(1..n) = n
    BY <1>2, FS_Interval
  <1>10. IsFiniteSet(B) /\ Cardinality(Where(r, 1..n, p)) = Cardinality(B)
    <2> HIDE DEF f, a
    <2>1. Picks(f, n, 1..n, r, a)
      BY <1>2, <1>5, <1>7, <1>8, <1>9 DEF Picks
    <2> QED
      BY <2>1, SameCount
  <1>11. B = IF p = x THEN A \cup {n} ELSE A
    BY <1>2 DEF Where
  <1>12. n \notin A /\ A \subseteq 1..n
    BY <1>2 DEF Where
  <1>13. IsFiniteSet(A) /\ Cardinality(A) \in Nat
    BY <1>9, <1>12, FS_Subset, FS_CardinalityType
  <1> HIDE DEF A, B
  <1>14. Cardinality(B) = IF p = x THEN Cardinality(A) + 1 ELSE Cardinality(A)
    BY <1>11, <1>12, <1>13, FS_AddElement
  <1>15. DOMAIN r = 1..n
    BY <1>1 DEF AddChain
  <1> QED
    BY <1>10, <1>13, <1>14, <1>15 DEF Count, A, r

\* Get removes the node at the top, and nothing else.
LEMMA GetCount ==
    ASSUME NEW V, NEW after, Compares(after, V), NEW q \in Seq(V), q # << >>
    PROVE  \A p : /\ Count(q, p) \in Nat
                  /\ Count(q, p) =
                        IF p = q[1] THEN Count(Get(after, q), p) + 1
                        ELSE Count(Get(after, q), p)
                  /\ Count(Get(after, q), p) \in Nat
  <1> TAKE p
  <1> DEFINE n == Len(q) - 1   next == Sink(after, q)
             path == SinkPath(after, q)   r == Get(after, q)   D == 2..(n + 1)
             f == [i \in 1..n |-> IF i \notin path THEN i
                                  ELSE IF next[i] = i THEN n + 1 ELSE next[i]]
             A == Where(q, DOMAIN q, p)   B == Where(q, D, p)
  <1>1. GetChain(V, after, q, n, next, path, r)
    BY GetFacts
  <1>2. DOMAIN q = 1..(n + 1) /\ n \in Nat /\ 1 \in DOMAIN q
    OBVIOUS
  <1>3. path = Path(n, 1, next)
    BY DEF SinkPath
  <1> HIDE DEF n, next, path, r
  <1>4. /\ next \in [1..n -> 1..n] /\ path \subseteq 1..n /\ (n > 0 => 1 \in path)
        /\ \A i \in path : next[i] \in path
        /\ \A i \in 1..n : next[i] # i => Child(next[i], i)
    BY <1>1 DEF GetChain
  <1>5. \A i, j, c \in 1..n : Child(c, i) => c # 1 /\ (Child(c, j) => i = j)
    BY DEF Child
  <1>6. f \in [1..n -> D]
    <2>1. \A i \in 1..n : i \notin path => i \in D
      BY <1>2, <1>4
    <2>2. \A i \in 1..n : next[i] # i => next[i] \in D
      <3>1. \A i \in 1..n : next[i] # i => next[i] \in 1..n /\ next[i] # 1
        BY <1>4, <1>5
      <3>2. \A i \in 1..n : i # 1 => i \in D
        BY <1>2
      <3> HIDE DEF D
      <3> QED
        BY <3>1, <3>2, Zenon
    <2>3. n + 1 \in D \/ n = 0
      BY <1>2
    <2> HIDE DEF D
    <2> QED
      BY <1>2, <2>1, <2>2, <2>3
  <1>7. \A i, j \in path : next[i] = i /\ next[j] = j => i = j
    <2> DEFINE top == 1
    <2>1. n > 0 => top \in 1..n
      BY <1>2
    <2>2. path = Path(n, top, next)
      BY <1>3
    <2>3. ASSUME NEW i \in path
          PROVE  n > 0
      BY <1>2, <1>4
    <2> HIDE DEF top
    <2>4. n > 0 => \A i, j \in Path(n, top, next) : next[i] = i /\ next[j] = j => i = j
      BY <1>2, <1>4, <2>1, PathEnds
    <2> QED
      BY <2>2, <2>3, <2>4
  <1>8. \A i, j \in 1..n : f[i] = f[j] => i = j
    <2>1. \A i \in 1..n : i # n + 1
      BY <1>2
    <2>2. \A i \in 1..n : /\ i \notin path => f[i] = i /\ f[i] # n + 1
                          /\ i \in path /\ next[i] = i => f[i] = n + 1
                          /\ i \in path /\ next[i] # i =>
                                f[i] = next[i] /\ f[i] # n + 1 /\ f[i] \in path
      BY <1>4, <2>1
    <2> HIDE DEF f
    <2> SUFFICES ASSUME NEW i \in 1..n, NEW j \in 1..n, f[i] = f[j]
                 PROVE  i = j
      OBVIOUS
    <2>3. i \in path <=> j \in path
      BY <2>2
    <2>4. CASE i \notin path
      BY <2>2, <2>3, <2>4
    <2>5. CASE i \in path /\ next[i] = i
      BY <1>7, <2>2, <2>3, <2>5
    <2>6. CASE i \in path /\ next[i] # i
      <3>1. next[j] # j /\ next[i] = next[j] /\ next[i] \in 1..n
        BY <1>4, <2>2, <2>3, <2>6
      <3> QED
        BY <1>4, <1>5, <2>6, <3>1
    <2> QED
      BY <2>4, <2>5, <2>6
  <1>9. \A i \in 1..n : r[i] = q[f[i]]
    <2>1. \A i \in 1..n : /\ i \notin path => r[i] = q[i]
                          /\ i \in path /\ next[i] = i => r[i] = q[n + 1]
                          /\ i \in path /\ next[i] # i => r[i] = q[next[i]]
      BY <1>1 DEF GetChain
    <2> QED
      BY <2>1
  <1>10. IsFiniteSet(D) /\ Cardinality(D) = n
    <2> DEFINE lo == 2   hi == n + 1
    <2>1. lo \in Int /\ hi \in Int /\ hi - lo + 1 = n /\ (lo > hi => n = 0)
      BY <1>2
    <2>2. D = lo..hi
      OBVIOUS
    <2> HIDE DEF lo, hi
    <2>3. IsFiniteSet(lo..hi)
          /\ Cardinality(lo..hi) = IF lo > hi THEN 0 ELSE hi - lo + 1
      BY <2>1, FS_Interval
    <2> QED
      BY <2>1, <2>2, <2>3
  <1>11. IsFiniteSet(B) /\ Cardinality(Where(r, 1..n, p)) = Cardinality(B)
    <2> HIDE DEF f, D
    <2>1. Picks(f, n, D, r, q)
      BY <1>2, <1>6, <1>8, <1>9, <1>10 DEF Picks
    <2> QED
      BY <2>1, SameCount
  <1>12. A = (IF p = q[1] THEN B \cup {1} ELSE B) /\ 1 \notin B
    BY <1>2 DEF Where
  <1>13. Cardinality(B) \in Nat
    BY <1>11, FS_CardinalityType
  <1> DEFINE one == 1
  <1> HIDE DEF A, B, one
  <1>14. B \cup {one} = B \cup {1} /\ one \notin B
    BY <1>12 DEF one
  <1>15. Cardinality(B \cup {one}) = Cardinality(B) + 1
    BY <1>11, <1>14, FS_AddElement
  <1>16. Cardinality(A) = IF p = q[1] THEN Cardinality(B) + 1 ELSE Cardinality(B)
    BY <1>12, <1>14, <1>15
  <1>17. Count(q, p) = Cardinality(A)
    BY DEF Count, A
  <1>18. Count(r, p) = Cardinality(B)
    <2>1. DOMAIN r = 1..n
      BY <1>1 DEF GetChain
    <2> QED
      BY <1>11, <2>1 DEF Count
  <1> QED
    BY <1>13, <1>16, <1>17, <1>18 DEF r

-----------------------------------------------------------------------------
(* The heap is a priority queue.                                           *)

LEMMA LaterCompares ==
    Compares(Later, Payload)
  <1>1. \A a, b \in Payload : <<a, b>> \in Later <=> a.priority > b.priority
    BY DEF Later
  <1>2. \A a \in Payload : a.priority \in Nat
    BY PrioritiesAssumption DEF Payload
  <1> QED
    BY <1>1, <1>2 DEF Compares

HeapInv ==
    /\ queue \in Seq(Payload) /\ held \in [Payload -> Nat]
    /\ Ordered(Later, queue)
    /\ \A p \in Payload : Count(queue, p) = held[p]

LEMMA HeapInvInit == HeapInit => HeapInv
  <1> SUFFICES ASSUME HeapInit PROVE HeapInv
    OBVIOUS
  <1>1. queue = << >> /\ held = [p \in Payload |-> 0]
    BY DEF HeapInit
  <1>2. \A p : Where(queue, DOMAIN queue, p) = {}
    BY <1>1 DEF Where
  <1>3. \A p : Count(queue, p) = 0
    BY <1>2, FS_EmptySet DEF Count
  <1>4. Ordered(Later, queue)
    BY <1>1 DEF Ordered
  <1> QED
    BY <1>1, <1>3, <1>4 DEF HeapInv

LEMMA HeapInvNext == HeapInv /\ [HeapNext]_queueVars => HeapInv'
  <1> SUFFICES ASSUME HeapInv, [HeapNext]_queueVars PROVE HeapInv'
    OBVIOUS
  <1>1. /\ queue \in Seq(Payload) /\ held \in [Payload -> Nat]
        /\ Ordered(Later, queue) /\ \A p \in Payload : Count(queue, p) = held[p]
    BY DEF HeapInv
  <1>2. ASSUME NEW x \in Payload, AddNode(x)
        PROVE  HeapInv'
    <2>1. queue' = Add(Later, queue, x) /\ held' = [held EXCEPT ![x] = held[x] + 1]
      BY <1>2 DEF AddNode
    <2>2. AddChain(Payload, Later, queue, x, Len(queue) + 1, Rise(Later, queue, x),
                   RisePath(Later, queue, x), Add(Later, queue, x))
      BY <1>1, AddFacts
    <2>3. Add(Later, queue, x) \in Seq(Payload)
      BY <2>2 DEF AddChain
    <2>4. Ordered(Later, Add(Later, queue, x))
      BY <1>1, LaterCompares, AddOrdered
    <2>5. \A p \in Payload :
              Count(Add(Later, queue, x), p) = IF p = x THEN held[p] + 1 ELSE held[p]
      BY <1>1, AddCount
    <2>6. held' \in [Payload -> Nat]
      BY <1>1, <2>1
    <2>7. \A p \in Payload : held'[p] = IF p = x THEN held[p] + 1 ELSE held[p]
      BY <1>1, <2>1
    <2> QED
      BY <2>1, <2>3, <2>4, <2>5, <2>6, <2>7 DEF HeapInv
  <1>3. ASSUME GetNode
        PROVE  HeapInv'
    <2> DEFINE x == queue[1]
    <2>1. /\ queue # << >> /\ queue' = Get(Later, queue)
          /\ held' = [held EXCEPT ![x] = held[x] - 1]
      BY <1>3 DEF GetNode, Peek
    <2>2. x \in Payload
      BY <1>1, <2>1
    <2> HIDE DEF x
    <2>3. GetChain(Payload, Later, queue, Len(queue) - 1, Sink(Later, queue),
                   SinkPath(Later, queue), Get(Later, queue))
      BY <1>1, <2>1, LaterCompares, GetFacts
    <2>4. Get(Later, queue) \in Seq(Payload)
      BY <2>3 DEF GetChain
    <2>5. Ordered(Later, Get(Later, queue))
      BY <1>1, <2>1, LaterCompares, GetOrdered
    <2> DEFINE c(p) == Count(Get(Later, queue), p)
    <2>6. \A p \in Payload : /\ c(p) \in Nat
                             /\ held[p] = IF p = x THEN c(p) + 1 ELSE c(p)
      BY <1>1, <2>1, LaterCompares, GetCount DEF x
    <2> HIDE DEF c
    <2>7. \A p \in Payload : held'[p] = c(p)
      BY <1>1, <2>1, <2>2, <2>6
    <2>8. held' \in [Payload -> Nat]
      BY <1>1, <2>1, <2>2, <2>6, <2>7
    <2> QED
      BY <2>1, <2>4, <2>5, <2>7, <2>8 DEF HeapInv, c
  <1>4. CASE UNCHANGED queueVars
    BY <1>1, <1>4 DEF HeapInv, queueVars, Ordered, Count, Where
  <1> QED
    BY <1>2, <1>3, <1>4 DEF HeapNext

\* For every set of priorities and tags: after any sequence of Add and Get the
\* array of queues/heap.go is a priority queue of exactly the nodes added and
\* not returned.
THEOREM HeapIsPriorityQueue == HeapSpec => []IsPriorityQueue
  <1>1. HeapInv => IsPriorityQueue
    <2> SUFFICES ASSUME HeapInv PROVE IsPriorityQueue
      OBVIOUS
    <2>1. queue \in Seq(Payload) /\ Ordered(Later, queue)
      BY DEF HeapInv
    <2>2. \A i \in 1..Len(queue) : <<queue[1], queue[i]>> \notin Later
      BY <2>1, LaterCompares, TopIsLeast
    <2>3. TopIsNext
      BY <2>1, <2>2 DEF TopIsNext, Peek
    <2>4. NothingLost
      BY DEF HeapInv, NothingLost, Count, Where
    <2> QED
      BY <2>3, <2>4 DEF IsPriorityQueue
  <1> QED
    BY <1>1, HeapInvInit, HeapInvNext, PTL DEF HeapSpec

-----------------------------------------------------------------------------
(* Jobs run once.                                                          *)

IsRunning(id) == runner.at = "runs" /\ runner.job.id = id

\* A job that ran is marked done, or about to be by the thread that runs it.
RanMeansDone == \A id \in Ids : runs[id] = 1 => id \in done \/ IsRunning(id)

\* The inductive invariant.
RunInv == runs \in [Ids -> Nat] /\ RunsOnce /\ RanMeansDone

\* A step that runs no job and ends none.
LEMMA NoRunKeepsRunInv ==
    ASSUME RunInv, UNCHANGED runs, done \subseteq done',
           runner' = runner \/ runner.at # "runs"
    PROVE  RunInv'
  BY DEF RunInv, RunsOnce, RanMeansDone, IsRunning

\* A job that is done is not started again; one that is not done and not
\* running never ran.
LEMMA RunJobKeepsRunInv ==
    ASSUME RunInv, RunJob
    PROVE  RunInv'
  <1> USE DEF RunInv
  <1> DEFINE j == runner.job
  <1>1. /\ runner.at = "peeked" /\ j.id \notin done
        /\ runs' = [runs EXCEPT ![j.id] = @ + 1] /\ done' = done
        /\ runner'.at = "runs" /\ runner'.job = j
    BY DEF RunJob, Running
  <1>2. ASSUME NEW id \in Ids
        PROVE  /\ runs'[id] \in Nat /\ runs'[id] <= 1
               /\ runs'[id] = 1 => id \in done' \/ IsRunning(id)'
    <2>1. CASE id = j.id
      <3>1. runs[id] = 0
        BY <1>1, <2>1 DEF RunsOnce, RanMeansDone, IsRunning
      <3> QED
        BY <1>1, <2>1, <3>1 DEF IsRunning
    <2>2. CASE id # j.id
      <3>1. runs'[id] = runs[id]
        BY <1>1, <2>2
      <3>2. ~IsRunning(id)
        BY <1>1 DEF IsRunning
      <3> QED
        BY <1>1, <3>1, <3>2 DEF RunsOnce, RanMeansDone
    <2> QED
      BY <2>1, <2>2
  <1>3. runs' \in [Ids -> Nat]
    BY <1>1, <1>2
  <1> QED
    BY <1>2, <1>3 DEF RunsOnce, RanMeansDone

\* No job runs twice, whatever is added or cancelled while it runs.
THEOREM JobsRunOnce == Spec => []RunsOnce
  <1>1. Init => RunInv
    BY DEF Init, RunInv, RunsOnce, RanMeansDone
  <1>2. RunInv /\ [Next]_vars => RunInv'
    <2> SUFFICES ASSUME RunInv, [Next]_vars PROVE RunInv'
      OBVIOUS
    <2>1. ASSUME NEW at \in 0..MaxTime, AddJobByTime(at) PROVE RunInv'
      BY <2>1, NoRunKeepsRunInv DEF AddJobByTime
    <2>2. ASSUME NEW id \in Ids, CancelJob(id) PROVE RunInv'
      BY <2>2, NoRunKeepsRunInv DEF CancelJob
    <2>3. CASE Cancel \/ scheduleNextTimer \/ TimerRings \/ Tick \/ UNCHANGED vars
      BY <2>3, NoRunKeepsRunInv DEF Cancel, scheduleNextTimer, TimerRings, Tick, vars
    <2>4. CASE StartJobs
      BY <2>4, NoRunKeepsRunInv DEF StartJobs, Nobody
    <2>5. CASE PeekJob \/ ClearJob \/ NotYet
      BY <2>5, NoRunKeepsRunInv DEF PeekJob, ClearJob, NotYet, LeaveJobs
    <2>6. CASE JobReturns
      BY <2>6 DEF JobReturns, Finished, RunInv, RunsOnce, RanMeansDone, IsRunning
    <2> QED
      BY <2>1, <2>2, <2>3, <2>4, <2>5, <2>6, RunJobKeepsRunInv DEF Next
  <1>3. RunInv => RunsOnce
    BY DEF RunInv
  <1> QED
    BY <1>1, <1>2, <1>3, PTL DEF Spec

-----------------------------------------------------------------------------
(* A timer heap that was cancelled.                                        *)

\* Cancel waits for the thread in doAllCurrentJobs, and none enters after it.
ClosedIsQuiet == closed => runner = Nobody

\* Once cancelled, no job is started, unless a job may cancel the heap whose
\* lock its own thread holds.
THEOREM CancelledIsQuiet ==
    ASSUME ~JobsCancel
    PROVE  Spec => CancelledStartsNothing
  <1>1. Init => ClosedIsQuiet
    BY DEF Init, ClosedIsQuiet
  <1>2. ClosedIsQuiet /\ [Next]_vars => ClosedIsQuiet' /\ (closed => runs' = runs)
    <2> SUFFICES ASSUME ClosedIsQuiet, [Next]_vars
                 PROVE  ClosedIsQuiet' /\ (closed => runs' = runs)
      OBVIOUS
    <2> USE DEF ClosedIsQuiet
    <2>1. ASSUME NEW at \in 0..MaxTime, AddJobByTime(at)
          PROVE  UNCHANGED <<closed, runner, runs>>
      BY <2>1 DEF AddJobByTime
    <2>2. ASSUME NEW id \in Ids, CancelJob(id) PROVE UNCHANGED <<closed, runner, runs>>
      BY <2>2 DEF CancelJob
    <2>3. Cancel => runner' = Nobody /\ UNCHANGED runs
      BY DEF Cancel
    <2>4. scheduleNextTimer \/ TimerRings \/ Tick \/ UNCHANGED vars
            => UNCHANGED <<closed, runner, runs>>
      BY DEF scheduleNextTimer, TimerRings, Tick, vars
    <2>5. StartJobs => UNCHANGED <<closed, runs>> /\ (closed => runner' = Nobody)
      BY DEF StartJobs, FirstStep
    <2>6. PeekJob \/ ClearJob \/ NotYet \/ RunJob \/ JobReturns => ~closed /\ UNCHANGED closed
      BY DEF PeekJob, ClearJob, NotYet, RunJob, JobReturns, LeaveJobs, Nobody
    <2> QED
      BY <2>1, <2>2, <2>3, <2>4, <2>5, <2>6 DEF Next
  <1> QED
    BY <1>1, <1>2, PTL DEF Spec, CancelledStartsNothing

-----------------------------------------------------------------------------
(* The timer covers the heap.                                              *)

Elements(q) == {q[i] : i \in DOMAIN q}

LEMMA JobsCompare == Compares(jobComparator, Job)
  <1>1. \A a, b \in Job : <<a, b>> \in jobComparator <=> a.at > b.at
    BY DEF jobComparator
  <1>2. \A a \in Job : a.at \in Nat
    BY TimerHeapAssumption DEF Job
  <1> QED
    BY <1>1, <1>2 DEF Compares

LEMMA JobAdded ==
    ASSUME NEW q \in Seq(Job), Ordered(jobComparator, q), NEW x \in Job
    PROVE  /\ Add(jobComparator, q, x) \in Seq(Job) /\ Add(jobComparator, q, x) # << >>
           /\ Ordered(jobComparator, Add(jobComparator, q, x))
           /\ Elements(Add(jobComparator, q, x)) \subseteq Elements(q) \cup {x}
  <1> DEFINE r == Add(jobComparator, q, x)   n == Len(q) + 1
             next == Rise(jobComparator, q, x)   path == RisePath(jobComparator, q, x)
  <1>1. AddChain(Job, jobComparator, q, x, n, next, path, r)
    BY AddFacts
  <1>2. Ordered(jobComparator, r)
    BY JobsCompare, AddOrdered
  <1>3. n > 0
    OBVIOUS
  <1> HIDE DEF r, n, next, path
  <1>4. /\ r \in Seq(Job) /\ Len(r) = n /\ DOMAIN r = 1..n
        /\ \A i \in 1..n : r[i] = x \/ \E j \in DOMAIN q : r[i] = q[j]
    BY <1>1 DEF AddChain
  <1>5. Elements(r) \subseteq Elements(q) \cup {x}
    BY <1>4 DEF Elements
  <1>6. r # << >>
    BY <1>3, <1>4
  <1> QED
    BY <1>2, <1>4, <1>5, <1>6 DEF r

LEMMA JobTaken ==
    ASSUME NEW q \in Seq(Job), Ordered(jobComparator, q), q # << >>
    PROVE  /\ Get(jobComparator, q) \in Seq(Job)
           /\ Ordered(jobComparator, Get(jobComparator, q))
           /\ Elements(Get(jobComparator, q)) \subseteq Elements(q)
  <1> DEFINE r == Get(jobComparator, q)   n == Len(q) - 1
             next == Sink(jobComparator, q)   path == SinkPath(jobComparator, q)
  <1>1. GetChain(Job, jobComparator, q, n, next, path, r)
    BY JobsCompare, GetFacts
  <1>2. Ordered(jobComparator, r)
    BY JobsCompare, GetOrdered
  <1> HIDE DEF r, n, next, path
  <1>3. /\ r \in Seq(Job) /\ DOMAIN r = 1..n
        /\ \A i \in 1..n : \E j \in DOMAIN q : r[i] = q[j]
    BY <1>1 DEF GetChain
  <1>4. Elements(r) \subseteq Elements(q)
    BY <1>3 DEF Elements
  <1> QED
    BY <1>2, <1>3, <1>4 DEF r

LEMMA TopIsFirst ==
    ASSUME NEW q \in Seq(Job), Ordered(jobComparator, q), q # << >>
    PROVE  /\ Peek(q) \in Elements(q) /\ Peek(q) \in Job
           /\ \A j \in Elements(q) : j \in Job /\ Peek(q).at <= j.at
  <1>1. 1 \in DOMAIN q /\ DOMAIN q = 1..Len(q) /\ \A i \in DOMAIN q : q[i] \in Job
    OBVIOUS
  <1>2. \A i \in 1..Len(q) : <<q[1], q[i]>> \notin jobComparator
    BY JobsCompare, TopIsLeast
  <1>3. \A a, b \in Job : <<a, b>> \notin jobComparator => a.at <= b.at
    <2>1. \A a, b \in Job : <<a, b>> \notin jobComparator => ~(a.at > b.at)
      BY DEF jobComparator
    <2>2. \A a \in Job : a.at \in Nat
      BY TimerHeapAssumption DEF Job
    <2> QED
      BY <2>1, <2>2
  <1> QED
    BY <1>1, <1>2, <1>3 DEF Elements, Peek

\* The array is a heap of jobs, and the job that was peeked at is still followed
\* by a Get that finds one.
ShapeInv ==
    /\ TypeOK
    /\ Ordered(jobComparator, heap)
    /\ runner.at = "peeked" => heap # << >>

\* Somebody will look at the heap who does not leave it to a timer that rang.
Looking ==
    \/ closed \/ runners > 0 \/ runner.at \in {"peek", "runs"}
    \/ runner.at = "peeked" /\ (runner.job.id \in done \/ runner.job.at <= now)

\* The timer's job is known by its id, which no other job gets, ...
IdsTell ==
    /\ tInfo.id <= idFactory /\ \A j \in Elements(heap) : j.id <= idFactory
    /\ \A j, k \in Elements(heap) : j.id = k.id => j.at = k.at
    /\ \A j \in Elements(heap) : j.id = tInfo.id => j.at = tInfo.at

\* ... and if that timer rang, the job is looked at before the timer is again.
RungIsSeen ==
    /\ ~tInfo.armed /\ tInfo.id # 0 => tInfo.at <= now
    /\ ~tInfo.armed /\ (\E j \in Elements(heap) : j.id = tInfo.id) => Looking

\* The inductive invariant.
TimerInv == ShapeInv /\ IdsTell /\ RungIsSeen /\ TimerCoversHeap

TimerInfo == [id : 0..MaxJobs, at : 0..MaxTime, armed : BOOLEAN]
RunnerPlaces == {Nobody, Peeking} \cup {Peeked(j) : j \in Job} \cup {Running(j) : j \in Job}

LEMMA RunnerForms ==
    /\ \A r \in RunnerPlaces : r.at \in {"peeked", "runs"} => r.job \in Job
    /\ \A r \in RunnerPlaces : r.at \notin {"peek", "peeked", "runs"} => r = Nobody
    /\ \A j \in Job : Peeked(j).at = "peeked" /\ Peeked(j).job = j
    /\ \A j \in Job : Running(j).at = "runs" /\ Running(j).job = j
    /\ Nobody.at = "nowhere" /\ Peeking.at = "peek"
  BY DEF RunnerPlaces, Nobody, Peeking, Peeked, Running

\* The timer that is set for job.
SetFor(job) == [id |-> job.id, at |-> job.at, armed |-> TRUE]

\* The three outcomes of scheduleNextTimer.
LEMMA SetTimerFacts ==
    ASSUME ShapeInv, NEW spawned \in 0..1, SetTimer(spawned)
    PROVE  /\ tInfo' \in TimerInfo
           /\ \/ (heap = << >> \/ tInfo.id = Peek(heap).id) /\ tInfo' = tInfo
              \/ heap # << >> /\ spawned = 1 /\ tInfo' = NoTimer
              \/ heap # << >> /\ tInfo' = SetFor(Peek(heap))
  <1>1. tInfo \in TimerInfo /\ heap \in Seq(Job) /\ Ordered(jobComparator, heap)
    BY DEF ShapeInv, TypeOK, TimerInfo
  <1>2. heap # << >> => Peek(heap) \in Job
    BY <1>1, TopIsFirst
  <1>3. NoTimer \in TimerInfo /\ \A j \in Job : SetFor(j) \in TimerInfo
    BY TimerHeapAssumption DEF NoTimer, SetFor, TimerInfo, Job, Ids
  <1> QED
    BY <1>1, <1>2, <1>3 DEF SetTimer, TimerIsSet, RingTime, SetFor

LEMMA ShapeInit == Init => ShapeInv
  <1> SUFFICES ASSUME Init PROVE ShapeInv
    OBVIOUS
  <1> USE TimerHeapAssumption DEF Init
  <1>1. heap \in Seq(Job) /\ Ordered(jobComparator, heap)
    BY DEF Ordered
  <1>2. tInfo \in TimerInfo
    BY DEF NoTimer, TimerInfo
  <1>3. runner \in RunnerPlaces /\ runner.at # "peeked"
    BY DEF RunnerPlaces, Nobody
  <1>4. /\ idFactory \in 0..MaxJobs /\ done \subseteq Ids /\ runs \in [Ids -> Nat]
        /\ now \in 0..MaxTime /\ schedulers \in 0..MaxThreads /\ runners \in Nat
    OBVIOUS
  <1>5. closed \in BOOLEAN
    OBVIOUS
  <1> QED
    BY <1>1, <1>2, <1>3, <1>4, <1>5 DEF ShapeInv, TypeOK, TimerInfo, RunnerPlaces

LEMMA ShapeNext == ShapeInv /\ [Next]_vars => ShapeInv'
  <1> SUFFICES ASSUME ShapeInv, [Next]_vars PROVE ShapeInv'
    OBVIOUS
  <1> USE TimerHeapAssumption
  <1>1. /\ heap \in Seq(Job) /\ idFactory \in 0..MaxJobs /\ done \subseteq Ids
        /\ runs \in [Ids -> Nat] /\ now \in 0..MaxTime /\ tInfo \in TimerInfo
        /\ closed \in BOOLEAN /\ schedulers \in 0..MaxThreads /\ runners \in Nat
        /\ runner \in RunnerPlaces
        /\ Ordered(jobComparator, heap) /\ (runner.at = "peeked" => heap # << >>)
    BY DEF ShapeInv, TypeOK, TimerInfo, RunnerPlaces
  <1> DEFINE HeapOK == heap' \in Seq(Job) /\ Ordered(jobComparator, heap')
             RunnerOK == runner' \in RunnerPlaces /\ (runner'.at = "peeked" => heap' # << >>)
             RestOK == /\ idFactory' \in 0..MaxJobs /\ done' \subseteq Ids
                       /\ runs' \in [Ids -> Nat] /\ now' \in 0..MaxTime
                       /\ closed' \in BOOLEAN /\ schedulers' \in 0..MaxThreads
                       /\ runners' \in Nat
  <1>2. ASSUME HeapOK, RunnerOK, RestOK, tInfo' \in TimerInfo
        PROVE  ShapeInv'
    BY <1>2 DEF ShapeInv, TypeOK, TimerInfo, RunnerPlaces
  <1>3. ASSUME NEW at \in 0..MaxTime, AddJobByTime(at)
        PROVE  ShapeInv'
    <2> DEFINE x == [id |-> idFactory + 1, at |-> at]
    <2>1. x \in Job
      BY <1>1, <1>3 DEF AddJobByTime, Job, Ids
    <2>2. heap' = Add(jobComparator, heap, x)
      BY <1>3 DEF AddJobByTime
    <2> HIDE DEF x
    <2>3. HeapOK /\ heap' # << >>
      BY <1>1, <2>1, <2>2, JobAdded
    <2>4. RestOK /\ tInfo' = tInfo /\ runner' = runner
      BY <1>1, <1>3 DEF AddJobByTime
    <2> QED
      BY <1>1, <1>2, <2>3, <2>4
  <1>4. ASSUME UNCHANGED <<heap, runner>>, RestOK, tInfo' \in TimerInfo
        PROVE  ShapeInv'
    BY <1>1, <1>2, <1>4
  <1>5. ASSUME NEW id \in Ids, CancelJob(id)
        PROVE  ShapeInv'
    BY <1>1, <1>4, <1>5 DEF CancelJob
  <1>6. CASE Cancel
    <2>1. NoTimer \in TimerInfo
      BY DEF NoTimer, TimerInfo
    <2> QED
      BY <1>1, <1>4, <1>6, <2>1 DEF Cancel
  <1>7. CASE scheduleNextTimer
    <2>1. PICK spawned \in 0..1 : SetTimer(spawned) /\ runners' = runners + spawned
      BY <1>7 DEF scheduleNextTimer
    <2>2. tInfo' \in TimerInfo
      BY <2>1, SetTimerFacts
    <2>3. UNCHANGED <<heap, runner>> /\ RestOK
      BY <1>1, <1>7, <2>1 DEF scheduleNextTimer
    <2> QED
      BY <1>4, <2>2, <2>3
  <1>8. CASE TimerRings
    <2>1. tInfo' \in TimerInfo
      BY <1>1, <1>8 DEF TimerRings, TimerInfo
    <2>2. UNCHANGED <<heap, runner>> /\ RestOK
      BY <1>1, <1>8 DEF TimerRings
    <2> QED
      BY <1>4, <2>1, <2>2
  <1>9. CASE Tick
    BY <1>1, <1>4, <1>9 DEF Tick
  <1>10. CASE StartJobs
    <2>1. runner' \in {Nobody, Peeking} /\ UNCHANGED <<heap, tInfo>> /\ RestOK
      BY <1>1, <1>10 DEF StartJobs, FirstStep
    <2>2. RunnerOK
      BY <2>1, RunnerForms DEF RunnerPlaces
    <2> QED
      BY <1>1, <1>2, <2>1, <2>2
  <1>11. ASSUME LeaveJobs
         PROVE  ShapeInv'
    <2>1. PICK spawned \in 0..1 : SetTimer(spawned) /\ runners' = runners + spawned
      BY <1>11 DEF LeaveJobs
    <2>2. tInfo' \in TimerInfo
      BY <2>1, SetTimerFacts
    <2>3. runner' = Nobody /\ heap' = heap /\ RestOK
      BY <1>1, <1>11, <2>1 DEF LeaveJobs
    <2>4. RunnerOK
      BY <2>3, RunnerForms DEF RunnerPlaces
    <2> QED
      BY <1>1, <1>2, <2>2, <2>3, <2>4
  <1>12. CASE PeekJob /\ heap # << >>
    <2>1. /\ runner' = Peeked(Peek(heap)) /\ UNCHANGED <<heap, tInfo>> /\ RestOK
      BY <1>1, <1>12 DEF PeekJob
    <2>2. Peek(heap) \in Job
      BY <1>1, <1>12, TopIsFirst
    <2>3. RunnerOK
      BY <1>12, <2>1, <2>2 DEF RunnerPlaces
    <2> QED
      BY <1>1, <1>2, <2>1, <2>3
  <1>13. CASE ClearJob
    <2>1. /\ heap' = Get(jobComparator, heap) /\ heap # << >>
          /\ runner' = Peeking /\ tInfo' = tInfo /\ RestOK
      BY <1>1, <1>13 DEF ClearJob
    <2>2. /\ Get(jobComparator, heap) \in Seq(Job)
          /\ Ordered(jobComparator, Get(jobComparator, heap))
      BY <1>1, <2>1, JobTaken
    <2>3. RunnerOK
      BY <2>1, RunnerForms DEF RunnerPlaces
    <2> QED
      BY <1>1, <1>2, <2>1, <2>2, <2>3
  <1>14. CASE RunJob
    <2>1. runner.job \in Job
      BY <1>1, <1>14, RunnerForms DEF RunJob
    <2>2. runs' \in [Ids -> Nat]
      <3> DEFINE id == runner.job.id
      <3>1. id \in Ids
        BY <2>1 DEF Job
      <3>2. runs' = [runs EXCEPT ![id] = runs[id] + 1]
        BY <1>14 DEF RunJob
      <3> HIDE DEF id
      <3> QED
        BY <1>1, <3>1, <3>2
    <2>3. /\ heap' = Get(jobComparator, heap) /\ heap # << >>
          /\ runner' = Running(runner.job) /\ tInfo' = tInfo /\ RestOK
      BY <1>1, <1>14, <2>2 DEF RunJob
    <2>4. /\ Get(jobComparator, heap) \in Seq(Job)
          /\ Ordered(jobComparator, Get(jobComparator, heap))
      BY <1>1, <2>3, JobTaken
    <2>5. RunnerOK
      BY <2>1, <2>3, RunnerForms DEF RunnerPlaces
    <2> QED
      BY <1>1, <1>2, <2>3, <2>4, <2>5
  <1>15. CASE JobReturns
    <2>1. runner.job.id \in Ids
      BY <1>1, <1>15, RunnerForms DEF JobReturns, Job
    <2>2. runner' = Peeking /\ UNCHANGED <<heap, tInfo>> /\ RestOK
      BY <1>1, <1>15, <2>1 DEF JobReturns, Finished
    <2>3. RunnerOK
      BY <2>2, RunnerForms DEF RunnerPlaces
    <2> QED
      BY <1>1, <1>2, <2>2, <2>3
  <1>16. CASE UNCHANGED vars
    BY <1>1, <1>4, <1>16 DEF vars
  <1>17. CASE PeekJob /\ heap = << >>
    BY <1>11, <1>17 DEF PeekJob
  <1>18. CASE NotYet
    BY <1>11, <1>18 DEF NotYet
  <1> QED
    BY <1>3, <1>5, <1>6, <1>7, <1>8, <1>9, <1>10, <1>12, <1>13, <1>14, <1>15, <1>16,
       <1>17, <1>18 DEF Next

\* scheduleNextTimer leaves a heap whose first job has a timer, or a thread that
\* will look, given that nobody else is trusted to look at the job of a timer
\* that rang.
LEMMA SetTimerCovers ==
    ASSUME TimerInv, NEW spawned \in 0..1, SetTimer(spawned),
           UNCHANGED <<heap, idFactory, now, closed>>,
           runners' = runners + spawned, runner' = Nobody,
           ~tInfo.armed /\ (\E j \in Elements(heap) : j.id = tInfo.id)
               => closed \/ runners > 0
    PROVE  IdsTell' /\ RungIsSeen' /\ TimerCoversHeap'
  <1>1. /\ heap \in Seq(Job) /\ Ordered(jobComparator, heap) /\ runners \in Nat
        /\ idFactory \in 0..MaxJobs
    BY DEF TimerInv, ShapeInv, TypeOK
  <1>2. runners' \in Nat /\ runners' >= runners /\ (spawned = 1 => runners' > 0)
    BY <1>1
  <1>3. heap # << >> =>
            Peek(heap) \in Elements(heap) /\ \A j \in Elements(heap) : j.id \in Ids
    BY <1>1, TopIsFirst DEF Job
  <1>4. heap = << >> => Elements(heap) = {}
    BY DEF Elements
  <1>5. IdsTell /\ RungIsSeen
    BY DEF TimerInv
  <1>6. CASE (heap = << >> \/ tInfo.id = Peek(heap).id) /\ tInfo' = tInfo
    <2>1. IdsTell'
      BY <1>5, <1>6 DEF IdsTell
    <2>2. RungIsSeen'
      BY <1>1, <1>2, <1>5, <1>6 DEF RungIsSeen, Looking
    <2>3. ASSUME heap # << >>, ~closed, runners' = 0
          PROVE  tInfo.armed /\ tInfo.id = Peek(heap).id /\ tInfo.at = Peek(heap).at
      <3>1. runners = 0
        BY <1>1, <1>2, <2>3
      <3>2. tInfo.id = Peek(heap).id /\ Peek(heap) \in Elements(heap)
        BY <1>3, <1>6, <2>3
      <3>3. tInfo.at = Peek(heap).at
        BY <1>5, <3>2 DEF IdsTell
      <3>4. tInfo.armed
        BY <2>3, <3>1, <3>2
      <3> QED
        BY <3>2, <3>3, <3>4
    <2>4. TimerCoversHeap'
      BY <1>6, <2>3 DEF TimerCoversHeap
    <2> QED
      BY <2>1, <2>2, <2>4
  <1>7. CASE heap # << >> /\ spawned = 1 /\ tInfo' = NoTimer
    <2>1. \A j \in Elements(heap) : j.id # 0
      BY <1>3, <1>7 DEF Ids
    <2>2. tInfo'.id = 0 /\ ~tInfo'.armed
      BY <1>7 DEF NoTimer
    <2>3. IdsTell'
      BY <1>1, <1>5, <2>1, <2>2 DEF IdsTell
    <2>4. RungIsSeen'
      BY <2>1, <2>2 DEF RungIsSeen
    <2>5. TimerCoversHeap'
      BY <1>2, <1>7 DEF TimerCoversHeap
    <2> QED
      BY <2>3, <2>4, <2>5
  <1>8. CASE heap # << >> /\ tInfo' = SetFor(Peek(heap))
    <2>1. tInfo'.armed /\ tInfo'.id = Peek(heap).id /\ tInfo'.at = Peek(heap).at
      BY <1>8 DEF SetFor
    <2>2. IdsTell'
      BY <1>3, <1>5, <1>8, <2>1 DEF IdsTell
    <2>3. RungIsSeen'
      BY <2>1 DEF RungIsSeen
    <2>4. TimerCoversHeap'
      BY <2>1 DEF TimerCoversHeap
    <2> QED
      BY <2>2, <2>3, <2>4
  <1> QED
    BY <1>6, <1>7, <1>8, SetTimerFacts DEF TimerInv

\* A step that leaves the heap and the timer alone.
LEMMA SameTimerKeepsInv ==
    ASSUME TimerInv, ShapeInv', UNCHANGED <<heap, idFactory, tInfo>>, now' >= now,
           Looking => Looking',
           \/ UNCHANGED <<closed, runner, schedulers, runners>>
           \/ closed' \/ runner' # Nobody
    PROVE  TimerInv'
  <1>1. now \in Nat /\ now' \in Nat /\ tInfo.at \in Nat
    BY TimerHeapAssumption DEF TimerInv, ShapeInv, TypeOK
  <1>2. IdsTell'
    BY DEF TimerInv, IdsTell
  <1>3. RungIsSeen'
    BY <1>1 DEF TimerInv, RungIsSeen
  <1>4. TimerCoversHeap'
    BY DEF TimerInv, TimerCoversHeap
  <1> QED
    BY <1>2, <1>3, <1>4 DEF TimerInv

\* A step that takes a job out of the heap, of a thread that goes on looking.
LEMMA TakenKeepsInv ==
    ASSUME TimerInv, ShapeInv', Elements(heap') \subseteq Elements(heap),
           UNCHANGED <<idFactory, tInfo, now>>, runner'.at \in {"peek", "runs"}
    PROVE  TimerInv'
  <1>1. IdsTell'
    BY DEF TimerInv, IdsTell
  <1>2. RungIsSeen'
    BY DEF TimerInv, RungIsSeen, Looking
  <1>3. TimerCoversHeap'
    BY RunnerForms DEF TimerCoversHeap
  <1> QED
    BY <1>1, <1>2, <1>3 DEF TimerInv

LEMMA TimerInit == Init => TimerInv
  <1> SUFFICES ASSUME Init PROVE TimerInv
    OBVIOUS
  <1>1. ShapeInv
    BY ShapeInit
  <1>2. Elements(heap) = {} /\ heap = << >>
    BY DEF Init, Elements
  <1>3. tInfo.id = 0 /\ idFactory = 0
    BY DEF Init, NoTimer
  <1> QED
    BY <1>1, <1>2, <1>3 DEF TimerInv, IdsTell, RungIsSeen, TimerCoversHeap

LEMMA TimerNext == TimerInv /\ [Next]_vars => TimerInv'
  <1> SUFFICES ASSUME TimerInv, [Next]_vars PROVE TimerInv'
    OBVIOUS
  <1>1. ShapeInv' /\ ShapeInv
    BY ShapeNext DEF TimerInv
  <1>2. /\ heap \in Seq(Job) /\ Ordered(jobComparator, heap)
        /\ idFactory \in Nat /\ now \in Nat /\ runners \in Nat /\ schedulers \in Nat
        /\ tInfo \in TimerInfo /\ runner \in RunnerPlaces
        /\ (runner.at = "peeked" => heap # << >>)
    BY <1>1, TimerHeapAssumption DEF ShapeInv, TypeOK, TimerInfo, RunnerPlaces
  <1>3. IdsTell /\ RungIsSeen /\ TimerCoversHeap
    BY DEF TimerInv
  <1>4. \A j \in Elements(heap) : j \in Job
    BY <1>2 DEF Elements
  <1>5. ASSUME NEW at \in 0..MaxTime, AddJobByTime(at)
        PROVE  TimerInv'
    <2> DEFINE x == [id |-> idFactory + 1, at |-> at]
    <2>1. x \in Job /\ x.id = idFactory + 1
      BY <1>1, <1>2, <1>5 DEF AddJobByTime, Job, Ids, ShapeInv, TypeOK
    <2>2. /\ heap' = Add(jobComparator, heap, x) /\ idFactory' = idFactory + 1
          /\ schedulers' = schedulers + 1
          /\ UNCHANGED <<done, now, tInfo, closed, runners, runner>>
      BY <1>5 DEF AddJobByTime
    <2> HIDE DEF x
    <2>3. Elements(heap') \subseteq Elements(heap) \cup {x}
      BY <1>2, <2>1, <2>2, JobAdded
    <2>4. /\ tInfo.id \in Nat /\ tInfo.id <= idFactory /\ tInfo.id # x.id
          /\ \A j \in Elements(heap) : j.id \in Nat /\ j.id <= idFactory /\ j.id # x.id
      BY <1>2, <1>3, <1>4, <2>1, TimerHeapAssumption DEF IdsTell, TimerInfo, Job, Ids
    <2>5. IdsTell'
      <3>1. /\ tInfo.id <= idFactory' /\ x.id <= idFactory'
            /\ \A j \in Elements(heap) : j.id <= idFactory'
        BY <1>2, <2>1, <2>2, <2>4
      <3>2. \A j, k \in Elements(heap') : j.id = k.id => j.at = k.at
        BY <1>3, <2>3, <2>4 DEF IdsTell
      <3>3. \A j \in Elements(heap') : j.id = tInfo.id => j.at = tInfo.at
        BY <1>3, <2>3, <2>4 DEF IdsTell
      <3> QED
        BY <2>2, <2>3, <3>1, <3>2, <3>3 DEF IdsTell
    <2>6. RungIsSeen'
      BY <1>3, <2>2, <2>3, <2>4 DEF RungIsSeen, Looking
    <2>7. TimerCoversHeap'
      BY <1>2, <2>2 DEF TimerCoversHeap
    <2> QED
      BY <1>1, <2>5, <2>6, <2>7 DEF TimerInv
  <1>6. ASSUME NEW id \in Ids, CancelJob(id)
        PROVE  TimerInv'
    <2>1. /\ UNCHANGED <<heap, idFactory, now, tInfo, closed, schedulers, runners, runner>>
          /\ done \subseteq done'
      BY <1>6 DEF CancelJob
    <2>2. Looking => Looking'
      BY <2>1 DEF Looking
    <2>3. now' >= now
      BY <1>2, <2>1
    <2> QED
      BY <1>1, <2>1, <2>2, <2>3, SameTimerKeepsInv
  <1>7. CASE Cancel
    <2>1. closed' /\ tInfo'.id = 0 /\ UNCHANGED <<heap, idFactory>>
      BY <1>7 DEF Cancel, NoTimer
    <2>2. \A j \in Elements(heap) : j.id # 0
      BY <1>4 DEF Job, Ids
    <2>3. IdsTell'
      BY <1>2, <1>3, <2>1, <2>2 DEF IdsTell
    <2>4. RungIsSeen' /\ TimerCoversHeap'
      BY <2>1 DEF RungIsSeen, Looking, TimerCoversHeap
    <2> QED
      BY <1>1, <2>3, <2>4 DEF TimerInv
  <1>8. CASE scheduleNextTimer
    <2>1. PICK spawned \in 0..1 : SetTimer(spawned) /\ runners' = runners + spawned
      BY <1>8 DEF scheduleNextTimer
    <2>2. runner = Nobody /\ UNCHANGED <<heap, idFactory, now, closed, runner>>
      BY <1>8 DEF scheduleNextTimer
    <2>3. ~tInfo.armed /\ (\E j \in Elements(heap) : j.id = tInfo.id)
              => closed \/ runners > 0
      BY <1>3, <2>2, RunnerForms DEF RungIsSeen, Looking
    <2> QED
      BY <1>1, <2>1, <2>2, <2>3, SetTimerCovers DEF TimerInv
  <1>9. CASE TimerRings
    <2>1. /\ UNCHANGED <<heap, idFactory, now, closed>> /\ runners' > 0
          /\ tInfo'.id = tInfo.id /\ tInfo'.at = tInfo.at /\ tInfo.at <= now
      BY <1>2, <1>9 DEF TimerRings, TimerInfo
    <2>2. IdsTell'
      BY <1>3, <2>1 DEF IdsTell
    <2>3. RungIsSeen' /\ TimerCoversHeap'
      BY <2>1 DEF RungIsSeen, Looking, TimerCoversHeap
    <2> QED
      BY <1>1, <2>2, <2>3 DEF TimerInv
  <1>10. CASE Tick
    <2>1. /\ UNCHANGED <<heap, idFactory, tInfo, done, closed, schedulers, runners, runner>>
          /\ now' = now + 1
      BY <1>10 DEF Tick
    <2>2. now' >= now /\ (runner.at = "peeked" /\ runner.job.at <= now => runner.job.at <= now')
      BY <1>2, <2>1, RunnerForms, TimerHeapAssumption DEF Job
    <2>3. Looking => Looking'
      BY <2>1, <2>2 DEF Looking
    <2> QED
      BY <1>1, <2>1, <2>2, <2>3, SameTimerKeepsInv
  <1>11. CASE StartJobs
    <2>1. /\ UNCHANGED <<heap, idFactory, now, tInfo, closed>>
          /\ closed \/ runner' = Peeking
      BY <1>11 DEF StartJobs, FirstStep
    <2>2. Looking' /\ (closed' \/ runner' # Nobody) /\ now' >= now
      BY <1>2, <2>1, RunnerForms DEF Looking
    <2> QED
      BY <1>1, <2>1, <2>2, SameTimerKeepsInv
  <1>12. ASSUME LeaveJobs, ~tInfo.armed /\ (\E j \in Elements(heap) : j.id = tInfo.id)
                               => closed \/ runners > 0
         PROVE  TimerInv'
    <2>1. PICK spawned \in 0..1 : SetTimer(spawned) /\ runners' = runners + spawned
      BY <1>12 DEF LeaveJobs
    <2>2. runner' = Nobody /\ UNCHANGED <<heap, idFactory, now, closed>>
      BY <1>12 DEF LeaveJobs
    <2> QED
      BY <1>1, <1>12, <2>1, <2>2, SetTimerCovers DEF TimerInv
  <1>13. CASE PeekJob /\ heap = << >>
    <2>1. Elements(heap) = {}
      BY <1>13 DEF Elements
    <2> QED
      BY <1>12, <1>13, <2>1 DEF PeekJob
  <1>14. CASE PeekJob /\ heap # << >>
    <2> DEFINE top == Peek(heap)
    <2>1. /\ runner' = Peeked(top)
          /\ UNCHANGED <<heap, idFactory, now, tInfo, closed, done, runners>>
      BY <1>14 DEF PeekJob
    <2>2. top \in Job /\ \A j \in Elements(heap) : j \in Job /\ top.at <= j.at
      BY <1>2, <1>14, TopIsFirst
    <2>3. runner'.at = "peeked" /\ runner'.job = top
      BY <2>1, <2>2, RunnerForms
    <2>4. IdsTell'
      BY <1>3, <2>1 DEF IdsTell
    <2>5. ASSUME ~tInfo.armed, NEW j \in Elements(heap), j.id = tInfo.id
          PROVE  top.at <= now
      <3>1. j.at <= now
        <4>1. j.id # 0 /\ j.at = tInfo.at
          BY <1>3, <1>4, <2>5 DEF IdsTell, Job, Ids
        <4> QED
          BY <1>3, <2>5, <4>1 DEF RungIsSeen
      <3>2. j.at \in Nat /\ top.at \in Nat /\ top.at <= j.at
        BY <2>2, TimerHeapAssumption DEF Job
      <3> QED
        BY <1>2, <3>1, <3>2
    <2>6. RungIsSeen'
      BY <1>3, <2>1, <2>3, <2>5 DEF RungIsSeen, Looking
    <2>7. TimerCoversHeap'
      BY <2>3, RunnerForms DEF TimerCoversHeap
    <2> QED
      BY <1>1, <2>4, <2>6, <2>7 DEF TimerInv
  <1>15. CASE ClearJob \/ RunJob
    <2>1. /\ heap' = Get(jobComparator, heap) /\ heap # << >>
          /\ UNCHANGED <<idFactory, tInfo, now>>
      BY <1>2, <1>15 DEF ClearJob, RunJob
    <2>2. Elements(heap') \subseteq Elements(heap)
      BY <1>2, <2>1, JobTaken
    <2>3. runner'.at \in {"peek", "runs"}
      BY <1>15 DEF ClearJob, RunJob, Peeking, Running
    <2> QED
      BY <1>1, <2>1, <2>2, <2>3, TakenKeepsInv
  <1>16. CASE NotYet
    <2>1. LeaveJobs /\ runner.at = "peeked" /\ runner.job.id \notin done
          /\ now < runner.job.at
      BY <1>16 DEF NotYet
    <2>2. ~(runner.job.at <= now)
      BY <1>2, <2>1, RunnerForms, TimerHeapAssumption DEF Job
    <2>3. Looking => closed \/ runners > 0
      BY <2>1, <2>2 DEF Looking
    <2> QED
      BY <1>3, <1>12, <2>1, <2>3 DEF RungIsSeen
  <1>17. CASE JobReturns
    <2>1. heap' = heap /\ UNCHANGED <<idFactory, tInfo, now>> /\ runner' = Peeking
      BY <1>17 DEF JobReturns
    <2>2. Elements(heap') \subseteq Elements(heap) /\ runner'.at \in {"peek", "runs"}
      BY <2>1, RunnerForms
    <2> QED
      BY <1>1, <2>1, <2>2, TakenKeepsInv
  <1>18. CASE UNCHANGED vars
    <2>1. UNCHANGED <<heap, idFactory, now, tInfo, closed, done, schedulers, runners, runner>>
      BY <1>18 DEF vars
    <2>2. (Looking => Looking') /\ now' >= now
      BY <1>2, <2>1 DEF Looking
    <2> QED
      BY <1>1, <2>1, <2>2, SameTimerKeepsInv
  <1> QED
    BY <1>5, <1>6, <1>7, <1>8, <1>9, <1>10, <1>11, <1>13, <1>14, <1>15, <1>16, <1>17,
       <1>18 DEF Next

\* The heap holds jobs only, also when a Get takes out another job than the one
\* doAllCurrentJobs peeked at; no index of the heap's array is out of range.
THEOREM TimerHeapTypes == Spec => []TypeOK
  <1>1. ShapeInv => TypeOK
    BY DEF ShapeInv
  <1> QED
    BY <1>1, ShapeInit, ShapeNext, PTL DEF Spec

\* For any number of jobs and threads: the one timer of timers/timers.go is
\* enough.  While nobody is about to look at the heap, its first job has a timer
\* that will ring when it is due.
THEOREM OneTimerIsEnough == Spec => []TimerCoversHeap
  <1>1. TimerInv => TimerCoversHeap
    BY DEF TimerInv
  <1> QED
    BY <1>1, TimerInit, TimerNext, PTL DEF Spec

=============================================================================
