--------------------------- MODULE CarCache_proofs ---------------------------
(***************************************************************************)
(* Theorems about CarCache for removal functions that hold of one key at a *)
(* time: with two neighbours removed together the bounds really break.     *)
(***************************************************************************)
EXTENDS CarCache, FiniteSetTheorems, FunctionTheorems, TLAPS

\* The keys of a clock's nodes, in order.
KeysOf(c) == [i \in DOMAIN c.list |-> c.list[i].key]

\* What occurs in s, and that it occurs once.
Elems(s) == {s[i] : i \in DOMAIN s}
Once(s) == \A i, j \in DOMAIN s : s[i] = s[j] => i = j

\* Every node is linked and mapped, and the tail is the last of them.
Clean(c) ==
    /\ c \in Clocks
    /\ c.lost = {} /\ c.attached
    /\ \A i \in DOMAIN c.list : c.list[i].live

\* Single removals leave no dangling nodes.
ClocksClean == Clean(T1) /\ Clean(T2)

\* A key is in one list only, once.
ListsApart ==
    /\ Once(KeysOf(T1)) /\ Once(KeysOf(T2)) /\ Once(B1) /\ Once(B2)
    /\ Elems(KeysOf(T1)) \cap Elems(KeysOf(T2)) = {}
    /\ (Elems(KeysOf(T1)) \cup Elems(KeysOf(T2))) \cap (Elems(B1) \cup Elems(B2)) = {}
    /\ Elems(B1) \cap Elems(B2) = {}

\* The key being computed is in neither clock.
KeyMissed ==
    step \in {"replace", "trim", "insert"} =>
        key \in Keys \ (Elems(KeysOf(T1)) \cup Elems(KeysOf(T2)))

\* The sizes as Compute goes on: an eviction makes room for the new value and
\* puts one key too many into the ghost lists until Trim or Insert.
Sizes ==
    LET t == Len(T1.list) + Len(T2.list)
        b == Len(B1) + Len(B2)
    IN  /\ t <= MaxSize
        /\ step = "replace" => t = MaxSize
        /\ step = "trim" => t + 1 = MaxSize
        /\ step = "insert" => t < MaxSize
        /\ b <= MaxSize + 1
        /\ b <= MaxSize \/ step = "trim" \/ (step = "insert" /\ isXInB(key))

\* The inductive invariant.
CarInv == TypeOK /\ ClocksClean /\ ListsApart /\ KeyMissed /\ Sizes /\ NeverPanics

-----------------------------------------------------------------------------
(* Taking elements out of a sequence.                                      *)

LEMMA IntervalSize ==
    ASSUME NEW n \in Nat
    PROVE  IsFiniteSet(1..n) /\ Cardinality(1..n) = n
  <1>1. /\ IsFiniteSet(1..n)
        /\ Cardinality(1..n) = IF 1 > n THEN 0 ELSE n - 1 + 1
    <2>1. 1 \in Int /\ n \in Int
      OBVIOUS
    <2> QED
      BY <2>1, FS_Interval, Zenon
  <1> QED
    BY <1>1

\* The positions kept are numbered from 1 without gaps.
LEMMA RankOnto ==
    ASSUME NEW n \in Nat, NEW keep \in SUBSET (1..n), NEW j \in 1..Cardinality(keep)
    PROVE  \E i \in keep : Cardinality({m \in keep : m <= i}) = j
  <1> DEFINE rank == [i \in keep |-> Cardinality({m \in keep : m <= i})]
             N == Cardinality(keep)
  <1>1. IsFiniteSet(keep) /\ N \in Nat
    <2>1. IsFiniteSet(1..n)
      BY IntervalSize
    <2>2. IsFiniteSet(keep)
      BY <2>1, FS_Subset
    <2> QED
      BY <2>2, FS_CardinalityType
  <1>2. ASSUME NEW i \in keep
        PROVE  IsFiniteSet({m \in keep : m <= i}) /\ rank[i] \in 1..N
    <2> DEFINE S == {m \in keep : m <= i}
    <2>1. S \in SUBSET keep /\ i \in S
      OBVIOUS
    <2>2. IsFiniteSet(S) /\ Cardinality(S) <= N
      BY <1>1, <2>1, FS_Subset
    <2>3. Cardinality(S) \in Nat /\ Cardinality(S) # 0
      BY <2>1, <2>2, FS_CardinalityType, FS_EmptySet
    <2>4. rank[i] = Cardinality(S)
      OBVIOUS
    <2> HIDE DEF S, rank
    <2>5. rank[i] \in 1..N
      BY <1>1, <2>2, <2>3, <2>4
    <2> QED
      BY <2>2, <2>5 DEF S
  <1>3. ASSUME NEW a \in keep, NEW b \in keep, a < b
        PROVE  rank[a] # rank[b]
    <2> DEFINE A == {m \in keep : m <= a}   B == {m \in keep : m <= b}
    <2>1. A \in SUBSET B /\ b \in B /\ b \notin A
      <3>1. \A m \in keep : m \in Int
        OBVIOUS
      <3>2. \A m \in keep : m <= a => m <= b
        BY <1>3, <3>1
      <3>3. b <= b /\ ~(b <= a)
        BY <1>3, <3>1
      <3> QED
        BY <3>2, <3>3, Zenon
    <2>2. IsFiniteSet(B)
      BY <1>2
    <2>3. Cardinality(B) = Cardinality(A) => B = A
      BY <2>1, <2>2, FS_Subset
    <2>4. Cardinality(A) # Cardinality(B)
      BY <2>1, <2>3
    <2> QED
      BY <2>4
  <1>4. rank \in Injection(keep, 1..N)
    <2>1. rank \in [keep -> 1..N]
      BY <1>2
    <2>2. \A a, b \in keep : rank[a] = rank[b] => a = b
      <3> SUFFICES ASSUME NEW a \in keep, NEW b \in keep, a # b
                   PROVE  rank[a] # rank[b]
        OBVIOUS
      <3>1. a < b \/ b < a
        OBVIOUS
      <3> QED
        BY <1>3, <3>1
    <2> HIDE DEF rank
    <2> QED
      BY <2>1, <2>2 DEF Injection, IsInjective
  <1>5. IsFiniteSet(1..N) /\ Cardinality(1..N) = N
    BY <1>1, IntervalSize
  <1>6. rank \in Surjection(keep, 1..N)
    <2> HIDE DEF rank, N
    <2> QED
      BY <1>4, <1>5, FS_Injection DEF N
  <1>7. PICK i \in keep : rank[i] = j
    BY <1>6 DEF Surjection
  <1> QED
    BY <1>7

\* Kept takes its elements from different positions of the sequence.
LEMMA KeptFrom ==
    ASSUME NEW X, NEW s \in Seq(X), NEW keep \in SUBSET DOMAIN s
    PROVE  /\ Kept(s, keep) \in Seq(X)
           /\ Len(Kept(s, keep)) = Cardinality(keep)
           /\ Cardinality(keep) \in Nat /\ Cardinality(keep) <= Len(s)
           /\ \E at \in [1..Cardinality(keep) -> keep] :
                 /\ \A j \in 1..Cardinality(keep) : Kept(s, keep)[j] = s[at[j]]
                 /\ \A j, k \in 1..Cardinality(keep) : at[j] = at[k] => j = k
  <1> DEFINE N == Cardinality(keep)
             rank(i) == Cardinality({m \in keep : m <= i})
             at == [j \in 1..N |-> CHOOSE i \in keep : rank(i) = j]
  <1>1. Len(s) \in Nat /\ DOMAIN s = 1..Len(s) /\ keep \in SUBSET (1..Len(s))
    OBVIOUS
  <1>2. N \in Nat /\ N <= Len(s)
    <2>1. IsFiniteSet(1..Len(s)) /\ Cardinality(1..Len(s)) = Len(s)
      BY <1>1, IntervalSize
    <2>2. IsFiniteSet(keep) /\ N <= Len(s)
      BY <1>1, <2>1, FS_Subset
    <2> QED
      BY <2>2, FS_CardinalityType
  <1>3. ASSUME NEW j \in 1..N
        PROVE  at[j] \in keep /\ rank(at[j]) = j
    <2>1. \E i \in keep : rank(i) = j
      BY <1>1, RankOnto
    <2> HIDE DEF rank
    <2> QED
      BY <2>1
  <1>4. Kept(s, keep) = [j \in 1..N |-> s[at[j]]]
    BY DEF Kept
  <1>5. at \in [1..N -> keep]
    BY <1>3
  <1>6. \A j, k \in 1..N : at[j] = at[k] => j = k
    <2> HIDE DEF at, rank
    <2> QED
      BY <1>3
  <1> HIDE DEF at, N
  <1>7. \A j \in 1..N : s[at[j]] \in X
    BY <1>1, <1>5
  <1>8. /\ Kept(s, keep) \in Seq(X) /\ Len(Kept(s, keep)) = N
        /\ \A j \in 1..N : Kept(s, keep)[j] = s[at[j]]
    BY <1>2, <1>4, <1>7
  <1> QED
    BY <1>2, <1>5, <1>6, <1>8 DEF N

\* t is s without some of its elements.
Thinner(t, s) ==
    /\ Len(t) <= Len(s)
    /\ Once(s) => Once(t)
    /\ Elems(t) \subseteq Elems(s)

LEMMA KeptThinner ==
    ASSUME NEW X, NEW s \in Seq(X), NEW keep \in SUBSET DOMAIN s
    PROVE  Thinner(Kept(s, keep), s)
  <1> DEFINE t == Kept(s, keep)   N == Cardinality(keep)
  <1>1. t \in Seq(X) /\ Len(t) = N /\ N \in Nat /\ N <= Len(s)
    BY KeptFrom
  <1>2. PICK at \in [1..N -> keep] :
            /\ \A j \in 1..N : t[j] = s[at[j]]
            /\ \A j, k \in 1..N : at[j] = at[k] => j = k
    BY KeptFrom
  <1>3. DOMAIN t = 1..N
    BY <1>1
  <1> HIDE DEF t, N
  <1>4. Once(s) => Once(t)
    BY <1>2, <1>3 DEF Once
  <1>5. Elems(t) \subseteq Elems(s)
    BY <1>2, <1>3 DEF Elems
  <1> QED
    BY <1>1, <1>4, <1>5 DEF Thinner, t

\* RemoveAll of a ghost list, and Remove of a key that is in it.
LEMMA RemoveKeysThinner ==
    ASSUME NEW b \in Seq(Keys), NEW R
    PROVE  /\ RemoveKeys(b, R) \in Seq(Keys)
           /\ Thinner(RemoveKeys(b, R), b)
           /\ Elems(RemoveKeys(b, R)) \cap R = {}
           /\ Elems(b) \cap R # {} => Len(RemoveKeys(b, R)) < Len(b)
  <1> DEFINE keep == {i \in DOMAIN b : b[i] \notin R}
             t == Kept(b, keep)   N == Cardinality(keep)
  <1>0. RemoveKeys(b, R) = t
    BY DEF RemoveKeys
  <1>1. keep \in SUBSET DOMAIN b /\ \A i \in keep : b[i] \notin R
    OBVIOUS
  <1> HIDE DEF keep
  <1>2. t \in Seq(Keys) /\ Len(t) = N /\ N \in Nat /\ N <= Len(b)
    BY <1>1, KeptFrom
  <1>3. PICK at \in [1..N -> keep] : \A j \in 1..N : t[j] = b[at[j]]
    BY <1>1, KeptFrom
  <1>4. Thinner(t, b)
    BY <1>1, KeptThinner
  <1>5. Elems(t) \cap R = {}
    <2>1. DOMAIN t = 1..N
      BY <1>2
    <2> HIDE DEF t, keep, N
    <2> QED
      BY <1>1, <1>3, <2>1 DEF Elems
  <1>6. ASSUME Elems(b) \cap R # {}
        PROVE  N < Len(b)
    <2>1. keep # DOMAIN b
      BY <1>6, <1>1 DEF Elems, keep
    <2>2. DOMAIN b = 1..Len(b) /\ Len(b) \in Nat
      OBVIOUS
    <2>3. IsFiniteSet(DOMAIN b) /\ Cardinality(DOMAIN b) = Len(b)
      BY <2>2, IntervalSize
    <2>4. Cardinality(DOMAIN b) = N => DOMAIN b = keep
      BY <1>1, <2>3, FS_Subset
    <2> HIDE DEF keep, N
    <2> QED
      BY <1>2, <2>1, <2>2, <2>3, <2>4
  <1> HIDE DEF t, N, keep
  <1> QED
    BY <1>0, <1>2, <1>4, <1>5, <1>6

LEMMA RemoveLRUThinner ==
    ASSUME NEW b \in Seq(Keys)
    PROVE  /\ RemoveLRU(b) \in Seq(Keys)
           /\ Thinner(RemoveLRU(b), b)
           /\ b # << >> => Len(RemoveLRU(b)) = Len(b) - 1
  <1>1. CASE b = << >>
    BY <1>1 DEF RemoveLRU, Thinner
  <1>2. CASE b # << >>
    <2> DEFINE t == SubSeq(b, 1, Len(b) - 1)
    <2>1. /\ t \in Seq(Keys) /\ Len(t) = Len(b) - 1 /\ Len(b) \in Nat
          /\ DOMAIN t = 1..(Len(b) - 1) /\ DOMAIN b = 1..Len(b)
          /\ \A i \in 1..(Len(b) - 1) : t[i] = b[i]
      <3>1. Len(b) \in Nat \ {0} /\ DOMAIN b = 1..Len(b) /\ \A i \in 1..Len(b) : b[i] \in Keys
        BY <1>2
      <3>2. /\ t \in Seq(Keys)
            /\ Len(t) = Len(b) - 1
        BY <3>1
      <3>3. \A i \in 1..(Len(b) - 1) : t[i] = b[i]
        BY <3>1
      <3> QED
        BY <3>1, <3>2, <3>3
    <2>2. RemoveLRU(b) = t
      BY <1>2 DEF RemoveLRU
    <2> HIDE DEF t
    <2>3. \A i \in DOMAIN t : i \in DOMAIN b /\ t[i] = b[i]
      BY <2>1
    <2>4. Once(b) => Once(t)
      BY <2>3 DEF Once
    <2>5. Elems(t) \subseteq Elems(b)
      BY <2>3 DEF Elems
    <2> QED
      BY <2>1, <2>2, <2>4, <2>5 DEF Thinner
  <1> QED
    BY <1>1, <1>2

LEMMA TailThinner ==
    ASSUME NEW X, NEW s \in Seq(X), s # << >>
    PROVE  /\ Tail(s) \in Seq(X) /\ Len(Tail(s)) = Len(s) - 1
           /\ Thinner(Tail(s), s)
           /\ Head(s) \in Elems(s)
           /\ Once(s) => Head(s) \notin Elems(Tail(s))
  <1> DEFINE t == Tail(s)
  <1>1. /\ t \in Seq(X) /\ Len(t) = Len(s) - 1 /\ Len(s) \in Nat \ {0}
        /\ DOMAIN t = 1..(Len(s) - 1) /\ DOMAIN s = 1..Len(s)
        /\ \A i \in 1..(Len(s) - 1) : t[i] = s[i + 1]
        /\ Head(s) = s[1]
    OBVIOUS
  <1> HIDE DEF t
  <1>2. /\ \A i \in DOMAIN t : i + 1 \in DOMAIN s /\ i + 1 # 1 /\ t[i] = s[i + 1]
        /\ 1 \in DOMAIN s
        /\ \A i, j \in DOMAIN t : i + 1 = j + 1 => i = j
    BY <1>1
  <1>3. Once(s) => Once(t)
    BY <1>2 DEF Once
  <1>4. Elems(t) \subseteq Elems(s) /\ Head(s) \in Elems(s)
    BY <1>1, <1>2 DEF Elems
  <1>5. Once(s) => Head(s) \notin Elems(t)
    BY <1>1, <1>2 DEF Once, Elems
  <1> QED
    BY <1>1, <1>3, <1>4, <1>5 DEF Thinner, t

\* What s is with k added at either end.
Wider(t, s, k) ==
    /\ Len(t) = Len(s) + 1
    /\ Once(s) /\ k \notin Elems(s) => Once(t)
    /\ Elems(t) = Elems(s) \cup {k}

LEMMA AppendWider ==
    ASSUME NEW s \in Seq(Keys), NEW k \in Keys
    PROVE  Append(s, k) \in Seq(Keys) /\ Wider(Append(s, k), s, k)
  <1> DEFINE t == Append(s, k)   n == Len(s)
  <1>1. /\ t \in Seq(Keys) /\ Len(t) = n + 1 /\ n \in Nat
        /\ DOMAIN t = (1..n) \cup {n + 1} /\ DOMAIN s = 1..n /\ n + 1 \notin 1..n
        /\ \A i \in 1..n : t[i] = s[i]
        /\ t[n + 1] = k
    OBVIOUS
  <1> HIDE DEF t, n
  <1>2. Elems(t) = Elems(s) \cup {k}
    BY <1>1 DEF Elems
  <1>3. Once(s) /\ k \notin Elems(s) => Once(t)
    BY <1>1 DEF Elems, Once
  <1> QED
    BY <1>1, <1>2, <1>3 DEF Wider, t, n

LEMMA AddMRUWider ==
    ASSUME NEW s \in Seq(Keys), NEW k \in Keys
    PROVE  AddMRU(s, k) \in Seq(Keys) /\ Wider(AddMRU(s, k), s, k)
  <1> DEFINE t == <<k>> \o s   n == Len(s)
  <1>1. /\ t \in Seq(Keys) /\ Len(t) = n + 1 /\ n \in Nat
        /\ DOMAIN t = 1..(n + 1) /\ DOMAIN s = 1..n
        /\ \A i \in 2..(n + 1) : t[i] = s[i - 1]
        /\ t[1] = k
    OBVIOUS
  <1> HIDE DEF t, n
  <1>2. /\ \A i \in DOMAIN t : i = 1 \/ (i - 1 \in DOMAIN s /\ t[i] = s[i - 1])
        /\ \A i \in DOMAIN s : i + 1 \in DOMAIN t /\ t[i + 1] = s[i]
        /\ 1 \in DOMAIN t
        /\ \A i, j \in DOMAIN t : i - 1 = j - 1 => i = j
    BY <1>1
  <1>3. Elems(t) = Elems(s) \cup {k}
    BY <1>1, <1>2 DEF Elems
  <1>4. ASSUME Once(s), k \notin Elems(s)
        PROVE  Once(t)
    <2>1. \A i \in DOMAIN s : s[i] # k
      BY <1>4 DEF Elems
    <2>2. \A i \in DOMAIN t : t[i] = k => i = 1
      BY <1>2, <2>1
    <2> SUFFICES ASSUME NEW i \in DOMAIN t, NEW j \in DOMAIN t, t[i] = t[j]
                 PROVE  i = j
      BY DEF Once
    <2>3. CASE i = 1 \/ j = 1
      BY <1>1, <2>2, <2>3, Zenon
    <2>4. CASE i # 1 /\ j # 1
      <3>1. /\ i - 1 \in DOMAIN s /\ j - 1 \in DOMAIN s
            /\ s[i - 1] = s[j - 1]
        BY <1>2, <2>4, Zenon
      <3> QED
        BY <1>2, <1>4, <3>1, Zenon DEF Once
    <2> QED
      BY <2>3, <2>4
  <1> QED
    BY <1>1, <1>3, <1>4 DEF Wider, AddMRU, t, n

-----------------------------------------------------------------------------
(* The clock's operations on a clean clock.                                *)

Node == [key : Keys, ref : BOOLEAN, live : BOOLEAN]

LEMMA CleanFacts ==
    ASSUME NEW c, Clean(c)
    PROVE  /\ c.list \in Seq(Node)
           /\ KeysOf(c) \in Seq(Keys) /\ Len(KeysOf(c)) = Len(c.list)
           /\ ClockKeys(c) = Elems(KeysOf(c))
           /\ Once(KeysOf(c)) => Size(c) = Len(c.list)
  <1> DEFINE s == c.list   K == KeysOf(c)   n == Len(s)
  <1>1. s \in Seq(Node)
    BY DEF Clean, Clocks, Node
  <1>2. n \in Nat /\ DOMAIN s = 1..n /\ \A i \in 1..n : s[i] \in Node
    BY <1>1
  <1>3. K = [i \in 1..n |-> s[i].key] /\ \A i \in 1..n : s[i].key \in Keys
    BY <1>2 DEF KeysOf, Node
  <1>4. K \in Seq(Keys) /\ Len(K) = n /\ DOMAIN K = 1..n
    BY <1>2, <1>3
  <1>5. ClockKeys(c) = Elems(K)
    BY <1>2, <1>3 DEF ClockKeys, Elems, Clean
  <1>6. ASSUME Once(K)
        PROVE  Size(c) = n
    <2>1. K \in Bijection(1..n, Elems(K))
      <3>1. K \in [1..n -> Elems(K)]
        BY <1>3, <1>4 DEF Elems
      <3>2. \A a, b \in 1..n : K[a] = K[b] => a = b
        BY <1>4, <1>6 DEF Once
      <3>3. \A e \in Elems(K) : \E a \in 1..n : K[a] = e
        BY <1>4 DEF Elems
      <3> QED
        BY <3>1, <3>2, <3>3 DEF Bijection, Injection, Surjection, IsInjective
    <2>2. ExistsBijection(1..n, Elems(K))
      BY <2>1 DEF ExistsBijection
    <2>3. Cardinality(Elems(K)) = n
      <3>1. IsFiniteSet(1..n) /\ Cardinality(1..n) = n
        BY <1>2, IntervalSize
      <3> QED
        BY <2>2, <3>1, FS_Bijection
    <2> QED
      BY <1>5, <2>3 DEF Size
  <1> QED
    BY <1>1, <1>4, <1>5, <1>6

\* A new clock is empty.
LEMMA NewClock ==
    /\ Clean(newCarClock) /\ newCarClock.list = << >>
    /\ Once(KeysOf(newCarClock)) /\ Elems(KeysOf(newCarClock)) = {}
  <1>1. newCarClock.list = << >> /\ newCarClock.lost = {} /\ newCarClock.attached = TRUE
    BY DEF newCarClock
  <1>2. newCarClock \in Clocks
    BY DEF newCarClock, Clocks
  <1>3. DOMAIN newCarClock.list = {}
    BY <1>1
  <1>4. KeysOf(newCarClock) = [i \in {} |-> newCarClock.list[i].key]
    BY <1>3 DEF KeysOf
  <1> QED
    BY <1>1, <1>2, <1>3, <1>4 DEF Clean, Once, Elems

LEMMA SetReferenceClean ==
    ASSUME NEW c, Clean(c), NEW k
    PROVE  /\ Clean(SetPageReference(c, k))
           /\ KeysOf(SetPageReference(c, k)) = KeysOf(c)
           /\ Len(SetPageReference(c, k).list) = Len(c.list)
  <1> DEFINE s == c.list   n == Len(s)
             r == [i \in 1..n |-> [s[i] EXCEPT !.ref = @ \/ (s[i].key = k /\ s[i].live)]]
             d == SetPageReference(c, k)
  <1>1. s \in Seq(Node) /\ n \in Nat /\ DOMAIN s = 1..n /\ \A i \in 1..n : s[i] \in Node
    BY CleanFacts
  <1>2. \A i \in 1..n : r[i] \in Node /\ r[i].key = s[i].key /\ r[i].live = s[i].live
    BY <1>1 DEF Node
  <1>3. r \in Seq(Node) /\ Len(r) = n /\ DOMAIN r = 1..n
    <2>1. r \in [1..n -> Node]
      BY <1>2
    <2> HIDE DEF r
    <2> QED
      BY <1>1, <2>1
  <1>4. c \in Clocks /\ c = [list |-> s, lost |-> c.lost, attached |-> c.attached]
    BY DEF Clean, Clocks
  <1>5. d = [list |-> r, lost |-> c.lost, attached |-> c.attached]
    <2>1. d = [c EXCEPT !.list = r]
      BY <1>1, Zenon DEF SetPageReference
    <2> HIDE DEF r, d
    <2> QED
      BY <1>4, <2>1 DEF Clocks
  <1>6. d.list = r /\ d.lost = c.lost /\ d.attached = c.attached
    BY <1>5
  <1> HIDE DEF r, d
  <1>7. d \in Clocks
    BY <1>3, <1>4, <1>5 DEF Clocks, Node
  <1>8. Clean(d)
    BY <1>1, <1>2, <1>3, <1>6, <1>7 DEF Clean
  <1>9. KeysOf(d) = KeysOf(c)
    BY <1>1, <1>2, <1>3, <1>6 DEF KeysOf
  <1> QED
    BY <1>3, <1>6, <1>8, <1>9 DEF d

LEMMA AddTailClean ==
    ASSUME NEW c, Clean(c), NEW k \in Keys
    PROVE  /\ Clean(AddTail(c, k))
           /\ KeysOf(AddTail(c, k)) = Append(KeysOf(c), k)
           /\ Len(AddTail(c, k).list) = Len(c.list) + 1
           /\ AddTail(c, k).list = Append(c.list, [key |-> k, ref |-> FALSE, live |-> TRUE])
  <1> DEFINE s == c.list   n == Len(s)
             new == [key |-> k, ref |-> FALSE, live |-> TRUE]
             r == Append(s, new)
             d == AddTail(c, k)
  <1>1. s \in Seq(Node) /\ n \in Nat /\ DOMAIN s = 1..n /\ \A i \in 1..n : s[i] \in Node
    BY CleanFacts
  <1>2. new \in Node /\ new.key = k /\ new.live = TRUE
    BY DEF Node
  <1> HIDE DEF new
  <1>3. /\ r \in Seq(Node) /\ Len(r) = n + 1 /\ DOMAIN r = 1..(n + 1)
        /\ \A i \in 1..n : r[i] = s[i]
        /\ r[n + 1] = new
    BY <1>1, <1>2
  <1>4. c \in Clocks /\ c.attached /\ c = [list |-> s, lost |-> c.lost, attached |-> c.attached]
    BY DEF Clean, Clocks
  <1>5. d = [list |-> r, lost |-> c.lost, attached |-> c.attached]
    BY <1>4 DEF AddTail, new
  <1>6. d.list = r /\ d.lost = c.lost /\ d.attached = c.attached
    BY <1>5
  <1> HIDE DEF r, d
  <1>7. d \in Clocks
    BY <1>3, <1>4, <1>5 DEF Clocks, Node
  <1>8. \A i \in 1..(n + 1) : i \in 1..n \/ i = n + 1
    BY <1>1
  <1>9. Clean(d)
    BY <1>1, <1>2, <1>3, <1>6, <1>7, <1>8 DEF Clean
  <1>10. KeysOf(d) = Append(KeysOf(c), k)
    <2> DEFINE K == KeysOf(c)
    <2>1. K \in Seq(Keys) /\ Len(K) = n /\ DOMAIN K = 1..n /\ \A i \in 1..n : K[i] = s[i].key
      BY <1>1, CleanFacts DEF KeysOf
    <2>2. KeysOf(d) = [i \in 1..(n + 1) |-> r[i].key]
      BY <1>3, <1>6 DEF KeysOf
    <2> HIDE DEF K
    <2> DEFINE A == Append(K, k)
    <2>3. /\ A \in Seq(Keys) /\ Len(A) = n + 1
          /\ \A i \in 1..n : A[i] = K[i]
          /\ A[n + 1] = k
      BY <1>1, <2>1
    <2> HIDE DEF A
    <2>4. A = [i \in 1..(n + 1) |-> A[i]]
      BY <1>1, <2>3
    <2>5. \A i \in 1..(n + 1) : r[i].key = A[i]
      BY <1>2, <1>3, <1>8, <2>1, <2>3
    <2> QED
      BY <2>2, <2>4, <2>5 DEF K, A
  <1> QED
    BY <1>3, <1>6, <1>9, <1>10 DEF d, r, new

\* No second node has the head's key, so unmapping it harms nobody.
LEMMA RemoveHeadClean ==
    ASSUME NEW c, Clean(c), Once(KeysOf(c)), c.list # << >>
    PROVE  /\ Clean(RemoveHead(c))
           /\ RemoveHead(c).list = Tail(c.list)
           /\ KeysOf(RemoveHead(c)) = Tail(KeysOf(c))
           /\ Head(KeysOf(c)) = Head(c.list).key /\ KeysOf(c) # << >>
  <1> DEFINE s == c.list   n == Len(s)   k == Head(s).key   t == Tail(s)
             u == Unmap(t, {k})   d == RemoveHead(c)   K == KeysOf(c)
  <1>1. s \in Seq(Node) /\ n \in Nat /\ DOMAIN s = 1..n /\ \A i \in 1..n : s[i] \in Node
    BY CleanFacts
  <1>2. n # 0 /\ Head(s) = s[1] /\ 1 \in 1..n
    BY <1>1
  <1>3. /\ t \in Seq(Node) /\ DOMAIN t = 1..(n - 1)
        /\ \A i \in 1..(n - 1) : t[i] = s[i + 1] /\ i + 1 \in 1..n /\ i + 1 # 1
    BY <1>1, <1>2
  <1>4. K \in Seq(Keys) /\ Len(K) = n /\ DOMAIN K = 1..n /\ \A i \in 1..n : K[i] = s[i].key
    BY <1>1, CleanFacts DEF KeysOf
  <1>5. \A i \in 1..(n - 1) : t[i].key \notin {k} /\ t[i] \in Node /\ t[i].live = TRUE
    <2> HIDE DEF K, t, s
    <2>1. \A i \in 1..(n - 1) : t[i].key \notin {k}
      <3> SUFFICES ASSUME NEW i \in 1..(n - 1)
                   PROVE  t[i].key # k
        OBVIOUS
      <3>1. i + 1 \in 1..n /\ i + 1 # 1 /\ t[i].key = K[i + 1]
        BY <1>3, <1>4, Zenon
      <3>2. k = K[1] /\ 1 \in 1..n
        BY <1>2, <1>4
      <3>3. \A l, m \in 1..n : K[l] = K[m] => l = m
        BY <1>4, Zenon DEF Once, K
      <3> QED
        BY <3>1, <3>2, <3>3, Zenon
    <2>2. \A i \in 1..n : s[i].live
      BY <1>1 DEF Clean, s
    <2> QED
      BY <1>1, <1>3, <2>1, <2>2 DEF Node
  <1>6. u = t
    <2>1. \A i \in 1..(n - 1) :
              [t[i] EXCEPT !.live = t[i].live /\ t[i].key \notin {k}] = t[i]
      <3> HIDE DEF t, s, k
      <3> QED
        BY <1>5 DEF Node
    <2>2. u = [i \in 1..(n - 1) |-> [t[i] EXCEPT !.live = t[i].live /\ t[i].key \notin {k}]]
      BY <1>3 DEF Unmap
    <2>3. t = [i \in 1..(n - 1) |-> t[i]]
      BY <1>3
    <2> HIDE DEF t, u, k
    <2> QED
      BY <2>1, <2>2, <2>3
  <1>7. /\ d.list = t /\ d.lost = c.lost \ {k}
        /\ d.attached = (c.attached \/ n = 1)
        /\ d = [list |-> t, lost |-> c.lost \ {k}, attached |-> c.attached \/ n = 1]
    <2>1. d = [list |-> u, lost |-> c.lost \ {k}, attached |-> c.attached \/ n = 1]
      BY Zenon DEF RemoveHead
    <2> HIDE DEF d, t, u, k
    <2> QED
      BY <1>6, <2>1
  <1> HIDE DEF d, t, k
  <1>8. Clean(d)
    <2>1. c.lost = {} /\ c.attached
      BY DEF Clean
    <2>2. d \in Clocks
      BY <1>3, <1>7, <2>1 DEF Clocks, Node
    <2>3. \A i \in DOMAIN d.list : d.list[i].live
      BY <1>3, <1>5, <1>7
    <2> QED
      BY <1>7, <2>1, <2>2, <2>3 DEF Clean
  <1>9. KeysOf(d) = Tail(K)
    <2>1. KeysOf(d) = [i \in 1..(n - 1) |-> t[i].key]
      BY <1>3, <1>7 DEF KeysOf
    <2> DEFINE T == Tail(K)
    <2> HIDE DEF K
    <2>2. T \in Seq(Keys) /\ Len(T) = n - 1 /\ \A i \in 1..(n - 1) : T[i] = K[i + 1]
      BY <1>2, <1>4
    <2> HIDE DEF T
    <2>3. T = [i \in 1..(n - 1) |-> T[i]]
      BY <1>1, <1>2, <2>2
    <2>4. \A i \in 1..(n - 1) : t[i].key = T[i]
      BY <1>3, <1>4, <2>2
    <2> QED
      BY <2>1, <2>3, <2>4 DEF T
  <1>10. Head(K) = k /\ K # << >>
    <2> HIDE DEF K
    <2> QED
      BY <1>2, <1>4 DEF k
  <1> QED
    BY <1>7, <1>8, <1>9, <1>10 DEF d, t, k

\* A removal function that holds of one key at most unlinks the one node it
\* unmaps.
LEMMA RemoveAllClean ==
    ASSUME NEW c, Clean(c), Once(KeysOf(c)), NEW R, \A a, b \in R : a = b
    PROVE  /\ Clean(RemoveAll(c, R))
           /\ Thinner(KeysOf(RemoveAll(c, R)), KeysOf(c))
           /\ Len(RemoveAll(c, R).list) <= Len(c.list)
  <1> DEFINE s == c.list   n == Len(s)   K == KeysOf(c)
             hit(i) == s[i].key \in R
             unlinked == {i \in DOMAIN s :
                            \E m \in 1..i : /\ \A l \in m..i : hit(l)
                                            /\ m = 1 \/ ~hit(m - 1)
                                            /\ (i - m) % 2 = 0}
             visited == {s[i].key : i \in {l \in DOMAIN s : hit(l)}}
             keep == DOMAIN s \ unlinked
             u == Unmap(s, R)   r == Kept(u, keep)   d == RemoveAll(c, R)
  <1>1. s \in Seq(Node) /\ n \in Nat /\ DOMAIN s = 1..n /\ \A i \in 1..n : s[i] \in Node
    BY CleanFacts
  <1>2. K \in Seq(Keys) /\ Len(K) = n /\ DOMAIN K = 1..n /\ \A i \in 1..n : K[i] = s[i].key
    BY <1>1, CleanFacts DEF KeysOf
  <1>3. CASE s = << >>
    <2>1. d = c
      BY <1>3 DEF RemoveAll
    <2>2. Thinner(K, K)
      BY <1>1, <1>2 DEF Thinner
    <2> QED
      BY <1>1, <2>1, <2>2
  <1>4. CASE s # << >>
    <2>1. \A i, j \in 1..n : hit(i) /\ hit(j) => i = j
      BY <1>2 DEF Once
    <2>2. \A i \in 1..n : i \in unlinked <=> hit(i)
      <3> SUFFICES ASSUME NEW i \in 1..n
                   PROVE  i \in unlinked <=> hit(i)
        OBVIOUS
      <3> HIDE DEF hit
      <3>1. i \in unlinked => hit(i)
        <4>1. \A m \in 1..i : i \in m..i
          OBVIOUS
        <4> QED
          BY <4>1
      <3>2. ASSUME hit(i) PROVE i \in unlinked
        <4>1. i \in 1..i /\ (i - i) % 2 = 0 /\ \A l \in i..i : l = i
          OBVIOUS
        <4>2. i = 1 \/ ~hit(i - 1)
          BY <1>1, <2>1, <3>2
        <4>3. \A l \in i..i : hit(l)
          BY <3>2, <4>1
        <4> QED
          BY <1>1, <4>1, <4>2, <4>3
      <3> QED
        BY <3>1, <3>2
    <2>3. d = [list |-> r, lost |-> c.lost \ visited,
               attached |-> IF hit(n) THEN n - 1 \notin unlinked ELSE c.attached]
      BY <1>4, Zenon DEF RemoveAll
    <2>4. n \in 1..n /\ n - 1 # n
      BY <1>1, <1>4
    <2>5. unlinked \subseteq 1..n
      BY <1>1
    <2>6. (IF hit(n) THEN n - 1 \notin unlinked ELSE c.attached) = TRUE
      <3>1. c.attached = TRUE
        BY DEF Clean, Clocks
      <3> HIDE DEF unlinked, hit
      <3> QED
        BY <2>1, <2>2, <2>4, <2>5, <3>1
    <2>7. c.lost \ visited = {}
      BY DEF Clean
    <2> HIDE DEF unlinked, visited
    <2>8. /\ keep \in SUBSET (1..n)
          /\ \A i \in keep : ~hit(i)
      BY <1>1, <2>2
    <2>9. u = [i \in 1..n |-> [s[i] EXCEPT !.live = s[i].live /\ s[i].key \notin R]]
      BY <1>1 DEF Unmap
    <2>10. \A i \in 1..n : u[i] \in Node /\ u[i].key = s[i].key
      <3> SUFFICES ASSUME NEW i \in 1..n
                   PROVE  u[i] \in Node /\ u[i].key = s[i].key
        OBVIOUS
      <3>1. s[i] \in Node /\ u[i] = [s[i] EXCEPT !.live = s[i].live /\ s[i].key \notin R]
        BY <1>1, <2>9
      <3> HIDE DEF u, s
      <3> QED
        BY <3>1 DEF Node
    <2>11. u \in Seq(Node) /\ DOMAIN u = 1..n /\ Len(u) = n
      <3>1. u \in [1..n -> Node]
        BY <2>9, <2>10
      <3> HIDE DEF u
      <3> QED
        BY <1>1, <3>1
    <2>12. \A i \in keep : u[i].live = TRUE
      <3>1. \A i \in 1..n : s[i].live = TRUE
        BY <1>1 DEF Clean, Node
      <3>2. \A i \in 1..n : u[i].live = (s[i].live /\ s[i].key \notin R)
        BY <1>1, <2>9 DEF Node
      <3> HIDE DEF u, keep, s
      <3> QED
        BY <2>8, <3>1, <3>2
    <2> HIDE DEF u, keep
    <2> DEFINE N == Cardinality(keep)
    <2>0. u \in Seq(Node) /\ keep \in SUBSET DOMAIN u
      BY <2>8, <2>11
    <2>13. r \in Seq(Node) /\ Len(r) = N /\ N \in Nat /\ N <= n
      <3>1. Kept(u, keep) \in Seq(Node)
        BY <2>0, KeptFrom
      <3>2. Len(Kept(u, keep)) = Cardinality(keep)
        BY <2>0, KeptFrom
      <3>3. Cardinality(keep) \in Nat /\ Cardinality(keep) <= Len(u)
        BY <2>0, KeptFrom
      <3> QED
        BY <2>11, <3>1, <3>2, <3>3
    <2>14. PICK at \in [1..N -> keep] :
              /\ \A j \in 1..N : r[j] = u[at[j]]
              /\ \A j, k \in 1..N : at[j] = at[k] => j = k
      <3>1. \E at \in [1..Cardinality(keep) -> keep] :
                /\ \A j \in 1..Cardinality(keep) : Kept(u, keep)[j] = u[at[j]]
                /\ \A j, k \in 1..Cardinality(keep) : at[j] = at[k] => j = k
        BY <2>0, KeptFrom
      <3> QED
        BY <3>1, Zenon
    <2>15. DOMAIN r = 1..N
      BY <2>13
    <2> HIDE DEF r, N, d
    <2>16. d = [list |-> r, lost |-> {}, attached |-> TRUE]
      BY <2>3, <2>6, <2>7
    <2>17. d.list = r /\ d.lost = {} /\ d.attached = TRUE
      BY <2>16
    <2>18. Clean(d)
      <3>1. d \in Clocks
        BY <2>13, <2>16 DEF Clocks, Node
      <3>2. \A i \in DOMAIN d.list : d.list[i].live = TRUE
        BY <2>12, <2>14, <2>15, <2>17
      <3> QED
        BY <2>17, <3>1, <3>2 DEF Clean
    <2>19. /\ DOMAIN KeysOf(d) = 1..N /\ KeysOf(d) \in Seq(Keys) /\ Len(KeysOf(d)) = N
           /\ \A j \in 1..N : KeysOf(d)[j] = K[at[j]] /\ at[j] \in 1..n
      <3>1. KeysOf(d) = [j \in 1..N |-> r[j].key]
        BY <2>15, <2>17 DEF KeysOf
      <3>2. KeysOf(d) \in Seq(Keys) /\ Len(KeysOf(d)) = N
        BY <2>13, <2>17, <2>18, CleanFacts
      <3>3. \A j \in 1..N : r[j].key = K[at[j]] /\ at[j] \in 1..n
        BY <1>2, <2>8, <2>10, <2>14
      <3> QED
        BY <3>1, <3>2, <3>3
    <2> DEFINE L == KeysOf(d)
    <2> HIDE DEF L, K
    <2>20. Once(L)
      <3>1. Once(K)
        BY DEF K
      <3> QED
        BY <1>2, <2>14, <2>19, <3>1 DEF Once, L
    <2>21. Elems(L) \subseteq Elems(K)
      BY <1>2, <2>19 DEF Elems, L
    <2>22. Thinner(L, K)
      BY <1>2, <2>13, <2>19, <2>20, <2>21 DEF Thinner, L
    <2> QED
      BY <2>13, <2>17, <2>18, <2>22 DEF L, K, d
  <1> QED
    BY <1>3, <1>4

-----------------------------------------------------------------------------
(* The invariant.                                                          *)

\* What the invariant says in the words of the code.
LEMMA CarFacts ==
    ASSUME CarInv
    PROVE  /\ Size(T1) = Len(T1.list) /\ Size(T2) = Len(T2.list)
           /\ ClockKeys(T1) = Elems(KeysOf(T1)) /\ ClockKeys(T2) = Elems(KeysOf(T2))
           /\ \A b, k : Contains(b, k) <=> k \in Elems(b)
           /\ Len(T1.list) \in Nat /\ Len(T2.list) \in Nat
           /\ Len(B1) \in Nat /\ Len(B2) \in Nat
           /\ KeysOf(T1) \in Seq(Keys) /\ KeysOf(T2) \in Seq(Keys)
           /\ Len(KeysOf(T1)) = Len(T1.list) /\ Len(KeysOf(T2)) = Len(T2.list)
           /\ MaxSize \in Nat /\ MaxSize > 0
  <1>1. Clean(T1) /\ Clean(T2) /\ Once(KeysOf(T1)) /\ Once(KeysOf(T2))
    BY DEF CarInv, ClocksClean, ListsApart
  <1>2. /\ Size(T1) = Len(T1.list) /\ Size(T2) = Len(T2.list)
        /\ ClockKeys(T1) = Elems(KeysOf(T1)) /\ ClockKeys(T2) = Elems(KeysOf(T2))
        /\ KeysOf(T1) \in Seq(Keys) /\ KeysOf(T2) \in Seq(Keys)
        /\ Len(KeysOf(T1)) = Len(T1.list) /\ Len(KeysOf(T2)) = Len(T2.list)
    BY <1>1, CleanFacts
  <1>3. \A b, k : Contains(b, k) <=> k \in Elems(b)
    BY DEF Contains, Elems
  <1>4. T1.list \in Seq(Node) /\ T2.list \in Seq(Node) /\ B1 \in Seq(Keys) /\ B2 \in Seq(Keys)
    BY <1>1, CleanFacts DEF CarInv, TypeOK
  <1>5. Len(T1.list) \in Nat /\ Len(T2.list) \in Nat /\ Len(B1) \in Nat /\ Len(B2) \in Nat
    BY <1>4
  <1> QED
    BY <1>2, <1>3, <1>5, CacheAssumption

LEMMA SizesAreNat ==
    ASSUME CarInv
    PROVE  /\ Len(T1.list) \in Nat /\ Len(T2.list) \in Nat
           /\ Len(B1) \in Nat /\ Len(B2) \in Nat /\ MaxSize \in Nat
  BY CarFacts

\* A hit changes a reference bit only.
LEMMA HitKeeps ==
    ASSUME CarInv, NEW k \in Keys, Hit(k)
    PROVE  CarInv'
  <1>1. Clean(T1) /\ Clean(T2)
    BY DEF CarInv, ClocksClean
  <1>2. Clean(T1') /\ KeysOf(T1') = KeysOf(T1) /\ Len(T1'.list) = Len(T1.list)
    BY <1>1, SetReferenceClean DEF Hit
  <1>3. Clean(T2') /\ KeysOf(T2') = KeysOf(T2) /\ Len(T2'.list) = Len(T2.list)
    BY <1>1, SetReferenceClean DEF Hit
  <1>4. UNCHANGED <<B1, B2, p, step, key>>
    BY DEF Hit
  <1>5. TypeOK'
    BY <1>2, <1>3, <1>4 DEF TypeOK, CarInv, Clean
  <1>6. ListsApart' /\ KeyMissed'
    BY <1>2, <1>3, <1>4 DEF ListsApart, KeyMissed, CarInv
  <1>7. Sizes'
    BY <1>2, <1>3, <1>4 DEF Sizes, CarInv, isXInB
  <1> QED
    BY <1>2, <1>3, <1>4, <1>5, <1>6, <1>7 DEF CarInv, ClocksClean, NeverPanics

LEMMA MissKeeps ==
    ASSUME CarInv, NEW k \in Keys, Miss(k)
    PROVE  CarInv'
  <1>1. /\ UNCHANGED <<T1, T2, B1, B2, p>> /\ key' = k /\ step = "idle"
        /\ step' = IF Full THEN "replace" ELSE "insert"
        /\ k \notin ClockKeys(T1) \cup ClockKeys(T2)
    BY DEF Miss
  <1>2. TypeOK' /\ ClocksClean' /\ ListsApart' /\ NeverPanics'
    BY <1>1 DEF CarInv, TypeOK, ClocksClean, ListsApart, NeverPanics
  <1>3. KeyMissed'
    BY <1>1, CarFacts DEF KeyMissed
  <1>4. Sizes'
    <2>1. /\ Len(T1.list) + Len(T2.list) <= MaxSize
          /\ Len(B1) + Len(B2) <= MaxSize
      BY <1>1 DEF CarInv, Sizes
    <2>0. Full <=> Len(T1.list) + Len(T2.list) >= MaxSize
      BY CarFacts, Zenon DEF Full
    <2>2. step' = "replace" => Len(T1.list) + Len(T2.list) = MaxSize
      <3>1. step' = "replace" => Full
        BY <1>1
      <3>2. \A a, b, m \in Nat : a + b <= m /\ a + b >= m => a + b = m
        OBVIOUS
      <3> QED
        BY <2>0, <2>1, <3>1, <3>2, CarFacts, Zenon
    <2>3. step' = "insert" => Len(T1.list) + Len(T2.list) < MaxSize
      <3>1. step' = "insert" => ~Full
        BY <1>1
      <3>2. \A a, b, m \in Nat : ~(a + b >= m) => a + b < m
        OBVIOUS
      <3> QED
        BY <2>0, <3>1, <3>2, CarFacts, Zenon
    <2>4. Len(B1) + Len(B2) <= MaxSize + 1
      BY <2>1, SizesAreNat
    <2> QED
      BY <1>1, <2>1, <2>2, <2>3, <2>4 DEF Sizes
  <1> QED
    BY <1>2, <1>3, <1>4 DEF CarInv

\* A pass of replace that evicts nothing, and one that does.
LEMMA RoundSizes ==
    ASSUME CarInv, step = "replace", UNCHANGED <<B1, B2, step>>,
           Len(T1'.list) + Len(T2'.list) = Len(T1.list) + Len(T2.list)
    PROVE  Sizes'
  <1>1. Len(T1.list) + Len(T2.list) = MaxSize /\ Len(B1) + Len(B2) <= MaxSize
    BY DEF CarInv, Sizes
  <1>2. Len(T1'.list) + Len(T2'.list) = MaxSize /\ Len(B1') + Len(B2') <= MaxSize
    BY <1>1, Zenon
  <1>3. MaxSize <= MaxSize /\ Len(B1') + Len(B2') <= MaxSize + 1
    BY <1>1, SizesAreNat
  <1> QED
    BY <1>2, <1>3 DEF Sizes

LEMMA EvictSizes ==
    ASSUME CarInv, step = "replace", step' = "trim",
           Len(T1'.list) + Len(T2'.list) = (Len(T1.list) + Len(T2.list)) - 1,
           Len(B1') + Len(B2') = Len(B1) + Len(B2) + 1
    PROVE  Sizes'
  <1>1. Len(T1.list) + Len(T2.list) = MaxSize /\ Len(B1) + Len(B2) <= MaxSize
    BY DEF CarInv, Sizes
  <1>2. Len(T1'.list) + Len(T2'.list) = MaxSize - 1
    <2>1. (Len(T1.list) + Len(T2.list)) - 1 = MaxSize - 1
      BY <1>1
    <2> QED
      BY <2>1
  <1>3. /\ (Len(T1'.list) + Len(T2'.list)) + 1 = MaxSize
        /\ Len(T1'.list) + Len(T2'.list) <= MaxSize
    <2>1. MaxSize \in Nat /\ \A m \in Nat : (m - 1) + 1 = m /\ m - 1 <= m
      BY CacheAssumption
    <2> QED
      BY <1>2, <2>1, Zenon
  <1>4. Len(B1') + Len(B2') <= MaxSize + 1
    <2> DEFINE b == Len(B1) + Len(B2)
    <2>1. b \in Nat /\ b <= MaxSize /\ MaxSize \in Nat
      BY <1>1, SizesAreNat
    <2>2. b + 1 <= MaxSize + 1
      <3> HIDE DEF b
      <3> QED
        BY <2>1
    <2> QED
      BY <2>2, Zenon
  <1> QED
    BY <1>3, <1>4 DEF Sizes

\* What is left of a clock without its head.
LEMMA HeadLeaves ==
    ASSUME NEW c, Clean(c), Once(KeysOf(c)), c.list # << >>
    PROVE  LET d == RemoveHead(c)
               k == Head(c.list).key
           IN  /\ Clean(d) /\ Once(KeysOf(d)) /\ KeysOf(d) \in Seq(Keys)
               /\ Len(d.list) = Len(c.list) - 1 /\ Len(c.list) \in Nat
               /\ k \in Keys /\ k \in Elems(KeysOf(c)) /\ k \notin Elems(KeysOf(d))
               /\ Elems(KeysOf(d)) \subseteq Elems(KeysOf(c))
  <1> DEFINE d == RemoveHead(c)   k == Head(c.list).key   K == KeysOf(c)
  <1>1. /\ Clean(d) /\ d.list = Tail(c.list) /\ KeysOf(d) = Tail(K)
        /\ Head(K) = k /\ K # << >>
    BY RemoveHeadClean
  <1>2. c.list \in Seq(Node) /\ K \in Seq(Keys)
    BY CleanFacts
  <1> HIDE DEF d, k, K
  <1>3. Len(d.list) = Len(c.list) - 1 /\ Len(c.list) \in Nat
    BY <1>1, <1>2
  <1>4. /\ Tail(K) \in Seq(Keys) /\ Thinner(Tail(K), K) /\ Head(K) \in Elems(K)
        /\ Once(K) => Head(K) \notin Elems(Tail(K))
    BY <1>1, <1>2, TailThinner
  <1>5. Once(K)
    BY DEF K
  <1>6. Elems(K) \subseteq Keys
    BY <1>2 DEF Elems
  <1> QED
    BY <1>1, <1>3, <1>4, <1>5, <1>6 DEF Thinner, d, k, K

LEMMA ReplaceT1Keeps ==
    ASSUME CarInv, ReplaceT1
    PROVE  CarInv'
  <1> DEFINE k == Head(T1.list).key   d == RemoveHead(T1)
  <1>1. /\ Clean(T1) /\ Clean(T2) /\ Once(KeysOf(T1)) /\ Once(KeysOf(T2)) /\ Once(B1) /\ Once(B2)
        /\ B1 \in Seq(Keys) /\ step = "replace" /\ FromT1
    BY DEF CarInv, ClocksClean, ListsApart, TypeOK, ReplaceT1
  <1>2. T1.list # << >>
    <2>1. Len(T1.list) >= 1
      BY <1>1, CarFacts DEF FromT1, Larger, CarInv, TypeOK
    <2> QED
      BY <2>1
  <1>3. /\ Clean(d) /\ Once(KeysOf(d)) /\ KeysOf(d) \in Seq(Keys)
        /\ Len(d.list) = Len(T1.list) - 1
        /\ k \in Keys /\ k \in Elems(KeysOf(T1)) /\ k \notin Elems(KeysOf(d))
        /\ Elems(KeysOf(d)) \subseteq Elems(KeysOf(T1))
    BY <1>1, <1>2, HeadLeaves
  <1>4. k \notin Elems(KeysOf(T2)) /\ k \notin Elems(B1) /\ k \notin Elems(B2)
    BY <1>3 DEF CarInv, ListsApart
  <1>5. k \notin ClockKeys(T2) /\ ~Contains(B1, k)
    BY <1>4, CarFacts
  <1>6. CASE /\ T1' = RemoveHead(T1) /\ T2' = AddTail(T2, k)
             /\ UNCHANGED <<B1, B2, p, step, key>>
    <2>1. /\ Clean(T2') /\ KeysOf(T2') = Append(KeysOf(T2), k)
          /\ Len(T2'.list) = Len(T2.list) + 1
      BY <1>1, <1>3, <1>6, AddTailClean
    <2>2. Once(KeysOf(T2')) /\ Elems(KeysOf(T2')) = Elems(KeysOf(T2)) \cup {k}
      BY <1>1, <1>3, <1>4, <2>1, AppendWider, CarFacts DEF Wider
    <2>3. TypeOK' /\ ClocksClean' /\ NeverPanics'
      BY <1>1, <1>3, <1>6, <2>1 DEF CarInv, TypeOK, ClocksClean, NeverPanics, Clean
    <2>4. ListsApart'
      BY <1>3, <1>4, <1>6, <2>2 DEF CarInv, ListsApart
    <2>5. KeyMissed'
      BY <1>3, <1>6, <2>2 DEF CarInv, KeyMissed
    <2>6. Sizes'
      <3>1. Len(T1'.list) = Len(T1.list) - 1
        BY <1>3, <1>6
      <3>2. Len(T1'.list) + Len(T2'.list) = Len(T1.list) + Len(T2.list)
        <4>1. Len(T1.list) \in Nat /\ Len(T2.list) \in Nat
          BY SizesAreNat
        <4>2. \A a, b \in Nat : (a - 1) + (b + 1) = a + b
          OBVIOUS
        <4> QED
          BY <2>1, <3>1, <4>1, <4>2, Zenon
      <3> QED
        BY <1>1, <1>6, <3>2, RoundSizes
    <2> QED
      BY <2>3, <2>4, <2>5, <2>6 DEF CarInv
  <1>7. CASE /\ T1' = RemoveHead(T1) /\ B1' = AddMRU(B1, k) /\ step' = "trim"
             /\ UNCHANGED <<T2, B2, p, key>>
    <2>1. /\ B1' \in Seq(Keys) /\ Len(B1') = Len(B1) + 1 /\ Once(B1')
          /\ Elems(B1') = Elems(B1) \cup {k}
      BY <1>1, <1>3, <1>4, <1>7, AddMRUWider DEF Wider
    <2>2. TypeOK' /\ ClocksClean' /\ NeverPanics'
      BY <1>1, <1>3, <1>7, <2>1 DEF CarInv, TypeOK, ClocksClean, NeverPanics, Clean
    <2>3. ListsApart'
      BY <1>3, <1>4, <1>7, <2>1 DEF CarInv, ListsApart
    <2>4. KeyMissed'
      BY <1>1, <1>3, <1>7 DEF CarInv, KeyMissed
    <2>5. Sizes'
      <3>1. Len(T1'.list) = Len(T1.list) - 1 /\ T2' = T2 /\ B2' = B2
        BY <1>3, <1>7
      <3>2. Len(T1'.list) + Len(T2'.list) = (Len(T1.list) + Len(T2.list)) - 1
        BY <3>1, SizesAreNat
      <3>3. Len(B1') + Len(B2') = Len(B1) + Len(B2) + 1
        BY <2>1, <3>1, SizesAreNat
      <3> QED
        BY <1>1, <1>7, <3>2, <3>3, EvictSizes
    <2> QED
      BY <2>2, <2>3, <2>4, <2>5 DEF CarInv
  <1> QED
    BY <1>2, <1>5, <1>6, <1>7 DEF ReplaceT1

\* T2 has a head whenever T1 is not the clock to turn: p is at most MaxSize.
LEMMA ReplaceT2Keeps ==
    ASSUME CarInv, ReplaceT2
    PROVE  CarInv'
  <1> DEFINE k == Head(T2.list).key   d == RemoveHead(T2)
  <1>1. /\ Clean(T1) /\ Clean(T2) /\ Once(KeysOf(T1)) /\ Once(KeysOf(T2)) /\ Once(B1) /\ Once(B2)
        /\ B2 \in Seq(Keys) /\ step = "replace" /\ ~FromT1 /\ p \in 0..MaxSize
    BY DEF CarInv, ClocksClean, ListsApart, TypeOK, ReplaceT2
  <1>2. T2.list # << >>
    <2>1. Len(T1.list) + Len(T2.list) = MaxSize
      BY <1>1 DEF CarInv, Sizes
    <2>2. ~(Len(T1.list) >= Larger(1, p))
      BY <1>1, CarFacts, Zenon DEF FromT1
    <2>3. Larger(1, p) <= MaxSize
      BY <1>1, CacheAssumption DEF Larger
    <2>4. Len(T2.list) # 0
      <3>1. \A a, b, m, l \in Nat : a + b = m /\ ~(a >= l) /\ l <= m => b # 0
        OBVIOUS
      <3>2. Larger(1, p) \in Nat /\ MaxSize \in Nat
        BY <1>1, CacheAssumption DEF Larger
      <3>3. Len(T1.list) \in Nat /\ Len(T2.list) \in Nat
        BY SizesAreNat
      <3> QED
        BY <2>1, <2>2, <2>3, <3>1, <3>2, <3>3, Zenon
    <2> QED
      BY <2>4
  <1>3. /\ Clean(d) /\ Once(KeysOf(d)) /\ KeysOf(d) \in Seq(Keys)
        /\ Len(d.list) = Len(T2.list) - 1
        /\ k \in Keys /\ k \in Elems(KeysOf(T2)) /\ k \notin Elems(KeysOf(d))
        /\ Elems(KeysOf(d)) \subseteq Elems(KeysOf(T2))
    BY <1>1, <1>2, HeadLeaves
  <1>4. k \notin Elems(KeysOf(T1)) /\ k \notin Elems(B1) /\ k \notin Elems(B2)
    BY <1>3 DEF CarInv, ListsApart
  <1>5. ~Contains(B2, k)
    BY <1>4, CarFacts
  <1>6. CASE T2' = AddTail(d, k) /\ UNCHANGED <<T1, B1, B2, p, step, key>>
    <2>1. /\ Clean(T2') /\ KeysOf(T2') = Append(KeysOf(d), k)
          /\ Len(T2'.list) = Len(d.list) + 1
      BY <1>3, <1>6, AddTailClean
    <2>2. Once(KeysOf(T2')) /\ Elems(KeysOf(T2')) = Elems(KeysOf(d)) \cup {k}
      BY <1>3, <2>1, AppendWider DEF Wider
    <2>3. TypeOK' /\ ClocksClean' /\ NeverPanics'
      BY <1>1, <1>6, <2>1 DEF CarInv, TypeOK, ClocksClean, NeverPanics, Clean
    <2>4. ListsApart'
      BY <1>3, <1>4, <1>6, <2>2 DEF CarInv, ListsApart
    <2>5. KeyMissed'
      BY <1>3, <1>6, <2>2 DEF CarInv, KeyMissed
    <2>6. Sizes'
      <3>1. Len(T2'.list) = Len(T2.list) /\ T1' = T1
        BY <1>3, <1>6, <2>1, SizesAreNat
      <3> QED
        BY <1>1, <1>6, <3>1, RoundSizes
    <2> QED
      BY <2>3, <2>4, <2>5, <2>6 DEF CarInv
  <1>7. CASE /\ T2' = d /\ B2' = AddMRU(B2, k) /\ step' = "trim"
             /\ UNCHANGED <<T1, B1, p, key>>
    <2>1. /\ B2' \in Seq(Keys) /\ Len(B2') = Len(B2) + 1 /\ Once(B2')
          /\ Elems(B2') = Elems(B2) \cup {k}
      BY <1>1, <1>3, <1>4, <1>7, AddMRUWider DEF Wider
    <2>2. TypeOK' /\ ClocksClean' /\ NeverPanics'
      BY <1>1, <1>3, <1>7, <2>1 DEF CarInv, TypeOK, ClocksClean, NeverPanics, Clean
    <2>3. ListsApart'
      BY <1>3, <1>4, <1>7, <2>1 DEF CarInv, ListsApart
    <2>4. KeyMissed'
      BY <1>1, <1>3, <1>7 DEF CarInv, KeyMissed
    <2>5. Sizes'
      <3>1. Len(T2'.list) = Len(T2.list) - 1 /\ T1' = T1 /\ B1' = B1
        BY <1>3, <1>7
      <3>2. Len(T1'.list) + Len(T2'.list) = (Len(T1.list) + Len(T2.list)) - 1
        BY <3>1, SizesAreNat
      <3>3. Len(B1') + Len(B2') = Len(B1) + Len(B2) + 1
        BY <2>1, <3>1, SizesAreNat
      <3> QED
        BY <1>1, <1>7, <3>2, <3>3, EvictSizes
    <2> QED
      BY <2>2, <2>3, <2>4, <2>5 DEF CarInv
  <1> QED
    BY <1>2, <1>5, <1>6, <1>7 DEF ReplaceT2

\* The key that replace put into a ghost list too many goes again, unless the
\* new key is in one and will leave it.
LEMMA TrimKeeps ==
    ASSUME CarInv, Trim
    PROVE  CarInv'
  <1> DEFINE t1 == Len(T1.list)   t2 == Len(T2.list)   b1 == Len(B1)   b2 == Len(B2)
  <1>1. /\ UNCHANGED <<T1, T2, p, key>> /\ step = "trim" /\ step' = "insert"
        /\ B1 \in Seq(Keys) /\ B2 \in Seq(Keys)
    BY DEF Trim, CarInv, TypeOK
  <1>2. /\ t1 \in Nat /\ t2 \in Nat /\ b1 \in Nat /\ b2 \in Nat /\ MaxSize \in Nat
        /\ (t1 + t2) + 1 = MaxSize /\ b1 + b2 <= MaxSize + 1
    <2>1. (t1 + t2) + 1 = MaxSize /\ b1 + b2 <= MaxSize + 1
      BY <1>1 DEF CarInv, Sizes
    <2> QED
      BY <2>1, SizesAreNat
  <1> HIDE DEF t1, t2, b1, b2
  <1>3. t1 + t2 <= MaxSize /\ t1 + t2 < MaxSize
    BY <1>2
  <1>4. ASSUME B1' \in Seq(Keys), B2' \in Seq(Keys), Once(B1'), Once(B2'),
               Elems(B1') \subseteq Elems(B1), Elems(B2') \subseteq Elems(B2), Sizes'
        PROVE  CarInv'
    <2>1. TypeOK' /\ ClocksClean' /\ NeverPanics' /\ KeyMissed'
      BY <1>1, <1>4 DEF CarInv, TypeOK, ClocksClean, NeverPanics, KeyMissed
    <2>2. ListsApart'
      BY <1>1, <1>4 DEF CarInv, ListsApart
    <2> QED
      BY <1>4, <2>1, <2>2 DEF CarInv
  <1>5. Once(B1) /\ Once(B2)
    BY DEF CarInv, ListsApart
  <1>6. CASE isXInB(key) /\ UNCHANGED <<B1, B2>>
    <2>1. isXInB(key)'
      BY <1>1, <1>6 DEF isXInB
    <2>2. Sizes'
      BY <1>1, <1>2, <1>3, <1>6, <2>1 DEF Sizes, t1, t2, b1, b2
    <2> QED
      BY <1>1, <1>4, <1>5, <1>6, <2>2
  <1>7. ASSUME NEW b \in Int, b <= MaxSize, Len(B1') + Len(B2') = b
        PROVE  Sizes'
    <2>1. b <= MaxSize + 1
      BY <1>2, <1>7
    <2> QED
      BY <1>1, <1>3, <1>7, <2>1 DEF Sizes, t1, t2
  <1>8. CASE Size(T1) + Len(B1) >= MaxSize /\ B1' = RemoveLRU(B1) /\ UNCHANGED B2
    <2>1. t1 + b1 >= MaxSize
      BY <1>8, CarFacts, Zenon DEF t1, b1
    <2>2. b1 # 0
      BY <1>2, <2>1
    <2>3. B1 # << >>
      BY <2>2 DEF b1
    <2>4. B1' \in Seq(Keys) /\ Thinner(B1', B1) /\ Len(B1') = b1 - 1
      BY <1>1, <1>8, <2>3, RemoveLRUThinner DEF b1
    <2>5. (b1 - 1) + b2 <= MaxSize /\ (b1 - 1) + b2 \in Int
      BY <1>2
    <2>6. Len(B1') + Len(B2') = (b1 - 1) + b2
      BY <1>8, <2>4 DEF b2
    <2>7. Sizes'
      BY <1>7, <2>5, <2>6
    <2> QED
      BY <1>1, <1>4, <1>5, <1>8, <2>4, <2>7 DEF Thinner
  <1>9. CASE /\ Size(T1) + Len(B1) < MaxSize /\ UNCHANGED B1
             /\ B2' = IF AllKeysFull THEN RemoveLRU(B2) ELSE B2
    <2>1. t1 + b1 < MaxSize /\ (AllKeysFull <=> t1 + t2 + b1 + b2 >= 2 * MaxSize)
      BY <1>9, CarFacts, Zenon DEF AllKeysFull, t1, t2, b1, b2
    <2>2. CASE AllKeysFull
      <3>1. b2 # 0
        BY <1>2, <2>1, <2>2
      <3>2. B2 # << >>
        BY <3>1 DEF b2
      <3>3. B2' \in Seq(Keys) /\ Thinner(B2', B2) /\ Len(B2') = b2 - 1
        BY <1>1, <1>9, <2>2, <3>2, RemoveLRUThinner DEF b2
      <3>4. b1 + (b2 - 1) <= MaxSize /\ b1 + (b2 - 1) \in Int
        BY <1>2
      <3>5. Len(B1') + Len(B2') = b1 + (b2 - 1)
        BY <1>9, <3>3 DEF b1
      <3>6. Sizes'
        BY <1>7, <3>4, <3>5
      <3> QED
        BY <1>1, <1>4, <1>5, <1>9, <3>3, <3>6 DEF Thinner
    <2>3. CASE ~AllKeysFull
      <3>1. b1 + b2 <= MaxSize /\ b1 + b2 \in Int
        BY <1>2, <2>1, <2>3
      <3>2. Len(B1') + Len(B2') = b1 + b2
        BY <1>9, <2>3 DEF b1, b2
      <3>3. Sizes'
        BY <1>7, <3>1, <3>2
      <3> QED
        BY <1>1, <1>4, <1>5, <1>9, <2>3, <3>3
    <2> QED
      BY <2>2, <2>3
  <1> QED
    BY <1>6, <1>8, <1>9 DEF Trim

\* T1's share stays between nothing and everything.
LEMMA TargetInRange ==
    ASSUME p \in 0..MaxSize, NEW b1 \in Nat, NEW b2 \in Nat
    PROVE  /\ b1 > 0 => Grown(b1, b2) \in 0..MaxSize
           /\ b2 > 0 => Shrunk(b1, b2) \in 0..MaxSize
  <1>1. \A a, b \in Nat : b > 0 => a \div b \in Nat
    OBVIOUS
  <1>2. ASSUME NEW q \in Nat
        PROVE  /\ Smaller(p + Larger(1, q), MaxSize) \in 0..MaxSize
               /\ (IF p > Larger(1, q) THEN p - Larger(1, q) ELSE 0) \in 0..MaxSize
    BY CacheAssumption DEF Smaller, Larger
  <1>3. b1 > 0 => Grown(b1, b2) \in 0..MaxSize
    BY <1>1, <1>2, Zenon DEF Grown
  <1>4. b2 > 0 => Shrunk(b1, b2) \in 0..MaxSize
    BY <1>1, <1>2, Zenon DEF Shrunk
  <1> QED
    BY <1>3, <1>4

\* The sizes when Compute is done: a value more, and no ghost too many.
LEMMA InsertSizes ==
    ASSUME CarInv, step = "insert", step' = "idle",
           Len(T1'.list) + Len(T2'.list) = (Len(T1.list) + Len(T2.list)) + 1,
           NEW b \in Nat, Len(B1') + Len(B2') = b, b <= MaxSize
    PROVE  Sizes'
  <1>1. Len(T1.list) + Len(T2.list) < MaxSize
    BY DEF CarInv, Sizes
  <1>2. (Len(T1.list) + Len(T2.list)) + 1 <= MaxSize
    <2>1. \A a, c, m \in Nat : a + c < m => (a + c) + 1 <= m
      OBVIOUS
    <2>2. Len(T1.list) \in Nat /\ Len(T2.list) \in Nat /\ MaxSize \in Nat
      BY SizesAreNat
    <2> QED
      BY <1>1, <2>1, <2>2, Zenon
  <1>3. b <= MaxSize + 1
    BY CacheAssumption
  <1> QED
    BY <1>2, <1>3 DEF Sizes

LEMMA InsertKeeps ==
    ASSUME CarInv, Insert
    PROVE  CarInv'
  <1> DEFINE t1 == Len(T1.list)   t2 == Len(T2.list)   b1 == Len(B1)   b2 == Len(B2)
  <1>1. /\ step = "insert" /\ key' = NoKey /\ key \in Keys
        /\ key \notin Elems(KeysOf(T1)) /\ key \notin Elems(KeysOf(T2))
        /\ Clean(T1) /\ Clean(T2) /\ Once(KeysOf(T1)) /\ Once(KeysOf(T2))
        /\ KeysOf(T1) \in Seq(Keys) /\ KeysOf(T2) \in Seq(Keys)
        /\ B1 \in Seq(Keys) /\ B2 \in Seq(Keys) /\ p \in 0..MaxSize
        /\ Once(B1) /\ Once(B2)
    BY CarFacts DEF Insert, CarInv, KeyMissed, ClocksClean, ListsApart, TypeOK
  <1>2. /\ t1 \in Nat /\ t2 \in Nat /\ b1 \in Nat /\ b2 \in Nat /\ MaxSize \in Nat
    BY SizesAreNat
  <1>3. b1 + b2 <= MaxSize + 1
    BY <1>1 DEF CarInv, Sizes
  <1> HIDE DEF t1, t2, b1, b2
  <1>4. CASE /\ ~isXInB(key) /\ T1' = AddTail(T1, key) /\ step' = "idle"
             /\ UNCHANGED <<T2, B1, B2, p>>
    <2>1. key \notin Elems(B1) /\ key \notin Elems(B2)
      BY <1>4, CarFacts DEF isXInB
    <2>2. /\ Clean(T1') /\ KeysOf(T1') = Append(KeysOf(T1), key)
          /\ Len(T1'.list) = t1 + 1
      BY <1>1, <1>4, AddTailClean DEF t1
    <2>3. Once(KeysOf(T1')) /\ Elems(KeysOf(T1')) = Elems(KeysOf(T1)) \cup {key}
      BY <1>1, <2>2, AppendWider DEF Wider
    <2>4. TypeOK' /\ ClocksClean' /\ NeverPanics' /\ KeyMissed'
      BY <1>1, <1>4, <2>2 DEF CarInv, TypeOK, ClocksClean, NeverPanics, KeyMissed, Clean
    <2>5. ListsApart'
      BY <1>1, <1>4, <2>1, <2>3 DEF CarInv, ListsApart
    <2>6. Sizes'
      <3>1. b1 + b2 <= MaxSize /\ b1 + b2 \in Nat
        BY <1>1, <1>2, <1>4 DEF CarInv, Sizes, b1, b2
      <3>2. Len(T1'.list) + Len(T2'.list) = (t1 + t2) + 1
        <4>1. (t1 + 1) + t2 = (t1 + t2) + 1
          BY <1>2
        <4> QED
          BY <1>4, <2>2, <4>1 DEF t2
      <3>3. Len(B1') + Len(B2') = b1 + b2
        BY <1>4 DEF b1, b2
      <3> QED
        BY <1>1, <1>4, <3>1, <3>2, <3>3, InsertSizes DEF t1, t2
    <2> QED
      BY <2>4, <2>5, <2>6 DEF CarInv
  <1>5. ASSUME InsertT2, T1' = T1, p' \in 0..MaxSize,
               B1' \in Seq(Keys), B2' \in Seq(Keys), Thinner(B1', B1), Thinner(B2', B2),
               key \notin Elems(B1'), key \notin Elems(B2'),
               NEW b \in Nat, Len(B1') + Len(B2') = b, b <= MaxSize
        PROVE  CarInv'
    <2>1. key \notin ClockKeys(T2)
      BY <1>1, CarFacts
    <2>2. T2' = AddTail(T2, key) /\ step' = "idle"
      BY <1>5, <2>1 DEF InsertT2
    <2>3. /\ Clean(T2') /\ KeysOf(T2') = Append(KeysOf(T2), key)
          /\ Len(T2'.list) = t2 + 1
      BY <1>1, <2>2, AddTailClean DEF t2
    <2>4. Once(KeysOf(T2')) /\ Elems(KeysOf(T2')) = Elems(KeysOf(T2)) \cup {key}
      BY <1>1, <2>3, AppendWider DEF Wider
    <2>5. TypeOK' /\ ClocksClean' /\ NeverPanics' /\ KeyMissed'
      BY <1>1, <1>5, <2>2, <2>3 DEF CarInv, TypeOK, ClocksClean, NeverPanics, KeyMissed, Clean
    <2>6. ListsApart'
      <3>1. /\ Once(B1') /\ Once(B2')
            /\ Elems(B1') \subseteq Elems(B1) /\ Elems(B2') \subseteq Elems(B2)
        BY <1>1, <1>5 DEF Thinner
      <3> QED
        BY <1>1, <1>5, <2>4, <3>1 DEF CarInv, ListsApart
    <2>7. Sizes'
      <3>1. Len(T1'.list) + Len(T2'.list) = (t1 + t2) + 1
        <4>1. t1 + (t2 + 1) = (t1 + t2) + 1
          BY <1>2
        <4> QED
          BY <1>5, <2>3, <4>1 DEF t1
      <3> QED
        BY <1>1, <1>5, <2>2, <3>1, InsertSizes DEF t1, t2
    <2> QED
      BY <2>5, <2>6, <2>7 DEF CarInv
  <1>6. Thinner(B1, B1) /\ Thinner(B2, B2)
    BY <1>1 DEF Thinner
  <1>7. ASSUME NEW b \in Seq(Keys), key \in Elems(b)
        PROVE  /\ Forgotten(b) \in Seq(Keys) /\ Thinner(Forgotten(b), b)
               /\ key \notin Elems(Forgotten(b))
               /\ Len(Forgotten(b)) < Len(b) /\ Len(Forgotten(b)) \in Nat
    <2>1. Elems(b) \cap {key} # {}
      BY <1>7
    <2>2. /\ RemoveKeys(b, {key}) \in Seq(Keys) /\ Thinner(RemoveKeys(b, {key}), b)
          /\ Elems(RemoveKeys(b, {key})) \cap {key} = {}
          /\ Len(RemoveKeys(b, {key})) < Len(b)
      BY <2>1, RemoveKeysThinner
    <2>3. Len(RemoveKeys(b, {key})) \in Nat
      BY <2>2
    <2> QED
      BY <2>2, <2>3 DEF Forgotten
  <1>8. CASE /\ Contains(B1, key) /\ p' = Grown(b1, b2)
             /\ B1' = Forgotten(B1) /\ InsertT2 /\ UNCHANGED <<T1, B2>>
    <2>1. key \in Elems(B1) /\ key \notin Elems(B2)
      BY <1>8, CarFacts DEF CarInv, ListsApart
    <2>2. /\ B1' \in Seq(Keys) /\ Thinner(B1', B1) /\ key \notin Elems(B1')
          /\ Len(B1') < b1 /\ Len(B1') \in Nat
      BY <1>1, <1>7, <1>8, <2>1 DEF b1
    <2>3. b1 > 0 /\ Len(B1') + b2 <= MaxSize /\ Len(B1') + b2 \in Nat
      BY <1>2, <1>3, <2>2
    <2>4. p' \in 0..MaxSize
      BY <1>1, <1>2, <1>8, <2>3, TargetInRange
    <2>5. Len(B1') + Len(B2') = Len(B1') + b2
      BY <1>8 DEF b2
    <2> QED
      BY <1>1, <1>5, <1>6, <1>8, <2>1, <2>2, <2>3, <2>4, <2>5
  <1>9. CASE /\ Contains(B2, key) /\ p' = Shrunk(b1, b2)
             /\ B2' = Forgotten(B2) /\ InsertT2 /\ UNCHANGED <<T1, B1>>
    <2>1. key \in Elems(B2) /\ key \notin Elems(B1)
      BY <1>9, CarFacts DEF CarInv, ListsApart
    <2>2. /\ B2' \in Seq(Keys) /\ Thinner(B2', B2) /\ key \notin Elems(B2')
          /\ Len(B2') < b2 /\ Len(B2') \in Nat
      BY <1>1, <1>7, <1>9, <2>1 DEF b2
    <2>3. b2 > 0 /\ b1 + Len(B2') <= MaxSize /\ b1 + Len(B2') \in Nat
      BY <1>2, <1>3, <2>2
    <2>4. p' \in 0..MaxSize
      BY <1>1, <1>2, <1>9, <2>3, TargetInRange
    <2>5. Len(B1') + Len(B2') = b1 + Len(B2')
      BY <1>9 DEF b1
    <2> QED
      BY <1>1, <1>5, <1>6, <1>9, <2>1, <2>2, <2>3, <2>4, <2>5
  <1> QED
    BY <1>4, <1>8, <1>9 DEF Insert, b1, b2

\* The empty cache, of NewCARCache and of Clear.
LEMMA EmptySizes ==
    /\ Len(newCarClock.list) + Len(newCarClock.list) = 0 /\ Len(<< >>) + Len(<< >>) = 0
    /\ 0 <= MaxSize /\ 0 <= MaxSize + 1 /\ 0 \in 0..MaxSize
    /\ Once(<< >>) /\ Elems(<< >>) = {} /\ newCarClock \in Clocks
  <1>1. Once(<< >>) /\ Elems(<< >>) = {}
    BY DEF Once, Elems
  <1>2. newCarClock.list = << >> /\ newCarClock \in Clocks
    BY NewClock DEF Clean
  <1> QED
    BY <1>1, <1>2, CacheAssumption

LEMMA InitKeeps ==
    ASSUME Init
    PROVE  CarInv
  <1>1. TypeOK /\ ClocksClean /\ NeverPanics /\ KeyMissed
    BY NewClock, EmptySizes DEF Init, TypeOK, ClocksClean, NeverPanics, KeyMissed
  <1>2. ListsApart
    BY NewClock, EmptySizes DEF Init, ListsApart
  <1>3. Sizes
    BY EmptySizes DEF Init, Sizes
  <1> QED
    BY <1>1, <1>2, <1>3 DEF CarInv

LEMMA ClearKeeps ==
    ASSUME CarInv, Clear
    PROVE  CarInv'
  <1>1. TypeOK' /\ ClocksClean' /\ NeverPanics' /\ KeyMissed'
    BY NewClock, EmptySizes
    DEF Clear, CarInv, TypeOK, ClocksClean, NeverPanics, KeyMissed
  <1>2. ListsApart'
    BY NewClock, EmptySizes DEF Clear, ListsApart
  <1>3. Sizes'
    BY EmptySizes DEF Clear, Sizes
  <1> QED
    BY <1>1, <1>2, <1>3 DEF CarInv

\* Removal functions that hold of one key at most.
SingleRemovals == \A R \in Removals : \A a, b \in R : a = b

LEMMA RemoveKeeps ==
    ASSUME CarInv, NEW R, \A a, b \in R : a = b, Remove(R)
    PROVE  CarInv'
  <1>1. /\ step = "idle" /\ UNCHANGED <<p, step, key>>
        /\ T1' = RemoveAll(T1, R) /\ T2' = RemoveAll(T2, R)
        /\ B1' = RemoveKeys(B1, R) /\ B2' = RemoveKeys(B2, R)
    BY DEF Remove
  <1>2. /\ Clean(T1) /\ Clean(T2) /\ Once(KeysOf(T1)) /\ Once(KeysOf(T2))
        /\ B1 \in Seq(Keys) /\ B2 \in Seq(Keys) /\ Once(B1) /\ Once(B2)
    BY DEF CarInv, ClocksClean, ListsApart, TypeOK
  <1>3. /\ Clean(T1') /\ Thinner(KeysOf(T1'), KeysOf(T1)) /\ Len(T1'.list) <= Len(T1.list)
        /\ Clean(T2') /\ Thinner(KeysOf(T2'), KeysOf(T2)) /\ Len(T2'.list) <= Len(T2.list)
    BY <1>1, <1>2, RemoveAllClean
  <1>4. /\ B1' \in Seq(Keys) /\ Thinner(B1', B1)
        /\ B2' \in Seq(Keys) /\ Thinner(B2', B2)
    BY <1>1, <1>2, RemoveKeysThinner
  <1>5. TypeOK' /\ ClocksClean' /\ NeverPanics' /\ KeyMissed'
    BY <1>1, <1>3, <1>4 DEF CarInv, TypeOK, ClocksClean, NeverPanics, KeyMissed, Clean
  <1>6. ListsApart'
    BY <1>2, <1>3, <1>4 DEF CarInv, ListsApart, Thinner
  <1>7. Sizes'
    <2> DEFINE t1 == Len(T1.list)   t2 == Len(T2.list)   b1 == Len(B1)   b2 == Len(B2)
               u1 == Len(T1'.list)  u2 == Len(T2'.list)  d1 == Len(B1')  d2 == Len(B2')
    <2>1. t1 + t2 <= MaxSize /\ b1 + b2 <= MaxSize
      BY <1>1 DEF CarInv, Sizes
    <2>2. /\ t1 \in Nat /\ t2 \in Nat /\ b1 \in Nat /\ b2 \in Nat /\ MaxSize \in Nat
      BY SizesAreNat
    <2>3. /\ u1 \in Nat /\ u2 \in Nat /\ d1 \in Nat /\ d2 \in Nat
      <3>1. T1'.list \in Seq(Node) /\ T2'.list \in Seq(Node)
        BY <1>3, CleanFacts
      <3> QED
        BY <1>4, <3>1
    <2>4. u1 <= t1 /\ u2 <= t2 /\ d1 <= b1 /\ d2 <= b2
      BY <1>3, <1>4 DEF Thinner
    <2> HIDE DEF t1, t2, b1, b2, u1, u2, d1, d2
    <2>5. u1 + u2 <= MaxSize /\ d1 + d2 <= MaxSize /\ d1 + d2 <= MaxSize + 1
      BY <2>1, <2>2, <2>3, <2>4
    <2> QED
      BY <1>1, <2>5 DEF Sizes, u1, u2, d1, d2
  <1> QED
    BY <1>5, <1>6, <1>7 DEF CarInv

LEMMA CarInvariance ==
    ASSUME SingleRemovals
    PROVE  Spec => []CarInv
  <1>1. Init => CarInv
    BY InitKeeps
  <1>2. ASSUME CarInv, [Next]_vars
        PROVE  CarInv'
    <2>1. CASE UNCHANGED vars
      BY <1>2, <2>1 DEF CarInv, TypeOK, ClocksClean, ListsApart, KeyMissed, Sizes,
                        NeverPanics, isXInB, vars
    <2>2. CASE Clear
      BY <1>2, <2>2, ClearKeeps
    <2>3. ASSUME NEW R \in Removals, Remove(R)
          PROVE  CarInv'
      BY <1>2, <2>3, RemoveKeeps DEF SingleRemovals
    <2>4. ASSUME NEW k \in Keys, Hit(k) \/ Miss(k)
          PROVE  CarInv'
      BY <1>2, <2>4, HitKeeps, MissKeeps
    <2> QED
      BY <1>2, <2>1, <2>2, <2>3, <2>4, ReplaceT1Keeps, ReplaceT2Keeps, TrimKeeps, InsertKeeps
      DEF Next, ComputeStep
  <1> QED
    BY <1>1, <1>2, PTL DEF Spec

\* The sizes of car.go's promise: at most MaxSize values, at most twice as
\* many keys between two operations, and a target share in range.
THEOREM CarWithinBounds ==
    ASSUME SingleRemovals
    PROVE  Spec => []Bounds
  <1>1. CarInv => Bounds
    <2> SUFFICES ASSUME CarInv
                 PROVE  Bounds
      OBVIOUS
    <2>1. p \in 0..MaxSize
      BY DEF CarInv, TypeOK
    <2>2. Size(T1) = Len(T1.list) /\ Size(T2) = Len(T2.list)
      BY CarFacts
    <2>3. /\ Size(T1) \in Nat /\ Size(T2) \in Nat
          /\ Len(B1) \in Nat /\ Len(B2) \in Nat /\ MaxSize \in Nat
      BY <2>2, SizesAreNat, Zenon
    <2>4. Size(T1) + Size(T2) <= MaxSize
      <3>1. Len(T1.list) + Len(T2.list) <= MaxSize
        BY DEF CarInv, Sizes
      <3> QED
        BY <2>2, <3>1, Zenon
    <2>5. ASSUME step = "idle"
          PROVE  Size(T1) + Size(T2) + Len(B1) + Len(B2) <= 2 * MaxSize
      <3>1. Len(B1) + Len(B2) <= MaxSize
        BY <2>5 DEF CarInv, Sizes
      <3>2. \A x, y, b, c, m \in Nat :
                x + y <= m /\ b + c <= m => x + y + b + c <= 2 * m
        OBVIOUS
      <3> QED
        BY <2>3, <2>4, <3>1, <3>2, Zenon
    <2> QED
      BY <2>1, <2>4, <2>5, Zenon DEF Bounds
  <1> QED
    BY <1>1, CarInvariance, PTL

\* None of the panics of AddTail, AddMRU and GetPageReferenceOfHead is reached.
THEOREM CarNeverPanics ==
    ASSUME SingleRemovals
    PROVE  Spec => []NeverPanics
  <1>1. CarInv => NeverPanics
    BY DEF CarInv
  <1> QED
    BY <1>1, CarInvariance, PTL

LEMMA Occurrences ==
    ASSUME NEW s, Once(s), NEW k
    PROVE  Cardinality({i \in DOMAIN s : s[i] = k}) = IF k \in Elems(s) THEN 1 ELSE 0
  <1> DEFINE S == {i \in DOMAIN s : s[i] = k}
  <1>1. CASE k \in Elems(s)
    <2>1. PICK i \in DOMAIN s : s[i] = k
      BY <1>1 DEF Elems
    <2>2. S = {i}
      BY <2>1 DEF Once
    <2> QED
      BY <1>1, <2>2, FS_Singleton
  <1>2. CASE k \notin Elems(s)
    <2>1. S = {}
      BY <1>2 DEF Elems
    <2> QED
      BY <1>2, <2>1, FS_EmptySet
  <1> QED
    BY <1>1, <1>2

\* A key is in at most one of T1, T2, B1 and B2, and there once.
THEOREM CarListsDisjoint ==
    ASSUME SingleRemovals
    PROVE  Spec => []Disjoint
  <1>1. CarInv => Disjoint
    <2> SUFFICES ASSUME CarInv, NEW k \in Keys
                 PROVE    Cardinality({i \in DOMAIN T1.list : T1.list[i].key = k})
                        + Cardinality({i \in DOMAIN T2.list : T2.list[i].key = k})
                        + Cardinality({i \in DOMAIN B1 : B1[i] = k})
                        + Cardinality({i \in DOMAIN B2 : B2[i] = k}) <= 1
      BY DEF Disjoint
    <2> DEFINE n1 == Cardinality({i \in DOMAIN T1.list : T1.list[i].key = k})
               n2 == Cardinality({i \in DOMAIN T2.list : T2.list[i].key = k})
               n3 == Cardinality({i \in DOMAIN B1 : B1[i] = k})
               n4 == Cardinality({i \in DOMAIN B2 : B2[i] = k})
    <2>1. n1 = IF k \in Elems(KeysOf(T1)) THEN 1 ELSE 0
      <3>1. {i \in DOMAIN T1.list : T1.list[i].key = k}
                = {i \in DOMAIN KeysOf(T1) : KeysOf(T1)[i] = k}
        BY DEF KeysOf
      <3> QED
        BY <3>1, Occurrences DEF CarInv, ListsApart
    <2>2. n2 = IF k \in Elems(KeysOf(T2)) THEN 1 ELSE 0
      <3>1. {i \in DOMAIN T2.list : T2.list[i].key = k}
                = {i \in DOMAIN KeysOf(T2) : KeysOf(T2)[i] = k}
        BY DEF KeysOf
      <3> QED
        BY <3>1, Occurrences DEF CarInv, ListsApart
    <2>3. n3 = IF k \in Elems(B1) THEN 1 ELSE 0
      BY Occurrences DEF CarInv, ListsApart
    <2>4. n4 = IF k \in Elems(B2) THEN 1 ELSE 0
      BY Occurrences DEF CarInv, ListsApart
    <2> HIDE DEF n1, n2, n3, n4
    <2>5. /\ ~(k \in Elems(KeysOf(T1)) /\ k \in Elems(KeysOf(T2)))
          /\ ~((k \in Elems(KeysOf(T1)) \/ k \in Elems(KeysOf(T2)))
                /\ (k \in Elems(B1) \/ k \in Elems(B2)))
          /\ ~(k \in Elems(B1) /\ k \in Elems(B2))
      BY DEF CarInv, ListsApart
    <2>6. n1 + n2 + n3 + n4 <= 1
      BY <2>1, <2>2, <2>3, <2>4, <2>5
    <2> QED
      BY <2>6 DEF n1, n2, n3, n4
  <1> QED
    BY <1>1, CarInvariance, PTL

-----------------------------------------------------------------------------
(* replace comes closer to a victim.                                       *)

Marks(s) == {i \in DOMAIN s : s[i].ref}

LEMMA MarksFinite ==
    ASSUME NEW s \in Seq(Node)
    PROVE  IsFiniteSet(Marks(s)) /\ Cardinality(Marks(s)) \in Nat
  <1>1. DOMAIN s = 1..Len(s) /\ Len(s) \in Nat
    OBVIOUS
  <1>2. IsFiniteSet(DOMAIN s)
    BY <1>1, IntervalSize
  <1>3. Marks(s) \in SUBSET DOMAIN s
    BY DEF Marks
  <1>4. IsFiniteSet(Marks(s))
    BY <1>2, <1>3, FS_Subset
  <1> QED
    BY <1>4, FS_CardinalityType

\* A referenced head takes its mark with it.
LEMMA MarksTail ==
    ASSUME NEW s \in Seq(Node), s # << >>, Head(s).ref
    PROVE  Cardinality(Marks(Tail(s))) < Cardinality(Marks(s))
  <1> DEFINE t == Tail(s)   n == Len(s)
             rest == Marks(s) \ {1}
             f == [i \in Marks(t) |-> i + 1]
  <1>1. /\ t \in Seq(Node) /\ n \in Nat \ {0} /\ DOMAIN t = 1..(n - 1) /\ DOMAIN s = 1..n
        /\ \A i \in 1..(n - 1) : t[i] = s[i + 1]
        /\ Head(s) = s[1]
    OBVIOUS
  <1> HIDE DEF t
  <1>2. \A i \in Marks(t) : i \in 1..(n - 1) /\ i + 1 \in rest
    BY <1>1 DEF Marks
  <1>3. f \in Injection(Marks(t), rest)
    <2>1. f \in [Marks(t) -> rest]
      BY <1>2
    <2>2. \A a, b \in Marks(t) : f[a] = f[b] => a = b
      BY <1>2
    <2> HIDE DEF f
    <2> QED
      BY <2>1, <2>2 DEF Injection, IsInjective
  <1>4. 1 \in Marks(s)
    BY <1>1 DEF Marks
  <1>5. /\ IsFiniteSet(Marks(s)) /\ Cardinality(Marks(s)) \in Nat
        /\ Cardinality(Marks(t)) \in Nat
    BY <1>1, MarksFinite
  <1>6. IsFiniteSet(rest) /\ Cardinality(rest) = Cardinality(Marks(s)) - 1
    BY <1>4, <1>5, FS_RemoveElement
  <1>7. Cardinality(Marks(t)) <= Cardinality(rest)
    <2> HIDE DEF f, rest
    <2> QED
      BY <1>3, <1>6, FS_Injection
  <1>8. Cardinality(Marks(t)) < Cardinality(Marks(s))
    <2> DEFINE a == Cardinality(Marks(t))   b == Cardinality(rest)   m == Cardinality(Marks(s))
    <2>1. a \in Nat /\ m \in Nat /\ b = m - 1 /\ a <= b
      BY <1>5, <1>6, <1>7
    <2> HIDE DEF a, b, m
    <2>2. a < m
      BY <2>1
    <2> QED
      BY <2>2 DEF a, m
  <1> QED
    BY <1>8 DEF t

\* AddTail marks nothing.
LEMMA MarksAppend ==
    ASSUME NEW s \in Seq(Node), NEW k \in Keys
    PROVE  Marks(Append(s, [key |-> k, ref |-> FALSE, live |-> TRUE])) = Marks(s)
  <1> DEFINE new == [key |-> k, ref |-> FALSE, live |-> TRUE]   t == Append(s, new)   n == Len(s)
  <1>1. new \in Node /\ new.ref = FALSE
    BY DEF Node
  <1> HIDE DEF new
  <1>2. /\ n \in Nat /\ DOMAIN t = (1..n) \cup {n + 1} /\ DOMAIN s = 1..n
        /\ \A i \in 1..n : t[i] = s[i]
        /\ t[n + 1] = new
    BY <1>1
  <1> HIDE DEF t, n
  <1>3. Marks(t) = Marks(s)
    BY <1>1, <1>2 DEF Marks
  <1> QED
    BY <1>3 DEF t, new

\* Every pass of replace's loop that evicts nothing leaves fewer referenced
\* entries, so the loop ends.
THEOREM CarReplaceProgresses ==
    ASSUME SingleRemovals
    PROVE  Spec => ReplaceProgresses
  <1>1. ASSUME CarInv, Next, step = "replace", step' = "replace"
        PROVE  Referenced' < Referenced
    <2>1. /\ Clean(T1) /\ Clean(T2) /\ Once(KeysOf(T1)) /\ Once(KeysOf(T2))
          /\ T1.list \in Seq(Node) /\ T2.list \in Seq(Node)
      BY <1>1, CleanFacts DEF CarInv, ClocksClean, ListsApart
    <2> DEFINE m1 == Cardinality(Marks(T1.list))    m2 == Cardinality(Marks(T2.list))
               r1 == Cardinality(Marks(T1'.list))   r2 == Cardinality(Marks(T2'.list))
    <2>2. Referenced = m1 + m2 /\ Referenced' = r1 + r2
      BY DEF Referenced, Marks
    <2>3. m1 \in Nat /\ m2 \in Nat
      BY <2>1, MarksFinite
    <2>4. CASE ReplaceT1
      <3> DEFINE k == Head(T1.list).key
      <3>1. /\ T1.list # << >> /\ Head(T1.list).ref
            /\ T1' = RemoveHead(T1) /\ T2' = AddTail(T2, k)
        BY <1>1, <2>4 DEF ReplaceT1, Panic
      <3>2. T1'.list = Tail(T1.list) /\ k \in Keys
        BY <2>1, <3>1, RemoveHeadClean, HeadLeaves
      <3>3. r1 < m1
        BY <2>1, <3>1, <3>2, MarksTail
      <3>4. r2 = m2
        <4>1. T2'.list = Append(T2.list, [key |-> k, ref |-> FALSE, live |-> TRUE])
          BY <2>1, <3>1, <3>2, AddTailClean
        <4> QED
          BY <2>1, <3>2, <4>1, MarksAppend
      <3>5. r1 \in Nat
        <4>1. Tail(T1.list) \in Seq(Node)
          BY <2>1, <3>1
        <4> QED
          BY <3>2, <4>1, MarksFinite
      <3> HIDE DEF m1, m2, r1, r2
      <3> QED
        BY <2>2, <2>3, <3>3, <3>4, <3>5
    <2>5. CASE ReplaceT2
      <3> DEFINE k == Head(T2.list).key   d == RemoveHead(T2)
      <3>1. /\ T2.list # << >> /\ Head(T2.list).ref
            /\ T2' = AddTail(d, k) /\ T1' = T1
        BY <1>1, <2>5 DEF ReplaceT2, Panic
      <3>2. d.list = Tail(T2.list) /\ k \in Keys /\ Clean(d)
        BY <2>1, <3>1, RemoveHeadClean, HeadLeaves
      <3>3. d.list \in Seq(Node)
        BY <3>2, CleanFacts
      <3>4. T2'.list = Append(d.list, [key |-> k, ref |-> FALSE, live |-> TRUE])
        BY <3>1, <3>2, AddTailClean
      <3>5. r2 = Cardinality(Marks(Tail(T2.list)))
        BY <3>2, <3>3, <3>4, MarksAppend
      <3>6. r2 < m2 /\ r2 \in Nat
        BY <2>1, <3>1, <3>2, <3>3, <3>5, MarksTail, MarksFinite
      <3>7. r1 = m1
        BY <3>1
      <3> HIDE DEF m1, m2, r1, r2
      <3> QED
        BY <2>2, <2>3, <3>6, <3>7
    <2> QED
      BY <1>1, <2>4, <2>5 DEF Next, ComputeStep, Hit, Miss, Trim, Insert, Clear, Remove
  <1>2. CarInv /\ [Next]_vars
            => [step = "replace" /\ step' = "replace" => Referenced' < Referenced]_vars
    BY <1>1
  <1> QED
    BY <1>2, CarInvariance, PTL DEF Spec, ReplaceProgresses
=============================================================================
