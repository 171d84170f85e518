------------------------- MODULE SimpleCache_proofs -------------------------
(***************************************************************************)
(* Proofs about ThreadLocals and SimpleCache, for any threads, caches,     *)
(* keys and depth of calls.                                                *)
(*                                                                         *)
(* A call's place in a thread's stack is counted from the outermost call,  *)
(* so that calling and returning renumber nothing.                         *)
(***************************************************************************)
EXTENDS SimpleCache, FiniteSetTheorems, SequenceTheorems,
        WellFoundedInduction, TLAPS

-----------------------------------------------------------------------------
(* Stacks.                                                                 *)

Frame == [of : Calls, at : {"lock", "check", "calculate"}, nested : Nat]

\* The j-th call of a stack, the outermost being the first.
Nth(s, j) == s[Len(s) + 1 - j]

\* The innermost call is the last.
LEMMA NthInner ==
    ASSUME NEW s \in Seq(Frame), s # << >>
    PROVE  /\ Len(s) \in Nat \ {0} /\ Nth(s, Len(s)) = Head(s) /\ Head(s) \in Frame
           /\ Head(s) = s[1]
  BY DEF Nth

\* Every call of a stack is a frame.
LEMMA NthType ==
    ASSUME NEW s \in Seq(Frame), NEW j \in 1..Len(s)
    PROVE  Nth(s, j) \in Frame
  BY DEF Nth

\* A first call.
LEMMA NthFirst ==
    ASSUME NEW x \in Frame
    PROVE  <<x>> \in Seq(Frame) /\ Len(<<x>>) = 1 /\ Nth(<<x>>, 1) = x
  BY DEF Nth

\* A nested call: the calls below stay where they are.
LEMMA NthPush ==
    ASSUME NEW s \in Seq(Frame), s # << >>, NEW x \in Frame, NEW y \in Frame
    PROVE  LET r == <<x, y>> \o Tail(s)
           IN  /\ r \in Seq(Frame) /\ Len(r) = Len(s) + 1
               /\ Nth(r, Len(s) + 1) = x /\ Nth(r, Len(s)) = y
               /\ \A j \in 1..(Len(s) - 1) : Nth(r, j) = Nth(s, j)
  <1> DEFINE r == <<x, y>> \o Tail(s)
  <1>1. /\ Tail(s) \in Seq(Frame) /\ Len(Tail(s)) = Len(s) - 1 /\ Len(s) \in Nat \ {0}
        /\ \A i \in 1..(Len(s) - 1) : Tail(s)[i] = s[i + 1]
    OBVIOUS
  <1>2. <<x, y>> \in Seq(Frame) /\ Len(<<x, y>>) = 2
    OBVIOUS
  <1>3. /\ r \in Seq(Frame) /\ Len(r) = Len(s) + 1
        /\ \A i \in 1..(Len(s) + 1) :
              r[i] = IF i <= 2 THEN <<x, y>>[i] ELSE Tail(s)[i - 2]
    BY <1>1, <1>2, ConcatProperties
  <1>4. r[1] = x /\ r[2] = y
    <2>1. 1 \in 1..(Len(s) + 1) /\ 2 \in 1..(Len(s) + 1)
      BY <1>1
    <2>2. r[1] = <<x, y>>[1] /\ r[2] = <<x, y>>[2]
      BY <1>3, <2>1
    <2> QED
      BY <2>2
  <1>5. ASSUME NEW j \in 1..(Len(s) - 1) PROVE r[Len(s) + 2 - j] = s[Len(s) + 1 - j]
    <2>1. Len(s) + 2 - j \in 3..(Len(s) + 1) /\ Len(s) - j \in 1..(Len(s) - 1)
      BY <1>1
    <2>2. r[Len(s) + 2 - j] = Tail(s)[Len(s) + 2 - j - 2]
      BY <1>1, <1>3, <2>1
    <2>3. Len(s) + 2 - j - 2 = Len(s) - j /\ Len(s) - j + 1 = Len(s) + 1 - j
      <3>1. \A m, n \in Int : m + 2 - n - 2 = m - n /\ m - n + 1 = m + 1 - n
        OBVIOUS
      <3>2. Len(s) \in Int /\ j \in Int
        BY <1>1
      <3> QED
        BY <3>1, <3>2, Zenon
    <2> QED
      BY <1>1, <2>1, <2>2, <2>3
  <1> HIDE DEF r
  <1>6. /\ Nth(r, Len(s) + 1) = r[1] /\ Nth(r, Len(s)) = r[2]
        /\ \A j \in 1..(Len(s) - 1) : Nth(r, j) = r[Len(s) + 2 - j]
    BY <1>1, <1>3 DEF Nth
  <1>7. /\ r \in Seq(Frame) /\ Len(r) = Len(s) + 1
        /\ Nth(r, Len(s) + 1) = x /\ Nth(r, Len(s)) = y
        /\ \A j \in 1..(Len(s) - 1) : Nth(r, j) = Nth(s, j)
    BY <1>3, <1>4, <1>5, <1>6 DEF Nth
  <1> QED
    BY <1>7 DEF r

\* A return: the calls below stay where they are.
LEMMA NthPop ==
    ASSUME NEW s \in Seq(Frame), s # << >>
    PROVE  /\ Tail(s) \in Seq(Frame) /\ Len(Tail(s)) = Len(s) - 1 /\ Len(s) \in Nat \ {0}
           /\ \A j \in 1..(Len(s) - 1) : Nth(Tail(s), j) = Nth(s, j)
  <1>1. /\ Tail(s) \in Seq(Frame) /\ Len(Tail(s)) = Len(s) - 1 /\ Len(s) \in Nat \ {0}
        /\ \A i \in 1..(Len(s) - 1) : Tail(s)[i] = s[i + 1]
    OBVIOUS
  <1>2. ASSUME NEW j \in 1..(Len(s) - 1) PROVE Nth(Tail(s), j) = Nth(s, j)
    <2>1. Len(s) - 1 + 1 - j \in 1..(Len(s) - 1) /\ Len(s) - 1 + 1 - j + 1 = Len(s) + 1 - j
      BY <1>1
    <2> QED
      BY <1>1, <2>1 DEF Nth
  <1> QED
    BY <1>1, <1>2

\* The innermost call goes on to another place.
LEMMA NthSet ==
    ASSUME NEW s \in Seq(Frame), s # << >>, NEW y \in Frame
    PROVE  LET r == [s EXCEPT ![1] = y]
           IN  /\ r \in Seq(Frame) /\ Len(r) = Len(s)
               /\ Nth(r, Len(s)) = y
               /\ \A j \in 1..(Len(s) - 1) : Nth(r, j) = Nth(s, j)
  <1> DEFINE r == [s EXCEPT ![1] = y]
  <1>1. Len(s) \in Nat \ {0}
    OBVIOUS
  <1>2. /\ r \in Seq(Frame) /\ Len(r) = Len(s)
        /\ \A i \in 1..Len(s) : r[i] = IF i = 1 THEN y ELSE s[i]
    BY <1>1, ExceptSeq
  <1> HIDE DEF r
  <1>3. /\ r \in Seq(Frame) /\ Len(r) = Len(s)
        /\ Nth(r, Len(s)) = y
        /\ \A j \in 1..(Len(s) - 1) : Nth(r, j) = Nth(s, j)
    BY <1>1, <1>2 DEF Nth
  <1> QED
    BY <1>3 DEF r

-----------------------------------------------------------------------------
(* The locks of a stack's calls.                                           *)

\* The calls of a stack that hold the lock of cache c.
HoldsIn(s, c) == {j \in 1..Len(s) : Nth(s, j).at # "lock" /\ Nth(s, j).of.cache = c}

\* They are finitely many.
LEMMA HoldsFinite ==
    ASSUME NEW s \in Seq(Frame), NEW c
    PROVE  IsFiniteSet(HoldsIn(s, c)) /\ Cardinality(HoldsIn(s, c)) \in Nat
  <1>1. Len(s) \in Nat /\ 1 \in Int /\ Len(s) \in Int
    OBVIOUS
  <1>2. IsFiniteSet(1..Len(s))
    BY <1>1, FS_Interval, Zenon
  <1>3. HoldsIn(s, c) \subseteq 1..Len(s)
    BY DEF HoldsIn
  <1>4. IsFiniteSet(HoldsIn(s, c))
    BY <1>2, <1>3, FS_Subset, Zenon
  <1> QED
    BY <1>4, FS_CardinalityType, Zenon

\* A call that waits for its lock holds none, and changes nothing below it.
LEMMA HoldsPush ==
    ASSUME NEW s \in Seq(Frame), s # << >>, NEW x \in Frame, NEW y \in Frame, NEW c,
           x.at = "lock", y.at = Head(s).at, y.of = Head(s).of
    PROVE  HoldsIn(<<x, y>> \o Tail(s), c) = HoldsIn(s, c)
  <1> DEFINE r == <<x, y>> \o Tail(s)
  <1>1. /\ r \in Seq(Frame) /\ Len(r) = Len(s) + 1
        /\ Nth(r, Len(s) + 1) = x /\ Nth(r, Len(s)) = y
        /\ \A j \in 1..(Len(s) - 1) : Nth(r, j) = Nth(s, j)
    BY NthPush
  <1>2. Len(s) \in Nat \ {0} /\ Nth(s, Len(s)) = Head(s)
    BY NthInner
  <1> HIDE DEF r
  <1>3. HoldsIn(r, c) = HoldsIn(s, c)
    BY <1>1, <1>2 DEF HoldsIn
  <1> QED
    BY <1>3 DEF r

\* A call that returns gives up what it held.
LEMMA HoldsPop ==
    ASSUME NEW s \in Seq(Frame), s # << >>, NEW c
    PROVE  /\ HoldsIn(Tail(s), c) = HoldsIn(s, c) \ {Len(s)}
           /\ Len(s) \in HoldsIn(s, c) <=> Head(s).at # "lock" /\ Head(s).of.cache = c
  <1>1. /\ Tail(s) \in Seq(Frame) /\ Len(Tail(s)) = Len(s) - 1 /\ Len(s) \in Nat \ {0}
        /\ \A j \in 1..(Len(s) - 1) : Nth(Tail(s), j) = Nth(s, j)
    BY NthPop
  <1>2. Nth(s, Len(s)) = Head(s)
    BY NthInner
  <1> QED
    BY <1>1, <1>2 DEF HoldsIn

\* A call that gets its lock holds it, and one that goes on still does.
LEMMA HoldsSet ==
    ASSUME NEW s \in Seq(Frame), s # << >>, NEW y \in Frame, NEW c,
           y.of = Head(s).of, y.at # "lock"
    PROVE  HoldsIn([s EXCEPT ![1] = y], c) =
              HoldsIn(s, c) \cup {j \in {Len(s)} : y.of.cache = c}
  <1> DEFINE r == [s EXCEPT ![1] = y]
  <1>1. /\ r \in Seq(Frame) /\ Len(r) = Len(s)
        /\ Nth(r, Len(s)) = y
        /\ \A j \in 1..(Len(s) - 1) : Nth(r, j) = Nth(s, j)
    BY NthSet
  <1>2. Len(s) \in Nat \ {0} /\ Nth(s, Len(s)) = Head(s)
    BY NthInner
  <1> HIDE DEF r
  <1>3. HoldsIn(r, c) = HoldsIn(s, c) \cup {j \in {Len(s)} : y.of.cache = c}
    BY <1>1, <1>2 DEF HoldsIn
  <1> QED
    BY <1>3 DEF r

-----------------------------------------------------------------------------
(* Calls nest: all but the innermost are in their calculators, and only a  *)
(* Compute ever gets beyond the lock.                                      *)

WellNested(s) ==
    \A j \in 1..Len(s) :
        /\ Nth(s, j).at # "lock" => Nth(s, j).of.op = "Compute"
        /\ j < Len(s) => Nth(s, j).at = "calculate"

StacksOK ==
    /\ stack \in [Threads -> Seq(Frame)]
    /\ \A t \in Threads : WellNested(stack[t])

\* What calling, going on and returning do to the nesting.
LEMMA NestFirst ==
    ASSUME NEW x \in Frame, x.at = "lock"
    PROVE  WellNested(<<x>>)
  <1>1. Len(<<x>>) = 1 /\ Nth(<<x>>, 1) = x
    BY NthFirst
  <1> QED
    BY <1>1 DEF WellNested

LEMMA NestPush ==
    ASSUME NEW s \in Seq(Frame), s # << >>, WellNested(s),
           NEW x \in Frame, x.at = "lock",
           NEW y \in Frame, y.at = "calculate", y.of = Head(s).of,
           Head(s).at = "calculate"
    PROVE  WellNested(<<x, y>> \o Tail(s))
  <1> DEFINE r == <<x, y>> \o Tail(s)
  <1>1. /\ Len(r) = Len(s) + 1
        /\ Nth(r, Len(s) + 1) = x /\ Nth(r, Len(s)) = y
        /\ \A j \in 1..(Len(s) - 1) : Nth(r, j) = Nth(s, j)
    BY NthPush
  <1>2. Len(s) \in Nat \ {0} /\ Nth(s, Len(s)) = Head(s)
    BY NthInner
  <1> HIDE DEF r
  <1>3. WellNested(r)
    BY <1>1, <1>2 DEF WellNested
  <1> QED
    BY <1>3 DEF r

LEMMA NestPop ==
    ASSUME NEW s \in Seq(Frame), s # << >>, WellNested(s)
    PROVE  WellNested(Tail(s))
  <1>1. /\ Tail(s) \in Seq(Frame) /\ Len(Tail(s)) = Len(s) - 1 /\ Len(s) \in Nat \ {0}
        /\ \A j \in 1..(Len(s) - 1) : Nth(Tail(s), j) = Nth(s, j)
    BY NthPop
  <1> QED
    BY <1>1 DEF WellNested

LEMMA NestSet ==
    ASSUME NEW s \in Seq(Frame), s # << >>, WellNested(s),
           NEW y \in Frame, y.of.op = "Compute"
    PROVE  WellNested([s EXCEPT ![1] = y])
  <1> DEFINE r == [s EXCEPT ![1] = y]
  <1>1. /\ Len(r) = Len(s)
        /\ Nth(r, Len(s)) = y
        /\ \A j \in 1..(Len(s) - 1) : Nth(r, j) = Nth(s, j)
    BY NthSet
  <1>2. Len(s) \in Nat \ {0}
    BY NthInner
  <1> HIDE DEF r
  <1>3. WellNested(r)
    BY <1>1, <1>2 DEF WellNested
  <1> QED
    BY <1>3 DEF r

-----------------------------------------------------------------------------
(* What a step does to the stacks and the locks.                           *)

\* A thread calls a cache on its own account ...
Enter(t) ==
    \E x \in Frame :
        /\ x.at = "lock"
        /\ stack[t] = << >> /\ stack' = [stack EXCEPT ![t] = <<x>>]
        /\ UNCHANGED <<owner, depth>>

\* ... or from a calculator.
Nest(t) ==
    \E x, y \in Frame :
        /\ x.at = "lock" /\ y.at = "calculate"
        /\ stack[t] # << >> /\ Inner(t).at = "calculate" /\ Inner(t).of = y.of
        /\ <<y.of.cache, x.of.cache>> \in CallsInto
        /\ stack' = [stack EXCEPT ![t] = <<x, y>> \o Tail(stack[t])]
        /\ UNCHANGED <<owner, depth>>

\* A call is over as soon as it has had a look under the lock.
Leave(t) ==
    /\ stack[t] # << >> /\ Inner(t).at = "lock"
    /\ stack' = [stack EXCEPT ![t] = Tail(stack[t])]
    /\ UNCHANGED <<owner, depth>>

\* A Compute takes the lock and keeps it ...
Acquire(t) ==
    \E y \in Frame :
        /\ stack[t] # << >> /\ Inner(t).at = "lock"
        /\ y.at = "check" /\ y.of = Inner(t).of /\ y.of.op = "Compute"
        /\ Available(t, y.of.cache)
        /\ stack' = [stack EXCEPT ![t] = [stack[t] EXCEPT ![1] = y]]
        /\ owner' = [owner EXCEPT ![y.of.cache] = t]
        /\ depth' = [depth EXCEPT ![y.of.cache] = depth[y.of.cache] + 1]

\* ... while it calculates ...
Proceed(t) ==
    \E y \in Frame :
        /\ stack[t] # << >> /\ Inner(t).at = "check"
        /\ y.at = "calculate" /\ y.of = Inner(t).of /\ y.of.op = "Compute"
        /\ stack' = [stack EXCEPT ![t] = [stack[t] EXCEPT ![1] = y]]
        /\ UNCHANGED <<owner, depth>>

\* ... until it is over.
Release(t) ==
    /\ stack[t] # << >> /\ Inner(t).at # "lock"
    /\ Unlock(Inner(t).of.cache)
    /\ stack' = [stack EXCEPT ![t] = Tail(stack[t])]

Move(t) ==
    Enter(t) \/ Nest(t) \/ Leave(t) \/ Acquire(t) \/ Proceed(t) \/ Release(t)

\* Each of the cache's actions is one of these.
LEMMA CallMoves ==
    ASSUME StacksOK, NEW t \in Threads, NEW f \in Calls, Call(t, f)
    PROVE  Enter(t) \/ Nest(t)
  <1>1. NewCall(f) \in Frame /\ NewCall(f).at = "lock" /\ NewCall(f).of = f
    BY DEF NewCall, Frame
  <1>2. UNCHANGED <<owner, depth>>
    BY DEF Call
  <1>3. CASE stack[t] = << >> /\ stack' = [stack EXCEPT ![t] = <<NewCall(f)>>]
    BY <1>1, <1>2, <1>3 DEF Enter
  <1>4. CASE /\ At(t) = "calculate"
             /\ <<Inner(t).of.cache, f.cache>> \in CallsInto
             /\ stack' = [stack EXCEPT ![t] =
                   <<NewCall(f), [Inner(t) EXCEPT !.nested = @ + 1]>> \o Tail(@)]
    <2> DEFINE y == [Inner(t) EXCEPT !.nested = @ + 1]
    <2>1. stack[t] # << >> /\ Inner(t).at = "calculate" /\ stack[t] \in Seq(Frame)
      BY <1>4 DEF At, StacksOK
    <2>2. Inner(t) \in Frame
      BY <2>1, NthInner DEF Inner
    <2>3. y \in Frame /\ y.at = "calculate" /\ y.of = Inner(t).of
      BY <2>1, <2>2 DEF Frame
    <2>4. stack' = [stack EXCEPT ![t] = <<NewCall(f), y>> \o Tail(stack[t])]
      BY <1>4 DEF StacksOK
    <2> HIDE DEF y
    <2> QED
      BY <1>1, <1>2, <1>4, <2>1, <2>3, <2>4 DEF Nest
  <1> QED
    BY <1>3, <1>4 DEF Call

LEMMA FindMoves ==
    ASSUME StacksOK, NEW t \in Threads, FindValue(t) \/ internalRemove(t)
    PROVE  Leave(t)
  <1>1. /\ At(t) = "lock" /\ Return(t) /\ UNCHANGED <<owner, depth>>
    BY DEF FindValue, internalRemove
  <1> QED
    BY <1>1 DEF At, Return, Leave, StacksOK

LEMMA BeginMoves ==
    ASSUME StacksOK, NEW t \in Threads, BeginCompute(t)
    PROVE  Acquire(t)
  <1> DEFINE y == [Inner(t) EXCEPT !.at = "check"]
  <1>1. stack[t] # << >> /\ Inner(t).at = "lock" /\ stack[t] \in Seq(Frame)
    BY DEF At, StacksOK, BeginCompute
  <1>2. Inner(t) \in Frame /\ Inner(t) = stack[t][1] /\ 1 \in DOMAIN stack[t]
    BY <1>1, NthInner DEF Inner
  <1>3. y \in Frame /\ y.at = "check" /\ y.of = Inner(t).of
    BY <1>2 DEF Frame
  <1>4. stack' = [stack EXCEPT ![t] = [stack[t] EXCEPT ![1] = y]]
    BY <1>2 DEF BeginCompute, StacksOK
  <1>5. /\ Available(t, Inner(t).of.cache) /\ Inner(t).of.op = "Compute"
        /\ owner' = [owner EXCEPT ![Inner(t).of.cache] = t]
        /\ depth' = [depth EXCEPT ![Inner(t).of.cache] = depth[Inner(t).of.cache] + 1]
    BY DEF BeginCompute
  <1> HIDE DEF y
  <1> QED
    BY <1>1, <1>3, <1>4, <1>5 DEF Acquire

LEMMA CheckMoves ==
    ASSUME StacksOK, NEW t \in Threads, checkCycle(t)
    PROVE  /\ IsCycle(t, Inner(t).of.key) => Release(t) /\ UNCHANGED asks
           /\ ~IsCycle(t, Inner(t).of.key) =>
                 /\ Proceed(t)
                 /\ asks' = [asks EXCEPT ![t] = asks[t] \cup {Inner(t).of.key}]
           /\ stack[t] # << >> /\ Inner(t).at = "check"
  <1> DEFINE y == [Inner(t) EXCEPT !.at = "calculate"]
  <1>1. stack[t] # << >> /\ Inner(t).at = "check" /\ stack[t] \in Seq(Frame)
    BY DEF At, StacksOK, checkCycle
  <1>2. /\ Inner(t) \in Frame /\ Inner(t) = stack[t][1] /\ 1 \in DOMAIN stack[t]
        /\ Inner(t) = Nth(stack[t], Len(stack[t])) /\ Len(stack[t]) \in Nat \ {0}
    BY <1>1, NthInner DEF Inner
  <1>3. y \in Frame /\ y.at = "calculate" /\ y.of = Inner(t).of
    BY <1>2 DEF Frame
  <1>4. Inner(t).of.op = "Compute"
    BY <1>1, <1>2 DEF StacksOK, WellNested
  <1>5. CASE IsCycle(t, Inner(t).of.key)
    <2>1. Unlock(Inner(t).of.cache) /\ Return(t) /\ UNCHANGED asks
      BY <1>5 DEF checkCycle
    <2> QED
      BY <1>1, <1>5, <2>1 DEF Return, Release, StacksOK
  <1>6. CASE ~IsCycle(t, Inner(t).of.key)
    <2>1. /\ stack' = [stack EXCEPT ![t][1].at = "calculate"] /\ UNCHANGED <<owner, depth>>
          /\ asks' = [asks EXCEPT ![t] = asks[t] \cup {Inner(t).of.key}]
      BY <1>6 DEF checkCycle
    <2>2. stack' = [stack EXCEPT ![t] = [stack[t] EXCEPT ![1] = y]]
      BY <1>2, <2>1 DEF StacksOK
    <2> HIDE DEF y
    <2> QED
      BY <1>1, <1>3, <1>4, <1>6, <2>1, <2>2 DEF Proceed
  <1> QED
    BY <1>1, <1>5, <1>6

LEMMA EndMoves ==
    ASSUME StacksOK, NEW t \in Threads, NEW stored \in BOOLEAN, EndCompute(t, stored)
    PROVE  Release(t)
  BY DEF EndCompute, At, Return, Release, StacksOK

\* Every step is one of these, or leaves stacks and locks alone.
LEMMA NextMoves ==
    ASSUME StacksOK, [Next]_vars
    PROVE  UNCHANGED <<stack, owner, depth>> \/ \E t \in Threads : Move(t)
  <1>1. CASE UNCHANGED vars
    BY <1>1 DEF vars, cacheVars
  <1>2. ASSUME NEW t \in Threads, GetAsks(t) \/ ThreadStep(t)
        PROVE  UNCHANGED <<stack, owner, depth>>
    BY <1>2 DEF GetAsks, ThreadStep, cacheVars
  <1> QED
    BY <1>1, <1>2, CallMoves, FindMoves, BeginMoves, CheckMoves, EndMoves
       DEF Next, CacheStep, Move

\* The calls of a stack are where they may be, whatever step is taken.
LEMMA StacksStep ==
    ASSUME StacksOK, [Next]_vars
    PROVE  StacksOK'
  <1>1. CASE UNCHANGED stack
    BY <1>1 DEF StacksOK
  <1>2. ASSUME NEW t \in Threads, Move(t)
        PROVE  StacksOK'
    <2>1. stack[t] \in Seq(Frame) /\ WellNested(stack[t])
      BY DEF StacksOK
    <2>2. \E r \in Seq(Frame) : WellNested(r) /\ stack' = [stack EXCEPT ![t] = r]
      <3>1. CASE Enter(t)
        BY <3>1, NestFirst, NthFirst DEF Enter
      <3>2. CASE Nest(t)
        <4>1. PICK x, y \in Frame :
                  /\ x.at = "lock" /\ y.at = "calculate"
                  /\ stack[t] # << >> /\ Inner(t).at = "calculate" /\ Inner(t).of = y.of
                  /\ stack' = [stack EXCEPT ![t] = <<x, y>> \o Tail(stack[t])]
          BY <3>2 DEF Nest
        <4>2. WellNested(<<x, y>> \o Tail(stack[t]))
          BY <2>1, <4>1, NestPush DEF Inner
        <4>3. <<x, y>> \o Tail(stack[t]) \in Seq(Frame)
          BY <2>1, <4>1, NthPush
        <4> QED
          BY <4>1, <4>2, <4>3
      <3>3. CASE Leave(t) \/ Release(t)
        <4>1. stack[t] # << >> /\ stack' = [stack EXCEPT ![t] = Tail(stack[t])]
          BY <3>3 DEF Leave, Release
        <4>2. WellNested(Tail(stack[t]))
          BY <2>1, <4>1, NestPop
        <4>3. Tail(stack[t]) \in Seq(Frame)
          BY <2>1, <4>1, NthPop
        <4> QED
          BY <4>1, <4>2, <4>3
      <3>4. CASE Acquire(t) \/ Proceed(t)
        <4>1. PICK y \in Frame :
                  /\ stack[t] # << >> /\ y.of.op = "Compute"
                  /\ stack' = [stack EXCEPT ![t] = [stack[t] EXCEPT ![1] = y]]
          BY <3>4 DEF Acquire, Proceed
        <4>2. WellNested([stack[t] EXCEPT ![1] = y])
          BY <2>1, <4>1, NestSet
        <4>3. [stack[t] EXCEPT ![1] = y] \in Seq(Frame)
          BY <2>1, <4>1, NthSet
        <4> QED
          BY <4>1, <4>2, <4>3
      <3> QED
        BY <1>2, <3>1, <3>2, <3>3, <3>4 DEF Move
    <2> QED
      BY <2>2 DEF StacksOK
  <1> QED
    BY <1>1, <1>2, NextMoves

-----------------------------------------------------------------------------
(* A lock is held by the calls of one thread, as often as it was taken.    *)

LocksOK ==
    /\ owner \in [Caches -> Threads \cup {Nobody}] /\ depth \in [Caches -> Nat]
    /\ \A c \in Caches :
          /\ \A t \in Threads : HoldsIn(stack[t], c) # {} => owner[c] = t
          /\ owner[c] = Nobody => depth[c] = 0
          /\ owner[c] # Nobody =>
                HoldsIn(stack[owner[c]], c) # {}
                  /\ depth[c] = Cardinality(HoldsIn(stack[owner[c]], c))

\* No step breaks this: a lock is given up by the call that took it first.
LEMMA LocksStep ==
    ASSUME StacksOK, LocksOK, [Next]_vars
    PROVE  LocksOK'
  <1>1. CASE UNCHANGED <<stack, owner, depth>>
    BY <1>1 DEF LocksOK
  <1>2. ASSUME NEW t \in Threads, Move(t)
        PROVE  LocksOK'
    <2>0. stack[t] \in Seq(Frame) /\ stack \in [Threads -> Seq(Frame)]
      BY DEF StacksOK
    <2>1. CASE /\ UNCHANGED <<owner, depth>>
               /\ \A u \in Threads, c \in Caches : HoldsIn(stack'[u], c) = HoldsIn(stack[u], c)
      BY <2>1, SimpleCacheAssumption DEF LocksOK
    <2>2. ASSUME NEW r, stack' = [stack EXCEPT ![t] = r], UNCHANGED <<owner, depth>>,
                 \A c \in Caches : HoldsIn(r, c) = HoldsIn(stack[t], c)
          PROVE  LocksOK'
      BY <2>0, <2>1, <2>2
    <2>3. CASE Enter(t)
      <3>1. PICK x \in Frame : /\ x.at = "lock" /\ stack[t] = << >>
                               /\ stack' = [stack EXCEPT ![t] = <<x>>]
        BY <2>3 DEF Enter
      <3>2. Len(<<x>>) = 1 /\ Nth(<<x>>, 1) = x /\ Len(stack[t]) = 0
        BY <3>1, NthFirst
      <3>3. \A c \in Caches : HoldsIn(<<x>>, c) = HoldsIn(stack[t], c)
        BY <3>1, <3>2 DEF HoldsIn
      <3> QED
        BY <2>2, <2>3, <3>1, <3>3 DEF Enter
    <2>4. CASE Nest(t)
      <3>1. PICK x, y \in Frame :
                /\ x.at = "lock" /\ y.at = "calculate"
                /\ stack[t] # << >> /\ Inner(t).at = "calculate" /\ Inner(t).of = y.of
                /\ stack' = [stack EXCEPT ![t] = <<x, y>> \o Tail(stack[t])]
        BY <2>4 DEF Nest
      <3>2. \A c \in Caches : HoldsIn(<<x, y>> \o Tail(stack[t]), c) = HoldsIn(stack[t], c)
        BY <2>0, <3>1, HoldsPush DEF Inner
      <3>3. UNCHANGED <<owner, depth>>
        BY <2>4 DEF Nest
      <3>4. stack' = [stack EXCEPT ![t] = <<x, y>> \o Tail(stack[t])]
        BY <3>1
      <3> QED
        BY <2>2, <3>2, <3>3, <3>4, Zenon
    <2>5. CASE Leave(t)
      <3>1. /\ stack[t] # << >> /\ Inner(t).at = "lock"
            /\ stack' = [stack EXCEPT ![t] = Tail(stack[t])]
            /\ UNCHANGED <<owner, depth>>
        BY <2>5 DEF Leave
      <3>2. ASSUME NEW c \in Caches
            PROVE  HoldsIn(Tail(stack[t]), c) = HoldsIn(stack[t], c)
        <4>1. /\ HoldsIn(Tail(stack[t]), c) = HoldsIn(stack[t], c) \ {Len(stack[t])}
              /\ Len(stack[t]) \notin HoldsIn(stack[t], c)
          BY <2>0, <3>1, HoldsPop DEF Inner
        <4> QED
          BY <4>1
      <3> QED
        BY <2>2, <3>1, <3>2
    <2>6. CASE Proceed(t)
      <3>1. PICK y \in Frame :
                /\ stack[t] # << >> /\ Inner(t).at = "check"
                /\ y.at = "calculate" /\ y.of = Inner(t).of
                /\ stack' = [stack EXCEPT ![t] = [stack[t] EXCEPT ![1] = y]]
        BY <2>6 DEF Proceed
      <3>2. \A c \in Caches :
                HoldsIn([stack[t] EXCEPT ![1] = y], c) =
                    HoldsIn(stack[t], c) \cup {j \in {Len(stack[t])} : y.of.cache = c}
        BY <2>0, <3>1, HoldsSet DEF Inner
      <3>3. \A c \in Caches : y.of.cache = c => Len(stack[t]) \in HoldsIn(stack[t], c)
        BY <2>0, <3>1, HoldsPop DEF Inner
      <3>4. \A c \in Caches : HoldsIn([stack[t] EXCEPT ![1] = y], c) = HoldsIn(stack[t], c)
        BY <3>2, <3>3
      <3>5. UNCHANGED <<owner, depth>>
        BY <2>6 DEF Proceed
      <3> DEFINE r == [stack[t] EXCEPT ![1] = y]
      <3>6. stack' = [stack EXCEPT ![t] = r]
        BY <3>1
      <3>7. \A c \in Caches : HoldsIn(r, c) = HoldsIn(stack[t], c)
        BY <3>4
      <3> HIDE DEF r
      <3>8. stack'[t] = r
        BY <2>0, <3>6
      <3> QED
        BY <2>2, <3>5, <3>6, <3>7
    <2>7. CASE Acquire(t)
      <3>1. PICK y \in Frame :
                /\ stack[t] # << >> /\ Inner(t).at = "lock"
                /\ y.at = "check" /\ y.of = Inner(t).of
                /\ Available(t, y.of.cache)
                /\ stack' = [stack EXCEPT ![t] = [stack[t] EXCEPT ![1] = y]]
                /\ owner' = [owner EXCEPT ![y.of.cache] = t]
                /\ depth' = [depth EXCEPT ![y.of.cache] = depth[y.of.cache] + 1]
        BY <2>7 DEF Acquire
      <3> DEFINE d == y.of.cache   H == HoldsIn(stack[t], d)   n == Len(stack[t])
      <3>2. d \in Caches
        BY DEF Frame, Calls
      <3>3. \A c \in Caches :
                HoldsIn(stack'[t], c) = IF c = d THEN HoldsIn(stack[t], c) \cup {n}
                                                 ELSE HoldsIn(stack[t], c)
        <4>1. \A c \in Caches :
                  HoldsIn([stack[t] EXCEPT ![1] = y], c) =
                      HoldsIn(stack[t], c) \cup {j \in {n} : d = c}
          BY <2>0, <3>1, HoldsSet DEF Inner
        <4>2. stack'[t] = [stack[t] EXCEPT ![1] = y]
          BY <2>0, <3>1
        <4> QED
          BY <4>1, <4>2
      <3>4. n \notin H
        BY <2>0, <3>1, HoldsPop DEF Inner
      <3>5. \A u \in Threads : u # t => stack'[u] = stack[u]
        BY <2>0, <3>1
      <3>6. depth[d] = Cardinality(H)
        <4>1. CASE owner[d] = t
          BY <3>2, <4>1, SimpleCacheAssumption DEF LocksOK
        <4>2. CASE owner[d] = Nobody
          <5>1. H = {} /\ depth[d] = 0
            BY <3>2, <4>2, SimpleCacheAssumption DEF LocksOK
          <5> QED
            BY <5>1, FS_EmptySet
        <4> QED
          BY <3>1, <4>1, <4>2 DEF Available
      <3>7. Cardinality(H \cup {n}) = Cardinality(H) + 1
        BY <2>0, <3>4, HoldsFinite, FS_AddElement
      <3> HIDE DEF d, H, n
      <3>8. owner' = [owner EXCEPT ![d] = t] /\ depth' = [depth EXCEPT ![d] = depth[d] + 1]
        BY <3>1 DEF d
      <3>9. HoldsIn(stack'[t], d) = H \cup {n}
        BY <3>2, <3>3 DEF H
      <3>10. \A u \in Threads : HoldsIn(stack'[u], d) # {} => u = t
        <4> SUFFICES ASSUME NEW u \in Threads, u # t, HoldsIn(stack[u], d) # {}
                     PROVE  FALSE
          BY <3>5
        <4>1. owner[d] = u
          BY <3>2 DEF LocksOK
        <4> QED
          BY <3>1, <4>1, SimpleCacheAssumption DEF Available, d
      <3>11. /\ owner' \in [Caches -> Threads \cup {Nobody}]
             /\ depth' \in [Caches -> Nat]
        BY <3>2, <3>8 DEF LocksOK
      <3>12. ASSUME NEW c \in Caches, c # d
             PROVE  /\ owner'[c] = owner[c] /\ depth'[c] = depth[c]
                    /\ \A u \in Threads : HoldsIn(stack'[u], c) = HoldsIn(stack[u], c)
        BY <3>3, <3>5, <3>8, <3>12 DEF LocksOK
      <3>13. owner'[d] = t /\ depth'[d] = Cardinality(HoldsIn(stack'[t], d))
        BY <3>2, <3>6, <3>7, <3>8, <3>9 DEF LocksOK
      <3>14. ASSUME NEW c \in Caches
             PROVE  /\ \A u \in Threads : HoldsIn(stack'[u], c) # {} => owner'[c] = u
                    /\ owner'[c] = Nobody => depth'[c] = 0
                    /\ owner'[c] # Nobody =>
                          HoldsIn(stack'[owner'[c]], c) # {}
                            /\ depth'[c] = Cardinality(HoldsIn(stack'[owner'[c]], c))
        <4>1. CASE c = d
          BY <3>9, <3>10, <3>13, <4>1, SimpleCacheAssumption
        <4>2. CASE c # d
          BY <3>12, <4>2 DEF LocksOK
        <4> QED
          BY <4>1, <4>2
      <3> QED
        BY <3>11, <3>14 DEF LocksOK
    <2>8. CASE Release(t)
      <3> DEFINE d == Inner(t).of.cache   H == HoldsIn(stack[t], d)   n == Len(stack[t])
      <3>1. /\ stack[t] # << >> /\ Inner(t).at # "lock"
            /\ stack' = [stack EXCEPT ![t] = Tail(stack[t])]
            /\ depth' = [depth EXCEPT ![d] = depth[d] - 1]
            /\ owner' = [owner EXCEPT ![d] = IF depth[d] = 1 THEN Nobody ELSE owner[d]]
        BY <2>8 DEF Release, Unlock
      <3>2. d \in Caches
        BY <2>0, <3>1, NthInner DEF Inner, Frame, Calls
      <3>3. /\ \A c \in Caches : HoldsIn(stack'[t], c) = HoldsIn(stack[t], c) \ {n}
            /\ \A c \in Caches : n \in HoldsIn(stack[t], c) <=> c = d
        BY <2>0, <3>1, HoldsPop DEF Inner
      <3>4. n \in H /\ owner[d] = t
        BY <3>2, <3>3 DEF LocksOK
      <3>5. \A u \in Threads : u # t => stack'[u] = stack[u]
        BY <2>0, <3>1
      <3>6. depth[d] = Cardinality(H)
        BY <3>2, <3>4, SimpleCacheAssumption DEF LocksOK
      <3>7. /\ IsFiniteSet(H) /\ IsFiniteSet(H \ {n})
            /\ Cardinality(H \ {n}) = Cardinality(H) - 1
            /\ Cardinality(H) \in Nat /\ Cardinality(H \ {n}) \in Nat
        BY <2>0, <3>4, HoldsFinite, FS_RemoveElement, FS_CardinalityType
      <3>8. Cardinality(H \ {n}) = 0 <=> H \ {n} = {}
        BY <3>7, FS_EmptySet
      <3> HIDE DEF d, H, n
      <3>9. HoldsIn(stack'[t], d) = H \ {n}
        BY <3>2, <3>3 DEF H
      <3>10. \A u \in Threads : HoldsIn(stack'[u], d) # {} => u = t
        BY <3>2, <3>4, <3>5 DEF LocksOK
      <3>11. depth'[d] = Cardinality(H \ {n}) /\ depth[d] - 1 = Cardinality(H \ {n})
        BY <3>1, <3>2, <3>6, <3>7 DEF LocksOK
      <3>12. /\ owner' \in [Caches -> Threads \cup {Nobody}]
             /\ depth' \in [Caches -> Nat]
        BY <3>1, <3>7, <3>11 DEF LocksOK
      <3>13. ASSUME NEW c \in Caches, c # d
             PROVE  /\ owner'[c] = owner[c] /\ depth'[c] = depth[c]
                    /\ \A u \in Threads : HoldsIn(stack'[u], c) = HoldsIn(stack[u], c)
        <4>1. owner'[c] = owner[c] /\ depth'[c] = depth[c]
          BY <3>1, <3>13 DEF LocksOK
        <4>2. HoldsIn(stack'[t], c) = HoldsIn(stack[t], c)
          BY <3>3, <3>13
        <4> QED
          BY <3>5, <4>1, <4>2
      <3>14. owner'[d] = IF H \ {n} = {} THEN Nobody ELSE t
        <4>1. depth[d] = 1 <=> Cardinality(H \ {n}) = 0
          BY <3>6, <3>7
        <4> QED
          BY <3>1, <3>2, <3>4, <3>8, <4>1 DEF LocksOK
      <3>15. ASSUME NEW c \in Caches
             PROVE  /\ \A u \in Threads : HoldsIn(stack'[u], c) # {} => owner'[c] = u
                    /\ owner'[c] = Nobody => depth'[c] = 0
                    /\ owner'[c] # Nobody =>
                          HoldsIn(stack'[owner'[c]], c) # {}
                            /\ depth'[c] = Cardinality(HoldsIn(stack'[owner'[c]], c))
        <4>1. CASE c = d
          BY <3>8, <3>9, <3>10, <3>11, <3>14, <4>1, SimpleCacheAssumption
        <4>2. CASE c # d
          BY <3>13, <4>2 DEF LocksOK
        <4> QED
          BY <4>1, <4>2
      <3> QED
        BY <3>12, <3>15 DEF LocksOK
    <2> QED
      BY <1>2, <2>3, <2>4, <2>5, <2>6, <2>7, <2>8 DEF Move
  <1> QED
    BY <1>1, <1>2, NextMoves

-----------------------------------------------------------------------------
(* No circle of threads waiting for each other's locks, if the caches do   *)
(* not call each other in a circle.                                        *)

\* <<d, c>>: calculators of c call d, another cache.
CalledBy == {p \in Caches \X Caches : <<p[2], p[1]>> \in CallsInto /\ p[1] # p[2]}

\* The same through any number of caches.
Below == TransitiveClosureOn(CalledBy, Caches)

Descends(s) ==
    \A i, j \in 1..Len(s) :
        i < j => \/ Nth(s, j).of.cache = Nth(s, i).of.cache
                 \/ <<Nth(s, j).of.cache, Nth(s, i).of.cache>> \in Below

\* A call is to its caller's cache or to one below it.
CallsDescend == \A t \in Threads : Descends(stack[t])

LEMMA FrameCache ==
    ASSUME NEW x \in Frame
    PROVE  x.of.cache \in Caches
  BY DEF Frame, Calls

\* What a cache's calculators call is that cache or below it, and what is below
\* something below is below.
LEMMA BelowFacts ==
    /\ \A c, d \in Caches : <<c, d>> \in CallsInto => c = d \/ <<d, c>> \in Below
    /\ \A b, c, d \in Caches : <<b, c>> \in Below /\ <<c, d>> \in Below => <<b, d>> \in Below
  <1>1. /\ CalledBy \cap Caches \X Caches \subseteq Below
        /\ IsTransitivelyClosedOn(Below, Caches)
    BY TransitiveClosureThm, Zenon DEF Below
  <1>2. \A c, d \in Caches : <<c, d>> \in CallsInto => c = d \/ <<d, c>> \in CalledBy
    BY DEF CalledBy
  <1>3. CalledBy \subseteq Caches \X Caches
    BY DEF CalledBy
  <1> QED
    BY <1>1, <1>2, <1>3 DEF IsTransitivelyClosedOn

LEMMA DescendStep ==
    ASSUME StacksOK, CallsDescend, [Next]_vars
    PROVE  CallsDescend'
  <1>1. CASE UNCHANGED stack
    BY <1>1 DEF CallsDescend
  <1>2. ASSUME NEW t \in Threads, Move(t)
        PROVE  CallsDescend'
    <2>1. stack \in [Threads -> Seq(Frame)] /\ stack[t] \in Seq(Frame) /\ Descends(stack[t])
      BY DEF StacksOK, CallsDescend
    <2>2. ASSUME NEW r \in Seq(Frame), Descends(r), stack' = [stack EXCEPT ![t] = r]
          PROVE  CallsDescend'
      BY <2>1, <2>2 DEF CallsDescend
    <2>3. CASE Enter(t)
      <3>1. PICK x \in Frame : stack' = [stack EXCEPT ![t] = <<x>>]
        BY <2>3 DEF Enter
      <3>2. <<x>> \in Seq(Frame) /\ Len(<<x>>) = 1
        BY NthFirst
      <3>3. Descends(<<x>>)
        BY <3>2 DEF Descends
      <3> QED
        BY <2>2, <3>1, <3>2, <3>3
    <2>4. CASE Nest(t)
      <3>1. PICK x, y \in Frame :
                /\ stack[t] # << >> /\ Inner(t).of = y.of
                /\ <<y.of.cache, x.of.cache>> \in CallsInto
                /\ stack' = [stack EXCEPT ![t] = <<x, y>> \o Tail(stack[t])]
        BY <2>4 DEF Nest
      <3> DEFINE s == stack[t]   r == <<x, y>> \o Tail(s)
      <3>2. /\ r \in Seq(Frame) /\ Len(r) = Len(s) + 1
            /\ Nth(r, Len(s) + 1) = x /\ Nth(r, Len(s)) = y
            /\ \A j \in 1..(Len(s) - 1) : Nth(r, j) = Nth(s, j)
        BY <2>1, <3>1, NthPush
      <3>3. Len(s) \in Nat \ {0} /\ Nth(s, Len(s)) = Inner(t)
        BY <2>1, <3>1, NthInner DEF Inner
      <3>4. x.of.cache \in Caches /\ y.of.cache \in Caches
        BY FrameCache
      <3>5. \A j \in 1..Len(s) : Nth(s, j).of.cache \in Caches
        BY <2>1, NthType, FrameCache
      <3>6. x.of.cache = y.of.cache \/ <<x.of.cache, y.of.cache>> \in Below
        BY <3>1, <3>4, BelowFacts
      <3> HIDE DEF s, r
      <3>7. \A j \in 1..Len(s) : Nth(r, j).of = Nth(s, j).of
        BY <3>1, <3>2, <3>3
      <3>8. ASSUME NEW i \in 1..Len(s)
            PROVE  \/ x.of.cache = Nth(s, i).of.cache
                   \/ <<x.of.cache, Nth(s, i).of.cache>> \in Below
        <4>1. \/ y.of.cache = Nth(s, i).of.cache
              \/ <<y.of.cache, Nth(s, i).of.cache>> \in Below
          <5>1. CASE i = Len(s)
            BY <3>1, <3>3, <5>1
          <5>2. CASE i < Len(s)
            <6>1. Len(s) \in 1..Len(s) /\ Descends(s)
              BY <2>1, <3>3 DEF s
            <6> QED
              BY <3>1, <3>3, <5>2, <6>1 DEF Descends
          <5> QED
            BY <3>3, <5>1, <5>2
        <4> QED
          BY <3>4, <3>5, <3>6, <4>1, BelowFacts
      <3>9. Descends(r)
        <4> SUFFICES ASSUME NEW i \in 1..Len(r), NEW j \in 1..Len(r), i < j
                     PROVE  \/ Nth(r, j).of.cache = Nth(r, i).of.cache
                            \/ <<Nth(r, j).of.cache, Nth(r, i).of.cache>> \in Below
          BY DEF Descends
        <4>1. i \in 1..Len(s)
          BY <3>2, <3>3
        <4>2. CASE j = Len(s) + 1
          BY <3>2, <3>7, <3>8, <4>1, <4>2
        <4>3. CASE j \in 1..Len(s)
          BY <2>1, <3>7, <4>1, <4>3 DEF Descends, s
        <4> QED
          BY <3>2, <3>3, <4>2, <4>3
      <3> QED
        BY <2>2, <3>1, <3>2, <3>9 DEF r, s
    <2>5. CASE Leave(t) \/ Release(t)
      <3>1. stack[t] # << >> /\ stack' = [stack EXCEPT ![t] = Tail(stack[t])]
        BY <2>5 DEF Leave, Release
      <3> DEFINE s == stack[t]   r == Tail(s)
      <3>2. /\ r \in Seq(Frame) /\ Len(r) = Len(s) - 1 /\ Len(s) \in Nat \ {0}
            /\ \A j \in 1..(Len(s) - 1) : Nth(r, j) = Nth(s, j)
        BY <2>1, <3>1, NthPop
      <3> HIDE DEF s, r
      <3>3. Descends(s)
        BY <2>1 DEF s
      <3>4. Descends(r)
        BY <3>2, <3>3 DEF Descends
      <3> QED
        BY <2>2, <3>1, <3>2, <3>4 DEF r, s
    <2>6. CASE Acquire(t) \/ Proceed(t)
      <3>1. PICK y \in Frame :
                /\ stack[t] # << >> /\ y.of = Inner(t).of
                /\ stack' = [stack EXCEPT ![t] = [stack[t] EXCEPT ![1] = y]]
        BY <2>6 DEF Acquire, Proceed
      <3> DEFINE s == stack[t]   r == [s EXCEPT ![1] = y]
      <3>2. /\ r \in Seq(Frame) /\ Len(r) = Len(s) /\ Nth(r, Len(s)) = y
            /\ \A j \in 1..(Len(s) - 1) : Nth(r, j) = Nth(s, j)
        BY <2>1, <3>1, NthSet
      <3>3. Len(s) \in Nat \ {0} /\ Nth(s, Len(s)) = Inner(t)
        BY <2>1, <3>1, NthInner DEF Inner
      <3> HIDE DEF s, r
      <3>4. \A j \in 1..Len(s) : Nth(r, j).of = Nth(s, j).of
        BY <3>1, <3>2, <3>3
      <3>5. Descends(s)
        BY <2>1 DEF s
      <3>6. Descends(r)
        BY <3>2, <3>4, <3>5 DEF Descends
      <3> QED
        BY <2>2, <3>1, <3>2, <3>6 DEF r, s
    <2> QED
      BY <1>2, <2>3, <2>4, <2>5, <2>6 DEF Move
  <1> QED
    BY <1>1, <1>2, NextMoves

WaitInv == StacksOK /\ LocksOK /\ CallsDescend

LEMMA WaitInvariance == Spec => []WaitInv
  <1>1. Init => WaitInv
    <2> SUFFICES ASSUME Init PROVE WaitInv
      OBVIOUS
    <2>1. \A t \in Threads : stack[t] = << >>
      BY DEF Init
    <2>2. stack \in [Threads -> Seq(Frame)]
      BY DEF Init
    <2>3. \A t \in Threads : Len(stack[t]) = 0
      BY <2>1
    <2>4. StacksOK /\ CallsDescend
      BY <2>2, <2>3 DEF StacksOK, WellNested, CallsDescend, Descends
    <2>5. \A t \in Threads, c \in Caches : HoldsIn(stack[t], c) = {}
      BY <2>3 DEF HoldsIn
    <2>6. LocksOK
      BY <2>5 DEF Init, LocksOK
    <2> QED
      BY <2>4, <2>6 DEF WaitInv
  <1>2. WaitInv /\ [Next]_vars => WaitInv'
    BY StacksStep, LocksStep, DescendStep DEF WaitInv
  <1> QED
    BY <1>1, <1>2, PTL DEF Spec

\* Threads never wait for each other's cache locks in a circle, whatever
\* threads, caches and keys there are and however deep calculators nest, if
\* calculators do not call caches in a circle: of the threads that wait, one
\* waits for a cache below which no thread waits, and the owner of that lock
\* would have to wait for that lock or below it.
THEOREM CachesDoNotDeadlock ==
    ASSUME IsWellFoundedOn(CalledBy, Caches)
    PROVE  Spec => []NoCircularWait
  <1>1. WaitInv => NoCircularWait
    <2> DEFINE busy == {t \in Threads : stack[t] # << >>}
               waitsFor(t) == Inner(t).of.cache
               waited == {waitsFor(t) : t \in busy}
    <2> SUFFICES ASSUME WaitInv, busy # {},
                        \A t \in busy : At(t) = "lock" /\ ~Available(t, Inner(t).of.cache)
                 PROVE  FALSE
      BY DEF NoCircularWait
    <2>1. \A t \in busy : /\ stack[t] \in Seq(Frame) /\ Inner(t) \in Frame
                          /\ Nth(stack[t], Len(stack[t])) = Inner(t)
                          /\ Len(stack[t]) \in Nat \ {0} /\ Inner(t).at = "lock"
      BY NthInner DEF WaitInv, StacksOK, Inner, At
    <2>2. waited \subseteq Caches /\ waited # {}
      BY <2>1, FrameCache
    <2>3. IsWellFoundedOn(Below, Caches)
      BY TransitiveClosureWF, Zenon DEF Below
    <2>4. \E c \in waited : \A d \in waited : ~(<<d, c>> \in Below)
      BY <2>2, <2>3, WFMin, Zenon
    <2>5. PICK t \in busy : \A u \in busy : ~(<<waitsFor(u), waitsFor(t)>> \in Below)
      BY <2>4
    <2>6. PICK u \in Threads : owner[waitsFor(t)] = u /\ u # t
      BY <2>1, <2>2 DEF WaitInv, LocksOK, Available
    <2>7. PICK j \in 1..Len(stack[u]) :
              Nth(stack[u], j).at # "lock" /\ Nth(stack[u], j).of.cache = waitsFor(t)
      <3>1. waitsFor(t) \in Caches
        BY <2>2
      <3>2. HoldsIn(stack[u], waitsFor(t)) # {}
        BY <2>6, <3>1, SimpleCacheAssumption DEF WaitInv, LocksOK
      <3> QED
        BY <3>2 DEF HoldsIn
    <2>8. u \in busy
      <3>1. stack[u] # << >>
        BY <2>7
      <3> QED
        BY <3>1
    <2>9. j < Len(stack[u])
      BY <2>1, <2>7, <2>8
    <2>10. \/ waitsFor(u) = waitsFor(t)
           \/ <<waitsFor(u), waitsFor(t)>> \in Below
      BY <2>1, <2>7, <2>8, <2>9 DEF WaitInv, CallsDescend, Descends
    <2>11. waitsFor(u) = waitsFor(t)
      BY <2>5, <2>8, <2>10
    <2> QED
      BY <2>6, <2>8, <2>11 DEF Available
  <1> QED
    BY <1>1, WaitInvariance, PTL

-----------------------------------------------------------------------------
(* Thread ids.                                                             *)

\* Induction, as a statement about a set of numbers.
LEMMA LeastNatural ==
    ASSUME NEW T \in SUBSET Nat, T # {}
    PROVE  \E m \in T : \A k \in T : m <= k
  <1>1. PICK m \in T : \A k \in T : ~(<<k, m>> \in OpToRel(<, Nat))
    BY NatLessThanWellFounded, WFMin
  <1>2. \A k \in T : ~(k < m)
    BY <1>1 DEF OpToRel
  <1> QED
    BY <1>2

LEMMA NaturalsAll ==
    ASSUME NEW S \in SUBSET Nat, 0 \in S, \A k \in S : k + 1 \in S
    PROVE  S = Nat
  <1> DEFINE T == Nat \ S
  <1> SUFFICES ASSUME T # {} PROVE FALSE
    OBVIOUS
  <1>1. PICK m \in T : \A k \in T : m <= k
    <2>1. T \subseteq Nat
      OBVIOUS
    <2> HIDE DEF T
    <2> QED
      BY <2>1, LeastNatural
  <1>2. m \in Nat /\ m # 0 /\ m - 1 \in Nat /\ ~(m <= m - 1) /\ (m - 1) + 1 = m
    OBVIOUS
  <1>3. m - 1 \in S
    BY <1>1, <1>2
  <1> QED
    BY <1>2, <1>3

\* A function on 0..n that starts with a and goes on as step says.
Recurs(f, n, a, step) ==
    /\ f \in [0..n -> Nat] /\ f[0] = a
    /\ \A k \in 1..n : f[k] = step[k][f[k - 1]]

LEMMA RecursionExists ==
    ASSUME NEW a \in Nat, NEW step \in [Nat -> [Nat -> Nat]]
    PROVE  \A n \in Nat : \E f : Recurs(f, n, a, step)
  <1> DEFINE S == {n \in Nat : \E f : Recurs(f, n, a, step)}
  <1>1. 0 \in S
    <2> DEFINE f == [k \in 0..0 |-> a]
    <2>1. Recurs(f, 0, a, step)
      BY DEF Recurs
    <2> QED
      BY <2>1
  <1>2. ASSUME NEW n \in S
        PROVE  n + 1 \in S
    <2>1. PICK f : Recurs(f, n, a, step)
      OBVIOUS
    <2>2. n \in Nat /\ f \in [0..n -> Nat] /\ f[0] = a
          /\ \A k \in 1..n : f[k] = step[k][f[k - 1]]
      BY <2>1 DEF Recurs
    <2> DEFINE next == step[n + 1][f[n]]
               g == [k \in 0..(n + 1) |-> IF k = n + 1 THEN next ELSE f[k]]
    <2>3. next \in Nat
      <3>1. n \in 0..n /\ n + 1 \in Nat
        BY <2>2
      <3>2. f[n] \in Nat /\ step[n + 1] \in [Nat -> Nat]
        BY <2>2, <3>1
      <3> QED
        BY <3>2
    <2>4. g \in [0..(n + 1) -> Nat] /\ g[0] = a /\ g[n + 1] = next
      <3> HIDE DEF next
      <3>1. \A k \in 0..(n + 1) : k # n + 1 => k \in 0..n
        BY <2>2
      <3>2. g \in [0..(n + 1) -> Nat]
        BY <2>2, <2>3, <3>1
      <3>3. 0 \in 0..(n + 1) /\ n + 1 \in 0..(n + 1) /\ 0 # n + 1
        BY <2>2
      <3> QED
        BY <2>2, <3>2, <3>3
    <2>5. \A k \in 0..n : g[k] = f[k]
      <3> HIDE DEF next
      <3> QED
        BY <2>2
    <2>6. ASSUME NEW k \in 1..(n + 1)
          PROVE  g[k] = step[k][g[k - 1]]
      <3> HIDE DEF g
      <3>1. CASE k = n + 1
        <4>1. k - 1 = n /\ n \in 0..n
          BY <2>2, <3>1
        <4> QED
          BY <2>4, <2>5, <3>1, <4>1
      <3>2. CASE k # n + 1
        <4>1. k \in 1..n /\ k \in 0..n /\ k - 1 \in 0..n
          BY <2>2, <3>2
        <4> QED
          BY <2>2, <2>5, <4>1
      <3> QED
        BY <3>1, <3>2
    <2>7. Recurs(g, n + 1, a, step)
      <3> HIDE DEF g
      <3> QED
        BY <2>4, <2>6 DEF Recurs
    <2> HIDE DEF g
    <2> QED
      BY <2>2, <2>7
  <1>3. S = Nat
    <2> HIDE DEF S
    <2>1. S \subseteq Nat
      BY DEF S
    <2> QED
      BY <1>1, <1>2, <2>1, NaturalsAll
  <1> QED
    BY <1>3

\* What is left of an id after each digit.
LEMMA QuotientFacts ==
    ASSUME NEW id \in Nat
    PROVE  /\ Quotients(id) \in [0..(id + 1) -> Nat] /\ Quotients(id)[0] = id
           /\ \A k \in 1..(id + 1) : Quotients(id)[k] = Quotients(id)[k - 1] \div 16
  <1> DEFINE step == [k \in Nat |-> [v \in Nat |-> v \div 16]]
             n == id + 1
             Is(f) == f = [k \in 0..n |-> IF k = 0 THEN id ELSE f[k - 1] \div 16]
             q == Quotients(id)
  <1>1. n \in Nat /\ step \in [Nat -> [Nat -> Nat]]
    OBVIOUS
  <1>2. PICK f : Recurs(f, n, id, step)
    <2> HIDE DEF step, n
    <2> QED
      BY <1>1, RecursionExists
  <1>3. f \in [0..n -> Nat] /\ f[0] = id /\ \A k \in 1..n : f[k] = f[k - 1] \div 16
    <2>1. /\ f \in [0..n -> Nat] /\ f[0] = id
          /\ \A k \in 1..n : f[k] = step[k][f[k - 1]]
      <3> HIDE DEF step, n
      <3> QED
        BY <1>2 DEF Recurs
    <2>2. \A k \in 1..n : k \in Nat /\ k - 1 \in 0..n
      BY <1>1
    <2>3. \A k, v \in Nat : step[k][v] = v \div 16
      OBVIOUS
    <2> HIDE DEF step, n
    <2>4. \A k \in 1..n : k \in Nat /\ f[k - 1] \in Nat
      BY <2>1, <2>2
    <2>5. ASSUME NEW k \in 1..n
          PROVE  f[k] = f[k - 1] \div 16
      <3>1. k \in Nat /\ f[k - 1] \in Nat /\ f[k] = step[k][f[k - 1]]
        BY <2>1, <2>4
      <3> DEFINE w == f[k - 1]
      <3> HIDE DEF w
      <3>2. f[k] = w \div 16
        BY <2>3, <3>1 DEF w
      <3> QED
        BY <3>2 DEF w
    <2> QED
      BY <2>1, <2>5
  <1> HIDE DEF n, step
  <1>4. Is(f)
    <2>1. \A k \in 0..n : f[k] = IF k = 0 THEN id ELSE f[k - 1] \div 16
      BY <1>1, <1>3
    <2> QED
      BY <1>3, <2>1
  <1>5. Is(q)
    <2>1. q = CHOOSE g : Is(g)
      BY DEF Quotients, n
    <2> HIDE DEF Is, q
    <2> QED
      BY <1>4, <2>1
  <1>6. DOMAIN q = 0..n /\ q[0] = id /\ \A k \in 1..n : q[k] = q[k - 1] \div 16
    <2> HIDE DEF q
    <2>1. 0 \in 0..n /\ \A k \in 1..n : k \in 0..n /\ k # 0
      BY <1>1
    <2>2. \A k \in 0..n : q[k] = IF k = 0 THEN id ELSE q[k - 1] \div 16
      BY <1>5
    <2>3. DOMAIN q = 0..n
      BY <1>5
    <2> HIDE DEF Is
    <2> QED
      BY <2>1, <2>2, <2>3
  <1> DEFINE S == {k \in Nat : k \in 0..n => q[k] \in Nat}
  <1> HIDE DEF q
  <1>7. 0 \in S
    BY <1>6
  <1>8. ASSUME NEW k \in S
        PROVE  k + 1 \in S
    <2> SUFFICES ASSUME k + 1 \in 0..n
                 PROVE  q[k + 1] \in Nat
      OBVIOUS
    <2>1. k \in 0..n /\ k + 1 \in 1..n /\ (k + 1) - 1 = k
      BY <1>1
    <2>2. q[k] \in Nat
      BY <2>1
    <2>3. q[k + 1] = q[k] \div 16
      BY <1>6, <2>1
    <2> QED
      BY <2>2, <2>3
  <1>9. S = Nat
    <2> HIDE DEF S
    <2>1. S \subseteq Nat
      BY DEF S
    <2> QED
      BY <1>7, <1>8, <2>1, NaturalsAll
  <1>10. \A k \in 0..n : q[k] \in Nat
    <2> TAKE k \in 0..n
    <2>1. k \in Nat
      BY <1>1
    <2>2. k \in S
      <3> HIDE DEF S
      <3> QED
        BY <1>9, <2>1
    <2> QED
      BY <2>2
  <1>11. q \in [0..n -> Nat]
    <2>1. q = [k \in 0..n |-> q[k]]
      BY <1>5
    <2> QED
      BY <1>10, <2>1
  <1> QED
    BY <1>6, <1>11 DEF n, q

\* All digits are found: an id of n has at most n + 1.
LEMMA QuotientsEnd ==
    ASSUME NEW id \in Nat
    PROVE  \E n \in 1..(id + 1) :
               /\ Quotients(id)[n] = 0 /\ (n > 1 => Quotients(id)[n - 1] # 0)
  <1> DEFINE q == Quotients(id)   last == id + 1
             S == {k \in Nat : k \in 0..last => q[k] = 0 \/ k + q[k] <= id}
             Z == {k \in Nat : k \in 1..last /\ q[k] = 0}
  <1>1. /\ q \in [0..last -> Nat] /\ q[0] = id
        /\ \A k \in 1..last : q[k] = q[k - 1] \div 16
    BY QuotientFacts
  <1>2. last \in Nat /\ last \in 1..last /\ last \in 0..last /\ last > id
    OBVIOUS
  <1> HIDE DEF q
  <1>3. 0 \in S
    BY <1>1
  <1>4. ASSUME NEW k \in S
        PROVE  k + 1 \in S
    <2> SUFFICES ASSUME k + 1 \in 0..last
                 PROVE  q[k + 1] = 0 \/ (k + 1) + q[k + 1] <= id
      OBVIOUS
    <2>1. k \in 0..last /\ k + 1 \in 1..last /\ (k + 1) - 1 = k /\ k \in Nat
      BY <1>2
    <2>2. q[k] \in Nat /\ q[k + 1] = q[k] \div 16 /\ (q[k] = 0 \/ k + q[k] <= id)
      BY <1>1, <2>1
    <2>3. \A v \in Nat : v \div 16 \in Nat /\ (v = 0 \/ (v \div 16) + 1 <= v)
                           /\ (v = 0 => v \div 16 = 0)
      OBVIOUS
    <2>4. q[k + 1] \in Nat /\ (q[k] = 0 => q[k + 1] = 0) /\ (q[k] = 0 \/ q[k + 1] + 1 <= q[k])
      BY <2>2, <2>3
    <2>5. \A v, w \in Nat : v + 1 <= w /\ k + w <= id => (k + 1) + v <= id
      BY <2>1
    <2> QED
      BY <2>2, <2>4, <2>5
  <1>5. S = Nat
    <2> HIDE DEF S
    <2>1. S \subseteq Nat
      BY DEF S
    <2> QED
      BY <1>3, <1>4, <2>1, NaturalsAll
  <1>6. q[last] = 0
    <2>1. q[last] = 0 \/ last + q[last] <= id
      BY <1>2, <1>5
    <2>2. q[last] \in Nat
      BY <1>1, <1>2
    <2> QED
      BY <1>2, <2>1, <2>2
  <1>7. last \in Z /\ Z \subseteq Nat
    BY <1>2, <1>6
  <1>8. PICK n \in Z : \A k \in Z : n <= k
    <2> HIDE DEF Z
    <2> QED
      BY <1>7, LeastNatural
  <1>9. n \in Nat /\ n \in 1..last /\ q[n] = 0
    OBVIOUS
  <1>10. ASSUME n > 1, q[n - 1] = 0
         PROVE  FALSE
    <2>1. n - 1 \in Z
      BY <1>2, <1>9, <1>10
    <2> QED
      BY <1>8, <1>9, <2>1
  <1> QED
    BY <1>9, <1>10 DEF q, last

\* What %X reads of the digits: the recursive function of Values.
LEMMA ValueFacts ==
    ASSUME NEW hex \in Seq(Nat)
    PROVE  /\ Values(hex)[0] = 0
           /\ \A k \in 1..Len(hex) : Values(hex)[k] = 16 * Values(hex)[k - 1] + hex[k]
  <1> DEFINE n == Len(hex)
             digit == [k \in Nat |-> IF k \in 1..n THEN hex[k] ELSE 0]
             step == [k \in Nat |-> [v \in Nat |-> 16 * v + digit[k]]]
             Is(f) == f = [k \in 0..n |-> IF k = 0 THEN 0 ELSE 16 * f[k - 1] + hex[k]]
             v == Values(hex)
  <1>1. n \in Nat /\ digit \in [Nat -> Nat] /\ \A k \in 1..n : digit[k] = hex[k]
    OBVIOUS
  <1> HIDE DEF n, digit
  <1>2. step \in [Nat -> [Nat -> Nat]] /\ \A k, w \in Nat : step[k][w] = 16 * w + digit[k]
    <2>0. \A k \in Nat : \A w \in Nat : 16 * w + digit[k] \in Nat
      <3> TAKE k \in Nat
      <3> DEFINE d == digit[k]
      <3>1. d \in Nat
        BY <1>1
      <3> HIDE DEF d
      <3>2. \A w \in Nat : 16 * w + d \in Nat
        BY <3>1
      <3> QED
        BY <3>2 DEF d
    <2>1. \A k \in Nat : [w \in Nat |-> 16 * w + digit[k]] \in [Nat -> Nat]
      BY <2>0
    <2>2. \A k \in Nat : step[k] = [w \in Nat |-> 16 * w + digit[k]]
      OBVIOUS
    <2>3. step \in [Nat -> [Nat -> Nat]]
      BY <2>1
    <2> HIDE DEF step
    <2> QED
      BY <2>2, <2>3
  <1>3. PICK f : Recurs(f, n, 0, step)
    <2> DEFINE zero == 0
    <2>1. zero \in Nat
      OBVIOUS
    <2> HIDE DEF step, zero
    <2>2. \E f : Recurs(f, n, zero, step)
      BY <1>1, <1>2, <2>1, RecursionExists
    <2> QED
      BY <2>2 DEF zero
  <1> HIDE DEF step
  <1>4. f \in [0..n -> Nat] /\ f[0] = 0 /\ \A k \in 1..n : f[k] = step[k][f[k - 1]]
    BY <1>3 DEF Recurs
  <1>5. \A k \in 1..n : f[k] = 16 * f[k - 1] + hex[k]
    <2>1. \A k \in 1..n : k \in Nat /\ k - 1 \in 0..n
      BY <1>1
    <2>2. \A k \in 1..n : k \in Nat /\ f[k - 1] \in Nat
      BY <1>4, <2>1
    <2> QED
      BY <1>1, <1>2, <1>4, <2>2, Zenon
  <1>6. Is(f)
    <2>0. \A k \in 0..n : k # 0 => k \in 1..n
      BY <1>1
    <2>1. \A k \in 0..n : f[k] = IF k = 0 THEN 0 ELSE 16 * f[k - 1] + hex[k]
      BY <1>4, <1>5, <2>0
    <2> QED
      BY <1>4, <2>1
  <1>7. Is(v)
    <2>1. v = CHOOSE g : Is(g)
      BY DEF Values, n
    <2> HIDE DEF Is, v
    <2> QED
      BY <1>6, <2>1
  <1>8. \A k \in 0..n : v[k] = IF k = 0 THEN 0 ELSE 16 * v[k - 1] + hex[k]
    <2> HIDE DEF v
    <2> QED
      BY <1>7
  <1>9. 0 \in 0..n /\ \A k \in 1..n : k \in 0..n /\ k # 0
    BY <1>1
  <1>10. v[0] = 0 /\ \A k \in 1..n : v[k] = 16 * v[k - 1] + hex[k]
    <2> HIDE DEF v, Is
    <2> QED
      BY <1>8, <1>9
  <1> QED
    BY <1>10 DEF v, n

\* A number is its digits but the last, and the last.
LEMMA DigitSplits ==
    ASSUME NEW w \in Nat
    PROVE  w = 16 * (w \div 16) + (w % 16)
  OBVIOUS

\* GetThreadID reads back every id: the digits that %x writes are the remainders
\* of the quotients, so that reading k of them gives the k-th quotient from the
\* last.
THEOREM IdsReadBack ==
    ASSUME NEW id \in Nat
    PROVE  GetThreadID(TidFrames(id)) = id
  <1> DEFINE q == Quotients(id)
             Ends(n) == q[n] = 0 /\ (n > 1 => q[n - 1] # 0)
             length == CHOOSE n \in 1..(id + 1) : Ends(n)
             hex == convertToNibbles(id)   v == Values(hex)
             S == {k \in Nat : k \in 0..length => v[k] = q[length - k]}
  <1>1. /\ q \in [0..(id + 1) -> Nat] /\ q[0] = id
        /\ \A k \in 1..(id + 1) : q[k] = q[k - 1] \div 16
    BY QuotientFacts
  <1>2. length \in 1..(id + 1) /\ q[length] = 0
    <2>1. \E n \in 1..(id + 1) : Ends(n)
      BY QuotientsEnd
    <2>2. length \in 1..(id + 1) /\ Ends(length)
      <3> HIDE DEF Ends
      <3> QED
        BY <2>1
    <2> QED
      BY <2>2
  <1>3. hex = [i \in 1..length |-> q[length - i] % 16]
    BY DEF convertToNibbles
  <1> HIDE DEF q, length, hex
  <1>4. length \in Nat /\ length > 0 /\ \A k \in 0..length : length - k \in 0..(id + 1)
    BY <1>2
  <1>5. hex \in Seq(Nat) /\ Len(hex) = length /\ \A i \in 1..length : hex[i] = q[length - i] % 16
    <2>1. \A i \in 1..length : length - i \in 0..(id + 1)
      BY <1>4
    <2>2. \A i \in 1..length : q[length - i] \in Nat
      BY <1>1, <2>1
    <2>3. \A w \in Nat : w % 16 \in Nat
      OBVIOUS
    <2>4. hex \in [1..length -> Nat]
      BY <1>3, <2>2, <2>3
    <2>5. \A i \in 1..length : hex[i] = q[length - i] % 16
      BY <1>3
    <2>6. hex \in Seq(Nat) /\ Len(hex) = length
      BY <1>4, <2>4
    <2> QED
      BY <2>5, <2>6
  <1>6. Reverse(TidFrames(id)) = hex /\ TidFrames(id) # << >>
    <2> DEFINE frames == TidFrames(id)
    <2>1. frames = [i \in 1..length |-> hex[(length - i) + 1]]
      BY <1>5 DEF TidFrames, Reverse, hex
    <2>2. \A i \in 1..length : (length - i) + 1 \in 1..length
                               /\ (length - ((length - i) + 1)) + 1 = i
      BY <1>4
    <2> HIDE DEF frames
    <2>3. frames \in [1..length -> Nat] /\ \A i \in 1..length : frames[i] = hex[(length - i) + 1]
      BY <1>5, <2>1, <2>2
    <2>4. frames \in Seq(Nat) /\ Len(frames) = length
      BY <1>4, <2>3
    <2>5. Reverse(frames) = [i \in 1..length |-> frames[(length - i) + 1]]
      BY <2>4 DEF Reverse
    <2>6. \A i \in 1..length : frames[(length - i) + 1] = hex[i]
      BY <2>2, <2>3
    <2>7. Reverse(frames) = [i \in 1..length |-> hex[i]]
      BY <2>5, <2>6
    <2>8. hex = [i \in 1..length |-> hex[i]]
      BY <1>3
    <2>9. frames # << >>
      BY <1>4, <2>4
    <2> QED
      BY <2>7, <2>8, <2>9 DEF frames
  <1>7. v[0] = 0 /\ \A k \in 1..length : v[k] = 16 * v[k - 1] + hex[k]
    BY <1>5, ValueFacts
  <1> HIDE DEF v
  <1>8. 0 \in S
    BY <1>2, <1>4, <1>7
  <1>9. ASSUME NEW k \in S
        PROVE  k + 1 \in S
    <2> SUFFICES ASSUME k + 1 \in 0..length
                 PROVE  v[k + 1] = q[length - (k + 1)]
      OBVIOUS
    <2> DEFINE m == length - (k + 1)
    <2>1. /\ k \in 0..length /\ k + 1 \in 1..length /\ (k + 1) - 1 = k
          /\ m \in 0..(id + 1) /\ m + 1 \in 1..(id + 1) /\ (m + 1) - 1 = m
          /\ m + 1 = length - k
      BY <1>2, <1>4
    <2>2. v[k] = q[m + 1] /\ v[k + 1] = 16 * v[k] + (q[m] % 16)
      <3>1. v[k] = q[length - k]
        BY <2>1
      <3>2. v[k + 1] = 16 * v[(k + 1) - 1] + hex[k + 1]
        BY <1>7, <2>1
      <3>3. hex[k + 1] = q[m] % 16
        BY <1>5, <2>1
      <3> HIDE DEF m, S
      <3> QED
        BY <2>1, <3>1, <3>2, <3>3
    <2>3. q[m] \in Nat /\ q[m + 1] = q[m] \div 16
      BY <1>1, <2>1
    <2>4. q[m] = 16 * (q[m] \div 16) + (q[m] % 16)
      BY <2>3, DigitSplits
    <2> HIDE DEF m
    <2>5. v[k + 1] = q[m]
      BY <2>2, <2>3, <2>4
    <2> QED
      BY <2>5 DEF m
  <1>10. S = Nat
    <2> HIDE DEF S
    <2>1. S \subseteq Nat
      BY DEF S
    <2> QED
      BY <1>8, <1>9, <2>1, NaturalsAll
  <1>11. v[length] = id
    <2>1. length \in 0..length /\ length - length = 0
      BY <1>4
    <2> QED
      BY <1>1, <1>4, <1>10, <2>1
  <1> QED
    BY <1>5, <1>6, <1>11 DEF GetThreadID, v

-----------------------------------------------------------------------------
(* Thread locals.  An entry is filed under the id GetThreadID reads from   *)
(* the stack, and removed under the id Go gave the thread.                 *)

Entry == [tid : Nat, of : Threads, local : Nat]

LocalsOK ==
    /\ lastTid \in Nat
    /\ life \in [Threads -> {"new", "run", "end", "gone"}]
    /\ tid \in [Threads -> Nat]
    /\ tables \in Seq(SUBSET Entry)
    /\ current \in [Names -> Nat]
    /\ made \in [Threads -> Nat]
    /\ call \in [Threads -> [at : {"create", "local"}, name : Names, table : Nat]
                                \cup {NoCall}]
    /\ given \in [Threads -> [Names -> Nat]]
    /\ endsWith \in [Threads -> SUBSET Names]
    /\ establish \in Names \cup {NoName}

\* No two threads have the same id, now or later.
IdsDistinct ==
    \A t, u \in Threads :
        life[t] # "new" => /\ tid[t] <= lastTid
                           /\ life[u] # "new" /\ tid[t] = tid[u] => t = u

\* An established name has operators of its own.
TablesFit ==
    /\ \A n \in Names : current[n] <= Len(tables)
    /\ \A n \in Established : current[n] # 0
    /\ \A n \in Established, m \in Names : current[m] = current[n] => m = n
    /\ establish # NoName => establish \notin Established

\* A GetThreadLocal in progress has the operators of its name, if the name is an
\* established one, and otherwise some that no established name has.
CallsFit ==
    \A t \in Threads : call[t] # NoCall =>
        /\ life[t] = "run"
        /\ call[t].at = "create" => call[t].name \notin Established
        /\ call[t].at = "local" =>
              /\ call[t].table \in 1..Len(tables)
              /\ \A n \in Established : call[t].table = current[n] <=> call[t].name = n

\* An entry is filed under its thread's id, and a thread has one at most.
EntriesFit ==
    \A i \in 1..Len(tables) : \A a \in tables[i] :
        /\ life[a.of] # "new" /\ a.tid = tid[a.of] /\ a.local # 0
        /\ \A b \in tables[i] : a.of = b.of => a = b

\* The entries of a thread that ends are the ones it has still to visit.
EndsFit ==
    \A t \in Threads :
        /\ \A n \in endsWith[t] : current[n] # 0
        /\ life[t] \in {"end", "gone"} =>
              \A n \in Established : \A a \in tables[current[n]] :
                  a.of = t => life[t] = "end" /\ n \in endsWith[t]

\* What a thread was given is still there.
GivenFit ==
    \A t \in Threads, n \in Established :
        life[t] \in {"new", "run"} /\ given[t][n] # 0 =>
            \E a \in tables[current[n]] : a.of = t /\ a.local = given[t][n]

LocalInv ==
    /\ LocalsOK /\ IdsDistinct /\ TablesFit /\ CallsFit
    /\ EntriesFit /\ EndsFit /\ GivenFit

\* The operators of the established names, to begin with.
LEMMA FirstTables ==
    /\ Len(EstablishedSeq) \in Nat
    /\ \A n \in Established : \E i \in 1..Len(EstablishedSeq) : EstablishedSeq[i] = n
    /\ DOMAIN EstablishedSeq = 1..Len(EstablishedSeq)
  <1> DEFINE N == Cardinality(Established)
             F == {f \in [1..N -> Established] : IsInjective(f)}
  <1>1. IsFiniteSet(Established)
    BY FS_Subset, ThreadLocalsAssumption
  <1>2. N \in Nat /\ ExistsBijection(1..N, Established)
    BY <1>1, FS_CardinalityType, Zenon
  <1>3. PICK g \in [1..N -> Established] : IsInjective(g)
    BY <1>2 DEF ExistsBijection, Bijection, Injection, IsInjective
  <1>4. EstablishedSeq = CHOOSE f \in [1..N -> Established] : IsInjective(f)
    BY DEF EstablishedSeq, SetToSeq
  <1>5. EstablishedSeq \in [1..N -> Established] /\ IsInjective(EstablishedSeq)
    BY <1>3, <1>4
  <1>6. /\ EstablishedSeq \in Injection(1..N, Established)
        /\ 1 \in Int /\ N \in Int
    BY <1>2, <1>5 DEF Injection, IsInjective
  <1>7. IsFiniteSet(1..N) /\ Cardinality(1..N) = N
    BY <1>2, <1>6, FS_Interval
  <1>8. EstablishedSeq \in Surjection(1..N, Established)
    BY <1>1, <1>6, <1>7, FS_Injection
  <1>9. \A n \in Established : \E i \in 1..N : EstablishedSeq[i] = n
    BY <1>8 DEF Surjection
  <1>10. Len(EstablishedSeq) = N /\ DOMAIN EstablishedSeq = 1..N
    BY <1>2, <1>5
  <1> QED
    BY <1>2, <1>9, <1>10

\* A thread files its entries under the id it was given.
LEMMA MyTidIsTid ==
    ASSUME LocalsOK, NEW t \in Threads
    PROVE  MyTid(t) = tid[t]
  BY IdsReadBack DEF LocalsOK, MyTid

LEMMA LocalInvInit == LocalInit => LocalInv
  <1> SUFFICES ASSUME LocalInit PROVE LocalInv
    OBVIOUS
  <1> DEFINE N == Len(EstablishedSeq)
  <1>1. \A t \in Threads : /\ life[t] = "new" /\ tid[t] = 0 /\ call[t] = NoCall
                           /\ endsWith[t] = {}
                           /\ \A n \in Names : given[t][n] = 0
    BY DEF LocalInit
  <1>2. N \in Nat /\ DOMAIN EstablishedSeq = 1..N
    BY FirstTables
  <1>3. tables = [i \in 1..N |-> {}]
    BY DEF LocalInit
  <1> HIDE DEF N
  <1>4. tables \in Seq(SUBSET Entry) /\ Len(tables) = N /\ \A i \in 1..N : tables[i] = {}
    <2>1. \A i \in 1..N : {} \in SUBSET Entry
      OBVIOUS
    <2> QED
      BY <1>2, <1>3, <2>1
  <1>5. \A n \in Established : /\ current[n] \in 1..N
                               /\ EstablishedSeq[current[n]] = n
    <2> SUFFICES ASSUME NEW n \in Established
                 PROVE  current[n] \in 1..N /\ EstablishedSeq[current[n]] = n
      OBVIOUS
    <2>1. \E i \in 1..N : EstablishedSeq[i] = n
      BY FirstTables DEF N
    <2>2. current[n] = CHOOSE i \in DOMAIN EstablishedSeq : EstablishedSeq[i] = n
      BY ThreadLocalsAssumption DEF LocalInit
    <2> QED
      BY <1>2, <2>1, <2>2
  <1>6. \A n \in Names : n \notin Established => current[n] = 0
    BY DEF LocalInit
  <1>7. LocalsOK
    <2>1. lastTid \in Nat
      BY ThreadLocalsAssumption DEF LocalInit
    <2>2. current \in [Names -> Nat]
      <3>1. \A n \in Names : current[n] \in Nat
        BY <1>2, <1>5, <1>6
      <3>2. current = [n \in Names |-> current[n]]
        BY DEF LocalInit
      <3> QED
        BY <3>1, <3>2
    <2> QED
      BY <1>4, <2>1, <2>2 DEF LocalInit, LocalsOK
  <1>8. IdsDistinct /\ CallsFit /\ GivenFit
    BY <1>1, ThreadLocalsAssumption DEF IdsDistinct, CallsFit, GivenFit
  <1>9. TablesFit
    <2>1. \A n \in Names : current[n] <= N
      BY <1>2, <1>5, <1>6
    <2>2. establish = NoName
      BY DEF LocalInit
    <2> QED
      BY <1>2, <1>4, <1>5, <1>6, <2>1, <2>2 DEF TablesFit
  <1>10. EntriesFit
    BY <1>4 DEF EntriesFit
  <1>11. EndsFit
    BY <1>1 DEF EndsFit
  <1> QED
    BY <1>7, <1>8, <1>9, <1>10, <1>11 DEF LocalInv

\* No step of a thread, or of an EstablishThreadLocal, breaks this.
LEMMA LocalInvStep ==
    ASSUME LocalInv, [LocalNext]_localVars
    PROVE  LocalInv'
  <1> USE DEF LocalInv
  <1>1. CASE UNCHANGED localVars
    BY <1>1 DEF localVars, LocalsOK, IdsDistinct, TablesFit, CallsFit,
                EntriesFit, EndsFit, GivenFit
  <1>2. CASE GoRefused
    <2>1. /\ lastTid' = lastTid + 1
          /\ UNCHANGED <<life, tid, tables, current, made, call, given, endsWith, establish>>
      BY <1>2 DEF GoRefused
    <2>2. LocalsOK' /\ IdsDistinct'
      BY <2>1 DEF LocalsOK, IdsDistinct
    <2> QED
      BY <2>1, <2>2 DEF TablesFit, CallsFit, EntriesFit, EndsFit, GivenFit
  <1>3. ASSUME NEW n \in Names, EstablishThreadLocal(n)
        PROVE  LocalInv'
    <2>1. /\ establish' = n /\ current[n] = 0
          /\ UNCHANGED <<lastTid, life, tid, tables, current, made, call, given, endsWith>>
      BY <1>3 DEF EstablishThreadLocal
    <2>2. LocalsOK'
      BY <2>1 DEF LocalsOK
    <2>3. TablesFit'
      BY <2>1 DEF TablesFit
    <2> QED
      BY <2>1, <2>2, <2>3 DEF IdsDistinct, CallsFit, EntriesFit, EndsFit, GivenFit
  <1>4. ASSUME NEW t \in Threads, Go(t)
        PROVE  LocalInv'
    <2>1. /\ life[t] = "new" /\ lastTid' = lastTid + 1
          /\ tid' = [tid EXCEPT ![t] = lastTid + 1]
          /\ life' = [life EXCEPT ![t] = "run"]
          /\ UNCHANGED <<tables, current, made, call, given, endsWith, establish>>
      BY <1>4 DEF Go
    <2>2. LocalsOK'
      BY <2>1 DEF LocalsOK
    <2>3. IdsDistinct'
      BY <2>1 DEF IdsDistinct, LocalsOK
    <2>4. TablesFit'
      BY <2>1 DEF TablesFit
    <2>5. CallsFit'
      BY <2>1 DEF CallsFit, LocalsOK
    <2>6. EntriesFit'
      BY <2>1 DEF EntriesFit, LocalsOK, Entry
    <2>7. EndsFit'
      BY <2>1 DEF EndsFit, LocalsOK
    <2>8. GivenFit'
      BY <2>1 DEF GivenFit, LocalsOK
    <2> QED
      BY <2>2, <2>3, <2>4, <2>5, <2>6, <2>7, <2>8
  <1>5. ASSUME NEW t \in Threads, NEW n \in Names, LookUp(t, n)
        PROVE  LocalInv'
    <2>1. /\ life[t] = "run"
          /\ call' = [call EXCEPT ![t] =
                [at |-> IF current[n] = 0 THEN "create" ELSE "local",
                 name |-> n, table |-> current[n]]]
          /\ UNCHANGED <<lastTid, life, tid, tables, current, made, given, endsWith, establish>>
      BY <1>5 DEF LookUp
    <2>2. LocalsOK'
      BY <2>1 DEF LocalsOK
    <2>3. CallsFit'
      BY <2>1 DEF CallsFit, TablesFit, LocalsOK
    <2> QED
      BY <2>1, <2>2, <2>3 DEF IdsDistinct, TablesFit, EntriesFit, EndsFit, GivenFit
  <1>6. ASSUME NEW t \in Threads, EndThread(t)
        PROVE  LocalInv'
    <2>1. /\ life[t] = "run" /\ call[t] = NoCall
          /\ life' = [life EXCEPT ![t] = "end"]
          /\ endsWith' = [endsWith EXCEPT ![t] = {n \in Names : current[n] # 0}]
          /\ UNCHANGED <<lastTid, tid, tables, current, made, call, given, establish>>
      BY <1>6 DEF EndThread
    <2>2. LocalsOK'
      BY <2>1 DEF LocalsOK
    <2>3. IdsDistinct'
      BY <2>1 DEF IdsDistinct, LocalsOK
    <2>4. TablesFit'
      BY <2>1 DEF TablesFit
    <2>5. CallsFit'
      BY <2>1 DEF CallsFit, LocalsOK
    <2>6. EntriesFit'
      BY <2>1 DEF EntriesFit, LocalsOK, Entry
    <2>7. EndsFit'
      BY <2>1, ThreadLocalsAssumption DEF EndsFit, LocalsOK, TablesFit
    <2>8. GivenFit'
      BY <2>1 DEF GivenFit, LocalsOK
    <2> QED
      BY <2>2, <2>3, <2>4, <2>5, <2>6, <2>7, <2>8
  <1>7. ASSUME NEW t \in Threads, Gone(t)
        PROVE  LocalInv'
    <2>1. /\ life[t] = "end" /\ endsWith[t] = {}
          /\ life' = [life EXCEPT ![t] = "gone"]
          /\ UNCHANGED <<lastTid, tid, tables, current, made, call, given, endsWith, establish>>
      BY <1>7 DEF Gone
    <2>2. LocalsOK'
      BY <2>1 DEF LocalsOK
    <2>3. IdsDistinct'
      BY <2>1 DEF IdsDistinct, LocalsOK
    <2>4. TablesFit'
      BY <2>1 DEF TablesFit
    <2>5. CallsFit'
      BY <2>1 DEF CallsFit, LocalsOK
    <2>6. EntriesFit'
      BY <2>1 DEF EntriesFit, LocalsOK, Entry
    <2>7. EndsFit'
      BY <2>1 DEF EndsFit, LocalsOK
    <2>8. GivenFit'
      BY <2>1 DEF GivenFit, LocalsOK
    <2> QED
      BY <2>2, <2>3, <2>4, <2>5, <2>6, <2>7, <2>8
  <1>8. CASE EstablishWrites \/ \E t \in Threads : CreateOperators(t)
    <2>1. PICK m \in Names :
              /\ m \notin Established
              /\ tables' = Append(tables, {})
              /\ current' = [current EXCEPT ![m] = Len(tables) + 1]
              /\ UNCHANGED <<lastTid, life, tid, made, given, endsWith>>
      <3>1. CASE EstablishWrites
        BY <3>1 DEF EstablishWrites, LocalsOK, TablesFit
      <3>2. ASSUME NEW t \in Threads, CreateOperators(t)
            PROVE  /\ call[t].name \in Names /\ call[t].name \notin Established
                   /\ tables' = Append(tables, {})
                   /\ current' = [current EXCEPT ![call[t].name] = Len(tables) + 1]
                   /\ UNCHANGED <<lastTid, life, tid, made, given, endsWith>>
        BY <3>2 DEF CreateOperators, LocalsOK, CallsFit, NoCall
      <3> QED
        BY <1>8, <3>1, <3>2
    <2> DEFINE N == Len(tables)
    <2>2. /\ N \in Nat /\ tables' \in Seq(SUBSET Entry) /\ Len(tables') = N + 1
          /\ tables'[N + 1] = {} /\ \A i \in 1..N : tables'[i] = tables[i]
      <3>1. tables \in Seq(SUBSET Entry) /\ {} \in SUBSET Entry
        BY DEF LocalsOK
      <3> QED
        BY <2>1, <3>1, AppendProperties
    <2>3. \A n \in Established : /\ current'[n] = current[n] /\ current[n] \in 1..N
                                 /\ tables'[current[n]] = tables[current[n]]
      BY <2>1, <2>2, ThreadLocalsAssumption DEF LocalsOK, TablesFit
    <2> HIDE DEF N
    <2>4. TablesFit'
      <3>1. \A n \in Names : current'[n] = IF n = m THEN N + 1 ELSE current[n]
        BY <2>1 DEF LocalsOK, N
      <3>2. establish' # NoName => establish' \notin Established
        BY <1>8 DEF EstablishWrites, CreateOperators, TablesFit
      <3>3. \A n \in Names : current[n] \in 0..N
        BY <2>2 DEF LocalsOK, TablesFit, N
      <3>4. \A n \in Names : current'[n] <= Len(tables')
        BY <2>2, <3>1, <3>3
      <3>5. \A n \in Established, k \in Names : current'[k] = current'[n] => k = n
        BY <2>1, <2>2, <2>3, <3>1 DEF TablesFit
      <3> QED
        BY <2>2, <2>3, <3>2, <3>4, <3>5 DEF TablesFit
    <2>5. EntriesFit'
      BY <2>1, <2>2 DEF EntriesFit, N
    <2>6. EndsFit'
      <3>1. \A n \in Names : current[n] # 0 => current'[n] # 0
        BY <2>1, <2>2 DEF LocalsOK, N
      <3>2. UNCHANGED <<life, endsWith>>
        BY <2>1
      <3>3. \A n \in Established : tables'[current'[n]] = tables[current[n]]
        BY <2>3
      <3> QED
        BY <3>1, <3>2, <3>3 DEF EndsFit, LocalsOK
    <2>7. GivenFit'
      <3>1. UNCHANGED <<life, given>>
        BY <2>1
      <3>2. \A n \in Established : tables'[current'[n]] = tables[current[n]]
        BY <2>3
      <3> QED
        BY <3>1, <3>2 DEF GivenFit
    <2>8. IdsDistinct'
      BY <2>1 DEF IdsDistinct
    <2>9. current' \in [Names -> Nat]
      BY <2>1, <2>2 DEF LocalsOK, N
    <2>10. CASE EstablishWrites
      <3>1. establish' = NoName /\ UNCHANGED call
        BY <2>10 DEF EstablishWrites
      <3>2. LocalsOK'
        BY <2>1, <2>2, <2>9, <3>1 DEF LocalsOK
      <3>3. CallsFit'
        BY <2>1, <2>2, <2>3, <3>1 DEF CallsFit, N
      <3> QED
        BY <2>4, <2>5, <2>6, <2>7, <2>8, <3>2, <3>3
    <2>11. ASSUME NEW t \in Threads, CreateOperators(t)
           PROVE  LocalInv'
      <3>1. /\ call[t].at = "create" /\ UNCHANGED establish
            /\ call' = [call EXCEPT ![t] = [call[t] EXCEPT !.at = "local", !.table = N + 1]]
        BY <2>11 DEF CreateOperators, N
      <3>2. /\ call[t] \in [at : {"create", "local"}, name : Names, table : Nat]
            /\ call[t] # NoCall /\ life[t] = "run" /\ call[t].name \notin Established
        BY <3>1 DEF LocalsOK, NoCall, CallsFit
      <3>3. /\ call'[t] \in [at : {"create", "local"}, name : Names, table : Nat]
            /\ call'[t].at = "local" /\ call'[t].table = N + 1
            /\ call'[t].name = call[t].name
        <4> DEFINE q == [call[t] EXCEPT !.at = "local", !.table = N + 1]
        <4>1. /\ q \in [at : {"create", "local"}, name : Names, table : Nat]
              /\ q.at = "local" /\ q.table = N + 1 /\ q.name = call[t].name
          <5>1. N + 1 \in Nat
            BY <2>2
          <5>2. PICK c \in [at : {"create", "local"}, name : Names, table : Nat] : c = call[t]
            BY <3>2
          <5>3. q = [c EXCEPT !.at = "local", !.table = N + 1]
            BY <5>2
          <5> QED
            BY <5>1, <5>2, <5>3
        <4>2. call'[t] = q
          BY <3>1 DEF LocalsOK
        <4> HIDE DEF q
        <4> QED
          BY <4>1, <4>2
      <3>4. LocalsOK'
        BY <2>1, <2>2, <2>9, <3>1, <3>3 DEF LocalsOK
      <3>5. \A u \in Threads : u # t => call'[u] = call[u]
        BY <3>1 DEF LocalsOK
      <3>6. CallsFit'
        <4> SUFFICES ASSUME NEW u \in Threads, call'[u] # NoCall
                     PROVE  /\ life'[u] = "run"
                            /\ call'[u].at = "create" => call'[u].name \notin Established
                            /\ call'[u].at = "local" =>
                                  /\ call'[u].table \in 1..Len(tables')
                                  /\ \A n \in Established :
                                        call'[u].table = current'[n] <=> call'[u].name = n
          BY DEF CallsFit
        <4>1. CASE u = t
          BY <2>1, <2>2, <2>3, <3>2, <3>3, <4>1
        <4>2. CASE u # t
          BY <2>1, <2>2, <2>3, <3>5, <4>2 DEF CallsFit, N
        <4> QED
          BY <4>1, <4>2
      <3> QED
        BY <2>4, <2>5, <2>6, <2>7, <2>8, <3>4, <3>6
    <2> QED
      BY <1>8, <2>10, <2>11
  <1>9. ASSUME NEW t \in Threads, FindOrMake(t)
        PROVE  LocalInv'
    <2> DEFINE k == call[t].table   m == call[t].name
    <2>1. /\ call[t].at = "local" /\ call' = [call EXCEPT ![t] = NoCall]
          /\ UNCHANGED <<lastTid, life, tid, current, endsWith, establish>>
      BY <1>9 DEF FindOrMake
    <2>2. /\ call[t] # NoCall
          /\ call[t] \in [at : {"create", "local"}, name : Names, table : Nat]
      BY <2>1 DEF LocalsOK, NoCall
    <2>3. /\ life[t] = "run" /\ k \in 1..Len(tables) /\ m \in Names
          /\ \A n \in Established : k = current[n] <=> m = n
      BY <2>1, <2>2 DEF CallsFit
    <2>4. MyTid(t) = tid[t]
      BY MyTidIsTid
    <2>5. tables \in Seq(SUBSET Entry) /\ tables[k] \in SUBSET Entry
      BY <2>3 DEF LocalsOK
    <2>6. /\ Actuals(t) \subseteq tables[k]
          /\ \A a \in tables[k] : /\ a \in Actuals(t) <=> a.of = t
                                  /\ a \in Entry /\ a.local # 0
      <3> SUFFICES ASSUME NEW a \in tables[k]
                   PROVE  /\ a.tid = tid[t] <=> a.of = t
                          /\ a \in Entry /\ a.local # 0
        BY <2>4 DEF Actuals
      <3>1. a \in Entry /\ a.of \in Threads
        BY <2>5 DEF Entry
      <3>2. life[a.of] # "new" /\ a.tid = tid[a.of] /\ a.local # 0
        BY <2>3 DEF EntriesFit
      <3> QED
        BY <2>3, <3>1, <3>2 DEF IdsDistinct
    <2>7. IdsDistinct'
      BY <2>1 DEF IdsDistinct
    <2>8. \A u \in Threads : call'[u] = IF u = t THEN NoCall ELSE call[u]
      BY <2>1 DEF LocalsOK
    <2>9. call' \in [Threads -> [at : {"create", "local"}, name : Names, table : Nat]
                                    \cup {NoCall}]
      BY <2>1 DEF LocalsOK
    <2>10. \A n \in Established : current[n] \in 1..Len(tables) /\ n \in Names
      BY ThreadLocalsAssumption DEF TablesFit, LocalsOK
    <2> HIDE DEF k, m
    <2>11. ASSUME NEW a \in Actuals(t),
                  given' = [given EXCEPT ![t][m] = a.local], UNCHANGED <<tables, made>>
           PROVE  LocalInv'
      <3>1. a \in tables[k] /\ a.of = t /\ a \in Entry
        BY <2>6
      <3>2. a.local \in Nat
        BY <3>1 DEF Entry
      <3>3. /\ given' \in [Threads -> [Names -> Nat]]
            /\ \A u \in Threads, n \in Names :
                  given'[u][n] = IF u = t /\ n = m THEN a.local ELSE given[u][n]
        BY <2>3, <2>11, <3>2 DEF LocalsOK
      <3>4. LocalsOK'
        BY <2>1, <2>9, <2>11, <3>3 DEF LocalsOK
      <3>5. CallsFit'
        BY <2>1, <2>8, <2>11 DEF CallsFit
      <3>6. TablesFit' /\ EntriesFit' /\ EndsFit'
        BY <2>1, <2>11 DEF TablesFit, EntriesFit, EndsFit
      <3>7. GivenFit'
        <4> SUFFICES ASSUME NEW u \in Threads, NEW n \in Established,
                            life[u] \in {"new", "run"}, given'[u][n] # 0
                     PROVE  \E b \in tables[current[n]] : b.of = u /\ b.local = given'[u][n]
          BY <2>1, <2>11 DEF GivenFit
        <4>1. CASE u = t /\ n = m
          BY <2>3, <2>10, <3>1, <3>3, <4>1
        <4>2. CASE ~(u = t /\ n = m)
          <5>1. given'[u][n] = given[u][n]
            BY <2>10, <3>3, <4>2
          <5> QED
            BY <5>1 DEF GivenFit
        <4> QED
          BY <4>1, <4>2
      <3> QED
        BY <2>7, <3>4, <3>5, <3>6, <3>7
    <2>12. CASE /\ Actuals(t) = {}
                /\ made' = [made EXCEPT ![t] = @ + 1]
                /\ tables' = [tables EXCEPT ![k] = @ \cup {newThreadLocal(t)}]
                /\ given' = [given EXCEPT ![t][m] = made[t] + 1]
      <3> DEFINE e == newThreadLocal(t)   more == tables[k] \cup {e}
      <3>1. /\ e \in Entry /\ e.of = t /\ e.tid = tid[t] /\ e.local = made[t] + 1
            /\ e.local \in Nat \ {0}
        BY <2>4 DEF newThreadLocal, Entry, LocalsOK
      <3>2. \A a \in tables[k] : a.of # t
        BY <2>6, <2>12
      <3> HIDE DEF e
      <3>3. more \in SUBSET Entry
        BY <2>5, <3>1
      <3>4. /\ tables' \in Seq(SUBSET Entry) /\ Len(tables') = Len(tables)
            /\ \A i \in 1..Len(tables) : tables'[i] = IF i = k THEN more ELSE tables[i]
        <4>1. tables' = [tables EXCEPT ![k] = more]
          BY <2>12 DEF e
        <4> HIDE DEF more
        <4> QED
          BY <2>3, <2>5, <3>3, <4>1, ExceptSeq
      <3>5. /\ given' \in [Threads -> [Names -> Nat]]
            /\ \A u \in Threads, n \in Names :
                  given'[u][n] = IF u = t /\ n = m THEN e.local ELSE given[u][n]
        BY <2>3, <2>12, <3>1 DEF LocalsOK
      <3>6. made' \in [Threads -> Nat]
        BY <2>12 DEF LocalsOK
      <3>7. LocalsOK'
        BY <2>1, <2>9, <3>4, <3>5, <3>6 DEF LocalsOK
      <3>8. Len(tables') = Len(tables)
        BY <3>4
      <3>9. CallsFit'
        BY <2>1, <2>8, <3>8 DEF CallsFit
      <3>10. TablesFit'
        BY <2>1, <3>8 DEF TablesFit
      <3>11. EntriesFit'
        <4> SUFFICES ASSUME NEW i \in 1..Len(tables), NEW a \in tables'[i]
                     PROVE  /\ life[a.of] # "new" /\ a.tid = tid[a.of] /\ a.local # 0
                            /\ \A b \in tables'[i] : a.of = b.of => a = b
          BY <2>1, <3>8 DEF EntriesFit
        <4>1. CASE i # k
          <5>1. tables'[i] = tables[i]
            BY <3>4, <4>1
          <5> QED
            BY <5>1 DEF EntriesFit
        <4>2. CASE i = k
          <5>1. tables'[i] = tables[k] \cup {e}
            BY <3>4, <4>2
          <5>2. CASE a = e
            BY <2>3, <3>1, <3>2, <5>1, <5>2
          <5>3. CASE a \in tables[k]
            BY <2>3, <3>1, <3>2, <5>1, <5>3 DEF EntriesFit
          <5> QED
            BY <5>1, <5>2, <5>3
        <4> QED
          BY <4>1, <4>2
      <3>12. \A i \in 1..Len(tables) : /\ tables[i] \subseteq tables'[i]
                                       /\ \A a \in tables'[i] : a.of # t => a \in tables[i]
        BY <3>1, <3>4
      <3>13. EndsFit'
        <4> SUFFICES ASSUME NEW u \in Threads, life[u] \in {"end", "gone"},
                            NEW n \in Established,
                            NEW a \in tables'[current[n]], a.of = u
                     PROVE  life[u] = "end" /\ n \in endsWith[u]
          BY <2>1 DEF EndsFit
        <4>1. a \in tables[current[n]]
          BY <2>3, <2>10, <3>12
        <4> QED
          BY <4>1 DEF EndsFit
      <3>14. GivenFit'
        <4> SUFFICES ASSUME NEW u \in Threads, NEW n \in Established,
                            life[u] \in {"new", "run"}, given'[u][n] # 0
                     PROVE  \E b \in tables'[current[n]] : b.of = u /\ b.local = given'[u][n]
          BY <2>1 DEF GivenFit
        <4>1. CASE u = t /\ n = m
          <5>1. k = current[n] /\ given'[u][n] = e.local
            BY <2>3, <2>10, <3>5, <4>1
          <5>2. e \in tables'[current[n]]
            BY <2>3, <3>4, <5>1
          <5> QED
            BY <3>1, <4>1, <5>1, <5>2
        <4>2. CASE ~(u = t /\ n = m)
          <5>1. given'[u][n] = given[u][n]
            BY <2>10, <3>5, <4>2
          <5>2. tables[current[n]] \subseteq tables'[current[n]]
            BY <2>10, <3>12
          <5> QED
            BY <5>1, <5>2 DEF GivenFit
        <4> QED
          BY <4>1, <4>2
      <3> QED
        BY <2>7, <3>7, <3>9, <3>10, <3>11, <3>13, <3>14
    <2> QED
      BY <1>9, <2>11, <2>12 DEF FindOrMake, k, m
  <1>10. ASSUME NEW t \in Threads, RemoveNext(t)
         PROVE  LocalInv'
    <2>1. PICK m \in endsWith[t] :
              /\ endsWith' = [endsWith EXCEPT ![t] = endsWith[t] \ {m}]
              /\ tables' = [tables EXCEPT ![current[m]] =
                                {a \in tables[current[m]] : a.tid # tid[t]}]
      BY <1>10 DEF RemoveNext, removeThreadLocal, LocalsOK
    <2>2. /\ life[t] = "end"
          /\ UNCHANGED <<lastTid, life, tid, current, made, call, given, establish>>
      BY <1>10 DEF RemoveNext
    <2> DEFINE k == current[m]   left == {a \in tables[k] : a.tid # tid[t]}
    <2>3. m \in Names /\ k \in 1..Len(tables)
      BY DEF LocalsOK, EndsFit, TablesFit
    <2>4. tables \in Seq(SUBSET Entry) /\ left \in SUBSET Entry
      <3>1. tables \in Seq(SUBSET Entry)
        BY DEF LocalsOK
      <3>2. tables[k] \in SUBSET Entry
        BY <2>3, <3>1
      <3> QED
        BY <3>1, <3>2
    <2>5. /\ tables' \in Seq(SUBSET Entry) /\ Len(tables') = Len(tables)
          /\ \A i \in 1..Len(tables) : tables'[i] = IF i = k THEN left ELSE tables[i]
      <3> HIDE DEF left
      <3> QED
        BY <2>1, <2>3, <2>4, ExceptSeq DEF left
    <2>6. LocalsOK'
      <3>1. endsWith' \in [Threads -> SUBSET Names]
        BY <2>1 DEF LocalsOK
      <3> QED
        BY <2>2, <2>5, <3>1 DEF LocalsOK
    <2>7. IdsDistinct'
      BY <2>2 DEF IdsDistinct
    <2>8. TablesFit' /\ CallsFit'
      <3>1. Len(tables') = Len(tables)
        BY <2>5
      <3> QED
        BY <2>2, <3>1 DEF TablesFit, CallsFit
    <2>9. \A i \in 1..Len(tables) : tables'[i] \subseteq tables[i]
      BY <2>5
    <2>10. EntriesFit'
      <3>1. Len(tables') = Len(tables)
        BY <2>5
      <3> QED
        BY <2>2, <2>9, <3>1 DEF EntriesFit
    <2>11. \A n \in Established : current[n] \in 1..Len(tables) /\ n \in Names
      BY ThreadLocalsAssumption DEF TablesFit, LocalsOK
    <2>12. EndsFit'
      <3> SUFFICES ASSUME NEW u \in Threads
                   PROVE  /\ \A n \in endsWith'[u] : current[n] # 0
                          /\ life[u] \in {"end", "gone"} =>
                                \A n \in Established : \A a \in tables'[current[n]] :
                                    a.of = u => life[u] = "end" /\ n \in endsWith'[u]
        BY <2>2 DEF EndsFit
      <3>1. endsWith'[u] = IF u = t THEN endsWith[t] \ {m} ELSE endsWith[u]
        BY <2>1 DEF LocalsOK
      <3>2. \A n \in endsWith'[u] : current[n] # 0
        BY <3>1 DEF EndsFit
      <3>3. ASSUME life[u] \in {"end", "gone"}, NEW n \in Established,
                   NEW a \in tables'[current[n]], a.of = u
            PROVE  life[u] = "end" /\ n \in endsWith'[u]
        <4>1. a \in tables[current[n]]
          BY <2>9, <2>11
        <4>2. life[u] = "end" /\ n \in endsWith[u]
          BY <3>3, <4>1 DEF EndsFit
        <4>3. ~(u = t /\ n = m)
          <5> SUFFICES ASSUME u = t, n = m PROVE FALSE
            OBVIOUS
          <5>1. a.tid = tid[t]
            BY <2>11, <3>3, <4>1 DEF EntriesFit
          <5>2. a \in left
            BY <2>3, <2>5
          <5> QED
            BY <5>1, <5>2
        <4> QED
          BY <3>1, <4>2, <4>3
      <3> QED
        BY <3>2, <3>3
    <2>13. GivenFit'
      <3> SUFFICES ASSUME NEW u \in Threads, NEW n \in Established,
                          life[u] \in {"new", "run"}, given[u][n] # 0
                   PROVE  \E a \in tables'[current[n]] : a.of = u /\ a.local = given[u][n]
        BY <2>2 DEF GivenFit
      <3>1. PICK a \in tables[current[n]] : a.of = u /\ a.local = given[u][n]
        BY DEF GivenFit
      <3>2. a.tid = tid[u] /\ life[u] # "new"
        BY <2>11, <3>1 DEF EntriesFit
      <3>3. a.tid # tid[t]
        BY <2>2, <3>2 DEF IdsDistinct
      <3>4. a \in tables'[current[n]]
        BY <2>5, <2>11, <3>3
      <3> QED
        BY <3>1, <3>4
    <2> QED
      BY <2>6, <2>7, <2>8, <2>10, <2>12, <2>13
  <1> QED
    BY <1>1, <1>2, <1>3, <1>4, <1>5, <1>6, <1>7, <1>8, <1>9, <1>10
       DEF LocalNext, GetThreadLocalStep

\* The invariant of the thread locals.
LEMMA LocalInvariance == LocalSpec => []LocalInv
  BY LocalInvInit, LocalInvStep, PTL DEF LocalSpec

\* A thread that is gone has left no ThreadLocal behind in the operators of an
\* established name, whatever the threads and names and however many threads
\* there were before.
THEOREM ThreadsLeaveNothing == LocalSpec => []NothingLeftBehind
  <1>1. LocalInv => NothingLeftBehind
    BY DEF LocalInv, EndsFit, NothingLeftBehind
  <1> QED
    BY <1>1, LocalInvariance, PTL

\* A thread keeps the ThreadLocal it was first given for an established name.
THEOREM ThreadsKeepLocals == LocalSpec => SameLocal
  <1> DEFINE Kept == \A t \in Threads, n \in Established :
                        given[t][n] # 0 => given'[t][n] = given[t][n]
  <1>1. ASSUME LocalInv, [LocalNext]_localVars
        PROVE  [Kept]_localVars
    <2> SUFFICES ASSUME NEW u \in Threads, NEW n \in Established, given[u][n] # 0,
                        LocalNext
                 PROVE  given'[u][n] = given[u][n]
      BY <1>1
    <2>1. CASE UNCHANGED given
      BY <2>1
    <2>2. ASSUME NEW t \in Threads, FindOrMake(t)
          PROVE  given'[u][n] = given[u][n]
      <3> DEFINE k == call[t].table   m == call[t].name
      <3>1. /\ call[t].at = "local" /\ call[t] # NoCall
            /\ call[t] \in [at : {"create", "local"}, name : Names, table : Nat]
        BY <1>1, <2>2 DEF FindOrMake, LocalInv, LocalsOK, NoCall
      <3>2. /\ life[t] = "run" /\ k \in 1..Len(tables) /\ m \in Names
            /\ k = current[n] <=> m = n
        BY <1>1, <3>1 DEF LocalInv, CallsFit
      <3>3. MyTid(t) = tid[t]
        BY <1>1, MyTidIsTid DEF LocalInv
      <3>4. n \in Names /\ given \in [Threads -> [Names -> Nat]]
        BY <1>1, ThreadLocalsAssumption DEF LocalInv, LocalsOK
      <3>5. CASE ~(u = t /\ n = m)
        BY <2>2, <3>4, <3>5 DEF FindOrMake
      <3>6. CASE u = t /\ n = m
        <4>1. PICK a \in tables[k] : a.of = t /\ a.local = given[t][n]
          BY <1>1, <3>2, <3>6 DEF LocalInv, GivenFit
        <4>2. a \in Actuals(t)
          BY <1>1, <3>2, <3>3, <4>1 DEF LocalInv, EntriesFit, Actuals
        <4>3. PICK b \in Actuals(t) : given' = [given EXCEPT ![t][m] = b.local]
          BY <2>2, <4>2 DEF FindOrMake
        <4>4. b \in tables[k] /\ b.tid = tid[t]
          BY <3>3 DEF Actuals
        <4>5. b.of \in Threads
          BY <1>1, <3>2, <4>4 DEF LocalInv, LocalsOK, Entry
        <4>6. life[b.of] # "new" /\ tid[b.of] = tid[t]
          BY <1>1, <3>2, <4>4 DEF LocalInv, EntriesFit
        <4>7. b.of = t
          BY <1>1, <3>2, <4>5, <4>6 DEF LocalInv, IdsDistinct
        <4>8. b = a
          BY <1>1, <3>2, <4>1, <4>4, <4>7 DEF LocalInv, EntriesFit
        <4> QED
          BY <3>2, <3>4, <3>6, <4>1, <4>3, <4>8
      <3> QED
        BY <3>5, <3>6
    <2> QED
      BY <2>1, <2>2
         DEF LocalNext, GoRefused, EstablishThreadLocal, EstablishWrites, Go, EndThread,
             RemoveNext, Gone, GetThreadLocalStep, CreateOperators, LookUp
  <1> QED
    BY <1>1, LocalInvariance, PTL DEF LocalSpec, SameLocal

\* Caches at work use threads and thread locals as these are meant to be used:
\* every step of theirs is a step of the thread locals or none.
THEOREM CachesUseLocals == Spec => LocalSpec
  <1>1. Init => LocalInit
    BY DEF Init
  <1>2. [Next]_vars => [LocalNext]_localVars
    <2> SUFFICES ASSUME [Next]_vars
                 PROVE  LocalNext \/ UNCHANGED localVars
      OBVIOUS
    <2>1. "asks" \in Names
      BY ThreadLocalsAssumption, SimpleCacheAssumption
    <2>2. ASSUME NEW t \in Threads, BeginCompute(t)
          PROVE  LocalNext
      BY <2>1, <2>2 DEF BeginCompute, LocalNext
    <2>3. ASSUME NEW t \in Threads, GetAsks(t)
          PROVE  LocalNext
      BY <2>3 DEF GetAsks, LocalNext
    <2>4. ASSUME NEW t \in Threads, ThreadStep(t)
          PROVE  LocalNext
      BY <2>4 DEF ThreadStep, LocalNext
    <2>5. ASSUME NEW t \in Threads,
                 \/ \E f \in Calls : Call(t, f)
                 \/ FindValue(t) \/ internalRemove(t) \/ checkCycle(t)
                 \/ \E stored \in BOOLEAN : EndCompute(t, stored)
          PROVE  UNCHANGED localVars
      BY <2>5 DEF Call, FindValue, internalRemove, checkCycle, EndCompute
    <2> QED
      BY <2>2, <2>3, <2>4, <2>5 DEF Next, CacheStep, vars
  <1> QED
    BY <1>1, <1>2, PTL DEF Spec, LocalSpec

-----------------------------------------------------------------------------
(* The keys being computed.                                                *)

\* The calls of a stack that are in their calculators.
Asked(s) == {j \in 1..Len(s) : Nth(s, j).at = "calculate"}

\* With A the keys in the thread's asks and C what the caches have: A is the
\* keys being computed, each by one call, and no cache has a key that a call
\* holding its lock is to compute.
KeysFit(s, A, C) ==
    /\ A = {Nth(s, j).of.key : j \in Asked(s)}
    /\ \A i, j \in Asked(s) : Nth(s, i).of.key = Nth(s, j).of.key => i = j
    /\ \A j \in 1..Len(s) :
          Nth(s, j).at # "lock" => Nth(s, j).of.key \notin C[Nth(s, j).of.cache]

\* Stacks r and s have the same calls up to the n-th.
Agree(r, s, n) ==
    \A j \in 1..n : Nth(r, j).of = Nth(s, j).of /\ Nth(r, j).at = Nth(s, j).at

\* A call that waits for the lock changes none of this, be it new or over.
LEMMA KeysWait ==
    ASSUME NEW s, NEW r, NEW A, NEW C, Len(s) \in Nat, Len(r) = Len(s) + 1,
           Agree(r, s, Len(s)), Nth(r, Len(s) + 1).at = "lock"
    PROVE  KeysFit(s, A, C) <=> KeysFit(r, A, C)
  <1>1. Asked(r) = Asked(s)
    BY DEF Asked, Agree
  <1>2. \A j \in Asked(s) : j \in 1..Len(s)
    BY DEF Asked
  <1>3. {Nth(r, j).of.key : j \in Asked(r)} = {Nth(s, j).of.key : j \in Asked(s)}
    BY <1>1, <1>2 DEF Agree
  <1>4. (\A i, j \in Asked(r) : Nth(r, i).of.key = Nth(r, j).of.key => i = j)
          <=> (\A i, j \in Asked(s) : Nth(s, i).of.key = Nth(s, j).of.key => i = j)
    BY <1>1, <1>2 DEF Agree
  <1>5. (\A j \in 1..Len(r) :
            Nth(r, j).at # "lock" => Nth(r, j).of.key \notin C[Nth(r, j).of.cache])
          <=> (\A j \in 1..Len(s) :
            Nth(s, j).at # "lock" => Nth(s, j).of.key \notin C[Nth(s, j).of.cache])
    BY DEF Agree
  <1> QED
    BY <1>3, <1>4, <1>5 DEF KeysFit

\* A call that has the lock for a key its cache does not have: the call to be
\* checked is the one before it is taken or after it is refused.
LEMMA KeysCheck ==
    ASSUME NEW s, NEW r, NEW A, NEW C, Len(s) \in Nat, Len(r) = Len(s) + 1,
           Agree(r, s, Len(s)), Nth(r, Len(s) + 1).at = "check"
    PROVE  /\ KeysFit(r, A, C) => KeysFit(s, A, C)
           /\ KeysFit(s, A, C)
                /\ Nth(r, Len(s) + 1).of.key \notin C[Nth(r, Len(s) + 1).of.cache]
                => KeysFit(r, A, C)
  <1>1. Asked(r) = Asked(s)
    BY DEF Asked, Agree
  <1>2. \A j \in Asked(s) : j \in 1..Len(s)
    BY DEF Asked
  <1>3. {Nth(r, j).of.key : j \in Asked(r)} = {Nth(s, j).of.key : j \in Asked(s)}
    BY <1>1, <1>2 DEF Agree
  <1>4. (\A i, j \in Asked(r) : Nth(r, i).of.key = Nth(r, j).of.key => i = j)
          <=> (\A i, j \in Asked(s) : Nth(s, i).of.key = Nth(s, j).of.key => i = j)
    BY <1>1, <1>2 DEF Agree
  <1>5. (\A j \in 1..Len(r) :
            Nth(r, j).at # "lock" => Nth(r, j).of.key \notin C[Nth(r, j).of.cache])
          <=> /\ \A j \in 1..Len(s) :
                    Nth(s, j).at # "lock" => Nth(s, j).of.key \notin C[Nth(s, j).of.cache]
              /\ Nth(r, Len(s) + 1).of.key \notin C[Nth(r, Len(s) + 1).of.cache]
    BY DEF Agree
  <1> QED
    BY <1>3, <1>4, <1>5 DEF KeysFit

\* A call in its calculator: its key is one more, and no other call's.
LEMMA KeysCalculate ==
    ASSUME NEW s, NEW r, NEW A, NEW C, Len(s) \in Nat, Len(r) = Len(s) + 1,
           Agree(r, s, Len(s)), Nth(r, Len(s) + 1).at = "calculate"
    PROVE  LET f == Nth(r, Len(s) + 1).of
           IN  /\ KeysFit(r, A, C) => KeysFit(s, A \ {f.key}, C)
               /\ KeysFit(s, A, C) /\ f.key \notin A /\ f.key \notin C[f.cache]
                    => KeysFit(r, A \cup {f.key}, C)
  <1> DEFINE f == Nth(r, Len(s) + 1).of   n == Len(s) + 1
             keysS == {Nth(s, j).of.key : j \in Asked(s)}
             keysR == {Nth(r, j).of.key : j \in Asked(r)}
  <1>1. Asked(r) = Asked(s) \cup {n} /\ n \notin Asked(s)
    BY DEF Asked, Agree
  <1>2. \A j \in Asked(s) : j \in 1..Len(s)
    BY DEF Asked
  <1>3. \A j \in Asked(s) : Nth(r, j).of = Nth(s, j).of
    BY <1>2 DEF Agree
  <1>4. keysR = keysS \cup {f.key}
    BY <1>1, <1>3
  <1>5. (\A j \in 1..Len(r) :
            Nth(r, j).at # "lock" => Nth(r, j).of.key \notin C[Nth(r, j).of.cache])
          <=> /\ \A j \in 1..Len(s) :
                    Nth(s, j).at # "lock" => Nth(s, j).of.key \notin C[Nth(s, j).of.cache]
              /\ f.key \notin C[f.cache]
    BY DEF Agree
  <1>6. ASSUME KeysFit(r, A, C)
        PROVE  KeysFit(s, A \ {f.key}, C)
    <2>1. A = keysR /\ \A i, j \in Asked(r) : Nth(r, i).of.key = Nth(r, j).of.key => i = j
      BY <1>6 DEF KeysFit
    <2>2. f.key \notin keysS
      BY <1>1, <1>3, <2>1
    <2>3. A \ {f.key} = keysS
      BY <1>4, <2>1, <2>2
    <2>4. \A i, j \in Asked(s) : Nth(s, i).of.key = Nth(s, j).of.key => i = j
      BY <1>1, <1>3, <2>1
    <2> QED
      BY <1>5, <1>6, <2>3, <2>4 DEF KeysFit
  <1>7. ASSUME KeysFit(s, A, C), f.key \notin A, f.key \notin C[f.cache]
        PROVE  KeysFit(r, A \cup {f.key}, C)
    <2>1. A = keysS /\ \A i, j \in Asked(s) : Nth(s, i).of.key = Nth(s, j).of.key => i = j
      BY <1>7 DEF KeysFit
    <2>2. A \cup {f.key} = keysR
      BY <1>4, <2>1
    <2>3. \A j \in Asked(s) : Nth(s, j).of.key # f.key
      BY <1>7, <2>1
    <2>4. \A i, j \in Asked(r) : Nth(r, i).of.key = Nth(r, j).of.key => i = j
      BY <1>1, <1>3, <2>1, <2>3
    <2> QED
      BY <1>5, <1>7, <2>2, <2>4 DEF KeysFit
  <1> QED
    BY <1>6, <1>7

\* The keys may be taken from the caches, and keys may be put in that no call
\* is about to compute.
LEMMA KeysCached ==
    ASSUME NEW s, NEW A, NEW C, NEW D, KeysFit(s, A, C),
           \A j \in 1..Len(s) : Nth(s, j).at # "lock" =>
               (Nth(s, j).of.key \in D[Nth(s, j).of.cache]
                  => Nth(s, j).of.key \in C[Nth(s, j).of.cache])
    PROVE  KeysFit(s, A, D)
  BY DEF KeysFit

\* Pushing and popping calls, in these terms.
LEMMA AgreePush ==
    ASSUME NEW s \in Seq(Frame), s # << >>, NEW x \in Frame, NEW y \in Frame,
           y.at = Head(s).at, y.of = Head(s).of
    PROVE  LET r == <<x, y>> \o Tail(s)
           IN  Len(r) = Len(s) + 1 /\ Agree(r, s, Len(s)) /\ Nth(r, Len(s) + 1) = x
  <1> DEFINE r == <<x, y>> \o Tail(s)
  <1>1. /\ Len(r) = Len(s) + 1
        /\ Nth(r, Len(s) + 1) = x /\ Nth(r, Len(s)) = y
        /\ \A j \in 1..(Len(s) - 1) : Nth(r, j) = Nth(s, j)
    BY NthPush
  <1>2. Len(s) \in Nat \ {0} /\ Nth(s, Len(s)) = Head(s)
    BY NthInner
  <1> HIDE DEF r
  <1>3. Agree(r, s, Len(s))
    BY <1>1, <1>2 DEF Agree
  <1> QED
    BY <1>1, <1>3 DEF r

LEMMA AgreePop ==
    ASSUME NEW s \in Seq(Frame), s # << >>
    PROVE  LET r == Tail(s)
           IN  /\ Len(r) \in Nat /\ Len(s) = Len(r) + 1 /\ Agree(s, r, Len(r))
               /\ Nth(s, Len(r) + 1) = Head(s)
  <1> DEFINE r == Tail(s)
  <1>1. /\ r \in Seq(Frame) /\ Len(r) = Len(s) - 1 /\ Len(s) \in Nat \ {0}
        /\ \A j \in 1..(Len(s) - 1) : Nth(r, j) = Nth(s, j)
    BY NthPop
  <1>2. Nth(s, Len(s)) = Head(s)
    BY NthInner
  <1> HIDE DEF r
  <1>3. Len(r) \in Nat /\ Len(s) = Len(r) + 1 /\ Agree(s, r, Len(r))
    BY <1>1 DEF Agree
  <1> QED
    BY <1>2, <1>3 DEF r

LEMMA AgreeSet ==
    ASSUME NEW s \in Seq(Frame), s # << >>, NEW y \in Frame
    PROVE  LET r == [s EXCEPT ![1] = y]
           IN  /\ Len(Tail(s)) \in Nat /\ Len(r) = Len(Tail(s)) + 1
               /\ Agree(r, Tail(s), Len(Tail(s)))
               /\ Nth(r, Len(Tail(s)) + 1) = y
  <1> DEFINE r == [s EXCEPT ![1] = y]
  <1>1. /\ Len(r) = Len(s) /\ Nth(r, Len(s)) = y
        /\ \A j \in 1..(Len(s) - 1) : Nth(r, j) = Nth(s, j)
    BY NthSet
  <1>2. /\ Tail(s) \in Seq(Frame) /\ Len(Tail(s)) = Len(s) - 1 /\ Len(s) \in Nat \ {0}
        /\ \A j \in 1..(Len(s) - 1) : Nth(Tail(s), j) = Nth(s, j)
    BY NthPop
  <1> HIDE DEF r
  <1>3. /\ Len(Tail(s)) \in Nat /\ Len(r) = Len(Tail(s)) + 1
        /\ Agree(r, Tail(s), Len(Tail(s))) /\ Len(Tail(s)) + 1 = Len(s)
    BY <1>1, <1>2 DEF Agree
  <1> QED
    BY <1>1, <1>3 DEF r

LEMMA AgreeAsked ==
    ASSUME NEW s, NEW r, Len(s) \in Nat, Len(r) = Len(s) + 1, Agree(r, s, Len(s))
    PROVE  /\ Asked(s) \subseteq Asked(r)
           /\ Nth(r, Len(s) + 1).at # "calculate" => Asked(r) = Asked(s)
  BY DEF Asked, Agree

-----------------------------------------------------------------------------
(* Asks, and the thread local they are kept in.                            *)

AsksOK ==
    /\ asks \in [Threads -> SUBSET Keys] /\ cached \in [Caches -> SUBSET Keys]
    /\ \A t \in Threads : KeysFit(stack[t], asks[t], cached)

\* A thread inside a cache looks up no thread local but asks, and has it by the
\* time it checks for a cycle.
AsksGiven ==
    \A t \in Threads : stack[t] # << >> =>
        /\ call[t] # NoCall => call[t].name = "asks" /\ Inner(t).at = "check"
        /\ Asked(stack[t]) # {} \/ (Inner(t).at = "check" /\ call[t] = NoCall)
              => given[t]["asks"] # 0

AskInv == StacksOK /\ LocksOK /\ LocalInv /\ AsksOK /\ AsksGiven

\* The initializer never empties the map of a thread that is computing a key.
LEMMA AsksKept ==
    ASSUME AskInv, NEW t \in Threads, GetAsks(t)
    PROVE  UNCHANGED asks
  <1> SUFFICES ASSUME call[t].name = "asks", made'[t] # made[t],
                      asks' = [asks EXCEPT ![t] = {}]
               PROVE  UNCHANGED asks
    BY DEF GetAsks
  <1>1. FindOrMake(t) /\ Actuals(t) = {}
    BY DEF GetAsks, GetThreadLocalStep, CreateOperators, FindOrMake
  <1>2. /\ call[t].at = "local" /\ call[t] # NoCall
    BY <1>1 DEF FindOrMake, NoCall
  <1>3. /\ life[t] = "run" /\ call[t].table \in 1..Len(tables)
        /\ call[t].table = current["asks"]
    BY <1>2, SimpleCacheAssumption DEF AskInv, LocalInv, CallsFit
  <1>4. given[t]["asks"] = 0
    <2> SUFFICES ASSUME given[t]["asks"] # 0 PROVE FALSE
      OBVIOUS
    <2>1. PICK a \in tables[call[t].table] : a.of = t
      BY <1>3, SimpleCacheAssumption DEF AskInv, LocalInv, GivenFit
    <2>2. a.tid = tid[t]
      BY <1>3, <2>1 DEF AskInv, LocalInv, EntriesFit
    <2>3. MyTid(t) = tid[t]
      BY MyTidIsTid DEF AskInv, LocalInv
    <2> QED
      BY <1>1, <2>1, <2>2, <2>3 DEF Actuals
  <1>5. Asked(stack[t]) = {}
    <2>1. CASE stack[t] = << >>
      BY <2>1 DEF Asked
    <2>2. CASE stack[t] # << >>
      BY <1>4, <2>2 DEF AskInv, AsksGiven
    <2> QED
      BY <2>1, <2>2
  <1>6. asks[t] = {}
    BY <1>5 DEF AskInv, AsksOK, KeysFit
  <1> QED
    BY <1>6 DEF AskInv, AsksOK

LEMMA AsksStep ==
    ASSUME AskInv, [Next]_vars
    PROVE  AsksOK'
  <1>1. CASE UNCHANGED <<stack, asks, cached>>
    BY <1>1 DEF AskInv, AsksOK
  <1>2. /\ StacksOK /\ stack \in [Threads -> Seq(Frame)]
        /\ asks \in [Threads -> SUBSET Keys] /\ cached \in [Caches -> SUBSET Keys]
    BY DEF AskInv, AsksOK, StacksOK
  <1>3. ASSUME NEW t \in Threads, NEW r, stack' = [stack EXCEPT ![t] = r],
               UNCHANGED <<asks, cached>>, KeysFit(r, asks[t], cached)
        PROVE  AsksOK'
    BY <1>2, <1>3 DEF AskInv, AsksOK
  <1>4. ASSUME NEW t \in Threads, NEW f \in Calls, Call(t, f)
        PROVE  AsksOK'
    <2>1. UNCHANGED <<asks, cached>>
      BY <1>4 DEF Call
    <2>2. stack[t] \in Seq(Frame) /\ KeysFit(stack[t], asks[t], cached)
      BY <1>2 DEF AskInv, AsksOK
    <2>3. CASE Enter(t)
      <3>1. PICK x \in Frame : /\ x.at = "lock" /\ stack[t] = << >>
                               /\ stack' = [stack EXCEPT ![t] = <<x>>]
        BY <2>3 DEF Enter
      <3>2. Len(<<x>>) = 1 /\ Nth(<<x>>, 1) = x /\ Len(stack[t]) = 0
        BY <3>1, NthFirst
      <3>3. Agree(<<x>>, stack[t], Len(stack[t]))
        BY <3>2 DEF Agree
      <3> DEFINE r == <<x>>
      <3>4. /\ Len(stack[t]) \in Nat /\ Len(r) = Len(stack[t]) + 1
            /\ Nth(r, Len(stack[t]) + 1).at = "lock"
        BY <3>1, <3>2
      <3>5. Agree(r, stack[t], Len(stack[t])) /\ stack' = [stack EXCEPT ![t] = r]
        BY <3>1, <3>3
      <3> HIDE DEF r
      <3>6. KeysFit(stack[t], asks[t], cached) <=> KeysFit(r, asks[t], cached)
        BY <3>4, <3>5, KeysWait
      <3> QED
        BY <1>3, <2>1, <2>2, <3>5, <3>6
    <2>4. CASE Nest(t)
      <3>1. PICK x, y \in Frame :
                /\ x.at = "lock" /\ y.at = "calculate"
                /\ stack[t] # << >> /\ Inner(t).at = "calculate" /\ Inner(t).of = y.of
                /\ stack' = [stack EXCEPT ![t] = <<x, y>> \o Tail(stack[t])]
        BY <2>4 DEF Nest
      <3> DEFINE r == <<x, y>> \o Tail(stack[t])
      <3>2. /\ Len(r) = Len(stack[t]) + 1 /\ Agree(r, stack[t], Len(stack[t]))
            /\ Nth(r, Len(stack[t]) + 1) = x
        BY <2>2, <3>1, AgreePush DEF Inner
      <3>3. stack' = [stack EXCEPT ![t] = r] /\ Len(stack[t]) \in Nat
        BY <2>2, <3>1
      <3> HIDE DEF r
      <3>4. KeysFit(stack[t], asks[t], cached) <=> KeysFit(r, asks[t], cached)
        BY <3>1, <3>2, <3>3, KeysWait
      <3> QED
        BY <1>3, <2>1, <2>2, <3>3, <3>4
    <2> QED
      BY <1>2, <1>4, <2>3, <2>4, CallMoves
  <1>5. ASSUME NEW t \in Threads, FindValue(t) \/ internalRemove(t)
        PROVE  AsksOK'
    <2>1. /\ stack[t] # << >> /\ Inner(t).at = "lock"
          /\ stack' = [stack EXCEPT ![t] = Tail(stack[t])]
      BY <1>2, <1>5, FindMoves DEF Leave
    <2>2. stack[t] \in Seq(Frame) /\ KeysFit(stack[t], asks[t], cached)
      BY <1>2 DEF AskInv, AsksOK
    <2> DEFINE s == stack[t]   r == Tail(s)
    <2>3. /\ Len(r) \in Nat /\ Len(s) = Len(r) + 1 /\ Agree(s, r, Len(r))
          /\ Nth(s, Len(r) + 1) = Inner(t)
      BY <2>1, <2>2, AgreePop DEF Inner
    <2> HIDE DEF r
    <2>4. KeysFit(r, asks[t], cached)
      BY <2>1, <2>2, <2>3, KeysWait
    <2>5. CASE FindValue(t)
      BY <1>3, <2>1, <2>4, <2>5 DEF FindValue, r
    <2>6. CASE internalRemove(t)
      <3>1. PICK left \in SUBSET cached[Inner(t).of.cache] :
                cached' = [cached EXCEPT ![Inner(t).of.cache] = left]
        BY <2>6 DEF internalRemove
      <3>2. Inner(t).of.cache \in Caches
        BY <2>1, <2>2, NthInner, FrameCache DEF Inner
      <3>3. /\ cached' \in [Caches -> SUBSET Keys]
            /\ \A c \in Caches : cached'[c] \subseteq cached[c]
        BY <1>2, <3>1, <3>2
      <3>4. \A q \in Seq(Frame) : \A j \in 1..Len(q) : Nth(q, j).of.cache \in Caches
        BY NthType, FrameCache
      <3>5. \A u \in Threads : stack'[u] \in Seq(Frame)
        BY <1>2, <2>1, <2>2, NthPop
      <3>6. UNCHANGED asks /\ \A u \in Threads : KeysFit(stack'[u], asks[u], cached)
        BY <1>2, <2>1, <2>4, <2>6 DEF AskInv, AsksOK, internalRemove, r
      <3>7. \A u \in Threads : KeysFit(stack'[u], asks[u], cached')
        <4> SUFFICES ASSUME NEW u \in Threads PROVE KeysFit(stack'[u], asks[u], cached')
          OBVIOUS
        <4> DEFINE q == stack'[u]
        <4>1. \A j \in 1..Len(q) : Nth(q, j).of.key \in cached'[Nth(q, j).of.cache]
                                     => Nth(q, j).of.key \in cached[Nth(q, j).of.cache]
          BY <3>3, <3>4, <3>5
        <4>2. KeysFit(q, asks[u], cached)
          BY <3>6
        <4> HIDE DEF q
        <4>3. KeysFit(q, asks[u], cached')
          BY <4>1, <4>2, KeysCached
        <4> QED
          BY <4>3 DEF q
      <3> QED
        BY <1>2, <3>3, <3>6, <3>7 DEF AsksOK
    <2> QED
      BY <1>5, <2>5, <2>6
  <1>6. ASSUME NEW t \in Threads, BeginCompute(t)
        PROVE  AsksOK'
    <2>1. PICK y \in Frame :
              /\ stack[t] # << >> /\ Inner(t).at = "lock"
              /\ y.at = "check" /\ y.of = Inner(t).of /\ y.of.op = "Compute"
              /\ stack' = [stack EXCEPT ![t] = [stack[t] EXCEPT ![1] = y]]
      BY <1>2, <1>6, BeginMoves DEF Acquire
    <2>2. stack[t] \in Seq(Frame) /\ KeysFit(stack[t], asks[t], cached)
      BY <1>2 DEF AskInv, AsksOK
    <2>3. UNCHANGED <<asks, cached>> /\ y.of.key \notin cached[y.of.cache]
      BY <1>6, <2>1 DEF BeginCompute, Hit
    <2> DEFINE s == stack[t]   p == Tail(s)   r == [s EXCEPT ![1] = y]
    <2>4. /\ Len(p) \in Nat /\ Len(s) = Len(p) + 1 /\ Agree(s, p, Len(p))
          /\ Nth(s, Len(p) + 1) = Inner(t)
      BY <2>1, <2>2, AgreePop DEF Inner
    <2>5. Len(r) = Len(p) + 1 /\ Agree(r, p, Len(p)) /\ Nth(r, Len(p) + 1) = y
      BY <2>1, <2>2, AgreeSet
    <2>6. stack' = [stack EXCEPT ![t] = r]
      BY <2>1
    <2> HIDE DEF p, r
    <2>7. KeysFit(p, asks[t], cached)
      BY <2>1, <2>2, <2>4, KeysWait
    <2>8. KeysFit(r, asks[t], cached)
      BY <2>1, <2>3, <2>4, <2>5, <2>7, KeysCheck
    <2> QED
      BY <1>3, <2>3, <2>6, <2>8
  <1>7. ASSUME NEW t \in Threads, checkCycle(t)
        PROVE  AsksOK'
    <2>1. stack[t] # << >> /\ Inner(t).at = "check" /\ UNCHANGED cached
      BY <1>2, <1>7, CheckMoves DEF checkCycle
    <2>2. stack[t] \in Seq(Frame) /\ KeysFit(stack[t], asks[t], cached)
      BY <1>2 DEF AskInv, AsksOK
    <2> DEFINE s == stack[t]   p == Tail(s)
    <2>3. /\ Len(p) \in Nat /\ Len(s) = Len(p) + 1 /\ Agree(s, p, Len(p))
          /\ Nth(s, Len(p) + 1) = Inner(t)
      BY <2>1, <2>2, AgreePop DEF Inner
    <2> HIDE DEF p
    <2>4. KeysFit(p, asks[t], cached)
      BY <2>1, <2>2, <2>3, KeysCheck
    <2>5. Inner(t).of.key \notin cached[Inner(t).of.cache]
      <3>1. Len(p) + 1 \in 1..Len(s)
        BY <2>3
      <3> QED
        BY <2>1, <2>2, <2>3, <3>1 DEF KeysFit
    <2>6. CASE IsCycle(t, Inner(t).of.key)
      <3>1. Release(t) /\ UNCHANGED asks
        BY <1>2, <1>7, <2>6, CheckMoves
      <3>2. stack' = [stack EXCEPT ![t] = p]
        BY <3>1 DEF Release, p
      <3> QED
        BY <1>3, <2>1, <2>4, <3>1, <3>2
    <2>7. CASE ~IsCycle(t, Inner(t).of.key)
      <3>1. Proceed(t) /\ asks' = [asks EXCEPT ![t] = asks[t] \cup {Inner(t).of.key}]
        BY <1>2, <1>7, <2>7, CheckMoves
      <3>2. PICK y \in Frame :
                /\ y.at = "calculate" /\ y.of = Inner(t).of /\ y.of.op = "Compute"
                /\ stack' = [stack EXCEPT ![t] = [stack[t] EXCEPT ![1] = y]]
        BY <3>1 DEF Proceed
      <3> DEFINE r == [s EXCEPT ![1] = y]   k == y.of.key
      <3>3. Len(r) = Len(p) + 1 /\ Agree(r, p, Len(p)) /\ Nth(r, Len(p) + 1) = y
        BY <2>1, <2>2, AgreeSet DEF p
      <3>4. stack' = [stack EXCEPT ![t] = r]
        BY <3>2
      <3> HIDE DEF r
      <3>5. k \notin asks[t]
        BY <2>7, <3>2 DEF IsCycle
      <3>6. KeysFit(r, asks[t] \cup {k}, cached)
        BY <2>3, <2>4, <2>5, <3>2, <3>3, <3>5, KeysCalculate
      <3>7. k \in Keys
        BY <3>2 DEF Frame, Calls
      <3>8. \A u \in Threads :
                KeysFit(stack'[u], asks'[u], cached)
        <4>1. ASSUME NEW u \in Threads, u # t
              PROVE  stack'[u] = stack[u] /\ asks'[u] = asks[u]
          BY <3>1, <3>4, <4>1 DEF AskInv, StacksOK, AsksOK
        <4>2. stack'[t] = r /\ asks'[t] = asks[t] \cup {k}
          BY <3>1, <3>2, <3>4 DEF AskInv, StacksOK, AsksOK
        <4>3. \A u \in Threads : KeysFit(stack[u], asks[u], cached)
          BY DEF AskInv, AsksOK
        <4> QED
          BY <3>6, <4>1, <4>2, <4>3, Zenon
      <3>9. asks' \in [Threads -> SUBSET Keys]
        BY <3>1, <3>2, <3>7 DEF AskInv, AsksOK
      <3> QED
        <4>1. cached' = cached /\ cached \in [Caches -> SUBSET Keys]
          BY <1>2, <2>1 DEF AskInv, AsksOK
        <4> QED
          BY <3>8, <3>9, <4>1 DEF AsksOK
    <2> QED
      BY <2>6, <2>7
  <1>8. ASSUME NEW t \in Threads, NEW stored \in BOOLEAN, EndCompute(t, stored)
        PROVE  AsksOK'
    <2> DEFINE s == stack[t]   p == Tail(s)   f == Inner(t).of
    <2>1. /\ stack[t] # << >> /\ Inner(t).at = "calculate"
          /\ stack' = [stack EXCEPT ![t] = p]
          /\ cached' = [cached EXCEPT ![f.cache] =
                            IF stored THEN cached[f.cache] \cup {f.key} ELSE cached[f.cache]]
          /\ asks' = [asks EXCEPT ![t] = asks[t] \ {f.key}]
      BY <1>2, <1>8 DEF EndCompute, At, Return, ForgetAsk
    <2>2. stack[t] \in Seq(Frame) /\ KeysFit(stack[t], asks[t], cached)
      BY <1>2 DEF AskInv, AsksOK
    <2>3. /\ Len(p) \in Nat /\ Len(s) = Len(p) + 1 /\ Agree(s, p, Len(p))
          /\ Nth(s, Len(p) + 1) = Inner(t)
      BY <2>1, <2>2, AgreePop DEF Inner
    <2>4. p \in Seq(Frame)
      BY <2>1, <2>2, NthPop
    <2>5. Len(p) + 1 \in 1..Len(s) /\ \A j \in 1..Len(p) : j \in 1..Len(s) /\ j < Len(s)
      BY <2>3
    <2>6. f.cache \in Caches /\ f.key \in Keys
      <3>1. Inner(t) \in Frame /\ Nth(s, Len(s)) = Inner(t)
        BY <2>1, <2>2, NthInner DEF Inner
      <3>2. f.op = "Compute"
        BY <1>2, <2>1, <2>3, <2>5 DEF StacksOK, WellNested
      <3> QED
        BY <3>1, <3>2 DEF Frame, Calls
    <2> HIDE DEF p
    <2>7. KeysFit(p, asks[t] \ {f.key}, cached)
      BY <2>1, <2>2, <2>3, KeysCalculate
    <2>8. \A c \in Caches : \A k : k \in cached'[c] => k \in cached[c] \/ (c = f.cache /\ k = f.key)
      BY <1>2, <2>1, <2>6
    <2>9. \A q \in Seq(Frame) : \A j \in 1..Len(q) : Nth(q, j).of.cache \in Caches
      BY NthType, FrameCache
    <2>10. KeysFit(p, asks[t] \ {f.key}, cached')
      <3>1. ASSUME NEW j \in 1..Len(p)
            PROVE  Nth(p, j).of.key # f.key
        <4>1. Nth(p, j).of = Nth(s, j).of /\ Nth(s, j).at = "calculate"
          BY <1>2, <2>3, <2>5 DEF Agree, StacksOK, WellNested
        <4>2. j \in Asked(s) /\ Len(p) + 1 \in Asked(s) /\ j # Len(p) + 1
          BY <2>1, <2>3, <2>5, <4>1 DEF Asked
        <4> QED
          BY <2>2, <2>3, <4>1, <4>2 DEF KeysFit
      <3>2. \A j \in 1..Len(p) : Nth(p, j).of.key \in cached'[Nth(p, j).of.cache]
                                     => Nth(p, j).of.key \in cached[Nth(p, j).of.cache]
        BY <2>4, <2>8, <2>9, <3>1
      <3> QED
        BY <2>7, <3>2, KeysCached
    <2>11. ASSUME NEW u \in Threads, u # t
           PROVE  KeysFit(stack[u], asks[u], cached')
      <3>1. stack[u] \in Seq(Frame) /\ KeysFit(stack[u], asks[u], cached)
        BY <1>2 DEF AskInv, AsksOK
      <3>2. Len(p) + 1 \in HoldsIn(s, f.cache)
        BY <2>1, <2>3, <2>5 DEF HoldsIn
      <3>3. HoldsIn(stack[u], f.cache) = {}
        BY <2>6, <2>11, <3>2 DEF AskInv, LocksOK
      <3> DEFINE q == stack[u]
      <3>4. \A j \in 1..Len(q) : Nth(q, j).at # "lock" => Nth(q, j).of.cache # f.cache
        BY <3>3 DEF HoldsIn
      <3>5. \A j \in 1..Len(q) : Nth(q, j).of.cache \in Caches
        BY <2>9, <3>1
      <3> HIDE DEF q
      <3>6. \A j \in 1..Len(q) : Nth(q, j).at # "lock" =>
                (Nth(q, j).of.key \in cached'[Nth(q, j).of.cache]
                   => Nth(q, j).of.key \in cached[Nth(q, j).of.cache])
        BY <2>8, <3>4, <3>5
      <3>7. KeysFit(q, asks[u], cached')
        BY <3>1, <3>6, KeysCached DEF q
      <3> QED
        BY <3>7 DEF q
    <2>12. asks' \in [Threads -> SUBSET Keys] /\ cached' \in [Caches -> SUBSET Keys]
      BY <1>2, <2>1, <2>6
    <2>13. ASSUME NEW u \in Threads
           PROVE  KeysFit(stack'[u], asks'[u], cached')
      <3>1. CASE u = t
        <4>1. stack'[t] = p /\ asks'[t] = asks[t] \ {f.key}
          BY <1>2, <2>1
        <4> QED
          BY <2>10, <3>1, <4>1
      <3>2. CASE u # t
        <4>1. stack'[u] = stack[u] /\ asks'[u] = asks[u]
          BY <1>2, <2>1, <3>2
        <4> QED
          BY <2>11, <3>2, <4>1
      <3> QED
        BY <3>1, <3>2
    <2> QED
      BY <2>12, <2>13 DEF AsksOK
  <1>9. ASSUME NEW t \in Threads, GetAsks(t)
        PROVE  AsksOK'
    BY <1>1, <1>9, AsksKept DEF GetAsks
  <1>10. ASSUME NEW t \in Threads, ThreadStep(t)
         PROVE  AsksOK'
    BY <1>1, <1>10 DEF ThreadStep, cacheVars
  <1>11. CASE UNCHANGED vars
    BY <1>1, <1>11 DEF vars, cacheVars
  <1> QED
    BY <1>4, <1>5, <1>6, <1>7, <1>8, <1>9, <1>10, <1>11 DEF Next, CacheStep

LEMMA GivenStep ==
    ASSUME AskInv, [Next]_vars
    PROVE  AsksGiven'
  <1> DEFINE Fit(s, c, g) ==
                 s # << >> =>
                     /\ c # NoCall => c.name = "asks" /\ Head(s).at = "check"
                     /\ Asked(s) # {} \/ (Head(s).at = "check" /\ c = NoCall) => g["asks"] # 0
  <1>1. /\ StacksOK /\ stack \in [Threads -> Seq(Frame)]
        /\ given \in [Threads -> [Names -> Nat]] /\ "asks" \in Names
        /\ DOMAIN call = Threads
        /\ \A t \in Threads : Fit(stack[t], call[t], given[t])
    BY ThreadLocalsAssumption, SimpleCacheAssumption
       DEF AskInv, StacksOK, AsksGiven, LocalInv, LocalsOK, Inner
  <1>2. SUFFICES \A t \in Threads : Fit(stack'[t], call'[t], given'[t])
    BY DEF AsksGiven, Inner
  <1> HIDE DEF Fit
  <1>3. CASE UNCHANGED <<stack, call, given>>
    BY <1>1, <1>3
  <1>4. ASSUME NEW t \in Threads, NEW r, stack' = [stack EXCEPT ![t] = r],
               UNCHANGED given, \A u \in Threads : u # t => call'[u] = call[u],
               Fit(r, call'[t], given[t])
        PROVE  \A u \in Threads : Fit(stack'[u], call'[u], given'[u])
    <2>1. stack'[t] = r /\ \A u \in Threads : u # t => stack'[u] = stack[u]
      BY <1>1, <1>4
    <2> QED
      BY <1>1, <1>4, <2>1, Zenon
  \* A call that is over leaves its caller in its calculator.
  <1>5. ASSUME NEW t \in Threads, stack[t] # << >>, call[t] = NoCall,
               stack' = [stack EXCEPT ![t] = Tail(stack[t])], UNCHANGED <<call, given>>
        PROVE  \A u \in Threads : Fit(stack'[u], call'[u], given'[u])
    <2> DEFINE s == stack[t]   r == Tail(s)
    <2>1. s \in Seq(Frame) /\ s # << >> /\ WellNested(s)
      BY <1>1, <1>5 DEF StacksOK
    <2>2. /\ Len(r) \in Nat /\ Len(s) = Len(r) + 1 /\ Agree(s, r, Len(r))
      BY <2>1, AgreePop
    <2>3. r \in Seq(Frame)
      BY <2>1, NthPop
    <2>4. r # << >> => Head(r).at = "calculate"
      <3> SUFFICES ASSUME r # << >> PROVE Head(r).at = "calculate"
        OBVIOUS
      <3>1. Len(r) \in Nat \ {0} /\ Nth(r, Len(r)) = Head(r)
        BY <2>3, NthInner
      <3> HIDE DEF r
      <3>2. Nth(s, Len(r)).at = "calculate" /\ Nth(s, Len(r)).at = Nth(r, Len(r)).at
        BY <2>1, <2>2, <3>1 DEF WellNested, Agree
      <3> QED
        BY <3>1, <3>2
    <2> HIDE DEF r
    <2>5. Asked(r) \subseteq Asked(s)
      BY <2>2, AgreeAsked
    <2>6. Fit(s, call[t], given[t])
      BY <1>1
    <2>7. Fit(r, call[t], given[t])
      BY <1>5, <2>1, <2>4, <2>5, <2>6 DEF Fit
    <2>8. stack' = [stack EXCEPT ![t] = r]
      BY <1>5 DEF r
    <2> QED
      BY <1>4, <1>5, <2>7, <2>8
  <1>6. ASSUME NEW t \in Threads, NEW f \in Calls, Call(t, f)
        PROVE  \A u \in Threads : Fit(stack'[u], call'[u], given'[u])
    <2>1. call[t] = NoCall /\ UNCHANGED <<call, given>> /\ stack[t] \in Seq(Frame)
      BY <1>1, <1>6 DEF Call, localVars
    <2>2. CASE Enter(t)
      <3>1. PICK x \in Frame : x.at = "lock" /\ stack' = [stack EXCEPT ![t] = <<x>>]
        BY <2>2 DEF Enter
      <3>2. Len(<<x>>) = 1 /\ Nth(<<x>>, 1) = x /\ Head(<<x>>) = x
        BY NthFirst
      <3>3. Asked(<<x>>) = {}
        BY <3>1, <3>2 DEF Asked
      <3>4. Fit(<<x>>, call[t], given[t])
        BY <2>1, <3>1, <3>2, <3>3 DEF Fit
      <3> QED
        BY <1>4, <2>1, <3>1, <3>4
    <2>3. CASE Nest(t)
      <3>1. PICK x, y \in Frame :
                /\ x.at = "lock" /\ y.at = "calculate"
                /\ stack[t] # << >> /\ Inner(t).at = "calculate" /\ Inner(t).of = y.of
                /\ stack' = [stack EXCEPT ![t] = <<x, y>> \o Tail(stack[t])]
        BY <2>3 DEF Nest
      <3> DEFINE s == stack[t]   r == <<x, y>> \o Tail(s)
      <3>2. /\ Len(r) = Len(s) + 1 /\ Agree(r, s, Len(s))
            /\ Nth(r, Len(s) + 1) = x
        BY <2>1, <3>1, AgreePush DEF Inner
      <3>3. r \in Seq(Frame) /\ Len(s) \in Nat
        BY <2>1, <3>1, NthPush
      <3>4. stack' = [stack EXCEPT ![t] = r]
        BY <3>1
      <3> HIDE DEF r
      <3>5. r # << >>
        BY <3>2, <3>3
      <3>6. Head(r) = x
        BY <3>2, <3>3, <3>5, NthInner
      <3>7. Asked(r) = Asked(s)
        BY <3>1, <3>2, <3>3, AgreeAsked
      <3>8. Fit(s, call[t], given[t])
        BY <1>1
      <3>9. Fit(r, call[t], given[t])
        BY <2>1, <3>1, <3>6, <3>7, <3>8 DEF Fit
      <3> QED
        BY <1>4, <2>1, <3>4, <3>9
    <2> QED
      BY <1>1, <1>6, <2>2, <2>3, CallMoves
  <1>7. ASSUME NEW t \in Threads, FindValue(t) \/ internalRemove(t)
        PROVE  \A u \in Threads : Fit(stack'[u], call'[u], given'[u])
    <2>1. /\ stack[t] # << >> /\ Inner(t).at = "lock"
          /\ stack' = [stack EXCEPT ![t] = Tail(stack[t])]
      BY <1>1, <1>7, FindMoves DEF Leave
    <2>2. UNCHANGED <<call, given>>
      BY <1>7 DEF FindValue, internalRemove, localVars
    <2>3. call[t] = NoCall
      BY <1>1, <2>1 DEF Fit, Inner
    <2> QED
      BY <1>5, <2>1, <2>2, <2>3
  <1>8. ASSUME NEW t \in Threads, BeginCompute(t)
        PROVE  \A u \in Threads : Fit(stack'[u], call'[u], given'[u])
    <2>1. PICK y \in Frame :
              /\ stack[t] # << >> /\ Inner(t).at = "lock" /\ y.at = "check"
              /\ stack' = [stack EXCEPT ![t] = [stack[t] EXCEPT ![1] = y]]
      BY <1>1, <1>8, BeginMoves DEF Acquire
    <2>2. /\ UNCHANGED given /\ \A u \in Threads : u # t => call'[u] = call[u]
          /\ call'[t] # NoCall /\ call'[t].name = "asks"
      BY <1>1, <1>8 DEF BeginCompute, LookUp, NoCall
    <2> DEFINE s == stack[t]   p == Tail(s)   r == [s EXCEPT ![1] = y]
    <2>3. s \in Seq(Frame) /\ s # << >> /\ Head(s).at = "lock"
      BY <1>1, <2>1 DEF Inner
    <2>4. /\ Len(p) \in Nat /\ Len(s) = Len(p) + 1 /\ Agree(s, p, Len(p))
          /\ Nth(s, Len(p) + 1) = Head(s)
      BY <2>3, AgreePop
    <2>5. Len(r) = Len(p) + 1 /\ Agree(r, p, Len(p)) /\ Nth(r, Len(p) + 1) = y
      BY <2>3, AgreeSet
    <2>6. r \in Seq(Frame)
      BY <2>3, NthSet
    <2>7. stack' = [stack EXCEPT ![t] = r]
      BY <2>1
    <2> HIDE DEF p, r
    <2>8. Asked(r) = Asked(s)
      BY <2>1, <2>3, <2>4, <2>5, AgreeAsked
    <2>9. Head(r) = y
      <3>1. r # << >>
        BY <2>4, <2>5
      <3> QED
        BY <2>5, <2>6, <3>1, NthInner
    <2>10. Fit(s, call[t], given[t])
      BY <1>1
    <2>11. Fit(r, call'[t], given[t])
      BY <2>1, <2>2, <2>3, <2>8, <2>9, <2>10 DEF Fit
    <2> QED
      BY <1>4, <2>2, <2>7, <2>11
  <1>9. ASSUME NEW t \in Threads, checkCycle(t)
        PROVE  \A u \in Threads : Fit(stack'[u], call'[u], given'[u])
    <2>1. /\ stack[t] # << >> /\ Inner(t).at = "check" /\ call[t] = NoCall
          /\ UNCHANGED <<call, given>>
      BY <1>1, <1>9, CheckMoves DEF checkCycle, localVars
    <2>2. CASE IsCycle(t, Inner(t).of.key)
      <3>1. stack' = [stack EXCEPT ![t] = Tail(stack[t])]
        BY <1>1, <1>9, <2>2, CheckMoves DEF Release
      <3> QED
        BY <1>5, <2>1, <3>1
    <2>3. CASE ~IsCycle(t, Inner(t).of.key)
      <3>1. PICK y \in Frame : stack' = [stack EXCEPT ![t] = [stack[t] EXCEPT ![1] = y]]
        BY <1>1, <1>9, <2>3, CheckMoves DEF Proceed
      <3>2. given[t]["asks"] # 0
        BY <1>1, <2>1 DEF Fit, Inner
      <3>3. Fit([stack[t] EXCEPT ![1] = y], call[t], given[t])
        BY <2>1, <3>2 DEF Fit
      <3> QED
        BY <1>4, <2>1, <3>1, <3>3
    <2> QED
      BY <2>2, <2>3
  <1>10. ASSUME NEW t \in Threads, NEW stored \in BOOLEAN, EndCompute(t, stored)
         PROVE  \A u \in Threads : Fit(stack'[u], call'[u], given'[u])
    <2>1. /\ stack[t] # << >> /\ stack' = [stack EXCEPT ![t] = Tail(stack[t])]
      BY <1>1, <1>10, EndMoves DEF Release
    <2>2. call[t] = NoCall /\ UNCHANGED <<call, given>>
      BY <1>10 DEF EndCompute, localVars
    <2> QED
      BY <1>5, <2>1, <2>2
  <1>11. ASSUME NEW t \in Threads, ThreadStep(t)
         PROVE  \A u \in Threads : Fit(stack'[u], call'[u], given'[u])
    <2>1. /\ stack[t] = << >> /\ UNCHANGED <<stack, given>>
          /\ \A u \in Threads : u # t => call'[u] = call[u]
      BY <1>1, <1>11
         DEF ThreadStep, cacheVars, Go, EndThread, RemoveNext, Gone, LookUp
    <2>2. Fit(stack[t], call'[t], given[t])
      BY <2>1 DEF Fit
    <2> QED
      BY <1>1, <2>1, <2>2
  <1>12. ASSUME NEW t \in Threads, GetAsks(t)
         PROVE  \A u \in Threads : Fit(stack'[u], call'[u], given'[u])
    <2>1. call[t] # NoCall /\ UNCHANGED stack
      BY <1>12 DEF GetAsks, NoCall
    <2>2. ASSUME NEW u \in Threads, u # t
          PROVE  call'[u] = call[u] /\ given'[u] = given[u]
      BY <1>1, <1>12, <2>2
         DEF GetAsks, GetThreadLocalStep, CreateOperators, FindOrMake
    <2>3. Fit(stack[t], call'[t], given'[t])
      <3> SUFFICES ASSUME stack[t] # << >> PROVE Fit(stack[t], call'[t], given'[t])
        BY DEF Fit
      <3>1. /\ call[t].name = "asks" /\ Head(stack[t]).at = "check"
            /\ Asked(stack[t]) # {} => given[t]["asks"] # 0
        BY <1>1, <2>1 DEF Fit
      <3>2. CASE CreateOperators(t)
        <4>1. /\ call[t].at = "create" /\ UNCHANGED given
              /\ call' = [call EXCEPT ![t] =
                    [call[t] EXCEPT !.at = "local", !.table = Len(tables) + 1]]
          BY <3>2 DEF CreateOperators
        <4>2. call[t] \in [at : {"create", "local"}, name : Names, table : Nat]
          BY <4>1 DEF AskInv, LocalInv, LocalsOK, NoCall
        <4>3. PICK c \in [at : {"create", "local"}, name : Names, table : Nat] : c = call[t]
          BY <4>2
        <4>4. call'[t] = [c EXCEPT !.at = "local", !.table = Len(tables) + 1]
          BY <1>1, <4>1, <4>3
        <4>5. call'[t].name = "asks" /\ call'[t].at = "local"
          BY <3>1, <4>3, <4>4
        <4>6. call'[t] # NoCall
          BY <4>5 DEF NoCall
        <4> QED
          BY <3>1, <4>1, <4>5, <4>6 DEF Fit
      <3>3. CASE FindOrMake(t)
        <4>1. call'[t] = NoCall
          BY <1>1, <3>3 DEF FindOrMake
        <4>2. given'[t]["asks"] # 0
          <5>1. ASSUME NEW a \in Actuals(t), given' = [given EXCEPT ![t]["asks"] = a.local]
                PROVE  given'[t]["asks"] # 0
            <6>1. call[t].at = "local"
              BY <3>3 DEF FindOrMake
            <6>2. a.local # 0
              BY <2>1, <6>1 DEF AskInv, LocalInv, CallsFit, EntriesFit, Actuals
            <6> QED
              BY <1>1, <5>1, <6>2
          <5>2. ASSUME given' = [given EXCEPT ![t]["asks"] = made[t] + 1]
                PROVE  given'[t]["asks"] # 0
            <6>1. made[t] + 1 # 0
              BY DEF AskInv, LocalInv, LocalsOK
            <6> QED
              BY <1>1, <5>2, <6>1
          <5> QED
            BY <3>1, <3>3, <5>1, <5>2 DEF FindOrMake
        <4> QED
          BY <4>1, <4>2 DEF Fit
      <3> QED
        BY <1>12, <3>2, <3>3 DEF GetAsks, GetThreadLocalStep
    <2> QED
      BY <1>1, <2>1, <2>2, <2>3
  <1>13. CASE UNCHANGED vars
    BY <1>3, <1>13 DEF vars, localVars, cacheVars
  <1> QED
    BY <1>6, <1>7, <1>8, <1>9, <1>10, <1>11, <1>12, <1>13 DEF Next, CacheStep

LEMMA AskInvariance == Spec => []AskInv
  <1>1. Init => AsksOK /\ AsksGiven
    <2> SUFFICES ASSUME Init PROVE AsksOK /\ AsksGiven
      OBVIOUS
    <2>1. \A t \in Threads : stack[t] = << >> /\ asks[t] = {}
      BY DEF Init
    <2>2. \A t \in Threads : Len(stack[t]) = 0
      BY <2>1
    <2>3. \A t \in Threads : Asked(stack[t]) = {}
      BY <2>2 DEF Asked
    <2>4. \A t \in Threads : KeysFit(stack[t], asks[t], cached)
      BY <2>1, <2>2, <2>3 DEF KeysFit
    <2>5. AsksOK
      BY <2>4 DEF Init, AsksOK
    <2>6. AsksGiven
      BY <2>1 DEF AsksGiven
    <2> QED
      BY <2>5, <2>6
  <1>2. StacksOK /\ LocksOK /\ LocalInv /\ AsksOK /\ AsksGiven <=> AskInv
    BY DEF AskInv
  <1>3. AskInv /\ [Next]_vars => AsksOK' /\ AsksGiven'
    BY AsksStep, GivenStep
  <1>4. Spec => []WaitInv
    BY WaitInvariance
  <1>5. WaitInv => StacksOK /\ LocksOK
    BY DEF WaitInv
  <1>6. Spec => []LocalInv
    BY CachesUseLocals, LocalInvariance, PTL
  <1> QED
    BY <1>1, <1>2, <1>3, <1>4, <1>5, <1>6, PTL DEF Spec

\* A call's place from the inside and from the outside.
LEMMA PlaceOf ==
    ASSUME StacksOK, NEW t \in Threads, NEW i \in DOMAIN stack[t]
    PROVE  LET j == Len(stack[t]) + 1 - i
           IN  /\ j \in 1..Len(stack[t]) /\ Nth(stack[t], j) = stack[t][i]
               /\ Len(stack[t]) \in Nat /\ i \in 1..Len(stack[t])
  <1>1. stack[t] \in Seq(Frame)
    BY DEF StacksOK
  <1>2. Len(stack[t]) \in Nat /\ DOMAIN stack[t] = 1..Len(stack[t])
    BY <1>1
  <1>3. \A n \in Nat : \A k \in 1..n : n + 1 - k \in 1..n /\ n + 1 - (n + 1 - k) = k
    OBVIOUS
  <1>4. /\ Len(stack[t]) + 1 - i \in 1..Len(stack[t])
        /\ Len(stack[t]) + 1 - (Len(stack[t]) + 1 - i) = i
    BY <1>2, <1>3
  <1> QED
    BY <1>2, <1>4 DEF Nth

\* The keys in a thread's asks are the ones it is computing, no more after an
\* error and no fewer after a nested call, whatever the threads, caches and
\* keys.
THEOREM CachesForgetAsks == Spec => []AsksAreComputed
  <1>1. AskInv => AsksAreComputed
    <2> SUFFICES ASSUME AskInv, NEW t \in Threads
                 PROVE  asks[t] = {stack[t][i].of.key :
                                       i \in {i \in DOMAIN stack[t] : Computing(t, i)}}
      BY DEF AsksAreComputed
    <2> DEFINE s == stack[t]
    <2>1. StacksOK /\ s \in Seq(Frame) /\ asks[t] = {Nth(s, j).of.key : j \in Asked(s)}
      BY DEF AskInv, AsksOK, KeysFit, StacksOK
    <2>2. ASSUME NEW i \in DOMAIN s, Computing(t, i)
          PROVE  s[i].of.key \in asks[t]
      <3>1. PICK j \in 1..Len(s) : Nth(s, j) = s[i]
        BY <2>1, PlaceOf
      <3>2. j \in Asked(s)
        BY <2>2, <3>1 DEF Asked, Computing
      <3> QED
        BY <2>1, <3>1, <3>2
    <2>3. ASSUME NEW j \in Asked(s)
          PROVE  \E i \in DOMAIN s : Computing(t, i) /\ s[i].of.key = Nth(s, j).of.key
      <3>1. j \in 1..Len(s) /\ Nth(s, j).at = "calculate"
        BY DEF Asked
      <3>2. Len(s) + 1 - j \in DOMAIN s /\ Nth(s, j) = s[Len(s) + 1 - j]
        <4>1. Len(s) \in Nat /\ DOMAIN s = 1..Len(s)
          BY <2>1
        <4>2. \A n \in Nat : \A k \in 1..n : n + 1 - k \in 1..n
          OBVIOUS
        <4> QED
          BY <3>1, <4>1, <4>2 DEF Nth
      <3> QED
        BY <3>1, <3>2 DEF Computing
    <2> HIDE DEF s
    <2>4. \A k \in asks[t] : \E j \in Asked(s) : k = Nth(s, j).of.key
      BY <2>1
    <2>5. asks[t] = {s[i].of.key : i \in {i \in DOMAIN s : Computing(t, i)}}
      BY <2>2, <2>3, <2>4
    <2> QED
      BY <2>5 DEF s
  <1> QED
    BY <1>1, AskInvariance, PTL

\* A value is computed once: no calculator is at work for a key its cache has,
\* nor two for the same key of a cache, on any number of threads and at any
\* depth.
THEOREM CachesComputeOnce == Spec => []ComputedOnce
  <1>1. AskInv => ComputedOnce
    <2> SUFFICES ASSUME AskInv, NEW t \in Threads, NEW u \in Threads,
                        NEW i \in DOMAIN stack[t], NEW j \in DOMAIN stack[u],
                        Computing(t, i)
                 PROVE  /\ stack[t][i].of.key \notin cached[stack[t][i].of.cache]
                        /\ Computing(u, j) /\ stack[t][i].of = stack[u][j].of
                              => t = u /\ i = j
      BY DEF ComputedOnce
    <2> DEFINE p == Len(stack[t]) + 1 - i   q == Len(stack[u]) + 1 - j
               c == stack[t][i].of.cache
    <2>1. /\ p \in 1..Len(stack[t]) /\ Nth(stack[t], p) = stack[t][i]
          /\ Len(stack[t]) \in Nat /\ i \in 1..Len(stack[t])
      BY PlaceOf DEF AskInv
    <2>2. /\ q \in 1..Len(stack[u]) /\ Nth(stack[u], q) = stack[u][j]
          /\ Len(stack[u]) \in Nat /\ j \in 1..Len(stack[u])
      BY PlaceOf DEF AskInv
    <2>3. stack[t][i].at = "calculate"
      BY DEF Computing
    <2>4. c \in Caches
      <3>1. Nth(stack[t], p) \in Frame
        BY <2>1, NthType DEF AskInv, StacksOK
      <3> QED
        BY <2>1, <3>1, FrameCache
    <2> HIDE DEF p, q
    <2>5. stack[t][i].of.key \notin cached[c]
      BY <2>1, <2>3 DEF AskInv, AsksOK, KeysFit
    <2>6. ASSUME Computing(u, j), stack[t][i].of = stack[u][j].of
          PROVE  t = u /\ i = j
      <3>1. stack[u][j].at = "calculate" /\ stack[u][j].of.cache = c
        BY <2>6 DEF Computing
      <3>2. p \in HoldsIn(stack[t], c) /\ q \in HoldsIn(stack[u], c)
        BY <2>1, <2>2, <2>3, <3>1 DEF HoldsIn
      <3>3. owner[c] = t /\ owner[c] = u
        BY <2>4, <3>2 DEF AskInv, LocksOK
      <3>4. p \in Asked(stack[t]) /\ q \in Asked(stack[t])
        BY <2>1, <2>2, <2>3, <3>1, <3>3 DEF Asked
      <3>5. Nth(stack[t], p).of.key = Nth(stack[t], q).of.key
        BY <2>1, <2>2, <2>6, <3>3
      <3>6. p = q
        BY <3>4, <3>5 DEF AskInv, AsksOK, KeysFit
      <3> QED
        BY <2>1, <2>2, <3>3, <3>6 DEF p, q
    <2> QED
      BY <2>5, <2>6
  <1> QED
    BY <1>1, AskInvariance, PTL

\* Threads that use caches end without leaving their asks behind in
\* removeAllActuals' tables.
THEOREM CacheThreadsLeaveNothing ==
    Spec => []NothingLeftBehind
  BY CachesUseLocals, ThreadsLeaveNothing, PTL

\* checkCycle's GetThreadLocal gives a thread the same asks every time.
THEOREM CacheThreadsKeepLocals ==
    Spec => SameLocal
  BY CachesUseLocals, ThreadsKeepLocals, PTL
=============================================================================
