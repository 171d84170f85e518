-------------------------------- MODULE Heap --------------------------------
(***************************************************************************)
(* The binary heap of queues/heap.go, as operators on its array.  The      *)
(* array is a sequence, so indices are one more than in the code.  Each    *)
(* operation runs under the heap's mutex.                                  *)
(*                                                                         *)
(* The comparator is the relation `after`: <<a, b>> is in it if            *)
(* comparator(a, b) < 0, that is, a is returned after b.                   *)
(***************************************************************************)
EXTENDS Naturals, Sequences

getParent(i) == i \div 2
getChildren(i) == <<2 * i, 2 * i + 1>>

\* comparator(a, b) <= 0, for a comparator that is antisymmetric
AfterOrEqual(after, a, b) == <<b, a>> \notin after

\* Where a node that starts at `first` comes by, if it moves from i to next[i]
\* and rests where next[i] = i: the smallest set it cannot leave.
Path(n, first, next) ==
    LET closed == {P \in SUBSET (1..n) : first \in P /\ \A j \in P : next[j] \in P}
    IN  {i \in 1..n : \A P \in closed : i \in P}

\* The array after `node` has changed places with each node on its way: all of
\* them move one place back along the path, and it takes the last place.
Swapped(queue, n, first, next, node) ==
    LET path == Path(n, first, next)
    IN  [i \in 1..n |-> IF i \notin path THEN queue[i]
                        ELSE IF next[i] = i THEN node ELSE queue[next[i]]]

\* Mutant of RisesPast: the comparison is the wrong way round.
RisesPastEarlier(after, queue, i, node) ==
    i > 1 /\ <<node, queue[getParent(i)]>> \in after

\* The loop condition of Add.
RisesPast(after, queue, i, node) ==
    i > 1 /\ <<queue[getParent(i)], node>> \in after

\* Add bubbles the node up from the end.
Add(after, queue, node) ==
    LET n == Len(queue) + 1
        next == [i \in 1..n |->
                    IF RisesPast(after, queue, i, node) THEN getParent(i) ELSE i]
    IN  Swapped(queue, n, n, next, node)

\* The child that bubbleNode changes places with at i, i if it stays there.
\* len is the length of the array without its last node.
SwapIndex(after, queue, len, i, bubbleNode) ==
    LET left == getChildren(i)[1]
        right == getChildren(i)[2]
        child == IF right > len \/ <<queue[right], queue[left]>> \in after
                 THEN left ELSE right
    IN  IF left > len \/ AfterOrEqual(after, queue[child], bubbleNode) THEN i ELSE child

Peek(queue) == queue[1]

\* The array after Get removed the first node of a heap that is not empty: the
\* last one bubbles down from the top.
Get(after, queue) ==
    LET len == Len(queue) - 1
        bubbleNode == queue[len + 1]
        next == [i \in 1..len |-> SwapIndex(after, queue, len, i, bubbleNode)]
    IN  Swapped(queue, len, 1, next, bubbleNode)
=============================================================================
