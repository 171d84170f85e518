---------------------------- MODULE PriorityQueue ---------------------------
(***************************************************************************)
(* All sequences of Add and Get on one Heap, beside the bag of the nodes   *)
(* that are in it: the promise of queues/heap.go.                          *)
(***************************************************************************)
EXTENDS Heap, FiniteSets

CONSTANTS
    Priorities, Tags,   \* a payload has a priority; tags tell equal ones apart
    MaxSize             \* bound: nodes in the heap

ASSUME PrioritiesAssumption == Priorities \subseteq Nat /\ MaxSize \in Nat

VARIABLES
    queue,
    held    \* how many of each payload were added and not returned yet

queueVars == <<queue, held>>

Payload == [priority : Priorities, tag : Tags]

\* Lower priorities are returned first.
Later == {ab \in Payload \X Payload : ab[1].priority > ab[2].priority}

HeapInit == queue = << >> /\ held = [p \in Payload |-> 0]

AddNode(p) ==
    /\ Len(queue) < MaxSize
    /\ queue' = Add(Later, queue, p)
    /\ held' = [held EXCEPT ![p] = @ + 1]

GetNode ==
    /\ queue # << >>
    /\ held' = [held EXCEPT ![Peek(queue)] = @ - 1]
    /\ queue' = Get(Later, queue)

HeapNext == GetNode \/ \E p \in Payload : AddNode(p)

HeapSpec == HeapInit /\ [][HeapNext]_queueVars

-----------------------------------------------------------------------------
\* The node Get returns next comes after no other node.
TopIsNext == \A i \in DOMAIN queue : <<Peek(queue), queue[i]>> \notin Later

\* Swapping neither loses nor duplicates a node.
NothingLost ==
    \A p \in Payload : Cardinality({i \in DOMAIN queue : queue[i] = p}) = held[p]

\* After any sequence of Add and Get the array is a priority queue of exactly
\* the nodes added and not returned: the promise of Heap's Add, Get and Peek.
IsPriorityQueue == TopIsNext /\ NothingLost
=============================================================================
