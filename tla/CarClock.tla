------------------------------ MODULE CarClock ------------------------------
(***************************************************************************)
(* The clock of cache/car_clock.go: a singly linked list from head to tail *)
(* and a map from keys to its nodes.  A clock is a record of               *)
(*   list      the nodes reachable from head, in order; `live` says that   *)
(*             keyMap still leads to this very node                        *)
(*   lost      keys whose node is in keyMap but not reachable from head    *)
(*   attached  tail is the last node of list (or nil if there is none);    *)
(*             otherwise tail is some node that is no longer linked        *)
(* RemoveAll can leave dead nodes in the list and a detached tail, so all  *)
(* three are needed.                                                       *)
(***************************************************************************)
EXTENDS Naturals, Sequences, FiniteSets

newCarClock == [list |-> << >>, lost |-> {}, attached |-> TRUE]

\* The domain of keyMap.
ClockKeys(c) ==
    {c.list[i].key : i \in {n \in DOMAIN c.list : c.list[n].live}} \cup c.lost

Size(c) == Cardinality(ClockKeys(c))

\* Mutant of AddTail: the node comes in with its page reference bit set.
AddTailReferenced(c, k) ==
    [c EXCEPT !.list = Append(@, [key |-> k, ref |-> TRUE, live |-> TRUE])]

\* AddTail (the caller panics if k is in ClockKeys).
AddTail(c, k) ==
    IF c.attached
    THEN [c EXCEPT !.list = Append(@, [key |-> k, ref |-> FALSE, live |-> TRUE])]
    ELSE [c EXCEPT !.lost = @ \cup {k}]

\* keyMap without the keys of S: their nodes stay where they are.
Unmap(list, S) ==
    [i \in DOMAIN list |-> [list[i] EXCEPT !.live = @ /\ list[i].key \notin S]]

\* RemoveHead of a clock with a head.
RemoveHead(c) ==
    LET k == Head(c.list).key
    IN  [list |-> Unmap(Tail(c.list), {k}),
         lost |-> c.lost \ {k},
         attached |-> c.attached \/ Len(c.list) = 1]

SetPageReference(c, k) ==
    [c EXCEPT !.list = [i \in DOMAIN c.list |->
        [c.list[i] EXCEPT !.ref = @ \/ (c.list[i].key = k /\ c.list[i].live)]]]

\* The elements of s at the positions in `keep`, in their order.
Kept(s, keep) ==
    LET rank(i) == Cardinality({n \in keep : n <= i})
    IN  [j \in 1..Cardinality(keep) |-> s[CHOOSE i \in keep : rank(i) = j]]

\* RemoveAll with a removal function that holds of the keys in R.  prior is
\* always the node visited before dot, also when that one was just unlinked:
\* then dot is not unlinked itself, so of a run of neighbours only every other
\* one goes, starting with the first.
RemoveAll(c, R) ==
    LET hit(i) == c.list[i].key \in R
        unlinked == {i \in DOMAIN c.list :
                        \E m \in 1..i : /\ \A n \in m..i : hit(n)
                                        /\ m = 1 \/ ~hit(m - 1)
                                        /\ (i - m) % 2 = 0}
        last == Len(c.list)
        visited == {c.list[i].key : i \in {n \in DOMAIN c.list : hit(n)}}
    IN  IF c.list = << >> THEN c
        ELSE [list |-> Kept(Unmap(c.list, R), DOMAIN c.list \ unlinked),
              lost |-> c.lost \ visited,
              attached |-> IF hit(last) THEN last - 1 \notin unlinked
                                        ELSE c.attached]
=============================================================================
