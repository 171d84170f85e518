----------------------------- MODULE SimpleCache ----------------------------
(***************************************************************************)
(* The caches of cache/cache.go at work: threads that Compute keys whose   *)
(* calculators Compute further keys, of the same cache or of others, and   *)
(* the keys each thread is computing in a thread local of ThreadLocals.    *)
(*                                                                         *)
(* A cache's lock is a goethe lock used for writing: the abstract RWLock,  *)
(* as an owner and a depth.  A call from a thread that is not goethe's     *)
(* runs on a goethe thread started for it, so it is a thread that makes    *)
(* one call and ends.  A HasKey or a Size changes nothing and is a         *)
(* look at the cache under its lock.                                       *)
(***************************************************************************)
EXTENDS ThreadLocals

CONSTANTS
    Caches, Keys,
    CallsInto,    \* the caches that a cache's calculator calls
    MaxNested,    \* bound: calls of caches that one calculator makes
    Nobody        \* owner of a free lock

ASSUME SimpleCacheAssumption ==
    /\ CallsInto \subseteq Caches \X Caches /\ MaxNested \in Nat
    /\ Nobody \notin Threads
    /\ "asks" \in Established

VARIABLES
    cached,   \* the keys of each cache's map
    owner, depth,   \* of each cache's lock
    stack,    \* each thread's calls in progress, the innermost first
    asks      \* the map in each thread's thread local

cacheVars == <<cached, owner, depth, stack, asks>>
vars == <<localVars, cacheVars>>

Init ==
    /\ LocalInit
    /\ cached = [c \in Caches |-> {}]
    /\ owner = [c \in Caches |-> Nobody] /\ depth = [c \in Caches |-> 0]
    /\ stack = [t \in Threads |-> << >>]
    /\ asks = [t \in Threads |-> {}]

-----------------------------------------------------------------------------
\* What a caller may ask of a cache; "Remove" stands for Clear as well, and
\* "HasKey" for Size.
Calls == [op : {"Compute"}, cache : Caches, key : Keys]
    \cup [op : {"Remove", "HasKey"}, cache : Caches]

Inner(t) == Head(stack[t])

\* Where t's innermost call is.
At(t) == IF stack[t] = << >> THEN "none" ELSE Inner(t).at

NewCall(f) == [of |-> f, at |-> "lock", nested |-> 0]

\* t calls a cache, on its own account or inside a calculator.
Call(t, f) ==
    /\ life[t] = "run" /\ call[t] = NoCall
    /\ \/ /\ stack[t] = << >>
          /\ stack' = [stack EXCEPT ![t] = <<NewCall(f)>>]
       \/ /\ At(t) = "calculate" /\ Inner(t).nested < MaxNested
          /\ <<Inner(t).of.cache, f.cache>> \in CallsInto
          /\ stack' = [stack EXCEPT ![t] =
                <<NewCall(f), [Inner(t) EXCEPT !.nested = @ + 1]>> \o Tail(@)]
    /\ UNCHANGED <<localVars, cached, owner, depth, asks>>

\* The lock of cache c is there for t to take, once more or afresh.
Available(t, c) == owner[c] \in {Nobody, t}

\* The call is over and its caller goes on, be it a calculator or a goroutine
\* that waits for the reply.
Return(t) == stack' = [stack EXCEPT ![t] = Tail(@)]

Hit(t) ==
    LET f == Inner(t).of
    IN  f.op = "HasKey" \/ (f.op = "Compute" /\ f.key \in cached[f.cache])

\* HasKey, Size, and a Compute whose key is there.
FindValue(t) ==
    /\ At(t) = "lock" /\ Available(t, Inner(t).of.cache)
    /\ Hit(t)
    /\ Return(t)
    /\ UNCHANGED <<localVars, cached, owner, depth, asks>>

\* internalRemove, under the lock from end to end, with a removal function that
\* picks any of the keys; internalClear is the same with all of them.
internalRemove(t) ==
    /\ At(t) = "lock" /\ Available(t, Inner(t).of.cache)
    /\ Inner(t).of.op = "Remove"
    /\ \E left \in SUBSET cached[Inner(t).of.cache] :
          cached' = [cached EXCEPT ![Inner(t).of.cache] = left]
    /\ Return(t)
    /\ UNCHANGED <<localVars, owner, depth, asks>>

\* internalCompute on a missing key, as far as checkCycle's GetThreadLocal.
BeginCompute(t) ==
    /\ At(t) = "lock" /\ Available(t, Inner(t).of.cache)
    /\ ~Hit(t) /\ Inner(t).of.op = "Compute"
    /\ LET c == Inner(t).of.cache
       IN  owner' = [owner EXCEPT ![c] = t] /\ depth' = [depth EXCEPT ![c] = @ + 1]
    /\ stack' = [stack EXCEPT ![t][1].at = "check"]
    /\ LookUp(t, "asks")
    /\ UNCHANGED <<cached, asks>>

\* The thread local is found or made; its initializer sets an empty map.
GetAsks(t) ==
    /\ call[t].at # "idle" /\ GetThreadLocalStep(t)
    /\ asks' = IF call[t].name = "asks" /\ made'[t] # made[t]
               THEN [asks EXCEPT ![t] = {}] ELSE asks
    /\ UNCHANGED <<cached, owner, depth, stack>>

\* Mutant of Unlock: an error path that keeps the lock.
KeepLocked(c) == UNCHANGED <<owner, depth>>

\* The deferred Unlock.
Unlock(c) ==
    /\ depth' = [depth EXCEPT ![c] = @ - 1]
    /\ owner' = [owner EXCEPT ![c] = IF depth[c] = 1 THEN Nobody ELSE @]

\* Mutant of IsCycle: only a key's direct repetition is noticed.
IsDirectCycle(t, key) ==
    Len(stack[t]) > 1 /\ stack[t][2].of.key = key

\* Is the key among the ones the thread is computing?
IsCycle(t, key) == key \in asks[t]

\* The rest of checkCycle: a cycle is an error whatever the handler says;
\* otherwise the calculator is called.
checkCycle(t) ==
    /\ At(t) = "check" /\ call[t] = NoCall
    /\ LET f == Inner(t).of
       IN  \/ /\ IsCycle(t, f.key)
              /\ Unlock(f.cache) /\ Return(t)
              /\ UNCHANGED asks
           \/ /\ ~IsCycle(t, f.key)
              /\ asks' = [asks EXCEPT ![t] = @ \cup {f.key}]
              /\ stack' = [stack EXCEPT ![t][1].at = "calculate"]
              /\ UNCHANGED <<owner, depth>>
    /\ UNCHANGED <<localVars, cached>>

\* Mutant of ForgetAsk: not on the way out of an error.
ForgetAskIfStored(t, key, stored) ==
    asks' = [asks EXCEPT ![t] = IF stored THEN @ \ {key} ELSE @]

\* The deferred delete(asks, key).
ForgetAsk(t, key, stored) == asks' = [asks EXCEPT ![t] = @ \ {key}]

\* The calculator returns a value, which is stored, or an error.
EndCompute(t, stored) ==
    /\ At(t) = "calculate" /\ call[t] = NoCall
    /\ LET f == Inner(t).of
       IN  /\ cached' = [cached EXCEPT ![f.cache] =
                            IF stored THEN @ \cup {f.key} ELSE @]
           /\ ForgetAsk(t, f.key, stored)
           /\ Unlock(f.cache)
    /\ Return(t)
    /\ UNCHANGED localVars

CacheStep(t) ==
    \/ FindValue(t) \/ internalRemove(t) \/ BeginCompute(t)
    \/ GetAsks(t) \/ checkCycle(t)

\* Threads begin and end, and use thread locals of their own, outside caches.
ThreadStep(t) ==
    /\ stack[t] = << >>
    /\ \/ Go(t) \/ EndThread(t) \/ RemoveNext(t) \/ Gone(t)
       \/ \E n \in Names : LookUp(t, n)
    /\ UNCHANGED cacheVars

Next ==
    \/ \E t \in Threads :
          \/ \E f \in Calls : Call(t, f)
          \/ CacheStep(t)
          \/ \E stored \in BOOLEAN : EndCompute(t, stored)
          \/ ThreadStep(t)

Spec == Init /\ [][Next]_vars

\* Threads run, the lock is handed on to whoever waits for it, and
\* calculators return.
FairSpec ==
    /\ Spec
    /\ \A t \in Threads :
          /\ SF_vars(CacheStep(t))
          /\ WF_vars(\E stored \in BOOLEAN : EndCompute(t, stored))

-----------------------------------------------------------------------------
Computing(t, i) == i \in DOMAIN stack[t] /\ stack[t][i].at = "calculate"

\* "If two threads try to create the same value the value will still only be
\* computed once": no calculator is at work for a key that its cache has, and
\* no two are at work for the same key of a cache, be it on two threads or one
\* inside the other.
ComputedOnce ==
    \A t, u \in Threads : \A i \in DOMAIN stack[t], j \in DOMAIN stack[u] :
        Computing(t, i) =>
            /\ stack[t][i].of.key \notin cached[stack[t][i].of.cache]
            /\ Computing(u, j) /\ stack[t][i].of = stack[u][j].of => t = u /\ i = j

\* The keys in a thread's asks are the ones it is computing: an error on the
\* way leaves none behind that would later be mistaken for a cycle.
AsksAreComputed ==
    \A t \in Threads :
        asks[t] = {stack[t][i].of.key : i \in {i \in DOMAIN stack[t] : Computing(t, i)}}

\* Some call can always go on, as long as there is one: threads never wait for
\* each other's locks in a circle, and none goes away with a lock.  It needs
\* caches that do not call each other in a circle (CacheDeadlock.cfg).
NoCircularWait ==
    LET busy == {t \in Threads : stack[t] # << >>}
    IN  busy # {} =>
            \E t \in busy : At(t) = "lock" => Available(t, Inner(t).of.cache)

\* Every call of a cache returns.
CallsReturn == \A t \in Threads : (stack[t] # << >>) ~> (stack[t] = << >>)

\* A Compute is refused as a cycle only if the thread is computing that very
\* key of that cache.  Not kept: CacheFalseCycle.cfg.
CyclesAreReal ==
    \A t \in Threads :
        At(t) = "check" /\ call[t] = NoCall /\ IsCycle(t, Inner(t).of.key)
            => \E i \in DOMAIN stack[t] : Computing(t, i) /\ stack[t][i].of = Inner(t).of
=============================================================================
