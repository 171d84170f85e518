---------------------------- MODULE ThreadLocals ----------------------------
(***************************************************************************)
(* Threads and thread locals of goethe_factory.go and thread_local_impl.go.*)
(*                                                                         *)
(* Looking a name up, adding an entry for a name nobody established, and   *)
(* finding or making the thread's own ThreadLocal are three steps, since   *)
(* localsMux is let go between them (and getOperatorsByName,               *)
(* EstablishThreadLocal and removeAllActuals let it go before they even    *)
(* look).  The section under operators.lock is one step; the initializer   *)
(* and the destroyer run inside it.                                        *)
(***************************************************************************)
EXTENDS ThreadIds, FiniteSets

CONSTANTS
    Threads,      \* goroutines that Go may start
    Names,        \* names of thread locals
    Established,  \* names established before any thread runs, as package init does
    FirstTids,    \* values of lastTid to begin with: older threads have ended
    MaxRefused,   \* bound: calls of Go that getValues refuses
    MaxTables     \* bound: threadLocalOperators made

ASSUME ThreadLocalsAssumption ==
    /\ Established \subseteq Names /\ IsFiniteSet(Names)
    /\ FirstTids \subseteq Nat \ 0..8
    /\ MaxRefused \in Nat /\ MaxTables \in Nat

VARIABLES
    lastTid, refused,
    life,      \* of each thread: "new", "run", "end" (in removeAllActuals), "gone"
    tid,       \* the id Go gave it
    tables,    \* the actuals of the threadLocalOperators made so far, by thread
               \* id; `of` is history: the thread the ThreadLocal was made for
    current,   \* threadLocals: the index of each name's operators, 0 for none
    made,      \* number of ThreadLocals made so far for each thread
    call,      \* each thread's GetThreadLocal in progress
    given,     \* history: the ThreadLocal each thread was last given for a name
    endsWith,  \* names removeAllActuals has still to visit
    establish  \* the name an EstablishThreadLocal has found to be free, or none

localVars == <<lastTid, refused, life, tid, tables, current, made, call, given,
               endsWith, establish>>

NoCall == [at |-> "idle"]
NoName == "none"

\* The established names in some order.
EstablishedSeq == SetToSeq(Established)

LocalInit ==
    /\ lastTid \in FirstTids /\ refused = 0
    /\ life = [t \in Threads |-> "new"] /\ tid = [t \in Threads |-> 0]
    /\ tables = [i \in 1..Len(EstablishedSeq) |-> {}]
    /\ current = [n \in Names |->
            IF n \in Established
            THEN CHOOSE i \in DOMAIN EstablishedSeq : EstablishedSeq[i] = n ELSE 0]
    /\ made = [t \in Threads |-> 0]
    /\ call = [t \in Threads |-> NoCall]
    /\ given = [t \in Threads |-> [n \in Names |-> 0]]
    /\ endsWith = [t \in Threads |-> {}]
    /\ establish = NoName

-----------------------------------------------------------------------------
\* Go: the id is used up even if the arguments are refused.
Go(t) ==
    /\ life[t] = "new"
    /\ lastTid' = lastTid + 1
    /\ tid' = [tid EXCEPT ![t] = lastTid + 1]
    /\ life' = [life EXCEPT ![t] = "run"]
    /\ UNCHANGED <<refused, tables, current, made, call, given, endsWith, establish>>

GoRefused ==
    /\ refused < MaxRefused
    /\ refused' = refused + 1 /\ lastTid' = lastTid + 1
    /\ UNCHANGED <<life, tid, tables, current, made, call, given, endsWith, establish>>

\* GetThreadID, called by t.
MyTid(t) == GetThreadID(TidFrames(tid[t]))

-----------------------------------------------------------------------------
(* GetThreadLocal.                                                         *)

\* getOperatorsByName
LookUp(t, n) ==
    /\ life[t] = "run" /\ call[t] = NoCall
    /\ call' = [call EXCEPT ![t] =
            [at |-> IF current[n] = 0 THEN "create" ELSE "local",
             name |-> n, table |-> current[n]]]
    /\ UNCHANGED <<lastTid, refused, life, tid, tables, current, made, given,
                   endsWith, establish>>

\* Nobody established the name: new operators take its place, whatever has
\* become of it since the look-up.
CreateOperators(t) ==
    /\ call[t].at = "create" /\ Len(tables) < MaxTables
    /\ tables' = Append(tables, {})
    /\ current' = [current EXCEPT ![call[t].name] = Len(tables) + 1]
    /\ call' = [call EXCEPT ![t] = [@ EXCEPT !.at = "local", !.table = Len(tables) + 1]]
    /\ UNCHANGED <<lastTid, refused, life, tid, made, given, endsWith, establish>>

\* Mutant of Actuals: a ThreadLocal is never found again.
NoActuals(t) == {}

\* What t's GetThreadLocal finds in its operators.
Actuals(t) == {a \in tables[call[t].table] : a.tid = MyTid(t)}

\* newThreadLocal
newThreadLocal(t) == [tid |-> MyTid(t), of |-> t, local |-> made[t] + 1]

\* The section under operators.lock: find the thread's ThreadLocal or make it.
FindOrMake(t) ==
    /\ call[t].at = "local"
    /\ \/ \E a \in Actuals(t) :
             /\ given' = [given EXCEPT ![t][call[t].name] = a.local]
             /\ UNCHANGED <<tables, made>>
       \/ /\ Actuals(t) = {}
          /\ made' = [made EXCEPT ![t] = @ + 1]
          /\ tables' = [tables EXCEPT ![call[t].table] =
                            @ \cup {newThreadLocal(t)}]
          /\ given' = [given EXCEPT ![t][call[t].name] = made[t] + 1]
    /\ call' = [call EXCEPT ![t] = NoCall]
    /\ UNCHANGED <<lastTid, refused, life, tid, current, endsWith, establish>>

GetThreadLocalStep(t) == CreateOperators(t) \/ FindOrMake(t)

-----------------------------------------------------------------------------
\* EstablishThreadLocal, on a thread of its own: it finds the name free ...
EstablishThreadLocal(n) ==
    /\ establish = NoName /\ current[n] = 0
    /\ establish' = n
    /\ UNCHANGED <<lastTid, refused, life, tid, tables, current, made, call,
                   given, endsWith>>

\* ... and writes its operators without a lock.
EstablishWrites ==
    /\ establish # NoName /\ Len(tables) < MaxTables
    /\ tables' = Append(tables, {})
    /\ current' = [current EXCEPT ![establish] = Len(tables) + 1]
    /\ establish' = NoName
    /\ UNCHANGED <<lastTid, refused, life, tid, made, call, given, endsWith>>

-----------------------------------------------------------------------------
\* The end of a thread: invokeEnd's deferred removeAllActuals ranges over the
\* names there are.
EndThread(t) ==
    /\ life[t] = "run" /\ call[t] = NoCall
    /\ life' = [life EXCEPT ![t] = "end"]
    /\ endsWith' = [endsWith EXCEPT ![t] = {n \in Names : current[n] # 0}]
    /\ UNCHANGED <<lastTid, refused, tid, tables, current, made, call, given,
                   establish>>

\* Mutant of removeThreadLocal: the entry of the youngest thread goes instead.
RemoveYoungest(t, n) ==
    /\ endsWith' = [endsWith EXCEPT ![t] = @ \ {n}]
    /\ tables' = [tables EXCEPT ![current[n]] =
                      {a \in @ : a.tid # lastTid}]

\* removeThreadLocal: the destroyer and the removal are one.
removeThreadLocal(t, n) ==
    /\ endsWith' = [endsWith EXCEPT ![t] = @ \ {n}]
    /\ tables' = [tables EXCEPT ![current[n]] =
                      {a \in @ : a.tid # tid[t]}]

RemoveNext(t) ==
    /\ life[t] = "end"
    /\ \E n \in endsWith[t] : removeThreadLocal(t, n)
    /\ UNCHANGED <<lastTid, refused, life, tid, current, made, call, given, establish>>

Gone(t) ==
    /\ life[t] = "end" /\ endsWith[t] = {}
    /\ life' = [life EXCEPT ![t] = "gone"]
    /\ UNCHANGED <<lastTid, refused, tid, tables, current, made, call, given,
                   endsWith, establish>>

LocalNext ==
    \/ GoRefused
    \/ \E n \in Names : EstablishThreadLocal(n)
    \/ EstablishWrites
    \/ \E t \in Threads :
          \/ Go(t) \/ EndThread(t) \/ RemoveNext(t) \/ Gone(t)
          \/ GetThreadLocalStep(t)
          \/ \E n \in Names : LookUp(t, n)

LocalSpec == LocalInit /\ [][LocalNext]_localVars

-----------------------------------------------------------------------------
\* No entry is left for a thread that is gone, in the operators of an
\* established name: ids are never used again, so it would stay for ever, its
\* destroyer uncalled.  This needs GetThreadID, which files the entry, to
\* agree with the id invokeEnd removes it by.
NothingLeftBehind ==
    \A t \in Threads : life[t] = "gone" =>
        \A n \in Established : \A a \in tables[current[n]] : a.of # t

\* A thread is given the same ThreadLocal for an established name every time,
\* however its calls interleave with those of others: what it has Set is there
\* to Get.
SameLocal ==
    [][\A t \in Threads, n \in Established :
         given[t][n] # 0 => given'[t][n] = given[t][n]]_localVars

\* The same for any name ("returns the instance of the storage associated with
\* the current goethe thread").  Not kept: ThreadLocals.cfg.
SameLocalForAll ==
    [][\A t \in Threads, n \in Names :
         given[t][n] # 0 => given'[t][n] = given[t][n]]_localVars

\* No write to the threadLocals map without localsMux while another thread may
\* be reading it ("This method can be called on any thread").  Not kept:
\* ThreadLocals.cfg.
NoMapRace ==
    establish # NoName =>
        \A t \in Threads : life[t] # "end" \/ endsWith[t] = {}
=============================================================================
