------------------------------ MODULE TimerHeap -----------------------------
(***************************************************************************)
(* The TimerHeap of timers/timers.go: jobs in a heap ordered by the time   *)
(* they are due, and one timer set for the first of them.                  *)
(*                                                                         *)
(* scheduleNextTimer and doAllCurrentJobs run on threads of their own and  *)
(* hold the heap's write lock; `runner` is where the thread in             *)
(* doAllCurrentJobs is.  AddJobByTime and a job's Cancel do NOT take that  *)
(* lock, so they interleave with the steps of doAllCurrentJobs.            *)
(*                                                                         *)
(* Job functions return and do not panic, and the error channel is nil     *)
(* (with a channel, a second Cancel would close it twice and panic).  Time *)
(* is a small counter.                                                     *)
(***************************************************************************)
EXTENDS Heap, FiniteSets

CONSTANTS
    MaxTime,      \* bound: the clock stops here; jobs are due at 0..MaxTime
    MaxJobs,      \* bound: jobs that are ever added
    MaxThreads,   \* bound: threads of each kind waiting for the lock
    JobsCancel    \* may a job's function cancel the timer heap?

ASSUME TimerHeapAssumption ==
    /\ MaxTime \in Nat /\ MaxJobs \in Nat /\ MaxThreads \in Nat
    /\ JobsCancel \in BOOLEAN

VARIABLES
    heap,        \* the array of the heap, nodes [id, at]
    idFactory,   \* jobs added so far
    done,        \* ids of the jobs whose closed flag is set
    runs,        \* how often each job was run
    now,
    tInfo,       \* NoTimer, or the job it was set for and whether it may ring
    closed,
    schedulers,  \* threads about to call scheduleNextTimer
    runners,     \* threads about to call doAllCurrentJobs
    runner       \* the thread inside doAllCurrentJobs, or Nobody

vars == <<heap, idFactory, done, runs, now, tInfo, closed, schedulers, runners,
          runner>>

Ids == 1..MaxJobs
Job == [id : Ids, at : 0..MaxTime]
NoTimer == [id |-> 0, at |-> 0, armed |-> FALSE]

\* at "peek" it looks at the heap next; at "peeked" and "runs" it has job.
Nobody == [at |-> "nowhere"]
Peeking == [at |-> "peek"]
Peeked(job) == [at |-> "peeked", job |-> job]
Running(job) == [at |-> "runs", job |-> job]

\* jobComparator: a job that is due later comes after.
jobComparator == {ab \in Job \X Job : ab[1].at > ab[2].at}

Init ==
    /\ heap = << >> /\ idFactory = 0 /\ done = {}
    /\ runs = [j \in Ids |-> 0]
    /\ now = 0 /\ tInfo = NoTimer /\ closed = FALSE
    /\ schedulers = 0 /\ runners = 0 /\ runner = Nobody

-----------------------------------------------------------------------------
(* Callers.                                                                *)

\* AddJobByTime; AddJobByDuration is the same with the time worked out.
AddJobByTime(at) ==
    /\ idFactory < MaxJobs /\ schedulers < MaxThreads
    /\ idFactory' = idFactory + 1
    /\ heap' = Add(jobComparator, heap, [id |-> idFactory', at |-> at])
    /\ schedulers' = schedulers + 1
    /\ UNCHANGED <<done, runs, now, tInfo, closed, runners, runner>>

\* A job's Cancel.
CancelJob(id) ==
    /\ id <= idFactory /\ id \notin done
    /\ done' = done \cup {id}
    /\ UNCHANGED <<heap, idFactory, runs, now, tInfo, closed, schedulers, runners,
                   runner>>

\* The heap's Cancel.  The thread that runs a job holds the lock already and
\* may take it again.
Cancel ==
    /\ runner = Nobody \/ (JobsCancel /\ runner.at = "runs")
    /\ closed' = TRUE
    /\ tInfo' = NoTimer
    /\ UNCHANGED <<heap, idFactory, done, runs, now, schedulers, runners, runner>>

-----------------------------------------------------------------------------
(* The timer and the threads it starts.                                    *)

\* Mutant of TimerIsSet: any timer will do.
TimerIsAnything == tInfo # NoTimer

\* The timer was set for the first job.
TimerIsSet == tInfo.id = Peek(heap).id

\* newTimerData: the timer rings when the job is due.
RingTime(job) == job.at

\* The body of scheduleNextTimer; spawned is the number of runners started.
\* The timer's job is compared by id, and a timer that rang is not cleared.
SetTimer(spawned) ==
    IF heap = << >> \/ TimerIsSet
    THEN spawned = 0 /\ UNCHANGED tInfo
    ELSE LET job == Peek(heap)
         IN  IF job.at <= now
             THEN spawned = 1 /\ tInfo' = NoTimer
             ELSE /\ spawned = 0
                  /\ tInfo' = [id |-> job.id, at |-> RingTime(job), armed |-> TRUE]

scheduleNextTimer ==
    /\ schedulers > 0 /\ runner = Nobody
    /\ schedulers' = schedulers - 1
    /\ \E spawned \in 0..1 : SetTimer(spawned) /\ runners' = runners + spawned
    /\ UNCHANGED <<heap, idFactory, done, runs, now, closed, runner>>

TimerRings ==
    /\ tInfo.armed /\ now >= tInfo.at
    /\ tInfo' = [tInfo EXCEPT !.armed = FALSE]
    /\ runners' = runners + 1
    /\ UNCHANGED <<heap, idFactory, done, runs, now, closed, schedulers, runner>>

Tick ==
    /\ now < MaxTime
    /\ now' = now + 1
    /\ UNCHANGED <<heap, idFactory, done, runs, tInfo, closed, schedulers, runners,
                   runner>>

-----------------------------------------------------------------------------
(* doAllCurrentJobs.                                                       *)

\* Mutant of FirstStep: thd.closed is not looked at.
AlwaysPeeks == Peeking

FirstStep == IF closed THEN Nobody ELSE Peeking

StartJobs ==
    /\ runners > 0 /\ runner = Nobody
    /\ runners' = runners - 1
    /\ runner' = FirstStep
    /\ UNCHANGED <<heap, idFactory, done, runs, now, tInfo, closed, schedulers>>

\* The deferred scheduleNextTimer, and the lock is given back.
LeaveJobs ==
    /\ runner' = Nobody
    /\ \E spawned \in 0..1 : SetTimer(spawned) /\ runners' = runners + spawned
    /\ UNCHANGED <<heap, idFactory, done, runs, now, closed, schedulers>>

PeekJob ==
    /\ runner.at = "peek"
    /\ IF heap = << >> THEN LeaveJobs
       ELSE /\ runner' = Peeked(Peek(heap))
            /\ UNCHANGED <<heap, idFactory, done, runs, now, tInfo, closed,
                           schedulers, runners>>

\* A job that was cancelled, or ran: some first job is taken out.
ClearJob ==
    /\ runner.at = "peeked"
    /\ runner.job.id \in done
    /\ heap' = Get(jobComparator, heap)
    /\ runner' = Peeking
    /\ UNCHANGED <<idFactory, done, runs, now, tInfo, closed, schedulers, runners>>

NotYet ==
    /\ runner.at = "peeked"
    /\ runner.job.id \notin done
    /\ now < runner.job.at
    /\ LeaveJobs

\* Get and the call of the job's function.
RunJob ==
    /\ runner.at = "peeked"
    /\ runner.job.id \notin done
    /\ now >= runner.job.at
    /\ heap' = Get(jobComparator, heap)
    /\ runs' = [runs EXCEPT ![runner.job.id] = @ + 1]
    /\ runner' = Running(runner.job)
    /\ UNCHANGED <<idFactory, done, now, tInfo, closed, schedulers, runners>>

\* Mutant of Finished: the job that ran is not marked.
NotFinished(id) == done

\* job.Cancel()
Finished(id) == done \cup {id}

JobReturns ==
    /\ runner.at = "runs"
    /\ done' = Finished(runner.job.id)
    /\ runner' = Peeking
    /\ UNCHANGED <<heap, idFactory, runs, now, tInfo, closed, schedulers, runners>>

-----------------------------------------------------------------------------
Next ==
    \/ \E at \in 0..MaxTime : AddJobByTime(at)
    \/ \E id \in Ids : CancelJob(id)
    \/ Cancel
    \/ scheduleNextTimer \/ TimerRings \/ Tick
    \/ StartJobs \/ PeekJob \/ ClearJob \/ NotYet \/ RunJob \/ JobReturns

Spec == Init /\ [][Next]_vars

\* Time passes, timers ring, threads run and get the lock, jobs return.
Fairness ==
    /\ WF_vars(Tick) /\ WF_vars(TimerRings)
    /\ WF_vars(scheduleNextTimer) /\ WF_vars(StartJobs)
    /\ WF_vars(PeekJob) /\ WF_vars(ClearJob) /\ WF_vars(NotYet)
    /\ WF_vars(RunJob) /\ WF_vars(JobReturns)

FairSpec == Spec /\ Fairness

-----------------------------------------------------------------------------
InHeap(id) == \E i \in DOMAIN heap : heap[i].id = id

TypeOK ==
    /\ heap \in Seq(Job)
    /\ idFactory \in 0..MaxJobs /\ done \subseteq Ids
    /\ runs \in [Ids -> Nat]
    /\ now \in 0..MaxTime
    /\ tInfo \in [id : 0..MaxJobs, at : 0..MaxTime, armed : BOOLEAN]
    /\ closed \in BOOLEAN /\ schedulers \in 0..MaxThreads /\ runners \in Nat
    /\ runner \in {Nobody, Peeking} \cup {Peeked(j) : j \in Job}
                    \cup {Running(j) : j \in Job}

\* No job runs twice, also when a job added between Peek and Get of
\* doAllCurrentJobs leaves a job in the heap that is running.
RunsOnce == \A id \in Ids : runs[id] <= 1

\* While nobody is about to look at the heap, its first job has a timer that
\* will ring when it is due: one timer is enough for all jobs.
TimerCoversHeap ==
    heap # << >> /\ ~closed /\ runner = Nobody /\ schedulers = 0 /\ runners = 0 =>
        /\ tInfo.armed
        /\ tInfo.id = Peek(heap).id /\ tInfo.at = Peek(heap).at

\* A job is not taken from the heap and dropped: it stays there until it was
\* cancelled or run ("TimerHeap will run methods or functions after the
\* specified duration or at a specific time").  Not kept: TimerHeapLost.cfg.
NoJobLost ==
    \A id \in 1..idFactory :
        id \in done \/ InHeap(id) \/ (runner.at = "runs" /\ runner.job.id = id)

\* A timer heap that was cancelled starts no job ("IsRunning true if this
\* service is running, false if it has been cancelled"), as long as no job cancels
\* its own timer heap: TimerHeapCancel.cfg.
CancelledStartsNothing == [][closed => runs' = runs]_vars

\* Every job leaves the heap of a timer heap that is not cancelled.
JobsLeaveHeap ==
    \A id \in Ids : InHeap(id) ~> (~InHeap(id) \/ id \in done \/ closed)
=============================================================================
