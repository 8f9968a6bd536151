----------------------------- MODULE ThreadPool -----------------------------
(***************************************************************************)
(* The job queue and the worker threads of the QLAD-flow analyser          *)
(* (proc/ThreadPool.*, struct/SafeQueue.h, sync/Semaphore.h).  A client    *)
(* hands a job over in two steps, a push under the queue's mutex and a     *)
(* post of the semaphore; a worker takes one in two steps, a wait on the   *)
(* semaphore and a pop.  stop() clears mRun, adds one NULL job for every   *)
(* thread and joins them all.  What a job does is left to the modules that *)
(* instantiate this one: here it only starts (Pop) and returns (Return).   *)
(***************************************************************************)
EXTENDS Threads, Integers, Sequences, FiniteSets

\* Threads are the pool's, ThreadPool::mThreads; NULL is the null job.
CONSTANTS Clients,  \* the threads that call addJob or stop
          Jobs      \* the jobs clients may add

ASSUME PoolAssumption ==
  /\ IsFiniteSet(Threads)
  /\ Threads # {}
  /\ IsFiniteSet(Clients)
  /\ NULL \notin Jobs \cup Clients \cup Threads

VARIABLES mRun,      \* ThreadPool::mRun
          mJobs,     \* ThreadPool::mJobs, oldest job first
          mJobCount, \* value of the semaphore ThreadPool::mJobCount
          loop,      \* where each thread stands in runJobs
          job,       \* the job a thread executes, NULL if none
          adding,    \* clients between the push and the up of addJob
          stopper,   \* the client inside stop(), NULL if none
          nulls,     \* NULL jobs stop() has yet to add
          stopped    \* stop() has returned

stopVars == <<stopper, nulls, stopped>>
queueVars == <<mJobs, mJobCount, adding>>
loopVars == <<loop, job>>
vars == <<mRun, queueVars, loopVars, stopVars>>

LoopState == {"new", "test", "down", "pop", "run", "end"}

TypeOK ==
  /\ mRun \in BOOLEAN
  /\ mJobs \in Seq(Jobs \cup {NULL})
  /\ mJobCount \in Nat
  /\ loop \in [Threads -> LoopState]
  /\ job \in [Threads -> Jobs \cup {NULL}]
  /\ adding \in SUBSET Clients
  /\ stopper \in Clients \cup {NULL}
  /\ nulls \in Nat
  /\ stopped \in BOOLEAN

Init ==
  /\ mRun = FALSE
  /\ mJobs = <<>>
  /\ mJobCount = 0
  /\ loop = [t \in Threads |-> "new"]
  /\ job = [t \in Threads |-> NULL]
  /\ adding = {}
  /\ stopper = NULL
  /\ nulls = 0
  /\ stopped = FALSE

-----------------------------------------------------------------------------
(* Clients *)

\* run(): every prepared thread enters runJobs.
Run ==
  /\ \A t \in Threads : loop[t] = "new"
  /\ mRun' = TRUE
  /\ loop' = [t \in Threads |-> "test"]
  /\ UNCHANGED <<queueVars, job, stopVars>>

\* Faulty variant: a null element is taken for an invalid one and not queued.
PushSkipsNull(c, j) ==
  /\ c \notin adding
  /\ mJobs' = IF j = NULL THEN mJobs ELSE Append(mJobs, j)
  /\ adding' = adding \cup {c}
  /\ UNCHANGED <<mRun, mJobCount, loopVars>>

\* addJob(j), first half: mJobs.push.
Push(c, j) ==
  /\ c \notin adding
  /\ mJobs' = Append(mJobs, j)
  /\ adding' = adding \cup {c}
  /\ UNCHANGED <<mRun, mJobCount, loopVars>>

\* Faulty variant: a binary semaphore, on which a second post is lost.
UpSaturates(c) ==
  /\ c \in adding
  /\ mJobCount' = 1
  /\ adding' = adding \ {c}
  /\ UNCHANGED <<mRun, mJobs, loopVars, stopVars>>

\* addJob, second half: mJobCount.up.
Up(c) ==
  /\ c \in adding
  /\ mJobCount' = mJobCount + 1
  /\ adding' = adding \ {c}
  /\ UNCHANGED <<mRun, mJobs, loopVars, stopVars>>

\* A thread of the pool calls only from inside a job.
MayCall(c) == c \in Threads => loop[c] = "run"

AddJob(c, j) ==
  /\ MayCall(c) /\ c # stopper
  /\ Push(c, j)
  /\ UNCHANGED stopVars

\* Faulty variant: one NULL job too few.
StopOneShort(c) ==
  /\ mRun /\ stopper = NULL
  /\ MayCall(c) /\ c \notin adding
  /\ mRun' = FALSE
  /\ stopper' = c
  /\ nulls' = Cardinality(Threads) - 1
  /\ UNCHANGED <<queueVars, loopVars, stopped>>

\* stop(): no thread is to start another job; one NULL job per thread follows.
Stop(c) ==
  /\ mRun /\ stopper = NULL
  /\ MayCall(c) /\ c \notin adding
  /\ mRun' = FALSE
  /\ stopper' = c
  /\ nulls' = Cardinality(Threads)
  /\ UNCHANGED <<queueVars, loopVars, stopped>>

AddNull ==
  /\ stopper # NULL
  /\ nulls > 0
  /\ Push(stopper, NULL)
  /\ nulls' = nulls - 1
  /\ UNCHANGED <<stopper, stopped>>

\* stop() joins the threads; pthread_join of the calling thread itself fails
\* at once with EDEADLK, and the code goes on.
Join ==
  /\ stopper # NULL
  /\ ~stopped
  /\ nulls = 0
  /\ stopper \notin adding
  /\ \A t \in Threads \ {stopper} : loop[t] = "end"
  /\ stopped' = TRUE
  /\ UNCHANGED <<mRun, queueVars, loopVars, stopper, nulls>>

-----------------------------------------------------------------------------
(* Threads: runJobs *)

\* while (pool->mRun)
Test(t) ==
  /\ loop[t] = "test"
  /\ loop' = [loop EXCEPT ![t] = IF mRun THEN "down" ELSE "end"]
  /\ UNCHANGED <<mRun, queueVars, job, stopVars>>

Down(t) ==
  /\ loop[t] = "down"
  /\ mJobCount > 0
  /\ mJobCount' = mJobCount - 1
  /\ loop' = [loop EXCEPT ![t] = "pop"]
  /\ UNCHANGED <<mRun, mJobs, adding, job, stopVars>>

\* SafeQueue::pop(NULL): the oldest job, or NULL if the queue is empty.
Oldest == IF mJobs = <<>> THEN NULL ELSE Head(mJobs)

Pop(t) ==
  /\ loop[t] = "pop"
  /\ mJobs' = IF mJobs = <<>> THEN mJobs ELSE Tail(mJobs)
  /\ job' = [job EXCEPT ![t] = Oldest]
  /\ loop' = [loop EXCEPT ![t] = IF Oldest = NULL THEN "test" ELSE "run"]
  /\ UNCHANGED <<mRun, mJobCount, adding, stopVars>>

\* job->run() returns.
Return(t) ==
  /\ loop[t] = "run"
  /\ t # stopper /\ t \notin adding
  /\ job' = [job EXCEPT ![t] = NULL]
  /\ loop' = [loop EXCEPT ![t] = "test"]
  /\ UNCHANGED <<mRun, queueVars, stopVars>>

Worker(t) == Test(t) \/ Down(t) \/ Pop(t) \/ Return(t)

Client(c) == \/ \E j \in Jobs : AddJob(c, j)
             \/ Up(c)
             \/ Stop(c)

Next == \/ Run
        \/ \E c \in Clients : Client(c)
        \/ AddNull
        \/ Join
        \/ \E t \in Threads : Worker(t)

Spec == Init /\ [][Next]_vars

\* The kernel schedules every thread, and a client that entered addJob or
\* stop() carries on; nobody has to add a job or to stop the pool.
Fairness ==
  /\ \A t \in Threads : WF_vars(Worker(t))
  /\ \A c \in Clients : WF_vars(Up(c))
  /\ WF_vars(Run) /\ WF_vars(AddNull) /\ WF_vars(Join)

FairSpec == Spec /\ Fairness

-----------------------------------------------------------------------------
(* Properties *)

At(where) == {t \in Threads : loop[t] = where}

\* Every permit of the semaphore, every thread that took one and has not yet
\* popped, and every client that has yet to post its own, stands for exactly
\* one queued job: the two counters that addJob and runJobs update in separate
\* steps never drift apart.
PermitsBackedByJobs ==
  Len(mJobs) = mJobCount + Cardinality(At("pop")) + Cardinality(adding)

\* A thread that got through the semaphore finds a job in the queue, so the
\* invalid value pop(NULL) returns on an empty queue never reaches runJobs.
PopFindsJob == \A t \in At("pop") : mJobs # <<>>

\* Once stop() is under way, the permits there are and those its NULL jobs
\* still bring reach every thread asleep on the semaphore: stop() adds enough.
StopWakesEveryone ==
  stopper # NULL =>
    Cardinality(At("down")) <=
      mJobCount + nulls + (IF stopper \in adding THEN 1 ELSE 0)

\* mRun never comes back once stop() has cleared it: the threads were started
\* before.
StopIsFinal ==
  /\ stopper # NULL => ~mRun
  /\ mRun \/ stopper # NULL => \A t \in Threads : loop[t] # "new"

\* The inductive invariant behind the safety properties.
PoolInv == TypeOK /\ PermitsBackedByJobs /\ StopIsFinal /\ StopWakesEveryone

\* stop() returns: "Will block until all the threads have finished their jobs"
\* and no longer, whatever jobs are still queued when it is called.
StopReturns == stopper # NULL ~> stopped
=============================================================================
