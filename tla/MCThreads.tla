------------------------------ MODULE MCThreads ------------------------------
(***************************************************************************)
(* The three things that the threads of the analyser share, for TLC: the   *)
(* pool, the done indicators and the table of random vectors.  They have   *)
(* no state in common, so in a behaviour one of them is used and the       *)
(* others stay in their initial state.  A client of the pool adds each job *)
(* at most once, which bounds the queue, and two history variables record  *)
(* in which order jobs were pushed and taken.                              *)
(***************************************************************************)
EXTENDS ThreadPool, Signaler, RandomVectors, SequencesExt

VARIABLES part, sent, taken

historyVars == <<sent, taken>>
threadsVars == <<vars, historyVars, signalerVars, vectorVars, part>>

MCInit ==
  /\ Init /\ SignalerInit /\ VectorsInit
  /\ sent = << >> /\ taken = << >>
  /\ part \in {"pool", "signaler", "vectors"}

Record ==
  /\ IF Len(mJobs') > Len(mJobs) /\ Last(mJobs') # NULL
       THEN /\ ~Contains(sent, Last(mJobs'))
            /\ sent' = Append(sent, Last(mJobs'))
       ELSE UNCHANGED sent
  /\ taken' = FoldLeft(LAMBDA s, t : IF job[t] = NULL /\ job'[t] # NULL
                                       THEN Append(s, job'[t]) ELSE s,
                       taken, SetToSeq(Threads))

Others(p) ==
  /\ part = p /\ UNCHANGED part
  /\ p # "pool"     => UNCHANGED <<vars, historyVars>>
  /\ p # "signaler" => UNCHANGED signalerVars
  /\ p # "vectors"  => UNCHANGED vectorVars

InPool(A) == part = "pool" /\ A

MCNext ==
  \/ Next /\ Record /\ Others("pool")
  \/ SignalerNext /\ Others("signaler")
  \/ VectorsNext /\ Others("vectors")

\* The fairness of ThreadPool, in the behaviours that are about the pool; that
\* of RandomVectors asks for nothing in the others.
MCFairness ==
  /\ \A t \in Threads : WF_vars(InPool(Worker(t)))
  /\ \A c \in Clients : WF_vars(InPool(Up(c)))
  /\ WF_vars(InPool(Run)) /\ WF_vars(InPool(AddNull)) /\ WF_vars(InPool(Join))
  /\ VectorsFairness

MCSpec == MCInit /\ [][MCNext]_threadsVars /\ MCFairness

\* A job handed over to a pool that is never stopped is started, however the
\* threads share the permits of the semaphore (ThreadPool::runJobs).
EveryJobStarted ==
  \A j \in Jobs : Contains(sent, j) ~> Contains(taken, j) \/ stopper # NULL
=============================================================================
