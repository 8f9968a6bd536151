---------------------------- MODULE ThreadsProofs ----------------------------
(***************************************************************************)
(* Proofs about what the threads of the analyser share, for any number of  *)
(* threads: the pool, the done indicators and the table of random vectors. *)
(*                                                                         *)
(* Pool: the accounting of the semaphore is inductive together with the    *)
(* types; that stop() wakes everyone needs besides that mRun stays false   *)
(* once stop() has begun.                                                  *)
(*                                                                         *)
(* Random vectors: that every NULL line has exactly one thread to fill it  *)
(* is inductive once it is said who holds the write lock and that a thread *)
(* never fills past the index it was asked for.                            *)
(***************************************************************************)
EXTENDS ThreadPool, Signaler, RandomVectors, FiniteSetTheorems, SequenceTheorems, TLAPS

(* ThreadPool *)

\* What one thread's move from one place to another does to the sets of threads
\* at every place.
LEMMA MoveOne ==
  ASSUME TypeOK, NEW t \in Threads, NEW x \in LoopState, NEW where,
         loop' = [loop EXCEPT ![t] = x]
  PROVE  /\ x = where => At(where)' = At(where) \cup {t}
         /\ x # where => At(where)' = At(where) \ {t}
BY DEF TypeOK, At

\* The sets whose sizes the invariants speak of are finite.
LEMMA Finite ==
  ASSUME TypeOK, NEW where
  PROVE  /\ IsFiniteSet(At(where)) /\ Cardinality(At(where)) \in Nat
         /\ Cardinality(At(where)) <= Cardinality(Threads)
         /\ IsFiniteSet(adding) /\ Cardinality(adding) \in Nat
<1>1. At(where) \in SUBSET Threads
  BY DEF At
<1>2. IsFiniteSet(Threads) /\ IsFiniteSet(Clients)
  BY PoolAssumption
<1>3. IsFiniteSet(At(where)) /\ Cardinality(At(where)) <= Cardinality(Threads)
  BY <1>1, <1>2, FS_Subset
<1>4. IsFiniteSet(adding)
  BY <1>2, FS_Subset DEF TypeOK
<1>. QED BY <1>3, <1>4, FS_CardinalityType

\* Type correctness: every step of the pool and of its clients keeps the state
\* in its types.
THEOREM TypeInvariant == Spec => []TypeOK
<1>1. Init => TypeOK
  <2>1. <<>> \in Seq(Jobs \cup {NULL}) /\ {} \in SUBSET Clients
    BY EmptySeq
  <2>2. ASSUME Init PROVE mRun \in BOOLEAN /\ stopped \in BOOLEAN
    BY <2>2 DEF Init
  <2>3. ASSUME Init PROVE loop \in [Threads -> LoopState]
    BY <2>3 DEF Init, LoopState
  <2>4. ASSUME Init PROVE job \in [Threads -> Jobs \cup {NULL}]
    BY <2>4 DEF Init
  <2>5. ASSUME Init PROVE mJobCount \in Nat /\ nulls \in Nat
    BY <2>5 DEF Init
  <2>. QED BY <2>1, <2>2, <2>3, <2>4, <2>5, Zenon DEF Init, TypeOK
<1>2. TypeOK /\ [Next]_vars => TypeOK'
  <2> SUFFICES ASSUME TypeOK, [Next]_vars PROVE TypeOK'
    OBVIOUS
  <2> USE DEF TypeOK, LoopState, queueVars, loopVars, stopVars
  <2>1. CASE Run
    BY <2>1 DEF Run
  <2>2. ASSUME NEW c \in Clients, NEW j \in Jobs, AddJob(c, j) PROVE TypeOK'
    BY <2>2, AppendProperties DEF AddJob, Push
  <2>3. ASSUME NEW c \in Clients, Up(c) PROVE TypeOK'
    BY <2>3 DEF Up
  <2>4. ASSUME NEW c \in Clients, Stop(c) PROVE TypeOK'
    <3>1. Cardinality(Threads) \in Nat
      BY PoolAssumption, FS_CardinalityType
    <3>. QED BY <2>4, <3>1 DEF Stop
  <2>5. CASE AddNull
    BY <2>5, AppendProperties DEF AddNull, Push
  <2>6. CASE Join
    BY <2>6 DEF Join
  <2>7. ASSUME NEW t \in Threads, Test(t) PROVE TypeOK'
    BY <2>7 DEF Test
  <2>8. ASSUME NEW t \in Threads, Down(t) PROVE TypeOK'
    BY <2>8 DEF Down
  <2>9. ASSUME NEW t \in Threads, Pop(t) PROVE TypeOK'
    <3>1. /\ Oldest \in Jobs \cup {NULL}
          /\ mJobs # <<>> => Tail(mJobs) \in Seq(Jobs \cup {NULL})
      BY HeadTailProperties DEF Oldest
    <3>. QED BY <2>9, <3>1 DEF Pop
  <2>10. ASSUME NEW t \in Threads, Return(t) PROVE TypeOK'
    BY <2>10 DEF Return
  <2>11. CASE UNCHANGED vars
    BY <2>11 DEF vars
  <2>. QED
    BY <2>1, <2>2, <2>3, <2>4, <2>5, <2>6, <2>7, <2>8, <2>9, <2>10, <2>11
    DEF Next, Client, Worker
<1>. QED BY <1>1, <1>2, PTL DEF Spec

\* The semaphore and the queue agree: addJob and runJobs change the two counts
\* in separate steps, and what is in between is what the threads and clients
\* still owe.
LEMMA PermitsStep ==
  TypeOK /\ PermitsBackedByJobs /\ [Next]_vars => PermitsBackedByJobs'
<1> SUFFICES ASSUME TypeOK, PermitsBackedByJobs, [Next]_vars
             PROVE  PermitsBackedByJobs'
  OBVIOUS
<1>1. /\ IsFiniteSet(At("pop")) /\ Cardinality(At("pop")) \in Nat
      /\ IsFiniteSet(adding) /\ Cardinality(adding) \in Nat
      /\ Len(mJobs) \in Nat /\ mJobCount \in Nat
  BY Finite, LenProperties DEF TypeOK
<1>2. CASE Run
  <2>1. At("pop") = {} /\ At("pop")' = {}
    BY <1>2 DEF Run, At, TypeOK
  <2>. QED BY <1>2, <2>1 DEF Run, queueVars, PermitsBackedByJobs
<1>3. ASSUME NEW c, NEW j \in Jobs \cup {NULL}, Push(c, j)
      PROVE  PermitsBackedByJobs'
  <2>1. Len(mJobs') = Len(mJobs) + 1
    BY <1>3, AppendProperties DEF Push, TypeOK
  <2>2. Cardinality(adding') = Cardinality(adding) + 1
    BY <1>1, <1>3, FS_AddElement DEF Push
  <2>3. At("pop")' = At("pop")
    BY <1>3 DEF Push, loopVars, At
  <2>4. mJobCount' = mJobCount
    BY <1>3 DEF Push
  <2>. QED BY <1>1, <2>1, <2>2, <2>3, <2>4 DEF PermitsBackedByJobs
<1>4. ASSUME NEW c \in Clients, Up(c) PROVE PermitsBackedByJobs'
  <2>1. Cardinality(adding') = Cardinality(adding) - 1
    BY <1>1, <1>4, FS_RemoveElement DEF Up
  <2>2. At("pop")' = At("pop") /\ mJobs' = mJobs /\ mJobCount' = mJobCount + 1
    BY <1>4 DEF Up, loopVars, At
  <2>. QED BY <1>1, <2>1, <2>2 DEF PermitsBackedByJobs
<1>5. ASSUME UNCHANGED <<queueVars, loopVars>> PROVE PermitsBackedByJobs'
  BY <1>5 DEF PermitsBackedByJobs, queueVars, loopVars, At
<1>6. ASSUME NEW t \in Threads, Test(t) \/ Return(t)
      PROVE  PermitsBackedByJobs'
  <2>1. At("pop")' = At("pop")
    BY <1>6 DEF Test, Return, TypeOK, At
  <2>2. UNCHANGED queueVars
    BY <1>6 DEF Test, Return
  <2>. QED BY <2>1, <2>2 DEF PermitsBackedByJobs, queueVars
<1>7. ASSUME NEW t \in Threads, Down(t) PROVE PermitsBackedByJobs'
  <2>1. At("pop")' = At("pop") \cup {t} /\ t \notin At("pop")
    BY <1>7, MoveOne DEF Down, LoopState, At
  <2>2. Cardinality(At("pop")') = Cardinality(At("pop")) + 1
    BY <1>1, <2>1, FS_AddElement
  <2>3. UNCHANGED <<mJobs, adding>> /\ mJobCount' = mJobCount - 1
    BY <1>7 DEF Down
  <2>. QED BY <1>1, <2>2, <2>3 DEF PermitsBackedByJobs
<1>8. ASSUME NEW t \in Threads, Pop(t) PROVE PermitsBackedByJobs'
  <2>1. At("pop")' = At("pop") \ {t} /\ t \in At("pop")
    <3>1. loop[t] = "pop" /\ t \in At("pop")
      BY <1>8 DEF Pop, At
    <3>2. \E x \in {"test", "run"} : loop' = [loop EXCEPT ![t] = x]
      BY <1>8 DEF Pop
    <3>3. PICK x \in {"test", "run"} : loop' = [loop EXCEPT ![t] = x]
      BY <3>2
    <3>. QED BY <3>1, <3>3, MoveOne DEF LoopState
  <2>2. Cardinality(At("pop")') = Cardinality(At("pop")) - 1
    BY <1>1, <2>1, FS_RemoveElement
  <2>3. Cardinality(At("pop")) # 0
    BY <1>1, <2>1, FS_EmptySet
  <2>4. mJobs # <<>>
    BY <1>1, <2>3, EmptySeq DEF PermitsBackedByJobs
  <2>5. Len(mJobs') = Len(mJobs) - 1
    BY <1>8, <2>4, HeadTailProperties DEF Pop, TypeOK
  <2>6. UNCHANGED <<mJobCount, adding>>
    BY <1>8 DEF Pop
  <2>. QED BY <1>1, <2>2, <2>5, <2>6 DEF PermitsBackedByJobs
<1>9. CASE AddNull
  <2>1. Push(stopper, NULL)
    BY <1>9 DEF AddNull
  <2>. QED BY <1>3, <2>1
<1>. QED
  BY <1>2, <1>3, <1>4, <1>5, <1>6, <1>7, <1>8, <1>9
  DEF Next, Client, Worker, AddJob, Stop, Join, vars

\* stop() adds enough NULL jobs for every thread that sleeps on the semaphore.
LEMMA StopStep ==
  TypeOK /\ StopIsFinal /\ StopWakesEveryone /\ [Next]_vars
    => StopIsFinal' /\ StopWakesEveryone'
<1> SUFFICES ASSUME TypeOK, StopIsFinal, StopWakesEveryone, [Next]_vars
             PROVE  StopIsFinal' /\ StopWakesEveryone'
  OBVIOUS
<1> DEFINE S == Cardinality(At("down"))
<1>1. /\ IsFiniteSet(At("down")) /\ S \in Nat /\ S <= Cardinality(Threads)
      /\ mJobCount \in Nat /\ nulls \in Nat
  BY Finite DEF TypeOK
<1>2. CASE Run
  <2>1. stopper = NULL
    BY <1>2, PoolAssumption DEF Run, StopIsFinal
  <2>. QED
    BY <1>2, <2>1 DEF Run, stopVars, StopIsFinal, StopWakesEveryone, TypeOK
<1>3. ASSUME NEW c, NEW j, Push(c, j), c # stopper, UNCHANGED stopVars
      PROVE  StopIsFinal' /\ StopWakesEveryone'
  BY <1>3 DEF Push, loopVars, stopVars, StopIsFinal, StopWakesEveryone, At
<1>4. ASSUME NEW c \in Clients, Up(c)
      PROVE  StopIsFinal' /\ StopWakesEveryone'
  <2>1. UNCHANGED <<mRun, loopVars, stopVars>> /\ mJobCount' = mJobCount + 1
    BY <1>4 DEF Up
  <2>2. S' = S
    BY <2>1 DEF loopVars, At
  <2>3. stopper # NULL =>
          S <= mJobCount + nulls + (IF stopper \in adding THEN 1 ELSE 0)
    BY DEF StopWakesEveryone
  <2>. QED
    BY <1>1, <2>1, <2>2, <2>3 DEF loopVars, stopVars, StopIsFinal, StopWakesEveryone
<1>5. ASSUME NEW c \in Clients, Stop(c)
      PROVE  StopIsFinal' /\ StopWakesEveryone'
  <2>1. UNCHANGED <<mJobCount, adding, loop>> /\ nulls' = Cardinality(Threads)
        /\ mRun' = FALSE /\ stopper' = c /\ c \notin adding /\ mRun
    BY <1>5 DEF Stop, queueVars, loopVars
  <2>2. S' = S
    BY <2>1 DEF At
  <2>3. StopIsFinal'
    BY <2>1 DEF StopIsFinal
  <2>4. Cardinality(Threads) \in Nat
    BY PoolAssumption, FS_CardinalityType
  <2>5. S' <= mJobCount' + nulls' + 0
    BY <1>1, <2>1, <2>2, <2>4
  <2>6. stopper' \notin adding'
    BY <2>1
  <2>7. StopWakesEveryone'
    BY <2>5, <2>6 DEF StopWakesEveryone
  <2>. QED BY <2>3, <2>7
<1>6. CASE AddNull
  <2>1. /\ stopper # NULL /\ nulls > 0 /\ nulls' = nulls - 1
        /\ stopper \notin adding /\ stopper \in adding'
        /\ UNCHANGED <<mRun, mJobCount, loop, stopper>>
    BY <1>6 DEF AddNull, Push, loopVars
  <2>2. S' = S
    BY <2>1 DEF At
  <2>. QED
    BY <1>1, <2>1, <2>2 DEF StopIsFinal, StopWakesEveryone
<1>7. ASSUME UNCHANGED <<mRun, mJobCount, adding, loop, stopper, nulls>>
      PROVE  StopIsFinal' /\ StopWakesEveryone'
  BY <1>7 DEF StopIsFinal, StopWakesEveryone, At
<1>8. ASSUME NEW t \in Threads, NEW x \in LoopState \ {"new"},
             loop' = [loop EXCEPT ![t] = x], loop[t] # "new",
             x = "down" => stopper = NULL,
             UNCHANGED <<mRun, mJobCount, adding, stopVars>>
      PROVE  StopIsFinal' /\ StopWakesEveryone'
  <2>1. StopIsFinal'
    BY <1>8 DEF StopIsFinal, stopVars, TypeOK
  <2>2. CASE stopper = NULL
    BY <1>8, <2>1, <2>2 DEF StopWakesEveryone, stopVars
  <2>3. CASE x # "down"
    <3>1. At("down")' = At("down") \ {t}
      BY <1>8, <2>3, MoveOne
    <3>2. S' <= S /\ S' \in Nat
      BY <1>1, <3>1, FS_Subset, FS_CardinalityType
    <3>3. StopWakesEveryone'
      BY <1>1, <1>8, <3>2 DEF StopWakesEveryone, stopVars
    <3>. QED BY <2>1, <3>3
  <2>. QED BY <1>8, <2>1, <2>2, <2>3
<1>9. ASSUME NEW t \in Threads, Test(t)
      PROVE  StopIsFinal' /\ StopWakesEveryone'
  <2>1. CASE mRun
    BY <1>8, <1>9, <2>1 DEF Test, LoopState, queueVars, StopIsFinal
  <2>2. CASE ~mRun
    BY <1>8, <1>9, <2>2 DEF Test, LoopState, queueVars
  <2>. QED BY <2>1, <2>2
<1>10. ASSUME NEW t \in Threads, Down(t)
       PROVE  StopIsFinal' /\ StopWakesEveryone'
  <2>1. At("down")' = At("down") \ {t} /\ t \in At("down")
    <3>1. loop[t] = "down" /\ loop' = [loop EXCEPT ![t] = "pop"]
      BY <1>10 DEF Down
    <3>2. At("down")' = At("down") \ {t}
      BY <3>1, MoveOne DEF LoopState
    <3>. QED BY <3>1, <3>2 DEF At
  <2>2. S' = S - 1
    BY <1>1, <2>1, FS_RemoveElement
  <2>3. /\ mJobCount > 0 /\ mJobCount' = mJobCount - 1
        /\ UNCHANGED <<mRun, adding, stopper, nulls>>
        /\ loop' = [loop EXCEPT ![t] = "pop"]
    BY <1>10 DEF Down, stopVars
  <2>4. StopIsFinal'
    BY <2>3 DEF StopIsFinal, TypeOK
  <2>. QED
    BY <1>1, <2>2, <2>3, <2>4 DEF StopWakesEveryone
<1>11. ASSUME NEW t \in Threads, Pop(t)
       PROVE  StopIsFinal' /\ StopWakesEveryone'
  <2>1. CASE Oldest = NULL
    BY <1>8, <1>11, <2>1 DEF Pop, LoopState
  <2>2. CASE Oldest # NULL
    BY <1>8, <1>11, <2>2 DEF Pop, LoopState
  <2>. QED BY <2>1, <2>2
<1>12. ASSUME NEW t \in Threads, Return(t)
       PROVE  StopIsFinal' /\ StopWakesEveryone'
  BY <1>8, <1>12 DEF Return, LoopState, queueVars
<1>. QED
  BY <1>2, <1>3, <1>4, <1>5, <1>6, <1>7, <1>9, <1>10, <1>11, <1>12
  DEF Next, Client, Worker, AddJob, Join, vars, queueVars, loopVars, stopVars

\* The inductive invariant of the pool.
THEOREM PoolInvariant == Spec => []PoolInv
<1>1. Init => PermitsBackedByJobs /\ StopIsFinal /\ StopWakesEveryone
  <2> SUFFICES ASSUME Init
               PROVE  PermitsBackedByJobs /\ StopIsFinal /\ StopWakesEveryone
    OBVIOUS
  <2>1. At("pop") = {}
    BY DEF Init, At
  <2>2. PermitsBackedByJobs
    <3>1. Cardinality(At("pop")) = 0 /\ Cardinality(adding) = 0
      BY <2>1, FS_EmptySet DEF Init
    <3>2. Len(mJobs) = 0 /\ mJobCount = 0
      BY EmptySeq DEF Init
    <3>. QED BY <3>1, <3>2 DEF PermitsBackedByJobs
  <2>3. StopIsFinal /\ StopWakesEveryone
    BY DEF Init, StopIsFinal, StopWakesEveryone
  <2>. QED BY <2>2, <2>3
<1>. QED
  BY <1>1, TypeInvariant, PermitsStep, StopStep, PTL DEF Spec, PoolInv

\* A thread that got through the semaphore finds a job in the queue, so the
\* null job that SafeQueue::pop returns on an empty queue never gets to runJobs.
THEOREM PopAlwaysFindsJob == Spec => []PopFindsJob
<1>1. PoolInv => PopFindsJob
  <2> SUFFICES ASSUME PoolInv, NEW t \in At("pop") PROVE mJobs # <<>>
    BY DEF PopFindsJob
  <2>1. /\ IsFiniteSet(At("pop")) /\ Cardinality(At("pop")) \in Nat
        /\ Cardinality(adding) \in Nat /\ mJobCount \in Nat
    BY Finite DEF PoolInv, TypeOK
  <2>2. Cardinality(At("pop")) # 0
    BY <2>1, FS_EmptySet
  <2>3. Len(mJobs) > 0
    BY <2>1, <2>2 DEF PoolInv, PermitsBackedByJobs
  <2>. QED BY <2>3, EmptySeq
<1>. QED BY <1>1, PoolInvariant, PTL

\* However many threads the pool has, stop() adds a NULL job for each one that
\* sleeps on the semaphore.
THEOREM StopAddsEnough == Spec => []StopWakesEveryone
<1>1. PoolInv => StopWakesEveryone
  BY DEF PoolInv
<1>. QED BY <1>1, PoolInvariant, PTL

\* Permits that are handed out are backed by jobs, however clients and workers
\* interleave between the queue and the semaphore.
THEOREM PermitsStayBacked == Spec => []PermitsBackedByJobs
<1>1. PoolInv => PermitsBackedByJobs
  BY DEF PoolInv
<1>. QED BY <1>1, PoolInvariant, PTL

-----------------------------------------------------------------------------
(* Signaler *)

\* A thread that has looked at a flag and is not asleep yet holds its mutex, and
\* then the flag is still lowered.
LookedAtIsLowered ==
  \A t \in Threads, s \in Signals : mGuard[s] = t /\ waiting[t] = s => ~mStatus[s]

\* A signaler with its types, and nobody asleep on a raised flag.
SignalerInv == SignalerTypeOK /\ NoLostWakeup /\ LookedAtIsLowered

\* The done indicators keep their types and lose no wakeup, whichever threads
\* raise, wait for and destroy which of them, also when waits end unsignalled.
THEOREM SignalerInvariant == SignalerSpec => []SignalerInv
<1>1. SignalerInit => SignalerInv
  BY SignalerAssumption DEF SignalerInit, SignalerInv, SignalerTypeOK, NoLostWakeup, LookedAtIsLowered
<1>2. SignalerInv /\ [SignalerNext]_signalerVars => SignalerInv'
  <2> SUFFICES ASSUME SignalerInv, [SignalerNext]_signalerVars PROVE SignalerInv'
    OBVIOUS
  <2> USE SignalerAssumption DEF SignalerInv, SignalerTypeOK, NoLostWakeup, LookedAtIsLowered, Sleepers
  <2>1. ASSUME NEW t \in Threads, SpuriousWakeup(t) PROVE SignalerInv'
    BY <2>1 DEF SpuriousWakeup
  <2>2. ASSUME NEW t \in Threads, NEW s \in Signals, Raise(t, s) PROVE SignalerInv'
    BY <2>2 DEF Raise, Free
  <2>3. ASSUME NEW t \in Threads, NEW s \in Signals, Release(t, s) PROVE SignalerInv'
    BY <2>3 DEF Release
  <2>4. ASSUME NEW t \in Threads, NEW s \in Signals, Pass(t, s) PROVE SignalerInv'
    BY <2>4 DEF Pass, signalerVars
  <2>5. ASSUME NEW t \in Threads, NEW s \in Signals, Sleep(t, s) PROVE SignalerInv'
    BY <2>5 DEF Sleep, Free
  <2>6. ASSUME NEW t \in Threads, NEW s \in Signals, Wake(t, s) PROVE SignalerInv'
    BY <2>6 DEF Wake
  <2>7. ASSUME NEW t \in Threads, NEW s \in Signals, Look(t, s) PROVE SignalerInv'
    BY <2>7 DEF Look, Free
  <2>8. ASSUME NEW S \in SUBSET Signals, Destroy(S) PROVE SignalerInv'
    BY <2>8 DEF Destroy
  <2>9. CASE UNCHANGED signalerVars
    BY <2>9 DEF signalerVars
  <2>. QED
    BY <2>1, <2>2, <2>3, <2>4, <2>5, <2>6, <2>7, <2>8, <2>9 DEF SignalerNext
<1>. QED BY <1>1, <1>2, PTL DEF SignalerSpec

\* No thread sleeps on a flag that has been raised.
THEOREM WakeupsReachSleepers == SignalerSpec => []NoLostWakeup
<1>1. SignalerInv => NoLostWakeup
  BY DEF SignalerInv
<1>. QED BY <1>1, SignalerInvariant, PTL

-----------------------------------------------------------------------------
(* RandomVectors *)

\* The write lock belongs to the thread in resize(), whose index is beyond the
\* table; a thread that fills lines has some left.
LockHeld ==
  /\ \A t \in Threads : pc[t] = "resize" => resizing = t /\ index[t] >= size
  /\ \A t \in Threads : pc[t] \in {"generate", "write"} => i[t] <= index[t]

InRange == Torn \/ \A t \in Threads : pc[t] = "read" => index[t] < size

VectorsInv == VectorsTypeOK /\ LockHeld /\ NullIsBeingFilled /\ SameFunctions /\ InRange

\* A step that neither fills nor adds lines keeps what is said of them.
LEMMA LinesUntouched ==
  ASSUME VectorsInv, mTable' = mTable, size' = size,
         \A t \in Threads : ToFill(t)' = ToFill(t)
  PROVE  NullIsBeingFilled' /\ SameFunctions'
<1>. /\ Indices' = Indices
  BY DEF Indices
<1>. HIDE DEF ToFill
<1>1. NullIsBeingFilled'
  BY DEF VectorsInv, NullIsBeingFilled
<1>2. SameFunctions'
  BY DEF VectorsInv, SameFunctions
<1>. QED BY <1>1, <1>2

\* The thread that made the table grow takes over the new lines.
LEMMA ResizedKeeps ==
  ASSUME VectorsInv, NEW t \in Threads, Resized(t)
  PROVE  VectorsInv'
<1>1. /\ size \in Nat /\ index[t] \in Nat /\ index[t] <= MaxIndex /\ index[t] >= size
      /\ size' = index[t] + 1 /\ index' = index /\ mTable' = mTable
      /\ i' = [i EXCEPT ![t] = size] /\ pc' = [pc EXCEPT ![t] = "generate"]
      /\ resizing' = NULL /\ resizing = t
  BY VectorsAssumption DEF VectorsInv, VectorsTypeOK, LockHeld, Resized, Indices
<1>2. VectorsTypeOK'
  BY <1>1, VectorsAssumption DEF VectorsInv, VectorsTypeOK, Places, Indices
<1>3. /\ ToFill(t)' = size..index[t]
      /\ \A u \in Threads : u # t => ToFill(u)' = ToFill(u)
  BY <1>1 DEF ToFill, VectorsInv, VectorsTypeOK
<1>4. \A n \in Indices : n >= size => mTable[n] = NULL
  BY <1>1 DEF VectorsInv, SameFunctions, Indices
<1>5. \A u \in Threads, n \in Indices : n \in ToFill(u) => n < size /\ mTable[n] = NULL
  BY DEF VectorsInv, NullIsBeingFilled
<1>6. \A u \in Threads : ToFill(u) \subseteq Indices
  BY VectorsAssumption DEF ToFill, VectorsInv, VectorsTypeOK, Indices
<1>7. NullIsBeingFilled'
  <2>. HIDE DEF ToFill
  <2>1. ASSUME NEW n \in Indices, n < size', mTable'[n] = NULL
        PROVE  \E u \in Threads : n \in ToFill(u)'
    <3>0. n \in Nat
      BY VectorsAssumption DEF Indices
    <3>1. CASE n < size
      <4>1. PICK u \in Threads : n \in ToFill(u)
        BY <1>1, <2>1, <3>1 DEF VectorsInv, NullIsBeingFilled
      <4>2. u # t
        BY <1>1, <4>1 DEF ToFill, VectorsInv, VectorsTypeOK, Resized
      <4>. QED BY <1>3, <4>1, <4>2
    <3>2. CASE n >= size
      <4>1. n \in size..index[t]
        BY <1>1, <2>1, <3>0, <3>2
      <4>. QED BY <1>3, <4>1
    <3>. QED BY <1>1, <3>0, <3>1, <3>2
  <2>2. ASSUME NEW u \in Threads, NEW n \in Indices, n \in ToFill(u)'
        PROVE  n < size' /\ mTable'[n] = NULL
    <3>0. n \in Nat
      BY VectorsAssumption DEF Indices
    <3>1. CASE u = t
      BY <1>1, <1>3, <1>4, <2>2, <3>0, <3>1
    <3>2. CASE u # t
      BY <1>1, <1>3, <1>5, <2>2, <3>0, <3>2
    <3>. QED BY <3>1, <3>2
  <2>3. ASSUME NEW u \in Threads, NEW v \in Threads, u # v, NEW n \in ToFill(u)',
               n \in ToFill(v)'
        PROVE  FALSE
    <3>1. ASSUME NEW w \in Threads, w # t, n \in ToFill(w)', n \in ToFill(t)'
          PROVE  FALSE
      <4>1. n \in ToFill(w) /\ n \in size..index[t]
        BY <1>3, <3>1
      <4>2. n < size
        BY <1>5, <1>6, <4>1
      <4>. QED BY <1>1, <4>1, <4>2
    <3>2. CASE u = t \/ v = t
      BY <2>3, <3>1, <3>2
    <3>3. CASE u # t /\ v # t
      BY <1>3, <2>3, <3>3 DEF VectorsInv, NullIsBeingFilled
    <3>. QED BY <3>2, <3>3
  <2>4. Indices' = Indices /\ size' = index[t] + 1
    BY <1>1 DEF Indices
  <2>. QED BY <2>1, <2>2, <2>3, <2>4 DEF NullIsBeingFilled
<1>8. SameFunctions'
  BY <1>1, VectorsAssumption DEF VectorsInv, SameFunctions, Indices
<1>9. LockHeld'
  <2>1. ASSUME NEW u \in Threads, u # t PROVE pc[u] # "resize"
    BY <1>1, <2>1 DEF VectorsInv, LockHeld
  <2>. QED BY <1>1, <2>1 DEF VectorsInv, LockHeld, VectorsTypeOK
<1>10. InRange'
  BY <1>1 DEF VectorsInv, InRange, VectorsTypeOK, Indices
<1>. QED BY <1>2, <1>7, <1>8, <1>9, <1>10 DEF VectorsInv

\* A line that is written was NULL and its writer's.
LEMMA WriteKeeps ==
  ASSUME VectorsInv, NEW t \in Threads, Write(t)
  PROVE  VectorsInv' /\ mTable[i[t]] = NULL
<1>1. /\ pc[t] = "write" /\ i[t] \in Nat /\ index[t] \in Nat /\ index[t] <= MaxIndex
      /\ i[t] <= index[t] /\ size' = size /\ index' = index /\ resizing' = resizing
      /\ resizing = NULL /\ size \in Nat
      /\ mTable' = [mTable EXCEPT ![i[t]] = [seed |-> i[t] + 1, maker |-> t]]
      /\ i' = [i EXCEPT ![t] = @ + 1]
      /\ pc' = [pc EXCEPT ![t] = IF i[t] = index[t] THEN "read" ELSE "generate"]
  BY VectorsAssumption DEF VectorsInv, VectorsTypeOK, LockHeld, Write, Indices
<1>2. i[t] \in Indices /\ i[t] \in ToFill(t) /\ index[t] \in Indices /\ index[t] \in ToFill(t)
  BY <1>1, VectorsAssumption DEF ToFill, Indices
<1>3. i[t] < size /\ mTable[i[t]] = NULL /\ index[t] < size
  BY <1>2 DEF VectorsInv, NullIsBeingFilled
<1>4. VectorsTypeOK'
  BY <1>1, <1>2 DEF VectorsInv, VectorsTypeOK, Places, Lines
<1>5. /\ \A n \in Nat : n \in ToFill(t)' <=> n \in ToFill(t) /\ n # i[t]
      /\ ToFill(t)' \subseteq Nat
      /\ \A u \in Threads : u # t => ToFill(u)' = ToFill(u)
  BY <1>1 DEF ToFill, VectorsInv, VectorsTypeOK
<1>6. /\ mTable'[i[t]] = [seed |-> i[t] + 1, maker |-> t]
      /\ \A n \in Indices : n # i[t] => mTable'[n] = mTable[n]
  BY <1>1, <1>2 DEF VectorsInv, VectorsTypeOK
<1>7. mTable'[i[t]] # NULL
  BY <1>1, <1>6, VectorsAssumption DEF Lines
<1>8. \A u \in Threads : ToFill(u) \subseteq Nat
  BY VectorsAssumption DEF ToFill, VectorsInv, VectorsTypeOK, Indices
<1>9. Indices' = Indices /\ Indices \subseteq Nat
  BY VectorsAssumption DEF Indices
<1>10. NullIsBeingFilled'
  <2>. HIDE DEF ToFill
  <2>1. ASSUME NEW n \in Indices, n < size, mTable'[n] = NULL
        PROVE  \E u \in Threads : n \in ToFill(u)'
    <3>1. n # i[t] /\ mTable[n] = NULL /\ n \in Nat
      BY <1>6, <1>7, <1>9, <2>1
    <3>2. PICK u \in Threads : n \in ToFill(u)
      BY <2>1, <3>1 DEF VectorsInv, NullIsBeingFilled
    <3>. QED BY <1>5, <3>1, <3>2
  <2>2. ASSUME NEW u \in Threads, NEW n \in Indices, n \in ToFill(u)'
        PROVE  n < size /\ mTable'[n] = NULL
    <3>1. n \in ToFill(u) /\ n # i[t]
      BY <1>2, <1>5, <1>9, <2>2 DEF VectorsInv, NullIsBeingFilled
    <3>. QED BY <1>6, <2>2, <3>1 DEF VectorsInv, NullIsBeingFilled
  <2>3. ASSUME NEW u \in Threads, NEW v \in Threads, u # v
        PROVE  ToFill(u)' \cap ToFill(v)' = {}
    <3>1. ToFill(u)' \subseteq ToFill(u) /\ ToFill(v)' \subseteq ToFill(v)
      BY <1>5
    <3>. QED BY <2>3, <3>1 DEF VectorsInv, NullIsBeingFilled
  <2>. QED BY <1>1, <1>9, <2>1, <2>2, <2>3 DEF NullIsBeingFilled
<1>11. SameFunctions'
  BY <1>1, <1>3, <1>6, <1>9 DEF VectorsInv, SameFunctions
<1>12. LockHeld'
  BY <1>1 DEF VectorsInv, LockHeld, VectorsTypeOK
<1>13. InRange'
  BY <1>1, <1>3 DEF VectorsInv, InRange, VectorsTypeOK
<1>. QED BY <1>3, <1>4, <1>10, <1>11, <1>12, <1>13 DEF VectorsInv

\* The inductive invariant.
THEOREM VectorsInvariant == VectorsSpec => []VectorsInv
<1>1. VectorsInit => VectorsInv
  BY VectorsAssumption
     DEF VectorsInit, VectorsInv, VectorsTypeOK, LockHeld, NullIsBeingFilled, SameFunctions, InRange,
         ToFill, Places, Indices
<1>2. VectorsInv /\ [VectorsNext]_vectorVars => VectorsInv'
  <2> SUFFICES ASSUME VectorsInv, [VectorsNext]_vectorVars PROVE VectorsInv'
    OBVIOUS
  <2>1. ASSUME NEW t \in Threads, NEW n \in Indices, Get(t, n) PROVE VectorsInv'
    <3>1. n \in Nat /\ n <= MaxIndex
      BY VectorsAssumption DEF Indices
    <3>2. \A u \in Threads : ToFill(u)' = ToFill(u)
      BY <2>1 DEF Get, ToFill, VectorsInv, VectorsTypeOK
    <3>3. VectorsTypeOK' /\ LockHeld'
      BY <2>1 DEF Get, VectorsInv, VectorsTypeOK, LockHeld, Places
    <3>4. InRange'
      BY <2>1, <3>1 DEF Get, SizesRead, VectorsInv, VectorsTypeOK, InRange
    <3>5. mTable' = mTable /\ size' = size
      BY <2>1 DEF Get
    <3>. QED BY <3>2, <3>3, <3>4, <3>5, LinesUntouched DEF VectorsInv
  <2>2. ASSUME NEW t \in Threads, Grow(t) PROVE VectorsInv'
    <3>1. \A u \in Threads : ToFill(u)' = ToFill(u)
      BY <2>2 DEF Grow, ToFill, VectorsInv, VectorsTypeOK
    <3>2. VectorsTypeOK' /\ InRange'
      BY <2>2 DEF Grow, VectorsInv, VectorsTypeOK, InRange, Places
    <3>3. LockHeld'
      <4>1. \A u \in Threads : pc[u] # "resize"
        BY <2>2, VectorsAssumption DEF Grow, VectorsInv, LockHeld
      <4>. QED BY <2>2, <4>1 DEF Grow, VectorsInv, VectorsTypeOK, LockHeld, Indices
    <3>4. mTable' = mTable /\ size' = size
      BY <2>2 DEF Grow
    <3>. QED BY <3>1, <3>2, <3>3, <3>4, LinesUntouched DEF VectorsInv
  <2>3. ASSUME NEW t \in Threads, Generate(t) PROVE VectorsInv'
    <3>1. \A u \in Threads : ToFill(u)' = ToFill(u)
      BY <2>3 DEF Generate, ToFill, VectorsInv, VectorsTypeOK
    <3>2. VectorsTypeOK' /\ InRange' /\ LockHeld'
      BY <2>3 DEF Generate, VectorsInv, VectorsTypeOK, InRange, LockHeld, Places
    <3>3. mTable' = mTable /\ size' = size
      BY <2>3 DEF Generate
    <3>. QED BY <3>1, <3>2, <3>3, LinesUntouched DEF VectorsInv
  <2>4. ASSUME NEW t \in Threads, Read(t) PROVE VectorsInv'
    <3>1. \A u \in Threads : ToFill(u)' = ToFill(u)
      BY <2>4 DEF Read, ToFill, VectorsInv, VectorsTypeOK
    <3>2. VectorsTypeOK' /\ InRange' /\ LockHeld'
      BY <2>4 DEF Read, VectorsInv, VectorsTypeOK, InRange, LockHeld, Places
    <3>3. mTable' = mTable /\ size' = size
      BY <2>4 DEF Read
    <3>. QED BY <3>1, <3>2, <3>3, LinesUntouched DEF VectorsInv
  <2>5. CASE UNCHANGED vectorVars
    <3>1. \A u \in Threads : ToFill(u)' = ToFill(u)
      BY <2>5 DEF vectorVars, ToFill
    <3>2. VectorsTypeOK' /\ InRange' /\ LockHeld' /\ mTable' = mTable /\ size' = size
      BY <2>5 DEF vectorVars, VectorsInv, VectorsTypeOK, InRange, LockHeld, Indices
    <3>. QED BY <3>1, <3>2, LinesUntouched DEF VectorsInv
  <2>. QED BY <2>1, <2>2, <2>3, <2>4, <2>5, ResizedKeeps, WriteKeeps DEF VectorsNext
<1>. QED BY <1>1, <1>2, PTL DEF VectorsSpec

\* Every NULL line of the table is about to be filled by exactly one thread: who
\* finds one may wait for it.
THEOREM SomeoneFills == VectorsSpec => []NullIsBeingFilled
<1>1. VectorsInv => NullIsBeingFilled
  BY DEF VectorsInv
<1>. QED BY <1>1, VectorsInvariant, PTL

\* All threads hash with the same functions, whoever came first.
THEOREM FunctionsAgree == VectorsSpec => []SameFunctions
<1>1. VectorsInv => SameFunctions
  BY DEF VectorsInv
<1>. QED BY <1>1, VectorsInvariant, PTL

\* No line that get() has returned is ever replaced.
THEOREM PointersStayValid == VectorsSpec => LinesStay
<1>1. VectorsInv /\ [VectorsNext]_vectorVars
        => [\A n \in Indices : mTable[n] # NULL => mTable'[n] = mTable[n]]_vectorVars
  <2> SUFFICES ASSUME VectorsInv, VectorsNext, NEW n \in Indices, mTable[n] # NULL
               PROVE  mTable'[n] = mTable[n]
    BY DEF Indices
  <2>1. ASSUME NEW t \in Threads, Write(t) PROVE mTable'[n] = mTable[n]
    <3>1. n # i[t]
      BY <2>1, WriteKeeps
    <3>. QED BY <2>1, <3>1 DEF Write, VectorsInv, VectorsTypeOK
  <2>2. (\E t \in Threads : Write(t)) \/ mTable' = mTable
    BY DEF VectorsNext, Get, Grow, Resized, Generate, Read
  <2>. QED BY <2>1, <2>2
<1>. QED BY <1>1, VectorsInvariant, PTL DEF VectorsSpec, LinesStay

\* Were size() read in one piece, no thread would ever read beyond the table.
THEOREM InRangeUnlessTorn == VectorsSpec => [](Torn \/ ReadsInRange)
<1>1. VectorsInv => Torn \/ ReadsInRange
  BY DEF VectorsInv, InRange, ReadsInRange
<1>. QED BY <1>1, VectorsInvariant, PTL
=============================================================================
