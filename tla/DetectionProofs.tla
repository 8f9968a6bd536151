--------------------------- MODULE DetectionProofs ---------------------------
(***************************************************************************)
(* Proofs about Detection for any number of workers, windows, engines and  *)
(* identifiers, and whichever engines give up.  Every job is handed to the *)
(* pool once, and from then on is queued, or run by one worker, or done;   *)
(* only its worker raises its flag.  What has been freed is done, nobody   *)
(* waits for it, and the mutex of its flag is free.                        *)
(***************************************************************************)
EXTENDS Detection, SequenceTheorems, FiniteSetTheorems, TLAPS

\* The jobs that main has pushed so far: all of earlier windows, and of the one
\* being built those up to the push that has not been posted yet.
Handed ==
  {j \in Job : \/ j[1] < made
               \/ /\ j[1] = made
                  /\ mpc = "build" => \/ j[2] \in 1..built
                                      \/ Main \in adding /\ j = NextJob}

\* Where the main thread stands and what it knows there.
MainInv ==
  /\ mpc = "build" => made \in Window
  /\ mpc # "build" => built = 0
  /\ Main \in adding => mpc = "build" \/ stopper = Main
  /\ stopper = Main => mpc = "exit"
  /\ stopper \in Workers => Unfilled # {}
  /\ mpc = "exit" => detectors = <<>>
  /\ mpc \in {"reaped", "reapFree", "drained", "drainFree"} =>
       detectors # <<>> /\ mStatus[DetectorOf(Head(detectors))]
  /\ mpc \in {"reapFree", "drainFree"} => EnginesOf(Head(detectors)) \cap live = {}
  /\ waiting[Main] # NULL =>
       mpc = "drain" /\ detectors # <<>> /\ waiting[Main] = DetectorOf(Head(detectors))

\* A job that was pushed is in the queue once, or run by one worker, or neither.
QueueInv ==
  /\ \A w \in Workers : job[w] # NULL => loop[w] = "run" /\ job[w] \in Handed
  /\ \A v, w \in Workers : job[v] = job[w] /\ job[w] # NULL => v = w
  /\ \A i \in DOMAIN mJobs : mJobs[i] # NULL =>
       /\ mJobs[i] \in Handed
       /\ \A k \in DOMAIN mJobs : mJobs[k] = mJobs[i] => k = i
       /\ \A w \in Workers : job[w] # mJobs[i]

\* The mutex of a flag is held by the worker of its job, which has raised it, or by
\* a thread that has found it lowered; a worker that waits does so for the engine
\* its detector reads next; and a sleeper that has been woken finds the flag raised.
FlagInv ==
  /\ \A j \in Job : mGuard[j] # NULL =>
       \/ mGuard[j] \in Workers /\ job[mGuard[j]] = j /\ mStatus[j]
       \/ waiting[mGuard[j]] = j /\ ~mStatus[j]
  /\ \A j \in Job : mStatus[j] =>
       /\ j \in Handed /\ j \notin QueuedJobs
       /\ \A w \in Workers : job[w] = j => mGuard[j] = w
  /\ \A w \in Workers : waiting[w] # NULL =>
       \E d \in Window : job[w] = DetectorOf(d) /\ at[d] \in 1..Iterations
                         /\ waiting[w] = Awaited(d)
  /\ \A t \in Thread : waiting[t] # NULL /\ t \notin asleep =>
       mStatus[waiting[t]] \/ mGuard[waiting[t]] = t

\* What a detector has read is what the engines before the awaited one found,
\* and these are done.
VerdictInv ==
  /\ \A e \in Engine : mStatus[e] => e \in computed
  /\ computed \cap Unfilled = {}
  /\ \A d \in Window : \A i \in 1..Iterations : i < at[d] => mStatus[<<d, i>>]
  /\ \A d \in Window : at[d] > 1 =>
       anomalies[d] = {id \in Ids : \A i \in 1..Iterations : i < at[d] => id \in result[<<d, i>>]}
  /\ \A d \in Window : mStatus[DetectorOf(d)] => at[d] = Iterations + 1
  /\ \A i \in DOMAIN output : at[output[i][1]] = Iterations + 1

\* What is not allocated has not been pushed yet, or is done with: its flag is
\* raised, nobody holds the mutex, nobody waits.
LiveInv ==
  \A j \in Handed \ live :
    mStatus[j] /\ mGuard[j] = NULL /\ \A t \in Thread : waiting[t] # j

\* Neither the detector of a window is allocated nor any of its engines.
Freed(d) == \A j \in Job : j[1] = d => j \notin live

\* Windows main no longer keeps in its list are done and freed.
KeptInv ==
  /\ \A i \in DOMAIN detectors : detectors[i] \in 1..made
  /\ \A d \in 1..made :
       \/ mStatus[DetectorOf(d)] /\ Freed(d)
       \/ \E i \in DOMAIN detectors : detectors[i] = d
       \/ mpc = "build" /\ d = made

DetectionInv ==
  TypeOK /\ MainInv /\ QueueInv /\ FlagInv /\ VerdictInv /\ LiveInv /\ KeptInv
-----------------------------------------------------------------------------
(* Types *)

\* A job is a pair of a window and a number, which is 0 for the detector.
LEMMA JobPairs ==
  /\ Job = Window \X (0..Iterations)
  /\ Engine \subseteq Job
  /\ \A d \in Window : DetectorOf(d) \in Job /\ DetectorOf(d) \notin Engine
  /\ \A d \in Window : EnginesOf(d) \subseteq Engine
  /\ NULL \notin Job /\ NULL \notin Thread
BY DetectionAssumption DEF Job, Engine, DetectorOf, EnginesOf

LEMMA NextIsJob ==
  ASSUME TypeOK, made \in Window
  PROVE  NextJob \in Job
BY DetectionAssumption DEF NextJob, Job, Engine, DetectorOf, TypeOK

LEMMA InitiallyTyped == Init => TypeOK
<1> SUFFICES ASSUME Init PROVE TypeOK
  OBVIOUS
<1>1. Pool!TypeOK
  <2>1. <<>> \in Seq(Job \cup {NULL}) /\ {} \in SUBSET Thread
    BY EmptySeq
  <2>. QED BY <2>1 DEF Init, Pool!Init, Pool!TypeOK, Pool!LoopState
<1>2. Done!SignalerTypeOK
  BY DEF Init, Done!SignalerInit, Done!SignalerTypeOK
<1>3. detectors \in Seq(Window) /\ output \in Seq(Window \X {"From", "To", "found"})
  BY EmptySeq DEF Init
<1>4. made \in 0..Windows /\ built \in 0..Iterations /\ at \in [Window -> 1..(Iterations + 1)]
  BY DetectionAssumption DEF Init
<1>. QED BY <1>1, <1>2, <1>3, <1>4 DEF Init, TypeOK, MainState

\* The steps of the pool keep the types of its variables.
LEMMA PoolTyped ==
  ASSUME Pool!TypeOK, Pool!Next \/ UNCHANGED poolVars
  PROVE  Pool!TypeOK'
<1> USE DEF Pool!TypeOK, Pool!LoopState, Pool!queueVars, Pool!loopVars, Pool!stopVars
<1>1. CASE Pool!Run
  BY <1>1 DEF Pool!Run
<1>2. ASSUME NEW c \in Thread, NEW j \in Job, Pool!AddJob(c, j) PROVE Pool!TypeOK'
  BY <1>2, AppendProperties DEF Pool!AddJob, Pool!Push
<1>3. ASSUME NEW c \in Thread, Pool!Up(c) PROVE Pool!TypeOK'
  BY <1>3 DEF Pool!Up
<1>4. ASSUME NEW c \in Thread, Pool!Stop(c) PROVE Pool!TypeOK'
  <2>1. Pool!Cardinality(Workers) = Cardinality(Workers)
    BY DEF Pool!Cardinality, Cardinality
  <2>2. Cardinality(Workers) \in Nat
    BY DetectionAssumption, FS_CardinalityType
  <2>. QED BY <1>4, <2>1, <2>2 DEF Pool!Stop
<1>5. CASE Pool!AddNull
  BY <1>5, AppendProperties DEF Pool!AddNull, Pool!Push
<1>6. CASE Pool!Join
  BY <1>6 DEF Pool!Join
<1>7. ASSUME NEW t \in Workers, Pool!Worker(t) PROVE Pool!TypeOK'
  <2>1. CASE Pool!Pop(t)
    <3>1. /\ Pool!Oldest \in Job \cup {NULL}
          /\ mJobs # <<>> => Tail(mJobs) \in Seq(Job \cup {NULL})
      BY HeadTailProperties DEF Pool!Oldest
    <3>. QED BY <2>1, <3>1 DEF Pool!Pop
  <2>. QED BY <1>7, <2>1 DEF Pool!Worker, Pool!Test, Pool!Down, Pool!Return
<1>8. CASE UNCHANGED poolVars
  BY <1>8 DEF poolVars
<1>. QED
  BY <1>1, <1>2, <1>3, <1>4, <1>5, <1>6, <1>7, <1>8 DEF Pool!Next, Pool!Client

-----------------------------------------------------------------------------
(* The pool as Detection uses it *)

\* Every step takes a step of the pool or leaves it alone.
LEMMA PoolStep ==
  ASSUME TypeOK, MainInv, [Next]_vars
  PROVE  Pool!Next \/ UNCHANGED poolVars
<1> USE DEF Pool!Next
<1>1. CASE MainStep
  <2>1. CASE QueueJob
    <3>1. NextJob \in Job
      BY <2>1, NextIsJob DEF QueueJob, MainInv
    <3>. QED BY <2>1, <3>1 DEF QueueJob, Pool!Client, Thread
  <2>2. CASE StartPool
    BY <2>2 DEF StartPool
  <2>3. CASE PostJob
    BY <2>3 DEF PostJob, Pool!Client, Thread
  <2>4. CASE Leave
    BY <2>4 DEF Leave, Pool!Client, Thread
  <2>. QED
    BY <1>1, <2>1, <2>2, <2>3, <2>4
    DEF MainStep, Capture, EndOfCapture, Reap, WaitForDone, EndOfDrain, DeleteEngines,
        DeleteDetector
<1>2. ASSUME NEW w \in Workers, WorkerStep(w) PROVE Pool!Next \/ UNCHANGED poolVars
  <2>1. CASE TakeJob(w)
    BY <2>1 DEF TakeJob, Pool!Worker
  <2>2. CASE ReturnJob(w)
    BY <2>2 DEF ReturnJob, Pool!Worker
  <2>3. CASE CallExit(w)
    BY <2>3 DEF CallExit, Pool!Client, Thread
  <2>. QED
    BY <1>2, <2>1, <2>2, <2>3
    DEF WorkerStep, Compute, EngineDone, WaitForEngine, PrintPiece, DetectorDone
<1>3. CASE AddNull
  <2>1. stopper \in Thread
    BY <1>3 DEF AddNull, TypeOK, Pool!TypeOK
  <2>. QED BY <1>3, <2>1 DEF AddNull, Pool!Client
<1>4. CASE EndProcess
  BY <1>4 DEF EndProcess
<1>5. CASE Gone \/ UNCHANGED vars
  BY <1>5 DEF Gone, vars
<1>. QED BY <1>1, <1>2, <1>3, <1>4, <1>5 DEF Next

\* The Signaler calls that main and the workers make keep the types of its
\* variables.
LEMMA DoneTyped ==
  ASSUME Done!SignalerTypeOK, NEW t \in Thread, NEW s \in Job,
         \/ Done!Raise(t, s) \/ Done!Release(t, s) \/ Done!Pass(t, s)
         \/ Done!Look(t, s) \/ Done!Sleep(t, s) \/ Done!Wake(t, s)
         \/ \E S \in SUBSET Job : Done!Destroy(S)
         \/ UNCHANGED doneVars
  PROVE  Done!SignalerTypeOK'
BY DEF Done!SignalerTypeOK, Done!Raise, Done!Release, Done!Pass, Done!Look, Done!Sleep, Done!Wake,
       Done!Destroy, Done!signalerVars, doneVars

\* Every step keeps the types.
LEMMA Typing ==
  ASSUME TypeOK, MainInv, [Next]_vars
  PROVE  TypeOK'
<1>1. Pool!TypeOK'
  BY PoolTyped, PoolStep DEF TypeOK
<1>2. CASE MainStep
  <2> USE DEF TypeOK, MainState
  <2>1. CASE StartPool \/ Capture \/ EndOfCapture \/ Reap \/ EndOfDrain \/ Leave
    <3>1. made' \in 0..Windows /\ live' \in SUBSET Job
      <4>1. CASE Capture
        <5>1. made + 1 \in Window
          BY <4>1, DetectionAssumption DEF Capture, Window
        <5>2. DetectorOf(made + 1) \in Job
          BY <5>1, JobPairs
        <5>. QED BY <4>1, <5>1, <5>2 DEF Capture, Window
      <4>. QED
        BY <2>1, <4>1 DEF StartPool, EndOfCapture, Reap, EndOfDrain, Leave, mainVars
    <3>2. Done!SignalerTypeOK' /\ mpc' \in MainState
      BY <2>1
      DEF StartPool, Capture, EndOfCapture, Reap, EndOfDrain, Leave, doneVars, mainVars,
          Done!SignalerTypeOK
    <3>. QED
      BY <1>1, <2>1, <3>1, <3>2
      DEF StartPool, Capture, EndOfCapture, Reap, EndOfDrain, Leave, doneVars, mainVars,
          engineVars, detectorVars, exitVars
  <2>2. CASE QueueJob
    <3>1. NextJob \in Job
      BY <2>2, NextIsJob DEF QueueJob, MainInv
    <3>. QED
      BY <1>1, <2>2, <3>1
      DEF QueueJob, doneVars, mainVars, engineVars, detectorVars, exitVars, Done!SignalerTypeOK
  <2>3. CASE PostJob
    <3>1. made \in Window
      BY <2>3 DEF PostJob, MainInv
    <3>2. Append(detectors, made) \in Seq(Window)
      BY <3>1, AppendProperties
    <3>3. built' \in 0..Iterations /\ mpc' \in MainState /\ detectors' \in Seq(Window)
      <4>1. CASE built < Iterations
        BY <2>3, <4>1, DetectionAssumption DEF PostJob
      <4>2. CASE ~(built < Iterations)
        <5>1. built' = 0 /\ mpc' \in {"capture", "reap"} /\ detectors' = Append(detectors, made)
          BY <2>3, <4>2, Zenon DEF PostJob
        <5>. QED BY <3>2, <5>1, DetectionAssumption
      <4>. QED BY <4>1, <4>2
    <3>. QED
      BY <1>1, <2>3, <3>3
      DEF PostJob, doneVars, mainVars, engineVars, detectorVars, exitVars, Done!SignalerTypeOK
  <2>4. CASE WaitForDone
    <3>1. Head(detectors) \in Window
      BY <2>4, HeadTailProperties DEF WaitForDone
    <3>2. Done!SignalerTypeOK'
      BY <2>4, <3>1, DoneTyped, JobPairs DEF WaitForDone, Thread
    <3>. QED
      BY <1>1, <2>4, <3>2 DEF WaitForDone, engineVars, detectorVars, exitVars
  <2>5. CASE DeleteEngines \/ DeleteDetector
    <3>1. detectors # <<>> /\ Head(detectors) \in Window /\ Tail(detectors) \in Seq(Window)
      BY <2>5, HeadTailProperties DEF DeleteEngines, DeleteDetector, MainInv
    <3>2. EnginesOf(Head(detectors)) \in SUBSET Job /\ {DetectorOf(Head(detectors))} \in SUBSET Job
      BY <3>1, JobPairs
    <3>3. Main \in Thread
      BY DEF Thread
    <3>4. Done!SignalerTypeOK'
      BY <2>5, <3>1, <3>2, <3>3, DoneTyped DEF DeleteEngines, DeleteDetector
    <3>. QED
      BY <1>1, <2>5, <3>1, <3>4
      DEF DeleteEngines, DeleteDetector, engineVars, detectorVars, exitVars
  <2>. QED
    BY <1>2, <2>1, <2>2, <2>3, <2>4, <2>5 DEF MainStep
<1>3. ASSUME NEW w \in Workers, WorkerStep(w) PROVE TypeOK'
  <2>1. job[w] \in Job \cup {NULL} /\ w \in Thread
    BY DEF TypeOK, Pool!TypeOK, Thread
  <2>2. \A d \in Window : at[d] <= Iterations => Awaited(d) \in Job
    BY DetectionAssumption, JobPairs DEF TypeOK, Awaited
  <2> USE DEF TypeOK
  <2>3. Done!SignalerTypeOK'
    <3>1. CASE TakeJob(w) \/ Compute(w) \/ CallExit(w) \/ PrintPiece(w)
      BY <3>1, <2>1, DoneTyped DEF TakeJob, Compute, CallExit, PrintPiece, doneVars, Done!SignalerTypeOK
    <3>2. CASE ReturnJob(w) \/ EngineDone(w) \/ DetectorDone(w)
      BY <3>2, <2>1, DoneTyped, JobPairs DEF ReturnJob, EngineDone, DetectorDone
    <3>3. CASE WaitForEngine(w)
      BY <3>3, <2>1, <2>2, DoneTyped DEF WaitForEngine
    <3>. QED BY <1>3, <3>1, <3>2, <3>3 DEF WorkerStep
  <2>4. CASE TakeJob(w) \/ ReturnJob(w) \/ EngineDone(w) \/ DetectorDone(w)
    BY <1>1, <2>3, <2>4
    DEF TakeJob, ReturnJob, EngineDone, DetectorDone, mainVars, engineVars, detectorVars, exitVars
  <2>5. CASE Compute(w)
    BY <1>1, <2>3, <2>5 DEF Compute, mainVars, detectorVars, exitVars
  <2>6. CASE CallExit(w)
    BY <1>1, <2>3, <2>6 DEF CallExit, mainVars, engineVars, detectorVars
  <2>7. CASE WaitForEngine(w)
    <3>1. ASSUME NEW d \in Window, at[d] <= Iterations, ReadResult(d)
          PROVE  /\ at' \in [Window -> 1..(Iterations + 1)]
                 /\ anomalies' \in [Window -> SUBSET Ids]
      <4>1. Awaited(d) \in Engine
        BY <3>1, DetectionAssumption DEF Awaited, Engine
      <4>. QED BY <3>1, <4>1, DetectionAssumption DEF ReadResult
    <3>2. at' \in [Window -> 1..(Iterations + 1)] /\ anomalies' \in [Window -> SUBSET Ids]
      BY <2>7, <3>1 DEF WaitForEngine
    <3>. QED BY <1>1, <2>3, <2>7, <3>2 DEF WaitForEngine, mainVars, engineVars, exitVars
  <2>8. CASE PrintPiece(w)
    <3>1. PICK d \in Window : /\ Printed(d) < Len(Pieces)
                              /\ output' = Append(output, <<d, Pieces[Printed(d) + 1]>>)
      BY <2>8 DEF PrintPiece
    <3>2. Printed(d) \in Nat
      <4>1. IsFiniteSet(1..Len(output)) /\ DOMAIN output = 1..Len(output)
        BY FS_Interval, LenProperties
      <4>2. {i \in DOMAIN output : output[i][1] = d} \in SUBSET (1..Len(output))
        BY <4>1
      <4>. QED BY <4>1, <4>2, FS_Subset, FS_CardinalityType DEF Printed
    <3>3. Pieces[Printed(d) + 1] \in {"From", "To", "found"}
      BY <3>1, <3>2 DEF Pieces
    <3>4. output' \in Seq(Window \X {"From", "To", "found"})
      BY <3>1, <3>3, AppendProperties
    <3>. QED BY <1>1, <2>3, <2>8, <3>4 DEF PrintPiece, mainVars, engineVars, exitVars
  <2>. QED
    BY <1>3, <2>4, <2>5, <2>6, <2>7, <2>8 DEF WorkerStep
<1>4. CASE AddNull \/ EndProcess \/ Gone \/ UNCHANGED vars
  BY <1>1, <1>4
  DEF AddNull, EndProcess, Gone, vars, TypeOK, doneVars, mainVars, engineVars, detectorVars,
      exitVars, Done!SignalerTypeOK
<1>. QED BY <1>2, <1>3, <1>4 DEF Next

\* A raised flag stays raised.
LEMMA StatusStays ==
  ASSUME TypeOK, [Next]_vars, NEW j \in Job, mStatus[j]
  PROVE  mStatus'[j]
<1> USE DEF TypeOK, Done!SignalerTypeOK
<1>1. CASE MainStep
  BY <1>1
  DEF MainStep, StartPool, Capture, EndOfCapture, QueueJob, PostJob, Reap, WaitForDone, EndOfDrain,
      DeleteEngines, DeleteDetector, Leave, doneVars,
      Done!Look, Done!Sleep, Done!Pass, Done!Wake, Done!Destroy, Done!signalerVars
<1>2. ASSUME NEW w \in Workers, WorkerStep(w) PROVE mStatus'[j]
  BY <1>2
  DEF WorkerStep, TakeJob, ReturnJob, Compute, EngineDone, CallExit, WaitForEngine, PrintPiece,
      DetectorDone, doneVars, Done!Look, Done!Sleep, Done!Pass, Done!Wake, Done!Raise, Done!Release,
      Done!signalerVars
<1>3. CASE AddNull \/ EndProcess \/ Gone \/ UNCHANGED vars
  BY <1>3 DEF AddNull, EndProcess, Gone, vars, doneVars
<1>. QED BY <1>1, <1>2, <1>3 DEF Next

-----------------------------------------------------------------------------
(* The invariant *)

\* Main's own knowledge.
LEMMA MainStepKeeps ==
  ASSUME TypeOK, MainInv, FlagInv, MainStep, \A j \in Job : mStatus[j] => mStatus'[j]
  PROVE  MainInv'
<1>1. Main \in Thread /\ Main \notin Workers /\ Main # NULL
  BY DetectionAssumption DEF Thread
<1>2. detectors # <<>> => Head(detectors) \in Window /\ DetectorOf(Head(detectors)) \in Job
  BY HeadTailProperties, JobPairs DEF TypeOK
<1>3. CASE StartPool
  BY <1>1, <1>2, <1>3 DEF StartPool, Pool!Run, Pool!queueVars, Pool!stopVars, doneVars, MainInv, exitVars
<1>4. CASE Capture
  BY <1>1, <1>2, <1>4, DetectionAssumption DEF Capture, poolVars, doneVars, MainInv, Window, TypeOK, exitVars
<1>5. CASE EndOfCapture
  BY <1>1, <1>2, <1>5 DEF EndOfCapture, poolVars, doneVars, MainInv, exitVars
<1>6. CASE QueueJob
  BY <1>1, <1>2, <1>6
  DEF QueueJob, Pool!AddJob, Pool!Push, Pool!stopVars, doneVars, mainVars, MainInv, exitVars
<1>7. CASE PostJob
  BY <1>1, <1>2, <1>7 DEF PostJob, Pool!Up, Pool!stopVars, doneVars, MainInv, exitVars
<1>8. CASE Reap
  BY <1>1, <1>2, <1>8 DEF Reap, poolVars, doneVars, MainInv, exitVars
<1>9. CASE WaitForDone
  <2>1. mStatus' = mStatus
    BY <1>9 DEF WaitForDone, Done!Look, Done!Sleep, Done!Pass, Done!Wake, Done!signalerVars
  <2> DEFINE d == DetectorOf(Head(detectors))
  <2>2. CASE (Done!Look(Main, d) \/ Done!Sleep(Main, d)) /\ UNCHANGED mpc
    BY <1>1, <1>2, <1>9, <2>1, <2>2
    DEF WaitForDone, Done!Look, Done!Sleep, poolVars, MainInv, exitVars, TypeOK, Done!SignalerTypeOK
  <2>3. CASE (Done!Pass(Main, d) \/ Done!Wake(Main, d)) /\ mpc' = "drained"
    <3>1. waiting'[Main] = NULL
      BY <1>1, <2>3
      DEF Done!Pass, Done!Wake, Done!Free, Done!signalerVars, TypeOK, Done!SignalerTypeOK
    <3>2. mStatus[d]
      BY <1>1, <1>2, <1>9, <2>3, JobPairs DEF WaitForDone, Done!Pass, Done!Wake, FlagInv
    <3>. QED
      BY <1>1, <1>2, <1>9, <2>1, <2>3, <3>1, <3>2 DEF WaitForDone, poolVars, MainInv, exitVars
  <2>. QED BY <1>9, <2>2, <2>3 DEF WaitForDone
<1>10. CASE EndOfDrain
  BY <1>1, <1>2, <1>10 DEF EndOfDrain, poolVars, doneVars, MainInv, exitVars
<1>11. CASE DeleteEngines
  BY <1>1, <1>2, <1>11 DEF DeleteEngines, Done!Destroy, poolVars, MainInv, exitVars
<1>12. CASE DeleteDetector
  BY <1>1, <1>2, <1>12 DEF DeleteDetector, Done!Destroy, poolVars, MainInv, exitVars
<1>13. CASE Leave
  BY <1>1, <1>2, <1>13
  DEF Leave, Pool!Stop, Pool!queueVars, doneVars, mainVars, MainInv, exitVars
<1>. QED
  BY <1>3, <1>4, <1>5, <1>6, <1>7, <1>8, <1>9, <1>10, <1>11, <1>12, <1>13 DEF MainStep

LEMMA MainKeeps ==
  ASSUME TypeOK, MainInv, FlagInv, [Next]_vars
  PROVE  MainInv'
<1>1. \A j \in Job : mStatus[j] => mStatus'[j]
  BY StatusStays
<1>2. CASE MainStep
  BY <1>1, <1>2, MainStepKeeps
<1>3. Main \in Thread /\ Main \notin Workers /\ Main # NULL
  BY DetectionAssumption DEF Thread
<1>4. detectors # <<>> => DetectorOf(Head(detectors)) \in Job
  BY HeadTailProperties, JobPairs DEF TypeOK
<1>5. ASSUME NEW w \in Workers, WorkerStep(w) PROVE MainInv'
  <2>1. waiting'[Main] = waiting[Main]
    BY <1>3, <1>5
    DEF WorkerStep, TakeJob, ReturnJob, Compute, EngineDone, CallExit, WaitForEngine, PrintPiece,
        DetectorDone, doneVars, Done!Look, Done!Sleep, Done!Pass, Done!Wake, Done!Raise, Done!Release,
        Done!signalerVars, TypeOK, Done!SignalerTypeOK
  <2>2. UNCHANGED mainVars
    BY <1>5
    DEF WorkerStep, TakeJob, ReturnJob, Compute, EngineDone, CallExit, WaitForEngine, PrintPiece,
        DetectorDone
  <2>3. adding' = adding
    BY <1>5
    DEF WorkerStep, TakeJob, ReturnJob, Compute, EngineDone, CallExit, WaitForEngine, PrintPiece,
        DetectorDone, poolVars, Pool!Test, Pool!Down, Pool!Pop, Pool!Return, Pool!Stop,
        Pool!queueVars
  <2>4. \/ stopper' = stopper
        \/ stopper = NULL /\ stopper' = w /\ Unfilled # {}
    BY <1>5
    DEF WorkerStep, TakeJob, ReturnJob, Compute, EngineDone, CallExit, WaitForEngine, PrintPiece,
        DetectorDone, poolVars, Pool!Test, Pool!Down, Pool!Pop, Pool!Return, Pool!Stop,
        Pool!stopVars, exitVars
  <2>5. live' = live
    BY <1>5
    DEF WorkerStep, TakeJob, ReturnJob, Compute, EngineDone, CallExit, WaitForEngine, PrintPiece,
        DetectorDone
  <2>. QED
    BY <1>1, <1>3, <1>4, <2>1, <2>2, <2>3, <2>4, <2>5 DEF MainInv, mainVars
<1>6. CASE AddNull
  BY <1>1, <1>3, <1>4, <1>6
  DEF AddNull, Pool!AddNull, Pool!Up, Pool!Push, Pool!stopVars, doneVars, mainVars, exitVars, MainInv
<1>7. CASE EndProcess
  BY <1>1, <1>3, <1>4, <1>7
  DEF EndProcess, Pool!Join, Pool!queueVars, doneVars, mainVars, MainInv
<1>8. CASE Gone \/ UNCHANGED vars
  BY <1>8 DEF Gone, vars, poolVars, doneVars, mainVars, exitVars, MainInv
<1>. QED BY <1>2, <1>5, <1>6, <1>7, <1>8 DEF Next

\* A push of main hands a job over that was not before.
LEMMA HandedGrows ==
  ASSUME TypeOK, MainInv, QueueJob
  PROVE  NextJob \in Job \ Handed /\ Handed' = Handed \cup {NextJob}
<1>1. Main \in Thread /\ Main \notin Workers /\ Main # NULL
  BY DetectionAssumption DEF Thread
<1>2. \A j \in Job : j = <<j[1], j[2]>> /\ j[1] \in Window /\ j[2] \in 0..Iterations
  BY JobPairs
<1>3. Iterations \in Nat \ {0} /\ made \in 0..Windows /\ built \in 0..Iterations
  BY DetectionAssumption DEF TypeOK
<1> HIDE DEF Job
<1>4. made \in Window /\ NextJob \in Job /\ Main \notin adding /\ Main \in adding'
  BY NextIsJob DEF QueueJob, MainInv, Pool!AddJob, Pool!Push
<1>5. NextJob[1] = made /\ NextJob[2] \notin 1..built
  BY <1>3 DEF NextJob, DetectorOf
<1>6. mpc = "build" /\ UNCHANGED mainVars /\ NextJob' = NextJob
  BY DEF QueueJob, NextJob, DetectorOf, mainVars
<1>7. Handed' = Handed \cup {NextJob}
  BY <1>3, <1>4, <1>5, <1>6 DEF Handed, mainVars, Window
<1>8. NextJob \notin Handed
  BY <1>3, <1>4, <1>5, <1>6 DEF Handed
<1>. QED BY <1>4, <1>7, <1>8

\* Nothing else does.
LEMMA HandedStays ==
  ASSUME TypeOK, MainInv, [Next]_vars, ~QueueJob
  PROVE  Handed' = Handed
<1>1. Main \in Thread /\ Main \notin Workers /\ Main # NULL
  BY DetectionAssumption DEF Thread
<1>2. \A j \in Job : j = <<j[1], j[2]>> /\ j[1] \in Window /\ j[2] \in 0..Iterations
  BY JobPairs
<1>3. Iterations \in Nat \ {0} /\ made \in 0..Windows /\ built \in 0..Iterations
  BY DetectionAssumption DEF TypeOK
<1> HIDE DEF Job
<1>5. CASE PostJob
  <2>1. Main \in adding /\ made \in Window /\ mpc = "build" /\ made' = made /\ Main \notin adding'
    BY <1>5 DEF PostJob, MainInv, Pool!Up
  <2>2. \A j \in Job : j = NextJob <=> j[1] = made /\ j[2] = IF built < Iterations THEN built + 1 ELSE 0
    BY <1>2, <1>3, <2>1 DEF NextJob, DetectorOf
  <2>3. CASE built < Iterations
    <3>1. built' = built + 1 /\ mpc' = mpc
      BY <1>5, <2>3 DEF PostJob
    <3>. QED BY <1>2, <1>3, <2>1, <2>2, <2>3, <3>1 DEF Handed
  <2>4. CASE ~(built < Iterations)
    <3>1. mpc' # "build"
      BY <1>5, <2>4 DEF PostJob
    <3>. QED BY <1>2, <1>3, <2>1, <2>2, <2>4, <3>1 DEF Handed
  <2>. QED BY <1>5, <2>3, <2>4
<1>6. CASE Capture
  <2>1. mpc = "capture" /\ mpc' = "build" /\ built = 0 /\ built' = 0 /\ made' = made + 1
        /\ adding' = adding /\ Main \notin adding
    BY <1>1, <1>6 DEF Capture, MainInv, poolVars
  <2>2. \A j \in Job : (j[1] < made \/ j[1] = made) <=> j[1] < made'
    BY <1>2, <1>3, <2>1 DEF Window
  <2>. QED BY <2>1, <2>2 DEF Handed
<1>7. CASE MainStep /\ ~(QueueJob \/ PostJob \/ Capture)
  <2>1. made' = made /\ mpc # "build" /\ mpc' # "build"
    BY <1>7
    DEF MainStep, StartPool, EndOfCapture, Reap, WaitForDone, EndOfDrain, DeleteEngines,
        DeleteDetector, Leave, mainVars
  <2>. QED BY <2>1 DEF Handed
<1>8. ASSUME UNCHANGED mainVars, mpc = "build" => (Main \in adding <=> Main \in adding')
      PROVE  Handed' = Handed
  <2>1. NextJob' = NextJob
    BY <1>8 DEF NextJob, DetectorOf, mainVars
  <2>. QED BY <1>8, <2>1 DEF Handed, mainVars
<1>9. ASSUME NEW w \in Workers, WorkerStep(w) PROVE Handed' = Handed
  <2>1. UNCHANGED mainVars /\ adding' = adding
    BY <1>9
    DEF WorkerStep, TakeJob, ReturnJob, Compute, EngineDone, CallExit, WaitForEngine, PrintPiece,
        DetectorDone, poolVars, Pool!Test, Pool!Down, Pool!Pop, Pool!Return, Pool!Stop,
        Pool!queueVars
  <2>. QED BY <1>8, <2>1
<1>10. CASE AddNull
  <2>1. UNCHANGED mainVars /\ (stopper = Main => mpc = "exit")
        /\ \A t \in Thread \ {stopper} : t \in adding <=> t \in adding'
    BY <1>10 DEF AddNull, Pool!AddNull, Pool!Up, Pool!Push, MainInv
  <2>. QED BY <1>1, <1>8, <2>1
<1>11. CASE EndProcess \/ Gone \/ UNCHANGED vars
  BY <1>8, <1>11 DEF EndProcess, Pool!Join, Pool!queueVars, Gone, vars, poolVars
<1>. QED BY <1>5, <1>6, <1>7, <1>9, <1>10, <1>11 DEF Next

\* Elements of a queue after a push and after a pop.
LEMMA Pushed ==
  ASSUME NEW S, NEW q \in Seq(S), NEW x \in S
  PROVE  /\ DOMAIN Append(q, x) = DOMAIN q \cup {Len(q) + 1} /\ Len(q) + 1 \notin DOMAIN q
         /\ \A i \in DOMAIN q : Append(q, x)[i] = q[i]
         /\ Append(q, x)[Len(q) + 1] = x
BY AppendProperties

LEMMA Popped ==
  ASSUME NEW S, NEW q \in Seq(S), q # <<>>
  PROVE  /\ 1 \in DOMAIN q /\ Head(q) = q[1]
         /\ \A i \in DOMAIN Tail(q) : i + 1 \in DOMAIN q /\ i + 1 # 1 /\ Tail(q)[i] = q[i + 1]
         /\ \A i, k \in DOMAIN Tail(q) : i + 1 = k + 1 => i = k
BY HeadTailProperties

\* Pushes and pops of the queue.
LEMMA QueueKeeps ==
  ASSUME TypeOK, MainInv, QueueInv, [Next]_vars
  PROVE  QueueInv'
<1>1. mJobs \in Seq(Job \cup {NULL}) /\ job \in [Workers -> Job \cup {NULL}]
      /\ loop \in [Workers -> Pool!LoopState] /\ NULL \notin Job
  BY JobPairs DEF TypeOK, Pool!TypeOK
<1>2. Handed \subseteq Job /\ Handed \subseteq Handed'
  BY HandedGrows, HandedStays DEF Handed
<1>3. ASSUME UNCHANGED <<mJobs, job, loop>> PROVE QueueInv'
  BY <1>2, <1>3 DEF QueueInv
<1>4. ASSUME NEW x \in Job \cup {NULL}, mJobs' = Append(mJobs, x), UNCHANGED <<job, loop>>,
             x # NULL => x \in Handed' \ Handed
      PROVE  QueueInv'
  <2>1. /\ DOMAIN mJobs' = DOMAIN mJobs \cup {Len(mJobs) + 1} /\ Len(mJobs) + 1 \notin DOMAIN mJobs
        /\ \A i \in DOMAIN mJobs : mJobs'[i] = mJobs[i]
        /\ mJobs'[Len(mJobs) + 1] = x
    BY <1>1, <1>4, Pushed
  <2>. QED BY <1>1, <1>2, <1>4, <2>1 DEF QueueInv
<1>5. CASE MainStep
  <2>1. CASE StartPool
    BY <1>1, <1>2, <2>1 DEF StartPool, Pool!Run, Pool!queueVars, QueueInv
  <2>2. CASE QueueJob
    BY <1>4, <2>2, HandedGrows DEF QueueJob, Pool!AddJob, Pool!Push, Pool!loopVars
  <2>3. CASE PostJob \/ Leave
    BY <1>3, <2>3 DEF PostJob, Leave, Pool!Up, Pool!Stop, Pool!queueVars, Pool!loopVars
  <2>. QED
    BY <1>3, <1>5, <2>1, <2>2, <2>3
    DEF MainStep, Capture, EndOfCapture, Reap, WaitForDone, EndOfDrain, DeleteEngines,
        DeleteDetector, poolVars
<1>6. ASSUME NEW w \in Workers, WorkerStep(w) PROVE QueueInv'
  <2>1. CASE Pool!Test(w) \/ Pool!Down(w)
    <3>1. UNCHANGED <<mJobs, job>> /\ loop[w] # "run" /\ \A v \in Workers \ {w} : loop'[v] = loop[v]
      BY <1>1, <2>1 DEF Pool!Test, Pool!Down, Pool!queueVars
    <3>. QED BY <1>2, <3>1 DEF QueueInv
  <2>2. CASE Pool!Pop(w)
    <3>1. job[w] = NULL
      BY <2>2 DEF Pool!Pop, QueueInv
    <3>2. CASE mJobs = <<>>
      <4>1. mJobs' = mJobs /\ job' = job
            /\ \A v \in Workers \ {w} : loop'[v] = loop[v]
        BY <1>1, <2>2, <3>1, <3>2 DEF Pool!Pop, Pool!Oldest
      <4>. QED BY <1>2, <3>1, <4>1 DEF QueueInv
    <3>3. CASE mJobs # <<>>
      <4>1. /\ mJobs' = Tail(mJobs) /\ job' = [job EXCEPT ![w] = mJobs[1]]
            /\ \A v \in Workers \ {w} : loop'[v] = loop[v]
            /\ mJobs[1] # NULL => loop'[w] = "run"
        BY <1>1, <2>2, <3>3, Popped DEF Pool!Pop, Pool!Oldest
      <4>2. /\ 1 \in DOMAIN mJobs
            /\ \A i \in DOMAIN mJobs' : i + 1 \in DOMAIN mJobs /\ i + 1 # 1 /\ mJobs'[i] = mJobs[i + 1]
            /\ \A i, k \in DOMAIN mJobs' : i + 1 = k + 1 => i = k
        BY <1>1, <3>3, <4>1, Popped
      <4>. QED BY <1>1, <1>2, <3>1, <4>1, <4>2 DEF QueueInv
    <3>. QED BY <3>2, <3>3
  <2>3. CASE ReturnJob(w)
    BY <1>1, <1>2, <2>3 DEF ReturnJob, Pool!Return, Pool!queueVars, QueueInv
  <2>4. CASE CallExit(w)
    BY <1>3, <2>4 DEF CallExit, Pool!Stop, Pool!queueVars, Pool!loopVars, poolVars
  <2>. QED
    BY <1>3, <1>6, <2>1, <2>2, <2>3, <2>4
    DEF WorkerStep, TakeJob, Compute, EngineDone, WaitForEngine, PrintPiece, DetectorDone, poolVars
<1>7. CASE AddNull
  BY <1>3, <1>4, <1>7
  DEF AddNull, Pool!AddNull, Pool!Push, Pool!Up, Pool!loopVars
<1>8. CASE EndProcess \/ Gone \/ UNCHANGED vars
  BY <1>3, <1>8 DEF EndProcess, Pool!Join, Pool!queueVars, Pool!loopVars, Gone, vars, poolVars
<1>. QED BY <1>5, <1>6, <1>7, <1>8 DEF Next

\* The flags of a window that main is about to free are all raised.
LEMMA HeadIsDone ==
  ASSUME DetectionInv, detectors # <<>>, mStatus[DetectorOf(Head(detectors))]
  PROVE  /\ Head(detectors) \in Window
         /\ \A e \in EnginesOf(Head(detectors)) : e \in Engine /\ mStatus[e]
<1> DEFINE d == Head(detectors)
<1>1. d \in Window
  BY HeadTailProperties DEF DetectionInv, TypeOK
<1>2. at[d] = Iterations + 1 /\ \A i \in 1..Iterations : i < at[d] => mStatus[<<d, i>>]
  BY <1>1 DEF DetectionInv, VerdictInv
<1>3. \A i \in 1..Iterations : mStatus[<<d, i>>]
  BY <1>2, DetectionAssumption
<1>. QED BY <1>1, <1>3, JobPairs DEF EnginesOf

\* Destroying flags that are all raised changes none of them.
LEMMA DestroyKeeps ==
  ASSUME TypeOK, NEW S \in SUBSET Job, \A j \in S : mStatus[j], Done!Destroy(S)
  PROVE  mStatus' = mStatus /\ \A j \in S : mGuard[j] = NULL
BY DEF Done!Destroy, TypeOK, Done!SignalerTypeOK

\* What main frees has its flags raised already.
LEMMA DeleteKeeps ==
  ASSUME DetectionInv, DeleteEngines \/ DeleteDetector
  PROVE  /\ Head(detectors) \in Window
         /\ mStatus' = mStatus /\ mGuard' = mGuard /\ waiting' = waiting
         /\ \E S \in SUBSET Job : /\ S = EnginesOf(Head(detectors)) \/ S = {DetectorOf(Head(detectors))}
                                  /\ live' = live \ S
                                  /\ \A j \in S : mStatus[j] /\ mGuard[j] = NULL
                                  /\ asleep' = asleep \ UNION {Done!Sleepers(j) : j \in S}
<1>1. detectors # <<>> /\ mStatus[DetectorOf(Head(detectors))]
  BY DEF DeleteEngines, DeleteDetector, DetectionInv, MainInv
<1>2. /\ Head(detectors) \in Window
      /\ \A e \in EnginesOf(Head(detectors)) : e \in Engine /\ mStatus[e]
  BY <1>1, HeadIsDone
<1>3. CASE DeleteEngines
  <2>1. EnginesOf(Head(detectors)) \in SUBSET Job
    BY <1>2, JobPairs
  <2>2. Done!Destroy(EnginesOf(Head(detectors)))
    BY <1>3 DEF DeleteEngines
  <2>3. mStatus' = mStatus /\ \A j \in EnginesOf(Head(detectors)) : mGuard[j] = NULL
    BY <1>2, <2>1, <2>2, DestroyKeeps DEF DetectionInv
  <2>. QED BY <1>2, <1>3, <2>1, <2>2, <2>3 DEF DeleteEngines, Done!Destroy
<1>4. CASE DeleteDetector
  <2>1. {DetectorOf(Head(detectors))} \in SUBSET Job
    BY <1>2, JobPairs
  <2>2. Done!Destroy({DetectorOf(Head(detectors))})
    BY <1>4 DEF DeleteDetector
  <2>3. mStatus' = mStatus /\ \A j \in {DetectorOf(Head(detectors))} : mGuard[j] = NULL
    BY <1>1, <2>1, <2>2, DestroyKeeps DEF DetectionInv
  <2>. QED BY <1>1, <1>2, <1>4, <2>1, <2>2, <2>3 DEF DeleteDetector, Done!Destroy
<1>. QED BY <1>3, <1>4

\* Steps that touch no flag: a job may be pushed that was not before, or taken
\* from the queue by a worker without one.
LEMMA FlagFrame ==
  ASSUME DetectionInv, [Next]_vars, UNCHANGED <<doneVars, at>>,
         job' \in [Workers -> Job \cup {NULL}],
         \A w \in Workers : job'[w] = job[w]
                            \/ (job[w] = NULL /\ job'[w] \in QueuedJobs \cup {NULL}),
         QueuedJobs' \subseteq QueuedJobs \cup (Job \ Handed)
  PROVE  FlagInv'
<1>1. Handed \subseteq Job /\ Handed \subseteq Handed'
  BY HandedGrows, HandedStays DEF Handed, DetectionInv
<1>2. NULL \notin Job /\ mStatus \in [Job -> BOOLEAN]
  BY JobPairs DEF DetectionInv, TypeOK, Done!SignalerTypeOK
<1>3. \A d \in Window : DetectorOf(d) # NULL
  BY <1>2, JobPairs
<1>. QED
  BY <1>1, <1>2, <1>3 DEF DetectionInv, FlagInv, doneVars, Awaited

\* What the queue holds after the steps of the pool.
LEMMA QueuedAfter ==
  ASSUME TypeOK
  PROVE  /\ \A x \in Job \cup {NULL} :
              mJobs' = Append(mJobs, x) => QueuedJobs' \subseteq (QueuedJobs \cup {x}) \ {NULL}
         /\ mJobs # <<>> /\ mJobs' = Tail(mJobs) => QueuedJobs' \subseteq QueuedJobs
         /\ mJobs # <<>> => Head(mJobs) \in QueuedJobs \cup {NULL}
         /\ mJobs' = mJobs => QueuedJobs' = QueuedJobs
<1>1. mJobs \in Seq(Job \cup {NULL})
  BY DEF TypeOK, Pool!TypeOK
<1>2. ASSUME NEW x \in Job \cup {NULL}, mJobs' = Append(mJobs, x)
      PROVE  QueuedJobs' \subseteq (QueuedJobs \cup {x}) \ {NULL}
  BY <1>1, <1>2, Pushed DEF QueuedJobs
<1>3. ASSUME mJobs # <<>>, mJobs' = Tail(mJobs) PROVE QueuedJobs' \subseteq QueuedJobs
  BY <1>1, <1>3, Popped DEF QueuedJobs
<1>4. ASSUME mJobs # <<>> PROVE Head(mJobs) \in QueuedJobs \cup {NULL}
  BY <1>1, <1>4, Popped DEF QueuedJobs
<1>. QED BY <1>2, <1>3, <1>4 DEF QueuedJobs

LEMMA FlagMainKeeps ==
  ASSUME DetectionInv, MainStep, [Next]_vars
  PROVE  FlagInv'
<1>1. /\ job \in [Workers -> Job \cup {NULL}] /\ mStatus \in [Job -> BOOLEAN]
      /\ mGuard \in [Job -> Thread \cup {NULL}] /\ waiting \in [Thread -> Job \cup {NULL}]
      /\ asleep \subseteq Thread
      /\ NULL \notin Job /\ Main \in Thread /\ Workers = Thread \ {Main} /\ NULL \notin Thread
  BY JobPairs, DetectionAssumption
  DEF DetectionInv, TypeOK, Pool!TypeOK, Done!SignalerTypeOK, Thread
<1>2. CASE StartPool \/ Capture \/ EndOfCapture \/ PostJob \/ Reap \/ EndOfDrain \/ Leave
  <2>1. UNCHANGED <<doneVars, at, mJobs, job>>
    BY <1>2
    DEF StartPool, Capture, EndOfCapture, PostJob, Reap, EndOfDrain, Leave, poolVars,
        Pool!Run, Pool!Up, Pool!Stop, Pool!queueVars, Pool!loopVars, detectorVars
  <2>. QED BY <1>1, <2>1, FlagFrame, QueuedAfter DEF DetectionInv
<1>3. CASE QueueJob
  <2>1. NextJob \in Job \ Handed /\ mJobs' = Append(mJobs, NextJob)
        /\ UNCHANGED <<doneVars, at, job>>
    BY <1>3, HandedGrows DEF DetectionInv, QueueJob, Pool!AddJob, Pool!Push, Pool!loopVars, detectorVars
  <2>. QED BY <1>1, <2>1, FlagFrame, QueuedAfter DEF DetectionInv
<1>4. CASE WaitForDone
  <2> DEFINE d == DetectorOf(Head(detectors))
  <2>1. UNCHANGED <<mStatus, at, mJobs, job>> /\ Handed' = Handed /\ QueuedJobs' = QueuedJobs
        /\ d \in Job
    <3>1. Head(detectors) \in Window
      BY <1>4, HeadTailProperties DEF WaitForDone, DetectionInv, TypeOK
    <3>2. UNCHANGED <<mStatus, at, mJobs, job>> /\ ~QueueJob
      BY <1>4
      DEF WaitForDone, QueueJob, Done!Look, Done!Sleep, Done!Pass, Done!Wake, Done!signalerVars, poolVars,
          detectorVars
    <3>. QED BY <3>1, <3>2, JobPairs, HandedStays, QueuedAfter DEF DetectionInv
  <2>2. \A w \in Workers : waiting'[w] = waiting[w] /\ (w \in asleep' <=> w \in asleep)
    BY <1>1, <1>4, <2>1
    DEF WaitForDone, Done!Look, Done!Sleep, Done!Pass, Done!Wake, Done!Free, Done!signalerVars
  <2>3. CASE Done!Look(Main, d)
    <3>1. /\ mGuard[d] = NULL /\ ~mStatus[d] /\ mGuard' = [mGuard EXCEPT ![d] = Main]
          /\ waiting'[Main] = d /\ waiting[Main] = NULL
      BY <1>1, <2>1, <2>3 DEF Done!Look, Done!Free
    <3>. QED BY <1>1, <2>1, <2>2, <3>1 DEF DetectionInv, FlagInv, Awaited
  <2>4. CASE Done!Sleep(Main, d)
    <3>1. mGuard[d] = Main /\ mGuard' = [mGuard EXCEPT ![d] = NULL] /\ waiting' = waiting
          /\ Main \in asleep'
      BY <1>1, <2>1, <2>4 DEF Done!Sleep
    <3>. QED BY <1>1, <2>1, <2>2, <3>1 DEF DetectionInv, FlagInv, Awaited
  <2>5. CASE Done!Pass(Main, d) \/ Done!Wake(Main, d)
    <3>1. mGuard[d] = NULL /\ mGuard' = mGuard /\ waiting'[Main] = NULL
      BY <1>1, <2>5 DEF Done!Pass, Done!Wake, Done!Free, Done!signalerVars
    <3>2. waiting[Main] = NULL \/ waiting[Main] = d
      BY <2>5 DEF Done!Pass, Done!Wake, Done!Free
    <3>. QED BY <1>1, <2>1, <2>2, <3>1, <3>2 DEF DetectionInv, FlagInv, Awaited
  <2>. QED BY <1>4, <2>3, <2>4, <2>5 DEF WaitForDone
<1>5. CASE DeleteEngines \/ DeleteDetector
  <2>1. PICK S \in SUBSET Job :
          \A j \in S : mStatus[j] /\ asleep' = asleep \ UNION {Done!Sleepers(i) : i \in S}
    BY <1>5, DeleteKeeps
  <2>2. UNCHANGED <<mStatus, mGuard, waiting>> /\ UNCHANGED <<at, mJobs, job>> /\ ~QueueJob
    BY <1>5, DeleteKeeps DEF DeleteEngines, DeleteDetector, QueueJob, poolVars, detectorVars
  <2>3. Handed' = Handed /\ QueuedJobs' = QueuedJobs
    BY <2>2, HandedStays, QueuedAfter DEF DetectionInv
  <2>4. \A t \in Thread : t \notin asleep' => t \notin asleep \/ mStatus[waiting[t]]
    BY <1>5, DeleteKeeps DEF Done!Sleepers
  <2>. QED BY <1>1, <2>2, <2>3, <2>4 DEF DetectionInv, FlagInv, Awaited
<1>. QED BY <1>2, <1>3, <1>4, <1>5 DEF MainStep

LEMMA FlagWorkerKeeps ==
  ASSUME DetectionInv, NEW w \in Workers, WorkerStep(w), [Next]_vars
  PROVE  FlagInv'
<1>1. /\ job \in [Workers -> Job \cup {NULL}] /\ mStatus \in [Job -> BOOLEAN]
      /\ mGuard \in [Job -> Thread \cup {NULL}] /\ waiting \in [Thread -> Job \cup {NULL}]
      /\ asleep \subseteq Thread
      /\ NULL \notin Job /\ Main \in Thread /\ Workers = Thread \ {Main} /\ NULL \notin Thread
  BY JobPairs, DetectionAssumption
  DEF DetectionInv, TypeOK, Pool!TypeOK, Done!SignalerTypeOK, Thread
<1>2. CASE Pool!Pop(w) /\ UNCHANGED <<doneVars, at>>
  <2>1. job[w] = NULL
    BY <1>2 DEF Pool!Pop, DetectionInv, QueueInv
  <2>2. job' = [job EXCEPT ![w] = Pool!Oldest]
    BY <1>2 DEF Pool!Pop
  <2>3. Pool!Oldest \in QueuedJobs \cup {NULL} /\ QueuedJobs' \subseteq QueuedJobs
    BY <1>2, QueuedAfter DEF DetectionInv, Pool!Pop, Pool!Oldest
  <2>4. QueuedJobs \subseteq Job
    BY <1>1 DEF DetectionInv, TypeOK, Pool!TypeOK, QueuedJobs
  <2>. QED BY <1>1, <1>2, <2>1, <2>2, <2>3, <2>4, FlagFrame
<1>3. CASE Compute(w) \/ CallExit(w) \/ PrintPiece(w)
           \/ ((Pool!Test(w) \/ Pool!Down(w)) /\ UNCHANGED <<doneVars, at>>)
  <2>1. UNCHANGED <<doneVars, at, mJobs, job>>
    BY <1>3
    DEF Compute, CallExit, PrintPiece, Pool!Test, Pool!Down, Pool!Stop, Pool!queueVars,
        Pool!loopVars, poolVars, detectorVars
  <2>. QED BY <1>1, <2>1, FlagFrame, QueuedAfter DEF DetectionInv
<1>4. ~QueueJob => Handed' = Handed
  BY HandedStays DEF DetectionInv
<1>5. CASE ReturnJob(w)
  <2>1. job[w] \in Job /\ mGuard[job[w]] = w /\ mGuard' = [mGuard EXCEPT ![job[w]] = NULL]
        /\ UNCHANGED <<mStatus, waiting, asleep, at, mJobs, mainVars>> /\ job' = [job EXCEPT ![w] = NULL]
    BY <1>5 DEF ReturnJob, Done!Release, Pool!Return, Pool!queueVars, detectorVars
  <2>2. Handed' = Handed /\ QueuedJobs' = QueuedJobs
    BY <1>5, <2>1, <1>4, QueuedAfter
    DEF DetectionInv, ReturnJob, Pool!Return, Pool!queueVars, QueueJob, Pool!AddJob, Pool!Push
  <2>3. mStatus[job[w]] /\ waiting[w] = NULL
    <3>1. waiting[w] # job[w]
      BY <1>5 DEF ReturnJob, Done!Release
    <3>. QED BY <1>1, <2>1, <3>1, JobPairs, DetectionAssumption DEF DetectionInv, FlagInv, VerdictInv
  <2>. QED BY <1>1, <2>1, <2>2, <2>3 DEF DetectionInv, FlagInv, QueueInv, Awaited
<1>6. CASE EngineDone(w) \/ DetectorDone(w)
  <2>1. /\ job[w] \in Job /\ ~mStatus[job[w]] /\ Done!Raise(w, job[w])
        /\ UNCHANGED <<at, mJobs, job, poolVars>>
    BY <1>1, <1>6, JobPairs DEF EngineDone, DetectorDone, poolVars, detectorVars, DetectionInv, TypeOK
  <2>2. Handed' = Handed /\ QueuedJobs' = QueuedJobs
    <3>1. ~QueueJob
      BY <2>1 DEF QueueJob, Pool!AddJob, Pool!Push, poolVars
    <3>. QED BY <1>4, <2>1, <3>1, QueuedAfter DEF DetectionInv
  <2>3. job[w] \in Handed /\ job[w] \notin QueuedJobs /\ \A v \in Workers : job[v] = job[w] => v = w
    BY <1>1, <2>1 DEF DetectionInv, QueueInv, QueuedJobs
  <2>4. /\ mGuard[job[w]] = NULL /\ mGuard' = [mGuard EXCEPT ![job[w]] = w]
        /\ mStatus' = [mStatus EXCEPT ![job[w]] = TRUE]
        /\ asleep' = asleep \ Done!Sleepers(job[w]) /\ waiting' = waiting
    BY <2>1 DEF Done!Raise
  <2>5. \A t \in Thread : waiting[t] # NULL /\ t \notin asleep' =>
          mStatus'[waiting[t]] \/ mGuard'[waiting[t]] = t
    BY <1>1, <2>1, <2>4 DEF DetectionInv, FlagInv, Done!Sleepers
  <2>. QED BY <1>1, <2>1, <2>2, <2>3, <2>4, <2>5 DEF DetectionInv, FlagInv, Awaited
<1>7. CASE WaitForEngine(w)
  <2>1. PICK d \in Window :
          /\ job[w] = DetectorOf(d) /\ at[d] <= Iterations
          /\ \/ (Done!Look(w, Awaited(d)) \/ Done!Sleep(w, Awaited(d))) /\ UNCHANGED <<at, anomalies>>
             \/ (Done!Pass(w, Awaited(d)) \/ Done!Wake(w, Awaited(d))) /\ ReadResult(d)
    BY <1>7 DEF WaitForEngine
  <2>2. /\ UNCHANGED <<poolVars, mJobs, job, mStatus>>
        /\ Awaited(d) \in Job /\ at[d] \in 1..Iterations
    BY <1>7, <2>1, DetectionAssumption, JobPairs
    DEF WaitForEngine, poolVars, Awaited, Done!Look, Done!Sleep, Done!Pass, Done!Wake, Done!signalerVars,
        DetectionInv, TypeOK
  <2>3. Handed' = Handed /\ QueuedJobs' = QueuedJobs
    <3>1. ~QueueJob
      BY <2>2 DEF QueueJob, Pool!AddJob, Pool!Push, poolVars
    <3>. QED BY <1>4, <2>2, <3>1, QueuedAfter DEF DetectionInv
  <2>4. \A v \in Workers \ {w} : \A e \in Window : job[v] = DetectorOf(e) => e # d
    BY <1>1, <2>1, JobPairs DEF DetectionInv, QueueInv
  <2>5. CASE Done!Look(w, Awaited(d)) /\ UNCHANGED <<at, anomalies>>
    <3>1. /\ waiting' = [waiting EXCEPT ![w] = Awaited(d)] /\ asleep' = asleep /\ at' = at
          /\ mGuard[Awaited(d)] = NULL /\ mGuard' = [mGuard EXCEPT ![Awaited(d)] = w]
          /\ ~mStatus[Awaited(d)] /\ waiting[w] = NULL
      BY <2>5 DEF Done!Look, Done!Free
    <3>. QED BY <1>1, <2>1, <2>2, <2>3, <3>1 DEF DetectionInv, FlagInv, Awaited
  <2>6. CASE Done!Sleep(w, Awaited(d)) /\ UNCHANGED <<at, anomalies>>
    <3>1. /\ waiting' = waiting /\ asleep' = asleep \cup {w} /\ at' = at
          /\ mGuard[Awaited(d)] = w /\ mGuard' = [mGuard EXCEPT ![Awaited(d)] = NULL]
      BY <2>6 DEF Done!Sleep
    <3>2. job[w] # Awaited(d) /\ Awaited(d) # NULL /\ w # NULL
      BY <1>1, <2>1, <2>2, DetectionAssumption DEF DetectorOf, Awaited
    <3>3. ~mStatus[Awaited(d)] /\ waiting[w] = Awaited(d)
      BY <1>1, <2>2, <3>1, <3>2 DEF DetectionInv, FlagInv
    <3>. QED BY <1>1, <2>1, <2>2, <2>3, <3>1, <3>3 DEF DetectionInv, FlagInv, Awaited
  <2>7. CASE (Done!Pass(w, Awaited(d)) \/ Done!Wake(w, Awaited(d))) /\ ReadResult(d)
    <3>1. /\ asleep' = asleep /\ waiting'[w] = NULL /\ mGuard' = mGuard
          /\ mGuard[Awaited(d)] = NULL /\ (waiting[w] = NULL \/ waiting[w] = Awaited(d))
          /\ \A t \in Thread \ {w} : waiting'[t] = waiting[t]
      BY <1>1, <2>7 DEF Done!Pass, Done!Wake, Done!Free, Done!signalerVars
    <3>2. \A e \in Window \ {d} : at'[e] = at[e]
      BY <2>7 DEF ReadResult, DetectionInv, TypeOK
    <3>3. \A v \in Workers : waiting'[v] # NULL =>
            \E e \in Window : job'[v] = DetectorOf(e) /\ at'[e] \in 1..Iterations
                              /\ waiting'[v] = Awaited(e)'
      BY <1>1, <2>2, <2>4, <3>1, <3>2 DEF DetectionInv, FlagInv, Awaited
    <3>. QED BY <1>1, <2>2, <2>3, <3>1, <3>3 DEF DetectionInv, FlagInv
  <2>. QED BY <2>1, <2>5, <2>6, <2>7
<1>. QED
  BY <1>2, <1>3, <1>5, <1>6, <1>7 DEF WorkerStep, TakeJob, detectorVars

LEMMA FlagKeeps ==
  ASSUME DetectionInv, [Next]_vars
  PROVE  FlagInv'
<1>1. job \in [Workers -> Job \cup {NULL}] /\ NULL \notin Job /\ QueuedJobs \subseteq Job
  BY JobPairs DEF DetectionInv, TypeOK, Pool!TypeOK, QueuedJobs
<1>2. CASE AddNull
  <2>1. UNCHANGED <<doneVars, at, job>> /\ (mJobs' = mJobs \/ mJobs' = Append(mJobs, NULL))
    BY <1>2 DEF AddNull, Pool!AddNull, Pool!Up, Pool!Push, Pool!loopVars, detectorVars
  <2>. QED BY <1>1, <2>1, FlagFrame, QueuedAfter DEF DetectionInv
<1>3. CASE EndProcess \/ Gone \/ UNCHANGED vars
  <2>1. UNCHANGED <<doneVars, at, job, mJobs>>
    BY <1>3
    DEF EndProcess, Gone, vars, Pool!Join, Pool!queueVars, Pool!loopVars, poolVars, detectorVars
  <2>. QED BY <1>1, <2>1, FlagFrame, QueuedAfter DEF DetectionInv
<1>. QED BY <1>2, <1>3, FlagMainKeeps, FlagWorkerKeeps DEF Next

\* Steps that leave the verdicts alone.
LEMMA VerdictFrame ==
  ASSUME DetectionInv, mStatus' \in [Job -> BOOLEAN], UNCHANGED <<engineVars, detectorVars>>,
         \A j \in Job : mStatus[j] => mStatus'[j],
         \A e \in Engine : mStatus'[e] => mStatus[e] \/ e \in computed,
         \A d \in Window : mStatus'[DetectorOf(d)] => mStatus[DetectorOf(d)] \/ at[d] = Iterations + 1
  PROVE  VerdictInv'
<1>1. \A d \in Window, i \in 1..Iterations : <<d, i>> \in Job
  BY JobPairs, DetectionAssumption
<1>. QED BY <1>1 DEF DetectionInv, VerdictInv, engineVars, detectorVars

LEMMA VerdictKeeps ==
  ASSUME DetectionInv, [Next]_vars, mStatus' \in [Job -> BOOLEAN]
  PROVE  VerdictInv'
<1>1. \A j \in Job : mStatus[j] => mStatus'[j]
  BY StatusStays DEF DetectionInv
<1>2. ASSUME mStatus' = mStatus, UNCHANGED <<engineVars, detectorVars>> PROVE VerdictInv'
  BY <1>1, <1>2, VerdictFrame
<1>3. /\ mStatus \in [Job -> BOOLEAN] /\ at \in [Window -> 1..(Iterations + 1)]
      /\ anomalies \in [Window -> SUBSET Ids] /\ result \in [Engine -> SUBSET Ids]
      /\ output \in Seq(Window \X {"From", "To", "found"})
  BY DEF DetectionInv, TypeOK, Done!SignalerTypeOK
<1>4. \A d \in Window, i \in 1..Iterations : <<d, i>> \in Engine /\ <<d, i>> \in Job
  BY JobPairs DEF Engine
<1>5. CASE MainStep
  <2>1. CASE DeleteEngines \/ DeleteDetector
    BY <1>2, <2>1, DeleteKeeps DEF DeleteEngines, DeleteDetector
  <2>. QED
    BY <1>2, <1>5, <2>1
    DEF MainStep, StartPool, Capture, EndOfCapture, QueueJob, PostJob, Reap, WaitForDone, EndOfDrain,
        Leave, doneVars, Done!Look, Done!Sleep, Done!Pass, Done!Wake, Done!signalerVars, detectorVars
<1>6. ASSUME NEW w \in Workers, WorkerStep(w) PROVE VerdictInv'
  <2>1. CASE TakeJob(w) \/ ReturnJob(w) \/ CallExit(w)
    BY <1>2, <2>1 DEF TakeJob, ReturnJob, CallExit, doneVars, Done!Release
  <2>2. CASE Compute(w)
    <3>1. PICK anomalous \in SUBSET Ids : result' = [result EXCEPT ![job[w]] = anomalous]
      BY <2>2 DEF Compute
    <3>2. /\ job[w] \in Engine \ (Unfilled \cup computed) /\ computed' = computed \cup {job[w]}
          /\ UNCHANGED <<mStatus, detectorVars>>
      BY <2>2 DEF Compute, doneVars
    <3>3. \A e \in computed \cap Engine : result'[e] = result[e]
      BY <1>3, <3>1, <3>2
    <3>4. \A d \in Window, i \in 1..Iterations : i < at[d] => <<d, i>> \in computed
      BY <1>4 DEF DetectionInv, VerdictInv
    <3>. QED
      BY <1>3, <1>4, <3>2, <3>3, <3>4 DEF DetectionInv, VerdictInv, detectorVars
  <2>3. CASE EngineDone(w)
    <3>1. job[w] \in computed /\ mStatus' = [mStatus EXCEPT ![job[w]] = TRUE] /\ job[w] \in Engine
      BY <2>3 DEF EngineDone, Done!Raise, DetectionInv, TypeOK
    <3>. QED
      BY <1>1, <1>3, <2>3, <3>1, VerdictFrame, JobPairs DEF EngineDone
  <2>4. CASE DetectorDone(w)
    <3>1. PICK d \in Window : /\ job[w] = DetectorOf(d) /\ at[d] = Iterations + 1
                              /\ mStatus' = [mStatus EXCEPT ![DetectorOf(d)] = TRUE]
      BY <2>4 DEF DetectorDone, Done!Raise
    <3>2. \A e \in Window : DetectorOf(e) = DetectorOf(d) => e = d
      BY DEF DetectorOf
    <3>. QED
      BY <1>1, <1>3, <2>4, <3>1, <3>2, VerdictFrame, JobPairs DEF DetectorDone
  <2>5. CASE WaitForEngine(w)
    <3>1. PICK d \in Window :
            /\ job[w] = DetectorOf(d) /\ at[d] <= Iterations
            /\ \/ (Done!Look(w, Awaited(d)) \/ Done!Sleep(w, Awaited(d))) /\ UNCHANGED <<at, anomalies>>
               \/ (Done!Pass(w, Awaited(d)) \/ Done!Wake(w, Awaited(d))) /\ ReadResult(d)
      BY <2>5 DEF WaitForEngine
    <3>2. mStatus' = mStatus /\ UNCHANGED <<computed, result, output>>
      BY <2>5 DEF WaitForEngine, Done!Look, Done!Sleep, Done!Pass, Done!Wake, Done!signalerVars, engineVars
    <3>3. CASE UNCHANGED <<at, anomalies>>
      BY <1>2, <3>2, <3>3 DEF engineVars, detectorVars
    <3>4. CASE (Done!Pass(w, Awaited(d)) \/ Done!Wake(w, Awaited(d))) /\ ReadResult(d)
      <4>1. mStatus[Awaited(d)]
        <5>1. CASE Done!Pass(w, Awaited(d))
          BY <5>1 DEF Done!Pass
        <5>2. CASE Done!Wake(w, Awaited(d))
          <6>1. /\ waiting[w] = Awaited(d) /\ w \notin asleep /\ w \in Thread
                /\ mGuard[Awaited(d)] = NULL /\ NULL \notin Thread
            BY <5>2, JobPairs DEF Done!Wake, Thread
          <6>2. Awaited(d) # NULL
            BY <1>3, <1>4, <3>1, JobPairs DEF Awaited
          <6>. QED BY <6>1, <6>2 DEF DetectionInv, FlagInv
        <5>. QED BY <3>4, <5>1, <5>2
      <4>2. /\ at' = [at EXCEPT ![d] = @ + 1]
            /\ anomalies' = [anomalies EXCEPT ![d] = IF at[d] = 1 THEN result[<<d, at[d]>>]
                                                     ELSE @ \cap result[<<d, at[d]>>]]
        BY <3>4 DEF ReadResult, Awaited
      <4>3. at[d] \in 1..Iterations /\ result[<<d, at[d]>>] \in SUBSET Ids
        BY <1>3, <1>4, <3>1, DetectionAssumption
      <4>4. \A i \in 1..Iterations : i < at'[d] <=> i < at[d] \/ i = at[d]
        BY <1>3, <4>2, <4>3
      <4>5. \A i \in 1..Iterations : i < at'[d] => mStatus[<<d, i>>]
        BY <4>1, <4>4 DEF DetectionInv, VerdictInv, Awaited
      <4>6. anomalies'[d] = {id \in Ids : \A i \in 1..Iterations : i < at'[d] => id \in result[<<d, i>>]}
        <5> DEFINE I == 1..Iterations
        <5> DEFINE Common(n) == {id \in Ids : \A i \in I : i < n => id \in result[<<d, i>>]}
        <5>1. at'[d] = at[d] + 1 /\ at[d] \in Nat
          BY <1>3, <4>2, <4>3
        <5>2. Common(at'[d]) = {id \in Ids : id \in Common(at[d]) /\ id \in result[<<d, at[d]>>]}
          <6>1. ASSUME NEW id \in Ids
                PROVE  (\A i \in I : i < at'[d] => id \in result[<<d, i>>])
                       <=> (\A i \in I : i < at[d] => id \in result[<<d, i>>]) /\ id \in result[<<d, at[d]>>]
            BY <4>3, <4>4
          <6>. QED BY <6>1
        <5>3. CASE at[d] = 1
          <6>1. anomalies'[d] = result[<<d, at[d]>>]
            BY <1>3, <4>2, <5>3
          <6>2. Common(at[d]) = Ids
            BY <5>3
          <6>3. Common(at'[d]) = result[<<d, at[d]>>]
            BY <4>3, <5>2, <6>2
          <6>. QED BY <3>2, <6>1, <6>3
        <5>4. CASE at[d] # 1
          <6>1. anomalies'[d] = anomalies[d] \cap result[<<d, at[d]>>]
            BY <1>3, <4>2, <5>4
          <6>2. at[d] > 1
            BY <4>3, <5>4
          <6>3. anomalies[d] = Common(at[d])
            BY <6>2 DEF DetectionInv, VerdictInv
          <6>4. anomalies'[d] = Common(at'[d])
            BY <4>3, <5>2, <6>1, <6>3
          <6>. QED BY <3>2, <6>4
        <5>. QED BY <5>3, <5>4
      <4>7. ~mStatus[DetectorOf(d)] /\ \A i \in DOMAIN output : output[i][1] # d
        <5>1. at[d] # Iterations + 1
          BY <4>3, DetectionAssumption
        <5>. QED BY <5>1 DEF DetectionInv, VerdictInv
      <4>8. \A e \in Window \ {d} : at'[e] = at[e] /\ anomalies'[e] = anomalies[e]
        BY <1>3, <4>2
      <4>9. \A i \in DOMAIN output : output[i][1] \in Window
        BY <1>3
      <4>. QED
        BY <3>2, <4>5, <4>6, <4>7, <4>8, <4>9 DEF DetectionInv, VerdictInv
    <3>. QED BY <3>1, <3>3, <3>4
  <2>6. CASE PrintPiece(w)
    <3>1. PICK d \in Window : /\ at[d] = Iterations + 1
                              /\ output' = Append(output, <<d, Pieces[Printed(d) + 1]>>)
      BY <2>6 DEF PrintPiece
    <3>2. UNCHANGED <<mStatus, computed, result, at, anomalies>>
      BY <2>6 DEF PrintPiece, doneVars, engineVars
    <3>3. \A i \in DOMAIN output' : output'[i][1] = d \/ (i \in DOMAIN output /\ output'[i] = output[i])
      BY <1>3, <3>1, AppendProperties
    <3>. QED BY <3>1, <3>2, <3>3 DEF DetectionInv, VerdictInv
  <2>. QED BY <1>6, <2>1, <2>2, <2>3, <2>4, <2>5, <2>6 DEF WorkerStep
<1>7. CASE AddNull \/ EndProcess \/ Gone \/ UNCHANGED vars
  BY <1>2, <1>7 DEF AddNull, EndProcess, Gone, vars, doneVars
<1>. QED BY <1>5, <1>6, <1>7 DEF Next

\* Once a flag is raised its mutex is only released and its waiters only leave.
LEMMA RaisedIsLeft ==
  ASSUME DetectionInv, [Next]_vars, NEW j \in Job, mStatus[j]
  PROVE  /\ mGuard'[j] = mGuard[j] \/ mGuard'[j] = NULL
         /\ \A t \in Thread : waiting'[t] = j => waiting[t] = j
<1> USE DEF DetectionInv, TypeOK, Done!SignalerTypeOK
<1>1. j # NULL /\ Main \in Thread /\ Workers \subseteq Thread
  BY JobPairs DEF Thread
<1>2. CASE DeleteEngines \/ DeleteDetector
  BY <1>2, DeleteKeeps
<1>3. CASE WaitForDone
  BY <1>1, <1>3 DEF WaitForDone, Done!Look, Done!Sleep, Done!Pass, Done!Wake, Done!signalerVars
<1>4. ASSUME NEW w \in Workers, WorkerStep(w)
      PROVE  /\ mGuard'[j] = mGuard[j] \/ mGuard'[j] = NULL
             /\ \A t \in Thread : waiting'[t] = j => waiting[t] = j
  <2>1. CASE WaitForEngine(w)
    BY <1>1, <2>1 DEF WaitForEngine, Done!Look, Done!Sleep, Done!Pass, Done!Wake, Done!signalerVars
  <2>2. CASE EngineDone(w) \/ DetectorDone(w) \/ ReturnJob(w)
    BY <1>1, <2>2 DEF EngineDone, DetectorDone, ReturnJob, Done!Raise, Done!Release
  <2>. QED
    BY <1>4, <2>1, <2>2 DEF WorkerStep, TakeJob, Compute, CallExit, PrintPiece, doneVars
<1>. QED
  BY <1>2, <1>3, <1>4
  DEF Next, MainStep, StartPool, Capture, EndOfCapture, QueueJob, PostJob, Reap, EndOfDrain, Leave,
      AddNull, EndProcess, Gone, vars, doneVars

\* What main frees is done with; what it allocates has not been handed over.
LEMMA LiveKeeps ==
  ASSUME DetectionInv, [Next]_vars
  PROVE  LiveInv'
<1>1. \A j \in Job : mStatus[j] => mStatus'[j]
  BY StatusStays DEF DetectionInv
<1>2. ASSUME Handed' \ live' \subseteq Handed \ live PROVE LiveInv'
  BY <1>1, <1>2, RaisedIsLeft DEF DetectionInv, LiveInv, Handed
<1>3. CASE QueueJob
  <2>1. Handed' = Handed \cup {NextJob} /\ live' = live \cup {NextJob}
    BY <1>3, HandedGrows DEF DetectionInv, QueueJob
  <2>. QED BY <1>2, <2>1
<1>4. CASE ~QueueJob /\ live \subseteq live'
  BY <1>2, <1>4, HandedStays DEF DetectionInv
<1>5. CASE DeleteEngines \/ DeleteDetector
  <2> DEFINE d == Head(detectors)
  <2>1. PICK S \in SUBSET Job : /\ S = EnginesOf(d) \/ S = {DetectorOf(d)}
                                /\ live' = live \ S
                                /\ \A j \in S : mStatus[j] /\ mGuard[j] = NULL
    BY <1>5, DeleteKeeps
  <2>2. mStatus' = mStatus /\ mGuard' = mGuard /\ waiting' = waiting /\ d \in Window
    BY <1>5, DeleteKeeps
  <2>3. Handed' = Handed /\ mStatus[DetectorOf(d)] /\ mpc # "drain"
    BY <1>5, HandedStays DEF DetectionInv, MainInv, DeleteEngines, DeleteDetector, QueueJob
  <2>4. at[d] = Iterations + 1
    BY <2>2, <2>3 DEF DetectionInv, VerdictInv
  <2>5. ASSUME NEW t \in Thread, waiting[t] \in S PROVE FALSE
    <3>1. waiting[t] # NULL
      BY <2>5, JobPairs
    <3>2. t \in Workers
      BY <2>3, <3>1 DEF Thread, DetectionInv, MainInv
    <3>3. PICK e \in Window : at[e] \in 1..Iterations /\ waiting[t] = <<e, at[e]>>
      BY <3>1, <3>2 DEF DetectionInv, FlagInv, Awaited
    <3>4. e # d /\ at[e] # 0
      BY <2>4, <3>3, DetectionAssumption
    <3>. QED BY <2>1, <2>5, <3>3, <3>4 DEF EnginesOf, DetectorOf
  <2>. QED BY <2>1, <2>2, <2>3, <2>5 DEF DetectionInv, LiveInv
<1>. QED
  BY <1>3, <1>4, <1>5
  DEF Next, MainStep, StartPool, Capture, EndOfCapture, PostJob, Reap, WaitForDone, EndOfDrain, Leave,
      WorkerStep, TakeJob, ReturnJob, Compute, EngineDone, CallExit, WaitForEngine, PrintPiece,
      DetectorDone, AddNull, EndProcess, Gone, vars

\* Main drops a detector from its list only when that is done.
LEMMA KeptKeeps ==
  ASSUME DetectionInv, [Next]_vars
  PROVE  KeptInv'
<1>1. \A d \in Window : mStatus[DetectorOf(d)] => mStatus'[DetectorOf(d)]
  BY StatusStays, JobPairs DEF DetectionInv
<1>2. /\ made \in 0..Windows /\ Windows \in Nat /\ detectors \in Seq(Window)
      /\ 1..made \subseteq Window
  BY DetectionAssumption DEF DetectionInv, TypeOK, Window
<1>3. ASSUME UNCHANGED <<made, detectors>>, mpc' = "build" <=> mpc = "build",
             live' \subseteq live \/ (mpc = "build" /\ live' \subseteq live \cup {NextJob})
      PROVE  KeptInv'
  <2>1. ASSUME NEW d \in 1..made, Freed(d) PROVE Freed(d)' \/ (mpc = "build" /\ d = made)
    BY <1>2, <1>3, <2>1 DEF Freed, NextJob, DetectorOf
  <2>2. \A d \in 1..made : \/ mStatus'[DetectorOf(d)] /\ Freed(d)'
                           \/ \E i \in DOMAIN detectors : detectors[i] = d
                           \/ mpc = "build" /\ d = made
    BY <1>1, <1>2, <2>1 DEF DetectionInv, KeptInv
  <2>. QED BY <1>3, <2>2 DEF DetectionInv, KeptInv
<1>4. CASE Capture
  <2>1. made' = made + 1 /\ detectors' = detectors /\ mpc # "build" /\ mpc' = "build" /\ made + 1 \in Window
    BY <1>2, <1>4 DEF Capture, Window
  <2>2. 1..made' = 1..made \cup {made'} /\ made' \notin 1..made
    BY <1>2, <2>1
  <2>3. \A i \in DOMAIN detectors : detectors[i] \in 1..made
    BY DEF DetectionInv, KeptInv
  <2>4. \A d \in 1..made : \/ mStatus'[DetectorOf(d)] /\ Freed(d)'
                           \/ \E i \in DOMAIN detectors : detectors[i] = d
    <3>1. \A d \in 1..made : Freed(d) => Freed(d)'
      BY <1>2, <1>4, <2>1 DEF Capture, Freed, DetectorOf
    <3>. QED BY <1>1, <1>2, <2>1, <3>1 DEF DetectionInv, KeptInv
  <2>. QED BY <2>1, <2>2, <2>3, <2>4 DEF KeptInv
<1>5. CASE PostJob
  <2>1. CASE built < Iterations
    <3>1. UNCHANGED <<made, detectors, mpc, live>>
      BY <1>5, <2>1 DEF PostJob
    <3>. QED BY <1>3, <3>1
  <2>2. CASE ~(built < Iterations)
    <3>1. mpc = "build" /\ mpc' # "build" /\ detectors' = Append(detectors, made) /\ made' = made
          /\ live' = live
      BY <1>5, <2>2 DEF PostJob
    <3>2. made \in Window
      BY <3>1 DEF DetectionInv, MainInv
    <3>3. /\ DOMAIN detectors' = DOMAIN detectors \cup {Len(detectors) + 1}
          /\ \A i \in DOMAIN detectors : detectors'[i] = detectors[i]
          /\ detectors'[Len(detectors) + 1] = made
      BY <1>2, <3>1, <3>2, Pushed
    <3>4. made \in 1..made
      BY <3>2 DEF Window
    <3>5. \A i \in DOMAIN detectors' : detectors'[i] \in 1..made
      BY <3>3, <3>4 DEF DetectionInv, KeptInv
    <3>6. \A d \in 1..made : \/ mStatus'[DetectorOf(d)] /\ Freed(d)'
                             \/ \E i \in DOMAIN detectors' : detectors'[i] = d
      BY <1>1, <1>2, <3>1, <3>3 DEF DetectionInv, KeptInv, Freed
    <3>. QED BY <3>1, <3>5, <3>6 DEF KeptInv
  <2>. QED BY <2>1, <2>2
<1>6. CASE DeleteDetector
  <2>1. /\ detectors # <<>> /\ mStatus[DetectorOf(Head(detectors))]
        /\ detectors' = Tail(detectors) /\ made' = made /\ mpc # "build" /\ mpc' # "build"
    BY <1>6 DEF DeleteDetector, DetectionInv, MainInv
  <2>2. /\ Head(detectors) = detectors[1]
        /\ \A i \in DOMAIN detectors : i # 1 => i - 1 \in DOMAIN Tail(detectors)
                                                /\ Tail(detectors)[i - 1] = detectors[i]
        /\ \A i \in DOMAIN Tail(detectors) : i + 1 \in DOMAIN detectors
                                             /\ Tail(detectors)[i] = detectors[i + 1]
    BY <1>2, <2>1, HeadTailProperties
  <2>3. ASSUME NEW d \in 1..made, d = Head(detectors) PROVE Freed(d)'
    <3>1. EnginesOf(d) \cap live = {} /\ live' = live \ {DetectorOf(d)}
      BY <1>6, <2>3 DEF DeleteDetector, DetectionInv, MainInv
    <3>. QED BY <3>1 DEF Freed, Job, Engine, EnginesOf, DetectorOf
  <2>4. \A d \in 1..made : Freed(d) => Freed(d)'
    BY <1>6, <2>1 DEF Freed, DeleteDetector
  <2>5. ASSUME NEW d \in 1..made, NEW i \in DOMAIN detectors, detectors[i] = d
        PROVE  \/ mStatus'[DetectorOf(d)] /\ Freed(d)'
               \/ \E k \in DOMAIN detectors' : detectors'[k] = d
    <3>1. CASE i = 1
      BY <1>1, <1>2, <2>1, <2>2, <2>5, <2>3, <3>1
    <3>2. CASE i # 1
      BY <1>2, <2>1, <2>2, <2>5, <3>2
    <3>. QED BY <3>1, <3>2
  <2>6. \A d \in 1..made : \/ mStatus'[DetectorOf(d)] /\ Freed(d)'
                           \/ \E k \in DOMAIN detectors' : detectors'[k] = d
    BY <1>1, <1>2, <2>1, <2>5, <2>4 DEF DetectionInv, KeptInv
  <2>7. \A i \in DOMAIN detectors' : detectors'[i] \in 1..made
    <3>1. \A i \in DOMAIN detectors : detectors[i] \in 1..made
      BY DEF DetectionInv, KeptInv
    <3>. QED BY <2>1, <2>2, <3>1
  <2>. QED BY <2>1, <2>6, <2>7 DEF KeptInv
<1>7. CASE MainStep /\ ~(Capture \/ PostJob \/ DeleteDetector)
  BY <1>3, <1>7
  DEF MainStep, StartPool, EndOfCapture, QueueJob, Reap, WaitForDone, EndOfDrain, DeleteEngines, Leave,
      mainVars
<1>8. CASE \E w \in Workers : WorkerStep(w)
  <2>1. UNCHANGED <<mainVars, live>>
    BY <1>8
    DEF WorkerStep, TakeJob, ReturnJob, Compute, EngineDone, CallExit, WaitForEngine, PrintPiece,
        DetectorDone
  <2>. QED BY <1>3, <2>1 DEF mainVars
<1>9. CASE AddNull \/ EndProcess \/ Gone \/ UNCHANGED vars
  BY <1>3, <1>9 DEF AddNull, EndProcess, Gone, vars, mainVars
<1>. QED BY <1>4, <1>5, <1>6, <1>7, <1>8, <1>9 DEF Next

-----------------------------------------------------------------------------
(* The theorems *)

LEMMA InitiallyHolds == Init => DetectionInv
<1> SUFFICES ASSUME Init PROVE DetectionInv
  OBVIOUS
<1>1. TypeOK
  BY InitiallyTyped
<1>2. Main \in Thread /\ \A j \in Job : j[1] \in Window
  BY JobPairs DEF Thread
<1>3. Handed = {}
  <2>1. \A j \in Job : ~(j[1] < made) /\ j[1] # made
    BY <1>2, DetectionAssumption DEF Init, Window
  <2>. QED BY <2>1 DEF Handed
<1>4. MainInv
  BY <1>2, DetectionAssumption DEF MainInv, Init, Pool!Init, Done!SignalerInit, Thread
<1>5. QueueInv
  BY DEF QueueInv, Init, Pool!Init
<1>6. FlagInv
  BY DEF FlagInv, Init, Done!SignalerInit, Thread
<1>7. VerdictInv
  BY JobPairs, DetectionAssumption DEF VerdictInv, Init, Done!SignalerInit
<1>8. LiveInv /\ KeptInv
  BY <1>3 DEF LiveInv, KeptInv, Init
<1>. QED BY <1>1, <1>4, <1>5, <1>6, <1>7, <1>8 DEF DetectionInv

\* A job is handed over once, run by one worker, raised by it and read by those
\* who may; what main frees is no longer in use (ThreadPool, Signaler, Engine
\* and Detector together).
THEOREM DetectionInvariant == Spec => []DetectionInv
<1>1. DetectionInv /\ [Next]_vars => DetectionInv'
  <2> SUFFICES ASSUME DetectionInv, [Next]_vars PROVE DetectionInv'
    OBVIOUS
  <2>1. TypeOK'
    BY Typing DEF DetectionInv
  <2>2. mStatus' \in [Job -> BOOLEAN]
    BY <2>1 DEF TypeOK, Done!SignalerTypeOK
  <2>3. MainInv' /\ QueueInv'
    BY MainKeeps, QueueKeeps DEF DetectionInv
  <2>4. FlagInv' /\ VerdictInv' /\ LiveInv' /\ KeptInv'
    BY <2>2, FlagKeeps, VerdictKeeps, LiveKeeps, KeptKeeps
  <2>. QED BY <2>1, <2>3, <2>4 DEF DetectionInv
<1>. QED BY <1>1, InitiallyHolds, PTL DEF Spec

\* No engine or detector is freed while it is queued, executed or waited for, or
\* while a thread holds the mutex of its flag: done() may be read without the
\* mutex, because ~Signaler takes it before the memory goes.
THEOREM NothingUsedAfterFree == Spec => []NoUseAfterFree
<1>1. DetectionInv => NoUseAfterFree
  <2> SUFFICES ASSUME DetectionInv, NEW j \in Job, j \notin live,
                      \/ j \in QueuedJobs
                      \/ \E w \in Workers : job[w] = j
                      \/ mGuard[j] # NULL
                      \/ \E t \in Thread : waiting[t] = j
               PROVE  FALSE
    BY DEF NoUseAfterFree
  <2>1. j # NULL /\ NULL \notin Thread /\ Workers \subseteq Thread
    BY JobPairs DEF Thread
  <2>2. j \in Handed
    <3>1. CASE j \in QueuedJobs \/ \E w \in Workers : job[w] = j
      BY <2>1, <3>1 DEF DetectionInv, QueueInv, QueuedJobs
    <3>2. CASE waiting[Main] = j
      <4>1. mpc = "drain" /\ detectors # <<>> /\ j = DetectorOf(Head(detectors))
        BY <2>1, <3>2 DEF DetectionInv, MainInv
      <4>2. Head(detectors) \in 1..made
        BY <4>1, HeadTailProperties DEF DetectionInv, KeptInv, TypeOK
      <4>. QED BY <4>1, <4>2 DEF Handed, DetectorOf, DetectionInv, TypeOK
    <3>3. ASSUME NEW w \in Workers, waiting[w] = j PROVE j \in Handed
      <4>1. PICK d \in Window : job[w] = DetectorOf(d) /\ at[d] \in 1..Iterations /\ j = <<d, at[d]>>
        BY <2>1, <3>3 DEF DetectionInv, FlagInv, Awaited
      <4>2. DetectorOf(d) \in Handed
        BY <4>1, JobPairs DEF DetectionInv, QueueInv
      <4>3. built \in Nat /\ Iterations \in Nat /\ at[d] \in Nat
        BY <4>1, DetectionAssumption DEF DetectionInv, TypeOK
      <4>. QED BY <4>1, <4>2, <4>3 DEF Handed, NextJob, DetectorOf, DetectionInv, TypeOK
    <3>4. CASE mGuard[j] # NULL
      <4>1. (\E w \in Workers : job[w] = j) \/ (mGuard[j] \in Thread /\ waiting[mGuard[j]] = j)
        BY <3>4 DEF DetectionInv, FlagInv, TypeOK, Done!SignalerTypeOK
      <4>. QED BY <3>1, <3>2, <3>3, <4>1 DEF Thread
    <3>. QED BY <3>1, <3>2, <3>3, <3>4 DEF Thread
  <2>3. mStatus[j] /\ mGuard[j] = NULL /\ \A t \in Thread : waiting[t] # j
    BY <2>2 DEF DetectionInv, LiveInv
  <2>. QED BY <2>1, <2>3 DEF DetectionInv, FlagInv
<1>. QED BY <1>1, DetectionInvariant, PTL

\* What a detector reports is what every one of its engines found.
THEOREM VerdictsAreIntersections == Spec => []VerdictIsIntersection
<1>1. DetectionInv => VerdictIsIntersection
  <2> SUFFICES ASSUME DetectionInv, NEW d \in Window, mStatus[DetectorOf(d)]
               PROVE  anomalies[d] = {id \in Ids : \A e \in EnginesOf(d) : id \in result[e]}
    BY DEF VerdictIsIntersection
  <2>1. at[d] = Iterations + 1 /\ Iterations \in Nat \ {0}
    BY DetectionAssumption DEF DetectionInv, VerdictInv
  <2>2. anomalies[d] = {id \in Ids : \A i \in 1..Iterations : id \in result[<<d, i>>]}
    BY <2>1 DEF DetectionInv, VerdictInv
  <2>. QED BY <2>2 DEF EnginesOf
<1>. QED BY <1>1, DetectionInvariant, PTL

\* A window one of whose engines gave up is never reported or taken for done.
THEOREM AbortsAreSilent == Spec => []AbortedWindowNeverReported
<1>1. DetectionInv => AbortedWindowNeverReported
  <2> SUFFICES ASSUME DetectionInv, NEW d \in Window, EnginesOf(d) \cap Unfilled # {}
               PROVE  ~mStatus[DetectorOf(d)] /\ Printed(d) = 0
    BY DEF AbortedWindowNeverReported
  <2>1. PICK i \in 1..Iterations : <<d, i>> \in Unfilled /\ <<d, i>> \in Engine
    BY JobPairs DEF EnginesOf
  <2>2. ~mStatus[<<d, i>>]
    BY <2>1 DEF DetectionInv, VerdictInv
  <2>3. at[d] # Iterations + 1
    BY <2>2, DetectionAssumption DEF DetectionInv, VerdictInv
  <2>4. {k \in DOMAIN output : output[k][1] = d} = {}
    BY <2>3 DEF DetectionInv, VerdictInv
  <2>. QED BY <2>3, <2>4, FS_EmptySet DEF Printed, DetectionInv, VerdictInv
<1>. QED BY <1>1, DetectionInvariant, PTL

\* When main() destroys the pool nothing is queued and no thread has a job: every
\* window has been waited for, and freeing its detector waited for the worker.
THEOREM PoolIdleWhenDestroyed == Spec => []NothingLeftBehind
<1>1. DetectionInv => NothingLeftBehind
  <2> SUFFICES ASSUME DetectionInv, stopper = Main, NEW j \in Handed PROVE j \notin QueuedJobs /\ \A w \in Workers : job[w] # j
    BY JobPairs DEF NothingLeftBehind, DetectionInv, QueueInv, QueuedJobs
  <2>1. mpc = "exit" /\ detectors = <<>>
    BY DEF DetectionInv, MainInv
  <2>2. j \in Job /\ j[1] \in 1..made
    BY JobPairs DEF Handed, DetectionInv, TypeOK, Window
  <2>3. j \notin live
    BY <2>1, <2>2 DEF DetectionInv, KeptInv, Freed
  <2>4. mStatus[j] /\ mGuard[j] = NULL
    BY <2>3 DEF DetectionInv, LiveInv
  <2>. QED BY <2>2, <2>4, DetectionAssumption DEF DetectionInv, FlagInv, Thread
<1>. QED BY <1>1, DetectionInvariant, PTL

\* When every sketch is filled, each window captured is analysed once, and the
\* program ends only when all are.
THEOREM ImplementsAnalysis ==
  ASSUME Unfilled = {}
  PROVE  Spec => Analysis!Init /\ [][Analysis!Next]_(Analysis!vars)
<1> DEFINE Analysed == {d \in Window : mStatus[DetectorOf(d)]}
<1>1. Init => Analysis!Init
  BY JobPairs DEF Init, Analysis!Init, Done!SignalerInit
<1>2. DetectionInv /\ [Next]_vars => [Analysis!Next]_(Analysis!vars)
  <2> SUFFICES ASSUME DetectionInv, [Next]_vars
               PROVE  Analysis!Next \/ (UNCHANGED <<made, exited>> /\ Analysed' = Analysed)
    BY DEF Analysis!vars
  <2>1. CASE Capture /\ ~exited
    BY <2>1 DEF Capture, Analysis!Next, Analysis!Capture, doneVars, exitVars
  <2>2. ASSUME NEW w \in Workers, DetectorDone(w), ~exited PROVE Analysis!Next
    <3>1. PICK d \in Window : job[w] = DetectorOf(d) /\ ~mStatus[DetectorOf(d)]
                              /\ mStatus' = [mStatus EXCEPT ![DetectorOf(d)] = TRUE]
      BY <2>2 DEF DetectorDone, Done!Raise
    <3>2. d \in 1..made
      <4>1. DetectorOf(d) \in Handed
        BY <3>1, JobPairs DEF DetectionInv, QueueInv
      <4>. QED BY <4>1 DEF Handed, DetectorOf, DetectionInv, TypeOK, Window
    <3>3. Analysed' = Analysed \cup {d} /\ d \notin Analysed
      BY <3>1, JobPairs DEF DetectorOf, DetectionInv, TypeOK, Done!SignalerTypeOK
    <3>4. UNCHANGED <<made, exited>>
      BY <2>2 DEF DetectorDone, mainVars, exitVars
    <3>. QED BY <2>2, <3>2, <3>3, <3>4 DEF Analysis!Next, Analysis!Analyse, Window
  <2>3. CASE EndProcess /\ ~exited
    <3>1. stopper = Main
      BY <2>3 DEF EndProcess, Pool!Join, Thread, DetectionInv, MainInv, TypeOK, Pool!TypeOK
    <3>2. mpc = "exit" /\ detectors = <<>>
      BY <3>1 DEF DetectionInv, MainInv
    <3>3. 1..made \subseteq Analysed
      <4>1. 1..made \subseteq Window
        BY DetectionAssumption DEF DetectionInv, TypeOK, Window
      <4>2. \A d \in 1..made : mStatus[DetectorOf(d)]
        BY <3>2 DEF DetectionInv, KeptInv
      <4>. QED BY <4>1, <4>2
    <3>4. Analysed \subseteq 1..made
      <4>1. \A d \in Analysed : DetectorOf(d) \in Handed
        BY JobPairs DEF DetectionInv, FlagInv
      <4>2. \A d \in Analysed : d < made \/ d = made
        BY <4>1 DEF Handed, DetectorOf
      <4>. QED BY <4>2 DEF DetectionInv, TypeOK, Window
    <3>5. UNCHANGED <<made, mStatus>> /\ exited'
      BY <2>3 DEF EndProcess, mainVars, doneVars
    <3>. QED BY <2>3, <3>3, <3>4, <3>5 DEF Analysis!Next, Analysis!Leave
  <2>4. ASSUME NEW w \in Workers, EngineDone(w)
        PROVE  UNCHANGED <<made, exited>> /\ Analysed' = Analysed
    <3>1. job[w] \in Engine /\ mStatus' = [mStatus EXCEPT ![job[w]] = TRUE]
      BY <2>4 DEF EngineDone, Done!Raise, DetectionInv, TypeOK
    <3>. QED
      BY <2>4, <3>1, JobPairs
      DEF EngineDone, mainVars, exitVars, DetectionInv, TypeOK, Done!SignalerTypeOK
  <2>5. CASE DeleteEngines \/ DeleteDetector
    BY <2>5, DeleteKeeps DEF DeleteEngines, DeleteDetector, exitVars
  <2>6. CASE MainStep /\ ~(Capture \/ DeleteEngines \/ DeleteDetector)
    BY <2>6
    DEF MainStep, StartPool, EndOfCapture, QueueJob, PostJob, Reap, WaitForDone, EndOfDrain, Leave,
        doneVars, mainVars, exitVars, Done!Look, Done!Sleep, Done!Pass, Done!Wake, Done!signalerVars
  <2>7. ASSUME NEW w \in Workers, WorkerStep(w), ~EngineDone(w), ~DetectorDone(w)
        PROVE  UNCHANGED <<made, exited>> /\ Analysed' = Analysed
    BY <2>7
    DEF WorkerStep, TakeJob, ReturnJob, Compute, CallExit, WaitForEngine, PrintPiece, doneVars,
        mainVars, exitVars, Done!Look, Done!Sleep, Done!Pass, Done!Wake, Done!Release, Done!signalerVars
  <2>8. CASE AddNull \/ Gone \/ UNCHANGED vars
    BY <2>8 DEF AddNull, Gone, vars, doneVars, mainVars, exitVars
  <2>. QED BY <2>1, <2>2, <2>3, <2>4, <2>5, <2>6, <2>7, <2>8 DEF Next
<1>. QED BY <1>1, <1>2, DetectionInvariant, PTL DEF Spec
=============================================================================
