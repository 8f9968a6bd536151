----------------------------- MODULE Detection ------------------------------
(***************************************************************************)
(* The QLAD-flow analyser at run time (main.cpp, Detector.h, Engine.h over *)
(* ThreadPool and Signaler).  For every time window the main thread builds *)
(* a detector; its constructor queues one engine per hash function, and    *)
(* the detector itself is queued behind them.  An engine works out the     *)
(* identifiers it finds anomalous and raises its done flag; a detector     *)
(* occupies a worker while it waits for its engines in turn, intersects    *)
(* their results, prints a report and raises its own flag, upon which the  *)
(* main thread deletes it with its engines.                                *)
(***************************************************************************)
EXTENDS Integers, Sequences, FiniteSets

CONSTANTS Workers,     \* the threads of the pool
          Main,        \* the thread that runs main()
          Windows,     \* most time windows a capture has
          Iterations,  \* opt.hash_count, the engines of a detector
          Ids,         \* the traffic identifiers of the captured packets
          Unfilled,    \* engines whose hash function leaves a sketch empty
          NULL

Window == 1..Windows
Engine == Window \X (1..Iterations)
DetectorOf(d) == <<d, 0>>
EnginesOf(d) == {d} \X (1..Iterations)
Job == Engine \cup {DetectorOf(d) : d \in Window}
Thread == Workers \cup {Main}

ASSUME DetectionAssumption ==
  /\ IsFiniteSet(Workers) /\ Workers # {} /\ Main \notin Workers
  /\ Windows \in Nat /\ Iterations \in Nat \ {0}
  /\ Unfilled \subseteq Engine
  /\ NULL \notin Job \cup Thread

VARIABLES
  mRun, mJobs, mJobCount, loop, job, adding, stopper, nulls, stopped,
  mStatus, mGuard, waiting, asleep,
  mpc,        \* where the main thread stands
  made,       \* windows captured so far; made is the one being built
  built,      \* jobs of window made that have been queued
  detectors,  \* main's list of detectors, oldest first
  live,       \* the engine and detector objects that exist
  computed,   \* engines that have filled Engine::mAnomalousIds
  result,     \* Engine::mAnomalousIds
  at,         \* the engine Detector::run waits for or reads next
  anomalies,  \* the intersection Detector::run has computed so far
  output,     \* the pieces of reports on the standard output
  exiting,    \* workers inside exit(1)
  exited      \* the process is gone

poolVars == <<mRun, mJobs, mJobCount, loop, job, adding, stopper, nulls,
              stopped>>
doneVars == <<mStatus, mGuard, waiting, asleep>>
mainVars == <<mpc, made, built, detectors>>
engineVars == <<computed, result>>
detectorVars == <<at, anomalies, output>>
exitVars == <<exiting, exited>>
vars == <<poolVars, doneVars, mainVars, engineVars, detectorVars, live,
          exitVars>>

Pool == INSTANCE ThreadPool
          WITH Threads <- Workers, Clients <- Thread, Jobs <- Job
Done == INSTANCE Signaler
          WITH Signals <- Job, Threads <- Thread, Spurious <- FALSE

Pieces == <<"From", "To", "found">>

MainState == {"start", "capture", "build", "reap", "reaped", "reapFree",
              "drain", "drained", "drainFree", "exit"}

TypeOK ==
  /\ Pool!TypeOK
  /\ Done!SignalerTypeOK
  /\ mpc \in MainState
  /\ made \in 0..Windows
  /\ built \in 0..Iterations
  /\ detectors \in Seq(Window)
  /\ live \in SUBSET Job
  /\ computed \in SUBSET Engine
  /\ result \in [Engine -> SUBSET Ids]
  /\ at \in [Window -> 1..(Iterations + 1)]
  /\ anomalies \in [Window -> SUBSET Ids]
  /\ output \in Seq(Window \X {"From", "To", "found"})
  /\ exiting \in SUBSET Workers
  /\ exited \in BOOLEAN

Init ==
  /\ Pool!Init
  /\ Done!SignalerInit
  /\ mpc = "start"
  /\ made = 0 /\ built = 0
  /\ detectors = <<>>
  /\ live = {}
  /\ computed = {}
  /\ result = [e \in Engine |-> {}]
  /\ at = [d \in Window |-> 1]
  /\ anomalies = [d \in Window |-> {}]
  /\ output = <<>>
  /\ exiting = {} /\ exited = FALSE

-----------------------------------------------------------------------------
(* The main thread *)

StartPool ==
  /\ mpc = "start"
  /\ Pool!Run
  /\ mpc' = "capture"
  /\ UNCHANGED <<doneVars, made, built, detectors, live, engineVars,
                 detectorVars, exitVars>>

\* canCapture(): the packets of one more window are stored, and new Detector
\* begins.
Capture ==
  /\ mpc = "capture" /\ made < Windows
  /\ made' = made + 1
  /\ live' = live \cup {DetectorOf(made + 1)}
  /\ mpc' = "build"
  /\ UNCHANGED <<poolVars, doneVars, built, detectors, engineVars,
                 detectorVars, exitVars>>

EndOfCapture ==
  /\ mpc = "capture"
  /\ mpc' = "drain"
  /\ UNCHANGED <<poolVars, doneVars, made, built, detectors, live, engineVars,
                 detectorVars, exitVars>>

\* The engines are queued one by one from the detector's constructor, the
\* detector after them.
NextJob == IF built < Iterations THEN <<made, built + 1>> ELSE DetectorOf(made)

QueueJob ==
  /\ mpc = "build"
  /\ Pool!AddJob(Main, NextJob)
  /\ live' = live \cup {NextJob}
  /\ UNCHANGED <<doneVars, mainVars, engineVars, detectorVars, exitVars>>

PostJob ==
  /\ mpc = "build"
  /\ Pool!Up(Main)
  /\ IF built < Iterations
       THEN built' = built + 1 /\ UNCHANGED <<mpc, detectors>>
       ELSE /\ built' = 0
            /\ detectors' = Append(detectors, made)
            /\ mpc' = IF made = 1 THEN "capture" ELSE "reap"
  /\ UNCHANGED <<doneVars, made, live, engineVars, detectorVars, exitVars>>

\* while (!detectors.empty() && front()->done()): the flag is read without its
\* mutex.
Reap ==
  /\ mpc = "reap"
  /\ mpc' = IF detectors # <<>> /\ mStatus[DetectorOf(Head(detectors))]
              THEN "reaped" ELSE "capture"
  /\ UNCHANGED <<poolVars, doneVars, made, built, detectors, live, engineVars,
                 detectorVars, exitVars>>

\* front()->waitForDone() of the last loop, which ends on an empty list.
WaitForDone ==
  /\ mpc = "drain" /\ detectors # <<>>
  /\ LET d == DetectorOf(Head(detectors)) IN
       \/ (Done!Look(Main, d) \/ Done!Sleep(Main, d)) /\ UNCHANGED mpc
       \/ (Done!Pass(Main, d) \/ Done!Wake(Main, d)) /\ mpc' = "drained"
  /\ UNCHANGED <<poolVars, made, built, detectors, live, engineVars,
                 detectorVars, exitVars>>

\* Faulty variant: no wait for the detectors that are still at work.
EndOfDrainTooSoon ==
  /\ mpc = "drain"
  /\ mpc' = "exit"
  /\ UNCHANGED <<poolVars, doneVars, made, built, detectors, live, engineVars,
                 detectorVars, exitVars>>

EndOfDrain ==
  /\ mpc = "drain" /\ detectors = <<>>
  /\ mpc' = "exit"
  /\ UNCHANGED <<poolVars, doneVars, made, built, detectors, live, engineVars,
                 detectorVars, exitVars>>

\* delete front(): the engines go first, the detector's own flag last.
DeleteEngines ==
  /\ mpc \in {"reaped", "drained"}
  /\ Done!Destroy(EnginesOf(Head(detectors)))
  /\ live' = live \ EnginesOf(Head(detectors))
  /\ mpc' = IF mpc = "reaped" THEN "reapFree" ELSE "drainFree"
  /\ UNCHANGED <<poolVars, made, built, detectors, engineVars, detectorVars,
                 exitVars>>

\* Faulty variant: a destructor of Signaler that does not take its mutex.
DeleteDetectorUnlocked ==
  /\ mpc \in {"reapFree", "drainFree"}
  /\ live' = live \ {DetectorOf(Head(detectors))}
  /\ detectors' = Tail(detectors)
  /\ mpc' = IF mpc = "reapFree" THEN "reap" ELSE "drain"
  /\ UNCHANGED <<poolVars, doneVars, made, built, engineVars, detectorVars,
                 exitVars>>

DeleteDetector ==
  /\ mpc \in {"reapFree", "drainFree"}
  /\ Done!Destroy({DetectorOf(Head(detectors))})
  /\ live' = live \ {DetectorOf(Head(detectors))}
  /\ detectors' = Tail(detectors)
  /\ mpc' = IF mpc = "reapFree" THEN "reap" ELSE "drain"
  /\ UNCHANGED <<poolVars, made, built, engineVars, detectorVars, exitVars>>

\* main() returns; the pool is a static object, so exit() destroys it.
Leave ==
  /\ mpc = "exit"
  /\ Pool!Stop(Main)
  /\ UNCHANGED <<doneVars, mainVars, live, engineVars, detectorVars, exitVars>>

MainStep == \/ StartPool \/ Capture \/ EndOfCapture \/ QueueJob \/ PostJob
            \/ Reap \/ WaitForDone \/ EndOfDrain
            \/ DeleteEngines \/ DeleteDetector \/ Leave

-----------------------------------------------------------------------------
(* The workers: runJobs *)

TakeJob(w) ==
  /\ Pool!Test(w) \/ Pool!Down(w) \/ Pool!Pop(w)
  /\ UNCHANGED <<doneVars, mainVars, live, engineVars, detectorVars, exitVars>>

\* The flag was raised last; the mutex is released and the job returns.
ReturnJob(w) ==
  /\ job[w] \in Job
  /\ Done!Release(w, job[w])
  /\ Pool!Return(w)
  /\ UNCHANGED <<mainVars, live, engineVars, detectorVars, exitVars>>

(* Engine::process *)

Compute(w) ==
  LET e == job[w] IN
    /\ e \in Engine \ (Unfilled \cup computed)
    /\ ~mStatus[e]
    /\ \E anomalous \in SUBSET Ids :
         result' = [result EXCEPT ![e] = anomalous]
    /\ computed' = computed \cup {e}
    /\ UNCHANGED <<poolVars, doneVars, mainVars, live, detectorVars, exitVars>>

\* Faulty variant: the flag is raised first.
EngineDoneTooSoon(w) ==
  /\ job[w] \in Engine
  /\ ~mStatus[job[w]]
  /\ Done!Raise(w, job[w])
  /\ UNCHANGED <<poolVars, mainVars, live, engineVars, detectorVars, exitVars>>

EngineDone(w) ==
  /\ job[w] \in computed
  /\ ~mStatus[job[w]]
  /\ Done!Raise(w, job[w])
  /\ UNCHANGED <<poolVars, mainVars, live, engineVars, detectorVars, exitVars>>

\* "failed to fill all sketches": exit(1) on the worker, which destroys the
\* pool.  A second exit while the first is running is undefined: it ends the
\* process at once, or blocks for good.
CallExit(w) ==
  /\ job[w] \in Unfilled
  /\ w \notin exiting
  /\ exiting' = exiting \cup {w}
  /\ IF stopper = NULL
       THEN Pool!Stop(w) /\ UNCHANGED exited
       ELSE exited' \in BOOLEAN /\ UNCHANGED poolVars
  /\ UNCHANGED <<doneVars, mainVars, live, engineVars, detectorVars>>

(* Detector::run *)

Awaited(d) == <<d, at[d]>>

\* Faulty variant: the last engine's result stands for all.
ReadLastResult(d) ==
  /\ anomalies' = [anomalies EXCEPT ![d] = result[Awaited(d)]]
  /\ at' = [at EXCEPT ![d] = @ + 1]

\* The awaited engine's identifiers are read and intersected.
ReadResult(d) ==
  LET ids == result[Awaited(d)] IN
    /\ anomalies' = [anomalies EXCEPT ![d] = IF at[d] = 1 THEN ids
                                             ELSE @ \cap ids]
    /\ at' = [at EXCEPT ![d] = @ + 1]

WaitForEngine(w) ==
  \E d \in Window :
    /\ job[w] = DetectorOf(d)
    /\ at[d] <= Iterations
    /\ \/ /\ Done!Look(w, Awaited(d)) \/ Done!Sleep(w, Awaited(d))
          /\ UNCHANGED <<at, anomalies>>
       \/ /\ Done!Pass(w, Awaited(d)) \/ Done!Wake(w, Awaited(d))
          /\ ReadResult(d)
    /\ UNCHANGED <<poolVars, mainVars, live, engineVars, output, exitVars>>

Printed(d) == Cardinality({i \in DOMAIN output : output[i][1] = d})

\* One insertion into std::cout after the other, none of them locked together.
PrintPiece(w) ==
  \E d \in Window :
    /\ job[w] = DetectorOf(d)
    /\ at[d] = Iterations + 1
    /\ anomalies[d] # {}
    /\ Printed(d) < Len(Pieces)
    /\ output' = Append(output, <<d, Pieces[Printed(d) + 1]>>)
    /\ UNCHANGED <<poolVars, doneVars, mainVars, live, engineVars, at, anomalies,
                   exitVars>>

DetectorDone(w) ==
  \E d \in Window :
    /\ job[w] = DetectorOf(d)
    /\ at[d] = Iterations + 1
    /\ anomalies[d] = {} \/ Printed(d) = Len(Pieces)
    /\ ~mStatus[DetectorOf(d)]
    /\ Done!Raise(w, DetectorOf(d))
    /\ UNCHANGED <<poolVars, mainVars, live, engineVars, detectorVars, exitVars>>

WorkerStep(w) == \/ TakeJob(w) \/ ReturnJob(w)
                 \/ Compute(w) \/ EngineDone(w) \/ CallExit(w)
                 \/ WaitForEngine(w) \/ PrintPiece(w) \/ DetectorDone(w)

-----------------------------------------------------------------------------
(* Whoever destroys the pool *)

AddNull ==
  /\ stopper # NULL
  /\ Pool!AddNull \/ Pool!Up(stopper)
  /\ UNCHANGED <<doneVars, mainVars, live, engineVars, detectorVars, exitVars>>

\* With the threads joined the process ends.
EndProcess ==
  /\ Pool!Join
  /\ exited' = TRUE
  /\ UNCHANGED <<doneVars, mainVars, live, engineVars, detectorVars, exiting>>

\* The process is gone, and nothing happens any more.
Gone == exited /\ UNCHANGED vars

Next ==
  \/ /\ ~exited
     /\ \/ MainStep
        \/ \E w \in Workers : WorkerStep(w)
        \/ AddNull \/ EndProcess
  \/ Gone

Spec == Init /\ [][Next]_vars

\* The kernel schedules every thread that can take a step; a capture file has
\* an end.
Fairness ==
  /\ WF_vars(~exited /\ MainStep)
  /\ \A w \in Workers : WF_vars(~exited /\ WorkerStep(w))
  /\ WF_vars(~exited /\ AddNull)
  /\ WF_vars(~exited /\ EndProcess)

FairSpec == Spec /\ Fairness

-----------------------------------------------------------------------------
(* Properties *)

QueuedJobs == {mJobs[i] : i \in DOMAIN mJobs} \ {NULL}

\* No engine or detector is freed while it is queued, executed, waited for, or
\* while a thread still holds the mutex of its done flag.  The main thread
\* reads done() without the mutex and deletes at once: only ~Signaler taking
\* that mutex keeps it behind the worker that has just raised the flag.
NoUseAfterFree ==
  \A j \in Job :
    \/ j \in QueuedJobs
    \/ \E w \in Workers : job[w] = j
    \/ mGuard[j] # NULL
    \/ \E t \in Thread : waiting[t] = j
    => j \in live

\* What a detector reports is what every one of its engines found.
VerdictIsIntersection ==
  \A d \in Window : mStatus[DetectorOf(d)] =>
    anomalies[d] = {id \in Ids : \A e \in EnginesOf(d) : id \in result[e]}

\* Only when every window captured has been analysed is the pool destroyed from
\* main(): no engine or detector is queued any more, or executed by a thread that
\* stop() ends.
NothingLeftBehind ==
  stopper = Main => QueuedJobs = {} /\ \A w \in Workers : job[w] \notin Job

\* The program ends when the capture does: every window captured is analysed,
\* and then main() returns through the destruction of the pool.
Analysis == INSTANCE WindowAnalysis
              WITH captured <- made, over <- exited,
                   analysed <- {d \in Window : mStatus[DetectorOf(d)]}
AnalysesEveryWindow == Analysis!Spec
Terminates == <>exited

\* A window one of whose engines gave up is never reported or taken for done,
\* though its other engines may well have finished.
AbortedWindowNeverReported ==
  \A d \in Window : EnginesOf(d) \cap Unfilled # {} =>
    ~mStatus[DetectorOf(d)] /\ Printed(d) = 0

\* Engine.h: "failed to fill all sketches, aborting".  The program is to end
\* when an engine gives up.
AbortEndsProcess == exiting # {} ~> exited
=============================================================================
