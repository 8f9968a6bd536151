---------------------------- MODULE CaptureWindow ----------------------------
(***************************************************************************)
(* How the analyser of QLAD-flow cuts a capture file into windows          *)
(* (CaptureSession, Storage, SparseFlow, and the loop of main.cpp).  The   *)
(* first window spans mWindowSize seconds, every further capture           *)
(* detection_interval seconds; Storage keeps what arrived in the last      *)
(* mWindowSize seconds up to the newest packet, one sparse time series per *)
(* identifier, and each Detector gets a copy.  The packets of the file are *)
(* chosen as they are read, in any order of time.                          *)
(***************************************************************************)
EXTENDS Naturals, Sequences, FiniteSetsExt, Functions

CONSTANTS Ids,        \* identifiers: addresses or query names
          Times,      \* arrival times, in seconds
          Settings,   \* pairs of window size and detection interval
          MaxPackets, \* bound: packets that are stored
          INVALID     \* the identifier of a packet the policy rejects

ASSUME CaptureAssumption ==
  /\ INVALID \notin Ids
  /\ Settings \subseteq (Nat \ {0}) \X (Nat \ {0})
  /\ Times \subseteq Nat
  /\ \A t \in Times, s \in Settings : t >= s[1]

VARIABLES opt,          \* the settings in force
          mpc,          \* where the main thread is
          first,        \* whether the first window is being captured
          eof,          \* feof() of the capture file
          start_time,   \* static in CaptureSession::capture, 0 before the first packet
          flows,        \* Storage, a map from identifiers to SparseFlow
          mAllTraffic,
          mStartTime, mEndTime,
          arrived,      \* history: the packets addPacket stored or ignored
          analysed      \* history: points some detector was given

storageVars == <<flows, mAllTraffic, mStartTime, mEndTime>>
vars == <<opt, mpc, first, eof, start_time, storageVars, arrived, analysed>>

mWindowSize == opt[1]
interval == IF first THEN opt[1] ELSE opt[2]

-----------------------------------------------------------------------------
(* SparseFlow: the points that are not zero, and their sum mCount *)

Flow == [mSeries : [Times -> Nat], mCount : Nat]
EmptyFlow == [mSeries |-> [t \in Times |-> 0], mCount |-> 0]

Points(f) == {t \in Times : f.mSeries[t] > 0}
Sum(f, S) == FoldFunctionOnSet(+, 0, f.mSeries, S)

\* Faulty variant: points out of order are added.
addPointAnyOrder(f, point) ==
  [mSeries |-> [f.mSeries EXCEPT ![point] = @ + 1], mCount |-> f.mCount + 1]

\* "ignore out-of-order packets"
addPoint(f, point) ==
  IF \E t \in Points(f) : t > point
    THEN f
    ELSE [mSeries |-> [f.mSeries EXCEPT ![point] = @ + 1], mCount |-> f.mCount + 1]

deleteBefore(f, time) ==
  IF \A t \in Points(f) : t < time
    THEN EmptyFlow
    ELSE [mSeries |-> [t \in Times |-> IF t < time THEN 0 ELSE f.mSeries[t]],
          mCount |-> f.mCount - Sum(f, {t \in Times : t < time})]

-----------------------------------------------------------------------------

TypeOK ==
  /\ opt \in Settings
  /\ mpc \in {"capture", "sync", "analyse", "done"}
  /\ first \in BOOLEAN /\ eof \in BOOLEAN
  /\ start_time \in Times \cup {0}
  /\ DOMAIN flows \subseteq Ids /\ \A id \in DOMAIN flows : flows[id] \in Flow
  /\ mAllTraffic \in Flow
  /\ mStartTime \in Nat /\ mEndTime \in Times \cup {0}
  /\ arrived \in Seq([id : Ids, time : Times])
  /\ analysed \in SUBSET (Ids \X Times)

Init ==
  /\ opt \in Settings
  /\ mpc = "capture" /\ first = TRUE /\ eof = FALSE
  /\ start_time = 0
  /\ flows = [id \in {} |-> EmptyFlow]
  /\ mAllTraffic = EmptyFlow
  /\ mStartTime = 0 /\ mEndTime = 0
  /\ arrived = <<>> /\ analysed = {}

\* The callback initialises start_time with the first packet it ever sees.
Begin(time) == IF start_time = 0 THEN time ELSE start_time

Reading == mpc = "capture" /\ Len(arrived) < MaxPackets

\* A packet past the interval ends the capture, and "The last packet is lost".
StopCapture(time) ==
  /\ Reading
  /\ time >= Begin(time) + interval
  /\ start_time' = time
  /\ mpc' = "sync"
  /\ UNCHANGED <<opt, first, eof, storageVars, arrived, analysed>>

\* "ignore packet not in chronological order", and a packet without a valid
\* identifier.
IgnorePacket(id, time) ==
  /\ Reading
  /\ time < Begin(time) + interval
  /\ time < Begin(time) \/ id = INVALID
  /\ start_time' = Begin(time)
  /\ UNCHANGED <<opt, mpc, first, eof, storageVars, arrived, analysed>>

\* Faulty variant: the window is one second too short.
WindowStartLate(time) == Max({mStartTime, Max({mEndTime, time}) - mWindowSize + 2})

WindowStart(time) == Max({mStartTime, Max({mEndTime, time}) - mWindowSize + 1})

\* Storage::addPacket: a flow that reaches back before the window is cut.
AddPacket(id, time) ==
  /\ Reading
  /\ time < Begin(time) + interval /\ time >= Begin(time)
  /\ start_time' = Begin(time)
  /\ mEndTime' = Max({mEndTime, time})
  /\ mStartTime' = WindowStart(time)
  /\ LET old == IF id \in DOMAIN flows THEN flows[id] ELSE EmptyFlow
         destination == addPoint(old, time)
     IN  flows' = [i \in DOMAIN flows \cup {id} |->
                     IF i # id THEN flows[i]
                     ELSE IF \E t \in Points(destination) : t < mStartTime'
                            THEN deleteBefore(destination, mStartTime')
                            ELSE destination]
  /\ mAllTraffic' = addPoint(mAllTraffic, time)
  /\ arrived' = Append(arrived, [id |-> id, time |-> time])
  /\ UNCHANGED <<opt, mpc, first, eof, analysed>>

\* pcap_loop meets the end of the file.
EndOfFile ==
  /\ mpc = "capture"
  /\ eof' = TRUE
  /\ mpc' = "sync"
  /\ UNCHANGED <<opt, first, start_time, storageVars, arrived, analysed>>

\* Faulty variant: flows that have become empty stay in the map.
SyncKeepsEmpty ==
  /\ mpc = "sync" /\ ~first
  /\ mpc' = "analyse"
  /\ mAllTraffic' = deleteBefore(mAllTraffic, mStartTime)
  /\ flows' = [id \in DOMAIN flows |-> deleteBefore(flows[id], mStartTime)]
  /\ UNCHANGED <<opt, first, eof, start_time, mStartTime, mEndTime, arrived, analysed>>

\* Storage::sync
Sync ==
  /\ mpc = "sync" /\ ~first
  /\ mpc' = "analyse"
  /\ mAllTraffic' = deleteBefore(mAllTraffic, mStartTime)
  /\ flows' = [id \in {i \in DOMAIN flows :
                         Points(deleteBefore(flows[i], mStartTime)) # {}}
                 |-> deleteBefore(flows[id], mStartTime)]
  /\ UNCHANGED <<opt, first, eof, start_time, mStartTime, mEndTime, arrived, analysed>>

\* The first window is analysed as it has been captured.
NoSync ==
  /\ mpc = "sync" /\ first
  /\ mpc' = "analyse"
  /\ UNCHANGED <<opt, first, eof, start_time, storageVars, arrived, analysed>>

\* A new Detector copies the storage; canCapture() decides how to go on.
Analyse ==
  /\ mpc = "analyse"
  /\ analysed' = analysed \cup
                   UNION {{id} \X Points(flows[id]) : id \in DOMAIN flows}
  /\ first' = FALSE
  /\ mpc' = IF eof THEN "done" ELSE "capture"
  /\ UNCHANGED <<opt, eof, start_time, storageVars, arrived>>

Next ==
  \/ \E time \in Times :
       \/ StopCapture(time)
       \/ \E id \in Ids \cup {INVALID} : IgnorePacket(id, time)
       \/ \E id \in Ids : AddPacket(id, time)
  \/ EndOfFile \/ Sync \/ NoSync \/ Analyse

Spec == Init /\ [][Next]_vars

-----------------------------------------------------------------------------
(* Properties *)

\* Arrived packet i counts unless a later time of its identifier came before.
Counted(i) ==
  \A k \in 1..(i - 1) : arrived[k].id = arrived[i].id
                          => arrived[k].time <= arrived[i].time

\* The number of packets of an identifier that count for one second.
Arrivals(id, t) ==
  Cardinality({i \in DOMAIN arrived : arrived[i] = [id |-> id, time |-> t] /\ Counted(i)})

\* What a detector is given is the sliding window itself: for every identifier
\* exactly the packets of the last window, as if they had been counted afresh,
\* though points were cut flow by flow as packets came.
AnalysedIsWindow ==
  mpc = "analyse" =>
    \A id \in Ids, t \in Times :
      (IF id \in DOMAIN flows THEN flows[id].mSeries[t] ELSE 0)
        = IF t \in mStartTime..mEndTime THEN Arrivals(id, t) ELSE 0

\* The asserts of Sketch::addFlow, which index a vector of the window's size by
\* the times of every flow: each flow has points, the first not before the
\* window and the last within windowSize() of its start.
FlowsFitSketch ==
  mpc = "analyse" =>
    \A id \in DOMAIN flows :
      /\ Points(flows[id]) # {}
      /\ Points(flows[id]) \subseteq mStartTime..mEndTime
      /\ mEndTime - mStartTime + 1 <= mWindowSize

\* When detections are no further apart than the window is long, every packet
\* that was stored is in the window of some detector.
NothingUnseen ==
  mpc = "capture" \/ mpc = "done" =>
    \A i \in DOMAIN arrived :
      Counted(i) /\ opt[2] <= opt[1] /\ (mpc = "done" \/ arrived[i].time < start_time)
        => <<arrived[i].id, arrived[i].time>> \in analysed
=============================================================================
