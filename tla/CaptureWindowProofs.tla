------------------------- MODULE CaptureWindowProofs -------------------------
(***************************************************************************)
(* Proofs about what a detector is given, for every capture file, any      *)
(* number of identifiers and packets, and any settings.                    *)
(*                                                                         *)
(* WindowInv: the asserts of Sketch::addFlow hold: every flow has points   *)
(* and all of them lie in the window.  The first window is not synced, so  *)
(* that for it the invariant says more: nothing in it is older than its    *)
(* first packet, and nothing has to be cut.                                *)
(*                                                                         *)
(* SeriesInv: what a flow holds is the count of the packets accepted.      *)
(*                                                                         *)
(* SeenInv: what has been counted is analysed, or in the window still.     *)
(***************************************************************************)
EXTENDS CaptureWindow, SequenceTheorems, FiniteSetTheorems, TLAPS

LEMMA MaxOfTwo ==
  ASSUME NEW a \in Nat, NEW b \in Int
  PROVE  /\ Max({a, b}) \in {a, b}
         /\ Max({a, b}) >= a /\ Max({a, b}) >= b
<1>1. \E x \in {a, b} : \A y \in {a, b} : x >= y
  <2>1. CASE a >= b BY <2>1
  <2>2. CASE b > a BY <2>2
  <2>. QED BY <2>1, <2>2
<1>. QED BY <1>1 DEF Max

Series == [Times -> Nat]

\* What the two operations of a flow do to its points.
LEMMA AddedPoints ==
  ASSUME NEW f, f.mSeries \in Series, NEW point \in Times
  PROVE  /\ addPoint(f, point).mSeries \in Series
         /\ Points(addPoint(f, point)) \subseteq Points(f) \cup {point}
         /\ Points(f) \subseteq Points(addPoint(f, point))
         /\ Points(addPoint(f, point)) # {}
         /\ (\A t \in Points(f) : t <= point) => point \in Points(addPoint(f, point))
<1>. Times \subseteq Nat
  BY CaptureAssumption
<1>1. CASE \E t \in Points(f) : t > point
  BY <1>1 DEF addPoint, Points, Series
<1>2. CASE ~ \E t \in Points(f) : t > point
  <2>1. addPoint(f, point).mSeries = [f.mSeries EXCEPT ![point] = @ + 1]
    BY <1>2 DEF addPoint
  <2>. QED BY <2>1 DEF Points, Series
<1>. QED BY <1>1, <1>2

LEMMA RemainingPoints ==
  ASSUME NEW f, f.mSeries \in Series, NEW time \in Nat
  PROVE  /\ deleteBefore(f, time).mSeries \in Series
         /\ Points(deleteBefore(f, time)) = {t \in Points(f) : t >= time}
<1>. Times \subseteq Nat
  BY CaptureAssumption
<1>1. CASE \A t \in Points(f) : t < time
  <2>1. deleteBefore(f, time).mSeries = [t \in Times |-> 0]
    BY <1>1 DEF deleteBefore, EmptyFlow
  <2>2. \A t \in Times : deleteBefore(f, time).mSeries[t] = 0
    BY <2>1
  <2>3. ASSUME NEW t \in Times, f.mSeries[t] > 0 PROVE ~ (t >= time)
    <3>1. t \in Points(f)
      BY <2>3 DEF Points
    <3>2. t < time /\ t \in Nat
      BY <1>1, <3>1
    <3>. QED BY <3>2
  <2>4. deleteBefore(f, time).mSeries \in Series
    BY <2>1 DEF Series
  <2>5. \A t \in Times : deleteBefore(f, time).mSeries[t] > 0
                           <=> f.mSeries[t] > 0 /\ t >= time
    BY <2>2, <2>3
  <2>. QED BY <2>4, <2>5 DEF Points
<1>2. CASE ~ \A t \in Points(f) : t < time
  <2>1. deleteBefore(f, time).mSeries
          = [t \in Times |-> IF t < time THEN 0 ELSE f.mSeries[t]]
    BY <1>2 DEF deleteBefore
  <2>2. deleteBefore(f, time).mSeries \in Series
    BY <2>1 DEF Series
  <2>3. \A t \in Times : deleteBefore(f, time).mSeries[t] > 0
                           <=> f.mSeries[t] > 0 /\ t >= time
    <3>. TAKE t \in Times
    <3>1. t \in Nat /\ f.mSeries[t] \in Nat
      BY DEF Series
    <3>2. deleteBefore(f, time).mSeries[t] = IF t < time THEN 0 ELSE f.mSeries[t]
      BY <2>1
    <3>. QED BY <3>1, <3>2
  <2>. QED BY <2>2, <2>3 DEF Points
<1>. QED BY <1>1, <1>2

Typed ==
  /\ opt \in Settings
  /\ mpc \in {"capture", "sync", "analyse", "done"}
  /\ first \in BOOLEAN
  /\ start_time \in Times \cup {0}
  /\ mStartTime \in Nat /\ mEndTime \in Times \cup {0}
  /\ \A id \in DOMAIN flows : flows[id].mSeries \in Series

\* The window is never longer than the settings say, and no flow has a point
\* past its end.
WindowBounded ==
  /\ mStartTime >= mEndTime - mWindowSize + 1
  /\ mStartTime <= mEndTime
  /\ \A id \in DOMAIN flows : \A t \in Points(flows[id]) : t <= mEndTime

\* Every flow has points, and none before time.
PointsFrom(time) ==
  \A id \in DOMAIN flows :
    Points(flows[id]) # {} /\ \A t \in Points(flows[id]) : t >= time

NothingStored == DOMAIN flows = {} /\ mStartTime = 0 /\ mEndTime = 0

\* While the first window is captured, all of it is newer than start_time, and
\* start_time less than the window's length ago.
FirstWindow ==
  first /\ mpc = "capture" =>
    \/ NothingStored
    \/ /\ start_time # 0
       /\ mEndTime < start_time + mWindowSize
       /\ mStartTime <= start_time
       /\ PointsFrom(start_time)

\* What Sync, or the shortness of the first window, has achieved.
Trimmed == mpc = "analyse" \/ (mpc = "sync" /\ first) => PointsFrom(mStartTime)

WindowInv == Typed /\ WindowBounded /\ FirstWindow /\ Trimmed

\* Adding a packet keeps the window and its flows within bounds.
LEMMA AddPacketKeeps ==
  ASSUME WindowInv, NEW id \in Ids, NEW time \in Times, AddPacket(id, time)
  PROVE  WindowInv'
<1>. /\ Times \subseteq Nat /\ \A t \in Times, s \in Settings : t >= s[1]
     /\ opt[1] \in Nat \ {0} /\ opt[2] \in Nat \ {0} /\ opt' = opt
  BY CaptureAssumption DEF WindowInv, Typed, AddPacket
<1> DEFINE old == IF id \in DOMAIN flows THEN flows[id] ELSE EmptyFlow
           added == addPoint(old, time)
<1>1. old.mSeries \in Series
  BY DEF WindowInv, Typed, EmptyFlow, Series
<1>2. /\ added.mSeries \in Series
      /\ Points(added) \subseteq Points(old) \cup {time}
      /\ Points(added) # {}
  BY <1>1, AddedPoints
<1>3. Points(old) = IF id \in DOMAIN flows THEN Points(flows[id]) ELSE {}
  BY DEF Points, EmptyFlow
<1>4. /\ mEndTime' \in {mEndTime, time} /\ mEndTime' >= mEndTime /\ mEndTime' >= time
  BY MaxOfTwo DEF WindowInv, Typed, AddPacket
<1>5. /\ mStartTime' \in {mStartTime, mEndTime' - opt[1] + 1}
      /\ mStartTime' >= mStartTime /\ mStartTime' >= mEndTime' - opt[1] + 1
  <2>1. mStartTime' = Max({mStartTime, mEndTime' - opt[1] + 1})
    BY DEF AddPacket, WindowStart, mWindowSize
  <2>2. mEndTime' - opt[1] + 1 \in Int /\ mStartTime \in Nat
    BY <1>4 DEF WindowInv, Typed
  <2>. HIDE DEF old, added
  <2>. QED BY <2>1, <2>2, MaxOfTwo
<1>6. mStartTime' \in Nat /\ mEndTime' \in Times /\ mStartTime' <= mEndTime'
  BY <1>4, <1>5 DEF WindowInv, Typed, WindowBounded
<1>7. \A i \in DOMAIN flows' : i \in DOMAIN flows \cup {id}
        /\ flows'[i] = IF i # id THEN flows[i]
                       ELSE IF \E t \in Points(added) : t < mStartTime'
                              THEN deleteBefore(added, mStartTime') ELSE added
  BY DEF AddPacket
<1>. HIDE DEF old, added
<1>8. /\ deleteBefore(added, mStartTime').mSeries \in Series
      /\ Points(deleteBefore(added, mStartTime')) \subseteq Points(added)
  BY <1>2, <1>6, RemainingPoints
<1>9. \A i \in DOMAIN flows' : flows'[i].mSeries \in Series
  BY <1>2, <1>7, <1>8 DEF WindowInv, Typed
<1>10. Typed'
  BY <1>6, <1>9 DEF Typed, WindowInv, AddPacket, Begin
<1>11. WindowBounded'
  <2>1. ASSUME NEW i \in DOMAIN flows', NEW t \in Points(flows'[i]) PROVE t <= mEndTime'
    <3>1. CASE i # id
      BY <1>4, <1>6, <1>7, <2>1, <3>1 DEF WindowInv, WindowBounded, Typed, Points
    <3>2. CASE i = id
      <4>1. t \in Points(old) \cup {time}
        BY <1>2, <1>7, <1>8, <2>1, <3>2
      <4>2. \A u \in Points(old) : u \in Times /\ u <= mEndTime
        BY <1>3 DEF WindowInv, WindowBounded, Points
      <4>3. CASE t = time
        BY <1>4, <4>3
      <4>4. CASE t \in Points(old)
        <5>1. t \in Nat /\ t <= mEndTime
          BY <4>2, <4>4
        <5>2. mEndTime \in Nat /\ mEndTime' \in Nat /\ mEndTime' >= mEndTime
          BY <1>4, <1>6 DEF WindowInv, Typed
        <5>. QED BY <5>1, <5>2
      <4>. QED BY <4>1, <4>3, <4>4
    <3>. QED BY <3>1, <3>2
  <2>2. (Points(flows[id]))' = Points(flows'[id])
    OBVIOUS
  <2>. QED BY <1>5, <1>6, <2>1 DEF WindowBounded, mWindowSize, Points
<1>12. ASSUME first PROVE FirstWindow'
  <2>1. mpc = "capture" /\ interval = opt[1] /\ start_time' = Begin(time)
        /\ time >= Begin(time) /\ time < Begin(time) + opt[1]
    BY <1>12 DEF AddPacket, Reading, interval
  <2>2. start_time' \in Times /\ start_time' # 0
    BY <2>1 DEF Begin, WindowInv, Typed
  <2>3. mEndTime < start_time' + opt[1] /\ mStartTime <= start_time'
    BY <1>12, <2>1, <2>2
       DEF WindowInv, FirstWindow, NothingStored, Begin, mWindowSize, Typed
  <2>4. \A i \in DOMAIN flows :
          Points(flows[i]) # {} /\ \A t \in Points(flows[i]) : t >= start_time'
    BY <1>12, <2>1 DEF WindowInv, FirstWindow, NothingStored, Begin, PointsFrom
  <2>5. mEndTime' < start_time' + opt[1] /\ mStartTime' <= start_time'
    BY <1>4, <1>5, <1>6, <2>1, <2>2, <2>3 DEF WindowInv, Typed
  <2>6. \A t \in Points(added) : t \in Times /\ t >= start_time'
    BY <1>2, <1>3, <2>1, <2>4 DEF Points
  <2>7. flows'[id] = added \/ id \notin DOMAIN flows'
    BY <1>6, <1>7, <2>2, <2>5, <2>6
  <2>8. ASSUME NEW i \in DOMAIN flows'
        PROVE  Points(flows'[i]) # {} /\ \A t \in Points(flows'[i]) : t >= start_time'
    <3>1. CASE i = id
      BY <1>2, <2>6, <2>7, <3>1
    <3>2. CASE i # id
      BY <1>7, <2>4, <3>2
    <3>. QED BY <3>1, <3>2
  <2>. QED BY <2>2, <2>5, <2>8 DEF FirstWindow, PointsFrom, mWindowSize, Points
<1>13. FirstWindow' /\ Trimmed'
  BY <1>12 DEF AddPacket, Reading, FirstWindow, Trimmed
<1>. QED BY <1>10, <1>11, <1>13 DEF WindowInv

\* Sync leaves the flows that reach into the window, and of them what is in it.
LEMMA SyncKeeps ==
  ASSUME WindowInv, Sync
  PROVE  WindowInv'
<1>1. mStartTime \in Nat /\ mStartTime' = mStartTime /\ mEndTime' = mEndTime
  BY DEF WindowInv, Typed, Sync
<1>2. \A id \in DOMAIN flows' :
        id \in DOMAIN flows /\ flows'[id] = deleteBefore(flows[id], mStartTime)
        /\ Points(flows'[id]) # {}
  BY DEF Sync
<1>3. ASSUME NEW id \in DOMAIN flows'
      PROVE  /\ flows'[id].mSeries \in Series
             /\ Points(flows'[id]) = {t \in Points(flows[id]) : t >= mStartTime}
  <2>1. flows[id].mSeries \in Series
    BY <1>2 DEF WindowInv, Typed
  <2>2. /\ deleteBefore(flows[id], mStartTime).mSeries \in Series
        /\ Points(deleteBefore(flows[id], mStartTime))
             = {t \in Points(flows[id]) : t >= mStartTime}
    BY <1>1, <2>1, RemainingPoints
  <2>. QED BY <1>2, <2>2
<1>4. Typed'
  BY <1>3 DEF WindowInv, Typed, Sync
<1>5. \A id \in DOMAIN flows' : \A t \in Points(flows'[id]) :
        t >= mStartTime /\ t <= mEndTime
  BY <1>2, <1>3 DEF WindowInv, WindowBounded
<1>6. WindowBounded'
  BY <1>1, <1>5 DEF WindowInv, WindowBounded, mWindowSize, Sync, Points
<1>7. FirstWindow' /\ Trimmed'
  BY <1>1, <1>2, <1>5 DEF Sync, FirstWindow, Trimmed, PointsFrom, Points
<1>. QED BY <1>4, <1>6, <1>7 DEF WindowInv

\* The inductive invariant.
THEOREM WindowInvariant == Spec => []WindowInv
<1>1. Init => WindowInv
  <2> SUFFICES ASSUME Init PROVE WindowInv
    OBVIOUS
  <2>1. opt[1] \in Nat \ {0} /\ opt \in Settings
    BY CaptureAssumption DEF Init
  <2>2. DOMAIN flows = {}
    BY DEF Init
  <2>. QED BY <2>1, <2>2
           DEF Init, WindowInv, Typed, WindowBounded, FirstWindow, Trimmed,
               NothingStored, mWindowSize
<1>2. WindowInv /\ [Next]_vars => WindowInv'
  <2> SUFFICES ASSUME WindowInv, [Next]_vars PROVE WindowInv'
    OBVIOUS
  <2>. Times \subseteq Nat /\ opt[1] \in Nat \ {0} /\ opt[2] \in Nat \ {0}
    BY CaptureAssumption DEF WindowInv, Typed
  <2> USE DEF WindowInv, Typed, WindowBounded, FirstWindow, Trimmed, PointsFrom,
              NothingStored, mWindowSize, interval, Points, storageVars
  <2>1. ASSUME NEW time \in Times, StopCapture(time) PROVE WindowInv'
    BY <2>1 DEF StopCapture, Reading, Begin
  <2>2. ASSUME NEW time \in Times, NEW id, IgnorePacket(id, time) PROVE WindowInv'
    BY <2>2 DEF IgnorePacket, Reading, Begin
  <2>3. ASSUME NEW time \in Times, NEW id \in Ids, AddPacket(id, time) PROVE WindowInv'
    BY <2>3, AddPacketKeeps
  <2>4. CASE EndOfFile
    BY <2>4 DEF EndOfFile
  <2>5. CASE Sync
    BY <2>5, SyncKeeps
  <2>6. CASE NoSync
    BY <2>6 DEF NoSync
  <2>7. CASE Analyse
    BY <2>7 DEF Analyse
  <2>8. CASE UNCHANGED vars
    BY <2>8 DEF vars
  <2>. QED BY <2>1, <2>2, <2>3, <2>4, <2>5, <2>6, <2>7, <2>8 DEF Next
<1>. QED BY <1>1, <1>2, PTL DEF Spec

\* No assert of Sketch::addFlow fails: every flow a detector gets fits the
\* vector of its sketches.
THEOREM AssertsOfSketchHold == Spec => []FlowsFitSketch
<1>1. WindowInv => FlowsFitSketch
  <2> SUFFICES ASSUME WindowInv, mpc = "analyse" PROVE FlowsFitSketch
    BY DEF FlowsFitSketch
  <2>1. Times \subseteq Nat /\ opt[1] \in Nat
    BY CaptureAssumption DEF WindowInv, Typed
  <2>2. \A id \in DOMAIN flows : \A t \in Points(flows[id]) : t \in Nat
    BY <2>1 DEF Points
  <2>. QED BY <2>1, <2>2
           DEF WindowInv, Typed, WindowBounded, Trimmed, PointsFrom, mWindowSize,
               FlowsFitSketch
<1>. QED BY <1>1, WindowInvariant, PTL

-----------------------------------------------------------------------------
(* What the series count *)

Packet == [id : Ids, time : Times]

Value(id, t) == IF id \in DOMAIN flows THEN flows[id].mSeries[t] ELSE 0

\* Within the window the series count the packets that count.
Counting ==
  \A id \in Ids, t \in Times : t >= mStartTime => Value(id, t) = Arrivals(id, t)

\* A packet in the window, counted or not, has left its flow with a point that
\* is no older: what makes a packet late is still in its flow.
LatestKept ==
  \A k \in DOMAIN arrived, id \in Ids : arrived[k].id = id /\ arrived[k].time >= mStartTime =>
    \E t \in Times : t >= arrived[k].time /\ Value(id, t) > 0

SeriesInv == arrived \in Seq(Packet) /\ Counting /\ LatestKept

\* Cutting a flow leaves the values that are not older.
LEMMA CutKeepsValues ==
  ASSUME NEW f, f.mSeries \in Series, NEW time \in Nat, NEW t \in Times, t >= time
  PROVE  deleteBefore(f, time).mSeries[t] = f.mSeries[t]
<1>. Times \subseteq Nat
  BY CaptureAssumption
<1>1. CASE \A u \in Points(f) : u < time
  <2>1. t \notin Points(f)
    BY <1>1
  <2>2. f.mSeries[t] = 0
    BY <2>1 DEF Points, Series
  <2>. QED BY <1>1, <2>2 DEF deleteBefore, EmptyFlow
<1>2. CASE ~ \A u \in Points(f) : u < time
  <2>1. deleteBefore(f, time).mSeries = [u \in Times |-> IF u < time THEN 0 ELSE f.mSeries[u]]
    BY <1>2 DEF deleteBefore
  <2>. QED BY <2>1
<1>. QED BY <1>1, <1>2

\* One more packet is one more arrival if it is not late for its identifier,
\* and changes nothing else that has been counted.
LEMMA OneMoreArrival ==
  ASSUME arrived \in Seq(Packet), NEW id \in Ids, NEW time \in Times,
         arrived' = Append(arrived, [id |-> id, time |-> time])
  PROVE  /\ \A i \in Ids, t \in Times :
              /\ Arrivals(i, t) \in Nat
              /\ i # id \/ t # time => Arrivals(i, t)' = Arrivals(i, t)
         /\ (\A k \in DOMAIN arrived : arrived[k].id = id => arrived[k].time <= time)
              => Arrivals(id, time)' = Arrivals(id, time) + 1
         /\ ~(\A k \in DOMAIN arrived : arrived[k].id = id => arrived[k].time <= time)
              => Arrivals(id, time)' = Arrivals(id, time)
         /\ arrived' \in Seq(Packet)
<1>. PICK n \in Nat : n = Len(arrived)
  BY LenProperties
<1> DEFINE p == [id |-> id, time |-> time]
           Set(i, t) == {k \in DOMAIN arrived : arrived[k] = [id |-> i, time |-> t] /\ Counted(k)}
           Late == ~(\A k \in DOMAIN arrived : arrived[k].id = id => arrived[k].time <= time)
<1>1. DOMAIN arrived = 1..n /\ p \in Packet
  BY LenProperties DEF Packet
<1>2. /\ DOMAIN arrived' = 1..(n + 1) /\ arrived' \in Seq(Packet)
      /\ \A k \in 1..n : arrived'[k] = arrived[k]
      /\ arrived'[n + 1] = p
  BY <1>1, AppendProperties
<1>3. \A k \in 1..n : Counted(k)' <=> Counted(k)
  BY <1>1, <1>2 DEF Counted
<1>4. Counted(n + 1)' <=> ~Late
  <2>1. 1..((n + 1) - 1) = 1..n
    BY <1>1
  <2>2. Counted(n + 1)' <=> \A k \in 1..n : arrived'[k].id = p.id => arrived'[k].time <= p.time
    BY <1>2, <2>1 DEF Counted
  <2>3. p.id = id /\ p.time = time
    OBVIOUS
  <2>. HIDE DEF p
  <2>. QED BY <1>1, <1>2, <2>2, <2>3
<1>5. \A i, t : IsFiniteSet(Set(i, t)) /\ n + 1 \notin Set(i, t)
  <2>1. IsFiniteSet(1..n)
    BY <1>1, FS_Interval
  <2>2. \A i, t : Set(i, t) \subseteq 1..n
    BY <1>1
  <2>. QED BY <1>1, <2>1, <2>2, FS_Subset
<1>6. ASSUME NEW i \in Ids, NEW t \in Times, NEW k
      PROVE  k \in Set(i, t)' <=> (k \in Set(i, t) \/ (k = n + 1 /\ i = id /\ t = time /\ ~Late))
  <2>1. k \in Set(i, t)' <=> k \in 1..(n + 1) /\ arrived'[k] = [id |-> i, time |-> t] /\ Counted(k)'
    BY <1>2
  <2>2. CASE k \in 1..n
    <3>1. k \in 1..(n + 1) /\ k # n + 1 /\ arrived'[k] = arrived[k]
      BY <1>1, <1>2, <2>2
    <3>2. Counted(k)' <=> Counted(k)
      BY <1>3, <2>2
    <3>3. k \in Set(i, t) <=> arrived[k] = [id |-> i, time |-> t] /\ Counted(k)
      BY <1>1, <2>2
    <3>. HIDE DEF Set, p, Late
    <3>. QED BY <2>1, <3>1, <3>2, <3>3
  <2>3. CASE k = n + 1
    <3>1. k \in 1..(n + 1) /\ k \notin Set(i, t) /\ arrived'[k] = p /\ (Counted(k)' <=> ~Late)
      BY <1>1, <1>2, <1>4, <1>5, <2>3
    <3>2. p = [id |-> i, time |-> t] <=> i = id /\ t = time
      OBVIOUS
    <3>. HIDE DEF p
    <3>. QED BY <2>1, <2>3, <3>1, <3>2
  <2>4. CASE k \notin 1..n /\ k # n + 1
    <3>1. k \notin 1..(n + 1)
      BY <1>1, <2>4
    <3>. QED BY <1>1, <2>1, <2>4, <3>1
  <2>. QED BY <2>2, <2>3, <2>4
<1>7. \A i \in Ids, t \in Times : Arrivals(i, t) \in Nat
  BY <1>5, FS_CardinalityType DEF Arrivals
<1>8. ASSUME NEW i \in Ids, NEW t \in Times, i # id \/ t # time \/ Late
      PROVE  Arrivals(i, t)' = Arrivals(i, t)
  <2>1. \A k : k \in Set(i, t)' <=> k \in Set(i, t)
    BY <1>6, <1>8, Zenon
  <2>2. Set(i, t)' = Set(i, t)
    BY <2>1, Zenon
  <2>. QED BY <2>2 DEF Arrivals
<1>9. ASSUME ~Late PROVE Arrivals(id, time)' = Arrivals(id, time) + 1
  <2>1. Set(id, time)' = Set(id, time) \cup {n + 1}
    BY <1>6, <1>9
  <2>2. Cardinality(Set(id, time) \cup {n + 1}) = Cardinality(Set(id, time)) + 1
    <3>. HIDE DEF Set
    <3>. QED BY <1>5, FS_AddElement
  <2>. QED BY <2>1, <2>2 DEF Arrivals
<1>. QED BY <1>2, <1>7, <1>8, <1>9

\* A packet that addPoint ignores is exactly one that does not count, as far
\* as the window reaches.
LEMMA AddPacketCounts ==
  ASSUME WindowInv, SeriesInv, NEW id \in Ids, NEW time \in Times, AddPacket(id, time)
  PROVE  SeriesInv'
<1>. /\ Times \subseteq Nat /\ opt[1] \in Nat \ {0}
  BY CaptureAssumption DEF WindowInv, Typed
<1> DEFINE old == IF id \in DOMAIN flows THEN flows[id] ELSE EmptyFlow
           added == addPoint(old, time)
           Late == ~(\A k \in DOMAIN arrived : arrived[k].id = id => arrived[k].time <= time)
<1>1. old.mSeries \in Series /\ \A t \in Times : old.mSeries[t] = Value(id, t)
  BY DEF WindowInv, Typed, EmptyFlow, Series, Value
<1>2. added.mSeries \in Series /\ Points(old) \subseteq Points(added)
  BY <1>1, AddedPoints
<1>3. mStartTime \in Nat /\ mStartTime' \in Nat /\ mStartTime' >= mStartTime
  <2>1. mEndTime' \in Times
    BY MaxOfTwo DEF WindowInv, Typed, AddPacket
  <2>2. mEndTime' - opt[1] + 1 \in Int /\ mStartTime \in Nat
    BY <2>1 DEF WindowInv, Typed
  <2>3. mStartTime' = Max({mStartTime, mEndTime' - opt[1] + 1})
    BY DEF AddPacket, WindowStart, mWindowSize
  <2>4. /\ mStartTime' \in {mStartTime, mEndTime' - opt[1] + 1}
        /\ mStartTime' >= mStartTime
    BY <2>2, <2>3, MaxOfTwo
  <2>. QED BY <2>2, <2>4
<1>4. /\ DOMAIN flows' = DOMAIN flows \cup {id}
      /\ \A i \in DOMAIN flows : i # id => flows'[i] = flows[i]
      /\ flows'[id] = IF \E t \in Points(added) : t < mStartTime'
                        THEN deleteBefore(added, mStartTime') ELSE added
      /\ arrived' = Append(arrived, [id |-> id, time |-> time])
  BY DEF AddPacket
<1>. HIDE DEF old, added
\* The values in the new window.
<1>5. ASSUME NEW t \in Times, t >= mStartTime'
      PROVE  /\ flows'[id].mSeries[t] = added.mSeries[t]
             /\ \A i \in Ids : i # id => Value(i, t)' = Value(i, t)
             /\ Value(id, t)' = added.mSeries[t]
  <2>1. flows'[id].mSeries[t] = added.mSeries[t]
    BY <1>2, <1>3, <1>4, <1>5, CutKeepsValues
  <2>. QED BY <1>4, <2>1 DEF Value
<1>6. added = IF \E t \in Points(old) : t > time
                THEN old ELSE [mSeries |-> [old.mSeries EXCEPT ![time] = @ + 1], mCount |-> old.mCount + 1]
  BY DEF added, addPoint
<1>7. \A t \in Times : t # time => added.mSeries[t] = old.mSeries[t]
  BY <1>1, <1>6 DEF Series
<1>8. /\ arrived \in Seq(Packet) /\ Counting /\ LatestKept
      /\ \A k \in DOMAIN arrived : arrived[k].id \in Ids /\ arrived[k].time \in Nat
  <2>1. \A k \in DOMAIN arrived : arrived[k] \in Packet
    BY ElementOfSeq, LenProperties DEF SeriesInv
  <2>. QED BY <2>1 DEF SeriesInv, Packet
<1>9. time >= mStartTime' => (Late <=> \E t \in Points(old) : t > time)
  <2> SUFFICES ASSUME time >= mStartTime' PROVE Late <=> \E t \in Points(old) : t > time
    OBVIOUS
  <2>1. ASSUME NEW t \in Points(old), t > time PROVE Late
    <3>1. t \in Times /\ old.mSeries[t] > 0 /\ t >= mStartTime
      BY <1>3, <2>1 DEF Points
    <3>2. Arrivals(id, t) > 0
      BY <1>1, <1>8, <3>1 DEF Counting
    <3>3. {k \in DOMAIN arrived : arrived[k] = [id |-> id, time |-> t] /\ Counted(k)} # {}
      BY <3>2, FS_EmptySet DEF Arrivals
    <3>4. PICK k \in DOMAIN arrived : arrived[k] = [id |-> id, time |-> t]
      BY <3>3
    <3>5. ~(t <= time)
      BY <2>1, <3>1
    <3>6. arrived[k].id = id /\ arrived[k].time = t
      BY <3>4
    <3>. QED BY <3>5, <3>6
  <2>2. ASSUME NEW k \in DOMAIN arrived, arrived[k].id = id, ~(arrived[k].time <= time)
        PROVE  \E t \in Points(old) : t > time
    <3>1. arrived[k].time \in Nat
      BY <1>8
    <3>2. PICK t \in Times : t >= arrived[k].time /\ Value(id, t) > 0
      BY <1>3, <1>8, <2>2, <3>1 DEF LatestKept
    <3>3. t \in Points(old)
      BY <1>1, <3>2 DEF Points
    <3>. QED BY <2>2, <3>1, <3>2, <3>3
  <2>. QED BY <2>1, <2>2
<1>10. Counting'
  <2> SUFFICES ASSUME NEW i \in Ids, NEW t \in Times, t >= mStartTime'
               PROVE  Value(i, t)' = Arrivals(i, t)'
    BY DEF Counting
  <2>1. Value(i, t) = Arrivals(i, t)
    BY <1>3, <1>8 DEF Counting
  <2>2. CASE i # id \/ t # time
    <3>1. Arrivals(i, t)' = Arrivals(i, t)
      BY <1>4, <1>8, <2>2, OneMoreArrival
    <3>. QED BY <1>1, <1>5, <1>7, <2>1, <2>2, <3>1
  <2>3. CASE i = id /\ t = time /\ Late
    <3>1. Arrivals(i, t)' = Arrivals(i, t)
      BY <1>4, <1>8, <2>3, OneMoreArrival
    <3>. QED BY <1>1, <1>5, <1>6, <1>9, <2>1, <2>3, <3>1
  <2>4. CASE i = id /\ t = time /\ ~Late
    <3>1. Arrivals(i, t)' = Arrivals(i, t) + 1
      BY <1>4, <1>8, <2>4, OneMoreArrival
    <3>2. added.mSeries[t] = old.mSeries[t] + 1
      BY <1>1, <1>6, <1>9, <2>4 DEF Series
    <3>. QED BY <1>1, <1>5, <2>1, <2>4, <3>1, <3>2
  <2>. QED BY <2>2, <2>3, <2>4
<1>11. LatestKept'
  <2>1. /\ DOMAIN arrived' = DOMAIN arrived \cup {Len(arrived) + 1}
        /\ \A k \in DOMAIN arrived : arrived'[k] = arrived[k]
        /\ arrived'[Len(arrived) + 1] = [id |-> id, time |-> time]
    <3>1. [id |-> id, time |-> time] \in Packet
      BY DEF Packet
    <3>. QED BY <1>4, <1>8, <3>1, AppendProperties
  <2>2. added.mSeries[time] > 0 \/ \E t \in Times : t >= time /\ added.mSeries[t] > 0
    BY <1>1, <1>6 DEF Series, Points
  <2>3. ASSUME NEW k \in DOMAIN arrived, NEW i \in Ids, arrived[k].id = i, arrived[k].time >= mStartTime'
        PROVE  \E t \in Times : t >= arrived[k].time /\ Value(i, t)' > 0
    <3>1. PICK t \in Times : t >= arrived[k].time /\ Value(i, t) > 0
      BY <1>3, <1>8, <2>3 DEF LatestKept
    <3>2. t >= mStartTime'
      BY <1>3, <1>8, <2>3, <3>1
    <3>3. CASE i # id
      <4>1. Value(i, t)' = Value(i, t)
        BY <1>5, <3>2, <3>3
      <4>. QED BY <3>1, <4>1
    <3>4. CASE i = id
      <4>1. t \in Points(added)
        BY <1>1, <1>2, <3>1, <3>4 DEF Points
      <4>2. Value(i, t)' > 0
        BY <1>5, <3>2, <3>4, <4>1 DEF Points
      <4>. QED BY <3>1, <4>2
    <3>. QED BY <3>3, <3>4
  <2>4. ASSUME time >= mStartTime'
        PROVE  \E t \in Times : t >= time /\ Value(id, t)' > 0
    <3>1. PICK t \in Times : t >= time /\ added.mSeries[t] > 0
      BY <2>2
    <3>2. t >= mStartTime'
      BY <1>3, <2>4, <3>1
    <3>3. Value(id, t)' > 0
      BY <1>5, <3>1, <3>2
    <3>. QED BY <3>1, <3>3
  <2> SUFFICES ASSUME NEW k \in DOMAIN arrived', NEW i \in Ids,
                      arrived'[k].id = i, arrived'[k].time >= mStartTime'
               PROVE  \E t \in Times : t >= arrived'[k].time /\ Value(i, t)' > 0
    BY DEF LatestKept
  <2>5. CASE k \in DOMAIN arrived
    BY <2>1, <2>3, <2>5
  <2>6. CASE k = Len(arrived) + 1
    <3>1. arrived'[k].id = id /\ arrived'[k].time = time
      BY <2>1, <2>6
    <3>. QED BY <2>4, <3>1
  <2>. QED BY <2>1, <2>5, <2>6
<1>12. arrived' \in Seq(Packet)
  BY <1>4, <1>8, OneMoreArrival
<1>. QED BY <1>10, <1>11, <1>12 DEF SeriesInv

\* Sync cuts nothing that is in the window.
LEMMA SyncCounts ==
  ASSUME WindowInv, SeriesInv, Sync
  PROVE  SeriesInv'
<1>. Times \subseteq Nat /\ mStartTime \in Nat
  BY CaptureAssumption DEF WindowInv, Typed
<1>1. UNCHANGED <<mStartTime, arrived>>
  BY DEF Sync
<1>2. ASSUME NEW id \in Ids, NEW t \in Times, t >= mStartTime
      PROVE  Value(id, t)' = Value(id, t)
  <2>1. CASE id \notin DOMAIN flows
    BY <2>1 DEF Sync, Value
  <2>2. CASE id \in DOMAIN flows
    <3> DEFINE cut == deleteBefore(flows[id], mStartTime)
    <3>1. flows[id].mSeries \in Series
      BY <2>2 DEF WindowInv, Typed
    <3>2. cut.mSeries[t] = flows[id].mSeries[t] /\ cut.mSeries \in Series
      BY <1>2, <3>1, CutKeepsValues, RemainingPoints
    <3>3. CASE Points(cut) # {}
      BY <2>2, <3>2, <3>3 DEF Sync, Value
    <3>4. CASE Points(cut) = {}
      <4>1. id \notin DOMAIN flows'
        BY <3>4 DEF Sync
      <4>2. cut.mSeries[t] = 0
        BY <3>2, <3>4 DEF Points, Series
      <4>. QED BY <2>2, <3>2, <4>1, <4>2 DEF Value
    <3>. QED BY <3>3, <3>4
  <2>. QED BY <2>1, <2>2
<1>3. Counting'
  <2>1. \A id \in Ids, t \in Times : Arrivals(id, t)' = Arrivals(id, t)
    BY <1>1 DEF Arrivals, Counted
  <2>. QED BY <1>1, <1>2, <2>1 DEF SeriesInv, Counting
<1>4. LatestKept'
  <2> SUFFICES ASSUME NEW k \in DOMAIN arrived, NEW id \in Ids,
                      arrived[k].id = id, arrived[k].time >= mStartTime
               PROVE  \E t \in Times : t >= arrived[k].time /\ Value(id, t)' > 0
    BY <1>1 DEF LatestKept
  <2>1. arrived[k] \in Packet
    BY ElementOfSeq, LenProperties DEF SeriesInv
  <2>2. PICK t \in Times : t >= arrived[k].time /\ Value(id, t) > 0
    BY DEF SeriesInv, LatestKept
  <2>3. arrived[k].time \in Times
    BY <2>1 DEF Packet
  <2>4. PICK u \in Nat : u = arrived[k].time
    BY <2>3
  <2>5. t >= u /\ u >= mStartTime /\ t \in Nat
    BY <2>2, <2>4
  <2>6. t >= mStartTime
    BY <2>5
  <2>. QED BY <1>2, <2>2, <2>6
<1>. QED BY <1>1, <1>3, <1>4 DEF SeriesInv

LEMMA SeriesKept ==
  ASSUME WindowInv, SeriesInv, [Next]_vars
  PROVE  SeriesInv'
<1>1. ASSUME UNCHANGED <<flows, mStartTime, arrived>> PROVE SeriesInv'
  BY <1>1 DEF SeriesInv, Counting, LatestKept, Value, Arrivals, Counted
<1>2. ASSUME NEW time \in Times, NEW id \in Ids, AddPacket(id, time) PROVE SeriesInv'
  BY <1>2, AddPacketCounts
<1>3. CASE Sync
  BY <1>3, SyncCounts
<1>. QED
  BY <1>1, <1>2, <1>3
  DEF Next, StopCapture, IgnorePacket, EndOfFile, NoSync, Analyse, vars, storageVars

\* The inductive invariant of the series.
THEOREM SeriesInvariant == Spec => []SeriesInv
<1>1. Init => SeriesInv
  <2> SUFFICES ASSUME Init PROVE SeriesInv
    OBVIOUS
  <2>1. arrived = <<>> /\ DOMAIN arrived = {} /\ arrived \in Seq(Packet) /\ DOMAIN flows = {}
    BY EmptySeq DEF Init
  <2>2. \A id \in Ids, t \in Times : Arrivals(id, t) = 0
    BY <2>1, FS_EmptySet DEF Arrivals
  <2>. QED BY <2>1, <2>2 DEF SeriesInv, Counting, LatestKept, Value
<1>. QED BY <1>1, SeriesKept, WindowInvariant, PTL DEF Spec

\* Every detector is given the sliding window itself, for every capture file and
\* any settings, though Storage cuts one flow at a time (Storage::addPacket,
\* Storage::sync, SparseFlow).
THEOREM DetectorsGetTheWindow == Spec => []AnalysedIsWindow
<1>1. WindowInv /\ SeriesInv => AnalysedIsWindow
  <2> SUFFICES ASSUME WindowInv, SeriesInv, mpc = "analyse", NEW id \in Ids, NEW t \in Times
               PROVE  Value(id, t) = IF t \in mStartTime..mEndTime THEN Arrivals(id, t) ELSE 0
    BY DEF AnalysedIsWindow, Value
  <2>1. t \in Nat /\ mStartTime \in Nat /\ mEndTime \in Nat
    BY CaptureAssumption DEF WindowInv, Typed
  <2>2. CASE t \in mStartTime..mEndTime
    BY <2>1, <2>2 DEF SeriesInv, Counting
  <2>3. CASE t \notin mStartTime..mEndTime
    <3>1. id \in DOMAIN flows => t \notin Points(flows[id]) /\ flows[id].mSeries \in Series
      BY <2>1, <2>3 DEF WindowInv, Typed, WindowBounded, Trimmed, PointsFrom
    <3>2. Value(id, t) = 0
      BY <3>1 DEF Value, Points, Series
    <3>. QED BY <2>3, <3>2
  <2>. QED BY <2>2, <2>3
<1>. QED BY <1>1, WindowInvariant, SeriesInvariant, PTL

-----------------------------------------------------------------------------
(* What has been analysed *)

\* While packets are read, what counts is either analysed or of this capture,
\* and this capture fits the window; afterwards it is analysed or in the window.
SeenInv ==
  /\ mpc = "capture" => IF start_time = 0
                          THEN arrived = <<>> /\ mStartTime = 0 /\ mEndTime = 0
                          ELSE mEndTime < start_time + interval
  /\ mpc \in {"sync", "analyse"} /\ ~eof => mEndTime < start_time
  /\ eof => mpc # "capture"
  /\ opt[2] <= opt[1] =>
       /\ mpc = "capture" => mStartTime <= start_time
       /\ \A i \in DOMAIN arrived : Counted(i) =>
            \/ <<arrived[i].id, arrived[i].time>> \in analysed
            \/ mpc = "capture" /\ arrived[i].time >= start_time
            \/ mpc \in {"sync", "analyse"} /\ arrived[i].time >= mStartTime

\* Adding a packet keeps the capture within the window.
LEMMA AddPacketSeen ==
  ASSUME WindowInv, SeriesInv, SeenInv, NEW id \in Ids, NEW time \in Times, AddPacket(id, time)
  PROVE  SeenInv'
<1>1. /\ Times \subseteq Nat /\ opt[1] \in Nat \ {0} /\ opt[2] \in Nat \ {0} /\ opt' = opt
      /\ \A t \in Times : t >= opt[1]
      /\ start_time \in Nat /\ mStartTime \in Nat /\ mEndTime \in Nat
  BY CaptureAssumption DEF WindowInv, Typed, AddPacket
<1>2. /\ mpc = "capture" /\ mpc' = "capture" /\ eof' = eof /\ first' = first /\ interval' = interval
      /\ start_time' = Begin(time) /\ analysed' = analysed
      /\ time >= Begin(time) /\ time < Begin(time) + interval
      /\ arrived' = Append(arrived, [id |-> id, time |-> time])
  BY DEF AddPacket, Reading, interval
<1>3. /\ mEndTime' \in {mEndTime, time} /\ mEndTime' >= mEndTime /\ mEndTime' >= time
  BY <1>1, MaxOfTwo DEF AddPacket
<1>4. mStartTime' \in {mStartTime, mEndTime' - opt[1] + 1}
  <2>1. mStartTime' = Max({mStartTime, mEndTime' - opt[1] + 1})
    BY DEF AddPacket, WindowStart, mWindowSize
  <2>2. mEndTime' - opt[1] + 1 \in Int
    BY <1>1, <1>3
  <2>. QED BY <1>1, <2>1, <2>2, MaxOfTwo
<1>5. start_time' # 0 /\ mEndTime' < start_time' + interval
  <2>1. start_time' \in Nat \ {0} /\ interval \in Nat \ {0}
    BY <1>1, <1>2 DEF Begin, interval
  <2>2. mEndTime < start_time' + interval
    BY <1>1, <1>2, <2>1 DEF SeenInv, Begin
  <2>. QED BY <1>1, <1>2, <1>3, <2>1, <2>2
<1>6. ASSUME opt[2] <= opt[1] PROVE mStartTime' <= start_time'
  <2>1. interval <= opt[1] /\ interval \in Nat
    BY <1>1, <1>6 DEF interval
  <2>2. start_time' \in Nat /\ mStartTime <= start_time'
    BY <1>1, <1>2, <1>6 DEF SeenInv, Begin
  <2>3. mEndTime' \in Nat
    BY <1>1, <1>3
  <2>4. PICK n \in Nat : n = interval /\ n <= opt[1] /\ mEndTime' < start_time' + n
    BY <1>5, <2>1
  <2>5. mEndTime' - opt[1] + 1 <= start_time'
    <3>1. PICK e \in Nat, b \in Nat, o \in Nat : e = mEndTime' /\ b = start_time' /\ o = opt[1]
      BY <1>1, <2>2, <2>3
    <3>2. e < b + n /\ n <= o
      BY <2>4, <3>1
    <3>3. e - o + 1 <= b
      BY ONLY <3>2, e \in Nat, b \in Nat, o \in Nat, n \in Nat
    <3>. QED BY <3>1, <3>3
  <2>. QED BY <1>4, <2>2, <2>5
<1>7. ASSUME opt[2] <= opt[1], NEW i \in DOMAIN arrived', Counted(i)'
      PROVE  \/ <<arrived'[i].id, arrived'[i].time>> \in analysed
             \/ arrived'[i].time >= start_time'
  <2>1. /\ DOMAIN arrived' = DOMAIN arrived \cup {Len(arrived) + 1}
        /\ DOMAIN arrived = 1..Len(arrived) /\ Len(arrived) \in Nat
        /\ \A k \in DOMAIN arrived : arrived'[k] = arrived[k]
        /\ arrived'[Len(arrived) + 1] = [id |-> id, time |-> time]
    <3>1. [id |-> id, time |-> time] \in Packet
      BY DEF Packet
    <3>. QED BY <1>2, <3>1, AppendProperties, LenProperties DEF SeriesInv
  <2>2. CASE i = Len(arrived) + 1
    <3>1. arrived'[i].time = time
      BY <2>1, <2>2
    <3>. QED BY <1>2, <3>1
  <2>3. CASE i \in DOMAIN arrived
    <3>1. Counted(i)
      BY <1>7, <2>1, <2>3 DEF Counted
    <3>2. start_time' = start_time
      BY <1>2, <2>1, <2>3 DEF SeenInv, Begin
    <3>. QED BY <1>2, <1>7, <2>1, <2>3, <3>1, <3>2 DEF SeenInv
  <2>. QED BY <2>1, <2>2, <2>3
<1>. QED BY <1>1, <1>2, <1>5, <1>6, <1>7 DEF SeenInv

\* A detector analyses all that counts in the window.
LEMMA AnalyseSeen ==
  ASSUME WindowInv, SeriesInv, SeenInv, Analyse
  PROVE  SeenInv'
<1>1. /\ Times \subseteq Nat /\ opt[1] \in Nat \ {0} /\ opt[2] \in Nat \ {0} /\ opt' = opt
      /\ start_time \in Nat /\ mStartTime \in Nat /\ mEndTime \in Nat
  BY CaptureAssumption DEF WindowInv, Typed, Analyse
<1>2. /\ UNCHANGED <<arrived, start_time, mStartTime, mEndTime, eof>> /\ ~first'
      /\ mpc = "analyse" /\ mpc' = IF eof THEN "done" ELSE "capture"
      /\ analysed' = analysed \cup UNION {{id} \X Points(flows[id]) : id \in DOMAIN flows}
  BY DEF Analyse, storageVars
<1>3. ASSUME NEW i \in DOMAIN arrived, Counted(i), arrived[i].time >= mStartTime
      PROVE  <<arrived[i].id, arrived[i].time>> \in analysed'
  <2>1. arrived[i] \in Packet
    BY ElementOfSeq, LenProperties DEF SeriesInv
  <2>2. PICK id \in Ids, t \in Times : arrived[i] = [id |-> id, time |-> t]
    BY <2>1 DEF Packet
  <2>3. arrived[i].id = id /\ arrived[i].time = t
    BY <2>2
  <2> DEFINE S == {k \in DOMAIN arrived : arrived[k] = [id |-> id, time |-> t] /\ Counted(k)}
  <2>4. Arrivals(id, t) # 0
    <3>0. DOMAIN arrived = 1..Len(arrived) /\ Len(arrived) \in Nat
      BY LenProperties DEF SeriesInv
    <3>1. S \subseteq 1..Len(arrived) /\ IsFiniteSet(1..Len(arrived))
      BY <3>0, FS_Interval
    <3>2. IsFiniteSet(S) /\ i \in S
      BY <1>3, <2>2, <3>1, FS_Subset
    <3>. HIDE DEF S
    <3>3. Cardinality(S) # 0
      BY <3>2, FS_EmptySet
    <3>. QED BY <3>3 DEF Arrivals, S
  <2>5. Value(id, t) = Arrivals(id, t)
    BY <1>3, <2>3 DEF SeriesInv, Counting
  <2>6. id \in DOMAIN flows /\ flows[id].mSeries[t] # 0
    BY <2>4, <2>5 DEF Value
  <2>7. t \in Points(flows[id])
    BY <2>6 DEF Points, WindowInv, Typed, Series
  <2>8. <<id, t>> \in {id} \X Points(flows[id])
    BY <2>7
  <2>. QED BY <1>2, <2>3, <2>6, <2>8
<1>4. ~eof => mEndTime < start_time + opt[2] /\ start_time # 0 /\ mStartTime <= start_time
  BY <1>1, <1>2 DEF SeenInv, WindowInv, WindowBounded
<1>5. \A i \in DOMAIN arrived : Counted(i)' <=> Counted(i)
  BY <1>2 DEF Counted
<1>6. interval' = opt[2]
  BY <1>1, <1>2 DEF interval
<1>7. opt[2] <= opt[1] => \A i \in DOMAIN arrived :
        Counted(i) => <<arrived[i].id, arrived[i].time>> \in analysed'
  BY <1>2, <1>3 DEF SeenInv
<1>. QED BY <1>1, <1>2, <1>4, <1>5, <1>6, <1>7 DEF SeenInv

LEMMA SeenKept ==
  ASSUME WindowInv, SeriesInv, SeenInv, [Next]_vars
  PROVE  SeenInv'
<1>1. /\ Times \subseteq Nat /\ opt[1] \in Nat \ {0} /\ opt[2] \in Nat \ {0}
      /\ \A t \in Times : t >= opt[1]
      /\ start_time \in Nat /\ mStartTime \in Nat /\ mEndTime \in Nat
      /\ interval \in Nat \ {0}
  BY CaptureAssumption DEF WindowInv, Typed, interval
<1>2. \A i \in DOMAIN arrived : arrived[i].time \in Nat
  <2>1. \A i \in DOMAIN arrived : arrived[i] \in Packet
    BY ElementOfSeq, LenProperties DEF SeriesInv
  <2>. QED BY <1>1, <2>1 DEF Packet
<1>3. ASSUME NEW time \in Times, StopCapture(time) PROVE SeenInv'
  <2>1. /\ mpc = "capture" /\ mpc' = "sync" /\ start_time' = time /\ start_time # 0
        /\ time >= start_time + interval
        /\ UNCHANGED <<opt, eof, mStartTime, mEndTime, arrived, analysed>>
    BY <1>1, <1>3 DEF StopCapture, Reading, Begin, storageVars
  <2>2. mEndTime < time
    BY <1>1, <2>1 DEF SeenInv
  <2>. QED BY <1>1, <1>2, <2>1, <2>2 DEF SeenInv, Counted
<1>4. ASSUME NEW time \in Times, NEW id, IgnorePacket(id, time) PROVE SeenInv'
  <2>1. /\ mpc = "capture" /\ mpc' = "capture" /\ start_time' = Begin(time) /\ interval' = interval
        /\ UNCHANGED <<opt, eof, mStartTime, mEndTime, arrived, analysed>>
    BY <1>4 DEF IgnorePacket, Reading, storageVars, interval
  <2>. QED BY <1>1, <1>2, <2>1 DEF SeenInv, Counted, Begin
<1>5. ASSUME NEW time \in Times, NEW id \in Ids, AddPacket(id, time) PROVE SeenInv'
  BY <1>5, AddPacketSeen
<1>6. CASE EndOfFile
  <2>1. /\ mpc = "capture" /\ mpc' = "sync" /\ eof'
        /\ UNCHANGED <<opt, start_time, mStartTime, mEndTime, arrived, analysed>>
    BY <1>6 DEF EndOfFile, storageVars
  <2>. QED BY <1>1, <1>2, <2>1 DEF SeenInv, Counted
<1>7. CASE Sync \/ NoSync
  <2>1. /\ mpc = "sync" /\ mpc' = "analyse"
        /\ UNCHANGED <<opt, eof, start_time, mStartTime, mEndTime, arrived, analysed>>
    BY <1>7 DEF Sync, NoSync, storageVars
  <2>. QED BY <2>1 DEF SeenInv, Counted
<1>8. CASE Analyse
  BY <1>8, AnalyseSeen
<1>9. CASE UNCHANGED vars
  BY <1>9 DEF vars, storageVars, SeenInv, Counted, interval
<1>. QED BY <1>3, <1>4, <1>5, <1>6, <1>7, <1>8, <1>9 DEF Next

\* No packet slips between two detections that are no further apart than the
\* window is long (CaptureSession::capture, Storage).
THEOREM EveryPacketIsSeen == Spec => []NothingUnseen
<1>1. Init => SeenInv
  BY EmptySeq DEF Init, SeenInv
<1>2. Spec => []SeenInv
  BY <1>1, SeenKept, WindowInvariant, SeriesInvariant, PTL DEF Spec
<1>3. WindowInv /\ SeriesInv /\ SeenInv => NothingUnseen
  <2> SUFFICES ASSUME WindowInv, SeriesInv, SeenInv, mpc = "capture" \/ mpc = "done",
                      NEW i \in DOMAIN arrived, Counted(i), opt[2] <= opt[1],
                      mpc = "done" \/ arrived[i].time < start_time
               PROVE  <<arrived[i].id, arrived[i].time>> \in analysed
    BY DEF NothingUnseen
  <2>1. arrived[i] \in Packet
    BY ElementOfSeq, LenProperties DEF SeriesInv
  <2>2. arrived[i].time \in Times
    BY <2>1 DEF Packet
  <2>3. Times \subseteq Nat
    BY CaptureAssumption
  <2>4. arrived[i].time \in Nat /\ start_time \in Nat
    <3>1. arrived[i].time \in Nat
      BY <2>2, <2>3
    <3>2. start_time \in Times \cup {0}
      BY DEF WindowInv, Typed
    <3>. QED BY <2>3, <3>1, <3>2
  <2>. QED BY <2>4 DEF SeenInv
<1>. QED BY <1>2, <1>3, WindowInvariant, SeriesInvariant, PTL
=============================================================================
