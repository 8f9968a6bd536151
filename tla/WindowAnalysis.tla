--------------------------- MODULE WindowAnalysis ---------------------------
(***************************************************************************)
(* What the analyser promises, whatever its threads do: every window of a  *)
(* capture is analysed once, windows may be finished in any order, and the *)
(* program ends, but not before it has analysed all it captured.  Module   *)
(* Detection implements it.                                                *)
(***************************************************************************)
EXTENDS Integers

CONSTANT Windows  \* most time windows a capture has

VARIABLES captured,  \* windows captured so far
          analysed,  \* windows whose analysis is complete
          over       \* the program has ended

vars == <<captured, analysed, over>>

Init == captured = 0 /\ analysed = {} /\ over = FALSE

Capture ==
  /\ ~over /\ captured < Windows
  /\ captured' = captured + 1
  /\ UNCHANGED <<analysed, over>>

Analyse(d) ==
  /\ ~over /\ d \in 1..captured /\ d \notin analysed
  /\ analysed' = analysed \cup {d}
  /\ UNCHANGED <<captured, over>>

Leave ==
  /\ ~over /\ analysed = 1..captured
  /\ over' = TRUE
  /\ UNCHANGED <<captured, analysed>>

Next == Capture \/ (\E d \in 1..Windows : Analyse(d)) \/ Leave

Spec == /\ Init /\ [][Next]_vars
        /\ \A d \in 1..Windows : WF_vars(Analyse(d))
        /\ WF_vars(Leave)
=============================================================================
