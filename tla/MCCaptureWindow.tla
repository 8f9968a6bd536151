-------------------------- MODULE MCCaptureWindow --------------------------
(* CaptureWindow for TLC: detections closer than the window is long, and   *)
(* further apart.                                                          *)
EXTENDS CaptureWindow

Overlapping == {<<3, 2>>, <<2, 3>>}
Seconds == 3..9
=============================================================================
