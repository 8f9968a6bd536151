-------------------------- MODULE MCCapturePipeline --------------------------
(* CapturePipeline for TLC: two captures of different names, which is what *)
(* run_01 makes of names that differ before the first underscore.          *)
EXTENDS CapturePipeline

CONSTANTS a, b

NameOf == [f \in Captures |-> IF f = 1 THEN a ELSE b]
=============================================================================
