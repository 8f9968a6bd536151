------------------------------- MODULE Threads -------------------------------
(* What the modules about threads of the analyser have in common.           *)

CONSTANTS Threads, \* the threads
          NULL     \* the null pointer, and no thread
=============================================================================
