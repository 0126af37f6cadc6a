--------------------------- MODULE MCEventQueue ---------------------------
(* EventQueue for TLC; the plausible faults of the code used as mutants.    *)
EXTENDS EventQueue
============================================================================
