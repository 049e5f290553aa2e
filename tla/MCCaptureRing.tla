--------------------------- MODULE MCCaptureRing ---------------------------
(***************************************************************************)
(* CaptureRing on a small instance: rings of two events and one detail,    *)
(* for which two threads race each other and the collector; a third push   *)
(* before a read overflows.                                                *)
(***************************************************************************)
EXTENDS CaptureRing, TLC

ThreadSymmetry == Permutations(Threads)
=============================================================================
