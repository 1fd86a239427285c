--------------------------- MODULE MCGpuWatchdog ---------------------------
(* GpuWatchdog on small instances.                                         *)
EXTENDS GpuWatchdog, TLC

CONSTANTS w1, w2, cp, f1

Sym == Permutations(Workers)
=============================================================================
