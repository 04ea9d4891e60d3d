---------------------------- MODULE MC_Benchmark ----------------------------
(* Instances of Benchmark for TLC.                                         *)
EXTENDS Benchmark, TLC

CONSTANTS c1, c2
=============================================================================
