------------------------------- MODULE MCForkJoin ------------------------------
(* ForkJoin with two loops one after the other: one that is split several      *)
(* times, and an empty or a short one that finds the workers where the first   *)
(* one left them.                                                              *)
EXTENDS ForkJoin

MCLoops == <<7, 0, 3>>
================================================================================
