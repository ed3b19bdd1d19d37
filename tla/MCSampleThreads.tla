---------------------------- MODULE MCSampleThreads ----------------------------
(* SampleThreads on small profiles. An encoded Sample takes no byte or at      *)
(* least two.                                                                  *)
EXTENDS SampleThreads

MCSizes == {0, 2, 5}

\* An index before the vector, inside it, and past its end.
MCWild == {-1, 1, MaxSamples + 1}
================================================================================
