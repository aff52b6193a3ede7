------------------------------ MODULE MCStream ------------------------------
(* The SYCL stream for TLC: a four-slot buffer (three usable), throttled   *)
(* at three outstanding instructions, six submissions so that both queues *)
(* wrap around at least once.                                              *)
EXTENDS Stream

MCCapacity == 4
MCConcurrency == 3
MCMaxInstr == 6
=============================================================================
