---------------------------- MODULE MCRoundRobin ----------------------------
(* Round-robin over three GPUs, for which 256 is not a multiple of n - 1. *)
EXTENDS RoundRobin

MCNDevices3 == 4
MCPresent3 == {1, 2, 3}
=============================================================================
