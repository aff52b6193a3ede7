------------------------------ MODULE MCRouter ------------------------------
(* The host and four SYCL stacks: two GPUs of two stacks each.            *)
EXTENDS Router

MCNDevices == 5
=============================================================================
