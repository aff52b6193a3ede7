-------------------------- MODULE MCStreamOverflow --------------------------
(* The SYCL stream configured with XKAAPI_OFFLOADER_CAPACITY no larger    *)
(* than the per-stream concurrency: here a three-slot buffer throttled at *)
(* three outstanding instructions, so the throttle no longer keeps the    *)
(* ready queue below capacity - 1 and is_full() alone must refuse.        *)
EXTENDS Stream

OvCapacity == 3
OvConcurrency == 3
OvMaxInstr == 4
=============================================================================
