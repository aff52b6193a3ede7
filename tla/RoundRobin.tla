----------------------------- MODULE RoundRobin -----------------------------
(***************************************************************************)
(* The round-robin fallback of xkrt_runtime_submit_task_device (task.cc),  *)
(* taken when a device task names neither an owned access nor a target.   *)
(* Each iteration of its loop fetch_adds the shared counter               *)
(* runtime->drivers.devices.round_robin_device_global_id, stores the old  *)
(* value in the uint8_t xkrt_device_global_id_t device_id, reduces it     *)
(* onto the non-host ids 1 .. n-1, and retries while that entry of the    *)
(* device list is NULL.  Only the low 8 bits of the counter reach the     *)
(* reduction, so the counter is kept modulo 256 whatever its width.       *)
(*                                                                         *)
(* The loop is one action.  Concurrent submitters interleave their        *)
(* fetch_adds, but the values that end a loop are handed out in counter   *)
(* order and the values skipped name absent devices, so the sequence of   *)
(* picks is the one a single submitter would make.                        *)
(***************************************************************************)
EXTENDS Naturals

CONSTANTS
    NDevices,   \* runtime->drivers.devices.n, the host (id 0) included, above 1
    Present     \* the ids 1 .. n-1 whose runtime->drivers.devices.list entry
                \* is set, at least one

\* The number of values of xkrt_device_global_id_t (uint8_t).
GlobalIdValues == 256

\* device_id = fetch_add(...): the old counter value truncated to uint8_t.
DeviceIdOf(c) == c % GlobalIdValues

\* device_id = 1 + (device_id % (n - 1)).
RRCandidate(c) == 1 + (DeviceIdOf(c) % (NDevices - 1))

\* The loop started at counter value c ends after k + 1 fetches: the first
\* k candidates have a NULL list entry and the last one is present.
RRExit(c, k) ==
    /\ \A j \in 0 .. (k - 1) : RRCandidate(c + j) \notin Present
    /\ RRCandidate(c + k) \in Present

\* A loop skips fewer than two rounds of candidates.
MaxSkips == 2 * (NDevices - 1)

VARIABLES
    rr,     \* the low 8 bits of round_robin_device_global_id
    last    \* the device of the latest round-robin pick (0: none yet)

vars == <<rr, last>>

\* The counter starts at 0 with the runtime; no device has been picked.
Init ==
    /\ rr = 0
    /\ last = 0

\* One round-robin selection: lines 340-350 of task.cc.
Pick ==
    \E k \in 0 .. MaxSkips :
        /\ RRExit(rr, k)
        /\ last' = RRCandidate(rr + k)
        /\ rr' = (rr + k + 1) % GlobalIdValues

Next == Pick

Spec == Init /\ [][Next]_vars /\ WF_vars(Pick)

-----------------------------------------------------------------------------
(* Properties. *)

\* Reference: the present device following d in the cyclic order 1 .. n-1.
NextPresent(d) ==
    LET later == {e \in Present : e > d}
        least(S) == CHOOSE e \in S : \A f \in S : e <= f
    IN  IF later # {} THEN least(later) ELSE least(Present)

\* Round-robin rotates: the device picked after one picked for d is the
\* next present device after d (spec 4.5: a monotonic counter modulo the
\* device count, skipping absent devices; spec 8: 9 tasks over 3 devices
\* go 3 to each).
RoundRobinRotates ==
    [][last # 0 => last' = NextPresent(last)]_vars
=============================================================================
