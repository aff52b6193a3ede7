------------------------------- MODULE Router -------------------------------
(***************************************************************************)
(* The affinity router: RouterAffinity::get_source                        *)
(* (include/xkrt/memory/routing/router-affinity.hpp) over the affinity    *)
(* table the SYCL driver's device_commit fills (src/driver/driver_sycl.cc).*)
(* A bitfield (xkrt_device_global_id_bitfield_t, uint16_t) is the set of  *)
(* its bit positions.  __random_set_bit is not in the tree: its callers'   *)
(* "- 1" shows it returns 1 + the position of a random set bit, 0 for an   *)
(* empty mask.  Every GPU's device_commit runs once, in any order, before  *)
(* the router is queried; a query asks for a source of a copy to a GPU     *)
(* given the devices holding a valid copy.                                 *)
(***************************************************************************)
EXTENDS Naturals

CONSTANT NDevices   \* the host (id 0) and the SYCL devices 1 .. NDevices-1 (2 .. 16)

\* XKRT_DEVICES_PERF_RANK_MAX, and the bit positions of a uint16_t.
PerfRankMax == 4
Ranks == 0 .. (PerfRankMax - 1)
BitIds == 0 .. 15

Devices == 0 .. (NDevices - 1)
GPUs == 1 .. (NDevices - 1)

\* __random_set_bit(m): the values it may return.
RandomSetBit(m) == IF m = {} THEN {0} ELSE {b + 1 : b \in m}

\* device_commit of global id g: rank 0 the device itself, rank 1 the
\* other stack of its GPU as "g even: g + 1, else g - 1", rank 2 the
\* complement of rank 0; rank 3 is not written.
StackOf(g) == IF g % 2 = 0 THEN g + 1 ELSE g - 1

CommitRow(g) ==
    [r \in Ranks |->
        CASE r = 0 -> {g}
          [] r = 1 -> {StackOf(g)}
          [] r = 2 -> BitIds \ {g}
          [] r = 3 -> {}]

\* The least of a non-empty set of ranks.
Least(S) == CHOOSE r \in S : \A q \in S : r <= q

\* get_source(dst, valid) with aff = affinity[dst]: dst itself if valid
\* there; else a random valid device of the lowest rank 0 .. MAX-2 that has
\* one; else a random valid device, (uint8_t)(0 - 1) = 255 if none.
GetSource(dst, valid, aff) ==
    IF dst \in valid THEN {dst}
    ELSE LET hit == {r \in 0 .. (PerfRankMax - 2) : valid \cap aff[r] # {}}
         IN  IF hit # {} THEN {x - 1 : x \in RandomSetBit(valid \cap aff[Least(hit)])}
             ELSE {(x + 255) % 256 : x \in RandomSetBit(valid)}

NoQuery == [dst |-> 0, valid |-> {}, src |-> 0]

VARIABLES
    affinity,   \* affinity[g] for each GPU g, {} until its device_commit
    committed,  \* the GPUs whose device_commit ran
    query       \* the latest get_source call and its result

vars == <<affinity, committed, query>>

Init ==
    /\ affinity = [g \in GPUs |-> [r \in Ranks |-> {}]]
    /\ committed = {}
    /\ query = NoQuery

\* device_commit for GPU g.
DeviceCommit(g) ==
    /\ g \notin committed
    /\ affinity' = [affinity EXCEPT ![g] = CommitRow(g)]
    /\ committed' = committed \cup {g}
    /\ UNCHANGED query

\* A copy to GPU d needs a source; v holds a valid copy.
Query ==
    /\ committed = GPUs
    /\ \E d \in GPUs, v \in SUBSET Devices :
          \E s \in GetSource(d, v, affinity[d]) :
              query' = [dst |-> d, valid |-> v, src |-> s]
    /\ UNCHANGED <<affinity, committed>>

Next == (\E g \in GPUs : DeviceCommit(g)) \/ Query

Spec == Init /\ [][Next]_vars

-----------------------------------------------------------------------------
(* Properties. *)

\* The comment of driver_sycl.cc:285: the two stacks of a GPU have high
\* affinity.  SYCL devices 1, 2 are the stacks of the first GPU, 3, 4 of
\* the second, and so on: with dst invalid and its other stack valid, the
\* source is that stack.
SiblingStackPreferred ==
    LET d == query.dst
        other == IF d % 2 = 1 THEN d + 1 ELSE d - 1
    IN  (d \in GPUs /\ d \notin query.valid /\ other \in query.valid /\ other \in GPUs)
            => query.src = other

\* get_source returns a device that holds a valid copy whenever one does:
\* dst itself, a valid device of the best rank that has one, or a random
\* valid device; only an empty valid mask yields the 255 of
\* router-affinity.hpp:64.
SourceIsValid ==
    query.valid # {} => query.src \in query.valid
=============================================================================
