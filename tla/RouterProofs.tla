---------------------------- MODULE RouterProofs ----------------------------
(***************************************************************************)
(* Proofs about RouterAffinity::get_source                                 *)
(* (include/xkrt/memory/routing/router-affinity.hpp), for every device    *)
(* count a uint16_t bitfield can hold.                                     *)
(***************************************************************************)
EXTENDS Router, TLAPS

\* The ranks get_source scans, 0 .. XKRT_DEVICES_PERF_RANK_MAX - 2.
Scanned == 0 .. (PerfRankMax - 2)

\* Among the scanned ranks that have a valid device, there is a least one.
LEMMA LeastRank ==
    ASSUME NEW S \in SUBSET Scanned, S # {}
    PROVE  /\ Least(S) \in S
           /\ \A q \in S : Least(S) <= q
<1>0. S \subseteq {0, 1, 2} BY DEF Scanned, PerfRankMax
<1>1. \E r \in S : \A q \in S : r <= q
  <2>1. CASE 0 \in S BY <1>0, <2>1
  <2>2. CASE 0 \notin S /\ 1 \in S BY <1>0, <2>2
  <2>3. CASE 0 \notin S /\ 1 \notin S
    <3>1. S = {2} BY <1>0, <2>3
    <3>2. QED BY <3>1
  <2>4. QED BY <2>1, <2>2, <2>3
<1>2. QED BY <1>1 DEF Least

\* Whatever the affinity row, get_source returns a member of a non-empty
\* valid mask of device ids: dst, a valid device of the best rank that
\* has one, or, when no scanned rank has one, (uint8_t)(__random_set_bit
\* (valid) - 1), which is a valid device too.
LEMMA GetSourceValid ==
    ASSUME NEW dst, NEW valid \in SUBSET (0 .. 255), valid # {}, NEW aff
    PROVE  GetSource(dst, valid, aff) \subseteq valid
<1> DEFINE hit == {r \in Scanned : valid \cap aff[r] # {}}
<1> USE DEF hit
<1>1. CASE dst \in valid BY <1>1 DEF GetSource
<1>2. CASE dst \notin valid /\ hit # {}
  <2>1. Least(hit) \in hit BY <1>2, LeastRank
  <2>2. valid \cap aff[Least(hit)] # {} BY <2>1
  <2>3. \A b \in valid \cap aff[Least(hit)] : (b + 1) - 1 = b /\ b \in valid
    OBVIOUS
  <2>4. QED BY <1>2, <2>2, <2>3 DEF GetSource, RandomSetBit, Scanned
<1>3. CASE dst \notin valid /\ hit = {}
  <2>1. \A b \in valid : ((b + 1) + 255) % 256 = b OBVIOUS
  <2>2. GetSource(dst, valid, aff) = {(x + 255) % 256 : x \in {b + 1 : b \in valid}}
    BY <1>3 DEF GetSource, RandomSetBit, Scanned
  <2>3. QED BY <2>1, <2>2
<1>4. QED BY <1>1, <1>2, <1>3

\* The latest query asked about device ids, and its source is valid.
Inv == query.valid \subseteq Devices /\ SourceIsValid

\* A query that has a device holding a valid copy is answered with a
\* device holding one, for every device count up to the 16 bits of
\* xkrt_device_global_id_bitfield_t: RouterAffinity::get_source never
\* names a device without a valid copy when one exists.
THEOREM SourceIsValidHolds ==
    NDevices \in 2 .. 16 => (Spec => []SourceIsValid)
<1> SUFFICES ASSUME NDevices \in 2 .. 16 PROVE Spec => []SourceIsValid OBVIOUS
<1>1. Init => Inv BY DEF Init, Inv, SourceIsValid, NoQuery
<1>2. Inv /\ [Next]_vars => Inv'
  <2> SUFFICES ASSUME Inv, [Next]_vars PROVE Inv' OBVIOUS
  <2>1. ASSUME NEW g \in GPUs, DeviceCommit(g) PROVE Inv'
    BY <2>1 DEF DeviceCommit, Inv, SourceIsValid
  <2>2. CASE Query
    <3>1. PICK d \in GPUs, v \in SUBSET Devices :
            \E s \in GetSource(d, v, affinity[d]) :
               query' = [dst |-> d, valid |-> v, src |-> s]
      BY <2>2 DEF Query
    <3>2. PICK s \in GetSource(d, v, affinity[d]) :
             query' = [dst |-> d, valid |-> v, src |-> s]
      BY <3>1
    <3>3. v \subseteq 0 .. 255 BY DEF Devices
    <3>4. v # {} => s \in v BY <3>3, GetSourceValid
    <3>5. QED BY <3>2, <3>4 DEF Inv, SourceIsValid
  <2>3. CASE UNCHANGED vars BY <2>3 DEF vars, Inv, SourceIsValid
  <2>4. QED BY <2>1, <2>2, <2>3 DEF Next
<1>3. Inv => SourceIsValid BY DEF Inv
<1>4. QED BY <1>1, <1>2, <1>3, PTL DEF Spec
=============================================================================
