--------------------------- MODULE StreamContract ---------------------------
(***************************************************************************)
(* What a stream (xkrt_stream_t, include/xkrt/driver/stream.h) promises    *)
(* its users, whatever its queues do: instruction_new + commit hand out    *)
(* instructions one after the other, and complete_instruction "invokes the *)
(* callback" of instructions that were committed and whose callback has   *)
(* not run yet, one or several per progress pass, in any order, each one  *)
(* eventually.  Only the instructions' numbers and the set of those whose *)
(* callback has run are visible.                                          *)
(***************************************************************************)
EXTENDS Naturals

CONSTANT MaxInstr   \* the number of instructions submitted

VARIABLES
    nsub,   \* the number of instructions committed so far
    fired   \* the instructions whose callback has run

vars == <<nsub, fired>>

\* Committed instructions whose callback has not run.
Unfired == (1 .. nsub) \ fired

Init ==
    /\ nsub = 0
    /\ fired = {}

\* instruction_new followed by commit: the next instruction enters.
Submit ==
    /\ nsub < MaxInstr
    /\ nsub' = nsub + 1
    /\ UNCHANGED fired

\* One progress pass calls complete_instruction on the instructions of S:
\* each callback runs once, for an instruction committed and not yet done.
Complete(S) ==
    /\ S # {}
    /\ S \subseteq Unfired
    /\ fired' = fired \cup S
    /\ UNCHANGED nsub

Next ==
    \/ Submit
    \/ \E S \in SUBSET Unfired : Complete(S)

\* Every committed instruction has its callback run at some pass.
CompletesEventually(i) == \E S \in SUBSET Unfired : i \in S /\ Complete(S)

\* The safety part of the contract.
SafetySpec == Init /\ [][Next]_vars

Spec ==
    /\ Init
    /\ [][Next]_vars
    /\ \A i \in 1 .. MaxInstr : WF_vars(CompletesEventually(i))
=============================================================================
