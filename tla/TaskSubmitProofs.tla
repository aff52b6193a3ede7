-------------------------- MODULE TaskSubmitProofs --------------------------
(***************************************************************************)
(* Proofs about task submission and execution (src/task.cc), for every    *)
(* set of tasks, device count, device list and yield bound.                *)
(***************************************************************************)
EXTENDS TaskSubmit, WellFoundedInduction, TLAPS

\* The GPU ids.
GPUIds == 1 .. (NDevices - 1)

\* The round-robin reduction lands on a GPU id whatever the counter.
LEMMA RRCandidateRange ==
    ASSUME NEW c \in Nat
    PROVE  RR!RRCandidate(c) \in GPUIds
BY TaskAssumption DEF RR!RRCandidate, RR!DeviceIdOf, RR!GlobalIdValues, GPUIds

\* The counter stays a uint8_t value.
LEMMA RRCounterRange ==
    ASSUME NEW c \in Nat, NEW k \in Nat
    PROVE  (c + k + 1) % RR!GlobalIdValues \in 0 .. (RR!GlobalIdValues - 1)
BY DEF RR!GlobalIdValues

\* Subtracting a value's residue leaves a multiple of the modulus.
LEMMA ModMinusResidue ==
    ASSUME NEW a \in Int, NEW m \in 1 .. 255
    PROVE  (a - (a % m)) % m = 0
BY SMT

\* A residue minus a multiple of the modulus has that residue.
LEMMA ModSubMultiple ==
    ASSUME NEW r \in Int, NEW y \in Int, NEW m \in 1 .. 255,
           y % m = 0, r \in 0 .. (m - 1)
    PROVE  (r - y) % m = r
BY SMT

\* Adding (r - c) % m to c reaches the residue r.
LEMMA ModReach ==
    ASSUME NEW c \in Int, NEW m \in 1 .. 255, NEW r \in 0 .. (m - 1)
    PROVE  (c + ((r - c) % m)) % m = r
<1>1. r \in Int /\ (r - c) \in Int BY SMT
<1>2. ((r - c) - ((r - c) % m)) % m = 0 BY <1>1, ModMinusResidue
<1>3. c + ((r - c) % m) = r - ((r - c) - ((r - c) % m)) BY <1>1, SMT
<1>4. (r - c) - ((r - c) % m) \in Int BY <1>1, SMT
<1>5. (r - ((r - c) - ((r - c) % m))) % m = r
  BY <1>1, <1>2, <1>4, ModSubMultiple, Zenon
<1>6. QED BY <1>3, <1>5

\* From a counter value c below 2(n-1) of a wrap, the values c, c+1, ...
\* reduce onto every id 1 .. n-1: some fetch within MaxSkips names a
\* present GPU.
LEMMA RRSomePresent ==
    ASSUME NEW c \in 0 .. (RR!GlobalIdValues - 1)
    PROVE  \E k \in 0 .. RR!MaxSkips : RR!RRCandidate(c + k) \in Present
<1> DEFINE m == NDevices - 1
<1> USE DEF m, RR!GlobalIdValues
<1>0. c \in 0 .. 255 OBVIOUS
<1>1. m \in 1 .. 15 BY TaskAssumption
<1>2. PICK p \in Present : p \in 1 .. m BY TaskAssumption
<1> USE <1>0, <1>1, <1>2
<1>3. CASE c + m <= 256
  \* Before the wrap: the m values c .. c+m-1 have every residue mod m.
  <2>1. ((p - 1) - c) % m \in 0 .. (m - 1) BY <1>1
  <2>2. (c + (((p - 1) - c) % m)) % m = p - 1
    <3>1. (p - 1) \in 0 .. (m - 1) /\ c \in Int /\ m \in 1 .. 255 OBVIOUS
    <3>2. \A r \in 0 .. (m - 1) : (c + ((r - c) % m)) % m = r BY <3>1, ModReach
    <3>3. QED BY <3>1, <3>2, Zenon
  <2>3. (c + (((p - 1) - c) % m)) % RR!GlobalIdValues = c + (((p - 1) - c) % m)
    BY <1>3, <2>1
  <2>4. RR!RRCandidate(c + (((p - 1) - c) % m)) = p
    BY <2>2, <2>3 DEF RR!RRCandidate, RR!DeviceIdOf
  <2>5. ((p - 1) - c) % m \in 0 .. RR!MaxSkips BY <2>1, <1>1 DEF RR!MaxSkips
  <2>6. QED BY <2>4, <2>5
<1>4. CASE c + m > 256
  \* Past the wrap: the counter restarts at 0, which reaches p - 1 in
  \* fewer than m more fetches.
  <2> DEFINE k == RR!GlobalIdValues - c + p - 1
  <2> USE DEF k
  <2>1. k \in 0 .. RR!MaxSkips BY <1>1, <1>2, <1>4 DEF RR!MaxSkips, RR!GlobalIdValues
  <2>2. (c + k) % RR!GlobalIdValues = p - 1 BY <1>1, <1>2 DEF RR!GlobalIdValues
  <2>3. (p - 1) % m = p - 1 BY <1>1, <1>2
  <2>4. RR!RRCandidate(c + k) = p BY <2>2, <2>3 DEF RR!RRCandidate, RR!DeviceIdOf
  <2>5. QED BY <2>1, <2>4
<1>5. QED BY <1>3, <1>4

\* The round-robin loop of xkrt_runtime_submit_task (task.cc:340-350) ends,
\* from any value of the uint8_t counter, after at most 2(n-1)+1 fetches
\* when at least one GPU is present: the bound MaxSkips of SubmitRoundRobin
\* and Pick drops no iteration the code can make, and a round-robin
\* submission always has a device to go to.
THEOREM RoundRobinEnds ==
    ASSUME NEW c \in 0 .. (RR!GlobalIdValues - 1)
    PROVE  \E k \in 0 .. RR!MaxSkips : RR!RRExit(c, k)
<1> DEFINE T == {k \in 0 .. RR!MaxSkips : RR!RRCandidate(c + k) \in Present}
           Lt == OpToRel(<, Nat)
<1> USE DEF T, Lt
<1>1. T # {} BY RRSomePresent
<1>2. T \subseteq Nat BY DEF RR!MaxSkips
<1>3. PICK x \in T : \A y \in T : ~(<<y, x>> \in Lt)
  BY <1>1, <1>2, NatLessThanWellFounded, WFMin
<1>4. \A j \in 0 .. (x - 1) : RR!RRCandidate(c + j) \notin Present
  <2> SUFFICES ASSUME NEW j \in 0 .. (x - 1), RR!RRCandidate(c + j) \in Present
               PROVE  FALSE
    OBVIOUS
  <2>1. x \in 0 .. RR!MaxSkips BY <1>3, Zenon
  <2>2. RR!MaxSkips \in Nat BY TaskAssumption DEF RR!MaxSkips
  <2>3. j \in 0 .. RR!MaxSkips BY <2>1, <2>2
  <2>4. j \in T BY <2>3
  <2>5. <<j, x>> \in Lt BY <1>2, <1>3 DEF OpToRel
  <2>6. QED BY <1>3, <2>4, <2>5
<1>5. QED BY <1>3, <1>4 DEF RR!RRExit

\* The host and the present GPUs are devices of the runtime.
LEMMA DevicesCover ==
    \A x \in {HostId, Unspecified} \cup Present : x # Unspecified => x \in Devices
<1>1. Present \subseteq 1 .. (NDevices - 1) /\ NDevices \in 2 .. 16 BY TaskAssumption
<1>2. QED BY <1>1 DEF Devices, HostId, Unspecified

\* A target other than UNSPECIFIED_DEVICE_GLOBAL_ID is a device.
LEMMA TargetInDevices ==
    ASSUME NEW t \in Tasks, Descr[t].target # Unspecified
    PROVE  Descr[t].target \in Devices
<1>1. Descr[t].target \in {HostId, Unspecified} \cup Present BY TaskAssumption
<1>2. QED BY <1>1, DevicesCover, Zenon

\* A detachable task completes only once it has been posted, whether the
\* post comes before or after its kernel's callback (spec 4.5: a detachable task waits for an
\* explicit post before completing).
DetachedWaitsForPost ==
    \A t \in Tasks :
        (state[t] = "done" /\ Descr[t].detachable) => posted[t]

\* TypeOK, FinalizedOnce and DetachedWaitsForPost together are inductive.
IInv == TypeOK /\ FinalizedOnce /\ DetachedWaitsForPost

\* No task has been submitted: IInv holds.
LEMMA InitIInv == Init => IInv
<1> SUFFICES ASSUME Init PROVE IInv OBVIOUS
<1>1. TypeOK BY TaskAssumption DEF Init, TypeOK, TaskState, Devices, CrashKind, RR!GlobalIdValues
<1>2. FinalizedOnce BY DEF Init, FinalizedOnce
<1>3. DetachedWaitsForPost BY DEF Init, DetachedWaitsForPost
<1>4. QED BY <1>1, <1>2, <1>3 DEF IInv
\* __task_executed leaves the task detached or done, and done only if it
\* is not detachable or was posted.
LEMMA ExecutedStateFacts ==
    ASSUME NEW t \in Tasks
    PROVE  /\ ExecutedState(t) \in {"detached", "done"}
           /\ (ExecutedState(t) = "done" /\ Descr[t].detachable) => posted[t]
BY DEF ExecutedState

\* A queued or launched task has not been executed.
LEMMA NotExecuted ==
    ASSUME IInv, NEW t \in Tasks, state[t] \in {"ready", "queued", "launched"}
    PROVE  nexec[t] = 0
BY DEF IInv, TypeOK, FinalizedOnce

\* xkrt_runtime_submit_task pushes the task to a device of the runtime,
\* whichever branch chooses it, and keeps the counter a uint8_t value.
LEMMA SubmitPushes ==
    ASSUME IInv, NEW t \in Tasks, SubmitTask(t)
    PROVE  \E d \in Devices :
             /\ PushTo(t, d)
             /\ rr' \in 0 .. (RR!GlobalIdValues - 1)
<1> USE TaskAssumption
<1>0. rr \in Nat BY DEF IInv, TypeOK, RR!GlobalIdValues
<1>1. CASE SubmitHost(t)
  BY <1>1 DEF SubmitHost, Devices, HostId, IInv, TypeOK
<1>2. CASE SubmitOwner(t)
  <2>1. PICK o \in {HostId} \cup Present : PushTo(t, o)
    BY <1>2 DEF SubmitOwner
  <2>2. o \in Devices BY DEF Devices, HostId
  <2>3. QED BY <1>2, <2>1, <2>2 DEF SubmitOwner, IInv, TypeOK
<1>3. CASE SubmitTarget(t)
  <2>1. Descr[t].target \in Devices BY <1>3, TargetInDevices DEF SubmitTarget
  <2>2. QED BY <1>3, <2>1 DEF SubmitTarget, IInv, TypeOK
<1>4. CASE SubmitRoundRobin(t)
  <2>1. PICK k \in 0 .. RR!MaxSkips :
          /\ PushTo(t, RR!RRCandidate(rr + k))
          /\ rr' = (rr + k + 1) % RR!GlobalIdValues
    BY <1>4 DEF SubmitRoundRobin
  <2>2. k \in Nat BY DEF RR!MaxSkips
  <2>3. RR!RRCandidate(rr + k) \in Devices
    BY <1>0, <2>2, RRCandidateRange DEF GPUIds, Devices
  <2>4. rr' \in 0 .. (RR!GlobalIdValues - 1)
    BY <1>0, <2>1, <2>2, RRCounterRange
  <2>5. QED BY <2>1, <2>3, <2>4
<1>5. QED BY <1>1, <1>2, <1>3, <1>4 DEF SubmitTask

\* Submitting a task pushes it to a device queue and keeps IInv.
LEMMA SubmitIInv ==
    ASSUME IInv, NEW t \in Tasks, SubmitTask(t)
    PROVE  IInv'
<1> USE TaskAssumption
<1>2. PICK d \in Devices :
        /\ PushTo(t, d)
        /\ rr' \in 0 .. (RR!GlobalIdValues - 1)
  BY SubmitPushes
<1>3. nexec[t] = 0 BY NotExecuted DEF SubmitTask
<1>4. TypeOK'
  BY <1>2 DEF PushTo, IInv, TypeOK, TaskState
<1>5. FinalizedOnce'
  BY <1>2, <1>3 DEF PushTo, IInv, TypeOK, FinalizedOnce
<1>6. DetachedWaitsForPost'
  BY <1>2 DEF PushTo, IInv, TypeOK, DetachedWaitsForPost
<1>7. QED BY <1>4, <1>5, <1>6 DEF IInv
\* The host body runs once more: it yields and is requeued, or the task is
\* executed; IInv is kept.
LEMMA RunHostBodyIInv ==
    ASSUME IInv, NEW t \in Tasks, state[t] = "queued", RunHostBody(t)
    PROVE  IInv'
<1>1. nexec[t] = 0 BY NotExecuted
<1>2. PICK y \in (IF yields[t] < MaxYield THEN BOOLEAN ELSE {FALSE}) :
        LET flag == requeue[t] \/ y
        IN  /\ requeue' = [requeue EXCEPT ![t] = FALSE]
            /\ yields' = [yields EXCEPT ![t] = IF y THEN @ + 1 ELSE @]
            /\ nexec' = [nexec EXCEPT ![t] = IF flag THEN @ ELSE @ + 1]
            /\ state' = [state EXCEPT ![t] = IF flag THEN "queued" ELSE ExecutedState(t)]
            /\ UNCHANGED <<where, posted, rr, crash>>
  BY DEF RunHostBody
<1>3. yields'[t] \in 0 .. MaxYield
  <2>1. y \in BOOLEAN /\ (y => yields[t] < MaxYield) BY <1>2
  <2>2. yields'[t] = IF y THEN yields[t] + 1 ELSE yields[t] BY <1>2 DEF IInv, TypeOK
  <2>3. MaxYield \in Nat /\ yields[t] \in 0 .. MaxYield BY TaskAssumption DEF IInv, TypeOK
  <2>4. QED BY <2>1, <2>2, <2>3
<1>4. TypeOK'
  BY <1>1, <1>2, <1>3, ExecutedStateFacts DEF IInv, TypeOK, TaskState
<1>5. FinalizedOnce'
  BY <1>1, <1>2, ExecutedStateFacts DEF IInv, TypeOK, FinalizedOnce
<1>6. DetachedWaitsForPost'
  BY <1>2, ExecutedStateFacts DEF IInv, TypeOK, DetachedWaitsForPost
<1>7. QED BY <1>4, <1>5, <1>6 DEF IInv

\* xkrt_device_task_execute keeps IInv on each of its outcomes.
LEMMA ExecuteIInv ==
    ASSUME IInv, NEW t \in Tasks, Execute(t)
    PROVE  IInv'
<1>1. nexec[t] = 0 BY NotExecuted DEF Execute
<1>2. CASE Descr[t].fmtnull
         /\ nexec' = [nexec EXCEPT ![t] = @ + 1]
         /\ state' = [state EXCEPT ![t] = ExecutedState(t)]
         /\ UNCHANGED <<where, requeue, yields, posted, rr, crash>>
  <2>1. TypeOK' BY <1>1, <1>2, ExecutedStateFacts DEF IInv, TypeOK, TaskState
  <2>2. FinalizedOnce' BY <1>1, <1>2, ExecutedStateFacts DEF IInv, TypeOK, FinalizedOnce
  <2>3. DetachedWaitsForPost' BY <1>2, ExecutedStateFacts DEF IInv, TypeOK, DetachedWaitsForPost
  <2>4. QED BY <2>1, <2>2, <2>3 DEF IInv
<1>3. CASE /\ state' = [state EXCEPT ![t] = "launched"]
           /\ UNCHANGED <<where, requeue, yields, nexec, posted, rr, crash>>
  BY <1>1, <1>3 DEF IInv, TypeOK, TaskState, FinalizedOnce, DetachedWaitsForPost
<1>4. CASE RunHostBody(t)
  BY <1>4, RunHostBodyIInv DEF Execute
<1>5. CASE \E why \in CrashKind : Crash(why)
  BY <1>5 DEF Crash, IInv, TypeOK, FinalizedOnce, DetachedWaitsForPost
<1>6. QED
  <2>1. (IF where[t] = HostId THEN "no_host_function" ELSE "no_function") \in CrashKind
    BY DEF CrashKind
  <2>2. QED BY <1>2, <1>3, <1>4, <1>5, <2>1 DEF Execute

\* The kernel's completion callback executes a launched task.
LEMMA KernelDoneIInv ==
    ASSUME IInv, NEW t \in Tasks, KernelDone(t)
    PROVE  IInv'
<1>1. nexec[t] = 0 BY NotExecuted DEF KernelDone
<1>2. TypeOK' BY <1>1, ExecutedStateFacts DEF KernelDone, IInv, TypeOK, TaskState
<1>3. FinalizedOnce' BY <1>1, ExecutedStateFacts DEF KernelDone, IInv, TypeOK, FinalizedOnce
<1>4. DetachedWaitsForPost' BY ExecutedStateFacts DEF KernelDone, IInv, TypeOK, DetachedWaitsForPost
<1>5. QED BY <1>2, <1>3, <1>4 DEF IInv

\* task_detachable_post completes a detached task and marks it posted.
LEMMA PostIInv ==
    ASSUME IInv, NEW t \in Tasks, Post(t)
    PROVE  IInv'
BY DEF Post, IInv, TypeOK, TaskState, FinalizedOnce, DetachedWaitsForPost

\* IInv is inductive.
LEMMA NextIInv == IInv /\ [Next]_vars => IInv'
<1> SUFFICES ASSUME IInv, [Next]_vars PROVE IInv' OBVIOUS
<1>1. CASE Next
  BY <1>1, SubmitIInv, ExecuteIInv, KernelDoneIInv, PostIInv DEF Next
<1>2. CASE UNCHANGED vars
  BY <1>2 DEF vars, IInv, TypeOK, FinalizedOnce, DetachedWaitsForPost
<1>3. QED BY <1>1, <1>2

\* __task_executed runs exactly once for every task that is detached or
\* done and never before it, however the host body yields and whether the
\* task ran inline or through a kernel callback, for every set of tasks.
THEOREM FinalizedOnceHolds == Spec => []FinalizedOnce
<1>1. Init => IInv BY InitIInv
<1>2. IInv /\ [Next]_vars => IInv' BY NextIInv
<1>3. IInv => FinalizedOnce BY DEF IInv
<1>4. QED BY <1>1, <1>2, <1>3, PTL DEF Spec

\* The task states, devices, counters and the uint8_t round-robin counter
\* keep their types.
THEOREM TypeCorrect == Spec => []TypeOK
<1>1. Init => IInv BY InitIInv
<1>2. IInv /\ [Next]_vars => IInv' BY NextIInv
<1>3. IInv => TypeOK BY DEF IInv
<1>4. QED BY <1>1, <1>2, <1>3, PTL DEF Spec
-----------------------------------------------------------------------------
(* The refinement of TaskContract. *)

\* The contract's task status, and its detachable tasks.
St == [u \in Tasks |-> Phase(state[u])]
Detach == {u \in Tasks : Descr[u].detachable}

\* Updating one task's state updates its phase only.
LEMMA PhaseExcept ==
    ASSUME NEW f \in [Tasks -> TaskState], NEW t \in Tasks, NEW s \in TaskState
    PROVE  [u \in Tasks |-> Phase([f EXCEPT ![t] = s][u])]
             = [[u \in Tasks |-> Phase(f[u])] EXCEPT ![t] = Phase(s)]
OBVIOUS

\* __task_executed is the contract's execution.
LEMMA PhaseExecuted ==
    ASSUME NEW t \in Tasks
    PROVE  Phase(ExecutedState(t))
             = IF t \in Detach /\ ~posted[t] THEN "executed" ELSE "done"
BY DEF Phase, ExecutedState, Detach

\* A submitted task whose state becomes ExecutedState(t) makes a step
\* Execute(t) of the contract.
LEMMA ExecutedStep ==
    ASSUME TypeOK, NEW t \in Tasks, state[t] \in {"queued", "launched"},
           state' = [state EXCEPT ![t] = ExecutedState(t)],
           UNCHANGED <<where, posted>>
    PROVE  Lifecycle!Execute(t)
<1>1. ExecutedState(t) \in TaskState BY ExecutedStateFacts DEF TaskState
<1>2. St' = [St EXCEPT ![t] = Phase(ExecutedState(t))]
  BY <1>1, PhaseExcept DEF St, TypeOK
<1>3. Phase(state[t]) = "submitted" BY DEF Phase
<1>4. QED BY <1>2, <1>3, PhaseExecuted DEF Lifecycle!Execute, St, Detach

\* A step that changes one task's state within its phase, and neither where
\* nor posted, is a stutter of the contract.
LEMMA PhaseStutter ==
    ASSUME TypeOK, NEW t \in Tasks, NEW s \in TaskState,
           Phase(s) = Phase(state[t]),
           state' = [state EXCEPT ![t] = s], UNCHANGED <<where, posted>>
    PROVE  UNCHANGED Lifecycle!vars
<1>1. St' = [St EXCEPT ![t] = Phase(state[t])] BY PhaseExcept DEF St, TypeOK
<1>2. St' = St BY <1>1 DEF St
<1>3. QED BY <1>2 DEF Lifecycle!vars, St

\* A submission is the contract's Submit(t).
LEMMA SubmitRefines ==
    ASSUME IInv, NEW t \in Tasks, SubmitTask(t)
    PROVE  Lifecycle!Submit(t)
<1>1. PICK d \in Devices : PushTo(t, d) BY SubmitPushes
<1>2. St' = [St EXCEPT ![t] = Phase("queued")]
  BY <1>1, PhaseExcept DEF PushTo, St, IInv, TypeOK, TaskState
<1>3. Phase(state[t]) = "ready" /\ Phase("queued") = "submitted"
  BY DEF SubmitTask, Phase
<1>4. QED BY <1>1, <1>2, <1>3 DEF PushTo, Lifecycle!Submit, St

\* Each outcome of xkrt_device_task_execute is the contract's Execute(t)
\* or a stutter.
LEMMA ExecuteRefines ==
    ASSUME IInv, NEW t \in Tasks, Execute(t)
    PROVE  [Lifecycle!Next]_Lifecycle!vars
<1>0. TypeOK /\ state[t] = "queued" BY DEF IInv, Execute
<1>1. CASE /\ nexec' = [nexec EXCEPT ![t] = @ + 1]
           /\ state' = [state EXCEPT ![t] = ExecutedState(t)]
           /\ UNCHANGED <<where, requeue, yields, posted, rr, crash>>
  BY <1>0, <1>1, ExecutedStep DEF Lifecycle!Next
<1>2. CASE /\ state' = [state EXCEPT ![t] = "launched"]
           /\ UNCHANGED <<where, requeue, yields, nexec, posted, rr, crash>>
  <2>1. Phase("launched") = Phase(state[t]) BY <1>0 DEF Phase
  <2>2. QED BY <1>0, <1>2, <2>1, PhaseStutter DEF TaskState
<1>3. CASE RunHostBody(t)
  <2>1. PICK y \in BOOLEAN :
          state' = [state EXCEPT ![t] =
                      IF requeue[t] \/ y THEN "queued" ELSE ExecutedState(t)]
          /\ UNCHANGED <<where, posted>>
    BY <1>3 DEF RunHostBody
  <2>2. CASE requeue[t] \/ y
    <3>1. Phase("queued") = Phase(state[t]) BY <1>0 DEF Phase
    <3>2. QED BY <1>0, <2>1, <2>2, <3>1, PhaseStutter DEF TaskState
  <2>3. CASE ~(requeue[t] \/ y)
    BY <1>0, <2>1, <2>3, ExecutedStep DEF Lifecycle!Next
  <2>4. QED BY <2>2, <2>3
<1>4. CASE \E why \in CrashKind : Crash(why)
  BY <1>4 DEF Crash, Lifecycle!vars, St
<1>5. QED
  <2>1. (IF where[t] = HostId THEN "no_host_function" ELSE "no_function") \in CrashKind
    BY DEF CrashKind
  <2>2. QED BY <1>1, <1>2, <1>3, <1>4, <2>1 DEF Execute

\* The kernel callback is the contract's Execute(t).
LEMMA KernelDoneRefines ==
    ASSUME IInv, NEW t \in Tasks, KernelDone(t)
    PROVE  Lifecycle!Execute(t)
BY ExecutedStep DEF KernelDone, IInv

\* task_detachable_post is the contract's Post(t).
LEMMA PostRefines ==
    ASSUME IInv, NEW t \in Tasks, Post(t)
    PROVE  Lifecycle!Post(t)
<1>1. state[t] \in {"launched", "detached"} /\ TypeOK BY DEF Post, IInv
<1>2. CASE state[t] = "launched"
  <2>0. state' = [state EXCEPT ![t] = "launched"] BY <1>2 DEF Post
  <2>1. St' = [St EXCEPT ![t] = Phase("launched")]
    BY <1>1, <2>0, PhaseExcept DEF St, TypeOK, TaskState
  <2>2. QED BY <1>2, <2>1 DEF Post, Phase, Lifecycle!Post, St, Detach
<1>3. CASE state[t] = "detached"
  <2>0. state' = [state EXCEPT ![t] = "done"] BY <1>3 DEF Post
  <2>1. St' = [St EXCEPT ![t] = Phase("done")]
    BY <1>1, <2>0, PhaseExcept DEF St, TypeOK, TaskState
  <2>2. QED BY <1>3, <2>1 DEF Post, Phase, Lifecycle!Post, St, Detach
<1>4. QED BY <1>1, <1>2, <1>3

\* Under IInv, every step of the runtime is a step of the contract or a
\* stutter of it.
LEMMA NextRefinesLifecycle == IInv /\ [Next]_vars => [Lifecycle!Next]_Lifecycle!vars
<1> SUFFICES ASSUME IInv, [Next]_vars PROVE [Lifecycle!Next]_Lifecycle!vars OBVIOUS
<1>1. CASE Next
  BY <1>1, SubmitRefines, ExecuteRefines, KernelDoneRefines, PostRefines
  DEF Next, Lifecycle!Next
<1>2. CASE UNCHANGED vars BY <1>2 DEF vars, Lifecycle!vars, St
<1>3. QED BY <1>1, <1>2

\* xkrt_runtime_submit_task, xkrt_device_task_execute, the kernel callback
\* and task_detachable_post implement the task lifecycle for every set of
\* tasks and devices: each task is pushed to one device of the runtime, is
\* executed once, and completes only after its execution and its post.
THEOREM ImplementsLifecycleHolds == Spec => ImplementsLifecycle
<1>1. Init => Lifecycle!Init BY DEF Init, Lifecycle!Init, Phase
<1>2. Init => IInv BY InitIInv
<1>3. IInv /\ [Next]_vars => IInv' BY NextIInv
<1>4. IInv /\ [Next]_vars => [Lifecycle!Next]_Lifecycle!vars BY NextRefinesLifecycle
<1>5. QED BY <1>1, <1>2, <1>3, <1>4, PTL DEF Spec, ImplementsLifecycle, Lifecycle!Spec
=============================================================================
