----------------------------- MODULE TaskSubmit -----------------------------
(***************************************************************************)
(* Submission and execution of ready tasks (src/task.cc).                  *)
(*   - xkrt_runtime_submit_task sends a ready task to a device queue: a   *)
(*     host task to the host device 0; a device task to an owner of its   *)
(*     ocr access if the coherency controller names one, else to its      *)
(*     target device, else round-robin (module RoundRobin).               *)
(*   - the worker of that device calls xkrt_device_task_execute: an empty *)
(*     task is executed at once; on a GPU, a format with a function for   *)
(*     the GPU's driver becomes a kernel instruction whose callback       *)
(*     executes the task later, and one with only a host function runs    *)
(*     inline; on the host, the host function runs inline.  A host body   *)
(*     that yields sets TASK_FLAG_REQUEUE and the task is enqueued again  *)
(*     on the same worker.                                                *)
(*   - __task_executed (task.hpp, not in the tree: spec 4.5) completes    *)
(*     the task, or for a detachable task waits for task_detachable_post. *)
(* A task's format, flags and device information are fixed when it is     *)
(* created: they are the constant Descr.  who_owns() is the coherency      *)
(* controller's answer, any set of devices.  LOGGER_FATAL and a failed     *)
(* assert end the process: the variable `crash'.                           *)
(***************************************************************************)
EXTENDS Naturals, FiniteSets

CONSTANTS
    Tasks,      \* the tasks of the run
    NDevices,   \* runtime->drivers.devices.n, host included
    Present,    \* the GPU ids with a device list entry
    Descr,      \* Descr[t]: flags, ocr, target and format of task t
    MaxYield    \* how many times a host body may yield

\* HOST_DEVICE_GLOBAL_ID and UNSPECIFIED_DEVICE_GLOBAL_ID (consts.h).
HostId == 0
Unspecified == 16

Devices == 0 .. (NDevices - 1)

\* The targets a task format may have a function for: the host, and the
\* driver of the GPU the task lands on.
FormatTargets == {"host", "gpu"}

\* What task creation fixes: TASK_FLAG_DEVICE, an ocr access index,
\* targeted_device_id, TASK_FORMAT_NULL, the functions of the format, and
\* TASK_FLAG_DETACHABLE.
TaskDescr ==
    [device : BOOLEAN, ocr : BOOLEAN, target : Devices \cup {Unspecified},
     fmtnull : BOOLEAN, fmt : SUBSET FormatTargets, detachable : BOOLEAN]

ASSUME TaskAssumption ==
    /\ NDevices \in 2 .. 16
    /\ Present \subseteq 1 .. (NDevices - 1) /\ Present # {}
    /\ Descr \in [Tasks -> TaskDescr]
    /\ \A t \in Tasks : Descr[t].target \in {HostId, Unspecified} \cup Present
    /\ MaxYield \in Nat

VARIABLES
    state,     \* per task: "ready", "queued", "launched", "detached", "done"
    where,     \* the device whose queue the task was pushed to
    requeue,   \* TASK_FLAG_REQUEUE
    yields,    \* how many times the task's body yielded
    nexec,     \* how many times __task_executed ran for the task
    posted,    \* task_detachable_post was called
    rr,        \* the low 8 bits of the round-robin counter
    crash      \* "none", or the check that ended the process

\* The round-robin selection, on the counter of this runtime.
RR == INSTANCE RoundRobin WITH rr <- rr, last <- 0

vars == <<state, where, requeue, yields, nexec, posted, rr, crash>>

TaskState == {"ready", "queued", "launched", "detached", "done"}

Init ==
    /\ state = [t \in Tasks |-> "ready"]
    /\ where = [t \in Tasks |-> Unspecified]
    /\ requeue = [t \in Tasks |-> FALSE]
    /\ yields = [t \in Tasks |-> 0]
    /\ nexec = [t \in Tasks |-> 0]
    /\ posted = [t \in Tasks |-> FALSE]
    /\ rr = 0
    /\ crash = "none"

-----------------------------------------------------------------------------
(* Submission: xkrt_runtime_submit_task and its two halves. *)

\* device->push(task) on device d; xkrt_runtime_submit_task_host is the
\* push onto the host device's queue.
PushTo(t, d) ==
    /\ state' = [state EXCEPT ![t] = "queued"]
    /\ where' = [where EXCEPT ![t] = d]
    /\ UNCHANGED <<requeue, yields, nexec, posted, crash>>

\* A task without TASK_FLAG_DEVICE goes to the host.
SubmitHost(t) ==
    /\ ~Descr[t].device
    /\ PushTo(t, HostId)
    /\ UNCHANGED rr

\* who_owns(access) of the ocr access is non-empty: __random_set_bit picks
\* any owner, the host included; an owner holds a valid copy, so it is the
\* host or a present GPU.
SubmitOwner(t) ==
    /\ Descr[t].device /\ Descr[t].ocr
    /\ \E o \in {HostId} \cup Present : PushTo(t, o)
    /\ UNCHANGED rr

\* No owner (or no ocr access) but a target device: the target.
SubmitTarget(t) ==
    /\ Descr[t].device /\ Descr[t].target # Unspecified
    /\ PushTo(t, Descr[t].target)
    /\ UNCHANGED rr

\* Neither: the round-robin loop.
SubmitRoundRobin(t) ==
    /\ Descr[t].device /\ Descr[t].target = Unspecified
    /\ \E k \in 0 .. RR!MaxSkips :
          /\ RR!RRExit(rr, k)
          /\ PushTo(t, RR!RRCandidate(rr + k))
          /\ rr' = (rr + k + 1) % RR!GlobalIdValues

\* xkrt_runtime_submit_task: who_owns() may answer the empty set, which
\* leaves the target or round-robin choice.
SubmitTask(t) ==
    /\ crash = "none"
    /\ state[t] = "ready"
    /\ \/ SubmitHost(t)
       \/ SubmitOwner(t)
       \/ SubmitTarget(t)
       \/ SubmitRoundRobin(t)

-----------------------------------------------------------------------------
(* Execution: xkrt_device_task_execute and the completion paths. *)

\* __task_executed: the task completes, or waits for its post.
ExecutedState(t) ==
    IF Descr[t].detachable /\ ~posted[t] THEN "detached" ELSE "done"

\* Mutant: the yield test without its else, executing a yielded task too.
RunHostBodyNoElse(t) ==
    \E y \in (IF yields[t] < MaxYield THEN BOOLEAN ELSE {FALSE}) :
        LET flag == requeue[t] \/ y
        IN  /\ requeue' = [requeue EXCEPT ![t] = FALSE]
            /\ yields' = [yields EXCEPT ![t] = IF y THEN @ + 1 ELSE @]
            /\ nexec' = [nexec EXCEPT ![t] = @ + 1]
            /\ state' = [state EXCEPT ![t] = IF flag THEN "queued" ELSE ExecutedState(t)]
            /\ UNCHANGED <<where, posted, rr, crash>>

\* Mutant: TASK_FLAG_REQUEUE is tested but never cleared.
RunHostBodyKeepFlag(t) ==
    \E y \in (IF yields[t] < MaxYield THEN BOOLEAN ELSE {FALSE}) :
        LET flag == requeue[t] \/ y
        IN  /\ requeue' = [requeue EXCEPT ![t] = flag]
            /\ yields' = [yields EXCEPT ![t] = IF y THEN @ + 1 ELSE @]
            /\ nexec' = [nexec EXCEPT ![t] = IF flag THEN @ ELSE @ + 1]
            /\ state' = [state EXCEPT ![t] = IF flag THEN "queued" ELSE ExecutedState(t)]
            /\ UNCHANGED <<where, posted, rr, crash>>

\* run_host_task: the host function runs; it may yield by setting
\* TASK_FLAG_REQUEUE.  A set flag is cleared and the task enqueued again on
\* the same worker (xkrt_team_thread_task_enqueue); otherwise the task is
\* executed.
RunHostBody(t) ==
    \E y \in (IF yields[t] < MaxYield THEN BOOLEAN ELSE {FALSE}) :
        LET flag == requeue[t] \/ y
        IN  /\ requeue' = [requeue EXCEPT ![t] = FALSE]
            /\ yields' = [yields EXCEPT ![t] = IF y THEN @ + 1 ELSE @]
            /\ nexec' = [nexec EXCEPT ![t] = IF flag THEN @ ELSE @ + 1]
            /\ state' = [state EXCEPT ![t] = IF flag THEN "queued" ELSE ExecutedState(t)]
            /\ UNCHANGED <<where, posted, rr, crash>>

\* The ways xkrt_device_task_execute ends the process: LOGGER_FATAL("task
\* got scheduled but its format has no valid function"), and
\* assert(format->f[TASK_FORMAT_TARGET_HOST]) before run_host_task.
CrashKind == {"no_function", "no_host_function"}

\* The process ends with the given check.
Crash(why) ==
    /\ crash' = why
    /\ UNCHANGED <<state, where, requeue, yields, nexec, posted, rr>>

\* On a GPU the format has a function for the GPU's driver: a kernel.
OnGpuKernel(t) ==
    /\ where[t] # HostId /\ "gpu" \in Descr[t].fmt

\* On a GPU without such a function, or on the host: the host function.
OnHostFunction(t) ==
    where[t] = HostId \/ "gpu" \notin Descr[t].fmt

\* xkrt_device_task_execute on the worker of where[t] (task_submit passes
\* the device, NULL for the host).
Execute(t) ==
    /\ crash = "none"
    /\ state[t] = "queued"
    /\ \/ /\ Descr[t].fmtnull
          /\ nexec' = [nexec EXCEPT ![t] = @ + 1]
          /\ state' = [state EXCEPT ![t] = ExecutedState(t)]
          /\ UNCHANGED <<where, requeue, yields, posted, rr, crash>>
       \/ /\ ~Descr[t].fmtnull /\ OnGpuKernel(t)
          /\ state' = [state EXCEPT ![t] = "launched"]
          /\ UNCHANGED <<where, requeue, yields, nexec, posted, rr, crash>>
       \/ /\ ~Descr[t].fmtnull /\ OnHostFunction(t)
          /\ "host" \in Descr[t].fmt
          /\ RunHostBody(t)
       \/ /\ ~Descr[t].fmtnull /\ OnHostFunction(t)
          /\ "host" \notin Descr[t].fmt
          /\ Crash(IF where[t] = HostId THEN "no_host_function" ELSE "no_function")

\* Mutant: the callback runs for a task whatever its state, as a callback
\* fired twice would.
KernelDoneUnguarded(t) ==
    /\ crash = "none"
    /\ nexec' = [nexec EXCEPT ![t] = @ + 1]
    /\ state' = [state EXCEPT ![t] = ExecutedState(t)]
    /\ UNCHANGED <<where, requeue, yields, posted, rr, crash>>

\* Mutant: the callback completes the task as if it were not detachable.
KernelDoneIgnoresDetach(t) ==
    /\ crash = "none"
    /\ state[t] = "launched"
    /\ nexec' = [nexec EXCEPT ![t] = @ + 1]
    /\ state' = [state EXCEPT ![t] = "done"]
    /\ UNCHANGED <<where, requeue, yields, posted, rr, crash>>

\* The kernel instruction completes: xkrt_device_task_executed_callback
\* runs __task_executed.
KernelDone(t) ==
    /\ crash = "none"
    /\ state[t] = "launched"
    /\ nexec' = [nexec EXCEPT ![t] = @ + 1]
    /\ state' = [state EXCEPT ![t] = ExecutedState(t)]
    /\ UNCHANGED <<where, requeue, yields, posted, rr, crash>>

\* task_detachable_post, from whatever completes the detached work, once
\* the task has started: it completes a task that already executed.
Post(t) ==
    /\ crash = "none"
    /\ Descr[t].detachable /\ ~posted[t]
    /\ state[t] \in {"launched", "detached"}
    /\ posted' = [posted EXCEPT ![t] = TRUE]
    /\ state' = [state EXCEPT ![t] = IF @ = "detached" THEN "done" ELSE @]
    /\ UNCHANGED <<where, requeue, yields, nexec, rr, crash>>

Next ==
    \E t \in Tasks :
        \/ SubmitTask(t)
        \/ Execute(t)
        \/ KernelDone(t)
        \/ Post(t)

\* Workers keep submitting and executing what their queues hold, the GPU
\* finishes every kernel, and the program posts every detachable task.
Fairness ==
    \A t \in Tasks :
        /\ WF_vars(SubmitTask(t))
        /\ WF_vars(Execute(t))
        /\ WF_vars(KernelDone(t))
        /\ WF_vars(Post(t))

Spec == Init /\ [][Next]_vars /\ Fairness

-----------------------------------------------------------------------------
(* Properties. *)

TypeOK ==
    /\ state \in [Tasks -> TaskState]
    /\ where \in [Tasks -> Devices \cup {Unspecified}]
    /\ requeue \in [Tasks -> BOOLEAN]
    /\ yields \in [Tasks -> 0 .. MaxYield]
    /\ nexec \in [Tasks -> 0 .. 1]
    /\ posted \in [Tasks -> BOOLEAN]
    /\ rr \in 0 .. (RR!GlobalIdValues - 1)
    /\ crash \in {"none"} \cup CrashKind

\* A task is executed exactly once, after its last run: __task_executed has
\* run for it once if it is detached or done and never before, however
\* often its host body yielded and was requeued (task.cc:164-171), and
\* whether it ran inline or as a kernel with a callback.
FinalizedOnce ==
    \A t \in Tasks :
        /\ nexec[t] <= 1
        /\ (nexec[t] = 1 <=> state[t] \in {"detached", "done"})

\* What a task's state shows of its life: queued and launched tasks are
\* submitted, a detached one has been executed.
Phase(s) ==
    CASE s = "ready"                 -> "ready"
      [] s \in {"queued", "launched"} -> "submitted"
      [] s = "detached"              -> "executed"
      [] s = "done"                  -> "done"

\* The task lifecycle of spec 4.5, seen through Phase; the routing, the
\* requeues, the kernel and the crash are hidden.
Lifecycle == INSTANCE TaskContract
    WITH status <- [t \in Tasks |-> Phase(state[t])], device <- where,
         NoDevice <- Unspecified,
         Detachable <- {t \in Tasks : Descr[t].detachable}

\* xkrt_runtime_submit_task and xkrt_device_task_execute implement the task
\* lifecycle: every task goes to a device of the runtime (an owner, its
\* target or the round-robin pick), never moves after, is executed once
\* whether inline, after yields or through its kernel callback, and a
\* detachable one completes only after both its execution and its post.
ImplementsLifecycle == Lifecycle!Spec

\* Every submitted task completes: it reaches a worker, its host body stops
\* yielding, its kernel finishes and its post arrives.
EveryTaskCompletes ==
    \A t \in Tasks : <>(state[t] = "done")

\* Spec 4.5: a device task with a target device runs on that device.
TargetRespected ==
    \A t \in Tasks :
        (Descr[t].device /\ Descr[t].target # Unspecified /\ state[t] # "ready")
            => where[t] = Descr[t].target

\* The assertion of task.cc:156: a task that reaches run_host_task has a
\* host function.
HostFunctionPresent ==
    crash # "no_host_function"
=============================================================================
