---------------------------- MODULE TaskContract ----------------------------
(***************************************************************************)
(* The life of a task as the runtime promises it (spec 4.5), whatever the  *)
(* path it takes through src/task.cc: a ready task is submitted to one     *)
(* device of the runtime, it is executed once, and a detachable task       *)
(* completes only once it has been executed and posted, in either order.   *)
(* How it is routed, whether it runs inline or as a kernel, and how often  *)
(* its body yields are hidden.                                             *)
(***************************************************************************)
CONSTANTS
    Tasks,      \* the tasks of the run
    Devices,    \* the device ids of the runtime, host included
    NoDevice,   \* the device of a task not submitted yet
    Detachable  \* the tasks created with TASK_FLAG_DETACHABLE

VARIABLES
    status,     \* per task: "ready", "submitted", "executed", "done"
    device,     \* per task: the device it was submitted to
    posted      \* per task: task_detachable_post was called

vars == <<status, device, posted>>

Init ==
    /\ status = [t \in Tasks |-> "ready"]
    /\ device = [t \in Tasks |-> NoDevice]
    /\ posted = [t \in Tasks |-> FALSE]

\* The task is handed to one device of the runtime.
Submit(t) ==
    /\ status[t] = "ready"
    /\ \E d \in Devices : device' = [device EXCEPT ![t] = d]
    /\ status' = [status EXCEPT ![t] = "submitted"]
    /\ UNCHANGED posted

\* The task is executed: it completes, or waits for its post.
Execute(t) ==
    /\ status[t] = "submitted"
    /\ status' = [status EXCEPT ![t] =
                    IF t \in Detachable /\ ~posted[t] THEN "executed" ELSE "done"]
    /\ UNCHANGED <<device, posted>>

\* A detachable task is posted once; an executed one then completes.
Post(t) ==
    /\ t \in Detachable /\ ~posted[t]
    /\ status[t] \in {"submitted", "executed"}
    /\ posted' = [posted EXCEPT ![t] = TRUE]
    /\ status' = [status EXCEPT ![t] = IF @ = "executed" THEN "done" ELSE @]
    /\ UNCHANGED device

Next == \E t \in Tasks : Submit(t) \/ Execute(t) \/ Post(t)

\* The safety contract.
Spec == Init /\ [][Next]_vars
=============================================================================
