---------------------------- MODULE MCTaskSubmit ----------------------------
(* Small task sets over a host and two GPUs.                              *)
EXTENDS TaskSubmit, TLC

CONSTANTS t1, t2, t3, t4, t5

\* A task description of TaskDescr.
D(dev, ocr, tgt, null, fmt, det) ==
    [device |-> dev, ocr |-> ocr, target |-> tgt,
     fmtnull |-> null, fmt |-> fmt, detachable |-> det]

MCNDevices == 3
MCPresent == {1, 2}
MCMaxYield == 2

\* Every path of submission and execution, the fatal ones included:
\*   t1 a host task that may yield;
\*   t2 a detachable GPU-only task with an ocr access and a target;
\*   t3 a round-robin task with both functions;
\*   t4 an empty detachable task with a target;
\*   t5 a task on GPU 1 whose format has no function at all.
MCTasksAll == {t1, t2, t3, t4, t5}
MCDescrAll ==
    t1 :> D(FALSE, FALSE, Unspecified, FALSE, {"host"}, FALSE) @@
    t2 :> D(TRUE, TRUE, 2, FALSE, {"gpu"}, TRUE) @@
    t3 :> D(TRUE, FALSE, Unspecified, FALSE, {"host", "gpu"}, FALSE) @@
    t4 :> D(TRUE, FALSE, 1, TRUE, {}, TRUE) @@
    t5 :> D(TRUE, FALSE, 1, FALSE, {}, FALSE)

\* Tasks every path of which is valid: t2 has a host function here.
MCTasksValid == {t1, t2, t3}
MCDescrValid ==
    t1 :> D(FALSE, FALSE, Unspecified, FALSE, {"host"}, FALSE) @@
    t2 :> D(TRUE, TRUE, 2, FALSE, {"host", "gpu"}, TRUE) @@
    t3 :> D(TRUE, FALSE, Unspecified, FALSE, {"gpu"}, TRUE)
=============================================================================
