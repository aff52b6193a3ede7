# TLA+ models of the XKaapi runtime (xkrt)

This directory holds TLA+ models of the XKaapi runtime in `src/`. It also
holds the TLC configurations that check the models on small instances and
the TLAPS proofs that hold for every value of their constants.

## 1. The system

xkrt is a task runtime for a host and several GPUs. The parts in the tree
are listed below, with the lines that matter most.

| Part | Source | What it does |
|---|---|---|
| Instruction queue | `include/xkrt/driver/stream.h` | A ring buffer with cursors `r` (first unprocessed entry) and `w` (next free entry), plus `is_full`, `size` and `iterate`. |
| SYCL stream engine | `src/driver/driver_sycl.cc` | `stream_create` builds a stream: two rings (`ready`, `pending`), one `sycl::event` per pending slot, and an out-of-order `sycl::queue`. `stream_instruction_launch` starts a copy and builds its event at the slot. `stream_instructions_progress` visits the pending ring and completes each instruction whose event is complete. |
| Task submission | `src/task.cc` | Picks a device for a ready task: the owner of its ocr access, else its target, else round-robin. It runs host tasks inline (requeuing a task that yielded) and turns device tasks into kernel instructions with a completion callback. |
| Memory | `src/memory.cc` | A lazy, double-checked-locked preallocation of each device memory, plus host and unified allocation, which forward to the driver. |
| Configuration | `src/conf/conf.cc` | A table of `XKAAPI_*` environment variables and their parsers, and a warning for unknown names. |
| Router | `include/xkrt/memory/routing/router-affinity.hpp` | Picks a copy source for a device by affinity rank. |

The parts interact as follows:

- A device thread owns its streams and runs a cooperative loop: it submits
  instructions (the caller side of `instruction_new` and `commit`), launches
  the ready ones, and progresses the pending ones.
- The GPU, through the SYCL runtime, finishes the launched commands
  concurrently and in any order.
- Completion callbacks finalize tasks, and that makes further tasks ready
  for submission.

`instruction_new`, `commit`, `launch_ready_instructions` and
`complete_instructions` are in `stream.cc`, which is not in the tree. They
are modelled from section 4.1 of the spec, and PROJECT.json marks them
`spec_modelled`.

## 2. Modules

- **InstructionQueue**: the ring. A queue is a record `[r, w]` over
  `0..Capacity-1`. `IsFull`, `Size`, `Slots` and `At` are the methods as
  written. `IsFull` is `w = r - 1` on plain integers, as in the C code.
  `IterateExit(q, n, Ok)` characterises the value `iterate(process)` returns:
  `Ok` held at every earlier offset, and offset `n` is the end or fails.
- **Stream**: one SYCL stream. Its variables are:
  - the two rings;
  - the instruction number held in each slot (`rslot`, `pslot`);
  - the `completed` flags;
  - the event state of each pending slot;
  - the number of submissions (`nsub`);
  - the history of callbacks that have run (`fired`).

  Its actions are:
  - `Submit`: the throttle, then `instruction_new` fails when `is_full()`,
    else it writes and commits.
  - `LaunchReady` / `LaunchMoves(n)`: one whole `launch_ready_instructions`
    call that moves `n` entries. It stops when ready is empty or pending
    `is_full()`, and it builds the event of each moved slot.
  - `DeviceComplete(p)`: the SYCL runtime finishes any running command.
  - `ProgressPending` / `ProgressCommits(okp)`: one whole
    `stream_instructions_progress` pass. It runs each newly completed
    callback, destroys its event, and commits the read cursor over the
    completed prefix only.
- **StreamContract**: what a stream promises its users, from the comments
  of `stream.h`. Its state is only `nsub` and `fired`:
  - `Submit` hands out the next instruction;
  - `Complete(S)` runs the callbacks of a non-empty set of committed
    instructions whose callback has not run, in any order;
  - every committed instruction is eventually completed (weak fairness on
    `CompletesEventually(i)`).

  `Stream` instantiates it with its own `nsub` and `fired`, which is the
  refinement mapping: the rings, slots, flags and events are hidden.
- **RoundRobin**: the fallback loop of `xkrt_runtime_submit_task`
  (`task.cc:339-350`). The loop can be written as one operator:
  - `RRCandidate(c)` is `1 + ((uint8_t) c) % (n - 1)`;
  - `RRExit(c, k)` holds when the loop skips `k` absent devices and stops at
    the next one.

  `Pick` is one whole call, which advances `rr` by `k + 1` modulo 256,
  because `fetch_add` returns into a `uint8_t`. The history variable `last`
  is the device the previous call picked.
- **TaskSubmit**: the tasks of a run, with the constant `Descr` holding
  their flags, ocr access, target and format. Its variables are:
  - the state of each task;
  - the queue each task was pushed to;
  - `TASK_FLAG_REQUEUE`;
  - the yield count;
  - `nexec` (how often `__task_executed` ran);
  - `posted`;
  - the round-robin counter;
  - `crash` (a `LOGGER_FATAL` or failed assert ends the process).

  Its actions are:
  - `SubmitTask(t)`: the whole submit. An owner answered by `who_owns` is
    any subset of the host and the present GPUs.
  - `Execute(t)`: the whole `xkrt_device_task_execute`, with one disjunct
    per outcome: an empty task, a kernel, an inline host body (which may
    yield and be requeued), or a fatal exit.
  - `KernelDone(t)`: the completion callback.
  - `Post(t)`: `task_detachable_post`.

  `__task_executed` (`task.hpp`, not in the tree) is `ExecutedState`,
  modelled from spec 4.5. It is one atomic step that tests
  `detachable /\ ~posted`. How the code settles the race between the
  kernel callback and `task_detachable_post` is therefore not explored, and
  no property is stated about that race alone.
- **TaskContract**: the task lifecycle of spec 4.5. Each task goes from
  `ready` to `submitted` on one device of the runtime, to `executed` or
  `done`, and a detachable task is `done` only once it has been both
  executed and posted. `TaskSubmit` instantiates it as `Lifecycle`:
  - `Phase` maps `queued` and `launched` to `submitted`, and `detached` to
    `executed`;
  - `where` is the device;
  - `posted` is `posted`.

  The requeues, the kernel, the round-robin counter and the crash are
  hidden.
- **Allocator**: `memory_device_preallocate_ensure` and
  `memory_device_allocate_on` for threads that touch one device memory
  concurrently. Each line is an action of a thread (`Check`, `Lock`,
  `Recheck`, `Alloc`, `Unlock`, `Carve`). The test under the lock and the
  backend call are separate steps, so only the lock keeps a second thread
  out between them.
  - The unlocked read of `allocated` (line 57) races with the store at
    line 69. `Check` may therefore read the old 0 after the store.
  - The backend allocation may return NULL.
  - `Carve` stands for `device->memory_allocate_on`, which is not in the
    tree and takes the area lock.
- **AllocatorContract**: what first touch promises. `Allocate` backs an
  unbacked memory once, with a pointer or NULL. `Return(t)` lets a thread
  return after that, with the carve of the recorded result. `Allocator`
  instantiates it as `Once` over `allocated`, `chunk0` and `got`. The
  lock, the program counters and the call count are hidden.
- **Conf**: `xkrt_init_conf` as one action, from an arbitrary environment
  drawn from a small set of names and `atoi` results. The action applies
  the defaults, then every `CONF_PARSE` parser in table order with
  `getenv`'s value, NULL included. It then reports unknown `XKAAPI_` names
  and renamed `XKRT_` names.
  - A name is a string, which TLA+ takes as the sequence of its
    characters. `IsPrefix` over it is the `strncmp` of line 278, so a name
    cut inside a word (`XKAAPI_NGPU`) is known exactly as in the code.
  - Every cast is kept as a `%` on its width.
- **Router**: `device_commit` of each GPU in any order writes the affinity
  rows. `Query` then asks `get_source` for a copy to a GPU, given any set
  of devices holding a valid copy. `__random_set_bit` is not in the tree;
  its callers show that it returns 1 + a set bit position, or 0 for an
  empty mask, and the model chooses among those results nondeterministically.

## 3. Runs

| Run | Instance | Checks | Result |
|---|---|---|---|
| `stream_safety` | 4 slots, concurrency 3, 6 instructions | `TypeOK`, `NoLostInstruction`, `EveryInstructionFires`, `ImplementsContract` | pass, 178 states |
| `stream_overflow` | 3 slots, concurrency 3, 4 instructions | `NoLostInstruction` | violated |
| `stream_order` | as `stream_safety` | `FiredInOrder` | violated |
| `rr_wrap` | 3 GPUs, all present | `RoundRobinRotates` | violated |
| `task_safety` | host + 2 GPUs, 5 tasks covering every path, 2 yields | `TypeOK`, `FinalizedOnce`, `ImplementsLifecycle` | pass, 4256 states |
| `task_liveness` | host + 2 GPUs, 3 tasks with valid formats | `EveryTaskCompletes` | pass, 840 states |
| `task_target` | as `task_liveness` | `TargetRespected` | violated |
| `task_host_body` | as `task_safety` | `HostFunctionPresent` | violated |
| `alloc_first_touch` | 3 threads | `TypeOK`, `AllocatedOnce`, `EveryTouchReturns`, `ImplementsOnce` | pass, 312 states |
| `conf_unknown` | 8 names, 4 values | `UnknownWarned` | violated |
| `conf_streams` | as `conf_unknown` | `StreamCountPositive` | violated |
| `router_stacks` | host + 4 stacks | `SiblingStackPreferred` | violated |

What the properties say:

- `FinalizedOnce`: `__task_executed` runs exactly once per task, however
  often its body yielded, whether the task ran inline or through a kernel
  callback.
- `ImplementsLifecycle`: `TaskSubmit` implements `TaskContract!Spec`. A
  task is pushed to a device of the runtime, whichever branch picks it,
  and never moves. It is executed once, whether inline, after yields or
  through its kernel callback. A detachable task completes only after its
  execution and its post. A callback that ignores `TASK_FLAG_DETACHABLE`
  breaks it.
- `EveryTaskCompletes`: every task eventually completes.
- `AllocatedOnce`: the backend allocator is called at most once, and
  `allocated` is set exactly when it was called.
- `ImplementsOnce`: `Allocator` implements `AllocatorContract!Spec`.
  Dropping the test under the lock (line 63) breaks it. What the carve
  makes of a NULL `chunk0` is in `device.cc`, which is not in the tree, so
  the model assumes that the carve fails. No property checks that half on
  its own.
- `EveryTouchReturns`: every thread that touches the memory returns.
- `ImplementsContract`: `Stream` implements `StreamContract!Spec`. Every
  step of the detailed stream either leaves `nsub` and `fired` alone or is
  a contract step: a commit of the next instruction, or a pass running
  callbacks of committed, unfired instructions. Every instruction is
  eventually completed.
- `RoundRobinRotates`: successive round-robin picks go to the next present
  GPU.

The bounds:

- The 5 tasks of `task_safety` take every branch of submit and execute,
  the fatal ones included.
- Two yields exercise the requeue path more than once.
- Three allocator threads allow one thread to allocate while another waits
  on the lock and a third reads the racy flag.
- The Conf values are -1, 1, 256 and 65537. They are the values the
  `MAX(.., 1)`, `uint8_t` and `uint16_t` conversions treat specially.

Why these bounds are enough:

- Four slots leave three usable ones, and six submissions make both rings
  wrap at least once.
- With concurrency 3 against capacity 4, the throttle can fill the ready ring
  to its last usable slot while `r = 0`.

Fairness: weak fairness on `LaunchReady` and `ProgressPending` (the device
thread's loop calls both forever) and on every `DeviceComplete(p)` (the GPU
finishes every command it was given). `Submit` is not fair: the program may
stop submitting.

In TaskSubmit and Allocator, every action of every task or thread is weakly
fair:

- workers loop over their queues;
- the GPU finishes kernels;
- the program posts every detachable task, which spec 4.5 requires of it;
- a lock holder leaves its bounded block.

Without that last assumption, `EveryTouchReturns` would not hold.
`task_liveness` uses only tasks whose formats are valid, because a fatal
path ends every behaviour. Conf's `xkrt_init_conf` runs once, and Router
has no fairness.

### Findings

- `stream_overflow`: `is_full()` (`stream.h:68`) compares `w == r - 1`
  without a modulo. With `r = 0` it never reports full, so the capacity-th
  commit wraps `w` onto `r` and hides every committed instruction. The spec
  says full ⇔ `w == r-1 (mod capacity)`. The default shape (concurrency 8/64
  against capacity 512) never reaches it. A capacity at or below the
  concurrency (`XKAAPI_OFFLOADER_CAPACITY`) does.
- `stream_order`: the `sycl::queue` of a stream is built without `in_order`
  (`driver_sycl.cc:582`), and progress completes every finished event it
  visits. Callbacks therefore run in completion order, while spec 4.1 says
  completion is contiguous from the head.
- `rr_wrap`: `fetch_add`'s result is stored in a `uint8_t` before the
  modulo (`task.cc:344`). With 3 GPUs, counter values 255 and 256 both map
  to device 1.
- `task_target`: the ocr owner is consulted before the target device
  (`task.cc:314`). The spec lists the target first.
- `task_host_body`: `__random_set_bit(owners)` may pick the host
  (`task.cc:329`). The device task is then executed by the host worker,
  which asserts a host function that a GPU-only format lacks.
- `conf_unknown`: `strncmp` over the environ name's own length
  (`conf.cc:278`) counts any prefix of a known name as known.
  `XKAAPI_NSTREAMS` and `XKAAPI_NGPU` are such names; they are never read
  and never warned about. `XKAAPI_NGPUSX`, longer than every known name, is
  warned about.
- `conf_streams`: the stream parsers cast `MAX(atoi(v), 1)` to `uint8_t`
  (`conf.cc:114`), so 256 gives 0 streams.
- `router_stacks`: `device_commit` pairs `(2k, 2k+1)` (`driver_sycl.cc:286`),
  but the SYCL devices start at global id 1. The "other stack" of device 2
  is therefore device 3, a stack of another GPU.

Also seen while modelling: with `XKAAPI_NGPUS` unset, `__parse_ngpus(NULL)`
stores 1 over the `(uint8_t)-1` default. The spec does not say what the
default should be, so no property states one.

## 4. Proofs

- `InstructionQueueProofs` proves the cursor arithmetic for every capacity
  of at least 2:
  - residues of shifted cursors;
  - `WriteAt`: `w` is `size()` steps past `r`;
  - `BackOffset` and `AtInjective`;
  - `SizePush`: how `size()` grows when `w` advances, including the
    wrap-around to 0;
  - `SizePop` and `AtPop`: what advancing `r` does to `size()` and to the
    visited positions.
- `StreamProofs` proves `TypeCorrect`: `Spec => []TypeOK` for every
  capacity, concurrency and number of instructions. `TypeOK` is not
  inductive on its own. The proof uses
  `TypeInv == TypeOK /\ ReadyHeld /\ EventHeld`, where:
  - `ReadyHeld`: every entry between `ready.r` and `ready.w` holds a
    submitted instruction;
  - `EventHeld`: every pending slot with a live event holds one.

  Launch copies `ready` entries, and progress fires the instruction of a
  slot with a complete event, so both facts are needed to show that `fired`
  contains only instructions. TLC checked `TypeInv` as an invariant on both
  stream instances before the proof was written.

- `StreamProofs` proves `NoLostInstructionHolds`:
  `NoOverflow => (Spec => []NoLostInstruction)`, where `NoOverflow` is
  `Concurrency < Capacity`. The default configuration (8 or 64 against 512)
  satisfies it, and `stream_overflow` is the case it excludes. The
  inductive invariant `LostInv` conjoins four facts:
  - `TypeInv`;
  - `Bounded`: the stream holds at most `Concurrency` instructions;
  - `CompletedFired`: a slot marked completed has had its callback run;
  - `HeldUnfired`: `NoLostInstruction` stated by offsets from `r`.

  Why each step preserves it:
  - `Bounded` keeps both rings from wrapping. A submit therefore lands at
    offset `size()` of ready, and a launch moves ready offset `j` to pending
    offset `size() + j` without overwriting a live entry.
  - `CompletedFired` covers the completed prefix that progress drops,
    including instructions completed in an earlier pass.

  `SlotsAt` in `InstructionQueueProofs` (the visited positions are the
  offsets `0 .. size()-1` from `r`) links the offsets to `InReady` and
  `InPending`.
- `StreamRefinementProofs` proves `RefinesContract`:
  `NoOverflow => (Spec => Contract!SafetySpec)`. This is the safety half
  of `ImplementsContract`. The proof shows two things:
  - `Init` maps to the contract's `Init`;
  - every step, under the invariant, is a contract step or leaves
    `<<nsub, fired>>` unchanged.

  The hard case is progress: its newly fired set must contain only
  committed, unfired instructions. The invariant `RefInv` adds FIFO
  numbering to `LostInv`:
  - `ReadyInOrder`: ready holds the consecutive numbers
    `nsub - size() + 1 ..`;
  - `PendingInOrder`: pending numbers are below those and strictly
    increase;
  - `FiredLaunched`: only launched instructions have fired;
  - `UncompletedUnfired`: a slot not marked completed has not fired.

  With these, `ProgressRefInv` shows that each callback a pass runs is for
  a committed instruction that had not fired. `LaunchRefInv` shows that a
  launch keeps the numbering.
- `AllocatorProofs` proves `AllocatedOnceHolds` (`Spec => []AllocatedOnce`)
  and `TypeCorrect` for any set of threads. The inductive invariant adds
  two facts to `TypeOK /\ AllocatedOnce`:
  - `Excl`: every thread inside lines 61-72 holds the lock;
  - `AllocPending`: a thread about to call the backend saw `allocated`
    unset, and no store has happened since.

  `Lock` preserves `Excl` because a free lock means that no thread is
  inside the block. `Alloc` then cannot run twice, because only the lock
  holder is at line 67. The racy read of line 57 needs no assumption: a
  thread that reads a stale 0 still takes the lock and tests again.
  For the refinement below, `CInv` strengthens `IInv` with four facts:
  - `PastAlloc`: a thread past the block finds `allocated` set;
  - `ChunkSet`: `allocated` implies the backend result is recorded;
  - `GotDone`: only a thread that carved has a result;
  - `CarveSeesBackend`: a returned thread's result is the carve of the
    recorded `chunk0`.
- `TaskSubmitProofs` proves `FinalizedOnceHolds` and `TypeCorrect`. They
  hold for every set of tasks, device count, device list and yield bound
  allowed by `TaskAssumption`. The inductive invariant `IInv` adds
  `DetachedWaitsForPost` (a completed detachable task has been posted),
  which the refinement below needs. `IInv` is inductive, given
  `NotExecuted` (a ready, queued or launched task has not been executed).
  The lemmas `RRCandidateRange` and `TargetInDevices` show that every
  submission lands on a device of the runtime.

- `AllocatorProofs` proves `ImplementsOnceHolds`
  (`Spec => ImplementsOnce`) from `CInv`:
  - `Alloc` is the contract's `Allocate`, because `AllocPending` says
    `allocated` is unset at line 67;
  - `Carve` is `Return(t)`, because `PastAlloc` and `GotDone` say a
    carving thread finds `allocated` set and has not returned yet;
  - every other step leaves `allocated`, `chunk0` and `got` unchanged.
- `TaskSubmitProofs` proves `ImplementsLifecycleHolds`
  (`Spec => ImplementsLifecycle`) from `IInv`, with these lemmas:
  - `SubmitPushes`: every branch of the submit pushes the task to a member
    of `Devices`. It is factored out of the `IInv` proof.
  - `PhaseExcept`: updating one task's state changes only its phase.
  - `ExecutedStep`: a step to `ExecutedState(t)` is the contract's
    `Execute(t)`.
  - `PhaseStutter`: a requeue or a kernel launch stays within the phase.
- `TaskSubmitProofs` proves `RoundRobinEnds`. For every device count and
  device list allowed by `TaskAssumption`, and from every counter value,
  some `k` in `0 .. MaxSkips` satisfies `RRExit(c, k)`. So the loop of
  `task.cc:340-350` ends within `2(n-1)+1` fetches, and the bound on `k`
  in `SubmitRoundRobin` and `Pick` drops no iteration of the code.
  - If the counter does not wrap within `n-1` fetches, the witness is
    `(p - 1 - c) % (n-1)` for a present GPU `p`. The lemmas
    `ModMinusResidue`, `ModSubMultiple` and `ModReach` do the modular
    arithmetic.
  - Otherwise, the witness is the fetch that reaches `p - 1` after the
    wrap to 0.
  - The least such `k` exists by `WFMin` with `NatLessThanWellFounded`.
    That least `k` is the exit of the loop.
- `RouterProofs` proves `SourceIsValidHolds`:
  `NDevices \in 2 .. 16 => (Spec => []SourceIsValid)`. Given a non-empty
  valid mask, `get_source` returns a device that holds a valid copy,
  whatever the affinity rows (`GetSourceValid`, with `LeastRank` for the
  best rank). TLC checked `SourceIsValid` on the 5-device router
  instance. No run lists it, because the router's run is the
  `SiblingStackPreferred` violation.

TLC checked every inductive invariant as an invariant of the runs before
its proof was written.

The following stay with TLC only:

- liveness (`EveryInstructionFires`, `EveryTaskCompletes`,
  `EveryTouchReturns`, and the fairness half of `ImplementsContract`;
  `AllocatorContract` and `TaskContract` have no fairness, so their
  refinements are proved whole),
  which needs fairness and ENABLED;
- the violations.

## 5. Not modelled

- The data distribution helpers and the host/io_uring driver: only their
  declarations are in the tree.
- The dependency graph and the coherency controller: the spec describes
  them, but none of their code is in the repository.
- The parsing of `XKAAPI_DRIVERS`, `XKAAPI_HELP` and `XKAAPI_VERBOSE`:
  they act on the driver table and on the logger, not on the fields of the
  configuration.
- Host and unified memory allocation: they forward to the driver. The
  spec (line 42) says that unified allocation falls back gracefully when
  the driver lacks it. `memory.cc:156` instead calls `LOGGER_FATAL`, and
  the SYCL driver registers neither allocator. This divergence is recorded
  here, not as a run: the call is a single branch with no state to
  explore.
- The SYCL `init` binding GPUs to driver ids (`driver_sycl.cc:97-138`). It
  returns 0 even when fewer GPUs than requested were bound. Its
  `ndevices_max` counts every device of every platform. The caller that
  would use an unbound id is not in the tree, so this is listed as a
  hazard only.
- The SYCL init, cpuset, device_info and memory-info entry points: they only
  forward to the vendor API.
- The stream barrier: `xkrt_stream_t::wait_pending_instructions` is
  declared in `stream.h` but defined nowhere, and the SYCL
  `stream_instructions_wait` returns 0 at once (its synchronisation is
  under `#if 0`).  Nothing in the tree calls either, so the spec's
  "size() == 0 after the wait returns" has no code to check; it is listed
  as a hazard.
