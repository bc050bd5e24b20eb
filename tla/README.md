# A TLA+ model of lowbit_comm

lowbit_comm compresses the gradients and weights that the ranks of a training job
exchange. A *program* is compiled into an *executable*; `run()` issues
collectives on a process group and returns a *Work*; the caller polls or waits
for it. This directory models that library: the parts whose correctness depends
on the order in which threads, ranks and callbacks run, and the arithmetic of
sizes, shards and schedules they rest on. It checks them
with TLC on small instances, and proves the central properties with TLAPS for
instances of any size.

Paths below are relative to `src/lowbit_comm/` of the repository, unless they
start with `docs/` or `tests/`.

## Inventory

| Component | State | Operations | Talks to | What makes it correct |
|---|---|---|---|---|
| Workspace pool, `runtime/workspace.py` | idle list per key; key, value and flag of each lease | `acquire`, `release` (two critical sections), `_return` | called by whoever launches a run and by `CompletionWork.wait` | a buffer has one owner; nothing is lost, duplicated or lent under another key |
| Works and events, `runtime/work.py`, `runtime/event.py` | event, `_finished`, `_result`, `_error`, lock | `wait`, `query`, the `complete` callback, `release` of the resources | event of a collective, callbacks, pool | completed once; released in order and after use; everyone gets one outcome; a retry only after a reported failure |
| CUDA executables, `backends/cuda/executors.py` | collectives issued, completion pool of 8 threads, buffers | four `run`s, `_finish` in a pool thread or in `wait` | process group, codec, works | ranks issue the same collectives in the same order; a result comes from its own run |
| C++ work, `backends/cuda/csrc/executor/compressed_work.cpp` | `wait_state_`, mutex, condition variable, GIL, cached result or exception | `wait`, `query` | Python callback, c10d work | callback once, no lock cycle, everyone woken |
| DDP adapter, `adapters/ddp/state.py`, `hook.py` | layout generation, residual per key, transactions, pool of 4 workers | hook, `prepare`, `commit`, `abort`, `rebuild` | executable, Future of DDP | no error is lost or fed back twice; each Future is resolved |
| Point-to-point, `backends/cuda/p2p.py` | two tags per logical tag, pool of 4 receiving threads | `isend`, `irecv`, `_finish` | process group, metadata packets | a payload is decoded with its own header |
| Dynamic all-gather, `backends/cuda/dynamic_all_gather.py` | none beyond a run | `run`: headers, validation, payloads | process group, codec | all ranks go on to the second collective or none |
| Transports, `backends/cuda/transports/` | none (plans) | shard plan, ring, tree and hierarchical schedules | executables | shards tile the tensor; schedules reach everybody |
| Codec and backend, `backends/cuda/codec.py`, `backend.py`, `loader.py` | extension handle | payload sizes, capabilities | kernels, compiler | size computed = size written |
| Compiler, `compiler/` | registry of backends | register, verify, choose by evidence, lower, bind | backends | what is bound is what was asked for; only `auto` is changed |
| Core, `core/` | immutable records | metadata packet encoding, shard ranges | everybody | decode inverts encode |
| Reference backend, `backends/reference/` | none | evaluates a program | compiler | the definition others are compared with |
| Sharded adapters, `adapters/sharded/` | master shard, moments, step, refresh flag | optimizer steps, checkpoints, decision, weight deltas | ReducedShard results, the caller's model | ranks decide alike and keep the same weights, near the masters, through restores |
| Kernels and their generators, `backends/cuda/csrc/quantization/` | none | quantize, dequantize, fused reduce | executables | numerics |

What is hard to test here: a release that is two critical sections; waiters
that time out while the event fires; callbacks and releases that raise;
layouts rebuilt while gradients are in flight; collectives issued from pool
threads, whose order each rank chooses for itself; a C++ wait that juggles the
GIL, a mutex and a condition variable; tensors sent as two messages that a pool
of threads matches by position; ranks that decide on their own which collective
comes next, also after a crash or a load that failed half way; padding at the
end of the last shards. `PROJECT.json` lists each with its line.

## Modules

| Module | Models | Uses |
|---|---|---|
| `WorkspacePool` | `runtime/workspace.py` | |
| `OnceWork` | abstract specification: what a Work promises its callers | |
| `CompletionWork` | `runtime/work.py`, `runtime/event.py`, `_CollectiveEvent` | refines `OnceWork` |
| `CompletionWorkProofs` | theorems about it | `CompletionWork` |
| `LeasedWork` | works whose resources are leases of one pool | `WorkspacePool`, and an instance of `CompletionWork` |
| `LeasedWorkProofs` | theorems about the pool and about the works that use it | `LeasedWork` |
| `GradientFeedback` | `adapters/ddp/state.py`, `hook.py` | |
| `GradientFeedbackProofs` | theorems about it | `GradientFeedback` |
| `CudaExecutors` | `executors.py`, `dynamic_all_gather.py`, `native_collectives.py` of `backends/cuda/` on every rank of a group | |
| `CudaExecutorsProofs` | theorems about it | `CudaExecutors` |
| `Packets` | `core/metadata.py`, sizes of `backends/cuda/codec.py` | |
| `PointToPoint` | `backends/cuda/p2p.py` | `Packets` |
| `PointToPointProofs` | theorems about it and `Packets` | `PointToPoint` |
| `Transports` | `backends/cuda/transports/`, `compiler/passes/topology.py`, ranges of `core/values.py` | `Packets` |
| `Compiler` | `compiler/`, both backends' `lower` and `compile`, the constructors in `executors.py` | `Transports` |
| `CompilerProofs` | theorems about it and `Transports` | `Compiler` |
| `ShardedMaster` | `adapters/sharded/` | `Transports` |
| `ShardedMasterProofs` | theorems about it | `ShardedMaster` |
| `NativeWork` | `compressed_work.cpp` | refines `OnceWork` |
| `NativeWorkProofs` | theorems about it | `NativeWork` |
| `MC...` | values of the constants for TLC | one each |

**WorkspacePool.** A `with self._lock` block is one step. `acquire()` is
`Acquire` (`Reuse` pops the idle list, `Allocate` calls the allocator).
`release()` is `MarkReleased` under the lease's lock and, later, `Return` under
the pool's; `returning[t]` says that thread t is between the two. `ReleaseAgain`
is the early return. `allocatedFor` and `peak` are history. `available()` and
`lease.value` change nothing and are not actions.

**CompletionWork.** A thread in `wait()` is "blocked" in `event.wait`,
"entering" the lock, "completing" (in the callback) or "releasing". The
callback and each `release()` are separate steps because other threads run in
between. `TimeOut` may happen although the event has just fired; waits on a
`_CollectiveEvent` never time out, because it drops the timeout, but may raise.
`ReleaseRaises` leaves the `finally` block with `_finished` still False, and the
caller gets the exception (`Refusal`); the next `wait()` completes again.
Outcomes are told apart by the run of `complete()` they come from, refusals too.

**OnceWork.** No threads and no locks: ready, resources given back, one outcome
decided, that outcome handed out. `NativeWork` implements it, and so do the works of
`CompletionWork` whose resources release without raising (`Reliable`). Of the others
`RetriesReported` says what is true.

**LeasedWork.** One module for the path of a buffer: `StartRun` and
`AcquireNext` take the leases of a run, as `tests/v03/runtime/test_workspace.py`
does; then the steps of `CompletionWork` run as they are, except that the
release of a resource is `MarkResource` and `ReturnResource`, the two halves of
`WorkspaceLease.release()`. The early return of `release()` has no action here:
the loop never gets to it (`LoopReleasesEach`).

**GradientFeedback.** One rank. The hook is `ReadGeneration` and `ReadResidual`
(`prepare()` reads the generation outside the lock), then `Launch` or
`LaunchRaises`; `finish()` runs in a worker: `Take`, then `WaitRaises`,
`CommitNonFinite`, `CommitObsolete`, or `CommitStores` followed by
`CallbackRaises` or `Resolve`. `rebuild()` is `CheckRebuild`, outside the lock,
and `ApplyRebuild`, and several threads may be between the two. Every way for a call
to be over resolves its Future (`End`). Tensors are integers and a reconstruction misses by any
member of `Errors`: feedback is about sums, not about encoding. A bucket stands
for identity, shape and dtype of its key. DDP calls a bucket's hook again only
after the previous Future is resolved. `debt` and `before` are history: gradients
minus reconstructions of the calls that committed in the current layout, and the
generation that the last rebuild replaced. `ErrorConserved` is about layouts with
`generation > before`: after two rebuilds that overlapped the generation can be one
that was in use before.

**CudaExecutors.** Each rank makes the runs of `Program` in order with at most
`MaxInFlight` in flight; a run of a kind in `Awaited` may start next to others but
is over before the next one is made. The caller in the repository is the DDP hook
(`adapters/ddp/hook.py:37`): it makes a FullTensor run per bucket (no other CUDA
executable has `reconstruct_local()`) and waits for none, so its `Awaited` is empty
and `executors_two_full` is its case. `executors` is about callers that wait.
The process group (external) pairs the i-th collective of each rank; unequal
signatures hang. "native", "gather" and "shard" have one collective; "full"
issues its second one from a pool thread (`IssueGather`); "direct" is a native
collective without postprocessing; "dynamic" blocks its caller through an
all-gather of headers, `CompareHeaders` and an all-gather of payloads. `schema`
is what the ranks' `CudaDynamicAllGather` objects were built with, and may
differ. Tensor contents are the collectives they came from. `RunRaises` and `FinishRaises` are the exceptions
before and after a collective; handles that themselves raise are not modelled.

**NativeWork.** The winner of the compare-and-swap goes through "transport",
"callback", "completion", "clear", "store", "notify"; the others through
"lock", "check", "block", "asleep", "relock", "regil". `gil` and `mutex` are the
holders. Works with and without a callback are both initial states. Query is that
of a work whose completion is None or not recorded yet.

**Packets.** A header is a sequence of 24 words and stays one: `to_values` and
`from_values` are position by position, with every check. `payload_nbytes` is
the size of a payload.

**PointToPoint.** One sending and one receiving rank. `isend()` is
`IsendMetadata` then `IsendPayload`; `StartWait` and `WaitReturns` are the wait on
its work. `irecv()` posts the receive of a header (`Irecv`); a pool thread takes
the job (`TakeJob`), reads the header and posts the receive of the payload, or
raises (`ReadHeader`), and gets the payload (`ReadPayload`). The transport
(external) pairs the i-th send and the i-th receive of a physical tag; a send is
complete when its receive is posted. A peer of another protocol version may fill
one word of a header differently (`ForeignHeaders`). The pool may have fewer threads
than there are tags with a receive; `Starved` is the state in which all of them wait
for headers that the sender does not come to. Assumed of callers, because
the code does not enforce it: one thread sends, receives on one tag are made one
after the other, and none after one has raised. Neither can be dropped: with
`MaxPerTag = 2`, or without the conjunct of `MayReceive` about failures, TLC
shows a header paired with another tensor's payload (`p2p.py:220`, `:242`).

**Transports.** Operators only: the shard plan, the two kinds of logical range,
ring steps, tree parents and children, node groups and the three stages of the
hierarchical mean. A tensor there is how often it counts each rank's
contribution, and what the sum was divided by.

**Compiler.** One `compile()`, a step per statement: `Verify`, `Resolve`, `Select`,
`RequireSupported`, `Lower`, `Bind`; every `raise` leads to "raised". Backends are
registered before (`Register`). Every program, context and evidence of
`Requests` is an initial state. An executable is its kind and its sizes. The operation (mean or sum) is not in the model: no
code path looks at it after construction.

**ShardedMaster.** Every rank's loop is step, decide, gather, apply. The loop,
its all-gather and its checkpoints are the caller's (external), as in
`tests/v03/distributed/qwd_oracle.py`; the calls inside are the adapter's.
`Crash` starts new processes with arbitrary model copies, `Rollback` keeps the
processes; both load the newest step that every rank saved, and sets of
checkpoints may be torn. `load_state_dict()` takes a checkpoint without a step
(0 then) or without a moment (the old one stays); `kept` is what this caller's
checkpoints have of the three. `LoadFails` is `load_state_dict()` raising at an
entry. Of the checks on a gradient only the one of its size (`Accepts`) is in the
model; layout, world size and rank fit for every gradient of this loop. Numbers are integers; values of the model's dtype are the even ones,
so that the cast of a write-back (`Half`) really loses something, and a
quantized difference misses by a member of `Errors`. AdamW's formula is the
constant `AdamW`. Assumed of callers: gradients are a function of rank and step,
`decide()` is told the same on all ranks, the copies are refreshed while
`requires_fp_refresh` is set, a load that raised is repeated.

Operators named `X_Something` right before `X` are plausible wrong versions of X;
`PROJECT.json` pairs each with the property that excludes it.

## Runs

| Run | Shows | Bounds |
|---|---|---|
| `pool` | exclusive; every workspace in one place of its own key (`Accounted`); allocations = peak use | 2 threads, 2 keys, 3 leases: two holders and a reuser; one workspace per lease |
| `work` | completed once, ordered release, honest `query`, refinement of `OnceWork` (where releases do not raise), no failed release lost (where they do), every `wait` returns | 2 threads; works with and without callback, one with raising releases; 2 resources, 3 attempts |
| `leased` | buffers in flight never shared, everything comes back | 2 threads, 2 runs of 2 equal buffers |
| `feedback` | residuals current and equal to the error left out, Futures resolve | 2 buckets, 1 worker, 2 rebuilding threads, generations 0..3, one failing callback |
| `executors` | for a caller that waits for FullTensor runs: equal collective order, results of the own run only, headers rejected by all or none, everything finishes unless a rank raises | 3 ranks, 6 runs of all kinds, 3 in flight, pool of 1, 1 exception, schemas equal or one different |
| `executors_two_full` | *violated*: outputs of two overlapping FullTensor runs, as the DDP hook makes them, are mixed | 2 ranks, 2 runs, pool of 2 |
| `native` | callback once, no GIL/mutex cycle, refinement, the work gets over | 3 threads: winner, waiter, late caller |
| `native_wakeup` | *violated*: a waiter misses the notification | 2 threads |
| `native_query` | *violated*: `query()` true during the callback | 2 threads |
| `p2p` | payloads meet their headers, foreign headers understood or rejected, everything delivered unless rejected or starved | 3 tags with 1, 2 and 1 tensors (one empty, one with a partial group), pool of 2, one header with one foreign word |
| `plans` | what is bound was asked for and verifies; buffers fit, shards tile; ring, tree and hierarchy do their work | 2 outputs, 6 wires, 5 algorithms, 10 evidences, 3 extensions; 0 to 257 elements on 1 to 5 ranks, all node maps of up to 4 ranks on 3 nodes |
| `sharded` | equal decisions, equal copies, padding untouched, training ends; with complete checkpoints no mixed states, and copies near the masters | 2 ranks, 3 parameters and 1 padding, 4 steps, errors 0 and 3, 1 failing load; 2 restores from complete checkpoints, 1 from those without moments or without step and second moment |

Two actors race in every hazard of the list and a third only repeats one of the
roles; the sets above hold those, and one spare where a role can be taken over
(a third lease, a third thread in C++, a third rank). `MaxAttempts`,
`MaxGeneration`, `MaxCallbackErrors`, `MaxFaults`, `MaxStep`, `SaveSteps`,
`MaxRestores` and `MaxFailures` cap what would otherwise repeat for ever. Four
steps hold a warm-up, two rounds of differences and a periodic refresh; two
restores let a restored run be restored again; after one restore from an incomplete
checkpoint all values are new, so `MaxRestores` is smaller there. Element counts lie on both sides
of a group and leave trailing ranks with nothing but padding. `CHECK_DEADLOCK
FALSE` appears for `CudaExecutors`, `PointToPoint`, `Compiler` and
`ShardedMaster`, whose programs end.

**Fairness.** Threads inside a call keep running (weak fairness on their steps),
user callbacks return, a collective that all ranks have issued completes, and a
communication ends well or badly. Nobody is obliged to call `wait`, `rebuild` or
the hook, no timeout has to expire, no event has to fire. In `NativeWork` the
steps are strongly fair: the GIL and the mutex are handed on to whoever keeps
asking. Spurious wakeups are possible and never relied on. In `PointToPoint` both
callers go on with what they have to send and receive, and a message sent to a
posted receive arrives. In `ShardedMaster` the loops go on; nobody has to save,
and nothing has to fail. `Compiler` has no liveness: it is a straight line.

`TypeOK` is proved for the eight modules with theorems. Only that of
`GradientFeedback` is part of a run; the others name sets, such as all sequences
of messages, that are for the prover rather than for enumeration.

## What the violated runs say

- `executors.py:426`: second collectives are issued in pool-thread order, so two
  FullTensor runs in flight can be paired wrongly across ranks. `hook.py:37` puts
  one in flight per bucket.
- `compressed_work.cpp:153-154`: store and notify without the mutex; the wakeup
  can be lost.
- `compressed_work.cpp:132`: `callback_finished_` is set before the callback runs.

## Readings of the code that are not runs

- `work.py:57-62`: after a `release()` that raises, its waiter gets that exception,
  `_finished` stays False and the next `wait()` calls `complete()` again, so a later
  waiter gets a value, or an `_error` that an earlier run left although the last one
  succeeded. `docs/ARCHITECTURE_BASELINE_ZH.md:320` excludes both ("重复`wait()`返回同一逻辑结果，异常只传播不重复执行callback").
  What is left is `RetriesReported`.
- `work.py:54`: `complete()` starts inside `wait()` although FR-010
  (`docs/SOFTWARE_REQUIREMENTS_ZH.md:122`) forbids it, so a caller who only polls
  never sees such a work complete.
- `state.py:98-104`: `on_commit` may raise after the residual has been stored, so
  a Future fails although its transaction changed the state.
- `state.py:92`: the check of `rebuild()` is outside its lock. Two rebuilds can both
  pass it and leave the lower generation, against the message of line 93
  ("layout_generation must increase on rebuild"). A commit prepared before then fits
  again and puts back a residual that the rebuild had cleared; without its condition
  on `before`, TLC refutes `ErrorConserved` in 18 states.
- `cost_model.py:18-23`: evidence is matched on target, topology and world size.
  `docs/SOFTWARE_REQUIREMENTS_ZH.md:200-201` and `docs/SOFTWARE_DESIGN_ZH.md:240-242`
  ask for an exact match of dtype, bucket (numel), wire, output and error feedback
  as well; `BenchmarkEvidence` has no fields for them, so Auto compresses on
  evidence for another tensor. `OnlyAutoFallsBack` says what the code does, which is
  weaker than those documents.
- `consumer.py:106-110`: a checkpoint without "step" sets it to 0, one without a
  moment leaves the old one, and a copy that raises leaves the new master next to
  old moments with `requires_fp_refresh` unset. The design of qWD
  (`docs/superpowers/specs/2026-08-08-qwd-sharded-parameter-communication-design.md:74-80`)
  says a checkpoint must have step and moments, NFR-002
  (`docs/SOFTWARE_REQUIREMENTS_ZH.md:165`) that a restore must not reuse old state.
  Without `kept = Entries` TLC refutes `StateIsReplay` in 19 states, for either kind.
- `qwd.py:51`: `relative_error` is each rank's own. The same design (line 266) asks
  for a packet that compares the decisions; the code has none, and the model assumes
  equal inputs.
- `p2p.py:153`: with receives outstanding on more tags than the pool's four threads,
  all threads can wait for headers that are sent only after a message whose receive
  is in the queue: both sides then wait for ever (`Starved`, reachable in the run).
- `executors.py:36`: `_CollectiveEvent` drops the timeout, so a `wait(timeout)` lasts
  as long as the collective; one that neither ends nor raises keeps its leases and
  its waiter. `WaitReturns` and `WorkspacesComeBack` are about events that fire.
- `executors.py`: a rank that fails alone leaves its peers to the process group's
  watchdog (`docs/SOFTWARE_DESIGN_ZH.md:247` asks for a common failure).
- `verifier.py:22-47`: FR-003 (`docs/SOFTWARE_REQUIREMENTS_ZH.md:67-68`) asks to
  reject a ReducedShard with an implicit full all-gather and an unrecorded FP
  collective on a quantized wire. ReducedShard with CompressedAllGather, Native,
  or an Auto that falls back to Native is accepted and returns the full tensor;
  Native with a QuantizedWire is lowered to a stage marked with that wire and
  sends full precision. Auto with matching evidence becomes the algorithm that
  restores the tensor also for a ReducedShard: the CUDA constructor rejects it
  (`BoundProgramVerifies`), the reference backend binds it.
- `backend.py:76-96`: Auto with matching evidence raises, and does not fall back,
  when the extension or the fused wire is missing.

## What is proved

Every invariant that a run checks is a theorem for all values of the constants; so
are both refinements of `OnceWork`.
Each proof names an inductive invariant (`IndInv`, and `WorkInv` for works on the
pool), because hardly any of the properties is inductive as it stands.

| Module | Theorems (property) | What `IndInv` adds and why |
|---|---|---|
| `LeasedWorkProofs`, the pool | `PoolSafety` (`ExclusiveLeases`), `PoolAccounts` (`Accounted`), `PoolAllocation` (`AllocationsArePeakUse`) | a duplicate on an idle list breaks exclusiveness one step later, a lease being returned by two threads two steps later: leases are built whole (`LeaseShape`), one thread returns a lease (`OneReturner`). The peak needs that idle and held workspaces add up to the allocated ones, by cardinality (`PeakInv`) |
| `LeasedWorkProofs`, works on it | `BuffersAreNotShared` (`InFlightNotShared`), `FinishedWorksHoldNothing`, `LoopReleasesEach`, `CompositionIsItsParts` | that a buffer is held while it is used is a fact about a lock, a loop variable and a lease at once: a work's leases are those its run asked for, in order (`LaunchInv`), one waiter is in its completion block (`WaiterInv`), a lease is marked only by that waiter's loop, at or behind its cursor (`ReleaseInv`, `Passed`) |
| `CompletionWorkProofs` | `WorkCompletesOnce`, `WorkReleasesInOrder`, `QueryIsFinal`, `RetriesAreReported` (`RetriesReported`), `WorkIsOnceWork` (`ImplementsOnceWork`) | the lock of a work has a holder exactly while one thread is in the completion block (`Places`), its loop variable tells what was released (`Progress`, `Order`), nothing is handed out before (`Delivered`), and each attempt behind the current one was given up with its exception handed out (`Reported`, `GivenUp`) |
| `NativeWorkProofs` | `NativeCallback`, `NativeNoDeadlyEmbrace`, `NativeIsOnceWork` (`ImplementsOnceWork`) | one winner of the compare-and-swap (`OneWinner`), which labels hold the GIL and the mutex (`GilHolders`, `MutexHolders`), which labels have the result and have dropped the resources |
| `GradientFeedbackProofs` | `FeedbackTypes`, `ResidualsStayCurrent`, `FeedbackSafety` (`ErrorConserved`) | a transaction of the current layout still fits the residual it read (`PreparedFits`), no key is ahead of the generation, a checked rebuild still is, the queue holds queued calls once each |
| `CudaExecutorsProofs` | `ExecutorsAgree`, `ExecutorsOutputs`, `ExecutorsSameOutput`, `HeadersRejectTogether` | ranks only see each other through collectives. Each rank's issues are a chain in which a collective determines the next (`Chain`), because a rank issues what follows its latest one (`Tip`), because a run with two collectives is the latest until it is over (`Latest`) |
| `PointToPointProofs` | `HeadersLoseNothing`, `ReceivesMatchSends` | payloads are sent in the order of the calls (`Sent`), only the last receive of a tag is not over (`Posted`), what a receive has read was sent at its place (`Matched`), a job is queued once (`Queued`). The header theorem is a lemma about `to_values` and `from_values`, word by word |
| `CompilerProofs` | `CompilerTypes`, `FallbackIsExplicit`, `SelectionKeepsProgramsValid`, `SizesAreConsistent`, `ShardsAreThePartition`, `RingIsComplete`, `ScheduleIsATree`, `HierarchyIsTheMean` | what each stage of `compile()` has established (`Selected`, `CudaBound`). The last five are about the operators of `Transports` and `Packets`, for all sizes, ranks, roots and node maps |
| `ShardedMasterProofs` | `RanksDecideAlike`, `PaddingIsInert`, `CompleteCheckpointsRestore` (`StateIsReplay`), `CopiesStayEqual`, `ErrorsStayBounded` | how far two ranks can be apart, and that they owe a refresh together (`InStep`); the padding of loadable checkpoints (`Stored`); if all entries are kept, states and loadable checkpoints are replays (`Replayed`); what copies share while one rank has applied a round and another has not (`Copied`); for the errors, `Bounded` |

**Refinements.** Every step of `CompletionWork`, seen on its `Reliable` works, and of
`NativeWork` is a step of `OnceWork` or leaves ready, held, outcome and what was
handed out unchanged. The
steps that decide the outcome are `Finish` and `StoreState`; the invariant is needed
to know that the resources are back by then. `OnceWork` has no fairness, so the
refinement is one of safety.

**Composition.** The pool's theorems are about `WorkspacePool`'s own `Spec`, for any
finite set of leases: their proofs do not use `LeasedAssumption`, by which the leases
of `LeasedWork` are one per buffer of each run. The others are about `LeasedSpec`.
`CompositionIsItsParts` shows that works drive the pool, and the works themselves,
by nothing but their own steps; the pool's `IndInv` therefore holds in the
composition, and the theorems about sharing follow from it and from the `WorkInv`
that links the two.

**Hypotheses.** The theorems that have one state it, and the code needs it:

- `FullAwaited` (`CudaExecutors`): a caller waits for a FullTensor run before it makes
  the next run; those before it may still be in flight. The DDP hook does not meet
  it once two buckets are in flight: run `executors_two_full` is what happens then.
- `OneAtATime` (`PointToPoint`, `ReceivesMatchSends` only): the receives on one tag
  are made one after the other; see the description of the module.
- `AdamWOnIntegers` (`ErrorsStayBounded` only): the constant that stands for
  AdamW's formula maps integers to integers, as all numbers of the model are.

Two properties carry their condition themselves: `ErrorConserved` (`generation >
before`) and, in `ShardedMaster`, `StateIsReplay` and `ErrorsDoNotAccumulate`
(`kept = Entries`). Which conditions the code enforces and which it leaves to its
callers is under "Readings".

The assumptions about constants are types and finiteness: `CompilerAssumption`, for
one, is what the constructors of programs, wires and contexts enforce.

**Recursion.** The recursive functions of the model are proved about through the
equation they satisfy. `Replay` exists and is unique by induction over a set of
numbers (`SetInduction`, from the well-foundedness of the naturals). For the ring
the table of contributions after each step is given in closed form (`Reduced`:
chunk c on rank r holds the ranks from c to r; `Gathered`: it is whole on the last
rank and as many after it as there were steps), shown to satisfy the equation, and
the least place at which another solution differs is shown not to exist. The
sums of the hierarchy are treated the same way over subsets of a finite set
(`TotalOfOne`). `Wrapped`, `DivModUnique`, `Rotation` and `OneShard` are the
arithmetic of ranks and shards.

**Only model-checked.** Liveness (`WaitReturns`, `WorkspacesComeBack`,
`FuturesResolve`, `AllFinish`, `WorkGetsOver`, `AllDelivered`, `TrainingEnds`):
fairness is outside this prover's reach. Of the safety that these rest on,
`NativeNoDeadlyEmbrace`, `LoopReleasesEach` and `FinishedWorksHoldNothing` are theorems.

## Not modelled

- Floating-point numerics of the kernels, and AdamW's formula: outside what TLC
  can enumerate. What the kernels need of sizes and alignment is in `BuffersFit`.
- The kernel generators: they print source text and do nothing at run time.
- `loader.py`, `build.py`: importing and building an extension is I/O; the symbols
  that an import yields are `context.extension`.
- `cuda_executor.cpp`: a factory without state.
- `reconstruct_local()`: quantizes and dequantizes one tensor, keeps nothing; what
  becomes of its result is `GradientFeedback`.
- Memory ordering of CUDA streams and handles that raise by themselves.
- Python's type checks: the model's values have their types.

## Plan

Every safety property has its theorem. What is left:

- `OneAtATime`, `FullAwaited`, `generation > before` and `kept = Entries` are what
  the code asks of its callers without enforcing it. If `rebuild()` comes to check
  under its lock, `irecv()` to order its receives, `load_state_dict()` to refuse
  incomplete checkpoints, or FullTensor runs to order their second collectives, the
  guards move into the model and the conditions go.
- Liveness stays with TLC until the prover handles fairness.
