# A TLA+ model of Intel Extension for TensorFlow (ITEX)

This directory models the parts of ITEX whose correctness depends on the order
of events or on how pieces fit together rather than on numerical code: the
device memory allocator, the collective operations, the thread pools, the oneDNN
objects that kernels keep between executions, and two graph passes, mixed
precision and memory optimisation. TLC checks the models on small instances,
TLAPS proves their safety properties for every instance.
`PROJECT.json` says, for every definition, which lines of the source it stands
for, and lists the runs, the mutants that show each property can fail, the
findings, the hazards and the theorems.

Paths below are relative to `src/itex/core/` unless they start with `src/`.

## 1. Inventory

ITEX is a plugin: TensorFlow calls it through the StreamExecutor, kernel, graph
and profiler C APIs, on TensorFlow's threads, many at a time.

| Component | State | Operations | Interacts with | What is hard |
|---|---|---|---|---|
| **BFC allocator** `devices/bfc_allocator.{h,cc}`, `devices/allocator.h` | chunks, bins, regions, list of free handles, size of the next region, total of all regions | `AllocateRaw`, `DeallocateRaw`; inside them split, coalesce, extend | called by the device plugin on any thread, calls the driver's malloc | long sequences of calls; a driver that refuses; retry loops; sizes at boundaries and wrap-around |
| **CollectiveManager** `kernels/gpu/collective_ops.{h,cc}` | collectives under assembly by key, communication stream of each device | `AddToAllReduce`, and the run of a complete collective | called by `ItexAllReduceSend` on a thread per op; submits to streams of all devices; calls back TensorFlow | threads, queues and callbacks interleave; several collectives share the devices; participants disagree |
| **All-reduce kernels** `LaunchAllReduceKernel` in `collective_ops.h`, `utils/gpu_helper.h` | none; a division of a tensor | one kernel per rank | launched by the manager | empty slices, tails, partial vectors |
| **Thread pools** `utils/onednn/mkl_threadpool.h`, `utils/threadpool.cc`, `utils/blocking_counter.h` | counter word, notification, lock; queued closures | `parallel_for`, `ParallelForFixedBlockSizeScheduling`, `DecrementCount`, `Wait` | called by oneDNN and by kernels; schedule on Eigen's pool | lost wake-up, a counter used after its caller returned, block loops that wait on the pool's own threads, uneven division |
| **oneDNN kernels and caches** `kernels/common/{matmul_op,batch_matmul_op,conv_ops,quantized_conv_ops,layer_norm_op}.h`, `utils/onednn/onednn_util.{h,cc}` | primitive, memory objects and arguments of an earlier execution; weight and bias caches | `Compute`, `Init`, `IsEmpty`, `SetCache`, `GetCache` | executed by TensorFlow on several threads, with other shapes each time | stale objects; failures half way through `Init` or through filling a cache; three critical sections where one is meant |
| **Auto mixed precision** `graph/auto_mixed_precision/` | sets of nodes to change and to leave | eight passes over the graph, then the rewrite | graph optimizer; TensorFlow's grappler | the passes depend on each other's order; loops; tensor lists |
| **Memory optimisation pass** `graph/memory_opt_pass/` | in-place and constant-filter attributes of nodes, packed constants | `StaticInplaceOpt`, `WeightCacheOpt` | graph optimizer; the kernels that act on the attributes, in every later run | promises about executions in any order, made from the shape of the graph |
| AllocatorPool `devices/gpu/gpu_pool_allocator.h` | one allocator per device | lookup | plugin, runtime | initialised once, read only |
| GPU runtime `devices/gpu/itex_gpu_runtime.cc` | pools of devices and streams, current device | create, destroy, synchronise streams; copies | plugin | shared vectors without a lock, a copy where a reference is meant |
| Device plugin `devices/gpu/gpu_device_plugin.cc` | streams, events, statistics | the StreamExecutor callbacks | TensorFlow, runtime, allocator | callbacks that outlive their caller |
| Graph optimizers `graph/` | a GraphDef | remapper, layout and oneDNN graph passes | TensorFlow's grappler | meaning of the ops |
| TensorArray, resource manager, reference counts | elements and their life cycle | read, write, gather | kernels | copied from TensorFlow |
| Profiler, kernels, shape inference, IR, XPUAutoShard, wrapper, Python | | | | data or glue, see section 7 |

What makes each of the modelled parts correct:

* the allocator: nobody is given memory somebody else holds; chunks tile the
  regions; free chunks are findable and merged; no handle leaks; the pool
  stays within its limit, grows only when it must; a call returns, however often
  the driver refuses;
* the manager: whoever uses a result after an OK callback sees all of it; no
  kernel uses a tensor after its callback; the participants of a collective
  all get one, and the same, answer;
* the all-reduce kernels: every element is reduced once, and nothing else is
  written;
* the thread pools: every iteration is executed exactly once before the call
  returns; no task touches the call's counter afterwards; no wake-up is lost, so
  a call returns while the pool has a thread left for its tasks;
* a oneDNN kernel: an execution computes from its own inputs, in the layout and
  for the shapes its primitive expects, whatever was executed before it; after a
  failure it does not go on with the buffers of an earlier execution; it computes
  unless there is nothing to compute;
* mixed precision: the graph is well typed afterwards, what is numerically
  dangerous stays in float32, a tensor list has one type, and no cast is put
  where the runtime cannot have one;
* memory optimisation: whatever a kernel overwrites, caches or packs because a
  mark says it may, nobody else still needs, in any run of the graph.

## 2. Modules

```
AllocatorSpec  <-- implemented by --  BFCAllocator  <-- MCBFCAllocator (TLC)
                                          ^------------- BFCHeapProofs <-- BFCAllocatorProofs (TLAPS)

AllReduceSlices  <-- AllReduceKernel  <-- MCAllReduceKernel (TLC)
       ^                   ^------------- AllReduceProofs (TLAPS)
       +------------ CollectiveManager <-- MCCollectiveManager (TLC)
                           ^------------- CollectiveManagerProofs (TLAPS)

ThreadPool      <-- MCThreadPool (TLC),     ThreadPoolProofs (TLAPS)
OneDnnKernel    <-- MCOneDnnKernel (TLC),   OneDnnKernelProofs (TLAPS)
MixedPrecision  <-- MCMixedPrecision (TLC), MixedPrecisionProofs (TLAPS)
MemoryOptPass   <-- MCMemoryOptPass (TLC),  MemoryOptPassProofs (TLAPS)
```

MemoryOptPass composes the optimizer with the executor that runs its result; the
oneDNN kernel that caches a filter because of an attribute is `is_filter_const_`
in OneDnnKernel, and what that attribute promises is `FiltersStay` in
MemoryOptPass.

### BFCAllocator, AllocatorSpec

`AllocatorSpec` is the contract of `allocator.h`: `AllocateRaw` returns nullptr
or a block of device memory nobody holds, until it is given back. `BFCAllocator`
is the implementation, and the run `bfc_pool` and the theorem `Refinement` show
that it implements the contract (`memory` is mapped to the grains of all
regions, `blocks` to what clients hold).

Every address and size in the allocator is a multiple of `kMinAllocationSize`,
so the model counts in grains of that size; only requests and limits are in
bytes. The data structures are one record, `heap`, with the source's names
(`chunks_`, `free_chunks_list_`, `bins_`, `regions_`; `handles_` is the slot
arrays of all regions in one function), and the private member functions
(`SplitChunk`, `Merge`, `TryToCoalesce`, ...) are operators from heaps to heaps.
`heap.fatal` becomes TRUE where an `ITEX_CHECK` would fail.

A call holds `lock_` until it returns, so it is one step, but for the loops of
`ExtendLarge`: a turn of the doubling loop (`GrowRegionSize`) and of the
backpedal loop (`Backpedal`) is a step, so that a loop that does not end is a
behaviour that does not end. Nobody else runs meanwhile: the lock is held.
`turn` changes with every turn, since a turn that changes no variable would
otherwise be indistinguishable from doing nothing. The unsigned arithmetic of
`available_bytes` and of the doubling is modulo `GrainModulus`, 2^64 bytes in
the program. `ITEX_GPUMalloc` is one call of SYCL, whose allocator is external: it
returns any free stretch of the address space or refuses. The clients free what they hold or
nullptr; what the allocator does for a pointer it never returned is outside its
contract. Addresses are those of a fresh process, `allocation_id` is 0 for every
chunk in use, as in the code.

### AllReduceSlices, AllReduceKernel

`AllReduceSlices` holds the division as operators with the source's names:
elements into vectors, vectors into one slice per rank with the rest to the last
rank, slices into turns of work items; a turn stores a vector, whole or in part.
`AllReduceKernel` launches the kernels of one all-reduce in the order of the
ranks and collects their turns.

### CollectiveManager

One thread per op. `ComputeAsync` first allocates the op's output: if that fails
(`AllocateFails`) it calls the op back with the error, and the manager never hears
of the op. Otherwise `AddParticipant` is the whole critical section under `mu_`:
find or create the collective of the key, record a disagreement in its status,
append the participant, and take the collective out of the map when it is
complete. The thread that completed it goes on alone, one step for each
submission or wait, in the order of the code:

| Action | Code |
|---|---|
| `BarrierTensor`, `BarrierComm` | first loop of `RunCollective`: the communication stream of a participant waits for its tensor stream |
| `WaitInputs` | first loop of `RunAllReduce`: `comm_stream->wait()` for each rank |
| `LaunchKernel` | the kernel of a rank, none for an empty slice |
| `WaitKernels` | last loop of `RunAllReduce` |
| `JoinComm`, `JoinTensor` | second loop of `RunCollective`: the tensor stream waits for the communication stream |
| `Callback` | `done_callback(status)` of each participant, also on the error paths |

A stream is an in-order SYCL queue (external): `queue[s]` holds the submitted
commands, and `Execute` runs the first one when the event it waits for has
happened. `wait()` waits for what was last on the stream when it was called. A
reducing kernel uses the tensors of all participants; it reduces only vectors
whose inputs have all been computed and have not been overwritten, since
`forward_input_or_allocate_output` may make the output the same memory as the
input. TensorFlow's own kernels that write the input (`LaunchProducer`) and read
the output (`LaunchConsumer`) are external.

Left out because the code cannot vary them: the collective's type is always
all-reduce, `root_rank` is always -1 and `status_` of the manager is never set
to an error; unsupported data types are excluded by the op's attribute; more
than `MAX_RANK_SIZE` participants end the process (`ITEX_LOG(FATAL)`) and are
excluded by `CasesAssumption`.

### ThreadPool

Each thread has a stack of frames: a call of `parallel_for` or of the
fixed-block-size loop, with the `BlockingCounter` that is its local variable, or
a closure (task) of such a call, which refers to it. A task is run by a thread
of the pool, or by the thread that wanted to schedule it when Eigen's queues are
full; so calls and tasks nest. A nested block loop is called on whatever thread
runs `fn`, the pool's own included: `threadpool.cc:171-206` asks nothing of its
caller, and `counter.Wait` (205) then blocks a thread of the pool. For
`parallel_for` oneDNN asks `get_in_parallel` first, and calls `fn` itself on a
thread of the pool. Closures of the pool that belong to neither function are left
out.

| Action | Code |
|---|---|
| `parallel_for`, `ScheduleJob`, `EndSchedule`, `OwnJob` | `MklDnnThreadPool::parallel_for` |
| `ParallelForFixedBlockSizeScheduling`, `StartRoot`, `SplitRange` | the function of that name and its `handle_range` |
| `RunTask` | `fn` for the iterations of a task, a further parallel region inside it included |
| `WaitFetchOr`, `WaitLocked`, `SpuriousWakeup` | `BlockingCounter::Wait`: the atomic word, then lock, test and sleep |
| `DecrementCount`, `Notify`, `Unlock` | `BlockingCounter::DecrementCount`: the atomic word, then `notified_` under `mu_`, then its release |
| `Return` | the call ends and the counter is destroyed |
| `Take` | a thread of the pool takes a task (external) |

`balance211`, `run_jobs`, `NumShardsUsed...` and the midpoint of `handle_range`
are the source's formulas. The order between atomic accesses is that of the
acquire-release operations the code uses. `TransformRangeConcurrently` and
`ParallelFor` with a block size only forward to the second function; with a cost
model `ParallelFor` is Eigen's own `parallelFor`.

### MixedPrecision

One action per pass of `AutoMixedPrecisionImpl::Optimize`, in its order, each
over the whole graph. A vertex is a type attribute of a node, as in
`GraphTypeTopologyView`. The breadth- and depth-first traversals of the code are
one operator, the set reached along edges through the vertices the callback
enters. The four lists of ops are a class of each vertex; devices, nodes to
preserve and kernel registrations are the sets `process` and `supports`. The
last action changes types and inserts the casts. `ConvertBatchNormOpsToV2` is
abstracted to the vertex having the V2 op from the start.

### OneDnnKernel

The kernel object of one node, executed by several threads. An execution has a
number, which stands for its buffers and what is in them, so "the output of this
execution was computed from its own inputs" is a statement about numbers. The
kinds differ in what their `Compute` keeps and in what order: `MatMulOp`,
`BatchMatMulOp` and `ConvOpBase` under `mu_compute_`, the layer norm without.

| Action | Code |
|---|---|
| `Compute` | entry of `Compute`, `mu_compute_`, the choice between `Init` and the objects kept |
| `SetMemory` | the fast path, `InitOrSetMemory` and its kin: data handles are replaced, those of the output only if it and the scratchpad could be allocated |
| `InitShapes`, `InitEmpty`, `InitFails`, `FinishInit` | `Init`: empty and invalid shapes, a failure after it has begun, the new objects |
| `CheckWeightCache`, `SetCache`, `GetCache`, `UseCache`, `ReorderWeights` | the caches of `onednn_util`, one critical section per step |
| `LayerNormStart`, `Execute`, `Return` | the rest of `Compute` |

oneDNN is external: it prefers some weight layout for the shapes at hand, and it
may throw wherever the code calls it to make an object or to reorder. Inside the
try block of `Init` or of the layer norm that is an error of the execution, which
may leave a cache half filled (`HalfFilled`). Outside of one, and in
`allocate_persistent`, which aborts when it fails, the process ends: place
`ended`, after which nothing runs. The same happens when `Init` was left early,
for whatever reason, and `Compute` executes a primitive that has no arguments
(`Execute`).

### MemoryOptPass

First the pass, one action for each node it looks at: `StaticInplaceOpt` and
`InplaceInference` with its explicit stack, `WeightCacheOpt` with
`CheckConstFilter` and `WeightPrePack`. Grappler may run an optimizer again, so
there are up to two passes; attributes of the first stay for the second. Then up
to two runs of the graph (external): `Start` takes an input's buffer for the
output if it is marked (`set_output`, `kernels/common/matmul_op.h:515-545`, or
the runtime's own forwarding, which is exact) and `Finish` writes it, in any
order the edges allow, several ops at a time. `holds` says whose value each
buffer holds, and so whether what an op reads is still what it should read.

The marks the oneDNN graph pass leaves (`graph/onednn_graph/onednn_graph.cc:2333-2404`)
are part of the initial graph: nodes of the kinds `llga` and `eltwise`. Kinds of
ops stand for the rules of the pass, not for single ops.

## 3. Runs

| Run | Question | Instance and why it is enough |
|---|---|---|
| `bfc_pool` | are the pool's structures consistent, is every allocation best fit, does it implement the contract? | 7 grains, 2 bins, modes 1, 2 and an invalid one, six request sizes from 0 to more than the limit. Enough for chunks with two neighbours to merge on either side, several regions, chunks that are and are not split, the last bin holding several sizes, and a limit that is reached. States that differ only in the number of a chunk handle are identified by `PoolView`: no operation depends on it |
| `bfc_returns` | does a large call return? | requests of 10 and 17 grains and a `size_t` of 6 bits: the size of the next region goes from 40 to 16, 32 and 0, so it wraps around both to something and to nothing |
| `allreduce_slices` | is each element stored exactly once, and nothing beyond the tensor? | all tensors of up to 17 elements, two vector sizes, up to 3 ranks and 4 work items: empty slices, uneven slices, one turn and several, with and without tails |
| `allreduce_overrun` | is the last vector stored in part? | section 6 |
| `collective_streams` | are results complete, tensors left alone after the callback, and is everybody called back alike? | a collective of two ops on two devices beside one of a single op on the first of them, or one of three ops on three devices, called in any order; agreeing, or with one op that disagrees in data type, reduction, number of devices or number of elements. Any op may fail to allocate its output. Uneven slices, and a case in which a rank has no kernel. Liveness bounds the instance; the safety properties are also proved for any number of ops, keys and devices |
| `threadpool_calls` | every iteration once, no dangling counter, does every call return? | a pool of 2 threads whose queue holds 1 task, one calling thread, 2 or 4 CPUs (with and without a job for the caller), up to 3 iterations, all block sizes, nested calls of up to 2 iterations and frames 2 deep: uneven shares, full queues, ranges split in several ways, both threads of the pool caught in block loops of their own. Liveness bounds the instance; the safety properties are also proved for all sizes |
| `amp_painting` | is the rewritten graph right? | about 17,800 graphs: all connected acyclic ones of four ops, three ops with one that may not be changed, is quantized or reads a variable, loops with one and two Merges, tensor lists, Casts, other types |
| `amp_unsafe` | does deny spread along every path the comment names? | section 6 |
| `onednn_objects` | does an execution see only its own data? | four executions on two threads (symmetric), 50 combinations of kernel and attributes, six shapes: three valid ones in three layouts, one refused, one with an empty output, one with an empty input |
| `onednn_empty` | is an execution skipped only when it should be? | section 6 |
| `memopt_promises` | does every run of the optimised graph keep what is still needed? | all graphs of three ops over a constant and a source, in the kinds plain, softmax, sum and llga, with three sets of nodes to preserve; graphs with control edges, two devices, several outputs, views that no in-place op meets; filters; variables, with and without the aggressive option. Searches look at 2 nodes (10 and 50 in the code), so they are also cut short |
| `memopt_views` | the same with an op that hands on its buffer | section 6 |

Deadlock is not checked where the program really ends: the collectives and
kernels have finitely many ops and ranks, the executions and graph runs are
bounded in number, and a process that ran into an uncaught oneDNN error is over.
It is checked for the allocator and the thread pools.

Properties worth knowing:

* `ResultVisible` (action property): when a kernel launched after an OK callback
  runs, every rank has reduced its slice of that output from complete inputs.
  This needs both loops of waits: each rank's kernel reads and writes the tensors
  of all ranks, but its queue orders it only after its own rank's input.
* `BuffersIdleAfterCallback`: from a callback on, no kernel on any device still
  uses the op's tensors.
* `AnsweredAlike`: one answer each, the same for all that joined, and OK exactly if
  they agree; nobody gets OK with a part of the result missing because an op of the
  key could not allocate its output. It is stated for keys all of whose ops agree on how many they are. If they do
  not, the code reports it or leaves an op waiting, depending on who is first;
  the instance contains this case.
* `BestFit`, `GrowsOnlyWhenNeeded` (action properties): the smallest and lowest
  chunk that fits; and the driver is asked only if there is none, for a region
  that serves the request, unless `LimitAlloc` cut it.
* `EveryoneAnswered`: unless an op of the key could not allocate its output; the
  others then wait for it for ever (section 6).
* `LargeCallReturns`: a call for more than nine grains returns, unless the size of
  the next region has been doubled to 0, which the instance contains; section 6
  says why, and what happens to smaller calls.
* `CallOutlivesTasks`: the notification and the release of `mu_` at the end of
  `DecrementCount` included, which is why `Wait` looks at `notified_` under the
  lock and not at the count.
* `CallsReturn`: every call returns, unless all threads of the pool end up for ever
  in block loops of their own with a task left in the queue (`Stuck`). Calls of
  `parallel_for` cannot bring that about: `get_in_parallel` keeps oneDNN from
  making one on a thread of the pool.
* `ExecutesThisCall`: primitive, source, weights, bias and output of an execution
  are those of this execution, the weights in the layout the primitive was made
  for. Left out are a scale or an INT8 bias that is not constant, a scaled bias
  whose scaling was cut short, and a fused addend of a kernel that keeps its
  objects, and section 6 says why.
* `WritesOwnOutput`: whenever a primitive runs, also in an execution that reports a
  failure, it reads this execution's source and writes its output. It rests on
  `Init` clearing the arguments before anything can fail. The kept path with a
  failed allocation is excepted: it does write an earlier output (section 6).
* `DangerousStaysFloat32`: an op on the denylist, and the infer and clear ops on
  a path from one to a deny or infer op, is not changed, if the path does not run
  through a tensor list that is denied before deny spreads; `amp_unsafe` shows what
  happens on the others.
* `BuffersIntact`: an op that is running, a later op and a fetch find in each
  buffer the value they should; a fetched input of an op of oneDNN Graph is left
  out (section 6), as are, in the instance, graphs such as that of `memopt_views`.
* `FiltersStay`: a filter kept from the first run is the filter of every later
  one; two ways a variable escapes the search in aggressive mode are left out.

Fairness. `BFCAllocator!FairSpec`: the thread that holds `lock_` keeps running
(WF of its step); nobody has to call. `CollectiveManager!FairSpec`: a thread
inside an op keeps running and a device keeps executing what has been submitted
to it (WF of each thread's step and each stream's `Execute`); TensorFlow need
not launch any op. These are what an operating system's scheduler and a SYCL
runtime give a program. `ThreadPool`: WF of each thread's own steps, and SF of "a
thread of the pool takes a task of this call". SF, because between two moments at
which a worker is idle it may serve other calls: Eigen's workers pop from their
own queue and steal from all others before they sleep, so no queued task is
passed over for ever. Calling, nesting and spurious wake-ups are not fair.

## 4. What is proved

For all values of the constants that satisfy the named assumptions.

**The allocator** (`BFCHeapProofs`, `BFCAllocatorProofs`). Assumed: the grain,
the number of bins, the thresholds, `LimitAlloc` and the modulus are positive,
the device has more memory than mode 1 reserves (the constructor aborts
otherwise), requests are natural numbers and nullptr is no address.

The properties of the runs are not inductive: whether a merge is right depends
on links, slots, bins and the list of handles all at once, and a call passes
through heaps in which some of it does not hold. The inductive invariant is

    IInv == Pool(heap) /\ Blocks(heap, held) /\ Accounted /\ CallConsistent /\ ...

* `Sound(H)`: types, no failed check, each slot names the chunk that starts
  there and the slots inside a chunk are invalid (this keeps chunks disjoint),
  `prev` and `next` agree and are adjacent, chunks cover the regions, regions are
  disjoint, the deleted chunks form a list, and the list reaches all of them
  (`FreeListReaches`, as a principle of induction: a set of deleted chunks that
  contains the head and with each chunk the next contains them all);
* `Binned(H, L)`: the bins hold exactly the free chunks outside `L`;
* `NoFreePair(H, X)`: of two neighbours outside `X` one is in use;
* `Blocks`: what clients hold is what is in use; `Accounted`: the running total
  is the size of all regions, within the limit in mode 1; `CallConsistent`: what
  the call inside `ExtendLarge` knows is still true, that no chunk of the pool
  serves its request included.

They are stated of a heap, not of the variable, and `L` and `X` say which chunks
are in flight: so each member function has a lemma of its own about what it does
to a heap, and a call's proof composes them. From `IInv`: `TypeCorrect`,
`ChecksHold`, `Tiling`, `Binning`, `Coalescing`, `BlocksMatch`, `LimitKept`,
`Exclusion`, `NoLeak`, and `Refinement`, which shows that every step is a step of
`AllocatorSpec` or leaves its variables alone.

The action properties follow from a classification of the steps (`StepKinds`: a
step serves a request, grows the pool or frees, or leaves the heap alone).
`BestFitting`: looking through the bins from the request's own upwards finds the
best chunk, because the bin number does not decrease with the size. `GrowthNeeded`:
a region is added only when nothing fits, and, unless `LimitAlloc` cut it, the
new region serves the request.

**The kernels** (`AllReduceProofs`). Assumed: vector size, number of ranks and
width are positive. `KInv` says that the turns so far are those of the ranks so
far; the rest is arithmetic: slices partition the vectors, turns partition a
slice (uniqueness of quotient and remainder), vectors partition the elements.
`ReducedOnce`: each element is stored by exactly one turn.
`StoredInsideUnlessEven`: nothing is stored beyond the tensor, but in exactly the
case of `allreduce_overrun`.

**The collective manager** (`CollectiveManagerProofs`). Assumed (`CasesAssumption`):
there are finitely many ops, no collective has more than `MAX_RANK_SIZE`
participants, and equal data types have equal vector sizes. Any number of ops,
keys, devices and elements. The inductive invariant has a part for each question:

* `Control`: types; a collective under assembly holds ops of its key that wait
  (`Assembling`), different collectives have no op in common (`Disjoint`), and
  one thread runs a complete collective whose members are all still joined;
* `Kernels`: where a reducing kernel may still be, given the position of the
  thread that launched it; from it `BuffersIdle`;
* `Inputs`, `Outputs`, `Consumers`: what is computed or reduced at each position of
  that thread, up to the commands still pending; from them `ResultIsVisible`;
* `Founders`, `Complete`, `AnsweredAlike`: a collective has the arguments of its
  first member; once one op of a key is called back with the status of a
  collective, all ops of the key have joined, so none can still fail to allocate;
  the status is what the members' arguments say, so the answers agree
  (`AllAnsweredAlike`).

**The thread pools** (`ThreadPoolProofs`). Assumed (`PoolAssumption`): the pool
has finitely many threads, at least one, and none of them is a caller; the sizes
are natural numbers. The bounds on the model (`MaxN`, `MaxDepth`) are arbitrary. A
call's work is divided into units, jobs of `parallel_for` or blocks of the other
function; `balance211` and the midpoints of `handle_range` partition the
iterations into them for every `n`, block size and team (`JobsPartition`,
`BlocksPartition`, `Midpoints`). The invariant says of the stacks and the queue
that they are well formed, and of each call and the tasks that refer to it,
wherever they are (`CallOK`): tasks have units of their own; the counter word is
twice the number of units not yet counted plus the flag of the waiter; an
iteration has been executed once if its unit's task is past it and not at all
otherwise; `notified_` is set only at count zero, and while a task still has to
notify or to release `mu_` the caller has not returned. Hence `IterationsOnce` and
`CallsOutliveTasks`, for calls on any thread, the pool's own included. TLC
checked the invariant on small instances first.

**The oneDNN kernels** (`OneDnnKernelProofs`). Assumed (`ConstantsAssumption`):
types, finitely many threads, and that the dimensions of source and weights
determine those of the output. For any number of threads and executions:
`ExecutesItsOwnCall`, `CacheNeverFreed` (a buffer given out by a cache stays) and
`OwnBuffers` (`WritesOwnOutput`). The invariant follows each thread through
`Compute` (`Place`): a primitive that has its arguments has this execution's
buffers, also after a failure (`OwnMem`), and if nothing failed everything else it
needs (`Ready`). It says when what a kernel keeps may be used again (`KeptUsable`)
and that a cache with a layout holds the constant weights in it, while a half
filled one has none and is never handed out (`CachesFilled`).

**Mixed precision** (`MixedPrecisionProofs`). For every graph (`IsGraph`, which
states what GraphDef and the op registry guarantee) all seven invariants of the
run: `TypesAgree`, `ConversionSucceeds`, `DangerousStaysFloat32`, `ListsOneType`,
`LoopsWithoutCasts`, `ColoursDisjoint` and the types. What a traversal reaches is
shown by looking at the least round in which something would go wrong; the
number of vertices bounds the rounds, so nothing is missed. `DangerousUnchanged` is
about the paths on which deny spreads (`PropagatesDeny`); the lists of ops are the
default ones as far as `IsGraph` says (section 7).

**Memory optimisation** (`MemoryOptPassProofs`). Assumed (`GraphsAssumption`): the
graphs are what GraphDef and the op registry allow (`IsGraph`: ops have the inputs
their rules and filters name, a view comes after what it views, the filter of a
quantized op is constant); the bounds on searches, passes and runs are arbitrary.
For every graph: `FiltersNeverChange`, `PackedIsUnderstood` and `TypeCorrect`,
which includes that no constant is packed twice. `BuffersStayIntact` is about the
graphs in which the static reference count counts the readers of a buffer
(`RefCountsExact`): an op that may work in place reads one output of the producer
in question, that output is not itself a view, and no view reads it. The code does
not check this, and without it the property is false (section 6). All graphs of
`memopt_promises` satisfy it, and views elsewhere in the graph are covered.

The pass decides once, from the shape of the graph, and the runs come later, so
the invariant has two halves. The marks mean something about the graph alone: the
other readers of a marked input lie before the op that takes it (`Safe`), where m
lies before n if every set of nodes that holds the inputs of n, and with each node
its inputs, holds m. That is what the search of `IsSafeForwarding` shows when it
finds the other reader, however far it may look. In a run (`Runs`), what has begun
has its inputs, and a tensor that is there is in its buffer unless an op that has
begun took it over. The nodes that are done form such a set, so when an op starts,
all other readers of what it takes are done; and no other tensor has the value the
buffer holds, or a view would read it. For filters, `Stable` nodes have the same
value in every run; for packed constants, the one reader has been told.

## 5. What is only model-checked

* Liveness (`LargeCallReturns`, `EveryoneAnswered`, `CallsReturn`): out of the
  prover's reach.

Nothing is claimed of `BuffersIntact` for graphs outside `RefCountsExact`: some of
them violate it (section 6), and the passing run contains none.

Induction needs care with this prover: the library's induction theorems take an
operator as a parameter and cannot be used. Where a proof needs induction it uses
that a nonempty set of naturals has a least member (`Least`), applied to the set of
counterexamples, and recursive functions are shown to exist for every bound
by the same argument.

## 6. Findings

1. `allreduce_overrun`: if the last slice has more vectors than the device runs
   work items, and a multiple of them, its partial vector is stored whole, behind
   the output (`kernels/gpu/collective_ops.h:445`).
2. `amp_unsafe`: deny does not spread through vertices that are denied already, so
   not through the ops on a tensor list that leaves the graph or the device. An
   infer op behind such a list is changed to 16 bits between two allowlist ops
   although it lies on a path from a denylist op
   (`graph/auto_mixed_precision/auto_mixed_precision.cc:1336`; the comment at
   1297-1299 has no such exception).
3. `onednn_empty`: `is_input_zero_` is set for an execution with an empty output
   and never reset, so all later executions of the node are skipped and report
   success, with an output nobody has written (`kernels/common/matmul_op.h:449`;
   the comment at 651 says that what is skipped is meaningless).
4. `memopt_views`: the static reference count is that of one tensor, not of its
   buffer. An op that hands on its input's buffer hides the buffer's other
   readers, and the in-place op behind it overwrites what they read, which may
   be a constant
   (`graph/memory_opt_pass/memory_opt_pass.cc:123`; its header, line 72, speaks
   of the "target buffer").

### What the passing properties leave out

Places where the code does something its comments or neighbours would not lead
one to expect, met while modelling. The properties above say where they except
them, or the instances where they avoid them.

Allocator (`devices/bfc_allocator.cc`):

* `ExtendSmall` compares `rounded_bytes` with what is left but allocates the
  larger `bytes`: in mode 2 regions outgrow `memory_limit_` (365).
* `ExtendLarge` cuts the region to `LimitAlloc()` without comparing it with the
  request, and returns true (308).
* `RoundedBytes(bytes * 0.9)` does not shrink a size of at most nine grains: such
  a request, refused by the driver, is repeated for ever (314).
* Every extension that did not need the doubling loop doubles the size of the next
  region (327), without an upper limit. Once that is 0, modulo 2^64, the loop (301)
  has nothing to double and does not end, with the lock held; the comment at
  297-299 says that it doubles "until that is sufficient". It takes as many
  extensions as the first size has bits to lose, a few dozen, which fit into a
  device's memory if `ITEX_LIMIT_MEMORY_SIZE_IN_MB` is small.

Collectives (`kernels/gpu/collective_ops.cc`):

* An op that cannot allocate its output is called back with the error and does not
  join (89-92). The other ops of its key wait for it for ever, and the collective
  stays in `collectives_`.

Thread pools (`utils/threadpool.cc`):

* Block loops called on threads of the pool can occupy all of them while their
  tasks are queued (205): nobody is left to run the tasks.

oneDNN kernels (`kernels/common/`):

* A non-constant INT8 bias is scaled in every execution, but `SetCache` returns
  when there is something in the cache (`onednn_util.cc:162`), so the first bias
  stays (`quantized_conv_ops.h:570`; the comment at 488-490 has it otherwise).
* An `Init` that is left early, on a shape it refuses, a failed allocation or a
  caught oneDNN error, has cleared the arguments, and `Compute` executes the
  primitive nevertheless, outside of any try block (`matmul_op.h:657`): oneDNN
  throws again, nobody catches it, and the process ends. A convolution whose
  output cannot be allocated goes on in `Init` (`conv_ops.h:1254-1262` leaves
  `AllocateOutputTensor` only) with a tensor that has no buffer, with the same end.
* The path that keeps the objects executes also if it could not allocate the
  scratchpad or the output (`matmul_op.h:322`, `batch_matmul_op.h:298`,
  `conv_ops.h:768`): the primitive writes the output of the earlier execution.
* If oneDNN throws in `SetCache` after the buffer has been allocated
  (`onednn_util.cc:80`), the cache counts as filled without a layout. The next
  `GetCache` fails a check of `Tensor::flat` and the process ends, before the code
  that would report it as an error (130-135). A bias whose scaling is cut short in
  that way is used as it is. The error returns after `allocate_persistent` (69-71,
  94-97) are never taken: it aborts itself (`op_kernel.cc:478-496`).
* The fast path of `MatMulOp` with a fused addend uses a memory object that may
  not have been made, or the dimensions of an earlier one (`matmul_op.h:349`).
* The INT8 scales are not computed anew on the fast path, which assumes that the
  ranges of the inputs do not change.
* The layer norm keeps the first scale it converted without asking whether the
  scale is constant.
* The reorder in `quantized_matmul_common.h:259` names the source memory of the
  previous execution.

Mixed precision (`graph/auto_mixed_precision/`):

* `MakeCastsAllowIfAllOutputsAllow` changes Casts that are to be preserved,
  although the log says that such nodes are skipped.
* A comma is missing in `auto_mixed_precision_lists.h` between
  `"_ITEXPadWithDepthwiseConv2dNative"` and `"_ITEXPadWithFusedConv2D"`: neither
  op is on the list.
* `tensor_list_prop_set` is declared and never filled.

Memory optimisation (`graph/memory_opt_pass/`):

* `GetOutPort` takes the first port that connects two nodes: a node that reads
  two outputs of one producer is judged by the readers of the first.
* The oneDNN graph pass marks inputs without looking at the nodes to preserve,
  so a fetched input may be overwritten; the comment at `memory_opt_pass.cc:297`
  rules that out.
* `is_inplace`, `inplace_sum` and `is_filter_const` are only ever set: a second
  pass over a changed graph does not take them back.
* `sinfo` is one vector for the process, `reserve`d and then indexed beyond its
  size (35, 340), and shared by optimizers that run concurrently.
* In aggressive mode any Cast of a read variable counts as unchanging, and an
  assignment through an Enter is not seen.

GPU runtime and plugin (`devices/gpu/`), not modelled:

* `itex_gpu_runtime.cc:221` appends to a vector other threads iterate over, with
  no lock; at 245 `destroyStream` erases from a copy of the vector (which is what
  keeps the shared default stream alive in single-stream mode); at 61 the ordinal
  one past the last device is accepted.
* `gpu_device_plugin.cc:345` captures parameters of the submitting function by
  reference in a host task that may run after it has returned.

Comments that do not match the code and that no run depends on: regions that
happen to be adjacent are not merged (`bfc_allocator.h:140-145`); the
`allocation_id` of a chunk in use is 0, not "greater than zero" (`:85-88`);
`collectives_` holds collectives being assembled, not "being assembled or run"
(`collective_ops.h:92`; `CheckReady` removes them before they run).

## 7. Not modelled

Most of the repository is not control but data: of its 260,000 lines the bulk
are numerical kernels, registrations of ops and kernels, MLIR dialects,
pattern-directed graph rewrites and copies of TensorFlow's and Eigen's headers.
A state machine of those would restate them. What is left out, and why:

* Remapper, layout and oneDNN graph passes: rewrites whose correctness is that of
  the ops they replace, which this repository does not define. Of the oneDNN
  graph pass the in-place marks are in MemoryOptPass.
* `quantized_matmul_common.h` and the block-layout kernels of
  `kernels/onednn/block`: they keep oneDNN objects in the way OneDnnKernel
  models for the others, with more layouts.
* AllocatorPool: filled once under `std::call_once`, read only afterwards.
* GPU runtime: its shared vectors are accessed in a data race, whose outcome is
  undefined, or in single statements; section 6 says what they do. The order of
  commands on a stream is modelled where it matters, in CollectiveManager.
* Device plugin: callbacks that forward to the runtime, one call each.
* TensorArray, resource manager, reference counts: copies of TensorFlow's
  classes, each operation under one mutex.
* Profiler and tracing: no result depends on them.
* Operator kernels, shape inference, IR: numerical code and tables.
* XPUAutoShard, next pluggable device, wrapper, Python: prototypes and glue to
  libraries outside the repository.

Abstractions inside what is modelled, besides those of section 2: tensor list
ops, Cast and NextIteration exist for every type, and Merge, NextIteration and the
readers and writers of tensor lists are clear ops and Cast is on no list, as in the
default lists, though a user may move any op between them
(`auto_mixed_precision_lists.h:118-123`) (MixedPrecision); a primitive that has all
its arguments does not throw (OneDnnKernel); an op of
oneDNN Graph reads each tensor once, and TensorFlow's own forwarding of buffers
at run time counts references exactly (MemoryOptPass); a packed filter's layout
is the one its consumer is told.

## 8. Plan

Done: the allocator (most important: every tensor on the device is in its
memory), the all-reduce kernels, the collective manager, and the theorems of
section 4; the thread pools, the oneDNN kernels, mixed precision and the memory
optimisation pass.

Also done: theorems for every safety property that a passing run checks.

Left: weaker assumptions where the code would allow them, as for
`BuffersStayIntact` a hypothesis on the buffers a mark concerns rather than on all
candidates; and the abstract contract of `BlockingCounter` (a call returns when
all its units are counted) as a specification of its own that ThreadPool
implements.

## 9. Running the checks

    tlc -config MCBFCAllocator_pool.cfg MCBFCAllocator
    tlapm BFCAllocatorProofs.tla

and likewise for the other configurations and proof modules.
