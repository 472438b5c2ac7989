# A TLA+ verification of MNN's CPU core

MNN is an inference engine: a model is loaded by `Interpreter`, scheduled into a
`Session` of `Pipeline`s (or, in the Express API, into modules), and each
pipeline runs its operators on `Backend`s that belong to `Runtime`s. What is hard
to get right below the operators is what they all share: the thread pool they
run on, the protocol by which runtimes use it, and the allocators that decide
which tensors may lie in the same memory; and, above these, the code that edits
state which outlives a call: the KV cache of a language model, the files a later
process trusts, and the memory plan of a session. This project models those
parts, checks them with TLC and proves the central ones with TLAPS.

Paths below are relative to the repository's root.

## 1. Inventory

| part | source | state | operations | status |
|---|---|---|---|---|
| thread pool | `source/backend/cpu/ThreadPool.cpp` | task slots with one atomic flag per worker, free-slot table, active count, stop flag | init, destroy, acquire/releaseWorkIndex, active, deactive, enqueue, worker loop | modelled, proved |
| CPU runtime, thread regions | `source/backend/cpu/CPUBackend.cpp` | chosen pool, thread number, slot, nesting count, bound thread | onReset, onCreate, onConcurrencyBegin/End, core binding | modelled, proved |
| eager allocator | `source/core/BufferAllocator.cpp` | tree of split nodes with use counts, free list, used list, group lists | alloc, free, release, barriers, groups | modelled, proved |
| deferred allocator | `source/core/BufferAllocator.cpp` | list of planned chunks, free list, offsets, shared buffer | alloc, free, barriers, reset, compute, apply, realloc, release | modelled, proved |
| worker queue | `source/core/WorkerThread.cpp` | task queue, stop flag | postTask, worker loop, destructor | modelled, proved |
| outer allocators | `source/core/BufferAllocator.cpp`, `CPUBackend.cpp` | mapped weight files and their sync marker | onCreate, onAlloc, acquiring and filling weights, sync, exit, crash | modelled and proved for mmap |
| KV cache | `source/core/KVMeta.hpp`, `source/backend/cpu/CPUKVCacheManager.cpp`, `CPUAttention.cpp`, `CPULinearAttention.cpp` | previous/remove/add/reserve, capacity, keys and values, prefix files | onAlloc, onRealloc, expand, moveKV, onUpdateKV, sync | modelled, proved |
| LLM engine | `transformers/llm/engine/src` | history length, prefix cache mode, status | generate, draft verification, eraseHistory, reset, setPrefixCacheFile, completePrefixWrite | the calls that edit the cache |
| session, pipeline | `source/core/Session.cpp`, `Pipeline.cpp`, `Schedule.cpp`, `Interpreter.cpp`, `source/geometry/GeometryComputerUtils.cpp` | need-resize, resize cache, use counts, memory objects, groups | resizeTensor, openResizeCheck, encode, allocMemory, fixResizeCache, run | modelled for one CPU pipeline |
| asynchronous runtime work | `source/core/Backend.cpp` | future, cancel flag | setAsyncWork, waitAsyncWork | not modelled: only used for tuning accelerators |
| Express | `express/` | expression graph, module clones | forward, clone, compute caches | not modelled |
| operators, shapes, geometry | `source/geometry`, `source/shape`, `source/backend/*` | - | numerical kernels | out of reach |
| device backends, converter, bindings, apps | `source/backend/opencl` etc., `tools`, `pymnn`, `apps` | - | device APIs, offline tools | out of scope |

How the parts interact:

* `Interpreter::runSession` and `RuntimeExecuteWrap` (`express/Utils.cpp`) put
  `onConcurrencyBegin .. onConcurrencyEnd` around an execution. These regions
  nest. Inside one, operators hand tasks to `ThreadPool::enqueue` with the slot the
  runtime holds, or -1.
* While a pipeline is resized (`onResizeBegin .. onResizeEnd`), operators ask the
  dynamic allocator for the memory they need, and free what they no longer need.
  With the eager allocator that memory exists at once; with the deferred one it is
  a plan that `compute` lays out. Operators that run on several threads
  (`Convolution1x1Strassen.cpp`, `CPURaster.cpp`) request memory between
  `barrierBegin` and `barrierEnd`, one group per thread.
* `onExecuteBegin` and `onMapTensor` call `apply` again, because the buffer behind
  the plan is shared by all the backends of a runtime.

* `CPUAttention` applies to its cache what the engine has noted in `KVMeta`; the
  engine computes the new length on its own (`KVMeta::sync`).
* `Pipeline::encode` calls `onClearBuffer`, which turns the weight files into a
  cache for the next process; `preRearrangeWeights` fills them before.

The hard behaviours are the lock-free handshake of the pool (raised flags, tasks
that live on the caller's stack, workers that sleep and are woken), the balance of
nested regions of several runtimes, use counts that decide when memory is merged,
plans whose chunks grow after they were placed, buffers that are replaced
under another allocator, edits that two parties apply apart, files whose only
index is the order of the requests, and resizes that stop half-way. `PROJECT.json` lists each hazard at its line with the
properties that would catch it.

## 2. Modules

| module | models | composed with |
|---|---|---|
| `ParallelFor` | abstract: what `enqueue` promises | implemented by `ThreadPool` |
| `ThreadPool` | `ThreadPool.cpp` | `INSTANCE ParallelFor` |
| `ThreadPoolProofs` | theorems about `ThreadPool` | |
| `CPURuntime` | `CPUBackend.cpp`, the callers of the pool | discharges the client protocol `ThreadPool` assumes |
| `CPURuntimeProofs` | theorems about `CPURuntime` and `WorkerThread` | |
| `EagerBufferAllocator` | `EagerBufferAllocator` | |
| `EagerBufferAllocatorProofs` | theorems about `EagerBufferAllocator` | |
| `DeferBufferAllocator` | `DeferBufferAllocator`, `SingleBufferWithAllocator` | several allocators on one buffer |
| `DeferBufferAllocatorProofs` | theorems about `DeferBufferAllocator` | |
| `WorkerThread` | `WorkerThread.cpp` | |
| `KVCache` | `KVMeta`, `CPUKVCacheManager`, the engine's edits | |
| `KVCacheProofs` | theorems about `KVCache` | |
| `WeightCache` | `MmapAllocator`, the static allocator on it, `onCreate`, `onClearBuffer` | several processes on one directory |
| `WeightCacheProofs` | theorems about `WeightCache` | |
| `PrefixCache` | `setPrefixCacheFile` to `completePrefixWrite`, prefix files of full and linear layers | several processes on one directory |
| `PrefixCacheProofs` | theorems about `PrefixCache` | |
| `Pipeline` | `Session`, `Pipeline`, `OpResizeCache` | discharges what `DeferBufferAllocator` assumes, and uses its `PlanDisjoint` |
| `PipelineProofs` | theorems about `Pipeline` | |
| `MC*` | instances, symmetry sets and constraints of the runs | |

Operators whose comment begins with "Mutant" are variants of the definition
that follows them, each with one plausible mistake. No specification uses them;
they record that the property they are paired with would notice that mistake.

### ThreadPool

State variables carry the members' names (`mTaskAvailable`, `mTasksFirst` and
`mTasksSecond` for the pair in `mTasks`, `mActiveCount`, `mStop`); `pcW`, `slotW`
are the workers' places in their loop and `pcC`, `k` the clients' places in
`enqueueInternal`. Every access to an atomic is a step; a critical section of
`mQueueMutex` is one step; the condition variable's check and wait are separate,
with the mutex held, so that a lost wake-up would show. Raising the flags
(`Publish`) and polling them (`Poll`) go one flag at a time. `ran` is a history
variable that counts how often each index was run.

Clients call `active` before and `deactive` after they enqueue, except those in
`InactiveClient`, which may enqueue at any time, as `enqueueInternal`'s test of
`mActiveCount` suggests a caller may. Safety holds for both kinds; progress is
only claimed for the first. `destroy` starts when no client is inside the pool, as
in `test/core/ThreadPoolTest.cpp`.

### CPURuntime

Each call a runtime makes into a pool is a step. The pools are reduced to their
size, their active count and their taken slots. `depth` counts the regions the
user has open; `RegionProtocol` is the part of `ThreadPool`'s assumptions that
depends on it. `onCreate` inside a region keeps the cpu mask (see the hazards for
what that leaves out). Thread numbers the user asks for are any integers.

### EagerBufferAllocator

A node is named by its path: `<<b>>` is block `b`, `Append(n, 0)` and
`Append(n, 1)` the two parts of a split `n`. Parents and children are then
operators on names and need no pointers, and a merged node can be split again
under the same names. `KeepHeld` plays the reference counts: a node lives while a
list holds it or a descendant. `std::multimap` becomes a set; which of several
nodes of one size is found is left open. `mUsedList` also records what was
asked, and `groupBytes` every byte a group was ever handed. `returnMemory` is one
step: `merged` is the set of ancestors it swallows. `barrierEnd` returns its nodes
in several steps, during which nobody else can call the allocator.

### DeferBufferAllocator

`plan[a]` is a record of the members of allocator `a`; the operators before the
actions work on it. `barrierEnd` frees what was noted in its loop, one turn at a
step (`BarrierEnd`, then `BarrierFree`), and until the loop is over (`Closing`)
nothing else happens to its allocator, while others may go on. The linked list is
a sequence, and the tree of fused chunks is kept by the child (`into`). `buffer.real` is what really lies behind the pointer, as opposed
to `currentSize`, which is what the code believes. `live` and `together` record
which requests were live at the same time; inside a barrier a freed chunk is
live until `barrierEnd`.

A plan is built between `onResizeBegin` (reset) and `onResizeEnd` (compute):
`Pipeline.cpp` makes no request outside, and neither `onExecuteBegin` nor
`onMapTensor` is called in between. `compute` twice on one plan happens when
`mBackend` and `mBackupBackend` are the same.

### WorkerThread

`hand` is the task a worker runs; `done` records the order in which tasks ended. A
task is posted only before the destructor starts.

### KVCache

One head of one layer, buffers as functions from index to cell, indexed with the
arithmetic of the code: `keyIndex`, `valueIndex`, and the places `ProcessKey` and
`ProcessValue` write to, for float, Int8 and TQ caches, with and without flash
attention. A cell holds `<<token, dim>>`, `Zero` or `Garbage`. `hist` and `keep`
are history variables: what the cache stands for, and what is to be left of it by
the edits that are noted. Every token is new, so a value at a wrong place shows.

The engine's actions are a pass of any size (`Generate`), a pass that fails before
or after the layer has run (`GenerateFails`), the linear drafts of Lookahead and
MTP (`DraftVerify`), Eagle's trees (`TreeDecoding`), `EraseHistory` for any range,
`Reset` and the end of tuning. `sound` is FALSE after calls that the code accepts
without an effect the caller could want:

* a range erased from the middle in a quantised or flash-attention cache (nothing
  can be moved there), or from the very beginning (a pass with `previous = remove`
  starts from an empty cache and forgets the reserve);
* a second `eraseHistory`, or `reset`, while a reserve is noted, since only
  `remove` is overridden;
* Eagle's last pass, after which the rejected drafts stay in the cache;
* a pass that failed after the layer had appended.

One pass from an empty cache with no reserve noted restores it.

### WeightCache

`disk` keeps for every file what processes see and what a power loss would leave.
The static allocator is reduced to segments in order of insertion; `Free` undoes
the split of the segment requested last, which is the only one ever freed here (a
temporary). `onCreate` runs twice per module and counts the hint up each time, as
in the code, and `Skips` is the operators' test `useCachedMmap > 1`. An operator
either skips (`Convolution1x1Strassen`) or fills in every process
(`DenseConvolutionTiledExecutor`).

`sound` is the contract: while the marker exists processes use the hint; modules
are loaded with rearranged weights, in one order, all before the first one is
encoded; the marker is only made when every operator has its place; a request
never finds two free segments of the same best size; and no power loss strikes a
marker made by a process that only resumed files. `NetAssumption` adds that no
operator that always fills has a temporary in front of a weight that is skipped.

### PrefixCache

A file's content is the layer that wrote it and how many tokens it holds; `whole`
is FALSE between the zeroing and the copying of a file that grows. A pass goes
layer by layer, since the process may stop between any two and `layer_index`
advances at a different place in full and in linear layers. A linear layer clears
its state in `onResize` only, when the history is empty and the pass has more than
one token (`Clears`); whether a pass resizes the layer is left open. The contract
`sound`: the history is empty when a prefix is written or loaded; with linear layers
the prefix is one pass and nothing is decoded in that call; a linear layer that writes
it has a state without tokens, or is resized with several tokens; later edits keep the
prefix or nothing; no pass fails while the prefix is written; and the process
does not die while a marked file is growing.

### Pipeline

Three-operator sessions at the grain of the commands. Tensors carry their size,
group, use count, memory object (`mem`) and the address they are bound to (`host`),
which are different things: `mem` is given back during the resize, `host` is what
the execution uses. Each resize is a walk through `encode` (all operators, or up to
the one whose shape fails), `_createExecutions`, the pass of `_allocForTensor`
command by command, the recycling, and `onResizeEnd`; each may fail. `buffer` says
what is behind the plans of a group, which decides how `onResizeEnd` ends: the plan
is bound (`ResizeEnd`); memory cannot be had, and the buffer there was is lost
(`ResizeEndFails`); or the plan fits the size that a lost buffer still claims, nothing is
bound and the answer is NO_ERROR (`ResizeEndUnbound`, the case of `defer_oom` in
section 6). How large a plan is, is left open, so that any of the three may follow, but
a plan nothing was requested of is always answered. `Placements`
is the allocator seen from outside: any address that is not held, and one that
was never used for a separate request, which is what
`DeferBufferAllocator!PlanDisjoint` shows of the real ranges. An execution writes
tensor names to these addresses and reads them back; the user's inputs are written
in any order, so that two of them at one address would be seen; every command also writes
memory of its own, which it requested in `onResize` and freed at once.

The contract `sound`: a resize that failed while memory was given out, or any
failed resize once `Session_Resize_Check` is set, is not tried again and not
followed by a fix; `Session_Resize_Fix` is set once, on a session that is resized or
untouched, its own pass does not fail, and `Session_Resize_Check` does not follow
it; a session with operators outside the fixed group is resized again before it
runs; the inputs of a fixed operator keep their sizes; and a session whose last resize
ended in `ResizeEndUnbound` is not run before one that binds (`flags.unbound`). The last
clause is not one a user can keep by looking at the answers: who resized a session in
vain for want of memory has to make a new one, or to resize to more than ever before.
A resize that fails with OUT_OF_MEMORY, on the other hand, is inside the contract.

## 3. Runs

| run | instance | distinct states | shows |
|---|---|---|---|
| `threadpool` | 3 clients, 2 slots, 2 threads, work 3, fairness | 0.35 million | exactly-once, no use after return, exclusive slots, `ParallelFor`, every enqueue and destroy return |
| `runtime_regions` | 2 runtimes, 2 masks, 1 slot, nesting 3 | 0.99 million | slots and activations balance |
| `eager` | 2 blocks; groups with sizes 1, 3; or minimum block 8, sizes 1, 3, 7, 8, alignments 2, 4 | 0.74 million | disjoint chunks and groups, alignment, exact counts, nothing lost, everything merges |
| `defer` | 1 allocator with 4 requests of sizes 1, 3, 6 and a barrier; or 2 allocators with 2 requests | 0.64 million | the layout never overlaps, a bound plan is backed by memory |
| `defer_oom` | 2 allocators, failing allocation | violation | see section 6 |
| `worker_queue` | 2 workers, 2 posters, 3 tasks, fairness | 3.6 thousand | exactly once, progress |
| `kv_history` | 5 tokens, passes of 1 to 3, head of 3 dims packed by 2, five modes | 349 767 | the cache holds the history |
| `kv_reserve` | flash attention with blocks of 2 | violation | see section 6 |
| `weight_restart` | 5 operators in 2 modules, files of 5 units | 0.12 million | no weight is used that is not there |
| `prefix` | 2 or 3 layers, full and linear, prefix of 2 tokens, 9 tokens | 0.27 million | marked files hold the prefix |
| `prefix_marks` | 1 layer, passes may fail | violation | see section 6 |
| `pipeline` | four sessions of three nets of 3 operators, 2 sizes, 6 addresses | 0.25 million | commands read what was written for them; plans are empty when computed |

Why the bounds are enough for the cases of interest:

* With two threads and work 3 there is more work than threads, so shares are
  strided; with three clients and two slots the pool is full. Clients that enqueue
  without having activated the pool, other thread numbers and other amounts of work
  are covered by the theorems, which hold for all constants. `EnqueueReturns` is
  checked for one of the three clients; the specification is symmetric in them.
* One slot and two runtimes exhaust the slots of a pool. Nesting 3 tells the first,
  a middle and the last end apart. Thread numbers 1, 2 and 4 with a maximum of 3 cover no
  pool, a pool smaller than asked, and the clamp.
* For the eager allocator, sizes 1 and 3 with alignment 1 allow two splits of one
  block, which is where the use count of an inner node matters, and two blocks let
  merges in one block happen while the other is in use. Sizes 1, 3 and 7 are no
  multiples of the alignment 2; 7 is rounded up to the whole minimum block.
  Offsets 0 and 2 with alignment 4 make padding necessary.
* Four requests allow a chunk between two free neighbours, one that is split and
  one that expands. Addresses 1 and 2 let a buffer come back at an address it had.
* A head of 3 dims packed by 2 has padding in keys and values; with blocks of 2 and
  no spare capacity, five tokens cross two block boundaries and grow the cache in
  most passes. The options 0, 1, 8, 10 and 14 are: float, Int8 keys, flash
  attention, flash with Int8, flash with TQ.
* The weights are chosen so that a temporary needs a second file before any weight
  does, a later weight fits into a gap, and one fills a file; two operators fill
  in every process.
* Prefix files: three layers with a linear one in the middle show the count
  of layers going wrong; 9 tokens are a prefix, a prompt and decoded tokens, twice.
* The four sessions have an input that is read late, a tensor read twice by one
  command, an output that is also read, static outputs, inputs of the user's
  own, and an operator outside the fixed group that writes a tensor inside it. Six
  addresses are never used up.

The runs `prefix` and `pipeline` stop at the first state outside the contract
(`CONSTRAINT Expected`), where their properties claim nothing. `kv_history` and
`weight_restart` go on: `kv_history` because one pass from an empty cache restores
the claim, `weight_restart` until the process ends.

`MaxDepth`, `MaxChunks`, `MaxRequests`, `MaxGroups`, `MaxWork`, `MaxTokens`, `Addr`
and the finite sets `Block`, `Address`, `Task` are the only bounds.

Fairness. In `ThreadPool` every worker, every client that is inside a call and
`destroy` keep taking steps, since a thread of the operating system is eventually scheduled and
the tasks terminate; nobody is obliged to call anything. In `WorkerThread` the same
is assumed of the workers, of `notify_all` and of the destructor. Spurious
wake-ups happen in both models and no property relies on them.

Deadlock is checked in every run except that of `WorkerThread`, where all tasks
are posted once and the object is destroyed for good.

## 4. Proofs

Every proof has the same shape: an inductive invariant `IInv`, one lemma that
`Init` implies it, one lemma per kind of step that it is preserved, and theorems
that read the properties of the runs off it. The theorems hold for every value of
the constants that meets the assumptions named `...Assumption`, which TLC evaluates
on the instances of the runs.

### ThreadPool

`ThreadPoolProofs` proves, for any finite set of clients, any thread numbers, any
number of slots and any amount of work (the assumptions named `...Assumption` in
`ThreadPool`):

| theorem | statement |
|---|---|
| `TypeCorrect` | `Spec => []TypeOK` |
| `SlotsAreExclusive` | `Spec => []SlotExclusive` |
| `EnqueueRunsExactlyOnce` | `Spec => []ExactlyOnce` |
| `NoUseAfterReturn` | `Spec => []TaskAlive` |
| `FlagsKeepPoolActive` | `Spec => []RaisedFlagKeepsPoolActive` |
| `PoolRefinesParallelFor` | `Spec => ImplementsParallelFor` |

All rest on `Invariance`, `Spec => []IInv`, with `IInv` the conjunction of

* `TypeOK`;
* `PoolInv`: without a pool there are no threads at work and nothing is counted;
* `CountInv`: `mActiveCount` is the number of clients that have called `active`;
* `SlotExclusive`;
* `ClientInv`: what a client inside `enqueueInternal` has established: it holds a
  slot, the slot points to its task, its loop variable is in range;
* `FlagInv`: a flag is up only in the slot of a client that is publishing or
  waiting, and only for a worker that has been told and belongs to the task;
* `WorkerInv`: a worker that runs or clears stands in a slot whose flag for it
  is still up;
* `RanInv`: for each place of the client, which indices have run: those of
  thread 0, and those of each worker that has been told and either has lowered its
  flag or is just about to.

None of the properties is inductive alone. `TaskAlive` needs to know that a
worker's flag is up for as long as it runs (`WorkerInv`), that a flag that is
up keeps the client waiting (`FlagInv`), and that no second client can replace
the task (`SlotExclusive`). `ExactlyOnce` needs `RanInv` to connect a flag that has come
down with the indices that have run, and `Runner` to show that the strided shares
partition the indices. The refinement follows from the same invariant: a worker's
run maps to `Exec` on its share, the return to `Finish`, and everything
between to a stuttering step.

The proof has one lemma per conjunct of `IInv`, with one step per action.

### CPURuntime

For any finite set of runtimes, any masks, thread numbers, slots and nesting:

| theorem | statement |
|---|---|
| `TypeCorrect` | `Spec => []TypeOK` |
| `Accounted` | `Spec => []PoolsAccounted` |
| `ProtocolKept` | `Spec => []RegionProtocol` |
| `NumberFits` | `Spec => []ThreadNumberFits` |

`IInv` adds to `TypeOK`: `SizeInv` (a runtime with more than one thread uses the
pool of its own mask, and that pool has enough threads, which is why `onCreate` in
a region keeps the pool), `RegionInv` (how the slot, the nesting count and the place
in a call go together), `SlotInv` (a slot is taken exactly while one runtime
holds it) and `CountInv` (the active count is the number of runtimes that have
activated). `RegionProtocol` needs `CountInv` to know that a runtime in a region
keeps its pool active while others leave; `PoolsAccounted` needs `RegionInv` to know
that a runtime never forgets a slot it has. Runtimes are assumed to be finitely many,
as the count is a number.

### EagerBufferAllocator

For any blocks, any alignments, minimum block, request sizes and number of groups:

| theorem | statement |
|---|---|
| `NeverShared` | `Spec => []ChunksDisjoint` |
| `CountsExact` | `Spec => []UseCountExact` |
| `IdleIsMerged` | `Spec => []MergedWhenIdle` |
| `GroupsApart` | `Spec => []GroupsDisjoint` |
| `NothingIsLost` | `Spec => []NothingLost` |
| `TypeCorrect` | `Spec => []TypeOK` |

None is inductive: whether two chunks are apart depends on the tree of nodes and on
which of them the lists hold. `IInv` is the conjunction of

* `Forest`: a node lives with its ancestors and its sibling;
* `Layout`: a part lies inside what it was split from, nodes on different branches of
  a block are apart, and every offset is a multiple of `mAlign`;
* `Alive`: the nodes in the lists are leaves, and every node has a leaf below it
  that some list holds;
* `Counting`: the use count of a node counts its children that are not free, and a
  split node has at least one of them, so that a merge is never missed;
* `Exclusive`: a node is in one list, once;
* `ChunkInv`: a pointer in use lies in its node with room for what was asked, also
  after it was moved forward to an alignment;
* `PhaseInv` and `GroupInv`: what a group was handed stays inside the nodes that
  this group uses or has back, until the barrier ends.

The heart is `returnMemory`: the ancestors swallowed are those whose use count is 1,
from the parent upwards without a gap. `Counting` says that the other child of each is free,
hence a leaf by `Alive`, and so nothing that is in use lies below the merged
node. The facts about names and trees are lemmas on any set of nodes, used before and
after a step. `EagerAssumption` states what the layout needs of the constants:
blocks start at multiples of `mAlign` and the minimum block is a multiple of it
(`CPUBackend.cpp`, `onCreate`: megabytes, aligned to 32).

`NothingLost` needs sums. `SumInv`, inductive given `IInv`, says that the nodes are
finitely many, that a split node is as large as its two parts, and that `mTotalSize` is
the sum of the whole blocks (`Roots`). `Alive` makes the held nodes exactly the leaves of
the forest, and the leaves add up to the roots (`RootsTotal`): starting from the roots,
replacing a split node by its parts (`Cut`) changes no sum. A split adds a leaf pair
(`SplitSized`), a merge drops nodes below a root (`KeepSized`), a fresh block adds its
size (`AddSized`), `release(false)` takes the sizes of the free roots (`ShrinkSized`). The
sum itself is the library's fold, which takes the elements in the order `CHOOSE`
prescribes; `TotalRecursion` and `TotalRemove` show that it exists for every finite set
and that the order does not matter, by induction over subsets stated as a lemma about a
set of sets (`SubsetInduction`). `TypeOK` follows from both invariants: a use count is a
number of children, and `mTotalSize` a sum, so neither falls below zero.

### DeferBufferAllocator

For any number of allocators on one buffer, any alignment, request sizes and
lengths of plans:

| theorem | statement |
|---|---|
| `TypeCorrect` | `Spec => []TypeOK` |
| `FreedIsOne` | `Spec => []FreedIsOneChunk` |
| `PlansDisjoint` | `Spec => []PlanDisjoint` |
| `Backed` | `Spec => [](~config.OnAllocFails => AppliedIsBacked)` |

`IInv` says of each plan (`PlanInv`):

* `Shape`: the list holds every chunk that was not fused into another one, once;
* `FreeListed`: the free list holds the free chunks of the list, and no two
  neighbours are free;
* `LiveUsed`: the used chunks of the list are the live requests, with the size asked;
* `NotedLive`: what a barrier has noted is live, and noted once;
* `LaidOut`, until compute: a layout exists (below);
* `Computed`, afterwards: the offsets are inside `mTotalSize` and keep apart the
  requests that must not overlap;

and of the buffer (`Fits`): as long as no allocation fails, `currentSize` is what lies
behind `current`, and the plan that is bound fits.

`PlanDisjoint` speaks of offsets that only exist after `compute`, so it cannot
be carried through the steps before. What is carried is a layout: the places every
chunk would have if the list were laid out now, fused chunks at their offset in
the chunk they were fused into. The requests that must stay apart are so in a way
that the later steps keep: inside one tree of fused chunks their ranges are disjoint; in two
trees the whole range of the one ends before the other begins, in the order of the
list. Fusing two neighbours moves nothing. Splitting cuts a free chunk. A free
chunk that expands shifts everything to the right of it by the same amount, trees
and all, which is why it is not enough that ranges in two trees are disjoint. A
new request takes a whole chunk of the list, so it is apart from every live one; a
separate request is put at the end, so it is apart from every earlier one. At
`compute` the list has one chunk, and the offsets are the places of the layout
(`PlanComputed`, by descent along `into`, which the depths of the layout make finite).

`FreedIsOneChunk` follows from `FreeListed`: with nothing used, two chunks would be
two free neighbours. `Backed` needs its hypothesis: `defer_oom` (section 6) violates
`AppliedIsBacked` when an allocation may fail.

### WorkerThread

For any finite sets of tasks and workers and any posters (in `CPURuntimeProofs`):
`TasksTyped` (`TasksSpec => []TasksTypeOK`) and `TasksRunOnce` (`TasksSpec =>
[]RunsOnce`). `TaskInv` says where tasks are: `PlacesInv` (queue, hands and done list share no task, hold each once, and
together are what was posted), `HandInv` (a worker has one task exactly while
it runs) and `DestroyInv` (the destructor drains after all workers have exited, and
ends with an empty queue). The last is what makes `RunsOnce` hold at the end: a
task in a worker's hand would be lost if the destructor did not join first.

### PrefixCache

For any models (sequences of full and linear layers), any length of the prefix, any
way to cut it into passes, and with passes that fail and processes that stop anywhere:

| theorem | statement |
|---|---|
| `TypeCorrect` | `Spec => []TypeOK` |
| `Marked` | `Spec => []MarkedIsPrefix` |
| `Loaded` | `Spec => []LoadedIsPrefix` |
| `Lengths` | `Spec => []LengthsAgree` |

The properties speak of the end of a call, and what they need is built up layer by
layer. `IInv` is therefore stated with the place in the pass as parameters: `d`
layers are done, `o` is open for the new tokens, `z` is being expanded. Of a process
that is up it says

* `CallInv`, `ErrorInv`: which place goes with what is left of the call; after an
  error only `completePrefixWrite` is left;
* `FlagInv`: `file_flag` is set only in the first or the second call of a prefix cache,
  and while it is set `layer_index` is the number of layers done, for both kinds of
  layer, although they advance it at different places;
* `AheadInv`: the passes that are left fit, and the prefix is in the cache when
  `completePrefixWrite` comes;
* `LenInv`: the length of every full layer is the one due at its place in the pass,
  which is exact under the contract and an upper bound without it (a file never claims
  more than the bound);
* `MarkInv`: what the engine knows of the markers is still true;
* `SoundInv`: what the contract `sound` gives at this place;
* `WriteInv`: while the prefix is written, the files of the layers that are done hold
  the tokens so far, and the full ones are the layers' own caches;
* `GoodInv`: when all markers exist, and from `completePrefixWrite` on, every file
  but `z` is that of the prefix.

`MarkedIsPrefix` comes from `WriteInv` and `AheadInv` at `completePrefixWrite`: every
layer's file has the tokens so far, and these are at least the prefix. `GoodInv` then
survives whatever that process does with its mapped files, since an edit that the
contract allows cuts behind the prefix, and a process that reads never writes.
`LoadedIsPrefix` needs `FlagInv` (each layer opens its own file) and `GoodInv` (which
is carried by the disk while no process runs). The lemmas about steps are stated of
a process and its files before and after, so that the two halves of a step, the layer
and the end of the pass (`LayerDone`), are proved apart. `PrefixAssumption` says that
the passes of a prompt are not empty and add up to it, by its partial sums.

### KVCache

For any packing of the kernels, head size, block size and spare room, any attention
mode, and any sequence of passes, drafts, erasures, resets and failed passes:

| theorem | statement |
|---|---|
| `Inductive` | `Spec => []IInv` |
| `TypeCorrect` | `Spec => []TypeOK` |
| `PositionsCorrect` | `Spec => []PositionsFollow` |
| `HistoryKept` | `Spec => [](option \notin {4, 6} => CacheHoldsHistory)` |
| `PaddingInitialised` | `Spec => []ReadsInitialised` |

The argument has three layers.

* *Layouts.* `keyIndex`, `valueIndex` and the places of `ProcessKey` and `ProcessValue`
  are numbers in a mixed radix (`Mixed`): block, row, place in the row, place in the
  pack. Digits are unique, so no two `<<token, dim>>` share a cell; they are bounded, so
  every cell is inside the buffer that `onAlloc` or `expandKVCacheInMem` asks for; and
  growth changes the leading digit (keys, blocks of values) or the length of a row (one
  block of values), so a copy keeps each cell readable at its new index. From there
  on keys and values are treated alike, as `Layout(F, buf, max)`.
* *Operations.* `Good(c, T)` says that buffer `c` has the tokens of the text `T` and
  clean padding. `onAlloc`, `onUpdateKV` and growth keep it. The moves of `onRealloc`
  run upwards in place; `Kept(h, T, start, res)` says why this is right: the ranges of
  the reserve follow each other, and each one lies at or behind the place it goes
  to, so a move overwrites nothing that a later move reads. `eraseHistory` notes one
  such range, and an accepted path of Eagle's tree one entry per token in increasing order.
* *The engine.* `IInv` is `TypeInv`, `LengthInv` and `SoundInv`. `SoundInv` says that
  under the contract the lengths of meta, cache and history agree, the buffer is `Good`
  for `hist`, and the noted edit is `Kept` with `keep` as its result.
  `LengthInv` holds also when the contract is broken: meta counts no token short.
  It is what makes the way back to a sound state right. A pass with
  `previous = remove` and no reserve starts from an empty cache, and then nothing may be left
  in `keep` and the next position must be 0.

`HistoryKept` leaves out the modes 4 and 6: there a TQ value cache without flash
attention is grown with the strides of float values (section 6), and TLC refutes
`CacheHoldsHistory` as soon as such a cache grows. `PositionsFollow` and `ReadsInitialised` are
proved for these as well. Sums of a reserve, its moves and paths are recursive functions of a number.
They are treated by `Induction`, the principle for a set of numbers that has 0 and
with each number its successor. It follows from the well-foundedness of `<` in the
library, and other than the library's own form has no operator as a parameter.

### WeightCache

For any modules, sizes of weights and temporaries, and size of the files that meet
`NetAssumption`, with processes that die and machines that stop between any two steps:

| theorem | statement |
|---|---|
| `Inductive` | `Spec => []IInv` |
| `TypeCorrect` | `Spec => []TypeOK` |
| `Right` | `Spec => []WeightsRight` |
| `Complete` | `Spec => []MarkerMeansComplete` |

Nothing in the files says where a weight lies, so the proof has to show that every
process with the hint comes to the same layout. `Canon` is that layout: the best fit
of the weights alone, one after the other (`NextFit`). `IInv` has three parts.

* `DiskInv`: the files are well formed.
* `ProcInv`, of a process that is up. `FreeInv` and `UsedInv` describe the allocator:
  what is free of a file is its end, what is in use lies in front of it, and together they
  cover the file. This and `EntryInv` (an operator has a segment of its own, of its own
  size) hold outside the contract too, and give `TypeOK`. `ControlInv` and `BeliefInv` tie
  the place in the calls to `allocator`, `mRemove` and `useCachedMmap`, which is 3 under a
  marker and 1 without. Under the contract, `RightInv` is `WeightsRight`, and `CanonInv`
  says that the operators created so far are the first ones of `Order`, at their places in
  `Canon`, and that the free segments are those of `Canon` at this point, but for one whole
  file that a temporary may have opened early (`Follows`).
* `MarkInv`, while the marker exists: `layout` is all of `Canon`, its segments are apart,
  and every weight that is skipped is in the files, and durable unless `resumed`.

The steps that matter: a temporary is cut and freed between two weights, and its segment
comes back whole (`FreeListFacts`, `FollowTemp`), so a process that fills and one that
skips go on alike. A skipped weight is read where `Canon` has it, which is where `MarkInv`
vouches for it (`AcquireWeightStep`). Under a marker only operators that never skip still
write, into their own segments; their temporaries may lie over weights that come
later, which by `NetAssumption` are then filled again as well (`FillWeightStep`).
`SyncMark` under the contract finds all of `Op` created, and names are unique, so the
position is the end of `Order` and the layout is complete. Where `Canon` and the order of
the operators are recursive functions they are treated by `Induction`, as for the KV cache.

### Pipeline

For any nets (operators that read earlier ones or inputs, as often as they like; outputs
anywhere), any sizes and addresses, in any sequence of resizes, checks, fixes and runs,
with a failure wherever the code returns early:

| theorem | statement |
|---|---|
| `IInvAlways` | `Spec => []IInv` |
| `TypeCorrect` | `Spec => []TypeOK` |
| `ReadsAreRight` | `Spec => []ReadsRight` |
| `AlwaysRecycled` | `Spec => []Recycled` |

`ReadsRight` speaks of a run, but what it needs is settled in the resize before, and by
use counts that are back at zero by then. `IInv` therefore has one part that holds always
and one under the contract.

* `Basic`, always: the types; only inputs the user has memory for are in no group; at command
  `i` of a pass the use count of a tensor is the number of reads by commands that are left
  (`CountInv`); a command that exists was made for some lengths. Use counts therefore never
  fall below zero, even after a failed resize.
* `CallInv`, `CacheInv`, `GroupInv`: how the calls go with the flags; after `encode` every
  command was made for the lengths its inputs have, also the ones that `Match` skipped; group 1
  is what `fixResizeCache` moved there, and such operators are not computed again.
* `Owners`, `Own1`, `LiveInv`: outside a pass no tensor owns memory of a plan, except after a
  resize that failed; what a plan has handed out and not got back is what tensors own.
* `PassInv`: a tensor the pass has come across has room, and keeps its memory as long as a
  command from here on, or the user, needs it.
* `PlansInv`: the plan of a group up to command `n` is `PlanOK`: each tensor is apart from
  the output and the temporary of every command that runs while it is needed, and inputs
  are apart from each other. It holds of group 0 during its pass and after it, and of
  group 1 from its fix on, through every later resize.
* `FrozenInv`: what was fixed has room for the lengths it was fixed with.
* `RunInv`: during a run what is still needed is where it was written.

`AllocCommandStep` is the heart: placing the outputs of command `n` takes
`PlanOK` from `n` to `n + 1`, because what is needed is still held (`PassInv`), what is held is
not handed out (`Placements`), and a tensor is released only when its count is zero, that is
when nobody later reads it (`CountInv`). `RecycleAll` gives back what is left, which with
`LiveInv` is `Recycled`. `RunCommandStep` turns `PlanOK` into `RunInv`: a write never lands on
what is needed. The delicate step is `FixResizeCache`, which moves tensors between
groups and discards the plan of group 0: by `GroupInv` every tensor of group 1 is read or
made by an operator of that group, and the rest has no plan until the next resize
(`flags.unbound`), which the contract asks for before a run. `NotBoundGood` is the same
for a plan `onResizeEnd` did not bind: what was fixed stays apart, and of group 0 nothing
is claimed until a resize binds it. `BuffersAlways` gives the type of `buffer`.

Use counts are sums and `encode` is a walk over the operators, both written with folds of
the library. `UsesRecursion` and `EncRecursion` show that the recursive functions inside
these folds exist for finite sets; from there they are used through their equations
(`UsesRemove`, `EncodeWalks`). The assumptions are: operators have inputs, which are
made before them (`ModelsAssumption`), sizes are naturals (`ShapesAssumption`), and
the addresses are an initial segment of the naturals (`AddrAssumption`). Within
`TypeOK`, that what is held of a plan was handed out by it holds under the contract only:
otherwise a tensor of a failed pass can outlive its plan.

### Only model-checked

* The liveness properties `EnqueueReturns`, `DestroyReturns` and `PostedRuns`: they
  need fairness and `ENABLED`, which the prover does not treat.
* `AppliedIsBacked` where an allocation may fail: it does not hold (section 6).
* `CacheHoldsHistory` in the modes 4 and 6, and `ValuesFollowLayout`: they do not hold.
* `SyncMarksValid` of the prefix cache: it does not hold (section 6).

## 5. What the client assumptions are, and who discharges them

| assumption | in | discharged by |
|---|---|---|
| a client enqueues with the slot it holds, between active and deactive | `ThreadPool` | `CPURuntime!RegionProtocol` and `PoolsAccounted` |
| one thread at a time uses one runtime | `CPURuntime` | documented use of the API; not checked by the code |
| groups are opened one at a time inside a barrier, frees stay in their group | `EagerBufferAllocator` | the operators that use groups (read, not modelled) |
| blocks start at multiples of `mAlign` | `EagerBufferAllocator` | offset 0, or an outer allocator with the same `mAlign`; alignments are powers of two |
| an allocator with a minimum block has no groups | `EagerBufferAllocator` | only the mmap weight allocator has a minimum (`CPUBackend.cpp`, `onCreate`) |
| everything dynamic is recycled before `onResizeEnd` | `DeferBufferAllocator` | `Pipeline!Recycled`, proved as `AlwaysRecycled` |
| addresses that are held are not handed out again, separate ones are new | `Pipeline` | `DeferBufferAllocator!PlanDisjoint` |
| a plan is backed by the buffer it was bound to | `Pipeline`, in `ResizeEnd` | `DeferBufferAllocator!AppliedIsBacked`; a plan that was not bound because an allocation failed before is modelled (`ResizeEndUnbound`) and not run under the contract |
| the contracts `sound` | `KVCache`, `WeightCache`, `PrefixCache`, `Pipeline` | the callers; section 6 says what happens otherwise |

## 6. Disagreements found

Shown by a run:

* `defer_oom`: after a failed `realloc`, `currentSize` still has the size of
  the buffer that was released, and a smaller plan is applied with NO_ERROR on a
  null base. One session meets it when it is resized to a small size, to a large one
  that finds no memory, and back: the plan was reset to the same empty buffer, nothing is
  applied, and neither `resize` nor the second `apply` of `onExecuteBegin` reports it.
  `Pipeline` has the step (`ResizeEndUnbound`); without the clause on it in `Run`,
  `ReadsRight` is violated.
* `kv_reserve`: with flash attention values are stored block by block, but `moveKV`
  finds them with `valueIndex`, which knows one block only. Erasing a range in the
  middle (`eraseHistory(begin, end)` as in
  `transformers/llm/engine/demo/rollback_demo.cpp`) leaves wrong values.
* `prefix_marks`: `completePrefixWrite` marks the files as valid also after a failed
  pass. (The marked files also stay mapped and change when the history is cut into
  the prefix.)

Met while modelling, and left outside the contracts or described only:

* `BufferAllocator.cpp:245` asserts `allocSize > size` after rounding `size` up,
  which fails for requests within one alignment of the minimum block size; an empty
  node is then listed as free, which is harmless.
* `WorkerThread.hpp:21` documents that `postTask` fails beyond `MAX_TASKS`; it never
  fails.
* KV cache: `eraseHistory(0, end)` with a tail loses the tail in the cache while
  `sync` counts it; a reserve survives `reset` and a second erase; quantised
  caches ignore the reserve while `sync` adds it; a TQ value cache without flash
  attention is grown with the strides of a float one; `forwardRaw` skips `sync`
  when outputs cannot be read, after the layers have appended; Eagle's last pass
  leaves the rejected drafts in the cache.
* Prefix cache: linear layers save in every pass and advance `layer_index` each
  time, full layers only when they allocate, so blocks or decoding while writing
  make the files of the layers drift; the state of a linear layer is not rolled back
  by `eraseHistory`; `previous` is corrected by the prefix even if nothing was loaded
  because the history was not empty.
* Weight cache: a module loaded without rearranging, or after another one was first
  encoded, is not in the files but is skipped by the next process; the marker stays
  when a process without the hint removes the files; a process that resumes files
  makes the marker without `msync`; file names do not contain the model, so
  models share them; `DenseConvolutionTiledExecutor` fills in every process
  through a temporary that lies where the next weight is cached.
* Pipeline: a pass that fails leaves chunks with tensors that the next encode frees
  after their plan was reset, and inputs keep theirs, so that they get no
  memory; a failed encode under `Session_Resize_Check` leaves infos that let the
  retry skip operators without commands; `fixResizeCache` ignores the answer of its
  pass and releases the buffer of group 0 without asking for a resize.

## 7. Not modelled, and the plan

Not modelled: numerical kernels, shapes and geometry (arithmetic on tensors);
device backends (their APIs are not in the repository); the converter, bindings and
applications (offline, or user interface); Express' lazy evaluation. In the modelled
parts: constants, copies between backends and static models of a pipeline; scales
of quantised caches; layers that share a cache; full disks.

Open, in this order:

1. An abstract allocator that both allocators implement, so that `Pipeline` can be
   composed with it by refinement and not by the argument of section 5.
2. Two sessions on one runtime, whose outputs share the dynamic buffer.
3. `computeDivideSizes` against a reference definition (a partition of the work).
