# A verification of KTransformers' CPU execution core

KTransformers runs the experts of a mixture-of-experts model on the CPU while
the GPU computes the rest of each layer.  This directory holds TLA+ models of
the code that makes the two meet, and of the serving scheduler and key-value
store in front of it; the TLC runs that check the models on small instances;
and TLAPS proofs of what must hold for any number of threads, tasks, layers and
pages.  All paths below are relative to `src/`.

Check a module with `tlc -config <run>.cfg MC<module>.tla`, the proofs with
`tlapm <module>Proofs.tla`.

## 1. Inventory

### 1.1 The parts

| Part | Code | State it keeps | Operations |
|---|---|---|---|
| Task queue | `kt-kernel/cpu_backend/task_queue.{h,cpp}` | a linked list (`head`, `tail`, `next`), `pending`, `done` | `enqueue`, `sync`, the worker's loop, the destructor |
| CPUInfer | `kt-kernel/cpu_backend/cpuinfer.h` | a worker pool and a task queue | `submit`, `sync`, their CUDA-stream forms, constructors, destructor |
| Work-stealing pool | `kt-kernel/cpu_backend/worker_pool.cpp` `InNumaPool` | per-thread status words, `curr_`, `end_`, `worker_count` | `do_work_stealing_job`, `wait`, `process_tasks`, `worker_thread`, destructor |
| NUMA distributor | same file, `NumaJobDistributor`, `WorkerPool` | one status word per node, a start-up barrier | `do_numa_job`, `worker_thread`, constructors, destructor |
| Deferral pipeline | `kt-kernel/python/experts_base.py` `BaseMoEWrapper` | the class-wide `_layer_has_pending_deferred`, two buffer slots | `submit_forward`, `sync_forward`, `select_deferred_experts` |
| Buffer cache | same file, `KExpertsCPUBuffer` | `capture_bs`, `capture_buffers`, `temp_bs`, `temp_buffer` | `get_buffer`, `set_capture_batch_sizes`, `clear_buffer_cache` |
| Tensor-parallel MoE | `kt-kernel/operators/moe-tp.hpp`, `operators/amx/moe.hpp` | one part of each expert per node, partial sums | `load_weights`, `forward`, `merge_results` |
| Scratch memory | `kt-kernel/cpu_backend/shared_mem_buffer.{h,cpp}` | one growing buffer, the requests it backs | `alloc` |
| SFT CPU back end | `kt-sft/csrc/ktransformers_ext/cpu_backend/` | a mutex-and-condition queue, a pool with one range per thread, scratch memory | the same roles as above, for fine-tuning |
| SFT operators | `kt-sft/csrc/ktransformers_ext/operators`, `kt-sft/ktransformers/operators`, `.../sft` | weights, caches of activations, gradients | forward and backward of a layer |
| Scheduler | `archive/csrc/balance_serve/sched/scheduler.cpp` `QueryMaintainer` | a queue of events, the plan of each query, the queries that wait, are prepared, ready or active, the next batch | an event loop with one handler per event (`Add`, `Prepare`, `Prepared`, `Schedule`, update, taken, done), `add_query`, `update_last_batch` |
| Engine | `archive/ktransformers/server/backend/interfaces/balance_serve.py` `Engine.loop`, `query_manager.py` (the SFT server has a copy) | the batch on the device, the one taken after it, the updates of the last | `loop`, `query_manager.update`, `check_stop` |
| Key-value store | `archive/csrc/balance_serve/kvc2/src/{prefix,gpu_cache,cache_entry}.cpp`, `io_helper.hpp` | columns of GPU pages with their occupants, entries with locks, reference counts, dirty flags and transfer states, a tree of prefixes | `lookup_to_gpu_async`, `append_tokens`, release of a handle, `gpu_background_flush`, eviction |
| SFT server | `kt-sft/ktransformers/server` | requests | HTTP API |

Numeric kernels, CUDA code, model definitions, optimisation rules, the web
site, benchmarks and third-party code keep no state that threads share.

### 1.2 How they interact

Python calls `submit_forward` of a layer's wrapper.  It takes a pinned buffer
from the cache, and puts copies and host functions on a CUDA stream.  The host
function of `submit_with_cuda_stream` calls `TaskQueue::enqueue` on a thread of
the CUDA driver; the one of `sync_with_cuda_stream` spins in `TaskQueue::sync`
and so blocks the stream.  The task queue's worker thread runs a task, which is
`TP_MOE::forward`: it hands a job to every NUMA node (`do_numa_job`), whose
threads each start fork-join jobs on the pool of their node, and then merges
the partial sums into the output slot.  `sync_forward` puts the wait and the
copy of the output on the stream.  Shared state: the list and counter of the
queue, the status words and counters of the pools, the pinned slots, and the
class-wide dicts of the Python wrappers.

In the server a client's `add_query` becomes an event of the scheduler's queue.
The event loop prepares one query at a time by looking its pages up in the
key-value store, and publishes a batch behind a flag.  The engine, in another
process, is one batch behind: while a batch runs on the device it hands in the
updates of the batch before it, takes the batch that is published, and reports
what it took, all through `update_last_batch`, whose two reports are events
again.  Shared state: the queue of events, the flagged pointer to the next
batch, and the entries and columns of the store, which lookups of several
threads and a background flush lock one by one.

### 1.3 What is hard, and what makes each part correct

* *Task queue*: between the exchange of `tail` and the store to `prev->next`
  the list is broken.  No freed node is used; destruction leaks nothing; `sync`
  means what its callers think; tasks run in order; none is forgotten.
* *Pool*: the counter is loaded, a block is computed from it, and only then
  claimed; the fields of a job are plain memory.  Each index is computed once
  between call and return, and no worker is inside a job the caller left.
* *NUMA distributor*: one function and one status word per node, used by two
  threads that only the `sync` of `load_weights` keeps apart; the words are made
  by the nodes' threads, behind a barrier.  Every node computes a job once
  between call and return.
* *Tensor-parallel MoE*: the layers' partial sums share a buffer which a larger
  layer replaces; a forward merges what the nodes computed for it.
* *Deferral*: a task of layer *l* runs while layer *l+1* is already submitted,
  in a buffer that layer *l+2* will overwrite.  Inputs are intact when read,
  outputs are settled when copied, and each layer gets what it is owed.
* *Buffer cache*: two look-ups that must agree, and CUDA graphs that keep
  addresses, while nothing keeps callers from passing other sizes, changing
  `capture_bs` or clearing the cache in between.
* *SFT task queue*: a constructor that starts the worker before it has stored
  the flags, wakeups, and a flag read outside the mutex.
* *SFT pool*: threads are armed one by one while the armed ones already steal.
* *SFT MoE*: scratch fields and transposed weights of all layers share one
  buffer, which is replaced when a later layer needs more; the activations of
  a forward wait in the layer for its backward.
* *Scheduler and engine*: what the loop plans, what the engine has taken and
  what the device has done are three different positions in a query.  Queries
  are prepared one at a time and in order, also when a prepare finds no pages
  and waits for another query to be done; a done query gives its pages away
  while a batch that contains it may still run.  No chunk of a prompt may be
  skipped, and every query should end; but a chunk is computed twice, and its
  query may do harm, when the engine is faster than the loop (5.1).
* *Key-value store*: a lookup holds an entry's lock, then the cache's, then
  the locks of other entries in turn; two lookups share a page and the transfer
  of it; a lookup may fail half way.  Columns and reference counts balance,
  dirty pages stay until they are copied back, and a lookup answers only when
  its pages are there.
* *Shutdown*: `CPUInfer` deletes the pool before the queue whose tasks use it.

## 2. The modules and the code

| Module | Models | State and actions |
|---|---|---|
| `FifoExecutor` | what clients of the task queue may rely on | abstract: announced, queued, active and finished tasks; an executor that closes |
| `TaskQueue` | `task_queue.cpp` and its callers in `cpuinfer.h` | one action per atomic operation: `EnqueueAnnounce` (the increment), `EnqueueSwap` (the exchange), `EnqueueLink` (the store of `next`); the worker's load, run, delete and decrement; the destructor's stop, join and sweep |
| `TaskQueueProofs` | | the TLAPS proofs about `TaskQueue`, which implements `FifoExecutor` with any number of producers and tasks |
| `ForkJoin` | what an operator may rely on when it starts a job | abstract: each index computed once between call and return |
| `InNumaPool` | `InNumaPool` of `worker_pool.cpp` | the caller's writes, one status store per worker, load / claim / compute per thread, `wait`, the exit handshake |
| `InNumaPoolProofs` | | it implements `ForkJoin`, with any number of workers |
| `NumaMoe` | `NumaJobDistributor`, `WorkerPool`, `TP_MOE` of the AMX method, `SharedMemBuffer::alloc`, `load_weights` of the Python wrapper, `~CPUInfer` | Python and the queue's worker as callers: `Call` stores the function, `Arm` a word per node, `Await` waits for each; a node's thread polls, computes, stores; `Alloc` is the shared buffer; `Merge` reads the partial sums |
| `NumaMoeProofs` | | the distributor implements `ForkJoin`, forwards merge their own sums, with any number of nodes and layers |
| `DeferredExperts` | `submit_forward`, `sync_forward`, the CUDA stream, the tasks | composes with `FifoExecutor`; Python appends operations to the stream, the stream executes its head, the worker runs tasks |
| `SftTaskQueue` | `kt-sft` `task_queue.{h,cpp}` | one action per lock, store, unlock and notification; the wait is a predicate check, a sleep that releases the mutex, and a relock |
| `SftBackend` | `kt-sft` `backend.cpp` | a range per thread (`curr`, `end`, `status`); `SetRange` and `SetWorking` arm a thread, `Visit` / `Skip` / `Claim` / `Exhausted` / `Compute` are the two loops of `process_tasks` |
| `SftBackendProofs` | | the pool implements `ForkJoin`, with any number of threads, and `SftTaskQueue` implements `FifoExecutor`, with any number of clients and tasks |
| `SftMoe` | `kt-sft` `sft_moe.cpp`, `shared_mem_buffer.cpp`, their wrappers | `alloc` with `arrange` is the buffer; one action per job of `backward_many`, and one for each of `forward_many`, the `forward_one` calls of a rest, `get_transpose`, the `backward_one` calls of a rest; memory cells carry the name of what was last written |
| `SftMoeProofs` | | proofs about its pointers, its activation caches and what the stages of a backward pass read |
| `BufferCache` | `KExpertsCPUBuffer` | `GetBuffer` is the whole of `get_buffer`; submit and sync look up independently, sizes are set and the cache is cleared at any time; forwards and graphs keep addresses, and marks that say what was called since |
| `ExpertsBaseProofs` | | the proofs about `DeferredExperts` and `BufferCache`, the two models of `experts_base.py` |
| `BatchScheduler` | `scheduler.cpp`, the `gpu_only` allocation, `Engine.loop`, `query_manager.py` | one action per event handler and one for the check of the queue's size after it; the engine's four steps around a batch on the device: put, take, report, finish; `HandleUpdateCrash` is the call through a released handle |
| `BatchSchedulerProofs` | | proofs about the line in which the queries are served, and about the positions and pages of those none of whose chunks was taken twice |
| `PageCache` | the GPU side of `kvc2` | one action per lock taken or page handled: `LockPage`, `LockCache`, `EvictColumn`, `TakeColumn`, `NoColumn` are `alloc_on_gpu_cols`; `Absorb`, `TransferDone`, `Transferred` the shared transfers; `AppendToTree`, `AppendPage`; `ReleasePage`; the flush column by column |
| `PageCacheProofs` | | the proofs about `PageCache` |

`MC*` modules give the constants their values.  Operators called "Mutated"
stand beside the operator they change: each is a plausible mistake, which the
property it is meant for must notice when it takes the operator's place.

### 2.1 How they compose

* `TaskQueue` and `SftTaskQueue` both implement `FifoExecutor`
  (`ImplementsExecutor`); `DeferredExperts` instantiates `FifoExecutor`, so what
  the pipeline relies on is what the queue was shown to provide.  A task's place
  in the order is the exchange of `tail` in the one and the release of the mutex
  in the other.
* `InNumaPool`, `SftBackend` and the distributor of `NumaMoe` all implement
  `ForkJoin` (`ImplementsForkJoin`): between call and return every index, or
  node, is computed once.  `InNumaPool` has one caller; that the node's thread
  and the queue's worker never call a pool at once is `BackendInOrder` of
  `NumaMoe`, whose queue is the one of `FifoExecutor` with Python as client.
  `DeferredExperts` and `SftMoe` use a job as one step on that ground.
* `SftMoe` has at most one task: Python submits and at once awaits it.
* `BatchScheduler` composes the scheduler with the engine and the clients; the
  allocation of pages is part of it, since in `gpu_only` mode the store hands
  out pages or says no within the handler.  The configurations ship with
  `gpu_only: true` (`archive/ktransformers/configs/config.yaml`,
  `kt-sft/ktransformers/configs/config.yaml`); `PageCache` is the store in the
  other mode, called by any number of threads.

### 2.2 What is abstracted

Threads are sequentially consistent at the grain of atomic operations: the
queues and flags use sequentially consistent or acquire/release accesses, and
where plain fields are involved (`InNumaPool`, `SftBackend`) they are modelled
as steps of their own, so that a reader in the middle would be seen.  The
counters are unbounded: `curr` exceeds `end` by at most one increment per
thread.  Tensors are reduced to which layer, pass and slot they belong to, or to
the field they were written for.  History variables (`ran`, `issued`, `order`,
`times`, `spoiled`, `own`, `repeated`, `used`, `registered` and the marks
`cleared` and `passed` of `BufferCache`) are written and never read by an
action's guard, except to bound a run or to submit each task once.  A prompt is
its length in chunks and a page its number; `PageCache` lets a handle have one
page that matches and one to compute, which is enough to fail half way.

## 3. What the runs show

| Run | Instance | Checked |
|---|---|---|
| `task_queue` | 2 clients, 3 tasks, allowances 0 and 1 | `NoUseAfterFree`; `NothingLeaks`; `SyncHonoured`: a returned `sync(n)` leaves at most n tasks unfinished among those announced; `ImplementsExecutor`; `EveryTaskRuns`; `CallsReturn`: `sync` and the destructor come back |
| `deferred_experts` | 2 passes, 3 layers, any of the first two defers | `InputsIntact`, `OutputSettled`, `DeliveredExact`: the slots are read and written in the right order and each layer delivers what it owes; `PassesComplete` |
| `in_numa_pool` | 3 workers, 2 jobs of 0, 2 or 5 | `NoStraggler`; `ImplementsForkJoin`: each index computed once between call and return; `CallsReturn` |
| `numa_moe` | 3 nodes, 3 layers, one of them larger, 3 forwards | `BackendInOrder`; `ForwardsSound`: merged from the sums computed for it; `ImplementsForkJoin`; `CallsReturn`: constructor, loads, forwards and destructor end |
| `buffer_cache` | 3 batch sizes, 2 callers, 4 buffers | `SyncFindsItsBuffer`, `GraphBuffersAlive` |
| `sft_task_queue` | 2 clients, 3 tasks, 1 spurious wakeup | `ImplementsExecutor`; `EveryTaskRuns`, which includes that the destructor drops nothing; `QueueCallsReturn` |
| `sft_backend` | 3 threads, 2 jobs of 2 or 4, with and without `USE_NUMA` (`Builds`) | `RangesArmed`, `ImplementsForkJoin`; `CallsReturn` |
| `sft_moe` | 2 layers, one with the overlap of finding 2 and one without, 3 forwards of 1, 4 or 5 tokens, groups of 2 to 3 | `OnlyOverlapSpoils`: a stage finds nothing overwritten but a matrix that reaches into the fields of `backward_many`; `ActivationsOwn`, `PointersCurrent` |
| `batch_scheduler` | 3 queries, 3 pages, prompts of 1 to 3 chunks, 2 in prefill | `OnePreparing`, `FirstComeFirstServed`; `PrefillContinues`: no chunk is skipped, and none repeated unless it was taken twice; `NoForeignWrite`, `EveryQueryFinishes`, for the queries none of whose chunks was taken twice |
| `page_cache` | 2 clients and the flush, 2 columns, 2 keys, 3 entries, 3 lookups | `ColumnsAccounted`, `TransferAwaited`; `TypeOK` says that no reference is dropped twice |
| `page_cache_shared` | as `page_cache` | finding 1 |
| `sft_moe_shared` | weights and scratch as in `examples/test_sft_moe.py` | finding 2 |

The runs `deferred_experts`, `sft_task_queue`, `sft_moe`, `batch_scheduler` and
`page_cache` also check their module's type invariant; that of the other modules
is only a theorem (section 4).  All runs with liveness
properties use `FairSpec`; the safety properties do not depend on it.  Symmetry
is used for the clients of `PageCache` and the callers of `BufferCache`, whose
runs have no liveness property.  `PageCache` may stop, for the reason in 5.1, so
its runs do not check for deadlock; in every other run a state without a
successor is an error.

### 3.1 Why the bounds are enough

* Queues: the protocol's cases are a producer between its exchange and its link
  while another exchanges behind it (two clients), with a task in front and one
  behind (three tasks).  Larger instances are covered by the proofs.
* Deferral: two slots by parity; with three layers the last and the next
  pass's first use the same slot, the harder case; two passes show what the
  first leaves to the second.
* Pools: three threads give a caller, a thief and a victim; jobs smaller than,
  equal to and larger than the number of threads, with remainders and with more
  than one block; a second job shows what the first leaves behind.
* NUMA distributor: three nodes make a first, a middle and a last word; three
  layers, of which one is larger, are loaded in every order and between
  forwards, so that the buffer is replaced under layers in use and under none.
  Larger instances are covered by the proofs.
* Buffer cache: a cached size, a temporary one, and one that replaces it, for
  two forwards at a time; with four buffers each of them can be replaced or
  cleared once.  Larger instances are covered by the proofs.
* SFT MoE: five tokens in groups of up to three make a full group and a partial
  one, four a full group and a rest done singly, one only a rest; the second
  layer is larger, so that constructing it after the first moves the buffer and
  before it does not; three forwards let a layer be used again after the other.
  In the first layer the fields of `backward_many` begin inside `up_proj_t_`, as
  in the repository's test, and in the run two of its matrices are indeed found
  overwritten; in the second they begin behind the matrices.
* Scheduler: the second query finds too few pages and waits for the first to be
  done, and the third, for which there is a page, has to wait with it; prompts
  take one to three chunks, so that the engine holds a batch while the next is planned, or
  takes it before the loop has accounted for it.  Queries come back after they
  were done, and the scheduler crashes, in this run.  The limit `MaxBatch` on
  active queries is not reached in it, since the pages do not suffice for three:
  that part of `TypeOK` rests on the theorem.
* Page cache: three lookups over two columns make one lookup find a column
  evicted under a key it knows, one fail half way, and two share a transfer.
  Larger instances are covered by the proofs.

Named bounds: `MaxJobs`, `Passes`, `MaxAhead` (operations queued on a stream),
`MaxBuffers`, `MaxSpurious`, `MaxForwards`, `MaxQueries`, `MaxEntries`,
`MaxLookups`.

### 3.2 Fairness

Fair runs assume weak fairness of every thread inside an operation, of the
worker (tasks return), of the CUDA stream, and nothing of the clients: no caller
has to make a call, and none has to destroy anything.  Threads of the operating
system justify this; the spinning loops of the code never disable another
thread.  In `SftTaskQueue` a mutex could be taken over and over by clients, but
each does so once per task, and tasks are finite.  Where only part of a fairness
is needed, the polling steps (`PollAgain`, `SyncSpin`) are left without.  In
`BatchScheduler` the thread of the event loop and the engine's process are
fair, and clients are not: nobody has to add a query.

Nothing is assumed about the pace of the loop against the engine's.  After the
scheduler has crashed nobody is answered any more (`Gone`); `EveryQueryFinishes`
says when that may be the reason why a query does not end.

`NumaMoe` takes from Python that a layer is loaded while no forward is queued or
running, and that a `CPUInfer` is let go when nothing is (`LoadLayer`,
`Destroy`): the wrappers are loaded before the model serves, and the instance is
a class attribute that lives until the interpreter ends.

## 4. What is proved

Each module of proofs extends the module it is about, and uses only the named
assumptions on that module's constants.  Unless said otherwise the theorems hold
for every value of the constants, so for any number of threads, tasks, layers,
columns and entries.

| Module | Theorem | Statement |
|---|---|---|
| `TaskQueueProofs` | `TypeCorrect` | `Spec => []TypeOK` |
| | `MemorySafe` | `Spec => []NoUseAfterFree` |
| | `LeakFree` | `Spec => []NothingLeaks` |
| | `SyncCorrect` | `Spec => SyncHonoured` |
| | `Refinement` | `Spec => ImplementsExecutor` |
| `InNumaPoolProofs` | `TypeCorrect` | `Spec => []TypeOK` |
| | `NobodyStraggles` | `Spec => []NoStraggler` |
| | `Refinement` | `Spec => ImplementsForkJoin` |
| `NumaMoeProofs` | `TypeCorrect` | `Spec => []TypeOK` |
| | `BackendUsedInOrder` | `Spec => []BackendInOrder` |
| | `ForwardsMergeTheirOwn` | `Spec => []ForwardsSound` |
| | `Refinement` | `Spec => ImplementsForkJoin` |
| `SftBackendProofs` | `TypeCorrect` | `Spec => []TypeOK` |
| | `ThievesFindArmedRanges` | `Spec => []RangesArmed` |
| | `Refinement` | `Spec => ImplementsForkJoin` |
| | `QueueTypeCorrect` | `QueueSpec => []QueueTypeOK` |
| | `QueueRefinement` | `QueueSpec => ImplementsExecutor` |
| `ExpertsBaseProofs` | `TypeCorrect` | `Spec => []TypeOK` |
| | `InputsSafe`, `OutputsSettled`, `Delivered` | `InputsIntact`, `OutputSettled`, `DeliveredExact` |
| | `CacheTypeCorrect`, `SyncFinds`, `GraphsAlive` | `CacheTypeOK`, `SyncFindsItsBuffer`, `GraphBuffersAlive` |
| `SftMoeProofs` | `PointersStayCurrent` | `Spec => []PointersCurrent` |
| | `BackwardReadsOwn` | `Spec => []ActivationsOwn`, when `Overlapping = FALSE` |
| | `TypeCorrect` | `Spec => []TypeOK` |
| | `BackwardSound` | `Spec => []OnlyOverlapSpoils` |
| `BatchSchedulerProofs` | `PreparesOne` | `Spec => []OnePreparing` |
| | `ServedInOrder` | `Spec => []FirstComeFirstServed` |
| | `TypeCorrect` | `Spec => []TypeOK` |
| | `PrefillGoesOn` | `Spec => []PrefillContinues` |
| | `WritesOwnPages` | `Spec => []NoForeignWrite` |
| | `NobodyComesBack` | the status of a query only goes on, and what the loop accounts for starts at its place in the plan, unless a chunk of this query was taken twice |
| | `PagesApart` | no two queries hold a page in common |
| | `CrashHasCause` | the scheduler crashes only when a chunk of some query was taken twice |
| `PageCacheProofs` | `TypeCorrect` | `Spec => []TypeOK` |
| | `ColumnsBalanced` | `Spec => []ColumnsAccounted` |
| | `TransfersAwaited` | `Spec => []TransferAwaited` |
| | `PinsCounted` | an entry's `ref_count` is the number of clients that pin it |
| | `PinnedStays` | no step takes a column from an entry that is pinned |

### 4.1 Task queue

None of the properties is inductive by itself.  That a producer's predecessor is
alive follows from where breaks of the list are, and that from what the worker
has passed.  The inductive invariant `IInv` says: the nodes in exchange order do
not repeat and end at `tail` (`OrderInv`); each `next` is the successor or null
(`LinkInv`); each producer before its link stands at its own break (`BreakInv`)
and every break has its producer (`RepairInv`); the worker is at a known index
and everything before it is linked (`WorkerInv`); what is freed is what was
passed (`FreeInv`); the counter is the number of exchanged nodes not retired
plus the producers before their exchange (`CountInv`); and a client's tasks
stand in its order (`IssueInv`).  `InitInv` and `InvStep` prove it inductive,
the latter with a lemma per action or group of actions.

For the refinement the executor's queue is what follows the worker's task in
the exchange order, and a task is announced between the increment and the
exchange.  What has to be shown is that a `sync` returns only when the
executor's may: the counter is at least the number of tasks the executor calls
unfinished, since each of them is a producer before its exchange, a place in the
order behind the last task started, or the task that runs.

The SFT queue has a mutex instead, and its refinement rests on who may hold it
(`Holders`), on a task being at the end of the deque exactly while its client is
between the push and the unlock (`Pushed`), and on each task being enqueued once
(`Unique`).  Its `sync` reads `sync_flag` without the mutex; what makes that
right is that the worker raises the flag only after it has seen the deque empty
under the mutex, and a client that has pushed lowers it before it releases the
mutex (`FlagHonest`).  The
flags' memory may hold anything before the constructor stores them
(`QueueRefinement` holds for any `Garbage`).

### 4.2 The pools

Both proofs rest on the same handshake: a helper inside `process_tasks` has a
status word that says `WORKING`, and then the caller has armed it and not yet
found it done (`Handshake`).  So nobody is inside when the caller leaves, and the
plain fields of a job are stable while anybody reads them.  In `InNumaPool` the
rest is one counter: an index below `curr` has been computed or is in the block
of exactly one thread, and the counter has passed `end` when the caller begins
to wait (`Claims`).  In `SftBackend` there is a counter per thread.  The shares
of the threads partition the indices (`Shares`, `SharesEnds`, `SharesGrow`,
`SharesDisjoint`: arithmetic of `task_num / thread_num_` and the remainder), the
ranges are those shares (`Ranges`), the claims are counted as before (`Counts`),
and a thread leaves its own range only when the range is used up (`UsedUp`),
which is why nothing is left when all threads have stopped, whatever they stole.
Each step then maps to a step of `ForkJoin` or to none.

### 4.3 The distributor

That two threads may call `do_numa_job` is settled by what the queue holds: only
forwards while Python is idle, and only the load Python waits for while it is in
`sync` (`Clients`), so that a layer's construction finds the worker idle
(`Alone`).  A status word then says `WORKING` only within the one job that is
out, and tells with `times` whether its node has computed it (`Handshake`).
`Effects` says what the job has left on the nodes that computed it, and
`AllComputed` that these are all when it returns; `Loading`, that a layer that is
usable has its weights on every node and its pointers in the present buffer,
which every growth of the buffer renews.

### 4.4 The deferral pipeline and the buffer cache

What the stream holds at any time, followed by the call Python makes next, is a
contiguous piece of one fixed program: for each pass and each layer copy the
input, submit the immediate task, for a deferring layer copy again and submit
the deferred one, sync, copy the output (`Path`).  The place of the stream's head
in that program determines which tasks can be outstanding and in which order:
at most the deferred task of the layer before, the layer's immediate task and its
deferred task (`Work`).  From the place and from which of the three are left
follows what each slot must hold.  The assumptions: the layers run in the order
of their indices, a layer that defers is followed by the one with the next index,
and there are at least two slots.  Two slots are enough for any number of layers
because consecutive indices have different remainders, and since the deferred
task of a layer is done before the layer after the next submits.

For `BufferCache` nothing is assumed of the callers.  What is in the cache was
asked for since the last clear (`InUse`), so a size that is registered, in
`capture_bs` when it is first called with, misses that once, gets its buffer
into `capture_buffers`, and keeps it there until a clear (`RegisteredKept`).  Any
other size has the temporary buffer until some size misses; one that is
registered and in use never does (`Found`).  Buffers of the time before a clear
do not come back, because they are numbered as they are made (`Numbered`,
`GraphKept`).

### 4.5 The SFT operator

`PointersCurrent` is nearly inductive: it needs that every group of requests of a
living layer is remembered, so that the next growth rewrites its pointers
(`Remembered`).  `ActivationsOwn` needs that the cache of a layer belongs to the
layer's last node, as far as that node has computed (`Caches`, `Nodes`).

`OnlyOverlapSpoils` is about which stage of a backward pass overwrites what a
later one reads.  `Layout` computes where each field of both groups begins;
`SoundInv` says, stage by stage, that the gathered gradients, the indices and the
gradients of the stage before are still what was written for the same tokens, and
that every transposed matrix is as `get_transpose` left it unless it is
`Overlapped`, that is, reaches into the fields that `backward_many` adds behind
those of `forward_many`.  The sizes of the layers are arbitrary.  Since every part
of the group of `backward_many` lies behind the matrices that are not
`Overlapped`, a stage that writes there leaves them alone.  `GradientsSound`,
which says that nothing at all is overwritten, follows for layers without any
overlap (`BackwardSoundApart`); the layer of `test_sft_moe.py` is not one of
them, and finding 2 is the run that shows it.

### 4.6 The scheduler

Every query that was added stands in one line of consecutive ids (`Line`): those
that are ready for a batch, in `ready_queue`; the one that is being prepared, which
is one event or is kept in `wait_done_prepare` (`Preparation`); those that wait.
A query in front of the line has begun, and no other has.  So a handler that takes
from the front of one part and appends to the next keeps the order whatever the
page allocation says, and since one prepare is under way whenever somebody waits
nobody is forgotten.  That a `Taken` event or an update cannot make a query begin
that has not needs that the members of every batch there is, published, taken,
reported or on the device, have begun (`Members`), and that `add_query` makes no
more ids than there are queries needs the calls that are still events
(`Counted`).  None of it assumes anything about the pace of the loop.

The rest is about one query at a time.  The engine takes whatever batch has its
flag up, so a chunk may be taken again (5.1); `repeated` holds the queries this
has happened to, and a query relies only on not being among them, whatever
happens to the others.  The loop's plan, the batch the engine has taken and the
batch on the device are at three positions in a query, and the invariant
(`QueryInv`) ties them together:

* without exception, the plan is never ahead of what the engine has computed or
  holds, and no task starts after that place (`Behind`): nothing is skipped;
* for a query outside `repeated`, at most one batch with a chunk of it is taken
  and not yet accounted for: the engine is about to report it, or its report is
  the only `Taken` in the queue with such a chunk, and a batch that is published
  meanwhile contains the query too (`Reported`);
* until the loop has accounted for it the query is in prefill and its task starts
  where the plan stands (`Ahead`);
* the position of the engine, plus what the batch on the device and the next
  compute of the prompt, is the plan's position plus the chunk not yet accounted
  for (`Positions`): every step changes both sides alike, or moves a task from
  one term to another;
* so an update about such a query in prefill cannot find it done (`UpdatesSafe`),
  once done it stays so, until then it has its handle (`Loaded`), and whoever is in a
  batch is active or done, with no more active queries than were admitted
  (`Active`, `Made`);
* pages are given out from the free ones, so no two handles share any (`Apart`),
  whatever the pace; but the device goes on using the pages of a query that is
  done.  When a batch is made nobody who runs shares a page with its members, and
  whoever does later entered after it and has not been computed yet (`Clear`).

`NoForeignWrite` is the part of `Clear` about the batch on the device; that the
newcomer is not yet computed there is kept because it is in no batch the engine
holds until the batch that names the old owner has run.

### 4.7 Page cache

The invariant is the conjunction of: the shape of each handle and where a client
stands in it (`Shape`); who holds which lock (`Locks`); the columns (`Books`);
`ref_count` as a number of clients (`References`); what the entry map knows was
made (`Known`); a page to compute belongs to one client until it is appended
(`FreshOwned`, `FreshPlaced`), so that it is never dirty before and in its
column when it becomes so; and who transfers what for whom (`Transfers`).  The
properties need each other: the books are kept while a client between two locks
holds its entry's lock, a pinned page is not evicted because of `References`,
and a dirty one not because the flush keeps its lock.

### 4.8 Only model-checked

Liveness, which is out of the prover's reach: `EveryTaskRuns`, `CallsReturn`,
`QueueCallsReturn`, `PassesComplete`, `EveryQueryFinishes`; and that the runs
which check for it reach no deadlock, which is a matter of `ENABLED`.  Every
invariant, action property and refinement that a passing run checks is also a
theorem.

## 5. What the checks found

1. *Columns of evicted entries* (`page_cache_shared`).  `evict_cols` leaves the
   entry's `gpu_block_idx` set and the entry in the map (`gpu_cache.cpp:204`);
   the next lookup of its key takes it for allocated and pins a column that may
   hold another page.  `kvc2.h:89` says that a handle "holds kvcache until being
   released".
2. *Scratch over weights* (`sft_moe_shared`).  Both request groups of `SFT_MOE`
   begin at the start of the buffer.  `backward_many`'s fields follow those of
   `forward_many`, and unless these are as long as the three transposed
   matrices, the stages overwrite weights that later stages multiply with.  In
   `test_sft_moe.py` the first of them begins at 191 MB, inside `up_proj_t_`.
   The run `sft_moe` has a layer of these proportions and one without
   overlap, and `OnlyOverlapSpoils` says that nothing else goes wrong.  The
   test's comparison of `backward_one` and `backward_many`
   (`test_sft_moe.py:604-749`) prints for the case of NaN only in the latter
   that the fault lies in `backward_many`.

### 5.1 Seen on the way

These are behaviours of the code that the models have, or that a constant of a
module exposes, but that contradict nothing the repository says:

* A batch taken too early: `update_last_batch` takes any batch whose flag is up,
  and reports it afterwards (`scheduler.cpp:580`).  A batch the loop publishes in
  between is made from the old positions; if the loop is then slow, the engine
  takes that one too, and the device computes a chunk of a prompt twice, at
  positions that no longer agree with `active_position`.  The report of that
  batch may come after the query was done: `absorb_prefill_task` then sets it to
  `Decode` again (`scheduler.cpp:229`; the assertion that it is in prefill is a
  comment, line 781) and it becomes active once more, without a handle and over
  pages that are released.  The next update about it calls through the null
  handle and ends the process.  That takes an engine which overtakes the event
  loop by a whole batch: handling an event takes microseconds and a batch on the
  device milliseconds, but no code makes the one wait for the other.  The model
  has all of it, so `PrefillContinues`, `NoForeignWrite` and `EveryQueryFinishes`
  except the queries in `repeated`; TLC refutes each of them without the
  exception.
* Sizes set late: `get_buffer` answers a size equal to `temp_bs` from the
  temporary buffer before it looks at `capture_bs`, so a size that was called with
  before it was set need not be kept.  `SyncFindsItsBuffer` and
  `GraphBuffersAlive` are about the sizes that were set at their first call.
* A forward of a size that is not set, between the submit and the sync of another
  such size, takes the temporary buffer away: the sync then finds a new one, and
  copies an output nobody wrote.  The wrappers of a model submit and synchronise
  one batch at a time, but the cache does not ask for it; `SyncFindsItsBuffer`
  has the exact condition (`passed`).  In the same way `clear_buffer_cache` asks
  neither outstanding forwards nor graphs (`cleared`).
* With `Garbage = {TRUE}`: the SFT queue's constructor starts the worker first
  and stores `exit_flag` afterwards.  If the memory happens to read as true the
  worker leaves, with the mutex held.
* With `Overlapping = TRUE`: a layer that runs forward twice before the first
  backward differentiates the second forward.
* With the last layer among `DeferChoices`: its deferred task writes to the slot
  of a layer that does not follow, and nobody reads it.
* The flush of the key-value store keeps the locks of the dirty entries it has
  seen while it waits for the cache's lock for its next column; a lookup in
  `evict_cols` holds the cache's lock and waits for the lock of such an entry.
  Then both wait for ever, and with them every later lookup.  TLC finds it in
  `PageCache` in 17 steps when deadlock is checked.

## 6. What is not modelled

* Arithmetic, quantisation, SIMD tiles and CUDA kernels; addresses within a
  weight matrix.  `get_transpose` leaves out the block size of quantised types.
* `do_numa_job` under `USE_NUMA_JOB_DIRECT_WORK`, which no build file defines;
  the stages of a node's part of an expert (`AMX_MOE_TP`) and their scratch
  memory, which are jobs of that node's pool one after the other; the operators
  of the other quantisation methods, which share the structure of `TP_MOE`.
* `select_deferred_experts`, which only splits the ids of a layer's experts.
* Python around `SFT_MOE`: `KSFTExpertsCPU.backward` passes seven arguments
  where the llamafile binding takes eight (`experts.py:653`,
  `ext_bindings.cpp:709`); the tests that pass `layer_idx` are what
  `SubmitBackward` stands for.
* The scheduler's `cancel_query`, which erases from `query_map` on the caller's
  thread without a lock and has no caller, and `stop`.  Where a decoding query
  stands in the plan is never read.
* In the key-value store: pages in CPU memory, with the condition on their dirty
  flag in the flush (`prefix.cpp:1781`), the disk store, and the prefix
  tree, of which only the set of known keys is left.  A lookup never waits for
  memory of the host.  The destructor there drops the future that `wakeUpWait`
  returns (`prefix.cpp:1382`) and so does not wait for the last flush.
* The engine's queue to its clients, whose `put` gives up after five seconds
  when it is full (`balance_serve.py:341`): the model takes the consumer to keep
  up.  The assertion that fewer than `2 * (max_batch_size - 1)`
  queries decode (`scheduler.cpp:458`): with a `max_batch_size` of 2 the second
  decoding query trips it, which `BatchAssumption` leaves out (the configurations
  set 4); with a larger one only queries that came back after they were done can,
  and the abort would only cut such a behaviour short.
* A task that throws ends the process; there is no later state.
* Weak memory beyond what 2.2 says; the Windows branches.
* The HTTP server, the model runner, the weight loaders, the conversion scripts,
  the model definitions and the optimisation rules: most of the repository's
  lines are network definitions, numerics and configuration, which are
  sequential and keep no state of their own that a step could break.

## 7. Plan

Done, in this order: the executor and the queue, with proofs; the pool; the
deferral pipeline on top of the executor; the buffer cache; the SFT queue and
pool against the same abstract modules; the SFT operator; the scheduler with its
engine; the page cache, with proofs; the proofs for the pools, the buffer cache
and the SFT operator; the distributor and the tensor-parallel operator, with
proofs; and proofs of the refinement of `FifoExecutor` by both queues, of the deferral
pipeline, of the line of the scheduler and of its positions and pages, and of what
the stages of a backward pass read.
What would come next:

1. The CPU pages of the key-value store, with their own eviction and flush.
