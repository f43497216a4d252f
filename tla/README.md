# A TLA+ verification of ActQuant

ActQuant quantizes vision-language-action models below four bits and runs them: scripts
under `tools/hsic` and `tools/fisher-diag` score tensors and choose a type for each,
`llama-quantize` converts the file, and C++ runtimes (`tools/pi0.5`, `tools/openvla-oft`)
serve the result to a robot or a simulator. This directory holds TLA+ models of the parts
whose correctness depends on state that outlives a call or on the order of steps, their
TLC runs, and proofs checked by TLAPS.

    tlc -config runner.cfg MCActionExpertRunner     # and likewise for the other runs
    tlapm ActionExpertRunnerProofs.tla              # and the other *Proofs modules, SumTheorems

## Inventory

Paths are relative to the repository's root.

| Part | State it keeps | Operations | What makes it correct | Model |
|---|---|---|---|---|
| Action expert runner, `tools/pi0.5/action_expert.hpp`, `kv_cache_models.hpp` | persistent K/V tensors, remembered hash, mask and length, two sessions over one scheduler | `sample_actions_with_cache`, `compute_kv_cache`, `run_with_cache` | actions come from the call's own observation, whatever earlier calls did or failed to do | `ActionExpertRunner` |
| ggml scheduler, `ggml/src/ggml-backend.cpp` | which graph is allocated | reset, alloc_graph, graph_compute | a client runs the graph it means to run | `BackendSched` |
| Pi05 front end, `tools/pi0.5/pi05.cpp` | encoders, profile sums | `run` | fails without touching the runner | `Call`, `FrontEndFails` of the runner |
| Bit allocator, `tools/hsic/allocate.py`, `allocate_pi05.py` | types, bits, layer errors, a heap with lazy deletion | menu, `greedy_l2_allocate` | budget kept, no upgrade lost, loop ends | `GreedyAlloc` |
| Quantization workers, `src/llama-quant.cpp` | row counter, size, valid flag, mutex | worker loop, join, expert loop | no data race, each row once with its importance, defects reported | `QuantWorkers` |
| Type selection and writer, `src/llama-quant.cpp`, `tools/quantize/quantize.cpp` | per-tensor overrides, fallback counters, output splits | `llama_tensor_get_type`, file loop | the types planned are the ones written; a file with a header is whole | `QuantPlan` |
| Quantization drivers, `tools/hsic/run_hsic_quant_pi05.sh`, `run_hsic_fisher_quant.sh` | score, cache and allocation files | skip, compute, allocate, quantize | files belong to this model and parameters | the command line in `QuantPlan`, the files planned |
| HSIC, Fisher and AMF scores, `tools/hsic/compute_hsic_*.py`, `tools/fisher-diag/` | activation caches, accumulators | one pass over a dataset | cached activations are of this model; numerics | cache reuse planned, numerics out of reach |
| Policy server and evaluation, `tools/pi0.5/serve_policy.py`, `run_libero_eval.sh` | connections, the pipeline, server processes | receive, infer, answer, health check, start, stop | a failed inference is seen as one; the server asked is the one started | planned |
| Pi05Context and Pi05Memory, `tools/pi0.5/pi05_context.cpp`, `pi05_memory.cpp` | prefix length, reusable graphs, cells | `process_prefix`, suffix steps, clear | as for the runner | planned |
| Export and merge, `tools/pi0.5/export_pi05*.py`, `merge_pi05_llm.py` | none between calls | file conversion | each tensor taken from the right file | `merge` planned |
| OpenVLA-OFT runtime, `tools/openvla-oft/` | a llama context per process | `run` | context cleared between calls | later |
| Logger, `common/log.cpp` | ring buffer, running flag, log file and colours, a worker thread | add, pause, resume, set_file, set_colors, worker loop | nothing lost, reordered or written to a file that is being changed; pause returns | `CommonLog` |
| CPU thread pool, `ggml/src/ggml-cpu/ggml-cpu.c` | graph and thread counts, barrier counters, chunk counter, abort and pause flags | kickoff, poll, wait, barrier, matrix product, pause, free | nodes kept apart, chunks computed once, no thread left behind, no wakeup lost | `ThreadPool` |
| llama KV cache and batching, `src/llama-kv-cache.cpp` | cells, sequences | | | later |
| Kernels, GPU back ends, vendored libraries | | | | not modelled |

How they interact. The server calls `Pi05::run` for one request at a time; that encodes
the images, tokenizes the prompt and calls the runner, which calls ggml through a
scheduler shared by three graphs. Nothing in the runtime is concurrent: what is hard there
is state carried from one call to the next past failures. The allocator is sequential
too; what is hard is a heap whose entries go stale. The quantizer's workers are really
concurrent, and share a counter, a size and a flag under a mutex and the output buffer
without one. So are two parts taken over from llama.cpp that every tool runs on: the
logger, into which any thread writes and from which one prints, and the CPU thread pool,
which executes every graph of the runtimes when ggml is built without OpenMP. The
allocator's result reaches the quantizer as a command line: there the types it chose meet
the heuristics `llama-quantize` has of its own.

## Modules

`BackendSched` has no variables: a scheduler is a record, each ggml call an operator on it.
Its point is that `graph_compute(g)` runs the graph that is *allocated*, not `g`.

`ActionExpertRunner` has one process. `phase` is `idle` between calls, `called` once
`Pi05::run` has an observation, `ode` in the Euler loop, `aborted` after a failed
assertion. `kv[l]` says whose keys and values the device tensors of layer `l` hold;
`cached_prefix_hash`, `cached_mask`, `cached_n_prefix`, `kv_cache_initialized`,
`prefix_session`, `suffix_session`, `suffix_pos` are the members of the class. `used` and
`poisoned` are history variables: what the velocities of this call were computed from, and
whether the last prefix forward failed. `compute_kv_cache` is `CacheHit`, `CacheMiss`,
`PrefixForwardFails` and the three assertion failures `PrefixTooLong`,
`PrefixAllocAborts`, `PrefixMismatch`; an iteration of the Euler loop is `SuffixStep`, or
`StrayStep` if the scheduler holds another graph, or `SuffixForwardFails`,
`SuffixAllocAborts`; `Return` leaves the loop. Each action is the whole handler: the forward,
both session updates and the bookkeeping of a miss are one step because nothing else runs
in between.

Abstractions: an observation is a model value with a length, a mask and a hash; K/V
contents are the observation they were computed from, or `Garbage`; time is counted in
halves of a step, exactly (`t >= -dt/2` is `t >= 1`); a failed forward has written the
layers of a prefix of the layer order, perhaps only the keys of the next one. The stray
step is a nondeterministic choice over what executing the other graph on overwritten
inputs may leave behind. A 64-bit hash is assumed not to collide (`HashAssumption`), since
the code never compares the embeddings themselves.

`PolicyContract` is the abstract specification: a policy with no cache at all, that accepts
a request, evaluates it `NumSteps` times, answers or refuses, and dies only on an oversized
request. `ActionExpertRunner!Contract` instantiates it under a refinement mapping in which
the number of evaluations counts only those on the call's own observation.

`GreedyAlloc` follows `allocate.py` (`allocate_pi05.py` repeats the same functions). The
arguments are chosen in `Init`, `MenuType` is `deduplicate_quant_menu` at one level,
`PushUpgrade` is `push_upgrade`; `BaseMissing`, `ReturnBase` and `Start` are the code before
the loop, and an iteration is `SkipStale`, `DropOverBudget` or `Upgrade`; `Finish` returns.
The heap is the set of its entries, popped by `IsHead` in the order of the Python tuples
(value, then push counter). Bits per weight, noise and scores are integers instead of
floats, and values are compared by cross-multiplication, so rounding is not modelled. As
the menu has one type per level, a type index is represented by the level.

`QuantWorkers` is the expert loop of `llama_model_quantize_impl` around
`llama_tensor_quantize_impl`. A worker's loop is split where another thread can intervene:
lock, read of the counter, advance and unlock (or retire), quantize, validate, lock to
report, report. Reading and advancing are separate steps, so that the mutex and not the
model makes them atomic. Quantizing a chunk is one step, which is sound because
`NoSharedRows` shows nobody else touches these rows. All threads are spawned in one step: a
thread that starts late is one that takes its first step late. Sizes are counted in
quantized rows, and `q` records the importance slices every row was quantized with. The
rows whose data will not validate are chosen at the start.

`QuantPlan` takes an allocation to a file. `job` is everything `llama-quantize` is given: who
wrote the command line (`allocate.py`, with an override for every tensor, or a driver
script, which leaves out those at the base type), the base type, the tensors raised above it,
row lengths, imatrix, source type, shards. The rules of `llama_tensor_get_type` are
operators (`OutputRule`, `EmbeddingRule`, `BlockRule`, `Fallback`), with the counters `count`
by which they know the layer. `Convert` is one iteration of the tensor loop, `Close` and
`Open` are the lambdas for the output shards, `Throw` an exception or failed assertion of the
iteration, `Crash` a kill or a failed write anywhere. `data` and `meta` are what is on disk.
Dense models only, and the base types the drivers offer. The input is one file or two shards,
and holds its tensors in any order (`Inputs`, `InputAssumption`): with `--keep-split` the vector
is sorted by shard and offset only (`Sorted`, `llama-quant.cpp:732-740`), and nothing ties
the offsets to the layers. A first shard without tensors is not modelled.

`CommonLog` has the callers of `add`, one worker and one controller: `log.h` documents
`pause`, `resume`, `set_file` and `set_colors` as not thread-safe. What runs under the mutex is
one step; printing, outside it, is another. File and colours are one `sink`. `accepted` and
`printed` are history variables. Text and level of a message are its place in the order.

`ThreadPool` has one step per access to shared memory, or per section under the mutex. Thread
0 is the caller: `Compute`, `Kickoff`, `SetPause`, `Free`, `Joined`. A worker looks for a graph
in `Top`, `PauseWait`, `Poll`, `LoadGraph`, `LoadActive`, `WorkWait`; all threads of a graph
take `Begin`, `Test`, `Convert`, `Mul`, `Fetch`, `AfterNode` and the steps of the barrier
(`Enter`, `Arrive`, `Reset`, `Release`, `Spin`). Every node is a matrix product, the operation
with a barrier and a shared counter inside. Atomics are sequentially consistent, which is
stronger than the code asks for, and condition variables wake only when told to; both
waits are loops that test again.

The `MC*` modules give the constants of the runs. The definitions marked "Seeded fault" are
plausible bugs, one per property, used to confirm that the property would notice.

## Runs

| Run | Result | Shows |
|---|---|---|
| `runner` | holds | `TypeOK`; `CacheCoherent`; `AllocationOwned`; `ActionsFromOwnObservation`; `AbortExplained`; `CallsEnd`, with every kind of failure possible in every call |
| `runner_contract` | holds | `ImplementsContract`: with front-end and suffix failures the runner implements the contract, fairness included |
| `runner_stale_hit` | violated | `SkipOnlyWhenCached`: finding 1 |
| `greedy` | holds | `TypeOK`; `WithinBudget`; `BooksBalance`; `BaseOnMenu`; `CandidatesQueued`; `NeverUnderestimates`; `MaximalAtEnd`; `Terminates` |
| `greedy_best` | violated | `PicksHighestValue`: finding 2 |
| `workers` | holds | `TypeOK`; `NoSharedRows`; `QuantizedOnce`; `SizeExact`; `InvalidReported`; `CallEnds` |
| `log` | holds | `TypeOK`; `NothingLost`; `PauseFlushes`; `IntoItsSink`; `PauseReturns`; `Delivered`, for every interleaving of callers, worker and controller |
| `log_full` | violated | `PauseAlwaysStops`: finding 3 |
| `threadpool` | holds | `TypeOK`; `InStep`; `ChunksOnce`; `AbortStops`; `QuietPool`; `NeverStuck`; `GraphReturns`; `FreeReturns`, while the graphs of a pool all ask for one number of threads |
| `threadpool_counts` | violated | `QuietPool`: finding 4 |
| `quantplan` | holds | `TypeOK`; `PlanKept`; `HeaderMeansWhole`; `CounterIsLayer`; `KernelHasWeights` |
| `quantplan_driver` | violated | `PlanKept`: finding 5 |

No run checks for deadlock: an aborted process, an allocator that returned, a quantizer
that returned or threw, a destroyed log and a freed pool take no further step. That nothing
stops earlier is what the liveness properties say.

**Bounds.** *Runner:* five observations: two of one length, the second one's embeddings under
another mask, one of another length with that mask, one a token too long for the cache. A
difference in hash, mask or length alone, and every pair of them, occurs between two
consecutive calls; the number of calls is not bounded. Two layers tell a partly written
cache from a whole one; two Euler steps tell the first suffix run, which allocates, from
the later ones, which trust. *Allocator:* three levels, the middle one shared by two types,
three tensors, two of them in one layer with different sizes; four scores, a negative one and
zero among them; seven budgets from below the base size to beyond the largest. All pairs of
base and max types occur, inverted ones too. *Workers:* five rows in chunks of two (the last
chunk short), one to three threads, two experts, both forms of the importance matrix, and no,
one, or several defects within an expert and across experts. *Logger:* a ring of two entries and
three messages, so that it wraps, grows with its oldest entry not at index 0, and is found
full by a pause; any number of pauses, resumes and sink changes. *Pool:* three threads, two
graphs of two products; four chunks for one or two threads, so that there are more chunks than
threads, and fewer than two for each of three threads, so that three of them divide the product
anew, one chunk each; each pool asks for one, two, three or five threads (five are cut to
three). The second graph begins while workers still leave the first.
For different counts, two threads and three graphs of one product are enough to show finding
4. *Type selection:* eleven layers, the least for which the lexicographic order of the names is
not that of the layers (`blk.10` before `blk.2`), and enough that `n/8` is not zero; three
inputs, role by role with the feed-forward tensors in a second shard, layer by layer cut inside
a layer, and one file in lexicographic order; nothing, two roles or one layer raised;
rows that divide by 256, by 32 only and by neither; complete, partial and ill-sized importance; a source that may and one that may not be requantized. Crashes may happen
before every step.

**Fairness.** The runner: `WF(Advance)`, the thread of a call keeps running; failures are never
forced to happen, and a caller is never forced to call. The allocator: `WF(Next)`, it is one
sequential loop. The workers: weak fairness of the caller and of each worker, which is what
an operating system's scheduler gives. A worker waiting for the mutex is not continuously
enabled, but the others take the mutex finitely often, so no strong fairness is needed. The
logger: weak fairness of the worker and of the caller waiting in join; nobody is made to log
or pause. The pool: weak fairness of thread 0 once it was asked for something and of each
worker; a spinning thread is disabled until the barrier opens. Type selection has no
liveness property and no fairness.

## Findings

1. *A failed prefix forward can be taken for a cached one* (`action_expert.hpp:597`). The
   hash and the mask are remembered before the forward. Once the cache was initialised by
   an earlier call, repeating the failed observation passes the "identical to last call"
   test and samples from a partly written cache, and through the scheduler's prefix graph
   if the suffix session still believes its own is allocated. The properties of `runner` exempt
   the calls after such a failure (`poisoned`), so `SkipOnlyWhenCached` alone is about it.
2. *The greedy choice is not always the best one* (`allocate.py:294`). Entries pushed before
   their layer's error fell keep their old value, and the staleness test looks only at the
   type index. `NeverUnderestimates` bounds the effect: stale values only overestimate.
3. *A pause that finds the ring full never returns* (`log.cpp:321`). `pause` advances `tail` for
   its stop entry without the test for a full buffer that `add` makes; with all entries but one
   in use the ring then looks empty, the worker sleeps with every message unprinted, and the
   join waits for ever. The properties of `log` exempt exactly this state (`Overrun`), so
   `PauseAlwaysStops` alone is about it.
4. *A worker can join a graph twice* (`ggml-cpu.c:2917`, builds without OpenMP). A polling
   worker reads the graph's number and then, separately, the number of threads. If a graph of
   one thread ends and one of two begins in between, it joins the second with the number of
   the first, and takes it for a new graph when it is done, after thread 0 has returned.
   Graphs of one pool do differ: the plan lowers the count to what the nodes can use. With
   equal counts the run `threadpool` shows that this cannot happen.
5. *The drivers' files do not have the planned types* (`run_hsic_quant_pi05.sh:161`). Tensors at
   the base type get no override, so `llama-quantize` applies its own rules to them: with base
   `IQ2_S` or `Q2_K` the file differs from the allocation, and from its budget. `allocate.py`
   says in a comment that it prints an override for every tensor to avoid this. With `IQ2_XS`
   nothing changes, because its rules are switched off (`llama-quant.cpp:265`).

Four smaller observations have no run of their own. A length change after a failed prefix
forward is missed (`action_expert.hpp:613`): the new length is compared with that of the last
forward that succeeded, while the session was rebuilt for the one that failed, so the next call
of the old length fails an assertion; `AbortExplained` exempts it. Two kept types of one level
(`allocate.py:98`): the menu keeps the first only, and with base `Q3_K` and max `IQ3_S` the lookup
of the base type raises `StopIteration`; `BaseOnMenu` exempts it and shows that nothing else makes
the lookup fail. The default target of `run_hsic_quant_pi05.sh:56` still counts upgrades for
`IQ2_XS` which `llama-quant.cpp:265` no longer makes. And with `--keep-split` the counters by
which `llama_tensor_get_type` knows the layer follow the order of the input files: in one that has
`blk.10` before `blk.2` the heuristics take layer 10 for layer 2. (The comment at
`llama-quant.cpp:191-194` says as much of experts, whose layer is parsed from the name; for
dense models it is not.) `CounterIsLayer` therefore speaks, under `--keep-split`, only of roles whose
layers come in order (`InOrder`); the third input of `quantplan` is one where they do not. The types
an override names do not depend on the counters, so `PlanKept` holds for such files too.

## Proofs

Each proof module extends its component's module and proves its invariants for every value
of the constants that satisfies the named assumptions.

*Runner* (`ActionExpertRunnerProofs`; `PrefixAssumption`, `SizeAssumption`,
`HashAssumption`). `RunnerInv` is inductive: the properties alone are not, because a hit
needs to know that both sessions have the length of the remembered observation
(`SessionsAgree`) and an answer needs to know that the whole loop before it worked on the
call's own cache (`CallOnOwnCache`). From it follow `RunnerTyped`, `CacheIsCoherent`,
`AllocationIsOwned`, `AnswersOwnObservation`, `AbortsExplained`, for any set of faults.
`RunnerImplementsContract` proves that every step maps to a step or a stutter of the contract
when prefix forwards and allocations do not fail. The findings show why this is needed:
without it the statement is false.

*Allocator* (`GreedyAllocProofs`; `RegistryAssumption`, `TensorAssumption`, `NoiseAssumption`: a
type with more bits has no more noise). `AllocInv` adds to the properties that every tensor is at
the base level before the loop. The heart is `CandidatesQueued`: each upgrade lowers the error of
one layer, whose other tensors are pushed again, and raises the bits, so what did not fit never
fits again. With an empty heap it gives `ResultMaximal`. `BudgetKept` and `AllocTypes` follow too.
`TotalsExact` proves that the bits and layer errors updated by differences are the sums over the
tensors; it rests on `SumTheorems`, where an induction over the subsets of a finite set shows that
such a sum does not depend on the order of its terms. `HeapOptimistic` says that stale entries only
overestimate: an error that falls lowers the value of an upgrade (`LowerErrorWorthLess`). `BaseFound`
is `BaseOnMenu`. `LoopHasHead` and `LoopProgresses` are the safety half of `Terminates`: the order of
the heap is transitive although it cross-multiplies, no two entries have the same push counter
(`CountersApart`), so a heap that is not empty has a head; and every iteration spends bits of a
bounded budget or shrinks a finite heap.

*Workers* (`QuantWorkersProofs`; `ShapeAssumption`). `WorkersInv` says who holds the mutex,
that chunks handed out lie apart and below the counter, which rows are done, in progress or
untouched, and why a worker may have left. From it: `WorkersTyped`, `WorkersDoNotRace`,
`EveryRowQuantizedOnce`, `DefectsReported`, for any number of threads, rows and experts.
`SizeAddsUp` needs one more invariant, `SizesAdd`: while no invalid chunk is reported, the rows handed out
are those in `new_size` and those the workers still owe. `WorkersNeverStuck`: while the caller
waits in join, some worker can move or all are gone.

*Logger* (`CommonLogProofs`; `LogAssumption`). `IInv` counts the messages waiting from what was
accepted and printed, not from `head` and `tail` as the code does, and says that they lie in
order behind `head`, perhaps followed by the stop entry (`Ring`); that with `Coupling` (who runs
when) and `SinkKept` (what is still to be printed was accepted for the present sink) is
inductive. From it: `TypeCorrect`, `LogKeepsMessages`, `PauseHasFlushed`, `SinkIsRespected`, for any
capacity and any number of wraps and expansions. `WorkerSleepsWhenDone` shows that no notification
is lost. The other two are finding 3 for every capacity: a pause overruns the ring only when it
finds all entries but one in use (`OnlyFullOverruns`), and nothing undoes that (`OverrunIsForGood`).

*Type selection* (`QuantPlanProofs`; `JobAssumption`, `InputAssumption`, `SourceAssumption`).
`AllocationIsWritten`: for any number of layers, allocation, shapes and inputs, a complete
command line makes `PlanKept` an invariant. `Complete` holds of what `allocate.py` prints, and of the drivers' command lines for
`IQ2_XS`, which has no rules, and `Q3_K_M`, a preset whose name no tensor type has. The invariant
says that everything on disk was chosen by `NewType` at some value of the counters;
`TypeIsAssigned` shows that under `Complete` the counters do not matter. Finding 5 shows why
`Complete` is needed. The rest needs no hypothesis on the command line. `LoopInv` says where
the loop is (`Position`), that each counter is the number of layers of its role seen before this one
(`Counts`), and that every shard holds the converted part of its segment of the tensors, in order,
with a header only when the segment is whole (`Shards`). `InputAssumption` asks only that the input
has every tensor once. So has the vector in either order (`Lists`, `Order`, `MapLists`), and a tensor's
shard follows from its position (`SplitByPosition`); this gives `PlanTypes`, `HeadersDescribeData` and
`WeightsForKernels` for any order of the tensors, with a crash possible before every step.
For `CountersAreLayers` the layers of the role must come in order: then the layers seen are those
below the tensor's own, and their number is its layer (`LayerFromPosition`). The order of
`weight_name_comparer` is shown to be such an order (`MapLists`), so without `--keep-split` the theorem
holds for every input; with it, it holds for the roles the files have in order.

*Thread pool* (`ThreadPoolProofs`; `PoolAssumption`). `PoolInv` gives each thread inside a graph a
stage, two per node, and says that all of them are in the same stage or have not yet heard of
the graph (`Together`); that the barrier's counter counts those who wait, and that the last thread
to arrive resets it while all others wait (`AtBarrier`); that nodes behind the stage are computed
once and those ahead not at all (`NodesDone`); and that each chunk below the shared counter is
computed or claimed by exactly one thread (`ChunksHeld`). From it: `PoolTypes`, `PoolInStep`,
`PoolChunksOnce`, `PoolAbortStops`, `PoolQuiet`, for any number of threads, nodes, chunks and graphs.
All of these assume `Uniform`, one number of threads for all graphs of a pool; finding 4 shows
that without it the conclusion fails. `NoLostWakeup` does not assume it: whatever the graphs ask
for, a worker sleeps only when it should (`Wakeful`). The two together give `PoolNeverStuck`:
while a graph runs some thread of it can step, because not all can be waiting at one barrier, and
while a pool is freed every worker can. `CanStep` spells out when a thread's next step is enabled,
as ENABLED is beyond the prover.

Only model-checked: the liveness properties (`CallsEnd`, `Terminates`, `CallEnds`, `PauseReturns`,
`Delivered`, `GraphReturns`, `FreeReturns`, the fairness of the contract), since fairness is beyond
this prover; the theorems on progress and on threads that are never stuck are as near to them as
safety comes. And the violated properties. Every invariant of a passing run is a theorem.

## Not modelled

Methods of the runner without a caller in the repository (`clear_kv_cache`,
`set_mask_range`, `set_prefix_length`, the joint `run` and `sample_actions`); floating-point
rounding, in the Euler loop and in the allocator; score loading, transforms and the printed
comparison; profiling; failure to start a thread; the numeric kernels. Of the quantizer: experts,
Falcon and 70B rules, `--pure`, `--copy`, `--prune-layers`, requantization, a first shard without
tensors, and the file types no driver offers. Of the thread pool: the OpenMP build, disposable
pools, priorities and affinities, the llamafile `sgemm` path of the matrix product (which divides
the work in its own way), and memory orders weaker than sequential consistency. The parts marked
"planned" in the inventory, and the hazards in `PROJECT.json` that no property covers yet.

## Plan

What exists: `ActionExpertRunner` over `BackendSched`, implementing `PolicyContract`; `GreedyAlloc`;
`QuantWorkers`; `QuantPlan`; `CommonLog`; `ThreadPool`. What remains, in this order:

1. `PolicyServer`: connections, synchronous inference, substituted zero actions, the
   readiness check and restart of `run_libero_eval.sh`, composed with `PolicyContract`.
   Properties: an answer belongs to its request, a failure is not answered with a motion,
   a ready server is the one started, every request is answered.
2. The reuse of score and activation files by the drivers, before `QuantPlan`; the
   dequantization threads, in `QuantWorkers`.
3. The runner's remaining methods, then `Pi05Context` with `Pi05Memory`, as a second
   implementation of `PolicyContract`.
4. `merge_pi05_llm` as a function checked against a reference definition; the OFT runtime;
   the KV cache of llama.cpp as far as it is used.

Theorems to add with them: the server as an implementation of `PolicyContract` for any number of
connections; for the pool, which pairs of different thread counts `PoolQuiet` could still allow.
