# A verification project for the DGX Spark runtime

TLA+ models of the runtime in `src/`, which serves one DeepSeek V4 Flash model
from one machine: an HTTP server in front of a single engine thread, an engine
that keeps one key/value cache for many sessions, a loader that brings expert
weights from packed files into memory on demand, the tools that make those files
and the tables of the checkpoint, and the programs that run experiments in
guarded containers. Paths below are relative to the repository.

Contents: [inventory](#inventory), [modules](#modules), [runs](#runs),
[proofs](#proofs), [findings](#findings), [plan](#plan),
[what is not modelled](#what-is-not-modelled).

## Inventory

The repository's own program is `spark_runtime/` (about 2500 lines of Python
and 360 of C++) and the tools in `scripts/`. `results/` holds measurements,
`docs/` design notes and experiment reports.

| component | state it keeps | operations | how it interacts | what is hard, what must hold |
| --- | --- | --- | --- | --- |
| **Engine** `engine.py` | `sessions` (token prefix, `cache_valid`, `next_logits`, `pending_postfill`), `active_session_id`, the model's one cache | `generate_sync`, `prepare_next_logits_sync`, `reset_session`, `health` | called by the worker; calls the model | the table describes a cache it does not own: every answer must be what an engine without cache would give; a stored logits tensor must belong to its tokens |
| **Worker** `worker.py` | one-thread executor, `_health_snapshot` | `generate`, `prepare_next_logits`, `reset_session`, `close`, `health` | serialises engine calls; reads the engine's table in the event loop | the snapshot is taken while the next call may run |
| **Server** `server.py` | `pending_requests`, `background_tasks` | completion, chat, reset, health routes; postfill tasks; shutdown | event loop; submits to the worker | slots must balance over 200, 400, 429 and 500; postfills must happen; nothing may run after close |
| **Expert cache** `lazy_official_runtime.py` | entries, access counter, resident bytes, arena pool, each expert's `_expert` | `materialize`, `touch`, `insert`, `evict`, `acquire`, `release`, prefetch | materializer threads against the forward pass | LRU and quota limits, byte accounting, a module is never used by two experts, prefetch that fails halfway |
| **Packed expert store** `lazy_official_runtime.py` | the layout read at start, file descriptors, pinned staging buffer per thread | `tensors_for_expert`, `read_and_copy_with_plan`, `close` | materializer threads, CUDA stream; reads what the packed tools write | a staging buffer is refilled while its copy may be in flight; the files are rewritten under a running server |
| **Native loader** `native_packed_loader.cpp` | none | read loop, bounds checks, copies | called by the store | short reads, end of file |
| **Weight store, resident weights** `lazy_official_runtime.py` | rows by target, shard handles | `load_resident_weights`, `require`, `has`, `close` | reads `weight-manifest.csv` and the shards | a parameter without a row is only counted; every parameter must be filled from its own tensors |
| **Manifest and inspection** `build_weight_manifest.py`, `inspect_checkpoint.py` | `checkpoint-tensors.csv`, `weight-manifest.csv` | read headers, check against the index, rename | each reads the file that the one before it wrote | headers and index that disagree, Hugging Face's names, a table cut off by a kill |
| **Packed layout tools** `build_packed_expert_layout.py`, `repack_packed_layout.py` | one file per layer, `layout.json` | build, repack, overwrite | read the manifest and the checkpoint or another layout | a stop between the files, another filter for the same directory, offsets in another order |
| **Read benchmarks** `bench_expert_reads.py`, `bench_packed_expert_layout.py` | none | merge ranges, read, pack | read the csv or the manifest, and the shards | merging with gaps, short reads, slots of the first expert's size |
| **Guarded run** `scripts/guarded_docker_run.py` | the docker client, the reason it kills for | launch, watch memory and time, kill, wait, recover the driver | docker, kernel modules, `nvidia-persistenced` | kill before the container exists, recovery that stops halfway |
| **Experiment drivers** `run_runtime_matrix.py`, `run_nsys_profile.py`, `run_materializer_ab.py`, `summarize_runtime_matrix.py` | telemetry, output and report files by name | run scenarios, skip what exists, take statistics | launch guards; the probe in the container appends telemetry | files of an earlier run taken for this one's; Ctrl-C that reaches several processes |
| **Telemetry** `telemetry.py` | an append-only file | `emit`, timers | everywhere | the file outlives the run |
| **Trace replay** `replay_packed_expert_trace.py` | a simulated cache | `check` | reads a route trace and a layout | its policy should be the runtime's |
| **Probes, other summaries, command line, kernels** | none or reports | | clients of the server | |

The behaviours that are hard to test, each with its line, are listed under
`hazards` in `PROJECT.json`.

## Modules

### SessionCache: the engine's cache (`engine.py`)

A cache position is represented by the token context it encodes, and so is a
logits tensor. A forward pass over `ids` at `start` is right only if the first
`start` positions encode one common context (`Sound`); otherwise it writes and
returns `Junk`, and the argmax of junk may be any token. So the model does not
assume that a cache is right: it computes whether it is. `Greedy(_)`, the argmax
for a context, is a parameter; the proofs hold for every such function.

| state | code |
| --- | --- |
| `sessions[s]` | `sessions[session_id]`; an id that is not in the dict is `Fresh` |
| `active` | `active_session_id` |
| `kv` | the cache inside `self.model` |
| `phase`, `call`, `out`, `logits`, `detached` | the call that holds `_lock`: where it stands, its arguments and locals; `detached`: its session object is no longer in the dict |
| `postfills` | scheduled `prepare_next_logits` calls |

`Begin` picks the session (`_select_session`, `_reused_prefix_len`), `Prefill`
is the three-way choice between suffix, stored logits and re-fed last token,
`DecodeStep` one iteration of the loop, `Commit` the inline postfill and the
update of the session, `Answer` the result's way to the server. `PrepareSkip`,
`PrepareBegin` and `PrepareFeed` are the deferred postfill, `Reset` is
`reset_session`, and `Fail` raises at any point, before a forward pass or in the
middle of it (`Writing` are the positions that then hold junk). The steps of a
call are separate because resets (without the worker) come between them. A
negative `max_tokens` and a prompt that is too long are refused before anything
changes and are not actions. `call.clean` is a history variable: whether the
cache was right for the prefix the call reuses, when the call began.

`OnWorker` says that calls go through `DedicatedEngineWorker`; without it
`reset_session`, which takes no lock, may interrupt a call. `PatientClient`
says that clients wait until health shows no pending postfill, as
`scripts/probe_server_http.py` does.

### StatelessDecoder: what the engine promises

The engine without any cache: a call extends its prompt one greedy token at a
time. `SessionCache` maps the detailed state to it (`Sequential`) and states
`RefinesStateless`: a run of the engine is a run of the stateless decoder.

### EngineServer: server and worker (`server.py`, `worker.py`)

| state | code |
| --- | --- |
| `config` | what the generations of a behaviour may leave and how they may end (`prefixes`, `ends`), and whether engine calls raise (`fails`) |
| `asked`, `status` | requests and what their clients have got |
| `pending` | `app.state.pending_requests` |
| `tasks` | `background_tasks`, one per request at most |
| `queue`, `running`, `done` | the executor's queue, the call on the worker thread, and calls whose futures are done but whose handlers have not been resumed |
| `refreshing` | the handler inside `_refresh_health_snapshot`, with what it has read |
| `engine` | what `health()` can see: table, prefixes, stored logits, pending postfills, `active_session_id` |
| `snapshot` | `_health_snapshot` |
| `life` | serving, stopping, closing, closed |

Event loop actions (`Admit`, `AskReset`, `Deliver`, `Scan`, `Refreshed`,
`RefreshRaises`, `Wake`, `Shutdown`, `SubmitClose`) exclude one another: while a
handler scans the table no other callback runs, but the worker (`Start`,
`Refuse`, `Finish`, `Discard`) does. `Discard` drops a call whose task, and so
whose future, has been cancelled: `Shutdown` cancels the postfill tasks, and what
they have in the executor's queue is passed over. `Scan` reads one session at a time because the list
comprehension of `health()` runs Python bytecode between two entries; a dict that
has changed size makes it raise, and the exception replaces the result of the
call. The event loop's reads before the scan (`list(self.sessions)`,
`active_session_id`, the start of the iterator) are one step.
How a generation ends is part of what it asks for: the prompt decides it. A
prefix stands for `token_ids`; two requests may leave the same one.

### ExpertLoader: cache, arena, materializer threads and stream (`lazy_official_runtime.py`)

A module is represented by the expert whose weights it holds, a staging buffer
by the expert whose block it holds, so the model computes which weights a kernel
meets.

| state | code |
| --- | --- |
| `attached` | `LazyRoutedExpert._expert` |
| `entries`, `newer` | `ExpertCacheManager._entries`, and the order of `_cache_last_used`: for each entry the entries used later |
| `pool` | `ExpertArena._pool` |
| `victims` | the experts whose `_drop_cached` is under way |
| `content` | the parameters of each module on the device |
| `staging` | each thread's staging buffer (`_thread_local.packed_native_tensor`) |
| `stream` | copies and kernels submitted to the CUDA stream and not yet executed |
| `thread` | the call of `materialize` that the engine thread or a worker is in |
| `jobs`, `settled` | the executor's queue, and which futures of the layer have results or exceptions |
| `layer` | where `LazyMoE.forward` stands, and the experts it has yet to use |

`materialize` is taken apart where another thread can come between: `Hit` or
`Miss` (the check of `_expert`), `Touch` (which reads `_expert` a second time),
`Acquire` (the arena, under its own lock) between the two `Record` steps
(`record_miss` and `record_arena_acquire`, under the manager's), `Read`, `Copy`,
`Attach` and `Insert`.

An eviction takes three steps. `Insert` inserts the expert and picks the victims,
which are no entries from then on. `Release` gives their modules to the arena, and
`Detach` clears their `_expert` (`_drop_cached`, lines 927 and 928). The manager's
lock is kept until `Detach`, so that others who touch, record or insert wait
(`Locked`), but the arena has a lock of its own and `_expert` is read without any:
between `Release` and `Detach` another thread may find a victim attached and hit
it, and another one may take its module. With a cache, whoever takes the module
waits in `record_arena_acquire` and fills it after `Detach`. Without a cache,
`LazyRoutedExpert.forward` drops the expert that it has used with no lock (`Evict`,
`Release`, then `DropUsed` or `DropRaises`), and a call that an abandoned prefetch
has left behind can fill a module that is still attached. `SoleOwner` says exactly
this.

`StartLayer` submits the prefetch, `TakeJob`, `JobDone` and `JobRaises` are the
executor, `Prefetched` and `PrefetchRaises` the wait for the futures, in order. An exception leaves the
forward pass (`Abandon`) and its jobs go on; `awaited` tells whether anybody
waits for them. `Compute` submits the kernels and, without a cache, begins to drop
the expert; `layer` keeps whether the use has returned or raised. `StartLayer` and
`NextExpert` wait for the stream: `counts.tolist()` and `torch.where` copy a result to the host.

A configuration holds the environment variables: limits, quota, arena slots,
whether there is an executor, and how copies are made. `queued`: from a pinned
buffer that is used again, with `cudaMemcpyAsync` or `non_blocking`. `blocking`:
the call returns when the copy is made. `captured`: from pageable memory, which
the driver stages itself, or from a pinned buffer of its own, which PyTorch does
not reuse before its copy is made.

`Fresh` picks one unused module instead of branching over all of them: new
modules differ in nothing. Six modules are enough for three experts, three
threads and what the stream still refers to, so the factory never runs out.

### ReplayCache: which experts are cached (`scripts/replay_packed_expert_trace.py`)

The lists of `ExpertCache.check`. `ExpertLoader` maps `entries` and `newer` to
those lists (`Lru`) and states `RefinesReplay`: every step of the runtime, whichever
threads it belongs to, leaves the lists alone or is a `check`, and every use of
an entry is a hit. The two agree where the quotas of all layers fit into the
global limit (`QuotasFit`); beyond it the runtime also applies the global limit,
the replay does not.

### PackedLayout: packed files, their tools and their reader

`build_packed_expert_layout.py`, `repack_packed_layout.py`, `PackedExpertStore`
and the read loop of `native_packed_loader.cpp`. A file is a sequence of cells,
and the cell of a tensor is `<<expert, component, i>>`, so that wherever a read
goes the model knows what it brings.

| state | code |
| --- | --- |
| `files[d][l]` | the file of layer `l` in directory `d`, as it is on the disk |
| `layouts[d]` | `layout.json` of `d`: offset, length and tensors of each expert |
| `job`, `out`, `entries` | the tool that runs: its command, the layers, experts and tensors still to be written; what it has written to the open file; the entries so far |
| `reader` | `PackedExpertStore`: the layout it read when it opened, and the call it is in |

`Begin` refuses an existing layout without `--overwrite`. `OpenLayer` truncates;
`NextExpert` and `WriteTensor` are the build's loops, `WriteBlock` the repack's,
`CloseLayer` the end of the `with`, `Publish` the replacement of `layout.json`.
Buffered data reaches the disk at any time (`Flushed`), and `Die` ends the tool
anywhere, with whatever part of the buffer was written. `Selected` is the filter with
the route trace's `most_common`, `Before` the order of either tool. The reader's
`ReadSome` brings some of what is there (the native loop goes on after a short
read), `ReadNothing` is the end of the file, `CheckRead` the comparison of lengths and
the tensors cut out of the block, `FallBack` an expert without an entry.

### Checkpoint: from the shards to the parameters

`inspect_checkpoint.py`, `build_weight_manifest.py`, `load_resident_weights`
and the two read benchmarks. A name is the sequence of its parts; a parameter is
represented by the tensors it was filled from.

| state | code |
| --- | --- |
| `given` | which of the configured checkpoints (index, headers, sizes) is there |
| `tool` | the program that runs and the locals of its loop |
| `csv`, `manifest` | `checkpoint-tensors.csv`, `weight-manifest.csv` |
| `model` | what each parameter has been filled from |

`ReadHeader` and `Accept` are the checks of inspection; `ConvertedName`, `Role` and
`Transform` the renaming; `SkipParam`, `CopyParam`, `LoadRaises` the loop over
`named_parameters`; `Coalesce`, `ReadChunk` and `PackExperts` the benchmarks. A
checkpoint whose `stops` is set may have each table cut off by a kill.

### MCStore: the two together

`MCStore` composes the two modules: each step is one of the checkpoint's tools or
one of the packed tools and their reader, and a build needs the manifest that
the former have made. `ManifestHasExperts` is what joins them: the offsets that
`PackedLayout` takes from its constant `SourceOf` are those that inspection and
conversion write. Where nothing is packed (`NoPacking`), twelve checkpoints are
explored; where files are packed, the checkpoint is `Bare` (the experts alone),
whole or cut to ten bytes, and no program is killed.

### GuardedRun: a container under its guard (`guarded_docker_run.py`)

| state | code |
| --- | --- |
| `launches[k]` | the docker client and container of the k-th launch: starting, running, ended, with its return code |
| `guard` | where the script stands (`poll`, `kill`, `wait`, `recover`), and `reason`, `step`, `rc` |
| `driver` | loaded NVIDIA modules and `nvidia-persistenced` |
| `memory` | launches that take much memory, and what a killed one leaves with the driver |
| `faults` | guards that died, commands of the recovery that failed |

`Create`, `Grow`, `End`, `OutOfMemory` are docker and the kernel; the rest is the
script: `PollEnded`, `PollLow`, `PollTimeout`, `Interrupt` are the branches of its
loop, `Kill` is `docker rm -f` by name (which finds nothing before `Create`),
`Wait` is `proc.wait` without a limit, and `RecoverStep`, `RecoverFails` go through
the five commands of `recover_nvidia_driver`.

### Experiments: campaigns of launches

`Experiments` extends `GuardedRun` with `run_runtime_matrix.py`,
`run_nsys_profile.py`, `run_materializer_ab.py`, the rows that
`summarize_runtime_matrix.py` takes, and the probe inside the container.
`campaign` is the program that runs, `rest` the ones still to come; `logs`,
`outputs` and `reports` are the files of each name, each event marked with the
launch that wrote it, so that a row made of two runs shows. `CampaignInterrupt` is Ctrl-C,
which the guard and the docker client get too; a guard that takes long to end
dies (`GuardDies`).

## Runs

Bounds are constants of the configuration.

- Session runs: two tokens; prompts of at most three tokens, chosen so that they
  extend, repeat, cut short and contradict one another and the answers to one
  another; at most two generated tokens; two sessions, which is enough to take the
  slot from one another and to give it back. `Greedy` is a parity of the whole
  context, so that a lost or repeated token changes what follows. `MaxPostfills`
  limits the postfill tasks that wait when a call begins (two may then be waiting
  at its end).
- `ServerSound`: three requests, each sent at most once, over one named session and
  a queue of two: a call on the worker, one being delivered and one in the queue,
  and a third request that meets a full queue. Four configurations: failing calls
  of one prefix, two prefixes (so that a postfill may be late for a session that has
  moved on), stop tokens, and refusals with empty generations.
- `LoaderSound`: three experts in two layers, two workers. `failures` bounds the loads
  and computations that raise in one behaviour, `routed` the experts the router
  selects from; everything else is finite because each thread is in at most one call.
  One failure suffices to abandon a prefetch of two experts; three experts and a
  cache of one or two entries evict, refill and prefetch more than fits.
- `StoreSound`: three experts in two layers with tensors of two bytes and one, in an
  order of their own with a gap: two experts for an order within a file, two layers
  for a stop between files. Fourteen checkpoints, among them moved, lost,
  unlisted, doubled and short ones; eight sets of commands, begun any number of
  times. Gaps of zero and one byte join some neighbours and keep others apart. The numbers
  are naturals: the code's are Python's, or 64 bits for files of some gigabytes.
- `ExperimentsSound`: two scenarios, campaigns begun twice, so that the second meets the
  files of the first; two to four launches and at most two faults.

| run | question | result |
| --- | --- | --- |
| `SessionSingleInline` | one session, inline postfill, failing calls: does the cache ever change an answer? | no: `AnswerExact`, and the engine implements `StatelessDecoder` (`RefinesStateless`) |
| `SessionTwoReset` | two sessions, policy reset, deferred postfill, resets in mid call: is the recorded owner the real one? | yes: `ActiveSessionHeld`, `StoredLogitsExact`, `PendingIsScheduled` |
| `SessionAnyUse` | all policies, stop tokens, failures: what holds without any discipline? | `CleanCallExact`: calls that reuse nothing, or start on a right cache, are exact |
| `SessionPatientDeferred` | is deferred postfill transparent for a patient client? | yes: `RefinesStateless` |
| `ServerSound` | slots, lost calls, shutdown, answers; is every pending postfill scheduled, does it go away, does the snapshot catch up? | `SlotAccounting`, `CallsMatchRequests`, `CloseIsLast`, `EveryRequestAnswered` however calls fail; `PostfillScheduled`, `SnapshotSettles`, `PendingClears` while they do not |
| `LoaderSound` | nine configurations: global and layer LRU, limits that interfere, no cache, prefetch with room and without, loads that fail. Right weights, one owner per module, but for one that is being dropped, limits, bookkeeping, eviction order, progress? | all hold; the evictions are those of the replay (`RefinesReplay`) |
| `StoreSound` | checkpoints that disagree with themselves, tools that stop anywhere, overwriting under a running server: is what is accepted, loaded, packed, planned and read what the checkpoint has? | yes: `AcceptedIsIndex`, `LoadedRight`, `ManifestHasExperts`, `LayoutsRight`, `PublishedIsKept`, `ReadsRight`, `ReadEnds`, `PlanIsRight`, `ReadsItsRanges` |
| `ExperimentsSound` | low memory, limits, Ctrl-C, dying guards, failing recovery: do kills end containers, do runs end, whose are the reported numbers? | `RecoveredKillEndsContainer`, `RecoveryWorks`, `RunEnds`; `ZeroMeansComplete`, `RowsOfOneRun`, `ReportsAreOwn` |
| `Found...` | see [findings](#findings) | violated |

Some of the properties hold under a condition that is part of their statement,
because without it the code does not promise them:

- `LayoutsHold` (in `LayoutsRight`) and `PublishedIsKept`: no command has
  `--overwrite`, which empties files that a layout describes. With it, `LayoutsWhole`,
  `HotFirst` and `ReadsRight` still hold if no directory is made by two different
  commands (`OneWriter`): files are rewritten with the same bytes, and a block that
  is not there yet is too short.
- `NothingLeftEmpty` (in `LoadedRight`): no tool was killed while it wrote a table;
  that the tables are written in place, and cut off by a kill, is in the model.
- `RecoveredKillEndsContainer`, `CleanStart`, `RunEnds`: memory is recovered after
  launches that retain it (`Recovers`) and nothing has failed. `FoundUnguardedRun` is
  what happens otherwise. `RecoveryHeals` has no condition.
- `RowsOfOneRun`: every campaign skips what exists and no guard dies. Without
  `--skip-existing` the matrix appends to the telemetry that is there, and the summary
  takes its first two events. After a guard that was killed, the next campaign takes the
  telemetry as it is.
- `PostfillScheduled`, `SnapshotSettles`, `PendingClears`: no engine call fails. A
  call that raises after it committed loses its postfill, and one that raises at all
  skips the refresh of the snapshot, which stays old until the next call.
- `SupervisedComputeIsRight` and `CacheKnowsItsModules`: no prefetch fails
  (`Supervised`). After a failure, workers go on loading for a forward pass that is
  gone; with three or more experts in a layer and a cache smaller than that, one of
  them can evict and refill the module that the next forward pass has just taken and
  has yet to submit kernels for. The other properties are checked with failures too.

Deadlock is checked in the session runs (the engine always accepts another
call), in the loader's runs (another layer may always start) and in `StoreSound` (a
tool may always be started again). It is not in `ServerSound` and
`ExperimentsSound`, where a finite set of requests or campaigns ends. Symmetry
over sessions or requests is used in runs without temporal properties only.

**Fairness.** `EngineServer!Fairness`: the worker thread, the event loop and
each timer keep going while they have something to do. A thread pool of one and
an asyncio loop do that; engine calls are finite loops over `max_tokens`, and no
lock is held across an await. Clients are under no obligation, nor is shutdown.
`SessionCache` has safety properties only. `ExpertLoader!Fairness`: the device
executes its stream, the engine thread and each worker go on with their calls;
reads and copies end. Whether the engine starts another layer is left open.
`PackedLayout!FairSpec`: a read that has begun goes on; the tools are under no
obligation. `Experiments!FairSpec`: docker creates containers and the guard's loop
goes on; a container need never end by itself, which is what the guard is for.

Each property of a passing run is paired in `PROJECT.json` with a mutant: a
plausible bug, written as an operator beside the definition it replaces
(comments starting with `Mutant`), under which the same run finds it violated.

## Proofs

`SessionCache_proofs.tla` holds, for every value of the constants that satisfies
the named assumptions of `SessionCache` (any vocabulary, greedy function, number of
sessions, prompts, mode and bounds):

| theorem | assumptions | argument |
| --- | --- | --- |
| `TypeCorrect` | none | `TypeInv` = `TypeOK` and `Bounds`: the positions that a call writes are within the cache. Needed because `kv'` must stay a function on `Slots` and a fed token must exist |
| `CleanCallsAreExact` | none | `CleanInv`: while a clean call runs, the positions below the one it writes next hold its prompt and answer, and `logits` is the context it should be. The step lemmas `ForwardExact`, `ForwardKeeps` and `ForwardFits` say what a forward pass does to a cache that holds a prefix |
| `FreshCallsAreExact` | none | a call that reuses nothing is clean: the empty prefix is always held |
| `SoleSessionExact`, `SoleSessionLogits` | `Undisturbed`: one session, no stop token, no policy `none`, and a postfill that is inline, or deferred with patient clients; failures, and resets in mid call | `SoleInv`: a valid session is held by the cache (`SessionHeld`), but for its last token while its postfill is pending (`PendingHeld`), which patient clients wait for; during a call the positions it will not rewrite hold what the next call may reuse (`CallAhead`). With it every call is clean. A task that is skipped finds nothing pending (`SoleSkip`), and a postfill that fails tears only the position it has yet to write (`SoleFail`) |
| `CleanCallsRefine` | every call that starts is clean | the refinement of `StatelessDecoder`, in any configuration: `StepRefines` maps `Begin`, `DecodeStep` and the end of a call to its three actions and every other step to a stutter; `DecodeStepExact` is what makes the appended token the greedy one |
| `SoleSessionRefines` | `Undisturbed` | every call is clean there (`SoleInv`) |
| `NothingStaysPending` | no call fails | `PendingInv` says which of three places the postfill of a pending session is in: the tasks that wait, the answer under way, the task that runs on the object that is still in the table |
| `ResetLogitsExact`, `OwnerIsHeld` | `ResetOnly`: policy `reset`, no call fails; any sessions, postfill mode and stop tokens, resets in mid call | `ResetInv`: between calls the owner of the slot is held up to its last token; a call in progress is one token behind its answer; a session that is dropped under its call stays dropped, and under its postfill it loses the slot as well |

`ExpertLoader_proofs.tla` holds, for any experts, layers, modules, threads and
configurations (limits, quota, arena, prefetch, copies, failures):

| theorem | assumptions | argument |
| --- | --- | --- |
| `TypesAreCorrect` | none | `TypeInv` adds `Loading`: a thread in a call has an expert, one that fills a module has a module, one that is about to copy has read |
| `ModulesHaveOneOwner` | none | `OwnerInv`: `SoleOwner` is inductive with the types and `OneDrop` (`DropInv`): at most one thread drops, with a cache the one that holds the manager's lock, without one the engine thread, and it is its expert that is dropped. `OwnersKept` for steps that take no module, `OwnersRelease` and `OwnersDetach` for the two halves of a drop, and `Acquire`, `Record`, `Attach` on their own: it is at `Record` that the lock keeps a module from being filled while its former expert is attached |
| `EngineThreadComputesRight` | no materializer threads | `InlineInv`: the stream is a copy, a kernel, or a copy with the kernel that uses it (`InlineStream`); attached modules hold their experts once the copy under way is made (`AttachedHold`); nothing is in the stream when the buffer is read into (`InlineThread`), which is where the waits of `tolist` and `torch.where` come in |
| `LimitsAreKept` | none | `LimitInv`: `newer` orders the entries by their last use (`Orders`), and the arena is finite. `FewAreRecent` counts: of ordered experts those with fewer than n more recent ones are at most n, because their ranks differ; `_evict_locked` keeps such a set for each layer, and then one of all |
| `CacheAndModulesAgree` | `Supervised`: no failure where there is a prefetch | `Assigned`: what the forward pass waits for and what the queue and the workers have to do are the same experts, each once, so that no two calls load the same one (`DistinctCalls`). `Known`: what has a module is an entry, about to be inserted by the call that attached it, or a victim that has yet to be detached; an expert that is being loaded has none (`Loads`); without a cache it is the expert under way |
| `SupervisedComputesRight` | `Supervised`, and no prefetch into a buffer that is still copied from | `OrderInv`: either only the engine thread loads (`Inline`, above), or the workers do and nothing is computed (`Parallel`). In `Parallel` a module need not hold its expert yet: the last copy to it in the stream is the expert's (`WillHold`), and a buffer holds what it was submitted for as long as its copy is in the stream; a module that a thread fills is attached to nobody (`FillsUnattached`). The wait for the stream before the first expert of a layer turns `WillHold` into `Holds` |
| `LoaderRefinesReplay` | none (the property is about quotas that fit, `QuotasFit`) | The replay's lists are read off the entries: an expert's place in its list is the number of those used later (`ByUse`), which is one place for each and every place for one, since `newer` orders the entries (`LimitInv`, `UseRanks`). What the runtime does to sets is then what the replay does to lists: a touch takes one out and appends it (`ByUseUsed`), an insertion appends (`ByUseAdded`), and the eviction of the least recent cuts off the front (`ByUseTrimmed`); `KeptAreLatest` is where the quotas come in, and `UseIsHit`, `InsertIsMiss` conclude |

`SoleOwner`, the limits and the types need no assumption on failures; `EngineThreadComputesRight` is
what the code loses with materializer threads, as `FoundStagingReuse` shows.

`EngineServer_proofs.tla` holds, for any finite set of requests, any sessions,
prefixes, configurations and queue limit:

| theorem | argument |
| --- | --- |
| `ServerTypes`, `SlotsAreCounted`, `EachCallOnce` | `Books`: a request that waits has exactly one call, queued, running or done (`AskedInv`), a task that waits likewise (`TasksInv`), `engine.close` is called once (`CloseInv`), and the requests that hold a slot are as many as `pending` says. The counting lemmas (`LastCounted`, `FirstCounted`, `Submitting` to `Refreshing`) say what each move of a call between the three places does to the numbers of calls; `BooksKept` concludes from them, action by action |
| `NothingAfterClose` | `CloseOrder`: once the server stops, what is in the queue before `engine.close` are calls whose tasks are cancelled |
| `SnapshotCatchesUp` | `SnapshotInv`: the snapshot shows the engine, or a scan under way has read what the engine still is (`ScanIsCurrent`), or a call that is running or done will be followed by a scan. With `SessionsInv`, since a scan of the dict sees only pending sessions that are in it; after a shutdown the call that does is `engine.close` |
| `PostfillIsScheduled` | one session (`SoleSession`). `PostfillInv`: of a session that waits, the request that committed its prefix (`Committer`) has its result, its timer, or its call on the way to the worker (`OnItsWay`); `StaysOnItsWay` goes through the steps. One session is what keeps `health()` from raising between a commit and its handler: the dict has it before and after |

They assume that `None` is no session, request or call; the number of slots is
the cardinality of a set of requests, which is why that set is finite.

`Checkpoint_proofs.tla` proves, for any checkpoints, names, shards, parameters and gaps,
whatever is inspected, cut off, loaded and read in which order:

| theorem | argument |
| --- | --- |
| `AcceptedIsAlwaysIndex` | `ListInv`: while headers are read, the rows listed so far are those of the shards read so far, each once; `CountedRows` turns the comparison of two counts, which is what the code does, into the equality of two sets |
| `CheckpointTypes` | `CheckpointInv`, which is all of this table's invariants together and is inductive, with `KindInv` for the loops over shards |
| `LoadsRight` | `TablesInv`: the rows of each table are those of the accepted index, no two of one tensor, and all of them unless a program was killed (`InOrderSorts`: `InOrder` takes each row once, since in a finite order every rank is taken, `RankOnto`). `LoadInv`: parameters before the loop's have what is theirs, the others nothing, so that the row that `rows_by_target` keeps is that of the tensor renamed to it, whichever is last |
| `PlansRight` | `MergeInv`, on the loop of `coalesce_ranges`: what the first k ranges are merged to is in order, separated by more than the gap, within and around them, and ends with the largest end so far. Two ranges of rows share no bytes (`PlacesAssumption`), from which the agreement of the three programs follows for a gap of 0: a merge without gaps has one range for each file and one for each break |
| `ReadsRanges` | `PlanInv`: what has been read is the bytes of the plan up to the place where the next read begins (`ReadTo`), whatever the lengths of the reads. `PackedRangesHold`: blocks of one size one after another are found again at multiples of that size (`FirstBlock`, `SecondBlock`) |

The model's folds (`Merged`, `Concat`) are recursive functions on `0..n`. `UpToAll` is
induction on such an interval: what holds of 0, and of each number after one that it
holds of, holds of all, stated for a set and not for an operator, and proved from the
least element that the set would lack (`WFMin`). `RunExists` concludes that there is a
function that takes the steps, so that the one that `CHOOSE` picks for the definition does
(`MergingExists`, `ConcatRuns`).

Assumed of the constants: a header's places have bytes and do not overlap, as
safetensors demands (`PlacesAssumption`); a routed expert's tensor has the official
model's form of name (`ExpertNamesAssumption`); and `own`, which `LoadedRight`
compares with, is what the names say (`OwnAssumption`): TLC evaluates it against the
tensors that `MCStore` lists by hand for both kinds of names. A checkpoint whose index
has lost a name counts as one that is not `whole`.

`Store_proofs.tla` is about the composition `MCStore!StoreSpec`:

| theorem | argument |
| --- | --- |
| `StoreImplementsPacking`, `StoreImplementsCheckpoint` | a step of one side leaves the variables of the other alone, so that a behaviour of both is one of each |
| `StoreTypesTogether`, `StoreStaysRight`, `StoreKeepsPublished` | what is proved of each alone |
| `ManifestServesPacking` | the manifest has the rows of the whole index (`TablesInv`), where no program is killed; the experts' names stay as they are through `ConvertedName` (`ExpertTargets`), and their places are those of the headers. So `ShardAssumption` of `PackedLayout`, on the constant `SourceOf`, is what the checkpoint's tools deliver, given that the headers agree with `SourceOf` (`ExpertPlacesAssumption`) |

`PackedLayout_proofs.tla` proves, for any checkpoint, experts, layers, tensors,
directories and commands, begun any number of times and stopped anywhere:

| theorem | argument |
| --- | --- |
| `StoreTypes` | `TypeInv` adds to the types that what has an entry has a file (`FileTypes`), where the experts of a tool's input are while its loops run (`JobInv`), and that a block read in pieces stays within its length (`ReaderTypes`) |
| `PublishedKept` | `KeptInv`: without `--overwrite` a tool that runs writes a directory without a layout, and reads one whose layout is still the one that it holds |
| `LayoutsAreRight` | three parts. `HoldInv` (without `--overwrite`): the entries of closed layers describe their files, those of the open layer what has been written to it, the current one for the tensors written so far; `HoldsMore`, `HoldsOn` and `HoldsCopy` say what appending a tensor, other data or a copied block does to that. `WholeInv` (one command per directory): a layout that is made again has the experts it had, so that what was repacked from it stays whole. `HotInv`: what is still to be written goes behind what has been, and is used no more |
| `StoreReadsRight` | `PlacedInv` (one command per directory). A command and its experts fix the place of every byte: a block begins where those before it in its layer end (`Start`, the number of bytes in the set of their blocks), a tensor where the smaller ones end (`Inner`). Every layout is that plan (`LayoutsPlanned`), every file, finished or cut short, agrees with it as far as it goes (`FilesPlaced`), and so does the file being written, which ends where the next tensor goes (`Partly`). A layout that is made again is therefore the same one, a file emptied under a reader gets its bytes back where they were, and a buffer filled by several `pread` calls has the block's bytes whichever version each came from (`Filled`, `FilledMore`) |

Assumed of the constants: the manifest points at the tensors in the shards
(`ShardAssumption`, which `AcceptedIsIndex` and `ManifestHasExperts` are about), there is
at least one tensor per expert, none is empty, and `None` is neither a layout nor a file. That a layer's experts
and an expert's bytes are finitely many is not assumed: a checkpoint has each of them at an offset
of its own (`Finite`).

`Experiments_proofs.tla` proves, for any campaigns, names, number of launches and
faults:

| theorem | argument |
| --- | --- |
| `ExperimentTypes` | `Inv`, which is inductive: `GuardInv` and `CampaignInv` are types; `RecoverInv` says that a client that has yet to make its container is the guard's own, so that nothing starts while the driver is unloaded; `CalmInv` says, until something fails, that only the guard's container (or the last A/B launch) runs, that it has ended when the guard waits, and that what is retained is of a launch whose recovery is still to come |
| `KilledContainersEnd` | a guard can see low memory before its container exists only where something else runs or is retained, and `CalmInv` excludes both (`PollLowInv`); a kill by name then meets the guard's container (`KillInv`) |
| `RecoveryIsSound` | `StartingKept`: only docker or a Ctrl-C takes a client out of "starting"; `StartsClean` and `LastCommand` conclude from `CalmInv` and `RecoverInv` |

`ExperimentsFiles_proofs.tla` goes on from `Inv` to the files, which outlive campaigns
and launches:

| theorem | argument |
| --- | --- |
| `CampaignBooks`, `CampaignTypes` | `BookInv`: the campaign is one of those planned, and what is left to do is the end of its names (`PlanInv`); it has at most one row for each name that is done (`RecordInv`); files are of launches that there were (`FileInv`). `StepKinds` and `PlanKinds` sort all steps by what they do to launches and campaign, so that each later invariant has five cases instead of twenty actions |
| `CampaignReportsAreOwn` | `OwnInv`. A guard that returns 0 had a launch that ended with 0 (`SuccessInv`), one of this campaign (`CurrentInv`), which wrote the report (`ReportInv`); two launches of a name never end well at once (`SingleInv`). The telemetry of the variant at work is of the last launch (`VariantLogInv`), because its file is removed before and nothing else of its name runs (`VariantRunInv`) |
| `MatrixIsComplete` | `DoneInv`. A launch that ends well is at the end of its telemetry with both completions (`RunsInv`, `WellEndedInv`: what another launch of the name wrote came before it began, since docker refuses a second container of a name); `MatrixInv` keeps this for each scenario that is done until the matrix ends |
| `RowsAreOfOneRun` | `OneRunInv`. Until a guard dies only the guard's own launch goes on (`Tended`), so that a scenario is begun only where there is no telemetry, and its telemetry is a prefix of one launch's three events, as long as the launch has come |

Assumed of the constants: `None` is neither a number, a name nor a kind of campaign; an A/B run, whose
outer guard is not modelled, is on a machine that retains nothing
(`VariantAssumption`); a profile has one name (`ProfileAssumption`); and files named after
the prefix of an A/B run are no other campaign's (`PrefixAssumption`: the matrix
writes `matrix-...`, the A/B run `<prefix>-<index>-<variant>`).

`CleanCallsAreExact` is where the two halves meet: TLC shows in which
configurations calls are clean, the proof that clean calls are exact needs no
configuration.

Model-checked only: the liveness properties (`LayerEnds`, `EveryRequestAnswered`,
`PendingClears`, `ReadEnds`, `RunEnds`). Liveness under fairness is out of the
prover's reach and stays with TLC. What a file's completions are is the set of their
positions (`Generated`), the first one its least element (`First`): unlike a filtered
sequence, that a file has grown by a line is then a fact of sets, and what is least is
found through the well-foundedness of the naturals (`NatMin`), which needs no induction
schema.

## Findings

The code and what is written about it disagree at these points; each is a run
with a counterexample.

| run | what happens |
| --- | --- |
| `FoundForeignSlot` | `_reused_prefix_len` trusts `cache_valid` and never looks at `active_session_id`: a session that lost the slot is reused, and its answer is computed on the other session's cache |
| `FoundLostPostfill` | the health scan raises because the worker inserts another session: a committed generation is answered 500 and its postfill is lost |
| `FoundStagingReuse` | a materializer thread reads its next expert into the pinned buffer that its previous copy has yet to be made from |
| `FoundUnguardedRun` | the guard sees low memory before its container exists, its `docker rm -f` finds nothing, and the container runs with neither the memory check nor the time limit |

Two more show in `SessionSingleInline` when its constants are changed, with `CanFail
= FALSE` and `Policies = {"reuse"}`: with `StopTokens = {2}` a stop token is part of
the committed prefix and is never fed, so that `AnswerExact` fails for the call
that extends it; with `PostfillMode = "deferred"` it fails for a session that is reused
before its postfill has run.

Two are plain in the code and have no run of their own: policy `none`
overwrites the one cache and leaves the sessions marked valid (`engine.py:517`),
and `max_seq_len` bounds the prompt only, so that decoding writes beyond it
(`engine.py:215`).

The session id `""` has the same effect as `FoundLostPostfill` without any race:
`_schedule_deferred_postfill` tests the id for truth. `EngineServer` has the step
(`EmptyId` is that id); it is plain in the code, and no run has a session of that
id, so that `PostfillScheduled` says nothing about it.

## Plan

Done: `SessionCache` with `StatelessDecoder`; `EngineServer`; `ExpertLoader` with
`ReplayCache`, staging buffers and copies; `PackedLayout`; `Checkpoint`; their
composition; `GuardedRun` with `Experiments`; the theorems listed above.

Left: the bounds checks of the native loader's copy plans with machine integers.

## What is not modelled

Tensor arithmetic and kernels (out of a model checker's reach); tokenization,
chat rendering, response shapes and streaming (no state); NVTX ranges and CUDA
timers; the command line; timing, reports and totals of the tools and benchmarks;
`bench_packed_materialization.py` and `bench_packed_slab_materialization.py`, which
time tensor copies; `inspect_official_model.py`, `make_model_overlay.py` and the
summaries of traces, which read and add up; the shell scripts, which render the
guard's command line or run the recovery by hand; building the native extension; the
other probes, clients of the same two endpoints. Request timeouts and cancellation
on disconnect are planned in `docs/serving-design.md` and not in the code.
