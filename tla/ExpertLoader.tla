----------------------------- MODULE ExpertLoader -----------------------------
(***************************************************************************)
(* Expert weights on demand (spark_runtime/lazy_official_runtime.py and    *)
(* native/native_packed_loader.cpp).                                       *)
(*                                                                         *)
(* The engine thread runs LazyMoE.forward, one layer after another.  Each  *)
(* routed expert of a layer is materialized: a module is taken from the    *)
(* arena or made, the expert's block of the packed file is read into the   *)
(* thread's staging buffer and copied to the module on the CUDA stream,    *)
(* and the cache evicts what exceeds its limits.  With materializer        *)
(* threads, the experts of the layer are prefetched in parallel first.     *)
(*                                                                         *)
(* Host threads and the stream run side by side.  A module is represented  *)
(* by the expert whose weights it holds; so is a staging buffer.           *)
(***************************************************************************)
EXTENDS Naturals, Sequences, FiniteSets

CONSTANTS
    Experts,    \* routed experts: numbers that order each layer's experts
    LayerOf,    \* the layer of each expert
    Modules,    \* expert modules in device memory
    Main,       \* the engine thread
    Workers,    \* threads of the materialize executor
    Configs,    \* configurations, one of which a run of the program has
    None

Threads == Workers \cup {Main}

ASSUME ExpertAssumption == Experts \subseteq Nat /\ IsFiniteSet(Experts)
ASSUME LayerAssumption == LayerOf \in [Experts -> Nat \ {0}]
ASSUME NoneAssumption == None \notin Experts \cup Modules
ASSUME MainAssumption == Main \notin Workers
\* entries: DEEPSEEK_SPARK_EXPERT_CACHE_ENTRIES, 0 disables the cache; quota:
\* the layer quota, 0 under global_lru; slots: DEEPSEEK_SPARK_EXPERT_ARENA_SLOTS;
\* prefetch: there is an executor; copies: from a pinned staging buffer that is
\* reused, queued on the stream or waited for, or captured when they are
\* submitted (pageable memory, or a pinned buffer of their own).  Two bounds for
\* TLC: routed, the experts that the router selects from, and failures, how many
\* loads and computations may raise.
ASSUME ConfigAssumption ==
    Configs \subseteq [entries : Nat, quota : Nat, slots : Nat, prefetch : BOOLEAN,
                       copies : {"queued", "blocking", "captured"},
                       routed : SUBSET Experts, failures : Nat]

VARIABLES
    config,     \* the environment variables
    attached,   \* _expert of each LazyRoutedExpert
    entries,    \* the keys of ExpertCacheManager._entries
    newer,      \* of each entry, the entries used more recently (_cache_last_used)
    pool,       \* ExpertArena._pool
    victims,    \* experts whose _drop_cached is under way
    content,    \* the expert whose weights each module holds
    staging,    \* the expert whose block each thread's staging buffer holds
    stream,     \* operations submitted to the CUDA stream
    thread,     \* the call of materialize each thread runs
    jobs,       \* calls of materialize submitted to the executor
    layer,      \* where LazyMoE.forward stands
    settled,    \* outcome of the futures it has submitted
    failed      \* how many loads and computations have raised

cacheVars == <<attached, entries, newer, pool, victims>>
deviceVars == <<content, stream>>
layerVars == <<jobs, layer, settled>>
vars == <<config, cacheVars, deviceVars, staging, thread, layerVars, failed>>

Idle == [at |-> "idle", expert |-> None, module |-> None, awaited |-> FALSE]

\* A job of the executor: awaited unless the forward pass that submitted it has
\* given up.
Job(e) == [expert |-> e, awaited |-> TRUE]
Looking(job) == [at |-> "look", expert |-> job.expert, module |-> None, awaited |-> job.awaited]

NoLayer == [at |-> "idle", todo |-> {}, waits |-> {}]
Unsettled == [loaded |-> {}, raised |-> {}]

Init ==
    /\ config \in Configs
    /\ attached = [e \in Experts |-> None]
    /\ entries = {} /\ newer = [e \in Experts |-> {}]
    /\ pool = {} /\ victims = {}
    /\ content = [m \in Modules |-> None] /\ stream = <<>>
    /\ staging = [t \in Threads |-> None]
    /\ thread = [t \in Threads |-> Idle]
    /\ jobs = <<>> /\ layer = NoLayer /\ settled = Unsettled
    /\ failed = 0

-----------------------------------------------------------------------------
(* Eviction *)

Enabled == config.entries > 0

\* The experts that have a module.
Resident == {e \in Experts : attached[e] # None}

SameLayer(e, S) == {f \in S : LayerOf[f] = LayerOf[e]}

\* touch, for an entry e of S: its counter becomes the greatest.
Touched(e, S) ==
    [f \in Experts |-> IF f \in S \ {e} THEN newer[f] \cup {e} ELSE {}]

\* Of the entries S, those that _evict_locked keeps: of each layer the quota
\* most recent, and of these the max_entries most recent.
WithinQuota(S, recent) ==
    IF config.quota = 0 THEN S
    ELSE {e \in S : Cardinality(recent[e] \cap SameLayer(e, S)) < config.quota}

\* Mutant of MostRecent: one entry too many is kept.
MostRecentOneMore(S, recent) ==
    LET kept == WithinQuota(S, recent) IN
    {e \in kept : Cardinality(recent[e] \cap kept) <= config.entries}

MostRecent(S, recent) ==
    LET kept == WithinQuota(S, recent) IN
    {e \in kept : Cardinality(recent[e] \cap kept) < config.entries}

\* release, for the modules R: the arena takes what it has slots for.
Released(R) ==
    {p \in SUBSET (pool \cup R) :
        /\ pool \subseteq p
        /\ Cardinality(p) <= config.slots \/ p = pool
        /\ R \subseteq p \/ Cardinality(p) >= config.slots}

\* _drop_cached, for the victims: their modules go to the arena, under its own
\* lock, and are attached until the next step.  (What _evict_locked drops in a
\* loop is at most one expert: there was room before the insertion.)
ReleasedVictims == pool' \in Released({attached[e] : e \in victims} \ {None})

\* Mutant of DetachedVictims: the modules stay attached.
DetachedNothing == victims' = {} /\ UNCHANGED attached

\* self._expert = None.
DetachedVictims ==
    /\ attached' = [e \in Experts |-> IF e \in victims THEN None ELSE attached[e]]
    /\ victims' = {}

\* An eviction holds the manager's lock from its insertion to its end.
Locked == Enabled /\ victims # {}

-----------------------------------------------------------------------------
(* materialize *)

\* Something raises.
Raise == failed < config.failures /\ failed' = failed + 1

Step(t, at) == thread' = [thread EXCEPT ![t].at = at]

\* The expert is attached.
Hit(t) ==
    /\ thread[t].at = "look" /\ attached[thread[t].expert] # None
    /\ Step(t, "hit")
    /\ UNCHANGED <<config, cacheVars, deviceVars, staging, layerVars, failed>>

\* Mutant of Touch: a hit does not count as a use (first in, first out).
TouchIgnored(t) ==
    /\ thread[t].at = "hit" /\ ~Locked
    /\ thread' = [thread EXCEPT ![t].at = "ready", ![t].module = attached[thread[t].expert]]
    /\ UNCHANGED <<config, cacheVars, deviceVars, staging, layerVars, failed>>

\* touch, and return self._expert, which may have been dropped meanwhile.
Touch(t) ==
    /\ thread[t].at = "hit" /\ ~Locked
    /\ LET e == thread[t].expert IN
       /\ newer' = IF e \in entries THEN Touched(e, entries) ELSE newer
       /\ thread' = [thread EXCEPT ![t].at = "ready", ![t].module = attached[e]]
    /\ UNCHANGED <<config, attached, entries, pool, victims, deviceVars, staging, layerVars, failed>>

\* Modules that some part of the program refers to.
Live ==
    ({attached[e] : e \in Experts} \cup pool \cup {thread[t].module : t \in Threads}
     \cup {stream[i].module : i \in DOMAIN stream}) \ {None}

\* The new module that the factory makes: which one it is makes no difference.
Fresh ==
    LET spare == Modules \ Live IN
    IF spare = {} THEN {} ELSE {CHOOSE m \in spare : TRUE}

\* The expert is not attached.
Miss(t) ==
    /\ thread[t].at = "look" /\ attached[thread[t].expert] = None
    /\ Step(t, "miss")
    /\ UNCHANGED <<config, cacheVars, deviceVars, staging, layerVars, failed>>

\* Mutant of Record: the statistics are counted without the lock.
RecordUnlocked(t) ==
    /\ \/ thread[t].at = "miss" /\ Step(t, "acquire")
       \/ thread[t].at = "taken" /\ Step(t, "read")
    /\ UNCHANGED <<config, cacheVars, deviceVars, staging, layerVars, failed>>

\* record_miss and record_arena_acquire wait for the manager's lock.
Record(t) ==
    /\ ~Locked
    /\ \/ thread[t].at = "miss" /\ Step(t, "acquire")
       \/ thread[t].at = "taken" /\ Step(t, "read")
    /\ UNCHANGED <<config, cacheVars, deviceVars, staging, layerVars, failed>>

\* A module from the arena, or a new one; the manager's lock is not asked for.
Acquire(t) ==
    /\ thread[t].at = "acquire"
    /\ \E m \in IF pool # {} THEN pool ELSE Fresh :
          /\ pool' = pool \ {m}
          /\ thread' = [thread EXCEPT ![t].at = "taken", ![t].module = m]
    /\ UNCHANGED <<config, attached, entries, newer, victims, deviceVars, staging,
                   layerVars, failed>>

\* Mutant of Read: an empty buffer passes for a full one.
ReadNothing(t) ==
    /\ thread[t].at = "read" /\ Step(t, "copy")
    /\ UNCHANGED <<config, cacheVars, deviceVars, staging, layerVars, failed>>

\* The expert's block is read from the packed file into the staging buffer of
\* the thread.
Read(t) ==
    /\ thread[t].at = "read"
    /\ staging' = [staging EXCEPT ![t] = thread[t].expert]
    /\ Step(t, "copy")
    /\ UNCHANGED <<config, cacheVars, deviceVars, layerVars, failed>>

\* The copies from the buffer to the module's parameters are submitted.  Once
\* captured, nobody looks at the buffer again.
Copy(t) ==
    /\ thread[t].at = "copy"
    /\ stream' = Append(stream, [kind |-> "copy", module |-> thread[t].module,
                                 expert |-> staging[t], by |-> t])
    /\ staging' = IF config.copies = "captured" THEN [staging EXCEPT ![t] = None] ELSE staging
    /\ Step(t, "attach")
    /\ UNCHANGED <<config, cacheVars, content, layerVars, failed>>

\* self._expert = expert, after copies that the thread waits for.
Attach(t) ==
    /\ thread[t].at = "attach"
    /\ config.copies = "blocking" => \A i \in DOMAIN stream : stream[i].by # t
    /\ attached' = [attached EXCEPT ![thread[t].expert] = thread[t].module]
    /\ Step(t, "insert")
    /\ UNCHANGED <<config, entries, newer, pool, victims, deviceVars, staging, layerVars, failed>>

\* insert: no effect for a disabled cache, or for an expert that is an entry.
\* What exceeds the limits is no entry from now on, and is dropped.
Insert(t) ==
    /\ thread[t].at = "insert" /\ ~Locked
    /\ LET e == thread[t].expert
           inserted == entries \cup {e}
           recent == Touched(e, inserted)
           kept == MostRecent(inserted, recent)
       IN IF Enabled /\ e \notin entries
          THEN /\ entries' = kept
               /\ newer' = [f \in Experts |-> IF f \in kept THEN recent[f] \cap kept ELSE {}]
               /\ victims' = inserted \ kept
               /\ Step(t, IF inserted = kept THEN "ready" ELSE "release")
          ELSE Step(t, "ready") /\ UNCHANGED <<entries, newer, victims>>
    /\ UNCHANGED <<config, attached, pool, deviceVars, staging, layerVars, failed>>

\* The two steps of a drop.  The second ends an eviction, and unlocks.
Release(t) ==
    /\ thread[t].at = "release" /\ ReleasedVictims
    /\ Step(t, "detach")
    /\ UNCHANGED <<config, attached, entries, newer, victims, deviceVars, staging,
                   layerVars, failed>>

Detach(t) ==
    /\ Enabled /\ thread[t].at = "detach" /\ DetachedVictims
    /\ Step(t, "ready")
    /\ UNCHANGED <<config, entries, newer, pool, deviceVars, staging, layerVars, failed>>

-----------------------------------------------------------------------------
(* Materializer threads *)

\* A worker takes the next job of the executor.
TakeJob(w) ==
    /\ thread[w].at = "idle" /\ jobs # <<>>
    /\ thread' = [thread EXCEPT ![w] = Looking(Head(jobs))]
    /\ jobs' = Tail(jobs)
    /\ UNCHANGED <<config, cacheVars, deviceVars, staging, layer, settled, failed>>

\* The future of a job has a result, or an exception.
Settle(w, outcome) ==
    /\ settled' = IF thread[w].awaited
                  THEN [settled EXCEPT ![outcome] = @ \cup {thread[w].expert}]
                  ELSE settled
    /\ thread' = [thread EXCEPT ![w] = Idle]

JobDone(w) ==
    /\ thread[w].at = "ready"
    /\ Settle(w, "loaded")
    /\ UNCHANGED <<config, cacheVars, deviceVars, staging, jobs, layer, failed>>

\* The read fails or is short; the module is not returned to the arena.
JobRaises(w) ==
    /\ Raise /\ thread[w].at \in {"read", "copy"}
    /\ Settle(w, "raised")
    /\ UNCHANGED <<config, cacheVars, deviceVars, staging, jobs, layer>>

-----------------------------------------------------------------------------
(* LazyMoE.forward *)

\* The elements of A in ascending order (a set of one sequence).
Ascending(A) ==
    {s \in [1..Cardinality(A) -> A] : \A i, j \in 1..Cardinality(A) : i < j => s[i] < s[j]}

\* The router has selected the experts A of one layer.  counts.tolist() waits
\* for the stream.
StartLayer(A) ==
    /\ layer.at = "idle" /\ stream = <<>>
    /\ settled' = Unsettled
    /\ IF config.prefetch /\ Cardinality(A) > 1
       THEN /\ layer' = [at |-> "prefetch", todo |-> A, waits |-> A]
            /\ \E order \in Ascending(A) :
                  jobs' = jobs \o [i \in DOMAIN order |-> Job(order[i])]
       ELSE /\ layer' = [at |-> "experts", todo |-> A, waits |-> {}]
            /\ UNCHANGED jobs
    /\ UNCHANGED <<config, cacheVars, deviceVars, staging, thread, failed>>

\* Mutant of Prefetched: experts that have been evicted again are prefetched again.
PrefetchedAgain ==
    /\ layer.at = "prefetch" /\ layer.waits \subseteq settled.loaded
    /\ IF layer.waits \subseteq Resident
       THEN /\ layer' = [layer EXCEPT !.at = "experts", !.waits = {}]
            /\ UNCHANGED <<jobs, settled>>
       ELSE /\ \E order \in Ascending(layer.waits) :
                  jobs' = jobs \o [i \in DOMAIN order |-> Job(order[i])]
            /\ settled' = Unsettled
            /\ UNCHANGED layer
    /\ UNCHANGED <<config, cacheVars, deviceVars, staging, thread, failed>>

\* All futures have results.
Prefetched ==
    /\ layer.at = "prefetch" /\ layer.waits \subseteq settled.loaded
    /\ layer' = [layer EXCEPT !.at = "experts", !.waits = {}]
    /\ UNCHANGED <<config, cacheVars, deviceVars, staging, thread, jobs, settled, failed>>

\* An exception leaves the forward pass: what it has submitted goes on, with
\* nobody waiting for it.
Abandon ==
    /\ layer' = NoLayer
    /\ jobs' = [i \in DOMAIN jobs |-> [jobs[i] EXCEPT !.awaited = FALSE]]
    /\ settled' = Unsettled
    /\ thread' = [t \in Threads |->
                    IF t = Main THEN Idle ELSE [thread[t] EXCEPT !.awaited = FALSE]]

\* future.result() raises for the first expert, in order, that failed; the
\* futures before it have results.
PrefetchRaises ==
    /\ layer.at = "prefetch"
    /\ \E e \in layer.waits \cap settled.raised :
          \A f \in layer.waits : f < e => f \in settled.loaded
    /\ Abandon
    /\ UNCHANGED <<config, cacheVars, deviceVars, staging, failed>>

\* Mutant of NextExpert: tokens are selected without waiting for the stream.
NextExpertAtOnce ==
    /\ layer.at = "experts"
    /\ \E e \in layer.todo :
          /\ \A f \in layer.todo : e <= f
          /\ thread' = [thread EXCEPT ![Main] = Looking(Job(e))]
    /\ layer' = [layer EXCEPT !.at = "expert"]
    /\ UNCHANGED <<config, cacheVars, deviceVars, staging, jobs, settled, failed>>

\* The next expert of the layer.  torch.where, which selects its tokens, waits
\* for the stream.
NextExpert ==
    /\ layer.at = "experts" /\ stream = <<>>
    /\ \E e \in layer.todo :
          /\ \A f \in layer.todo : e <= f
          /\ thread' = [thread EXCEPT ![Main] = Looking(Job(e))]
    /\ layer' = [layer EXCEPT !.at = "expert"]
    /\ UNCHANGED <<config, cacheVars, deviceVars, staging, jobs, settled, failed>>

\* LazyRoutedExpert.forward returns, and the layer goes on.
Used ==
    /\ thread' = [thread EXCEPT ![Main] = Idle]
    /\ layer' = [layer EXCEPT !.at = "experts", !.todo = @ \ {thread[Main].expert}]

\* finally: without a cache the expert is evicted after its use, which nothing
\* locks.  The outcome of the use waits.
Evict(outcome) ==
    /\ victims' = {thread[Main].expert}
    /\ Step(Main, "release")
    /\ layer' = [layer EXCEPT !.at = outcome]

\* expert(x, weights): its kernels are submitted.
Compute ==
    /\ thread[Main].at = "ready" /\ thread[Main].module # None
    /\ stream' = Append(stream, [kind |-> "compute", module |-> thread[Main].module,
                                 expert |-> thread[Main].expert, by |-> Main])
    /\ IF Enabled THEN Used /\ UNCHANGED victims ELSE Evict("expert")
    /\ UNCHANGED <<config, attached, entries, newer, pool, content, staging, jobs, settled, failed>>

\* The expert's computation raises, or there is no module to call.
ComputeRaises ==
    /\ thread[Main].at = "ready"
    /\ Raise \/ (thread[Main].module = None /\ UNCHANGED failed)
    /\ IF Enabled THEN Abandon /\ UNCHANGED victims
       ELSE Evict("raised") /\ UNCHANGED <<jobs, settled>>
    /\ UNCHANGED <<config, attached, entries, newer, pool, deviceVars, staging>>

\* The expert has been evicted.
DropUsed ==
    /\ ~Enabled /\ thread[Main].at = "detach" /\ DetachedVictims
    /\ layer.at = "expert" /\ Used
    /\ UNCHANGED <<config, entries, newer, pool, deviceVars, staging, jobs, settled, failed>>

DropRaises ==
    /\ ~Enabled /\ thread[Main].at = "detach" /\ DetachedVictims
    /\ layer.at = "raised" /\ Abandon
    /\ UNCHANGED <<config, entries, newer, pool, deviceVars, staging, failed>>

\* The engine thread's own load raises, outside of the try statement.
LoadRaises ==
    /\ Raise /\ thread[Main].at \in {"read", "copy"}
    /\ Abandon
    /\ UNCHANGED <<config, cacheVars, deviceVars, staging>>

EndLayer ==
    /\ layer.at = "experts" /\ layer.todo = {}
    /\ layer' = NoLayer /\ settled' = Unsettled
    /\ UNCHANGED <<config, cacheVars, deviceVars, staging, thread, jobs, failed>>

-----------------------------------------------------------------------------
(* The CUDA stream *)

\* The weights that an operation copies: those that the buffer holds when the
\* copy is made, unless they were captured.
Source(op) == IF config.copies = "captured" THEN op.expert ELSE staging[op.by]

Execute ==
    /\ stream # <<>> /\ stream' = Tail(stream)
    /\ LET op == Head(stream) IN
       content' = IF op.kind = "copy" THEN [content EXCEPT ![op.module] = Source(op)]
                  ELSE content
    /\ UNCHANGED <<config, cacheVars, staging, thread, layerVars, failed>>

-----------------------------------------------------------------------------
Materialize(t) ==
    \/ Hit(t) \/ Touch(t) \/ Miss(t) \/ Record(t) \/ Acquire(t)
    \/ Read(t) \/ Copy(t) \/ Attach(t) \/ Insert(t) \/ Release(t) \/ Detach(t)

WorkerStep(w) == TakeJob(w) \/ Materialize(w) \/ JobDone(w) \/ JobRaises(w)

ForwardStep ==
    \/ Prefetched \/ PrefetchRaises \/ NextExpert \/ EndLayer
    \/ Materialize(Main) \/ LoadRaises
    \/ Compute \/ ComputeRaises \/ DropUsed \/ DropRaises

\* The experts that the router may select for a layer.
Batches == {A \in SUBSET config.routed : A # {} /\ \A e, f \in A : LayerOf[e] = LayerOf[f]}

Next ==
    \/ \E A \in Batches : StartLayer(A)
    \/ ForwardStep
    \/ \E w \in Workers : WorkerStep(w)
    \/ Execute

Spec == Init /\ [][Next]_vars

\* The device executes its stream, and each thread goes on; whether the engine
\* starts another layer is up to it.
Fairness ==
    /\ WF_vars(Execute) /\ WF_vars(ForwardStep)
    /\ \A w \in Workers : WF_vars(WorkerStep(w))

FairSpec == Spec /\ Fairness

-----------------------------------------------------------------------------
(* Properties *)

Stages == {"idle", "look", "hit", "miss", "acquire", "taken", "read", "copy", "attach",
           "insert", "release", "detach", "ready"}

\* Type invariant: the values that the loader's variables may have.
TypeOK ==
    /\ config \in Configs
    /\ attached \in [Experts -> Modules \cup {None}]
    /\ entries \subseteq Experts
    /\ newer \in [Experts -> SUBSET Experts]
    /\ pool \subseteq Modules /\ victims \subseteq Experts
    /\ content \in [Modules -> Experts \cup {None}]
    /\ staging \in [Threads -> Experts \cup {None}]
    /\ stream \in Seq([kind : {"copy", "compute"}, module : Modules,
                       expert : Experts, by : Threads])
    /\ thread \in [Threads -> [at : Stages, expert : Experts \cup {None},
                               module : Modules \cup {None}, awaited : BOOLEAN]]
    /\ jobs \in Seq([expert : Experts, awaited : BOOLEAN])
    /\ layer \in [at : {"idle", "prefetch", "experts", "expert", "raised"},
                  todo : SUBSET Experts, waits : SUBSET Experts]
    /\ settled \in [loaded : SUBSET Experts, raised : SUBSET Experts]
    /\ failed \in 0..config.failures

\* No materialization outlives the forward pass that has asked for it.
Supervised == config.prefetch => config.failures = 0

\* When an expert is computed, its module holds its own weights, whatever has
\* been evicted, reused and overwritten since the computation was submitted.
ComputeUsesOwnWeights ==
    stream # <<>> /\ Head(stream).kind = "compute" =>
        content[Head(stream).module] = Head(stream).expert

\* The same where the code relies on nothing but its order of steps: no prefetch
\* that fails, and no worker that reads into a buffer it still copies from.
SupervisedComputeIsRight ==
    Supervised /\ ~(config.prefetch /\ config.copies = "queued") => ComputeUsesOwnWeights

\* A thread that has a module, to fill it, and one that may have begun to.
Taking(t) == thread[t].at \in {"taken", "read", "copy", "attach"}
Filling(t) == thread[t].at \in {"read", "copy", "attach"}

\* The experts that are released and have yet to be detached.
Leaving == IF \E t \in Threads : thread[t].at = "detach" THEN victims ELSE {}

\* A module has one owner: an expert, the arena, or the thread that takes it to
\* fill it; only an expert that is leaving may still be attached to a module that
\* is somebody else's.  No module is released twice, nor handed to two threads.
\* With a cache even an expert that is leaving keeps its weights: whoever takes
\* its module waits for the manager's lock before it fills it.
SoleOwner ==
    /\ \A e, f \in Experts \ Leaving : attached[e] # None /\ attached[e] = attached[f] => e = f
    /\ \A e \in Experts \ Leaving : attached[e] \notin pool
    /\ \A t \in Threads : Taking(t) =>
          /\ thread[t].module \notin pool
          /\ \A e \in Experts : attached[e] = thread[t].module =>
                e \in Leaving /\ (Enabled => ~Filling(t))
          /\ \A u \in Threads \ {t} : Taking(u) => thread[u].module # thread[t].module

\* The cache and the arena keep to their limits.
WithinLimits ==
    /\ Cardinality(entries) <= config.entries
    /\ config.quota > 0 =>
          \A e \in entries : Cardinality(SameLayer(e, entries)) <= config.quota
    /\ Cardinality(pool) <= config.slots

\* Whenever no load is under way, the experts with a module are the entries of
\* the cache; without a cache they are prefetched experts that the layer has yet
\* to use.  Nothing is counted that is not there, and no module is forgotten.
CacheKnowsItsModules ==
    Supervised /\ jobs = <<>> /\ (\A t \in Threads : thread[t].at = "idle") =>
        IF Enabled THEN Resident = entries ELSE Resident \subseteq layer.todo

-----------------------------------------------------------------------------
(* The cache of the trace replay *)

Lists == {0} \cup {LayerOf[e] : e \in Experts}
ListOf(e) == IF config.quota = 0 THEN 0 ELSE LayerOf[e]

\* The experts of S, least recently used first; recent has those used after each.
ByUse(S, recent) ==
    LET n == Cardinality(S)
    IN [i \in 1..n |-> CHOOSE e \in S : Cardinality(recent[e] \cap S) = n - i]

\* The lists of the replay, from the order of the entries.
Listed(k) == {e \in entries : ListOf(e) = k}
Lru == [k \in Lists |-> ByUse(Listed(k), newer)]

Replay == INSTANCE ReplayCache WITH lru <- Lru

\* The layers' quotas fit into the cache together.
QuotasFit ==
    Cardinality({LayerOf[e] : e \in Experts}) * config.quota <= config.entries

\* A thread uses an entry.
Uses(t) ==
    /\ thread[t].at = "hit" /\ thread'[t].at = "ready"
    /\ thread[t].expert \in entries

\* Whatever the threads do to the cache is a check of the replay's cache
\* (scripts/replay_packed_expert_trace.py), and every use of an entry is a hit
\* there: the runtime evicts what the replay evicts, as long as the global limit
\* leaves room for the quotas.
RefinesReplay ==
    /\ Replay!ReplayInit
    /\ [][QuotasFit => Replay!ReplayNext]_Lru
    /\ [][\A t \in Threads : QuotasFit /\ Uses(t) => Replay!Hit(thread[t].expert)]_vars

-----------------------------------------------------------------------------
\* A forward pass that has begun a layer ends it, or raises.
LayerEnds == layer.at # "idle" ~> layer.at = "idle"
=============================================================================
