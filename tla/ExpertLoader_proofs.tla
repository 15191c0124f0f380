------------------------ MODULE ExpertLoader_proofs ------------------------
(***************************************************************************)
(* Proofs about ExpertLoader: its types, who drops experts, the owners of  *)
(* modules, the correctness of computations on the engine thread alone,    *)
(* the limits of the cache and the arena, what the cache knows of the      *)
(* modules, the correctness of computations beside materializer threads,   *)
(* and that the cache is the one that the trace replay simulates.          *)
(***************************************************************************)
EXTENDS ExpertLoader, FiniteSetTheorems, SequenceTheorems, TLAPS

-----------------------------------------------------------------------------
(* Types *)

LEMMA FunctionIsSequence ==
    ASSUME NEW S, NEW n \in Nat, NEW f \in [1..n -> S]
    PROVE  f \in Seq(S)
OBVIOUS

\* A thread that loads has an expert, a thread that takes a module has one, and
\* a thread that is about to copy has read something.
Loading ==
    \A t \in Threads :
        /\ thread[t].at # "idle" => thread[t].expert \in Experts
        /\ Taking(t) => thread[t].module \in Modules
        /\ thread[t].at = "copy" => staging[t] \in Experts

TypeInv == TypeOK /\ Loading

\* What an invariant says is not changed by a stuttering step.
LEMMA TypeStutters == TypeInv /\ UNCHANGED vars => TypeInv'
BY DEF TypeInv, TypeOK, Loading, Taking, vars, cacheVars, deviceVars, layerVars

LEMMA TypeInit == Init => TypeInv
<1> SUFFICES ASSUME Init PROVE TypeInv
    OBVIOUS
<1> USE DEF Init
<1>1. config \in Configs /\ failed \in 0..config.failures
    BY ConfigAssumption
<1>2. thread \in [Threads -> [at : Stages, expert : Experts \cup {None},
                              module : Modules \cup {None}, awaited : BOOLEAN]]
    BY DEF Idle, Stages
<1>3. layer \in [at : {"idle", "prefetch", "experts", "expert", "raised"},
                 todo : SUBSET Experts, waits : SUBSET Experts]
    BY DEF NoLayer
<1>4. settled \in [loaded : SUBSET Experts, raised : SUBSET Experts]
    BY DEF Unsettled
<1>5. Loading
    BY DEF Loading, Taking, Idle
<1>6. QED
    BY <1>1, <1>2, <1>3, <1>4, <1>5 DEF TypeInv, TypeOK

\* The two steps of a drop keep the types of what they change.
LEMMA ReleasedTypes ==
    ASSUME TypeOK, ReleasedVictims
    PROVE  /\ pool' \subseteq Modules
           /\ pool' \subseteq pool \cup ({attached[e] : e \in victims} \ {None})
BY DEF TypeOK, ReleasedVictims, Released

LEMMA DetachedTypes ==
    ASSUME TypeOK, DetachedVictims
    PROVE  attached' \in [Experts -> Modules \cup {None}] /\ victims' \subseteq Experts
BY DEF TypeOK, DetachedVictims

Call == [at : Stages, expert : Experts \cup {None}, module : Modules \cup {None},
         awaited : BOOLEAN]

\* A thread that goes to another stage of its call, and may get a module.
LEMMA StageChanges ==
    ASSUME thread \in [Threads -> Call], NEW t \in Threads, NEW at \in Stages,
           NEW m \in Modules \cup {None},
           thread' = [thread EXCEPT ![t].at = at, ![t].module = m]
    PROVE  /\ thread' \in [Threads -> Call]
           /\ thread'[t] = [at |-> at, expert |-> thread[t].expert, module |-> m,
                            awaited |-> thread[t].awaited]
           /\ \A u \in Threads \ {t} : thread'[u] = thread[u]
<1>1. thread[t] \in Call
    OBVIOUS
<1>2. thread'[t] = [[thread[t] EXCEPT !.at = at] EXCEPT !.module = m]
    OBVIOUS
<1>3. thread'[t] = [at |-> at, expert |-> thread[t].expert, module |-> m,
                    awaited |-> thread[t].awaited]
    BY <1>1, <1>2 DEF Call
<1>4. thread'[t] \in Call
    BY <1>1, <1>3 DEF Call
<1>5. QED
    BY <1>3, <1>4

LEMMA StepChanges ==
    ASSUME thread \in [Threads -> Call], NEW t \in Threads, NEW at \in Stages,
           Step(t, at)
    PROVE  /\ thread' \in [Threads -> Call]
           /\ thread'[t] = [at |-> at, expert |-> thread[t].expert,
                            module |-> thread[t].module, awaited |-> thread[t].awaited]
           /\ \A u \in Threads \ {t} : thread'[u] = thread[u]
<1>1. thread[t] \in Call
    OBVIOUS
<1>2. thread'[t] = [thread[t] EXCEPT !.at = at]
    BY DEF Step
<1>3. thread'[t] = [at |-> at, expert |-> thread[t].expert,
                    module |-> thread[t].module, awaited |-> thread[t].awaited]
    BY <1>1, <1>2 DEF Call
<1>4. thread'[t] \in Call
    BY <1>1, <1>3 DEF Call
<1>5. QED
    BY <1>3, <1>4 DEF Step

\* What a step of one thread's call has to show for the types of the call.
LEMMA CallTypes ==
    ASSUME Loading, NEW t \in Threads,
           \A u \in Threads \ {t} : thread'[u] = thread[u] /\ staging'[u] = staging[u],
           thread'[t].at # "idle" => thread'[t].expert \in Experts,
           thread'[t].at \in {"taken", "read", "copy", "attach"} => thread'[t].module \in Modules,
           thread'[t].at = "copy" => staging'[t] \in Experts
    PROVE  Loading'
BY DEF Loading, Taking

\* A step of materialize.
LEMMA MaterializeTypes ==
    ASSUME TypeInv, NEW t \in Threads, Materialize(t)
    PROVE  TypeInv'
<1> DEFINE e == thread[t].expert
<1>0. /\ thread \in [Threads -> Call] /\ thread[t] \in Call
      /\ {"hit", "miss", "acquire", "taken", "read", "copy", "attach", "insert", "release",
          "detach", "ready"} \subseteq Stages
      /\ TypeOK /\ Loading
    BY DEF Call, Stages, TypeInv, TypeOK
<1>1. thread[t].at # "idle" => e \in Experts
    BY <1>0 DEF Loading
<1>12. ASSUME NEW at \in {"hit", "miss", "acquire", "read"}, Step(t, at), thread[t].at # "idle",
             at = "read" => Taking(t),
             UNCHANGED <<config, cacheVars, deviceVars, staging, layerVars, failed>>
      PROVE  TypeInv'
  <2>1. /\ thread' \in [Threads -> Call]
        /\ thread'[t] = [at |-> at, expert |-> e,
                         module |-> thread[t].module, awaited |-> thread[t].awaited]
        /\ \A u \in Threads \ {t} : thread'[u] = thread[u]
      BY <1>0, <1>12, StepChanges
  <2>2. Loading'
    <3>1. at = "read" => thread[t].module \in Modules
        BY <1>0, <1>12 DEF Loading
    <3>2. UNCHANGED staging
        BY <1>12
    <3>3. QED
        BY <1>0, <1>1, <1>12, <2>1, <3>1, <3>2, CallTypes
  <2>3. TypeOK'
      BY <1>0, <1>12, <2>1 DEF TypeOK, Call, cacheVars, deviceVars, layerVars
  <2>4. QED
      BY <2>2, <2>3 DEF TypeInv
<1>2. CASE Hit(t)
    BY <1>2, <1>12 DEF Hit
<1>13. CASE Miss(t)
    BY <1>13, <1>12 DEF Miss
<1>14. CASE Record(t)
    BY <1>14, <1>12 DEF Record, Taking
<1>3. CASE Touch(t)
  <2>1. /\ thread[t].at = "hit"
        /\ thread' = [thread EXCEPT ![t].at = "ready", ![t].module = attached[e]]
      BY <1>3 DEF Touch
  <2>2. attached[e] \in Modules \cup {None}
      BY <1>0, <1>1, <2>1 DEF TypeOK
  <2>3. /\ thread' \in [Threads -> Call]
        /\ thread'[t] = [at |-> "ready", expert |-> e,
                         module |-> attached[e], awaited |-> thread[t].awaited]
        /\ \A u \in Threads \ {t} : thread'[u] = thread[u]
      BY <1>0, <2>1, <2>2, StageChanges
  <2>4. newer' \in [Experts -> SUBSET Experts]
      BY <1>0, <1>1, <1>3 DEF Touch, Touched, TypeOK
  <2>5. Loading'
      BY <1>0, <1>1, <1>3, <2>1, <2>3, CallTypes DEF Touch
  <2>6. TypeOK'
      BY <1>0, <1>3, <2>3, <2>4 DEF Touch, TypeOK, Call, cacheVars, deviceVars, layerVars
  <2>7. QED
      BY <2>5, <2>6 DEF TypeInv
<1>4. CASE Acquire(t)
  <2>1. PICK m \in IF pool # {} THEN pool ELSE Fresh :
            /\ pool' = pool \ {m}
            /\ thread' = [thread EXCEPT ![t].at = "taken", ![t].module = m]
      BY <1>4 DEF Acquire
  <2>2. m \in Modules
      BY <1>0, <2>1 DEF Fresh, TypeOK
  <2>3. /\ thread' \in [Threads -> Call]
        /\ thread'[t] = [at |-> "taken", expert |-> e,
                         module |-> m, awaited |-> thread[t].awaited]
        /\ \A u \in Threads \ {t} : thread'[u] = thread[u]
      BY <1>0, <2>1, <2>2, StageChanges
  <2>4. Loading'
    <3>1. thread[t].at = "acquire" /\ UNCHANGED staging
        BY <1>4 DEF Acquire
    <3>2. e \in Experts
        BY <1>1, <3>1
    <3>3. QED
        BY <1>0, <2>2, <2>3, <3>1, <3>2, CallTypes
  <2>5. TypeOK'
      BY <1>0, <1>4, <2>1, <2>3 DEF Acquire, TypeOK, Call, deviceVars, layerVars
  <2>6. QED
      BY <2>4, <2>5 DEF TypeInv
<1>5. CASE Read(t)
  <2>1. thread[t].at = "read" /\ Step(t, "copy") /\ staging' = [staging EXCEPT ![t] = e]
      BY <1>5 DEF Read
  <2>2. /\ thread' \in [Threads -> Call]
        /\ thread'[t] = [at |-> "copy", expert |-> e,
                         module |-> thread[t].module, awaited |-> thread[t].awaited]
        /\ \A u \in Threads \ {t} : thread'[u] = thread[u]
      BY <1>0, <2>1, StepChanges
  <2>3. /\ staging' \in [Threads -> Experts \cup {None}] /\ staging'[t] = e
        /\ \A u \in Threads \ {t} : staging'[u] = staging[u]
      BY <1>0, <1>1, <2>1 DEF TypeOK
  <2>4. e \in Experts /\ thread[t].module \in Modules
      BY <1>0, <2>1 DEF Loading, Taking
  <2>5. Loading'
      BY <1>0, <2>1, <2>2, <2>3, <2>4, CallTypes
  <2>6. TypeOK'
      BY <1>0, <1>5, <2>2, <2>3 DEF Read, TypeOK, Call, cacheVars, deviceVars, layerVars
  <2>7. QED
      BY <2>5, <2>6 DEF TypeInv
<1>6. CASE Copy(t)
  <2>1. /\ thread[t].at = "copy" /\ Step(t, "attach")
        /\ stream' = Append(stream, [kind |-> "copy", module |-> thread[t].module,
                                     expert |-> staging[t], by |-> t])
        /\ staging' = IF config.copies = "captured" THEN [staging EXCEPT ![t] = None]
                      ELSE staging
      BY <1>6 DEF Copy
  <2>2. /\ thread' \in [Threads -> Call]
        /\ thread'[t] = [at |-> "attach", expert |-> e,
                         module |-> thread[t].module, awaited |-> thread[t].awaited]
        /\ \A u \in Threads \ {t} : thread'[u] = thread[u]
      BY <1>0, <2>1, StepChanges
  <2>3. thread[t].module \in Modules /\ staging[t] \in Experts
      BY <1>0, <2>1 DEF Loading, Taking
  <2>4. stream' \in Seq([kind : {"copy", "compute"}, module : Modules,
                         expert : Experts, by : Threads])
      BY <1>0, <2>1, <2>3 DEF TypeOK
  <2>5. /\ staging' \in [Threads -> Experts \cup {None}]
        /\ \A u \in Threads \ {t} : staging'[u] = staging[u]
      BY <1>0, <2>1 DEF TypeOK
  <2>6. Loading'
      BY <1>0, <1>1, <2>1, <2>2, <2>3, <2>5, CallTypes
  <2>7. TypeOK'
      BY <1>0, <1>6, <2>2, <2>4, <2>5 DEF Copy, TypeOK, Call, cacheVars, layerVars
  <2>8. QED
      BY <2>6, <2>7 DEF TypeInv
<1>7. CASE Attach(t)
  <2>1. /\ thread[t].at = "attach" /\ Step(t, "insert")
        /\ attached' = [attached EXCEPT ![e] = thread[t].module]
      BY <1>7 DEF Attach
  <2>2. /\ thread' \in [Threads -> Call]
        /\ thread'[t] = [at |-> "insert", expert |-> e,
                         module |-> thread[t].module, awaited |-> thread[t].awaited]
        /\ \A u \in Threads \ {t} : thread'[u] = thread[u]
      BY <1>0, <2>1, StepChanges
  <2>3. attached' \in [Experts -> Modules \cup {None}]
      BY <1>0, <2>1 DEF TypeOK, Loading, Taking
  <2>4. Loading'
      BY <1>0, <1>1, <1>7, <2>1, <2>2, CallTypes DEF Attach
  <2>5. TypeOK'
      BY <1>0, <1>7, <2>2, <2>3 DEF Attach, TypeOK, Call, deviceVars, layerVars
  <2>6. QED
      BY <2>4, <2>5 DEF TypeInv
<1>8. CASE Insert(t)
  <2> DEFINE inserted == entries \cup {e}
             recent == Touched(e, inserted)
             kept == MostRecent(inserted, recent)
  <2>1. PICK at \in {"ready", "release"} : thread[t].at = "insert" /\ Step(t, at)
      BY <1>8 DEF Insert
  <2>2. /\ thread' \in [Threads -> Call]
        /\ thread'[t] = [at |-> at, expert |-> e,
                         module |-> thread[t].module, awaited |-> thread[t].awaited]
        /\ \A u \in Threads \ {t} : thread'[u] = thread[u]
      BY <1>0, <2>1, StepChanges
  <2>3. e \in Experts /\ inserted \subseteq Experts /\ kept \subseteq inserted
      BY <1>0, <1>1, <2>1 DEF MostRecent, WithinQuota, TypeOK
  <2>4. /\ entries' \subseteq Experts
        /\ newer' \in [Experts -> SUBSET Experts]
        /\ victims' \subseteq Experts
    <3>1. CASE Enabled /\ e \notin entries
      <4>1. /\ entries' = kept
            /\ newer' = [f \in Experts |-> IF f \in kept THEN recent[f] \cap kept ELSE {}]
            /\ victims' = inserted \ kept
          BY <1>8, <3>1 DEF Insert
      <4> HIDE DEF kept, inserted, recent
      <4>2. QED
          BY <2>3, <4>1
    <3>2. CASE ~(Enabled /\ e \notin entries)
        BY <1>0, <1>8, <3>2 DEF Insert, TypeOK
    <3>3. QED
        BY <3>1, <3>2
  <2>5. Loading'
      BY <1>0, <1>1, <1>8, <2>1, <2>2, CallTypes DEF Insert
  <2>6. TypeOK'
      BY <1>0, <1>8, <2>2, <2>4 DEF Insert, TypeOK, Call, deviceVars, layerVars
  <2>7. QED
      BY <2>5, <2>6 DEF TypeInv
<1>9. CASE Release(t)
  <2>1. thread[t].at = "release" /\ Step(t, "detach") /\ ReleasedVictims
      BY <1>9 DEF Release
  <2>2. /\ thread' \in [Threads -> Call]
        /\ thread'[t] = [at |-> "detach", expert |-> e,
                         module |-> thread[t].module, awaited |-> thread[t].awaited]
        /\ \A u \in Threads \ {t} : thread'[u] = thread[u]
      BY <1>0, <2>1, StepChanges
  <2>3. Loading'
      BY <1>0, <1>1, <1>9, <2>1, <2>2, CallTypes DEF Release
  <2>4. TypeOK'
      BY <1>0, <1>9, <2>1, <2>2, ReleasedTypes DEF Release, TypeOK, Call, deviceVars, layerVars
  <2>5. QED
      BY <2>3, <2>4 DEF TypeInv
<1>10. CASE Detach(t)
  <2>1. thread[t].at = "detach" /\ Step(t, "ready") /\ DetachedVictims
      BY <1>10 DEF Detach
  <2>2. /\ thread' \in [Threads -> Call]
        /\ thread'[t] = [at |-> "ready", expert |-> e,
                         module |-> thread[t].module, awaited |-> thread[t].awaited]
        /\ \A u \in Threads \ {t} : thread'[u] = thread[u]
      BY <1>0, <2>1, StepChanges
  <2>3. Loading'
      BY <1>0, <1>1, <1>10, <2>1, <2>2, CallTypes DEF Detach
  <2>4. TypeOK'
      BY <1>0, <1>10, <2>1, <2>2, DetachedTypes DEF Detach, TypeOK, Call, deviceVars, layerVars
  <2>5. QED
      BY <2>3, <2>4 DEF TypeInv
<1>11. QED
    BY <1>2, <1>3, <1>4, <1>5, <1>6, <1>7, <1>8, <1>9, <1>10, <1>13, <1>14 DEF Materialize

\* A step of a worker that is not part of materialize.
LEMMA WorkerTypes ==
    ASSUME TypeInv, NEW w \in Workers, TakeJob(w) \/ JobDone(w) \/ JobRaises(w)
    PROVE  TypeInv'
<1>0. /\ thread \in [Threads -> Call] /\ TypeOK /\ Loading /\ w \in Threads
      /\ thread[w] \in Call
    BY DEF Call, TypeInv, TypeOK, Threads
<1>1. CASE TakeJob(w)
  <2>1. Head(jobs) \in [expert : Experts, awaited : BOOLEAN]
        /\ Tail(jobs) \in Seq([expert : Experts, awaited : BOOLEAN])
      BY <1>0, <1>1, HeadTailProperties DEF TakeJob, TypeOK
  <2>2. thread' = [thread EXCEPT ![w] = Looking(Head(jobs))] /\ jobs' = Tail(jobs)
      BY <1>1 DEF TakeJob
  <2>3. /\ Looking(Head(jobs)) \in Call
        /\ Looking(Head(jobs)).at = "look"
        /\ Looking(Head(jobs)).expert \in Experts
      BY <2>1 DEF Looking, Call, Stages
  <2>4. /\ thread' \in [Threads -> Call] /\ thread'[w] = Looking(Head(jobs))
        /\ \A u \in Threads \ {w} : thread'[u] = thread[u]
      BY <1>0, <2>2, <2>3
  <2>5. Loading'
      BY <1>0, <1>1, <2>3, <2>4, CallTypes DEF TakeJob
  <2>6. TypeOK'
      BY <1>0, <1>1, <2>1, <2>2, <2>4 DEF TakeJob, TypeOK, Call, cacheVars, deviceVars
  <2>7. QED
      BY <2>5, <2>6 DEF TypeInv
<1>2. ASSUME NEW outcome \in {"loaded", "raised"}, Settle(w, outcome),
             thread[w].at # "idle",
             UNCHANGED <<config, cacheVars, deviceVars, staging, jobs, layer>>,
             failed' \in 0..config.failures
      PROVE  TypeInv'
  <2>1. thread[w].expert \in Experts
      BY <1>0, <1>2 DEF Loading
  <2>2. settled' \in [loaded : SUBSET Experts, raised : SUBSET Experts]
      BY <1>0, <1>2, <2>1 DEF Settle, TypeOK
  <2>3. /\ thread' \in [Threads -> Call] /\ thread'[w] = Idle /\ Idle.at = "idle"
        /\ \A u \in Threads \ {w} : thread'[u] = thread[u]
      BY <1>0, <1>2 DEF Settle, Idle, Call, Stages
  <2>4. Loading'
      BY <1>0, <1>2, <2>3, CallTypes
  <2>5. TypeOK'
      BY <1>0, <1>2, <2>2, <2>3 DEF TypeOK, Call, cacheVars, deviceVars
  <2>6. QED
      BY <2>4, <2>5 DEF TypeInv
<1>3. CASE JobDone(w)
    BY <1>0, <1>2, <1>3 DEF JobDone, TypeOK
<1>4. CASE JobRaises(w)
  <2>1. failed' \in 0..config.failures
      BY <1>0, <1>4, ConfigAssumption DEF JobRaises, Raise, TypeOK
  <2>2. QED
      BY <1>2, <1>4, <2>1 DEF JobRaises
<1>5. QED
    BY <1>1, <1>3, <1>4

\* The forward pass gives up.
LEMMA AbandonTypes ==
    ASSUME TypeInv, Abandon, UNCHANGED staging
    PROVE  /\ Loading' /\ thread' \in [Threads -> Call]
           /\ jobs' \in Seq([expert : Experts, awaited : BOOLEAN])
           /\ layer' = NoLayer /\ settled' = Unsettled
<1>0. /\ thread \in [Threads -> Call] /\ TypeOK /\ Loading
    BY DEF Call, TypeInv, TypeOK
<1>1. thread' \in [Threads -> Call]
  <2>1. \A t \in Threads : [thread[t] EXCEPT !.awaited = FALSE] \in Call
      BY <1>0 DEF Call
  <2>2. Idle \in Call
      BY DEF Idle, Call, Stages
  <2>3. QED
      BY <2>1, <2>2 DEF Abandon
<1>2. \A t \in Threads : \/ thread'[t].at = "idle"
                         \/ /\ thread'[t].at = thread[t].at
                            /\ thread'[t].expert = thread[t].expert
                            /\ thread'[t].module = thread[t].module
  <2>1. Idle.at = "idle"
      BY DEF Idle
  <2>2. \A t \in Threads : thread'[t] = IF t = Main THEN Idle
                                        ELSE [thread[t] EXCEPT !.awaited = FALSE]
      BY DEF Abandon
  <2>3. \A t \in Threads : LET c == [thread[t] EXCEPT !.awaited = FALSE]
                            IN /\ c.at = thread[t].at /\ c.expert = thread[t].expert
                               /\ c.module = thread[t].module
      BY <1>0 DEF Call
  <2>4. QED
      BY <2>1, <2>2, <2>3
<1>3. Loading'
    BY <1>0, <1>2 DEF Loading, Taking
<1>4. jobs' \in Seq([expert : Experts, awaited : BOOLEAN])
  <2>1. /\ jobs \in Seq([expert : Experts, awaited : BOOLEAN])
        /\ Len(jobs) \in Nat /\ DOMAIN jobs = 1..Len(jobs)
      BY <1>0 DEF TypeOK
  <2>2. \A i \in 1..Len(jobs) :
            [jobs[i] EXCEPT !.awaited = FALSE] \in [expert : Experts, awaited : BOOLEAN]
    <3> TAKE i \in 1..Len(jobs)
    <3>1. jobs[i] \in [expert : Experts, awaited : BOOLEAN]
        BY <2>1, ElementOfSeq
    <3>2. QED
        BY <3>1
  <2>3. jobs' = [i \in 1..Len(jobs) |-> [jobs[i] EXCEPT !.awaited = FALSE]]
      BY <2>1 DEF Abandon
  <2>4. jobs' \in [1..Len(jobs) -> [expert : Experts, awaited : BOOLEAN]]
      BY <2>2, <2>3
  <2>5. QED
      BY <2>1, <2>4, FunctionIsSequence
<1>5. QED
    BY <1>1, <1>3, <1>4 DEF Abandon

\* The forward pass begins, goes on, raises or ends.
LEMMA ForwardTypes ==
    ASSUME TypeInv,
           \/ \E A \in Batches : StartLayer(A)
           \/ Prefetched \/ PrefetchRaises \/ NextExpert \/ EndLayer
           \/ LoadRaises \/ Compute \/ ComputeRaises \/ DropUsed \/ DropRaises
    PROVE  TypeInv'
<1>0. /\ thread \in [Threads -> Call] /\ TypeOK /\ Loading /\ Main \in Threads
      /\ thread[Main] \in Call
    BY DEF Call, TypeInv, TypeOK, Threads
<1>1. ASSUME NEW A \in Batches, StartLayer(A)
      PROVE  TypeInv'
  <2>1. A \in SUBSET Experts /\ IsFiniteSet(A) /\ Cardinality(A) \in Nat
    <3>1. config.routed \in SUBSET Experts
        BY <1>0, ConfigAssumption DEF TypeOK
    <3>2. A \in SUBSET Experts
        BY <1>1, <3>1 DEF Batches
    <3>3. QED
        BY <3>2, ExpertAssumption, FS_Subset, FS_CardinalityType
  <2>2. layer' \in [at : {"idle", "prefetch", "experts", "expert", "raised"},
                    todo : SUBSET Experts, waits : SUBSET Experts]
      BY <1>1, <2>1 DEF StartLayer
  <2>3. jobs' \in Seq([expert : Experts, awaited : BOOLEAN])
    <3>1. CASE UNCHANGED jobs
        BY <1>0, <3>1 DEF TypeOK
    <3>2. CASE ~UNCHANGED jobs
      <4>1. PICK order \in Ascending(A) :
                jobs' = jobs \o [i \in DOMAIN order |-> Job(order[i])]
          BY <1>1, <3>2 DEF StartLayer
      <4>2. order \in [1..Cardinality(A) -> A]
          BY <4>1 DEF Ascending
      <4> DEFINE new == [i \in 1..Cardinality(A) |-> Job(order[i])]
      <4>3. \A i \in 1..Cardinality(A) :
                Job(order[i]) \in [expert : Experts, awaited : BOOLEAN]
          BY <2>1, <4>2 DEF Job
      <4>4. new \in Seq([expert : Experts, awaited : BOOLEAN])
        <5>1. new \in [1..Cardinality(A) -> [expert : Experts, awaited : BOOLEAN]]
            BY <4>3
        <5> HIDE DEF new
        <5>2. QED
            BY <2>1, <5>1, FunctionIsSequence
      <4>5. jobs' = jobs \o new
          BY <4>1, <4>2
      <4> HIDE DEF new
      <4>6. QED
          BY <1>0, <4>4, <4>5, ConcatProperties DEF TypeOK
    <3>3. QED
        BY <3>1, <3>2
  <2>4. Loading'
      BY <1>0, <1>1 DEF StartLayer, Loading, Taking
  <2>5. TypeOK'
      BY <1>0, <1>1, <2>2, <2>3
      DEF StartLayer, TypeOK, Unsettled, cacheVars, deviceVars
  <2>6. QED
      BY <2>4, <2>5 DEF TypeInv
<1>2. CASE Prefetched
  <2>1. layer' \in [at : {"idle", "prefetch", "experts", "expert", "raised"},
                    todo : SUBSET Experts, waits : SUBSET Experts]
      BY <1>0, <1>2 DEF Prefetched, TypeOK
  <2>2. QED
      BY <1>0, <1>2, <2>1
      DEF Prefetched, TypeInv, TypeOK, Loading, Taking, cacheVars, deviceVars
<1>3. ASSUME Abandon, UNCHANGED <<config, entries, newer, deviceVars, staging>>,
             attached' \in [Experts -> Modules \cup {None}], pool' \subseteq Modules,
             victims' \subseteq Experts, failed' \in 0..config.failures
      PROVE  TypeInv'
  <2>1. /\ Loading' /\ thread' \in [Threads -> Call]
        /\ jobs' \in Seq([expert : Experts, awaited : BOOLEAN])
        /\ layer' = NoLayer /\ settled' = Unsettled
      BY <1>3, AbandonTypes
  <2>2. TypeOK'
      BY <1>0, <1>3, <2>1 DEF TypeOK, Call, NoLayer, Unsettled, deviceVars
  <2>3. QED
      BY <2>1, <2>2 DEF TypeInv
<1>4. CASE PrefetchRaises
    BY <1>0, <1>3, <1>4 DEF PrefetchRaises, TypeOK, cacheVars
<1>5. Raise => failed' \in 0..config.failures
    BY <1>0, ConfigAssumption DEF Raise, TypeOK
<1>6. CASE LoadRaises
    BY <1>0, <1>3, <1>5, <1>6 DEF LoadRaises, TypeOK, cacheVars
<1>7. ASSUME NEW outcome \in {"expert", "raised"}, Evict(outcome), thread[Main].at = "ready",
             UNCHANGED staging
      PROVE  /\ Loading' /\ thread' \in [Threads -> Call] /\ victims' \subseteq Experts
             /\ layer' \in [at : {"idle", "prefetch", "experts", "expert", "raised"},
                             todo : SUBSET Experts, waits : SUBSET Experts]
  <2>1. Step(Main, "release") /\ "release" \in Stages
      BY <1>7 DEF Evict, Stages
  <2>2. /\ thread' \in [Threads -> Call]
        /\ thread'[Main] = [at |-> "release", expert |-> thread[Main].expert,
                            module |-> thread[Main].module, awaited |-> thread[Main].awaited]
        /\ \A u \in Threads \ {Main} : thread'[u] = thread[u]
      BY <1>0, <2>1, StepChanges
  <2>3. thread[Main].expert \in Experts
      BY <1>0, <1>7 DEF Loading
  <2>4. Loading'
      BY <1>0, <1>7, <2>2, <2>3, CallTypes
  <2>5. QED
      BY <1>0, <1>7, <2>2, <2>3, <2>4 DEF Evict, TypeOK
<1>13. ASSUME Used, thread[Main].at # "idle", UNCHANGED staging
      PROVE  /\ Loading' /\ thread' \in [Threads -> Call]
             /\ layer' \in [at : {"idle", "prefetch", "experts", "expert", "raised"},
                             todo : SUBSET Experts, waits : SUBSET Experts]
  <2>1. /\ thread' \in [Threads -> Call] /\ thread'[Main] = Idle /\ Idle.at = "idle"
        /\ \A u \in Threads \ {Main} : thread'[u] = thread[u]
      BY <1>0, <1>13 DEF Used, Idle, Call, Stages
  <2>2. Loading'
      BY <1>0, <1>13, <2>1, CallTypes
  <2>3. QED
      BY <1>0, <1>13, <2>1, <2>2 DEF Used, TypeOK
<1>8. CASE ComputeRaises
  <2>1. failed' \in 0..config.failures
      BY <1>0, <1>5, <1>8 DEF ComputeRaises, TypeOK
  <2>2. CASE Enabled
      BY <1>0, <1>3, <1>8, <2>1, <2>2 DEF ComputeRaises, TypeOK
  <2>3. CASE ~Enabled
    <3>1. Evict("raised") /\ thread[Main].at = "ready"
        BY <1>8, <2>3 DEF ComputeRaises
    <3>2. QED
        BY <1>0, <1>7, <1>8, <2>1, <2>3, <3>1
        DEF ComputeRaises, TypeInv, TypeOK, Call, deviceVars
  <2>4. QED
      BY <2>2, <2>3
<1>14. CASE DropUsed
    BY <1>0, <1>13, <1>14, DetachedTypes DEF DropUsed, TypeInv, TypeOK, Call, deviceVars
<1>15. CASE DropRaises
    BY <1>0, <1>3, <1>15, DetachedTypes DEF DropRaises, TypeOK
<1>9. CASE NextExpert
  <2>1. PICK e \in layer.todo : thread' = [thread EXCEPT ![Main] = Looking(Job(e))]
      BY <1>9 DEF NextExpert
  <2>2. e \in Experts
      BY <1>0 DEF TypeOK
  <2>3. /\ Looking(Job(e)) \in Call /\ Looking(Job(e)).at = "look"
        /\ Looking(Job(e)).expert \in Experts
      BY <2>2 DEF Looking, Job, Call, Stages
  <2>4. /\ thread' \in [Threads -> Call] /\ thread'[Main] = Looking(Job(e))
        /\ \A u \in Threads \ {Main} : thread'[u] = thread[u]
      BY <1>0, <2>1, <2>3
  <2>5. Loading'
      BY <1>0, <1>9, <2>3, <2>4, CallTypes DEF NextExpert
  <2>6. TypeOK'
      BY <1>0, <1>9, <2>4 DEF NextExpert, TypeOK, Call, cacheVars, deviceVars
  <2>7. QED
      BY <2>5, <2>6 DEF TypeInv
<1>10. CASE EndLayer
    BY <1>0, <1>10
    DEF EndLayer, TypeInv, TypeOK, Loading, Taking, NoLayer, Unsettled, cacheVars, deviceVars
<1>11. CASE Compute
  <2>1. thread[Main].expert \in Experts /\ thread[Main].module \in Modules
      BY <1>0, <1>11 DEF Compute, Loading, Call
  <2>2. stream' \in Seq([kind : {"copy", "compute"}, module : Modules,
                         expert : Experts, by : Threads])
      BY <1>0, <1>11, <2>1 DEF Compute, TypeOK
  <2>3. CASE Enabled
    <3>1. Used /\ UNCHANGED <<victims, staging>> /\ thread[Main].at # "idle"
        BY <1>11, <2>3 DEF Compute
    <3>2. QED
        BY <1>0, <1>11, <1>13, <2>2, <3>1 DEF Compute, TypeInv, TypeOK, Call
  <2>4. CASE ~Enabled
    <3>1. Evict("expert") /\ thread[Main].at = "ready" /\ UNCHANGED staging
        BY <1>11, <2>4 DEF Compute
    <3>2. QED
        BY <1>0, <1>7, <1>11, <2>2, <3>1 DEF Compute, TypeInv, TypeOK, Call
  <2>5. QED
      BY <2>3, <2>4
<1>12. QED
    BY <1>1, <1>2, <1>4, <1>6, <1>8, <1>9, <1>10, <1>11, <1>14, <1>15

LEMMA ExecuteTypes == ASSUME TypeInv, Execute PROVE TypeInv'
<1>0. TypeOK /\ Loading
    BY DEF TypeInv
<1> DEFINE op == Head(stream)
           Ops == [kind : {"copy", "compute"}, module : Modules,
                   expert : Experts, by : Threads]
<1>1. op \in Ops /\ stream' \in Seq(Ops)
    BY <1>0, HeadTailProperties DEF Execute, TypeOK
<1>2. Source(op) \in Experts \cup {None}
    BY <1>0, <1>1 DEF Source, TypeOK
<1>3. content' \in [Modules -> Experts \cup {None}]
    BY <1>0, <1>1, <1>2 DEF Execute, TypeOK
<1>4. QED
    BY <1>0, <1>1, <1>3
    DEF Execute, TypeInv, TypeOK, Loading, Taking, cacheVars, layerVars

LEMMA TypeStep == TypeInv /\ [Next]_vars => TypeInv'
<1> SUFFICES ASSUME TypeInv, [Next]_vars PROVE TypeInv'
    OBVIOUS
<1>1. ASSUME NEW w \in Workers, WorkerStep(w) PROVE TypeInv'
    BY <1>1, MaterializeTypes, WorkerTypes DEF WorkerStep, Threads
<1>2. CASE ForwardStep
    BY <1>2, MaterializeTypes, ForwardTypes DEF ForwardStep, Threads
<1>3. QED
    BY <1>1, <1>2, ForwardTypes, ExecuteTypes, TypeStutters DEF Next

\* The loader's variables have their types, whatever the configuration.
THEOREM TypesAreCorrect == Spec => []TypeOK
<1>1. TypeInv => TypeOK
    BY DEF TypeInv
<1>2. QED
    BY <1>1, TypeInit, TypeStep, PTL DEF Spec

\* A run of the program has one configuration.
LEMMA ConfigKept == [Next]_vars => UNCHANGED config
<1>1. ASSUME NEW t \in Threads, Materialize(t) PROVE UNCHANGED config
  <2>1. CASE Hit(t) \/ Touch(t) \/ Miss(t) \/ Record(t) \/ Acquire(t)
      BY <2>1 DEF Hit, Touch, Miss, Record, Acquire
  <2>2. CASE Read(t) \/ Copy(t) \/ Attach(t)
      BY <2>2 DEF Read, Copy, Attach
  <2>3. CASE Insert(t)
      BY <2>3 DEF Insert
  <2>4. CASE Release(t) \/ Detach(t)
      BY <2>4 DEF Release, Detach
  <2>5. QED
      BY <1>1, <2>1, <2>2, <2>3, <2>4 DEF Materialize
<1>2. ASSUME NEW w \in Workers, TakeJob(w) \/ JobDone(w) \/ JobRaises(w)
      PROVE  UNCHANGED config
    BY <1>2 DEF TakeJob, JobDone, JobRaises
<1>3. CASE (\E A \in Batches : StartLayer(A)) \/ Prefetched \/ PrefetchRaises \/ NextExpert
    BY <1>3 DEF StartLayer, Prefetched, PrefetchRaises, NextExpert
<1>4. CASE Compute \/ ComputeRaises \/ DropUsed \/ DropRaises
    BY <1>4 DEF Compute, ComputeRaises, DropUsed, DropRaises
<1>5. CASE LoadRaises \/ EndLayer \/ Execute \/ UNCHANGED vars
    BY <1>5 DEF LoadRaises, EndLayer, Execute, vars
<1>6. QED
    BY <1>1, <1>2, <1>3, <1>4, <1>5 DEF Next, ForwardStep, WorkerStep, Threads

-----------------------------------------------------------------------------
(* Drops *)

\* A thread that drops an expert.
Dropping(t) == thread[t].at \in {"release", "detach"}

\* One thread drops at a time: under the manager's lock, or, without a cache, the
\* engine thread what it has used.  The engine thread runs a call only while a layer
\* is at an expert.
OneDrop ==
    /\ victims # {} <=> \E t \in Threads : Dropping(t)
    /\ \A t, u \in Threads : Dropping(t) /\ Dropping(u) => t = u
    /\ \A t \in Threads : Dropping(t) /\ ~Enabled => t = Main /\ victims = {thread[t].expert}
    /\ thread[Main].at # "idle" => layer.at \in {"expert", "raised"}
    /\ layer.at = "raised" => ~Enabled /\ Dropping(Main)

DropInv == TypeInv /\ OneDrop

\* Steps that neither begin nor end a drop.
LEMMA DropsKept ==
    ASSUME OneDrop, UNCHANGED <<config, victims>>,
           \A t \in Threads : Dropping(t)' <=> Dropping(t),
           Dropping(Main) => thread'[Main].expert = thread[Main].expert,
           thread'[Main].at # "idle" => layer'.at \in {"expert", "raised"},
           layer'.at = "raised" => layer.at = "raised"
    PROVE  OneDrop'
<1>1. Main \in Threads
    BY DEF Threads
<1>2. QED
    BY <1>1 DEF OneDrop, Enabled

\* Steps after which nobody drops anything.
LEMMA DropsEnd ==
    ASSUME OneDrop, victims' = {}, \A t \in Threads : ~Dropping(t)',
           thread'[Main].at # "idle" => layer'.at = "expert",
           layer'.at # "raised"
    PROVE  OneDrop'
BY DEF OneDrop

\* The only thread that drops ends its drop.
LEMMA OthersDropNot ==
    ASSUME OneDrop, NEW t \in Threads, Dropping(t)
    PROVE  \A u \in Threads \ {t} : ~Dropping(u)
BY DEF OneDrop

LEMMA DropMaterialize ==
    ASSUME DropInv, NEW t \in Threads, Materialize(t)
    PROVE  OneDrop'
<1> DEFINE e == thread[t].expert
<1>0. /\ thread \in [Threads -> Call] /\ TypeOK /\ Loading /\ OneDrop
      /\ Main \in Threads
      /\ {"hit", "miss", "acquire", "taken", "read", "copy", "attach", "insert", "release",
          "detach", "ready"} \subseteq Stages
    BY DEF DropInv, Call, Stages, TypeInv, TypeOK, Threads
<1>1. thread[t].at # "idle" => e \in Experts
    BY <1>0 DEF Loading
<1>2. ASSUME NEW at \in Stages \ {"idle"}, NEW m \in Modules \cup {None},
             thread' = [thread EXCEPT ![t].at = at, ![t].module = m],
             at \in {"release", "detach"} <=> Dropping(t), thread[t].at # "idle",
             UNCHANGED <<config, victims, layer>>
      PROVE  OneDrop'
  <2>1. /\ thread'[t] = [at |-> at, expert |-> e, module |-> m, awaited |-> thread[t].awaited]
        /\ \A u \in Threads \ {t} : thread'[u] = thread[u]
      BY <1>0, <1>2, StageChanges
  <2>2. \A u \in Threads : Dropping(u)' <=> Dropping(u)
    <3>1. thread'[t].at = at
        BY <2>1
    <3>2. QED
        BY <1>2, <2>1, <3>1 DEF Dropping
  <2>3. thread'[Main].expert = thread[Main].expert
      BY <1>0, <2>1
  <2>4. thread'[Main].at # "idle" => layer'.at \in {"expert", "raised"}
      BY <1>0, <1>2, <2>1 DEF OneDrop
  <2>5. QED
      BY <1>0, <1>2, <2>2, <2>3, <2>4, DropsKept
<1>3. ASSUME NEW at \in Stages \ {"idle"}, Step(t, at),
             at \in {"release", "detach"} <=> Dropping(t), thread[t].at # "idle",
             UNCHANGED <<config, victims, layer>>
      PROVE  OneDrop'
  <2>1. /\ thread'[t] = [at |-> at, expert |-> e, module |-> thread[t].module,
                         awaited |-> thread[t].awaited]
        /\ \A u \in Threads \ {t} : thread'[u] = thread[u]
      BY <1>0, <1>3, StepChanges
  <2>2. \A u \in Threads : Dropping(u)' <=> Dropping(u)
      BY <1>3, <2>1 DEF Dropping
  <2>3. thread'[Main].expert = thread[Main].expert
      BY <1>0, <2>1
  <2>4. thread'[Main].at # "idle" => layer'.at \in {"expert", "raised"}
      BY <1>0, <1>3, <2>1 DEF OneDrop
  <2>5. QED
      BY <1>0, <1>3, <2>2, <2>3, <2>4, DropsKept
<1>4. CASE Hit(t)
    BY <1>0, <1>3, <1>4 DEF Hit, Dropping, cacheVars, layerVars
<1>5. CASE Touch(t)
  <2>1. attached[e] \in Modules \cup {None}
      BY <1>0, <1>1, <1>5 DEF Touch, TypeOK
  <2>2. QED
    <3>1. /\ thread' = [thread EXCEPT ![t].at = "ready", ![t].module = attached[e]]
          /\ thread[t].at = "hit" /\ UNCHANGED <<config, victims, layer>>
        BY <1>5 DEF Touch, layerVars
    <3>2. ~Dropping(t) /\ thread[t].at # "idle"
        BY <3>1 DEF Dropping
    <3>3. "ready" \in Stages \ {"idle"} /\ "ready" \notin {"release", "detach"}
        BY DEF Stages
    <3>4. QED
        BY <1>2, <2>1, <3>1, <3>2, <3>3
<1>6. CASE Miss(t)
    BY <1>0, <1>3, <1>6 DEF Miss, Dropping, cacheVars, layerVars
<1>7. CASE Record(t)
    BY <1>0, <1>3, <1>7 DEF Record, Dropping, cacheVars, layerVars
<1>8. CASE Acquire(t)
  <2>1. PICK m \in IF pool # {} THEN pool ELSE Fresh :
            thread' = [thread EXCEPT ![t].at = "taken", ![t].module = m]
      BY <1>8 DEF Acquire
  <2>2. m \in Modules
      BY <1>0, <2>1 DEF Fresh, TypeOK
  <2>3. QED
    <3>1. thread[t].at = "acquire" /\ UNCHANGED <<config, victims, layer>>
        BY <1>8 DEF Acquire, layerVars
    <3>2. ~Dropping(t) /\ thread[t].at # "idle"
        BY <3>1 DEF Dropping
    <3>3. "taken" \in Stages \ {"idle"} /\ "taken" \notin {"release", "detach"}
        BY DEF Stages
    <3>4. QED
        BY <1>2, <2>1, <2>2, <3>1, <3>2, <3>3
<1>9. CASE Read(t)
    BY <1>0, <1>3, <1>9 DEF Read, Dropping, cacheVars, layerVars
<1>10. CASE Copy(t)
    BY <1>0, <1>3, <1>10 DEF Copy, Dropping, cacheVars, layerVars
<1>11. CASE Attach(t)
    BY <1>0, <1>3, <1>11 DEF Attach, Dropping, layerVars
<1>12. CASE Insert(t)
  <2> DEFINE inserted == entries \cup {e}
             kept == MostRecent(inserted, Touched(e, inserted))
  <2>1. thread[t].at = "insert" /\ ~Locked /\ UNCHANGED <<config, layer>>
      BY <1>12 DEF Insert, layerVars
  <2>2. CASE Enabled /\ e \notin entries
    <3>1. victims = {} /\ \A u \in Threads : ~Dropping(u)
      <4>1. victims = {}
          BY <2>1, <2>2 DEF Locked
      <4>2. victims # {} <=> \E u \in Threads : Dropping(u)
          BY <1>0, Zenon DEF OneDrop
      <4>3. QED
          BY <4>1, <4>2
    <3>2. /\ victims' = inserted \ kept /\ kept \subseteq inserted
          /\ Step(t, IF inserted = kept THEN "ready" ELSE "release")
        BY <1>12, <2>2 DEF Insert, MostRecent, WithinQuota
    <3> HIDE DEF inserted, kept
    <3>3. CASE inserted = kept
        BY <1>0, <1>3, <2>1, <3>1, <3>2, <3>3 DEF Dropping
    <3>4. CASE inserted # kept
      <4>1. victims' # {} /\ Step(t, "release")
          BY <3>2, <3>4
      <4>2. /\ thread'[t].at = "release"
            /\ \A u \in Threads \ {t} : thread'[u] = thread[u]
        <5>1. /\ thread'[t] = [at |-> "release", expert |-> e, module |-> thread[t].module,
                               awaited |-> thread[t].awaited]
              /\ \A u \in Threads \ {t} : thread'[u] = thread[u]
            BY <1>0, <4>1, StepChanges
        <5>2. QED
            BY <5>1
      <4>3. \A u \in Threads : Dropping(u)' <=> u = t
          BY <3>1, <4>2 DEF Dropping
      <4>4. thread'[Main].at # "idle" => layer'.at \in {"expert", "raised"}
          BY <1>0, <2>1, <4>2 DEF OneDrop
      <4>5. Enabled' /\ layer'.at # "raised"
          BY <1>0, <2>1, <2>2, <3>1 DEF OneDrop, Enabled
      <4>6. QED
          BY <4>1, <4>3, <4>4, <4>5 DEF OneDrop
    <3>5. QED
        BY <3>3, <3>4
  <2>3. CASE ~(Enabled /\ e \notin entries)
    <3>1. Step(t, "ready") /\ UNCHANGED victims
        BY <1>12, <2>3 DEF Insert
    <3>2. QED
        BY <1>0, <1>3, <2>1, <3>1 DEF Dropping
  <2>4. QED
      BY <2>2, <2>3
<1>13. CASE Release(t)
    BY <1>0, <1>3, <1>13 DEF Release, Dropping, layerVars
<1>14. CASE Detach(t)
  <2>1. /\ thread[t].at = "detach" /\ Step(t, "ready") /\ victims' = {} /\ Enabled
        /\ UNCHANGED layer
      BY <1>14 DEF Detach, DetachedVictims, layerVars
  <2>2. /\ thread'[t].at = "ready"
        /\ \A u \in Threads \ {t} : thread'[u] = thread[u]
    <3>1. /\ thread'[t] = [at |-> "ready", expert |-> e, module |-> thread[t].module,
                           awaited |-> thread[t].awaited]
          /\ \A u \in Threads \ {t} : thread'[u] = thread[u]
        BY <1>0, <2>1, StepChanges
    <3>2. QED
        BY <3>1
  <2>3. \A u \in Threads : ~Dropping(u)'
      BY <1>0, <2>1, <2>2, OthersDropNot DEF Dropping
  <2>4. layer'.at # "raised" /\ (thread'[Main].at # "idle" => layer'.at = "expert")
      BY <1>0, <2>1, <2>2 DEF OneDrop
  <2>5. QED
      BY <1>0, <2>1, <2>3, <2>4, DropsEnd
<1>15. QED
    BY <1>4, <1>5, <1>6, <1>7, <1>8, <1>9, <1>10, <1>11, <1>12, <1>13, <1>14 DEF Materialize

\* A worker begins or ends a call, and drops nothing then.
LEMMA DropWorker ==
    ASSUME DropInv, NEW w \in Workers, TakeJob(w) \/ JobDone(w) \/ JobRaises(w)
    PROVE  OneDrop'
<1>0. /\ thread \in [Threads -> Call] /\ OneDrop /\ w \in Threads /\ Main \in Threads
      /\ w # Main
    BY MainAssumption DEF DropInv, Call, TypeInv, TypeOK, Threads
<1>1. PICK c : c.at \in {"idle", "look"} /\ thread' = [thread EXCEPT ![w] = c]
  <2>1. Idle.at = "idle" /\ Looking(Head(jobs)).at = "look"
      BY DEF Idle, Looking
  <2>2. QED
      BY <2>1 DEF TakeJob, JobDone, JobRaises, Settle
<1>2. ~Dropping(w) /\ UNCHANGED <<config, victims, layer>>
    BY DEF TakeJob, JobDone, JobRaises, Dropping, cacheVars
<1>3. \A u \in Threads : thread'[u] = IF u = w THEN c ELSE thread[u]
    BY <1>0, <1>1
<1>4. \A u \in Threads : Dropping(u)' <=> Dropping(u)
    BY <1>1, <1>2, <1>3 DEF Dropping
<1>5. thread'[Main] = thread[Main]
    BY <1>0, <1>3
<1>6. QED
    BY <1>0, <1>2, <1>4, <1>5, DropsKept DEF OneDrop

\* The forward pass gives up, with the engine thread not, or no longer, dropping.
LEMMA AbandonedThreads ==
    ASSUME thread \in [Threads -> Call], Abandon
    PROVE  /\ thread'[Main].at = "idle" /\ layer'.at = "idle"
           /\ \A u \in Threads \ {Main} : thread'[u].at = thread[u].at
                                           /\ thread'[u].module = thread[u].module
<1>1. Idle.at = "idle" /\ layer'.at = "idle" /\ Main \in Threads
    BY DEF Idle, Abandon, NoLayer, Threads
<1>2. \A u \in Threads : thread'[u] = IF u = Main THEN Idle
                                      ELSE [thread[u] EXCEPT !.awaited = FALSE]
    BY DEF Abandon
<1>3. \A u \in Threads : LET c == [thread[u] EXCEPT !.awaited = FALSE]
                          IN c.at = thread[u].at /\ c.module = thread[u].module
    BY DEF Call
<1>4. QED
    BY <1>1, <1>2, <1>3

LEMMA DropForward ==
    ASSUME DropInv,
           \/ \E A \in Batches : StartLayer(A)
           \/ Prefetched \/ PrefetchRaises \/ NextExpert \/ EndLayer
           \/ LoadRaises \/ Compute \/ ComputeRaises \/ DropUsed \/ DropRaises
           \/ Execute \/ UNCHANGED vars
    PROVE  OneDrop'
<1>0. /\ thread \in [Threads -> Call] /\ TypeOK /\ OneDrop /\ Main \in Threads
      /\ Idle.at = "idle"
    BY DEF DropInv, Call, TypeInv, TypeOK, Threads, Idle
<1>1. CASE \/ \E A \in Batches : StartLayer(A)
           \/ Prefetched \/ EndLayer \/ Execute \/ UNCHANGED vars
  <2>1. UNCHANGED <<config, victims, thread>>
      BY <1>1 DEF StartLayer, Prefetched, EndLayer, Execute, vars, cacheVars
  <2>2. /\ thread'[Main].at # "idle" => layer'.at \in {"expert", "raised"}
        /\ layer'.at = "raised" => layer.at = "raised"
    <3>1. CASE UNCHANGED layer
        BY <1>0, <2>1, <3>1 DEF OneDrop
    <3>2. CASE \E A \in Batches : StartLayer(A)
      <4>1. layer.at = "idle" /\ layer'.at \in {"prefetch", "experts"}
          BY <3>2 DEF StartLayer
      <4>2. QED
          BY <1>0, <2>1, <4>1 DEF OneDrop
    <3>3. CASE Prefetched
      <4>1. layer.at = "prefetch" /\ layer'.at = "experts"
          BY <1>0, <3>3 DEF Prefetched, TypeOK
      <4>2. QED
          BY <1>0, <2>1, <4>1 DEF OneDrop
    <3>4. CASE EndLayer
      <4>1. layer.at = "experts" /\ layer'.at = "idle"
          BY <3>4 DEF EndLayer, NoLayer
      <4>2. QED
          BY <1>0, <2>1, <4>1 DEF OneDrop
    <3>5. QED
        BY <1>1, <3>1, <3>2, <3>3, <3>4 DEF Execute, vars, layerVars
  <2>3. \A u \in Threads : Dropping(u)' <=> Dropping(u)
      BY <2>1 DEF Dropping
  <2>4. thread'[Main].expert = thread[Main].expert
      BY <2>1
  <2>5. QED
      BY <1>0, <2>1, <2>2, <2>3, <2>4, DropsKept
<1>2. ASSUME Abandon, ~Dropping(Main), UNCHANGED <<config, victims>>
      PROVE  OneDrop'
  <2>1. /\ thread'[Main].at = "idle" /\ layer'.at = "idle"
        /\ \A u \in Threads \ {Main} : thread'[u].at = thread[u].at
      BY <1>0, <1>2, AbandonedThreads
  <2>2. \A u \in Threads : Dropping(u)' <=> Dropping(u)
      BY <1>2, <2>1 DEF Dropping
  <2>3. QED
      BY <1>0, <1>2, <2>1, <2>2, DropsKept
<1>3. CASE PrefetchRaises
    BY <1>0, <1>2, <1>3 DEF PrefetchRaises, OneDrop, Dropping, cacheVars
<1>4. CASE LoadRaises
    BY <1>2, <1>4 DEF LoadRaises, Dropping, cacheVars
<1>5. CASE NextExpert
  <2>1. PICK e \in layer.todo : thread' = [thread EXCEPT ![Main] = Looking(Job(e))]
      BY <1>5 DEF NextExpert
  <2>2. Looking(Job(e)).at = "look"
      BY DEF Looking
  <2>3. \A u \in Threads : thread'[u] = IF u = Main THEN Looking(Job(e)) ELSE thread[u]
      BY <1>0, <2>1
  <2>4. /\ ~Dropping(Main) /\ UNCHANGED <<config, victims>> /\ layer'.at = "expert"
      BY <1>0, <1>5 DEF NextExpert, OneDrop, Dropping, cacheVars, TypeOK
  <2>5. \A u \in Threads : Dropping(u)' <=> Dropping(u)
      BY <2>2, <2>3, <2>4 DEF Dropping
  <2>6. QED
      BY <1>0, <2>4, <2>5, DropsKept
<1>6. ASSUME Used, ~Dropping(Main), UNCHANGED <<config, victims>>
      PROVE  OneDrop'
  <2>1. \A u \in Threads : thread'[u] = IF u = Main THEN Idle ELSE thread[u]
      BY <1>0, <1>6 DEF Used
  <2>2. \A u \in Threads : Dropping(u)' <=> Dropping(u)
      BY <1>0, <1>6, <2>1 DEF Dropping
  <2>3. thread'[Main].at = "idle" /\ layer'.at = "experts"
      BY <1>0, <1>6, <2>1 DEF Used, TypeOK
  <2>4. QED
      BY <1>0, <1>6, <2>2, <2>3, DropsKept
<1>7. ASSUME NEW outcome \in {"expert", "raised"}, Evict(outcome), ~Enabled,
             thread[Main].at = "ready", UNCHANGED config
      PROVE  OneDrop'
  <2>1. Step(Main, "release") /\ "release" \in Stages /\ layer'.at = outcome
      BY <1>0, <1>7 DEF Evict, Stages, TypeOK
  <2>2. /\ thread'[Main].at = "release" /\ thread'[Main].expert = thread[Main].expert
        /\ \A u \in Threads \ {Main} : thread'[u] = thread[u]
    <3>1. /\ thread'[Main] = [at |-> "release", expert |-> thread[Main].expert,
                              module |-> thread[Main].module,
                              awaited |-> thread[Main].awaited]
          /\ \A u \in Threads \ {Main} : thread'[u] = thread[u]
        BY <1>0, <2>1, StepChanges
    <3>2. QED
        BY <3>1
  <2>3. \A u \in Threads : ~Dropping(u)
      BY <1>0, <1>7 DEF OneDrop, Dropping
  <2>4. \A u \in Threads : Dropping(u)' <=> u = Main
      BY <2>2, <2>3 DEF Dropping
  <2>5. victims' = {thread'[Main].expert} /\ ~Enabled'
      BY <1>7, <2>2 DEF Evict, Enabled
  <2>6. QED
      BY <1>0, <1>7, <2>1, <2>4, <2>5 DEF OneDrop
<1>8. CASE Compute
  <2>1. thread[Main].at = "ready" /\ UNCHANGED config /\ ~Dropping(Main)
      BY <1>8 DEF Compute, Dropping
  <2>2. CASE Enabled
      BY <1>6, <1>8, <2>1, <2>2 DEF Compute
  <2>3. CASE ~Enabled
      BY <1>7, <1>8, <2>1, <2>3 DEF Compute
  <2>4. QED
      BY <2>2, <2>3
<1>9. CASE ComputeRaises
  <2>1. thread[Main].at = "ready" /\ UNCHANGED config /\ ~Dropping(Main)
      BY <1>9 DEF ComputeRaises, Dropping
  <2>2. CASE Enabled
      BY <1>2, <1>9, <2>1, <2>2 DEF ComputeRaises
  <2>3. CASE ~Enabled
      BY <1>7, <1>9, <2>1, <2>3 DEF ComputeRaises
  <2>4. QED
      BY <2>2, <2>3
<1>10. CASE DropUsed
  <2>1. /\ Dropping(Main) /\ victims' = {} /\ Used
      BY <1>10 DEF DropUsed, Dropping, DetachedVictims
  <2>2. \A u \in Threads : thread'[u] = IF u = Main THEN Idle ELSE thread[u]
      BY <1>0, <2>1 DEF Used
  <2>3. \A u \in Threads : ~Dropping(u)'
      BY <1>0, <2>1, <2>2, OthersDropNot DEF Dropping
  <2>4. thread'[Main].at = "idle" /\ layer'.at = "experts"
      BY <1>0, <2>1, <2>2 DEF Used, TypeOK
  <2>5. QED
      BY <1>0, <2>1, <2>3, <2>4, DropsEnd
<1>11. CASE DropRaises
  <2>1. /\ Dropping(Main) /\ victims' = {} /\ Abandon
      BY <1>11 DEF DropRaises, Dropping, DetachedVictims
  <2>2. /\ thread'[Main].at = "idle" /\ layer'.at = "idle"
        /\ \A u \in Threads \ {Main} : thread'[u].at = thread[u].at
      BY <1>0, <2>1, AbandonedThreads
  <2>3. \A u \in Threads : ~Dropping(u)'
      BY <1>0, <2>1, <2>2, OthersDropNot DEF Dropping
  <2>4. QED
      BY <1>0, <2>1, <2>2, <2>3, DropsEnd
<1>12. QED
    BY <1>1, <1>3, <1>4, <1>5, <1>8, <1>9, <1>10, <1>11

LEMMA DropStep == DropInv /\ [Next]_vars => DropInv'
<1> SUFFICES ASSUME DropInv, [Next]_vars PROVE DropInv'
    OBVIOUS
<1>1. TypeInv'
    BY TypeStep DEF DropInv
<1>2. OneDrop'
    BY DropMaterialize, DropWorker, DropForward DEF Next, WorkerStep, ForwardStep, Threads
<1>3. QED
    BY <1>1, <1>2 DEF DropInv

LEMMA DropInit == Init => DropInv
<1>1. Init => OneDrop
    BY DEF Init, OneDrop, Dropping, Idle, NoLayer, Threads
<1>2. QED
    BY <1>1, TypeInit DEF DropInv

-----------------------------------------------------------------------------
(* Ownership of modules *)

OwnerInv == DropInv /\ SoleOwner

\* No thread takes a module, or another one, or begins to fill it.
NoNewTaking ==
    \A t \in Threads : thread'[t].at \in {"taken", "read", "copy", "attach"} =>
        /\ Taking(t) /\ thread'[t].module = thread[t].module
        /\ thread'[t].at = "taken" \/ Filling(t)

LEMMA OwnersKept ==
    ASSUME SoleOwner, NoNewTaking, UNCHANGED <<config, attached, pool>>, Leaving \subseteq Leaving'
    PROVE  SoleOwner'
<1>1. ASSUME NEW t \in Threads, Taking(t)'
      PROVE  /\ Taking(t) /\ thread'[t].module = thread[t].module
             /\ Filling(t)' => Filling(t)
    BY <1>1 DEF NoNewTaking, Taking, Filling
<1>2. Enabled' = Enabled
    BY DEF Enabled
<1>3. QED
    BY <1>1, <1>2 DEF SoleOwner

\* What is leaving.
LEMMA LeavingIs ==
    ASSUME OneDrop
    PROVE  /\ \A t \in Threads : thread[t].at = "detach" => Leaving = victims
           /\ \A t \in Threads : thread[t].at = "release" => Leaving = {}
           /\ Leaving \subseteq victims
BY DEF OneDrop, Dropping, Leaving

LEMMA LeavingKept ==
    ASSUME UNCHANGED victims,
           \A t \in Threads : thread[t].at = "detach" => thread'[t].at = "detach"
    PROVE  Leaving \subseteq Leaving'
BY DEF Leaving

\* What is released goes to the arena, or to nobody, and is leaving.
LEMMA OwnersRelease ==
    ASSUME OwnerInv, NEW t \in Threads, Release(t)
    PROVE  SoleOwner'
<1>0. /\ thread \in [Threads -> Call] /\ TypeOK /\ Loading /\ OneDrop /\ SoleOwner
      /\ "detach" \in Stages
    BY DEF OwnerInv, DropInv, TypeInv, TypeOK, Call, Stages
<1>1. /\ thread[t].at = "release" /\ Step(t, "detach") /\ UNCHANGED <<config, attached, victims>>
      /\ pool' \subseteq pool \cup ({attached[e] : e \in victims} \ {None})
    BY <1>0, ReleasedTypes DEF Release
<1>2. /\ thread'[t] = [at |-> "detach", expert |-> thread[t].expert,
                       module |-> thread[t].module, awaited |-> thread[t].awaited]
      /\ \A u \in Threads \ {t} : thread'[u] = thread[u]
    BY <1>0, <1>1, StepChanges
<1>3. Leaving = {} /\ Leaving' = victims
  <2>1. thread'[t].at = "detach"
      BY <1>2
  <2>2. QED
      BY <1>0, <1>1, <2>1, LeavingIs DEF Leaving
<1>4. None \notin pool'
    BY <1>0, <1>1, NoneAssumption DEF TypeOK
<1>5. \A e, f \in Experts \ Leaving' :
          attached'[e] # None /\ attached'[e] = attached'[f] => e = f
    BY <1>0, <1>1, <1>3 DEF SoleOwner
<1>6. \A e \in Experts \ Leaving' : attached'[e] \notin pool'
  <2> TAKE e \in Experts \ Leaving'
  <2>1. e \notin victims /\ attached[e] \notin pool
      BY <1>0, <1>3 DEF SoleOwner
  <2>2. \A f \in victims : attached[f] # None => attached[f] # attached[e]
      BY <1>0, <1>3, <2>1 DEF SoleOwner, TypeOK
  <2>3. QED
      BY <1>1, <2>1, <2>2
<1>7. ASSUME NEW u \in Threads, Taking(u)'
      PROVE  /\ Taking(u) /\ thread'[u] = thread[u]
             /\ thread[u].module \in Modules /\ thread[u].module \notin pool'
             /\ \A e \in Experts : attached'[e] # thread[u].module
  <2>1. u # t
      BY <1>2, <1>7 DEF Taking
  <2>2. Taking(u) /\ thread'[u] = thread[u]
      BY <1>2, <1>7, <2>1 DEF Taking
  <2>3. thread[u].module \in Modules
      BY <1>0, <2>2 DEF Loading
  <2>4. thread[u].module \notin pool /\ \A e \in Experts : attached[e] # thread[u].module
      BY <1>0, <1>3, <2>2 DEF SoleOwner
  <2>5. \A e \in victims : attached[e] # thread[u].module
      BY <1>0, <2>4 DEF TypeOK
  <2>6. QED
      BY <1>1, <2>2, <2>3, <2>4, <2>5
<1>8. \A u, v \in Threads : Taking(u) /\ Taking(v) /\ u # v => thread[u].module # thread[v].module
    BY <1>0 DEF SoleOwner
<1>9. QED
    BY <1>5, <1>6, <1>7, <1>8 DEF SoleOwner

\* Who is detached has left.
LEMMA OwnersDetach ==
    ASSUME OwnerInv, DetachedVictims, NoNewTaking, NEW t \in Threads, thread[t].at = "detach",
           UNCHANGED <<config, pool>>
    PROVE  SoleOwner'
<1>0. TypeOK /\ Loading /\ OneDrop /\ SoleOwner
    BY DEF OwnerInv, DropInv, TypeInv
<1>1. Leaving = victims /\ Leaving' = {}
  <2>1. victims' = {}
      BY DEF DetachedVictims
  <2>2. QED
      BY <1>0, <2>1, LeavingIs DEF Leaving
<1>2. \A e \in Experts : attached'[e] = IF e \in victims THEN None ELSE attached[e]
    BY DEF DetachedVictims
<1>3. \A e, f \in Experts : attached'[e] # None /\ attached'[e] = attached'[f] => e = f
    BY <1>0, <1>1, <1>2 DEF SoleOwner
<1>4. \A e \in Experts : attached'[e] \notin pool'
  <2>1. None \notin pool
      BY <1>0, NoneAssumption DEF TypeOK
  <2>2. QED
      BY <1>0, <1>1, <1>2, <2>1 DEF SoleOwner
<1>5. ASSUME NEW u \in Threads, Taking(u)'
      PROVE  /\ Taking(u) /\ thread'[u].module = thread[u].module
             /\ thread[u].module \notin pool
             /\ \A e \in Experts : attached'[e] # thread[u].module
  <2>1. Taking(u) /\ thread'[u].module = thread[u].module
      BY <1>5 DEF NoNewTaking, Taking
  <2>2. thread[u].module # None
      BY <1>0, <2>1, NoneAssumption DEF Loading
  <2>3. QED
      BY <1>0, <1>1, <1>2, <2>1, <2>2 DEF SoleOwner
<1>6. \A u, v \in Threads : Taking(u) /\ Taking(v) /\ u # v => thread[u].module # thread[v].module
    BY <1>0 DEF SoleOwner
<1>7. QED
    BY <1>3, <1>4, <1>5, <1>6 DEF SoleOwner

LEMMA MaterializeOwners ==
    ASSUME OwnerInv, NEW t \in Threads, Materialize(t)
    PROVE  SoleOwner'
<1> DEFINE e == thread[t].expert
<1>0. /\ thread \in [Threads -> Call] /\ TypeOK /\ Loading /\ OneDrop /\ SoleOwner
      /\ {"hit", "miss", "acquire", "taken", "read", "copy", "attach", "insert", "release",
          "detach", "ready"} \subseteq Stages
    BY DEF OwnerInv, DropInv, Call, Stages, TypeInv, TypeOK
<1>1. thread[t].at # "idle" => e \in Experts
    BY <1>0 DEF Loading
<1>2. ASSUME NEW at \in {"hit", "miss", "acquire", "copy", "attach", "insert", "release", "ready"},
             Step(t, at), at \in {"copy", "attach"} => Filling(t)
      PROVE  /\ NoNewTaking
             /\ thread[t].at # "detach" /\ UNCHANGED victims => Leaving \subseteq Leaving'
  <2>1. at \in Stages
      BY <1>0, <1>2
  <2>2. /\ thread'[t] = [at |-> at, expert |-> e,
                         module |-> thread[t].module, awaited |-> thread[t].awaited]
        /\ \A u \in Threads \ {t} : thread'[u] = thread[u]
      BY <1>0, <1>2, <2>1, StepChanges
  <2>3. NoNewTaking
      BY <1>2, <2>2 DEF NoNewTaking, Taking, Filling
  <2>4. thread[t].at # "detach" =>
            \A u \in Threads : thread[u].at = "detach" => thread'[u].at = "detach"
      BY <2>2
  <2>5. QED
      BY <2>3, <2>4, LeavingKept
<1>3. CASE Hit(t)
    BY <1>0, <1>2, <1>3, OwnersKept DEF Hit, cacheVars
<1>4. CASE Touch(t)
  <2>1. e \in Experts /\ attached[e] \in Modules \cup {None} /\ thread[t].at = "hit"
      BY <1>0, <1>1, <1>4 DEF Touch, TypeOK
  <2>2. /\ thread'[t] = [at |-> "ready", expert |-> e,
                         module |-> attached[e], awaited |-> thread[t].awaited]
        /\ \A u \in Threads \ {t} : thread'[u] = thread[u]
      BY <1>0, <1>4, <2>1, StageChanges DEF Touch
  <2>3. NoNewTaking
      BY <2>2 DEF NoNewTaking, Taking, Filling
  <2>4. UNCHANGED <<config, attached, pool, victims>>
      BY <1>4 DEF Touch
  <2>5. Leaving \subseteq Leaving'
      BY <2>1, <2>2, <2>4, LeavingKept
  <2>6. QED
      BY <1>0, <2>3, <2>4, <2>5, OwnersKept
<1>5. CASE Miss(t)
    BY <1>0, <1>2, <1>5, OwnersKept DEF Miss, cacheVars
<1>6. CASE Record(t)
  <2>1. UNCHANGED <<config, attached, pool, victims>> /\ ~Locked
      BY <1>6 DEF Record, cacheVars
  <2>2. CASE thread[t].at = "miss" /\ Step(t, "acquire")
      BY <1>0, <1>2, <2>1, <2>2, OwnersKept
  <2>3. CASE thread[t].at = "taken" /\ Step(t, "read")
    <3>1. /\ thread'[t] = [at |-> "read", expert |-> e,
                           module |-> thread[t].module, awaited |-> thread[t].awaited]
          /\ \A u \in Threads \ {t} : thread'[u] = thread[u]
        BY <1>0, <2>3, StepChanges
    <3>2. Leaving' = Leaving
        BY <2>1, <2>3, <3>1 DEF Leaving
    <3>3. Enabled => Leaving = {}
        BY <1>0, <2>1, LeavingIs DEF Locked
    <3>4. ASSUME NEW u \in Threads, Taking(u)'
          PROVE  /\ Taking(u) /\ thread'[u].module = thread[u].module
                 /\ Filling(u)' => u = t \/ Filling(u)
        BY <2>3, <3>1, <3>4 DEF Taking, Filling
    <3>5. Enabled' = Enabled
        BY <2>1 DEF Enabled
    <3>6. QED
        BY <1>0, <2>1, <3>2, <3>3, <3>4, <3>5 DEF SoleOwner
  <2>4. QED
      BY <1>6, <2>2, <2>3 DEF Record
<1>7. CASE Acquire(t)
  <2>1. PICK m \in IF pool # {} THEN pool ELSE Fresh :
            /\ pool' = pool \ {m}
            /\ thread' = [thread EXCEPT ![t].at = "taken", ![t].module = m]
      BY <1>7 DEF Acquire
  <2>2. m \in Modules
      BY <1>0, <2>1 DEF Fresh, TypeOK
  <2>3. /\ thread'[t] = [at |-> "taken", expert |-> e,
                         module |-> m, awaited |-> thread[t].awaited]
        /\ \A u \in Threads \ {t} : thread'[u] = thread[u]
      BY <1>0, <2>1, <2>2, StageChanges
  <2>4. \A f \in Experts : attached[f] = m => f \in Leaving
    <3>1. CASE pool # {}
        BY <1>0, <2>1, <3>1 DEF SoleOwner
    <3>2. CASE pool = {}
        BY <2>1, <2>2, <3>2, NoneAssumption DEF Fresh, Live
    <3>3. QED
        BY <3>1, <3>2
  <2>5. \A u \in Threads \ {t} : Taking(u) => thread[u].module # m
    <3>1. CASE pool # {}
        BY <1>0, <2>1, <3>1 DEF SoleOwner
    <3>2. CASE pool = {}
        BY <2>1, <2>2, <3>2, NoneAssumption DEF Fresh, Live
    <3>3. QED
        BY <3>1, <3>2
  <2>6. pool' = pool \ {m} /\ UNCHANGED <<config, attached, victims>> /\ thread[t].at = "acquire"
      BY <1>7, <2>1 DEF Acquire
  <2>7. Leaving' = Leaving
      BY <2>3, <2>6 DEF Leaving
  <2>8. \A u \in Threads \ {t} : /\ thread'[u] = thread[u] /\ (Taking(u)' <=> Taking(u))
                                 /\ (Filling(u)' <=> Filling(u))
      BY <2>3 DEF Taking, Filling
  <2>9. thread'[t].module = m /\ ~Filling(t)' /\ Enabled' = Enabled
      BY <2>3, <2>6 DEF Filling, Enabled
  <2>10. QED
      BY <1>0, <2>4, <2>5, <2>6, <2>7, <2>8, <2>9 DEF SoleOwner
<1>8. CASE Read(t)
    BY <1>0, <1>2, <1>8, OwnersKept DEF Read, Filling, cacheVars
<1>9. CASE Copy(t)
    BY <1>0, <1>2, <1>9, OwnersKept DEF Copy, Filling, cacheVars
<1>10. CASE Attach(t)
  <2>1. /\ thread[t].at = "attach" /\ Step(t, "insert") /\ UNCHANGED <<config, pool, victims>>
        /\ attached' = [attached EXCEPT ![e] = thread[t].module]
      BY <1>10 DEF Attach
  <2>2. /\ thread'[t] = [at |-> "insert", expert |-> e,
                         module |-> thread[t].module, awaited |-> thread[t].awaited]
        /\ \A u \in Threads \ {t} : thread'[u] = thread[u]
      BY <1>0, <2>1, StepChanges
  <2>3. /\ Taking(t) /\ thread[t].module \in Modules /\ e \in Experts
      BY <1>0, <1>1, <2>1 DEF Loading, Taking
  <2>4. \A f \in Experts : attached'[f] = IF f = e THEN thread[t].module ELSE attached[f]
      BY <1>0, <2>1 DEF TypeOK
  <2>5. Leaving' = Leaving
      BY <2>1, <2>2 DEF Leaving
  <2>6. \A u \in Threads : Taking(u)' => /\ u # t /\ thread'[u] = thread[u] /\ Taking(u)
                                         /\ (Filling(u)' <=> Filling(u))
      BY <2>2 DEF Taking, Filling
  <2>7. /\ thread[t].module \notin pool /\ Enabled' = Enabled
        /\ \A f \in Experts : attached[f] = thread[t].module => f \in Leaving
        /\ \A u \in Threads \ {t} : Taking(u) => thread[u].module # thread[t].module
      BY <1>0, <2>1, <2>3 DEF SoleOwner, Enabled
  <2>8. \A x, f \in Experts \ Leaving' :
            attached'[x] # None /\ attached'[x] = attached'[f] => x = f
      BY <1>0, <2>4, <2>5, <2>7 DEF SoleOwner
  <2>9. \A f \in Experts \ Leaving' : attached'[f] \notin pool'
      BY <1>0, <2>1, <2>4, <2>5, <2>7 DEF SoleOwner
  <2>10. QED
      BY <1>0, <2>1, <2>4, <2>5, <2>6, <2>7, <2>8, <2>9 DEF SoleOwner
<1>11. CASE Insert(t)
  <2>1. /\ thread[t].at = "insert" /\ ~Locked /\ UNCHANGED <<config, attached, pool>>
        /\ Step(t, "ready") \/ Step(t, "release")
        /\ UNCHANGED victims \/ Enabled
      BY <1>11 DEF Insert
  <2>2. NoNewTaking /\ (UNCHANGED victims => Leaving \subseteq Leaving')
      BY <1>2, <2>1
  <2>3. Enabled => Leaving = {}
      BY <1>0, <2>1, LeavingIs DEF Locked
  <2>4. QED
      BY <1>0, <2>1, <2>2, <2>3, OwnersKept
<1>12. CASE Release(t)
    BY <1>12, OwnersRelease
<1>13. CASE Detach(t)
  <2>1. thread[t].at = "detach" /\ Step(t, "ready") /\ DetachedVictims /\ UNCHANGED <<config, pool>>
      BY <1>13 DEF Detach
  <2>2. QED
      BY <1>2, <2>1, OwnersDetach
<1>14. QED
    BY <1>3, <1>4, <1>5, <1>6, <1>7, <1>8, <1>9, <1>10, <1>11, <1>12, <1>13 DEF Materialize

\* Steps outside of materialize begin no load; the engine thread may detach what it
\* has used.
LEMMA OtherOwners ==
    ASSUME OwnerInv,
           \/ \E w \in Workers : TakeJob(w) \/ JobDone(w) \/ JobRaises(w)
           \/ \E A \in Batches : StartLayer(A)
           \/ Prefetched \/ PrefetchRaises \/ NextExpert \/ EndLayer
           \/ LoadRaises \/ Compute \/ ComputeRaises \/ DropUsed \/ DropRaises
           \/ Execute \/ UNCHANGED vars
    PROVE  SoleOwner'
<1>0. /\ thread \in [Threads -> Call] /\ TypeOK /\ Loading /\ OneDrop /\ SoleOwner
      /\ Main \in Threads /\ Workers \subseteq Threads /\ "release" \in Stages
    BY DEF OwnerInv, DropInv, Call, TypeInv, TypeOK, Threads, Stages
<1>1. ASSUME UNCHANGED <<config, attached, pool, victims>>, NoNewTaking,
             \A t \in Threads : thread[t].at = "detach" => thread'[t].at = "detach"
      PROVE  SoleOwner'
    BY <1>0, <1>1, OwnersKept, LeavingKept
<1>2. Abandon => /\ NoNewTaking
                 /\ \A t \in Threads \ {Main} : thread'[t].at = thread[t].at
  <2>1. Abandon => \A t \in Threads : \/ thread'[t].at = "idle"
                                      \/ /\ thread'[t].at = thread[t].at
                                         /\ thread'[t].module = thread[t].module
      BY <1>0, AbandonedThreads
  <2>2. Abandon => NoNewTaking
      BY <2>1 DEF NoNewTaking, Taking, Filling
  <2>3. QED
      BY <1>0, <2>2, AbandonedThreads
<1>3. ASSUME NEW t \in Threads, NEW c, c.at \in {"idle", "look"},
             thread' = [thread EXCEPT ![t] = c]
      PROVE  /\ NoNewTaking
             /\ \A u \in Threads \ {t} : thread'[u].at = thread[u].at
  <2>1. \A u \in Threads : thread'[u] = IF u = t THEN c ELSE thread[u]
      BY <1>0, <1>3
  <2>2. QED
      BY <1>3, <2>1 DEF NoNewTaking, Taking, Filling
<1>4. Idle.at = "idle" /\ \A job : Looking(job).at = "look"
    BY DEF Idle, Looking
<1>5. CASE \E w \in Workers : TakeJob(w) \/ JobDone(w) \/ JobRaises(w)
  <2>1. PICK w \in Workers : TakeJob(w) \/ JobDone(w) \/ JobRaises(w)
      BY <1>5
  <2>2. PICK c : c.at \in {"idle", "look"} /\ thread' = [thread EXCEPT ![w] = c]
      BY <1>4, <2>1 DEF TakeJob, JobDone, JobRaises, Settle
  <2>3. UNCHANGED <<config, attached, pool, victims>> /\ thread[w].at # "detach"
      BY <2>1 DEF TakeJob, JobDone, JobRaises, cacheVars
  <2>4. NoNewTaking /\ \A u \in Threads \ {w} : thread'[u].at = thread[u].at
    <3>1. w \in Threads
        BY <1>0
    <3>2. \A u \in Threads : thread'[u] = IF u = w THEN c ELSE thread[u]
        BY <1>0, <2>2, <3>1
    <3>3. QED
        BY <2>2, <3>2 DEF NoNewTaking, Taking, Filling
  <2>5. QED
      BY <1>0, <1>1, <2>3, <2>4
<1>6. CASE NextExpert
  <2>1. PICK e \in layer.todo : thread' = [thread EXCEPT ![Main] = Looking(Job(e))]
      BY <1>6 DEF NextExpert
  <2>2. /\ UNCHANGED <<config, attached, pool, victims>> /\ thread[Main].at # "detach"
        /\ Looking(Job(e)).at = "look"
      BY <1>0, <1>6 DEF NextExpert, OneDrop, cacheVars, Looking
  <2>3. NoNewTaking /\ \A u \in Threads \ {Main} : thread'[u].at = thread[u].at
    <3>1. \A u \in Threads : thread'[u] = IF u = Main THEN Looking(Job(e)) ELSE thread[u]
        BY <1>0, <2>1
    <3>2. QED
        BY <2>2, <3>1 DEF NoNewTaking, Taking, Filling
  <2>4. QED
      BY <1>0, <1>1, <2>2, <2>3
<1>7. CASE \/ \E A \in Batches : StartLayer(A)
           \/ Prefetched \/ EndLayer \/ Execute \/ UNCHANGED vars
  <2>1. UNCHANGED <<config, attached, pool, victims, thread>>
      BY <1>7 DEF StartLayer, Prefetched, EndLayer, Execute, vars, cacheVars
  <2>2. NoNewTaking
      BY <2>1 DEF NoNewTaking, Taking, Filling
  <2>3. QED
      BY <1>1, <2>1, <2>2
<1>8. CASE PrefetchRaises \/ LoadRaises
  <2>1. Abandon /\ UNCHANGED <<config, attached, pool, victims>> /\ thread[Main].at # "detach"
      BY <1>0, <1>8 DEF PrefetchRaises, LoadRaises, OneDrop, cacheVars
  <2>2. QED
      BY <1>0, <1>1, <1>2, <2>1
<1>9. CASE Compute \/ ComputeRaises
  <2>1. thread[Main].at = "ready" /\ UNCHANGED <<config, attached, pool>>
      BY <1>9 DEF Compute, ComputeRaises
  <2>2. CASE Enabled
    <3>1. Used \/ Abandon
        BY <1>9, <2>2 DEF Compute, ComputeRaises
    <3>2. UNCHANGED victims
        BY <1>9, <2>2 DEF Compute, ComputeRaises
    <3>3. NoNewTaking /\ \A u \in Threads \ {Main} : thread'[u].at = thread[u].at
        BY <1>0, <1>2, <1>3, <1>4, <3>1 DEF Used
    <3>4. QED
        BY <1>0, <1>1, <2>1, <3>2, <3>3
  <2>3. CASE ~Enabled
    <3>1. Step(Main, "release")
        BY <1>9, <2>3 DEF Compute, ComputeRaises, Evict
    <3>2. /\ thread'[Main] = [at |-> "release", expert |-> thread[Main].expert,
                              module |-> thread[Main].module,
                              awaited |-> thread[Main].awaited]
          /\ \A u \in Threads \ {Main} : thread'[u] = thread[u]
        BY <1>0, <3>1, StepChanges
    <3>3. NoNewTaking
        BY <3>2 DEF NoNewTaking, Taking, Filling
    <3>4. Leaving = {}
        BY <1>0, <2>1, <2>3 DEF Leaving, OneDrop, Dropping
    <3>5. QED
        BY <1>0, <2>1, <3>3, <3>4, OwnersKept
  <2>4. QED
      BY <2>2, <2>3
<1>10. CASE DropUsed \/ DropRaises
  <2>1. /\ thread[Main].at = "detach" /\ DetachedVictims /\ UNCHANGED <<config, pool>>
        /\ Used \/ Abandon
      BY <1>10 DEF DropUsed, DropRaises
  <2>2. NoNewTaking
      BY <1>0, <1>2, <1>3, <1>4, <2>1 DEF Used
  <2>3. QED
      BY <1>0, <2>1, <2>2, OwnersDetach
<1>11. QED
    BY <1>5, <1>6, <1>7, <1>8, <1>9, <1>10

LEMMA OwnerStep == OwnerInv /\ [Next]_vars => OwnerInv'
<1> SUFFICES ASSUME OwnerInv, [Next]_vars PROVE OwnerInv'
    OBVIOUS
<1>1. DropInv'
    BY DropStep DEF OwnerInv
<1>2. SoleOwner'
    BY MaterializeOwners, OtherOwners DEF Next, WorkerStep, ForwardStep, Threads
<1>3. QED
    BY <1>1, <1>2 DEF OwnerInv

\* Only an expert that is leaving is attached to a module that somebody else has, and
\* with a cache it keeps its weights until it has left: with any number of materializer
\* threads, any limits, loads that fail, and an arena that does not know the manager's
\* lock.
THEOREM ModulesHaveOneOwner == Spec => []SoleOwner
<1>1. Init => OwnerInv
  <2>1. Init => SoleOwner
      BY DEF Init, SoleOwner, Taking, Idle
  <2>2. QED
      BY <2>1, DropInit DEF OwnerInv
<1>2. OwnerInv => SoleOwner
    BY DEF OwnerInv
<1>3. QED
    BY <1>1, <1>2, OwnerStep, PTL DEF Spec

-----------------------------------------------------------------------------
(* The engine thread alone *)

\* A copy to the module is the next operation of the stream.
Pending(m) == stream # <<>> /\ stream[1].kind = "copy" /\ stream[1].module = m

\* Once the copy that is under way is made, the module holds the expert.
Holds(m, e) == IF Pending(m) THEN stream[1].expert = e ELSE content[m] = e

\* No worker does anything.
NoWorkers == jobs = <<>> /\ \A w \in Workers : thread[w].at = "idle"

\* The stream is a copy, a computation, or a copy and the computation that uses
\* it; a copy finds in the buffer what it was submitted for.
InlineStream ==
    /\ Len(stream) <= 2
    /\ stream # <<>> =>
          /\ stream[1].kind = "copy" => Source(stream[1]) = stream[1].expert
          /\ stream[1].kind = "compute" =>
                Len(stream) = 1 /\ content[stream[1].module] = stream[1].expert
    /\ Len(stream) = 2 =>
          /\ stream[2].kind = "compute"
          /\ stream[2].module = stream[1].module /\ stream[2].expert = stream[1].expert

\* The stream is at most the copy to the module that the engine thread uses.
OnlyItsCopy ==
    /\ Len(stream) <= 1
    /\ stream # <<>> => Pending(thread[Main].module)

\* Nothing is in the stream when a buffer is read into, and what the engine
\* thread is about to use holds its weights.
InlineThread ==
    /\ thread[Main].at \in {"look", "hit", "miss", "acquire", "taken", "read", "copy"} =>
          stream = <<>>
    /\ thread[Main].at = "copy" => staging[Main] = thread[Main].expert
    /\ thread[Main].at \in {"attach", "insert"}
       \/ (thread[Main].at = "ready" /\ thread[Main].module # None)
       \/ (Dropping(Main) /\ Enabled) =>
          OnlyItsCopy /\ Holds(thread[Main].module, thread[Main].expert)

\* An attached module holds its expert.
AttachedHold == \A e \in Experts : attached[e] # None => Holds(attached[e], e)

Inline == NoWorkers /\ InlineStream /\ InlineThread /\ AttachedHold
InlineInv == OwnerInv /\ (~config.prefetch => Inline)

\* A sequence of at most two elements, and what is left of it.
LEMMA ShortSequence ==
    ASSUME NEW S, NEW s \in Seq(S), s # <<>>
    PROVE  /\ Len(s) \in Nat /\ Len(s) >= 1 /\ Head(s) = s[1] /\ s[1] \in S
           /\ Tail(s) \in Seq(S) /\ Len(Tail(s)) = Len(s) - 1
           /\ Len(s) = 1 => Tail(s) = <<>>
           /\ Len(s) = 2 => Tail(s)[1] = s[2]
<1>1. Len(s) \in Nat \ {0} /\ Len(s) \in Nat /\ Len(s) >= 1
    BY EmptySeq
<1>2. Head(s) = s[1] /\ s[1] \in S
    BY <1>1, ElementOfSeq
<1>3. /\ Tail(s) \in Seq(S) /\ Len(Tail(s)) = Len(s) - 1
      /\ \A i \in 1..Len(Tail(s)) : Tail(s)[i] = s[i + 1]
    BY HeadTailProperties
<1>4. ASSUME Len(s) = 1 PROVE Tail(s) = <<>>
  <2>1. Len(Tail(s)) = 0
      BY <1>3, <1>4
  <2>2. \A r \in Seq(S) : Len(r) = 0 => r = <<>>
      BY EmptySeq
  <2>3. QED
      BY <1>3, <2>1, <2>2
<1>5. ASSUME Len(s) = 2 PROVE Tail(s)[1] = s[2]
  <2>1. Len(Tail(s)) = 1
      BY <1>3, <1>5
  <2>2. QED
      BY <1>3, <2>1
<1>6. QED
    BY <1>1, <1>2, <1>3, <1>4, <1>5

LEMMA InlineInit == Init => Inline
<1> SUFFICES ASSUME Init PROVE Inline
    OBVIOUS
<1>1. /\ jobs = <<>> /\ stream = <<>> /\ \A e \in Experts : attached[e] = None
      /\ \A t \in Threads : thread[t] = Idle
    BY DEF Init
<1>2. Idle.at = "idle" /\ Main \in Threads /\ Workers \subseteq Threads
    BY DEF Idle, Threads
<1>3. thread[Main].at = "idle"
    BY <1>1, <1>2
<1>4. NoWorkers
    BY <1>1, <1>2 DEF NoWorkers
<1>5. InlineStream
    BY <1>1 DEF InlineStream
<1>6. InlineThread
    BY <1>3 DEF InlineThread, Dropping
<1>7. AttachedHold
    BY <1>1 DEF AttachedHold
<1>8. QED
    BY <1>4, <1>5, <1>6, <1>7 DEF Inline

\* Steps that leave stream, contents and buffers alone.
LEMMA InlineKept ==
    ASSUME Inline, UNCHANGED <<config, content, stream, staging>>,
           \A e \in Experts : attached'[e] # None =>
                attached'[e] = attached[e] \/ Holds(attached'[e], e),
           NoWorkers', InlineThread'
    PROVE  Inline'
<1>1. InlineStream'
    BY DEF Inline, InlineStream, Source
<1>2. AttachedHold'
    BY DEF Inline, AttachedHold, Holds, Pending
<1>3. QED
    BY <1>1, <1>2 DEF Inline

LEMMA InlineMaterialize ==
    ASSUME OwnerInv, Inline, Materialize(Main)
    PROVE  Inline'
<1> DEFINE e == thread[Main].expert
           m == thread[Main].module
<1>0. /\ thread \in [Threads -> Call] /\ TypeOK /\ Loading /\ SoleOwner
      /\ Main \in Threads /\ Workers = Threads \ {Main}
      /\ {"hit", "miss", "acquire", "taken", "read", "copy", "attach", "insert", "release",
          "detach", "ready"} \subseteq Stages
      /\ NoWorkers /\ InlineStream /\ InlineThread /\ AttachedHold
    BY MainAssumption DEF OwnerInv, DropInv, Call, Stages, TypeInv, TypeOK, Threads, Inline
<1>1. thread[Main].at # "idle" => e \in Experts
    BY <1>0 DEF Loading
<1>2. ASSUME UNCHANGED jobs, \A u \in Threads \ {Main} : thread'[u] = thread[u]
      PROVE  NoWorkers'
    BY <1>0, <1>2 DEF NoWorkers
<1>12. ASSUME NEW at \in {"hit", "miss", "acquire", "read"}, Step(Main, at), stream = <<>>,
              UNCHANGED <<config, attached, content, stream, staging, jobs>>
       PROVE  Inline'
  <2>1. /\ thread'[Main] = [at |-> at, expert |-> e, module |-> m,
                            awaited |-> thread[Main].awaited]
        /\ \A u \in Threads \ {Main} : thread'[u] = thread[u]
      BY <1>0, <1>12, StepChanges
  <2>2. thread'[Main].at = at
      BY <2>1
  <2>3. InlineThread'
      BY <1>12, <2>2 DEF InlineThread, Dropping
  <2>4. QED
      BY <1>2, <1>12, <2>1, <2>3, InlineKept
<1>3. CASE Hit(Main) \/ Miss(Main) \/ Record(Main)
    BY <1>0, <1>3, <1>12
    DEF Hit, Miss, Record, InlineThread, cacheVars, deviceVars, layerVars
<1>4. CASE Touch(Main)
  <2>1. /\ thread[Main].at = "hit"
        /\ thread' = [thread EXCEPT ![Main].at = "ready", ![Main].module = attached[e]]
        /\ UNCHANGED <<config, attached, content, stream, staging, jobs>>
      BY <1>4 DEF Touch, deviceVars, layerVars
  <2>2. attached[e] \in Modules \cup {None} /\ e \in Experts
      BY <1>0, <1>1, <2>1 DEF TypeOK
  <2>3. /\ thread'[Main] = [at |-> "ready", expert |-> e, module |-> attached[e],
                            awaited |-> thread[Main].awaited]
        /\ \A u \in Threads \ {Main} : thread'[u] = thread[u]
      BY <1>0, <2>1, <2>2, StageChanges
  <2>4. InlineThread'
      BY <1>0, <2>1, <2>2, <2>3
      DEF InlineThread, OnlyItsCopy, AttachedHold, Holds, Pending, Dropping
  <2>5. QED
      BY <1>2, <2>1, <2>3, <2>4, InlineKept
<1>5. CASE Acquire(Main)
  <2>1. PICK n \in IF pool # {} THEN pool ELSE Fresh :
            thread' = [thread EXCEPT ![Main].at = "taken", ![Main].module = n]
      BY <1>5 DEF Acquire
  <2>2. /\ n \in Modules /\ thread[Main].at = "acquire"
        /\ UNCHANGED <<config, attached, content, stream, staging, jobs>>
      BY <1>0, <1>5, <2>1 DEF Acquire, Fresh, TypeOK, deviceVars, layerVars
  <2>3. /\ thread'[Main] = [at |-> "taken", expert |-> e, module |-> n,
                            awaited |-> thread[Main].awaited]
        /\ \A u \in Threads \ {Main} : thread'[u] = thread[u]
      BY <1>0, <2>1, <2>2, StageChanges
  <2>4. InlineThread'
      BY <1>0, <2>2, <2>3 DEF InlineThread, Dropping
  <2>5. QED
      BY <1>2, <2>2, <2>3, <2>4, InlineKept
<1>6. CASE Read(Main)
  <2>1. /\ thread[Main].at = "read" /\ Step(Main, "copy") /\ stream = <<>>
        /\ staging' = [staging EXCEPT ![Main] = e]
        /\ UNCHANGED <<config, attached, content, stream, jobs>>
      BY <1>0, <1>6 DEF Read, InlineThread, cacheVars, deviceVars, layerVars
  <2>2. /\ thread'[Main] = [at |-> "copy", expert |-> e, module |-> m,
                            awaited |-> thread[Main].awaited]
        /\ \A u \in Threads \ {Main} : thread'[u] = thread[u]
      BY <1>0, <2>1, StepChanges
  <2>3. staging'[Main] = e
      BY <1>0, <2>1 DEF TypeOK
  <2>4. InlineThread'
      BY <2>1, <2>2, <2>3 DEF InlineThread, Dropping
  <2>5. InlineStream' /\ AttachedHold'
      BY <1>0, <2>1 DEF InlineStream, AttachedHold, Holds, Pending
  <2>6. QED
      BY <1>2, <2>1, <2>2, <2>4, <2>5 DEF Inline
<1>7. CASE Copy(Main)
  <2> DEFINE op == [kind |-> "copy", module |-> m, expert |-> staging[Main], by |-> Main]
  <2>1. /\ thread[Main].at = "copy" /\ Step(Main, "attach") /\ stream = <<>>
        /\ stream' = Append(stream, op) /\ staging[Main] = e
        /\ staging' = IF config.copies = "captured" THEN [staging EXCEPT ![Main] = None]
                      ELSE staging
        /\ UNCHANGED <<config, attached, content, jobs>>
      BY <1>0, <1>7 DEF Copy, InlineThread, cacheVars, layerVars
  <2>2. /\ thread'[Main] = [at |-> "attach", expert |-> e, module |-> m,
                            awaited |-> thread[Main].awaited]
        /\ \A u \in Threads \ {Main} : thread'[u] = thread[u]
      BY <1>0, <2>1, StepChanges
  <2>3. stream' # <<>> /\ Len(stream') = 1 /\ stream'[1] = op
      BY <2>1
  <2>4. InlineThread'
      BY <2>1, <2>2, <2>3 DEF InlineThread, OnlyItsCopy, Holds, Pending
  <2>5. InlineStream'
      BY <2>1, <2>3 DEF InlineStream, Source
  <2>6. AttachedHold'
    <3>1. \A f \in Experts : attached[f] # m
      <4>1. Taking(Main) /\ Leaving = {}
          BY <1>0, <2>1 DEF Taking, Leaving, NoWorkers
      <4>2. QED
          BY <1>0, <4>1 DEF SoleOwner
    <3>2. \A f \in Experts : attached[f] # None => content[attached[f]] = f
        BY <1>0, <2>1 DEF AttachedHold, Holds, Pending
    <3>3. QED
        BY <2>1, <2>3, <3>1, <3>2 DEF AttachedHold, Holds, Pending
  <2>7. QED
      BY <1>2, <2>1, <2>2, <2>4, <2>5, <2>6 DEF Inline
<1>8. CASE Attach(Main)
  <2>1. /\ thread[Main].at = "attach" /\ Step(Main, "insert")
        /\ attached' = [attached EXCEPT ![e] = m]
        /\ UNCHANGED <<config, content, stream, staging, jobs>>
      BY <1>8 DEF Attach, deviceVars, layerVars
  <2>2. /\ thread'[Main] = [at |-> "insert", expert |-> e, module |-> m,
                            awaited |-> thread[Main].awaited]
        /\ \A u \in Threads \ {Main} : thread'[u] = thread[u]
      BY <1>0, <2>1, StepChanges
  <2>3. \A f \in Experts : attached'[f] = IF f = e THEN m ELSE attached[f]
      BY <1>0, <2>1 DEF TypeOK
  <2>4. OnlyItsCopy /\ Holds(m, e)
      BY <1>0, <2>1 DEF InlineThread
  <2>5. InlineThread'
      BY <2>1, <2>2, <2>4 DEF InlineThread, OnlyItsCopy, Holds, Pending
  <2>6. QED
      BY <1>2, <2>1, <2>2, <2>3, <2>4, <2>5, InlineKept
<1>9. CASE Insert(Main) \/ Release(Main) \/ Detach(Main)
  <2>1. PICK at \in {"release", "detach", "ready"} :
            /\ thread[Main].at \in {"insert", "release", "detach"} /\ Step(Main, at)
            /\ UNCHANGED <<config, content, stream, staging, jobs>>
            /\ at = "ready" => Enabled \/ thread[Main].at = "insert"
      BY <1>9 DEF Insert, Release, Detach, deviceVars, layerVars
  <2>2. /\ thread'[Main] = [at |-> at, expert |-> e, module |-> m,
                            awaited |-> thread[Main].awaited]
        /\ \A u \in Threads \ {Main} : thread'[u] = thread[u]
      BY <1>0, <2>1, StepChanges
  <2>3. \A f \in Experts : attached'[f] # None => attached'[f] = attached[f]
      BY <1>9 DEF Insert, Release, Detach, DetachedVictims
  <2>4. Enabled \/ thread[Main].at = "insert" => OnlyItsCopy /\ Holds(m, e)
      BY <1>0, <2>1 DEF InlineThread, Dropping
  <2>5. thread'[Main].at = at /\ thread'[Main].module = m /\ thread'[Main].expert = e
        /\ Enabled' = Enabled
      BY <2>1, <2>2 DEF Enabled
  <2>6. InlineThread'
      BY <2>1, <2>4, <2>5 DEF InlineThread, OnlyItsCopy, Holds, Pending, Dropping
  <2>7. QED
      BY <1>2, <2>1, <2>2, <2>3, <2>6, InlineKept
<1>10. QED
    BY <1>3, <1>4, <1>5, <1>6, <1>7, <1>8, <1>9 DEF Materialize

\* Steps of the forward pass that leave the device alone.
LEMMA InlineForward ==
    ASSUME OwnerInv, Inline,
           \/ ~config.prefetch /\ \E A \in Batches : StartLayer(A)
           \/ Prefetched \/ PrefetchRaises \/ NextExpert \/ EndLayer
           \/ LoadRaises \/ ComputeRaises \/ DropUsed \/ DropRaises \/ UNCHANGED vars
    PROVE  Inline'
<1>0. /\ thread \in [Threads -> Call] /\ TypeOK /\ Loading
      /\ Main \in Threads /\ Workers = Threads \ {Main}
      /\ NoWorkers /\ InlineStream /\ InlineThread /\ AttachedHold
      /\ Idle.at = "idle" /\ \A job : Looking(job).at = "look"
    BY MainAssumption DEF OwnerInv, DropInv, Call, TypeInv, TypeOK, Threads, Inline, Idle, Looking
<1>1. ASSUME UNCHANGED <<config, attached, content, stream, staging, thread, jobs>>
      PROVE  Inline'
  <2>1. NoWorkers' /\ InlineThread'
      BY <1>0, <1>1 DEF NoWorkers, InlineThread, OnlyItsCopy, Holds, Pending, Dropping, Enabled
  <2>2. QED
      BY <1>0, <1>1, <2>1, InlineKept
<1>2. ASSUME Abandon PROVE NoWorkers' /\ InlineThread'
  <2>1. jobs' = <<>>
      BY <1>0, <1>2 DEF Abandon, NoWorkers
  <2>2. thread'[Main] = Idle
      BY <1>0, <1>2 DEF Abandon
  <2>3. \A w \in Workers : thread'[w].at = thread[w].at
    <3>1. \A w \in Workers : thread'[w] = [thread[w] EXCEPT !.awaited = FALSE]
        BY <1>0, <1>2 DEF Abandon
    <3>2. \A w \in Workers : [thread[w] EXCEPT !.awaited = FALSE].at = thread[w].at
        BY <1>0 DEF Call
    <3>3. QED
        BY <3>1, <3>2
  <2>4. NoWorkers'
      BY <1>0, <2>1, <2>3 DEF NoWorkers
  <2>5. InlineThread'
      BY <1>0, <2>2 DEF InlineThread, Dropping
  <2>6. QED
      BY <2>4, <2>5
<1>3. CASE NextExpert
  <2>1. PICK e \in layer.todo : thread' = [thread EXCEPT ![Main] = Looking(Job(e))]
      BY <1>3 DEF NextExpert
  <2>2. Looking(Job(e)).at = "look"
      BY DEF Looking
  <2>3. /\ thread'[Main].at = "look" /\ \A w \in Workers : thread'[w] = thread[w]
        /\ stream = <<>> /\ UNCHANGED <<config, attached, content, stream, staging, jobs>>
      BY <1>0, <1>3, <2>1, <2>2 DEF NextExpert, cacheVars, deviceVars
  <2>4. NoWorkers' /\ InlineThread'
      BY <1>0, <2>3 DEF NoWorkers, InlineThread, Dropping
  <2>5. QED
      BY <1>0, <2>3, <2>4, InlineKept
<1>4. CASE ~config.prefetch /\ \E A \in Batches : StartLayer(A)
    BY <1>1, <1>4 DEF StartLayer, cacheVars, deviceVars
<1>5. CASE Prefetched \/ EndLayer \/ UNCHANGED vars
    BY <1>1, <1>5 DEF Prefetched, EndLayer, vars, cacheVars, deviceVars, layerVars
<1>6. CASE PrefetchRaises \/ LoadRaises
  <2>1. Abandon /\ UNCHANGED <<config, attached, content, stream, staging>>
      BY <1>6 DEF PrefetchRaises, LoadRaises, cacheVars, deviceVars
  <2>2. QED
      BY <1>0, <1>2, <2>1, InlineKept
<1>7. CASE ComputeRaises
  <2>1. UNCHANGED <<config, attached, content, stream, staging>>
      BY <1>7 DEF ComputeRaises, deviceVars
  <2>2. CASE Enabled
      BY <1>0, <1>2, <1>7, <2>1, <2>2, InlineKept DEF ComputeRaises
  <2>3. CASE ~Enabled
    <3>1. Step(Main, "release") /\ "release" \in Stages /\ UNCHANGED jobs
        BY <1>7, <2>3 DEF ComputeRaises, Evict, Stages
    <3>2. /\ thread'[Main] = [at |-> "release", expert |-> thread[Main].expert,
                              module |-> thread[Main].module,
                              awaited |-> thread[Main].awaited]
          /\ \A u \in Threads \ {Main} : thread'[u] = thread[u]
        BY <1>0, <3>1, StepChanges
    <3>3. thread'[Main].at = "release" /\ ~Enabled'
        BY <2>1, <2>3, <3>2 DEF Enabled
    <3>4. NoWorkers' /\ InlineThread'
        BY <1>0, <3>1, <3>2, <3>3 DEF NoWorkers, InlineThread
    <3>5. QED
        BY <1>0, <2>1, <3>4, InlineKept
  <2>4. QED
      BY <2>2, <2>3
<1>8. CASE DropUsed \/ DropRaises
  <2>1. /\ UNCHANGED <<config, content, stream, staging>>
        /\ Abandon \/ (UNCHANGED jobs /\ thread' = [thread EXCEPT ![Main] = Idle])
      BY <1>8 DEF DropUsed, DropRaises, Used, deviceVars
  <2>2. \A e \in Experts : attached'[e] # None => attached'[e] = attached[e]
      BY <1>8 DEF DropUsed, DropRaises, DetachedVictims
  <2>3. NoWorkers' /\ InlineThread'
    <3>1. CASE Abandon
        BY <1>2, <3>1
    <3>2. CASE UNCHANGED jobs /\ thread' = [thread EXCEPT ![Main] = Idle]
      <4>1. thread'[Main] = Idle /\ \A w \in Workers : thread'[w] = thread[w]
          BY <1>0, <3>2
      <4>2. QED
          BY <1>0, <3>2, <4>1 DEF NoWorkers, InlineThread, Dropping
    <3>3. QED
        BY <2>1, <3>1, <3>2
  <2>4. QED
      BY <1>0, <2>1, <2>2, <2>3, InlineKept
<1>9. QED
    BY <1>3, <1>4, <1>5, <1>6, <1>7, <1>8

\* A computation is submitted behind the copy to its module, or alone.
LEMMA InlineCompute ==
    ASSUME OwnerInv, Inline, Compute
    PROVE  Inline'
<1> DEFINE e == thread[Main].expert
           m == thread[Main].module
           op == [kind |-> "compute", module |-> m, expert |-> e, by |-> Main]
<1>0. /\ thread \in [Threads -> Call] /\ TypeOK
      /\ Main \in Threads /\ Workers = Threads \ {Main}
      /\ NoWorkers /\ InlineStream /\ InlineThread /\ AttachedHold
      /\ Idle.at = "idle"
    BY MainAssumption DEF OwnerInv, DropInv, Call, TypeInv, TypeOK, Threads, Inline, Idle
<1>1. /\ thread[Main].at = "ready" /\ m # None /\ stream' = Append(stream, op)
      /\ UNCHANGED <<config, attached, content, staging, jobs>>
    BY DEF Compute
<1>2. OnlyItsCopy /\ Holds(m, e)
    BY <1>0, <1>1 DEF InlineThread
<1>3. stream \in Seq([kind : {"copy", "compute"}, module : Modules,
                      expert : Experts, by : Threads])
    BY <1>0 DEF TypeOK
<1>4. \A f \in Experts : attached'[f] # None => attached'[f] = attached[f]
    BY <1>1
<1>5. /\ Len(stream') = Len(stream) + 1 /\ stream'[Len(stream')] = op
      /\ stream' # <<>>
      /\ stream # <<>> => stream'[1] = stream[1]
    BY <1>1, <1>3
<1>6. stream = <<>> \/ (Len(stream) = 1 /\ Pending(m) /\ stream[1].expert = e)
  <2>1. Len(stream) <= 1 /\ (stream # <<>> => Pending(m))
      BY <1>2 DEF OnlyItsCopy
  <2>2. ASSUME stream # <<>> PROVE Len(stream) = 1
    <3>1. Len(stream) \in Nat \ {0}
        BY <1>3, <2>2, EmptySeq
    <3> DEFINE n == Len(stream)
    <3>2. n \in Nat \ {0} /\ n <= 1
        BY <2>1, <3>1
    <3> HIDE DEF n
    <3>3. n = 1
        BY <3>2
    <3>4. QED
        BY <3>3 DEF n
  <2>3. QED
      BY <1>2, <2>1, <2>2 DEF Holds
<1>8. /\ thread'[Main].at = "idle" \/ (thread'[Main].at = "release" /\ ~Enabled')
      /\ \A w \in Workers : thread'[w] = thread[w]
  <2>1. CASE Enabled
      BY <1>0, <2>1 DEF Compute, Used
  <2>2. CASE ~Enabled
    <3>1. Step(Main, "release") /\ "release" \in Stages
        BY <2>2 DEF Compute, Evict, Stages
    <3>2. /\ thread'[Main] = [at |-> "release", expert |-> e, module |-> m,
                              awaited |-> thread[Main].awaited]
          /\ \A u \in Threads \ {Main} : thread'[u] = thread[u]
        BY <1>0, <3>1, StepChanges
    <3>3. QED
        BY <1>0, <1>1, <2>2, <3>2 DEF Enabled
  <2>3. QED
      BY <2>1, <2>2
<1>7. NoWorkers'
    BY <1>0, <1>1, <1>8 DEF NoWorkers
<1>9. InlineThread'
    BY <1>0, <1>8 DEF InlineThread, Dropping
<1>10. CASE stream = <<>>
  <2>1. stream'[1] = op /\ Len(stream') = 1
      BY <1>5, <1>10
  <2>2. content[m] = e
      BY <1>2, <1>10 DEF Holds, Pending
  <2>3. InlineStream'
      BY <1>1, <2>1, <2>2 DEF InlineStream
  <2>4. AttachedHold'
      BY <1>0, <1>1, <1>4, <1>10, <2>1 DEF AttachedHold, Holds, Pending
  <2>5. QED
      BY <1>7, <1>9, <2>3, <2>4 DEF Inline
<1>11. CASE stream # <<>>
  <2>1. /\ stream'[1] = stream[1] /\ stream'[2] = op /\ Len(stream') = 2
        /\ stream[1].kind = "copy" /\ stream[1].module = m /\ stream[1].expert = e
      BY <1>5, <1>6, <1>11 DEF Pending
  <2>2. InlineStream'
      BY <1>0, <1>1, <1>11, <2>1 DEF InlineStream, Source
  <2>3. AttachedHold'
      BY <1>0, <1>1, <1>4, <1>5, <1>11, <2>1 DEF AttachedHold, Holds, Pending
  <2>4. QED
      BY <1>7, <1>9, <2>2, <2>3 DEF Inline
<1>12. QED
    BY <1>10, <1>11

\* What the stream executes is what everything else relies on.
LEMMA InlineExecute ==
    ASSUME OwnerInv, Inline, Execute
    PROVE  Inline'
<1> DEFINE op == stream[1]
<1>0. /\ TypeOK /\ Loading
      /\ NoWorkers /\ InlineStream /\ InlineThread /\ AttachedHold
    BY DEF OwnerInv, DropInv, TypeInv, Inline
<1>1. stream \in Seq([kind : {"copy", "compute"}, module : Modules,
                      expert : Experts, by : Threads])
    BY <1>0 DEF TypeOK
<1>2. /\ stream # <<>> /\ stream' = Tail(stream)
      /\ content' = IF op.kind = "copy" THEN [content EXCEPT ![op.module] = Source(op)]
                    ELSE content
      /\ UNCHANGED <<config, attached, staging, thread, jobs>>
  <2>1. stream # <<>> /\ Head(stream) = op
      BY <1>1, ShortSequence DEF Execute
  <2>2. QED
      BY <2>1 DEF Execute, cacheVars, layerVars
<1>3. /\ op \in [kind : {"copy", "compute"}, module : Modules,
                  expert : Experts, by : Threads]
      /\ Len(stream) \in {1, 2} /\ Len(stream') = Len(stream) - 1
      /\ Len(stream) = 2 => stream'[1] = stream[2]
      /\ Len(stream) = 1 => stream' = <<>>
  <2>1. Len(stream) <= 2
      BY <1>0 DEF InlineStream
  <2>2. Len(stream) \in Nat /\ Len(stream) >= 1
      BY <1>1, <1>2, ShortSequence
  <2>3. Len(stream) \in {1, 2}
    <3>1. \A k \in Nat : k <= 2 /\ k >= 1 => k \in {1, 2}
        OBVIOUS
    <3>2. QED
        BY <2>1, <2>2, <3>1
  <2>4. QED
      BY <1>1, <1>2, <2>3, ShortSequence
<1>4. \A n \in Modules :
          content'[n] = IF op.kind = "copy" /\ n = op.module THEN op.expert ELSE content[n]
    BY <1>0, <1>2, <1>3 DEF InlineStream, TypeOK
<1>5. stream' = <<>> \/ stream'[1].kind = "compute"
    BY <1>0, <1>3 DEF InlineStream
<1>6. ASSUME NEW n \in Modules, NEW e \in Experts, Holds(n, e)
      PROVE  content'[n] = e /\ Holds(n, e)'
    BY <1>2, <1>3, <1>4, <1>5, <1>6 DEF Holds, Pending
<1>7. NoWorkers'
    BY <1>0, <1>2 DEF NoWorkers
<1>8. AttachedHold'
    BY <1>0, <1>2, <1>6 DEF AttachedHold, TypeOK
<1>9. InlineStream'
  <2>1. CASE Len(stream) = 1
      BY <1>3, <2>1 DEF InlineStream
  <2>2. CASE Len(stream) = 2
    <3>0. op.kind \in {"copy", "compute"}
        BY <1>3
    <3>1. /\ op.kind = "copy" /\ stream[2].kind = "compute"
          /\ stream[2].module = op.module /\ stream[2].expert = op.expert
        BY <1>0, <1>2, <2>2, <3>0 DEF InlineStream
    <3>2. content'[stream'[1].module] = stream'[1].expert
        BY <1>3, <1>4, <2>2, <3>1
    <3>3. QED
        BY <1>3, <2>2, <3>1, <3>2 DEF InlineStream
  <2>3. QED
      BY <1>3, <2>1, <2>2
<1>10. InlineThread'
  <2>1. thread[Main].at \notin {"look", "hit", "miss", "acquire", "taken", "read", "copy"}
      BY <1>0, <1>2 DEF InlineThread
  <2>2. ASSUME \/ thread[Main].at \in {"attach", "insert"}
               \/ thread[Main].at = "ready" /\ thread[Main].module # None
               \/ Dropping(Main) /\ Enabled
        PROVE  (OnlyItsCopy /\ Holds(thread[Main].module, thread[Main].expert))'
    <3>1. OnlyItsCopy /\ Holds(thread[Main].module, thread[Main].expert)
        BY <1>0, <2>2 DEF InlineThread
    <3>2. Len(stream) = 1 /\ op.kind = "copy" /\ op.module = thread[Main].module
          /\ op.expert = thread[Main].expert
        BY <1>2, <1>3, <3>1 DEF OnlyItsCopy, Pending, Holds
    <3>3. stream' = <<>> /\ content'[thread[Main].module] = thread[Main].expert
        BY <1>3, <1>4, <3>2
    <3>4. thread' = thread
        BY <1>2
    <3>5. OnlyItsCopy'
        BY <3>3 DEF OnlyItsCopy
    <3>6. QED
        BY <3>3, <3>4, <3>5 DEF Pending, Holds
  <2>3. QED
      BY <1>2, <2>1, <2>2 DEF InlineThread, Dropping, Enabled
<1>11. QED
    BY <1>7, <1>8, <1>9, <1>10 DEF Inline

LEMMA InlineStep == InlineInv /\ [Next]_vars => InlineInv'
<1> SUFFICES ASSUME InlineInv, [Next]_vars PROVE InlineInv'
    OBVIOUS
<1>1. OwnerInv'
  <2>1. OwnerInv
      BY DEF InlineInv
  <2>2. QED
      BY <2>1, OwnerStep, Zenon
<1>2. UNCHANGED config
    BY ConfigKept
<1>3. ASSUME ~config.prefetch PROVE Inline'
  <2>0. OwnerInv /\ Inline
      BY <1>3 DEF InlineInv
  <2>1. ASSUME NEW w \in Workers PROVE ~WorkerStep(w)
    <3>1. jobs = <<>> /\ thread[w].at = "idle"
        BY <2>0 DEF Inline, NoWorkers
    <3>2. QED
        BY <3>1 DEF WorkerStep, TakeJob, Materialize, Hit, Touch, Miss, Record, Acquire, Read,
           Copy, Attach, Insert, Release, Detach, JobDone, JobRaises
  <2>2. QED
      BY <1>3, <2>0, <2>1, InlineMaterialize, InlineForward, InlineCompute, InlineExecute
      DEF Next, ForwardStep
<1>4. QED
    BY <1>1, <1>2, <1>3 DEF InlineInv

\* Without materializer threads, whatever the limits, the policy, the kind of
\* copies and the failures, an expert is computed with its own weights.
THEOREM EngineThreadComputesRight == Spec => [](~config.prefetch => ComputeUsesOwnWeights)
<1>1. Init => InlineInv
  <2>1. Init => OwnerInv
      BY DropInit DEF Init, OwnerInv, SoleOwner, Taking, Idle
  <2>2. QED
      BY <2>1, InlineInit DEF InlineInv
<1>2. InlineInv => (~config.prefetch => ComputeUsesOwnWeights)
  <2> SUFFICES ASSUME InlineInv, ~config.prefetch, stream # <<>>, Head(stream).kind = "compute"
               PROVE  content[Head(stream).module] = Head(stream).expert
      BY DEF ComputeUsesOwnWeights
  <2>1. Head(stream) = stream[1] /\ InlineStream
      BY DEF InlineInv, Inline, OwnerInv, DropInv, TypeInv, TypeOK
  <2>2. QED
      BY <2>1 DEF InlineStream
<1>3. QED
    BY <1>1, <1>2, InlineStep, PTL DEF Spec

-----------------------------------------------------------------------------
(* The limits of the cache and the arena *)

\* recent orders the experts S by their last use: recent[f] are those of S that
\* were used after f.
Orders(recent, S) ==
    /\ \A f \in S : recent[f] \subseteq S \ {f}
    /\ \A f, g \in S : f = g \/ f \in recent[g] \/ g \in recent[f]
    /\ \A f, g, h \in S : g \in recent[f] /\ h \in recent[g] => h \in recent[f]

\* The experts of K than which fewer than n are more recent.
Latest(n, K, recent) == {f \in K : Cardinality(recent[f] \cap K) < n}

\* Of ordered experts, fewer than n of which are more recent than each that is
\* kept, at most n are kept.
LEMMA FewAreRecent ==
    ASSUME NEW S, IsFiniteSet(S), NEW recent, Orders(recent, S),
           NEW K \in SUBSET S, NEW n \in Nat
    PROVE  Cardinality(Latest(n, K, recent)) <= n
<1> DEFINE kept == Latest(n, K, recent)
           rank == [f \in kept |-> Cardinality(recent[f] \cap K)]
<1>1. ASSUME NEW f \in K
      PROVE  IsFiniteSet(recent[f] \cap K) /\ Cardinality(recent[f] \cap K) \in Nat
  <2>1. recent[f] \cap K \in SUBSET S
      OBVIOUS
  <2>2. QED
      BY <2>1, FS_Subset, FS_CardinalityType
<1>2. ASSUME NEW f \in K, NEW g \in K, g \in recent[f]
      PROVE  Cardinality(recent[g] \cap K) # Cardinality(recent[f] \cap K)
  <2>1. recent[g] \cap K \in SUBSET (recent[f] \cap K)
      BY <1>2 DEF Orders
  <2>2. g \in recent[f] \cap K /\ g \notin recent[g] \cap K
      BY <1>2 DEF Orders
  <2>3. QED
      BY <1>1, <2>1, <2>2, FS_Subset
<1>3. rank \in [kept -> 0..(n - 1)]
  <2>1. ASSUME NEW f \in kept PROVE Cardinality(recent[f] \cap K) \in 0..(n - 1)
    <3>1. Cardinality(recent[f] \cap K) \in Nat /\ Cardinality(recent[f] \cap K) < n
        BY <1>1 DEF Latest
    <3>2. QED
        BY <3>1
  <2> HIDE DEF kept
  <2>2. QED
      BY <2>1
<1>4. ASSUME NEW f \in kept, NEW g \in kept, rank[f] = rank[g] PROVE f = g
    BY <1>2, <1>4 DEF Orders, Latest
<1> HIDE DEF rank, kept
<1>5. rank \in Injection(kept, 0..(n - 1))
    BY <1>3, <1>4 DEF Injection, IsInjective
<1>6. IsFiniteSet(0..(n - 1)) /\ Cardinality(0..(n - 1)) = n
    BY FS_Interval
<1>7. Cardinality(kept) <= n
    BY <1>5, <1>6, FS_Injection
<1>8. QED
    BY <1>7 DEF kept

\* A use makes an expert the most recent one, whether it was there or is new.
LEMMA TouchedIsOrdered ==
    ASSUME NEW T \in SUBSET Experts, NEW e \in Experts, Orders(newer, T)
    PROVE  Orders(Touched(e, T \cup {e}), T \cup {e})
BY DEF Orders, Touched

\* What is left of ordered experts is ordered.
LEMMA RestIsOrdered ==
    ASSUME NEW S \in SUBSET Experts, NEW recent, Orders(recent, S), NEW K \in SUBSET S
    PROVE  Orders([f \in Experts |-> IF f \in K THEN recent[f] \cap K ELSE {}], K)
BY DEF Orders

\* _evict_locked leaves no more than max_entries, and of a layer no more than
\* its quota.
LEMMA MostRecentFits ==
    ASSUME config \in Configs, NEW S \in SUBSET Experts, NEW recent, Orders(recent, S)
    PROVE  /\ MostRecent(S, recent) \subseteq S
           /\ Cardinality(MostRecent(S, recent)) <= config.entries
           /\ config.quota > 0 =>
                \A e \in MostRecent(S, recent) :
                    Cardinality(SameLayer(e, MostRecent(S, recent))) <= config.quota
<1> DEFINE kept == WithinQuota(S, recent)
           left == MostRecent(S, recent)
<1>1. IsFiniteSet(S) /\ config.entries \in Nat /\ config.quota \in Nat
    BY FS_Subset, ExpertAssumption, ConfigAssumption
<1>2. kept \in SUBSET S
    BY DEF WithinQuota
<1>3. left = Latest(config.entries, kept, recent) /\ left \subseteq kept
    BY DEF MostRecent, Latest
<1>4. ASSUME config.quota > 0, NEW e \in left
      PROVE  Cardinality(SameLayer(e, left)) <= config.quota
  <2> DEFINE K == SameLayer(e, S)
             few == Latest(config.quota, K, recent)
  <2>1. K \in SUBSET S /\ few \in SUBSET S
      BY DEF SameLayer, Latest
  <2>2. SameLayer(e, left) \in SUBSET few
    <3>1. ASSUME NEW f \in left, LayerOf[f] = LayerOf[e] PROVE f \in few
      <4>1. f \in kept /\ f \in S
          BY <1>2, <1>3
      <4>2. kept = {g \in S : Cardinality(recent[g] \cap SameLayer(g, S)) < config.quota}
          BY <1>1, <1>4 DEF WithinQuota
      <4>3. SameLayer(f, S) = K /\ f \in K
          BY <3>1, <4>1 DEF SameLayer
      <4>4. QED
          BY <4>1, <4>2, <4>3 DEF Latest
    <3>2. QED
        BY <3>1 DEF SameLayer
  <2>3. Cardinality(few) <= config.quota
      BY <1>1, <2>1, FewAreRecent
  <2>4. IsFiniteSet(few) /\ Cardinality(few) \in Nat
      BY <1>1, <2>1, FS_Subset, FS_CardinalityType
  <2> HIDE DEF few, K
  <2>5. /\ Cardinality(SameLayer(e, left)) <= Cardinality(few)
        /\ Cardinality(SameLayer(e, left)) \in Nat
      BY <2>2, <2>4, FS_Subset, FS_CardinalityType
  <2>6. QED
      BY <1>1, <2>3, <2>4, <2>5
<1>5. Cardinality(left) <= config.entries
    BY <1>1, <1>2, <1>3, FewAreRecent
<1>6. QED
    BY <1>2, <1>3, <1>4, <1>5

\* The arena takes no more than it has slots for.
LEMMA ReleasedFits ==
    ASSUME IsFiniteSet(pool), Cardinality(pool) <= config.slots,
           victims \in SUBSET Experts, ReleasedVictims
    PROVE  IsFiniteSet(pool') /\ Cardinality(pool') <= config.slots
<1> DEFINE modules == {attached[e] : e \in victims}
           given == [e \in victims |-> attached[e]]
<1>1. IsFiniteSet(victims)
    BY FS_Subset, ExpertAssumption
<1>2. given \in Surjection(victims, modules)
    BY DEF Surjection
<1> HIDE DEF given
<1>3. IsFiniteSet(modules)
    BY <1>1, <1>2, FS_Surjection
<1>4. IsFiniteSet(pool \cup (modules \ {None}))
    BY <1>3, FS_Union, FS_Difference
<1>5. pool' \in Released(modules \ {None})
    BY DEF ReleasedVictims
<1> HIDE DEF modules
<1>6. /\ pool' \in SUBSET (pool \cup (modules \ {None}))
      /\ Cardinality(pool') <= config.slots \/ pool' = pool
    BY <1>5 DEF Released
<1>7. QED
    BY <1>4, <1>6, FS_Subset

\* The invariant: the uses of the entries order them, and the arena is finite.
LimitInv ==
    /\ TypeInv /\ WithinLimits
    /\ IsFiniteSet(pool) /\ Orders(newer, entries)

\* Steps that leave the entries alone.
LEMMA EntriesStay ==
    ASSUME LimitInv, UNCHANGED <<config, entries, newer>>,
           \/ UNCHANGED pool
           \/ \E m \in Modules \cup {None} : pool' = pool \ {m}
           \/ ReleasedVictims
    PROVE  (WithinLimits /\ IsFiniteSet(pool) /\ Orders(newer, entries))'
<1>1. config.slots \in Nat
    BY ConfigAssumption DEF LimitInv, TypeInv, TypeOK
<1>2. IsFiniteSet(pool') /\ Cardinality(pool') <= config.slots
  <2>1. ASSUME NEW m, pool' = pool \ {m}
        PROVE  IsFiniteSet(pool') /\ Cardinality(pool') <= config.slots
    <3>1. IsFiniteSet(pool) /\ Cardinality(pool) <= config.slots
        BY DEF LimitInv, WithinLimits
    <3>2. IsFiniteSet(pool \ {m}) /\ Cardinality(pool \ {m}) <= Cardinality(pool)
        BY <3>1, FS_Subset
    <3>3. Cardinality(pool) \in Nat /\ Cardinality(pool \ {m}) \in Nat
        BY <3>1, <3>2, FS_CardinalityType
    <3>4. QED
        BY <1>1, <2>1, <3>1, <3>2, <3>3
  <2>2. QED
      BY <2>1, ReleasedFits DEF LimitInv, WithinLimits, TypeInv, TypeOK
<1>3. QED
    BY <1>2 DEF LimitInv, WithinLimits, SameLayer, Orders

LEMMA InsertLimits ==
    ASSUME LimitInv, NEW t \in Threads, Insert(t)
    PROVE  (WithinLimits /\ IsFiniteSet(pool) /\ Orders(newer, entries))'
<1> DEFINE e == thread[t].expert
           inserted == entries \cup {e}
           recent == Touched(e, inserted)
           kept == MostRecent(inserted, recent)
<1>1. CASE UNCHANGED <<entries, newer>>
    BY <1>1, EntriesStay DEF Insert
<1>2. CASE ~UNCHANGED <<entries, newer>>
  <2>1. e \in Experts /\ entries \in SUBSET Experts /\ config \in Configs
      BY DEF Insert, LimitInv, TypeInv, TypeOK, Loading
  <2>2. /\ entries' = kept
        /\ newer' = [f \in Experts |-> IF f \in kept THEN recent[f] \cap kept ELSE {}]
        /\ pool' = pool /\ config' = config
      BY <1>2 DEF Insert
  <2>3. inserted \in SUBSET Experts
      BY <2>1
  <2>4. Orders(recent, inserted)
      BY <2>1, TouchedIsOrdered DEF LimitInv
  <2>5. IsFiniteSet(pool') /\ Cardinality(pool') <= config.slots
      BY <2>2 DEF LimitInv, WithinLimits
  <2> HIDE DEF inserted, recent
  <2>6. /\ kept \subseteq inserted
        /\ Cardinality(kept) <= config.entries
        /\ config.quota > 0 => \A f \in kept : Cardinality(SameLayer(f, kept)) <= config.quota
      BY <2>1, <2>3, <2>4, MostRecentFits
  <2> HIDE DEF kept
  <2>7. Orders(newer', kept)
      BY <2>2, <2>3, <2>4, <2>6, RestIsOrdered
  <2>8. WithinLimits'
      BY <2>2, <2>5, <2>6 DEF WithinLimits, SameLayer
  <2>9. QED
      BY <2>2, <2>5, <2>7, <2>8 DEF Orders
<1>3. QED
    BY <1>1, <1>2

LEMMA LimitStep == LimitInv /\ [Next]_vars => LimitInv'
<1> SUFFICES ASSUME LimitInv, [Next]_vars PROVE LimitInv'
    OBVIOUS
<1>1. TypeInv'
    BY TypeStep DEF LimitInv
<1>2. ASSUME NEW t \in Threads, Materialize(t)
      PROVE  (WithinLimits /\ IsFiniteSet(pool) /\ Orders(newer, entries))'
  <2>1. CASE \/ Hit(t) \/ Miss(t) \/ Record(t) \/ Read(t) \/ Copy(t) \/ Attach(t)
             \/ Release(t) \/ Detach(t)
      BY <2>1, EntriesStay
      DEF Hit, Miss, Record, Read, Copy, Attach, Release, Detach, cacheVars
  <2>2. CASE Touch(t)
    <3>1. /\ UNCHANGED <<config, entries, pool>>
          /\ thread[t].expert \in entries =>
                newer' = Touched(thread[t].expert, entries \cup {thread[t].expert})
          /\ thread[t].expert \notin entries => newer' = newer
      <4>1. thread[t].expert \in entries => entries \cup {thread[t].expert} = entries
          OBVIOUS
      <4>2. QED
          BY <2>2, <4>1 DEF Touch
    <3>2. Orders(newer', entries)
      <4>1. thread[t].expert \in entries => entries \cup {thread[t].expert} = entries
          OBVIOUS
      <4>2. entries \in SUBSET Experts
          BY DEF LimitInv, TypeInv, TypeOK
      <4>3. QED
          BY <3>1, <4>1, <4>2, TouchedIsOrdered DEF LimitInv
    <3>3. QED
        BY <3>1, <3>2 DEF LimitInv, WithinLimits, SameLayer, Orders
  <2>3. CASE Acquire(t)
    <3>1. PICK m : pool' = pool \ {m} /\ m \in IF pool # {} THEN pool ELSE Fresh
        BY <2>3 DEF Acquire
    <3>2. m \in Modules
        BY <3>1 DEF Fresh, LimitInv, TypeInv, TypeOK
    <3>3. QED
        BY <2>3, <3>1, <3>2, EntriesStay DEF Acquire
  <2>4. CASE Insert(t)
      BY <2>4, InsertLimits
  <2>5. QED
      BY <1>2, <2>1, <2>2, <2>3, <2>4 DEF Materialize
<1>3. CASE Compute \/ ComputeRaises \/ DropUsed \/ DropRaises
    BY <1>1, <1>3, EntriesStay DEF Compute, ComputeRaises, DropUsed, DropRaises, LimitInv
<1>4. CASE \/ \E w \in Workers : TakeJob(w) \/ JobDone(w) \/ JobRaises(w)
           \/ \E A \in Batches : StartLayer(A)
           \/ Prefetched \/ PrefetchRaises \/ NextExpert \/ EndLayer
           \/ LoadRaises \/ Execute \/ UNCHANGED vars
  <2>1. UNCHANGED <<config, cacheVars>>
      BY <1>4 DEF TakeJob, JobDone, JobRaises, StartLayer, Prefetched, PrefetchRaises,
                  NextExpert, EndLayer, LoadRaises, Execute, vars
  <2>2. QED
      BY <1>1, <2>1, EntriesStay DEF cacheVars, LimitInv
<1>5. QED
    BY <1>1, <1>2, <1>3, <1>4 DEF Next, WorkerStep, ForwardStep, LimitInv, Threads

\* The cache keeps to its number of entries and to the quota of each layer, and
\* the arena to its slots, after any insertions, uses and failures, from any
\* number of threads.
THEOREM LimitsAreKept == Spec => []WithinLimits
<1>1. Init => LimitInv
  <2>1. Init => config.entries \in Nat /\ config.slots \in Nat
      BY ConfigAssumption DEF Init
  <2>2. Init => WithinLimits /\ IsFiniteSet(pool) /\ Orders(newer, entries)
      BY <2>1, FS_EmptySet DEF Init, WithinLimits, Orders
  <2>3. QED
      BY <2>2, TypeInit DEF LimitInv
<1>2. LimitInv => WithinLimits
    BY DEF LimitInv
<1>3. QED
    BY <1>1, <1>2, LimitStep, PTL DEF Spec

-----------------------------------------------------------------------------
(* Who loads what *)

\* The threads that run a call.
Using == {t \in Threads : thread[t].at # "idle"}

\* What the forward pass waits for and what the workers have to do are the same: each
\* expert that it waits for is with one job, one worker, or done.
Assigned ==
    /\ settled.raised = {}
    /\ ~config.prefetch => layer.at # "prefetch"
    /\ layer.at = "prefetch" => layer.waits \subseteq layer.todo
    /\ layer.at # "prefetch" => layer.waits = {}
    /\ layer.at = "idle" => layer.todo = {}
    /\ Main \in Using <=> layer.at \in {"expert", "raised"}
    /\ Main \in Using => thread[Main].expert \in layer.todo
    /\ \A w \in Using \ {Main} : thread[w].expert \in layer.waits \ settled.loaded
    /\ \A i \in DOMAIN jobs : jobs[i].expert \in layer.waits \ settled.loaded
    /\ \A v, w \in Using \ {Main} : thread[v].expert = thread[w].expert => v = w
    /\ \A i, j \in DOMAIN jobs : jobs[i].expert = jobs[j].expert => i = j
    /\ \A w \in Using \ {Main}, i \in DOMAIN jobs : thread[w].expert # jobs[i].expert

\* Without a wait for the workers there is nothing that they do.
LEMMA NobodyWorks ==
    ASSUME TypeInv, Assigned, layer.at # "prefetch" \/ layer.waits \subseteq settled.loaded
    PROVE  NoWorkers
<1>1. layer.waits \ settled.loaded = {}
    BY DEF Assigned
<1>2. \A w \in Workers : w \in Threads /\ w # Main
    BY MainAssumption DEF Threads
<1>3. \A w \in Workers : thread[w].at = "idle"
    BY <1>1, <1>2 DEF Assigned, Using
<1>4. jobs \in Seq([expert : Experts, awaited : BOOLEAN])
    BY DEF TypeInv, TypeOK
<1>5. jobs = <<>>
  <2>1. DOMAIN jobs = {}
      BY <1>1 DEF Assigned
  <2>2. QED
      BY <1>4, <2>1
<1>6. QED
    BY <1>3, <1>5 DEF NoWorkers

\* A step of materialize goes on with the call that the thread runs.
LEMMA CallGoesOn ==
    ASSUME TypeInv, NEW t \in Threads, Materialize(t)
    PROVE  /\ UNCHANGED <<config, jobs, layer, settled, failed>>
           /\ thread[t].at # "idle" /\ thread'[t].at # "idle"
           /\ \A u \in Threads : thread'[u].expert = thread[u].expert
           /\ \A u \in Threads \ {t} : thread'[u] = thread[u]
<1>0. /\ thread \in [Threads -> Call]
      /\ \A e \in Experts : attached[e] \in Modules \cup {None}
      /\ pool \subseteq Modules
      /\ thread[t].at # "idle" => thread[t].expert \in Experts
    BY DEF TypeInv, TypeOK, Call, Loading
<1>1. UNCHANGED <<config, jobs, layer, settled, failed>> /\ thread[t].at # "idle"
    BY DEF Materialize, Hit, Touch, Miss, Record, Acquire, Read, Copy, Attach, Insert, Release,
       Detach, layerVars
<1>2. ASSUME NEW at \in Stages \ {"idle"}, Step(t, at)
      PROVE  /\ thread'[t].at # "idle" /\ thread'[t].expert = thread[t].expert
             /\ \A u \in Threads \ {t} : thread'[u] = thread[u]
  <2>1. at \in Stages
      OBVIOUS
  <2>2. /\ thread'[t] = [at |-> at, expert |-> thread[t].expert, module |-> thread[t].module,
                        awaited |-> thread[t].awaited]
        /\ \A u \in Threads \ {t} : thread'[u] = thread[u]
      BY <1>0, <1>2, <2>1, StepChanges
  <2>3. QED
      BY <2>2
<1>3. ASSUME NEW at \in Stages \ {"idle"}, NEW m \in Modules \cup {None},
             thread' = [thread EXCEPT ![t].at = at, ![t].module = m]
      PROVE  /\ thread'[t].at # "idle" /\ thread'[t].expert = thread[t].expert
             /\ \A u \in Threads \ {t} : thread'[u] = thread[u]
  <2>1. at \in Stages
      OBVIOUS
  <2>2. /\ thread'[t] = [at |-> at, expert |-> thread[t].expert, module |-> m,
                        awaited |-> thread[t].awaited]
        /\ \A u \in Threads \ {t} : thread'[u] = thread[u]
      BY <1>0, <1>3, <2>1, StageChanges
  <2>3. QED
      BY <2>2
<1>4. /\ thread'[t].at # "idle" /\ thread'[t].expert = thread[t].expert
      /\ \A u \in Threads \ {t} : thread'[u] = thread[u]
  <2>1. CASE Touch(t)
      BY <1>0, <1>1, <1>3, <2>1 DEF Touch, Stages
  <2>2. CASE Acquire(t)
    <3>1. PICK m \in IF pool # {} THEN pool ELSE Fresh :
              thread' = [thread EXCEPT ![t].at = "taken", ![t].module = m]
        BY <2>2 DEF Acquire
    <3>2. m \in Modules
        BY <1>0, <3>1 DEF Fresh
    <3>3. QED
        BY <1>3, <3>1, <3>2 DEF Stages
  <2>3. CASE \/ Hit(t) \/ Miss(t) \/ Record(t) \/ Read(t) \/ Copy(t) \/ Attach(t)
             \/ Insert(t) \/ Release(t) \/ Detach(t)
    <3>1. PICK at \in Stages \ {"idle"} : Step(t, at)
        BY <2>3
        DEF Hit, Miss, Record, Read, Copy, Attach, Insert, Release, Detach, Stages
    <3>2. QED
        BY <1>2, <3>1
  <2>4. QED
      BY <2>1, <2>2, <2>3 DEF Materialize
<1>5. QED
    BY <1>1, <1>4

LEMMA AssignedMaterialize ==
    ASSUME TypeInv, Assigned, NEW t \in Threads, Materialize(t)
    PROVE  Assigned'
<1>1. /\ UNCHANGED <<config, jobs, layer, settled>>
      /\ thread[t].at # "idle" /\ thread'[t].at # "idle"
      /\ \A u \in Threads : thread'[u].expert = thread[u].expert
      /\ \A u \in Threads \ {t} : thread'[u] = thread[u]
    BY CallGoesOn
<1>2. Using' = Using
    BY <1>1 DEF Using
<1>3. Using \subseteq Threads /\ Main \in Threads
    BY DEF Using, Threads
<1>4. QED
    BY <1>1, <1>2, <1>3 DEF Assigned

\* A job goes to a worker, and from there to what is done.
LEMMA AssignedWorker ==
    ASSUME TypeInv, Supervised, Assigned, NEW w \in Workers,
           TakeJob(w) \/ JobDone(w) \/ JobRaises(w)
    PROVE  Assigned'
<1>0. /\ thread \in [Threads -> Call] /\ w \in Threads /\ w # Main /\ Main \in Threads
      /\ jobs \in Seq([expert : Experts, awaited : BOOLEAN])
      /\ settled \in [loaded : SUBSET Experts, raised : SUBSET Experts]
      /\ Idle.at = "idle"
    BY MainAssumption DEF Call, TypeInv, TypeOK, Threads, Idle
<1>1. CASE TakeJob(w)
  <2>1. /\ jobs # <<>> /\ jobs' = Tail(jobs) /\ thread[w].at = "idle"
        /\ thread' = [thread EXCEPT ![w] = Looking(Head(jobs))]
        /\ UNCHANGED <<config, layer, settled>>
      BY <1>1 DEF TakeJob
  <2>2. /\ Len(jobs) \in Nat /\ Len(jobs) >= 1 /\ Head(jobs) = jobs[1]
        /\ DOMAIN jobs = 1..Len(jobs) /\ DOMAIN jobs' = 1..(Len(jobs) - 1)
        /\ \A i \in DOMAIN jobs' : jobs'[i] = jobs[i + 1] /\ i + 1 \in DOMAIN jobs
    <3>1. Len(jobs) \in Nat /\ Len(jobs) >= 1 /\ Head(jobs) = jobs[1]
        BY <1>0, <2>1, ShortSequence
    <3>2. Tail(jobs) \in Seq([expert : Experts, awaited : BOOLEAN])
          /\ Len(Tail(jobs)) = Len(jobs) - 1
          /\ \A i \in 1..Len(Tail(jobs)) : Tail(jobs)[i] = jobs[i + 1]
        BY <1>0, <2>1, HeadTailProperties
    <3>3. QED
        BY <1>0, <2>1, <3>1, <3>2
  <2>3. /\ thread'[w].at = "look" /\ thread'[w].expert = jobs[1].expert
        /\ \A u \in Threads \ {w} : thread'[u] = thread[u]
      BY <1>0, <2>1, <2>2 DEF Looking
  <2>4. Using' = Using \cup {w} /\ w \notin Using /\ Using \subseteq Threads
      BY <1>0, <2>1, <2>3 DEF Using
  <2>5. 1 \in DOMAIN jobs
      BY <2>2
  <2>6. /\ \A u \in Using' \ {Main} : thread'[u].expert \in layer'.waits \ settled'.loaded
        /\ \A i \in DOMAIN jobs' : jobs'[i].expert \in layer'.waits \ settled'.loaded
      BY <1>0, <2>1, <2>2, <2>3, <2>4, <2>5 DEF Assigned
  <2>7. \A u, v \in Using' \ {Main} : thread'[u].expert = thread'[v].expert => u = v
      BY <1>0, <2>3, <2>4, <2>5 DEF Assigned
  <2>8. \A i, j \in DOMAIN jobs' : jobs'[i].expert = jobs'[j].expert => i = j
    <3>1. ASSUME NEW i \in DOMAIN jobs', NEW j \in DOMAIN jobs', jobs'[i].expert = jobs'[j].expert
          PROVE  i = j
      <4>1. jobs[i + 1].expert = jobs[j + 1].expert /\ i + 1 \in DOMAIN jobs /\ j + 1 \in DOMAIN jobs
          BY <2>2, <3>1
      <4>2. i + 1 = j + 1
          BY <4>1 DEF Assigned
      <4>3. i \in Nat /\ j \in Nat
          BY <2>2
      <4>4. QED
          BY <4>2, <4>3
    <3>2. QED
        BY <3>1
  <2>9. \A u \in Using' \ {Main}, i \in DOMAIN jobs' : thread'[u].expert # jobs'[i].expert
    <3>1. ASSUME NEW u \in Using' \ {Main}, NEW i \in DOMAIN jobs'
          PROVE  thread'[u].expert # jobs'[i].expert
      <4>1. i + 1 \in DOMAIN jobs /\ i + 1 # 1 /\ jobs'[i] = jobs[i + 1]
          BY <2>2
      <4>2. QED
          BY <2>3, <2>4, <2>5, <4>1 DEF Assigned
    <3>2. QED
        BY <3>1
  <2>10. QED
      BY <1>0, <2>1, <2>3, <2>4, <2>6, <2>7, <2>8, <2>9 DEF Assigned
<1>2. CASE JobDone(w)
  <2>1. /\ thread' = [thread EXCEPT ![w] = Idle] /\ thread[w].at = "ready"
        /\ settled' = IF thread[w].awaited
                      THEN [settled EXCEPT !.loaded = @ \cup {thread[w].expert}] ELSE settled
        /\ UNCHANGED <<config, jobs, layer>>
      BY <1>2 DEF JobDone, Settle
  <2>2. /\ settled'.raised = settled.raised
        /\ settled'.loaded \subseteq settled.loaded \cup {thread[w].expert}
      BY <1>0, <2>1
  <2>3. /\ \A u \in Threads \ {w} : thread'[u] = thread[u]
        /\ Using' = Using \ {w} /\ w \in Using \ {Main} /\ Using \subseteq Threads
      BY <1>0, <2>1 DEF Using
  <2>4. QED
      BY <1>0, <2>1, <2>2, <2>3 DEF Assigned
<1>3. CASE JobRaises(w)
  <2>1. failed < config.failures /\ failed \in Nat /\ config.failures \in Nat
      BY <1>3, ConfigAssumption DEF JobRaises, Raise, TypeInv, TypeOK
  <2>2. ~config.prefetch
      BY <2>1 DEF Supervised
  <2>3. thread[w].at = "idle"
    <3>1. NoWorkers
        BY <2>2, NobodyWorks DEF Assigned
    <3>2. QED
        BY <3>1 DEF NoWorkers
  <2>4. QED
      BY <1>3, <2>3 DEF JobRaises
<1>4. QED
    BY <1>1, <1>2, <1>3

\* Giving up leaves nothing to do, as no worker is at work then.
LEMMA AssignedAbandons ==
    ASSUME TypeInv, NoWorkers, Abandon, UNCHANGED config
    PROVE  Assigned' /\ NoWorkers'
<1>0. /\ thread \in [Threads -> Call] /\ Main \in Threads /\ Workers = Threads \ {Main}
      /\ Idle.at = "idle"
    BY MainAssumption DEF TypeInv, TypeOK, Threads, Call, Idle
<1>1. jobs' = <<>> /\ DOMAIN jobs' = {}
    BY DEF Abandon, NoWorkers
<1>2. \A t \in Threads : thread'[t].at = "idle"
  <2>1. thread'[Main] = Idle /\ \A w \in Workers : thread'[w] = [thread[w] EXCEPT !.awaited = FALSE]
      BY <1>0 DEF Abandon
  <2>2. \A w \in Workers : thread'[w].at = thread[w].at
    <3>1. \A w \in Workers : [thread[w] EXCEPT !.awaited = FALSE].at = thread[w].at
        BY <1>0 DEF Call
    <3>2. QED
        BY <2>1, <3>1
  <2>3. QED
      BY <1>0, <2>1, <2>2 DEF NoWorkers
<1>3. Using' = {}
    BY <1>2 DEF Using
<1>4. layer' = NoLayer /\ settled' = Unsettled
    BY DEF Abandon
<1>5. QED
    BY <1>0, <1>1, <1>2, <1>3, <1>4 DEF Assigned, NoWorkers, NoLayer, Unsettled

\* The experts of a layer become jobs, each once.
LEMMA JobsOfLayer ==
    ASSUME TypeInv, Assigned, NEW A \in Batches, StartLayer(A)
    PROVE  Assigned'
<1>0. /\ thread \in [Threads -> Call] /\ Main \in Threads /\ Workers = Threads \ {Main}
      /\ IsFiniteSet(A) /\ Cardinality(A) \in Nat
  <2>1. A \in SUBSET Experts
    <3>1. config.routed \in SUBSET Experts
        BY ConfigAssumption DEF TypeInv, TypeOK
    <3>2. QED
        BY <3>1 DEF Batches
  <2>2. IsFiniteSet(A)
      BY <2>1, ExpertAssumption, FS_Subset
  <2>3. QED
      BY <2>2, FS_CardinalityType, MainAssumption DEF TypeInv, TypeOK, Threads, Call
<1>1. layer.at = "idle" /\ settled' = Unsettled /\ UNCHANGED <<config, thread>>
    BY DEF StartLayer
<1>2. NoWorkers
    BY <1>1, NobodyWorks
<1>3. Using = {} /\ Using' = {}
  <2>1. Main \notin Using
      BY <1>1 DEF Assigned
  <2>2. QED
      BY <1>0, <1>1, <1>2, <2>1 DEF Using, NoWorkers
<1>4. CASE config.prefetch /\ Cardinality(A) > 1
  <2>1. PICK order \in Ascending(A) : jobs' = jobs \o [i \in DOMAIN order |-> Job(order[i])]
      BY <1>4 DEF StartLayer
  <2>2. order \in [1..Cardinality(A) -> A] /\ DOMAIN order = 1..Cardinality(A)
        /\ \A i, j \in 1..Cardinality(A) : i < j => order[i] < order[j]
      BY <2>1 DEF Ascending
  <2>3. jobs' = [i \in 1..Cardinality(A) |-> Job(order[i])]
    <3> DEFINE new == [i \in 1..Cardinality(A) |-> Job(order[i])]
    <3>1. new \in Seq({Job(e) : e \in A})
      <4>1. new \in [1..Cardinality(A) -> {Job(e) : e \in A}]
          BY <2>2
      <4> HIDE DEF new
      <4>2. QED
          BY <1>0, <4>1, FunctionIsSequence
    <3>2. jobs' = <<>> \o new
        BY <1>2, <2>1, <2>2 DEF NoWorkers
    <3> HIDE DEF new
    <3>3. <<>> \o new = new
        BY <3>1, ConcatEmptySeq
    <3>4. QED
        BY <3>2, <3>3 DEF new
  <2>4. /\ DOMAIN jobs' = 1..Cardinality(A)
        /\ \A i \in DOMAIN jobs' : jobs'[i].expert = order[i] /\ order[i] \in A
      BY <2>2, <2>3 DEF Job
  <2>5. \A i, j \in DOMAIN jobs' : jobs'[i].expert = jobs'[j].expert => i = j
    <3>1. \A i \in 1..Cardinality(A) : order[i] \in Nat
      <4>1. A \subseteq Nat
        <5>1. config.routed \in SUBSET Experts
            BY ConfigAssumption DEF TypeInv, TypeOK
        <5>2. QED
            BY <5>1, ExpertAssumption DEF Batches
      <4>2. QED
          BY <2>2, <4>1
    <3>2. QED
        BY <1>0, <2>2, <2>4, <3>1
  <2>6. layer' = [at |-> "prefetch", todo |-> A, waits |-> A]
      BY <1>4 DEF StartLayer
  <2>7. QED
      BY <1>1, <1>3, <1>4, <2>4, <2>5, <2>6 DEF Assigned, Unsettled
<1>5. CASE ~(config.prefetch /\ Cardinality(A) > 1)
  <2>1. layer' = [at |-> "experts", todo |-> A, waits |-> {}] /\ jobs' = jobs
      BY <1>5 DEF StartLayer
  <2>2. DOMAIN jobs' = {}
      BY <1>2, <2>1 DEF NoWorkers
  <2>3. QED
      BY <1>1, <1>3, <2>1, <2>2 DEF Assigned, Unsettled
<1>6. QED
    BY <1>4, <1>5

LEMMA AssignedForward ==
    ASSUME TypeInv, OneDrop, Supervised, Assigned,
           \/ \E A \in Batches : StartLayer(A)
           \/ Prefetched \/ PrefetchRaises \/ NextExpert \/ EndLayer
           \/ LoadRaises \/ Compute \/ ComputeRaises \/ DropUsed \/ DropRaises
           \/ Execute \/ UNCHANGED vars
    PROVE  Assigned'
<1>0. /\ thread \in [Threads -> Call] /\ Main \in Threads
      /\ layer \in [at : {"idle", "prefetch", "experts", "expert", "raised"},
                    todo : SUBSET Experts, waits : SUBSET Experts]
      /\ settled \in [loaded : SUBSET Experts, raised : SUBSET Experts]
      /\ Idle.at = "idle"
    BY DEF TypeInv, TypeOK, Threads, Call, Idle
<1>1. CASE Execute \/ UNCHANGED vars
    BY <1>1 DEF Execute, vars, layerVars, Assigned, Using
<1>2. CASE Prefetched
  <2>1. /\ layer.at = "prefetch" /\ layer.waits \subseteq settled.loaded
        /\ layer' = [layer EXCEPT !.at = "experts", !.waits = {}]
        /\ UNCHANGED <<config, thread, jobs, settled>>
      BY <1>2 DEF Prefetched
  <2>2. NoWorkers
      BY <2>1, NobodyWorks
  <2>3. Using' = Using /\ Using \subseteq {Main} /\ jobs' = <<>> /\ DOMAIN jobs' = {}
    <3>1. Using' = Using
        BY <2>1 DEF Using
    <3>2. Using \subseteq {Main}
        BY <2>2 DEF Using, NoWorkers, Threads
    <3>3. jobs' = <<>>
        BY <2>1, <2>2 DEF NoWorkers
    <3>4. QED
        BY <3>1, <3>2, <3>3
  <2>4. layer'.at = "experts" /\ layer'.waits = {} /\ layer'.todo = layer.todo
      BY <1>0, <2>1
  <2>5. QED
      BY <2>1, <2>3, <2>4 DEF Assigned
<1>3. CASE PrefetchRaises
    BY <1>3 DEF PrefetchRaises, Assigned
<1>4. ASSUME thread[Main].at # "idle", Abandon, UNCHANGED config
      PROVE  Assigned'
  <2>1. layer.at \in {"expert", "raised"}
      BY <1>0, <1>4 DEF Assigned, Using
  <2>2. NoWorkers
      BY <2>1, NobodyWorks
  <2>3. QED
      BY <1>4, <2>2, AssignedAbandons
<1>10. ASSUME NEW outcome \in {"expert", "raised"}, Evict(outcome), thread[Main].at = "ready",
              UNCHANGED <<config, jobs, settled>>
       PROVE  Assigned'
  <2>1. Step(Main, "release") /\ "release" \in Stages
        /\ layer' = [layer EXCEPT !.at = outcome]
      BY <1>10 DEF Evict, Stages
  <2>2. /\ thread'[Main] = [at |-> "release", expert |-> thread[Main].expert,
                            module |-> thread[Main].module, awaited |-> thread[Main].awaited]
        /\ \A u \in Threads \ {Main} : thread'[u] = thread[u]
      BY <1>0, <2>1, StepChanges
  <2>3. /\ thread'[Main].at = "release" /\ thread'[Main].expert = thread[Main].expert
        /\ Using' = Using /\ Main \in Using /\ Using \subseteq Threads
      BY <1>0, <1>10, <2>2 DEF Using
  <2>4. /\ layer'.at = outcome /\ layer'.waits = layer.waits /\ layer'.todo = layer.todo
        /\ layer.at # "prefetch"
      BY <1>0, <2>1, <2>3 DEF Assigned
  <2>5. QED
      BY <1>10, <2>2, <2>3, <2>4 DEF Assigned
<1>5. CASE LoadRaises \/ ComputeRaises \/ DropRaises
  <2>1. CASE Abandon
      BY <1>4, <1>5, <2>1 DEF LoadRaises, ComputeRaises, DropRaises
  <2>2. CASE ~Abandon
      BY <1>5, <1>10, <2>2 DEF LoadRaises, ComputeRaises, DropRaises
  <2>3. QED
      BY <2>1, <2>2
<1>6. CASE NextExpert
  <2>1. PICK e \in layer.todo : thread' = [thread EXCEPT ![Main] = Looking(Job(e))]
      BY <1>6 DEF NextExpert
  <2>2. /\ layer.at = "experts" /\ layer' = [layer EXCEPT !.at = "expert"]
        /\ UNCHANGED <<config, jobs, settled>>
      BY <1>6 DEF NextExpert
  <2>3. /\ thread'[Main].at = "look" /\ thread'[Main].expert = e
        /\ \A u \in Threads \ {Main} : thread'[u] = thread[u]
      BY <1>0, <2>1 DEF Looking, Job
  <2>4. Using' = Using \cup {Main} /\ Using \subseteq Threads
      BY <1>0, <2>3 DEF Using
  <2>5. layer'.at = "expert" /\ layer'.waits = layer.waits /\ layer'.todo = layer.todo
      BY <1>0, <2>2
  <2>6. QED
      BY <2>2, <2>3, <2>4, <2>5 DEF Assigned
<1>7. ASSUME Used, thread[Main].at # "idle", layer.at # "raised",
             UNCHANGED <<config, jobs, settled>>
      PROVE  Assigned'
  <2>1. /\ thread' = [thread EXCEPT ![Main] = Idle]
        /\ layer' = [layer EXCEPT !.at = "experts", !.todo = @ \ {thread[Main].expert}]
        /\ UNCHANGED <<config, jobs, settled>>
      BY <1>7 DEF Used
  <2>2. layer.at = "expert"
      BY <1>0, <1>7 DEF Assigned, Using
  <2>3. thread'[Main].at = "idle" /\ \A u \in Threads \ {Main} : thread'[u] = thread[u]
      BY <1>0, <2>1
  <2>4. Using' = Using \ {Main} /\ Using \subseteq Threads
      BY <1>0, <2>3 DEF Using
  <2>5. layer'.at = "experts" /\ layer'.waits = layer.waits
      BY <1>0, <2>1
  <2>6. QED
      BY <2>1, <2>2, <2>3, <2>4, <2>5 DEF Assigned
<1>11. CASE Compute \/ DropUsed
  <2>1. thread[Main].at # "idle" /\ UNCHANGED <<config, jobs, settled>>
      BY <1>11 DEF Compute, DropUsed
  <2>2. CASE Used
    <3>1. layer.at # "raised"
        BY <1>11, <2>2 DEF Compute, DropUsed, OneDrop, Dropping
    <3>2. QED
        BY <1>7, <2>1, <2>2, <3>1
  <2>3. CASE ~Used
      BY <1>10, <1>11, <2>1, <2>3 DEF Compute, DropUsed
  <2>4. QED
      BY <2>2, <2>3
<1>8. CASE EndLayer
  <2>1. /\ layer.at = "experts" /\ layer' = NoLayer /\ settled' = Unsettled
        /\ UNCHANGED <<config, thread, jobs>>
      BY <1>8 DEF EndLayer
  <2>2. NoWorkers
      BY <2>1, NobodyWorks
  <2>3. Using' = Using /\ Using \subseteq {Main} /\ jobs' = <<>> /\ DOMAIN jobs' = {}
    <3>1. Using' = Using
        BY <2>1 DEF Using
    <3>2. Using \subseteq {Main}
        BY <2>2 DEF Using, NoWorkers, Threads
    <3>3. jobs' = <<>>
        BY <2>1, <2>2 DEF NoWorkers
    <3>4. QED
        BY <3>1, <3>2, <3>3
  <2>4. QED
      BY <2>1, <2>3 DEF Assigned, NoLayer, Unsettled
<1>9. QED
    BY <1>1, <1>2, <1>3, <1>5, <1>6, <1>8, <1>11, JobsOfLayer

LEMMA AssignedStep ==
    ASSUME TypeInv, OneDrop, Supervised => Assigned, [Next]_vars
    PROVE  Supervised' => Assigned'
<1> SUFFICES ASSUME Supervised' PROVE Assigned'
    OBVIOUS
<1>1. Supervised /\ Assigned
    BY ConfigKept DEF Supervised
<1>2. ASSUME NEW w \in Workers, WorkerStep(w) PROVE Assigned'
    BY <1>1, <1>2, AssignedMaterialize, AssignedWorker DEF WorkerStep, Threads
<1>3. CASE ForwardStep
    BY <1>1, <1>3, AssignedMaterialize, AssignedForward DEF ForwardStep, Threads
<1>4. QED
    BY <1>1, <1>2, <1>3, AssignedForward DEF Next

LEMMA AssignedInit == Init => Assigned
<1> SUFFICES ASSUME Init PROVE Assigned
    OBVIOUS
<1>1. layer = NoLayer /\ settled = Unsettled /\ jobs = <<>> /\ DOMAIN jobs = {}
    BY DEF Init
<1>2. Using = {}
    BY DEF Init, Using, Idle
<1>3. QED
    BY <1>1, <1>2 DEF Assigned, NoLayer, Unsettled

-----------------------------------------------------------------------------
(* What the cache knows *)

\* The experts that are attached and not yet inserted.
Inserting == {thread[t].expert : t \in {u \in Threads : thread[u].at = "insert"}}

\* The engine thread holds the module that it came for.
EngineHolds ==
    /\ thread[Main].at = "hit" => attached[thread[Main].expert] # None
    /\ thread[Main].at \in {"insert", "release", "detach", "ready"} => thread[Main].module # None

\* Without a cache, what has a module is the layer's; on the engine thread alone it is
\* the expert in use.
UncachedInUse ==
    /\ entries = {} /\ Resident \subseteq layer.todo
    /\ ~config.prefetch /\ Resident # {} =>
          /\ thread[Main].at \in {"hit", "insert", "ready", "release", "detach"}
          /\ Resident = {thread[Main].expert}

\* A thread has found its expert missing and has yet to attach a module.
Loads(t) == thread[t].at \in {"miss", "acquire"} \/ Taking(t)

\* What has a module is an entry, or about to be inserted, or being dropped.
Known ==
    /\ \A t \in Threads : Loads(t) => attached[thread[t].expert] = None
    /\ EngineHolds
    /\ Inserting \subseteq Resident \ entries
    /\ Enabled => /\ Resident = entries \cup Inserting \cup victims
                  /\ victims \cap (entries \cup Inserting) = {}
    /\ ~Enabled => UncachedInUse
    /\ layer.at = "raised" => ~config.prefetch

\* No two calls load the same expert.
LEMMA DistinctCalls ==
    ASSUME TypeInv, Assigned, NEW t \in Using, NEW u \in Using,
           thread[t].expert = thread[u].expert
    PROVE  t = u
<1>1. CASE Main \in Using
  <2>1. layer.at \in {"expert", "raised"}
      BY <1>1 DEF Assigned
  <2>2. NoWorkers
      BY <2>1, NobodyWorks
  <2>3. Using \subseteq {Main}
      BY <2>2 DEF NoWorkers, Using, Threads
  <2>4. QED
      BY <2>3
<1>2. CASE Main \notin Using
    BY <1>2 DEF Assigned
<1>3. QED
    BY <1>1, <1>2

\* Without a prefetch, only the engine thread runs calls.
LEMMA EngineAlone ==
    ASSUME TypeInv, Assigned, NEW t \in Using, ~config.prefetch \/ layer.at # "prefetch" \/ t = Main
    PROVE  t = Main
<1>1. CASE ~config.prefetch \/ layer.at # "prefetch"
  <2>1. NoWorkers
      BY <1>1, NobodyWorks DEF Assigned
  <2>2. QED
      BY <2>1 DEF NoWorkers, Using, Threads
<1>2. QED
    BY <1>1

\* The expert of a call is one of the layer's.
LEMMA CallsOfLayer ==
    ASSUME TypeInv, Assigned, NEW t \in Using
    PROVE  thread[t].expert \in layer.todo
<1>1. CASE t = Main
    BY <1>1 DEF Assigned
<1>2. CASE t # Main
    BY <1>2 DEF Assigned
<1>3. QED
    BY <1>1, <1>2

LEMMA StepDoes ==
    ASSUME TypeInv, NEW t \in Threads, NEW at \in Stages, Step(t, at)
    PROVE  /\ thread'[t].at = at /\ thread'[t].expert = thread[t].expert
           /\ thread'[t].module = thread[t].module
           /\ \A u \in Threads \ {t} : thread'[u] = thread[u]
<1>1. thread \in [Threads -> Call]
    BY DEF TypeInv, TypeOK, Call
<1>2. /\ thread'[t] = [at |-> at, expert |-> thread[t].expert,
                       module |-> thread[t].module, awaited |-> thread[t].awaited]
      /\ \A u \in Threads \ {t} : thread'[u] = thread[u]
    BY <1>1, StepChanges
<1>3. QED
    BY <1>2

LEMMA InsertingKept ==
    ASSUME \A t \in Threads : thread'[t].expert = thread[t].expert,
           \A t \in Threads : thread'[t].at = "insert" <=> thread[t].at = "insert"
    PROVE  Inserting' = Inserting
BY DEF Inserting

LEMMA KnownMaterialize ==
    ASSUME TypeInv, OneDrop, Assigned, Known, NEW t \in Threads, Materialize(t)
    PROVE  Known'
<1> DEFINE e == thread[t].expert
<1>0. /\ thread \in [Threads -> Call] /\ Main \in Threads
      /\ {"hit", "miss", "acquire", "taken", "read", "copy", "attach", "insert", "release",
          "detach", "ready"} \subseteq Stages
      /\ attached \in [Experts -> Modules \cup {None}] /\ entries \subseteq Experts
    BY DEF TypeInv, TypeOK, Call, Stages, Threads
<1>1. /\ UNCHANGED <<config, jobs, layer, settled, failed>>
      /\ t \in Using /\ e \in Experts
      /\ \A u \in Threads : thread'[u].expert = thread[u].expert
      /\ \A u \in Threads \ {t} : thread'[u] = thread[u]
    BY CallGoesOn DEF Using, TypeInv, Loading
<1>2. ~config.prefetch => t = Main
    BY <1>1, EngineAlone
<1>3. e \in layer.todo
    BY <1>1, CallsOfLayer
<1>4. Enabled' = Enabled
    BY <1>1 DEF Enabled
<1>5. CASE Hit(t)
  <2>1. /\ thread[t].at = "look" /\ Step(t, "hit") /\ attached[e] # None
        /\ UNCHANGED <<attached, entries, victims>>
      BY <1>5 DEF Hit, cacheVars
  <2>2. thread'[t].at = "hit" /\ thread'[t].module = thread[t].module
      BY <1>0, <2>1, StepDoes
  <2>3. Inserting' = Inserting
      BY <1>1, <2>1, <2>2, InsertingKept
  <2>4. e \in Resident
      BY <1>1, <2>1 DEF Resident
  <2>5. QED
      BY <1>0, <1>1, <1>2, <1>4, <2>1, <2>2, <2>3, <2>4
      DEF Known, EngineHolds, UncachedInUse, Loads, Taking, Resident
<1>6. CASE Touch(t)
  <2>1. /\ thread[t].at = "hit"
        /\ thread' = [thread EXCEPT ![t].at = "ready", ![t].module = attached[e]]
        /\ UNCHANGED <<attached, entries, victims>>
      BY <1>6 DEF Touch
  <2>2. thread'[t].at = "ready" /\ thread'[t].module = attached[e]
    <3>1. attached[e] \in Modules \cup {None}
        BY <1>0, <1>1
    <3>2. thread'[t] = [at |-> "ready", expert |-> e, module |-> attached[e],
                        awaited |-> thread[t].awaited]
      <4>1. "ready" \in Stages
          BY <1>0
      <4>2. QED
          BY <1>0, <2>1, <3>1, <4>1, StageChanges
    <3>3. QED
        BY <3>2
  <2>3. Inserting' = Inserting
      BY <1>1, <2>1, <2>2, InsertingKept
  <2>4. QED
      BY <1>0, <1>1, <1>2, <1>4, <2>1, <2>2, <2>3
      DEF Known, EngineHolds, UncachedInUse, Loads, Taking, Resident
<1>7. CASE Acquire(t)
  <2>1. PICK m \in IF pool # {} THEN pool ELSE Fresh :
            thread' = [thread EXCEPT ![t].at = "taken", ![t].module = m]
      BY <1>7 DEF Acquire
  <2>2. /\ thread[t].at = "acquire" /\ m \in Modules
        /\ UNCHANGED <<attached, entries, victims>>
      BY <1>7, <2>1 DEF Acquire, Fresh, TypeInv, TypeOK
  <2>3. thread'[t].at = "taken"
    <3>1. thread'[t] = [at |-> "taken", expert |-> e, module |-> m, awaited |-> thread[t].awaited]
        BY <1>0, <2>1, <2>2, StageChanges
    <3>2. QED
        BY <3>1
  <2>4. Inserting' = Inserting
      BY <1>1, <2>2, <2>3, InsertingKept
  <2>5. Resident' = Resident /\ Loads(t)
      BY <2>2 DEF Resident, Loads
  <2>6. \A u \in Threads : Loads(u)' => Loads(u)
      BY <1>1, <2>5 DEF Loads, Taking
  <2>7. EngineHolds'
      BY <1>0, <1>1, <2>2, <2>3 DEF Known, EngineHolds
  <2>8. ~Enabled => UncachedInUse'
      BY <1>0, <1>1, <1>2, <2>2, <2>3, <2>5 DEF Known, UncachedInUse
  <2>9. QED
      BY <1>1, <1>4, <2>2, <2>4, <2>5, <2>6, <2>7, <2>8 DEF Known
<1>8. CASE Miss(t) \/ Record(t) \/ Read(t) \/ Copy(t)
  <2>1. PICK at \in {"miss", "acquire", "read", "copy", "attach"} : Step(t, at)
      BY <1>8 DEF Miss, Record, Read, Copy
  <2>2. /\ UNCHANGED <<attached, entries, victims>>
        /\ thread[t].at \in {"look", "miss", "taken", "read", "copy"}
        /\ thread[t].at = "look" => attached[e] = None
      BY <1>8 DEF Miss, Record, Read, Copy, cacheVars
  <2>3. thread'[t].at = at
    <3>1. at \in Stages
        BY <1>0
    <3>2. QED
        BY <1>0, <2>1, <3>1, StepDoes
  <2>4. Inserting' = Inserting
      BY <1>1, <2>1, <2>2, <2>3, InsertingKept
  <2>5. Resident' = Resident
      BY <2>2 DEF Resident
  <2>6. \A u \in Threads : Loads(u)' => attached'[thread'[u].expert] = None
    <3>1. Loads(t) => attached[e] = None
        BY DEF Known
    <3>2. attached[e] = None
        BY <2>2, <3>1 DEF Loads, Taking
    <3>3. \A u \in Threads \ {t} : Loads(u)' => Loads(u)
        BY <1>1 DEF Loads, Taking
    <3>4. QED
        BY <1>1, <2>2, <3>2, <3>3 DEF Known
  <2>7. EngineHolds'
      BY <1>0, <1>1, <2>1, <2>2, <2>3 DEF Known, EngineHolds
  <2>8. ~Enabled => UncachedInUse'
      BY <1>0, <1>1, <1>2, <2>1, <2>2, <2>3, <2>5 DEF Known, UncachedInUse
  <2>9. QED
      BY <1>1, <1>4, <2>2, <2>4, <2>5, <2>6, <2>7, <2>8 DEF Known
<1>9. CASE Attach(t)
  <2>1. /\ thread[t].at = "attach" /\ Step(t, "insert") /\ UNCHANGED <<entries, victims>>
        /\ attached' = [attached EXCEPT ![e] = thread[t].module]
      BY <1>9 DEF Attach
  <2>2. thread'[t].at = "insert" /\ thread'[t].module = thread[t].module
        /\ thread[t].module \in Modules /\ thread[t].module # None
    <3>1. thread'[t].at = "insert" /\ thread'[t].module = thread[t].module
          /\ thread[t].module \in Modules
        BY <1>0, <2>1, StepDoes DEF TypeInv, Loading, Taking
    <3>2. QED
        BY <3>1, NoneAssumption
  <2>3. attached[e] = None
      BY <2>1 DEF Known, Loads, Taking
  <2>4. Resident' = Resident \cup {e} /\ e \notin Resident
      BY <1>0, <1>1, <2>1, <2>2, <2>3 DEF Resident
  <2>5. Inserting' = Inserting \cup {e}
      BY <1>1, <2>1, <2>2 DEF Inserting
  <2>6. e \notin entries
      BY <2>4 DEF Known, UncachedInUse
  <2>7. \A u \in Threads \ {t} : Loads(u) => attached'[thread[u].expert] = None
    <3>1. ASSUME NEW u \in Threads \ {t}, Loads(u) PROVE attached'[thread[u].expert] = None
      <4>1. u \in Using /\ thread[u].expert # e
          BY <1>1, <3>1, DistinctCalls DEF Using, Loads, Taking
      <4>2. thread[u].expert \in Experts
          BY <4>1 DEF Using, TypeInv, Loading
      <4>3. QED
          BY <1>0, <2>1, <3>1, <4>1, <4>2 DEF Known
    <3>2. QED
        BY <3>1
  <2>8. EngineHolds'
      BY <1>0, <1>1, <2>1, <2>2 DEF Known, EngineHolds, TypeInv, Loading
  <2>9. ~Enabled => UncachedInUse'
      BY <1>1, <1>2, <1>3, <2>1, <2>2, <2>4 DEF Known, UncachedInUse
  <2>10. \A u \in Threads : Loads(u)' => u # t /\ Loads(u)
      BY <1>1, <2>2 DEF Loads, Taking
  <2>11. Inserting' \subseteq Resident' \ entries'
      BY <2>1, <2>4, <2>5, <2>6 DEF Known
  <2>12. Enabled => /\ Resident' = entries' \cup Inserting' \cup victims'
                    /\ victims' \cap (entries' \cup Inserting') = {}
      BY <2>1, <2>4, <2>5, <2>6 DEF Known
  <2>13. QED
      BY <1>1, <1>4, <2>7, <2>8, <2>9, <2>10, <2>11, <2>12 DEF Known
<1>10. CASE Insert(t)
  <2> DEFINE inserted == entries \cup {e}
             kept == MostRecent(inserted, Touched(e, inserted))
             out == inserted \ kept
  <2>1. /\ thread[t].at = "insert" /\ ~Locked /\ UNCHANGED attached
        /\ Step(t, "ready") \/ Step(t, "release")
      BY <1>10 DEF Insert
  <2>2. /\ thread'[t].at \in {"ready", "release"} /\ thread'[t].module = thread[t].module
      BY <1>0, <2>1, StepDoes
  <2>3. e \in Inserting /\ e \in Resident /\ e \notin entries
      BY <2>1 DEF Known, Inserting
  <2>4. Inserting' = Inserting \ {e}
    <3>1. \A u \in Threads : thread[u].at = "insert" /\ thread[u].expert = e => u = t
        BY <1>1, DistinctCalls DEF Using
    <3>2. QED
        BY <1>1, <2>1, <2>2, <3>1 DEF Inserting
  <2>5. Resident' = Resident
      BY <2>1 DEF Resident
  <2>6. \A u \in Threads : Loads(u)' => Loads(u)
      BY <1>1, <2>2 DEF Loads, Taking
  <2>7. EngineHolds'
      BY <1>0, <1>1, <2>1, <2>2 DEF Known, EngineHolds
  <2>8. CASE Enabled
    <3>1. entries' = kept /\ victims' = out /\ victims = {}
        BY <1>10, <2>1, <2>3, <2>8 DEF Insert, Locked
    <3>2. kept \subseteq inserted
        BY DEF MostRecent, WithinQuota
    <3> HIDE DEF kept
    <3>3. Resident = entries \cup Inserting /\ Inserting \cap entries = {}
        BY <2>8, <3>1 DEF Known
    <3>4. /\ Inserting' \subseteq Resident' \ entries'
          /\ Resident' = entries' \cup Inserting' \cup victims'
          /\ victims' \cap (entries' \cup Inserting') = {}
        BY <2>3, <2>4, <2>5, <3>1, <3>2, <3>3
    <3>5. QED
        BY <1>1, <1>4, <2>1, <2>6, <2>7, <2>8, <3>4 DEF Known
  <2>9. CASE ~Enabled
    <3>1. UNCHANGED <<entries, victims>>
        BY <1>10, <2>9 DEF Insert
    <3>2. UncachedInUse'
        BY <1>0, <1>1, <1>2, <2>1, <2>2, <2>5, <2>9, <3>1 DEF Known, UncachedInUse
    <3>3. Inserting' \subseteq Resident' \ entries'
        BY <2>4, <2>5, <3>1 DEF Known
    <3>4. QED
        BY <1>1, <1>4, <2>1, <2>6, <2>7, <2>9, <3>2, <3>3 DEF Known
  <2>10. QED
      BY <2>8, <2>9
<1>11. CASE Release(t)
  <2>1. thread[t].at = "release" /\ Step(t, "detach") /\ UNCHANGED <<attached, entries, victims>>
      BY <1>11 DEF Release
  <2>2. thread'[t].at = "detach" /\ thread'[t].module = thread[t].module
      BY <1>0, <2>1, StepDoes
  <2>3. Inserting' = Inserting
      BY <1>1, <2>1, <2>2, InsertingKept
  <2>4. Resident' = Resident
      BY <2>1 DEF Resident
  <2>5. \A u \in Threads : Loads(u)' => Loads(u)
      BY <1>1, <2>2 DEF Loads, Taking
  <2>6. EngineHolds'
      BY <1>0, <1>1, <2>1, <2>2 DEF Known, EngineHolds
  <2>7. ~Enabled => UncachedInUse'
      BY <1>0, <1>1, <1>2, <2>1, <2>2, <2>4 DEF Known, UncachedInUse
  <2>8. QED
      BY <1>1, <1>4, <2>1, <2>3, <2>4, <2>5, <2>6, <2>7 DEF Known
<1>12. CASE Detach(t)
  <2>1. /\ thread[t].at = "detach" /\ Step(t, "ready") /\ UNCHANGED entries /\ Enabled
        /\ victims' = {}
        /\ \A f \in Experts : attached'[f] = IF f \in victims THEN None ELSE attached[f]
      BY <1>12 DEF Detach, DetachedVictims
  <2>2. thread'[t].at = "ready" /\ thread'[t].module = thread[t].module
      BY <1>0, <2>1, StepDoes
  <2>3. Inserting' = Inserting
      BY <1>1, <2>1, <2>2, InsertingKept
  <2>4. Resident' = Resident \ victims
      BY <2>1 DEF Resident
  <2>5. \A u \in Threads : Loads(u)' => Loads(u) /\ attached'[thread[u].expert] = None
    <3>1. \A u \in Threads : Loads(u)' => Loads(u) /\ thread[u].expert \in Experts
        BY <1>1, <2>2 DEF Loads, Taking, TypeInv, Loading
    <3>2. QED
        BY <2>1, <3>1 DEF Known
  <2>6. EngineHolds'
    <3>1. ASSUME thread'[Main].at = "hit" PROVE FALSE
      <4>1. t # Main /\ Main \in Using
          BY <1>0, <1>1, <2>2, <3>1 DEF Using
      <4>2. layer.at \in {"expert", "raised"}
          BY <4>1 DEF Assigned
      <4>3. QED
          BY <1>1, <4>1, <4>2, EngineAlone
    <3>2. QED
        BY <1>0, <1>1, <2>1, <2>2, <3>1 DEF Known, EngineHolds
  <2>7. /\ Inserting' \subseteq Resident' \ entries'
        /\ Resident' = entries' \cup Inserting' \cup victims'
        /\ victims' \cap (entries' \cup Inserting') = {}
      BY <2>1, <2>3, <2>4 DEF Known
  <2>8. QED
      BY <1>1, <1>4, <2>1, <2>5, <2>6, <2>7 DEF Known
<1>13. QED
    BY <1>5, <1>6, <1>7, <1>8, <1>9, <1>10, <1>11, <1>12 DEF Materialize

\* A worker begins or ends a call.
LEMMA KnownWorker ==
    ASSUME TypeInv, Supervised, Assigned, Known, NEW w \in Workers,
           TakeJob(w) \/ JobDone(w) \/ JobRaises(w)
    PROVE  Known'
<1>0. /\ thread \in [Threads -> Call] /\ w \in Threads /\ w # Main /\ Main \in Threads
      /\ Idle.at = "idle" /\ \A job : Looking(job).at = "look"
    BY MainAssumption DEF Call, TypeInv, TypeOK, Threads, Idle, Looking
<1>1. UNCHANGED <<config, attached, entries, victims, layer>>
    BY DEF TakeJob, JobDone, JobRaises, cacheVars
<1>2. PICK c : thread' = [thread EXCEPT ![w] = c] /\ c.at \in {"idle", "look"}
    BY <1>0 DEF TakeJob, JobDone, JobRaises, Settle
<1>3. thread[w].at \in {"idle", "ready", "read", "copy"}
    BY DEF TakeJob, JobDone, JobRaises
<1>4. thread'[w] = c /\ \A u \in Threads \ {w} : thread'[u] = thread[u]
    BY <1>0, <1>2
<1>5. Inserting' = Inserting
    BY <1>2, <1>3, <1>4 DEF Inserting
<1>6. \A u \in Threads : Loads(u)' => Loads(u) /\ thread'[u] = thread[u]
    BY <1>2, <1>4 DEF Loads, Taking
<1>7. QED
    BY <1>0, <1>1, <1>4, <1>5, <1>6 DEF Known, EngineHolds, UncachedInUse, Resident, Enabled

\* The engine thread's call ends, with nobody else at work: with a cache nothing is
\* dropped; without one its expert has been dropped, or has not been attached yet.
LEMMA KnownEnds ==
    ASSUME TypeInv, Known, NoWorkers, \A t \in Threads : thread'[t].at = "idle",
           thread[Main].at # "insert", thread[Main].expert \in Experts,
           UNCHANGED <<config, entries>>, layer'.at # "raised",
           \/ Enabled /\ UNCHANGED <<attached, victims>>
           \/ /\ thread[Main].at \in {"read", "copy"} /\ UNCHANGED <<attached, victims>>
              /\ ~config.prefetch
           \/ ~Enabled /\ victims = {thread[Main].expert} /\ DetachedVictims,
           layer'.todo = layer.todo \ {thread[Main].expert} \/ ~config.prefetch \/ Enabled
    PROVE  Known'
<1> DEFINE e == thread[Main].expert
<1>0. /\ Main \in Threads /\ Threads = Workers \cup {Main} /\ e \in Experts
      /\ attached \in [Experts -> Modules \cup {None}]
    BY DEF TypeInv, TypeOK, Threads
<1>1. Inserting' = {} /\ Inserting = {}
    BY <1>0 DEF Inserting, NoWorkers
<1>2. \A t \in Threads : ~Loads(t)'
    BY DEF Loads, Taking
<1>3. EngineHolds'
    BY <1>0 DEF EngineHolds
<1>4. Enabled' = Enabled
    BY DEF Enabled
<1>5. CASE Enabled
  <2>1. UNCHANGED <<attached, victims>>
      BY <1>5
  <2>2. Resident' = Resident
      BY <2>1 DEF Resident
  <2>3. QED
      BY <1>1, <1>2, <1>3, <1>4, <1>5, <2>1, <2>2 DEF Known
<1>6. CASE ~Enabled
  <2>1. UncachedInUse
      BY <1>6 DEF Known
  <2>2. CASE victims = {e} /\ DetachedVictims
    <3>1. \A f \in Experts : attached'[f] = IF f = e THEN None ELSE attached[f]
        BY <2>2 DEF DetachedVictims
    <3>2. Resident' = Resident \ {e}
        BY <3>1 DEF Resident
    <3>3. ~config.prefetch => Resident' = {}
        BY <2>1, <3>2 DEF UncachedInUse
    <3>4. UncachedInUse'
        BY <1>6, <2>1, <3>2, <3>3 DEF UncachedInUse
    <3>5. QED
        BY <1>1, <1>2, <1>3, <1>4, <1>6, <3>4 DEF Known
  <2>3. CASE thread[Main].at \in {"read", "copy"} /\ UNCHANGED attached /\ ~config.prefetch
    <3>1. Resident' = {}
        BY <2>1, <2>3 DEF UncachedInUse, Resident
    <3>2. UncachedInUse'
        BY <2>1, <2>3, <3>1 DEF UncachedInUse
    <3>3. QED
        BY <1>1, <1>2, <1>3, <1>4, <1>6, <3>2 DEF Known
  <2>4. QED
      BY <1>6, <2>2, <2>3
<1>7. QED
    BY <1>5, <1>6

LEMMA KnownForward ==
    ASSUME TypeInv, OneDrop, Supervised, Assigned, Known,
           \/ \E A \in Batches : StartLayer(A)
           \/ Prefetched \/ PrefetchRaises \/ NextExpert \/ EndLayer
           \/ LoadRaises \/ Compute \/ ComputeRaises \/ DropUsed \/ DropRaises
           \/ Execute \/ UNCHANGED vars
    PROVE  Known'
<1>0. /\ thread \in [Threads -> Call] /\ Main \in Threads /\ Threads = Workers \cup {Main}
      /\ Workers = Threads \ {Main}
      /\ layer \in [at : {"idle", "prefetch", "experts", "expert", "raised"},
                    todo : SUBSET Experts, waits : SUBSET Experts]
      /\ Idle.at = "idle"
    BY MainAssumption DEF TypeInv, TypeOK, Threads, Call, Idle
<1>1. ASSUME UNCHANGED <<config, attached, entries, victims, thread>>,
             layer.todo \subseteq layer'.todo,
             layer'.at = "raised" => layer.at = "raised"
      PROVE  Known'
    BY <1>1 DEF Known, EngineHolds, UncachedInUse, Resident, Enabled, Loads, Taking, Inserting
<1>2. CASE Execute \/ UNCHANGED vars
    BY <1>1, <1>2 DEF Execute, vars, cacheVars, layerVars
<1>3. CASE \E A \in Batches : StartLayer(A)
  <2>1. /\ layer.at = "idle" /\ UNCHANGED <<config, attached, entries, victims, thread>>
        /\ layer'.at # "raised"
      BY <1>3 DEF StartLayer, cacheVars
  <2>2. layer.todo = {}
      BY <2>1 DEF Assigned
  <2>3. QED
      BY <1>1, <2>1, <2>2
<1>4. CASE Prefetched
  <2>1. layer'.todo = layer.todo /\ layer'.at # "raised"
      BY <1>0, <1>4 DEF Prefetched
  <2>2. QED
      BY <1>1, <1>4, <2>1 DEF Prefetched, cacheVars
<1>5. CASE EndLayer
    BY <1>1, <1>5 DEF EndLayer, cacheVars, NoLayer
<1>6. CASE PrefetchRaises
    BY <1>6 DEF PrefetchRaises, Assigned
<1>7. CASE NextExpert
  <2>1. PICK e \in layer.todo : thread' = [thread EXCEPT ![Main] = Looking(Job(e))]
      BY <1>7 DEF NextExpert
  <2>2. /\ layer.at = "experts" /\ UNCHANGED <<config, attached, entries, victims>>
        /\ layer' = [layer EXCEPT !.at = "expert"]
      BY <1>7 DEF NextExpert, cacheVars
  <2>3. layer'.todo = layer.todo /\ layer'.at = "expert"
      BY <1>0, <2>2
  <2>4. thread'[Main].at = "look" /\ \A u \in Threads \ {Main} : thread'[u] = thread[u]
      BY <1>0, <2>1 DEF Looking
  <2>5. thread[Main].at = "idle"
      BY <1>0, <2>2 DEF Assigned, Using
  <2>6. Inserting' = Inserting
      BY <2>4, <2>5 DEF Inserting
  <2>7. \A u \in Threads : Loads(u)' => Loads(u) /\ thread'[u] = thread[u]
      BY <2>4 DEF Loads, Taking
  <2>8. QED
      BY <2>2, <2>3, <2>4, <2>5, <2>6, <2>7
      DEF Known, EngineHolds, UncachedInUse, Resident, Enabled
<1>8. thread[Main].at # "idle" => /\ NoWorkers /\ layer.at \in {"expert", "raised"}
                                 /\ thread[Main].expert \in Experts
  <2>1. thread[Main].at # "idle" => layer.at \in {"expert", "raised"}
      BY <1>0 DEF Assigned, Using
  <2>2. QED
      BY <1>0, <2>1, NobodyWorks DEF TypeInv, Loading
<1>9. Raise => ~config.prefetch
  <2>1. Raise => failed < config.failures /\ failed \in Nat /\ config.failures \in Nat
      BY ConfigAssumption DEF Raise, TypeInv, TypeOK
  <2>2. QED
      BY <2>1 DEF Supervised
<1>10. ASSUME NoWorkers, Abandon
       PROVE  (\A t \in Threads : thread'[t].at = "idle") /\ layer'.at # "raised"
  <2>1. /\ thread'[Main].at = "idle" /\ layer'.at = "idle"
        /\ \A u \in Threads \ {Main} : thread'[u].at = thread[u].at
      BY <1>0, <1>10, AbandonedThreads
  <2>2. QED
      BY <1>0, <1>10, <2>1 DEF NoWorkers
<1>11. ASSUME NoWorkers, Used
       PROVE  /\ \A t \in Threads : thread'[t].at = "idle"
              /\ layer'.at # "raised" /\ layer'.todo = layer.todo \ {thread[Main].expert}
  <2>1. /\ thread' = [thread EXCEPT ![Main] = Idle]
        /\ layer' = [layer EXCEPT !.at = "experts", !.todo = @ \ {thread[Main].expert}]
      BY <1>11 DEF Used
  <2>2. \A t \in Threads : thread'[t].at = "idle"
      BY <1>0, <1>11, <2>1 DEF NoWorkers
  <2>3. QED
      BY <1>0, <2>1, <2>2
\* The engine thread begins to drop what it has used.
<1>12. ASSUME NEW outcome \in {"expert", "raised"}, Evict(outcome), ~Enabled,
              thread[Main].at = "ready", outcome = "raised" => ~config.prefetch,
              UNCHANGED <<config, attached, entries>>
       PROVE  Known'
  <2>1. /\ Step(Main, "release") /\ "release" \in Stages
        /\ layer'.at = outcome /\ layer'.todo = layer.todo
      BY <1>0, <1>12 DEF Evict, Stages
  <2>2. /\ thread'[Main].at = "release" /\ thread'[Main].expert = thread[Main].expert
        /\ thread'[Main].module = thread[Main].module
        /\ \A u \in Threads \ {Main} : thread'[u] = thread[u]
      BY <1>0, <2>1, StepDoes
  <2>3. Inserting' = Inserting
      BY <1>12, <2>2 DEF Inserting
  <2>4. Resident' = Resident /\ Enabled' = Enabled
      BY <1>12 DEF Resident, Enabled
  <2>5. \A u \in Threads : Loads(u)' => Loads(u) /\ thread'[u] = thread[u]
      BY <2>2 DEF Loads, Taking
  <2>6. EngineHolds' /\ UncachedInUse'
      BY <1>12, <2>1, <2>2, <2>4 DEF Known, EngineHolds, UncachedInUse
  <2>7. QED
      BY <1>12, <2>1, <2>3, <2>4, <2>5, <2>6 DEF Known
<1>13. CASE Compute
  <2>1. /\ thread[Main].at = "ready" /\ UNCHANGED <<config, attached, entries>>
      BY <1>13 DEF Compute
  <2>2. CASE Enabled
    <3>1. Used /\ UNCHANGED victims
        BY <1>13, <2>2 DEF Compute
    <3>2. QED
        BY <1>8, <1>11, <2>1, <2>2, <3>1, KnownEnds
  <2>3. CASE ~Enabled
    <3>1. Evict("expert")
        BY <1>13, <2>3 DEF Compute
    <3>2. QED
        BY <1>12, <2>1, <2>3, <3>1
  <2>4. QED
      BY <2>2, <2>3
<1>14. CASE LoadRaises
  <2>1. /\ thread[Main].at \in {"read", "copy"} /\ Raise /\ Abandon
        /\ UNCHANGED <<config, attached, entries, victims>>
      BY <1>14 DEF LoadRaises, cacheVars
  <2>2. QED
      BY <1>8, <1>9, <1>10, <2>1, KnownEnds
<1>15. CASE ComputeRaises
  <2>1. /\ thread[Main].at = "ready" /\ UNCHANGED <<config, attached, entries>>
      BY <1>15 DEF ComputeRaises
  <2>2. Raise
      BY <1>15, <2>1 DEF ComputeRaises, Known, EngineHolds
  <2>3. CASE Enabled
    <3>1. Abandon /\ UNCHANGED victims
        BY <1>15, <2>3 DEF ComputeRaises
    <3>2. QED
        BY <1>8, <1>10, <2>1, <2>3, <3>1, KnownEnds
  <2>4. CASE ~Enabled
    <3>1. Evict("raised")
        BY <1>15, <2>4 DEF ComputeRaises
    <3>2. QED
        BY <1>9, <1>12, <2>1, <2>2, <2>4, <3>1
  <2>5. QED
      BY <2>3, <2>4
<1>16. CASE DropUsed \/ DropRaises
  <2>1. /\ ~Enabled /\ thread[Main].at = "detach" /\ DetachedVictims
        /\ UNCHANGED <<config, entries>>
      BY <1>16 DEF DropUsed, DropRaises
  <2>2. victims = {thread[Main].expert}
      BY <1>0, <2>1 DEF OneDrop, Dropping
  <2>3. CASE DropUsed
    <3>1. Used
        BY <2>3 DEF DropUsed
    <3>2. QED
        BY <1>8, <1>11, <2>1, <2>2, <3>1, KnownEnds
  <2>4. CASE DropRaises
    <3>1. Abandon /\ ~config.prefetch
        BY <2>4 DEF DropRaises, Known
    <3>2. QED
        BY <1>8, <1>10, <2>1, <2>2, <3>1, KnownEnds
  <2>5. QED
      BY <1>16, <2>3, <2>4
<1>17. QED
    BY <1>2, <1>3, <1>4, <1>5, <1>6, <1>7, <1>13, <1>14, <1>15, <1>16

LEMMA KnownInit == Init => Known
<1> SUFFICES ASSUME Init PROVE Known
    OBVIOUS
<1>1. /\ \A t \in Threads : thread[t].at = "idle"
      /\ Resident = {} /\ entries = {} /\ victims = {} /\ layer.at = "idle"
      /\ Main \in Threads
    BY DEF Init, Idle, Resident, Threads, NoLayer
<1>2. Inserting = {}
    BY <1>1 DEF Inserting
<1>3. QED
    BY <1>1, <1>2 DEF Known, EngineHolds, UncachedInUse, Loads, Taking

KnowsInv == DropInv /\ (Supervised => Assigned /\ Known)

LEMMA KnowsStep == KnowsInv /\ [Next]_vars => KnowsInv'
<1> SUFFICES ASSUME KnowsInv, [Next]_vars PROVE KnowsInv'
    OBVIOUS
<1>1. DropInv' /\ (Supervised' => Assigned')
    BY DropStep, AssignedStep DEF KnowsInv, DropInv
<1>2. ASSUME Supervised' PROVE Known'
  <2>1. TypeInv /\ OneDrop /\ Supervised /\ Assigned /\ Known
      BY <1>2, ConfigKept DEF Supervised, KnowsInv, DropInv
  <2>2. ASSUME NEW w \in Workers, WorkerStep(w) PROVE Known'
      BY <2>1, <2>2, KnownMaterialize, KnownWorker DEF WorkerStep, Threads
  <2>3. CASE ForwardStep
      BY <2>1, <2>3, KnownMaterialize, KnownForward DEF ForwardStep, Threads
  <2>4. QED
      BY <2>1, <2>2, <2>3, KnownForward DEF Next
<1>3. QED
    BY <1>1, <1>2 DEF KnowsInv

\* Whoever loads, in whatever order, and whatever is evicted meanwhile: when no load is
\* under way, the cache's entries are the experts that have a module, and without a
\* cache only experts of the layer have one.
THEOREM CacheAndModulesAgree == Spec => []CacheKnowsItsModules
<1>1. Init => KnowsInv
    BY DropInit, AssignedInit, KnownInit DEF KnowsInv
<1>2. KnowsInv => CacheKnowsItsModules
  <2> SUFFICES ASSUME KnowsInv, Supervised, jobs = <<>>, \A t \in Threads : thread[t].at = "idle"
               PROVE  IF Enabled THEN Resident = entries ELSE Resident \subseteq layer.todo
      BY DEF CacheKnowsItsModules
  <2>1. Inserting = {} /\ victims = {}
      BY DEF Inserting, KnowsInv, DropInv, OneDrop, Dropping
  <2>2. QED
      BY <2>1 DEF KnowsInv, Known, UncachedInUse
<1>3. QED
    BY <1>1, <1>2, KnowsStep, PTL DEF Spec

-----------------------------------------------------------------------------
(* Supervised materializer threads *)

\* The last copy to the module is the expert's, or the module holds it already.
CopiesTo(m) == {i \in DOMAIN stream : stream[i].module = m}
WillHold(m, e) ==
    IF CopiesTo(m) = {} THEN content[m] = e
    ELSE \E i \in CopiesTo(m) : stream[i].expert = e /\ \A j \in CopiesTo(m) : j <= i

\* The stream has copies only; one from a buffer is waited for, and the buffer still
\* holds what it was submitted for.
ParallelStream ==
    \A i \in DOMAIN stream :
        /\ stream[i].kind = "copy"
        /\ config.copies # "captured" =>
              /\ thread[stream[i].by].at = "attach"
              /\ staging[stream[i].by] = stream[i].expert

\* A thread copies what it has read, to a module that will then hold its expert.
ParallelThreads ==
    \A t \in Threads :
        /\ thread[t].at = "copy" => staging[t] = thread[t].expert
        /\ thread[t].at = "attach" => WillHold(thread[t].module, thread[t].expert)

AttachedWillHold == \A e \in Experts : attached[e] # None => WillHold(attached[e], e)

\* The workers load while the engine thread waits for them.
Parallel ==
    /\ layer.at \notin {"expert", "raised"}
    /\ ParallelStream /\ ParallelThreads /\ AttachedWillHold

\* Jobs whose forward pass always waits for them, and buffers that are not read into
\* while they are copied from.
Ordered == config.prefetch /\ config.failures = 0 /\ config.copies # "queued"

StreamSeq == Seq([kind : {"copy", "compute"}, module : Modules, expert : Experts, by : Threads])

\* A copy that is submitted behind the others.
LEMMA WillHoldCopied ==
    ASSUME stream \in StreamSeq, NEW op \in [kind : {"copy", "compute"}, module : Modules,
                                             expert : Experts, by : Threads],
           stream' = Append(stream, op), UNCHANGED content
    PROVE  /\ WillHold(op.module, op.expert)'
           /\ \A m \in Modules \ {op.module}, e \in Experts : WillHold(m, e) => WillHold(m, e)'
<1> DEFINE n == Len(stream) + 1
<1>1. /\ n \in Nat /\ DOMAIN stream = 1..(n - 1) /\ DOMAIN stream' = 1..n
      /\ stream'[n] = op /\ \A i \in 1..(n - 1) : stream'[i] = stream[i]
    BY DEF StreamSeq
<1> HIDE DEF n
<1>2. n \in 1..n /\ \A j \in 1..n : j <= n
    BY <1>1
<1>3. WillHold(op.module, op.expert)'
  <2>1. n \in CopiesTo(op.module)' /\ \A j \in CopiesTo(op.module)' : j <= n
      BY <1>1, <1>2 DEF CopiesTo
  <2>2. QED
      BY <1>1, <2>1 DEF WillHold
<1>4. ASSUME NEW m \in Modules \ {op.module}, NEW e \in Experts, WillHold(m, e)
      PROVE  WillHold(m, e)'
  <2>1. CopiesTo(m)' = CopiesTo(m)
      BY <1>1 DEF CopiesTo
  <2>2. \A i \in CopiesTo(m) : stream'[i] = stream[i]
      BY <1>1 DEF CopiesTo
  <2>3. QED
      BY <1>4, <2>1, <2>2 DEF WillHold
<1>5. QED
    BY <1>3, <1>4

\* A copy that is made.
LEMMA WillHoldExecuted ==
    ASSUME stream \in StreamSeq, stream # <<>>, stream' = Tail(stream),
           content \in [Modules -> Experts \cup {None}],
           content' = [content EXCEPT ![stream[1].module] = stream[1].expert],
           NEW m \in Modules, NEW e \in Experts, WillHold(m, e)
    PROVE  WillHold(m, e)'
<1> DEFINE n == Len(stream)
<1>1. /\ n \in Nat /\ n >= 1 /\ DOMAIN stream = 1..n /\ DOMAIN stream' = 1..(n - 1)
      /\ \A i \in 1..(n - 1) : stream'[i] = stream[i + 1]
      /\ stream[1].module \in Modules
  <2> DEFINE S == [kind : {"copy", "compute"}, module : Modules, expert : Experts, by : Threads]
  <2>1. stream \in Seq(S)
      BY DEF StreamSeq
  <2> HIDE DEF S
  <2>2. n \in Nat /\ n >= 1 /\ stream[1] \in S /\ Tail(stream) \in Seq(S)
        /\ Len(Tail(stream)) = n - 1
      BY <2>1, ShortSequence
  <2>3. \A i \in 1..Len(Tail(stream)) : Tail(stream)[i] = stream[i + 1]
      BY <2>1, HeadTailProperties
  <2>4. stream[1].module \in Modules
      BY <2>2 DEF S
  <2>5. QED
      BY <2>1, <2>2, <2>3, <2>4
<1> HIDE DEF n
<1>2. content'[m] = IF m = stream[1].module THEN stream[1].expert ELSE content[m]
    BY <1>1
<1>3. \A i \in 1..(n - 1) : i \in CopiesTo(m)' <=> i + 1 \in CopiesTo(m)
    BY <1>1 DEF CopiesTo
<1>4. CopiesTo(m) \subseteq 1..n /\ CopiesTo(m)' \subseteq 1..(n - 1)
    BY <1>1 DEF CopiesTo
<1>5. 1 \in CopiesTo(m) <=> m = stream[1].module
    BY <1>1 DEF CopiesTo
<1>6. CASE CopiesTo(m) = {}
  <2>1. CopiesTo(m)' = {}
      BY <1>1, <1>3, <1>4, <1>6
  <2>2. QED
      BY <1>2, <1>5, <1>6, <2>1 DEF WillHold
<1>7. CASE CopiesTo(m) # {}
  <2>1. PICK i \in CopiesTo(m) : stream[i].expert = e /\ \A j \in CopiesTo(m) : j <= i
      BY <1>7 DEF WillHold
  <2>2. i \in 1..n
      BY <1>4, <2>1
  <2>3. CASE i = 1
    <3>1. CopiesTo(m)' = {}
      <4>1. ASSUME NEW j \in CopiesTo(m)' PROVE FALSE
        <5>1. j \in 1..(n - 1) /\ j + 1 \in CopiesTo(m)
            BY <1>3, <1>4, <4>1
        <5>2. j + 1 <= 1
            BY <2>1, <2>3, <5>1
        <5>3. QED
            BY <1>1, <5>1, <5>2
      <4>2. QED
          BY <4>1
    <3>2. content'[m] = e
        BY <1>2, <1>5, <2>1, <2>3
    <3>3. QED
        BY <3>1, <3>2 DEF WillHold
  <2>4. CASE i # 1
    <3>1. i - 1 \in 1..(n - 1) /\ (i - 1) + 1 = i
        BY <1>1, <2>2, <2>4
    <3>2. i - 1 \in CopiesTo(m)' /\ stream'[i - 1].expert = e
        BY <1>1, <1>3, <2>1, <3>1
    <3>3. ASSUME NEW j \in CopiesTo(m)' PROVE j <= i - 1
      <4>1. j \in 1..(n - 1) /\ j + 1 \in CopiesTo(m)
          BY <1>3, <1>4, <3>3
      <4>2. j + 1 <= i
          BY <2>1, <4>1
      <4>3. QED
          BY <1>1, <2>2, <4>1, <4>2
    <3>4. QED
        BY <3>2, <3>3 DEF WillHold
  <2>5. QED
      BY <2>3, <2>4
<1>8. QED
    BY <1>6, <1>7

\* While the workers load, nobody fills a module that is attached: without a cache only
\* the engine thread drops experts, and it waits.
LEMMA FillsUnattached ==
    ASSUME OwnerInv, layer.at \notin {"expert", "raised"}, NEW t \in Threads, Filling(t)
    PROVE  /\ \A e \in Experts : attached[e] # thread[t].module
           /\ \A u \in Threads \ {t} : Filling(u) => thread[u].module # thread[t].module
<1>1. SoleOwner /\ OneDrop /\ Taking(t)
    BY DEF OwnerInv, DropInv, Filling, Taking
<1>2. ~Enabled => Leaving = {}
    BY <1>1 DEF OneDrop, Leaving, Dropping
<1>3. \A u \in Threads : Filling(u) => Taking(u)
    BY DEF Filling, Taking
<1>4. QED
    BY <1>1, <1>2, <1>3 DEF SoleOwner

\* A step of a worker's call, with the engine thread waiting.
LEMMA ParallelMaterialize ==
    ASSUME OwnerInv, Assigned, Ordered, Parallel, NEW w \in Workers, Materialize(w)
    PROVE  Parallel'
<1> DEFINE e == thread[w].expert
           m == thread[w].module
<1>0. /\ TypeInv /\ TypeOK /\ SoleOwner /\ w \in Threads
      /\ thread \in [Threads -> Call]
      /\ {"hit", "miss", "acquire", "taken", "read", "copy", "attach", "insert", "release",
          "detach", "ready"} \subseteq Stages
      /\ attached \in [Experts -> Modules \cup {None}]
      /\ staging \in [Threads -> Experts \cup {None}]
      /\ stream \in StreamSeq
      /\ layer.at \notin {"expert", "raised"} /\ ParallelStream /\ ParallelThreads /\ AttachedWillHold
    BY DEF OwnerInv, DropInv, TypeInv, TypeOK, Call, Stages, Threads, StreamSeq, Parallel
<1>1. /\ UNCHANGED <<config, layer>> /\ e \in Experts
      /\ \A u \in Threads : thread'[u].expert = thread[u].expert
      /\ \A u \in Threads \ {w} : thread'[u] = thread[u]
    BY <1>0, CallGoesOn DEF TypeInv, Loading
<1>2. \A i \in DOMAIN stream : stream[i].by \in Threads
  <2> DEFINE S == [kind : {"copy", "compute"}, module : Modules, expert : Experts, by : Threads]
  <2>1. stream \in Seq(S)
      BY <1>0 DEF StreamSeq
  <2> HIDE DEF S
  <2>2. \A i \in DOMAIN stream : stream[i] \in S
      BY <2>1
  <2>3. QED
      BY <2>2 DEF S
<1>3. ASSUME UNCHANGED <<content, stream, staging>>,
             thread[w].at # "attach", thread'[w].at \notin {"copy", "attach"},
             \A f \in Experts : attached'[f] # None => attached'[f] = attached[f]
      PROVE  Parallel'
  <2>1. \A mm, f : WillHold(mm, f)' = WillHold(mm, f)
      BY <1>3 DEF WillHold, CopiesTo
  <2>2. ParallelStream'
      BY <1>0, <1>1, <1>2, <1>3 DEF ParallelStream
  <2>3. ParallelThreads'
      BY <1>0, <1>1, <1>3, <2>1 DEF ParallelThreads
  <2>4. AttachedWillHold'
      BY <1>0, <1>3, <2>1 DEF AttachedWillHold
  <2>5. QED
      BY <1>0, <1>1, <2>2, <2>3, <2>4 DEF Parallel
<1>4. CASE Hit(w)
  <2>1. /\ thread[w].at = "look" /\ Step(w, "hit")
        /\ UNCHANGED <<attached, content, stream, staging>>
      BY <1>4 DEF Hit, cacheVars, deviceVars
  <2>2. QED
      BY <1>0, <1>3, <2>1, StepDoes
<1>5. CASE Touch(w)
  <2>1. /\ thread[w].at = "hit" /\ UNCHANGED <<attached, content, stream, staging>>
        /\ thread' = [thread EXCEPT ![w].at = "ready", ![w].module = attached[e]]
      BY <1>5 DEF Touch, deviceVars
  <2>2. attached[e] \in Modules \cup {None}
      BY <1>0, <1>1
  <2>3. thread'[w] = [at |-> "ready", expert |-> e, module |-> attached[e],
                      awaited |-> thread[w].awaited]
      BY <1>0, <2>1, <2>2, StageChanges
  <2>4. QED
      BY <1>3, <2>1, <2>3
<1>6. CASE Acquire(w)
  <2>1. PICK n \in IF pool # {} THEN pool ELSE Fresh :
            thread' = [thread EXCEPT ![w].at = "taken", ![w].module = n]
      BY <1>6 DEF Acquire
  <2>2. /\ n \in Modules /\ thread[w].at = "acquire"
        /\ UNCHANGED <<attached, content, stream, staging>>
      BY <1>0, <1>6, <2>1 DEF Acquire, Fresh, TypeOK, deviceVars
  <2>3. thread'[w] = [at |-> "taken", expert |-> e, module |-> n, awaited |-> thread[w].awaited]
      BY <1>0, <2>1, <2>2, StageChanges
  <2>4. thread'[w].at = "taken"
      BY <2>3
  <2>5. QED
      BY <1>3, <2>2, <2>4
<1>7. CASE Read(w)
  <2>1. /\ thread[w].at = "read" /\ Step(w, "copy")
        /\ staging' = [staging EXCEPT ![w] = e]
        /\ UNCHANGED <<attached, content, stream>>
      BY <1>7 DEF Read, cacheVars, deviceVars
  <2>2. thread'[w].at = "copy" /\ staging'[w] = e
        /\ \A u \in Threads \ {w} : staging'[u] = staging[u]
      BY <1>0, <2>1, StepDoes
  <2>3. \A mm, f : WillHold(mm, f)' = WillHold(mm, f)
      BY <2>1 DEF WillHold, CopiesTo
  <2>4. ParallelStream'
      BY <1>0, <1>1, <1>2, <2>1, <2>2 DEF ParallelStream
  <2>5. ParallelThreads'
      BY <1>0, <1>1, <2>2, <2>3 DEF ParallelThreads
  <2>6. AttachedWillHold'
      BY <1>0, <2>1, <2>3 DEF AttachedWillHold
  <2>7. QED
      BY <1>0, <1>1, <2>4, <2>5, <2>6 DEF Parallel
<1>8. CASE Copy(w)
  <2> DEFINE op == [kind |-> "copy", module |-> m, expert |-> staging[w], by |-> w]
  <2>1. /\ thread[w].at = "copy" /\ Step(w, "attach")
        /\ stream' = Append(stream, op)
        /\ staging' = IF config.copies = "captured" THEN [staging EXCEPT ![w] = None]
                      ELSE staging
        /\ UNCHANGED <<attached, content>>
      BY <1>8 DEF Copy, cacheVars
  <2>2. thread'[w].at = "attach" /\ thread'[w].module = m /\ staging[w] = e /\ m \in Modules
    <3>1. thread'[w].at = "attach" /\ thread'[w].module = m
        BY <1>0, <2>1, StepDoes
    <3>2. QED
        BY <1>0, <2>1, <3>1 DEF ParallelThreads, TypeInv, Loading, Taking
  <2>3. PICK n \in Modules, f \in Experts : n = m /\ f = e
      BY <1>1, <2>2
  <2> DEFINE put == [kind |-> "copy", module |-> n, expert |-> f, by |-> w]
  <2>4. put \in [kind : {"copy", "compute"}, module : Modules, expert : Experts, by : Threads]
        /\ stream' = Append(stream, put)
        /\ put.kind = "copy" /\ put.module = n /\ put.expert = f /\ put.by = w
      BY <1>0, <2>1, <2>2, <2>3
  <2> HIDE DEF put
  <2>5. /\ WillHold(n, f)'
        /\ \A nn \in Modules \ {n}, ff \in Experts : WillHold(nn, ff) => WillHold(nn, ff)'
      BY <1>0, <2>1, <2>4, WillHoldCopied
  <2>6. ParallelStream'
    <3>1. /\ DOMAIN stream' = DOMAIN stream \cup {Len(stream) + 1}
          /\ stream'[Len(stream) + 1] = put
          /\ \A i \in DOMAIN stream : stream'[i] = stream[i]
        BY <1>0, <2>4 DEF StreamSeq
    <3>2. ASSUME NEW i \in DOMAIN stream
          PROVE  /\ stream'[i].kind = "copy"
                 /\ config'.copies # "captured" =>
                       /\ thread'[stream'[i].by].at = "attach"
                       /\ staging'[stream'[i].by] = stream'[i].expert
      <4>1. config.copies # "captured" => stream[i].by # w
          BY <1>0, <2>1 DEF ParallelStream
      <4>2. QED
          BY <1>0, <1>1, <1>2, <2>1, <3>1, <4>1 DEF ParallelStream
    <3>3. config'.copies # "captured" => thread'[put.by].at = "attach" /\ staging'[put.by] = put.expert
        BY <1>1, <2>1, <2>2, <2>3, <2>4
    <3>4. QED
        BY <2>4, <3>1, <3>2, <3>3 DEF ParallelStream
  <2>7. ParallelThreads'
    <3>1. ASSUME NEW u \in Threads \ {w}
          PROVE  /\ thread'[u].at = "copy" => staging'[u] = thread'[u].expert
                 /\ thread'[u].at = "attach" => WillHold(thread[u].module, thread[u].expert)'
      <4>1. thread'[u] = thread[u] /\ staging'[u] = staging[u]
          BY <1>0, <1>1, <2>1
      <4>2. ASSUME thread[u].at = "attach"
            PROVE  WillHold(thread[u].module, thread[u].expert)'
        <5>1. /\ thread[u].module \in Modules \ {n} /\ thread[u].expert \in Experts
          <6>1. Filling(w) /\ Filling(u) /\ thread[u].module # m
              BY <1>0, <2>1, <4>2, FillsUnattached DEF Filling
          <6>2. QED
              BY <1>0, <2>3, <4>2, <6>1 DEF TypeInv, Loading, Taking
        <5>2. PICK nn, ff : nn = thread[u].module /\ ff = thread[u].expert
            OBVIOUS
        <5>3. WillHold(nn, ff)
            BY <1>0, <4>2, <5>2 DEF ParallelThreads
        <5>4. WillHold(nn, ff)'
            BY <2>5, <5>1, <5>2, <5>3
        <5>5. QED
            BY <4>1, <5>2, <5>4
      <4>3. QED
          BY <1>0, <4>1, <4>2 DEF ParallelThreads
    <3>2. WillHold(thread[w].module, thread[w].expert)'
        BY <1>0, <1>1, <2>2, <2>3, <2>5
    <3>3. QED
        BY <2>2, <3>1, <3>2 DEF ParallelThreads
  <2>8. AttachedWillHold'
    <3>1. \A ff \in Experts : attached[ff] # None => attached[ff] \in Modules \ {n}
        BY <1>0, <2>1, <2>3, FillsUnattached DEF Filling
    <3>2. QED
        BY <1>0, <2>1, <2>5, <3>1 DEF AttachedWillHold
  <2>9. QED
      BY <1>0, <1>1, <2>6, <2>7, <2>8 DEF Parallel
<1>9. CASE Attach(w)
  <2>1. /\ thread[w].at = "attach" /\ Step(w, "insert")
        /\ config.copies = "blocking" => \A i \in DOMAIN stream : stream[i].by # w
        /\ attached' = [attached EXCEPT ![e] = m]
        /\ UNCHANGED <<content, stream, staging>>
      BY <1>9 DEF Attach, deviceVars
  <2>2. thread'[w].at = "insert" /\ WillHold(m, e)
      BY <1>0, <2>1, StepDoes DEF ParallelThreads
  <2>3. \A f \in Experts : attached'[f] = IF f = e THEN m ELSE attached[f]
      BY <1>0, <2>1
  <2>4. \A mm, f : WillHold(mm, f)' = WillHold(mm, f)
      BY <2>1 DEF WillHold, CopiesTo
  <2>5. config.copies \in {"blocking", "captured"}
      BY <1>0, ConfigAssumption DEF Ordered, TypeOK
  <2>6. ParallelStream'
      BY <1>0, <1>1, <1>2, <2>1, <2>5 DEF ParallelStream
  <2>7. ParallelThreads'
      BY <1>0, <1>1, <2>1, <2>2, <2>4 DEF ParallelThreads
  <2>8. AttachedWillHold'
      BY <1>0, <2>2, <2>3, <2>4 DEF AttachedWillHold
  <2>9. QED
      BY <1>0, <1>1, <2>6, <2>7, <2>8 DEF Parallel
<1>10. CASE Miss(w) \/ Record(w) \/ Insert(w) \/ Release(w) \/ Detach(w)
  <2>1. PICK at \in {"miss", "acquire", "read", "release", "detach", "ready"} : Step(w, at)
      BY <1>10 DEF Miss, Record, Insert, Release, Detach
  <2>2. /\ thread[w].at \in {"look", "miss", "taken", "insert", "release", "detach"}
        /\ UNCHANGED <<content, stream, staging>>
      BY <1>10 DEF Miss, Record, Insert, Release, Detach, cacheVars, deviceVars
  <2>3. \A f \in Experts : attached'[f] # None => attached'[f] = attached[f]
      BY <1>10 DEF Miss, Record, Insert, Release, Detach, DetachedVictims, cacheVars
  <2>4. thread'[w].at = at
    <3>1. at \in Stages
        BY <1>0
    <3>2. QED
        BY <1>0, <2>1, <3>1, StepDoes
  <2>5. QED
      BY <1>3, <2>1, <2>2, <2>3, <2>4
<1>11. QED
    BY <1>4, <1>5, <1>6, <1>7, <1>8, <1>9, <1>10 DEF Materialize

\* A worker begins or ends a job.
LEMMA ParallelWorker ==
    ASSUME OwnerInv, Ordered, Parallel, NEW w \in Workers, TakeJob(w) \/ JobDone(w)
    PROVE  Parallel'
<1>0. /\ thread \in [Threads -> Call] /\ w \in Threads
      /\ \A i \in DOMAIN stream : stream[i].by \in Threads
      /\ Idle.at = "idle" /\ \A job : Looking(job).at = "look"
      /\ layer.at \notin {"expert", "raised"} /\ ParallelStream /\ ParallelThreads /\ AttachedWillHold
  <2> DEFINE S == [kind : {"copy", "compute"}, module : Modules, expert : Experts, by : Threads]
  <2>1. stream \in Seq(S)
      BY DEF OwnerInv, DropInv, TypeInv, TypeOK
  <2> HIDE DEF S
  <2>2. \A i \in DOMAIN stream : stream[i] \in S
      BY <2>1
  <2>3. \A i \in DOMAIN stream : stream[i].by \in Threads
      BY <2>2 DEF S
  <2>4. QED
      BY <2>3 DEF OwnerInv, DropInv, TypeInv, TypeOK, Call, Threads, Parallel, Idle, Looking
<1>1. UNCHANGED <<config, attached, content, stream, staging, layer>>
    BY DEF TakeJob, JobDone, cacheVars, deviceVars
<1>2. PICK c : thread' = [thread EXCEPT ![w] = c] /\ c.at \in {"idle", "look"}
    BY <1>0 DEF TakeJob, JobDone, Settle
<1>3. thread[w].at # "attach"
    BY DEF TakeJob, JobDone
<1>4. thread'[w].at \in {"idle", "look"} /\ \A u \in Threads \ {w} : thread'[u] = thread[u]
    BY <1>0, <1>2
<1>5. \A m, e : WillHold(m, e)' = WillHold(m, e)
    BY <1>1 DEF WillHold, CopiesTo
<1>6. ParallelStream'
    BY <1>0, <1>1, <1>3, <1>4 DEF ParallelStream
<1>7. ParallelThreads'
    BY <1>0, <1>1, <1>4, <1>5 DEF ParallelThreads
<1>8. AttachedWillHold'
    BY <1>0, <1>1, <1>5 DEF AttachedWillHold
<1>9. QED
    BY <1>0, <1>1, <1>6, <1>7, <1>8 DEF Parallel

\* The stream makes its next copy, from a buffer that has not changed.
LEMMA ParallelExecute ==
    ASSUME OwnerInv, Ordered, Parallel, Execute
    PROVE  Parallel'
<1>0. /\ TypeOK /\ Loading /\ thread \in [Threads -> Call] /\ stream \in StreamSeq
      /\ layer.at \notin {"expert", "raised"} /\ ParallelStream /\ ParallelThreads /\ AttachedWillHold
    BY DEF OwnerInv, DropInv, TypeInv, TypeOK, Call, StreamSeq, Parallel
<1>1. /\ stream # <<>> /\ Head(stream) = stream[1]
      /\ DOMAIN stream' = 1..(Len(stream) - 1) /\ DOMAIN stream = 1..Len(stream)
      /\ Len(stream) \in Nat /\ Len(stream) >= 1
      /\ \A i \in DOMAIN stream' : stream'[i] = stream[i + 1]
  <2> DEFINE S == [kind : {"copy", "compute"}, module : Modules, expert : Experts, by : Threads]
  <2>1. stream \in Seq(S) /\ stream # <<>> /\ stream' = Tail(stream)
      BY <1>0 DEF StreamSeq, Execute
  <2> HIDE DEF S
  <2>2. /\ Len(stream) \in Nat /\ Len(stream) >= 1 /\ Head(stream) = stream[1]
        /\ stream' \in Seq(S) /\ Len(stream') = Len(stream) - 1
      BY <2>1, ShortSequence
  <2>3. \A i \in 1..Len(stream') : stream'[i] = stream[i + 1]
      BY <2>1, HeadTailProperties
  <2>4. QED
      BY <2>1, <2>2, <2>3
<1>2. stream[1].kind = "copy" /\ Source(stream[1]) = stream[1].expert
    BY <1>0, <1>1 DEF ParallelStream, Source
<1>3. /\ stream' = Tail(stream)
      /\ content' = [content EXCEPT ![stream[1].module] = stream[1].expert]
      /\ UNCHANGED <<config, attached, staging, thread, layer>>
    BY <1>1, <1>2 DEF Execute, cacheVars, layerVars
<1>4. ASSUME NEW m \in Modules, NEW e \in Experts, WillHold(m, e)
      PROVE  WillHold(m, e)'
    BY <1>0, <1>1, <1>3, <1>4, WillHoldExecuted DEF TypeOK
<1>5. ParallelStream'
  <2>1. \A i \in DOMAIN stream' : i + 1 \in DOMAIN stream /\ stream'[i] = stream[i + 1]
      BY <1>1
  <2>2. QED
      BY <1>0, <1>3, <2>1 DEF ParallelStream
<1>6. ParallelThreads'
  <2>1. ASSUME NEW t \in Threads, thread[t].at = "attach"
        PROVE  WillHold(thread[t].module, thread[t].expert)'
    <3>1. PICK m \in Modules, e \in Experts : m = thread[t].module /\ e = thread[t].expert
        BY <1>0, <2>1 DEF Loading, Taking
    <3>2. WillHold(m, e)'
        BY <1>0, <1>4, <2>1, <3>1 DEF ParallelThreads
    <3>3. QED
        BY <1>3, <3>1, <3>2
  <2>2. QED
      BY <1>0, <1>3, <2>1 DEF ParallelThreads
<1>7. AttachedWillHold'
  <2>1. \A e \in Experts : attached[e] # None => attached[e] \in Modules
      BY <1>0 DEF TypeOK
  <2>2. QED
      BY <1>0, <1>3, <1>4, <2>1 DEF AttachedWillHold
<1>8. QED
    BY <1>0, <1>3, <1>5, <1>6, <1>7 DEF Parallel

\* With nothing in the stream, what is attached holds its expert.
LEMMA NothingToCopy ==
    ASSUME Inline \/ Parallel, stream = <<>>
    PROVE  \A e \in Experts : attached[e] # None => content[attached[e]] = e
<1>1. DOMAIN stream = {}
    OBVIOUS
<1>2. \A m : CopiesTo(m) = {}
    BY <1>1 DEF CopiesTo
<1>3. QED
    BY <1>2 DEF Inline, AttachedHold, Holds, Pending, Parallel, AttachedWillHold, WillHold

\* A layer begins: its experts become jobs, or the engine thread loads its only one.
LEMMA OrderedStart ==
    ASSUME OwnerInv, Assigned, Inline \/ Parallel, NEW A \in Batches, StartLayer(A)
    PROVE  Parallel'
<1>1. /\ layer.at = "idle" /\ stream = <<>> /\ layer'.at \notin {"expert", "raised"}
      /\ UNCHANGED <<config, attached, content, stream, staging, thread>>
    BY DEF StartLayer, cacheVars, deviceVars
<1>2. \A t \in Threads : thread[t].at = "idle"
  <2>1. NoWorkers /\ Main \notin Using
      BY <1>1, NobodyWorks DEF OwnerInv, DropInv, Assigned
  <2>2. QED
      BY <2>1 DEF NoWorkers, Using, Threads
<1>3. DOMAIN stream' = {}
    BY <1>1
<1>4. AttachedWillHold'
  <2>1. \A m : CopiesTo(m)' = {}
      BY <1>3 DEF CopiesTo
  <2>2. \A e \in Experts : attached[e] # None => content[attached[e]] = e
      BY <1>1, NothingToCopy
  <2>3. QED
      BY <1>1, <2>1, <2>2 DEF AttachedWillHold, WillHold
<1>5. ParallelStream' /\ ParallelThreads'
    BY <1>1, <1>2, <1>3 DEF ParallelStream, ParallelThreads
<1>6. QED
    BY <1>1, <1>4, <1>5 DEF Parallel

\* The engine thread goes on alone.
LEMMA OrderedNext ==
    ASSUME OwnerInv, Assigned, Inline \/ Parallel, NextExpert
    PROVE  Inline'
<1>0. thread \in [Threads -> Call] /\ Main \in Threads /\ Workers = Threads \ {Main}
    BY MainAssumption DEF OwnerInv, DropInv, TypeInv, TypeOK, Call, Threads
<1>1. /\ layer.at = "experts" /\ stream = <<>>
      /\ UNCHANGED <<config, attached, content, stream, staging, jobs>>
    BY DEF NextExpert, cacheVars, deviceVars
<1>2. PICK e : thread' = [thread EXCEPT ![Main] = Looking(Job(e))]
    BY DEF NextExpert
<1>3. thread'[Main].at = "look" /\ \A w \in Workers : thread'[w] = thread[w]
    BY <1>0, <1>2 DEF Looking
<1>4. NoWorkers
    BY <1>1, NobodyWorks DEF OwnerInv, DropInv
<1>5. NoWorkers' /\ InlineThread'
    BY <1>1, <1>3, <1>4 DEF NoWorkers, InlineThread, Dropping
<1>6. InlineStream'
  <2>1. stream' = <<>>
      BY <1>1
  <2>2. QED
      BY <2>1 DEF InlineStream
<1>7. AttachedHold'
  <2>1. \A f \in Experts : attached[f] # None => content[attached[f]] = f
      BY <1>1, NothingToCopy
  <2>2. QED
      BY <1>1, <2>1 DEF AttachedHold, Holds, Pending
<1>8. QED
    BY <1>5, <1>6, <1>7 DEF Inline

\* Steps that change nothing but where the forward pass stands, or nothing at all.
LEMMA OrderedWaits ==
    ASSUME Inline \/ Parallel, Prefetched \/ EndLayer \/ UNCHANGED vars
    PROVE  (Inline \/ Parallel)'
<1>1. /\ UNCHANGED <<config, attached, content, stream, staging, thread, jobs>>
      /\ layer'.at \in {"expert", "raised"} => UNCHANGED layer
  <2>1. CASE Prefetched
    <3>1. layer' = [layer EXCEPT !.at = "experts", !.waits = {}] /\ layer.at = "prefetch"
        BY <2>1 DEF Prefetched
    <3>2. QED
        BY <2>1, <3>1 DEF Prefetched, cacheVars, deviceVars
  <2>2. CASE EndLayer
      BY <2>2 DEF EndLayer, NoLayer, cacheVars, deviceVars
  <2>3. CASE UNCHANGED vars
      BY <2>3 DEF vars, cacheVars, deviceVars, layerVars
  <2>4. QED
      BY <2>1, <2>2, <2>3
<1>2. CASE Inline
  <2>1. NoWorkers' /\ InlineThread'
      BY <1>1, <1>2 DEF Inline, NoWorkers, InlineThread, OnlyItsCopy, Holds, Pending, Dropping, Enabled
  <2>2. QED
      BY <1>1, <1>2, <2>1, InlineKept
<1>3. CASE Parallel
  <2>1. \A m, e : WillHold(m, e)' = WillHold(m, e)
      BY <1>1 DEF WillHold, CopiesTo
  <2>2. QED
      BY <1>1, <1>3, <2>1 DEF Parallel, ParallelStream, ParallelThreads, AttachedWillHold
<1>4. QED
    BY <1>2, <1>3

\* Nothing raises.
LEMMA NothingRaises ==
    ASSUME TypeInv, Ordered
    PROVE  ~Raise
<1>1. Raise => failed < config.failures /\ failed \in Nat /\ config.failures \in Nat
    BY ConfigAssumption DEF Raise, TypeInv, TypeOK
<1>2. QED
    BY <1>1 DEF Ordered

LEMMA OrderedForward ==
    ASSUME OwnerInv, Assigned, Known, Ordered, Inline \/ Parallel,
           ForwardStep \/ (\E A \in Batches : StartLayer(A)) \/ UNCHANGED vars
    PROVE  (Inline \/ Parallel)'
<1>0. /\ Main \in Threads /\ TypeInv
      /\ thread[Main].at # "idle" => layer.at \in {"expert", "raised"}
    BY DEF Threads, OwnerInv, DropInv, OneDrop
<1>1. ~Raise
    BY <1>0, NothingRaises
<1>2. CASE Materialize(Main)
  <2>1. thread[Main].at # "idle"
      BY <1>0, <1>2, CallGoesOn
  <2>2. Inline
      BY <1>0, <2>1 DEF Parallel
  <2>3. QED
      BY <1>2, <2>2, InlineMaterialize
<1>3. CASE Compute
  <2>1. thread[Main].at # "idle"
      BY <1>3 DEF Compute
  <2>2. Inline
      BY <1>0, <2>1 DEF Parallel
  <2>3. QED
      BY <1>3, <2>2, InlineCompute
<1>8. CASE DropUsed \/ DropRaises
  <2>1. thread[Main].at # "idle"
      BY <1>8 DEF DropUsed, DropRaises
  <2>2. Inline
      BY <1>0, <2>1 DEF Parallel
  <2>3. QED
      BY <1>8, <2>2, InlineForward
<1>4. ~ComputeRaises
    BY <1>1 DEF ComputeRaises, Known, EngineHolds
<1>5. ~LoadRaises
    BY <1>1 DEF LoadRaises
<1>6. ~PrefetchRaises
    BY DEF PrefetchRaises, Assigned
<1>7. QED
    BY <1>2, <1>3, <1>4, <1>5, <1>6, <1>8, OrderedStart, OrderedNext, OrderedWaits DEF ForwardStep

LEMMA OrderedWorker ==
    ASSUME OwnerInv, Assigned, Ordered, Inline \/ Parallel, NEW w \in Workers, WorkerStep(w)
    PROVE  Parallel'
<1>1. TypeInv /\ ~Raise
    BY NothingRaises DEF OwnerInv, DropInv
<1>2. ~NoWorkers
  <2>1. TakeJob(w) => jobs # <<>>
      BY DEF TakeJob
  <2>2. Materialize(w) \/ JobDone(w) => thread[w].at # "idle"
      BY DEF Materialize, Hit, Touch, Miss, Record, Acquire, Read, Copy, Attach, Insert,
         Release, Detach, JobDone
  <2>3. QED
      BY <1>1, <2>1, <2>2 DEF WorkerStep, JobRaises, NoWorkers
<1>3. Parallel
    BY <1>2 DEF Inline
<1>4. QED
    BY <1>1, <1>3, ParallelMaterialize, ParallelWorker DEF WorkerStep, JobRaises

OrderInv == OwnerInv /\ KnowsInv /\ (Ordered => Inline \/ Parallel)

LEMMA OrderStep == OrderInv /\ [Next]_vars => OrderInv'
<1> SUFFICES ASSUME OrderInv, [Next]_vars PROVE OrderInv'
    OBVIOUS
<1>1. OwnerInv' /\ KnowsInv'
    BY OwnerStep, KnowsStep DEF OrderInv
<1>2. ASSUME Ordered' PROVE (Inline \/ Parallel)'
  <2>1. Ordered
      BY <1>2, ConfigKept DEF Ordered
  <2>2. OwnerInv /\ Assigned /\ Known /\ (Inline \/ Parallel)
      BY <2>1 DEF OrderInv, KnowsInv, Supervised, Ordered
  <2>3. CASE Execute
      BY <2>1, <2>2, <2>3, InlineExecute, ParallelExecute
  <2>4. CASE ForwardStep \/ (\E A \in Batches : StartLayer(A)) \/ UNCHANGED vars
      BY <2>1, <2>2, <2>4, OrderedForward
  <2>5. CASE \E w \in Workers : WorkerStep(w)
      BY <2>1, <2>2, <2>5, OrderedWorker
  <2>6. QED
      BY <2>3, <2>4, <2>5 DEF Next
<1>3. QED
    BY <1>1, <1>2 DEF OrderInv

\* Whatever the materializer threads read and copy at the same time, and whatever is
\* evicted and reused meanwhile: an expert is computed with its own weights, if no load
\* of a prefetch fails and no worker reads into a buffer that is still copied from.
THEOREM SupervisedComputesRight == Spec => []SupervisedComputeIsRight
<1>1. Init => InlineInv /\ OrderInv
  <2>1. Init => OwnerInv
      BY DropInit DEF Init, OwnerInv, SoleOwner, Taking, Idle
  <2>2. QED
      BY <2>1, DropInit, AssignedInit, KnownInit, InlineInit DEF InlineInv, OrderInv, KnowsInv
<1>2. InlineInv /\ OrderInv => SupervisedComputeIsRight
  <2> SUFFICES ASSUME InlineInv, OrderInv, Supervised,
                      ~(config.prefetch /\ config.copies = "queued"),
                      stream # <<>>, Head(stream).kind = "compute"
               PROVE  content[Head(stream).module] = Head(stream).expert
      BY DEF SupervisedComputeIsRight, ComputeUsesOwnWeights
  <2>1. Head(stream) = stream[1] /\ 1 \in DOMAIN stream
      BY DEF InlineInv, OwnerInv, DropInv, TypeInv, TypeOK
  <2>2. Inline \/ Parallel
      BY DEF InlineInv, OrderInv, Ordered, Supervised
  <2>3. ~Parallel
      BY <2>1 DEF Parallel, ParallelStream
  <2>4. QED
      BY <2>1, <2>2, <2>3 DEF Inline, InlineStream
<1>3. QED
    BY <1>1, <1>2, InlineStep, OrderStep, PTL DEF Spec

-----------------------------------------------------------------------------
(* The cache of the trace replay *)

\* recent says of any two of the experts S which one was used after the other.
Sorts(recent, S) ==
    /\ \A f \in S : f \notin recent[f]
    /\ \A f, g \in S : f = g \/ f \in recent[g] \/ g \in recent[f]
    /\ \A f, g, h \in S : g \in recent[f] /\ h \in recent[g] => h \in recent[f]

\* Each expert of an ordered set has a rank of its own, and each rank an expert.
LEMMA UseRanks ==
    ASSUME NEW S, IsFiniteSet(S), NEW recent, Sorts(recent, S)
    PROVE  /\ Cardinality(S) \in Nat
           /\ \A e \in S : Cardinality(recent[e] \cap S) \in 0..(Cardinality(S) - 1)
           /\ \A e, f \in S :
                 f \in recent[e] => Cardinality(recent[f] \cap S) < Cardinality(recent[e] \cap S)
           /\ \A k \in 0..(Cardinality(S) - 1) :
                 \E e \in S : Cardinality(recent[e] \cap S) = k
<1> DEFINE rank(e) == Cardinality(recent[e] \cap S)
           n == Cardinality(S)
<1>1. n \in Nat
    BY FS_CardinalityType
<1>2. ASSUME NEW e \in S
      PROVE  IsFiniteSet(recent[e] \cap S) /\ rank(e) \in 0..(n - 1)
  <2>1. recent[e] \cap S \subseteq S /\ e \in S /\ e \notin recent[e] \cap S
    BY DEF Sorts
  <2>2. IsFiniteSet(recent[e] \cap S) /\ rank(e) <= n /\ rank(e) # n
    BY <2>1, FS_Subset
  <2>3. rank(e) \in Nat
    BY <2>2, FS_CardinalityType
  <2> HIDE DEF rank, n
  <2>4. QED
    BY <1>1, <2>2, <2>3
<1>3. ASSUME NEW e \in S, NEW f \in S, f \in recent[e]
      PROVE  rank(f) < rank(e)
  <2>1. recent[f] \cap S \subseteq recent[e] \cap S
    BY <1>3 DEF Sorts
  <2>2. f \in recent[e] \cap S /\ f \notin recent[f] \cap S
    BY <1>3 DEF Sorts
  <2>3. rank(f) <= rank(e) /\ rank(f) # rank(e)
    BY <1>2, <2>1, <2>2, FS_Subset
  <2>4. rank(f) \in 0..(n - 1) /\ rank(e) \in 0..(n - 1)
    BY <1>2
  <2> HIDE DEF rank, n
  <2>5. QED
    BY <1>1, <2>3, <2>4
<1>4. \A e, f \in S : rank(e) = rank(f) => e = f
  <2> SUFFICES ASSUME NEW e \in S, NEW f \in S, rank(e) = rank(f), e # f PROVE FALSE
    OBVIOUS
  <2>1. e \in recent[f] \/ f \in recent[e]
    BY DEF Sorts
  <2>2. rank(e) \in 0..(n - 1) /\ rank(f) \in 0..(n - 1)
    BY <1>2
  <2>3. rank(e) < rank(f) \/ rank(f) < rank(e)
    BY <1>3, <2>1
  <2> HIDE DEF rank, n
  <2>4. QED
    BY <1>1, <2>2, <2>3
<1>5. \A k \in 0..(n - 1) : \E e \in S : rank(e) = k
  <2> DEFINE at == [e \in S |-> rank(e)]
  <2>1. IsFiniteSet(0..(n - 1)) /\ Cardinality(0..(n - 1)) = n
    <3>1. /\ IsFiniteSet(0..(n - 1))
          /\ Cardinality(0..(n - 1)) = IF 0 > n - 1 THEN 0 ELSE (n - 1) - 0 + 1
      <4> HIDE DEF n
      <4>1. 0 \in Int /\ n - 1 \in Int
          BY <1>1
      <4>2. QED
          BY <4>1, FS_Interval
    <3> HIDE DEF n
    <3>2. (IF 0 > n - 1 THEN 0 ELSE (n - 1) - 0 + 1) = n
        BY <1>1
    <3>3. QED
        BY <3>1, <3>2
  <2>2. at \in [S -> 0..(n - 1)] /\ \A e, f \in S : at[e] = at[f] => e = f
    BY <1>2, <1>4
  <2>3. at \in Injection(S, 0..(n - 1))
    BY <2>2 DEF Injection, IsInjective
  <2>4. at \in Surjection(S, 0..(n - 1))
    BY <2>1, <2>3, FS_Injection
  <2>5. \A k \in 0..(n - 1) : \E e \in S : at[e] = k
    BY <2>4 DEF Surjection
  <2> HIDE DEF n
  <2>6. QED
    BY <2>5
<1> HIDE DEF n, rank
<1>6. QED
    BY <1>1, <1>2, <1>3, <1>5 DEF n, rank

\* The list of an ordered set: each expert once, those used later behind it.
LEMMA ByUseLists ==
    ASSUME NEW S, IsFiniteSet(S), NEW recent, Sorts(recent, S)
    PROVE  /\ Cardinality(S) \in Nat
           /\ ByUse(S, recent) \in [1..Cardinality(S) -> S]
           /\ \A i \in 1..Cardinality(S) :
                 Cardinality(recent[ByUse(S, recent)[i]] \cap S) = Cardinality(S) - i
           /\ \A e \in S : \E i \in 1..Cardinality(S) : ByUse(S, recent)[i] = e
           /\ \A i, j \in 1..Cardinality(S) : ByUse(S, recent)[i] = ByUse(S, recent)[j] => i = j
           /\ \A i, j \in 1..Cardinality(S) :
                 i < j => ByUse(S, recent)[j] \in recent[ByUse(S, recent)[i]]
<1> DEFINE rank(e) == Cardinality(recent[e] \cap S)
           n == Cardinality(S)
           s == ByUse(S, recent)
<1>1. /\ n \in Nat
      /\ \A e \in S : rank(e) \in 0..(n - 1)
      /\ \A e, f \in S : f \in recent[e] => rank(f) < rank(e)
      /\ \A k \in 0..(n - 1) : \E e \in S : rank(e) = k
    BY UseRanks
<1>2. \A e, f \in S : e = f \/ e \in recent[f] \/ f \in recent[e]
    BY DEF Sorts
<1>3. s = [i \in 1..n |-> CHOOSE e \in S : rank(e) = n - i]
    BY DEF ByUse
<1> HIDE DEF rank, n, s
<1>4. \A i \in 1..n : s[i] \in S /\ rank(s[i]) = n - i
  <2> SUFFICES ASSUME NEW i \in 1..n PROVE s[i] \in S /\ rank(s[i]) = n - i
    OBVIOUS
  <2>1. n - i \in 0..(n - 1)
    BY <1>1
  <2>2. \E e \in S : rank(e) = n - i
    BY <1>1, <2>1
  <2>3. s[i] = CHOOSE e \in S : rank(e) = n - i
    BY <1>3
  <2>4. QED
    BY <2>2, <2>3
<1>5. s \in [1..n -> S]
    BY <1>3, <1>4
<1>6. \A i, j \in 1..n : s[i] = s[j] => i = j
  <2> SUFFICES ASSUME NEW i \in 1..n, NEW j \in 1..n, s[i] = s[j] PROVE i = j
    OBVIOUS
  <2>1. n - i = n - j
    BY <1>4
  <2>2. QED
    BY <1>1, <2>1
<1>7. \A e, f \in S : rank(e) = rank(f) => e = f
  <2> SUFFICES ASSUME NEW e \in S, NEW f \in S, rank(e) = rank(f), e # f PROVE FALSE
    OBVIOUS
  <2>1. rank(e) \in Int /\ rank(f) \in Int
    BY <1>1
  <2>2. rank(e) < rank(f) \/ rank(f) < rank(e)
    BY <1>1, <1>2
  <2>3. QED
    BY <2>1, <2>2
<1>8. \A e \in S : \E i \in 1..n : s[i] = e
  <2> SUFFICES ASSUME NEW e \in S PROVE \E i \in 1..n : s[i] = e
    OBVIOUS
  <2> DEFINE i == n - rank(e)
  <2>1. i \in 1..n /\ n - i = rank(e)
    BY <1>1
  <2>2. rank(s[i]) = rank(e) /\ s[i] \in S
    BY <1>4, <2>1
  <2>3. s[i] = e
    BY <1>7, <2>2
  <2>4. QED
    BY <2>1, <2>3
<1>9. \A i, j \in 1..n : i < j => s[j] \in recent[s[i]]
  <2> SUFFICES ASSUME NEW i \in 1..n, NEW j \in 1..n, i < j PROVE s[j] \in recent[s[i]]
    OBVIOUS
  <2>1. s[i] \in S /\ s[j] \in S /\ rank(s[i]) = n - i /\ rank(s[j]) = n - j
    BY <1>4
  <2>2. ~(rank(s[i]) < rank(s[j])) /\ rank(s[i]) # rank(s[j])
    BY <1>1, <2>1
  <2>3. QED
    BY <1>1, <1>2, <2>1, <2>2
<1>10. QED
    BY <1>1, <1>4, <1>5, <1>6, <1>8, <1>9 DEF rank, n, s

\* A sequence of as many experts as there are, each used after those before it, is
\* their list.
LEMMA ByUseIs ==
    ASSUME NEW S, IsFiniteSet(S), NEW recent, Sorts(recent, S),
           NEW q \in [1..Cardinality(S) -> S],
           \A i, j \in 1..Cardinality(S) : i < j => q[j] \in recent[q[i]]
    PROVE  q = ByUse(S, recent)
<1> DEFINE n == Cardinality(S)
           s == ByUse(S, recent)
           rank(e) == Cardinality(recent[e] \cap S)
<1>1. /\ n \in Nat /\ s \in [1..n -> S]
      /\ \A i \in 1..n : rank(s[i]) = n - i
      /\ \A e \in S : \E i \in 1..n : s[i] = e
    BY ByUseLists
<1>2. \A i, j \in 1..n : i < j => q[j] \in recent[q[i]]
    OBVIOUS
<1>3. \A i, j \in 1..n : q[i] = q[j] => i = j
  <2> SUFFICES ASSUME NEW i \in 1..n, NEW j \in 1..n, q[i] = q[j], i # j PROVE FALSE
    OBVIOUS
  <2>1. i < j \/ j < i
    BY <1>1
  <2>2. q[i] \in S /\ q[j] \in S
    OBVIOUS
  <2>3. q[i] \notin recent[q[i]]
    BY <2>2 DEF Sorts
  <2> HIDE DEF n
  <2>4. QED
    BY <1>2, <2>1, <2>3
<1>4. \A e \in S : \E i \in 1..n : q[i] = e
  <2>1. q \in Injection(1..n, S)
    BY <1>3 DEF Injection, IsInjective
  <2>2. IsFiniteSet(1..n) /\ Cardinality(1..n) = n
    BY <1>1, FS_Interval
  <2>3. q \in Surjection(1..n, S)
    BY <2>1, <2>2, FS_Injection
  <2> HIDE DEF n
  <2>4. QED
    BY <2>3 DEF Surjection
<1>5. \A i \in 1..n : rank(q[i]) = n - i
  <2> SUFFICES ASSUME NEW i \in 1..n PROVE rank(q[i]) = n - i
    OBVIOUS
  <2>0. q \in [1..n -> S] /\ i \in Nat /\ n \in Nat /\ i <= n
    BY <1>1
  <2>00. \A e, f \in S : e = f \/ e \in recent[f] \/ f \in recent[e]
    BY DEF Sorts
  <2>01. \A e, f \in S : f \in recent[e] => f # e /\ ~(e \in recent[f])
    BY DEF Sorts
  <2> HIDE DEF n
  <2> DEFINE later == (i + 1)..n
             g == [j \in later |-> q[j]]
             T == recent[q[i]] \cap S
  <2>1. \A j \in later : j \in 1..n /\ i < j
    BY <2>0
  <2>2. g \in [later -> T]
    BY <1>2, <2>0, <2>1
  <2>3. \A j, k \in later : g[j] = g[k] => j = k
    BY <1>3, <2>1
  <2>4. \A f \in T : \E j \in later : g[j] = f
    <3> SUFFICES ASSUME NEW f \in T PROVE \E j \in later : g[j] = f
        OBVIOUS
    <3>1. PICK j \in 1..n : q[j] = f
        BY <1>4
    <3>2. q[i] \in S /\ q[j] \in S /\ q[j] \in recent[q[i]]
        BY <2>0, <3>1
    <3>3. ~(j < i) /\ j # i
        BY <1>2, <2>01, <3>1, <3>2
    <3>4. j \in later
        BY <2>0, <3>3
    <3>5. QED
        BY <3>1, <3>4
  <2> HIDE DEF g, T
  <2>5. g \in Bijection(later, T)
    BY <2>2, <2>3, <2>4 DEF Bijection, Injection, IsInjective, Surjection
  <2>6. IsFiniteSet(later) /\ Cardinality(later) = n - i
    <3>1. /\ IsFiniteSet((i + 1)..n)
          /\ Cardinality((i + 1)..n) = IF i + 1 > n THEN 0 ELSE n - (i + 1) + 1
        BY <2>0, FS_Interval
    <3>2. (IF i + 1 > n THEN 0 ELSE n - (i + 1) + 1) = n - i
        BY <2>0
    <3>3. QED
        BY <3>1, <3>2
  <2>7. Cardinality(T) = n - i
    BY <2>5, <2>6, FS_Bijection DEF ExistsBijection
  <2>8. QED
    BY <2>7 DEF T
<1>6. \A e, f \in S : rank(e) = rank(f) => e = f
  <2> SUFFICES ASSUME NEW e \in S, NEW f \in S, rank(e) = rank(f), e # f PROVE FALSE
    OBVIOUS
  <2>1. rank(e) \in Int /\ rank(f) \in Int
    BY UseRanks
  <2>2. e \in recent[f] \/ f \in recent[e]
    BY DEF Sorts
  <2>3. rank(e) < rank(f) \/ rank(f) < rank(e)
    BY UseRanks, <2>2
  <2> HIDE DEF rank
  <2>4. QED
    BY <2>1, <2>3
<1>7. q \in [1..n -> S]
    OBVIOUS
<1> HIDE DEF n, s, rank
<1>8. \A i \in 1..n : q[i] = s[i]
    BY <1>1, <1>5, <1>6, <1>7
<1>9. q = s
  <2>1. q = [i \in 1..n |-> q[i]] /\ s = [i \in 1..n |-> s[i]]
    BY <1>1, <1>7
  <2>2. QED
    BY <1>8, <2>1, Zenon
<1>10. QED
    BY <1>9 DEF s

\* What is used later than what, of the experts S alone, is all that their list shows.
LEMMA ByUseSame ==
    ASSUME NEW S, IsFiniteSet(S), NEW recent, Sorts(recent, S), NEW other,
           \A f \in S : other[f] \cap S = recent[f] \cap S
    PROVE  ByUse(S, other) = ByUse(S, recent)
<1> DEFINE n == Cardinality(S)
           s == ByUse(S, recent)
<1>1. \A f, g \in S : g \in other[f] <=> g \in recent[f]
    OBVIOUS
<1>2. Sorts(other, S)
    BY <1>1 DEF Sorts
<1>3. /\ s \in [1..n -> S]
      /\ \A i, j \in 1..n : i < j => s[j] \in recent[s[i]]
    BY ByUseLists
<1> HIDE DEF s
<1>4. \A i, j \in 1..n : i < j => s[j] \in other[s[i]]
    BY <1>1, <1>3
<1>5. s = ByUse(S, other)
    BY <1>2, <1>3, <1>4, ByUseIs
<1>6. QED
    BY <1>5 DEF s

\* An expert that is used again goes to the end.
LEMMA ByUseUsed ==
    ASSUME NEW S, IsFiniteSet(S), NEW recent, Sorts(recent, S), NEW e \in S, NEW other,
           \A f, g \in S : g \in other[f] <=> f # e /\ (g = e \/ g \in recent[f])
    PROVE  ByUse(S, other) = Append(Replay!Without(ByUse(S, recent), e), e)
<1> DEFINE n == Cardinality(S)
           s == ByUse(S, recent)
<1>1. /\ n \in Nat /\ s \in [1..n -> S]
      /\ \A f \in S : \E i \in 1..n : s[i] = f
      /\ \A i, j \in 1..n : s[i] = s[j] => i = j
      /\ \A i, j \in 1..n : i < j => s[j] \in recent[s[i]]
    BY ByUseLists
<1>2. Sorts(other, S)
  <2>1. \A f \in S : f \notin other[f]
    BY DEF Sorts
  <2>2. \A f, g \in S : f = g \/ f \in other[g] \/ g \in other[f]
    BY DEF Sorts
  <2>3. ASSUME NEW f \in S, NEW g \in S, NEW h \in S, g \in other[f], h \in other[g]
        PROVE  h \in other[f]
    <3>1. f # e /\ g # e /\ (h = e \/ h \in recent[g]) /\ g \in recent[f]
        BY <2>3
    <3>2. h # e => h \in recent[f]
        BY <3>1 DEF Sorts
    <3>3. QED
        BY <3>1, <3>2
  <2>4. QED
    BY <2>1, <2>2, <2>3 DEF Sorts
<1> HIDE DEF n, s
<1>3. s \in Seq(S) /\ Len(s) = n /\ DOMAIN s = 1..n
    BY <1>1, FunctionIsSequence
<1>4. PICK p \in 1..n : s[p] = e
    BY <1>1
<1>5. (CHOOSE i \in DOMAIN s : s[i] = e) = p
    BY <1>1, <1>3, <1>4
<1> DEFINE w == SubSeq(s, 1, p - 1) \o SubSeq(s, p + 1, n)
           q == Append(w, e)
<1>6. Replay!Without(s, e) = w
    BY <1>3, <1>5 DEF Replay!Without
<1>7. /\ SubSeq(s, 1, p - 1) \in Seq(S) /\ Len(SubSeq(s, 1, p - 1)) = p - 1
      /\ \A i \in 1..(p - 1) : SubSeq(s, 1, p - 1)[i] = s[i]
    BY <1>1, <1>3, <1>4
<1>8. /\ SubSeq(s, p + 1, n) \in Seq(S) /\ Len(SubSeq(s, p + 1, n)) = n - p
      /\ \A i \in 1..(n - p) : SubSeq(s, p + 1, n)[i] = s[p + i]
    BY <1>1, <1>3, <1>4
<1> DEFINE at == [i \in 1..n |-> IF i < p THEN i ELSE IF i < n THEN i + 1 ELSE p]
<1>9. q \in Seq(S) /\ Len(q) = n /\ \A i \in 1..n : q[i] = s[at[i]]
  <2> DEFINE a == SubSeq(s, 1, p - 1)
             b == SubSeq(s, p + 1, n)
  <2>1. a \in Seq(S) /\ b \in Seq(S) /\ Len(a) = p - 1 /\ Len(b) = n - p
    BY <1>7, <1>8
  <2>2. \A i \in 1..(p - 1) : a[i] = s[i]
    BY <1>7
  <2>3. \A i \in 1..(n - p) : b[i] = s[p + i]
    BY <1>8
  <2> HIDE DEF a, b
  <2>4. a \o b \in Seq(S) /\ Len(a \o b) = n - 1
    BY <1>1, <1>4, <2>1
  <2>5. \A i \in 1..(n - 1) : (a \o b)[i] = IF i < p THEN a[i] ELSE b[i - (p - 1)]
    BY <1>1, <1>4, <2>1
  <2>6. ASSUME NEW i \in 1..(n - 1) PROVE (a \o b)[i] = s[at[i]]
    <3>1. CASE i < p
      <4>1. i \in 1..(p - 1) /\ at[i] = i
        BY <1>1, <1>4, <3>1
      <4>2. (a \o b)[i] = a[i] /\ a[i] = s[i]
        BY <2>2, <2>5, <3>1, <4>1
      <4> HIDE DEF at
      <4>3. QED
        BY <4>1, <4>2
    <3>2. CASE ~(i < p)
      <4>1. i - (p - 1) \in 1..(n - p) /\ at[i] = i + 1 /\ p + (i - (p - 1)) = i + 1
        BY <1>1, <1>4, <3>2
      <4>2. b[i - (p - 1)] = s[p + (i - (p - 1))]
        BY <2>3, <4>1
      <4>3. QED
        BY <2>5, <3>2, <4>1, <4>2
    <3>3. QED
        BY <3>1, <3>2
  <2>7. w = a \o b
    BY DEF a, b
  <2> HIDE DEF w
  <2>8. q \in Seq(S) /\ Len(q) = n /\ q[n] = e
    BY <1>1, <1>4, <2>4, <2>7
  <2>9. \A i \in 1..(n - 1) : q[i] = (a \o b)[i]
    BY <1>1, <2>4, <2>7
  <2>10. at[n] = p
    BY <1>1, <1>4
  <2> HIDE DEF at, q
  <2>11. \A i \in 1..n : i = n \/ i \in 1..(n - 1)
    BY <1>1
  <2>12. \A i \in 1..n : q[i] = s[at[i]]
    BY <1>4, <2>6, <2>8, <2>9, <2>10, <2>11
  <2>13. QED
    BY <2>8, <2>12
<1>10. q \in [1..n -> S]
  <2> HIDE DEF q
  <2>1. QED
    BY <1>9
<1>11. ASSUME NEW i \in 1..n, NEW j \in 1..n, i < j PROVE q[j] \in other[q[i]]
  <2>1. at[i] \in 1..n /\ at[j] \in 1..n /\ at[i] # p /\ (at[j] = p \/ at[i] < at[j])
    BY <1>1, <1>4, <1>11
  <2>2. q[i] = s[at[i]] /\ q[j] = s[at[j]]
    BY <1>9
  <2> HIDE DEF at, q
  <2>3. s[at[i]] # e /\ s[at[i]] \in S /\ s[at[j]] \in S
    BY <1>1, <1>4, <2>1
  <2>4. s[at[j]] = e \/ s[at[j]] \in recent[s[at[i]]]
    BY <1>1, <1>4, <2>1
  <2>5. QED
    BY <2>2, <2>3, <2>4
<1>12. q = ByUse(S, other)
  <2> HIDE DEF q
  <2>1. QED
    BY <1>2, <1>10, <1>11, ByUseIs DEF n
<1>13. QED
    BY <1>6, <1>12 DEF s

\* other orders the experts S as recent does, and e after them.
AddsTo(other, recent, S, e) ==
    \A f, g \in S \cup {e} : g \in other[f] <=> f # e /\ (g = e \/ g \in recent[f])

\* Append, kept from being expanded.
Put(list, e) == Append(list, e)

\* A new one is put there.
LEMMA ByUseAdded ==
    ASSUME NEW S, IsFiniteSet(S), NEW recent, Sorts(recent, S), NEW e, e \notin S, NEW other,
           AddsTo(other, recent, S, e)
    PROVE  /\ Sorts(other, S \cup {e})
           /\ ByUse(S \cup {e}, other) = Put(ByUse(S, recent), e)
<1> DEFINE n == Cardinality(S)
           s == ByUse(S, recent)
           T == S \cup {e}
           q == Append(s, e)
<1>1. /\ n \in Nat /\ s \in [1..n -> S]
      /\ \A i, j \in 1..n : i < j => s[j] \in recent[s[i]]
    BY ByUseLists
<1>2. Sorts(other, T)
  <2>1. \A f \in T : f \notin other[f]
    BY DEF Sorts, AddsTo
  <2>2. \A f, g \in T : f = g \/ f \in other[g] \/ g \in other[f]
    BY DEF Sorts, AddsTo
  <2>3. ASSUME NEW f \in T, NEW g \in T, NEW h \in T, g \in other[f], h \in other[g]
        PROVE  h \in other[f]
    <3>1. f # e /\ g # e /\ (h = e \/ h \in recent[g]) /\ g \in recent[f]
        BY <2>3 DEF AddsTo
    <3>2. h # e => h \in recent[f]
        BY <3>1 DEF Sorts
    <3>3. QED
        BY <3>1, <3>2 DEF AddsTo
  <2>4. QED
    BY <2>1, <2>2, <2>3 DEF Sorts
<1>3. IsFiniteSet(T) /\ Cardinality(T) = n + 1
    BY FS_AddElement
<1> HIDE DEF n, s
<1>4. s \in Seq(S) /\ Len(s) = n
    BY <1>1, FunctionIsSequence
<1>5. /\ q \in Seq(T) /\ Len(q) = n + 1 /\ q[n + 1] = e
      /\ \A i \in 1..n : q[i] = s[i] /\ q[i] \in S
  <2>1. s \in Seq(T)
    BY <1>4
  <2>2. QED
    BY <1>1, <1>4, <2>1
<1> HIDE DEF q
<1>6. q \in [1..(n + 1) -> T]
    BY <1>5
<1>7. ASSUME NEW i \in 1..(n + 1), NEW j \in 1..(n + 1), i < j PROVE q[j] \in other[q[i]]
  <2>1. i \in 1..n /\ (j \in 1..n \/ j = n + 1)
    BY <1>1, <1>7
  <2>2. q[i] \in S /\ q[i] = s[i]
    BY <1>5, <2>1
  <2>3. q[j] = e \/ (q[j] \in S /\ q[j] \in recent[q[i]])
    BY <1>1, <1>5, <1>7, <2>1, <2>2 DEF AddsTo
  <2>4. QED
    BY <2>2, <2>3 DEF AddsTo
<1> HIDE DEF T
<1>8. q = ByUse(T, other)
    BY <1>2, <1>3, <1>6, <1>7, ByUseIs
<1>9. QED
    BY <1>2, <1>8 DEF q, s, T, Put

\* The last m of a list, if it has as many.
Lasts(list, m) ==
    IF Len(list) <= m THEN list ELSE SubSeq(list, Len(list) - m + 1, Len(list))

\* Where only the latest are kept, the others are taken from the front.
LEMMA ByUseTrimmed ==
    ASSUME NEW S, IsFiniteSet(S), NEW recent, Sorts(recent, S), NEW m \in Nat
    PROVE  ByUse(Latest(m, S, recent), recent) = Lasts(ByUse(S, recent), m)
<1> DEFINE n == Cardinality(S)
           s == ByUse(S, recent)
           rank(e) == Cardinality(recent[e] \cap S)
           K == Latest(m, S, recent)
           l == IF n <= m THEN n ELSE m
           q == Lasts(s, m)
<1>1. /\ n \in Nat /\ s \in [1..n -> S]
      /\ \A i \in 1..n : rank(s[i]) = n - i
      /\ \A f \in S : \E i \in 1..n : s[i] = f
      /\ \A i, j \in 1..n : s[i] = s[j] => i = j
      /\ \A i, j \in 1..n : i < j => s[j] \in recent[s[i]]
    BY ByUseLists
<1>2. K \subseteq S /\ \A f \in S : f \in K <=> rank(f) < m
    BY DEF Latest
<1>3. IsFiniteSet(K) /\ Sorts(recent, K)
    BY <1>2, FS_Subset DEF Sorts
<1> HIDE DEF n, s, rank, K
<1>4. s \in Seq(S) /\ Len(s) = n
    BY <1>1, FunctionIsSequence
<1>5. l \in 0..n /\ (m < n => l = m)
    BY <1>1
<1>6. q \in Seq(S) /\ Len(q) = l /\ \A i \in 1..l : q[i] = s[i + (n - l)]
  <2>1. CASE n <= m
    <3>1. q = s /\ l = n
        BY <1>1, <1>4, <2>1 DEF Lasts
    <3>2. \A i \in 1..l : i + (n - l) = i
        BY <1>1, <3>1
    <3> HIDE DEF q, l
    <3>3. QED
        BY <1>1, <1>4, <3>1, <3>2
  <2>2. CASE ~(n <= m)
    <3>1. q = SubSeq(s, n - m + 1, n) /\ l = m
        BY <1>4, <2>2 DEF Lasts
    <3>2. n - m + 1 \in 1..(n + 1) /\ m < n
        BY <1>1, <2>2
    <3> HIDE DEF q, l
    <3> DEFINE first == n - m + 1
    <3>3. first \in Int /\ n \in Int /\ 1 <= first /\ n - first + 1 = m
        BY <1>1, <3>2
    <3>4. first <= n \/ m = 0
        BY <1>1
    <3> HIDE DEF first
    <3>5. \A i \in first..n : s[i] \in S
        BY <1>1, <3>3
    <3>6. /\ SubSeq(s, first, n) \in Seq(S)
          /\ Len(SubSeq(s, first, n)) = IF first <= n THEN n - first + 1 ELSE 0
          /\ \A i \in 1..(n - first + 1) : SubSeq(s, first, n)[i] = s[first + i - 1]
        BY <3>3, <3>5, SubSeqProperties
    <3>7. q \in Seq(S) /\ Len(q) = m /\ \A i \in 1..m : q[i] = s[n - m + 1 + i - 1]
        BY <3>1, <3>3, <3>4, <3>6 DEF first
    <3>8. \A i \in 1..m : n - m + 1 + i - 1 = i + (n - m)
        BY <1>1
    <3>9. QED
        BY <3>1, <3>7, <3>8
  <2>3. QED
    BY <2>1, <2>2
<1> HIDE DEF q, l
<1>7. \A i \in 1..n : s[i] \in K <=> n - l < i
  <2> SUFFICES ASSUME NEW i \in 1..n PROVE s[i] \in K <=> n - l < i
    OBVIOUS
  <2>1. s[i] \in K <=> n - i < m
    BY <1>1, <1>2
  <2>2. n - i < m <=> n - l < i
    BY <1>1 DEF l
  <2>3. QED
    BY <2>1, <2>2
<1>8. \A i \in 1..l : i + (n - l) \in 1..n /\ n - l < i + (n - l)
    BY <1>1, <1>5
<1>9. q \in [1..l -> K]
  <2>1. \A i \in 1..l : q[i] \in K
    BY <1>6, <1>7, <1>8
  <2>2. q = [i \in 1..l |-> q[i]]
    BY <1>5, <1>6
  <2>3. QED
    BY <2>1, <2>2
<1>10. \A i, j \in 1..l : q[i] = q[j] => i = j
  <2> SUFFICES ASSUME NEW i \in 1..l, NEW j \in 1..l, q[i] = q[j] PROVE i = j
    OBVIOUS
  <2>1. i + (n - l) = j + (n - l)
    BY <1>1, <1>6, <1>8
  <2>2. QED
    BY <1>1, <1>5, <2>1
<1>11. \A f \in K : \E i \in 1..l : q[i] = f
  <2> SUFFICES ASSUME NEW f \in K PROVE \E i \in 1..l : q[i] = f
    OBVIOUS
  <2>1. PICK j \in 1..n : s[j] = f
    BY <1>1, <1>2
  <2>2. n - l < j
    BY <1>7, <2>1
  <2>3. j - (n - l) \in 1..l /\ j - (n - l) + (n - l) = j
    BY <1>1, <1>5, <2>2
  <2>4. q[j - (n - l)] = f
    BY <1>6, <2>1, <2>3
  <2>5. QED
    BY <2>3, <2>4
<1>12. Cardinality(K) = l
  <2>1. q \in Bijection(1..l, K)
    BY <1>9, <1>10, <1>11 DEF Bijection, Injection, IsInjective, Surjection
  <2>2. IsFiniteSet(1..l) /\ Cardinality(1..l) = l
    BY <1>5, FS_Interval
  <2>3. QED
    BY <2>1, <2>2, FS_Bijection DEF ExistsBijection
<1>13. ASSUME NEW i \in 1..l, NEW j \in 1..l, i < j PROVE q[j] \in recent[q[i]]
  <2>1. i + (n - l) < j + (n - l)
    BY <1>1, <1>5, <1>13
  <2>2. q[i] = s[i + (n - l)] /\ q[j] = s[j + (n - l)]
    BY <1>6
  <2>3. QED
    BY <1>1, <1>8, <2>1, <2>2
<1>14. q = ByUse(K, recent)
    BY <1>3, <1>9, <1>12, <1>13, ByUseIs
<1>15. QED
    BY <1>14 DEF q, K, s

\* The quotas of the layers leave no more than all of them together.
LEMMA QuotasLeave ==
    ASSUME NEW S \in SUBSET Experts, NEW recent, Sorts(recent, S), config.quota \in Nat \ {0}
    PROVE  /\ IsFiniteSet(WithinQuota(S, recent))
           /\ Cardinality(WithinQuota(S, recent))
                 <= Cardinality({LayerOf[e] : e \in Experts}) * config.quota
<1> DEFINE kept == WithinQuota(S, recent)
           layers == {LayerOf[e] : e \in Experts}
           rank(e) == Cardinality(recent[e] \cap SameLayer(e, S))
           places == layers \X (0..(config.quota - 1))
           at == [e \in kept |-> <<LayerOf[e], rank(e)>>]
<1>1. \A e \in S : e \in kept <=> rank(e) < config.quota
    BY DEF WithinQuota
<1>2. kept \subseteq S
    BY DEF WithinQuota
<1>3. ASSUME NEW e \in S
      PROVE  /\ IsFiniteSet(SameLayer(e, S)) /\ Sorts(recent, SameLayer(e, S))
             /\ e \in SameLayer(e, S) /\ rank(e) \in Nat
  <2>1. SameLayer(e, S) \subseteq S /\ e \in SameLayer(e, S) /\ IsFiniteSet(S)
    BY ExpertAssumption, FS_Subset DEF SameLayer
  <2>2. IsFiniteSet(SameLayer(e, S)) /\ Sorts(recent, SameLayer(e, S))
    BY <2>1, FS_Subset DEF Sorts
  <2>3. recent[e] \cap SameLayer(e, S) \subseteq SameLayer(e, S)
    OBVIOUS
  <2>4. QED
    BY <2>1, <2>2, <2>3, FS_Subset, FS_CardinalityType
<1>4. ASSUME NEW e \in S, NEW f \in S, LayerOf[e] = LayerOf[f], rank(e) = rank(f) PROVE e = f
  <2> DEFINE L == SameLayer(e, S)
  <2>1. SameLayer(f, S) = L
    BY <1>4 DEF SameLayer
  <2>2. IsFiniteSet(L) /\ Sorts(recent, L) /\ e \in L /\ f \in L
    BY <1>3, <2>1
  <2>3. Cardinality(recent[e] \cap L) = Cardinality(recent[f] \cap L)
    BY <1>4, <2>1
  <2>4. Cardinality(recent[e] \cap L) \in Int
    BY <1>3
  <2> HIDE DEF L
  <2>5. \A g, h \in L :
           h \in recent[g] => Cardinality(recent[h] \cap L) < Cardinality(recent[g] \cap L)
    BY <2>2, UseRanks
  <2>6. ~(e \in recent[f]) /\ ~(f \in recent[e])
    BY <2>2, <2>3, <2>4, <2>5
  <2>7. QED
    BY <2>6 DEF Sorts
<1>5. \A e \in kept : LayerOf[e] \in layers /\ rank(e) \in 0..(config.quota - 1)
    BY <1>1, <1>2, <1>3
<1> HIDE DEF kept, rank, layers
<1>6. at \in [kept -> places]
    BY <1>5
<1>7. \A e, f \in kept : at[e] = at[f] => e = f
    BY <1>2, <1>4
<1>8. at \in Injection(kept, places)
    BY <1>6, <1>7 DEF Injection, IsInjective
<1>9. IsFiniteSet(layers)
  <2>1. [e \in Experts |-> LayerOf[e]] \in Surjection(Experts, layers)
    BY DEF Surjection, layers
  <2>2. QED
    BY <2>1, FS_Surjection, ExpertAssumption
<1>10. IsFiniteSet(0..(config.quota - 1)) /\ Cardinality(0..(config.quota - 1)) = config.quota
  <2>1. /\ IsFiniteSet(0..(config.quota - 1))
        /\ Cardinality(0..(config.quota - 1))
              = IF 0 > config.quota - 1 THEN 0 ELSE (config.quota - 1) - 0 + 1
    <3> DEFINE last == config.quota - 1
    <3>1. 0 \in Int /\ last \in Int
        OBVIOUS
    <3> HIDE DEF last
    <3>2. /\ IsFiniteSet(0..last)
          /\ Cardinality(0..last) = IF 0 > last THEN 0 ELSE last - 0 + 1
        BY <3>1, FS_Interval
    <3>3. QED
        BY <3>2 DEF last
  <2>2. (IF 0 > config.quota - 1 THEN 0 ELSE (config.quota - 1) - 0 + 1) = config.quota
    OBVIOUS
  <2>3. QED
    BY <2>1, <2>2
<1>11. IsFiniteSet(places) /\ Cardinality(places) = Cardinality(layers) * config.quota
    BY <1>9, <1>10, FS_Product
<1> HIDE DEF places, at
<1>12. IsFiniteSet(kept) /\ Cardinality(kept) <= Cardinality(places)
    BY <1>8, <1>11, FS_Injection
<1>13. QED
    BY <1>11, <1>12 DEF kept, layers

\* The lists of the replay follow the entries.
LEMMA LruKept == UNCHANGED <<config, entries, newer>> => Lru' = Lru
BY DEF Lru, Listed, ListOf, ByUse

\* The entries of a list are ordered, and an expert is in no other list.
LEMMA ListedOrdered ==
    ASSUME LimitInv
    PROVE  /\ config.entries \in Nat /\ config.quota \in Nat
           /\ entries \in SUBSET Experts /\ IsFiniteSet(entries) /\ Sorts(newer, entries)
           /\ \A k : /\ Listed(k) \subseteq entries /\ IsFiniteSet(Listed(k))
                     /\ Sorts(newer, Listed(k))
           /\ \A e \in Experts : ListOf(e) \in Lists
<1>1. config.entries \in Nat /\ config.quota \in Nat /\ entries \in SUBSET Experts
    BY ConfigAssumption DEF LimitInv, TypeInv, TypeOK
<1>2. IsFiniteSet(entries) /\ Sorts(newer, entries)
    BY <1>1, ExpertAssumption, FS_Subset DEF LimitInv, Orders, Sorts
<1>3. \A k : Listed(k) \subseteq entries
    BY DEF Listed
<1>4. \A k : IsFiniteSet(Listed(k)) /\ Sorts(newer, Listed(k))
    BY <1>2, <1>3, FS_Subset DEF Sorts
<1>5. \A e \in Experts : ListOf(e) \in Lists
    BY DEF ListOf, Lists
<1>6. QED
    BY <1>1, <1>2, <1>3, <1>4, <1>5

\* What ExpertLoader and ReplayCache name alike is alike.
LEMMA ReplayNames ==
    /\ \A e : Replay!ListOf(e) = ListOf(e)
    /\ Replay!Lists = Lists
    /\ \A s : Replay!Trimmed(s)
                = Lasts(s, IF config.quota = 0 THEN config.entries ELSE config.quota)
BY DEF Replay!ListOf, ListOf, Replay!Lists, Lists, Replay!Trimmed, Lasts, Replay!Limit

\* What is in the replay's lists are the entries.
LEMMA CachedAreEntries ==
    ASSUME LimitInv, NEW e \in Experts
    PROVE  Replay!Cached(e) <=> e \in entries
<1> DEFINE k == ListOf(e)
           n == Cardinality(Listed(k))
           s == ByUse(Listed(k), newer)
<1>1. k \in Lists /\ Lru[k] = s
    BY ListedOrdered DEF Lru
<1>2. e \in Listed(k) <=> e \in entries
    BY DEF Listed
<1>3. /\ s \in [1..n -> Listed(k)]
      /\ \A f \in Listed(k) : \E i \in 1..n : s[i] = f
  <2>1. IsFiniteSet(Listed(k)) /\ Sorts(newer, Listed(k))
    BY ListedOrdered
  <2>2. QED
    BY <2>1, ByUseLists
<1>4. Replay!Cached(e) <=> \E i \in DOMAIN s : s[i] = e
    BY <1>1, ReplayNames DEF Replay!Cached
<1> HIDE DEF s, k, n
<1>5. QED
    BY <1>2, <1>3, <1>4

\* The use of an entry is a hit of the replay.
LEMMA UseIsHit ==
    ASSUME LimitInv, NEW e \in entries, UNCHANGED <<config, entries>>,
           newer' = Touched(e, entries)
    PROVE  Replay!Hit(e)
<1> DEFINE k == ListOf(e)
<1>1. e \in Experts /\ k \in Lists
    BY ListedOrdered
<1>2. \A j : Listed(j)' = Listed(j)
    BY DEF Listed, ListOf
<1>3. \A f \in entries : newer'[f] = IF f # e THEN newer[f] \cup {e} ELSE {}
    BY ListedOrdered DEF Touched
<1>4. Lru' = [j \in Lists |-> ByUse(Listed(j), newer')]
    BY DEF Lru, Lists, ByUse, Listed, ListOf
<1>5. ByUse(Listed(k), newer') = Append(Replay!Without(ByUse(Listed(k), newer), e), e)
  <2>1. e \in Listed(k) /\ IsFiniteSet(Listed(k)) /\ Sorts(newer, Listed(k))
    BY ListedOrdered DEF Listed
  <2>2. \A f \in Listed(k) : newer'[f] = IF f # e THEN newer[f] \cup {e} ELSE {}
    BY <1>3, ListedOrdered, Zenon
  <2>3. \A f, g \in Listed(k) : g \in newer'[f] <=> f # e /\ (g = e \/ g \in newer[f])
    <3> SUFFICES ASSUME NEW f \in Listed(k), NEW g \in Listed(k)
                 PROVE  g \in newer'[f] <=> f # e /\ (g = e \/ g \in newer[f])
        OBVIOUS
    <3>1. newer'[f] = IF f # e THEN newer[f] \cup {e} ELSE {}
        BY <2>2, Zenon
    <3>2. CASE f = e
        BY <3>1, <3>2
    <3>3. CASE f # e
        BY <3>1, <3>3
    <3>4. QED
        BY <3>2, <3>3
  <2>4. QED
    BY <2>1, <2>3, ByUseUsed
<1>6. ASSUME NEW j \in Lists, j # k
      PROVE  ByUse(Listed(j), newer') = ByUse(Listed(j), newer)
  <2>1. e \notin Listed(j) /\ IsFiniteSet(Listed(j)) /\ Sorts(newer, Listed(j))
        /\ Listed(j) \subseteq entries
    BY <1>6, ListedOrdered DEF Listed
  <2>2. \A f \in Listed(j) : newer'[f] \cap Listed(j) = newer[f] \cap Listed(j)
    BY <1>3, <2>1
  <2>3. QED
    BY <2>1, <2>2, ByUseSame
<1> HIDE DEF k
<1>7. Lru = [j \in Lists |-> ByUse(Listed(j), newer)]
    BY DEF Lru
<1>8. Lru' = [Lru EXCEPT ![k] = Append(Replay!Without(Lru[k], e), e)]
  <2> DEFINE old == [j \in Lists |-> ByUse(Listed(j), newer)]
             new == [j \in Lists |-> ByUse(Listed(j), newer')]
  <2>1. new[k] = Append(Replay!Without(old[k], e), e)
    BY <1>1, <1>5
  <2>2. \A j \in Lists : j # k => new[j] = old[j]
    BY <1>6
  <2>3. DOMAIN new = Lists /\ DOMAIN old = Lists /\ new = [j \in Lists |-> new[j]]
    OBVIOUS
  <2>4. Lru = old /\ Lru' = new
    BY <1>4, <1>7
  <2> HIDE DEF old, new
  <2>5. QED
    BY <1>1, <2>1, <2>2, <2>3, <2>4
<1>9. Replay!Cached(e)
    BY <1>1, CachedAreEntries
<1>10. Replay!ListOf(e) = k
    BY ReplayNames DEF k
<1>11. QED
    BY <1>8, <1>9, <1>10 DEF Replay!Hit

\* What _evict_locked keeps are the latest of each list, where the quotas fit.
LEMMA KeptAreLatest ==
    ASSUME config.entries \in Nat, config.quota \in Nat, QuotasFit,
           NEW S \in SUBSET Experts, NEW recent, Sorts(recent, S), NEW k \in Lists
    PROVE  {f \in MostRecent(S, recent) : ListOf(f) = k}
             = Latest(IF config.quota = 0 THEN config.entries ELSE config.quota,
                      {f \in S : ListOf(f) = k}, recent)
<1>1. CASE config.quota = 0
  <2>1. \A f \in S : ListOf(f) = 0
    BY <1>1 DEF ListOf
  <2>2. MostRecent(S, recent) = Latest(config.entries, S, recent)
    BY <1>1 DEF MostRecent, WithinQuota, Latest
  <2>3. CASE k = 0
    <3>1. {f \in S : ListOf(f) = k} = S
        BY <2>1, <2>3
    <3>2. {f \in MostRecent(S, recent) : ListOf(f) = k} = MostRecent(S, recent)
        BY <2>1, <2>2, <2>3 DEF Latest
    <3>3. QED
        BY <1>1, <2>2, <3>1, <3>2
  <2>4. CASE k # 0
    <3>1. {f \in S : ListOf(f) = k} = {}
        BY <2>1, <2>4
    <3>2. {f \in MostRecent(S, recent) : ListOf(f) = k} = {}
        BY <2>1, <2>2, <2>4 DEF Latest
    <3>3. QED
        BY <3>1, <3>2 DEF Latest
  <2>5. QED
    BY <2>3, <2>4
<1>2. CASE config.quota # 0
  <2> DEFINE K == WithinQuota(S, recent)
             L == {f \in S : ListOf(f) = k}
  <2>1. /\ IsFiniteSet(K)
        /\ Cardinality(K) <= Cardinality({LayerOf[e] : e \in Experts}) * config.quota
    BY <1>2, QuotasLeave
  <2>2. Cardinality(K) <= config.entries
    <3> DEFINE all == Cardinality({LayerOf[e] : e \in Experts}) * config.quota
    <3>1. all \in Int
      <4>1. [e \in Experts |-> LayerOf[e]] \in Surjection(Experts, {LayerOf[e] : e \in Experts})
        BY DEF Surjection
      <4>2. IsFiniteSet({LayerOf[e] : e \in Experts})
        BY <4>1, FS_Surjection, ExpertAssumption
      <4>3. Cardinality({LayerOf[e] : e \in Experts}) \in Nat
        BY <4>2, FS_CardinalityType
      <4>4. QED
        BY <4>3
    <3>2. Cardinality(K) <= all /\ all <= config.entries /\ Cardinality(K) \in Nat
        BY <2>1, FS_CardinalityType DEF QuotasFit
    <3> HIDE DEF all, K
    <3>3. QED
        BY <3>1, <3>2
  <2>3. K \subseteq S
    BY DEF WithinQuota
  <2>4. ASSUME NEW f \in K PROVE Cardinality(recent[f] \cap K) < config.entries
    <3> HIDE DEF K
    <3>1. recent[f] \cap K \subseteq K /\ f \in K /\ f \notin recent[f] \cap K
        BY <2>3 DEF Sorts
    <3>2. /\ IsFiniteSet(recent[f] \cap K)
          /\ Cardinality(recent[f] \cap K) <= Cardinality(K)
          /\ Cardinality(recent[f] \cap K) # Cardinality(K)
        BY <2>1, <3>1, FS_Subset
    <3>3. Cardinality(recent[f] \cap K) \in Nat /\ Cardinality(K) \in Nat
        BY <2>1, <3>2, FS_CardinalityType
    <3>4. QED
        BY <2>2, <3>2, <3>3
  <2>5. MostRecent(S, recent) = K
    BY <2>4 DEF MostRecent
  <2>6. \A f \in S : ListOf(f) = k => SameLayer(f, S) = L
    BY <1>2 DEF SameLayer, ListOf
  <2>7. K = {f \in S : Cardinality(recent[f] \cap SameLayer(f, S)) < config.quota}
    BY <1>2 DEF WithinQuota
  <2> HIDE DEF K, L
  <2>8. {f \in K : ListOf(f) = k} = {f \in L : Cardinality(recent[f] \cap L) < config.quota}
    BY <2>6, <2>7 DEF L
  <2>9. QED
    BY <1>2, <2>5, <2>8 DEF L, Latest
<1>3. QED
    BY <1>1, <1>2

\* The insertion of an expert, with what is evicted for it, is a miss of the replay.
LEMMA InsertIsMiss ==
    ASSUME LimitInv, QuotasFit, NEW t \in Threads, Insert(t),
           Enabled, thread[t].expert \notin entries
    PROVE  Replay!Miss(thread[t].expert)
<1> DEFINE e == thread[t].expert
           inserted == entries \cup {e}
           recent == Touched(e, inserted)
           kept == MostRecent(inserted, recent)
           limit == IF config.quota = 0 THEN config.entries ELSE config.quota
           k == ListOf(e)
           With(j) == {f \in inserted : ListOf(f) = j}
           Kept(j) == {f \in kept : ListOf(f) = j}
           new == [f \in Experts |-> IF f \in kept THEN recent[f] \cap kept ELSE {}]
<1>1. e \in Experts /\ inserted \in SUBSET Experts /\ k \in Lists
  <2>1. e \in Experts
    BY DEF Insert, LimitInv, TypeInv, TypeOK, Loading
  <2>2. QED
    BY <2>1, ListedOrdered
<1>2. config' = config /\ entries' = kept /\ newer' = new
    BY DEF Insert
<1>3. /\ config.entries \in Nat /\ config.quota \in Nat /\ limit \in Nat
      /\ IsFiniteSet(inserted)
    BY <1>1, ListedOrdered, FS_Subset, ExpertAssumption
<1>4. \A f \in entries : recent[f] = newer[f] \cup {e}
    BY <1>1, ListedOrdered DEF Touched
<1>5. recent[e] = {}
    BY <1>1 DEF Touched
<1>6. \A f \in entries : f # e
    OBVIOUS
<1> HIDE DEF recent
<1>7. ASSUME NEW f \in inserted, NEW g \in inserted
      PROVE  g \in recent[f] <=> f # e /\ (g = e \/ g \in newer[f])
  <2>1. CASE f = e
    BY <1>5, <2>1
  <2>2. CASE f # e
    BY <1>4, <2>2
  <2>3. QED
    BY <2>1, <2>2
<1>8. Sorts(recent, inserted)
  <2>1. IsFiniteSet(entries) /\ Sorts(newer, entries)
    BY ListedOrdered
  <2>2. QED
    BY <1>7, <2>1, ByUseAdded DEF AddsTo
<1>9. kept \subseteq inserted
    BY DEF MostRecent, WithinQuota
<1> HIDE DEF kept
<1>10. ASSUME NEW j \in Lists
       PROVE  Kept(j) = Latest(limit, With(j), recent)
  <2>1. kept = MostRecent(inserted, recent)
    BY DEF kept
  <2> HIDE DEF inserted
  <2>2. QED
    BY <1>1, <1>3, <1>8, <2>1, KeptAreLatest
<1>11. ASSUME NEW j \in Lists
       PROVE  /\ With(j) \subseteq inserted /\ IsFiniteSet(With(j)) /\ Sorts(recent, With(j))
              /\ IsFiniteSet(Kept(j)) /\ Sorts(recent, Kept(j))
  <2>1. With(j) \subseteq inserted /\ Kept(j) \subseteq inserted
    BY <1>9
  <2> HIDE DEF With, Kept, inserted
  <2>2. QED
    BY <1>3, <1>8, <2>1, FS_Subset DEF Sorts
<1>12. ASSUME NEW j \in Lists
       PROVE  ByUse(Kept(j), new) = Lasts(ByUse(With(j), recent), limit)
  <2>1. \A f \in Kept(j) : new[f] \cap Kept(j) = recent[f] \cap Kept(j)
    BY <1>1, <1>9
  <2> HIDE DEF Kept, With, new, limit
  <2>2. ByUse(Kept(j), new) = ByUse(Kept(j), recent)
    BY <1>11, <2>1, ByUseSame
  <2>3. ByUse(Kept(j), recent) = Lasts(ByUse(With(j), recent), limit)
    BY <1>3, <1>10, <1>11, ByUseTrimmed
  <2>4. QED
    BY <2>2, <2>3
<1>13. ByUse(With(k), recent) = Append(ByUse(Listed(k), newer), e)
  <2>1. With(k) = Listed(k) \cup {e}
    BY DEF Listed
  <2>2. IsFiniteSet(Listed(k)) /\ Sorts(newer, Listed(k)) /\ Listed(k) \subseteq entries
    BY ListedOrdered
  <2>3. e \notin Listed(k)
    BY <2>2
  <2>4. \A f, g \in Listed(k) \cup {e} :
           g \in recent[f] <=> f # e /\ (g = e \/ g \in newer[f])
    BY <1>7, <2>2
  <2> DEFINE L == Listed(k)
  <2> HIDE DEF L, e
  <2>5. ByUse(L \cup {e}, recent) = Put(ByUse(L, newer), e)
    <3>1. IsFiniteSet(L) /\ Sorts(newer, L) /\ e \notin L
        BY <2>2, <2>3 DEF L
    <3>2. \A f, g \in L \cup {e} : g \in recent[f] <=> f # e /\ (g = e \/ g \in newer[f])
        BY <2>4 DEF L
    <3>3. AddsTo(recent, newer, L, e)
        BY <3>2 DEF AddsTo
    <3>4. QED
        BY <3>1, <3>3, ByUseAdded, Z3
  <2> HIDE DEF With
  <2>6. QED
    BY <2>1, <2>5 DEF L, Put
<1>14. ASSUME NEW j \in Lists, j # k
       PROVE  /\ ByUse(With(j), recent) = ByUse(Listed(j), newer)
              /\ Lasts(ByUse(Listed(j), newer), limit) = ByUse(Listed(j), newer)
  <2>1. With(j) = Listed(j) /\ e \notin Listed(j)
    BY <1>14 DEF Listed
  <2>2. IsFiniteSet(Listed(j)) /\ Sorts(newer, Listed(j)) /\ Listed(j) \subseteq entries
    BY ListedOrdered
  <2>3. \A f \in Listed(j) : recent[f] \cap Listed(j) = newer[f] \cap Listed(j)
    BY <1>4, <2>1, <2>2
  <2>4. ByUse(Listed(j), recent) = ByUse(Listed(j), newer)
    BY <2>2, <2>3, ByUseSame
  <2>5. Cardinality(Listed(j)) <= limit
    <3>1. CASE Listed(j) = {}
        BY <1>3, <3>1, FS_EmptySet
    <3>2. CASE Listed(j) # {}
      <4>1. PICK f \in entries : ListOf(f) = j
        BY <3>2 DEF Listed
      <4>2. config.quota # 0
        BY <1>14, <4>1 DEF ListOf
      <4>3. Listed(j) = SameLayer(f, entries)
        BY <4>1, <4>2 DEF Listed, ListOf, SameLayer
      <4>4. Cardinality(SameLayer(f, entries)) <= config.quota
        BY <1>3, <4>1, <4>2 DEF LimitInv, WithinLimits
      <4>5. QED
        BY <4>2, <4>3, <4>4
    <3>3. QED
        BY <3>1, <3>2
  <2> DEFINE s == ByUse(Listed(j), newer)
             n == Cardinality(Listed(j))
  <2>6. n \in Nat /\ s \in [1..n -> Listed(j)]
    BY <2>2, ByUseLists
  <2>7. Len(s) = n
    <3> HIDE DEF s, n
    <3>1. s \in Seq(Listed(j))
        BY <2>6, FunctionIsSequence
    <3>2. QED
        BY <2>6, <3>1
  <2>8. Lasts(s, limit) = s
    BY <2>5, <2>7 DEF Lasts
  <2>9. QED
    BY <2>1, <2>4, <2>8
<1>15. Lru' = [j \in Lists |-> ByUse(Kept(j), new)]
  <2>1. \A j : Kept(j) = Listed(j)'
    BY <1>2 DEF Listed, ListOf
  <2>2. QED
    BY <1>2 DEF Lru, Lists, ByUse, Listed, ListOf
<1>16. Lru = [j \in Lists |-> ByUse(Listed(j), newer)]
    BY DEF Lru
<1>17. Lru' = [Lru EXCEPT ![k] = Lasts(Append(Lru[k], e), limit)]
  <2> DEFINE old == [j \in Lists |-> ByUse(Listed(j), newer)]
             next == [j \in Lists |-> ByUse(Kept(j), new)]
  <2>1. next[k] = Lasts(Append(old[k], e), limit)
    BY <1>1, <1>12, <1>13
  <2>2. \A j \in Lists : j # k => next[j] = old[j]
    BY <1>12, <1>14
  <2>3. DOMAIN next = Lists /\ DOMAIN old = Lists /\ next = [j \in Lists |-> next[j]]
    OBVIOUS
  <2>4. Lru = old /\ Lru' = next
    BY <1>15, <1>16
  <2> HIDE DEF old, next, k, limit, e
  <2>5. QED
    BY <1>1, <2>1, <2>2, <2>3, <2>4
<1>18. ~Replay!Cached(e)
    BY <1>1, CachedAreEntries
<1>19. Replay!ListOf(e) = k /\ \A s : Replay!Trimmed(s) = Lasts(s, limit)
    BY ReplayNames
<1> HIDE DEF k, limit, e
<1>20. Replay!Miss(e)
    BY <1>17, <1>18, <1>19 DEF Replay!Miss
<1>21. QED
    BY <1>20 DEF e

\* What the steps do to the order of the entries.
LEMMA CacheSteps ==
    ASSUME [Next]_vars
    PROVE  \/ UNCHANGED <<config, entries, newer>>
           \/ \E t \in Threads : Touch(t) /\ thread[t].expert \in entries
           \/ \E t \in Threads : Insert(t) /\ Enabled /\ thread[t].expert \notin entries
<1>1. ASSUME NEW t \in Threads, Materialize(t)
      PROVE  \/ UNCHANGED <<config, entries, newer>>
             \/ Touch(t) /\ thread[t].expert \in entries
             \/ Insert(t) /\ Enabled /\ thread[t].expert \notin entries
  <2>1. CASE \/ Hit(t) \/ Miss(t) \/ Record(t) \/ Acquire(t) \/ Read(t) \/ Copy(t)
             \/ Attach(t) \/ Release(t) \/ Detach(t)
      BY <2>1 DEF Hit, Miss, Record, Acquire, Read, Copy, Attach, Release, Detach, cacheVars
  <2>2. CASE Touch(t)
      BY <2>2 DEF Touch
  <2>3. CASE Insert(t)
      BY <2>3 DEF Insert, cacheVars
  <2>4. QED
      BY <1>1, <2>1, <2>2, <2>3 DEF Materialize
<1>2. CASE \/ \E w \in Workers : TakeJob(w) \/ JobDone(w) \/ JobRaises(w)
           \/ \E A \in Batches : StartLayer(A)
           \/ Prefetched \/ PrefetchRaises \/ NextExpert \/ EndLayer
           \/ LoadRaises \/ Compute \/ ComputeRaises \/ DropUsed \/ DropRaises
           \/ Execute \/ UNCHANGED vars
    BY <1>2 DEF TakeJob, JobDone, JobRaises, StartLayer, Prefetched, PrefetchRaises,
                NextExpert, EndLayer, LoadRaises, Compute, ComputeRaises, DropUsed,
                DropRaises, Execute,
                vars, cacheVars
<1>3. QED
    BY <1>1, <1>2 DEF Next, WorkerStep, ForwardStep, Threads

\* Nothing but a touch takes a thread from "hit" to "ready".
LEMMA UseIsTouch ==
    ASSUME TypeInv, [Next]_vars, NEW t \in Threads, Uses(t)
    PROVE  Touch(t)
<1>1. thread \in [Threads -> Call]
    BY DEF TypeInv, TypeOK, Call
<1>2. thread[t].at = "hit" /\ thread'[t].at = "ready"
    BY DEF Uses
<1>3. ASSUME NEW u \in Threads, Materialize(u) PROVE Touch(t)
  <2>1. CASE u = t
    <3>1. ~(\/ Hit(t) \/ Miss(t) \/ Record(t) \/ Acquire(t) \/ Read(t) \/ Copy(t)
            \/ Attach(t) \/ Insert(t) \/ Release(t) \/ Detach(t))
        BY <1>2
        DEF Hit, Miss, Record, Acquire, Read, Copy, Attach, Insert, Release, Detach
    <3>2. QED
        BY <1>3, <2>1, <3>1 DEF Materialize
  <2>2. CASE u # t
    <3>1. thread'[t] = thread[t]
        BY <1>3, <2>2, CallGoesOn
    <3>2. QED
        BY <1>2, <3>1
  <2>3. QED
      BY <2>1, <2>2
<1>4. ~(\E w \in Workers : TakeJob(w) \/ JobDone(w) \/ JobRaises(w))
  <2> SUFFICES ASSUME NEW w \in Workers, TakeJob(w) \/ JobDone(w) \/ JobRaises(w) PROVE FALSE
      OBVIOUS
  <2>1. w \in Threads
      BY DEF Threads
  <2>2. CASE w = t
    <3>1. CASE TakeJob(w)
        BY <1>2, <2>2, <3>1 DEF TakeJob
    <3>2. CASE JobDone(w) \/ JobRaises(w)
        BY <1>2, <2>2, <3>2 DEF JobDone, JobRaises
    <3>3. QED
        BY <3>1, <3>2
  <2>3. CASE w # t
    <3>1. thread'[t] = thread[t]
        BY <1>1, <2>1, <2>3 DEF TakeJob, JobDone, JobRaises, Settle
    <3>2. QED
        BY <1>2, <3>1
  <2>4. QED
      BY <2>2, <2>3
<1>5. ~Abandon
  <2> SUFFICES ASSUME Abandon PROVE FALSE
      OBVIOUS
  <2>1. thread'[t] = IF t = Main THEN Idle ELSE [thread[t] EXCEPT !.awaited = FALSE]
      BY DEF Abandon
  <2>2. thread[t] \in Call
      BY <1>1
  <2>3. CASE t = Main
      BY <1>2, <2>1, <2>3 DEF Idle
  <2>4. CASE t # Main
    <3>1. thread'[t].at = thread[t].at
        BY <2>1, <2>2, <2>4 DEF Call
    <3>2. QED
        BY <1>2, <3>1
  <2>5. QED
      BY <2>3, <2>4
<1>6. ~NextExpert /\ ~Used
  <2>1. \A c : thread' = [thread EXCEPT ![Main] = c] => t = Main /\ c.at = "ready"
    <3> SUFFICES ASSUME NEW c, thread' = [thread EXCEPT ![Main] = c]
                 PROVE  t = Main /\ c.at = "ready"
        OBVIOUS
    <3>1. CASE t = Main
        BY <1>1, <1>2, <3>1
    <3>2. CASE t # Main
      <4>1. thread'[t] = thread[t]
          BY <1>1, <3>2
      <4>2. QED
          BY <1>2, <4>1
    <3>3. QED
        BY <3>1, <3>2
  <2>2. \A e : Looking(Job(e)).at # "ready"
      BY DEF Looking
  <2>3. Idle.at # "ready"
      BY DEF Idle
  <2>4. QED
      BY <2>1, <2>2, <2>3 DEF NextExpert, Used
<1>7. ~UNCHANGED thread
    BY <1>2
<1>8. ~(\/ \E A \in Batches : StartLayer(A)
        \/ Prefetched \/ EndLayer \/ Execute \/ UNCHANGED vars)
    BY <1>7 DEF StartLayer, Prefetched, EndLayer, Execute, vars
<1>9. \A outcome : ~Evict(outcome)
  <2> SUFFICES ASSUME Step(Main, "release") PROVE FALSE
      BY DEF Evict
  <2>1. Main \in Threads /\ "release" \in Stages
      BY DEF Threads, Stages
  <2>2. /\ thread'[Main].at = "release"
        /\ \A u \in Threads \ {Main} : thread'[u] = thread[u]
      BY <2>1, StepDoes
  <2>3. QED
      BY <1>2, <2>2
<1>10. ~(PrefetchRaises \/ LoadRaises \/ Compute \/ ComputeRaises \/ DropUsed \/ DropRaises)
    BY <1>5, <1>6, <1>9
    DEF PrefetchRaises, LoadRaises, Compute, ComputeRaises, DropUsed, DropRaises
<1>11. QED
    BY <1>3, <1>4, <1>6, <1>8, <1>10 DEF Next, WorkerStep, ForwardStep, Threads

\* Every step leaves the lists alone or is a check of the replay.
LEMMA ReplayStep ==
    ASSUME LimitInv, [Next]_vars, QuotasFit
    PROVE  Lru' = Lru \/ Replay!ReplayNext
<1>1. CASE UNCHANGED <<config, entries, newer>>
    BY <1>1, LruKept
<1>2. ASSUME NEW t \in Threads, Touch(t), thread[t].expert \in entries
      PROVE  Replay!ReplayNext
  <2> DEFINE e == thread[t].expert
  <2>1. /\ e \in entries /\ UNCHANGED <<config, entries>>
        /\ newer' = Touched(e, entries)
      BY <1>2 DEF Touch
  <2>2. e \in Experts
      BY <2>1, ListedOrdered
  <2> HIDE DEF e
  <2>3. Replay!Hit(e)
      BY <2>1, UseIsHit
  <2>4. config.entries > 0
    <3>1. Cardinality(entries) <= config.entries /\ config.entries \in Nat
        BY ListedOrdered DEF LimitInv, WithinLimits
    <3>2. Cardinality(entries) \in Nat /\ Cardinality(entries) # 0
        BY <2>1, ListedOrdered, FS_CardinalityType, FS_EmptySet
    <3>3. QED
        BY <3>1, <3>2
  <2>5. QED
      BY <2>1, <2>2, <2>3, <2>4 DEF Replay!ReplayNext, Replay!Check
<1>3. ASSUME NEW t \in Threads, Insert(t), Enabled, thread[t].expert \notin entries
      PROVE  Replay!ReplayNext
  <2> DEFINE e == thread[t].expert
  <2>1. Replay!Miss(e)
      BY <1>3, InsertIsMiss
  <2>2. e \in Experts
      BY <1>3 DEF Insert, LimitInv, TypeInv, TypeOK, Loading
  <2>3. UNCHANGED config
      BY ConfigKept
  <2> HIDE DEF e
  <2>4. QED
      BY <1>3, <2>1, <2>2, <2>3 DEF Replay!ReplayNext, Replay!Check, Enabled
<1>4. QED
    BY <1>1, <1>2, <1>3, CacheSteps

\* The cache of the runtime, ordered by its last uses, is the cache that the
\* trace replay simulates: whatever the threads do to it is one check of the
\* replay, the use of an entry is a hit there, and the eviction takes what the
\* replay's lists would drop, for any quotas that fit into the cache together.
THEOREM LoaderRefinesReplay == Spec => RefinesReplay
<1>1. Init => LimitInv
  <2>1. Init => config.entries \in Nat /\ config.slots \in Nat
      BY ConfigAssumption DEF Init
  <2>2. Init => WithinLimits /\ IsFiniteSet(pool) /\ Orders(newer, entries)
      BY <2>1, FS_EmptySet DEF Init, WithinLimits, Orders
  <2>3. QED
      BY <2>2, TypeInit DEF LimitInv
<1>2. Init => Replay!ReplayInit
  <2> SUFFICES ASSUME Init PROVE Replay!ReplayInit
      OBVIOUS
  <2>1. ASSUME NEW k \in Lists PROVE ByUse(Listed(k), newer) = <<>>
    <3>1. Listed(k) = {}
        BY DEF Init, Listed
    <3>2. Cardinality({}) = 0
        BY FS_EmptySet
    <3>3. QED
        BY <3>1, <3>2 DEF ByUse
  <2>2. Lru = [k \in Lists |-> <<>>]
      BY <2>1 DEF Lru
  <2>3. QED
      BY <2>2, ReplayNames DEF Replay!ReplayInit
<1>3. LimitInv /\ [Next]_vars => [QuotasFit => Replay!ReplayNext]_Lru
    BY ReplayStep
<1>4. LimitInv /\ [Next]_vars
        => [\A t \in Threads : QuotasFit /\ Uses(t) => Replay!Hit(thread[t].expert)]_vars
  <2> SUFFICES ASSUME LimitInv, [Next]_vars, NEW t \in Threads, Uses(t)
               PROVE  Replay!Hit(thread[t].expert)
      OBVIOUS
  <2>1. Touch(t) /\ thread[t].expert \in entries
      BY UseIsTouch DEF LimitInv, Uses
  <2>2. UNCHANGED <<config, entries>> /\ newer' = Touched(thread[t].expert, entries)
      BY <2>1 DEF Touch
  <2>3. QED
      BY <2>1, <2>2, UseIsHit
<1>5. QED
    BY <1>1, <1>2, <1>3, <1>4, LimitStep, PTL DEF Spec, RefinesReplay
=============================================================================
