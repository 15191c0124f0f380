---------------------------- MODULE SessionCache ----------------------------
(***************************************************************************)
(* The session cache of DeepSeekSparkEngine (spark_runtime/engine.py).     *)
(*                                                                         *)
(* The engine keeps ONE key/value cache, inside the model, and a table of  *)
(* sessions that each believe the cache holds their token prefix.  A call  *)
(* of generate_sync picks a session, decides how much of the prompt the    *)
(* cache already holds, prefills the rest, decodes greedily and commits    *)
(* the new prefix.  prepare_next_logits_sync (the deferred postfill) later *)
(* feeds the last generated token.                                         *)
(*                                                                         *)
(* Token sequences are contexts.  A cache position, and a logits tensor,   *)
(* is represented by the context it encodes; Junk (the empty context) is a *)
(* position never written, half written by a forward pass that raised, or  *)
(* computed on top of positions that do not encode one common prefix.      *)
(***************************************************************************)
EXTENDS Naturals, Sequences, FiniteSets

CONSTANTS
    Sessions,       \* session ids the clients use
    None,           \* Python's None, for next_logits and active_session_id
    Tokens,         \* the vocabulary
    StopTokens,     \* stop_token_ids
    Greedy(_),      \* argmax of the logits the model computes for a context
    Prompts,        \* encoded prompts the clients send
    Policies,       \* the cache policies the clients use
    PostfillMode,   \* DEEPSEEK_SPARK_POSTFILL_MODE
    MaxSeqLen,      \* DEEPSEEK_SPARK_MAX_SEQ_LEN
    MaxTokens,      \* bound on the max_tokens of a request
    MaxPostfills,   \* bound: no call starts while more tasks than this wait
    CanFail,        \* TRUE: a step of a call may raise
    OnWorker,       \* TRUE: every call goes through DedicatedEngineWorker
    PatientClient   \* TRUE: clients wait until no postfill is pending

Slots == 1..(MaxSeqLen + MaxTokens)

ASSUME SessionAssumption == None \notin Sessions
ASSUME LogitsAssumption == None \notin Seq(Tokens)
ASSUME StopAssumption == StopTokens \subseteq Tokens
ASSUME PromptAssumption == Prompts \subseteq Seq(Tokens)
ASSUME PolicyAssumption == Policies \subseteq {"reuse", "reset", "none"}
ASSUME ModeAssumption == PostfillMode \in {"deferred", "inline", "off"}
ASSUME LengthAssumption == {MaxSeqLen, MaxTokens, MaxPostfills} \subseteq Nat
ASSUME SwitchAssumption == {CanFail, OnWorker, PatientClient} \subseteq BOOLEAN
ASSUME GreedyAssumption ==
    \A n \in Slots : \A c \in [1..n -> Tokens] : Greedy(c) \in Tokens

VARIABLES
    sessions,   \* the SessionState of every id; an id not in the dict is Fresh
    active,     \* active_session_id
    kv,         \* the model's cache: the context each position encodes
    phase,      \* where the call that holds the engine lock stands
    call,       \* its arguments and what it read when it picked the session
    out,        \* generated
    logits,     \* the local variable logits
    detached,   \* the call's session object is not (or no longer) in the table
    postfills   \* arguments of the scheduled prepare_next_logits calls

engineVars == <<sessions, active, kv>>
callVars == <<phase, call, out, logits, detached>>
vars == <<engineVars, callVars, postfills>>

Contexts == Seq(Tokens)
Junk == <<>>

SessionState ==
    [tokens : Contexts, valid : BOOLEAN, logits : Contexts \cup {None}, pending : BOOLEAN]

Fresh == [tokens |-> <<>>, valid |-> FALSE, logits |-> None, pending |-> FALSE]

-----------------------------------------------------------------------------
(* The model: a forward pass over ids whose first token has position start. *)

\* The cache encodes ctx: each of its positions was computed from the prefix
\* of ctx that ends there.
Holds(cache, ctx) == \A i \in 1..Len(ctx) : cache[i] = SubSeq(ctx, 1, i)

\* The context that the first start positions encode together, if they do.
Seen(cache, start) == IF start = 0 THEN <<>> ELSE cache[start]
Sound(cache, start) ==
    /\ Len(Seen(cache, start)) = start
    /\ Holds(cache, Seen(cache, start))

ForwardLogits(cache, ids, start) ==
    IF Sound(cache, start) THEN Seen(cache, start) \o ids ELSE Junk

ForwardCache(cache, ids, start) ==
    [i \in DOMAIN cache |->
        IF i \in (start + 1)..(start + Len(ids))
        THEN IF Sound(cache, start)
             THEN Seen(cache, start) \o SubSeq(ids, 1, i - start)
             ELSE Junk
        ELSE cache[i]]

\* What the model would answer next.  Logits computed on a wrong cache may
\* have their maximum anywhere.
NextTokens(ctx) == IF ctx = Junk THEN Tokens ELSE {Greedy(ctx)}

-----------------------------------------------------------------------------
(* Picking the session *)

\* Mutant: only the lengths are compared.
ExtendsByLength(prompt, tokens) == Len(tokens) <= Len(prompt)

Extends(prompt, tokens) ==
    /\ Len(tokens) <= Len(prompt)
    /\ SubSeq(prompt, 1, Len(tokens)) = tokens

\* The session object _select_session returns.  A valid session that the
\* prompt does not extend is replaced, whether the prompt is a prefix of it
\* or diverges from it.
SelectSession(sid, policy, prompt) ==
    LET session == sessions[sid] IN
    IF \/ policy \in {"none", "reset"}
       \/ session.valid /\ ~Extends(prompt, session.tokens)
    THEN Fresh
    ELSE session

ReusesPrefix(session, policy, prompt) ==
    policy = "reuse" /\ session.valid /\ Extends(prompt, session.tokens)

\* Mutants: the last cached token is counted out, or one token too many is
\* counted in.
ReusedPrefixLessOne(session, policy, prompt) ==
    IF ReusesPrefix(session, policy, prompt) THEN Len(session.tokens) - 1 ELSE 0
ReusedPrefixPlusOne(session, policy, prompt) ==
    IF ReusesPrefix(session, policy, prompt) /\ prompt # session.tokens
    THEN Len(session.tokens) + 1 ELSE 0

ReusedPrefixLen(session, policy, prompt) ==
    IF ReusesPrefix(session, policy, prompt) THEN Len(session.tokens) ELSE 0

\* History: the cache, and the stored logits if the call will use them, are
\* right for the prefix of the prompt that the call is about to reuse.
Clean(session, reused, prompt) ==
    /\ Holds(kv, SubSeq(prompt, 1, reused))
    /\ prompt # <<>> /\ reused = Len(prompt) => session.logits \in {None, prompt}

NoCall == [sid |-> None, policy |-> "none", prompt |-> <<>>, limit |-> 0,
           held |-> Fresh, reused |-> 0, clean |-> TRUE]

Idle ==
    /\ phase' = "idle"
    /\ call' = NoCall
    /\ out' = <<>>
    /\ logits' = None
    /\ detached' = FALSE

Init ==
    /\ sessions = [s \in Sessions |-> Fresh]
    /\ active = None
    /\ kv = [i \in Slots |-> Junk]
    /\ phase = "idle"
    /\ call = NoCall
    /\ out = <<>>
    /\ logits = None
    /\ detached = FALSE
    /\ postfills = {}

\* A generate call takes the lock.  A prompt longer than MaxSeqLen is refused
\* before anything changes.
Begin(sid, policy, prompt, limit) ==
    /\ phase = "idle"
    /\ PatientClient => \A s \in Sessions : ~sessions[s].pending
    /\ Cardinality(postfills) <= MaxPostfills
    /\ Len(prompt) <= MaxSeqLen
    /\ LET session == SelectSession(sid, policy, prompt)
           reused == ReusedPrefixLen(session, policy, prompt)
       IN /\ sessions' = IF policy = "none" THEN sessions
                         ELSE [sessions EXCEPT ![sid] = session]
          /\ call' = [sid |-> sid, policy |-> policy, prompt |-> prompt,
                      limit |-> limit, held |-> session, reused |-> reused,
                      clean |-> Clean(session, reused, prompt)]
    /\ phase' = "prefill"
    /\ detached' = (policy = "none")
    /\ UNCHANGED <<active, kv, out, logits, postfills>>

Feed(ids, start) ==
    /\ logits' = ForwardLogits(kv, ids, start)
    /\ kv' = ForwardCache(kv, ids, start)

PrefillSuffix ==
    /\ call.reused < Len(call.prompt)
    /\ Feed(SubSeq(call.prompt, call.reused + 1, Len(call.prompt)), call.reused)

ResumeFromLogits ==
    /\ call.reused = Len(call.prompt)
    /\ call.prompt # <<>> /\ call.held.logits # None
    /\ logits' = call.held.logits
    /\ UNCHANGED kv

\* The cache has the tokens but no stored logits: only the final token runs.
RefeedLast ==
    /\ call.reused = Len(call.prompt)
    /\ call.prompt # <<>> /\ call.held.logits = None
    /\ Feed(<<call.prompt[Len(call.prompt)]>>, Len(call.prompt) - 1)

EmptyPrompt ==
    /\ call.prompt = <<>>
    /\ UNCHANGED <<logits, kv>>

Prefill ==
    /\ phase = "prefill"
    /\ PrefillSuffix \/ ResumeFromLogits \/ RefeedLast \/ EmptyPrompt
    /\ phase' = "decode"
    /\ UNCHANGED <<sessions, active, call, out, detached, postfills>>

-----------------------------------------------------------------------------
(* Decoding *)

Stopped == out # <<>> /\ out[Len(out)] \in StopTokens
Decoding == logits # None /\ Len(out) < call.limit /\ ~Stopped

\* Mutant: the position after the right one.
NextPositionPlusOne == Len(call.prompt) + Len(out) + 1

NextPosition == Len(call.prompt) + Len(out)
WantsMore == Len(out) + 1 < call.limit

\* One iteration of the decode loop: the token is fed back only if another
\* one will be generated.
DecodeStep ==
    /\ phase = "decode" /\ Decoding
    /\ \E token \in NextTokens(logits) :
        /\ out' = Append(out, token)
        /\ IF token \notin StopTokens /\ WantsMore
           THEN Feed(<<token>>, NextPosition)
           ELSE UNCHANGED <<logits, kv>>
    /\ UNCHANGED <<sessions, active, phase, call, detached, postfills>>

Full == call.prompt \o out
FeedsInline ==
    call.policy # "none" /\ PostfillMode = "inline" /\ out # <<>> /\ ~Stopped
Defers ==
    call.policy # "none" /\ PostfillMode = "deferred" /\ out # <<>> /\ ~Stopped

\* Mutants: logits kept whatever they were computed from, and the first session to
\* own the slot kept as its owner.
KeepsLogits == TRUE
FirstOwner == IF active = None THEN call.sid ELSE active

LastPosition == Len(Full) - 1
NextLogitsValid == out = <<>> \/ FeedsInline
NewOwner == call.sid

\* The loop is over: inline postfill, then the session is committed.
Commit ==
    /\ phase = "decode" /\ ~Decoding
    /\ IF FeedsInline
       THEN Feed(<<out[Len(out)]>>, LastPosition)
       ELSE UNCHANGED <<logits, kv>>
    /\ IF call.policy = "none"
       THEN UNCHANGED <<sessions, active>>
       ELSE /\ active' = NewOwner
            /\ IF detached THEN UNCHANGED sessions
               ELSE sessions' = [sessions EXCEPT ![call.sid] =
                        [tokens |-> Full,
                         valid |-> TRUE,
                         logits |-> IF NextLogitsValid THEN logits' ELSE None,
                         pending |-> Defers]]
    /\ phase' = "answer"
    /\ UNCHANGED <<call, out, detached, postfills>>

\* The result reaches the server, which schedules the deferred postfill.  Two
\* tasks with equal arguments are kept as one: they run the same code on the
\* same session.
Answer ==
    /\ phase = "answer"
    /\ postfills' = IF Defers THEN postfills \cup {[sid |-> call.sid, tokens |-> Full]}
                    ELSE postfills
    /\ Idle
    /\ UNCHANGED engineVars

-----------------------------------------------------------------------------
(* Deferred postfill *)

\* Mutants: the slot's owner is not compared, and a skipped task leaves the
\* session pending.
IgnoreOwner(p) == TRUE
LeavePending(sid) == sessions

OwnsSlot(p) == active = p.sid
ClearPending(sid) == [sessions EXCEPT ![sid].pending = FALSE]

\* The task runs and finds that the slot now belongs to another session, that
\* its session has moved on, or that the logits are there already.
PrepareSkip(p) ==
    LET session == sessions[p.sid] IN
    /\ phase = "idle"
    /\ \/ /\ ~OwnsSlot(p)
          /\ sessions' = ClearPending(p.sid)
       \/ /\ OwnsSlot(p) /\ session.tokens # p.tokens
          /\ UNCHANGED sessions
       \/ /\ OwnsSlot(p) /\ session.tokens = p.tokens /\ session.logits # None
          /\ sessions' = ClearPending(p.sid)
    /\ postfills' = postfills \ {p}
    /\ UNCHANGED <<active, kv, callVars>>

PrepareBegin(p) ==
    /\ phase = "idle"
    /\ OwnsSlot(p)
    /\ sessions[p.sid].tokens = p.tokens
    /\ sessions[p.sid].logits = None
    /\ phase' = "prepare"
    /\ call' = [call EXCEPT !.sid = p.sid, !.prompt = p.tokens]
    /\ postfills' = postfills \ {p}
    /\ UNCHANGED <<engineVars, out, logits, detached>>

PrepareFeed ==
    LET last == Len(call.prompt) IN
    /\ phase = "prepare"
    /\ kv' = ForwardCache(kv, <<call.prompt[last]>>, last - 1)
    /\ IF detached THEN UNCHANGED sessions
       ELSE sessions' = [sessions EXCEPT ![call.sid] = [@ EXCEPT
                !.logits = ForwardLogits(kv, <<call.prompt[last]>>, last - 1),
                !.pending = FALSE]]
    /\ Idle
    /\ UNCHANGED <<active, postfills>>

-----------------------------------------------------------------------------
(* Reset and failure *)

\* reset_session takes no lock.  On the worker it waits for the running call;
\* an engine driven directly lets it drop the session under that call.
Reset(s) ==
    /\ OnWorker => phase = "idle"
    /\ sessions' = [sessions EXCEPT ![s] = Fresh]
    /\ active' = IF active = s THEN None ELSE active
    /\ detached' = (detached \/ (phase # "idle" /\ call.sid = s))
    /\ UNCHANGED <<kv, phase, call, out, logits, postfills>>

\* The positions that the next forward pass of the call writes.
Writing ==
    LET n == Len(call.prompt) IN
    CASE phase = "prefill" /\ call.reused < n -> (call.reused + 1)..n
      [] phase = "prefill" /\ call.reused = n /\ call.held.logits = None -> {n} \ {0}
      [] phase = "decode" /\ Decoding -> {n + Len(out) + 1}
      [] phase = "decode" /\ ~Decoding /\ FeedsInline -> {n + Len(out)}
      [] phase = "prepare" -> {n}
      [] OTHER -> {}

\* The call raises: before it touches the cache, or inside the forward pass
\* when some layers have written their positions and others have not.  What
\* the call did to the session table before stays done.
Fail ==
    /\ CanFail
    /\ phase # "idle"
    /\ \E torn \in {{}, Writing} :
          kv' = [i \in DOMAIN kv |-> IF i \in torn THEN Junk ELSE kv[i]]
    /\ Idle
    /\ UNCHANGED <<sessions, active, postfills>>

Next ==
    \/ \E sid \in Sessions, policy \in Policies, prompt \in Prompts, limit \in 0..MaxTokens :
          Begin(sid, policy, prompt, limit)
    \/ Prefill \/ DecodeStep \/ Commit \/ Answer
    \/ \E p \in postfills : PrepareSkip(p) \/ PrepareBegin(p)
    \/ PrepareFeed
    \/ \E s \in Sessions : Reset(s)
    \/ Fail

Spec == Init /\ [][Next]_vars

-----------------------------------------------------------------------------
(* Properties *)

\* Types of the engine's state and of the call in progress.
TypeOK ==
    /\ sessions \in [Sessions -> SessionState]
    /\ active \in Sessions \cup {None}
    /\ kv \in [Slots -> Contexts]
    /\ phase \in {"idle", "prefill", "decode", "answer", "prepare"}
    /\ call \in [sid : Sessions \cup {None}, policy : {"reuse", "reset", "none"},
                 prompt : Contexts, limit : 0..MaxTokens, held : SessionState,
                 reused : Nat, clean : BOOLEAN]
    /\ out \in Contexts
    /\ logits \in Contexts \cup {None}
    /\ detached \in BOOLEAN
    /\ postfills \subseteq [sid : Sessions, tokens : Contexts]

\* The tokens generated so far are the greedy continuation of the prompt: what
\* the model answers with an empty cache.
GreedyAnswer ==
    \A i \in 1..Len(out) : out[i] = Greedy(call.prompt \o SubSeq(out, 1, i - 1))

\* Whatever calls, failures and resets came before, a call that reuses nothing
\* answers as if the cache were empty: stale positions are never read.
FreshCallExact == phase \in {"decode", "answer"} /\ call.reused = 0 => GreedyAnswer

\* A call that starts on a cache that is right for the prefix it reuses stays
\* right to its last token.
CleanCallExact == phase \in {"decode", "answer"} /\ call.clean => GreedyAnswer

\* Every call answers as if the cache were empty (docs/serving-design.md: reuse
\* only skips tokens already present in the session cache).
AnswerExact == phase \in {"decode", "answer"} => GreedyAnswer

Generating == phase \in {"prefill", "decode", "answer"}

Sequential == INSTANCE StatelessDecoder WITH
    prompt <- IF Generating THEN call.prompt ELSE <<>>,
    limit <- IF Generating THEN call.limit ELSE 0,
    answer <- out,
    busy <- Generating

\* The cache is transparent: calls served through it behave as calls of an
\* engine that recomputes every answer from the prompt alone.
RefinesStateless == Sequential!Spec

\* The logits kept for a session were computed from exactly its tokens: a
\* deferred postfill never stores the logits of somebody else's context.
StoredLogitsExact ==
    \A s \in Sessions : sessions[s].logits \in {None, sessions[s].tokens}

\* The session marked active is the one the cache holds, up to the last token,
\* which waits for its postfill.
ActiveSessionHeld ==
    phase = "idle" => \A s \in Sessions :
        active = s /\ sessions[s].valid /\ sessions[s].tokens # <<>> =>
            LET tokens == sessions[s].tokens IN
            Holds(kv, SubSeq(tokens, 1, Len(tokens) - 1))

\* A session that reports a pending postfill has one scheduled or running (or
\* its result is on the way to the server), so it will not stay pending.
PendingIsScheduled ==
    \A s \in Sessions : sessions[s].pending =>
        \/ [sid |-> s, tokens |-> sessions[s].tokens] \in postfills
        \/ phase \in {"prefill", "decode", "answer", "prepare"} /\ call.sid = s
=============================================================================
