------------------------ MODULE SessionCache_proofs ------------------------
(***************************************************************************)
(* Proofs about SessionCache: its types, and the exactness of every call   *)
(* that starts on a cache that is right for the prefix it reuses.          *)
(***************************************************************************)
EXTENDS SessionCache, SequenceTheorems, TLAPS

-----------------------------------------------------------------------------
(* Prefixes of sequences *)

\* A prefix of a prefix is a prefix.
LEMMA PrefixOfPrefix ==
    ASSUME NEW S, NEW s \in Seq(S), NEW m \in 0..Len(s), NEW k \in 0..m
    PROVE  /\ SubSeq(s, 1, m) \in Seq(S)
           /\ Len(SubSeq(s, 1, m)) = m
           /\ SubSeq(SubSeq(s, 1, m), 1, k) = SubSeq(s, 1, k)
<1>1. Len(s) \in Nat /\ \A i \in 1..Len(s) : s[i] \in S
    BY LenProperties, ElementOfSeq
<1>2. /\ SubSeq(s, 1, m) \in Seq(S)
      /\ Len(SubSeq(s, 1, m)) = m
      /\ \A i \in 1..m : SubSeq(s, 1, m)[i] = s[i]
    BY <1>1
<1>3. /\ SubSeq(s, 1, k) \in Seq(S)
      /\ Len(SubSeq(s, 1, k)) = k
      /\ \A i \in 1..k : SubSeq(s, 1, k)[i] = s[i]
    BY <1>1
<1>4. /\ SubSeq(SubSeq(s, 1, m), 1, k) \in Seq(S)
      /\ Len(SubSeq(SubSeq(s, 1, m), 1, k)) = k
      /\ \A i \in 1..k : SubSeq(SubSeq(s, 1, m), 1, k)[i] = SubSeq(s, 1, m)[i]
    BY <1>1, <1>2
<1>5. \A i \in 1..k : SubSeq(SubSeq(s, 1, m), 1, k)[i] = SubSeq(s, 1, k)[i]
    BY <1>1, <1>2, <1>3, <1>4
<1>6. QED
    BY <1>2, <1>3, <1>4, <1>5, SeqEqual

\* The prefixes of s \o t are those of s and then s followed by those of t.
LEMMA ConcatPrefixes ==
    ASSUME NEW S, NEW s \in Seq(S), NEW t \in Seq(S)
    PROVE  /\ \A k \in 0..Len(s) : SubSeq(s \o t, 1, k) = SubSeq(s, 1, k)
           /\ \A k \in 0..Len(t) : SubSeq(s \o t, 1, Len(s) + k) = s \o SubSeq(t, 1, k)
<1>1. /\ Len(s) \in Nat /\ Len(t) \in Nat
      /\ \A i \in 1..Len(s) : s[i] \in S
      /\ \A i \in 1..Len(t) : t[i] \in S
    BY LenProperties, ElementOfSeq
<1>2. /\ s \o t \in Seq(S)
      /\ Len(s \o t) = Len(s) + Len(t)
      /\ \A i \in 1..(Len(s) + Len(t)) :
            (s \o t)[i] = IF i <= Len(s) THEN s[i] ELSE t[i - Len(s)]
    BY ConcatProperties
<1>3. ASSUME NEW k \in 0..Len(s)
      PROVE  SubSeq(s \o t, 1, k) = SubSeq(s, 1, k)
  <2>1. /\ SubSeq(s, 1, k) \in Seq(S)
        /\ Len(SubSeq(s, 1, k)) = k
        /\ \A i \in 1..k : SubSeq(s, 1, k)[i] = s[i]
      BY <1>1
  <2>2. /\ SubSeq(s \o t, 1, k) \in Seq(S)
        /\ Len(SubSeq(s \o t, 1, k)) = k
        /\ \A i \in 1..k : SubSeq(s \o t, 1, k)[i] = (s \o t)[i]
      BY <1>1, <1>2
  <2>3. \A i \in 1..k : SubSeq(s \o t, 1, k)[i] = SubSeq(s, 1, k)[i]
      BY <1>1, <1>2, <2>1, <2>2
  <2>4. QED
      BY <2>1, <2>2, <2>3, SeqEqual
<1>4. ASSUME NEW k \in 0..Len(t)
      PROVE  SubSeq(s \o t, 1, Len(s) + k) = s \o SubSeq(t, 1, k)
  <2>1. /\ SubSeq(t, 1, k) \in Seq(S)
        /\ Len(SubSeq(t, 1, k)) = k
        /\ \A i \in 1..k : SubSeq(t, 1, k)[i] = t[i]
      BY <1>1
  <2>2. /\ s \o SubSeq(t, 1, k) \in Seq(S)
        /\ Len(s \o SubSeq(t, 1, k)) = Len(s) + k
        /\ \A i \in 1..(Len(s) + k) : (s \o SubSeq(t, 1, k))[i]
                = IF i <= Len(s) THEN s[i] ELSE SubSeq(t, 1, k)[i - Len(s)]
      BY <2>1, ConcatProperties
  <2>3. /\ SubSeq(s \o t, 1, Len(s) + k) \in Seq(S)
        /\ Len(SubSeq(s \o t, 1, Len(s) + k)) = Len(s) + k
        /\ \A i \in 1..(Len(s) + k) : SubSeq(s \o t, 1, Len(s) + k)[i] = (s \o t)[i]
      BY <1>1, <1>2
  <2>4. \A i \in 1..(Len(s) + k) :
            SubSeq(s \o t, 1, Len(s) + k)[i] = (s \o SubSeq(t, 1, k))[i]
      BY <1>1, <1>2, <2>1, <2>2, <2>3
  <2>5. QED
      BY <2>2, <2>3, <2>4, SeqEqual
<1>5. QED
    BY <1>3, <1>4

\* A sequence is its first k elements followed by the others.
LEMMA SplitAt ==
    ASSUME NEW S, NEW s \in Seq(S), NEW k \in 0..Len(s)
    PROVE  /\ SubSeq(s, k + 1, Len(s)) \in Seq(S)
           /\ Len(SubSeq(s, k + 1, Len(s))) = Len(s) - k
           /\ SubSeq(s, 1, k) \o SubSeq(s, k + 1, Len(s)) = s
<1>1. Len(s) \in Nat /\ \A i \in 1..Len(s) : s[i] \in S
    BY LenProperties, ElementOfSeq
<1> DEFINE head == SubSeq(s, 1, k)
           rest == SubSeq(s, k + 1, Len(s))
<1>2. /\ head \in Seq(S) /\ Len(head) = k
      /\ \A i \in 1..k : head[i] = s[i]
    BY <1>1
<1>3. /\ rest \in Seq(S) /\ Len(rest) = Len(s) - k
      /\ \A i \in 1..(Len(s) - k) : rest[i] = s[k + i]
    BY <1>1
<1> HIDE DEF head, rest
<1>4. /\ head \o rest \in Seq(S)
      /\ Len(head \o rest) = Len(s)
      /\ \A i \in 1..Len(s) : (head \o rest)[i] = IF i <= k THEN head[i] ELSE rest[i - k]
    BY <1>1, <1>2, <1>3, ConcatProperties
<1>5. \A i \in 1..Len(s) : (head \o rest)[i] = s[i]
    BY <1>1, <1>2, <1>3, <1>4
<1>6. head \o rest = s
    BY <1>4, <1>5, SeqEqual
<1>7. QED
    BY <1>3, <1>6 DEF head, rest

\* A non-empty sequence is all but its last element followed by that one.
LEMMA LastOff ==
    ASSUME NEW S, NEW s \in Seq(S), s # <<>>
    PROVE  SubSeq(s, 1, Len(s) - 1) \o <<s[Len(s)]>> = s
<1>1. Len(s) \in 1..Len(s) /\ 1 \in 1..Len(s)
    BY EmptySeq, LenProperties
<1>2. SubSeq(s, 1, Len(s)) = SubSeq(s, 1, Len(s) - 1) \o <<s[Len(s)]>>
    BY <1>1, SubSeqRecursiveSecond
<1>3. QED
    BY <1>2, SubSeqFull

-----------------------------------------------------------------------------
(* The forward pass *)

\* A forward pass yields a context as logits and leaves a well-typed cache.
LEMMA ForwardType ==
    ASSUME NEW cache \in [Slots -> Contexts], NEW ids \in Contexts,
           NEW start \in 0..(MaxSeqLen + MaxTokens)
    PROVE  /\ ForwardLogits(cache, ids, start) \in Contexts
           /\ ForwardCache(cache, ids, start) \in [Slots -> Contexts]
<1>1. MaxSeqLen + MaxTokens \in Nat
    BY LengthAssumption
<1>2. Seen(cache, start) \in Contexts
    BY <1>1 DEF Seen, Slots, Contexts
<1>3. ForwardLogits(cache, ids, start) \in Contexts
    BY <1>2, ConcatProperties DEF ForwardLogits, Junk, Contexts
<1>4. ASSUME NEW i \in (start + 1)..(start + Len(ids))
      PROVE  Seen(cache, start) \o SubSeq(ids, 1, i - start) \in Contexts
  <2>1. Len(ids) \in Nat /\ i - start \in 0..Len(ids)
      BY <1>1, LenProperties DEF Contexts
  <2>2. SubSeq(ids, 1, i - start) \in Contexts
      BY <2>1, PrefixOfPrefix DEF Contexts
  <2>3. QED
      BY <1>2, <2>2, ConcatProperties DEF Contexts
<1>5. ForwardCache(cache, ids, start) \in [Slots -> Contexts]
    BY <1>4 DEF ForwardCache, Junk, Contexts
<1>6. QED
    BY <1>3, <1>5

\* On a cache that encodes ctx, a pass over ids at position Len(ctx) yields the
\* logits of ctx \o ids and a cache that encodes ctx \o ids.
LEMMA ForwardExact ==
    ASSUME NEW cache \in [Slots -> Contexts], NEW ctx \in Contexts,
           NEW ids \in Contexts, Len(ctx) + Len(ids) <= MaxSeqLen + MaxTokens,
           Holds(cache, ctx)
    PROVE  /\ ForwardLogits(cache, ids, Len(ctx)) = ctx \o ids
           /\ Holds(ForwardCache(cache, ids, Len(ctx)), ctx \o ids)
<1>1. /\ MaxSeqLen + MaxTokens \in Nat
      /\ Len(ctx) \in Nat /\ Len(ids) \in Nat
    BY LengthAssumption, LenProperties DEF Contexts
<1>2. Seen(cache, Len(ctx)) = ctx
  <2>1. CASE Len(ctx) = 0
      BY <2>1, EmptySeq DEF Seen, Contexts
  <2>2. CASE Len(ctx) # 0
    <3>1. cache[Len(ctx)] = SubSeq(ctx, 1, Len(ctx))
        BY <1>1, <2>2 DEF Holds
    <3>2. QED
        BY <2>2, <3>1, SubSeqFull DEF Seen, Contexts
  <2>3. QED
      BY <2>1, <2>2
<1>3. Sound(cache, Len(ctx))
    BY <1>2 DEF Sound
<1>4. ASSUME NEW i \in 1..Len(ctx \o ids)
      PROVE  ForwardCache(cache, ids, Len(ctx))[i] = SubSeq(ctx \o ids, 1, i)
  <2>1. Len(ctx \o ids) = Len(ctx) + Len(ids)
      BY ConcatProperties DEF Contexts
  <2>2. i \in Slots
      BY <1>1, <2>1 DEF Slots
  <2>3. CASE i <= Len(ctx)
    <3>1. ForwardCache(cache, ids, Len(ctx))[i] = cache[i]
        BY <1>1, <2>2, <2>3 DEF ForwardCache
    <3>2. cache[i] = SubSeq(ctx, 1, i)
        BY <1>1, <2>1, <2>3 DEF Holds
    <3>3. SubSeq(ctx \o ids, 1, i) = SubSeq(ctx, 1, i)
        BY <1>1, <2>1, <2>3, ConcatPrefixes DEF Contexts
    <3>4. QED
        BY <3>1, <3>2, <3>3
  <2>4. CASE i > Len(ctx)
    <3>1. i \in (Len(ctx) + 1)..(Len(ctx) + Len(ids)) /\ i - Len(ctx) \in 0..Len(ids)
        BY <1>1, <2>1, <2>4
    <3>2. ForwardCache(cache, ids, Len(ctx))[i] = ctx \o SubSeq(ids, 1, i - Len(ctx))
        BY <1>2, <1>3, <2>2, <3>1 DEF ForwardCache
    <3>3. SubSeq(ctx \o ids, 1, Len(ctx) + (i - Len(ctx)))
            = ctx \o SubSeq(ids, 1, i - Len(ctx))
        BY <3>1, ConcatPrefixes DEF Contexts
    <3>4. Len(ctx) + (i - Len(ctx)) = i
        BY <1>1, <2>1
    <3>5. QED
        BY <3>2, <3>3, <3>4
  <2>5. QED
      BY <1>1, <2>1, <2>3, <2>4
<1>5. Holds(ForwardCache(cache, ids, Len(ctx)), ctx \o ids)
    BY <1>4 DEF Holds
<1>6. QED
    BY <1>2, <1>3, <1>5 DEF ForwardLogits

-----------------------------------------------------------------------------
(* Types *)

Fits(l) == l = None \/ Len(l) <= MaxSeqLen + MaxTokens

\* Lengths: what keeps every position a call feeds inside the cache.
Bounds ==
    /\ Fits(logits) /\ Fits(call.held.logits)
    /\ \A s \in Sessions : Fits(sessions[s].logits)
    /\ Generating => /\ Len(call.prompt) <= MaxSeqLen
                     /\ call.reused <= Len(call.prompt)
                     /\ Len(out) <= call.limit
    /\ phase = "prepare" => /\ call.prompt # <<>>
                            /\ Len(call.prompt) <= MaxSeqLen + MaxTokens
    /\ phase # "idle" => call.sid \in Sessions
    /\ phase \notin {"decode", "answer"} => out = <<>> /\ logits = None
    /\ \A p \in postfills : p.tokens # <<>> /\ Len(p.tokens) <= MaxSeqLen + MaxTokens

TypeInv == TypeOK /\ Bounds

LEMMA FreshType == Fresh \in SessionState
BY EmptySeq DEF Fresh, SessionState, Contexts

LEMMA NoCallType ==
    NoCall \in [sid : Sessions \cup {None}, policy : {"reuse", "reset", "none"},
                prompt : Contexts, limit : 0..MaxTokens, held : SessionState,
                reused : Nat, clean : BOOLEAN]
BY FreshType, EmptySeq, LengthAssumption DEF NoCall, Contexts

\* The model's choice is a token.
LEMMA NextTokensType ==
    ASSUME NEW ctx \in Contexts, Len(ctx) <= MaxSeqLen + MaxTokens
    PROVE  NextTokens(ctx) \subseteq Tokens
<1>1. CASE ctx = Junk
    BY <1>1 DEF NextTokens
<1>2. CASE ctx # Junk
  <2>1. Len(ctx) \in Slots
      BY <1>2, EmptySeq, LengthAssumption DEF Junk, Contexts, Slots
  <2>2. ctx \in [1..Len(ctx) -> Tokens]
      BY LenProperties DEF Contexts
  <2>3. QED
      BY <1>2, <2>1, <2>2, GreedyAssumption DEF NextTokens
<1>3. QED
    BY <1>1, <1>2

\* Logits of a pass that ends inside the cache are short enough to be stored.
LEMMA ForwardFits ==
    ASSUME NEW cache \in [Slots -> Contexts], NEW ids \in Contexts,
           NEW start \in 0..(MaxSeqLen + MaxTokens),
           start + Len(ids) <= MaxSeqLen + MaxTokens
    PROVE  Fits(ForwardLogits(cache, ids, start))
<1>1. MaxSeqLen + MaxTokens \in Nat /\ Len(ids) \in Nat
    BY LengthAssumption, LenProperties DEF Contexts
<1>2. Seen(cache, start) \in Contexts
    BY <1>1 DEF Seen, Slots, Contexts
<1>3. CASE Sound(cache, start)
  <2>1. Len(Seen(cache, start) \o ids) = start + Len(ids)
      BY <1>2, <1>3, ConcatProperties DEF Sound, Contexts
  <2>2. QED
      BY <1>3, <2>1 DEF ForwardLogits, Fits
<1>4. CASE ~Sound(cache, start)
    BY <1>1, <1>4 DEF ForwardLogits, Fits, Junk
<1>5. QED
    BY <1>3, <1>4

LEMMA TypeInit == Init => TypeInv
<1> SUFFICES ASSUME Init PROVE TypeInv
    OBVIOUS
<1>1. MaxSeqLen + MaxTokens \in Nat
    BY LengthAssumption
<1>2. TypeOK
    BY FreshType, NoCallType, EmptySeq DEF Init, TypeOK, Junk, Contexts
<1>3. Bounds
    BY <1>1 DEF Init, Bounds, NoCall, Fresh, Fits, Generating
<1>4. QED
    BY <1>2, <1>3 DEF TypeInv

\* Returning to rest keeps the call's own variables well typed.
LEMMA IdleType ==
    ASSUME Idle
    PROVE  /\ phase' = "idle" /\ out' = <<>> /\ logits' = None
           /\ phase' \in {"idle", "prefill", "decode", "answer", "prepare"}
           /\ call' \in [sid : Sessions \cup {None}, policy : {"reuse", "reset", "none"},
                         prompt : Contexts, limit : 0..MaxTokens, held : SessionState,
                         reused : Nat, clean : BOOLEAN]
           /\ out' \in Contexts
           /\ logits' \in Contexts \cup {None}
           /\ detached' \in BOOLEAN
           /\ Fits(logits') /\ Fits(call'.held.logits)
BY NoCallType, EmptySeq DEF Idle, Contexts, NoCall, Fresh, Fits

\* Feeding ids at start, when they end inside the cache.
LEMMA FeedType ==
    ASSUME kv \in [Slots -> Contexts], NEW ids \in Contexts,
           NEW start \in 0..(MaxSeqLen + MaxTokens),
           start + Len(ids) <= MaxSeqLen + MaxTokens, Feed(ids, start)
    PROVE  /\ kv' \in [Slots -> Contexts]
           /\ logits' \in Contexts
           /\ Fits(logits')
BY ForwardType, ForwardFits DEF Feed

LEMMA TypeBegin ==
    ASSUME TypeInv, NEW sid \in Sessions, NEW policy \in Policies,
           NEW prompt \in Prompts, NEW limit \in 0..MaxTokens,
           Begin(sid, policy, prompt, limit)
    PROVE  TypeInv'
<1> DEFINE session == SelectSession(sid, policy, prompt)
           reused == ReusedPrefixLen(session, policy, prompt)
<1>1. /\ MaxSeqLen + MaxTokens \in Nat /\ prompt \in Contexts /\ Len(prompt) \in Nat
      /\ policy \in {"reuse", "reset", "none"}
    BY LengthAssumption, PromptAssumption, PolicyAssumption, LenProperties DEF Contexts
<1>2. session \in SessionState /\ Fits(session.logits)
    BY FreshType DEF TypeInv, TypeOK, Bounds, SelectSession, Fresh, Fits
<1>3. reused \in Nat /\ reused <= Len(prompt)
  <2>1. session.tokens \in Contexts /\ Len(session.tokens) \in Nat
      BY <1>2, LenProperties DEF SessionState, Contexts
  <2>2. QED
      BY <1>1, <2>1 DEF ReusedPrefixLen, ReusesPrefix, Extends
<1>4. Clean(session, reused, prompt) \in BOOLEAN
    BY DEF Clean, Holds
<1>5. call' = [sid |-> sid, policy |-> policy, prompt |-> prompt, limit |-> limit,
               held |-> session, reused |-> reused,
               clean |-> Clean(session, reused, prompt)]
    BY DEF Begin
<1> HIDE DEF session, reused
<1>6. TypeOK'
  <2>1. sessions' \in [Sessions -> SessionState]
      BY <1>2 DEF Begin, TypeInv, TypeOK, session
  <2>2. call' \in [sid : Sessions \cup {None}, policy : {"reuse", "reset", "none"},
                   prompt : Contexts, limit : 0..MaxTokens, held : SessionState,
                   reused : Nat, clean : BOOLEAN]
      BY <1>1, <1>2, <1>3, <1>4, <1>5
  <2>3. QED
      BY <2>1, <2>2 DEF Begin, TypeInv, TypeOK
<1>7. Bounds'
  <2>1. \A s \in Sessions : Fits(sessions'[s].logits)
      BY <1>2 DEF Begin, TypeInv, TypeOK, Bounds, session
  <2>2. Len(out') <= call'.limit
      BY <1>5 DEF Begin, TypeInv, Bounds
  <2>3. QED
      BY <1>1, <1>2, <1>3, <1>5, <2>1, <2>2
      DEF Begin, TypeInv, Bounds, Generating, Fits
<1>8. QED
    BY <1>6, <1>7 DEF TypeInv

LEMMA TypePrefill == TypeInv /\ Prefill => TypeInv'
<1> SUFFICES ASSUME TypeInv, Prefill PROVE TypeInv'
    OBVIOUS
<1>1. /\ MaxSeqLen \in Nat /\ MaxTokens \in Nat
      /\ call.prompt \in Contexts /\ Len(call.prompt) \in Nat
      /\ call.reused \in Nat /\ call.reused <= Len(call.prompt)
      /\ Len(call.prompt) <= MaxSeqLen
      /\ kv \in [Slots -> Contexts]
      /\ phase = "prefill" /\ phase' = "decode"
      /\ out = <<>> /\ logits = None
    BY LengthAssumption, LenProperties
    DEF TypeInv, TypeOK, Bounds, Generating, Prefill, Contexts
<1>2. /\ kv' \in [Slots -> Contexts]
      /\ logits' \in Contexts \cup {None}
      /\ Fits(logits')
  <2>1. CASE PrefillSuffix
    <3> DEFINE ids == SubSeq(call.prompt, call.reused + 1, Len(call.prompt))
    <3>1. call.reused \in 0..Len(call.prompt)
        BY <1>1
    <3>2. ids \in Contexts /\ Len(ids) = Len(call.prompt) - call.reused
        BY <1>1, <3>1, SplitAt DEF Contexts
    <3>3. Feed(ids, call.reused)
        BY <2>1 DEF PrefillSuffix
    <3> HIDE DEF ids
    <3>4. QED
        BY <1>1, <3>2, <3>3, FeedType
  <2>2. CASE ResumeFromLogits
      BY <1>1, <2>2 DEF ResumeFromLogits, TypeInv, TypeOK, Bounds, SessionState
  <2>3. CASE RefeedLast
    <3> DEFINE n == Len(call.prompt)
               ids == <<call.prompt[n]>>
    <3>1. n \in 1..Len(call.prompt)
        BY <1>1, <2>3, EmptySeq DEF RefeedLast, Contexts
    <3>2. ids \in Contexts /\ Len(ids) = 1
        BY <1>1, <3>1, ElementOfSeq DEF Contexts
    <3>3. Feed(ids, n - 1)
        BY <2>3 DEF RefeedLast
    <3>4. n - 1 \in 0..(MaxSeqLen + MaxTokens) /\ n - 1 + Len(ids) <= MaxSeqLen + MaxTokens
        BY <1>1, <3>1, <3>2
    <3> HIDE DEF ids, n
    <3>5. QED
        BY <1>1, <3>2, <3>3, <3>4, FeedType
  <2>4. CASE EmptyPrompt
      BY <1>1, <2>4 DEF EmptyPrompt, TypeInv, TypeOK, Bounds
  <2>5. QED
      BY <2>1, <2>2, <2>3, <2>4 DEF Prefill
<1>3. TypeOK'
    BY <1>1, <1>2 DEF Prefill, TypeInv, TypeOK
<1>4. Bounds'
    BY <1>1, <1>2 DEF Prefill, TypeInv, Bounds, Generating
<1>5. QED
    BY <1>3, <1>4 DEF TypeInv

LEMMA TypeDecodeStep == TypeInv /\ DecodeStep => TypeInv'
<1> SUFFICES ASSUME TypeInv, DecodeStep PROVE TypeInv'
    OBVIOUS
<1>1. /\ MaxSeqLen \in Nat /\ MaxTokens \in Nat
      /\ call.prompt \in Contexts /\ Len(call.prompt) \in Nat
      /\ call.limit \in 0..MaxTokens
      /\ out \in Contexts /\ Len(out) \in Nat /\ Len(out) < call.limit
      /\ Len(call.prompt) <= MaxSeqLen
      /\ kv \in [Slots -> Contexts]
      /\ logits \in Contexts /\ Len(logits) <= MaxSeqLen + MaxTokens
      /\ phase = "decode"
    BY LengthAssumption, LenProperties
    DEF TypeInv, TypeOK, Bounds, Generating, DecodeStep, Decoding, Contexts, Fits
<1>2. PICK token \in NextTokens(logits) :
        /\ out' = Append(out, token)
        /\ IF token \notin StopTokens /\ WantsMore
           THEN Feed(<<token>>, NextPosition)
           ELSE UNCHANGED <<logits, kv>>
    BY DEF DecodeStep
<1>3. token \in Tokens
    BY <1>1, NextTokensType
<1>4. out' \in Contexts /\ Len(out') = Len(out) + 1
    BY <1>1, <1>2, <1>3 DEF Contexts
<1>5. /\ kv' \in [Slots -> Contexts]
      /\ logits' \in Contexts
      /\ Fits(logits')
  <2>1. CASE token \notin StopTokens /\ WantsMore
    <3> DEFINE ids == <<token>>
    <3>1. ids \in Contexts /\ Len(ids) = 1
        BY <1>3 DEF Contexts
    <3>2. NextPosition \in 0..(MaxSeqLen + MaxTokens)
          /\ NextPosition + Len(ids) <= MaxSeqLen + MaxTokens
        BY <1>1, <3>1 DEF NextPosition
    <3>3. Feed(ids, NextPosition)
        BY <1>2, <2>1
    <3> HIDE DEF ids
    <3>4. QED
        BY <1>1, <3>1, <3>2, <3>3, FeedType
  <2>2. CASE ~(token \notin StopTokens /\ WantsMore)
      BY <1>1, <1>2, <2>2 DEF Fits
  <2>3. QED
      BY <2>1, <2>2
<1>6. TypeOK'
    BY <1>4, <1>5 DEF DecodeStep, TypeInv, TypeOK
<1>7. Bounds'
    BY <1>1, <1>4, <1>5 DEF DecodeStep, TypeInv, Bounds, Generating
<1>8. QED
    BY <1>6, <1>7 DEF TypeInv

\* The prompt and the answer together end inside the cache.
LEMMA FullType ==
    ASSUME TypeInv, phase \in {"decode", "answer"}
    PROVE  /\ Full \in Contexts /\ Len(Full) = Len(call.prompt) + Len(out)
           /\ Len(Full) <= MaxSeqLen + MaxTokens
           /\ out # <<>> => Full # <<>> /\ Len(Full) >= 1 /\ Len(out) >= 1
<1>1. /\ MaxSeqLen \in Nat /\ MaxTokens \in Nat
      /\ call.prompt \in Contexts /\ Len(call.prompt) \in Nat
      /\ call.limit \in 0..MaxTokens
      /\ out \in Contexts /\ Len(out) \in Nat /\ Len(out) <= call.limit
      /\ Len(call.prompt) <= MaxSeqLen
    BY LengthAssumption, LenProperties
    DEF TypeInv, TypeOK, Bounds, Generating, Contexts
<1>2. Full \in Contexts /\ Len(Full) = Len(call.prompt) + Len(out)
    BY <1>1, ConcatProperties DEF Full, Contexts
<1>3. out # <<>> => Len(out) >= 1
    BY <1>1, EmptySeq DEF Contexts
<1>4. QED
    BY <1>1, <1>2, <1>3, EmptySeq DEF Contexts

LEMMA TypeCommit == TypeInv /\ Commit => TypeInv'
<1> SUFFICES ASSUME TypeInv, Commit PROVE TypeInv'
    OBVIOUS
<1>1. /\ MaxSeqLen \in Nat /\ MaxTokens \in Nat
      /\ out \in Contexts
      /\ kv \in [Slots -> Contexts]
      /\ logits \in Contexts \cup {None} /\ Fits(logits)
      /\ phase = "decode" /\ phase' = "answer"
      /\ call.sid \in Sessions
    BY LengthAssumption DEF TypeInv, TypeOK, Bounds, Generating, Commit
<1>2. /\ kv' \in [Slots -> Contexts]
      /\ logits' \in Contexts \cup {None}
      /\ Fits(logits')
  <2>1. CASE FeedsInline
    <3> DEFINE ids == <<out[Len(out)]>>
    <3>1. Len(out) \in 1..Len(out)
        BY <1>1, <2>1, EmptySeq DEF FeedsInline, Contexts
    <3>2. ids \in Contexts /\ Len(ids) = 1
        BY <1>1, <3>1, ElementOfSeq DEF Contexts
    <3>3. LastPosition \in 0..(MaxSeqLen + MaxTokens)
          /\ LastPosition + Len(ids) <= MaxSeqLen + MaxTokens
        BY <1>1, <2>1, <3>2, FullType, LenProperties DEF FeedsInline, LastPosition, Contexts
    <3>4. Feed(ids, LastPosition)
        BY <2>1 DEF Commit
    <3> HIDE DEF ids
    <3>5. QED
        BY <1>1, <3>2, <3>3, <3>4, FeedType
  <2>2. CASE ~FeedsInline
      BY <1>1, <2>2 DEF Commit
  <2>3. QED
      BY <2>1, <2>2
<1> DEFINE new == [tokens |-> Full, valid |-> TRUE,
                   logits |-> IF NextLogitsValid THEN logits' ELSE None,
                   pending |-> Defers]
<1>3. new \in SessionState /\ Fits(new.logits)
  <2>1. Defers \in BOOLEAN
      BY DEF Defers
  <2>2. QED
      BY <1>1, <1>2, <2>1, FullType DEF SessionState, Fits
<1>4. /\ sessions' = sessions \/ sessions' = [sessions EXCEPT ![call.sid] = new]
      /\ active' = active \/ active' = call.sid
    BY DEF Commit, NewOwner
<1> HIDE DEF new
<1>5. /\ sessions' \in [Sessions -> SessionState]
      /\ \A s \in Sessions : Fits(sessions'[s].logits)
      /\ active' \in Sessions \cup {None}
    BY <1>1, <1>3, <1>4 DEF TypeInv, TypeOK, Bounds
<1>6. TypeOK'
    BY <1>1, <1>2, <1>5 DEF Commit, TypeInv, TypeOK
<1>7. Bounds'
    BY <1>1, <1>2, <1>5 DEF Commit, TypeInv, Bounds, Generating
<1>8. QED
    BY <1>6, <1>7 DEF TypeInv

LEMMA TypeAnswer == TypeInv /\ Answer => TypeInv'
<1> SUFFICES ASSUME TypeInv, Answer PROVE TypeInv'
    OBVIOUS
<1>1. Idle
    BY DEF Answer
<1>2. postfills' \subseteq [sid : Sessions, tokens : Contexts]
    BY FullType DEF Answer, TypeInv, TypeOK, Bounds
<1>3. \A p \in postfills' : p.tokens # <<>> /\ Len(p.tokens) <= MaxSeqLen + MaxTokens
    BY FullType DEF Answer, TypeInv, TypeOK, Bounds, Defers
<1>4. TypeOK'
    BY <1>1, <1>2, IdleType DEF Answer, engineVars, TypeInv, TypeOK
<1>5. Bounds'
    BY <1>1, <1>3, IdleType DEF Answer, engineVars, TypeInv, Bounds, Generating
<1>6. QED
    BY <1>4, <1>5 DEF TypeInv

\* Replacing one session's state by another that fits.
LEMMA UpdateSession ==
    ASSUME TypeInv, NEW sid \in Sessions, NEW new \in SessionState, Fits(new.logits),
           sessions' = [sessions EXCEPT ![sid] = new]
    PROVE  /\ sessions' \in [Sessions -> SessionState]
           /\ \A s \in Sessions : Fits(sessions'[s].logits)
BY DEF TypeInv, TypeOK, Bounds

LEMMA TypePrepareSkip ==
    ASSUME TypeInv, NEW p \in postfills, PrepareSkip(p)
    PROVE  TypeInv'
<1>1. p.sid \in Sessions
    BY DEF TypeInv, TypeOK
<1>2. /\ sessions' \in [Sessions -> SessionState]
      /\ \A s \in Sessions : Fits(sessions'[s].logits)
  <2>1. sessions' = sessions \/ sessions' = [sessions EXCEPT ![p.sid].pending = FALSE]
      BY DEF PrepareSkip, ClearPending
  <2>2. CASE sessions' = sessions
      BY <2>2 DEF TypeInv, TypeOK, Bounds
  <2>3. CASE sessions' = [sessions EXCEPT ![p.sid].pending = FALSE]
    <3> DEFINE new == [sessions[p.sid] EXCEPT !.pending = FALSE]
    <3>1. sessions[p.sid] \in SessionState /\ Fits(sessions[p.sid].logits)
        BY <1>1 DEF TypeInv, TypeOK, Bounds
    <3>2. new \in SessionState /\ Fits(new.logits)
        BY <3>1 DEF SessionState
    <3>3. sessions' = [sessions EXCEPT ![p.sid] = new]
        BY <2>3
    <3> HIDE DEF new
    <3>4. QED
        BY <1>1, <3>2, <3>3, UpdateSession
  <2>4. QED
      BY <2>1, <2>2, <2>3
<1>3. TypeOK'
    BY <1>2 DEF PrepareSkip, callVars, TypeInv, TypeOK
<1>4. Bounds'
    BY <1>2 DEF PrepareSkip, callVars, TypeInv, Bounds, Generating
<1>5. QED
    BY <1>3, <1>4 DEF TypeInv

LEMMA TypePrepareBegin ==
    ASSUME TypeInv, NEW p \in postfills, PrepareBegin(p)
    PROVE  TypeInv'
<1>1. /\ p.sid \in Sessions /\ p.tokens \in Contexts
      /\ p.tokens # <<>> /\ Len(p.tokens) <= MaxSeqLen + MaxTokens
    BY DEF TypeInv, TypeOK, Bounds
<1>2. TypeOK'
    BY <1>1 DEF PrepareBegin, engineVars, TypeInv, TypeOK
<1>3. Bounds'
    BY <1>1 DEF PrepareBegin, engineVars, TypeInv, TypeOK, Bounds, Generating, SessionState
<1>4. QED
    BY <1>2, <1>3 DEF TypeInv

LEMMA TypePrepareFeed == TypeInv /\ PrepareFeed => TypeInv'
<1> SUFFICES ASSUME TypeInv, PrepareFeed PROVE TypeInv'
    OBVIOUS
<1> DEFINE n == Len(call.prompt)
           ids == <<call.prompt[n]>>
<1>1. /\ MaxSeqLen \in Nat /\ MaxTokens \in Nat
      /\ call.prompt \in Contexts /\ n \in 1..n
      /\ n <= MaxSeqLen + MaxTokens
      /\ call.sid \in Sessions
      /\ kv \in [Slots -> Contexts]
    BY LengthAssumption, LenProperties, EmptySeq
    DEF TypeInv, TypeOK, Bounds, PrepareFeed, Contexts
<1>2. ids \in Contexts /\ Len(ids) = 1
    BY <1>1, ElementOfSeq DEF Contexts
<1>3. n - 1 \in 0..(MaxSeqLen + MaxTokens) /\ n - 1 + Len(ids) <= MaxSeqLen + MaxTokens
    BY <1>1, <1>2
<1> DEFINE new == [sessions[call.sid] EXCEPT !.logits = ForwardLogits(kv, ids, n - 1),
                                              !.pending = FALSE]
<1>4. /\ Idle
      /\ kv' = ForwardCache(kv, ids, n - 1)
      /\ sessions' = sessions \/ sessions' = [sessions EXCEPT ![call.sid] = new]
      /\ UNCHANGED <<active, postfills>>
    BY DEF PrepareFeed
<1> HIDE DEF ids, n
<1>5. /\ kv' \in [Slots -> Contexts]
      /\ ForwardLogits(kv, ids, n - 1) \in Contexts
      /\ Fits(ForwardLogits(kv, ids, n - 1))
    BY <1>1, <1>2, <1>3, <1>4, ForwardType, ForwardFits
<1>6. /\ sessions' \in [Sessions -> SessionState]
      /\ \A s \in Sessions : Fits(sessions'[s].logits)
  <2>1. sessions[call.sid] \in SessionState
      BY <1>1 DEF TypeInv, TypeOK
  <2>2. new \in SessionState /\ Fits(new.logits)
      BY <1>5, <2>1 DEF SessionState
  <2> HIDE DEF new
  <2>3. CASE sessions' = sessions
      BY <2>3 DEF TypeInv, TypeOK, Bounds
  <2>4. CASE sessions' = [sessions EXCEPT ![call.sid] = new]
      BY <1>1, <2>2, <2>4, UpdateSession
  <2>5. QED
      BY <1>4, <2>3, <2>4
<1>7. TypeOK'
    BY <1>4, <1>5, <1>6, IdleType DEF TypeInv, TypeOK
<1>8. Bounds'
    BY <1>4, <1>6, IdleType DEF TypeInv, Bounds, Generating
<1>9. QED
    BY <1>7, <1>8 DEF TypeInv

LEMMA TypeReset ==
    ASSUME TypeInv, NEW s \in Sessions, Reset(s)
    PROVE  TypeInv'
<1>1. /\ sessions' \in [Sessions -> SessionState]
      /\ \A q \in Sessions : Fits(sessions'[q].logits)
    BY FreshType DEF Reset, TypeInv, TypeOK, Bounds, Fresh, Fits
<1>2. TypeOK'
    BY <1>1 DEF Reset, TypeInv, TypeOK
<1>3. Bounds'
    BY <1>1 DEF Reset, TypeInv, Bounds, Generating
<1>4. QED
    BY <1>2, <1>3 DEF TypeInv

LEMMA TypeFail == TypeInv /\ Fail => TypeInv'
<1> SUFFICES ASSUME TypeInv, Fail PROVE TypeInv'
    OBVIOUS
<1>1. /\ Idle
      /\ UNCHANGED <<sessions, active, postfills>>
      /\ kv' \in [Slots -> Contexts]
    BY EmptySeq DEF Fail, Junk, TypeInv, TypeOK, Contexts
<1>2. TypeOK'
    BY <1>1, IdleType DEF TypeInv, TypeOK
<1>3. Bounds'
    BY <1>1, IdleType DEF TypeInv, Bounds, Generating
<1>4. QED
    BY <1>2, <1>3 DEF TypeInv

LEMMA TypeStep == TypeInv /\ [Next]_vars => TypeInv'
<1> SUFFICES ASSUME TypeInv, [Next]_vars PROVE TypeInv'
    OBVIOUS
<1>1. CASE \E sid \in Sessions, policy \in Policies, prompt \in Prompts,
              limit \in 0..MaxTokens : Begin(sid, policy, prompt, limit)
    BY <1>1, TypeBegin
<1>2. CASE Prefill
    BY <1>2, TypePrefill
<1>3. CASE DecodeStep
    BY <1>3, TypeDecodeStep
<1>4. CASE Commit
    BY <1>4, TypeCommit
<1>5. CASE Answer
    BY <1>5, TypeAnswer
<1>6. CASE \E p \in postfills : PrepareSkip(p) \/ PrepareBegin(p)
    BY <1>6, TypePrepareSkip, TypePrepareBegin
<1>7. CASE PrepareFeed
    BY <1>7, TypePrepareFeed
<1>8. CASE \E s \in Sessions : Reset(s)
    BY <1>8, TypeReset
<1>9. CASE Fail
    BY <1>9, TypeFail
<1>10. CASE UNCHANGED vars
    BY <1>10 DEF vars, engineVars, callVars, TypeInv, TypeOK, Bounds, Generating
<1>11. QED
    BY <1>1, <1>2, <1>3, <1>4, <1>5, <1>6, <1>7, <1>8, <1>9, <1>10 DEF Next

LEMMA TypeInvariant == Spec => []TypeInv
BY TypeInit, TypeStep, PTL DEF Spec

\* In every reachable state the engine's state and the running call have their
\* types, so every forward pass ends inside the cache's slots.
THEOREM TypeCorrect == Spec => []TypeOK
BY TypeInvariant, PTL DEF TypeInv

-----------------------------------------------------------------------------
(* A call that starts on a right cache answers exactly *)

\* What keeps a clean call exact: before the prefill the cache holds the reused
\* prefix, and while the call decodes both the cache and the logits stand for
\* the prompt followed by the answer so far.
CleanInv ==
    /\ phase = "prefill" /\ call.clean =>
          /\ Holds(kv, SubSeq(call.prompt, 1, call.reused))
          /\ call.prompt # <<>> /\ call.reused = Len(call.prompt) =>
                call.held.logits \in {None, call.prompt}
    /\ phase = "decode" /\ call.clean =>
          /\ GreedyAnswer
          /\ Decoding => call.prompt # <<>> /\ logits = Full /\ Holds(kv, Full)
    /\ phase = "answer" /\ call.clean => GreedyAnswer
    /\ Generating /\ call.reused = 0 => call.clean

\* A cache that holds a context holds its prefixes.
LEMMA HoldsPrefix ==
    ASSUME NEW cache, NEW ctx \in Contexts, NEW m \in 0..Len(ctx), Holds(cache, ctx)
    PROVE  Holds(cache, SubSeq(ctx, 1, m))
<1>1. Len(ctx) \in Nat
    BY LenProperties DEF Contexts
<1>2. Len(SubSeq(ctx, 1, m)) = m
    BY PrefixOfPrefix DEF Contexts
<1>3. ASSUME NEW i \in 1..m
      PROVE  cache[i] = SubSeq(SubSeq(ctx, 1, m), 1, i)
  <2>1. cache[i] = SubSeq(ctx, 1, i)
      BY <1>1 DEF Holds
  <2>2. QED
      BY <1>1, <2>1, PrefixOfPrefix DEF Contexts
<1>4. QED
    BY <1>2, <1>3 DEF Holds

LEMMA CleanInit == Init => CleanInv
BY DEF Init, CleanInv, Generating

LEMMA CleanBegin ==
    ASSUME TypeInv, NEW sid \in Sessions, NEW policy \in Policies,
           NEW prompt \in Prompts, NEW limit \in 0..MaxTokens,
           Begin(sid, policy, prompt, limit)
    PROVE  CleanInv'
<1>1. /\ phase' = "prefill" /\ kv' = kv
      /\ call'.clean => /\ Holds(kv, SubSeq(call'.prompt, 1, call'.reused))
                        /\ call'.prompt # <<>> /\ call'.reused = Len(call'.prompt)
                              => call'.held.logits \in {None, call'.prompt}
    BY DEF Begin, Clean
<1>2. call'.reused = 0 => call'.clean
  <2>1. prompt \in Seq(Tokens) /\ Len(prompt) \in Nat
      BY PromptAssumption, LenProperties
  <2>2. Len(SubSeq(prompt, 1, 0)) = 0
      BY <2>1, PrefixOfPrefix
  <2>3. \A s : Clean(s, 0, prompt)
      BY <2>1, <2>2, EmptySeq DEF Clean, Holds
  <2>4. QED
      BY <2>3 DEF Begin
<1>3. QED
    BY <1>1, <1>2 DEF CleanInv, Holds

\* A clean prefill leaves the logits and the cache of exactly the prompt.
LEMMA PrefillExact ==
    ASSUME TypeInv, CleanInv, Prefill, call.clean
    PROVE  /\ call.prompt = <<>> => logits' = None /\ kv' = kv
           /\ call.prompt # <<>> => logits' = call.prompt /\ Holds(kv', call.prompt)
<1> DEFINE n == Len(call.prompt)
<1>1. /\ MaxSeqLen \in Nat /\ MaxTokens \in Nat
      /\ call.prompt \in Contexts /\ n \in Nat
      /\ call.reused \in 0..n
      /\ n <= MaxSeqLen
      /\ kv \in [Slots -> Contexts]
      /\ out = <<>> /\ logits = None
    BY LengthAssumption, LenProperties
    DEF TypeInv, TypeOK, Bounds, Generating, Prefill, Contexts
<1>2. /\ Holds(kv, SubSeq(call.prompt, 1, call.reused))
      /\ call.prompt # <<>> /\ call.reused = n => call.held.logits \in {None, call.prompt}
    BY DEF CleanInv, Prefill
<1>3. CASE call.prompt = <<>>
  <2>1. n = 0
      BY <1>3, EmptySeq
  <2>2. EmptyPrompt
      BY <1>1, <1>3, <2>1
      DEF Prefill, PrefillSuffix, ResumeFromLogits, RefeedLast
  <2>3. QED
      BY <1>1, <1>3, <2>2 DEF EmptyPrompt
<1>4. CASE call.prompt # <<>>
  <2>1. CASE PrefillSuffix
    <3> DEFINE ctx == SubSeq(call.prompt, 1, call.reused)
               ids == SubSeq(call.prompt, call.reused + 1, n)
    <3>1. /\ ctx \in Contexts /\ Len(ctx) = call.reused
          /\ ids \in Contexts /\ Len(ids) = n - call.reused
          /\ ctx \o ids = call.prompt
      <4>1. ctx \in Contexts /\ Len(ctx) = call.reused
          BY <1>1, PrefixOfPrefix DEF Contexts
      <4>2. /\ ids \in Contexts /\ Len(ids) = n - call.reused
            /\ ctx \o ids = call.prompt
          BY <1>1, SplitAt DEF Contexts
      <4>3. QED
          BY <4>1, <4>2
    <3>2. Feed(ids, Len(ctx))
        BY <1>1, <2>1, <3>1 DEF PrefillSuffix
    <3>3. Holds(kv, ctx)
        BY <1>2
    <3>4. Len(ctx) + Len(ids) <= MaxSeqLen + MaxTokens
        BY <1>1, <3>1
    <3> HIDE DEF ctx, ids
    <3>5. QED
        BY <1>1, <1>4, <3>1, <3>2, <3>3, <3>4, ForwardExact DEF Feed
  <2>2. CASE ResumeFromLogits
    <3>1. SubSeq(call.prompt, 1, n) = call.prompt
        BY <1>1, SubSeqFull DEF Contexts
    <3>2. QED
        BY <1>2, <2>2, <3>1 DEF ResumeFromLogits
  <2>3. CASE RefeedLast
    <3> DEFINE ctx == SubSeq(call.prompt, 1, n - 1)
               ids == <<call.prompt[n]>>
    <3>1. n \in 1..n /\ n - 1 \in 0..n
        BY <1>1, <2>3, EmptySeq DEF RefeedLast, Contexts
    <3>2. /\ ctx \in Contexts /\ Len(ctx) = n - 1
          /\ ids \in Contexts /\ Len(ids) = 1
        BY <1>1, <3>1, PrefixOfPrefix, ElementOfSeq DEF Contexts
    <3>3. ctx \o ids = call.prompt
      <4>1. SubSeq(call.prompt, 1, n) = ctx \o ids
          BY <1>1, <3>1, SubSeqRecursiveSecond DEF Contexts
      <4>2. QED
          BY <1>1, <4>1, SubSeqFull DEF Contexts
    <3>4. Holds(kv, ctx)
      <4>1. Holds(kv, call.prompt)
          BY <1>1, <1>2, <2>3, SubSeqFull DEF RefeedLast, Contexts
      <4>2. QED
          BY <1>1, <3>1, <4>1, HoldsPrefix
    <3>5. Feed(ids, Len(ctx))
        BY <2>3, <3>2 DEF RefeedLast
    <3>6. Len(ctx) + Len(ids) <= MaxSeqLen + MaxTokens
        BY <1>1, <3>2
    <3> HIDE DEF ctx, ids
    <3>7. QED
        BY <1>1, <1>4, <3>2, <3>3, <3>4, <3>5, <3>6, ForwardExact DEF Feed
  <2>4. QED
      BY <1>4, <2>1, <2>2, <2>3 DEF Prefill, EmptyPrompt
<1>5. QED
    BY <1>3, <1>4

LEMMA CleanPrefill == TypeInv /\ CleanInv /\ Prefill => CleanInv'
<1> SUFFICES ASSUME TypeInv, CleanInv, Prefill, call.clean PROVE CleanInv'
    BY DEF CleanInv, Prefill, Generating
<1>1. call.prompt \in Contexts /\ out = <<>>
    BY DEF TypeInv, TypeOK, Bounds, Prefill
<1>2. phase' = "decode" /\ call' = call /\ out' = <<>>
    BY <1>1 DEF Prefill
<1>3. Full' = call.prompt
    BY <1>1, <1>2, ConcatEmptySeq DEF Full, Contexts
<1>4. GreedyAnswer'
    BY <1>2, EmptySeq DEF GreedyAnswer
<1>5. QED
    BY <1>2, <1>3, <1>4, PrefillExact DEF CleanInv, Decoding

\* A clean decode step appends the greedy token of the context so far, and
\* feeds it, if at all, right behind that context.
LEMMA DecodeStepExact ==
    ASSUME TypeInv, CleanInv, DecodeStep, call.clean
    PROVE  /\ Full \in Contexts /\ Holds(kv, Full)
           /\ Len(Full) + 1 <= MaxSeqLen + MaxTokens
           /\ Greedy(Full) \in Tokens
           /\ out' = out \o <<Greedy(Full)>>
           /\ Full' = Full \o <<Greedy(Full)>>
           /\ IF Greedy(Full) \notin StopTokens /\ WantsMore
              THEN Feed(<<Greedy(Full)>>, Len(Full))
              ELSE UNCHANGED <<logits, kv>>
<1>1. /\ phase = "decode" /\ phase' = "decode" /\ call' = call
      /\ out \in Contexts /\ Len(out) \in Nat /\ Len(out) < call.limit
      /\ call.prompt \in Contexts /\ call.prompt # <<>>
      /\ logits = Full /\ Holds(kv, Full) /\ GreedyAnswer
      /\ kv \in [Slots -> Contexts]
      /\ call.limit \in 0..MaxTokens /\ MaxTokens \in Nat /\ MaxSeqLen \in Nat
      /\ Len(call.prompt) \in Nat /\ Len(call.prompt) <= MaxSeqLen
    BY LenProperties, LengthAssumption
    DEF CleanInv, TypeInv, TypeOK, Bounds, Generating, DecodeStep, Decoding, Contexts
<1>2. /\ Full \in Contexts /\ Full # Junk
      /\ Len(Full) = Len(call.prompt) + Len(out)
      /\ Len(Full) <= MaxSeqLen + MaxTokens
  <2>1. Full \in Contexts /\ Len(Full) = Len(call.prompt) + Len(out)
        /\ Len(Full) <= MaxSeqLen + MaxTokens
      BY <1>1, FullType
  <2>2. Len(call.prompt) > 0
      BY <1>1, EmptySeq DEF Contexts
  <2>3. QED
      BY <1>1, <2>1, <2>2, EmptySeq DEF Junk, Contexts
<1>3. /\ out' = Append(out, Greedy(Full))
      /\ IF Greedy(Full) \notin StopTokens /\ WantsMore
         THEN Feed(<<Greedy(Full)>>, NextPosition)
         ELSE UNCHANGED <<logits, kv>>
    BY <1>1, <1>2 DEF DecodeStep, NextTokens
<1> DEFINE token == Greedy(Full)
           ids == <<token>>
<1>4. token \in Tokens
    BY <1>2, NextTokensType DEF NextTokens
<1>5. ids \in Contexts /\ Len(ids) = 1 /\ out' = out \o ids
    BY <1>1, <1>3, <1>4, AppendIsConcat DEF Contexts
<1>6. Full' = Full \o ids
  <2>1. Full' = call.prompt \o (out \o ids)
      BY <1>1, <1>5 DEF Full
  <2> HIDE DEF ids
  <2>2. call.prompt \in Seq(Tokens) /\ out \in Seq(Tokens) /\ ids \in Seq(Tokens)
      BY <1>1, <1>5 DEF Contexts
  <2>3. \A s, t, u \in Seq(Tokens) : (s \o t) \o u = s \o (t \o u)
      BY ConcatAssociative
  <2>4. (call.prompt \o out) \o ids = call.prompt \o (out \o ids)
      BY <2>2, <2>3, Zenon
  <2>5. QED
      BY <2>1, <2>4 DEF Full
<1>7. Len(Full) + 1 <= MaxSeqLen + MaxTokens
    BY <1>1, <1>2
<1>8. QED
    BY <1>1, <1>2, <1>3, <1>4, <1>5, <1>6, <1>7 DEF NextPosition

LEMMA CleanDecodeStep == TypeInv /\ CleanInv /\ DecodeStep => CleanInv'
<1> SUFFICES ASSUME TypeInv, CleanInv, DecodeStep, call.clean PROVE CleanInv'
    BY DEF CleanInv, DecodeStep, Generating
<1> DEFINE token == Greedy(Full)
           ids == <<token>>
<1>1. /\ phase = "decode" /\ phase' = "decode" /\ call' = call
      /\ out \in Contexts /\ Len(out) \in Nat
      /\ call.prompt \in Contexts /\ call.prompt # <<>>
      /\ GreedyAnswer
      /\ kv \in [Slots -> Contexts]
    BY LenProperties DEF CleanInv, TypeInv, TypeOK, DecodeStep, Decoding, Contexts
<1>2. ids \in Contexts /\ Len(ids) = 1 /\ token \in Tokens
    BY DecodeStepExact DEF Contexts
<1>3. out' = out \o ids /\ Full' = Full \o ids
    BY DecodeStepExact
<1>4. /\ out' \in Contexts /\ Len(out') = Len(out) + 1
      /\ out'[Len(out')] = token
      /\ \A i \in 1..Len(out) : out'[i] = out[i]
    BY <1>1, <1>2, <1>3, ConcatProperties DEF Contexts
<1>5. GreedyAnswer'
  <2>1. ASSUME NEW i \in 1..Len(out')
        PROVE  out'[i] = Greedy(call.prompt \o SubSeq(out', 1, i - 1))
    <3>1. i - 1 \in 0..Len(out)
        BY <1>1, <1>4
    <3>2. SubSeq(out', 1, i - 1) = SubSeq(out, 1, i - 1)
        BY <1>1, <1>2, <1>3, <3>1, ConcatPrefixes DEF Contexts
    <3>3. CASE i \in 1..Len(out)
      <4>1. out'[i] = out[i]
          BY <1>4, <3>3
      <4>2. QED
          BY <1>1, <3>2, <3>3, <4>1 DEF GreedyAnswer
    <3>4. CASE i = Len(out) + 1
      <4>1. SubSeq(out, 1, i - 1) = out
          BY <1>1, <3>4, SubSeqFull DEF Contexts
      <4>2. QED
          BY <1>4, <3>2, <3>4, <4>1 DEF Full
    <3>5. QED
        BY <1>1, <1>4, <3>3, <3>4
  <2>2. QED
      BY <1>1, <2>1 DEF GreedyAnswer
<1>6. Decoding' => logits' = Full' /\ Holds(kv', Full')
  <2> SUFFICES ASSUME Decoding' PROVE logits' = Full' /\ Holds(kv', Full')
      OBVIOUS
  <2>1. token \notin StopTokens /\ WantsMore
      BY <1>1, <1>4, EmptySeq DEF Decoding, Stopped, WantsMore, Contexts
  <2>2. Feed(ids, Len(Full)) /\ Full \in Contexts /\ Holds(kv, Full)
        /\ Len(Full) + Len(ids) <= MaxSeqLen + MaxTokens
      BY <1>2, <2>1, DecodeStepExact
  <2> HIDE DEF ids, token
  <2>3. QED
      BY <1>1, <1>2, <1>3, <2>2, ForwardExact DEF Feed
<1>7. QED
    BY <1>1, <1>5, <1>6 DEF CleanInv

LEMMA CleanStep == TypeInv /\ CleanInv /\ [Next]_vars => CleanInv'
<1> SUFFICES ASSUME TypeInv, CleanInv, [Next]_vars PROVE CleanInv'
    OBVIOUS
<1>1. CASE \E sid \in Sessions, policy \in Policies, prompt \in Prompts,
              limit \in 0..MaxTokens : Begin(sid, policy, prompt, limit)
    BY <1>1, CleanBegin
<1>2. CASE Prefill
    BY <1>2, CleanPrefill
<1>3. CASE DecodeStep
    BY <1>3, CleanDecodeStep
<1>4. CASE Commit
    BY <1>4 DEF Commit, CleanInv, Generating, GreedyAnswer
<1>5. CASE Answer \/ PrepareFeed \/ Fail
  <2>1. phase' = "idle"
      BY <1>5 DEF Answer, PrepareFeed, Fail, Idle
  <2>2. QED
      BY <2>1 DEF CleanInv, Generating
<1>6. CASE \E p \in postfills : PrepareSkip(p) \/ PrepareBegin(p)
  <2>1. phase' \in {"idle", "prepare"}
      BY <1>6 DEF PrepareSkip, PrepareBegin, callVars
  <2>2. QED
      BY <2>1 DEF CleanInv, Generating
<1>7. CASE \E s \in Sessions : Reset(s)
    BY <1>7 DEF Reset, CleanInv, Generating, GreedyAnswer, Decoding, Stopped, Full, Holds
<1>8. CASE UNCHANGED vars
    BY <1>8 DEF vars, engineVars, callVars,
                CleanInv, Generating, GreedyAnswer, Decoding, Stopped, Full, Holds
<1>9. QED
    BY <1>1, <1>2, <1>3, <1>4, <1>5, <1>6, <1>7, <1>8 DEF Next

LEMMA CleanInvariant == Spec => [](TypeInv /\ CleanInv)
<1>1. Init => TypeInv /\ CleanInv
    BY TypeInit, CleanInit
<1>2. TypeInv /\ CleanInv /\ [Next]_vars => (TypeInv /\ CleanInv)'
    BY TypeStep, CleanStep
<1>3. QED
    BY <1>1, <1>2, PTL DEF Spec

\* A call that finds the cache right for the prefix it reuses generates the
\* greedy continuation of its prompt, for every mix of sessions, policies,
\* postfill modes, resets and failures before and during it.
THEOREM CleanCallsAreExact == Spec => []CleanCallExact
<1>1. CleanInv => CleanCallExact
    BY DEF CleanInv, CleanCallExact
<1>2. QED
    BY <1>1, CleanInvariant, PTL

\* A call that reuses nothing is exact whatever earlier calls left in the
\* cache: stale positions are never read.
THEOREM FreshCallsAreExact == Spec => []FreshCallExact
<1>1. CleanInv => FreshCallExact
    BY DEF CleanInv, FreshCallExact, Generating
<1>2. QED
    BY <1>1, CleanInvariant, PTL

-----------------------------------------------------------------------------
(* The last token *)

\* The cache encodes a context but for its last token.
HoldsButLast(cache, ctx) == Holds(cache, SubSeq(ctx, 1, Len(ctx) - 1))

\* Feeding the last token of a context that is held but for it.
LEMMA LastFed ==
    ASSUME NEW cache \in [Slots -> Contexts], NEW ctx \in Contexts, ctx # <<>>,
           Len(ctx) <= MaxSeqLen + MaxTokens, HoldsButLast(cache, ctx)
    PROVE  /\ ForwardLogits(cache, <<ctx[Len(ctx)]>>, Len(ctx) - 1) = ctx
           /\ Holds(ForwardCache(cache, <<ctx[Len(ctx)]>>, Len(ctx) - 1), ctx)
<1> DEFINE n == Len(ctx)
           head == SubSeq(ctx, 1, n - 1)
           ids == <<ctx[n]>>
<1>1. n \in 1..n /\ n - 1 \in 0..n /\ n \in Nat
    BY LenProperties, EmptySeq DEF Contexts
<1>2. ids \in Contexts /\ Len(ids) = 1
    BY <1>1, ElementOfSeq DEF Contexts
<1>3. head \in Contexts /\ Len(head) = n - 1 /\ Holds(cache, head)
  <2>1. ctx \in Seq(Tokens) /\ n = Len(ctx)
      BY DEF Contexts
  <2>2. head \in Seq(Tokens) /\ Len(head) = n - 1
    <3>1. n - 1 \in 0..(n - 1)
        BY <1>1
    <3>2. QED
        BY <1>1, <2>1, <3>1, PrefixOfPrefix
  <2>3. QED
      BY <2>2 DEF HoldsButLast, Contexts
<1>4. head \o ids = ctx
    BY LastOff DEF Contexts
<1> HIDE DEF head, ids
<1>5. Len(head) + Len(ids) <= MaxSeqLen + MaxTokens
    BY <1>1, <1>2, <1>3
<1>6. /\ ForwardLogits(cache, ids, Len(head)) = head \o ids
      /\ Holds(ForwardCache(cache, ids, Len(head)), head \o ids)
    BY <1>2, <1>3, <1>5, ForwardExact
<1>7. QED
    BY <1>3, <1>4, <1>6 DEF ids

\* What is held is held but for its last token.
LEMMA HeldButLast ==
    ASSUME NEW cache, NEW ctx \in Contexts, ctx # <<>>, Holds(cache, ctx)
    PROVE  HoldsButLast(cache, ctx)
<1>1. Len(ctx) - 1 \in 0..Len(ctx)
    BY LenProperties, EmptySeq DEF Contexts
<1>2. QED
    BY <1>1, HoldsPrefix DEF HoldsButLast

-----------------------------------------------------------------------------
(* One session *)

\* The configurations in which nothing but resets and failures disturbs the cache:
\* one session id, no stop token, no stateless calls, and a postfill that is done
\* before the next call: inline, or deferred with clients that wait for it.
Undisturbed ==
    /\ \A s, t \in Sessions : s = t
    /\ PostfillMode = "inline" \/ (PostfillMode = "deferred" /\ PatientClient)
    /\ StopTokens = {}
    /\ "none" \notin Policies

\* A valid session with nothing pending is what the cache holds, with its next logits.
SessionHeld ==
    \A s \in Sessions : sessions[s].valid /\ ~sessions[s].pending =>
        LET tokens == sessions[s].tokens IN
        /\ Holds(kv, tokens)
        /\ Len(tokens) <= MaxSeqLen + MaxTokens
        /\ sessions[s].logits = IF tokens = <<>> THEN None ELSE tokens

\* A session with a pending postfill owns the slot, which lacks its last token, and
\* no call goes on that reads it.
PendingHeld ==
    \A s \in Sessions : sessions[s].pending =>
        LET tokens == sessions[s].tokens IN
        /\ sessions[s].valid /\ active = s /\ sessions[s].logits = None
        /\ HoldsButLast(kv, tokens)
        /\ tokens # <<>> /\ Len(tokens) <= MaxSeqLen + MaxTokens
        /\ PatientClient /\ phase \in {"idle", "answer", "prepare"}

\* Where the running call stands: the session it may fail back to lies below
\* the positions it writes, and the cache is one token behind the answer.
CallAhead ==
    /\ Generating => call.clean /\ call.policy # "none"
    /\ phase \in {"prefill", "decode"} =>
          \A s \in Sessions : sessions[s].valid => Len(sessions[s].tokens) = call.reused
    /\ phase = "prefill" /\ call.prompt # <<>> /\ call.reused = Len(call.prompt) =>
          call.held.logits # None
    /\ phase = "decode" /\ out = <<>> =>
          /\ Holds(kv, call.prompt)
          /\ logits = IF call.prompt = <<>> THEN None ELSE call.prompt
    /\ phase = "decode" /\ out # <<>> => HoldsButLast(kv, Full)
    /\ phase = "prepare" /\ ~detached =>
          \A s \in Sessions : sessions[s].pending /\ sessions[s].tokens = call.prompt
    /\ detached => \A s \in Sessions : ~sessions[s].valid

SoleInv ==
    /\ SessionHeld /\ PendingHeld
    /\ CallAhead
    /\ \A s \in Sessions : ~sessions[s].valid => sessions[s] = Fresh

\* A pass at or above the end of a context leaves the context held.
LEMMA ForwardKeeps ==
    ASSUME NEW cache \in [Slots -> Contexts], NEW ctx \in Contexts, NEW ids \in Contexts,
           NEW start \in Nat, Len(ctx) <= start, Len(ctx) <= MaxSeqLen + MaxTokens,
           Holds(cache, ctx)
    PROVE  Holds(ForwardCache(cache, ids, start), ctx)
<1>1. /\ Len(ctx) \in Nat /\ Len(ids) \in Nat
      /\ MaxSeqLen + MaxTokens \in Nat
    BY LengthAssumption, LenProperties DEF Contexts
<1>2. ASSUME NEW i \in 1..Len(ctx)
      PROVE  ForwardCache(cache, ids, start)[i] = cache[i]
    BY <1>1 DEF ForwardCache, Slots
<1>3. QED
    BY <1>2 DEF Holds

\* A session that is not in the table keeps nothing, and waits for nothing.
LEMMA FreshIsHeld ==
    ASSUME \A s \in Sessions : sessions'[s] = Fresh
    PROVE  (SessionHeld /\ PendingHeld /\ \A s \in Sessions : ~sessions[s].valid)'
BY DEF SessionHeld, PendingHeld, Fresh

LEMMA SoleInit == Undisturbed /\ Init => SoleInv
BY DEF Init, SoleInv, SessionHeld, PendingHeld, CallAhead, Fresh, Generating

LEMMA SoleBegin ==
    ASSUME Undisturbed, TypeInv, SoleInv, CleanInv', NEW sid \in Sessions,
           NEW policy \in Policies, NEW prompt \in Prompts, NEW limit \in 0..MaxTokens,
           Begin(sid, policy, prompt, limit)
    PROVE  SoleInv'
<1> DEFINE session == SelectSession(sid, policy, prompt)
           reused == ReusedPrefixLen(session, policy, prompt)
<1>1. /\ policy \in {"reuse", "reset"}
      /\ prompt \in Contexts /\ Len(prompt) \in Nat
      /\ MaxSeqLen + MaxTokens \in Nat
    BY PolicyAssumption, PromptAssumption, LengthAssumption, LenProperties
    DEF Undisturbed, Contexts
<1>2. /\ sessions' = [sessions EXCEPT ![sid] = session]
      /\ call'.prompt = prompt /\ call'.reused = reused /\ call'.policy = policy
      /\ call'.held = session /\ call'.clean = Clean(session, reused, prompt)
      /\ phase' = "prefill" /\ kv' = kv /\ ~detached'
    BY <1>1 DEF Begin
<1>3. /\ sessions \in [Sessions -> SessionState]
      /\ sessions[sid].tokens \in Contexts /\ Len(sessions[sid].tokens) \in Nat
      /\ ~sessions[sid].pending
    BY LenProperties
    DEF Begin, SoleInv, PendingHeld, TypeInv, TypeOK, SessionState, Contexts
<1>4. \/ session = Fresh /\ reused = 0
      \/ /\ session = sessions[sid] /\ session.valid
         /\ Extends(prompt, session.tokens) /\ reused = Len(session.tokens)
    BY <1>1, <1>3 DEF SoleInv, SelectSession, ReusedPrefixLen, ReusesPrefix, Fresh
<1> HIDE DEF session, reused
<1>5. \A s \in Sessions : s = sid /\ sessions'[s] = session
    BY <1>2, <1>3 DEF Undisturbed
<1>6. SessionHeld' /\ PendingHeld'
    BY <1>2, <1>3, <1>4, <1>5 DEF SessionHeld, PendingHeld, SoleInv, Fresh, Holds
<1>7. CallAhead'
  <2>1. CASE session = Fresh /\ reused = 0
    <3>1. call'.clean
        BY <1>2, <2>1 DEF CleanInv, Generating
    <3>2. prompt # <<>> => Len(prompt) # 0
        BY <1>1, EmptySeq DEF Contexts
    <3>3. QED
        BY <1>1, <1>2, <1>5, <2>1, <3>1, <3>2 DEF CallAhead, Generating, Fresh
  <2>2. CASE /\ session = sessions[sid] /\ session.valid
             /\ Extends(prompt, session.tokens) /\ reused = Len(session.tokens)
    <3>1. SubSeq(prompt, 1, reused) = session.tokens
        BY <2>2 DEF Extends
    <3>2. /\ Holds(kv, session.tokens)
          /\ session.logits = IF session.tokens = <<>> THEN None ELSE session.tokens
        BY <1>3, <2>2 DEF SoleInv, SessionHeld
    <3>3. reused = Len(prompt) => session.tokens = prompt
        BY <1>1, <3>1, SubSeqFull DEF Contexts
    <3>4. call'.clean
        BY <1>2, <3>1, <3>2, <3>3 DEF Clean
    <3>5. prompt # None
        BY <1>1, LogitsAssumption DEF Contexts
    <3>6. QED
        BY <1>1, <1>2, <1>5, <2>2, <3>2, <3>3, <3>4, <3>5 DEF CallAhead, Generating
  <2>3. QED
      BY <1>4, <2>1, <2>2
<1>8. QED
    BY <1>2, <1>4, <1>5, <1>6, <1>7 DEF SoleInv

\* A pass that starts at or above the reused prefix leaves the table's sessions
\* held while the call runs.
LEMMA FeedKeepsSessions ==
    ASSUME TypeInv, SoleInv, phase \in {"prefill", "decode"}, NEW ids \in Contexts,
           NEW start \in Nat, call.reused <= start, sessions' = sessions,
           kv' = kv \/ kv' = ForwardCache(kv, ids, start)
    PROVE  SessionHeld' /\ PendingHeld'
<1>1. ASSUME NEW s \in Sessions, sessions[s].valid
      PROVE  Holds(kv', sessions[s].tokens)
  <2>1. /\ sessions[s].tokens \in Contexts
        /\ Len(sessions[s].tokens) = call.reused
        /\ Len(sessions[s].tokens) <= MaxSeqLen + MaxTokens
        /\ Holds(kv, sessions[s].tokens)
      BY <1>1 DEF TypeInv, TypeOK, SessionState, SoleInv, CallAhead, SessionHeld, PendingHeld
  <2>2. kv \in [Slots -> Contexts]
      BY DEF TypeInv, TypeOK
  <2>3. CASE kv' = kv
      BY <2>1, <2>3
  <2>4. CASE kv' = ForwardCache(kv, ids, start)
      BY <2>1, <2>2, <2>4, ForwardKeeps
  <2>5. QED
      BY <2>3, <2>4
<1>2. \A s \in Sessions : ~sessions[s].pending
    BY DEF SoleInv, PendingHeld
<1>3. QED
    BY <1>1, <1>2 DEF SoleInv, SessionHeld, PendingHeld, Holds

LEMMA SolePrefill ==
    ASSUME TypeInv, CleanInv, SoleInv, Prefill
    PROVE  SoleInv'
<1> DEFINE n == Len(call.prompt)
           ids == SubSeq(call.prompt, call.reused + 1, n)
<1>1. /\ phase = "prefill" /\ phase' = "decode" /\ call' = call /\ call.clean
      /\ sessions' = sessions /\ detached' = detached /\ out' = <<>>
      /\ call.prompt \in Contexts /\ n \in Nat
      /\ call.reused \in 0..n
    BY LenProperties
    DEF Prefill, SoleInv, CallAhead, Generating, TypeInv, TypeOK, Bounds, Contexts
<1>2. ids \in Contexts
    BY <1>1, SplitAt DEF Contexts
<1>3. kv' = kv \/ kv' = ForwardCache(kv, ids, call.reused)
    BY <1>1 DEF Prefill, PrefillSuffix, ResumeFromLogits, RefeedLast, EmptyPrompt, Feed,
                SoleInv, CallAhead
<1> HIDE DEF ids
<1>4. SessionHeld' /\ PendingHeld'
    BY <1>1, <1>2, <1>3, FeedKeepsSessions
<1>5. /\ call.prompt = <<>> => logits' = None /\ kv' = kv
      /\ call.prompt # <<>> => logits' = call.prompt /\ Holds(kv', call.prompt)
    BY <1>1, PrefillExact
<1>6. Holds(kv', call.prompt)
    BY <1>5, EmptySeq DEF Holds
<1>7. CallAhead'
    BY <1>1, <1>5, <1>6 DEF CallAhead, Generating, SoleInv
<1>8. QED
    BY <1>1, <1>4, <1>7 DEF SoleInv

LEMMA SoleDecodeStep ==
    ASSUME TypeInv, CleanInv, SoleInv, DecodeStep
    PROVE  SoleInv'
<1> DEFINE ids == <<Greedy(Full)>>
<1>1. /\ phase = "decode" /\ phase' = "decode" /\ call' = call /\ call.clean
      /\ sessions' = sessions /\ detached' = detached
      /\ out \in Contexts
      /\ call.reused \in Nat
      /\ call.reused <= Len(Full) /\ Len(Full) \in Nat
    BY FullType, LenProperties
    DEF DecodeStep, SoleInv, CallAhead, Generating, TypeInv, TypeOK, Bounds, Contexts
<1>2. /\ Full \in Contexts /\ Holds(kv, Full)
      /\ Len(Full) + 1 <= MaxSeqLen + MaxTokens
      /\ ids \in Contexts /\ Len(ids) = 1
      /\ out' = out \o ids /\ Full' = Full \o ids
      /\ kv' = kv \/ kv' = ForwardCache(kv, ids, Len(Full))
  <2>1. /\ Full \in Contexts /\ Holds(kv, Full)
        /\ Len(Full) + 1 <= MaxSeqLen + MaxTokens
        /\ Greedy(Full) \in Tokens
        /\ out' = out \o ids /\ Full' = Full \o ids
        /\ Feed(ids, Len(Full)) \/ kv' = kv
      BY <1>1, DecodeStepExact
  <2>2. ids \in Contexts /\ Len(ids) = 1
      BY <2>1 DEF Contexts
  <2>3. QED
      BY <2>1, <2>2 DEF Feed
<1> HIDE DEF ids
<1>3. SessionHeld' /\ PendingHeld'
    BY <1>1, <1>2, FeedKeepsSessions
<1>4. out' # <<>>
  <2>1. \A s, t \in Contexts : s \o t = <<>> => t = <<>>
      BY ConcatEqualIffEmpty DEF Contexts
  <2>2. ids # <<>>
      BY DEF ids
  <2>3. QED
      BY <1>1, <1>2, <2>1, <2>2, Zenon
<1>5. Holds(kv', Full)
  <2>1. kv \in [Slots -> Contexts] /\ Len(Full) <= MaxSeqLen + MaxTokens
      BY <1>1, <1>2, LengthAssumption DEF TypeInv, TypeOK
  <2>2. QED
      BY <1>1, <1>2, <2>1, ForwardKeeps
<1>6. SubSeq(Full', 1, Len(Full') - 1) = Full
  <2>1. Len(Full \o ids) = Len(Full) + 1
      BY <1>1, <1>2, ConcatProperties DEF Contexts
  <2>2. SubSeq(Full \o ids, 1, Len(Full)) = SubSeq(Full, 1, Len(Full))
      BY <1>1, <1>2, ConcatPrefixes DEF Contexts
  <2>3. QED
      BY <1>1, <1>2, <2>1, <2>2, SubSeqFull DEF Contexts
<1>7. HoldsButLast(kv', Full')
    BY <1>5, <1>6 DEF HoldsButLast
<1>8. CallAhead'
    BY <1>1, <1>4, <1>7 DEF CallAhead, Generating, SoleInv
<1>9. QED
    BY <1>1, <1>3, <1>8 DEF SoleInv

\* Without a postfill to come, a commit leaves the logits and the cache of the whole
\* conversation; before a deferred one, the cache lacks the last token.
LEMMA CommitExact ==
    ASSUME Undisturbed, TypeInv, SoleInv, Commit
    PROVE  /\ Defers => /\ Full # <<>> /\ HoldsButLast(kv', Full)
                        /\ ~NextLogitsValid /\ PatientClient
           /\ ~Defers => /\ logits' = IF Full = <<>> THEN None ELSE Full
                         /\ Holds(kv', Full)
                         /\ NextLogitsValid
<1>1. /\ phase = "decode" /\ call.policy # "none"
      /\ out \in Contexts /\ call.prompt \in Contexts
      /\ Len(call.prompt) \in Nat /\ Len(out) \in Nat
      /\ kv \in [Slots -> Contexts]
    BY LenProperties
    DEF Commit, SoleInv, CallAhead, Generating, TypeInv, TypeOK, Contexts
<1>2. /\ FeedsInline <=> PostfillMode = "inline" /\ out # <<>>
      /\ Defers <=> PostfillMode = "deferred" /\ out # <<>>
    BY <1>1 DEF Undisturbed, FeedsInline, Defers, Stopped
<1>3. /\ Full \in Contexts /\ Len(Full) = Len(call.prompt) + Len(out)
      /\ Len(Full) <= MaxSeqLen + MaxTokens
      /\ out # <<>> => Full # <<>> /\ Len(out) >= 1
    BY <1>1, FullType
<1>4. CASE out = <<>>
  <2>1. Full = call.prompt
      BY <1>1, <1>4, ConcatEmptySeq DEF Full, Contexts
  <2>2. kv' = kv /\ logits' = logits
      BY <1>2, <1>4 DEF Commit
  <2>3. QED
      BY <1>1, <1>2, <1>4, <2>1, <2>2 DEF SoleInv, CallAhead, NextLogitsValid
<1>5. CASE out # <<>> /\ PostfillMode = "inline"
  <2>1. HoldsButLast(kv, Full)
      BY <1>1, <1>5 DEF SoleInv, CallAhead
  <2>2. Full[Len(Full)] = out[Len(out)]
      BY <1>1, <1>3, <1>5, ConcatProperties DEF Full, Contexts
  <2>3. Feed(<<Full[Len(Full)]>>, Len(Full) - 1)
      BY <1>2, <1>5, <2>2 DEF Commit, LastPosition
  <2>4. logits' = Full /\ Holds(kv', Full)
      BY <1>1, <1>3, <1>5, <2>1, <2>3, LastFed DEF Feed
  <2>5. QED
      BY <1>2, <1>3, <1>5, <2>4 DEF NextLogitsValid
<1>6. CASE out # <<>> /\ PostfillMode = "deferred" /\ PatientClient
  <2>1. kv' = kv
      BY <1>2, <1>6 DEF Commit
  <2>2. HoldsButLast(kv, Full)
      BY <1>1, <1>6 DEF SoleInv, CallAhead
  <2>3. QED
      BY <1>2, <1>3, <1>6, <2>1, <2>2 DEF NextLogitsValid
<1>7. QED
    BY <1>4, <1>5, <1>6 DEF Undisturbed

LEMMA SoleCommit ==
    ASSUME Undisturbed, TypeInv, SoleInv, Commit
    PROVE  SoleInv'
<1>1. /\ phase = "decode" /\ phase' = "answer" /\ call' = call /\ detached' = detached
      /\ call.clean /\ call.policy # "none" /\ call.sid \in Sessions
      /\ active' = call.sid
    BY DEF Commit, SoleInv, CallAhead, Generating, TypeInv, Bounds, NewOwner
<1>2. CASE detached
  <2>1. sessions' = sessions
      BY <1>1, <1>2 DEF Commit
  <2>2. \A s \in Sessions : sessions'[s] = Fresh /\ ~sessions'[s].valid
      BY <1>2, <2>1 DEF SoleInv, CallAhead
  <2>3. CallAhead'
      BY <1>1, <2>2 DEF CallAhead, Generating
  <2>4. QED
      BY <2>2, <2>3, FreshIsHeld DEF SoleInv
<1>3. CASE ~detached
  <2> DEFINE new == [tokens |-> Full, valid |-> TRUE,
                     logits |-> IF NextLogitsValid THEN logits' ELSE None, pending |-> Defers]
  <2>1. sessions' = [sessions EXCEPT ![call.sid] = new]
      BY <1>1, <1>3 DEF Commit
  <2>2. \A s \in Sessions : s = call.sid /\ sessions'[s] = new
      BY <1>1, <2>1 DEF Undisturbed, TypeInv, TypeOK
  <2>3. Len(Full) <= MaxSeqLen + MaxTokens
      BY <1>1, FullType
  <2>4. SessionHeld'
    <3>1. CASE Defers
        BY <2>2, <3>1 DEF SessionHeld
    <3>2. CASE ~Defers
        BY <2>2, <2>3, <3>2, CommitExact DEF SessionHeld, Holds
    <3>3. QED
        BY <3>1, <3>2
  <2>5. PendingHeld'
    <3>1. CASE Defers
      <4>1. /\ Full # <<>> /\ HoldsButLast(kv', Full)
            /\ ~NextLogitsValid /\ PatientClient
          BY <3>1, CommitExact
      <4>2. QED
          BY <1>1, <2>2, <2>3, <4>1 DEF PendingHeld, HoldsButLast, Holds
    <3>2. CASE ~Defers
        BY <2>2, <3>2 DEF PendingHeld
    <3>3. QED
        BY <3>1, <3>2
  <2>6. CallAhead'
      BY <1>1, <1>3 DEF CallAhead, Generating
  <2>7. QED
      BY <2>2, <2>4, <2>5, <2>6 DEF SoleInv
<1>4. QED
    BY <1>2, <1>3

LEMMA SoleAnswer ==
    ASSUME SoleInv, Answer
    PROVE  SoleInv'
<1>1. /\ phase' = "idle" /\ ~detached'
      /\ sessions' = sessions /\ kv' = kv /\ active' = active
    BY DEF Answer, Idle, engineVars
<1>2. QED
    BY <1>1 DEF SoleInv, SessionHeld, PendingHeld, CallAhead, Generating, Holds, HoldsButLast

\* A task that is skipped finds nothing pending: it changes nothing.
LEMMA SoleSkip ==
    ASSUME TypeInv, SoleInv, NEW p \in postfills, PrepareSkip(p)
    PROVE  SoleInv'
<1>1. /\ phase = "idle" /\ p.sid \in Sessions /\ sessions \in [Sessions -> SessionState]
      /\ UNCHANGED <<active, kv, callVars>>
    BY DEF PrepareSkip, TypeInv, TypeOK
<1>2. CASE ~sessions[p.sid].pending
  <2>1. sessions[p.sid] \in SessionState
      BY <1>1
  <2>2. [sessions[p.sid] EXCEPT !.pending = FALSE] = sessions[p.sid]
      BY <1>2, <2>1 DEF SessionState
  <2>3. ClearPending(p.sid) = sessions
      BY <1>1, <2>2 DEF ClearPending
  <2>4. sessions' = sessions
      BY <2>3 DEF PrepareSkip
  <2>5. QED
      BY <1>1, <2>4 DEF callVars, SoleInv, SessionHeld, PendingHeld, CallAhead, Generating,
                        Holds, HoldsButLast
<1>3. CASE sessions[p.sid].pending
  <2>1. active = p.sid /\ sessions[p.sid].logits = None
      BY <1>1, <1>3 DEF SoleInv, PendingHeld
  <2>2. sessions' = sessions
      BY <2>1 DEF PrepareSkip, OwnsSlot
  <2>3. QED
      BY <1>1, <2>2 DEF callVars, SoleInv, SessionHeld, PendingHeld, CallAhead, Generating,
                        Holds, HoldsButLast
<1>4. QED
    BY <1>2, <1>3

LEMMA SolePrepareBegin ==
    ASSUME Undisturbed, TypeInv, SoleInv, NEW p \in postfills, PrepareBegin(p)
    PROVE  SoleInv'
<1>1. /\ phase = "idle" /\ phase' = "prepare" /\ p.sid \in Sessions
      /\ sessions[p.sid].tokens = p.tokens /\ sessions[p.sid].logits = None
      /\ p.tokens # <<>> /\ p.tokens \in Contexts
      /\ UNCHANGED <<sessions, active, kv, detached>>
      /\ call' = [call EXCEPT !.sid = p.sid, !.prompt = p.tokens]
    BY DEF PrepareBegin, engineVars, TypeInv, TypeOK, Bounds
<1>2. call'.prompt = p.tokens
    BY <1>1 DEF TypeInv, TypeOK
<1>3. sessions[p.sid].valid
    BY <1>1 DEF SoleInv, Fresh
<1>4. sessions[p.sid].pending
    BY <1>1, <1>3, LogitsAssumption DEF SoleInv, SessionHeld, Contexts
<1>5. CallAhead'
    BY <1>1, <1>2, <1>4 DEF Undisturbed, SoleInv, CallAhead, Generating
<1>6. QED
    BY <1>1, <1>5 DEF SoleInv, SessionHeld, PendingHeld, Holds, HoldsButLast

LEMMA SolePrepareFeed ==
    ASSUME Undisturbed, TypeInv, SoleInv, PrepareFeed
    PROVE  SoleInv'
<1> DEFINE l == ForwardLogits(kv, <<call.prompt[Len(call.prompt)]>>, Len(call.prompt) - 1)
           new == [sessions[call.sid] EXCEPT !.logits = l, !.pending = FALSE]
<1>1. /\ phase = "prepare" /\ phase' = "idle" /\ ~detached'
      /\ kv' = ForwardCache(kv, <<call.prompt[Len(call.prompt)]>>, Len(call.prompt) - 1)
      /\ call.sid \in Sessions /\ sessions \in [Sessions -> SessionState]
      /\ call.prompt \in Contexts /\ call.prompt # <<>>
      /\ Len(call.prompt) <= MaxSeqLen + MaxTokens /\ kv \in [Slots -> Contexts]
    BY DEF PrepareFeed, Idle, TypeInv, TypeOK, Bounds
<1>2. CallAhead'
    BY <1>1 DEF CallAhead, Generating
<1>3. CASE detached
  <2>1. \A s \in Sessions : sessions'[s] = Fresh
      BY <1>3 DEF PrepareFeed, SoleInv, CallAhead
  <2>2. QED
      BY <1>2, <2>1, FreshIsHeld DEF SoleInv
<1>4. CASE ~detached
  <2>1. /\ sessions[call.sid].tokens = call.prompt /\ sessions[call.sid].valid
        /\ HoldsButLast(kv, call.prompt)
      BY <1>1, <1>4 DEF SoleInv, CallAhead, PendingHeld
  <2>2. l = call.prompt /\ Holds(kv', call.prompt)
      BY <1>1, <2>1, LastFed
  <2>3. sessions' = [sessions EXCEPT ![call.sid] = new]
      BY <1>4 DEF PrepareFeed
  <2>4. new.tokens = call.prompt /\ new.valid /\ new.logits = call.prompt /\ ~new.pending
    <3>1. sessions[call.sid] \in SessionState
        BY <1>1
    <3> HIDE DEF l
    <3>2. QED
        BY <2>1, <2>2, <3>1 DEF SessionState
  <2> HIDE DEF new, l
  <2>5. \A s \in Sessions : sessions'[s] = new
      BY <1>1, <2>3 DEF Undisturbed
  <2>6. SessionHeld' /\ PendingHeld'
      BY <1>1, <2>2, <2>4, <2>5 DEF SessionHeld, PendingHeld, Holds
  <2>7. QED
      BY <1>2, <2>4, <2>5, <2>6 DEF SoleInv
<1>5. QED
    BY <1>3, <1>4

LEMMA SoleReset ==
    ASSUME Undisturbed, TypeInv, SoleInv, NEW s \in Sessions, Reset(s)
    PROVE  SoleInv'
<1>1. /\ \A q \in Sessions : s = q /\ sessions'[q] = Fresh
      /\ detached' = (detached \/ (phase # "idle" /\ call.sid = s))
      /\ UNCHANGED <<kv, phase, call, out, logits>>
    BY DEF Undisturbed, Reset, TypeInv, TypeOK
<1>2. /\ SessionHeld' /\ PendingHeld'
      /\ \A q \in Sessions : ~sessions'[q].valid
    BY <1>1, FreshIsHeld
<1>3. phase = "prepare" => detached'
    BY <1>1 DEF TypeInv, Bounds
<1>4. CallAhead'
    BY <1>1, <1>2, <1>3 DEF SoleInv, CallAhead, Generating, Full, Holds, HoldsButLast
<1>5. QED
    BY <1>1, <1>2, <1>4 DEF SoleInv

\* A failing call tears only positions above every committed session, but for the
\* last position of a session whose postfill fails, which has yet to be written.
LEMMA SoleFail ==
    ASSUME Undisturbed, TypeInv, SoleInv, Fail
    PROVE  SoleInv'
<1> DEFINE length(s) == Len(sessions[s].tokens)
           held(s) == IF sessions[s].pending THEN length(s) - 1 ELSE length(s)
<1>1. /\ phase' = "idle" /\ ~detached' /\ sessions' = sessions /\ active' = active
      /\ phase \in {"prefill", "decode", "answer", "prepare"}
      /\ kv \in [Slots -> Contexts]
    BY DEF Fail, Idle, TypeInv, TypeOK
<1>2. PICK torn \in {{}, Writing} :
        kv' = [i \in DOMAIN kv |-> IF i \in torn THEN Junk ELSE kv[i]]
    BY DEF Fail
<1>3. ASSUME NEW s \in Sessions, sessions[s].valid, NEW i \in 1..held(s)
      PROVE  kv'[i] = kv[i]
  <2>1. /\ length(s) \in Nat /\ length(s) <= MaxSeqLen + MaxTokens
        /\ i \in Nat /\ i >= 1 /\ i <= length(s)
        /\ sessions[s].pending => i < length(s)
    <3>1. length(s) \in Nat
        BY LenProperties DEF TypeInv, TypeOK, SessionState, Contexts
    <3>2. length(s) <= MaxSeqLen + MaxTokens
        BY <1>3 DEF SoleInv, SessionHeld, PendingHeld
    <3>3. QED
        BY <1>3, <3>1, <3>2
  <2>2. i \notin Writing
    <3>1. CASE phase = "answer"
        BY <3>1 DEF Writing
    <3>2. CASE phase = "prepare"
      <4>1. ~detached
          BY <1>3 DEF SoleInv, CallAhead
      <4>2. sessions[s].pending /\ sessions[s].tokens = call.prompt
          BY <3>2, <4>1 DEF SoleInv, CallAhead
      <4>3. QED
          BY <2>1, <3>2, <4>2 DEF Writing
    <3>3. CASE phase \in {"prefill", "decode"}
      <4>1. /\ i <= call.reused /\ call.reused \in Nat
            /\ call.reused <= Len(call.prompt)
            /\ Len(call.prompt) \in Nat /\ Len(out) \in Nat
            /\ out # <<>> => Len(out) >= 1
          BY <1>3, <2>1, <3>3, LenProperties, EmptySeq
          DEF SoleInv, CallAhead, TypeInv, TypeOK, Bounds, Generating, Contexts
      <4>2. CASE phase = "prefill"
        <5>1. call.reused = Len(call.prompt) /\ call.prompt # <<>>
                => call.held.logits # None
            BY <4>2 DEF SoleInv, CallAhead
        <5>2. call.prompt = <<>> => Len(call.prompt) = 0
            BY EmptySeq
        <5>3. QED
            BY <2>1, <4>1, <4>2, <5>1, <5>2 DEF Writing
      <4>3. CASE phase = "decode"
          BY <2>1, <4>1, <4>3 DEF Writing, FeedsInline
      <4>4. QED
          BY <3>3, <4>2, <4>3
    <3>4. QED
        BY <1>1, <3>1, <3>2, <3>3
  <2>3. i \in DOMAIN kv /\ i \notin torn
      BY <1>1, <1>2, <2>1, <2>2, LengthAssumption DEF Slots
  <2>4. QED
      BY <1>2, <2>3
<1>4. SessionHeld'
    BY <1>1, <1>3 DEF SoleInv, SessionHeld, Holds
<1>5. PendingHeld'
  <2> SUFFICES ASSUME NEW s \in Sessions, sessions[s].pending
               PROVE  HoldsButLast(kv', sessions[s].tokens)
      BY <1>1 DEF SoleInv, PendingHeld, HoldsButLast, Holds
  <2> DEFINE head == SubSeq(sessions[s].tokens, 1, length(s) - 1)
  <2>1. /\ sessions[s].valid /\ sessions[s].tokens \in Contexts /\ sessions[s].tokens # <<>>
        /\ HoldsButLast(kv, sessions[s].tokens)
      BY DEF SoleInv, PendingHeld, TypeInv, TypeOK, SessionState
  <2>2. length(s) \in Nat /\ length(s) - 1 \in 0..length(s)
      BY <2>1, LenProperties, EmptySeq DEF Contexts
  <2>3. Len(head) = held(s)
      BY <2>1, <2>2, PrefixOfPrefix DEF Contexts
  <2>4. Holds(kv, head)
      BY <2>1 DEF HoldsButLast
  <2> HIDE DEF head, held, length
  <2>5. Holds(kv', head)
      BY <1>3, <2>1, <2>3, <2>4 DEF Holds
  <2>6. QED
      BY <2>5 DEF HoldsButLast, head, length
<1>6. QED
    BY <1>1, <1>4, <1>5 DEF SoleInv, CallAhead, Generating

LEMMA SoleStep ==
    ASSUME Undisturbed, TypeInv, CleanInv, CleanInv', SoleInv, [Next]_vars
    PROVE  SoleInv'
<1>1. CASE \E sid \in Sessions, policy \in Policies, prompt \in Prompts,
              limit \in 0..MaxTokens : Begin(sid, policy, prompt, limit)
    BY <1>1, SoleBegin
<1>2. CASE Prefill
    BY <1>2, SolePrefill
<1>3. CASE DecodeStep
    BY <1>3, SoleDecodeStep
<1>4. CASE Commit
    BY <1>4, SoleCommit
<1>5. CASE Answer
    BY <1>5, SoleAnswer
<1>6. CASE \E p \in postfills : PrepareSkip(p) \/ PrepareBegin(p)
    BY <1>6, SoleSkip, SolePrepareBegin
<1>7. CASE PrepareFeed
    BY <1>7, SolePrepareFeed
<1>8. CASE \E s \in Sessions : Reset(s)
    BY <1>8, SoleReset
<1>9. CASE Fail
    BY <1>9, SoleFail
<1>10. CASE UNCHANGED vars
    BY <1>10 DEF vars, engineVars, callVars, SoleInv, SessionHeld, PendingHeld, CallAhead,
                 Generating, Full, Holds, HoldsButLast
<1>11. QED
    BY <1>1, <1>2, <1>3, <1>4, <1>5, <1>6, <1>7, <1>8, <1>9, <1>10 DEF Next

LEMMA SoleInvariant ==
    ASSUME Undisturbed
    PROVE  Spec => [](TypeInv /\ CleanInv /\ SoleInv)
<1>1. Init => TypeInv /\ CleanInv /\ SoleInv
    BY TypeInit, CleanInit, SoleInit
<1>2. TypeInv /\ CleanInv /\ SoleInv /\ [Next]_vars => (TypeInv /\ CleanInv /\ SoleInv)'
    BY TypeStep, CleanStep, SoleStep
<1>3. QED
    BY <1>1, <1>2, PTL DEF Spec

\* With one session, no stop token and no stateless calls, and a postfill that is
\* inline or waited for, the cache is transparent: every answer is the greedy
\* continuation of its prompt, through any number of resets, in mid call too, and
\* of calls and postfills that fail half way.
THEOREM SoleSessionExact ==
    ASSUME Undisturbed
    PROVE  Spec => []AnswerExact
<1>1. CleanInv /\ SoleInv => AnswerExact
    BY DEF CleanInv, SoleInv, CallAhead, AnswerExact, Generating
<1>2. QED
    BY <1>1, SoleInvariant, PTL

\* In those configurations the logits kept for the session are those of its
\* tokens.
THEOREM SoleSessionLogits ==
    ASSUME Undisturbed
    PROVE  Spec => []StoredLogitsExact
<1>1. SoleInv => StoredLogitsExact
    BY DEF SoleInv, SessionHeld, PendingHeld, StoredLogitsExact, Fresh
<1>2. QED
    BY <1>1, SoleInvariant, PTL

-----------------------------------------------------------------------------
(* Refinement *)

\* While every call is clean, each step of the engine is one of the stateless
\* decoder, or none.
LEMMA StepRefines ==
    ASSUME TypeInv, CleanInv, Generating => call.clean, [Next]_vars
    PROVE  [Sequential!Next]_(Sequential!vars)
<1> USE DEF Sequential!vars
<1>1. ASSUME NEW sid \in Sessions, NEW policy \in Policies, NEW prompt \in Prompts,
             NEW limit \in 0..MaxTokens, Begin(sid, policy, prompt, limit)
      PROVE  Sequential!Ask
  <2>1. /\ ~Generating /\ out = <<>> /\ out' = out
        /\ Generating' /\ call'.prompt = prompt /\ call'.limit = limit
        /\ Len(prompt) <= MaxSeqLen
      BY <1>1 DEF Begin, Generating, TypeInv, Bounds
  <2>2. QED
      BY <2>1 DEF Sequential!Ask
<1>2. CASE Prefill
    BY <1>2 DEF Prefill, Generating
<1>3. ASSUME DecodeStep PROVE Sequential!Extend
  <2>1. /\ Generating /\ Generating' /\ call' = call /\ call.clean
        /\ call.prompt # <<>> /\ ~Stopped /\ Len(out) < call.limit
        /\ out \in Contexts
      BY <1>3 DEF DecodeStep, Generating, CleanInv, Decoding, TypeInv, TypeOK
  <2>2. out' = Append(out, Greedy(call.prompt \o out))
    <3>1. out' = out \o <<Greedy(Full)>> /\ Greedy(Full) \in Tokens
        BY <1>3, <2>1, DecodeStepExact
    <3>2. out \o <<Greedy(Full)>> = Append(out, Greedy(Full))
        BY <2>1, <3>1, AppendIsConcat DEF Contexts
    <3>3. QED
        BY <3>1, <3>2 DEF Full
  <2>3. QED
      BY <2>1, <2>2 DEF Sequential!Extend, Sequential!Complete, Stopped
<1>4. CASE Commit
    BY <1>4 DEF Commit, Generating
<1>5. ASSUME Answer PROVE Sequential!Finish
    BY <1>5 DEF Answer, Idle, Generating, Sequential!Finish
<1>6. CASE \/ \E p \in postfills : PrepareSkip(p) \/ PrepareBegin(p)
           \/ PrepareFeed
  <2>1. ~Generating /\ ~Generating' /\ out' = out
    <3>1. ASSUME NEW p \in postfills, PrepareSkip(p) \/ PrepareBegin(p)
          PROVE  ~Generating /\ ~Generating' /\ out' = out
        BY <3>1 DEF PrepareSkip, PrepareBegin, callVars, Generating
    <3>2. CASE PrepareFeed
        BY <3>2 DEF PrepareFeed, Idle, Generating, TypeInv, Bounds
    <3>3. QED
        BY <1>6, <3>1, <3>2
  <2>2. QED
      BY <2>1 DEF Generating
<1>7. CASE \E s \in Sessions : Reset(s)
    BY <1>7 DEF Reset, Generating
<1>8. CASE Fail
  <2>1. ~Generating' /\ out' = <<>>
      BY <1>8 DEF Fail, Idle, Generating
  <2>2. CASE Generating
      BY <2>1, <2>2 DEF Sequential!Next, Sequential!Finish
  <2>3. CASE ~Generating
      BY <2>1, <2>3 DEF Generating, TypeInv, TypeOK, Bounds
  <2>4. QED
      BY <2>2, <2>3
<1>9. CASE UNCHANGED vars
    BY <1>9 DEF vars, callVars, Generating
<1>10. QED
    BY <1>1, <1>2, <1>3, <1>4, <1>5, <1>6, <1>7, <1>8, <1>9 DEF Next, Sequential!Next

\* In any configuration: as long as every call starts on a cache that is right for
\* what it reuses, generate_sync is a decoder without a cache.
THEOREM CleanCallsRefine == Spec /\ [](Generating => call.clean) => RefinesStateless
<1>1. Init => Sequential!Init
    BY DEF Init, NoCall, Generating, Sequential!Init
<1>2. TypeInv /\ CleanInv /\ (Generating => call.clean) /\ [Next]_vars
        => [Sequential!Next]_(Sequential!vars)
    BY StepRefines
<1>3. QED
    BY <1>1, <1>2, CleanInvariant, PTL DEF Spec, RefinesStateless, Sequential!Spec

\* With one session, no stop token and no stateless calls it is one, where the
\* postfill is inline or clients wait for it, whatever resets and failures come in
\* between.
THEOREM SoleSessionRefines ==
    ASSUME Undisturbed
    PROVE  Spec => RefinesStateless
<1>1. SoleInv => (Generating => call.clean)
    BY DEF SoleInv, CallAhead
<1>2. QED
    BY <1>1, SoleInvariant, CleanCallsRefine, PTL
-----------------------------------------------------------------------------
(* Pending postfills *)

\* What becomes of a session that reports a pending postfill: its task waits, or its
\* call is about to answer, or its task runs.
Expected(s) ==
    \/ [sid |-> s, tokens |-> sessions[s].tokens] \in postfills
    \/ /\ phase = "answer" /\ call.sid = s /\ Defers
       /\ sessions[s].tokens = Full
    \/ /\ phase = "prepare" /\ call.sid = s /\ ~detached
       /\ sessions[s].tokens = call.prompt

PendingInv ==
    /\ phase = "idle" => ~detached
    /\ \A s \in Sessions : sessions[s].pending => Expected(s)

LEMMA PendingCommit ==
    ASSUME TypeInv, PendingInv, Commit
    PROVE  PendingInv'
<1>1. /\ phase = "decode" /\ phase' = "answer" /\ call.sid \in Sessions
      /\ UNCHANGED <<call, out, detached, postfills>>
      /\ Full' = Full /\ Defers' = Defers
    BY DEF Commit, TypeInv, Bounds, Full, Defers, Stopped
<1>2. CASE sessions' = sessions
    BY <1>1, <1>2 DEF PendingInv, Expected
<1>3. CASE sessions' # sessions
  <2>1. PICK new : /\ sessions' = [sessions EXCEPT ![call.sid] = new]
                   /\ new.tokens = Full /\ new.pending = Defers
      BY <1>3 DEF Commit
  <2>2. \A s \in Sessions : sessions'[s] = IF s = call.sid THEN new ELSE sessions[s]
      BY <1>1, <2>1 DEF TypeInv, TypeOK
  <2>3. ASSUME NEW s \in Sessions, sessions'[s].pending
        PROVE  Expected(s)'
    <3>1. CASE s = call.sid
        BY <1>1, <2>1, <2>2, <2>3, <3>1 DEF Expected
    <3>2. CASE s # call.sid
        BY <1>1, <2>2, <2>3, <3>2 DEF PendingInv, Expected
    <3>3. QED
        BY <3>1, <3>2
  <2>4. QED
      BY <1>1, <2>3 DEF PendingInv
<1>4. QED
    BY <1>2, <1>3

LEMMA PendingSkip ==
    ASSUME TypeInv, PendingInv, NEW p \in postfills, PrepareSkip(p)
    PROVE  PendingInv'
<1>1. /\ phase = "idle" /\ postfills' = postfills \ {p} /\ UNCHANGED callVars
      /\ p.sid \in Sessions /\ p \in [sid : Sessions, tokens : Contexts]
    BY DEF PrepareSkip, TypeInv, TypeOK
<1>2. /\ \A s \in Sessions : sessions'[s].tokens = sessions[s].tokens
      /\ \A s \in Sessions : sessions'[s].pending => sessions[s].pending
      /\ sessions[p.sid].tokens = p.tokens => ~sessions'[p.sid].pending
  <2>1. sessions \in [Sessions -> SessionState]
      BY DEF TypeInv, TypeOK
  <2>2. CASE sessions' = sessions /\ sessions[p.sid].tokens # p.tokens
      BY <2>2
  <2>3. CASE sessions' = ClearPending(p.sid)
      BY <1>1, <2>1, <2>3 DEF ClearPending, SessionState
  <2>4. QED
      BY <2>2, <2>3 DEF PrepareSkip
<1>3. ASSUME NEW s \in Sessions, sessions'[s].pending
      PROVE  [sid |-> s, tokens |-> sessions[s].tokens] \in postfills \ {p}
  <2>1. [sid |-> s, tokens |-> sessions[s].tokens] \in postfills
      BY <1>1, <1>2, <1>3 DEF PendingInv, Expected
  <2>2. CASE s = p.sid
      BY <1>2, <1>3, <2>1, <2>2
  <2>3. CASE s # p.sid
      BY <2>1, <2>3
  <2>4. QED
      BY <2>2, <2>3
<1>4. phase' = "idle" /\ ~detached'
    BY <1>1 DEF callVars, PendingInv
<1>5. QED
    BY <1>1, <1>2, <1>3, <1>4 DEF PendingInv, Expected

LEMMA PendingPrepareBegin ==
    ASSUME TypeInv, PendingInv, NEW p \in postfills, PrepareBegin(p)
    PROVE  PendingInv'
<1>1. /\ phase = "idle" /\ phase' = "prepare" /\ postfills' = postfills \ {p}
      /\ sessions[p.sid].tokens = p.tokens
      /\ call' = [call EXCEPT !.sid = p.sid, !.prompt = p.tokens]
      /\ UNCHANGED <<sessions, detached>> /\ ~detached
    BY DEF PrepareBegin, PendingInv, engineVars
<1>2. call'.sid = p.sid /\ call'.prompt = p.tokens
    BY <1>1 DEF TypeInv, TypeOK
<1>3. ASSUME NEW s \in Sessions, sessions[s].pending
      PROVE  Expected(s)'
  <2>1. [sid |-> s, tokens |-> sessions[s].tokens] \in postfills
      BY <1>1, <1>3 DEF PendingInv, Expected
  <2>2. CASE s = p.sid
      BY <1>1, <1>2, <2>2 DEF Expected
  <2>3. CASE s # p.sid
    <3>1. [sid |-> s, tokens |-> sessions[s].tokens] \in postfills'
        BY <1>1, <2>1, <2>3
    <3>2. QED
        BY <1>1, <3>1 DEF Expected
  <2>4. QED
      BY <2>2, <2>3
<1>4. QED
    BY <1>1, <1>3 DEF PendingInv

LEMMA PendingPrepareFeed ==
    ASSUME TypeInv, PendingInv, PrepareFeed
    PROVE  PendingInv'
<1>1. /\ phase = "prepare" /\ phase' = "idle" /\ ~detached' /\ postfills' = postfills
      /\ sessions \in [Sessions -> SessionState] /\ call.sid \in Sessions
    BY DEF PrepareFeed, Idle, TypeInv, TypeOK, Bounds
<1>2. CASE detached
  <2>1. sessions' = sessions
      BY <1>2 DEF PrepareFeed
  <2>2. QED
      BY <1>1, <1>2, <2>1 DEF PendingInv, Expected
<1>3. CASE ~detached
  <2>1. PICK l : sessions' = [sessions EXCEPT ![call.sid] = [@ EXCEPT !.logits = l, !.pending = FALSE]]
      BY <1>3 DEF PrepareFeed
  <2>2. /\ ~sessions'[call.sid].pending
        /\ \A s \in Sessions : s # call.sid => sessions'[s] = sessions[s]
      BY <1>1, <2>1 DEF SessionState
  <2>3. QED
      BY <1>1, <2>2 DEF PendingInv, Expected
<1>4. QED
    BY <1>2, <1>3

LEMMA PendingReset ==
    ASSUME TypeInv, PendingInv, NEW s \in Sessions, Reset(s)
    PROVE  PendingInv'
<1>1. /\ sessions' = [sessions EXCEPT ![s] = Fresh]
      /\ detached' = (detached \/ (phase # "idle" /\ call.sid = s))
      /\ UNCHANGED <<phase, call, out, postfills>>
      /\ Full' = Full /\ Defers' = Defers
    BY DEF Reset, Full, Defers, Stopped
<1>2. /\ ~sessions'[s].pending
      /\ \A t \in Sessions : t # s => sessions'[t] = sessions[t]
    BY <1>1 DEF TypeInv, TypeOK, Fresh
<1>3. ASSUME NEW t \in Sessions, sessions'[t].pending
      PROVE  Expected(t)'
  <2>1. t # s /\ sessions'[t] = sessions[t]
      BY <1>2, <1>3
  <2>2. Expected(t)
      BY <1>3, <2>1 DEF PendingInv
  <2>3. call.sid = t => detached' = detached
      BY <1>1, <2>1 DEF TypeInv, TypeOK
  <2>4. QED
      BY <1>1, <2>1, <2>2, <2>3 DEF Expected
<1>4. QED
    BY <1>1, <1>3 DEF PendingInv

LEMMA PendingStep ==
    ASSUME ~CanFail, TypeInv, PendingInv, [Next]_vars
    PROVE  PendingInv'
<1>1. ASSUME NEW sid \in Sessions, NEW policy \in Policies, NEW prompt \in Prompts,
             NEW limit \in 0..MaxTokens, Begin(sid, policy, prompt, limit)
      PROVE  PendingInv'
  <2>1. /\ phase = "idle" /\ phase' = "prefill" /\ postfills' = postfills
        /\ \/ sessions' = sessions
           \/ sessions' = [sessions EXCEPT ![sid] = Fresh]
           \/ sessions' = [sessions EXCEPT ![sid] = sessions[sid]]
      BY <1>1 DEF Begin, SelectSession
  <2>2. \A s \in Sessions : sessions'[s].pending => sessions'[s] = sessions[s]
      BY <2>1 DEF TypeInv, TypeOK, Fresh
  <2>3. QED
      BY <2>1, <2>2 DEF PendingInv, Expected
<1>2. CASE Prefill \/ DecodeStep
  <2>1. /\ phase \in {"prefill", "decode"} /\ phase' \in {"prefill", "decode"}
        /\ UNCHANGED <<sessions, postfills>>
      BY <1>2 DEF Prefill, DecodeStep
  <2>2. QED
      BY <2>1 DEF PendingInv, Expected
<1>3. CASE Commit
    BY <1>3, PendingCommit
<1>4. CASE Answer
  <2>1. /\ phase = "answer" /\ phase' = "idle" /\ ~detached' /\ sessions' = sessions
        /\ postfills' = IF Defers THEN postfills \cup {[sid |-> call.sid, tokens |-> Full]}
                        ELSE postfills
      BY <1>4 DEF Answer, Idle, engineVars
  <2>2. QED
      BY <2>1 DEF PendingInv, Expected
<1>5. CASE \E p \in postfills : PrepareSkip(p) \/ PrepareBegin(p)
    BY <1>5, PendingSkip, PendingPrepareBegin
<1>6. CASE PrepareFeed
    BY <1>6, PendingPrepareFeed
<1>7. CASE \E s \in Sessions : Reset(s)
    BY <1>7, PendingReset
<1>8. CASE Fail
    BY <1>8 DEF Fail
<1>9. CASE UNCHANGED vars
    BY <1>9 DEF vars, engineVars, callVars, PendingInv, Expected, Full, Defers, Stopped
<1>10. QED
    BY <1>1, <1>2, <1>3, <1>4, <1>5, <1>6, <1>7, <1>8, <1>9 DEF Next

\* While no call fails, whatever the sessions, policies and stop tokens, and even with
\* resets in mid call: a session that reports a pending postfill has one on its way.
THEOREM NothingStaysPending ==
    ASSUME ~CanFail
    PROVE  Spec => []PendingIsScheduled
<1>1. Init => PendingInv
    BY DEF Init, PendingInv, Fresh
<1>2. TypeInv /\ PendingInv /\ [Next]_vars => PendingInv'
    BY PendingStep
<1>3. PendingInv => PendingIsScheduled
    BY DEF PendingInv, Expected, PendingIsScheduled
<1>4. QED
    BY <1>1, <1>2, <1>3, TypeInvariant, PTL DEF Spec
-----------------------------------------------------------------------------
(* Policy reset *)

\* Calls reuse nothing and do not fail.  Sessions, prompts, stop tokens, postfill mode
\* and resets are as they like.
ResetOnly == Policies \subseteq {"reset"} /\ ~CanFail

\* The owner of the slot is held up to its last token, but while a call writes; a
\* session dropped under a call is not its owner any more when a postfill runs.
ResetInv ==
    /\ \A s \in Sessions :
          /\ ~sessions[s].valid => sessions[s] = Fresh
          /\ sessions[s].logits \in {None, sessions[s].tokens}
          /\ phase \in {"idle", "answer", "prepare"} /\ active = s /\ sessions[s].tokens # <<>> =>
                HoldsButLast(kv, sessions[s].tokens)
    /\ Generating => call.clean /\ call.policy # "none"
    /\ Generating /\ detached => sessions[call.sid] = Fresh
    /\ phase = "decode" /\ out = <<>> =>
          /\ Holds(kv, call.prompt)
          /\ logits = IF call.prompt = <<>> THEN None ELSE call.prompt
    /\ phase = "decode" /\ out # <<>> => HoldsButLast(kv, Full)
    /\ phase = "prepare" =>
          /\ HoldsButLast(kv, call.prompt)
          /\ IF detached THEN active = None
             ELSE active = call.sid /\ sessions[call.sid].tokens = call.prompt

LEMMA ResetInit == Init => ResetInv
BY EmptySeq DEF Init, ResetInv, Fresh, Generating

LEMMA ResetBegin ==
    ASSUME ResetOnly, TypeInv, ResetInv, CleanInv', NEW sid \in Sessions,
           NEW policy \in Policies, NEW prompt \in Prompts, NEW limit \in 0..MaxTokens,
           Begin(sid, policy, prompt, limit)
    PROVE  ResetInv'
<1>1. policy = "reset"
    BY DEF ResetOnly
<1>2. /\ sessions' = [sessions EXCEPT ![sid] = Fresh] /\ phase' = "prefill" /\ ~detached'
      /\ call'.reused = 0 /\ call'.policy = "reset" /\ call'.sid = sid
    BY <1>1 DEF Begin, SelectSession, ReusedPrefixLen, ReusesPrefix
<1>3. call'.clean
    BY <1>2 DEF CleanInv, Generating
<1>4. \A s \in Sessions : sessions'[s] = IF s = sid THEN Fresh ELSE sessions[s]
    BY <1>2 DEF TypeInv, TypeOK
<1>5. Fresh.logits = None /\ ~Fresh.valid
    BY DEF Fresh
<1>6. \A s \in Sessions :
         /\ ~sessions'[s].valid => sessions'[s] = Fresh
         /\ sessions'[s].logits \in {None, sessions'[s].tokens}
    BY <1>4, <1>5 DEF ResetInv
<1>7. QED
    BY <1>2, <1>3, <1>6 DEF ResetInv, Generating

LEMMA ResetPrefill ==
    ASSUME ResetOnly, TypeInv, CleanInv, ResetInv, Prefill
    PROVE  ResetInv'
<1>1. /\ phase = "prefill" /\ phase' = "decode" /\ call.clean /\ out = <<>>
      /\ UNCHANGED <<sessions, active, call, out, detached>>
    BY DEF Prefill, ResetInv, Generating, TypeInv, Bounds
<1>2. /\ call.prompt = <<>> => logits' = None /\ kv' = kv
      /\ call.prompt # <<>> => logits' = call.prompt /\ Holds(kv', call.prompt)
    BY <1>1, PrefillExact
<1>3. Holds(kv', call.prompt)
    BY <1>2, EmptySeq DEF Holds
<1>4. QED
    BY <1>1, <1>2, <1>3 DEF ResetInv, Generating

LEMMA ResetDecodeStep ==
    ASSUME ResetOnly, TypeInv, CleanInv, ResetInv, DecodeStep
    PROVE  ResetInv'
<1> DEFINE ids == <<Greedy(Full)>>
<1>1. /\ phase = "decode" /\ phase' = "decode" /\ call.clean
      /\ UNCHANGED <<sessions, active, call, detached>>
      /\ out \in Contexts /\ Len(Full) \in Nat /\ kv \in [Slots -> Contexts]
    BY FullType, LenProperties
    DEF DecodeStep, ResetInv, Generating, TypeInv, TypeOK, Contexts
<1>2. /\ Full \in Contexts /\ Holds(kv, Full)
      /\ Len(Full) + 1 <= MaxSeqLen + MaxTokens
      /\ Greedy(Full) \in Tokens
      /\ out' = out \o ids /\ Full' = Full \o ids
      /\ Feed(ids, Len(Full)) \/ kv' = kv
    BY <1>1, DecodeStepExact
<1>3. ids \in Contexts /\ Len(ids) = 1 /\ ids # <<>>
    BY <1>2 DEF Contexts
<1> HIDE DEF ids
<1>4. out' # <<>>
  <2>1. \A s, t \in Contexts : s \o t = <<>> => t = <<>>
      BY ConcatEqualIffEmpty DEF Contexts
  <2>2. QED
      BY <1>1, <1>2, <1>3, <2>1, Zenon
<1>5. Holds(kv', Full)
  <2>1. Len(Full) <= MaxSeqLen + MaxTokens
      BY <1>1, <1>2, LengthAssumption
  <2>2. QED
      BY <1>1, <1>2, <1>3, <2>1, ForwardKeeps DEF Feed
<1>6. SubSeq(Full', 1, Len(Full') - 1) = Full
  <2>1. Len(Full \o ids) = Len(Full) + 1
    <3>1. Full \in Seq(Tokens) /\ ids \in Seq(Tokens)
        BY <1>2, <1>3 DEF Contexts
    <3>2. QED
        BY <1>3, <3>1, ConcatProperties
  <2>2. SubSeq(Full \o ids, 1, Len(Full)) = SubSeq(Full, 1, Len(Full))
      BY <1>1, <1>2, <1>3, ConcatPrefixes DEF Contexts
  <2>3. QED
      BY <1>1, <1>2, <2>1, <2>2, SubSeqFull DEF Contexts
<1>7. HoldsButLast(kv', Full')
    BY <1>5, <1>6 DEF HoldsButLast
<1>8. QED
    BY <1>1, <1>4, <1>7 DEF ResetInv, Generating

\* A commit leaves the cache one token behind the session at most, and keeps only the
\* logits of exactly its tokens.
LEMMA ResetCommitExact ==
    ASSUME TypeInv, ResetInv, Commit
    PROVE  /\ Full \in Contexts
           /\ Full # <<>> => HoldsButLast(kv', Full)
           /\ NextLogitsValid => logits' \in {None, Full}
<1>1. /\ phase = "decode" /\ kv \in [Slots -> Contexts]
      /\ call.prompt \in Contexts /\ out \in Contexts /\ Len(out) \in Nat
      /\ Len(call.prompt) \in Nat
    BY LenProperties DEF Commit, TypeInv, TypeOK, Contexts
<1>2. /\ Full \in Contexts /\ Len(Full) = Len(call.prompt) + Len(out)
      /\ Len(Full) <= MaxSeqLen + MaxTokens
      /\ out # <<>> => Full # <<>> /\ Len(Full) >= 1 /\ Len(out) >= 1
    BY <1>1, FullType
<1>3. CASE out = <<>>
  <2>1. Full = call.prompt
      BY <1>1, <1>3, ConcatEmptySeq DEF Full, Contexts
  <2>2. kv' = kv /\ logits' = logits
      BY <1>3 DEF Commit, FeedsInline
  <2>3. Holds(kv', Full) /\ logits' \in {None, Full}
      BY <1>1, <1>3, <2>1, <2>2 DEF ResetInv
  <2>4. QED
      BY <1>2, <2>3, HeldButLast
<1>4. CASE out # <<>> /\ FeedsInline
  <2>1. HoldsButLast(kv, Full)
      BY <1>1, <1>4 DEF ResetInv
  <2>2. Full[Len(Full)] = out[Len(out)]
      BY <1>1, <1>2, <1>4, ConcatProperties DEF Full, Contexts
  <2>3. Feed(<<Full[Len(Full)]>>, Len(Full) - 1)
      BY <1>4, <2>2 DEF Commit, LastPosition
  <2>4. logits' = Full /\ Holds(kv', Full)
      BY <1>1, <1>2, <1>4, <2>1, <2>3, LastFed DEF Feed
  <2>5. QED
      BY <1>2, <2>4, HeldButLast
<1>5. CASE out # <<>> /\ ~FeedsInline
  <2>1. kv' = kv /\ ~NextLogitsValid
      BY <1>5 DEF Commit, NextLogitsValid
  <2>2. QED
      BY <1>1, <1>2, <1>5, <2>1 DEF ResetInv
<1>6. QED
    BY <1>3, <1>4, <1>5

LEMMA ResetCommit ==
    ASSUME ResetOnly, TypeInv, ResetInv, Commit
    PROVE  ResetInv'
<1>1. /\ phase = "decode" /\ phase' = "answer" /\ active' = call.sid /\ call.sid \in Sessions
      /\ UNCHANGED <<call, out, detached>> /\ call.clean /\ call.policy # "none"
    BY DEF Commit, ResetInv, Generating, TypeInv, Bounds, NewOwner
<1>2. CASE detached
  <2>1. sessions' = sessions /\ sessions[call.sid] = Fresh
      BY <1>1, <1>2 DEF Commit, ResetInv, Generating
  <2>2. QED
      BY <1>1, <1>2, <2>1 DEF ResetInv, Generating, Fresh
<1>3. CASE ~detached
  <2> DEFINE new == [tokens |-> Full, valid |-> TRUE,
                     logits |-> IF NextLogitsValid THEN logits' ELSE None, pending |-> Defers]
  <2>1. sessions' = [sessions EXCEPT ![call.sid] = new]
      BY <1>1, <1>3 DEF Commit
  <2>2. new.tokens = Full /\ new.valid /\ new.logits \in {None, Full}
      BY ResetCommitExact
  <2> HIDE DEF new
  <2>3. \A s \in Sessions : sessions'[s] = IF s = call.sid THEN new ELSE sessions[s]
      BY <1>1, <2>1 DEF TypeInv, TypeOK
  <2>4. Full # <<>> => HoldsButLast(kv', Full)
      BY ResetCommitExact
  <2>5. QED
      BY <1>1, <1>3, <2>2, <2>3, <2>4 DEF ResetInv, Generating
<1>4. QED
    BY <1>2, <1>3

LEMMA ResetSkip ==
    ASSUME TypeInv, ResetInv, NEW p \in postfills, PrepareSkip(p)
    PROVE  ResetInv'
<1>1. /\ phase = "idle" /\ phase' = "idle" /\ UNCHANGED <<active, kv>>
      /\ sessions \in [Sessions -> SessionState] /\ p.sid \in Sessions
    BY DEF PrepareSkip, callVars, TypeInv, TypeOK
<1>2. ASSUME NEW s \in Sessions
      PROVE  /\ sessions'[s].tokens = sessions[s].tokens /\ sessions'[s].valid = sessions[s].valid
             /\ sessions'[s].logits = sessions[s].logits
             /\ sessions[s] = Fresh => sessions'[s] = Fresh
  <2>1. CASE sessions' = sessions
      BY <2>1
  <2>2. CASE sessions' = ClearPending(p.sid)
    <3>1. sessions[s] \in SessionState
        BY <1>1
    <3>2. sessions'[s] = sessions[s] \/ sessions'[s] = [sessions[s] EXCEPT !.pending = FALSE]
        BY <1>1, <2>2 DEF ClearPending
    <3>3. [sessions[s] EXCEPT !.pending = FALSE].tokens = sessions[s].tokens
          /\ [sessions[s] EXCEPT !.pending = FALSE].valid = sessions[s].valid
          /\ [sessions[s] EXCEPT !.pending = FALSE].logits = sessions[s].logits
        BY <3>1 DEF SessionState
    <3>4. [Fresh EXCEPT !.pending = FALSE] = Fresh
      <4>1. [Fresh EXCEPT !.pending = Fresh.pending] = Fresh
          BY FreshType DEF SessionState
      <4>2. Fresh.pending = FALSE
          BY DEF Fresh
      <4>3. QED
          BY <4>1, <4>2
    <3>5. QED
        BY <3>2, <3>3, <3>4
  <2>3. QED
      BY <2>1, <2>2 DEF PrepareSkip
<1>3. QED
    BY <1>1, <1>2 DEF ResetInv, Generating

LEMMA ResetPrepareBegin ==
    ASSUME TypeInv, ResetInv, NEW p \in postfills, PrepareBegin(p), ~detached
    PROVE  ResetInv'
<1>1. /\ phase = "idle" /\ phase' = "prepare" /\ active = p.sid
      /\ sessions[p.sid].tokens = p.tokens /\ p.sid \in Sessions /\ p.tokens # <<>>
      /\ UNCHANGED <<sessions, active, kv, out, logits, detached>>
      /\ call' = [call EXCEPT !.sid = p.sid, !.prompt = p.tokens]
    BY DEF PrepareBegin, OwnsSlot, engineVars, TypeInv, TypeOK, Bounds
<1>2. call'.sid = p.sid /\ call'.prompt = p.tokens
    BY <1>1 DEF TypeInv, TypeOK
<1>3. HoldsButLast(kv, p.tokens)
    BY <1>1 DEF ResetInv
<1>4. QED
    BY <1>1, <1>2, <1>3 DEF ResetInv, Generating

LEMMA ResetPrepareFeed ==
    ASSUME TypeInv, ResetInv, PrepareFeed
    PROVE  ResetInv'
<1> DEFINE l == ForwardLogits(kv, <<call.prompt[Len(call.prompt)]>>, Len(call.prompt) - 1)
           new == [sessions[call.sid] EXCEPT !.logits = l, !.pending = FALSE]
<1>1. /\ phase = "prepare" /\ phase' = "idle" /\ active' = active
      /\ kv' = ForwardCache(kv, <<call.prompt[Len(call.prompt)]>>, Len(call.prompt) - 1)
      /\ call.sid \in Sessions /\ sessions \in [Sessions -> SessionState]
      /\ call.prompt \in Contexts /\ call.prompt # <<>>
      /\ Len(call.prompt) <= MaxSeqLen + MaxTokens /\ kv \in [Slots -> Contexts]
    BY DEF PrepareFeed, Idle, TypeInv, TypeOK, Bounds
<1>2. HoldsButLast(kv, call.prompt)
    BY <1>1 DEF ResetInv
<1>3. l = call.prompt /\ HoldsButLast(kv', call.prompt)
    BY <1>1, <1>2, LastFed, HeldButLast
<1>4. CASE detached
  <2>1. sessions' = sessions /\ active = None
      BY <1>1, <1>4 DEF PrepareFeed, ResetInv
  <2>2. QED
      BY <1>1, <2>1, SessionAssumption DEF ResetInv, Generating
<1>5. CASE ~detached
  <2>1. active = call.sid /\ sessions[call.sid].tokens = call.prompt
      BY <1>1, <1>5 DEF ResetInv
  <2>2. sessions' = [sessions EXCEPT ![call.sid] = new]
      BY <1>5 DEF PrepareFeed
  <2>3. /\ sessions[call.sid] \in SessionState
        /\ sessions[call.sid].valid
      BY <1>1, <2>1 DEF ResetInv, Fresh
  <2>4. /\ new.tokens = call.prompt /\ new.valid /\ new.logits = call.prompt
    <3> HIDE DEF l
    <3>1. QED
        BY <1>3, <2>1, <2>3 DEF SessionState
  <2> HIDE DEF new, l
  <2>5. \A s \in Sessions : sessions'[s] = IF s = call.sid THEN new ELSE sessions[s]
      BY <1>1, <2>2
  <2>6. QED
      BY <1>1, <1>3, <2>1, <2>4, <2>5 DEF ResetInv, Generating
<1>6. QED
    BY <1>4, <1>5

LEMMA ResetReset ==
    ASSUME TypeInv, ResetInv, NEW s \in Sessions, Reset(s)
    PROVE  ResetInv'
<1>1. /\ sessions' = [sessions EXCEPT ![s] = Fresh]
      /\ active' = IF active = s THEN None ELSE active
      /\ detached' = (detached \/ (phase # "idle" /\ call.sid = s))
      /\ UNCHANGED <<kv, phase, call, out, logits>> /\ Full' = Full
    BY DEF Reset, Full
<1>2. \A t \in Sessions : sessions'[t] = IF t = s THEN Fresh ELSE sessions[t]
    BY <1>1 DEF TypeInv, TypeOK
<1>3. phase # "idle" => call.sid \in Sessions
    BY DEF TypeInv, Bounds
<1>4. \A t \in Sessions :
         /\ ~sessions'[t].valid => sessions'[t] = Fresh
         /\ sessions'[t].logits \in {None, sessions'[t].tokens}
         /\ phase \in {"idle", "answer", "prepare"} /\ active' = t /\ sessions'[t].tokens # <<>> =>
               HoldsButLast(kv, sessions'[t].tokens)
  <2>1. Fresh.logits = None /\ ~Fresh.valid /\ Fresh.tokens = <<>>
      BY DEF Fresh
  <2>2. \A t \in Sessions : t # s /\ active' = t => active = t
      BY <1>1, SessionAssumption
  <2>3. QED
      BY <1>2, <2>1, <2>2 DEF ResetInv
<1>5. Generating /\ detached' => sessions'[call.sid] = Fresh
    BY <1>1, <1>2, <1>3 DEF ResetInv, Generating
<1>6. phase = "prepare" =>
         IF detached' THEN active' = None
         ELSE active' = call.sid /\ sessions'[call.sid].tokens = call.prompt
    BY <1>1, <1>2, <1>3, SessionAssumption DEF ResetInv
<1>7. QED
    BY <1>1, <1>4, <1>5, <1>6 DEF ResetInv, Generating

LEMMA ResetStep ==
    ASSUME ResetOnly, TypeInv, CleanInv, CleanInv', PendingInv, ResetInv, [Next]_vars
    PROVE  ResetInv'
<1>1. ASSUME NEW sid \in Sessions, NEW policy \in Policies, NEW prompt \in Prompts,
             NEW limit \in 0..MaxTokens, Begin(sid, policy, prompt, limit)
      PROVE  ResetInv'
    BY <1>1, ResetBegin
<1>2. CASE Prefill
    BY <1>2, ResetPrefill
<1>3. CASE DecodeStep
    BY <1>3, ResetDecodeStep
<1>4. CASE Commit
    BY <1>4, ResetCommit
<1>5. CASE Answer
    BY <1>5 DEF Answer, Idle, engineVars, ResetInv, Generating
<1>6. ASSUME NEW p \in postfills, PrepareSkip(p) \/ PrepareBegin(p)
      PROVE  ResetInv'
  <2>1. PrepareBegin(p) => ~detached
      BY DEF PrepareBegin, PendingInv
  <2>2. QED
      BY <1>6, <2>1, ResetSkip, ResetPrepareBegin
<1>7. CASE PrepareFeed
    BY <1>7, ResetPrepareFeed
<1>8. CASE \E s \in Sessions : Reset(s)
    BY <1>8, ResetReset
<1>9. CASE Fail
    BY <1>9 DEF Fail, ResetOnly
<1>10. CASE UNCHANGED vars
    BY <1>10 DEF vars, engineVars, callVars, ResetInv, Generating, Full
<1>11. QED
    BY <1>1, <1>2, <1>3, <1>4, <1>5, <1>6, <1>7, <1>8, <1>9, <1>10 DEF Next

LEMMA ResetInvariant ==
    ASSUME ResetOnly
    PROVE  Spec => []ResetInv
<1>1. Init => PendingInv /\ ResetInv
    BY ResetInit DEF Init, PendingInv, Fresh
<1>2. TypeInv /\ CleanInv /\ CleanInv' /\ PendingInv /\ ResetInv /\ [Next]_vars
        => PendingInv' /\ ResetInv'
    BY PendingStep, ResetStep DEF ResetOnly
<1>3. QED
    BY <1>1, <1>2, CleanInvariant, PTL DEF Spec

\* With any number of sessions that take the slot from one another, deferred postfills
\* and resets in mid call: the logits kept for a session are those of its tokens.
THEOREM ResetLogitsExact ==
    ASSUME ResetOnly
    PROVE  Spec => []StoredLogitsExact
<1>1. ResetInv => StoredLogitsExact
    BY DEF ResetInv, StoredLogitsExact
<1>2. QED
    BY <1>1, ResetInvariant, PTL

\* There the session marked active is the one the cache holds, which is what a postfill
\* takes for granted.
THEOREM OwnerIsHeld ==
    ASSUME ResetOnly
    PROVE  Spec => []ActiveSessionHeld
<1>1. ResetInv => ActiveSessionHeld
    BY DEF ResetInv, ActiveSessionHeld, HoldsButLast
<1>2. QED
    BY <1>1, ResetInvariant, PTL
=============================================================================
