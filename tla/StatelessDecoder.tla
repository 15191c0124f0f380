-------------------------- MODULE StatelessDecoder --------------------------
(***************************************************************************)
(* What DeepSeekSparkEngine promises its callers, without any cache: a     *)
(* call takes a prompt, extends the answer one greedy token at a time,     *)
(* stops at a stop token or at the limit, and may be abandoned.            *)
(***************************************************************************)
EXTENDS Naturals, Sequences

CONSTANTS Tokens, StopTokens, Greedy(_), Prompts, MaxSeqLen, MaxTokens

VARIABLES prompt, limit, answer, busy
vars == <<prompt, limit, answer, busy>>

Init == prompt = <<>> /\ limit = 0 /\ answer = <<>> /\ busy = FALSE

Ask ==
    /\ ~busy /\ busy'
    /\ prompt' \in Prompts /\ Len(prompt') <= MaxSeqLen
    /\ limit' \in 0..MaxTokens
    /\ answer' = <<>>

Complete == answer # <<>> /\ answer[Len(answer)] \in StopTokens

Extend ==
    /\ busy /\ prompt # <<>> /\ ~Complete /\ Len(answer) < limit
    /\ answer' = Append(answer, Greedy(prompt \o answer))
    /\ UNCHANGED <<prompt, limit, busy>>

\* The answer is handed over, or the call fails.
Finish ==
    /\ busy /\ ~busy'
    /\ prompt' = <<>> /\ limit' = 0 /\ answer' = <<>>

Next == Ask \/ Extend \/ Finish
Spec == Init /\ [][Next]_vars
=============================================================================
