----------------------------- MODULE ReplayCache -----------------------------
(***************************************************************************)
(* The expert cache of the trace replay                                    *)
(* (scripts/replay_packed_expert_trace.py): one least recently used list   *)
(* for all layers, or one per layer.  Module ExpertLoader is shown to keep *)
(* its entries as this cache does.                                         *)
(***************************************************************************)
EXTENDS Naturals, Sequences

CONSTANTS
    Experts,    \* routed experts
    LayerOf     \* the layer of each expert

VARIABLES
    config,     \* entries: cache_entries; quota: layer_quota, 0 under global_lru
    lru         \* the lists, least recently used first

replayVars == <<config, lru>>

\* The list of an expert: the global one is list 0.
ListOf(e) == IF config.quota = 0 THEN 0 ELSE LayerOf[e]
Lists == {0} \cup {LayerOf[e] : e \in Experts}

Limit == IF config.quota = 0 THEN config.entries ELSE config.quota

Cached(e) == \E i \in DOMAIN lru[ListOf(e)] : lru[ListOf(e)][i] = e

\* An expert is in its list once.
Without(list, e) ==
    LET at == CHOOSE i \in DOMAIN list : list[i] = e
    IN SubSeq(list, 1, at - 1) \o SubSeq(list, at + 1, Len(list))

\* popitem(last=False) until the list is within its limit.
Trimmed(list) ==
    IF Len(list) <= Limit THEN list
    ELSE SubSeq(list, Len(list) - Limit + 1, Len(list))

Hit(e) ==
    /\ Cached(e)
    /\ lru' = [lru EXCEPT ![ListOf(e)] = Append(Without(@, e), e)]

Miss(e) ==
    /\ ~Cached(e)
    /\ lru' = [lru EXCEPT ![ListOf(e)] = Trimmed(Append(@, e))]

\* ExpertCache.check
Check(e) ==
    /\ config.entries > 0
    /\ Hit(e) \/ Miss(e)
    /\ UNCHANGED config

ReplayInit == lru = [k \in Lists |-> <<>>]
ReplayNext == \E e \in Experts : Check(e)
=============================================================================
