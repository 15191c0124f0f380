--------------------------- MODULE MCExpertLoader ---------------------------
(***************************************************************************)
(* ExpertLoader on small instances.                                        *)
(***************************************************************************)
EXTENDS ExpertLoader, TLC

MCExperts == 1..3
MCLayerOf == <<1, 1, 2>>

C(n, q, s, p, c, r, f) ==
    [entries |-> n, quota |-> q, slots |-> s, prefetch |-> p, copies |-> c,
     routed |-> r, failures |-> f]

\* On the engine thread: both policies, limits that interfere, no cache; and
\* prefetching: caches with and without room for a layer, no cache, failures.
MCConfigs == {
    C(2, 0, 1, FALSE, "queued", 1..3, 1),
    C(2, 1, 1, FALSE, "queued", 1..3, 1),
    C(1, 1, 2, FALSE, "blocking", 1..3, 1),
    C(0, 0, 1, FALSE, "queued", 1..3, 1),
    C(2, 0, 1, TRUE, "captured", 1..3, 0),
    C(1, 0, 1, TRUE, "blocking", 1..3, 0),
    C(0, 0, 1, TRUE, "captured", 1..3, 0),
    C(1, 0, 1, TRUE, "captured", 1..2, 1),
    C(0, 0, 1, TRUE, "blocking", 1..2, 1)}

\* Prefetching with reused pinned buffers and queued copies.
MCQueuedPrefetch == {C(2, 0, 0, TRUE, "queued", 1..3, 0)}
=============================================================================
