--------------------------- MODULE MCSessionCache ---------------------------
(***************************************************************************)
(* SessionCache on small instances: two tokens, prompts of at most three,  *)
(* and a greedy choice that depends on the whole context.                  *)
(***************************************************************************)
EXTENDS SessionCache, SequencesExt, FiniteSetsExt

MCGreedy(ctx) == 1 + (FoldSeq(LAMBDA x, y : x + y, 0, ctx) % 2)
\* Prompts that extend, repeat, cut short and contradict one another and the
\* answers to one another (1 is answered by 2, then 2).
MCPrompts == {<<>>, <<1>>, <<2>>, <<1, 2>>, <<1, 1>>, <<1, 2, 2>>, <<1, 2, 1>>, <<2, 1, 1>>}
SessionSymmetry == Permutations(Sessions)
MCShortPrompts == {<<1>>, <<2>>, <<1, 2>>}
MCTwoPrompts == {<<2>>, <<2, 1>>}
=============================================================================
