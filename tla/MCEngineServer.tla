--------------------------- MODULE MCEngineServer ---------------------------
(***************************************************************************)
(* EngineServer on small instances.                                        *)
(***************************************************************************)
EXTENDS EngineServer, TLC

CONSTANTS p1, p2

Config(prefixes, ends, fails) == [prefixes |-> prefixes, ends |-> ends, fails |-> fails]

\* Calls that raise before or after they commit; generations that leave two
\* prefixes; some that end at a stop token; and some refused or without a token.
MCConfigs ==
    {Config({p1}, {"length"}, TRUE), Config({p1, p2}, {"length"}, FALSE),
     Config({p1}, {"length", "stop"}, FALSE), Config({p1}, {"refused", "nothing"}, FALSE)}

MCLengthOnly == {Config({p1}, {"length"}, FALSE)}

RequestSymmetry == Permutations(Requests)
=============================================================================
