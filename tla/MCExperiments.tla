---------------------------- MODULE MCExperiments ----------------------------
(***************************************************************************)
(* Experiments on small instances: two scenarios, and campaigns that are   *)
(* begun again.                                                            *)
(***************************************************************************)
EXTENDS Experiments

CONSTANTS a, b

Campaign(k, names, skip) == [kind |-> k, names |-> names, skip |-> skip]
Matrix == Campaign("matrix", <<a, b>>, FALSE)
Skipping == Campaign("matrix", <<a, b>>, TRUE)
Profile == Campaign("nsys", <<a>>, FALSE)
Variants == Campaign("ab", <<a, b>>, FALSE)

Config(recover, timeout, meminfo, retains, n, f, campaigns) ==
    [recover |-> recover, timeout |-> timeout, meminfo |-> meminfo, retains |-> retains,
     launches |-> n, faults |-> f, campaigns |-> campaigns]

MCConfigs == {
    Config(TRUE, TRUE, TRUE, TRUE, 3, 0, <<Matrix, Matrix>>),
    Config(TRUE, TRUE, TRUE, TRUE, 4, 2, <<Matrix, Skipping>>),
    Config(TRUE, TRUE, FALSE, TRUE, 4, 0, <<Skipping, Skipping>>),
    Config(FALSE, FALSE, TRUE, FALSE, 3, 1, <<Skipping, Skipping>>),
    Config(TRUE, TRUE, TRUE, TRUE, 2, 1, <<Profile, Profile>>),
    Config(FALSE, TRUE, TRUE, FALSE, 4, 0, <<Variants, Variants>>)}

\* No recovery after a launch that leaves memory with the driver.
MCRetained == {Config(FALSE, TRUE, TRUE, TRUE, 2, 0, <<Profile, Profile>>)}
=============================================================================
