------------------------------- MODULE MCStore -------------------------------
(***************************************************************************)
(* Checkpoint and PackedLayout on a small instance: three experts in two   *)
(* layers, two tensors of different sizes for each, in one shard, in an    *)
(* order of their own and with a gap; the other parameters in a second     *)
(* shard.  The packed tools take the places of the tensors from the        *)
(* manifest, so a build needs the manifest to be there.                    *)
(***************************************************************************)
EXTENDS PackedLayout, Checkpoint, TLC

CONSTANTS base, hot

-----------------------------------------------------------------------------
(* Checkpoints *)

Routed1(l, e, kind) == <<"layers", l, "ffn", "experts", e, "w1", kind>>
Gap == <<"gap">>

\* The header of a shard with the tensors of a list, <<name, bytes>>, in a row.
HeaderOf(list) ==
    LET start[i \in 1..(Len(list) + 1)] == IF i = 1 THEN 0 ELSE start[i - 1] + list[i - 1][2]
        At(n) == CHOOSE i \in DOMAIN list : list[i][1] = n
    IN [n \in {list[i][1] : i \in DOMAIN list} \ {Gap} |->
           [start |-> start[At(n)], end |-> start[At(n) + 1]]]
SizeOf(list) == 1 + Len(Concat([i \in DOMAIN list |-> [k \in 1..list[i][2] |-> 0]]))

\* The places of the parameters in a checkpoint, whose headers have one byte.
Files(lists, own) ==
    LET header == [s \in DOMAIN lists |-> HeaderOf(lists[s])] IN
    [index |-> [n \in UNION {DOMAIN header[s] : s \in DOMAIN lists} |->
                   CHOOSE s \in DOMAIN lists : n \in DOMAIN header[s]],
     header |-> header, base |-> [s \in DOMAIN lists |-> 1],
     size |-> [s \in DOMAIN lists |-> SizeOf(lists[s])],
     own |-> own, stops |-> FALSE, whole |-> TRUE]

Name(l, e, c) == Routed1(l, e, IF c = 1 THEN "scale" ELSE "weight")
ExpertList ==
    <<<<Name("1", "2", 2), 1>>, <<Name("1", "1", 1), 2>>, <<Name("2", "3", 1), 2>>, <<Gap, 1>>,
      <<Name("1", "1", 2), 1>>, <<Name("1", "2", 1), 2>>, <<Name("2", "3", 2), 1>>>>

MCParams ==
    <<<<"embed", "weight">>, <<"layers", "1", "attn", "wo_a", "weight">>,
      Name("1", "1", 2), <<"layers", "1", "attn_norm", "weight">>,
      <<"layers", "1", "ffn", "gate", "bias">>, <<"head", "weight">>, <<"hc_head_base">>>>
Owned(own) == [p \in Elements(MCParams) |-> own[CHOOSE i \in DOMAIN MCParams : MCParams[i] = p]]

\* With the names of the official model.
OfficialOwn ==
    Owned([i \in 1..7 |->
        CASE i = 2 -> <<MCParams[2], <<"layers", "1", "attn", "wo_a", "scale">>>>
          [] i = 3 -> <<>>
          [] OTHER -> <<MCParams[i]>>])
OfficialList ==
    <<<<MCParams[1], 1>>, <<MCParams[2], 2>>, <<<<"layers", "1", "attn", "wo_a", "scale">>, 1>>,
      <<MCParams[4], 1>>, <<MCParams[5], 1>>, <<MCParams[6], 1>>, <<MCParams[7], 1>>>>
Official == Files(<<ExpertList, OfficialList>>, OfficialOwn)

\* With Hugging Face's names.
FaceNames ==
    <<<<"model", "embed_tokens", "weight">>,
      <<"model", "layers", "1", "self_attn", "wo_a", "weight">>,
      <<"model", "layers", "1", "mlp", "experts", "1", "gate_proj", "weight">>,
      <<"model", "layers", "1", "input_layernorm", "weight">>,
      <<"model", "layers", "1", "mlp", "gate", "e_score_correction_bias">>,
      <<"lm_head", "weight">>, <<"hc_head_base">>>>
FaceScale == <<"model", "layers", "1", "self_attn", "wo_a", "weight_scale_inv">>
FaceOwn ==
    Owned([i \in 1..7 |->
        CASE i = 2 -> <<FaceNames[2], FaceScale>> [] i = 3 -> <<>> [] OTHER -> <<FaceNames[i]>>])
Face ==
    Files(<<[i \in 1..7 |-> <<FaceNames[i], 1>>],
            <<<<<<"mtp", "0", "head", "weight">>, 1>>, <<FaceScale, 1>>>>>>, FaceOwn)

\* The experts over two shards, one of them larger than the others.
Uneven ==
    Files(<<<<<<Name("1", "2", 2), 2>>, <<Name("1", "2", 1), 2>>, <<Name("2", "3", 1), 1>>,
             <<Name("1", "1", 1), 2>>>>,
            <<<<Name("1", "1", 2), 1>>, <<Gap, 2>>, <<Name("2", "3", 2), 1>>>> \o OfficialList>>,
          OfficialOwn)

\* Experts alone, which is all that the packed tools look at.
Bare == [Files(<<ExpertList>>, OfficialOwn) EXCEPT !.whole = FALSE]

Moved == [Official EXCEPT !.index[MCParams[1]] = 1]
Lost == [Official EXCEPT !.header[2] =
            [n \in DOMAIN Official.header[2] \ {MCParams[6]} |-> Official.header[2][n]]]
Unlisted == [Official EXCEPT !.whole = FALSE, !.index =
            [n \in DOMAIN Official.index \ {MCParams[6]} |-> Official.index[n]]]
Twice == [Official EXCEPT !.header[1] =
            [n \in DOMAIN @ \cup {MCParams[1]} |->
                IF n = MCParams[1] THEN [start |-> 10, end |-> 11] ELSE @[n]]]
Short(s) == [Official EXCEPT !.size[s] = @ - 1, !.whole = FALSE]
NoScale ==
    [Files(<<ExpertList, SubSeq(OfficialList, 1, 2)>>, OfficialOwn) EXCEPT !.whole = FALSE]

MCCheckpoints ==
    <<Bare, [Bare EXCEPT !.size[1] = 10], Official, Short(1), Face, Uneven, Moved, Lost, Unlisted, Twice, Short(2), NoScale,
      [Official EXCEPT !.stops = TRUE], [Face EXCEPT !.stops = TRUE]>>
MCNames == UNION {DOMAIN MCCheckpoints[k].index : k \in DOMAIN MCCheckpoints}

-----------------------------------------------------------------------------
(* Packed files *)

MCExperts == 1..3
MCLayerOf == <<1, 1, 2>>
MCSize == <<2, 1>>
TensorName(e, c) ==
    CASE e = 1 -> Name("1", "1", c) [] e = 2 -> Name("1", "2", c) [] OTHER -> Name("2", "3", c)
MCSourceOf ==
    <<2, 1>> :> 8 @@ <<1, 1>> :> 2 @@ <<3, 1>> :> 4 @@ <<1, 2>> :> 7
    @@ <<2, 2>> :> 1 @@ <<3, 2>> :> 10
\* Bytes of no tensor, here the header and the gap, are cells 0.
MCShard == <<<<1, 1, 0>>, <<2, 2, 1>>, <<1, 1, 1>>, <<1, 1, 2>>, <<3, 1, 1>>, <<3, 1, 2>>,
             <<1, 1, 0>>, <<1, 2, 1>>, <<2, 1, 1>>, <<2, 1, 2>>, <<3, 2, 1>>>>
MCTrace == <<2, 3, 1, 2>>

BuildAll == [kind |-> "build", dir |-> base, overwrite |-> FALSE, layers |-> {1, 2},
             experts |-> MCExperts, routes |-> FALSE, top |-> 0]
BuildRouted == [BuildAll EXCEPT !.routes = TRUE, !.top = 1]
BuildSecond == [BuildAll EXCEPT !.layers = {2}]
RepackHot == [kind |-> "repack", dir |-> hot, overwrite |-> FALSE, from |-> base,
              order |-> "hot_first"]
Over(cmd) == [cmd EXCEPT !.overwrite = TRUE]
InPlace == [Over(RepackHot) EXCEPT !.dir = base]

Config(jobs, shard, native) == [jobs |-> jobs, shard |-> shard, native |-> native]
\* No packed files: the checkpoint's tools and readers have the run for themselves.
NoPacking == Config({}, 11, TRUE)
MCConfigs ==
    { NoPacking,
      \* a layout and its copy, made once
      Config({BuildAll, RepackHot}, 11, TRUE),
      \* one of the two made again over itself
      Config({Over(BuildAll), RepackHot}, 11, FALSE),
      Config({BuildAll, Over(RepackHot)}, 11, FALSE),
      Config({Over(BuildAll)}, 11, TRUE),
      \* two filters for one directory
      Config({BuildRouted, BuildSecond}, 11, TRUE),
      Config({BuildRouted, Over(BuildRouted)}, 11, TRUE),
      \* a checkpoint that is cut short
      Config({BuildAll, BuildRouted}, 10, TRUE),
      \* another order over the input
      Config({BuildAll, InPlace}, 11, FALSE) }

-----------------------------------------------------------------------------
(* Both together *)

storeVars == <<vars, checkpointVars>>

\* The packed tools run on the bare checkpoint, or on one that is cut short, with as
\* many bytes as their configuration says.
StoreInit ==
    /\ Init /\ CheckpointInit
    /\ config # NoPacking => Input.size[1] = config.shard /\ given \in {1, 2}

\* There no program is killed, and the tensors of the experts are where the packed tools'
\* configuration has them.
ASSUME ExpertPlacesAssumption ==
    \A k \in DOMAIN Checkpoints \cap {1, 2} : LET c == Checkpoints[k] IN
        /\ ~c.stops
        /\ \A e \in MCExperts, i \in {1, 2} : LET n == TensorName(e, i) IN
              /\ n \in DOMAIN c.index /\ c.index[n] = 1
              /\ c.base[1] + c.header[1][n].start = SourceOf[<<e, i>>]
              /\ c.header[1][n].end - c.header[1][n].start = Size[i]

\* The checkpoint's tools.  Where files are packed they run once, before that.
CheckpointStep ==
    /\ config = NoPacking \/ manifest = Absent
    /\ CheckpointNext
    /\ UNCHANGED vars

PackStep ==
    /\ Next
    /\ job.at = "idle" /\ job'.at # "idle" => manifest # Absent
    /\ UNCHANGED checkpointVars

StoreSpec ==
    /\ StoreInit /\ [][CheckpointStep \/ PackStep]_storeVars
    /\ WF_storeVars(Reading /\ UNCHANGED checkpointVars)

\* Type invariant of both.
StoreTypeOK == TypeOK /\ CheckpointTypeOK

\* Where files are packed, the manifest that inspection and conversion made has
\* the place of every tensor that the packed tools copy, and of its size: what
\* PackedLayout assumes of the checkpoint.
ManifestHasExperts ==
    config # NoPacking /\ manifest # Absent =>
        \A e \in MCExperts, c \in {1, 2} :
            \E i \in DOMAIN manifest :
                /\ manifest[i].role = "lazy_routed_expert" /\ manifest[i].shard = 1
                /\ manifest[i].target = TensorName(e, c)
                /\ manifest[i].offset = SourceOf[<<e, c>>] /\ manifest[i].bytes = Size[c]
=============================================================================
