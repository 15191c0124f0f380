------------------------------ MODULE Checkpoint ------------------------------
(***************************************************************************)
(* From the checkpoint's files to the model's parameters:                  *)
(* scripts/inspect_checkpoint.py lists every tensor with its place in a    *)
(* shard, scripts/build_weight_manifest.py gives each the name that the    *)
(* official model has for it, and load_resident_weights                    *)
(* (spark_runtime/lazy_official_runtime.py) fills the parameters by name.  *)
(* scripts/bench_expert_reads.py and bench_packed_expert_layout.py read    *)
(* experts by the places listed.                                           *)
(*                                                                         *)
(* A name is the sequence of its parts, a shard a number in the order of   *)
(* the shards' names.  A byte of a shard is <<shard, position>>.           *)
(***************************************************************************)
EXTENDS Integers, Sequences, FiniteSets

CONSTANTS
    Names,          \* the tensor names that checkpoints may use
    Params,         \* the official model's parameters, in order
    Checkpoints,    \* checkpoints by number, one of which a behaviour has
    Gaps,           \* --max-gaps
    Absent

VARIABLES
    given,      \* the number of the checkpoint
    tool,       \* the program that runs, and where it stands
    csv,        \* checkpoint-tensors.csv
    manifest,   \* weight-manifest.csv
    model       \* which tensors each parameter has been filled from

Elements(s) == {s[i] : i \in DOMAIN s}

checkpointVars == <<given, tool, csv, manifest, model>>

\* A checkpoint has an index (the shard of each name), in each shard a header
\* with the places of its tensors, of which the first is at base; size is the
\* length of the shard's file, and whole says that nothing is missing.  own: the
\* tensors that each parameter should have.  stops: a program may be killed.
ASSUME CheckpointAssumption ==
    \A k \in DOMAIN Checkpoints : LET c == Checkpoints[k] IN
        /\ IsFiniteSet(DOMAIN c.index) /\ DOMAIN c.index \subseteq Names
        /\ \A n \in DOMAIN c.index : c.index[n] \in DOMAIN c.header
        /\ DOMAIN c.header \subseteq Nat
        /\ \A s \in DOMAIN c.header :
              /\ DOMAIN c.header[s] \subseteq Names /\ IsFiniteSet(DOMAIN c.header[s])
              /\ c.base[s] \in Nat /\ c.size[s] \in Nat
              /\ \A n \in DOMAIN c.header[s] :
                    c.header[s][n].start \in Nat /\ c.header[s][n].end \in Nat
        /\ DOMAIN c.own = Elements(Params)
        /\ c.stops \in BOOLEAN /\ c.whole \in BOOLEAN

\* A safetensors file: its tensors have bytes, and no two share any.
ASSUME PlacesAssumption ==
    \A k \in DOMAIN Checkpoints : LET header == Checkpoints[k].header IN
        \A s \in DOMAIN header : \A n, m \in DOMAIN header[s] :
            /\ header[s][n].start < header[s][n].end
            /\ n # m => header[s][n].end <= header[s][m].start
                        \/ header[s][m].end <= header[s][n].start

ASSUME ParamsAssumption ==
    /\ Params \in Seq(Elements(Params))
    /\ Absent \notin Elements(Params) /\ Absent \notin Names
ASSUME GapsAssumption == Gaps \subseteq Nat

Input == Checkpoints[given]

NoTool == [at |-> "idle", left |-> {}, rows |-> {}, next |-> 0,
           ranges |-> {}, gap |-> 0, plan |-> <<>>, offset |-> 0, got |-> <<>>]

NoModel == [p \in Elements(Params) |-> <<>>]

CheckpointInit ==
    /\ given \in DOMAIN Checkpoints
    /\ tool = NoTool /\ csv = Absent /\ manifest = Absent /\ model = NoModel

-----------------------------------------------------------------------------
(* inspect_checkpoint.py *)

\* classify, as far as what follows tells components apart.
Component(n) ==
    CASE Len(n) = 7 /\ n[1] = "layers" /\ n[3] = "ffn" /\ n[4] = "experts" -> "core_routed_experts"
      [] Len(n) = 6 /\ n[1] = "layers" /\ n[4] = "shared_experts" -> "core_shared_experts"
      [] Len(n) > 3 /\ n[1] = "layers" /\ n[3] = "attn" -> "core_attention_dense"
      [] OTHER -> "other"

\* Mutant of Row: places in the shard's data, not in its file.
RowRelative(s, n) ==
    [name |-> n, file |-> s, start |-> Input.header[s][n].start, end |-> Input.header[s][n].end]

\* TensorInfo of a tensor in the header of shard s.
Row(s, n) ==
    [name |-> n, file |-> s,
     start |-> Input.base[s] + Input.header[s][n].start,
     end |-> Input.base[s] + Input.header[s][n].end]

\* x comes before y when rows are sorted by file and position.
Earlier(x, y) == x.file < y.file \/ (x.file = y.file /\ x.start < y.start)

\* A finite set of rows as a sequence, by file and position.
InOrder(S) ==
    [i \in 1..Cardinality(S) |->
        CHOOSE x \in S : Cardinality({y \in S : Earlier(y, x)}) = i - 1]

\* summarize_contiguity: the runs of rows without a gap, which the report gives for
\* a component.
ContiguousRuns(S) ==
    LET s == InOrder(S) IN
    Cardinality({x.file : x \in S})
    + Cardinality({i \in 1..(Len(s) - 1) : s[i].file = s[i + 1].file /\ s[i].end # s[i + 1].start})

Inspect ==
    /\ tool.at = "idle"
    /\ tool' = [NoTool EXCEPT !.at = "headers",
                   !.left = {Input.index[n] : n \in DOMAIN Input.index}]
    /\ UNCHANGED <<given, csv, manifest, model>>

\* The index maps every tensor in the header of shard s to s.
Indexed(s) ==
    \A n \in DOMAIN Input.header[s] : n \in DOMAIN Input.index /\ Input.index[n] = s

\* The header of the next shard is read; one that the index contradicts raises.
ReadHeader ==
    /\ tool.at = "headers"
    /\ \E s \in tool.left :
          /\ \A t \in tool.left : s <= t
          /\ tool' = IF Indexed(s)
                     THEN [tool EXCEPT !.left = @ \ {s},
                              !.rows = @ \cup {Row(s, n) : n \in DOMAIN Input.header[s]}]
                     ELSE NoTool
    /\ UNCHANGED <<given, csv, manifest, model>>

\* Mutant of Accept: the counts are not compared.
AcceptAny ==
    /\ tool.at = "headers" /\ tool.left = {}
    /\ tool' = [tool EXCEPT !.at = "csv"]
    /\ UNCHANGED <<given, csv, manifest, model>>

\* All shards are read: as many tensors as the index has, or it raises.
Accept ==
    /\ tool.at = "headers" /\ tool.left = {}
    /\ tool' = IF Cardinality(tool.rows) = Cardinality(DOMAIN Input.index)
               THEN [tool EXCEPT !.at = "csv"] ELSE NoTool
    /\ UNCHANGED <<given, csv, manifest, model>>

\* write_csv.  Killed, it has written some of the rows.
WriteCsv ==
    /\ tool.at = "csv"
    /\ \E n \in 0..Cardinality(tool.rows) :
          /\ Input.stops \/ n = Cardinality(tool.rows)
          /\ csv' = SubSeq(InOrder(tool.rows), 1, n)
    /\ tool' = NoTool
    /\ UNCHANGED <<given, manifest, model>>

-----------------------------------------------------------------------------
(* build_weight_manifest.py *)

\* The names in MAPPING that change.
MAPPING ==
    [embed_tokens |-> "embed", input_layernorm |-> "attn_norm",
     post_attention_layernorm |-> "ffn_norm", q_proj |-> "wq", q_a_proj |-> "wq_a",
     q_a_layernorm |-> "q_norm", q_b_proj |-> "wq_b", kv_a_proj_with_mqa |-> "wkv_a",
     kv_a_layernorm |-> "kv_norm", kv_b_proj |-> "wkv_b", o_proj |-> "wo",
     gate_proj |-> "w1", down_proj |-> "w2", up_proj |-> "w3", lm_head |-> "head"]

\* The parts that are replaced in every name.
Everywhere ==
    [self_attn |-> "attn", mlp |-> "ffn", weight_scale_inv |-> "scale",
     e_score_correction_bias |-> "bias"]

Through(f, x) == IF x \in DOMAIN f THEN f[x] ELSE x

\* Tensors that are not called something.weight or something.scale.
Plain == {"attn_sink", "ape", "hc_attn_base", "hc_attn_fn", "hc_attn_scale",
          "hc_ffn_base", "hc_ffn_fn", "hc_ffn_scale", "hc_head_base", "hc_head_fn", "hc_head_scale"}

\* The part of a name that MAPPING is asked for.
Key(name) == IF name[Len(name)] \in Plain THEN name[Len(name)] ELSE name[Len(name) - 1]

\* converted_name: the official model's name of a tensor, or Absent.
ConvertedName(source) ==
    LET stripped == IF source[1] = "model" THEN Tail(source) ELSE source
        name == [i \in DOMAIN stripped |-> Through(Everywhere, stripped[i])]
        parts == {stripped[i] : i \in DOMAIN stripped}
    IN IF /\ stripped[1] = "mtp"
          /\ \/ parts \cap {"emb", "embed", "embed_tokens"} # {}
             \/ name[Len(name)] = "weight" /\ name[Len(name) - 1] \in {"head", "lm_head"}
       THEN Absent
       ELSE [i \in DOMAIN name |-> IF name[i] = Key(name) THEN Through(MAPPING, name[i]) ELSE name[i]]

\* .attn.wo_a. is inside the name, and what comes after it.
WoA(name, last) ==
    LET n == Len(name) IN n > 3 /\ name[n - 2] = "attn" /\ name[n - 1] = "wo_a" /\ name[n] = last

\* role_for_target, and transform_for without the number format.
Role(name) ==
    CASE name = Absent -> "skipped"
      [] \E i \in 2..Len(name) - 2 : name[i] = "ffn" /\ name[i + 1] = "experts" -> "lazy_routed_expert"
      [] WoA(name, "scale") -> "consumed_by_wo_a_convert"
      [] OTHER -> "resident"

Transform(name) ==
    CASE name = Absent -> "skip"
      [] Role(name) = "consumed_by_wo_a_convert" -> "consume_scale_for_wo_a_bf16"
      [] name # Absent /\ WoA(name, "weight") -> "fp8_scaled_to_bf16"
      [] OTHER -> "copy"

ManifestRow(row) ==
    LET target == ConvertedName(row.name) IN
    [source |-> row.name, target |-> target, role |-> Role(target), transform |-> Transform(target),
     shard |-> row.file, offset |-> row.start, bytes |-> row.end - row.start]

\* The manifest is written.  Killed, it has written some of the rows.
BuildManifest ==
    /\ tool.at = "idle" /\ csv # Absent
    /\ \E n \in 0..Len(csv) :
          /\ Input.stops \/ n = Len(csv)
          /\ manifest' = [i \in 1..n |-> ManifestRow(csv[i])]
    /\ UNCHANGED <<given, tool, csv, model>>

-----------------------------------------------------------------------------
(* WeightStore and load_resident_weights *)

\* Mutant of RowsFor: looks for the name that the tensor has in the checkpoint.
RowsForSource(p) == {i \in DOMAIN manifest : manifest[i].source = p}

\* The rows of a parameter.  rows_by_target keeps the last one.
RowsFor(p) == {i \in DOMAIN manifest : manifest[i].target = p}

Lookup(p) == manifest[CHOOSE i \in RowsFor(p) : \A j \in RowsFor(p) : j <= i]

\* safe_open refuses a shard that is shorter than its header says; get_tensor
\* finds a tensor by its name.
Readable(row) ==
    LET s == row.shard IN
    /\ row.source \in DOMAIN Input.header[s]
    /\ \A n \in DOMAIN Input.header[s] : Row(s, n).end <= Input.size[s]

\* A server starts to load the model.
Load ==
    /\ tool.at = "idle" /\ manifest # Absent
    /\ tool' = [NoTool EXCEPT !.at = "load", !.next = 1]
    /\ model' = NoModel
    /\ UNCHANGED <<given, csv, manifest>>

Param == Params[tool.next]
ScaleOf(name) == [name EXCEPT ![Len(name)] = "scale"]

\* The loop over named_parameters goes on.
LoadedNext == tool' = [tool EXCEPT !.next = @ + 1]

\* A parameter without a row is counted as missing, and stays as it is; so does
\* a routed expert's, which the lazy loader will bring.
SkipParam ==
    /\ tool.at = "load" /\ tool.next <= Len(Params)
    /\ RowsFor(Param) # {} => Lookup(Param).role = "lazy_routed_expert"
    /\ LoadedNext
    /\ UNCHANGED <<given, csv, manifest, model>>

\* A tensor is copied, or wo_a converted with its scale.
CopyParam ==
    /\ tool.at = "load" /\ tool.next <= Len(Params)
    /\ RowsFor(Param) # {} /\ Lookup(Param).role # "lazy_routed_expert"
    /\ LET row == Lookup(Param)
           scale == ScaleOf(Param)
       IN /\ Readable(row)
          /\ \/ /\ row.transform = "copy"
                /\ model' = [model EXCEPT ![Param] = <<row.source>>]
             \/ /\ row.transform = "fp8_scaled_to_bf16"
                /\ RowsFor(scale) # {} /\ Readable(Lookup(scale))
                /\ model' = [model EXCEPT ![Param] = <<row.source, Lookup(scale).source>>]
    /\ LoadedNext
    /\ UNCHANGED <<given, csv, manifest>>

\* Loading raises: a transform it does not expect, a scale without a row, a shard
\* that does not have the tensor.
LoadRaises ==
    /\ tool.at = "load" /\ tool.next <= Len(Params)
    /\ RowsFor(Param) # {} /\ Lookup(Param).role # "lazy_routed_expert"
    /\ LET row == Lookup(Param)
           scale == ScaleOf(Param)
       IN \/ row.transform \notin {"copy", "fp8_scaled_to_bf16"}
          \/ ~Readable(row)
          \/ /\ row.transform = "fp8_scaled_to_bf16"
             /\ RowsFor(scale) # {} => ~Readable(Lookup(scale))
    /\ tool' = NoTool /\ model' = NoModel
    /\ UNCHANGED <<given, csv, manifest>>

\* own is what the names say: for a resident parameter the tensor that is renamed to it,
\* with the scale of one that is converted; for any other parameter, nothing.
ASSUME OwnAssumption ==
    \A k \in DOMAIN Checkpoints :
        LET c == Checkpoints[k]
            Sources(p) == {n \in DOMAIN c.index : ConvertedName(n) = p}
            IsLazy(p) == Role(p) = "lazy_routed_expert"
        IN \A p \in Elements(Params) :
              /\ ~IsLazy(p) /\ Transform(p) = "copy" => \A n \in Sources(p) : c.own[p] = <<n>>
              /\ ~IsLazy(p) /\ Transform(p) = "fp8_scaled_to_bf16" =>
                    \A n \in Sources(p), m \in Sources(ScaleOf(p)) : c.own[p] = <<n, m>>
              /\ c.whole /\ (IsLazy(p) \/ Sources(p) = {}) => c.own[p] = <<>>

Loaded == tool.at = "load" /\ tool.next > Len(Params)

\* The server ends.
Unload ==
    /\ Loaded /\ tool' = NoTool /\ model' = NoModel
    /\ UNCHANGED <<given, csv, manifest>>

-----------------------------------------------------------------------------
(* bench_expert_reads.py *)

Larger(a, b) == IF a >= b THEN a ELSE b

\* A finite set of ranges in order, with neighbours merged where Joins says so.
Merged(S, Joins(_, _)) ==
    LET s == InOrder(S)
        upTo[k \in 0..Len(s)] ==
            IF k = 0 THEN <<>>
            ELSE LET m == upTo[k - 1] IN
                 IF m # <<>> /\ Joins(m[Len(m)], s[k])
                 THEN [m EXCEPT ![Len(m)].end = Larger(@, s[k].end)]
                 ELSE Append(m, s[k])
    IN upTo[Len(s)]

\* Mutant of Coalesce: ranges that touch are not merged.
CoalesceOverlapping(S, gap) == Merged(S, LAMBDA x, y : y.file = x.file /\ y.start < x.end + gap)

\* coalesce_ranges.
Coalesce(S, gap) == Merged(S, LAMBDA x, y : y.file = x.file /\ y.start <= x.end + gap)

ReadRange(row) == [file |-> row.file, start |-> row.start, end |-> row.end]

RoutedRows(rows) == {x \in rows : Component(x.name) = "core_routed_experts"}
Listed == Elements(csv)

\* ranges_for_experts, and ranges_for_layer when all experts are wanted.
Ranges(layer, experts) ==
    {ReadRange(x) : x \in {y \in RoutedRows(Listed) : y.name[2] = layer /\ y.name[5] \in experts}}

\* A scenario: some experts of a layer.
PlanReads(layer, experts, gap) ==
    /\ tool.at = "idle" /\ csv # Absent
    /\ LET ranges == Ranges(layer, experts)
           plan == Coalesce(ranges, gap)
       IN /\ ranges # {}
          /\ tool' = [NoTool EXCEPT !.at = "read", !.ranges = ranges, !.gap = gap,
                         !.plan = plan, !.next = 1, !.offset = plan[1].start]
    /\ UNCHANGED <<given, csv, manifest, model>>

\* Mutant of ReadOn: goes on to the next range, however short the read.
ReadOnWhole(n) ==
    LET range == tool.plan[tool.next] IN
    tool' = [tool EXCEPT
        !.got = Append(@, [file |-> range.file, start |-> tool.offset, end |-> tool.offset + n]),
        !.next = @ + 1,
        !.offset = IF tool.next < Len(tool.plan) THEN tool.plan[tool.next + 1].start ELSE 0]

\* The plan goes on behind the n bytes at offset of its range.
ReadOn(n) ==
    LET range == tool.plan[tool.next]
        over == tool.offset + n = range.end
    IN tool' = [tool EXCEPT
           !.got = Append(@, [file |-> range.file, start |-> tool.offset, end |-> tool.offset + n]),
           !.next = IF over THEN @ + 1 ELSE @,
           !.offset = IF ~over THEN @ + n
                      ELSE IF tool.next < Len(tool.plan) THEN tool.plan[tool.next + 1].start ELSE 0]

\* pread, or a slice of the mapping, brings some of what is left; nothing at the
\* end of the file, which raises.
ReadChunk ==
    /\ tool.at = "read" /\ tool.next <= Len(tool.plan)
    /\ LET range == tool.plan[tool.next] IN
       IF tool.offset < Input.size[range.file]
       THEN \E n \in 1..(range.end - tool.offset) :
               tool.offset + n <= Input.size[range.file] /\ ReadOn(n)
       ELSE tool' = NoTool
    /\ UNCHANGED <<given, csv, manifest, model>>

HasRead == tool.at = "read" /\ tool.next > Len(tool.plan)

EndReads ==
    /\ HasRead /\ tool' = NoTool
    /\ UNCHANGED <<given, csv, manifest, model>>

-----------------------------------------------------------------------------
(* bench_packed_expert_layout.py *)

\* The rows of a routed expert, and their order by source_name.
Block(layer, expert) ==
    {i \in DOMAIN manifest :
        /\ manifest[i].role = "lazy_routed_expert"
        /\ LET n == manifest[i].source IN n[1] = "layers" /\ n[2] = layer /\ n[5] = expert}

\* The names of the routed experts' tensors.
ASSUME ExpertNamesAssumption ==
    \A n \in Names : n[1] = "layers" /\ Role(ConvertedName(n)) = "lazy_routed_expert" =>
        /\ n = <<"layers", n[2], "ffn", "experts", n[5], n[6], n[7]>>
        /\ n[6] \in {"w1", "w2", "w3"} /\ n[7] \in {"scale", "weight"}

NameRank(n) ==
    LET matrix == [w1 |-> 0, w2 |-> 2, w3 |-> 4]
        kind == [scale |-> 0, weight |-> 1]
    IN matrix[n[6]] + kind[n[7]]

\* The bytes of sequences of bytes, one after another.
Concat(seqs) ==
    LET upTo[k \in 0..Len(seqs)] == IF k = 0 THEN <<>> ELSE upTo[k - 1] \o seqs[k]
    IN upTo[Len(seqs)]

\* The bytes of an expert, as load_manifest orders its tensors.
ExpertBytes(layer, expert) ==
    LET rows == Block(layer, expert)
        Rank(i) == Cardinality({j \in rows : NameRank(manifest[j].source) < NameRank(manifest[i].source)})
        nth == [k \in 1..Cardinality(rows) |-> manifest[CHOOSE i \in rows : Rank(i) = k - 1]]
    IN Concat([k \in DOMAIN nth |->
           [b \in 1..nth[k].bytes |-> <<nth[k].shard, nth[k].offset + b>>]])

\* build_packed for one layer, and the ranges that main reads from its file: slots
\* of the first expert's size.  A short read, of a shard or of the file, raises.
PackExperts(layer, experts) ==
    /\ tool.at = "idle" /\ manifest # Absent
    /\ LET blocks == [i \in DOMAIN experts |-> ExpertBytes(layer, experts[i])]
           size == Len(blocks[1])
       IN /\ \A i \in DOMAIN blocks : \A b \in DOMAIN blocks[i] :
                blocks[i][b][2] <= Input.size[blocks[i][b][1]]
          /\ size * Len(experts) <= Len(Concat(blocks))
          /\ tool' = [NoTool EXCEPT !.at = "packed", !.got = Concat(blocks),
                         !.plan = [i \in DOMAIN experts |->
                             [layer |-> layer, expert |-> experts[i],
                              start |-> (i - 1) * size, end |-> i * size]]]
    /\ UNCHANGED <<given, csv, manifest, model>>

EndPacked ==
    /\ tool.at = "packed" /\ tool' = NoTool
    /\ UNCHANGED <<given, csv, manifest, model>>

\* coalesce, which has no gaps.
CoalesceTouching(S) == Merged(S, LAMBDA x, y : y.file = x.file /\ x.end = y.start)

-----------------------------------------------------------------------------
\* The routed experts, by layer.
Routed == {n \in Names : Component(n) = "core_routed_experts"}
RoutedLayers == {n[2] : n \in Routed}
ExpertsOf(layer) == {n[5] : n \in {m \in Routed : m[2] = layer}}

Inspection == Inspect \/ ReadHeader \/ Accept \/ WriteCsv \/ BuildManifest
Loading == Load \/ SkipParam \/ CopyParam \/ LoadRaises \/ Unload
Benchmarks ==
    \/ \E layer \in RoutedLayers, gap \in Gaps : \E experts \in SUBSET ExpertsOf(layer) :
          PlanReads(layer, experts, gap)
    \/ ReadChunk \/ EndReads
    \/ \E layer \in RoutedLayers : \E e, f \in ExpertsOf(layer) :
          PackExperts(layer, IF e = f THEN <<e>> ELSE <<e, f>>)
    \/ EndPacked

CheckpointNext == Inspection \/ Loading \/ Benchmarks

CheckpointSpec == CheckpointInit /\ [][CheckpointNext]_checkpointVars
-----------------------------------------------------------------------------
(* Properties *)

\* Type invariant: the files and the programs' loops have values of their kinds.
CheckpointTypeOK ==
    /\ given \in DOMAIN Checkpoints
    /\ tool.at \in {"idle", "headers", "csv", "load", "read", "packed"}
    /\ tool.left \subseteq DOMAIN Input.header
    /\ \A x \in tool.rows : x.name \in Names /\ x.file \in DOMAIN Input.header
    /\ tool.at = "load" => tool.next \in 1..(Len(Params) + 1)
    /\ tool.at = "read" => tool.next \in 1..(Len(tool.plan) + 1) /\ tool.offset \in Nat
    /\ csv # Absent => \A i \in 1..Len(csv) : csv[i].name \in Names
    /\ manifest # Absent => \A i \in 1..Len(manifest) : manifest[i].source \in Names
    /\ DOMAIN model = Elements(Params)

\* What inspection accepts is the index: it has one row for each name, in the
\* shard that the index gives it, at the place that the shard's header gives.
\* Tensors that are missing, moved, or in two shards do not get this far.
AcceptedIsIndex ==
    tool.at = "csv" =>
        /\ \A n \in DOMAIN Input.index : n \in DOMAIN Input.header[Input.index[n]]
        /\ tool.rows = {Row(Input.index[n], n) : n \in DOMAIN Input.index}

\* Whatever is filled is filled right: by the parameter's own tensors, converted
\* with its own scale, even when the tables are cut off.
FilledIsOwn ==
    \A p \in DOMAIN model : model[p] # <<>> => model[p] = Input.own[p]

\* If no program was killed, and the checkpoint has every tensor the model
\* needs, the model is loaded with no parameter left uninitialised: a missing row
\* is only counted (counts["missing"]), nothing stops the server.
NothingLeftEmpty ==
    Loaded /\ Input.whole /\ ~Input.stops =>
        \A p \in DOMAIN model : model[p] = Input.own[p]

\* What the server computes with is the checkpoint: nothing is filled wrong, and
\* nothing is left empty that the checkpoint has.
LoadedRight == FilledIsOwn /\ NothingLeftEmpty

\* The three computations of contiguous runs agree: without gaps, the reads that
\* each benchmark merges are the runs that inspection counts.
RunsAgree ==
    tool.at = "read" /\ tool.gap = 0 =>
        /\ tool.plan = CoalesceTouching(tool.ranges)
        /\ Len(tool.plan) = ContiguousRuns(tool.ranges)

Bytes(S) == UNION {{<<x.file, b>> : b \in x.start..(x.end - 1)} : x \in S}

\* A plan covers what is wanted, its ranges neither overlap nor could they still
\* be merged, and what it reads besides lies in gaps of at most max_gap bytes.
PlanCovers ==
    tool.at = "read" =>
        LET wanted == Bytes(tool.ranges)
            plan == tool.plan
        IN /\ wanted \subseteq Bytes(Elements(plan))
           /\ \A i \in 1..(Len(plan) - 1) :
                 /\ Earlier(plan[i], plan[i + 1])
                 /\ plan[i].file = plan[i + 1].file => plan[i].end + tool.gap < plan[i + 1].start
           /\ \A b \in Bytes(Elements(plan)) :
                 \E k \in 0..tool.gap : <<b[1], b[2] - k>> \in wanted

\* The plan of a benchmark is right, whatever the ranges that it merges.
PlanIsRight == RunsAgree /\ PlanCovers

\* However short the reads, a benchmark that ends has read its plan: every byte,
\* once, in order.
ReadIsPlan ==
    HasRead => Concat([i \in DOMAIN tool.got |->
                   [b \in 1..(tool.got[i].end - tool.got[i].start) |->
                       <<tool.got[i].file, tool.got[i].start + b>>]])
               = Concat([i \in DOMAIN tool.plan |->
                   [b \in 1..(tool.plan[i].end - tool.plan[i].start) |->
                       <<tool.plan[i].file, tool.plan[i].start + b>>]])

\* The packed benchmark reads the experts that it names, if they are of one size.
PackedRangesHold ==
    tool.at = "packed" /\ (\A x, y \in Elements(tool.plan) :
        Len(ExpertBytes(x.layer, x.expert)) = Len(ExpertBytes(y.layer, y.expert)))
    => \A x \in Elements(tool.plan) :
          SubSeq(tool.got, x.start + 1, x.end) = ExpertBytes(x.layer, x.expert)

\* A benchmark that ends has read what it says that it reads.
ReadsItsRanges == ReadIsPlan /\ PackedRangesHold
=============================================================================
