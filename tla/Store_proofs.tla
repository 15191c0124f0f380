---------------------------- MODULE Store_proofs ----------------------------
(***************************************************************************)
(* The packed tools and the checkpoint's tools together, on one disk: what *)
(* is proved of each alone (PackedLayout_proofs, Checkpoint_proofs) holds  *)
(* of both, since a step of the one leaves the files and the state of the  *)
(* other alone.                                                            *)
(***************************************************************************)
EXTENDS MCStore, PackedLayout_proofs, Checkpoint_proofs

\* A step of both is one of the packed tools, or leaves them as they are.
LEMMA PackedSteps == [CheckpointStep \/ PackStep]_storeVars => [Next]_vars
    BY DEF CheckpointStep, PackStep, storeVars

\* A step of both is one of the checkpoint's tools, or leaves them as they are.
LEMMA CheckpointSteps == [CheckpointStep \/ PackStep]_storeVars => [CheckpointNext]_checkpointVars
    BY DEF CheckpointStep, PackStep, storeVars

\* build_packed_expert_layout.py and repack_packed_expert_layout.py do nothing, beside the
\* checkpoint's tools, that they would not do alone: that they wait for a manifest only
\* takes behaviours away.
THEOREM StoreImplementsPacking == StoreSpec => Spec
<1>1. StoreInit => Init
    BY DEF StoreInit
<1>2. QED
    BY <1>1, PackedSteps, PTL DEF StoreSpec, Spec

\* inspect_checkpoint.py, the manifest's builder, the server's loading and the benchmarks
\* do nothing, beside the packed tools, that they would not do alone.
THEOREM StoreImplementsCheckpoint == StoreSpec => CheckpointSpec
<1>1. StoreInit => CheckpointInit
    BY DEF StoreInit
<1>2. QED
    BY <1>1, CheckpointSteps, PTL DEF StoreSpec, CheckpointSpec

\* Type invariant of both: the packed files, the reader, the tables and the parameters.
THEOREM StoreTypesTogether == StoreSpec => []StoreTypeOK
<1>1. TypeOK /\ CheckpointTypeOK => StoreTypeOK
    BY DEF StoreTypeOK
<1>2. QED
    BY <1>1, StoreImplementsPacking, StoreImplementsCheckpoint, StoreTypes, CheckpointTypes, PTL

\* What the two write and read is right while both run: a layout that is on disk is right
\* (LayoutsRight), an expert that is read from it is the one asked for (ReadsRight), and
\* what is inspected, loaded and planned is the checkpoint (AcceptedIsIndex, LoadedRight,
\* PlanIsRight, ReadsItsRanges).
THEOREM StoreStaysRight ==
    StoreSpec => [](/\ LayoutsRight /\ ReadsRight
                    /\ AcceptedIsIndex /\ LoadedRight /\ PlanIsRight /\ ReadsItsRanges)
<1>1. StoreSpec => []LayoutsRight /\ []ReadsRight
    BY StoreImplementsPacking, LayoutsAreRight, StoreReadsRight
<1>2. StoreSpec => []AcceptedIsIndex /\ []LoadedRight /\ []PlanIsRight /\ []ReadsItsRanges
    BY StoreImplementsCheckpoint, AcceptedIsAlwaysIndex, LoadsRight, PlansRight, ReadsRanges
<1>3. QED
    BY <1>1, <1>2, PTL

\* Where no command says --overwrite, a layout that exists, and the packed files beside it,
\* stay as they are (PublishedIsKept), while the checkpoint's tools run beside the packers.
THEOREM StoreKeepsPublished == StoreSpec => PublishedIsKept
    BY StoreImplementsPacking, PublishedKept

-----------------------------------------------------------------------------
(* The places of the experts *)

\* The names of the experts' tensors are the official model's: they stay as they are.
LEMMA ExpertTargets ==
    ASSUME NEW e \in MCExperts, NEW c \in {1, 2}, TensorName(e, c) \in Names
    PROVE  LET n == TensorName(e, c) IN
           ConvertedName(n) = n /\ Role(n) = "lazy_routed_expert"
<1> DEFINE n == TensorName(e, c)
           w == n[5]
<1>1. PICK l \in {"1", "2"}, x \in {"1", "2", "3"}, kind \in {"scale", "weight"} :
         n = <<"layers", l, "ffn", "experts", x, "w1", kind>>
    BY DEF MCExperts, TensorName, Name, Routed1
<1> HIDE DEF n
<1>2. \A i \in 1..7 : Through(Everywhere, n[i]) = n[i]
    BY <1>1 DEF Through, Everywhere
<1>3. /\ Len(n) = 7 /\ DOMAIN n = 1..7 /\ n = [i \in 1..7 |-> n[i]]
      /\ n[1] = "layers" /\ n[3] = "ffn" /\ n[4] = "experts" /\ n[6] = "w1"
      /\ n[7] \in {"scale", "weight"}
  <2>1. n \in Seq({"layers", "1", "2", "3", "ffn", "experts", "w1", "scale", "weight"})
    BY <1>1
  <2>2. Len(n) = 7
    BY <1>1
  <2>3. QED
    BY <1>1, <2>1, <2>2
<1>4. [i \in DOMAIN n |-> Through(Everywhere, n[i])] = n
  <2>1. [i \in DOMAIN n |-> Through(Everywhere, n[i])] = [i \in 1..7 |-> n[i]]
    BY <1>2, <1>3, Zenon
  <2>2. QED
    BY <1>3, <2>1
<1>5. Key(n) = "w1"
    BY <1>3 DEF Key, Plain
<1>6. \A i \in 1..7 : (IF n[i] = Key(n) THEN Through(MAPPING, n[i]) ELSE n[i]) = n[i]
    BY <1>5 DEF Through, MAPPING
<1>7. ConvertedName(n) = n
  <2>1. [i \in DOMAIN n |-> IF n[i] = Key(n) THEN Through(MAPPING, n[i]) ELSE n[i]]
         = [i \in 1..7 |-> n[i]]
    BY <1>3, <1>6, Zenon
  <2>2. (IF n[1] = "model" THEN Tail(n) ELSE n) = n /\ n[1] # "mtp"
    BY <1>3
  <2> DEFINE Part(s) == {s[i] : i \in DOMAIN s}
             Everyone(s) == [i \in DOMAIN s |-> Through(Everywhere, s[i])]
             Mapped(t) == [i \in DOMAIN t |-> IF t[i] = Key(t) THEN Through(MAPPING, t[i]) ELSE t[i]]
             Left(s, t) ==
                /\ s[1] = "mtp"
                /\ \/ Part(s) \cap {"emb", "embed", "embed_tokens"} # {}
                   \/ t[Len(t)] = "weight" /\ t[Len(t) - 1] \in {"head", "lm_head"}
             Converted(s) == IF Left(s, Everyone(s)) THEN Absent ELSE Mapped(Everyone(s))
  <2>3. ConvertedName(n) = Converted(IF n[1] = "model" THEN Tail(n) ELSE n)
    BY Zenon DEF ConvertedName
  <2>4. Mapped(n) = n
    BY <1>3, <2>1
  <2>5. ~Left(n, n)
    BY <2>2
  <2>6. Everyone(n) = n
    BY <1>4
  <2> HIDE DEF Left, Mapped, Everyone
  <2>7. Converted(n) = n
    BY <2>4, <2>5, <2>6
  <2> HIDE DEF Converted
  <2>8. QED
    BY <2>2, <2>3, <2>7
<1>8. n # Absent
  <2>1. n \in Names
    BY DEF n
  <2>2. QED
    BY <2>1, ParamsAssumption
<1>9. Role(n) = "lazy_routed_expert"
  <2>1. 3 \in 2..(Len(n) - 2) /\ n[3] = "ffn" /\ n[3 + 1] = "experts"
    BY <1>3
  <2>2. \E i \in 2..Len(n) - 2 : n[i] = "ffn" /\ n[i + 1] = "experts"
    BY <2>1
  <2>3. ~WoA(n, "scale")
    BY <1>3 DEF WoA
  <2>4. QED
    BY <1>8, <2>2, <2>3 DEF Role
<1>10. QED
    BY <1>7, <1>9 DEF n

\* Neither side changes the scenario: the configuration and the checkpoint stay.
LEMMA ScenarioStays ==
    ASSUME CheckpointInv, [CheckpointStep \/ PackStep]_storeVars
    PROVE  config' = config /\ given' = given
<1>1. CASE CheckpointStep
  <2>1. config' = config
    BY <1>1 DEF CheckpointStep, vars
  <2>2. given' = given
    BY <1>1, TablesStep DEF CheckpointStep, CheckpointInv
  <2>3. QED
    BY <2>1, <2>2
<1>2. CASE PackStep
  <2>1. given' = given
    BY <1>2 DEF PackStep, checkpointVars
  <2>2. ASSUME Writing \/ Die PROVE config' = config
    BY <2>2 DEF Writing, OpenLayer, NextExpert, WriteTensor, WriteBlock, CloseLayer, Publish, Die
  <2>3. ASSUME Reading \/ CloseStore PROVE config' = config
    BY <2>3 DEF Reading, ReadSome, ReadNothing, CheckRead, Return, CloseStore
  <2>4. ASSUME NEW e \in Experts, Ask(e) \/ FallBack(e) PROVE config' = config
    BY <2>4 DEF Ask, FallBack
  <2>5. ASSUME NEW d \in Dirs, OpenStore(d) PROVE config' = config
    BY <2>5 DEF OpenStore
  <2>6. ASSUME NEW cmd \in config.jobs, Begin(cmd) PROVE config' = config
    BY <2>6 DEF Begin
  <2>7. Next
    BY <1>2 DEF PackStep
  <2>8. config' = config
    BY <2>2, <2>3, <2>4, <2>5, <2>6, <2>7, Zenon DEF Next
  <2>9. QED
    BY <2>1, <2>8
<1>3. CASE UNCHANGED storeVars
    BY <1>3 DEF storeVars, vars, checkpointVars
<1>4. QED
    BY <1>1, <1>2, <1>3

\* Where files are packed, the checkpoint is one of those whose places are known.
Packable == config # NoPacking => given \in {1, 2}

\* Inspection accepts no checkpoint without the experts' rows, and no program is killed:
\* the manifest that is there has them all.
LEMMA ManifestIsOfExperts ==
    ASSUME CheckpointInv, Packable
    PROVE  ManifestHasExperts
<1> SUFFICES ASSUME config # NoPacking, manifest # Absent, NEW e \in MCExperts, NEW c \in {1, 2}
             PROVE  \E i \in DOMAIN manifest :
                       /\ manifest[i].role = "lazy_routed_expert" /\ manifest[i].shard = 1
                       /\ manifest[i].target = TensorName(e, c)
                       /\ manifest[i].offset = SourceOf[<<e, c>>] /\ manifest[i].bytes = Size[c]
    BY DEF ManifestHasExperts
<1> DEFINE n == TensorName(e, c)
           row == Row(1, n)
<1>1. /\ given \in {1, 2} /\ given \in DOMAIN Checkpoints
      /\ Found = DOMAIN Input.index
      /\ ~Input.stops => \A x \in Table : \E i \in DOMAIN manifest : manifest[i] = ManifestRow(x)
    BY DEF Packable, CheckpointInv, ListInv, TablesInv, ManifestInv, Accepted
<1>2. /\ ~Input.stops /\ n \in DOMAIN Input.index /\ Input.index[n] = 1
      /\ Input.base[1] + Input.header[1][n].start = SourceOf[<<e, c>>]
      /\ Input.header[1][n].end - Input.header[1][n].start = Size[c]
    BY <1>1, ExpertPlacesAssumption DEF Input
<1>3. n \in Names
    BY <1>1, <1>2, CheckpointAssumption DEF Input
<1>4. row \in Table
    BY <1>1, <1>2 DEF Table
<1>5. PICK i \in DOMAIN manifest : manifest[i] = ManifestRow(row)
    BY <1>1, <1>2, <1>4
<1>6. /\ row.name = n /\ row.file = 1
      /\ row.start = Input.base[1] + Input.header[1][n].start
      /\ row.end = Input.base[1] + Input.header[1][n].end
    BY DEF Row
<1>7. ConvertedName(n) = n /\ Role(n) = "lazy_routed_expert"
    BY <1>3, ExpertTargets
<1>8. /\ Input.base[1] \in Int /\ Input.header[1][n].start \in Int /\ Input.header[1][n].end \in Int
  <2>1. 1 \in DOMAIN Input.header /\ n \in DOMAIN Input.header[1]
    BY <1>1, <1>2, CheckpointAssumption DEF Input, Found
  <2>2. QED
    BY <1>1, <2>1, CheckpointAssumption DEF Input
<1>9. row.end - row.start = Size[c] /\ row.start = SourceOf[<<e, c>>]
    BY <1>2, <1>6, <1>8
<1> HIDE DEF n, row
<1>10. /\ manifest[i].role = "lazy_routed_expert" /\ manifest[i].shard = 1
       /\ manifest[i].target = n
       /\ manifest[i].offset = SourceOf[<<e, c>>] /\ manifest[i].bytes = Size[c]
    BY <1>5, <1>6, <1>7, <1>9 DEF ManifestRow
<1>11. QED
    BY <1>10 DEF n

\* What PackedLayout assumes of the checkpoint is what inspect_checkpoint.py and
\* build_weight_manifest.py deliver (ManifestHasExperts): a place in the manifest for
\* every tensor that the packed tools copy, where the checkpoint has it.
THEOREM ManifestServesPacking == StoreSpec => []ManifestHasExperts
<1>1. StoreInit => Packable
    BY DEF StoreInit, Packable
<1>2. CheckpointInv /\ Packable /\ [CheckpointStep \/ PackStep]_storeVars => Packable'
    BY ScenarioStays DEF Packable
<1>3. CheckpointInv /\ Packable => ManifestHasExperts
    BY ManifestIsOfExperts
<1>4. StoreSpec => []CheckpointInv
    BY StoreImplementsCheckpoint, InvAlways, PTL
<1>5. QED
    BY <1>1, <1>2, <1>3, <1>4, PTL DEF StoreSpec
=============================================================================
