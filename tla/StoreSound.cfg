SPECIFICATION StoreSpec
CONSTANTS
    base = base
    hot = hot
    Experts <- MCExperts
    LayerOf <- MCLayerOf
    Components = {1, 2}
    Size <- MCSize
    Shard <- MCShard
    SourceOf <- MCSourceOf
    Trace <- MCTrace
    Dirs = {base, hot}
    Configs <- MCConfigs
    None = None
    Names <- MCNames
    Params <- MCParams
    Checkpoints <- MCCheckpoints
    Gaps = {0, 1}
    Absent = Absent
INVARIANTS StoreTypeOK LayoutsRight ReadsRight ManifestHasExperts AcceptedIsIndex LoadedRight PlanIsRight ReadsItsRanges
PROPERTIES PublishedIsKept ReadEnds
