SPECIFICATION FairSpec
CONSTANTS
    Experts <- MCExperts
    LayerOf <- MCLayerOf
    Modules = {m1, m2, m3, m4, m5, m6}
    Main = main
    Workers = {w1, w2}
    Configs <- MCQueuedPrefetch
    None = None
INVARIANT ComputeUsesOwnWeights
