SPECIFICATION Spec
CONSTANTS
    t1 = t1
    t2 = t2
    Tx = {t1, t2}
    SpkOf <- TwoTxs
    ReloadOnError = TRUE
    MaxIndex = 1
    MaxBlocks = 5
    MaxReorgs = 2
    MaxDrops = 1
    MaxFaults = 1
CONSTRAINT FewDisturbances
INVARIANTS
    TypeOK
    SignalSuperset
    StoredMatchesLive
    NoFalsePositives
    NoPhantomAtReturn
    RebuiltGroundTruth
PROPERTIES
    SurvivorsKept
    EvictionReported
