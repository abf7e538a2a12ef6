SPECIFICATION FairSpec
CONSTANTS
    t1 = t1
    t2 = t2
    Tx = {t1}
    SpkOf <- OneTx
    ReloadOnError = FALSE
    MaxIndex = 1
    MaxBlocks = 7
    MaxReorgs = 1
    MaxDrops = 0
    MaxFaults = 1
PROPERTIES
    SelfHeals
    NeverALoop
