SPECIFICATION Spec
CONSTANTS
    t1 = t1
    t2 = t2
    Tx = {t1}
    SpkOf <- OneTx
    ReloadOnError = TRUE
    MaxIndex = 1
    MaxBlocks = 5
    MaxReorgs = 1
    MaxDrops = 0
    MaxFaults = 0
INVARIANTS
    P0
