SPECIFICATION Spec
CONSTANTS
    Network = {"mainnet", "regtest", "liquid"}
    MaxWshKeys = 3
    MaxTrKeys = 3
    Signer <- SevenSigners
    Rosters <- SomeRosters
    Chaincodes = {1, 2}
    MaxThreshold = 3
    MaxIndex = 2
    DefaultRange = 0
    KeyPool = 1
INVARIANTS
    SnapshotDescribesVault
CHECK_DEADLOCK FALSE
