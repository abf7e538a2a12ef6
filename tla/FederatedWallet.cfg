SPECIFICATION Spec
CONSTANTS
    Network = {"mainnet", "regtest", "liquid"}
    MaxWshKeys = 3
    MaxTrKeys = 4
    Signer <- EightSigners
    Founders <- SomeFounders
    Lists <- SomeLists
    Configs <- HsmAndTaproot
    MaxThreshold = 3
    MaxVersions = 3
INVARIANTS
    StackVerifies
    RosterAgrees
CHECK_DEADLOCK FALSE
