SPECIFICATION RelaySpec
CONSTANTS
    Network = {"regtest"}
    MaxWshKeys = 3
    MaxTrKeys = 3
    Signer <- FourSigners
    Founders <- Founder
    Lists <- NoLists
    Configs <- Segwit
    MaxThreshold = 2
    MaxVersions = 3
    Coin = {"dust", "coin"}
    Dust = {"dust"}
    Fee = 2
INVARIANTS
    CoinsSpendable
PROPERTIES
    Relayed
CHECK_DEADLOCK FALSE
