---------------------------- MODULE MCChainSync ----------------------------
(* Instances of ChainSync: one transaction, or one per keychain.            *)
EXTENDS ChainSync, TLC

CONSTANTS t1, t2

OneTx == t1 :> <<"External", 0>>
TwoTxs == OneTx @@ (t2 :> <<"Internal", 0>>)

\* Bound: a behaviour has a fault or a mempool eviction, not both, and at most
\* two reorgs and evictions together.
FewDisturbances == drops + faults <= 1 /\ drops + reorgs <= 2
============================================================================
