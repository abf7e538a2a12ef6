---------------------------- MODULE BitcoinNode ----------------------------
(***************************************************************************)
(* The Bitcoin Core node that chain_sync.rs talks to over RPC.  It is not  *)
(* part of the repository: it is modelled from what the sync code reads    *)
(* of it (the best chain, the transactions of a block, the mempool) and    *)
(* what its comments and the live tests say may happen to it (new blocks,  *)
(* reorgs below the wallet's tip, re-queued and evicted transactions).     *)
(*                                                                         *)
(* A block is a number, given in order of creation; genesis is height 0    *)
(* and is in no sequence.  Only transactions that pay the wallet are       *)
(* modelled, so a block is the set of those it confirms.  The node keeps   *)
(* the blocks of abandoned branches, and such a branch may win back.       *)
(***************************************************************************)
EXTENDS Integers, Sequences

CONSTANTS
    Tx,          \* the transactions that pay the wallet
    MaxBlocks,   \* bound: blocks ever created, on any branch
    MaxReorgs,   \* bound: reorganisations
    MaxDrops     \* bound: evictions from the mempool

ASSUME BoundsAssumption ==
    MaxBlocks \in Nat /\ MaxReorgs \in Nat /\ MaxDrops \in Nat

VARIABLES
    nodeChain,   \* the best chain: the blocks at heights 1, 2, ...
    blockTxs,    \* blockTxs[b]: the transactions of block b, on any branch
    blockIndex,  \* blockIndex[b]: the chain that ends in block b
    mempool,     \* the node's mempool
    reorgs,      \* reorganisations so far
    drops        \* mempool evictions so far

nodeVars == <<nodeChain, blockTxs, blockIndex, mempool, reorgs, drops>>

NodeTypeOK ==
    /\ nodeChain \in Seq(Nat \ {0})
    /\ \A h \in 1..Len(nodeChain) : nodeChain[h] <= Len(blockTxs)
    /\ blockTxs \in Seq(SUBSET Tx)
    /\ blockIndex \in Seq(Seq(1..Len(blockTxs)))
    /\ Len(blockIndex) = Len(blockTxs)
    /\ \A b \in 1..Len(blockTxs) : Len(blockIndex[b]) <= Len(nodeChain)
    /\ mempool \in SUBSET Tx
    /\ reorgs \in 0..MaxReorgs
    /\ drops \in 0..MaxDrops

NodeInit ==
    /\ nodeChain = <<>>
    /\ blockTxs = <<>>
    /\ blockIndex = <<>>
    /\ mempool = {}
    /\ reorgs = 0
    /\ drops = 0

BlocksOf(chain) == {chain[h] : h \in 1..Len(chain)}

\* The transactions that a chain confirms.
ConfirmedBy(chain) == UNION {blockTxs[b] : b \in BlocksOf(chain)}

NodeConfirmed == ConfirmedBy(nodeChain)

\* The transactions the node still knows, confirmed or not.
NodeTxs == NodeConfirmed \cup mempool

----------------------------------------------------------------------------
\* The node actions take the set "payable" of transactions whose address the
\* wallet has handed out: nobody pays an address that nobody was given.

Broadcast(payable) ==
    /\ \E t \in payable \ NodeTxs : mempool' = mempool \cup {t}
    /\ UNCHANGED <<nodeChain, blockTxs, blockIndex, reorgs, drops>>

\* A transaction may be mined without having been in this node's mempool.
Mine(payable) ==
    /\ Len(blockTxs) < MaxBlocks
    /\ \E txs \in SUBSET (payable \ NodeConfirmed) :
        /\ blockTxs' = Append(blockTxs, txs)
        /\ mempool' = mempool \ txs
    /\ nodeChain' = Append(nodeChain, Len(blockTxs) + 1)
    /\ blockIndex' = Append(blockIndex, nodeChain')
    /\ UNCHANGED <<reorgs, drops>>

\* Expiry, replacement, or a parent that was reorganised away.
DropFromMempool ==
    /\ drops < MaxDrops
    /\ \E t \in mempool : mempool' = mempool \ {t}
    /\ drops' = drops + 1
    /\ UNCHANGED <<nodeChain, blockTxs, blockIndex, reorgs>>

\* The chain "base", extended by "more" new blocks, becomes the best chain.
\* Each of the transactions in "free" ends up in one of the new blocks (its
\* number there), in the mempool (0) or nowhere (-1).
SwitchBranch(base, more, free, fate) ==
    LET made == Len(blockTxs)
        fork == Len(base)
    IN  /\ nodeChain' = [h \in 1..(fork + more) |->
               IF h <= fork THEN base[h] ELSE made + h - fork]
        /\ blockTxs' = [b \in 1..(made + more) |->
               IF b <= made THEN blockTxs[b]
               ELSE {t \in free : fate[t] = b - made}]
        /\ blockIndex' = [b \in 1..(made + more) |->
               IF b <= made THEN blockIndex[b]
               ELSE [h \in 1..(fork + b - made) |-> nodeChain'[h]]]
        /\ mempool' = {t \in free : fate[t] = 0}

\* A branch outgrows the best chain by one.  It forks from genesis or from
\* any block made so far: one of the best chain, or one of a branch that was
\* abandoned, which so wins back.
Reorg(payable) ==
    /\ reorgs < MaxReorgs
    /\ \E base \in {<<>>} \cup {blockIndex[b] : b \in 1..Len(blockTxs)} :
        LET more == Len(nodeChain) + 1 - Len(base)
            free == payable \ ConfirmedBy(base)
        IN  /\ base # nodeChain
            /\ Len(blockTxs) + more <= MaxBlocks
            /\ \E fate \in [free -> -1..more] :
                SwitchBranch(base, more, free, fate)
    /\ reorgs' = reorgs + 1
    /\ UNCHANGED drops

NodeStep(payable) ==
    \/ Broadcast(payable)
    \/ Mine(payable)
    \/ DropFromMempool
    \/ Reorg(payable)
============================================================================
