----------------------------- MODULE ChainSync -----------------------------
(***************************************************************************)
(* chain_sync.rs: one wallet synced against a Bitcoin node.                *)
(*                                                                         *)
(* emitter_sync is one pass.  Every RPC it makes is a step of its own, so  *)
(* the node may mine, reorganise and evict between any two of them, and    *)
(* any of them may fail.  The application that owns the wallet persists    *)
(* what a pass returns, may crash at any point and reloads with            *)
(* init_or_load_wallet.                                                    *)
(***************************************************************************)
EXTENDS BitcoinNode

CONSTANTS
    SpkOf,          \* SpkOf[t] = <<keychain, index>>: the address t pays
    ReloadOnError,  \* does the application reload the wallet after an Err?
    MaxIndex,       \* bound: addresses handed out per keychain
    MaxFaults       \* bound: RPC failures and crashes

Keychain == {"External", "Internal"}

ASSUME SyncAssumption ==
    /\ SpkOf \in [Tx -> Keychain \X Nat]
    /\ ReloadOnError \in BOOLEAN
    /\ MaxIndex \in Nat
    /\ MaxFaults \in Nat

VARIABLES
    pc,         \* where the pass is
    wallet,     \* the caller's &mut Wallet
    before,     \* before_confirmed
    start,      \* the emitter's start_height
    next,       \* the emitter's cached nextblockhash
    fresh,      \* the wallet rebuild_on_reorg is filling
    result,     \* the SyncResult: evicted_txids and reorg_rebuilt
    persisted,  \* the application's stored aggregate: {} (None) or {w}
    faults,     \* RPC failures and crashes so far
    still,      \* history: the node has not moved since the pass began
    stayed      \* history: the blocks on the best chain ever since the
                \* rebuild under way began

syncVars == <<pc, wallet, before, start, next, fresh, result>>
appVars == <<persisted, faults>>
vars == <<nodeVars, syncVars, appVars, still, stayed>>

----------------------------------------------------------------------------
(* The BDK wallet: its local chain (contiguous from genesis), the anchors  *)
(* of its tx graph, the transactions it saw in a mempool, and how many     *)
(* addresses each keychain has revealed.                                   *)

WalletState == [chain : Seq(Nat \ {0}), anchors : SUBSET (Tx \X (Nat \ {0})),
                seen : SUBSET Tx, revealed : [Keychain -> Nat]]

EmptyWallet(revealed) ==
    [chain |-> <<>>, anchors |-> {}, seen |-> {}, revealed |-> revealed]

ChainBlocks(w) == BlocksOf(w.chain)

Known(w) == w.seen \cup {a[1] : a \in w.anchors}

\* confirmed_txids: anchored in a block of the wallet's own chain.
confirmed_txids(w) == {a[1] : a \in {x \in w.anchors : x[2] \in ChainBlocks(w)}}

\* What bdk canonicalises as unconfirmed: a transaction it has only seen, or
\* one whose every anchor is stale (bdk never drops an anchor).
Unconfirmed(w) == Known(w) \ confirmed_txids(w)

\* The emitter's blocks and mempool are matched against revealed addresses.
Indexed(w) == {t \in Tx : SpkOf[t][2] < w.revealed[SpkOf[t][1]]}

\* Mutant: an anchor is excused by a mempool sighting of its transaction.
orphaned_unless_seen(w) ==
    \E a \in w.anchors : a[2] \notin ChainBlocks(w) /\ a[1] \notin w.seen

\* Mutant: anchors are compared with the tip only.
orphaned_below_tip(w) ==
    \E a \in w.anchors : w.chain = <<>> \/ a[2] # w.chain[Len(w.chain)]

has_orphaned_anchor(w) == \E a \in w.anchors : a[2] \notin ChainBlocks(w)

\* Mutant: the wallet's own sightings stand in for the mempool.
stale_by_sightings(w, pool) == Unconfirmed(w) \ (pool \cup w.seen) # {}

has_stale_unconfirmed(w, pool) == Unconfirmed(w) \ pool # {}

apply_unconfirmed_txs(w, pool) ==
    [w EXCEPT !.seen = @ \cup (pool \cap Indexed(w))]

\* apply_block_connected_to on success, for the block the emitter emits at
\* height h: the local chain becomes the node's up to h.
ApplyBlock(w, h) ==
    [w EXCEPT !.chain = [i \in 1..h |-> nodeChain[i]],
              !.anchors = @ \cup
                ((blockTxs[nodeChain[h]] \cap Indexed(w)) \X {nodeChain[h]})]

\* LocalChain::apply_update of the blocks at a, h - 1 and h: the local block
\* just above the point of agreement must be replaced by the update.
CannotConnect(w, a, h) == a < Len(w.chain) /\ a + 1 \notin {h - 1, h}

----------------------------------------------------------------------------
(* bdk_bitcoind_rpc::Emitter.  It remembers its last block only as that    *)
(* block's cached successor; without one, or when the successor has been   *)
(* reorganised away, it looks for the highest of its checkpoints that is   *)
(* still on the best chain.                                                *)

NoLast == 0    \* no last block: find the point of agreement
NoMore == -1   \* the last block had no successor when it was fetched

OnBestChain(b) == b \in BlocksOf(nodeChain)

Agreement(w, a) ==
    /\ a <= Len(nodeChain) /\ a <= Len(w.chain)
    /\ a > 0 => w.chain[a] = nodeChain[a]
    /\ \A h \in (a + 1)..Len(w.chain) : ~OnBestChain(w.chain[h])

\* The emitter looks for agreement at height a.
SeeksAgreement(w, a) ==
    /\ next # NoMore
    /\ ~OnBestChain(next)
    /\ Agreement(w, a)

\* next_block() returns the block at height h, connected to height a.  From
\* an agreement below start_height it goes straight to start_height.
EmitsBlock(w, a, h) ==
    /\ h <= Len(nodeChain)
    /\ \/ nodeChain[h] = next /\ a = h - 1
       \/ SeeksAgreement(w, a) /\ h = IF a < start THEN start ELSE a + 1

\* next_block() returns None.
EmitsNone(w) == next = NoMore \/ (SeeksAgreement(w, Len(nodeChain))
                                  /\ start <= Len(nodeChain))

NextAfter(h) == IF h < Len(nodeChain) THEN nodeChain[h + 1] ELSE NoMore

----------------------------------------------------------------------------
(* The application's stored aggregate.                                     *)

NoReveal == [k \in Keychain |-> 0]

\* init_or_load_wallet: the stored wallet, or a new one from the descriptor.
init_or_load_wallet(p) ==
    IF p = {} THEN EmptyWallet(NoReveal) ELSE CHOOSE w \in p : TRUE

\* ChangeSet::merge of a staged changeset into the aggregate.  A forward pass
\* stages every change since the last take_staged, so the wallet's chain wins;
\* anchors and sightings only accumulate.
MergeInto(p, w) ==
    LET old == init_or_load_wallet(p)
    IN  {[w EXCEPT !.anchors = @ \cup old.anchors,
                   !.seen = @ \cup old.seen]}

\* Mutant: a rebuilt changeset is merged like any other.
StoreMerged(p, w, r) == MergeInto(p, w)

\* SyncResult.reorg_rebuilt: the changeset is complete and replaces.
Store(p, w, r) == IF r.rebuilt THEN {w} ELSE MergeInto(p, w)

NoResult == [evicted |-> {}, rebuilt |-> FALSE]

Init ==
    /\ NodeInit
    /\ pc = "idle"
    /\ wallet = init_or_load_wallet({})
    /\ before = {} /\ start = 0 /\ next = NoLast
    /\ fresh = EmptyWallet(NoReveal)
    /\ result = NoResult
    /\ persisted = {} /\ faults = 0
    /\ still = FALSE /\ stayed = {}

----------------------------------------------------------------------------
(* emitter_sync                                                            *)

\* Mutant: the emitter starts one block below the tip.
StartBelowTip ==
    /\ pc = "idle"
    /\ pc' = "drive"
    /\ before' = confirmed_txids(wallet)
    /\ start' = Len(wallet.chain) - 1
    /\ next' = NoLast
    /\ still' = TRUE
    /\ UNCHANGED <<nodeVars, wallet, fresh, result, appVars, stayed>>

SyncStart ==
    /\ pc = "idle"
    /\ pc' = "drive"
    /\ before' = confirmed_txids(wallet)
    /\ start' = Len(wallet.chain)
    /\ next' = NoLast
    /\ still' = TRUE
    /\ UNCHANGED <<nodeVars, wallet, fresh, result, appVars, stayed>>

\* Mutant: the old wallet's reveal is not carried over.
FreshUnrevealed(w) == EmptyWallet(NoReveal)

\* The fresh wallet that rebuild_on_reorg drives from genesis: w's public
\* descriptors, revealed as far as w's.
FreshFor(w) == EmptyWallet(w.revealed)

BeginRebuild(w) ==
    /\ pc' = "rebuild"
    /\ wallet' = w
    /\ fresh' = FreshFor(w)
    /\ start' = 0
    /\ next' = NoLast
    /\ stayed' = BlocksOf(nodeChain)
    /\ UNCHANGED <<before, result>>

\* next_block returned a block that connects.
DriveBlock ==
    /\ pc = "drive"
    /\ \E h \in 1..Len(nodeChain), a \in 0..Len(wallet.chain) :
        /\ EmitsBlock(wallet, a, h)
        /\ ~CannotConnect(wallet, a, h)
        /\ wallet' = ApplyBlock(wallet, h)
        /\ next' = NextAfter(h)
    /\ UNCHANGED <<nodeVars, pc, before, start, fresh, result, appVars, still,
                   stayed>>

\* next_block returned a block that does not connect.
DriveCannotConnect ==
    /\ pc = "drive"
    /\ \E h \in 1..Len(nodeChain), a \in 0..Len(wallet.chain) :
        EmitsBlock(wallet, a, h) /\ CannotConnect(wallet, a, h)
    /\ BeginRebuild(wallet)
    /\ UNCHANGED <<nodeVars, appVars, still>>

\* The two signals of an absorbed reorg: a same-pass demotion, or an anchor
\* left off the chain.
Demoted(w) == before \ confirmed_txids(w) # {}

AbsorbedReorg(w) == Demoted(w) \/ has_orphaned_anchor(w)

\* next_block returned None: the block drive is over.
DriveEnd ==
    /\ pc = "drive"
    /\ EmitsNone(wallet)
    /\ \/ /\ AbsorbedReorg(wallet)
          /\ BeginRebuild(wallet)
       \/ /\ ~AbsorbedReorg(wallet)
          /\ pc' = "mempool"
          /\ UNCHANGED <<wallet, before, start, next, fresh, result, stayed>>
    /\ UNCHANGED <<nodeVars, appVars, still>>

Return(w, evicted, rebuilt) ==
    /\ pc' = "returned"
    /\ wallet' = w
    /\ result' = [evicted |-> evicted, rebuilt |-> rebuilt]
    /\ start' = 0 /\ next' = NoLast /\ fresh' = EmptyWallet(NoReveal)
    /\ stayed' = {}
    /\ UNCHANGED before

\* mempool(): apply it, then look for a stale float.
FetchMempool ==
    /\ pc = "mempool"
    /\ LET w == apply_unconfirmed_txs(wallet, mempool)
       IN  IF has_stale_unconfirmed(w, mempool)
           THEN BeginRebuild(w)
           ELSE Return(w, {}, FALSE)
    /\ UNCHANGED <<nodeVars, appVars, still>>

----------------------------------------------------------------------------
(* rebuild_on_reorg                                                        *)

RebuildBlock ==
    /\ pc = "rebuild"
    /\ \E h \in 1..Len(nodeChain), a \in 0..Len(fresh.chain) :
        /\ EmitsBlock(fresh, a, h)
        /\ ~CannotConnect(fresh, a, h)
        /\ fresh' = ApplyBlock(fresh, h)
        /\ next' = NextAfter(h)
    /\ UNCHANGED <<nodeVars, pc, wallet, before, start, result, appVars, still,
                   stayed>>

RebuildEnd ==
    /\ pc = "rebuild"
    /\ EmitsNone(fresh)
    /\ pc' = "rebuildMempool"
    /\ UNCHANGED <<nodeVars, wallet, before, start, next, fresh, result,
                   appVars, still, stayed>>

\* Mutant: the baseline is taken after the drive.
EvictedSinceDrive(w) == confirmed_txids(wallet) \ Known(w)

\* Mutant: a re-queued transaction counts as evicted.
EvictedUnlessConfirmed(w) == before \ confirmed_txids(w)

\* evicted_txids: confirmed before, and nowhere in the rebuilt graph (D5).
Evicted(w) == before \ Known(w)

RebuildFinish ==
    /\ pc = "rebuildMempool"
    /\ LET w == apply_unconfirmed_txs(fresh, mempool)
       IN  Return(w, Evicted(w), TRUE)
    /\ UNCHANGED <<nodeVars, appVars, still>>

----------------------------------------------------------------------------
(* Faults and the application                                              *)

InPass == pc \in {"drive", "mempool", "rebuild", "rebuildMempool"}

\* Back to idle with wallet w; what the pass had under way is gone.
Abandon(w) ==
    /\ pc' = "idle"
    /\ wallet' = w
    /\ before' = {} /\ start' = 0 /\ next' = NoLast
    /\ fresh' = EmptyWallet(NoReveal)
    /\ result' = NoResult
    /\ still' = FALSE /\ stayed' = {}

\* An RPC of the pass fails: emitter_sync returns Err.  The wallet keeps what
\* the pass has applied to it, and nothing was taken from its stage.
RpcFailure ==
    /\ InPass
    /\ faults < MaxFaults
    /\ faults' = faults + 1
    /\ Abandon(IF ReloadOnError THEN init_or_load_wallet(persisted) ELSE wallet)
    /\ UNCHANGED <<nodeVars, persisted>>

\* The process dies, in a pass or before it has stored a result, and reloads.
Restart ==
    /\ faults < MaxFaults
    /\ faults' = faults + 1
    /\ Abandon(init_or_load_wallet(persisted))
    /\ UNCHANGED <<nodeVars, persisted>>

\* The application stores the result.
Persist ==
    /\ pc = "returned"
    /\ persisted' = Store(persisted, wallet, result)
    /\ Abandon(wallet)
    /\ UNCHANGED <<nodeVars, faults>>

\* The application hands out an address and stores the reveal.
Reveal(k) ==
    /\ pc = "idle"
    /\ wallet.revealed[k] < MaxIndex
    /\ wallet' = [wallet EXCEPT !.revealed[k] = @ + 1]
    /\ persisted' = MergeInto(persisted, wallet')
    /\ UNCHANGED <<nodeVars, pc, before, start, next, fresh, result,
                   faults, still, stayed>>

NodeMoves ==
    /\ NodeStep(Indexed(wallet))
    /\ still' = FALSE
    /\ stayed' = stayed \cap BlocksOf(nodeChain')
    /\ UNCHANGED <<syncVars, appVars>>

SyncStep ==
    \/ SyncStart \/ DriveBlock \/ DriveCannotConnect \/ DriveEnd
    \/ FetchMempool \/ RebuildBlock \/ RebuildEnd \/ RebuildFinish

Next ==
    \/ SyncStep
    \/ RpcFailure \/ Restart \/ Persist
    \/ \E k \in Keychain : Reveal(k)
    \/ NodeMoves

Spec == Init /\ [][Next]_vars

\* The application syncs again and again, a pass that is not cut short runs
\* to its return, and what it returns is stored.
FairSpec == Spec /\ WF_vars(SyncStep) /\ WF_vars(Persist)

----------------------------------------------------------------------------
(* Properties                                                              *)

\* Every variable has its type, and no pass is under way outside of one.
TypeOK ==
    /\ NodeTypeOK
    /\ pc \in {"idle", "drive", "mempool", "rebuild", "rebuildMempool",
               "returned"}
    /\ wallet \in WalletState /\ fresh \in WalletState
    /\ before \in SUBSET Tx
    /\ start \in Nat
    /\ next \in Nat \cup {NoMore}
    /\ result \in [evicted : SUBSET Tx, rebuilt : BOOLEAN]
    /\ persisted \in SUBSET WalletState
    /\ faults \in 0..MaxFaults
    /\ still \in BOOLEAN
    /\ stayed \in SUBSET (Nat \ {0})

\* emitter_sync: "Signal 2 is a strict superset of signal 1": whenever a
\* transaction confirmed before the pass has lost its confirmation, the wallet
\* also holds an orphaned anchor, so signal 1 is only a short cut.
SignalSuperset == pc = "drive" /\ Demoted(wallet) => has_orphaned_anchor(wallet)

\* emitter_sync: "No false positives - only a reorg demotes an already-confirmed
\* tx or strands an anchor off-chain": without a reorg, neither signal can
\* fire and no emitted block fails to connect, whatever the interleaving.
NoFalsePositives ==
    reorgs = 0 =>
        /\ ~has_orphaned_anchor(wallet)
        /\ pc = "drive" =>
            /\ ~Demoted(wallet)
            /\ \A h \in 1..Len(nodeChain), a \in 0..Len(wallet.chain) :
                EmitsBlock(wallet, a, h) => ~CannotConnect(wallet, a, h)

\* When a pass returns and the node did not move during it, the wallet holds
\* no phantom: what it calls confirmed is on the best chain and what it calls
\* unconfirmed is in the mempool, however it was left by earlier passes.
NoPhantomAtReturn ==
    pc = "returned" /\ still =>
        /\ confirmed_txids(wallet) \subseteq NodeConfirmed
        /\ Unconfirmed(wallet) \subseteq mempool

\* A rebuild against a node that does not move leaves the wallet at ground
\* truth, and nothing is evicted that the node still has, on its chain or
\* pending (D5).  EvictionReported is the other half: nothing goes unreported.
RebuiltGroundTruth ==
    pc = "returned" /\ still /\ result.rebuilt =>
        /\ confirmed_txids(wallet) = NodeConfirmed \cap Indexed(wallet)
        /\ Unconfirmed(wallet) = mempool \cap Indexed(wallet)
        /\ result.evicted \subseteq before \ NodeTxs

\* With an application that reloads after an Err, the stored aggregate always
\* reloads to the wallet the application holds between two passes: merging
\* the forward changesets and replacing on reorg_rebuilt loses nothing and
\* brings nothing back.
StoredMatchesLive ==
    ReloadOnError /\ pc = "idle" =>
        init_or_load_wallet(persisted) = wallet

\* rebuild_on_reorg must not lose "a confirmed UTXO that survived the reorg":
\* when the rebuilt wallet is swapped in, every transaction the old one had
\* anchored in a block that was on the best chain throughout the rebuild is
\* confirmed in the new one, whatever else the node did meanwhile.  (A block
\* that left the best chain during the rebuild and came back after the last
\* next_block is missed: the code looks at the chain only until then.)
SurvivorsKept ==
    [][pc = "rebuildMempool" /\ pc' = "returned" =>
        \A a \in wallet.anchors :
            a[2] \in stayed => a[1] \in confirmed_txids(wallet')]_vars

\* SyncResult.evicted_txids: a transaction that the stored aggregate has as
\* confirmed leaves the aggregate only in a step that reports it as evicted,
\* crashes and failed passes included.
EvictionReported ==
    [][\A t \in confirmed_txids(init_or_load_wallet(persisted)) :
        t \in Known(init_or_load_wallet(persisted'))
            \/ t \in result.evicted]_vars

\* rebuild_on_reorg: once the node and the network are quiet the wallet holds
\* no phantom for good, whatever reorgs, failures and crashes came before.
SelfHeals ==
    <>[](/\ confirmed_txids(wallet) \subseteq NodeConfirmed
         /\ Unconfirmed(wallet) \subseteq mempool)

\* has_stale_unconfirmed: an extra rebuild is "self-clearing on the next sync,
\* never a loop": from some point on no pass rebuilds.
NeverALoop == <>[](pc # "rebuild")

----------------------------------------------------------------------------
(* What the comments and the README say, and the code does not do          *)

\* emitter_sync: "every backend's sync leaves the wallet at post-reorg ground
\* truth" (P0), for a pass during which the node does not move.
P0 ==
    pc = "returned" /\ still =>
        /\ confirmed_txids(wallet) = NodeConfirmed \cap Indexed(wallet)
        /\ Unconfirmed(wallet) = mempool \cap Indexed(wallet)
============================================================================
