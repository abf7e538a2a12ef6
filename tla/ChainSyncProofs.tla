-------------------------- MODULE ChainSyncProofs --------------------------
(***************************************************************************)
(* Theorems about ChainSync, for every set of transactions, every bound    *)
(* and both kinds of application: types, how the stored wallet follows the *)
(* live one, and what a pass of emitter_sync leaves in the wallet (no      *)
(* phantom after an undisturbed pass, ground truth after an undisturbed    *)
(* rebuild, no survivor lost by any rebuild and no rebuild signal without  *)
(* a reorg).                                                               *)
(*                                                                         *)
(* The second half rests on one fact about the node (below a block there   *)
(* is one chain, so what a remembered chain shares with the best one, an   *)
(* abandoned branch that won back included, is a common prefix of both)    *)
(* and on one about the emitter (its cached successor is the child of the  *)
(* tip of the chain it has driven).                                        *)
(***************************************************************************)
EXTENDS ChainSync, TLAPS

----------------------------------------------------------------------------
(* Type correctness                                                         *)

\* Lists that agree in length and at every position are the same list.
LEMMA SameList ==
    ASSUME NEW S, NEW s \in Seq(S), NEW t \in Seq(S), Len(s) = Len(t),
           \A i \in 1..Len(s) : s[i] = t[i]
    PROVE  s = t
OBVIOUS

\* An empty wallet is a wallet, whatever it has revealed.
LEMMA EmptyWalletType ==
    ASSUME NEW r \in [Keychain -> Nat]
    PROVE  EmptyWallet(r) \in WalletState
BY DEF EmptyWallet, WalletState

\* What init_or_load_wallet returns is a wallet.
LEMMA LoadType ==
    ASSUME NEW p \in SUBSET WalletState
    PROVE  init_or_load_wallet(p) \in WalletState
<1>1. NoReveal \in [Keychain -> Nat]
  BY DEF NoReveal
<1>2. CASE p = {}
  BY <1>1, <1>2, EmptyWalletType DEF init_or_load_wallet
<1>3. CASE p # {}
  BY <1>3 DEF init_or_load_wallet
<1> QED BY <1>2, <1>3

\* Merging a changeset into the aggregate gives an aggregate.
LEMMA MergeType ==
    ASSUME NEW p \in SUBSET WalletState, NEW w \in WalletState
    PROVE  MergeInto(p, w) \in SUBSET WalletState
<1> DEFINE old == init_or_load_wallet(p)
<1>1. old \in WalletState
  BY LoadType
<1> HIDE DEF old
<1>2. [w EXCEPT !.anchors = @ \cup old.anchors, !.seen = @ \cup old.seen]
        \in WalletState
  BY <1>1 DEF WalletState
<1> QED BY <1>2 DEF MergeInto, old

\* The sets of transactions read off a wallet are sets of transactions.
LEMMA ReadersType ==
    ASSUME NEW w \in WalletState
    PROVE  /\ confirmed_txids(w) \in SUBSET Tx
           /\ Known(w) \in SUBSET Tx
           /\ Indexed(w) \in SUBSET Tx
BY DEF confirmed_txids, Known, Indexed, WalletState

\* Applying an emitted block or a mempool to a wallet gives a wallet.
LEMMA ApplyType ==
    ASSUME NodeTypeOK, NEW w \in WalletState
    PROVE  /\ \A h \in 1..Len(nodeChain) : ApplyBlock(w, h) \in WalletState
           /\ apply_unconfirmed_txs(w, mempool) \in WalletState
<1>1. Indexed(w) \in SUBSET Tx
  BY ReadersType
<1>2. ASSUME NEW h \in 1..Len(nodeChain) PROVE ApplyBlock(w, h) \in WalletState
  <2>1. nodeChain[h] \in Nat \ {0} /\ nodeChain[h] \in 1..Len(blockTxs)
    BY DEF NodeTypeOK
  <2>2. blockTxs[nodeChain[h]] \in SUBSET Tx
    BY <2>1 DEF NodeTypeOK
  <2>3. [i \in 1..h |-> nodeChain[i]] \in Seq(Nat \ {0})
    BY DEF NodeTypeOK
  <2>4. ((blockTxs[nodeChain[h]] \cap Indexed(w)) \X {nodeChain[h]})
            \in SUBSET (Tx \X (Nat \ {0}))
    BY <2>1, <2>2
  <2> QED BY <2>3, <2>4 DEF ApplyBlock, WalletState
<1>3. apply_unconfirmed_txs(w, mempool) \in WalletState
  BY <1>1 DEF apply_unconfirmed_txs, WalletState, NodeTypeOK
<1> QED BY <1>2, <1>3

\* A list whose elements are all in T is a list over T.
LEMMA ListOver ==
    ASSUME NEW S, NEW s \in Seq(S), NEW T, \A i \in 1..Len(s) : s[i] \in T
    PROVE  s \in Seq(T)
OBVIOUS

\* A list of numbers up to n is a list of numbers up to m, for m >= n.
LEMMA WiderChains ==
    ASSUME NEW n \in Nat, NEW m \in Nat, n <= m
    PROVE  /\ \A c \in Seq(1..n) : c \in Seq(1..m)
           /\ \A s \in Seq(Seq(1..n)) : s \in Seq(Seq(1..m))
<1>1. \A c \in Seq(1..n) : c \in Seq(1..m)
  OBVIOUS
<1>2. ASSUME NEW s \in Seq(Seq(1..n)) PROVE s \in Seq(Seq(1..m))
  <2>1. \A i \in 1..Len(s) : s[i] \in Seq(1..n)
    OBVIOUS
  <2>2. \A i \in 1..Len(s) : s[i] \in Seq(1..m)
    BY <1>1, <2>1
  <2> QED BY <2>2
<1> QED BY <1>1, <1>2

\* What a reorg makes of the chain, the blocks and the index, point by point.
Switched(base, more, free, fate, made, fork) ==
    /\ nodeChain' \in Seq(Nat \ {0}) /\ blockTxs' \in Seq(SUBSET Tx)
    /\ Len(nodeChain') = fork + more /\ Len(blockTxs') = made + more
    /\ \A h \in 1..(fork + more) : nodeChain'[h] \in 1..(made + more)
    /\ \A h \in 1..fork : nodeChain'[h] = base[h] /\ base[h] \in 1..made
    /\ \A h \in (fork + 1)..(fork + more) : nodeChain'[h] = made + h - fork
    /\ blockIndex' \in Seq(Seq(1..(made + more)))
    /\ Len(blockIndex') = made + more
    /\ \A b \in 1..made :
            blockTxs'[b] = blockTxs[b] /\ blockIndex'[b] = blockIndex[b]
    /\ \A b \in (made + 1)..(made + more) :
            /\ \A t \in blockTxs'[b] : t \in free /\ fate[t] = b - made
            /\ Len(blockIndex'[b]) = fork + b - made
            /\ \A h \in 1..(fork + b - made) : blockIndex'[b][h] = nodeChain'[h]
    /\ mempool' = {t \in free : fate[t] = 0}

\* SwitchBranch does all that.
LEMMA SwitchBranchIs ==
    ASSUME NodeTypeOK, NEW base \in Seq(1..Len(blockTxs)), NEW more \in Nat \ {0},
           NEW free \in SUBSET Tx, NEW fate, SwitchBranch(base, more, free, fate),
           NEW made \in Nat, made = Len(blockTxs),
           NEW fork \in Nat, fork = Len(base)
    PROVE  Switched(base, more, free, fate, made, fork)
<1>1. /\ nodeChain' = [h \in 1..(fork + more) |->
               IF h <= fork THEN base[h] ELSE made + h - fork]
      /\ blockTxs' = [b \in 1..(made + more) |->
               IF b <= made THEN blockTxs[b]
               ELSE {t \in free : fate[t] = b - made}]
      /\ blockIndex' = [b \in 1..(made + more) |->
               IF b <= made THEN blockIndex[b]
               ELSE [h \in 1..(fork + b - made) |-> nodeChain'[h]]]
  BY DEF SwitchBranch
<1>2. \A h \in 1..fork : base[h] \in 1..made
  OBVIOUS
<1>3. \A h \in 1..fork : nodeChain'[h] = base[h]
  BY <1>1
<1>4. \A h \in (fork + 1)..(fork + more) : nodeChain'[h] = made + h - fork
  BY <1>1
<1>5. \A h \in 1..(fork + more) : nodeChain'[h] \in 1..(made + more)
  <2> TAKE h \in 1..(fork + more)
  <2>1. CASE h \in 1..fork
    BY <1>2, <1>3, <2>1
  <2>2. CASE h \in (fork + 1)..(fork + more)
    BY <1>4, <2>2
  <2> QED BY <2>1, <2>2
<1>6. nodeChain' \in Seq(Nat \ {0}) /\ Len(nodeChain') = fork + more
  <2>1. DOMAIN nodeChain' = 1..(fork + more)
            /\ nodeChain' = [h \in 1..(fork + more) |-> nodeChain'[h]]
    BY <1>1
  <2>2. \A h \in 1..(fork + more) : nodeChain'[h] \in Nat \ {0}
    BY <1>5
  <2> QED BY <2>1, <2>2
<1>7. \A b \in 1..(made + more) : blockTxs'[b] \in SUBSET Tx
  BY <1>1 DEF NodeTypeOK
<1>8. blockTxs' \in Seq(SUBSET Tx) /\ Len(blockTxs') = made + more
  <2> DEFINE S == SUBSET Tx
  <2>1. /\ DOMAIN blockTxs' = 1..(made + more) /\ made + more \in Nat
        /\ blockTxs' = [b \in 1..(made + more) |-> blockTxs'[b]]
        /\ \A b \in 1..(made + more) : blockTxs'[b] \in S
    BY <1>1, <1>7
  <2> HIDE DEF S
  <2>2. blockTxs' \in Seq(S) /\ Len(blockTxs') = made + more
    BY <2>1
  <2> QED BY <2>2 DEF S
<1>9. \A b \in 1..made :
            blockTxs'[b] = blockTxs[b] /\ blockIndex'[b] = blockIndex[b]
  BY <1>1
<1>10. ASSUME NEW b \in (made + 1)..(made + more)
       PROVE  /\ \A t \in blockTxs'[b] : t \in free /\ fate[t] = b - made
              /\ blockIndex'[b] \in Seq(1..(made + more))
              /\ Len(blockIndex'[b]) = fork + b - made
              /\ \A h \in 1..(fork + b - made) : blockIndex'[b][h] = nodeChain'[h]
  <2> DEFINE k == fork + b - made
  <2>1. /\ b \in 1..(made + more) /\ ~(b <= made) /\ k \in Nat
        /\ \A h \in 1..k : h \in 1..(fork + more)
    OBVIOUS
  <2>2. blockIndex'[b] = [h \in 1..k |-> nodeChain'[h]]
            /\ blockTxs'[b] = {t \in free : fate[t] = b - made}
    BY <1>1, <2>1
  <2>3. \A h \in 1..k : nodeChain'[h] \in 1..(made + more)
    BY <1>5, <2>1
  <2> HIDE DEF k
  <2>4. /\ blockIndex'[b] \in Seq(1..(made + more)) /\ Len(blockIndex'[b]) = k
        /\ \A h \in 1..k : blockIndex'[b][h] = nodeChain'[h]
    BY <2>1, <2>2, <2>3
  <2>5. \A t \in blockTxs'[b] : t \in free /\ fate[t] = b - made
    BY <2>2
  <2> QED BY <2>4, <2>5 DEF k
<1>11. blockIndex' \in Seq(Seq(1..(made + more))) /\ Len(blockIndex') = made + more
  <2> DEFINE S == Seq(1..(made + more))
  <2>1. \A b \in 1..(made + more) : blockIndex'[b] \in S
    <3> TAKE b \in 1..(made + more)
    <3>1. CASE b \in 1..made
      <4>1. blockIndex[b] \in Seq(1..made)
        BY <3>1 DEF NodeTypeOK
      <4>2. blockIndex[b] \in S
        BY <4>1, WiderChains
      <4> QED BY <1>9, <3>1, <4>2
    <3>2. CASE b \in (made + 1)..(made + more)
      BY <1>10, <3>2
    <3> QED BY <3>1, <3>2
  <2>2. /\ DOMAIN blockIndex' = 1..(made + more) /\ made + more \in Nat
        /\ blockIndex' = [b \in 1..(made + more) |-> blockIndex'[b]]
    BY <1>1
  <2> HIDE DEF S
  <2>3. blockIndex' \in Seq(S) /\ Len(blockIndex') = made + more
    BY <2>1, <2>2
  <2> QED BY <2>3 DEF S
<1>12. \A b \in (made + 1)..(made + more) :
                /\ \A t \in blockTxs'[b] : t \in free /\ fate[t] = b - made
                /\ Len(blockIndex'[b]) = fork + b - made
                /\ \A h \in 1..(fork + b - made) : blockIndex'[b][h] = nodeChain'[h]
  BY <1>10
<1>13. mempool' = {t \in free : fate[t] = 0}
  BY DEF SwitchBranch
<1> QED BY <1>2, <1>3, <1>4, <1>5, <1>6, <1>8, <1>9, <1>11, <1>12, <1>13 DEF Switched

\* A reorg: it forks from a known chain, no longer than the best one.
LEMMA ReorgIs ==
    ASSUME NodeTypeOK, NEW payable \in SUBSET Tx, Reorg(payable)
    PROVE  \E base \in {<<>>} \cup {blockIndex[b] : b \in 1..Len(blockTxs)} :
            \E more \in Nat \ {0}, made \in Nat, fork \in Nat, free \in SUBSET Tx :
            \E fate :
                /\ made = Len(blockTxs) /\ fork = Len(base)
                /\ fork + more = Len(nodeChain) + 1
                /\ \A t \in free, h \in 1..fork : t \notin blockTxs[base[h]]
                /\ Switched(base, more, free, fate, made, fork)
<1>1. PICK base \in {<<>>} \cup {blockIndex[b] : b \in 1..Len(blockTxs)} :
            \E fate \in [payable \ ConfirmedBy(base)
                            -> -1..(Len(nodeChain) + 1 - Len(base))] :
                SwitchBranch(base, Len(nodeChain) + 1 - Len(base),
                             payable \ ConfirmedBy(base), fate)
  BY DEF Reorg
<1>2. PICK fate : SwitchBranch(base, Len(nodeChain) + 1 - Len(base),
                               payable \ ConfirmedBy(base), fate)
  BY <1>1
<1>3. base \in Seq(1..Len(blockTxs)) /\ Len(base) <= Len(nodeChain)
  <2> DEFINE S == Seq(1..Len(blockTxs))
  <2>1. <<>> \in S /\ Len(<<>>) <= Len(nodeChain)
    BY DEF NodeTypeOK
  <2>2. blockIndex \in Seq(S) /\ Len(blockIndex) = Len(blockTxs)
            /\ \A b \in 1..Len(blockTxs) : Len(blockIndex[b]) <= Len(nodeChain)
    BY DEF NodeTypeOK
  <2> HIDE DEF S
  <2>3. \A b \in 1..Len(blockTxs) : blockIndex[b] \in S
    BY <2>2
  <2>4. base \in S /\ Len(base) <= Len(nodeChain)
    BY <2>1, <2>2, <2>3, Zenon
  <2> QED BY <2>4 DEF S
<1> DEFINE more == Len(nodeChain) + 1 - Len(base)
           free == payable \ ConfirmedBy(base)
           made == Len(blockTxs)
           fork == Len(base)
<1>4. /\ more \in Nat \ {0} /\ made \in Nat /\ fork \in Nat /\ free \in SUBSET Tx
      /\ fork + more = Len(nodeChain) + 1
  BY <1>3, SMTT(30) DEF NodeTypeOK
<1>5. \A t \in free, h \in 1..fork : t \notin blockTxs[base[h]]
  BY DEF ConfirmedBy, BlocksOf
<1>6. SwitchBranch(base, more, free, fate)
  BY <1>2
<1>7. made = Len(blockTxs) /\ fork = Len(base)
  OBVIOUS
<1> HIDE DEF more, free, made, fork
<1>8. Switched(base, more, free, fate, made, fork)
  BY <1>3, <1>4, <1>6, <1>7, SwitchBranchIs
<1> QED BY <1>4, <1>5, <1>7, <1>8

\* A step of the node keeps the node well-typed.
LEMMA NodeStepType ==
    ASSUME NodeTypeOK, NEW payable \in SUBSET Tx, NodeStep(payable)
    PROVE  NodeTypeOK'
<1> USE BoundsAssumption DEF NodeTypeOK
<1>1. CASE Broadcast(payable)
  BY <1>1 DEF Broadcast
<1>2. CASE Mine(payable)
  <2> DEFINE made == Len(blockTxs)
             tip == Len(nodeChain)
  <2>1. PICK txs \in SUBSET (payable \ NodeConfirmed) :
            blockTxs' = Append(blockTxs, txs) /\ mempool' = mempool \ txs
    BY <1>2 DEF Mine
  <2>2. /\ nodeChain' = Append(nodeChain, made + 1)
        /\ blockIndex' = Append(blockIndex, nodeChain')
        /\ reorgs' = reorgs /\ drops' = drops
    BY <1>2 DEF Mine
  <2>3. Len(blockTxs') = made + 1 /\ blockTxs' \in Seq(SUBSET Tx) /\ made \in Nat
    BY <2>1
  <2>4. nodeChain' \in Seq(Nat \ {0}) /\ Len(nodeChain') = tip + 1 /\ tip \in Nat
    BY <2>2
  <2>5. \A h \in 1..Len(nodeChain') : nodeChain'[h] <= made + 1
    BY <2>2
  <2>6. nodeChain' \in Seq(1..(made + 1))
    <3>1. \A h \in 1..Len(nodeChain') : nodeChain'[h] \in 1..(made + 1)
      BY <2>3, <2>4, <2>5
    <3> QED BY <2>4, <3>1, ListOver
  <2>w. blockIndex \in Seq(Seq(1..(made + 1))) /\ Len(blockIndex) = made
    BY <2>3, WiderChains
  <2>7. /\ blockIndex' \in Seq(Seq(1..(made + 1))) /\ Len(blockIndex') = made + 1
        /\ \A b \in 1..made : blockIndex'[b] = blockIndex[b]
        /\ blockIndex'[made + 1] = nodeChain'
    <3> DEFINE S == Seq(1..(made + 1))
    <3>1. nodeChain' \in S /\ blockIndex \in Seq(S)
      BY <2>6, <2>w
    <3> HIDE DEF S
    <3>2. /\ blockIndex' \in Seq(S) /\ Len(blockIndex') = made + 1
          /\ \A b \in 1..made : blockIndex'[b] = blockIndex[b]
          /\ blockIndex'[made + 1] = nodeChain'
      BY <2>2, <2>3, <2>w, <3>1
    <3> QED BY <3>2 DEF S
  <2> HIDE DEF made, tip
  <2>8. \A b \in 1..(made + 1) : Len(blockIndex'[b]) <= tip + 1
    <3> TAKE b \in 1..(made + 1)
    <3>1. CASE b = made + 1
      BY <2>4, <2>7, <3>1
    <3>2. CASE b \in 1..made
      <4>1. Len(blockIndex[b]) <= tip /\ Len(blockIndex[b]) \in Nat
        BY <3>2 DEF made, tip
      <4> QED BY <2>4, <2>7, <3>2, <4>1
    <3> QED BY <2>3, <3>1, <3>2
  <2> QED BY <2>1, <2>2, <2>3, <2>4, <2>5, <2>7, <2>8
<1>3. CASE DropFromMempool
  BY <1>3 DEF DropFromMempool
<1>4. CASE Reorg(payable)
  <2>0. PICK base \in {<<>>} \cup {blockIndex[b] : b \in 1..Len(blockTxs)} :
            \E more \in Nat \ {0}, made \in Nat, fork \in Nat, free \in SUBSET Tx :
            \E fate :
                /\ made = Len(blockTxs) /\ fork = Len(base)
                /\ fork + more = Len(nodeChain) + 1
                /\ \A t \in free, h \in 1..fork : t \notin blockTxs[base[h]]
                /\ Switched(base, more, free, fate, made, fork)
    BY <1>4, ReorgIs
  <2>1. PICK more \in Nat \ {0}, made \in Nat, fork \in Nat, free \in SUBSET Tx :
            \E fate :
                /\ made = Len(blockTxs) /\ fork = Len(base)
                /\ fork + more = Len(nodeChain) + 1
                /\ \A t \in free, h \in 1..fork : t \notin blockTxs[base[h]]
                /\ Switched(base, more, free, fate, made, fork)
    BY <2>0
  <2>2. PICK fate :
            /\ made = Len(blockTxs) /\ fork = Len(base)
            /\ fork + more = Len(nodeChain) + 1
            /\ \A t \in free, h \in 1..fork : t \notin blockTxs[base[h]]
            /\ Switched(base, more, free, fate, made, fork)
    BY <2>1
  <2>3. Len(nodeChain) \in Nat
    OBVIOUS
  <2>4. /\ nodeChain' \in Seq(Nat \ {0}) /\ blockTxs' \in Seq(SUBSET Tx)
        /\ Len(nodeChain') = fork + more /\ Len(blockTxs') = made + more
        /\ \A h \in 1..(fork + more) : nodeChain'[h] \in 1..(made + more)
        /\ blockIndex' \in Seq(Seq(1..(made + more))) /\ Len(blockIndex') = made + more
        /\ \A b \in 1..made : blockIndex'[b] = blockIndex[b]
        /\ \A b \in (made + 1)..(made + more) : Len(blockIndex'[b]) = fork + b - made
    BY <2>2 DEF Switched
  <2>5. \A b \in 1..(made + more) : Len(blockIndex'[b]) <= fork + more
    <3> TAKE b \in 1..(made + more)
    <3>1. CASE b \in 1..made
      <4>1. Len(blockIndex[b]) <= Len(nodeChain) /\ Len(blockIndex[b]) \in Nat
        BY <2>2, <3>1
      <4>2. blockIndex'[b] = blockIndex[b]
        BY <2>4, <3>1
      <4> QED BY <2>2, <2>3, <4>1, <4>2
    <3>2. CASE b \in (made + 1)..(made + more)
      <4>1. Len(blockIndex'[b]) = fork + b - made
        BY <2>4, <3>2
      <4> QED BY <3>2, <4>1
    <3> QED BY <3>1, <3>2
  <2>6. reorgs' \in 0..MaxReorgs /\ drops' \in 0..MaxDrops
    BY <1>4 DEF Reorg
  <2>7. mempool' \in SUBSET Tx
    BY <2>2 DEF Switched
  <2>8. \A h \in 1..(fork + more) : nodeChain'[h] <= made + more
    BY <2>4
  <2> QED BY <2>4, <2>5, <2>6, <2>7, <2>8
<1> QED BY <1>1, <1>2, <1>3, <1>4 DEF NodeStep

\* Every step keeps every variable in its type.
LEMMA TypeStep == TypeOK /\ [Next]_vars => TypeOK'
<1> SUFFICES ASSUME TypeOK, [Next]_vars PROVE TypeOK'
  OBVIOUS
<1> USE SyncAssumption DEF TypeOK
<1>r. /\ EmptyWallet(NoReveal) \in WalletState
      /\ FreshFor(wallet) \in WalletState
      /\ init_or_load_wallet(persisted) \in WalletState
  BY EmptyWalletType, LoadType DEF NoReveal, FreshFor, WalletState
<1>n. NodeTypeOK /\ UNCHANGED nodeVars => NodeTypeOK'
  BY DEF NodeTypeOK, nodeVars
<1>f. /\ NoResult \in [evicted : SUBSET Tx, rebuilt : BOOLEAN]
      /\ NoLast \in Nat
  BY DEF NoResult, NoLast
<1>h. BlocksOf(nodeChain) \in SUBSET (Nat \ {0})
  BY DEF BlocksOf, NodeTypeOK
<1>e. \A h : h \in 1..Len(nodeChain) => NextAfter(h) \in Nat \cup {NoMore}
  BY DEF NextAfter, NoMore, NodeTypeOK
<1>1. CASE SyncStart
  <2>1. Len(wallet.chain) \in Nat
    BY DEF WalletState
  <2> QED BY <1>1, <1>n, <2>1, ReadersType DEF SyncStart, appVars, NoLast
<1>2. CASE DriveBlock
  <2>1. wallet' \in WalletState /\ next' \in Nat \cup {NoMore}
    BY <1>2, <1>e, ApplyType DEF DriveBlock
  <2> QED BY <1>2, <1>n, <2>1 DEF DriveBlock, appVars
<1>3. CASE DriveCannotConnect
  BY <1>3, <1>n, <1>r, <1>h DEF DriveCannotConnect, BeginRebuild, appVars, NoLast
<1>4. CASE DriveEnd
  <2>1. CASE BeginRebuild(wallet)
    BY <1>4, <1>n, <1>r, <1>h, <2>1 DEF DriveEnd, BeginRebuild, appVars, NoLast
  <2>2. CASE pc' = "mempool"
                /\ UNCHANGED <<wallet, before, start, next, fresh, result, stayed>>
    BY <1>4, <1>n, <2>2 DEF DriveEnd, appVars
  <2> QED BY <1>4, <2>1, <2>2 DEF DriveEnd
<1>5. CASE FetchMempool
  <2> DEFINE w == apply_unconfirmed_txs(wallet, mempool)
  <2>1. w \in WalletState /\ FreshFor(w) \in WalletState
    BY ApplyType, EmptyWalletType DEF FreshFor, WalletState
  <2>2. BeginRebuild(w) \/ Return(w, {}, FALSE)
    BY <1>5 DEF FetchMempool
  <2>3. UNCHANGED <<nodeVars, appVars, still>>
    BY <1>5 DEF FetchMempool
  <2> HIDE DEF w
  <2>4. CASE BeginRebuild(w)
    BY <1>n, <1>f, <1>h, <2>1, <2>3, <2>4 DEF BeginRebuild, appVars
  <2>5. CASE Return(w, {}, FALSE)
    BY <1>n, <1>r, <1>f, <2>1, <2>3, <2>5 DEF Return, appVars
  <2> QED BY <2>2, <2>4, <2>5
<1>6. CASE RebuildBlock
  <2>1. fresh' \in WalletState /\ next' \in Nat \cup {NoMore}
    BY <1>6, <1>e, ApplyType DEF RebuildBlock
  <2> QED BY <1>6, <1>n, <2>1 DEF RebuildBlock, appVars
<1>7. CASE RebuildEnd
  BY <1>7, <1>n DEF RebuildEnd, appVars
<1>8. CASE RebuildFinish
  <2> DEFINE w == apply_unconfirmed_txs(fresh, mempool)
  <2>1. w \in WalletState
    BY ApplyType
  <2>2. Return(w, Evicted(w), TRUE) /\ UNCHANGED <<nodeVars, appVars, still>>
    BY <1>8 DEF RebuildFinish
  <2> HIDE DEF w
  <2> QED BY <1>n, <1>r, <2>1, <2>2 DEF Return, Evicted, appVars, NoLast
<1>9. CASE RpcFailure
  <2>1. wallet' \in WalletState /\ faults' \in 0..MaxFaults
    BY <1>9, <1>r DEF RpcFailure, Abandon
  <2> QED BY <1>9, <1>n, <1>r, <1>f, <2>1 DEF RpcFailure, Abandon
<1>10. CASE Restart
  <2>1. wallet' \in WalletState /\ faults' \in 0..MaxFaults
    BY <1>10, <1>r DEF Restart, Abandon
  <2> QED BY <1>10, <1>n, <1>r, <1>f, <2>1 DEF Restart, Abandon
<1>11. CASE Persist
  <2>1. persisted' \in SUBSET WalletState
    BY <1>11, MergeType DEF Persist, Store
  <2> QED BY <1>11, <1>n, <1>r, <1>f, <2>1 DEF Persist, Abandon
<1>12. ASSUME NEW k \in Keychain, Reveal(k) PROVE TypeOK'
  <2>1. wallet' \in WalletState
    <3>1. wallet' = [wallet EXCEPT
            !.revealed = [wallet.revealed EXCEPT ![k] = wallet.revealed[k] + 1]]
      BY <1>12 DEF Reveal
    <3>2. [wallet.revealed EXCEPT ![k] = wallet.revealed[k] + 1]
            \in [Keychain -> Nat]
      BY <1>12 DEF WalletState
    <3> QED BY <3>1, <3>2 DEF WalletState
  <2>2. persisted' \in SUBSET WalletState
    BY <1>12, <2>1, MergeType DEF Reveal
  <2> QED BY <1>12, <1>n, <2>1, <2>2 DEF Reveal
<1>13. CASE NodeMoves
  <2>1. NodeTypeOK'
    BY <1>13, NodeStepType, ReadersType DEF NodeMoves
  <2> QED BY <1>13, <2>1 DEF NodeMoves, syncVars, appVars
<1>14. CASE UNCHANGED vars
  BY <1>14, <1>n DEF vars, syncVars, appVars
<1> QED BY <1>1, <1>2, <1>3, <1>4, <1>5, <1>6, <1>7, <1>8, <1>9, <1>10, <1>11,
           <1>12, <1>13, <1>14 DEF Next, SyncStep

\* Type correctness of chain_sync.rs: every behaviour keeps every variable,
\* and every part of the live, fresh and stored wallets, in its type.
THEOREM TypeCorrect == Spec => []TypeOK
<1>1. Init => TypeOK
  <2> SUFFICES ASSUME Init PROVE TypeOK
    OBVIOUS
  <2>1. EmptyWallet(NoReveal) \in WalletState
    BY EmptyWalletType DEF NoReveal
  <2>2. NodeTypeOK
    BY BoundsAssumption DEF Init, NodeInit, NodeTypeOK
  <2>3. NoResult \in [evicted : SUBSET Tx, rebuilt : BOOLEAN]
    BY DEF NoResult
  <2>4. wallet = EmptyWallet(NoReveal)
    BY DEF Init, init_or_load_wallet
  <2>5. faults \in 0..MaxFaults /\ next \in Nat \cup {NoMore} /\ start \in Nat
    BY SyncAssumption DEF Init, NoLast
  <2> QED BY <2>1, <2>2, <2>3, <2>4, <2>5 DEF Init, TypeOK
<1> QED BY <1>1, TypeStep, PTL DEF Spec

----------------------------------------------------------------------------
(* Signal 2 subsumes signal 1                                               *)

\* During the block drive, what was confirmed before it is still anchored.
BeforeAnchored ==
    pc = "drive" => \A t \in before : \E b : <<t, b>> \in wallet.anchors

\* A confirmed transaction is anchored.
LEMMA ConfirmedAnchored ==
    ASSUME NEW w \in WalletState, NEW t \in confirmed_txids(w)
    PROVE  \E b : <<t, b>> \in w.anchors
<1>1. PICK a \in w.anchors : a[1] = t
  BY DEF confirmed_txids
<1>2. a \in Tx \X (Nat \ {0})
  BY <1>1 DEF WalletState
<1>3. a = <<t, a[2]>>
  BY <1>1, <1>2
<1> QED BY <1>1, <1>3

\* Applying a block only adds anchors; applying a mempool only adds sightings.
LEMMA ApplyGrows ==
    ASSUME NEW w \in WalletState, NEW h, NEW pool
    PROVE  /\ w.anchors \subseteq ApplyBlock(w, h).anchors
           /\ ApplyBlock(w, h).seen = w.seen
           /\ apply_unconfirmed_txs(w, pool).anchors = w.anchors
           /\ w.seen \subseteq apply_unconfirmed_txs(w, pool).seen
           /\ apply_unconfirmed_txs(w, pool).chain = w.chain
BY DEF WalletState, ApplyBlock, apply_unconfirmed_txs

\* Every step keeps the baseline of a block drive anchored: the drive only adds
\* anchors, and everything else leaves the drive.
LEMMA BeforeAnchoredStep ==
    TypeOK /\ BeforeAnchored /\ [Next]_vars => BeforeAnchored'
<1> SUFFICES ASSUME TypeOK, BeforeAnchored, [Next]_vars, pc' = "drive"
             PROVE  \A t \in before' : \E b : <<t, b>> \in wallet'.anchors
  BY DEF BeforeAnchored
<1>1. CASE SyncStart
  <2>1. wallet' = wallet /\ before' = confirmed_txids(wallet)
    BY <1>1 DEF SyncStart
  <2> QED BY <2>1, ConfirmedAnchored DEF TypeOK
<1>2. CASE DriveBlock
  <2>1. PICK h \in 1..Len(nodeChain) : wallet' = ApplyBlock(wallet, h)
    BY <1>2 DEF DriveBlock
  <2>2. wallet.anchors \subseteq wallet'.anchors
    BY <2>1, ApplyGrows DEF TypeOK
  <2>3. pc = "drive" /\ before' = before
    BY <1>2 DEF DriveBlock
  <2> QED BY <2>2, <2>3 DEF BeforeAnchored
<1>3. CASE NodeMoves \/ UNCHANGED vars
  BY <1>3 DEF NodeMoves, vars, syncVars, BeforeAnchored
<1>4. CASE DriveCannotConnect \/ DriveEnd \/ FetchMempool
  BY <1>4 DEF DriveCannotConnect, DriveEnd, FetchMempool, BeginRebuild, Return
<1>5. CASE RebuildBlock \/ RebuildEnd \/ RebuildFinish
  BY <1>5 DEF RebuildBlock, RebuildEnd, RebuildFinish, Return
<1>6. CASE RpcFailure \/ Restart \/ Persist
  BY <1>6 DEF RpcFailure, Restart, Persist, Abandon
<1>7. ASSUME NEW k \in Keychain, Reveal(k) PROVE FALSE
  BY <1>7 DEF Reveal
<1> QED BY <1>1, <1>2, <1>3, <1>4, <1>5, <1>6, <1>7 DEF Next, SyncStep

\* emitter_sync's comment "Signal 2 is a strict superset of signal 1": in every
\* behaviour a demotion seen by the block drive is also an orphaned anchor, so
\* dropping the demotion check would change no pass.
THEOREM SignalSupersetHolds == Spec => []SignalSuperset
<1>1. Init => BeforeAnchored
  BY DEF Init, BeforeAnchored
<1>2. TypeOK /\ BeforeAnchored => SignalSuperset
  <2> SUFFICES ASSUME TypeOK, BeforeAnchored, pc = "drive", Demoted(wallet)
               PROVE  has_orphaned_anchor(wallet)
    BY DEF SignalSuperset
  <2>1. PICK t \in before : t \notin confirmed_txids(wallet)
    BY DEF Demoted
  <2>2. PICK b : <<t, b>> \in wallet.anchors
    BY <2>1 DEF BeforeAnchored
  <2>3. b \notin ChainBlocks(wallet)
    BY <2>1, <2>2 DEF confirmed_txids
  <2> QED BY <2>2, <2>3 DEF has_orphaned_anchor
<1> QED BY <1>1, <1>2, TypeCorrect, BeforeAnchoredStep, PTL DEF Spec

----------------------------------------------------------------------------
(* The stored aggregate and the evictions reported against it               *)

stored == init_or_load_wallet(persisted)

\* Between passes the live wallet is the stored one; a pass takes its eviction
\* baseline from the stored wallet and, unless it rebuilds, only adds to it; a
\* rebuild reports what the baseline has and the rebuilt graph has not.
GrowsFromStored ==
    /\ pc = "idle" => stored = wallet
    /\ pc # "idle" => before = confirmed_txids(stored)
    /\ pc \in {"drive", "mempool"} \/ (pc = "returned" /\ ~result.rebuilt) =>
            stored.anchors \subseteq wallet.anchors
            /\ stored.seen \subseteq wallet.seen
    /\ pc = "returned" /\ result.rebuilt =>
            result.evicted = before \ Known(wallet)

\* Loading an aggregate of one wallet gives that wallet.
LEMMA LoadOne ==
    ASSUME NEW w
    PROVE  init_or_load_wallet({w}) = w
BY DEF init_or_load_wallet

\* Merging a wallet that has all the aggregate has stores that wallet.
LEMMA MergeGrown ==
    ASSUME NEW p \in SUBSET WalletState, NEW w \in WalletState,
           init_or_load_wallet(p).anchors \subseteq w.anchors,
           init_or_load_wallet(p).seen \subseteq w.seen
    PROVE  init_or_load_wallet(MergeInto(p, w)) = w
<1> DEFINE old == init_or_load_wallet(p)
           m == [w EXCEPT !.anchors = @ \cup old.anchors,
                          !.seen = @ \cup old.seen]
<1>1. w.anchors \cup old.anchors = w.anchors /\ w.seen \cup old.seen = w.seen
  OBVIOUS
<1> HIDE DEF old
<1>2. m = w
  BY <1>1 DEF WalletState
<1> QED BY <1>2, LoadOne DEF MergeInto, old

\* Every step of a system whose application reloads after an Err keeps the
\* inductive invariant.
LEMMA GrowsFromStoredStep ==
    ASSUME ReloadOnError
    PROVE  TypeOK /\ GrowsFromStored /\ [Next]_vars => GrowsFromStored'
<1> SUFFICES ASSUME TypeOK, GrowsFromStored, [Next]_vars
             PROVE  GrowsFromStored'
  OBVIOUS
<1>w. wallet \in WalletState /\ persisted \in SUBSET WalletState
  BY DEF TypeOK
<1>s. persisted' = persisted => stored' = stored
  BY DEF stored
<1>1. CASE SyncStart
  BY <1>1, <1>s DEF SyncStart, appVars, GrowsFromStored
<1>2. CASE DriveBlock
  <2>1. PICK h \in 1..Len(nodeChain) : wallet' = ApplyBlock(wallet, h)
    BY <1>2 DEF DriveBlock
  <2>2. wallet.anchors \subseteq wallet'.anchors /\ wallet'.seen = wallet.seen
    BY <1>w, <2>1, ApplyGrows
  <2> QED BY <1>2, <1>s, <2>2 DEF DriveBlock, appVars, GrowsFromStored
<1>3. CASE DriveCannotConnect \/ DriveEnd
  BY <1>3, <1>s
  DEF DriveCannotConnect, DriveEnd, BeginRebuild, appVars, GrowsFromStored
<1>4. CASE FetchMempool
  <2> DEFINE w == apply_unconfirmed_txs(wallet, mempool)
  <2>1. BeginRebuild(w) \/ Return(w, {}, FALSE)
    BY <1>4 DEF FetchMempool
  <2>2. pc = "mempool" /\ persisted' = persisted
    BY <1>4 DEF FetchMempool, appVars
  <2>3. w.anchors = wallet.anchors /\ wallet.seen \subseteq w.seen
    BY <1>w, ApplyGrows
  <2> HIDE DEF w
  <2>4. CASE BeginRebuild(w)
    BY <1>s, <2>2, <2>4 DEF BeginRebuild, GrowsFromStored
  <2>5. CASE Return(w, {}, FALSE)
    BY <1>s, <2>2, <2>3, <2>5 DEF Return, GrowsFromStored
  <2> QED BY <2>1, <2>4, <2>5
<1>5. CASE RebuildBlock \/ RebuildEnd
  BY <1>5, <1>s DEF RebuildBlock, RebuildEnd, appVars, GrowsFromStored
<1>6. CASE RebuildFinish
  <2> DEFINE w == apply_unconfirmed_txs(fresh, mempool)
  <2>1. Return(w, before \ Known(w), TRUE) /\ persisted' = persisted
            /\ pc = "rebuildMempool"
    BY <1>6 DEF RebuildFinish, Evicted, appVars
  <2> HIDE DEF w
  <2>2. pc' = "returned" /\ result'.rebuilt = TRUE /\ before' = before
            /\ result'.evicted = before \ Known(wallet')
    BY <2>1 DEF Return
  <2> QED BY <1>s, <2>1, <2>2 DEF GrowsFromStored, Known
<1>7. CASE RpcFailure \/ Restart
  BY <1>7, <1>s DEF RpcFailure, Restart, Abandon, stored, GrowsFromStored
<1>8. CASE Persist
  <2>1. pc' = "idle" /\ wallet' = wallet /\ pc = "returned"
            /\ persisted' = Store(persisted, wallet, result)
    BY <1>8 DEF Persist, Abandon
  <2>2. init_or_load_wallet(Store(persisted, wallet, result)) = wallet
    <3>1. CASE result.rebuilt
      BY <3>1, LoadOne DEF Store
    <3>2. CASE ~result.rebuilt
      BY <1>w, <2>1, <3>2, MergeGrown DEF Store, GrowsFromStored, stored
    <3> QED BY <3>1, <3>2
  <2> QED BY <2>1, <2>2 DEF GrowsFromStored, stored
<1>9. ASSUME NEW k \in Keychain, Reveal(k) PROVE GrowsFromStored'
  <2>1. pc = "idle" /\ pc' = "idle"
            /\ wallet' = [wallet EXCEPT !.revealed[k] = @ + 1]
            /\ persisted' = MergeInto(persisted, wallet')
    BY <1>9 DEF Reveal
  <2>2. wallet' \in WalletState
    BY TypeStep DEF TypeOK
  <2>3. wallet'.anchors = wallet.anchors /\ wallet'.seen = wallet.seen
    BY <1>w, <2>1 DEF WalletState
  <2>4. init_or_load_wallet(persisted') = wallet'
    BY <1>w, <2>1, <2>2, <2>3, MergeGrown, ZenonT(60) DEF GrowsFromStored, stored
  <2> QED BY <2>1, <2>4 DEF GrowsFromStored, stored
<1>10. CASE NodeMoves \/ UNCHANGED vars
  BY <1>10, <1>s
  DEF NodeMoves, vars, syncVars, appVars, GrowsFromStored, Known
<1> QED BY <1>1, <1>2, <1>3, <1>4, <1>5, <1>6, <1>7, <1>8, <1>9, <1>10
        DEF Next, SyncStep

\* The inductive invariant holds of an application that reloads after an Err.
LEMMA GrowsFromStoredHolds ==
    ASSUME ReloadOnError
    PROVE  Spec => []GrowsFromStored
<1>1. Init => GrowsFromStored
  BY DEF Init, GrowsFromStored, stored
<1> QED BY <1>1, TypeCorrect, GrowsFromStoredStep, PTL DEF Spec

\* For an application that reloads after an Err: storing what emitter_sync
\* returns (merge, or replace on reorg_rebuilt) always stores the live wallet.
THEOREM StoredMatchesLiveHolds == Spec => []StoredMatchesLive
<1>1. CASE ReloadOnError
  <2>1. GrowsFromStored => StoredMatchesLive
    BY DEF GrowsFromStored, StoredMatchesLive, stored
  <2> QED BY <1>1, <2>1, GrowsFromStoredHolds, PTL
<1>2. CASE ~ReloadOnError
  <2>1. StoredMatchesLive
    BY <1>2 DEF StoredMatchesLive
  <2> QED BY <2>1, PTL
<1> QED BY <1>1, <1>2

\* For an application that reloads after an Err: no transaction the stored
\* aggregate has as confirmed ever leaves it without being in evicted_txids,
\* whatever the node, the RPC and the process do.
THEOREM EvictionNeverLost ==
    ASSUME ReloadOnError
    PROVE  Spec => EvictionReported
<1>1. TypeOK /\ GrowsFromStored /\ [Next]_vars =>
        [\A t \in confirmed_txids(init_or_load_wallet(persisted)) :
            t \in Known(init_or_load_wallet(persisted'))
                \/ t \in result.evicted]_vars
  <2> SUFFICES ASSUME TypeOK, GrowsFromStored, Next,
                      NEW t \in confirmed_txids(stored),
                      t \notin result.evicted
               PROVE  t \in Known(stored')
    BY DEF stored
  <2>1. stored \in WalletState /\ t \in Known(stored)
    BY LoadType DEF TypeOK, stored, confirmed_txids, Known
  <2>2. CASE persisted' = persisted
    BY <2>1, <2>2 DEF stored
  <2>3. CASE Persist
    <3>1. CASE result.rebuilt
      BY <2>3, <3>1, LoadOne
      DEF Persist, Store, stored, GrowsFromStored
    <3>2. CASE ~result.rebuilt
      <4>1. stored' = wallet
        BY <2>3, <3>2, MergeGrown
        DEF Persist, Store, stored, GrowsFromStored, TypeOK
      <4> QED BY <2>1, <2>3, <3>2, <4>1 DEF Persist, GrowsFromStored, Known
    <3> QED BY <3>1, <3>2
  <2>4. ASSUME NEW k \in Keychain, Reveal(k) PROVE t \in Known(stored')
    <3>1. stored = wallet /\ stored' = wallet'
      BY <2>4, GrowsFromStoredStep DEF GrowsFromStored, Reveal
    <3>2. wallet'.anchors = wallet.anchors /\ wallet'.seen = wallet.seen
      BY <2>4 DEF Reveal, TypeOK, WalletState
    <3> QED BY <2>1, <3>1, <3>2 DEF Known
  <2>5. Persist \/ (\E k \in Keychain : Reveal(k)) \/ persisted' = persisted
    BY DEF Next, SyncStep, SyncStart, DriveBlock, DriveCannotConnect, DriveEnd,
           FetchMempool, RebuildBlock, RebuildEnd, RebuildFinish, RpcFailure,
           Restart, NodeMoves, appVars
  <2> QED BY <2>2, <2>3, <2>4, <2>5
<1> QED BY <1>1, TypeCorrect, GrowsFromStoredHolds, PTL
        DEF Spec, EvictionReported

----------------------------------------------------------------------------
(* Chains                                                                  *)

\* What chain c shares with "best" is a common prefix of both.
Agrees(c, best) ==
    \A h \in 1..Len(c), i \in 1..Len(best) :
        c[h] = best[i] => h = i /\ \A j \in 1..h : c[j] = best[j]

PrefixOf(c, best) ==
    Len(c) <= Len(best) /\ \A h \in 1..Len(c) : c[h] = best[h]

Below(c, n) == \A h \in 1..Len(c) : c[h] <= n

\* Chain c is a branch of the block tree: below each of its blocks it is the
\* chain that the index has for that block.
Branch(c, index) ==
    \A h \in 1..Len(c) :
        Len(index[c[h]]) = h /\ \A i \in 1..h : index[c[h]][i] = c[i]

\* The best chain and all chains of the index are branches, and no transaction
\* of the mempool is confirmed.
NodeInv ==
    /\ Branch(nodeChain, blockIndex)
    /\ \A b \in 1..Len(blockTxs) : Branch(blockIndex[b], blockIndex)
    /\ mempool \cap NodeConfirmed = {}

\* What a step of the node does to its blocks: none is forgotten or changed.
NodeMoved ==
    /\ Len(blockTxs) <= Len(blockTxs')
    /\ \A b \in 1..Len(blockTxs) :
        blockTxs'[b] = blockTxs[b] /\ blockIndex'[b] = blockIndex[b]

\* Without a reorg the best chain only grows.
ChainGrows == reorgs' = 0 => reorgs = 0 /\ PrefixOf(nodeChain, nodeChain')

\* Two branches of one tree agree.
LEMMA BranchesAgree ==
    ASSUME NEW c \in Seq(Nat \ {0}), NEW best \in Seq(Nat \ {0}), NEW index,
           Branch(c, index), Branch(best, index)
    PROVE  Agrees(c, best)
<1> SUFFICES ASSUME NEW h \in 1..Len(c), NEW i \in 1..Len(best), c[h] = best[i]
             PROVE  h = i /\ \A j \in 1..h : c[j] = best[j]
  BY DEF Agrees
<1>1. /\ Len(index[c[h]]) = h /\ \A j \in 1..h : index[c[h]][j] = c[j]
      /\ Len(index[c[h]]) = i /\ \A j \in 1..i : index[c[h]][j] = best[j]
  BY SMTT(30) DEF Branch
<1>2. h = i
  BY <1>1
<1> QED BY <1>1, <1>2

\* An initial part of a branch is a branch.
LEMMA BranchPart ==
    ASSUME NEW c \in Seq(Nat \ {0}), NEW best \in Seq(Nat \ {0}), NEW index,
           Branch(best, index), PrefixOf(c, best)
    PROVE  Branch(c, index)
<1> SUFFICES ASSUME NEW h \in 1..Len(c)
             PROVE  Len(index[c[h]]) = h /\ \A i \in 1..h : index[c[h]][i] = c[i]
  BY DEF Branch
<1>1. h \in 1..Len(best) /\ c[h] = best[h]
  BY DEF PrefixOf
<1>2. \A i \in 1..h : i \in 1..Len(c) /\ c[i] = best[i]
  BY DEF PrefixOf
<1> QED BY <1>1, <1>2 DEF Branch

\* The node's invariant holds initially.
LEMMA NodeInvInit == NodeInit => NodeInv
BY DEF NodeInit, NodeInv, Branch, NodeConfirmed, ConfirmedBy

\* A mempool transaction is confirmed by no block of the best chain.
LEMMA MempoolNotConfirmed ==
    ASSUME NodeTypeOK
    PROVE  mempool \cap NodeConfirmed = {} <=>
            \A h \in 1..Len(nodeChain) : mempool \cap blockTxs[nodeChain[h]] = {}
BY DEF NodeConfirmed, ConfirmedBy, BlocksOf

\* Every step of the node keeps its invariant and moves its chain as said.
LEMMA NodeStepMoves ==
    ASSUME NodeTypeOK, NodeInv, NEW payable \in SUBSET Tx, NodeStep(payable)
    PROVE  NodeInv' /\ NodeMoved /\ ChainGrows
<1>t. NodeTypeOK'
  BY NodeStepType
<1>n. /\ nodeChain \in Seq(Nat \ {0}) /\ blockTxs \in Seq(SUBSET Tx)
      /\ reorgs \in Nat /\ Len(nodeChain) \in Nat /\ Len(blockTxs) \in Nat
      /\ \A h \in 1..Len(nodeChain) : nodeChain[h] \in 1..Len(blockTxs)
  BY BoundsAssumption DEF NodeTypeOK
<1>i. \A b \in 1..Len(blockTxs) :
        /\ blockIndex[b] \in Seq(1..Len(blockTxs))
        /\ \A h \in 1..Len(blockIndex[b]) : blockIndex[b][h] \in 1..Len(blockTxs)
  <2>1. \A b \in 1..Len(blockTxs) : blockIndex[b] \in Seq(1..Len(blockTxs))
    BY DEF NodeTypeOK
  <2> QED BY <2>1
<1>c. \A h \in 1..Len(nodeChain) : mempool \cap blockTxs[nodeChain[h]] = {}
  BY MempoolNotConfirmed DEF NodeInv
<1>1. CASE /\ nodeChain' = nodeChain /\ blockTxs' = blockTxs
           /\ blockIndex' = blockIndex /\ reorgs' = reorgs
           /\ mempool' \cap NodeConfirmed = {}
  <2>1. NodeInv'
    BY <1>1 DEF NodeInv, Branch, NodeConfirmed, ConfirmedBy, BlocksOf
  <2> QED BY <1>1, <1>n, <2>1 DEF NodeMoved, ChainGrows, PrefixOf
<1>2. CASE Broadcast(payable)
  <2>1. mempool' \cap NodeConfirmed = {}
    BY <1>2 DEF Broadcast, NodeTxs, NodeInv
  <2> QED BY <1>1, <1>2, <2>1 DEF Broadcast
<1>3. CASE DropFromMempool
  <2>1. mempool' \cap NodeConfirmed = {}
    BY <1>3 DEF DropFromMempool, NodeInv
  <2> QED BY <1>1, <1>3, <2>1 DEF DropFromMempool
<1>4. CASE Mine(payable)
  <2> DEFINE made == Len(blockTxs)
             tip == Len(nodeChain)
  <2>1. PICK txs \in SUBSET (payable \ NodeConfirmed) :
            blockTxs' = Append(blockTxs, txs) /\ mempool' = mempool \ txs
    BY <1>4 DEF Mine
  <2>2. /\ nodeChain' = Append(nodeChain, made + 1) /\ reorgs' = reorgs
        /\ blockIndex' = Append(blockIndex, nodeChain')
    BY <1>4 DEF Mine
  <2>3. /\ Len(nodeChain') = tip + 1 /\ Len(blockTxs') = made + 1
        /\ made \in Nat /\ tip \in Nat
        /\ \A h \in 1..tip : nodeChain'[h] = nodeChain[h]
        /\ \A b \in 1..made : blockTxs'[b] = blockTxs[b]
        /\ nodeChain'[tip + 1] = made + 1
        /\ blockTxs'[made + 1] = txs
    BY <1>n, <2>1, <2>2
  <2>4. /\ \A b \in 1..made : blockIndex'[b] = blockIndex[b]
        /\ blockIndex'[made + 1] = nodeChain'
    <3> DEFINE S == Seq(1..made)
    <3>1. blockIndex \in Seq(S) /\ Len(blockIndex) = made
      BY DEF NodeTypeOK
    <3> HIDE DEF S
    <3> QED BY <2>2, <2>3, <3>1
  <2>a. \A h \in 1..(tip + 1) : h \in 1..tip \/ h = tip + 1
    BY <2>3
  <2>n. \A h \in 1..tip : nodeChain[h] \in 1..made
    BY <1>n
  <2>i. \A b \in 1..made : \A h \in 1..Len(blockIndex[b]) :
            blockIndex[b][h] \in 1..made
    BY <1>i
  <2> HIDE DEF made, tip
  <2>5. Branch(nodeChain', blockIndex')
    <3>1. ASSUME NEW h \in 1..(tip + 1)
          PROVE  /\ Len(blockIndex'[nodeChain'[h]]) = h
                 /\ \A i \in 1..h : blockIndex'[nodeChain'[h]][i] = nodeChain'[i]
      <4>1. CASE h \in 1..tip
        <5>1. /\ Len(blockIndex[nodeChain[h]]) = h
              /\ \A i \in 1..h : blockIndex[nodeChain[h]][i] = nodeChain[i]
          BY <4>1 DEF NodeInv, Branch, tip
        <5>2. blockIndex'[nodeChain'[h]] = blockIndex[nodeChain[h]]
          BY <2>3, <2>4, <2>n, <4>1
        <5>3. \A i \in 1..h : nodeChain'[i] = nodeChain[i]
          BY <2>3, <4>1
        <5> QED BY <5>1, <5>2, <5>3
      <4>2. CASE h = tip + 1
        BY <2>3, <2>4, <4>2
      <4> QED BY <2>a, <4>1, <4>2
    <3> QED BY <2>3, <3>1 DEF Branch
  <2>6. \A b \in 1..(made + 1) : Branch(blockIndex'[b], blockIndex')
    <3> TAKE b \in 1..(made + 1)
    <3>1. CASE b \in 1..made
      <4>1. Branch(blockIndex[b], blockIndex)
        BY <3>1 DEF NodeInv, made
      <4>2. \A h \in 1..Len(blockIndex[b]) : blockIndex[b][h] \in 1..made
        BY <2>i, <3>1
      <4>3. Branch(blockIndex[b], blockIndex')
        BY <2>4, <4>1, <4>2 DEF Branch
      <4> QED BY <2>4, <3>1, <4>3
    <3>2. CASE b = made + 1
      BY <2>4, <2>5, <3>2
    <3> QED BY <2>3, <3>1, <3>2
  <2>7. \A h \in 1..(tip + 1) : mempool' \cap blockTxs'[nodeChain'[h]] = {}
    <3> TAKE h \in 1..(tip + 1)
    <3>1. CASE h \in 1..tip
      <4>1. blockTxs'[nodeChain'[h]] = blockTxs[nodeChain[h]]
        BY <2>3, <2>n, <3>1
      <4> QED BY <1>c, <2>1, <3>1, <4>1 DEF tip
    <3>2. CASE h = tip + 1
      BY <2>1, <2>3, <3>2
    <3> QED BY <2>a, <3>1, <3>2
  <2>8. (mempool \cap NodeConfirmed = {})'
    BY <1>t, <2>3, <2>7 DEF NodeConfirmed, ConfirmedBy, BlocksOf
  <2>9. NodeInv'
    BY <2>3, <2>5, <2>6, <2>8 DEF NodeInv
  <2>10. NodeMoved
    BY <2>3, <2>4 DEF NodeMoved, made
  <2>11. ChainGrows
    BY <2>2, <2>3 DEF ChainGrows, PrefixOf, tip
  <2> QED BY <2>9, <2>10, <2>11
<1>5. CASE Reorg(payable)
  <2>0. PICK base \in {<<>>} \cup {blockIndex[b] : b \in 1..Len(blockTxs)} :
            \E more \in Nat \ {0}, made \in Nat, fork \in Nat, free \in SUBSET Tx :
            \E fate :
                /\ made = Len(blockTxs) /\ fork = Len(base)
                /\ fork + more = Len(nodeChain) + 1
                /\ \A t \in free, h \in 1..fork : t \notin blockTxs[base[h]]
                /\ Switched(base, more, free, fate, made, fork)
    BY <1>5, ReorgIs
  <2>1. PICK more \in Nat \ {0}, made \in Nat, fork \in Nat, free \in SUBSET Tx :
            \E fate :
                /\ made = Len(blockTxs) /\ fork = Len(base)
                /\ fork + more = Len(nodeChain) + 1
                /\ \A t \in free, h \in 1..fork : t \notin blockTxs[base[h]]
                /\ Switched(base, more, free, fate, made, fork)
    BY <2>0
  <2>2. PICK fate :
            /\ made = Len(blockTxs) /\ fork = Len(base)
            /\ fork + more = Len(nodeChain) + 1
            /\ \A t \in free, h \in 1..fork : t \notin blockTxs[base[h]]
            /\ Switched(base, more, free, fate, made, fork)
    BY <2>1
  <2>f. \A t \in free, h \in 1..fork : t \notin blockTxs[base[h]]
    BY <2>2
  <2>b. \A h \in 1..fork : /\ Len(blockIndex[base[h]]) = h
                           /\ \A i \in 1..h : blockIndex[base[h]][i] = base[i]
    <3>1. Branch(base, blockIndex)
      <4>1. CASE base = <<>>
        BY <4>1 DEF Branch
      <4>2. CASE base \in {blockIndex[b] : b \in 1..Len(blockTxs)}
        BY <4>2 DEF NodeInv
      <4> QED BY <4>1, <4>2
    <3> QED BY <2>2, <3>1 DEF Branch
  <2>i. \A b \in 1..made : /\ Branch(blockIndex[b], blockIndex)
                           /\ \A h \in 1..Len(blockIndex[b]) :
                                    blockIndex[b][h] \in 1..made
    BY <1>i, <2>2 DEF NodeInv
  <2>m. mempool' = {t \in free : fate[t] = 0}
    BY <2>2 DEF Switched
  <2>4. /\ nodeChain' \in Seq(Nat \ {0})
        /\ Len(nodeChain') = fork + more /\ Len(blockTxs') = made + more
        /\ \A h \in 1..fork : nodeChain'[h] = base[h] /\ base[h] \in 1..made
        /\ \A h \in (fork + 1)..(fork + more) : nodeChain'[h] = made + h - fork
        /\ \A b \in 1..made :
            blockTxs'[b] = blockTxs[b] /\ blockIndex'[b] = blockIndex[b]
        /\ \A b \in (made + 1)..(made + more) :
            /\ \A t \in blockTxs'[b] : t \in free /\ fate[t] = b - made
            /\ Len(blockIndex'[b]) = fork + b - made
            /\ \A h \in 1..(fork + b - made) : blockIndex'[b][h] = nodeChain'[h]
    BY <2>2 DEF Switched
  <2>5. Branch(nodeChain', blockIndex')
    <3>1. ASSUME NEW h \in 1..(fork + more)
          PROVE  /\ Len(blockIndex'[nodeChain'[h]]) = h
                 /\ \A i \in 1..h : blockIndex'[nodeChain'[h]][i] = nodeChain'[i]
      <4>1. CASE h \in 1..fork
        <5>1. blockIndex'[nodeChain'[h]] = blockIndex[base[h]]
          BY <2>4, <4>1
        <5>2. \A i \in 1..h : nodeChain'[i] = base[i]
          BY <2>4, <4>1
        <5> QED BY <2>b, <4>1, <5>1, <5>2
      <4>2. CASE h \in (fork + 1)..(fork + more)
        <5> DEFINE b == made + h - fork
        <5>1. nodeChain'[h] = b /\ b \in (made + 1)..(made + more)
                /\ fork + b - made = h
          BY <2>4, <4>2
        <5> HIDE DEF b
        <5>2. /\ Len(blockIndex'[b]) = fork + b - made
              /\ \A j \in 1..(fork + b - made) : blockIndex'[b][j] = nodeChain'[j]
          BY <2>4, <5>1
        <5> QED BY <5>1, <5>2
      <4> QED BY <4>1, <4>2
    <3> QED BY <2>4, <3>1 DEF Branch
  <2>6. \A b \in 1..(made + more) : Branch(blockIndex'[b], blockIndex')
    <3> TAKE b \in 1..(made + more)
    <3>1. CASE b \in 1..made
      <4>1. Branch(blockIndex[b], blockIndex')
        <5>1. /\ Branch(blockIndex[b], blockIndex)
              /\ \A h \in 1..Len(blockIndex[b]) : blockIndex[b][h] \in 1..made
          BY <2>i, <3>1
        <5>2. \A h \in 1..Len(blockIndex[b]) :
                blockIndex'[blockIndex[b][h]] = blockIndex[blockIndex[b][h]]
          BY <2>4, <5>1
        <5> QED BY <5>1, <5>2 DEF Branch
      <4> QED BY <2>4, <3>1, <4>1
    <3>2. CASE b \in (made + 1)..(made + more)
      <4> DEFINE k == fork + b - made
      <4>1. /\ Len(blockIndex'[b]) = k /\ k \in 1..(fork + more)
            /\ \A h \in 1..k : blockIndex'[b][h] = nodeChain'[h]
        <5>1. \A c \in (made + 1)..(made + more) :
                /\ Len(blockIndex'[c]) = fork + c - made
                /\ \A h \in 1..(fork + c - made) : blockIndex'[c][h] = nodeChain'[h]
          BY <2>4
        <5>2. k \in 1..(fork + more)
          BY <3>2
        <5> QED BY <3>2, <5>1, <5>2
      <4> HIDE DEF k
      <4>2. \A h \in 1..k : \A i \in 1..h : i \in 1..k /\ h \in 1..(fork + more)
        BY <4>1
      <4>3. \A h \in 1..(fork + more) :
                /\ Len(blockIndex'[nodeChain'[h]]) = h
                /\ \A i \in 1..h : blockIndex'[nodeChain'[h]][i] = nodeChain'[i]
        BY <2>4, <2>5 DEF Branch
      <4>4. ASSUME NEW h \in 1..k
            PROVE  /\ Len(blockIndex'[blockIndex'[b][h]]) = h
                   /\ \A i \in 1..h :
                        blockIndex'[blockIndex'[b][h]][i] = blockIndex'[b][i]
        <5>1. h \in 1..(fork + more) /\ blockIndex'[b][h] = nodeChain'[h]
          BY <4>1
        <5>2. \A i \in 1..h : blockIndex'[b][i] = nodeChain'[i]
          BY <4>1, <4>2
        <5> QED BY <4>3, <5>1, <5>2
      <4> QED BY <4>1, <4>4 DEF Branch
    <3> QED BY <3>1, <3>2
  <2>7. \A h \in 1..(fork + more) : mempool' \cap blockTxs'[nodeChain'[h]] = {}
    <3> SUFFICES ASSUME NEW h \in 1..(fork + more), NEW t \in mempool',
                        t \in blockTxs'[nodeChain'[h]]
                 PROVE  FALSE
      OBVIOUS
    <3>1. t \in free /\ fate[t] = 0
      BY <2>m
    <3>2. CASE h \in 1..fork
      <4>1. blockTxs'[nodeChain'[h]] = blockTxs[base[h]]
        BY <2>4, <3>2
      <4> QED BY <2>f, <3>1, <3>2, <4>1
    <3>3. CASE h \in (fork + 1)..(fork + more)
      <4>1. nodeChain'[h] = made + h - fork
            /\ made + h - fork \in (made + 1)..(made + more)
        BY <2>4, <3>3
      <4>2. fate[t] = made + h - fork - made
        BY <2>4, <4>1, SMTT(30)
      <4> QED BY <3>1, <3>3, <4>2
    <3> QED BY <3>2, <3>3
  <2>8. (mempool \cap NodeConfirmed = {})'
    BY <1>t, <2>4, <2>7 DEF NodeConfirmed, ConfirmedBy, BlocksOf
  <2>9. NodeInv'
    BY <2>4, <2>5, <2>6, <2>8 DEF NodeInv
  <2>10. NodeMoved
    BY <2>2, <2>4 DEF NodeMoved
  <2>11. reorgs' # 0
    BY <1>5, <1>n DEF Reorg
  <2> QED BY <2>9, <2>10, <2>11 DEF ChainGrows
<1> QED BY <1>2, <1>3, <1>4, <1>5 DEF NodeStep

----------------------------------------------------------------------------
(* Wallets                                                                 *)

\* Every block a wallet remembers was made, its chain is a branch of the block
\* tree, its anchors are true, and it knows only payments to its addresses.
Sound(w, index, txs) ==
    /\ Below(w.chain, Len(txs))
    /\ Branch(w.chain, index)
    /\ \A a \in w.anchors : a[2] <= Len(txs) /\ a[1] \in txs[a[2]]
    /\ Known(w) \subseteq Indexed(w)

\* The emitter's cached successor is the block above the tip of the chain the
\* emitter has driven.
NextFollows(c, nxt, index, n) ==
    nxt > 0 =>
        /\ nxt <= n
        /\ Len(index[nxt]) = Len(c) + 1
        /\ \A i \in 1..Len(c) : index[nxt][i] = c[i]

\* What a sound wallet's chain shares with the best one is a common prefix.
LEMMA SoundAgrees ==
    ASSUME NodeTypeOK, NodeInv, NEW w \in WalletState, Sound(w, blockIndex, blockTxs)
    PROVE  Agrees(w.chain, nodeChain)
BY BranchesAgree DEF NodeTypeOK, NodeInv, WalletState, Sound

\* On the best chain, the cached successor is the block above the driven chain,
\* which is then an initial part of the best one.
LEMMA NextPlace ==
    ASSUME NodeTypeOK, NodeInv, NEW c \in Seq(Nat \ {0}), NEW nxt \in Nat, nxt > 0,
           NextFollows(c, nxt, blockIndex, Len(blockTxs)),
           NEW i \in 1..Len(nodeChain), nodeChain[i] = nxt
    PROVE  i = Len(c) + 1 /\ PrefixOf(c, nodeChain)
<1>1. Len(blockIndex[nxt]) = Len(c) + 1 /\ \A j \in 1..Len(c) : blockIndex[nxt][j] = c[j]
  BY DEF NextFollows
<1>2. Len(blockIndex[nxt]) = i /\ \A j \in 1..i : blockIndex[nxt][j] = nodeChain[j]
  BY DEF NodeInv, Branch
<1>3. i = Len(c) + 1 /\ Len(c) \in Nat
  BY <1>1, <1>2
<1>4. \A j \in 1..Len(c) : c[j] = nodeChain[j]
  BY <1>1, <1>2, <1>3
<1>5. Len(c) <= Len(nodeChain)
  BY <1>3 DEF NodeTypeOK
<1> QED BY <1>3, <1>4, <1>5 DEF PrefixOf

\* The fields of a wallet after a block.
LEMMA ApplyFields ==
    ASSUME NEW w \in WalletState, NEW h \in 1..Len(nodeChain)
    PROVE  /\ ApplyBlock(w, h).chain = [i \in 1..h |-> nodeChain[i]]
           /\ ApplyBlock(w, h).anchors = w.anchors \cup
                ((blockTxs[nodeChain[h]] \cap Indexed(w)) \X {nodeChain[h]})
           /\ ApplyBlock(w, h).seen = w.seen
           /\ ApplyBlock(w, h).revealed = w.revealed
BY DEF WalletState, ApplyBlock

\* The fields of a wallet after a mempool.
LEMMA MempoolFields ==
    ASSUME NEW w \in WalletState, NEW pool
    PROVE  /\ apply_unconfirmed_txs(w, pool).chain = w.chain
           /\ apply_unconfirmed_txs(w, pool).anchors = w.anchors
           /\ apply_unconfirmed_txs(w, pool).seen = w.seen \cup (pool \cap Indexed(w))
           /\ apply_unconfirmed_txs(w, pool).revealed = w.revealed
BY DEF WalletState, apply_unconfirmed_txs

\* What is indexed depends on the reveal alone, and grows with it.
LEMMA IndexedGrows ==
    ASSUME NEW v \in WalletState, NEW w \in WalletState,
           \A k \in Keychain : v.revealed[k] <= w.revealed[k]
    PROVE  Indexed(v) \subseteq Indexed(w)
<1> SUFFICES ASSUME NEW t \in Indexed(v) PROVE t \in Indexed(w)
  OBVIOUS
<1>1. t \in Tx /\ SpkOf[t][1] \in Keychain /\ SpkOf[t][2] \in Nat
  BY SyncAssumption DEF Indexed
<1>2. SpkOf[t][2] < v.revealed[SpkOf[t][1]]
  BY DEF Indexed
<1>3. v.revealed[SpkOf[t][1]] \in Nat /\ w.revealed[SpkOf[t][1]] \in Nat
  BY <1>1 DEF WalletState
<1> QED BY <1>1, <1>2, <1>3 DEF Indexed

\* The node's chain up to a height, as a chain of its own.
LEMMA InitialPart ==
    ASSUME NodeTypeOK, NodeInv, NEW h \in 1..Len(nodeChain)
    PROVE  LET c == [i \in 1..h |-> nodeChain[i]]
           IN  /\ c \in Seq(Nat \ {0}) /\ Len(c) = h
               /\ PrefixOf(c, nodeChain)
               /\ Below(c, Len(blockTxs))
               /\ Branch(c, blockIndex)
<1> DEFINE c == [i \in 1..h |-> nodeChain[i]]
<1>1. c \in Seq(Nat \ {0}) /\ Len(c) = h
  BY DEF NodeTypeOK
<1>2. \A i \in 1..Len(c) : c[i] = nodeChain[i] /\ i \in 1..Len(nodeChain)
  BY <1>1 DEF NodeTypeOK
<1> HIDE DEF c
<1>3. PrefixOf(c, nodeChain)
  BY <1>1, <1>2 DEF PrefixOf
<1>4. Below(c, Len(blockTxs))
  BY <1>1, <1>2 DEF Below, NodeTypeOK
<1>5. Branch(c, blockIndex)
  BY <1>1, <1>3, BranchPart DEF NodeInv, NodeTypeOK
<1> QED BY <1>1, <1>3, <1>4, <1>5 DEF c

\* An empty wallet is sound.
LEMMA SoundEmpty ==
    ASSUME NEW r, NEW index, NEW txs
    PROVE  Sound(EmptyWallet(r), index, txs)
BY DEF Sound, EmptyWallet, Below, Branch, Known

\* Applying a block or a mempool keeps a wallet sound.
LEMMA SoundApply ==
    ASSUME NodeTypeOK, NodeInv, NEW w \in WalletState, Sound(w, blockIndex, blockTxs)
    PROVE  /\ \A h \in 1..Len(nodeChain) :
                Sound(ApplyBlock(w, h), blockIndex, blockTxs)
           /\ Sound(apply_unconfirmed_txs(w, mempool), blockIndex, blockTxs)
<1>1. ASSUME NEW h \in 1..Len(nodeChain)
      PROVE  Sound(ApplyBlock(w, h), blockIndex, blockTxs)
  <2> DEFINE v == ApplyBlock(w, h)
             added == (blockTxs[nodeChain[h]] \cap Indexed(w)) \X {nodeChain[h]}
  <2>1. /\ v.chain = [i \in 1..h |-> nodeChain[i]]
        /\ v.anchors = w.anchors \cup added
        /\ v.seen = w.seen /\ v.revealed = w.revealed
    BY ApplyFields
  <2>2. \A a \in added : /\ a[2] = nodeChain[h] /\ a[1] \in blockTxs[nodeChain[h]]
                         /\ a[1] \in Indexed(w)
    OBVIOUS
  <2>3. nodeChain[h] <= Len(blockTxs)
    BY DEF NodeTypeOK
  <2>4. Indexed(v) = Indexed(w)
    BY <2>1 DEF Indexed
  <2> HIDE DEF v, added
  <2>5. Below(v.chain, Len(blockTxs)) /\ Branch(v.chain, blockIndex)
    BY <2>1, InitialPart
  <2>6. \A a \in v.anchors : a[2] <= Len(blockTxs) /\ a[1] \in blockTxs[a[2]]
    BY <2>1, <2>2, <2>3 DEF Sound
  <2>7. Known(v) \subseteq Indexed(v)
    BY <2>1, <2>2, <2>4 DEF Known, Sound
  <2> QED BY <2>5, <2>6, <2>7 DEF Sound, v
<1>2. Sound(apply_unconfirmed_txs(w, mempool), blockIndex, blockTxs)
  <2> DEFINE v == apply_unconfirmed_txs(w, mempool)
  <2>1. /\ v.chain = w.chain /\ v.anchors = w.anchors
        /\ v.seen = w.seen \cup (mempool \cap Indexed(w))
        /\ v.revealed = w.revealed
    BY MempoolFields
  <2>2. Indexed(v) = Indexed(w)
    BY <2>1 DEF Indexed
  <2> HIDE DEF v
  <2> QED BY <2>1, <2>2 DEF Sound, Known, v
<1> QED BY <1>1, <1>2

\* A step of the node keeps a wallet sound.
LEMMA SoundNode ==
    ASSUME NodeTypeOK, NodeTypeOK', NodeMoved,
           NEW w \in WalletState, Sound(w, blockIndex, blockTxs)
    PROVE  Sound(w, blockIndex', blockTxs')
<1>1. /\ Len(blockTxs) \in Nat /\ Len(blockTxs') \in Nat
      /\ Len(blockTxs) <= Len(blockTxs')
      /\ \A b \in 1..Len(blockTxs) :
            blockTxs'[b] = blockTxs[b] /\ blockIndex'[b] = blockIndex[b]
  BY DEF NodeMoved, NodeTypeOK
<1>2. w.chain \in Seq(Nat \ {0}) /\ w.anchors \in SUBSET (Tx \X (Nat \ {0}))
  BY DEF WalletState
<1>3. Below(w.chain, Len(blockTxs'))
  BY <1>1, <1>2 DEF Sound, Below
<1>4. \A a \in w.anchors : a[2] <= Len(blockTxs') /\ a[1] \in blockTxs'[a[2]]
  <2> TAKE a \in w.anchors
  <2>1. a[2] \in Nat \ {0} /\ a[2] <= Len(blockTxs) /\ a[1] \in blockTxs[a[2]]
    BY <1>2 DEF Sound
  <2> QED BY <1>1, <2>1
<1>5. Branch(w.chain, blockIndex')
  <2>1. \A h \in 1..Len(w.chain) : w.chain[h] \in 1..Len(blockTxs)
    BY <1>1, <1>2 DEF Sound, Below
  <2> QED BY <1>1, <2>1, SMTT(30) DEF Sound, Branch
<1> QED BY <1>3, <1>4, <1>5 DEF Sound

\* A step of the node keeps the emitter's cached successor in its place.
LEMMA NextNode ==
    ASSUME NodeTypeOK, NodeTypeOK', NodeMoved, NEW c, NEW nxt \in Nat \cup {NoMore},
           NextFollows(c, nxt, blockIndex, Len(blockTxs))
    PROVE  NextFollows(c, nxt, blockIndex', Len(blockTxs'))
<1> SUFFICES ASSUME nxt > 0 PROVE NextFollows(c, nxt, blockIndex', Len(blockTxs'))
  BY DEF NextFollows
<1>1. /\ Len(blockTxs) \in Nat /\ Len(blockTxs') \in Nat
      /\ Len(blockTxs) <= Len(blockTxs') /\ nxt \in Nat /\ nxt <= Len(blockTxs)
  BY DEF NextFollows, NodeMoved, NodeTypeOK, NoMore
<1>2. nxt <= Len(blockTxs') /\ blockIndex'[nxt] = blockIndex[nxt]
  BY <1>1 DEF NodeMoved
<1> QED BY <1>2 DEF NextFollows

----------------------------------------------------------------------------
(* The emitter                                                             *)

\* An emitted block connects to a height up to which the wallet's chain is the
\* node's; to its tip, if its whole chain is; and it is the block just above,
\* unless start_height is higher.
LEMMA Emission ==
    ASSUME NodeTypeOK, NodeInv, NEW w \in WalletState,
           Sound(w, blockIndex, blockTxs),
           next \in Nat \cup {NoMore}, start \in Nat,
           NextFollows(w.chain, next, blockIndex, Len(blockTxs)),
           NEW h \in 1..Len(nodeChain), NEW a \in 0..Len(w.chain),
           EmitsBlock(w, a, h)
    PROVE  /\ h >= a + 1
           /\ start <= a + 1 => h = a + 1
           /\ \A j \in 1..a : w.chain[j] = nodeChain[j]
           /\ PrefixOf(w.chain, nodeChain) => a = Len(w.chain)
<1>1. /\ nodeChain[h] \in Nat \ {0} /\ w.chain \in Seq(Nat \ {0})
      /\ Len(w.chain) \in Nat /\ Len(nodeChain) \in Nat
  BY DEF NodeTypeOK, WalletState
<1>2. CASE nodeChain[h] = next /\ a = h - 1
  <2>1. next > 0
    BY <1>1, <1>2
  <2>2. h = Len(w.chain) + 1 /\ PrefixOf(w.chain, nodeChain)
    BY <1>1, <1>2, <2>1, NextPlace
  <2> QED BY <1>1, <1>2, <2>2 DEF PrefixOf
<1>3. CASE SeeksAgreement(w, a) /\ h = IF a < start THEN start ELSE a + 1
  <2>1. Agreement(w, a)
    BY <1>3 DEF SeeksAgreement
  <2>2. \A j \in 1..a : w.chain[j] = nodeChain[j]
    <3>1. CASE a = 0
      BY <3>1
    <3>2. CASE a > 0
      <4>1. a \in 1..Len(w.chain) /\ a \in 1..Len(nodeChain)
                /\ w.chain[a] = nodeChain[a]
        BY <1>1, <2>1, <3>2 DEF Agreement
      <4> QED BY <4>1, SoundAgrees DEF Agrees
    <3> QED BY <3>1, <3>2
  <2>3. ASSUME PrefixOf(w.chain, nodeChain) PROVE a = Len(w.chain)
    <3> SUFFICES ASSUME a # Len(w.chain) PROVE FALSE
      OBVIOUS
    <3>1. a + 1 \in (a + 1)..Len(w.chain) /\ a + 1 \in 1..Len(w.chain)
            /\ a + 1 \in 1..Len(nodeChain)
      BY <1>1, <2>3 DEF PrefixOf
    <3>2. nodeChain[a + 1] = w.chain[a + 1]
      BY <2>3, <3>1 DEF PrefixOf
    <3> QED BY <2>1, <3>1, <3>2 DEF Agreement, OnBestChain, BlocksOf
  <2>4. h >= a + 1 /\ (start <= a + 1 => h = a + 1)
    BY <1>1, <1>3
  <2> QED BY <2>2, <2>3, <2>4
<1> QED BY <1>2, <1>3 DEF EmitsBlock

\* The successor the emitter caches is the block above the one it emitted.
LEMMA NextApplied ==
    ASSUME NodeTypeOK, NodeInv, NEW w \in WalletState, NEW h \in 1..Len(nodeChain)
    PROVE  /\ NextFollows(ApplyBlock(w, h).chain, NextAfter(h), blockIndex,
                          Len(blockTxs))
           /\ PrefixOf(ApplyBlock(w, h).chain, nodeChain)
           /\ NextAfter(h) = NoMore => ApplyBlock(w, h).chain = nodeChain
           /\ NextAfter(h) # NoLast
<1> DEFINE c == ApplyBlock(w, h).chain
<1>1. c = [i \in 1..h |-> nodeChain[i]]
  BY ApplyFields
<1>2. c \in Seq(Nat \ {0}) /\ Len(c) = h /\ PrefixOf(c, nodeChain)
  BY <1>1, InitialPart
<1> HIDE DEF c
<1>3. /\ nodeChain \in Seq(Nat \ {0})
      /\ \A i \in 1..Len(nodeChain) : nodeChain[i] \in Nat \ {0}
                                        /\ nodeChain[i] <= Len(blockTxs)
  BY DEF NodeTypeOK
<1>4. CASE h < Len(nodeChain)
  <2>1. h + 1 \in 1..Len(nodeChain) /\ NextAfter(h) = nodeChain[h + 1]
    BY <1>3, <1>4 DEF NextAfter
  <2>2. /\ Len(blockIndex[nodeChain[h + 1]]) = Len(c) + 1
        /\ \A i \in 1..Len(c) : blockIndex[nodeChain[h + 1]][i] = c[i]
    <3>1. /\ Len(blockIndex[nodeChain[h + 1]]) = h + 1
          /\ \A i \in 1..(h + 1) : blockIndex[nodeChain[h + 1]][i] = nodeChain[i]
      BY <2>1 DEF NodeInv, Branch
    <3>2. \A i \in 1..Len(c) : i \in 1..(h + 1) /\ c[i] = nodeChain[i]
      BY <1>2 DEF PrefixOf
    <3> QED BY <1>2, <3>1, <3>2
  <2>3. nodeChain[h + 1] # NoMore /\ nodeChain[h + 1] # NoLast
    BY <1>3, <2>1 DEF NoMore, NoLast
  <2> QED BY <1>2, <1>3, <2>1, <2>2, <2>3 DEF NextFollows, c
<1>5. CASE h = Len(nodeChain)
  <2>1. NextAfter(h) = NoMore
    BY <1>3, <1>5 DEF NextAfter
  <2>2. c = nodeChain
    BY <1>1, <1>3, <1>5
  <2> QED BY <1>2, <2>1, <2>2 DEF NextFollows, NoMore, NoLast, c
<1> QED BY <1>3, <1>4, <1>5

----------------------------------------------------------------------------
(* All wallets are sound                                                   *)

WalletsSound ==
    /\ Sound(wallet, blockIndex, blockTxs)
    /\ Sound(fresh, blockIndex, blockTxs)
    /\ Sound(stored, blockIndex, blockTxs)
    /\ stored.revealed = wallet.revealed
    /\ before \subseteq Indexed(wallet)
    /\ pc \in {"rebuild", "rebuildMempool"} => fresh.revealed = wallet.revealed
    /\ pc = "drive" => NextFollows(wallet.chain, next, blockIndex, Len(blockTxs))
    /\ pc = "rebuild" => NextFollows(fresh.chain, next, blockIndex, Len(blockTxs))

\* A changeset merged into the aggregate: the wallet's chain and reveal, the
\* anchors of both; and sound, if both are.
LEMMA MergeSound ==
    ASSUME NEW p \in SUBSET WalletState, NEW w \in WalletState,
           NEW index, NEW txs,
           Sound(init_or_load_wallet(p), index, txs), Sound(w, index, txs),
           \A k \in Keychain : init_or_load_wallet(p).revealed[k] <= w.revealed[k]
    PROVE  LET m == init_or_load_wallet(MergeInto(p, w))
           IN  /\ m.chain = w.chain /\ m.revealed = w.revealed
               /\ m.anchors = w.anchors \cup init_or_load_wallet(p).anchors
               /\ Sound(m, index, txs)
<1> DEFINE old == init_or_load_wallet(p)
           m == init_or_load_wallet(MergeInto(p, w))
<1>1. m = [w EXCEPT !.anchors = @ \cup old.anchors, !.seen = @ \cup old.seen]
  BY LoadOne DEF MergeInto
<1>2. old \in WalletState
  BY LoadType
<1> HIDE DEF old, m
<1>3. /\ m.chain = w.chain /\ m.revealed = w.revealed
      /\ m.anchors = w.anchors \cup old.anchors
      /\ m.seen = w.seen \cup old.seen
  BY <1>1 DEF WalletState
<1>4. Indexed(old) \subseteq Indexed(w) /\ Indexed(m) = Indexed(w)
  BY <1>2, <1>3, IndexedGrows DEF Indexed, old
<1>5. Known(m) \subseteq Indexed(m)
  BY <1>3, <1>4 DEF Sound, Known, old
<1> QED BY <1>3, <1>5 DEF Sound, m, old

\* Every step keeps all wallets sound.
LEMMA WalletsSoundStep ==
    TypeOK /\ NodeInv /\ WalletsSound /\ [Next]_vars => WalletsSound'
<1> SUFFICES ASSUME TypeOK, NodeInv, WalletsSound, [Next]_vars
             PROVE  WalletsSound'
  OBVIOUS
<1>w. /\ wallet \in WalletState /\ fresh \in WalletState
      /\ stored \in WalletState /\ persisted \in SUBSET WalletState
      /\ NodeTypeOK
  BY LoadType DEF TypeOK, stored
<1>s. persisted' = persisted => stored' = stored
  BY DEF stored
<1>e. \A r, index, txs : Sound(EmptyWallet(r), index, txs)
  BY SoundEmpty
<1>x. \A c, index, n : NextFollows(c, NoLast, index, n)
  BY DEF NextFollows, NoLast
<1>r. \A r : EmptyWallet(r).revealed = r
  BY DEF EmptyWallet
<1>b. ASSUME NEW w, BeginRebuild(w), Sound(w, blockIndex, blockTxs),
             w.revealed = wallet.revealed, UNCHANGED <<nodeVars, appVars>>
      PROVE  WalletsSound'
  <2>1. /\ pc' = "rebuild" /\ wallet' = w /\ before' = before /\ next' = NoLast
        /\ fresh' = EmptyWallet(w.revealed)
        /\ blockIndex' = blockIndex /\ blockTxs' = blockTxs /\ stored' = stored
    BY <1>b, <1>s DEF BeginRebuild, FreshFor, nodeVars, appVars
  <2>2. Indexed(wallet') = Indexed(wallet) /\ fresh'.revealed = wallet'.revealed
    BY <1>b, <1>r, <2>1 DEF Indexed
  <2> QED BY <1>b, <1>e, <1>x, <2>1, <2>2 DEF WalletsSound
<1>f. ASSUME NEW w, NEW ev, NEW rb, Return(w, ev, rb), Sound(w, blockIndex, blockTxs),
             w.revealed = wallet.revealed, UNCHANGED <<nodeVars, appVars>>
      PROVE  WalletsSound'
  <2>1. /\ pc' = "returned" /\ wallet' = w /\ before' = before
        /\ fresh' = EmptyWallet(NoReveal)
        /\ blockIndex' = blockIndex /\ blockTxs' = blockTxs /\ stored' = stored
    BY <1>f, <1>s DEF Return, nodeVars, appVars
  <2>2. Indexed(wallet') = Indexed(wallet)
    BY <1>f, <2>1 DEF Indexed
  <2> QED BY <1>f, <1>e, <2>1, <2>2 DEF WalletsSound
<1>1. CASE SyncStart
  <2>1. confirmed_txids(wallet) \subseteq Indexed(wallet)
    BY DEF WalletsSound, Sound, confirmed_txids, Known
  <2> QED BY <1>1, <1>s, <1>x, <2>1 DEF SyncStart, nodeVars, appVars, WalletsSound
<1>2. CASE DriveBlock
  <2>1. PICK h \in 1..Len(nodeChain) :
            wallet' = ApplyBlock(wallet, h) /\ next' = NextAfter(h)
    BY <1>2 DEF DriveBlock
  <2>2. Sound(wallet', blockIndex, blockTxs)
            /\ NextFollows(wallet'.chain, next', blockIndex, Len(blockTxs))
    BY <1>w, <2>1, SoundApply, NextApplied DEF WalletsSound
  <2>3. wallet'.revealed = wallet.revealed /\ Indexed(wallet') = Indexed(wallet)
    BY <1>w, <2>1, ApplyFields DEF Indexed
  <2> QED BY <1>2, <1>s, <2>2, <2>3 DEF DriveBlock, nodeVars, appVars, WalletsSound
<1>3. CASE DriveCannotConnect \/ DriveEnd
  <2>1. CASE BeginRebuild(wallet)
    BY <1>3, <1>b, <2>1 DEF DriveCannotConnect, DriveEnd, WalletsSound
  <2>2. CASE DriveEnd /\ pc' = "mempool"
                /\ UNCHANGED <<wallet, before, start, next, fresh, result>>
    BY <1>s, <2>2 DEF DriveEnd, nodeVars, appVars, WalletsSound
  <2> QED BY <1>3, <2>1, <2>2 DEF DriveCannotConnect, DriveEnd
<1>4. CASE FetchMempool
  <2> DEFINE w == apply_unconfirmed_txs(wallet, mempool)
  <2>1. Sound(w, blockIndex, blockTxs)
    BY <1>w, SoundApply DEF WalletsSound
  <2>2. w.revealed = wallet.revealed /\ Indexed(w) = Indexed(wallet)
    BY <1>w, MempoolFields DEF Indexed
  <2>3. BeginRebuild(w) \/ Return(w, {}, FALSE)
    BY <1>4 DEF FetchMempool
  <2>4. UNCHANGED <<nodeVars, appVars>>
    BY <1>4 DEF FetchMempool
  <2> HIDE DEF w
  <2> QED BY <1>b, <1>f, <2>1, <2>2, <2>3, <2>4
<1>5. CASE RebuildBlock
  <2>1. PICK h \in 1..Len(nodeChain) :
            fresh' = ApplyBlock(fresh, h) /\ next' = NextAfter(h)
    BY <1>5 DEF RebuildBlock
  <2>2. Sound(fresh', blockIndex, blockTxs)
            /\ NextFollows(fresh'.chain, next', blockIndex, Len(blockTxs))
    BY <1>w, <2>1, SoundApply, NextApplied DEF WalletsSound
  <2>3. fresh'.revealed = fresh.revealed
    BY <1>w, <2>1, ApplyFields
  <2> QED BY <1>5, <1>s, <2>2, <2>3 DEF RebuildBlock, nodeVars, appVars, WalletsSound
<1>6. CASE RebuildEnd
  BY <1>6, <1>s DEF RebuildEnd, nodeVars, appVars, WalletsSound
<1>7. CASE RebuildFinish
  <2> DEFINE w == apply_unconfirmed_txs(fresh, mempool)
  <2>1. Sound(w, blockIndex, blockTxs)
    BY <1>w, SoundApply DEF WalletsSound
  <2>2. w.revealed = wallet.revealed /\ Indexed(w) = Indexed(wallet)
    BY <1>7, <1>w, MempoolFields DEF Indexed, RebuildFinish, WalletsSound
  <2>3. Return(w, Evicted(w), TRUE) /\ UNCHANGED <<nodeVars, appVars>>
    BY <1>7 DEF RebuildFinish
  <2> HIDE DEF w
  <2> QED BY <1>f, <2>1, <2>2, <2>3
<1>8. CASE RpcFailure \/ Restart
  <2>1. /\ wallet' = wallet \/ wallet' = stored
        /\ pc' = "idle" /\ before' = {} /\ fresh' = EmptyWallet(NoReveal)
        /\ persisted' = persisted /\ UNCHANGED nodeVars
    BY <1>8 DEF RpcFailure, Restart, Abandon, stored
  <2> QED BY <1>s, <1>e, <2>1 DEF nodeVars, WalletsSound
<1>9. CASE Persist
  <2>1. /\ wallet' = wallet /\ pc' = "idle" /\ before' = {}
        /\ fresh' = EmptyWallet(NoReveal) /\ UNCHANGED nodeVars
        /\ persisted' = {wallet} \/ persisted' = MergeInto(persisted, wallet)
    BY <1>9 DEF Persist, Abandon, Store
  <2>2. \A k \in Keychain : stored.revealed[k] <= wallet.revealed[k]
    BY <1>w DEF WalletsSound, WalletState
  <2>3. stored' \in {wallet, init_or_load_wallet(MergeInto(persisted, wallet))}
    BY <2>1, LoadOne DEF stored
  <2>4. Sound(stored', blockIndex, blockTxs) /\ stored'.revealed = wallet.revealed
    BY <1>w, <2>2, <2>3, MergeSound DEF WalletsSound, stored
  <2> QED BY <1>e, <2>1, <2>4 DEF nodeVars, WalletsSound
<1>10. ASSUME NEW k \in Keychain, Reveal(k) PROVE WalletsSound'
  <2>1. /\ pc' = "idle" /\ before' = before /\ fresh' = fresh
        /\ wallet' = [wallet EXCEPT !.revealed =
                            [wallet.revealed EXCEPT ![k] = wallet.revealed[k] + 1]]
        /\ persisted' = MergeInto(persisted, wallet') /\ UNCHANGED nodeVars
    BY <1>10 DEF Reveal
  <2>2. wallet' \in WalletState
    BY TypeStep DEF TypeOK
  <2>3. /\ wallet'.chain = wallet.chain /\ wallet'.anchors = wallet.anchors
        /\ wallet'.seen = wallet.seen
        /\ wallet'.revealed = [wallet.revealed EXCEPT ![k] = wallet.revealed[k] + 1]
    BY <1>w, <2>1 DEF WalletState
  <2>4. \A j \in Keychain : wallet.revealed[j] <= wallet'.revealed[j]
    BY <1>w, <2>3 DEF WalletState
  <2>5. Indexed(wallet) \subseteq Indexed(wallet')
    BY <1>w, <2>2, <2>4, IndexedGrows
  <2>6. Sound(wallet', blockIndex, blockTxs)
    BY <2>3, <2>5 DEF Sound, Known, WalletsSound
  <2>7. Sound(stored', blockIndex, blockTxs) /\ stored'.revealed = wallet'.revealed
    BY <1>w, <2>1, <2>2, <2>4, <2>6, MergeSound DEF WalletsSound, stored
  <2> QED BY <2>1, <2>5, <2>6, <2>7 DEF nodeVars, WalletsSound
<1>11. CASE NodeMoves
  <2>1. NodeTypeOK' /\ NodeMoved
    BY <1>11, <1>w, NodeStepType, NodeStepMoves, ReadersType DEF NodeMoves
  <2>2. /\ Sound(wallet, blockIndex', blockTxs')
        /\ Sound(fresh, blockIndex', blockTxs')
        /\ Sound(stored, blockIndex', blockTxs')
    BY <1>w, <2>1, SoundNode DEF WalletsSound
  <2>3. \A c \in Seq(Nat \ {0}) :
            NextFollows(c, next, blockIndex, Len(blockTxs)) =>
                NextFollows(c, next, blockIndex', Len(blockTxs'))
    BY <1>w, <2>1, NextNode DEF TypeOK
  <2>4. wallet.chain \in Seq(Nat \ {0}) /\ fresh.chain \in Seq(Nat \ {0})
    BY <1>w DEF WalletState
  <2> QED BY <1>11, <1>s, <2>2, <2>3, <2>4
          DEF NodeMoves, syncVars, appVars, WalletsSound
<1>12. CASE UNCHANGED vars
  BY <1>12, <1>s DEF vars, nodeVars, syncVars, appVars, WalletsSound
<1> QED BY <1>1, <1>2, <1>3, <1>4, <1>5, <1>6, <1>7, <1>8, <1>9, <1>10, <1>11,
           <1>12 DEF Next, SyncStep

----------------------------------------------------------------------------
(* No rebuild loses a survivor                                             *)

On(b, c) == \E h \in 1..Len(c) : c[h] = b

\* A wallet has an anchor for every payment in every block of its chain.
Complete(w, txs) ==
    \A h \in 1..Len(w.chain) : \A t \in txs[w.chain[h]] \cap Indexed(w) :
        <<t, w.chain[h]>> \in w.anchors

\* Chain c has all of the blocks.
Covers(c, blocks) == \A b \in blocks : On(b, c)

Rebuilding == pc \in {"rebuild", "rebuildMempool"}

\* The emitter of the rebuild has reached, or will next report, its end.
Driven == pc = "rebuildMempool" \/ (pc = "rebuild" /\ next = NoMore)

\* The fresh wallet misses no payment of its chain, and once it is driven its
\* chain has every block that stayed on the best chain.
RebuildSound ==
    /\ Rebuilding => /\ start = 0 /\ fresh.seen = {} /\ Complete(fresh, blockTxs)
                     /\ Covers(nodeChain, stayed)
    /\ Driven => Covers(fresh.chain, stayed)

\* A chain that agrees with the best one at its tip has all of its blocks.
LEMMA AgreementAtTip ==
    ASSUME NodeTypeOK, NodeInv, NEW w \in WalletState,
           Sound(w, blockIndex, blockTxs), Agreement(w, Len(nodeChain))
    PROVE  /\ Len(nodeChain) <= Len(w.chain)
           /\ \A j \in 1..Len(nodeChain) : w.chain[j] = nodeChain[j]
<1>1. Len(nodeChain) \in Nat /\ Len(w.chain) \in Nat
  BY DEF NodeTypeOK, WalletState
<1>2. Len(nodeChain) <= Len(w.chain)
  BY DEF Agreement
<1>3. CASE Len(nodeChain) = 0
  BY <1>2, <1>3
<1>4. CASE Len(nodeChain) > 0
  <2>1. Len(nodeChain) \in 1..Len(nodeChain) /\ Len(nodeChain) \in 1..Len(w.chain)
            /\ w.chain[Len(nodeChain)] = nodeChain[Len(nodeChain)]
    BY <1>1, <1>4 DEF Agreement
  <2> QED BY <1>2, <2>1, SoundAgrees DEF Agrees
<1> QED BY <1>1, <1>3, <1>4

\* A block that connects at the tip of a complete wallet's good part keeps it
\* complete: nothing between the two is skipped.
LEMMA CompleteApply ==
    ASSUME NodeTypeOK, NodeInv, NEW w \in WalletState, NEW h \in 1..Len(nodeChain),
           Complete(w, blockTxs), h - 1 <= Len(w.chain),
           \A j \in 1..(h - 1) : w.chain[j] = nodeChain[j]
    PROVE  Complete(ApplyBlock(w, h), blockTxs)
<1> DEFINE v == ApplyBlock(w, h)
<1>1. /\ v.chain = [i \in 1..h |-> nodeChain[i]]
      /\ v.anchors = w.anchors \cup
                ((blockTxs[nodeChain[h]] \cap Indexed(w)) \X {nodeChain[h]})
      /\ v.revealed = w.revealed
  BY ApplyFields
<1>2. Len(v.chain) = h /\ \A i \in 1..h : v.chain[i] = nodeChain[i]
  BY <1>1, InitialPart
<1>3. Indexed(v) = Indexed(w)
  BY <1>1 DEF Indexed
<1>4. Len(w.chain) \in Nat /\ h \in Nat
  BY DEF WalletState
<1> HIDE DEF v
<1>5. ASSUME NEW i \in 1..h, NEW t \in blockTxs[v.chain[i]] \cap Indexed(v)
      PROVE  <<t, v.chain[i]>> \in v.anchors
  <2>1. CASE i = h
    BY <1>1, <1>2, <1>3, <2>1
  <2>2. CASE i < h
    <3>1. i \in 1..(h - 1) /\ i \in 1..Len(w.chain)
      BY <1>4, <2>2
    <3>2. v.chain[i] = w.chain[i]
      BY <1>2, <3>1
    <3>3. <<t, w.chain[i]>> \in w.anchors
      BY <1>3, <3>1, <3>2 DEF Complete
    <3> QED BY <1>1, <3>2, <3>3
  <2> QED BY <1>4, <2>1, <2>2
<1> QED BY <1>2, <1>5 DEF Complete, v

\* Every step keeps the fresh wallet complete.
LEMMA RebuildSoundStep ==
    TypeOK /\ NodeInv /\ WalletsSound /\ RebuildSound /\ [Next]_vars
        => RebuildSound'
<1> SUFFICES ASSUME TypeOK, NodeInv, WalletsSound, RebuildSound, [Next]_vars
             PROVE  RebuildSound'
  OBVIOUS
<1>w. /\ wallet \in WalletState /\ fresh \in WalletState /\ NodeTypeOK
      /\ next \in Nat \cup {NoMore} /\ start \in Nat
  BY DEF TypeOK
<1>p. pc' \notin {"rebuild", "rebuildMempool"} => RebuildSound'
  BY DEF RebuildSound, Rebuilding, Driven
<1>b. ASSUME NEW w, BeginRebuild(w), nodeChain' = nodeChain PROVE RebuildSound'
  <2>1. /\ pc' = "rebuild" /\ start' = 0 /\ next' # NoMore
        /\ fresh' = EmptyWallet(w.revealed) /\ stayed' = BlocksOf(nodeChain)
    BY <1>b DEF BeginRebuild, FreshFor, NoMore, NoLast
  <2>2. fresh'.seen = {} /\ fresh'.chain = <<>>
    BY <2>1 DEF EmptyWallet
  <2>3. Complete(fresh, blockTxs)'
    BY <2>2 DEF Complete
  <2>4. Covers(nodeChain', stayed')
    BY <1>b, <2>1 DEF Covers, On, BlocksOf
  <2> QED BY <2>1, <2>2, <2>3, <2>4 DEF RebuildSound, Rebuilding, Driven
<1>1. CASE SyncStart
  BY <1>1, <1>p DEF SyncStart
<1>2. CASE DriveBlock
  BY <1>2, <1>p DEF DriveBlock
<1>3. CASE DriveCannotConnect \/ DriveEnd
  BY <1>3, <1>p, <1>b DEF DriveCannotConnect, DriveEnd, nodeVars
<1>4. CASE FetchMempool
  BY <1>4, <1>p, <1>b DEF FetchMempool, Return, nodeVars
<1>5. CASE RebuildBlock
  <2>1. PICK h \in 1..Len(nodeChain), a \in 0..Len(fresh.chain) :
            /\ EmitsBlock(fresh, a, h)
            /\ fresh' = ApplyBlock(fresh, h) /\ next' = NextAfter(h)
    BY <1>5 DEF RebuildBlock
  <2>2. /\ pc = "rebuild" /\ pc' = "rebuild" /\ start' = start
        /\ stayed' = stayed /\ nodeChain' = nodeChain /\ blockTxs' = blockTxs
    BY <1>5 DEF RebuildBlock, nodeVars
  <2>3. /\ start = 0 /\ fresh.seen = {} /\ Complete(fresh, blockTxs)
        /\ Covers(nodeChain, stayed)
    BY <2>2 DEF RebuildSound, Rebuilding
  <2>4. h = a + 1 /\ \A j \in 1..a : fresh.chain[j] = nodeChain[j]
    BY <1>w, <2>1, <2>2, <2>3, Emission DEF WalletsSound
  <2>5. Complete(fresh', blockTxs)
    <3>1. h - 1 = a /\ a <= Len(fresh.chain)
      BY <2>4
    <3> QED BY <1>w, <2>1, <2>3, <2>4, <3>1, CompleteApply
  <2>6. fresh'.seen = {}
    BY <1>w, <2>1, <2>3, ApplyFields
  <2>7. next' = NoMore => Covers(fresh'.chain, stayed)
    BY <1>w, <2>1, <2>3, NextApplied
  <2> QED BY <2>2, <2>3, <2>5, <2>6, <2>7 DEF RebuildSound, Rebuilding, Driven
<1>6. CASE RebuildEnd
  <2>1. /\ pc = "rebuild" /\ pc' = "rebuildMempool" /\ EmitsNone(fresh)
        /\ UNCHANGED <<stayed, start, fresh, nodeChain, blockTxs>>
    BY <1>6 DEF RebuildEnd, nodeVars
  <2>2. Covers(fresh.chain, stayed)
    <3>1. CASE next = NoMore
      BY <2>1, <3>1 DEF RebuildSound, Driven
    <3>2. CASE Agreement(fresh, Len(nodeChain))
      <4>1. /\ Len(nodeChain) <= Len(fresh.chain)
            /\ \A j \in 1..Len(nodeChain) : fresh.chain[j] = nodeChain[j]
        BY <1>w, <3>2, AgreementAtTip DEF WalletsSound
      <4>2. \A j \in 1..Len(nodeChain) : j \in 1..Len(fresh.chain)
        BY <1>w, <4>1 DEF NodeTypeOK, WalletState
      <4>3. Covers(nodeChain, stayed)
        BY <2>1 DEF RebuildSound, Rebuilding
      <4> QED BY <4>1, <4>2, <4>3 DEF Covers, On
    <3> QED BY <2>1, <3>1, <3>2 DEF EmitsNone, SeeksAgreement
  <2> QED BY <2>1, <2>2 DEF RebuildSound, Rebuilding
<1>7. CASE RebuildFinish
  BY <1>7, <1>p DEF RebuildFinish, Return
<1>8. CASE RpcFailure \/ Restart \/ Persist
  BY <1>8, <1>p DEF RpcFailure, Restart, Persist, Abandon
<1>9. ASSUME NEW k \in Keychain, Reveal(k) PROVE RebuildSound'
  BY <1>9, <1>p DEF Reveal
<1>10. CASE NodeMoves
  <2>1. NodeTypeOK' /\ NodeMoved
    BY <1>10, <1>w, NodeStepType, NodeStepMoves, ReadersType DEF NodeMoves
  <2>2. UNCHANGED <<pc, start, next, fresh>>
            /\ stayed' = stayed \cap BlocksOf(nodeChain')
    BY <1>10 DEF NodeMoves, syncVars
  <2>3. Len(blockTxs) \in Nat /\ fresh.chain \in Seq(Nat \ {0})
    BY <1>w DEF NodeTypeOK, WalletState
  <2>4. Complete(fresh, blockTxs) => Complete(fresh, blockTxs')
    <3>1. \A h \in 1..Len(fresh.chain) : fresh.chain[h] \in 1..Len(blockTxs)
      BY <2>3 DEF WalletsSound, Sound, Below
    <3>2. \A h \in 1..Len(fresh.chain) :
                blockTxs'[fresh.chain[h]] = blockTxs[fresh.chain[h]]
      BY <2>1, <3>1 DEF NodeMoved
    <3> QED BY <3>2 DEF Complete
  <2>5. Covers(nodeChain', stayed')
    BY <2>2 DEF Covers, On, BlocksOf
  <2>6. Covers(fresh.chain, stayed) => Covers(fresh'.chain, stayed')
    BY <2>2 DEF Covers
  <2> QED BY <2>2, <2>4, <2>5, <2>6 DEF RebuildSound, Rebuilding, Driven
<1>11. CASE UNCHANGED vars
  BY <1>11 DEF vars, nodeVars, syncVars, RebuildSound, Rebuilding, Driven
<1> QED BY <1>1, <1>2, <1>3, <1>4, <1>5, <1>6, <1>7, <1>8, <1>9, <1>10, <1>11
        DEF Next, SyncStep

\* Before the rebuilt wallet is swapped in, every old anchor in a block that
\* stayed is an anchor of the new wallet, in a block of its own chain.
LEMMA SurvivorConfirmed ==
    ASSUME TypeOK, WalletsSound, RebuildSound, pc = "rebuildMempool",
           NEW a \in wallet.anchors, a[2] \in stayed
    PROVE  a[1] \in confirmed_txids(fresh)
<1>1. PICK h \in 1..Len(fresh.chain) : fresh.chain[h] = a[2]
  BY DEF RebuildSound, Driven, Covers, On
<1>2. a[1] \in blockTxs[a[2]] /\ a[1] \in Indexed(wallet)
  BY DEF WalletsSound, Sound, Known
<1>3. Indexed(fresh) = Indexed(wallet)
  BY DEF WalletsSound, Indexed
<1>4. <<a[1], a[2]>> \in fresh.anchors
  BY <1>1, <1>2, <1>3 DEF RebuildSound, Rebuilding, Complete
<1>5. a[2] \in ChainBlocks(fresh)
  BY <1>1 DEF ChainBlocks, BlocksOf
<1> QED BY <1>4, <1>5 DEF confirmed_txids

----------------------------------------------------------------------------
(* An undisturbed pass ends at the truth                                   *)

\* While the node stands still: a drive that has emitted anything is on the
\* node's chain, the fresh wallet always is, and what a pass returns is true.
StillInv ==
    still =>
        /\ pc = "drive" =>
            IF next = NoLast THEN Len(wallet.chain) = start
            ELSE /\ PrefixOf(wallet.chain, nodeChain)
                 /\ next = NoMore => wallet.chain = nodeChain
        /\ pc = "mempool" => PrefixOf(wallet.chain, nodeChain)
        /\ Rebuilding => /\ PrefixOf(fresh.chain, nodeChain)
                         /\ \A a \in fresh.anchors : On(a[2], nodeChain)
        /\ Driven => fresh.chain = nodeChain

\* What a wallet on the node's chain calls confirmed is confirmed.
LEMMA PrefixConfirmed ==
    ASSUME NodeTypeOK, NEW w \in WalletState, Sound(w, blockIndex, blockTxs),
           PrefixOf(w.chain, nodeChain)
    PROVE  confirmed_txids(w) \subseteq NodeConfirmed
<1> SUFFICES ASSUME NEW a \in w.anchors, NEW h \in 1..Len(w.chain),
                    w.chain[h] = a[2]
             PROVE  a[1] \in NodeConfirmed
  BY DEF confirmed_txids, ChainBlocks, BlocksOf
<1>1. a[1] \in blockTxs[a[2]]
  BY DEF Sound
<1>2. h \in 1..Len(nodeChain) /\ nodeChain[h] = a[2]
  BY DEF PrefixOf, NodeTypeOK, WalletState
<1> QED BY <1>1, <1>2 DEF NodeConfirmed, ConfirmedBy, BlocksOf

\* A complete wallet whose chain is the node's and whose anchors are all on it
\* is at ground truth once the mempool has been applied.
LEMMA GroundTruth ==
    ASSUME NodeTypeOK, NodeInv, NEW w \in WalletState,
           Sound(w, blockIndex, blockTxs), Complete(w, blockTxs),
           w.seen = {}, w.chain = nodeChain, \A a \in w.anchors : On(a[2], nodeChain)
    PROVE  LET v == apply_unconfirmed_txs(w, mempool)
           IN  /\ confirmed_txids(v) = NodeConfirmed \cap Indexed(v)
               /\ Unconfirmed(v) = mempool \cap Indexed(v)
               /\ Known(v) = NodeTxs \cap Indexed(v)
               /\ Indexed(v) = Indexed(w)
<1> DEFINE v == apply_unconfirmed_txs(w, mempool)
<1>1. /\ v.chain = nodeChain /\ v.anchors = w.anchors
      /\ v.seen = mempool \cap Indexed(w) /\ v.revealed = w.revealed
  BY MempoolFields
<1>2. Indexed(v) = Indexed(w)
  BY <1>1 DEF Indexed
<1> HIDE DEF v
<1>3. \A a \in v.anchors : a[2] \in ChainBlocks(v) /\ a[1] \in NodeConfirmed
  <2> TAKE a \in v.anchors
  <2>1. PICK h \in 1..Len(nodeChain) : nodeChain[h] = a[2]
    BY <1>1 DEF On
  <2>2. a[1] \in blockTxs[a[2]]
    BY <1>1 DEF Sound
  <2> QED BY <1>1, <2>1, <2>2 DEF ChainBlocks, NodeConfirmed, ConfirmedBy, BlocksOf
<1>4. \A a \in v.anchors : a[1] \in Indexed(w)
  BY <1>1 DEF Sound, Known
<1>5. ASSUME NEW t \in NodeConfirmed \cap Indexed(w)
      PROVE  \E a \in v.anchors : a[1] = t
  <2>1. PICK h \in 1..Len(nodeChain) : t \in blockTxs[nodeChain[h]]
    BY DEF NodeConfirmed, ConfirmedBy, BlocksOf
  <2>2. <<t, nodeChain[h]>> \in w.anchors
    BY <2>1 DEF Complete
  <2> QED BY <1>1, <2>2
<1>6. {a[1] : a \in v.anchors} = NodeConfirmed \cap Indexed(w)
  BY <1>3, <1>4, <1>5
<1>7. confirmed_txids(v) = {a[1] : a \in v.anchors}
  BY <1>3 DEF confirmed_txids
<1>8. mempool \cap NodeConfirmed = {}
  BY DEF NodeInv
<1>9. Known(v) = (mempool \cap Indexed(w)) \cup (NodeConfirmed \cap Indexed(w))
  BY <1>1, <1>6 DEF Known
<1>10. Unconfirmed(v) = mempool \cap Indexed(w)
  BY <1>6, <1>7, <1>8, <1>9 DEF Unconfirmed
<1> QED BY <1>2, <1>6, <1>7, <1>9, <1>10 DEF v, NodeTxs

\* What a pass promises when it returns.
AtReturn == NoPhantomAtReturn /\ RebuiltGroundTruth

\* Every step keeps an undisturbed pass on the way to the truth.
LEMMA StillStep ==
    /\ TypeOK /\ NodeInv /\ WalletsSound /\ RebuildSound
    /\ StillInv /\ AtReturn /\ [Next]_vars
    => StillInv' /\ AtReturn'
<1> SUFFICES ASSUME TypeOK, NodeInv, WalletsSound, RebuildSound,
                    StillInv, AtReturn, [Next]_vars
             PROVE  StillInv' /\ AtReturn'
  OBVIOUS
<1>w. /\ wallet \in WalletState /\ fresh \in WalletState /\ NodeTypeOK
      /\ next \in Nat \cup {NoMore} /\ start \in Nat
  BY DEF TypeOK
<1>m. NoMore # NoLast
  BY DEF NoMore, NoLast
<1>p. pc' # "returned" => AtReturn'
  BY DEF AtReturn, NoPhantomAtReturn, RebuiltGroundTruth
<1>q. pc' = "returned" => StillInv'
  BY DEF StillInv, Rebuilding, Driven
<1>f. pc' = "idle" \/ still' = FALSE => StillInv' /\ AtReturn'
  BY DEF StillInv, Rebuilding, Driven, AtReturn, NoPhantomAtReturn, RebuiltGroundTruth
<1>b. ASSUME NEW w, BeginRebuild(w) PROVE StillInv' /\ AtReturn'
  <2>1. pc' = "rebuild" /\ next' # NoMore /\ fresh' = EmptyWallet(w.revealed)
    BY <1>b, <1>m DEF BeginRebuild, FreshFor
  <2>2. fresh'.anchors = {} /\ fresh'.chain = <<>>
    BY <2>1 DEF EmptyWallet
  <2>3. nodeChain' \in Seq(Nat \ {0})
    BY TypeStep DEF TypeOK, NodeTypeOK
  <2>4. PrefixOf(fresh'.chain, nodeChain')
    BY <2>2, <2>3 DEF PrefixOf
  <2> QED BY <1>p, <2>1, <2>2, <2>4 DEF StillInv, Rebuilding, Driven
<1>1. CASE SyncStart
  BY <1>1, <1>p DEF SyncStart, StillInv, Rebuilding, Driven
<1>2. CASE DriveBlock
  <2>1. PICK h \in 1..Len(nodeChain) :
            wallet' = ApplyBlock(wallet, h) /\ next' = NextAfter(h)
    BY <1>2 DEF DriveBlock
  <2>2. pc' = "drive" /\ nodeChain' = nodeChain
    BY <1>2 DEF DriveBlock, nodeVars
  <2>3. /\ PrefixOf(wallet'.chain, nodeChain) /\ next' # NoLast
        /\ next' = NoMore => wallet'.chain = nodeChain
    BY <1>w, <2>1, NextApplied
  <2> QED BY <1>p, <2>2, <2>3 DEF StillInv, Rebuilding, Driven
<1>3. CASE DriveCannotConnect
  BY <1>3, <1>b DEF DriveCannotConnect
<1>4. CASE DriveEnd
  <2>1. CASE BeginRebuild(wallet)
    BY <1>b, <2>1
  <2>2. CASE /\ pc = "drive" /\ EmitsNone(wallet) /\ pc' = "mempool"
             /\ UNCHANGED <<wallet, nodeChain, still>>
    <3>1. still => PrefixOf(wallet.chain, nodeChain)
      <4> SUFFICES ASSUME still PROVE PrefixOf(wallet.chain, nodeChain)
        OBVIOUS
      <4>1. CASE next # NoLast
        BY <2>2, <4>1 DEF StillInv
      <4>2. CASE next = NoLast
        <5>1. /\ Len(wallet.chain) = start /\ start <= Len(nodeChain)
              /\ Agreement(wallet, Len(nodeChain))
          BY <1>m, <2>2, <4>2 DEF StillInv, EmitsNone, SeeksAgreement
        <5>2. /\ Len(nodeChain) <= Len(wallet.chain)
              /\ \A j \in 1..Len(nodeChain) : wallet.chain[j] = nodeChain[j]
          BY <1>w, <5>1, AgreementAtTip DEF WalletsSound
        <5>3. Len(nodeChain) = Len(wallet.chain)
          BY <1>w, <5>1, <5>2 DEF NodeTypeOK
        <5> QED BY <5>1, <5>2, <5>3 DEF PrefixOf
      <4> QED BY <4>1, <4>2
    <3> QED BY <1>p, <2>2, <3>1 DEF StillInv, Rebuilding, Driven
  <2> QED BY <1>4, <2>1, <2>2 DEF DriveEnd, nodeVars
<1>5. CASE FetchMempool
  <2> DEFINE w == apply_unconfirmed_txs(wallet, mempool)
  <2>1. CASE BeginRebuild(w)
    BY <1>b, <2>1
  <2>2. CASE ~has_stale_unconfirmed(w, mempool) /\ Return(w, {}, FALSE)
    <3>1. /\ pc = "mempool" /\ pc' = "returned" /\ wallet' = w
          /\ result'.rebuilt = FALSE /\ UNCHANGED <<nodeVars, still>>
      BY <1>5, <2>2 DEF FetchMempool, Return
    <3>2. w \in WalletState /\ Sound(w, blockIndex, blockTxs) /\ w.chain = wallet.chain
      BY <1>w, ApplyType, SoundApply, MempoolFields DEF WalletsSound
    <3> HIDE DEF w
    <3>3. still => confirmed_txids(w) \subseteq NodeConfirmed
      BY <1>w, <3>1, <3>2, PrefixConfirmed DEF StillInv
    <3>4. Unconfirmed(w) \subseteq mempool
      BY <2>2 DEF has_stale_unconfirmed
    <3>5. NodeConfirmed' = NodeConfirmed
      BY <3>1 DEF nodeVars, NodeConfirmed, ConfirmedBy, BlocksOf
    <3>6. NoPhantomAtReturn'
      BY <3>1, <3>3, <3>4, <3>5 DEF NoPhantomAtReturn, nodeVars
    <3> QED BY <1>q, <3>1, <3>6 DEF AtReturn, RebuiltGroundTruth
  <2> QED BY <1>5, <2>1, <2>2 DEF FetchMempool
<1>6. CASE RebuildBlock
  <2>1. PICK h \in 1..Len(nodeChain) :
            fresh' = ApplyBlock(fresh, h) /\ next' = NextAfter(h)
    BY <1>6 DEF RebuildBlock
  <2>2. pc = "rebuild" /\ pc' = "rebuild" /\ nodeChain' = nodeChain /\ still' = still
    BY <1>6 DEF RebuildBlock, nodeVars
  <2>3. /\ PrefixOf(fresh'.chain, nodeChain)
        /\ next' = NoMore => fresh'.chain = nodeChain
    BY <1>w, <2>1, NextApplied
  <2>4. fresh'.anchors = fresh.anchors \cup
            ((blockTxs[nodeChain[h]] \cap Indexed(fresh)) \X {nodeChain[h]})
    BY <1>w, <2>1, ApplyFields
  <2>5. On(nodeChain[h], nodeChain)
    BY DEF On
  <2>6. \A a \in fresh'.anchors : a \in fresh.anchors \/ a[2] = nodeChain[h]
    BY <2>4
  <2>7. still => \A a \in fresh'.anchors : On(a[2], nodeChain)
    BY <2>2, <2>5, <2>6 DEF StillInv, Rebuilding
  <2> QED BY <1>p, <2>2, <2>3, <2>7 DEF StillInv, Rebuilding, Driven
<1>7. CASE RebuildEnd
  <2>1. /\ pc = "rebuild" /\ pc' = "rebuildMempool" /\ EmitsNone(fresh)
        /\ UNCHANGED <<fresh, nodeChain, still>>
    BY <1>7 DEF RebuildEnd, nodeVars
  <2>2. still => fresh.chain = nodeChain
    <3> SUFFICES ASSUME still PROVE fresh.chain = nodeChain
      OBVIOUS
    <3>1. CASE next = NoMore
      BY <2>1, <3>1 DEF StillInv, Driven
    <3>2. CASE Agreement(fresh, Len(nodeChain))
      <4>1. /\ Len(nodeChain) <= Len(fresh.chain)
            /\ \A j \in 1..Len(nodeChain) : fresh.chain[j] = nodeChain[j]
        BY <1>w, <3>2, AgreementAtTip DEF WalletsSound
      <4>2. Len(fresh.chain) <= Len(nodeChain)
        BY <2>1 DEF StillInv, Rebuilding, PrefixOf
      <4>3. Len(fresh.chain) = Len(nodeChain)
        BY <1>w, <4>1, <4>2 DEF NodeTypeOK, WalletState
      <4>4. fresh.chain \in Seq(Nat \ {0}) /\ nodeChain \in Seq(Nat \ {0})
        BY <1>w DEF NodeTypeOK, WalletState
      <4> QED BY <4>1, <4>3, <4>4, SameList
    <3> QED BY <2>1, <3>1, <3>2 DEF EmitsNone, SeeksAgreement
  <2> QED BY <1>p, <2>1, <2>2 DEF StillInv, Rebuilding, Driven
<1>8. CASE RebuildFinish
  <2> DEFINE w == apply_unconfirmed_txs(fresh, mempool)
  <2>1. /\ pc = "rebuildMempool" /\ pc' = "returned" /\ wallet' = w
        /\ result' = [evicted |-> Evicted(w), rebuilt |-> TRUE]
        /\ UNCHANGED <<nodeVars, still, before>>
    BY <1>8 DEF RebuildFinish, Return
  <2>2. SUFFICES ASSUME still PROVE AtReturn'
    BY <1>q, <2>1 DEF AtReturn, NoPhantomAtReturn, RebuiltGroundTruth
  <2>3. /\ fresh.chain = nodeChain /\ fresh.seen = {} /\ Complete(fresh, blockTxs)
        /\ \A a \in fresh.anchors : On(a[2], nodeChain)
    BY <2>1, <2>2 DEF StillInv, RebuildSound, Rebuilding, Driven
  <2>4. /\ confirmed_txids(w) = NodeConfirmed \cap Indexed(w)
        /\ Unconfirmed(w) = mempool \cap Indexed(w)
        /\ Known(w) = NodeTxs \cap Indexed(w)
        /\ Indexed(w) = Indexed(fresh)
    BY <1>w, <2>3, GroundTruth DEF WalletsSound
  <2>5. before \subseteq Indexed(fresh)
    BY <2>1 DEF WalletsSound, Indexed
  <2> HIDE DEF w
  <2>6. Evicted(w) \subseteq before \ NodeTxs
    BY <2>4, <2>5 DEF Evicted
  <2>7. NodeConfirmed' = NodeConfirmed /\ NodeTxs' = NodeTxs /\ mempool' = mempool
    BY <2>1 DEF nodeVars, NodeTxs, NodeConfirmed, ConfirmedBy, BlocksOf
  <2>8. NoPhantomAtReturn'
    BY <2>1, <2>4, <2>7 DEF NoPhantomAtReturn
  <2>9. RebuiltGroundTruth'
    BY <2>1, <2>4, <2>6, <2>7 DEF RebuiltGroundTruth
  <2> QED BY <2>8, <2>9 DEF AtReturn
<1>9. CASE RpcFailure \/ Restart \/ Persist
  BY <1>9, <1>f DEF RpcFailure, Restart, Persist, Abandon
<1>10. ASSUME NEW k \in Keychain, Reveal(k) PROVE StillInv' /\ AtReturn'
  BY <1>10, <1>f DEF Reveal
<1>11. CASE NodeMoves
  BY <1>11, <1>f DEF NodeMoves
<1>12. CASE UNCHANGED vars
  <2>1. UNCHANGED <<nodeVars, syncVars, still>>
    BY <1>12 DEF vars
  <2>2. StillInv'
    BY <2>1 DEF nodeVars, syncVars, StillInv, Rebuilding, Driven
  <2>3. NodeConfirmed' = NodeConfirmed /\ NodeTxs' = NodeTxs /\ mempool' = mempool
    BY <2>1 DEF nodeVars, NodeTxs, NodeConfirmed, ConfirmedBy, BlocksOf
  <2>4. AtReturn'
    BY <2>1, <2>3 DEF syncVars, AtReturn, NoPhantomAtReturn, RebuiltGroundTruth
  <2> QED BY <2>2, <2>4
<1> QED BY <1>1, <1>2, <1>3, <1>4, <1>5, <1>6, <1>7, <1>8, <1>9, <1>10, <1>11,
           <1>12 DEF Next, SyncStep

----------------------------------------------------------------------------
(* No signal without a reorg                                               *)

\* The wallet's chain is an initial part of the best one and has a block for
\* every anchor.
Clean(w, best) ==
    PrefixOf(w.chain, best) /\ \A a \in w.anchors : On(a[2], w.chain)

\* As long as the node has not reorganised, every wallet is clean, the stored
\* one is not ahead of the live one (a rebuild, about to replace it, apart),
\* and what a drive started from it still has.
NoReorgInv ==
    reorgs = 0 =>
        /\ Clean(wallet, nodeChain) /\ Clean(fresh, nodeChain)
        /\ Clean(stored, nodeChain)
        /\ (pc = "returned" /\ result.rebuilt) \/ Len(stored.chain) <= Len(wallet.chain)
        /\ pc = "drive" => /\ start <= Len(wallet.chain)
                           /\ before \subseteq confirmed_txids(wallet)

\* Of two initial parts of one chain, the longer has all blocks of the other.
LEMMA LongerPrefix ==
    ASSUME NEW c \in Seq(Nat \ {0}), NEW d \in Seq(Nat \ {0}), NEW best,
           PrefixOf(c, best), PrefixOf(d, best), Len(c) <= Len(d),
           NEW b, On(b, c)
    PROVE  On(b, d)
<1>1. PICK h \in 1..Len(c) : c[h] = b
  BY DEF On
<1>2. h \in 1..Len(d) /\ d[h] = b
  BY <1>1 DEF PrefixOf
<1> QED BY <1>2 DEF On

\* An emitted block extends a clean wallet, which stays clean and keeps what
\* it has confirmed.
LEMMA CleanApply ==
    ASSUME NodeTypeOK, NodeInv, NEW w \in WalletState,
           Sound(w, blockIndex, blockTxs), Clean(w, nodeChain),
           next \in Nat \cup {NoMore}, start \in Nat,
           NextFollows(w.chain, next, blockIndex, Len(blockTxs)),
           NEW h \in 1..Len(nodeChain), NEW a \in 0..Len(w.chain),
           EmitsBlock(w, a, h)
    PROVE  /\ a = Len(w.chain)
           /\ Clean(ApplyBlock(w, h), nodeChain)
           /\ Len(w.chain) <= Len(ApplyBlock(w, h).chain)
           /\ confirmed_txids(w) \subseteq confirmed_txids(ApplyBlock(w, h))
<1> DEFINE v == ApplyBlock(w, h)
<1>1. a = Len(w.chain) /\ h >= a + 1
  BY Emission DEF Clean
<1>2. /\ v.chain = [i \in 1..h |-> nodeChain[i]]
      /\ v.anchors = w.anchors \cup
                ((blockTxs[nodeChain[h]] \cap Indexed(w)) \X {nodeChain[h]})
  BY ApplyFields
<1>3. v.chain \in Seq(Nat \ {0}) /\ Len(v.chain) = h /\ PrefixOf(v.chain, nodeChain)
            /\ v.chain[h] = nodeChain[h]
  BY <1>2, InitialPart
<1>4. w.chain \in Seq(Nat \ {0}) /\ Len(w.chain) \in Nat /\ Len(w.chain) <= Len(v.chain)
  BY <1>1, <1>3 DEF WalletState
<1> HIDE DEF v
<1>5. \A b : On(b, w.chain) => On(b, v.chain)
  BY <1>3, <1>4, LongerPrefix DEF Clean
<1>6. On(nodeChain[h], v.chain)
  BY <1>3 DEF On
<1>7. \A x \in v.anchors : x \in w.anchors \/ x[2] = nodeChain[h]
  BY <1>2
<1>8. Clean(v, nodeChain)
  BY <1>3, <1>5, <1>6, <1>7 DEF Clean
<1>9. confirmed_txids(w) \subseteq confirmed_txids(v)
  <2>1. \A x \in w.anchors : x \in v.anchors
    BY <1>2
  <2>2. \A b \in ChainBlocks(w) : b \in ChainBlocks(v)
    BY <1>5 DEF ChainBlocks, BlocksOf, On
  <2> QED BY <2>1, <2>2 DEF confirmed_txids
<1> QED BY <1>1, <1>4, <1>8, <1>9 DEF v

\* An empty wallet is clean.
LEMMA CleanEmpty ==
    ASSUME NodeTypeOK, NEW r
    PROVE  Clean(EmptyWallet(r), nodeChain)
BY DEF Clean, EmptyWallet, PrefixOf, NodeTypeOK

\* A clean changeset that is not behind the clean aggregate keeps it clean.
LEMMA CleanMerge ==
    ASSUME NEW p \in SUBSET WalletState, NEW w \in WalletState, NEW best,
           Clean(init_or_load_wallet(p), best), Clean(w, best),
           Len(init_or_load_wallet(p).chain) <= Len(w.chain)
    PROVE  LET m == init_or_load_wallet(MergeInto(p, w))
           IN  m.chain = w.chain /\ Clean(m, best)
<1> DEFINE old == init_or_load_wallet(p)
           m == init_or_load_wallet(MergeInto(p, w))
<1>1. m = [w EXCEPT !.anchors = @ \cup old.anchors, !.seen = @ \cup old.seen]
  BY LoadOne DEF MergeInto
<1>2. m.chain = w.chain /\ m.anchors = w.anchors \cup old.anchors
  BY <1>1 DEF WalletState
<1>3. old.chain \in Seq(Nat \ {0}) /\ w.chain \in Seq(Nat \ {0})
  BY LoadType DEF WalletState
<1>4. \A b : On(b, old.chain) => On(b, w.chain)
  BY <1>3, LongerPrefix DEF Clean
<1> HIDE DEF m
<1> QED BY <1>2, <1>4 DEF Clean, m

\* Every step keeps the wallets clean until the first reorg.
LEMMA NoReorgStep ==
    TypeOK /\ NodeInv /\ WalletsSound /\ NoReorgInv /\ [Next]_vars => NoReorgInv'
<1> SUFFICES ASSUME TypeOK, NodeInv, WalletsSound, NoReorgInv, [Next]_vars
             PROVE  NoReorgInv'
  OBVIOUS
<1>w. /\ wallet \in WalletState /\ fresh \in WalletState /\ stored \in WalletState
      /\ persisted \in SUBSET WalletState /\ NodeTypeOK
      /\ next \in Nat \cup {NoMore} /\ start \in Nat
  BY LoadType DEF TypeOK, stored
<1>s. persisted' = persisted => stored' = stored
  BY DEF stored
<1>l. Len(wallet.chain) \in Nat /\ Len(stored.chain) \in Nat
  BY <1>w DEF WalletState
<1>e. \A r : Clean(EmptyWallet(r), nodeChain)
  BY <1>w, CleanEmpty
<1>m. /\ apply_unconfirmed_txs(wallet, mempool).chain = wallet.chain
      /\ apply_unconfirmed_txs(wallet, mempool).anchors = wallet.anchors
      /\ apply_unconfirmed_txs(fresh, mempool).chain = fresh.chain
      /\ apply_unconfirmed_txs(fresh, mempool).anchors = fresh.anchors
  BY <1>w, MempoolFields
<1>0. CASE NodeMoves
  <2>1. NodeTypeOK' /\ ChainGrows
    BY <1>0, <1>w, NodeStepType, NodeStepMoves, ReadersType DEF NodeMoves
  <2>2. UNCHANGED <<syncVars, stored>>
    BY <1>0, <1>s DEF NodeMoves, appVars
  <2>3. SUFFICES ASSUME reorgs' = 0 PROVE NoReorgInv'
    BY DEF NoReorgInv
  <2>4. reorgs = 0 /\ PrefixOf(nodeChain, nodeChain')
    BY <2>1, <2>3 DEF ChainGrows
  <2>5. \A w \in WalletState : Clean(w, nodeChain) => Clean(w, nodeChain')
    <3> SUFFICES ASSUME NEW w \in WalletState, PrefixOf(w.chain, nodeChain)
                 PROVE  PrefixOf(w.chain, nodeChain')
      BY DEF Clean
    <3>1. /\ Len(w.chain) \in Nat /\ Len(nodeChain) \in Nat /\ Len(nodeChain') \in Nat
      BY <1>w, <2>1 DEF WalletState, NodeTypeOK
    <3> QED BY <2>4, <3>1 DEF PrefixOf
  <2> QED BY <1>w, <2>2, <2>4, <2>5 DEF NoReorgInv, syncVars
<1> SUFFICES ASSUME ~NodeMoves, reorgs' = 0 PROVE NoReorgInv'
  BY <1>0 DEF NoReorgInv
<1>u. UNCHANGED nodeVars
  BY DEF Next, SyncStep, SyncStart, DriveBlock, DriveCannotConnect, DriveEnd,
     FetchMempool, RebuildBlock, RebuildEnd, RebuildFinish, RpcFailure, Restart,
     Persist, Reveal, vars
<1>c. /\ reorgs = 0 /\ nodeChain' = nodeChain
      /\ Clean(wallet, nodeChain) /\ Clean(fresh, nodeChain)
      /\ Clean(stored, nodeChain)
      /\ (pc = "returned" /\ result.rebuilt) \/ Len(stored.chain) <= Len(wallet.chain)
  BY <1>u DEF NoReorgInv, nodeVars
<1>b. ASSUME NEW w, BeginRebuild(w), w.chain = wallet.chain,
             w.anchors = wallet.anchors, stored' = stored, pc # "returned"
      PROVE  NoReorgInv'
  <2>1. pc' = "rebuild" /\ wallet' = w /\ fresh' = EmptyWallet(w.revealed)
    BY <1>b DEF BeginRebuild, FreshFor
  <2>2. Clean(w, nodeChain)
    BY <1>b, <1>c DEF Clean
  <2> QED BY <1>b, <1>c, <1>e, <2>1, <2>2 DEF NoReorgInv
<1>1. CASE SyncStart
  BY <1>1, <1>s, <1>c, <1>l DEF SyncStart, appVars, NoReorgInv
<1>2. CASE DriveBlock
  <2>1. PICK h \in 1..Len(nodeChain), a \in 0..Len(wallet.chain) :
            EmitsBlock(wallet, a, h) /\ wallet' = ApplyBlock(wallet, h)
    BY <1>2 DEF DriveBlock
  <2>2. pc = "drive" /\ UNCHANGED <<pc, before, start, fresh, result, stored>>
    BY <1>2, <1>s DEF DriveBlock, appVars
  <2>3. /\ Clean(wallet', nodeChain) /\ Len(wallet.chain) <= Len(wallet'.chain)
        /\ confirmed_txids(wallet) \subseteq confirmed_txids(wallet')
    BY <1>w, <1>c, <2>1, <2>2, CleanApply DEF WalletsSound
  <2>4. Len(wallet'.chain) \in Nat
    BY TypeStep, SMTT(30) DEF TypeOK, WalletState
  <2>5. Len(stored.chain) <= Len(wallet'.chain) /\ start <= Len(wallet'.chain)
    BY <1>w, <1>l, <1>c, <2>2, <2>3, <2>4 DEF NoReorgInv
  <2> QED BY <1>c, <2>2, <2>3, <2>5 DEF NoReorgInv
<1>3. CASE DriveCannotConnect \/ DriveEnd
  <2>1. CASE BeginRebuild(wallet)
    BY <1>3, <1>b, <1>s, <2>1 DEF DriveCannotConnect, DriveEnd, appVars
  <2>2. CASE DriveEnd /\ pc' = "mempool" /\ UNCHANGED <<wallet, fresh>>
    BY <1>s, <1>c, <2>2 DEF DriveEnd, appVars, NoReorgInv
  <2> QED BY <1>3, <2>1, <2>2 DEF DriveCannotConnect, DriveEnd
<1>4. CASE FetchMempool
  <2> DEFINE w == apply_unconfirmed_txs(wallet, mempool)
  <2>1. pc = "mempool" /\ stored' = stored
    BY <1>4, <1>s DEF FetchMempool, appVars
  <2>2. CASE BeginRebuild(w)
    BY <1>b, <1>m, <2>1, <2>2
  <2>3. CASE Return(w, {}, FALSE)
    <3>1. pc' = "returned" /\ wallet' = w /\ fresh' = EmptyWallet(NoReveal)
      BY <2>3 DEF Return
    <3>2. Clean(w, nodeChain) /\ Len(stored.chain) <= Len(w.chain)
      BY <1>m, <1>c, <2>1 DEF Clean
    <3> QED BY <1>c, <1>e, <2>1, <3>1, <3>2 DEF NoReorgInv
  <2> QED BY <1>4, <2>2, <2>3 DEF FetchMempool
<1>5. CASE RebuildBlock
  <2>1. PICK h \in 1..Len(nodeChain), a \in 0..Len(fresh.chain) :
            EmitsBlock(fresh, a, h) /\ fresh' = ApplyBlock(fresh, h)
    BY <1>5 DEF RebuildBlock
  <2>2. pc = "rebuild" /\ UNCHANGED <<pc, wallet, stored>>
    BY <1>5, <1>s DEF RebuildBlock, appVars
  <2>3. Clean(fresh', nodeChain)
    BY <1>w, <1>c, <2>1, <2>2, CleanApply DEF WalletsSound
  <2> QED BY <1>c, <2>2, <2>3 DEF NoReorgInv
<1>6. CASE RebuildEnd
  BY <1>6, <1>s, <1>c DEF RebuildEnd, appVars, NoReorgInv
<1>7. CASE RebuildFinish
  <2> DEFINE w == apply_unconfirmed_txs(fresh, mempool)
  <2>1. /\ pc' = "returned" /\ wallet' = w /\ fresh' = EmptyWallet(NoReveal)
        /\ result'.rebuilt = TRUE /\ stored' = stored
    BY <1>7, <1>s DEF RebuildFinish, Return, appVars
  <2>2. Clean(w, nodeChain)
    BY <1>m, <1>c DEF Clean
  <2> QED BY <1>c, <1>e, <2>1, <2>2 DEF NoReorgInv
<1>8. CASE RpcFailure \/ Restart
  <2>1. /\ wallet' = stored \/ (wallet' = wallet /\ pc # "returned")
        /\ pc' = "idle" /\ fresh' = EmptyWallet(NoReveal) /\ stored' = stored
    BY <1>8, <1>s DEF RpcFailure, Restart, Abandon, InPass, stored
  <2>2. Clean(wallet', nodeChain) /\ Len(stored.chain) <= Len(wallet'.chain)
    BY <1>c, <1>l, <2>1
  <2> QED BY <1>c, <1>e, <2>1, <2>2 DEF NoReorgInv
<1>9. CASE Persist
  <2>1. /\ wallet' = wallet /\ pc' = "idle" /\ fresh' = EmptyWallet(NoReveal)
        /\ persisted' = IF result.rebuilt THEN {wallet} ELSE MergeInto(persisted, wallet)
    BY <1>9 DEF Persist, Abandon, Store
  <2>2. Clean(stored', nodeChain) /\ stored'.chain = wallet.chain
    <3>1. CASE result.rebuilt
      BY <1>c, <2>1, <3>1, LoadOne DEF stored
    <3>2. CASE ~result.rebuilt
      BY <1>w, <1>c, <2>1, <3>2, CleanMerge DEF stored
    <3> QED BY <3>1, <3>2
  <2> QED BY <1>c, <1>e, <1>l, <2>1, <2>2 DEF NoReorgInv
<1>10. ASSUME NEW k \in Keychain, Reveal(k) PROVE NoReorgInv'
  <2>1. /\ pc = "idle" /\ pc' = "idle" /\ fresh' = fresh
        /\ wallet' = [wallet EXCEPT !.revealed =
                            [wallet.revealed EXCEPT ![k] = wallet.revealed[k] + 1]]
        /\ persisted' = MergeInto(persisted, wallet')
    BY <1>10 DEF Reveal
  <2>2. wallet' \in WalletState
    BY TypeStep DEF TypeOK
  <2>3. wallet'.chain = wallet.chain /\ wallet'.anchors = wallet.anchors
    BY <1>w, <2>1 DEF WalletState
  <2>4. Clean(wallet', nodeChain) /\ Len(stored.chain) <= Len(wallet'.chain)
    BY <1>c, <2>1, <2>3 DEF Clean
  <2>5. Clean(stored', nodeChain) /\ stored'.chain = wallet'.chain
    BY <1>w, <1>c, <2>1, <2>2, <2>4, CleanMerge DEF stored
  <2> QED BY <1>c, <1>l, <2>1, <2>3, <2>4, <2>5 DEF NoReorgInv
<1>11. CASE UNCHANGED vars
  BY <1>11, <1>s, <1>c DEF vars, syncVars, appVars, NoReorgInv
<1> QED BY <1>1, <1>2, <1>3, <1>4, <1>5, <1>6, <1>7, <1>8, <1>9, <1>10, <1>11
        DEF Next, SyncStep

----------------------------------------------------------------------------
(* The theorems                                                            *)

\* The inductive invariant behind all of them.
TruthInv ==
    /\ TypeOK /\ NodeInv /\ WalletsSound /\ RebuildSound
    /\ StillInv /\ AtReturn /\ NoReorgInv

\* The invariant holds throughout every behaviour.
LEMMA TruthInvHolds == Spec => []TruthInv
<1>1. Init => NodeInv /\ WalletsSound /\ RebuildSound /\ StillInv /\ AtReturn
                /\ NoReorgInv
  <2> SUFFICES ASSUME Init
               PROVE  NodeInv /\ WalletsSound /\ RebuildSound /\ StillInv
                        /\ AtReturn /\ NoReorgInv
    OBVIOUS
  <2>1. /\ pc = "idle" /\ before = {} /\ still = FALSE
        /\ wallet = EmptyWallet(NoReveal) /\ fresh = EmptyWallet(NoReveal)
        /\ stored = EmptyWallet(NoReveal) /\ nodeChain = <<>>
    BY DEF Init, NodeInit, init_or_load_wallet, stored
  <2>2. NodeInv
    BY NodeInvInit DEF Init
  <2>3. WalletsSound
    BY <2>1, SoundEmpty DEF WalletsSound
  <2>4. RebuildSound /\ StillInv /\ AtReturn
    BY <2>1 DEF RebuildSound, Rebuilding, Driven, StillInv, AtReturn,
       NoPhantomAtReturn, RebuiltGroundTruth
  <2>5. Clean(EmptyWallet(NoReveal), nodeChain)
            /\ Len(EmptyWallet(NoReveal).chain) <= Len(EmptyWallet(NoReveal).chain)
    BY <2>1 DEF Clean, PrefixOf, EmptyWallet
  <2>6. NoReorgInv
    BY <2>1, <2>5 DEF NoReorgInv
  <2> QED BY <2>2, <2>3, <2>4, <2>6
<1>2. TruthInv /\ [Next]_vars => NodeInv'
  <2> SUFFICES ASSUME TruthInv, [Next]_vars PROVE NodeInv'
    OBVIOUS
  <2>1. CASE NodeMoves
    BY <2>1, NodeStepMoves, ReadersType DEF NodeMoves, TruthInv, TypeOK
  <2>2. CASE UNCHANGED nodeVars
    BY <2>2 DEF nodeVars, NodeInv, Branch, NodeConfirmed, ConfirmedBy, BlocksOf, TruthInv
  <2> QED BY <2>1, <2>2
          DEF Next, SyncStep, SyncStart, DriveBlock, DriveCannotConnect, DriveEnd,
              FetchMempool, RebuildBlock, RebuildEnd, RebuildFinish, RpcFailure,
              Restart, Persist, Reveal, vars
<1>3. TruthInv /\ TypeOK' /\ [Next]_vars => TruthInv'
  BY <1>2, WalletsSoundStep, RebuildSoundStep, StillStep, NoReorgStep DEF TruthInv
<1> QED BY <1>1, <1>3, TypeCorrect, PTL DEF Spec, TruthInv

\* emitter_sync, undisturbed: whatever earlier passes, failures and crashes
\* left in the wallet, it returns with no phantom.
THEOREM NoPhantomAtReturnHolds == Spec => []NoPhantomAtReturn
<1>1. TruthInv => NoPhantomAtReturn
  BY DEF TruthInv, AtReturn
<1> QED BY <1>1, TruthInvHolds, PTL

\* rebuild_on_reorg, undisturbed: the rebuilt wallet is at ground truth, and
\* nothing the node still has is reported as evicted.
THEOREM RebuiltGroundTruthHolds == Spec => []RebuiltGroundTruth
<1>1. TruthInv => RebuiltGroundTruth
  BY DEF TruthInv, AtReturn
<1> QED BY <1>1, TruthInvHolds, PTL

\* rebuild_on_reorg, whatever else the node does meanwhile: no confirmed payment
\* in a block that stays on the best chain throughout the rebuild is lost when
\* the wallet is swapped.
THEOREM SurvivorsKeptHolds == Spec => SurvivorsKept
<1> DEFINE kept == pc = "rebuildMempool" /\ pc' = "returned" =>
                    \A a \in wallet.anchors :
                        a[2] \in stayed => a[1] \in confirmed_txids(wallet')
<1>1. TruthInv /\ [Next]_vars => [kept]_vars
  <2> SUFFICES ASSUME TruthInv, [Next]_vars, pc = "rebuildMempool",
                      pc' = "returned", NEW a \in wallet.anchors, a[2] \in stayed
               PROVE  a[1] \in confirmed_txids(wallet')
    OBVIOUS
  <2>1. RebuildFinish
    BY DEF Next, SyncStep, SyncStart, DriveBlock, DriveCannotConnect, DriveEnd,
       FetchMempool, RebuildBlock, RebuildEnd, RpcFailure, Restart, Persist,
       Abandon, Reveal, NodeMoves, vars, syncVars
  <2>2. wallet' = apply_unconfirmed_txs(fresh, mempool)
    BY <2>1 DEF RebuildFinish, Return
  <2>3. wallet'.chain = fresh.chain /\ wallet'.anchors = fresh.anchors
    BY <2>2, MempoolFields DEF TruthInv, TypeOK
  <2>4. a[1] \in confirmed_txids(fresh)
    BY SurvivorConfirmed DEF TruthInv
  <2> QED BY <2>3, <2>4 DEF confirmed_txids, ChainBlocks
<1> QED BY <1>1, TruthInvHolds, PTL DEF Spec, SurvivorsKept

\* emitter_sync: without a reorg of the node neither rebuild signal fires and
\* every emitted block connects, across failed passes, crashes and reloads.
THEOREM NoFalsePositivesHolds == Spec => []NoFalsePositives
<1>1. TruthInv => NoFalsePositives
  <2> SUFFICES ASSUME TruthInv, reorgs = 0
               PROVE  /\ ~has_orphaned_anchor(wallet)
                      /\ pc = "drive" =>
                          /\ ~Demoted(wallet)
                          /\ \A h \in 1..Len(nodeChain), a \in 0..Len(wallet.chain) :
                              EmitsBlock(wallet, a, h) => ~CannotConnect(wallet, a, h)
    BY DEF NoFalsePositives
  <2>1. Clean(wallet, nodeChain)
    BY DEF TruthInv, NoReorgInv
  <2>2. ~has_orphaned_anchor(wallet)
    BY <2>1 DEF Clean, On, has_orphaned_anchor, ChainBlocks, BlocksOf
  <2>3. pc = "drive" => ~Demoted(wallet)
    BY DEF TruthInv, NoReorgInv, Demoted
  <2>4. ASSUME pc = "drive", NEW h \in 1..Len(nodeChain),
               NEW a \in 0..Len(wallet.chain), EmitsBlock(wallet, a, h)
        PROVE  ~CannotConnect(wallet, a, h)
    <3>1. a = Len(wallet.chain)
      BY <2>1, <2>4, CleanApply DEF TruthInv, TypeOK, WalletsSound
    <3> QED BY <3>1 DEF CannotConnect, TruthInv, TypeOK, WalletState
  <2> QED BY <2>2, <2>3, <2>4
<1> QED BY <1>1, TruthInvHolds, PTL
============================================================================
