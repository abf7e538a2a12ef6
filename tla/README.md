# A TLA+ verification of emvault-core

`emvault-core` is the library behind applications that hold Bitcoin in
multisig *federations*: it builds the descriptor of a federation, keeps the
stack of versions a federation goes through, plans the migration of funds from
one version to the next, coordinates the signing of a PSBT, checks what a PSBT
pays, and syncs a BDK wallet with a Bitcoin node through reorganisations.

This directory holds TLA+ models of those parts, TLC configurations that check
them on small instances, and TLAPS proofs of what matters most for every
instance. `PROJECT.json` maps every definition to the source lines it models.
Paths below are relative to the repository's root (`src/` there).

## 1. The system

| Component | State | Operations | Interacts with |
|---|---|---|---|
| Chain sync (`src/chain_sync.rs`) | the caller's BDK wallet, locals of a pass | `init_or_load_wallet`, `emitter_sync`, `rebuild_on_reorg` | bitcoind over RPC, one call at a time; the application stores what a pass returns |
| Signing (`src/psbt.rs`) | the PSBT, the set of signers counted | `build_spend`; the coordinator's `new`, `request_signatures`, `receive_signature`, `finalize`; `combine_psbt`, `finalize_and_extract` | HSMs through BDK, hardware wallets through copies of the PSBT |
| Migration planner (`src/migration.rs`) | the plan under construction | `plan` of two sweep algorithms | called by the application and by `plan_migrations` |
| Output verification (`src/verify.rs`) | which approved payments are matched | `verify_psbt_outputs`; descriptor comparison | last check before a PSBT is signed |
| Descriptor builder (`src/descriptor.rs`) | the entries of a builder | `add_signer`, `build`, `bip388_taproot_policy`, `to_multipath_string`, `available_script_types` | called by federations and build helpers |
| Federation (`src/federation.rs`) | immutable values | `new`/`with_config`, `rotate_signer`, `add_signer`, `remove_signer`, `change_threshold` | each mutation builds a fresh descriptor |
| Build helpers (`src/federation_build.rs`) | none | `build_federation_with`, `build_federation_taproot_with`, `bip388_taproot_policy` | descriptor and snapshot of a vault, which the application stores |
| Roster (`src/roster.rs`) | none | `compute_roster_plan`, `validate_threshold`, `historic_versions_at_risk` | computes the members of the next version |
| Federated wallet (`src/federated_wallet.rs`) | the stack of versions | `new`, `with_federation`, `plan_migrations`, views | federations, planner, snapshots |
| Snapshots (`src/snapshot.rs`), recovery (`src/recovery.rs`) | serialised values | build, encode, `verify` | read back long after they were written |
| `network.rs`, `signer.rs`, `error.rs`, `lib.rs` | none | helpers, the `Signer` trait, error types | everything |

Where it is hard:

* **Chain sync.** Every RPC is a point where the node may mine, reorganise or
  evict, where the call may fail, and where the process may die. A pass reads a
  baseline first and uses it last; it mutates the caller's wallet as it goes;
  bdk never forgets an anchor or a sighting; and the application must merge one
  kind of result and replace with the other. Correct means: no phantom funds,
  no lost confirmed funds, every eviction reported, no endless rebuilding.
* **Signing.** Copies of the PSBT live outside the session, come back late,
  twice, in any order, partially signed, or under another signer's name; a
  dispatch may fail half way; `finalize` consumes the session. Correct means:
  the count is the truth, and completion means the PSBT can be finalized.
* **Migration.** A chain of unconfirmed transactions is planned with
  placeholder outpoints and unsigned amounts whose subtraction panics. Correct
  means: everything is spent once, each transaction balances, no panic.
* **Verification.** A greedy match over two lists with duplicates. Correct
  means: it accepts exactly what an assignment of payments to outputs justifies.
* **Federation lifecycle.** Long sequences of mutations, and two independent
  implementations of "the next roster". Correct means: every version can be
  signed for and restored, and the two implementations agree.
* **Relay.** Deposits arrive at old versions at any time, plans are made from a
  wallet as it was synced and broadcast after further versions were stacked,
  and the members who could sign leave. Correct means: every coin stays
  spendable and ends up in the current version.
* **A vault and its papers.** Descriptor, snapshot, device policy, read-back
  and recovery template are derived from the same roster by different routes,
  at different times, and are compared or used years later. Correct means: they
  describe the same addresses, and what does not is refused.

The full list, line by line, is `hazards` in `PROJECT.json`.

## 2. The modules

### BitcoinNode, ChainSync, MCChainSync, ChainSyncProofs

`BitcoinNode` is external: a best chain, the blocks it has ever made with their
transactions and their place in the tree, a mempool; it broadcasts, mines (also
transactions it never saw), evicts, and switches to a longer branch, on which
each displaced transaction is confirmed again, back in the mempool, or gone.
The branch may fork from any block made so far: from the best chain, or from a
branch that was abandoned, which so wins back. Only transactions that pay
the wallet exist, and only to addresses that were handed out.

`ChainSync` models a wallet as its local chain, its anchors (pairs of
transaction and block), the transactions it has seen in a mempool, and how many
addresses each keychain has revealed. A pass is a little program with a `pc`:

| Action | Code |
|---|---|
| `SyncStart` | `before_confirmed`, the checkpoint, the emitter |
| `DriveBlock`, `DriveCannotConnect`, `DriveEnd` | an iteration of the block loop that connects, one that does not, and its end with the two signals of an absorbed reorg |
| `FetchMempool` | `mempool()`, `apply_unconfirmed_txs`, `has_stale_unconfirmed`, the return of a forward pass |
| `RebuildBlock`, `RebuildEnd`, `RebuildFinish` | `rebuild_on_reorg`: the loop from genesis, the mempool, the evicted set, the swap |
| `RpcFailure` | any `?` on an RPC: the wallet keeps what was applied |
| `Restart` | the process dies; `init_or_load_wallet` from the stored aggregate |
| `Persist`, `Reveal` | the application: stores a result as `reorg_rebuilt` asks and books settlements; hands out an address |

Two history variables serve the properties: `still` (the node has done nothing
since the pass began) and `stayed` (the blocks that have been on the best chain
ever since the rebuild began).

The emitter (`EmitsBlock`, `EmitsNone`, `Agreement`) is external too: it
follows the cached successor of its last block, and without one looks for the
highest checkpoint that is still on the best chain, from where it continues at
`start_height` or one above, whichever is higher. A block connects
unless the local block just above the point of agreement stays unreplaced
(`CannotConnect`). In the rebuild it always connects, because the drive starts
at genesis; the error path of `apply_block_connected_to` there is unreachable.
`ReloadOnError` says whether the application reloads its wallet after an `Err`
or goes on with the one it has: the library does not say, and it matters.

### Signing, SignatureQuorum, MCSigning, SigningProofs

A PSBT is a set of `<<signer, input>>` pairs. `Open` is `UnsignedPsbt::new`
with `SigningCoordinator::new`; `RequestSignatures` and `RequestFails` are the
two outcomes of `request_signatures` (BDK writes signatures in place, so a
failure leaves those already written); `DeviceSigns` is external and produces
copies from any copy; `ReceiveSignature` and `Finalize` are the methods with
their error paths. `Propose`, `CombinePsbt` and `FinalizeAndExtract` are
the other way to sign: `build_spend`, and an application that merges copies
itself. `Taproot` selects where signatures live, which is where the code's two
readers (`signers_with_sigs`, `FoundNew`) part ways.

`SignatureQuorum` is the abstract specification of both: a session collects
evidence per input and may count signers it has evidence of, it loses nothing,
it completes only with a quorum on every input, and it is abandoned only while
it lacks a quorum or does not know of it. `Signing!ImplementsQuorum`
instantiates it with `evidence` read off the PSBT.

### ListOps, Migration, MCMigration, MigrationProofs

One behaviour is one call of `plan` on one input; `Init` ranges over every
distribution of UTXO values. `Check` is the prefix of both algorithms
(network, UTXOs, fee account, balance), `PlanSingle` the single-transaction
algorithm, `PlanLargeAccount`, `PlanSmallBundle` and `PlanFeeAccount` the three
stages of the batched one. `estimate_fee` is the code's arithmetic, rounding
included. `AddTx` ends in `"panic"` where the `Amount` subtraction would.

`ListOps` has the operations on lists that the planner and the federation share:
filters, sums and sorting, as recursive functions and by what a sorted list is,
the forms that the prover can reason about.

### VerifyOutputs, MCVerifyOutputs, VerifyOutputsProofs

`verify_psbt_outputs` as a walk with one step per output (`Claim`,
`SkipChange`, `Reject`) and a `Finish`. `Acceptable` is the abstract
specification: there is an injective assignment of approved payments to equal
outputs such that every other output is ours.

### Descriptors, Federation, FederatedWallet, MCFederatedWallet, DescriptorProofs

`Descriptors` is `descriptor.rs` and the descriptor half of `verify.rs` as
operators: a builder, the order of its keys (a map over ids for P2WSH, x-only
keys for taproot), the two internal keys, the multipath rewriting, BIP-388
policies, and the comparison of two descriptors. miniscript limits the keys of a
script; `MaxWshKeys` and `MaxTrKeys` stand for its 20 and 999. A descriptor is a
record, a string and its parse being one value. External operators say what it
stands for on chain: `ScriptAt` is the script at an index of the receive or
change chain, where origins play no part, `multi_a` keeps the order of its keys,
and `sortedmulti`, which sorts the derived ones, only tells which they are and
how often (a bag).

`Federation` has the constructors and mutations as operators that return an
error's name or a value, the roster arithmetic on sequences, and snapshots.
`FederatedWallet` strings them together: derive a candidate by any constructor,
mutation or roster plan, then `Stack` it (`new`, `with_federation`) or dismiss
it. A signer has an id, an origin, a key, the networks its device supports, its
xpub's network kind and whether it can sign taproot; the instance includes one
device re-keyed, registered under a second id, and registered under a second id
and origin.

### Relay, MCRelay, RelayProofs

`Relay` extends `FederatedWallet` with coins. `Deposit` pays to any version,
old ones included; `Sync` brings the wallets' view up to date; `PlanMigrations`
is `plan_migrations` over that view, with its rule that the first error of any
version leaves no plan at all. A plan says which coins of which version to
spend; where they go is left to the caller, and `Addressed` is an application
that takes an address of the version that is current when it plans. `Broadcast`
is the application and the network: the current members sign a plan made
earlier, and it moves its coins there, unless one of them is spent.
`StackHeeding` is an operator who asks `historic_versions_at_risk` about every
version, the outgoing one included, and does not stack a candidate it warns
about. Fees are not deducted from coins, and the sweep algorithm is a check of
the coins' worth against one fee: `Migration` has the real ones.

### Recovery, Vault, MCVault, VaultProofs

`Recovery` is a template: its content, what the checksum covers (taken to be
injective), `verify`, the `createwallet` and `importdescriptors` calls it prints
for Bitcoin Core, and, external, what Core makes of them: it refuses public
descriptors in a wallet with private keys enabled, and ranges for a descriptor
without wildcard; it watches the range and tops it up to its keypool; and it
looks up no past when the timestamp is `now`. `Vault` is the life of one vault:
it is minted by one of the helpers of `federation_build.rs` (`Mint`,
`RngFails`), hands out addresses, has its policy registered by a device
(`RegisterPolicy`, with any stored roster and chain code), is compared with
what a device or a server shows (`ReadBack`), and is written into a template
(`MakeTemplate`) that may be damaged in one field and is imported elsewhere
(`Import`), into the wallet that the instructions print or into one without
private keys: they say to create or unlock a wallet.

## 3. What TLC checks

Runs that pass (all properties hold, deadlock checked for chain sync):

| Run | Shows | Bounds |
|---|---|---|
| `chain_sync` | `TypeOK`, `SignalSuperset`, `StoredMatchesLive`, `NoFalsePositives`, `NoPhantomAtReturn`, `RebuiltGroundTruth`, `SurvivorsKept`, `EvictionReported` | two transactions (one per keychain), 5 blocks, 2 reorgs with 1 failure or crash, or 1 reorg with 1 mempool eviction (`FewDisturbances`) |
| `chain_sync_live` | `SelfHeals`, `NeverALoop` | one transaction, 7 blocks, 1 reorg, 1 fault, an application that does not reload |
| `signing` | `TypeOK`, `CountedHaveSigned`, `RequestCountsAll`, `WholeIsFinalizable`, `ImplementsQuorum` | 2 hardware wallets, 2 HSMs, 2 inputs, 3 device copies |
| `migration` | `TypeOK`, `SpentExactlyOnce`, `PlanBalances`, `PanicsExactlyWhenShort` | 4 accounts of up to 2 UTXOs, amounts one below, at and far above a fee and the threshold |
| `verify_outputs` | `AcceptsOnlyApproved`, `RejectsNoneApproved` | all lists of up to 3 outputs over 2 scripts and 2 amounts |
| `federated_wallet` | `StackVerifies`, `RosterAgrees` | 8 signers, 3 networks, 2 configurations, 3 versions, thresholds up to 3, at most 3 keys in wsh and 4 in tr |
| `relay` | `CoinsSpendable`, `Relayed` | 3 devices, one re-keyed, 3 versions, a coin and a dust coin |
| `vault` | `AddressesDistinct`, `PolicyIsTheVault`, `ReadBackExact`, `OnlyIntactImported`, `RecoveryWatches` | 11 rosters over 7 signers, 3 networks, thresholds up to 3, 2 chain codes, 2 addresses handed out per chain, default range 0, keypool 1 |

Why the bounds are enough to be interesting: five blocks let a branch of depth
two be built, synced and replaced in the middle of a pass, and two reorgs let it
happen again during the rebuild, or bring back the branch that was left; a
second transaction tells keychains and sets apart. A reorg may drop transactions
from the mempool too, so an eviction of its own is combined with one reorg and
no fault only; the proofs have no such limit. Seven blocks are the fewest in
which a reorg goes three blocks deep and the emitted block does not connect
(`DriveCannotConnect`), which `chain_sync_live` has; its one reorg is also what
drops a transaction from the mempool. Two inputs are the fewest on which signers
can disagree, and three outputs the fewest on which a greedy match can take the
wrong duplicate and still have a third to fail on. Three versions are the fewest
in which a plan made for one version is broadcast when that version is old, and
in which an empty version lies before a funded one; a coin and a dust coin give
versions that pay for their sweep and versions that do not. The rosters of
`vault` have ids and keys in different orders, one device under another id,
under another origin, and twice; an index more than the addresses handed out is
compared on each chain. Its default range and keypool (20 and 1000 in the code
and in Core) are small enough that two addresses go beyond them, and the scripts
of `federated_wallet` small enough that an exchange of members meets the limit
on keys. The signing, planner, verification and vault runs disable the deadlock
check, since a session or a call ends; so do the federated wallet and the relay,
whose stack has a bound.

Fairness (`FairSpec`): weak fairness of the pass as a whole (an application
syncs again and again, and `emitter_sync` is a sequential function that runs to
its return unless an RPC fails) and of storing its result. Nothing is assumed
of the node, of failures or of crashes; their number is bounded, so they end.
`RelaySpec` assumes weak fairness of syncing, planning and broadcasting. The
library is passive: this is an application whose relay job runs again and
again, as the documentation of `plan_migrations` and of the roster warning has
it. Nobody has to deposit, to derive a federation or to stack one.

Each property has a mutant in `PROJECT.json`: a changed definition, kept next
to the original in the module and marked `Mutant`, under which TLC finds the
property violated.

### Where the code and its documentation differ

Four runs are expected to be violated; each states what a comment or an
instruction of the code promises and shows a behaviour of the code that breaks
it.

| Run | Promise | What happens |
|---|---|---|
| `p0` | every sync leaves the wallet at post-reorg ground truth | a reorg two deep: the emitter goes from the point of agreement to the old tip's height, the block in between is never scanned and a deposit in it is missed |
| `signing_partial` | `is_complete`: the threshold has been met | one signer on both inputs and one on the first: the second is a signature short |
| `taproot_count` | `signatures_collected` counts who contributed | one taproot signature counts the whole roster |
| `snapshot_restore` | descriptor and snapshot of a ranged federation of the given script type | the snapshot is that of `Federation::new`, a fixed-key P2WSH federation: no address of the vault can be derived from its descriptor, and its `verify` passes |

Six more show in a passing run, whose property says exactly what the code does
instead:

* `PanicsExactlyWhenShort`: `plan` is documented to return an error when fees
  exceed value; the balance check sees the fee account's total, the chain its
  first UTXO, and in between the subtraction panics.
* `PlanBalances`: `utxo_count` is documented as the number of UTXOs being
  migrated; it also counts the chain's own change.
* `ReadBackExact`: `multisig_policy` says that every descriptor of this crate
  is `wsh(sortedmulti(...))`; a taproot vault's own descriptor is refused. (It
  also says that another origin would change the addresses: it would not, but
  it is refused too, which is what the property states.)
* `RecoveryWatches`: a template is to capture the federation's address space;
  the Core instructions import receive addresses only, and of those only the
  first 21 or Core's keypool when no index was recorded; they are rejected by
  Core for a federation with fixed keys (the default), and cannot describe a
  taproot vault with a chain code, which no `Federation` can represent.
* `RecoveryWatches`, the wallet: the `createwallet` that the instructions print
  leaves private keys enabled, and Core refuses public descriptors in such a
  wallet; an import succeeds only in one that was created otherwise.
* `RecoveryWatches`, the history: the instructions say that timestamp `now`
  performs a full chain rescan; it bypasses the rescan, so that the addresses
  are watched and their past is not found.

And the hypotheses of other properties are needed:

* `EvictionReported` needs an application that reloads its wallet after an
  `Err`. With `ReloadOnError = FALSE` in `ChainSync.cfg` TLC finds the
  behaviour in which an RPC fails after the drive has absorbed the reorg and
  the retry takes its baseline too late.
* `RebuiltGroundTruth` needs a node that is still. A transaction mined between
  the rebuild's last block and its mempool fetch is reported as evicted while
  it is confirmed, against the documentation of `evicted_txids`.
* `SurvivorsKept` speaks of blocks that stay on the best chain throughout the
  rebuild. One that leaves it and comes back between the rebuild's last
  `next_block` and its mempool fetch (`chain_sync.rs:401-409`) is missed: the
  code does not look at the chain again, drops its transactions and reports them
  as evicted.
* `EvictionReported` speaks of what the store has as confirmed. A settled
  transaction that one pass finds re-queued in the mempool, and that is dropped
  before the next, is in no pass's baseline and is never reported.
* `CoinsSpendable` excepts versions with a re-keyed member: the warning counts
  ids, and `rotate_signer` may keep the id and change the key.
* `Relayed` excepts dust: one old version that cannot pay for its sweep keeps
  `plan_migrations` from planning any other, for as long as it stays so.

Seen while modelling and not stated as runs: a copy signed by two devices is
merged whole but counted for one signer, until the next `request_signatures`;
`receive_signature` looks at `partial_sigs` only and so rejects every taproot
submission; `reject_duplicate_keys` compares keys with their origin, so one key
registered under two origins fills two slots; `Federation::with_config`
documents that taproot with ranged keys is rejected, and it is not; `add_signer`
and `rotate_signer` take a device that cannot sign taproot into a taproot
federation; `bip388_taproot_policy` makes a policy for a threshold or an xpub
network that `build` refuses; `FederationSnapshot::verify` documents a check of
xpubs and makes one of fingerprints; the snapshot of an Elements federation
never verifies, as it has no descriptor; `compute_roster_plan` approves a roster
of one, which no federation can be built from.

## 4. What is proved

TLAPS checks these theorems for every value of the constants that satisfies
the modules' named assumptions. Every safety invariant, every action property
and the refinement that a passing run checks are theorems.

**ChainSyncProofs** (`BoundsAssumption`, `SyncAssumption`).

* `TypeCorrect`: `TypeOK` is inductive. The work is in `NodeStepType` (a reorg
  builds a well-typed chain from a known one, `ReorgIs`) and in the operators
  that build wallets.
* `SignalSupersetHolds`: `SignalSuperset` alone is not inductive; with
  `BeforeAnchored` (during the drive every transaction of the baseline is still
  anchored) it is immediate: a baseline transaction that is not confirmed has an
  anchor, and that anchor is off the chain.
* `StoredMatchesLiveHolds` and `EvictionNeverLost` (the latter under
  `ReloadOnError`, the former vacuous without it): both rest on
  `GrowsFromStored`. Between passes the live wallet is the stored one; in a pass
  the baseline is what the *stored* wallet has as confirmed, and unless the pass
  rebuilds the live wallet only grows; a rebuild reports what the baseline has
  and the new graph has not. The proof shows where reloading after an `Err` is
  needed: it is the only step that would break the second conjunct.
* `NoPhantomAtReturnHolds`, `RebuiltGroundTruthHolds`, `SurvivorsKeptHolds` and
  `NoFalsePositivesHolds` rest on one invariant, `TruthInv`. `NodeInv`: the best
  chain and every abandoned one are branches of one tree (`Branch`), and a
  pending transaction is not confirmed. `WalletsSound`: the wallet, the stored
  one and the fresh one may be off the best chain, but they are branches of that
  tree too, so that a branch that wins back changes nothing: where a wallet's
  chain meets the best one the two agree below (`BranchesAgree`); and every
  anchor is in the block it names. `RebuildSound`: the fresh wallet misses no
  payment of its chain, and once driven it has every block that has been on the
  best chain ever since the rebuild began (`stayed`). `StillInv`: while the node
  stands still, a drive that has emitted anything is on the node's chain.
  `AtReturn`: what holds of the result of a still pass. `NoReorgInv`: before the
  first reorg all chains are prefixes of the node's and the store is not ahead
  of the wallet, which is what rules out false positives across failures and
  crashes.

**MigrationProofs** (`MigrationAssumption`). `TypeOKHolds`,
`PanicsExactlyWhenShortHolds`, `PlanBalancesHolds`, `SpentExactlyOnceHolds`, for
any accounts, amounts, threshold and fee rate. The batched plan has a closed
form: its n-th transaction is `ChainTx(n)`, the first n cost `Spent(n)`.
`PlanInv` says that the plan under construction is a prefix of that chain whose
fees its first UTXO covers, and that past the checks the fee account covers all
fees. An underflow then happens exactly when `Spent` exceeds the first UTXO
within the chain, and never at the last transaction, which has the whole fee
account behind it. The properties of `Ok` plans are facts about the closed form:
every account is in one part of the chain (`OwnersSplit`), and sums over
flattened lists of outpoints are sums of totals.

**RelayProofs** (`WalletAssumption`, `KeyLimitAssumption`, the relay's bounds).
`StackVerifiesHolds`: every version and every candidate is a good federation
(`FWInv`), since each constructor, mutation and roster plan either fails or goes
through `with_config`, whose checks make it good (`WithConfigGood`).
`CoinsSpendableHolds`: with `Covered`, at least a threshold of every version's
ids are members of the current one, which is what `historic_versions_at_risk`
counts before a version is stacked; a member that kept its id kept its key
unless it was re-keyed, which the property excepts.

`RosterAgreesHolds`: the request that stands is what the candidate and the reply
answer (`RosterInv`), so the theorem is about one delta, and there both ways
have a closed form. On ids: filtering and de-duplicating commute with taking the
ids (`RosterFilters`), hence the plan's roster is `NextRoster`, the members that
stay followed by the joining ones, and each id leads back to its signer
(`PlanIs`). Method by method: n calls of `add_signer` append the first n joining
signers (`AddsInTurn`), n calls of `remove_signer` leave what one filter leaves
(`RemovesInTurn`), and the threshold changes in between (`OneByOneIs`). The two
rosters are the same list unless a signer both joins and leaves. If the plan's
roster passes `with_config`, no roster on the way to it is too small or has a
repeated id or a device of another network, so only equal keys can be in the
way, or members and joining ones that are together too many for a script
(`ConfigErrorIs`); if the last roster of the methods passes, the plan has
nothing to refuse. `WalletAssumption` asks for lists in which an id stands for
one signer (`NamesByIds`). In the code a plan is made of ids alone, and the
application has one signer for an id it passes; two devices under one id would
be one member for the plan and an error for `add_signer`.

**VaultProofs** (`VaultAssumption`, `RecoveryAssumption`, `KeyLimitAssumption`).
All five properties of a vault's papers, from `VaultInv`, which remembers how
the vault and the artifact came about: the vault is what a builder made of some
roster, a policy or a candidate is what `Build` made of some other one, and a
template and its checksum cannot both have been altered. `DescriptorProofs`
gives every descriptor a closed form, `Desc(script, m, f, wildcard, internal)`
with the roster listed by `f`, and its script likewise (`ScriptIs`).
`AddressesDistinctHolds`: some child key shows chain and index.
`PolicyIsTheVaultHolds`: equal scripts give equal lists of child keys, hence
equal bags of public keys; conversely two rising lists with the same bag are the
same list (`RisingUnique`), so that sorting by key, ties and all, does not
depend on order, ids or origins. `ReadBackExactHolds`: equal key sets give equal
bags because `build()` refuses repeated keys (`BuildOk`); for the converse an
address of the change chain tells the three wildcards apart, which is why
`MaxIndex` is at least 1. `RecoveryWatchesHolds`, for any default range and
keypool: what an import watches ends at a known index (`Ends`, `LastWatched`),
and since no two receive addresses coincide (`AddressesDistinctHolds`) it has
all that were handed out if and only if that index reaches the last of them.
That it was not made into the printed wallet and rescans nothing follows from
what the template's instructions keep (`AsPrinted`).

**SigningProofs** (`SigningAssumption`). `TypeCorrect`; for P2WSH sessions
`CountedHaveSignedHolds` (inductive because a PSBT never loses a signature,
`ContributorsGrow`), `RequestCountsAllHolds` (from it), and, by a cardinality
argument, `WholeIsFinalizableHolds` for signers that sign whole transactions
and `CompleteIsFinalizableHolds` for one input. The hypotheses are needed:
`taproot_count` and `signing_partial` are the counterexamples without them.
`SigningImplementsQuorum` is the refinement, for P2WSH: `Grows` (no step loses
a signature or a count, and what is counted is held) makes every step in a
session a `Collect`, `Fresh` (nothing is signed or counted before a session
begins) makes the first a `Begin`, and the code's completeness test is what
`Complete` and `Abandon` ask for.

**VerifyOutputsProofs** (`VerifyAssumption`). `Soundness`: the claims are an
injective assignment, and what is not claimed is ours (`ClaimsOK`).
`Completeness`: as long as the walk goes on, some full assignment extends the
claims (`Completable`); when an output claims the first of several equal
payments, the assignment is repaired by an exchange of two of its values.

**ListProofs** has what these proofs need to know about lists: filters, sums,
flattening, sorting, bags, and when two filters of lists give the same list. The
library's induction theorems cannot be instantiated here; the facts about
recursive functions are proved from the least natural number at which they would
fail.

Only model-checked: liveness (`SelfHeals`, `NeverALoop`, `Relayed`), which is
out of the prover's reach. What the recursive functions of the models compute is
proved only as far as the theorems need it.

## 5. What is not modelled

Signing cryptography, descriptor strings and their parsing, JSON encodings,
error texts, instruction texts, labels and device types, the counters of
`SyncResult`, the conversions from the Esplora and Electrum results (field by
field), and the test doubles. In signing, fingerprints are distinct,
`wallet.sign` runs with `try_finalize: false`, BDK's finalizer and `extract_tx`
do not fail on a PSBT with a quorum on every input, and `receive_signature`'s
last error, a `combine` of PSBTs that disagree about an xpub's source, is left
out: it changes nothing. In chain sync the chain is contiguous from genesis (a
wallet synced block by block), block numbers stand for hashes, and a failing
`InitWalletError` load is left out. Read-backs range over the descriptors that
rosters build: a `sortedmulti` that repeats a key, whose key set the comparison
would collapse, depends on what miniscript's parser lets through. A damaged
template differs in one place. Of the software that templates are made for only
Bitcoin Core is modelled; what it refuses, watches and rescans is its documented
behaviour, not code of this repository. The other instructions are a descriptor
to be pasted.

## 6. Plan

Done: chain sync; signing with its abstract session; migration; output
verification; descriptors, federations and their wallet; the relay of coins
between versions; the life of a vault from minting to recovery.

Next:

1. An abstract wallet (confirmed and pending sets that follow the node) which
   `ChainSync` implements while no reorg is deeper than one block.
2. `Relay` with the planner of `Migration` in place of its fee check.
