------------------------------- MODULE Relay -------------------------------
(***************************************************************************)
(* The relay of coins to the current federation: plan_migrations of        *)
(* federated_wallet.rs and historic_versions_at_risk of roster.rs, with    *)
(* the application that uses them.  Deposits keep arriving at old versions,*)
(* wallets are synced now and then, plans are signed and broadcast later,  *)
(* perhaps after a further version was stacked.                            *)
(*                                                                         *)
(* A coin is a deposit and whatever became of it: a sweep moves it to      *)
(* another version.  The operator heeds the warnings of                    *)
(* historic_versions_at_risk, and only members of the current federation   *)
(* sign.                                                                   *)
(***************************************************************************)
EXTENDS FederatedWallet

CONSTANTS
    Coin,      \* bound: the deposits
    Dust,      \* the deposits of value 1; the others have value Fee
    Fee        \* what the sweep of one version costs

ASSUME RelayAssumption == Dust \subseteq Coin /\ Fee \in Nat

VARIABLES
    at,        \* at[c]: the version that holds c, 0 before it is deposited
    view,      \* what the versions' wallets know of at
    plans      \* the PSBTs of migration plans that are not broadcast yet

coinVars == <<at, view, plans>>
relayVars == <<vars, coinVars>>

RelayInit ==
    /\ Init
    /\ at = [c \in Coin |-> 0]
    /\ view = at
    /\ plans = {}

----------------------------------------------------------------------------
(* The roster warning                                                      *)

\* Mutant: a version one member short is not reported.
at_risk_one_short(historic, next_current) ==
    {v \in DOMAIN historic :
        Cardinality(Ids(historic[v].signers) \cap next_current) + 1
            < historic[v].threshold}

historic_versions_at_risk(historic, next_current) ==
    {v \in DOMAIN historic :
        Cardinality(Ids(historic[v].signers) \cap next_current)
            < historic[v].threshold}

\* The operator stacks a candidate that leaves no version at risk.
StackHeeding ==
    /\ candidate # <<>>
    /\ historic_versions_at_risk(versions, Ids(candidate[1].signers)) = {}
    /\ Stack
    /\ UNCHANGED coinVars

ChangeFederation ==
    /\ \/ versions = <<>> /\ NewFederation
       \/ RotateSigner \/ AddSigner \/ RemoveSigner \/ ChangeThreshold
       \/ Dismiss
    /\ UNCHANGED coinVars

----------------------------------------------------------------------------
(* Coins                                                                   *)

\* Anyone may pay to an address of any version, at any time.
Deposit(c) ==
    /\ at[c] = 0
    /\ \E v \in DOMAIN versions : at' = [at EXCEPT ![c] = v]
    /\ UNCHANGED <<vars, view, plans>>

\* The application brings the wallets up to date with the chain.
Sync ==
    /\ view' = at
    /\ UNCHANGED <<vars, at, plans>>

list_unspent(v) == {c \in Coin : view[c] = v}

\* A sweep of coins worth less than their fee is refused.
Worth(coins) == Cardinality(coins \cap Dust) + Fee * Cardinality(coins \ Dust)

sweep_error(coins) ==
    IF Worth(coins) < Fee THEN "InsufficientFeeBalance" ELSE "Ok"

\* Mutant: the loop ends at the first empty version.
SweptVersionsUpToGap ==
    {v \in 1..(Len(versions) - 1) : \A w \in 1..v : list_unspent(w) # {}}

\* The versions that the loop of plan_migrations does not skip.
SweptVersions == {v \in 1..(Len(versions) - 1) : list_unspent(v) # {}}

\* plan_migrations: a plan for each of them, or the first error and no plan.
\* A plan says which coins of which version to spend, not where they go.
plan_migrations ==
    IF \E v \in SweptVersions : sweep_error(list_unspent(v)) # "Ok" THEN {}
    ELSE {[from |-> v, coins |-> list_unspent(v)] : v \in SweptVersions}

\* "All UTXO source/destination resolution is the caller's": the application
\* takes an address of the version that is current when it makes the PSBT.
Addressed(plan) == [from |-> plan.from, coins |-> plan.coins, to |-> Len(versions)]

\* The application makes the PSBTs at once and keeps those it has.
PlanMigrations ==
    /\ versions # <<>>
    /\ plans' = plans \cup {Addressed(p) : p \in plan_migrations}
    /\ UNCHANGED <<vars, at, view>>

signer_is_current(id) == id \in Ids(Current.signers)

\* Who can sign for a version: its members that still have, in the current
\* federation, the key they had in it.
Cosigners(v) == ToSet(versions[v].signers) \cap ToSet(Current.signers)

Signable(v) == Cardinality(Cosigners(v)) >= versions[v].threshold

\* The current members sign a plan and broadcast it; the network refuses it
\* when an input is spent.
Broadcast ==
    \E p \in plans :
        /\ Signable(p.from)
        /\ at' = IF \A c \in p.coins : at[c] = p.from
                 THEN [c \in Coin |-> IF c \in p.coins THEN p.to ELSE at[c]]
                 ELSE at
        /\ plans' = plans \ {p}
        /\ UNCHANGED <<vars, view>>

RelayNext ==
    \/ ChangeFederation \/ StackHeeding
    \/ \E c \in Coin : Deposit(c)
    \/ Sync \/ PlanMigrations \/ Broadcast

\* The application keeps syncing, planning and broadcasting; nobody has to
\* deposit anything or change the federation.
RelaySpec ==
    /\ RelayInit /\ [][RelayNext]_relayVars
    /\ WF_relayVars(Sync) /\ WF_relayVars(PlanMigrations) /\ WF_relayVars(Broadcast)

----------------------------------------------------------------------------
(* Properties                                                              *)

\* Some member of the version is in the current federation under another key.
Rekeyed(v) ==
    \E s \in ToSet(versions[v].signers) :
        signer_is_current(s.id) /\ s \notin ToSet(Current.signers)

Held(v) == {c \in Coin : at[c] = v}

\* historic_versions_at_risk: if its warnings are heeded, then wherever a coin
\* arrives, late deposits to old versions and the broadcast of an old plan
\* included, the current federation's members can spend it; unless a member of
\* that version was re-keyed, which the count by ids does not notice.
CoinsSpendable ==
    \A v \in DOMAIN versions : Held(v) # {} => Signable(v) \/ Rekeyed(v)

\* plan_migrations: an application that keeps syncing, planning and
\* broadcasting, and that sends the coins to the version it finds current, ends
\* up with every coin in the current version, whatever late deposits and stale
\* plans there were; or else with coins of an old version that do not pay for
\* their sweep, which hold up the sweep of every other version, or that only a
\* re-keyed member's former key can spend.
Relayed ==
    <>[](\/ \A v \in 1..(Len(versions) - 1) : Held(v) = {}
         \/ \E v \in 1..(Len(versions) - 1) :
              Held(v) # {} /\ (Worth(Held(v)) < Fee \/ Rekeyed(v)))
============================================================================
