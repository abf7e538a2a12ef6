-------------------------- MODULE FederatedWallet --------------------------
(***************************************************************************)
(* federated_wallet.rs: the stack of federation versions an application    *)
(* keeps, and the ways to derive the next one: the mutation methods of     *)
(* Federation, or a roster plan.  The application first derives a          *)
(* candidate and then stacks it with new() or with_federation().           *)
(***************************************************************************)
EXTENDS Federation

CONSTANTS
    Founders,      \* signer lists an application may build a federation of
    Lists,         \* signer lists an application may add, or ids to remove
    Configs,       \* key modes and script types it may choose
    MaxThreshold,  \* bound: thresholds asked for
    MaxVersions    \* bound: versions of the wallet

\* The roster arithmetic is given the members' ids alone, and an application has
\* one signer for an id it passes.
NamesByIds(l) == \A i, j \in DOMAIN l : l[i].id = l[j].id => l[i] = l[j]

ASSUME WalletAssumption ==
    /\ \A l \in Founders \cup Lists : l \in Seq(Signer)
    /\ \A l \in Lists : NamesByIds(l)
    /\ Configs \subseteq KeyMode \X ScriptType
    /\ MaxThreshold \in Nat /\ MaxVersions \in Nat

Thresholds == 0..MaxThreshold

VARIABLES
    versions,    \* federation_wallets, oldest first
    candidate,   \* <<>> or <<f>>: a federation that is not stacked yet
    request,     \* what the roster plan behind the candidate was asked for
    reply        \* the result of the last call

vars == <<versions, candidate, request, reply>>

NoRequest == [asked |-> FALSE]

Current == versions[Len(versions)]

Init ==
    /\ versions = <<>>
    /\ candidate = <<>>
    /\ request = NoRequest
    /\ reply = "none"

----------------------------------------------------------------------------
\* The application holds the federation a constructor built, or gets an error;
\* it derives one at a time.
Derive(r) ==
    /\ reply = "none"
    /\ candidate' = r.fed
    /\ request' = NoRequest
    /\ reply' = r.err
    /\ UNCHANGED versions

NewFederation ==
    \E l \in Founders, m \in Thresholds, net \in Network, c \in Configs :
        Derive(WithConfig(m, l, Config(net, c[1], c[2])))

RotateSigner ==
    /\ versions # <<>>
    /\ \E old, new \in Signer : Derive(rotate_signer(Current, old.id, new))

AddSigner ==
    /\ versions # <<>>
    /\ \E new \in Signer : Derive(add_signer(Current, new))

RemoveSigner ==
    /\ versions # <<>>
    /\ \E s \in Signer : Derive(remove_signer(Current, s.id))

ChangeThreshold ==
    /\ versions # <<>>
    /\ \E m \in Thresholds : Derive(change_threshold(Current, m))

\* The signer behind a member's id: the current one's, or the one joining.
SignerOf(id, joining) ==
    LET known == ToSet(Current.signers) \cup ToSet(joining)
    IN  CHOOSE s \in known : s.id = id

\* compute_roster_plan and validate_threshold, and the federation built from
\* the roster they approve.
RosterResult(add, remove, m) ==
    LET ids(l) == [k \in DOMAIN l |-> l[k].id]
        plan == compute_roster_plan(ids(Current.signers), ids(add), ids(remove))
    IN  IF plan.err # "Ok" THEN plan
        ELSE IF validate_threshold(m, Len(plan.next)) # "Ok"
        THEN Failed("BadThreshold")
        ELSE WithConfig(m, [k \in DOMAIN plan.next |-> SignerOf(plan.next[k], add)],
                        ConfigOf(Current))

MigrateRoster ==
    /\ versions # <<>> /\ reply = "none"
    /\ \E add, remove \in Lists, m \in Thresholds :
        LET r == RosterResult(add, remove, m)
        IN  /\ candidate' = r.fed
            /\ reply' = r.err
            /\ request' = [asked |-> TRUE, add |-> add, remove |-> remove, m |-> m]
    /\ UNCHANGED versions

\* Mutant: with_federation takes a federation of any Bitcoin network.
StackErrorAnyNetwork(f) == IF ~IsBitcoin(f.network) THEN "NonBitcoinNetwork" ELSE "Ok"

\* BtcFederatedWallet::new and with_federation
StackError(f) ==
    IF ~IsBitcoin(f.network) THEN "NonBitcoinNetwork"
    ELSE IF versions # <<>> /\ f.network # versions[1].network
    THEN "NetworkMismatch" ELSE "Ok"

Stack ==
    /\ candidate # <<>> /\ Len(versions) < MaxVersions
    /\ LET f == candidate[1]
       IN  /\ reply' = StackError(f)
           /\ versions' = IF reply' = "Ok" THEN Append(versions, f) ELSE versions
    /\ candidate' = <<>>
    /\ request' = NoRequest

\* The application has read the reply, and drops what it does not stack.
Dismiss ==
    /\ reply # "none"
    /\ candidate' = <<>>
    /\ request' = NoRequest
    /\ reply' = "none"
    /\ UNCHANGED versions

Next ==
    \/ NewFederation
    \/ RotateSigner \/ AddSigner \/ RemoveSigner \/ ChangeThreshold
    \/ MigrateRoster
    \/ Stack
    \/ Dismiss

Spec == Init /\ [][Next]_vars

----------------------------------------------------------------------------
(* Properties                                                              *)

\* Whatever sequence of mutations led to them, every version of the stack has
\* a satisfiable threshold and distinct signers, and the snapshot of the whole
\* stack passes its own verify(), so it can be restored.
StackVerifies ==
    versions # <<>> =>
        /\ \A v \in DOMAIN versions :
            /\ versions[v].threshold \in 1..Cardinality(Ids(versions[v].signers))
            /\ Cardinality(Ids(versions[v].signers)) = Len(versions[v].signers)
            /\ Len(versions[v].signers) >= 2
        /\ wallet_snapshot_verify(
               [v \in DOMAIN versions |-> from_federation(versions[v])],
               versions[1].network) = "Ok"

\* A call that is made only if the one before it went well.
AndThen(r, x) == IF r.err = "Ok" THEN x ELSE r

Method(op, f, s) == IF op = "add" THEN add_signer(f, s) ELSE remove_signer(f, s.id)

\* One call for each signer of a list, up to the first error.
InTurn(op, r, list) ==
    LET after[n \in 0..Len(list)] ==
            IF n = 0 THEN r
            ELSE AndThen(after[n - 1], Method(op, after[n - 1].fed[1], list[n]))
    IN  after[Len(list)]

\* The federation reached from f by adding, then changing the threshold, then
\* removing, one Federation method at a time.
OneByOne(f, add, remove, m) ==
    LET added == InTurn("add", [err |-> "Ok", fed |-> <<f>>], Distinct(add))
        changed == AndThen(added, change_threshold(added.fed[1], m))
    IN  InTurn("remove", changed, Distinct(remove))

\* The roster arithmetic and the federation's own methods agree: a federation
\* built from a roster plan is the one its delta leads to method by method,
\* member order included, and a delta the plan turns down leads nowhere.  Three
\* exceptions: the methods pass through a federation that holds the joining
\* devices beside the leaving ones, which fails when two of them have the same
\* key, or when they are together more than a script may have; the plan refuses
\* a member that is both added and removed.
RosterAgrees ==
    request.asked =>
        LET one == OneByOne(Current, request.add, request.remove, request.m)
        IN  IF reply = "Ok"
            THEN \/ one.fed = candidate
                 \/ one.err = "DuplicateKey"
                 \/ /\ one.err = "Miniscript"
                    /\ Len(Current.signers) + Len(Distinct(request.add))
                         > MaxKeys(Current.script)
            ELSE one.err # "Ok" \/ reply = "AddAndRemove"
============================================================================
