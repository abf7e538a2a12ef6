----------------------------- MODULE Federation -----------------------------
(***************************************************************************)
(* federation.rs, roster.rs and snapshot.rs: what a federation is, how one *)
(* is derived from another, and how the roster of the next one is          *)
(* computed.  A federation is an immutable value, so these are operators;  *)
(* FederatedWallet strings them together.                                  *)
(*                                                                         *)
(* A constructor gives an error's name, or "Ok" when the value is built.   *)
(***************************************************************************)
EXTENDS Descriptors

----------------------------------------------------------------------------
(* Federations                                                             *)

\* validate_inputs: the first signer whose id was seen or whose device does
\* not know the network decides the error.
SignerError(ss, net) ==
    LET seen(k) == \E j \in 1..(k - 1) : ss[j].id = ss[k].id
        bad == {k \in DOMAIN ss : seen(k) \/ net \notin ss[k].networks}
    IN  IF bad = {} THEN "Ok"
        ELSE IF seen(Min(bad)) THEN "DuplicateSigner" ELSE "SignerNetworkMismatch"

validate_inputs(m, ss, net) ==
    IF m = 0 THEN "ZeroThreshold"
    ELSE IF Len(ss) < 2 THEN "InsufficientSigners"
    ELSE IF m > Len(ss) THEN "ThresholdExceedsSignerCount"
    ELSE SignerError(ss, net)

\* What a mutation keeps: the network, the key mode and the script type.
Config(net, mode, script) == [network |-> net, mode |-> mode, script |-> script]

ConfigOf(f) == Config(f.network, f.mode, f.script)

\* build_descriptor: the internal key of a taproot federation is RawNums.
BuilderOf(m, c) == Builder(m, c.network, c.mode, c.script, <<>>)

\* Federation::with_config.  Only Bitcoin networks have a descriptor.
ConfigError(m, ss, c) ==
    IF validate_inputs(m, ss, c.network) # "Ok" THEN validate_inputs(m, ss, c.network)
    ELSE IF IsBitcoin(c.network) THEN BuildError(BuilderOf(m, c), ss) ELSE "Ok"

Fed(m, ss, c) ==
    [threshold |-> m, signers |-> ss, network |-> c.network, mode |-> c.mode,
     script |-> c.script,
     descriptor |-> IF IsBitcoin(c.network) THEN <<Build(BuilderOf(m, c), ss)>>
                                            ELSE <<>>]

\* with_config as a result: an error, or Ok and the federation.
WithConfig(m, ss, c) ==
    LET e == ConfigError(m, ss, c)
    IN  IF e = "Ok" THEN [err |-> "Ok", fed |-> <<Fed(m, ss, c)>>]
                    ELSE [err |-> e, fed |-> <<>>]

Failed(e) == [err |-> e, fed |-> <<>>]

contains(f, id) == id \in Ids(f.signers)

rotate_signer(f, old, new) ==
    IF ~contains(f, old) THEN Failed("SignerNotFound")
    ELSE IF contains(f, new.id) /\ new.id # old THEN Failed("DuplicateSigner")
    ELSE WithConfig(f.threshold,
                    [k \in DOMAIN f.signers |->
                        IF f.signers[k].id = old THEN new ELSE f.signers[k]],
                    ConfigOf(f))

add_signer(f, new) ==
    IF contains(f, new.id) THEN Failed("DuplicateSigner")
    ELSE WithConfig(f.threshold, Append(f.signers, new), ConfigOf(f))

remove_signer(f, id) ==
    IF ~contains(f, id) THEN Failed("SignerNotFound")
    ELSE WithConfig(f.threshold,
                    Sublist(f.signers, {k \in DOMAIN f.signers : f.signers[k].id # id}),
                    ConfigOf(f))

change_threshold(f, m) == WithConfig(m, f.signers, ConfigOf(f))

----------------------------------------------------------------------------
(* The roster of a migration                                               *)

\* The elements of a list without repetitions, in order of first appearance.
Distinct(list) ==
    Sublist(list, {k \in DOMAIN list : \A j \in 1..(k - 1) : list[j] # list[k]})

Without(list, other) ==
    Sublist(list, {k \in DOMAIN list : list[k] \notin ToSet(other)})

\* Mutant: added members are not de-duplicated.
next_members_repeated(current, add, remove) ==
    Without(Distinct(current), remove) \o add

\* Kept members in base order, then the added ones in input order.
next_members(current, add, remove) ==
    Without(Distinct(current), remove) \o Distinct(Without(add, current))

compute_roster_plan(current, add, remove) ==
    IF ToSet(add) \cap ToSet(remove) # {} THEN Failed("AddAndRemove")
    ELSE IF ToSet(remove) \ ToSet(current) # {} THEN Failed("RemoveNotMember")
    ELSE IF ToSet(add) \cap ToSet(current) # {} THEN Failed("AddAlreadyMember")
    ELSE IF next_members(current, add, remove) = <<>> THEN Failed("EmptyResult")
    ELSE [err |-> "Ok", next |-> next_members(current, add, remove)]

validate_threshold(m, n) == IF m = 0 \/ m > n THEN "BadThreshold" ELSE "Ok"

----------------------------------------------------------------------------
(* Snapshots                                                               *)

from_federation(f) ==
    [descriptor |-> f.descriptor, threshold |-> f.threshold,
     total |-> Len(f.signers), network |-> f.network, signers |-> f.signers]

\* FederationSnapshot::verify: bounds, count, a descriptor that parses, and
\* every signer's fingerprint in it.
snapshot_verify(s) ==
    IF s.threshold = 0 \/ s.threshold > s.total \/ Len(s.signers) # s.total
    THEN "InvalidThreshold"
    ELSE IF s.descriptor = <<>> THEN "Parse"
    ELSE IF \E k \in DOMAIN s.signers :
              \A key \in ToSet(s.descriptor[1].keys) : key.fp # s.signers[k].fp
    THEN "DescriptorMismatch"
    ELSE "Ok"

\* FederatedWalletSnapshot::verify
wallet_snapshot_verify(snaps, net) ==
    IF snaps = <<>> THEN "InvalidThreshold"
    ELSE IF \E k \in DOMAIN snaps : snapshot_verify(snaps[k]) # "Ok"
                                    \/ snaps[k].network # net
    THEN "Json" ELSE "Ok"
=============================================================================
