---------------------------- MODULE Descriptors ----------------------------
(***************************************************************************)
(* descriptor.rs, and the descriptor half of verify.rs: how a roster       *)
(* becomes a descriptor, a BIP-388 policy and addresses, and when two      *)
(* descriptors pass for the same policy.                                   *)
(*                                                                         *)
(* A signer is a record.  Its id and its key are numbers, for the order    *)
(* that SignerIds and x-only keys have; its fp and path are the key origin *)
(* and kind is the network kind of its xpub.  Descriptors are the values   *)
(* behind the strings: a string and its parse are not told apart.          *)
(*                                                                         *)
(* A constructor comes with an operator that names its error, or "Ok".     *)
(***************************************************************************)
EXTENDS ListOps, SequencesExt

CONSTANTS
    Signer,       \* the signers
    Network,      \* network types
    MaxWshKeys,   \* the keys miniscript allows in wsh(sortedmulti): 20
    MaxTrKeys     \* and in multi_a: 999

SignerFields == {"id", "fp", "path", "key", "networks", "kind", "taproot"}

ASSUME SignerAssumption ==
    \A s \in Signer : /\ DOMAIN s = SignerFields
                      /\ s.id \in Nat /\ s.key \in Nat
                      /\ s.networks \subseteq Network

ASSUME KeyLimitAssumption == MaxWshKeys \in Nat /\ MaxTrKeys \in Nat

IsBitcoin(net) == net \in {"mainnet", "regtest"}

\* bitcoin::NetworkKind: every network but mainnet is a test network.
NetworkKind(net) == IF net = "mainnet" THEN "main" ELSE "test"

Ids(ss) == {ss[k].id : k \in DOMAIN ss}

KeyMode == {"Fixed", "Ranged"}
ScriptType == {"Wsh", "Tr"}

\* available_script_types: what an application may offer for a roster.
available_script_types(ss) ==
    IF ss # <<>> /\ \A k \in DOMAIN ss : ss[k].taproot THEN ScriptType ELSE {"Wsh"}

----------------------------------------------------------------------------
(* Building                                                                *)

\* A DescriptorBuilder without its entries.  The internal key of a taproot
\* descriptor is RawNums, <<>>, or NumsXpub with a chain code, <<cc>>.
Builder(m, net, mode, script, internal) ==
    [threshold |-> m, network |-> net, mode |-> mode, script |-> script,
     internal |-> internal]

\* The entries, a BTreeMap over SignerIds.
entries(ss) ==
    SortedBy(ToSet(ss), {p \in ToSet(ss) \X ToSet(ss) : p[1].id < p[2].id})

\* Mutant: the keys stay in the order of the map.
unsorted_taproot_keys(ss) == entries(ss)

\* sorted_taproot_keys: a stable sort of the entries by x-only key.
sorted_taproot_keys(ss) ==
    SortedBy(ToSet(ss), {p \in ToSet(ss) \X ToSet(ss) :
        p[1].key < p[2].key \/ (p[1].key = p[2].key /\ p[1].id < p[2].id)})

\* build_descriptor_key and build_taproot_key: a single key, or an xpub with
\* the wildcard of the external chain, /0/*.
build_descriptor_key(mode, s) ==
    [fp |-> s.fp, path |-> s.path, key |-> s.key,
     wild |-> IF mode = "Ranged" THEN "external" ELSE "fixed"]

\* taproot_internal_key_str: <<"raw">>, or the NUMS xpub, which the network
\* kind and the chain code determine, with its wildcard.
taproot_internal_key(b) ==
    IF b.internal = <<>> THEN <<"raw">>
    ELSE <<NetworkKind(b.network), b.internal[1], "external">>

Build(b, ss) ==
    LET members == IF b.script = "Wsh" THEN entries(ss) ELSE sorted_taproot_keys(ss)
    IN  [script |-> b.script, threshold |-> b.threshold,
         keys |-> [k \in DOMAIN members |-> build_descriptor_key(b.mode, members[k])],
         internal |-> IF b.script = "Wsh" THEN <<>> ELSE taproot_internal_key(b)]

MaxKeys(script) == IF script = "Wsh" THEN MaxWshKeys ELSE MaxTrKeys

\* add_signer for each signer, then build: the xpub networks, then
\* reject_duplicate_keys, which compares keys with their origins; miniscript
\* rejects a threshold out of range and more keys than the script may have.
BuildError(b, ss) ==
    IF Cardinality(Ids(ss)) < Len(ss) THEN "DuplicateKey"
    ELSE IF ss = <<>> \/ ~IsBitcoin(b.network) THEN "Parse"
    ELSE IF \E k \in DOMAIN ss : ss[k].kind # NetworkKind(b.network)
    THEN "NetworkMismatch"
    ELSE IF Cardinality(ToSet(Build(b, ss).keys)) < Len(ss) THEN "DuplicateKey"
    ELSE IF b.threshold \notin 1..Len(ss) \/ Len(ss) > MaxKeys(b.script)
    THEN "Miniscript"
    ELSE "Ok"

\* Mutant: the rewriting does not reach the keys.
to_singlepath_string(d) == d

\* to_multipath_string rewrites every /0/* to /<0;1>/*.
to_multipath_string(d) ==
    LET Lift(w) == IF w = "external" THEN "both" ELSE w
    IN  [script |-> d.script, threshold |-> d.threshold,
         keys |-> [k \in DOMAIN d.keys |-> [d.keys[k] EXCEPT !.wild = Lift(@)]],
         internal |-> [k \in DOMAIN d.internal |->
                        IF k = 3 THEN Lift(d.internal[k]) ELSE d.internal[k]]]

----------------------------------------------------------------------------
(* BIP-388 policies                                                        *)

\* bip388_taproot_policy: @0 is the NUMS xpub, then the cosigners in the order
\* of the descriptor, all without their wildcards.
bip388_taproot_policy(b, ss) ==
    LET members == sorted_taproot_keys(ss)
    IN  [threshold |-> b.threshold,
         nums |-> <<NetworkKind(b.network), b.internal[1]>>,
         keys |-> [k \in DOMAIN members |->
                    [fp |-> members[k].fp, path |-> members[k].path,
                     key |-> members[k].key]]]

\* It does not look at the xpub networks, the threshold or duplicate keys.
PolicyError(b, ss) ==
    IF Cardinality(Ids(ss)) < Len(ss) THEN "DuplicateKey"
    ELSE IF b.internal = <<>> \/ b.script # "Tr" \/ ~IsBitcoin(b.network)
    THEN "Parse" ELSE "Ok"

\* What a device that has registered a policy derives: /** is /<0;1>/*.
Expand(policy) ==
    [script |-> "Tr", threshold |-> policy.threshold,
     internal |-> Append(policy.nums, "both"),
     keys |-> [k \in DOMAIN policy.keys |->
                [fp |-> policy.keys[k].fp, path |-> policy.keys[k].path,
                 key |-> policy.keys[k].key, wild |-> "both"]]]

----------------------------------------------------------------------------
(* Addresses                                                               *)

\* A child key: public keys are derived, origins play no part in it.
Child(key, wild, chain, index) ==
    CASE wild = "fixed" -> <<key>>
      [] wild = "external" -> <<key, 0, index>>
      [] wild = "both" -> <<key, chain, index>>

\* The script of a descriptor at an index of a chain (0 external, 1 internal).
\* multi_a keeps the order of its keys.  sortedmulti sorts the derived ones, so
\* its script tells which keys they are, and how often, but not their order.
\* The taproot output commits to the internal key.
ScriptAt(d, chain, index) ==
    LET children == [k \in DOMAIN d.keys |->
                        Child(d.keys[k].key, d.keys[k].wild, chain, index)]
    IN  [script |-> d.script, threshold |-> d.threshold,
         keys |-> IF d.script = "Tr" THEN children
                  ELSE ToBag(children),
         internal |-> IF Len(d.internal) < 3 THEN d.internal
                      ELSE Child(<<d.internal[1], d.internal[2]>>, d.internal[3],
                                 chain, index)]

----------------------------------------------------------------------------
(* verify.rs: the same multisig policy?                                    *)

multisig_policy(d) == [threshold |-> d.threshold, keys |-> ToSet(d.keys)]

\* Mutant: only the key material is compared.
descriptors_match_by_key(expected, candidate) ==
    IF expected.script # "Wsh" \/ candidate.script # "Wsh" THEN "UnsupportedShape"
    ELSE IF expected.threshold = candidate.threshold
            /\ {k.key : k \in ToSet(expected.keys)} = {k.key : k \in ToSet(candidate.keys)}
    THEN "Ok" ELSE "PolicyMismatch"

\* ensure_descriptors_match; a taproot descriptor has no policy.
ensure_descriptors_match(expected, candidate) ==
    IF expected.script # "Wsh" \/ candidate.script # "Wsh" THEN "UnsupportedShape"
    ELSE IF multisig_policy(expected) = multisig_policy(candidate) THEN "Ok"
    ELSE "PolicyMismatch"
============================================================================
