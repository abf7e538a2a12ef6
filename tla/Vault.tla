------------------------------- MODULE Vault -------------------------------
(***************************************************************************)
(* A vault from the day it is minted to the day it has to be recovered:    *)
(* federation_build.rs builds its descriptor and snapshot, addresses are   *)
(* handed out, devices register its policy and read a descriptor back      *)
(* (verify.rs), and recovery templates are made, damaged in storage and    *)
(* imported elsewhere.                                                     *)
(*                                                                         *)
(* The application works with one artifact at a time; artifacts do not     *)
(* influence each other.                                                   *)
(***************************************************************************)
EXTENDS Recovery

CONSTANTS
    Rosters,        \* the signer lists an application may come with
    Chaincodes,     \* NUMS chain codes
    MaxThreshold,   \* bound: thresholds asked for
    MaxIndex        \* bound: addresses handed out per chain

ASSUME VaultAssumption ==
    /\ \A ss \in Rosters : ss \in Seq(Signer)
    /\ Chaincodes \subseteq Nat
    /\ MaxThreshold \in Nat /\ MaxIndex \in Nat \ {0}

VARIABLES
    vault,      \* <<>>, or <<v>>: the BuiltFederation and what it was built of
    handed,     \* addresses handed out, per chain (0 external, 1 internal)
    artifact,   \* the policy, read-back, template or import under way
    reply       \* the result of the last call

vars == <<vault, handed, artifact, reply>>

NoArtifact == [kind |-> "none"]

Chain == 0..1

V == vault[1]

Init ==
    /\ vault = <<>>
    /\ handed = [chain \in Chain |-> 0]
    /\ artifact = NoArtifact
    /\ reply = "none"

----------------------------------------------------------------------------
(* Minting                                                                 *)

\* build_federation_with and build_federation_taproot_with: the descriptor
\* from a ranged builder, the snapshot from Federation::new.
BuiltError(b, ss) ==
    IF BuildError(b, ss) # "Ok" THEN BuildError(b, ss)
    ELSE ConfigError(b.threshold, ss, Config(b.network, "Fixed", "Wsh"))

BuiltFederation(b, ss) ==
    [roster |-> ss, builder |-> b,
     descriptor |-> to_multipath_string(Build(b, ss)),
     snapshot |-> from_federation(
                    Fed(b.threshold, ss, Config(b.network, "Fixed", "Wsh")))]

Mint(b, ss) ==
    /\ vault = <<>>
    /\ reply' = BuiltError(b, ss)
    /\ vault' = IF reply' = "Ok" THEN <<BuiltFederation(b, ss)>> ELSE <<>>
    /\ UNCHANGED <<handed, artifact>>

\* The application offers the script types the roster is eligible for.
BuildFederationWith ==
    \E ss \in Rosters, m \in 0..MaxThreshold, net \in Network :
        \E script \in available_script_types(ss) :
            Mint(Builder(m, net, "Ranged", script, <<>>), ss)

\* A NumsChaincode resolves to the given chain code, or to any random one.
BuildFederationTaprootWith ==
    \E ss \in Rosters, m \in 0..MaxThreshold, net \in Network, cc \in Chaincodes :
        /\ "Tr" \in available_script_types(ss)
        /\ Mint(Builder(m, net, "Ranged", "Tr", <<cc>>), ss)

\* NumsChaincode::resolve: the system RNG fails.
RngFails ==
    /\ vault = <<>>
    /\ reply' = "Parse"
    /\ UNCHANGED <<vault, handed, artifact>>

----------------------------------------------------------------------------
(* Life                                                                    *)

HandOut(chain) ==
    /\ vault # <<>> /\ handed[chain] < MaxIndex
    /\ handed' = [handed EXCEPT ![chain] = @ + 1]
    /\ UNCHANGED <<vault, artifact, reply>>

\* bip388_taproot_policy, for a roster and a chain code as the application has
\* them stored: in any order, re-registered, or of another vault.
RegisterPolicy ==
    /\ vault # <<>> /\ artifact = NoArtifact
    /\ \E ss \in Rosters, cc \in Chaincodes :
        LET b == Builder(V.builder.threshold, V.builder.network, "Ranged", "Tr", <<cc>>)
        IN  /\ reply' = PolicyError(b, ss)
            /\ artifact' = IF reply' # "Ok" THEN NoArtifact
                           ELSE [kind |-> "policy", roster |-> ss, chaincode |-> cc,
                                 policy |-> bip388_taproot_policy(b, ss)]
    /\ UNCHANGED <<vault, handed>>

\* ensure_descriptor_string_matches against a descriptor that a device or a
\* server shows: one that some roster builds, on one chain or on both.
ReadBack ==
    /\ vault # <<>> /\ artifact = NoArtifact
    /\ \E ss \in Rosters, m \in 1..MaxThreshold, mode \in KeyMode,
          script \in ScriptType, multipath \in BOOLEAN :
        LET b == Builder(m, V.builder.network, mode, script, <<>>)
            candidate == IF multipath THEN to_multipath_string(Build(b, ss))
                                      ELSE Build(b, ss)
        IN  /\ BuildError(b, ss) = "Ok"
            /\ reply' = ensure_descriptors_match(V.descriptor, candidate)
            /\ artifact' = [kind |-> "readback", candidate |-> candidate]
    /\ UNCHANGED <<vault, handed>>

\* The application is done with the artifact.
Discard ==
    /\ artifact # NoArtifact
    /\ artifact' = NoArtifact /\ reply' = "none"
    /\ UNCHANGED <<vault, handed>>

----------------------------------------------------------------------------
(* Recovery                                                                *)

\* A template of a Federation with the vault's roster and threshold, with the
\* last used indexes or without them.
MakeTemplate ==
    /\ vault # <<>> /\ artifact = NoArtifact
    /\ \E mode \in KeyMode, script \in ScriptType, recorded \in BOOLEAN :
        LET r == WithConfig(V.builder.threshold, V.roster,
                            Config(V.builder.network, mode, script))
            LastUsed(chain) == IF recorded /\ handed[chain] > 0
                               THEN <<handed[chain] - 1>> ELSE <<>>
            t == RecoveryTemplate(r.fed[1], LastUsed(0), LastUsed(1), 1)
        IN  /\ r.err = "Ok"
            /\ artifact' = [kind |-> "template", template |-> t, damaged |-> FALSE,
                            content |-> t.body, mode |-> mode, script |-> script,
                            handed |-> handed]
    /\ reply' = "Ok"
    /\ UNCHANGED <<vault, handed>>

\* The ways in which one field of a stored template may get lost or altered.
Damaged(t) ==
    {[t EXCEPT !.body.descriptor = <<>>],
     [t EXCEPT !.body.threshold = @ + 1],
     [t EXCEPT !.body.total = @ + 1],
     [t EXCEPT !.body.network = "liquid"],
     [t EXCEPT !.body.signer_info = Tail(@)],
     [t EXCEPT !.body.instructions = Tail(@)],
     [t EXCEPT !.body.receive = <<0>>],
     [t EXCEPT !.body.change = <<0>>],
     [t EXCEPT !.checksum.threshold = @ + 1],
     [t EXCEPT !.generated_at = 0]}

Damage ==
    /\ artifact.kind = "template" /\ ~artifact.damaged
    /\ \E t \in Damaged(artifact.template) :
        artifact' = [artifact EXCEPT !.template = t, !.damaged = TRUE]
    /\ UNCHANGED <<vault, handed, reply>>

\* verify, and then the instructions for Bitcoin Core: "create (or unlock) a
\* descriptor wallet", as printed or one without private keys, and import.
Import ==
    /\ artifact.kind = "template"
    /\ \E printed \in BOOLEAN :
        LET t == artifact.template
            call == t.body.instructions[1]
            e == template_verify(t)
        IN  /\ reply' = IF e = "Ok"
                        THEN import_error(call, printed => call.disable_private_keys)
                        ELSE e
            /\ artifact' =
                [kind |-> "imported", mode |-> artifact.mode,
                 script |-> artifact.script, handed |-> artifact.handed,
                 printed |-> printed, recorded |-> t.body.receive # <<>>,
                 intact |-> t.body = artifact.content,
                 watches |-> IF reply' = "Ok" THEN import_watches(call) ELSE {},
                 rescans |-> IF reply' = "Ok" THEN import_rescans(call) ELSE {}]
    /\ UNCHANGED <<vault, handed>>

Next ==
    \/ BuildFederationWith \/ BuildFederationTaprootWith \/ RngFails
    \/ \E chain \in Chain : HandOut(chain)
    \/ RegisterPolicy \/ ReadBack \/ Discard
    \/ MakeTemplate \/ Damage \/ Import

Spec == Init /\ [][Next]_vars

----------------------------------------------------------------------------
(* Properties                                                              *)

Address == Chain \X (0..MaxIndex)

At(d, address) == ScriptAt(d, address[1], address[2])

SameScripts(d, e) == \A x \in Address : At(d, x) = At(e, x)

\* to_multipath_string: a vault's receive and change addresses are all
\* different, whichever builder it came from.
AddressesDistinct ==
    vault # <<>> =>
        \A x, y \in Address : At(V.descriptor, x) = At(V.descriptor, y) => x = y

PublicKeys(ss) == ToBag([k \in DOMAIN ss |-> ss[k].key])

\* bip388_taproot_policy: "the policy a consumer device registers matches the
\* funded descriptor's scriptPubKeys exactly": on every receive and change
\* address, if and only if it is given the vault's chain code and devices with
\* the vault's keys, however these are ordered, named or registered.
PolicyIsTheVault ==
    artifact.kind = "policy" =>
        (SameScripts(Expand(artifact.policy), V.descriptor)
            <=> /\ V.builder.internal = <<artifact.chaincode>>
                /\ PublicKeys(artifact.roster) = PublicKeys(V.roster))

Origins(d) == {<<k.fp, k.path, k.key>> : k \in ToSet(d.keys)}

\* ensure_descriptor_string_matches: of all the descriptors rosters build, a
\* P2WSH vault accepts those that have its addresses and its key origins, and
\* no other; a taproot vault accepts none, not even its own.
ReadBackExact ==
    artifact.kind = "readback" =>
        (reply = "Ok" <=> /\ V.descriptor.script = "Wsh"
                          /\ SameScripts(V.descriptor, artifact.candidate)
                          /\ Origins(V.descriptor) = Origins(artifact.candidate))

\* RecoveryTemplate::verify: a template that was altered in one place is not
\* imported, unless its content is what was generated.
OnlyIntactImported ==
    artifact.kind = "imported" /\ reply \in {"Ok", "Rejected"} => artifact.intact

Receive(n) == {At(V.descriptor, <<0, i>>) : i \in 0..n}

\* What becomes of an import that Bitcoin Core accepts.  It was made into a wallet
\* without private keys, not into the one that the instructions create, and it
\* looks up the past of no address.  A template of a federation with the vault's
\* script type watches receive addresses of the vault and nothing else, its
\* change never; among them are all that had been handed out when the template
\* was made if and only if the last index was recorded, or the default range or
\* the keypool reaches it.  No federation has an internal key with a chain code,
\* so no template watches such a vault.
RecoveryWatches ==
    artifact.kind = "imported" /\ reply = "Ok" =>
        /\ ~artifact.printed
        /\ artifact.rescans = {}
        /\ artifact.script = V.builder.script =>
            IF V.builder.internal = <<>>
            THEN /\ artifact.watches \subseteq Receive(MaxIndex + DefaultRange + KeyPool)
                 /\ Receive(artifact.handed[0] - 1) \subseteq artifact.watches
                        <=> \/ artifact.recorded
                            \/ artifact.handed[0] <= DefaultRange + 1
                            \/ artifact.handed[0] <= KeyPool
            ELSE \A x \in Address : At(V.descriptor, x) \notin artifact.watches

\* federation_build.rs: the snapshot is the vault's: a wallet restored from the
\* snapshot's descriptor derives every address the vault has handed out.
SnapshotDescribesVault ==
    vault # <<>> =>
        \A chain \in Chain : \A i \in 0..(handed[chain] - 1) :
            \E x \in Address :
                At(V.snapshot.descriptor[1], x) = At(V.descriptor, <<chain, i>>)
============================================================================
