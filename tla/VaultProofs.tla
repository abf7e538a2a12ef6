----------------------------- MODULE VaultProofs ----------------------------
(***************************************************************************)
(* Theorems about Vault: what holds of the addresses, the policies, the    *)
(* read-backs and the templates of a vault, for any set of signers and     *)
(* rosters, all chain codes, thresholds and indexes.                       *)
(*                                                                         *)
(* The inductive invariant remembers how the vault and the artifact came   *)
(* about.  The properties then follow from the closed form that            *)
(* DescriptorProofs gives to the descriptors of both.                      *)
(***************************************************************************)
EXTENDS Vault, DescriptorProofs

----------------------------------------------------------------------------
(* The inductive invariant                                                 *)

Internals == {<<>>} \cup {<<cc>> : cc \in Chaincodes}

\* The vault was minted from this.
Minted(m, net, script, internal, ss) ==
    LET b == Builder(m, net, "Ranged", script, internal)
    IN  /\ script = "Wsh" => internal = <<>>
        /\ BuildError(b, ss) = "Ok"
        /\ vault = <<BuiltFederation(b, ss)>>

MintInv ==
    /\ \/ vault = <<>>
       \/ \E m \in 0..MaxThreshold, net \in Network, script \in ScriptType,
             internal \in Internals, ss \in Rosters : Minted(m, net, script, internal, ss)
    /\ handed \in [Chain -> 0..MaxIndex]
    /\ artifact # NoArtifact => vault # <<>>

PolicyInv ==
    artifact.kind = "policy" =>
        \E ss \in Rosters, cc \in Chaincodes :
            LET b == Builder(V.builder.threshold, V.builder.network, "Ranged", "Tr", <<cc>>)
            IN  /\ PolicyError(b, ss) = "Ok"
                /\ artifact = [kind |-> "policy", roster |-> ss, chaincode |-> cc,
                               policy |-> bip388_taproot_policy(b, ss)]

ReadBackInv ==
    artifact.kind = "readback" =>
        \E ss \in Rosters, m \in 1..MaxThreshold, mode \in KeyMode,
           script \in ScriptType, multipath \in BOOLEAN :
            LET b == Builder(m, V.builder.network, mode, script, <<>>)
            IN  /\ BuildError(b, ss) = "Ok"
                /\ artifact.candidate = IF multipath THEN to_multipath_string(Build(b, ss))
                                                     ELSE Build(b, ss)
                /\ reply = ensure_descriptors_match(V.descriptor, artifact.candidate)

\* The descriptor of the federation a template is made of.
Recovered(mode, script) ==
    Build(Builder(V.builder.threshold, V.builder.network, mode, script, <<>>), V.roster)

\* The range of an import ends at the last address that was handed out, or is the
\* default range.
Ends(n, recorded, h) ==
    /\ n \in Nat /\ h[0] \in 0..MaxIndex
    /\ recorded => n = h[0] - 1
    /\ ~recorded => n = DefaultRange

\* The last index that is watched then.
LastWatched(n) == IF n >= KeyPool THEN n ELSE KeyPool - 1

\* The part of the instructions that no template changes.
AsPrinted(call) == call.disable_private_keys = FALSE /\ call.timestamp = "now"

\* What was generated is kept next to the template; until the template is
\* damaged, and then but for one side of it, the two agree.
TemplateInv ==
    artifact.kind = "template" =>
        /\ artifact.mode \in KeyMode /\ artifact.script \in ScriptType
        /\ artifact.content.instructions[1].desc
            = <<Recovered(artifact.mode, artifact.script)>>
        /\ Ends(artifact.content.instructions[1].range, artifact.content.receive # <<>>,
                artifact.handed)
        /\ AsPrinted(artifact.content.instructions[1])
        /\ artifact.damaged \in BOOLEAN
        /\ artifact.template.body = artifact.content
            \/ artifact.template.checksum = artifact.content
        /\ ~artifact.damaged =>
            artifact.template = [body |-> artifact.content, checksum |-> artifact.content,
                                 generated_at |-> 1]
        /\ DOMAIN artifact = {"kind", "template", "damaged", "content", "mode", "script",
                              "handed"}

ImportInv ==
    artifact.kind = "imported" /\ reply \in {"Ok", "Rejected"} =>
        /\ artifact.mode \in KeyMode /\ artifact.script \in ScriptType
        /\ artifact.intact
        /\ reply = "Ok" =>
            LET d == Recovered(artifact.mode, artifact.script)
            IN  /\ ~artifact.printed /\ artifact.rescans = {} /\ IsRanged(d)
                /\ \E n \in Nat :
                    /\ Ends(n, artifact.recorded, artifact.handed)
                    /\ artifact.watches = {ScriptAt(d, 0, i) : i \in 0..LastWatched(n)}

VaultInv == MintInv /\ PolicyInv /\ ReadBackInv /\ TemplateInv /\ ImportInv

----------------------------------------------------------------------------
(* It is inductive                                                         *)

\* The invariant holds before a vault is minted.
LEMMA VaultInit ==
    ASSUME Init
    PROVE  VaultInv
<1>1. artifact.kind = "none"
  BY DEF Init, NoArtifact
<1>2. handed \in [Chain -> 0..MaxIndex]
  BY VaultAssumption DEF Init
<1> QED BY <1>1, <1>2 DEF Init, VaultInv, MintInv, PolicyInv, ReadBackInv, TemplateInv,
                          ImportInv

\* A step that leaves all but the handed addresses alone.
LEMMA VaultStutter ==
    ASSUME VaultInv, handed' \in [Chain -> 0..MaxIndex], UNCHANGED <<vault, artifact, reply>>
    PROVE  VaultInv'
<1>1. MintInv'
  BY DEF VaultInv, MintInv, Minted
<1>2. PolicyInv'
  BY ZenonT(60) DEF VaultInv, PolicyInv, V
<1>3. ReadBackInv'
  BY ZenonT(60) DEF VaultInv, ReadBackInv, V
<1>r. \A mode, script : Recovered(mode, script)' = Recovered(mode, script)
  BY DEF Recovered, V
<1>4. TemplateInv'
  BY <1>r, SMTT(30) DEF VaultInv, TemplateInv, Ends
<1>5. ImportInv'
  BY <1>r, SMTT(30) DEF VaultInv, ImportInv, Ends
<1> QED BY <1>1, <1>2, <1>3, <1>4, <1>5 DEF VaultInv

\* No artifact is none of the four kinds.
LEMMA NoArtifactKind == NoArtifact.kind = "none"
BY DEF NoArtifact

\* build_federation_with and build_federation_taproot_with keep the invariant.
LEMMA MintKept ==
    ASSUME NEW m \in 0..MaxThreshold, NEW net \in Network, NEW script \in ScriptType,
           NEW internal \in Internals, NEW ss \in Rosters,
           script = "Wsh" => internal = <<>>,
           VaultInv, Mint(Builder(m, net, "Ranged", script, internal), ss)
    PROVE  VaultInv'
<1> DEFINE b == Builder(m, net, "Ranged", script, internal)
<1>1. vault = <<>> /\ artifact = NoArtifact /\ artifact' = NoArtifact /\ handed' = handed
  BY DEF Mint, VaultInv, MintInv
<1>2. artifact'.kind = "none"
  BY <1>1, NoArtifactKind
<1>3. vault' = <<>> \/ (BuildError(b, ss) = "Ok" /\ vault' = <<BuiltFederation(b, ss)>>)
  BY DEF Mint, BuiltError
<1> HIDE DEF b
<1>4. vault' = <<>> \/ Minted(m, net, script, internal, ss)'
  BY <1>3 DEF Minted, b
<1>5. MintInv'
  BY <1>1, <1>4 DEF VaultInv, MintInv
<1> QED BY <1>2, <1>5 DEF VaultInv, PolicyInv, ReadBackInv, TemplateInv, ImportInv

\* Registering a policy keeps the invariant.
LEMMA PolicyKept ==
    ASSUME VaultInv, RegisterPolicy
    PROVE  VaultInv'
<1>1. vault # <<>> /\ vault' = vault /\ handed' = handed
  BY DEF RegisterPolicy
<1>2. MintInv'
  BY <1>1 DEF VaultInv, MintInv, Minted
<1>3. PICK ss \in Rosters, cc \in Chaincodes :
        LET b == Builder(V.builder.threshold, V.builder.network, "Ranged", "Tr", <<cc>>)
        IN  /\ reply' = PolicyError(b, ss)
            /\ artifact' = IF reply' # "Ok" THEN NoArtifact
                           ELSE [kind |-> "policy", roster |-> ss, chaincode |-> cc,
                                 policy |-> bip388_taproot_policy(b, ss)]
  BY DEF RegisterPolicy
<1>4. CASE reply' # "Ok"
  <2>1. artifact'.kind = "none"
    BY <1>3, <1>4, NoArtifactKind
  <2> QED BY <1>2, <2>1 DEF VaultInv, PolicyInv, ReadBackInv, TemplateInv, ImportInv
<1>5. CASE reply' = "Ok"
  <2>1. artifact'.kind = "policy"
    BY <1>3, <1>5
  <2>2. V' = V
    BY <1>1 DEF V
  <2>3. PolicyInv'
    BY <1>3, <1>5, <2>2 DEF PolicyInv
  <2> QED BY <1>2, <2>1, <2>3 DEF VaultInv, ReadBackInv, TemplateInv, ImportInv
<1> QED BY <1>4, <1>5

\* A read-back keeps the invariant.
LEMMA ReadBackKept ==
    ASSUME VaultInv, ReadBack
    PROVE  VaultInv'
<1>1. vault # <<>> /\ vault' = vault /\ handed' = handed
  BY DEF ReadBack
<1>2. MintInv'
  BY <1>1 DEF VaultInv, MintInv, Minted
<1>3. PICK ss \in Rosters, m \in 1..MaxThreshold, mode \in KeyMode,
          script \in ScriptType, multipath \in BOOLEAN :
        LET b == Builder(m, V.builder.network, mode, script, <<>>)
            candidate == IF multipath THEN to_multipath_string(Build(b, ss))
                                      ELSE Build(b, ss)
        IN  /\ BuildError(b, ss) = "Ok"
            /\ reply' = ensure_descriptors_match(V.descriptor, candidate)
            /\ artifact' = [kind |-> "readback", candidate |-> candidate]
  BY DEF ReadBack
<1> DEFINE b == Builder(m, V.builder.network, mode, script, <<>>)
           candidate == IF multipath THEN to_multipath_string(Build(b, ss))
                                     ELSE Build(b, ss)
<1>4. /\ BuildError(b, ss) = "Ok"
      /\ reply' = ensure_descriptors_match(V.descriptor, candidate)
      /\ artifact' = [kind |-> "readback", candidate |-> candidate]
  BY <1>3
<1> HIDE DEF candidate
<1>5. artifact'.kind = "readback" /\ artifact'.candidate = candidate
  BY <1>4
<1>6. V' = V
  BY <1>1 DEF V
<1>7. ReadBackInv'
  BY <1>4, <1>5, <1>6 DEF ReadBackInv, candidate
<1> QED BY <1>2, <1>5, <1>7 DEF VaultInv, PolicyInv, TemplateInv, ImportInv

\* A fresh template describes the vault's federation, and its range ends where it
\* should.
LEMMA TemplateKept ==
    ASSUME VaultInv, MakeTemplate
    PROVE  VaultInv'
<1>1. vault # <<>> /\ vault' = vault /\ handed' = handed /\ V' = V
  BY DEF MakeTemplate, V
<1>2. MintInv'
  BY <1>1 DEF VaultInv, MintInv, Minted
<1>3. PICK mode \in KeyMode, script \in ScriptType, recorded \in BOOLEAN :
        LET r == WithConfig(V.builder.threshold, V.roster,
                            Config(V.builder.network, mode, script))
            LastUsed(chain) == IF recorded /\ handed[chain] > 0
                               THEN <<handed[chain] - 1>> ELSE <<>>
            t == RecoveryTemplate(r.fed[1], LastUsed(0), LastUsed(1), 1)
        IN  /\ r.err = "Ok"
            /\ artifact' = [kind |-> "template", template |-> t, damaged |-> FALSE,
                            content |-> t.body, mode |-> mode, script |-> script,
                            handed |-> handed]
  BY DEF MakeTemplate
<1> DEFINE c == Config(V.builder.network, mode, script)
           r == WithConfig(V.builder.threshold, V.roster, c)
           LastUsed(chain) == IF recorded /\ handed[chain] > 0
                              THEN <<handed[chain] - 1>> ELSE <<>>
           receive == LastUsed(0)
           t == RecoveryTemplate(r.fed[1], receive, LastUsed(1), 1)
<1>4. /\ r.err = "Ok"
      /\ artifact' = [kind |-> "template", template |-> t, damaged |-> FALSE,
                      content |-> t.body, mode |-> mode, script |-> script,
                      handed |-> handed]
  BY <1>3
<1>5. t = [body |-> t.body, checksum |-> t.body, generated_at |-> 1]
  BY DEF RecoveryTemplate, compute_checksum
<1>6. t.body.instructions[1] = generate_instructions("BitcoinCore", r.fed[1].descriptor, receive)
  <2> DEFINE fed == r.fed[1]
             change == LastUsed(1)
  <2>t. t = RecoveryTemplate(fed, receive, change, 1)
    OBVIOUS
  <2> HIDE DEF fed, receive, change, t
  <2>1. 1 \in DOMAIN Softwares /\ Softwares[1] = "BitcoinCore"
    BY DEF Softwares
  <2>2. t.body.instructions
            = [k \in DOMAIN Softwares |->
                    generate_instructions(Softwares[k], fed.descriptor, receive)]
    BY <2>t DEF RecoveryTemplate
  <2>3. t.body.instructions[1] = generate_instructions("BitcoinCore", fed.descriptor, receive)
    BY <2>1, <2>2
  <2> QED BY <2>3 DEF fed
<1>7. r.fed[1].descriptor = <<Recovered(mode, script)>>
  <2>1. r.fed[1] = Fed(V.builder.threshold, V.roster, c)
    BY <1>4 DEF WithConfig
  <2>2. c.network = V.builder.network /\ c.mode = mode /\ c.script = script
    BY DEF Config
  <2>3. BuilderOf(V.builder.threshold, c)
            = Builder(V.builder.threshold, V.builder.network, mode, script, <<>>)
    BY <2>2 DEF BuilderOf
  <2>4. IsBitcoin(V.builder.network)
    <3>1. PICK m \in 0..MaxThreshold, net \in Network, s \in ScriptType,
               internal \in Internals, ss \in Rosters : Minted(m, net, s, internal, ss)
      BY <1>1 DEF VaultInv, MintInv
    <3>2. V.builder.network = net
      BY <3>1 DEF Minted, V, BuiltFederation, Builder
    <3>3. IsBitcoin(net)
      BY <3>1, VaultAssumption, BuildOk DEF Minted
    <3> QED BY <3>2, <3>3
  <2> HIDE DEF c
  <2> QED BY <2>1, <2>2, <2>3, <2>4 DEF Fed, Recovered
<1> HIDE DEF r
<1>8. /\ t.body.instructions[1].desc = <<Recovered(mode, script)>>
      /\ t.body.instructions[1].range = bitcoin_core_range(receive)
      /\ t.body.receive = receive
      /\ AsPrinted(t.body.instructions[1])
  <2> DEFINE core == t.body.instructions[1]
             d == r.fed[1].descriptor
             n == bitcoin_core_range(receive)
  <2>1. core = [software |-> "BitcoinCore", disable_private_keys |-> FALSE, desc |-> d,
                active |-> TRUE, internal |-> FALSE, timestamp |-> "now", range |-> n]
    BY <1>6, Zenon DEF generate_instructions
  <2>2. d = <<Recovered(mode, script)>>
    BY <1>7
  <2>3. t.body.receive = receive
    <3> DEFINE fed == r.fed[1]
               change == LastUsed(1)
    <3>t. t = RecoveryTemplate(fed, receive, change, 1)
      OBVIOUS
    <3> HIDE DEF fed, receive, change, t
    <3> QED BY <3>t DEF RecoveryTemplate
  <2> HIDE DEF core, d, n, t, receive
  <2>4. core.desc = d /\ core.range = n
    BY <2>1
  <2>5. AsPrinted(core)
    BY <2>1 DEF AsPrinted
  <2> QED BY <2>2, <2>3, <2>4, <2>5, Zenon DEF core, n
<1>9. Ends(bitcoin_core_range(receive), receive # <<>>, handed)
  <2>1. handed[0] \in 0..MaxIndex /\ MaxIndex \in Nat /\ DefaultRange \in Nat
    BY VaultAssumption, RecoveryAssumption DEF VaultInv, MintInv, Chain
  <2> DEFINE n == handed[0]
  <2>n. n \in 0..MaxIndex
    BY <2>1
  <2>2. CASE recorded /\ handed[0] > 0
    <3>1. receive = <<n - 1>>
      BY <2>2
    <3> HIDE DEF n, receive
    <3>2. bitcoin_core_range(receive) = n - 1
      BY <3>1 DEF bitcoin_core_range
    <3>3. n - 1 \in Nat /\ receive # <<>>
      BY <2>1, <2>2, <2>n, <3>1 DEF n
    <3> QED BY <2>1, <3>2, <3>3 DEF Ends, n
  <2>3. CASE ~(recorded /\ handed[0] > 0)
    <3>1. receive = <<>>
      BY <2>3
    <3> HIDE DEF receive
    <3> QED BY <2>1, <3>1 DEF Ends, bitcoin_core_range
  <2> QED BY <2>2, <2>3
<1> HIDE DEF t, receive
<1>10. /\ artifact'.kind = "template" /\ artifact'.template = t /\ artifact'.damaged = FALSE
       /\ artifact'.content = t.body /\ artifact'.mode = mode /\ artifact'.script = script
       /\ artifact'.handed = handed
       /\ DOMAIN artifact' = {"kind", "template", "damaged", "content", "mode", "script",
                              "handed"}
  BY <1>4
<1>11. Recovered(mode, script)' = Recovered(mode, script)
  BY <1>1 DEF Recovered
<1>12. TemplateInv'
  BY <1>1, <1>5, <1>8, <1>9, <1>10, <1>11 DEF TemplateInv, Recovered, Ends
<1> QED BY <1>2, <1>10, <1>12 DEF VaultInv, PolicyInv, ReadBackInv, ImportInv

\* Damage alters the body or the checksum, never both.
LEMMA DamagedSide ==
    ASSUME NEW content, NEW t \in Damaged([body |-> content, checksum |-> content,
                                           generated_at |-> 1])
    PROVE  t.body = content \/ t.checksum = content
<1> DEFINE u == [body |-> content, checksum |-> content, generated_at |-> 1]
<1>1. u.body = content /\ u.checksum = content /\ DOMAIN u = {"body", "checksum", "generated_at"}
  OBVIOUS
<1>2. t \in Damaged(u)
  OBVIOUS
<1> HIDE DEF u
<1>3. t.checksum = u.checksum \/ t.body = u.body
  BY <1>1, <1>2 DEF Damaged
<1> QED BY <1>1, <1>3

\* Damage keeps the invariant.
LEMMA DamageKept ==
    ASSUME VaultInv, Damage
    PROVE  VaultInv'
<1>1. /\ artifact.kind = "template" /\ ~artifact.damaged
      /\ vault' = vault /\ handed' = handed /\ reply' = reply /\ V' = V
  BY DEF Damage, V
<1>2. PICK t \in Damaged(artifact.template) :
        artifact' = [artifact EXCEPT !.template = t, !.damaged = TRUE]
  BY DEF Damage
<1>3. /\ artifact.template = [body |-> artifact.content, checksum |-> artifact.content,
                              generated_at |-> 1]
      /\ DOMAIN artifact = {"kind", "template", "damaged", "content", "mode", "script",
                            "handed"}
  BY <1>1 DEF VaultInv, TemplateInv
<1>4. t.body = artifact.content \/ t.checksum = artifact.content
  BY <1>2, <1>3, DamagedSide
<1>5. /\ artifact'.kind = "template" /\ artifact'.template = t /\ artifact'.damaged = TRUE
      /\ artifact'.content = artifact.content /\ artifact'.mode = artifact.mode
      /\ artifact'.script = artifact.script /\ artifact'.handed = artifact.handed
      /\ DOMAIN artifact' = DOMAIN artifact
  BY <1>1, <1>2, <1>3
<1>6. MintInv'
  <2>1. vault # <<>>
    BY <1>1, NoArtifactKind DEF VaultInv, MintInv
  <2> QED BY <1>1, <2>1 DEF VaultInv, MintInv, Minted
<1>7. TemplateInv'
  BY <1>1, <1>3, <1>4, <1>5 DEF VaultInv, TemplateInv, Recovered, Ends
<1> QED BY <1>5, <1>6, <1>7 DEF VaultInv, PolicyInv, ReadBackInv, ImportInv

\* An import that gets past verify() is of what was generated.
LEMMA ImportKept ==
    ASSUME VaultInv, Import
    PROVE  VaultInv'
<1> DEFINE t == artifact.template
           call == t.body.instructions[1]
           e == template_verify(t)
<1>0. PICK printed \in BOOLEAN :
        /\ reply' = IF e = "Ok" THEN import_error(call, printed => call.disable_private_keys)
                    ELSE e
        /\ artifact' =
            [kind |-> "imported", mode |-> artifact.mode,
             script |-> artifact.script, handed |-> artifact.handed,
             printed |-> printed, recorded |-> t.body.receive # <<>>,
             intact |-> t.body = artifact.content,
             watches |-> IF reply' = "Ok" THEN import_watches(call) ELSE {},
             rescans |-> IF reply' = "Ok" THEN import_rescans(call) ELSE {}]
  BY DEF Import
<1>1. artifact.kind = "template" /\ vault' = vault /\ handed' = handed /\ V' = V
  BY DEF Import, V
<1>2. /\ artifact'.kind = "imported" /\ artifact'.mode = artifact.mode
      /\ artifact'.script = artifact.script /\ artifact'.handed = artifact.handed
      /\ artifact'.recorded = (t.body.receive # <<>>)
      /\ artifact'.intact = (t.body = artifact.content)
      /\ artifact'.watches = IF reply' = "Ok" THEN import_watches(call) ELSE {}
      /\ artifact'.rescans = IF reply' = "Ok" THEN import_rescans(call) ELSE {}
      /\ artifact'.printed = printed
  BY <1>0
<1>3. MintInv'
  <2>1. vault # <<>>
    BY <1>1, NoArtifactKind DEF VaultInv, MintInv
  <2> QED BY <1>1, <2>1 DEF VaultInv, MintInv, Minted
<1>4. ImportInv'
  <2> DEFINE d == Recovered(artifact.mode, artifact.script)
             n == call.range
             Watched(dd) == /\ ~artifact'.printed /\ artifact'.rescans = {}
                            /\ IsRanged(dd)
                            /\ \E k \in Nat :
                                /\ Ends(k, artifact'.recorded, artifact'.handed)
                                /\ artifact'.watches
                                    = {ScriptAt(dd, 0, i) : i \in 0..LastWatched(k)}
  <2> SUFFICES ASSUME reply' \in {"Ok", "Rejected"}
               PROVE  /\ artifact'.mode \in KeyMode /\ artifact'.script \in ScriptType
                      /\ artifact'.intact
                      /\ reply' = "Ok" => Watched(Recovered(artifact.mode, artifact.script)')
    BY DEF ImportInv, Recovered, Ends
  <2>1. e = "Ok"
    BY <1>0 DEF template_verify
  <2>2. t.body = t.checksum
    BY <2>1 DEF template_verify, compute_checksum
  <2>3. t.body = artifact.content
    BY <1>1, <2>2 DEF VaultInv, TemplateInv
  <2>4. /\ artifact.mode \in KeyMode /\ artifact.script \in ScriptType
        /\ call.desc = <<d>> /\ Ends(n, t.body.receive # <<>>, artifact.handed)
        /\ AsPrinted(call)
    BY <1>1, <2>3 DEF VaultInv, TemplateInv
  <2>5. Recovered(artifact.mode, artifact.script)' = d
    BY <1>1, <1>2 DEF Recovered
  <2>9. artifact'.intact
    <3> HIDE DEF t
    <3> QED BY <1>2, <2>3, Zenon
  <2> HIDE DEF t, call, d, e
  <2>6. call.desc[1] = d /\ n \in Nat
    BY <2>4 DEF Ends
  <2>7. ASSUME reply' = "Ok" PROVE Watched(d)
    <3>1. import_error(call, printed => call.disable_private_keys) = "Ok"
      BY <1>0, <2>1, <2>7
    <3>2. IsRanged(d)
      BY <2>6, <3>1 DEF import_error
    <3>3. artifact'.watches = {ScriptAt(d, 0, i) : i \in 0..LastWatched(n)}
      BY <1>2, <2>6, <2>7 DEF import_watches, LastWatched
    <3>4. Ends(n, artifact'.recorded, artifact'.handed)
      <4>1. Ends(n, t.body.receive # <<>>, artifact.handed)
        BY <2>4
      <4> HIDE DEF n
      <4> QED BY <1>2, <4>1
    <3>5. printed = FALSE
      BY <1>0, <2>4, <3>1, Zenon DEF import_error, AsPrinted
    <3>6. artifact'.rescans = {}
      BY <1>2, <2>4, <2>7 DEF import_rescans, AsPrinted
    <3> HIDE DEF n
    <3> QED BY <1>2, <2>6, <3>2, <3>3, <3>4, <3>5, <3>6
  <2> HIDE DEF Watched
  <2> QED BY <1>2, <2>4, <2>5, <2>7, <2>9, Zenon
<1> QED BY <1>2, <1>3, <1>4 DEF VaultInv, PolicyInv, ReadBackInv, TemplateInv

\* Discarding the artifact keeps the invariant.
LEMMA DiscardKept ==
    ASSUME VaultInv, Discard
    PROVE  VaultInv'
<1>1. artifact' = NoArtifact /\ vault' = vault /\ handed' = handed
  BY DEF Discard
<1>2. artifact'.kind = "none"
  BY <1>1, NoArtifactKind
<1>3. MintInv'
  BY <1>1 DEF VaultInv, MintInv, Minted
<1> QED BY <1>2, <1>3 DEF VaultInv, PolicyInv, ReadBackInv, TemplateInv, ImportInv

\* Every step keeps the invariant.
LEMMA VaultNext ==
    ASSUME VaultInv, [Next]_vars
    PROVE  VaultInv'
<1>h. handed \in [Chain -> 0..MaxIndex]
  BY DEF VaultInv, MintInv
<1>1. CASE BuildFederationWith
  <2>0. PICK ss \in Rosters, m \in 0..MaxThreshold, net \in Network :
             \E script \in available_script_types(ss) :
                Mint(Builder(m, net, "Ranged", script, <<>>), ss)
    BY <1>1 DEF BuildFederationWith
  <2>1. PICK script \in available_script_types(ss) :
                Mint(Builder(m, net, "Ranged", script, <<>>), ss)
    BY <2>0
  <2>2. script \in ScriptType /\ <<>> \in Internals
    BY DEF available_script_types, ScriptType, Internals
  <2> QED BY <2>1, <2>2, MintKept
<1>2. CASE BuildFederationTaprootWith
  <2>1. PICK ss \in Rosters, m \in 0..MaxThreshold, net \in Network, cc \in Chaincodes :
                Mint(Builder(m, net, "Ranged", "Tr", <<cc>>), ss)
    BY <1>2 DEF BuildFederationTaprootWith
  <2>2. "Tr" \in ScriptType /\ <<cc>> \in Internals
    BY DEF ScriptType, Internals
  <2> QED BY <2>1, <2>2, MintKept
<1>3. CASE RngFails
  <2>1. vault = <<>> /\ artifact = NoArtifact
    BY <1>3 DEF RngFails, VaultInv, MintInv
  <2>2. artifact'.kind = "none"
    BY <1>3, <2>1, NoArtifactKind DEF RngFails
  <2>3. MintInv'
    BY <1>3, <2>1 DEF RngFails, VaultInv, MintInv
  <2> QED BY <2>2, <2>3 DEF VaultInv, PolicyInv, ReadBackInv, TemplateInv, ImportInv
<1>4. ASSUME NEW chain \in Chain, HandOut(chain) PROVE VaultInv'
  <2>1. handed[chain] \in 0..MaxIndex /\ handed[chain] < MaxIndex /\ MaxIndex \in Nat
    BY <1>h, <1>4, VaultAssumption DEF HandOut
  <2>2. handed[chain] + 1 \in 0..MaxIndex
    BY <2>1
  <2>3. handed' \in [Chain -> 0..MaxIndex]
    BY <1>h, <1>4, <2>2 DEF HandOut
  <2> QED BY <1>4, <2>3, VaultStutter DEF HandOut
<1>5. CASE UNCHANGED vars
  BY <1>5, <1>h, VaultStutter DEF vars
<1> QED BY <1>1, <1>2, <1>3, <1>4, <1>5, PolicyKept, ReadBackKept, DiscardKept, TemplateKept,
           DamageKept, ImportKept DEF Next

\* The invariant holds of every behaviour of a vault.
LEMMA VaultInvariant == Spec => []VaultInv
<1>1. Init => VaultInv
  BY VaultInit
<1>2. VaultInv /\ [Next]_vars => VaultInv'
  BY VaultNext
<1> QED BY <1>1, <1>2, PTL DEF Spec

----------------------------------------------------------------------------
(* Imports                                                                 *)

\* RecoveryTemplate::verify: a template is imported only if its content is what
\* was generated, for every vault, index and way of damaging one field.
THEOREM OnlyIntactImportedHolds == Spec => []OnlyIntactImported
<1>1. VaultInv => OnlyIntactImported
  BY DEF VaultInv, ImportInv, OnlyIntactImported
<1> QED BY <1>1, VaultInvariant, PTL

----------------------------------------------------------------------------
(* The descriptor of the vault                                             *)

\* What the properties need to know of a minted vault.
IsVault(m, net, script, internal, ss) ==
    /\ ss \in Seq(Signer) /\ DistinctIds(ss) /\ Len(ss) \in Nat \ {0}
    /\ script \in ScriptType /\ internal \in Internals
    /\ script = "Wsh" => internal = <<>>
    /\ IsInjective(KeyList(Members(script, ss), "both"))
    /\ V.roster = ss /\ V.builder.threshold = m /\ V.builder.network = net
    /\ V.builder.script = script /\ V.builder.internal = internal
    /\ V.descriptor = Desc(script, m, Members(script, ss), "both",
                           InternalOf(script, net, internal, "both"))

\* A vault of the invariant is minted from some roster.
LEMMA VaultIs ==
    ASSUME VaultInv, vault # <<>>
    PROVE  \E m, net, script, internal, ss : IsVault(m, net, script, internal, ss)
<1>1. PICK m \in 0..MaxThreshold, net \in Network, script \in ScriptType,
           internal \in Internals, ss \in Rosters : Minted(m, net, script, internal, ss)
  BY DEF VaultInv, MintInv
<1> DEFINE b == Builder(m, net, "Ranged", script, internal)
<1>2. ss \in Seq(Signer) /\ BuildError(b, ss) = "Ok"
  BY <1>1, VaultAssumption DEF Minted
<1>3. /\ DistinctIds(ss) /\ Len(ss) \in Nat \ {0}
      /\ IsInjective(KeyList(Members(script, ss), "both"))
  BY <1>2, BuildOk
<1>4. V.roster = ss /\ V.builder = b /\ V.descriptor = to_multipath_string(Build(b, ss))
  BY <1>1 DEF Minted, V, BuiltFederation
<1>5. /\ V.builder.threshold = m /\ V.builder.network = net
      /\ V.builder.script = script /\ V.builder.internal = internal
  BY <1>4 DEF Builder
<1>6. Build(b, ss) = Desc(script, m, Members(script, ss), "external",
                          InternalOf(script, net, internal, "external"))
  BY BuildIs DEF Wild
<1>7. Lifted("external") = "both"
  BY DEF Lifted
<1>8. V.descriptor = Desc(script, m, Members(script, ss), "both",
                          InternalOf(script, net, internal, "both"))
  BY <1>4, <1>6, <1>7, LiftIs
<1>9. script = "Wsh" => internal = <<>>
  BY <1>1 DEF Minted
<1> HIDE DEF b
<1>10. IsVault(m, net, script, internal, ss)
  BY <1>2, <1>3, <1>4, <1>5, <1>8, <1>9 DEF IsVault
<1> QED BY <1>10

\* Two scripts are equal if and only if their parts are.
LEMMA SameScript ==
    ASSUME NEW s1, NEW m1, NEW f1, NEW w1, NEW n1, NEW c1, NEW i1,
           NEW s2, NEW m2, NEW f2, NEW w2, NEW n2, NEW c2, NEW i2
    PROVE  ScriptAt(Desc(s1, m1, f1, w1, n1), c1, i1)
                = ScriptAt(Desc(s2, m2, f2, w2, n2), c2, i2)
           <=> /\ s1 = s2 /\ m1 = m2
               /\ InternalAt(n1, c1, i1) = InternalAt(n2, c2, i2)
               /\ s1 = "Tr" => Children(f1, w1, c1, i1) = Children(f2, w2, c2, i2)
               /\ s1 # "Tr" => ToBag(Children(f1, w1, c1, i1)) = ToBag(Children(f2, w2, c2, i2))
<1> DEFINE k1 == IF s1 = "Tr" THEN Children(f1, w1, c1, i1) ELSE ToBag(Children(f1, w1, c1, i1))
           k2 == IF s2 = "Tr" THEN Children(f2, w2, c2, i2) ELSE ToBag(Children(f2, w2, c2, i2))
           a1 == InternalAt(n1, c1, i1)
           a2 == InternalAt(n2, c2, i2)
           r1 == [script |-> s1, threshold |-> m1, keys |-> k1, internal |-> a1]
           r2 == [script |-> s2, threshold |-> m2, keys |-> k2, internal |-> a2]
<1>1. /\ ScriptAt(Desc(s1, m1, f1, w1, n1), c1, i1) = r1
      /\ ScriptAt(Desc(s2, m2, f2, w2, n2), c2, i2) = r2
  BY ScriptIs
<1> HIDE DEF k1, k2, a1, a2
<1>2. r1 = r2 <=> s1 = s2 /\ m1 = m2 /\ k1 = k2 /\ a1 = a2
  <2>1. ASSUME r1 = r2 PROVE s1 = s2 /\ m1 = m2 /\ k1 = k2 /\ a1 = a2
    <3>1. /\ r1.script = s1 /\ r1.threshold = m1 /\ r1.keys = k1 /\ r1.internal = a1
          /\ r2.script = s2 /\ r2.threshold = m2 /\ r2.keys = k2 /\ r2.internal = a2
      OBVIOUS
    <3> HIDE DEF r1, r2
    <3> QED BY <2>1, <3>1
  <2> QED BY <2>1
<1> HIDE DEF r1, r2
<1>3. CASE s1 = "Tr"
  BY <1>1, <1>2, <1>3 DEF k1, k2, a1, a2
<1>4. CASE s1 # "Tr"
  BY <1>1, <1>2, <1>4 DEF k1, k2, a1, a2
<1> QED BY <1>3, <1>4

\* Equal scripts have the same child keys.
LEMMA SameChildren ==
    ASSUME NEW s1, NEW m1, NEW f1, NEW w1, NEW n1, NEW c1, NEW i1,
           NEW s2, NEW m2, NEW f2, NEW w2, NEW n2, NEW c2, NEW i2,
           ScriptAt(Desc(s1, m1, f1, w1, n1), c1, i1)
                = ScriptAt(Desc(s2, m2, f2, w2, n2), c2, i2),
           NEW k \in DOMAIN f1
    PROVE  \E j \in DOMAIN f2 : Child(f1[k].key, w1, c1, i1) = Child(f2[j].key, w2, c2, i2)
<1> DEFINE u == Children(f1, w1, c1, i1)
           v == Children(f2, w2, c2, i2)
<1>1. u = v \/ ToBag(u) = ToBag(v)
  BY SameScript
<1>2. Range(u) = Range(v)
  <2>1. DOMAIN ToBag(u) = Range(u) /\ DOMAIN ToBag(v) = Range(v)
    BY DEF ToBag
  <2> HIDE DEF u, v
  <2> QED BY <1>1, <2>1
<1>3. /\ DOMAIN u = DOMAIN f1 /\ u[k] = Child(f1[k].key, w1, c1, i1)
      /\ DOMAIN v = DOMAIN f2
      /\ \A j \in DOMAIN f2 : v[j] = Child(f2[j].key, w2, c2, i2)
  BY DEF Children
<1> HIDE DEF u, v
<1>4. u[k] \in Range(v)
  BY <1>2, <1>3 DEF Range
<1>5. PICK j \in DOMAIN v : v[j] = u[k]
  BY <1>4 DEF Range
<1> QED BY <1>3, <1>5

\* Facts about the members of a roster that the properties are about.
LEMMA VaultMembers ==
    ASSUME NEW m, NEW net, NEW script, NEW internal, NEW ss,
           IsVault(m, net, script, internal, ss)
    PROVE  LET f == Members(script, ss)
           IN  /\ f \in Seq(Signer) /\ DOMAIN f = 1..Len(ss) /\ 1 \in DOMAIN f
               /\ ReordersRoster(f, ss)
<1>1. ss \in Seq(Signer) /\ DistinctIds(ss) /\ Len(ss) \in Nat \ {0}
  BY DEF IsVault
<1> DEFINE f == Members(script, ss)
<1>2. f \in Seq(Signer) /\ DOMAIN f = 1..Len(ss) /\ ReordersRoster(f, ss)
  BY <1>1, MembersAre
<1> HIDE DEF f
<1> QED BY <1>1, <1>2 DEF f

\* to_multipath_string: no two of a vault's receive and change addresses are the
\* same, for every roster, threshold and internal key.
THEOREM AddressesDistinctHolds == Spec => []AddressesDistinct
<1>1. ASSUME VaultInv PROVE AddressesDistinct
  <2> SUFFICES ASSUME vault # <<>>, NEW x \in Address, NEW y \in Address,
                      At(V.descriptor, x) = At(V.descriptor, y)
               PROVE  x = y
    BY DEF AddressesDistinct
  <2>1. PICK m, net, script, internal, ss : IsVault(m, net, script, internal, ss)
    BY <1>1, VaultIs
  <2> DEFINE f == Members(script, ss)
             n == InternalOf(script, net, internal, "both")
             d == Desc(script, m, f, "both", n)
  <2>2. 1 \in DOMAIN f
    BY <2>1, VaultMembers
  <2>3. V.descriptor = d
    BY <2>1 DEF IsVault
  <2> HIDE DEF f, n
  <2>4. ScriptAt(d, x[1], x[2]) = ScriptAt(d, y[1], y[2])
    BY <2>3 DEF At
  <2>5. PICK j \in DOMAIN f :
            Child(f[1].key, "both", x[1], x[2]) = Child(f[j].key, "both", y[1], y[2])
    BY <2>2, <2>4, SameChildren
  <2>6. <<f[1].key, x[1], x[2]>> = <<f[j].key, y[1], y[2]>>
    BY <2>5, ChildIs
  <2>7. x[1] = y[1] /\ x[2] = y[2]
    BY <2>6
  <2> QED BY <2>7 DEF Address
<1> QED BY <1>1, VaultInvariant, PTL

----------------------------------------------------------------------------
(* Policies                                                                *)

\* The keys of a list of signers.
KeysOf(f) == [k \in DOMAIN f |-> f[k].key]

\* However a roster is listed, its public keys are the same.
LEMMA ListedKeys ==
    ASSUME NEW ss \in Seq(Signer), DistinctIds(ss), NEW f \in Seq(Signer), ReordersRoster(f, ss)
    PROVE  ToBag(KeysOf(f)) = PublicKeys(ss)
<1> DEFINE v == [s \in Signer |-> s.key]
<1>1. IsInjective(f) /\ ToSet(f) = ToSet(ss)
  BY DEF ReordersRoster
<1>2. IsInjective(ss)
  BY DEF IsInjective, DistinctIds
<1>3. ToBag(Mapped(v, f)) = ToBag(Mapped(v, ss))
  BY <1>1, <1>2, SameBag
<1>4. ASSUME NEW l \in Seq(Signer) PROVE Mapped(v, l) = KeysOf(l)
  <2>1. DOMAIN l = 1..Len(l) /\ \A i \in 1..Len(l) : v[l[i]] = l[i].key
    BY <1>4
  <2> QED BY <2>1 DEF Mapped, KeysOf
<1>5. PublicKeys(ss) = ToBag(KeysOf(ss))
  BY DEF PublicKeys, KeysOf
<1> QED BY <1>3, <1>4, <1>5

\* The sorted taproot keys are determined by the public keys.
LEMMA TaprootKeysUnique ==
    ASSUME NEW ss \in Seq(Signer), DistinctIds(ss), NEW tt \in Seq(Signer), DistinctIds(tt),
           PublicKeys(ss) = PublicKeys(tt)
    PROVE  KeysOf(sorted_taproot_keys(ss)) = KeysOf(sorted_taproot_keys(tt))
<1>1. ASSUME NEW l \in Seq(Signer), DistinctIds(l)
      PROVE  LET u == KeysOf(sorted_taproot_keys(l))
             IN  u \in Seq(Nat) /\ Rising(u) /\ ToBag(u) = PublicKeys(l)
  <2> DEFINE f == sorted_taproot_keys(l)
             u == KeysOf(f)
  <2>1. ReordersRoster(f, l) /\ \A i, j \in 1..Len(l) : i < j => f[i].key <= f[j].key
    BY <1>1, SortedRoster
  <2>2. f \in Seq(Signer) /\ Len(f) = Len(l) /\ DOMAIN f = 1..Len(l)
    <3>1. f = Members("Tr", l)
      BY DEF Members
    <3> QED BY <1>1, <3>1, MembersAre
  <2> HIDE DEF f
  <2>3. ToBag(u) = PublicKeys(l)
    BY <1>1, <2>1, <2>2, ListedKeys
  <2>4. /\ DOMAIN u = 1..Len(l) /\ Len(l) \in Nat
        /\ \A i \in 1..Len(l) : u[i] = f[i].key /\ u[i] \in Nat
    BY <1>1, <2>2, SignerAssumption DEF KeysOf
  <2>5. u = [i \in 1..Len(l) |-> u[i]]
    BY <2>4 DEF KeysOf
  <2> HIDE DEF u
  <2>6. u \in Seq(Nat) /\ Len(u) = Len(l)
    BY <2>4, <2>5
  <2>7. Rising(u)
    BY <2>1, <2>4, <2>6 DEF Rising
  <2> QED BY <2>3, <2>6, <2>7 DEF u, f
<1>2. /\ KeysOf(sorted_taproot_keys(ss)) \in Seq(Nat)
      /\ KeysOf(sorted_taproot_keys(tt)) \in Seq(Nat)
      /\ Rising(KeysOf(sorted_taproot_keys(ss))) /\ Rising(KeysOf(sorted_taproot_keys(tt)))
      /\ ToBag(KeysOf(sorted_taproot_keys(ss))) = ToBag(KeysOf(sorted_taproot_keys(tt)))
  BY <1>1
<1> QED BY <1>2, RisingUnique

\* Child keys on both chains show the keys they come from.
LEMMA ChildrenKeys ==
    ASSUME NEW f, NEW g, NEW chain, NEW index
    PROVE  Children(f, "both", chain, index) = Children(g, "both", chain, index)
             <=> KeysOf(f) = KeysOf(g)
<1> DEFINE u(l) == Children(l, "both", chain, index)
<1>1. ASSUME NEW l PROVE u(l) = [k \in DOMAIN l |-> <<l[k].key, chain, index>>]
  BY ChildIs DEF Children
<1>2. ASSUME u(f) = u(g) PROVE KeysOf(f) = KeysOf(g)
  <2>1. DOMAIN u(f) = DOMAIN f /\ DOMAIN u(g) = DOMAIN g
    BY <1>1
  <2>2. DOMAIN f = DOMAIN g
    BY <1>2, <2>1
  <2>3. \A k \in DOMAIN f : u(f)[k] = <<f[k].key, chain, index>>
                            /\ u(g)[k] = <<g[k].key, chain, index>>
    BY <1>1, <2>2
  <2>4. ASSUME NEW k \in DOMAIN f PROVE f[k].key = g[k].key
    <3>1. <<f[k].key, chain, index>> = <<g[k].key, chain, index>>
      BY <1>2, <2>3
    <3> QED BY <3>1
  <2> QED BY <2>2, <2>4 DEF KeysOf
<1>3. ASSUME KeysOf(f) = KeysOf(g) PROVE u(f) = u(g)
  <2>1. DOMAIN KeysOf(f) = DOMAIN f /\ DOMAIN KeysOf(g) = DOMAIN g
    BY DEF KeysOf
  <2>2. DOMAIN f = DOMAIN g
    BY <1>3, <2>1
  <2>3. \A k \in DOMAIN f : KeysOf(f)[k] = f[k].key /\ KeysOf(g)[k] = g[k].key
    BY <2>2 DEF KeysOf
  <2>4. \A k \in DOMAIN f : f[k].key = g[k].key
    BY <1>3, <2>3
  <2> QED BY <1>1, <2>2, <2>4
<1> QED BY <1>2, <1>3

\* bip388_taproot_policy: the device derives the vault's addresses if and only if
\* the policy was made with the vault's chain code and public keys.
THEOREM PolicyIsTheVaultHolds == Spec => []PolicyIsTheVault
<1>1. ASSUME VaultInv, artifact.kind = "policy"
      PROVE  SameScripts(Expand(artifact.policy), V.descriptor)
                <=> /\ V.builder.internal = <<artifact.chaincode>>
                    /\ PublicKeys(artifact.roster) = PublicKeys(V.roster)
  <2>0. vault # <<>>
    BY <1>1, NoArtifactKind DEF VaultInv, MintInv
  <2>1. PICK m, net, script, internal, ss : IsVault(m, net, script, internal, ss)
    BY <1>1, <2>0, VaultIs
  <2>2. /\ V.builder.threshold = m /\ V.builder.network = net /\ V.roster = ss
        /\ V.builder.internal = internal /\ internal \in Internals /\ script \in ScriptType
        /\ script = "Wsh" => internal = <<>>
        /\ V.descriptor = Desc(script, m, Members(script, ss), "both",
                               InternalOf(script, net, internal, "both"))
        /\ ss \in Seq(Signer) /\ DistinctIds(ss)
    BY <2>1 DEF IsVault
  <2>3. PICK tt \in Rosters, cc \in Chaincodes :
            LET b == Builder(m, net, "Ranged", "Tr", <<cc>>)
            IN  /\ PolicyError(b, tt) = "Ok"
                /\ artifact = [kind |-> "policy", roster |-> tt, chaincode |-> cc,
                               policy |-> bip388_taproot_policy(b, tt)]
    BY <1>1, <2>2 DEF VaultInv, PolicyInv
  <2> DEFINE b == Builder(m, net, "Ranged", "Tr", <<cc>>)
             f == Members(script, ss)
             g == sorted_taproot_keys(tt)
             own == InternalOf(script, net, internal, "both")
             given == InternalOf("Tr", net, <<cc>>, "both")
  <2>4. /\ artifact.roster = tt /\ artifact.chaincode = cc
        /\ artifact.policy = bip388_taproot_policy(b, tt) /\ PolicyError(b, tt) = "Ok"
    BY <2>3
  <2>5. tt \in Seq(Signer) /\ DistinctIds(tt)
    BY <2>4, VaultAssumption, IdsDiffer DEF PolicyError
  <2>6. Expand(artifact.policy) = Desc("Tr", m, g, "both", given)
    BY <2>4, ExpandIs
  <2>7. ToBag(KeysOf(g)) = PublicKeys(tt) /\ ToBag(KeysOf(f)) = PublicKeys(ss)
    <3>1. g = Members("Tr", tt)
      BY DEF Members
    <3>2. g \in Seq(Signer) /\ ReordersRoster(g, tt) /\ f \in Seq(Signer) /\ ReordersRoster(f, ss)
      BY <2>2, <2>5, <3>1, MembersAre
    <3> HIDE DEF f, g
    <3> QED BY <2>2, <2>5, <3>2, ListedKeys
  <2>8. \A x \in Address :
            /\ InternalAt(given, x[1], x[2]) = <<<<NetworkKind(net), cc>>, x[1], x[2]>>
            /\ script = "Tr" /\ internal = <<>> => InternalAt(own, x[1], x[2]) = <<"raw">>
            /\ script = "Tr" /\ internal # <<>> =>
                InternalAt(own, x[1], x[2]) = <<<<NetworkKind(net), internal[1]>>, x[1], x[2]>>
    BY InternalAtIs
  <2>9. \A x \in Address : At(Expand(artifact.policy), x) = At(V.descriptor, x)
            <=> /\ "Tr" = script
                /\ InternalAt(given, x[1], x[2]) = InternalAt(own, x[1], x[2])
                /\ Children(g, "both", x[1], x[2]) = Children(f, "both", x[1], x[2])
    <3> HIDE DEF f, g, own, given
    <3> QED BY <2>2, <2>6, SameScript DEF At, f, own
  <2> HIDE DEF f, g, own, given, b
  <2>10. ASSUME SameScripts(Expand(artifact.policy), V.descriptor)
         PROVE  internal = <<cc>> /\ PublicKeys(tt) = PublicKeys(ss)
    <3> DEFINE x == <<0, 0>>
    <3>1. x \in Address
      BY VaultAssumption DEF Address, Chain
    <3>2. At(Expand(artifact.policy), x) = At(V.descriptor, x)
      BY <2>10, <3>1 DEF SameScripts
    <3>3. /\ script = "Tr"
          /\ InternalAt(given, x[1], x[2]) = InternalAt(own, x[1], x[2])
          /\ Children(g, "both", x[1], x[2]) = Children(f, "both", x[1], x[2])
      BY <2>9, <3>1, <3>2
    <3>4. internal # <<>>
      <4> SUFFICES ASSUME internal = <<>> PROVE FALSE
        OBVIOUS
      <4>1. <<<<NetworkKind(net), cc>>, x[1], x[2]>> = <<"raw">>
        BY <2>8, <3>1, <3>3
      <4> QED BY ONLY <4>1
    <3>5. <<<<NetworkKind(net), cc>>, x[1], x[2]>> = <<<<NetworkKind(net), internal[1]>>, x[1], x[2]>>
      BY <2>8, <3>1, <3>3, <3>4
    <3>6. internal[1] = cc
      <4>1. <<NetworkKind(net), cc>> = <<NetworkKind(net), internal[1]>>
        BY ONLY <3>5
      <4> QED BY ONLY <4>1
    <3>7. internal = <<cc>>
      BY <2>2, <3>4, <3>6 DEF Internals
    <3>8. KeysOf(g) = KeysOf(f)
      BY <3>3, ChildrenKeys
    <3> QED BY <2>7, <3>7, <3>8
  <2>11. ASSUME internal = <<cc>>, PublicKeys(tt) = PublicKeys(ss)
         PROVE  SameScripts(Expand(artifact.policy), V.descriptor)
    <3>1. script = "Tr" /\ internal # <<>> /\ internal[1] = cc
      BY <2>2, <2>11 DEF ScriptType
    <3>2. KeysOf(g) = KeysOf(f)
      <4>1. f = sorted_taproot_keys(ss)
        BY <3>1 DEF f, Members
      <4> QED BY <2>2, <2>5, <2>11, <4>1, TaprootKeysUnique DEF g
    <3>3. ASSUME NEW x \in Address PROVE At(Expand(artifact.policy), x) = At(V.descriptor, x)
      BY <2>8, <2>9, <3>1, <3>2, ChildrenKeys
    <3> QED BY <3>3 DEF SameScripts
  <2> QED BY <2>2, <2>4, <2>10, <2>11
<1>2. VaultInv => PolicyIsTheVault
  BY <1>1 DEF PolicyIsTheVault
<1> QED BY <1>2, VaultInvariant, PTL

----------------------------------------------------------------------------
(* Read-backs                                                              *)

\* The key list of a descriptor, element by element.
LEMMA KeyListIs ==
    ASSUME NEW f \in Seq(Signer), NEW w
    PROVE  LET kl == KeyList(f, w)
           IN  /\ kl \in Seq(ToSet(kl)) /\ Len(kl) = Len(f)
               /\ \A k \in 1..Len(f) : kl[k] \in ToSet(kl) /\ kl[k].key = f[k].key
               /\ \A r \in ToSet(kl) :
                    r = [fp |-> r.fp, path |-> r.path, key |-> r.key, wild |-> w]
               /\ \A r \in ToSet(kl) : r.wild = w
<1> DEFINE kl == KeyList(f, w)
           row(k) == [fp |-> f[k].fp, path |-> f[k].path, key |-> f[k].key, wild |-> w]
<1>1. Len(f) \in Nat /\ DOMAIN f = 1..Len(f)
  OBVIOUS
<1>2. DOMAIN kl = 1..Len(f) /\ \A k \in 1..Len(f) : kl[k] = row(k)
  BY <1>1 DEF KeyList
<1>3. kl = [k \in 1..Len(f) |-> kl[k]]
  BY <1>1, <1>2 DEF KeyList
<1> HIDE DEF kl
<1>4. \A k \in 1..Len(f) : kl[k] \in ToSet(kl)
  BY <1>2 DEF ToSet
<1>5. kl \in Seq(ToSet(kl)) /\ Len(kl) = Len(f)
  BY <1>1, <1>3, <1>4
<1>6. ASSUME NEW k \in 1..Len(f) PROVE kl[k].key = f[k].key
  <2>1. kl[k] = row(k)
    BY <1>2
  <2> QED BY ONLY <2>1
<1>7. ASSUME NEW r \in ToSet(kl)
      PROVE  /\ r = [fp |-> r.fp, path |-> r.path, key |-> r.key, wild |-> w]
             /\ r.wild = w
  <2>1. PICK k \in 1..Len(f) : r = kl[k]
    BY <1>2 DEF ToSet
  <2>2. r = row(k)
    BY <1>2, <2>1
  <2> QED BY ONLY <2>2
<1> QED BY <1>4, <1>5, <1>6, <1>7 DEF kl

\* Descriptors with the same keys have the same child keys.
LEMMA SameKeysSameBag ==
    ASSUME NEW f \in Seq(Signer), NEW g \in Seq(Signer),
           IsInjective(KeyList(f, "both")), IsInjective(KeyList(g, "both")),
           ToSet(KeyList(f, "both")) = ToSet(KeyList(g, "both")), NEW chain, NEW index
    PROVE  ToBag(Children(f, "both", chain, index)) = ToBag(Children(g, "both", chain, index))
<1> DEFINE S == ToSet(KeyList(f, "both"))
           v == [r \in S |-> <<r.key, chain, index>>]
<1>1. ASSUME NEW l \in Seq(Signer), ToSet(KeyList(l, "both")) = S
      PROVE  /\ KeyList(l, "both") \in Seq(S)
             /\ Mapped(v, KeyList(l, "both")) = Children(l, "both", chain, index)
  <2> DEFINE kl == KeyList(l, "both")
  <2>1. /\ kl \in Seq(ToSet(kl)) /\ Len(kl) = Len(l)
        /\ \A k \in 1..Len(l) : kl[k] \in ToSet(kl) /\ kl[k].key = l[k].key
    BY KeyListIs
  <2> HIDE DEF kl, S
  <2>3. \A k \in 1..Len(l) : v[kl[k]] = <<l[k].key, chain, index>>
    BY <1>1, <2>1 DEF kl
  <2>4. DOMAIN l = 1..Len(l)
    OBVIOUS
  <2>5. Children(l, "both", chain, index) = [k \in 1..Len(l) |-> <<l[k].key, chain, index>>]
    BY <2>4, ChildIs DEF Children
  <2> HIDE DEF v
  <2>6. Mapped(v, kl) = Children(l, "both", chain, index)
    BY <2>1, <2>3, <2>5 DEF Mapped
  <2> QED BY <1>1, <2>1, <2>6 DEF kl
<1>2. /\ KeyList(f, "both") \in Seq(S) /\ KeyList(g, "both") \in Seq(S)
      /\ Mapped(v, KeyList(f, "both")) = Children(f, "both", chain, index)
      /\ Mapped(v, KeyList(g, "both")) = Children(g, "both", chain, index)
  BY <1>1
<1> HIDE DEF v
<1>3. ToBag(Mapped(v, KeyList(f, "both"))) = ToBag(Mapped(v, KeyList(g, "both")))
  BY <1>2, SameBag
<1> QED BY <1>2, <1>3

\* Keys with the same wildcard are told apart by their origins.
LEMMA SameOrigins ==
    ASSUME NEW f \in Seq(Signer), NEW g \in Seq(Signer), NEW w,
           {<<k.fp, k.path, k.key>> : k \in ToSet(KeyList(f, w))}
                = {<<k.fp, k.path, k.key>> : k \in ToSet(KeyList(g, w))}
    PROVE  ToSet(KeyList(f, w)) = ToSet(KeyList(g, w))
<1> DEFINE F == ToSet(KeyList(f, w))
           G == ToSet(KeyList(g, w))
<1>2. /\ \A r \in F : r = [fp |-> r.fp, path |-> r.path, key |-> r.key, wild |-> w]
      /\ \A r \in G : r = [fp |-> r.fp, path |-> r.path, key |-> r.key, wild |-> w]
  BY KeyListIs
<1>o. {<<k.fp, k.path, k.key>> : k \in F} = {<<k.fp, k.path, k.key>> : k \in G}
  OBVIOUS
<1> HIDE DEF F, G
<1>3. ASSUME NEW A, NEW B, NEW r \in A,
             {<<k.fp, k.path, k.key>> : k \in A} = {<<k.fp, k.path, k.key>> : k \in B},
             \A q \in A : q = [fp |-> q.fp, path |-> q.path, key |-> q.key, wild |-> w],
             \A q \in B : q = [fp |-> q.fp, path |-> q.path, key |-> q.key, wild |-> w]
      PROVE  r \in B
  <2>0. <<r.fp, r.path, r.key>> \in {<<k.fp, k.path, k.key>> : k \in B}
    BY <1>3, Zenon
  <2>1. PICK q \in B : <<r.fp, r.path, r.key>> = <<q.fp, q.path, q.key>>
    BY <2>0, Zenon
  <2>2. r.fp = q.fp /\ r.path = q.path /\ r.key = q.key
    BY ONLY <2>1
  <2>3. r = q
    BY <1>3, <2>2
  <2> QED BY <2>3
<1>4. F \subseteq G
  BY <1>2, <1>3, <1>o
<1>5. G \subseteq F
  BY <1>2, <1>3, <1>o
<1> QED BY <1>4, <1>5 DEF F, G

\* A descriptor a device shows, in closed form.
LEMMA CandidateIs ==
    ASSUME NEW m, NEW net, NEW mode \in KeyMode, NEW script, NEW ss, NEW multipath \in BOOLEAN
    PROVE  LET b == Builder(m, net, mode, script, <<>>)
               candidate == IF multipath THEN to_multipath_string(Build(b, ss))
                                         ELSE Build(b, ss)
           IN  \E w \in {"external", "fixed", "both"} :
                    candidate = Desc(script, m, Members(script, ss), w,
                                     InternalOf(script, net, <<>>, "external"))
<1> DEFINE b == Builder(m, net, mode, script, <<>>)
<1>1. /\ Build(b, ss) = Desc(script, m, Members(script, ss), Wild(mode),
                             InternalOf(script, net, <<>>, "external"))
      /\ Wild(mode) \in {"external", "fixed"}
  BY BuildIs DEF Wild
<1>2. to_multipath_string(Build(b, ss))
        = Desc(script, m, Members(script, ss), Lifted(Wild(mode)),
               InternalOf(script, net, <<>>, "both"))
  BY <1>1, LiftIs
<1>3. InternalOf(script, net, <<>>, "both") = InternalOf(script, net, <<>>, "external")
  BY DEF InternalOf
<1>4. Lifted(Wild(mode)) \in {"external", "fixed", "both"}
  BY <1>1 DEF Lifted
<1> HIDE DEF b
<1>5. CASE multipath
  BY <1>2, <1>3, <1>4, <1>5 DEF b
<1>6. CASE ~multipath
  BY <1>1, <1>6 DEF b
<1> QED BY <1>5, <1>6

\* ensure_descriptor_string_matches: of all the descriptors that rosters build, a
\* P2WSH vault accepts exactly those with its addresses and its key origins, and
\* a taproot vault none.
THEOREM ReadBackExactHolds == Spec => []ReadBackExact
<1>1. ASSUME VaultInv, artifact.kind = "readback"
      PROVE  reply = "Ok" <=> /\ V.descriptor.script = "Wsh"
                              /\ SameScripts(V.descriptor, artifact.candidate)
                              /\ Origins(V.descriptor) = Origins(artifact.candidate)
  <2>0. vault # <<>>
    BY <1>1, NoArtifactKind DEF VaultInv, MintInv
  <2>1. PICK m, net, script, internal, ss : IsVault(m, net, script, internal, ss)
    BY <1>1, <2>0, VaultIs
  <2>2. PICK tt \in Rosters, mm \in 1..MaxThreshold, mode \in KeyMode,
             shown \in ScriptType, multipath \in BOOLEAN :
            LET b == Builder(mm, V.builder.network, mode, shown, <<>>)
            IN  /\ BuildError(b, tt) = "Ok"
                /\ artifact.candidate = IF multipath THEN to_multipath_string(Build(b, tt))
                                                     ELSE Build(b, tt)
                /\ reply = ensure_descriptors_match(V.descriptor, artifact.candidate)
    BY <1>1 DEF VaultInv, ReadBackInv
  <2> DEFINE f == Members(script, ss)
             g == Members(shown, tt)
             own == InternalOf(script, net, internal, "both")
             given == InternalOf(shown, V.builder.network, <<>>, "external")
  <2>3. PICK w \in {"external", "fixed", "both"} :
            artifact.candidate = Desc(shown, mm, g, w, given)
    BY <2>2, CandidateIs
  <2>4. tt \in Seq(Signer) /\ IsInjective(KeyList(g, "both")) /\ DistinctIds(tt)
    BY <2>2, VaultAssumption, BuildOk
  <2>5. g \in Seq(Signer)
    BY <2>4, MembersAre
  <2>6. f \in Seq(Signer) /\ 1 \in DOMAIN f /\ IsInjective(KeyList(f, "both"))
    BY <2>1, VaultMembers DEF IsVault
  <2>7. V.descriptor = Desc(script, m, f, "both", own) /\ (script = "Wsh" => internal = <<>>)
    BY <2>1 DEF IsVault
  <2>8. script = "Wsh" => own = <<>>
    BY DEF InternalOf
  <2>9. shown = "Wsh" => given = <<>>
    BY DEF InternalOf
  <2> HIDE DEF f, g, own, given
  <2>10. /\ V.descriptor.script = script /\ V.descriptor.threshold = m
         /\ V.descriptor.keys = KeyList(f, "both")
         /\ artifact.candidate.script = shown /\ artifact.candidate.threshold = mm
         /\ artifact.candidate.keys = KeyList(g, w)
    BY <2>3, <2>7 DEF Desc
  <2>11. reply = "Ok" <=> /\ script = "Wsh" /\ shown = "Wsh" /\ m = mm
                          /\ ToSet(KeyList(f, "both")) = ToSet(KeyList(g, w))
    <3> DEFINE F == ToSet(KeyList(f, "both"))
               G == ToSet(KeyList(g, w))
    <3>1. /\ multisig_policy(V.descriptor) = [threshold |-> m, keys |-> F]
          /\ multisig_policy(artifact.candidate) = [threshold |-> mm, keys |-> G]
      BY <2>10 DEF multisig_policy
    <3> HIDE DEF F, G
    <3>2. multisig_policy(V.descriptor) = multisig_policy(artifact.candidate) <=> m = mm /\ F = G
      <4> DEFINE p == [threshold |-> m, keys |-> F]
                 q == [threshold |-> mm, keys |-> G]
      <4>1. p.threshold = m /\ p.keys = F /\ q.threshold = mm /\ q.keys = G
        OBVIOUS
      <4>2. p = q <=> m = mm /\ F = G
        <5> HIDE DEF p, q
        <5>1. p = q => m = mm /\ F = G
          BY <4>1
        <5> QED BY <5>1 DEF p, q
      <4> QED BY <3>1, <4>2
    <3>3. reply = ensure_descriptors_match(V.descriptor, artifact.candidate)
      BY <2>2
    <3> QED BY <2>10, <3>2, <3>3 DEF ensure_descriptors_match, F, G
  <2>12. ASSUME reply = "Ok"
         PROVE  /\ script = "Wsh" /\ SameScripts(V.descriptor, artifact.candidate)
                /\ Origins(V.descriptor) = Origins(artifact.candidate)
    <3>1. /\ script = "Wsh" /\ shown = "Wsh" /\ m = mm
          /\ ToSet(KeyList(f, "both")) = ToSet(KeyList(g, w))
      BY <2>11, <2>12
    <3>2. w = "both"
      <4> DEFINE r == KeyList(f, "both")[1]
      <4>1. 1 \in 1..Len(f)
        BY <2>6
      <4>2. r \in ToSet(KeyList(f, "both"))
        BY <2>6, <4>1, KeyListIs
      <4>3. r.wild = "both" /\ r.wild = w
        BY <2>5, <2>6, <3>1, <4>2, KeyListIs
      <4> QED BY <4>3
    <3>3. ASSUME NEW x \in Address PROVE At(V.descriptor, x) = At(artifact.candidate, x)
      <4>1. ToBag(Children(f, "both", x[1], x[2])) = ToBag(Children(g, "both", x[1], x[2]))
        BY <2>4, <2>5, <2>6, <3>1, <3>2, SameKeysSameBag DEF g
      <4>2. ScriptAt(Desc("Wsh", m, f, "both", <<>>), x[1], x[2])
                = ScriptAt(Desc("Wsh", m, g, "both", <<>>), x[1], x[2])
        BY <4>1, SameScript
      <4> QED BY <2>3, <2>7, <2>8, <2>9, <3>1, <3>2, <4>2 DEF At
    <3>4. Origins(V.descriptor) = Origins(artifact.candidate)
      BY <2>10, <3>1 DEF Origins
    <3> QED BY <3>1, <3>3, <3>4 DEF SameScripts
  <2>13. ASSUME script = "Wsh", SameScripts(V.descriptor, artifact.candidate),
                Origins(V.descriptor) = Origins(artifact.candidate)
         PROVE  reply = "Ok"
    <3> DEFINE x == <<1, 1>>
    <3>1. x \in Address
      BY VaultAssumption DEF Address, Chain
    <3>2. At(V.descriptor, x) = At(artifact.candidate, x)
      BY <2>13, <3>1 DEF SameScripts
    <3>3. ScriptAt(Desc(script, m, f, "both", own), 1, 1)
            = ScriptAt(Desc(shown, mm, g, w, given), 1, 1)
      BY <2>3, <2>7, <3>2 DEF At
    <3>4. script = shown /\ m = mm
      BY <3>3, SameScript
    <3>5. PICK j \in DOMAIN g : Child(f[1].key, "both", 1, 1) = Child(g[j].key, w, 1, 1)
      BY <2>6, <3>3, SameChildren
    <3>6. w = "both"
      <4>1. Child(f[1].key, "both", 1, 1) = <<f[1].key, 1, 1>>
        BY ChildIs
      <4>2. CASE w = "external"
        <5>1. <<f[1].key, 1, 1>> = <<g[j].key, 0, 1>>
          BY <3>5, <4>1, <4>2, ChildIs
        <5> QED BY ONLY <5>1
      <4>3. CASE w = "fixed"
        <5>1. <<f[1].key, 1, 1>> = <<g[j].key>>
          BY <3>5, <4>1, <4>3, ChildIs
        <5> QED BY ONLY <5>1
      <4> QED BY <4>2, <4>3
    <3>7. ToSet(KeyList(f, "both")) = ToSet(KeyList(g, w))
      <4>1. {<<k.fp, k.path, k.key>> : k \in ToSet(KeyList(f, "both"))}
                = {<<k.fp, k.path, k.key>> : k \in ToSet(KeyList(g, "both"))}
        BY <2>10, <2>13, <3>6 DEF Origins
      <4> QED BY <2>5, <2>6, <3>6, <4>1, SameOrigins
    <3> QED BY <2>11, <2>13, <3>4, <3>7
  <2> QED BY <2>10, <2>12, <2>13
<1>2. VaultInv => ReadBackExact
  BY <1>1 DEF ReadBackExact
<1> QED BY <1>2, VaultInvariant, PTL

----------------------------------------------------------------------------
(* Recovered wallets                                                       *)

\* A template's descriptor in closed form.
LEMMA RecoveredIs ==
    ASSUME NEW m, NEW net, NEW script, NEW internal, NEW ss,
           IsVault(m, net, script, internal, ss), NEW mode, NEW type
    PROVE  Recovered(mode, type)
             = Desc(type, m, Members(type, ss), Wild(mode), InternalOf(type, net, <<>>, "external"))
BY BuildIs DEF IsVault, Recovered

\* An accepted import was not made into the wallet that is printed and rescans
\* nothing.  It watches receive addresses of a vault of the same script type,
\* among them all that were handed out exactly when the last index was recorded,
\* or the default range or the keypool reaches it; and no address of a vault
\* whose internal key has a chain code.
THEOREM RecoveryWatchesHolds == Spec => []RecoveryWatches
<1>1. ASSUME VaultInv, AddressesDistinct, artifact.kind = "imported", reply = "Ok",
             artifact.script = V.builder.script
      PROVE  IF V.builder.internal = <<>>
             THEN /\ artifact.watches \subseteq Receive(MaxIndex + DefaultRange + KeyPool)
                  /\ Receive(artifact.handed[0] - 1) \subseteq artifact.watches
                        <=> \/ artifact.recorded
                            \/ artifact.handed[0] <= DefaultRange + 1
                            \/ artifact.handed[0] <= KeyPool
             ELSE \A x \in Address : At(V.descriptor, x) \notin artifact.watches
  <2>0. vault # <<>>
    BY <1>1, NoArtifactKind DEF VaultInv, MintInv
  <2>1. PICK m, net, script, internal, ss : IsVault(m, net, script, internal, ss)
    BY <1>1, <2>0, VaultIs
  <2> DEFINE mode == artifact.mode
             type == artifact.script
             h == artifact.handed
             f == Members(type, ss)
             raw == InternalOf(type, net, <<>>, "external")
             d == Desc(type, m, f, Wild(mode), raw)
             own == InternalOf(type, net, internal, "both")
             v == Desc(type, m, f, "both", own)
  <2>2. Recovered(mode, type) = d
    BY <2>1, RecoveredIs
  <2>3. /\ IsRanged(d)
        /\ \E n \in Nat :
            /\ Ends(n, artifact.recorded, h)
            /\ artifact.watches = {ScriptAt(d, 0, i) : i \in 0..LastWatched(n)}
    BY <1>1, <2>2 DEF VaultInv, ImportInv
  <2>4. PICK n \in Nat :
            /\ Ends(n, artifact.recorded, h)
            /\ artifact.watches = {ScriptAt(d, 0, i) : i \in 0..LastWatched(n)}
    BY <2>3
  <2> DEFINE last == LastWatched(n)
  <2>5. 1 \in DOMAIN f
    <3>1. Len(ss) \in Nat \ {0} /\ DOMAIN f = 1..Len(ss)
      BY <2>1, MembersAre DEF IsVault
    <3> HIDE DEF f
    <3> QED BY <3>1
  <2>6. Wild(mode) = "external"
    <3>1. d.keys = KeyList(f, Wild(mode))
      BY DEF Desc
    <3> HIDE DEF d, f
    <3>2. 1 \in DOMAIN d.keys /\ d.keys[1].wild = Wild(mode)
      BY <2>5, <3>1 DEF KeyList
    <3> QED BY <2>3, <3>2 DEF IsRanged, Wild
  <2>7. /\ V.descriptor = v /\ V.builder.internal = internal
        /\ type = "Wsh" => internal = <<>>
    BY <1>1, <2>1 DEF IsVault
  <2>8. /\ last \in Nat /\ h[0] \in 0..MaxIndex /\ MaxIndex \in Nat
        /\ DefaultRange \in Nat /\ KeyPool \in Nat \ {0}
        /\ last <= MaxIndex + DefaultRange + KeyPool
        /\ h[0] - 1 <= last <=> \/ artifact.recorded
                                \/ h[0] <= DefaultRange + 1
                                \/ h[0] <= KeyPool
    <3>1. /\ n \in Nat /\ h[0] \in 0..MaxIndex
          /\ artifact.recorded => n = h[0] - 1
          /\ ~artifact.recorded => n = DefaultRange
      BY <2>4 DEF Ends
    <3> HIDE DEF h
    <3> QED BY <3>1, VaultAssumption, RecoveryAssumption DEF LastWatched
  <2>w. artifact.watches = {ScriptAt(d, 0, i) : i \in 0..last}
    BY <2>4
  <2> HIDE DEF last
  <2>9. CASE internal = <<>>
    <3>1. own = raw
      BY <2>9 DEF InternalOf
    <3> HIDE DEF own, raw, f, type, mode
    <3>2. ASSUME NEW i PROVE ScriptAt(d, 0, i) = At(V.descriptor, <<0, i>>)
      <4>1. Children(f, "external", 0, i) = Children(f, "both", 0, i)
        BY ChildIs DEF Children
      <4>2. InternalAt(raw, 0, i) = InternalAt(own, 0, i)
        BY <3>1
      <4>3. ScriptAt(d, 0, i) = ScriptAt(v, 0, i)
        BY <2>6, <4>1, <4>2, SameScript
      <4> QED BY <2>7, <4>3 DEF At
    <3> HIDE DEF d, v
    <3> DEFINE A(i) == At(V.descriptor, <<0, i>>)
               k == h[0] - 1
               most == MaxIndex + DefaultRange + KeyPool
    <3>3. artifact.watches = {A(i) : i \in 0..last}
      BY <2>w, <3>2
    <3>4. \A i \in 0..MaxIndex, j \in 0..MaxIndex : A(i) = A(j) => i = j
      <4> SUFFICES ASSUME NEW i \in 0..MaxIndex, NEW j \in 0..MaxIndex, A(i) = A(j)
                   PROVE  i = j
        OBVIOUS
      <4>1. <<0, i>> \in Address /\ <<0, j>> \in Address
        BY DEF Address, Chain
      <4>2. <<0, i>> = <<0, j>>
        BY <1>1, <2>0, <4>1 DEF AddressesDistinct
      <4> QED BY <4>2
    <3>5. k \in Int /\ k <= MaxIndex /\ last \in Nat /\ most \in Nat /\ last <= most
          /\ k >= -1 /\ MaxIndex \in Nat
      BY <2>8
    <3>6. h[0] - 1 = k
      OBVIOUS
    <3>r. \A j : Receive(j) = {A(i) : i \in 0..j}
      BY DEF Receive
    <3> HIDE DEF A, k, most, h
    <3>7. {A(i) : i \in 0..last} \subseteq {A(i) : i \in 0..most}
      <4>1. \A i \in 0..last : i \in 0..most
        BY <3>5
      <4> QED BY <4>1
    <3>8. ASSUME k <= last PROVE {A(i) : i \in 0..k} \subseteq {A(i) : i \in 0..last}
      <4>1. \A i \in 0..k : i \in 0..last
        BY <3>5, <3>8
      <4> QED BY <4>1
    <3>9. ASSUME {A(i) : i \in 0..k} \subseteq {A(i) : i \in 0..last} PROVE k <= last
      <4> SUFFICES ASSUME k > last PROVE FALSE
        BY <3>5
      <4>1. k \in 0..k
        BY <3>5
      <4>2. PICK i \in 0..last : A(k) = A(i)
        BY <3>9, <4>1
      <4>3. k \in 0..MaxIndex /\ i \in 0..MaxIndex /\ i # k
        BY <3>5
      <4> QED BY <3>4, <4>2, <4>3
    <3>10. artifact.watches \subseteq Receive(most)
      BY <3>3, <3>7, <3>r
    <3>11. Receive(k) \subseteq artifact.watches <=> k <= last
      BY <3>3, <3>8, <3>9, <3>r
    <3> HIDE DEF Receive
    <3> QED BY <2>7, <2>8, <2>9, <3>6, <3>10, <3>11 DEF most, h
  <2>10. CASE internal # <<>>
    <3>1. type # "Wsh"
      BY <2>7, <2>10
    <3>2. ASSUME NEW x \in Address, At(V.descriptor, x) \in artifact.watches PROVE FALSE
      <4>1. PICK i \in 0..last : At(V.descriptor, x) = ScriptAt(d, 0, i)
        BY <2>w, <3>2
      <4>2. ScriptAt(v, x[1], x[2]) = ScriptAt(d, 0, i)
        BY <2>7, <4>1 DEF At
      <4>3. InternalAt(own, x[1], x[2]) = <<<<NetworkKind(net), internal[1]>>, x[1], x[2]>>
        BY <2>10, <3>1, InternalAtIs
      <4>4. InternalAt(raw, 0, i) = <<"raw">>
        <5>1. raw = <<"raw">>
          BY <3>1 DEF InternalOf
        <5> HIDE DEF raw
        <5> QED BY <5>1 DEF InternalAt
      <4> HIDE DEF own, raw, f, type, mode
      <4>5. InternalAt(own, x[1], x[2]) = InternalAt(raw, 0, i)
        BY <4>2, SameScript
      <4>6. <<<<NetworkKind(net), internal[1]>>, x[1], x[2]>> = <<"raw">>
        BY <4>3, <4>4, <4>5
      <4> QED BY ONLY <4>6
    <3> QED BY <2>7, <2>10, <3>2
  <2> QED BY <2>9, <2>10
<1>2. ASSUME VaultInv, artifact.kind = "imported", reply = "Ok"
      PROVE  ~artifact.printed /\ artifact.rescans = {}
  BY <1>2 DEF VaultInv, ImportInv
<1>3. VaultInv /\ AddressesDistinct => RecoveryWatches
  BY <1>1, <1>2 DEF RecoveryWatches
<1> QED BY <1>3, VaultInvariant, AddressesDistinctHolds, PTL
=============================================================================
