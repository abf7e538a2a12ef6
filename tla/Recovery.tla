------------------------------ MODULE Recovery ------------------------------
(***************************************************************************)
(* recovery.rs: a RecoveryTemplate, what its checksum covers, and what its *)
(* instructions make of it in the software they are written for.           *)
(*                                                                         *)
(* The wording is left out.  Of the instructions two kinds are told apart: *)
(* the two calls for Bitcoin Core, and the descriptor to be pasted into    *)
(* any other software.  An Option is <<>> or <<value>>.                    *)
(***************************************************************************)
EXTENDS Federation

CONSTANTS
    DefaultRange,   \* the range that is printed when no index was recorded: 20
    KeyPool         \* Bitcoin Core's keypool: 1000 by default

ASSUME RecoveryAssumption == DefaultRange \in Nat /\ KeyPool \in Nat \ {0}

\* The targets of RecoveryTemplateBuilder::new, by kind.
Softwares == <<"BitcoinCore", "other">>

\* Mutant: the end of the range is taken to be exclusive.
bitcoin_core_range_exclusive(receive) ==
    IF receive = <<>> THEN DefaultRange ELSE receive[1] - 1

\* range is [0, last_receive_index].
bitcoin_core_range(receive) == IF receive = <<>> THEN DefaultRange ELSE receive[1]

\* For Bitcoin Core: createwallet "emvault-recovery" false ..., whose second
\* argument is disable_private_keys, and an importdescriptors payload.
generate_instructions(software, descriptor, receive) ==
    IF software = "BitcoinCore"
    THEN [software |-> software, disable_private_keys |-> FALSE,
          desc |-> descriptor, active |-> TRUE, internal |-> FALSE,
          timestamp |-> "now", range |-> bitcoin_core_range(receive)]
    ELSE [software |-> software, desc |-> descriptor]

\* Mutant: the scanning hints are left out.
checksum_without_hints(body) == [body EXCEPT !.receive = <<>>, !.change = <<>>]

\* SHA-256 over the canonical JSON of the content, taken to be injective.
compute_checksum(body) == body

\* RecoveryTemplateBuilder::build.  The body is what ChecksumContent lists.
RecoveryTemplate(f, receive, change, time) ==
    LET body == [descriptor |-> f.descriptor, threshold |-> f.threshold,
                 total |-> Len(f.signers), network |-> f.network,
                 signer_info |-> [k \in DOMAIN f.signers |->
                    [id |-> f.signers[k].id, fp |-> f.signers[k].fp,
                     path |-> f.signers[k].path]],
                 instructions |-> [k \in DOMAIN Softwares |->
                    generate_instructions(Softwares[k], f.descriptor, receive)],
                 receive |-> receive, change |-> change]
    IN  [body |-> body, checksum |-> compute_checksum(body), generated_at |-> time]

\* RecoveryTemplate::verify
template_verify(t) ==
    IF compute_checksum(t.body) # t.checksum THEN "ChecksumMismatch"
    ELSE IF t.body.descriptor = <<>> THEN "InvalidDescriptor"
    ELSE "Ok"

----------------------------------------------------------------------------
(* Bitcoin Core                                                            *)

IsRanged(d) == \A k \in DOMAIN d.keys : d.keys[k].wild # "fixed"

\* importdescriptors refuses a descriptor without private keys, which these all
\* are, in a wallet that has private keys enabled; and it refuses "active" and
\* "range" for a descriptor without a wildcard.
import_error(call, disable_private_keys) ==
    IF disable_private_keys /\ IsRanged(call.desc[1]) THEN "Ok" ELSE "Rejected"

\* The scripts it then watches: /0/* from 0 to the end of the range, which the
\* keypool of an active descriptor extends.
import_watches(call) ==
    LET last == IF call.range >= KeyPool THEN call.range ELSE KeyPool - 1
    IN  {ScriptAt(call.desc[1], 0, i) : i \in 0..last}

\* Those whose past it looks up: "now" bypasses the rescan, but for the last
\* two hours, which are no past here.
import_rescans(call) == IF call.timestamp = "now" THEN {} ELSE import_watches(call)
=============================================================================
