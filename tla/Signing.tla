------------------------------ MODULE Signing ------------------------------
(***************************************************************************)
(* psbt.rs: signing one spend, in one of its two ways.                     *)
(*                                                                         *)
(* A SigningCoordinator session: the coordinator owns the PSBT;            *)
(* software signers (HSMs) sign it in place through BDK, external signers  *)
(* (hardware wallets) get a copy by way of the browser, sign it at their   *)
(* leisure, and copies come back late, more than once, in any order, under *)
(* any signer's name and carrying other signers' signatures.               *)
(*                                                                         *)
(* The synchronous primitives: the application keeps a base PSBT itself,   *)
(* merges every copy with combine_psbt, and tries finalize_and_extract,    *)
(* which counts nothing and takes a clone, so it may be tried again.       *)
(*                                                                         *)
(* A PSBT is the set of <<signer, input>> pairs it holds a signature for.  *)
(* In a P2WSH session those are partial_sigs, in a taproot session         *)
(* tap_script_sigs.  Every signer's key is in the derivation map of every  *)
(* input, and fingerprints are distinct, as the signer ids derived from    *)
(* them are.  wallet.sign runs with try_finalize: false, as in the apps.   *)
(***************************************************************************)
EXTENDS Integers, FiniteSets

CONSTANTS
    Signer,      \* the federation's signers
    Software,    \* those whose signer_type is Software
    Threshold,   \* federation.threshold()
    Input,       \* the inputs of the unsigned transaction
    Taproot,     \* a taproot descriptor instead of wsh?
    Stranger,    \* an id that is not in the federation
    Foreign,     \* a PSBT over another unsigned transaction
    MaxCopies    \* bound: signed copies made by devices

ASSUME SigningAssumption ==
    /\ IsFiniteSet(Signer) /\ Software \subseteq Signer
    /\ Threshold \in 1..Cardinality(Signer)
    /\ Input # {}
    /\ Taproot \in BOOLEAN
    /\ Stranger \notin Signer
    /\ \A p \in SUBSET (Signer \X Input) : p # Foreign
    /\ MaxCopies \in Nat

External == Signer \ Software

Psbt == SUBSET (Signer \X Input)

VARIABLES
    phase,    \* "new"; "open" (a coordinator) or "base" (a base PSBT);
              \* "finalized", or "lost" (finalize took self)
    psbt,     \* the coordinator's PSBT, or the application's base
    signed,   \* the coordinator's set of signers that have signed
    copies,   \* the PSBTs outside: requests sent and copies devices signed
    made,     \* copies made by devices so far
    reply     \* the last call: its kind and result

vars == <<phase, psbt, signed, copies, made, reply>>

----------------------------------------------------------------------------
\* The signers whose signatures a PSBT really holds.
Contributors(p) == {s \in Signer : \E i \in Input : <<s, i>> \in p}

SignersOf(p, i) == {s \in Signer : <<s, i>> \in p}

\* UnsignedPsbt::new looks at partial_sigs only.
AcceptedAsUnsigned(p) == Taproot \/ p = {}

\* Mutant: a signer counts once every input carries its signature.
signers_of_all_inputs(p) == {s \in Signer : \A i \in Input : <<s, i>> \in p}

\* signers_with_sigs: by public key for partial_sigs; for taproot, every key
\* origin of an input that has any signature at all.
signers_with_sigs(p) == IF Taproot /\ p # {} THEN Signer ELSE Contributors(p)

signatures_collected == Cardinality(signed)

\* Mutant: off by one.
nearly_complete == signatures_collected + 1 >= Threshold

is_complete == signatures_collected >= Threshold

\* BDK's finalizer: every input has threshold signatures.  It and extract_tx
\* are not taken to fail on a PSBT that has them.
Finalizable(p) == \A i \in Input : Cardinality(SignersOf(p, i)) >= Threshold

\* Mutant: any new signature is credited to the signer named.
FoundAnyNew(s, merged) == merged # psbt

\* receive_signature: a partial_sigs key of the signer's that was not there.
FoundNew(s, merged) ==
    ~Taproot /\ \E i \in Input : <<s, i>> \in merged \ psbt

Reply(call, result) == reply' = [call |-> call, result |-> result]

Init ==
    /\ phase = "new"
    /\ psbt = {} /\ signed = {} /\ copies = {} /\ made = 0
    /\ reply = [call |-> "none", result |-> "Ok"]

----------------------------------------------------------------------------
\* UnsignedPsbt::new and SigningCoordinator::new.  The application offers the
\* PSBT build_spend gave it, or by mistake one a software signer has signed.
Open ==
    /\ phase = "new"
    /\ \E s \in SUBSET Software :
        LET p == s \X Input
        IN  IF AcceptedAsUnsigned(p)
            THEN /\ phase' = "open" /\ psbt' = p /\ signed' = {}
                 /\ Reply("new", "Ok")
            ELSE /\ Reply("new", "UnexpectedSignatures")
                 /\ UNCHANGED <<phase, psbt, signed>>
    /\ UNCHANGED <<copies, made>>

\* build_spend without a coordinator: the base PSBT goes to the cosigners,
\* unless BDK cannot fund it.
Propose ==
    /\ phase = "new"
    /\ \/ phase' = "base" /\ copies' = {psbt} /\ Reply("build", "Ok")
       \/ Reply("build", "BuildFailed") /\ UNCHANGED <<phase, copies>>
    /\ UNCHANGED <<psbt, signed, made>>

\* request_signatures: BDK dispatches to the software signers, of which some
\* may add nothing; then one copy goes out for the external ones.
RequestSignatures ==
    /\ phase = "open"
    /\ \E answering \in SUBSET Software :
        psbt' = psbt \cup (answering \X Input)
    /\ signed' = signed \cup signers_with_sigs(psbt')
    /\ copies' = IF External = {} THEN copies ELSE copies \cup {psbt'}
    /\ Reply("request", "Ok")
    /\ UNCHANGED <<phase, made>>

\* A software signer fails: BDK has already written the signatures of those
\* before it, and request_signatures returns early.
RequestFails ==
    /\ phase = "open"
    /\ \E failing \in Software : \E answered \in SUBSET (Software \ {failing}) :
        psbt' = psbt \cup (answered \X Input)
    /\ Reply("request", "BdkSigner")
    /\ UNCHANGED <<phase, signed, copies, made>>

\* A device signs inputs of some copy it was handed, not always all of them.
DeviceSigns(s) ==
    /\ made < MaxCopies
    /\ \E p \in copies, inputs \in SUBSET Input \ {{}} :
        copies' = copies \cup {p \cup ({s} \X inputs)}
    /\ made' = made + 1
    /\ UNCHANGED <<phase, psbt, signed, reply>>

\* Mutant: an id outside the roster is not turned away.
ReceiveFromAnyone(s, p) ==
    /\ phase = "open" /\ p # Foreign
    /\ s \in Signer => FoundNew(s, psbt \cup p)
    /\ psbt' = psbt \cup p
    /\ signed' = signed \cup {s}
    /\ Reply("receive", "Ok")
    /\ UNCHANGED <<phase, copies, made>>

\* receive_signature for signer id s and returned PSBT p.  Left out: with equal
\* transactions, combine can still fail over global xpubs whose key sources
\* differ, and nothing changes.
ReceiveSignature(s, p) ==
    /\ phase = "open"
    /\ IF s \notin Signer
       THEN /\ Reply("receive", "UnknownSigner")
            /\ UNCHANGED <<psbt, signed>>
       ELSE IF p = Foreign
       THEN /\ Reply("receive", "DescriptorMismatch")
            /\ UNCHANGED <<psbt, signed>>
       ELSE IF FoundNew(s, psbt \cup p)
       THEN /\ psbt' = psbt \cup p
            /\ signed' = signed \cup {s}
            /\ Reply("receive", "Ok")
       ELSE /\ Reply("receive", "InvalidSignature")
            /\ UNCHANGED <<psbt, signed>>
    /\ UNCHANGED <<phase, copies, made>>

\* finalize takes the session by value: it ends whatever the outcome.
Finalize ==
    /\ phase = "open"
    /\ \/ /\ ~is_complete
          /\ phase' = "lost"
          /\ Reply("finalize", "InsufficientSignatures")
       \/ /\ is_complete /\ ~Finalizable(psbt)
          /\ phase' = "lost"
          /\ Reply("finalize", "FinalizationFailed")
       \/ /\ is_complete /\ Finalizable(psbt)
          /\ phase' = "finalized"
          /\ Reply("finalize", "Ok")
    /\ UNCHANGED <<psbt, signed, copies, made>>

\* combine_psbt: Psbt::combine takes everything p holds, whoever sent it.
CombinePsbt(p) ==
    /\ phase = "base"
    /\ IF p = Foreign
       THEN Reply("combine", "Bitcoin") /\ UNCHANGED psbt
       ELSE Reply("combine", "Ok") /\ psbt' = psbt \cup p
    /\ UNCHANGED <<phase, signed, copies, made>>

\* Mutant: the finalizer's Ok(false) is not told from Ok(true).
FinalizeAndExtractAny ==
    /\ phase = "base" /\ phase' = "finalized"
    /\ Reply("extract", "Ok")
    /\ UNCHANGED <<psbt, signed, copies, made>>

\* finalize_and_extract: BDK's finalizer decides, on a clone.
FinalizeAndExtract ==
    /\ phase = "base"
    /\ IF Finalizable(psbt)
       THEN phase' = "finalized" /\ Reply("extract", "Ok")
       ELSE phase' = "base" /\ Reply("extract", "ThresholdNotMet")
    /\ UNCHANGED <<psbt, signed, copies, made>>

Next ==
    \/ Open
    \/ Propose
    \/ RequestSignatures
    \/ RequestFails
    \/ \E s \in External : DeviceSigns(s)
    \/ \E s \in Signer \cup {Stranger} :
        \E p \in copies \cup {Foreign} : ReceiveSignature(s, p)
    \/ Finalize
    \/ \E p \in copies \cup {Foreign} : CombinePsbt(p)
    \/ FinalizeAndExtract

Spec == Init /\ [][Next]_vars

----------------------------------------------------------------------------
(* Properties                                                              *)

Result == {"Ok", "UnexpectedSignatures", "BdkSigner", "UnknownSigner",
           "DescriptorMismatch", "InvalidSignature", "InsufficientSignatures",
           "FinalizationFailed", "BuildFailed", "Bitcoin", "ThresholdNotMet"}

Call == {"none", "new", "build", "request", "receive", "finalize", "combine",
         "extract"}

ReplyType == [call : Call, result : Result]

\* Every variable has its type.
TypeOK ==
    /\ phase \in {"new", "open", "base", "finalized", "lost"}
    /\ psbt \in Psbt
    /\ signed \in SUBSET Signer
    /\ copies \in SUBSET Psbt
    /\ made \in 0..MaxCopies
    /\ reply \in ReplyType

\* signatures_collected counts "distinct signers [that] have contributed
\* signatures": whatever comes back, late, twice or under another signer's
\* name, nobody is counted whose signature the session's PSBT does not hold.
CountedHaveSigned == signed \subseteq Contributors(psbt)

\* request_signatures counts from the PSBT itself: right after it, everybody
\* who has contributed is counted, also those a failed dispatch or another
\* signer's copy brought in uncounted.
RequestCountsAll ==
    reply.call = "request" /\ reply.result = "Ok" => signed = Contributors(psbt)

\* is_complete, "whether the threshold has been met": a session that says so
\* can be finalized, so finalize never consumes it in vain.
CompleteIsFinalizable == is_complete => Finalizable(psbt)

\* The same for signers that sign whole transactions: as long as everybody who
\* has contributed has signed every input, a complete session can be
\* finalized, however the copies were merged and under whose name.
WholeIsFinalizable ==
    (\A s \in Contributors(psbt), i \in Input : <<s, i>> \in psbt)
        => CompleteIsFinalizable

\* The abstract session: its evidence is read off the PSBT.
Promise == INSTANCE SignatureQuorum WITH
    state <- CASE phase = "new" -> "idle"
               [] phase \in {"open", "base"} -> "collecting"
               [] phase = "finalized" -> "done"
               [] OTHER -> "abandoned",
    evidence <- [i \in Input |-> SignersOf(psbt, i)],
    counted <- signed,
    Enough <- {q \in SUBSET Signer : Cardinality(q) >= Threshold}

\* Both ways of signing keep the promise of SignatureQuorum: no call loses a
\* signature, uncounts a signer or counts one without evidence; a transaction
\* comes out only with a quorum on every input; and finalize throws away no
\* session that has its quorum and knows it.
ImplementsQuorum == Promise!Spec
============================================================================
