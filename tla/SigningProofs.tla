--------------------------- MODULE SigningProofs ---------------------------
(***************************************************************************)
(* What a SigningCoordinator session guarantees for every roster,          *)
(* threshold, set of inputs and number of copies in circulation.           *)
(***************************************************************************)
EXTENDS Signing, FiniteSetTheorems, TLAPS

\* A PSBT only ever gains signatures, and with them contributors.
LEMMA ContributorsGrow ==
    ASSUME NEW p, NEW q, p \subseteq q
    PROVE  Contributors(p) \subseteq Contributors(q)
BY DEF Contributors

\* signers_with_sigs names roster members only.
LEMMA ReadersType ==
    ASSUME NEW p PROVE signers_with_sigs(p) \subseteq Signer
BY DEF signers_with_sigs, Contributors

\* Every reply that an operation gives is a reply.
LEMMA ReplyIsTyped ==
    ASSUME NEW call \in Call, NEW result \in Result,
           Reply(call, result)
    PROVE  reply' \in ReplyType
BY DEF Reply, ReplyType

\* Every operation keeps every variable in its type.
LEMMA TypeStep == TypeOK /\ [Next]_vars => TypeOK'
<1> SUFFICES ASSUME TypeOK, [Next]_vars PROVE TypeOK'
  OBVIOUS
<1> USE SigningAssumption
<1>1. CASE Open
  <2>1. PICK s \in SUBSET Software :
            LET p == s \X Input
            IN  IF AcceptedAsUnsigned(p)
                THEN /\ phase' = "open" /\ psbt' = p /\ signed' = {}
                     /\ Reply("new", "Ok")
                ELSE /\ Reply("new", "UnexpectedSignatures")
                     /\ UNCHANGED <<phase, psbt, signed>>
    BY <1>1 DEF Open
  <2>2. s \X Input \in Psbt
    BY DEF Psbt
  <2>3. reply' \in ReplyType
    <3>1. Reply("new", "Ok") \/ Reply("new", "UnexpectedSignatures")
      BY <2>1
    <3> QED
      BY <3>1, ReplyIsTyped DEF Call, Result
  <2>4. phase' \in {"open", phase} /\ psbt' \in Psbt /\ signed' \in {{}, signed}
    BY <2>1, <2>2 DEF TypeOK
  <2> QED
    BY <1>1, <2>3, <2>4 DEF Open, TypeOK
<1>2. CASE RequestSignatures
  <2>1. psbt' \in Psbt
    BY <1>2 DEF RequestSignatures, TypeOK, Psbt
  <2>2. signed' \in SUBSET Signer
    BY <1>2, ReadersType DEF RequestSignatures, TypeOK
  <2>3. copies' \in SUBSET Psbt
    BY <1>2, <2>1 DEF RequestSignatures, TypeOK
  <2> QED
    BY <1>2, <2>1, <2>2, <2>3, ReplyIsTyped
    DEF RequestSignatures, TypeOK, Call, Result
<1>3. CASE RequestFails
  <2>1. psbt' \in Psbt
    BY <1>3 DEF RequestFails, TypeOK, Psbt
  <2> QED
    BY <1>3, <2>1, ReplyIsTyped DEF RequestFails, TypeOK, Call, Result
<1>4. ASSUME NEW s \in External, DeviceSigns(s) PROVE TypeOK'
  <2>1. copies' \in SUBSET Psbt
    BY <1>4 DEF DeviceSigns, External, TypeOK, Psbt
  <2>2. made' \in 0..MaxCopies
    BY <1>4 DEF DeviceSigns, TypeOK
  <2> QED
    BY <1>4, <2>1, <2>2 DEF DeviceSigns, TypeOK
<1>5. ASSUME NEW s \in Signer \cup {Stranger}, NEW p \in copies \cup {Foreign},
             ReceiveSignature(s, p)
      PROVE  TypeOK'
  <2>1. CASE s \notin Signer \/ p = Foreign
    <3>1. \/ Reply("receive", "UnknownSigner")
          \/ Reply("receive", "DescriptorMismatch")
      BY <1>5, <2>1 DEF ReceiveSignature
    <3>2. reply' \in ReplyType
      BY <3>1, ReplyIsTyped DEF Call, Result
    <3> QED
      BY <1>5, <2>1, <3>2 DEF ReceiveSignature, TypeOK
  <2>2. CASE s \in Signer /\ p # Foreign
    <3>1. psbt \cup p \in Psbt
      BY <1>5, <2>2 DEF TypeOK, Psbt
    <3>2. (s \in Contributors(p \ psbt)) \in BOOLEAN
      OBVIOUS
    <3>3. reply' \in ReplyType
      <4>1. \/ Reply("receive", "Ok")
            \/ Reply("receive", "InvalidSignature")
        BY <1>5, <2>2 DEF ReceiveSignature
      <4> QED
        BY <3>2, <4>1, ReplyIsTyped DEF Call, Result
    <3>4. psbt' \in Psbt /\ signed' \in SUBSET Signer
      BY <1>5, <2>2, <3>1 DEF ReceiveSignature, TypeOK
    <3> QED
      BY <1>5, <3>3, <3>4 DEF ReceiveSignature, TypeOK
  <2> QED
    BY <2>1, <2>2
<1>6. CASE Finalize
  <2>1. \E r \in {"InsufficientSignatures", "FinalizationFailed", "Ok"} :
            Reply("finalize", r)
    BY <1>6 DEF Finalize
  <2>2. reply' \in ReplyType
    BY <2>1, ReplyIsTyped DEF Call, Result
  <2>3. phase' \in {"lost", "finalized"}
    BY <1>6 DEF Finalize
  <2> QED
    BY <1>6, <2>2, <2>3 DEF Finalize, TypeOK
<1>7. CASE Propose
  <2>1. reply' \in ReplyType
    BY <1>7, ReplyIsTyped DEF Propose, Call, Result
  <2> QED
    BY <1>7, <2>1 DEF Propose, TypeOK
<1>8. ASSUME NEW p \in copies \cup {Foreign}, CombinePsbt(p) PROVE TypeOK'
  <2>1. Reply("combine", "Bitcoin") \/ Reply("combine", "Ok")
    BY <1>8 DEF CombinePsbt
  <2>2. reply' \in ReplyType
    BY <2>1, ReplyIsTyped DEF Call, Result
  <2>3. psbt' \in Psbt
    BY <1>8 DEF CombinePsbt, TypeOK, Psbt
  <2> QED
    BY <1>8, <2>2, <2>3 DEF CombinePsbt, TypeOK
<1>9. CASE FinalizeAndExtract
  <2>1. Reply("extract", "Ok") \/ Reply("extract", "ThresholdNotMet")
    BY <1>9 DEF FinalizeAndExtract
  <2>2. reply' \in ReplyType
    BY <2>1, ReplyIsTyped DEF Call, Result
  <2>3. phase' \in {"finalized", "base"}
    BY <1>9 DEF FinalizeAndExtract
  <2> QED
    BY <1>9, <2>2, <2>3 DEF FinalizeAndExtract, TypeOK
<1>10. CASE UNCHANGED vars
  BY <1>10 DEF vars, TypeOK
<1> QED
  BY <1>1, <1>2, <1>3, <1>4, <1>5, <1>6, <1>7, <1>8, <1>9, <1>10 DEF Next

\* Type correctness of the signing session, for every roster and bound.
THEOREM TypeCorrect == Spec => []TypeOK
<1>1. Init => TypeOK
  BY SigningAssumption DEF Init, TypeOK, Psbt, Call, Result, ReplyType
<1> QED
  BY <1>1, TypeStep, PTL DEF Spec

----------------------------------------------------------------------------
\* Nothing is in the PSBT, and nobody is counted, before the spend is opened.
Fresh == phase = "new" => psbt = {} /\ signed = {}

\* Nothing is signed or counted before a session begins.
LEMMA FreshStep == Fresh /\ [Next]_vars => Fresh'
<1> SUFFICES ASSUME Fresh, [Next]_vars PROVE Fresh'
  OBVIOUS
<1> USE DEF Fresh
<1>1. CASE Open
  BY <1>1 DEF Open
<1>2. CASE Propose \/ Finalize
  BY <1>2 DEF Propose, Finalize
<1>3. CASE RequestSignatures \/ RequestFails
  BY <1>3 DEF RequestSignatures, RequestFails
<1>4. ASSUME NEW s \in External, DeviceSigns(s) PROVE Fresh'
  BY <1>4 DEF DeviceSigns
<1>5. ASSUME NEW s \in Signer \cup {Stranger}, NEW p \in copies \cup {Foreign},
             ReceiveSignature(s, p)
      PROVE  Fresh'
  BY <1>5 DEF ReceiveSignature
<1>6. ASSUME NEW p \in copies \cup {Foreign}, CombinePsbt(p) PROVE Fresh'
  BY <1>6 DEF CombinePsbt
<1>7. CASE FinalizeAndExtract
  BY <1>7 DEF FinalizeAndExtract
<1>8. CASE UNCHANGED vars
  BY <1>8 DEF vars
<1> QED
  BY <1>1, <1>2, <1>3, <1>4, <1>5, <1>6, <1>7, <1>8 DEF Next

\* What an operation does to the evidence.  A PSBT never loses a signature;
\* the base PSBT, kept outside a coordinator, counts nobody; and in a P2WSH
\* session a signer is counted anew only when the PSBT then holds a signature
\* of its: read from it (request_signatures) or just found in it
\* (receive_signature).
LEMMA Grows ==
    ASSUME Fresh, CountedHaveSigned, [Next]_vars, ~Taproot
    PROVE  /\ psbt \subseteq psbt'
           /\ signed \subseteq signed'
           /\ signed' \subseteq Contributors(psbt')
<1> USE DEF CountedHaveSigned
<1>u. UNCHANGED <<psbt, signed>> => signed' \subseteq Contributors(psbt')
  BY DEF Contributors
<1>1. CASE Open
  <2>1. PICK s \in SUBSET Software :
            LET p == s \X Input
            IN  IF AcceptedAsUnsigned(p)
                THEN /\ phase' = "open" /\ psbt' = p /\ signed' = {}
                     /\ Reply("new", "Ok")
                ELSE /\ Reply("new", "UnexpectedSignatures")
                     /\ UNCHANGED <<phase, psbt, signed>>
    BY <1>1 DEF Open
  <2> QED
    BY <1>u, <1>1, <2>1 DEF Open, Fresh, AcceptedAsUnsigned
<1>2. CASE RequestSignatures
  <2>1. psbt \subseteq psbt'
    BY <1>2 DEF RequestSignatures
  <2>2. signed' = signed \cup Contributors(psbt')
    BY <1>2 DEF RequestSignatures, signers_with_sigs
  <2> QED
    BY <2>1, <2>2, ContributorsGrow
<1>3. CASE RequestFails
  <2>1. psbt \subseteq psbt' /\ signed' = signed
    BY <1>3 DEF RequestFails
  <2> QED
    BY <2>1, ContributorsGrow
<1>4. ASSUME NEW s \in External, DeviceSigns(s) PROVE UNCHANGED <<psbt, signed>>
  BY <1>4 DEF DeviceSigns
<1>5. ASSUME NEW s \in Signer \cup {Stranger}, NEW p \in copies \cup {Foreign},
             ReceiveSignature(s, p)
      PROVE  /\ psbt \subseteq psbt' /\ signed \subseteq signed'
             /\ signed' \subseteq Contributors(psbt')
  <2>1. CASE s \in Signer /\ p # Foreign /\ FoundNew(s, psbt \cup p)
    <3>1. psbt' = psbt \cup p /\ signed' = signed \cup {s}
      BY <1>5, <2>1 DEF ReceiveSignature
    <3>2. s \in Contributors(psbt')
      BY <2>1, <3>1 DEF FoundNew, Contributors
    <3> QED
      BY <3>1, <3>2, ContributorsGrow
  <2>2. CASE ~(s \in Signer /\ p # Foreign /\ FoundNew(s, psbt \cup p))
    BY <1>5, <2>2, <1>u DEF ReceiveSignature
  <2> QED
    BY <2>1, <2>2
<1>6. CASE Finalize
  BY <1>6, <1>u DEF Finalize
<1>7. CASE Propose
  BY <1>7, <1>u DEF Propose
<1>8. ASSUME NEW p \in copies \cup {Foreign}, CombinePsbt(p)
      PROVE  /\ psbt \subseteq psbt' /\ signed \subseteq signed'
             /\ signed' \subseteq Contributors(psbt')
  <2>1. psbt \subseteq psbt' /\ signed' = signed
    BY <1>8 DEF CombinePsbt
  <2> QED
    BY <2>1, ContributorsGrow
<1>9. CASE FinalizeAndExtract
  BY <1>9, <1>u DEF FinalizeAndExtract
<1>10. CASE UNCHANGED vars
  BY <1>10, <1>u DEF vars
<1> QED
  BY <1>1, <1>2, <1>3, <1>4, <1>5, <1>6, <1>7, <1>8, <1>9, <1>10, <1>u DEF Next

\* A P2WSH session never counts a signer whose signature its PSBT does not
\* hold, whatever copies come back, in which order and under which name.
THEOREM CountedHaveSignedHolds ==
    ASSUME ~Taproot PROVE Spec => []CountedHaveSigned
<1>1. Init => Fresh /\ CountedHaveSigned
  BY DEF Init, Fresh, CountedHaveSigned
<1>2. Fresh /\ CountedHaveSigned /\ [Next]_vars => (Fresh /\ CountedHaveSigned)'
  BY FreshStep, Grows DEF CountedHaveSigned
<1> QED
  BY <1>1, <1>2, PTL DEF Spec

\* In a P2WSH session a successful request_signatures leaves everybody counted
\* whose signature the PSBT holds, and nobody else.
THEOREM RequestCountsAllHolds ==
    ASSUME ~Taproot PROVE Spec => []RequestCountsAll
<1>1. Init => RequestCountsAll
  BY DEF Init, RequestCountsAll
<1>2. CountedHaveSigned /\ RequestCountsAll /\ [Next]_vars => RequestCountsAll'
  <2> SUFFICES ASSUME CountedHaveSigned, RequestCountsAll, [Next]_vars
               PROVE  RequestCountsAll'
    OBVIOUS
  <2>1. CASE RequestSignatures
    <3>1. psbt \subseteq psbt'
      BY <2>1 DEF RequestSignatures
    <3>2. signed' = signed \cup Contributors(psbt')
      BY <2>1 DEF RequestSignatures, signers_with_sigs
    <3> QED
      BY <3>1, <3>2, ContributorsGrow
      DEF RequestCountsAll, CountedHaveSigned, Contributors
  <2>2. CASE reply'.call # "request" \/ reply'.result # "Ok"
    BY <2>2 DEF RequestCountsAll
  <2>3. CASE UNCHANGED <<psbt, signed, reply>>
    BY <2>3 DEF RequestCountsAll, Contributors
  <2>4. Open => reply'.call # "request"
    BY DEF Open, Reply
  <2>4p. Propose => reply'.call # "request"
    BY DEF Propose, Reply
  <2>5. RequestFails => reply'.result # "Ok"
    BY DEF RequestFails, Reply
  <2>6. \A s \in External : DeviceSigns(s) => UNCHANGED <<psbt, signed, reply>>
    BY DEF DeviceSigns
  <2>7. \A s \in Signer \cup {Stranger}, p \in copies \cup {Foreign} :
            ReceiveSignature(s, p) => reply'.call # "request"
    BY DEF ReceiveSignature, Reply
  <2>8. /\ Finalize => reply'.call # "request"
        /\ FinalizeAndExtract => reply'.call # "request"
    BY DEF Finalize, FinalizeAndExtract, Reply
  <2>9. \A p \in copies \cup {Foreign} : CombinePsbt(p) => reply'.call # "request"
    BY DEF CombinePsbt, Reply
  <2>10. UNCHANGED vars => UNCHANGED <<psbt, signed, reply>>
    BY DEF vars
  <2> QED
    BY <2>1, <2>2, <2>3, <2>4, <2>4p, <2>5, <2>6, <2>7, <2>8, <2>9, <2>10 DEF Next
<1> QED
  BY <1>1, <1>2, CountedHaveSignedHolds, PTL DEF Spec

----------------------------------------------------------------------------
\* The signers of an input are finitely many, and counting them gives a number.
LEMMA SignersOfCount ==
    ASSUME NEW p, NEW i
    PROVE  /\ IsFiniteSet(SignersOf(p, i))
           /\ Cardinality(SignersOf(p, i)) \in Nat
BY SigningAssumption, FS_Subset, FS_CardinalityType DEF SignersOf

\* If everybody who is counted has signed the whole transaction, enough of them
\* are enough signatures on every input.
LEMMA WholeSignersSuffice ==
    ASSUME CountedHaveSigned, is_complete,
           \A s \in Contributors(psbt), i \in Input : <<s, i>> \in psbt
    PROVE  Finalizable(psbt)
<1> SUFFICES ASSUME NEW i \in Input
             PROVE  Cardinality(SignersOf(psbt, i)) >= Threshold
  BY DEF Finalizable
<1>1. signed \subseteq SignersOf(psbt, i)
  BY DEF CountedHaveSigned, Contributors, SignersOf
<1>2. Cardinality(signed) <= Cardinality(SignersOf(psbt, i))
  BY <1>1, SignersOfCount, FS_Subset
<1>3. Cardinality(signed) \in Nat /\ Threshold \in Int
  BY <1>1, SignersOfCount, FS_Subset, FS_CardinalityType, SigningAssumption
<1> QED
  BY <1>2, <1>3, SignersOfCount DEF is_complete, signatures_collected

\* In a P2WSH session whose signers sign whole transactions, completion means
\* that finalize succeeds, for every roster, threshold and set of inputs.
THEOREM WholeIsFinalizableHolds ==
    ASSUME ~Taproot PROVE Spec => []WholeIsFinalizable
<1>1. CountedHaveSigned => WholeIsFinalizable
  BY WholeSignersSuffice DEF WholeIsFinalizable, CompleteIsFinalizable
<1> QED
  BY <1>1, CountedHaveSignedHolds, PTL

\* A P2WSH session over a transaction with one input that says it is complete
\* can be finalized: finalize does not consume it in vain.  (With two inputs
\* it can, see SigningPartial.cfg.)
THEOREM CompleteIsFinalizableHolds ==
    ASSUME ~Taproot, NEW j, Input = {j}
    PROVE  Spec => []CompleteIsFinalizable
<1>1. \A s \in Contributors(psbt), i \in Input : <<s, i>> \in psbt
  BY DEF Contributors
<1>2. CountedHaveSigned => CompleteIsFinalizable
  BY <1>1, WholeSignersSuffice DEF CompleteIsFinalizable
<1> QED
  BY <1>2, CountedHaveSignedHolds, PTL

----------------------------------------------------------------------------
\* The refinement: what a PSBT shows of an input only grows with it.
LEMMA EvidenceGrows ==
    ASSUME NEW p, NEW q, p \subseteq q
    PROVE  \A i \in Input : SignersOf(p, i) \subseteq SignersOf(q, i)
BY DEF SignersOf

\* A step that only adds to the PSBT and to the count, within a session, is a
\* Collect step of the abstract session.
LEMMA CollectStep ==
    ASSUME phase \in {"open", "base"}, phase' = phase,
           psbt \subseteq psbt', signed \subseteq signed',
           signed' \subseteq Contributors(psbt')
    PROVE  Promise!Collect
<1>1. \A s \in signed' : \E i \in Input : s \in SignersOf(psbt', i)
  BY DEF Contributors, SignersOf
<1>2. \A i \in Input : SignersOf(psbt, i) \subseteq SignersOf(psbt', i)
  BY EvidenceGrows
<1> QED
  BY <1>1, <1>2 DEF Promise!Collect

\* Both ways of signing a P2WSH spend implement SignatureQuorum, for every
\* roster, threshold, set of inputs and number of copies in circulation.
THEOREM SigningImplementsQuorum ==
    ASSUME ~Taproot PROVE Spec => ImplementsQuorum
<1>1. Init => Promise!Init
  BY DEF Init, Promise!Init, SignersOf
<1>2. Fresh /\ CountedHaveSigned /\ [Next]_vars => [Promise!Next]_(Promise!vars)
  <2> SUFFICES ASSUME Fresh, CountedHaveSigned, [Next]_vars
               PROVE  Promise!Next \/ UNCHANGED Promise!vars
    OBVIOUS
  <2>g. /\ psbt \subseteq psbt' /\ signed \subseteq signed'
        /\ signed' \subseteq Contributors(psbt')
    BY Grows
  <2>c. phase \in {"open", "base"} /\ phase' = phase => Promise!Collect
    BY <2>g, CollectStep
  <2>u. UNCHANGED <<phase, psbt, signed>> => UNCHANGED Promise!vars
    BY DEF Promise!vars, SignersOf
  <2>b. phase = "new" /\ phase' \in {"open", "base"} /\ UNCHANGED <<psbt, signed>>
            => Promise!Begin
    BY DEF Promise!Begin, SignersOf
  <2>q. Finalizable(psbt) <=> Promise!Quorum
    BY DEF Finalizable, Promise!Quorum, SignersOf
  <2>n. is_complete <=> signed \in {q \in SUBSET Signer : Cardinality(q) >= Threshold}
    BY DEF is_complete, signatures_collected, CountedHaveSigned, Contributors
  <2>1. CASE Open
    <3>1. PICK s \in SUBSET Software :
              LET p == s \X Input
              IN  IF AcceptedAsUnsigned(p)
                  THEN /\ phase' = "open" /\ psbt' = p /\ signed' = {}
                       /\ Reply("new", "Ok")
                  ELSE /\ Reply("new", "UnexpectedSignatures")
                       /\ UNCHANGED <<phase, psbt, signed>>
      BY <2>1 DEF Open
    <3>2. CASE AcceptedAsUnsigned(s \X Input)
      BY <2>1, <2>b, <3>1, <3>2 DEF Open, AcceptedAsUnsigned, Fresh, Promise!Next
    <3>3. CASE ~AcceptedAsUnsigned(s \X Input)
      BY <2>u, <3>1, <3>3
    <3> QED
      BY <3>2, <3>3
  <2>2. CASE Propose
    <3>1. /\ phase = "new" /\ UNCHANGED <<psbt, signed>>
          /\ phase' = "base" \/ UNCHANGED phase
      BY <2>2 DEF Propose
    <3>2. CASE phase' = "base"
      BY <2>b, <3>1, <3>2 DEF Promise!Next
    <3>3. CASE UNCHANGED phase
      BY <2>u, <3>1, <3>3
    <3> QED
      BY <3>1, <3>2, <3>3
  <2>3. CASE RequestSignatures \/ RequestFails
    BY <2>3, <2>c DEF RequestSignatures, RequestFails, Promise!Next
  <2>4. ASSUME NEW s \in External, DeviceSigns(s) PROVE UNCHANGED Promise!vars
    BY <2>4, <2>u DEF DeviceSigns
  <2>5. ASSUME NEW s \in Signer \cup {Stranger}, NEW p \in copies \cup {Foreign},
               ReceiveSignature(s, p)
        PROVE  Promise!Next
    BY <2>5, <2>c DEF ReceiveSignature, Promise!Next
  <2>6. CASE Finalize
    <3>1. CASE phase' = "finalized"
      <4>1. phase = "open" /\ Finalizable(psbt) /\ UNCHANGED <<psbt, signed>>
        BY <2>6, <3>1 DEF Finalize
      <4> QED
        BY <2>q, <3>1, <4>1 DEF Promise!Next, Promise!Complete, SignersOf
    <3>2. CASE phase' = "lost"
      <4>1. phase = "open" /\ ~(is_complete /\ Finalizable(psbt))
            /\ UNCHANGED <<psbt, signed>>
        BY <2>6, <3>2 DEF Finalize
      <4> QED
        BY <2>q, <2>n, <3>2, <4>1 DEF Promise!Next, Promise!Abandon, SignersOf
    <3> QED
      BY <2>6, <3>1, <3>2 DEF Finalize
  <2>7. ASSUME NEW p \in copies \cup {Foreign}, CombinePsbt(p)
        PROVE  Promise!Next
    BY <2>7, <2>c DEF CombinePsbt, Promise!Next
  <2>8. CASE FinalizeAndExtract
    <3>1. CASE Finalizable(psbt)
      BY <2>q, <2>8, <3>1
      DEF FinalizeAndExtract, Promise!Next, Promise!Complete, SignersOf
    <3>2. CASE ~Finalizable(psbt)
      BY <2>8, <3>2, <2>c DEF FinalizeAndExtract, Promise!Next
    <3> QED
      BY <3>1, <3>2
  <2>9. CASE UNCHANGED vars
    BY <2>9, <2>u DEF vars
  <2> QED
    BY <2>1, <2>2, <2>3, <2>4, <2>5, <2>6, <2>7, <2>8, <2>9 DEF Next
<1>3. Init => Fresh
  BY DEF Init, Fresh
<1> QED
  BY <1>1, <1>2, <1>3, FreshStep, CountedHaveSignedHolds, PTL
  DEF Spec, ImplementsQuorum, Promise!Spec
============================================================================
