--------------------------- MODULE VerifyOutputs ---------------------------
(***************************************************************************)
(* verify.rs, verify_psbt_outputs: does a PSBT pay exactly what a human    *)
(* approved, and everything else back to the wallet?  The function walks   *)
(* over the outputs and lets each claim the first approved payment it      *)
(* matches; a behaviour is one call, each output it looks at is a step.    *)
(***************************************************************************)
EXTENDS Integers, Sequences

CONSTANTS
    Script,       \* script_pubkeys
    Owned,        \* those for which is_owned_change is true
    Amount,       \* amounts
    MaxOutputs    \* bound: outputs of the PSBT, and approved payments

ASSUME VerifyAssumption == Owned \subseteq Script /\ MaxOutputs \in Nat

\* ExpectedOutput, and a TxOut.
Output == Script \X Amount

Lists == UNION {[1..n -> Output] : n \in 0..MaxOutputs}

VARIABLES
    outputs,    \* psbt.unsigned_tx.output
    approved,   \* the approved payments
    by,         \* by[i]: the output that claimed approved[i], 0 if none
    k,          \* the output the loop looks at
    result      \* "none", "Ok", or the kind of OutputMismatch

vars == <<outputs, approved, by, k, result>>

Unmatched == {i \in 1..Len(approved) : by[i] = 0}

\* Mutant: a payment that was claimed may be claimed again.
ExactAnyMatch == {i \in 1..Len(approved) : approved[i] = outputs[k]}

\* The approved payments that outputs[k] may claim.
Exact == {i \in Unmatched : approved[i] = outputs[k]}

IsOwnedChange == outputs[k][1] \in Owned

Init ==
    /\ outputs \in Lists /\ approved \in Lists
    /\ by = [i \in 1..Len(approved) |-> 0]
    /\ k = 1
    /\ result = "none"

\* position(): the first exact match is claimed.
Claim ==
    /\ result = "none" /\ k <= Len(outputs)
    /\ \E i \in Exact :
        /\ \A j \in Exact : i <= j
        /\ by' = [by EXCEPT ![i] = k]
    /\ k' = k + 1
    /\ UNCHANGED <<outputs, approved, result>>

SkipChange ==
    /\ result = "none" /\ k <= Len(outputs)
    /\ Exact = {} /\ IsOwnedChange
    /\ k' = k + 1
    /\ UNCHANGED <<outputs, approved, by, result>>

\* Not approved and not ours; say so precisely if only the amount is wrong.
Reject ==
    /\ result = "none" /\ k <= Len(outputs)
    /\ Exact = {} /\ ~IsOwnedChange
    /\ result' = IF \E i \in Unmatched : approved[i][1] = outputs[k][1]
                 THEN "AmountChanged" ELSE "Unexpected"
    /\ UNCHANGED <<outputs, approved, by, k>>

\* Mutant: the last check is left out.
FinishUnchecked ==
    /\ result = "none" /\ k > Len(outputs)
    /\ result' = "Ok"
    /\ UNCHANGED <<outputs, approved, by, k>>

Finish ==
    /\ result = "none" /\ k > Len(outputs)
    /\ result' = IF Unmatched = {} THEN "Ok" ELSE "Missing"
    /\ UNCHANGED <<outputs, approved, by, k>>

Next == Claim \/ SkipChange \/ Reject \/ Finish

Spec == Init /\ [][Next]_vars

----------------------------------------------------------------------------
(* Properties                                                              *)

\* What the caller asked for, without saying how it is found out: the approved
\* payments are outputs of the PSBT, each one an output of its own, and every
\* other output is ours.
PaysAsApproved(f) ==
    /\ \A i \in 1..Len(approved) : outputs[f[i]] = approved[i]
    /\ \A i, j \in 1..Len(approved) : f[i] = f[j] => i = j
    /\ \A n \in 1..Len(outputs) :
        (\A i \in 1..Len(approved) : f[i] # n) => outputs[n][1] \in Owned

Acceptable ==
    \E f \in [1..Len(approved) -> 1..Len(outputs)] : PaysAsApproved(f)

\* verify_psbt_outputs accepts only what pays as approved: no swapped script,
\* edited amount, dropped payout or output disguised as change gets through,
\* duplicate payments and approved payments to ourselves included.
AcceptsOnlyApproved == result = "Ok" => Acceptable

\* First come, first served is good enough: whatever the order of the outputs
\* and of the approved payments, a PSBT that pays as approved is accepted.
RejectsNoneApproved == result \notin {"none", "Ok"} => ~Acceptable
============================================================================
