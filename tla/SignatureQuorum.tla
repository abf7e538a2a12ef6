-------------------------- MODULE SignatureQuorum --------------------------
(***************************************************************************)
(* What signing a spend of the federation promises, without PSBTs, copies  *)
(* or replies: evidence of signatures per input only accumulates, nobody   *)
(* is counted without evidence, what was counted stays counted, and the    *)
(* session ends in a transaction only with a quorum on every input.  A     *)
(* session that has such a quorum, and whose count says so, is never       *)
(* thrown away.  Signing implements it.                                    *)
(***************************************************************************)
CONSTANTS
    Input,      \* the inputs to be signed
    Enough      \* the sets of signers that are a quorum

VARIABLES
    state,      \* "idle", "collecting", "done" or "abandoned"
    evidence,   \* the signers whose signature on an input has been seen
    counted     \* the signers counted towards the threshold

vars == <<state, evidence, counted>>

Quorum == \A i \in Input : evidence[i] \in Enough

Init ==
    /\ state = "idle"
    /\ evidence = [i \in Input |-> {}]
    /\ counted = {}

Begin ==
    /\ state = "idle" /\ state' = "collecting"
    /\ UNCHANGED <<evidence, counted>>

Collect ==
    /\ state = "collecting" /\ state' = "collecting"
    /\ \A i \in Input : evidence[i] \subseteq evidence'[i]
    /\ counted \subseteq counted'
    /\ \A s \in counted' : \E i \in Input : s \in evidence'[i]

Complete ==
    /\ state = "collecting" /\ state' = "done"
    /\ Quorum
    /\ UNCHANGED <<evidence, counted>>

Abandon ==
    /\ state = "collecting" /\ state' = "abandoned"
    /\ ~(Quorum /\ counted \in Enough)
    /\ UNCHANGED <<evidence, counted>>

Next == Begin \/ Collect \/ Complete \/ Abandon

Spec == Init /\ [][Next]_vars
============================================================================
