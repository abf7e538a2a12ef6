------------------------ MODULE VerifyOutputsProofs ------------------------
(***************************************************************************)
(* verify_psbt_outputs decides exactly the question it is asked, for every *)
(* set of scripts and amounts and for lists of any length: what it accepts *)
(* pays as approved (soundness), and it accepts all that does              *)
(* (completeness, an exchange argument: a matching that disagrees with the *)
(* next greedy claim can be changed so that it agrees).                    *)
(***************************************************************************)
EXTENDS VerifyOutputs, SequenceTheorems, TLAPS

Typed ==
    /\ outputs \in Seq(Output) /\ approved \in Seq(Output)
    /\ by \in [1..Len(approved) -> Nat]
    /\ k \in Nat \ {0}
    /\ result \in {"none", "Ok", "AmountChanged", "Unexpected", "Missing"}

\* The lists given to the function are sequences of outputs.
LEMMA ListsAreSeqs == Lists \subseteq Seq(Output)
BY VerifyAssumption, SeqDef DEF Lists

\* Every step keeps the types.
LEMMA TypedStep == Typed /\ [Next]_vars => Typed'
<1> SUFFICES ASSUME Typed, [Next]_vars PROVE Typed'
  OBVIOUS
<1>1. CASE Claim
  BY <1>1 DEF Typed, Claim, Exact, Unmatched
<1>2. CASE SkipChange
  BY <1>2 DEF Typed, SkipChange
<1>3. CASE Reject
  BY <1>3 DEF Typed, Reject
<1>4. CASE Finish
  BY <1>4 DEF Typed, Finish
<1>5. CASE UNCHANGED vars
  BY <1>5 DEF Typed, vars
<1> QED
  BY <1>1, <1>2, <1>3, <1>4, <1>5 DEF Next

\* Type correctness of the walk over the outputs.
LEMMA TypedHolds == Spec => []Typed
<1>1. Init => Typed
  BY ListsAreSeqs, LenProperties DEF Init, Typed
<1> QED
  BY <1>1, TypedStep, PTL DEF Spec

----------------------------------------------------------------------------
(* Soundness                                                               *)

\* What the walk has established of the outputs before k.
ClaimsOK ==
    /\ \A i \in 1..Len(approved) : by[i] # 0 =>
        /\ by[i] \in 1..Len(outputs) /\ by[i] < k
        /\ outputs[by[i]] = approved[i]
    /\ \A i, j \in 1..Len(approved) : by[i] # 0 /\ by[i] = by[j] => i = j
    /\ \A n \in 1..Len(outputs) :
        n < k /\ (\A i \in 1..Len(approved) : by[i] # n) => outputs[n][1] \in Owned
    /\ result = "Ok" => k > Len(outputs) /\ Unmatched = {}

\* Every step of the walk keeps what it has established.
LEMMA ClaimsOKStep == Typed /\ ClaimsOK /\ [Next]_vars => ClaimsOK'
<1> SUFFICES ASSUME Typed, ClaimsOK, [Next]_vars PROVE ClaimsOK'
  OBVIOUS
<1>1. CASE Claim
  <2>1. PICK c \in Exact : by' = [by EXCEPT ![c] = k]
    BY <1>1 DEF Claim
  <2>2. /\ c \in 1..Len(approved) /\ by[c] = 0 /\ approved[c] = outputs[k]
        /\ k \in 1..Len(outputs) /\ k' = k + 1 /\ result = "none"
        /\ UNCHANGED <<outputs, approved, result>>
    BY <1>1, <2>1 DEF Claim, Exact, Unmatched, Typed
  <2>3. \A i \in 1..Len(approved) : by'[i] = IF i = c THEN k ELSE by[i]
    BY <2>1, <2>2 DEF Typed
  <2>4. \A i \in 1..Len(approved) : by'[i] # 0 =>
            /\ by'[i] \in 1..Len(outputs) /\ by'[i] < k + 1
            /\ outputs[by'[i]] = approved[i]
    BY <2>2, <2>3 DEF ClaimsOK, Typed
  <2>5. \A i, j \in 1..Len(approved) : by'[i] # 0 /\ by'[i] = by'[j] => i = j
    BY <2>2, <2>3 DEF ClaimsOK, Typed
  <2>6. ASSUME NEW n \in 1..Len(outputs), n < k + 1,
               \A i \in 1..Len(approved) : by'[i] # n
        PROVE  outputs[n][1] \in Owned
    <3>1. n # k
      BY <2>2, <2>3, <2>6
    <3>2. \A i \in 1..Len(approved) : by[i] # n
      BY <2>2, <2>3, <2>6
    <3> QED
      BY <2>6, <3>1, <3>2 DEF ClaimsOK, Typed
  <2> QED
    BY <2>2, <2>4, <2>5, <2>6 DEF ClaimsOK
<1>2. CASE SkipChange
  BY <1>2 DEF SkipChange, IsOwnedChange, ClaimsOK, Typed
<1>3. CASE Reject
  BY <1>3 DEF Reject, ClaimsOK, Unmatched
<1>4. CASE Finish
  BY <1>4 DEF Finish, ClaimsOK, Unmatched
<1>5. CASE UNCHANGED vars
  BY <1>5 DEF vars, ClaimsOK, Unmatched
<1> QED
  BY <1>1, <1>2, <1>3, <1>4, <1>5 DEF Next

\* verify_psbt_outputs accepts only a PSBT that pays as approved.
THEOREM Soundness == Spec => []AcceptsOnlyApproved
<1>1. Init => ClaimsOK
  BY DEF Init, ClaimsOK
<1>2. Typed /\ ClaimsOK => AcceptsOnlyApproved
  <2> SUFFICES ASSUME Typed, ClaimsOK, result = "Ok" PROVE Acceptable
    BY DEF AcceptsOnlyApproved
  <2>1. \A i \in 1..Len(approved) : by[i] # 0
    BY DEF ClaimsOK, Unmatched
  <2>2. by \in [1..Len(approved) -> 1..Len(outputs)]
    BY <2>1 DEF ClaimsOK, Typed
  <2>3. PaysAsApproved(by)
    BY <2>1, <2>2 DEF PaysAsApproved, ClaimsOK, Typed
  <2> QED
    BY <2>2, <2>3 DEF Acceptable
<1> QED
  BY <1>1, <1>2, ClaimsOKStep, TypedHolds, PTL DEF Spec

----------------------------------------------------------------------------
(* Completeness                                                            *)

\* A matching that agrees with the claims made so far and gives every other
\* payment an output the walk has yet to see.
Extends(f) ==
    /\ f \in [1..Len(approved) -> 1..Len(outputs)]
    /\ PaysAsApproved(f)
    /\ \A i \in 1..Len(approved) : IF by[i] # 0 THEN f[i] = by[i] ELSE f[i] >= k

Completable ==
    /\ result = "none" /\ Acceptable => \E f : Extends(f)
    /\ RejectsNoneApproved

\* As long as the walk goes on, an acceptable PSBT still has a matching that
\* extends its claims; a PSBT that is turned down has none.
LEMMA CompletableStep ==
    Typed /\ ClaimsOK /\ Completable /\ [Next]_vars => Completable'
<1> SUFFICES ASSUME Typed, ClaimsOK, Completable, [Next]_vars
             PROVE  Completable'
  OBVIOUS
<1>0. ASSUME UNCHANGED <<outputs, approved>>
      PROVE  Acceptable' = Acceptable
  BY <1>0 DEF Acceptable, PaysAsApproved
<1>1. CASE Claim
  <2>1. PICK c \in Exact : by' = [by EXCEPT ![c] = k]
    BY <1>1 DEF Claim
  <2>2. /\ c \in 1..Len(approved) /\ by[c] = 0 /\ approved[c] = outputs[k]
        /\ k \in 1..Len(outputs) /\ k' = k + 1 /\ result = "none"
        /\ UNCHANGED <<outputs, approved, result>>
    BY <1>1, <2>1 DEF Claim, Exact, Unmatched, Typed
  <2>3. \A i \in 1..Len(approved) : by'[i] = IF i = c THEN k ELSE by[i]
    BY <2>1, <2>2 DEF Typed
  <2>4. ASSUME Acceptable PROVE \E g : Extends(g)'
    <3>1. PICK f : Extends(f)
      BY <2>2, <2>4 DEF Completable
    <3>2. CASE \E j \in 1..Len(approved) : f[j] = k
      <4>1. PICK j \in 1..Len(approved) : f[j] = k
        BY <3>2
      <4>g. PICK g : g = [i \in 1..Len(approved) |->
                            IF i = c THEN k ELSE IF i = j THEN f[c] ELSE f[i]]
        OBVIOUS
      <4>gval. \A i \in 1..Len(approved) :
                g[i] = IF i = c THEN k ELSE IF i = j THEN f[c] ELSE f[i]
        BY <4>g
      <4>2. g \in [1..Len(approved) -> 1..Len(outputs)]
        BY <2>2, <3>1, <4>1, <4>g DEF Extends
      <4>3. approved[j] = approved[c] /\ outputs[f[c]] = approved[c] /\ f[c] >= k
        BY <2>2, <3>1, <4>1 DEF Extends, PaysAsApproved
      <4>4. by[j] = 0
        BY <3>1, <4>1, <2>2 DEF Extends, ClaimsOK, Typed
      <4>5. \A i \in 1..Len(approved) : outputs[g[i]] = approved[i]
        <5>1. \A i \in 1..Len(approved) : outputs[f[i]] = approved[i]
          BY <3>1 DEF Extends, PaysAsApproved
        <5>2. outputs[k] = approved[c] /\ outputs[f[c]] = approved[j]
          BY <2>2, <4>3
        <5> QED
          BY <4>gval, <5>1, <5>2
      <4>6. \A i, l \in 1..Len(approved) : g[i] = g[l] => i = l
        <5>1. \A i, l \in 1..Len(approved) : f[i] = f[l] => i = l
          BY <3>1 DEF Extends, PaysAsApproved
        <5>2. ASSUME NEW i \in 1..Len(approved), NEW l \in 1..Len(approved),
                     g[i] = g[l], i # l
              PROVE  FALSE
          <6>1. CASE i = c \/ l = c
            BY <2>2, <4>1, <4>gval, <5>1, <5>2, <6>1
          <6>2. CASE i # c /\ l # c
            BY <2>2, <4>1, <4>gval, <5>1, <5>2, <6>2
          <6> QED
            BY <6>1, <6>2
        <5> QED
          BY <5>2
      <4>7. \A n \in 1..Len(outputs) :
                (\A i \in 1..Len(approved) : g[i] # n) => outputs[n][1] \in Owned
        <5> SUFFICES ASSUME NEW n \in 1..Len(outputs),
                            \A i \in 1..Len(approved) : g[i] # n
                     PROVE  outputs[n][1] \in Owned
          OBVIOUS
        <5>1. \A i \in 1..Len(approved) : f[i] # n
          BY <2>2, <4>1, <4>gval
        <5> QED
          BY <3>1, <5>1 DEF Extends, PaysAsApproved
      <4>8. \A i \in 1..Len(approved) :
                IF by'[i] # 0 THEN g[i] = by'[i] ELSE g[i] >= k + 1
        <5> SUFFICES ASSUME NEW i \in 1..Len(approved)
                     PROVE  IF by'[i] # 0 THEN g[i] = by'[i] ELSE g[i] >= k + 1
          OBVIOUS
        <5>1. CASE i = c
          BY <5>1, <2>2, <2>3, <4>gval DEF Typed
        <5>2. CASE i # c /\ i = j
          <6>1. f[c] # k
            BY <5>2, <4>1, <2>2, <3>1 DEF Extends, PaysAsApproved
          <6>2. f[c] \in Int
            BY <2>2, <3>1 DEF Extends
          <6>3. g[i] = f[c] /\ by'[i] = 0
            BY <5>2, <2>3, <4>4, <4>gval
          <6>4. f[c] >= k + 1
            BY <6>1, <6>2, <4>3 DEF Typed
          <6> QED
            BY <6>3, <6>4
        <5>3. CASE i # c /\ i # j
          <6>1. f[i] # k
            BY <5>3, <4>1, <3>1 DEF Extends, PaysAsApproved
          <6>2. f[i] \in Int
            BY <3>1 DEF Extends
          <6> QED
            BY <5>3, <6>1, <6>2, <2>3, <3>1, <4>gval DEF Typed, Extends
        <5> QED
          BY <5>1, <5>2, <5>3
      <4>9. Extends(g)'
        BY <2>2, <4>2, <4>5, <4>6, <4>7, <4>8 DEF Extends, PaysAsApproved
      <4> QED
        BY <4>9
    <3>3. CASE \A j \in 1..Len(approved) : f[j] # k
      <4>g. PICK g : g = [f EXCEPT ![c] = k]
        OBVIOUS
      <4>1. g \in [1..Len(approved) -> 1..Len(outputs)]
        BY <2>2, <3>1, <4>g DEF Extends
      <4>2. \A i \in 1..Len(approved) : g[i] = IF i = c THEN k ELSE f[i]
        BY <2>2, <3>1, <4>g DEF Extends
      <4>3. outputs[f[c]] = outputs[k] /\ outputs[k][1] \in Owned
        BY <2>2, <3>1, <3>3 DEF Extends, PaysAsApproved
      <4>4. \A i \in 1..Len(approved) : outputs[g[i]] = approved[i]
        BY <2>2, <3>1, <4>2 DEF Extends, PaysAsApproved
      <4>5. \A i, l \in 1..Len(approved) : g[i] = g[l] => i = l
        BY <3>1, <3>3, <4>2 DEF Extends, PaysAsApproved
      <4>6. \A n \in 1..Len(outputs) :
                (\A i \in 1..Len(approved) : g[i] # n) => outputs[n][1] \in Owned
        <5> SUFFICES ASSUME NEW n \in 1..Len(outputs),
                            \A i \in 1..Len(approved) : g[i] # n
                     PROVE  outputs[n][1] \in Owned
          OBVIOUS
        <5>1. CASE n = f[c]
          BY <4>3, <5>1
        <5>2. CASE n # f[c]
          <6>1. \A i \in 1..Len(approved) : f[i] # n
            BY <4>2, <5>2
          <6> QED
            BY <3>1, <6>1 DEF Extends, PaysAsApproved
        <5> QED
          BY <5>1, <5>2
      <4>7. ASSUME NEW i \in 1..Len(approved)
            PROVE  IF by'[i] # 0 THEN g[i] = by'[i] ELSE g[i] >= k + 1
        <5>1. CASE i = c
          BY <5>1, <2>2, <2>3, <4>2 DEF Typed
        <5>2. CASE i # c
          <6>1. f[i] # k /\ f[i] \in Int
            BY <3>1, <3>3 DEF Extends
          <6> QED
            BY <5>2, <6>1, <2>3, <4>2, <3>1 DEF Typed, Extends
        <5> QED
          BY <5>1, <5>2
      <4>8. Extends(g)'
        BY <2>2, <4>1, <4>4, <4>5, <4>6, <4>7 DEF Extends, PaysAsApproved
      <4> QED
        BY <4>8
    <3> QED
      BY <3>2, <3>3
  <2> QED
    BY <1>0, <2>2, <2>4 DEF Completable, RejectsNoneApproved
<1>2. CASE SkipChange
  <2>1. /\ UNCHANGED <<outputs, approved, by, result>> /\ k' = k + 1
        /\ Exact = {} /\ result = "none"
    BY <1>2 DEF SkipChange
  <2>2. ASSUME NEW f, Extends(f) PROVE Extends(f)'
    <3>1. ASSUME NEW i \in 1..Len(approved), by[i] = 0 PROVE f[i] >= k + 1
      <4>1. f[i] # k
        BY <2>1, <2>2, <3>1 DEF Exact, Unmatched, Extends, PaysAsApproved
      <4>2. f[i] \in Int /\ f[i] >= k
        BY <2>2, <3>1 DEF Extends
      <4> QED
        BY <4>1, <4>2 DEF Typed
    <3> QED
      BY <2>1, <2>2, <3>1 DEF Extends, PaysAsApproved
  <2> QED
    BY <1>0, <2>1, <2>2 DEF Completable, RejectsNoneApproved
<1>3. CASE Reject
  <2>1. /\ UNCHANGED <<outputs, approved, by, k>> /\ result = "none"
        /\ Exact = {} /\ k \in 1..Len(outputs) /\ outputs[k][1] \notin Owned
        /\ result' # "none"
    BY <1>3 DEF Reject, IsOwnedChange, Typed
  <2>2. ASSUME NEW f, Extends(f) PROVE FALSE
    <3>1. PICK i \in 1..Len(approved) : f[i] = k
      BY <2>1, <2>2 DEF Extends, PaysAsApproved
    <3>2. approved[i] = outputs[k]
      BY <2>2, <3>1 DEF Extends, PaysAsApproved
    <3>3. by[i] = 0
      BY <2>2, <3>1 DEF Extends, ClaimsOK, Typed
    <3> QED
      BY <2>1, <3>2, <3>3 DEF Exact, Unmatched
  <2>3. ~Acceptable
    BY <2>1, <2>2 DEF Completable
  <2> QED
    BY <1>0, <2>1, <2>3 DEF Completable, RejectsNoneApproved
<1>4. CASE Finish
  <2>1. /\ UNCHANGED <<outputs, approved, by, k>> /\ result = "none"
        /\ k > Len(outputs)
        /\ result' = IF Unmatched = {} THEN "Ok" ELSE "Missing"
    BY <1>4 DEF Finish
  <2>2. ASSUME NEW f, Extends(f) PROVE Unmatched = {}
    BY <2>1, <2>2 DEF Extends, Unmatched, Typed
  <2> QED
    BY <1>0, <2>1, <2>2 DEF Completable, RejectsNoneApproved
<1>5. CASE UNCHANGED vars
  <2>1. \A f : Extends(f)' = Extends(f)
    BY <1>5 DEF vars, Extends, PaysAsApproved
  <2> QED
    BY <1>0, <1>5, <2>1 DEF vars, Completable, RejectsNoneApproved
<1> QED
  BY <1>1, <1>2, <1>3, <1>4, <1>5 DEF Next

\* verify_psbt_outputs accepts every PSBT that pays as approved.
THEOREM Completeness == Spec => []RejectsNoneApproved
<1>1. Init => ClaimsOK
  BY DEF Init, ClaimsOK
<1>2. Init => Completable
  <2> SUFFICES ASSUME Init PROVE Completable
    OBVIOUS
  <2>1. Typed
    BY ListsAreSeqs, LenProperties DEF Init, Typed
  <2>2. ASSUME Acceptable PROVE \E f : Extends(f)
    BY <2>1, <2>2 DEF Acceptable, Init, Extends, Typed
  <2> QED
    BY <2>2 DEF Init, Completable, RejectsNoneApproved
<1>3. Completable => RejectsNoneApproved
  BY DEF Completable
<1> QED
  BY <1>1, <1>2, <1>3, ClaimsOKStep, CompletableStep, TypedHolds, PTL DEF Spec
============================================================================
