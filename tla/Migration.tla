----------------------------- MODULE Migration -----------------------------
(***************************************************************************)
(* migration.rs: the two sweep algorithms that plan how the accounts of an *)
(* old federation move to a new one.  A behaviour is one call of plan();   *)
(* each transaction it adds to the plan is a step.                         *)
(*                                                                         *)
(* Subtracting a larger Amount from a smaller one panics (in every build), *)
(* so a call ends with Ok, with a MigrationError or with a panic.          *)
(***************************************************************************)
EXTENDS ListOps, SequencesExt

CONSTANTS
    Accounts,        \* the account indices, in the order of the input slice
    FeeAccount,      \* fee_account_idx
    Amounts,         \* the values a UTXO may have
    MaxUtxos,        \* bound: UTXOs per account
    SmallThreshold,  \* small_account_threshold
    FeeRate          \* the fee rate, in sat per 1000 weight units

ASSUME MigrationAssumption ==
    /\ Accounts \in Seq(Nat) /\ IsInjective(Accounts)
    /\ FeeAccount \in Nat
    /\ Amounts \subseteq Nat
    /\ MaxUtxos \in Nat /\ SmallThreshold \in Nat /\ FeeRate \in Nat

VARIABLES
    alg,             \* "single" or "batched"
    sameNetwork,     \* old_network = new_network
    utxos,           \* utxos[a]: the values of account a's UTXOs
    pc,              \* "start", "plan" or "done"
    result,          \* "none" until the call ends
    txs,             \* sweep_transactions
    utxoCount,       \* total_utxo_count
    cumulativeFee,   \* cumulative_fee
    planned          \* planned_fees, what the balance check asked for

input == <<alg, sameNetwork, utxos>>
vars == <<input, pc, result, txs, utxoCount, cumulativeFee, planned>>

----------------------------------------------------------------------------
(* Outpoints.  Change(n) is synthetic_change_outpoint(n - 1): the fee      *)
(* change of the n-th sweep transaction.                                   *)

Utxo(a, j) == <<"utxo", a, j>>
Change(n) == <<"change", n>>

OutpointsOf(a) == [j \in 1..Len(utxos[a]) |-> Utxo(a, j)]

total_value(a) == SumSeq(utxos[a])

InputCount(accts) == SumSeq([k \in 1..Len(accts) |-> Len(utxos[accts[k]])])

Sources(accts) == FlattenSeq([k \in 1..Len(accts) |-> OutpointsOf(accts[k])])

\* estimate_fee: a rough P2WSH size in vbytes, times the rate, rounded up.
estimate_fee(inputs, outputs) ==
    (FeeRate * 4 * (10 + inputs * 105 + outputs * 32) + 999) \div 1000

funded == Keep(Accounts, {a \in ToSet(Accounts) : utxos[a] # <<>>})

non_fee == ToSet(funded) \ {FeeAccount}

large == Keep(funded, {a \in non_fee : total_value(a) >= SmallThreshold})

small == Keep(funded, {a \in non_fee : total_value(a) < SmallThreshold})

batched_estimate_total_fees ==
    SumSeq([k \in 1..Len(large) |-> estimate_fee(Len(utxos[large[k]]) + 1, 2)])
    + (IF small = <<>> THEN 0
       ELSE estimate_fee(InputCount(small) + 1, Len(small) + 1))
    + estimate_fee(Len(utxos[FeeAccount]), 1)

RequiredFees ==
    IF alg = "single" THEN estimate_fee(InputCount(funded), Len(funded))
                      ELSE batched_estimate_total_fees

\* The customers' outputs: each account's full balance.
Customers(accts) == {[account |-> a, amount |-> total_value(a)] : a \in accts}

Inputs == [ToSet(Accounts) -> SeqOf(Amounts, MaxUtxos)]

Init ==
    /\ alg \in {"single", "batched"}
    /\ sameNetwork \in BOOLEAN
    /\ utxos \in Inputs
    /\ pc = "start" /\ result = "none"
    /\ txs = <<>> /\ utxoCount = 0 /\ cumulativeFee = 0 /\ planned = 0

----------------------------------------------------------------------------
End(r) == pc' = "done" /\ result' = r

\* The checks both algorithms make before they plan anything.
Check ==
    /\ pc = "start"
    /\ \/ /\ ~sameNetwork
          /\ End("NetworkMismatch") /\ UNCHANGED planned
       \/ /\ sameNetwork /\ funded = <<>>
          /\ End("NoUtxos") /\ UNCHANGED planned
       \/ /\ sameNetwork /\ funded # <<>> /\ FeeAccount \notin ToSet(funded)
          /\ End("InvalidConfig") /\ UNCHANGED planned
       \/ /\ sameNetwork /\ FeeAccount \in ToSet(funded)
          /\ planned' = RequiredFees
          /\ IF total_value(FeeAccount) < planned'
             THEN End("InsufficientFeeBalance")
             ELSE pc' = "plan" /\ UNCHANGED result
    /\ UNCHANGED <<input, txs, utxoCount, cumulativeFee>>

\* Mutant: the subtraction wraps instead of panicking.
AddTxUnchecked(sources, customers, change, final, fee) ==
    /\ txs' = Append(txs, [sources |-> sources, customers |-> customers,
                           change |-> change, final |-> final])
    /\ utxoCount' = utxoCount + Len(sources)
    /\ cumulativeFee' = cumulativeFee + fee
    /\ IF final THEN End("Ok") ELSE UNCHANGED <<pc, result>>

\* One more transaction of the plan; a negative change is an underflow.
AddTx(sources, customers, change, final, fee) ==
    IF change < 0
    THEN /\ End("panic")
         /\ UNCHANGED <<txs, utxoCount, cumulativeFee>>
    ELSE /\ txs' = Append(txs, [sources |-> sources, customers |-> customers,
                                change |-> change, final |-> final])
         /\ utxoCount' = utxoCount + Len(sources)
         /\ cumulativeFee' = cumulativeFee + fee
         /\ IF final THEN End("Ok") ELSE UNCHANGED <<pc, result>>

\* AccountForAccountSweep: everything in one transaction.
PlanSingle ==
    /\ pc = "plan" /\ alg = "single"
    /\ LET fee == estimate_fee(InputCount(funded), Len(funded))
       IN  AddTx(Sources(funded), Customers(non_fee),
                 total_value(FeeAccount) - fee, TRUE, fee)
    /\ UNCHANGED <<input, planned>>

\* Mutant: every transaction of the chain spends the fee account's first UTXO.
fee_outpoint_first == Utxo(FeeAccount, 1)

\* The fee input of the next transaction of the chain: the fee account's
\* first UTXO, then the previous transaction's change.
fee_outpoint == IF txs = <<>> THEN Utxo(FeeAccount, 1) ELSE Change(Len(txs))

\* Mutant: the fees already paid out of the chain are not deducted.
fee_input_value_undiminished == utxos[FeeAccount][1]

fee_input_value ==
    IF txs = <<>> THEN utxos[FeeAccount][1]
    ELSE utxos[FeeAccount][1] - cumulativeFee

\* plan_large_accounts: an iteration of its loop.
PlanLargeAccount ==
    /\ pc = "plan" /\ alg = "batched"
    /\ Len(txs) < Len(large)
    /\ LET a == large[Len(txs) + 1]
           fee == estimate_fee(Len(utxos[a]) + 1, 2)
       IN  AddTx(Append(OutpointsOf(a), fee_outpoint), Customers({a}),
                 fee_input_value - fee, FALSE, fee)
    /\ UNCHANGED <<input, planned>>

\* plan_small_bundle
PlanSmallBundle ==
    /\ pc = "plan" /\ alg = "batched"
    /\ Len(txs) = Len(large) /\ small # <<>>
    /\ LET fee == estimate_fee(InputCount(small) + 1, Len(small) + 1)
       IN  AddTx(Append(Sources(small), fee_outpoint), Customers(ToSet(small)),
                 fee_input_value - fee, FALSE, fee)
    /\ UNCHANGED <<input, planned>>

\* The fee account itself, last: its other UTXOs and the end of the chain.
PlanFeeAccount ==
    /\ pc = "plan" /\ alg = "batched"
    /\ Len(txs) = Len(large) + (IF small = <<>> THEN 0 ELSE 1)
    /\ LET fee == estimate_fee(Len(utxos[FeeAccount]), 1)
           sources == IF txs = <<>> THEN OutpointsOf(FeeAccount)
                      ELSE Append(Tail(OutpointsOf(FeeAccount)), Change(Len(txs)))
       IN  AddTx(sources, {},
                 total_value(FeeAccount) - (cumulativeFee + fee), TRUE, fee)
    /\ UNCHANGED <<input, planned>>

Next ==
    \/ Check
    \/ PlanSingle
    \/ PlanLargeAccount \/ PlanSmallBundle \/ PlanFeeAccount

Spec == Init /\ [][Next]_vars

----------------------------------------------------------------------------
(* Properties                                                              *)

\* Every variable has its type.
TypeOK ==
    /\ alg \in {"single", "batched"} /\ sameNetwork \in BOOLEAN
    /\ utxos \in Inputs
    /\ pc \in {"start", "plan", "done"}
    /\ result \in {"none", "Ok", "NetworkMismatch", "NoUtxos", "InvalidConfig",
                   "InsufficientFeeBalance", "panic"}
    /\ \A n \in DOMAIN txs : txs[n].change \in Nat /\ txs[n].final \in BOOLEAN
    /\ utxoCount \in Nat /\ cumulativeFee \in Nat /\ planned \in Nat

\* What an outpoint is worth once the transactions before it are on the chain.
ValueOf(o) == IF o[1] = "utxo" THEN utxos[o[2]][o[3]] ELSE txs[o[2]].change

ValueIn(tx) == SumSeq([k \in DOMAIN tx.sources |-> ValueOf(tx.sources[k])])

ValueOut(tx) == SumSeq([k \in DOMAIN Accounts |->
    IF \E c \in tx.customers : c.account = Accounts[k]
    THEN (CHOOSE c \in tx.customers : c.account = Accounts[k]).amount ELSE 0])
    + tx.change

\* The planner's chain adds up: each transaction of an Ok plan spends exactly
\* what it pays out plus the fee estimated for its own inputs and outputs,
\* where the fee input of a chained transaction is worth the change of the
\* transaction before it; total_fees is the sum of those fees and what the
\* balance check asked for; and utxo_count is the number of inputs, the links
\* of the chain included.
PlanBalances ==
    result = "Ok" =>
        LET feeOf(tx) == estimate_fee(Len(tx.sources), Cardinality(tx.customers) + 1)
        IN  /\ \A n \in DOMAIN txs :
                ValueIn(txs[n]) = ValueOut(txs[n]) + feeOf(txs[n])
            /\ cumulativeFee = SumSeq([n \in DOMAIN txs |-> feeOf(txs[n])])
            /\ cumulativeFee = planned
            /\ utxoCount = InputCount(funded) + Len(txs) - 1

\* An Ok plan can be carried out in order and leaves nothing behind: every
\* UTXO is spent by exactly one transaction, a synthetic outpoint is spent by
\* the transaction right after the one it is the change of, no other outpoint
\* is spent, and the fee account migrates last, in the one fee-final
\* transaction, all but the UTXO that started the chain.
SpentExactlyOnce ==
    result = "Ok" =>
        LET last == Len(txs)
        IN  /\ \A n, m \in 1..last :
                \A i \in DOMAIN txs[n].sources, j \in DOMAIN txs[m].sources :
                    txs[n].sources[i] = txs[m].sources[j] => n = m /\ i = j
            /\ UNION {ToSet(txs[n].sources) : n \in 1..last}
                    = (UNION {ToSet(OutpointsOf(a)) : a \in ToSet(Accounts)})
                        \cup {Change(n) : n \in 1..(last - 1)}
            /\ \A n \in 2..last : Change(n - 1) \in ToSet(txs[n].sources)
            /\ \A n \in 1..last : txs[n].final <=> n = last
            /\ \A j \in 2..Len(utxos[FeeAccount]) :
                Utxo(FeeAccount, j) \in ToSet(txs[last].sources)

\* The balance check looks at the fee account's total, the chain starts from
\* its first UTXO alone: past the check, plan() panics exactly when that UTXO
\* is worth less than the fees of all transactions but the last.
PanicsExactlyWhenShort ==
    result \in {"Ok", "panic"} =>
        (result = "panic" <=>
            /\ alg = "batched"
            /\ utxos[FeeAccount][1]
                 < planned - estimate_fee(Len(utxos[FeeAccount]), 1))
============================================================================
