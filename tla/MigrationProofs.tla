-------------------------- MODULE MigrationProofs ---------------------------
(***************************************************************************)
(* Theorems about the sweep planner, for every list of accounts, every     *)
(* threshold and fee rate, and any number and value of UTXOs.              *)
(***************************************************************************)
EXTENDS Migration, ListProofs

----------------------------------------------------------------------------
(* The input                                                               *)

Acc == ToSet(Accounts)

\* The fee account has UTXOs, so its first one can start the chain.
HasFeeAccount == FeeAccount \in ToSet(funded)

FirstUtxo == utxos[FeeAccount][1]

\* The accounts are a list without repetition.
LEMMA AccountsList ==
    Accounts \in Seq(Acc) /\ IsInjective(Accounts)
BY MigrationAssumption DEF Acc, ToSet

\* An account has a list of values and a total.
LEMMA UtxosType ==
    ASSUME utxos \in Inputs, NEW a \in Acc
    PROVE  /\ utxos[a] \in Seq(Nat) /\ Len(utxos[a]) \in Nat
           /\ total_value(a) \in Nat
<1>1. utxos[a] \in SeqOf(Amounts, MaxUtxos)
  BY DEF Inputs, Acc
<1>2. PICK m \in 0..MaxUtxos : utxos[a] \in [1..m -> Amounts]
  BY <1>1 DEF SeqOf
<1>3. m \in Nat /\ Amounts \subseteq Nat
  BY MigrationAssumption
<1>4. utxos[a] \in [1..m -> Nat]
  BY <1>2, <1>3
<1>5. utxos[a] \in Seq(Nat)
  BY <1>3, <1>4
<1> QED BY <1>5, SumType DEF total_value

\* The partition of the accounts.
LEMMA Partition ==
    /\ funded \in Seq(Acc) /\ IsInjective(funded)
    /\ ToSet(funded) = {a \in Acc : utxos[a] # <<>>}
    /\ large \in Seq(Acc) /\ IsInjective(large)
    /\ ToSet(large) = {a \in non_fee : total_value(a) >= SmallThreshold}
    /\ small \in Seq(Acc) /\ IsInjective(small)
    /\ ToSet(small) = {a \in non_fee : total_value(a) < SmallThreshold}
    /\ non_fee \subseteq ToSet(funded)
<1>1. /\ funded \in Seq(Acc) /\ IsInjective(funded)
      /\ ToSet(funded) = {a \in Acc : utxos[a] # <<>>}
  <2> DEFINE T == {a \in ToSet(Accounts) : utxos[a] # <<>>}
  <2>1. funded = Keep(Accounts, T) /\ T = {a \in Acc : utxos[a] # <<>>}
    BY DEF funded, Acc
  <2>2. Acc \cap T = T
    BY DEF Acc
  <2> HIDE DEF T
  <2>3. /\ Keep(Accounts, T) \in Seq(Acc) /\ IsInjective(Keep(Accounts, T))
        /\ ToSet(Keep(Accounts, T)) = ToSet(Accounts) \cap T
    BY AccountsList, KeepIs
  <2> QED BY <2>1, <2>2, <2>3 DEF Acc
<1>2. non_fee \subseteq ToSet(funded)
  BY DEF non_fee
<1>3. /\ large \in Seq(Acc) /\ IsInjective(large)
      /\ ToSet(large) = {a \in non_fee : total_value(a) >= SmallThreshold}
  <2> DEFINE T == {a \in non_fee : total_value(a) >= SmallThreshold}
  <2>1. large = Keep(funded, T)
    BY DEF large
  <2>2. ToSet(funded) \cap T = T
    BY <1>2
  <2> HIDE DEF T
  <2>3. /\ Keep(funded, T) \in Seq(Acc) /\ IsInjective(Keep(funded, T))
        /\ ToSet(Keep(funded, T)) = ToSet(funded) \cap T
    BY <1>1, KeepIs
  <2> QED BY <2>1, <2>2, <2>3 DEF T
<1>4. /\ small \in Seq(Acc) /\ IsInjective(small)
      /\ ToSet(small) = {a \in non_fee : total_value(a) < SmallThreshold}
  <2> DEFINE T == {a \in non_fee : total_value(a) < SmallThreshold}
  <2>1. small = Keep(funded, T)
    BY DEF small
  <2>2. ToSet(funded) \cap T = T
    BY <1>2
  <2> HIDE DEF T
  <2>3. /\ Keep(funded, T) \in Seq(Acc) /\ IsInjective(Keep(funded, T))
        /\ ToSet(Keep(funded, T)) = ToSet(funded) \cap T
    BY <1>1, KeepIs
  <2> QED BY <2>1, <2>2, <2>3 DEF T
<1> QED BY <1>1, <1>2, <1>3, <1>4

\* A fee estimate is a natural.
LEMMA EstimateType ==
    ASSUME NEW i \in Nat, NEW o \in Nat
    PROVE  estimate_fee(i, o) \in Nat
<1> DEFINE size == 10 + i * 105 + o * 32
           w == FeeRate * 4 * size
<1>1. size \in Nat
  OBVIOUS
<1> HIDE DEF size
<1>2. FeeRate * 4 \in Nat
  BY MigrationAssumption
<1>3. w \in Nat
  BY <1>1, <1>2
<1>4. estimate_fee(i, o) = (w + 999) \div 1000
  BY DEF estimate_fee, size
<1> HIDE DEF w
<1> QED BY <1>3, <1>4

\* How many UTXOs each account has, as a function.
Counts == [a \in Acc |-> Len(utxos[a])]

\* The inputs of a list of accounts are counted account by account.
LEMMA InputCountIs ==
    ASSUME utxos \in Inputs, NEW l \in Seq(Acc)
    PROVE  /\ Counts \in [Acc -> Nat]
           /\ InputCount(l) = MapSum(Counts, l) /\ InputCount(l) \in Nat
<1>1. Counts \in [Acc -> Nat]
  BY UtxosType DEF Counts
<1>2. [k \in 1..Len(l) |-> Len(utxos[l[k]])] = [k \in 1..Len(l) |-> Counts[l[k]]]
  BY DEF Counts
<1>3. InputCount(l) = MapSum(Counts, l)
  BY <1>2 DEF InputCount, MapSum
<1>4. MapSum(Counts, l) \in Nat
  BY <1>1, MapSumType
<1> QED BY <1>1, <1>3, <1>4

\* The UTXOs of the old federation.
Utxos == UNION {ToSet(OutpointsOf(a)) : a \in Acc}

\* The outpoints of an account are those of its UTXOs, in order.
LEMMA OutpointsType ==
    ASSUME utxos \in Inputs, NEW a \in Acc
    PROVE  /\ OutpointsOf(a) \in Seq(Utxos) /\ Len(OutpointsOf(a)) = Len(utxos[a])
           /\ \A j \in 1..Len(utxos[a]) : OutpointsOf(a)[j] = Utxo(a, j)
                                             /\ Utxo(a, j) \in Utxos
<1>1. Len(utxos[a]) \in Nat
  BY UtxosType
<1>2. \A j \in 1..Len(utxos[a]) : Utxo(a, j) \in ToSet(OutpointsOf(a))
  BY <1>1 DEF OutpointsOf, ToSet
<1>3. \A j \in 1..Len(utxos[a]) : Utxo(a, j) \in Utxos
  BY <1>2 DEF Utxos
<1> QED BY <1>1, <1>3 DEF OutpointsOf

\* The sources of a bundle of accounts are a list of as many outpoints.
LEMMA SourcesType ==
    ASSUME utxos \in Inputs, NEW l \in Seq(Acc)
    PROVE  /\ [k \in 1..Len(l) |-> OutpointsOf(l[k])] \in Seq(Seq(Utxos))
           /\ Sources(l) \in Seq(Utxos) /\ Len(Sources(l)) \in Nat
<1> DEFINE ss == [k \in 1..Len(l) |-> OutpointsOf(l[k])]
<1>1. Len(l) \in Nat /\ \A k \in 1..Len(l) : l[k] \in Acc
  OBVIOUS
<1>2. \A k \in 1..Len(l) : OutpointsOf(l[k]) \in Seq(Utxos)
  BY <1>1, OutpointsType
<1> DEFINE Y == Seq(Utxos)
<1>3. \A k \in 1..Len(l) : OutpointsOf(l[k]) \in Y
  BY <1>2
<1> HIDE DEF Y
<1>4. ss \in Seq(Y)
  BY <1>1, <1>3
<1>5. ss \in Seq(Seq(Utxos))
  BY <1>4 DEF Y
<1> HIDE DEF ss
<1>6. FlattenSeq(ss) \in Seq(Utxos)
  BY <1>5, FlattenType
<1>7. Sources(l) = FlattenSeq(ss)
  BY DEF Sources, ss
<1>8. Sources(l) \in Seq(Utxos)
  BY <1>6, <1>7
<1>9. Len(Sources(l)) \in Nat
  BY <1>8
<1> QED BY <1>5, <1>8, <1>9 DEF ss

----------------------------------------------------------------------------
(* The chain in closed form: what the n-th transaction of the batched plan *)
(* is, and what the transactions up to it cost.                            *)

ChainLen == Len(large) + (IF small = <<>> THEN 0 ELSE 1)

ChainFee(n) ==
    IF n <= Len(large) THEN estimate_fee(Len(utxos[large[n]]) + 1, 2)
    ELSE estimate_fee(InputCount(small) + 1, Len(small) + 1)

\* The fees of the first n transactions.
Spent(n) == SumSeq([k \in 1..n |-> ChainFee(k)])

ChainTx(n) ==
    [sources |-> Append(IF n <= Len(large) THEN OutpointsOf(large[n]) ELSE Sources(small),
                        IF n = 1 THEN Utxo(FeeAccount, 1) ELSE Change(n - 1)),
     customers |-> Customers(IF n <= Len(large) THEN {large[n]} ELSE ToSet(small)),
     change |-> FirstUtxo - Spent(n), final |-> FALSE]

Chain(n) == [k \in 1..n |-> ChainTx(k)]

SourceCount(n) == SumSeq([k \in 1..n |-> Len(ChainTx(k).sources)])

LastFee == estimate_fee(Len(utxos[FeeAccount]), 1)

FinalTx ==
    [sources |-> IF ChainLen = 0 THEN OutpointsOf(FeeAccount)
                 ELSE Append(Tail(OutpointsOf(FeeAccount)), Change(ChainLen)),
     customers |-> {}, change |-> total_value(FeeAccount) - (Spent(ChainLen) + LastFee),
     final |-> TRUE]

SingleFee == estimate_fee(InputCount(funded), Len(funded))

SingleTx ==
    [sources |-> Sources(funded), customers |-> Customers(non_fee),
     change |-> total_value(FeeAccount) - SingleFee, final |-> TRUE]

\* The outpoints a batched plan may spend.
Outpoints == Utxos \cup {Change(n) : n \in 1..ChainLen}

\* The closed form depends on the input alone.
LEMMA ClosedFormUnchanged ==
    ASSUME UNCHANGED utxos
    PROVE  /\ funded' = funded /\ large' = large /\ small' = small
           /\ non_fee' = non_fee
           /\ UNCHANGED <<HasFeeAccount, FirstUtxo, ChainLen, LastFee, FinalTx,
                          SingleFee, SingleTx, total_value(FeeAccount),
                          batched_estimate_total_fees>>
           /\ \A n : UNCHANGED <<Spent(n), Chain(n), SourceCount(n)>>
<1>1. \A a : UNCHANGED <<total_value(a), OutpointsOf(a)>>
  BY DEF total_value, OutpointsOf
<1>2. UNCHANGED <<funded, non_fee>>
  BY DEF funded, non_fee
<1>3. UNCHANGED <<large, small>>
  BY <1>1, <1>2 DEF large, small
<1>4. UNCHANGED <<InputCount(funded), InputCount(small), Sources(funded), Sources(small)>>
  BY <1>1, <1>2, <1>3 DEF InputCount, Sources
<1>5. \A S : UNCHANGED Customers(S)
  BY <1>1 DEF Customers
<1>6. \A n : UNCHANGED ChainFee(n)
  BY <1>3, <1>4 DEF ChainFee, estimate_fee
<1>7. \A n : UNCHANGED Spent(n)
  BY <1>6 DEF Spent
<1>8. UNCHANGED <<ChainLen, FirstUtxo, HasFeeAccount, LastFee, SingleFee,
                  total_value(FeeAccount), batched_estimate_total_fees>>
  BY <1>1, <1>2, <1>3, <1>4 DEF ChainLen, FirstUtxo, HasFeeAccount, LastFee, SingleFee,
     estimate_fee, batched_estimate_total_fees
<1>9. \A n : UNCHANGED ChainTx(n)
  BY <1>1, <1>3, <1>4, <1>5, <1>7, <1>8 DEF ChainTx, Change, Utxo
<1>10. \A n : UNCHANGED <<Chain(n), SourceCount(n)>>
  BY <1>9 DEF Chain, SourceCount
<1>11. UNCHANGED <<FinalTx, SingleTx>>
  BY <1>1, <1>2, <1>4, <1>5, <1>7, <1>8 DEF FinalTx, SingleTx, Change, Utxo
<1> QED BY <1>2, <1>3, <1>7, <1>8, <1>10, <1>11

\* A funded fee account has a first UTXO.
LEMMA FeeAccountFacts ==
    ASSUME utxos \in Inputs, HasFeeAccount
    PROVE  /\ FeeAccount \in Acc /\ Len(utxos[FeeAccount]) \in Nat \ {0}
           /\ FirstUtxo \in Nat /\ LastFee \in Nat /\ total_value(FeeAccount) \in Nat
<1>1. FeeAccount \in Acc /\ utxos[FeeAccount] # <<>>
  BY Partition DEF HasFeeAccount
<1>2. utxos[FeeAccount] \in Seq(Nat) /\ total_value(FeeAccount) \in Nat
  BY <1>1, UtxosType
<1>3. Len(utxos[FeeAccount]) \in Nat \ {0}
  BY <1>1, <1>2
<1>4. utxos[FeeAccount][1] \in Nat
  BY <1>2, <1>3
<1>5. LastFee \in Nat
  BY <1>3, EstimateType DEF LastFee
<1> QED BY <1>1, <1>2, <1>3, <1>4, <1>5 DEF FirstUtxo

\* The chain is the large accounts, then the small bundle if there is one.
LEMMA ChainLenFacts ==
    /\ Len(large) \in Nat /\ Len(small) \in Nat /\ ChainLen \in Nat
    /\ \A n \in 1..ChainLen : n > Len(large) =>
            small # <<>> /\ n = Len(large) + 1 /\ n = ChainLen
<1>1. Len(large) \in Nat /\ Len(small) \in Nat
  BY Partition
<1>2. CASE small = <<>>
  BY <1>1, <1>2 DEF ChainLen
<1>3. CASE small # <<>>
  BY <1>1, <1>3 DEF ChainLen
<1> QED BY <1>1, <1>2, <1>3

\* Every transaction of the chain has a fee.
LEMMA ChainFeeType ==
    ASSUME utxos \in Inputs, NEW n \in 1..ChainLen
    PROVE  ChainFee(n) \in Nat
<1>1. CASE n <= Len(large)
  <2>1. n \in 1..Len(large)
    BY <1>1, ChainLenFacts
  <2>2. large[n] \in Acc
    BY <2>1, Partition
  <2>3. Len(utxos[large[n]]) + 1 \in Nat
    BY <2>2, UtxosType
  <2> QED BY <1>1, <2>3, EstimateType DEF ChainFee
<1>2. CASE ~(n <= Len(large))
  <2>1. InputCount(small) \in Nat /\ Len(small) \in Nat
    BY Partition, InputCountIs, ChainLenFacts
  <2>2. InputCount(small) + 1 \in Nat /\ Len(small) + 1 \in Nat
    BY <2>1
  <2> QED BY <1>2, <2>2, EstimateType DEF ChainFee
<1> QED BY <1>1, <1>2

\* Each transaction adds its fee to what the chain has spent.
LEMMA SpentSteps ==
    ASSUME utxos \in Inputs
    PROVE  /\ Spent(0) = 0
           /\ \A n \in 0..ChainLen : Spent(n) \in Nat
           /\ \A n \in 1..ChainLen : Spent(n) = Spent(n - 1) + ChainFee(n)
<1> DEFINE N == ChainLen
           f == [k \in 1..N |-> ChainFee(k)]
<1>1. N \in Nat
  BY ChainLenFacts
<1>2. f \in [1..N -> Nat]
  BY ChainFeeType
<1> HIDE DEF N
<1>3. ASSUME NEW n \in 0..N PROVE Spent(n) = SumSeq([k \in 1..n |-> f[k]])
  <2>1. [k \in 1..n |-> f[k]] = [k \in 1..n |-> ChainFee(k)]
    BY <1>1
  <2> QED BY <2>1 DEF Spent
<1>4. \A n \in 1..N : n - 1 \in 0..N /\ n \in 0..N /\ f[n] = ChainFee(n)
  BY <1>1
<1>5. 0 \in 0..N
  BY <1>1
<1> HIDE DEF f
<1>6. /\ SumSeq([k \in 1..0 |-> f[k]]) = 0
      /\ \A n \in 0..N : SumSeq([k \in 1..n |-> f[k]]) \in Nat
      /\ \A n \in 1..N : SumSeq([k \in 1..n |-> f[k]])
                           = SumSeq([k \in 1..(n - 1) |-> f[k]]) + f[n]
  BY <1>1, <1>2, PrefixSums
<1>7. Spent(0) = 0
  BY <1>3, <1>5, <1>6
<1>8. \A n \in 0..N : Spent(n) \in Nat
  BY <1>3, <1>6
<1>9. ASSUME NEW n \in 1..N PROVE Spent(n) = Spent(n - 1) + ChainFee(n)
  BY <1>3, <1>4, <1>6
<1> QED BY <1>7, <1>8, <1>9 DEF N

\* What the chain has spent only grows.
LEMMA SpentGrows ==
    ASSUME utxos \in Inputs, NEW m \in 0..ChainLen, NEW top \in 0..ChainLen, m <= top
    PROVE  Spent(m) <= Spent(top)
<1> DEFINE N == ChainLen
           A == {n \in 0..N : n >= m => Spent(m) <= Spent(n)}
<1>1. N \in Nat
  BY ChainLenFacts
<1>2. \A n \in 0..N : Spent(n) \in Nat
  BY SpentSteps
<1>3. \A n \in 1..N : Spent(n) = Spent(n - 1) + ChainFee(n) /\ ChainFee(n) \in Nat
  BY SpentSteps, ChainFeeType
<1>m. m \in 0..N /\ top \in 0..N
  OBVIOUS
<1> HIDE DEF N
<1>4. 0 \in A
  <2>1. 0 >= m => m = 0
    BY <1>1, <1>m
  <2>2. Spent(0) <= Spent(0) /\ 0 \in 0..N
    BY <1>1, <1>2
  <2> QED BY <2>1, <2>2
<1>5. ASSUME NEW n \in 1..N, n - 1 \in A PROVE n \in A
  <2>1. n \in 0..N /\ n - 1 \in 0..N
    BY <1>1
  <2>2. CASE n = m
    BY <1>2, <2>1, <2>2
  <2>3. CASE n # m
    <3>1. n >= m => n - 1 >= m
      BY <1>1, <1>m, <2>3
    <3>2. n >= m => Spent(m) <= Spent(n - 1)
      BY <1>5, <3>1
    <3>3. /\ Spent(m) \in Nat /\ Spent(n - 1) \in Nat /\ Spent(n) \in Nat
          /\ Spent(n) = Spent(n - 1) + ChainFee(n) /\ ChainFee(n) \in Nat
      BY <1>2, <1>3, <1>m, <2>1
    <3>4. n >= m => Spent(m) <= Spent(n)
      BY <3>2, <3>3
    <3> QED BY <2>1, <3>4
  <2> QED BY <2>2, <2>3
<1> HIDE DEF A
<1>6. 0..N \subseteq A
  BY <1>1, <1>4, <1>5, UpToInduction
<1>7. top \in A /\ top >= m
  BY <1>1, <1>6, <1>m
<1> QED BY <1>7 DEF A

\* What the balance check asks for is what the chain and its end cost.
LEMMA PlannedIsSpent ==
    ASSUME utxos \in Inputs, HasFeeAccount
    PROVE  batched_estimate_total_fees = Spent(ChainLen) + LastFee
<1> DEFINE L == Len(large)
           first == SumSeq([k \in 1..Len(large) |->
                               estimate_fee(Len(utxos[large[k]]) + 1, 2)])
<1>1. L \in Nat /\ ChainLen \in Nat
  BY ChainLenFacts
<1>2. \A k \in 1..L : ChainFee(k) = estimate_fee(Len(utxos[large[k]]) + 1, 2)
  BY <1>1 DEF ChainFee
<1>3. [k \in 1..L |-> ChainFee(k)]
        = [k \in 1..L |-> estimate_fee(Len(utxos[large[k]]) + 1, 2)]
  BY <1>2
<1>4. Spent(L) = first
  BY <1>3 DEF Spent
<1>5. batched_estimate_total_fees =
        first + (IF small = <<>> THEN 0
                 ELSE estimate_fee(InputCount(small) + 1, Len(small) + 1)) + LastFee
  BY DEF batched_estimate_total_fees, LastFee
<1> HIDE DEF first
<1>6. CASE small = <<>>
  <2>1. ChainLen = L
    BY <1>1, <1>6 DEF ChainLen
  <2>2. Spent(L) \in Nat
    BY <1>1, <2>1, SpentSteps
  <2> QED BY <1>4, <1>5, <1>6, <2>1, <2>2
<1>7. CASE small # <<>>
  <2>1. ChainLen = L + 1
    BY <1>7 DEF ChainLen
  <2>2. L + 1 \in 1..ChainLen /\ (L + 1) - 1 = L /\ ~(L + 1 <= L)
    BY <1>1, <2>1
  <2>3. ChainFee(L + 1) = estimate_fee(InputCount(small) + 1, Len(small) + 1)
    BY <2>2 DEF ChainFee
  <2>4. Spent(L + 1) = Spent(L) + ChainFee(L + 1)
    BY <2>2, SpentSteps
  <2> QED BY <1>4, <1>5, <1>7, <2>1, <2>3, <2>4
<1> QED BY <1>6, <1>7

\* The inputs of a transaction of the chain are outpoints.
LEMMA ChainSourcesType ==
    ASSUME utxos \in Inputs, HasFeeAccount, NEW n \in 1..ChainLen
    PROVE  ChainTx(n).sources \in Seq(Outpoints) /\ Len(ChainTx(n).sources) \in Nat
<1> DEFINE own == IF n <= Len(large) THEN OutpointsOf(large[n]) ELSE Sources(small)
           link == IF n = 1 THEN Utxo(FeeAccount, 1) ELSE Change(n - 1)
<1>1. own \in Seq(Outpoints)
  <2>1. CASE n <= Len(large)
    <3>1. large[n] \in Acc
      BY <2>1, ChainLenFacts, Partition
    <3>2. OutpointsOf(large[n]) \in Seq(Utxos)
      BY <3>1, OutpointsType
    <3> QED BY <2>1, <3>2 DEF Outpoints
  <2>2. CASE ~(n <= Len(large))
    <3>1. Sources(small) \in Seq(Utxos)
      BY Partition, SourcesType
    <3> QED BY <2>2, <3>1 DEF Outpoints
  <2> QED BY <2>1, <2>2
<1>2. link \in Outpoints
  <2>1. Utxo(FeeAccount, 1) \in Outpoints
    <3>1. FeeAccount \in Acc /\ 1 \in 1..Len(utxos[FeeAccount])
      BY FeeAccountFacts
    <3> QED BY <3>1, OutpointsType DEF Outpoints
  <2>2. n # 1 => Change(n - 1) \in Outpoints
    <3>1. n # 1 => n - 1 \in 1..ChainLen
      BY ChainLenFacts
    <3> QED BY <3>1 DEF Outpoints
  <2> QED BY <2>1, <2>2
<1>3. ChainTx(n).sources = Append(own, link)
  BY DEF ChainTx
<1> HIDE DEF own, link
<1>4. ChainTx(n).sources \in Seq(Outpoints)
  BY <1>1, <1>2, <1>3
<1>5. Len(ChainTx(n).sources) \in Nat
  BY <1>4
<1> QED BY <1>4, <1>5

\* The sources of the last transaction.
LEMMA FinalSourcesType ==
    ASSUME utxos \in Inputs, HasFeeAccount
    PROVE  FinalTx.sources \in Seq(Outpoints) /\ Len(FinalTx.sources) \in Nat
<1>1. FeeAccount \in Acc /\ Len(utxos[FeeAccount]) \in Nat \ {0} /\ ChainLen \in Nat
  BY FeeAccountFacts, ChainLenFacts
<1> DEFINE o == OutpointsOf(FeeAccount)
<1>2. o \in Seq(Outpoints) /\ Len(o) = Len(utxos[FeeAccount])
  <2>1. o \in Seq(Utxos) /\ Len(o) = Len(utxos[FeeAccount])
    BY <1>1, OutpointsType
  <2> HIDE DEF o
  <2> QED BY <2>1 DEF Outpoints
<1>3. ChainLen # 0 => Change(ChainLen) \in Outpoints
  <2>1. ChainLen # 0 => ChainLen \in 1..ChainLen
    BY <1>1
  <2> QED BY <2>1 DEF Outpoints
<1> HIDE DEF o
<1>4. o # <<>>
  BY <1>1, <1>2
<1>5. ChainLen # 0 => Append(Tail(o), Change(ChainLen)) \in Seq(Outpoints)
  BY <1>2, <1>3, <1>4
<1>6. FinalTx.sources = IF ChainLen = 0 THEN o ELSE Append(Tail(o), Change(ChainLen))
  BY DEF FinalTx, o
<1>7. FinalTx.sources \in Seq(Outpoints)
  BY <1>2, <1>5, <1>6
<1>8. Len(FinalTx.sources) \in Nat
  BY <1>7
<1> QED BY <1>7, <1>8

\* Each transaction adds its inputs to the count.
LEMMA SourceCountSteps ==
    ASSUME utxos \in Inputs, HasFeeAccount
    PROVE  /\ SourceCount(0) = 0
           /\ \A n \in 0..ChainLen : SourceCount(n) \in Nat
           /\ \A n \in 1..ChainLen :
                SourceCount(n) = SourceCount(n - 1) + Len(ChainTx(n).sources)
<1> DEFINE N == ChainLen
           f == [k \in 1..N |-> Len(ChainTx(k).sources)]
<1>1. N \in Nat
  BY ChainLenFacts
<1>2. f \in [1..N -> Nat]
  BY ChainSourcesType
<1> HIDE DEF N
<1>3. ASSUME NEW n \in 0..N PROVE SourceCount(n) = SumSeq([k \in 1..n |-> f[k]])
  <2>1. [k \in 1..n |-> f[k]] = [k \in 1..n |-> Len(ChainTx(k).sources)]
    BY <1>1
  <2> QED BY <2>1 DEF SourceCount
<1>4. \A n \in 1..N : n - 1 \in 0..N /\ n \in 0..N /\ f[n] = Len(ChainTx(n).sources)
  BY <1>1
<1>5. 0 \in 0..N
  BY <1>1
<1> HIDE DEF f
<1>6. /\ SumSeq([k \in 1..0 |-> f[k]]) = 0
      /\ \A n \in 0..N : SumSeq([k \in 1..n |-> f[k]]) \in Nat
      /\ \A n \in 1..N : SumSeq([k \in 1..n |-> f[k]])
                           = SumSeq([k \in 1..(n - 1) |-> f[k]]) + f[n]
  BY <1>1, <1>2, PrefixSums
<1>7. SourceCount(0) = 0
  BY <1>3, <1>5, <1>6
<1>8. \A n \in 0..N : SourceCount(n) \in Nat
  BY <1>3, <1>6
<1>9. ASSUME NEW n \in 1..N
      PROVE  SourceCount(n) = SourceCount(n - 1) + Len(ChainTx(n).sources)
  BY <1>3, <1>4, <1>6
<1> QED BY <1>7, <1>8, <1>9 DEF N

\* The chain grows by its next transaction.
LEMMA ChainGrows ==
    ASSUME NEW n \in Nat
    PROVE  /\ Append(Chain(n), ChainTx(n + 1)) = Chain(n + 1)
           /\ Len(Chain(n)) = n /\ Chain(0) = <<>>
<1> DEFINE X == {ChainTx(k) : k \in 1..(n + 1)}
<1>1. Chain(n) \in Seq(X) /\ Len(Chain(n)) = n
  BY DEF Chain
<1>2. Append(Chain(n), ChainTx(n + 1)) = Chain(n + 1)
  BY DEF Chain
<1>3. Chain(0) = <<>>
  BY DEF Chain
<1> QED BY <1>1, <1>2, <1>3

----------------------------------------------------------------------------
(* The inductive invariant                                                 *)

InputInv == alg \in {"single", "batched"} /\ sameNetwork \in BOOLEAN /\ utxos \in Inputs

Errors == {"NetworkMismatch", "NoUtxos", "InvalidConfig", "InsufficientFeeBalance"}

ControlInv ==
    \/ pc = "start" /\ result = "none"
    \/ pc = "plan" /\ result = "none"
    \/ pc = "done" /\ result \in Errors \cup {"Ok", "panic"}

\* Nothing is planned before the checks are passed.
NothingInv ==
    pc = "start" \/ result \in Errors =>
        txs = <<>> /\ utxoCount = 0 /\ cumulativeFee = 0 /\ planned \in Nat

\* Past the checks the fee account covers the fees in total.
FundedInv ==
    pc = "plan" \/ result \in {"Ok", "panic"} =>
        /\ HasFeeAccount
        /\ planned = (IF alg = "single" THEN SingleFee ELSE Spent(ChainLen) + LastFee)
        /\ total_value(FeeAccount) >= planned

SingleInv ==
    alg = "single" =>
        /\ result # "panic"
        /\ pc = "plan" => txs = <<>> /\ utxoCount = 0 /\ cumulativeFee = 0
        /\ result = "Ok" => /\ txs = <<SingleTx>> /\ cumulativeFee = planned
                            /\ utxoCount = Len(Sources(funded))

\* The batched plan is a prefix of the chain, which its fees do not exhaust.
BatchedInv ==
    alg = "batched" =>
        /\ pc = "plan" \/ result = "panic" =>
            /\ Len(txs) \in 0..ChainLen
            /\ txs = Chain(Len(txs))
            /\ cumulativeFee = Spent(Len(txs)) /\ cumulativeFee <= FirstUtxo
            /\ utxoCount = SourceCount(Len(txs))
        /\ result = "panic" => FirstUtxo < Spent(ChainLen)
        /\ result = "Ok" =>
            /\ txs = Append(Chain(ChainLen), FinalTx)
            /\ cumulativeFee = planned /\ Spent(ChainLen) <= FirstUtxo
            /\ utxoCount = SourceCount(ChainLen) + Len(FinalTx.sources)

PlanInv == InputInv /\ ControlInv /\ NothingInv /\ FundedInv /\ SingleInv /\ BatchedInv

\* The single transaction has a fee.
LEMMA SingleFeeType ==
    ASSUME utxos \in Inputs
    PROVE  SingleFee \in Nat
<1>1. InputCount(funded) \in Nat /\ Len(funded) \in Nat
  BY Partition, InputCountIs
<1> QED BY <1>1, EstimateType DEF SingleFee

\* The invariant holds when plan() is called.
LEMMA PlanInit ==
    ASSUME Init
    PROVE  PlanInv
BY DEF Init, PlanInv, InputInv, ControlInv, NothingInv, FundedInv, SingleInv,
       BatchedInv, Errors

\* The checks keep the invariant.
LEMMA CheckStep ==
    ASSUME PlanInv, Check
    PROVE  PlanInv'
<1>1. /\ UNCHANGED <<alg, sameNetwork, utxos, txs, utxoCount, cumulativeFee>>
      /\ pc = "start" /\ result = "none" /\ utxos \in Inputs
      /\ txs = <<>> /\ utxoCount = 0 /\ cumulativeFee = 0 /\ planned \in Nat
  BY DEF PlanInv, InputInv, ControlInv, NothingInv, Check, input
<1>i. InputInv'
  BY <1>1 DEF PlanInv, InputInv
<1>u. /\ UNCHANGED <<HasFeeAccount, FirstUtxo, ChainLen, LastFee, FinalTx,
                     SingleFee, SingleTx, total_value(FeeAccount)>>
      /\ \A n : UNCHANGED <<Spent(n), Chain(n), SourceCount(n)>>
  BY <1>1, ClosedFormUnchanged
<1>2. CASE /\ pc' = "done" /\ result' \in Errors /\ planned' \in Nat
  BY <1>1, <1>2, <1>i DEF PlanInv, ControlInv, NothingInv, FundedInv, SingleInv,
     BatchedInv, Errors
<1>3. CASE /\ HasFeeAccount /\ planned' = RequiredFees
           /\ ~(total_value(FeeAccount) < planned')
           /\ pc' = "plan" /\ UNCHANGED result
  <2>1. /\ FirstUtxo \in Nat /\ LastFee \in Nat /\ total_value(FeeAccount) \in Nat
        /\ SingleFee \in Nat
    BY <1>1, <1>3, FeeAccountFacts, SingleFeeType
  <2>2. Spent(ChainLen) \in Nat /\ Spent(0) = 0 /\ ChainLen \in Nat
    BY <1>1, SpentSteps, ChainLenFacts
  <2>3. planned' = (IF alg = "single" THEN SingleFee ELSE Spent(ChainLen) + LastFee)
    BY <1>1, <1>3, PlannedIsSpent DEF RequiredFees, SingleFee
  <2>4. planned' \in Nat /\ total_value(FeeAccount) >= planned'
    BY <1>3, <2>1, <2>2, <2>3
  <2>5. FundedInv'
    BY <1>1, <1>3, <1>u, <2>3, <2>4 DEF FundedInv
  <2>6. SingleInv'
    BY <1>1, <1>3 DEF SingleInv
  <2>7. BatchedInv'
    <3>1. Len(txs) = 0 /\ 0 \in 0..ChainLen /\ Chain(0) = <<>> /\ 0 <= FirstUtxo
      BY <1>1, <2>1, <2>2, ChainGrows
    <3>2. SourceCount(0) = 0
      BY <1>1, <1>3, SourceCountSteps
    <3> QED BY <1>1, <1>3, <1>u, <2>2, <3>1, <3>2 DEF BatchedInv
  <2>8. ControlInv' /\ NothingInv'
    BY <1>1, <1>3 DEF ControlInv, NothingInv, Errors
  <2> QED BY <1>i, <2>5, <2>6, <2>7, <2>8 DEF PlanInv
<1>4. CASE HasFeeAccount /\ planned' = RequiredFees /\ End("InsufficientFeeBalance")
  <2>1. FirstUtxo \in Nat /\ LastFee \in Nat /\ SingleFee \in Nat
    BY <1>1, <1>4, FeeAccountFacts, SingleFeeType
  <2>2. Spent(ChainLen) \in Nat
    BY <1>1, SpentSteps, ChainLenFacts
  <2>3. planned' = (IF alg = "single" THEN SingleFee ELSE Spent(ChainLen) + LastFee)
    BY <1>1, <1>4, PlannedIsSpent DEF RequiredFees, SingleFee
  <2>4. planned' \in Nat
    BY <2>1, <2>2, <2>3
  <2> QED BY <1>2, <1>4, <2>4 DEF End, Errors
<1> QED BY <1>1, <1>2, <1>3, <1>4 DEF Check, End, Errors, HasFeeAccount

\* The single transaction keeps the invariant; its change is not negative.
LEMMA SingleStep ==
    ASSUME PlanInv, PlanSingle
    PROVE  PlanInv'
<1>1. /\ UNCHANGED <<alg, sameNetwork, utxos, planned>>
      /\ pc = "plan" /\ alg = "single" /\ utxos \in Inputs /\ result = "none"
      /\ txs = <<>> /\ utxoCount = 0 /\ cumulativeFee = 0
      /\ HasFeeAccount /\ planned = SingleFee /\ total_value(FeeAccount) >= planned
  BY DEF PlanInv, InputInv, ControlInv, FundedInv, SingleInv, PlanSingle, input, Errors
<1>i. InputInv'
  BY <1>1 DEF PlanInv, InputInv
<1>u. UNCHANGED <<HasFeeAccount, funded, SingleFee, SingleTx, total_value(FeeAccount)>>
  BY <1>1, ClosedFormUnchanged
<1>2. total_value(FeeAccount) \in Nat /\ SingleFee \in Nat
  BY <1>1, FeeAccountFacts, SingleFeeType
<1>3. AddTx(Sources(funded), Customers(non_fee), total_value(FeeAccount) - SingleFee,
            TRUE, SingleFee)
  BY DEF PlanSingle, SingleFee
<1>4. ~(total_value(FeeAccount) - SingleFee < 0)
  BY <1>1, <1>2
<1>5. /\ txs' = Append(txs, SingleTx)
      /\ utxoCount' = utxoCount + Len(Sources(funded))
      /\ cumulativeFee' = cumulativeFee + SingleFee
      /\ pc' = "done" /\ result' = "Ok"
  BY <1>3, <1>4 DEF AddTx, End, SingleTx
<1>6. txs' = <<SingleTx>>
  BY <1>1, <1>5
<1>7. Len(Sources(funded)) \in Nat
  BY <1>1, Partition, SourcesType
<1>8. cumulativeFee' = planned /\ utxoCount' = Len(Sources(funded))
  BY <1>1, <1>2, <1>5, <1>7
<1>9. Sources(funded)' = Sources(funded)
  BY <1>1, <1>u DEF Sources, OutpointsOf
<1>10. SingleInv'
  BY <1>1, <1>5, <1>6, <1>8, <1>9, <1>u DEF SingleInv
<1>11. FundedInv' /\ BatchedInv'
  BY <1>1, <1>u DEF FundedInv, BatchedInv
<1>12. ControlInv' /\ NothingInv'
  BY <1>5 DEF ControlInv, NothingInv, Errors
<1> QED BY <1>10, <1>11, <1>12, <1>i DEF PlanInv

\* A transaction of the chain other than the last is added, or the planner
\* panics.
LEMMA ChainStep ==
    ASSUME PlanInv, pc = "plan", alg = "batched",
           UNCHANGED <<alg, sameNetwork, utxos, planned>>,
           Len(txs) < ChainLen,
           NEW tx, tx = ChainTx(Len(txs) + 1),
           AddTx(tx.sources, tx.customers, fee_input_value - ChainFee(Len(txs) + 1),
                 FALSE, ChainFee(Len(txs) + 1))
    PROVE  PlanInv'
<1> DEFINE n == Len(txs)
           fee == ChainFee(n + 1)
<1>1. /\ utxos \in Inputs /\ result = "none" /\ HasFeeAccount
      /\ n \in 0..ChainLen /\ txs = Chain(n) /\ cumulativeFee = Spent(n)
      /\ cumulativeFee <= FirstUtxo /\ utxoCount = SourceCount(n)
  BY DEF PlanInv, InputInv, ControlInv, FundedInv, BatchedInv, Errors
<1>i. InputInv'
  BY DEF PlanInv, InputInv
<1>u. /\ UNCHANGED <<HasFeeAccount, FirstUtxo, ChainLen, LastFee, FinalTx,
                     SingleFee, SingleTx, total_value(FeeAccount)>>
      /\ \A k : UNCHANGED <<Spent(k), Chain(k), SourceCount(k)>>
  BY ClosedFormUnchanged
<1>2. ChainLen \in Nat /\ n \in Nat /\ n + 1 \in 1..ChainLen /\ (n + 1) - 1 = n
  BY <1>1, ChainLenFacts
<1>3. /\ Spent(n) \in Nat /\ fee \in Nat /\ Spent(n + 1) = Spent(n) + fee
      /\ Spent(n + 1) \in Nat /\ Spent(ChainLen) \in Nat
      /\ Spent(n + 1) <= Spent(ChainLen)
  <2>1. n + 1 \in 0..ChainLen /\ ChainLen \in 0..ChainLen /\ n + 1 <= ChainLen
    BY <1>2
  <2> QED BY <1>1, <1>2, <2>1, SpentSteps, SpentGrows, ChainFeeType
<1>4. FirstUtxo \in Nat
  BY <1>1, FeeAccountFacts
<1>5. fee_input_value = FirstUtxo - Spent(n)
  <2>1. CASE txs = <<>>
    <3>1. n = 0
      BY <2>1
    <3>2. Spent(n) = 0
      BY <1>1, <3>1, SpentSteps
    <3> QED BY <1>4, <2>1, <3>2 DEF fee_input_value, FirstUtxo
  <2>2. CASE txs # <<>>
    BY <1>1, <2>2 DEF fee_input_value, FirstUtxo
  <2> QED BY <2>1, <2>2
<1>f. /\ FundedInv /\ total_value(FeeAccount) >= planned
      /\ planned = (IF alg = "single" THEN SingleFee ELSE Spent(ChainLen) + LastFee)
  BY DEF PlanInv, FundedInv
<1> HIDE DEF n, fee
<1>6. fee_input_value - fee = FirstUtxo - Spent(n + 1)
  BY <1>3, <1>4, <1>5
<1>7. AddTx(tx.sources, tx.customers, FirstUtxo - Spent(n + 1), FALSE, fee)
  BY <1>6 DEF n, fee
<1>8. FundedInv' /\ SingleInv'
  BY <1>1, <1>f, <1>u DEF FundedInv, SingleInv
<1>9. CASE FirstUtxo - Spent(n + 1) < 0
  <2>1. /\ pc' = "done" /\ result' = "panic"
        /\ UNCHANGED <<txs, utxoCount, cumulativeFee>>
    BY <1>7, <1>9 DEF AddTx, End
  <2>2. FirstUtxo < Spent(ChainLen)
    BY <1>3, <1>4, <1>9
  <2>3. BatchedInv'
    BY <1>1, <1>u, <2>1, <2>2 DEF BatchedInv, n
  <2>4. ControlInv' /\ NothingInv'
    BY <2>1 DEF ControlInv, NothingInv, Errors
  <2> QED BY <1>8, <1>i, <2>3, <2>4 DEF PlanInv
<1>10. CASE ~(FirstUtxo - Spent(n + 1) < 0)
  <2>1. /\ txs' = Append(txs, [sources |-> tx.sources, customers |-> tx.customers,
                               change |-> FirstUtxo - Spent(n + 1), final |-> FALSE])
        /\ utxoCount' = utxoCount + Len(tx.sources)
        /\ cumulativeFee' = cumulativeFee + fee
        /\ UNCHANGED <<pc, result>>
    BY <1>7, <1>10 DEF AddTx
  <2>2. tx = [sources |-> tx.sources, customers |-> tx.customers,
              change |-> FirstUtxo - Spent(n + 1), final |-> FALSE]
    BY DEF ChainTx, n
  <2>3. txs' = Chain(n + 1)
    BY <1>1, <1>2, <2>1, <2>2, ChainGrows DEF n
  <2>4. Len(txs') = n + 1
    BY <1>2, <2>3, ChainGrows
  <2>5. cumulativeFee' = Spent(n + 1) /\ cumulativeFee' <= FirstUtxo
    BY <1>1, <1>3, <1>4, <1>10, <2>1
  <2>6. SourceCount(n + 1) = SourceCount(n) + Len(tx.sources)
    BY <1>1, <1>2, SourceCountSteps DEF n
  <2>7. utxoCount' = SourceCount(n + 1)
    BY <1>1, <2>1, <2>6
  <2>8. n + 1 \in 0..ChainLen
    BY <1>2
  <2>9. BatchedInv'
    BY <1>1, <1>u, <2>1, <2>3, <2>4, <2>5, <2>7, <2>8 DEF BatchedInv
  <2>10. ControlInv' /\ NothingInv'
    BY <1>1, <2>1 DEF ControlInv, NothingInv, Errors
  <2> QED BY <1>8, <1>i, <2>9, <2>10 DEF PlanInv
<1> QED BY <1>9, <1>10

\* The next large account extends the chain, or the chain is short.
LEMMA LargeStep ==
    ASSUME PlanInv, PlanLargeAccount
    PROVE  PlanInv'
<1> DEFINE n == Len(txs)
           tx == ChainTx(n + 1)
           a == large[n + 1]
<1>1. /\ pc = "plan" /\ alg = "batched" /\ n < Len(large)
      /\ UNCHANGED <<alg, sameNetwork, utxos, planned>>
  BY DEF PlanLargeAccount, input
<1>2. n \in Nat /\ txs = Chain(n) /\ Len(large) \in Nat
  BY <1>1, ChainLenFacts DEF PlanInv, BatchedInv
<1>3. n + 1 <= Len(large) /\ n < ChainLen
  BY <1>1, <1>2, ChainLenFacts DEF ChainLen
<1>4. fee_outpoint = IF n + 1 = 1 THEN Utxo(FeeAccount, 1) ELSE Change((n + 1) - 1)
  <2>1. n = 0 <=> txs = <<>>
    BY <1>2, ChainGrows
  <2>2. (n + 1) - 1 = n /\ (n + 1 = 1 <=> n = 0)
    BY <1>2
  <2> QED BY <2>1, <2>2 DEF fee_outpoint
<1>5. /\ tx.sources = Append(OutpointsOf(a), fee_outpoint)
      /\ tx.customers = Customers({a})
  BY <1>3, <1>4 DEF ChainTx
<1>6. ChainFee(n + 1) = estimate_fee(Len(utxos[a]) + 1, 2)
  BY <1>3 DEF ChainFee
<1>7. AddTx(tx.sources, tx.customers, fee_input_value - ChainFee(n + 1), FALSE,
            ChainFee(n + 1))
  BY <1>5, <1>6 DEF PlanLargeAccount
<1> HIDE DEF tx, a
<1> QED BY <1>1, <1>3, <1>7, ChainStep DEF tx

\* The small bundle extends the chain, or the chain is short.
LEMMA SmallStep ==
    ASSUME PlanInv, PlanSmallBundle
    PROVE  PlanInv'
<1> DEFINE n == Len(txs)
           tx == ChainTx(n + 1)
<1>1. /\ pc = "plan" /\ alg = "batched" /\ n = Len(large) /\ small # <<>>
      /\ UNCHANGED <<alg, sameNetwork, utxos, planned>>
  BY DEF PlanSmallBundle, input
<1>2. n \in Nat /\ txs = Chain(n)
  BY <1>1, ChainLenFacts DEF PlanInv, BatchedInv
<1>3. ~(n + 1 <= Len(large)) /\ n < ChainLen
  BY <1>1, <1>2 DEF ChainLen
<1>4. fee_outpoint = IF n + 1 = 1 THEN Utxo(FeeAccount, 1) ELSE Change((n + 1) - 1)
  <2>1. n = 0 <=> txs = <<>>
    BY <1>2, ChainGrows
  <2>2. (n + 1) - 1 = n /\ (n + 1 = 1 <=> n = 0)
    BY <1>2
  <2> QED BY <2>1, <2>2 DEF fee_outpoint
<1>5. /\ tx.sources = Append(Sources(small), fee_outpoint)
      /\ tx.customers = Customers(ToSet(small))
  BY <1>3, <1>4 DEF ChainTx
<1>6. ChainFee(n + 1) = estimate_fee(InputCount(small) + 1, Len(small) + 1)
  BY <1>3 DEF ChainFee
<1>7. AddTx(tx.sources, tx.customers, fee_input_value - ChainFee(n + 1), FALSE,
            ChainFee(n + 1))
  BY <1>5, <1>6 DEF PlanSmallBundle
<1> HIDE DEF tx
<1> QED BY <1>1, <1>3, <1>7, ChainStep DEF tx

\* The fee account ends the chain; this last subtraction does not underflow.
LEMMA FeeStep ==
    ASSUME PlanInv, PlanFeeAccount
    PROVE  PlanInv'
<1> DEFINE n == Len(txs)
<1>1. /\ UNCHANGED <<alg, sameNetwork, utxos, planned>>
      /\ pc = "plan" /\ alg = "batched" /\ n = ChainLen
  BY DEF PlanFeeAccount, input, ChainLen
<1>2. /\ utxos \in Inputs /\ result = "none" /\ HasFeeAccount
      /\ txs = Chain(n) /\ cumulativeFee = Spent(n) /\ cumulativeFee <= FirstUtxo
      /\ utxoCount = SourceCount(n)
      /\ planned = Spent(ChainLen) + LastFee /\ total_value(FeeAccount) >= planned
  BY <1>1 DEF PlanInv, InputInv, ControlInv, FundedInv, BatchedInv, Errors
<1>i. InputInv'
  BY <1>1 DEF PlanInv, InputInv
<1>u. /\ UNCHANGED <<HasFeeAccount, FirstUtxo, ChainLen, LastFee, FinalTx,
                     SingleFee, SingleTx, total_value(FeeAccount)>>
      /\ \A k : UNCHANGED <<Spent(k), Chain(k), SourceCount(k)>>
  BY <1>1, ClosedFormUnchanged
<1>3. /\ ChainLen \in Nat /\ Spent(ChainLen) \in Nat /\ LastFee \in Nat
      /\ total_value(FeeAccount) \in Nat /\ FirstUtxo \in Nat
  BY <1>2, ChainLenFacts, SpentSteps, FeeAccountFacts
<1>4. n = 0 <=> txs = <<>>
  BY <1>1, <1>2, <1>3, ChainGrows
<1>5. FinalTx.sources = IF txs = <<>> THEN OutpointsOf(FeeAccount)
                        ELSE Append(Tail(OutpointsOf(FeeAccount)), Change(Len(txs)))
  BY <1>1, <1>4 DEF FinalTx
<1>6. AddTx(FinalTx.sources, {},
            total_value(FeeAccount) - (cumulativeFee + LastFee), TRUE, LastFee)
  BY <1>5 DEF PlanFeeAccount, LastFee
<1>7. ~(total_value(FeeAccount) - (cumulativeFee + LastFee) < 0)
  BY <1>1, <1>2, <1>3
<1>8. /\ txs' = Append(txs, [sources |-> FinalTx.sources, customers |-> {},
                 change |-> total_value(FeeAccount) - (cumulativeFee + LastFee),
                 final |-> TRUE])
      /\ utxoCount' = utxoCount + Len(FinalTx.sources)
      /\ cumulativeFee' = cumulativeFee + LastFee
      /\ pc' = "done" /\ result' = "Ok"
  BY <1>6, <1>7 DEF AddTx, End
<1>9. FinalTx = [sources |-> FinalTx.sources, customers |-> {},
                 change |-> total_value(FeeAccount) - (cumulativeFee + LastFee),
                 final |-> TRUE]
  BY <1>1, <1>2 DEF FinalTx
<1>10. txs' = Append(Chain(ChainLen), FinalTx)
  BY <1>1, <1>2, <1>8, <1>9
<1>11. cumulativeFee' = planned /\ Spent(ChainLen) <= FirstUtxo
       /\ utxoCount' = SourceCount(ChainLen) + Len(FinalTx.sources)
  BY <1>1, <1>2, <1>8
<1>12. BatchedInv'
  BY <1>1, <1>8, <1>10, <1>11, <1>u DEF BatchedInv
<1>13. FundedInv' /\ SingleInv'
  BY <1>1, <1>2, <1>u DEF FundedInv, SingleInv
<1>14. ControlInv' /\ NothingInv'
  BY <1>8 DEF ControlInv, NothingInv, Errors
<1> QED BY <1>12, <1>13, <1>14, <1>i DEF PlanInv

\* Every step keeps the invariant.
LEMMA PlanStep ==
    ASSUME PlanInv, [Next]_vars
    PROVE  PlanInv'
<1>1. CASE Next
  BY <1>1, CheckStep, SingleStep, LargeStep, SmallStep, FeeStep DEF Next
<1>2. CASE UNCHANGED vars
  <2>1. UNCHANGED <<alg, sameNetwork, utxos, pc, result, txs, utxoCount,
                    cumulativeFee, planned>>
    BY <1>2 DEF vars, input
  <2>2. /\ UNCHANGED <<HasFeeAccount, FirstUtxo, ChainLen, LastFee, FinalTx, funded,
                       SingleFee, SingleTx, total_value(FeeAccount)>>
        /\ \A k : UNCHANGED <<Spent(k), Chain(k), SourceCount(k)>>
    BY <2>1, ClosedFormUnchanged
  <2>3. Sources(funded)' = Sources(funded)
    BY <2>1, <2>2 DEF Sources, OutpointsOf
  <2>4. InputInv' /\ ControlInv' /\ NothingInv'
    BY <2>1 DEF PlanInv, InputInv, ControlInv, NothingInv
  <2>5. FundedInv' /\ SingleInv' /\ BatchedInv'
    BY <2>1, <2>2, <2>3 DEF PlanInv, FundedInv, SingleInv, BatchedInv
  <2> QED BY <2>4, <2>5 DEF PlanInv
<1> QED BY <1>1, <1>2

----------------------------------------------------------------------------
(* The theorems                                                            *)

\* The invariant gives the types.
LEMMA PlanInvTypes ==
    ASSUME PlanInv
    PROVE  TypeOK
<1>i. utxos \in Inputs
  BY DEF PlanInv, InputInv
<1>1. CASE pc = "start" \/ result \in Errors
  BY <1>1 DEF PlanInv, InputInv, ControlInv, NothingInv, TypeOK, Errors
<1>2. CASE pc = "plan" \/ result \in {"Ok", "panic"}
  <2>1. /\ HasFeeAccount /\ total_value(FeeAccount) >= planned
        /\ planned = (IF alg = "single" THEN SingleFee ELSE Spent(ChainLen) + LastFee)
    BY <1>2 DEF PlanInv, FundedInv
  <2>2. /\ ChainLen \in Nat /\ LastFee \in Nat /\ SingleFee \in Nat
        /\ total_value(FeeAccount) \in Nat /\ FirstUtxo \in Nat
        /\ \A n \in 0..ChainLen : Spent(n) \in Nat
        /\ \A n \in 0..ChainLen : SourceCount(n) \in Nat
    BY <1>i, <2>1, ChainLenFacts, FeeAccountFacts, SingleFeeType, SpentSteps,
       SourceCountSteps
  <2>3. planned \in Nat
    BY <2>1, <2>2
  <2>4. utxoCount \in Nat /\ cumulativeFee \in Nat
        /\ \A n \in DOMAIN txs : txs[n].change \in Nat /\ txs[n].final \in BOOLEAN
    <3>1. CASE alg = "single"
      <4>1. CASE pc = "plan"
        BY <3>1, <4>1 DEF PlanInv, SingleInv
      <4>2. CASE pc # "plan"
        <5>1. /\ txs = <<SingleTx>> /\ cumulativeFee = planned
              /\ utxoCount = Len(Sources(funded))
          BY <1>2, <3>1, <4>2 DEF PlanInv, SingleInv
        <5>2. Len(Sources(funded)) \in Nat
          BY <1>i, Partition, SourcesType
        <5>3. SingleTx.change \in Nat /\ SingleTx.final \in BOOLEAN
          BY <2>1, <2>2, <3>1 DEF SingleTx
        <5>4. DOMAIN txs = {1} /\ txs[1] = SingleTx
          BY <5>1
        <5> QED BY <2>3, <5>1, <5>2, <5>3, <5>4
      <4> QED BY <4>1, <4>2
    <3>2. CASE alg = "batched"
      <4>0. ASSUME NEW n \in 0..ChainLen, Spent(n) <= FirstUtxo
            PROVE  \A k \in 1..n : Chain(n)[k].change \in Nat
                                    /\ Chain(n)[k].final \in BOOLEAN
        <5> SUFFICES ASSUME NEW k \in 1..n
                     PROVE  Chain(n)[k].change \in Nat /\ Chain(n)[k].final \in BOOLEAN
          OBVIOUS
        <5>1. Chain(n)[k] = ChainTx(k)
          BY DEF Chain
        <5>2. Spent(k) <= Spent(n)
          <6>1. k \in 0..ChainLen /\ k <= n
            BY <2>2
          <6> QED BY <1>i, <6>1, SpentGrows
        <5>3. Spent(k) \in Nat /\ Spent(n) \in Nat
          BY <2>2
        <5>4. FirstUtxo - Spent(k) \in Nat
          BY <2>2, <4>0, <5>2, <5>3
        <5> QED BY <5>1, <5>4 DEF ChainTx
      <4>1. CASE pc = "plan" \/ result = "panic"
        <5>1. /\ Len(txs) \in 0..ChainLen /\ txs = Chain(Len(txs))
              /\ cumulativeFee = Spent(Len(txs)) /\ cumulativeFee <= FirstUtxo
              /\ utxoCount = SourceCount(Len(txs))
          BY <3>2, <4>1 DEF PlanInv, BatchedInv
        <5> DEFINE n == Len(txs)
        <5>2. txs = Chain(n) /\ n \in 0..ChainLen /\ Spent(n) <= FirstUtxo
          BY <5>1
        <5> HIDE DEF n
        <5>3. DOMAIN txs = 1..n
          BY <5>2 DEF Chain
        <5>4. \A k \in 1..n : Chain(n)[k].change \in Nat
                               /\ Chain(n)[k].final \in BOOLEAN
          BY <4>0, <5>2
        <5> QED BY <2>2, <5>1, <5>2, <5>3, <5>4 DEF n
      <4>2. CASE ~(pc = "plan" \/ result = "panic")
        <5>1. /\ txs = Append(Chain(ChainLen), FinalTx)
              /\ cumulativeFee = planned /\ Spent(ChainLen) <= FirstUtxo
              /\ utxoCount = SourceCount(ChainLen) + Len(FinalTx.sources)
          BY <1>2, <3>2, <4>2 DEF PlanInv, BatchedInv
        <5>2. Len(FinalTx.sources) \in Nat
          BY <1>i, <2>1, <2>2, FinalSourcesType
        <5>3. FinalTx.change \in Nat /\ FinalTx.final \in BOOLEAN
          BY <2>1, <2>2, <3>2 DEF FinalTx
        <5> DEFINE N == ChainLen
        <5>4. N \in Nat /\ Len(Chain(N)) = N /\ DOMAIN Chain(N) = 1..N
          BY <2>2, ChainGrows DEF Chain
        <5>5. DOMAIN txs = 1..(N + 1) /\ txs[N + 1] = FinalTx
              /\ \A k \in 1..N : txs[k] = Chain(N)[k]
          <6> DEFINE X == {ChainTx(k) : k \in 1..N} \cup {FinalTx}
          <6>1. Chain(N) \in Seq(X) /\ FinalTx \in X
            BY <5>4 DEF Chain
          <6> HIDE DEF X, N
          <6> QED BY <5>1, <5>4, <6>1 DEF N
        <5>6. \A k \in 1..N : Chain(N)[k].change \in Nat
                               /\ Chain(N)[k].final \in BOOLEAN
          BY <2>2, <4>0, <5>1, SMTT(30)
        <5>7. N \in 0..N
          BY <5>4
        <5>8. ASSUME NEW k \in DOMAIN txs
              PROVE  txs[k].change \in Nat /\ txs[k].final \in BOOLEAN
          <6>1. CASE k = N + 1
            BY <5>3, <5>5, <6>1
          <6>2. CASE k # N + 1
            <7>1. k \in 1..N
              BY <5>4, <5>5, <6>2
            <7> QED BY <5>5, <5>6, <7>1
          <6> QED BY <6>1, <6>2
        <5>9. utxoCount \in Nat
          BY <2>2, <5>1, <5>2, <5>7
        <5> QED BY <2>3, <5>1, <5>8, <5>9
      <4> QED BY <4>1, <4>2
    <3> QED BY <3>1, <3>2 DEF PlanInv, InputInv
  <2> QED BY <1>2, <2>3, <2>4 DEF PlanInv, InputInv, ControlInv, TypeOK, Errors
<1> QED BY <1>1, <1>2 DEF PlanInv, ControlInv

\* Every variable of the planner keeps its type; no amount is negative.
THEOREM TypeOKHolds == Spec => []TypeOK
<1>1. Init => PlanInv
  BY PlanInit
<1>2. PlanInv /\ [Next]_vars => PlanInv'
  BY PlanStep
<1>3. PlanInv => TypeOK
  BY PlanInvTypes
<1> QED BY <1>1, <1>2, <1>3, PTL DEF Spec

\* The invariant says when plan() panics.
LEMMA PlanInvPanics ==
    ASSUME PlanInv
    PROVE  PanicsExactlyWhenShort
<1> SUFFICES ASSUME result \in {"Ok", "panic"}
             PROVE  result = "panic" <=>
                        /\ alg = "batched"
                        /\ utxos[FeeAccount][1]
                             < planned - estimate_fee(Len(utxos[FeeAccount]), 1)
  BY DEF PanicsExactlyWhenShort
<1>1. /\ utxos \in Inputs /\ HasFeeAccount /\ alg \in {"single", "batched"}
      /\ planned = (IF alg = "single" THEN SingleFee ELSE Spent(ChainLen) + LastFee)
  BY DEF PlanInv, InputInv, FundedInv
<1>2. Spent(ChainLen) \in Nat /\ LastFee \in Nat /\ FirstUtxo \in Nat
  BY <1>1, ChainLenFacts, SpentSteps, FeeAccountFacts
<1>3. CASE alg = "single"
  BY <1>3 DEF PlanInv, SingleInv
<1>4. CASE alg = "batched"
  <2>1. planned - LastFee = Spent(ChainLen)
    BY <1>1, <1>2, <1>4
  <2>2. result = "panic" => FirstUtxo < Spent(ChainLen)
    BY <1>4 DEF PlanInv, BatchedInv
  <2>3. result = "Ok" => ~(FirstUtxo < Spent(ChainLen))
    BY <1>2, <1>4 DEF PlanInv, BatchedInv
  <2> QED BY <1>4, <2>1, <2>2, <2>3 DEF FirstUtxo, LastFee
<1> QED BY <1>1, <1>3, <1>4

\* Past the balance check, plan() panics exactly when the fee account's first
\* UTXO is worth less than the fees of all transactions but the last.
THEOREM PanicsExactlyWhenShortHolds == Spec => []PanicsExactlyWhenShort
<1>1. Init => PlanInv
  BY PlanInit
<1>2. PlanInv /\ [Next]_vars => PlanInv'
  BY PlanStep
<1>3. PlanInv => PanicsExactlyWhenShort
  BY PlanInvPanics
<1> QED BY <1>1, <1>2, <1>3, PTL DEF Spec

----------------------------------------------------------------------------
(* What transactions spend and pay                                         *)

Totals == [a \in Acc |-> total_value(a)]

\* v gives every UTXO its value.
Prices(v, S) ==
    /\ Utxos \subseteq S /\ v \in [S -> Nat]
    /\ \A a \in Acc : \A j \in 1..Len(utxos[a]) : v[Utxo(a, j)] = utxos[a][j]

\* The accounts' totals are naturals.
LEMMA TotalsType ==
    ASSUME utxos \in Inputs
    PROVE  Totals \in [Acc -> Nat]
BY UtxosType DEF Totals

\* The outpoints of an account are worth its total.
LEMMA AccountWorth ==
    ASSUME utxos \in Inputs, NEW S, NEW v, Prices(v, S), NEW a \in Acc
    PROVE  OutpointsOf(a) \in Seq(S) /\ MapSum(v, OutpointsOf(a)) = total_value(a)
<1> DEFINE o == OutpointsOf(a)
           u == utxos[a]
<1>1. o \in Seq(Utxos) /\ Len(o) = Len(u) /\ \A j \in 1..Len(u) : o[j] = Utxo(a, j)
  BY OutpointsType
<1>2. u \in Seq(Nat)
  BY UtxosType
<1>3. \A j \in 1..Len(u) : v[Utxo(a, j)] = u[j]
  BY DEF Prices
<1>t. total_value(a) = SumSeq(u)
  BY DEF total_value
<1> HIDE DEF o, u
<1>4. o \in Seq(S)
  BY <1>1 DEF Prices
<1>5. \A j \in 1..Len(u) : v[o[j]] = u[j]
  BY <1>1, <1>3
<1>6. [j \in 1..Len(o) |-> v[o[j]]] = u
  BY <1>1, <1>2, <1>5
<1>7. MapSum(v, o) = SumSeq(u)
  BY <1>6 DEF MapSum
<1> QED BY <1>4, <1>7, <1>t DEF o

\* The outpoints of several accounts are worth their totals.
LEMMA BundleWorth ==
    ASSUME utxos \in Inputs, NEW S, NEW v, Prices(v, S), NEW l \in Seq(Acc)
    PROVE  Sources(l) \in Seq(S) /\ MapSum(v, Sources(l)) = MapSum(Totals, l)
<1> DEFINE ss == [k \in 1..Len(l) |-> OutpointsOf(l[k])]
           sums == [k \in 1..Len(l) |-> Totals[l[k]]]
<1>1. Len(l) \in Nat /\ \A k \in 1..Len(l) : l[k] \in Acc
  OBVIOUS
<1>2. \A k \in 1..Len(l) :
        OutpointsOf(l[k]) \in Seq(S) /\ MapSum(v, OutpointsOf(l[k])) = total_value(l[k])
  BY <1>1, AccountWorth
<1>3. ss \in Seq(Seq(S)) /\ Len(ss) = Len(l)
  <2> DEFINE Y == Seq(S)
  <2>1. \A k \in 1..Len(l) : OutpointsOf(l[k]) \in Y
    BY <1>2
  <2> HIDE DEF Y
  <2>2. ss \in Seq(Y) /\ Len(ss) = Len(l)
    BY <1>1, <2>1
  <2> QED BY <2>2 DEF Y
<1>4. sums \in Seq(Nat) /\ Len(sums) = Len(l)
  BY TotalsType, MapSumType
<1>5. \A k \in 1..Len(l) : sums[k] = MapSum(v, ss[k])
  BY <1>1, <1>2 DEF Totals
<1>6. Sources(l) = FlattenSeq(ss) /\ MapSum(Totals, l) = SumSeq(sums)
  BY DEF Sources, MapSum
<1>7. v \in [S -> Nat]
  BY DEF Prices
<1> HIDE DEF ss, sums
<1>8. MapSum(v, FlattenSeq(ss)) = SumSeq(sums)
  <2>1. Len(sums) = Len(ss) /\ \A k \in 1..Len(ss) : sums[k] = MapSum(v, ss[k])
    BY <1>3, <1>4, <1>5
  <2> QED BY ONLY <1>3, <1>4, <1>7, <2>1, MapSumFlatten
<1>9. FlattenSeq(ss) \in Seq(S)
  BY <1>3, FlattenType
<1> QED BY <1>6, <1>8, <1>9

\* A bundle has as many sources as its accounts have UTXOs.
LEMMA BundleCount ==
    ASSUME utxos \in Inputs, NEW l \in Seq(Acc)
    PROVE  Len(Sources(l)) = InputCount(l)
<1> DEFINE v == [o \in Utxos |-> 1]
           ss == [k \in 1..Len(l) |-> OutpointsOf(l[k])]
           sums == [k \in 1..Len(l) |-> Counts[l[k]]]
<1>1. v \in [Utxos -> Nat] /\ \A o \in Utxos : v[o] = 1
  OBVIOUS
<1> HIDE DEF v
<1>2. ss \in Seq(Seq(Utxos)) /\ Sources(l) \in Seq(Utxos)
  BY SourcesType
<1>3. Len(l) \in Nat /\ \A k \in 1..Len(l) : l[k] \in Acc
  OBVIOUS
<1>4. Len(ss) = Len(l) /\ \A k \in 1..Len(l) : ss[k] = OutpointsOf(l[k])
  BY <1>3
<1>5. ASSUME NEW k \in 1..Len(l) PROVE sums[k] = MapSum(v, ss[k])
  <2>1. OutpointsOf(l[k]) \in Seq(Utxos) /\ Len(OutpointsOf(l[k])) = Len(utxos[l[k]])
    BY <1>3, OutpointsType
  <2>2. MapSum(v, OutpointsOf(l[k])) = Len(utxos[l[k]])
    BY ONLY <1>1, <2>1, MapSumOnes
  <2> QED BY <1>3, <1>4, <2>2 DEF Counts
<1>6. sums \in Seq(Nat) /\ Len(sums) = Len(l)
  BY InputCountIs, MapSumType
<1>7. Sources(l) = FlattenSeq(ss) /\ InputCount(l) = SumSeq(sums)
  BY InputCountIs DEF Sources, MapSum
<1> HIDE DEF ss, sums
<1>8. MapSum(v, FlattenSeq(ss)) = SumSeq(sums)
  <2>1. Len(sums) = Len(ss) /\ \A k \in 1..Len(ss) : sums[k] = MapSum(v, ss[k])
    BY <1>4, <1>5, <1>6
  <2> QED BY ONLY <1>1, <1>2, <1>6, <2>1, MapSumFlatten
<1>9. MapSum(v, Sources(l)) = Len(Sources(l))
  BY ONLY <1>1, <1>2, MapSumOnes
<1> QED BY <1>7, <1>8, <1>9

\* The customers of a bundle are paid what its accounts hold.
LEMMA CustomersPaid ==
    ASSUME utxos \in Inputs, NEW l \in Seq(Acc), IsInjective(l),
           NEW tx, tx.customers = Customers(ToSet(l))
    PROVE  /\ ValueOut(tx) = MapSum(Totals, l) + tx.change
           /\ Cardinality(tx.customers) = Len(l)
<1>1. ToSet(l) \subseteq Acc
  BY DEF ToSet
<1> DEFINE part == [k \in DOMAIN Accounts |->
                IF \E c \in tx.customers : c.account = Accounts[k]
                THEN (CHOOSE c \in tx.customers : c.account = Accounts[k]).amount ELSE 0]
           pay(a) == [account |-> a, amount |-> total_value(a)]
<1>2. \A c : c \in tx.customers <=> \E a \in ToSet(l) : c = pay(a)
  BY DEF Customers
<1>3. \A a : pay(a).account = a /\ pay(a).amount = total_value(a)
  OBVIOUS
<1> HIDE DEF pay
<1>4. Accounts \in Seq(Acc) /\ IsInjective(Accounts)
      /\ DOMAIN Accounts = 1..Len(Accounts) /\ Len(Accounts) \in Nat
      /\ \A k \in 1..Len(Accounts) : Accounts[k] \in Acc
  BY AccountsList
<1>5. ASSUME NEW k \in 1..Len(Accounts)
      PROVE  part[k] = IF Accounts[k] \in ToSet(l) THEN Totals[Accounts[k]] ELSE 0
  <2>1. CASE Accounts[k] \in ToSet(l)
    <3>1. pay(Accounts[k]) \in tx.customers /\ pay(Accounts[k]).account = Accounts[k]
      BY <1>2, <1>3, <2>1
    <3>2. \A c \in tx.customers : c.account = Accounts[k] => c = pay(Accounts[k])
      BY <1>2, <1>3
    <3>3. (CHOOSE c \in tx.customers : c.account = Accounts[k]) = pay(Accounts[k])
      BY <3>1, <3>2
    <3>4. part[k] = total_value(Accounts[k])
      BY <1>3, <1>4, <3>1, <3>3
    <3> QED BY <1>4, <2>1, <3>4 DEF Totals
  <2>2. CASE Accounts[k] \notin ToSet(l)
    <3>1. ~ \E c \in tx.customers : c.account = Accounts[k]
      BY <1>2, <1>3, <2>2
    <3> QED BY <1>4, <2>2, <3>1
  <2> QED BY <2>1, <2>2
<1>6. ValueOut(tx) = SumSeq(part) + tx.change
  BY DEF ValueOut
<1>7. DOMAIN part = 1..Len(Accounts) /\ part = [k \in DOMAIN part |-> part[k]]
  BY <1>4
<1> HIDE DEF part
<1>8. \A k \in 1..Len(Accounts) : part[k] \in Nat
  BY <1>4, <1>5, TotalsType, SMTT(30)
<1>9. part \in Seq(Nat) /\ Len(part) = Len(Accounts)
  BY <1>4, <1>7, <1>8
<1>10. PartOf(part, Accounts, l, Totals)
  BY <1>5, <1>9 DEF PartOf
<1>11. SumSeq(part) = MapSum(Totals, l)
  <2>1. /\ Totals \in [Acc -> Nat] /\ l \in Seq(Acc) /\ IsInjective(l)
        /\ ToSet(l) \subseteq ToSet(Accounts)
    BY <1>1, TotalsType DEF Acc
  <2> QED BY ONLY <1>4, <1>10, <2>1, SumOver
<1>12. Cardinality(tx.customers) = Len(l)
  <2> DEFINE g == [a \in ToSet(l) |-> pay(a)]
  <2>1. g \in [ToSet(l) -> tx.customers]
        /\ \A c \in tx.customers : \E a \in ToSet(l) : g[a] = c
    BY <1>2
  <2>2. \A a, b \in ToSet(l) : g[a] = g[b] => a = b
    BY <1>3
  <2> HIDE DEF g
  <2>3. g \in Surjection(ToSet(l), tx.customers)
    BY <2>1 DEF Surjection
  <2>4. g \in Injection(ToSet(l), tx.customers)
    BY <2>1, <2>2 DEF Injection, IsInjective
  <2>5. IsFiniteSet(ToSet(l)) /\ Cardinality(ToSet(l)) = Len(l)
    BY InjectiveLength
  <2> QED BY <2>3, <2>4, <2>5, FS_Surjection
<1> QED BY <1>6, <1>11, <1>12

\* Lists of no account and of one.
LEMMA ShortLists ==
    /\ IsInjective(<<>>) /\ ToSet(<<>>) = {} /\ <<>> \in Seq(Acc)
    /\ \A a \in Acc : IsInjective(<<a>>) /\ ToSet(<<a>>) = {a} /\ <<a>> \in Seq(Acc)
BY DEF IsInjective, ToSet

\* Every account is large or small, never both.
LEMMA ThresholdSplits ==
    ASSUME utxos \in Inputs, NEW a \in non_fee
    PROVE  ~(total_value(a) >= SmallThreshold <=> total_value(a) < SmallThreshold)
<1>1. a \in Acc
  BY Partition
<1>2. total_value(a) \in Nat /\ SmallThreshold \in Nat
  BY <1>1, UtxosType, MigrationAssumption
<1> QED BY <1>2

\* The accounts of a plan are the large ones, the small ones and the fee
\* account.
LEMMA SplitFunded ==
    ASSUME NEW v \in [Acc -> Nat], utxos \in Inputs, HasFeeAccount
    PROVE  /\ MapSum(v, funded) = MapSum(v, Keep(funded, non_fee)) + v[FeeAccount]
           /\ MapSum(v, Keep(funded, non_fee)) = MapSum(v, large) + MapSum(v, small)
           /\ Keep(funded, non_fee) \in Seq(Acc) /\ IsInjective(Keep(funded, non_fee))
           /\ ToSet(Keep(funded, non_fee)) = non_fee
           /\ Len(Keep(funded, non_fee)) = Len(funded) - 1
<1> DEFINE l == Keep(funded, non_fee)
           f == <<FeeAccount>>
<1>1. /\ l \in Seq(Acc) /\ IsInjective(l) /\ ToSet(l) = ToSet(funded) \cap non_fee
  BY Partition, KeepIs
<1>2. ToSet(l) = non_fee
  BY <1>1, Partition
<1>3. FeeAccount \in Acc /\ FeeAccount \in ToSet(funded)
  BY Partition DEF HasFeeAccount
<1>4. f \in Seq(Acc) /\ IsInjective(f) /\ ToSet(f) = {FeeAccount} /\ MapSum(v, f) = v[FeeAccount]
  BY <1>3, ShortLists, MapSumOne
<1>5. /\ Accounts \in Seq(Acc) /\ IsInjective(Accounts) /\ ToSet(Accounts) = Acc
      /\ funded \in Seq(Acc) /\ IsInjective(funded) /\ ToSet(funded) \subseteq Acc
      /\ large \in Seq(Acc) /\ IsInjective(large) /\ small \in Seq(Acc) /\ IsInjective(small)
  BY AccountsList, Partition DEF Acc
<1> HIDE DEF l, f
<1>6. MapSum(v, funded) = MapSum(v, l) + MapSum(v, f)
  <2>1. ToSet(funded) = ToSet(l) \cup ToSet(f) /\ ToSet(l) \cap ToSet(f) = {}
        /\ ToSet(funded) \subseteq ToSet(Accounts)
    BY <1>2, <1>3, <1>4, <1>5 DEF non_fee
  <2>2. v \in [Acc -> Nat]
    OBVIOUS
  <2>3. TwoParts(Acc, v, Accounts, funded, l, f)
    BY ONLY <1>1, <1>4, <1>5, <2>1, <2>2 DEF TwoParts
  <2> QED BY ONLY <2>3, SumTwoParts
<1>7. MapSum(v, l) = MapSum(v, large) + MapSum(v, small)
  <2>1. \A a \in Acc : utxos[a] # <<>> /\ a # FeeAccount => a \in non_fee
    BY Partition DEF non_fee
  <2>2. ToSet(l) = ToSet(large) \cup ToSet(small) /\ ToSet(large) \cap ToSet(small) = {}
    <3>1. \A a \in non_fee : total_value(a) >= SmallThreshold
                              \/ total_value(a) < SmallThreshold
      BY ThresholdSplits
    <3>2. \A a \in non_fee : ~(total_value(a) >= SmallThreshold
                                /\ total_value(a) < SmallThreshold)
      BY ThresholdSplits
    <3> QED BY <1>2, <3>1, <3>2, Partition
  <2>3. ToSet(l) \subseteq ToSet(Accounts) /\ v \in [Acc -> Nat]
    BY <1>2, <1>5, Partition
  <2>4. TwoParts(Acc, v, Accounts, l, large, small)
    BY ONLY <1>1, <1>5, <2>2, <2>3 DEF TwoParts
  <2> QED BY ONLY <2>4, SumTwoParts
<1>8. Len(l) = Len(funded) - 1
  <2>1. /\ IsFiniteSet(ToSet(funded)) /\ Cardinality(ToSet(funded)) = Len(funded)
        /\ Cardinality(ToSet(l)) = Len(l)
    BY <1>1, <1>5, InjectiveLength
  <2>2. Cardinality(ToSet(funded) \ {FeeAccount}) = Cardinality(ToSet(funded)) - 1
    BY <1>3, <2>1, FS_RemoveElement
  <2> QED BY <1>2, <2>1, <2>2 DEF non_fee
<1> QED BY <1>1, <1>2, <1>4, <1>6, <1>7, <1>8 DEF l

\* A transaction of the chain has its accounts' inputs and the fee input.
LEMMA ChainSourceCount ==
    ASSUME utxos \in Inputs, NEW n \in 1..ChainLen
    PROVE  Len(ChainTx(n).sources) =
             (IF n <= Len(large) THEN Counts[large[n]] ELSE InputCount(small)) + 1
<1> DEFINE own == IF n <= Len(large) THEN OutpointsOf(large[n]) ELSE Sources(small)
           link == IF n = 1 THEN Utxo(FeeAccount, 1) ELSE Change(n - 1)
<1>1. ChainTx(n).sources = Append(own, link)
  BY DEF ChainTx
<1>2. own \in Seq(Utxos)
      /\ Len(own) = (IF n <= Len(large) THEN Counts[large[n]] ELSE InputCount(small))
  <2>1. CASE n <= Len(large)
    <3>1. large[n] \in Acc
      BY <2>1, ChainLenFacts, Partition
    <3> QED BY <2>1, <3>1, OutpointsType, UtxosType DEF Counts
  <2>2. CASE ~(n <= Len(large))
    BY <2>2, Partition, BundleCount, SourcesType
  <2> QED BY <2>1, <2>2
<1> HIDE DEF own, link
<1> QED BY <1>1, <1>2

\* A transaction of the chain spends what it pays and its fee.
LEMMA ChainBalance ==
    ASSUME utxos \in Inputs, HasFeeAccount, NEW n \in 1..ChainLen,
           NEW v, Prices(v, Outpoints),
           \A k \in 1..ChainLen : v[Change(k)] = FirstUtxo - Spent(k)
    PROVE  /\ MapSum(v, ChainTx(n).sources) = ValueOut(ChainTx(n)) + ChainFee(n)
           /\ ChainFee(n) = estimate_fee(Len(ChainTx(n).sources),
                                         Cardinality(ChainTx(n).customers) + 1)
<1> DEFINE own == IF n <= Len(large) THEN OutpointsOf(large[n]) ELSE Sources(small)
           link == IF n = 1 THEN Utxo(FeeAccount, 1) ELSE Change(n - 1)
           l == IF n <= Len(large) THEN <<large[n]>> ELSE small
           tx == ChainTx(n)
<1>1. /\ tx.sources = Append(own, link) /\ tx.change = FirstUtxo - Spent(n)
      /\ tx.customers = Customers(IF n <= Len(large) THEN {large[n]} ELSE ToSet(small))
  BY DEF ChainTx
<1>2. n <= Len(large) => large[n] \in Acc
  BY ChainLenFacts, Partition
<1>3. l \in Seq(Acc) /\ IsInjective(l) /\ tx.customers = Customers(ToSet(l))
  BY <1>1, <1>2, ShortLists, Partition
<1>4. v \in [Outpoints -> Nat]
  BY DEF Prices
<1>5. own \in Seq(Outpoints) /\ MapSum(v, own) = MapSum(Totals, l)
  <2>1. CASE n <= Len(large)
    <3>1. own \in Seq(Outpoints) /\ MapSum(v, own) = total_value(large[n])
      BY <1>2, <2>1, AccountWorth
    <3>2. MapSum(Totals, <<large[n]>>) = total_value(large[n])
      BY <1>2, <2>1, TotalsType, MapSumOne DEF Totals
    <3> QED BY <2>1, <3>1, <3>2
  <2>2. CASE ~(n <= Len(large))
    <3>1. Sources(small) \in Seq(Outpoints) /\ MapSum(v, Sources(small)) = MapSum(Totals, small)
      BY Partition, BundleWorth
    <3> QED BY <2>2, <3>1
  <2> QED BY <2>1, <2>2
<1>6. Len(own) = (IF n <= Len(large) THEN Counts[large[n]] ELSE InputCount(small))
      /\ Len(own) \in Nat
  <2>1. CASE n <= Len(large)
    BY <1>2, <2>1, OutpointsType, UtxosType DEF Counts
  <2>2. CASE ~(n <= Len(large))
    BY <2>2, Partition, BundleCount, InputCountIs
  <2> QED BY <2>1, <2>2
<1>7. /\ ChainLen \in Nat /\ FirstUtxo \in Nat /\ Spent(n) \in Nat /\ Spent(n - 1) \in Nat
      /\ Spent(n) = Spent(n - 1) + ChainFee(n) /\ ChainFee(n) \in Nat
      /\ Spent(0) = 0
  <2>1. n \in 0..ChainLen /\ n - 1 \in 0..ChainLen
    BY ChainLenFacts
  <2> QED BY <2>1, ChainLenFacts, FeeAccountFacts, SpentSteps, ChainFeeType
<1>8. link \in Outpoints /\ v[link] = FirstUtxo - Spent(n - 1)
  <2>1. CASE n = 1
    <3>1. FeeAccount \in Acc /\ 1 \in 1..Len(utxos[FeeAccount])
      BY FeeAccountFacts
    <3>2. Utxo(FeeAccount, 1) \in Outpoints /\ v[Utxo(FeeAccount, 1)] = FirstUtxo
      BY <3>1, OutpointsType DEF Outpoints, Prices, FirstUtxo
    <3> QED BY <1>7, <2>1, <3>2
  <2>2. CASE n # 1
    <3>1. n - 1 \in 1..ChainLen
      BY <1>7, <2>2
    <3> QED BY <2>2, <3>1 DEF Outpoints
  <2> QED BY <2>1, <2>2
<1>9. MapSum(Totals, l) \in Nat
  BY <1>3, TotalsType, MapSumType
<1>10. ValueOut(tx) = MapSum(Totals, l) + tx.change /\ Cardinality(tx.customers) = Len(l)
  BY <1>3, CustomersPaid
<1>11. ChainFee(n) = estimate_fee(Len(own) + 1, Len(l) + 1)
  <2>1. CASE n <= Len(large)
    <3>1. Len(l) + 1 = 2
      BY <2>1
    <3>2. Len(own) = Len(utxos[large[n]])
      BY <1>2, <1>6, <2>1 DEF Counts
    <3> QED BY <2>1, <3>1, <3>2 DEF ChainFee
  <2>2. CASE ~(n <= Len(large))
    BY <1>6, <2>2 DEF ChainFee
  <2> QED BY <2>1, <2>2
<1> HIDE DEF own, link, l, tx
<1>12. MapSum(v, tx.sources) = MapSum(v, own) + v[link]
  BY <1>1, <1>4, <1>5, <1>8, MapSumAppend
<1>13. Len(tx.sources) = Len(own) + 1
  BY <1>1, <1>5
<1>14. MapSum(v, tx.sources) = ValueOut(tx) + ChainFee(n)
  <2> DEFINE w == MapSum(Totals, l)
  <2>1. MapSum(v, tx.sources) = w + (FirstUtxo - Spent(n - 1))
    BY <1>5, <1>8, <1>12
  <2>2. ValueOut(tx) = w + (FirstUtxo - Spent(n))
    BY <1>1, <1>10
  <2>3. w \in Nat
    BY <1>9
  <2> HIDE DEF w
  <2> QED BY <1>7, <2>1, <2>2, <2>3
<1>15. ChainFee(n) = estimate_fee(Len(tx.sources), Cardinality(tx.customers) + 1)
  BY <1>10, <1>11, <1>13
<1> QED BY <1>14, <1>15 DEF tx

\* So does the last one, with the fee account's remaining UTXOs.
LEMMA FinalBalance ==
    ASSUME utxos \in Inputs, HasFeeAccount, NEW v, Prices(v, Outpoints),
           \A k \in 1..ChainLen : v[Change(k)] = FirstUtxo - Spent(k)
    PROVE  /\ MapSum(v, FinalTx.sources) = ValueOut(FinalTx) + LastFee
           /\ Len(FinalTx.sources) = Len(utxos[FeeAccount])
           /\ LastFee = estimate_fee(Len(FinalTx.sources),
                                     Cardinality(FinalTx.customers) + 1)
<1> DEFINE o == OutpointsOf(FeeAccount)
           C == ChainLen
<1>1. /\ FeeAccount \in Acc /\ Len(utxos[FeeAccount]) \in Nat \ {0} /\ FirstUtxo \in Nat
      /\ LastFee \in Nat /\ total_value(FeeAccount) \in Nat
  BY FeeAccountFacts
<1>2. C \in Nat /\ Spent(C) \in Nat /\ Spent(0) = 0
  BY ChainLenFacts, SpentSteps
<1>3. v \in [Outpoints -> Nat]
  BY DEF Prices
<1>4. o \in Seq(Outpoints) /\ MapSum(v, o) = total_value(FeeAccount)
  BY <1>1, AccountWorth
<1>5. 1 \in 1..Len(utxos[FeeAccount])
  BY <1>1
<1>6. Len(o) = Len(utxos[FeeAccount]) /\ o[1] = Utxo(FeeAccount, 1)
  BY <1>1, <1>5, OutpointsType
<1>7. v[Utxo(FeeAccount, 1)] = FirstUtxo
  BY <1>1, <1>5 DEF Prices, FirstUtxo
<1>8. /\ FinalTx.sources = (IF C = 0 THEN o ELSE Append(Tail(o), Change(C)))
      /\ FinalTx.customers = {}
      /\ FinalTx.change = total_value(FeeAccount) - (Spent(C) + LastFee)
  BY DEF FinalTx
<1> HIDE DEF o, C
<1>9. o # <<>>
  BY <1>1, <1>4, <1>6
<1>10. /\ Tail(o) \in Seq(Outpoints) /\ MapSum(v, o) = FirstUtxo + MapSum(v, Tail(o))
       /\ MapSum(v, Tail(o)) \in Nat
  <2>1. MapSum(v, o) = v[o[1]] + MapSum(v, Tail(o)) /\ Tail(o) \in Seq(Outpoints)
    BY <1>3, <1>4, <1>9, MapSumTail
  <2>2. MapSum(v, Tail(o)) \in Nat
    BY <1>3, <2>1, MapSumType
  <2> QED BY <1>6, <1>7, <2>1, <2>2
<1>11. /\ MapSum(v, FinalTx.sources) = total_value(FeeAccount) - Spent(C)
       /\ Len(FinalTx.sources) = Len(utxos[FeeAccount])
  <2>1. CASE C = 0
    BY <1>1, <1>2, <1>4, <1>6, <1>8, <2>1
  <2>2. CASE C # 0
    <3>1. C \in 1..ChainLen
      BY <1>2, <2>2 DEF C
    <3>2. Change(C) \in Outpoints /\ v[Change(C)] = FirstUtxo - Spent(C)
      BY <3>1 DEF Outpoints
    <3>3. MapSum(v, Append(Tail(o), Change(C))) = MapSum(v, Tail(o)) + v[Change(C)]
      BY <1>3, <1>10, <3>2, MapSumAppend
    <3>4. Len(Append(Tail(o), Change(C))) = Len(o)
      BY <1>1, <1>4, <1>6, <1>9, <1>10, <3>2
    <3>5. MapSum(v, Tail(o)) + (FirstUtxo - Spent(C)) = total_value(FeeAccount) - Spent(C)
      BY <1>1, <1>2, <1>4, <1>10
    <3> QED BY <1>6, <1>8, <2>2, <3>2, <3>3, <3>4, <3>5
  <2> QED BY <2>1, <2>2
<1>12. ValueOut(FinalTx) = 0 + FinalTx.change /\ Cardinality(FinalTx.customers) = 0
  <2>1. FinalTx.customers = Customers(ToSet(<<>>))
    BY <1>8, ShortLists DEF Customers
  <2>2. ValueOut(FinalTx) = MapSum(Totals, <<>>) + FinalTx.change
        /\ Cardinality(FinalTx.customers) = Len(<<>>)
    BY <2>1, ShortLists, CustomersPaid
  <2>3. Len(<<>>) = 0
    OBVIOUS
  <2> QED BY <2>2, <2>3, MapSumEmpty
<1>13. MapSum(v, FinalTx.sources) = ValueOut(FinalTx) + LastFee
  BY <1>1, <1>2, <1>8, <1>11, <1>12
<1>14. LastFee = estimate_fee(Len(FinalTx.sources), Cardinality(FinalTx.customers) + 1)
  BY <1>11, <1>12 DEF LastFee
<1> QED BY <1>11, <1>13, <1>14

\* How many inputs the chain has: those of its accounts and its links.
LEMMA SourceCountIs ==
    ASSUME utxos \in Inputs, HasFeeAccount
    PROVE  SourceCount(ChainLen) = InputCount(large) + InputCount(small) + ChainLen
<1> DEFINE L == Len(large)
           C == ChainLen
           f == [k \in 1..L |-> Counts[large[k]]]
           P(n) == SumSeq([k \in 1..n |-> f[k]])
           A == {n \in 0..L : SourceCount(n) = P(n) + n}
<1>1. /\ L \in Nat /\ C \in Nat /\ L <= C
      /\ small = <<>> => C = L
      /\ small # <<>> => C = L + 1
  BY ChainLenFacts DEF ChainLen
<1>2. /\ Counts \in [Acc -> Nat] /\ large \in Seq(Acc) /\ small \in Seq(Acc)
      /\ InputCount(large) = MapSum(Counts, large) /\ InputCount(large) \in Nat
      /\ InputCount(small) = MapSum(Counts, small) /\ InputCount(small) \in Nat
  BY Partition, InputCountIs
<1>3. f \in [1..L -> Nat] /\ InputCount(large) = P(L)
  <2>1. \A k \in 1..L : large[k] \in Acc
    BY <1>2
  <2>2. f \in [1..L -> Nat]
    BY <1>2, <2>1
  <2>3. InputCount(large) = SumSeq(f)
    BY <1>2 DEF MapSum
  <2>4. [k \in 1..L |-> f[k]] = f
    OBVIOUS
  <2> QED BY <2>2, <2>3, <2>4
<1>4. /\ P(0) = 0 /\ \A n \in 0..L : P(n) \in Nat
      /\ \A n \in 1..L : P(n) = P(n - 1) + f[n]
  <2> HIDE DEF f, L
  <2> QED BY <1>1, <1>3, PrefixSums
<1>5. \A n \in 1..L : f[n] = Counts[large[n]] /\ f[n] \in Nat
  BY <1>3
<1>6. \A n \in 1..C : Len(ChainTx(n).sources) =
                        (IF n <= Len(large) THEN Counts[large[n]] ELSE InputCount(small)) + 1
  BY ChainSourceCount
<1>7. /\ SourceCount(0) = 0 /\ \A n \in 0..C : SourceCount(n) \in Nat
      /\ \A n \in 1..C : SourceCount(n) = SourceCount(n - 1) + Len(ChainTx(n).sources)
  BY SourceCountSteps
<1> HIDE DEF f, C, P
<1>8. \A n \in 1..L : SourceCount(n) = SourceCount(n - 1) + f[n] + 1
  <2> TAKE n \in 1..L
  <2>1. n \in 1..C /\ n - 1 \in 0..C /\ n <= Len(large)
    BY <1>1
  <2>2. Len(ChainTx(n).sources) = f[n] + 1 /\ f[n] \in Nat
    BY <1>5, <1>6, <2>1
  <2>3. SourceCount(n) = SourceCount(n - 1) + Len(ChainTx(n).sources)
        /\ SourceCount(n - 1) \in Nat
    BY <1>7, <2>1
  <2> QED BY <2>2, <2>3
<1>9. small # <<>> => SourceCount(C) = SourceCount(L) + InputCount(small) + 1
  <2> SUFFICES ASSUME small # <<>>
               PROVE  SourceCount(C) = SourceCount(L) + InputCount(small) + 1
    OBVIOUS
  <2>1. C \in 1..C /\ C - 1 = L /\ L \in 0..C /\ ~(C <= Len(large))
    BY <1>1
  <2>2. Len(ChainTx(C).sources) = InputCount(small) + 1
    BY <1>6, <2>1
  <2>3. SourceCount(C) = SourceCount(L) + Len(ChainTx(C).sources) /\ SourceCount(L) \in Nat
    BY <1>7, <2>1
  <2> QED BY <1>2, <2>2, <2>3
<1> HIDE DEF L
<1>10. 0 \in A
  BY <1>1, <1>4, <1>7
<1>11. ASSUME NEW n \in 1..L, n - 1 \in A PROVE n \in A
  <2>1. n \in 0..L /\ n - 1 \in 0..L /\ n \in 1..C /\ n - 1 \in 0..C
    BY <1>1
  <2>2. SourceCount(n - 1) = P(n - 1) + (n - 1)
    BY <1>11
  <2>3. SourceCount(n) = SourceCount(n - 1) + f[n] + 1 /\ P(n) = P(n - 1) + f[n]
        /\ f[n] \in Nat /\ P(n - 1) \in Nat
    BY <1>4, <1>5, <1>8, <2>1
  <2>4. SourceCount(n) = P(n) + n
    BY <2>2, <2>3
  <2> QED BY <2>1, <2>4
<1> HIDE DEF A
<1>12. 0..L \subseteq A
  BY <1>1, <1>10, <1>11, UpToInduction
<1>13. SourceCount(L) = P(L) + L /\ P(L) \in Nat
  <2>1. L \in 0..L
    BY <1>1
  <2>2. L \in A
    BY <1>12, <2>1
  <2> QED BY <1>4, <2>1, <2>2 DEF A
<1>14. CASE small = <<>>
  <2>1. InputCount(small) = 0
    BY <1>2, <1>14, MapSumEmpty
  <2> QED BY <1>1, <1>2, <1>3, <1>13, <1>14, <2>1 DEF C
<1>15. CASE small # <<>>
  BY <1>1, <1>2, <1>3, <1>9, <1>13, <1>15 DEF C
<1> QED BY <1>14, <1>15

\* What the outpoints in S are worth in the plan as it is.
Worth(S) == [o \in S |-> ValueOf(o)]

\* What a transaction spends is the worth of its inputs.
LEMMA ValueInIs ==
    ASSUME NEW S, NEW tx, tx.sources \in Seq(S)
    PROVE  ValueIn(tx) = MapSum(Worth(S), tx.sources)
<1> DEFINE s == tx.sources
<1>1. s \in Seq(S) /\ ValueIn(tx) = SumSeq([k \in DOMAIN s |-> ValueOf(s[k])])
  BY DEF ValueIn
<1> HIDE DEF s
<1>2. DOMAIN s = 1..Len(s) /\ \A k \in 1..Len(s) : s[k] \in S
  BY <1>1
<1>3. [k \in DOMAIN s |-> ValueOf(s[k])] = [k \in 1..Len(s) |-> Worth(S)[s[k]]]
  BY <1>2 DEF Worth
<1> QED BY <1>1, <1>3 DEF MapSum, s

\* A UTXO is worth its value.
LEMMA UtxoWorth ==
    ASSUME utxos \in Inputs
    PROVE  /\ \A a \in Acc : \A j \in 1..Len(utxos[a]) : ValueOf(Utxo(a, j)) = utxos[a][j]
           /\ \A o \in Utxos : ValueOf(o) \in Nat
<1>1. \A a \in Acc : \A j \in 1..Len(utxos[a]) : ValueOf(Utxo(a, j)) = utxos[a][j]
  BY DEF ValueOf, Utxo
<1>2. ASSUME NEW o \in Utxos PROVE ValueOf(o) \in Nat
  <2>1. PICK a \in Acc : o \in ToSet(OutpointsOf(a))
    BY DEF Utxos
  <2>2. utxos[a] \in Seq(Nat) /\ Len(utxos[a]) \in Nat
    BY UtxosType
  <2>3. PICK j \in 1..Len(utxos[a]) : o = Utxo(a, j)
    BY <2>1 DEF ToSet, OutpointsOf
  <2> QED BY <1>1, <2>2, <2>3
<1> QED BY <1>1, <1>2

\* A complete batched plan, transaction by transaction.
LEMMA BatchedPlan ==
    ASSUME PlanInv, result = "Ok", alg = "batched"
    PROVE  /\ ChainLen \in Nat /\ DOMAIN txs = 1..(ChainLen + 1) /\ Len(txs) = ChainLen + 1
           /\ \A n \in 1..ChainLen : txs[n] = ChainTx(n)
           /\ txs[ChainLen + 1] = FinalTx
<1> DEFINE N == ChainLen
           X == {ChainTx(k) : k \in 1..N} \cup {FinalTx}
<1>1. txs = Append(Chain(N), FinalTx)
  BY DEF PlanInv, BatchedInv
<1>2. N \in Nat /\ Len(Chain(N)) = N
  BY ChainLenFacts, ChainGrows
<1>3. Chain(N) \in Seq(X) /\ FinalTx \in X
  BY <1>2 DEF Chain
<1>4. \A n \in 1..N : Chain(N)[n] = ChainTx(n)
  BY DEF Chain
<1> HIDE DEF X, N
<1>5. /\ DOMAIN txs = 1..(N + 1) /\ Len(txs) = N + 1 /\ txs[N + 1] = FinalTx
      /\ \A n \in 1..N : txs[n] = Chain(N)[n]
  BY <1>1, <1>2, <1>3
<1> QED BY <1>2, <1>4, <1>5 DEF N

\* What its links are worth.
LEMMA BatchedWorth ==
    ASSUME PlanInv, result = "Ok", alg = "batched"
    PROVE  /\ Prices(Worth(Outpoints), Outpoints)
           /\ \A k \in 1..ChainLen : Worth(Outpoints)[Change(k)] = FirstUtxo - Spent(k)
<1>1. utxos \in Inputs /\ HasFeeAccount /\ Spent(ChainLen) <= FirstUtxo
  BY DEF PlanInv, InputInv, FundedInv, BatchedInv
<1>2. /\ ChainLen \in Nat /\ FirstUtxo \in Nat
      /\ \A k \in 0..ChainLen : Spent(k) \in Nat
  BY <1>1, ChainLenFacts, FeeAccountFacts, SpentSteps
<1>3. ASSUME NEW k \in 1..ChainLen
      PROVE  ValueOf(Change(k)) = FirstUtxo - Spent(k) /\ ValueOf(Change(k)) \in Nat
  <2>1. txs[k] = ChainTx(k)
    BY BatchedPlan
  <2>2. ValueOf(Change(k)) = ChainTx(k).change
    BY <2>1 DEF ValueOf, Change
  <2>3. ValueOf(Change(k)) = FirstUtxo - Spent(k)
    BY <2>2 DEF ChainTx
  <2>4. k \in 0..ChainLen /\ ChainLen \in 0..ChainLen /\ k <= ChainLen
    BY <1>2
  <2>5. Spent(k) <= Spent(ChainLen)
    BY <1>1, <2>4, SpentGrows
  <2>6. Spent(k) \in Nat /\ Spent(ChainLen) \in Nat
    BY <1>2, <2>4
  <2>7. FirstUtxo - Spent(k) \in Nat
    BY <1>1, <1>2, <2>5, <2>6
  <2> QED BY <2>3, <2>7
<1>4. /\ \A a \in Acc : \A j \in 1..Len(utxos[a]) : ValueOf(Utxo(a, j)) = utxos[a][j]
      /\ \A o \in Utxos : ValueOf(o) \in Nat
  BY <1>1, UtxoWorth
<1>5. \A a \in Acc : \A j \in 1..Len(utxos[a]) : Utxo(a, j) \in Utxos
  BY <1>1, OutpointsType
<1>6. Utxos \subseteq Outpoints /\ \A k \in 1..ChainLen : Change(k) \in Outpoints
  BY DEF Outpoints
<1>7. Worth(Outpoints) \in [Outpoints -> Nat]
  BY <1>3, <1>4 DEF Worth, Outpoints
<1>8. \A o \in Outpoints : Worth(Outpoints)[o] = ValueOf(o)
  BY DEF Worth
<1> QED BY <1>3, <1>4, <1>5, <1>6, <1>7, <1>8 DEF Prices

FeeOf(tx) == estimate_fee(Len(tx.sources), Cardinality(tx.customers) + 1)

\* PlanBalances with its abbreviation unfolded.
Balanced ==
    /\ \A n \in DOMAIN txs : ValueIn(txs[n]) = ValueOut(txs[n]) + FeeOf(txs[n])
    /\ cumulativeFee = SumSeq([n \in DOMAIN txs |-> FeeOf(txs[n])])
    /\ cumulativeFee = planned
    /\ utxoCount = InputCount(funded) + Len(txs) - 1

\* Every batched plan balances.
LEMMA BatchedBalanced ==
    ASSUME PlanInv, result = "Ok", alg = "batched"
    PROVE  Balanced
<1> DEFINE C == ChainLen
           v == Worth(Outpoints)
<1>1. /\ utxos \in Inputs /\ HasFeeAccount /\ cumulativeFee = planned
      /\ planned = Spent(C) + LastFee
      /\ utxoCount = SourceCount(C) + Len(FinalTx.sources)
  BY DEF PlanInv, InputInv, FundedInv, BatchedInv
<1>2. /\ C \in Nat /\ DOMAIN txs = 1..(C + 1) /\ Len(txs) = C + 1
      /\ \A n \in 1..C : txs[n] = ChainTx(n)
      /\ txs[C + 1] = FinalTx
  BY BatchedPlan
<1>3. Prices(v, Outpoints) /\ \A k \in 1..ChainLen : v[Change(k)] = FirstUtxo - Spent(k)
  BY BatchedWorth
<1> HIDE DEF v
<1>4. ASSUME NEW n \in 1..C
      PROVE  ValueIn(txs[n]) = ValueOut(txs[n]) + FeeOf(txs[n]) /\ FeeOf(txs[n]) = ChainFee(n)
  <2>1. txs[n] = ChainTx(n)
    BY <1>2
  <2>2. ChainTx(n).sources \in Seq(Outpoints)
    BY <1>1, ChainSourcesType
  <2>3. ValueIn(ChainTx(n)) = MapSum(v, ChainTx(n).sources)
    BY <2>2, ValueInIs DEF v
  <2>4. /\ MapSum(v, ChainTx(n).sources) = ValueOut(ChainTx(n)) + ChainFee(n)
        /\ ChainFee(n) = FeeOf(ChainTx(n))
    BY <1>1, <1>3, ChainBalance DEF FeeOf
  <2> QED BY <2>1, <2>3, <2>4
<1>5. ValueIn(FinalTx) = ValueOut(FinalTx) + FeeOf(FinalTx) /\ FeeOf(FinalTx) = LastFee
      /\ Len(FinalTx.sources) = Len(utxos[FeeAccount])
  <2>1. FinalTx.sources \in Seq(Outpoints)
    BY <1>1, FinalSourcesType
  <2>2. ValueIn(FinalTx) = MapSum(v, FinalTx.sources)
    BY <2>1, ValueInIs DEF v
  <2>3. /\ MapSum(v, FinalTx.sources) = ValueOut(FinalTx) + LastFee
        /\ Len(FinalTx.sources) = Len(utxos[FeeAccount])
        /\ LastFee = FeeOf(FinalTx)
    BY <1>1, <1>3, FinalBalance DEF FeeOf
  <2> QED BY <2>2, <2>3
<1>6. ASSUME NEW n \in DOMAIN txs
      PROVE  ValueIn(txs[n]) = ValueOut(txs[n]) + FeeOf(txs[n])
  <2>1. n \in 1..C \/ n = C + 1
    BY <1>2
  <2> QED BY <1>2, <1>4, <1>5, <2>1
<1>7. cumulativeFee = SumSeq([n \in DOMAIN txs |-> FeeOf(txs[n])])
  <2> DEFINE fees == [n \in 1..C |-> ChainFee(n)]
             all == [n \in DOMAIN txs |-> FeeOf(txs[n])]
  <2>1. /\ \A n \in 1..C : ChainFee(n) \in Nat
        /\ LastFee \in Nat
    BY <1>1, ChainFeeType, FeeAccountFacts
  <2>2. /\ DOMAIN all = 1..(C + 1) /\ all[C + 1] = LastFee
        /\ \A n \in 1..C : all[n] = ChainFee(n)
        /\ all = [n \in DOMAIN all |-> all[n]]
    <3>1. C + 1 \in DOMAIN txs /\ 1..C \subseteq DOMAIN txs
      BY <1>2
    <3> QED BY <1>2, <1>4, <1>5, <3>1
  <2>3. Spent(C) = SumSeq(fees)
    BY DEF Spent
  <2>4. fees \in Seq(Nat) /\ Len(fees) = C /\ \A n \in 1..C : fees[n] = ChainFee(n)
    BY <1>2, <2>1
  <2> HIDE DEF fees, all, C
  <2>5. all = Append(fees, LastFee)
    BY <1>2, <2>1, <2>2, <2>4
  <2>6. SumSeq(all) = SumSeq(fees) + LastFee
    BY <2>1, <2>4, <2>5, SumAppend
  <2> QED BY <1>1, <2>3, <2>6 DEF all
<1>8. utxoCount = InputCount(funded) + Len(txs) - 1
  <2> DEFINE l == Keep(funded, non_fee)
  <2>1. /\ Counts \in [Acc -> Nat] /\ FeeAccount \in Acc
        /\ InputCount(funded) = MapSum(Counts, funded)
        /\ InputCount(large) = MapSum(Counts, large) /\ InputCount(large) \in Nat
        /\ InputCount(small) = MapSum(Counts, small) /\ InputCount(small) \in Nat
    BY <1>1, Partition, InputCountIs, FeeAccountFacts
  <2>2. /\ MapSum(Counts, funded) = MapSum(Counts, l) + Counts[FeeAccount]
        /\ MapSum(Counts, l) = MapSum(Counts, large) + MapSum(Counts, small)
    BY <1>1, <2>1, SplitFunded
  <2>3. Counts[FeeAccount] = Len(utxos[FeeAccount]) /\ Len(utxos[FeeAccount]) \in Nat
    BY <1>1, <2>1, FeeAccountFacts DEF Counts
  <2>4. SourceCount(C) = InputCount(large) + InputCount(small) + C
    BY <1>1, SourceCountIs
  <2> HIDE DEF l, C
  <2> QED BY <1>1, <1>2, <1>5, <2>1, <2>2, <2>3, <2>4
<1> QED BY <1>1, <1>6, <1>7, <1>8 DEF Balanced

\* Every plan of a single transaction balances.
LEMMA SingleBalanced ==
    ASSUME PlanInv, result = "Ok", alg = "single"
    PROVE  Balanced
<1> DEFINE l == Keep(funded, non_fee)
           v == Worth(Utxos)
<1>1. /\ utxos \in Inputs /\ HasFeeAccount /\ cumulativeFee = planned
      /\ planned = SingleFee /\ txs = <<SingleTx>> /\ utxoCount = Len(Sources(funded))
  BY DEF PlanInv, InputInv, FundedInv, SingleInv
<1>2. Prices(v, Utxos)
  <2>1. v \in [Utxos -> Nat]
    BY <1>1, UtxoWorth DEF Worth
  <2>2. \A a \in Acc : \A j \in 1..Len(utxos[a]) : v[Utxo(a, j)] = utxos[a][j]
    BY <1>1, UtxoWorth, OutpointsType DEF Worth
  <2> QED BY <2>1, <2>2 DEF Prices
<1>3. /\ SingleTx.sources = Sources(funded) /\ SingleTx.customers = Customers(non_fee)
      /\ SingleTx.change = total_value(FeeAccount) - SingleFee
  BY DEF SingleTx
<1>4. funded \in Seq(Acc) /\ Len(funded) \in Nat
  BY Partition
<1>5. Sources(funded) \in Seq(Utxos) /\ MapSum(v, Sources(funded)) = MapSum(Totals, funded)
      /\ Len(Sources(funded)) = InputCount(funded) /\ InputCount(funded) \in Nat
  BY <1>1, <1>2, <1>4, BundleWorth, BundleCount, InputCountIs
<1>6. ValueIn(SingleTx) = MapSum(Totals, funded)
  BY <1>3, <1>5, ValueInIs
<1>7. /\ Totals \in [Acc -> Nat] /\ FeeAccount \in Acc
      /\ total_value(FeeAccount) \in Nat /\ Totals[FeeAccount] = total_value(FeeAccount)
  BY <1>1, TotalsType, FeeAccountFacts DEF Totals
<1>8. /\ MapSum(Totals, funded) = MapSum(Totals, l) + Totals[FeeAccount]
      /\ l \in Seq(Acc) /\ IsInjective(l) /\ ToSet(l) = non_fee
      /\ Len(l) = Len(funded) - 1
  BY <1>1, <1>7, SplitFunded
<1> HIDE DEF l, v
<1>9. ValueOut(SingleTx) = MapSum(Totals, l) + SingleTx.change
      /\ Cardinality(SingleTx.customers) = Len(l)
  BY <1>1, <1>3, <1>8, CustomersPaid
<1>10. FeeOf(SingleTx) = SingleFee /\ SingleFee \in Nat
  <2>1. Len(l) + 1 = Len(funded)
    BY <1>4, <1>8
  <2> QED BY <1>1, <1>3, <1>5, <1>9, <2>1, SingleFeeType DEF FeeOf, SingleFee
<1>11. MapSum(Totals, l) \in Nat
  BY <1>7, <1>8, MapSumType
<1>12. ValueIn(SingleTx) = ValueOut(SingleTx) + FeeOf(SingleTx)
  BY <1>3, <1>6, <1>7, <1>8, <1>9, <1>10, <1>11
<1>13. /\ DOMAIN txs = 1..1 /\ Len(txs) = 1 /\ txs[1] = SingleTx
       /\ \A n \in DOMAIN txs : n = 1
  BY <1>1
<1>14. cumulativeFee = SumSeq([n \in DOMAIN txs |-> FeeOf(txs[n])])
  <2>1. [n \in DOMAIN txs |-> FeeOf(txs[n])] = Append(<<>>, SingleFee)
    <3>1. [n \in DOMAIN txs |-> FeeOf(txs[n])] = [n \in 1..1 |-> SingleFee]
      BY <1>10, <1>13
    <3>2. [n \in 1..1 |-> SingleFee] = <<SingleFee>>
      BY <1>10
    <3> QED BY <3>1, <3>2
  <2>2. SumSeq(Append(<<>>, SingleFee)) = SumSeq(<<>>) + SingleFee
    <3>1. <<>> \in Seq(Nat)
      OBVIOUS
    <3> QED BY <1>10, <3>1, SumAppend
  <2> QED BY <1>1, <1>10, <2>1, <2>2, SumEmpty
<1>15. \A n \in DOMAIN txs : ValueIn(txs[n]) = ValueOut(txs[n]) + FeeOf(txs[n])
  BY <1>12, <1>13
<1>16. utxoCount = InputCount(funded) + Len(txs) - 1
  BY <1>1, <1>5, <1>13
<1> QED BY <1>1, <1>14, <1>15, <1>16 DEF Balanced

\* The plan adds up: every transaction of an Ok plan spends exactly what it
\* pays out and the fee estimated for it, the chain's links at the value of the
\* change they spend; total_fees is the sum of those fees and what the balance
\* check asked for, and utxo_count the number of inputs.
THEOREM PlanBalancesHolds == Spec => []PlanBalances
<1>1. Init => PlanInv
  BY PlanInit
<1>2. PlanInv /\ [Next]_vars => PlanInv'
  BY PlanStep
<1>3. PlanInv => PlanBalances
  <2>1. ASSUME PlanInv, result = "Ok" PROVE Balanced
    <3>1. alg \in {"single", "batched"}
      BY <2>1 DEF PlanInv, InputInv
    <3> QED BY <2>1, <3>1, SingleBalanced, BatchedBalanced
  <2> QED BY <2>1 DEF Balanced, PlanBalances, FeeOf
<1> QED BY <1>1, <1>2, <1>3, PTL DEF Spec

----------------------------------------------------------------------------
(* Which outpoints each transaction spends                                 *)

UtxosOf(A) == UNION {ToSet(OutpointsOf(a)) : a \in A}

\* The outpoints of a set of accounts.
LEMMA UtxosOfIs ==
    ASSUME NEW A
    PROVE  \A o : o \in UtxosOf(A) <=>
                    \E a \in A : \E j \in 1..Len(utxos[a]) : o = Utxo(a, j)
<1>1. \A a : ToSet(OutpointsOf(a)) = {Utxo(a, j) : j \in 1..Len(utxos[a])}
  BY DEF OutpointsOf, ToSet
<1> QED BY <1>1 DEF UtxosOf

\* Outpoints are told apart by account and index, or by position.
LEMMA OutpointsDiffer ==
    /\ \A a, b, j, k : Utxo(a, j) = Utxo(b, k) => a = b /\ j = k
    /\ \A a, j, n : Utxo(a, j) # Change(n)
    /\ \A n, m : Change(n) = Change(m) => n = m
BY DEF Utxo, Change

\* The sources of a bundle are the UTXOs of its accounts, each once.
LEMMA SourcesElements ==
    ASSUME utxos \in Inputs, NEW l \in Seq(Acc), IsInjective(l)
    PROVE  /\ IsInjective(Sources(l)) /\ ToSet(Sources(l)) = UtxosOf(ToSet(l))
           /\ \A a \in Acc : /\ IsInjective(OutpointsOf(a))
                             /\ ToSet(OutpointsOf(a)) = UtxosOf({a})
<1> DEFINE ss == [k \in 1..Len(l) |-> OutpointsOf(l[k])]
<1>1. Len(l) \in Nat /\ DOMAIN l = 1..Len(l) /\ \A k \in 1..Len(l) : l[k] \in Acc
  OBVIOUS
<1>2. ss \in Seq(Seq(Utxos)) /\ Len(ss) = Len(l)
      /\ \A k \in 1..Len(l) : ss[k] = OutpointsOf(l[k])
  BY <1>1, SourcesType
<1>3. \A a : IsInjective(OutpointsOf(a))
  BY OutpointsDiffer DEF IsInjective, OutpointsOf
<1>4. \A a, b : a # b => ToSet(OutpointsOf(a)) \cap ToSet(OutpointsOf(b)) = {}
  <2>1. \A a : ToSet(OutpointsOf(a)) = {Utxo(a, j) : j \in 1..Len(utxos[a])}
    BY DEF OutpointsOf, ToSet
  <2> QED BY <2>1, OutpointsDiffer
<1>5. Sources(l) = FlattenSeq(ss)
  BY DEF Sources
<1> HIDE DEF ss
<1>6. Disjoint(ss)
  <2>1. \A k, m \in 1..Len(l) : k # m => l[k] # l[m]
    BY <1>1 DEF IsInjective
  <2> QED BY <1>2, <1>4, <2>1 DEF Disjoint
<1>7. /\ IsInjective(FlattenSeq(ss))
      /\ ToSet(FlattenSeq(ss)) = UNION {ToSet(ss[k]) : k \in 1..Len(ss)}
  <2>1. \A k \in 1..Len(ss) : IsInjective(ss[k])
    BY <1>2, <1>3
  <2> QED BY <1>2, <1>6, <2>1, FlattenElements
<1>8. UNION {ToSet(ss[k]) : k \in 1..Len(ss)} = UtxosOf(ToSet(l))
  <2>1. \A a : a \in ToSet(l) <=> \E k \in 1..Len(l) : a = l[k]
    BY <1>1 DEF ToSet
  <2>2. \A o : (\E k \in 1..Len(l) : o \in ToSet(OutpointsOf(l[k])))
                <=> o \in UtxosOf(ToSet(l))
    BY <2>1 DEF UtxosOf
  <2>3. \A o : o \in UNION {ToSet(ss[k]) : k \in 1..Len(ss)}
                <=> \E k \in 1..Len(l) : o \in ToSet(OutpointsOf(l[k]))
    BY <1>2
  <2> QED BY <2>2, <2>3
<1> QED BY <1>3, <1>5, <1>7, <1>8 DEF UtxosOf

\* The accounts the n-th transaction of the chain sweeps, the UTXOs the n-th
\* transaction of the plan spends, and its link to the one before.
Owners(n) == IF n <= Len(large) THEN {large[n]} ELSE ToSet(small)

Part(n) == IF n <= ChainLen THEN UtxosOf(Owners(n))
           ELSE {Utxo(FeeAccount, j) : j \in 2..Len(utxos[FeeAccount])}

Link(n) == IF n = 1 THEN Utxo(FeeAccount, 1) ELSE Change(n - 1)

\* The chain has each account but the fee account in one transaction.
LEMMA OwnersSplit ==
    ASSUME utxos \in Inputs, HasFeeAccount
    PROVE  /\ \A n \in 1..ChainLen : Owners(n) \subseteq non_fee
           /\ \A n, m \in 1..ChainLen : n # m => Owners(n) \cap Owners(m) = {}
           /\ UNION {Owners(n) : n \in 1..ChainLen} = non_fee
<1> DEFINE L == Len(large)
           C == ChainLen
<1>1. /\ L \in Nat /\ C \in Nat /\ L <= C
      /\ small = <<>> => C = L
      /\ small # <<>> => C = L + 1
  BY ChainLenFacts DEF ChainLen
<1>2. /\ large \in Seq(Acc) /\ IsInjective(large) /\ DOMAIN large = 1..L
      /\ ToSet(large) \subseteq non_fee /\ ToSet(small) \subseteq non_fee
      /\ \A n \in 1..L : large[n] \in ToSet(large)
  BY Partition DEF ToSet
<1>3. ToSet(large) \cap ToSet(small) = {} /\ ToSet(large) \cup ToSet(small) = non_fee
  <2>1. \A a \in non_fee : total_value(a) >= SmallThreshold
                            \/ total_value(a) < SmallThreshold
    BY ThresholdSplits
  <2>2. \A a \in non_fee : ~(total_value(a) >= SmallThreshold
                              /\ total_value(a) < SmallThreshold)
    BY ThresholdSplits
  <2> QED BY <2>1, <2>2, Partition
<1>4. \A n \in 1..C : n \in 1..L \/ (n = L + 1 /\ n = C /\ small # <<>> /\ ~(n <= L))
  BY <1>1
<1>5. /\ \A n \in 1..L : n \in 1..C /\ Owners(n) = {large[n]}
      /\ small # <<>> => C \in 1..C /\ Owners(C) = ToSet(small)
  BY <1>1 DEF Owners
<1>6. \A n, m \in 1..L : large[n] = large[m] => n = m
  BY <1>2 DEF IsInjective
<1> HIDE DEF L, C
<1>7. ASSUME NEW n \in 1..C PROVE Owners(n) \subseteq non_fee
  BY <1>2, <1>4, <1>5
<1>8. ASSUME NEW n \in 1..C, NEW m \in 1..C, n # m PROVE Owners(n) \cap Owners(m) = {}
  <2>1. CASE n \in 1..L /\ m \in 1..L
    BY <1>5, <1>6, <1>8, <2>1
  <2>2. CASE n \in 1..L /\ m = C /\ small # <<>>
    BY <1>2, <1>3, <1>5, <2>2
  <2>3. CASE m \in 1..L /\ n = C /\ small # <<>>
    BY <1>2, <1>3, <1>5, <2>3
  <2> QED BY <1>4, <1>8, <2>1, <2>2, <2>3
<1>9. ASSUME NEW a \in non_fee PROVE \E n \in 1..C : a \in Owners(n)
  <2>1. CASE a \in ToSet(large)
    <3>1. PICK n \in 1..L : a = large[n]
      BY <1>2, <2>1 DEF ToSet
    <3> QED BY <1>5, <3>1
  <2>2. CASE a \in ToSet(small)
    <3>1. small # <<>>
      BY <2>2, ShortLists
    <3> QED BY <1>5, <2>2, <3>1
  <2> QED BY <1>3, <2>1, <2>2
<1>10. UNION {Owners(n) : n \in 1..C} = non_fee
  BY <1>7, <1>9
<1> QED BY <1>7, <1>8, <1>10 DEF C

\* No outpoint is spent by two transactions, and none is left over.
LEMMA PartsSplit ==
    ASSUME utxos \in Inputs, HasFeeAccount
    PROVE  /\ \A n, m \in 1..(ChainLen + 1) :
                /\ n # m => Part(n) \cap Part(m) = {} /\ Link(n) # Link(m)
                /\ Link(n) \notin Part(m)
           /\ UNION {Part(n) \cup {Link(n)} : n \in 1..(ChainLen + 1)}
                 = Utxos \cup {Change(n) : n \in 1..ChainLen}
<1> DEFINE C == ChainLen
           rest == {Utxo(FeeAccount, j) : j \in 2..Len(utxos[FeeAccount])}
<1>1. C \in Nat /\ FeeAccount \in Acc /\ Len(utxos[FeeAccount]) \in Nat \ {0}
  BY ChainLenFacts, FeeAccountFacts
<1>2. /\ \A n \in 1..C : Owners(n) \subseteq non_fee
      /\ \A n, m \in 1..C : n # m => Owners(n) \cap Owners(m) = {}
      /\ UNION {Owners(n) : n \in 1..C} = non_fee
  BY OwnersSplit
<1>3. FeeAccount \notin non_fee /\ non_fee \subseteq Acc
  BY Partition DEF non_fee
<1>4. Part(C + 1) = rest /\ \A n \in 1..C : Part(n) = UtxosOf(Owners(n))
  BY <1>1 DEF Part
<1>5. \A n \in 1..(C + 1) : n \in 1..C \/ n = C + 1
  BY <1>1
<1>l. \A n \in 1..C : n \in 1..(C + 1)
  BY <1>1
<1>6. /\ Link(1) = Utxo(FeeAccount, 1)
      /\ \A n \in 1..(C + 1) : n # 1 => Link(n) = Change(n - 1) /\ n - 1 \in 1..C
      /\ \A n \in 1..C : n + 1 \in 1..(C + 1) /\ Link(n + 1) = Change(n)
      /\ 1 \in 1..(C + 1)
  BY <1>1 DEF Link
<1> HIDE DEF C
<1>7. \A n \in 1..(C + 1) : \A o \in Part(n) :
        \E a \in Acc : \E j \in 1..Len(utxos[a]) :
            o = Utxo(a, j) /\ (a # FeeAccount \/ j # 1)
  <2> SUFFICES ASSUME NEW n \in 1..(C + 1), NEW o \in Part(n)
               PROVE  \E a \in Acc : \E j \in 1..Len(utxos[a]) :
                        o = Utxo(a, j) /\ (a # FeeAccount \/ j # 1)
    OBVIOUS
  <2>1. CASE n \in 1..C
    <3>1. PICK a \in Owners(n) : \E j \in 1..Len(utxos[a]) : o = Utxo(a, j)
      BY <1>4, <2>1, UtxosOfIs
    <3> QED BY <1>2, <1>3, <2>1, <3>1
  <2>2. CASE n = C + 1
    <3>1. PICK j \in 2..Len(utxos[FeeAccount]) : o = Utxo(FeeAccount, j)
      BY <1>4, <2>2
    <3>2. j \in 1..Len(utxos[FeeAccount]) /\ j # 1
      BY <1>1
    <3> QED BY <1>1, <3>1, <3>2
  <2> QED BY <1>5, <2>1, <2>2
<1>8. ASSUME NEW n \in 1..C, NEW m \in 1..C, n # m
      PROVE  UtxosOf(Owners(n)) \cap UtxosOf(Owners(m)) = {}
  <2> SUFFICES ASSUME NEW o, o \in UtxosOf(Owners(n)), o \in UtxosOf(Owners(m))
               PROVE  FALSE
    OBVIOUS
  <2>1. PICK a \in Owners(n) : \E j \in 1..Len(utxos[a]) : o = Utxo(a, j)
    BY UtxosOfIs
  <2>2. PICK b \in Owners(m) : \E j \in 1..Len(utxos[b]) : o = Utxo(b, j)
    BY UtxosOfIs
  <2>3. a = b
    BY <2>1, <2>2, OutpointsDiffer
  <2> QED BY <1>2, <1>8, <2>3
<1>9. ASSUME NEW n \in 1..C PROVE UtxosOf(Owners(n)) \cap rest = {}
  <2> SUFFICES ASSUME NEW o, o \in UtxosOf(Owners(n)), o \in rest
               PROVE  FALSE
    OBVIOUS
  <2>1. PICK a \in Owners(n) : \E j \in 1..Len(utxos[a]) : o = Utxo(a, j)
    BY UtxosOfIs
  <2>2. a = FeeAccount
    BY <2>1, OutpointsDiffer
  <2> QED BY <1>2, <1>3, <2>2
<1>10. ASSUME NEW n \in 1..(C + 1), NEW m \in 1..(C + 1)
       PROVE  /\ n # m => Part(n) \cap Part(m) = {} /\ Link(n) # Link(m)
              /\ Link(n) \notin Part(m)
  <2>1. n # m => Part(n) \cap Part(m) = {}
    BY <1>4, <1>5, <1>8, <1>9
  <2>2. n # m => Link(n) # Link(m)
    <3>1. CASE n = 1 \/ m = 1
      BY <1>6, <3>1, OutpointsDiffer
    <3>2. CASE n # 1 /\ m # 1
      <4>1. Link(n) = Link(m) => n - 1 = m - 1
        BY <1>6, <3>2, OutpointsDiffer
      <4> QED BY <1>1, <4>1
    <3> QED BY <3>1, <3>2
  <2>3. Link(n) \notin Part(m)
    <3>1. CASE n = 1
      BY <1>6, <1>7, <3>1, OutpointsDiffer
    <3>2. CASE n # 1
      BY <1>6, <1>7, <3>2, OutpointsDiffer
    <3> QED BY <3>1, <3>2
  <2> QED BY <2>1, <2>2, <2>3
<1>11. \A o : o \in Utxos <=> \E a \in Acc : \E j \in 1..Len(utxos[a]) : o = Utxo(a, j)
  <2>1. Utxos = UtxosOf(Acc)
    BY DEF Utxos, UtxosOf
  <2> QED BY <2>1, UtxosOfIs
<1>12. ASSUME NEW n \in 1..(C + 1)
       PROVE  Part(n) \subseteq Utxos
              /\ Link(n) \in Utxos \cup {Change(k) : k \in 1..C}
  <2>1. Part(n) \subseteq Utxos
    BY <1>7, <1>11
  <2>2. CASE n = 1
    <3>1. 1 \in 1..Len(utxos[FeeAccount])
      BY <1>1
    <3> QED BY <1>1, <1>6, <1>11, <2>1, <2>2, <3>1
  <2>3. CASE n # 1
    BY <1>6, <2>1, <2>3
  <2> QED BY <2>2, <2>3
<1>13. ASSUME NEW o \in Utxos
       PROVE  \E n \in 1..(C + 1) : o \in Part(n) \cup {Link(n)}
  <2>1. PICK a \in Acc : \E j \in 1..Len(utxos[a]) : o = Utxo(a, j)
    BY <1>11
  <2>2. PICK j \in 1..Len(utxos[a]) : o = Utxo(a, j)
    BY <2>1
  <2>3. CASE a = FeeAccount /\ j = 1
    BY <1>6, <2>2, <2>3
  <2>4. CASE a = FeeAccount /\ j # 1
    <3>1. j \in 2..Len(utxos[FeeAccount])
      BY <1>1, <2>2, <2>4
    <3>2. C + 1 \in 1..(C + 1)
      BY <1>1
    <3> QED BY <1>4, <2>2, <2>4, <3>1, <3>2
  <2>5. CASE a # FeeAccount
    <3>1. utxos[a] # <<>>
      BY <2>2, UtxosType
    <3>2. a \in non_fee
      BY <2>5, <3>1, Partition DEF non_fee
    <3>3. PICK n \in 1..C : a \in Owners(n)
      BY <1>2, <3>2
    <3>4. o \in Part(n)
      BY <1>4, <2>2, <3>3, UtxosOfIs
    <3> QED BY <1>l, <3>4
  <2> QED BY <2>3, <2>4, <2>5
<1>14. ASSUME NEW k \in 1..C
       PROVE  \E n \in 1..(C + 1) : Change(k) \in Part(n) \cup {Link(n)}
  BY <1>6
<1>15. UNION {Part(n) \cup {Link(n)} : n \in 1..(C + 1)}
         = Utxos \cup {Change(n) : n \in 1..C}
  BY <1>12, <1>13, <1>14
<1> QED BY <1>10, <1>15 DEF C

\* A transaction of the chain spends its accounts' UTXOs and its link, once each.
LEMMA ChainElements ==
    ASSUME utxos \in Inputs, HasFeeAccount, NEW n \in 1..ChainLen
    PROVE  /\ IsInjective(ChainTx(n).sources)
           /\ ToSet(ChainTx(n).sources) = Part(n) \cup {Link(n)}
<1> DEFINE own == IF n <= Len(large) THEN OutpointsOf(large[n]) ELSE Sources(small)
           S == Utxos \cup {Link(n)}
<1>1. ChainTx(n).sources = Append(own, Link(n))
  BY DEF ChainTx, Link
<1>2. n \in 1..(ChainLen + 1) /\ n <= ChainLen
  BY ChainLenFacts
<1>3. IsInjective(own) /\ ToSet(own) = Part(n) /\ own \in Seq(Utxos)
  <2>1. CASE n <= Len(large)
    <3>1. large[n] \in Acc /\ <<large[n]>> \in Seq(Acc) /\ IsInjective(<<large[n]>>)
      BY <2>1, ChainLenFacts, Partition, ShortLists
    <3>2. IsInjective(OutpointsOf(large[n]))
          /\ ToSet(OutpointsOf(large[n])) = UtxosOf({large[n]})
      BY <3>1, SourcesElements
    <3> QED BY <1>2, <2>1, <3>1, <3>2, OutpointsType DEF Part, Owners
  <2>2. CASE ~(n <= Len(large))
    <3>1. IsInjective(Sources(small)) /\ ToSet(Sources(small)) = UtxosOf(ToSet(small))
          /\ Sources(small) \in Seq(Utxos)
      BY Partition, SourcesElements, SourcesType
    <3> QED BY <1>2, <2>2, <3>1 DEF Part, Owners
  <2> QED BY <2>1, <2>2
<1>4. Link(n) \notin ToSet(own)
  BY <1>2, <1>3, PartsSplit
<1> HIDE DEF own
<1>5. own \in Seq(S) /\ Link(n) \in S
  BY <1>3
<1> HIDE DEF S
<1> QED BY <1>1, <1>3, <1>4, <1>5, AppendElements

\* The last transaction spends the rest of the fee account and the last link.
LEMMA FinalElements ==
    ASSUME utxos \in Inputs, HasFeeAccount
    PROVE  /\ IsInjective(FinalTx.sources)
           /\ ToSet(FinalTx.sources) = Part(ChainLen + 1) \cup {Link(ChainLen + 1)}
<1> DEFINE o == OutpointsOf(FeeAccount)
           C == ChainLen
           N == Len(utxos[FeeAccount])
           t == Tail(o)
<1>1. FeeAccount \in Acc /\ N \in Nat \ {0} /\ C \in Nat
  BY FeeAccountFacts, ChainLenFacts
<1>2. o \in Seq(Utxos) /\ Len(o) = N /\ \A j \in 1..N : o[j] = Utxo(FeeAccount, j)
  BY <1>1, OutpointsType
<1>3. FinalTx.sources = IF C = 0 THEN o ELSE Append(t, Change(C))
  BY DEF FinalTx
<1>4. Part(C + 1) = {Utxo(FeeAccount, j) : j \in 2..N}
      /\ Link(C + 1) = (IF C = 0 THEN Utxo(FeeAccount, 1) ELSE Change(C))
  BY <1>1 DEF Part, Link
<1> HIDE DEF o, C, N
<1>5. CASE C = 0
  <2>1. DOMAIN o = 1..N
    BY <1>2
  <2>2. IsInjective(o)
    BY <1>2, <2>1, OutpointsDiffer DEF IsInjective
  <2>3. \A j : j \in 1..N <=> j = 1 \/ j \in 2..N
    BY <1>1
  <2>4. ToSet(o) = {Utxo(FeeAccount, j) : j \in 2..N} \cup {Utxo(FeeAccount, 1)}
    BY <1>2, <2>1, <2>3 DEF ToSet
  <2> QED BY <1>3, <1>4, <1>5, <2>2, <2>4 DEF C
<1>6. CASE C # 0
  <2> DEFINE S == Utxos \cup {Change(C)}
  <2>1. o # <<>>
    BY <1>1, <1>2
  <2>2. t \in Seq(Utxos) /\ DOMAIN t = 1..(N - 1)
        /\ \A i \in 1..(N - 1) : t[i] = o[i + 1]
    BY <1>1, <1>2, <2>1
  <2> HIDE DEF t
  <2>3. \A i \in 1..(N - 1) : t[i] = Utxo(FeeAccount, i + 1) /\ i + 1 \in 2..N
    <3>1. \A i \in 1..(N - 1) : i + 1 \in 1..N /\ i + 1 \in 2..N
      BY <1>1
    <3> QED BY <1>2, <2>2, <3>1
  <2>4. IsInjective(t)
    <3> SUFFICES ASSUME NEW i \in 1..(N - 1), NEW j \in 1..(N - 1), t[i] = t[j]
                 PROVE  i = j
      BY <2>2 DEF IsInjective
    <3>1. i + 1 = j + 1
      BY <2>3, OutpointsDiffer
    <3> QED BY <1>1, <3>1
  <2>5. ToSet(t) = {Utxo(FeeAccount, j) : j \in 2..N}
    <3>1. \A j \in 2..N : j - 1 \in 1..(N - 1) /\ (j - 1) + 1 = j
      BY <1>1
    <3>2. \A j \in 2..N : t[j - 1] = Utxo(FeeAccount, j)
      BY <2>3, <3>1
    <3>3. \A x \in ToSet(t) : x \in {Utxo(FeeAccount, j) : j \in 2..N}
      BY <2>2, <2>3 DEF ToSet
    <3>4. \A j \in 2..N : Utxo(FeeAccount, j) \in ToSet(t)
      BY <2>2, <3>1, <3>2 DEF ToSet
    <3> QED BY <3>3, <3>4
  <2>6. Change(C) \notin ToSet(t)
    BY <2>5, OutpointsDiffer
  <2>7. t \in Seq(S) /\ Change(C) \in S
    BY <2>2
  <2> HIDE DEF S
  <2>8. ToSet(Append(t, Change(C))) = ToSet(t) \cup {Change(C)}
        /\ IsInjective(Append(t, Change(C)))
    BY <2>4, <2>6, <2>7, AppendElements
  <2> QED BY <1>3, <1>4, <1>6, <2>5, <2>8 DEF C
<1> QED BY <1>5, <1>6

\* SpentExactlyOnce with its abbreviation unfolded.
OnceEach ==
    /\ \A n, m \in 1..Len(txs) :
        \A i \in DOMAIN txs[n].sources, j \in DOMAIN txs[m].sources :
            txs[n].sources[i] = txs[m].sources[j] => n = m /\ i = j
    /\ UNION {ToSet(txs[n].sources) : n \in 1..Len(txs)}
            = (UNION {ToSet(OutpointsOf(a)) : a \in ToSet(Accounts)})
                \cup {Change(n) : n \in 1..(Len(txs) - 1)}
    /\ \A n \in 2..Len(txs) : Change(n - 1) \in ToSet(txs[n].sources)
    /\ \A n \in 1..Len(txs) : txs[n].final <=> n = Len(txs)
    /\ \A j \in 2..Len(utxos[FeeAccount]) :
        Utxo(FeeAccount, j) \in ToSet(txs[Len(txs)].sources)

\* A batched plan spends every UTXO and every link once.
LEMMA BatchedOnceEach ==
    ASSUME PlanInv, result = "Ok", alg = "batched"
    PROVE  OnceEach
<1> DEFINE C == ChainLen
           src(n) == txs[n].sources
<1>1. utxos \in Inputs /\ HasFeeAccount
  BY DEF PlanInv, InputInv, FundedInv
<1>2. /\ C \in Nat /\ Len(txs) = C + 1
      /\ \A n \in 1..C : txs[n] = ChainTx(n)
      /\ txs[C + 1] = FinalTx
  BY BatchedPlan
<1>3. \A n \in 1..(C + 1) : n \in 1..C \/ n = C + 1
  BY <1>2
<1>4. ASSUME NEW n \in 1..(C + 1)
      PROVE  IsInjective(src(n)) /\ ToSet(src(n)) = Part(n) \cup {Link(n)}
  <2>1. CASE n \in 1..C
    BY <1>1, <1>2, <2>1, ChainElements
  <2>2. CASE n = C + 1
    BY <1>1, <1>2, <2>2, FinalElements
  <2> QED BY <1>3, <2>1, <2>2
<1>5. /\ \A n, m \in 1..(C + 1) :
            /\ n # m => Part(n) \cap Part(m) = {} /\ Link(n) # Link(m)
            /\ Link(n) \notin Part(m)
      /\ UNION {Part(n) \cup {Link(n)} : n \in 1..(C + 1)}
            = Utxos \cup {Change(n) : n \in 1..C}
  BY <1>1, PartsSplit
<1>6. C + 1 - 1 = C /\ C + 1 \in 1..(C + 1)
  BY <1>2
<1>p. Part(C + 1) = {Utxo(FeeAccount, j) : j \in 2..Len(utxos[FeeAccount])}
  BY <1>2 DEF Part
<1>k. \A n \in 2..(C + 1) : n \in 1..(C + 1) /\ Link(n) = Change(n - 1)
  BY <1>2 DEF Link
<1>f. \A n \in 1..(C + 1) : txs[n].final <=> n = C + 1
  <2>0. \A n \in 1..C : n # C + 1
    BY <1>2
  <2>1. \A n \in 1..C : ~txs[n].final /\ n # C + 1
    <3>1. \A n : ChainTx(n).final = FALSE
      BY DEF ChainTx
    <3> QED BY <1>2, <2>0, <3>1
  <2>2. txs[C + 1].final
    BY <1>2 DEF FinalTx
  <2> QED BY <1>3, <2>1, <2>2
<1> HIDE DEF C
<1>7. ASSUME NEW n \in 1..(C + 1), NEW m \in 1..(C + 1),
             NEW i \in DOMAIN src(n), NEW j \in DOMAIN src(m), src(n)[i] = src(m)[j]
      PROVE  n = m /\ i = j
  <2>1. src(n)[i] \in Part(n) \cup {Link(n)} /\ src(m)[j] \in Part(m) \cup {Link(m)}
    BY <1>4 DEF ToSet
  <2>2. n = m
    BY <1>5, <1>7, <2>1
  <2> QED BY <1>4, <1>7, <2>2 DEF IsInjective
<1>8. UNION {ToSet(src(n)) : n \in 1..(C + 1)} = Utxos \cup {Change(n) : n \in 1..C}
  <2>1. UNION {ToSet(src(n)) : n \in 1..(C + 1)}
          = UNION {Part(n) \cup {Link(n)} : n \in 1..(C + 1)}
    BY <1>4
  <2> QED BY <1>5, <2>1
<1>9. \A n \in 2..(C + 1) : Change(n - 1) \in ToSet(src(n))
  BY <1>4, <1>k
<1>10. \A j \in 2..Len(utxos[FeeAccount]) : Utxo(FeeAccount, j) \in ToSet(src(C + 1))
  BY <1>4, <1>6, <1>p
<1>11. Utxos = UNION {ToSet(OutpointsOf(a)) : a \in ToSet(Accounts)}
  BY DEF Utxos, Acc
<1>12. /\ Len(txs) = C + 1 /\ Len(txs) - 1 = C
       /\ \A n, m \in 1..(C + 1) :
            \A i \in DOMAIN txs[n].sources, j \in DOMAIN txs[m].sources :
                txs[n].sources[i] = txs[m].sources[j] => n = m /\ i = j
  BY <1>2, <1>6, <1>7
<1>13. UNION {ToSet(txs[n].sources) : n \in 1..(C + 1)}
         = (UNION {ToSet(OutpointsOf(a)) : a \in ToSet(Accounts)})
              \cup {Change(n) : n \in 1..C}
  <2>1. UNION {ToSet(src(n)) : n \in 1..(C + 1)}
          = UNION {ToSet(txs[n].sources) : n \in 1..(C + 1)}
    OBVIOUS
  <2> HIDE DEF src
  <2> QED BY ONLY <1>8, <1>11, <2>1
<1> QED BY ONLY <1>9, <1>10, <1>12, <1>13, <1>f DEF OnceEach

\* The single transaction spends every UTXO once.
LEMMA SingleOnceEach ==
    ASSUME PlanInv, result = "Ok", alg = "single"
    PROVE  OnceEach
<1> DEFINE s == Sources(funded)
<1>1. utxos \in Inputs /\ HasFeeAccount /\ txs = <<SingleTx>>
  BY DEF PlanInv, InputInv, FundedInv, SingleInv
<1>2. IsInjective(s) /\ ToSet(s) = UtxosOf(ToSet(funded))
  BY <1>1, Partition, SourcesElements
<1>3. UtxosOf(ToSet(funded)) = UtxosOf(Acc)
  <2>1. \A a \in Acc : a \notin ToSet(funded) => utxos[a] = <<>>
    BY Partition
  <2>2. \A a \in Acc : a \notin ToSet(funded) => 1..Len(utxos[a]) = {}
    BY <2>1
  <2>3. ToSet(funded) \subseteq Acc
    BY Partition
  <2>4. \A o : o \in UtxosOf(Acc) => o \in UtxosOf(ToSet(funded))
    BY <2>2, UtxosOfIs
  <2>5. \A o : o \in UtxosOf(ToSet(funded)) => o \in UtxosOf(Acc)
    BY <2>3, UtxosOfIs
  <2> QED BY <2>4, <2>5
<1>4. Len(txs) = 1 /\ txs[1] = SingleTx /\ SingleTx.sources = s /\ SingleTx.final
  BY <1>1 DEF SingleTx
<1>5. \A j \in 2..Len(utxos[FeeAccount]) : Utxo(FeeAccount, j) \in ToSet(s)
  <2>1. FeeAccount \in Acc /\ Len(utxos[FeeAccount]) \in Nat
    BY <1>1, FeeAccountFacts
  <2>2. \A j \in 2..Len(utxos[FeeAccount]) : j \in 1..Len(utxos[FeeAccount])
    BY <2>1
  <2> QED BY <1>2, <1>3, <2>1, <2>2, UtxosOfIs
<1> HIDE DEF s
<1>6. \A n \in 1..Len(txs) : n = 1 /\ txs[n].sources = s /\ txs[n].final
  BY <1>4
<1>7. 1..(Len(txs) - 1) = {} /\ 2..Len(txs) = {} /\ 1 \in 1..Len(txs)
  BY <1>4
<1>8. UNION {ToSet(txs[n].sources) : n \in 1..Len(txs)} = ToSet(s)
  BY <1>6, <1>7
<1>9. UtxosOf(Acc) = UNION {ToSet(OutpointsOf(a)) : a \in ToSet(Accounts)}
  BY DEF UtxosOf, Acc
<1>10. {Change(n) : n \in 1..(Len(txs) - 1)} = {}
  BY <1>7
<1>11. \A n, m \in 1..Len(txs) :
         \A i \in DOMAIN txs[n].sources, j \in DOMAIN txs[m].sources :
            txs[n].sources[i] = txs[m].sources[j] => n = m /\ i = j
  BY <1>2, <1>6 DEF IsInjective
<1> QED BY <1>2, <1>3, <1>4, <1>5, <1>6, <1>7, <1>8, <1>9, <1>10, <1>11 DEF OnceEach

\* An Ok plan can be carried out in order and leaves nothing behind: every UTXO
\* of every account is spent by exactly one transaction, and every link of the
\* chain by the transaction right after the one that made it.
THEOREM SpentExactlyOnceHolds == Spec => []SpentExactlyOnce
<1>1. Init => PlanInv
  BY PlanInit
<1>2. PlanInv /\ [Next]_vars => PlanInv'
  BY PlanStep
<1>3. PlanInv => SpentExactlyOnce
  <2>1. ASSUME PlanInv, result = "Ok" PROVE OnceEach
    <3>1. alg \in {"single", "batched"}
      BY <2>1 DEF PlanInv, InputInv
    <3> QED BY <2>1, <3>1, SingleOnceEach, BatchedOnceEach
  <2> QED BY <2>1 DEF OnceEach, SpentExactlyOnce
<1> QED BY <1>1, <1>2, <1>3, PTL DEF Spec
============================================================================
