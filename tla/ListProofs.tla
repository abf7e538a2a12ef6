----------------------------- MODULE ListProofs -----------------------------
(***************************************************************************)
(* Lemmas about ListOps.  Induction is by the least counterexample: a set  *)
(* of naturals that has 0 and with every number the next has them all.     *)
(***************************************************************************)
EXTENDS ListOps, SequencesExt, FiniteSetTheorems, WellFoundedInduction, TLAPS

----------------------------------------------------------------------------
(* Induction and recursion                                                 *)

\* A non-empty set of naturals has a least member.
LEMMA LeastNat ==
    ASSUME NEW T \in SUBSET Nat, T # {}
    PROVE  \E x \in T : \A y \in T : x <= y
<1> DEFINE R == OpToRel(<, Nat)
<1>1. IsWellFoundedOn(R, Nat)
  BY NatLessThanWellFounded
<1>2. \A i, j \in Nat : i < j => <<i, j>> \in R
  BY DEF OpToRel
<1> HIDE DEF R
<1>3. PICK x \in T : \A y \in T : ~ (<<y, x>> \in R)
  BY <1>1, WFMin
<1>4. ASSUME NEW y \in T PROVE x <= y
  <2>1. x \in Nat /\ y \in Nat
    OBVIOUS
  <2>2. y < x => <<y, x>> \in R
    BY <1>2, <2>1
  <2>3. <<y, x>> \notin R
    BY <1>3
  <2> QED BY <2>1, <2>2, <2>3
<1> QED BY <1>4

\* Induction over the naturals.
LEMMA NatSetInduction ==
    ASSUME NEW S, 0 \in S, \A n \in Nat : n \in S => n + 1 \in S
    PROVE  Nat \subseteq S
<1> SUFFICES ASSUME Nat \ S # {} PROVE FALSE
  OBVIOUS
<1>1. PICK x \in Nat \ S : \A y \in Nat \ S : x <= y
  BY LeastNat
<1>2. x - 1 \in Nat \ S
  OBVIOUS
<1> QED BY <1>1, <1>2

\* Induction up to a bound.
LEMMA UpToInduction ==
    ASSUME NEW N \in Nat, NEW S, 0 \in S,
           \A n \in 1..N : n - 1 \in S => n \in S
    PROVE  0..N \subseteq S
<1> DEFINE T == {n \in Nat : n <= N => n \in S}
<1>1. \A n \in Nat : n \in T => n + 1 \in T
  <2> SUFFICES ASSUME NEW n \in Nat, n <= N => n \in S, n + 1 <= N
               PROVE  n + 1 \in S
    OBVIOUS
  <2>1. n + 1 \in 1..N /\ (n + 1) - 1 = n /\ n \in S
    OBVIOUS
  <2> QED BY <2>1
<1>2. 0 \in T
  OBVIOUS
<1> HIDE DEF T
<1>3. Nat \subseteq T
  BY <1>1, <1>2, NatSetInduction
<1> QED BY <1>3 DEF T

Recurses(f, N, X, x0, step) ==
    /\ f \in [0..N -> X]
    /\ f[0] = x0
    /\ \A n \in 1..N : f[n] = step[<<n, f[n - 1]>>]

\* A function may be defined by recursion up to a bound.
LEMMA RecursionExists ==
    ASSUME NEW N \in Nat, NEW X, NEW x0 \in X, NEW step \in [(1..N) \X X -> X]
    PROVE  \E f : Recurses(f, N, X, x0, step)
<1> DEFINE Good(f, m) == f[0] = x0 /\ \A n \in 1..m : f[n] = step[<<n, f[n - 1]>>]
           S == {m \in 0..N : \E f \in [0..m -> X] : Good(f, m)}
<1>1. 0 \in S
  <2> DEFINE f == [k \in 0..0 |-> x0]
  <2>1. f \in [0..0 -> X] /\ Good(f, 0)
    OBVIOUS
  <2> HIDE DEF f
  <2> QED BY <2>1
<1>2. ASSUME NEW n \in 1..N, n - 1 \in S PROVE n \in S
  <2>1. PICK f \in [0..(n - 1) -> X] : Good(f, n - 1)
    BY <1>2
  <2> DEFINE g == [k \in 0..n |-> IF k = n THEN step[<<n, f[n - 1]>>] ELSE f[k]]
  <2>2. f[n - 1] \in X
    OBVIOUS
  <2>3. step[<<n, f[n - 1]>>] \in X
    BY <2>2
  <2>4. g \in [0..n -> X]
    BY <2>3
  <2>5. /\ g[0] = f[0] /\ g[n] = step[<<n, f[n - 1]>>] /\ g[n - 1] = f[n - 1]
        /\ \A k \in 1..(n - 1) : g[k] = f[k] /\ g[k - 1] = f[k - 1]
    OBVIOUS
  <2> HIDE DEF g
  <2>6. ASSUME NEW k \in 1..n PROVE g[k] = step[<<k, g[k - 1]>>]
    <3>1. CASE k = n
      BY <2>5, <3>1
    <3>2. CASE k \in 1..(n - 1)
      BY <2>1, <2>5, <3>2
    <3> QED BY <3>1, <3>2
  <2>7. Good(g, n)
    BY <2>1, <2>5, <2>6
  <2> QED BY <2>4, <2>7
<1> HIDE DEF S
<1>3. 0..N \subseteq S
  BY <1>1, <1>2, UpToInduction
<1>4. N \in S
  BY <1>3
<1> QED BY <1>4 DEF S, Recurses

----------------------------------------------------------------------------
(* Sublists                                                                *)

\* The positions in K, in order: where the elements of the sublist come from.
Enumerates(pos, len, K) ==
    /\ pos \in [1..len -> K]
    /\ \A i, j \in 1..len : i < j => pos[i] < pos[j]
    /\ \A k \in K : \E i \in 1..len : pos[i] = k

\* The positions up to n.
Upto(K, n) == {k \in K : k <= n}

\* How the positions up to n grow with n.
LEMMA UptoSteps ==
    ASSUME NEW N \in Nat, NEW K \in SUBSET (1..N)
    PROVE  /\ Upto(K, 0) = {} /\ Upto(K, N) = K
           /\ \A n \in 1..N : n \notin K => Upto(K, n) = Upto(K, n - 1)
           /\ \A n \in 1..N : n \in K => Upto(K, n) = Upto(K, n - 1) \cup {n}
           /\ \A n \in 0..N : \A k \in Upto(K, n) : k \in Nat /\ k <= n
<1>1. \A k \in K : k \in 1..N
  OBVIOUS
<1>2. Upto(K, 0) = {}
  <2>1. \A k \in K : ~(k <= 0)
    BY <1>1
  <2> QED BY <2>1 DEF Upto
<1>3. Upto(K, N) = K
  <2>1. \A k \in K : k <= N
    BY <1>1
  <2> QED BY <2>1 DEF Upto
<1>4. ASSUME NEW n \in 1..N, n \notin K PROVE Upto(K, n) = Upto(K, n - 1)
  <2>1. \A k \in K : k <= n <=> k <= n - 1
    BY <1>1, <1>4
  <2> QED BY <2>1 DEF Upto
<1>5. ASSUME NEW n \in 1..N, n \in K PROVE Upto(K, n) = Upto(K, n - 1) \cup {n}
  <2>1. \A k \in K : k <= n <=> k <= n - 1 \/ k = n
    BY <1>1, <1>5
  <2> QED BY <1>5, <2>1 DEF Upto
<1>6. \A n \in 0..N : \A k \in Upto(K, n) : k \in Nat /\ k <= n
  BY <1>1 DEF Upto
<1> QED BY <1>2, <1>3, <1>4, <1>5, <1>6

\* One more position, above all the others, is enumerated last.
LEMMA EnumeratesMore ==
    ASSUME NEW len \in Nat, NEW K, NEW pos, Enumerates(pos, len, K),
           NEW n \in Nat, \A k \in K : k \in Nat /\ k < n
    PROVE  LET new == [i \in 1..(len + 1) |-> IF i = len + 1 THEN n ELSE pos[i]]
           IN  /\ Enumerates(new, len + 1, K \cup {n})
               /\ new[len + 1] = n /\ \A i \in 1..len : new[i] = pos[i]
<1> DEFINE new == [i \in 1..(len + 1) |-> IF i = len + 1 THEN n ELSE pos[i]]
<1>1. /\ \A i \in 1..len : pos[i] \in K
      /\ \A i, j \in 1..len : i < j => pos[i] < pos[j]
      /\ \A k \in K : \E i \in 1..len : pos[i] = k
  BY DEF Enumerates
<1>2. new[len + 1] = n /\ \A i \in 1..len : new[i] = pos[i]
  OBVIOUS
<1>3. \A i \in 1..(len + 1) : i \in 1..len \/ i = len + 1
  OBVIOUS
<1>4. \A i \in 1..len : i \in 1..(len + 1) /\ i < len + 1
  OBVIOUS
<1>5. new \in [1..(len + 1) -> K \cup {n}]
  BY <1>1
<1> HIDE DEF new
<1>6. ASSUME NEW i \in 1..(len + 1), NEW j \in 1..(len + 1), i < j
      PROVE  new[i] < new[j]
  <2>1. i \in 1..len
    BY <1>6
  <2>2. CASE j = len + 1
    <3>1. new[j] = n /\ new[i] \in K
      BY <1>1, <1>2, <2>1, <2>2
    <3> QED BY <3>1
  <2>3. CASE j \in 1..len
    BY <1>1, <1>2, <1>6, <2>1, <2>3
  <2> QED BY <1>3, <2>2, <2>3
<1>7. ASSUME NEW k \in K \cup {n} PROVE \E i \in 1..(len + 1) : new[i] = k
  <2>1. CASE k = n
    BY <1>2, <2>1
  <2>2. CASE k \in K
    <3>1. PICK i \in 1..len : pos[i] = k
      BY <1>1, <2>2
    <3> QED BY <1>2, <1>4, <3>1
  <2> QED BY <2>1, <2>2
<1>8. Enumerates(new, len + 1, K \cup {n})
  BY <1>5, <1>6, <1>7 DEF Enumerates
<1> QED BY <1>2, <1>8 DEF new

\* What the recursive function behind Sublist computes, step by step.
SublistRun(taken, s, K, X) ==
    /\ taken \in [0..Len(s) -> X]
    /\ taken[0] = <<>>
    /\ \A n \in 1..Len(s) :
        taken[n] = IF n \in K THEN Append(taken[n - 1], s[n]) ELSE taken[n - 1]
    /\ Sublist(s, K) = taken[Len(s)]

\* The recursive function exists.
LEMMA SublistSteps ==
    ASSUME NEW S, NEW s \in Seq(S), NEW K
    PROVE  \E taken : SublistRun(taken, s, K, Seq(S))
<1> DEFINE N == Len(s)
           X == Seq(S)
           Grow(n, x) == IF n \in K THEN Append(x, s[n]) ELSE x
           Def(f) == [n \in 0..N |-> IF n = 0 THEN <<>>
                        ELSE IF n \in K THEN Append(f[n - 1], s[n]) ELSE f[n - 1]]
           step == [p \in (1..N) \X X |-> Grow(p[1], p[2])]
           T == CHOOSE g : g = Def(g)
<1>1. N \in Nat /\ <<>> \in X
  OBVIOUS
<1>2. \A n \in 1..N, x \in X : Grow(n, x) \in X
  OBVIOUS
<1>3. Sublist(s, K) = T[N]
  BY DEF Sublist
<1>4. \A f : Def(f) = [n \in 0..N |-> IF n = 0 THEN <<>> ELSE Grow(n, f[n - 1])]
  OBVIOUS
<1> HIDE DEF N, X, Grow, Def
<1>5. step \in [(1..N) \X X -> X] /\ \A n \in 1..N, x \in X : step[<<n, x>>] = Grow(n, x)
  BY <1>2
<1> HIDE DEF step
<1>r. PICK f : Recurses(f, N, X, <<>>, step)
  BY <1>1, <1>5, RecursionExists
<1>6. f \in [0..N -> X] /\ f[0] = <<>>
        /\ \A n \in 1..N : f[n] = step[<<n, f[n - 1]>>]
  BY <1>r DEF Recurses
<1>7. \A n \in 1..N : f[n - 1] \in X
  BY <1>1, <1>6
<1>8. \A n \in 1..N : f[n] = Grow(n, f[n - 1])
  BY <1>5, <1>6, <1>7
<1>9. ASSUME NEW n \in 0..N
      PROVE  f[n] = IF n = 0 THEN <<>> ELSE Grow(n, f[n - 1])
  <2>1. CASE n = 0
    BY <1>6, <2>1
  <2>2. CASE n # 0
    <3>1. n \in 1..N
      BY <1>1, <2>2
    <3> QED BY <1>8, <2>2, <3>1
  <2> QED BY <2>1, <2>2
<1>10. f = Def(f)
  BY <1>4, <1>6, <1>9
<1>11. T = Def(T)
  BY <1>10
<1> HIDE DEF T
<1>12. T = [n \in 0..N |-> IF n = 0 THEN <<>> ELSE Grow(n, T[n - 1])]
  BY <1>4, <1>11
<1>13. \A n \in 0..N : T[n] = IF n = 0 THEN <<>> ELSE Grow(n, T[n - 1])
  BY <1>12
<1>14. \A n \in 0..N : T[n] = f[n]
  <2> DEFINE A == {n \in 0..N : T[n] = f[n]}
  <2>1. 0 \in A
    BY <1>1, <1>6, <1>13
  <2>2. ASSUME NEW n \in 1..N, n - 1 \in A PROVE n \in A
    <3>1. n \in 0..N /\ n # 0
      BY <1>1
    <3>2. T[n] = Grow(n, T[n - 1])
      BY <1>13, <3>1
    <3> QED BY <1>8, <2>2, <3>1, <3>2
  <2> HIDE DEF A
  <2>3. 0..N \subseteq A
    BY <1>1, <2>1, <2>2, UpToInduction
  <2> QED BY <2>3 DEF A
<1>15. Sublist(s, K) = f[N]
  BY <1>1, <1>3, <1>14
<1>16. \A n \in 1..N : f[n] = IF n \in K THEN Append(f[n - 1], s[n]) ELSE f[n - 1]
  BY <1>8 DEF Grow
<1>17. SublistRun(f, s, K, X)
  BY <1>6, <1>15, <1>16 DEF SublistRun, N
<1> QED BY <1>17 DEF X

\* A sublist is a list, and its elements are those at the given positions.
LEMMA SublistIs ==
    ASSUME NEW S, NEW s \in Seq(S), NEW K \in SUBSET (1..Len(s))
    PROVE  /\ Sublist(s, K) \in Seq(S)
           /\ \E pos : /\ Enumerates(pos, Len(Sublist(s, K)), K)
                       /\ \A i \in 1..Len(Sublist(s, K)) : Sublist(s, K)[i] = s[pos[i]]
<1> DEFINE N == Len(s)
<1>1. PICK taken : SublistRun(taken, s, K, Seq(S))
  BY SublistSteps
<1>n. /\ N \in Nat /\ K \in SUBSET (1..N) /\ \A n \in 1..N : s[n] \in S
      /\ \A n \in 0..N : taken[n] \in Seq(S) /\ Len(taken[n]) \in Nat
      /\ taken[0] = <<>>
  BY <1>1, SMTT(30) DEF SublistRun
<1>u. /\ Upto(K, 0) = {} /\ Upto(K, N) = K
      /\ \A n \in 1..N : n \notin K => Upto(K, n) = Upto(K, n - 1)
      /\ \A n \in 1..N : n \in K => Upto(K, n) = Upto(K, n - 1) \cup {n}
      /\ \A n \in 0..N : \A k \in Upto(K, n) : k \in Nat /\ k <= n
  BY <1>n, UptoSteps
<1>t. /\ \A n \in 1..N : n \in K => taken[n] = Append(taken[n - 1], s[n])
      /\ \A n \in 1..N : n \notin K => taken[n] = taken[n - 1]
      /\ Sublist(s, K) = taken[N]
  BY <1>1 DEF SublistRun
<1> DEFINE Good(n, pos) == /\ Enumerates(pos, Len(taken[n]), Upto(K, n))
                           /\ \A i \in 1..Len(taken[n]) : taken[n][i] = s[pos[i]]
           A == {n \in 0..N : \E pos : Good(n, pos)}
<1> HIDE DEF N
<1>2. 0 \in A
  <2>1. Len(taken[0]) = 0
    BY <1>n
  <2>2. Upto(K, 0) = {}
    BY <1>u
  <2>3. Good(0, <<>>)
    BY <2>1, <2>2 DEF Enumerates
  <2>4. 0 \in 0..N
    BY <1>n
  <2> HIDE DEF Good
  <2> QED BY <2>3, <2>4
<1>3. ASSUME NEW n \in 1..N, n - 1 \in A PROVE n \in A
  <2>1. PICK pos : Good(n - 1, pos)
    BY <1>3
  <2> DEFINE old == taken[n - 1]
             len == Len(old)
  <2>2. n - 1 \in 0..N /\ n \in 0..N /\ n \in Nat
    BY <1>n
  <2>3. old \in Seq(S) /\ len \in Nat /\ s[n] \in S
    BY <1>n, <2>2
  <2>4. CASE n \notin K
    <3>1. taken[n] = taken[n - 1]
      BY <1>t, <2>4
    <3>2. Upto(K, n) = Upto(K, n - 1)
      BY <1>u, <2>4
    <3>3. Good(n, pos)
      BY <2>1, <3>1, <3>2
    <3> HIDE DEF Good
    <3> QED BY <2>2, <3>3
  <2>5. CASE n \in K
    <3>1. taken[n] = Append(old, s[n])
      BY <1>t, <2>5
    <3>2. /\ Len(taken[n]) = len + 1 /\ taken[n][len + 1] = s[n]
          /\ \A i \in 1..len : taken[n][i] = old[i]
      BY <2>3, <3>1
    <3>3. Upto(K, n) = Upto(K, n - 1) \cup {n}
      BY <1>u, <2>5
    <3>4. \A k \in Upto(K, n - 1) : k \in Nat /\ k < n
      <4>1. \A k \in Upto(K, n - 1) : k \in Nat /\ k <= n - 1
        BY <1>u, <2>2
      <4> QED BY <2>2, <4>1
    <3>5. Enumerates(pos, len, Upto(K, n - 1))
      BY <2>1
    <3> DEFINE new == [i \in 1..(len + 1) |-> IF i = len + 1 THEN n ELSE pos[i]]
    <3>6. /\ Enumerates(new, len + 1, Upto(K, n - 1) \cup {n})
          /\ new[len + 1] = n /\ \A i \in 1..len : new[i] = pos[i]
      <4> HIDE DEF len
      <4> QED BY <2>2, <2>3, <3>4, <3>5, EnumeratesMore
    <3>7. \A i \in 1..len : old[i] = s[pos[i]]
      BY <2>1
    <3> HIDE DEF new, len, old
    <3>8. \A i \in 1..(len + 1) : taken[n][i] = s[new[i]]
      <4> TAKE i \in 1..(len + 1)
      <4>1. CASE i = len + 1
        BY <3>2, <3>6, <4>1
      <4>2. CASE i \in 1..len
        BY <3>2, <3>6, <3>7, <4>2
      <4> QED BY <2>3, <4>1, <4>2
    <3>9. Good(n, new)
      BY <3>2, <3>3, <3>6, <3>8
    <3> HIDE DEF Good
    <3> QED BY <2>2, <3>9
  <2> QED BY <2>4, <2>5
<1> HIDE DEF A
<1>4. 0..N \subseteq A
  BY <1>n, <1>2, <1>3, UpToInduction
<1>5. PICK pos : Good(N, pos)
  <2> HIDE DEF Good
  <2> QED BY <1>n, <1>4 DEF A
<1>6. Upto(K, N) = K
  BY <1>u
<1>7. Sublist(s, K) \in Seq(S)
  BY <1>n, <1>t
<1>8. /\ Enumerates(pos, Len(Sublist(s, K)), K)
      /\ \A i \in 1..Len(Sublist(s, K)) : Sublist(s, K)[i] = s[pos[i]]
  BY <1>5, <1>6, <1>t
<1> QED BY <1>7, <1>8

----------------------------------------------------------------------------
(* Sorting                                                                 *)

\* Every non-empty part of S has a first element.
WellOrders(before, S) ==
    \A T \in SUBSET S : T # {} => \E m \in T : \A t \in T \ {m} : <<m, t>> \in before

SortOf(f, S, before) == f \in [1..Cardinality(S) -> S] /\ Sorts(f, S, before)

\* Put a first element in front of a sorted list of the others.
LEMMA SortMore ==
    ASSUME NEW n \in Nat, NEW T, NEW before, NEW m \in T,
           \A t \in T \ {m} : <<m, t>> \in before,
           NEW f \in [1..n -> T \ {m}], Sorts(f, T \ {m}, before)
    PROVE  \E g : g \in [1..(n + 1) -> T] /\ Sorts(g, T, before)
<1> DEFINE g == [i \in 1..(n + 1) |-> IF i = 1 THEN m ELSE f[i - 1]]
<1>1. \A i \in 1..n : f[i] \in T \ {m}
  OBVIOUS
<1>2. \A i \in 1..(n + 1) : i = 1 \/ i - 1 \in 1..n
  OBVIOUS
<1>3. g[1] = m /\ \A i \in 1..n : g[i + 1] = f[i] /\ i + 1 \in 1..(n + 1)
  OBVIOUS
<1>4. \A i \in 1..(n + 1) : i # 1 => g[i] = f[i - 1]
  OBVIOUS
<1>5. g \in [1..(n + 1) -> T]
  BY <1>1, <1>2
<1>d. DOMAIN g = 1..(n + 1) /\ DOMAIN f = 1..n /\ 1 \in 1..(n + 1)
  OBVIOUS
<1> HIDE DEF g
<1>6. ASSUME NEW x \in T PROVE \E i \in 1..(n + 1) : g[i] = x
  <2>1. CASE x = m
    BY <1>3, <1>d, <2>1
  <2>2. CASE x # m
    <3>1. PICK i \in 1..n : f[i] = x
      BY <1>d, <2>2 DEF Sorts
    <3> QED BY <1>3, <3>1
  <2> QED BY <2>1, <2>2
<1>7. ASSUME NEW i \in 1..(n + 1), NEW j \in 1..(n + 1), i < j
      PROVE  <<g[i], g[j]>> \in before
  <2>1. j # 1 /\ j - 1 \in 1..n
    BY <1>7
  <2>2. g[j] = f[j - 1] /\ f[j - 1] \in T \ {m}
    BY <1>1, <1>4, <2>1
  <2>3. CASE i = 1
    BY <1>3, <2>2, <2>3
  <2>4. CASE i # 1
    <3>1. i - 1 \in 1..n /\ i - 1 < j - 1 /\ g[i] = f[i - 1]
      BY <1>2, <1>4, <1>7, <2>4
    <3> QED BY <1>d, <2>1, <2>2, <3>1 DEF Sorts
  <2> QED BY <2>3, <2>4
<1>8. Sorts(g, T, before)
  BY <1>6, <1>7, <1>d DEF Sorts
<1> QED BY <1>5, <1>8

\* A finite set can be sorted.
LEMMA SortExists ==
    ASSUME NEW S, IsFiniteSet(S), NEW before, WellOrders(before, S)
    PROVE  \E f : SortOf(f, S, before)
<1> DEFINE A == {n \in Nat : \A T \in SUBSET S :
                    Cardinality(T) = n => \E f : SortOf(f, T, before)}
<1>1. 0 \in A
  <2> SUFFICES ASSUME NEW T \in SUBSET S, Cardinality(T) = 0
               PROVE  \E f : SortOf(f, T, before)
    OBVIOUS
  <2>1. T = {}
    BY FS_Subset, FS_EmptySet
  <2>2. SortOf(<<>>, T, before)
    BY <2>1 DEF SortOf, Sorts
  <2> QED BY <2>2
<1>2. ASSUME NEW n \in Nat, n \in A PROVE n + 1 \in A
  <2> SUFFICES ASSUME NEW T \in SUBSET S, Cardinality(T) = n + 1
               PROVE  \E f : SortOf(f, T, before)
    OBVIOUS
  <2>1. IsFiniteSet(T) /\ T # {}
    BY FS_Subset, FS_EmptySet
  <2>2. PICK m \in T : \A t \in T \ {m} : <<m, t>> \in before
    BY <2>1 DEF WellOrders
  <2>3. Cardinality(T \ {m}) = n /\ T \ {m} \in SUBSET S
    <3>1. Cardinality(T \ {m}) = Cardinality(T) - 1
      BY <2>1, FS_RemoveElement
    <3> QED BY <3>1
  <2>4. PICK f : SortOf(f, T \ {m}, before)
    BY <1>2, <2>3
  <2>5. f \in [1..n -> T \ {m}] /\ Sorts(f, T \ {m}, before)
    BY <2>3, <2>4 DEF SortOf
  <2>6. PICK g : g \in [1..(n + 1) -> T] /\ Sorts(g, T, before)
    BY <2>2, <2>5, SortMore
  <2>7. SortOf(g, T, before)
    BY <2>6 DEF SortOf
  <2> QED BY <2>7
<1> HIDE DEF A
<1>3. Nat \subseteq A
  BY <1>1, <1>2, NatSetInduction
<1>4. Cardinality(S) \in A
  BY <1>3, FS_CardinalityType
<1> QED BY <1>4 DEF A

\* SortedBy does sort.
LEMMA SortedByIs ==
    ASSUME NEW S, IsFiniteSet(S), NEW before, WellOrders(before, S)
    PROVE  SortOf(SortedBy(S, before), S, before)
<1>1. PICK f : SortOf(f, S, before)
  BY SortExists
<1> QED BY <1>1 DEF SortedBy, SortOf

----------------------------------------------------------------------------
(* Sums                                                                    *)

\* What the recursive function behind SumSeq computes: the sums of prefixes.
SumRun(sum, s) ==
    /\ sum \in [0..Len(s) -> Nat]
    /\ sum[0] = 0
    /\ \A n \in 1..Len(s) : sum[n] = sum[n - 1] + s[n]
    /\ SumSeq(s) = sum[Len(s)]

\* The recursive function exists.
LEMMA SumSteps ==
    ASSUME NEW s \in Seq(Nat)
    PROVE  \E sum : SumRun(sum, s)
<1> DEFINE N == Len(s)
           Def(f) == [n \in 0..N |-> IF n = 0 THEN 0 ELSE f[n - 1] + s[n]]
           Grow(n, x) == x + s[n]
           step == [p \in (1..N) \X Nat |-> Grow(p[1], p[2])]
           T == CHOOSE g : g = Def(g)
<1>1. N \in Nat /\ \A n \in 1..N : s[n] \in Nat
  OBVIOUS
<1>2. SumSeq(s) = T[N]
  BY DEF SumSeq
<1> HIDE DEF N
<1>g. \A n \in 1..N, x \in Nat : Grow(n, x) \in Nat
  BY <1>1
<1> HIDE DEF Grow
<1>3. step \in [(1..N) \X Nat -> Nat]
        /\ \A n \in 1..N, x \in Nat : step[<<n, x>>] = Grow(n, x)
  BY <1>g
<1> HIDE DEF step
<1>r. PICK f : Recurses(f, N, Nat, 0, step)
  BY <1>1, <1>3, RecursionExists
<1>4. f \in [0..N -> Nat] /\ f[0] = 0 /\ \A n \in 1..N : f[n] = step[<<n, f[n - 1]>>]
  BY <1>r DEF Recurses
<1>5. \A n \in 1..N : f[n - 1] \in Nat
  <2>1. \A n \in 1..N : n - 1 \in 0..N
    BY <1>1
  <2>2. \A n \in 0..N : f[n] \in Nat
    BY <1>4
  <2> QED BY <2>1, <2>2
<1>6. \A n \in 1..N : f[n] = f[n - 1] + s[n]
  BY <1>3, <1>4, <1>5 DEF Grow
<1>7. \A n \in 0..N : f[n] = IF n = 0 THEN 0 ELSE f[n - 1] + s[n]
  <2> TAKE n \in 0..N
  <2>1. CASE n = 0
    BY <1>4, <2>1
  <2>2. CASE n # 0
    <3>1. n \in 1..N
      BY <1>1, <2>2
    <3> QED BY <1>6, <2>2, <3>1
  <2> QED BY <2>1, <2>2
<1>8. f = Def(f)
  BY <1>4, <1>7
<1> HIDE DEF Def
<1>9. T = Def(T)
  BY <1>8
<1> HIDE DEF T
<1>10. \A n \in 0..N : T[n] = IF n = 0 THEN 0 ELSE T[n - 1] + s[n]
  BY <1>9 DEF Def
<1>11. \A n \in 0..N : T[n] = f[n]
  <2> DEFINE A == {n \in 0..N : T[n] = f[n]}
  <2>1. 0 \in A
    BY <1>1, <1>4, <1>10
  <2>2. ASSUME NEW n \in 1..N, n - 1 \in A PROVE n \in A
    <3>1. n \in 0..N /\ n # 0
      BY <1>1
    <3>2. T[n] = T[n - 1] + s[n]
      BY <1>10, <3>1
    <3> QED BY <1>6, <2>2, <3>1, <3>2
  <2> HIDE DEF A
  <2>3. 0..N \subseteq A
    BY <1>1, <2>1, <2>2, UpToInduction
  <2> QED BY <2>3 DEF A
<1>12. SumSeq(s) = f[N]
  BY <1>1, <1>2, <1>11
<1>13. SumRun(f, s)
  BY <1>4, <1>6, <1>12 DEF SumRun, N
<1> QED BY <1>13

\* A sum of naturals is a natural.
LEMMA SumType ==
    ASSUME NEW s \in Seq(Nat)
    PROVE  SumSeq(s) \in Nat
<1>1. PICK sum : SumRun(sum, s)
  BY SumSteps
<1>2. Len(s) \in Nat
  OBVIOUS
<1>3. Len(s) \in 0..Len(s)
  BY <1>2
<1> QED BY <1>1, <1>3 DEF SumRun

\* Lists that agree on a prefix have the same sum of it.
LEMMA SumPrefix ==
    ASSUME NEW s \in Seq(Nat), NEW t \in Seq(Nat), NEW f, SumRun(f, s),
           NEW g, SumRun(g, t), NEW n \in Nat, n <= Len(s), n <= Len(t),
           \A k \in 1..n : s[k] = t[k]
    PROVE  f[n] = g[n]
<1> DEFINE A == {k \in 0..n : f[k] = g[k]}
<1>1. 0 \in A
  BY DEF SumRun
<1>2. ASSUME NEW k \in 1..n, k - 1 \in A PROVE k \in A
  <2>1. k \in 1..Len(s) /\ k \in 1..Len(t)
    OBVIOUS
  <2>2. f[k] = f[k - 1] + s[k] /\ g[k] = g[k - 1] + t[k]
    BY <2>1 DEF SumRun
  <2> QED BY <1>2, <2>2
<1> HIDE DEF A
<1>3. 0..n \subseteq A
  BY <1>1, <1>2, UpToInduction
<1>4. n \in A
  BY <1>3
<1> QED BY <1>4 DEF A

\* The empty sum.
LEMMA SumEmpty == SumSeq(<<>>) = 0
<1>1. PICK sum : SumRun(sum, <<>>)
  <2>1. <<>> \in Seq(Nat)
    OBVIOUS
  <2> QED BY <2>1, SumSteps
<1>2. Len(<<>>) = 0
  OBVIOUS
<1> QED BY <1>1, <1>2 DEF SumRun

\* A sum grows by what is appended.
LEMMA SumAppend ==
    ASSUME NEW s \in Seq(Nat), NEW x \in Nat
    PROVE  SumSeq(Append(s, x)) = SumSeq(s) + x
<1> DEFINE t == Append(s, x)
           n == Len(s)
<1>1. /\ t \in Seq(Nat) /\ n \in Nat /\ Len(t) = n + 1 /\ t[n + 1] = x
      /\ \A k \in 1..n : s[k] = t[k]
  OBVIOUS
<1> HIDE DEF t
<1>2. PICK f : SumRun(f, s)
  BY SumSteps
<1>3. PICK g : SumRun(g, t)
  BY <1>1, SumSteps
<1>4. f[n] = g[n]
  <2>1. n <= Len(s) /\ n <= Len(t)
    BY <1>1
  <2> HIDE DEF n
  <2> QED BY <1>1, <1>2, <1>3, <2>1, SumPrefix
<1>5. g[n + 1] = g[n] + t[n + 1]
  <2>1. n + 1 \in 1..Len(t) /\ (n + 1) - 1 = n
    BY <1>1
  <2> QED BY <1>3, <2>1 DEF SumRun
<1>6. SumSeq(s) = f[n] /\ SumSeq(t) = g[n + 1]
  BY <1>1, <1>2, <1>3 DEF SumRun
<1> QED BY <1>1, <1>4, <1>5, <1>6 DEF t

\* Adding two lists element by element adds their sums.
LEMMA SumPlus ==
    ASSUME NEW n \in Nat, NEW a \in [1..n -> Nat], NEW b \in [1..n -> Nat],
           NEW c \in [1..n -> Nat], \A k \in 1..n : c[k] = a[k] + b[k]
    PROVE  SumSeq(c) = SumSeq(a) + SumSeq(b)
<1>1. /\ a \in Seq(Nat) /\ b \in Seq(Nat) /\ c \in Seq(Nat)
      /\ Len(a) = n /\ Len(b) = n /\ Len(c) = n
  OBVIOUS
<1>2. PICK f : SumRun(f, a)
  BY <1>1, SumSteps
<1>3. PICK g : SumRun(g, b)
  BY <1>1, SumSteps
<1>4. PICK h : SumRun(h, c)
  BY <1>1, SumSteps
<1> DEFINE A == {k \in 0..n : h[k] = f[k] + g[k]}
<1>5. 0 \in A
  BY <1>2, <1>3, <1>4 DEF SumRun
<1>6. ASSUME NEW k \in 1..n, k - 1 \in A PROVE k \in A
  <2>1. k - 1 \in 0..n
    OBVIOUS
  <2>2. /\ f[k] = f[k - 1] + a[k] /\ g[k] = g[k - 1] + b[k] /\ h[k] = h[k - 1] + c[k]
        /\ f[k - 1] \in Nat /\ g[k - 1] \in Nat
    BY <1>1, <1>2, <1>3, <1>4, <2>1 DEF SumRun
  <2>3. a[k] \in Nat /\ b[k] \in Nat /\ c[k] = a[k] + b[k]
    OBVIOUS
  <2> QED BY <1>6, <2>2, <2>3
<1> HIDE DEF A
<1>7. 0..n \subseteq A
  BY <1>5, <1>6, UpToInduction
<1>8. n \in A
  BY <1>7
<1> QED BY <1>1, <1>2, <1>3, <1>4, <1>8 DEF A, SumRun

\* A list with one element that is not zero.
LEMMA SumSingle ==
    ASSUME NEW n \in Nat, NEW p \in 1..n, NEW x \in Nat, NEW a \in [1..n -> Nat],
           \A k \in 1..n : a[k] = IF k = p THEN x ELSE 0
    PROVE  SumSeq(a) = x
<1>1. a \in Seq(Nat) /\ Len(a) = n
  OBVIOUS
<1>2. PICK f : SumRun(f, a)
  BY <1>1, SumSteps
<1> DEFINE A == {k \in 0..n : f[k] = IF k < p THEN 0 ELSE x}
<1>3. 0 \in A
  BY <1>2 DEF SumRun
<1>4. ASSUME NEW k \in 1..n, k - 1 \in A PROVE k \in A
  <2>1. f[k] = f[k - 1] + a[k]
    BY <1>1, <1>2 DEF SumRun
  <2>2. CASE k < p
    BY <1>4, <2>1, <2>2
  <2>3. CASE k = p
    BY <1>4, <2>1, <2>3
  <2>4. CASE k > p
    BY <1>4, <2>1, <2>4
  <2> QED BY <2>2, <2>3, <2>4
<1> HIDE DEF A
<1>5. 0..n \subseteq A
  BY <1>3, <1>4, UpToInduction
<1>6. n \in A
  BY <1>5
<1> QED BY <1>1, <1>2, <1>6 DEF A, SumRun

----------------------------------------------------------------------------
(* Concatenation                                                           *)

\* What the recursive function behind FlattenSeq computes, step by step.
FlattenRun(flat, ss, X) ==
    /\ flat \in [0..Len(ss) -> X]
    /\ flat[0] = <<>>
    /\ \A n \in 1..Len(ss) : flat[n] = flat[n - 1] \o ss[n]
    /\ FlattenSeq(ss) = flat[Len(ss)]

\* The recursive function exists.
LEMMA FlattenSteps ==
    ASSUME NEW S, NEW ss \in Seq(Seq(S))
    PROVE  \E flat : FlattenRun(flat, ss, Seq(S))
<1> DEFINE N == Len(ss)
           X == Seq(S)
           Grow(n, x) == x \o ss[n]
           step == [p \in (1..N) \X X |-> Grow(p[1], p[2])]
           Def(f) == [i \in 1..N |-> IF i = 1 THEN ss[i] ELSE f[i - 1] \o ss[i]]
           T == CHOOSE g : g = Def(g)
<1>1. N \in Nat /\ <<>> \in X /\ \A n \in 1..N : ss[n] \in X
  OBVIOUS
<1>2. \A n \in 1..N, x \in X : Grow(n, x) \in X
  OBVIOUS
<1>3. \A n \in 1..N : Grow(n, <<>>) = ss[n]
  OBVIOUS
<1>4. FlattenSeq(ss) = IF N = 0 THEN ss ELSE T[N]
  BY DEF FlattenSeq
<1>5. N = 0 => ss = <<>>
  OBVIOUS
<1>6. \A f : Def(f) = [i \in 1..N |-> IF i = 1 THEN ss[i] ELSE Grow(i, f[i - 1])]
  OBVIOUS
<1> HIDE DEF N, X, Grow, Def
<1>7. step \in [(1..N) \X X -> X] /\ \A n \in 1..N, x \in X : step[<<n, x>>] = Grow(n, x)
  BY <1>2
<1> HIDE DEF step
<1>r. PICK f : Recurses(f, N, X, <<>>, step)
  BY <1>1, <1>7, RecursionExists
<1>8. f \in [0..N -> X] /\ f[0] = <<>>
        /\ \A n \in 1..N : f[n] = step[<<n, f[n - 1]>>]
  BY <1>r DEF Recurses
<1>9. \A n \in 1..N : f[n - 1] \in X
  <2>1. \A n \in 1..N : n - 1 \in 0..N
    BY <1>1
  <2> QED BY <1>8, <2>1
<1>10. \A n \in 1..N : f[n] = Grow(n, f[n - 1])
  BY <1>7, <1>8, <1>9
<1> DEFINE h == [i \in 1..N |-> f[i]]
<1>11. \A i \in 1..N : h[i] = IF i = 1 THEN ss[i] ELSE Grow(i, h[i - 1])
  <2> TAKE i \in 1..N
  <2>1. CASE i = 1
    <3>1. f[1] = Grow(1, f[0])
      BY <1>10, <2>1
    <3> QED BY <1>3, <1>8, <2>1, <3>1
  <2>2. CASE i # 1
    <3>1. i - 1 \in 1..N
      BY <1>1, <2>2
    <3> QED BY <1>10, <2>2, <3>1
  <2> QED BY <2>1, <2>2
<1>12. h = Def(h)
  BY <1>6, <1>11
<1>13. T = Def(T)
  BY <1>12
<1> HIDE DEF T, h
<1>14. \A i \in 1..N : T[i] = IF i = 1 THEN ss[i] ELSE Grow(i, T[i - 1])
  BY <1>6, <1>13
<1>15. \A n \in 0..N : n # 0 => T[n] = f[n]
  <2> DEFINE A == {n \in 0..N : n # 0 => T[n] = f[n]}
  <2>1. 0 \in A
    BY <1>1
  <2>2. ASSUME NEW n \in 1..N, n - 1 \in A PROVE n \in A
    <3>1. n \in 0..N
      BY <1>1
    <3>2. CASE n = 1
      <4>1. f[n] = ss[n]
        BY <1>3, <1>8, <1>10, <3>2
      <4>2. T[n] = ss[n]
        BY <1>14, <3>2
      <4> QED BY <3>1, <4>1, <4>2
    <3>3. CASE n # 1
      <4>1. n - 1 # 0
        BY <1>1, <3>3
      <4>2. T[n] = Grow(n, T[n - 1]) /\ T[n - 1] = f[n - 1]
        BY <1>14, <2>2, <3>3, <4>1
      <4> QED BY <1>10, <3>1, <4>2
    <3> QED BY <3>2, <3>3
  <2> HIDE DEF A
  <2>3. 0..N \subseteq A
    BY <1>1, <2>1, <2>2, UpToInduction
  <2> QED BY <2>3 DEF A
<1>16. FlattenSeq(ss) = f[N]
  <2>1. CASE N = 0
    BY <1>4, <1>5, <1>8, <2>1
  <2>2. CASE N # 0
    <3>1. N \in 0..N
      BY <1>1
    <3> QED BY <1>4, <1>15, <2>2, <3>1
  <2> QED BY <2>1, <2>2
<1>17. \A n \in 1..N : f[n] = f[n - 1] \o ss[n]
  BY <1>10 DEF Grow
<1>18. FlattenRun(f, ss, X)
  BY <1>8, <1>16, <1>17 DEF FlattenRun, N
<1> QED BY <1>18 DEF X

\* A flattened list of lists is a list.
LEMMA FlattenType ==
    ASSUME NEW S, NEW ss \in Seq(Seq(S))
    PROVE  FlattenSeq(ss) \in Seq(S)
<1> DEFINE X == Seq(S)
           N == Len(ss)
<1>1. PICK flat : FlattenRun(flat, ss, X)
  BY FlattenSteps
<1>2. N \in Nat
  OBVIOUS
<1> HIDE DEF X
<1>3. N \in 0..N
  BY <1>2
<1>4. FlattenSeq(ss) \in X
  BY <1>1, <1>3 DEF FlattenRun
<1> QED BY <1>4 DEF X

----------------------------------------------------------------------------
(* Lists without repetitions                                               *)

\* The elements of a concatenation, which are different if no list has a
\* repetition and they share nothing.
LEMMA ConcatElements ==
    ASSUME NEW S, NEW s \in Seq(S), NEW t \in Seq(S)
    PROVE  /\ s \o t \in Seq(S) /\ ToSet(s \o t) = ToSet(s) \cup ToSet(t)
           /\ IsInjective(s) /\ IsInjective(t) /\ ToSet(s) \cap ToSet(t) = {}
                => IsInjective(s \o t)
<1> DEFINE u == s \o t
           m == Len(s)
           n == Len(t)
<1>1. /\ m \in Nat /\ n \in Nat /\ u \in Seq(S) /\ DOMAIN u = 1..(m + n)
      /\ DOMAIN s = 1..m /\ DOMAIN t = 1..n
      /\ \A i \in 1..m : u[i] = s[i]
      /\ \A i \in 1..(m + n) : i > m => u[i] = t[i - m]
  OBVIOUS
<1> HIDE DEF u, m, n
<1>2. \A i \in 1..n : i + m \in 1..(m + n) /\ u[i + m] = t[i]
  BY <1>1
<1>3. \A i \in 1..(m + n) : i \in 1..m \/ (i > m /\ i - m \in 1..n)
  BY <1>1
<1>4. \A i \in 1..m : i \in 1..(m + n)
  BY <1>1
<1>5. ToSet(u) = ToSet(s) \cup ToSet(t)
  <2>1. \A x \in ToSet(u) : x \in ToSet(s) \cup ToSet(t)
    <3> SUFFICES ASSUME NEW i \in 1..(m + n) PROVE u[i] \in ToSet(s) \cup ToSet(t)
      BY <1>1 DEF ToSet
    <3>1. CASE i \in 1..m
      BY <1>1, <3>1 DEF ToSet
    <3>2. CASE i > m /\ i - m \in 1..n
      BY <1>1, <3>2 DEF ToSet
    <3> QED BY <1>3, <3>1, <3>2
  <2>2. \A x \in ToSet(s) : x \in ToSet(u)
    BY <1>1, <1>4 DEF ToSet
  <2>3. \A x \in ToSet(t) : x \in ToSet(u)
    <3> SUFFICES ASSUME NEW i \in 1..n PROVE t[i] \in ToSet(u)
      BY <1>1 DEF ToSet
    <3>1. i + m \in DOMAIN u /\ u[i + m] = t[i]
      BY <1>1, <1>2
    <3> QED BY <3>1 DEF ToSet
  <2> QED BY <2>1, <2>2, <2>3
<1>6. ASSUME IsInjective(s), IsInjective(t), ToSet(s) \cap ToSet(t) = {}
      PROVE  IsInjective(u)
  <2>1. \A i \in 1..m, j \in 1..n : s[i] # t[j]
    BY <1>1, <1>6 DEF ToSet
  <2> SUFFICES ASSUME NEW i \in 1..(m + n), NEW j \in 1..(m + n), u[i] = u[j]
               PROVE  i = j
    BY <1>1 DEF IsInjective
  <2>2. CASE i \in 1..m /\ j \in 1..m
    BY <1>1, <1>6, <2>2 DEF IsInjective
  <2>3. CASE i > m /\ i - m \in 1..n /\ j > m /\ j - m \in 1..n
    <3>1. t[i - m] = t[j - m]
      BY <1>1, <2>3
    <3>2. i - m = j - m
      BY <1>1, <1>6, <2>3, <3>1 DEF IsInjective
    <3> QED BY <1>1, <3>2
  <2>4. CASE i \in 1..m /\ j > m /\ j - m \in 1..n
    BY <1>1, <2>1, <2>4
  <2>5. CASE j \in 1..m /\ i > m /\ i - m \in 1..n
    BY <1>1, <2>1, <2>5
  <2> QED BY <1>3, <2>2, <2>3, <2>4, <2>5
<1> QED BY <1>1, <1>5, <1>6 DEF u

\* The elements of a list that has grown by one.
LEMMA AppendElements ==
    ASSUME NEW S, NEW s \in Seq(S), NEW x \in S
    PROVE  /\ ToSet(Append(s, x)) = ToSet(s) \cup {x}
           /\ IsInjective(s) /\ x \notin ToSet(s) => IsInjective(Append(s, x))
<1>1. <<x>> \in Seq(S) /\ Append(s, x) = s \o <<x>>
  OBVIOUS
<1>2. ToSet(<<x>>) = {x} /\ IsInjective(<<x>>)
  BY DEF ToSet, IsInjective
<1>3. /\ ToSet(s \o <<x>>) = ToSet(s) \cup ToSet(<<x>>)
      /\ IsInjective(s) /\ IsInjective(<<x>>) /\ ToSet(s) \cap ToSet(<<x>>) = {}
            => IsInjective(s \o <<x>>)
  BY <1>1, ConcatElements, ZenonT(60)
<1> QED BY <1>1, <1>2, <1>3

\* The lists of ss share no element.
Disjoint(ss) ==
    \A k, m \in 1..Len(ss) : k # m => ToSet(ss[k]) \cap ToSet(ss[m]) = {}

\* The elements of a concatenation, each once when the lists share none.
LEMMA FlattenElements ==
    ASSUME NEW S, NEW ss \in Seq(Seq(S)),
           \A k \in 1..Len(ss) : IsInjective(ss[k]), Disjoint(ss)
    PROVE  /\ IsInjective(FlattenSeq(ss))
           /\ ToSet(FlattenSeq(ss)) = UNION {ToSet(ss[k]) : k \in 1..Len(ss)}
<1> DEFINE N == Len(ss)
           X == Seq(S)
           U(n) == UNION {ToSet(ss[k]) : k \in 1..n}
<1>1. N \in Nat /\ \A k \in 1..N : ss[k] \in Seq(S)
  OBVIOUS
<1>2. PICK flat : FlattenRun(flat, ss, Seq(S))
  BY FlattenSteps
<1>3. /\ flat \in [0..N -> X] /\ flat[0] = <<>> /\ FlattenSeq(ss) = flat[N]
      /\ \A n \in 1..N : flat[n] = flat[n - 1] \o ss[n]
  BY <1>2 DEF FlattenRun
<1>4. \A k, m \in 1..N : k # m => ToSet(ss[k]) \cap ToSet(ss[m]) = {}
  BY DEF Disjoint
<1>5. \A k \in 1..N : IsInjective(ss[k])
  OBVIOUS
<1> DEFINE A == {n \in 0..N : IsInjective(flat[n]) /\ ToSet(flat[n]) = U(n)}
<1> HIDE DEF N
<1>6. 0 \in A
  <2>1. IsInjective(<<>>) /\ ToSet(<<>>) = {}
    BY DEF IsInjective, ToSet
  <2>2. U(0) = {}
    OBVIOUS
  <2>3. 0 \in 0..N
    BY <1>1
  <2> QED BY <1>3, <2>1, <2>2, <2>3
<1>7. ASSUME NEW n \in 1..N, n - 1 \in A PROVE n \in A
  <2>1. /\ n \in 0..N /\ n - 1 \in 0..N /\ flat[n - 1] \in X
        /\ flat[n] = flat[n - 1] \o ss[n] /\ ss[n] \in X
        /\ IsInjective(flat[n - 1]) /\ ToSet(flat[n - 1]) = U(n - 1)
    <3>1. n \in 0..N /\ n - 1 \in 0..N
      BY <1>1
    <3>2. flat[n - 1] \in X /\ flat[n] = flat[n - 1] \o ss[n] /\ ss[n] \in X
      BY <1>1, <1>3, <3>1
    <3>3. IsInjective(flat[n - 1]) /\ ToSet(flat[n - 1]) = U(n - 1)
      BY <1>7
    <3> QED BY <3>1, <3>2, <3>3
  <2>2. \A k \in 1..(n - 1) : k \in 1..N /\ k # n
    BY <1>1
  <2>3. U(n - 1) \cap ToSet(ss[n]) = {}
    BY <1>4, <2>2
  <2>4. U(n) = U(n - 1) \cup ToSet(ss[n])
    <3>1. \A k : k \in 1..n <=> k \in 1..(n - 1) \/ k = n
      BY <1>1
    <3> QED BY <3>1
  <2> HIDE DEF U
  <2>5. IsInjective(ss[n]) /\ ToSet(flat[n - 1]) \cap ToSet(ss[n]) = {}
    BY <1>5, <2>1, <2>3
  <2>6. /\ ToSet(flat[n]) = ToSet(flat[n - 1]) \cup ToSet(ss[n])
        /\ IsInjective(flat[n])
    BY <2>1, <2>5, ConcatElements
  <2> QED BY <2>1, <2>4, <2>6
<1> HIDE DEF A, X, U
<1>8. 0..N \subseteq A
  BY <1>1, <1>6, <1>7, UpToInduction
<1>9. N \in A
  BY <1>1, <1>8
<1> QED BY <1>3, <1>9 DEF A, U, N

\* Keeping some elements of a list without repetitions gives one.
LEMMA KeepIs ==
    ASSUME NEW S, NEW s \in Seq(S), IsInjective(s), NEW T
    PROVE  /\ Keep(s, T) \in Seq(S) /\ IsInjective(Keep(s, T))
           /\ ToSet(Keep(s, T)) = ToSet(s) \cap T
<1> DEFINE K == {k \in 1..Len(s) : s[k] \in T}
           t == Keep(s, T)
<1>1. K \in SUBSET (1..Len(s)) /\ t = Sublist(s, K)
  BY DEF Keep
<1>2. DOMAIN s = 1..Len(s) /\ \A k \in 1..Len(s) : k \in Nat
  OBVIOUS
<1>k. \A k \in 1..Len(s) : k \in K <=> s[k] \in T
  OBVIOUS
<1> HIDE DEF K, t
<1>3. t \in Seq(S)
  BY <1>1, SublistIs
<1>4. PICK pos : /\ Enumerates(pos, Len(t), K)
                 /\ \A i \in 1..Len(t) : t[i] = s[pos[i]]
  BY <1>1, SublistIs
<1>5. DOMAIN t = 1..Len(t) /\ \A i \in 1..Len(t) : i \in Nat
  BY <1>3
<1>6. \A i \in 1..Len(t) : pos[i] \in K /\ pos[i] \in 1..Len(s) /\ pos[i] \in Nat
  BY <1>1, <1>2, <1>4 DEF Enumerates
<1>7. IsInjective(t)
  <2> SUFFICES ASSUME NEW i \in 1..Len(t), NEW j \in 1..Len(t), t[i] = t[j], i # j
               PROVE  FALSE
    BY <1>5 DEF IsInjective
  <2>1. pos[i] = pos[j]
    BY <1>2, <1>4, <1>6 DEF IsInjective
  <2>2. i < j \/ j < i
    BY <1>5
  <2>3. pos[i] < pos[j] \/ pos[j] < pos[i]
    BY <1>4, <2>2 DEF Enumerates
  <2> QED BY <1>6, <2>1, <2>3
<1>8. ASSUME NEW x \in ToSet(t) PROVE x \in ToSet(s) \cap T
  <2>1. PICK i \in 1..Len(t) : t[i] = x
    BY <1>5 DEF ToSet
  <2> QED BY <1>2, <1>4, <1>6, <1>k, <2>1 DEF ToSet
<1>9. ASSUME NEW x \in ToSet(s) \cap T PROVE x \in ToSet(t)
  <2>1. PICK k \in 1..Len(s) : s[k] = x
    BY <1>2 DEF ToSet
  <2>2. k \in K
    BY <1>k, <2>1
  <2>3. PICK i \in 1..Len(t) : pos[i] = k
    BY <1>4, <2>2 DEF Enumerates
  <2> QED BY <1>4, <1>5, <2>1, <2>3 DEF ToSet
<1> QED BY <1>3, <1>7, <1>8, <1>9 DEF t

\* Such a list has as many elements as positions.
LEMMA InjectiveLength ==
    ASSUME NEW S, NEW s \in Seq(S), IsInjective(s)
    PROVE  IsFiniteSet(ToSet(s)) /\ Cardinality(ToSet(s)) = Len(s)
<1> DEFINE n == Len(s)
<1>1. n \in Nat /\ DOMAIN s = 1..n /\ s \in [1..n -> S]
  OBVIOUS
<1>2. IsFiniteSet(1..n) /\ Cardinality(1..n) = n
  BY <1>1, FS_Interval, SMTT(30)
<1> HIDE DEF n
<1>3. s \in Surjection(1..n, ToSet(s))
  BY <1>1 DEF ToSet, Surjection
<1>4. s \in Injection(1..n, ToSet(s))
  BY <1>1, <1>3 DEF Surjection, Injection, IsInjective
<1> QED BY <1>2, <1>3, <1>4, FS_Surjection DEF n

----------------------------------------------------------------------------
(* Sums of the values that a function gives to the elements of a list      *)

MapSum(v, s) == SumSeq([i \in 1..Len(s) |-> v[s[i]]])

\* Sums of what a function makes of the elements of a list are naturals.
LEMMA MapSumType ==
    ASSUME NEW S, NEW v \in [S -> Nat], NEW s \in Seq(S)
    PROVE  /\ [i \in 1..Len(s) |-> v[s[i]]] \in Seq(Nat)
           /\ Len([i \in 1..Len(s) |-> v[s[i]]]) = Len(s)
           /\ MapSum(v, s) \in Nat
<1> DEFINE a == [i \in 1..Len(s) |-> v[s[i]]]
<1>1. Len(s) \in Nat /\ \A i \in 1..Len(s) : s[i] \in S
  OBVIOUS
<1>2. \A i \in 1..Len(s) : v[s[i]] \in Nat
  BY <1>1
<1>3. a \in Seq(Nat) /\ Len(a) = Len(s)
  BY <1>1, <1>2
<1> HIDE DEF a
<1>4. SumSeq(a) \in Nat
  BY <1>3, SumType
<1> QED BY <1>3, <1>4 DEF a, MapSum

\* Such a sum over a list that has grown by one.
LEMMA MapSumAppend ==
    ASSUME NEW S, NEW v \in [S -> Nat], NEW s \in Seq(S), NEW x \in S
    PROVE  MapSum(v, Append(s, x)) = MapSum(v, s) + v[x]
<1> DEFINE a == [i \in 1..Len(s) |-> v[s[i]]]
           b == [i \in 1..Len(Append(s, x)) |-> v[Append(s, x)[i]]]
<1>1. a \in Seq(Nat) /\ Len(a) = Len(s) /\ v[x] \in Nat
  BY MapSumType
<1>2. /\ Len(s) \in Nat /\ Len(Append(s, x)) = Len(s) + 1
      /\ \A i \in 1..(Len(s) + 1) :
            Append(s, x)[i] = IF i = Len(s) + 1 THEN x ELSE s[i]
  OBVIOUS
<1>3. \A i \in 1..Len(s) : a[i] = v[s[i]]
  OBVIOUS
<1> HIDE DEF a
<1>4. /\ DOMAIN Append(a, v[x]) = 1..(Len(s) + 1)
      /\ \A i \in 1..(Len(s) + 1) :
            Append(a, v[x])[i] = IF i = Len(s) + 1 THEN v[x] ELSE a[i]
      /\ Append(a, v[x]) \in Seq(Nat)
  BY <1>1, <1>2
<1>5. b = Append(a, v[x])
  <2>1. DOMAIN b = 1..(Len(s) + 1)
    BY <1>2
  <2>2. ASSUME NEW i \in 1..(Len(s) + 1) PROVE b[i] = Append(a, v[x])[i]
    <3>1. b[i] = v[Append(s, x)[i]]
      BY <1>2
    <3>2. CASE i = Len(s) + 1
      BY <1>2, <1>4, <3>1, <3>2
    <3>3. CASE i # Len(s) + 1
      <4>1. i \in 1..Len(s)
        BY <1>2, <3>3
      <4> QED BY <1>2, <1>3, <1>4, <3>1, <3>3, <4>1
    <3> QED BY <3>2, <3>3
  <2> HIDE DEF b
  <2>3. DOMAIN b = DOMAIN Append(a, v[x]) /\ b = [i \in DOMAIN b |-> b[i]]
    BY <1>4, <2>1 DEF b
  <2>4. Append(a, v[x]) = [i \in DOMAIN Append(a, v[x]) |-> Append(a, v[x])[i]]
    BY <1>4
  <2> QED BY <2>1, <2>2, <2>3, <2>4
<1>6. SumSeq(Append(a, v[x])) = SumSeq(a) + v[x]
  BY <1>1, SumAppend
<1> QED BY <1>5, <1>6 DEF MapSum, a

\* Such a sum over a concatenation.
LEMMA MapSumConcat ==
    ASSUME NEW S, NEW v \in [S -> Nat], NEW s \in Seq(S), NEW t \in Seq(S)
    PROVE  MapSum(v, s \o t) = MapSum(v, s) + MapSum(v, t)
<1> DEFINE u == s \o t
           m == Len(s)
           n == Len(t)
           a == [i \in 1..Len(s) |-> v[s[i]]]
           b == [i \in 1..Len(t) |-> v[t[i]]]
           c == [i \in 1..Len(u) |-> v[u[i]]]
<1>1. /\ u \in Seq(S) /\ m \in Nat /\ n \in Nat /\ Len(u) = m + n
      /\ \A i \in 1..m : u[i] = s[i]
      /\ \A i \in 1..n : u[m + i] = t[i]
  OBVIOUS
<1> HIDE DEF u
<1>2. /\ a \in Seq(Nat) /\ Len(a) = m /\ b \in Seq(Nat) /\ Len(b) = n
      /\ c \in Seq(Nat) /\ Len(c) = m + n
  BY <1>1, MapSumType, SMTT(30)
<1>3. /\ \A i \in 1..m : c[i] = a[i]
      /\ \A i \in 1..n : c[m + i] = b[i]
  <2>1. ASSUME NEW i \in 1..m PROVE c[i] = a[i]
    <3>1. i \in 1..Len(u)
      BY <1>1
    <3>2. c[i] = v[u[i]] /\ a[i] = v[s[i]]
      BY <3>1
    <3> QED BY <1>1, <3>2
  <2>2. ASSUME NEW i \in 1..n PROVE c[m + i] = b[i]
    <3>1. m + i \in 1..Len(u)
      BY <1>1
    <3>2. c[m + i] = v[u[m + i]] /\ b[i] = v[t[i]]
      BY <3>1
    <3> QED BY <1>1, <3>2
  <2> QED BY <2>1, <2>2
<1>s. MapSum(v, s) = SumSeq(a) /\ MapSum(v, t) = SumSeq(b) /\ MapSum(v, u) = SumSeq(c)
  BY DEF MapSum
<1> HIDE DEF a, b, c, m, n
<1>4. PICK f : SumRun(f, a)
  BY <1>2, SumSteps
<1>5. PICK g : SumRun(g, b)
  BY <1>2, SumSteps
<1>6. PICK h : SumRun(h, c)
  BY <1>2, SumSteps
<1>7. h[m] = f[m]
  <2>1. m <= Len(c) /\ m <= Len(a)
    BY <1>1, <1>2
  <2>2. a \in Seq(Nat) /\ c \in Seq(Nat) /\ m \in Nat /\ \A i \in 1..m : c[i] = a[i]
    BY <1>1, <1>2, <1>3
  <2> QED BY <1>4, <1>6, <2>1, <2>2, SumPrefix
<1> DEFINE A == {k \in 0..n : h[m + k] = f[m] + g[k]}
<1>8. 0 \in A
  <2>1. g[0] = 0 /\ m + 0 = m /\ f[m] \in Nat
    BY <1>1, <1>2, <1>4, <1>5 DEF SumRun
  <2> QED BY <1>1, <1>7, <2>1
<1>9. ASSUME NEW k \in 1..n, k - 1 \in A PROVE k \in A
  <2>1. m + k \in 1..(m + n) /\ (m + k) - 1 = m + (k - 1) /\ k - 1 \in 0..n
        /\ m \in 0..m
    BY <1>1
  <2>2. h[m + k] = h[m + (k - 1)] + c[m + k]
    BY <1>2, <1>6, <2>1 DEF SumRun
  <2>3. g[k] = g[k - 1] + b[k] /\ g[k - 1] \in Nat
    BY <1>2, <1>5, <2>1 DEF SumRun
  <2>4. h[m + (k - 1)] = f[m] + g[k - 1]
    BY <1>9
  <2>5. c[m + k] = b[k]
    BY <1>3
  <2>6. b[k] \in Nat
    BY <1>2, SMTT(30)
  <2>7. f[m] \in Nat
    BY <1>2, <1>4, <2>1 DEF SumRun
  <2> QED BY <2>2, <2>3, <2>4, <2>5, <2>6, <2>7
<1> HIDE DEF A
<1>10. 0..n \subseteq A
  BY <1>1, <1>8, <1>9, UpToInduction
<1>11. n \in A
  BY <1>1, <1>10
<1>12. h[m + n] = f[m] + g[n]
  BY <1>11 DEF A
<1> QED BY <1>2, <1>4, <1>5, <1>6, <1>12, <1>s DEF u, SumRun

\* Such a sum over a flattened list of lists is the sum of the lists' sums.
LEMMA MapSumFlatten ==
    ASSUME NEW S, NEW v \in [S -> Nat], NEW ss \in Seq(Seq(S)),
           NEW sums \in Seq(Nat), Len(sums) = Len(ss),
           \A k \in 1..Len(ss) : sums[k] = MapSum(v, ss[k])
    PROVE  MapSum(v, FlattenSeq(ss)) = SumSeq(sums)
<1> DEFINE N == Len(ss)
           X == Seq(S)
<1>1. N \in Nat /\ \A k \in 1..N : ss[k] \in X
  OBVIOUS
<1>2. PICK flat : FlattenRun(flat, ss, X)
  BY FlattenSteps
<1>3. PICK f : SumRun(f, sums)
  BY SumSteps
<1>4. /\ \A k \in 0..N : flat[k] \in X
      /\ flat[0] = <<>> /\ \A k \in 1..N : flat[k] = flat[k - 1] \o ss[k]
      /\ FlattenSeq(ss) = flat[N]
  BY <1>2 DEF FlattenRun
<1>5. /\ f[0] = 0 /\ \A k \in 1..N : f[k] = f[k - 1] + sums[k]
      /\ SumSeq(sums) = f[N]
  BY <1>3 DEF SumRun
<1>6. \A x, y \in X : MapSum(v, x \o y) = MapSum(v, x) + MapSum(v, y)
  BY MapSumConcat
<1>7. \A k \in 1..N : sums[k] = MapSum(v, ss[k])
  OBVIOUS
<1>8. MapSum(v, <<>>) = 0
  <2>1. [i \in 1..Len(<<>>) |-> v[<<>>[i]]] = <<>>
    OBVIOUS
  <2> QED BY <2>1, SumEmpty DEF MapSum
<1> HIDE DEF N, X
<1> DEFINE A == {k \in 0..N : MapSum(v, flat[k]) = f[k]}
<1>9. 0 \in A
  BY <1>1, <1>4, <1>5, <1>8
<1>10. ASSUME NEW k \in 1..N, k - 1 \in A PROVE k \in A
  <2>1. k \in 0..N /\ k - 1 \in 0..N
    BY <1>1
  <2>2. flat[k - 1] \in X /\ ss[k] \in X /\ flat[k] = flat[k - 1] \o ss[k]
    BY <1>1, <1>4, <2>1
  <2>3. MapSum(v, flat[k]) = MapSum(v, flat[k - 1]) + MapSum(v, ss[k])
    BY <1>6, <2>2
  <2>4. MapSum(v, flat[k]) = f[k]
    BY <1>5, <1>7, <1>10, <2>3
  <2> QED BY <2>1, <2>4
<1> HIDE DEF A
<1>11. 0..N \subseteq A
  BY <1>1, <1>9, <1>10, UpToInduction
<1>12. N \in A
  BY <1>1, <1>11
<1> QED BY <1>4, <1>5, <1>12 DEF A

\* A sum of zeros.
LEMMA SumZeros ==
    ASSUME NEW n \in Nat, NEW a \in [1..n -> Nat], \A k \in 1..n : a[k] = 0
    PROVE  SumSeq(a) = 0
<1>1. SumSeq(a) = SumSeq(a) + SumSeq(a)
  BY SumPlus
<1>2. a \in Seq(Nat)
  OBVIOUS
<1>3. SumSeq(a) \in Nat
  BY <1>2, SumType
<1> QED BY <1>1, <1>3

\* What the elements of s that t has are worth, position by position.
PartOf(part, s, t, v) ==
    /\ part \in Seq(Nat) /\ Len(part) = Len(s)
    /\ \A k \in 1..Len(s) : part[k] = IF s[k] \in ToSet(t) THEN v[s[k]] ELSE 0

\* The sum over a list without repetitions, counted over a longer one.
LEMMA SumOver ==
    ASSUME NEW S, NEW v \in [S -> Nat], NEW s \in Seq(S), IsInjective(s),
           NEW t \in Seq(S), IsInjective(t), ToSet(t) \subseteq ToSet(s),
           NEW part, PartOf(part, s, t, v)
    PROVE  SumSeq(part) = MapSum(v, t)
<1>a. /\ part \in Seq(Nat) /\ Len(part) = Len(s)
      /\ \A k \in 1..Len(s) : part[k] = IF s[k] \in ToSet(t) THEN v[s[k]] ELSE 0
  BY DEF PartOf
<1> DEFINE N == Len(s)
           M == Len(t)
           b == [i \in 1..Len(t) |-> v[t[i]]]
           In(k, n) == \E j \in 1..n : t[j] = s[k]
           Part(n) == [k \in 1..N |-> IF In(k, n) THEN v[s[k]] ELSE 0]
<1>1. /\ N \in Nat /\ M \in Nat /\ DOMAIN s = 1..N /\ DOMAIN t = 1..M
      /\ \A k \in 1..N : s[k] \in S
      /\ \A k \in 1..M : t[k] \in S
  OBVIOUS
<1>2. \A k \in 1..N : v[s[k]] \in Nat
  BY <1>1
<1>3. b \in Seq(Nat) /\ Len(b) = M /\ \A i \in 1..M : b[i] = v[t[i]]
  BY MapSumType
<1>m. MapSum(v, t) = SumSeq(b)
  BY DEF MapSum
<1>i. /\ \A i, j \in 1..N : s[i] = s[j] => i = j
      /\ \A i, j \in 1..M : t[i] = t[j] => i = j
      /\ \A j \in 1..M : \E k \in 1..N : s[k] = t[j]
  <2> HIDE DEF N, M, b, In, Part
  <2>1. \A j \in 1..M : t[j] \in ToSet(t)
    BY <1>1 DEF ToSet
  <2>2. \A x \in ToSet(s) : \E k \in 1..N : s[k] = x
    BY <1>1 DEF ToSet
  <2>3. /\ \A i, j \in 1..N : s[i] = s[j] => i = j
        /\ \A i, j \in 1..M : t[i] = t[j] => i = j
    BY <1>1 DEF IsInjective
  <2> QED BY <2>1, <2>2, <2>3
<1>4. \A k \in 1..N : s[k] \in ToSet(t) <=> In(k, M)
  BY <1>1 DEF ToSet
<1>p. part \in [1..N -> Nat] /\ \A k \in 1..N : part[k] = IF In(k, M) THEN v[s[k]] ELSE 0
  BY <1>4, <1>a
<1> HIDE DEF N, M, b
<1>5. \A n : Part(n) \in [1..N -> Nat]
  BY <1>2
<1>6. part = Part(M)
  BY <1>p
<1>7. PICK g : SumRun(g, b)
  BY <1>3, SumSteps
<1> DEFINE A == {n \in 0..M : SumSeq(Part(n)) = g[n]}
<1>8. 0 \in A
  <2>1. \A k \in 1..N : Part(0)[k] = 0
    OBVIOUS
  <2> HIDE DEF Part
  <2>2. SumSeq(Part(0)) = 0
    BY <1>1, <1>5, <2>1, SumZeros
  <2>3. g[0] = 0
    BY <1>7 DEF SumRun
  <2> QED BY <1>1, <2>2, <2>3
<1>9. ASSUME NEW n \in 1..M, n - 1 \in A PROVE n \in A
  <2>1. PICK p \in 1..N : s[p] = t[n]
    BY <1>i
  <2> DEFINE one == [k \in 1..N |-> IF k = p THEN v[s[p]] ELSE 0]
  <2>2. one \in [1..N -> Nat] /\ \A k \in 1..N : one[k] = IF k = p THEN v[s[p]] ELSE 0
    BY <1>2
  <2>3. v[s[p]] \in Nat
    BY <1>2
  <2> HIDE DEF one
  <2>4. SumSeq(one) = v[s[p]]
    <3> DEFINE x == v[s[p]]
    <3>1. x \in Nat /\ N \in Nat /\ \A k \in 1..N : one[k] = IF k = p THEN x ELSE 0
      BY <1>1, <2>2, <2>3
    <3> HIDE DEF x, In, Part
    <3>2. SumSeq(one) = x
      BY <2>2, <3>1, SumSingle
    <3> QED BY <3>2 DEF x
  <2>5. ASSUME NEW k \in 1..N PROVE Part(n)[k] = Part(n - 1)[k] + one[k]
    <3>1. In(k, n) <=> In(k, n - 1) \/ t[n] = s[k]
      <4>1. \A j : j \in 1..n <=> j \in 1..(n - 1) \/ j = n
        BY <1>1
      <4> QED BY <4>1
    <3>2. Part(n)[k] = (IF In(k, n) THEN v[s[k]] ELSE 0)
          /\ Part(n - 1)[k] = (IF In(k, n - 1) THEN v[s[k]] ELSE 0)
      OBVIOUS
    <3>3. CASE k = p
      <4>1. ~In(k, n - 1)
        <5> SUFFICES ASSUME NEW j \in 1..(n - 1), t[j] = s[k] PROVE FALSE
          OBVIOUS
        <5>1. j \in 1..M /\ j # n
          BY <1>1
        <5> QED BY <1>i, <2>1, <3>3, <5>1
      <4>2. In(k, n)
        BY <2>1, <3>1, <3>3
      <4> HIDE DEF In, Part
      <4> QED BY <2>2, <2>3, <3>2, <3>3, <4>1, <4>2
    <3>4. CASE k # p
      <4>1. t[n] # s[k]
        BY <1>i, <2>1, <3>4
      <4>2. In(k, n) <=> In(k, n - 1)
        BY <3>1, <4>1
      <4>3. one[k] = 0 /\ v[s[k]] \in Nat
        BY <1>2, <2>2, <3>4
      <4> HIDE DEF In, Part
      <4> QED BY <3>2, <4>2, <4>3
    <3> QED BY <3>3, <3>4
  <2> HIDE DEF Part
  <2>6. SumSeq(Part(n)) = SumSeq(Part(n - 1)) + SumSeq(one)
    <3> DEFINE x == Part(n - 1)
               y == Part(n)
    <3>1. /\ x \in [1..N -> Nat] /\ y \in [1..N -> Nat] /\ one \in [1..N -> Nat]
          /\ N \in Nat /\ \A k \in 1..N : y[k] = x[k] + one[k]
      BY <1>1, <1>5, <2>2, <2>5
    <3> HIDE DEF x, y, In
    <3>2. SumSeq(y) = SumSeq(x) + SumSeq(one)
      BY <3>1, SumPlus
    <3> QED BY <3>2 DEF x, y
  <2>7. g[n] = g[n - 1] + b[n]
    BY <1>3, <1>7 DEF SumRun
  <2>8. b[n] = v[s[p]]
    BY <1>3, <2>1
  <2>9. SumSeq(Part(n)) = g[n]
    BY <1>9, <2>4, <2>6, <2>7, <2>8
  <2>10. n \in 0..M
    BY <1>1
  <2> QED BY <2>9, <2>10
<1> HIDE DEF A, Part
<1>10. 0..M \subseteq A
  BY <1>1, <1>8, <1>9, UpToInduction
<1>11. M \in A
  BY <1>1, <1>10
<1>12. SumSeq(b) = g[M]
  BY <1>3, <1>7 DEF SumRun
<1> QED BY <1>6, <1>11, <1>12, <1>m DEF A

\* Sums of growing prefixes.
LEMMA PrefixSums ==
    ASSUME NEW N \in Nat, NEW f \in [1..N -> Nat]
    PROVE  /\ SumSeq([k \in 1..0 |-> f[k]]) = 0
           /\ \A n \in 0..N : SumSeq([k \in 1..n |-> f[k]]) \in Nat
           /\ \A n \in 1..N : SumSeq([k \in 1..n |-> f[k]])
                                = SumSeq([k \in 1..(n - 1) |-> f[k]]) + f[n]
<1> DEFINE P(n) == [k \in 1..n |-> f[k]]
<1>1. \A n \in 0..N : P(n) \in Seq(Nat) /\ Len(P(n)) = n
  OBVIOUS
<1>2. \A n \in 0..N : SumSeq(P(n)) \in Nat
  BY <1>1, SumType
<1>3. SumSeq(P(0)) = 0
  <2>1. P(0) = <<>>
    OBVIOUS
  <2> QED BY <2>1, SumEmpty
<1>4. ASSUME NEW n \in 1..N PROVE SumSeq(P(n)) = SumSeq(P(n - 1)) + f[n]
  <2>1. P(n - 1) \in Seq(Nat) /\ Len(P(n - 1)) = n - 1 /\ f[n] \in Nat
    BY <1>1
  <2>2. P(n) = Append(P(n - 1), f[n])
    OBVIOUS
  <2> HIDE DEF P
  <2> QED BY <2>1, <2>2, SumAppend
<1> QED BY <1>2, <1>3, <1>4

\* t lists the elements of a and of b, which share none, all of them in s.
TwoParts(S, v, s, t, a, b) ==
    /\ v \in [S -> Nat]
    /\ s \in Seq(S) /\ IsInjective(s)
    /\ t \in Seq(S) /\ IsInjective(t) /\ ToSet(t) \subseteq ToSet(s)
    /\ a \in Seq(S) /\ IsInjective(a)
    /\ b \in Seq(S) /\ IsInjective(b)
    /\ ToSet(t) = ToSet(a) \cup ToSet(b) /\ ToSet(a) \cap ToSet(b) = {}

\* Two lists that share the elements of a third, all without repetitions.
LEMMA SumTwoParts ==
    ASSUME NEW S, NEW v, NEW s, NEW t, NEW a, NEW b, TwoParts(S, v, s, t, a, b)
    PROVE  MapSum(v, t) = MapSum(v, a) + MapSum(v, b)
<1> USE DEF TwoParts
<1> DEFINE N == Len(s)
           P(l) == [k \in 1..N |-> IF s[k] \in ToSet(l) THEN v[s[k]] ELSE 0]
<1>1. N \in Nat /\ \A k \in 1..N : s[k] \in S
  OBVIOUS
<1> HIDE DEF N
<1>2. \A k \in 1..N : v[s[k]] \in Nat
  BY <1>1
<1>3. ASSUME NEW l
      PROVE  /\ P(l) \in [1..N -> Nat] /\ P(l) \in Seq(Nat) /\ Len(P(l)) = N
             /\ \A k \in 1..N : P(l)[k] = IF s[k] \in ToSet(l) THEN v[s[k]] ELSE 0
  BY <1>1, <1>2
<1>4. ASSUME NEW k \in 1..N PROVE P(t)[k] = P(a)[k] + P(b)[k]
  <2>1. v[s[k]] \in Nat
    BY <1>2
  <2>2. ASSUME NEW l
        PROVE  (s[k] \in ToSet(l) => P(l)[k] = v[s[k]])
               /\ (s[k] \notin ToSet(l) => P(l)[k] = 0)
    OBVIOUS
  <2> HIDE DEF P
  <2> DEFINE x == v[s[k]]
             pt == P(t)[k]
             pa == P(a)[k]
             pb == P(b)[k]
  <2>3. /\ (s[k] \in ToSet(t) => pt = x) /\ (s[k] \notin ToSet(t) => pt = 0)
        /\ (s[k] \in ToSet(a) => pa = x) /\ (s[k] \notin ToSet(a) => pa = 0)
        /\ (s[k] \in ToSet(b) => pb = x) /\ (s[k] \notin ToSet(b) => pb = 0)
    BY <2>2
  <2>4. /\ s[k] \in ToSet(t) <=> s[k] \in ToSet(a) \/ s[k] \in ToSet(b)
        /\ ~(s[k] \in ToSet(a) /\ s[k] \in ToSet(b))
    OBVIOUS
  <2>5. x \in Nat
    BY <2>1
  <2> HIDE DEF x, pt, pa, pb
  <2>6. pt = pa + pb
    BY <2>3, <2>4, <2>5
  <2> QED BY <2>6 DEF pt, pa, pb
<1> HIDE DEF P
<1>5. SumSeq(P(t)) = SumSeq(P(a)) + SumSeq(P(b))
  <2> DEFINE x == P(a)
             y == P(b)
             z == P(t)
  <2>1. /\ x \in [1..N -> Nat] /\ y \in [1..N -> Nat] /\ z \in [1..N -> Nat]
        /\ \A k \in 1..N : z[k] = x[k] + y[k]
    <3>1. \A l : P(l) \in [1..N -> Nat]
      BY <1>3
    <3> QED BY <1>4, <3>1
  <2> HIDE DEF x, y, z
  <2>2. SumSeq(z) = SumSeq(x) + SumSeq(y)
    BY ONLY <1>1, <2>1, SumPlus
  <2> QED BY <2>2 DEF x, y, z
<1>6. ASSUME NEW l \in Seq(S), IsInjective(l), ToSet(l) \subseteq ToSet(s)
      PROVE  SumSeq(P(l)) = MapSum(v, l)
  <2> DEFINE part == P(l)
  <2>1. part \in Seq(Nat) /\ Len(part) = Len(s)
        /\ \A k \in 1..Len(s) : part[k] = IF s[k] \in ToSet(l) THEN v[s[k]] ELSE 0
    <3>1. \A k \in 1..N : P(l)[k] = IF s[k] \in ToSet(l) THEN v[s[k]] ELSE 0
      BY DEF P
    <3>2. P(l) \in Seq(Nat) /\ Len(P(l)) = N
      BY <1>3
    <3> QED BY <3>1, <3>2 DEF N
  <2> HIDE DEF part
  <2>2. SumSeq(part) = MapSum(v, l)
    <3>1. /\ v \in [S -> Nat] /\ s \in Seq(S) /\ IsInjective(s)
          /\ l \in Seq(S) /\ IsInjective(l) /\ ToSet(l) \subseteq ToSet(s)
      BY <1>6
    <3>2. PartOf(part, s, l, v)
      BY <2>1 DEF PartOf
    <3> QED BY ONLY <3>1, <3>2, SumOver
  <2> QED BY <2>2 DEF part
<1> QED BY <1>5, <1>6

\* A mapped sum over no element.
LEMMA MapSumEmpty ==
    ASSUME NEW v
    PROVE  MapSum(v, <<>>) = 0
<1>1. [i \in 1..Len(<<>>) |-> v[<<>>[i]]] = <<>>
  OBVIOUS
<1> QED BY <1>1, SumEmpty DEF MapSum

\* A mapped sum over one element.
LEMMA MapSumOne ==
    ASSUME NEW S, NEW v \in [S -> Nat], NEW x \in S
    PROVE  MapSum(v, <<x>>) = v[x]
<1>1. <<>> \in Seq(S) /\ Append(<<>>, x) = <<x>> /\ v[x] \in Nat
  OBVIOUS
<1>2. MapSum(v, Append(<<>>, x)) = MapSum(v, <<>>) + v[x]
  BY <1>1, MapSumAppend
<1> QED BY <1>1, <1>2, MapSumEmpty

\* A mapped sum is that of the first element and the rest.
LEMMA MapSumTail ==
    ASSUME NEW S, NEW v \in [S -> Nat], NEW s \in Seq(S), s # <<>>
    PROVE  /\ Tail(s) \in Seq(S) /\ s[1] \in S
           /\ MapSum(v, s) = v[s[1]] + MapSum(v, Tail(s))
<1> DEFINE t == Tail(s)
           x == s[1]
<1>1. /\ Len(s) \in Nat \ {0} /\ t \in Seq(S) /\ x \in S
      /\ Len(t) = Len(s) - 1 /\ \A i \in 1..(Len(s) - 1) : t[i] = s[i + 1]
  OBVIOUS
<1> HIDE DEF t
<1>2. <<x>> \in Seq(S)
  BY <1>1
<1>3. s = <<x>> \o t
  BY <1>1, SMTT(30)
<1> HIDE DEF x
<1>4. MapSum(v, <<x>> \o t) = MapSum(v, <<x>>) + MapSum(v, t)
  BY <1>1, <1>2, MapSumConcat
<1>5. MapSum(v, <<x>>) = v[x]
  BY <1>1, MapSumOne
<1> QED BY <1>1, <1>3, <1>4, <1>5 DEF x, t

\* Counting one for each element counts the elements.
LEMMA MapSumOnes ==
    ASSUME NEW S, NEW v \in [S -> Nat], \A x \in S : v[x] = 1, NEW s \in Seq(S)
    PROVE  MapSum(v, s) = Len(s)
<1> DEFINE N == Len(s)
           b == [i \in 1..Len(s) |-> v[s[i]]]
<1>1. /\ b \in Seq(Nat) /\ Len(b) = N /\ MapSum(v, s) = SumSeq(b) /\ N \in Nat
      /\ \A i \in 1..N : b[i] = 1
  <2>1. b \in Seq(Nat) /\ Len(b) = N
    BY MapSumType
  <2>2. N \in Nat /\ \A i \in 1..N : s[i] \in S
    OBVIOUS
  <2> QED BY <2>1, <2>2 DEF MapSum
<1> HIDE DEF N, b
<1>2. PICK g : SumRun(g, b)
  BY <1>1, SumSteps
<1> DEFINE A == {n \in 0..N : g[n] = n}
<1>3. 0 \in A
  BY <1>1, <1>2 DEF SumRun
<1>4. ASSUME NEW n \in 1..N, n - 1 \in A PROVE n \in A
  <2>1. g[n] = g[n - 1] + b[n] /\ b[n] = 1
    BY <1>1, <1>2 DEF SumRun
  <2>2. g[n - 1] = n - 1
    BY <1>4
  <2>3. g[n] = n /\ n \in 0..N
    BY <1>1, <2>1, <2>2
  <2> QED BY <2>3
<1> HIDE DEF A
<1>5. 0..N \subseteq A
  BY <1>1, <1>3, <1>4, UpToInduction
<1>6. N \in A
  BY <1>1, <1>5
<1>7. g[N] = N
  BY <1>6 DEF A
<1> QED BY <1>1, <1>2, <1>7 DEF SumRun, N

----------------------------------------------------------------------------
(* Bags                                                                    *)

\* A list as long as the number of its elements has no repetitions.
LEMMA LengthInjective ==
    ASSUME NEW S, NEW s \in Seq(S), ~(Cardinality(ToSet(s)) < Len(s))
    PROVE  IsInjective(s)
<1> DEFINE n == Len(s)
<1>1. n \in Nat /\ DOMAIN s = 1..n /\ s \in [1..n -> S]
  OBVIOUS
<1>2. IsFiniteSet(1..n) /\ Cardinality(1..n) = n
  BY <1>1, FS_Interval, SMTT(30)
<1>n. ~(Cardinality(ToSet(s)) < n)
  OBVIOUS
<1> HIDE DEF n
<1>3. s \in Surjection(1..n, ToSet(s))
  BY <1>1 DEF ToSet, Surjection
<1>4. /\ IsFiniteSet(ToSet(s)) /\ Cardinality(ToSet(s)) <= Cardinality(1..n)
      /\ Cardinality(ToSet(s)) = Cardinality(1..n) <=> s \in Injection(1..n, ToSet(s))
  BY <1>2, <1>3, FS_Surjection
<1>5. Cardinality(ToSet(s)) \in Nat
  BY <1>4, FS_CardinalityType
<1>6. Cardinality(ToSet(s)) = n
  BY <1>1, <1>2, <1>4, <1>5, <1>n
<1> QED BY <1>2, <1>4, <1>6 DEF Injection

\* A list without repetitions has a property as often as its elements do.
LEMMA CountIs ==
    ASSUME NEW S, NEW s \in Seq(S), IsInjective(s), NEW P
    PROVE  Cardinality({i \in 1..Len(s) : s[i] \in P}) = Cardinality(ToSet(s) \cap P)
<1> DEFINE n == Len(s)
           A == {i \in 1..Len(s) : s[i] \in P}
           f == [i \in A |-> s[i]]
<1>1. n \in Nat /\ DOMAIN s = 1..n
  OBVIOUS
<1>2. IsFiniteSet(1..n)
  BY <1>1, FS_Interval
<1>3. IsFiniteSet(A)
  BY <1>2, FS_Subset
<1>4. f \in Surjection(A, ToSet(s) \cap P)
  BY <1>1 DEF ToSet, Surjection
<1>5. f \in Injection(A, ToSet(s) \cap P)
  BY <1>1, <1>4 DEF Surjection, Injection, IsInjective
<1> HIDE DEF A, f
<1>6. Cardinality(ToSet(s) \cap P) = Cardinality(A)
  BY <1>3, <1>4, <1>5, FS_Surjection
<1> QED BY <1>6 DEF A

\* What a function makes of the elements of s, in order.
Mapped(v, s) == [i \in 1..Len(s) |-> v[s[i]]]

\* The order of a list does not matter for the bag of what a function makes of
\* its elements.
LEMMA SameBag ==
    ASSUME NEW S, NEW v, NEW s \in Seq(S), IsInjective(s),
           NEW t \in Seq(S), IsInjective(t), ToSet(s) = ToSet(t)
    PROVE  ToBag(Mapped(v, s)) = ToBag(Mapped(v, t))
<1> DEFINE P(x) == {e \in S : v[e] = x}
<1>1. ASSUME NEW u \in Seq(S), IsInjective(u)
      PROVE  ToBag(Mapped(v, u))
               = [x \in {v[e] : e \in ToSet(u)} |-> Cardinality(ToSet(u) \cap P(x))]
  <2> DEFINE l == Mapped(v, u)
  <2>1. /\ DOMAIN u = 1..Len(u) /\ \A i \in 1..Len(u) : u[i] \in S
        /\ DOMAIN l = 1..Len(u) /\ \A i \in 1..Len(u) : l[i] = v[u[i]]
    BY <1>1 DEF Mapped
  <2> HIDE DEF l
  <2>2. Range(l) = {v[e] : e \in ToSet(u)}
    BY <2>1 DEF Range, ToSet
  <2>3. ASSUME NEW x PROVE Cardinality({i \in DOMAIN l : l[i] = x}) = Cardinality(ToSet(u) \cap P(x))
    <3>1. {i \in DOMAIN l : l[i] = x} = {i \in 1..Len(u) : u[i] \in P(x)}
      BY <2>1
    <3> HIDE DEF P
    <3>2. Cardinality({i \in 1..Len(u) : u[i] \in P(x)}) = Cardinality(ToSet(u) \cap P(x))
      BY <1>1, CountIs
    <3> QED BY <3>1, <3>2
  <2>4. ToBag(l) = [x \in Range(l) |-> Cardinality({i \in DOMAIN l : l[i] = x})]
    BY DEF ToBag
  <2> QED BY <2>2, <2>3, <2>4 DEF l
<1>2. /\ ToBag(Mapped(v, s))
           = [x \in {v[e] : e \in ToSet(s)} |-> Cardinality(ToSet(s) \cap P(x))]
      /\ ToBag(Mapped(v, t))
           = [x \in {v[e] : e \in ToSet(t)} |-> Cardinality(ToSet(t) \cap P(x))]
  BY <1>1
<1> QED BY <1>2

Rising(s) == \A i, j \in 1..Len(s) : i < j => s[i] <= s[j]

\* Equal bags have the same elements, as often.
LEMMA BagFacts ==
    ASSUME NEW S, NEW s \in Seq(S), NEW t \in Seq(S), ToBag(s) = ToBag(t)
    PROVE  /\ ToSet(s) = ToSet(t)
           /\ \A x \in ToSet(s) : Cardinality({i \in 1..Len(s) : s[i] = x})
                                    = Cardinality({i \in 1..Len(t) : t[i] = x})
<1>1. /\ DOMAIN s = 1..Len(s) /\ DOMAIN t = 1..Len(t)
      /\ Range(s) = ToSet(s) /\ Range(t) = ToSet(t)
  BY DEF Range, ToSet
<1>2. DOMAIN ToBag(s) = Range(s) /\ DOMAIN ToBag(t) = Range(t)
  BY DEF ToBag
<1>3. /\ \A x \in ToSet(s) : ToBag(s)[x] = Cardinality({i \in 1..Len(s) : s[i] = x})
      /\ \A x \in ToSet(t) : ToBag(t)[x] = Cardinality({i \in 1..Len(t) : t[i] = x})
  BY <1>1 DEF ToBag
<1> QED BY <1>1, <1>2, <1>3

\* Where a rising list first leaves another one, it has an element that the
\* other has less often.
LEMMA RisingPrefix ==
    ASSUME NEW s \in Seq(Nat), NEW t \in Seq(Nat), Rising(t), ToBag(s) = ToBag(t),
           NEW k \in 1..Len(s), \A i \in 1..(k - 1) : i \in 1..Len(t) /\ s[i] = t[i],
           k \in 1..Len(t) => s[k] < t[k]
    PROVE  FALSE
<1> DEFINE x == s[k]
           A == {i \in 1..Len(s) : s[i] = x}
           B == {i \in 1..Len(t) : t[i] = x}
<1>1. Len(s) \in Nat /\ Len(t) \in Nat /\ x \in ToSet(s) /\ x \in Nat
  BY DEF ToSet
<1>2. Cardinality(A) = Cardinality(B)
  BY <1>1, BagFacts, SMTT(30)
<1>3. \A i \in 1..Len(t) : i >= k => k \in 1..Len(t)
  BY <1>1
<1>4. \A i \in 1..Len(t) : i >= k => t[i] > x
  <2> SUFFICES ASSUME NEW i \in 1..Len(t), i >= k PROVE t[i] > x
    OBVIOUS
  <2>1. k \in 1..Len(t) /\ x < t[k] /\ t[k] \in Nat /\ t[i] \in Nat
    BY <1>3
  <2>2. t[k] <= t[i]
    BY <2>1 DEF Rising
  <2> QED BY <1>1, <2>1, <2>2, SMTT(30)
<1>5. \A i \in B : i \in 1..(k - 1)
  <2> SUFFICES ASSUME NEW i \in 1..Len(t), t[i] = x PROVE i \in 1..(k - 1)
    OBVIOUS
  <2>1. ~(i >= k)
    BY <1>1, <1>4
  <2> QED BY <2>1
<1>6. \A i \in 1..(k - 1) : i \in 1..Len(s) /\ i # k
  BY <1>1
<1>7. B \subseteq A \ {k}
  BY <1>5, <1>6
<1>8. k \in A /\ A \subseteq 1..Len(s)
  OBVIOUS
<1> HIDE DEF A, B, x
<1>9. IsFiniteSet(A)
  <2>1. IsFiniteSet(1..Len(s))
    BY <1>1, FS_Interval
  <2> QED BY <1>8, <2>1, FS_Subset
<1>10. IsFiniteSet(A \ {k}) /\ Cardinality(A \ {k}) = Cardinality(A) - 1
  BY <1>8, <1>9, FS_RemoveElement
<1>11. IsFiniteSet(B) /\ Cardinality(B) <= Cardinality(A \ {k})
  BY <1>7, <1>10, FS_Subset
<1>12. Cardinality(A) \in Nat /\ Cardinality(B) \in Nat
  BY <1>9, <1>11, FS_CardinalityType
<1> QED BY <1>2, <1>10, <1>11, <1>12

\* A bag of numbers has one rising list.
LEMMA RisingUnique ==
    ASSUME NEW s \in Seq(Nat), NEW t \in Seq(Nat), Rising(s), Rising(t),
           ToBag(s) = ToBag(t)
    PROVE  s = t
<1> DEFINE Bad == {k \in Nat : \/ k \in 1..Len(s) /\ k \notin 1..Len(t)
                               \/ k \in 1..Len(t) /\ k \notin 1..Len(s)
                               \/ k \in 1..Len(s) /\ k \in 1..Len(t) /\ s[k] # t[k]}
<1>1. /\ Len(s) \in Nat /\ Len(t) \in Nat
      /\ \A i \in 1..Len(s) : s[i] \in Nat
      /\ \A i \in 1..Len(t) : t[i] \in Nat
  OBVIOUS
<1>2. Bad = {}
  <2> SUFFICES ASSUME Bad # {} PROVE FALSE
    OBVIOUS
  <2>0. Bad \in SUBSET Nat
    OBVIOUS
  <2>1. PICK k \in Bad : \A y \in Bad : k <= y
    <3> HIDE DEF Bad
    <3> QED BY <2>0, LeastNat
  <2>2. \A i \in 1..(k - 1) : i \notin Bad /\ i \in Nat
    BY <2>1
  <2>3. \A i \in 1..(k - 1) : i \in 1..Len(s) /\ i \in 1..Len(t) /\ s[i] = t[i]
    <3>1. k \in 1..Len(s) \/ k \in 1..Len(t)
      BY <2>1
    <3>2. \A i \in 1..(k - 1) : i \in 1..Len(s) \/ i \in 1..Len(t)
      BY <1>1, <3>1
    <3> QED BY <2>2, <3>2
  <2>4. CASE k \in 1..Len(s) /\ (k \in 1..Len(t) => s[k] < t[k])
    BY <2>3, <2>4, RisingPrefix
  <2>5. CASE k \in 1..Len(t) /\ (k \in 1..Len(s) => t[k] < s[k])
    BY <2>3, <2>5, RisingPrefix
  <2>6. k \in 1..Len(s) /\ k \in 1..Len(t) => s[k] \in Nat /\ t[k] \in Nat
    <3> HIDE DEF Bad
    <3> QED BY <1>1
  <2> QED BY <2>1, <2>4, <2>5, <2>6
<1>3. Len(s) = Len(t)
  <2>1. CASE Len(s) > Len(t)
    <3>1. Len(s) \in 1..Len(s) /\ Len(s) \notin 1..Len(t)
      BY <1>1, <2>1
    <3> QED BY <1>1, <1>2, <3>1
  <2>2. CASE Len(t) > Len(s)
    <3>1. Len(t) \in 1..Len(t) /\ Len(t) \notin 1..Len(s)
      BY <1>1, <2>2
    <3> QED BY <1>1, <1>2, <3>1
  <2> QED BY <1>1, <2>1, <2>2
<1>4. ASSUME NEW k \in 1..Len(s) PROVE s[k] = t[k]
  <2>1. k \in Nat /\ k \in 1..Len(t)
    BY <1>1, <1>3
  <2> QED BY <1>2, <2>1
<1> QED BY <1>3, <1>4

----------------------------------------------------------------------------
(* Which list a sublist is                                                 *)

\* There is one way to enumerate a set of positions in order.
LEMMA EnumeratesUnique ==
    ASSUME NEW K \in SUBSET Nat, NEW m \in Nat, NEW p, Enumerates(p, m, K),
           NEW n \in Nat, NEW q, Enumerates(q, n, K)
    PROVE  p = q /\ m = n
<1> DEFINE v == [x \in Nat |-> x]
<1>1. ASSUME NEW len \in Nat, NEW pos, Enumerates(pos, len, K)
      PROVE  /\ pos \in Seq(Nat) /\ Len(pos) = len /\ IsInjective(pos)
             /\ ToSet(pos) = K /\ Rising(pos) /\ Mapped(v, pos) = pos
  <2>1. /\ pos \in [1..len -> Nat]
        /\ \A i, j \in 1..len : i < j => pos[i] < pos[j]
        /\ \A k \in K : \E i \in 1..len : pos[i] = k
        /\ \A i \in 1..len : pos[i] \in K
    BY <1>1 DEF Enumerates
  <2>2. pos \in Seq(Nat) /\ Len(pos) = len /\ DOMAIN pos = 1..len
    BY <2>1
  <2>3. IsInjective(pos)
    <3> SUFFICES ASSUME NEW i \in 1..len, NEW j \in 1..len, pos[i] = pos[j]
                 PROVE  i = j
      BY <2>2 DEF IsInjective
    <3>1. pos[i] \in Nat /\ pos[j] \in Nat
      BY <2>1
    <3> QED BY <2>1, <3>1
  <2>4. ToSet(pos) = K
    BY <2>1, <2>2 DEF ToSet
  <2>5. Rising(pos)
    <3> SUFFICES ASSUME NEW i \in 1..len, NEW j \in 1..len, i < j
                 PROVE  pos[i] <= pos[j]
      BY <2>2 DEF Rising
    <3>1. pos[i] \in Nat /\ pos[j] \in Nat /\ pos[i] < pos[j]
      BY <2>1
    <3> QED BY <3>1
  <2>6. Mapped(v, pos) = pos
    <3>1. \A i \in 1..len : v[pos[i]] = pos[i]
      BY <2>1
    <3>2. pos = [i \in 1..len |-> pos[i]]
      BY <2>1
    <3> QED BY <2>2, <3>1, <3>2 DEF Mapped
  <2> QED BY <2>2, <2>3, <2>4, <2>5, <2>6
<1> HIDE DEF v
<1>2. /\ p \in Seq(Nat) /\ Len(p) = m /\ IsInjective(p)
      /\ ToSet(p) = K /\ Rising(p) /\ Mapped(v, p) = p
  BY <1>1
<1>3. /\ q \in Seq(Nat) /\ Len(q) = n /\ IsInjective(q)
      /\ ToSet(q) = K /\ Rising(q) /\ Mapped(v, q) = q
  BY <1>1
<1>4. ToBag(Mapped(v, p)) = ToBag(Mapped(v, q))
  BY <1>2, <1>3, SameBag
<1>5. p = q
  BY <1>2, <1>3, <1>4, RisingUnique
<1> QED BY <1>2, <1>3, <1>5

\* A list is the sublist at the positions its elements come from, in order.
LEMMA SublistUnique ==
    ASSUME NEW S, NEW s \in Seq(S), NEW K \in SUBSET (1..Len(s)), NEW t \in Seq(S),
           NEW pos, Enumerates(pos, Len(t), K), \A i \in 1..Len(t) : t[i] = s[pos[i]]
    PROVE  t = Sublist(s, K)
<1> DEFINE u == Sublist(s, K)
<1>1. u \in Seq(S) /\ Len(u) \in Nat /\ Len(t) \in Nat
  BY SublistIs
<1>2. PICK p : Enumerates(p, Len(u), K) /\ \A i \in 1..Len(u) : u[i] = s[p[i]]
  BY SublistIs
<1>3. K \in SUBSET Nat
  OBVIOUS
<1> HIDE DEF u
<1>4. p = pos /\ Len(u) = Len(t)
  BY <1>1, <1>2, <1>3, EnumeratesUnique
<1>5. \A i \in 1..Len(t) : t[i] = u[i]
  BY <1>2, <1>4
<1>6. t = u
  <2> HIDE <1>2
  <2> QED BY <1>1, <1>4, <1>5
<1> QED BY <1>6 DEF u

\* Filtering commutes with mapping.
LEMMA SublistMapped ==
    ASSUME NEW S, NEW v, NEW s \in Seq(S), NEW K \in SUBSET (1..Len(s))
    PROVE  Sublist(Mapped(v, s), K) = Mapped(v, Sublist(s, K))
<1> DEFINE T == {v[x] : x \in S}
<1>0. \A x \in S : v[x] \in T
  OBVIOUS
<1> HIDE DEF T
<1> DEFINE u == Sublist(s, K)
           w == Mapped(v, s)
           t == Mapped(v, u)
<1>1. u \in Seq(S) /\ Len(u) \in Nat /\ Len(s) \in Nat
  BY SublistIs
<1>2. PICK p : Enumerates(p, Len(u), K) /\ \A i \in 1..Len(u) : u[i] = s[p[i]]
  BY SublistIs
<1> HIDE DEF u
<1>3. /\ w \in Seq(T) /\ Len(w) = Len(s) /\ \A k \in 1..Len(s) : w[k] = v[s[k]]
  BY <1>0 DEF Mapped
<1>4. /\ t \in Seq(T) /\ Len(t) = Len(u) /\ \A k \in 1..Len(u) : t[k] = v[u[k]]
  BY <1>0, <1>1 DEF Mapped
<1> HIDE DEF w, t
<1>5. \A i \in 1..Len(t) : t[i] = w[p[i]]
  <2> SUFFICES ASSUME NEW i \in 1..Len(u) PROVE t[i] = w[p[i]]
    BY <1>4
  <2>1. p[i] \in 1..Len(s)
    BY <1>2 DEF Enumerates
  <2> QED BY <1>2, <1>3, <1>4, <2>1
<1>6. t = Sublist(w, K)
  <2>1. K \in SUBSET (1..Len(w)) /\ Enumerates(p, Len(t), K)
    BY <1>2, <1>3, <1>4
  <2> QED BY <1>3, <1>4, <1>5, <2>1, SublistUnique
<1> QED BY <1>6 DEF u, w, t

\* Filtering what passes changes nothing.
LEMMA SublistAll ==
    ASSUME NEW S, NEW s \in Seq(S)
    PROVE  Sublist(s, 1..Len(s)) = s
<1> DEFINE n == Len(s)
           p == [i \in 1..n |-> i]
<1>1. n \in Nat
  OBVIOUS
<1> HIDE DEF n
<1>2. Enumerates(p, n, 1..n)
  BY <1>1 DEF Enumerates
<1>3. \A i \in 1..n : s[i] = s[p[i]]
  OBVIOUS
<1> HIDE DEF p
<1> QED BY <1>2, <1>3, SublistUnique DEF n

\* Two filters, one after the other.
LEMMA KeepKeep ==
    ASSUME NEW S, NEW s \in Seq(S), NEW P, NEW Q
    PROVE  Keep(Keep(s, P), Q) = Keep(s, P \cap Q)
<1> DEFINE u == Keep(s, P)
           w == Keep(u, Q)
           KP == {k \in 1..Len(s) : s[k] \in P}
           KQ == {k \in 1..Len(u) : u[k] \in Q}
           K == {k \in 1..Len(s) : s[k] \in P \cap Q}
<1>1. u = Sublist(s, KP) /\ w = Sublist(u, KQ) /\ Keep(s, P \cap Q) = Sublist(s, K)
  BY DEF Keep
<1>2. KP \in SUBSET (1..Len(s)) /\ K \in SUBSET (1..Len(s))
  OBVIOUS
<1>3. KQ \in SUBSET (1..Len(u))
  OBVIOUS
<1> HIDE DEF u
<1>4. u \in Seq(S) /\ \E p : Enumerates(p, Len(u), KP) /\ \A i \in 1..Len(u) : u[i] = s[p[i]]
  <2> HIDE DEF KP
  <2> QED BY <1>1, <1>2, SublistIs
<1> HIDE DEF w
<1>5. w \in Seq(S) /\ \E q : Enumerates(q, Len(w), KQ) /\ \A i \in 1..Len(w) : w[i] = u[q[i]]
  <2>1. u \in Seq(S)
    BY <1>4
  <2> HIDE DEF KQ
  <2>2. /\ Sublist(u, KQ) \in Seq(S)
        /\ \E q : /\ Enumerates(q, Len(Sublist(u, KQ)), KQ)
                  /\ \A i \in 1..Len(Sublist(u, KQ)) : Sublist(u, KQ)[i] = u[q[i]]
    BY <1>3, <2>1, SublistIs
  <2> QED BY <1>1, <2>2
<1>6. PICK p : Enumerates(p, Len(u), KP) /\ \A i \in 1..Len(u) : u[i] = s[p[i]]
  BY <1>4
<1>7. PICK q : Enumerates(q, Len(w), KQ) /\ \A i \in 1..Len(w) : w[i] = u[q[i]]
  BY <1>5
<1> DEFINE pos == [i \in 1..Len(w) |-> p[q[i]]]
<1>8. /\ \A i \in 1..Len(w) : q[i] \in 1..Len(u) /\ u[q[i]] \in Q
      /\ \A i, j \in 1..Len(w) : i < j => q[i] < q[j]
      /\ \A k \in 1..Len(u) : u[k] \in Q => \E i \in 1..Len(w) : q[i] = k
  BY <1>7 DEF Enumerates
<1>9. /\ \A i \in 1..Len(u) : p[i] \in 1..Len(s) /\ s[p[i]] \in P
      /\ \A i, j \in 1..Len(u) : i < j => p[i] < p[j]
      /\ \A k \in 1..Len(s) : s[k] \in P => \E i \in 1..Len(u) : p[i] = k
  BY <1>6 DEF Enumerates
<1>10. Enumerates(pos, Len(w), K)
  <2>1. \A i \in 1..Len(w) : p[q[i]] \in K
    BY <1>6, <1>8, <1>9
  <2>2. ASSUME NEW i \in 1..Len(w), NEW j \in 1..Len(w), i < j
        PROVE  p[q[i]] < p[q[j]]
    <3>1. q[i] \in 1..Len(u) /\ q[j] \in 1..Len(u) /\ q[i] < q[j]
      BY <1>8, <2>2
    <3> QED BY <1>9, <3>1
  <2>3. ASSUME NEW k \in K PROVE \E i \in 1..Len(w) : p[q[i]] = k
    <3>1. PICK a \in 1..Len(u) : p[a] = k
      BY <1>9
    <3>2. u[a] \in Q
      BY <1>6, <3>1
    <3>3. PICK i \in 1..Len(w) : q[i] = a
      BY <1>8, <3>2
    <3> QED BY <3>1, <3>3
  <2> HIDE DEF K
  <2> QED BY <2>1, <2>2, <2>3 DEF Enumerates
<1>11. \A i \in 1..Len(w) : w[i] = s[pos[i]]
  BY <1>6, <1>7, <1>8
<1> HIDE DEF pos, K
<1>12. w = Sublist(s, K)
  BY <1>2, <1>5, <1>10, <1>11, SublistUnique
<1> QED BY <1>1, <1>12 DEF u, w

\* Filtering the two parts of a list.
LEMMA KeepConcat ==
    ASSUME NEW S, NEW s \in Seq(S), NEW t \in Seq(S), NEW P
    PROVE  Keep(s \o t, P) = Keep(s, P) \o Keep(t, P)
<1> DEFINE st == s \o t
           u == Keep(s, P)
           w == Keep(t, P)
           KU == {k \in 1..Len(s) : s[k] \in P}
           KW == {k \in 1..Len(t) : t[k] \in P}
           K == {k \in 1..Len(st) : st[k] \in P}
           n == Len(s)
           a == Len(u)
           b == Len(w)
           uw == u \o w
<1>1. u = Sublist(s, KU) /\ w = Sublist(t, KW) /\ Keep(st, P) = Sublist(st, K)
  BY DEF Keep
<1>2. /\ KU \in SUBSET (1..Len(s)) /\ KW \in SUBSET (1..Len(t))
      /\ K \in SUBSET (1..Len(st))
  OBVIOUS
<1>3. /\ st \in Seq(S) /\ n \in Nat /\ Len(t) \in Nat /\ Len(st) = n + Len(t)
      /\ \A k \in 1..n : st[k] = s[k]
      /\ \A k \in 1..Len(t) : st[n + k] = t[k]
  OBVIOUS
<1> HIDE DEF u, w, st
<1>4. u \in Seq(S) /\ \E p : Enumerates(p, a, KU) /\ \A i \in 1..a : u[i] = s[p[i]]
  <2> HIDE DEF KU
  <2> QED BY <1>1, <1>2, SublistIs
<1>5. w \in Seq(S) /\ \E q : Enumerates(q, b, KW) /\ \A i \in 1..b : w[i] = t[q[i]]
  <2> HIDE DEF KW
  <2> QED BY <1>1, <1>2, SublistIs
<1>6. PICK p : Enumerates(p, a, KU) /\ \A i \in 1..a : u[i] = s[p[i]]
  BY <1>4
<1>7. PICK q : Enumerates(q, b, KW) /\ \A i \in 1..b : w[i] = t[q[i]]
  BY <1>5
<1>8. /\ \A i \in 1..a : p[i] \in 1..n /\ s[p[i]] \in P
      /\ \A i, j \in 1..a : i < j => p[i] < p[j]
      /\ \A k \in 1..n : s[k] \in P => \E i \in 1..a : p[i] = k
  BY <1>6 DEF Enumerates
<1>9. /\ \A i \in 1..b : q[i] \in 1..Len(t) /\ t[q[i]] \in P
      /\ \A i, j \in 1..b : i < j => q[i] < q[j]
      /\ \A k \in 1..Len(t) : t[k] \in P => \E i \in 1..b : q[i] = k
  BY <1>7 DEF Enumerates
<1>10. /\ a \in Nat /\ b \in Nat /\ uw \in Seq(S) /\ Len(uw) = a + b
       /\ \A i \in 1..a : uw[i] = u[i]
       /\ \A i \in 1..b : uw[a + i] = w[i]
  BY <1>4, <1>5
<1> HIDE DEF n, a, b, uw
<1> DEFINE pos == [i \in 1..(a + b) |-> IF i <= a THEN p[i] ELSE n + q[i - a]]
<1>11. /\ \A i \in 1..a : pos[i] = p[i] /\ pos[i] \in 1..n /\ st[pos[i]] = s[p[i]]
       /\ \A i \in 1..b : /\ pos[a + i] = n + q[i] /\ pos[a + i] \in (n + 1)..(n + Len(t))
                          /\ st[pos[a + i]] = t[q[i]]
  <2>1. ASSUME NEW i \in 1..a
        PROVE  pos[i] = p[i] /\ pos[i] \in 1..n /\ st[pos[i]] = s[p[i]]
    <3>1. pos[i] = p[i]
      BY <1>10
    <3> QED BY <1>3, <1>8, <3>1
  <2>2. ASSUME NEW i \in 1..b
        PROVE  /\ pos[a + i] = n + q[i] /\ pos[a + i] \in (n + 1)..(n + Len(t))
               /\ st[pos[a + i]] = t[q[i]]
    <3>1. a + i \in 1..(a + b) /\ ~(a + i <= a) /\ (a + i) - a = i
      BY <1>10
    <3>2. pos[a + i] = n + q[i]
      BY <3>1
    <3>3. q[i] \in 1..Len(t)
      BY <1>9
    <3> QED BY <1>3, <3>2, <3>3, SMTT(30)
  <2> QED BY <2>1, <2>2
<1>12. \A i \in 1..(a + b) : i \in 1..a \/ \E j \in 1..b : i = a + j
  <2> SUFFICES ASSUME NEW i \in 1..(a + b), i \notin 1..a PROVE \E j \in 1..b : i = a + j
    OBVIOUS
  <2>1. i - a \in 1..b /\ i = a + (i - a)
    BY <1>10
  <2> QED BY <2>1
<1>13. \A k \in 1..Len(st) : k \in 1..n \/ \E j \in 1..Len(t) : k = n + j
  <2> SUFFICES ASSUME NEW k \in 1..Len(st), k \notin 1..n
               PROVE  \E j \in 1..Len(t) : k = n + j
    OBVIOUS
  <2>1. k - n \in 1..Len(t) /\ k = n + (k - n)
    BY <1>3
  <2> QED BY <2>1
<1>d. pos = [i \in 1..(a + b) |-> pos[i]]
  OBVIOUS
<1> HIDE DEF pos
<1>14. Enumerates(pos, a + b, K)
  <2>1. ASSUME NEW i \in 1..(a + b) PROVE pos[i] \in K
    <3>1. CASE i \in 1..a
      <4>1. pos[i] \in 1..n /\ st[pos[i]] \in P
        BY <1>8, <1>11, <3>1
      <4> QED BY <1>3, <4>1
    <3>2. CASE \E j \in 1..b : i = a + j
      <4>1. PICK j \in 1..b : i = a + j
        BY <3>2
      <4>2. pos[i] \in (n + 1)..(n + Len(t)) /\ st[pos[i]] \in P
        BY <1>9, <1>11, <4>1
      <4> QED BY <1>3, <4>2
    <3> QED BY <1>12, <3>1, <3>2
  <2>2. ASSUME NEW i \in 1..(a + b), NEW j \in 1..(a + b), i < j PROVE pos[i] < pos[j]
    <3>1. CASE i \in 1..a /\ j \in 1..a
      BY <1>8, <1>11, <2>2, <3>1
    <3>2. CASE i \in 1..a /\ \E y \in 1..b : j = a + y
      <4>1. PICK y \in 1..b : j = a + y
        BY <3>2
      <4>2. pos[i] \in 1..n
        BY <1>11, <3>2
      <4>3. pos[j] \in (n + 1)..(n + Len(t))
        BY <1>11, <4>1
      <4> QED BY <1>3, <4>2, <4>3
    <3>3. CASE (\E x \in 1..b : i = a + x) /\ \E y \in 1..b : j = a + y
      <4>1. PICK x \in 1..b : i = a + x
        BY <3>3
      <4>2. PICK y \in 1..b : j = a + y
        BY <3>3
      <4>3. x < y
        BY <1>10, <2>2, <4>1, <4>2
      <4>4. q[x] < q[y] /\ q[x] \in Nat /\ q[y] \in Nat
        BY <1>9, <4>3
      <4>5. pos[i] = n + q[x] /\ pos[j] = n + q[y]
        BY <1>11, <4>1, <4>2
      <4> QED BY <1>3, <4>4, <4>5
    <3>4. CASE (\E x \in 1..b : i = a + x) /\ j \in 1..a
      BY <1>10, <2>2, <3>4
    <3> QED BY <1>12, <3>1, <3>2, <3>3, <3>4
  <2>3. ASSUME NEW k \in K PROVE \E i \in 1..(a + b) : pos[i] = k
    <3>1. CASE k \in 1..n
      <4>1. s[k] \in P
        BY <1>3, <3>1
      <4>2. PICK i \in 1..a : p[i] = k
        BY <1>8, <3>1, <4>1
      <4>3. i \in 1..(a + b)
        BY <1>10
      <4> QED BY <1>11, <4>2, <4>3
    <3>2. CASE \E j \in 1..Len(t) : k = n + j
      <4>1. PICK j \in 1..Len(t) : k = n + j
        BY <3>2
      <4>2. t[j] \in P
        BY <1>3, <4>1
      <4>3. PICK i \in 1..b : q[i] = j
        BY <1>9, <4>2
      <4>4. a + i \in 1..(a + b) /\ pos[a + i] = k
        BY <1>10, <1>11, <4>1, <4>3
      <4> QED BY <4>4
    <3> QED BY <1>13, <3>1, <3>2
  <2> HIDE DEF K
  <2>4. pos \in [1..(a + b) -> K]
    BY <1>d, <2>1
  <2> QED BY <2>2, <2>3, <2>4 DEF Enumerates
<1>15. ASSUME NEW i \in 1..(a + b) PROVE uw[i] = st[pos[i]]
  <2>1. CASE i \in 1..a
    BY <1>6, <1>10, <1>11, <2>1
  <2>2. CASE \E j \in 1..b : i = a + j
    <3>1. PICK j \in 1..b : i = a + j
      BY <2>2
    <3>2. uw[a + j] = w[j] /\ w[j] = t[q[j]]
      BY <1>7, <1>10
    <3> HIDE DEF pos
    <3>3. st[pos[a + j]] = t[q[j]]
      BY <1>11
    <3> QED BY <3>1, <3>2, <3>3, Zenon
  <2> QED BY <1>12, <2>1, <2>2
<1> HIDE DEF K
<1>16. uw = Sublist(st, K)
  BY <1>2, <1>3, <1>10, <1>14, <1>15, SublistUnique
<1> QED BY <1>1, <1>16 DEF uw, u, w, st
============================================================================
