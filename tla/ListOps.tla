------------------------------- MODULE ListOps ------------------------------
(* Operations on lists that the planner and the federation are made of.     *)
EXTENDS Integers, Sequences, FiniteSets

\* iter().filter(): the elements at the positions in K, in order.
Sublist(s, K) ==
    LET taken[n \in 0..Len(s)] ==
            IF n = 0 THEN <<>>
            ELSE IF n \in K THEN Append(taken[n - 1], s[n]) ELSE taken[n - 1]
    IN  taken[Len(s)]

\* The elements that belong to a set, in order.
Keep(s, S) == Sublist(s, {k \in 1..Len(s) : s[k] \in S})

\* iter().sum()
SumSeq(s) ==
    LET sum[n \in 0..Len(s)] == IF n = 0 THEN 0 ELSE sum[n - 1] + s[n]
    IN  sum[Len(s)]

\* f lists the elements of S, each after the ones that are before it.
Sorts(f, S, before) ==
    /\ \A x \in S : \E i \in DOMAIN f : f[i] = x
    /\ \A i, j \in DOMAIN f : i < j => <<f[i], f[j]>> \in before

\* sort(), for the pairs of a strict total order on S.
SortedBy(S, before) == CHOOSE f \in [1..Cardinality(S) -> S] : Sorts(f, S, before)
============================================================================
