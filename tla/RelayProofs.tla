---------------------------- MODULE RelayProofs ----------------------------
(***************************************************************************)
(* Theorems about the stack of federations and the relay of coins, for     *)
(* every set of signers and networks, every offer of founders, lists and   *)
(* configurations, and every bound.                                        *)
(***************************************************************************)
EXTENDS Relay, DescriptorProofs

----------------------------------------------------------------------------
(* Mutations                                                               *)

\* The filters of remove_signer and of the roster arithmetic give lists of
\* what the list they filter holds.
LEMMA FilterType ==
    ASSUME NEW S, NEW s \in Seq(S)
    PROVE  /\ Distinct(s) \in Seq(S)
           /\ \A other : Without(s, other) \in Seq(S)
<1>1. DOMAIN s = 1..Len(s)
  OBVIOUS
<1>2. Distinct(s) \in Seq(S)
  <2> DEFINE K == {k \in DOMAIN s : \A j \in 1..(k - 1) : s[j] # s[k]}
  <2>1. K \in SUBSET (1..Len(s))
    BY <1>1
  <2> HIDE DEF K
  <2>2. Sublist(s, K) \in Seq(S)
    BY <2>1, SublistIs
  <2> QED BY <2>2 DEF Distinct, K
<1>3. ASSUME NEW other PROVE Without(s, other) \in Seq(S)
  <2> DEFINE K == {k \in DOMAIN s : s[k] \notin ToSet(other)}
  <2>1. K \in SUBSET (1..Len(s))
    BY <1>1
  <2> HIDE DEF K
  <2>2. Sublist(s, K) \in Seq(S)
    BY <2>1, SublistIs
  <2> QED BY <2>2 DEF Without, K
<1> QED BY <1>2, <1>3

\* Every mutation of a good federation gives an error or a good federation.
LEMMA MutationsGood ==
    ASSUME NEW f, GoodFed(f)
    PROVE  /\ \A old, new \in Signer : GoodResult(rotate_signer(f, old.id, new))
           /\ \A new \in Signer : GoodResult(add_signer(f, new))
           /\ \A s \in Signer : GoodResult(remove_signer(f, s.id))
           /\ \A m \in Nat : GoodResult(change_threshold(f, m))
<1>1. f.signers \in Seq(Signer) /\ f.threshold \in Nat
  BY DEF GoodFed
<1>2. ASSUME NEW old \in Signer, NEW new \in Signer
      PROVE  GoodResult(rotate_signer(f, old.id, new))
  <2> DEFINE ss == [k \in DOMAIN f.signers |->
                        IF f.signers[k].id = old.id THEN new ELSE f.signers[k]]
  <2>1. ss \in Seq(Signer)
    BY <1>1
  <2> HIDE DEF ss
  <2>2. GoodResult(WithConfig(f.threshold, ss, ConfigOf(f)))
    BY <1>1, <2>1, WithConfigResult
  <2> QED BY <2>2, FailedGood DEF rotate_signer, ss
<1>3. ASSUME NEW new \in Signer PROVE GoodResult(add_signer(f, new))
  <2> DEFINE ss == Append(f.signers, new)
  <2>1. ss \in Seq(Signer)
    BY <1>1
  <2> HIDE DEF ss
  <2>2. GoodResult(WithConfig(f.threshold, ss, ConfigOf(f)))
    BY <1>1, <2>1, WithConfigResult
  <2> QED BY <2>2, FailedGood DEF add_signer, ss
<1>4. ASSUME NEW s \in Signer PROVE GoodResult(remove_signer(f, s.id))
  <2> DEFINE K == {k \in DOMAIN f.signers : f.signers[k].id # s.id}
  <2>1. K \in SUBSET (1..Len(f.signers))
    BY <1>1
  <2> HIDE DEF K
  <2>2. Sublist(f.signers, K) \in Seq(Signer)
    BY <1>1, <2>1, SublistIs
  <2>3. GoodResult(WithConfig(f.threshold, Sublist(f.signers, K), ConfigOf(f)))
    BY <1>1, <2>2, WithConfigResult
  <2> QED BY <2>3, FailedGood DEF remove_signer, K
<1>5. ASSUME NEW m \in Nat PROVE GoodResult(change_threshold(f, m))
  BY <1>1, WithConfigResult DEF change_threshold
<1> QED BY <1>2, <1>3, <1>4, <1>5

\* A federation built from an approved roster plan is good: every member of
\* the plan is a signer of the current federation or a joining one.
LEMMA RosterGood ==
    ASSUME GoodFed(Current), NEW add \in Seq(Signer), NEW remove, NEW m \in Nat
    PROVE  GoodResult(RosterResult(add, remove, m))
<1> DEFINE cur == Current.signers
           ids(l) == [k \in DOMAIN l |-> l[k].id]
           I == Ids(cur) \cup Ids(add)
           next == next_members(ids(cur), ids(add), ids(remove))
           plan == compute_roster_plan(ids(cur), ids(add), ids(remove))
           ss == [k \in DOMAIN next |-> SignerOf(next[k], add)]
<1>1. cur \in Seq(Signer)
  BY DEF GoodFed
<1> HIDE DEF cur
<1>2. ids(cur) \in Seq(I) /\ ids(add) \in Seq(I)
  BY <1>1 DEF Ids
<1>3. \A id \in I : SignerOf(id, add) \in Signer
  <2> SUFFICES ASSUME NEW id \in I PROVE SignerOf(id, add) \in Signer
    OBVIOUS
  <2> DEFINE known == ToSet(cur) \cup ToSet(add)
  <2>1. known \in SUBSET Signer
    BY <1>1, RosterFinite
  <2>2. \E s \in known : s.id = id
    BY <1>1 DEF Ids, ToSet
  <2>3. SignerOf(id, add) = CHOOSE s \in known : s.id = id
    BY DEF SignerOf, cur
  <2> HIDE DEF known
  <2> QED BY <2>1, <2>2, <2>3
<1> HIDE DEF I, ids
<1>4. next \in Seq(I)
  <2> DEFINE kept == Without(Distinct(ids(cur)), ids(remove))
             new == Distinct(Without(ids(add), ids(cur)))
  <2>1. kept \in Seq(I)
    BY <1>2, FilterType
  <2>2. new \in Seq(I)
    BY <1>2, FilterType
  <2>3. next = kept \o new
    BY DEF next_members
  <2> HIDE DEF kept, new, next
  <2> QED BY <2>1, <2>2, <2>3
<1> HIDE DEF next
<1>5. ss \in Seq(Signer)
  BY <1>3, <1>4
<1>6. \/ plan.err # "Ok" /\ plan.fed = <<>>
      \/ plan.err = "Ok" /\ plan.next = next
  BY DEF compute_roster_plan, Failed, next
<1> HIDE DEF ss, plan
<1>7. RosterResult(add, remove, m) =
        IF plan.err # "Ok" THEN plan
        ELSE IF validate_threshold(m, Len(plan.next)) # "Ok"
        THEN Failed("BadThreshold")
        ELSE WithConfig(m, [k \in DOMAIN plan.next |-> SignerOf(plan.next[k], add)],
                        ConfigOf(Current))
  BY DEF RosterResult, plan, ids, cur
<1>8. CASE plan.err # "Ok"
  BY <1>6, <1>7, <1>8 DEF GoodResult
<1>9. CASE plan.err = "Ok"
  <2>1. GoodResult(WithConfig(m, ss, ConfigOf(Current)))
    BY <1>5, WithConfigResult
  <2>2. \/ RosterResult(add, remove, m) = Failed("BadThreshold")
        \/ RosterResult(add, remove, m) = WithConfig(m, ss, ConfigOf(Current))
    BY <1>6, <1>7, <1>9 DEF ss
  <2> QED BY <2>1, <2>2, FailedGood
<1> QED BY <1>8, <1>9

----------------------------------------------------------------------------
(* One method at a time                                                    *)

\* What a sequence of calls may lead to: f itself, an error, or what with_config
\* makes of some roster and threshold.
Results(f) ==
    {[err |-> "Ok", fed |-> <<f>>]}
        \cup {WithConfig(t, l, ConfigOf(f)) : t \in Nat, l \in Seq(Signer)}
        \cup {Failed("DuplicateSigner"), Failed("SignerNotFound")}

\* A mutation keeps the network, the key mode and the script type.
LEMMA FedKeeps ==
    ASSUME NEW t, NEW l, NEW f
    PROVE  LET g == Fed(t, l, ConfigOf(f))
           IN  g.threshold = t /\ g.signers = l /\ ConfigOf(g) = ConfigOf(f)
BY DEF Fed, ConfigOf, Config

\* with_config: the error, or the federation.
LEMMA WithConfigIs ==
    ASSUME NEW t, NEW l, NEW f
    PROVE  LET c == ConfigOf(f)
               r == WithConfig(t, l, c)
           IN  /\ r.err = ConfigError(t, l, c)
               /\ r.err = "Ok" => /\ r.fed = <<Fed(t, l, c)>>
                                  /\ r.fed[1].threshold = t /\ r.fed[1].signers = l
                                  /\ ConfigOf(r.fed[1]) = c
<1> DEFINE c == ConfigOf(f)
           e == ConfigError(t, l, c)
           r == WithConfig(t, l, c)
           g == Fed(t, l, c)
<1>1. r = IF e = "Ok" THEN [err |-> "Ok", fed |-> <<g>>] ELSE [err |-> e, fed |-> <<>>]
  BY DEF WithConfig
<1>2. g.threshold = t /\ g.signers = l /\ ConfigOf(g) = c
  BY FedKeeps
<1> HIDE DEF c, e, g, r
<1>3. r.err = e
  BY <1>1
<1>4. r.err = "Ok" => r.fed = <<g>> /\ r.fed[1] = g
  BY <1>1, <1>3
<1>5. /\ r.err = e
      /\ r.err = "Ok" => /\ r.fed = <<g>>
                         /\ r.fed[1].threshold = t /\ r.fed[1].signers = l
                         /\ ConfigOf(r.fed[1]) = c
  BY <1>2, <1>3, <1>4
<1> QED BY <1>5 DEF c, e, g, r

\* Where the calls went well there is a federation that differs from f in its
\* roster and its threshold.
LEMMA ResultFed ==
    ASSUME NEW f, f.signers \in Seq(Signer), f.threshold \in Nat,
           NEW r \in Results(f), r.err = "Ok"
    PROVE  /\ r.fed[1].signers \in Seq(Signer) /\ r.fed[1].threshold \in Nat
           /\ ConfigOf(r.fed[1]) = ConfigOf(f)
<1>1. CASE r = [err |-> "Ok", fed |-> <<f>>]
  <2>1. r.fed[1] = f
    BY <1>1
  <2> QED BY <2>1
<1>2. CASE r \in {WithConfig(t, l, ConfigOf(f)) : t \in Nat, l \in Seq(Signer)}
  <2>1. PICK t \in Nat, l \in Seq(Signer) : r = WithConfig(t, l, ConfigOf(f))
    BY <1>2
  <2> QED BY <2>1, WithConfigIs
<1>3. CASE r \in {Failed("DuplicateSigner"), Failed("SignerNotFound")}
  BY <1>3 DEF Failed
<1> QED BY <1>1, <1>2, <1>3 DEF Results

\* remove_signer filters the roster by id.
LEMMA RemoveIs ==
    ASSUME NEW l \in Seq(Signer), NEW id
    PROVE  Sublist(l, {k \in DOMAIN l : l[k].id # id}) = Keep(l, {s \in Signer : s.id # id})
<1>1. DOMAIN l = 1..Len(l) /\ \A k \in 1..Len(l) : l[k] \in Signer
  OBVIOUS
<1>2. {k \in DOMAIN l : l[k].id # id} = {k \in 1..Len(l) : l[k] \in {s \in Signer : s.id # id}}
  BY <1>1
<1> QED BY <1>2 DEF Keep

\* A filtered roster is a roster.
LEMMA KeepType ==
    ASSUME NEW S, NEW l \in Seq(S), NEW P
    PROVE  Keep(l, P) \in Seq(S)
<1> DEFINE K == {k \in 1..Len(l) : l[k] \in P}
<1>1. K \in SUBSET (1..Len(l))
  OBVIOUS
<1> HIDE DEF K
<1>2. Sublist(l, K) \in Seq(S)
  BY <1>1, SublistIs
<1> QED BY <1>2 DEF Keep, K

\* A call leads from a result to a result.
LEMMA CallResult ==
    ASSUME NEW f, f.signers \in Seq(Signer), f.threshold \in Nat,
           NEW r \in Results(f), NEW op, NEW s \in Signer
    PROVE  AndThen(r, Method(op, r.fed[1], s)) \in Results(f)
<1> DEFINE g == r.fed[1]
           c == ConfigOf(f)
<1> SUFFICES ASSUME r.err = "Ok" PROVE Method(op, g, s) \in Results(f)
  BY DEF AndThen
<1>1. g.signers \in Seq(Signer) /\ g.threshold \in Nat /\ ConfigOf(g) = c
  BY ResultFed
<1> HIDE DEF g, c
<1>2. \A t \in Nat, l \in Seq(Signer) : WithConfig(t, l, c) \in Results(f)
  BY DEF Results, c
<1>3. Failed("DuplicateSigner") \in Results(f) /\ Failed("SignerNotFound") \in Results(f)
  BY DEF Results
<1>4. add_signer(g, s) \in Results(f)
  <2> DEFINE l == Append(g.signers, s)
  <2>1. l \in Seq(Signer)
    BY <1>1
  <2> HIDE DEF l
  <2>2. WithConfig(g.threshold, l, c) \in Results(f)
    BY <1>1, <1>2, <2>1
  <2> QED BY <1>1, <1>3, <2>2, Zenon DEF add_signer, l
<1>5. remove_signer(g, s.id) \in Results(f)
  <2> DEFINE l == Sublist(g.signers, {k \in DOMAIN g.signers : g.signers[k].id # s.id})
             P == {x \in Signer : x.id # s.id}
  <2>k. l = Keep(g.signers, P)
    BY <1>1, RemoveIs
  <2> HIDE DEF l, P
  <2>1. l \in Seq(Signer)
    BY <1>1, <2>k, KeepType
  <2>2. WithConfig(g.threshold, l, c) \in Results(f)
    BY <1>1, <1>2, <2>1
  <2> QED BY <1>1, <1>3, <2>2, Zenon DEF remove_signer, l
<1> QED BY <1>4, <1>5 DEF Method

InTurnRun(after, op, r, list, X) ==
    /\ after \in [0..Len(list) -> X]
    /\ after[0] = r
    /\ \A n \in 1..Len(list) :
        after[n] = AndThen(after[n - 1], Method(op, after[n - 1].fed[1], list[n]))
    /\ InTurn(op, r, list) = after[Len(list)]

\* The results of the calls, one after the other.
LEMMA InTurnSteps ==
    ASSUME NEW f, f.signers \in Seq(Signer), f.threshold \in Nat,
           NEW r \in Results(f), NEW op, NEW list \in Seq(Signer)
    PROVE  \E after : InTurnRun(after, op, r, list, Results(f))
<1> DEFINE N == Len(list)
           X == Results(f)
           Call(n, x) == AndThen(x, Method(op, x.fed[1], list[n]))
           Def(g) == [n \in 0..N |-> IF n = 0 THEN r
                        ELSE AndThen(g[n - 1], Method(op, g[n - 1].fed[1], list[n]))]
           step == [p \in (1..N) \X X |-> Call(p[1], p[2])]
           T == CHOOSE g : g = Def(g)
<1>1. N \in Nat /\ r \in X /\ \A n \in 1..N : list[n] \in Signer
  OBVIOUS
<1>2. \A n \in 1..N, x \in X : Call(n, x) \in X
  BY <1>1, CallResult
<1>3. InTurn(op, r, list) = T[N]
  BY DEF InTurn
<1>4. \A g : Def(g) = [n \in 0..N |-> IF n = 0 THEN r ELSE Call(n, g[n - 1])]
  OBVIOUS
<1> HIDE DEF N, X, Call, Def
<1>5. step \in [(1..N) \X X -> X] /\ \A n \in 1..N, x \in X : step[<<n, x>>] = Call(n, x)
  BY <1>2
<1> HIDE DEF step
<1>r. PICK h : Recurses(h, N, X, r, step)
  BY <1>1, <1>5, RecursionExists
<1>6. h \in [0..N -> X] /\ h[0] = r /\ \A n \in 1..N : h[n] = step[<<n, h[n - 1]>>]
  BY <1>r DEF Recurses
<1>7. \A n \in 1..N : h[n - 1] \in X
  BY <1>1, <1>6
<1>8. \A n \in 1..N : h[n] = Call(n, h[n - 1])
  BY <1>5, <1>6, <1>7
<1>9. ASSUME NEW n \in 0..N
      PROVE  h[n] = IF n = 0 THEN r ELSE Call(n, h[n - 1])
  <2>1. CASE n = 0
    BY <1>6, <2>1
  <2>2. CASE n # 0
    <3>1. n \in 1..N
      BY <1>1, <2>2
    <3> QED BY <1>8, <2>2, <3>1
  <2> QED BY <2>1, <2>2
<1>10. h = Def(h)
  BY <1>4, <1>6, <1>9
<1>11. T = Def(T)
  BY <1>10
<1> HIDE DEF T
<1>12. \A n \in 0..N : T[n] = IF n = 0 THEN r ELSE Call(n, T[n - 1])
  <2>1. T = [n \in 0..N |-> IF n = 0 THEN r ELSE Call(n, T[n - 1])]
    BY <1>4, <1>11
  <2> QED BY <2>1
<1>13. \A n \in 0..N : T[n] = h[n]
  <2> DEFINE A == {n \in 0..N : T[n] = h[n]}
  <2>1. 0 \in A
    BY <1>1, <1>6, <1>12
  <2>2. ASSUME NEW n \in 1..N, n - 1 \in A PROVE n \in A
    <3>1. n \in 0..N /\ n # 0
      BY <1>1
    <3>2. T[n] = Call(n, T[n - 1])
      BY <1>12, <3>1
    <3> QED BY <1>8, <2>2, <3>1, <3>2
  <2> HIDE DEF A
  <2>3. 0..N \subseteq A
    BY <1>1, <2>1, <2>2, UpToInduction
  <2> QED BY <2>3 DEF A
<1>14. InTurn(op, r, list) = h[N]
  BY <1>1, <1>3, <1>13
<1>15. \A n \in 1..N : h[n] = AndThen(h[n - 1], Method(op, h[n - 1].fed[1], list[n]))
  BY <1>8 DEF Call
<1>16. InTurnRun(h, op, r, list, X)
  BY <1>6, <1>14, <1>15 DEF InTurnRun, N
<1> QED BY <1>16 DEF X

FirstOf(T, k) == [i \in 1..k |-> T[i]]

\* A list grows by one element at a time.
LEMMA FirstFacts ==
    ASSUME NEW S, NEW T \in Seq(S)
    PROVE  /\ \A k \in 0..Len(T) : FirstOf(T, k) \in Seq(S) /\ Len(FirstOf(T, k)) = k
           /\ \A k \in 1..Len(T) : Append(FirstOf(T, k - 1), T[k]) = FirstOf(T, k)
           /\ FirstOf(T, Len(T)) = T
<1>1. Len(T) \in Nat /\ DOMAIN T = 1..Len(T) /\ \A i \in 1..Len(T) : T[i] \in S
  OBVIOUS
<1>2. \A k \in 0..Len(T) : FirstOf(T, k) \in Seq(S) /\ Len(FirstOf(T, k)) = k
  BY <1>1 DEF FirstOf
<1>3. ASSUME NEW k \in 1..Len(T) PROVE Append(FirstOf(T, k - 1), T[k]) = FirstOf(T, k)
  <2> DEFINE u == FirstOf(T, k - 1)
             w == FirstOf(T, k)
             x == T[k]
  <2>0. k - 1 \in 0..Len(T) /\ k \in 0..Len(T)
    BY <1>1
  <2>1. u \in Seq(S) /\ Len(u) = k - 1 /\ w \in Seq(S) /\ Len(w) = k /\ x \in S
    BY <1>1, <1>2, <2>0
  <2>2. (\A i \in 1..(k - 1) : u[i] = w[i]) /\ w[k] = x
    BY <1>1 DEF FirstOf
  <2> HIDE DEF u, w, x
  <2> QED BY <1>1, <2>1, <2>2 DEF u, w, x
<1>4. FirstOf(T, Len(T)) = T
  BY <1>1 DEF FirstOf
<1> QED BY <1>2, <1>3, <1>4

\* Adding signers one at a time: they are appended in order, none of them was a
\* member, and with nothing else wrong with them only equal keys, or too many, can
\* be in the way.
LEMMA AddsInTurn ==
    ASSUME NEW f, GoodFed(f), NEW list \in Seq(Signer)
    PROVE  LET r == InTurn("add", [err |-> "Ok", fed |-> <<f>>], list)
               T == f.signers \o list
           IN  /\ r \in Results(f)
               /\ r.err = "Ok" =>
                    /\ r.fed[1].signers = T /\ r.fed[1].threshold = f.threshold
                    /\ \A i \in 1..Len(list) : list[i].id \notin Ids(f.signers)
               /\ IsBitcoin(f.network) /\ DistinctIds(T) /\ SignersFit(T, f.network)
                    => r.err \in Tolerated(Len(T), ConfigOf(f))
<1> DEFINE r0 == [err |-> "Ok", fed |-> <<f>>]
           r == InTurn("add", r0, list)
           ss == f.signers
           T == ss \o list
           N == Len(list)
           a == Len(ss)
           Fine == IsBitcoin(f.network) /\ DistinctIds(T) /\ SignersFit(T, f.network)
<1>1. f.signers \in Seq(Signer) /\ f.threshold \in Nat /\ f.threshold \in 1..a /\ a >= 2
  BY DEF GoodFed
<1>2. r0 \in Results(f)
  BY DEF Results
<1>3. PICK after : InTurnRun(after, "add", r0, list, Results(f))
  BY <1>1, <1>2, InTurnSteps
<1>4. /\ after \in [0..N -> Results(f)] /\ after[0] = r0 /\ r = after[N]
      /\ \A n \in 1..N : after[n] = AndThen(after[n - 1],
                                            add_signer(after[n - 1].fed[1], list[n]))
  BY <1>3 DEF InTurnRun, Method
<1>5. /\ T \in Seq(Signer) /\ N \in Nat /\ a \in Nat /\ Len(T) = a + N
      /\ \A i \in 1..a : T[i] = ss[i]
      /\ \A n \in 1..N : T[a + n] = list[n] /\ list[n] \in Signer
  BY <1>1
<1>6. FirstOf(T, a) = ss
  <2>1. ss = [i \in 1..a |-> ss[i]]
    BY <1>1, SMTT(30)
  <2> HIDE DEF T, a, ss
  <2> QED BY <1>5, <2>1 DEF FirstOf
<1>f. /\ \A k \in 1..Len(T) : /\ FirstOf(T, k) \in Seq(Signer) /\ Len(FirstOf(T, k)) = k
                             /\ Append(FirstOf(T, k - 1), T[k]) = FirstOf(T, k)
      /\ FirstOf(T, Len(T)) = T
  <2> HIDE DEF T
  <2>1. T \in Seq(Signer) /\ \A k \in 1..Len(T) : k \in 0..Len(T)
    BY <1>5
  <2>2. /\ \A k \in 0..Len(T) : FirstOf(T, k) \in Seq(Signer) /\ Len(FirstOf(T, k)) = k
        /\ \A k \in 1..Len(T) : Append(FirstOf(T, k - 1), T[k]) = FirstOf(T, k)
        /\ FirstOf(T, Len(T)) = T
    BY <2>1, FirstFacts
  <2> QED BY <2>1, <2>2
<1>r. r0.err = "Ok" /\ r0.fed[1] = f
  OBVIOUS
<1> HIDE DEF r, r0, T, N, a, ss
<1> DEFINE Inv(n) == /\ after[n].err = "Ok" =>
                          /\ after[n].fed[1].signers = FirstOf(T, a + n)
                          /\ after[n].fed[1].threshold = f.threshold
                          /\ \A i \in 1..n : list[i].id \notin Ids(ss)
                     /\ Fine => after[n].err \in Tolerated(Len(T), ConfigOf(f))
           A == {n \in 0..N : Inv(n)}
<1>7. 0 \in A
  <2>1. a + 0 = a
    BY <1>5
  <2>2. after[0].err = "Ok" /\ after[0].fed[1] = f
    BY <1>4, <1>r
  <2>3. "Ok" \in Tolerated(Len(T), ConfigOf(f))
    BY DEF Tolerated
  <2> HIDE DEF Fine
  <2> QED BY <1>5, <1>6, <2>1, <2>2, <2>3 DEF ss
<1>8. ASSUME NEW n \in 1..N, n - 1 \in A PROVE n \in A
  <2> DEFINE p == after[n - 1]
             g == p.fed[1]
             s == list[n]
             k == a + n
             l == FirstOf(T, k)
             q == after[n]
  <2>1. q = AndThen(p, add_signer(g, s)) /\ p \in Results(f)
    <3>1. n - 1 \in 0..N
      BY <1>5
    <3>2. p \in Results(f)
      BY <1>4, <3>1
    <3> QED BY <1>4, <3>2
  <2>2. n \in 0..N /\ n - 1 \in 0..N /\ n \in Nat /\ k \in 1..Len(T) /\ k - 1 = a + (n - 1)
    BY <1>5
  <2>3. l \in Seq(Signer) /\ Len(l) = k /\ Append(FirstOf(T, k - 1), T[k]) = l
    BY <1>f, <2>2
  <2>4. T[k] = s /\ s \in Signer
    BY <1>5
  <2>5. CASE p.err # "Ok"
    <3>1. q = p
      BY <2>1, <2>5 DEF AndThen
    <3>2. Inv(n - 1)
      BY <1>8
    <3>3. q.err # "Ok" /\ (Fine => q.err \in Tolerated(Len(T), ConfigOf(f)))
      <4> HIDE DEF Fine
      <4> QED BY <2>5, <3>1, <3>2
    <3> HIDE DEF Fine
    <3> QED BY <2>2, <3>3
  <2>6. CASE p.err = "Ok"
    <3>1. /\ g.signers = FirstOf(T, k - 1) /\ g.threshold = f.threshold
          /\ \A i \in 1..(n - 1) : list[i].id \notin Ids(ss)
      <4>1. Inv(n - 1)
        BY <1>8
      <4> HIDE DEF Fine
      <4> QED BY <2>2, <2>6, <4>1
    <3>2. ConfigOf(g) = ConfigOf(f)
      BY <1>1, <2>1, <2>6, ResultFed
    <3> DEFINE w == WithConfig(f.threshold, l, ConfigOf(f))
    <3>3. add_signer(g, s) = IF contains(g, s.id) THEN Failed("DuplicateSigner") ELSE w
      BY <2>3, <2>4, <3>1, <3>2 DEF add_signer
    <3>4. q = IF contains(g, s.id) THEN Failed("DuplicateSigner") ELSE w
      BY <2>1, <2>6, <3>3 DEF AndThen
    <3>5. /\ w.err = ConfigError(f.threshold, l, ConfigOf(f))
          /\ w.err = "Ok" => w.fed[1].signers = l /\ w.fed[1].threshold = f.threshold
      BY WithConfigIs
    <3> HIDE DEF w
    <3>6. ASSUME q.err = "Ok"
          PROVE  /\ q.fed[1].signers = l /\ q.fed[1].threshold = f.threshold
                 /\ \A i \in 1..n : list[i].id \notin Ids(ss)
      <4>1. ~contains(g, s.id)
        BY <3>4, <3>6 DEF Failed
      <4>2. Ids(ss) \subseteq Ids(g.signers)
        <5>1. \A i \in 1..a : i \in 1..(k - 1) /\ T[i] = ss[i]
          BY <1>5, <2>2
        <5>2. DOMAIN ss = 1..a
          BY <1>1 DEF ss, a
        <5> QED BY <3>1, <5>1, <5>2 DEF Ids, FirstOf
      <4>3. s.id \notin Ids(ss)
        BY <4>1, <4>2 DEF contains
      <4>4. \A i \in 1..n : i \in 1..(n - 1) \/ i = n
        BY <2>2
      <4> QED BY <3>1, <3>4, <3>5, <3>6, <4>1, <4>3, <4>4
    <3>7. ASSUME Fine PROVE q.err \in Tolerated(Len(T), ConfigOf(f))
      <4>1. ~contains(g, s.id)
        <5> SUFFICES ASSUME NEW i \in 1..(k - 1), T[i].id = s.id PROVE FALSE
          BY <3>1 DEF contains, Ids, FirstOf
        <5>1. i \in 1..Len(T) /\ i # k
          BY <2>2
        <5> QED BY <2>2, <2>4, <3>7, <5>1 DEF DistinctIds
      <4>2. \A i \in 1..k : i \in 1..Len(T) /\ l[i] = T[i]
        BY <2>2 DEF FirstOf
      <4>3. DistinctIds(l) /\ SignersFit(l, f.network)
        BY <2>3, <3>7, <4>2 DEF DistinctIds, SignersFit
      <4>4. f.threshold \in 1..Len(l) /\ Len(l) >= 2
        BY <1>1, <1>5, <2>2, <2>3, SMTT(30)
      <4>5. ConfigOf(f).network = f.network
        BY DEF ConfigOf, Config
      <4>6. ConfigError(f.threshold, l, ConfigOf(f)) \in Tolerated(Len(T), ConfigOf(f))
        <5>1. ConfigError(f.threshold, l, ConfigOf(f)) \in Tolerated(Len(l), ConfigOf(f))
          BY <2>3, <3>7, <4>3, <4>4, <4>5, ConfigErrorIs
        <5>2. Len(l) \in Nat /\ Len(T) \in Nat /\ Len(l) <= Len(T)
          BY <1>5, <2>2, <2>3, SMTT(30)
        <5> QED BY <5>1, <5>2, ToleratedMore
      <4> QED BY <3>4, <3>5, <4>1, <4>6
    <3> HIDE DEF Fine
    <3> QED BY <2>2, <3>6, <3>7
  <2> QED BY <2>5, <2>6
<1> HIDE DEF A
<1>9. 0..N \subseteq A
  BY <1>5, <1>7, <1>8, UpToInduction
<1>10. Inv(N) /\ after[N] \in Results(f)
  BY <1>4, <1>5, <1>9 DEF A
<1>11. FirstOf(T, a + N) = T
  BY <1>5, <1>f
<1> HIDE DEF Fine
<1>12. /\ r \in Results(f)
       /\ r.err = "Ok" => /\ r.fed[1].signers = T /\ r.fed[1].threshold = f.threshold
                          /\ \A i \in 1..N : list[i].id \notin Ids(ss)
       /\ Fine => r.err \in Tolerated(Len(T), ConfigOf(f))
  BY <1>4, <1>10, <1>11
<1> QED BY <1>12 DEF Fine, r, r0, T, N, ss

\* The signers that none of the first n removals is about.
Staying(list, n) == {s \in Signer : \A j \in 1..n : s.id # list[j].id}

\* What is true of every signer of a roster is true of a filtered one, which is
\* not longer.
LEMMA KeepRoster ==
    ASSUME NEW T \in Seq(Signer), DistinctIds(T), NEW P
    PROVE  /\ Keep(T, P) \in Seq(Signer) /\ ToSet(Keep(T, P)) = ToSet(T) \cap P
           /\ DistinctIds(Keep(T, P)) /\ Len(Keep(T, P)) <= Len(T)
           /\ \A net : SignersFit(T, net) => SignersFit(Keep(T, P), net)
<1> DEFINE u == Keep(T, P)
<1>1. DOMAIN T = 1..Len(T) /\ \A i \in 1..Len(T) : T[i] \in Signer
  OBVIOUS
<1>2. IsInjective(T)
  BY <1>1 DEF IsInjective, DistinctIds
<1>3. u \in Seq(Signer) /\ IsInjective(u) /\ ToSet(u) = ToSet(T) \cap P
  BY <1>2, KeepIs
<1> HIDE DEF u
<1>4. DOMAIN u = 1..Len(u) /\ Len(u) \in Nat /\ Len(T) \in Nat
  BY <1>3
<1>5. \A i \in 1..Len(u) : u[i] \in ToSet(T)
  BY <1>3, <1>4 DEF ToSet
<1>6. \A x, y \in ToSet(T) : x.id = y.id => x = y
  BY SignerNumbers
<1>7. DistinctIds(u)
  BY <1>3, <1>4, <1>5, <1>6 DEF DistinctIds, IsInjective
<1>8. Len(u) <= Len(T)
  <2>1. IsFiniteSet(ToSet(T)) /\ Cardinality(ToSet(T)) = Len(T) /\ Cardinality(ToSet(u)) = Len(u)
    BY <1>2, <1>3, InjectiveLength
  <2>2. ToSet(u) \subseteq ToSet(T)
    BY <1>3
  <2> QED BY <2>1, <2>2, FS_Subset
<1>9. ASSUME NEW net, SignersFit(T, net) PROVE SignersFit(u, net)
  <2> SUFFICES ASSUME NEW k \in 1..Len(u)
               PROVE  /\ net \in u[k].networks
                      /\ IsBitcoin(net) => u[k].kind = NetworkKind(net)
    BY DEF SignersFit
  <2>1. PICK i \in 1..Len(T) : T[i] = u[k]
    BY <1>1, <1>5 DEF ToSet
  <2> QED BY <1>9, <2>1 DEF SignersFit
<1> QED BY <1>3, <1>7, <1>8, <1>9 DEF u

\* One more removal.
LEMMA StayingSteps ==
    ASSUME NEW list, NEW n \in Nat \ {0}
    PROVE  /\ Staying(list, 0) = Signer
           /\ Staying(list, n) = Staying(list, n - 1) \cap {s \in Signer : s.id # list[n].id}
<1>1. \A j \in 1..n : j \in 1..(n - 1) \/ j = n
  OBVIOUS
<1>2. n \in 1..n /\ \A j \in 1..(n - 1) : j \in 1..n
  OBVIOUS
<1>3. 1..0 = {}
  OBVIOUS
<1> QED BY <1>1, <1>2, <1>3 DEF Staying

\* A filter that everything passes.
LEMMA KeepAll ==
    ASSUME NEW S, NEW s \in Seq(S), NEW P, \A i \in 1..Len(s) : s[i] \in P
    PROVE  Keep(s, P) = s
<1>1. {k \in 1..Len(s) : s[k] \in P} = 1..Len(s)
  OBVIOUS
<1> QED BY <1>1, SublistAll DEF Keep

\* Removing signers one at a time: what is left is what one filter leaves, each
\* of them was a member, and if enough signers are left only equal keys, or too
\* many, can be in the way.
LEMMA RemovesInTurn ==
    ASSUME NEW f, GoodFed(f), NEW T \in Seq(Signer), NEW m \in Nat,
           NEW list \in Seq(Signer), WithConfig(m, T, ConfigOf(f)).err = "Ok"
    PROVE  LET r == InTurn("remove", WithConfig(m, T, ConfigOf(f)), list)
               L == Keep(T, Staying(list, Len(list)))
           IN  /\ r.err = "Ok" => /\ r = WithConfig(m, L, ConfigOf(f))
                                  /\ \A i \in 1..Len(list) : list[i].id \in Ids(T)
               /\ /\ IsBitcoin(f.network) /\ DistinctIds(list) /\ Len(L) >= 2 /\ m <= Len(L)
                  /\ \A i \in 1..Len(list) : list[i].id \in Ids(T)
                  => r.err \in Tolerated(Len(T), ConfigOf(f))
<1> DEFINE c == ConfigOf(f)
           r0 == WithConfig(m, T, c)
           r == InTurn("remove", r0, list)
           N == Len(list)
           L(n) == Keep(T, Staying(list, n))
           Fine == /\ IsBitcoin(f.network) /\ DistinctIds(list)
                   /\ Len(L(N)) >= 2 /\ m <= Len(L(N))
                   /\ \A i \in 1..N : list[i].id \in Ids(T)
<1>1. f.signers \in Seq(Signer) /\ f.threshold \in Nat
  BY DEF GoodFed
<1>2. r0 \in Results(f)
  BY DEF Results
<1>3. PICK after : InTurnRun(after, "remove", r0, list, Results(f))
  BY <1>1, <1>2, InTurnSteps
<1>4. /\ after \in [0..N -> Results(f)] /\ after[0] = r0 /\ r = after[N]
      /\ \A n \in 1..N : after[n] = AndThen(after[n - 1],
                                            remove_signer(after[n - 1].fed[1], list[n].id))
  BY <1>3 DEF InTurnRun, Method
<1>5. N \in Nat /\ \A n \in 1..N : list[n] \in Signer
  OBVIOUS
<1>6. /\ m # 0 /\ DistinctIds(T) /\ SignersFit(T, f.network) /\ c.network = f.network
  <2>1. ConfigError(m, T, c) = "Ok"
    BY WithConfigIs
  <2>2. c.network = f.network
    BY DEF ConfigOf, Config
  <2> QED BY <2>1, <2>2, ConfigOkIs
<1> HIDE DEF r, N
<1>7. L(0) = T
  <2>1. Staying(list, 0) = Signer
    BY StayingSteps
  <2> QED BY <2>1, KeepAll
<1>8. \A n : /\ L(n) \in Seq(Signer) /\ ToSet(L(n)) = ToSet(T) \cap Staying(list, n)
             /\ DistinctIds(L(n)) /\ SignersFit(L(n), f.network)
  BY <1>6, KeepRoster
<1>9. ASSUME NEW n \in 1..N
      PROVE  L(n) = Keep(L(n - 1), {s \in Signer : s.id # list[n].id})
  <2>1. n \in Nat \ {0}
    BY <1>5
  <2>2. Staying(list, n) = Staying(list, n - 1) \cap {s \in Signer : s.id # list[n].id}
    BY <2>1, StayingSteps
  <2> QED BY <2>2, KeepKeep
<1>10. ASSUME NEW n \in 0..N PROVE Len(L(N)) <= Len(L(n))
  <2>1. Staying(list, N) = Staying(list, n) \cap Staying(list, N)
    <3>1. \A j \in 1..n : j \in 1..N
      BY <1>5
    <3> QED BY <3>1 DEF Staying
  <2>2. L(N) = Keep(L(n), Staying(list, N))
    BY <2>1, KeepKeep
  <2> QED BY <1>8, <2>2, KeepRoster
<1> HIDE DEF r0, c
<1> DEFINE Inv(n) == /\ after[n].err = "Ok" => /\ after[n] = WithConfig(m, L(n), c)
                                               /\ \A i \in 1..n : list[i].id \in Ids(T)
                     /\ Fine => after[n].err \in Tolerated(Len(T), ConfigOf(f))
           A == {n \in 0..N : Inv(n)}
<1>11. 0 \in A
  <2>1. r0 = WithConfig(m, L(0), c) /\ r0.err = "Ok"
    BY <1>7 DEF r0, c
  <2>2. "Ok" \in Tolerated(Len(T), ConfigOf(f))
    BY DEF Tolerated
  <2> HIDE DEF L, Fine
  <2> QED BY <1>4, <1>5, <2>1, <2>2
<1>12. ASSUME NEW n \in 1..N, n - 1 \in A PROVE n \in A
  <2> DEFINE p == after[n - 1]
             g == p.fed[1]
             id == list[n].id
             q == after[n]
             w == WithConfig(m, L(n), c)
             l == L(n - 1)
  <2>1. q = AndThen(p, remove_signer(g, id)) /\ n \in 0..N /\ n - 1 \in 0..N /\ n \in Nat
    BY <1>4, <1>5
  <2>2. Inv(n - 1)
    BY <1>12
  <2>3. CASE p.err # "Ok"
    <3>1. q = p
      BY <2>1, <2>3 DEF AndThen
    <3> HIDE DEF Fine, L
    <3>2. q.err # "Ok" /\ (Fine => q.err \in Tolerated(Len(T), ConfigOf(f)))
      BY <2>2, <2>3, <3>1
    <3> QED BY <2>1, <3>2
  <2>4. CASE p.err = "Ok"
    <3>1. p = WithConfig(m, l, c) /\ \A i \in 1..(n - 1) : list[i].id \in Ids(T)
      <4> HIDE DEF Fine, L
      <4> QED BY <2>2, <2>4
    <3>2. g.signers = l /\ g.threshold = m /\ ConfigOf(g) = c
      <4> DEFINE x == WithConfig(m, l, ConfigOf(f))
      <4>1. x.err = "Ok" => /\ x.fed[1].threshold = m /\ x.fed[1].signers = l
                            /\ ConfigOf(x.fed[1]) = ConfigOf(f)
        BY WithConfigIs, SMTT(30)
      <4>2. p = x
        BY <3>1 DEF c
      <4> HIDE DEF L, l, x, p
      <4> QED BY <2>4, <4>1, <4>2 DEF c
    <3>3. q = IF ~contains(g, id) THEN Failed("SignerNotFound") ELSE w
      <4> DEFINE kept == Sublist(g.signers, {k \in DOMAIN g.signers : g.signers[k].id # id})
      <4>1. kept = L(n)
        <5> DEFINE P == {s \in Signer : s.id # id}
        <5>1. l \in Seq(Signer)
          BY <1>8
        <5>2. L(n) = Keep(l, P)
          BY <1>9
        <5>3. Sublist(l, {k \in DOMAIN l : l[k].id # id}) = Keep(l, P)
          <6> HIDE DEF l
          <6> QED BY <5>1, RemoveIs
        <5> HIDE DEF L, l, g
        <5> QED BY <3>2, <5>2, <5>3
      <4>2. q = remove_signer(g, id)
        BY <2>1, <2>4 DEF AndThen
      <4> HIDE DEF L, g, q, id
      <4>3. remove_signer(g, id) = IF ~contains(g, id) THEN Failed("SignerNotFound")
                                   ELSE WithConfig(g.threshold, kept, ConfigOf(g))
        BY DEF remove_signer
      <4> HIDE DEF kept
      <4> QED BY <3>2, <4>1, <4>2, <4>3
    <3>4. w.err = ConfigError(m, L(n), c)
      BY WithConfigIs DEF c
    <3>5. ASSUME q.err = "Ok"
          PROVE  q = w /\ \A i \in 1..n : list[i].id \in Ids(T)
      <4> HIDE DEF w
      <4>1. contains(g, id) /\ q = w
        BY <3>3, <3>5 DEF Failed
      <4>2. id \in Ids(T)
        <5>1. PICK s \in ToSet(l) : s.id = id
          BY <3>2, <4>1 DEF contains, Ids, ToSet
        <5>2. s \in ToSet(T)
          BY <1>8, <5>1
        <5> QED BY <5>1, <5>2 DEF Ids, ToSet
      <4>3. \A i \in 1..n : i \in 1..(n - 1) \/ i = n
        BY <2>1
      <4> QED BY <3>1, <4>1, <4>2, <4>3
    <3>6. ASSUME Fine PROVE q.err \in Tolerated(Len(T), ConfigOf(f))
      <4>1. contains(g, id)
        <5>1. PICK i \in DOMAIN T : T[i].id = id
          BY <3>6 DEF Ids
        <5>2. T[i] \in ToSet(T) /\ T[i] \in Signer
          BY DEF ToSet
        <5>3. \A j \in 1..(n - 1) : list[j].id # id
          <6> SUFFICES ASSUME NEW j \in 1..(n - 1), list[j].id = id PROVE FALSE
            OBVIOUS
          <6>1. j \in 1..N /\ n \in 1..N /\ j # n
            BY <1>5
          <6> QED BY <3>6, <6>1 DEF DistinctIds, N
        <5>4. T[i] \in Staying(list, n - 1)
          BY <5>1, <5>2, <5>3 DEF Staying
        <5>5. T[i] \in ToSet(l)
          BY <1>8, <5>2, <5>4
        <5> HIDE DEF l
        <5>6. \E k \in DOMAIN l : l[k].id = id
          BY <5>1, <5>5 DEF ToSet
        <5> QED BY <3>2, <5>6 DEF contains, Ids
      <4>2. Len(L(n)) >= 2 /\ m \in 1..Len(L(n))
        <5>1. Len(L(N)) <= Len(L(n)) /\ Len(L(N)) >= 2 /\ m <= Len(L(N))
          BY <1>10, <2>1, <3>6
        <5>2. Len(L(N)) \in Nat /\ Len(L(n)) \in Nat
          BY <1>8
        <5> HIDE DEF L
        <5> QED BY <1>6, <5>1, <5>2
      <4>3. L(n) \in Seq(Signer) /\ DistinctIds(L(n)) /\ SignersFit(L(n), c.network)
        BY <1>6, <1>8
      <4>4. IsBitcoin(c.network)
        BY <1>6, <3>6
      <4>l. Len(L(n)) \in Nat /\ Len(T) \in Nat /\ Len(L(n)) <= Len(T)
        BY <1>6, <1>8, KeepRoster
      <4> HIDE DEF L
      <4>5. ConfigError(m, L(n), c) \in Tolerated(Len(T), ConfigOf(f))
        <5>1. ConfigError(m, L(n), c) \in Tolerated(Len(L(n)), c)
          BY <4>2, <4>3, <4>4, ConfigErrorIs
        <5> QED BY <4>l, <5>1, ToleratedMore DEF c
      <4> HIDE DEF w
      <4> QED BY <3>3, <3>4, <4>1, <4>5
    <3> HIDE DEF Fine, L
    <3> QED BY <2>1, <3>5, <3>6
  <2> QED BY <2>3, <2>4
<1> HIDE DEF A
<1>13. 0..N \subseteq A
  BY <1>5, <1>11, <1>12, UpToInduction
<1>14. Inv(N)
  BY <1>5, <1>13 DEF A
<1>15. /\ r.err = "Ok" => r = WithConfig(m, L(N), c) /\ \A i \in 1..N : list[i].id \in Ids(T)
       /\ Fine => r.err \in Tolerated(Len(T), ConfigOf(f))
  <2> HIDE DEF Fine, L
  <2> QED BY <1>4, <1>14
<1> QED BY <1>15 DEF r, r0, c, N

----------------------------------------------------------------------------
(* The roster arithmetic and the methods agree                             *)

IdOf == [s \in Signer |-> s.id]

\* De-duplication drops repetitions only.
LEMMA DistinctIs ==
    ASSUME NEW S, NEW list \in Seq(S)
    PROVE  /\ Distinct(list) \in Seq(S) /\ IsInjective(Distinct(list))
           /\ ToSet(Distinct(list)) = ToSet(list)
<1> DEFINE K == {k \in DOMAIN list : \A j \in 1..(k - 1) : list[j] # list[k]}
           u == Sublist(list, K)
<1>1. DOMAIN list = 1..Len(list) /\ Len(list) \in Nat
  OBVIOUS
<1>2. K \in SUBSET (1..Len(list)) /\ u = Distinct(list)
  BY <1>1 DEF Distinct
<1>3. u \in Seq(S) /\ \E p : Enumerates(p, Len(u), K) /\ \A i \in 1..Len(u) : u[i] = list[p[i]]
  <2> HIDE DEF K
  <2> QED BY <1>2, SublistIs
<1>4. PICK p : Enumerates(p, Len(u), K) /\ \A i \in 1..Len(u) : u[i] = list[p[i]]
  BY <1>3
<1> HIDE DEF u
<1>5. DOMAIN u = 1..Len(u)
  BY <1>3
<1>6. /\ \A i \in 1..Len(u) : p[i] \in 1..Len(list) /\ p[i] \in K
      /\ \A i, j \in 1..Len(u) : i < j => p[i] < p[j]
      /\ \A k \in K : \E i \in 1..Len(u) : p[i] = k
  BY <1>2, <1>4 DEF Enumerates
<1>7. ASSUME NEW i \in 1..Len(u), NEW j \in 1..Len(u), i < j PROVE u[i] # u[j]
  <2>1. p[i] < p[j] /\ p[i] \in 1..Len(list) /\ p[j] \in K /\ p[j] \in 1..Len(list)
    BY <1>6, <1>7
  <2>2. p[i] \in 1..(p[j] - 1)
    BY <1>1, <2>1
  <2>3. list[p[i]] # list[p[j]]
    BY <2>1, <2>2
  <2> QED BY <1>4, <2>3
<1>8. IsInjective(u)
  <2> SUFFICES ASSUME NEW i \in 1..Len(u), NEW j \in 1..Len(u), u[i] = u[j], i # j
               PROVE  FALSE
    BY <1>5 DEF IsInjective
  <2>1. i < j \/ j < i
    BY <1>3
  <2> QED BY <1>7, <2>1
<1>9. ToSet(u) \subseteq ToSet(list)
  BY <1>1, <1>4, <1>5, <1>6 DEF ToSet
<1>10. ASSUME NEW x \in ToSet(list) PROVE x \in ToSet(u)
  <2> DEFINE H == {k \in 1..Len(list) : list[k] = x}
  <2>1. H \in SUBSET Nat /\ H # {}
    BY <1>1 DEF ToSet
  <2>2. PICK k \in H : \A y \in H : k <= y
    <3> HIDE DEF H
    <3> QED BY <2>1, LeastNat
  <2>3. k \in K
    <3> SUFFICES ASSUME NEW j \in 1..(k - 1), list[j] = list[k] PROVE FALSE
      BY <1>1
    <3>1. j \in H /\ j < k /\ j \in Nat /\ k \in Nat
      BY <1>1
    <3> QED BY <2>2, <3>1
  <2>4. PICK i \in 1..Len(u) : p[i] = k
    BY <1>6, <2>3
  <2> QED BY <1>4, <1>5, <2>4 DEF ToSet
<1> QED BY <1>2, <1>3, <1>8, <1>9, <1>10

\* What is where in a concatenation.
LEMMA ConcatIs ==
    ASSUME NEW S, NEW s \in Seq(S), NEW t \in Seq(S)
    PROVE  /\ s \o t \in Seq(S) /\ Len(s \o t) = Len(s) + Len(t)
           /\ \A i \in 1..Len(s) : (s \o t)[i] = s[i]
           /\ \A i \in 1..(Len(s) + Len(t)) :
                i \notin 1..Len(s) => (s \o t)[i] = t[i - Len(s)]
OBVIOUS

\* The ids of two lists, one after the other.
LEMMA MappedConcat ==
    ASSUME NEW S, NEW v, NEW s \in Seq(S), NEW t \in Seq(S)
    PROVE  Mapped(v, s) \o Mapped(v, t) = Mapped(v, s \o t)
<1> DEFINE T == {v[x] : x \in S}
<1>0. \A x \in S : v[x] \in T
  OBVIOUS
<1> HIDE DEF T
<1> DEFINE a == Len(s)
           b == Len(t)
           x == Mapped(v, s)
           y == Mapped(v, t)
           z == Mapped(v, s \o t)
<1>1. /\ a \in Nat /\ b \in Nat /\ x \in Seq(T) /\ Len(x) = a /\ y \in Seq(T) /\ Len(y) = b
      /\ \A i \in 1..a : x[i] = v[s[i]]
      /\ \A i \in 1..b : y[i] = v[t[i]]
  BY <1>0 DEF Mapped
<1>2. /\ s \o t \in Seq(S) /\ Len(s \o t) = a + b
      /\ \A i \in 1..a : (s \o t)[i] = s[i]
      /\ \A i \in 1..(a + b) : i \notin 1..a => (s \o t)[i] = t[i - a]
  OBVIOUS
<1>3. /\ z \in Seq(T) /\ Len(z) = a + b /\ \A i \in 1..(a + b) : z[i] = v[(s \o t)[i]]
  <2> DEFINE st == s \o t
  <2>1. st \in Seq(S) /\ Len(st) = a + b
    BY <1>2
  <2> HIDE DEF st
  <2>2. Mapped(v, st) \in Seq(T) /\ Len(Mapped(v, st)) = Len(st)
        /\ \A i \in 1..Len(st) : Mapped(v, st)[i] = v[st[i]]
    BY <1>0, <2>1 DEF Mapped
  <2> QED BY <2>1, <2>2 DEF st
<1> DEFINE xy == x \o y
           st == s \o t
<1> HIDE DEF x, y, z, st
<1>4. /\ xy \in Seq(T) /\ Len(xy) = a + b
      /\ \A i \in 1..a : xy[i] = x[i]
      /\ \A i \in 1..(a + b) : i \notin 1..a => xy[i] = y[i - a]
  <2>1. /\ xy \in Seq(T) /\ Len(xy) = Len(x) + Len(y)
        /\ \A i \in 1..Len(x) : xy[i] = x[i]
        /\ \A i \in 1..(Len(x) + Len(y)) : i \notin 1..Len(x) => xy[i] = y[i - Len(x)]
    BY <1>1, ConcatIs
  <2> HIDE DEF xy
  <2> QED BY <1>1, <2>1
<1>s. /\ \A i \in 1..a : st[i] = s[i]
      /\ \A i \in 1..(a + b) : i \notin 1..a => st[i] = t[i - a]
      /\ \A i \in 1..(a + b) : z[i] = v[st[i]]
  BY <1>2, <1>3 DEF st
<1> HIDE DEF xy, a, b
<1>5. ASSUME NEW i \in 1..(a + b) PROVE xy[i] = z[i]
  <2>1. CASE i \in 1..a
    <3>1. xy[i] = v[s[i]] /\ st[i] = s[i]
      BY <1>1, <1>4, <1>s, <2>1
    <3> QED BY <1>s, <3>1
  <2>2. CASE i \notin 1..a
    <3>1. i - a \in 1..b
      BY <1>1, <2>2
    <3>2. xy[i] = y[i - a] /\ st[i] = t[i - a]
      BY <1>4, <1>s, <2>2
    <3>3. y[i - a] = v[t[i - a]]
      BY <1>1, <3>1
    <3> QED BY <1>s, <3>2, <3>3
  <2> QED BY <2>1, <2>2
<1>6. xy = z
  BY <1>3, <1>4, <1>5
<1> QED BY <1>6 DEF xy, x, y, z

\* The filters of the roster arithmetic, which work on ids, and the same filters
\* on the signers.
LEMMA RosterFilters ==
    ASSUME NEW l \in Seq(Signer), NEW other \in Seq(Signer)
    PROVE  /\ Mapped(IdOf, l) \in Seq(Nat) /\ ToSet(Mapped(IdOf, l)) = Ids(l)
           /\ Without(Mapped(IdOf, l), Mapped(IdOf, other))
                = Mapped(IdOf, Keep(l, {s \in Signer : s.id \notin Ids(other)}))
           /\ NamesByIds(l) => Distinct(Mapped(IdOf, l)) = Mapped(IdOf, Distinct(l))
<1>1. IdOf \in [Signer -> Nat] /\ \A s \in Signer : IdOf[s] = s.id
  BY SignerAssumption DEF IdOf
<1>2. ASSUME NEW k \in Seq(Signer)
      PROVE  /\ Mapped(IdOf, k) \in Seq(Nat) /\ Len(Mapped(IdOf, k)) = Len(k)
             /\ \A i \in 1..Len(k) : Mapped(IdOf, k)[i] = k[i].id
             /\ ToSet(Mapped(IdOf, k)) = Ids(k)
             /\ DOMAIN Mapped(IdOf, k) = 1..Len(k) /\ DOMAIN k = 1..Len(k)
  <2>1. \A i \in 1..Len(k) : k[i] \in Signer /\ IdOf[k[i]] = k[i].id /\ k[i].id \in Nat
    BY <1>1
  <2>2. /\ Mapped(IdOf, k) \in Seq(Nat) /\ Len(Mapped(IdOf, k)) = Len(k)
        /\ DOMAIN Mapped(IdOf, k) = 1..Len(k) /\ DOMAIN k = 1..Len(k)
        /\ \A i \in 1..Len(k) : Mapped(IdOf, k)[i] = k[i].id
    BY <2>1 DEF Mapped
  <2>3. ToSet(Mapped(IdOf, k)) = Ids(k)
    BY <2>2 DEF ToSet, Ids
  <2> QED BY <2>2, <2>3
<1> DEFINE il == Mapped(IdOf, l)
           io == Mapped(IdOf, other)
           P == {s \in Signer : s.id \notin Ids(other)}
<1>3. /\ il \in Seq(Nat) /\ Len(il) = Len(l) /\ DOMAIN il = 1..Len(l) /\ DOMAIN l = 1..Len(l)
      /\ \A i \in 1..Len(l) : il[i] = l[i].id /\ l[i] \in Signer
      /\ ToSet(il) = Ids(l) /\ ToSet(io) = Ids(other)
  BY <1>2
<1> HIDE DEF il, io
<1>4. Without(il, io) = Mapped(IdOf, Keep(l, P))
  <2> DEFINE K == {k \in 1..Len(l) : l[k] \in P}
  <2>1. {k \in DOMAIN il : il[k] \notin ToSet(io)} = K
    BY <1>3
  <2>2. K \in SUBSET (1..Len(l))
    OBVIOUS
  <2> HIDE DEF K
  <2>3. Sublist(il, K) = Mapped(IdOf, Sublist(l, K))
    BY <2>2, SublistMapped DEF il
  <2> QED BY <2>1, <2>3 DEF Without, Keep, K
<1>5. ASSUME NamesByIds(l) PROVE Distinct(il) = Mapped(IdOf, Distinct(l))
  <2> DEFINE K == {k \in DOMAIN l : \A j \in 1..(k - 1) : l[j] # l[k]}
             KI == {k \in DOMAIN il : \A j \in 1..(k - 1) : il[j] # il[k]}
  <2>1. ASSUME NEW k \in 1..Len(l), NEW j \in 1..(k - 1)
        PROVE  il[j] = il[k] <=> l[j] = l[k]
    <3>1. j \in 1..Len(l)
      OBVIOUS
    <3> QED BY <1>3, <1>5, <3>1 DEF NamesByIds
  <2>2. KI = K
    BY <1>3, <2>1
  <2>3. K \in SUBSET (1..Len(l)) /\ Distinct(l) = Sublist(l, K) /\ Distinct(il) = Sublist(il, KI)
    BY <1>3 DEF Distinct
  <2> HIDE DEF K, KI
  <2>4. Sublist(il, K) = Mapped(IdOf, Sublist(l, K))
    BY <2>3, SublistMapped DEF il
  <2> QED BY <2>2, <2>3, <2>4
<1> QED BY <1>3, <1>4, <1>5 DEF il, io

\* Where ids name signers, de-duplication leaves distinct ids.
LEMMA DistinctNames ==
    ASSUME NEW l \in Seq(Signer), NamesByIds(l)
    PROVE  /\ Distinct(l) \in Seq(Signer) /\ DistinctIds(Distinct(l))
           /\ ToSet(Distinct(l)) = ToSet(l) /\ Ids(Distinct(l)) = Ids(l)
           /\ \A x, y \in ToSet(l) : x.id = y.id => x = y
           /\ DistinctIds(l) => Distinct(l) = l
<1> DEFINE u == Distinct(l)
<1>1. u \in Seq(Signer) /\ IsInjective(u) /\ ToSet(u) = ToSet(l)
  BY DistinctIs
<1>d. DOMAIN l = 1..Len(l) /\ Len(l) \in Nat
  OBVIOUS
<1>2. \A x, y \in ToSet(l) : x.id = y.id => x = y
  BY DEF NamesByIds, ToSet
<1>3. ASSUME DistinctIds(l) PROVE u = l
  <2> DEFINE K == {k \in DOMAIN l : \A j \in 1..(k - 1) : l[j] # l[k]}
  <2>1. ASSUME NEW k \in 1..Len(l), NEW j \in 1..(k - 1) PROVE l[j] # l[k]
    <3>1. j \in 1..Len(l) /\ j # k
      BY <1>d
    <3> QED BY <1>3, <3>1 DEF DistinctIds
  <2>2. K = 1..Len(l)
    BY <1>d, <2>1
  <2> QED BY <2>2, SublistAll DEF Distinct
<1> HIDE DEF u
<1>4. DOMAIN u = 1..Len(u) /\ \A i \in 1..Len(u) : u[i] \in ToSet(l)
  <2>1. DOMAIN u = 1..Len(u)
    BY <1>1
  <2>2. \A i \in 1..Len(u) : u[i] \in ToSet(u)
    BY <2>1 DEF ToSet
  <2> QED BY <1>1, <2>1, <2>2
<1>5. DistinctIds(u)
  <2> SUFFICES ASSUME NEW i \in 1..Len(u), NEW j \in 1..Len(u), u[i].id = u[j].id
               PROVE  i = j
    BY DEF DistinctIds
  <2>1. u[i] = u[j]
    BY <1>2, <1>4
  <2> QED BY <1>1, <1>4, <2>1 DEF IsInjective
<1>6. \A s \in Seq(Signer) : Ids(s) = {x.id : x \in ToSet(s)}
  BY DEF Ids, ToSet
<1>7. Ids(u) = Ids(l)
  BY <1>1, <1>6
<1> QED BY <1>1, <1>2, <1>3, <1>5, <1>7 DEF u

\* The members that stay, and then the joining ones.
NextRoster(cur, add, remove) ==
    Keep(cur, {s \in Signer : s.id \notin Ids(remove)}) \o Distinct(add)

\* Without a member that joins again, next_members on ids is NextRoster on
\* signers, and each id of the plan leads back to its signer.
LEMMA PlanIs ==
    ASSUME GoodFed(Current), NEW add \in Seq(Signer), NEW remove \in Seq(Signer),
           NamesByIds(add), Ids(add) \cap Ids(Current.signers) = {}
    PROVE  LET ids(l) == [k \in DOMAIN l |-> l[k].id]
               W == NextRoster(Current.signers, add, remove)
               next == next_members(ids(Current.signers), ids(add), ids(remove))
           IN  /\ W \in Seq(Signer) /\ Len(next) = Len(W) /\ DOMAIN next = 1..Len(W)
               /\ [k \in DOMAIN next |-> SignerOf(next[k], add)] = W
<1> DEFINE cur == Current.signers
           ids(l) == [k \in DOMAIN l |-> l[k].id]
           P == {s \in Signer : s.id \notin Ids(remove)}
           kept == Keep(cur, P)
           new == Distinct(add)
           W == kept \o new
           next == next_members(ids(cur), ids(add), ids(remove))
<1>1. cur \in Seq(Signer) /\ DistinctIds(cur)
  BY DEF GoodFed
<1>2. NamesByIds(cur)
  BY <1>1, SMTT(30) DEF DistinctIds, NamesByIds
<1>3. ASSUME NEW l \in Seq(Signer) PROVE ids(l) = Mapped(IdOf, l)
  <2>1. DOMAIN l = 1..Len(l) /\ \A k \in 1..Len(l) : l[k] \in Signer
    OBVIOUS
  <2> QED BY <2>1 DEF Mapped, IdOf
<1>4. ids(cur) = Mapped(IdOf, cur) /\ ids(add) = Mapped(IdOf, add)
      /\ ids(remove) = Mapped(IdOf, remove)
  BY <1>1, <1>3
<1>n. Ids(add) \cap Ids(cur) = {}
  OBVIOUS
<1> HIDE DEF ids, cur
<1>5. Without(Distinct(ids(cur)), ids(remove)) = Mapped(IdOf, kept)
  <2>1. Distinct(ids(cur)) = Mapped(IdOf, cur)
    BY <1>1, <1>2, <1>4, RosterFilters, DistinctNames
  <2> QED BY <1>1, <1>4, <2>1, RosterFilters
<1>6. Distinct(Without(ids(add), ids(cur))) = Mapped(IdOf, new)
  <2> DEFINE Q == {s \in Signer : s.id \notin Ids(cur)}
  <2>1. \A i \in 1..Len(add) : add[i] \in Q
    <3>1. \A i \in 1..Len(add) : add[i] \in Signer /\ add[i].id \in Ids(add)
      BY DEF Ids
    <3> QED BY <1>n, <3>1
  <2>2. Without(ids(add), ids(cur)) = Mapped(IdOf, Keep(add, Q))
    BY <1>1, <1>4, RosterFilters
  <2> HIDE DEF Q
  <2>3. Keep(add, Q) = add
    BY <2>1, KeepAll
  <2> QED BY <2>2, <2>3, RosterFilters
<1>7. /\ kept \in Seq(Signer) /\ ToSet(kept) = ToSet(cur) \cap P
      /\ new \in Seq(Signer) /\ ToSet(new) = ToSet(add)
  BY <1>1, KeepRoster, DistinctIs
<1> HIDE DEF kept, new
<1>8. IdOf \in [Signer -> Nat] /\ \A s \in Signer : IdOf[s] = s.id
  BY SignerAssumption DEF IdOf
<1>9. next = Mapped(IdOf, W)
  <2>1. Mapped(IdOf, kept) \o Mapped(IdOf, new) = Mapped(IdOf, kept \o new)
    BY <1>7, MappedConcat, SMTT(30)
  <2>2. next = Without(Distinct(ids(cur)), ids(remove)) \o Distinct(Without(ids(add), ids(cur)))
    BY DEF next_members
  <2> HIDE DEF next
  <2>3. next = Mapped(IdOf, kept) \o Mapped(IdOf, new)
    BY <1>5, <1>6, <2>2
  <2> QED BY <2>1, <2>3
<1> HIDE DEF next
<1>10. /\ W \in Seq(Signer) /\ Len(W) = Len(kept) + Len(new)
       /\ \A i \in 1..Len(kept) : W[i] = kept[i]
       /\ \A i \in 1..(Len(kept) + Len(new)) : i \notin 1..Len(kept) => W[i] = new[i - Len(kept)]
  BY <1>7, ConcatIs
<1> DEFINE known == ToSet(cur) \cup ToSet(add)
<1>11. \A i \in 1..Len(W) : W[i] \in known
  <2> SUFFICES ASSUME NEW i \in 1..Len(W) PROVE W[i] \in known
    OBVIOUS
  <2> HIDE DEF W
  <2>1. CASE i \in 1..Len(kept)
    <3>1. kept[i] \in ToSet(kept)
      BY <1>7, <2>1 DEF ToSet
    <3> QED BY <1>7, <1>10, <2>1, <3>1
  <2>2. CASE i \notin 1..Len(kept)
    <3>1. i - Len(kept) \in 1..Len(new)
      BY <1>7, <1>10, <2>2
    <3>2. new[i - Len(kept)] \in ToSet(new)
      BY <1>7, <3>1 DEF ToSet
    <3> QED BY <1>7, <1>10, <2>2, <3>2
  <2> QED BY <2>1, <2>2
<1>12. \A x, y \in known : x.id = y.id => x = y
  <2>1. \A x, y \in ToSet(cur) : x.id = y.id => x = y
    BY <1>1, SignerNumbers
  <2>2. \A x, y \in ToSet(add) : x.id = y.id => x = y
    BY DistinctNames
  <2>3. \A x \in ToSet(cur) : x.id \in Ids(cur)
    BY DEF ToSet, Ids
  <2>4. \A x \in ToSet(add) : x.id \in Ids(add)
    BY DEF ToSet, Ids
  <2> QED BY <1>n, <2>1, <2>2, <2>3, <2>4
<1>13. \A id : SignerOf(id, add) = CHOOSE s \in known : s.id = id
  BY DEF SignerOf, cur
<1> HIDE DEF known, W
<1>14. Len(next) = Len(W) /\ DOMAIN next = 1..Len(W) /\ \A i \in 1..Len(W) : next[i] = W[i].id
  <2>1. \A i \in 1..Len(W) : W[i] \in Signer
    BY <1>10
  <2> QED BY <1>8, <1>9, <1>10, <2>1 DEF Mapped
<1>15. ASSUME NEW i \in 1..Len(W) PROVE SignerOf(next[i], add) = W[i]
  <2> DEFINE x == CHOOSE s \in known : s.id = W[i].id
  <2>1. x \in known /\ x.id = W[i].id
    BY <1>11
  <2>2. x = W[i]
    BY <1>11, <1>12, <2>1
  <2> QED BY <1>13, <1>14, <2>2
<1>16. [k \in DOMAIN next |-> SignerOf(next[k], add)] = W
  BY <1>10, <1>14, <1>15
<1>17. W = NextRoster(cur, add, remove)
  BY DEF NextRoster, W, kept, new
<1> QED BY <1>10, <1>14, <1>16, <1>17 DEF next, ids, cur

\* After an error no call is made.
LEMMA InTurnFails ==
    ASSUME NEW f, f.signers \in Seq(Signer), f.threshold \in Nat,
           NEW r \in Results(f), r.err # "Ok", NEW op, NEW list \in Seq(Signer)
    PROVE  InTurn(op, r, list) = r
<1> DEFINE N == Len(list)
<1>1. PICK after : InTurnRun(after, op, r, list, Results(f))
  BY InTurnSteps
<1>2. /\ after[0] = r /\ InTurn(op, r, list) = after[N]
      /\ \A n \in 1..N : after[n] = AndThen(after[n - 1], Method(op, after[n - 1].fed[1], list[n]))
  BY <1>1 DEF InTurnRun
<1> DEFINE A == {n \in 0..N : after[n] = r}
<1>3. N \in Nat
  OBVIOUS
<1> HIDE DEF N
<1>4. 0 \in A
  BY <1>2, <1>3
<1>5. ASSUME NEW n \in 1..N, n - 1 \in A PROVE n \in A
  BY <1>2, <1>3, <1>5 DEF AndThen
<1> HIDE DEF A
<1>6. 0..N \subseteq A
  BY <1>3, <1>4, <1>5, UpToInduction
<1>7. N \in 0..N
  BY <1>3
<1> QED BY <1>2, <1>6, <1>7 DEF A

\* The members of a roster that grew.
LEMMA GrownRoster ==
    ASSUME NEW s \in Seq(Signer), NEW t \in Seq(Signer)
    PROVE  /\ s \o t \in Seq(Signer) /\ Len(s \o t) = Len(s) + Len(t)
           /\ Ids(s \o t) = Ids(s) \cup Ids(t)
           /\ DistinctIds(s) /\ DistinctIds(t) /\ Ids(s) \cap Ids(t) = {}
                => DistinctIds(s \o t)
           /\ \A net : SignersFit(s \o t, net) <=> SignersFit(s, net) /\ SignersFit(t, net)
<1> DEFINE st == s \o t
           a == Len(s)
           b == Len(t)
<1>1. /\ st \in Seq(Signer) /\ Len(st) = a + b /\ a \in Nat /\ b \in Nat
      /\ \A i \in 1..a : st[i] = s[i]
      /\ \A i \in 1..(a + b) : i \notin 1..a => st[i] = t[i - a]
      /\ DOMAIN s = 1..a /\ DOMAIN t = 1..b
  BY ConcatIs
<1> HIDE DEF st, a, b
<1>2. DOMAIN st = 1..(a + b)
  BY <1>1
<1>3. \A j \in 1..b : a + j \in 1..(a + b) /\ a + j \notin 1..a /\ (a + j) - a = j
  BY <1>1
<1>4. \A j \in 1..b : st[a + j] = t[j]
  BY <1>1, <1>3
<1>5. \A i \in 1..(a + b) : i \in 1..a \/ \E j \in 1..b : i = a + j
  <2> SUFFICES ASSUME NEW i \in 1..(a + b), i \notin 1..a PROVE \E j \in 1..b : i = a + j
    OBVIOUS
  <2>1. i - a \in 1..b /\ i = a + (i - a)
    BY <1>1
  <2> QED BY <2>1
<1>6. \A i \in 1..a : i \in 1..(a + b)
  BY <1>1
<1>7. Ids(st) = Ids(s) \cup Ids(t)
  <2>1. Ids(st) \subseteq Ids(s) \cup Ids(t)
    <3> SUFFICES ASSUME NEW i \in 1..(a + b) PROVE st[i].id \in Ids(s) \cup Ids(t)
      BY <1>2 DEF Ids
    <3>1. CASE i \in 1..a
      BY <1>1, <3>1 DEF Ids
    <3>2. ASSUME NEW j \in 1..b, i = a + j PROVE st[i].id \in Ids(t)
      BY <1>1, <1>4, <3>2 DEF Ids
    <3> QED BY <1>5, <3>1, <3>2
  <2>2. Ids(s) \subseteq Ids(st)
    <3> SUFFICES ASSUME NEW i \in 1..a PROVE s[i].id \in Ids(st)
      BY <1>1 DEF Ids
    <3>1. i \in DOMAIN st /\ st[i] = s[i]
      BY <1>1, <1>2, <1>6
    <3> QED BY <3>1 DEF Ids
  <2>3. Ids(t) \subseteq Ids(st)
    <3> SUFFICES ASSUME NEW j \in 1..b PROVE t[j].id \in Ids(st)
      BY <1>1 DEF Ids
    <3>1. a + j \in DOMAIN st /\ st[a + j] = t[j]
      BY <1>2, <1>3, <1>4
    <3> QED BY <3>1 DEF Ids
  <2> QED BY <2>1, <2>2, <2>3
<1>8. ASSUME DistinctIds(s), DistinctIds(t), Ids(s) \cap Ids(t) = {} PROVE DistinctIds(st)
  <2> SUFFICES ASSUME NEW i \in 1..(a + b), NEW j \in 1..(a + b), st[i].id = st[j].id
               PROVE  i = j
    BY <1>1 DEF DistinctIds
  <2>1. /\ \A k \in 1..a : s[k].id \in Ids(s)
        /\ \A k \in 1..b : t[k].id \in Ids(t)
    BY <1>1 DEF Ids
  <2>2. CASE i \in 1..a /\ j \in 1..a
    BY <1>1, <1>8, <2>2 DEF DistinctIds, a
  <2>3. ASSUME NEW k \in 1..b, i \in 1..a, j = a + k PROVE FALSE
    <3>1. st[i] = s[i] /\ st[j] = t[k]
      BY <1>1, <1>4, <2>3
    <3> QED BY <1>8, <2>1, <2>3, <3>1
  <2>4. ASSUME NEW k \in 1..b, j \in 1..a, i = a + k PROVE FALSE
    <3>1. st[j] = s[j] /\ st[i] = t[k]
      BY <1>1, <1>4, <2>4
    <3> QED BY <1>8, <2>1, <2>4, <3>1
  <2>5. ASSUME NEW k \in 1..b, NEW n \in 1..b, i = a + k, j = a + n PROVE i = j
    <3>1. t[k].id = t[n].id
      BY <1>4, <2>5
    <3>2. k = n
      BY <1>8, <3>1 DEF DistinctIds, b
    <3> QED BY <2>5, <3>2
  <2> QED BY <1>5, <2>2, <2>3, <2>4, <2>5
<1>9. ASSUME NEW net PROVE SignersFit(st, net) <=> SignersFit(s, net) /\ SignersFit(t, net)
  <2> DEFINE Fits(x) == net \in x.networks /\ (IsBitcoin(net) => x.kind = NetworkKind(net))
  <2>1. /\ SignersFit(st, net) <=> \A i \in 1..(a + b) : Fits(st[i])
        /\ SignersFit(s, net) <=> \A i \in 1..a : Fits(s[i])
        /\ SignersFit(t, net) <=> \A i \in 1..b : Fits(t[i])
    BY <1>1 DEF SignersFit, a, b
  <2> HIDE DEF Fits
  <2>2. ASSUME \A i \in 1..(a + b) : Fits(st[i])
        PROVE  (\A i \in 1..a : Fits(s[i])) /\ (\A i \in 1..b : Fits(t[i]))
    <3>1. \A i \in 1..a : Fits(s[i])
      BY <1>1, <1>6, <2>2
    <3>2. \A i \in 1..b : Fits(t[i])
      BY <1>3, <1>4, <2>2
    <3> QED BY <3>1, <3>2
  <2>3. ASSUME \A i \in 1..a : Fits(s[i]), \A i \in 1..b : Fits(t[i])
        PROVE  \A i \in 1..(a + b) : Fits(st[i])
    <3> SUFFICES ASSUME NEW i \in 1..(a + b) PROVE Fits(st[i])
      OBVIOUS
    <3>1. CASE i \in 1..a
      BY <1>1, <2>3, <3>1
    <3>2. ASSUME NEW j \in 1..b, i = a + j PROVE Fits(st[i])
      BY <1>4, <2>3, <3>2
    <3> QED BY <1>5, <3>1, <3>2
  <2> QED BY <2>1, <2>2, <2>3
<1> QED BY <1>1, <1>7, <1>8, <1>9 DEF st, a, b

\* The plan approves a delta that adds no member, removes only members and does
\* not do both to a signer, and then with_config judges the next roster.
LEMMA RosterResultIs ==
    ASSUME GoodFed(Current), NEW add \in Seq(Signer), NEW remove \in Seq(Signer),
           NamesByIds(add), NEW m \in Nat
    PROVE  LET cur == Current.signers
               fine == /\ Ids(add) \cap Ids(remove) = {}
                       /\ Ids(remove) \subseteq Ids(cur)
                       /\ Ids(add) \cap Ids(cur) = {}
               built == WithConfig(m, NextRoster(cur, add, remove), ConfigOf(Current))
               r == RosterResult(add, remove, m)
           IN  /\ r.err = "Ok" => fine /\ r = built
               /\ fine /\ built.err = "Ok" => r = built
               /\ Ids(add) \cap Ids(remove) # {} => r.err = "AddAndRemove"
<1> DEFINE cur == Current.signers
           ids(l) == [k \in DOMAIN l |-> l[k].id]
           fine == /\ Ids(add) \cap Ids(remove) = {}
                   /\ Ids(remove) \subseteq Ids(cur)
                   /\ Ids(add) \cap Ids(cur) = {}
           W == NextRoster(cur, add, remove)
           c == ConfigOf(Current)
           built == WithConfig(m, W, c)
           r == RosterResult(add, remove, m)
           next == next_members(ids(cur), ids(add), ids(remove))
           plan == compute_roster_plan(ids(cur), ids(add), ids(remove))
           ss == [k \in DOMAIN next |-> SignerOf(next[k], add)]
<1>1. cur \in Seq(Signer)
  BY DEF GoodFed
<1>2. /\ ToSet(ids(cur)) = Ids(cur) /\ ToSet(ids(add)) = Ids(add)
      /\ ToSet(ids(remove)) = Ids(remove)
  BY DEF ToSet, Ids
<1>3. ASSUME fine
      PROVE  W \in Seq(Signer) /\ Len(next) = Len(W) /\ DOMAIN next = 1..Len(W) /\ ss = W
  <2>1. Ids(add) \cap Ids(Current.signers) = {}
    BY <1>3
  <2> QED BY <2>1, PlanIs
<1> HIDE DEF ids, next, cur, W, c
<1>4. plan = IF Ids(add) \cap Ids(remove) # {} THEN Failed("AddAndRemove")
             ELSE IF Ids(remove) \ Ids(cur) # {} THEN Failed("RemoveNotMember")
             ELSE IF Ids(add) \cap Ids(cur) # {} THEN Failed("AddAlreadyMember")
             ELSE IF next = <<>> THEN Failed("EmptyResult")
             ELSE [err |-> "Ok", next |-> next]
  BY <1>2 DEF compute_roster_plan, next
<1>5. r = IF plan.err # "Ok" THEN plan
          ELSE IF validate_threshold(m, Len(plan.next)) # "Ok"
          THEN Failed("BadThreshold")
          ELSE WithConfig(m, [k \in DOMAIN plan.next |-> SignerOf(plan.next[k], add)], c)
  BY DEF RosterResult, ids, cur, c
<1>6. \A e : Failed(e).err = e
  BY DEF Failed
<1>e. Failed("AddAndRemove").err # "Ok" /\ Failed("RemoveNotMember").err # "Ok"
      /\ Failed("AddAlreadyMember").err # "Ok" /\ Failed("EmptyResult").err # "Ok"
      /\ Failed("BadThreshold").err # "Ok" /\ Failed("AddAndRemove").err = "AddAndRemove"
  BY <1>6
<1>w. built.err = "Ok" /\ W \in Seq(Signer) => m # 0 /\ ~(Len(W) < 2) /\ ~(m > Len(W))
  <2>1. built.err = ConfigError(m, W, c)
    BY WithConfigIs DEF c
  <2> QED BY <2>1, ConfigOkIs
<1> HIDE DEF r, plan, built
<1>7. plan.err = "Ok" => fine /\ next # <<>> /\ plan.next = next
  BY <1>4, <1>e, Zenon
<1>8. ASSUME plan.err = "Ok"
      PROVE  r = IF validate_threshold(m, Len(W)) # "Ok" THEN Failed("BadThreshold") ELSE built
  <2>1. fine /\ plan.next = next
    BY <1>7, <1>8
  <2> QED BY <1>3, <1>5, <1>8, <2>1 DEF built
<1>9. r.err = "Ok" => fine /\ r = built
  <2> SUFFICES ASSUME r.err = "Ok" PROVE fine /\ r = built
    OBVIOUS
  <2>1. plan.err = "Ok"
    BY <1>5
  <2> QED BY <1>7, <1>8, <1>e, <2>1
<1>10. fine /\ built.err = "Ok" => r = built
  <2> SUFFICES ASSUME fine, built.err = "Ok" PROVE r = built
    OBVIOUS
  <2>1. W \in Seq(Signer) /\ Len(next) = Len(W)
    BY <1>3
  <2>2. m # 0 /\ ~(Len(W) < 2) /\ ~(m > Len(W))
    BY <1>w, <2>1
  <2>3. next # <<>>
    <3>1. Len(W) # 0
      BY <2>2
    <3> QED BY <2>1, <3>1
  <2>4. plan = [err |-> "Ok", next |-> next]
    <3>1. Ids(remove) \ Ids(cur) = {}
      OBVIOUS
    <3> QED BY <1>4, <2>3, <3>1
  <2>5. validate_threshold(m, Len(W)) = "Ok"
    BY <2>2 DEF validate_threshold
  <2> QED BY <1>8, <2>4, <2>5
<1>11. Ids(add) \cap Ids(remove) # {} => r.err = "AddAndRemove"
  BY <1>4, <1>5, <1>e
<1> QED BY <1>9, <1>10, <1>11 DEF r, built, W, c, cur

\* Method by method: the delta's signers are appended, and then a filter takes
\* out the ones that leave.
LEMMA OneByOneIs ==
    ASSUME NEW f, GoodFed(f), IsBitcoin(f.network),
           NEW add \in Seq(Signer), NEW remove \in Seq(Signer),
           NamesByIds(add), NamesByIds(remove), NEW m \in Nat
    PROVE  LET cur == f.signers
               T == cur \o Distinct(add)
               L == Keep(T, {s \in Signer : s.id \notin Ids(remove)})
               one == OneByOne(f, add, remove, m)
           IN  /\ one.err = "Ok" => /\ Ids(add) \cap Ids(cur) = {}
                                    /\ Ids(remove) \subseteq Ids(T)
                                    /\ one = WithConfig(m, L, ConfigOf(f))
               /\ /\ DistinctIds(T) /\ SignersFit(T, f.network)
                  /\ Len(L) >= 2 /\ m \in 1..Len(L) /\ Ids(remove) \subseteq Ids(T)
                  => one.err \in Tolerated(Len(T), ConfigOf(f))
<1> DEFINE cur == f.signers
           new == Distinct(add)
           old == Distinct(remove)
           T == cur \o new
           P == {s \in Signer : s.id \notin Ids(remove)}
           L == Keep(T, P)
           one == OneByOne(f, add, remove, m)
           c == ConfigOf(f)
           added == InTurn("add", [err |-> "Ok", fed |-> <<f>>], new)
           changed == AndThen(added, change_threshold(added.fed[1], m))
           Fine == /\ DistinctIds(T) /\ SignersFit(T, f.network)
                   /\ Len(L) >= 2 /\ m \in 1..Len(L) /\ Ids(remove) \subseteq Ids(T)
<1>1. cur \in Seq(Signer) /\ f.threshold \in Nat
  BY DEF GoodFed
<1>2. /\ new \in Seq(Signer) /\ Ids(new) = Ids(add) /\ DistinctIds(new)
      /\ old \in Seq(Signer) /\ Ids(old) = Ids(remove) /\ DistinctIds(old)
  BY DistinctNames
<1>3. one = InTurn("remove", changed, old)
  BY DEF OneByOne
<1> HIDE DEF new, old
<1>4. /\ added \in Results(f)
      /\ added.err = "Ok" => /\ added.fed[1].signers = T /\ added.fed[1].threshold = f.threshold
                             /\ \A i \in 1..Len(new) : new[i].id \notin Ids(cur)
      /\ DistinctIds(T) /\ SignersFit(T, f.network) => added.err \in Tolerated(Len(T), ConfigOf(f))
  BY <1>2, AddsInTurn
<1>5. T \in Seq(Signer)
  BY <1>1, <1>2, GrownRoster
<1>n. added.err = "Ok" => Ids(add) \cap Ids(cur) = {}
  <2> SUFFICES ASSUME added.err = "Ok" PROVE Ids(new) \cap Ids(cur) = {}
    BY <1>2
  <2>1. DOMAIN new = 1..Len(new)
    BY <1>2
  <2> QED BY <1>4, <2>1 DEF Ids
<1> HIDE DEF T, added, cur
<1>6. c.network = f.network
  BY DEF ConfigOf, Config
<1>7. added.err = "Ok" => changed = WithConfig(m, T, c)
  <2> SUFFICES ASSUME added.err = "Ok" PROVE change_threshold(added.fed[1], m) = WithConfig(m, T, c)
    BY DEF AndThen
  <2>1. ConfigOf(added.fed[1]) = c
    BY <1>1, <1>4, ResultFed DEF cur
  <2> QED BY <1>4, <2>1 DEF change_threshold
<1>8. added.err # "Ok" => changed = added
  BY DEF AndThen
<1> HIDE DEF changed, one, c
<1>9. changed \in Results(f)
  <2>1. \A t \in Nat, l \in Seq(Signer) : WithConfig(t, l, c) \in Results(f)
    BY DEF Results, c
  <2>2. WithConfig(m, T, c) \in Results(f)
    BY <1>5, <2>1
  <2> QED BY <1>4, <1>7, <1>8, <2>2
<1>10. changed.err # "Ok" => one = changed
  <2>1. f.signers \in Seq(Signer)
    BY <1>1 DEF cur
  <2> QED BY <1>1, <1>2, <1>3, <1>9, <2>1, InTurnFails
<1>11. changed.err = "Ok" => added.err = "Ok"
  BY <1>8
<1>12. Staying(old, Len(old)) = P
  <2>1. DOMAIN old = 1..Len(old)
    BY <1>2
  <2>2. Ids(remove) = {old[k].id : k \in 1..Len(old)}
    BY <1>2, <2>1 DEF Ids
  <2> QED BY <2>2 DEF Staying
<1> HIDE DEF P
<1>r. Ids(remove) \subseteq Ids(T) <=> \A i \in 1..Len(old) : old[i].id \in Ids(T)
  <2>1. DOMAIN old = 1..Len(old)
    BY <1>2
  <2>2. Ids(remove) = {old[k].id : k \in 1..Len(old)}
    BY <1>2, <2>1 DEF Ids
  <2> QED BY <2>2
<1>13. ASSUME changed.err = "Ok"
       PROVE  /\ one.err = "Ok" => one = WithConfig(m, L, c) /\ Ids(remove) \subseteq Ids(T)
              /\ Fine => one.err \in Tolerated(Len(T), ConfigOf(f))
  <2>1. changed = WithConfig(m, T, c) /\ WithConfig(m, T, ConfigOf(f)).err = "Ok"
    BY <1>7, <1>11, <1>13 DEF c
  <2>2. one = InTurn("remove", WithConfig(m, T, ConfigOf(f)), old)
    BY <1>3, <2>1 DEF c
  <2>3. /\ one.err = "Ok" => /\ one = WithConfig(m, L, ConfigOf(f))
                             /\ \A i \in 1..Len(old) : old[i].id \in Ids(T)
        /\ /\ DistinctIds(old) /\ Len(L) >= 2 /\ m <= Len(L)
           /\ \A i \in 1..Len(old) : old[i].id \in Ids(T)
           => one.err \in Tolerated(Len(T), ConfigOf(f))
    BY <1>2, <1>5, <1>12, <2>1, <2>2, RemovesInTurn
  <2>4. Fine => m <= Len(L)
    OBVIOUS
  <2> QED BY <1>2, <1>r, <2>3, <2>4 DEF c
<1>14. ASSUME changed.err # "Ok", Fine PROVE one.err \in Tolerated(Len(T), ConfigOf(f))
  <2>1. CASE added.err # "Ok"
    BY <1>4, <1>8, <1>10, <1>14, <2>1
  <2>2. CASE added.err = "Ok"
    <3>1. Len(L) <= Len(T) /\ L \in Seq(Signer)
      BY <1>5, <1>14, KeepRoster
    <3> HIDE DEF L
    <3>2. m \in 1..Len(T) /\ Len(T) >= 2
      BY <1>5, <1>14, <3>1
    <3>3. ConfigError(m, T, c) \in Tolerated(Len(T), ConfigOf(f))
      BY <1>5, <1>6, <1>14, <3>2, ConfigErrorIs DEF c
    <3>4. WithConfig(m, T, c).err = ConfigError(m, T, c)
      BY WithConfigIs DEF c
    <3> QED BY <1>7, <1>10, <1>14, <2>2, <3>3, <3>4
  <2> QED BY <2>1, <2>2
<1>15. one.err = "Ok" => changed.err = "Ok"
  BY <1>10
<1> HIDE DEF Fine, L
<1>16. /\ one.err = "Ok" => /\ Ids(add) \cap Ids(cur) = {}
                            /\ Ids(remove) \subseteq Ids(T)
                            /\ one = WithConfig(m, L, c)
       /\ Fine => one.err \in Tolerated(Len(T), ConfigOf(f))
  BY <1>11, <1>13, <1>14, <1>15, <1>n
<1> QED BY <1>16 DEF Fine, L, P, T, one, c, cur, new

\* How the methods may fail where the plan does not.
Excused(err, f, add) ==
    \/ err = "DuplicateKey"
    \/ /\ err = "Miniscript"
       /\ Len(f.signers) + Len(Distinct(add)) > MaxKeys(f.script)

\* The roster arithmetic and the federation's methods lead to the same
\* federation, or both to none, with those exceptions.
LEMMA RosterBoth ==
    ASSUME GoodFed(Current), IsBitcoin(Current.network),
           NEW add \in Seq(Signer), NEW remove \in Seq(Signer),
           NamesByIds(add), NamesByIds(remove), NEW m \in Nat
    PROVE  LET r == RosterResult(add, remove, m)
               one == OneByOne(Current, add, remove, m)
           IN  IF r.err = "Ok" THEN one.fed = r.fed \/ Excused(one.err, Current, add)
               ELSE one.err # "Ok" \/ r.err = "AddAndRemove"
<1> DEFINE cur == Current.signers
           net == Current.network
           new == Distinct(add)
           T == cur \o new
           P == {s \in Signer : s.id \notin Ids(remove)}
           L == Keep(T, P)
           W == NextRoster(cur, add, remove)
           c == ConfigOf(Current)
           r == RosterResult(add, remove, m)
           one == OneByOne(Current, add, remove, m)
           fine == /\ Ids(add) \cap Ids(remove) = {}
                   /\ Ids(remove) \subseteq Ids(cur)
                   /\ Ids(add) \cap Ids(cur) = {}
<1>1. cur \in Seq(Signer) /\ DistinctIds(cur) /\ SignersFit(cur, net)
  BY DEF GoodFed
<1>2. /\ new \in Seq(Signer) /\ Ids(new) = Ids(add) /\ DistinctIds(new)
  BY DistinctNames
<1>3. /\ r.err = "Ok" => fine /\ r = WithConfig(m, W, c)
      /\ fine /\ WithConfig(m, W, c).err = "Ok" => r = WithConfig(m, W, c)
      /\ Ids(add) \cap Ids(remove) # {} => r.err = "AddAndRemove"
  BY RosterResultIs
<1>4. /\ one.err = "Ok" => /\ Ids(add) \cap Ids(cur) = {}
                           /\ Ids(remove) \subseteq Ids(T)
                           /\ one = WithConfig(m, L, c)
      /\ /\ DistinctIds(T) /\ SignersFit(T, net)
         /\ Len(L) >= 2 /\ m \in 1..Len(L) /\ Ids(remove) \subseteq Ids(T)
         => one.err \in Tolerated(Len(T), ConfigOf(Current))
  BY OneByOneIs
<1>5. W = Keep(cur, P) \o new
  BY DEF NextRoster
<1>c. c.network = net /\ c.script = Current.script
  BY DEF ConfigOf, Config
<1>x. one.err \in Tolerated(Len(cur) + Len(new), c)
        => one.err = "Ok" \/ Excused(one.err, Current, add)
  <2> HIDE DEF one, c
  <2> QED BY <1>c DEF Tolerated, Excused
<1> HIDE DEF cur, net, new, c, r, one, W
<1>6. /\ Ids(T) = Ids(cur) \cup Ids(add) /\ T \in Seq(Signer)
      /\ Len(T) = Len(cur) + Len(new)
  BY <1>1, <1>2, GrownRoster
<1>7. ASSUME Ids(add) \cap Ids(remove) = {} PROVE L = W
  <2>1. \A i \in 1..Len(new) : new[i] \in P
    <3>1. DOMAIN new = 1..Len(new) /\ \A i \in 1..Len(new) : new[i] \in Signer
      BY <1>2
    <3>2. \A i \in 1..Len(new) : new[i].id \in Ids(add)
      BY <1>2, <3>1 DEF Ids
    <3> QED BY <1>7, <3>1, <3>2
  <2> HIDE DEF P
  <2>2. Keep(new, P) = new
    BY <1>2, <2>1, KeepAll
  <2>3. Keep(cur \o new, P) = Keep(cur, P) \o Keep(new, P)
    BY <1>1, <1>2, KeepConcat, SMTT(30)
  <2> QED BY <1>5, <2>2, <2>3
<1>8. ASSUME r.err = "Ok" PROVE one.fed = r.fed \/ Excused(one.err, Current, add)
  <2>1. fine /\ r = WithConfig(m, W, c) /\ L = W
    BY <1>3, <1>7, <1>8
  <2>k. Keep(cur, P) \in Seq(Signer)
    BY <1>1, KeepType
  <2>2. W \in Seq(Signer) /\ \A n : SignersFit(W, n) => SignersFit(new, n)
    <3> DEFINE kept == Keep(cur, P)
    <3> HIDE DEF kept
    <3>1. kept \in Seq(Signer) /\ W = kept \o new
      BY <1>5, <2>k DEF kept
    <3> QED BY <1>2, <3>1, GrownRoster
  <2>3. r.err = ConfigError(m, W, c)
    BY <2>1, WithConfigIs DEF c
  <2>4. m # 0 /\ ~(Len(W) < 2) /\ ~(m > Len(W)) /\ SignersFit(W, net)
    BY <1>8, <1>c, <2>2, <2>3, ConfigOkIs
  <2>5. m \in 1..Len(W) /\ Len(W) >= 2
    BY <2>2, <2>4
  <2>6. DistinctIds(T) /\ SignersFit(T, net)
    BY <1>1, <1>2, <2>1, <2>2, <2>4, GrownRoster
  <2>7. Ids(remove) \subseteq Ids(T)
    BY <1>6, <2>1
  <2>8. one.err \in Tolerated(Len(T), ConfigOf(Current))
    BY <1>4, <2>1, <2>5, <2>6, <2>7
  <2>9. one.err = "Ok" \/ Excused(one.err, Current, add)
    BY <1>6, <1>x, <2>8 DEF c
  <2> QED BY <1>4, <2>1, <2>9
<1>9. ASSUME r.err # "Ok", one.err = "Ok", r.err # "AddAndRemove" PROVE FALSE
  <2>1. Ids(add) \cap Ids(remove) = {} /\ L = W
    BY <1>3, <1>7, <1>9
  <2>2. /\ Ids(add) \cap Ids(cur) = {} /\ Ids(remove) \subseteq Ids(T)
        /\ one = WithConfig(m, W, c)
    BY <1>4, <1>9, <2>1
  <2>3. Ids(remove) \subseteq Ids(cur)
    BY <1>6, <2>1, <2>2
  <2> QED BY <1>3, <1>9, <2>1, <2>2, <2>3
<1> QED BY <1>8, <1>9 DEF r, one

----------------------------------------------------------------------------
(* The stack                                                               *)

\* A list whose elements are good federations of one Bitcoin network.
GoodStack(vs) ==
    /\ \E U : vs \in Seq(U)
    /\ \A v \in 1..Len(vs) : /\ GoodFed(vs[v])
                             /\ IsBitcoin(vs[v].network)
                             /\ vs[v].network = vs[1].network

GoodCandidate(c) == c = <<>> \/ \E f : c = <<f>> /\ GoodFed(f)

FWInv == GoodStack(versions) /\ GoodCandidate(candidate)

\* with_federation keeps a good stack good.
LEMMA StackGrows ==
    ASSUME GoodStack(versions), NEW f, GoodFed(f), StackError(f) = "Ok"
    PROVE  GoodStack(Append(versions, f))
<1>1. PICK U : versions \in Seq(U)
  BY DEF GoodStack
<1> DEFINE W == U \cup {f}
           vs == Append(versions, f)
           n == Len(versions)
<1>2. versions \in Seq(W) /\ f \in W
  BY <1>1
<1> HIDE DEF W
<1>3. /\ vs \in Seq(W) /\ n \in Nat /\ Len(vs) = n + 1 /\ vs[n + 1] = f
      /\ \A v \in 1..n : vs[v] = versions[v]
  BY <1>2
<1>4. IsBitcoin(f.network) /\ (versions # <<>> => f.network = versions[1].network)
  BY DEF StackError
<1>5. n = 0 => versions = <<>>
  BY <1>1
<1>6. versions # <<>> => n >= 1
  BY <1>1, <1>5, <1>3
<1> HIDE DEF vs, n
<1>7. ASSUME NEW v \in 1..(n + 1)
      PROVE  GoodFed(vs[v]) /\ IsBitcoin(vs[v].network)
             /\ vs[v].network = vs[1].network
  <2>1. CASE v = n + 1
    <3>1. CASE versions = <<>>
      <4>1. n = 0
        BY <3>1 DEF n
      <4> QED BY <1>3, <1>4, <2>1, <4>1
    <3>2. CASE versions # <<>>
      <4>1. vs[1] = versions[1]
        BY <1>3, <1>6, <3>2
      <4> QED BY <1>3, <1>4, <2>1, <3>2, <4>1
    <3> QED BY <3>1, <3>2
  <2>2. CASE v # n + 1
    <3>1. v \in 1..n /\ 1 \in 1..n
      BY <1>3, <2>2
    <3>2. vs[v] = versions[v] /\ vs[1] = versions[1]
      BY <1>3, <3>1
    <3> QED BY <3>1, <3>2 DEF GoodStack, n
  <2> QED BY <2>1, <2>2
<1> QED BY <1>3, <1>7 DEF GoodStack, vs

\* Deriving a candidate keeps the invariant.
LEMMA DeriveInv ==
    ASSUME FWInv, NEW r, GoodResult(r), Derive(r)
    PROVE  FWInv'
BY DEF FWInv, GoodResult, GoodCandidate, Derive

\* The current version of a good stack is good.
LEMMA CurrentGood ==
    ASSUME FWInv, versions # <<>>
    PROVE  GoodFed(Current) /\ Len(versions) \in 1..Len(versions)
<1>1. PICK U : versions \in Seq(U)
  BY DEF FWInv, GoodStack
<1>2. Len(versions) \in Nat /\ Len(versions) # 0
  BY <1>1
<1>3. Len(versions) \in 1..Len(versions)
  BY <1>2
<1> QED BY <1>3 DEF FWInv, GoodStack, Current

\* Stacking the candidate keeps the invariant.
LEMMA StackInv ==
    ASSUME FWInv, Stack
    PROVE  FWInv'
<1>1. PICK f : candidate = <<f>> /\ GoodFed(f)
  BY DEF FWInv, GoodCandidate, Stack
<1>2. candidate[1] = f
  BY <1>1
<1>3. versions' = (IF StackError(f) = "Ok" THEN Append(versions, f) ELSE versions)
  BY <1>2 DEF Stack
<1>4. GoodStack(versions')
  BY <1>1, <1>3, StackGrows DEF FWInv
<1>5. GoodCandidate(candidate')
  BY DEF Stack, GoodCandidate
<1> QED BY <1>4, <1>5 DEF FWInv

\* Every step of the federated wallet keeps the invariant.
LEMMA FWNext ==
    ASSUME FWInv, Next
    PROVE  FWInv'
<1>m. Thresholds \in SUBSET Nat
  BY WalletAssumption DEF Thresholds
<1>1. CASE NewFederation
  <2>1. PICK l \in Founders, m \in Thresholds, net \in Network, c \in Configs :
            Derive(WithConfig(m, l, Config(net, c[1], c[2])))
    BY <1>1 DEF NewFederation
  <2>2. l \in Seq(Signer) /\ m \in Nat
    BY <1>m, WalletAssumption
  <2> QED BY <2>1, <2>2, WithConfigResult, DeriveInv
<1>2. CASE RotateSigner
  BY <1>2, CurrentGood, MutationsGood, DeriveInv DEF RotateSigner
<1>3. CASE AddSigner
  BY <1>3, CurrentGood, MutationsGood, DeriveInv DEF AddSigner
<1>4. CASE RemoveSigner
  BY <1>4, CurrentGood, MutationsGood, DeriveInv DEF RemoveSigner
<1>5. CASE ChangeThreshold
  BY <1>m, <1>5, CurrentGood, MutationsGood, DeriveInv DEF ChangeThreshold
<1>6. CASE MigrateRoster
  <2>1. PICK add \in Lists, remove \in Lists, m \in Thresholds :
            candidate' = RosterResult(add, remove, m).fed
    BY <1>6 DEF MigrateRoster
  <2>2. add \in Seq(Signer) /\ m \in Nat /\ GoodFed(Current)
    BY <1>m, <1>6, WalletAssumption, CurrentGood DEF MigrateRoster
  <2>3. GoodResult(RosterResult(add, remove, m))
    BY <2>2, RosterGood
  <2>4. versions' = versions
    BY <1>6 DEF MigrateRoster
  <2> QED BY <2>1, <2>3, <2>4 DEF FWInv, GoodResult, GoodCandidate
<1>7. CASE Stack
  BY <1>7, StackInv
<1>8. CASE Dismiss
  BY <1>8 DEF Dismiss, FWInv, GoodCandidate
<1> QED BY <1>1, <1>2, <1>3, <1>4, <1>5, <1>6, <1>7, <1>8 DEF Next

\* The invariant holds before the first federation.
LEMMA FWInit ==
    ASSUME Init
    PROVE  FWInv
<1>1. versions = <<>> /\ candidate = <<>>
  BY DEF Init
<1>2. versions \in Seq({}) /\ Len(versions) = 0
  BY <1>1
<1> QED BY <1>1, <1>2 DEF FWInv, GoodStack, GoodCandidate

\* The snapshot of a good stack passes its own verify().
LEMMA FWInvVerifies ==
    ASSUME FWInv
    PROVE  StackVerifies
<1> SUFFICES ASSUME versions # <<>>
             PROVE  /\ \A v \in DOMAIN versions :
                        /\ versions[v].threshold \in 1..Cardinality(Ids(versions[v].signers))
                        /\ Cardinality(Ids(versions[v].signers)) = Len(versions[v].signers)
                        /\ Len(versions[v].signers) >= 2
                    /\ wallet_snapshot_verify(
                           [v \in DOMAIN versions |-> from_federation(versions[v])],
                           versions[1].network) = "Ok"
  BY DEF StackVerifies
<1>1. PICK U : versions \in Seq(U)
  BY DEF FWInv, GoodStack
<1>2. DOMAIN versions = 1..Len(versions) /\ Len(versions) \in Nat /\ Len(versions) # 0
  BY <1>1
<1>3. \A v \in DOMAIN versions :
        GoodFed(versions[v]) /\ IsBitcoin(versions[v].network)
        /\ versions[v].network = versions[1].network
  BY <1>2 DEF FWInv, GoodStack
<1>4. ASSUME NEW v \in DOMAIN versions
      PROVE  /\ versions[v].threshold \in 1..Cardinality(Ids(versions[v].signers))
             /\ Cardinality(Ids(versions[v].signers)) = Len(versions[v].signers)
             /\ Len(versions[v].signers) >= 2
  BY <1>3, RosterFinite DEF GoodFed
<1> DEFINE snaps == [v \in DOMAIN versions |-> from_federation(versions[v])]
<1>5. ASSUME NEW v \in DOMAIN versions
      PROVE  snapshot_verify(snaps[v]) = "Ok" /\ snaps[v].network = versions[1].network
  <2> DEFINE f == versions[v]
             s == from_federation(f)
  <2>1. GoodFed(f) /\ IsBitcoin(f.network) /\ f.network = versions[1].network
    BY <1>3
  <2>2. snaps[v] = s
    OBVIOUS
  <2> HIDE DEF f
  <2>3. /\ s.descriptor = f.descriptor /\ s.threshold = f.threshold
        /\ s.total = Len(f.signers) /\ s.network = f.network /\ s.signers = f.signers
    BY DEF from_federation
  <2> HIDE DEF s
  <2>4. ~(s.threshold = 0 \/ s.threshold > s.total \/ Len(s.signers) # s.total)
    BY <2>1, <2>3 DEF GoodFed
  <2>5. s.descriptor # <<>>
    BY <2>1, <2>3 DEF GoodFed
  <2>6. ~ \E k \in DOMAIN s.signers :
              \A key \in ToSet(s.descriptor[1].keys) : key.fp # s.signers[k].fp
    <3>1. DOMAIN s.signers = 1..Len(f.signers)
      BY <2>1, <2>3 DEF GoodFed
    <3>2. \A k \in 1..Len(f.signers) :
            \E key \in ToSet(f.descriptor[1].keys) : key.fp = f.signers[k].fp
      BY <2>1 DEF GoodFed
    <3> QED BY <2>3, <3>1, <3>2
  <2>7. snapshot_verify(s) = "Ok"
    BY <2>4, <2>5, <2>6 DEF snapshot_verify
  <2> HIDE DEF snaps
  <2> QED BY <2>1, <2>2, <2>3, <2>7
<1>6. DOMAIN snaps = DOMAIN versions /\ snaps # <<>>
  BY <1>2
<1> HIDE DEF snaps
<1>7. wallet_snapshot_verify(snaps, versions[1].network) = "Ok"
  BY <1>5, <1>6 DEF wallet_snapshot_verify
<1> QED BY <1>4, <1>7 DEF snaps

\* Every version of the stack has a satisfiable threshold and distinct signers,
\* and the snapshot of the stack passes verify().
THEOREM StackVerifiesHolds == Spec => []StackVerifies
<1>1. Init => FWInv
  BY FWInit
<1>2. FWInv /\ [Next]_vars => FWInv'
  <2>1. CASE Next
    BY <2>1, FWNext
  <2>2. ASSUME FWInv, UNCHANGED vars PROVE FWInv'
    BY <2>2 DEF vars, FWInv
  <2> QED BY <2>1, <2>2
<1>3. FWInv => StackVerifies
  BY FWInvVerifies
<1> QED BY <1>1, <1>2, <1>3, PTL DEF Spec

----------------------------------------------------------------------------
(* The roster plan                                                         *)

\* A request that stands is what the candidate and the reply answer.
RosterInv ==
    request.asked =>
        /\ versions # <<>>
        /\ \E add, remove \in Lists, m \in Thresholds :
            /\ request.add = add /\ request.remove = remove /\ request.m = m
            /\ candidate = RosterResult(add, remove, m).fed
            /\ reply = RosterResult(add, remove, m).err

\* What a plan leads to depends on the stack alone.
LEMMA PlanFixed ==
    ASSUME versions' = versions, NEW CONSTANT add, NEW CONSTANT remove, NEW CONSTANT m
    PROVE  RosterResult(add, remove, m)' = RosterResult(add, remove, m)
BY DEF RosterResult, SignerOf, Current

\* Every step keeps it: a plan is answered at once, and whatever else sets the
\* candidate or the stack forgets the request.
LEMMA RosterStep ==
    ASSUME Next
    PROVE  RosterInv'
<1>1. CASE MigrateRoster
  <2>1. PICK add \in Lists, remove \in Lists, m \in Thresholds :
            /\ candidate' = RosterResult(add, remove, m).fed
            /\ reply' = RosterResult(add, remove, m).err
            /\ request' = [asked |-> TRUE, add |-> add, remove |-> remove, m |-> m]
    BY <1>1 DEF MigrateRoster
  <2>2. versions # <<>> /\ versions' = versions
    BY <1>1 DEF MigrateRoster
  <2>3. request'.add = add /\ request'.remove = remove /\ request'.m = m
    BY <2>1
  <2>4. RosterResult(add, remove, m)' = RosterResult(add, remove, m)
    BY <2>2, PlanFixed
  <2> QED BY <2>1, <2>2, <2>3, <2>4 DEF RosterInv
<1>2. CASE NewFederation \/ RotateSigner \/ AddSigner \/ RemoveSigner
           \/ ChangeThreshold \/ Stack \/ Dismiss
  <2>1. request' = NoRequest
    BY <1>2 DEF NewFederation, RotateSigner, AddSigner, RemoveSigner,
                ChangeThreshold, Derive, Stack, Dismiss
  <2> QED BY <2>1 DEF RosterInv, NoRequest
<1> QED BY <1>1, <1>2 DEF Next

\* A federation built from a roster plan is the one its delta leads to method
\* by method, and a delta the plan turns down leads nowhere, with the three
\* exceptions RosterAgrees names.
THEOREM RosterAgreesHolds == Spec => []RosterAgrees
<1>1. Init => FWInv /\ RosterInv
  <2> SUFFICES ASSUME Init PROVE RosterInv
    BY FWInit
  <2> QED BY DEF Init, NoRequest, RosterInv
<1>2. FWInv /\ RosterInv /\ [Next]_vars => FWInv' /\ RosterInv'
  <2>1. ASSUME FWInv, Next PROVE FWInv' /\ RosterInv'
    BY <2>1, FWNext, RosterStep
  <2>2. ASSUME FWInv, RosterInv, UNCHANGED vars PROVE FWInv' /\ RosterInv'
    <3>1. /\ versions' = versions /\ candidate' = candidate
          /\ request' = request /\ reply' = reply
      BY <2>2 DEF vars
    <3>2. FWInv'
      BY <2>2, <3>1 DEF FWInv
    <3>3. ASSUME request.asked PROVE RosterInv'
      <4>1. PICK add \in Lists, remove \in Lists, m \in Thresholds :
                /\ request.add = add /\ request.remove = remove /\ request.m = m
                /\ candidate = RosterResult(add, remove, m).fed
                /\ reply = RosterResult(add, remove, m).err
        BY <2>2, <3>3 DEF RosterInv
      <4>2. RosterResult(add, remove, m)' = RosterResult(add, remove, m)
        BY <3>1, PlanFixed
      <4>3. versions # <<>>
        BY <2>2, <3>3 DEF RosterInv
      <4> QED BY <3>1, <4>1, <4>2, <4>3 DEF RosterInv
    <3>4. ASSUME ~request.asked PROVE RosterInv'
      BY <3>1, <3>4 DEF RosterInv
    <3> QED BY <3>2, <3>3, <3>4
  <2> QED BY <2>1, <2>2
<1>3. FWInv /\ RosterInv => RosterAgrees
  <2> SUFFICES ASSUME FWInv, RosterInv, request.asked PROVE RosterAgrees
    BY DEF RosterAgrees
  <2> DEFINE r == RosterResult(request.add, request.remove, request.m)
             one == OneByOne(Current, request.add, request.remove, request.m)
  <2>1. /\ versions # <<>> /\ candidate = r.fed /\ reply = r.err
        /\ request.add \in Lists /\ request.remove \in Lists /\ request.m \in Thresholds
    BY DEF RosterInv
  <2>2. GoodFed(Current) /\ IsBitcoin(Current.network)
    BY <2>1, CurrentGood DEF FWInv, GoodStack, Current
  <2>3. /\ request.add \in Seq(Signer) /\ request.remove \in Seq(Signer)
        /\ NamesByIds(request.add) /\ NamesByIds(request.remove) /\ request.m \in Nat
    BY <2>1, WalletAssumption DEF Thresholds
  <2>4. IF r.err = "Ok" THEN one.fed = r.fed \/ Excused(one.err, Current, request.add)
        ELSE one.err # "Ok" \/ r.err = "AddAndRemove"
    BY <2>2, <2>3, RosterBoth
  <2> HIDE DEF r, one
  <2>5. IF reply = "Ok" THEN one.fed = candidate \/ Excused(one.err, Current, request.add)
        ELSE one.err # "Ok" \/ reply = "AddAndRemove"
    BY <2>1, <2>4
  <2> QED BY <2>5 DEF RosterAgrees, one, Excused
<1> QED BY <1>1, <1>2, <1>3, PTL DEF Spec

----------------------------------------------------------------------------
(* The relay                                                               *)

\* Enough members of every version are members of the current one, by id.
Covered ==
    \A v \in 1..Len(versions) :
        Cardinality(Ids(versions[v].signers) \cap Ids(Current.signers))
            >= versions[v].threshold

RelayInv == FWInv /\ Covered

\* The ids two rosters share can be counted.
LEMMA SharedIds ==
    ASSUME NEW f, GoodFed(f), NEW g
    PROVE  /\ IsFiniteSet(Ids(f.signers) \cap Ids(g.signers))
           /\ Cardinality(Ids(f.signers) \cap Ids(g.signers)) \in Nat
<1>1. IsFiniteSet(Ids(f.signers))
  BY RosterFinite DEF GoodFed
<1>2. IsFiniteSet(Ids(f.signers) \cap Ids(g.signers))
  BY <1>1, FS_Subset
<1> QED BY <1>2, FS_CardinalityType

\* A federation that is stacked while no version is at risk covers them all,
\* itself included.
LEMMA StackCovers ==
    ASSUME FWInv, Covered, StackHeeding
    PROVE  RelayInv'
<1>1. FWInv'
  BY StackInv DEF StackHeeding
<1>2. PICK f : candidate = <<f>> /\ GoodFed(f)
  BY DEF FWInv, GoodCandidate, StackHeeding
<1>3. candidate[1] = f
  BY <1>2
<1>4. versions' = (IF StackError(f) = "Ok" THEN Append(versions, f) ELSE versions)
  BY <1>3 DEF Stack, StackHeeding
<1>5. CASE StackError(f) # "Ok"
  <2>1. versions' = versions
    BY <1>4, <1>5
  <2> QED BY <1>1, <2>1 DEF RelayInv, Covered, Current
<1>6. CASE StackError(f) = "Ok"
  <2> DEFINE n == Len(versions)
             vs == Append(versions, f)
  <2>1. PICK U : versions \in Seq(U)
    BY DEF FWInv, GoodStack
  <2>2. DOMAIN versions = 1..n /\ n \in Nat
    BY <2>1
  <2>3. Len(vs) = n + 1 /\ vs[n + 1] = f /\ \A v \in 1..n : vs[v] = versions[v]
    BY <2>1, <2>2
  <2>4. versions' = vs
    BY <1>4, <1>6
  <2> HIDE DEF n, vs
  <2>5. Current' = f
    BY <2>3, <2>4 DEF Current
  <2>6. ASSUME NEW v \in 1..n
        PROVE  Cardinality(Ids(versions[v].signers) \cap Ids(f.signers))
                    >= versions[v].threshold
    <3>1. GoodFed(versions[v])
      BY DEF FWInv, GoodStack, n
    <3>2. Cardinality(Ids(versions[v].signers) \cap Ids(f.signers)) \in Nat
      BY <3>1, SharedIds
    <3>3. versions[v].threshold \in Int
      BY <3>1 DEF GoodFed
    <3>4. ~(Cardinality(Ids(versions[v].signers) \cap Ids(f.signers))
                < versions[v].threshold)
      BY <1>3, <2>2 DEF StackHeeding, historic_versions_at_risk
    <3> QED BY <3>2, <3>3, <3>4
  <2>7. Cardinality(Ids(f.signers) \cap Ids(f.signers)) >= f.threshold
    <3>1. Cardinality(Ids(f.signers)) = Len(f.signers)
      BY <1>2, RosterFinite DEF GoodFed
    <3>2. f.threshold <= Len(f.signers)
      BY <1>2 DEF GoodFed
    <3>3. Ids(f.signers) \cap Ids(f.signers) = Ids(f.signers)
      OBVIOUS
    <3> QED BY <3>1, <3>2, <3>3
  <2>8. ASSUME NEW v \in 1..(n + 1)
        PROVE  Cardinality(Ids(vs[v].signers) \cap Ids(f.signers))
                    >= vs[v].threshold
    <3>1. CASE v = n + 1
      BY <2>3, <2>7, <3>1
    <3>2. CASE v # n + 1
      <4>1. v \in 1..n
        BY <2>2, <3>2
      <4> QED BY <2>3, <2>6, <4>1
    <3> QED BY <3>1, <3>2
  <2>9. Covered'
    BY <2>3, <2>4, <2>5, <2>8 DEF Covered
  <2> QED BY <1>1, <2>9 DEF RelayInv
<1> QED BY <1>5, <1>6

\* Every step of the relay keeps the invariant.
LEMMA RelayStep ==
    ASSUME RelayInv, RelayNext
    PROVE  RelayInv'
<1>i. FWInv /\ Covered
  BY DEF RelayInv
<1>1. CASE ChangeFederation
  <2>1. Next
    BY <1>1 DEF ChangeFederation, Next
  <2>2. versions' = versions
    BY <1>1 DEF ChangeFederation, NewFederation, RotateSigner, AddSigner,
                RemoveSigner, ChangeThreshold, Dismiss, Derive
  <2>3. FWInv'
    BY <1>i, <2>1, FWNext
  <2> QED BY <1>i, <2>2, <2>3 DEF RelayInv, Covered, Current
<1>2. CASE StackHeeding
  BY <1>i, <1>2, StackCovers
<1>3. CASE (\E c \in Coin : Deposit(c)) \/ Sync \/ PlanMigrations \/ Broadcast
  <2>1. UNCHANGED vars
    BY <1>3 DEF Deposit, Sync, PlanMigrations, Broadcast
  <2> QED BY <1>i, <2>1 DEF vars, RelayInv, FWInv, Covered, Current
<1> QED BY <1>1, <1>2, <1>3 DEF RelayNext

\* The members of a version that the current one shares by id share their
\* keys too, unless one was re-keyed; so they are cosigners.
LEMMA RelayInvSpends ==
    ASSUME RelayInv
    PROVE  CoinsSpendable
<1> SUFFICES ASSUME NEW v \in DOMAIN versions, ~Rekeyed(v)
             PROVE  Signable(v)
  BY DEF CoinsSpendable
<1>1. PICK U : versions \in Seq(U)
  BY DEF RelayInv, FWInv, GoodStack
<1>2. v \in 1..Len(versions)
  BY <1>1
<1> DEFINE f == versions[v]
           c == Current
           I == Ids(f.signers) \cap Ids(c.signers)
           C == Cosigners(v)
           g == [s \in C |-> s.id]
<1>3. GoodFed(f) /\ versions # <<>> /\ Cardinality(I) >= f.threshold
  BY <1>1, <1>2 DEF RelayInv, FWInv, GoodStack, Covered
<1>4. GoodFed(c)
  BY <1>3, CurrentGood DEF RelayInv
<1>5. C = ToSet(f.signers) \cap ToSet(c.signers)
  BY DEF Cosigners
<1>6. \A s \in ToSet(f.signers) : s.id \in Ids(c.signers) => s \in ToSet(c.signers)
  BY DEF Rekeyed, signer_is_current
<1>s. Signable(v) <=> Cardinality(C) >= f.threshold
  BY DEF Signable
<1> HIDE DEF f, c, C
<1>7. \A x \in Ids(f.signers) : \E s \in ToSet(f.signers) : s.id = x
  BY DEF Ids, ToSet
<1>8. /\ \A s \in ToSet(f.signers) : s.id \in Ids(f.signers)
      /\ \A s \in ToSet(c.signers) : s.id \in Ids(c.signers)
  BY DEF Ids, ToSet
<1>9. \A x \in I : \E s \in C : g[s] = x
  BY <1>5, <1>6, <1>7
<1>10. \A s \in C : g[s] \in I
  BY <1>5, <1>8
<1>11. g \in [C -> I]
  BY <1>10
<1> HIDE DEF g, I
<1>12. g \in Surjection(C, I)
  BY <1>9, <1>11 DEF Surjection
<1>13. IsFiniteSet(C)
  <2>1. IsFiniteSet(ToSet(f.signers))
    BY <1>3, RosterFinite DEF GoodFed
  <2> QED BY <1>5, <2>1, FS_Subset
<1>14. IsFiniteSet(I) /\ Cardinality(I) <= Cardinality(C)
  BY <1>12, <1>13, FS_Surjection
<1>15. Cardinality(I) \in Nat /\ Cardinality(C) \in Nat /\ f.threshold \in Nat
  BY <1>3, <1>13, <1>14, FS_CardinalityType DEF GoodFed
<1> QED BY <1>3, <1>14, <1>15, <1>s

\* Wherever a coin arrives, the current members can spend it if the warnings of
\* historic_versions_at_risk were heeded, unless a member was re-keyed.
THEOREM CoinsSpendableHolds == RelaySpec => []CoinsSpendable
<1>1. RelayInit => RelayInv
  <2> SUFFICES ASSUME RelayInit PROVE RelayInv
    OBVIOUS
  <2>1. FWInv
    BY FWInit DEF RelayInit
  <2>2. versions = <<>>
    BY DEF RelayInit, Init
  <2>3. Len(versions) = 0
    BY <2>2
  <2> QED BY <2>1, <2>3 DEF RelayInv, Covered
<1>2. RelayInv /\ [RelayNext]_relayVars => RelayInv'
  <2>1. CASE RelayNext
    BY <2>1, RelayStep
  <2>2. ASSUME RelayInv, UNCHANGED relayVars PROVE RelayInv'
    BY <2>2 DEF relayVars, vars, RelayInv, FWInv, Covered, Current
  <2> QED BY <2>1, <2>2
<1>3. RelayInv => CoinsSpendable
  BY RelayInvSpends
<1> QED BY <1>1, <1>2, <1>3, PTL DEF RelaySpec

============================================================================
