-------------------------- MODULE DescriptorProofs --------------------------
(***************************************************************************)
(* Facts about rosters, descriptors and federations, for every set of      *)
(* signers and networks.                                                   *)
(***************************************************************************)
EXTENDS Federation, ListProofs

----------------------------------------------------------------------------
(* Rosters                                                                 *)

DistinctIds(ss) == \A i, j \in 1..Len(ss) : ss[i].id = ss[j].id => i = j

\* A list has finitely many elements, and a roster without repeated ids as
\* many ids as signers.
LEMMA RosterFinite ==
    ASSUME NEW ss \in Seq(Signer)
    PROVE  /\ IsFiniteSet(ToSet(ss)) /\ ToSet(ss) \in SUBSET Signer
           /\ IsFiniteSet(Ids(ss))
           /\ DistinctIds(ss) => Cardinality(Ids(ss)) = Len(ss)
<1> DEFINE n == Len(ss)
           ids == [k \in 1..n |-> ss[k].id]
<1>1. n \in Nat /\ DOMAIN ss = 1..n /\ ss \in [1..n -> Signer]
  OBVIOUS
<1>2. IsFiniteSet(1..n) /\ Cardinality(1..n) = n
  BY <1>1, FS_Interval, SMTT(30)
<1> HIDE DEF n
<1>3. ss \in Surjection(1..n, ToSet(ss)) /\ ToSet(ss) \in SUBSET Signer
  BY <1>1 DEF ToSet, Surjection
<1>4. ids \in Surjection(1..n, Ids(ss))
  BY <1>1 DEF Ids, Surjection
<1>5. DistinctIds(ss) => ids \in Injection(1..n, Ids(ss))
  BY <1>4 DEF DistinctIds, Surjection, Injection, IsInjective, n
<1> HIDE DEF ids
<1>6. IsFiniteSet(ToSet(ss))
  BY <1>2, <1>3, FS_Surjection
<1>7. IsFiniteSet(Ids(ss)) /\ (DistinctIds(ss) => Cardinality(Ids(ss)) = n)
  BY <1>2, <1>4, <1>5, FS_Surjection
<1> QED BY <1>3, <1>6, <1>7 DEF n

\* Signers are records with an id and a key; ids in a roster are unique.
LEMMA SignerNumbers ==
    ASSUME NEW ss \in Seq(Signer), DistinctIds(ss)
    PROVE  /\ \A s \in ToSet(ss) : s.id \in Nat /\ s.key \in Nat
           /\ \A s, t \in ToSet(ss) : s.id = t.id => s = t
<1>1. \A s \in ToSet(ss) : s.id \in Nat /\ s.key \in Nat
  BY SignerAssumption, RosterFinite
<1>2. ASSUME NEW s \in ToSet(ss), NEW t \in ToSet(ss), s.id = t.id PROVE s = t
  <2>1. PICK i \in 1..Len(ss) : ss[i] = s
    BY DEF ToSet
  <2>2. PICK j \in 1..Len(ss) : ss[j] = t
    BY DEF ToSet
  <2> QED BY <1>2, <2>1, <2>2 DEF DistinctIds
<1> QED BY <1>1, <1>2

\* Of some signers, one has the least id.
LEMMA LeastId ==
    ASSUME NEW T, T # {}, \A s \in T : s.id \in Nat,
           \A s, t \in T : s.id = t.id => s = t
    PROVE  \E m \in T : \A t \in T \ {m} : m.id < t.id
<1> DEFINE D == {t.id : t \in T}
<1>1. D \in SUBSET Nat /\ D # {}
  OBVIOUS
<1>2. \A t \in T : t.id \in D
  OBVIOUS
<1>3. \A x \in D : \E t \in T : t.id = x
  OBVIOUS
<1> HIDE DEF D
<1>4. PICK x \in D : \A y \in D : x <= y
  BY <1>1, LeastNat
<1>5. PICK m \in T : m.id = x
  BY <1>3
<1>6. ASSUME NEW t \in T \ {m} PROVE m.id < t.id
  <2>1. m.id <= t.id /\ m.id # t.id
    BY <1>2, <1>4, <1>5
  <2> QED BY <2>1
<1> QED BY <1>6

\* A set of numbers some signers have has a least one.
LEMMA LeastKey ==
    ASSUME NEW T, T # {}, \A s \in T : s.key \in Nat
    PROVE  \E m \in T : \A t \in T : m.key <= t.key
<1> DEFINE D == {t.key : t \in T}
<1>1. D \in SUBSET Nat /\ D # {}
  OBVIOUS
<1>2. \A t \in T : t.key \in D
  OBVIOUS
<1>3. \A x \in D : \E t \in T : t.key = x
  OBVIOUS
<1> HIDE DEF D
<1>4. PICK x \in D : \A y \in D : x <= y
  BY <1>1, LeastNat
<1>5. PICK m \in T : m.key = x
  BY <1>3
<1> QED BY <1>2, <1>4, <1>5

\* f is the roster in some order.
ReordersRoster(f, ss) ==
    f \in [1..Len(ss) -> ToSet(ss)] /\ IsInjective(f) /\ ToSet(f) = ToSet(ss)

\* The entries of the builder and the sorted taproot keys are the roster, the
\* latter with rising keys.
LEMMA SortedRoster ==
    ASSUME NEW ss \in Seq(Signer), DistinctIds(ss)
    PROVE  /\ ReordersRoster(entries(ss), ss) /\ ReordersRoster(sorted_taproot_keys(ss), ss)
           /\ \A i, j \in 1..Len(ss) : i < j =>
                sorted_taproot_keys(ss)[i].key <= sorted_taproot_keys(ss)[j].key
<1> DEFINE S == ToSet(ss)
           byId == {p \in S \X S : p[1].id < p[2].id}
           byKey == {p \in S \X S :
                p[1].key < p[2].key \/ (p[1].key = p[2].key /\ p[1].id < p[2].id)}
<1>1. /\ \A s \in S : s.id \in Nat /\ s.key \in Nat
      /\ \A s, t \in S : s.id = t.id => s = t
  BY SignerNumbers
<1>2. IsFiniteSet(S)
  BY RosterFinite
<1>e. entries(ss) = SortedBy(S, byId) /\ sorted_taproot_keys(ss) = SortedBy(S, byKey)
  BY DEF entries, sorted_taproot_keys
<1> HIDE DEF S
<1>3. WellOrders(byId, S)
  <2> SUFFICES ASSUME NEW T \in SUBSET S, T # {}
               PROVE  \E m \in T : \A t \in T \ {m} : <<m, t>> \in byId
    BY DEF WellOrders
  <2>1. PICK m \in T : \A t \in T \ {m} : m.id < t.id
    BY <1>1, LeastId
  <2>2. \A t \in T \ {m} : <<m, t>> \in byId
    BY <2>1
  <2> QED BY <2>2
<1>4. WellOrders(byKey, S)
  <2> SUFFICES ASSUME NEW T \in SUBSET S, T # {}
               PROVE  \E m \in T : \A t \in T \ {m} : <<m, t>> \in byKey
    BY DEF WellOrders
  <2>1. PICK k \in T : \A t \in T : k.key <= t.key
    BY <1>1, LeastKey
  <2> DEFINE L == {t \in T : t.key = k.key}
  <2>2. L # {} /\ L \in SUBSET T
    OBVIOUS
  <2>3. PICK m \in L : \A t \in L \ {m} : m.id < t.id
    BY <1>1, <2>2, LeastId
  <2>4. ASSUME NEW t \in T \ {m}
        PROVE  m.key < t.key \/ (m.key = t.key /\ m.id < t.id)
    <3>1. CASE t.key = k.key
      BY <2>3, <3>1
    <3>2. CASE t.key # k.key
      <4>1. k.key <= t.key /\ k.key \in Nat /\ t.key \in Nat /\ m.key = k.key
        BY <1>1, <2>1, <2>3
      <4> QED BY <3>2, <4>1
    <3> QED BY <3>1, <3>2
  <2>5. m \in T /\ \A t \in T \ {m} : <<m, t>> \in byKey
    BY <2>3, <2>4
  <2> QED BY <2>5
<1> HIDE DEF byId, byKey
<1>5. SortOf(entries(ss), S, byId) /\ SortOf(sorted_taproot_keys(ss), S, byKey)
  BY <1>2, <1>3, <1>4, <1>e, SortedByIs
<1>6. Cardinality(S) = Len(ss) /\ Len(ss) \in Nat
  <2>1. IsInjective(ss)
    BY DEF DistinctIds, IsInjective
  <2> QED BY <2>1, InjectiveLength DEF S
<1>7. ASSUME NEW f, NEW before, SortOf(f, S, before),
             \A s \in S : <<s, s>> \notin before
      PROVE  ReordersRoster(f, ss)
  <2>1. f \in [1..Len(ss) -> S]
    BY <1>6, <1>7 DEF SortOf
  <2>2. \A i, j \in 1..Len(ss) : i < j => f[i] # f[j]
    BY <1>7, <2>1 DEF SortOf, Sorts
  <2>3. IsInjective(f)
    <3> SUFFICES ASSUME NEW i \in 1..Len(ss), NEW j \in 1..Len(ss), f[i] = f[j]
                 PROVE  i = j
      BY <2>1 DEF IsInjective
    <3>1. ~(i < j) /\ ~(j < i)
      BY <2>2
    <3> QED BY <1>6, <3>1
  <2>4. ToSet(f) = S
    BY <1>7, <2>1 DEF SortOf, Sorts, ToSet
  <2> QED BY <2>1, <2>3, <2>4 DEF ReordersRoster, S
<1>8. \A s \in S : <<s, s>> \notin byId /\ <<s, s>> \notin byKey
  BY <1>1 DEF byId, byKey
<1>9. ReordersRoster(entries(ss), ss) /\ ReordersRoster(sorted_taproot_keys(ss), ss)
  BY <1>5, <1>7, <1>8
<1>10. ASSUME NEW i \in 1..Len(ss), NEW j \in 1..Len(ss), i < j
       PROVE  sorted_taproot_keys(ss)[i].key <= sorted_taproot_keys(ss)[j].key
  <2> DEFINE f == sorted_taproot_keys(ss)
  <2>1. f \in [1..Len(ss) -> S]
    BY <1>9 DEF ReordersRoster, S
  <2>2. <<f[i], f[j]>> \in byKey
    BY <1>5, <1>10, <2>1 DEF SortOf, Sorts
  <2>3. f[i] \in S /\ f[j] \in S
    BY <2>1
  <2> HIDE DEF f
  <2>4. f[i].key < f[j].key \/ f[i].key = f[j].key
    BY <2>2 DEF byKey
  <2>5. f[i].key \in Nat /\ f[j].key \in Nat
    BY <1>1, <2>3
  <2> QED BY <2>4, <2>5 DEF f
<1> QED BY <1>9, <1>10

----------------------------------------------------------------------------
(* Federations                                                             *)

\* The signers know the network, and on a Bitcoin network their keys are of its
\* kind.
SignersFit(ss, net) ==
    \A k \in 1..Len(ss) : /\ net \in ss[k].networks
                          /\ IsBitcoin(net) => ss[k].kind = NetworkKind(net)

\* What with_config makes sure of.
GoodFed(f) ==
    /\ f.signers \in Seq(Signer) /\ Len(f.signers) >= 2
    /\ f.threshold \in 1..Len(f.signers)
    /\ DistinctIds(f.signers) /\ SignersFit(f.signers, f.network)
    /\ IsBitcoin(f.network) =>
        /\ f.descriptor # <<>>
        /\ \A k \in 1..Len(f.signers) :
            \E key \in ToSet(f.descriptor[1].keys) : key.fp = f.signers[k].fp

\* A descriptor names every signer it was built from.
LEMMA BuildNamesAll ==
    ASSUME NEW ss \in Seq(Signer), DistinctIds(ss), NEW b, NEW k \in 1..Len(ss)
    PROVE  \E key \in ToSet(Build(b, ss).keys) : key.fp = ss[k].fp
<1> DEFINE members == IF b.script = "Wsh" THEN entries(ss) ELSE sorted_taproot_keys(ss)
           keys == [i \in DOMAIN members |-> build_descriptor_key(b.mode, members[i])]
<1>1. Build(b, ss).keys = keys
  BY DEF Build
<1>2. ss[k] \in ToSet(ss)
  BY DEF ToSet
<1>3. PICK i \in DOMAIN members : members[i] = ss[k]
  <2>1. ReordersRoster(members, ss)
    BY SortedRoster
  <2> HIDE DEF members
  <2> QED BY <1>2, <2>1 DEF ReordersRoster, ToSet
<1> HIDE DEF members
<1>4. keys[i] \in ToSet(keys)
  BY DEF ToSet
<1>5. keys[i].fp = ss[k].fp
  BY <1>3 DEF build_descriptor_key
<1> HIDE DEF keys
<1> QED BY <1>1, <1>4, <1>5

\* What with_config has checked when it builds a federation.
LEMMA ConfigOkIs ==
    ASSUME NEW m, NEW ss \in Seq(Signer), NEW c, ConfigError(m, ss, c) = "Ok"
    PROVE  /\ m # 0 /\ ~(Len(ss) < 2) /\ ~(m > Len(ss))
           /\ DistinctIds(ss) /\ SignersFit(ss, c.network)
<1>1. validate_inputs(m, ss, c.network) = "Ok"
  BY DEF ConfigError
<1>2. m # 0 /\ ~(Len(ss) < 2) /\ ~(m > Len(ss)) /\ SignerError(ss, c.network) = "Ok"
  BY <1>1 DEF validate_inputs
<1>3. \A k \in DOMAIN ss : /\ ~ \E j \in 1..(k - 1) : ss[j].id = ss[k].id
                           /\ c.network \in ss[k].networks
  BY <1>2 DEF SignerError
<1>4. DistinctIds(ss)
  <2> SUFFICES ASSUME NEW i \in 1..Len(ss), NEW j \in 1..Len(ss),
                      ss[i].id = ss[j].id, i < j
               PROVE  FALSE
    BY DEF DistinctIds
  <2>1. j \in DOMAIN ss /\ i \in 1..(j - 1)
    OBVIOUS
  <2> QED BY <1>3, <2>1
<1>5. IsBitcoin(c.network) =>
        \A k \in DOMAIN ss : ss[k].kind = NetworkKind(c.network)
  <2> SUFFICES ASSUME IsBitcoin(c.network)
               PROVE  \A k \in DOMAIN ss : ss[k].kind = NetworkKind(c.network)
    OBVIOUS
  <2>1. BuildError(BuilderOf(m, c), ss) = "Ok"
    BY <1>1 DEF ConfigError
  <2>2. BuilderOf(m, c).network = c.network
    BY DEF BuilderOf, Builder
  <2> HIDE DEF BuilderOf
  <2> QED BY <2>1, <2>2 DEF BuildError
<1>6. SignersFit(ss, c.network)
  BY <1>3, <1>5 DEF SignersFit
<1> QED BY <1>2, <1>4, <1>6

\* What can be in the way of n signers with nothing else wrong with them: equal
\* keys, or too many of them.
Tolerated(n, c) ==
    {"Ok", "DuplicateKey"} \cup {e \in {"Miniscript"} : n > MaxKeys(c.script)}

\* What can be in the way of some signers can be in the way of more.
LEMMA ToleratedMore ==
    ASSUME NEW a \in Nat, NEW b \in Nat, a <= b, NEW c, NEW e \in Tolerated(a, c)
    PROVE  e \in Tolerated(b, c)
BY KeyLimitAssumption DEF Tolerated, MaxKeys

\* A roster with nothing else wrong with it can only have equal keys, or too
\* many.
LEMMA ConfigErrorIs ==
    ASSUME NEW ss \in Seq(Signer), NEW m \in 1..Len(ss), Len(ss) >= 2, NEW c,
           DistinctIds(ss), SignersFit(ss, c.network), IsBitcoin(c.network)
    PROVE  ConfigError(m, ss, c) \in Tolerated(Len(ss), c)
<1>1. DOMAIN ss = 1..Len(ss) /\ Len(ss) \in Nat /\ ss # <<>>
  OBVIOUS
<1>2. SignerError(ss, c.network) = "Ok"
  <2>1. ASSUME NEW k \in DOMAIN ss
        PROVE  /\ ~ \E j \in 1..(k - 1) : ss[j].id = ss[k].id
               /\ c.network \in ss[k].networks
    <3>1. ASSUME NEW j \in 1..(k - 1) PROVE ss[j].id # ss[k].id
      <4>1. j \in 1..Len(ss) /\ k \in 1..Len(ss) /\ j # k
        BY <1>1
      <4> QED BY <4>1 DEF DistinctIds
    <3> QED BY <1>1, <3>1 DEF SignersFit
  <2> QED BY <2>1 DEF SignerError
<1>3. validate_inputs(m, ss, c.network) = "Ok"
  BY <1>1, <1>2 DEF validate_inputs
<1> DEFINE b == BuilderOf(m, c)
<1>4. b.network = c.network /\ b.threshold = m /\ b.script = c.script
  BY DEF BuilderOf, Builder
<1> HIDE DEF b
<1>5. \A k \in DOMAIN ss : ss[k].kind = NetworkKind(b.network)
  BY <1>1, <1>4 DEF SignersFit
<1>6. BuildError(b, ss) \in Tolerated(Len(ss), c)
  BY <1>1, <1>4, <1>5 DEF BuildError, Tolerated
<1> QED BY <1>3, <1>6 DEF ConfigError, b

\* with_config builds good federations, of the network it is asked for.
LEMMA WithConfigGood ==
    ASSUME NEW m \in Nat, NEW ss \in Seq(Signer), NEW c
    PROVE  \/ WithConfig(m, ss, c).fed = <<>>
           \/ \E f : WithConfig(m, ss, c).fed = <<f>> /\ GoodFed(f)
<1> SUFFICES ASSUME ConfigError(m, ss, c) = "Ok"
             PROVE  \E f : WithConfig(m, ss, c).fed = <<f>> /\ GoodFed(f)
  BY DEF WithConfig
<1> DEFINE f == Fed(m, ss, c)
<1>1. WithConfig(m, ss, c).fed = <<f>>
  BY DEF WithConfig
<1>2. /\ m # 0 /\ ~(Len(ss) < 2) /\ ~(m > Len(ss))
      /\ DistinctIds(ss) /\ SignersFit(ss, c.network)
  BY ConfigOkIs
<1>5. /\ f.signers = ss /\ f.threshold = m /\ f.network = c.network
      /\ f.descriptor = IF IsBitcoin(c.network) THEN <<Build(BuilderOf(m, c), ss)>>
                                                ELSE <<>>
  BY DEF Fed
<1> HIDE DEF f
<1>6. IsBitcoin(f.network) =>
        /\ f.descriptor # <<>>
        /\ \A k \in 1..Len(f.signers) :
            \E key \in ToSet(f.descriptor[1].keys) : key.fp = f.signers[k].fp
  <2>1. ASSUME IsBitcoin(f.network)
        PROVE  f.descriptor # <<>> /\ f.descriptor[1] = Build(BuilderOf(m, c), ss)
    BY <1>5, <2>1
  <2> QED BY <1>2, <1>5, <2>1, BuildNamesAll
<1>7. GoodFed(f)
  <2>1. Len(ss) >= 2 /\ m \in 1..Len(ss)
    BY <1>2
  <2> QED BY <1>2, <1>5, <1>6, <2>1 DEF GoodFed
<1> QED BY <1>1, <1>7

\* A result is an error without a federation or a good federation.
GoodResult(r) == r.fed = <<>> \/ \E f : r.fed = <<f>> /\ GoodFed(f)

\* An error is a result.
LEMMA FailedGood ==
    ASSUME NEW e
    PROVE  GoodResult(Failed(e))
BY DEF GoodResult, Failed

\* with_config gives a result.
LEMMA WithConfigResult ==
    ASSUME NEW m \in Nat, NEW ss \in Seq(Signer), NEW c
    PROVE  GoodResult(WithConfig(m, ss, c))
BY WithConfigGood DEF GoodResult

----------------------------------------------------------------------------
(* Descriptors in closed form: the roster in some order, with one wildcard *)
(* for all keys.                                                           *)

Members(script, ss) == IF script = "Wsh" THEN entries(ss) ELSE sorted_taproot_keys(ss)

KeyList(f, w) ==
    [k \in DOMAIN f |-> [fp |-> f[k].fp, path |-> f[k].path, key |-> f[k].key, wild |-> w]]

Desc(script, m, f, w, internal) ==
    [script |-> script, threshold |-> m, keys |-> KeyList(f, w), internal |-> internal]

Wild(mode) == IF mode = "Ranged" THEN "external" ELSE "fixed"

Lifted(w) == IF w = "external" THEN "both" ELSE w

InternalOf(script, net, internal, w) ==
    IF script = "Wsh" THEN <<>>
    ELSE IF internal = <<>> THEN <<"raw">>
    ELSE <<NetworkKind(net), internal[1], w>>

\* build(): the members with the wildcard of the key mode.
LEMMA BuildIs ==
    ASSUME NEW m, NEW net, NEW mode, NEW script, NEW internal, NEW ss
    PROVE  Build(Builder(m, net, mode, script, internal), ss)
             = Desc(script, m, Members(script, ss), Wild(mode),
                    InternalOf(script, net, internal, "external"))
<1> DEFINE b == Builder(m, net, mode, script, internal)
<1>1. /\ b.threshold = m /\ b.network = net /\ b.mode = mode /\ b.script = script
      /\ b.internal = internal
  BY DEF Builder
<1> HIDE DEF b
<1>2. taproot_internal_key(b) = IF internal = <<>> THEN <<"raw">>
                                ELSE <<NetworkKind(net), internal[1], "external">>
  BY <1>1 DEF taproot_internal_key
<1>3. \A s : build_descriptor_key(mode, s)
               = [fp |-> s.fp, path |-> s.path, key |-> s.key, wild |-> Wild(mode)]
  BY DEF build_descriptor_key, Wild
<1>4. Build(b, ss) =
        [script |-> script, threshold |-> m,
         keys |-> [k \in DOMAIN Members(script, ss) |->
                        build_descriptor_key(mode, Members(script, ss)[k])],
         internal |-> InternalOf(script, net, internal, "external")]
  BY <1>1, <1>2 DEF Build, Members, InternalOf
<1>5. [k \in DOMAIN Members(script, ss) |-> build_descriptor_key(mode, Members(script, ss)[k])]
        = KeyList(Members(script, ss), Wild(mode))
  BY <1>3 DEF KeyList
<1> QED BY <1>4, <1>5 DEF Desc, b

\* to_multipath_string changes the wildcards and nothing else.
LEMMA LiftIs ==
    ASSUME NEW m, NEW net, NEW script, NEW internal, NEW f, NEW w \in {"external", "fixed"}
    PROVE  to_multipath_string(Desc(script, m, f, w, InternalOf(script, net, internal, "external")))
             = Desc(script, m, f, Lifted(w), InternalOf(script, net, internal, "both"))
<1> DEFINE d == Desc(script, m, f, w, InternalOf(script, net, internal, "external"))
           up(x) == IF x = "external" THEN "both" ELSE x
           keys == [k \in DOMAIN d.keys |-> [d.keys[k] EXCEPT !.wild = up(@)]]
           nums == [k \in DOMAIN d.internal |->
                        IF k = 3 THEN up(d.internal[k]) ELSE d.internal[k]]
<1>1. /\ d.keys = KeyList(f, w) /\ d.script = script /\ d.threshold = m
      /\ d.internal = InternalOf(script, net, internal, "external")
  BY DEF Desc
<1>2. to_multipath_string(d)
        = [script |-> script, threshold |-> m, keys |-> keys, internal |-> nums]
  BY <1>1 DEF to_multipath_string
<1>3. keys = KeyList(f, Lifted(w))
  <2>1. DOMAIN keys = DOMAIN f /\ DOMAIN KeyList(f, Lifted(w)) = DOMAIN f
    BY <1>1 DEF KeyList
  <2>2. ASSUME NEW k \in DOMAIN f PROVE keys[k] = KeyList(f, Lifted(w))[k]
    <3>1. d.keys[k] = [fp |-> f[k].fp, path |-> f[k].path, key |-> f[k].key, wild |-> w]
      BY <1>1 DEF KeyList
    <3>2. keys[k] = [d.keys[k] EXCEPT !.wild = up(@)]
      BY <2>1
    <3>3. keys[k] = [fp |-> f[k].fp, path |-> f[k].path, key |-> f[k].key, wild |-> up(w)]
      BY <3>1, <3>2
    <3> QED BY <3>3 DEF KeyList, Lifted
  <2> QED BY <2>1, <2>2 DEF KeyList
<1>4. nums = InternalOf(script, net, internal, "both")
  <2>1. CASE script = "Wsh"
    BY <1>1, <2>1 DEF InternalOf
  <2>2. CASE script # "Wsh" /\ internal = <<>>
    BY <1>1, <2>2 DEF InternalOf
  <2>3. CASE script # "Wsh" /\ internal # <<>>
    BY <1>1, <2>3 DEF InternalOf
  <2> QED BY <2>1, <2>2, <2>3
<1> HIDE DEF d, keys, nums
<1> QED BY <1>2, <1>3, <1>4 DEF Desc, d

\* What a device derives from a policy is a taproot descriptor on both chains.
LEMMA ExpandIs ==
    ASSUME NEW m, NEW net, NEW cc, NEW ss
    PROVE  Expand(bip388_taproot_policy(Builder(m, net, "Ranged", "Tr", <<cc>>), ss))
             = Desc("Tr", m, sorted_taproot_keys(ss), "both",
                    InternalOf("Tr", net, <<cc>>, "both"))
<1> DEFINE b == Builder(m, net, "Ranged", "Tr", <<cc>>)
           f == sorted_taproot_keys(ss)
           policy == bip388_taproot_policy(b, ss)
<1>1. b.threshold = m /\ b.network = net /\ b.internal[1] = cc
  BY DEF Builder
<1> HIDE DEF b
<1>2. /\ policy.threshold = m /\ policy.nums = <<NetworkKind(net), cc>>
      /\ policy.keys = [k \in DOMAIN f |->
                            [fp |-> f[k].fp, path |-> f[k].path, key |-> f[k].key]]
  BY <1>1 DEF bip388_taproot_policy
<1> HIDE DEF policy, f
<1>3. [k \in DOMAIN policy.keys |->
            [fp |-> policy.keys[k].fp, path |-> policy.keys[k].path,
             key |-> policy.keys[k].key, wild |-> "both"]] = KeyList(f, "both")
  BY <1>2 DEF KeyList
<1>4. Append(policy.nums, "both") = <<NetworkKind(net), cc, "both">>
  <2> DEFINE kind == NetworkKind(net)
             S == {kind, cc, "both"}
             u == Append(<<kind, cc>>, "both")
  <2> HIDE DEF kind
  <2>1. <<kind, cc>> \in Seq(S) /\ "both" \in S
    OBVIOUS
  <2>2. u \in Seq(S) /\ Len(u) = 3 /\ u[1] = kind /\ u[2] = cc /\ u[3] = "both"
    BY <2>1
  <2> HIDE DEF u, S
  <2>3. u = <<kind, cc, "both">>
    BY <2>2
  <2> QED BY <1>2, <2>3 DEF u, kind
<1>5. InternalOf("Tr", net, <<cc>>, "both") = <<NetworkKind(net), cc, "both">>
  BY DEF InternalOf
<1> QED BY <1>2, <1>3, <1>4, <1>5 DEF Expand, Desc, policy, f, b

----------------------------------------------------------------------------
(* Scripts                                                                 *)

\* The child keys of the three kinds of keys.
LEMMA ChildIs ==
    ASSUME NEW key, NEW chain, NEW index
    PROVE  /\ Child(key, "fixed", chain, index) = <<key>>
           /\ Child(key, "external", chain, index) = <<key, 0, index>>
           /\ Child(key, "both", chain, index) = <<key, chain, index>>
BY DEF Child

Children(f, w, chain, index) == [k \in DOMAIN f |-> Child(f[k].key, w, chain, index)]

InternalAt(internal, chain, index) ==
    IF Len(internal) < 3 THEN internal
    ELSE Child(<<internal[1], internal[2]>>, internal[3], chain, index)

\* The script of a descriptor in closed form.
LEMMA ScriptIs ==
    ASSUME NEW script, NEW m, NEW f, NEW w, NEW internal, NEW chain, NEW index
    PROVE  ScriptAt(Desc(script, m, f, w, internal), chain, index)
             = [script |-> script, threshold |-> m,
                keys |-> IF script = "Tr" THEN Children(f, w, chain, index)
                         ELSE ToBag(Children(f, w, chain, index)),
                internal |-> InternalAt(internal, chain, index)]
<1> DEFINE d == Desc(script, m, f, w, internal)
<1>1. /\ d.script = script /\ d.threshold = m /\ d.keys = KeyList(f, w)
      /\ d.internal = internal
  BY DEF Desc
<1> HIDE DEF d
<1>2. [k \in DOMAIN d.keys |-> Child(d.keys[k].key, d.keys[k].wild, chain, index)]
        = Children(f, w, chain, index)
  BY <1>1 DEF KeyList, Children
<1> QED BY <1>1, <1>2 DEF ScriptAt, InternalAt, d

\* A raw internal key has no addresses of its own; the NUMS xpub does.
LEMMA InternalAtIs ==
    ASSUME NEW net, NEW script, NEW internal, NEW chain, NEW index
    PROVE  LET at == InternalAt(InternalOf(script, net, internal, "both"), chain, index)
           IN  /\ script = "Wsh" => at = <<>>
               /\ script # "Wsh" /\ internal = <<>> => at = <<"raw">>
               /\ script # "Wsh" /\ internal # <<>> =>
                    at = <<<<NetworkKind(net), internal[1]>>, chain, index>>
<1> DEFINE k == InternalOf(script, net, internal, "both")
           at == InternalAt(k, chain, index)
<1>1. CASE script = "Wsh"
  BY <1>1 DEF InternalAt, InternalOf
<1>2. CASE script # "Wsh" /\ internal = <<>>
  BY <1>2 DEF InternalAt, InternalOf
<1>3. CASE script # "Wsh" /\ internal # <<>>
  <2>1. k = <<NetworkKind(net), internal[1], "both">>
    BY <1>3 DEF InternalOf
  <2>2. Len(k) = 3 /\ k[3] = "both" /\ k[1] = NetworkKind(net) /\ k[2] = internal[1]
    BY <2>1
  <2> HIDE DEF k
  <2>3. at = Child(<<NetworkKind(net), internal[1]>>, "both", chain, index)
    BY <2>2 DEF InternalAt
  <2> QED BY <1>3, <2>3, ChildIs DEF k
<1> QED BY <1>1, <1>2, <1>3

----------------------------------------------------------------------------
(* What the checks of the builder make sure of                             *)

\* A roster with as many ids as signers repeats no id.
LEMMA IdsDiffer ==
    ASSUME NEW ss \in Seq(Signer), ~(Cardinality(Ids(ss)) < Len(ss))
    PROVE  DistinctIds(ss)
<1> DEFINE ids == [k \in 1..Len(ss) |-> ss[k].id]
<1>1. Len(ss) \in Nat /\ DOMAIN ss = 1..Len(ss)
  OBVIOUS
<1>2. ids \in Seq(Ids(ss)) /\ Len(ids) = Len(ss) /\ ToSet(ids) = Ids(ss)
  BY <1>1 DEF Ids, ToSet
<1>3. \A k \in 1..Len(ss) : ids[k] = ss[k].id
  OBVIOUS
<1> HIDE DEF ids
<1>4. IsInjective(ids)
  BY <1>2, LengthInjective
<1>5. DOMAIN ids = 1..Len(ss)
  BY <1>2
<1> QED BY <1>3, <1>4, <1>5 DEF IsInjective, DistinctIds

\* Either order of the keys lists the roster.
LEMMA MembersAre ==
    ASSUME NEW ss \in Seq(Signer), DistinctIds(ss), NEW script
    PROVE  LET f == Members(script, ss)
           IN  /\ ReordersRoster(f, ss) /\ f \in Seq(Signer) /\ Len(f) = Len(ss)
               /\ DOMAIN f = 1..Len(ss)
<1> DEFINE f == Members(script, ss)
<1>1. ReordersRoster(f, ss)
  BY SortedRoster DEF Members
<1> HIDE DEF f
<1>2. f \in [1..Len(ss) -> ToSet(ss)] /\ Len(ss) \in Nat /\ ToSet(ss) \subseteq Signer
  BY <1>1 DEF ReordersRoster, ToSet
<1>3. f \in [1..Len(ss) -> Signer]
  BY <1>2
<1> QED BY <1>1, <1>2, <1>3 DEF f

\* build() returns a descriptor of different keys.
LEMMA BuildOk ==
    ASSUME NEW ss \in Seq(Signer), NEW m, NEW net, NEW mode, NEW script, NEW internal,
           BuildError(Builder(m, net, mode, script, internal), ss) = "Ok"
    PROVE  /\ DistinctIds(ss) /\ Len(ss) \in Nat \ {0} /\ m \in 1..Len(ss)
           /\ IsBitcoin(net)
           /\ \A w : IsInjective(KeyList(Members(script, ss), w))
<1> DEFINE b == Builder(m, net, mode, script, internal)
           f == Members(script, ss)
           kl == KeyList(f, Wild(mode))
<1>1. /\ ~(Cardinality(Ids(ss)) < Len(ss)) /\ ss # <<>> /\ IsBitcoin(b.network)
      /\ ~(Cardinality(ToSet(Build(b, ss).keys)) < Len(ss))
      /\ b.threshold \in 1..Len(ss)
  BY DEF BuildError
<1>2. Len(ss) \in Nat \ {0}
  BY <1>1
<1>3. DistinctIds(ss)
  BY <1>1, IdsDiffer
<1>4. Build(b, ss).keys = kl
  BY BuildIs DEF Desc
<1>5. f \in Seq(Signer) /\ Len(f) = Len(ss) /\ DOMAIN f = 1..Len(ss)
  BY <1>3, MembersAre
<1>b. b.network = net /\ b.threshold = m
  BY DEF Builder
<1> HIDE DEF b, f
<1>6. DOMAIN kl = 1..Len(ss)
      /\ \A k \in 1..Len(ss) :
            kl[k] = [fp |-> f[k].fp, path |-> f[k].path, key |-> f[k].key, wild |-> Wild(mode)]
  BY <1>5 DEF KeyList
<1>7. kl \in Seq(ToSet(kl)) /\ Len(kl) = Len(ss)
  <2>1. kl = [k \in 1..Len(ss) |-> kl[k]] /\ \A k \in 1..Len(ss) : kl[k] \in ToSet(kl)
    BY <1>5, <1>6 DEF KeyList, ToSet
  <2> HIDE DEF kl
  <2> QED BY <1>2, <2>1
<1>8. IsInjective(kl)
  <2> HIDE DEF kl
  <2> QED BY <1>1, <1>4, <1>7, LengthInjective
<1>9. ASSUME NEW i \in 1..Len(ss), NEW j \in 1..Len(ss),
             f[i].fp = f[j].fp, f[i].path = f[j].path, f[i].key = f[j].key
      PROVE  i = j
  <2>1. kl[i] = kl[j]
    BY <1>6, <1>9
  <2> QED BY <1>6, <1>8, <2>1 DEF IsInjective
<1>10. ASSUME NEW w PROVE IsInjective(KeyList(f, w))
  <2> SUFFICES ASSUME NEW i \in 1..Len(ss), NEW j \in 1..Len(ss),
                      KeyList(f, w)[i] = KeyList(f, w)[j]
               PROVE  i = j
    BY <1>5 DEF IsInjective, KeyList
  <2>1. /\ KeyList(f, w)[i] = [fp |-> f[i].fp, path |-> f[i].path, key |-> f[i].key, wild |-> w]
        /\ KeyList(f, w)[j] = [fp |-> f[j].fp, path |-> f[j].path, key |-> f[j].key, wild |-> w]
    BY <1>5 DEF KeyList
  <2>2. /\ KeyList(f, w)[i].fp = f[i].fp /\ KeyList(f, w)[j].fp = f[j].fp
        /\ KeyList(f, w)[i].path = f[i].path /\ KeyList(f, w)[j].path = f[j].path
        /\ KeyList(f, w)[i].key = f[i].key /\ KeyList(f, w)[j].key = f[j].key
    BY ONLY <2>1
  <2>3. f[i].fp = f[j].fp /\ f[i].path = f[j].path /\ f[i].key = f[j].key
    BY <2>2
  <2> QED BY <1>9, <2>3
<1> QED BY <1>1, <1>2, <1>3, <1>10, <1>b DEF f
=============================================================================
